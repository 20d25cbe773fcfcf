--------------------------- MODULE ParseReference ---------------------------
(***************************************************************************)
(* What an accepted source owes its reader, stated on the source alone and *)
(* without a budget: how much content is visible in it, and how large it   *)
(* is by the measures that IngestLimits bounds.                            *)
(***************************************************************************)
EXTENDS ParserRegistry

Weight(cell) == IF Blank(cell) THEN 0 ELSE IF cell = "w w" THEN 2 ELSE 1
RowWeight(row) == TotalOf(Weight, row)
GridWeight(rows) == TotalOf(RowWeight, rows)

(* Column names that were made up for blank headers show nothing. *)
HeaderWeight(h) == IF h = <<>> \/ h[1] = "column" THEN 0 ELSE Weight(h[1])
TableWeight(t) == TotalOf(HeaderWeight, t.header) + GridWeight(t.rows)
Shown(doc) == doc.text + TotalOf(TableWeight, doc.tables)

(* HTML: text that no script or style encloses. *)
HtmlVisible(tokens) ==
    LET Opened(k, way) == Cardinality({j \in 1..(k - 1) : tokens[j][1] = way
                                          /\ tokens[j][2] \in {"script", "style"}})
    IN  Cardinality({k \in DOMAIN tokens : tokens[k][1] = "data"
                        /\ Opened(k, "open") = Opened(k, "close")})

(* RTF: characters that no hidden group encloses. *)
RtfVisible(tokens) ==
    LET Depth(k) == Cardinality({j \in 1..k : tokens[j][1] = "{"})
                    - Cardinality({j \in 1..k : tokens[j][1] = "}"})
        Encloses(j, k) == tokens[j][1] = "{" /\ j < k
                          /\ \A m \in j..k : Depth(m) >= Depth(j)
        Hidden(j) == j < Len(tokens) /\ tokens[j + 1][1] \in {"dest", "*"}
    IN  Cardinality({k \in DOMAIN tokens : tokens[k][1] \in {"char", "par"}
                        /\ ~\E j \in DOMAIN tokens : Encloses(j, k) /\ Hidden(j)})

(* Archives: every member of every level.  The TAR in a tgz is no member. *)
RECURSIVE TreeMembers(_), TreeBytes(_), TreeDepth(_), TreeText(_)
Files(m) == SelectSeq(IF m.kind = "tgz" THEN m.kids[1].kids ELSE m.kids, LAMBDA k : ~k.dir)
TreeMembers(m) == TotalOf(LAMBDA k : 1 + TreeMembers(k), Files(m))
TreeBytes(m) == (IF m.kind = "tgz" THEN m.kids[1].size ELSE 0)
                + TotalOf(LAMBDA k : k.size + TreeBytes(k), Files(m))
TreeDepth(m) ==
    LET depths == {TreeDepth(Files(m)[k]) : k \in DOMAIN Files(m)} \cup {0}
    IN  1 + CHOOSE d \in depths : \A e \in depths : e <= d
TreeText(m) == (IF m.kind \in {"text", "xml"} THEN m.chars ELSE 0)
               + TotalOf(TreeText, Files(m))

(* Email: one representation of each choice, and everything else. *)
MailKids(m) ==
    LET bodies == SelectSeq(m.kids, LAMBDA k : k.kind \in Bodies)
        plain == SelectSeq(bodies, LAMBDA k : k.kind = "plain")
        others == SelectSeq(m.kids, LAMBDA k : k.kind \notin Bodies)
    IN  IF m.kind # "alternative" \/ bodies = <<>> THEN m.kids
        ELSE Append(others, IF plain # <<>> THEN plain[1] ELSE bodies[1])

Attaches(m) == m.kind = "attachment" \/ m.named

RECURSIVE MailVisible(_), MailDepth(_)
MailVisible(m) ==
    CASE Attaches(m) -> TreeText(m.payload)
      [] m.kind = "plain" /\ ~m.named -> m.chars
      [] m.kind = "html" /\ ~m.named -> HtmlVisible(m.tokens)
      [] OTHER -> TotalOf(MailVisible, MailKids(m))
MailDepth(m) ==
    LET depths == {MailDepth(MailKids(m)[k]) : k \in DOMAIN MailKids(m)} \cup {0}
    IN  (IF Attaches(m) THEN TreeDepth(m.payload) ELSE 0)
        + 1 + CHOOSE d \in depths : \A e \in depths : e <= d

OdfRows(src) == TotalOf(LAMBDA t : TotalOf(LAMBDA r : IF r.cells = <<>> THEN 0 ELSE r.rep, t),
                        src.tables)
OdfCells(src, W(_)) ==
    TotalOf(LAMBDA t : TotalOf(LAMBDA r : r.rep * TotalOf(LAMBDA c : c.rep * W(c.value), r.cells),
                               t), src.tables)

(* The content that must be found again in the normalized document. *)
Visible(src) ==
    CASE src.fmt \in {"csv", "tsv"} -> GridWeight(src.rows)
      [] src.fmt = "docx" -> TotalOf(LAMBDA b : IF b.kind = "table" THEN GridWeight(b.rows)
                                                ELSE Weight(b.text), src.blocks)
      [] src.fmt = "pptx" -> TotalOf(LAMBDA s : s.text + TotalOf(GridWeight, s.tables), src.slides)
      [] src.fmt \in {"odt", "ods", "odp"} ->
            OdfCells(src, Weight) + TotalOf(LAMBDA n : n, src.text)
            + (IF src.fmt = "odp" THEN Len(src.text) ELSE 0)
      [] src.fmt = "html" -> HtmlVisible(src.tokens)
      [] src.fmt \in {"txt", "md"} -> src.chars
      [] src.fmt = "rtf" -> RtfVisible(src.tokens)
      [] src.fmt \in Containers -> TreeText(src.root)
      [] src.fmt = "eml" -> MailVisible(src.message)
      [] src.fmt = "pdf" ->
            TotalOf(LAMBDA p : IF PageNeedsOcr(p) THEN 0 ELSE p.chars, src.pages)
      [] OTHER -> 0

(* Workbooks drop what stands above a header, but every filled cell is in  *)
(* exactly one of the blocks that a header is looked for in.  Structured   *)
(* values keep their text and tabulate a part of it.                       *)
Conserved(src, doc) ==
    CASE src.fmt = "xlsx" ->
            \A s \in DOMAIN src.sheets :
                LET grid == ExpandedGrid(src.sheets[s])
                IN  TotalOf(GridWeight, SplitSubtables(grid)) = GridWeight(grid)
      [] src.fmt \in {"json", "xml", "image"} -> TRUE
      [] src.fmt \in Containers -> Shown(doc) = Visible(src)
                                   /\ Len(doc.members) = TreeMembers(src.root)
      [] OTHER -> Shown(doc) = Visible(src)

(* The size of an accepted source is within every limit that bounds it. *)
Bounded(src) ==
    /\ src.size <= Limits.upload
    /\ CASE src.fmt \in {"csv", "tsv"} ->
              Len(src.rows) <= Limits.rows /\ TotalOf(LAMBDA r : Len(r), src.rows) <= Limits.cells
         [] src.fmt = "xlsx" ->
              \A s \in DOMAIN src.sheets :
                  TotalOf(LAMBDA r : Len(r), src.sheets[s].grid) <= Limits.sheet
         [] src.fmt = "pptx" -> Len(src.slides) <= Limits.pages
         [] src.fmt \in {"odt", "ods", "odp"} ->
              OdfRows(src) <= Limits.rows /\ OdfCells(src, LAMBDA v : 1) <= Limits.cells
         [] src.fmt = "html" -> Len(SelectSeq(src.tokens, LAMBDA t : t[1] # "close")) <= Limits.nodes
         [] src.fmt \in {"json", "xml"} -> NodeCount(src.value) <= Limits.nodes
         [] src.fmt = "txt" -> src.chars <= Limits.chars
         [] src.fmt = "rtf" -> Len(SelectSeq(src.tokens, LAMBDA t : t[1] # "char")) <= Limits.nodes
         [] src.fmt \in Containers ->
              /\ TreeBytes(src.root) <= Limits.bytes
              /\ TreeDepth(src.root) <= Limits.nesting
              /\ TreeMembers(src.root) <= Limits.parts + Limits.nesting
         [] src.fmt = "eml" -> MailDepth(src.message) <= Limits.nesting
         [] src.fmt = "pdf" -> Len(src.pages) <= Limits.pages
         [] src.fmt = "image" -> src.px <= Limits.pixels /\ src.frames <= Limits.frames
         [] OTHER -> TRUE
=============================================================================
