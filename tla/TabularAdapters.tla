--------------------------- MODULE TabularAdapters ---------------------------
(***************************************************************************)
(* The adapters that can find tables: CSV/TSV, XLSX, OpenDocument, DOCX,   *)
(* PPTX, HTML and structured data (ingest/adapters/*.py).  Each one is a   *)
(* function from an abstract source to a finished parse.                   *)
(*                                                                         *)
(* A cell is "" (blank), "n" (looks like data), "k" (a header keyword) or  *)
(* other text; a character, a run of text and its output byte are one      *)
(* unit.  A header is a sequence: <<"w">> is the text w, <<"w", 2>> the    *)
(* text w with the suffix that tells duplicates apart.                     *)
(***************************************************************************)
EXTENDS ParseBudget, FiniteSets

Blank(cell) == cell = ""
NonBlank(row) == \E i \in DOMAIN row : ~Blank(row[i])
Filled(row) == SelectSeq(row, LAMBDA c : ~Blank(c))
Length(cell) == IF Blank(cell) THEN 0 ELSE 1
Indices(s) == [i \in 1..Len(s) |-> i]

AddTable(p, header, rows) ==
    IF p.err # "none" THEN p
    ELSE [p EXCEPT !.tables = Append(@, [header |-> header, rows |-> rows])]

AddText(p, n) == IF p.err # "none" THEN p ELSE [p EXCEPT !.text = @ + n]

(* Ragged matrices are padded with blanks to the widest row. *)
Padded(matrix) ==
    LET width == CHOOSE w \in {Len(matrix[i]) : i \in DOMAIN matrix} :
                    \A i \in DOMAIN matrix : Len(matrix[i]) <= w
    IN  [i \in DOMAIN matrix |->
            [c \in 1..width |-> IF c <= Len(matrix[i]) THEN matrix[i][c] ELSE ""]]

HeaderText(cell) == IF Blank(cell) THEN <<>>
                    ELSE IF cell = "w__2" THEN <<"w", 2>> ELSE <<cell>>
RawHeader(cells) == [i \in DOMAIN cells |-> HeaderText(cells[i])]

FirstRowIsHeader(p, matrix) ==
    IF matrix = <<>> THEN p
    ELSE AddTable(p, RawHeader(Padded(matrix)[1]), Tail(Padded(matrix)))

(***************************************************************************)
(* delimited.py: strict quoting, aggregate row and cell bounds, the first  *)
(* row is the header.                                                      *)
(***************************************************************************)
UniqueHeaders(cells) ==
    LET raw == RawHeader(cells)
        Base(i) == IF raw[i] = <<>> THEN <<"column", i>> ELSE raw[i]
        Seen(i) == Cardinality({j \in 1..i : Base(j) = Base(i)})
    IN  [i \in DOMAIN cells |-> IF Seen(i) = 1 THEN Base(i) ELSE Append(Base(i), Seen(i))]

IterDelimitedRows(p, rows) ==
    FoldLeft(LAMBDA q, row : Consume(Consume(q, "rows", 1), "cells", Len(row)), p, rows)

DelimitedAdapter(src) ==
    LET p == Reject(ReadBoundedSource(src), ~src.sound)
        q == IterDelimitedRows(p, src.rows)
    IN  IF src.rows = <<>> THEN q
        ELSE AddTable(q, UniqueHeaders(src.rows[1]), Tail(src.rows))

(***************************************************************************)
(* xlsx.py: merged ranges are expanded, each sheet is split at blank rows  *)
(* and then at blank columns, the best scoring row of a block becomes its  *)
(* header and what stands above it is dropped.                             *)
(***************************************************************************)
WorksheetGrid(p, sheet) ==
    LET rows == Len(sheet.grid)
        cols == IF rows = 0 THEN 0 ELSE Len(sheet.grid[1])
    IN  FoldLeft(LAMBDA q, m : Reject(q, m.bottom > rows \/ (rows > 0 /\ m.right > cols)),
                 Over(p, rows * cols > Limits.sheet), sheet.merges)

Expand(grid, m) ==
    [r \in DOMAIN grid |-> [c \in DOMAIN grid[r] |->
        IF r \in m.top..m.bottom /\ c \in m.left..m.right
        THEN grid[m.top][m.left] ELSE grid[r][c]]]

ExpandedGrid(sheet) == FoldLeft(Expand, sheet.grid, sheet.merges)

(* The maximal runs of TRUE, in order: _nonblank_ranges. *)
NonblankRanges(flags) ==
    LET Runs == {r \in (DOMAIN flags) \X (DOMAIN flags) :
                    /\ \A i \in r[1]..r[2] : flags[i]
                    /\ r[1] <= r[2]
                    /\ r[1] = 1 \/ ~flags[r[1] - 1]
                    /\ r[2] = Len(flags) \/ ~flags[r[2] + 1]}
    IN  SetToSortSeq(Runs, LAMBDA a, b : a[1] < b[1])

SplitSubtables(grid) ==
    LET Blocks == NonblankRanges([r \in DOMAIN grid |-> NonBlank(grid[r])])
        Columns(b) == NonblankRanges([c \in DOMAIN grid[1] |->
                          \E r \in b[1]..b[2] : ~Blank(grid[r][c])])
        Cut(b, c) == SelectSeq([i \in 1..(b[2] - b[1] + 1) |->
                                    SubSeq(grid[b[1] + i - 1], c[1], c[2])], NonBlank)
    IN  FlattenSeq([i \in DOMAIN Blocks |->
            [j \in DOMAIN Columns(Blocks[i]) |-> Cut(Blocks[i], Columns(Blocks[i])[j])]])

HeaderScore(rows, i) ==
    LET cells == Filled(rows[i])
        Wide(r) == Len(Filled(r)) >= (IF Len(cells) < 2 THEN Len(cells) ELSE 2)
    IN  1000 * (Len(cells) + 2 * Cardinality(ToSet(cells))
                + Len(SelectSeq(cells, LAMBDA c : c # "n"))
                + 4 * Len(SelectSeq(cells, LAMBDA c : c = "k"))
                + (IF \E j \in (i + 1)..Len(rows) : Wide(rows[j]) THEN 2 ELSE 0))
        - (i - 1)

DetectHeaderRow(rows) ==
    CHOOSE i \in DOMAIN rows :
        /\ NonBlank(rows[i])
        /\ \A j \in DOMAIN rows : NonBlank(rows[j]) =>
              \/ HeaderScore(rows, i) > HeaderScore(rows, j)
              \/ HeaderScore(rows, i) = HeaderScore(rows, j) /\ i <= j

ExtractWorkbookTables(p, grid) ==
    LET Take(q, matrix) ==
            LET h == DetectHeaderRow(matrix)
                rows == SelectSeq(SubSeq(matrix, h + 1, Len(matrix)), NonBlank)
            IN  IF rows = <<>> THEN q ELSE AddTable(q, UniqueHeaders(matrix[h]), rows)
    IN  FoldLeft(Take, p, SplitSubtables(grid))

(* extract_embedded_images: unreadable, small and repeated media are left  *)
(* out; an oversized one fails the parse.                                  *)
ExtractEmbeddedImages(p, media) ==
    FoldLeft(LAMBDA q, m : IF m.sound THEN CheckImagePixels(q, m.px) ELSE q, p, media)

XlsxAdapter(src) ==
    LET p == SafeZipMembers(ReadBoundedSource(src), src.members)
        Sheet(q, s) == LET r == WorksheetGrid(q, s)
                       IN  IF r.err # "none" THEN r
                           ELSE ExtractWorkbookTables(r, ExpandedGrid(s))
    IN  ExtractEmbeddedImages(FoldLeft(Sheet, Reject(p, ~src.sound), src.sheets), src.media)

(***************************************************************************)
(* docx.py: blocks in body order; a table without rows is skipped, prose   *)
(* is what remains beside the tables.                                      *)
(***************************************************************************)
DocxAdapter(src) ==
    LET p == Reject(SafeZipMembers(ReadBoundedSource(src), src.members), ~src.sound)
        Block(q, b) == IF b.kind = "table" THEN FirstRowIsHeader(q, b.rows)
                       ELSE AddText(q, Length(b.text))
    IN  ExtractEmbeddedImages(FoldLeft(Block, p, src.blocks), src.media)

(***************************************************************************)
(* The package loop that pptx.py and odf.py share: metadata first, then    *)
(* every member in order is charged, positively classified or rejected.    *)
(***************************************************************************)
PackageMember(p, m) ==
    LET q == Consume(Consume(Reject(p, m.path = "crypt"), "parts", 1), "bytes", m.size)
    IN  IF m.dir THEN p
        ELSE CASE m.kind = "mime" -> q
               [] m.kind = "xml" -> Reject(Consume(q, "nodes", m.nodes), m.active)
               [] m.kind = "image" -> InspectImage(q, m)
               [] OTHER -> Reject(q, TRUE)

InspectPackage(src, misplaced) ==
    LET safe == SafeZipMembers(ReadBoundedSource(src), src.members)
        p == Reject(safe, NamesCollide(src.members) \/ misplaced)
    IN  FoldLeft(PackageMember, p, src.members)

(***************************************************************************)
(* pptx.py: slides in presentation order; text inside a table is not       *)
(* repeated as slide text.                                                 *)
(***************************************************************************)
PptxCell(p, c) == Consume(Consume(p, "cells", 1), "chars", Length(c))
PptxRow(p, row) == FoldLeft(PptxCell, Consume(p, "rows", 1), row)

PptxRows(p, rows) ==
    IF rows = <<>> THEN p
    ELSE Consume(FirstRowIsHeader(p, rows), "out", TotalOf(LAMBDA r : Len(Filled(r)), rows))
PptxTable(p, rows) ==
    IF p.err # "none" THEN p
    ELSE PptxRows(FoldLeft(PptxRow, p, rows), SelectSeq(rows, LAMBDA r : r # <<>>))

PptxSlide(p, slide) ==
    IF p.err # "none" THEN p
    ELSE AddText(Consume(Consume(FoldLeft(PptxTable, p, slide.tables), "chars", slide.text),
                         "out", 1 + slide.text), slide.text)

PptxSlides(p, slides) == IF p.err # "none" THEN p ELSE FoldLeft(PptxSlide, p, slides)
PptxAdapter(src) ==
    PptxSlides(Consume(Reject(InspectPackage(src, FALSE), ~src.sound \/ src.slides = <<>>),
                       "pages", Len(src.slides)), src.slides)

(***************************************************************************)
(* odf.py: the mimetype member comes first and unpacked; repeated rows and *)
(* cells are bounded before they are expanded; formulas stay text.         *)
(***************************************************************************)
BoundedRepeat(p, n, limit) == Over(Reject(p, n < 1), n > limit)

OdfValues(row) == FlattenSeq([i \in DOMAIN row.cells |->
                     [j \in 1..row.cells[i].rep |-> row.cells[i].value]])
OdfCell(p, c, times) ==
    Consume(BoundedRepeat(p, c.rep, Limits.cells), "chars", Length(c.value) * times * c.rep)

OdfKeep(p, matrix, values, times) ==
    IF p.err # "none" THEN [p |-> p, matrix |-> matrix]
    ELSE [p |-> p, matrix |-> matrix \o [j \in 1..times |-> values]]
OdfCharge(p, values, times) ==
    Consume(Consume(Over(p, Len(values) > Limits.cells), "rows", times),
            "cells", Len(values) * times)

OdfRow(acc, row) ==
    LET values == OdfValues(row)
        read == FoldLeft(LAMBDA q, c : OdfCell(q, c, row.rep),
                         BoundedRepeat(acc.p, row.rep, Limits.rows), row.cells)
    IN  IF values = <<>> THEN [acc EXCEPT !.p = read]
        ELSE OdfKeep(OdfCharge(read, values, row.rep), acc.matrix, values, row.rep)

OdfMatrix(acc) ==
    Consume(FirstRowIsHeader(acc.p, acc.matrix), "out",
            TotalOf(LAMBDA r : Len(Filled(r)), acc.matrix))
OdfTable(p, table) == OdfMatrix(FoldLeft(OdfRow, [p |-> p, matrix |-> <<>>], table))

(* A presentation writes one heading for each page, even an empty one. *)
OdfText(p, src) ==
    LET paged == IF src.fmt = "odp" THEN Consume(p, "pages", Len(src.text)) ELSE p
        body == TotalOf(LAMBDA n : n, src.text)
                + (IF src.fmt = "odp" THEN Len(src.text) ELSE 0)
    IN  AddText(Consume(Consume(paged, "chars", TotalOf(LAMBDA n : n, src.text)),
                        "out", body), body)

OdfAdapter(src) ==
    LET first == \/ src.members = <<>>
                 \/ src.members[1].kind # "mime"
                 \/ src.members[1].comp # src.members[1].size
        p == Reject(InspectPackage(src, first), ~src.sound)
    IN  OdfText(FoldLeft(OdfTable, p, src.tables), src)

(***************************************************************************)
(* html.py: a token machine.  Suppressed elements hide their text, a table *)
(* collects cells, rows and itself as tags open and close, and close()     *)
(* finishes what the markup left open.  Nested tables are refused.         *)
(***************************************************************************)
HtmlStart == [p |-> Fresh, stack |-> <<>>, table |-> FALSE, rows |-> <<>>,
              rowOpen |-> FALSE, row |-> <<>>, cellOpen |-> FALSE, cell |-> 0]

(* The runs of text that one cell joined. *)
CellOf(n) == IF n = 0 THEN "" ELSE IF n = 1 THEN "w" ELSE "w w"

FinishCell(h) ==
    IF ~h.cellOpen THEN h
    ELSE [h EXCEPT !.p = Consume(@, "cells", 1), !.row = Append(@, CellOf(h.cell)),
                   !.cellOpen = FALSE, !.cell = 0]

EndRow(h) ==
    IF ~h.rowOpen THEN h
    ELSE IF h.row = <<>> THEN [h EXCEPT !.rowOpen = FALSE]
    ELSE [h EXCEPT !.p = Consume(@, "rows", 1), !.rows = Append(@, h.row),
                   !.row = <<>>, !.rowOpen = FALSE]
FinishRow(h) == EndRow(FinishCell(h))

EndTable(h) == [h EXCEPT !.p = FirstRowIsHeader(@, h.rows), !.table = FALSE, !.rows = <<>>]
FinishTable(h) == EndTable(FinishRow(h))

CountNode(h) == [h EXCEPT !.p = Consume(@, "nodes", 1)]

EnterTag(h, tag) ==
    CASE tag = "table" /\ h.table -> [h EXCEPT !.p = Reject(@, TRUE)]
      [] tag = "table" -> [h EXCEPT !.table = TRUE]
      [] tag = "tr" /\ h.table -> [FinishRow(h) EXCEPT !.rowOpen = TRUE]
      [] tag = "td" /\ h.table -> [FinishCell(h) EXCEPT !.rowOpen = TRUE, !.cellOpen = TRUE]
      [] OTHER -> h

PushTag(h, tag) ==
    [h EXCEPT !.stack = Append(@, tag), !.p = Over(@, Len(h.stack) + 1 > Limits.nesting)]

HandleStartTag(h, tag) == PushTag(EnterTag(CountNode(h), tag), tag)

LeaveTag(h, tag) ==
    CASE tag = "td" /\ h.table -> FinishCell(h)
      [] tag = "tr" /\ h.table -> FinishRow(h)
      [] tag = "table" /\ h.table -> FinishTable(h)
      [] OTHER -> h

(* The innermost open element of that name is closed, with all inside it. *)
PopTag(h, tag) ==
    LET opened == {i \in DOMAIN h.stack : h.stack[i] = tag}
    IN  IF opened = {} THEN h
        ELSE [h EXCEPT !.stack = SubSeq(@, 1, (CHOOSE i \in opened :
                                     \A j \in opened : j <= i) - 1)]

HandleEndTag(h, tag) == PopTag(LeaveTag(h, tag), tag)

Suppressed(h) == \E i \in DOMAIN h.stack : h.stack[i] \in {"script", "style"}

TakeData(h) ==
    IF Suppressed(h) THEN h
    ELSE IF h.table /\ h.cellOpen THEN [h EXCEPT !.cell = @ + 1]
    ELSE [h EXCEPT !.p = AddText(@, 1)]
HandleData(h) == TakeData(CountNode(h))

HtmlToken(h, token) ==
    IF h.p.err # "none" THEN h
    ELSE CASE token[1] = "open" -> HandleStartTag(h, token[2])
           [] token[1] = "close" -> HandleEndTag(h, token[2])
           [] OTHER -> HandleData(h)

CloseMarkup(h) == IF h.table THEN FinishTable(h).p ELSE h.p
CellsOf(t) == TotalOf(LAMBDA r : Len(Filled(r)), t.rows)
BoundOutput(p) == Over(p, p.text + TotalOf(CellsOf, p.tables) > Limits.out)

ParseInertHtml(p, tokens) ==
    BoundOutput(CloseMarkup(FoldLeft(HtmlToken, [HtmlStart EXCEPT !.p = p], tokens)))

HtmlAdapter(src) == ParseInertHtml(Reject(ReadBoundedSource(src), ~src.sound), src.tokens)

(***************************************************************************)
(* structured.py: JSON, JSONL and YAML values and XML elements are         *)
(* measured before their tables are discovered.                            *)
(***************************************************************************)
RECURSIVE NodeCount(_), Height(_), DataTables(_), PreOrder(_)
NodeCount(v) == 1 + TotalOf(NodeCount, v.kids)
Height(v) ==
    LET heights == {Height(v.kids[i]) : i \in DOMAIN v.kids} \cup {0}
    IN  1 + CHOOSE h \in heights : \A g \in heights : g <= h

(* A null is blank, a nested value is written out. *)
ScalarText(v) == IF v.kind \in {"scalar", "element"} /\ v.kids = <<>> THEN v.val ELSE "w"

(* One column for each key of the items, in the order of first appearance. *)
KeyedTable(items) ==
    LET keys == FoldLeft(LAMBDA ks, kid : IF Contains(ks, kid.tag) THEN ks
                                          ELSE Append(ks, kid.tag),
                         <<>>, FlattenSeq([i \in DOMAIN items |-> items[i].kids]))
        Cell(item, key) == LET found == SelectSeq(item.kids, LAMBDA k : k.tag = key)
                           IN  IF found = <<>> THEN "" ELSE ScalarText(found[1])
    IN  [header |-> RawHeader(keys),
         rows |-> [i \in DOMAIN items |-> [k \in DOMAIN keys |-> Cell(items[i], keys[k])]]]

(* A nonempty array of objects is a table and is not searched further. *)
DataTables(v) ==
    IF v.kind = "list" /\ v.kids # <<>> /\ \A i \in DOMAIN v.kids : v.kids[i].kind = "dict"
    THEN <<KeyedTable(v.kids)>>
    ELSE FlattenSeq([i \in DOMAIN v.kids |-> DataTables(v.kids[i])])

PreOrder(v) == <<v>> \o FlattenSeq([i \in DOMAIN v.kids |-> PreOrder(v.kids[i])])

(* Two or more sibling elements with one name and children of their own.   *)
(* Every element is searched, the rows of a found table included.          *)
XmlTables(root) ==
    LET Named(e, tag) == SelectSeq(e.kids, LAMBDA k : k.tag = tag)
        IsTable(e, tag) == /\ Len(Named(e, tag)) >= 2
                           /\ \A i \in DOMAIN Named(e, tag) : Named(e, tag)[i].kids # <<>>
        First(e, i) == \A j \in 1..(i - 1) : e.kids[j].tag # e.kids[i].tag
        Of(e) == LET heads == SelectSeq(Indices(e.kids),
                                 LAMBDA i : First(e, i) /\ IsTable(e, e.kids[i].tag))
                 IN  [h \in DOMAIN heads |->
                        KeyedTable(Named(e, e.kids[heads[h]].tag))]
    IN  FlattenSeq([i \in DOMAIN PreOrder(root) |-> Of(PreOrder(root)[i])])

StructuredAdapter(src) ==
    LET p == Reject(ReadBoundedSource(src), ~src.sound)
        q == Over(p, NodeCount(src.value) > Limits.nodes \/ Height(src.value) > Limits.nesting)
        tables == IF src.fmt = "xml" THEN XmlTables(src.value) ELSE DataTables(src.value)
        found == FoldLeft(LAMBDA r, t : AddTable(r, t.header, t.rows), q, tables)
    IN  AddText(Over(found, NodeCount(src.value) > Limits.out), 1)
=============================================================================
