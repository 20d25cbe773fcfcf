-------------------------- MODULE ContainerAdapters --------------------------
(***************************************************************************)
(* The adapters for text, Markdown, RTF, archives, email, PDF and images   *)
(* (ingest/adapters/*.py).  Archives and email recurse: every member of    *)
(* every level is inspected under one ParseBudget, and a member that no    *)
(* rule recognises fails the whole source.                                 *)
(*                                                                         *)
(* A member has a name, a path verdict, a size, a packed size, a kind, and *)
(* what its kind needs: kids, chars, nodes, frames, px.  sound stands for  *)
(* every syntactic check of that kind, active for macros, scripts and      *)
(* external references.                                                    *)
(***************************************************************************)
EXTENDS TabularAdapters, ParserArtifacts

(* decode_text, then the escaped text is the body. *)
DecodeText(p, m) == Over(Reject(p, ~m.sound), m.chars > Limits.chars)
TextAdapter(src) == AddText(DecodeText(ReadBoundedSource(src), src), src.chars)

(* Markdown has the upload bound only; its front matter becomes metadata. *)
MarkdownAdapter(src) == AddText(Reject(ReadBoundedSource(src), ~src.sound), src.chars)

(***************************************************************************)
(* rtf.py: groups nest, a destination that is not text hides its group,    *)
(* and a Unicode escape skips the fallback characters that follow it.      *)
(***************************************************************************)
RtfStart == [p |-> Fresh, stack |-> <<>>, fallback |-> 0, buffer |-> 0, rtf |-> FALSE]

RootGroup == [skip |-> FALSE, starred |-> FALSE, start |-> TRUE, uc |-> 1]
Group(r) == IF r.stack = <<>> THEN RootGroup ELSE Last(r.stack)
SetGroup(r, g) == [r EXCEPT !.stack[Len(r.stack)] = g]

AppendCharacter(r, n) == [r EXCEPT !.p = AddText(Consume(@, "chars", n), n)]
FlushBytes(r) == [AppendCharacter(r, r.buffer) EXCEPT !.buffer = 0]
RtfNode(r) == [r EXCEPT !.p = Consume(@, "nodes", 1)]
RtfReject(r, cond) == [r EXCEPT !.p = Reject(@, cond)]

PushGroup(r) ==
    [r EXCEPT !.stack = Append(@, [Group(r) EXCEPT !.starred = FALSE, !.start = TRUE]),
              !.p = ConsumeNesting(@, Len(r.stack) + 1)]
OpenGroup(r) == RtfNode(PushGroup(FlushBytes(r)))

PopGroup(r) == IF r.p.err # "none" THEN r ELSE RtfNode([r EXCEPT !.stack = Front(@)])
CloseGroup(r) == PopGroup(RtfReject(FlushBytes(r), r.stack = <<>>))

LiteralByte(r) ==
    LET g == SetGroup(r, [Group(r) EXCEPT !.start = FALSE])
    IN  IF r.fallback > 0 THEN [g EXCEPT !.fallback = @ - 1]
        ELSE IF Group(r).skip THEN g
        ELSE [g EXCEPT !.buffer = @ + 1]

Hides(g, word) == g.skip \/ g.starred \/ (g.start /\ word = "dest")
Noted(r, word, arg) ==
    SetGroup(r, [Group(r) EXCEPT !.skip = Hides(Group(r), word), !.starred = FALSE, !.start = FALSE,
                                 !.uc = IF word = "uc" THEN arg ELSE @])
Obey(r, word, arg, hidden, uc) ==
    CASE word = "active" -> RtfReject(r, TRUE)
      [] word = "rtf" -> [r EXCEPT !.rtf = arg >= 1]
      [] word = "uc" -> RtfReject(r, arg > 8)
      [] word = "u" /\ ~hidden -> [AppendCharacter(r, 1) EXCEPT !.fallback = uc]
      [] word = "par" /\ ~hidden -> AppendCharacter(r, 1)
      [] OTHER -> r

(* A control word closes the run of literal bytes before it. *)
ControlWord(r, word, arg) ==
    Obey(Noted(RtfNode(FlushBytes(r)), word, arg), word, arg, Hides(Group(r), word), Group(r).uc)

RtfToken(r, t) ==
    IF r.p.err # "none" THEN r
    ELSE CASE t[1] = "{" -> OpenGroup(r)
           [] t[1] = "}" -> CloseGroup(r)
           [] r.stack = <<>> -> RtfReject(r, TRUE)
           [] t[1] = "char" -> LiteralByte(r)
           [] t[1] = "*" -> RtfNode(SetGroup(FlushBytes(r), [Group(r) EXCEPT !.starred = TRUE]))
           [] OTHER -> ControlWord(r, t[1], t[2])

RtfEnd(r) == RtfReject(FlushBytes(r), r.stack # <<>> \/ ~r.rtf).p
RtfOutput(p) == Over(p, p.text > Limits.out)
RtfAdapter(src) ==
    RtfOutput(RtfEnd(FoldLeft(RtfToken,
        [RtfStart EXCEPT !.p = Reject(ReadBoundedSource(src), ~src.sound)], src.tokens)))

(***************************************************************************)
(* archive.py                                                              *)
(***************************************************************************)
Containers == {"zip", "tar", "tgz", "gz"}

AppendMember(p, name, kind, depth) ==
    IF p.err # "none" THEN p
    ELSE [p EXCEPT !.members = Append(@, [name |-> name, kind |-> kind, depth |-> depth])]

UnpackedSize(m) == TotalOf(LAMBDA k : k.size, m.kids)

DecompressOneGzip(p, m) ==
    Over(Reject(Consume(p, "bytes", UnpackedSize(m)), ~m.sound),
         UnpackedSize(m) > Limits.ratio * (IF m.size = 0 THEN 1 ELSE m.size))

RECURSIVE InspectContainer(_, _, _), InspectMemberPayload(_, _, _, _)

InspectZip(p, m, depth) ==
    LET safe == Reject(SafeZipMembers(Reject(p, ~m.sound), m.kids), NamesCollide(m.kids))
        Member(q, k) ==
            IF k.dir THEN q
            ELSE InspectMemberPayload(
                    Consume(Consume(Reject(q, k.path = "crypt"), "parts", 1), "bytes", k.size),
                    k, depth + 1, TRUE)
    IN  FoldLeft(Member, safe, m.kids)

(* The names of a TAR are known only once it has been read to the end. *)
InspectTar(p, m, depth) ==
    LET Member(q, i) ==
            LET k == m.kids[i]
                named == Reject(Over(q, i > Limits.parts), k.path = "unsafe")
            IN  IF k.dir THEN named
                ELSE InspectMemberPayload(
                        Consume(Consume(Reject(named, k.path = "link"), "parts", 1),
                                "bytes", k.size),
                        k, depth + 1, TRUE)
    IN  Reject(FoldLeft(Member, p, Indices(m.kids)), NamesCollide(m.kids) \/ ~m.sound)

(* A tgz is the TAR inside it; a gz that happens to hold a TAR has it as a member. *)
InspectTgz(p, m, depth) ==
    LET tar == m.kids[1]
    IN  InspectTar(Reject(DecompressOneGzip(p, m), tar.path = "unsafe" \/ tar.kind # "tar"),
                   tar, depth)

InspectContainer(p, m, depth) ==
    LET q == ConsumeNesting(p, depth)
    IN  CASE m.kind = "zip" -> InspectZip(q, m, depth)
          [] m.kind = "tar" -> InspectTar(q, m, depth)
          [] m.kind = "tgz" -> InspectTgz(q, m, depth)
          [] m.kind = "gz" -> InspectMemberPayload(DecompressOneGzip(q, m), m.kids[1],
                                                   depth + 1, TRUE)

InspectText(p, m) ==
    LET valid == IF m.kind = "xml" THEN Consume(Reject(p, ~m.sound), "nodes", m.nodes) ELSE p
        spoken == Consume(Consume(DecodeText(valid, m), "chars", m.chars), "out", m.chars)
    IN  AddText(spoken, m.chars)

(* Wrong variant: a member inside a member starts a budget of its own. *)
InspectMemberPayloadAlone(p, m, depth, charged) ==
    IF m.kind \in Containers
    THEN LET q == InspectContainer(Fresh, m, depth)
         IN  Fails([AppendMember(p, m.name, "container", depth)
                      EXCEPT !.members = @ \o q.members, !.text = @ + q.text], q.err)
    ELSE AppendMember(p, m.name, m.kind, depth)

InspectMember(p, m, depth) ==
    IF p.err # "none" THEN p
    ELSE CASE m.kind \in Containers ->
                InspectContainer(AppendMember(p, m.name, "container", depth), m, depth)
           [] m.kind = "image" ->
                AppendMember(Reject(InspectImage(p, m), ~m.sound), m.name, "image", depth)
           [] m.kind \in {"pdf", "meta"} ->
                AppendMember(Reject(p, ~m.sound), m.name, m.kind, depth)
           [] m.kind \in {"text", "xml"} ->
                AppendMember(InspectText(p, m), m.name, "text", depth)
           [] OTHER -> Reject(p, TRUE)

InspectMemberPayload(p, m, depth, charged) ==
    LET opened == ConsumeNesting(Reject(p, m.path = "unsafe"), depth)
    IN  InspectMember(Reject(IF charged THEN opened ELSE Consume(opened, "bytes", m.size),
                             m.active), m, depth)

ArchiveOutput(p) == Over(p, 1 + Len(p.members) + p.text > Limits.out)
ArchiveAdapter(src) == ArchiveOutput(InspectContainer(ReadBoundedSource(src), src.root, 1))

(***************************************************************************)
(* email.py: a part is a forwarded message (rfc822), a multipart, a choice *)
(* of alternatives, an attachment, a body or a kind nobody recognises.  A  *)
(* body with a file name (named) is read as an attachment, although it is  *)
(* a candidate where alternatives are chosen.                              *)
(***************************************************************************)
InspectHeaders(p, m) == Consume(Consume(p, "nodes", m.headers), "chars", m.headers)

RegisterAttachmentName(p, name) ==
    LET q == Reject(p, name \in p.names)
    IN  IF q.err # "none" THEN q ELSE [q EXCEPT !.names = @ \cup {name}]

InspectAttachment(p, m, depth) ==
    InspectMemberPayload(RegisterAttachmentName(p, m.name), m.payload, depth + 1, FALSE)

TableCells(t) == Len(t.header) + TotalOf(LAMBDA r : Len(r), t.rows)
TableOutput(t) == Len(SelectSeq(t.header, LAMBDA h : h # <<>>))
                  + TotalOf(LAMBDA r : Len(Filled(r)), t.rows)

ReadBody(p, m) == Consume(DecodeText(Consume(p, "bytes", m.size), m), "chars", m.chars)
Emit(p, n, emit) == IF emit THEN AddText(Consume(p, "out", n), n) ELSE p

BodyTable(p, t, emit) ==
    LET charged == Consume(Consume(p, "rows", 1 + Len(t.rows)), "cells", TableCells(t))
    IN  IF emit THEN AddTable(Consume(charged, "out", TableOutput(t)), t.header, t.rows)
        ELSE charged

(* An HTML body is parsed under limits of its own and then charged. *)
HtmlBodyCharged(p, parsed, emit) ==
    IF parsed.err # "none" THEN Fails(p, parsed.err)
    ELSE Emit(FoldLeft(LAMBDA q, t : BodyTable(q, t, emit),
                       Consume(p, "nodes", parsed.used.nodes), parsed.tables),
              parsed.text, emit)

AppendBody(p, m, emit) ==
    IF m.kind = "plain" THEN Emit(ReadBody(p, m), m.chars, emit)
    ELSE HtmlBodyCharged(ReadBody(p, m), ParseInertHtml(Fresh, m.tokens), emit)

OpenPart(p, m, depth) == Reject(Consume(ConsumeNesting(p, depth), "parts", 1), ~m.sound)

InspectUnselectedAlternative(p, m, depth) ==
    AppendBody(InspectHeaders(OpenPart(p, m, depth), m), m, FALSE)

Bodies == {"plain", "html"}

(* The first plain body, else the first body, is the one that is emitted.  *)
SelectedAlternative(parts) ==
    LET plain == {i \in DOMAIN parts : parts[i].kind = "plain"}
        pool == IF plain # {} THEN plain ELSE {i \in DOMAIN parts : parts[i].kind \in Bodies}
    IN  IF pool = {} THEN 0 ELSE CHOOSE i \in pool : \A j \in pool : i <= j

RECURSIVE WalkMessage(_, _, _)
WalkPart(p, m, depth) ==
    LET Nested(r, k) ==
            LET named == RegisterAttachmentName(Consume(r, "bytes", k.size), m.name)
            IN  WalkMessage(AppendMember(named, m.name, "email", depth), k, depth + 1)
        Child(r, k) == WalkMessage(r, k, depth + 1)
        Choice(r, i) ==
            IF i = SelectedAlternative(m.kids) \/ m.kids[i].kind \notin Bodies
            THEN WalkMessage(r, m.kids[i], depth + 1)
            ELSE InspectUnselectedAlternative(r, m.kids[i], depth + 1)
    IN  IF p.err # "none" THEN p
        ELSE CASE m.kind = "rfc822" -> FoldLeft(Nested, Reject(p, m.kids = <<>>), m.kids)
               [] m.kind = "mixed" -> FoldLeft(Child, Reject(p, m.kids = <<>>), m.kids)
               [] m.kind = "alternative" ->
                    FoldLeft(Choice, Reject(p, m.kids = <<>>), Indices(m.kids))
               [] m.kind = "attachment" \/ m.named -> InspectAttachment(p, m, depth)
               [] m.kind \in Bodies -> AppendBody(p, m, TRUE)
               [] OTHER -> Reject(p, TRUE)

WalkMessage(p, m, depth) ==
    LET opened == OpenPart(p, m, depth)
    IN  WalkPart(IF depth > 1 THEN InspectHeaders(opened, m) ELSE opened, m, depth)

EmailOutput(p, headers) ==
    Over(p, headers + p.text + Len(p.members) + TotalOf(TableOutput, p.tables) > Limits.out)
EmailAdapter(src) ==
    EmailOutput(WalkMessage(InspectHeaders(ReadBoundedSource(src), src.message), src.message, 1),
                src.message.headers)

(***************************************************************************)
(* pdf.py: the text layer decides page by page whether OCR is needed; the  *)
(* page images are rendered all or none, and a failed rendering costs the  *)
(* preview, not the document.                                              *)
(***************************************************************************)
(* A page that no text layer explains is left to OCR. *)
PageNeedsOcr(page) == page.chars = 0 \/ page.garbled

OpenPdf(src) ==
    LET read == Reject(ReadBoundedSource(src), ~src.sound)
        sized == Over(Over(read, Len(src.pages) > Limits.pages), src.nodes > Limits.nodes)
    IN  Reject(sized, src.active)

RenderPreviewPages(pages) ==
    FoldLeft(LAMBDA q, page : Consume(Reject(CheckImagePixels(q, page.px), ~page.draws),
                                      "out", page.px), Fresh, pages)

PreviewStatus(drawn, pages) ==
    CASE Len(pages) + 1 > Limits.fds -> "render_budget_exceeded"
      [] drawn.err = "resource_limit_exceeded" -> "render_budget_exceeded"
      [] drawn.err = "parser_failed" -> "render_unavailable"
      [] OTHER -> "ready"

PdfResult(read, pages, preview) ==
    IF read.err # "none" THEN read
    ELSE [read EXCEPT
            !.prov = [i \in DOMAIN pages |->
                        IF PageNeedsOcr(pages[i]) THEN "ocr_required" ELSE "text_layer"],
            !.preview = preview,
            !.arts = IF preview # "ready" THEN <<>>
                     ELSE Append([i \in DOMAIN pages |-> PdfPage(i, PageNeedsOcr(pages[i]))],
                                 PdfManifest)]

PdfAdapter(src) ==
    LET Page(q, page) == AddText(Consume(q, "chars", page.chars),
                                 IF PageNeedsOcr(page) THEN 0 ELSE page.chars)
        read == FoldLeft(Page, OpenPdf(src), src.pages)
        drawn == Consume(Consume(RenderPreviewPages(src.pages), "out", 1), "out", read.text)
    IN  PdfResult(read, src.pages, PreviewStatus(drawn, src.pages))

(***************************************************************************)
(* image.py: one upright PNG of the first frame, always left to OCR.       *)
(***************************************************************************)
ImageAdapter(src) ==
    LET sized == CheckImagePixels(Reject(ReadBoundedSource(src), ~src.sound), src.px)
        p == Over(Over(sized, src.frames > Limits.frames), src.px + 1 > Limits.out)
    IN  IF p.err # "none" THEN p
        ELSE [p EXCEPT !.prov = <<"ocr_required">>,
                       !.arts = <<SanitizedImage>>]

(***************************************************************************)
(* The handlers that build_default_registry registers, by format.          *)
(***************************************************************************)
Normalize(src) ==
    CASE src.fmt \in {"csv", "tsv"} -> DelimitedAdapter(src)
      [] src.fmt = "xlsx" -> XlsxAdapter(src)
      [] src.fmt = "docx" -> DocxAdapter(src)
      [] src.fmt = "pptx" -> PptxAdapter(src)
      [] src.fmt \in {"odt", "ods", "odp"} -> OdfAdapter(src)
      [] src.fmt = "html" -> HtmlAdapter(src)
      [] src.fmt \in {"json", "xml"} -> StructuredAdapter(src)
      [] src.fmt = "txt" -> TextAdapter(src)
      [] src.fmt = "md" -> MarkdownAdapter(src)
      [] src.fmt = "rtf" -> RtfAdapter(src)
      [] src.fmt \in Containers -> ArchiveAdapter(src)
      [] src.fmt = "eml" -> EmailAdapter(src)
      [] src.fmt = "pdf" -> PdfAdapter(src)
      [] src.fmt = "image" -> ImageAdapter(src)
      [] OTHER -> Fails(Fresh, "adapter_unavailable")
=============================================================================
