--------------------------- MODULE MCParserSidecar ---------------------------
(***************************************************************************)
(* The sources of one upload.  Limits are small enough that each format    *)
(* has sources on both sides of every bound it charges.                    *)
(***************************************************************************)
EXTENDS ParserSidecar, ParseReference

CONSTANTS upload, other, b1, b2, b3, MaxFaults

SeqsUpTo(S, n) == UNION {[1..k -> S] : k \in 0..n}

(* How a source presents itself. *)
File(magic, text, suffix) ==
    [magic |-> magic, text |-> text, suffix |-> suffix, delim |-> suffix = "csv",
     markup |-> "none", package |-> {}, marks |-> {}]
Packages == {"docx", "xlsx", "pptx", "odt", "ods", "odp"}
FileOf(fmt) ==
    CASE fmt \in Packages -> [File("zip", "none", fmt) EXCEPT !.package = {fmt}]
      [] fmt \in {"pdf", "image"} -> File(fmt, "none", fmt)
      [] fmt = "rtf" -> File("rtf", "safe", "txt")
      [] fmt \in {"zip", "tar"} -> File(fmt, "none", fmt)
      [] fmt \in {"gz", "tgz"} -> File("gzip", "none", fmt)
      [] fmt \in {"html", "xml"} -> [File("none", "safe", "txt") EXCEPT !.markup = fmt]
      [] OTHER -> File("none", "safe", fmt)

Extra == {"fmt", "size", "sound", "file", "intent"}
OfFormat(fmt, S) == {[f \in DOMAIN s \cup Extra |->
                        CASE f = "fmt" -> fmt [] f = "size" -> 1 [] f = "sound" -> TRUE
                          [] f = "file" -> FileOf(fmt) [] f = "intent" -> "legacy"
                          [] OTHER -> s[f]] : s \in S}

MCLimits ==
    [bytes |-> 4, pixels |-> 3, frames |-> 2, pages |-> 2, chars |-> 3, nodes |-> 8,
     rows |-> 2, cells |-> 4, parts |-> 3, out |-> 6,
     upload |-> 2, ratio |-> 2, nesting |-> 3, sheet |-> 12, fds |-> 3]

(* Tables *)
Csv == OfFormat("csv", {[rows |-> r] : r \in SeqsUpTo({<<"w", "n">>, <<"", "w">>, <<"w">>}, 2)}
          \cup {[rows |-> <<<<"w">>, <<"n">>, <<"n">>>>], [rows |-> <<<<"w", "w", "w">>>>]})

Rows2 == {<<"k", "", "w">>, <<"n", "", "n">>, <<"", "", "">>}
Xlsx == OfFormat("xlsx",
          {[members |-> <<Xml>>, media |-> <<>>,
            sheets |-> <<[grid |-> g, merges |-> m]>>] :
              g \in [1..3 -> Rows2],
              m \in {<<>>, <<[top |-> 1, bottom |-> 2, left |-> 1, right |-> 2]>>}}
          \cup {[members |-> ms, media |-> md, sheets |-> <<>>] :
                  ms \in {<<Member("xml", 3, "safe")>>, <<Xml, Member("xml", 1, "unsafe")>>,
                          <<Xml, Xml, Xml, Xml>>},
                  md \in {<<>>, <<[sound |-> TRUE, px |-> 4]>>}})

Docx == OfFormat("docx", {[members |-> <<Xml>>, media |-> md, blocks |-> bs] :
          md \in {<<>>, <<[sound |-> FALSE, px |-> 4]>>},
          bs \in SeqsUpTo({[kind |-> "text", text |-> "w"],
                           [kind |-> "table", rows |-> <<<<"w">>, <<"n", "n">>>>],
                           [kind |-> "table", rows |-> <<>>]}, 2)})

Pptx == OfFormat("pptx", {[members |-> ms, slides |-> sl] :
          ms \in {<<Xml>>, <<Xml, Xml>>, <<Xml, Member("image", 1, "safe")>>,
                  <<Xml, Member("font", 1, "safe")>>},
          sl \in SeqsUpTo({[text |-> 1, tables |-> <<>>],
                           [text |-> 0, tables |-> <<<<<<"w", "">>, <<"n">>>>>>]}, 3)})

OdfTables == {<<[rep |-> r, cells |-> <<[rep |-> c, value |-> "w"], [rep |-> 1, value |-> ""]>>],
                [rep |-> s, cells |-> <<[rep |-> 1, value |-> "n"]>>]>> :
                  r \in 1..2, c \in 1..2, s \in {0, 1}}
Odf == OfFormat("ods", {[members |-> <<Mime, Xml>>, tables |-> <<t>>, text |-> <<>>] :
                           t \in OdfTables})
       \cup OfFormat("odp", {[members |-> ms, tables |-> <<>>, text |-> n] :
               ms \in {<<Mime, Xml>>, <<Xml, Mime>>}, n \in SeqsUpTo({0, 2}, 3)})
       \cup OfFormat("odt", {[members |-> <<Mime>>, text |-> <<1>>,
                              tables |-> <<<<[rep |-> 3, cells |-> <<>>],
                                             [rep |-> 1, cells |-> <<[rep |-> 5, value |-> ""]>>]>>>>]})

Open(t) == <<"open", t>>
Close(t) == <<"close", t>>
Html == OfFormat("html", {[tokens |-> t] : t \in {
    <<>>, <<Data, Data>>,
    <<Open("script"), Data, Close("script"), Data>>,
    <<Open("table"), Open("tr"), Open("td"), Data, Close("table"), Data>>,
    <<Open("table"), Open("tr"), Open("td"), Data, Open("tr")>>,
    <<Open("table"), Open("td"), Data, Data, Open("td"), Data>>,
    <<Open("table"), Data, Open("tr"), Close("tr"), Close("table")>>,
    <<Open("table"), Open("td"), Close("td"), Data, Open("td"), Close("table"), Data>>,
    <<Close("tr"), Open("td"), Data, Close("p"), Data>>,
    <<Open("table"), Close("table"), Open("table"), Open("td"), Data>>,
    <<Open("table"), Open("table")>>,
    <<Open("p"), Open("p"), Open("p"), Open("p")>>,
    [k \in 1..9 |-> Data]}})

Row(tag, kids) == Node("dict", tag, "", kids)
Structured ==
    OfFormat("json", {[value |-> v] : v \in {
        Leaf("w", "n"),
        Node("list", "w", "", <<Row("w", <<Leaf("w", "n")>>), Row("w", <<Leaf("k", "n")>>)>>),
        Node("dict", "w", "", <<Node("list", "k", "", <<Row("w", <<Leaf("w", "")>>)>>)>>),
        Node("list", "w", "", <<Leaf("w", "n"), Row("w", <<>>)>>),
        Node("list", "w", "", <<>>),
        Node("list", "w", "", [k \in 1..8 |-> Leaf("w", "n")])}})
    \cup OfFormat("xml", {[value |-> v] : v \in {
        Element("w", <<Element("r", <<Element("k", <<>>)>>), Element("r", <<Element("k", <<>>)>>)>>),
        Element("w", <<Element("r", <<>>), Element("r", <<>>)>>),
        Element("w", <<Element("r", <<Element("k", <<Element("k", <<Element("k", <<>>)>>)>>)>>)>>)}})

(* Text and containers *)
Text == OfFormat("txt", {[chars |-> n] : n \in 0..4}) \cup OfFormat("md", {[chars |-> 4]})
        \cup UNION {{[s EXCEPT !.size = 3], [s EXCEPT !.sound = FALSE]} :
                       s \in OfFormat("txt", {[chars |-> 1]})}

Rtf == OfFormat("rtf", {[tokens |-> <<<<"{">>, <<"rtf", 1>>>> \o t \o <<<<"}">>>>] :
          t \in {<<>>, <<<<"char">>, <<"par", 0>>, <<"char">>>>,
                 <<<<"{">>, <<"dest", 0>>, <<"char">>, <<"}">>, <<"char">>>>,
                 <<<<"{">>, <<"*">>, <<"other", 0>>, <<"char">>>>,
                 <<<<"{">>, <<"dest", 0>>, <<"{">>, <<"char">>, <<"}">>, <<"}">>>>,
                 <<<<"{">>, <<"other", 0>>, <<"char">>, <<"}">>, <<"char">>>>,
                 <<<<"{">>, <<"{">>, <<"{">>, <<"}">>, <<"}">>, <<"}">>>>,
                 <<<<"char">>, <<"char">>, <<"char">>, <<"char">>>>,
                 <<<<"active", 0>>>>, <<<<"}">>, <<"char">>>>}})

Folder == [Member("text", 0, "safe") EXCEPT !.dir = TRUE, !.name = "d"]
Leaves == {Txt("a", 1), Txt("b", 2), [Txt("c", 1) EXCEPT !.path = "unsafe"],
           [Txt("c", 1) EXCEPT !.active = TRUE], Member("image", 1, "safe"),
           Member("font", 1, "safe"), [Txt("c", 1) EXCEPT !.path = "link"], Folder}
(* The same GZip under a name that makes it a tgz and under any other name. *)
Zipped == {Pack(k, 1, <<x>>) : k \in {"gz", "tgz"},
             x \in {Pack("tar", n, <<Txt("a", 1), y>>) : n \in 1..3, y \in {Txt("b", 1), Folder}}
                   \cup {Pack("zip", 1, <<Txt("a", 1)>>), Txt("a", 1),
                         [Pack("tar", 1, <<Txt("a", 1)>>) EXCEPT !.path = "unsafe"]}}
Trees == {Pack(k, 1, <<x, y>>) : k \in {"zip", "tar"}, x \in {Txt("a", 1), Folder}, y \in Leaves}
         \cup {Pack(k, 1, <<Pack(j, 1, <<Txt("a", 1), Txt("b", 1)>>), Txt("b", 1)>>) :
                 k \in {"zip", "tar"}, j \in {"zip", "tar"}}
         \cup {Pack("zip", 1, <<z, Txt("b", 1)>>) : z \in Zipped}
         \cup Zipped
         \cup {Pack("zip", 1, <<Pack("gz", 1, <<Txt("a", n)>>)>>) : n \in 1..3}
         \cup {Pack("zip", 1, <<Pack("zip", 1, <<Pack("zip", 1, <<Txt("a", 1)>>)>>)>>)}
Archive == UNION {OfFormat(k, {[root |-> t] : t \in {u \in Trees : u.kind = k}}) : k \in Containers}
           \cup {[s EXCEPT !.file = File("gzip", "none", "csv")] :
                   s \in OfFormat("gz", {[root |-> Pack("gz", 1, <<Txt("a", 1)>>)]})}

Attached(m) == [Part("attachment", <<>>) EXCEPT !.payload = m]
Plain == Part("plain", <<>>)
Named == [Plain EXCEPT !.named = TRUE]
HtmlBody == [Part("html", <<>>) EXCEPT !.tokens = <<Open("table"), Open("td"), Data,
                                                    Close("table"), Data>>]
Email == OfFormat("eml", {[message |-> m] : m \in {
    Plain, HtmlBody, Part("other", <<>>), Part("mixed", <<>>),
    Part("mixed", <<Plain, Attached(Txt("a", 1))>>),
    Part("mixed", <<Attached(Txt("a", 1)), Attached(Txt("a", 1))>>),
    Part("alternative", <<HtmlBody, Plain>>), Part("alternative", <<HtmlBody>>),
    Part("alternative", <<Plain, HtmlBody>>), Part("alternative", <<Plain, Plain>>),
    Part("alternative", <<HtmlBody, Named>>), Part("alternative", <<Plain, Named>>),
    Part("alternative", <<Attached(Txt("a", 1)), Named>>), Part("mixed", <<Plain, Named>>),
    Part("mixed", <<Part("rfc822", <<Plain>>)>>),
    Part("mixed", <<Part("mixed", <<Part("mixed", <<Plain>>)>>)>>),
    Part("mixed", <<Attached(Pack("zip", 1, <<Txt("a", 1)>>))>>)}})

PdfOf(pages) == [active |-> FALSE, nodes |-> 1, pages |-> pages]
Pdf == OfFormat("pdf", {PdfOf(p) : p \in SeqsUpTo({Page(1, FALSE), Page(0, FALSE), Page(1, TRUE),
                                                   [Page(1, FALSE) EXCEPT !.draws = FALSE],
                                                   [Page(2, FALSE) EXCEPT !.px = 4],
                                                   [Page(2, FALSE) EXCEPT !.ruled = TRUE]}, 2)}
          \cup {PdfOf(<<Page(1, FALSE), Page(1, FALSE), Page(1, FALSE)>>),
                [PdfOf(<<Page(1, FALSE)>>) EXCEPT !.active = TRUE]})

Image == OfFormat("image", {[px |-> p, frames |-> f] : p \in {0, 1, 4}, f \in {1, 3}})

Small == OfFormat("txt", {[chars |-> 1]}) \cup OfFormat("image", {[px |-> 1, frames |-> 1]})
         \cup OfFormat("pdf", {PdfOf(<<Page(1, FALSE), Page(0, FALSE)>>)})

MCItems == {upload, other}
MCBuilds == {b1, b2, b3}
One(s, n) == [src |-> (upload :> s), faults |-> n]
Nothing == [fmt |-> "unknown", size |-> 1, file |-> File("none", "none", ""), intent |-> "legacy"]
AllSources == Csv \cup Xlsx \cup Docx \cup Pptx \cup Odf \cup Html \cup Structured
              \cup Text \cup Rtf \cup Archive \cup Email \cup Pdf \cup Image

(* Content that no adapter reads, under honest and misleading names. *)
Presented(f, intent) == [Nothing EXCEPT !.file = f, !.intent = intent]
Magics == {"empty", "executable", "tar", "gzip", "audio", "heif", "pk", "none"}
Odd == {Presented(File(g, t, x), "legacy") :
          g \in Magics, t \in {"none", "noisy"}, x \in {"csv", "txt"}}
       \cup {Presented(File(g, "noisy", "tgz"), "legacy") : g \in {"gzip", "none"}}
       \cup {Presented([File(g, "none", "csv") EXCEPT !.marks = {k}], "legacy") :
               g \in {"pdf", "zip"}, k \in {"encrypted", "active", "unsafe", "class", "bomb", "none"}}
       \cup {Presented([File("zip", "none", "txt") EXCEPT !.package = {"docx", "xlsx"}], "legacy"),
             Presented([File("none", "safe", "txt") EXCEPT !.marks = {"shebang"}], "legacy")}
(* The intent of the user decides about formats that a build has or lacks. *)
Intended == {[s EXCEPT !.intent = n] : s \in Small \cup OfFormat("csv", {[rows |-> <<<<"w">>>>]}),
                                       n \in {"bill", "generic"}}

(* Every source without faults, the small ones with them and two at once.  *)
(* The PDF, which has pages and a manifest to lose, meets two faults; one  *)
(* is an upgrade of the sidecar with the restarts that follow it.          *)
MCLoads == {One(s, 0) : s \in AllSources \cup Odd \cup Intended}
           \cup {One(s, IF s.fmt = "pdf" THEN MaxFaults ELSE 1) : s \in Small}
           \cup {[src |-> (upload :> s @@ other :> s), faults |-> 0] : s \in OfFormat("txt", {[chars |-> 1]})}

Formats == {"csv", "xlsx", "docx", "pptx", "odt", "ods", "odp", "html", "json", "xml", "txt",
            "md", "rtf", "zip", "tar", "tgz", "gz", "eml", "pdf", "image"}
(* The second build has lost plain text and tables, the third one lacks a  *)
(* format that every registry must have.                                   *)
MCWorking == b1 :> Formats @@ b2 :> Formats \ {"txt", "csv"} @@ b3 :> Formats \ {"image"}
(* Every fixture fits the limits, so that what works is advertised: the    *)
(* module's assumption runs the self tests.                                *)
MCEnabled == MCWorking
=============================================================================
