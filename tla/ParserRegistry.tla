---------------------------- MODULE ParserRegistry ----------------------------
(***************************************************************************)
(* The closed table of parsers in the sidecar: the handler of a format and *)
(* the self test that decides at startup which formats the sidecar         *)
(* advertises (ingest/parser_service.py).                                  *)
(***************************************************************************)
EXTENDS ContainerAdapters

(* _adapter_handler and _delimited_handler bind an adapter to one format.  *)
(* The adapter of another format finds the source malformed.               *)
AdapterHandler(fmt, src) ==
    IF src.fmt = fmt THEN Normalize(src) ELSE Fails(Fresh, "parser_failed")

(***************************************************************************)
(* _startup_fixture: one tiny safe source for each format, with as many    *)
(* rows, pages and members as the built-in one has (a package keeps its    *)
(* document parts only).                                                   *)
(***************************************************************************)
Member(kind, size, path) ==
    [name |-> kind, path |-> path, size |-> size, comp |-> 1, kind |-> kind, dir |-> FALSE,
     active |-> FALSE, sound |-> TRUE, kids |-> <<>>, chars |-> size, nodes |-> 1,
     frames |-> 1, px |-> 1]
Xml == Member("xml", 1, "safe")
Mime == Member("mime", 1, "safe")
Txt(name, size) == [Member("text", size, "safe") EXCEPT !.name = name]
Pack(kind, size, kids) == [Member(kind, size, "safe") EXCEPT !.kids = kids]

Node(kind, tag, val, kids) == [kind |-> kind, tag |-> tag, val |-> val, kids |-> kids]
Leaf(tag, val) == Node("scalar", tag, val, <<>>)
Element(tag, kids) == Node("element", tag, "w", kids)

Data == <<"data", "w">>
Part(kind, kids) == [kind |-> kind, sound |-> TRUE, headers |-> 0, name |-> "a", size |-> 1,
                     kids |-> kids, chars |-> 1, tokens |-> <<Data>>, payload |-> Txt("a", 1),
                     named |-> FALSE]
Page(chars, garbled) == [chars |-> chars, garbled |-> garbled, px |-> 1, draws |-> TRUE,
                         ruled |-> FALSE]

Content(fmt) ==
    CASE fmt \in {"txt", "md"} -> [chars |-> 1]
      [] fmt = "csv" -> [rows |-> <<<<"w", "w">>, <<"w", "n">>>>]
      [] fmt = "json" -> [value |-> Node("dict", "w", "", <<Leaf("w", "n")>>)]
      [] fmt = "xml" -> [value |-> Element("w", <<Element("k", <<>>)>>)]
      [] fmt = "html" -> [tokens |-> <<<<"open", "p">>, Data, <<"close", "p">>>>]
      [] fmt = "rtf" -> [tokens |-> <<<<"{">>, <<"rtf", 1>>, <<"char">>, <<"}">>>>]
      [] fmt = "eml" -> [message |-> [Part("plain", <<>>) EXCEPT !.headers = 1]]
      [] fmt = "image" -> [px |-> 1, frames |-> 1]
      [] fmt = "pdf" -> [active |-> FALSE, nodes |-> 1, pages |-> <<Page(1, FALSE)>>]
      [] fmt = "docx" -> [members |-> <<Xml>>, media |-> <<>>,
                          blocks |-> <<[kind |-> "text", text |-> "w"]>>]
      [] fmt = "xlsx" -> [members |-> <<Xml>>, media |-> <<>>,
                          sheets |-> <<[grid |-> <<<<"k", "w">>, <<"w", "n">>>>, merges |-> <<>>]>>]
      [] fmt = "pptx" -> [members |-> <<Xml>>, slides |-> <<[text |-> 1, tables |-> <<>>]>>]
      [] fmt \in {"odt", "odp"} -> [members |-> <<Mime, Xml>>, text |-> <<1>>, tables |-> <<>>]
      [] fmt = "ods" -> [members |-> <<Mime, Xml>>, text |-> <<>>,
                         tables |-> <<<<[rep |-> 1, cells |-> <<[rep |-> 1, value |-> "w"]>>]>>>>]
      [] fmt \in {"zip", "tar", "gz"} -> [root |-> Pack(fmt, 1, <<Txt("a", 1)>>)]
      [] fmt = "tgz" -> [root |-> Pack("tgz", 1, <<Pack("tar", 1, <<Txt("a", 1)>>)>>)]

StartupFixture(fmt) == [fmt |-> fmt, size |-> 1, sound |-> TRUE] @@ Content(fmt)

(* _run_startup_self_test: a full parse of the fixture and its artifacts;  *)
(* the preflight parses it once more, with the same result.                *)
SelfTestPasses(fmt, doc) == doc.err = "none" /\ ResultArtifactSet(fmt, doc)
RunStartupSelfTest(fmt) == SelfTestPasses(fmt, AdapterHandler(fmt, StartupFixture(fmt)))

(* startup_self_test: the formats that pass, of those whose parser works.  *)
StartupSelfTest(working) == {fmt \in working : RunStartupSelfTest(fmt)}
=============================================================================
