------------------------- MODULE MCMappingWorkflow -------------------------
EXTENDS MappingWorkflow

CONSTANTS m1, m2, s1, a1, a2    \* keys

MCKeys == [mapping |-> {m1, m2}, set |-> {s1}, apply |-> {a1, a2}]

Rule(target, columns, parser, style, sign) ==
    [target |-> target, columns |-> columns, literal |-> <<>>, nulls |-> {<<"string", "n/a">>},
     values |-> <<>>, parser |-> parser, style |-> style, sign |-> sign, aliases |-> <<>>]

(* A bill with an amount and a date, and a note with two joined columns and a
   literal. *)
Bill == [loc |-> "sheet:1",
         rules |-> <<Rule("amount", <<<<"a">>>>, "decimal", "comma", "absolute"),
                     Rule("due", <<<<"a", 2>>>>, "date", "dmy", "preserve")>>,
         required |-> {"amount"}, kind |-> "financial", subtype |-> "bill"]

Note == [loc |-> "sheet:2",
         rules |-> <<Rule("text", <<<<"b">>, <<"b", 2>>>>, "raw", "none", "preserve"),
                     [Rule("currency", <<>>, "currency", "none", "preserve")
                        EXCEPT !.literal = <<"string", "yen">>,
                               !.aliases = (<<"string", "yen">> :> <<"code", "JPY">>)]>>,
         required |-> {}, kind |-> "generic", subtype |-> "none"]

(* A rule that MappingContract refuses: a decimal without a style. *)
Malformed == [Bill EXCEPT !.rules = <<Rule("amount", <<<<"a">>>>, "decimal", "none", "preserve")>>]

MCDrafts == [bill |-> Bill, note |-> Note, malformed |-> Malformed]

(* Repeated headers, a comma amount, an amount that does not parse, a blank row
   in the middle, a short row and a null marker.  The side table has a row with
   a cell beyond its header. *)
Ledger(body) == [loc |-> "sheet:1", header |-> <<<<"a">>, <<"a">>, <<>>>>, rows |-> body]

Rows1 == << <<<<"comma", 1, 5>>, <<"slash", 3, 14>>, Null>>,
            <<Null, Null>>,
            <<<<"string", "n/a">>, <<"slash", 3, 4>>>>,
            <<<<"integer", -2>>>> >>
Rows2 == << <<<<"comma", 1, 5>>, <<"slash", 3, 4>>, Null>>,
            <<Null, Null>>,
            <<<<"string", "x">>, <<"slash", 3, 4>>>>,
            <<<<"integer", 7>>>> >>

Side == [loc |-> "sheet:2", header |-> <<<<"b">>, <<"b">>>>,
         rows |-> << <<<<"date", 1>>>>, <<Null, Null, <<"string", "over">>>> >>]

Tables(ts, residual) == [tables |-> ts, residual |-> residual]

(* Another build reads other cells from the same structure; of the replacement one
   build reads a table and the other only text. *)
MCNormalized ==
    << << Tables(<<Ledger(Rows1), Side>>, <<"string", "terms">>),
          Tables(<<Ledger(Rows2), Side>>, <<"string", "terms">>) >>,
       << Tables(<<Side>>, Null), Tables(<<>>, <<"string", "letter">>) >> >>

(* The sessions are interchangeable, and so are the keys of one kind of request. *)
Symmetry == Permutations(Users) \cup Permutations({m1, m2}) \cup Permutations({a1, a2})
=============================================================================
