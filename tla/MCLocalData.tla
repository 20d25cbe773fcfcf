---------------------------- MODULE MCLocalData ----------------------------
(***************************************************************************)
(* Instances of LocalData: legacy databases of many shapes that are only   *)
(* upgraded, and a few that are upgraded, used, backed up and restored.    *)
(***************************************************************************)
EXTENDS LocalData, TLC

CONSTANTS a, b

Nothing == [what \in Faults \cup Acts |-> 0]

Doc(orig, deriv, ext, failed, chunks) ==
    [orig |-> orig, deriv |-> deriv, ext |-> ext, failed |-> failed,
     intake |-> [v \in DOMAIN orig |-> "none"], chunks |-> chunks]

(* Legacy rows: no batch yet; only decided rows can have been verified, and
   an approval may lack its verified record. *)
LegacyRows(n) ==
    {[src |-> v, status |-> s, verified |-> w, batch |-> "none"] :
        v \in 0..n, s \in {"approved", "superseded"}, w \in BOOLEAN}
    \cup {[src |-> v, status |-> s, verified |-> FALSE, batch |-> "none"] :
            v \in 0..n, s \in {"pending", "rejected"}}

Derived(orig, bound) ==
    {[content |-> orig[v], src |-> IF bound THEN v ELSE 0] : v \in DOMAIN orig}

Shapes(orig) ==
    LET n == Len(orig)
        exts == {<<>>} \cup {<<r>> : r \in LegacyRows(n)} \cup (LegacyRows(n) \X LegacyRows(n))
    IN  {Doc(orig, deriv, ext, failed, chunks) :
            deriv \in {{}, Derived(orig, TRUE), Derived(orig, FALSE),
                       {[content |-> orig[n], src |-> 0]}},
            ext \in exts, failed \in {{}, {n}},
            chunks \in {{}, {[of |-> n, ext |-> 0]}}}

Case(doc, older, what) ==
    [doc |-> doc, schema |-> "legacy", older |-> older, may |-> what @@ Nothing]

Approved == [src |-> 1, status |-> "approved", verified |-> TRUE, batch |-> "none"]
Pending == [src |-> 1, status |-> "pending", verified |-> FALSE, batch |-> "none"]
Stored == Doc(<<a>>, {}, <<>>, {}, {})
Reviewed == Doc(<<a>>, Derived(<<a>>, FALSE), <<Approved>>, {}, {[of |-> 1, ext |-> 0]})
Waiting == Doc(<<a>>, Derived(<<a>>, TRUE), <<Pending>>, {}, {})

MCCases ==
    {Case(d, {}, "kill" :> 1) : d \in Shapes(<<a>>) \cup Shapes(<<a, b>>)}
    \cup {Case(d, {}, [upload |-> 1, review |-> 1, index |-> 1, backup |-> 1,
                       restore |-> 1, kill |-> 1]) : d \in {Stored, Reviewed}}
    \cup {Case(Waiting, {}, [review |-> 3, index |-> 1, kill |-> 1])}
    \cup {Case(Reviewed, {Stored}, [upload |-> 1, restore |-> 2, oserror |-> 1,
                                    kill |-> 1, update |-> 1])}

(* A source that this code stores, processes and reviews; nothing fails. *)
Uploaded == [Stored EXCEPT !.intake = <<"queued">>]
MCOwn == {[Case(Uploaded, {}, "review" :> 3) EXCEPT !.schema = "current"]}
=============================================================================
