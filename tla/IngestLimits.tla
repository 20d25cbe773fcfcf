----------------------------- MODULE IngestLimits -----------------------------
(***************************************************************************)
(* IngestLimits of ingest/limits.py, one bound for each resource, and the  *)
(* record of a parse that has not charged anything.                        *)
(***************************************************************************)
EXTENDS Naturals, Sequences

CONSTANT Limits    \* IngestLimits: one bound for each resource

Resources == {"bytes", "pixels", "frames", "pages", "chars", "nodes",
              "rows", "cells", "parts", "out"}

(* The bounds that are compared with a single observation. *)
Ceilings == {"upload", "ratio", "nesting", "sheet", "fds"}

ASSUME LimitsAssumption == Limits \in [Resources \cup Ceilings -> Nat]

(* A new ParseBudget and an empty inspection. *)
Fresh ==
    [err |-> "none", used |-> [r \in Resources |-> 0], nesting |-> 0,
     names |-> {}, tables |-> <<>>, text |-> 0, members |-> <<>>,
     prov |-> <<>>, preview |-> "none", arts |-> <<>>]
=============================================================================
