---------------------------- MODULE MCJobQueue ----------------------------
(* Instances of JobQueue for TLC. *)
EXTENDS JobQueue, TLC

CONSTANTS j1, j2, j3, w1, w2, t1, t2

\* every row and process runs the legacy profile
AllLegacyJobs == [j \in Jobs |-> Legacy]
AllLegacyWorkers == [w \in Workers |-> Legacy]

\* one slot per process
OneSlot == t1 :> w1 @@ t2 :> w2

\* a universal process serves the rows of its registry; the row of a retired
\* registry digest has no process
CONSTANTS registry, retired
UniversalJobs == j1 :> registry @@ j2 :> registry @@ j3 :> retired
UniversalWorkers == [w \in Workers |-> registry]
OnlySlot == t1 :> w1

=============================================================================
