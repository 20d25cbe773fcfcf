---------------------------- MODULE JobContract ----------------------------
(***************************************************************************)
(* What the queue promises about one row, without workers, leases or time: *)
(* the contract the rest of the system is written against.  JobQueue is    *)
(* checked to implement it.                                                *)
(***************************************************************************)
EXTENDS Naturals

CONSTANTS Jobs, RebuildJobs, MaxAttempts

VARIABLES status, attempts, completed

contractVars == <<status, attempts, completed>>

Init ==
    /\ status = [j \in Jobs |-> "absent"]
    /\ attempts = [j \in Jobs |-> 0]
    /\ completed = [j \in Jobs |-> FALSE]

(* One row changes from its status and attempts to s and n. *)
Becomes(j, s, n) == status'[j] = s /\ attempts'[j] = n

Keeps(j) == Becomes(j, status[j], attempts[j])

Insert(j) == status[j] = "absent" /\ Becomes(j, "queued", 0)

(* A first claim, a retry, or the reclaim of a lease that ran out. *)
Attempt(j) ==
    /\ status[j] \in {"queued", "running"}
    /\ attempts[j] < MaxAttempts
    /\ Becomes(j, "running", attempts[j] + 1)

Retry(j) ==
    /\ status[j] = "running"
    /\ attempts[j] < MaxAttempts
    /\ Becomes(j, "queued", attempts[j])

GiveUp(j) ==
    /\ status[j] = "running"
    /\ attempts[j] = MaxAttempts
    /\ Becomes(j, "dead", attempts[j])

Finish(j) ==
    /\ status[j] = "running"
    /\ completed[j]
    /\ Becomes(j, "done", attempts[j])

(* A rebuild row whose last lease ran out without a result starts over; the
   transaction that puts it back may also be the one that claims it. *)
StartOver(j) ==
    /\ j \in RebuildJobs
    /\ status[j] = "running"
    /\ attempts[j] = MaxAttempts
    /\ ~completed[j]
    /\ Becomes(j, "queued", 0) \/ Becomes(j, "running", 1)

(* Results are recorded by whoever runs the handler, even by an attempt that
   has lost its row, and are never taken back. *)
Result(j) == completed[j] => completed'[j]

RowStep(j) ==
    /\ \/ Keeps(j) \/ Insert(j) \/ Attempt(j) \/ Retry(j)
       \/ GiveUp(j) \/ Finish(j) \/ StartOver(j)
    /\ Result(j)

(* One transaction may bury any number of rows and claim another. *)
Next == \A j \in Jobs : RowStep(j)

Spec == Init /\ [][Next]_contractVars

=============================================================================
