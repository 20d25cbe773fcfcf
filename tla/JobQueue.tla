------------------------------ MODULE JobQueue ------------------------------
(***************************************************************************)
(* The durable job queue of clerksan/ingest/jobs.py together with the      *)
(* worker processes of clerksan/ingest/worker.py that claim, heartbeat,    *)
(* execute and settle its rows.                                            *)
(*                                                                         *)
(* Every database transaction of the code is one atomic step; everything   *)
(* the code does between two transactions (awaits, handler work, waiting   *)
(* on the heartbeat) is a place where the other processes may interleave.  *)
(* Timestamps are kept as the time that remains: leaseLeft[j] = 0 is       *)
(* lease_expires_at <= now and delayLeft[j] = 0 is available_at <= now.    *)
(***************************************************************************)
EXTENDS Naturals, FiniteSets

CONSTANTS
    Jobs,            \* identities of queue rows: (document, idempotency key)
    RebuildJobs,     \* the rows whose job_type is rebuild_format_derivatives
    ModelJobs,       \* the rows with a non-empty required_components list
    Evidence,        \* execution profiles with their registry digests
    Legacy,          \* the evidence of the legacy_compat profile
    EvidenceOfJob,   \* the evidence stored on a row by enqueue
    Workers,         \* lease owners: default_worker_id() of each process
    EvidenceOfWorker,\* intake mode and probed registry of each process
    Tasks,           \* asyncio task slots; max_concurrency of them per worker
    WorkerOf,        \* the process a task slot belongs to
    NoOwner,         \* lease_owner IS NULL
    NoJob,           \* an idle slot's job
    MaxAttempts,     \* settings.job_max_attempts
    Lease,           \* settings.job_lease_seconds, in clock ticks
    RetryBase,       \* settings.job_retry_base_seconds, in clock ticks
    MaxDelay,        \* _MAX_RETRY_DELAY_SECONDS, in clock ticks
    MaxFaults        \* bound: crashes, database faults and lost readiness

ASSUME JobAssumption ==
    /\ RebuildJobs \subseteq Jobs
    /\ ModelJobs \subseteq Jobs
    /\ NoJob \notin Jobs
ASSUME EvidenceAssumption ==
    /\ Legacy \in Evidence
    /\ EvidenceOfJob \in [Jobs -> Evidence]
    /\ EvidenceOfWorker \in [Workers -> Evidence]
ASSUME TaskAssumption ==
    /\ WorkerOf \in [Tasks -> Workers]
    /\ NoOwner \notin Workers
ASSUME NumberAssumption ==
    /\ MaxAttempts \in Nat \ {0}
    /\ Lease \in Nat \ {0}
    /\ RetryBase \in Nat
    /\ MaxDelay \in Nat
    /\ MaxFaults \in Nat

VARIABLES
    status,      \* [Jobs -> ...], "absent" before enqueue inserts the row
    attempts,    \* [Jobs -> 0..MaxAttempts]
    leaseOwner,  \* [Jobs -> Workers \cup {NoOwner}]
    leaseLeft,   \* [Jobs -> 0..Lease], time until lease_expires_at
    delayLeft,   \* [Jobs -> 0..MaxDelay], time until available_at
    completed,   \* [Jobs -> BOOLEAN], payload._pipeline.completed
    pc,          \* [Tasks -> Steps], where _execute_claimed stands
    taskJob,     \* [Tasks -> Jobs \cup {NoJob}], the claimed row of a slot
    beating,     \* [Tasks -> BOOLEAN], the slot's heartbeat task is alive
    lapsed,      \* [Tasks -> BOOLEAN], history: the lease ran out on the task
    process,     \* [Workers -> {"running", "stopping", "down"}]
    models,      \* [Workers -> BOOLEAN], last answer of _models_ready
    sandbox,     \* [Workers -> BOOLEAN], last answer of the sidecar probe
    faultsLeft   \* remaining budget of faults

rows     == <<status, attempts, leaseOwner, leaseLeft, delayLeft, completed>>
tasks    == <<pc, taskJob, beating, lapsed>>
machines == <<process, models, sandbox>>
vars     == <<rows, tasks, machines, faultsLeft>>

Statuses == {"absent", "queued", "running", "done", "dead"}
Steps == {"idle", "settling", "claimed", "marking", "handling", "finishing",
          "failing"}

RowsTypeOK ==
    /\ status \in [Jobs -> Statuses]
    /\ attempts \in [Jobs -> 0..MaxAttempts]
    /\ leaseOwner \in [Jobs -> Workers \cup {NoOwner}]
    /\ leaseLeft \in [Jobs -> 0..Lease]
    /\ delayLeft \in [Jobs -> 0..MaxDelay]
    /\ completed \in [Jobs -> BOOLEAN]

TasksTypeOK ==
    /\ pc \in [Tasks -> Steps]
    /\ taskJob \in [Tasks -> Jobs \cup {NoJob}]
    /\ beating \in [Tasks -> BOOLEAN]
    /\ lapsed \in [Tasks -> BOOLEAN]

MachinesTypeOK ==
    /\ process \in [Workers -> {"running", "stopping", "down"}]
    /\ models \in [Workers -> BOOLEAN]
    /\ sandbox \in [Workers -> BOOLEAN]
    /\ faultsLeft \in 0..MaxFaults

(* Type invariant of the queue's rows, the task slots and the processes: in
   particular the attempts and the backoff of every row stay in bounds. *)
TypeOK == RowsTypeOK /\ TasksTypeOK /\ MachinesTypeOK

Init ==
    /\ status = [j \in Jobs |-> "absent"]
    /\ attempts = [j \in Jobs |-> 0]
    /\ leaseOwner = [j \in Jobs |-> NoOwner]
    /\ leaseLeft = [j \in Jobs |-> 0]
    /\ delayLeft = [j \in Jobs |-> 0]
    /\ completed = [j \in Jobs |-> FALSE]
    /\ pc = [t \in Tasks |-> "idle"]
    /\ taskJob = [t \in Tasks |-> NoJob]
    /\ beating = [t \in Tasks |-> FALSE]
    /\ lapsed = [t \in Tasks |-> FALSE]
    /\ process = [w \in Workers |-> "running"]
    /\ models = [w \in Workers |-> FALSE]
    /\ sandbox = [w \in Workers |-> TRUE]
    /\ faultsLeft = MaxFaults

-----------------------------------------------------------------------------
(* enqueue inserts a queued row inside a savepoint.  When the (document,
   idempotency key) pair already has a row the unique constraint rolls the
   savepoint back and enqueue returns None: nothing changes. *)
Enqueue(j) ==
    /\ status' = [status EXCEPT ![j] = IF @ = "absent" THEN "queued" ELSE @]
    /\ UNCHANGED <<attempts, leaseOwner, leaseLeft, delayLeft, completed,
                   tasks, machines, faultsLeft>>

(* _execution_scope: a process only sees rows stored with its own evidence,
   and while its models are missing only rows that need none of them. *)
InScope(w, j) ==
    /\ EvidenceOfJob[j] = EvidenceOfWorker[w]
    /\ models[w] \/ j \notin ModelJobs

(* run(): when the loop goes on to call _claim. *)
MayClaim(w) ==
    /\ process[w] = "running"
    /\ EvidenceOfWorker[w] = Legacy => models[w]
    /\ EvidenceOfWorker[w] # Legacy => sandbox[w]

(* Wrong variant: the final attempt is one later than job_max_attempts. *)
ExhaustedTooLate(w, j) ==
    /\ InScope(w, j)
    /\ status[j] = "running"
    /\ leaseLeft[j] = 0
    /\ attempts[j] > MaxAttempts

(* _bury_exhausted_expired_jobs: the rows its UPDATE selects. *)
Exhausted(w, j) ==
    /\ InScope(w, j)
    /\ status[j] = "running"
    /\ leaseLeft[j] = 0
    /\ attempts[j] >= MaxAttempts

(* The status those rows end the transaction with: a recorded completion
   turns into done; an incomplete rebuild job is put back in the queue by
   _mark_terminal_processing_failure; everything else is dead. *)
BuriedStatus(w, j) ==
    IF ~Exhausted(w, j) THEN status[j]
    ELSE IF completed[j] THEN "done"
    ELSE IF j \in RebuildJobs THEN "queued"
    ELSE "dead"

(* Wrong variant: a rebuild row is queued without a fresh budget. *)
BuriedKeepsAttempts(w, j) == attempts[j]

(* The attempts they end it with: a rebuild job starts over from zero. *)
BuriedAttempts(w, j) ==
    IF Exhausted(w, j) /\ ~completed[j] /\ j \in RebuildJobs
    THEN 0 ELSE attempts[j]

(* _eligible_clause and the scope, evaluated after the burials, which the
   same transaction has already flushed. *)
Eligible(w, j) ==
    /\ InScope(w, j)
    /\ \/ /\ BuriedStatus(w, j) = "queued"
          /\ delayLeft[j] = 0 \/ Exhausted(w, j)
       \/ /\ BuriedStatus(w, j) = "running"
          /\ leaseLeft[j] = 0
          /\ BuriedAttempts(w, j) < MaxAttempts

(* claim_next in one transaction: bury, then lease one eligible row to the
   slot t.  Which eligible row is open: FOR UPDATE SKIP LOCKED passes over
   rows that other transactions hold.  The payload returned to the worker is
   the snapshot that sends _execute_claimed down its settling branch. *)
Claim(t, j) ==
    LET w == WorkerOf[t] IN
    /\ MayClaim(w)
    /\ pc[t] = "idle"
    /\ Eligible(w, j)
    /\ status' = [i \in Jobs |-> IF i = j THEN "running" ELSE BuriedStatus(w, i)]
    /\ attempts' = [i \in Jobs |-> BuriedAttempts(w, i) + (IF i = j THEN 1 ELSE 0)]
    /\ leaseOwner' = [i \in Jobs |-> IF i = j THEN w
                                     ELSE IF Exhausted(w, i) THEN NoOwner
                                     ELSE leaseOwner[i]]
    /\ leaseLeft' = [leaseLeft EXCEPT ![j] = Lease]
    /\ delayLeft' = [i \in Jobs |-> IF Exhausted(w, i) THEN 0 ELSE delayLeft[i]]
    /\ pc' = [pc EXCEPT ![t] = IF completed[j] THEN "settling" ELSE "claimed"]
    /\ taskJob' = [taskJob EXCEPT ![t] = j]
    /\ lapsed' = [lapsed EXCEPT ![t] = FALSE]
    /\ UNCHANGED <<completed, beating, machines, faultsLeft>>

(* claim_next when no row is eligible: the burials are still committed. *)
ClaimNothing(t) ==
    LET w == WorkerOf[t] IN
    /\ MayClaim(w)
    /\ pc[t] = "idle"
    /\ \A j \in Jobs : ~Eligible(w, j)
    /\ status' = [i \in Jobs |-> BuriedStatus(w, i)]
    /\ attempts' = [i \in Jobs |-> BuriedAttempts(w, i)]
    /\ leaseOwner' = [i \in Jobs |-> IF Exhausted(w, i) THEN NoOwner ELSE leaseOwner[i]]
    /\ delayLeft' = [i \in Jobs |-> IF Exhausted(w, i) THEN 0 ELSE delayLeft[i]]
    /\ UNCHANGED <<leaseLeft, completed, tasks, machines, faultsLeft>>

-----------------------------------------------------------------------------
(* Wrong variant: any caller may settle a running row. *)
RequireRunningOnly(t) == status[taskJob[t]] = "running"

(* _require_running_lease: the row must be running and carry the caller's
   lease_owner.  Neither the attempt number nor the expiry is compared. *)
RequireRunningLease(t) ==
    /\ status[taskJob[t]] = "running"
    /\ leaseOwner[taskJob[t]] = WorkerOf[t]

Goto(t, step) == pc' = [pc EXCEPT ![t] = step]

(* The coroutine of slot t returns, or its exception reaches
   _collect_finished, which discards it: the slot is free again. *)
Release(t) ==
    /\ Goto(t, "idle")
    /\ taskJob' = [taskJob EXCEPT ![t] = NoJob]
    /\ beating' = [beating EXCEPT ![t] = FALSE]
    /\ lapsed' = [lapsed EXCEPT ![t] = FALSE]

(* mark_done after its lease check passed. *)
MarkDone(t) ==
    LET j == taskJob[t] IN
    /\ RequireRunningLease(t)
    /\ status' = [status EXCEPT ![j] = "done"]
    /\ leaseOwner' = [leaseOwner EXCEPT ![j] = NoOwner]
    /\ leaseLeft' = [leaseLeft EXCEPT ![j] = 0]
    /\ UNCHANGED <<attempts, delayLeft, completed>>

(* _execute_claimed on a payload that was already completed when it was
   claimed: mark_done and nothing else; an exception ends the coroutine. *)
Settle(t) ==
    /\ pc[t] = "settling"
    /\ MarkDone(t) \/ (~RequireRunningLease(t) /\ UNCHANGED rows)
    /\ Release(t)
    /\ UNCHANGED <<machines, faultsLeft>>

(* get_handler found the handler: the heartbeat task starts. *)
StartHeartbeat(t) ==
    /\ pc[t] = "claimed"
    /\ Goto(t, "marking")
    /\ beating' = [beating EXCEPT ![t] = TRUE]
    /\ UNCHANGED <<rows, taskJob, lapsed, machines, faultsLeft>>

(* get_handler raised UnknownJobTypeError: straight to _record_failure. *)
UnknownHandler(t) ==
    /\ pc[t] = "claimed"
    /\ Goto(t, "failing")
    /\ UNCHANGED <<rows, taskJob, beating, lapsed, machines, faultsLeft>>

(* _mark_claimed_source_processing committed its own transaction. *)
MarkClaimedSourceProcessing(t) ==
    /\ pc[t] = "marking"
    /\ Goto(t, "handling")
    /\ UNCHANGED <<rows, taskJob, beating, lapsed, machines, faultsLeft>>

(* The handler's transaction commits, the completion marker with it.  The
   heartbeat is stopped and awaited before mark_done is called.  Nothing in
   this transaction looks at the lease. *)
HandlerCommit(t) ==
    /\ pc[t] = "handling"
    /\ completed' = [completed EXCEPT ![taskJob[t]] = TRUE]
    /\ Goto(t, "finishing")
    /\ beating' = [beating EXCEPT ![t] = FALSE]
    /\ UNCHANGED <<status, attempts, leaseOwner, leaseLeft, delayLeft,
                   taskJob, lapsed, machines, faultsLeft>>

(* The source transition or the handler raised: its transaction is rolled
   back, the heartbeat is stopped and _record_failure is next. *)
HandlerRaise(t) ==
    /\ pc[t] \in {"marking", "handling"}
    /\ Goto(t, "failing")
    /\ beating' = [beating EXCEPT ![t] = FALSE]
    /\ UNCHANGED <<rows, taskJob, lapsed, machines, faultsLeft>>

(* mark_done after a handler: losing the lease raises inside the same try
   block, so the generic handler records a failure next. *)
Finish(t) ==
    /\ pc[t] = "finishing"
    /\ \/ /\ MarkDone(t)
          /\ Release(t)
       \/ /\ ~RequireRunningLease(t)
          /\ Goto(t, "failing")
          /\ UNCHANGED <<rows, taskJob, beating, lapsed>>
    /\ UNCHANGED <<machines, faultsLeft>>

(* A database fault while mark_done runs takes the same path. *)
FinishFault(t) ==
    /\ pc[t] = "finishing"
    /\ faultsLeft > 0
    /\ faultsLeft' = faultsLeft - 1
    /\ Goto(t, "failing")
    /\ UNCHANGED <<rows, taskJob, beating, lapsed, machines>>

(* _retry_delay: base * 2 ** max(attempts - 1, 0), at most the cap. *)
RetryDelay(n) ==
    LET d == RetryBase * 2 ^ (IF n > 0 THEN n - 1 ELSE 0)
    IN  IF d \in 0..MaxDelay THEN d ELSE MaxDelay

(* Wrong variant: the last attempt is retried once more. *)
RetryOrBuryOffByOne(t) ==
    LET j == taskJob[t]
        final == attempts[j] > MaxAttempts
    IN
    /\ RequireRunningLease(t)
    /\ status' = [status EXCEPT ![j] = IF final THEN "dead" ELSE "queued"]
    /\ leaseOwner' = [leaseOwner EXCEPT ![j] = NoOwner]
    /\ leaseLeft' = [leaseLeft EXCEPT ![j] = 0]
    /\ delayLeft' = [delayLeft EXCEPT ![j] = IF final THEN @ ELSE RetryDelay(attempts[j])]
    /\ UNCHANGED <<attempts, completed>>

(* retry_or_bury after its lease check passed. *)
RetryOrBury(t) ==
    LET j == taskJob[t]
        final == attempts[j] >= MaxAttempts
    IN
    /\ RequireRunningLease(t)
    /\ status' = [status EXCEPT ![j] = IF final THEN "dead" ELSE "queued"]
    /\ leaseOwner' = [leaseOwner EXCEPT ![j] = NoOwner]
    /\ leaseLeft' = [leaseLeft EXCEPT ![j] = 0]
    /\ delayLeft' = [delayLeft EXCEPT ![j] = IF final THEN @ ELSE RetryDelay(attempts[j])]
    /\ UNCHANGED <<attempts, completed>>

(* _record_failure: a lost lease is swallowed, a row that is not running
   any more escapes as JobStateError; both leave the row alone. *)
RecordFailure(t) ==
    /\ pc[t] = "failing"
    /\ RetryOrBury(t) \/ (~RequireRunningLease(t) /\ UNCHANGED rows)
    /\ Release(t)
    /\ UNCHANGED <<machines, faultsLeft>>

(* A database fault in mark_done of a settled job or in _record_failure
   escapes the coroutine: the row keeps its lease until it expires. *)
OutcomeFault(t) ==
    /\ pc[t] \in {"settling", "failing"}
    /\ faultsLeft > 0
    /\ faultsLeft' = faultsLeft - 1
    /\ Release(t)
    /\ UNCHANGED <<rows, machines>>

(* One round of _renew_lease_until_stopped: renew_lease extends the lease,
   even one that has run out but was not reclaimed; losing it ends the
   heartbeat for good.  A database fault is retried on the next round. *)
Heartbeat(t) ==
    LET j == taskJob[t] IN
    /\ beating[t]
    /\ \/ /\ RequireRunningLease(t)
          /\ leaseLeft' = [leaseLeft EXCEPT ![j] = Lease]
          /\ UNCHANGED beating
       \/ /\ ~RequireRunningLease(t)
          /\ beating' = [beating EXCEPT ![t] = FALSE]
          /\ UNCHANGED leaseLeft
    /\ UNCHANGED <<status, attempts, leaseOwner, delayLeft, completed,
                   pc, taskJob, lapsed, machines, faultsLeft>>

-----------------------------------------------------------------------------
(* A hard kill, or cancellation of run(): every slot of the process vanishes,
   open transactions roll back, the rows keep their leases. *)
Crash(w) ==
    LET mine(t) == WorkerOf[t] = w IN
    /\ process[w] # "down"
    /\ faultsLeft > 0
    /\ faultsLeft' = faultsLeft - 1
    /\ process' = [process EXCEPT ![w] = "down"]
    /\ pc' = [t \in Tasks |-> IF mine(t) THEN "idle" ELSE pc[t]]
    /\ taskJob' = [t \in Tasks |-> IF mine(t) THEN NoJob ELSE taskJob[t]]
    /\ beating' = [t \in Tasks |-> IF mine(t) THEN FALSE ELSE beating[t]]
    /\ lapsed' = [t \in Tasks |-> IF mine(t) THEN FALSE ELSE lapsed[t]]
    /\ UNCHANGED <<rows, models, sandbox>>

(* SIGTERM sets the stop event: no further claim, active slots drain. *)
Stop(w) ==
    /\ process[w] = "running"
    /\ faultsLeft > 0
    /\ faultsLeft' = faultsLeft - 1
    /\ process' = [process EXCEPT ![w] = "stopping"]
    /\ UNCHANGED <<rows, tasks, models, sandbox>>

(* run() returns once its active slots are gathered. *)
Exit(w) ==
    /\ process[w] = "stopping"
    /\ \A t \in Tasks : WorkerOf[t] = w => pc[t] = "idle"
    /\ process' = [process EXCEPT ![w] = "down"]
    /\ UNCHANGED <<rows, tasks, models, sandbox, faultsLeft>>

(* The supervisor starts the process again.  A restarted container keeps its
   host name and process id, hence its lease_owner. *)
Start(w) ==
    /\ process[w] = "down"
    /\ process' = [process EXCEPT ![w] = "running"]
    /\ models' = [models EXCEPT ![w] = FALSE]
    /\ sandbox' = [sandbox EXCEPT ![w] = TRUE]
    /\ UNCHANGED <<rows, tasks, faultsLeft>>

(* The periodic _models_ready and _probe_matches_registry answers. *)
ModelsUp(w) ==
    /\ process[w] = "running"
    /\ ~models[w]
    /\ models' = [models EXCEPT ![w] = TRUE]
    /\ UNCHANGED <<rows, tasks, process, sandbox, faultsLeft>>

SandboxUp(w) ==
    /\ process[w] = "running"
    /\ ~sandbox[w]
    /\ sandbox' = [sandbox EXCEPT ![w] = TRUE]
    /\ UNCHANGED <<rows, tasks, process, models, faultsLeft>>

ReadinessLost(w) ==
    /\ process[w] = "running"
    /\ faultsLeft > 0
    /\ faultsLeft' = faultsLeft - 1
    /\ \/ /\ models' = [models EXCEPT ![w] = FALSE]
          /\ UNCHANGED sandbox
       \/ /\ sandbox' = [sandbox EXCEPT ![w] = FALSE]
          /\ UNCHANGED models
    /\ UNCHANGED <<rows, tasks, process>>

Down(n) == IF n > 0 THEN n - 1 ELSE 0

(* Time passes.  A slot whose row runs out of lease is remembered as lapsed. *)
Tick ==
    /\ \E j \in Jobs : leaseLeft[j] > 0 \/ delayLeft[j] > 0
    /\ leaseLeft' = [j \in Jobs |-> Down(leaseLeft[j])]
    /\ delayLeft' = [j \in Jobs |-> Down(delayLeft[j])]
    /\ lapsed' = [t \in Tasks |->
                    \/ lapsed[t]
                    \/ /\ pc[t] # "idle"
                       /\ RequireRunningLease(t)
                       /\ leaseLeft'[taskJob[t]] = 0]
    /\ UNCHANGED <<status, attempts, leaseOwner, completed, pc, taskJob, beating,
                   machines, faultsLeft>>

Execute(t) ==
    \/ Settle(t)
    \/ StartHeartbeat(t)
    \/ UnknownHandler(t)
    \/ MarkClaimedSourceProcessing(t)
    \/ HandlerCommit(t)
    \/ HandlerRaise(t)
    \/ Finish(t)
    \/ RecordFailure(t)

Poll(t) == (\E j \in Jobs : Claim(t, j)) \/ ClaimNothing(t)

Fault == \/ \E t \in Tasks : FinishFault(t) \/ OutcomeFault(t)
         \/ \E w \in Workers : Crash(w) \/ Stop(w) \/ ReadinessLost(w)

Recover(w) == Exit(w) \/ Start(w) \/ ModelsUp(w) \/ SandboxUp(w)

Next ==
    \/ \E j \in Jobs : Enqueue(j)
    \/ \E t \in Tasks : Poll(t) \/ Execute(t) \/ Heartbeat(t)
    \/ \E w \in Workers : Recover(w)
    \/ Fault
    \/ Tick

Spec == Init /\ [][Next]_vars

(* What the scheduling of the code provides: the clock advances, the poll
   loop of a running process keeps polling, a coroutine is not suspended for
   ever, the supervisor restarts processes and the readiness probes are
   repeated.  claim_next orders by available_at, which every retry moves
   forward, so a row that is eligible again and again is claimed in the end.
   Heartbeats get no fairness: a stalled event loop may miss any number of
   them. *)
Fairness ==
    /\ WF_vars(Tick)
    /\ \A t \in Tasks : WF_vars(Poll(t)) /\ WF_vars(Execute(t))
    /\ \A j \in Jobs : SF_vars(\E t \in Tasks : Claim(t, j))
    /\ \A w \in Workers : WF_vars(Recover(w))

FairSpec == Spec /\ Fairness

-----------------------------------------------------------------------------
Terminal == {"done", "dead"}

(* The retry budget: a row is never claimed more often than
   job_max_attempts allows, and a row that waits in the queue still has an
   attempt left (the queued branch of _eligible_clause does not look). *)
AttemptBudget ==
    \A j \in Jobs :
        /\ status[j] = "queued" => attempts[j] < MaxAttempts
        /\ status[j] = "running" => attempts[j] \in 1..MaxAttempts

(* Lease columns and status agree: exactly the running rows have an owner,
   and only they can have lease time left. *)
LeaseMatchesStatus ==
    \A j \in Jobs :
        /\ status[j] = "running" <=> leaseOwner[j] # NoOwner
        /\ leaseLeft[j] > 0 => status[j] = "running"

(* mark_done is only ever reached behind a committed handler transaction,
   by the same attempt or by an earlier one: a done row has its result. *)
DoneHasResult == \A j \in Jobs : status[j] = "done" => completed[j]

(* What makes the invariants above inductive: a busy slot has a row, a slot
   that is about to call mark_done stands behind a recorded result, a row in
   running carries an owner, and heartbeats belong to busy slots. *)
SlotsAreSound ==
    \A t \in Tasks :
        /\ pc[t] # "idle" => taskJob[t] \in Jobs
        /\ pc[t] \in {"settling", "finishing"} => completed[taskJob[t]]
        /\ beating[t] => pc[t] # "idle"

(* No attempt is counted against a row that was never enqueued. *)
AbsentRowsAreFresh == \A j \in Jobs : status[j] = "absent" => attempts[j] = 0

(* The inductive invariant of the queue. *)
IInv ==
    /\ TypeOK
    /\ AttemptBudget
    /\ LeaseMatchesStatus
    /\ DoneHasResult
    /\ AbsentRowsAreFresh
    /\ SlotsAreSound

(* Stale attempts, late heartbeats and second enqueues cannot bring a done or
   dead row back. *)
TerminalIsFinal ==
    [][\A j \in Jobs : status[j] \in Terminal => status'[j] = status[j]]_vars

(* While a lease has time left, only a slot of the process that holds it
   can take the row out of running or hand it to somebody else. *)
OnlyOwnerReleases ==
    [][\A j \in Jobs :
         /\ status[j] = "running"
         /\ leaseLeft[j] > 0
         /\ status'[j] # "running" \/ leaseOwner'[j] # leaseOwner[j]
         => \E t \in Tasks : /\ WorkerOf[t] = leaseOwner[j]
                             /\ taskJob[t] = j
                             /\ pc[t] # "idle"
                             /\ pc'[t] = "idle"]_vars

(* The queue implements the row contract of JobContract. *)
Contract == INSTANCE JobContract
ImplementsContract == Contract!Spec

(* "the current lease preserves exclusivity until another worker can safely
   reclaim it" (worker.py): two slots only ever work on one row when the
   lease of one of them ran out in time. *)
OverlapNeedsExpiry ==
    \A s, t \in Tasks :
        /\ s # t
        /\ pc[s] # "idle"
        /\ pc[t] # "idle"
        /\ taskJob[s] = taskJob[t]
        => lapsed[s] \/ lapsed[t]

(* CLERKSAN_WORKER_CONCURRENCY=1, the default: one slot per process. *)
OneSlotPerWorker == \A s, t \in Tasks : WorkerOf[s] = WorkerOf[t] => s = t

(* Why OverlapNeedsExpiry holds with one slot per process: a busy slot whose
   lease never ran out still holds it. *)
UnlapsedSlotsHoldLease ==
    \A t \in Tasks :
        pc[t] # "idle" /\ ~lapsed[t] =>
            RequireRunningLease(t) /\ leaseLeft[taskJob[t]] > 0

(* Every enqueued row that some process is configured to serve ends done or
   dead, whatever finite number of crashes and faults happens.  Rebuild rows
   are exempt: they start over each time their last lease runs out. *)
EveryJobSettles ==
    \A j \in Jobs \ RebuildJobs :
        (\E w \in Workers : EvidenceOfWorker[w] = EvidenceOfJob[j]) =>
            (status[j] = "queued" ~> status[j] \in Terminal)

=============================================================================
