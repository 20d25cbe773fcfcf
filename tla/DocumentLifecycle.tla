------------------------- MODULE DocumentLifecycle -------------------------
(***************************************************************************)
(* One document of the legacy profile, from upload to verification: its    *)
(* preserved originals, the intake of each original, the process_document  *)
(* jobs that are queued for them, the handler transactions that extract,   *)
(* the reviewer, the user who replaces or reprocesses the source, and the  *)
(* search projection.                                                      *)
(*                                                                         *)
(* The queue is the one of JobQueue with time left out: a lease is current *)
(* or expired, and a queued row may be claimed at any moment.  The handler *)
(* is two steps, because process_document reads the job, the source and    *)
(* the intake first and only locks the document row when it starts to      *)
(* write; from that lock to the commit no other writer of the document can *)
(* come between.                                                           *)
(***************************************************************************)
EXTENDS Naturals, Sequences, FiniteSets

CONSTANTS
    Workers,       \* worker processes with one task slot each
    NoOwner,       \* lease_owner IS NULL
    MaxAttempts,   \* settings.job_max_attempts
    MaxSources,    \* bound: originals appended to the document
    MaxJobs,       \* bound: process_document rows
    MaxExtractions,\* bound: extracted_records rows
    FaultKinds,    \* what may go wrong: a hard kill of a worker ("crash"), a
                   \* lease that runs out under a live attempt ("lapse"), a
                   \* database fault inside mark_done ("db"), an index job whose
                   \* attempts all raise ("index")
    MaxFaults      \* bound: kinds of faults in one behaviour, each at most once

ASSUME LifecycleAssumption ==
    /\ NoOwner \notin Workers
    /\ \A n \in {MaxAttempts, MaxSources, MaxJobs, MaxExtractions} : n \in Nat \ {0}
    /\ FaultKinds \subseteq {"crash", "lapse", "db", "index"}
    /\ MaxFaults \in Nat

VARIABLES
    cur,        \* the number of originals; the last one is the current source
    docStatus,  \* documents.status
    intake,     \* [1..MaxSources -> IntakeStates], source_intakes.state
    exts,       \* extracted_records in order of creation
    jobs,       \* process_document rows in order of creation
    slot,       \* [Workers -> [pc, job, holds]], the coroutine of each worker
    chunks,     \* the source version whose text search returns, 0 for none
    index,      \* [1..MaxSources -> IndexStates], the source's index_document row
    met         \* SUBSET FaultKinds, history: the faults that have happened

document == <<cur, docStatus, intake, exts>>
search   == <<chunks, index>>
vars     == <<document, jobs, slot, search, met>>

Sources == 1..MaxSources
DocumentStatuses == {"uploaded", "in_review", "verified", "needs_reprocess", "failed"}
IntakeStates == {"absent", "queued", "processing", "processed", "failed"}
ExtractionStatuses == {"pending", "approved", "rejected", "superseded"}
JobStatuses == {"queued", "running", "done", "dead"}
IndexStates == {"none", "queued", "done", "dead"}
Steps == {"idle", "settling", "marking", "starting", "working", "finishing", "failing"}
Keys == {"source", "extraction", "failure"} \X (1..(MaxSources + MaxExtractions + MaxJobs))

JobRows == [src : Sources, key : Keys, status : JobStatuses, completed : BOOLEAN,
            attempts : 0..MaxAttempts, owner : Workers \cup {NoOwner}, expired : BOOLEAN]
Extractions == [src : Sources, job : 1..MaxJobs, status : ExtractionStatuses]

(* Type invariant: every row of the document has values its columns allow. *)
TypeOK ==
    /\ cur \in Sources
    /\ docStatus \in DocumentStatuses
    /\ intake \in [Sources -> IntakeStates]
    /\ Len(exts) \in 0..MaxExtractions
    /\ \A i \in 1..Len(exts) : exts[i] \in Extractions
    /\ Len(jobs) \in 1..MaxJobs
    /\ \A j \in 1..Len(jobs) : jobs[j] \in JobRows
    /\ slot \in [Workers -> [pc : Steps, job : 0..MaxJobs, holds : BOOLEAN]]
    /\ chunks \in 0..MaxSources
    /\ index \in [Sources -> IndexStates]
    /\ met \subseteq FaultKinds

NewJob(v, k) == [src |-> v, key |-> k, status |-> "queued", completed |-> FALSE,
                 attempts |-> 0, owner |-> NoOwner, expired |-> FALSE]
IdleSlot == [pc |-> "idle", job |-> 0, holds |-> FALSE]

(* upload_document has committed: one original, its queued intake and the
   process_document row. *)
Init ==
    /\ cur = 1
    /\ docStatus = "uploaded"
    /\ intake = [v \in Sources |-> IF v = 1 THEN "queued" ELSE "absent"]
    /\ exts = <<>>
    /\ jobs = <<NewJob(1, <<"source", 1>>)>>
    /\ slot = [w \in Workers |-> IdleSlot]
    /\ chunks = 0
    /\ index = [v \in Sources |-> "none"]
    /\ met = {}

-----------------------------------------------------------------------------
(* Rows by their position. *)
JobIds == 1..Len(jobs)
ExtractionIds == 1..Len(exts)
Pending == {i \in ExtractionIds : exts[i].status = "pending"}
Active(v) == {j \in JobIds : jobs[j].src = v /\ jobs[j].status \in {"queued", "running"}}
Dead(v) == {j \in JobIds : jobs[j].src = v /\ jobs[j].status = "dead"}
Latest(S) == {x \in S : \A y \in S : y <= x}
OfSource(s, v) == {i \in ExtractionIds : exts[i].status = s /\ exts[i].src = v}

(* A fault happens, within the bound. *)
Spend(kind) == kind \in FaultKinds \ met /\ Cardinality(met) < MaxFaults /\ met' = met \cup {kind}

(* A handler transaction that moved the intake keeps that row locked until it
   ends; every other writer of the row waits. *)
IntakeFree(v) == \A w \in Workers : ~(slot[w].holds /\ jobs[slot[w].job].src = v)

(* Wrong variant: every extraction is superseded, reviewed or not. *)
SupersedeEverything ==
    [i \in ExtractionIds |-> [exts[i] EXCEPT !.status = "superseded"]]

(* _supersede_pending_extractions, and the same loop in ExtractionRepo.add. *)
SupersedePending ==
    [i \in ExtractionIds |->
        IF i \in Pending THEN [exts[i] EXCEPT !.status = "superseded"] ELSE exts[i]]

(* _SOURCE_INTAKE_TRANSITIONS, restricted to the states of the legacy path. *)
MayBecome(from, to) ==
    CASE from = "queued" -> to \in {"processing", "processed", "failed"}
      [] from = "processing" -> to \in {"queued", "processed", "failed"}
      [] from = "processed" -> to = "queued"
      [] from = "failed" -> to = "queued"
      [] OTHER -> FALSE

(* Wrong variant: the failure of a replaced source fails the document. *)
TerminalFailureUnbound(S) ==
    /\ \A v \in S : IntakeFree(v)
    /\ intake' = [v \in Sources |-> IF v \in S /\ MayBecome(intake[v], "failed")
                                    THEN "failed" ELSE intake[v]]
    /\ docStatus' = IF S # {} THEN "failed" ELSE docStatus
    /\ UNCHANGED <<cur, exts>>

(* _mark_terminal_processing_failure for the sources of rows that just died:
   the intake fails when its state has that edge, and the document fails when
   the source is still the current one. *)
TerminalFailure(S) ==
    /\ \A v \in S : IntakeFree(v)
    /\ intake' = [v \in Sources |-> IF v \in S /\ MayBecome(intake[v], "failed")
                                    THEN "failed" ELSE intake[v]]
    /\ docStatus' = IF cur \in S THEN "failed" ELSE docStatus
    /\ UNCHANGED <<cur, exts>>

-----------------------------------------------------------------------------
(* The queue, as the worker of each slot drives it. *)
Exhausted(j) ==
    jobs[j].status = "running" /\ jobs[j].expired /\ jobs[j].attempts >= MaxAttempts

(* A row that leaves its lease for status s. *)
Released(j, s) == [jobs[j] EXCEPT !.status = s, !.owner = NoOwner, !.expired = FALSE]

(* A row that an attempt of worker w leases. *)
Leased(j, w) == [jobs[j] EXCEPT !.status = "running", !.owner = w, !.expired = FALSE,
                                !.attempts = @ + 1]

(* Wrong variant: a final attempt that ran out always counts as done. *)
BuriedAsDone(j) == IF Exhausted(j) THEN Released(j, "done") ELSE jobs[j]

(* A final attempt that ran out ends done when its result is recorded. *)
Buried(j) ==
    IF Exhausted(j) THEN Released(j, IF jobs[j].completed THEN "done" ELSE "dead") ELSE jobs[j]

Eligible(j) ==
    \/ jobs[j].status = "queued"
    \/ jobs[j].status = "running" /\ jobs[j].expired /\ jobs[j].attempts < MaxAttempts

(* Wrong variant: a recorded result does not spare the document. *)
FailedByAnyBurial == {jobs[j].src : j \in {i \in JobIds : Exhausted(i)}}

(* The sources whose document-level failure the burial has to expose. *)
FailedByBurial == {jobs[j].src : j \in {i \in JobIds : Exhausted(i) /\ ~jobs[i].completed}}

(* claim_next with _mark_terminal_processing_failure as its callback: final
   attempts that ran out are settled, then one eligible row is leased. *)
Claim(w, j) ==
    /\ slot[w].pc = "idle"
    /\ Eligible(j)
    /\ jobs' = [i \in JobIds |-> IF i = j THEN Leased(i, w) ELSE Buried(i)]
    /\ slot' = [slot EXCEPT ![w] = [pc |-> IF jobs[j].completed THEN "settling" ELSE "marking",
                                    job |-> j, holds |-> FALSE]]
    /\ TerminalFailure(FailedByBurial)
    /\ UNCHANGED <<search, met>>

ClaimNothing(w) ==
    /\ slot[w].pc = "idle"
    /\ \A j \in JobIds : ~Eligible(j)
    /\ \E j \in JobIds : Exhausted(j)
    /\ jobs' = [i \in JobIds |-> Buried(i)]
    /\ TerminalFailure(FailedByBurial)
    /\ UNCHANGED <<slot, search, met>>

HoldsLease(w) ==
    /\ jobs[slot[w].job].status = "running"
    /\ jobs[slot[w].job].owner = w

Goto(w, step) == slot' = [slot EXCEPT ![w].pc = step, ![w].holds = FALSE]
Release(w) == slot' = [slot EXCEPT ![w] = IdleSlot]

(* mark_done, reached from a payload completed at claim time or from a
   committed handler; only the second way has a failure path left. *)
MarkDone(w) ==
    LET j == slot[w].job IN
    /\ slot[w].pc \in {"settling", "finishing"}
    /\ \/ /\ HoldsLease(w)
          /\ jobs' = [jobs EXCEPT ![j] = Released(j, "done")]
          /\ Release(w)
       \/ /\ ~HoldsLease(w)
          /\ IF slot[w].pc = "settling" THEN Release(w) ELSE Goto(w, "failing")
          /\ UNCHANGED jobs
    /\ UNCHANGED <<document, search, met>>

(* A database fault inside mark_done of a handled job. *)
MarkDoneFault(w) ==
    /\ slot[w].pc = "finishing"
    /\ Spend("db")
    /\ Goto(w, "failing")
    /\ UNCHANGED <<document, jobs, search>>

(* Wrong variant: the failure is recorded on the job and nowhere else. *)
RecordFailureSilently(w) ==
    LET j == slot[w].job
        final == jobs[j].attempts >= MaxAttempts
    IN
    /\ slot[w].pc = "failing"
    /\ jobs' = IF HoldsLease(w)
               THEN [jobs EXCEPT ![j] = Released(j, IF final THEN "dead" ELSE "queued")]
               ELSE jobs
    /\ Release(w)
    /\ UNCHANGED <<document, search, met>>

(* _record_failure: retry_or_bury and the terminal failure in one
   transaction; nothing when the lease is lost or the row is settled. *)
RecordFailure(w) ==
    LET j == slot[w].job
        final == jobs[j].attempts >= MaxAttempts
    IN
    /\ slot[w].pc = "failing"
    /\ \/ /\ HoldsLease(w)
          /\ jobs' = [jobs EXCEPT ![j] = Released(j, IF final THEN "dead" ELSE "queued")]
          /\ TerminalFailure(IF final THEN {jobs[j].src} ELSE {})
       \/ /\ ~HoldsLease(w)
          /\ UNCHANGED <<jobs, document>>
    /\ Release(w)
    /\ UNCHANGED <<search, met>>

(* The lease of a row runs out because no attempt renews it any more. *)
LeaseRunsOut(j) ==
    /\ jobs[j].status = "running"
    /\ ~jobs[j].expired
    /\ \A w \in Workers : slot[w].job = j => jobs[j].owner # w
    /\ jobs' = [jobs EXCEPT ![j].expired = TRUE]
    /\ UNCHANGED <<document, slot, search, met>>

(* The lease runs out under a live attempt: heartbeats were missed. *)
Lapse(w) ==
    LET j == slot[w].job IN
    /\ slot[w].pc # "idle"
    /\ HoldsLease(w)
    /\ ~jobs[j].expired
    /\ Spend("lapse")
    /\ jobs' = [jobs EXCEPT ![j].expired = TRUE]
    /\ UNCHANGED <<document, slot, search>>

(* renew_lease extends a lease that ran out but was not reclaimed. *)
Renew(w) ==
    /\ slot[w].pc \in {"marking", "starting", "working"}
    /\ HoldsLease(w)
    /\ jobs[slot[w].job].expired
    /\ jobs' = [jobs EXCEPT ![slot[w].job].expired = FALSE]
    /\ UNCHANGED <<document, slot, search, met>>

(* A hard kill: the open transaction rolls back, the row keeps its lease. *)
Crash(w) ==
    /\ slot[w].pc # "idle"
    /\ Spend("crash")
    /\ Release(w)
    /\ UNCHANGED <<document, jobs, search>>

-----------------------------------------------------------------------------
(* _mark_claimed_source_processing, in a transaction of its own: only a queued
   or already processing intake may be worked on. *)
MarkClaimed(w) ==
    LET v == jobs[slot[w].job].src IN
    /\ slot[w].pc = "marking"
    /\ IntakeFree(v)
    /\ \/ /\ intake[v] \in {"queued", "processing"}
          /\ intake' = [intake EXCEPT ![v] = "processing"]
          /\ Goto(w, "starting")
       \/ /\ intake[v] \notin {"queued", "processing"}
          /\ Goto(w, "failing")
          /\ UNCHANGED intake
    /\ UNCHANGED <<cur, docStatus, exts, jobs, search, met>>

(* The payload's completion marker, set for a result or for a skip. *)
Completes(j) == jobs' = [jobs EXCEPT ![j].completed = TRUE]

(* process_document up to its first lock: a completed job returns, a replaced
   source is skipped, and an intake that is not processing any more is moved
   back to processing under a row lock that the transaction keeps. *)
Begin(w) ==
    LET j == slot[w].job
        v == jobs[j].src
    IN
    /\ slot[w].pc = "starting"
    /\ \/ /\ jobs[j].completed
          /\ Goto(w, "finishing")
          /\ UNCHANGED jobs
       \/ /\ ~jobs[j].completed
          /\ v # cur
          /\ Completes(j)
          /\ Goto(w, "finishing")
       \/ /\ ~jobs[j].completed
          /\ v = cur
          /\ IntakeFree(v)
          /\ slot' = [slot EXCEPT ![w].pc = "working", ![w].holds = intake[v] # "processing"]
          /\ UNCHANGED jobs
    /\ UNCHANGED <<document, search, met>>

(* The intake as this transaction sees it. *)
SeenIntake(w) ==
    IF slot[w].holds THEN "processing" ELSE intake[jobs[slot[w].job].src]

(* Wrong variant: the source is not checked again under the document lock. *)
CommitUnchecked(w) ==
    LET j == slot[w].job
        v == jobs[j].src
    IN
    /\ slot[w].pc = "working"
    /\ Len(exts) < MaxExtractions
    /\ SeenIntake(w) # "failed"
    /\ exts' = Append(SupersedePending, [src |-> v, job |-> j, status |-> "pending"])
    /\ docStatus' = "in_review"
    /\ intake' = [intake EXCEPT ![v] = "processed"]
    /\ index' = [index EXCEPT ![v] = IF @ = "none" THEN "queued" ELSE @]
    /\ Completes(j)
    /\ Goto(w, "finishing")
    /\ UNCHANGED <<cur, chunks, met>>

(* Wrong variant: the extraction is committed on its own, before the intake
   and the completion marker. *)
CommitUnmarked(w) ==
    LET j == slot[w].job
        v == jobs[j].src
    IN
    /\ slot[w].pc = "working"
    /\ v = cur
    /\ Len(exts) < MaxExtractions
    /\ SeenIntake(w) # "failed"
    /\ exts' = Append(SupersedePending, [src |-> v, job |-> j, status |-> "pending"])
    /\ docStatus' = "in_review"
    /\ index' = [index EXCEPT ![v] = IF @ = "none" THEN "queued" ELSE @]
    /\ Goto(w, "finishing")
    /\ UNCHANGED <<cur, intake, chunks, jobs, met>>

(* The rest of process_document under the document lock.  A source that was
   replaced meanwhile is skipped, committing the intake the transaction had
   moved; otherwise ExtractionRepo.add appends the extraction, the index job
   is enqueued unless its key exists, the intake becomes processed and the
   completion marker is written.  A failed intake raises instead. *)
Commit(w) ==
    LET j == slot[w].job
        v == jobs[j].src
    IN
    /\ slot[w].pc = "working"
    /\ \/ /\ v # cur
          /\ intake' = [intake EXCEPT ![v] = IF slot[w].holds THEN "processing" ELSE @]
          /\ UNCHANGED <<docStatus, exts, index>>
       \/ /\ v = cur
          /\ Len(exts) < MaxExtractions
          /\ SeenIntake(w) # "failed"
          /\ slot[w].holds \/ intake[v] = "processed" \/ IntakeFree(v)
          /\ exts' = Append(SupersedePending, [src |-> v, job |-> j, status |-> "pending"])
          /\ docStatus' = "in_review"
          /\ intake' = [intake EXCEPT ![v] = "processed"]
          /\ index' = [index EXCEPT ![v] = IF @ = "none" THEN "queued" ELSE @]
    /\ Completes(j)
    /\ Goto(w, "finishing")
    /\ UNCHANGED <<cur, chunks, met>>

(* Any stage raises, a lock wait ends in a deadlock abort, or the optimistic
   intake version is stale: the transaction rolls back. *)
Raise(w) ==
    /\ slot[w].pc \in {"starting", "working"}
    /\ Goto(w, "failing")
    /\ UNCHANGED <<document, jobs, search, met>>

-----------------------------------------------------------------------------
(* append_original_version: append_raw_source under the document lock retires
   the reviewable extraction and the search text of the old source, creates
   the new intake, and the job is enqueued in the same transaction. *)
AppendSource ==
    LET v == cur + 1 IN
    /\ cur < MaxSources
    /\ Len(jobs) < MaxJobs
    /\ cur' = v
    /\ docStatus' = "needs_reprocess"
    /\ intake' = [intake EXCEPT ![v] = "queued"]
    /\ exts' = SupersedePending
    /\ chunks' = 0
    /\ jobs' = Append(jobs, NewJob(v, <<"source", v>>))
    /\ UNCHANGED <<slot, index, met>>

(* VerifiedRepo.promote of a pending extraction; a reviewer holding anything
   else gets a stale conflict and nothing changes. *)
Approve(i) ==
    /\ i \in Pending
    /\ exts' = [k \in ExtractionIds |->
                  IF k = i THEN [exts[k] EXCEPT !.status = "approved"]
                  ELSE IF exts[k].status = "approved"
                  THEN [exts[k] EXCEPT !.status = "superseded"]
                  ELSE exts[k]]
    /\ docStatus' = "verified"
    /\ UNCHANGED <<cur, intake, jobs, slot, search, met>>

(* ExtractionRepo.reject. *)
Reject(i) ==
    /\ i \in Pending
    /\ exts' = [exts EXCEPT ![i].status = "rejected"]
    /\ docStatus' = "needs_reprocess"
    /\ UNCHANGED <<cur, intake, jobs, slot, search, met>>

(* Wrong variant: a failed document is reprocessed under its first key. *)
ReprocessKeySticky ==
    LET reviewed == OfSource("rejected", cur) \cup OfSource("approved", cur) IN
    CASE docStatus \in {"needs_reprocess", "verified"} /\ reviewed # {} ->
             {<<"extraction", i>> : i \in Latest(reviewed)}
      [] docStatus \in {"needs_reprocess", "failed"} -> {<<"source", cur>>}
      [] OTHER -> {}

(* prepare_reprocess: the idempotency key of the retry, from the status of the
   document and the rows bound to the current source.  No key: refused. *)
ReprocessKey ==
    LET rejected == OfSource("rejected", cur)
        approved == OfSource("approved", cur)
        ofExtraction(S) == {<<"extraction", i>> : i \in Latest(S)}
        ofJob == IF Active(cur) # {} THEN {jobs[j].key : j \in Latest(Active(cur))}
                 ELSE {<<"failure", j>> : j \in Latest(Dead(cur))}
    IN
    CASE docStatus = "needs_reprocess" ->
             IF rejected # {} THEN ofExtraction(rejected)
             ELSE IF approved # {} THEN ofExtraction(approved)
             ELSE ofJob
      [] docStatus = "verified" -> ofExtraction(approved)
      [] docStatus = "failed" -> ofJob
      [] OTHER -> {}

(* reprocess_document: prepare_reprocess queues the intake again, whatever
   its state, and enqueue inserts the row unless its key already has one. *)
Reprocess ==
    \E k \in ReprocessKey :
        LET known == \E j \in JobIds : jobs[j].key = k IN
        /\ known \/ Len(jobs) < MaxJobs
        /\ IntakeFree(cur)
        /\ docStatus' = "needs_reprocess"
        /\ intake' = [intake EXCEPT ![cur] = "queued"]
        /\ jobs' = IF known THEN jobs ELSE Append(jobs, NewJob(cur, k))
        /\ UNCHANGED <<cur, exts, slot, search, met>>

-----------------------------------------------------------------------------
(* Wrong variant: the chunks are replaced without looking at the source. *)
IndexCommitUnchecked(v) ==
    /\ index[v] = "queued"
    /\ index' = [index EXCEPT ![v] = "done"]
    /\ chunks' = v
    /\ UNCHANGED <<document, jobs, slot, met>>

(* index_document: the text and its embeddings come from the immutable
   normalized artifact, and only _replace_chunks, under the document lock,
   looks at the source again: chunks of a replaced source are dropped, and
   the job still counts as completed. *)
IndexCommit(v) ==
    /\ index[v] = "queued"
    /\ index' = [index EXCEPT ![v] = "done"]
    /\ chunks' = IF v = cur THEN v ELSE chunks
    /\ UNCHANGED <<document, jobs, slot, met>>

(* The last attempt at it raises as well. *)
IndexRaise(v) ==
    /\ index[v] = "queued"
    /\ Spend("index")
    /\ index' = [index EXCEPT ![v] = "dead"]
    /\ UNCHANGED <<document, jobs, slot, chunks>>

(* retry_current_derivatives: a dead index job of the current source gets one
   successor under a recovery key. *)
RetryDerivatives ==
    /\ index[cur] = "dead"
    /\ index' = [index EXCEPT ![cur] = "queued"]
    /\ UNCHANGED <<document, jobs, slot, chunks, met>>

-----------------------------------------------------------------------------
Execute(w) == MarkClaimed(w) \/ Begin(w) \/ Commit(w) \/ Raise(w)
              \/ MarkDone(w) \/ RecordFailure(w)
Poll(w) == (\E j \in JobIds : Claim(w, j)) \/ ClaimNothing(w)
Review == \E i \in ExtractionIds : Approve(i) \/ Reject(i)
IndexStep(v) == IndexCommit(v) \/ IndexRaise(v)

Next ==
    \/ \E w \in Workers : Poll(w) \/ Execute(w) \/ Renew(w) \/ Lapse(w)
                       \/ MarkDoneFault(w) \/ Crash(w)
    \/ \E j \in JobIds : LeaseRunsOut(j)
    \/ \E v \in Sources : IndexStep(v)
    \/ Review
    \/ AppendSource
    \/ Reprocess
    \/ RetryDerivatives

Spec == Init /\ [][Next]_vars

(* The workers keep polling, coroutines are not suspended for ever, and an
   expired lease is noticed.  Reviewers and users owe nothing. *)
Fairness ==
    /\ \A w \in Workers : WF_vars(Poll(w)) /\ WF_vars(Execute(w))
    /\ \A j \in 1..MaxJobs : WF_vars(j \in JobIds /\ LeaseRunsOut(j))

FairSpec == Spec /\ Fairness

-----------------------------------------------------------------------------
(* What a reviewer can approve is always the current source, and there is at
   most one such extraction: a handler of a replaced source, a second attempt
   and the source replacement all contend on it. *)
ReviewIsCurrent ==
    /\ \A i \in Pending : exts[i].src = cur
    /\ Cardinality(Pending) <= 1

(* The document's status tells the truth about its rows: in review means that
   there is something to review, verified that the one extraction in force is
   of the current source, failed that a job of the current source died. *)
StatusIsTruthful ==
    /\ docStatus = "in_review" => Pending # {}
    /\ docStatus = "verified" => OfSource("approved", cur) # {}
    /\ docStatus = "failed" => Dead(cur) # {}
    /\ Cardinality({i \in ExtractionIds : exts[i].status = "approved"}) <= 1

(* A current source that waits for processing has a job that will process it;
   a reprocess request under a known key must not strand it. *)
NoStrandedSource ==
    intake[cur] \in {"queued", "processing"} => Active(cur) # {}

(* Replacing the source hides its text, and an index job of the replaced
   source does not bring it back. *)
SearchShowsCurrent == chunks \in {0, cur}

(* No heartbeat has been missed and mark_done has not failed; workers may
   have been killed. *)
LeasesKept == met \cap {"lapse", "db"} = {}

(* "The worker lease already provides exclusive handling" (_job_for_payload):
   while leases are kept, one job appends at most one extraction. *)
OneExtractionPerJob ==
    LeasesKept => \A i, k \in ExtractionIds : exts[i].job = exts[k].job => i = k

(* While leases are kept, an extraction that waits for review is the
   document's status; nothing hides it behind a failure. *)
PendingIsInReview == LeasesKept /\ Pending # {} => docStatus = "in_review"

(* Reviewed history is append-only: no step removes an extraction, rebinds it
   to another source or job, or revives a rejected or superseded one. *)
HistoryIsKept ==
    [][/\ Len(exts') >= Len(exts)
       /\ \A i \in ExtractionIds :
            /\ exts'[i].src = exts[i].src
            /\ exts'[i].job = exts[i].job
            /\ exts[i].status \in {"rejected", "superseded"} => exts'[i].status = exts[i].status
            /\ exts[i].status = "approved" => exts'[i].status \in {"approved", "superseded"}]_vars

(* The rows as the queue contract knows them. *)
Contract == INSTANCE JobContract WITH
    Jobs <- 1..MaxJobs,
    RebuildJobs <- {},
    status <- [j \in 1..MaxJobs |-> IF j \in JobIds THEN jobs[j].status ELSE "absent"],
    attempts <- [j \in 1..MaxJobs |-> IF j \in JobIds THEN jobs[j].attempts ELSE 0],
    completed <- [j \in 1..MaxJobs |-> j \in JobIds /\ jobs[j].completed]

(* Leases reduced to a flag, the queue of this module still takes only the
   row steps of the contract that JobQueue implements. *)
RowsObeyContract == [][jobs' = jobs \/ Contract!Next]_Contract!contractVars

(* Every original gets an outcome: as long as it stays the current source its
   intake leaves queued and processing, whatever the handlers do. *)
EverySourceSettles ==
    \A v \in Sources :
        cur = v /\ intake[v] \in {"queued", "processing"}
            ~> cur # v \/ intake[v] \in {"processed", "failed"}

=============================================================================
