---------------------- MODULE DocumentLifecycleProofs ----------------------
(***************************************************************************)
(* Proofs about DocumentLifecycle for any number of workers, originals,    *)
(* jobs, extractions and faults: what is reviewed and found is the current *)
(* source, the document status is truthful, history is append-only and the *)
(* job rows obey the contract of the queue.                                *)
(*                                                                         *)
(* Where the workers behave there is more, in the second half: while the   *)
(* leases are kept, one job extracts at most once and nothing hides a      *)
(* pending extraction; with one worker that is never killed, no current    *)
(* source is stranded.                                                     *)
(***************************************************************************)
EXTENDS DocumentLifecycle, SequenceFacts, TLAPS

USE LifecycleAssumption

Slots == [pc : Steps, job : 0..MaxJobs, holds : BOOLEAN]

(* The rows, as sequences. *)
DocTyped ==
    /\ cur \in Sources
    /\ docStatus \in DocumentStatuses
    /\ intake \in [Sources -> IntakeStates]
    /\ exts \in Seq(Extractions) /\ Len(exts) <= MaxExtractions
JobsTyped == jobs \in Seq(JobRows) /\ Len(jobs) <= MaxJobs
RowsTyped == DocTyped /\ JobsTyped /\ slot \in [Workers -> Slots]

(* A busy slot works on an existing row, and settles completed ones only. *)
SlotsAreBound ==
    \A w \in Workers :
        /\ slot[w].pc = "idle" => slot[w].job = 0
        /\ slot[w].pc # "idle" => slot[w].job \in JobIds
        /\ slot[w].pc \in {"settling", "finishing"} => jobs[slot[w].job].completed

(* A row in the queue has attempts left. *)
QueuedMayRun == \A j \in JobIds : jobs[j].status = "queued" => jobs[j].attempts < MaxAttempts

(* Rows belong to originals that exist, and an extraction to a completed job. *)
RowsAreBound ==
    /\ \A j \in JobIds : jobs[j].src <= cur
    /\ \A i \in ExtractionIds : /\ exts[i].src <= cur
                                /\ exts[i].job \in JobIds
                                /\ jobs[exts[i].job].completed

(* What waits for review is the last extraction, of the current source. *)
PendingIsLast == \A i \in Pending : i = Len(exts) /\ exts[i].src = cur

(* At most one extraction is in force, without counting. *)
OneApproved ==
    \A i, k \in ExtractionIds : exts[i].status = "approved" /\ exts[k].status = "approved" => i = k

(* The first three clauses of StatusIsTruthful. *)
StatusHasRows ==
    /\ docStatus = "in_review" => Pending # {}
    /\ docStatus = "verified" => OfSource("approved", cur) # {}
    /\ docStatus = "failed" => Dead(cur) # {}

QueueInv == RowsTyped /\ SlotsAreBound /\ QueuedMayRun /\ RowsAreBound
ReviewInv == PendingIsLast /\ OneApproved /\ StatusHasRows /\ SearchShowsCurrent
LifeInv == QueueInv /\ ReviewInv

-----------------------------------------------------------------------------
(* A busy slot has its lease, and its row is completed only when it settles. *)
SlotsHoldLeases ==
    /\ \A w \in Workers : slot[w].pc # "idle" =>
        /\ HoldsLease(w)
        /\ ~jobs[slot[w].job].expired
        /\ slot[w].pc \in {"marking", "starting", "working", "failing"}
             => ~jobs[slot[w].job].completed
    /\ \A j \in JobIds : jobs[j].status = "queued" => ~jobs[j].completed

-----------------------------------------------------------------------------
(* The rows of a sequence, by position. *)
LEMMA RowsByPosition ==
    ASSUME RowsTyped
    PROVE  /\ Len(jobs) \in 0..MaxJobs /\ jobs \in [1..Len(jobs) -> JobRows]
           /\ \A j \in JobIds : jobs[j] \in JobRows
           /\ Len(exts) \in Nat /\ exts \in [1..Len(exts) -> Extractions]
           /\ \A i \in ExtractionIds : exts[i] \in Extractions
<1>1. /\ Len(jobs) \in Nat /\ jobs \in [1..Len(jobs) -> JobRows]
      /\ Len(exts) \in Nat /\ exts \in [1..Len(exts) -> Extractions]
  BY Zenon, ByPosition DEF RowsTyped, DocTyped, JobsTyped
<1> QED
  BY SMTT(30), <1>1 DEF RowsTyped, JobsTyped, JobIds, ExtractionIds

(* What releasing and leasing a row does to its columns. *)
LEMMA ReleasedRow ==
    ASSUME RowsTyped, NEW j \in JobIds, NEW s \in JobStatuses
    PROVE  /\ Released(j, s) \in JobRows
           /\ Released(j, s).src = jobs[j].src /\ Released(j, s).key = jobs[j].key
           /\ Released(j, s).status = s /\ Released(j, s).completed = jobs[j].completed
           /\ Released(j, s).attempts = jobs[j].attempts
           /\ Released(j, s).owner = NoOwner /\ ~Released(j, s).expired
  BY Zenon, RowsByPosition DEF Released, JobRows

(* The row claim_next writes: running, owned by the claimer, one attempt spent. *)
LEMMA LeasedRow ==
    ASSUME RowsTyped, NEW j \in JobIds, NEW w \in Workers, jobs[j].attempts < MaxAttempts
    PROVE  /\ Leased(j, w) \in JobRows
           /\ Leased(j, w).src = jobs[j].src /\ Leased(j, w).key = jobs[j].key
           /\ Leased(j, w).status = "running" /\ Leased(j, w).completed = jobs[j].completed
           /\ Leased(j, w).attempts = jobs[j].attempts + 1
           /\ Leased(j, w).owner = w /\ ~Leased(j, w).expired
<1>1. jobs[j] \in JobRows
  BY Zenon, RowsByPosition
<1>2. PICK n \in 0..MaxAttempts : n = jobs[j].attempts + 1
  BY SMTT(30), <1>1 DEF JobRows
<1>3. Leased(j, w) = [jobs[j] EXCEPT !.status = "running", !.owner = w, !.expired = FALSE,
                                     !.attempts = n]
  BY Zenon, <1>2 DEF Leased
<1> QED
  BY ZenonT(30), <1>1, <1>2, <1>3 DEF JobRows, JobStatuses

(* One row is replaced. *)
LEMMA RowReplaced ==
    ASSUME RowsTyped, NEW j \in JobIds, NEW r \in JobRows, jobs' = [jobs EXCEPT ![j] = r]
    PROVE  /\ jobs' \in Seq(JobRows) /\ Len(jobs') = Len(jobs) /\ JobIds' = JobIds
           /\ \A i \in JobIds : jobs'[i] = IF i = j THEN r ELSE jobs[i]
<1>1. jobs' \in [1..Len(jobs) -> JobRows] /\ Len(jobs) \in Nat
  BY SMTT(30), RowsByPosition DEF JobIds
<1>2. jobs' \in Seq(JobRows) /\ Len(jobs') = Len(jobs)
  BY Zenon, <1>1, FunctionIsSequence
<1>3. \A i \in JobIds : jobs'[i] = IF i = j THEN r ELSE jobs[i]
  BY Zenon, RowsByPosition DEF JobIds
<1> QED
  BY Zenon, <1>2, <1>3 DEF JobIds

(* A row is inserted. *)
LEMMA RowInserted ==
    ASSUME RowsTyped, Len(jobs) < MaxJobs, NEW v \in Sources, NEW k \in Keys,
           jobs' = Append(jobs, NewJob(v, k))
    PROVE  /\ jobs' \in Seq(JobRows) /\ Len(jobs') = Len(jobs) + 1 /\ Len(jobs') <= MaxJobs
           /\ JobIds' = JobIds \cup {Len(jobs')} /\ Len(jobs') \notin JobIds
           /\ \A i \in JobIds : jobs'[i] = jobs[i]
           /\ jobs'[Len(jobs')] = NewJob(v, k)
<1>1. NewJob(v, k) \in JobRows
  BY SMTT(30) DEF NewJob, JobRows, JobStatuses
<1>2. jobs \in Seq(JobRows) /\ Len(jobs) \in Nat
  BY SMTT(30), RowsByPosition DEF RowsTyped, JobsTyped
<1>3. /\ jobs' \in Seq(JobRows) /\ Len(jobs') = Len(jobs) + 1
      /\ \A i \in 1..Len(jobs) : jobs'[i] = jobs[i]
      /\ jobs'[Len(jobs) + 1] = NewJob(v, k)
  BY SMTT(30), <1>1, <1>2, Appending
<1> QED
  BY SMTT(30), <1>2, <1>3 DEF JobIds

-----------------------------------------------------------------------------
(* What a step may do to a job row: the moves of the queue contract. *)
RowMove(old, new) ==
    /\ new.src = old.src /\ new.key = old.key
    /\ old.completed => new.completed
    /\ \/ new.status = old.status /\ new.attempts = old.attempts
       \/ /\ old.status \in {"queued", "running"} /\ old.attempts < MaxAttempts
          /\ new.status = "running" /\ new.attempts = old.attempts + 1
       \/ /\ old.status = "running" /\ old.attempts < MaxAttempts
          /\ new.status = "queued" /\ new.attempts = old.attempts
       \/ /\ old.status = "running" /\ old.attempts = MaxAttempts
          /\ new.status = "dead" /\ new.attempts = old.attempts
       \/ /\ old.status = "running" /\ old.completed
          /\ new.status = "done" /\ new.attempts = old.attempts

JobsMove ==
    /\ Len(jobs) <= Len(jobs')
    /\ \A j \in JobIds : RowMove(jobs[j], jobs'[j])
    /\ \A j \in JobIds' \ JobIds : jobs'[j] = NewJob(cur', jobs'[j].key)

(* And to the extractions: history is kept, and what is appended is a pending
   extraction of the current source by a completed job. *)
ExtsMove ==
    /\ Len(exts) <= Len(exts')
    /\ \A i \in ExtractionIds :
        /\ exts'[i].src = exts[i].src /\ exts'[i].job = exts[i].job
        /\ exts[i].status \in {"rejected", "superseded"} => exts'[i].status = exts[i].status
        /\ exts[i].status = "approved" => exts'[i].status \in {"approved", "superseded"}
    /\ \A i \in ExtractionIds' \ ExtractionIds :
        /\ exts'[i].src = cur' /\ exts'[i].status = "pending"
        /\ exts'[i].job \in JobIds' /\ jobs'[exts'[i].job].completed

(* Replacing, releasing, keeping and inserting rows are such moves. *)
LEMMA SameJobsMove ==
    ASSUME RowsTyped, jobs' = jobs
    PROVE  JobsTyped' /\ JobsMove /\ JobIds' = JobIds
  BY SMTT(30), RowsByPosition DEF RowsTyped, JobsTyped, JobsMove, RowMove, JobIds

(* Overwriting one row by a legal successor is a move of the whole table. *)
LEMMA ReplaceMoves ==
    ASSUME RowsTyped, NEW j \in JobIds, NEW r \in JobRows, jobs' = [jobs EXCEPT ![j] = r],
           RowMove(jobs[j], r)
    PROVE  JobsTyped' /\ JobsMove /\ JobIds' = JobIds
<1>1. /\ jobs' \in Seq(JobRows) /\ Len(jobs') = Len(jobs) /\ JobIds' = JobIds
      /\ \A i \in JobIds : jobs'[i] = IF i = j THEN r ELSE jobs[i]
  BY Zenon, RowReplaced
<1>2. \A i \in JobIds : RowMove(jobs[i], jobs'[i])
  BY SMTT(30), <1>1 DEF RowMove
<1> QED
  BY SMTT(30), <1>1, <1>2, RowsByPosition DEF RowsTyped, JobsTyped, JobsMove

(* Inserting a job for the current source is a move of the table. *)
LEMMA InsertMoves ==
    ASSUME RowsTyped, Len(jobs) < MaxJobs, NEW k \in Keys, cur' \in Sources,
           jobs' = Append(jobs, NewJob(cur', k))
    PROVE  JobsTyped' /\ JobsMove
<1>1. /\ jobs' \in Seq(JobRows) /\ Len(jobs') = Len(jobs) + 1 /\ Len(jobs') <= MaxJobs
      /\ JobIds' = JobIds \cup {Len(jobs')}
      /\ \A i \in JobIds : jobs'[i] = jobs[i]
      /\ jobs'[Len(jobs')] = NewJob(cur', k)
  BY Zenon, RowInserted
<1>2. \A i \in JobIds : RowMove(jobs[i], jobs'[i])
  BY Zenon, <1>1 DEF RowMove
<1>3. NewJob(cur', k).key = k
  BY Zenon DEF NewJob
<1>4. \A j \in JobIds' \ JobIds : jobs'[j] = NewJob(cur', jobs'[j].key)
  BY Zenon, <1>1, <1>3
<1>5. Len(jobs) <= Len(jobs')
  BY SMTT(30), <1>1, RowsByPosition
<1> QED
  BY Zenon, <1>1, <1>2, <1>4, <1>5 DEF JobsTyped, JobsMove

(* The slots after a step, given what the rows do. *)
LEMMA SlotsKept ==
    ASSUME QueueInv, JobsTyped', JobsMove, slot' = slot
    PROVE  slot' \in [Workers -> Slots] /\ SlotsAreBound'
<1>1. Len(jobs) \in Nat /\ Len(jobs') \in Nat
  BY SMTT(30), RowsByPosition, ByPosition DEF QueueInv, JobsTyped
<1>2. \A j \in JobIds : j \in JobIds' /\ (jobs[j].completed => jobs'[j].completed)
  BY SMTT(30), <1>1 DEF JobsMove, RowMove, JobIds
<1> QED
  BY Zenon, <1>2 DEF QueueInv, RowsTyped, SlotsAreBound

(* A worker that lets go of its job leaves the other slots bound to their rows. *)
LEMMA SlotReleased ==
    ASSUME QueueInv, JobsTyped', JobsMove, NEW w \in Workers, Release(w)
    PROVE  slot' \in [Workers -> Slots] /\ SlotsAreBound'
<1>1. Len(jobs) \in Nat /\ Len(jobs') \in Nat
  BY SMTT(30), RowsByPosition, ByPosition DEF QueueInv, JobsTyped
<1>2. \A j \in JobIds : j \in JobIds' /\ (jobs[j].completed => jobs'[j].completed)
  BY SMTT(30), <1>1 DEF JobsMove, RowMove, JobIds
<1>3. IdleSlot \in Slots /\ IdleSlot.pc = "idle" /\ IdleSlot.job = 0
  BY SMTT(30) DEF IdleSlot, Slots, Steps
<1>4. \A u \in Workers : slot'[u] = IF u = w THEN IdleSlot ELSE slot[u]
  BY Zenon DEF Release, QueueInv, RowsTyped
<1>5. slot' \in [Workers -> Slots]
  BY Zenon, <1>3 DEF Release, QueueInv, RowsTyped
<1> QED
  BY Zenon, <1>2, <1>3, <1>4, <1>5 DEF QueueInv, SlotsAreBound

(* A worker that goes on to its next step keeps its slot bound to its row. *)
LEMMA SlotMoved ==
    ASSUME QueueInv, JobsTyped', JobsMove, NEW w \in Workers, slot[w].pc # "idle",
           NEW step \in Steps \ {"idle"}, NEW holds \in BOOLEAN,
           slot' = [slot EXCEPT ![w].pc = step, ![w].holds = holds],
           step \in {"settling", "finishing"} => jobs'[slot[w].job].completed
    PROVE  slot' \in [Workers -> Slots] /\ SlotsAreBound'
<1>1. Len(jobs) \in Nat /\ Len(jobs') \in Nat
  BY SMTT(30), RowsByPosition, ByPosition DEF QueueInv, JobsTyped
<1>2. \A j \in JobIds : j \in JobIds' /\ (jobs[j].completed => jobs'[j].completed)
  BY SMTT(30), <1>1 DEF JobsMove, RowMove, JobIds
<1>3. slot \in [Workers -> Slots]
  BY Zenon DEF QueueInv, RowsTyped
<1>4. /\ slot'[w].pc = step /\ slot'[w].job = slot[w].job
      /\ slot' \in [Workers -> Slots]
      /\ \A u \in Workers \ {w} : slot'[u] = slot[u]
  BY Zenon, <1>3 DEF Slots
<1> QED
  BY SMTT(30), <1>2, <1>4 DEF QueueInv, SlotsAreBound

-----------------------------------------------------------------------------
(* A sound step of the queue: typed rows, bound slots, rows that move as the
   contract says and a history that is kept. *)
SoundMove == RowsTyped' /\ SlotsAreBound' /\ JobsMove /\ ExtsMove

(* A step that leaves the extraction rows alone moves them legally. *)
LEMMA SameExtsMove ==
    ASSUME RowsTyped, exts' = exts
    PROVE  ExtsMove
  BY SMTT(30), RowsByPosition DEF ExtsMove, ExtractionIds

(* A step that leaves the document alone keeps it typed. *)
LEMMA SameDocument ==
    ASSUME RowsTyped, UNCHANGED document
    PROVE  DocTyped' /\ ExtsMove
<1>1. cur' = cur /\ docStatus' = docStatus /\ intake' = intake /\ exts' = exts
  BY Zenon DEF document
<1> QED
  BY Zenon, <1>1, SameExtsMove DEF RowsTyped, DocTyped

(* mark_failed on terminal jobs keeps the document typed and every extraction as it was. *)
LEMMA FailedDocument ==
    ASSUME RowsTyped, NEW S \in SUBSET Sources, TerminalFailure(S)
    PROVE  DocTyped' /\ ExtsMove
<1>1. intake' \in [Sources -> IntakeStates]
  BY Zenon DEF TerminalFailure, RowsTyped, DocTyped, IntakeStates
<1>2. cur' = cur /\ exts' = exts /\ docStatus' \in {docStatus, "failed"}
  BY Zenon DEF TerminalFailure
<1> QED
  BY Zenon, <1>1, <1>2, SameExtsMove DEF RowsTyped, DocTyped, DocumentStatuses

(* claim_next: burials and the lease of one row. *)
LEMMA BuriedRow ==
    ASSUME RowsTyped, NEW j \in JobIds
    PROVE  Buried(j) \in JobRows /\ RowMove(jobs[j], Buried(j))
<1>1. jobs[j] \in JobRows
  BY Zenon, RowsByPosition
<1>2. CASE ~Exhausted(j)
  BY Zenon, <1>1, <1>2 DEF Buried, RowMove
<1>3. CASE Exhausted(j)
  <2> DEFINE s == IF jobs[j].completed THEN "done" ELSE "dead"
  <2>1. s \in JobStatuses
    BY Zenon DEF JobStatuses
  <2>2. Buried(j) = Released(j, s)
    BY Zenon, <1>3 DEF Buried
  <2>3. jobs[j].status = "running" /\ jobs[j].attempts = MaxAttempts
    BY SMTT(30), <1>1, <1>3 DEF Exhausted, JobRows
  <2>4. s = "done" => jobs[j].completed
    BY SMTT(30)
  <2>5. s \in {"done", "dead"}
    BY SMTT(30)
  <2> HIDE DEF s
  <2> QED
    BY SMTT(30), <2>1, <2>2, <2>3, <2>4, <2>5, ReleasedRow DEF RowMove
<1> QED
  BY Zenon, <1>2, <1>3

(* claim_next, with the burials it makes on the way, is a sound move. *)
LEMMA PollMoves ==
    ASSUME QueueInv, NEW w \in Workers, Poll(w)
    PROVE  SoundMove
<1> USE DEF QueueInv
<1>1. FailedByBurial \in SUBSET Sources
  BY SMTT(30), RowsByPosition DEF FailedByBurial, JobRows
<1>2. DocTyped' /\ ExtsMove
  BY Zenon, <1>1, FailedDocument DEF Poll, Claim, ClaimNothing
<1>3. Len(jobs) \in Nat /\ JobIds = 1..Len(jobs)
  BY SMTT(30), RowsByPosition DEF JobIds
<1>4. ASSUME NEW j \in JobIds, Claim(w, j) PROVE SoundMove
  <2>1. jobs[j].attempts < MaxAttempts
    BY Zenon, <1>4 DEF Claim, Eligible, QueuedMayRun
  <2>2. Leased(j, w) \in JobRows /\ RowMove(jobs[j], Leased(j, w))
    <3>1. jobs[j].status \in {"queued", "running"}
      BY Zenon, <1>4 DEF Claim, Eligible
    <3> QED
      BY SMTT(30), <2>1, <3>1, LeasedRow DEF RowMove
  <2>3. jobs' = [i \in JobIds |-> IF i = j THEN Leased(i, w) ELSE Buried(i)]
    BY Zenon, <1>4 DEF Claim
  <2>4. /\ jobs' \in [1..Len(jobs) -> JobRows]
        /\ \A i \in JobIds : RowMove(jobs[i], jobs'[i])
    BY Zenon, <1>3, <2>2, <2>3, BuriedRow
  <2>5. jobs' \in Seq(JobRows) /\ Len(jobs') = Len(jobs)
    BY Zenon, <1>3, <2>4, FunctionIsSequence
  <2>6. JobsTyped' /\ JobsMove /\ JobIds' = JobIds
    BY SMTT(30), <1>3, <2>4, <2>5 DEF JobsTyped, JobsMove, JobIds, RowsTyped
  <2>7. slot' \in [Workers -> Slots] /\ SlotsAreBound'
    <3> DEFINE step == IF jobs[j].completed THEN "settling" ELSE "marking"
               new == [pc |-> step, job |-> j, holds |-> FALSE]
    <3>1. slot' = [slot EXCEPT ![w] = new]
      BY Zenon, <1>4 DEF Claim
    <3>2. new \in Slots
      BY SMTT(30), <1>3 DEF Slots, Steps, RowsTyped, JobsTyped
    <3>3. slot \in [Workers -> Slots]
      BY Zenon DEF RowsTyped
    <3>4. slot' \in [Workers -> Slots]
      BY Zenon, <3>1, <3>2, <3>3
    <3>5. \A u \in Workers : slot'[u] = IF u = w THEN new ELSE slot[u]
      BY Zenon, <3>1, <3>3
    <3>6. /\ new.pc = step /\ new.job = j /\ step \in {"settling", "marking"}
          /\ step = "settling" => jobs[j].completed
      BY Zenon
    <3>7. \A i \in JobIds : jobs[i].completed => jobs'[i].completed
      BY Zenon, <2>4 DEF RowMove
    <3> HIDE DEF new, step
    <3>8. SlotsAreBound'
      BY SMTT(30), <2>6, <3>5, <3>6, <3>7 DEF SlotsAreBound
    <3> QED
      BY Zenon, <3>4, <3>8
  <2> QED
    BY Zenon, <1>2, <2>6, <2>7 DEF SoundMove, RowsTyped
<1>5. ASSUME ClaimNothing(w) PROVE SoundMove
  <2>1. jobs' = [i \in JobIds |-> Buried(i)] /\ slot' = slot
    BY Zenon, <1>5 DEF ClaimNothing
  <2>2. /\ jobs' \in [1..Len(jobs) -> JobRows]
        /\ \A i \in JobIds : RowMove(jobs[i], jobs'[i])
    BY Zenon, <1>3, <2>1, BuriedRow
  <2>3. jobs' \in Seq(JobRows) /\ Len(jobs') = Len(jobs)
    BY Zenon, <1>3, <2>2, FunctionIsSequence
  <2>4. JobsTyped' /\ JobsMove
    BY SMTT(30), <1>3, <2>2, <2>3 DEF JobsTyped, JobsMove, JobIds, RowsTyped
  <2> QED
    BY Zenon, <1>2, <2>1, <2>4, SlotsKept DEF SoundMove, RowsTyped
<1> QED
  BY Zenon, <1>4, <1>5 DEF Poll

(* Leases that run out or are renewed leave status, attempts and result. *)
LEMMA ExpiryMoves ==
    ASSUME QueueInv, NEW j \in JobIds, NEW x \in BOOLEAN,
           jobs' = [jobs EXCEPT ![j].expired = x], UNCHANGED <<document, slot>>
    PROVE  SoundMove
<1> USE DEF QueueInv
<1> DEFINE r == [jobs[j] EXCEPT !.expired = x]
<1>1. r \in JobRows /\ RowMove(jobs[j], r)
  BY Zenon, RowsByPosition DEF RowMove, JobRows
<1>2. jobs' = [jobs EXCEPT ![j] = r]
  BY Zenon
<1> HIDE DEF r
<1>3. JobsTyped' /\ JobsMove
  BY Zenon, <1>1, <1>2, ReplaceMoves
<1> QED
  BY Zenon, <1>3, SameDocument, SlotsKept DEF SoundMove, RowsTyped

(* mark_done settles a completed row that is still leased. *)
LEMMA MarkDoneMoves ==
    ASSUME QueueInv, NEW w \in Workers, MarkDone(w)
    PROVE  SoundMove
<1> USE DEF QueueInv
<1> DEFINE j == slot[w].job
<1>1. j \in JobIds /\ jobs[j].completed /\ slot[w].pc # "idle" /\ UNCHANGED document
  BY Zenon DEF MarkDone, SlotsAreBound
<1>2. CASE HoldsLease(w) /\ jobs' = [jobs EXCEPT ![j] = Released(j, "done")] /\ Release(w)
  <2>1. Released(j, "done") \in JobRows /\ RowMove(jobs[j], Released(j, "done"))
    BY SMTT(30), <1>1, <1>2, ReleasedRow DEF RowMove, HoldsLease, JobStatuses
  <2>2. JobsTyped' /\ JobsMove
    BY Zenon, <1>1, <1>2, <2>1, ReplaceMoves
  <2> QED
    BY Zenon, <1>1, <1>2, <2>2, SameDocument, SlotReleased DEF SoundMove, RowsTyped
<1>3. CASE ~HoldsLease(w) /\ jobs' = jobs /\ (Release(w) \/ Goto(w, "failing"))
  <2>1. JobsTyped' /\ JobsMove
    BY Zenon, <1>3, SameJobsMove
  <2>2. slot' \in [Workers -> Slots] /\ SlotsAreBound'
    BY Zenon, <1>1, <1>3, <2>1, SlotReleased, SlotMoved DEF Goto, Steps
  <2> QED
    BY Zenon, <1>1, <2>1, <2>2, SameDocument DEF SoundMove, RowsTyped
<1> QED
  BY Zenon, <1>2, <1>3 DEF MarkDone

(* _record_failure puts a leased row back or buries it. *)
LEMMA RecordFailureMoves ==
    ASSUME QueueInv, NEW w \in Workers, RecordFailure(w)
    PROVE  SoundMove
<1> USE DEF QueueInv
<1> DEFINE j == slot[w].job
           s == IF jobs[j].attempts >= MaxAttempts THEN "dead" ELSE "queued"
<1>1. j \in JobIds /\ Release(w)
  BY Zenon DEF RecordFailure, SlotsAreBound
<1>2. CASE HoldsLease(w)
  <2>1. /\ jobs' = [jobs EXCEPT ![j] = Released(j, s)]
        /\ \E S \in SUBSET {jobs[j].src} : TerminalFailure(S)
    BY Zenon, <1>2 DEF RecordFailure
  <2>2. jobs[j] \in JobRows /\ jobs[j].status = "running"
    BY Zenon, <1>1, <1>2, RowsByPosition DEF HoldsLease
  <2>3. \/ s = "dead" /\ jobs[j].attempts = MaxAttempts
        \/ s = "queued" /\ jobs[j].attempts < MaxAttempts
    BY SMTT(30), <2>2 DEF JobRows
  <2> HIDE DEF s
  <2>4. Released(j, s) \in JobRows /\ RowMove(jobs[j], Released(j, s))
    BY SMTT(30), <1>1, <2>2, <2>3, ReleasedRow DEF RowMove, JobStatuses
  <2>5. JobsTyped' /\ JobsMove
    BY Zenon, <1>1, <2>1, <2>4, ReplaceMoves
  <2>6. DocTyped' /\ ExtsMove
    BY Zenon, <2>1, <2>2, FailedDocument DEF JobRows
  <2> QED
    BY Zenon, <1>1, <2>5, <2>6, SlotReleased DEF SoundMove, RowsTyped
<1>3. CASE ~HoldsLease(w)
  <2>1. jobs' = jobs /\ UNCHANGED document
    BY Zenon, <1>3 DEF RecordFailure
  <2> QED
    BY Zenon, <1>1, <2>1, SameJobsMove, SameDocument, SlotReleased DEF SoundMove, RowsTyped
<1> QED
  BY Zenon, <1>2, <1>3

(* The marking transaction and the start of a handler. *)
LEMMA MarkClaimedMoves ==
    ASSUME QueueInv, NEW w \in Workers, MarkClaimed(w)
    PROVE  SoundMove
<1> USE DEF QueueInv
<1>1. JobsTyped' /\ JobsMove
  BY Zenon, SameJobsMove DEF MarkClaimed
<1>2. intake' \in [Sources -> IntakeStates]
  BY Zenon DEF MarkClaimed, RowsTyped, DocTyped, IntakeStates
<1>3. DocTyped' /\ ExtsMove
  BY Zenon, <1>2, SameExtsMove DEF MarkClaimed, RowsTyped, DocTyped
<1>4. slot' \in [Workers -> Slots] /\ SlotsAreBound'
  <2>1. PICK step \in {"starting", "failing"} : Goto(w, step)
    BY Zenon DEF MarkClaimed
  <2>2. step \in Steps \ {"idle"} /\ slot[w].pc # "idle" /\ FALSE \in BOOLEAN
    BY Zenon DEF MarkClaimed, Steps
  <2>3. slot' = [slot EXCEPT ![w].pc = step, ![w].holds = FALSE]
    BY Zenon, <2>1 DEF Goto
  <2> QED
    BY Zenon, <1>1, <2>1, <2>2, <2>3, SlotMoved
<1> QED
  BY Zenon, <1>1, <1>3, <1>4 DEF SoundMove, RowsTyped

(* Setting completed_at touches one row and only that column. *)
LEMMA CompletesMoves ==
    ASSUME RowsTyped, NEW j \in JobIds, Completes(j)
    PROVE  /\ JobsTyped' /\ JobsMove /\ JobIds' = JobIds
           /\ jobs'[j].completed /\ jobs'[j].status = jobs[j].status
           /\ jobs'[j].owner = jobs[j].owner /\ jobs'[j].expired = jobs[j].expired
           /\ \A i \in JobIds \ {j} : jobs'[i] = jobs[i]
<1> DEFINE r == [jobs[j] EXCEPT !.completed = TRUE]
<1>1. /\ r \in JobRows /\ RowMove(jobs[j], r) /\ r.completed
      /\ r.status = jobs[j].status /\ r.owner = jobs[j].owner /\ r.expired = jobs[j].expired
  BY Zenon, RowsByPosition DEF RowMove, JobRows
<1>2. jobs' = [jobs EXCEPT ![j] = r]
  BY Zenon DEF Completes
<1> HIDE DEF r
<1>3. JobsTyped' /\ JobsMove /\ JobIds' = JobIds
  BY Zenon, <1>1, <1>2, ReplaceMoves
<1>4. \A i \in JobIds : jobs'[i] = IF i = j THEN r ELSE jobs[i]
  BY Zenon, <1>1, <1>2, RowReplaced
<1> QED
  BY Zenon, <1>1, <1>3, <1>4

(* Marking the document as processing, or finding the job already done, is a sound move. *)
LEMMA BeginMoves ==
    ASSUME QueueInv, NEW w \in Workers, Begin(w)
    PROVE  SoundMove
<1> USE DEF QueueInv
<1> DEFINE j == slot[w].job
<1>1. j \in JobIds /\ slot[w].pc # "idle" /\ UNCHANGED document
  BY Zenon DEF Begin, SlotsAreBound
<1>2. CASE jobs[j].completed /\ Goto(w, "finishing") /\ jobs' = jobs
  BY ZenonT(30), <1>1, <1>2, SameJobsMove, SameDocument, SlotMoved DEF Goto, Steps, SoundMove, RowsTyped
<1>3. CASE Completes(j) /\ Goto(w, "finishing")
  <2>1. JobsTyped' /\ JobsMove /\ jobs'[j].completed
    BY Zenon, <1>1, <1>3, CompletesMoves
  <2> QED
    BY Zenon, <1>1, <1>3, <2>1, SameDocument, SlotMoved DEF Goto, Steps, SoundMove, RowsTyped
<1>4. ASSUME NEW holds \in BOOLEAN, jobs' = jobs,
             slot' = [slot EXCEPT ![w].pc = "working", ![w].holds = holds]
      PROVE  SoundMove
  <2>1. JobsTyped' /\ JobsMove /\ DocTyped' /\ ExtsMove
    BY Zenon, <1>1, <1>4, SameJobsMove, SameDocument
  <2>2. "working" \in Steps \ {"idle"}
    BY Zenon DEF Steps
  <2>3. slot' \in [Workers -> Slots] /\ SlotsAreBound'
    BY Zenon, <1>1, <1>4, <2>1, <2>2, SlotMoved
  <2> QED
    BY Zenon, <2>1, <2>3 DEF SoundMove, RowsTyped
<1> QED
  BY ZenonT(30), <1>2, <1>3, <1>4 DEF Begin

(* Superseding what is pending changes no other extraction. *)
LEMMA SupersededRows ==
    ASSUME RowsTyped
    PROVE  /\ SupersedePending \in Seq(Extractions) /\ Len(SupersedePending) = Len(exts)
           /\ \A i \in ExtractionIds :
                /\ SupersedePending[i].src = exts[i].src /\ SupersedePending[i].job = exts[i].job
                /\ SupersedePending[i].status = IF exts[i].status = "pending" THEN "superseded"
                                                ELSE exts[i].status
<1>1. /\ Len(exts) \in Nat /\ ExtractionIds = 1..Len(exts)
      /\ \A i \in ExtractionIds : exts[i] \in Extractions
  BY Zenon, RowsByPosition DEF ExtractionIds
<1>2. \A i \in ExtractionIds :
        SupersedePending[i] = IF exts[i].status = "pending"
                              THEN [exts[i] EXCEPT !.status = "superseded"] ELSE exts[i]
  BY Zenon DEF SupersedePending, Pending
<1>3. \A i \in ExtractionIds : SupersedePending[i] \in Extractions
  <2>1. \A e \in Extractions : [e EXCEPT !.status = "superseded"] \in Extractions
    BY Zenon DEF Extractions, ExtractionStatuses
  <2> SUFFICES ASSUME NEW i \in ExtractionIds PROVE SupersedePending[i] \in Extractions
    BY SMTT(30)
  <2>2. CASE exts[i].status = "pending"
    BY Zenon, <1>1, <1>2, <2>1, <2>2
  <2>3. CASE exts[i].status # "pending"
    BY Zenon, <1>1, <1>2, <2>3
  <2> QED
    BY Zenon, <2>2, <2>3
<1>4. SupersedePending \in [1..Len(exts) -> Extractions]
  BY Zenon, <1>1, <1>3 DEF SupersedePending
<1>5. SupersedePending \in Seq(Extractions) /\ Len(SupersedePending) = Len(exts)
  BY Zenon, <1>1, <1>4, FunctionIsSequence
<1>6. \A i \in ExtractionIds :
        /\ SupersedePending[i].src = exts[i].src /\ SupersedePending[i].job = exts[i].job
        /\ SupersedePending[i].status = IF exts[i].status = "pending" THEN "superseded"
                                        ELSE exts[i].status
  BY ZenonT(30), <1>1, <1>2 DEF Extractions
<1> QED
  BY Zenon, <1>5, <1>6

(* An extraction is appended. *)
LEMMA ExtractionAppended ==
    ASSUME RowsTyped, NEW j \in 1..MaxJobs, Len(exts) < MaxExtractions,
           exts' = Append(SupersedePending, [src |-> cur, job |-> j, status |-> "pending"])
    PROVE  /\ exts' \in Seq(Extractions) /\ Len(exts') = Len(exts) + 1
           /\ ExtractionIds' = ExtractionIds \cup {Len(exts) + 1}
           /\ Len(exts) + 1 \notin ExtractionIds
           /\ \A i \in ExtractionIds :
                /\ exts'[i].src = exts[i].src /\ exts'[i].job = exts[i].job
                /\ exts'[i].status = IF exts[i].status = "pending" THEN "superseded"
                                     ELSE exts[i].status
           /\ exts'[Len(exts) + 1] = [src |-> cur, job |-> j, status |-> "pending"]
<1> DEFINE new == [src |-> cur, job |-> j, status |-> "pending"]
<1>1. new \in Extractions
  BY Zenon DEF Extractions, ExtractionStatuses, RowsTyped, DocTyped
<1>2. /\ SupersedePending \in Seq(Extractions) /\ Len(SupersedePending) = Len(exts)
      /\ Len(exts) \in Nat /\ ExtractionIds = 1..Len(exts)
  BY Zenon, SupersededRows, RowsByPosition DEF ExtractionIds
<1> HIDE DEF new
<1>3. /\ exts' \in Seq(Extractions) /\ Len(exts') = Len(exts) + 1
      /\ \A i \in 1..Len(exts) : exts'[i] = SupersedePending[i]
      /\ exts'[Len(exts) + 1] = new
  BY SMTT(30), <1>1, <1>2, Appending DEF new
<1>4. ExtractionIds' = ExtractionIds \cup {Len(exts) + 1} /\ Len(exts) + 1 \notin ExtractionIds
  BY SMTT(30), <1>2, <1>3 DEF ExtractionIds
<1>5. \A i \in ExtractionIds :
        /\ exts'[i].src = exts[i].src /\ exts'[i].job = exts[i].job
        /\ exts'[i].status = IF exts[i].status = "pending" THEN "superseded"
                             ELSE exts[i].status
  BY SMTT(30), <1>2, <1>3, SupersededRows
<1> QED
  BY Zenon, <1>3, <1>4, <1>5 DEF new

(* The commit of an extraction with its job's completion is a sound move. *)
LEMMA CommitMoves ==
    ASSUME QueueInv, NEW w \in Workers, Commit(w)
    PROVE  SoundMove
<1> USE DEF QueueInv
<1> DEFINE j == slot[w].job
           v == jobs[j].src
<1>1. j \in JobIds /\ slot[w].pc # "idle" /\ Completes(j) /\ cur' = cur
  BY Zenon DEF Commit, SlotsAreBound
<1>2. JobsTyped' /\ JobsMove /\ jobs'[j].completed /\ JobIds' = JobIds
  BY Zenon, <1>1, CompletesMoves
<1>3. slot' \in [Workers -> Slots] /\ SlotsAreBound'
  <2>1. "finishing" \in Steps \ {"idle"} /\ FALSE \in BOOLEAN
    BY Zenon DEF Steps
  <2>2. slot' = [slot EXCEPT ![w].pc = "finishing", ![w].holds = FALSE]
    BY Zenon DEF Commit, Goto
  <2> QED
    BY Zenon, <1>1, <1>2, <2>1, <2>2, SlotMoved
<1>4. v \in Sources /\ j \in 1..MaxJobs
  BY SMTT(30), <1>1, RowsByPosition DEF JobRows, JobIds
<1>5. CASE v # cur
  <2>1. intake' \in [Sources -> IntakeStates] /\ docStatus' = docStatus /\ exts' = exts
    BY Zenon, <1>4, <1>5 DEF Commit, RowsTyped, DocTyped, IntakeStates
  <2>2. DocTyped' /\ ExtsMove
    BY Zenon, <1>1, <2>1, SameExtsMove DEF RowsTyped, DocTyped
  <2> QED
    BY Zenon, <1>2, <1>3, <2>2 DEF SoundMove, RowsTyped
<1>6. CASE v = cur
  <2>1. /\ intake' \in [Sources -> IntakeStates] /\ docStatus' = "in_review"
        /\ Len(exts) < MaxExtractions
        /\ exts' = Append(SupersedePending, [src |-> cur, job |-> j, status |-> "pending"])
    BY Zenon, <1>4, <1>6 DEF Commit, RowsTyped, DocTyped, IntakeStates
  <2>2. /\ exts' \in Seq(Extractions) /\ Len(exts') = Len(exts) + 1
        /\ ExtractionIds' = ExtractionIds \cup {Len(exts) + 1}
        /\ \A i \in ExtractionIds :
             /\ exts'[i].src = exts[i].src /\ exts'[i].job = exts[i].job
             /\ exts'[i].status = IF exts[i].status = "pending" THEN "superseded"
                                  ELSE exts[i].status
        /\ exts'[Len(exts) + 1] = [src |-> cur, job |-> j, status |-> "pending"]
    BY Zenon, <1>4, <2>1, ExtractionAppended
  <2>3. Len(exts) \in Nat
    BY Zenon, RowsByPosition
  <2>4. DocTyped'
    BY SMTT(30), <1>1, <2>1, <2>2, <2>3 DEF RowsTyped, DocTyped, DocumentStatuses
  <2>5. ExtsMove
    <3>1. Len(exts) <= Len(exts')
      BY SMTT(30), <2>2, <2>3
    <3>2. \A i \in ExtractionIds :
            /\ exts'[i].src = exts[i].src /\ exts'[i].job = exts[i].job
            /\ exts[i].status \in {"rejected", "superseded"} => exts'[i].status = exts[i].status
            /\ exts[i].status = "approved" => exts'[i].status \in {"approved", "superseded"}
      BY Zenon, <2>2
    <3>3. \A i \in ExtractionIds' \ ExtractionIds :
            /\ exts'[i].src = cur' /\ exts'[i].status = "pending"
            /\ exts'[i].job \in JobIds' /\ jobs'[exts'[i].job].completed
      BY SMTT(30), <1>1, <1>2, <2>2
    <3> QED
      BY Zenon, <3>1, <3>2, <3>3 DEF ExtsMove
  <2> QED
    BY Zenon, <1>2, <1>3, <2>4, <2>5 DEF SoundMove, RowsTyped
<1> QED
  BY Zenon, <1>5, <1>6

(* Steps of a slot that change nothing else: a handler that raises, a fault in
   mark_done and a kill. *)
LEMMA SlotMoves ==
    ASSUME QueueInv, NEW w \in Workers, Raise(w) \/ MarkDoneFault(w) \/ Crash(w)
    PROVE  SoundMove
<1> USE DEF QueueInv
<1>1. JobsTyped' /\ JobsMove /\ DocTyped' /\ ExtsMove
  BY Zenon, SameJobsMove, SameDocument DEF Raise, MarkDoneFault, Crash
<1>2. ASSUME Goto(w, "failing"), slot[w].pc # "idle"
      PROVE  slot' \in [Workers -> Slots] /\ SlotsAreBound'
  <2>1. "failing" \in Steps \ {"idle"} /\ FALSE \in BOOLEAN
    BY Zenon DEF Steps
  <2>2. slot' = [slot EXCEPT ![w].pc = "failing", ![w].holds = FALSE]
    BY Zenon, <1>2 DEF Goto
  <2> QED
    BY Zenon, <1>1, <1>2, <2>1, <2>2, SlotMoved
<1>3. slot' \in [Workers -> Slots] /\ SlotsAreBound'
  BY Zenon, <1>1, <1>2, SlotReleased DEF Raise, MarkDoneFault, Crash
<1> QED
  BY Zenon, <1>1, <1>3 DEF SoundMove, RowsTyped

(* append_original_version. *)
LEMMA AppendSourceMoves ==
    ASSUME QueueInv, AppendSource
    PROVE  SoundMove
<1> USE DEF QueueInv
<1>1. /\ cur' = cur + 1 /\ cur' \in Sources /\ exts' = SupersedePending /\ slot' = slot
      /\ Len(jobs) < MaxJobs /\ docStatus' = "needs_reprocess"
      /\ jobs' = Append(jobs, NewJob(cur', <<"source", cur'>>))
  BY SMTT(30) DEF AppendSource, RowsTyped, DocTyped, Sources
<1>2. <<"source", cur'>> \in Keys
  BY SMTT(30), <1>1 DEF Keys, Sources
<1>3. JobsTyped' /\ JobsMove
  BY Zenon, <1>1, <1>2, InsertMoves
<1>4. intake' \in [Sources -> IntakeStates]
  BY Zenon DEF AppendSource, RowsTyped, DocTyped, IntakeStates
<1>5. DocTyped' /\ ExtsMove
  BY SMTT(30), <1>1, <1>4, SupersededRows, RowsByPosition
     DEF RowsTyped, DocTyped, DocumentStatuses, ExtsMove, ExtractionIds
<1> QED
  BY Zenon, <1>1, <1>3, <1>5, SlotsKept DEF SoundMove, RowsTyped

(* What an approval and a rejection do to the extractions. *)
LEMMA ApprovedRows ==
    ASSUME RowsTyped, NEW i \in ExtractionIds, Approve(i)
    PROVE  /\ exts[i].status = "pending"
           /\ exts' \in Seq(Extractions) /\ Len(exts') = Len(exts)
           /\ \A k \in ExtractionIds :
                /\ exts'[k].src = exts[k].src /\ exts'[k].job = exts[k].job
                /\ exts'[k].status = IF k = i THEN "approved"
                                     ELSE IF exts[k].status = "approved" THEN "superseded"
                                     ELSE exts[k].status
<1>1. /\ Len(exts) \in Nat /\ ExtractionIds = 1..Len(exts)
      /\ \A k \in ExtractionIds : exts[k] \in Extractions
  BY Zenon, RowsByPosition DEF ExtractionIds
<1>2. \A e \in Extractions, s \in {"approved", "superseded"} :
        /\ [e EXCEPT !.status = s] \in Extractions
        /\ [e EXCEPT !.status = s].src = e.src /\ [e EXCEPT !.status = s].job = e.job
        /\ [e EXCEPT !.status = s].status = s
  BY Zenon DEF Extractions, ExtractionStatuses
<1>3. exts' = [k \in ExtractionIds |->
                  IF k = i THEN [exts[k] EXCEPT !.status = "approved"]
                  ELSE IF exts[k].status = "approved"
                  THEN [exts[k] EXCEPT !.status = "superseded"]
                  ELSE exts[k]]
  BY Zenon DEF Approve
<1>4. exts' \in [1..Len(exts) -> Extractions]
  BY Zenon, <1>1, <1>2, <1>3
<1>5. exts' \in Seq(Extractions) /\ Len(exts') = Len(exts)
  BY Zenon, <1>1, <1>4, FunctionIsSequence
<1>6. \A k \in ExtractionIds :
        /\ exts'[k].src = exts[k].src /\ exts'[k].job = exts[k].job
        /\ exts'[k].status = IF k = i THEN "approved"
                             ELSE IF exts[k].status = "approved" THEN "superseded"
                             ELSE exts[k].status
  BY SMTT(30), <1>1, <1>2, <1>3
<1> QED
  BY Zenon, <1>5, <1>6 DEF Approve, Pending

(* Rejecting a pending row changes the status of that row alone. *)
LEMMA RejectedRows ==
    ASSUME RowsTyped, NEW i \in ExtractionIds, Reject(i)
    PROVE  /\ exts[i].status = "pending"
           /\ exts' \in Seq(Extractions) /\ Len(exts') = Len(exts)
           /\ \A k \in ExtractionIds :
                /\ exts'[k].src = exts[k].src /\ exts'[k].job = exts[k].job
                /\ exts'[k].status = IF k = i THEN "rejected" ELSE exts[k].status
<1>1. /\ Len(exts) \in Nat /\ ExtractionIds = 1..Len(exts)
      /\ exts \in [1..Len(exts) -> Extractions]
      /\ \A k \in ExtractionIds : exts[k] \in Extractions
  BY Zenon, RowsByPosition DEF ExtractionIds
<1>2. \A e \in Extractions :
        /\ [e EXCEPT !.status = "rejected"] \in Extractions
        /\ [e EXCEPT !.status = "rejected"].src = e.src
        /\ [e EXCEPT !.status = "rejected"].job = e.job
        /\ [e EXCEPT !.status = "rejected"].status = "rejected"
  BY Zenon DEF Extractions, ExtractionStatuses
<1>3. exts' = [exts EXCEPT ![i] = [exts[i] EXCEPT !.status = "rejected"]]
  BY Zenon DEF Reject
<1>4. exts' \in [1..Len(exts) -> Extractions]
  BY Zenon, <1>1, <1>2, <1>3
<1>5. exts' \in Seq(Extractions) /\ Len(exts') = Len(exts)
  BY Zenon, <1>1, <1>4, FunctionIsSequence
<1>6. \A k \in ExtractionIds :
        /\ exts'[k].src = exts[k].src /\ exts'[k].job = exts[k].job
        /\ exts'[k].status = IF k = i THEN "rejected" ELSE exts[k].status
  BY SMTT(30), <1>1, <1>2, <1>3
<1> QED
  BY Zenon, <1>5, <1>6 DEF Reject, Pending

(* A reviewer's approval or rejection is a sound move. *)
LEMMA ReviewMoves ==
    ASSUME QueueInv, NEW i \in ExtractionIds, Approve(i) \/ Reject(i)
    PROVE  SoundMove
<1> USE DEF QueueInv
<1>1. jobs' = jobs /\ slot' = slot /\ cur' = cur /\ intake' = intake
  BY Zenon DEF Approve, Reject
<1>2. JobsTyped' /\ JobsMove
  BY Zenon, <1>1, SameJobsMove
<1>3. /\ exts' \in Seq(Extractions) /\ Len(exts') = Len(exts)
      /\ exts[i].status = "pending"
      /\ \A k \in ExtractionIds :
           /\ exts'[k].src = exts[k].src /\ exts'[k].job = exts[k].job
           /\ k # i => \/ exts'[k].status = exts[k].status
                       \/ exts[k].status = "approved" /\ exts'[k].status = "superseded"
  BY SMTT(30), ApprovedRows, RejectedRows
<1>4. docStatus' \in DocumentStatuses
  BY Zenon DEF Approve, Reject, DocumentStatuses
<1>5. DocTyped'
  BY Zenon, <1>1, <1>3, <1>4 DEF RowsTyped, DocTyped
<1>6. ExtsMove
  BY SMTT(30), <1>3, RowsByPosition DEF ExtsMove, ExtractionIds
<1> QED
  BY Zenon, <1>1, <1>2, <1>5, <1>6, SlotsKept DEF SoundMove, RowsTyped

(* Where the key of a reprocess request comes from. *)
LEMMA ReprocessKeyOrigin ==
    ASSUME NEW k \in ReprocessKey
    PROVE  \/ /\ docStatus = "needs_reprocess"
              /\ \E i \in Latest(OfSource("rejected", cur)) : k = <<"extraction", i>>
           \/ /\ \/ docStatus = "needs_reprocess" /\ OfSource("rejected", cur) = {}
                 \/ docStatus = "verified"
              /\ \E i \in Latest(OfSource("approved", cur)) : k = <<"extraction", i>>
           \/ /\ \/ docStatus = "failed"
                 \/ /\ docStatus = "needs_reprocess"
                    /\ OfSource("rejected", cur) = {} /\ OfSource("approved", cur) = {}
              /\ \/ \E j \in Active(cur) : k = jobs[j].key
                 \/ Active(cur) = {} /\ \E j \in Latest(Dead(cur)) : k = <<"failure", j>>
<1> DEFINE rejected == OfSource("rejected", cur)
           approved == OfSource("approved", cur)
           ofExtraction(S) == {<<"extraction", i>> : i \in Latest(S)}
           ofJob == IF Active(cur) # {} THEN {jobs[j].key : j \in Latest(Active(cur))}
                    ELSE {<<"failure", j>> : j \in Latest(Dead(cur))}
<1>1. CASE docStatus = "needs_reprocess"
  <2>1. ReprocessKey = IF rejected # {} THEN ofExtraction(rejected)
                       ELSE IF approved # {} THEN ofExtraction(approved)
                       ELSE ofJob
    BY Zenon, <1>1 DEF ReprocessKey
  <2> QED
    BY Zenon, <1>1, <2>1 DEF Latest
<1>2. CASE docStatus = "verified"
  <2>1. ReprocessKey = ofExtraction(approved)
    BY Zenon, <1>2 DEF ReprocessKey
  <2> QED
    BY Zenon, <1>2, <2>1
<1>3. CASE docStatus = "failed"
  <2>1. ReprocessKey = ofJob
    BY Zenon, <1>3 DEF ReprocessKey
  <2> QED
    BY Zenon, <1>3, <2>1 DEF Latest
<1>4. CASE docStatus \notin {"needs_reprocess", "verified", "failed"}
  <2>1. ReprocessKey = {}
    BY Zenon, <1>4 DEF ReprocessKey
  <2> QED
    BY Zenon, <2>1
<1> QED
  BY Zenon, <1>1, <1>2, <1>3, <1>4

(* The key the reprocess route derives is a key of the queue. *)
LEMMA ReprocessKeyTyped ==
    ASSUME RowsTyped, NEW k \in ReprocessKey
    PROVE  k \in Keys
<1>1. ASSUME NEW i \in ExtractionIds PROVE <<"extraction", i>> \in Keys
  BY SMTT(30), RowsByPosition DEF RowsTyped, DocTyped, ExtractionIds, Keys
<1>2. ASSUME NEW j \in JobIds PROVE <<"failure", j>> \in Keys
  BY SMTT(30), RowsByPosition DEF RowsTyped, JobsTyped, JobIds, Keys
<1>3. ASSUME NEW j \in JobIds PROVE jobs[j].key \in Keys
  BY Zenon, RowsByPosition DEF JobRows
<1> QED
  BY SMTT(30), <1>1, <1>2, <1>3, ReprocessKeyOrigin DEF Latest, OfSource, Active, Dead

(* reprocess_document. *)
LEMMA ReprocessMoves ==
    ASSUME QueueInv, Reprocess
    PROVE  SoundMove
<1> USE DEF QueueInv
<1>1. PICK k \in ReprocessKey :
        LET known == \E j \in JobIds : jobs[j].key = k IN
        /\ known \/ Len(jobs) < MaxJobs
        /\ jobs' = IF known THEN jobs ELSE Append(jobs, NewJob(cur, k))
  BY Zenon DEF Reprocess
<1>2. /\ cur' = cur /\ exts' = exts /\ slot' = slot /\ docStatus' = "needs_reprocess"
      /\ intake' \in [Sources -> IntakeStates] /\ cur' \in Sources
  BY Zenon DEF Reprocess, RowsTyped, DocTyped, IntakeStates
<1>3. k \in Keys
  BY Zenon, ReprocessKeyTyped
<1>4. JobsTyped' /\ JobsMove
  BY Zenon, <1>1, <1>2, <1>3, SameJobsMove, InsertMoves
<1>5. DocTyped' /\ ExtsMove
  BY Zenon, <1>2, SameExtsMove DEF RowsTyped, DocTyped, DocumentStatuses
<1> QED
  BY Zenon, <1>2, <1>4, <1>5, SlotsKept DEF SoundMove, RowsTyped

(* Steps of the search projection leave the rows alone. *)
LEMMA QuietMoves ==
    ASSUME QueueInv, UNCHANGED <<document, jobs, slot>>
    PROVE  SoundMove
  BY Zenon, SameJobsMove, SameDocument, SlotsKept DEF SoundMove, QueueInv, RowsTyped

(* Every step is sound for the queue. *)
LEMMA NextMoves == ASSUME QueueInv, [Next]_vars PROVE SoundMove
<1>1. ASSUME NEW w \in Workers, Poll(w) PROVE SoundMove
  BY Zenon, <1>1, PollMoves
<1>2. ASSUME NEW w \in Workers, Execute(w) PROVE SoundMove
  BY Zenon, <1>2, MarkClaimedMoves, BeginMoves, CommitMoves, SlotMoves, MarkDoneMoves,
     RecordFailureMoves DEF Execute
<1>3. ASSUME NEW w \in Workers, Renew(w) \/ Lapse(w) PROVE SoundMove
  <2>1. slot[w].job \in JobIds /\ UNCHANGED <<document, slot>>
    BY Zenon, <1>3 DEF Renew, Lapse, QueueInv, SlotsAreBound
  <2>2. \E x \in BOOLEAN : jobs' = [jobs EXCEPT ![slot[w].job].expired = x]
    BY Zenon, <1>3 DEF Renew, Lapse
  <2> QED
    BY Zenon, <2>1, <2>2, ExpiryMoves
<1>4. ASSUME NEW w \in Workers, MarkDoneFault(w) \/ Crash(w) PROVE SoundMove
  BY Zenon, <1>4, SlotMoves
<1>5. ASSUME NEW j \in JobIds, LeaseRunsOut(j) PROVE SoundMove
  BY ZenonT(30), <1>5, ExpiryMoves DEF LeaseRunsOut
<1>6. ASSUME NEW v \in Sources, IndexStep(v) PROVE SoundMove
  BY Zenon, <1>6, QuietMoves DEF IndexStep, IndexCommit, IndexRaise
<1>7. CASE Review
  BY Zenon, <1>7, ReviewMoves DEF Review
<1>8. CASE AppendSource
  BY Zenon, <1>8, AppendSourceMoves
<1>9. CASE Reprocess
  BY Zenon, <1>9, ReprocessMoves
<1>10. CASE RetryDerivatives \/ UNCHANGED vars
  BY Zenon, <1>10, QuietMoves DEF RetryDerivatives, vars
<1> QED
  BY Zenon, <1>1, <1>2, <1>3, <1>4, <1>5, <1>6, <1>7, <1>8, <1>9, <1>10 DEF Next

(* The originals are only ever added to. *)
LEMMA SourcesGrow == ASSUME RowsTyped, [Next]_vars PROVE cur' \in {cur, cur + 1}
  BY ZenonT(30) DEF Next, vars, document, Poll, Claim, ClaimNothing, TerminalFailure, Execute, MarkClaimed,
         Begin, Commit, Raise, MarkDone, RecordFailure, Renew, Lapse, MarkDoneFault, Crash,
         LeaseRunsOut, IndexStep, IndexCommit, IndexRaise, Review, Approve, Reject,
         AppendSource, Reprocess, RetryDerivatives

(* The columns of a new row. *)
LEMMA NewRow ==
    ASSUME NEW v, NEW k
    PROVE  /\ NewJob(v, k).src = v /\ NewJob(v, k).key = k /\ NewJob(v, k).status = "queued"
           /\ ~NewJob(v, k).completed /\ NewJob(v, k).attempts = 0
           /\ NewJob(v, k).owner = NoOwner /\ ~NewJob(v, k).expired
  BY Zenon DEF NewJob

(* Every step of the pipeline preserves QueueInv. *)
LEMMA QueueStep == ASSUME QueueInv, [Next]_vars PROVE QueueInv'
<1> USE DEF QueueInv
<1>1. RowsTyped' /\ SlotsAreBound' /\ JobsMove /\ ExtsMove /\ cur' \in {cur, cur + 1}
  BY Zenon, NextMoves, SourcesGrow DEF SoundMove
<1>2. /\ Len(jobs) \in Nat /\ Len(jobs') \in Nat /\ Len(exts) \in Nat /\ Len(exts') \in Nat
      /\ cur \in Nat /\ cur' \in Nat
  BY SMTT(30), <1>1, ByPosition DEF RowsTyped, JobsTyped, DocTyped, Sources
<1>3. JobIds \subseteq JobIds' /\ ExtractionIds \subseteq ExtractionIds'
  BY SMTT(30), <1>1, <1>2 DEF JobsMove, ExtsMove, JobIds, ExtractionIds
<1>4. QueuedMayRun'
  <2>1. \A j \in JobIds : jobs'[j].status = "queued" => jobs'[j].attempts < MaxAttempts
    BY SMTT(30), <1>1 DEF QueuedMayRun, JobsMove, RowMove
  <2>2. \A j \in JobIds' \ JobIds : jobs'[j].attempts = 0
    BY SMTT(30), <1>1, NewRow DEF JobsMove
  <2> QED
    BY SMTT(30), <2>1, <2>2 DEF QueuedMayRun
<1>5. RowsAreBound'
  <2>1. \A j \in JobIds' : jobs'[j].src \in Sources
    <3>1. jobs' \in [1..Len(jobs') -> JobRows]
      BY Zenon, <1>1, ByPosition DEF RowsTyped, JobsTyped
    <3> QED
      BY Zenon, <3>1 DEF JobRows, JobIds
  <2>2. \A j \in JobIds' : jobs'[j].src <= cur'
    <3>1. \A j \in JobIds : jobs'[j].src <= cur'
      BY SMTT(30), <1>1, <1>2, <2>1, <1>3 DEF RowsAreBound, JobsMove, RowMove, Sources
    <3>2. \A j \in JobIds' \ JobIds : jobs'[j].src = cur'
      BY SMTT(30), <1>1, NewRow DEF JobsMove
    <3> QED
      BY SMTT(30), <1>2, <3>1, <3>2
  <2>3. ASSUME NEW i \in ExtractionIds'
        PROVE  exts'[i].src <= cur' /\ exts'[i].job \in JobIds' /\ jobs'[exts'[i].job].completed
    <3>1. CASE i \in ExtractionIds
      <4>1. /\ exts[i].src <= cur /\ exts[i].src \in Nat
            /\ exts[i].job \in JobIds /\ jobs[exts[i].job].completed
        BY SMTT(30), <3>1, RowsByPosition DEF RowsAreBound, Extractions, Sources
      <4>2. exts'[i].src = exts[i].src /\ exts'[i].job = exts[i].job
        BY Zenon, <1>1, <3>1 DEF ExtsMove
      <4>3. exts'[i].src <= cur'
        BY SMTT(30), <1>1, <1>2, <4>1, <4>2
      <4> QED
        BY Zenon, <1>1, <1>3, <4>1, <4>2, <4>3 DEF JobsMove, RowMove
    <3>2. CASE i \notin ExtractionIds
      BY SMTT(30), <1>1, <1>2, <3>2 DEF ExtsMove
    <3> QED
      BY Zenon, <3>1, <3>2
  <2> QED
    BY Zenon, <2>2, <2>3 DEF RowsAreBound
<1> QED
  BY Zenon, <1>1, <1>4, <1>5

-----------------------------------------------------------------------------
(* The rows have a domain, and a step that keeps it adds no row. *)
LEMMA SameDomain ==
    ASSUME QueueInv, [Next]_vars, DOMAIN jobs' = DOMAIN jobs
    PROVE  Len(jobs') = Len(jobs) /\ JobIds' = JobIds
<1>1. jobs \in Seq(JobRows) /\ jobs' \in Seq(JobRows)
  BY Zenon, NextMoves DEF QueueInv, SoundMove, RowsTyped, JobsTyped
<1>2. /\ Len(jobs) \in Nat /\ DOMAIN jobs = 1..Len(jobs)
      /\ Len(jobs') \in Nat /\ DOMAIN jobs' = 1..Len(jobs')
  BY Zenon, <1>1, ByPosition
<1> QED
  BY SMTT(30), <1>2 DEF JobIds

(* A job of the current source dies in the step; while leases are kept it has
   not recorded a result. *)
WorkDies == \E j \in Active(cur) : j \in Dead(cur)' /\ (SlotsHoldLeases => ~jobs[j].completed)

(* The document fails only together with a job of its current source. *)
LEMMA BurialFails ==
    ASSUME QueueInv, NEW w \in Workers, Poll(w)
    PROVE  /\ cur' = cur /\ exts' = exts /\ chunks' = chunks /\ DOMAIN jobs' = DOMAIN jobs
           /\ docStatus' = docStatus \/ (docStatus' = "failed" /\ WorkDies)
<1> USE DEF QueueInv
<1>1. TerminalFailure(FailedByBurial) /\ UNCHANGED search
  BY Zenon DEF Poll, Claim, ClaimNothing
<1>2. cur' = cur /\ exts' = exts /\ chunks' = chunks
  BY Zenon, <1>1 DEF TerminalFailure, search
<1>3. DOMAIN jobs' = DOMAIN jobs
  BY Zenon, RowsByPosition DEF Poll, Claim, ClaimNothing, JobIds
<1>4. CASE cur \notin FailedByBurial
  BY Zenon, <1>1, <1>2, <1>3, <1>4 DEF TerminalFailure
<1>5. CASE cur \in FailedByBurial
  <2>1. PICK j \in JobIds : Exhausted(j) /\ ~jobs[j].completed /\ jobs[j].src = cur
    BY Zenon, <1>5 DEF FailedByBurial
  <2>2. Buried(j) = Released(j, "dead") /\ ~Eligible(j) /\ j \in Active(cur)
    BY SMTT(30), <2>1, RowsByPosition DEF Buried, Exhausted, Eligible, JobRows, Active
  <2>3. Buried(j).status = "dead" /\ Buried(j).src = cur
    BY SMTT(30), <2>1, <2>2, ReleasedRow DEF JobStatuses
  <2>4. jobs'[j] = Buried(j)
    BY Zenon, <2>2 DEF Poll, Claim, ClaimNothing
  <2>5. Len(jobs) \in Nat /\ Len(jobs') \in Nat /\ Len(jobs) <= Len(jobs')
    BY Zenon, PollMoves, RowsByPosition, ByPosition DEF SoundMove, JobsMove, RowsTyped, JobsTyped
  <2>6. j \in Dead(cur)'
    BY SMTT(30), <1>2, <2>3, <2>4, <2>5 DEF Dead, JobIds
  <2>7. WorkDies
    BY Zenon, <2>1, <2>2, <2>6 DEF WorkDies
  <2> QED
    BY Zenon, <1>1, <1>2, <1>3, <1>5, <2>7 DEF TerminalFailure
<1> QED
  BY Zenon, <1>4, <1>5

(* A failed attempt leaves extractions and chunks alone; it fails the document only with its work dead. *)
LEMMA AttemptFails ==
    ASSUME QueueInv, NEW w \in Workers, RecordFailure(w)
    PROVE  /\ cur' = cur /\ exts' = exts /\ chunks' = chunks /\ DOMAIN jobs' = DOMAIN jobs
           /\ docStatus' = docStatus \/ (docStatus' = "failed" /\ WorkDies)
<1> USE DEF QueueInv
<1> DEFINE j == slot[w].job
<1>1. j \in JobIds /\ chunks' = chunks /\ DOMAIN jobs' = DOMAIN jobs
  BY Zenon DEF RecordFailure, SlotsAreBound, search
<1>2. CASE ~HoldsLease(w)
  BY Zenon, <1>1, <1>2 DEF RecordFailure, document
<1>3. CASE HoldsLease(w) /\ ~(jobs[j].attempts >= MaxAttempts)
  BY Zenon, <1>1, <1>3 DEF RecordFailure, TerminalFailure
<1>4. CASE HoldsLease(w) /\ jobs[j].attempts >= MaxAttempts
  <2>1. jobs' = [jobs EXCEPT ![j] = Released(j, "dead")] /\ TerminalFailure({jobs[j].src})
    BY Zenon, <1>4 DEF RecordFailure
  <2>2. /\ Released(j, "dead") \in JobRows /\ Released(j, "dead").src = jobs[j].src
        /\ Released(j, "dead").status = "dead"
    BY Zenon, <1>1, ReleasedRow DEF JobStatuses
  <2>3. j \in JobIds' /\ jobs'[j] = Released(j, "dead")
    <3>1. j \in JobIds /\ Released(j, "dead") \in JobRows
          /\ jobs' = [jobs EXCEPT ![j] = Released(j, "dead")]
      BY Zenon, <1>1, <2>1, <2>2
    <3> HIDE DEF j
    <3>2. /\ JobIds' = JobIds
          /\ \A i \in JobIds : jobs'[i] = IF i = j THEN Released(j, "dead") ELSE jobs[i]
      BY ZenonT(30), <3>1, RowReplaced
    <3> QED
      BY Zenon, <3>1, <3>2
  <2>4. cur' = cur /\ exts' = exts /\ docStatus' = IF cur = jobs[j].src THEN "failed" ELSE docStatus
    BY Zenon, <2>1 DEF TerminalFailure
  <2>5. ASSUME jobs[j].src = cur PROVE WorkDies
    <3>1. j \in Dead(cur)'
      BY Zenon, <2>2, <2>3, <2>4, <2>5 DEF Dead
    <3>2. j \in Active(cur) /\ (SlotsHoldLeases => ~jobs[j].completed)
      BY Zenon, <1>1, <1>4, <2>5 DEF Active, HoldsLease, SlotsHoldLeases, RecordFailure
    <3> QED
      BY Zenon, <3>1, <3>2 DEF WorkDies
  <2> QED
    BY Zenon, <1>1, <2>4, <2>5
<1> QED
  BY Zenon, <1>2, <1>3, <1>4

(* The transaction that appends an extraction. *)
LEMMA CommitRows ==
    ASSUME QueueInv, NEW w \in Workers, Commit(w), jobs[slot[w].job].src = cur
    PROVE  /\ slot[w].job \in 1..MaxJobs /\ slot[w].job \in JobIds
           /\ Completes(slot[w].job) /\ DOMAIN jobs' = DOMAIN jobs
           /\ cur' = cur /\ docStatus' = "in_review" /\ chunks' = chunks
           /\ Len(exts) < MaxExtractions
           /\ exts' = Append(SupersedePending,
                             [src |-> cur, job |-> slot[w].job, status |-> "pending"])
<1>1. slot[w].job \in JobIds
  BY Zenon DEF Commit, QueueInv, SlotsAreBound
<1>2. slot[w].job \in 1..MaxJobs
  BY SMTT(30), <1>1, RowsByPosition DEF QueueInv, JobIds
<1> QED
  BY Zenon, <1>1, <1>2 DEF Commit, Completes

(* What a step does to the document: it keeps the rows, fails the document with
   a job of its source, or is one of the operations that write them. *)
SameRows == /\ cur' = cur /\ exts' = exts /\ chunks' \in {chunks, cur}
            /\ DOMAIN jobs' = DOMAIN jobs

(* What each step of the pipeline can do to the document and its extraction rows. *)
LEMMA DocumentMoves ==
    ASSUME QueueInv, [Next]_vars
    PROVE  \/ SameRows /\ docStatus' = docStatus
           \/ SameRows /\ docStatus' = "failed" /\ WorkDies
           \/ \E w \in Workers : Commit(w) /\ jobs[slot[w].job].src = cur
           \/ AppendSource
           \/ Reprocess
           \/ \E i \in ExtractionIds : Approve(i) \/ Reject(i)
<1> DEFINE Quiet == SameRows /\ docStatus' = docStatus
<1>1. ASSUME NEW w \in Workers, Poll(w) \/ RecordFailure(w)
      PROVE  Quiet \/ (SameRows /\ docStatus' = "failed" /\ WorkDies)
  BY Zenon, <1>1, BurialFails, AttemptFails DEF SameRows
<1>2. ASSUME NEW w \in Workers,
             MarkClaimed(w) \/ Begin(w) \/ Raise(w) \/ MarkDone(w) \/ Renew(w) \/ Lapse(w)
               \/ MarkDoneFault(w) \/ Crash(w)
      PROVE  Quiet
  BY ZenonT(30), <1>2 DEF MarkClaimed, Begin, Raise, MarkDone, Renew, Lapse, MarkDoneFault, Crash,
              Completes, document, search, SameRows
<1>3. ASSUME NEW w \in Workers, Commit(w), jobs[slot[w].job].src # cur PROVE Quiet
  BY Zenon, <1>3 DEF Commit, Completes, SameRows
<1>4. ASSUME NEW j \in JobIds, LeaseRunsOut(j) PROVE Quiet
  BY Zenon, <1>4 DEF LeaseRunsOut, document, search, SameRows
<1>5. ASSUME NEW v \in Sources, IndexStep(v) PROVE Quiet
  BY Zenon, <1>5 DEF IndexStep, IndexCommit, IndexRaise, document, SameRows
<1>6. CASE RetryDerivatives \/ UNCHANGED vars
  BY Zenon, <1>6 DEF RetryDerivatives, vars, document, search, SameRows
<1> HIDE DEF Quiet
<1>7. CASE Quiet
  BY Zenon, <1>7 DEF Quiet
<1> QED
  BY Zenon, <1>1, <1>2, <1>3, <1>4, <1>5, <1>6, <1>7 DEF Next, Execute, Review

(* What is dead stays dead, and bound to its source. *)
LEMMA DeadStays ==
    ASSUME QueueInv, [Next]_vars, cur' = cur
    PROVE  Dead(cur) \subseteq Dead(cur)'
<1>1. JobsMove /\ JobIds \subseteq JobIds'
  <2>1. JobsMove /\ Len(jobs) \in Nat /\ Len(jobs') \in Nat
    BY Zenon, NextMoves, RowsByPosition, ByPosition DEF SoundMove, QueueInv, RowsTyped, JobsTyped
  <2> QED
    BY SMTT(30), <2>1 DEF JobsMove, JobIds
<1> QED
  BY Zenon, <1>1 DEF Dead, JobsMove, RowMove

(* Every step of the pipeline preserves ReviewInv. *)
LEMMA ReviewStep == ASSUME LifeInv, [Next]_vars PROVE ReviewInv'
<1> USE DEF LifeInv, QueueInv, ReviewInv
<1>1. /\ Len(exts) \in Nat /\ ExtractionIds = 1..Len(exts)
      /\ \A i \in ExtractionIds : exts[i].status \in ExtractionStatuses
  BY Zenon, RowsByPosition DEF ExtractionIds, Extractions
<1>2. ASSUME cur' = cur, exts' = exts, chunks' \in {chunks, cur},
             docStatus' \in {docStatus, "needs_reprocess"}
               \/ (docStatus' = "failed" /\ Dead(cur)' # {})
      PROVE  ReviewInv'
  <2>1. ExtractionIds' = ExtractionIds /\ Pending' = Pending /\ Dead(cur) \subseteq Dead(cur)'
    BY Zenon, <1>2, DeadStays DEF ExtractionIds, Pending
  <2>2. OfSource("approved", cur)' = OfSource("approved", cur)
    BY Zenon, <1>2 DEF OfSource, ExtractionIds
  <2>3. PendingIsLast' /\ OneApproved' /\ SearchShowsCurrent'
    BY SMTT(30), <1>2, <2>1 DEF PendingIsLast, OneApproved, SearchShowsCurrent
  <2>4. StatusHasRows'
    BY Zenon, <1>2, <2>1, <2>2 DEF StatusHasRows
  <2> QED
    BY Zenon, <2>3, <2>4
<1>3. ASSUME NEW w \in Workers, Commit(w), jobs[slot[w].job].src = cur PROVE ReviewInv'
  <2>0. cur' = cur /\ docStatus' = "in_review" /\ chunks' = chunks
    BY Zenon, <1>3, CommitRows
  <2>1. /\ Len(exts') = Len(exts) + 1
        /\ ExtractionIds' = ExtractionIds \cup {Len(exts) + 1}
        /\ \A i \in ExtractionIds :
             exts'[i].status = IF exts[i].status = "pending" THEN "superseded" ELSE exts[i].status
        /\ exts'[Len(exts) + 1].status = "pending" /\ exts'[Len(exts) + 1].src = cur
    <3>1. /\ Len(exts') = Len(exts) + 1
          /\ ExtractionIds' = ExtractionIds \cup {Len(exts) + 1}
          /\ \A i \in ExtractionIds :
               exts'[i].status = IF exts[i].status = "pending" THEN "superseded"
                                 ELSE exts[i].status
          /\ exts'[Len(exts) + 1] = [src |-> cur, job |-> slot[w].job, status |-> "pending"]
      BY Zenon, <1>3, CommitRows, ExtractionAppended
    <3> QED
      BY SMTT(30), <3>1
  <2>2. Pending' = {Len(exts')}
    BY Zenon, <2>1 DEF Pending
  <2>3. PendingIsLast' /\ StatusHasRows' /\ SearchShowsCurrent'
    BY Zenon, <2>0, <2>1, <2>2 DEF PendingIsLast, StatusHasRows, SearchShowsCurrent
  <2>4. OneApproved'
    BY SMTT(30), <2>1 DEF OneApproved
  <2> QED
    BY Zenon, <2>3, <2>4
<1>4. CASE AppendSource
  <2>1. /\ Len(exts') = Len(exts)
        /\ \A i \in ExtractionIds :
             exts'[i].status = IF exts[i].status = "pending" THEN "superseded" ELSE exts[i].status
        /\ docStatus' = "needs_reprocess" /\ chunks' = 0
    BY Zenon, <1>4, SupersededRows DEF AppendSource
  <2>2. ExtractionIds' = ExtractionIds
    BY Zenon, <2>1 DEF ExtractionIds
  <2>3. Pending' = {}
    BY Zenon, <2>1, <2>2 DEF Pending
  <2>4. PendingIsLast' /\ StatusHasRows' /\ SearchShowsCurrent'
    BY Zenon, <2>1, <2>3 DEF PendingIsLast, StatusHasRows, SearchShowsCurrent
  <2>5. OneApproved'
    BY SMTT(30), <2>1, <2>2 DEF OneApproved
  <2> QED
    BY Zenon, <2>4, <2>5
<1>5. ASSUME NEW i \in ExtractionIds, Approve(i) \/ Reject(i) PROVE ReviewInv'
  <2>1. cur' = cur /\ chunks' = chunks
    BY Zenon, <1>5 DEF Approve, Reject, search
  <2>2. i \in Pending /\ exts[i].src = cur /\ i = Len(exts)
    BY Zenon, <1>5 DEF Approve, Reject, PendingIsLast
  <2>3. \A k \in Pending : k = i
    BY Zenon, <2>2 DEF PendingIsLast
  <2>4. CASE Approve(i)
    <3>1. /\ Len(exts') = Len(exts)
          /\ \A k \in ExtractionIds :
               /\ exts'[k].src = exts[k].src
               /\ exts'[k].status = IF k = i THEN "approved"
                                    ELSE IF exts[k].status = "approved" THEN "superseded"
                                    ELSE exts[k].status
          /\ docStatus' = "verified"
      BY SMTT(30), <2>4, ApprovedRows DEF Approve
    <3>2. ExtractionIds' = ExtractionIds
      BY Zenon, <3>1 DEF ExtractionIds
    <3>3. Pending' = {} /\ i \in OfSource("approved", cur)'
      BY SMTT(30), <2>1, <2>2, <2>3, <3>1, <3>2 DEF Pending, OfSource
    <3>4. OneApproved'
      BY SMTT(30), <3>1, <3>2 DEF OneApproved
    <3> QED
      BY Zenon, <2>1, <3>1, <3>3, <3>4 DEF PendingIsLast, StatusHasRows, SearchShowsCurrent
  <2>5. CASE Reject(i)
    <3>1. /\ Len(exts') = Len(exts)
          /\ \A k \in ExtractionIds :
               exts'[k].status = IF k = i THEN "rejected" ELSE exts[k].status
          /\ docStatus' = "needs_reprocess"
      BY ZenonT(30), <2>5, RejectedRows DEF Reject
    <3>2. ExtractionIds' = ExtractionIds
      BY Zenon, <3>1 DEF ExtractionIds
    <3>3. Pending' = {}
      BY Zenon, <2>3, <3>1, <3>2 DEF Pending
    <3>4. OneApproved'
      BY SMTT(30), <3>1, <3>2 DEF OneApproved
    <3> QED
      BY Zenon, <2>1, <3>1, <3>3, <3>4 DEF PendingIsLast, StatusHasRows, SearchShowsCurrent
  <2> QED
    BY Zenon, <1>5, <2>4, <2>5
<1>6. CASE Reprocess
  BY Zenon, <1>2, <1>6 DEF Reprocess, search
<1>7. WorkDies /\ cur' = cur => Dead(cur)' # {}
  BY Zenon DEF WorkDies
<1> QED
  BY Zenon, <1>2, <1>3, <1>4, <1>5, <1>6, <1>7, DocumentMoves DEF SameRows

(* A document just uploaded satisfies LifeInv. *)
LEMMA LifeInit == Init => LifeInv
<1> SUFFICES ASSUME Init PROVE LifeInv
  BY Zenon
<1> USE DEF Init
<1>1. NewJob(1, <<"source", 1>>) \in JobRows
  BY SMTT(30) DEF NewJob, JobRows, JobStatuses, Sources, Keys
<1>2. jobs \in Seq(JobRows) /\ Len(jobs) = 1 /\ jobs[1] = NewJob(1, <<"source", 1>>)
  BY SMTT(30), <1>1
<1>3. exts \in Seq(Extractions) /\ Len(exts) = 0
  BY SMTT(30)
<1>4. JobIds = {1} /\ ExtractionIds = {}
  BY SMTT(30), <1>2, <1>3 DEF JobIds, ExtractionIds
<1>5. IdleSlot \in Slots /\ IdleSlot.pc = "idle" /\ IdleSlot.job = 0
  BY SMTT(30) DEF IdleSlot, Slots, Steps
<1>6. RowsTyped
  BY SMTT(30), <1>2, <1>3, <1>5 DEF RowsTyped, DocTyped, JobsTyped, Sources, DocumentStatuses, IntakeStates
<1>7. SlotsAreBound
  BY Zenon, <1>5 DEF SlotsAreBound
<1>8. QueuedMayRun /\ RowsAreBound
  BY SMTT(30), <1>2, <1>4, NewRow DEF QueuedMayRun, RowsAreBound
<1>9. PendingIsLast /\ OneApproved /\ StatusHasRows /\ SearchShowsCurrent
  BY Zenon, <1>4 DEF PendingIsLast, OneApproved, StatusHasRows, SearchShowsCurrent, Pending
<1> QED
  BY Zenon, <1>6, <1>7, <1>8, <1>9 DEF LifeInv, QueueInv, ReviewInv

(* The rows, the slots and the review keep their invariant, whatever faults,
   replacements and retries interleave. *)
THEOREM LifecycleInvariant == Spec => []LifeInv
<1>1. LifeInv /\ [Next]_vars => LifeInv'
  BY Zenon, QueueStep, ReviewStep DEF LifeInv
<1> QED
  BY <1>1, LifeInit, PTL DEF Spec

(* ReviewIsCurrent: a reviewer is only ever offered the current source, and one
   extraction of it. *)
THEOREM ReviewStaysCurrent == Spec => []ReviewIsCurrent
<1>1. LifeInv => ReviewIsCurrent
  <2> SUFFICES ASSUME LifeInv PROVE ReviewIsCurrent
    BY SMTT(30)
  <2>1. \A i \in Pending : i = Len(exts) /\ exts[i].src = cur
    BY Zenon DEF LifeInv, ReviewInv, PendingIsLast
  <2>2. Cardinality(Pending) <= 1
    BY Zenon, <2>1, AtMostOne
  <2> QED
    BY Zenon, <2>1, <2>2 DEF ReviewIsCurrent
<1> QED
  BY <1>1, LifecycleInvariant, PTL

(* StatusIsTruthful: in_review, verified and failed are each backed by a row of
   the current source, and one extraction is in force. *)
THEOREM StatusStaysTruthful == Spec => []StatusIsTruthful
<1>1. LifeInv => StatusIsTruthful
  <2> SUFFICES ASSUME LifeInv PROVE StatusIsTruthful
    BY SMTT(30)
  <2> DEFINE S == {i \in ExtractionIds : exts[i].status = "approved"}
  <2>1. \A i, k \in S : i = k
    BY Zenon DEF LifeInv, ReviewInv, OneApproved
  <2>2. Cardinality(S) <= 1
    BY Zenon, <2>1, AtMostOne
  <2> QED
    BY Zenon, <2>2 DEF StatusIsTruthful, LifeInv, ReviewInv, StatusHasRows
<1> QED
  BY <1>1, LifecycleInvariant, PTL

(* SearchShowsCurrent: the text search returns is never of a replaced source. *)
THEOREM SearchStaysCurrent == Spec => []SearchShowsCurrent
<1>1. LifeInv => SearchShowsCurrent
  BY Zenon DEF LifeInv, ReviewInv
<1> QED
  BY <1>1, LifecycleInvariant, PTL

(* HistoryIsKept: no step removes, rebinds or revives an extraction. *)
THEOREM HistoryStays == Spec => HistoryIsKept
<1> DEFINE Body ==
        /\ Len(exts') >= Len(exts)
        /\ \A i \in ExtractionIds :
             /\ exts'[i].src = exts[i].src
             /\ exts'[i].job = exts[i].job
             /\ exts[i].status \in {"rejected", "superseded"} => exts'[i].status = exts[i].status
             /\ exts[i].status = "approved" => exts'[i].status \in {"approved", "superseded"}
<1>1. LifeInv /\ [Next]_vars => [Body]_vars
  <2> SUFFICES ASSUME LifeInv, [Next]_vars PROVE Body
    BY SMTT(30)
  <2>1. ExtsMove /\ Len(exts) \in Nat /\ Len(exts') \in Nat
    BY Zenon, NextMoves, ByPosition DEF LifeInv, QueueInv, SoundMove, RowsTyped, DocTyped
  <2> QED
    BY Zenon, <2>1 DEF ExtsMove
<1> QED
  BY <1>1, LifecycleInvariant, PTL DEF Spec, HistoryIsKept

(* RowsObeyContract: with leases as a flag and burials, retries and completions
   of this module, the rows still take only the steps of JobContract. *)
THEOREM RowsKeepContract == Spec => RowsObeyContract
<1>1. LifeInv /\ [Next]_vars => [jobs' = jobs \/ Contract!Next]_Contract!contractVars
  <2> SUFFICES ASSUME LifeInv, [Next]_vars PROVE Contract!Next
    BY SMTT(30)
  <2>1. /\ JobsMove /\ Len(jobs) \in Nat /\ Len(jobs') \in Nat
        /\ Len(jobs) <= MaxJobs /\ Len(jobs') <= MaxJobs
    BY Zenon, NextMoves, ByPosition DEF LifeInv, QueueInv, SoundMove, RowsTyped, JobsTyped
  <2>2. JobIds \subseteq 1..MaxJobs /\ JobIds' \subseteq 1..MaxJobs /\ JobIds \subseteq JobIds'
    BY SMTT(30), <2>1 DEF JobIds, JobsMove
  <2>3. ASSUME NEW j \in 1..MaxJobs PROVE Contract!RowStep(j)
    <3>1. CASE j \in JobIds
      <4>1. RowMove(jobs[j], jobs'[j]) /\ j \in JobIds'
        BY Zenon, <2>1, <2>2, <3>1 DEF JobsMove
      <4> QED
        BY Zenon, <2>3, <3>1, <4>1
           DEF RowMove, Contract!RowStep, Contract!Keeps, Contract!Becomes, Contract!Attempt,
               Contract!Retry, Contract!GiveUp, Contract!Finish, Contract!Result
    <3>2. CASE j \notin JobIds /\ j \in JobIds'
      <4>1. jobs'[j].status = "queued" /\ jobs'[j].attempts = 0
        BY SMTT(30), <2>1, <3>2, NewRow DEF JobsMove
      <4> QED
        BY Zenon, <2>3, <3>2, <4>1
           DEF Contract!RowStep, Contract!Becomes, Contract!Insert, Contract!Result
    <3>3. CASE j \notin JobIds /\ j \notin JobIds'
      BY Zenon, <2>3, <3>3 DEF Contract!RowStep, Contract!Keeps, Contract!Becomes, Contract!Result
    <3> QED
      BY Zenon, <2>2, <3>1, <3>2, <3>3
  <2> QED
    BY Zenon, <2>3 DEF Contract!Next
<1> QED
  BY <1>1, LifecycleInvariant, PTL DEF Spec, RowsObeyContract

-----------------------------------------------------------------------------
(* While leases are kept. *)

(* The jobs that may still extract the current source. *)
LiveWork == {j \in Active(cur) : ~jobs[j].completed}
KeyKnown(k) == \E j \in JobIds : jobs[j].key = k

OneExtraction == \A i, k \in ExtractionIds : exts[i].job = exts[k].job => i = k

(* Live work is the newest row, and rules out a result that waits or stands. *)
LiveWorkIsLast ==
    /\ \A j \in LiveWork : j = Len(jobs)
    /\ docStatus \in {"in_review", "verified", "failed"} => LiveWork = {}
    /\ Pending # {} => docStatus = "in_review"

(* A reviewed extraction of the current source has had its reprocess job, but
   for the one that was just reviewed. *)
ReviewedWereRetried ==
    /\ \A i \in OfSource("rejected", cur) :
        \/ KeyKnown(<<"extraction", i>>)
        \/ docStatus = "needs_reprocess" /\ LiveWork = {} /\ i \in Latest(OfSource("rejected", cur))
    /\ \A i \in OfSource("approved", cur) :
        KeyKnown(<<"extraction", i>>) \/ docStatus = "verified"

WorkInv == OneExtraction /\ LiveWorkIsLast /\ ReviewedWereRetried
LeaseInv == LeasesKept => SlotsHoldLeases /\ WorkInv

-----------------------------------------------------------------------------
(* One worker process that is never killed, misses no heartbeat and meets no
   fault in mark_done; index jobs may fail. *)
SoleWorker == (\A w, u \in Workers : w = u) /\ FaultKinds \subseteq {"index"}

FaultsAreKnown == met \subseteq FaultKinds

(* Keys of retries name a reviewed extraction or an older job. *)
KeysAreBound ==
    /\ \A i \in 1..MaxExtractions : KeyKnown(<<"extraction", i>>) =>
        i \in ExtractionIds /\ exts[i].status # "pending"
    /\ \A j \in JobIds, i \in 1..MaxJobs : jobs[j].key = <<"failure", i>> => i < j

(* Nobody is killed: a running row is some slot's. *)
RunningIsHeld ==
    \A j \in JobIds : jobs[j].status = "running" =>
        \E w \in Workers : slot[w].pc # "idle" /\ slot[w].job = j

(* A reprocess request finds live work or a key that nobody has used. *)
RetriesAreFresh ==
    /\ docStatus = "verified" => \A i \in OfSource("approved", cur) : ~KeyKnown(<<"extraction", i>>)
    /\ docStatus = "needs_reprocess" /\ LiveWork = {} =>
        /\ OfSource("rejected", cur) # {}
        /\ \A i \in Latest(OfSource("rejected", cur)) : ~KeyKnown(<<"extraction", i>>)
    /\ docStatus = "failed" => Active(cur) = {} /\ Len(jobs) \in Dead(cur)

WaitingHasWork == intake[cur] \in {"queued", "processing"} => LiveWork # {}

StrandInv == FaultsAreKnown /\ KeysAreBound /\ RunningIsHeld /\ RetriesAreFresh /\ WaitingHasWork

-----------------------------------------------------------------------------
(* Leases are kept: what has to be shown of the slots after a step. *)
LEMMA HoldsKept ==
    ASSUME QueueInv, SlotsHoldLeases, slot' = slot,
           \A u \in Workers : slot[u].pc # "idle" => jobs'[slot[u].job] = jobs[slot[u].job],
           \A j \in JobIds' : jobs'[j].status = "queued" => ~jobs'[j].completed
    PROVE  SlotsHoldLeases'
  BY SMTT(30) DEF SlotsHoldLeases, HoldsLease

(* When only worker w moves, the others' leases hold if their rows are untouched. *)
LEMMA HoldsMoved ==
    ASSUME QueueInv, SlotsHoldLeases, NEW w \in Workers,
           \A u \in Workers \ {w} : slot'[u] = slot[u],
           \A u \in Workers \ {w} :
                slot[u].pc # "idle" => jobs'[slot[u].job] = jobs[slot[u].job],
           slot'[w].pc # "idle" =>
                /\ jobs'[slot'[w].job].status = "running" /\ jobs'[slot'[w].job].owner = w
                /\ ~jobs'[slot'[w].job].expired
                /\ slot'[w].pc \in {"marking", "starting", "working", "failing"}
                     => ~jobs'[slot'[w].job].completed,
           \A j \in JobIds' : jobs'[j].status = "queued" => ~jobs'[j].completed
    PROVE  SlotsHoldLeases'
<1>1. ASSUME NEW u \in Workers, slot'[u].pc # "idle"
      PROVE  /\ HoldsLease(u)' /\ ~jobs'[slot'[u].job].expired
             /\ slot'[u].pc \in {"marking", "starting", "working", "failing"}
                  => ~jobs'[slot'[u].job].completed
  <2>1. CASE u = w
    BY Zenon, <1>1, <2>1 DEF HoldsLease
  <2>2. CASE u # w
    BY SMTT(30), <1>1, <2>2 DEF HoldsLease, SlotsHoldLeases
  <2> QED
    BY Zenon, <2>1, <2>2
<1> QED
  BY Zenon, <1>1 DEF SlotsHoldLeases

(* Two busy slots work on two rows. *)
LEMMA SlotsDiffer ==
    ASSUME SlotsHoldLeases, NEW w \in Workers, NEW u \in Workers, u # w,
           slot[w].pc # "idle", slot[u].pc # "idle"
    PROVE  slot[u].job # slot[w].job
  BY SMTT(30) DEF SlotsHoldLeases, HoldsLease

(* A step of slot w that replaces or keeps its own row only. *)
LEMMA HoldsOwnRow ==
    ASSUME QueueInv, SlotsHoldLeases, NEW w \in Workers, slot[w].pc # "idle",
           JobIds' = JobIds,
           \A i \in JobIds \ {slot[w].job} : jobs'[i] = jobs[i],
           \A u \in Workers \ {w} : slot'[u] = slot[u],
           slot'[w].pc # "idle" =>
                /\ slot'[w].job = slot[w].job
                /\ jobs'[slot[w].job].status = "running" /\ jobs'[slot[w].job].owner = w
                /\ ~jobs'[slot[w].job].expired
                /\ slot'[w].pc \in {"marking", "starting", "working", "failing"}
                     => ~jobs'[slot[w].job].completed,
           jobs'[slot[w].job].status = "queued" => ~jobs'[slot[w].job].completed
    PROVE  SlotsHoldLeases'
<1>1. \A u \in Workers \ {w} : slot[u].pc # "idle" => jobs'[slot[u].job] = jobs[slot[u].job]
  BY SMTT(30), SlotsDiffer DEF QueueInv, SlotsAreBound
<1>2. \A j \in JobIds' : jobs'[j].status = "queued" => ~jobs'[j].completed
  BY SMTT(30) DEF SlotsHoldLeases
<1> QED
  BY ZenonT(30), <1>1, <1>2, HoldsMoved

(* claim_next takes no row from a slot whose lease has not run out. *)
LEMMA PollHolds ==
    ASSUME QueueInv, SlotsHoldLeases, NEW w \in Workers, Poll(w)
    PROVE  SlotsHoldLeases'
<1> USE DEF QueueInv
<1>1. \A u \in Workers : slot[u].pc # "idle" =>
        /\ slot[u].job \in JobIds /\ ~Eligible(slot[u].job)
        /\ Buried(slot[u].job) = jobs[slot[u].job]
  BY Zenon DEF SlotsHoldLeases, HoldsLease, SlotsAreBound, Eligible, Exhausted, Buried
<1>2. \A i \in JobIds : Buried(i).status = "queued" => ~Buried(i).completed
  <2> SUFFICES ASSUME NEW i \in JobIds, Buried(i).status = "queued" PROVE ~Buried(i).completed
    BY SMTT(30)
  <2>1. CASE Exhausted(i)
    <3>1. \E s \in {"done", "dead"} : Buried(i) = Released(i, s)
      BY Zenon, <2>1 DEF Buried
    <3> QED
      BY SMTT(30), <3>1, ReleasedRow DEF JobStatuses
  <2>2. CASE ~Exhausted(i)
    BY Zenon, <2>2 DEF Buried, SlotsHoldLeases
  <2> QED
    BY Zenon, <2>1, <2>2
<1>3. JobIds' = JobIds
  <2>1. DOMAIN jobs' = DOMAIN jobs /\ jobs' \in Seq(JobRows)
    BY Zenon, BurialFails, PollMoves DEF SoundMove, RowsTyped, JobsTyped
  <2>2. /\ Len(jobs) \in Nat /\ DOMAIN jobs = 1..Len(jobs)
        /\ Len(jobs') \in Nat /\ DOMAIN jobs' = 1..Len(jobs')
    BY Zenon, <2>1, ByPosition DEF RowsTyped, JobsTyped
  <2> QED
    BY Zenon, <2>1, <2>2 DEF JobIds
<1>4. ASSUME NEW j \in JobIds, Claim(w, j) PROVE SlotsHoldLeases'
  <2> DEFINE new == [pc |-> IF jobs[j].completed THEN "settling" ELSE "marking",
                     job |-> j, holds |-> FALSE]
  <2>1. /\ slot' = [slot EXCEPT ![w] = new] /\ Eligible(j)
        /\ jobs' = [i \in JobIds |-> IF i = j THEN Leased(i, w) ELSE Buried(i)]
    BY Zenon, <1>4 DEF Claim
  <2>2. new.job = j /\ (new.pc = "marking" => ~jobs[j].completed) /\ new.pc \in {"settling", "marking"}
    BY SMTT(30)
  <2> HIDE DEF new
  <2>3. slot'[w] = new /\ \A u \in Workers \ {w} : slot'[u] = slot[u]
    BY Zenon, <2>1 DEF RowsTyped
  <2>4. jobs[j].attempts < MaxAttempts
    BY Zenon, <2>1 DEF Eligible, QueuedMayRun
  <2>5. /\ Leased(j, w).status = "running" /\ Leased(j, w).completed = jobs[j].completed
        /\ Leased(j, w).owner = w /\ ~Leased(j, w).expired
    BY SMTT(30), <2>4, LeasedRow
  <2>6. /\ jobs'[j] = Leased(j, w)
        /\ \A i \in JobIds \ {j} : jobs'[i] = Buried(i)
    BY Zenon, <2>1
  <2>7. \A u \in Workers \ {w} : slot[u].pc # "idle" => jobs'[slot[u].job] = jobs[slot[u].job]
    BY Zenon, <1>1, <2>1, <2>6
  <2>8. \A i \in JobIds' : jobs'[i].status = "queued" => ~jobs'[i].completed
    BY Zenon, <1>2, <1>3, <2>5, <2>6
  <2> QED
    BY SMTT(30), <2>2, <2>3, <2>5, <2>6, <2>7, <2>8, HoldsMoved
<1>5. CASE ClaimNothing(w)
  <2>1. slot' = slot /\ \A i \in JobIds : jobs'[i] = Buried(i)
    BY Zenon, <1>5 DEF ClaimNothing
  <2> QED
    BY Zenon, <1>1, <1>2, <1>3, <2>1, HoldsKept
<1> QED
  BY Zenon, <1>4, <1>5 DEF Poll

(* The slot of w after it moves on or is released. *)
LEMMA SlotAfter ==
    ASSUME QueueInv, NEW w \in Workers
    PROVE  /\ Release(w) => /\ slot'[w].pc = "idle"
                            /\ \A u \in Workers \ {w} : slot'[u] = slot[u]
           /\ \A step, holds : slot' = [slot EXCEPT ![w].pc = step, ![w].holds = holds]
                => /\ slot'[w].pc = step /\ slot'[w].job = slot[w].job
                   /\ \A u \in Workers \ {w} : slot'[u] = slot[u]
<1>1. slot \in [Workers -> Slots]
  BY Zenon DEF QueueInv, RowsTyped
<1> QED
  BY SMTT(30), <1>1 DEF Release, IdleSlot, Slots

(* The steps of one attempt keep its lease until they give it back. *)
LEMMA ExecuteHolds ==
    ASSUME QueueInv, SlotsHoldLeases, NEW w \in Workers, Execute(w) \/ Crash(w)
    PROVE  SlotsHoldLeases'
<1> USE DEF QueueInv
<1> DEFINE j == slot[w].job
<1>1. slot[w].pc # "idle"
  BY Zenon DEF Execute, MarkClaimed, Begin, Commit, Raise, MarkDone, RecordFailure, Crash
<1>2. /\ j \in JobIds /\ HoldsLease(w) /\ jobs[j].status = "running" /\ jobs[j].owner = w
      /\ ~jobs[j].expired
      /\ slot[w].pc \in {"marking", "starting", "working", "failing"} => ~jobs[j].completed
  BY Zenon, <1>1 DEF SlotsAreBound, SlotsHoldLeases, HoldsLease
<1> HIDE DEF j
<1>3. ASSUME jobs' = jobs, NEW step, Goto(w, step), step \in {"starting", "failing", "finishing"},
             step \in {"starting", "failing"} => ~jobs[j].completed
      PROVE  SlotsHoldLeases'
  <2>1. JobIds' = JobIds
    BY ZenonT(30), <1>3 DEF JobIds
  <2> QED
    BY ZenonT(30), <1>1, <1>2, <1>3, <2>1, SlotAfter, HoldsOwnRow DEF Goto, j
<1>4. ASSUME Completes(j), Goto(w, "finishing") PROVE SlotsHoldLeases'
  <2>1. /\ JobIds' = JobIds /\ jobs'[j].status = jobs[j].status
        /\ jobs'[j].owner = jobs[j].owner /\ jobs'[j].expired = jobs[j].expired
        /\ \A i \in JobIds \ {j} : jobs'[i] = jobs[i]
    BY Zenon, <1>2, <1>4, CompletesMoves
  <2>2. /\ slot'[w].pc = "finishing" /\ slot'[w].job = j
        /\ \A u \in Workers \ {w} : slot'[u] = slot[u]
    BY ZenonT(30), <1>4, SlotAfter DEF Goto, j
  <2> QED
    BY SMTT(30), <1>1, <1>2, <2>1, <2>2, HoldsOwnRow DEF j
<1>5. ASSUME NEW s \in JobStatuses, s = "queued" => ~jobs[j].completed,
             jobs' = [jobs EXCEPT ![j] = Released(j, s)], Release(w)
      PROVE  SlotsHoldLeases'
  <2>1. /\ Released(j, s) \in JobRows /\ Released(j, s).status = s
        /\ Released(j, s).completed = jobs[j].completed
    BY SMTT(30), <1>2, ReleasedRow
  <2>2. /\ JobIds' = JobIds
        /\ \A i \in JobIds : jobs'[i] = IF i = j THEN Released(j, s) ELSE jobs[i]
    BY ZenonT(30), <1>2, <1>5, <2>1, RowReplaced
  <2>3. slot'[w].pc = "idle" /\ \A u \in Workers \ {w} : slot'[u] = slot[u]
    BY Zenon, <1>5, SlotAfter
  <2> QED
    BY SMTT(30), <1>1, <1>2, <1>5, <2>1, <2>2, <2>3, HoldsOwnRow DEF j
<1>6. CASE MarkClaimed(w)
  BY Zenon, <1>2, <1>3, <1>6 DEF MarkClaimed, j
<1>7. CASE Begin(w)
  <2>1. CASE jobs[j].completed /\ Goto(w, "finishing") /\ jobs' = jobs
    BY Zenon, <1>3, <2>1
  <2>2. CASE Completes(j) /\ Goto(w, "finishing")
    BY Zenon, <1>4, <2>2
  <2>3. CASE /\ jobs' = jobs
             /\ \E holds : slot' = [slot EXCEPT ![w].pc = "working", ![w].holds = holds]
    <3>1. /\ slot'[w].pc = "working" /\ slot'[w].job = j
          /\ \A u \in Workers \ {w} : slot'[u] = slot[u]
      <4>1. PICK holds : slot' = [slot EXCEPT ![w].pc = "working", ![w].holds = holds]
        BY Zenon, <2>3
      <4> QED
        BY Zenon, <4>1, SlotAfter DEF j
    <3>2. JobIds' = JobIds /\ ~jobs[j].completed
      BY Zenon, <1>2, <1>7, <2>3 DEF JobIds, Begin
    <3> QED
      BY Zenon, <1>1, <1>2, <2>3, <3>1, <3>2, HoldsOwnRow DEF j
  <2> QED
    BY Zenon, <1>7, <2>1, <2>2, <2>3 DEF Begin, j
<1>8. CASE Commit(w)
  BY Zenon, <1>4, <1>8 DEF Commit, j
<1>9. CASE Raise(w)
  BY Zenon, <1>2, <1>3, <1>9 DEF Raise
<1>10. CASE MarkDone(w)
  BY Zenon, <1>2, <1>5, <1>10 DEF MarkDone, JobStatuses, j
<1>11. CASE RecordFailure(w)
  <2>1. \E s \in {"dead", "queued"} : jobs' = [jobs EXCEPT ![j] = Released(j, s)]
    BY Zenon, <1>2, <1>11 DEF RecordFailure, j
  <2>2. Release(w) /\ ~jobs[j].completed
    BY Zenon, <1>2, <1>11 DEF RecordFailure
  <2> QED
    BY Zenon, <1>5, <2>1, <2>2 DEF JobStatuses
<1>12. CASE Crash(w)
  <2>1. jobs' = jobs /\ JobIds' = JobIds /\ Release(w)
    BY Zenon, <1>12 DEF Crash, JobIds
  <2> QED
    BY Zenon, <1>1, <1>2, <2>1, SlotAfter, HoldsOwnRow DEF j
<1> QED
  BY SMTT(30), <1>6, <1>7, <1>8, <1>9, <1>10, <1>11, <1>12 DEF Execute

(* While no heartbeat is missed and mark_done does not fail, every busy slot
   keeps its lease. *)
LEMMA HoldStep ==
    ASSUME QueueInv, SlotsHoldLeases, [Next]_vars, LeasesKept'
    PROVE  SlotsHoldLeases'
<1> USE DEF QueueInv
<1>1. ASSUME NEW w \in Workers, Poll(w) PROVE SlotsHoldLeases'
  BY Zenon, <1>1, PollHolds
<1>2. ASSUME NEW w \in Workers, Execute(w) \/ Crash(w) PROVE SlotsHoldLeases'
  BY Zenon, <1>2, ExecuteHolds
<1>3. ASSUME NEW w \in Workers, Renew(w) \/ Lapse(w) \/ MarkDoneFault(w) PROVE SlotsHoldLeases'
  BY Zenon, <1>3 DEF Renew, SlotsHoldLeases, Lapse, MarkDoneFault, Spend, LeasesKept
<1>4. ASSUME NEW j \in JobIds, LeaseRunsOut(j) PROVE SlotsHoldLeases'
  <2>1. /\ \A u \in Workers : slot[u].pc # "idle" => slot[u].job # j /\ slot[u].job \in JobIds
        /\ slot' = slot
    BY SMTT(30), <1>4 DEF LeaseRunsOut, SlotsHoldLeases, HoldsLease, SlotsAreBound
  <2> DEFINE r == [jobs[j] EXCEPT !.expired = TRUE]
  <2>2. r \in JobRows /\ r.status = jobs[j].status /\ r.completed = jobs[j].completed
    BY Zenon, RowsByPosition DEF JobRows
  <2>3. jobs' = [jobs EXCEPT ![j] = r]
    BY Zenon, <1>4 DEF LeaseRunsOut
  <2> HIDE DEF r
  <2>4. JobIds' = JobIds /\ \A i \in JobIds : jobs'[i] = IF i = j THEN r ELSE jobs[i]
    BY Zenon, <2>2, <2>3, RowReplaced
  <2>5. \A i \in JobIds' : jobs'[i].status = "queued" => ~jobs'[i].completed
    BY SMTT(30), <2>2, <2>4 DEF SlotsHoldLeases
  <2> QED
    BY Zenon, <2>1, <2>4, <2>5, HoldsKept
<1>5. ASSUME jobs' = jobs, slot' = slot PROVE SlotsHoldLeases'
  BY Zenon, <1>5 DEF SlotsHoldLeases, HoldsLease, JobIds
<1>6. ASSUME NEW k \in Keys, Len(jobs) < MaxJobs, cur' \in Sources,
             jobs' = Append(jobs, NewJob(cur', k)), slot' = slot
      PROVE  SlotsHoldLeases'
  <2>1. /\ JobIds' = JobIds \cup {Len(jobs')} /\ \A i \in JobIds : jobs'[i] = jobs[i]
        /\ jobs'[Len(jobs')] = NewJob(cur', k)
    BY Zenon, <1>6, RowInserted
  <2>2. \A i \in JobIds' : jobs'[i].status = "queued" => ~jobs'[i].completed
    BY SMTT(30), <2>1, NewRow DEF SlotsHoldLeases
  <2>3. \A u \in Workers : slot[u].pc # "idle" => jobs'[slot[u].job] = jobs[slot[u].job]
    BY Zenon, <2>1 DEF SlotsAreBound
  <2> QED
    BY Zenon, <1>6, <2>2, <2>3, HoldsKept
<1>7. ASSUME NEW v \in Sources, IndexStep(v) PROVE SlotsHoldLeases'
  BY Zenon, <1>5, <1>7 DEF IndexStep, IndexCommit, IndexRaise
<1>8. CASE Review \/ RetryDerivatives \/ UNCHANGED vars
  BY Zenon, <1>5, <1>8 DEF Review, Approve, Reject, RetryDerivatives, vars
<1>9. CASE AppendSource
  <2>1. /\ cur' \in Sources /\ Len(jobs) < MaxJobs /\ slot' = slot
        /\ jobs' = Append(jobs, NewJob(cur', <<"source", cur'>>))
    BY SMTT(30), <1>9 DEF AppendSource, RowsTyped, DocTyped, Sources
  <2>2. <<"source", cur'>> \in Keys
    BY SMTT(30), <2>1 DEF Keys, Sources
  <2> QED
    BY SMTT(30), <1>6, <2>1, <2>2
<1>10. CASE Reprocess
  <2>1. PICK k \in ReprocessKey :
          LET known == \E j \in JobIds : jobs[j].key = k IN
          /\ known \/ Len(jobs) < MaxJobs
          /\ jobs' = IF known THEN jobs ELSE Append(jobs, NewJob(cur, k))
    BY Zenon, <1>10 DEF Reprocess
  <2>2. k \in Keys /\ cur' = cur /\ cur \in Sources /\ slot' = slot
    BY Zenon, <1>10, ReprocessKeyTyped DEF Reprocess, RowsTyped, DocTyped
  <2> QED
    BY Zenon, <1>5, <1>6, <2>1, <2>2
<1> QED
  BY SMTT(30), <1>1, <1>2, <1>3, <1>4, <1>7, <1>8, <1>9, <1>10 DEF Next

-----------------------------------------------------------------------------
(* Keys are never forgotten, and without a new row no work appears. *)
LEMMA KeysStay ==
    ASSUME QueueInv, [Next]_vars, NEW k, KeyKnown(k)
    PROVE  KeyKnown(k)'
<1>1. JobsMove /\ Len(jobs) \in Nat /\ Len(jobs') \in Nat
  BY Zenon, NextMoves, ByPosition DEF SoundMove, QueueInv, RowsTyped, JobsTyped
<1> QED
  BY SMTT(30), <1>1 DEF KeyKnown, JobsMove, RowMove, JobIds

(* A step that adds neither a job nor a source can only end live work, never start any. *)
LEMMA WorkShrinks ==
    ASSUME QueueInv, [Next]_vars, DOMAIN jobs' = DOMAIN jobs, cur' = cur
    PROVE  LiveWork' \subseteq LiveWork /\ Len(jobs') = Len(jobs)
<1>1. JobIds' = JobIds /\ Len(jobs') = Len(jobs) /\ JobsMove
  BY Zenon, NextMoves, SameDomain DEF SoundMove
<1> QED
  BY Zenon, <1>1 DEF LiveWork, Active, JobsMove, RowMove

(* A step that keeps the rows, or fails the document with its live work. *)
LEMMA KeepsWork ==
    ASSUME LifeInv, SlotsHoldLeases, WorkInv, [Next]_vars, SameRows,
           docStatus' = docStatus \/ (docStatus' = "failed" /\ WorkDies)
    PROVE  WorkInv'
<1> USE DEF WorkInv
<1>1. /\ LiveWork' \subseteq LiveWork /\ Len(jobs') = Len(jobs)
      /\ cur' = cur /\ exts' = exts
  BY Zenon, WorkShrinks DEF SameRows, LifeInv
<1>2. ExtractionIds' = ExtractionIds /\ Pending' = Pending
  BY Zenon, <1>1 DEF ExtractionIds, Pending
<1>3. /\ OfSource("rejected", cur)' = OfSource("rejected", cur)
      /\ OfSource("approved", cur)' = OfSource("approved", cur)
  BY Zenon, <1>1, <1>2 DEF OfSource
<1>4. \A k : KeyKnown(k) => KeyKnown(k)'
  BY Zenon, KeysStay DEF LifeInv
<1>5. OneExtraction'
  BY SMTT(30), <1>1, <1>2 DEF OneExtraction
<1>6. CASE docStatus' = docStatus
  <2>1. LiveWorkIsLast'
    BY Zenon, <1>1, <1>2, <1>6 DEF LiveWorkIsLast
  <2>2. Latest(OfSource("rejected", cur))' = Latest(OfSource("rejected", cur))
    BY Zenon, <1>3 DEF Latest
  <2>3. ReviewedWereRetried'
    BY SMTT(30), <1>1, <1>3, <1>4, <1>6, <2>2 DEF ReviewedWereRetried
  <2> QED
    BY Zenon, <1>5, <2>1, <2>3
<1>7. CASE docStatus' = "failed" /\ WorkDies
  <2>1. PICK j \in LiveWork : j \in Dead(cur)'
    BY Zenon, <1>7 DEF WorkDies, LiveWork
  <2>2. j \notin LiveWork' /\ j = Len(jobs)
    BY Zenon, <1>1, <2>1 DEF LiveWork, Active, Dead, LiveWorkIsLast
  <2>3. LiveWork' = {} /\ docStatus \notin {"in_review", "verified", "failed"} /\ Pending = {}
    BY Zenon, <1>1, <2>1, <2>2 DEF LiveWorkIsLast
  <2>4. LiveWorkIsLast'
    BY Zenon, <1>2, <2>3 DEF LiveWorkIsLast
  <2>5. ReviewedWereRetried'
    BY Zenon, <1>3, <1>4, <2>1, <2>3 DEF ReviewedWereRetried
  <2> QED
    BY SMTT(30), <1>5, <2>4, <2>5
<1> QED
  BY Zenon, <1>6, <1>7

(* The job that commits an extraction was the live work, and had none. *)
LEMMA CommitWork ==
    ASSUME LifeInv, SlotsHoldLeases, WorkInv, [Next]_vars,
           NEW w \in Workers, Commit(w), jobs[slot[w].job].src = cur
    PROVE  WorkInv'
<1> USE DEF WorkInv
<1> DEFINE j == slot[w].job
<1>1. /\ j \in 1..MaxJobs /\ j \in JobIds /\ Completes(j) /\ DOMAIN jobs' = DOMAIN jobs
      /\ cur' = cur /\ docStatus' = "in_review" /\ Len(exts) < MaxExtractions
      /\ exts' = Append(SupersedePending, [src |-> cur, job |-> j, status |-> "pending"])
  BY Zenon, CommitRows DEF LifeInv
<1>2. ~jobs[j].completed /\ jobs[j].status = "running"
  BY Zenon DEF Commit, SlotsHoldLeases, HoldsLease
<1>3. j \in LiveWork
  BY Zenon, <1>1, <1>2 DEF LiveWork, Active
<1> HIDE DEF j
<1>4. /\ Len(exts') = Len(exts) + 1
      /\ ExtractionIds' = ExtractionIds \cup {Len(exts) + 1}
      /\ \A i \in ExtractionIds :
           /\ exts'[i].src = exts[i].src /\ exts'[i].job = exts[i].job
           /\ exts'[i].status = IF exts[i].status = "pending" THEN "superseded"
                                ELSE exts[i].status
      /\ exts'[Len(exts) + 1] = [src |-> cur, job |-> j, status |-> "pending"]
  BY Zenon, <1>1, ExtractionAppended DEF LifeInv, QueueInv
<1>5. exts'[Len(exts) + 1].job = j /\ exts'[Len(exts) + 1].status = "pending"
  BY SMTT(30), <1>4
<1>6. OneExtraction'
  <2>1. \A i \in ExtractionIds : exts[i].job # j
    BY Zenon, <1>2 DEF LifeInv, QueueInv, RowsAreBound
  <2> QED
    BY SMTT(30), <1>4, <1>5, <2>1 DEF OneExtraction
<1>7. LiveWork' = {} /\ Len(jobs') = Len(jobs)
  <2>1. LiveWork' \subseteq LiveWork /\ Len(jobs') = Len(jobs)
    BY Zenon, <1>1, WorkShrinks DEF LifeInv
  <2>2. jobs'[j].completed
    BY SMTT(30), <1>1, CompletesMoves DEF LifeInv, QueueInv
  <2> QED
    BY Zenon, <1>3, <2>1, <2>2 DEF LiveWorkIsLast, LiveWork
<1>8. LiveWorkIsLast'
  BY Zenon, <1>1, <1>7 DEF LiveWorkIsLast
<1>9. /\ OfSource("rejected", cur)' = OfSource("rejected", cur)
      /\ OfSource("approved", cur)' = OfSource("approved", cur)
  <2>1. ASSUME NEW s \in {"rejected", "approved"} PROVE OfSource(s, cur)' = OfSource(s, cur)
    <3>1. OfSource(s, cur)' = {i \in ExtractionIds' : exts'[i].status = s /\ exts'[i].src = cur}
      BY Zenon, <1>1 DEF OfSource
    <3>2. \A i \in ExtractionIds :
            exts'[i].src = exts[i].src /\ (exts'[i].status = s <=> exts[i].status = s)
      BY Zenon, <1>4, <2>1
    <3> QED
      BY SMTT(30), <1>4, <1>5, <2>1, <3>1, <3>2 DEF OfSource
  <2> QED
    BY Zenon, <2>1
<1>10. \A k : KeyKnown(k) => KeyKnown(k)'
  BY Zenon, KeysStay DEF LifeInv
<1>11. docStatus # "verified"
  BY Zenon, <1>3 DEF LiveWorkIsLast
<1>12. ReviewedWereRetried'
  BY Zenon, <1>3, <1>9, <1>10, <1>11 DEF ReviewedWereRetried
<1> QED
  BY SMTT(30), <1>6, <1>8, <1>12

(* A replacement starts over: its job is the only work, nothing is reviewed. *)
LEMMA ReplaceWork ==
    ASSUME LifeInv, WorkInv, AppendSource
    PROVE  WorkInv'
<1> USE DEF LifeInv, QueueInv, WorkInv
<1>1. /\ cur' = cur + 1 /\ cur' \in Sources /\ exts' = SupersedePending
      /\ Len(jobs) < MaxJobs /\ docStatus' = "needs_reprocess"
      /\ jobs' = Append(jobs, NewJob(cur', <<"source", cur'>>))
  BY SMTT(30) DEF AppendSource, RowsTyped, DocTyped, Sources
<1>2. <<"source", cur'>> \in Keys /\ cur \in Nat
  BY SMTT(30), <1>1 DEF Keys, Sources, RowsTyped, DocTyped
<1>3. /\ JobIds' = JobIds \cup {Len(jobs')} /\ \A i \in JobIds : jobs'[i] = jobs[i]
  BY Zenon, <1>1, <1>2, RowInserted
<1>4. /\ Len(exts') = Len(exts)
      /\ \A i \in ExtractionIds :
           /\ exts'[i].src = exts[i].src /\ exts'[i].job = exts[i].job
           /\ exts'[i].status = IF exts[i].status = "pending" THEN "superseded"
                                ELSE exts[i].status
  BY Zenon, <1>1, SupersededRows
<1>5. ExtractionIds' = ExtractionIds
  BY Zenon, <1>4 DEF ExtractionIds
<1>6. Pending' = {}
  BY Zenon, <1>4, <1>5 DEF Pending
<1>7. \A i \in JobIds : jobs'[i].src # cur'
  <2>1. \A i \in JobIds : jobs[i].src <= cur /\ jobs[i].src \in Nat
    BY SMTT(30), RowsByPosition DEF RowsAreBound, JobRows, Sources
  <2>2. cur' = cur + 1 /\ cur \in Nat
    BY Zenon, <1>1, <1>2
  <2>3. \A i \in JobIds : jobs'[i].src = jobs[i].src
    BY Zenon, <1>3
  <2> QED
    BY SMTT(30), <2>1, <2>2, <2>3
<1>8. \A i \in ExtractionIds : exts'[i].src # cur'
  BY SMTT(30), <1>1, <1>2, <1>4, RowsByPosition DEF RowsAreBound, Extractions, Sources
<1>9. OneExtraction'
  BY SMTT(30), <1>4, <1>5 DEF OneExtraction
<1>10. LiveWorkIsLast'
  BY Zenon, <1>1, <1>3, <1>6, <1>7 DEF LiveWorkIsLast, LiveWork, Active
<1>11. ReviewedWereRetried'
  BY Zenon, <1>5, <1>8 DEF ReviewedWereRetried, OfSource
<1> QED
  BY Zenon, <1>9, <1>10, <1>11

(* A retry adds a row only when no work is left, under the key of what was
   reviewed last. *)
LEMMA RetryWork ==
    ASSUME LifeInv, WorkInv, [Next]_vars, Reprocess
    PROVE  WorkInv'
<1> USE DEF LifeInv, QueueInv, WorkInv
<1>1. PICK k \in ReprocessKey :
        /\ KeyKnown(k) \/ Len(jobs) < MaxJobs
        /\ jobs' = IF KeyKnown(k) THEN jobs ELSE Append(jobs, NewJob(cur, k))
  BY Zenon DEF Reprocess, KeyKnown
<1>2. cur' = cur /\ exts' = exts /\ docStatus' = "needs_reprocess" /\ cur \in Sources
  BY Zenon DEF Reprocess, RowsTyped, DocTyped
<1>3. k \in Keys
  BY Zenon, ReprocessKeyTyped
<1>4. docStatus \in {"needs_reprocess", "verified", "failed"}
  BY Zenon, <1>1, ReprocessKeyOrigin
<1>5. Pending = {}
  BY Zenon, <1>4 DEF LiveWorkIsLast
<1>6. ~KeyKnown(k) => LiveWork = {}
  <2> SUFFICES ASSUME ~KeyKnown(k) PROVE LiveWork = {}
    BY SMTT(30)
  <2>1. CASE docStatus \in {"verified", "failed"}
    BY Zenon, <2>1 DEF LiveWorkIsLast
  <2>2. CASE \E i \in Latest(OfSource("rejected", cur)) : k = <<"extraction", i>>
    BY Zenon, <2>2 DEF ReviewedWereRetried, Latest
  <2>3. CASE \E i \in Latest(OfSource("approved", cur)) : k = <<"extraction", i>>
    BY Zenon, <2>1, <2>3 DEF ReviewedWereRetried, Latest
  <2>4. ~\E j \in Active(cur) : k = jobs[j].key
    BY Zenon DEF KeyKnown, Active
  <2>5. CASE Active(cur) = {}
    BY Zenon, <2>5 DEF LiveWork
  <2> QED
    BY SMTT(30), <1>1, <2>1, <2>2, <2>3, <2>4, <2>5, ReprocessKeyOrigin
<1>7. ExtractionIds' = ExtractionIds /\ Pending' = {}
  BY Zenon, <1>2, <1>5 DEF ExtractionIds, Pending
<1>8. KeyKnown(k)' /\ \A x \in LiveWork' : x = Len(jobs')
  <2>1. CASE KeyKnown(k)
    <3>1. jobs' = jobs
      BY Zenon, <1>1, <2>1
    <3> QED
      BY Zenon, <1>2, <2>1, <3>1 DEF KeyKnown, LiveWorkIsLast, LiveWork, Active, JobIds
  <2>2. CASE ~KeyKnown(k)
    <3>1. jobs' = Append(jobs, NewJob(cur, k)) /\ Len(jobs) < MaxJobs
      BY Zenon, <1>1, <2>2
    <3>2. /\ JobIds' = JobIds \cup {Len(jobs')} /\ \A i \in JobIds : jobs'[i] = jobs[i]
          /\ jobs'[Len(jobs')] = NewJob(cur, k)
      BY Zenon, <1>2, <1>3, <3>1, RowInserted
    <3>3. KeyKnown(k)'
      BY SMTT(30), <3>2, NewRow DEF KeyKnown
    <3>4. \A x \in LiveWork' : x = Len(jobs')
      BY Zenon, <1>2, <1>6, <2>2, <3>2 DEF LiveWork, Active
    <3> QED
      BY Zenon, <3>3, <3>4
  <2> QED
    BY Zenon, <2>1, <2>2
<1>9. LiveWorkIsLast'
  BY Zenon, <1>2, <1>7, <1>8 DEF LiveWorkIsLast
<1>10. OneExtraction'
  BY Zenon, <1>2, <1>7 DEF OneExtraction
<1>11. \A x : KeyKnown(x) => KeyKnown(x)'
  BY Zenon, KeysStay
<1>12. /\ OfSource("rejected", cur)' = OfSource("rejected", cur)
       /\ OfSource("approved", cur)' = OfSource("approved", cur)
  BY Zenon, <1>2, <1>7 DEF OfSource
<1>13. \A i \in OfSource("rejected", cur) : KeyKnown(<<"extraction", i>>)'
  <2> SUFFICES ASSUME NEW i \in OfSource("rejected", cur), ~KeyKnown(<<"extraction", i>>)
               PROVE  KeyKnown(<<"extraction", i>>)'
    BY Zenon, <1>11
  <2>1. docStatus = "needs_reprocess" /\ i \in Latest(OfSource("rejected", cur))
    BY Zenon DEF ReviewedWereRetried
  <2>2. PICK x \in Latest(OfSource("rejected", cur)) : k = <<"extraction", x>>
    BY Zenon, <1>1, <2>1, ReprocessKeyOrigin
  <2>3. x = i
    BY SMTT(30), <2>1, <2>2, RowsByPosition DEF Latest, OfSource, ExtractionIds
  <2> QED
    BY SMTT(30), <1>8, <2>2, <2>3
<1>14. \A i \in OfSource("approved", cur) : KeyKnown(<<"extraction", i>>)'
  <2> SUFFICES ASSUME NEW i \in OfSource("approved", cur), ~KeyKnown(<<"extraction", i>>)
               PROVE  KeyKnown(<<"extraction", i>>)'
    BY Zenon, <1>11
  <2>1. docStatus = "verified"
    BY Zenon DEF ReviewedWereRetried
  <2>2. PICK x \in Latest(OfSource("approved", cur)) : k = <<"extraction", x>>
    BY SMTT(30), <1>1, <2>1, ReprocessKeyOrigin
  <2>3. x = i
    BY Zenon, <2>2 DEF Latest, OfSource, ReviewInv, OneApproved
  <2> QED
    BY Zenon, <1>8, <2>2, <2>3
<1>15. ReviewedWereRetried'
  BY Zenon, <1>12, <1>13, <1>14 DEF ReviewedWereRetried
<1> QED
  BY Zenon, <1>9, <1>10, <1>15

(* A review decides about the last extraction, when no work is left. *)
LEMMA DecisionWork ==
    ASSUME LifeInv, WorkInv, [Next]_vars, NEW i \in ExtractionIds, Approve(i) \/ Reject(i)
    PROVE  WorkInv'
<1> USE DEF LifeInv, QueueInv, WorkInv
<1>1. cur' = cur /\ jobs' = jobs /\ JobIds' = JobIds
  BY Zenon DEF Approve, Reject, JobIds
<1>2. /\ i \in Pending /\ exts[i].src = cur /\ i = Len(exts) /\ Len(exts) \in Nat
      /\ \A x \in Pending : x = i
  BY Zenon, RowsByPosition DEF Approve, Reject, PendingIsLast, ReviewInv
<1>3. docStatus = "in_review" /\ LiveWork = {}
  BY Zenon, <1>2 DEF LiveWorkIsLast
<1>4. LiveWork' = {}
  BY Zenon, <1>1, <1>3 DEF LiveWork, Active
<1>5. \A k : KeyKnown(k) => KeyKnown(k)'
  BY Zenon, KeysStay
<1>6. /\ \A x \in OfSource("rejected", cur) : KeyKnown(<<"extraction", x>>)'
      /\ \A x \in OfSource("approved", cur) : KeyKnown(<<"extraction", x>>)'
  BY Zenon, <1>3, <1>5 DEF ReviewedWereRetried
<1>7. CASE Approve(i)
  <2>1. /\ Len(exts') = Len(exts) /\ docStatus' = "verified"
        /\ \A k \in ExtractionIds :
             /\ exts'[k].src = exts[k].src /\ exts'[k].job = exts[k].job
             /\ exts'[k].status = IF k = i THEN "approved"
                                  ELSE IF exts[k].status = "approved" THEN "superseded"
                                  ELSE exts[k].status
    BY Zenon, <1>7, ApprovedRows DEF Approve
  <2>2. ExtractionIds' = ExtractionIds
    BY Zenon, <2>1 DEF ExtractionIds
  <2>3. Pending' = {} /\ OneExtraction'
    BY SMTT(30), <1>2, <2>1, <2>2 DEF Pending, OneExtraction
  <2>4. \A x \in OfSource("rejected", cur)' : x \in OfSource("rejected", cur)
    BY Zenon, <1>1, <2>1, <2>2 DEF OfSource
  <2> QED
    BY SMTT(30), <1>4, <1>6, <2>1, <2>3, <2>4 DEF LiveWorkIsLast, ReviewedWereRetried
<1>8. CASE Reject(i)
  <2>1. /\ Len(exts') = Len(exts) /\ docStatus' = "needs_reprocess"
        /\ \A k \in ExtractionIds :
             /\ exts'[k].src = exts[k].src /\ exts'[k].job = exts[k].job
             /\ exts'[k].status = IF k = i THEN "rejected" ELSE exts[k].status
    BY Zenon, <1>8, RejectedRows DEF Reject
  <2>2. ExtractionIds' = ExtractionIds
    BY Zenon, <2>1 DEF ExtractionIds
  <2>3. Pending' = {} /\ OneExtraction'
    BY SMTT(30), <1>2, <2>1, <2>2 DEF Pending, OneExtraction
  <2>4. \A x \in OfSource("approved", cur)' : x \in OfSource("approved", cur)
    BY Zenon, <1>1, <2>1, <2>2 DEF OfSource
  <2>5. \A x \in OfSource("rejected", cur)' : x = i \/ x \in OfSource("rejected", cur)
    BY Zenon, <1>1, <2>1, <2>2 DEF OfSource
  <2>6. i \in Latest(OfSource("rejected", cur)')
    BY SMTT(30), <1>1, <1>2, <2>1, <2>2 DEF OfSource, Latest, ExtractionIds
  <2>7. LiveWorkIsLast'
    BY Zenon, <1>4, <2>1, <2>3 DEF LiveWorkIsLast
  <2>8. ReviewedWereRetried'
    BY Zenon, <1>4, <1>6, <2>1, <2>4, <2>5, <2>6 DEF ReviewedWereRetried, Latest
  <2> QED
    BY Zenon, <2>3, <2>7, <2>8
<1> QED
  BY Zenon, <1>7, <1>8

(* Every step of the pipeline preserves LeaseInv, given the document's own invariant. *)
LEMMA LeaseStep == ASSUME LifeInv, LeaseInv, [Next]_vars PROVE LeaseInv'
<1> SUFFICES ASSUME LeasesKept' PROVE SlotsHoldLeases' /\ WorkInv'
  BY SMTT(30) DEF LeaseInv
<1>1. met \subseteq met'
  BY ZenonT(30) DEF Next, vars, Poll, Claim, ClaimNothing, Execute, MarkClaimed, Begin, Commit, Raise,
         MarkDone, RecordFailure, Renew, Lapse, MarkDoneFault, Crash, Spend, LeaseRunsOut,
         IndexStep, IndexCommit, IndexRaise, Review, Approve, Reject, AppendSource, Reprocess,
         RetryDerivatives
<1>2. SlotsHoldLeases /\ WorkInv
  BY Zenon, <1>1 DEF LeasesKept, LeaseInv
<1>3. SlotsHoldLeases'
  BY Zenon, <1>2, HoldStep DEF LifeInv
<1>4. WorkInv'
  BY SMTT(30), <1>2, DocumentMoves, KeepsWork, CommitWork, ReplaceWork, RetryWork, DecisionWork DEF LifeInv
<1> QED
  BY Zenon, <1>3, <1>4

(* A document just uploaded, its first job queued, satisfies LeaseInv. *)
LEMMA LeaseInit == Init => LeaseInv
<1> SUFFICES ASSUME Init PROVE SlotsHoldLeases /\ WorkInv
  BY Zenon DEF LeaseInv
<1> USE DEF Init
<1>1. Len(jobs) = 1 /\ jobs[1] = NewJob(1, <<"source", 1>>) /\ Len(exts) = 0
  BY Zenon
<1>2. JobIds = {1} /\ ExtractionIds = {}
  BY SMTT(30), <1>1 DEF JobIds, ExtractionIds
<1>3. SlotsHoldLeases
  BY SMTT(30), <1>1, <1>2, NewRow DEF SlotsHoldLeases, IdleSlot
<1>4. OneExtraction /\ LiveWorkIsLast /\ ReviewedWereRetried
  BY Zenon, <1>1, <1>2 DEF OneExtraction, LiveWorkIsLast, ReviewedWereRetried, LiveWork, Active,
                    Pending, OfSource
<1> QED
  BY Zenon, <1>3, <1>4 DEF WorkInv

(* With leases kept, attempts are exclusive and the live work is accounted
   for, whatever kills, raises and retries happen. *)
THEOREM LeaseInvariant == Spec => []LeaseInv
  BY LeaseInit, LeaseStep, LifecycleInvariant, PTL DEF Spec

(* OneExtractionPerJob: the lease gives exclusive handling, so one job appends
   at most one extraction. *)
THEOREM OneExtractionHolds == Spec => []OneExtractionPerJob
<1>1. LeaseInv => OneExtractionPerJob
  BY Zenon DEF LeaseInv, WorkInv, OneExtraction, OneExtractionPerJob
<1> QED
  BY <1>1, LeaseInvariant, PTL

(* PendingIsInReview: nothing hides an extraction that waits for review. *)
THEOREM PendingStaysInReview == Spec => []PendingIsInReview
<1>1. LeaseInv => PendingIsInReview
  BY Zenon DEF LeaseInv, WorkInv, LiveWorkIsLast, PendingIsInReview
<1> QED
  BY <1>1, LeaseInvariant, PTL

-----------------------------------------------------------------------------
(* One worker: a running row is the one its slot works on. *)
LEMMA SoleSlot ==
    ASSUME SoleWorker, RunningIsHeld, NEW w \in Workers
    PROVE  \A j \in JobIds : jobs[j].status = "running" => slot[w].pc # "idle" /\ slot[w].job = j
  BY SMTT(30) DEF SoleWorker, RunningIsHeld

(* The sole worker polls only when no row runs, so a poll claims a row and buries none. *)
LEMMA SolePoll ==
    ASSUME LifeInv, SoleWorker, RunningIsHeld, NEW w \in Workers, Poll(w)
    PROVE  /\ \E j \in JobIds : Claim(w, j)
           /\ FailedByBurial = {}
           /\ \A i \in JobIds : jobs[i].status # "running" /\ Buried(i) = jobs[i]
<1>1. \A i \in JobIds : jobs[i].status # "running"
  <2>1. slot[w].pc = "idle"
    BY Zenon DEF Poll, Claim, ClaimNothing
  <2> QED
    BY Zenon, <2>1, SoleSlot
<1>2. \A i \in JobIds : ~Exhausted(i)
  BY Zenon, <1>1 DEF Exhausted
<1> QED
  BY Zenon, <1>1, <1>2 DEF Poll, ClaimNothing, FailedByBurial, Buried

(* With one worker a running row stays the row in that worker's hands. *)
LEMMA HeldStep ==
    ASSUME LifeInv, SoleWorker, FaultsAreKnown, SlotsHoldLeases, RunningIsHeld, [Next]_vars
    PROVE  RunningIsHeld'
<1> USE DEF LifeInv, QueueInv
<1>1. ASSUME NEW w \in Workers, Poll(w) PROVE RunningIsHeld'
  <2>1. PICK j \in JobIds : Claim(w, j)
    BY Zenon, <1>1, SolePoll
  <2>2. DOMAIN jobs' = DOMAIN jobs /\ JobIds' = JobIds
    BY Zenon, <1>1, BurialFails, SameDomain
  <2>3. \A i \in JobIds \ {j} : jobs'[i].status # "running"
    BY Zenon, <1>1, <2>1, SolePoll DEF Claim
  <2>4. slot'[w].pc # "idle" /\ slot'[w].job = j
    BY Zenon, <2>1 DEF Claim, RowsTyped
  <2> QED
    BY Zenon, <2>2, <2>3, <2>4 DEF RunningIsHeld
<1>2. ASSUME \A u \in Workers : slot[u].pc # "idle" =>
                slot'[u].pc # "idle" /\ slot'[u].job = slot[u].job,
             \A j \in JobIds' : jobs'[j].status = "running" =>
                j \in JobIds /\ jobs[j].status = "running"
      PROVE  RunningIsHeld'
  BY SMTT(30), <1>2 DEF RunningIsHeld
<1>3. ASSUME NEW w \in Workers, NEW j \in JobIds, Completes(j), Goto(w, "finishing"),
             slot[w].pc # "idle"
      PROVE  RunningIsHeld'
  <2>1. /\ JobIds' = JobIds /\ jobs'[j].status = jobs[j].status
        /\ \A i \in JobIds \ {j} : jobs'[i] = jobs[i]
    BY Zenon, <1>3, CompletesMoves
  <2>2. /\ slot'[w].pc = "finishing" /\ slot'[w].job = slot[w].job
        /\ \A u \in Workers \ {w} : slot'[u] = slot[u]
    BY Zenon, <1>3, SlotAfter DEF Goto
  <2>3. \A u \in Workers : slot[u].pc # "idle" =>
                slot'[u].pc # "idle" /\ slot'[u].job = slot[u].job
    BY Zenon, <2>2
  <2>4. \A i \in JobIds' : jobs'[i].status = "running" =>
                i \in JobIds /\ jobs[i].status = "running"
    BY Zenon, <2>1
  <2> QED
    BY Zenon, <1>2, <2>3, <2>4
<1>4. ASSUME NEW w \in Workers, slot[w].pc # "idle", jobs' = jobs, NEW step, NEW holds,
             slot' = [slot EXCEPT ![w].pc = step, ![w].holds = holds], step # "idle"
      PROVE  RunningIsHeld'
  BY ZenonT(30), <1>2, <1>4, SlotAfter DEF JobIds
<1>5. ASSUME NEW w \in Workers, MarkClaimed(w) \/ Raise(w) PROVE RunningIsHeld'
  BY ZenonT(30), <1>4, <1>5 DEF MarkClaimed, Raise, Goto
<1>6. ASSUME NEW w \in Workers, Begin(w) \/ Commit(w) PROVE RunningIsHeld'
  <2>1. slot[w].pc # "idle" /\ slot[w].job \in JobIds
    BY Zenon, <1>6 DEF Begin, Commit, SlotsAreBound
  <2>2. \/ Completes(slot[w].job) /\ Goto(w, "finishing")
        \/ jobs' = jobs /\ Goto(w, "finishing")
        \/ /\ jobs' = jobs
           /\ \E holds : slot' = [slot EXCEPT ![w].pc = "working", ![w].holds = holds]
    BY Zenon, <1>6 DEF Begin, Commit
  <2> QED
    BY ZenonT(30), <1>3, <1>4, <2>1, <2>2 DEF Goto
<1>7. ASSUME NEW w \in Workers, MarkDone(w) \/ RecordFailure(w) PROVE RunningIsHeld'
  <2> DEFINE j == slot[w].job
  <2>1. j \in JobIds /\ HoldsLease(w)
    BY Zenon, <1>7 DEF MarkDone, RecordFailure, SlotsAreBound, SlotsHoldLeases
  <2>2. PICK s \in {"done", "dead", "queued"} : jobs' = [jobs EXCEPT ![j] = Released(j, s)]
    BY Zenon, <1>7, <2>1 DEF MarkDone, RecordFailure
  <2>3. Released(j, s) \in JobRows /\ Released(j, s).status = s
    BY SMTT(30), <2>1, ReleasedRow DEF JobStatuses
  <2> HIDE DEF j
  <2>4. /\ JobIds' = JobIds
        /\ \A i \in JobIds : jobs'[i] = IF i = j THEN Released(j, s) ELSE jobs[i]
    BY ZenonT(30), <2>1, <2>2, <2>3, RowReplaced
  <2>5. \A i \in JobIds \ {j} : jobs[i].status # "running"
    BY Zenon, SoleSlot DEF j
  <2> QED
    BY Zenon, <2>3, <2>4, <2>5 DEF RunningIsHeld
<1>8. ASSUME NEW w \in Workers, Renew(w) \/ Lapse(w) \/ MarkDoneFault(w) \/ Crash(w) PROVE FALSE
  BY Zenon, <1>8 DEF Renew, SlotsHoldLeases, Lapse, MarkDoneFault, Crash, Spend, SoleWorker
<1>9. ASSUME NEW j \in JobIds, LeaseRunsOut(j) PROVE RunningIsHeld'
  <2> DEFINE r == [jobs[j] EXCEPT !.expired = TRUE]
  <2>1. r \in JobRows /\ r.status = jobs[j].status
    BY Zenon, RowsByPosition DEF JobRows
  <2>2. jobs' = [jobs EXCEPT ![j] = r] /\ slot' = slot
    BY Zenon, <1>9 DEF LeaseRunsOut
  <2> HIDE DEF r
  <2>3. JobIds' = JobIds /\ \A i \in JobIds : jobs'[i] = IF i = j THEN r ELSE jobs[i]
    BY Zenon, <2>1, <2>2, RowReplaced
  <2> QED
    BY Zenon, <1>2, <2>1, <2>2, <2>3
<1>10. ASSUME jobs' = jobs, slot' = slot PROVE RunningIsHeld'
  BY Zenon, <1>10 DEF RunningIsHeld, JobIds
<1>11. ASSUME slot' = slot, JobsMove, \A j \in JobIds : jobs'[j] = jobs[j] PROVE RunningIsHeld'
  <2>1. \A j \in JobIds' \ JobIds : jobs'[j].status = "queued"
    BY SMTT(30), <1>11, NewRow DEF JobsMove
  <2> QED
    BY ZenonT(30), <1>2, <1>11, <2>1
<1>12. CASE AppendSource \/ Reprocess
  <2>1. JobsMove /\ slot' = slot
    BY Zenon, <1>12, NextMoves DEF SoundMove, AppendSource, Reprocess
  <2>2. \E r : jobs' = jobs \/ jobs' = Append(jobs, r)
    BY Zenon, <1>12 DEF AppendSource, Reprocess
  <2>3. \A j \in JobIds : jobs'[j] = jobs[j]
    BY SMTT(30), <2>2, RowsByPosition DEF JobIds
  <2> QED
    BY Zenon, <1>11, <2>1, <2>3
<1>13. CASE Review \/ RetryDerivatives \/ UNCHANGED vars \/ (\E v \in Sources : IndexStep(v))
  BY Zenon, <1>10, <1>13 DEF Review, Approve, Reject, RetryDerivatives, vars, IndexStep, IndexCommit,
                      IndexRaise
<1> QED
  BY ZenonT(30), <1>1, <1>5, <1>6, <1>7, <1>8, <1>9, <1>12, <1>13 DEF Next, Execute

(* What one worker's steps do to the work that waits for the current source. *)
Waiting == {"queued", "processing"}
WorkStays == /\ SameRows /\ docStatus' = docStatus /\ LiveWork \subseteq LiveWork'
             /\ intake'[cur] \in Waiting => intake[cur] \in Waiting
FinalFailure(w) == /\ RecordFailure(w) /\ SameRows /\ docStatus' = "failed"
                   /\ intake'[cur] \notin Waiting
                   /\ slot[w].job \in LiveWork /\ slot[w].job \in Dead(cur)'

(* Recording a failure either leaves live work where it was or is its last attempt. *)
LEMMA SoleFailure ==
    ASSUME LifeInv, SlotsHoldLeases, NEW w \in Workers, RecordFailure(w)
    PROVE  WorkStays \/ FinalFailure(w)
<1> USE DEF LifeInv, QueueInv
<1> DEFINE j == slot[w].job
           final == jobs[j].attempts >= MaxAttempts
           s == IF final THEN "dead" ELSE "queued"
           S == IF final THEN {jobs[j].src} ELSE {}
<1>1. /\ j \in JobIds /\ HoldsLease(w) /\ ~jobs[j].completed /\ jobs[j].status = "running"
  BY ZenonT(30) DEF RecordFailure, SlotsAreBound, SlotsHoldLeases, HoldsLease
<1>2. SameRows /\ cur' = cur /\ cur \in Sources /\ intake \in [Sources -> IntakeStates]
  BY Zenon, AttemptFails DEF SameRows, RowsTyped, DocTyped
<1>3. jobs' = [jobs EXCEPT ![j] = Released(j, s)] /\ TerminalFailure(S)
  BY Zenon, <1>1 DEF RecordFailure
<1>4. s \in JobStatuses /\ (final => s = "dead") /\ (~final => s = "queued")
  BY Zenon DEF JobStatuses
<1>5. /\ Released(j, s) \in JobRows /\ Released(j, s).status = s
      /\ Released(j, s).src = jobs[j].src /\ Released(j, s).completed = jobs[j].completed
  <2> HIDE DEF j, s
  <2> QED
    BY ZenonT(30), <1>1, <1>4, ReleasedRow
<1>6. /\ docStatus' = IF cur \in S THEN "failed" ELSE docStatus
      /\ intake'[cur] = IF cur \in S /\ MayBecome(intake[cur], "failed")
                        THEN "failed" ELSE intake[cur]
  BY Zenon, <1>2, <1>3 DEF TerminalFailure
<1>7. cur \in S <=> (final /\ jobs[j].src = cur)
  BY Zenon
<1> HIDE DEF j, final, s, S
<1>8. JobIds' = JobIds /\ \A i \in JobIds : jobs'[i] = IF i = j THEN Released(j, s) ELSE jobs[i]
  BY ZenonT(30), <1>1, <1>3, <1>5, RowReplaced
<1>9. CASE cur \notin S
  <2>1. \A i \in LiveWork : i \in LiveWork'
    BY SMTT(30), <1>1, <1>2, <1>4, <1>5, <1>7, <1>8, <1>9 DEF LiveWork, Active
  <2> QED
    BY Zenon, <1>2, <1>6, <1>9, <2>1 DEF WorkStays
<1>10. CASE cur \in S
  <2>1. j \in LiveWork /\ j \in Dead(cur)'
    BY SMTT(30), <1>1, <1>2, <1>4, <1>5, <1>7, <1>8, <1>10 DEF LiveWork, Active, Dead
  <2>2. intake'[cur] \notin Waiting
    BY Zenon, <1>6, <1>10 DEF MayBecome, Waiting
  <2> QED
    BY SMTT(30), <1>2, <1>6, <1>10, <2>1, <2>2 DEF FinalFailure, j
<1> QED
  BY Zenon, <1>9, <1>10

(* The other steps of a job keep the live work, but for the commit of a current result. *)
LEMMA SoleExecute ==
    ASSUME LifeInv, SlotsHoldLeases, NEW w \in Workers, Execute(w), ~RecordFailure(w)
    PROVE  WorkStays \/ (Commit(w) /\ jobs[slot[w].job].src = cur)
<1> USE DEF LifeInv, QueueInv
<1> DEFINE j == slot[w].job
<1>1. /\ j \in JobIds /\ cur \in Sources /\ intake \in [Sources -> IntakeStates]
      /\ jobs[j].src \in Sources
  <2>1. j \in JobIds
    BY Zenon DEF Execute, MarkClaimed, Begin, Commit, Raise, MarkDone, SlotsAreBound
  <2> QED
    BY Zenon, <2>1, RowsByPosition DEF RowsTyped, DocTyped, JobRows
<1> HIDE DEF j
<1>2. ASSUME SameRows, docStatus' = docStatus, jobs' = jobs,
             intake'[cur] \in Waiting => intake[cur] \in Waiting
      PROVE  WorkStays
  BY Zenon, <1>2 DEF WorkStays, SameRows, LiveWork, Active, JobIds
<1>3. ASSUME SameRows, docStatus' = docStatus, intake'[cur] = intake[cur], JobIds' = JobIds,
             \A i \in JobIds \ {j} : jobs'[i] = jobs[i], j \notin LiveWork
      PROVE  WorkStays
  <2>1. \A i \in LiveWork : i \in LiveWork'
    BY ZenonT(30), <1>3 DEF LiveWork, Active, SameRows
  <2> QED
    BY Zenon, <1>3, <2>1 DEF WorkStays
<1>4. CASE MarkClaimed(w)
  <2>1. SameRows /\ docStatus' = docStatus /\ jobs' = jobs
    BY Zenon, <1>4 DEF MarkClaimed, SameRows, search
  <2>2. intake'[cur] \in Waiting => intake[cur] \in Waiting
    BY Zenon, <1>1, <1>4 DEF MarkClaimed, Waiting, j
  <2> QED
    BY Zenon, <1>2, <2>1, <2>2
<1>5. CASE Begin(w)
  <2>1. SameRows /\ docStatus' = docStatus /\ intake' = intake
    BY Zenon, <1>5 DEF Begin, SameRows, document, search, Completes
  <2>2. CASE jobs' = jobs
    BY Zenon, <1>2, <2>1, <2>2
  <2>3. CASE Completes(j) /\ jobs[j].src # cur
    <3>1. JobIds' = JobIds /\ \A i \in JobIds \ {j} : jobs'[i] = jobs[i]
      BY Zenon, <1>1, <2>3, CompletesMoves
    <3>2. j \notin LiveWork
      BY ZenonT(30), <2>3 DEF LiveWork, Active
    <3> QED
      BY SMTT(30), <1>3, <2>1, <3>1, <3>2
  <2> QED
    BY Zenon, <1>5, <2>2, <2>3 DEF Begin, j
<1>6. CASE Commit(w) /\ jobs[j].src # cur
  <2>1. SameRows /\ docStatus' = docStatus /\ Completes(j)
    BY ZenonT(30), <1>6 DEF Commit, SameRows, Completes, j
  <2>2. intake'[cur] = intake[cur]
    BY ZenonT(30), <1>1, <1>6 DEF Commit, j
  <2>3. JobIds' = JobIds /\ \A i \in JobIds \ {j} : jobs'[i] = jobs[i]
    BY Zenon, <1>1, <2>1, CompletesMoves
  <2>4. j \notin LiveWork
    BY SMTT(30), <1>6 DEF LiveWork, Active
  <2> QED
    BY SMTT(30), <1>3, <2>1, <2>2, <2>3, <2>4
<1>7. CASE Raise(w)
  BY SMTT(30), <1>2, <1>7 DEF Raise, SameRows, document, search
<1>8. CASE MarkDone(w)
  <2>1. SameRows /\ docStatus' = docStatus /\ intake' = intake
    BY SMTT(30), <1>8 DEF MarkDone, SameRows, document, search
  <2>2. CASE jobs' = jobs
    BY ZenonT(30), <1>2, <2>1, <2>2
  <2>3. CASE jobs' = [jobs EXCEPT ![j] = Released(j, "done")]
    <3>1. Released(j, "done") \in JobRows
      BY Zenon, <1>1, ReleasedRow DEF JobStatuses
    <3>2. JobIds' = JobIds /\ \A i \in JobIds \ {j} : jobs'[i] = jobs[i]
      BY ZenonT(30), <1>1, <2>3, <3>1, RowReplaced
    <3>3. j \notin LiveWork
      BY Zenon, <1>8 DEF LiveWork, MarkDone, SlotsAreBound, j
    <3> QED
      BY Zenon, <1>3, <2>1, <3>2, <3>3
  <2> QED
    BY SMTT(30), <1>8, <2>2, <2>3 DEF MarkDone, j
<1> QED
  BY SMTT(30), <1>4, <1>5, <1>6, <1>7, <1>8 DEF Execute, j

(* What each step of the one-worker pipeline does to the current source's work. *)
LEMMA SoleMoves ==
    ASSUME LifeInv, SoleWorker, FaultsAreKnown, SlotsHoldLeases, RunningIsHeld, [Next]_vars
    PROVE  \/ WorkStays
           \/ \E w \in Workers : FinalFailure(w)
           \/ \E w \in Workers : Commit(w) /\ jobs[slot[w].job].src = cur
           \/ AppendSource
           \/ Reprocess
           \/ \E i \in ExtractionIds : Approve(i) \/ Reject(i)
<1> USE DEF LifeInv, QueueInv
<1>1. ASSUME NEW w \in Workers, Poll(w) PROVE WorkStays
  <2>1. PICK j \in JobIds : Claim(w, j)
    BY Zenon, <1>1, SolePoll
  <2>2. SameRows /\ JobIds' = JobIds /\ TerminalFailure({})
    BY ZenonT(30), <1>1, <2>1, BurialFails, SameDomain, SolePoll DEF SameRows, Claim
  <2>3. docStatus' = docStatus /\ intake'[cur] = intake[cur]
    BY Zenon, <2>2 DEF TerminalFailure, RowsTyped, DocTyped
  <2>4. jobs[j].attempts < MaxAttempts
    BY Zenon, <2>1 DEF Claim, Eligible, QueuedMayRun
  <2>5. /\ jobs'[j].src = jobs[j].src /\ jobs'[j].completed = jobs[j].completed
        /\ jobs'[j].status = "running"
    <3>1. jobs'[j] = Leased(j, w)
      BY Zenon, <2>1 DEF Claim
    <3>2. RowsTyped
      BY SMTT(30)
    <3> HIDE DEF LifeInv, QueueInv
    <3>3. /\ Leased(j, w).src = jobs[j].src /\ Leased(j, w).completed = jobs[j].completed
          /\ Leased(j, w).status = "running"
      BY SMTT(30), <2>4, <3>2, LeasedRow
    <3> QED
      BY Zenon, <3>1, <3>3
  <2>6. \A i \in JobIds \ {j} : jobs'[i] = jobs[i]
    BY ZenonT(30), <1>1, <2>1, SolePoll DEF Claim
  <2>7. \A i \in LiveWork : i \in LiveWork'
    BY SMTT(30), <2>2, <2>5, <2>6 DEF LiveWork, Active, SameRows
  <2> QED
    BY SMTT(30), <2>2, <2>3, <2>7 DEF WorkStays
<1>2. ASSUME NEW w \in Workers, Renew(w) \/ Lapse(w) \/ MarkDoneFault(w) \/ Crash(w) PROVE FALSE
  BY Zenon, <1>2 DEF Renew, SlotsHoldLeases, Lapse, MarkDoneFault, Crash, Spend, SoleWorker
<1>3. ASSUME NEW j \in JobIds, LeaseRunsOut(j) PROVE WorkStays
  <2> DEFINE r == [jobs[j] EXCEPT !.expired = TRUE]
  <2>1. /\ r \in JobRows /\ r.status = jobs[j].status /\ r.src = jobs[j].src
        /\ r.completed = jobs[j].completed
    BY Zenon, RowsByPosition DEF JobRows
  <2>2. jobs' = [jobs EXCEPT ![j] = r] /\ SameRows /\ docStatus' = docStatus /\ intake' = intake
    BY Zenon, <1>3 DEF LeaseRunsOut, SameRows, document, search
  <2> HIDE DEF r
  <2>3. JobIds' = JobIds /\ \A i \in JobIds : jobs'[i] = IF i = j THEN r ELSE jobs[i]
    BY ZenonT(30), <2>1, <2>2, RowReplaced
  <2>4. \A i \in LiveWork : i \in LiveWork'
    BY SMTT(30), <2>1, <2>2, <2>3 DEF LiveWork, Active, SameRows
  <2> QED
    BY Zenon, <2>2, <2>4 DEF WorkStays
<1>4. CASE RetryDerivatives \/ UNCHANGED vars \/ (\E v \in Sources : IndexStep(v))
  <2>1. SameRows /\ docStatus' = docStatus /\ intake' = intake /\ jobs' = jobs
    BY Zenon, <1>4 DEF RetryDerivatives, vars, IndexStep, IndexCommit, IndexRaise, document, search,
                SameRows
  <2> QED
    BY Zenon, <2>1 DEF WorkStays, SameRows, LiveWork, Active, JobIds
<1> QED
  BY ZenonT(30), <1>1, <1>2, <1>3, <1>4, SoleFailure, SoleExecute DEF Next, Execute, Review

(* Keys of retries: old rows keep theirs, a new row has the key of its request. *)
LEMMA NewKeys ==
    ASSUME LifeInv, [Next]_vars, NEW j \in JobIds'
    PROVE  \/ j \in JobIds /\ jobs'[j].key = jobs[j].key
           \/ /\ j = Len(jobs) + 1
              /\ jobs'[j].key \in ReprocessKey \/ (\E v : jobs'[j].key = <<"source", v>>)
<1> USE DEF LifeInv, QueueInv
<1>1. JobsMove
  BY SMTT(30), NextMoves DEF SoundMove
<1>2. CASE j \in JobIds
  BY Zenon, <1>1, <1>2 DEF JobsMove, RowMove
<1>3. CASE j \notin JobIds
  <2>1. DOMAIN jobs' # DOMAIN jobs
    BY Zenon, <1>3, SameDomain
  <2>2. CASE AppendSource
    <3>1. /\ cur' \in Sources /\ Len(jobs) < MaxJobs
          /\ jobs' = Append(jobs, NewJob(cur', <<"source", cur'>>))
      BY SMTT(30), <2>2 DEF AppendSource, RowsTyped, DocTyped, Sources
    <3>2. <<"source", cur'>> \in Keys
      BY SMTT(30), <3>1 DEF Keys, Sources
    <3>3. /\ JobIds' = JobIds \cup {Len(jobs')} /\ Len(jobs') = Len(jobs) + 1
          /\ jobs'[Len(jobs')] = NewJob(cur', <<"source", cur'>>)
      BY SMTT(30), <3>1, <3>2, RowInserted
    <3> QED
      BY SMTT(30), <1>3, <3>3, NewRow
  <2>3. CASE Reprocess
    <3>1. PICK k \in ReprocessKey :
            Len(jobs) < MaxJobs /\ jobs' = Append(jobs, NewJob(cur, k))
      BY Zenon, <2>1, <2>3 DEF Reprocess
    <3>2. k \in Keys /\ cur \in Sources
      BY Zenon, ReprocessKeyTyped DEF RowsTyped, DocTyped
    <3>3. /\ JobIds' = JobIds \cup {Len(jobs')} /\ Len(jobs') = Len(jobs) + 1
          /\ jobs'[Len(jobs')] = NewJob(cur, k)
      BY Zenon, <3>1, <3>2, RowInserted
    <3> QED
      BY SMTT(30), <1>3, <3>3, NewRow
  <2>4. \A i : Approve(i) \/ Reject(i) => DOMAIN jobs' = DOMAIN jobs
    BY Zenon DEF Approve, Reject
  <2> QED
    BY Zenon, <2>1, <2>2, <2>3, <2>4, DocumentMoves, CommitRows DEF SameRows
<1> QED
  BY Zenon, <1>2, <1>3

(* Every step keeps idempotency keys bound to the source they were made for. *)
LEMMA KeysStep == ASSUME LifeInv, KeysAreBound, [Next]_vars PROVE KeysAreBound'
<1> USE DEF LifeInv, QueueInv
<1>1. /\ Len(jobs) \in Nat /\ Len(exts) \in Nat /\ Len(exts') \in Nat /\ ExtsMove
      /\ RowsTyped' /\ \A i \in ExtractionIds : exts[i].status \in ExtractionStatuses
  BY SMTT(30), NextMoves, RowsByPosition, ByPosition
     DEF SoundMove, RowsTyped, DocTyped, Extractions
<1>2. \A k \in ReprocessKey :
        \/ \E i \in ExtractionIds : k = <<"extraction", i>> /\ exts[i].status # "pending"
        \/ KeyKnown(k)
        \/ \E j \in JobIds : k = <<"failure", j>>
  BY SMTT(30), ReprocessKeyOrigin DEF Latest, OfSource, Active, Dead, KeyKnown
<1>3. ASSUME NEW i \in ExtractionIds, exts[i].status # "pending"
      PROVE  i \in ExtractionIds' /\ exts'[i].status # "pending"
  BY SMTT(30), <1>1, <1>3 DEF ExtsMove, ExtractionIds, ExtractionStatuses
<1>4. ASSUME NEW i \in 1..MaxExtractions, KeyKnown(<<"extraction", i>>)'
      PROVE  i \in ExtractionIds' /\ exts'[i].status # "pending"
  <2>1. PICK j \in JobIds' : jobs'[j].key = <<"extraction", i>>
    BY Zenon, <1>4 DEF KeyKnown
  <2>2. CASE KeyKnown(<<"extraction", i>>)
    BY Zenon, <1>3, <2>2 DEF KeysAreBound
  <2>3. CASE <<"extraction", i>> \in ReprocessKey
    BY SMTT(30), <1>2, <1>3, <2>2, <2>3
  <2> QED
    BY SMTT(30), <2>1, <2>2, <2>3, NewKeys DEF KeyKnown
<1>5. ASSUME NEW j \in JobIds', NEW i \in 1..MaxJobs, jobs'[j].key = <<"failure", i>>
      PROVE  i < j
  <2>1. CASE j \in JobIds /\ jobs'[j].key = jobs[j].key
    BY SMTT(30), <1>5, <2>1 DEF KeysAreBound
  <2>2. CASE j = Len(jobs) + 1 /\ <<"failure", i>> \in ReprocessKey
    <3>1. i \in JobIds \/ KeyKnown(<<"failure", i>>)
      BY SMTT(30), <1>2, <2>2
    <3>2. i < Len(jobs) + 1
      BY SMTT(30), <1>1, <3>1 DEF KeyKnown, KeysAreBound, JobIds
    <3> QED
      BY Zenon, <2>2, <3>2
  <2> QED
    BY SMTT(30), <1>5, <2>1, <2>2, NewKeys
<1> QED
  BY SMTT(30), <1>4, <1>5 DEF KeysAreBound

(* A retry leaves live work behind: a key that is known already has some. *)
LEMMA RetryLeavesWork ==
    ASSUME LifeInv, WorkInv, StrandInv, Reprocess
    PROVE  LiveWork' # {}
<1> USE DEF LifeInv, QueueInv, StrandInv
<1>1. PICK k \in ReprocessKey :
        /\ KeyKnown(k) \/ Len(jobs) < MaxJobs
        /\ jobs' = IF KeyKnown(k) THEN jobs ELSE Append(jobs, NewJob(cur, k))
  BY Zenon DEF Reprocess, KeyKnown
<1>2. cur' = cur /\ cur \in Sources /\ k \in Keys
  BY Zenon, ReprocessKeyTyped DEF Reprocess, RowsTyped, DocTyped
<1>3. CASE ~KeyKnown(k)
  <2>1. jobs' = Append(jobs, NewJob(cur, k)) /\ Len(jobs) < MaxJobs
    BY SMTT(30), <1>1, <1>3
  <2>2. JobIds' = JobIds \cup {Len(jobs')} /\ jobs'[Len(jobs')] = NewJob(cur, k)
    BY Zenon, <1>2, <2>1, RowInserted
  <2>3. Len(jobs') \in LiveWork'
    BY SMTT(30), <1>2, <2>2, NewRow DEF LiveWork, Active
  <2> QED
    BY SMTT(30), <2>3
<1>4. CASE KeyKnown(k)
  <2>1. LiveWork' = LiveWork
    BY SMTT(30), <1>1, <1>2, <1>4 DEF LiveWork, Active, JobIds
  <2>2. CASE docStatus = "needs_reprocess"
    <3> SUFFICES ASSUME LiveWork = {} PROVE FALSE
      BY SMTT(30), <2>1
    <3>1. /\ OfSource("rejected", cur) # {}
          /\ \A i \in Latest(OfSource("rejected", cur)) : ~KeyKnown(<<"extraction", i>>)
      BY SMTT(30), <2>2 DEF RetriesAreFresh
    <3> QED
      BY SMTT(30), <1>1, <1>4, <2>2, <3>1, ReprocessKeyOrigin
  <2>3. CASE docStatus = "verified"
    BY SMTT(30), <1>1, <1>4, <2>3, ReprocessKeyOrigin DEF RetriesAreFresh, Latest
  <2>4. CASE docStatus = "failed"
    <3>1. Active(cur) = {} /\ Len(jobs) \in Dead(cur)
      BY SMTT(30), <2>4 DEF RetriesAreFresh
    <3>2. PICK j \in Latest(Dead(cur)) : k = <<"failure", j>>
      BY SMTT(30), <1>1, <2>4, <3>1, ReprocessKeyOrigin
    <3>3. j = Len(jobs) /\ j \in 1..MaxJobs
      BY SMTT(30), <3>1, <3>2, RowsByPosition DEF Latest, Dead, JobIds
    <3>4. PICK x \in JobIds : jobs[x].key = <<"failure", j>>
      BY Zenon, <1>4, <3>2 DEF KeyKnown
    <3>5. j < x
      BY Zenon, <3>3, <3>4 DEF KeysAreBound
    <3> QED
      BY SMTT(30), <3>3, <3>4, <3>5, RowsByPosition DEF JobIds
  <2> QED
    BY Zenon, <1>1, <2>2, <2>3, <2>4, ReprocessKeyOrigin
<1> QED
  BY Zenon, <1>3, <1>4

(* Keys appear only with a new row. *)
LEMMA SameKeys ==
    ASSUME LifeInv, [Next]_vars, DOMAIN jobs' = DOMAIN jobs, NEW k
    PROVE  KeyKnown(k)' <=> KeyKnown(k)
<1>1. JobIds' = JobIds /\ JobsMove
  BY ZenonT(30), SameDomain, NextMoves DEF LifeInv, SoundMove
<1> QED
  BY SMTT(30), <1>1 DEF KeyKnown, JobsMove, RowMove

(* Every step keeps a retry newer than what it retries, and a waiting source in work. *)
LEMMA FreshStep ==
    ASSUME LifeInv, SlotsHoldLeases, WorkInv, SoleWorker, StrandInv, [Next]_vars
    PROVE  RetriesAreFresh' /\ WaitingHasWork'
<1> USE DEF LifeInv, QueueInv, StrandInv
<1>1. CASE WorkStays
  <2>1. /\ cur' = cur /\ exts' = exts /\ DOMAIN jobs' = DOMAIN jobs /\ docStatus' = docStatus
        /\ LiveWork \subseteq LiveWork'
        /\ intake'[cur] \in Waiting => intake[cur] \in Waiting
    BY Zenon, <1>1 DEF WorkStays, SameRows
  <2>2. /\ LiveWork' = LiveWork /\ Len(jobs') = Len(jobs) /\ JobIds' = JobIds /\ JobsMove
        /\ \A k : KeyKnown(k)' <=> KeyKnown(k)
    BY ZenonT(30), <2>1, WorkShrinks, SameDomain, SameKeys, NextMoves DEF SoundMove
  <2>3. /\ OfSource("rejected", cur)' = OfSource("rejected", cur)
        /\ OfSource("approved", cur)' = OfSource("approved", cur)
    BY SMTT(30), <2>1 DEF OfSource, ExtractionIds
  <2>4. Latest(OfSource("rejected", cur))' = Latest(OfSource("rejected", cur))
    BY SMTT(30), <2>3 DEF Latest
  <2>5. Active(cur)' \subseteq Active(cur) /\ Dead(cur) \subseteq Dead(cur)'
    BY Zenon, <2>1, <2>2 DEF Active, Dead, JobsMove, RowMove
  <2>6. RetriesAreFresh'
    BY SMTT(30), <2>1, <2>2, <2>3, <2>4, <2>5 DEF RetriesAreFresh
  <2>7. WaitingHasWork'
    BY Zenon, <2>1, <2>2 DEF WaitingHasWork, Waiting
  <2> QED
    BY Zenon, <2>6, <2>7
<1>2. ASSUME NEW w \in Workers, FinalFailure(w) PROVE RetriesAreFresh' /\ WaitingHasWork'
  <2> DEFINE j == slot[w].job
  <2>1. /\ cur' = cur /\ DOMAIN jobs' = DOMAIN jobs /\ docStatus' = "failed"
        /\ intake'[cur] \notin Waiting /\ j \in LiveWork /\ j \in Dead(cur)'
    BY Zenon, <1>2 DEF FinalFailure, SameRows
  <2> HIDE DEF j
  <2>2. /\ Len(jobs') = Len(jobs) /\ JobIds' = JobIds /\ JobsMove
    BY ZenonT(30), <2>1, WorkShrinks, SameDomain, NextMoves DEF SoundMove
  <2>3. j = Len(jobs)
    BY Zenon, <2>1 DEF WorkInv, LiveWorkIsLast
  <2>4. \A i \in Active(cur) : i = j
    <3> SUFFICES ASSUME NEW i \in Active(cur), i # j PROVE FALSE
      BY SMTT(30)
    <3>1. CASE jobs[i].status = "queued"
      BY SMTT(30), <2>3, <3>1 DEF SlotsHoldLeases, Active, LiveWork, WorkInv, LiveWorkIsLast
    <3>2. CASE jobs[i].status = "running"
      BY SMTT(30), <3>2, SoleSlot DEF Active, j
    <3> QED
      BY SMTT(30), <3>1, <3>2 DEF Active
  <2>5. Active(cur)' = {}
    <3> SUFFICES ASSUME NEW i \in Active(cur)' PROVE FALSE
      BY Zenon
    <3>1. i \in JobIds /\ jobs'[i].src = cur /\ jobs'[i].status \in {"queued", "running"}
      BY Zenon, <2>1, <2>2 DEF Active
    <3>2. RowMove(jobs[i], jobs'[i])
      BY ZenonT(30), <2>2, <3>1 DEF JobsMove
    <3>3. jobs[i].src = cur /\ jobs[i].status \in {"queued", "running"}
      BY SMTT(30), <3>1, <3>2 DEF RowMove
    <3>4. i = j
      BY Zenon, <2>4, <3>1, <3>3 DEF Active
    <3>5. jobs'[i].status = "dead"
      BY Zenon, <2>1, <3>4 DEF Dead
    <3> QED
      BY SMTT(30), <3>1, <3>5
  <2> QED
    BY ZenonT(30), <2>1, <2>2, <2>3, <2>5 DEF RetriesAreFresh, WaitingHasWork, Waiting
<1>3. ASSUME NEW w \in Workers, Commit(w), jobs[slot[w].job].src = cur
      PROVE  RetriesAreFresh' /\ WaitingHasWork'
  <2>1. cur' = cur /\ docStatus' = "in_review"
    BY Zenon, <1>3, CommitRows
  <2>2. intake'[cur'] = "processed"
    BY ZenonT(30), <1>3, <2>1 DEF Commit, RowsTyped, DocTyped
  <2> QED
    BY Zenon, <2>1, <2>2 DEF RetriesAreFresh, WaitingHasWork
<1>4. CASE AppendSource
  <2>1. /\ cur' = cur + 1 /\ cur' \in Sources
        /\ Len(jobs) < MaxJobs /\ docStatus' = "needs_reprocess"
        /\ jobs' = Append(jobs, NewJob(cur', <<"source", cur'>>))
    <3>1. /\ cur' = cur + 1 /\ cur < MaxSources
          /\ Len(jobs) < MaxJobs /\ docStatus' = "needs_reprocess"
          /\ jobs' = Append(jobs, NewJob(cur + 1, <<"source", cur + 1>>))
      BY Zenon, <1>4 DEF AppendSource
    <3>2. cur' \in Sources
      BY SMTT(30), <3>1 DEF RowsTyped, DocTyped, Sources
    <3> QED
      BY Zenon, <3>1, <3>2
  <2>2. <<"source", cur'>> \in Keys
    BY SMTT(30), <2>1 DEF Keys, Sources
  <2>3. /\ JobIds' = JobIds \cup {Len(jobs')}
        /\ jobs'[Len(jobs')] = NewJob(cur', <<"source", cur'>>)
    BY SMTT(30), <2>1, <2>2, RowInserted
  <2>4. Len(jobs') \in LiveWork'
    BY SMTT(30), <2>3, NewRow DEF LiveWork, Active
  <2> QED
    BY ZenonT(30), <2>1, <2>4 DEF RetriesAreFresh, WaitingHasWork
<1>5. CASE Reprocess
  <2>1. LiveWork' # {} /\ docStatus' = "needs_reprocess"
    BY SMTT(30), <1>5, RetryLeavesWork DEF Reprocess
  <2> QED
    BY ZenonT(30), <2>1 DEF RetriesAreFresh, WaitingHasWork
<1>6. ASSUME NEW i \in ExtractionIds, Approve(i) \/ Reject(i)
      PROVE  RetriesAreFresh' /\ WaitingHasWork'
  <2>1. cur' = cur /\ jobs' = jobs /\ intake' = intake /\ JobIds' = JobIds
    BY SMTT(30), <1>6 DEF Approve, Reject, JobIds
  <2>2. /\ i \in Pending /\ exts[i].src = cur /\ i = Len(exts) /\ Len(exts) \in Nat
        /\ i \in 1..MaxExtractions
    BY SMTT(30), <1>6, RowsByPosition
       DEF Approve, Reject, PendingIsLast, ReviewInv, RowsTyped, DocTyped, ExtractionIds
  <2>3. LiveWork' = LiveWork /\ \A k : KeyKnown(k)' <=> KeyKnown(k)
    BY Zenon, <2>1 DEF LiveWork, Active, KeyKnown
  <2>4. WaitingHasWork'
    BY SMTT(30), <2>1, <2>3 DEF WaitingHasWork
  <2>5. ~KeyKnown(<<"extraction", i>>)'
    BY Zenon, <2>2, <2>3 DEF KeysAreBound, Pending
  <2>6. CASE Approve(i)
    <3>1. /\ Len(exts') = Len(exts) /\ docStatus' = "verified"
          /\ \A k \in ExtractionIds :
               exts'[k].status = IF k = i THEN "approved"
                                 ELSE IF exts[k].status = "approved" THEN "superseded"
                                 ELSE exts[k].status
      BY SMTT(30), <2>6, ApprovedRows DEF Approve
    <3>2. \A x \in OfSource("approved", cur)' : x = i
      BY Zenon, <3>1 DEF OfSource, ExtractionIds
    <3> QED
      BY ZenonT(30), <2>4, <2>5, <3>1, <3>2 DEF RetriesAreFresh
  <2>7. CASE Reject(i)
    <3>1. /\ Len(exts') = Len(exts) /\ docStatus' = "needs_reprocess"
          /\ \A k \in ExtractionIds :
               /\ exts'[k].src = exts[k].src
               /\ exts'[k].status = IF k = i THEN "rejected" ELSE exts[k].status
      BY ZenonT(30), <2>7, RejectedRows DEF Reject
    <3>2. i \in OfSource("rejected", cur)'
      BY Zenon, <2>1, <2>2, <3>1 DEF OfSource, ExtractionIds
    <3>3. \A x \in OfSource("rejected", cur)' : x \in Nat /\ x <= i
      BY SMTT(30), <2>2, <3>1 DEF OfSource, ExtractionIds
    <3>4. ASSUME NEW x \in Latest(OfSource("rejected", cur))' PROVE x = i
      <4>1. x \in OfSource("rejected", cur)' /\ x >= i
        BY Zenon, <3>2, <3>4 DEF Latest
      <4>2. x \in Nat /\ x <= i /\ i \in Nat
        BY Zenon, <2>2, <3>3, <4>1
      <4> QED
        BY SMTT(30), <4>1, <4>2
    <3>5. /\ OfSource("rejected", cur)' # {}
          /\ \A x \in Latest(OfSource("rejected", cur))' : ~KeyKnown(<<"extraction", x>>)'
      BY Zenon, <2>5, <3>2, <3>4
    <3>6. docStatus' # "verified" /\ docStatus' # "failed"
      BY Zenon, <3>1
    <3> QED
      BY Zenon, <2>4, <3>5, <3>6 DEF RetriesAreFresh
  <2> QED
    BY SMTT(30), <1>6, <2>6, <2>7
<1> QED
  BY ZenonT(30), <1>1, <1>2, <1>3, <1>4, <1>5, <1>6, SoleMoves

(* Every step of the one-worker pipeline preserves StrandInv. *)
LEMMA StrandStep ==
    ASSUME SoleWorker, LifeInv, LeaseInv, StrandInv, [Next]_vars
    PROVE  StrandInv'
<1>1. SlotsHoldLeases /\ WorkInv
  BY Zenon DEF SoleWorker, StrandInv, FaultsAreKnown, LeasesKept, LeaseInv
<1>2. FaultsAreKnown'
  <2>1. ASSUME NEW w \in Workers, Poll(w) \/ Execute(w) \/ Renew(w) PROVE met' = met
    BY Zenon, <2>1 DEF Poll, Claim, ClaimNothing, Execute, MarkClaimed, Begin, Commit, Raise, MarkDone,
                RecordFailure, Renew
  <2>2. ASSUME NEW w \in Workers, Lapse(w) \/ MarkDoneFault(w) \/ Crash(w)
        PROVE  \E kind \in FaultKinds : met' = met \cup {kind}
    BY ZenonT(30), <2>2 DEF Lapse, MarkDoneFault, Crash, Spend
  <2>3. ASSUME NEW v \in Sources, IndexStep(v)
        PROVE  met' = met \/ \E kind \in FaultKinds : met' = met \cup {kind}
    BY SMTT(30), <2>3 DEF IndexStep, IndexCommit, IndexRaise, Spend
  <2>4. CASE \/ (\E j \in JobIds : LeaseRunsOut(j)) \/ Review \/ AppendSource \/ Reprocess
             \/ RetryDerivatives \/ UNCHANGED vars
    BY SMTT(30), <2>4 DEF LeaseRunsOut, Review, Approve, Reject, AppendSource, Reprocess,
                RetryDerivatives, vars, StrandInv, FaultsAreKnown
  <2> QED
    BY Zenon, <2>1, <2>2, <2>3, <2>4 DEF Next, StrandInv, FaultsAreKnown
<1> QED
  BY SMTT(30), <1>1, <1>2, KeysStep, HeldStep, FreshStep DEF StrandInv

(* The upload that begins the document satisfies StrandInv: its source has a queued job. *)
LEMMA StrandInit == Init => StrandInv
<1> SUFFICES ASSUME Init PROVE StrandInv
  BY Zenon
<1> USE DEF Init
<1>1. Len(jobs) = 1 /\ jobs[1] = NewJob(1, <<"source", 1>>) /\ Len(exts) = 0
  BY Zenon
<1>2. JobIds = {1} /\ ExtractionIds = {}
  BY SMTT(30), <1>1 DEF JobIds, ExtractionIds
<1>3. /\ jobs[1].key = <<"source", 1>> /\ jobs[1].status = "queued" /\ jobs[1].src = 1
      /\ ~jobs[1].completed
  BY SMTT(30), <1>1, NewRow
<1>4. KeysAreBound
  BY SMTT(30), <1>2, <1>3 DEF KeysAreBound, KeyKnown
<1>5. 1 \in LiveWork
  BY Zenon, <1>2, <1>3 DEF LiveWork, Active
<1> QED
  BY SMTT(30), <1>2, <1>3, <1>4, <1>5 DEF StrandInv, FaultsAreKnown, RunningIsHeld, RetriesAreFresh,
                                WaitingHasWork

(* NoStrandedSource, for one worker process that is never killed and misses no
   heartbeat: a current source that waits has a job that will process it.  With
   two workers or a kill it does not hold: a row whose result is recorded but
   that is not settled yet still answers to its key. *)
THEOREM NoSourceIsStranded ==
    ASSUME SoleWorker
    PROVE  Spec => []NoStrandedSource
<1>1. LifeInv /\ LeaseInv /\ StrandInv /\ [Next]_vars => StrandInv'
  BY Zenon, StrandStep
<1>2. StrandInv => NoStrandedSource
  BY Zenon DEF StrandInv, WaitingHasWork, NoStrandedSource, LiveWork
<1> QED
  BY <1>1, <1>2, StrandInit, LifecycleInvariant, LeaseInvariant, PTL DEF Spec
=============================================================================
