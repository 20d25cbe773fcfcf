--------------------------- MODULE JobQueueProofs ---------------------------
(***************************************************************************)
(* Safety of the job queue for any number of rows, processes and slots,    *)
(* any retry budget and any lease length.                                  *)
(***************************************************************************)
EXTENDS JobQueue, TLAPS

USE JobAssumption, EvidenceAssumption, TaskAssumption, NumberAssumption

(* The capped backoff of _retry_delay stays within its cap. *)
LEMMA RetryDelayBounded == \A n : RetryDelay(n) \in 0..MaxDelay
  BY SMTT(30) DEF RetryDelay

(* The part of the invariant that speaks about rows alone. *)
RowsInv ==
    /\ RowsTypeOK
    /\ AttemptBudget
    /\ LeaseMatchesStatus
    /\ DoneHasResult
    /\ AbsentRowsAreFresh

(* The part that speaks about task slots; it reads completed. *)
TasksInv == TasksTypeOK /\ SlotsAreSound

(* The invariant is the conjunction of its three parts. *)
LEMMA IInvParts == IInv <=> RowsInv /\ TasksInv /\ MachinesTypeOK
  BY Zenon DEF IInv, TypeOK, RowsInv, TasksInv

(* Steps that leave the rows alone keep the row part. *)
LEMMA RowsFrame == RowsInv /\ UNCHANGED rows => RowsInv'
  BY Zenon DEF RowsInv, RowsTypeOK, AttemptBudget, LeaseMatchesStatus, DoneHasResult,
         AbsentRowsAreFresh, rows

(* Steps that leave the slots and the results alone keep the slot part. *)
LEMMA TasksFrame == TasksInv /\ UNCHANGED <<tasks, completed>> => TasksInv'
  BY SMTT(30) DEF TasksInv, TasksTypeOK, SlotsAreSound, tasks

(* Steps that leave the processes alone keep their types. *)
LEMMA MachinesFrame ==
    MachinesTypeOK /\ UNCHANGED <<machines, faultsLeft>> => MachinesTypeOK'
  BY Zenon DEF MachinesTypeOK, machines

(* A slot whose coroutine ends keeps the slot part. *)
LEMMA ReleaseTasksInv ==
    ASSUME TasksInv, NEW t \in Tasks, Release(t), UNCHANGED completed
    PROVE  TasksInv'
  BY Zenon DEF TasksInv, TasksTypeOK, SlotsAreSound, Steps, Release, Goto

(* A busy slot that moves on to a step other than the two that call mark_done,
   switching its heartbeat or not, keeps the slot part. *)
LEMMA GotoTasksInv ==
    ASSUME TasksInv, NEW t \in Tasks, pc[t] # "idle",
           NEW step \in {"marking", "handling", "failing"}, Goto(t, step),
           NEW b \in BOOLEAN,
           beating' = beating \/ beating' = [beating EXCEPT ![t] = b],
           UNCHANGED <<taskJob, lapsed, completed>>
    PROVE  TasksInv'
<1>1. TasksTypeOK'
  BY Zenon DEF TasksInv, TasksTypeOK, Goto, Steps
<1>2. ASSUME NEW u \in Tasks
      PROVE  /\ pc'[u] # "idle" => taskJob'[u] \in Jobs
             /\ pc'[u] \in {"settling", "finishing"} => completed'[taskJob'[u]]
             /\ beating'[u] => pc'[u] # "idle"
  <2>1. CASE u = t
    BY Zenon, <2>1 DEF TasksInv, TasksTypeOK, SlotsAreSound, Goto
  <2>2. CASE u # t
    BY Zenon, <2>2 DEF TasksInv, TasksTypeOK, SlotsAreSound, Goto
  <2> QED BY Zenon, <2>1, <2>2
<1> QED BY Zenon, <1>1, <1>2 DEF TasksInv, SlotsAreSound

(* mark_done keeps the row part, provided a result was recorded. *)
LEMMA MarkDoneRowsInv ==
    ASSUME RowsInv, NEW t \in Tasks, taskJob[t] \in Jobs, completed[taskJob[t]],
           MarkDone(t)
    PROVE  RowsInv' /\ UNCHANGED completed
<1> DEFINE j == taskJob[t]
<1>1. RowsTypeOK'
  BY SMTT(30) DEF MarkDone, RowsInv, RowsTypeOK, Statuses
<1>2. AttemptBudget' /\ DoneHasResult' /\ AbsentRowsAreFresh'
  BY Zenon DEF MarkDone, RowsInv, RowsTypeOK, AttemptBudget, DoneHasResult, AbsentRowsAreFresh
<1>3. LeaseMatchesStatus'
  BY SMTT(30) DEF MarkDone, RowsInv, RowsTypeOK, LeaseMatchesStatus
<1> QED BY Zenon, <1>1, <1>2, <1>3 DEF RowsInv, MarkDone

(* retry_or_bury keeps the row part. *)
LEMMA RetryOrBuryRowsInv ==
    ASSUME RowsInv, NEW t \in Tasks, taskJob[t] \in Jobs, RetryOrBury(t)
    PROVE  RowsInv' /\ UNCHANGED completed
<1> DEFINE j == taskJob[t]
<1>1. RowsTypeOK'
  BY SMTT(30), RetryDelayBounded DEF RetryOrBury, RowsInv, RowsTypeOK, Statuses
<1>2. AttemptBudget' /\ DoneHasResult' /\ AbsentRowsAreFresh'
  BY SMTT(30) DEF RetryOrBury, RowsInv, RowsTypeOK, AttemptBudget, DoneHasResult, AbsentRowsAreFresh
<1>3. LeaseMatchesStatus'
  BY SMTT(30) DEF RetryOrBury, RowsInv, RowsTypeOK, LeaseMatchesStatus
<1> QED BY Zenon, <1>1, <1>2, <1>3 DEF RowsInv, RetryOrBury

(* The empty queue with idle processes satisfies the invariant. *)
LEMMA InitIInv == Init => IInv
  BY SMTT(30) DEF Init, IInv, TypeOK, RowsTypeOK, TasksTypeOK, MachinesTypeOK, AttemptBudget,
         LeaseMatchesStatus, DoneHasResult, AbsentRowsAreFresh, SlotsAreSound,
         Statuses, Steps

(* claim_next keeps the invariant: burial and lease are one transaction. *)
LEMMA PollIInv ==
    ASSUME IInv, NEW t \in Tasks, Poll(t)
    PROVE  IInv'
<1> DEFINE w == WorkerOf[t]
<1> USE DEF IInv, TypeOK
<1>0. w \in Workers
  BY SMTT(30)
<1>1. ASSUME NEW j \in Jobs, Claim(t, j) PROVE IInv'
  <2>1. RowsTypeOK'
    BY SMTT(30), <1>0, <1>1 DEF Claim, BuriedStatus, BuriedAttempts, Eligible, Exhausted,
                      AttemptBudget, RowsTypeOK, Statuses
  <2>2. AttemptBudget'
    BY SMTT(30), <1>1 DEF Claim, BuriedStatus, BuriedAttempts, Eligible, Exhausted,
                AttemptBudget, RowsTypeOK
  <2>3. LeaseMatchesStatus'
    BY SMTT(30), <1>0, <1>1 DEF Claim, BuriedStatus, Eligible, Exhausted, LeaseMatchesStatus,
                      RowsTypeOK
  <2>4. DoneHasResult' /\ AbsentRowsAreFresh'
    BY SMTT(30), <1>1 DEF Claim, BuriedStatus, BuriedAttempts, Exhausted, DoneHasResult,
                AbsentRowsAreFresh, RowsTypeOK
  <2>5. TasksTypeOK' /\ SlotsAreSound'
    BY Zenon, <1>1 DEF Claim, SlotsAreSound, TasksTypeOK, Steps
  <2>6. MachinesTypeOK'
    BY Zenon, <1>1, MachinesFrame DEF Claim
  <2> QED BY Zenon, <2>1, <2>2, <2>3, <2>4, <2>5, <2>6
<1>2. ASSUME ClaimNothing(t) PROVE IInv'
  <2>1. RowsTypeOK' /\ AttemptBudget'
    BY SMTT(30), <1>2 DEF ClaimNothing, BuriedStatus, BuriedAttempts, Exhausted,
                AttemptBudget, RowsTypeOK, Statuses
  <2>2. LeaseMatchesStatus' /\ DoneHasResult' /\ AbsentRowsAreFresh'
    BY SMTT(30), <1>2 DEF ClaimNothing, BuriedStatus, BuriedAttempts, Exhausted,
                LeaseMatchesStatus, DoneHasResult, AbsentRowsAreFresh, RowsTypeOK
  <2>3. TasksTypeOK' /\ SlotsAreSound'
    BY Zenon, <1>2, TasksFrame DEF ClaimNothing, TasksInv
  <2>4. MachinesTypeOK'
    BY Zenon, <1>2, MachinesFrame DEF ClaimNothing
  <2> QED BY Zenon, <2>1, <2>2, <2>3, <2>4
<1> QED BY Zenon, <1>1, <1>2 DEF Poll

(* Every step of _execute_claimed keeps the invariant. *)
LEMMA ExecuteIInv ==
    ASSUME IInv, NEW t \in Tasks, Execute(t)
    PROVE  IInv'
<1>0. RowsInv /\ TasksInv /\ MachinesTypeOK
  BY Zenon, IInvParts
<1>m. MachinesTypeOK'
  BY Zenon, <1>0, MachinesFrame
     DEF Execute, Settle, StartHeartbeat, UnknownHandler, MarkClaimedSourceProcessing,
         HandlerCommit, HandlerRaise, Finish, RecordFailure
<1>1. CASE Settle(t)
  <2>1. taskJob[t] \in Jobs /\ completed[taskJob[t]]
    BY Zenon, <1>0, <1>1 DEF Settle, TasksInv, SlotsAreSound
  <2>2. RowsInv' /\ UNCHANGED completed
    BY Zenon, <1>0, <1>1, <2>1, MarkDoneRowsInv, RowsFrame DEF Settle, rows
  <2>3. TasksInv'
    BY Zenon, <1>0, <1>1, <2>2, ReleaseTasksInv DEF Settle
  <2> QED BY <1>m, <2>2, <2>3, IInvParts, PTL
<1>2. CASE StartHeartbeat(t) \/ UnknownHandler(t) \/ MarkClaimedSourceProcessing(t)
           \/ HandlerRaise(t)
  <2>1. RowsInv'
    BY Zenon, <1>0, <1>2, RowsFrame
       DEF StartHeartbeat, UnknownHandler, MarkClaimedSourceProcessing, HandlerRaise
  <2>2. TasksInv'
    BY Zenon, <1>0, <1>2, GotoTasksInv
       DEF StartHeartbeat, UnknownHandler, MarkClaimedSourceProcessing, HandlerRaise, rows
  <2> QED BY <1>m, <2>1, <2>2, IInvParts, PTL
<1>3. CASE HandlerCommit(t)
  <2>1. RowsInv'
    BY Zenon, <1>0, <1>3 DEF HandlerCommit, RowsInv, RowsTypeOK, AttemptBudget,
                      LeaseMatchesStatus, DoneHasResult, AbsentRowsAreFresh
  <2>2. TasksInv'
    BY Zenon, <1>0, <1>3 DEF HandlerCommit, Goto, TasksInv, TasksTypeOK, SlotsAreSound, Steps,
                      RowsInv, RowsTypeOK
  <2> QED BY <1>m, <2>1, <2>2, IInvParts, PTL
<1>4. CASE Finish(t)
  <2>1. taskJob[t] \in Jobs /\ completed[taskJob[t]]
    BY Zenon, <1>0, <1>4 DEF Finish, TasksInv, SlotsAreSound
  <2>2. CASE MarkDone(t) /\ Release(t)
    <3>1. RowsInv' /\ UNCHANGED completed
      BY Zenon, <1>0, <2>1, <2>2, MarkDoneRowsInv
    <3>2. TasksInv'
      BY Zenon, <1>0, <2>2, <3>1, ReleaseTasksInv
    <3> QED BY <1>m, <3>1, <3>2, IInvParts, PTL
  <2>3. CASE Goto(t, "failing") /\ UNCHANGED <<rows, taskJob, beating, lapsed>>
    <3>1. RowsInv'
      BY Zenon, <1>0, <2>3, RowsFrame
    <3>2. TasksInv'
      BY Zenon, <1>0, <1>4, <2>3, GotoTasksInv DEF Finish, rows
    <3> QED BY <1>m, <3>1, <3>2, IInvParts, PTL
  <2> QED BY Zenon, <1>4, <2>2, <2>3 DEF Finish
<1>5. CASE RecordFailure(t)
  <2>1. taskJob[t] \in Jobs
    BY Zenon, <1>0, <1>5 DEF RecordFailure, TasksInv, SlotsAreSound
  <2>2. RowsInv' /\ UNCHANGED completed
    BY Zenon, <1>0, <1>5, <2>1, RetryOrBuryRowsInv, RowsFrame DEF RecordFailure, rows
  <2>3. TasksInv'
    BY Zenon, <1>0, <1>5, <2>2, ReleaseTasksInv DEF RecordFailure
  <2> QED BY <1>m, <2>2, <2>3, IInvParts, PTL
<1> QED BY Zenon, <1>1, <1>2, <1>3, <1>4, <1>5 DEF Execute

(* Crashes, stops, database faults and lost readiness keep the invariant. *)
LEMMA FaultIInv ==
    ASSUME IInv, Fault
    PROVE  IInv'
<1>0. RowsInv /\ TasksInv /\ MachinesTypeOK
  BY Zenon, IInvParts
<1>1. RowsInv'
  <2>1. UNCHANGED rows
    BY Zenon DEF Fault, FinishFault, OutcomeFault, Crash, Stop, ReadinessLost
  <2> QED BY Zenon, <1>0, <2>1, RowsFrame
<1>2. MachinesTypeOK'
  <2>0. faultsLeft > 0 /\ faultsLeft' = faultsLeft - 1
    BY Zenon DEF Fault, FinishFault, OutcomeFault, Crash, Stop, ReadinessLost
  <2>1. faultsLeft' \in 0..MaxFaults
    BY SMTT(30), <1>0, <2>0 DEF MachinesTypeOK
  <2>2. ASSUME NEW t \in Tasks, FinishFault(t) \/ OutcomeFault(t) PROVE MachinesTypeOK'
    BY Zenon, <1>0, <2>1, <2>2 DEF FinishFault, OutcomeFault, MachinesTypeOK, machines
  <2>3. ASSUME NEW w \in Workers, Crash(w) \/ Stop(w) PROVE MachinesTypeOK'
    BY Zenon, <1>0, <2>1, <2>3 DEF Crash, Stop, MachinesTypeOK
  <2>4. ASSUME NEW w \in Workers, ReadinessLost(w) PROVE MachinesTypeOK'
    BY Zenon, <1>0, <2>1, <2>4 DEF ReadinessLost, MachinesTypeOK
  <2> QED BY Zenon, <2>2, <2>3, <2>4 DEF Fault
<1>3. TasksInv'
  <2>1. ASSUME NEW t \in Tasks, FinishFault(t) PROVE TasksInv'
    BY Zenon, <1>0, <2>1, GotoTasksInv DEF FinishFault, rows
  <2>2. ASSUME NEW t \in Tasks, OutcomeFault(t) PROVE TasksInv'
    BY Zenon, <1>0, <2>2, ReleaseTasksInv DEF OutcomeFault, rows
  <2>3. ASSUME NEW w \in Workers, Crash(w) PROVE TasksInv'
    BY Zenon, <1>0, <2>3 DEF Crash, TasksInv, TasksTypeOK, SlotsAreSound, Steps, rows
  <2>4. ASSUME NEW w \in Workers, Stop(w) \/ ReadinessLost(w) PROVE TasksInv'
    BY Zenon, <1>0, <2>4, TasksFrame DEF Stop, ReadinessLost, rows
  <2> QED BY Zenon, <2>1, <2>2, <2>3, <2>4 DEF Fault
<1> QED BY <1>1, <1>2, <1>3, IInvParts, PTL

(* No step leaves the invariant. *)
LEMMA NextIInv == IInv /\ [Next]_vars => IInv'
<1> SUFFICES ASSUME IInv, [Next]_vars PROVE IInv'
  BY SMTT(30)
<1>0. RowsInv /\ TasksInv /\ MachinesTypeOK
  BY Zenon, IInvParts
<1>1. ASSUME NEW j \in Jobs, Enqueue(j) PROVE IInv'
  <2>1. RowsInv'
    <3>1. RowsTypeOK'
      BY Zenon, <1>0, <1>1 DEF Enqueue, RowsInv, RowsTypeOK, Statuses
    <3>2. AttemptBudget' /\ DoneHasResult' /\ AbsentRowsAreFresh'
      BY SMTT(30), <1>0, <1>1 DEF Enqueue, RowsInv, RowsTypeOK, AttemptBudget, DoneHasResult,
                        AbsentRowsAreFresh
    <3>3. LeaseMatchesStatus'
      BY Zenon, <1>0, <1>1 DEF Enqueue, RowsInv, RowsTypeOK, LeaseMatchesStatus
    <3> QED BY Zenon, <3>1, <3>2, <3>3 DEF RowsInv
  <2>2. TasksInv' /\ MachinesTypeOK'
    BY Zenon, <1>0, <1>1, TasksFrame, MachinesFrame DEF Enqueue
  <2> QED BY <2>1, <2>2, IInvParts, PTL
<1>2. ASSUME NEW t \in Tasks, Poll(t) PROVE IInv'
  BY Zenon, <1>2, PollIInv
<1>3. ASSUME NEW t \in Tasks, Execute(t) PROVE IInv'
  BY Zenon, <1>3, ExecuteIInv
<1>4. ASSUME NEW t \in Tasks, Heartbeat(t) PROVE IInv'
  <2>0. taskJob[t] \in Jobs
    BY Zenon, <1>0, <1>4 DEF Heartbeat, TasksInv, SlotsAreSound
  <2>1. RowsInv'
    BY SMTT(30), <1>0, <1>4, <2>0 DEF Heartbeat, RequireRunningLease, RowsInv, RowsTypeOK,
       AttemptBudget, LeaseMatchesStatus, DoneHasResult, AbsentRowsAreFresh
  <2>2. TasksInv'
    BY Zenon, <1>0, <1>4 DEF Heartbeat, TasksInv, TasksTypeOK, SlotsAreSound
  <2>3. MachinesTypeOK'
    BY Zenon, <1>0, <1>4, MachinesFrame DEF Heartbeat
  <2> QED BY <2>1, <2>2, <2>3, IInvParts, PTL
<1>5. ASSUME NEW w \in Workers, Recover(w) PROVE IInv'
  <2>1. UNCHANGED rows /\ UNCHANGED tasks
    BY Zenon, <1>5 DEF Recover, Exit, Start, ModelsUp, SandboxUp
  <2>2. MachinesTypeOK'
    BY Zenon, <1>0, <1>5 DEF Recover, Exit, Start, ModelsUp, SandboxUp, MachinesTypeOK
  <2>3. RowsInv' /\ TasksInv'
    BY Zenon, <1>0, <2>1, RowsFrame, TasksFrame DEF rows
  <2> QED BY <2>2, <2>3, IInvParts, PTL
<1>6. CASE Fault
  BY Zenon, <1>6, FaultIInv
<1>7. CASE Tick
  <2>1. RowsInv'
    BY SMTT(30), <1>0, <1>7 DEF Tick, Down, RowsInv, RowsTypeOK, AttemptBudget,
                      LeaseMatchesStatus, DoneHasResult, AbsentRowsAreFresh
  <2>2. TasksInv'
    BY Zenon, <1>0, <1>7 DEF Tick, TasksInv, TasksTypeOK, SlotsAreSound
  <2>3. MachinesTypeOK'
    BY Zenon, <1>0, <1>7, MachinesFrame DEF Tick
  <2> QED BY <2>1, <2>2, <2>3, IInvParts, PTL
<1>8. CASE UNCHANGED vars
  <2>1. RowsInv' /\ TasksInv' /\ MachinesTypeOK'
    BY Zenon, <1>0, <1>8, RowsFrame, TasksFrame, MachinesFrame DEF vars, rows
  <2> QED BY <2>1, IInvParts, PTL
<1> QED BY Zenon, <1>1, <1>2, <1>3, <1>4, <1>5, <1>6, <1>7, <1>8 DEF Next

(* The inductive invariant holds in every reachable state. *)
THEOREM QueueInvariant == Spec => []IInv
  BY InitIInv, NextIInv, PTL DEF Spec

(* A done row has its result: mark_done never runs ahead of a committed handler
   transaction, whatever attempts overlap and whichever process crashes. *)
THEOREM DoneRowsHaveResults == Spec => []DoneHasResult
<1>1. IInv => DoneHasResult
  BY Zenon DEF IInv
<1> QED BY <1>1, QueueInvariant, PTL

(* The retry budget of job_max_attempts is never overdrawn. *)
THEOREM AttemptsStayInBudget == Spec => []AttemptBudget
<1>1. IInv => AttemptBudget
  BY Zenon DEF IInv
<1> QED BY <1>1, QueueInvariant, PTL

-----------------------------------------------------------------------------
(* A step that neither moves a row nor takes back a result obeys the row
   contract. *)
LEMMA QuietStepObeysContract ==
    ASSUME UNCHANGED <<status, attempts, completed>>
    PROVE  Contract!Next
  BY Zenon DEF Contract!Next, Contract!RowStep, Contract!Keeps, Contract!Becomes,
         Contract!Result

(* Burying expired rows and leasing one of them obeys the row contract. *)
LEMMA PollObeysContract ==
    ASSUME IInv, NEW t \in Tasks, Poll(t)
    PROVE  Contract!Next
<1> DEFINE w == WorkerOf[t]
<1> USE DEF IInv, TypeOK, RowsTypeOK, AttemptBudget
<1>1. ASSUME NEW i \in Jobs, NEW j \in Jobs, Claim(t, j) PROVE Contract!RowStep(i)
  <2>1. CASE i = j
    BY SMTT(30), <1>1, <2>1 DEF Claim, Eligible, BuriedStatus, BuriedAttempts, Exhausted,
       Contract!RowStep, Contract!Attempt, Contract!StartOver, Contract!Becomes,
       Contract!Result
  <2>2. CASE i # j
    BY SMTT(30), <1>1, <2>2 DEF Claim, BuriedStatus, BuriedAttempts, Exhausted,
       Contract!RowStep, Contract!Keeps, Contract!GiveUp, Contract!Finish,
       Contract!StartOver, Contract!Becomes, Contract!Result
  <2> QED BY Zenon, <2>1, <2>2
<1>2. ASSUME NEW i \in Jobs, ClaimNothing(t) PROVE Contract!RowStep(i)
  BY SMTT(30), <1>2 DEF ClaimNothing, BuriedStatus, BuriedAttempts, Exhausted,
     Contract!RowStep, Contract!Keeps, Contract!GiveUp, Contract!Finish,
     Contract!StartOver, Contract!Becomes, Contract!Result
<1> QED BY Zenon, <1>1, <1>2 DEF Poll, Contract!Next

(* So does every step of _execute_claimed. *)
LEMMA ExecuteObeysContract ==
    ASSUME IInv, NEW t \in Tasks, Execute(t)
    PROVE  Contract!Next
<1> USE DEF IInv, TypeOK, RowsTypeOK
<1>1. ASSUME taskJob[t] \in Jobs, completed[taskJob[t]], MarkDone(t) PROVE Contract!Next
  BY Zenon, <1>1 DEF MarkDone, RequireRunningLease, Contract!Next, Contract!RowStep,
     Contract!Keeps, Contract!Finish, Contract!Becomes, Contract!Result
<1>2. ASSUME taskJob[t] \in Jobs, RetryOrBury(t) PROVE Contract!Next
  BY SMTT(30), <1>2 DEF RetryOrBury, RequireRunningLease, Contract!Next, Contract!RowStep,
     Contract!Keeps, Contract!Retry, Contract!GiveUp, Contract!Becomes, Contract!Result
<1>3. CASE Settle(t)
  BY Zenon, <1>1, <1>3, QuietStepObeysContract DEF Settle, SlotsAreSound, rows
<1>4. CASE StartHeartbeat(t) \/ UnknownHandler(t) \/ MarkClaimedSourceProcessing(t)
           \/ HandlerRaise(t)
  BY Zenon, <1>4, QuietStepObeysContract
     DEF StartHeartbeat, UnknownHandler, MarkClaimedSourceProcessing, HandlerRaise, rows
<1>5. CASE HandlerCommit(t)
  BY Zenon, <1>5 DEF HandlerCommit, Contract!Next, Contract!RowStep, Contract!Keeps,
     Contract!Becomes, Contract!Result
<1>6. CASE Finish(t)
  BY Zenon, <1>1, <1>6, QuietStepObeysContract DEF Finish, SlotsAreSound, rows
<1>7. CASE RecordFailure(t)
  BY Zenon, <1>2, <1>7, QuietStepObeysContract DEF RecordFailure, SlotsAreSound, rows
<1> QED BY Zenon, <1>3, <1>4, <1>5, <1>6, <1>7 DEF Execute

(* Every step of the queue is a step of the row contract. *)
LEMMA NextObeysContract == IInv /\ [Next]_vars => Contract!Next
<1> SUFFICES ASSUME IInv, [Next]_vars PROVE Contract!Next
  BY SMTT(30)
<1>1. ASSUME NEW j \in Jobs, Enqueue(j) PROVE Contract!Next
  BY Zenon, <1>1 DEF IInv, TypeOK, RowsTypeOK, AbsentRowsAreFresh, Enqueue, Contract!Next,
     Contract!RowStep, Contract!Keeps, Contract!Insert, Contract!Becomes, Contract!Result
<1>2. ASSUME NEW t \in Tasks, Poll(t) PROVE Contract!Next
  BY Zenon, <1>2, PollObeysContract
<1>3. ASSUME NEW t \in Tasks, Execute(t) PROVE Contract!Next
  BY Zenon, <1>3, ExecuteObeysContract
<1>4. ASSUME NEW t \in Tasks, Heartbeat(t) PROVE Contract!Next
  BY Zenon, <1>4, QuietStepObeysContract DEF Heartbeat
<1>5. ASSUME NEW w \in Workers, Recover(w) PROVE Contract!Next
  BY Zenon, <1>5, QuietStepObeysContract DEF Recover, Exit, Start, ModelsUp, SandboxUp, rows
<1>6. CASE Fault
  BY Zenon, <1>6, QuietStepObeysContract
     DEF Fault, FinishFault, OutcomeFault, Crash, Stop, ReadinessLost, rows
<1>7. CASE Tick
  BY Zenon, <1>7, QuietStepObeysContract DEF Tick
<1>8. CASE UNCHANGED vars
  BY Zenon, <1>8, QuietStepObeysContract DEF vars, rows
<1> QED BY Zenon, <1>1, <1>2, <1>3, <1>4, <1>5, <1>6, <1>7, <1>8 DEF Next

(* The queue with its leases, heartbeats, retries, crashes and stale attempts
   implements the contract of JobContract. *)
THEOREM QueueImplementsContract == Spec => ImplementsContract
<1>1. Init => Contract!Init
  BY Zenon DEF Init, Contract!Init
<1>2. IInv /\ [Next]_vars => [Contract!Next]_Contract!contractVars
  BY Zenon, NextObeysContract
<1> QED BY <1>1, <1>2, QueueInvariant, PTL DEF Spec, ImplementsContract, Contract!Spec

(* Done and dead rows never change status again: no stale attempt, late
   heartbeat or repeated enqueue revives them. *)
THEOREM TerminalRowsAreFinal == Spec => TerminalIsFinal
<1>1. IInv /\ [Next]_vars =>
        [\A j \in Jobs : status[j] \in Terminal => status'[j] = status[j]]_vars
  BY Zenon, NextObeysContract DEF Terminal, Contract!Next, Contract!RowStep, Contract!Keeps,
     Contract!Insert, Contract!Attempt, Contract!Retry, Contract!GiveUp, Contract!Finish,
     Contract!StartOver, Contract!Becomes
<1> QED BY <1>1, QueueInvariant, PTL DEF Spec, TerminalIsFinal

(* While a lease has time left, only its holder's process moves the row. *)
THEOREM LeasesAreRespected == Spec => OnlyOwnerReleases
<1> DEFINE Body ==
      \A j \in Jobs :
         /\ status[j] = "running"
         /\ leaseLeft[j] > 0
         /\ status'[j] # "running" \/ leaseOwner'[j] # leaseOwner[j]
         => \E t \in Tasks : /\ WorkerOf[t] = leaseOwner[j]
                             /\ taskJob[t] = j
                             /\ pc[t] # "idle"
                             /\ pc'[t] = "idle"
<1>1. IInv /\ [Next]_vars => [Body]_vars
  <2> SUFFICES ASSUME IInv, Next, NEW j \in Jobs, status[j] = "running", leaseLeft[j] > 0,
                      status'[j] # "running" \/ leaseOwner'[j] # leaseOwner[j]
               PROVE  \E t \in Tasks : /\ WorkerOf[t] = leaseOwner[j]
                                       /\ taskJob[t] = j
                                       /\ pc[t] # "idle"
                                       /\ pc'[t] = "idle"
    BY SMTT(30)
  <2> USE DEF IInv, TypeOK, RowsTypeOK, TasksTypeOK
  <2>1. ~(UNCHANGED <<status, leaseOwner>>)
    BY SMTT(30)
  <2>2. ASSUME NEW i \in Jobs, Enqueue(i) PROVE FALSE
    BY Zenon, <2>2 DEF Enqueue
  <2>3. ASSUME NEW t \in Tasks, Poll(t) PROVE FALSE
    <3>1. \A i \in Jobs : ~Claim(t, i)
      BY SMTT(30) DEF Claim, Eligible, BuriedStatus, Exhausted
    <3>2. ~ClaimNothing(t)
      BY SMTT(30) DEF ClaimNothing, BuriedStatus, Exhausted
    <3> QED BY Zenon, <2>3, <3>1, <3>2 DEF Poll
  <2>4. ASSUME NEW t \in Tasks, Execute(t)
        PROVE  RequireRunningLease(t) /\ taskJob[t] = j /\ pc[t] # "idle" /\ pc'[t] = "idle"
    <3>1. Settle(t) \/ Finish(t) \/ RecordFailure(t)
      BY Zenon, <2>1, <2>4 DEF Execute, StartHeartbeat, UnknownHandler,
         MarkClaimedSourceProcessing, HandlerCommit, HandlerRaise, rows
    <3>2. /\ MarkDone(t) \/ RetryOrBury(t)
          /\ Release(t)
          /\ pc[t] # "idle"
      BY Zenon, <2>1, <3>1 DEF Settle, Finish, RecordFailure, rows
    <3>3. taskJob[t] \in Jobs
      BY Zenon, <3>2 DEF SlotsAreSound
    <3>4. RequireRunningLease(t) /\ taskJob[t] = j
      BY Zenon, <3>2, <3>3 DEF MarkDone, RetryOrBury
    <3> QED BY Zenon, <3>2, <3>4 DEF Release, Goto
  <2>5. ASSUME NEW t \in Tasks, Heartbeat(t) PROVE FALSE
    BY Zenon, <2>1, <2>5 DEF Heartbeat
  <2>6. ASSUME NEW w \in Workers, Recover(w) PROVE FALSE
    BY Zenon, <2>1, <2>6 DEF Recover, Exit, Start, ModelsUp, SandboxUp, rows
  <2>7. ~Fault
    BY Zenon, <2>1 DEF Fault, FinishFault, OutcomeFault, Crash, Stop, ReadinessLost, rows
  <2>8. ~Tick
    BY Zenon, <2>1 DEF Tick
  <2>9. PICK t \in Tasks : Execute(t)
    BY Zenon, <2>2, <2>3, <2>5, <2>6, <2>7, <2>8 DEF Next
  <2> QED BY Zenon, <2>4, <2>9 DEF RequireRunningLease
<1> QED BY <1>1, QueueInvariant, PTL DEF Spec, OnlyOwnerReleases

-----------------------------------------------------------------------------
(* A slot that settles its row takes no other slot's lease with it: with one
   slot per process the lease owner identifies the slot. *)
LEMMA OutcomeKeepsHolders ==
    ASSUME OneSlotPerWorker, IInv, UnlapsedSlotsHoldLease, NEW t \in Tasks,
           MarkDone(t) \/ RetryOrBury(t), Release(t)
    PROVE  UnlapsedSlotsHoldLease'
<1> USE DEF IInv, TypeOK, RowsTypeOK, TasksTypeOK
<1> SUFFICES ASSUME NEW u \in Tasks, pc'[u] # "idle", ~lapsed'[u]
             PROVE  RequireRunningLease(u)' /\ leaseLeft'[taskJob'[u]] > 0
  BY Zenon DEF UnlapsedSlotsHoldLease
<1>1. u # t /\ pc[u] # "idle" /\ ~lapsed[u] /\ taskJob'[u] = taskJob[u]
  BY Zenon DEF Release, Goto
<1>2. RequireRunningLease(u) /\ leaseLeft[taskJob[u]] > 0 /\ RequireRunningLease(t)
  BY Zenon, <1>1 DEF UnlapsedSlotsHoldLease, MarkDone, RetryOrBury
<1>3. taskJob[u] # taskJob[t]
  BY Zenon, <1>1, <1>2 DEF RequireRunningLease, OneSlotPerWorker
<1>4. taskJob[u] \in Jobs
  BY Zenon, <1>1 DEF SlotsAreSound
<1> QED BY SMTT(30), <1>1, <1>2, <1>3, <1>4 DEF MarkDone, RetryOrBury, RequireRunningLease

(* claim_next only takes rows whose holders have all lapsed. *)
LEMMA PollKeepsHolders ==
    ASSUME IInv, UnlapsedSlotsHoldLease, NEW t \in Tasks, Poll(t)
    PROVE  UnlapsedSlotsHoldLease'
<1> USE DEF IInv, TypeOK, RowsTypeOK, TasksTypeOK
<1>1. ASSUME NEW j \in Jobs, Claim(t, j) PROVE UnlapsedSlotsHoldLease'
  <2> SUFFICES ASSUME NEW u \in Tasks, pc'[u] # "idle", ~lapsed'[u]
               PROVE  RequireRunningLease(u)' /\ leaseLeft'[taskJob'[u]] > 0
    BY Zenon DEF UnlapsedSlotsHoldLease
  <2>1. CASE u = t
    BY SMTT(30), <1>1, <2>1 DEF Claim, RequireRunningLease
  <2>2. CASE u # t
    <3>1. /\ pc[u] # "idle" /\ ~lapsed[u] /\ taskJob'[u] = taskJob[u]
          /\ taskJob[u] \in Jobs
      BY Zenon, <1>1, <2>2 DEF Claim, SlotsAreSound
    <3>2. RequireRunningLease(u) /\ leaseLeft[taskJob[u]] > 0
      BY Zenon, <3>1 DEF UnlapsedSlotsHoldLease
    <3>3. taskJob[u] # j /\ ~Exhausted(WorkerOf[t], taskJob[u])
      BY SMTT(30), <1>1, <3>1, <3>2 DEF Claim, Eligible, BuriedStatus, Exhausted, RequireRunningLease
    <3> QED BY Zenon, <1>1, <3>1, <3>2, <3>3 DEF Claim, BuriedStatus, RequireRunningLease
  <2> QED BY Zenon, <2>1, <2>2
<1>2. ASSUME ClaimNothing(t) PROVE UnlapsedSlotsHoldLease'
  <2> SUFFICES ASSUME NEW u \in Tasks, pc'[u] # "idle", ~lapsed'[u]
               PROVE  RequireRunningLease(u)' /\ leaseLeft'[taskJob'[u]] > 0
    BY Zenon DEF UnlapsedSlotsHoldLease
  <2>1. /\ pc[u] # "idle" /\ ~lapsed[u] /\ taskJob'[u] = taskJob[u]
        /\ taskJob[u] \in Jobs
    BY Zenon, <1>2 DEF ClaimNothing, tasks, SlotsAreSound
  <2>2. RequireRunningLease(u) /\ leaseLeft[taskJob[u]] > 0
    BY Zenon, <2>1 DEF UnlapsedSlotsHoldLease
  <2>3. ~Exhausted(WorkerOf[t], taskJob[u])
    BY SMTT(30), <2>1, <2>2 DEF Exhausted
  <2> QED BY Zenon, <1>2, <2>1, <2>2, <2>3 DEF ClaimNothing, BuriedStatus, RequireRunningLease
<1> QED BY Zenon, <1>1, <1>2 DEF Poll

(* With one slot per process no step takes a lease away from a slot that
   never let it run out. *)
LEMMA NextKeepsHolders ==
    ASSUME OneSlotPerWorker
    PROVE  IInv /\ UnlapsedSlotsHoldLease /\ [Next]_vars => UnlapsedSlotsHoldLease'
<1> SUFFICES ASSUME IInv, UnlapsedSlotsHoldLease, [Next]_vars
             PROVE  UnlapsedSlotsHoldLease'
  BY SMTT(30)
<1> USE DEF IInv, TypeOK, RowsTypeOK, TasksTypeOK
<1>f. ASSUME UNCHANGED <<status, leaseOwner, leaseLeft, taskJob>>,
             \A u \in Tasks : pc'[u] # "idle" /\ ~lapsed'[u] => pc[u] # "idle" /\ ~lapsed[u]
      PROVE  UnlapsedSlotsHoldLease'
  BY Zenon, <1>f DEF UnlapsedSlotsHoldLease, RequireRunningLease
<1>1. ASSUME NEW j \in Jobs, Enqueue(j) PROVE UnlapsedSlotsHoldLease'
  BY Zenon, <1>1 DEF Enqueue, tasks, UnlapsedSlotsHoldLease, RequireRunningLease, SlotsAreSound
<1>2. ASSUME NEW t \in Tasks, Poll(t) PROVE UnlapsedSlotsHoldLease'
  BY Zenon, <1>2, PollKeepsHolders
<1>3. ASSUME NEW t \in Tasks, Execute(t) PROVE UnlapsedSlotsHoldLease'
  <2>1. CASE StartHeartbeat(t) \/ UnknownHandler(t) \/ MarkClaimedSourceProcessing(t)
             \/ HandlerCommit(t) \/ HandlerRaise(t)
    BY Zenon, <1>f, <2>1 DEF StartHeartbeat, UnknownHandler, MarkClaimedSourceProcessing,
       HandlerCommit, HandlerRaise, Goto, rows
  <2>2. CASE (MarkDone(t) \/ RetryOrBury(t)) /\ Release(t)
    BY Zenon, <2>2, OutcomeKeepsHolders
  <2>3. CASE UNCHANGED rows /\ Release(t)
    BY Zenon, <2>3 DEF rows, Release, Goto, UnlapsedSlotsHoldLease, RequireRunningLease
  <2>4. CASE pc[t] = "finishing" /\ Goto(t, "failing")
             /\ UNCHANGED <<rows, taskJob, beating, lapsed>>
    BY Zenon, <1>f, <2>4 DEF Goto, rows
  <2> QED BY Zenon, <1>3, <2>1, <2>2, <2>3, <2>4 DEF Execute, Settle, Finish, RecordFailure
<1>4. ASSUME NEW t \in Tasks, Heartbeat(t) PROVE UnlapsedSlotsHoldLease'
  BY SMTT(30), <1>4 DEF Heartbeat, UnlapsedSlotsHoldLease, RequireRunningLease, SlotsAreSound
<1>5. ASSUME NEW w \in Workers, Recover(w) PROVE UnlapsedSlotsHoldLease'
  BY Zenon, <1>f, <1>5 DEF Recover, Exit, Start, ModelsUp, SandboxUp, rows, tasks
<1>6. CASE Fault
  <2>1. ASSUME NEW t \in Tasks, FinishFault(t) PROVE UnlapsedSlotsHoldLease'
    BY Zenon, <1>f, <2>1 DEF FinishFault, Goto, rows
  <2>2. ASSUME NEW t \in Tasks, OutcomeFault(t) PROVE UnlapsedSlotsHoldLease'
    BY Zenon, <2>2 DEF OutcomeFault, Release, Goto, rows, UnlapsedSlotsHoldLease, RequireRunningLease
  <2>3. ASSUME NEW w \in Workers, Crash(w) PROVE UnlapsedSlotsHoldLease'
    BY Zenon, <2>3 DEF Crash, rows, UnlapsedSlotsHoldLease, RequireRunningLease
  <2>4. ASSUME NEW w \in Workers, Stop(w) \/ ReadinessLost(w)
        PROVE  UnlapsedSlotsHoldLease'
    BY Zenon, <1>f, <2>4 DEF Stop, ReadinessLost, rows, tasks
  <2> QED BY Zenon, <1>6, <2>1, <2>2, <2>3, <2>4 DEF Fault
<1>7. CASE Tick
  BY SMTT(30), <1>7 DEF Tick, UnlapsedSlotsHoldLease, RequireRunningLease, SlotsAreSound, Down
<1>8. CASE UNCHANGED vars
  BY Zenon, <1>f, <1>8 DEF vars, rows, tasks
<1> QED BY Zenon, <1>1, <1>2, <1>3, <1>4, <1>5, <1>6, <1>7, <1>8 DEF Next

(* With the default of one slot per process, two slots work on the same row
   only after one of them let its lease run out. *)
THEOREM LeaseExclusivity == OneSlotPerWorker => (Spec => []OverlapNeedsExpiry)
<1> SUFFICES ASSUME OneSlotPerWorker PROVE Spec => []OverlapNeedsExpiry
  BY SMTT(30)
<1>1. Init => UnlapsedSlotsHoldLease
  BY Zenon DEF Init, UnlapsedSlotsHoldLease
<1>2. IInv /\ UnlapsedSlotsHoldLease /\ [Next]_vars => UnlapsedSlotsHoldLease'
  BY Zenon, NextKeepsHolders
<1>3. IInv /\ UnlapsedSlotsHoldLease => OverlapNeedsExpiry
  BY SMTT(30) DEF IInv, TypeOK, TasksTypeOK, UnlapsedSlotsHoldLease, RequireRunningLease,
         OverlapNeedsExpiry, OneSlotPerWorker
<1> QED BY <1>1, <1>2, <1>3, QueueInvariant, PTL DEF Spec

=============================================================================
