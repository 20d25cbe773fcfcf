------------------------ MODULE UploadStorageProofs ------------------------
(***************************************************************************)
(* Proofs about UploadStorage for any number of uploads and handlers, any  *)
(* digests and keys, and any number of faults: bytes that rows refer to    *)
(* stay in the store, and one idempotency key makes one document.          *)
(***************************************************************************)
EXTENDS UploadStorage, TLAPS

(* The steps at which a request holds the shared storage lock, whatever it is
   a request for, and those between its intent and the end of its commit. *)
Locked == {"keying", "intent", "linking", "recording", "cleaning", "writing"}
Publishing == {"linking", "recording", "cleaning", "writing", "inflight"}

(* The shared lock of publishers excludes the reconciler. *)
LocksAreHeld ==
    /\ \A r \in Requests : req[r].pc \in Locked => req[r].shared
    /\ \A r \in Handlers : req[r].pc \in {"reserving", "staging"} => req[r].shared
    /\ rec.kind # "none" => \A r \in Requests : ~req[r].shared

(* A publication keeps its manifest until its rows are settled, and one whose
   process is gone is still young. *)
ManifestsAreKept ==
    \A r \in Requests :
        /\ req[r].pc \in Publishing => Published(r)
        /\ req[r].pc = "inflight" => ~old[r]

(* A reconciler at work has seen every committed row, and a young manifest for
   every commit that may still land. *)
ReconcilerKnows ==
    /\ rec.kind = "none" => rec.todo = {}
    /\ rec.kind # "none" =>
         \A r \in Requests :
            /\ r \in docs \/ req[r].pc = "inflight" =>
                    Digest[r] \in rec.active \cup rec.snapshot
            /\ req[r].pc = "inflight" => r \notin rec.todo

StorageInv ==
    /\ TypeOK
    /\ LocksAreHeld
    /\ ManifestsAreKept
    /\ ReconcilerKnows
    /\ SourcesArePreserved

USE StorageAssumption

(* Requests hold uploads and handlers and nothing else. *)
LEMMA RequestKinds ==
    /\ \A r \in Uploads : r \in Requests
    /\ \A r \in Handlers : r \in Requests /\ r \notin Uploads
  BY Zenon DEF Requests

(* An empty store satisfies the invariant. *)
LEMMA StorageInit == Init => StorageInv
<1> SUFFICES ASSUME Init PROVE StorageInv
  BY SMTT(30)
<1>1. TypeOK
  BY SMTT(30) DEF Init, TypeOK, Steps, ManifestStates, Idle
<1>2. LocksAreHeld /\ ManifestsAreKept /\ ReconcilerKnows /\ SourcesArePreserved
  BY Zenon, RequestKinds DEF Init, LocksAreHeld, ManifestsAreKept, ReconcilerKnows,
     SourcesArePreserved, Idle, Locked, Publishing
<1> QED
  BY Zenon, <1>1, <1>2 DEF StorageInv

(* A step of one request that removes no blob, moves no other request and
   leaves the reconciler alone keeps the invariant, when the request itself
   ends it as the invariant asks. *)
LEMMA RequestStep ==
    ASSUME StorageInv, TypeOK', NEW r \in Requests,
           rec' = rec,
           blobs \subseteq blobs',
           docs \subseteq docs', docs' \subseteq docs \cup {r},
           \A s \in Requests \ {r} :
                req'[s] = req[s] /\ manifest'[s] = manifest[s] /\ old'[s] = old[s],
           req'[r].pc \in Locked => req'[r].shared,
           r \in Handlers /\ req'[r].pc \in {"reserving", "staging"} => req'[r].shared,
           req'[r].shared => req[r].shared \/ rec.kind = "none",
           req'[r].pc \in Publishing => manifest'[r] \in {"publishing", "published"},
           req'[r].pc # "inflight",
           r \in docs' => r \in docs \/ req[r].pc \in {"writing", "inflight"},
           r \in docs' \/ req'[r].pc \in {"recording", "cleaning", "writing"} =>
                Blob(r) \in blobs'
    PROVE  StorageInv'
<1>1. LocksAreHeld'
  BY SMTT(30), RequestKinds DEF StorageInv, LocksAreHeld
<1>2. ManifestsAreKept'
  BY SMTT(30) DEF StorageInv, ManifestsAreKept, Published
<1>3. ReconcilerKnows'
  <2>1. ASSUME rec.kind # "none", r \in docs'
        PROVE  Digest[r] \in rec.active \cup rec.snapshot
    <3>1. req[r].pc # "writing"
      BY Zenon, <2>1 DEF StorageInv, LocksAreHeld, Locked
    <3> QED
      BY Zenon, <2>1, <3>1 DEF StorageInv, ReconcilerKnows
  <2> QED
    BY SMTT(30), <2>1 DEF StorageInv, ReconcilerKnows
<1>4. SourcesArePreserved'
  <2> SUFFICES ASSUME NEW s \in Requests,
                      s \in docs' \/ req'[s].pc \in {"recording", "cleaning", "writing", "inflight"}
               PROVE  Blob(s) \in blobs'
    BY Zenon DEF SourcesArePreserved, Blob, Namespace
  <2>1. CASE s = r
    BY Zenon, <2>1
  <2>2. CASE s # r
    BY Zenon, <2>2 DEF StorageInv, SourcesArePreserved
  <2> QED
    BY Zenon, <2>1, <2>2
<1> QED
  BY Zenon, <1>1, <1>2, <1>3, <1>4 DEF StorageInv

(* A handler that goes to a step, ends or discards its reservation is still at
   a step. *)
LEMMA MoveType ==
    ASSUME TypeOK, NEW r \in Requests,
           End(r) \/ Discards(r) \/ \E step \in Steps : Goto(r, step)
    PROVE  req' \in [Requests -> [pc : Steps, shared : BOOLEAN]]
<1>1. ASSUME End(r) PROVE req' \in [Requests -> [pc : Steps, shared : BOOLEAN]]
  BY Zenon, <1>1 DEF TypeOK, End, Steps
<1>2. ASSUME NEW step \in Steps, Goto(r, step)
      PROVE  req' \in [Requests -> [pc : Steps, shared : BOOLEAN]]
  BY SMTT(30), <1>2 DEF TypeOK, Goto
<1>3. "finalizing" \in Steps
  BY Zenon DEF Steps
<1> QED
  BY Zenon, <1>1, <1>2, <1>3 DEF Discards

(* Removing or renewing what belongs to one reservation keeps the types of the
   quarantine. *)
LEMMA QuarantineType ==
    ASSUME TypeOK, NEW r \in Requests, NEW state \in ManifestStates,
           manifest' \in {manifest, [manifest EXCEPT ![r] = state]},
           payload' \in {payload, [payload EXCEPT ![r] = FALSE]},
           old' \in {old, [old EXCEPT ![r] = FALSE], [old EXCEPT ![r] = TRUE]}
    PROVE  /\ manifest' \in [Requests -> ManifestStates]
           /\ payload' \in [Requests -> BOOLEAN]
           /\ old' \in [Requests -> BOOLEAN]
<1>1. manifest' \in [Requests -> ManifestStates]
  BY SMTT(30) DEF TypeOK
<1>2. payload' \in [Requests -> BOOLEAN]
  BY Zenon DEF TypeOK
<1>3. old' \in [Requests -> BOOLEAN]
  BY Zenon DEF TypeOK
<1> QED
  BY Zenon, <1>1, <1>2, <1>3

(* Every step keeps the types. *)
LEMMA TypeStep == TypeOK /\ [Next]_vars => TypeOK'
<1> SUFFICES ASSUME TypeOK, [Next]_vars PROVE TypeOK'
  BY SMTT(30)
<1> USE DEF TypeOK, Steps, ManifestStates
<1>1. ASSUME NEW r \in Requests, Reserve(r) PROVE TypeOK'
  BY SMTT(30), <1>1 DEF Reserve
<1>2. ASSUME NEW r \in Requests, WriteManifest(r) PROVE TypeOK'
  BY SMTT(30), <1>2 DEF WriteManifest, Goto
<1>3. ASSUME NEW r \in Requests, Stage(r) PROVE TypeOK'
  BY Zenon, <1>3, MoveType DEF Stage, files
<1>4. ASSUME NEW r \in Requests, AcquireShared(r) PROVE TypeOK'
  BY Zenon, <1>4 DEF AcquireShared, files
<1>5. ASSUME NEW r \in Requests, ReserveKey(r) PROVE TypeOK'
  <2>1. req' \in [Requests -> [pc : Steps, shared : BOOLEAN]]
    BY Zenon, <1>5, MoveType DEF ReserveKey
  <2>2. answer' \in [Uploads -> Requests \cup {NoAnswer}]
    BY SMTT(30), <1>5, RequestKinds DEF ReserveKey
  <2> QED
    BY Zenon, <1>5, <2>1, <2>2 DEF ReserveKey, files
<1>6. ASSUME NEW r \in Requests, PersistIntent(r) PROVE TypeOK'
  BY Zenon, <1>6, MoveType, QuarantineType DEF PersistIntent
<1>7. ASSUME NEW r \in Requests, Link(r) PROVE TypeOK'
  BY SMTT(30), <1>7 DEF Link, Goto
<1>8. ASSUME NEW r \in Requests, RecordPublished(r) PROVE TypeOK'
  BY SMTT(30), <1>8 DEF RecordPublished, Goto
<1>9. ASSUME NEW r \in Requests, UnlinkPayload(r) PROVE TypeOK'
  BY SMTT(30), <1>9 DEF UnlinkPayload, Goto
<1>10. ASSUME NEW r \in Requests, CommitRows(r) PROVE TypeOK'
  BY SMTT(30), <1>10 DEF CommitRows, Goto, files
<1>11. ASSUME NEW r \in Requests, Finalize(r) PROVE TypeOK'
  BY Zenon, <1>11, MoveType, QuarantineType DEF Finalize
<1>12. ASSUME NEW r \in Requests, DropReservation(r) PROVE TypeOK'
  BY Zenon, <1>12, MoveType, QuarantineType DEF DropReservation
<1>13. ASSUME NEW r \in Requests, Fail(r) PROVE TypeOK'
  BY SMTT(30), <1>13, MoveType DEF Fail, Abort, CommitUnconfirmed, PublishFault, FinalizeFault, Spend, files
<1>14. ASSUME NEW r \in Requests, Land(r) \/ GrowOld(r) PROVE TypeOK'
  BY Zenon, <1>14, MoveType DEF Land, GrowOld, files
<1>15. ASSUME CrashApi \/ CrashWorker \/ CrashPreflight \/ Restart PROVE TypeOK'
  <2>1. ASSUME NEW victims, NEW sent
        PROVE  Killed(victims, sent) \in [Requests -> [pc : Steps, shared : BOOLEAN]]
    BY Zenon DEF Killed
  <2>2. Idle \in [kind : {"none", "startup", "preflight"}, todo : SUBSET Requests,
                  known : SUBSET Requests, active : SUBSET Digests, snapshot : SUBSET Digests]
    BY Zenon DEF Idle
  <2>3. CASE CrashApi
    BY SMTT(30), <2>1, <2>2, <2>3 DEF CrashApi, Spend, files
  <2>4. CASE CrashWorker
    BY SMTT(30), <2>1, <2>4 DEF CrashWorker, Spend, files
  <2>5. CASE CrashPreflight \/ Restart
    BY SMTT(30), <2>2, <2>5 DEF CrashPreflight, Restart, Spend, files
  <2> QED
    BY Zenon, <1>15, <2>3, <2>4, <2>5
<1>16. ASSUME NEW kind \in {"startup", "preflight"}, NEW refs \in SUBSET Digests, Load(kind, refs)
       PROVE  rec' \in [kind : {"none", "startup", "preflight"}, todo : SUBSET Requests,
                        known : SUBSET Requests, active : SUBSET Digests,
                        snapshot : SUBSET Digests]
  BY Zenon, <1>16 DEF Load, Manifests, Digests
<1>17. References \in SUBSET Digests
  BY Zenon DEF References, Digests
<1>18. ASSUME ReconcileAtStartup PROVE TypeOK'
  BY SMTT(30), <1>16, <1>17, <1>18 DEF ReconcileAtStartup, Spend, files
<1>19. ASSUME Preflight PROVE TypeOK'
  BY SMTT(30), <1>16, <1>17, <1>19 DEF Preflight, Spend, files
<1>20. ASSUME NEW r \in Requests, RemoveBlob(r) \/ RemoveReservation(r) PROVE TypeOK'
  <2>1. CASE RemoveBlob(r)
    BY Zenon, <2>1 DEF RemoveBlob
  <2>2. CASE RemoveReservation(r)
    <3>1. rec' \in [kind : {"none", "startup", "preflight"}, todo : SUBSET Requests,
                    known : SUBSET Requests, active : SUBSET Digests, snapshot : SUBSET Digests]
      BY SMTT(30), <2>2 DEF RemoveReservation
    <3> QED
      BY Zenon, <2>2, <3>1, QuarantineType DEF RemoveReservation
  <2> QED
    BY Zenon, <1>20, <2>1, <2>2
<1>21. ASSUME FinishReconcile PROVE TypeOK'
  BY Zenon, <1>21 DEF FinishReconcile, Idle
<1>22. CASE UNCHANGED vars
  BY Zenon, <1>22 DEF vars, files
<1> QED
  BY Zenon, <1>1, <1>2, <1>3, <1>4, <1>5, <1>6, <1>7, <1>8, <1>9, <1>10, <1>11, <1>12, <1>13, <1>14,
     <1>15, <1>18, <1>19, <1>20, <1>21, <1>22 DEF Next, Serve, Reconcile

(* A step of a request, its failures and a commit that lands keep the invariant:
   the steps that publish happen under the shared lock. *)
LEMMA ServeStep ==
    ASSUME StorageInv, TypeOK', NEW r \in Requests,
           Reserve(r) \/ Serve(r) \/ Fail(r) \/ Land(r)
    PROVE  StorageInv'
<1> USE DEF Goto, End, Locked, Publishing
<1> USE RequestStep
<1>0. TypeOK /\ LocksAreHeld /\ ManifestsAreKept /\ SourcesArePreserved
  BY Zenon DEF StorageInv
<1>1. CASE Reserve(r)
  BY Zenon, <1>0, <1>1, RequestKinds DEF Reserve, TypeOK, SourcesArePreserved
<1>2. CASE WriteManifest(r)
  <2>1. r \in Handlers => req[r].shared
    BY Zenon, <1>0, <1>2 DEF WriteManifest, LocksAreHeld
  <2>2. req'[r].pc = "staging" /\ req'[r].shared = req[r].shared
    BY SMTT(30), <1>0, <1>2 DEF WriteManifest, TypeOK
  <2>3. \A q \in Requests \ {r} :
            req'[q] = req[q] /\ manifest'[q] = manifest[q] /\ old'[q] = old[q]
    BY Zenon, <1>0, <1>2 DEF WriteManifest, TypeOK
  <2> QED
    BY ZenonT(30), <1>0, <1>2, <2>1, <2>2, <2>3 DEF WriteManifest, SourcesArePreserved
<1>3. CASE Stage(r)
  BY SMTT(30), <1>0, <1>3, RequestKinds DEF Stage, Discards, TypeOK, SourcesArePreserved, LocksAreHeld,
     Requests, files
<1>4. CASE AcquireShared(r)
  BY Zenon, <1>0, <1>4 DEF AcquireShared, TypeOK, SourcesArePreserved, files
<1>5. CASE ReserveKey(r)
  BY SMTT(30), <1>0, <1>5 DEF ReserveKey, TypeOK, SourcesArePreserved, LocksAreHeld, files
<1>6. CASE PersistIntent(r)
  BY SMTT(30), <1>0, <1>6 DEF PersistIntent, Discards, TypeOK, SourcesArePreserved, LocksAreHeld
<1>7. CASE Link(r)
  BY SMTT(30), <1>0, <1>7 DEF Link, TypeOK, SourcesArePreserved, LocksAreHeld, ManifestsAreKept, Published
<1>8. CASE RecordPublished(r)
  BY SMTT(30), <1>0, <1>8 DEF RecordPublished, TypeOK, SourcesArePreserved, LocksAreHeld
<1>9. CASE UnlinkPayload(r)
  BY SMTT(30), <1>0, <1>9 DEF UnlinkPayload, TypeOK, SourcesArePreserved, LocksAreHeld, ManifestsAreKept,
     Published
<1>10. CASE CommitRows(r)
  BY SMTT(30), <1>0, <1>10 DEF CommitRows, TypeOK, SourcesArePreserved, files
<1>11. CASE Finalize(r)
  <2>1. req'[r].pc \in {"ended", "dropping"} /\ (req'[r].shared => req[r].shared)
    BY SMTT(30), <1>0, <1>11 DEF Finalize, TypeOK
  <2>2. \A q \in Requests \ {r} :
            req'[q] = req[q] /\ manifest'[q] = manifest[q] /\ old'[q] = old[q]
    BY Zenon, <1>0, <1>11 DEF Finalize, TypeOK
  <2> QED
    BY Zenon, <1>0, <1>11, <2>1, <2>2 DEF Finalize, SourcesArePreserved
<1>12. CASE DropReservation(r)
  BY SMTT(30), <1>0, <1>12 DEF DropReservation, TypeOK, SourcesArePreserved
<1>13. CASE Fail(r)
  <2>1. CASE Abort(r)
    BY Zenon, <1>0, <2>1 DEF Abort, TypeOK, SourcesArePreserved, files
  <2>2. CASE CommitUnconfirmed(r)
    BY Zenon, <1>0, <2>2 DEF CommitUnconfirmed, TypeOK, SourcesArePreserved, files
  <2>3. CASE PublishFault(r)
    BY SMTT(30), <1>0, <2>3 DEF PublishFault, Discards, TypeOK, SourcesArePreserved, files
  <2>4. CASE FinalizeFault(r)
    BY Zenon, <1>0, <2>4 DEF FinalizeFault, TypeOK, SourcesArePreserved, files
  <2> QED
    BY Zenon, <1>13, <2>1, <2>2, <2>3, <2>4 DEF Fail
<1>14. CASE Land(r)
  BY Zenon, <1>0, <1>14 DEF Land, TypeOK, SourcesArePreserved, files
<1> QED
  BY Zenon, <1>1, <1>2, <1>3, <1>4, <1>5, <1>6, <1>7, <1>8, <1>9, <1>10, <1>11, <1>12, <1>13, <1>14
  DEF Serve

(* A kill leaves commits in flight only where the manifest is young, and the
   reconciler of a process that is gone holds no lock. *)
LEMMA CrashStep ==
    ASSUME StorageInv, TypeOK', ~SlowCommits, CrashApi \/ CrashWorker \/ CrashPreflight
    PROVE  StorageInv'
<1>0. TypeOK /\ LocksAreHeld /\ ManifestsAreKept /\ ReconcilerKnows /\ SourcesArePreserved
  BY Zenon DEF StorageInv
<1>1. PICK victims \in SUBSET Requests, sent \in SUBSET Requests :
            /\ req' = Killed(victims, sent)
            /\ \A r \in sent : req[r].pc = "writing" /\ ~old[r]
  <2>1. CASE CrashApi
    BY Zenon, <2>1, RequestKinds DEF CrashApi, MaySend
  <2>2. CASE CrashWorker
    BY Zenon, <2>2, RequestKinds DEF CrashWorker, MaySend
  <2>3. CASE CrashPreflight
    <3>1. req' = Killed({}, {})
      BY Zenon, <1>0, <2>3 DEF CrashPreflight, Killed, TypeOK
    <3> QED
      BY Zenon, <3>1
  <2> QED
    BY Zenon, <2>1, <2>2, <2>3
<1>2. files' = files /\ docs' = docs /\ rec' \in {rec, Idle}
  BY Zenon DEF CrashApi, CrashWorker, CrashPreflight, files
<1>3. ASSUME NEW r \in Requests
      PROVE  \/ req'[r] = req[r]
             \/ req'[r] = [pc |-> "ended", shared |-> FALSE]
             \/ /\ req'[r] = [pc |-> "inflight", shared |-> FALSE]
                /\ req[r].pc = "writing" /\ ~old[r]
  BY Zenon, <1>1 DEF Killed
<1>4. LocksAreHeld'
  BY SMTT(30), <1>0, <1>2, <1>3, RequestKinds DEF LocksAreHeld, Locked, Idle
<1>5. ManifestsAreKept'
  BY SMTT(30), <1>0, <1>2, <1>3 DEF ManifestsAreKept, Published, Publishing, files
<1>6. ReconcilerKnows'
  <2>1. CASE rec' = Idle
    BY Zenon, <2>1 DEF ReconcilerKnows, Idle
  <2>2. CASE rec' = rec
    <3>1. ASSUME NEW r \in Requests, rec.kind # "none", req'[r].pc = "inflight"
          PROVE  req[r].pc = "inflight"
      BY SMTT(30), <1>0, <1>3, <3>1 DEF LocksAreHeld, Locked
    <3> QED
      BY Zenon, <1>0, <1>2, <2>2, <3>1 DEF ReconcilerKnows
  <2> QED
    BY Zenon, <1>2, <2>1, <2>2
<1>7. SourcesArePreserved'
  BY SMTT(30), <1>0, <1>2, <1>3 DEF SourcesArePreserved, Blob, Namespace, files
<1> QED
  BY Zenon, <1>4, <1>5, <1>6, <1>7 DEF StorageInv

(* A reconciler that loads its view has every committed digest in its snapshot,
   and the young manifest of every commit in flight. *)
LEMMA LoadStep ==
    ASSUME StorageInv, TypeOK', NEW kind \in {"startup", "preflight"},
           NEW refs \in SUBSET Digests, References \subseteq refs,
           Load(kind, refs), ExclusiveFree,
           kind = "preflight" => \A r \in Requests : req[r].pc # "inflight",
           UNCHANGED <<req, files, docs>>
    PROVE  StorageInv'
<1>0. TypeOK /\ LocksAreHeld /\ ManifestsAreKept /\ SourcesArePreserved
  BY Zenon DEF StorageInv
<1>1. LocksAreHeld'
  BY Zenon, <1>0 DEF LocksAreHeld, ExclusiveFree
<1>2. ManifestsAreKept' /\ SourcesArePreserved'
  BY Zenon, <1>0 DEF ManifestsAreKept, SourcesArePreserved, Published, Blob, Namespace, files
<1>3. ReconcilerKnows'
  <2>1. rec'.kind = kind /\ rec'.snapshot = refs
    BY Zenon DEF Load
  <2>2. ASSUME NEW r \in Requests, req[r].pc = "inflight"
        PROVE  Digest[r] \in rec'.active /\ r \notin rec'.todo
    <3>1. Published(r) /\ ~PastGrace(kind, r)
      BY Zenon, <1>0, <2>2 DEF ManifestsAreKept, Publishing, PastGrace
    <3> QED
      BY Zenon, <3>1 DEF Load
  <2>3. ASSUME NEW r \in docs PROVE Digest[r] \in refs
    BY Zenon DEF References
  <2> QED
    BY Zenon, <1>0, <2>1, <2>2, <2>3 DEF ReconcilerKnows, TypeOK
<1> QED
  BY Zenon, <1>1, <1>2, <1>3 DEF StorageInv

(* The reconciler removes no blob of a committed row, of a commit in flight or
   of a publisher, and no manifest of a publication. *)
LEMMA RemoveStep ==
    ASSUME StorageInv, TypeOK', NEW r \in Requests, RemoveBlob(r) \/ RemoveReservation(r)
    PROVE  StorageInv'
<1>0. TypeOK /\ LocksAreHeld /\ ManifestsAreKept /\ ReconcilerKnows /\ SourcesArePreserved
  BY Zenon DEF StorageInv
<1>1. r \in rec.todo /\ UNCHANGED <<req, docs>>
  BY Zenon DEF RemoveBlob, RemoveReservation
<1>2. rec.kind # "none"
  BY Zenon, <1>0, <1>1 DEF ReconcilerKnows
<1>3. \A s \in Requests : req[s].pc \notin Locked
  BY Zenon, <1>0, <1>2 DEF LocksAreHeld
<1>4. rec'.kind = rec.kind /\ rec'.active = rec.active /\ rec'.snapshot = rec.snapshot
      /\ rec'.todo \subseteq rec.todo
  BY SMTT(30), <1>0 DEF RemoveBlob, RemoveReservation, TypeOK
<1>5. LocksAreHeld'
  BY Zenon, <1>0, <1>1, <1>4 DEF LocksAreHeld
<1>6. ReconcilerKnows'
  BY Zenon, <1>0, <1>1, <1>2, <1>4 DEF ReconcilerKnows
<1>7. ManifestsAreKept'
  <2>1. ASSUME NEW s \in Requests, req[s].pc \in Publishing
        PROVE  s # r /\ Published(s) /\ (req[s].pc = "inflight" => ~old[s])
    BY Zenon, <1>0, <1>1, <1>2, <1>3, <2>1 DEF ReconcilerKnows, ManifestsAreKept, Publishing, Locked
  <2>2. ASSUME NEW s \in Requests, s # r
        PROVE  manifest'[s] = manifest[s] /\ old'[s] = old[s]
    BY Zenon, <1>0, <2>2 DEF RemoveBlob, RemoveReservation, TypeOK
  <2> QED
    BY Zenon, <1>1, <2>1, <2>2 DEF ManifestsAreKept, Published, Publishing
<1>8. SourcesArePreserved'
  <2> SUFFICES ASSUME NEW s \in Requests,
                      s \in docs \/ req[s].pc \in {"recording", "cleaning", "writing", "inflight"}
               PROVE  Blob(s) \in blobs'
    BY Zenon, <1>1 DEF SourcesArePreserved, Blob, Namespace
  <2>1. Digest[s] \in rec.active \cup rec.snapshot
    BY Zenon, <1>0, <1>2, <1>3 DEF ReconcilerKnows, Locked
  <2>2. Blob(s) \in blobs
    BY Zenon, <1>0 DEF SourcesArePreserved
  <2>3. CASE RemoveBlob(r)
    BY Zenon, <2>1, <2>2, <2>3 DEF RemoveBlob, Removable, Blob
  <2>4. CASE RemoveReservation(r)
    BY Zenon, <2>2, <2>4 DEF RemoveReservation
  <2> QED
    BY Zenon, <2>3, <2>4
<1> QED
  BY Zenon, <1>5, <1>6, <1>7, <1>8 DEF StorageInv

(* The invariant is inductive as long as no COMMIT is sent later than the grace
   of ten minutes. *)
LEMMA StorageStep == ASSUME ~SlowCommits PROVE StorageInv /\ [Next]_vars => StorageInv'
<1> SUFFICES ASSUME StorageInv, [Next]_vars PROVE StorageInv'
  BY SMTT(30)
<1>0. TypeOK' /\ TypeOK /\ LocksAreHeld /\ ManifestsAreKept /\ ReconcilerKnows
      /\ SourcesArePreserved
  BY Zenon, TypeStep DEF StorageInv
<1>1. ASSUME NEW r \in Requests, Reserve(r) \/ Serve(r) \/ Fail(r) \/ Land(r) PROVE StorageInv'
  BY Zenon, <1>0, <1>1, ServeStep
<1>2. ASSUME NEW r \in Requests, GrowOld(r) PROVE StorageInv'
  <2>1. UNCHANGED <<req, manifest, blobs, docs, rec>>
    BY Zenon, <1>2 DEF GrowOld
  <2>2. \A s \in Requests : req[s].pc = "inflight" => old'[s] = old[s]
    BY Zenon, <1>0, <1>2 DEF GrowOld, TypeOK
  <2>3. LocksAreHeld' /\ ReconcilerKnows' /\ SourcesArePreserved'
    BY Zenon, <1>0, <2>1 DEF LocksAreHeld, ReconcilerKnows, SourcesArePreserved, Blob, Namespace
  <2>4. ManifestsAreKept'
    BY Zenon, <1>0, <2>1, <2>2 DEF ManifestsAreKept, Published
  <2> QED
    BY Zenon, <1>0, <2>3, <2>4 DEF StorageInv
<1>3. CASE CrashApi \/ CrashWorker \/ CrashPreflight
  BY Zenon, <1>0, <1>3, CrashStep
<1>4. CASE ReconcileAtStartup
  <2>1. References \in SUBSET Digests
    BY Zenon, <1>0 DEF References, Digests, TypeOK
  <2>2. CASE Load("startup", References)
    BY Zenon, <1>0, <1>4, <2>1, <2>2, LoadStep DEF ReconcileAtStartup
  <2>3. CASE Load("startup", Digests)
    BY Zenon, <1>0, <1>4, <2>1, <2>3, LoadStep DEF ReconcileAtStartup
  <2> QED
    BY Zenon, <1>4, <2>2, <2>3 DEF ReconcileAtStartup
<1>5. CASE Preflight
  <2>1. References \in SUBSET Digests
    BY Zenon, <1>0 DEF References, Digests, TypeOK
  <2> QED
    BY Zenon, <1>0, <1>5, <2>1, LoadStep DEF Preflight
<1>6. ASSUME NEW r \in Requests, RemoveBlob(r) \/ RemoveReservation(r) PROVE StorageInv'
  BY Zenon, <1>0, <1>6, RemoveStep
<1>7. CASE FinishReconcile \/ Restart \/ UNCHANGED vars
  <2>1. UNCHANGED <<req, manifest, old, blobs, docs>> /\ rec' \in {rec, Idle}
    BY Zenon, <1>7 DEF FinishReconcile, Restart, vars, files
  <2>2. LocksAreHeld' /\ ReconcilerKnows'
    BY SMTT(30), <1>0, <2>1 DEF LocksAreHeld, ReconcilerKnows, Idle
  <2>3. ManifestsAreKept' /\ SourcesArePreserved'
    BY Zenon, <1>0, <2>1 DEF ManifestsAreKept, SourcesArePreserved, Published, Blob, Namespace
  <2> QED
    BY Zenon, <1>0, <2>2, <2>3 DEF StorageInv
<1> QED
  BY Zenon, <1>1, <1>2, <1>3, <1>4, <1>5, <1>6, <1>7 DEF Next, Reconcile

(* Committed rows and publishers never lose their bytes (publish_reserved_blob,
   reconcile_storage): for any number of requests that share any digests, any
   crashes, OSErrors, outages and preflights. *)
THEOREM SourcesStay == ASSUME ~SlowCommits PROVE Spec => []SourcesArePreserved
<1>1. Init => StorageInv
  BY Zenon, StorageInit
<1>2. StorageInv /\ [Next]_vars => StorageInv'
  BY Zenon, StorageStep
<1>3. StorageInv => SourcesArePreserved
  BY Zenon DEF StorageInv
<1> QED
  BY <1>1, <1>2, <1>3, PTL DEF Spec

-----------------------------------------------------------------------------
(* An upload claims its key from the reservation of the key until its
   transaction is over, and for ever once it is committed. *)
Claims(r) ==
    \/ req[r].pc \in {"intent", "linking", "recording", "cleaning", "writing", "inflight"}
    \/ r \in docs

(* Only uploads ask for a key, one upload claims it, and an answer is the
   committed upload of the same key and the same bytes. *)
KeyInv ==
    /\ TypeOK
    /\ \A r \in Handlers : req[r].pc \notin {"waiting", "keying"}
    /\ \A r, s \in Uploads :
          Key[r] = Key[s] /\ Key[r] # NoKey /\ Claims(r) /\ Claims(s) => r = s
    /\ \A r \in Uploads :
          answer[r] # NoAnswer =>
            /\ answer[r] \in docs \cap Uploads
            /\ Digest[answer[r]] = Digest[r]
            /\ Key[answer[r]] = Key[r]

(* A step that answers nobody and starts no claim keeps the invariant. *)
LEMMA KeyFrame ==
    ASSUME KeyInv, TypeOK', answer' = answer, docs \subseteq docs',
           \A r \in Uploads : Claims(r)' => Claims(r),
           \A r \in Handlers : req'[r].pc \notin {"waiting", "keying"}
    PROVE  KeyInv'
  BY Zenon DEF KeyInv

(* Every step keeps the invariant. *)
LEMMA KeyStep == KeyInv /\ [Next]_vars => KeyInv'
<1> SUFFICES ASSUME KeyInv, [Next]_vars PROVE KeyInv'
  BY SMTT(30)
<1>0. TypeOK /\ TypeOK'
  BY Zenon, TypeStep DEF KeyInv
<1> USE DEF Goto, End
<1>1. ASSUME NEW r \in Requests,
             \/ Reserve(r) \/ WriteManifest(r) \/ Stage(r) \/ AcquireShared(r)
             \/ PersistIntent(r) \/ Link(r) \/ RecordPublished(r) \/ UnlinkPayload(r)
             \/ Finalize(r) \/ DropReservation(r)
      PROVE  KeyInv'
  <2>1. answer' = answer /\ docs' = docs
    BY Zenon, <1>1 DEF Reserve, WriteManifest, Stage, AcquireShared, PersistIntent, Link,
       RecordPublished, UnlinkPayload, Finalize, DropReservation
  <2>2. \A s \in Requests \ {r} : req'[s] = req[s]
    BY SMTT(30), <1>0, <1>1 DEF Reserve, WriteManifest, Stage, AcquireShared, PersistIntent, Link,
       RecordPublished, UnlinkPayload, Finalize, DropReservation, Discards, TypeOK
  <2> USE RequestKinds DEF KeyInv
  <2>3. CASE PersistIntent(r) \/ Link(r) \/ RecordPublished(r) \/ UnlinkPayload(r)
    <3>1. Claims(r) /\ req'[r].pc \notin {"waiting", "keying"}
      BY SMTT(30), <1>0, <2>3 DEF PersistIntent, Link, RecordPublished, UnlinkPayload, Claims, Discards,
         TypeOK
    <3> QED
      BY SMTT(30), <1>0, <2>1, <2>2, <3>1, KeyFrame DEF Claims
  <2>4. CASE Reserve(r) \/ WriteManifest(r)
    <3>1. req'[r].pc \in {"reserving", "staging"}
      BY SMTT(30), <1>0, <2>4 DEF Reserve, WriteManifest, TypeOK
    <3> QED
      BY SMTT(30), <1>0, <2>1, <2>2, <3>1, KeyFrame DEF Claims
  <2>5. CASE AcquireShared(r)
    <3>1. r \in Uploads /\ req'[r].pc = "keying"
      BY Zenon, <1>0, <2>5 DEF AcquireShared, TypeOK, Requests
    <3> QED
      BY SMTT(30), <1>0, <2>1, <2>2, <3>1, KeyFrame DEF Claims
  <2>6. CASE Stage(r) \/ Finalize(r) \/ DropReservation(r)
    <3>1. /\ r \in Uploads => req'[r].pc \in {"waiting", "finalizing", "dropping", "ended"}
          /\ r \in Handlers => req'[r].pc \notin {"waiting", "keying"}
      BY SMTT(30), <1>0, <2>6 DEF Stage, Finalize, DropReservation, Discards, TypeOK
    <3> QED
      BY SMTT(30), <1>0, <2>1, <2>2, <3>1, KeyFrame DEF Claims
  <2> QED
    BY Zenon, <1>1, <2>3, <2>4, <2>5, <2>6
<1>2. ASSUME NEW r \in Requests, ReserveKey(r) PROVE KeyInv'
  <2>1. r \in Uploads /\ docs' = docs
    BY Zenon, <1>2 DEF ReserveKey, KeyInv, Requests
  <2>2. \A s \in Requests \ {r} : req'[s] = req[s]
    BY Zenon, <1>0, <1>2 DEF ReserveKey, TypeOK
  <2>3. \A s \in Handlers : req'[s].pc \notin {"waiting", "keying"}
    BY Zenon, <2>1, <2>2, RequestKinds DEF KeyInv
  <2>4. CASE answer' = answer
    <3>1. ASSUME NEW s \in Uploads, s # r, Key[s] = Key[r], Key[r] # NoKey, Claims(s)
          PROVE  ~Claims(r)' \/ Claims(r)
      <4>1. CASE req'[r].pc = "finalizing"
        BY Zenon, <2>1, <4>1 DEF Claims
      <4>2. CASE KeyFree(r) /\ {q \in docs \cap Uploads : Key[q] = Key[r]} = {}
        BY Zenon, <3>1, <4>2 DEF KeyFree, Claims
      <4> QED
        BY SMTT(30), <1>0, <1>2, <3>1, <4>1, <4>2 DEF ReserveKey, TypeOK
    <3>2. \A s \in Uploads : s # r => (Claims(s)' <=> Claims(s))
      BY Zenon, <2>1, <2>2, RequestKinds DEF Claims
    <3> QED
      BY SMTT(30), <1>0, <2>1, <2>3, <2>4, <3>1, <3>2 DEF KeyInv
  <2>5. CASE answer' # answer
    <3>1. PICK q \in docs \cap Uploads :
            /\ Key[q] = Key[r] /\ Goto(r, "finalizing")
            /\ answer' = [answer EXCEPT ![r] = IF Digest[q] = Digest[r] THEN q ELSE @]
      BY Zenon, <1>2, <2>5 DEF ReserveKey
    <3>2. \A s \in Uploads : Claims(s)' => Claims(s)
      BY SMTT(30), <1>0, <2>1, <2>2, <3>1, RequestKinds DEF Claims, TypeOK
    <3>3. \A s \in Uploads : s # r => answer'[s] = answer[s]
      BY Zenon, <1>0, <3>1 DEF TypeOK
    <3>4. /\ answer'[r] \in {q, answer[r]}
          /\ answer'[r] = q => Digest[q] = Digest[r] \/ answer[r] = q
      BY Zenon, <1>0, <2>1, <3>1 DEF TypeOK
    <3> QED
      BY SMTT(30), <1>0, <2>1, <2>3, <3>1, <3>2, <3>3, <3>4 DEF KeyInv
  <2> QED
    BY Zenon, <2>4, <2>5
<1>3. ASSUME NEW r \in Requests, CommitRows(r) PROVE KeyInv'
  <2>1. /\ Claims(r) /\ docs' = docs \cup {r} /\ req'[r].pc = "finalizing"
        /\ \A s \in Requests \ {r} : req'[s] = req[s]
    BY SMTT(30), <1>0, <1>3 DEF CommitRows, Claims, TypeOK
  <2>2. \A s \in Uploads : Claims(s)' => Claims(s)
    BY Zenon, <2>1, RequestKinds DEF Claims
  <2>3. \A s \in Handlers : req'[s].pc \notin {"waiting", "keying"}
    BY Zenon, <2>1, RequestKinds DEF KeyInv
  <2>4. \A s \in Uploads : answer'[s] = IF s = r THEN r ELSE answer[s]
    BY SMTT(30), <1>0, <1>3 DEF CommitRows, TypeOK
  <2> QED
    BY SMTT(30), <1>0, <2>1, <2>2, <2>3, <2>4 DEF KeyInv
<1>4. ASSUME NEW r \in Requests, Fail(r) \/ Land(r) \/ GrowOld(r) PROVE KeyInv'
  <2>1. answer' = answer /\ docs \subseteq docs' /\ docs' \subseteq docs \cup {r}
    BY Zenon, <1>4 DEF Fail, Abort, CommitUnconfirmed, PublishFault, FinalizeFault, Land, GrowOld
  <2>2. \A s \in Requests \ {r} : req'[s] = req[s]
    BY Zenon, <1>0, <1>4 DEF Fail, Abort, CommitUnconfirmed, PublishFault, FinalizeFault, Land, GrowOld,
       Discards, TypeOK
  <2>3. req'[r] = req[r] \/ req'[r].pc \in {"finalizing", "ended"}
    BY SMTT(30), <1>0, <1>4 DEF Fail, Abort, CommitUnconfirmed, PublishFault, FinalizeFault, Land, GrowOld,
       Discards, TypeOK
  <2>4. r \in docs' => Claims(r)
    BY Zenon, <1>4 DEF Fail, Abort, CommitUnconfirmed, PublishFault, FinalizeFault, Land, GrowOld, Claims
  <2> QED
    BY SMTT(30), <1>0, <2>1, <2>2, <2>3, <2>4, KeyFrame, RequestKinds DEF Claims, KeyInv
<1>5. CASE CrashApi \/ CrashWorker
  <2>1. PICK victims \in SUBSET Requests, sent \in SUBSET Requests :
            /\ req' = Killed(victims, sent)
            /\ \A r \in sent : req[r].pc = "writing"
    BY Zenon, <1>5, RequestKinds DEF CrashApi, CrashWorker, MaySend
  <2>2. ASSUME NEW s \in Requests
        PROVE  \/ req'[s].pc \in {req[s].pc, "ended"}
               \/ req'[s].pc = "inflight" /\ req[s].pc = "writing"
    <3>1. CASE req'[s] = req[s]
      BY Zenon, <3>1
    <3>2. CASE req'[s] = [pc |-> "ended", shared |-> FALSE]
      BY SMTT(30), <3>2
    <3>3. CASE s \in sent /\ req'[s] = [pc |-> "inflight", shared |-> FALSE]
      BY SMTT(30), <2>1, <3>3
    <3> QED
      BY Zenon, <2>1, <3>1, <3>2, <3>3 DEF Killed
  <2>3. answer' = answer /\ docs' = docs
    BY Zenon, <1>5 DEF CrashApi, CrashWorker
  <2> QED
    BY Zenon, <1>0, <2>2, <2>3, KeyFrame, RequestKinds DEF Claims, KeyInv
<1>6. CASE \/ CrashPreflight \/ Restart \/ ReconcileAtStartup \/ Preflight \/ Reconcile
           \/ UNCHANGED vars
  <2>1. answer' = answer /\ docs' = docs /\ req' = req
    BY Zenon, <1>6 DEF CrashPreflight, Restart, ReconcileAtStartup, Preflight, Reconcile, RemoveBlob,
       RemoveReservation, FinishReconcile, vars
  <2> QED
    BY Zenon, <1>0, <2>1, KeyFrame DEF Claims, KeyInv
<1> QED
  BY Zenon, <1>1, <1>2, <1>3, <1>4, <1>5, <1>6 DEF Next, Serve

(* One key makes one document and every answered retry is answered with it
   (reserve_upload_idempotency, create_source_companion), for any uploads. *)
THEOREM RetriesAreSafe == Spec => []RetryIsSameDocument
<1>1. Init => KeyInv
  <2> SUFFICES ASSUME Init PROVE KeyInv
    BY SMTT(30)
  <2>1. TypeOK
    BY Zenon, StorageInit DEF StorageInv
  <2> QED
    BY Zenon, <2>1, RequestKinds DEF Init, KeyInv, Claims
<1>2. KeyInv /\ [Next]_vars => KeyInv'
  BY Zenon, KeyStep
<1>3. KeyInv => RetryIsSameDocument
  BY SMTT(30) DEF KeyInv, RetryIsSameDocument, Claims
<1> QED
  BY <1>1, <1>2, <1>3, PTL DEF Spec

-----------------------------------------------------------------------------
(* What it takes for every orphan to be tracked: no OSError while publishing,
   no startup that takes every blob for referenced, and originals whose bytes
   are not those of a derivative, since the reconciler compares digests and
   not names. *)
NothingIsForgotten ==
    /\ MaxIoFaults = 0 /\ MaxOutages = 0
    /\ \A r, s \in Requests : Digest[r] = Digest[s] => Namespace(r) = Namespace(s)

Unpublished == {"new", "reserving", "staging", "waiting", "keying", "intent"}

(* A reservation is published from its intent on, it is finalized as such only
   behind its rows, and the reconciler has seen committed rows only. *)
OrphanInv ==
    /\ OrphansAreTracked
    /\ budget["io"] = 0 /\ budget["outage"] = 0
    /\ rec.snapshot \subseteq References
    /\ \A r \in Requests :
        /\ req[r].pc \in Unpublished => ~Published(r)
        /\ req[r].pc \in {"finalizing", "dropping"} => r \in docs \/ ~Published(r)

(* A step that touches the files of one reservation keeps the invariant, when
   a published blob of it goes, gets a row, keeps its manifest, or shares its
   name with a committed one. *)
LEMMA OrphanFrame ==
    ASSUME OrphanInv, NEW r \in Requests, docs \subseteq docs',
           blobs' \subseteq blobs \cup {Blob(r)}, Blob(r) \in blobs' \ blobs => Published(r)',
           Published(r) /\ Blob(r) \in blobs' =>
                r \in docs' \/ Published(r)' \/ \E s \in docs \cap Requests : Blob(s) = Blob(r),
           \A s \in Requests \ {r} : req'[s] = req[s] /\ manifest'[s] = manifest[s],
           budget' = budget, rec'.snapshot \subseteq rec.snapshot,
           req'[r].pc \in Unpublished => ~Published(r)',
           req'[r].pc \in {"finalizing", "dropping"} => r \in docs' \/ ~Published(r)'
    PROVE  OrphanInv'
<1>1. OrphansAreTracked'
  <2> SUFFICES ASSUME NEW b \in blobs'
               PROVE  \E s \in Requests : Blob(s) = b /\ (s \in docs' \/ Published(s)')
    BY Zenon DEF OrphansAreTracked, Blob, Namespace
  <2>1. CASE b \notin blobs
    BY Zenon, <2>1
  <2>2. CASE b \in blobs
    <3>1. PICK s \in Requests : Blob(s) = b /\ (s \in docs \/ Published(s))
      BY Zenon, <2>2 DEF OrphanInv, OrphansAreTracked
    <3>2. CASE s # r
      BY Zenon, <3>1, <3>2 DEF Published
    <3>3. CASE s = r
      BY Zenon, <3>1, <3>3
    <3> QED
      BY Zenon, <3>2, <3>3
  <2> QED
    BY Zenon, <2>1, <2>2
<1>2. rec'.snapshot \subseteq References'
  BY Zenon DEF OrphanInv, References
<1>3. \A s \in Requests :
        /\ req'[s].pc \in Unpublished => ~Published(s)'
        /\ req'[s].pc \in {"finalizing", "dropping"} => s \in docs' \/ ~Published(s)'
  BY Zenon DEF OrphanInv, Published
<1> QED
  BY Zenon, <1>1, <1>2, <1>3 DEF OrphanInv

(* The steps of a request. *)
LEMMA OrphanServe ==
    ASSUME StorageInv, OrphanInv, NEW r \in Requests,
           Reserve(r) \/ Serve(r) \/ Fail(r) \/ Land(r) \/ GrowOld(r)
    PROVE  OrphanInv'
<1> USE DEF Goto, End, Unpublished, Published
<1> USE OrphanFrame
<1>0. /\ TypeOK /\ (req[r].pc \in Publishing => Published(r))
      /\ (req[r].pc \in Unpublished => ~Published(r))
      /\ (req[r].pc \in {"finalizing", "dropping"} => r \in docs \/ ~Published(r))
      /\ budget["io"] = 0
  BY Zenon DEF StorageInv, ManifestsAreKept, OrphanInv
<1>1. CASE Reserve(r)
  BY Zenon, <1>0, <1>1 DEF Reserve, TypeOK
<1>2. CASE WriteManifest(r)
  BY Zenon, <1>0, <1>2 DEF WriteManifest, TypeOK
<1>3. CASE Stage(r)
  BY SMTT(30), <1>0, <1>3 DEF Stage, Discards, TypeOK, files
<1>4. CASE AcquireShared(r)
  BY Zenon, <1>0, <1>4 DEF AcquireShared, TypeOK, files
<1>5. CASE ReserveKey(r)
  BY SMTT(30), <1>0, <1>5 DEF ReserveKey, TypeOK, files
<1>6. CASE PersistIntent(r)
  BY SMTT(30), <1>0, <1>6 DEF PersistIntent, Discards, TypeOK
<1>7. CASE Link(r)
  BY SMTT(30), <1>0, <1>7 DEF Link, TypeOK, Publishing
<1>8. CASE RecordPublished(r)
  BY SMTT(30), <1>0, <1>8 DEF RecordPublished, TypeOK
<1>9. CASE UnlinkPayload(r)
  BY SMTT(30), <1>0, <1>9 DEF UnlinkPayload, TypeOK
<1>10. CASE CommitRows(r)
  BY SMTT(30), <1>0, <1>10 DEF CommitRows, TypeOK, files
<1>11. CASE Finalize(r)
  BY SMTT(30), <1>0, <1>11 DEF Finalize, TypeOK
<1>12. CASE DropReservation(r)
  BY SMTT(30), <1>0, <1>12 DEF DropReservation, TypeOK
<1>13. CASE Fail(r)
  <2>1. CASE Abort(r)
    BY Zenon, <1>0, <2>1 DEF Abort, TypeOK, files
  <2>2. CASE CommitUnconfirmed(r)
    BY Zenon, <1>0, <2>2 DEF CommitUnconfirmed, TypeOK, files
  <2>3. ~PublishFault(r) /\ ~FinalizeFault(r)
    BY SMTT(30), <1>0 DEF PublishFault, FinalizeFault, Spend
  <2> QED
    BY Zenon, <1>13, <2>1, <2>2, <2>3 DEF Fail
<1>14. CASE Land(r)
  BY Zenon, <1>0, <1>14 DEF Land, TypeOK, files
<1>15. CASE GrowOld(r)
  BY Zenon, <1>0, <1>15 DEF GrowOld, TypeOK
<1> QED
  BY Zenon, <1>1, <1>2, <1>3, <1>4, <1>5, <1>6, <1>7, <1>8, <1>9, <1>10, <1>11, <1>12, <1>13, <1>14,
     <1>15 DEF Serve

(* The reconciler removes a published reservation when its blob is gone or
   belongs to a committed row. *)
LEMMA OrphanRemove ==
    ASSUME StorageInv, OrphanInv, NothingIsForgotten, NEW r \in Requests,
           RemoveBlob(r) \/ RemoveReservation(r)
    PROVE  OrphanInv'
<1>0. /\ TypeOK /\ (req[r].pc \in Unpublished => ~Published(r))
      /\ (req[r].pc \in {"finalizing", "dropping"} => r \in docs \/ ~Published(r))
      /\ rec.snapshot \subseteq References /\ docs \subseteq Requests
  BY Zenon DEF StorageInv, OrphanInv, TypeOK
<1>1. CASE RemoveBlob(r)
  BY Zenon, <1>0, <1>1, OrphanFrame DEF RemoveBlob, Published
<1>2. CASE RemoveReservation(r)
  <2>1. Published(r) /\ Blob(r) \in blobs => \E s \in docs \cap Requests : Blob(s) = Blob(r)
    <3> SUFFICES ASSUME Published(r), Blob(r) \in blobs
                 PROVE  \E s \in docs \cap Requests : Blob(s) = Blob(r)
      BY SMTT(30)
    <3>1. Digest[r] \in rec.snapshot
      BY Zenon, <1>2 DEF RemoveReservation, Removable, Retained
    <3>2. PICK s \in docs : Digest[s] = Digest[r]
      BY Zenon, <1>0, <3>1 DEF References
    <3> QED
      BY Zenon, <1>0, <3>2 DEF NothingIsForgotten, Blob
  <2>2. /\ manifest'[r] \in {manifest[r], "none"} /\ UNCHANGED <<req, blobs, docs, budget>>
        /\ \A s \in Requests \ {r} : manifest'[s] = manifest[s]
        /\ rec'.snapshot = rec.snapshot
    BY Zenon, <1>0, <1>2 DEF RemoveReservation, TypeOK
  <2> QED
    BY Zenon, <1>0, <2>1, <2>2, OrphanFrame DEF Published
<1> QED
  BY Zenon, <1>1, <1>2

(* Kills, restarts and the beginning and end of a reconciliation touch no file
   of a reservation but its payload. *)
LEMMA OrphanQuiet ==
    ASSUME OrphanInv, UNCHANGED <<manifest, blobs, docs>>,
           \A r \in Requests : req'[r] = req[r] \/ req'[r].pc \in {"ended", "inflight"},
           budget'["io"] = 0 /\ budget'["outage"] = 0, rec'.snapshot \subseteq References
    PROVE  OrphanInv'
<1>1. OrphansAreTracked'
  BY Zenon DEF OrphanInv, OrphansAreTracked, Blob, Namespace, Published
<1>2. References' = References
  BY Zenon DEF References
<1> QED
  BY Zenon, <1>1, <1>2 DEF OrphanInv, Published, Unpublished

(* Every step keeps the invariant. *)
LEMMA OrphanStep ==
    ASSUME StorageInv, OrphanInv, NothingIsForgotten, [Next]_vars
    PROVE  OrphanInv'
<1>0. TypeOK /\ budget["io"] = 0 /\ budget["outage"] = 0 /\ rec.snapshot \subseteq References
  BY Zenon DEF StorageInv, OrphanInv
<1>1. ASSUME NEW r \in Requests, Reserve(r) \/ Serve(r) \/ Fail(r) \/ Land(r) \/ GrowOld(r)
      PROVE  OrphanInv'
  BY Zenon, <1>1, OrphanServe
<1>2. ASSUME NEW r \in Requests, RemoveBlob(r) \/ RemoveReservation(r)
      PROVE  OrphanInv'
  BY Zenon, <1>2, OrphanRemove
<1>3. ASSUME NEW fault \in {"crash", "preflight"}, Spend(fault)
      PROVE  budget'["io"] = 0 /\ budget'["outage"] = 0
  BY Zenon, <1>0, <1>3 DEF Spend, TypeOK
<1>4. CASE CrashApi \/ CrashWorker \/ CrashPreflight
  <2>1. /\ UNCHANGED <<manifest, blobs, docs>> /\ Spend("crash") /\ rec' \in {rec, Idle}
        /\ \E victims, sent : req' \in {req, Killed(victims, sent)}
    BY Zenon, <1>4 DEF CrashApi, CrashWorker, CrashPreflight, files
  <2>2. ASSUME NEW victims, NEW sent, NEW r \in Requests
        PROVE  \/ Killed(victims, sent)[r] = req[r]
               \/ Killed(victims, sent)[r].pc \in {"ended", "inflight"}
    BY Zenon DEF Killed
  <2>3. \A r \in Requests : req'[r] = req[r] \/ req'[r].pc \in {"ended", "inflight"}
    BY Zenon, <2>1, <2>2
  <2>4. rec'.snapshot \subseteq References
    BY SMTT(30), <1>0, <2>1 DEF Idle
  <2> QED
    BY Zenon, <1>3, <2>1, <2>3, <2>4, OrphanQuiet
<1>5. CASE ReconcileAtStartup
  <2>1. ~Spend("outage")
    BY SMTT(30), <1>0 DEF Spend
  <2>2. Load("startup", References) /\ UNCHANGED <<req, manifest, blobs, docs, budget>>
    BY Zenon, <1>5, <2>1 DEF ReconcileAtStartup, files
  <2>3. rec'.snapshot = References
    BY Zenon, <2>2 DEF Load
  <2> QED
    BY Zenon, <1>0, <2>2, <2>3, OrphanQuiet
<1>6. CASE Preflight
  <2>1. /\ Load("preflight", References) /\ Spend("preflight")
        /\ UNCHANGED <<req, manifest, blobs, docs>>
    BY Zenon, <1>6 DEF Preflight, files
  <2>2. rec'.snapshot = References
    BY Zenon, <2>1 DEF Load
  <2> QED
    BY Zenon, <1>3, <2>1, <2>2, OrphanQuiet
<1>7. CASE FinishReconcile \/ Restart \/ UNCHANGED vars
  <2>1. UNCHANGED <<req, manifest, blobs, docs, budget>> /\ rec' \in {rec, Idle}
    BY Zenon, <1>7 DEF FinishReconcile, Restart, vars, files
  <2>2. rec'.snapshot \subseteq References
    BY SMTT(30), <1>0, <2>1 DEF Idle
  <2> QED
    BY Zenon, <1>0, <2>1, <2>2, OrphanQuiet
<1> QED
  BY Zenon, <1>1, <1>2, <1>4, <1>5, <1>6, <1>7 DEF Next, Reconcile

(* A blob that no row refers to is named by a manifest, so that the reconciler
   finds it (upload_document, reconcile_storage): for any requests, kills and
   preflights. *)
THEOREM OrphansStayTracked ==
    ASSUME NothingIsForgotten, ~SlowCommits
    PROVE  Spec => []OrphansAreTracked
<1>1. Init => StorageInv /\ OrphanInv
  <2> SUFFICES ASSUME Init PROVE OrphanInv
    BY Zenon, StorageInit
  <2>1. budget["io"] = 0 /\ budget["outage"] = 0 /\ rec.snapshot = {}
    BY Zenon DEF Init, NothingIsForgotten, Idle
  <2>2. OrphansAreTracked /\ \A r \in Requests : ~Published(r)
    BY Zenon DEF Init, OrphansAreTracked, Published
  <2> QED
    BY Zenon, <2>1, <2>2 DEF OrphanInv
<1>2. StorageInv /\ OrphanInv /\ [Next]_vars => (StorageInv /\ OrphanInv)'
  BY Zenon, StorageStep, OrphanStep
<1>3. OrphanInv => OrphansAreTracked
  BY Zenon DEF OrphanInv
<1> QED
  BY <1>1, <1>2, <1>3, PTL DEF Spec
====
