--------------------------- MODULE UploadStorage ---------------------------
(***************************************************************************)
(* How original and derived bytes reach the content-addressed store: the   *)
(* upload handlers of the API and the process_document handlers of the     *)
(* universal worker reserve a quarantine file, publish it under its digest *)
(* and commit the rows that refer to it; the reconciler at API startup and *)
(* the maintenance preflight clear what crashes and failures left behind.  *)
(*                                                                         *)
(* Every write to the file system is a step of its own, because a process  *)
(* may be killed between any two of them.  A request owns one reservation, *)
(* named after it; retries are further requests.                           *)
(***************************************************************************)
EXTENDS Naturals, FiniteSets

CONSTANTS
    Uploads,       \* upload_document and append_original_version requests
    Handlers,      \* process_document attempts that publish a derivative
    Digest,        \* [Uploads \cup Handlers -> digests], sha256 of the bytes
    Key,           \* [Uploads -> idempotency keys and NoKey]
    NoKey,         \* no Idempotency-Key header
    NoAnswer,      \* no response was sent
    SlowCommits,   \* whether a COMMIT may be sent later than the grace
    MaxCrashes,    \* bound: hard kills of a process
    MaxIoFaults,   \* bound: OSErrors while publishing or finalizing
    MaxOutages,    \* bound: startups without a reference snapshot
    MaxPreflights  \* bound: runs of the maintenance preflight

Requests == Uploads \cup Handlers

ASSUME StorageAssumption ==
    /\ Uploads \cap Handlers = {}
    /\ DOMAIN Digest = Requests /\ DOMAIN Key = Uploads
    /\ NoAnswer \notin Requests
    /\ SlowCommits \in BOOLEAN
    /\ \A n \in {MaxCrashes, MaxIoFaults, MaxOutages, MaxPreflights} : n \in Nat

VARIABLES
    req,       \* [Requests -> [pc, shared]], the handler and its shared lock
    manifest,  \* [Requests -> ManifestStates], the reservation's manifest file
    payload,   \* [Requests -> BOOLEAN], the reservation's .part file
    old,       \* [Requests -> BOOLEAN], the reservation is as old as the grace
    blobs,     \* content-addressed files on disk
    docs,      \* requests whose document_files rows are committed
    answer,    \* [Uploads -> Requests \cup {NoAnswer}], the document answered
    rec,       \* the reconciler that holds the exclusive lock, if any
    api,       \* "starting" until the startup reconciliation is over
    budget     \* [faults -> Nat], faults that may still happen

files == <<manifest, payload, old, blobs>>
vars  == <<req, files, docs, answer, rec, api, budget>>

Steps == {"new", "reserving", "staging", "waiting", "keying", "intent", "linking",
          "recording", "cleaning", "writing", "inflight", "finalizing", "dropping", "ended"}
ManifestStates == {"none", "reserved", "publishing", "published", "finalized"}
Namespace(r) == IF r \in Uploads THEN "originals" ELSE "derivatives"
Blob(r) == <<Namespace(r), Digest[r]>>
Digests == {Digest[r] : r \in Requests}
Idle == [kind |-> "none", todo |-> {}, known |-> {}, active |-> {}, snapshot |-> {}]

(* Type invariant. *)
TypeOK ==
    /\ req \in [Requests -> [pc : Steps, shared : BOOLEAN]]
    /\ manifest \in [Requests -> ManifestStates]
    /\ payload \in [Requests -> BOOLEAN]
    /\ old \in [Requests -> BOOLEAN]
    /\ blobs \subseteq {Blob(r) : r \in Requests}
    /\ docs \subseteq Requests
    /\ answer \in [Uploads -> Requests \cup {NoAnswer}]
    /\ rec \in [kind : {"none", "startup", "preflight"}, todo : SUBSET Requests,
                known : SUBSET Requests, active : SUBSET Digests,
                snapshot : SUBSET Digests]
    /\ api \in {"starting", "up"}
    /\ budget \in [{"crash", "io", "outage", "preflight"} -> Nat]

(* An empty store and an API process about to start. *)
Init ==
    /\ req = [r \in Requests |-> [pc |-> "new", shared |-> FALSE]]
    /\ manifest = [r \in Requests |-> "none"]
    /\ payload = [r \in Requests |-> FALSE]
    /\ old = [r \in Requests |-> FALSE]
    /\ blobs = {}
    /\ docs = {}
    /\ answer = [r \in Uploads |-> NoAnswer]
    /\ rec = Idle
    /\ api = "starting"
    /\ budget = [crash |-> MaxCrashes, io |-> MaxIoFaults, outage |-> MaxOutages,
                 preflight |-> MaxPreflights]

-----------------------------------------------------------------------------
Live(r) == req[r].pc \notin {"new", "inflight", "ended"}
Goto(r, step) == req' = [req EXCEPT ![r].pc = step]
End(r) == req' = [req EXCEPT ![r] = [pc |-> "ended", shared |-> FALSE]]
Spend(fault) == budget[fault] > 0 /\ budget' = [budget EXCEPT ![fault] = @ - 1]

(* The exception handlers of an upload discard a reservation that was not
   published; a worker's handler leaves its reservation to the reconciler. *)
Discards(r) == IF r \in Uploads THEN Goto(r, "finalizing") ELSE End(r)

(* reserve_quarantine creates the payload file first, then the manifest.  A
   worker's handler takes the shared lock before it starts. *)
Reserve(r) ==
    /\ req[r].pc = "new"
    /\ IF r \in Uploads THEN api = "up" ELSE rec.kind = "none"
    /\ req' = [req EXCEPT ![r] = [pc |-> "reserving", shared |-> r \in Handlers]]
    /\ payload' = [payload EXCEPT ![r] = TRUE]
    /\ old' = [old EXCEPT ![r] = FALSE]
    /\ UNCHANGED <<manifest, blobs, docs, answer, rec, api, budget>>

WriteManifest(r) ==
    /\ req[r].pc = "reserving"
    /\ manifest' = [manifest EXCEPT ![r] = "reserved"]
    /\ old' = [old EXCEPT ![r] = FALSE]
    /\ Goto(r, "staging")
    /\ UNCHANGED <<payload, blobs, docs, answer, rec, api, budget>>

(* _stage_upload reads the payload back; a rejected or vanished payload is
   discarded. *)
Stage(r) ==
    /\ req[r].pc = "staging"
    /\ \/ payload[r] /\ Goto(r, IF r \in Uploads THEN "waiting" ELSE "intent")
       \/ Discards(r)
    /\ UNCHANGED <<files, docs, answer, rec, api, budget>>

(* async_storage_lock(shared=True). *)
AcquireShared(r) ==
    /\ req[r].pc = "waiting"
    /\ rec.kind = "none"
    /\ req' = [req EXCEPT ![r] = [pc |-> "keying", shared |-> TRUE]]
    /\ UNCHANGED <<files, docs, answer, rec, api, budget>>

(* Wrong variant: nothing serializes two requests with one key. *)
KeyFreeAlways(r) == TRUE

(* The advisory lock on the key lasts as long as the transaction, also when
   the process that opened it is gone and its commit is still in flight. *)
KeyFree(r) ==
    \A s \in Uploads \ {r} :
        Key[s] = Key[r] => req[s].pc \notin {"intent", "linking", "recording", "cleaning",
                                             "writing", "inflight"}

(* reserve_upload_idempotency: a bound key replays the answer of the same
   bytes and refuses others; the activation check before it may refuse too. *)
ReserveKey(r) ==
    /\ req[r].pc = "keying"
    /\ \/ /\ Key[r] = NoKey
          /\ Goto(r, "intent")
          /\ UNCHANGED answer
       \/ /\ Key[r] # NoKey
          /\ KeyFree(r)
          /\ LET bound == {s \in docs \cap Uploads : Key[s] = Key[r]} IN
             \/ /\ bound = {}
                /\ Goto(r, "intent")
                /\ UNCHANGED answer
             \/ \E s \in bound :
                /\ answer' = [answer EXCEPT ![r] = IF Digest[s] = Digest[r] THEN s ELSE @]
                /\ Goto(r, "finalizing")
       \/ /\ Goto(r, "finalizing")
          /\ UNCHANGED answer
    /\ UNCHANGED <<files, docs, rec, api, budget>>

(* publish_reserved_blob, one step per durable write.  The intent needs the
   manifest, and the payload or a blob with its bytes. *)
PersistIntent(r) ==
    /\ req[r].pc = "intent"
    /\ \/ /\ manifest[r] # "none"
          /\ payload[r] \/ Blob(r) \in blobs
          /\ manifest' = [manifest EXCEPT ![r] = "publishing"]
          /\ old' = [old EXCEPT ![r] = FALSE]
          /\ Goto(r, "linking")
       \/ /\ manifest[r] = "none" \/ ~(payload[r] \/ Blob(r) \in blobs)
          /\ Discards(r)
          /\ UNCHANGED <<manifest, old>>
    /\ UNCHANGED <<payload, blobs, docs, answer, rec, api, budget>>

Link(r) ==
    /\ req[r].pc = "linking"
    /\ blobs' = blobs \cup {Blob(r)}
    /\ Goto(r, "recording")
    /\ UNCHANGED <<manifest, payload, old, docs, answer, rec, api, budget>>

RecordPublished(r) ==
    /\ req[r].pc = "recording"
    /\ manifest' = [manifest EXCEPT ![r] = "published"]
    /\ Goto(r, "cleaning")
    /\ UNCHANGED <<payload, old, blobs, docs, answer, rec, api, budget>>

UnlinkPayload(r) ==
    /\ req[r].pc = "cleaning"
    /\ payload' = [payload EXCEPT ![r] = FALSE]
    /\ Goto(r, "writing")
    /\ UNCHANGED <<manifest, old, blobs, docs, answer, rec, api, budget>>

(* create_source_companion takes the key again in the same transaction: the
   reservation must still be this request's and bound to no intake. *)
SourceCompanion(r) ==
    r \in Uploads /\ Key[r] # NoKey => \A s \in docs \cap Uploads : Key[s] # Key[r]

(* create_with_raw or append_raw_source, enqueue and commit. *)
CommitRows(r) ==
    /\ req[r].pc = "writing"
    /\ SourceCompanion(r)
    /\ docs' = docs \cup {r}
    /\ answer' = IF r \in Uploads THEN [answer EXCEPT ![r] = r] ELSE answer
    /\ Goto(r, "finalizing")
    /\ UNCHANGED <<files, rec, api, budget>>

(* finalize_reservation: nothing without a manifest; otherwise the manifest
   says finalized before the payload and the manifest go. *)
Finalize(r) ==
    /\ req[r].pc = "finalizing"
    /\ \/ /\ manifest[r] = "none"
          /\ End(r)
          /\ UNCHANGED <<manifest, old>>
       \/ /\ manifest[r] # "none"
          /\ manifest' = [manifest EXCEPT ![r] = "finalized"]
          /\ old' = [old EXCEPT ![r] = FALSE]
          /\ Goto(r, "dropping")
    /\ UNCHANGED <<payload, blobs, docs, answer, rec, api, budget>>

DropReservation(r) ==
    /\ req[r].pc = "dropping"
    /\ \/ /\ payload[r]
          /\ payload' = [payload EXCEPT ![r] = FALSE]
          /\ UNCHANGED <<req, manifest, old>>
       \/ /\ ~payload[r]
          /\ manifest' = [manifest EXCEPT ![r] = "none"]
          /\ old' = [old EXCEPT ![r] = FALSE]
          /\ End(r)
          /\ UNCHANGED payload
    /\ UNCHANGED <<blobs, docs, answer, rec, api, budget>>

-----------------------------------------------------------------------------
(* Failures.  Wrong variant: the reservation is discarded even after its blob
   was published. *)
AbortDiscards(r) ==
    /\ req[r].pc \in {"staging", "waiting", "keying", "writing"}
    /\ Discards(r)
    /\ UNCHANGED <<files, docs, answer, rec, api, budget>>

(* The request is cancelled, or the database refuses the rows: staging, the
   waits for the two locks and everything after publication leave the
   reservation as it is. *)
Abort(r) ==
    /\ req[r].pc \in {"staging", "waiting", "keying", "writing"}
    /\ End(r)
    /\ UNCHANGED <<files, docs, answer, rec, api, budget>>

(* The commit is durable and its confirmation is lost. *)
CommitUnconfirmed(r) ==
    /\ req[r].pc = "writing"
    /\ SourceCompanion(r)
    /\ docs' = docs \cup {r}
    /\ End(r)
    /\ UNCHANGED <<files, answer, rec, api, budget>>

(* An OSError inside publish_reserved_blob leaves `published` unset, so the
   exception handler of an upload discards the reservation. *)
PublishFault(r) ==
    /\ req[r].pc \in {"intent", "linking", "recording", "cleaning"}
    /\ Spend("io")
    /\ Discards(r)
    /\ UNCHANGED <<files, docs, answer, rec, api>>

(* An OSError inside finalize_reservation is logged and swallowed. *)
FinalizeFault(r) ==
    /\ req[r].pc \in {"finalizing", "dropping"}
    /\ Spend("io")
    /\ End(r)
    /\ UNCHANGED <<files, docs, answer, rec, api>>

(* A kill ends every request of the process and drops its locks; a COMMIT
   that had reached the database may still take effect. *)
Killed(victims, sent) ==
    [r \in Requests |->
        IF r \in victims /\ Live(r)
        THEN [pc |-> IF r \in sent THEN "inflight" ELSE "ended", shared |-> FALSE]
        ELSE req[r]]

MaySend(S) == SUBSET {r \in S : req[r].pc = "writing" /\ (old[r] => SlowCommits)}

CrashApi ==
    \E sent \in MaySend(Uploads) :
        /\ Spend("crash")
        /\ req' = Killed(Uploads, sent)
        /\ api' = "starting"
        /\ rec' = IF rec.kind = "startup" THEN Idle ELSE rec
        /\ UNCHANGED <<files, docs, answer>>

CrashWorker ==
    /\ Spend("crash")
    /\ \E sent \in MaySend(Handlers) : req' = Killed(Handlers, sent)
    /\ req' # req
    /\ UNCHANGED <<files, docs, answer, rec, api>>

CrashPreflight ==
    /\ rec.kind = "preflight"
    /\ Spend("crash")
    /\ rec' = Idle
    /\ UNCHANGED <<req, files, docs, answer, api>>

(* The database settles a COMMIT whose client is gone. *)
Land(r) ==
    /\ req[r].pc = "inflight"
    /\ docs' \in {docs, docs \cup {r}}
    /\ End(r)
    /\ UNCHANGED <<files, answer, rec, api, budget>>

(* The reservation reaches the grace age.  The grace (ten minutes) is longer
   than the database takes to settle a COMMIT in flight. *)
GrowOld(r) ==
    /\ ~old[r]
    /\ payload[r] \/ manifest[r] # "none"
    /\ req[r].pc # "inflight"
    /\ old' = [old EXCEPT ![r] = TRUE]
    /\ UNCHANGED <<req, manifest, payload, blobs, docs, answer, rec, api, budget>>

-----------------------------------------------------------------------------
(* The reconciler.  Wrong variant: it does not wait for the publishers. *)
ExclusiveFreeAlways == rec.kind = "none"

(* async_storage_lock(shared=False). *)
ExclusiveFree ==
    /\ rec.kind = "none"
    /\ \A r \in Requests : ~req[r].shared

(* Startup leaves reservations younger than the grace alone; the preflight
   passes a grace of zero. *)
PastGrace(kind, r) == manifest[r] # "none" /\ (kind = "preflight" \/ old[r])

Published(r) == manifest[r] \in {"publishing", "published"}
Manifests == {r \in Requests : manifest[r] # "none"}

(* Everything loaded before the first file is removed: the manifests, the
   digests a young manifest protects, and the references of the database. *)
Load(kind, references) ==
    rec' = [kind |-> kind,
            todo |-> {r \in Requests : PastGrace(kind, r)},
            known |-> Manifests,
            active |-> {Digest[r] : r \in {s \in Requests :
                            Published(s) /\ ~PastGrace(kind, s)}},
            snapshot |-> references]

References == {Digest[r] : r \in docs}

(* _reconcile_storage, before the API serves requests.  Without a snapshot
   every published blob counts as referenced. *)
ReconcileAtStartup ==
    /\ api = "starting"
    /\ ExclusiveFree
    /\ \/ Load("startup", References) /\ UNCHANGED budget
       \/ Load("startup", Digests) /\ Spend("outage")
    /\ UNCHANGED <<req, files, docs, answer, api>>

(* maintenance_preflight: no job is leased, and the operator has let a commit
   that was in flight settle. *)
Preflight ==
    /\ Spend("preflight")
    /\ ExclusiveFree
    /\ \A r \in Handlers : ~Live(r)
    /\ \A r \in Requests : req[r].pc # "inflight"
    /\ Load("preflight", References)
    /\ UNCHANGED <<req, files, docs, answer, api>>

(* What the loop decides for one loaded manifest: a blob goes when no young
   manifest and no row of the snapshot has its digest. *)
Removable(r) ==
    /\ Published(r)
    /\ Digest[r] \notin rec.active
    /\ Digest[r] \notin rec.snapshot
    /\ Blob(r) \in blobs

(* Wrong variant: a publication that was interrupted is kept. *)
RetainedForEver(r) ==
    manifest[r] = "publishing" \/ (Published(r) /\ Digest[r] \in rec.active)

(* A manifest stays when a young one shares its digest. *)
Retained(r) == Published(r) /\ Digest[r] \in rec.active

RemoveBlob(r) ==
    /\ r \in rec.todo
    /\ Removable(r)
    /\ blobs' = blobs \ {Blob(r)}
    /\ UNCHANGED <<req, manifest, payload, old, docs, answer, rec, api, budget>>

RemoveReservation(r) ==
    /\ r \in rec.todo
    /\ ~Retained(r)
    /\ ~Removable(r)
    /\ \/ /\ payload[r]
          /\ payload' = [payload EXCEPT ![r] = FALSE]
          /\ UNCHANGED <<manifest, old, rec>>
       \/ /\ ~payload[r]
          /\ manifest' = [manifest EXCEPT ![r] = "none"]
          /\ old' = [old EXCEPT ![r] = FALSE]
          /\ rec' = [rec EXCEPT !.todo = @ \ {r}]
          /\ UNCHANGED payload
    /\ UNCHANGED <<req, blobs, docs, answer, api, budget>>

(* The last loop removes payloads that have no manifest; then the lock is
   released and, at startup, the API begins to serve. *)
FinishReconcile ==
    /\ rec.kind # "none"
    /\ \A r \in rec.todo : Retained(r)
    /\ payload' = [r \in Requests |->
                     payload[r] /\ (r \in rec.known \/ (rec.kind = "startup" /\ ~old[r]))]
    /\ api' = IF rec.kind = "startup" THEN "up" ELSE api
    /\ rec' = Idle
    /\ UNCHANGED <<req, manifest, old, blobs, docs, answer, budget>>

(* An orderly restart once no request is being served. *)
Restart ==
    /\ api = "up"
    /\ \A r \in Uploads : ~Live(r)
    /\ api' = "starting"
    /\ UNCHANGED <<req, files, docs, answer, rec, budget>>

-----------------------------------------------------------------------------
Serve(r) ==
    \/ WriteManifest(r) \/ Stage(r) \/ AcquireShared(r) \/ ReserveKey(r)
    \/ PersistIntent(r) \/ Link(r) \/ RecordPublished(r) \/ UnlinkPayload(r)
    \/ CommitRows(r) \/ Finalize(r) \/ DropReservation(r)

Fail(r) == Abort(r) \/ CommitUnconfirmed(r) \/ PublishFault(r) \/ FinalizeFault(r)

Reconcile ==
    \/ \E r \in Requests : RemoveBlob(r) \/ RemoveReservation(r)
    \/ FinishReconcile

Next ==
    \/ \E r \in Requests : Reserve(r) \/ Serve(r) \/ Fail(r) \/ Land(r) \/ GrowOld(r)
    \/ CrashApi \/ CrashWorker \/ CrashPreflight \/ Restart
    \/ ReconcileAtStartup \/ Preflight \/ Reconcile

Spec == Init /\ [][Next]_vars

(* Handlers are scheduled, time passes, the database settles, a reconciler
   that started goes on, and the API is started again from time to time. *)
Fairness ==
    /\ \A r \in Requests : WF_vars(Serve(r)) /\ SF_vars(AcquireShared(r))
                           /\ WF_vars(Land(r)) /\ WF_vars(GrowOld(r))
    /\ WF_vars(ReconcileAtStartup) /\ WF_vars(Reconcile) /\ SF_vars(Restart)

FairSpec == Spec /\ Fairness

-----------------------------------------------------------------------------
(* No committed row ever points at a missing file, and a request between
   publishing its blob and committing its rows finds the blob in place:
   whatever crashed, whoever shared the digest, and whenever the reconciler
   ran. *)
SourcesArePreserved ==
    \A r \in Requests :
        r \in docs \/ req[r].pc \in {"recording", "cleaning", "writing", "inflight"}
            => Blob(r) \in blobs

(* One key makes one document, however often the upload is retried, and every
   retry that is answered is answered with that document and its own bytes. *)
RetryIsSameDocument ==
    /\ \A r, s \in docs \cap Uploads : Key[r] = Key[s] /\ Key[r] # NoKey => r = s
    /\ \A r, s \in Uploads :
          /\ answer[r] # NoAnswer => answer[r] \in docs /\ Digest[answer[r]] = Digest[r]
          /\ answer[r] # NoAnswer /\ answer[s] # NoAnswer /\ Key[r] = Key[s] /\ Key[r] # NoKey
                => answer[r] = answer[s]

(* "A published digest is never request-compensated. The grace-period,
   reference-aware reconciler decides whether an uncommitted blob is orphaned"
   (upload_document): an unreferenced blob is still named by a manifest. *)
OrphansAreTracked ==
    \A b \in blobs : \E r \in Requests : Blob(r) = b /\ (r \in docs \/ Published(r))

(* Every reservation ends, so nothing stays in quarantine for ever, and bytes
   that nobody refers to are eventually removed or referred to. *)
StorageSettles ==
    \A r \in Requests :
        /\ payload[r] \/ manifest[r] # "none" ~> ~payload[r] /\ manifest[r] = "none"
        /\ Blob(r) \in blobs ~> Blob(r) \notin blobs \/ \E s \in docs : Blob(s) = Blob(r)

=============================================================================
