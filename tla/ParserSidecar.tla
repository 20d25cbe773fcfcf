---------------------------- MODULE ParserSidecar ----------------------------
(***************************************************************************)
(* The parser sidecar and its two clients (ingest/parser_service.py,       *)
(* parser_runner.py, parser_artifacts.py, activation.py, the capability    *)
(* heartbeat of worker.py, the admission of routes/ingest.py and the       *)
(* artifact persistence of pipeline.py).                                   *)
(*                                                                         *)
(* The server takes one connection at a time and forks a child for every   *)
(* parse.  The API preflights an upload before it queues it; the worker    *)
(* runs the parse, validates the artifacts it receives and stores the      *)
(* pages and the normalized document.  Each build of the sidecar has its   *)
(* own registry digest, which stands for the build.                        *)
(*                                                                         *)
(* The protocol knows the formats through four operators only.  The model  *)
(* that is checked takes them from the modules of the parsers: Adapter is  *)
(* AdapterHandler and SelfTest is StartupSelfTest of ParserRegistry, Shows *)
(* is Conserved and Fits is Bounded of ParseReference.                     *)
(***************************************************************************)
EXTENDS ParserArtifacts, IntakeDecision

CONSTANTS
    Adapter(_, _),  \* the parse that the adapter of a format makes of a source
    SelfTest(_),    \* of formats whose libraries work, those that pass the self test
    Shows(_, _),    \* a parse shows the visible content of its source
    Fits(_),        \* a source is within the limits
    Items,          \* uploads
    Loads,          \* what the uploads carry, and how many faults they meet
    Builds,         \* sidecar builds
    Working,        \* for each build, the formats whose parser libraries work
    Enabled,        \* ... and the formats it advertises, which pass the self test
    MaxTries,       \* job_max_attempts
    MaxReprocess,   \* bound on reprocess requests for one upload
    None            \* no build, no call

Heartbeat == "heartbeat"
Callers == Items \cup {Heartbeat}
Requests == [who : Callers, op : {"probe", "preflight", "run"}, digest : Builds \cup {None},
             open : BOOLEAN]

(* The format that a request names: the one detected at the upload. *)
Format(s) == InspectFile(s.file).format

(* What an adapter returns depends on the source and the limits only. *)
Sources == UNION {{l.src[i] : i \in DOMAIN l.src} : l \in Loads}
Parsed == [s \in Sources |-> Adapter(Format(s), s)]

ASSUME SidecarAssumption ==
    /\ None \notin Builds \cup Requests /\ Heartbeat \notin Items
    /\ \A l \in Loads : DOMAIN l.src \subseteq Items /\ l.faults \in Nat
    /\ \A s \in Sources : s.file \in Evidence
    /\ Enabled = [b \in Builds |-> SelfTest(Working[b])]
    /\ \E b \in Builds : IsRegistry(Enabled[b])
    /\ MaxTries \in Nat \ {0} /\ MaxReprocess \in Nat

(* An adapter announces the files it sends, one image for each page of a   *)
(* PDF within the page limit, and reports how the preview went.  (A PDF    *)
(* may have no pages at all; its manifest alone is then refused.)          *)
ASSUME AdapterAssumption ==
    \A s \in Sources :
        LET doc == Parsed[s]
        IN  /\ {"err", "arts", "prov", "preview"} \subseteq DOMAIN doc
            /\ doc.arts \in Seq(Artifacts) /\ doc.prov \in Seq(STRING)
            /\ doc.preview \notin Builds \cup {None}
            /\ doc.err = "none" =>
                 /\ Announced(s.fmt, doc)
                 /\ s.fmt = "pdf" => Len(doc.prov) = Len(s.pages) /\ Len(s.pages) <= Limits.pages

VARIABLES
    src,        \* the source of each upload
    server,     \* the sidecar: its build, whether its evidence is verified
    conns,      \* connections waiting to be accepted
    cur,        \* the request that is being handled
    child,      \* the forked parser: its state, the message it sent
    got,        \* the parent has received the child's message
    held,       \* descriptors that the server holds for this request
    reply,      \* what each caller waits for or has received
    api,        \* the registry that the API probed when it started
    worker,     \* the worker: its registry, probed digest, readiness, heartbeat
    lease,      \* the worker capability lease
    item,       \* where each upload is
    store,      \* page slots, preview manifest and normalized documents
    drift,      \* history: uploads with the other builds seen since their claim
    faults      \* faults left

vars == <<src, server, conns, cur, child, got, held, reply, api, worker, lease,
          item, store, drift, faults>>
sidecar == <<server, conns, cur, child, got, held>>
clients == <<api, worker, lease, item, store, drift>>

Idle == [kind |-> "idle"]
Waiting == [kind |-> "waiting"]
Refusal(reason) == [kind |-> "refused", reason |-> reason]
NoChild == [st |-> "none", msg |-> Refusal("none")]
Fault == faults > 0 /\ faults' = faults - 1

Init ==
    \E b \in {a \in Builds : IsRegistry(Enabled[a])}, l \in Loads :
        /\ src = l.src
        /\ server = [build |-> b, ready |-> TRUE]
        /\ conns = <<>> /\ cur = None /\ child = NoChild /\ got = FALSE /\ held = 0
        /\ reply = [c \in Callers |-> Idle]
        /\ api = b
        /\ worker = [reg |-> b, digest |-> b, ready |-> TRUE, beat |-> "idle"]
        /\ lease = [reg |-> b, ok |-> TRUE, fresh |-> TRUE]
        /\ item = [i \in Items |-> [phase |-> IF i \in DOMAIN src THEN "new" ELSE "absent",
                                    reg |-> None, tries |-> 0, again |-> 0, doc |-> <<>>, by |-> None]]
        /\ store = [i \in Items |-> [slots |-> <<>>, manifest |-> None, docs |-> {}]]
        /\ drift = {}
        /\ faults = l.faults

(***************************************************************************)
(* The wire: SidecarSandboxBackend._request.  A caller has at most one     *)
(* open connection; a caller that gives up closes it, and the request may  *)
(* still be handled.                                                       *)
(***************************************************************************)
Request(c, op, digest) == [who |-> c, op |-> op, digest |-> digest, open |-> TRUE]

Send(c, op, digest) ==
    IF server.build = None
    THEN reply' = [reply EXCEPT ![c] = Refusal("sidecar request failed")] /\ UNCHANGED conns
    ELSE /\ conns' = Append(conns, Request(c, op, digest))
         /\ reply' = [reply EXCEPT ![c] = Waiting]

Hangup(call, c) == IF call.who = c THEN [call EXCEPT !.open = FALSE] ELSE call

ClientTimeout(c) ==
    /\ Fault
    /\ reply[c] = Waiting
    /\ reply' = [reply EXCEPT ![c] = Refusal("timeout")]
    /\ conns' = [k \in DOMAIN conns |-> Hangup(conns[k], c)]
    /\ cur' = IF cur = None THEN None ELSE Hangup(cur, c)
    /\ UNCHANGED <<src, server, child, got, held, clients>>

(***************************************************************************)
(* ParserSidecarServer.handle_connection                                   *)
(***************************************************************************)
Answered(call, r) == [reply EXCEPT ![call.who] = IF call.open THEN r ELSE @]
ProbeResult == IF server.ready THEN [kind |-> "probe", build |-> server.build]
               ELSE Refusal("sandbox_unavailable")

HandleConnection ==
    /\ server.build # None /\ cur = None /\ conns # <<>>
    /\ conns' = Tail(conns)
    /\ LET call == Head(conns)
       IN  IF call.op = "probe" \/ ~server.ready
           THEN /\ reply' = Answered(call, IF call.op = "probe" THEN ProbeResult
                                           ELSE Refusal("sandbox_unavailable"))
                /\ UNCHANGED <<cur, child, held>>
           ELSE /\ cur' = call /\ held' = 1
                /\ child' = [NoChild EXCEPT !.st = "running"]
                /\ UNCHANGED reply
    /\ UNCHANGED <<src, server, got, clients, faults>>

Outcome(call, doc) ==
    IF doc.err # "none" THEN Refusal(doc.err)
    ELSE [kind |-> "ok", by |-> server.build, doc |-> IF call.op = "run" THEN doc ELSE Fresh]

(* Wrong variant: the registry digest of the request is not compared. *)
DispatchUnbound(call) == Outcome(call, Parsed[src[call.who]])

(* _dispatch, in the child.  A preflight normalizes too and returns only   *)
(* evidence.                                                               *)
Dispatch(call) ==
    IF call.digest # server.build THEN Refusal("protocol_binding_failed")
    ELSE IF Format(src[call.who]) \notin Enabled[server.build] THEN Refusal("adapter_unavailable")
    ELSE Outcome(call, Parsed[src[call.who]])

ChildSend ==
    /\ child.st = "running"
    /\ child' = [st |-> "sent", msg |-> Dispatch(cur)]
    /\ UNCHANGED <<src, server, conns, cur, got, held, reply, clients, faults>>

(* A defective adapter: artifacts are missing or repeated. *)
Garbled(arts) ==
    LET n == Len(arts)
    IN  {SubSeq(arts, 1, n - 1), Append(arts, arts[n]), [arts EXCEPT ![1] = arts[n]]} \ {arts}

ChildMisreports ==
    /\ Fault
    /\ child.st = "running" /\ cur.op = "run"
    /\ \E msg \in {Dispatch(cur)} :
           /\ msg.kind = "ok" /\ msg.doc.arts # <<>>
           /\ \E arts \in Garbled(msg.doc.arts) :
                child' = [st |-> "sent", msg |-> [msg EXCEPT !.doc.arts = arts]]
    /\ UNCHANGED <<src, server, conns, cur, got, held, reply, clients>>

ChildExit ==
    /\ child.st = "sent"
    /\ child' = [child EXCEPT !.st = "exited"]
    /\ UNCHANGED <<src, server, conns, cur, got, held, reply, clients, faults>>

(* An exception in the child, and a signal at any moment. *)
ChildFails ==
    /\ Fault
    /\ \/ /\ child.st = "running"
          /\ child' = [st |-> "error", msg |-> Refusal("internal_child_error")]
       \/ /\ child.st \in {"running", "sent"}
          /\ child' = [child EXCEPT !.st = "killed"]
    /\ UNCHANGED <<src, server, conns, cur, got, held, reply, clients>>

ArtifactCount(msg) == IF msg.kind = "ok" THEN Len(msg.doc.arts) ELSE 0
HasMessage == child.st \in {"sent", "exited", "error"}
              \/ (child.st = "killed" /\ child.msg # NoChild.msg)

ReceiveChildResponse ==
    /\ child.st # "none" /\ ~got /\ HasMessage
    /\ got' = TRUE
    /\ held' = held + ArtifactCount(child.msg)
    /\ UNCHANGED <<src, server, conns, cur, child, reply, clients, faults>>

(* The request is over: the child is reaped, the source and the artifact   *)
(* descriptors that were received are closed, the answer is sent.          *)
Finish(r, closed) ==
    /\ reply' = Answered(cur, r)
    /\ cur' = None /\ child' = NoChild /\ got' = FALSE
    /\ held' = held - closed - 1
    /\ UNCHANGED <<src, server, conns, clients, faults>>

(* The server validates what it forwards, run_with_artifacts once more. *)
ValidArtifacts(i, doc) == ReceivedArtifacts(doc) /\ ResultArtifactSet(src[i].fmt, doc)
ValidResult(call, msg) == call.op = "preflight" \/ ValidArtifacts(call.who, msg.doc)

(* Wrong variant: the descriptors of a signalled child are kept. *)
ReapSignalledLeaks ==
    /\ got /\ child.st = "killed"
    /\ Finish(Refusal("parser_resource_limit"), 0)

ReapSignalled ==
    /\ got /\ child.st = "killed"
    /\ Finish(Refusal("parser_resource_limit"), ArtifactCount(child.msg))

ReapExited ==
    /\ got /\ child.st = "exited"
    /\ Finish(IF child.msg.kind = "ok" /\ ~ValidResult(cur, child.msg)
              THEN Refusal("artifact_validation_failed") ELSE child.msg,
              ArtifactCount(child.msg))

ReapFailed ==
    /\ \/ got /\ child.st = "error"
       \/ child.st = "killed" /\ ~HasMessage
    /\ Finish(Refusal("parser_child_failed"), 0)

(* The two wall timeouts: for the message, and then for the exit. *)
ReceiveTimeout == child.st = "running" /\ Finish(Refusal("parser_timeout"), 0)

(* Wrong variant: a child that has answered is waited for without a bound. *)
WaitUnbounded ==
    /\ got /\ child.st = "exited"
    /\ Finish(child.msg, ArtifactCount(child.msg))

WaitTimeout ==
    /\ got /\ child.st = "sent"
    /\ Finish(Refusal("parser_timeout"), ArtifactCount(child.msg))

SidecarStop ==
    /\ Fault
    /\ server.build # None
    /\ server' = [build |-> None, ready |-> FALSE]
    /\ conns' = <<>> /\ cur' = None /\ child' = NoChild /\ got' = FALSE /\ held' = 0
    /\ reply' = [c \in Callers |-> IF reply[c] = Waiting THEN Refusal("connection lost")
                                   ELSE reply[c]]
    /\ UNCHANGED <<src, clients>>

(* SandboxRuntimeEvidence: what the container must be seen to have. *)
Observations == {"network_isolated", "secrets_absent", "root_read_only", "capabilities_dropped",
                 "no_new_privileges", "tmpfs_hardened", "cgroup_bounded", "child_timeout_reaped"}
Verified(seen) == seen = Observations

(* collect_runtime_evidence and the startup self tests. *)
SidecarStart(b, seen) ==
    /\ server.build = None
    /\ server' = [build |-> b, ready |-> Verified(seen)]
    /\ UNCHANGED <<src, conns, cur, child, got, held, reply, clients, faults>>

(***************************************************************************)
(* The worker's heartbeat (_probe_matches_registry and                     *)
(* _refresh_capability_lease).  The probe is synchronous: the event loop   *)
(* takes no other step while it waits, but parser threads do.              *)
(***************************************************************************)
LoopFree == worker.beat # "probing"
Probed(r) == IF r.kind = "probe" THEN r.build ELSE None

BeatProbe ==
    /\ worker.beat = "idle"
    /\ worker' = [worker EXCEPT !.beat = "probing"]
    /\ Send(Heartbeat, "probe", None)
    /\ UNCHANGED <<src, server, cur, child, got, held, api, lease, item, store, faults, drift>>

(* startup_probe overwrites the digest that later requests carry. *)
BeatProbed ==
    /\ worker.beat = "probing" /\ reply[Heartbeat] \notin {Idle, Waiting}
    /\ LET b == Probed(reply[Heartbeat])
       IN  /\ worker' = [worker EXCEPT !.digest = b, !.ready = (b = worker.reg),
                                       !.beat = "publishing"]
           /\ drift' = IF b = worker.reg THEN drift
                       ELSE drift \cup {<<i, b>> : i \in {j \in Items : item[j].phase = "claimed"}}
    /\ reply' = [reply EXCEPT ![Heartbeat] = Idle]
    /\ UNCHANGED <<src, sidecar, api, lease, item, store, faults>>

(* WorkerCapabilityLeaseRepo.refresh *)
RefreshedLease == [reg |-> worker.reg, ok |-> worker.ready, fresh |-> TRUE]

BeatPublish ==
    /\ worker.beat = "publishing"
    /\ worker' = [worker EXCEPT !.beat = "idle"]
    /\ lease' = RefreshedLease
    /\ UNCHANGED <<src, sidecar, reply, api, item, store, faults, drift>>

LeaseExpires ==
    /\ Fault
    /\ lease.fresh
    /\ lease' = [lease EXCEPT !.fresh = FALSE]
    /\ UNCHANGED <<src, sidecar, reply, api, worker, item, store, drift>>

(* evaluate_universal_activation; legacy rows do not occur here. *)
Activated == lease.fresh /\ lease.ok /\ lease.reg = api

(***************************************************************************)
(* The API: activation is checked before the upload is read and again      *)
(* before it is committed; in between lie the inspection, the decision     *)
(* and, for a source that is to be processed, the preflight.               *)
(***************************************************************************)
Phase(i, p) == item' = [item EXCEPT ![i].phase = p]
Decision(i) == DecideIntake(InspectFile(src[i].file), Enabled[api], src[i].intent)

UploadRejected(i) ==
    /\ item[i].phase = "new" /\ Activated /\ Decision(i) = "reject"
    /\ Phase(i, "refused")
    /\ UNCHANGED <<src, sidecar, reply, api, worker, lease, store, faults, drift>>

UploadStaged(i) ==
    /\ item[i].phase = "new" /\ Activated /\ Decision(i) = "store"
    /\ Phase(i, "staged")
    /\ UNCHANGED <<src, sidecar, reply, api, worker, lease, store, faults, drift>>

UploadKept(i) ==
    /\ item[i].phase = "staged"
    /\ Phase(i, IF Activated THEN "kept" ELSE "refused")
    /\ UNCHANGED <<src, sidecar, reply, api, worker, lease, store, faults, drift>>

UploadPreflight(i) ==
    /\ item[i].phase = "new" /\ Activated /\ Decision(i) = "process"
    /\ Phase(i, "preflight") /\ Send(i, "preflight", api)
    /\ UNCHANGED <<src, server, cur, child, got, held, api, worker, lease, store, faults, drift>>

UploadCommit(i) ==
    /\ item[i].phase = "preflight" /\ reply[i] \notin {Idle, Waiting}
    /\ reply' = [reply EXCEPT ![i] = Idle]
    /\ item' = [item EXCEPT ![i] =
                  IF reply[i].kind = "ok" /\ Activated
                  THEN [@ EXCEPT !.phase = "queued", !.reg = api]
                  ELSE [@ EXCEPT !.phase = "refused"]]
    /\ UNCHANGED <<src, sidecar, api, worker, lease, store, faults, drift>>

(* plan_exact_source_reprocess decides again, on the persisted detection;  *)
(* a source that was kept is processed once a registry advertises it.      *)
Reprocess(i) ==
    /\ item[i].phase \in {"stored", "dead", "kept"} /\ item[i].again < MaxReprocess
    /\ Activated /\ Decision(i) = "process"
    /\ item' = [item EXCEPT ![i].phase = "queued", ![i].reg = api, ![i].tries = 0,
                            ![i].again = @ + 1]
    /\ UNCHANGED <<src, sidecar, reply, api, worker, lease, store, faults, drift>>

(***************************************************************************)
(* The worker: _claim, then _load_or_create_universal_normalized.          *)
(***************************************************************************)
Claim(i) ==
    /\ worker.beat = "idle" /\ worker.ready
    /\ item[i].phase = "queued" /\ item[i].reg = worker.reg
    /\ item' = [item EXCEPT ![i].phase = "claimed", ![i].tries = @ + 1]
    /\ drift' = {seen \in drift : seen[1] # i}
    /\ UNCHANGED <<src, sidecar, reply, api, worker, lease, store, faults>>

Attempted(it) == [it EXCEPT !.phase = IF it.tries < MaxTries THEN "queued" ELSE "dead",
                            !.doc = <<>>, !.by = None]
Normalized(i, reg) == \E d \in store[i].docs : d.reg = reg
Advertised(i) == Format(src[i]) \in Enabled[worker.reg]

LoadExisting(i) ==
    /\ LoopFree /\ item[i].phase = "claimed"
    /\ Advertised(i) /\ Normalized(i, item[i].reg)
    /\ Phase(i, "stored")
    /\ UNCHANGED <<src, sidecar, reply, api, worker, lease, store, faults, drift>>

(* A job for a format that the registry does not advertise fails; the      *)
(* thread reads the digest when it builds the request.                     *)
RunParser(i) ==
    /\ item[i].phase = "claimed"
    /\ ~(Advertised(i) /\ Normalized(i, item[i].reg))
    /\ IF worker.digest = None \/ ~Advertised(i)
       THEN /\ item' = [item EXCEPT ![i] = Attempted(@)]
            /\ UNCHANGED <<conns, reply>>
       ELSE Phase(i, "running") /\ Send(i, "run", worker.digest)
    /\ UNCHANGED <<src, server, cur, child, got, held, api, worker, lease, store, faults, drift>>

(* run_with_artifacts validates the descriptors once more. *)
ParserReturned(i) ==
    /\ LoopFree /\ item[i].phase = "running" /\ reply[i] \notin {Idle, Waiting}
    /\ item' = [item EXCEPT ![i] =
                  IF reply[i].kind = "ok" /\ ValidArtifacts(i, reply[i].doc)
                  THEN [@ EXCEPT !.phase = "parsed", !.doc = reply[i].doc, !.by = reply[i].by]
                  ELSE Attempted(@)]
    /\ reply' = [reply EXCEPT ![i] = Idle]
    /\ UNCHANGED <<src, sidecar, api, worker, lease, store, faults, drift>>

(***************************************************************************)
(* _materialize_parser_artifacts, _persist_parser_page,                    *)
(* _persist_pdf_preview_manifest and _persist_normalized_artifact, in one  *)
(* transaction.  A page is the bytes that a build rendered for it; a slot  *)
(* that is taken must hold the same bytes.                                 *)
(***************************************************************************)
PagesOf(doc) == {doc.arts[k].page : k \in DOMAIN doc.arts} \ {0}
OcrPages(doc) == {k \in DOMAIN doc.prov : doc.prov[k] = "ocr_required"}

(* The text layers are joined with a rule and split again after OCR. *)
BodiesSplit(i, doc) ==
    src[i].fmt = "pdf" /\ doc.preview = "ready" =>
        \A k \in DOMAIN src[i].pages : src[i].pages[k].ruled => k \in OcrPages(doc)

NewManifest(i, doc, b) ==
    IF src[i].fmt # "pdf" THEN None ELSE IF doc.preview = "ready" THEN b ELSE doc.preview

SlotsAgree(i, doc, b) ==
    /\ \A p \in PagesOf(doc) \cap DOMAIN store[i].slots : store[i].slots[p] = b
    /\ store[i].manifest \in {None, NewManifest(i, doc, b)}

Materializes(i) ==
    LET doc == item[i].doc
    IN  /\ src[i].fmt = "pdf" => doc.prov # <<>>
        /\ OcrPages(doc) \subseteq PagesOf(doc)
        /\ BodiesSplit(i, doc)
        /\ SlotsAgree(i, doc, item[i].by)

(* Wrong variant: a slot that is taken is skipped, the manifest replaced. *)
PersistSkipsTaken(i) ==
    /\ LoopFree /\ item[i].phase = "parsed"
    /\ LET doc == item[i].doc
           b == item[i].by
       IN  store' = [store EXCEPT ![i] =
                [slots |-> [p \in DOMAIN @.slots \cup PagesOf(doc) |->
                               IF p \in DOMAIN @.slots THEN @.slots[p] ELSE b],
                 manifest |-> NewManifest(i, doc, b),
                 docs |-> @.docs \cup {[reg |-> item[i].reg, by |-> b]}]]
    /\ Phase(i, "stored")
    /\ UNCHANGED <<src, sidecar, reply, api, worker, lease, faults, drift>>

Persist(i) ==
    /\ LoopFree /\ item[i].phase = "parsed" /\ Materializes(i)
    /\ LET doc == item[i].doc
           b == item[i].by
       IN  store' = [store EXCEPT ![i] =
                [slots |-> [p \in DOMAIN @.slots \cup PagesOf(doc) |->
                               IF p \in PagesOf(doc) THEN b ELSE @.slots[p]],
                 manifest |-> IF NewManifest(i, doc, b) = None THEN @.manifest
                              ELSE NewManifest(i, doc, b),
                 docs |-> @.docs \cup {[reg |-> item[i].reg, by |-> b]}]]
    /\ Phase(i, "stored")
    /\ UNCHANGED <<src, sidecar, reply, api, worker, lease, faults, drift>>

(* The artifacts do not fit what is stored, or OCR returned no text. *)
PersistFails(i) ==
    /\ LoopFree /\ item[i].phase = "parsed"
    /\ \/ ~Materializes(i) /\ UNCHANGED faults
       \/ Fault /\ OcrPages(item[i].doc) # {}
    /\ item' = [item EXCEPT ![i] = Attempted(@)]
    /\ UNCHANGED <<src, sidecar, reply, api, worker, lease, store, drift>>

(* _load_pdf_preview, the route that serves the pages: a ready manifest    *)
(* must name every page from 1 on, with the bytes that are stored for it.  *)
LoadPdfPreview(i) ==
    LET s == store[i]
        count == Len(src[i].pages)
    IN  IF s.manifest = None THEN "not_found"
        ELSE IF count > Limits.pages THEN "inconsistent"
        ELSE IF s.manifest \notin Builds THEN "unavailable"
        ELSE IF DOMAIN s.slots = 1..count /\ \A p \in 1..count : s.slots[p] = s.manifest THEN "ready"
        ELSE "inconsistent"

(***************************************************************************)
(* Restarts.  Both processes refuse to start without a verified probe of a *)
(* sidecar that has every legacy format; the restart that follows an       *)
(* upgrade of the sidecar is no fault.                                     *)
(***************************************************************************)
Quiet == server.ready /\ cur = None /\ conns = <<>> /\ IsRegistry(Enabled[server.build])

ApiRestart ==
    /\ Quiet
    /\ IF api = server.build THEN Fault ELSE UNCHANGED faults
    /\ api' = server.build
    /\ item' = [i \in Items |-> IF item[i].phase \in {"preflight", "staged"}
                               THEN [item[i] EXCEPT !.phase = "refused"] ELSE item[i]]
    /\ reply' = [c \in Callers |-> IF c \in Items /\ item[c].phase = "preflight"
                                  THEN Idle ELSE reply[c]]
    /\ UNCHANGED <<src, sidecar, worker, lease, store, drift>>

InWorker(c) == c = Heartbeat \/ (c \in Items /\ item[c].phase \in {"claimed", "running", "parsed"})

WorkerRestart ==
    /\ Quiet
    /\ IF worker.reg = server.build THEN Fault ELSE UNCHANGED faults
    /\ worker' = [reg |-> server.build, digest |-> server.build, ready |-> TRUE,
                  beat |-> "idle"]
    /\ item' = [i \in Items |-> IF InWorker(i) THEN Attempted(item[i]) ELSE item[i]]
    /\ reply' = [c \in Callers |-> IF InWorker(c) THEN Idle ELSE reply[c]]
    /\ UNCHANGED <<src, sidecar, api, lease, store, drift>>

ServerStep ==
    \/ HandleConnection \/ ReceiveChildResponse
    \/ ReapExited \/ ReapSignalled \/ ReapFailed \/ ReceiveTimeout \/ WaitTimeout

ItemStep(i) ==
    \/ UploadRejected(i) \/ UploadStaged(i) \/ UploadKept(i)
    \/ UploadPreflight(i) \/ UploadCommit(i) \/ Reprocess(i) \/ Claim(i)
    \/ LoadExisting(i) \/ RunParser(i) \/ ParserReturned(i) \/ Persist(i) \/ PersistFails(i)

Next ==
    \/ ServerStep
    \/ ChildSend \/ ChildMisreports \/ ChildExit \/ ChildFails
    \/ SidecarStop
    \/ \E b \in Builds, lacking \in {{}} \cup {{o} : o \in Observations} :
           SidecarStart(b, Observations \ lacking)
    \/ \E c \in Callers : ClientTimeout(c)
    \/ BeatProbe \/ BeatProbed \/ BeatPublish \/ LeaseExpires
    \/ \E i \in Items : ItemStep(i)
    \/ ApiRestart \/ WorkerRestart

(* The server and its timeouts run; the child is owed nothing. *)
Fairness == WF_vars(ServerStep)

Spec == Init /\ [][Next]_vars /\ Fairness

-----------------------------------------------------------------------------
(* The server holds exactly the source it was sent and the artifacts it    *)
(* has received for the request in hand, and nothing between two requests: *)
(* no path through handle_connection and _execute_parser_child leaves a    *)
(* descriptor or a child behind.                                           *)
NothingLeaks ==
    /\ cur = None => held = 0 /\ child = NoChild /\ ~got
    /\ cur # None => held = 1 + (IF got THEN ArtifactCount(child.msg) ELSE 0)

(* What the worker is about to store shows all of the visible content of   *)
(* the source once, comes from a source within the limits, and carries     *)
(* exactly the artifacts that its pages announce, whatever the child sent. *)
ParseIsFaithful ==
    \A i \in Items : item[i].phase = "parsed" =>
        LET doc == item[i].doc
        IN  /\ Shows(src[i], doc) /\ Fits(src[i])
            /\ src[i].fmt = "pdf" => doc.preview = "ready" \/ doc.arts = <<>>
            /\ doc.arts # <<>> => PagesOf(doc) = DOMAIN doc.prov

(* A preview that was stored is served: the route never finds its pages    *)
(* incomplete or not the ones of the manifest, whichever builds parsed the *)
(* source since, and a source without a preview has no stray page; an      *)
(* image has its one page.                                                 *)
PreviewIsWhole ==
    \A i \in DOMAIN src :
        /\ src[i].fmt = "pdf" =>
             \/ LoadPdfPreview(i) = "ready"
             \/ LoadPdfPreview(i) \in {"not_found", "unavailable"} /\ store[i].slots = <<>>
        /\ src[i].fmt = "image" /\ store[i].docs # {} => DOMAIN store[i].slots = {1}

(* A document that one build produced meets the registry of another only   *)
(* when the heartbeat saw that very build between the claim and the        *)
(* request: a worker whose digest is stale is refused by the upgraded      *)
(* sidecar, and a build that nobody probed parses for no one.              *)
DriftWasSeen ==
    \A i \in Items :
        item[i].phase = "parsed" /\ item[i].by # item[i].reg => <<i, item[i].by>> \in drift

(* The name of a GZip chooses between its two formats and nothing else.    *)
GzipByName(f, d, e) ==
    f.magic = "gzip" /\ e.family = d.family /\ {d.format, e.format} = {"gz", "tgz"}

(* What is kept or processed was admitted for its bytes: nothing that the  *)
(* policy refuses is among it, a new name changes what is detected of      *)
(* inert text only and of a GZip no more than whether a TAR is expected in *)
(* it, and a job is bound to a registry that advertises its format unless  *)
(* the user asked for a table to be mapped; that stays so when a kept or   *)
(* failed source is reprocessed under a later registry.  (Bytes that       *)
(* decode as delimited text are a table before a package is sought.)       *)
AdmittedByContent ==
    \A i \in Items : item[i].phase \notin {"absent", "new", "refused"} =>
        LET f == src[i].file
            d == InspectFile(f)
        IN  /\ f.magic \notin {"empty", "executable"}
            /\ f.magic = "pdf" \/ (f.magic = "zip" /\ f.text = "none") =>
                 f.marks \cap {"encrypted", "active"} = {}
            /\ f.text = "none" \/ f.magic \in {"pdf", "image", "rtf", "tar", "gzip"} =>
                 /\ f.magic \notin {"audio", "video", "pk"}
                 /\ \A x \in TextFormats \cup {"csv", "tgz"} :
                      LET e == InspectFile([f EXCEPT !.suffix = x])
                      IN  e = d \/ GzipByName(f, d, e)
            /\ item[i].reg # None =>
                 d.format \in Enabled[item[i].reg] \/ (src[i].intent = "generic" /\ IsTabularFormat(d))

(* Nobody waits for the sidecar for ever: a child that hangs before or     *)
(* after its answer, a stop of the server and the requests of callers that *)
(* gave up all leave the queue moving.                                     *)
CallersAreAnswered == \A c \in Callers : reply[c] = Waiting ~> reply[c] # Waiting
=============================================================================
