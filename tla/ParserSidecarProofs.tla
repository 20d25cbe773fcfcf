------------------------ MODULE ParserSidecarProofs ------------------------
(***************************************************************************)
(* Proofs about ParserSidecar, for any uploads, builds, faults and         *)
(* adapters that announce their artifacts: the server leaves nothing open, *)
(* a caller is answered for its own request only, and what the worker      *)
(* stores is the parse of its source by a build that it could have seen.   *)
(***************************************************************************)
EXTENDS ParserSidecar, SequenceFacts

-----------------------------------------------------------------------------
(* The invariant. *)

NoMessage == NoChild.msg

SourcesTyped == DOMAIN src \subseteq Items /\ \A i \in DOMAIN src : src[i] \in Sources

ServerTyped ==
    /\ server \in [build : Builds \cup {None}, ready : BOOLEAN]
    /\ server.ready => server.build # None
    /\ conns \in Seq(Requests) /\ cur \in Requests \cup {None}
    /\ cur # None => server.build # None /\ cur.op # "probe" /\ cur.who \in DOMAIN src

(* A child sends the parse of the source, or that with other artifacts. *)
Sent(s, doc) ==
    \/ doc = Parsed[s]
    \/ /\ Parsed[s].arts # <<>>
       /\ \E arts \in Garbled(Parsed[s].arts) : doc = [Parsed[s] EXCEPT !.arts = arts]

(* A message of the child answers the request in hand. *)
MessageOf(call, msg) ==
    \/ msg.kind = "refused"
    \/ /\ msg.kind = "ok" /\ msg.by = server.build /\ call.digest = server.build
       /\ call.op = "preflight" => msg.doc = Fresh
       /\ call.op = "run" => Parsed[src[call.who]].err = "none" /\ Sent(src[call.who], msg.doc)

ChildInv ==
    /\ child = [st |-> child.st, msg |-> child.msg]
    /\ child.st \in {"none", "running", "sent", "exited", "error", "killed"} /\ got \in BOOLEAN
    /\ cur = None <=> child.st = "none"
    /\ cur # None => MessageOf(cur, child.msg)
    /\ child.st \in {"none", "running"} => child.msg = NoMessage
    /\ child.st \in {"sent", "exited", "error"} => child.msg # NoMessage
    /\ child.st = "error" => child.msg.kind = "refused"
    /\ got => HasMessage

(* An open request is the one its caller waits for; a run carries the digest of
   the registry that the job is bound to, or that of a build seen since. *)
Stands(call) ==
    /\ call.op # "probe" => call.who \in DOMAIN src
    /\ call.open =>
        /\ reply[call.who] = Waiting
        /\ call.who \in Items =>
            \/ call.op = "preflight" /\ item[call.who].phase = "preflight"
            \/ /\ call.op = "run" /\ item[call.who].phase = "running"
               /\ call.digest = item[call.who].reg \/ <<call.who, call.digest>> \in drift

Calls == {conns[k] : k \in DOMAIN conns} \cup ({cur} \ {None})

(* A caller has at most one open request. *)
OneLine ==
    /\ \A k, l \in DOMAIN conns :
        conns[k].open /\ conns[l].open /\ conns[k].who = conns[l].who => k = l
    /\ \A k \in DOMAIN conns : cur # None /\ cur.open /\ conns[k].open => conns[k].who # cur.who

LinesInv == (\A call \in Calls : Stands(call)) /\ OneLine

(* An answer to a run is the parse of the caller's source. *)
RunAnswered(i, r) ==
    /\ r.by \in Builds
    /\ r.by = item[i].reg \/ <<i, r.by>> \in drift
    /\ Parsed[src[i]].err = "none" /\ r.doc = Parsed[src[i]]

RepliesInv ==
    /\ DOMAIN reply = Callers
    /\ \A i \in Items : reply[i] # Idle => item[i].phase \in {"preflight", "running"}
    /\ \A i \in Items : item[i].phase = "running" /\ reply[i].kind = "ok" => RunAnswered(i, reply[i])
    /\ worker.beat # "probing" => reply[Heartbeat] = Idle
    /\ reply[Heartbeat].kind = "probe" => reply[Heartbeat].build \in Builds

WorkerInv ==
    /\ worker \in [reg : Builds, digest : Builds \cup {None}, ready : BOOLEAN,
                   beat : {"idle", "probing", "publishing"}]
    /\ worker.ready => worker.digest = worker.reg

Phases == {"absent", "new", "refused", "staged", "kept", "preflight", "queued", "claimed",
           "running", "parsed", "stored", "dead"}

ItemTyped(i, it) ==
    /\ DOMAIN it = {"phase", "reg", "tries", "again", "doc", "by"}
    /\ it.phase \in Phases
    /\ it.phase # "absent" => i \in DOMAIN src

ItemsTyped == DOMAIN item = Items /\ \A i \in Items : ItemTyped(i, item[i])

(* A claimed upload is bound to the registry of the worker, whose digest is that
   registry or another build seen since; a parsed one holds the parse of its source. *)
ClaimsInv ==
    \A i \in Items :
        /\ item[i].phase = "claimed" =>
            /\ item[i].reg = worker.reg
            /\ worker.digest = worker.reg \/ <<i, worker.digest>> \in drift
        /\ item[i].phase = "parsed" => RunAnswered(i, item[i])

(* What was admitted passed the policy under the registry it is bound to. *)
Admitted(i, it) ==
    /\ it.phase \notin {"absent", "new", "refused"} =>
        InspectFile(src[i].file).family \notin FamilyRejections
    /\ it.phase = "preflight" => Decision(i) = "process"
    /\ it.reg # None =>
        \/ Format(src[i]) \in Enabled[it.reg]
        \/ src[i].intent = "generic" /\ IsTabularFormat(InspectFile(src[i].file))

AdmissionInv == api \in Builds /\ \A i \in Items : Admitted(i, item[i])

(* The pages of a source are those of one build, with its manifest. *)
PagesBy(i, s, b) ==
    /\ s.slots = [p \in PagesOf(Parsed[src[i]]) |-> b]
    /\ s.manifest = NewManifest(i, Parsed[src[i]], b)

StoreInv ==
    /\ DOMAIN store = Items
    /\ \A i \in Items : DOMAIN store[i] = {"slots", "manifest", "docs"}
    /\ \A i \in DOMAIN src :
        /\ src[i].fmt = "pdf" =>
            \/ store[i].manifest = None /\ store[i].slots = <<>>
            \/ Parsed[src[i]].err = "none" /\ \E b \in Builds : PagesBy(i, store[i], b)
        /\ src[i].fmt = "image" =>
            DOMAIN store[i].slots = {1} \/ (store[i].slots = <<>> /\ store[i].docs = {})

SidecarInv ==
    /\ SourcesTyped
    /\ ServerTyped /\ ChildInv /\ NothingLeaks
    /\ LinesInv /\ RepliesInv
    /\ WorkerInv /\ ItemsTyped /\ ClaimsInv
    /\ AdmissionInv
    /\ StoreInv

-----------------------------------------------------------------------------
(* What validation makes of the artifacts. *)

(* The artifacts of a defective adapter are others. *)
LEMMA GarbledDiffer ==
    ASSUME NEW arts \in Seq(Artifacts), arts # <<>>, NEW a \in Garbled(arts)
    PROVE  a \in Seq(Artifacts) /\ a # arts
<1> DEFINE n == Len(arts)
<1>1. n \in Nat \ {0} /\ arts[n] \in Artifacts
  BY SMTT(30), NonEmptyHasLast, ByPosition
<1>2. SubSeq(arts, 1, n - 1) \in Seq(Artifacts)
  BY SMTT(30), <1>1
<1>3. Append(arts, arts[n]) \in Seq(Artifacts)
  BY SMTT(30), <1>1
<1>4. [arts EXCEPT ![1] = arts[n]] \in Seq(Artifacts)
  BY SMTT(30), <1>1, Replacing
<1> QED
  BY Zenon, <1>2, <1>3, <1>4 DEF Garbled

(* A document announces one sequence of artifacts. *)
LEMMA AnnouncedOnce ==
    ASSUME NEW fmt, NEW d, NEW e, d.arts \in Seq(Artifacts), e.arts \in Seq(Artifacts),
           d.prov \in Seq(STRING), e.prov = d.prov, e.preview = d.preview,
           Announced(fmt, d), Announced(fmt, e)
    PROVE  e.arts = d.arts
<1>1. CASE fmt = "pdf" /\ d.preview = "ready"
  <2> DEFINE n == Len(d.prov)
  <2>1. PdfAnnounced(d) /\ PdfAnnounced(e)
    BY Zenon, <1>1 DEF Announced
  <2>2. /\ n \in Nat /\ Len(d.arts) = n + 1 /\ Len(e.arts) = n + 1
        /\ d.arts[n + 1] = e.arts[n + 1] /\ \A k \in 1..n : d.arts[k] = e.arts[k]
    BY SMTT(30), <1>1, <2>1, ByPosition DEF PdfAnnounced
  <2>3. \A k \in 1..(n + 1) : d.arts[k] = e.arts[k]
    BY SMTT(30), <2>2
  <2> QED
    BY SMTT(30), <2>2, <2>3
<1>2. CASE fmt = "pdf" /\ d.preview # "ready"
  BY Zenon, <1>2 DEF Announced, PdfAnnounced
<1>3. CASE fmt # "pdf"
  BY Zenon, <1>3 DEF Announced
<1> QED
  BY Zenon, <1>1, <1>2, <1>3

(* What a child sends has artifacts. *)
LEMMA SentTyped ==
    ASSUME NEW s \in Sources, NEW d, Sent(s, d)
    PROVE  /\ d.arts \in Seq(Artifacts)
           /\ d = Parsed[s] \/ (d.arts # Parsed[s].arts /\ d.prov = Parsed[s].prov
                                                        /\ d.preview = Parsed[s].preview)
<1>1. /\ {"err", "arts", "prov", "preview"} \subseteq DOMAIN Parsed[s]
      /\ Parsed[s].arts \in Seq(Artifacts)
  BY Zenon, AdapterAssumption
<1>2. CASE d = Parsed[s]
  BY Zenon, <1>1, <1>2
<1>3. CASE Parsed[s].arts # <<>> /\ \E arts \in Garbled(Parsed[s].arts) :
                                        d = [Parsed[s] EXCEPT !.arts = arts]
  <2>1. PICK arts \in Garbled(Parsed[s].arts) : d = [Parsed[s] EXCEPT !.arts = arts]
    BY Zenon, <1>3
  <2>2. arts \in Seq(Artifacts) /\ arts # Parsed[s].arts
    BY Zenon, <1>1, <1>3, GarbledDiffer
  <2>3. d.arts = arts /\ d.prov = Parsed[s].prov /\ d.preview = Parsed[s].preview
    BY Zenon, <1>1, <2>1
  <2> QED
    BY Zenon, <2>2, <2>3
<1> QED
  BY Zenon, <1>2, <1>3 DEF Sent

(* Whatever was sent, only the parse of the source passes the validation. *)
LEMMA ValidIsParsed ==
    ASSUME SourcesTyped, NEW i \in DOMAIN src, NEW d, Sent(src[i], d),
           Parsed[src[i]].err = "none", ValidArtifacts(i, d)
    PROVE  d = Parsed[src[i]]
<1> DEFINE s == src[i]
<1>1. s \in Sources
  BY Zenon DEF SourcesTyped
<1>2. /\ Parsed[s].arts \in Seq(Artifacts) /\ Parsed[s].prov \in Seq(STRING)
      /\ Announced(s.fmt, Parsed[s])
  BY Zenon, <1>1, AdapterAssumption
<1>3. Announced(s.fmt, d)
  BY Zenon DEF ValidArtifacts, ResultArtifactSet
<1>4. /\ d.arts \in Seq(Artifacts)
      /\ d = Parsed[s] \/ (d.arts # Parsed[s].arts /\ d.prov = Parsed[s].prov
                                                   /\ d.preview = Parsed[s].preview)
  BY Zenon, <1>1, SentTyped
<1>5. ASSUME d.prov = Parsed[s].prov, d.preview = Parsed[s].preview
      PROVE  d.arts = Parsed[s].arts
  BY SMTT(30), <1>2, <1>3, <1>4, <1>5, AnnouncedOnce
<1> QED
  BY Zenon, <1>4, <1>5

(* The pages of a parse are those that its document has. *)
LEMMA PagesOfParse ==
    ASSUME NEW s \in Sources, Parsed[s].err = "none"
    PROVE  /\ s.fmt = "pdf" => IF Parsed[s].preview = "ready"
                               THEN PagesOf(Parsed[s]) = 1..Len(s.pages)
                               ELSE Parsed[s].arts = <<>> /\ PagesOf(Parsed[s]) = {}
           /\ s.fmt = "image" => PagesOf(Parsed[s]) = {1}
           /\ Parsed[s].arts # <<>> => PagesOf(Parsed[s]) = DOMAIN Parsed[s].prov
<1> DEFINE d == Parsed[s]
<1>1. /\ d.arts \in Seq(Artifacts) /\ d.prov \in Seq(STRING) /\ Announced(s.fmt, d)
      /\ s.fmt = "pdf" => Len(d.prov) = Len(s.pages)
  BY Zenon, AdapterAssumption
<1> HIDE DEF d
<1>2. CASE s.fmt = "pdf" /\ d.preview = "ready"
  <2> DEFINE n == Len(d.prov)
  <2>1. /\ n \in Nat /\ Len(d.arts) = n + 1 /\ d.arts[n + 1] = PdfManifest
        /\ \A k \in 1..n : d.arts[k] = PdfPage(k, d.prov[k] = "ocr_required")
    BY SMTT(30), <1>1, <1>2 DEF Announced, PdfAnnounced
  <2>2. DOMAIN d.arts = 1..(n + 1) /\ DOMAIN d.prov = 1..n
    BY SMTT(30), <1>1, <2>1
  <2>3. d.arts[n + 1].page = 0 /\ \A k \in 1..n : d.arts[k].page = k
    <3>1. PdfManifest.page = 0 /\ \A k \in 1..n : PdfPage(k, d.prov[k] = "ocr_required").page = k
      BY Zenon DEF PdfManifest, PdfPage
    <3> QED
      BY Zenon, <2>1, <3>1
  <2> HIDE DEF n
  <2>4. \A k \in 1..n : k \in PagesOf(d)
    <3> SUFFICES ASSUME NEW k \in 1..n PROVE k \in PagesOf(d)
      BY SMTT(30)
    <3>1. k \in DOMAIN d.arts /\ d.arts[k].page = k /\ k # 0
      BY SMTT(30), <2>1, <2>2, <2>3
    <3> QED
      BY Zenon, <3>1 DEF PagesOf
  <2>5. \A p \in PagesOf(d) : p \in 1..n
    <3> SUFFICES ASSUME NEW k \in 1..(n + 1), d.arts[k].page # 0 PROVE d.arts[k].page \in 1..n
      BY Zenon, <2>2 DEF PagesOf
    <3> QED
      BY SMTT(30), <2>1, <2>3
  <2>6. PagesOf(d) = 1..n /\ n = Len(s.pages)
    BY Zenon, <1>1, <1>2, <2>4, <2>5 DEF n
  <2> QED
    BY Zenon, <1>2, <2>2, <2>6 DEF d
<1>3. CASE s.fmt = "pdf" /\ d.preview # "ready"
  BY SMTT(30), <1>1, <1>3 DEF Announced, PdfAnnounced, PagesOf, d
<1>4. CASE s.fmt = "image"
  <2>1. d.arts = <<SanitizedImage>> /\ d.prov = <<"ocr_required">>
    BY Zenon, <1>1, <1>4 DEF Announced
  <2>2. DOMAIN d.arts = {1} /\ DOMAIN d.prov = {1} /\ d.arts[1].page = 1
    BY SMTT(30), <2>1 DEF SanitizedImage
  <2> QED
    BY SMTT(30), <1>4, <2>1, <2>2 DEF PagesOf, d
<1>5. CASE s.fmt \notin {"pdf", "image"}
  BY Zenon, <1>1, <1>5 DEF Announced, d
<1> QED
  BY Zenon, <1>2, <1>3, <1>4, <1>5

-----------------------------------------------------------------------------
(* The server and its child. *)

(* A message carries a number of artifacts. *)
LEMMA MessageCounts ==
    ASSUME SourcesTyped, ServerTyped, ChildInv, cur # None
    PROVE  /\ ArtifactCount(child.msg) \in Nat
           /\ child.msg.kind = "refused" => ArtifactCount(child.msg) = 0
<1>1. CASE child.msg.kind = "refused"
  BY Zenon, <1>1 DEF ArtifactCount
<1>2. CASE child.msg.kind = "ok" /\ cur.op = "preflight" /\ child.msg.doc = Fresh
  BY SMTT(30), <1>2 DEF ArtifactCount, Fresh
<1>3. CASE child.msg.kind = "ok" /\ Sent(src[cur.who], child.msg.doc)
  <2>1. src[cur.who] \in Sources
    BY Zenon DEF SourcesTyped, ServerTyped
  <2>2. child.msg.doc.arts \in Seq(Artifacts)
    BY Zenon, <1>3, <2>1, SentTyped
  <2> QED
    BY Zenon, <1>3, <2>2, ByPosition DEF ArtifactCount
<1>4. cur.op \in {"preflight", "run"} /\ MessageOf(cur, child.msg)
  BY Zenon DEF ServerTyped, ChildInv, Requests
<1> QED
  BY Zenon, <1>1, <1>2, <1>3, <1>4 DEF MessageOf

(* What _dispatch returns answers the request. *)
LEMMA DispatchAnswers ==
    ASSUME SourcesTyped, ServerTyped, cur # None
    PROVE  /\ MessageOf(cur, Dispatch(cur)) /\ Dispatch(cur) # NoMessage
           /\ cur.op = "run" /\ Dispatch(cur).kind = "ok" =>
                Dispatch(cur) = [kind |-> "ok", by |-> server.build, doc |-> Parsed[src[cur.who]]]
<1> DEFINE doc == Parsed[src[cur.who]]
<1>1. cur.op \in {"preflight", "run"}
  BY Zenon DEF ServerTyped, Requests
<1>2. ASSUME NEW x, x # "none", Dispatch(cur) = Refusal(x)
      PROVE  /\ Dispatch(cur).kind = "refused" /\ Dispatch(cur) # NoMessage
  BY SMTT(30), <1>2 DEF Refusal, NoMessage, NoChild
<1>3. CASE /\ cur.digest = server.build /\ doc.err = "none"
           /\ Dispatch(cur) = [kind |-> "ok", by |-> server.build,
                               doc |-> IF cur.op = "run" THEN doc ELSE Fresh]
  BY SMTT(30), <1>1, <1>3 DEF MessageOf, Sent, NoMessage, NoChild, Refusal
<1>4. \/ \E x : x # "none" /\ Dispatch(cur) = Refusal(x)
      \/ /\ cur.digest = server.build /\ doc.err = "none"
         /\ Dispatch(cur) = [kind |-> "ok", by |-> server.build,
                             doc |-> IF cur.op = "run" THEN doc ELSE Fresh]
  BY Zenon DEF Dispatch, Outcome
<1> QED
  BY Zenon, <1>2, <1>3, <1>4 DEF MessageOf

SafeServer == ServerTyped /\ ChildInv /\ NothingLeaks

(* The steps of the child. *)
LEMMA ChildMoves ==
    ASSUME SourcesTyped, SafeServer,
           ChildSend \/ ChildMisreports \/ ChildExit \/ ChildFails
    PROVE  SafeServer'
<1>0. child.st \in {"running", "sent"} /\ cur # None
  BY Zenon DEF ChildSend, ChildMisreports, ChildExit, ChildFails, SafeServer, ChildInv
<1>1. UNCHANGED <<src, server, conns, cur, got, held>>
  BY Zenon DEF ChildSend, ChildMisreports, ChildExit, ChildFails
<1>2. ServerTyped'
  BY Zenon, <1>1 DEF SafeServer, ServerTyped
<1>3. ASSUME child' = [st |-> "sent", msg |-> child'.msg], child.st = "running",
             MessageOf(cur, child'.msg), child'.msg # NoMessage
      PROVE  ChildInv' /\ NothingLeaks'
  BY SMTT(30), <1>0, <1>1, <1>3 DEF SafeServer, ChildInv, NothingLeaks, MessageOf, HasMessage
<1>4. CASE ChildSend
  BY Zenon, <1>0, <1>2, <1>3, <1>4, DispatchAnswers DEF ChildSend, SafeServer
<1>5. CASE ChildMisreports
  <2> DEFINE s == src[cur.who]
             m == Dispatch(cur)
  <2>1. /\ child.st = "running" /\ cur.op = "run" /\ m.kind = "ok" /\ m.doc.arts # <<>>
        /\ \E arts \in Garbled(m.doc.arts) :
             child' = [st |-> "sent", msg |-> [m EXCEPT !.doc.arts = arts]]
    BY Zenon, <1>5 DEF ChildMisreports
  <2>2. MessageOf(cur, m) /\ m = [kind |-> "ok", by |-> server.build, doc |-> Parsed[s]]
    BY Zenon, <1>0, <2>1, DispatchAnswers DEF SafeServer
  <2> HIDE DEF m
  <2>3. PICK arts \in Garbled(Parsed[s].arts) :
            child' = [st |-> "sent", msg |-> [m EXCEPT !.doc.arts = arts]]
    BY Zenon, <2>1, <2>2
  <2>4. [m EXCEPT !.doc.arts = arts]
            = [kind |-> "ok", by |-> server.build, doc |-> [Parsed[s] EXCEPT !.arts = arts]]
    BY SMTT(30), <2>2
  <2>5. Sent(s, [Parsed[s] EXCEPT !.arts = arts])
    BY Zenon, <2>1, <2>2, <2>3 DEF Sent
  <2>6. MessageOf(cur, child'.msg) /\ child'.msg # NoMessage
    BY Zenon, <2>1, <2>2, <2>3, <2>4, <2>5 DEF MessageOf, NoMessage, NoChild, Refusal
  <2> QED
    BY Zenon, <1>2, <1>3, <2>1, <2>3, <2>6 DEF SafeServer
<1>6. CASE ChildExit
  BY SMTT(30), <1>0, <1>1, <1>2, <1>6 DEF ChildExit, SafeServer, ChildInv, NothingLeaks, MessageOf, HasMessage
<1>7. CASE ChildFails
  <2>1. CASE child.st = "running" /\ child' = [st |-> "error", msg |-> Refusal("internal_child_error")]
    <3>1. child'.msg.kind = "refused" /\ child'.msg # NoMessage
      BY Zenon, <2>1 DEF Refusal, NoMessage, NoChild
    <3> QED
      BY Zenon, <1>0, <1>1, <1>2, <2>1, <3>1 DEF SafeServer, ChildInv, NothingLeaks, MessageOf, HasMessage
  <2>2. CASE child' = [child EXCEPT !.st = "killed"]
    BY Zenon, <1>0, <1>1, <1>2, <2>2 DEF SafeServer, ChildInv, NothingLeaks, MessageOf, HasMessage, NoMessage
  <2> QED
    BY Zenon, <1>7, <2>1, <2>2 DEF ChildFails
<1> QED
  BY Zenon, <1>4, <1>5, <1>6, <1>7

(* The message is received with its descriptors. *)
LEMMA ReceiveKeeps ==
    ASSUME SourcesTyped, SafeServer, ReceiveChildResponse
    PROVE  SafeServer'
<1>1. cur # None /\ held = 1 /\ got' = TRUE /\ held' = held + ArtifactCount(child.msg)
      /\ UNCHANGED <<src, server, conns, cur, child>>
  BY SMTT(30) DEF ReceiveChildResponse, SafeServer, ChildInv, NothingLeaks
<1>2. ServerTyped'
  BY Zenon, <1>1 DEF SafeServer, ServerTyped
<1>3. HasMessage
  BY Zenon DEF ReceiveChildResponse
<1>4. ChildInv'
  BY Zenon, <1>1, <1>3 DEF SafeServer, ChildInv, MessageOf, HasMessage
<1>5. NothingLeaks'
  BY Zenon, <1>1, MessageCounts DEF SafeServer, NothingLeaks, ArtifactCount
<1> QED
  BY Zenon, <1>2, <1>4, <1>5 DEF SafeServer

(* Between two requests nothing is open. *)
LEMMA ClosedIsSafe ==
    ASSUME ServerTyped', cur' = None, child' = NoChild, got' = FALSE, held' = 0
    PROVE  SafeServer'
BY Zenon DEF SafeServer, ChildInv, NothingLeaks, NoChild, NoMessage, Refusal, HasMessage

(* However the request ends, what was received is closed. *)
LEMMA FinishKeeps ==
    ASSUME SourcesTyped, SafeServer, cur # None, NEW r, NEW closed, Finish(r, closed),
           closed = (IF got THEN ArtifactCount(child.msg) ELSE 0)
    PROVE  SafeServer'
<1>1. /\ cur' = None /\ child' = NoChild /\ got' = FALSE /\ held' = held - closed - 1
      /\ UNCHANGED <<src, server, conns>>
  BY Zenon DEF Finish
<1>2. ServerTyped'
  BY Zenon, <1>1 DEF SafeServer, ServerTyped
<1>3. closed \in Nat /\ held = 1 + closed
  BY Zenon, MessageCounts DEF SafeServer, NothingLeaks
<1>4. held' = 0
  BY SMTT(30), <1>1, <1>3
<1> QED
  BY Zenon, <1>1, <1>2, <1>4, ClosedIsSafe

Finishes == ReapExited \/ ReapSignalled \/ ReapFailed \/ ReceiveTimeout \/ WaitTimeout

LEMMA FinishingKeeps ==
    ASSUME SourcesTyped, SafeServer, Finishes
    PROVE  SafeServer'
<1>0. cur # None
  BY Zenon DEF Finishes, ReapExited, ReapSignalled, ReapFailed, ReceiveTimeout, WaitTimeout,
         SafeServer, ChildInv
<1> DEFINE count == IF got THEN ArtifactCount(child.msg) ELSE 0
<1>1. ASSUME NEW r, Finish(r, count)  PROVE SafeServer'
  BY Zenon, <1>0, <1>1, FinishKeeps
<1>2. CASE ReapExited
  <2>1. count = ArtifactCount(child.msg)
    BY Zenon, <1>2 DEF ReapExited
  <2> HIDE DEF count
  <2> QED
    BY Zenon, <1>1, <1>2, <2>1 DEF ReapExited
<1>3. CASE ReapSignalled
  <2>1. count = ArtifactCount(child.msg)
    BY Zenon, <1>3 DEF ReapSignalled
  <2> HIDE DEF count
  <2> QED
    BY Zenon, <1>1, <1>3, <2>1 DEF ReapSignalled
<1>4. CASE ReapFailed
  <2>1. count = 0
    BY Zenon, <1>0, <1>4, MessageCounts DEF ReapFailed, SafeServer, ChildInv
  <2> HIDE DEF count
  <2> QED
    BY Zenon, <1>1, <1>4, <2>1 DEF ReapFailed
<1>5. CASE ReceiveTimeout
  <2>1. count = 0
    BY Zenon, <1>5 DEF ReceiveTimeout, SafeServer, ChildInv, HasMessage
  <2> HIDE DEF count
  <2> QED
    BY Zenon, <1>1, <1>5, <2>1 DEF ReceiveTimeout
<1>6. CASE WaitTimeout
  <2>1. count = ArtifactCount(child.msg)
    BY Zenon, <1>6 DEF WaitTimeout
  <2> HIDE DEF count
  <2> QED
    BY Zenon, <1>1, <1>6, <2>1 DEF WaitTimeout
<1> QED
  BY Zenon, <1>2, <1>3, <1>4, <1>5, <1>6 DEF Finishes

(* A request is taken from the queue. *)
LEMMA HandleKeeps ==
    ASSUME SourcesTyped, SafeServer, LinesInv, HandleConnection
    PROVE  SafeServer'
<1> DEFINE call == Head(conns)
<1>1. /\ server.build # None /\ cur = None /\ conns # <<>> /\ conns' = Tail(conns)
      /\ UNCHANGED <<src, server, got>>
  BY Zenon DEF HandleConnection
<1>2. call \in Requests /\ conns' \in Seq(Requests) /\ call = conns[1] /\ 1 \in DOMAIN conns
  BY SMTT(30), <1>1, ByPosition DEF SafeServer, ServerTyped
<1>3. got = FALSE /\ held = 0 /\ child = NoChild
  BY Zenon, <1>1 DEF SafeServer, NothingLeaks, ChildInv
<1>4. CASE UNCHANGED <<cur, child, held>>
  <2>1. ServerTyped'
    BY Zenon, <1>1, <1>2, <1>4 DEF SafeServer, ServerTyped
  <2> QED
    BY Zenon, <1>1, <1>3, <1>4, <2>1, ClosedIsSafe
<1>5. CASE /\ call.op # "probe" /\ cur' = call /\ held' = 1
           /\ child' = [NoChild EXCEPT !.st = "running"]
  <2>1. call # None /\ call.who \in DOMAIN src
    <3>1. call # None
      BY Zenon, <1>2, SidecarAssumption
    <3>2. Stands(conns[1])
      BY Zenon, <1>2 DEF LinesInv, Calls
    <3> QED
      BY Zenon, <1>2, <1>5, <3>1, <3>2 DEF Stands
  <2> HIDE DEF call
  <2>2. ServerTyped'
    BY Zenon, <1>1, <1>2, <1>5, <2>1 DEF SafeServer, ServerTyped
  <2>3. child' = [st |-> "running", msg |-> NoMessage] /\ NoMessage.kind = "refused"
    BY Zenon, <1>5 DEF NoChild, NoMessage, Refusal
  <2>4. ChildInv'
    <3>1. child'.st = "running" /\ child'.msg = NoMessage /\ got' = FALSE /\ cur' # None
      BY SMTT(30), <1>1, <1>3, <1>5, <2>1, <2>3
    <3>2. MessageOf(cur, child.msg)'
      BY Zenon, <2>3, <3>1 DEF MessageOf
    <3> QED
      BY Zenon, <2>3, <3>1, <3>2 DEF ChildInv, NoMessage
  <2>5. NothingLeaks'
    BY SMTT(30), <1>1, <1>3, <1>5, <2>1 DEF NothingLeaks
  <2> QED
    BY Zenon, <2>2, <2>4, <2>5 DEF SafeServer
<1> QED
  BY Zenon, <1>4, <1>5 DEF HandleConnection

(* A caller that gives up closes its own connection only. *)
LEMMA HangsUp ==
    ASSUME NEW call \in Requests, NEW c
    PROVE  /\ Hangup(call, c) \in Requests /\ Hangup(call, c) # None
           /\ Hangup(call, c).who = call.who /\ Hangup(call, c).op = call.op
           /\ Hangup(call, c).digest = call.digest
           /\ Hangup(call, c).open => call.open /\ call.who # c
<1>1. Hangup(call, c) \in Requests
  BY Zenon DEF Hangup, Requests
<1> QED
  BY Zenon, <1>1, SidecarAssumption DEF Hangup, Requests

LEMMA HangupOf ==
    ASSUME ServerTyped, NEW c, ClientTimeout(c)
    PROVE  /\ conns' \in Seq(Requests) /\ DOMAIN conns' = DOMAIN conns
           /\ \A k \in DOMAIN conns : conns[k] \in Requests /\ conns'[k] = Hangup(conns[k], c)
           /\ cur = None => cur' = None
           /\ cur # None => cur \in Requests /\ cur' = Hangup(cur, c) /\ cur' # None
<1>1. conns' = [k \in DOMAIN conns |-> Hangup(conns[k], c)]
  BY Zenon DEF ClientTimeout
<1>2. \A k \in DOMAIN conns : conns[k] \in Requests /\ Hangup(conns[k], c) \in Requests
  BY SMTT(30), HangsUp DEF ServerTyped
<1>3. conns \in Seq(Requests) /\ DOMAIN conns = 1..Len(conns) /\ Len(conns) \in Nat
  BY SMTT(30) DEF ServerTyped
<1>4. conns' \in Seq(Requests)
  BY SMTT(30), <1>1, <1>2, <1>3
<1> QED
  BY SMTT(30), <1>1, <1>2, <1>4, HangsUp DEF ClientTimeout, ServerTyped

LEMMA TimeoutKeeps ==
    ASSUME SourcesTyped, SafeServer, NEW c, ClientTimeout(c)
    PROVE  SafeServer'
<1>1. UNCHANGED <<src, server, child, got, held>>
  BY Zenon DEF ClientTimeout
<1>2. /\ conns' \in Seq(Requests)
      /\ cur = None => cur' = None
      /\ cur # None => cur \in Requests /\ cur' = Hangup(cur, c) /\ cur' # None
  BY Zenon, HangupOf DEF SafeServer
<1>3. cur # None => /\ cur' \in Requests /\ cur'.who = cur.who /\ cur'.op = cur.op
                    /\ cur'.digest = cur.digest
  BY SMTT(30), <1>2, HangsUp
<1>4. ServerTyped'
  BY ZenonT(30), <1>1, <1>2, <1>3 DEF SafeServer, ServerTyped
<1>5. cur # None /\ MessageOf(cur, child.msg) => MessageOf(cur, child.msg)'
  BY ZenonT(30), <1>1, <1>3 DEF MessageOf, Sent
<1>6. HasMessage' <=> HasMessage
  BY Zenon, <1>1 DEF HasMessage
<1>7. ChildInv'
  BY Zenon, <1>1, <1>2, <1>5, <1>6 DEF SafeServer, ChildInv
<1>8. NothingLeaks'
  BY Zenon, <1>1, <1>2 DEF SafeServer, NothingLeaks, ArtifactCount
<1> QED
  BY Zenon, <1>4, <1>7, <1>8 DEF SafeServer

(* The server stops and starts. *)
LEMMA StopKeeps ==
    ASSUME SafeServer, SidecarStop
    PROVE  SafeServer'
<1>1. server' = [build |-> None, ready |-> FALSE] /\ conns' = <<>> /\ cur' = None
  BY Zenon DEF SidecarStop
<1>2. server' \in [build : Builds \cup {None}, ready : BOOLEAN] /\ conns' \in Seq(Requests)
  BY SMTT(30), <1>1
<1>3. ServerTyped'
  BY Zenon, <1>1, <1>2 DEF ServerTyped
<1> QED
  BY Zenon, <1>3, ClosedIsSafe DEF SidecarStop

LEMMA StartKeeps ==
    ASSUME SafeServer, NEW b \in Builds, NEW seen, SidecarStart(b, seen)
    PROVE  SafeServer' /\ cur = None
<1>1. cur = None /\ UNCHANGED <<src, conns, cur, child, got, held>> /\ b # None
  BY Zenon, SidecarAssumption DEF SidecarStart, SafeServer, ServerTyped
<1>2. server' \in [build : Builds \cup {None}, ready : BOOLEAN] /\ server'.build = b
  BY Zenon DEF SidecarStart, Verified
<1>3. ServerTyped'
  BY Zenon, <1>1, <1>2 DEF SafeServer, ServerTyped
<1>4. child' = NoChild /\ held' = 0 /\ got' = FALSE /\ cur' = None
  BY Zenon, <1>1 DEF SafeServer, NothingLeaks, ChildInv
<1> QED
  BY Zenon, <1>1, <1>3, <1>4, ClosedIsSafe

(* The steps of the clients leave the request in hand alone. *)
LEMMA ClientsKeepServer ==
    ASSUME SafeServer, conns' \in Seq(Requests), UNCHANGED <<src, server, cur, child, got, held>>
    PROVE  SafeServer'
<1>1. ServerTyped'
  BY Zenon DEF SafeServer, ServerTyped
<1>2. MessageOf(cur, child.msg) => MessageOf(cur, child.msg)'
  BY Zenon DEF MessageOf, Sent
<1>3. HasMessage' <=> HasMessage
  BY Zenon DEF HasMessage
<1>4. ChildInv'
  BY Zenon, <1>2, <1>3 DEF SafeServer, ChildInv
<1>5. NothingLeaks'
  BY Zenon DEF SafeServer, NothingLeaks, ArtifactCount
<1> QED
  BY Zenon, <1>1, <1>4, <1>5 DEF SafeServer

LEMMA SendsTyped ==
    ASSUME ServerTyped, NEW c \in Callers, NEW op \in {"probe", "preflight", "run"},
           NEW digest \in Builds \cup {None}, Send(c, op, digest)
    PROVE  /\ Request(c, op, digest) \in Requests
           /\ conns' \in Seq(Requests)
<1>1. Request(c, op, digest) \in Requests
  BY Zenon DEF Request, Requests
<1>2. conns \in Seq(Requests) /\ conns' \in {conns, Append(conns, Request(c, op, digest))}
  BY Zenon DEF Send, ServerTyped
<1> QED
  BY SMTT(30), <1>1, <1>2

-----------------------------------------------------------------------------
(* The open requests and their callers. *)

(* A caller is undisturbed when neither its answer nor its upload changes. *)
Undisturbed(c) ==
    /\ reply'[c] = reply[c]
    /\ c \in Items => /\ item'[c].phase = item[c].phase /\ item'[c].reg = item[c].reg
                      /\ (\A b : <<c, b>> \in drift => <<c, b>> \in drift')

LEMMA StandsStill ==
    ASSUME NEW call, Stands(call), src' = src, call.open => Undisturbed(call.who)
    PROVE  Stands(call)'
BY Zenon DEF Stands, Undisturbed

(* Requests leave, and the callers of those that stay are undisturbed. *)
LEMMA LinesStay ==
    ASSUME LinesInv, src' = src, OneLine',
           \A call \in Calls' : call \in Calls /\ (call.open => Undisturbed(call.who))
    PROVE  LinesInv'
<1>1. ASSUME NEW call \in Calls'  PROVE Stands(call)'
  BY Zenon, <1>1, StandsStill DEF LinesInv
<1> QED
  BY Zenon, <1>1 DEF LinesInv

(* A step of a client that is not waiting. *)
LEMMA LinesOfClients ==
    ASSUME ServerTyped, LinesInv, UNCHANGED <<src, conns, cur>>,
           \A c \in Callers : reply[c] = Waiting => Undisturbed(c)
    PROVE  LinesInv'
<1>1. OneLine' /\ Calls' = Calls
  BY Zenon DEF LinesInv, OneLine, Calls
<1>2. ASSUME NEW call \in Calls, call.open  PROVE Undisturbed(call.who)
  <2>1. call \in Requests
    BY SMTT(30) DEF Calls, ServerTyped
  <2>2. call.who \in Callers
    BY Zenon, <2>1 DEF Requests
  <2>3. reply[call.who] = Waiting
    BY Zenon, <1>2 DEF LinesInv, Stands
  <2> QED
    BY Zenon, <2>2, <2>3
<1> QED
  BY Zenon, <1>1, <1>2, LinesStay

(* The request in hand is answered. *)
LEMMA LinesOfFinish ==
    ASSUME ServerTyped, LinesInv, cur # None, NEW r,
           reply' = Answered(cur, r), cur' = None, UNCHANGED <<src, conns, item, drift>>,
           DOMAIN reply = Callers
    PROVE  LinesInv'
<1>1. OneLine' /\ Calls' = {conns[k] : k \in DOMAIN conns}
  BY Zenon DEF LinesInv, OneLine, Calls
<1>2. ASSUME NEW call \in Calls'
      PROVE  call \in Calls /\ (call.open => Undisturbed(call.who))
  <2>1. PICK k \in DOMAIN conns : call = conns[k]
    BY Zenon, <1>1
  <2>2. cur.open /\ call.open => call.who # cur.who
    BY Zenon, <2>1 DEF LinesInv, OneLine
  <2>3. call.open => reply'[call.who] = reply[call.who]
    BY SMTT(30), <2>2 DEF Answered
  <2> QED
    BY Zenon, <2>1, <2>3 DEF Undisturbed, Calls
<1> QED
  BY Zenon, <1>1, <1>2, LinesStay

(* The head of the queue is answered or becomes the request in hand. *)
LEMMA LinesOfHandle ==
    ASSUME ServerTyped, LinesInv, HandleConnection, DOMAIN reply = Callers
    PROVE  LinesInv'
<1> DEFINE call == Head(conns)
<1>1. /\ cur = None /\ conns # <<>> /\ conns' = Tail(conns)
      /\ UNCHANGED <<src, item, drift>>
  BY Zenon DEF HandleConnection, clients
<1>2. /\ call = conns[1] /\ 1 \in DOMAIN conns /\ call \in Requests /\ call # None
      /\ \A k \in DOMAIN conns' : k + 1 \in DOMAIN conns /\ conns'[k] = conns[k + 1] /\ k # 0
  BY SMTT(30), <1>1, SidecarAssumption DEF ServerTyped
<1> HIDE DEF call
<1>3. \/ cur' = None /\ \E r : reply' = Answered(call, r)
      \/ cur' = call /\ reply' = reply
  BY Zenon, <1>1 DEF HandleConnection, call
<1>4. ASSUME NEW k \in DOMAIN conns', call.open, conns'[k].open
      PROVE  conns'[k].who # call.who
  <2>1. k + 1 \in DOMAIN conns /\ conns'[k] = conns[k + 1] /\ k + 1 # 1
    BY SMTT(30), <1>1, <1>2 DEF ServerTyped
  <2> QED
    BY Zenon, <1>2, <1>4, <2>1 DEF LinesInv, OneLine
<1>5. \A k, l \in DOMAIN conns' :
        conns'[k].open /\ conns'[l].open /\ conns'[k].who = conns'[l].who => k = l
  <2> SUFFICES ASSUME NEW k \in DOMAIN conns', NEW l \in DOMAIN conns',
                      conns'[k].open, conns'[l].open, conns'[k].who = conns'[l].who
               PROVE  k = l
    BY SMTT(30)
  <2>1. k + 1 = l + 1
    BY SMTT(30), <1>2 DEF LinesInv, OneLine
  <2>2. k \in Nat /\ l \in Nat
    BY SMTT(30), <1>1 DEF ServerTyped
  <2> QED
    BY SMTT(30), <2>1, <2>2
<1>6. OneLine'
  BY Zenon, <1>3, <1>4, <1>5 DEF OneLine
<1>7. ASSUME NEW c \in Calls'  PROVE c \in Calls /\ (c.open => Undisturbed(c.who))
  <2>1. CASE cur' = call /\ reply' = reply
    BY SMTT(30), <1>1, <1>2, <1>7, <2>1 DEF Calls, Undisturbed
  <2>2. CASE cur' = None /\ \E r : reply' = Answered(call, r)
    <3>1. PICK k \in DOMAIN conns' : c = conns'[k]
      BY Zenon, <1>7, <2>2 DEF Calls
    <3>2. c.open => reply'[c.who] = reply[c.who]
      BY SMTT(30), <1>4, <2>2, <3>1 DEF Answered
    <3> QED
      BY Zenon, <1>1, <1>2, <3>1, <3>2 DEF Calls, Undisturbed
  <2> QED
    BY Zenon, <1>3, <2>1, <2>2
<1> QED
  BY Zenon, <1>1, <1>6, <1>7, LinesStay

(* A caller gives up. *)
LEMMA LinesOfTimeout ==
    ASSUME ServerTyped, LinesInv, DOMAIN reply = Callers, NEW c, ClientTimeout(c)
    PROVE  LinesInv'
<1>1. /\ UNCHANGED <<src, item, drift>>
      /\ reply' = [reply EXCEPT ![c] = Refusal("timeout")]
  BY Zenon DEF ClientTimeout, clients
<1>2. /\ DOMAIN conns' = DOMAIN conns
      /\ \A k \in DOMAIN conns : conns[k] \in Requests /\ conns'[k] = Hangup(conns[k], c)
      /\ cur = None => cur' = None
      /\ cur # None => cur \in Requests /\ cur' = Hangup(cur, c) /\ cur' # None
  BY Zenon, HangupOf
<1>3. ASSUME NEW k \in DOMAIN conns
      PROVE  conns'[k].who = conns[k].who /\ (conns'[k].open => conns[k].open)
  BY SMTT(30), <1>2, HangsUp
<1>4. cur # None => cur'.who = cur.who /\ (cur'.open => cur.open)
  BY SMTT(30), <1>2, HangsUp
<1>5. OneLine'
  BY Zenon, <1>2, <1>3, <1>4 DEF LinesInv, OneLine
<1>6. ASSUME NEW call \in Calls'  PROVE Stands(call)'
  <2>1. PICK old \in Calls : old \in Requests /\ call = Hangup(old, c)
    BY Zenon, <1>2, <1>6 DEF Calls
  <2>2. /\ call.who = old.who /\ call.op = old.op /\ call.digest = old.digest
        /\ call.open => old.open /\ old.who # c
    BY SMTT(30), <2>1, HangsUp
  <2>3. Stands(old)
    BY Zenon DEF LinesInv
  <2>4. call.open => reply'[call.who] = reply[call.who]
    BY SMTT(30), <1>1, <2>2
  <2> QED
    BY Zenon, <1>1, <2>2, <2>3, <2>4 DEF Stands
<1> QED
  BY Zenon, <1>5, <1>6 DEF LinesInv

(* A caller that is idle sends a request. *)
LEMMA LinesOfSend ==
    ASSUME ServerTyped, LinesInv, DOMAIN reply = Callers, UNCHANGED <<src, cur>>,
           NEW c \in Callers, NEW op \in {"probe", "preflight", "run"},
           NEW digest \in Builds \cup {None}, Send(c, op, digest), reply[c] = Idle,
           op # "probe" => c \in DOMAIN src,
           \A a \in Items \ {c} : /\ item'[a].phase = item[a].phase /\ item'[a].reg = item[a].reg
                                  /\ (\A b : <<a, b>> \in drift => <<a, b>> \in drift'),
           c \in Items =>
               \/ op = "preflight" /\ item'[c].phase = "preflight"
               \/ /\ op = "run" /\ item'[c].phase = "running"
                  /\ digest = item'[c].reg \/ <<c, digest>> \in drift'
    PROVE  LinesInv'
<1> DEFINE call == Request(c, op, digest)
<1>1. /\ call.who = c /\ call.op = op /\ call.digest = digest /\ call.open = TRUE
      /\ call \in Requests
  BY Zenon, SendsTyped DEF Request
<1> HIDE DEF call
<1>2. ASSUME NEW old \in Calls, old.open  PROVE old.who # c /\ Undisturbed(old.who)
  <2>1. reply[old.who] = Waiting
    BY Zenon, <1>2 DEF LinesInv, Stands
  <2>2. old.who # c
    BY SMTT(30), <2>1 DEF Waiting, Idle
  <2>3. old.who \in DOMAIN reply
    <3>1. old \in Requests
      BY SMTT(30) DEF Calls, ServerTyped
    <3> QED
      BY Zenon, <3>1 DEF Requests
  <2>4. \E r : reply' = [reply EXCEPT ![c] = r]
    BY Zenon DEF Send
  <2>5. reply'[old.who] = reply[old.who]
    BY Zenon, <2>2, <2>3, <2>4
  <2> QED
    BY Zenon, <2>2, <2>5 DEF Undisturbed
<1>3. CASE conns' = conns
  <2>1. OneLine' /\ Calls' = Calls
    BY Zenon, <1>3 DEF LinesInv, OneLine, Calls
  <2> QED
    BY Zenon, <1>2, <2>1, LinesStay
<1>4. CASE conns' = Append(conns, call) /\ reply' = [reply EXCEPT ![c] = Waiting]
  <2>1. /\ DOMAIN conns' = DOMAIN conns \cup {Len(conns) + 1}
        /\ \A k \in DOMAIN conns : conns'[k] = conns[k] /\ conns[k] \in Calls
        /\ conns'[Len(conns) + 1] = call
    BY SMTT(30), <1>4 DEF ServerTyped, Calls
  <2>2. \A k \in DOMAIN conns : conns[k].open => conns[k].who # c
    BY Zenon, <1>2, <2>1
  <2>3. cur # None /\ cur.open => cur.who # c
    BY Zenon, <1>2 DEF Calls
  <2>4. OneLine'
    BY SMTT(30), <1>1, <2>1, <2>2, <2>3 DEF LinesInv, OneLine
  <2>5. Calls' = Calls \cup {call}
    BY SMTT(30), <2>1 DEF Calls
  <2>6. ASSUME NEW old \in Calls  PROVE Stands(old)'
    BY Zenon, <1>2, <2>6, StandsStill DEF LinesInv
  <2>7. Stands(call)'
    BY Zenon, <1>1, <1>4 DEF Stands, call, Request
  <2> QED
    BY Zenon, <2>4, <2>5, <2>6, <2>7 DEF LinesInv
<1> QED
  BY Zenon, <1>3, <1>4 DEF Send, call

-----------------------------------------------------------------------------
(* The answers. *)

(* A caller that waits is answered: a run with the parse of its source, a
   probe with a build. *)
LEMMA Answering ==
    ASSUME RepliesInv, UNCHANGED <<src, item, worker, drift>>,
           NEW c \in Callers, NEW r, reply[c] = Waiting, reply' = [reply EXCEPT ![c] = r],
           c \in Items /\ item[c].phase = "running" /\ r.kind = "ok" => RunAnswered(c, r),
           c = Heartbeat /\ r.kind = "probe" => r.build \in Builds
    PROVE  RepliesInv'
<1>1. Waiting # Idle
  BY Zenon DEF Waiting, Idle
<1>2. /\ DOMAIN reply' = Callers /\ reply'[c] = r
      /\ \A a \in Callers : a # c => reply'[a] = reply[a]
  BY Zenon DEF RepliesInv
<1>3. \A i \in Items : reply'[i] # Idle => item[i].phase \in {"preflight", "running"}
  BY Zenon, <1>1, <1>2 DEF RepliesInv, Callers
<1>4. ASSUME NEW i \in Items, item[i].phase = "running", reply'[i].kind = "ok"
      PROVE  RunAnswered(i, reply'[i])
  BY Zenon, <1>2, <1>4 DEF RepliesInv, Callers
<1>5. worker.beat # "probing" => reply'[Heartbeat] = Idle
  BY Zenon, <1>1, <1>2 DEF RepliesInv, Callers
<1>6. reply'[Heartbeat].kind = "probe" => reply'[Heartbeat].build \in Builds
  BY Zenon, <1>2 DEF RepliesInv, Callers
<1> QED
  BY SMTT(30), <1>2, <1>3, <1>4, <1>5, <1>6 DEF RepliesInv, RunAnswered

(* Nothing else changes an answer without its caller. *)
LEMMA RepliesSame ==
    ASSUME RepliesInv, UNCHANGED <<src, item, worker, drift>>,
           DOMAIN reply' = DOMAIN reply, \A c \in DOMAIN reply : reply'[c] = reply[c]
    PROVE  RepliesInv'
BY SMTT(30) DEF RepliesInv, RunAnswered, Callers

(* The answer to the request in hand. *)
LEMMA RepliesOfFinish ==
    ASSUME SourcesTyped, SafeServer, LinesInv, RepliesInv, cur # None,
           UNCHANGED <<src, item, worker, drift>>, NEW r, reply' = Answered(cur, r),
           \/ r.kind = "refused"
           \/ r = child.msg /\ r.kind = "ok" /\ ValidResult(cur, r)
    PROVE  RepliesInv'
<1> DEFINE i == cur.who
<1>1. /\ i \in DOMAIN src /\ i \in Items /\ i \in Callers /\ Heartbeat \notin Items
      /\ src[i] \in Sources /\ server.build \in Builds
  BY Zenon, SidecarAssumption DEF SafeServer, ServerTyped, SourcesTyped, Callers
<1>2. Stands(cur)
  BY Zenon DEF LinesInv, Calls
<1>3. CASE cur.open
  <2>1. reply[i] = Waiting /\ reply' = [reply EXCEPT ![i] = r]
    BY Zenon, <1>2, <1>3 DEF Stands, Answered
  <2>2. ASSUME item[i].phase = "running", r.kind = "ok"  PROVE RunAnswered(i, r)
    <3>1. cur.op = "run" /\ (cur.digest = item[i].reg \/ <<i, cur.digest>> \in drift)
      BY Zenon, <1>1, <1>2, <1>3, <2>2 DEF Stands
    <3>2. r = child.msg /\ ValidArtifacts(i, r.doc)
      BY Zenon, <2>2, <3>1 DEF ValidResult
    <3>3. MessageOf(cur, r)
      BY Zenon, <3>2 DEF SafeServer, ChildInv
    <3>4. /\ r.by = server.build /\ cur.digest = server.build
          /\ Parsed[src[i]].err = "none" /\ Sent(src[i], r.doc)
      BY Zenon, <2>2, <3>1, <3>3 DEF MessageOf
    <3>5. r.doc = Parsed[src[i]]
      BY Zenon, <1>1, <3>2, <3>4, ValidIsParsed DEF ValidArtifacts
    <3> QED
      BY Zenon, <1>1, <3>1, <3>4, <3>5 DEF RunAnswered
  <2> HIDE DEF i
  <2> QED
    BY Zenon, <1>1, <2>1, <2>2, Answering
<1>4. CASE ~cur.open
  <2>1. DOMAIN reply' = DOMAIN reply /\ \A c \in DOMAIN reply : reply'[c] = reply[c]
    BY Zenon, <1>1, <1>4 DEF Answered, RepliesInv
  <2> QED
    BY Zenon, <2>1, RepliesSame
<1> QED
  BY Zenon, <1>3, <1>4

LEMMA RepliesOfFinishing ==
    ASSUME SourcesTyped, SafeServer, LinesInv, RepliesInv, Finishes
    PROVE  RepliesInv' /\ LinesInv'
<1>1. cur # None
  BY Zenon DEF Finishes, ReapExited, ReapSignalled, ReapFailed, ReceiveTimeout, WaitTimeout,
         SafeServer, ChildInv
<1>2. PICK r, n : /\ Finish(r, n)
                  /\ \/ r.kind = "refused"
                     \/ r = child.msg /\ r.kind = "ok" /\ ValidResult(cur, r)
  <2>1. \A x : Refusal(x).kind = "refused"
    BY Zenon DEF Refusal
  <2>2. child.msg.kind \in {"refused", "ok"}
    BY Zenon, <1>1 DEF SafeServer, ChildInv, MessageOf
  <2> QED
    BY Zenon, <2>1, <2>2 DEF Finishes, ReapExited, ReapSignalled, ReapFailed, ReceiveTimeout, WaitTimeout
<1>3. UNCHANGED <<src, conns, item, worker, drift>> /\ reply' = Answered(cur, r) /\ cur' = None
  BY Zenon, <1>2 DEF Finish, clients
<1> QED
  BY Zenon, <1>1, <1>2, <1>3, RepliesOfFinish, LinesOfFinish DEF SafeServer, RepliesInv

LEMMA RepliesOfHandle ==
    ASSUME SourcesTyped, SafeServer, LinesInv, RepliesInv, HandleConnection
    PROVE  RepliesInv'
<1> DEFINE call == Head(conns)
<1>1. UNCHANGED <<src, item, worker, drift>> /\ conns # <<>> /\ server.build \in Builds
  BY Zenon DEF HandleConnection, clients, SafeServer, ServerTyped
<1>2. call \in Requests /\ call \in Calls
  BY SMTT(30), <1>1 DEF SafeServer, ServerTyped, Calls
<1> HIDE DEF call
<1>3. Stands(call) /\ call.who \in Callers
  BY Zenon, <1>2 DEF LinesInv, Requests
<1>4. CASE reply' = reply
  BY Zenon, <1>1, <1>4, RepliesSame
<1>5. ASSUME NEW r, reply' = Answered(call, r), r.kind # "ok",
             r.kind = "probe" => r.build \in Builds
      PROVE  RepliesInv'
  <2>1. CASE call.open
    <3>1. reply[call.who] = Waiting /\ reply' = [reply EXCEPT ![call.who] = r]
      BY Zenon, <1>3, <1>5, <2>1 DEF Stands, Answered
    <3> QED
      BY Zenon, <1>1, <1>3, <1>5, <3>1, Answering
  <2>2. CASE ~call.open
    <3>1. DOMAIN reply' = DOMAIN reply /\ \A c \in DOMAIN reply : reply'[c] = reply[c]
      BY Zenon, <1>3, <1>5, <2>2 DEF Answered, RepliesInv
    <3> QED
      BY Zenon, <1>1, <3>1, RepliesSame
  <2> QED
    BY Zenon, <2>1, <2>2
<1>6. ProbeResult.kind # "ok" /\ (ProbeResult.kind = "probe" => ProbeResult.build \in Builds)
  BY Zenon, <1>1 DEF ProbeResult, Refusal
<1>7. Refusal("sandbox_unavailable").kind = "refused"
  BY Zenon DEF Refusal
<1>8. \/ reply' = reply \/ reply' = Answered(call, ProbeResult)
      \/ reply' = Answered(call, Refusal("sandbox_unavailable"))
  BY Zenon DEF HandleConnection, call
<1> QED
  BY Zenon, <1>4, <1>5, <1>6, <1>7, <1>8

-----------------------------------------------------------------------------
(* The uploads. *)

ClientInv == RepliesInv /\ WorkerInv /\ ItemsTyped /\ ClaimsInv /\ AdmissionInv

(* The steps of the server leave the uploads alone. *)
LEMMA ItemsSame ==
    ASSUME ItemsTyped, ClaimsInv, AdmissionInv, WorkerInv,
           UNCHANGED <<src, item, worker, drift, api>>
    PROVE  ItemsTyped' /\ ClaimsInv' /\ AdmissionInv' /\ WorkerInv'
<1>1. ItemsTyped'
  BY Zenon DEF ItemsTyped, ItemTyped
<1>2. ClaimsInv'
  BY Zenon DEF ClaimsInv, RunAnswered
<1>3. AdmissionInv'
  BY Zenon DEF AdmissionInv, Admitted, Decision
<1>4. WorkerInv'
  BY Zenon DEF WorkerInv
<1> QED
  BY Zenon, <1>1, <1>2, <1>3, <1>4

(* An upload moves on, and its caller is idle afterwards. *)
LEMMA ItemMoves ==
    ASSUME ServerTyped, LinesInv, ClientInv, NEW i \in Items, NEW x,
           item' = [item EXCEPT ![i] = x], UNCHANGED <<src, conns, cur, worker, api>>,
           reply[i] # Waiting, reply'[i] = Idle, DOMAIN reply' = Callers,
           \A c \in Callers \ {i} : reply'[c] = reply[c],
           \A a, b : a # i /\ <<a, b>> \in drift => <<a, b>> \in drift',
           ItemTyped(i, x), Admitted(i, x), x.phase # "running",
           x.phase = "claimed" =>
               x.reg = worker.reg /\ (worker.digest = worker.reg \/ <<i, worker.digest>> \in drift'),
           x.phase = "parsed" =>
               /\ x.by \in Builds /\ (x.by = x.reg \/ <<i, x.by>> \in drift')
               /\ Parsed[src[i]].err = "none" /\ x.doc = Parsed[src[i]]
    PROVE  LinesInv' /\ ClientInv'
<1>1. /\ DOMAIN item' = Items /\ item'[i] = x
      /\ \A a \in Items : a # i => item'[a] = item[a]
  BY Zenon DEF ClientInv, ItemsTyped
<1>2. LinesInv'
  <2>1. \A c \in Callers : reply[c] = Waiting => Undisturbed(c)
    BY Zenon, <1>1 DEF Undisturbed
  <2> QED
    BY Zenon, <2>1, LinesOfClients
<1>3. ItemsTyped'
  BY Zenon, <1>1 DEF ClientInv, ItemsTyped, ItemTyped
<1>4. AdmissionInv'
  BY SMTT(30), <1>1 DEF ClientInv, AdmissionInv, Admitted, Decision
<1>5. WorkerInv'
  BY Zenon DEF ClientInv, WorkerInv
<1>6. ClaimsInv'
  <2> SUFFICES ASSUME NEW a \in Items
               PROVE  /\ item'[a].phase = "claimed" =>
                           /\ item'[a].reg = worker.reg
                           /\ worker.digest = worker.reg \/ <<a, worker.digest>> \in drift'
                      /\ item'[a].phase = "parsed" => RunAnswered(a, item[a])'
    BY Zenon DEF ClaimsInv
  <2>1. CASE a = i
    BY Zenon, <1>1, <2>1 DEF RunAnswered
  <2>2. CASE a # i
    BY Zenon, <1>1, <2>2 DEF ClientInv, ClaimsInv, RunAnswered
  <2> QED
    BY Zenon, <2>1, <2>2
<1>7. RepliesInv'
  <2>1. Heartbeat \in Callers /\ Heartbeat # i
    BY Zenon, SidecarAssumption DEF Callers
  <2>2. \A a \in Items : a \in Callers
    BY Zenon DEF Callers
  <2>3. \A a \in Items : reply'[a] # Idle => item'[a].phase \in {"preflight", "running"}
    BY SMTT(30), <1>1, <2>2 DEF ClientInv, RepliesInv
  <2>4. ASSUME NEW a \in Items, item'[a].phase = "running", reply'[a].kind = "ok"
        PROVE  RunAnswered(a, reply[a])'
    BY SMTT(30), <1>1, <2>2, <2>4 DEF ClientInv, RepliesInv, RunAnswered
  <2> QED
    BY Zenon, <2>1, <2>3, <2>4 DEF ClientInv, RepliesInv
<1> QED
  BY Zenon, <1>2, <1>3, <1>4, <1>5, <1>6, <1>7 DEF ClientInv

LEMMA QuietIsIdle ==
    ASSUME RepliesInv, NEW i \in Items, item[i].phase \notin {"preflight", "running"}
    PROVE  reply[i] = Idle /\ reply[i] # Waiting
BY SMTT(30) DEF RepliesInv, Idle, Waiting

(* Only the phase changes, to one in which the worker has no part. *)
LEMMA PhaseMoves ==
    ASSUME ServerTyped, LinesInv, ClientInv, NEW i \in Items,
           item[i].phase \notin {"absent", "preflight", "running"},
           NEW p \in {"refused", "staged", "kept", "stored"}, Phase(i, p),
           p # "refused" => InspectFile(src[i].file).family \notin FamilyRejections,
           UNCHANGED <<src, conns, cur, worker, api, reply, drift>>
    PROVE  LinesInv' /\ ClientInv'
<1> DEFINE x == [item[i] EXCEPT !.phase = p]
<1>1. item' = [item EXCEPT ![i] = x] /\ ItemTyped(i, item[i]) /\ Admitted(i, item[i])
  BY Zenon DEF Phase, ClientInv, ItemsTyped, AdmissionInv
<1>2. DOMAIN x = DOMAIN item[i] /\ x.phase = p /\ x.reg = item[i].reg
  BY Zenon, <1>1 DEF ItemTyped
<1> HIDE DEF x
<1>3. ItemTyped(i, x) /\ Admitted(i, x)
  BY Zenon, <1>1, <1>2 DEF ItemTyped, Phases, Admitted
<1>4. reply[i] = Idle /\ reply[i] # Waiting /\ DOMAIN reply' = Callers
  BY Zenon, QuietIsIdle DEF ClientInv, RepliesInv
<1>5. x.phase \notin {"running", "claimed", "parsed"}
  BY Zenon, <1>2
<1> QED
  BY Zenon, <1>1, <1>3, <1>4, <1>5, ItemMoves

(* An attempt ends, and the caller is idle afterwards. *)
LEMMA AttemptMoves ==
    ASSUME ServerTyped, LinesInv, ClientInv, NEW i \in Items,
           item[i].phase \in {"claimed", "running", "parsed"},
           item' = [item EXCEPT ![i] = Attempted(item[i])],
           reply[i] # Waiting, reply'[i] = Idle, DOMAIN reply' = Callers,
           \A c \in Callers \ {i} : reply'[c] = reply[c],
           UNCHANGED <<src, conns, cur, worker, api, drift>>
    PROVE  LinesInv' /\ ClientInv'
<1> DEFINE x == Attempted(item[i])
<1>1. ItemTyped(i, item[i]) /\ Admitted(i, item[i])
  BY Zenon DEF ClientInv, ItemsTyped, AdmissionInv
<1>2. DOMAIN x = DOMAIN item[i] /\ x.phase \in {"queued", "dead"} /\ x.reg = item[i].reg
  BY Zenon, <1>1 DEF ItemTyped, Attempted
<1> HIDE DEF x
<1>3. ItemTyped(i, x) /\ Admitted(i, x)
  BY Zenon, <1>1, <1>2 DEF ItemTyped, Phases, Admitted
<1> QED
  BY Zenon, <1>2, <1>3, ItemMoves DEF x

(* What the policy lets pass. *)
LEMMA DecisionPasses ==
    ASSUME NEW i, Decision(i) # "reject"
    PROVE  /\ InspectFile(src[i].file).family \notin FamilyRejections
           /\ Decision(i) = "process" =>
                \/ Format(src[i]) \in Enabled[api]
                \/ src[i].intent = "generic" /\ IsTabularFormat(InspectFile(src[i].file))
BY Zenon DEF Decision, DecideIntake, Format

LEMMA UploadMoves ==
    ASSUME ServerTyped, LinesInv, ClientInv, NEW i \in Items,
           UploadRejected(i) \/ UploadStaged(i) \/ UploadKept(i) \/ LoadExisting(i) \/ Persist(i)
    PROVE  LinesInv' /\ ClientInv'
<1>1. UNCHANGED <<src, conns, cur, worker, api, reply, drift>>
  BY Zenon DEF UploadRejected, UploadStaged, UploadKept, LoadExisting, Persist, sidecar
<1>2. Admitted(i, item[i])
  BY Zenon DEF ClientInv, AdmissionInv
<1>3. PICK p \in {"refused", "staged", "kept", "stored"} :
        /\ Phase(i, p) /\ item[i].phase \in {"new", "staged", "claimed", "parsed"}
        /\ p # "refused" => Decision(i) # "reject" \/ item[i].phase # "new"
  BY Zenon DEF UploadRejected, UploadStaged, UploadKept, LoadExisting, Persist
<1>4. p # "refused" => InspectFile(src[i].file).family \notin FamilyRejections
  BY Zenon, <1>2, <1>3, DecisionPasses DEF Admitted
<1> QED
  BY Zenon, <1>1, <1>3, <1>4, PhaseMoves

LEMMA CommitMoves ==
    ASSUME ServerTyped, LinesInv, ClientInv, NEW i \in Items, UploadCommit(i)
    PROVE  LinesInv' /\ ClientInv'
<1> DEFINE x == IF reply[i].kind = "ok" /\ Activated
                THEN [item[i] EXCEPT !.phase = "queued", !.reg = api]
                ELSE [item[i] EXCEPT !.phase = "refused"]
<1>1. /\ item[i].phase = "preflight" /\ reply[i] # Waiting /\ item' = [item EXCEPT ![i] = x]
      /\ reply' = [reply EXCEPT ![i] = Idle]
      /\ UNCHANGED <<src, conns, cur, worker, api, drift>>
  BY Zenon DEF UploadCommit, sidecar
<1>2. /\ DOMAIN reply' = Callers /\ reply'[i] = Idle
      /\ \A c \in Callers \ {i} : reply'[c] = reply[c]
  BY Zenon, <1>1 DEF ClientInv, RepliesInv, Callers
<1>3. ItemTyped(i, item[i]) /\ Admitted(i, item[i])
  BY Zenon DEF ClientInv, ItemsTyped, AdmissionInv
<1>4. /\ DOMAIN x = DOMAIN item[i]
      /\ \/ x.phase = "queued" /\ x.reg = api
         \/ x.phase = "refused" /\ x.reg = item[i].reg
  BY Zenon, <1>3 DEF ItemTyped
<1> HIDE DEF x
<1>5. ItemTyped(i, x) /\ Admitted(i, x)
  <2>1. Decision(i) = "process"
    BY Zenon, <1>1, <1>3 DEF Admitted
  <2> QED
    BY Zenon, <1>1, <1>3, <1>4, <2>1, DecisionPasses DEF ItemTyped, Phases, Admitted
<1>6. x.phase \notin {"running", "claimed", "parsed"}
  BY Zenon, <1>4
<1> QED
  BY Zenon, <1>1, <1>2, <1>5, <1>6, ItemMoves

LEMMA ReprocessMoves ==
    ASSUME ServerTyped, LinesInv, ClientInv, NEW i \in Items, Reprocess(i)
    PROVE  LinesInv' /\ ClientInv'
<1> DEFINE x == [item[i] EXCEPT !.phase = "queued", !.reg = api, !.tries = 0, !.again = @ + 1]
<1>1. /\ item[i].phase \in {"stored", "dead", "kept"} /\ Decision(i) = "process"
      /\ UNCHANGED <<src, conns, cur, worker, api, reply, drift>>
  BY Zenon DEF Reprocess, sidecar
<1>2. ItemTyped(i, item[i]) /\ i \in DOMAIN item
  BY Zenon DEF ClientInv, ItemsTyped
<1>3. item' = [item EXCEPT ![i] = x]
  BY Zenon, <1>2 DEF Reprocess
<1>4. DOMAIN x = DOMAIN item[i] /\ x.phase = "queued" /\ x.reg = api
  BY Zenon, <1>2 DEF ItemTyped
<1> HIDE DEF x
<1>5. ItemTyped(i, x) /\ Admitted(i, x)
  BY Zenon, <1>1, <1>2, <1>4, DecisionPasses DEF ItemTyped, Phases, Admitted
<1>6. reply[i] = Idle /\ reply[i] # Waiting /\ DOMAIN reply' = Callers
  BY Zenon, <1>1, QuietIsIdle DEF ClientInv, RepliesInv
<1> QED
  BY Zenon, <1>1, <1>3, <1>4, <1>5, <1>6, ItemMoves

LEMMA ClaimMoves ==
    ASSUME ServerTyped, LinesInv, ClientInv, NEW i \in Items, Claim(i)
    PROVE  LinesInv' /\ ClientInv'
<1> DEFINE x == [item[i] EXCEPT !.phase = "claimed", !.tries = @ + 1]
<1>1. /\ worker.ready /\ item[i].phase = "queued" /\ item[i].reg = worker.reg
      /\ drift' = {seen \in drift : seen[1] # i} /\ UNCHANGED <<src, conns, cur, worker, api, reply>>
  BY Zenon DEF Claim, sidecar
<1>2. ItemTyped(i, item[i]) /\ Admitted(i, item[i]) /\ i \in DOMAIN item
  BY Zenon DEF ClientInv, ItemsTyped, AdmissionInv
<1>3. item' = [item EXCEPT ![i] = x]
  BY Zenon, <1>2 DEF Claim
<1>4. DOMAIN x = DOMAIN item[i] /\ x.phase = "claimed" /\ x.reg = item[i].reg
  BY Zenon, <1>2 DEF ItemTyped
<1> HIDE DEF x
<1>5. ItemTyped(i, x) /\ Admitted(i, x)
  BY Zenon, <1>1, <1>2, <1>4 DEF ItemTyped, Phases, Admitted
<1>6. reply[i] = Idle /\ reply[i] # Waiting /\ DOMAIN reply' = Callers
  BY Zenon, <1>1, QuietIsIdle DEF ClientInv, RepliesInv
<1>7. x.reg = worker.reg /\ worker.digest = worker.reg
  BY Zenon, <1>1, <1>4 DEF ClientInv, WorkerInv
<1> QED
  BY Zenon, <1>1, <1>3, <1>4, <1>5, <1>6, <1>7, ItemMoves

LEMMA ReturnMoves ==
    ASSUME ServerTyped, LinesInv, ClientInv, NEW i \in Items, ParserReturned(i)
    PROVE  LinesInv' /\ ClientInv'
<1>1. /\ item[i].phase = "running" /\ reply[i] # Waiting
      /\ reply' = [reply EXCEPT ![i] = Idle]
      /\ UNCHANGED <<src, conns, cur, worker, api, drift>>
  BY Zenon DEF ParserReturned, sidecar
<1>2. /\ DOMAIN reply' = Callers /\ reply'[i] = Idle
      /\ \A c \in Callers \ {i} : reply'[c] = reply[c]
  BY Zenon, <1>1 DEF ClientInv, RepliesInv, Callers
<1>3. ItemTyped(i, item[i]) /\ Admitted(i, item[i])
  BY Zenon DEF ClientInv, ItemsTyped, AdmissionInv
<1> DEFINE x == [item[i] EXCEPT !.phase = "parsed", !.doc = reply[i].doc, !.by = reply[i].by]
<1>4. CASE reply[i].kind = "ok" /\ item' = [item EXCEPT ![i] = x]
  <2>1. /\ DOMAIN x = DOMAIN item[i] /\ x.phase = "parsed" /\ x.reg = item[i].reg
        /\ x.doc = reply[i].doc /\ x.by = reply[i].by
    BY Zenon, <1>3 DEF ItemTyped
  <2> HIDE DEF x
  <2>2. ItemTyped(i, x) /\ Admitted(i, x)
    BY Zenon, <1>1, <1>3, <2>1 DEF ItemTyped, Phases, Admitted
  <2>3. RunAnswered(i, reply[i])
    BY Zenon, <1>1, <1>4 DEF ClientInv, RepliesInv
  <2>4. /\ x.by \in Builds /\ (x.by = x.reg \/ <<i, x.by>> \in drift')
        /\ Parsed[src[i]].err = "none" /\ x.doc = Parsed[src[i]]
    BY Zenon, <1>1, <2>1, <2>3 DEF RunAnswered
  <2> QED
    BY Zenon, <1>1, <1>2, <1>4, <2>1, <2>2, <2>4, ItemMoves
<1>5. CASE item' = [item EXCEPT ![i] = Attempted(item[i])]
  BY Zenon, <1>1, <1>2, <1>5, AttemptMoves
<1> QED
  BY Zenon, <1>4, <1>5 DEF ParserReturned

LEMMA FailureMoves ==
    ASSUME ServerTyped, LinesInv, ClientInv, NEW i \in Items, PersistFails(i)
    PROVE  LinesInv' /\ ClientInv'
<1>1. /\ item[i].phase = "parsed" /\ item' = [item EXCEPT ![i] = Attempted(item[i])]
      /\ UNCHANGED <<src, conns, cur, worker, api, reply, drift>>
  BY Zenon DEF PersistFails, sidecar
<1>2. reply[i] = Idle /\ reply[i] # Waiting /\ DOMAIN reply' = Callers
  BY Zenon, <1>1, QuietIsIdle DEF ClientInv, RepliesInv
<1> QED
  BY Zenon, <1>1, <1>2, AttemptMoves

(* A request for an upload: its caller was idle and waits now, or was refused. *)
LEMMA ItemSends ==
    ASSUME ServerTyped, LinesInv, ClientInv, NEW i \in Items, NEW op, NEW p,
           NEW digest \in Builds, Phase(i, p), Send(i, op, digest),
           UNCHANGED <<src, cur, worker, api, drift>>,
           item[i].phase \in {"new", "claimed"}, Admitted(i, [item[i] EXCEPT !.phase = p]),
           \/ op = "preflight" /\ p = "preflight"
           \/ op = "run" /\ p = "running" /\ (digest = item[i].reg \/ <<i, digest>> \in drift)
    PROVE  LinesInv' /\ ClientInv' /\ conns' \in Seq(Requests)
<1> DEFINE x == [item[i] EXCEPT !.phase = p]
<1>1. item' = [item EXCEPT ![i] = x] /\ ItemTyped(i, item[i]) /\ DOMAIN item = Items
  BY Zenon DEF Phase, ClientInv, ItemsTyped
<1>2. DOMAIN x = DOMAIN item[i] /\ x.phase = p /\ x.reg = item[i].reg
  BY Zenon, <1>1 DEF ItemTyped
<1>3. Admitted(i, x)
  BY SMTT(30)
<1> HIDE DEF x
<1>4. /\ DOMAIN item' = Items /\ item'[i] = x
      /\ \A a \in Items : a # i => item'[a] = item[a]
  BY Zenon, <1>1
<1>5. /\ reply[i] = Idle /\ DOMAIN reply = Callers /\ i \in Callers /\ i # Heartbeat
      /\ Heartbeat \in Callers
  BY Zenon, QuietIsIdle, SidecarAssumption DEF ClientInv, RepliesInv, Callers
<1>6. PICK r : reply' = [reply EXCEPT ![i] = r] /\ r.kind # "ok"
  <2>1. Refusal("sidecar request failed").kind # "ok" /\ Waiting.kind # "ok"
    BY Zenon DEF Refusal, Waiting
  <2> QED
    BY Zenon, <2>1 DEF Send
<1>7. /\ DOMAIN reply' = Callers /\ reply'[i] = r
      /\ \A c \in Callers : c # i => reply'[c] = reply[c]
  BY Zenon, <1>5, <1>6
<1>8. i \in DOMAIN src /\ op \in {"probe", "preflight", "run"}
  BY Zenon, <1>1 DEF ItemTyped
<1>9. LinesInv' /\ conns' \in Seq(Requests)
  BY Zenon, <1>2, <1>4, <1>5, <1>8, LinesOfSend, SendsTyped
<1>10. ItemsTyped'
  BY Zenon, <1>1, <1>2, <1>4 DEF ClientInv, ItemsTyped, ItemTyped, Phases
<1>11. AdmissionInv'
  BY SMTT(30), <1>3, <1>4 DEF ClientInv, AdmissionInv, Admitted, Decision
<1>12. ClaimsInv' /\ WorkerInv'
  BY SMTT(30), <1>2, <1>4 DEF ClientInv, ClaimsInv, WorkerInv, RunAnswered
<1>13. RepliesInv'
  <2>1. \A a \in Items : a \in Callers
    BY Zenon DEF Callers
  <2>2. \A a \in Items : reply'[a] # Idle => item'[a].phase \in {"preflight", "running"}
    BY Zenon, <1>2, <1>4, <1>7, <2>1 DEF ClientInv, RepliesInv
  <2>3. ASSUME NEW a \in Items, item'[a].phase = "running", reply'[a].kind = "ok"
        PROVE  RunAnswered(a, reply[a])'
    BY SMTT(30), <1>4, <1>6, <1>7, <2>1, <2>3 DEF ClientInv, RepliesInv, RunAnswered
  <2> QED
    BY Zenon, <1>5, <1>7, <2>2, <2>3 DEF ClientInv, RepliesInv
<1> QED
  BY Zenon, <1>9, <1>10, <1>11, <1>12, <1>13 DEF ClientInv

LEMMA PreflightMoves ==
    ASSUME ServerTyped, LinesInv, ClientInv, NEW i \in Items, UploadPreflight(i)
    PROVE  LinesInv' /\ ClientInv' /\ conns' \in Seq(Requests)
<1>1. /\ item[i].phase = "new" /\ Decision(i) = "process" /\ Phase(i, "preflight")
      /\ Send(i, "preflight", api) /\ UNCHANGED <<src, cur, worker, api, drift>>
  BY Zenon DEF UploadPreflight
<1> DEFINE x == [item[i] EXCEPT !.phase = "preflight"]
<1>2. ItemTyped(i, item[i]) /\ Admitted(i, item[i]) /\ api \in Builds
  BY Zenon DEF ClientInv, ItemsTyped, AdmissionInv
<1>3. x.phase = "preflight" /\ x.reg = item[i].reg
  BY Zenon, <1>2 DEF ItemTyped
<1> HIDE DEF x
<1>4. Admitted(i, x)
  BY Zenon, <1>1, <1>2, <1>3, DecisionPasses DEF Admitted
<1> QED
  BY Zenon, <1>1, <1>2, <1>4, ItemSends DEF x

LEMMA RunMoves ==
    ASSUME ServerTyped, LinesInv, ClientInv, NEW i \in Items, RunParser(i)
    PROVE  LinesInv' /\ ClientInv' /\ conns' \in Seq(Requests)
<1>1. item[i].phase = "claimed" /\ UNCHANGED <<src, cur, worker, api, drift>>
  BY Zenon DEF RunParser
<1>2. /\ ItemTyped(i, item[i]) /\ Admitted(i, item[i])
      /\ worker.digest = item[i].reg \/ <<i, worker.digest>> \in drift
      /\ worker.digest \in Builds \cup {None}
  BY Zenon, <1>1 DEF ClientInv, ItemsTyped, AdmissionInv, ClaimsInv, WorkerInv
<1>3. CASE item' = [item EXCEPT ![i] = Attempted(item[i])] /\ UNCHANGED <<conns, reply>>
  <2>1. reply[i] = Idle /\ reply[i] # Waiting /\ DOMAIN reply' = Callers
    BY Zenon, <1>1, <1>3, QuietIsIdle DEF ClientInv, RepliesInv
  <2> QED
    BY Zenon, <1>1, <1>3, <2>1, AttemptMoves DEF ServerTyped
<1>4. CASE worker.digest # None /\ Phase(i, "running") /\ Send(i, "run", worker.digest)
  <2> DEFINE x == [item[i] EXCEPT !.phase = "running"]
  <2>1. x.phase = "running" /\ x.reg = item[i].reg
    BY Zenon, <1>2 DEF ItemTyped
  <2> HIDE DEF x
  <2>2. Admitted(i, x)
    BY Zenon, <1>1, <1>2, <2>1 DEF Admitted
  <2> QED
    BY Zenon, <1>1, <1>2, <1>4, <2>2, ItemSends DEF x
<1> QED
  BY Zenon, <1>3, <1>4 DEF RunParser

-----------------------------------------------------------------------------
(* The heartbeat, the faults and the restarts. *)

LEMMA ProbeMoves ==
    ASSUME ServerTyped, LinesInv, ClientInv, BeatProbe
    PROVE  LinesInv' /\ ClientInv' /\ conns' \in Seq(Requests)
<1>1. /\ worker.beat = "idle" /\ worker' = [worker EXCEPT !.beat = "probing"]
      /\ Send(Heartbeat, "probe", None) /\ UNCHANGED <<src, cur, item, api, drift>>
  BY Zenon DEF BeatProbe
<1>2. /\ Heartbeat \in Callers /\ Heartbeat \notin Items /\ DOMAIN reply = Callers
      /\ reply[Heartbeat] = Idle
  BY Zenon, <1>1, SidecarAssumption DEF ClientInv, RepliesInv, Callers
<1>3. LinesInv' /\ conns' \in Seq(Requests)
  BY Zenon, <1>1, <1>2, LinesOfSend, SendsTyped
<1>4. /\ worker'.reg = worker.reg /\ worker'.digest = worker.digest /\ worker'.ready = worker.ready
      /\ worker'.beat = "probing" /\ WorkerInv'
  BY Zenon, <1>1 DEF ClientInv, WorkerInv
<1>5. ItemsTyped' /\ ClaimsInv' /\ AdmissionInv'
  BY SMTT(30), <1>1, <1>4 DEF ClientInv, ItemsTyped, ItemTyped, ClaimsInv, RunAnswered, AdmissionInv,
                    Admitted, Decision
<1>6. PICK r : reply' = [reply EXCEPT ![Heartbeat] = r] /\ r.kind # "probe"
  <2>1. Refusal("sidecar request failed").kind # "probe" /\ Waiting.kind # "probe"
    BY Zenon DEF Refusal, Waiting
  <2> QED
    BY Zenon, <1>1, <2>1 DEF Send
<1>7. /\ DOMAIN reply' = Callers /\ reply'[Heartbeat] = r
      /\ \A a \in Items : reply'[a] = reply[a]
  BY Zenon, <1>2, <1>6 DEF Callers
<1>8. RepliesInv'
  BY SMTT(30), <1>1, <1>4, <1>6, <1>7 DEF ClientInv, RepliesInv, RunAnswered
<1> QED
  BY Zenon, <1>3, <1>4, <1>5, <1>8 DEF ClientInv

(* A probe that sees another build marks every upload that is claimed. *)
LEMMA ProbedMoves ==
    ASSUME ServerTyped, LinesInv, ClientInv, BeatProbed
    PROVE  LinesInv' /\ ClientInv'
<1> DEFINE b == Probed(reply[Heartbeat])
<1>1. /\ worker.beat = "probing" /\ reply[Heartbeat] # Waiting
      /\ worker' = [worker EXCEPT !.digest = b, !.ready = (b = worker.reg), !.beat = "publishing"]
      /\ drift' = IF b = worker.reg THEN drift
                  ELSE drift \cup {<<i, b>> : i \in {j \in Items : item[j].phase = "claimed"}}
      /\ reply' = [reply EXCEPT ![Heartbeat] = Idle]
      /\ UNCHANGED <<src, conns, cur, item, api>>
  BY Zenon DEF BeatProbed, sidecar
<1>2. /\ DOMAIN reply' = Callers /\ reply'[Heartbeat] = Idle
      /\ \A a \in Items : reply'[a] = reply[a]
  BY Zenon, <1>1, SidecarAssumption DEF ClientInv, RepliesInv, Callers
<1>3. b \in Builds \cup {None}
  BY Zenon DEF Probed, ClientInv, RepliesInv
<1> HIDE DEF b
<1>4. /\ worker'.reg = worker.reg /\ worker'.digest = b /\ worker'.beat = "publishing"
      /\ WorkerInv'
  BY Zenon, <1>1, <1>3 DEF ClientInv, WorkerInv
<1>5. drift \subseteq drift'
  BY Zenon, <1>1
<1>6. LinesInv'
  <2>1. \A c \in Callers : reply[c] = Waiting => Undisturbed(c)
    BY Zenon, <1>1, <1>2, <1>5 DEF Undisturbed, Callers
  <2> QED
    BY Zenon, <1>1, <2>1, LinesOfClients
<1>7. ItemsTyped' /\ AdmissionInv'
  BY Zenon, <1>1 DEF ClientInv, ItemsTyped, ItemTyped, AdmissionInv, Admitted, Decision
<1>8. ClaimsInv'
  <2>1. \A i \in Items : item[i].phase = "claimed" => b = worker.reg \/ <<i, b>> \in drift'
    BY Zenon, <1>1
  <2> QED
    BY Zenon, <1>1, <1>4, <1>5, <2>1 DEF ClientInv, ClaimsInv, RunAnswered
<1>9. Idle.kind # "probe"
  BY Zenon DEF Idle
<1>10. RepliesInv'
  BY SMTT(30), <1>1, <1>2, <1>5, <1>9 DEF ClientInv, RepliesInv, RunAnswered
<1> QED
  BY Zenon, <1>4, <1>6, <1>7, <1>8, <1>10 DEF ClientInv

LEMMA PublishMoves ==
    ASSUME ServerTyped, LinesInv, ClientInv, BeatPublish
    PROVE  LinesInv' /\ ClientInv'
<1>1. /\ worker.beat = "publishing" /\ worker' = [worker EXCEPT !.beat = "idle"]
      /\ UNCHANGED <<src, conns, cur, reply, item, api, drift>>
  BY Zenon DEF BeatPublish, sidecar
<1>2. /\ worker'.reg = worker.reg /\ worker'.digest = worker.digest
      /\ worker'.beat = "idle" /\ WorkerInv'
  BY Zenon, <1>1 DEF ClientInv, WorkerInv
<1>3. LinesInv'
  <2>1. \A c \in Callers : reply[c] = Waiting => Undisturbed(c)
    BY Zenon, <1>1 DEF Undisturbed
  <2> QED
    BY Zenon, <1>1, <2>1, LinesOfClients
<1>4. ItemsTyped' /\ ClaimsInv' /\ AdmissionInv'
  BY SMTT(30), <1>1, <1>2 DEF ClientInv, ItemsTyped, ItemTyped, ClaimsInv, RunAnswered, AdmissionInv,
                    Admitted, Decision
<1>5. RepliesInv'
  BY Zenon, <1>1, <1>2 DEF ClientInv, RepliesInv, RunAnswered
<1> QED
  BY Zenon, <1>2, <1>3, <1>4, <1>5 DEF ClientInv

(* Everything the uploads and their callers depend on is as it was. *)
LEMMA ClientsSame ==
    ASSUME ClientInv, UNCHANGED <<src, reply, api, worker, item, drift>>
    PROVE  ClientInv'
BY Zenon, ItemsSame, RepliesSame DEF ClientInv

LEMMA ExpiryMoves ==
    ASSUME ServerTyped, LinesInv, ClientInv,
           UNCHANGED <<src, conns, cur, reply, api, worker, item, drift>>
    PROVE  LinesInv' /\ ClientInv'
<1>1. \A c \in Callers : reply[c] = Waiting => Undisturbed(c)
  BY Zenon DEF Undisturbed
<1> QED
  BY Zenon, <1>1, LinesOfClients, ClientsSame

LEMMA GivingUp ==
    ASSUME ServerTyped, LinesInv, ClientInv, NEW c \in Callers, ClientTimeout(c)
    PROVE  LinesInv' /\ ClientInv'
<1>1. /\ UNCHANGED <<src, item, worker, drift, api>> /\ reply[c] = Waiting
      /\ reply' = [reply EXCEPT ![c] = Refusal("timeout")]
  BY Zenon DEF ClientTimeout, clients
<1>2. Refusal("timeout").kind = "refused"
  BY Zenon DEF Refusal
<1>3. RepliesInv'
  BY Zenon, <1>1, <1>2, Answering DEF ClientInv
<1> QED
  BY Zenon, <1>1, <1>3, ItemsSame, LinesOfTimeout DEF ClientInv, RepliesInv

LEMMA NoCalls ==
    ASSUME conns' = <<>>, cur' = None
    PROVE  LinesInv'
BY SMTT(30) DEF LinesInv, Calls, OneLine

LEMMA StopMoves ==
    ASSUME ClientInv, SidecarStop
    PROVE  LinesInv' /\ ClientInv'
<1>1. /\ conns' = <<>> /\ cur' = None /\ UNCHANGED <<src, item, worker, drift, api>>
      /\ reply' = [c \in Callers |-> IF reply[c] = Waiting THEN Refusal("connection lost")
                                     ELSE reply[c]]
  BY Zenon DEF SidecarStop, clients
<1>2. Refusal("connection lost").kind = "refused" /\ Waiting # Idle
  BY Zenon DEF Refusal, Waiting, Idle
<1>3. /\ DOMAIN reply' = Callers
      /\ \A c \in Callers : \/ reply'[c] = reply[c]
                            \/ reply[c] # Idle /\ reply'[c].kind = "refused"
  BY Zenon, <1>1, <1>2
<1>4. Heartbeat \in Callers /\ \A i \in Items : i \in Callers
  BY Zenon DEF Callers
<1>5. ASSUME NEW i \in Items, item'[i].phase = "running", reply'[i].kind = "ok"
      PROVE  RunAnswered(i, reply[i])'
  BY ZenonT(30), <1>1, <1>3, <1>4, <1>5 DEF ClientInv, RepliesInv, RunAnswered
<1>6. RepliesInv'
  BY Zenon, <1>1, <1>3, <1>4, <1>5 DEF ClientInv, RepliesInv
<1> QED
  BY Zenon, <1>1, <1>6, ItemsSame, NoCalls DEF ClientInv

LEMMA ApiRestartMoves ==
    ASSUME ServerTyped, ClientInv, ApiRestart
    PROVE  LinesInv' /\ ClientInv'
<1>1. /\ conns = <<>> /\ cur = None /\ server.build \in Builds /\ api' = server.build
      /\ UNCHANGED <<src, conns, cur, worker, drift>>
  BY Zenon DEF ApiRestart, Quiet, sidecar, ServerTyped
<1>2. /\ DOMAIN item' = Items /\ DOMAIN reply' = Callers
      /\ \A i \in Items : item'[i] = IF item[i].phase \in {"preflight", "staged"}
                                     THEN [item[i] EXCEPT !.phase = "refused"] ELSE item[i]
      /\ \A c \in Callers : reply'[c] = IF c \in Items /\ item[c].phase = "preflight"
                                        THEN Idle ELSE reply[c]
  BY Zenon DEF ApiRestart
<1>3. ASSUME NEW i \in Items
      PROVE  \/ /\ item'[i] = item[i] /\ item[i].phase # "preflight" /\ reply'[i] = reply[i]
             \/ /\ item'[i].phase = "refused" /\ item'[i].reg = item[i].reg
                /\ DOMAIN item'[i] = DOMAIN item[i] /\ item[i].phase # "absent"
                /\ reply'[i] = Idle
  <2>1. ItemTyped(i, item[i]) /\ i \in Callers
    BY Zenon DEF ClientInv, ItemsTyped, Callers
  <2>2. item[i].phase = "staged" => reply[i] = Idle
    BY Zenon, QuietIsIdle DEF ClientInv
  <2> QED
    BY Zenon, <1>2, <2>1, <2>2 DEF ItemTyped
<1>4. ItemsTyped'
  BY SMTT(30), <1>1, <1>2, <1>3 DEF ClientInv, ItemsTyped, ItemTyped, Phases
<1>5. AdmissionInv'
  BY Zenon, <1>1, <1>3 DEF ClientInv, AdmissionInv, Admitted
<1>6. ClaimsInv' /\ WorkerInv'
  BY SMTT(30), <1>1, <1>3 DEF ClientInv, ClaimsInv, WorkerInv, RunAnswered
<1>7. RepliesInv'
  <2>1. Heartbeat \in Callers /\ Heartbeat \notin Items
    BY Zenon, SidecarAssumption DEF Callers
  <2>2. reply'[Heartbeat] = reply[Heartbeat]
    BY Zenon, <1>2, <2>1
  <2>3. Idle.kind # "ok"
    BY Zenon DEF Idle
  <2>4. ASSUME NEW i \in Items, item'[i].phase = "running", reply'[i].kind = "ok"
        PROVE  RunAnswered(i, reply[i])'
    BY SMTT(30), <1>1, <1>3, <2>3, <2>4 DEF ClientInv, RepliesInv, RunAnswered
  <2> QED
    BY SMTT(30), <1>1, <1>2, <1>3, <2>2, <2>4 DEF ClientInv, RepliesInv
<1> QED
  BY Zenon, <1>1, <1>4, <1>5, <1>6, <1>7, NoCalls DEF ClientInv

LEMMA WorkerRestartMoves ==
    ASSUME ServerTyped, ClientInv, WorkerRestart
    PROVE  LinesInv' /\ ClientInv'
<1>1. /\ conns = <<>> /\ cur = None /\ server.build \in Builds
      /\ worker' = [reg |-> server.build, digest |-> server.build, ready |-> TRUE, beat |-> "idle"]
      /\ UNCHANGED <<src, conns, cur, api, drift>>
  BY Zenon DEF WorkerRestart, Quiet, sidecar, ServerTyped
<1>2. /\ DOMAIN item' = Items /\ DOMAIN reply' = Callers
      /\ \A i \in Items : item'[i] = IF InWorker(i) THEN Attempted(item[i]) ELSE item[i]
      /\ \A c \in Callers : reply'[c] = IF InWorker(c) THEN Idle ELSE reply[c]
  BY Zenon DEF WorkerRestart
<1>3. ASSUME NEW i \in Items
      PROVE  \/ /\ item'[i] = item[i] /\ item[i].phase \notin {"claimed", "running", "parsed"}
                /\ reply'[i] = reply[i]
             \/ /\ item'[i].phase \in {"queued", "dead"} /\ item'[i].reg = item[i].reg
                /\ DOMAIN item'[i] = DOMAIN item[i] /\ reply'[i] = Idle
                /\ item[i].phase \in {"claimed", "running", "parsed"}
  <2>1. ItemTyped(i, item[i]) /\ i \in Callers /\ i # Heartbeat
    BY Zenon, SidecarAssumption DEF ClientInv, ItemsTyped, Callers
  <2>2. InWorker(i) <=> item[i].phase \in {"claimed", "running", "parsed"}
    BY Zenon, <2>1 DEF InWorker
  <2>3. /\ DOMAIN Attempted(item[i]) = DOMAIN item[i]
        /\ Attempted(item[i]).phase \in {"queued", "dead"}
        /\ Attempted(item[i]).reg = item[i].reg
    BY Zenon, <2>1 DEF ItemTyped, Attempted
  <2> QED
    BY Zenon, <1>2, <2>1, <2>2, <2>3
<1>4. ItemsTyped'
  BY SMTT(30), <1>1, <1>2, <1>3 DEF ClientInv, ItemsTyped, ItemTyped, Phases
<1>5. AdmissionInv'
  BY ZenonT(30), <1>1, <1>3 DEF ClientInv, AdmissionInv, Admitted, Decision
<1>6. ClaimsInv' /\ WorkerInv'
  BY Zenon, <1>1, <1>3 DEF ClaimsInv, WorkerInv
<1>7. RepliesInv'
  <2>1. Heartbeat \in Callers /\ InWorker(Heartbeat)
    BY Zenon DEF Callers, InWorker
  <2>2. reply'[Heartbeat] = Idle /\ Idle.kind \notin {"ok", "probe"}
    BY Zenon, <1>2, <2>1 DEF Idle
  <2> QED
    BY SMTT(30), <1>2, <1>3, <2>2 DEF ClientInv, RepliesInv
<1> QED
  BY Zenon, <1>1, <1>4, <1>5, <1>6, <1>7, NoCalls DEF ClientInv

-----------------------------------------------------------------------------
(* The stored pages. *)

LEMMA StoreSame ==
    ASSUME StoreInv, UNCHANGED <<src, store>>
    PROVE  StoreInv'
BY SMTT(30) DEF StoreInv, PagesBy, NewManifest

(* Persist stores the pages of the parse for one build, whatever was there. *)
LEMMA PersistStores ==
    ASSUME SourcesTyped, ItemsTyped, ClaimsInv, StoreInv, NEW i \in Items, Persist(i)
    PROVE  StoreInv'
<1> DEFINE doc == Parsed[src[i]]
           b == item[i].by
           old == store[i]
           new == [slots |-> [p \in DOMAIN old.slots \cup PagesOf(doc) |->
                                IF p \in PagesOf(doc) THEN b ELSE old.slots[p]],
                   manifest |-> IF NewManifest(i, doc, b) = None THEN old.manifest
                                ELSE NewManifest(i, doc, b),
                   docs |-> old.docs \cup {[reg |-> item[i].reg, by |-> b]}]
<1>1. item[i].phase = "parsed" /\ src' = src
  BY Zenon DEF Persist
<1>2. /\ i \in DOMAIN src /\ src[i] \in Sources /\ b \in Builds
      /\ doc.err = "none" /\ item[i].doc = doc
  BY Zenon, <1>1 DEF SourcesTyped, ItemsTyped, ItemTyped, ClaimsInv, RunAnswered
<1>3. store' = [store EXCEPT ![i] = new]
  BY Zenon, <1>2 DEF Persist
<1>4. /\ DOMAIN store' = Items /\ store'[i] = new
      /\ \A a \in Items : a # i => store'[a] = store[a]
  BY Zenon, <1>3 DEF StoreInv
<1>5. DOMAIN new = {"slots", "manifest", "docs"}
  BY SMTT(30)
<1>6. src[i].fmt = "pdf" => PagesBy(i, new, b)
  <2> SUFFICES ASSUME src[i].fmt = "pdf" PROVE PagesBy(i, new, b)
    BY SMTT(30)
  <2>1. DOMAIN old.slots \subseteq PagesOf(doc)
    <3>1. old.slots = <<>> \/ \E a \in Builds : old.slots = [p \in PagesOf(doc) |-> a]
      BY Zenon, <1>2 DEF StoreInv, PagesBy
    <3> QED
      BY SMTT(30), <3>1
  <2>2. new.slots = [p \in PagesOf(doc) |-> b]
    BY Zenon, <2>1
  <2>3. NewManifest(i, doc, b) # None
    BY Zenon, <1>2, AdapterAssumption, SidecarAssumption DEF NewManifest
  <2>4. new.manifest = NewManifest(i, doc, b)
    BY Zenon, <2>3
  <2> QED
    BY ZenonT(30), <2>2, <2>4 DEF PagesBy
<1>7. src[i].fmt = "image" => DOMAIN new.slots = {1}
  <2> SUFFICES ASSUME src[i].fmt = "image" PROVE DOMAIN new.slots = {1}
    BY SMTT(30)
  <2>1. PagesOf(doc) = {1}
    BY Zenon, <1>2, PagesOfParse
  <2>2. DOMAIN old.slots \subseteq {1}
    BY SMTT(30), <1>2 DEF StoreInv
  <2> QED
    BY Zenon, <2>1, <2>2
<1> HIDE DEF new, doc, b
<1>8. ASSUME NEW a \in DOMAIN src
      PROVE  /\ src[a].fmt = "pdf" =>
                 \/ store'[a].manifest = None /\ store'[a].slots = <<>>
                 \/ Parsed[src[a]].err = "none" /\ \E c \in Builds : PagesBy(a, store'[a], c)
             /\ src[a].fmt = "image" =>
                 DOMAIN store'[a].slots = {1} \/ (store'[a].slots = <<>> /\ store'[a].docs = {})
  <2>1. CASE a = i
    BY Zenon, <1>2, <1>4, <1>6, <1>7, <2>1 DEF doc
  <2>2. CASE a # i
    <3>1. store'[a] = store[a]
      BY Zenon, <1>4, <2>2 DEF SourcesTyped
    <3> QED
      BY Zenon, <3>1 DEF StoreInv
  <2> QED
    BY Zenon, <2>1, <2>2
<1> QED
  BY SMTT(30), <1>1, <1>4, <1>5, <1>8 DEF StoreInv, PagesBy, NewManifest

-----------------------------------------------------------------------------
(* The invariant holds throughout. *)

LEMMA SidecarInit == Init => SidecarInv
<1> SUFFICES ASSUME Init PROVE SidecarInv
  BY SMTT(30)
<1>1. PICK b \in Builds, l \in Loads :
        /\ src = l.src /\ server = [build |-> b, ready |-> TRUE]
        /\ conns = <<>> /\ cur = None /\ child = NoChild /\ got = FALSE /\ held = 0
        /\ reply = [c \in Callers |-> Idle] /\ api = b
        /\ worker = [reg |-> b, digest |-> b, ready |-> TRUE, beat |-> "idle"]
        /\ item = [i \in Items |-> [phase |-> IF i \in DOMAIN src THEN "new" ELSE "absent",
                                    reg |-> None, tries |-> 0, again |-> 0, doc |-> <<>>, by |-> None]]
        /\ store = [i \in Items |-> [slots |-> <<>>, manifest |-> None, docs |-> {}]]
  BY Zenon DEF Init
<1>2. SourcesTyped
  <2>1. DOMAIN src \subseteq Items
    BY Zenon, <1>1, SidecarAssumption
  <2>2. \A i \in DOMAIN l.src : l.src[i] \in Sources
    BY SMTT(30) DEF Sources
  <2> QED
    BY Zenon, <1>1, <2>1, <2>2 DEF SourcesTyped
<1>3. b # None /\ <<>> \in Seq(Requests)
  BY SMTT(30), SidecarAssumption
<1>4. ServerTyped
  BY Zenon, <1>1, <1>3 DEF ServerTyped
<1>5. ChildInv /\ NothingLeaks
  BY Zenon, <1>1 DEF ChildInv, NothingLeaks, NoChild, NoMessage, Refusal, HasMessage
<1>6. LinesInv
  BY SMTT(30), <1>1 DEF LinesInv, Calls, OneLine
<1>7. ASSUME NEW i \in Items
      PROVE  /\ DOMAIN item[i] = {"phase", "reg", "tries", "again", "doc", "by"}
             /\ item[i].phase \in {"new", "absent"} /\ item[i].reg = None
             /\ item[i].phase # "absent" => i \in DOMAIN src
  BY Zenon, <1>1
<1>8. WorkerInv
  BY Zenon, <1>1 DEF WorkerInv
<1>9. ItemsTyped
  BY Zenon, <1>1, <1>7 DEF ItemsTyped, ItemTyped, Phases
<1>10. ClaimsInv /\ AdmissionInv
  BY Zenon, <1>1, <1>7 DEF ClaimsInv, AdmissionInv, Admitted
<1>11. RepliesInv
  <2>1. DOMAIN reply = Callers /\ \A c \in Callers : reply[c] = Idle
    BY Zenon, <1>1
  <2>2. Idle.kind = "idle" /\ Heartbeat \in Callers /\ \A i \in Items : i \in Callers
    BY Zenon DEF Idle, Callers
  <2> QED
    BY Zenon, <2>1, <2>2 DEF RepliesInv
<1>12. StoreInv
  BY Zenon, <1>1, <1>2 DEF StoreInv, SourcesTyped
<1> QED
  BY SMTT(30), <1>2, <1>4, <1>5, <1>6, <1>8, <1>9, <1>10, <1>11, <1>12 DEF SidecarInv

ServerMoves ==
    \/ ChildSend \/ ChildMisreports \/ ChildExit \/ ChildFails
    \/ HandleConnection \/ ReceiveChildResponse \/ Finishes \/ SidecarStop
    \/ \E b \in Builds : \E seen : SidecarStart(b, seen)
    \/ \E c \in Callers : ClientTimeout(c)

ClientMoves ==
    \/ BeatProbe \/ BeatProbed \/ BeatPublish \/ LeaseExpires
    \/ \E i \in Items : ItemStep(i)
    \/ ApiRestart \/ WorkerRestart

(* The steps of the server keep the invariant. *)
LEMMA ServerKeeps ==
    ASSUME SidecarInv, ServerMoves
    PROVE  SidecarInv'
<1> USE DEF SafeServer
<1>0. SourcesTyped /\ SafeServer /\ LinesInv /\ ClientInv /\ StoreInv /\ RepliesInv
  BY Zenon DEF SidecarInv, ClientInv
<1>1. UNCHANGED <<src, api, worker, item, store, drift>>
  BY Zenon DEF ServerMoves, ChildSend, ChildMisreports, ChildExit, ChildFails, HandleConnection,
         ReceiveChildResponse, Finishes, ReapExited, ReapSignalled, ReapFailed, ReceiveTimeout,
         WaitTimeout, Finish, SidecarStop, SidecarStart, ClientTimeout, clients
<1>2. SourcesTyped' /\ StoreInv'
  BY Zenon, <1>0, <1>1, StoreSame DEF SourcesTyped
<1>3. ASSUME SafeServer', LinesInv', RepliesInv'  PROVE SidecarInv'
  BY Zenon, <1>0, <1>1, <1>2, <1>3, ItemsSame DEF SidecarInv, ClientInv
<1> USE <1>0
<1>4. ASSUME UNCHANGED <<conns, cur, reply>>  PROVE LinesInv' /\ RepliesInv'
  BY Zenon, <1>1, <1>4, ExpiryMoves DEF ClientInv
<1>5. CASE ChildSend \/ ChildMisreports \/ ChildExit \/ ChildFails
  <2>1. UNCHANGED <<conns, cur, reply>>
    BY Zenon, <1>5 DEF ChildSend, ChildMisreports, ChildExit, ChildFails
  <2> QED
    BY Zenon, <1>3, <1>4, <1>5, <2>1, ChildMoves
<1>6. CASE HandleConnection
  BY Zenon, <1>3, <1>6, HandleKeeps, LinesOfHandle, RepliesOfHandle DEF RepliesInv
<1>7. CASE ReceiveChildResponse
  <2>1. UNCHANGED <<conns, cur, reply>>
    BY Zenon, <1>7 DEF ReceiveChildResponse
  <2> QED
    BY Zenon, <1>3, <1>4, <1>7, <2>1, ReceiveKeeps
<1>8. CASE Finishes
  BY Zenon, <1>3, <1>8, FinishingKeeps, RepliesOfFinishing
<1>9. CASE SidecarStop
  BY Zenon, <1>3, <1>9, StopKeeps, StopMoves DEF ClientInv
<1>10. ASSUME NEW b \in Builds, NEW seen, SidecarStart(b, seen)  PROVE SidecarInv'
  <2>1. UNCHANGED <<conns, cur, reply>>
    BY Zenon, <1>10 DEF SidecarStart
  <2> QED
    BY Zenon, <1>3, <1>4, <1>10, <2>1, StartKeeps
<1>11. ASSUME NEW c \in Callers, ClientTimeout(c)  PROVE SidecarInv'
  BY SMTT(30), <1>3, <1>11, TimeoutKeeps, GivingUp DEF ClientInv
<1> QED
  BY Zenon, <1>5, <1>6, <1>7, <1>8, <1>9, <1>10, <1>11 DEF ServerMoves

(* The steps of the API and of the worker keep the invariant. *)
LEMMA ClientKeeps ==
    ASSUME SidecarInv, ClientMoves
    PROVE  SidecarInv'
<1>0. SourcesTyped /\ SafeServer /\ LinesInv /\ ClientInv /\ StoreInv /\ ServerTyped
  BY ZenonT(30) DEF SidecarInv, ClientInv, SafeServer
<1>1. UNCHANGED <<src, server, cur, child, got, held>>
  BY ZenonT(30) DEF ClientMoves, BeatProbe, BeatProbed, BeatPublish, LeaseExpires, ItemStep, UploadRejected,
         UploadStaged, UploadKept, UploadPreflight, UploadCommit, Reprocess, Claim, LoadExisting,
         RunParser, ParserReturned, Persist, PersistFails, ApiRestart, WorkerRestart, sidecar
<1>2. SourcesTyped'
  BY Zenon, <1>0, <1>1 DEF SourcesTyped
<1>3. ASSUME conns' \in Seq(Requests), LinesInv', ClientInv', StoreInv'  PROVE SidecarInv'
  <2>1. SafeServer'
    BY Zenon, <1>0, <1>1, <1>3, ClientsKeepServer
  <2> QED
    BY Zenon, <1>2, <1>3, <2>1 DEF SidecarInv, ClientInv, SafeServer
<1>4. ASSUME UNCHANGED <<conns, store>>  PROVE conns' \in Seq(Requests) /\ StoreInv'
  BY Zenon, <1>0, <1>1, <1>4, StoreSame DEF ServerTyped
<1>5. UNCHANGED store => StoreInv'
  BY Zenon, <1>0, <1>1, StoreSame
<1>6. CASE BeatProbe
  BY Zenon, <1>0, <1>3, <1>5, <1>6, ProbeMoves DEF BeatProbe
<1>7. CASE BeatProbed
  BY Zenon, <1>0, <1>3, <1>4, <1>7, ProbedMoves DEF BeatProbed, sidecar
<1>8. CASE BeatPublish
  BY Zenon, <1>0, <1>3, <1>4, <1>8, PublishMoves DEF BeatPublish, sidecar
<1>9. CASE LeaseExpires
  BY Zenon, <1>0, <1>3, <1>4, <1>9, ExpiryMoves DEF LeaseExpires, sidecar
<1>10. CASE ApiRestart
  BY Zenon, <1>0, <1>3, <1>4, <1>10, ApiRestartMoves DEF ApiRestart, sidecar
<1>11. CASE WorkerRestart
  BY SMTT(30), <1>0, <1>3, <1>4, <1>11, WorkerRestartMoves DEF WorkerRestart, sidecar
<1>12. ASSUME NEW i \in Items, ItemStep(i)  PROVE SidecarInv'
  <2>1. CASE UploadPreflight(i)
    BY SMTT(30), <1>0, <1>3, <1>5, <2>1, PreflightMoves DEF UploadPreflight
  <2>2. CASE RunParser(i)
    BY ZenonT(30), <1>0, <1>3, <1>5, <2>2, RunMoves DEF RunParser
  <2>3. CASE Persist(i)
    <3>1. StoreInv'
      BY Zenon, <1>0, <2>3, PersistStores DEF ClientInv
    <3>2. conns' = conns
      BY Zenon, <2>3 DEF Persist, sidecar
    <3> QED
      BY SMTT(30), <1>0, <1>3, <2>3, <3>1, <3>2, UploadMoves DEF ServerTyped
  <2>4. CASE UploadRejected(i) \/ UploadStaged(i) \/ UploadKept(i) \/ LoadExisting(i)
    <3>1. UNCHANGED <<conns, store>>
      BY Zenon, <2>4 DEF UploadRejected, UploadStaged, UploadKept, LoadExisting, sidecar
    <3> QED
      BY Zenon, <1>0, <1>3, <1>4, <2>4, <3>1, UploadMoves
  <2>5. CASE UploadCommit(i)
    BY Zenon, <1>0, <1>3, <1>4, <2>5, CommitMoves DEF UploadCommit, sidecar
  <2>6. CASE Reprocess(i)
    BY Zenon, <1>0, <1>3, <1>4, <2>6, ReprocessMoves DEF Reprocess, sidecar
  <2>7. CASE Claim(i)
    BY Zenon, <1>0, <1>3, <1>4, <2>7, ClaimMoves DEF Claim, sidecar
  <2>8. CASE ParserReturned(i)
    BY Zenon, <1>0, <1>3, <1>4, <2>8, ReturnMoves DEF ParserReturned, sidecar
  <2>9. CASE PersistFails(i)
    BY Zenon, <1>0, <1>3, <1>4, <2>9, FailureMoves DEF PersistFails, sidecar
  <2> QED
    BY ZenonT(30), <1>12, <2>1, <2>2, <2>3, <2>4, <2>5, <2>6, <2>7, <2>8, <2>9 DEF ItemStep
<1> QED
  BY Zenon, <1>6, <1>7, <1>8, <1>9, <1>10, <1>11, <1>12 DEF ClientMoves

LEMMA SidecarStep == SidecarInv /\ [Next]_vars => SidecarInv'
<1> SUFFICES ASSUME SidecarInv, [Next]_vars PROVE SidecarInv'
  BY SMTT(30)
<1>1. CASE UNCHANGED vars
  <2>1. /\ UNCHANGED <<src, server, conns, cur, child, got, held>>
        /\ UNCHANGED <<reply, api, worker, item, store, drift>>
    BY Zenon, <1>1 DEF vars
  <2>2. SourcesTyped' /\ StoreInv' /\ conns' \in Seq(Requests)
    BY Zenon, <2>1, StoreSame DEF SidecarInv, SourcesTyped, ServerTyped
  <2>3. SafeServer'
    BY SMTT(30), <2>1, <2>2, ClientsKeepServer DEF SidecarInv, SafeServer
  <2>4. LinesInv' /\ ClientInv'
    BY Zenon, <2>1, ExpiryMoves DEF SidecarInv, ClientInv
  <2> QED
    BY Zenon, <2>2, <2>3, <2>4 DEF SidecarInv, SafeServer, ClientInv
<1>2. CASE Next
  <2>1. ServerMoves \/ ClientMoves
    BY Zenon, <1>2 DEF Next, ServerStep, ServerMoves, ClientMoves, Finishes
  <2> QED
    BY Zenon, <2>1, ServerKeeps, ClientKeeps
<1> QED
  BY Zenon, <1>1, <1>2

(* The requests in flight, the answers, the uploads and the stored pages
   agree with each other, through timeouts, crashes, upgrades and restarts. *)
THEOREM SidecarInvariant == Spec => []SidecarInv
<1>1. Init => SidecarInv
  BY Zenon, SidecarInit
<1>2. SidecarInv /\ [Next]_vars => SidecarInv'
  BY Zenon, SidecarStep
<1> QED
  BY <1>1, <1>2, PTL DEF Spec

(* No path through handle_connection and _execute_parser_child leaves a
   descriptor or a child behind. *)
THEOREM NothingEverLeaks == Spec => []NothingLeaks
<1>1. SidecarInv => NothingLeaks
  BY Zenon DEF SidecarInv
<1> QED
  BY <1>1, SidecarInvariant, PTL

(* A document of one build meets the registry of another only after the
   heartbeat of worker.py saw that build. *)
THEOREM DriftIsAlwaysSeen == Spec => []DriftWasSeen
<1>1. SidecarInv => DriftWasSeen
  BY Zenon DEF SidecarInv, ClaimsInv, RunAnswered, DriftWasSeen
<1> QED
  BY <1>1, SidecarInvariant, PTL

(* What pipeline.py stores, the preview route serves: the pages are complete
   and of one build, whichever builds parsed the source since. *)
THEOREM PreviewIsAlwaysWhole == Spec => []PreviewIsWhole
<1>1. SidecarInv => PreviewIsWhole
  <2> SUFFICES ASSUME SidecarInv, NEW i \in DOMAIN src
               PROVE  /\ src[i].fmt = "pdf" =>
                           \/ LoadPdfPreview(i) = "ready"
                           \/ /\ LoadPdfPreview(i) \in {"not_found", "unavailable"}
                              /\ store[i].slots = <<>>
                      /\ src[i].fmt = "image" /\ store[i].docs # {} => DOMAIN store[i].slots = {1}
    BY Zenon DEF PreviewIsWhole
  <2> DEFINE doc == Parsed[src[i]]
             count == Len(src[i].pages)
  <2>1. src[i] \in Sources
    BY Zenon DEF SidecarInv, SourcesTyped
  <2>2. src[i].fmt = "image" /\ store[i].docs # {} => DOMAIN store[i].slots = {1}
    BY Zenon DEF SidecarInv, StoreInv
  <2>3. CASE src[i].fmt = "pdf" /\ store[i].manifest = None /\ store[i].slots = <<>>
    BY Zenon, <2>2, <2>3 DEF LoadPdfPreview
  <2>4. ASSUME src[i].fmt = "pdf", doc.err = "none", NEW b \in Builds, PagesBy(i, store[i], b)
        PROVE  \/ LoadPdfPreview(i) = "ready"
               \/ LoadPdfPreview(i) \in {"not_found", "unavailable"} /\ store[i].slots = <<>>
    <3>1. /\ b # None /\ doc.preview \notin Builds \cup {None}
          /\ count \in Nat /\ Limits.pages \in Nat /\ count <= Limits.pages
      <4>1. /\ doc.prov \in Seq(STRING) /\ Len(doc.prov) = count /\ count <= Limits.pages
            /\ doc.preview \notin Builds \cup {None}
        BY Zenon, <2>1, <2>4, AdapterAssumption
      <4>2. Limits.pages \in Nat
        BY Zenon, LimitsAssumption DEF Resources
      <4>3. Len(doc.prov) \in Nat
        BY SMTT(30), <4>1
      <4> QED
        BY SMTT(30), <4>1, <4>2, <4>3, SidecarAssumption
    <3>2. ~(count > Limits.pages)
      BY SMTT(30), <3>1
    <3>3. store[i].slots = [p \in PagesOf(doc) |-> b]
      BY Zenon, <2>4 DEF PagesBy
    <3>4. CASE doc.preview = "ready"
      <4>1. store[i].manifest = b /\ PagesOf(doc) = 1..count
        BY Zenon, <2>1, <2>4, <3>4, PagesOfParse DEF PagesBy, NewManifest
      <4>2. DOMAIN store[i].slots = 1..count /\ \A p \in 1..count : store[i].slots[p] = b
        BY Zenon, <3>3, <4>1
      <4> QED
        BY Zenon, <3>1, <3>2, <4>1, <4>2 DEF LoadPdfPreview
    <3>5. CASE doc.preview # "ready"
      <4>1. store[i].manifest = doc.preview /\ PagesOf(doc) = {}
        BY Zenon, <2>1, <2>4, <3>5, PagesOfParse DEF PagesBy, NewManifest
      <4>2. store[i].slots = <<>>
        BY SMTT(30), <3>3, <4>1
      <4>3. LoadPdfPreview(i) = "unavailable"
        BY Zenon, <3>1, <3>2, <4>1 DEF LoadPdfPreview
      <4> QED
        BY Zenon, <4>2, <4>3
    <3> QED
      BY Zenon, <3>4, <3>5
  <2> QED
    BY Zenon, <2>2, <2>3, <2>4 DEF SidecarInv, StoreInv
<1> QED
  BY <1>1, SidecarInvariant, PTL

(* What the adapters are to do: a parse that succeeds shows the content of
   its source, which is within the limits. *)
AdaptersAreFaithful ==
    \A s \in Sources : Parsed[s].err = "none" => Shows(s, Parsed[s]) /\ Fits(s)

(* The protocol keeps that promise: whatever a defective child sends, what
   the worker is about to store is a faithful parse of the upload. *)
THEOREM ParseIsAlwaysFaithful ==
    ASSUME AdaptersAreFaithful
    PROVE  Spec => []ParseIsFaithful
<1>1. SidecarInv => ParseIsFaithful
  <2> SUFFICES ASSUME SidecarInv, NEW i \in Items, item[i].phase = "parsed"
               PROVE  LET doc == item[i].doc
                      IN  /\ Shows(src[i], doc) /\ Fits(src[i])
                          /\ src[i].fmt = "pdf" => doc.preview = "ready" \/ doc.arts = <<>>
                          /\ doc.arts # <<>> => PagesOf(doc) = DOMAIN doc.prov
    BY Zenon DEF ParseIsFaithful
  <2>1. item[i].doc = Parsed[src[i]] /\ Parsed[src[i]].err = "none"
    BY Zenon DEF SidecarInv, ClaimsInv, RunAnswered
  <2>2. src[i] \in Sources
    BY Zenon DEF SidecarInv, ItemsTyped, ItemTyped, SourcesTyped
  <2>3. Shows(src[i], Parsed[src[i]]) /\ Fits(src[i])
    BY Zenon, <2>1, <2>2 DEF AdaptersAreFaithful
  <2>4. /\ src[i].fmt = "pdf" => Parsed[src[i]].preview = "ready" \/ Parsed[src[i]].arts = <<>>
        /\ Parsed[src[i]].arts # <<>> => PagesOf(Parsed[src[i]]) = DOMAIN Parsed[src[i]].prov
    BY Zenon, <2>1, <2>2, PagesOfParse
  <2> QED
    BY Zenon, <2>1, <2>3, <2>4
<1> QED
  BY <1>1, SidecarInvariant, PTL

-----------------------------------------------------------------------------
(* Admission by content. *)

(* Of the signatures only that of a GZip, whose name tells its two formats
   apart, stands for something that depends on the name of the file. *)
LEMMA SignatureIgnoresName ==
    ASSUME NEW f, NEW g, g.magic = f.magic, g.marks = f.marks, g.package = f.package
    PROVE  \/ InspectSignature(g) = InspectSignature(f)
           \/ GzipByName(f, InspectSignature(f), InspectSignature(g))
<1>1. DetectOoxmlType(g) = DetectOoxmlType(f)
  BY SMT DEF DetectOoxmlType
<1>2. DetectZipPackageType(g) = DetectZipPackageType(f)
  BY Zenon, <1>1 DEF DetectZipPackageType
<1>3. InspectZipFile(g) = InspectZipFile(f)
  BY Zenon, <1>2 DEF InspectZipFile
<1>4. InspectPdfFile(g) = InspectPdfFile(f)
  BY Zenon DEF InspectPdfFile
<1>5. CASE f.magic # "gzip"
  <2>1. InspectSignature(g) = InspectSignature(f)
    BY SMTT(30), <1>3, <1>4, <1>5 DEF InspectSignature
  <2> QED
    BY Zenon, <2>1
<1>6. CASE f.magic = "gzip"
  <2>1. /\ InspectSignature(f) = Detected("container", GzipFormat(f))
        /\ InspectSignature(g) = Detected("container", GzipFormat(g))
    BY Zenon, <1>6 DEF InspectSignature
  <2>2. GzipFormat(f) \in {"gz", "tgz"} /\ GzipFormat(g) \in {"gz", "tgz"}
    BY Zenon DEF GzipFormat
  <2>3. CASE GzipFormat(g) = GzipFormat(f)
    BY Zenon, <2>1, <2>3
  <2>4. CASE GzipFormat(g) # GzipFormat(f)
    BY SMTT(30), <1>6, <2>1, <2>2, <2>4 DEF GzipByName, Detected
  <2> QED
    BY Zenon, <2>3, <2>4
<1> QED
  BY Zenon, <1>5, <1>6

(* The families of the signatures that the policy refuses. *)
LEMMA SignatureFamilies ==
    ASSUME NEW f \in Evidence
    PROVE  /\ f.magic \in {"empty", "executable", "audio", "video", "pk"} =>
                InspectSignature(f).family \in FamilyRejections
           /\ f.magic \in {"pdf", "zip"} /\ f.marks \cap {"encrypted", "active"} # {} =>
                InspectSignature(f).family \in FamilyRejections
<1> USE DEF FamilyRejections, Detected
<1>1. CASE f.magic \in {"empty", "executable", "audio", "video", "pk"}
  BY Zenon, <1>1 DEF InspectSignature
<1>2. CASE f.magic = "pdf"
  BY Zenon, <1>2 DEF InspectSignature, InspectPdfFile
<1>3. CASE f.magic = "zip"
  <2>1. InspectSignature(f) = InspectZipFile(f)
    BY Zenon, <1>3 DEF InspectSignature
  <2> QED
    BY SMTT(30), <1>3, <2>1 DEF InspectZipFile
<1> QED
  BY Zenon, <1>1, <1>2, <1>3

(* A source that the policy of ingest/policy.py admits was admitted for its
   bytes, the name telling apart only inert texts and the two formats of a
   GZip, and a job is bound to a registry that can serve it. *)
THEOREM AlwaysAdmittedByContent == Spec => []AdmittedByContent
<1>1. SidecarInv => AdmittedByContent
  <2> SUFFICES ASSUME SidecarInv, NEW i \in Items,
                      item[i].phase \notin {"absent", "new", "refused"}
               PROVE  LET f == src[i].file
                          d == InspectFile(f)
                      IN  /\ f.magic \notin {"empty", "executable"}
                          /\ f.magic = "pdf" \/ (f.magic = "zip" /\ f.text = "none") =>
                               f.marks \cap {"encrypted", "active"} = {}
                          /\ f.text = "none" \/ f.magic \in {"pdf", "image", "rtf", "tar", "gzip"} =>
                               /\ f.magic \notin {"audio", "video", "pk"}
                               /\ \A x \in TextFormats \cup {"csv", "tgz"} :
                                    LET e == InspectFile([f EXCEPT !.suffix = x])
                                    IN  e = d \/ GzipByName(f, d, e)
                          /\ item[i].reg # None =>
                               \/ d.format \in Enabled[item[i].reg]
                               \/ src[i].intent = "generic" /\ IsTabularFormat(d)
    BY Zenon DEF AdmittedByContent
  <2> DEFINE f == src[i].file
             d == InspectFile(f)
  <2>1. src[i] \in Sources /\ Admitted(i, item[i])
    BY Zenon DEF SidecarInv, ItemsTyped, ItemTyped, SourcesTyped, AdmissionInv
  <2>2. f \in Evidence
    BY Zenon, <2>1, SidecarAssumption
  <2>3. /\ d.family \notin FamilyRejections
        /\ item[i].reg # None =>
             \/ d.format \in Enabled[item[i].reg]
             \/ src[i].intent = "generic" /\ IsTabularFormat(d)
    BY Zenon, <2>1 DEF Admitted, Format
  <2> HIDE DEF f
  <2>4. f.magic \in Leading \/ (f.text = "none" /\ f.magic # "none") => d = InspectSignature(f)
    BY Zenon DEF InspectFile, DelimitedTextEvidence
  <2>5. /\ f.magic \notin {"empty", "executable"}
        /\ f.magic = "pdf" \/ (f.magic = "zip" /\ f.text = "none") =>
             f.marks \cap {"encrypted", "active"} = {}
        /\ f.text = "none" => f.magic \notin {"audio", "video", "pk"}
    BY SMTT(30), <2>2, <2>3, <2>4, SignatureFamilies DEF Leading
  <2>6. ASSUME f.text = "none" \/ f.magic \in {"pdf", "image", "rtf", "tar", "gzip"},
               NEW x \in TextFormats \cup {"csv", "tgz"}
        PROVE  LET e == InspectFile([f EXCEPT !.suffix = x])
               IN  e = d \/ GzipByName(f, d, e)
    <3> DEFINE g == [f EXCEPT !.suffix = x]
    <3>1. g.magic = f.magic /\ g.marks = f.marks /\ g.package = f.package /\ g.text = f.text
      BY Zenon, <2>2 DEF Evidence
    <3> HIDE DEF g
    <3>2. \/ InspectSignature(g) = InspectSignature(f)
          \/ GzipByName(f, InspectSignature(f), InspectSignature(g))
      BY Zenon, <3>1, SignatureIgnoresName
    <3>3. CASE f.magic \in Leading \/ f.magic # "none"
      <4>1. f.magic \in Leading \/ (f.text = "none" /\ f.magic # "none")
        BY Zenon, <2>6, <3>3 DEF Leading
      <4>2. InspectFile(g) = InspectSignature(g)
        BY Zenon, <3>1, <4>1 DEF InspectFile, DelimitedTextEvidence
      <4> QED
        BY Zenon, <2>4, <3>2, <4>1, <4>2 DEF g
    <3>4. CASE f.magic = "none"
      <4>1. f.text = "none"
        BY Zenon, <2>6, <3>4
      <4>2. InspectFile(g) = InspectTextFile(g) /\ d = InspectTextFile(f)
        BY Zenon, <3>1, <3>4, <4>1 DEF InspectFile, DelimitedTextEvidence, Leading
      <4> QED
        BY Zenon, <3>1, <4>1, <4>2 DEF InspectTextFile, g
    <3> QED
      BY Zenon, <3>3, <3>4 DEF g
  <2> HIDE DEF d
  <2>7. f.magic \in {"pdf", "image", "rtf", "tar", "gzip"} => f.magic \notin {"audio", "video", "pk"}
    BY SMTT(30)
  <2> QED
    BY Zenon, <2>3, <2>5, <2>6, <2>7 DEF f, d
<1> QED
  BY <1>1, SidecarInvariant, PTL
=============================================================================
