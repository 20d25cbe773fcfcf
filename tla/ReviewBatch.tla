---------------------------- MODULE ReviewBatch ----------------------------
(***************************************************************************)
(* Review of the universal profile: documents whose current source is      *)
(* extracted into candidate batches, reviewers who stage decisions and     *)
(* activate or reject a batch from what their screen shows, the job that   *)
(* stages search chunks, and the recurring bills that an activation        *)
(* creates and replaces.                                                   *)
(*                                                                         *)
(* Every request is one transaction and one step, since activate,          *)
(* apply_decisions and reject_batch lock the batch row before they read    *)
(* anything else.  Two things are not atomic: the activation preview,      *)
(* which reads without locks, and the index job, which loads its target,   *)
(* waits for embeddings and writes afterwards.                             *)
(***************************************************************************)
EXTENDS Naturals, FiniteSets

CONSTANTS
    Docs,        \* documents
    Batches,     \* 1..n, extraction_batches rows in order of creation
    Cands,       \* 1..m, extracted_records rows in order of creation
    DocOf,       \* [Batches -> Docs]
    BatchOf,     \* [Cands -> Batches]
    Financial,   \* SUBSET Cands, record_kind = financial; the others are generic
    Keys,        \* (issuer, billing period) pairs
    NoBill,      \* included without a recurring-bill projection
    Reviewers,   \* browser sessions of reviewers
    Indexers,    \* worker slots that run index_candidate_batch
    Nothing,     \* no screen, no index target, no prior batch
    MaxSources,  \* bound: originals per document
    Displayed,   \* bound: the batches that reviewers open on a screen
    MaxEvents,   \* bound: replaced sources, reprocess requests and dead jobs
    MaxJobs,     \* bound: live process_document jobs per document
    MaxVersion   \* bound: batch version up to which decisions are staged

ASSUME ReviewAssumption ==
    /\ Batches \subseteq Nat /\ Cands \subseteq Nat
    /\ DocOf \in [Batches -> Docs]
    /\ BatchOf \in [Cands -> Batches]
    /\ Financial \subseteq Cands
    /\ Keys \cap {NoBill, "pending", "exclude"} = {}
    /\ NoBill \notin {"pending", "exclude"}
    /\ Nothing \notin Batches
    /\ Displayed \subseteq Batches
    /\ MaxSources \in Nat \ {0} /\ MaxJobs \in Nat \ {0}
    /\ MaxVersion \in Nat /\ MaxEvents \in Nat

VARIABLES
    doc,      \* [Docs -> [src, status, intake, queued, claimed]]: the current source,
              \* its intake and the numbers of its live process_document jobs
    batch,    \* [Batches -> [life, ver, src]]
    status,   \* [Cands -> Statuses], extracted_records.status
    choice,   \* [Cands -> DecisionValues], the latest decision
    rev,      \* [Cands -> Nat], its decision_revision
    chunked,  \* SUBSET Cands, candidates with staged search chunks
    bill,     \* [Cands -> {"none", "unpaid", "paid"}], the candidate's bill row
    inForce,  \* SUBSET Cands, bills with superseded_at IS NULL
    screen,   \* [Reviewers -> a batch as it was displayed]
    events,   \* 0..MaxEvents, how many of these may still happen
    target    \* [Indexers -> the batch whose embeddings are being computed]

review  == <<batch, status, choice, rev>>
bills   == <<bill, inForce>>
clients == <<screen, target>>
vars    == <<doc, review, chunked, bills, clients, events>>

Sources == 1..MaxSources
DecisionValues == {"pending", "exclude", NoBill} \cup Keys
Statuses == {"absent", "pending", "approved", "rejected", "superseded"}
Lives == {"absent", "open", "ready", "active", "superseded", "rejected"}

Documents ==
    [src : Sources,
     status : {"uploaded", "in_review", "verified", "needs_reprocess", "failed"},
     intake : {"queued", "processing", "processed", "failed"},
     queued : 0..MaxJobs, claimed : 0..MaxJobs]
BatchRows == [life : Lives, ver : Nat, src : Sources]

(* Type invariant: every row has values its columns allow. *)
TypeOK ==
    /\ doc \in [Docs -> Documents]
    /\ batch \in [Batches -> BatchRows]
    /\ status \in [Cands -> Statuses]
    /\ choice \in [Cands -> DecisionValues]
    /\ rev \in [Cands -> Nat]
    /\ chunked \subseteq Cands
    /\ bill \in [Cands -> {"none", "unpaid", "paid"}]
    /\ inForce \subseteq Cands
    /\ \A r \in Reviewers : screen[r] # Nothing => screen[r].batch \in Batches
    /\ events \in 0..MaxEvents
    /\ target \in [Indexers -> Batches \cup {Nothing}]

(* upload_document has committed for every document. *)
Init ==
    /\ doc = [d \in Docs |-> [src |-> 1, status |-> "uploaded", intake |-> "queued",
                              queued |-> 1, claimed |-> 0]]
    /\ batch = [b \in Batches |-> [life |-> "absent", ver |-> 1, src |-> 1]]
    /\ status = [c \in Cands |-> "absent"]
    /\ choice = [c \in Cands |-> "pending"]
    /\ rev = [c \in Cands |-> 0]
    /\ chunked = {}
    /\ bill = [c \in Cands |-> "none"]
    /\ inForce = {}
    /\ screen = [r \in Reviewers |-> Nothing]
    /\ events = MaxEvents
    /\ target = [i \in Indexers |-> Nothing]

-----------------------------------------------------------------------------
CandsOf(b) == {c \in Cands : BatchOf[c] = b}
BatchesOf(d) == {b \in Batches : DocOf[b] = d}
CandDoc(c) == DocOf[BatchOf[c]]
Mutable(b) == batch[b].life \in {"open", "ready"}
Included(c) == choice[c] \in Keys \cup {NoBill}
IsBill(c) == choice[c] \in Keys
OnCurrentSource(b) == batch[b].src = doc[DocOf[b]].src

(* source_is_current of the activation preview. *)
SourceIsCurrent(b) == OnCurrentSource(b) /\ doc[DocOf[b]].intake = "processed"

(* prior_active: the other active batch of the document. *)
PriorActive(b) ==
    LET P == {p \in BatchesOf(DocOf[b]) \ {b} : batch[p].life = "active"}
    IN IF P = {} THEN Nothing ELSE CHOOSE p \in P : TRUE

(* prior_approved of that batch. *)
ApprovedIn(p) ==
    IF p = Nothing THEN {} ELSE {c \in CandsOf(p) : status[c] = "approved"}

(* owner_by_key: the bill in force for an issuer and period. *)
Owners(k) == {o \in inForce : choice[o] = k}

(* recurring_prior of a candidate: the bill it takes over from prior_approved. *)
PriorBills(c, approved) == IF IsBill(c) THEN Owners(choice[c]) \cap approved ELSE {}

-----------------------------------------------------------------------------
Spend == events > 0 /\ events' = events - 1

(* Processing, as far as review depends on it; DocumentLifecycle has the jobs
   in detail.  A worker claims a job and commits the processing state of its
   source.  An intake that is neither queued nor processing makes the attempt
   fail, so that job can only die. *)
ClaimJob(d) ==
    /\ doc[d].queued > 0
    /\ doc[d].intake \in {"queued", "processing"}
    /\ doc' = [doc EXCEPT ![d].queued = @ - 1, ![d].claimed = @ + 1, ![d].intake = "processing"]
    /\ UNCHANGED <<review, chunked, bills, clients, events>>

(* The last attempt of a job of the current source fails, one that was queued
   or one that is claimed: _mark_terminal_processing_failure fails the
   document, and the intake where that edge exists. *)
JobDies(d, queued, claimed) ==
    /\ doc[d].queued >= queued /\ doc[d].claimed >= claimed
    /\ doc' = [doc EXCEPT ![d].queued = @ - queued, ![d].claimed = @ - claimed,
                          ![d].status = "failed",
                          ![d].intake = IF @ = "processed" THEN @ ELSE "failed"]
    /\ Spend
    /\ UNCHANGED <<review, chunked, bills, clients>>

(* process_document of the universal profile in one transaction: the intake is
   moved through processing, add_candidate_batch inserts the batch with its
   pending candidates and the document goes to review. *)
AddBatch(d) ==
    LET new == {b \in BatchesOf(d) : batch[b].life = "absent"} IN
    /\ doc[d].claimed > 0
    /\ \E b \in new :
        /\ \A e \in new : b <= e
        /\ batch' = [batch EXCEPT ![b] = [life |-> "open", ver |-> 1, src |-> doc[d].src]]
        /\ status' = [c \in Cands |-> IF c \in CandsOf(b) THEN "pending" ELSE status[c]]
    /\ doc' = [doc EXCEPT ![d].claimed = @ - 1, ![d].status = "in_review",
                          ![d].intake = "processed"]
    /\ UNCHANGED <<choice, rev, chunked, bills, clients, events>>

(* The document after append_raw_source and the enqueue of its route; jobs of
   the replaced source end as skipped. *)
NewSource(d) ==
    [src |-> doc[d].src + 1, status |-> "needs_reprocess", intake |-> "queued",
     queued |-> 1, claimed |-> 0]

(* Wrong variant: the pending candidates of the old source are left alone. *)
ReplaceSourceOnly(d) ==
    /\ doc[d].src < MaxSources
    /\ doc' = [doc EXCEPT ![d] = NewSource(d)]
    /\ chunked' = {c \in chunked : CandDoc(c) # d}
    /\ Spend
    /\ UNCHANGED <<batch, status, choice, rev, bills, clients>>

(* append_raw_source: pending candidates are superseded and the chunks of the
   document deleted; batches keep their lifecycle, and reviewed candidates and
   bills stay. *)
ReplaceSource(d) ==
    /\ doc[d].src < MaxSources
    /\ doc' = [doc EXCEPT ![d] = NewSource(d)]
    /\ status' = [c \in Cands |-> IF CandDoc(c) = d /\ status[c] = "pending"
                                  THEN "superseded" ELSE status[c]]
    /\ chunked' = {c \in chunked : CandDoc(c) # d}
    /\ Spend
    /\ UNCHANGED <<batch, choice, rev, bills, clients>>

(* prepare_reprocess and the enqueue of its route.  Where the key is that of a
   reviewed candidate of the current source the job may exist already, where
   it is that of a live job it does, and the key of a dead job is new. *)
Reprocess(d) ==
    LET reviewed(S) == \E c \in Cands : /\ CandDoc(c) = d
                                        /\ status[c] \in S
                                        /\ OnCurrentSource(BatchOf[c])
        live == doc[d].queued + doc[d].claimed
    IN
    /\ \E new \in {0, 1} :
        /\ \/ doc[d].status = "verified" /\ reviewed({"approved"})
           \/ doc[d].status = "needs_reprocess" /\ reviewed({"approved", "rejected"})
           \/ /\ \/ doc[d].status = "failed"
                 \/ doc[d].status = "needs_reprocess" /\ ~reviewed({"approved", "rejected"})
              /\ new = 1 <=> live = 0
        /\ live + new <= MaxJobs
        /\ doc' = [doc EXCEPT ![d].status = "needs_reprocess", ![d].intake = "queued",
                              ![d].queued = @ + new]
    /\ Spend
    /\ UNCHANGED <<review, chunked, bills, clients>>

-----------------------------------------------------------------------------
(* index_candidate_batch up to the embedding call; a job that has written its
   chunks is completed and returns at once. *)
LoadIndexTarget(i, b) ==
    /\ target[i] = Nothing
    /\ ~(CandsOf(b) \subseteq chunked)
    /\ Mutable(b)
    /\ OnCurrentSource(b)
    /\ target' = [target EXCEPT ![i] = b]
    /\ UNCHANGED <<doc, review, chunked, bills, screen, events>>

(* Wrong variant: the chunks are written without asking for the source. *)
ReplaceChunksUnchecked(i) ==
    /\ target[i] # Nothing
    /\ chunked' = chunked \cup CandsOf(target[i])
    /\ target' = [target EXCEPT ![i] = Nothing]
    /\ UNCHANGED <<doc, review, bills, screen, events>>

(* _replace_candidate_chunks: nothing is written for a replaced source.  The
   batch row is locked but not reloaded, so its lifecycle is the one read
   before the embedding call, which was mutable. *)
ReplaceChunks(i) ==
    /\ target[i] # Nothing
    /\ chunked' = IF OnCurrentSource(target[i]) THEN chunked \cup CandsOf(target[i]) ELSE chunked
    /\ target' = [target EXCEPT ![i] = Nothing]
    /\ UNCHANGED <<doc, review, bills, screen, events>>

-----------------------------------------------------------------------------
(* What the activation vector hashes: the batch and the prior authority, then
   the candidates with their decisions, chunks and the bills they take over. *)
BatchPart(b) == [ver |-> batch[b].ver, prior |-> PriorActive(b)]

CandidatePart(b, prior) ==
    [approved |-> ApprovedIn(prior),
     cands |-> [c \in CandsOf(b) |->
                  [status |-> status[c], rev |-> rev[c], choice |-> choice[c],
                   indexed |-> c \in chunked,
                   replaces |-> {<<o, bill[o]>> : o \in PriorBills(c, ApprovedIn(prior))}]]]

(* activation_preview reads without locks: first the batch and its prior,
   later the rows below them.  A batch that is not mutable any more gives a
   preview that no request accepts, so it is not looked at. *)
LookAtBatch(r, b) ==
    /\ b \in Displayed
    /\ Mutable(b)
    /\ screen' = [screen EXCEPT ![r] = [batch |-> b, head |-> BatchPart(b), rest |-> Nothing]]
    /\ UNCHANGED <<doc, review, chunked, bills, target, events>>

LookAtCandidates(r) ==
    /\ screen[r] # Nothing
    /\ screen[r].rest = Nothing
    /\ screen' = [screen EXCEPT ![r].rest = CandidatePart(screen[r].batch, screen[r].head.prior)]
    /\ UNCHANGED <<doc, review, chunked, bills, target, events>>

Shows(r, b) ==
    /\ screen[r] # Nothing
    /\ screen[r].batch = b
    /\ screen[r].rest # Nothing

(* After a request that succeeded the page is loaded again. *)
Refresh(r) == screen' = [screen EXCEPT ![r] = Nothing]

(* The decisions a reviewer may send for a candidate. *)
Decisions(c) == {"exclude", NoBill} \cup (IF c \in Financial THEN Keys ELSE {})

(* Wrong variant: a decision that completes the batch keeps its version. *)
StageUnversioned(b, picks) ==
    LET decided == {c \in CandsOf(b) : rev[c] > 0} \cup DOMAIN picks IN
    /\ choice' = [c \in Cands |-> IF c \in DOMAIN picks THEN picks[c] ELSE choice[c]]
    /\ rev' = [c \in Cands |-> IF c \in DOMAIN picks THEN rev[c] + 1 ELSE rev[c]]
    /\ batch' = [batch EXCEPT ![b].life = IF decided = CandsOf(b) THEN "ready" ELSE "open"]

(* The rows that apply_decisions writes for the picked candidates. *)
Stage(b, picks) ==
    LET decided == {c \in CandsOf(b) : rev[c] > 0} \cup DOMAIN picks IN
    /\ choice' = [c \in Cands |-> IF c \in DOMAIN picks THEN picks[c] ELSE choice[c]]
    /\ rev' = [c \in Cands |-> IF c \in DOMAIN picks THEN rev[c] + 1 ELSE rev[c]]
    /\ batch' = [batch EXCEPT ![b].ver = @ + 1,
                              ![b].life = IF decided = CandsOf(b) THEN "ready" ELSE "open"]

(* apply_decisions: the batch version, the candidates' pending status and their
   decision revisions must be the ones displayed. *)
Decide(r, b) ==
    /\ Shows(r, b)
    /\ Mutable(b)
    /\ screen[r].head.ver = batch[b].ver
    /\ batch[b].ver < MaxVersion
    /\ \E D \in (SUBSET CandsOf(b)) \ {{}} :
        /\ \A c \in D : status[c] = "pending" /\ screen[r].rest.cands[c].rev = rev[c]
        /\ \E picks \in [D -> UNION {Decisions(c) : c \in D}] :
            /\ \A c \in D : picks[c] \in Decisions(c)
            /\ Stage(b, picks)
    /\ Refresh(r)
    /\ UNCHANGED <<doc, status, chunked, bills, target, events>>

(* No error of the activation preview, for the decisions ch: every candidate
   is pending and decided, what is included has chunks, and no bill belongs to
   a second candidate or to a source outside the prior authority. *)
SafeToActivate(b, ch) ==
    LET billed == {c \in CandsOf(b) : ch[c] \in Keys} IN
    /\ SourceIsCurrent(b)
    /\ \A c \in CandsOf(b) : status[c] = "pending" /\ ch[c] # "pending"
    /\ \A c \in CandsOf(b) : ch[c] # "exclude" => c \in chunked
    /\ \A c, e \in billed : ch[c] = ch[e] => c = e
    /\ \A c \in billed : Owners(ch[c]) \subseteq ApprovedIn(PriorActive(b))

(* The lifecycle rows an activation writes: candidates, document and batches. *)
SwitchStatus(b, ch, ver, retired) ==
    /\ status' = [c \in Cands |->
                    IF c \in retired THEN "superseded"
                    ELSE IF c \notin CandsOf(b) THEN status[c]
                    ELSE IF ch[c] = "exclude" THEN "superseded" ELSE "approved"]
    /\ doc' = [doc EXCEPT ![DocOf[b]].status = "verified"]
    /\ batch' = [e \in Batches |->
                   IF e = b THEN [batch[e] EXCEPT !.life = "active", !.ver = ver + 1]
                   ELSE IF e = PriorActive(b)
                   THEN [batch[e] EXCEPT !.life = "superseded", !.ver = @ + 1]
                   ELSE batch[e]]

(* Its bills, each with the payment of the bill it takes over. *)
SwitchBills(b, ch, retired) ==
    LET billed == {c \in CandsOf(b) : ch[c] \in Keys}
        paid(c) == \E o \in Owners(ch[c]) : bill[o] = "paid"
    IN
    /\ inForce' = (inForce \ retired) \cup billed
    /\ bill' = [c \in Cands |->
                  IF c \in billed THEN IF paid(c) THEN "paid" ELSE "unpaid" ELSE bill[c]]

(* Wrong variant: the prior candidates keep their approval. *)
SwitchKeepingPrior(b, ch, ver) ==
    /\ SwitchStatus(b, ch, ver, {})
    /\ SwitchBills(b, ch, ApprovedIn(PriorActive(b)))

(* Wrong variant: the prior bills stay in force. *)
SwitchKeepingBills(b, ch, ver) ==
    /\ SwitchStatus(b, ch, ver, ApprovedIn(PriorActive(b)))
    /\ SwitchBills(b, ch, {})

(* Wrong variant: the new bills start unpaid. *)
SwitchUnpaid(b, ch, ver) ==
    LET retired == ApprovedIn(PriorActive(b))
        billed == {c \in CandsOf(b) : ch[c] \in Keys}
    IN
    /\ SwitchStatus(b, ch, ver, retired)
    /\ inForce' = (inForce \ retired) \cup billed
    /\ bill' = [c \in Cands |-> IF c \in billed THEN "unpaid" ELSE bill[c]]

(* activate: the prior authority and its bills are superseded, the included
   candidates approved, the batch (at version ver until then) becomes active,
   the document verified, and record_verified_bill creates the bills with the
   payment they take over. *)
Switch(b, ch, ver) ==
    /\ SwitchStatus(b, ch, ver, ApprovedIn(PriorActive(b)))
    /\ SwitchBills(b, ch, ApprovedIn(PriorActive(b)))

(* Wrong variant: only the batch version is compared with the screen. *)
ActivateByVersion(r, b) ==
    /\ Shows(r, b)
    /\ Mutable(b)
    /\ screen[r].head.ver = batch[b].ver
    /\ SafeToActivate(b, choice)
    /\ Switch(b, choice, batch[b].ver)
    /\ Refresh(r)
    /\ UNCHANGED <<choice, rev, chunked, target, events>>

(* activate from a screen: the batch version and the whole vector must be the
   ones displayed.  The consents that exclusions ask for are the reviewer's to
   give and are always given. *)
Activate(r, b) ==
    /\ Shows(r, b)
    /\ Mutable(b)
    /\ screen[r].head = BatchPart(b)
    /\ screen[r].rest = CandidatePart(b, PriorActive(b))
    /\ SafeToActivate(b, choice)
    /\ Switch(b, choice, batch[b].ver)
    /\ Refresh(r)
    /\ UNCHANGED <<choice, rev, chunked, target, events>>

(* _approve_singleton_batch: a batch with one financial candidate is decided,
   previewed and activated in one transaction; only the candidate's version
   has to be the displayed one. *)
ApproveSingleton(b) ==
    /\ Cardinality(CandsOf(b)) = 1
    /\ CandsOf(b) \subseteq Financial
    /\ Mutable(b)
    /\ \E pick \in Keys \cup {NoBill} :
        LET ch == [c \in Cands |-> IF c \in CandsOf(b) THEN pick ELSE choice[c]] IN
        /\ SafeToActivate(b, ch)
        /\ choice' = ch
        /\ rev' = [c \in Cands |-> IF c \in CandsOf(b) THEN rev[c] + 1 ELSE rev[c]]
        /\ Switch(b, ch, batch[b].ver + 1)
    /\ UNCHANGED <<chunked, clients, events>>

(* reject_batch: the pending candidates are rejected, and an older authority
   keeps the document verified; more jobs are queued for the source. *)
Rejected(b, more) ==
    /\ Mutable(b)
    /\ SourceIsCurrent(b)
    /\ \A c \in CandsOf(b) : status[c] = "pending"
    /\ status' = [c \in Cands |-> IF c \in CandsOf(b) THEN "rejected" ELSE status[c]]
    /\ batch' = [batch EXCEPT ![b].life = "rejected", ![b].ver = @ + 1]
    /\ doc' = [doc EXCEPT ![DocOf[b]].queued = @ + more,
                          ![DocOf[b]].intake = IF more > 0 THEN "queued" ELSE @,
                          ![DocOf[b]].status = IF PriorActive(b) = Nothing
                                               THEN "needs_reprocess" ELSE "verified"]

(* The legacy reject of a batch with one financial candidate. *)
RejectSingleton(b) ==
    /\ Cardinality(CandsOf(b)) = 1
    /\ CandsOf(b) \subseteq Financial
    /\ Rejected(b, 0)
    /\ UNCHANGED <<choice, rev, chunked, bills, clients, events>>

(* lock_reprocess_intake, before the route asks for the capabilities. *)
LockReprocessIntake(r, b) ==
    /\ Shows(r, b)
    /\ screen[r].head.ver = batch[b].ver
    /\ Mutable(b)
    /\ SourceIsCurrent(b)

(* reject_batch_and_reprocess: the rejection, the requeued intake and the job
   in one transaction. *)
RejectAndReprocess(r, b) ==
    /\ LockReprocessIntake(r, b)
    /\ doc[DocOf[b]].queued + doc[DocOf[b]].claimed < MaxJobs
    /\ Rejected(b, 1)
    /\ Refresh(r)
    /\ UNCHANGED <<choice, rev, chunked, bills, target, events>>

(* mark_paid on a bill in force of an active authority. *)
MarkPaid(c) ==
    /\ c \in inForce
    /\ status[c] = "approved"
    /\ batch[BatchOf[c]].life = "active"
    /\ bill[c] = "unpaid"
    /\ bill' = [bill EXCEPT ![c] = "paid"]
    /\ UNCHANGED <<doc, review, chunked, inForce, clients, events>>

-----------------------------------------------------------------------------
Next ==
    \/ \E d \in Docs : \/ ClaimJob(d) \/ JobDies(d, 1, 0) \/ JobDies(d, 0, 1)
                      \/ AddBatch(d) \/ ReplaceSource(d) \/ Reprocess(d)
    \/ \E i \in Indexers : ReplaceChunks(i) \/ \E b \in Batches : LoadIndexTarget(i, b)
    \/ \E r \in Reviewers :
        \/ LookAtCandidates(r)
        \/ \E b \in Batches : LookAtBatch(r, b) \/ Decide(r, b) \/ Activate(r, b)
                               \/ RejectAndReprocess(r, b)
    \/ \E b \in Batches : ApproveSingleton(b) \/ RejectSingleton(b)
    \/ \E c \in Cands : MarkPaid(c)

Spec == Init /\ [][Next]_vars

-----------------------------------------------------------------------------
(* The authority of a document is one cohort: at most one of its batches is
   active, and the approved candidates are exactly those the active batch
   includes, whatever was activated, rejected or replaced before.  A verified
   document has such a batch to show for it. *)
AuthorityIsActiveCohort ==
    /\ \A b, e \in Batches :
        DocOf[b] = DocOf[e] /\ batch[b].life = "active" /\ batch[e].life = "active" => b = e
    /\ \A c \in Cands :
        status[c] = "approved" <=> batch[BatchOf[c]].life = "active" /\ Included(c)
    /\ \A d \in Docs :
        doc[d].status = "verified" => \E b \in BatchesOf(d) : batch[b].life = "active"

(* The bills in force are those of the approved bill candidates, one for each
   issuer and period over all documents. *)
BillsFollowAuthority ==
    /\ inForce = {c \in Cands : status[c] = "approved" /\ IsBill(c)}
    /\ \A k \in Keys : Cardinality(Owners(k)) <= 1

(* A payment outlives the extraction it was recorded on: while an issuer and
   period has a bill in force, a paid one never turns unpaid. *)
PaymentSurvives ==
    [][\A k \in Keys : (\E o \in Owners(k) : bill[o] = "paid")
                         => \A n \in Owners(k)' : bill'[n] = "paid"]_vars

(* An activated cohort is the one a reviewer was shown, although the preview
   reads without locks and decisions, payments, chunks and other batches move
   meanwhile: the candidates it approves, the bills it creates with their
   payment and the authority it retires are those of the preview.  The legacy
   approval shows no preview; it serves batches with one candidate only. *)
ActivationIsWhatWasShown ==
    [][\A b \in Batches :
        (Cardinality(CandsOf(b)) > 1 /\ Mutable(b) /\ batch'[b].life = "active") =>
            \E r \in Reviewers :
                /\ Shows(r, b)
                /\ {c \in Cands : status[c] = "approved" /\ status'[c] = "superseded"}
                      = screen[r].rest.approved
                /\ \A c \in CandsOf(b) :
                    LET seen == screen[r].rest.cands[c] IN
                    /\ status'[c] = "approved" <=> seen.choice \in Keys \cup {NoBill}
                    /\ bill'[c] = IF seen.choice \notin Keys THEN "none"
                                  ELSE IF \E o \in Cands : <<o, "paid">> \in seen.replaces
                                  THEN "paid" ELSE "unpaid"]_vars

(* Search never returns text of a replaced source, although embeddings are
   computed outside any lock, and every approved candidate of the current
   source can be found. *)
ChunksFollowSource ==
    \A c \in Cands :
        /\ c \in chunked => OnCurrentSource(BatchOf[c])
        /\ status[c] = "approved" /\ OnCurrentSource(BatchOf[c]) => c \in chunked

(* Once its source is replaced a batch takes no decision and no rejection and
   is never activated; an active one may only be superseded. *)
StaleBatchesAreInert ==
    [][\A b \in Batches : batch[b].life # "absent" /\ ~OnCurrentSource(b) =>
        \/ batch'[b] = batch[b]
        \/ batch[b].life = "active" /\ batch'[b].life = "superseded"]_vars

(* What the triggers of extraction_batches, candidate_review_decisions and
   verified_records let through. *)
LifecycleEdges ==
    ({"open", "ready"} \X {"active", "superseded", "rejected"})
        \cup {<<"open", "ready">>, <<"ready", "open">>, <<"active", "superseded">>}

BatchInsertGuard(new) == new.life = "open" /\ new.ver = 1

BatchUpdateGuard(old, new) ==
    /\ new.src = old.src
    /\ new.ver = old.ver + 1
    /\ new.life # old.life => <<old.life, new.life>> \in LifecycleEdges

DecisionInsertGuard(c) ==
    /\ status[c] = "pending"
    /\ Mutable(BatchOf[c])
    /\ rev'[c] = rev[c] + 1
    /\ c \notin Financial => choice'[c] \notin Keys

VerifiedInsertGuard(c) == batch'[BatchOf[c]].life = "active"

(* The rows of a batch that one transaction writes, at most two in a row. *)
BatchWritesPass(old, new) ==
    \/ BatchUpdateGuard(old, new)
    \/ \E life \in Lives :
        LET mid == [old EXCEPT !.life = life, !.ver = @ + 1]
        IN  BatchUpdateGuard(old, mid) /\ BatchUpdateGuard(mid, new)

(* The repositories and the triggers agree on the lifecycle of a batch, its
   versions and the order of decisions, although each is written on its own:
   no transaction of a reviewer, a job or a source replacement is aborted by
   a trigger. *)
TriggersNeverFire ==
    [][/\ batch' = batch \/ \A b \in Batches :
            \/ batch'[b] = batch[b]
            \/ batch[b].life = "absent" /\ BatchInsertGuard(batch'[b])
            \/ batch[b].life # "absent" /\ BatchWritesPass(batch[b], batch'[b])
       /\ rev' = rev \/ \A c \in Cands : rev'[c] = rev[c] \/ DecisionInsertGuard(c)
       /\ status' = status \/ \A c \in Financial :
            status[c] = "approved" \/ status'[c] # "approved" \/ VerifiedInsertGuard(c)]_vars

=============================================================================
