------------------------- MODULE ReviewBatchProofs -------------------------
(***************************************************************************)
(* Proofs about ReviewBatch for any documents, batches, candidates, keys,  *)
(* reviewers and index jobs: authority, bills, payments and search chunks  *)
(* move together, an activation is the one that was previewed, and the     *)
(* repositories never meet a trigger.                                      *)
(***************************************************************************)
EXTENDS ReviewBatch, SequenceFacts, TLAPS

USE ReviewAssumption

(* The columns that authority, bills and chunks depend on. *)
RowsTyped ==
    /\ doc \in [Docs -> Documents]
    /\ batch \in [Batches -> BatchRows]
    /\ status \in [Cands -> Statuses]
    /\ choice \in [Cands -> DecisionValues]
    /\ rev \in [Cands -> Nat]
    /\ chunked \subseteq Cands
    /\ bill \in [Cands -> {"none", "unpaid", "paid"}]
    /\ inForce \subseteq Cands
    /\ target \in [Indexers -> Batches \cup {Nothing}]

(* The live jobs of a document stay within their bound when one is claimed. *)
JobsFit == \A d \in Docs : doc[d].queued + doc[d].claimed <= MaxJobs

(* Rows exist for created batches only, and a batch is made of an original
   that the document already has. *)
BatchesAreBound ==
    /\ \A c \in Cands : batch[BatchOf[c]].life = "absent" => status[c] = "absent"
    /\ \A b \in Batches : batch[b].src <= doc[DocOf[b]].src

(* Only candidates of the current source wait for a decision. *)
PendingIsCurrent ==
    \A c \in Cands : status[c] = "pending" => OnCurrentSource(BatchOf[c])

(* A candidate has a bill row only once it has been approved. *)
BillsWereApproved ==
    \A c \in Cands : bill[c] # "none" => status[c] \in {"approved", "superseded"}

(* The bills in force, with uniqueness stated without counting. *)
BillsInForce ==
    /\ inForce = {c \in Cands : status[c] = "approved" /\ IsBill(c)}
    /\ \A c, e \in inForce : choice[c] = choice[e] => c = e

ReviewInv ==
    /\ RowsTyped
    /\ JobsFit
    /\ BatchesAreBound
    /\ PendingIsCurrent
    /\ BillsWereApproved
    /\ AuthorityIsActiveCohort
    /\ BillsInForce
    /\ ChunksFollowSource

-----------------------------------------------------------------------------
(* prior_active is the active batch of the document, when there is another. *)
LEMMA PriorIsActive ==
    ASSUME NEW b \in Batches, RowsTyped, AuthorityIsActiveCohort, Mutable(b)
    PROVE  /\ PriorActive(b) # Nothing =>
                /\ PriorActive(b) \in BatchesOf(DocOf[b]) \ {b}
                /\ batch[PriorActive(b)].life = "active"
           /\ \A e \in BatchesOf(DocOf[b]) : batch[e].life = "active" <=> e = PriorActive(b)
<1> DEFINE P == {p \in BatchesOf(DocOf[b]) \ {b} : batch[p].life = "active"}
<1>1. CASE P = {}
  <2>1. PriorActive(b) = Nothing
    BY Zenon, <1>1 DEF PriorActive
  <2>2. \A e \in BatchesOf(DocOf[b]) : batch[e].life # "active"
    BY Zenon, <1>1 DEF Mutable
  <2>3. \A e \in BatchesOf(DocOf[b]) : e # Nothing
    BY Zenon DEF BatchesOf
  <2> QED
    BY Zenon, <2>1, <2>2, <2>3
<1>2. CASE P # {}
  <2>1. PriorActive(b) \in P
    BY Zenon, <1>2 DEF PriorActive
  <2>2. PriorActive(b) # Nothing /\ batch[b].life # "active"
    BY Zenon, <2>1 DEF BatchesOf, Mutable
  <2>3. ASSUME NEW e \in BatchesOf(DocOf[b]), batch[e].life = "active"
        PROVE  e = PriorActive(b)
    <3>1. /\ e \in Batches /\ DocOf[e] = DocOf[b]
          /\ PriorActive(b) \in Batches /\ DocOf[PriorActive(b)] = DocOf[b]
          /\ batch[PriorActive(b)].life = "active"
      BY Zenon, <2>1 DEF BatchesOf
    <3> QED
      BY Zenon, <2>3, <3>1 DEF AuthorityIsActiveCohort
  <2> QED
    BY Zenon, <2>1, <2>2, <2>3
<1> QED
  BY Zenon, <1>1, <1>2

(* What an activation retires is all that the document has approved. *)
LEMMA RetiredIsAuthority ==
    ASSUME NEW b \in Batches, RowsTyped, AuthorityIsActiveCohort, Mutable(b)
    PROVE  ApprovedIn(PriorActive(b))
             = {c \in Cands : CandDoc(c) = DocOf[b] /\ status[c] = "approved"}
<1>1. \A c \in Cands : CandDoc(c) = DocOf[b] /\ status[c] = "approved"
                         => BatchOf[c] = PriorActive(b)
  BY Zenon, PriorIsActive DEF AuthorityIsActiveCohort, BatchesOf, CandDoc
<1>2. \A c \in Cands : BatchOf[c] # Nothing
  BY SMTT(30)
<1>3. \A c \in Cands : BatchOf[c] = PriorActive(b) => CandDoc(c) = DocOf[b]
  BY Zenon, <1>2, PriorIsActive DEF BatchesOf, CandDoc
<1> QED
  BY Zenon, <1>1, <1>2, <1>3 DEF ApprovedIn, CandsOf

-----------------------------------------------------------------------------
(* Uploaded documents without a batch satisfy the invariant. *)
LEMMA ReviewInit == Init => ReviewInv
<1> SUFFICES ASSUME Init PROVE ReviewInv
  BY SMTT(30)
<1>1. RowsTyped /\ JobsFit
  BY SMTT(30) DEF Init, RowsTyped, JobsFit, Documents, BatchRows, Sources, Lives, Statuses, DecisionValues
<1>2. BatchesAreBound /\ PendingIsCurrent /\ BillsWereApproved
  BY SMTT(30) DEF Init, BatchesAreBound, PendingIsCurrent, BillsWereApproved
<1>3. AuthorityIsActiveCohort /\ BillsInForce /\ ChunksFollowSource
  BY Zenon DEF Init, AuthorityIsActiveCohort, BillsInForce, ChunksFollowSource
<1> QED
  BY Zenon, <1>1, <1>2, <1>3 DEF ReviewInv

(* Authority rests on which batches are active and what they include. *)
LEMMA AuthorityFrame ==
    ASSUME AuthorityIsActiveCohort,
           \A b \in Batches : batch'[b].life = "active" <=> batch[b].life = "active",
           \A c \in Cands : status'[c] = "approved" <=> status[c] = "approved",
           \A c \in Cands : status[c] = "approved" \/ batch[BatchOf[c]].life = "active"
                                => choice'[c] = choice[c],
           \A d \in Docs : doc'[d].status = "verified" =>
                \/ doc[d].status = "verified"
                \/ \E b \in BatchesOf(d) : batch'[b].life = "active"
    PROVE  AuthorityIsActiveCohort'
<1> \A c \in Cands : BatchOf[c] \in Batches
  BY SMTT(30)
<1>1. \A b, e \in Batches :
        DocOf[b] = DocOf[e] /\ batch'[b].life = "active" /\ batch'[e].life = "active" => b = e
  BY Zenon DEF AuthorityIsActiveCohort
<1>2. \A c \in Cands :
        status'[c] = "approved" <=> batch'[BatchOf[c]].life = "active" /\ Included(c)'
  BY Zenon DEF AuthorityIsActiveCohort, Included
<1>3. \A d \in Docs :
        doc'[d].status = "verified" => \E b \in BatchesOf(d) : batch'[b].life = "active"
  <2> SUFFICES ASSUME NEW d \in Docs, doc'[d].status = "verified"
               PROVE  \E b \in BatchesOf(d) : batch'[b].life = "active"
    BY SMTT(30)
  <2>1. doc[d].status = "verified" => \E b \in BatchesOf(d) : batch[b].life = "active"
    BY Zenon DEF AuthorityIsActiveCohort
  <2>2. ASSUME NEW b \in BatchesOf(d), batch[b].life = "active"
        PROVE  \E e \in BatchesOf(d) : batch'[e].life = "active"
    BY SMTT(30), <2>2 DEF BatchesOf
  <2> QED
    BY Zenon, <2>1, <2>2
<1> QED
  BY Zenon, <1>1, <1>2, <1>3 DEF AuthorityIsActiveCohort, BatchesOf

(* Steps that leave the rows of the review alone: workers that claim and lose
   jobs, reprocess requests, screens and index targets.  None of them moves the
   source of a document or verifies one. *)
LEMMA FrameStep ==
    ASSUME ReviewInv, RowsTyped', JobsFit',
           UNCHANGED <<review, chunked, bills>>,
           \A d \in Docs : /\ doc'[d].src = doc[d].src
                           /\ doc'[d].status = "verified" => doc[d].status = "verified"
    PROVE  ReviewInv'
<1> /\ batch' = batch /\ status' = status /\ choice' = choice
    /\ chunked' = chunked /\ bill' = bill /\ inForce' = inForce
  BY Zenon DEF review, bills
<1> \A b \in Batches : DocOf[b] \in Docs
  BY Zenon
<1>1. \A b \in Batches : OnCurrentSource(b)' <=> OnCurrentSource(b)
  BY Zenon DEF OnCurrentSource
<1>2. BatchesAreBound'
  BY Zenon DEF ReviewInv, BatchesAreBound
<1>3. PendingIsCurrent'
  BY Zenon, <1>1 DEF ReviewInv, PendingIsCurrent
<1>4. BillsWereApproved'
  BY Zenon DEF ReviewInv, BillsWereApproved
<1>5. AuthorityIsActiveCohort'
  BY Zenon DEF ReviewInv, AuthorityIsActiveCohort, Included
<1>6. BillsInForce'
  BY Zenon DEF ReviewInv, BillsInForce, IsBill
<1>7. ChunksFollowSource'
  BY Zenon, <1>1 DEF ReviewInv, ChunksFollowSource
<1> QED
  BY Zenon, <1>2, <1>3, <1>4, <1>5, <1>6, <1>7 DEF ReviewInv

(* ClaimJob, JobDies and Reprocess. *)
LEMMA JobSteps ==
    ASSUME ReviewInv, NEW d \in Docs,
           ClaimJob(d) \/ JobDies(d, 1, 0) \/ JobDies(d, 0, 1) \/ Reprocess(d)
    PROVE  ReviewInv'
<1> USE DEF ReviewInv
<1>1. UNCHANGED <<review, chunked, bills, clients>>
  BY Zenon DEF ClaimJob, JobDies, Reprocess
<1>2. /\ \A e \in Docs : /\ doc'[e].src = doc[e].src
                         /\ doc'[e].status = "verified" => doc[e].status = "verified"
      /\ JobsFit'
      /\ doc' \in [Docs -> Documents]
  <2>1. CASE ClaimJob(d)
    BY SMTT(30), <2>1 DEF ClaimJob, RowsTyped, JobsFit, Documents
  <2>2. CASE JobDies(d, 1, 0)
    BY SMTT(30), <2>2 DEF JobDies, RowsTyped, JobsFit, Documents
  <2>3. CASE JobDies(d, 0, 1)
    BY SMTT(30), <2>3 DEF JobDies, RowsTyped, JobsFit, Documents
  <2>4. CASE Reprocess(d)
    BY SMTT(30), <2>4 DEF Reprocess, RowsTyped, JobsFit, Documents
  <2> QED
    BY Zenon, <2>1, <2>2, <2>3, <2>4
<1>3. RowsTyped'
  BY Zenon, <1>1, <1>2 DEF RowsTyped, review, bills, clients
<1> QED
  BY Zenon, <1>1, <1>2, <1>3, FrameStep

(* The preview reads, the index job loads its target. *)
LEMMA ClientSteps ==
    ASSUME ReviewInv,
           UNCHANGED <<doc, review, chunked, bills>>,
           target' \in [Indexers -> Batches \cup {Nothing}]
    PROVE  ReviewInv'
<1>1. RowsTyped' /\ JobsFit'
  BY Zenon DEF ReviewInv, RowsTyped, JobsFit, review, bills
<1> QED
  BY Zenon, <1>1, FrameStep

(* A new batch has the current source, and its candidates had no rows. *)
LEMMA AddBatchStep ==
    ASSUME ReviewInv, NEW d \in Docs, AddBatch(d)
    PROVE  ReviewInv'
<1> USE DEF ReviewInv
<1>1. PICK b \in BatchesOf(d) :
        /\ batch[b].life = "absent"
        /\ batch' = [batch EXCEPT ![b] = [life |-> "open", ver |-> 1, src |-> doc[d].src]]
        /\ status' = [c \in Cands |-> IF c \in CandsOf(b) THEN "pending" ELSE status[c]]
  BY Zenon DEF AddBatch
<1>2. /\ b \in Batches /\ DocOf[b] = d
      /\ \A e \in Batches : DocOf[e] \in Docs
      /\ \A c \in Cands : BatchOf[c] \in Batches
      /\ choice' = choice /\ rev' = rev /\ chunked' = chunked
      /\ bill' = bill /\ inForce' = inForce /\ target' = target
      /\ doc' = [doc EXCEPT ![d].claimed = @ - 1, ![d].status = "in_review",
                            ![d].intake = "processed"]
      /\ doc[d].claimed > 0
  BY Zenon DEF AddBatch, BatchesOf, bills, clients
<1>3. RowsTyped' /\ JobsFit'
  <2>1. doc' \in [Docs -> Documents] /\ JobsFit'
    <3>1. doc[d] \in Documents /\ doc[d].claimed > 0
      BY Zenon, <1>2 DEF RowsTyped
    <3>2. PICK n \in 0..MaxJobs : n = doc[d].claimed - 1
      BY SMTT(30), <3>1 DEF Documents
    <3>3. [doc[d] EXCEPT !.claimed = n, !.status = "in_review", !.intake = "processed"]
            \in Documents
      BY Zenon, <3>1 DEF Documents
    <3>4. doc' \in [Docs -> Documents]
      BY Zenon, <1>2, <3>2, <3>3 DEF RowsTyped
    <3>5. \A e \in Docs : /\ doc'[e].queued = doc[e].queued
                          /\ doc'[e].claimed <= doc[e].claimed
      BY SMTT(30), <1>2 DEF RowsTyped, Documents
    <3> QED
      BY SMTT(30), <3>4, <3>5 DEF RowsTyped, JobsFit, Documents
  <2>2. batch' \in [Batches -> BatchRows]
    BY Zenon, <1>1, <1>2 DEF RowsTyped, BatchRows, Lives, Documents
  <2>3. status' \in [Cands -> Statuses]
    BY Zenon, <1>1 DEF RowsTyped, Statuses
  <2> QED
    BY Zenon, <1>2, <2>1, <2>2, <2>3 DEF RowsTyped
<1>4. \A e \in Docs : doc'[e].src = doc[e].src
  BY SMTT(30), <1>2 DEF RowsTyped, Documents
<1>5. /\ \A e \in Batches \ {b} : batch'[e] = batch[e]
      /\ batch'[b] = [life |-> "open", ver |-> 1, src |-> doc[d].src]
      /\ \A c \in Cands : status'[c] = IF BatchOf[c] = b THEN "pending" ELSE status[c]
  BY Zenon, <1>1, <1>2 DEF RowsTyped, CandsOf
<1>6. \A e \in Batches \ {b} : OnCurrentSource(e)' <=> OnCurrentSource(e)
  BY Zenon, <1>2, <1>4, <1>5 DEF OnCurrentSource
<1>7. OnCurrentSource(b)'
  <2>1. batch'[b].src = doc[d].src
    BY SMTT(30), <1>5
  <2> QED
    BY Zenon, <1>2, <1>4, <2>1 DEF OnCurrentSource
<1>8. BatchesAreBound'
  <2>1. \A c \in Cands : batch'[BatchOf[c]].life = "absent" => status'[c] = "absent"
    BY SMTT(30), <1>2, <1>5 DEF BatchesAreBound
  <2>2. \A e \in Batches \ {b} : batch'[e].src <= doc'[DocOf[e]].src
    BY Zenon, <1>2, <1>4, <1>5 DEF BatchesAreBound
  <2>3. batch'[b].src <= doc'[DocOf[b]].src
    BY SMTT(30), <1>3, <1>7, <1>2 DEF OnCurrentSource, RowsTyped, Documents, Sources
  <2> QED
    BY Zenon, <2>1, <2>2, <2>3 DEF BatchesAreBound
<1>9. PendingIsCurrent'
  BY Zenon, <1>2, <1>5, <1>6, <1>7 DEF PendingIsCurrent
<1>10. BillsWereApproved'
  BY Zenon, <1>1, <1>2, <1>5 DEF BillsWereApproved, BatchesAreBound
<1>11. AuthorityIsActiveCohort'
  <2>1. \A e \in Batches : batch'[e].life = "active" <=> batch[e].life = "active"
    BY SMTT(30), <1>1, <1>5
  <2>2. \A c \in Cands : status'[c] = "approved" <=> status[c] = "approved"
    BY Zenon, <1>1, <1>2, <1>5 DEF BatchesAreBound
  <2>3. \A e \in Docs : doc'[e].status = "verified" => doc[e].status = "verified"
    BY SMTT(30), <1>2 DEF RowsTyped, Documents
  <2> QED
    BY Zenon, <1>2, <2>1, <2>2, <2>3, AuthorityFrame
<1>12. BillsInForce'
  BY SMTT(30), <1>1, <1>2, <1>5 DEF BillsInForce, BatchesAreBound, IsBill
<1>13. ChunksFollowSource'
  BY Zenon, <1>2, <1>5, <1>6, <1>7 DEF ChunksFollowSource, RowsTyped
<1> QED
  BY Zenon, <1>3, <1>8, <1>9, <1>10, <1>11, <1>12, <1>13

(* A new source leaves nothing pending and nothing to find, and no batch of the
   document is on the current source any more. *)
LEMMA ReplaceSourceStep ==
    ASSUME ReviewInv, NEW d \in Docs, ReplaceSource(d)
    PROVE  ReviewInv'
<1> USE DEF ReviewInv
<1>1. /\ doc' = [doc EXCEPT ![d] = NewSource(d)]
      /\ doc[d].src < MaxSources
      /\ batch' = batch /\ choice' = choice /\ rev' = rev
      /\ bill' = bill /\ inForce' = inForce /\ target' = target
      /\ chunked' = {c \in chunked : CandDoc(c) # d}
      /\ \A e \in Batches : DocOf[e] \in Docs
      /\ \A c \in Cands : BatchOf[c] \in Batches
  BY Zenon DEF ReplaceSource, bills, clients
<1>2. \A c \in Cands : status'[c] = IF CandDoc(c) = d /\ status[c] = "pending"
                                    THEN "superseded" ELSE status[c]
  BY Zenon DEF ReplaceSource
<1>3. /\ doc'[d].src = doc[d].src + 1
      /\ \A e \in Docs \ {d} : doc'[e] = doc[e]
      /\ doc'[d].status # "verified"
  BY Zenon, <1>1 DEF NewSource, RowsTyped, Documents
<1>4. RowsTyped' /\ JobsFit'
  <2>1. status' \in [Cands -> Statuses]
    BY Zenon DEF ReplaceSource, RowsTyped, Statuses
  <2>2. NewSource(d) \in Documents
    BY SMTT(30), <1>1 DEF NewSource, RowsTyped, Documents, Sources
  <2>3. JobsFit'
    BY SMTT(30), <1>1 DEF RowsTyped, JobsFit, NewSource
  <2>4. doc' \in [Docs -> Documents] /\ chunked' \subseteq Cands
    BY Zenon, <1>1, <2>2 DEF RowsTyped
  <2> QED
    BY Zenon, <1>1, <2>1, <2>3, <2>4 DEF RowsTyped
<1>5. \A e \in Batches : DocOf[e] # d => (OnCurrentSource(e)' <=> OnCurrentSource(e))
  BY Zenon, <1>1, <1>3 DEF OnCurrentSource
<1>6. \A e \in Batches : DocOf[e] = d => ~OnCurrentSource(e)'
  BY SMTT(30), <1>1, <1>3 DEF OnCurrentSource, BatchesAreBound, RowsTyped, Documents, BatchRows, Sources
<1>7. BatchesAreBound'
  <2>1. \A c \in Cands : batch'[BatchOf[c]].life = "absent" => status'[c] = "absent"
    BY Zenon, <1>1, <1>2 DEF BatchesAreBound
  <2>2. \A e \in Batches : batch'[e].src <= doc'[DocOf[e]].src
    BY SMTT(30), <1>1, <1>3 DEF BatchesAreBound, RowsTyped, Documents, BatchRows, Sources
  <2> QED
    BY Zenon, <2>1, <2>2 DEF BatchesAreBound
<1>8. PendingIsCurrent'
  BY Zenon, <1>1, <1>2, <1>5 DEF PendingIsCurrent, CandDoc
<1>9. BillsWereApproved'
  BY Zenon, <1>1, <1>2 DEF BillsWereApproved
<1>10. \A c \in Cands : status'[c] = "approved" <=> status[c] = "approved"
  BY Zenon, <1>2
<1>11. AuthorityIsActiveCohort'
  BY Zenon, <1>1, <1>3, <1>10, AuthorityFrame
<1>12. BillsInForce'
  BY Zenon, <1>1, <1>10 DEF BillsInForce, IsBill
<1>13. ChunksFollowSource'
  BY Zenon, <1>1, <1>5, <1>6, <1>10 DEF ChunksFollowSource, CandDoc, RowsTyped
<1> QED
  BY Zenon, <1>4, <1>7, <1>8, <1>9, <1>11, <1>12, <1>13

(* The index job writes for the current source only. *)
LEMMA ReplaceChunksStep ==
    ASSUME ReviewInv, NEW i \in Indexers, ReplaceChunks(i)
    PROVE  ReviewInv'
<1> USE DEF ReviewInv
<1>1. /\ doc' = doc /\ batch' = batch /\ status' = status /\ choice' = choice /\ rev' = rev
      /\ bill' = bill /\ inForce' = inForce
      /\ target[i] \in Batches
      /\ chunked' = IF OnCurrentSource(target[i]) THEN chunked \cup CandsOf(target[i]) ELSE chunked
  BY Zenon DEF ReplaceChunks, review, bills, RowsTyped
<1>2. RowsTyped' /\ JobsFit'
  <2>1. target' \in [Indexers -> Batches \cup {Nothing}]
    BY Zenon DEF ReplaceChunks, RowsTyped
  <2>2. chunked' \subseteq Cands
    BY Zenon, <1>1 DEF RowsTyped, CandsOf
  <2> QED
    BY Zenon, <1>1, <2>1, <2>2 DEF RowsTyped, JobsFit
<1>3. BatchesAreBound' /\ PendingIsCurrent' /\ BillsWereApproved'
  BY Zenon, <1>1 DEF BatchesAreBound, PendingIsCurrent, BillsWereApproved, OnCurrentSource
<1>4. AuthorityIsActiveCohort' /\ BillsInForce'
  BY Zenon, <1>1 DEF AuthorityIsActiveCohort, BillsInForce, Included, IsBill
<1>5. ChunksFollowSource'
  BY Zenon, <1>1 DEF ChunksFollowSource, CandsOf, OnCurrentSource
<1> QED
  BY Zenon, <1>2, <1>3, <1>4, <1>5

(* Decisions are staged on a batch without authority. *)
LEMMA DecideStep ==
    ASSUME ReviewInv, NEW r \in Reviewers, NEW b \in Batches, Decide(r, b)
    PROVE  ReviewInv'
<1> USE DEF ReviewInv
<1>1. /\ doc' = doc /\ status' = status /\ chunked' = chunked
      /\ bill' = bill /\ inForce' = inForce /\ target' = target
      /\ batch[b].life \in {"open", "ready"}
      /\ \A c \in Cands : BatchOf[c] \in Batches
      /\ \A e \in Batches : DocOf[e] \in Docs
  BY Zenon DEF Decide, Mutable, bills
<1>2. PICK D \in SUBSET CandsOf(b) : \E picks \in [D -> UNION {Decisions(c) : c \in D}] :
        /\ \A c \in D : picks[c] \in Decisions(c)
        /\ Stage(b, picks)
  BY Zenon DEF Decide
<1>3. PICK picks \in [D -> UNION {Decisions(c) : c \in D}] :
        /\ \A c \in D : picks[c] \in Decisions(c)
        /\ Stage(b, picks)
  BY Zenon, <1>2
<1>4. /\ choice' = [c \in Cands |-> IF c \in D THEN picks[c] ELSE choice[c]]
      /\ rev' = [c \in Cands |-> IF c \in D THEN rev[c] + 1 ELSE rev[c]]
      /\ \E life \in {"open", "ready"} :
            batch' = [batch EXCEPT ![b].ver = @ + 1, ![b].life = life]
  BY Zenon, <1>3 DEF Stage
<1>5. PICK life \in {"open", "ready"} :
        batch' = [batch EXCEPT ![b].ver = @ + 1, ![b].life = life]
  BY Zenon, <1>4
<1>6. RowsTyped' /\ JobsFit'
  <2>1. batch' \in [Batches -> BatchRows]
    <3>1. batch[b] \in BatchRows
      BY Zenon DEF RowsTyped
    <3>2. PICK n \in Nat : n = batch[b].ver + 1
      BY SMTT(30), <3>1 DEF BatchRows
    <3>3. [batch[b] EXCEPT !.ver = n, !.life = life] \in BatchRows
      BY Zenon, <3>1 DEF BatchRows, Lives
    <3> QED
      BY Zenon, <1>5, <3>2, <3>3 DEF RowsTyped
  <2>2. choice' \in [Cands -> DecisionValues]
    BY Zenon, <1>3, <1>4 DEF RowsTyped, DecisionValues, Decisions
  <2>3. rev' \in [Cands -> Nat]
    BY SMTT(30), <1>4 DEF RowsTyped
  <2> QED
    BY Zenon, <1>1, <2>1, <2>2, <2>3 DEF RowsTyped, JobsFit
<1>7. \A e \in Batches :
        /\ batch'[e].src = batch[e].src
        /\ batch'[e].life = "active" <=> batch[e].life = "active"
        /\ batch'[e].life = "absent" <=> batch[e].life = "absent"
  BY SMTT(30), <1>1, <1>5 DEF RowsTyped, BatchRows
<1>8. \A c \in Cands : batch[BatchOf[c]].life = "active" => choice'[c] = choice[c]
  BY Zenon, <1>1, <1>4 DEF CandsOf
<1>9. \A e \in Batches : OnCurrentSource(e)' <=> OnCurrentSource(e)
  BY Zenon, <1>1, <1>7 DEF OnCurrentSource
<1>10. BatchesAreBound' /\ PendingIsCurrent' /\ BillsWereApproved'
  BY Zenon, <1>1, <1>7, <1>9 DEF BatchesAreBound, PendingIsCurrent, BillsWereApproved
<1>11. \A c \in Cands : status[c] = "approved" => batch[BatchOf[c]].life = "active"
  BY Zenon DEF AuthorityIsActiveCohort
<1>12. AuthorityIsActiveCohort'
  BY Zenon, <1>1, <1>7, <1>8, <1>11, AuthorityFrame
<1>13. BillsInForce'
  <2>1. \A c \in Cands : status[c] = "approved" => choice'[c] = choice[c]
    BY Zenon, <1>8, <1>11
  <2>2. inForce' = {c \in Cands : status'[c] = "approved" /\ IsBill(c)'}
    BY Zenon, <1>1, <2>1 DEF BillsInForce, IsBill
  <2> QED
    BY Zenon, <1>1, <2>1, <2>2 DEF BillsInForce
<1>14. ChunksFollowSource'
  BY Zenon, <1>1, <1>9 DEF ChunksFollowSource
<1> QED
  BY Zenon, <1>6, <1>10, <1>12, <1>13, <1>14

(* A rejection takes no authority away, and a document stays verified only by
   the older cohort that remains active. *)
LEMMA RejectedStep ==
    ASSUME ReviewInv, NEW b \in Batches, NEW more \in {0, 1}, Rejected(b, more),
           doc[DocOf[b]].queued + doc[DocOf[b]].claimed + more <= MaxJobs,
           UNCHANGED <<choice, rev, chunked, bills, target>>
    PROVE  ReviewInv'
<1> USE DEF ReviewInv
<1>1. /\ choice' = choice /\ rev' = rev /\ chunked' = chunked
      /\ bill' = bill /\ inForce' = inForce /\ target' = target
      /\ batch[b].life \in {"open", "ready"}
      /\ batch' = [batch EXCEPT ![b].life = "rejected", ![b].ver = @ + 1]
      /\ \A c \in Cands : BatchOf[c] \in Batches
      /\ \A e \in Batches : DocOf[e] \in Docs
  BY Zenon DEF Rejected, Mutable, bills
<1>2. \A c \in Cands : status'[c] = IF BatchOf[c] = b THEN "rejected" ELSE status[c]
  BY Zenon DEF Rejected, CandsOf
<1>3. \A c \in Cands : BatchOf[c] = b => status[c] = "pending"
  BY Zenon DEF Rejected, CandsOf
<1>4. \A e \in Batches :
        /\ batch'[e].src = batch[e].src
        /\ batch'[e].life = "active" <=> batch[e].life = "active"
        /\ batch'[e].life = "absent" <=> batch[e].life = "absent"
  BY SMTT(30), <1>1 DEF RowsTyped, BatchRows
<1>5. PICK s \in {"needs_reprocess", "verified"} :
        /\ s = (IF PriorActive(b) = Nothing THEN "needs_reprocess" ELSE "verified")
        /\ doc' = [doc EXCEPT ![DocOf[b]].queued = @ + more,
                              ![DocOf[b]].intake = IF more > 0 THEN "queued" ELSE @,
                              ![DocOf[b]].status = s]
  BY Zenon DEF Rejected
<1>6. \A d \in Docs :
        /\ doc'[d].src = doc[d].src
        /\ d # DocOf[b] => doc'[d] = doc[d]
        /\ d = DocOf[b] => doc'[d].status = s
  BY SMTT(30), <1>1, <1>5 DEF RowsTyped, Documents
<1>7. doc' \in [Docs -> Documents] /\ JobsFit'
  <2>1. doc[DocOf[b]] \in Documents
    BY Zenon, <1>1 DEF RowsTyped
  <2>2. PICK n \in 0..MaxJobs : n = doc[DocOf[b]].queued + more
    BY SMTT(30), <2>1 DEF Documents
  <2>3. [doc[DocOf[b]] EXCEPT !.queued = n, !.intake = IF more > 0 THEN "queued" ELSE @,
                              !.status = s] \in Documents
    BY Zenon, <2>1 DEF Documents
  <2>4. doc' \in [Docs -> Documents]
    BY Zenon, <1>1, <1>5, <2>2, <2>3 DEF RowsTyped
  <2>5. /\ doc'[DocOf[b]].queued = n
        /\ doc'[DocOf[b]].claimed = doc[DocOf[b]].claimed
    BY SMTT(30), <1>1, <1>5, <2>2 DEF RowsTyped, Documents
  <2>6. JobsFit'
    BY SMTT(30), <1>6, <2>1, <2>2, <2>5 DEF JobsFit, Documents
  <2> QED
    BY Zenon, <2>4, <2>6
<1>8. RowsTyped'
  <2>1. batch' \in [Batches -> BatchRows]
    BY SMTT(30), <1>1 DEF RowsTyped, BatchRows, Lives
  <2>2. status' \in [Cands -> Statuses]
    BY Zenon DEF Rejected, RowsTyped, Statuses
  <2> QED
    BY Zenon, <1>1, <1>7, <2>1, <2>2 DEF RowsTyped
<1>9. \A e \in Batches : OnCurrentSource(e)' <=> OnCurrentSource(e)
  BY Zenon, <1>1, <1>4, <1>6 DEF OnCurrentSource
<1>10. BatchesAreBound' /\ PendingIsCurrent' /\ BillsWereApproved'
  <2>1. BatchesAreBound'
    <3>1. \A c \in Cands : batch'[BatchOf[c]].life = "absent" => status'[c] = "absent"
      BY SMTT(30), <1>1, <1>2, <1>4 DEF BatchesAreBound
    <3>2. \A e \in Batches : batch'[e].src <= doc'[DocOf[e]].src
      BY ZenonT(30), <1>1, <1>4, <1>6 DEF BatchesAreBound
    <3> QED
      BY Zenon, <3>1, <3>2 DEF BatchesAreBound
  <2>2. PendingIsCurrent'
    BY Zenon, <1>1, <1>2, <1>9 DEF PendingIsCurrent
  <2>3. BillsWereApproved'
    BY Zenon, <1>1, <1>2, <1>3 DEF BillsWereApproved
  <2> QED
    BY Zenon, <2>1, <2>2, <2>3
<1>11. \A c \in Cands : status'[c] = "approved" <=> status[c] = "approved"
  BY Zenon, <1>2, <1>3
<1>12. AuthorityIsActiveCohort'
  <2>1. \A d \in Docs : doc'[d].status = "verified" =>
                            \E e \in BatchesOf(d) : batch'[e].life = "active"
    <3> SUFFICES ASSUME NEW d \in Docs, doc'[d].status = "verified"
                 PROVE  \E e \in BatchesOf(d) : batch'[e].life = "active"
      BY SMTT(30)
    <3>1. CASE d # DocOf[b]
      BY SMTT(30), <1>4, <1>6, <3>1 DEF AuthorityIsActiveCohort, BatchesOf
    <3>2. CASE d = DocOf[b]
      <4>1. PriorActive(b) # Nothing
        BY Zenon, <1>5, <1>6, <3>2
      <4>2. PriorActive(b) \in BatchesOf(d) /\ batch[PriorActive(b)].life = "active"
        BY Zenon, <1>1, <3>2, <4>1, PriorIsActive DEF Mutable
      <4> QED
        BY Zenon, <1>4, <4>2 DEF BatchesOf
    <3> QED
      BY Zenon, <3>1, <3>2
  <2> QED
    BY Zenon, <1>1, <1>4, <1>11, <2>1, AuthorityFrame
<1>13. BillsInForce'
  BY SMTT(30), <1>1, <1>11 DEF BillsInForce, IsBill
<1>14. ChunksFollowSource'
  BY Zenon, <1>1, <1>9, <1>11 DEF ChunksFollowSource
<1> QED
  BY Zenon, <1>7, <1>8, <1>10, <1>12, <1>13, <1>14

(* What an activation does to the lifecycle of candidates and batches. *)
LEMMA SwitchRows ==
    ASSUME ReviewInv, NEW b \in Batches, NEW ch \in [Cands -> DecisionValues], NEW ver \in Nat,
           Mutable(b), SafeToActivate(b, ch), Switch(b, ch, ver)
    PROVE  /\ \A c \in Cands : BatchOf[c] = b =>
                /\ status[c] = "pending" /\ ch[c] # "pending"
                /\ status'[c] = IF ch[c] = "exclude" THEN "superseded" ELSE "approved"
                /\ ch[c] # "exclude" <=> ch[c] \in Keys \cup {NoBill}
           /\ \A c \in Cands : BatchOf[c] # b =>
                status'[c] = IF CandDoc(c) = DocOf[b] /\ status[c] = "approved"
                             THEN "superseded" ELSE status[c]
           /\ \A e \in Batches :
                /\ batch'[e].src = batch[e].src
                /\ batch'[e].life = "active" <=>
                        e = b \/ (DocOf[e] # DocOf[b] /\ batch[e].life = "active")
                /\ batch'[e].life = "absent" <=> batch[e].life = "absent"
           /\ doc' = [doc EXCEPT ![DocOf[b]].status = "verified"]
           /\ status' \in [Cands -> Statuses]
           /\ batch' \in [Batches -> BatchRows]
<1> USE DEF ReviewInv
<1> DEFINE retired == ApprovedIn(PriorActive(b))
<1>1. retired = {c \in Cands : CandDoc(c) = DocOf[b] /\ status[c] = "approved"}
  BY Zenon, RetiredIsAuthority
<1>2. \A c \in Cands : BatchOf[c] = b => status[c] = "pending" /\ ch[c] # "pending"
  BY Zenon DEF SafeToActivate, CandsOf
<1>3. status' = [c \in Cands |->
                    IF c \in retired THEN "superseded"
                    ELSE IF c \notin CandsOf(b) THEN status[c]
                    ELSE IF ch[c] = "exclude" THEN "superseded" ELSE "approved"]
  BY Zenon DEF Switch, SwitchStatus
<1>4. \A c \in Cands : BatchOf[c] = b =>
        status'[c] = IF ch[c] = "exclude" THEN "superseded" ELSE "approved"
  BY Zenon, <1>1, <1>2, <1>3 DEF CandsOf
<1>5. \A c \in Cands : ch[c] \in {"pending", "exclude", NoBill} \cup Keys
  BY Zenon DEF DecisionValues
<1>6. \A c \in Cands : BatchOf[c] = b => (ch[c] # "exclude" <=> ch[c] \in Keys \cup {NoBill})
  BY Zenon, <1>2, <1>5
<1>7. \A c \in Cands : BatchOf[c] # b =>
        status'[c] = IF CandDoc(c) = DocOf[b] /\ status[c] = "approved"
                     THEN "superseded" ELSE status[c]
  BY Zenon, <1>1, <1>3 DEF CandsOf
<1>8. status' \in [Cands -> Statuses]
  BY SMTT(30), <1>3 DEF RowsTyped, Statuses
<1>9. batch' = [e \in Batches |->
                   IF e = b THEN [batch[e] EXCEPT !.life = "active", !.ver = ver + 1]
                   ELSE IF e = PriorActive(b)
                   THEN [batch[e] EXCEPT !.life = "superseded", !.ver = @ + 1]
                   ELSE batch[e]]
  BY Zenon DEF Switch, SwitchStatus
<1>10. \A e \in Batches : batch[e] \in BatchRows
  BY Zenon DEF RowsTyped
<1>11. ASSUME NEW e \in Batches
       PROVE  /\ batch'[e] \in BatchRows
              /\ batch'[e].src = batch[e].src
              /\ batch'[e].life = IF e = b THEN "active"
                                  ELSE IF e = PriorActive(b) THEN "superseded"
                                  ELSE batch[e].life
  <2>1. PICK n \in Nat : n = batch[e].ver + 1
    <3>1. batch[e].ver \in Nat
      BY Zenon, <1>10 DEF BatchRows
    <3> QED
      BY SMTT(30), <3>1
  <2>2. PICK m \in Nat : m = ver + 1
    BY SMTT(30)
  <2>3. batch'[e] = IF e = b THEN [batch[e] EXCEPT !.life = "active", !.ver = m]
                    ELSE IF e = PriorActive(b)
                    THEN [batch[e] EXCEPT !.life = "superseded", !.ver = n]
                    ELSE batch[e]
    BY Zenon, <1>9, <2>1, <2>2
  <2>4. CASE e = b
    BY ZenonT(30), <1>10, <2>3, <2>4 DEF BatchRows, Lives
  <2>5. CASE e # b /\ e = PriorActive(b)
    BY ZenonT(30), <1>10, <2>3, <2>5 DEF BatchRows, Lives
  <2>6. CASE e # b /\ e # PriorActive(b)
    BY Zenon, <1>10, <2>3, <2>6
  <2> QED
    BY SMTT(30), <2>4, <2>5, <2>6
<1>12. \A e \in Batches : DocOf[e] = DocOf[b] =>
            (batch[e].life = "active" <=> e = PriorActive(b))
  BY Zenon, PriorIsActive DEF BatchesOf
<1>13. \A e \in Batches : e = PriorActive(b) =>
            DocOf[e] = DocOf[b] /\ e # b /\ batch[e].life = "active"
  <2>1. Nothing \notin Batches
    BY SMTT(30)
  <2> QED
    BY Zenon, <2>1, PriorIsActive DEF BatchesOf
<1>14. \A e \in Batches : batch'[e].life = "active" <=>
            e = b \/ (DocOf[e] # DocOf[b] /\ batch[e].life = "active")
  BY Zenon, <1>11, <1>12, <1>13
<1>15. \A e \in Batches : batch'[e].life = "absent" <=> batch[e].life = "absent"
  BY SMTT(30), <1>11, <1>13 DEF Mutable
<1>16. batch' \in [Batches -> BatchRows]
  BY ZenonT(30), <1>9, <1>11
<1>17. doc' = [doc EXCEPT ![DocOf[b]].status = "verified"]
  BY Zenon DEF Switch, SwitchStatus
<1> QED
  BY Zenon, <1>2, <1>4, <1>6, <1>7, <1>8, <1>11, <1>14, <1>15, <1>16, <1>17

(* The bills it leaves in force, in terms of the new approvals. *)
LEMMA SwitchedBills ==
    ASSUME ReviewInv, NEW b \in Batches, NEW ch \in [Cands -> DecisionValues], NEW ver \in Nat,
           Mutable(b), SafeToActivate(b, ch), Switch(b, ch, ver),
           choice' = ch, \A c \in Cands : BatchOf[c] # b => ch[c] = choice[c]
    PROVE  /\ BillsInForce'
           /\ bill' \in [Cands -> {"none", "unpaid", "paid"}]
           /\ BillsWereApproved'
<1> USE DEF ReviewInv
<1> DEFINE billed == {c \in CandsOf(b) : ch[c] \in Keys}
           retired == ApprovedIn(PriorActive(b))
           paid(c) == \E o \in Owners(ch[c]) : bill[o] = "paid"
<1>1. retired = {c \in Cands : CandDoc(c) = DocOf[b] /\ status[c] = "approved"}
  BY Zenon, RetiredIsAuthority
<1>2. /\ inForce' = (inForce \ retired) \cup billed
      /\ bill' = [c \in Cands |->
                    IF c \in billed THEN IF paid(c) THEN "paid" ELSE "unpaid" ELSE bill[c]]
  BY Zenon DEF Switch, SwitchBills
<1>3. \A c \in Cands : c \in inForce <=> status[c] = "approved" /\ choice[c] \in Keys
  BY Zenon DEF BillsInForce, IsBill
<1>4. \A c \in Cands : c \in inForce' <=> status'[c] = "approved" /\ choice'[c] \in Keys
  <2> SUFFICES ASSUME NEW c \in Cands
               PROVE  c \in inForce' <=> status'[c] = "approved" /\ choice'[c] \in Keys
    BY SMTT(30)
  <2>1. CASE BatchOf[c] = b
    BY SMTT(30), <1>1, <1>2, <1>3, <2>1, SwitchRows DEF CandsOf
  <2>2. CASE BatchOf[c] # b
    BY SMTT(30), <1>1, <1>2, <1>3, <2>2, SwitchRows DEF CandsOf
  <2> QED
    BY Zenon, <2>1, <2>2
<1>5. inForce' \subseteq Cands
  BY Zenon, <1>2 DEF RowsTyped, CandsOf
<1>6. ASSUME NEW c \in inForce', NEW e \in inForce', choice'[c] = choice'[e]
      PROVE  c = e
  <2>1. \A o \in inForce : status[o] = "approved" /\ BatchOf[o] # b /\ choice'[o] = choice[o]
    BY SMTT(30), <1>3, SwitchRows DEF RowsTyped
  <2>2. \A o \in inForce, n \in billed : choice[o] = ch[n] => o \in retired
    BY Zenon DEF SafeToActivate, Owners, CandsOf
  <2>3. CASE c \in billed /\ e \in billed
    BY Zenon, <1>6, <2>3 DEF SafeToActivate
  <2>4. CASE c \in billed /\ e \notin billed
    BY Zenon, <1>2, <1>6, <2>1, <2>2, <2>4
  <2>5. CASE c \notin billed /\ e \in billed
    BY Zenon, <1>2, <1>6, <2>1, <2>2, <2>5
  <2>6. CASE c \notin billed /\ e \notin billed
    BY Zenon, <1>2, <1>6, <2>1, <2>6 DEF BillsInForce
  <2> QED
    BY Zenon, <2>3, <2>4, <2>5, <2>6
<1>7. BillsInForce'
  BY Zenon, <1>4, <1>5, <1>6 DEF BillsInForce, IsBill
<1>8. bill' \in [Cands -> {"none", "unpaid", "paid"}]
  BY Zenon, <1>2 DEF RowsTyped
<1>9. BillsWereApproved'
  <2> SUFFICES ASSUME NEW c \in Cands, bill'[c] # "none"
               PROVE  status'[c] \in {"approved", "superseded"}
    BY Zenon DEF BillsWereApproved
  <2>1. CASE BatchOf[c] = b
    BY SMTT(30), <2>1, SwitchRows
  <2>2. CASE BatchOf[c] # b
    <3>1. bill[c] # "none"
      BY Zenon, <1>2, <2>2 DEF CandsOf
    <3> QED
      BY SMTT(30), <2>2, <3>1, SwitchRows DEF BillsWereApproved
  <2> QED
    BY Zenon, <2>1, <2>2
<1> QED
  BY Zenon, <1>7, <1>8, <1>9

(* An activation, from a screen or of a singleton, moves the authority of the
   document as a whole. *)
LEMMA SwitchStep ==
    ASSUME ReviewInv, NEW b \in Batches, NEW ch \in [Cands -> DecisionValues], NEW ver \in Nat,
           Mutable(b), SafeToActivate(b, ch), Switch(b, ch, ver),
           choice' = ch, \A c \in Cands : BatchOf[c] # b => ch[c] = choice[c],
           rev' \in [Cands -> Nat], chunked' = chunked, target' = target
    PROVE  ReviewInv'
<1> USE DEF ReviewInv
<1>1. /\ \A c \in Cands : BatchOf[c] \in Batches
      /\ \A e \in Batches : DocOf[e] \in Docs
      /\ doc' = [doc EXCEPT ![DocOf[b]].status = "verified"]
      /\ \A e \in Batches : batch'[e].src = batch[e].src
  BY SMTT(30), SwitchRows
<1>2. /\ doc' \in [Docs -> Documents]
      /\ \A d \in Docs : /\ doc'[d].src = doc[d].src
                         /\ doc'[d].queued = doc[d].queued /\ doc'[d].claimed = doc[d].claimed
                         /\ d # DocOf[b] => doc'[d].status = doc[d].status
  <2>1. \A d \in Docs : doc'[d] = IF d = DocOf[b] THEN [doc[d] EXCEPT !.status = "verified"]
                                                 ELSE doc[d]
    BY Zenon, <1>1 DEF RowsTyped
  <2>2. \A d \in Docs : /\ [doc[d] EXCEPT !.status = "verified"] \in Documents
                        /\ [doc[d] EXCEPT !.status = "verified"].src = doc[d].src
                        /\ [doc[d] EXCEPT !.status = "verified"].queued = doc[d].queued
                        /\ [doc[d] EXCEPT !.status = "verified"].claimed = doc[d].claimed
    BY SMTT(30) DEF RowsTyped, Documents
  <2> QED
    BY SMTT(30), <1>1, <2>1, <2>2 DEF RowsTyped
<1>3. RowsTyped'
  <2>1. batch' \in [Batches -> BatchRows] /\ status' \in [Cands -> Statuses]
    BY Zenon, SwitchRows
  <2>2. bill' \in [Cands -> {"none", "unpaid", "paid"}] /\ BillsInForce'
    BY Zenon, SwitchedBills
  <2>3. inForce' \subseteq Cands
    BY Zenon, <2>2 DEF BillsInForce
  <2> QED
    BY Zenon, <1>2, <2>1, <2>2, <2>3 DEF RowsTyped
<1>4. JobsFit'
  BY Zenon, <1>2 DEF JobsFit
<1>5. \A e \in Batches : OnCurrentSource(e)' <=> OnCurrentSource(e)
  BY SMTT(30), <1>1, <1>2 DEF OnCurrentSource
<1>6. BatchesAreBound'
  <2>1. \A e \in Batches : batch'[e].src <= doc'[DocOf[e]].src
    BY SMTT(30), <1>1, <1>2 DEF BatchesAreBound
  <2>2. ASSUME NEW c \in Cands, batch'[BatchOf[c]].life = "absent"
        PROVE  status'[c] = "absent"
    <3>1. BatchOf[c] # b /\ batch[BatchOf[c]].life = "absent"
      BY Zenon, <1>1, <2>2, SwitchRows DEF Mutable
    <3>2. status[c] = "absent"
      BY Zenon, <3>1 DEF BatchesAreBound
    <3> QED
      BY SMTT(30), <3>1, <3>2, SwitchRows
  <2> QED
    BY Zenon, <2>1, <2>2 DEF BatchesAreBound
<1>7. PendingIsCurrent'
  <2>1. \A c \in Cands : status'[c] = "pending" => status[c] = "pending"
    BY SMTT(30), SwitchRows
  <2> QED
    BY Zenon, <1>1, <1>5, <2>1 DEF PendingIsCurrent
<1>8. AuthorityIsActiveCohort'
  <2>1. \A e, f \in Batches :
          DocOf[e] = DocOf[f] /\ batch'[e].life = "active" /\ batch'[f].life = "active" => e = f
    BY SMTT(30), SwitchRows DEF AuthorityIsActiveCohort
  <2>2. ASSUME NEW c \in Cands
        PROVE  status'[c] = "approved" <=> batch'[BatchOf[c]].life = "active" /\ Included(c)'
    <3>1. CASE BatchOf[c] = b
      <4>1. /\ status'[c] = IF ch[c] = "exclude" THEN "superseded" ELSE "approved"
            /\ ch[c] # "exclude" <=> ch[c] \in Keys \cup {NoBill}
            /\ batch'[BatchOf[c]].life = "active"
        BY SMTT(30), <3>1, SwitchRows
      <4> QED
        BY Zenon, <4>1 DEF Included
    <3>2. CASE BatchOf[c] # b /\ CandDoc(c) = DocOf[b]
      <4>1. status'[c] # "approved"
        BY SMTT(30), <3>2, SwitchRows
      <4>2. batch'[BatchOf[c]].life # "active"
        BY ZenonT(30), <1>1, <3>2, SwitchRows DEF CandDoc
      <4> QED
        BY Zenon, <4>1, <4>2
    <3>3. CASE BatchOf[c] # b /\ CandDoc(c) # DocOf[b]
      <4>1. status'[c] = status[c] /\ choice'[c] = choice[c]
        BY SMTT(30), <3>3, SwitchRows
      <4>2. batch'[BatchOf[c]].life = "active" <=> batch[BatchOf[c]].life = "active"
        <5>1. BatchOf[c] \in Batches /\ DocOf[BatchOf[c]] # DocOf[b]
          BY Zenon, <3>3 DEF CandDoc
        <5> QED
          BY SMTT(30), <3>3, <5>1, SwitchRows
      <4> QED
        BY Zenon, <4>1, <4>2 DEF AuthorityIsActiveCohort, Included
    <3> QED
      BY Zenon, <3>1, <3>2, <3>3
  <2>3. ASSUME NEW d \in Docs, doc'[d].status = "verified"
        PROVE  \E e \in BatchesOf(d) : batch'[e].life = "active"
    <3>1. CASE d = DocOf[b]
      <4>1. b \in BatchesOf(d) /\ batch'[b].life = "active"
        BY Zenon, <3>1, SwitchRows DEF BatchesOf
      <4> QED
        BY Zenon, <4>1
    <3>2. CASE d # DocOf[b]
      <4>1. PICK e \in BatchesOf(d) : batch[e].life = "active"
        BY Zenon, <1>2, <2>3, <3>2 DEF AuthorityIsActiveCohort
      <4>2. batch'[e].life = "active"
        BY SMTT(30), <3>2, <4>1, SwitchRows DEF BatchesOf
      <4> QED
        BY Zenon, <4>2
    <3> QED
      BY Zenon, <3>1, <3>2
  <2> QED
    BY Zenon, <2>1, <2>2, <2>3 DEF AuthorityIsActiveCohort, BatchesOf
<1>9. ChunksFollowSource'
  <2>1. \A c \in Cands : BatchOf[c] = b /\ status'[c] = "approved" => c \in chunked
    BY SMTT(30), SwitchRows DEF SafeToActivate, CandsOf
  <2>2. \A c \in Cands : BatchOf[c] # b /\ status'[c] = "approved" => status[c] = "approved"
    BY SMTT(30), SwitchRows
  <2> QED
    BY Zenon, <1>1, <1>5, <2>1, <2>2 DEF ChunksFollowSource
<1> QED
  BY Zenon, <1>3, <1>4, <1>6, <1>7, <1>8, <1>9, SwitchedBills

(* activate from a screen. *)
LEMMA ActivateStep ==
    ASSUME ReviewInv, NEW r \in Reviewers, NEW b \in Batches, Activate(r, b)
    PROVE  ReviewInv'
<1> DEFINE ver == batch[b].ver
<1>1. /\ choice \in [Cands -> DecisionValues] /\ ver \in Nat /\ rev' \in [Cands -> Nat]
      /\ choice' = choice /\ chunked' = chunked /\ target' = target
  BY Zenon DEF ReviewInv, RowsTyped, BatchRows, Activate
<1>2. Mutable(b) /\ SafeToActivate(b, choice) /\ Switch(b, choice, ver)
  BY Zenon DEF Activate
<1> HIDE DEF ver
<1> QED
  BY Zenon, <1>1, <1>2, SwitchStep

(* The singleton that is decided and activated at once. *)
LEMMA ApproveSingletonStep ==
    ASSUME ReviewInv, NEW b \in Batches, ApproveSingleton(b)
    PROVE  ReviewInv'
<1>1. PICK pick \in Keys \cup {NoBill} :
        LET ch == [c \in Cands |-> IF c \in CandsOf(b) THEN pick ELSE choice[c]] IN
        /\ SafeToActivate(b, ch)
        /\ choice' = ch
        /\ rev' = [c \in Cands |-> IF c \in CandsOf(b) THEN rev[c] + 1 ELSE rev[c]]
        /\ Switch(b, ch, batch[b].ver + 1)
  BY Zenon DEF ApproveSingleton
<1> DEFINE ch == [c \in Cands |-> IF c \in CandsOf(b) THEN pick ELSE choice[c]]
           ver == batch[b].ver + 1
<1>2. SafeToActivate(b, ch) /\ choice' = ch /\ Switch(b, ch, ver)
  BY Zenon, <1>1
<1>3. /\ ch \in [Cands -> DecisionValues]
      /\ \A c \in Cands : BatchOf[c] # b => ch[c] = choice[c]
  BY Zenon DEF ReviewInv, RowsTyped, DecisionValues, CandsOf
<1>4. ver \in Nat /\ rev' \in [Cands -> Nat]
  BY SMTT(30), <1>1 DEF ReviewInv, RowsTyped, BatchRows
<1>5. Mutable(b) /\ chunked' = chunked /\ target' = target
  BY Zenon DEF ApproveSingleton, clients
<1> HIDE DEF ch, ver
<1> QED
  BY Zenon, <1>2, <1>3, <1>4, <1>5, SwitchStep

(* mark_paid touches the bill of an approved candidate. *)
LEMMA MarkPaidStep ==
    ASSUME ReviewInv, NEW c \in Cands, MarkPaid(c)
    PROVE  ReviewInv'
<1> USE DEF ReviewInv
<1>1. /\ doc' = doc /\ batch' = batch /\ status' = status /\ choice' = choice /\ rev' = rev
      /\ chunked' = chunked /\ inForce' = inForce /\ target' = target
      /\ status[c] = "approved" /\ bill' = [bill EXCEPT ![c] = "paid"]
  BY Zenon DEF MarkPaid, review, clients
<1>2. RowsTyped' /\ JobsFit'
  BY Zenon, <1>1 DEF RowsTyped, JobsFit
<1>3. BatchesAreBound' /\ PendingIsCurrent'
  BY Zenon, <1>1 DEF BatchesAreBound, PendingIsCurrent, OnCurrentSource
<1>4. BillsWereApproved'
  BY Zenon, <1>1 DEF BillsWereApproved, RowsTyped
<1>5. AuthorityIsActiveCohort' /\ BillsInForce'
  BY Zenon, <1>1 DEF AuthorityIsActiveCohort, BillsInForce, Included, IsBill
<1>6. ChunksFollowSource'
  BY Zenon, <1>1 DEF ChunksFollowSource, OnCurrentSource
<1> QED
  BY Zenon, <1>2, <1>3, <1>4, <1>5, <1>6

-----------------------------------------------------------------------------
(* Every step keeps the invariant. *)
LEMMA ReviewStep == ReviewInv /\ [Next]_vars => ReviewInv'
<1> SUFFICES ASSUME ReviewInv, [Next]_vars PROVE ReviewInv'
  BY SMTT(30)
<1>1. ASSUME NEW d \in Docs,
             ClaimJob(d) \/ JobDies(d, 1, 0) \/ JobDies(d, 0, 1) \/ Reprocess(d)
      PROVE  ReviewInv'
  BY Zenon, <1>1, JobSteps
<1>2. ASSUME NEW d \in Docs, AddBatch(d) PROVE ReviewInv'
  BY Zenon, <1>2, AddBatchStep
<1>3. ASSUME NEW d \in Docs, ReplaceSource(d) PROVE ReviewInv'
  BY Zenon, <1>3, ReplaceSourceStep
<1>4. ASSUME NEW i \in Indexers, ReplaceChunks(i) PROVE ReviewInv'
  BY Zenon, <1>4, ReplaceChunksStep
<1>5. ASSUME NEW i \in Indexers, NEW b \in Batches, LoadIndexTarget(i, b) PROVE ReviewInv'
  <2>1. target' \in [Indexers -> Batches \cup {Nothing}]
    BY Zenon, <1>5 DEF LoadIndexTarget, ReviewInv, RowsTyped
  <2> QED
    BY Zenon, <1>5, <2>1, ClientSteps DEF LoadIndexTarget
<1>6. ASSUME NEW r \in Reviewers, NEW b \in Batches, LookAtBatch(r, b) PROVE ReviewInv'
  <2>1. target' \in [Indexers -> Batches \cup {Nothing}]
    BY Zenon, <1>6 DEF LookAtBatch, ReviewInv, RowsTyped
  <2> QED
    BY Zenon, <1>6, <2>1, ClientSteps DEF LookAtBatch
<1>7. ASSUME NEW r \in Reviewers, LookAtCandidates(r) PROVE ReviewInv'
  <2>1. target' \in [Indexers -> Batches \cup {Nothing}]
    BY Zenon, <1>7 DEF LookAtCandidates, ReviewInv, RowsTyped
  <2> QED
    BY Zenon, <1>7, <2>1, ClientSteps DEF LookAtCandidates
<1>8. ASSUME NEW r \in Reviewers, NEW b \in Batches, Decide(r, b) PROVE ReviewInv'
  BY Zenon, <1>8, DecideStep
<1>9. ASSUME NEW r \in Reviewers, NEW b \in Batches, Activate(r, b) PROVE ReviewInv'
  BY SMTT(30), <1>9, ActivateStep
<1>10. ASSUME NEW r \in Reviewers, NEW b \in Batches, RejectAndReprocess(r, b) PROVE ReviewInv'
  <2>1. doc[DocOf[b]].queued + doc[DocOf[b]].claimed + 1 <= MaxJobs
    <3>1. DocOf[b] \in Docs
      BY SMTT(30)
    <3> QED
      BY SMTT(30), <1>10, <3>1 DEF RejectAndReprocess, ReviewInv, RowsTyped, Documents
  <2> QED
    BY Zenon, <1>10, <2>1, RejectedStep DEF RejectAndReprocess
<1>11. ASSUME NEW b \in Batches, RejectSingleton(b) PROVE ReviewInv'
  <2>1. doc[DocOf[b]].queued + doc[DocOf[b]].claimed + 0 <= MaxJobs
    <3>1. DocOf[b] \in Docs
      BY SMTT(30)
    <3> QED
      BY SMTT(30), <3>1 DEF ReviewInv, JobsFit, RowsTyped, Documents
  <2> QED
    BY Zenon, <1>11, <2>1, RejectedStep DEF RejectSingleton, clients
<1>12. ASSUME NEW b \in Batches, ApproveSingleton(b) PROVE ReviewInv'
  BY Zenon, <1>12, ApproveSingletonStep
<1>13. ASSUME NEW c \in Cands, MarkPaid(c) PROVE ReviewInv'
  BY Zenon, <1>13, MarkPaidStep
<1>14. CASE UNCHANGED vars
  <2>1. target' \in [Indexers -> Batches \cup {Nothing}]
    BY Zenon, <1>14 DEF vars, clients, ReviewInv, RowsTyped
  <2> QED
    BY Zenon, <1>14, <2>1, ClientSteps DEF vars
<1> QED
  BY Zenon, <1>1, <1>2, <1>3, <1>4, <1>5, <1>6, <1>7, <1>8, <1>9, <1>10, <1>11, <1>12, <1>13, <1>14
     DEF Next

(* The rows of the review are consistent in every reachable state. *)
THEOREM ReviewInvariant == Spec => []ReviewInv
  BY ReviewInit, ReviewStep, PTL DEF Spec

(* A document's authority is one cohort: at most one active batch, whose
   included candidates are the approved ones, behind every verified document. *)
THEOREM AuthorityHolds == Spec => []AuthorityIsActiveCohort
<1>1. ReviewInv => AuthorityIsActiveCohort
  BY Zenon DEF ReviewInv
<1> QED
  BY <1>1, ReviewInvariant, PTL

(* The bills in force are those of approved candidates, one for each issuer and
   period over all documents. *)
THEOREM BillsHold == Spec => []BillsFollowAuthority
<1>1. ReviewInv => BillsFollowAuthority
  <2> SUFFICES ASSUME ReviewInv, NEW k \in Keys PROVE Cardinality(Owners(k)) <= 1
    BY Zenon DEF ReviewInv, BillsInForce, BillsFollowAuthority
  <2>1. \A c, e \in Owners(k) : c = e
    BY Zenon DEF ReviewInv, BillsInForce, Owners
  <2> QED
    BY Zenon, <2>1, AtMostOne
<1> QED
  BY <1>1, ReviewInvariant, PTL

(* Staged chunks are of the current source, and what is approved there can be
   found, although embeddings are computed outside any lock. *)
THEOREM ChunksHold == Spec => []ChunksFollowSource
<1>1. ReviewInv => ChunksFollowSource
  BY Zenon DEF ReviewInv
<1> QED
  BY <1>1, ReviewInvariant, PTL

-----------------------------------------------------------------------------
(* What a step may do to a batch row: leave it, insert it, write it once or
   twice while it is mutable and on the current source, or retire it. *)
BatchMove(b) ==
    \/ batch'[b] = batch[b]
    \/ batch[b].life = "absent" /\ BatchInsertGuard(batch'[b])
    \/ /\ Mutable(b) /\ OnCurrentSource(b)
       /\ batch'[b].src = batch[b].src
       /\ \/ /\ batch'[b].ver = batch[b].ver + 1
             /\ batch'[b].life \in {"open", "ready", "active", "rejected"}
          \/ /\ batch'[b].ver = batch[b].ver + 2
             /\ batch'[b].life = "active"
    \/ /\ batch[b].life = "active" /\ batch'[b].life = "superseded"
       /\ batch'[b].src = batch[b].src
       /\ batch'[b].ver = batch[b].ver + 1

(* An activation moves its batch and the prior one. *)
LEMMA SwitchMoves ==
    ASSUME ReviewInv, NEW e \in Batches, NEW ch, NEW ver \in {batch[e].ver, batch[e].ver + 1},
           Mutable(e), SafeToActivate(e, ch), Switch(e, ch, ver), NEW b \in Batches
    PROVE  BatchMove(b)
<1>1. batch' = [f \in Batches |->
                   IF f = e THEN [batch[f] EXCEPT !.life = "active", !.ver = ver + 1]
                   ELSE IF f = PriorActive(e)
                   THEN [batch[f] EXCEPT !.life = "superseded", !.ver = @ + 1]
                   ELSE batch[f]]
  BY Zenon DEF Switch, SwitchStatus
<1>2. batch[b] \in BatchRows /\ batch[e] \in BatchRows
  BY Zenon DEF ReviewInv, RowsTyped
<1>3. CASE b = e
  <2>1. batch'[b] = [batch[b] EXCEPT !.life = "active", !.ver = ver + 1]
    BY Zenon, <1>1, <1>3
  <2>2. ver + 1 = batch[b].ver + 1 \/ ver + 1 = batch[b].ver + 2
    BY SMTT(30), <1>2, <1>3 DEF BatchRows
  <2>3. /\ batch'[b].life = "active" /\ batch'[b].src = batch[b].src
        /\ batch'[b].ver = ver + 1
    BY SMTT(30), <1>2, <2>1 DEF BatchRows
  <2>4. OnCurrentSource(b)
    BY SMTT(30), <1>3 DEF SafeToActivate, SourceIsCurrent
  <2> QED
    BY SMTT(30), <1>3, <2>2, <2>3, <2>4 DEF BatchMove
<1>4. CASE b # e /\ b = PriorActive(e)
  <2>1. batch'[b] = [batch[b] EXCEPT !.life = "superseded", !.ver = @ + 1]
    BY Zenon, <1>1, <1>4
  <2>2. /\ batch'[b].life = "superseded" /\ batch'[b].src = batch[b].src
        /\ batch'[b].ver = batch[b].ver + 1
    BY SMTT(30), <1>2, <2>1 DEF BatchRows
  <2>3. batch[b].life = "active"
    BY ZenonT(30), <1>4, PriorIsActive DEF ReviewInv
  <2> QED
    BY SMTT(30), <2>2, <2>3 DEF BatchMove
<1>5. CASE b # e /\ b # PriorActive(e)
  BY Zenon, <1>1, <1>5 DEF BatchMove
<1> QED
  BY SMTT(30), <1>3, <1>4, <1>5

(* A decision is staged for a pending candidate, whose source is current. *)
LEMMA DecideMoves ==
    ASSUME ReviewInv, NEW r \in Reviewers, NEW e \in Batches, Decide(r, e), NEW b \in Batches
    PROVE  BatchMove(b)
<1>1. PICK D \in (SUBSET CandsOf(e)) \ {{}} :
        /\ \A c \in D : status[c] = "pending"
        /\ \E picks \in [D -> UNION {Decisions(c) : c \in D}] : Stage(e, picks)
  BY Zenon DEF Decide
<1>2. PICK life \in {"open", "ready"} : batch' = [batch EXCEPT ![e].ver = @ + 1, ![e].life = life]
  BY Zenon, <1>1 DEF Stage
<1>3. batch \in [Batches -> BatchRows]
  BY Zenon DEF ReviewInv, RowsTyped
<1>4. CASE b = e
  <2>1. PICK c \in D : c \in Cands /\ BatchOf[c] = e /\ status[c] = "pending"
    BY Zenon, <1>1 DEF CandsOf
  <2>2. OnCurrentSource(b)
    BY Zenon, <1>4, <2>1 DEF ReviewInv, PendingIsCurrent
  <2>3. batch'[b] = [batch[b] EXCEPT !.ver = @ + 1, !.life = life]
    BY Zenon, <1>2, <1>3, <1>4
  <2>4. /\ batch'[b].life = life /\ batch'[b].src = batch[b].src
        /\ batch'[b].ver = batch[b].ver + 1
    BY SMTT(30), <1>3, <2>3 DEF BatchRows
  <2> QED
    BY Zenon, <1>4, <2>2, <2>4 DEF BatchMove, Decide
<1>5. CASE b # e
  BY SMTT(30), <1>2, <1>3, <1>5 DEF BatchMove
<1> QED
  BY Zenon, <1>4, <1>5

(* Batch rows move along these lines only. *)
LEMMA BatchMoves ==
    ASSUME ReviewInv, Next, NEW b \in Batches
    PROVE  BatchMove(b)
<1>1. CASE batch' = batch
  BY Zenon, <1>1 DEF BatchMove
<1>2. ASSUME NEW d \in Docs, AddBatch(d) PROVE BatchMove(b)
  <2>1. PICK e \in Batches :
          /\ batch[e].life = "absent"
          /\ batch' = [batch EXCEPT ![e] = [life |-> "open", ver |-> 1, src |-> doc[d].src]]
    BY Zenon, <1>2 DEF AddBatch, BatchesOf
  <2>2. batch \in [Batches -> BatchRows]
    BY Zenon DEF ReviewInv, RowsTyped
  <2> QED
    BY Zenon, <2>1, <2>2 DEF BatchMove, BatchInsertGuard
<1>3. ASSUME NEW e \in Batches, NEW more \in {0, 1}, Rejected(e, more) PROVE BatchMove(b)
  <2>1. batch' = [batch EXCEPT ![e].life = "rejected", ![e].ver = @ + 1]
    BY Zenon, <1>3 DEF Rejected
  <2>2. batch \in [Batches -> BatchRows]
    BY Zenon DEF ReviewInv, RowsTyped
  <2>3. CASE b = e
    <3>1. batch'[b] = [batch[b] EXCEPT !.life = "rejected", !.ver = @ + 1]
      BY Zenon, <2>1, <2>2, <2>3
    <3>2. /\ batch'[b].life = "rejected" /\ batch'[b].src = batch[b].src
          /\ batch'[b].ver = batch[b].ver + 1
      BY SMTT(30), <2>2, <3>1 DEF BatchRows
    <3> QED
      BY Zenon, <1>3, <2>3, <3>2 DEF BatchMove, Rejected, SourceIsCurrent
  <2>4. CASE b # e
    BY Zenon, <2>1, <2>2, <2>4 DEF BatchMove
  <2> QED
    BY Zenon, <2>3, <2>4
<1>4. ASSUME NEW r \in Reviewers, NEW e \in Batches, Activate(r, e) PROVE BatchMove(b)
  BY Zenon, <1>4, SwitchMoves DEF Activate
<1>5. ASSUME NEW e \in Batches, ApproveSingleton(e) PROVE BatchMove(b)
  <2>1. PICK ch : SafeToActivate(e, ch) /\ Switch(e, ch, batch[e].ver + 1)
    BY Zenon, <1>5 DEF ApproveSingleton
  <2> QED
    BY Zenon, <1>5, <2>1, SwitchMoves DEF ApproveSingleton
<1>6. ASSUME NEW r \in Reviewers, NEW e \in Batches, Decide(r, e) PROVE BatchMove(b)
  BY Zenon, <1>6, DecideMoves
<1> QED
  BY ZenonT(30), <1>1, <1>2, <1>3, <1>4, <1>5, <1>6
     DEF Next, ClaimJob, JobDies, ReplaceSource, Reprocess, ReplaceChunks, LoadIndexTarget,
         LookAtBatch, LookAtCandidates, RejectAndReprocess, RejectSingleton, MarkPaid, review

(* A batch whose source was replaced takes no decision, rejection or
   activation; an active one may only be retired. *)
THEOREM StaleBatchesStayInert == Spec => StaleBatchesAreInert
<1> DEFINE Inert(b) == batch[b].life # "absent" /\ ~OnCurrentSource(b) =>
        \/ batch'[b] = batch[b]
        \/ batch[b].life = "active" /\ batch'[b].life = "superseded"
<1>1. ReviewInv /\ [Next]_vars => [\A b \in Batches : Inert(b)]_vars
  BY Zenon, BatchMoves DEF BatchMove
<1> QED
  BY <1>1, ReviewInvariant, PTL DEF Spec, StaleBatchesAreInert

-----------------------------------------------------------------------------
(* A step of another kind leaves the choices of bills in force alone and takes
   no payment back. *)
LEMMA QuietPayments ==
    ASSUME ReviewInv, inForce' = inForce,
           \A c \in inForce : /\ choice'[c] = choice[c]
                              /\ bill[c] = "paid" => bill'[c] = "paid",
           NEW k \in Keys, NEW o \in Owners(k), bill[o] = "paid", NEW n \in Owners(k)'
    PROVE  bill'[n] = "paid"
<1>1. n \in inForce /\ o \in inForce /\ choice[n] = k /\ choice[o] = k
  BY Zenon DEF Owners
<1>2. n = o
  BY Zenon, <1>1 DEF ReviewInv, BillsInForce
<1> QED
  BY Zenon, <1>1, <1>2

(* An activation hands a payment on to the bill that takes over. *)
LEMMA SwitchPayments ==
    ASSUME ReviewInv, NEW b \in Batches, NEW ch \in [Cands -> DecisionValues], NEW ver \in Nat,
           Mutable(b), SafeToActivate(b, ch), Switch(b, ch, ver),
           choice' = ch, \A c \in Cands : BatchOf[c] # b => ch[c] = choice[c],
           NEW k \in Keys, NEW o \in Owners(k), bill[o] = "paid", NEW n \in Owners(k)'
    PROVE  bill'[n] = "paid"
<1> DEFINE billed == {c \in CandsOf(b) : ch[c] \in Keys}
           retired == ApprovedIn(PriorActive(b))
           paid(c) == \E x \in Owners(ch[c]) : bill[x] = "paid"
<1>1. /\ inForce' = (inForce \ retired) \cup billed
      /\ bill' = [c \in Cands |->
                    IF c \in billed THEN IF paid(c) THEN "paid" ELSE "unpaid" ELSE bill[c]]
  BY Zenon DEF Switch, SwitchBills
<1>2. n \in inForce' /\ ch[n] = k
  BY Zenon DEF Owners
<1>3. CASE n \in billed
  BY Zenon, <1>1, <1>2, <1>3 DEF CandsOf
<1>4. CASE n \notin billed
  <2>1. n \in inForce /\ n \in Cands
    BY Zenon, <1>1, <1>2, <1>4 DEF ReviewInv, RowsTyped
  <2>2. BatchOf[n] # b
    BY Zenon, <1>2, <1>4, <2>1 DEF CandsOf
  <2>3. choice[n] = k /\ choice[o] = k /\ o \in inForce
    BY Zenon, <1>2, <2>1, <2>2 DEF Owners
  <2>4. n = o
    BY SMTT(30), <2>1, <2>3 DEF ReviewInv, BillsInForce
  <2> QED
    BY Zenon, <1>1, <1>4, <2>1, <2>4
<1> QED
  BY Zenon, <1>3, <1>4

(* No step takes back the payment of an issuer and period. *)
LEMMA PaymentStep ==
    ASSUME ReviewInv, Next,
           NEW k \in Keys, NEW o \in Owners(k), bill[o] = "paid", NEW n \in Owners(k)'
    PROVE  bill'[n] = "paid"
<1>1. CASE UNCHANGED <<bills, choice>>
  BY Zenon, <1>1, QuietPayments DEF bills
<1>2. ASSUME NEW c \in Cands, MarkPaid(c) PROVE bill'[n] = "paid"
  <2>1. /\ inForce' = inForce /\ choice' = choice /\ inForce \subseteq Cands
        /\ bill \in [Cands -> {"none", "unpaid", "paid"}]
        /\ bill' = [bill EXCEPT ![c] = "paid"]
    BY Zenon, <1>2 DEF MarkPaid, review, ReviewInv, RowsTyped
  <2>2. \A e \in inForce : bill[e] = "paid" => bill'[e] = "paid"
    BY Zenon, <2>1
  <2> QED
    BY Zenon, <2>1, <2>2, QuietPayments
<1>3. ASSUME NEW r \in Reviewers, NEW b \in Batches, Decide(r, b) PROVE bill'[n] = "paid"
  <2>1. PICK D \in SUBSET CandsOf(b) :
          /\ \A c \in D : status[c] = "pending"
          /\ \E picks \in [D -> UNION {Decisions(c) : c \in D}] : Stage(b, picks)
    BY Zenon, <1>3 DEF Decide
  <2>2. PICK picks \in [D -> UNION {Decisions(c) : c \in D}] : Stage(b, picks)
    BY Zenon, <2>1
  <2>3. choice' = [c \in Cands |-> IF c \in D THEN picks[c] ELSE choice[c]]
    BY Zenon, <2>2 DEF Stage
  <2>4. \A c \in inForce : c \in Cands /\ c \notin D
    BY Zenon, <2>1 DEF ReviewInv, BillsInForce
  <2>5. bill' = bill /\ inForce' = inForce /\ \A c \in inForce : choice'[c] = choice[c]
    BY SMTT(30), <1>3, <2>3, <2>4 DEF Decide, bills
  <2> QED
    BY Zenon, <2>5, QuietPayments
<1>4. ASSUME NEW r \in Reviewers, NEW b \in Batches, Activate(r, b) PROVE bill'[n] = "paid"
  <2>1. choice \in [Cands -> DecisionValues] /\ batch[b].ver \in Nat
    BY Zenon DEF ReviewInv, RowsTyped, BatchRows
  <2> QED
    BY Zenon, <1>4, <2>1, SwitchPayments DEF Activate
<1>5. ASSUME NEW b \in Batches, ApproveSingleton(b) PROVE bill'[n] = "paid"
  <2>1. PICK pick \in Keys \cup {NoBill} :
          LET ch == [c \in Cands |-> IF c \in CandsOf(b) THEN pick ELSE choice[c]] IN
          SafeToActivate(b, ch) /\ choice' = ch /\ Switch(b, ch, batch[b].ver + 1)
    BY ZenonT(30), <1>5 DEF ApproveSingleton
  <2> DEFINE ch == [c \in Cands |-> IF c \in CandsOf(b) THEN pick ELSE choice[c]]
             ver == batch[b].ver + 1
  <2>2. SafeToActivate(b, ch) /\ choice' = ch /\ Switch(b, ch, ver) /\ Mutable(b)
    BY Zenon, <1>5, <2>1 DEF ApproveSingleton
  <2>3. /\ ch \in [Cands -> DecisionValues] /\ ver \in Nat
        /\ \A c \in Cands : BatchOf[c] # b => ch[c] = choice[c]
    BY SMTT(30) DEF ReviewInv, RowsTyped, BatchRows, DecisionValues, CandsOf
  <2> HIDE DEF ch, ver
  <2> QED
    BY Zenon, <2>2, <2>3, SwitchPayments
<1> QED
  BY ZenonT(30), <1>1, <1>2, <1>3, <1>4, <1>5
     DEF Next, ClaimJob, JobDies, AddBatch, ReplaceSource, Reprocess, ReplaceChunks,
         LoadIndexTarget, LookAtBatch, LookAtCandidates, RejectAndReprocess, RejectSingleton,
         review

(* A payment outlives the extraction it was recorded on: while an issuer and
   period has a bill in force, a paid one never turns unpaid. *)
THEOREM PaymentsSurvive == Spec => PaymentSurvives
<1> DEFINE Kept == \A k \in Keys : (\E o \in Owners(k) : bill[o] = "paid")
                                      => \A n \in Owners(k)' : bill'[n] = "paid"
<1>1. ReviewInv /\ [Next]_vars => [Kept]_vars
  BY Zenon, PaymentStep
<1> QED
  BY <1>1, ReviewInvariant, PTL DEF Spec, PaymentSurvives

-----------------------------------------------------------------------------
(* A batch that turns active is the one of an activation request. *)
LEMMA ActivationIsRequested ==
    ASSUME ReviewInv, Next, NEW b \in Batches, Mutable(b), batch'[b].life = "active"
    PROVE  (\E r \in Reviewers : Activate(r, b)) \/ ApproveSingleton(b)
<1> batch \in [Batches -> BatchRows]
  BY Zenon DEF ReviewInv, RowsTyped
<1>1. batch' # batch
  BY Zenon DEF Mutable
<1>2. ASSUME NEW d \in Docs, AddBatch(d) PROVE FALSE
  <2>1. PICK e \in Batches :
          batch' = [batch EXCEPT ![e] = [life |-> "open", ver |-> 1, src |-> doc[d].src]]
    BY Zenon, <1>2 DEF AddBatch, BatchesOf
  <2> QED
    BY Zenon, <2>1 DEF Mutable
<1>3. ASSUME NEW e \in Batches, NEW more \in {0, 1}, Rejected(e, more) PROVE FALSE
  <2>1. batch' = [batch EXCEPT ![e].life = "rejected", ![e].ver = @ + 1]
    BY Zenon, <1>3 DEF Rejected
  <2> QED
    BY Zenon, <2>1 DEF Mutable, BatchRows
<1>4. ASSUME NEW r \in Reviewers, NEW e \in Batches, Decide(r, e) PROVE FALSE
  <2>1. PICK life \in {"open", "ready"} :
          batch' = [batch EXCEPT ![e].ver = @ + 1, ![e].life = life]
    BY ZenonT(30), <1>4 DEF Decide, Stage
  <2> QED
    BY Zenon, <2>1 DEF Mutable, BatchRows
<1>5. ASSUME NEW e \in Batches, NEW ch, NEW ver, Switch(e, ch, ver) PROVE e = b
  <2>1. batch' = [f \in Batches |->
                   IF f = e THEN [batch[f] EXCEPT !.life = "active", !.ver = ver + 1]
                   ELSE IF f = PriorActive(e)
                   THEN [batch[f] EXCEPT !.life = "superseded", !.ver = @ + 1]
                   ELSE batch[f]]
    BY Zenon, <1>5 DEF Switch, SwitchStatus
  <2>2. CASE b = PriorActive(e) /\ b # e
    BY ZenonT(30), <2>1, <2>2 DEF BatchRows
  <2>3. CASE b # PriorActive(e) /\ b # e
    BY Zenon, <2>1, <2>3 DEF Mutable
  <2> QED
    BY Zenon, <2>2, <2>3
<1>6. ASSUME NEW r \in Reviewers, NEW e \in Batches, Activate(r, e) PROVE e = b
  <2>1. Switch(e, choice, batch[e].ver)
    BY Zenon, <1>6 DEF Activate
  <2> QED
    BY Zenon, <1>5, <2>1
<1>7. ASSUME NEW e \in Batches, ApproveSingleton(e) PROVE e = b
  BY Zenon, <1>5, <1>7 DEF ApproveSingleton
<1> QED
  BY ZenonT(30), <1>1, <1>2, <1>3, <1>4, <1>6, <1>7
     DEF Next, ClaimJob, JobDies, ReplaceSource, Reprocess, ReplaceChunks, LoadIndexTarget,
         LookAtBatch, LookAtCandidates, RejectAndReprocess, RejectSingleton, MarkPaid, review

(* An activation from a screen does what the screen said. *)
LEMMA ActivateDoesWhatWasShown ==
    ASSUME ReviewInv, NEW r \in Reviewers, NEW b \in Batches, Activate(r, b)
    PROVE  /\ Shows(r, b)
           /\ {c \in Cands : status[c] = "approved" /\ status'[c] = "superseded"}
                 = screen[r].rest.approved
           /\ \A c \in CandsOf(b) :
                LET seen == screen[r].rest.cands[c] IN
                /\ status'[c] = "approved" <=> seen.choice \in Keys \cup {NoBill}
                /\ bill'[c] = IF seen.choice \notin Keys THEN "none"
                              ELSE IF \E o \in Cands : <<o, "paid">> \in seen.replaces
                              THEN "paid" ELSE "unpaid"
<1> DEFINE ver == batch[b].ver
           retired == ApprovedIn(PriorActive(b))
           billed == {c \in CandsOf(b) : choice[c] \in Keys}
           paid(c) == \E o \in Owners(choice[c]) : bill[o] = "paid"
           old(c) == {<<o, bill[o]>> : o \in PriorBills(c, retired)}
           row(c) == [status |-> status[c], rev |-> rev[c], choice |-> choice[c],
                      indexed |-> c \in chunked, replaces |-> old(c)]
           shown == [c \in CandsOf(b) |-> row(c)]
<1>1. /\ choice \in [Cands -> DecisionValues] /\ ver \in Nat
      /\ Mutable(b) /\ SafeToActivate(b, choice) /\ Switch(b, choice, ver)
      /\ screen[r].rest = CandidatePart(b, PriorActive(b))
  BY Zenon DEF ReviewInv, RowsTyped, BatchRows, Activate
<1> HIDE DEF ver
<1>2. retired = {c \in Cands : CandDoc(c) = DocOf[b] /\ status[c] = "approved"}
  BY Zenon, <1>1, RetiredIsAuthority DEF ReviewInv
<1>3. {c \in Cands : status[c] = "approved" /\ status'[c] = "superseded"} = retired
  <2>1. \A c \in Cands : BatchOf[c] = b => status[c] = "pending"
    BY Zenon, <1>1 DEF SafeToActivate, CandsOf
  <2>2. \A c \in Cands : BatchOf[c] # b /\ status[c] = "approved" =>
            (status'[c] = "superseded" <=> CandDoc(c) = DocOf[b])
    BY SMTT(30), <1>1, SwitchRows
  <2> QED
    BY Zenon, <1>2, <2>1, <2>2
<1>4. screen[r].rest.approved = retired /\ screen[r].rest.cands = shown
  <2>1. screen[r].rest = [approved |-> retired, cands |-> shown]
    BY Zenon, <1>1 DEF CandidatePart
  <2> HIDE DEF retired, shown
  <2> QED
    BY SMTT(30), <2>1
<1>5. ASSUME NEW c \in CandsOf(b)
      PROVE  LET seen == screen[r].rest.cands[c] IN
             /\ status'[c] = "approved" <=> seen.choice \in Keys \cup {NoBill}
             /\ bill'[c] = IF seen.choice \notin Keys THEN "none"
                           ELSE IF \E o \in Cands : <<o, "paid">> \in seen.replaces
                           THEN "paid" ELSE "unpaid"
  <2> DEFINE seen == screen[r].rest.cands[c]
  <2>1. seen = row(c)
    <3> HIDE DEF row
    <3> QED
      BY Zenon, <1>4
  <2>2. seen.choice = choice[c] /\ seen.replaces = old(c)
    <3> HIDE DEF old
    <3> QED
      BY SMTT(30), <2>1
  <2>3. c \in Cands /\ BatchOf[c] = b
    BY Zenon DEF CandsOf
  <2>4. status'[c] = "approved" <=> seen.choice \in Keys \cup {NoBill}
    BY SMTT(30), <1>1, <2>2, <2>3, SwitchRows
  <2>5. bill' = [x \in Cands |->
                   IF x \in billed THEN IF paid(x) THEN "paid" ELSE "unpaid" ELSE bill[x]]
    BY Zenon, <1>1 DEF Switch, SwitchBills
  <2>6. CASE choice[c] \notin Keys
    <3>1. bill[c] = "none"
      BY SMTT(30), <1>1, <2>3 DEF SafeToActivate, CandsOf, ReviewInv, BillsWereApproved
    <3> QED
      BY Zenon, <2>2, <2>3, <2>4, <2>5, <2>6, <3>1
  <2>7. CASE choice[c] \in Keys
    <3>1. Owners(choice[c]) \subseteq retired
      BY Zenon, <1>1, <2>7 DEF SafeToActivate
    <3>2. PriorBills(c, retired) = Owners(choice[c]) /\ Owners(choice[c]) \subseteq Cands
      BY Zenon, <2>7, <3>1 DEF PriorBills, IsBill, Owners, ReviewInv, RowsTyped
    <3>3. paid(c) <=> \E o \in Cands : <<o, "paid">> \in seen.replaces
      <4>1. \A o : <<o, "paid">> \in old(c) <=> o \in Owners(choice[c]) /\ bill[o] = "paid"
        <5> HIDE DEF retired
        <5> QED
          BY Zenon, <3>2
      <4> HIDE DEF old
      <4> QED
        BY ZenonT(30), <2>2, <3>2, <4>1
    <3>4. bill'[c] = IF paid(c) THEN "paid" ELSE "unpaid"
      BY Zenon, <2>3, <2>5, <2>7
    <3> QED
      BY Zenon, <2>2, <2>4, <2>7, <3>3, <3>4
  <2> QED
    BY Zenon, <2>6, <2>7
<1> QED
  BY Zenon, <1>3, <1>4, <1>5 DEF Activate

(* An activated cohort is the one a reviewer was shown, although the preview
   reads without locks; the legacy approval serves one candidate only. *)
THEOREM ActivationsWereShown == Spec => ActivationIsWhatWasShown
<1> DEFINE Shown ==
      \A b \in Batches :
        (Cardinality(CandsOf(b)) > 1 /\ Mutable(b) /\ batch'[b].life = "active") =>
            \E r \in Reviewers :
                /\ Shows(r, b)
                /\ {c \in Cands : status[c] = "approved" /\ status'[c] = "superseded"}
                      = screen[r].rest.approved
                /\ \A c \in CandsOf(b) :
                    LET seen == screen[r].rest.cands[c] IN
                    /\ status'[c] = "approved" <=> seen.choice \in Keys \cup {NoBill}
                    /\ bill'[c] = IF seen.choice \notin Keys THEN "none"
                                  ELSE IF \E o \in Cands : <<o, "paid">> \in seen.replaces
                                  THEN "paid" ELSE "unpaid"
<1>1. ReviewInv /\ [Next]_vars => [Shown]_vars
  <2>1. ASSUME NEW b \in Batches, Cardinality(CandsOf(b)) > 1 PROVE ~ApproveSingleton(b)
    <3>1. ApproveSingleton(b) => Cardinality(CandsOf(b)) = 1
      BY Zenon DEF ApproveSingleton
    <3> QED
      BY SMTT(30), <2>1, <3>1
  <2> QED
    BY Zenon, <2>1, ActivationIsRequested, ActivateDoesWhatWasShown
<1> QED
  BY <1>1, ReviewInvariant, PTL DEF Spec, ActivationIsWhatWasShown

-----------------------------------------------------------------------------
(* The moves of a batch row are what its triggers allow. *)
LEMMA MovesPassTriggers ==
    ASSUME ReviewInv, NEW b \in Batches, BatchMove(b)
    PROVE  \/ batch'[b] = batch[b]
           \/ batch[b].life = "absent" /\ BatchInsertGuard(batch'[b])
           \/ batch[b].life # "absent" /\ BatchWritesPass(batch[b], batch'[b])
<1> DEFINE old == batch[b]
           new == batch'[b]
<1>1. old \in BatchRows
  BY Zenon DEF ReviewInv, RowsTyped
<1>2. CASE new.src = old.src /\ new.ver = old.ver + 1 /\ Mutable(b)
           /\ new.life \in {"open", "ready", "active", "rejected"}
  BY Zenon, <1>2 DEF BatchWritesPass, BatchUpdateGuard, LifecycleEdges, Mutable
<1>3. CASE new.src = old.src /\ new.ver = old.ver + 2 /\ Mutable(b) /\ new.life = "active"
  <2> DEFINE mid == [old EXCEPT !.life = old.life, !.ver = @ + 1]
  <2>1. mid.life = old.life /\ mid.ver = old.ver + 1 /\ mid.src = old.src
    BY Zenon, <1>1 DEF BatchRows
  <2>2. new.ver = mid.ver + 1
    BY SMTT(30), <1>1, <1>3, <2>1 DEF BatchRows
  <2>3. BatchUpdateGuard(old, mid)
    BY Zenon, <2>1 DEF BatchUpdateGuard
  <2>4. BatchUpdateGuard(mid, new)
    BY SMTT(30), <1>3, <2>1, <2>2 DEF BatchUpdateGuard, LifecycleEdges, Mutable
  <2>5. old.life \in Lives
    BY Zenon, <1>1 DEF BatchRows
  <2> QED
    BY Zenon, <1>3, <2>3, <2>4, <2>5 DEF BatchWritesPass, Mutable
<1>4. CASE old.life = "active" /\ new.life = "superseded" /\ new.src = old.src
           /\ new.ver = old.ver + 1
  BY SMTT(30), <1>4 DEF BatchWritesPass, BatchUpdateGuard, LifecycleEdges
<1> QED
  BY Zenon, <1>2, <1>3, <1>4 DEF BatchMove

(* Decisions are recorded in order, for pending candidates of mutable batches,
   and only financial ones name a bill. *)
LEMMA DecisionsPassTriggers ==
    ASSUME ReviewInv, Next, NEW c \in Cands
    PROVE  rev'[c] = rev[c] \/ DecisionInsertGuard(c)
<1>1. CASE rev' = rev
  BY Zenon, <1>1
<1>2. ASSUME NEW r \in Reviewers, NEW b \in Batches, Decide(r, b)
      PROVE  rev'[c] = rev[c] \/ DecisionInsertGuard(c)
  <2>1. PICK D \in SUBSET CandsOf(b) :
          /\ \A e \in D : status[e] = "pending"
          /\ \E picks \in [D -> UNION {Decisions(e) : e \in D}] :
                /\ \A e \in D : picks[e] \in Decisions(e)
                /\ Stage(b, picks)
    BY Zenon, <1>2 DEF Decide
  <2>2. PICK picks \in [D -> UNION {Decisions(e) : e \in D}] :
          /\ \A e \in D : picks[e] \in Decisions(e)
          /\ Stage(b, picks)
    BY Zenon, <2>1
  <2>3. /\ choice' = [e \in Cands |-> IF e \in D THEN picks[e] ELSE choice[e]]
        /\ rev' = [e \in Cands |-> IF e \in D THEN rev[e] + 1 ELSE rev[e]]
    BY Zenon, <2>2 DEF Stage
  <2>4. CASE c \in D
    <3>1. BatchOf[c] = b /\ status[c] = "pending" /\ Mutable(b)
      BY Zenon, <1>2, <2>1, <2>4 DEF CandsOf, Decide
    <3>2. c \notin Financial => choice'[c] \notin Keys
      BY Zenon, <2>2, <2>3, <2>4 DEF Decisions
    <3> QED
      BY Zenon, <2>3, <2>4, <3>1, <3>2 DEF DecisionInsertGuard
  <2>5. CASE c \notin D
    BY Zenon, <2>3, <2>5
  <2> QED
    BY Zenon, <2>4, <2>5
<1>3. ASSUME NEW b \in Batches, ApproveSingleton(b)
      PROVE  rev'[c] = rev[c] \/ DecisionInsertGuard(c)
  <2>1. /\ rev' = [e \in Cands |-> IF e \in CandsOf(b) THEN rev[e] + 1 ELSE rev[e]]
        /\ Mutable(b) /\ CandsOf(b) \subseteq Financial
        /\ \A e \in CandsOf(b) : status[e] = "pending"
    BY Zenon, <1>3 DEF ApproveSingleton, SafeToActivate
  <2> QED
    BY SMTT(30), <2>1 DEF CandsOf, DecisionInsertGuard
<1> QED
  BY ZenonT(30), <1>1, <1>2, <1>3
     DEF Next, ClaimJob, JobDies, AddBatch, ReplaceSource, Reprocess, ReplaceChunks,
         LoadIndexTarget, LookAtBatch, LookAtCandidates, Activate, RejectAndReprocess,
         RejectSingleton, MarkPaid, review

(* No transaction of a reviewer, a job or a source replacement is aborted by a
   trigger on batches, decisions or verified records. *)
THEOREM TriggersStaySilent == Spec => TriggersNeverFire
<1> DEFINE Silent ==
      /\ batch' = batch \/ \A b \in Batches :
            \/ batch'[b] = batch[b]
            \/ batch[b].life = "absent" /\ BatchInsertGuard(batch'[b])
            \/ batch[b].life # "absent" /\ BatchWritesPass(batch[b], batch'[b])
      /\ rev' = rev \/ \A c \in Cands : rev'[c] = rev[c] \/ DecisionInsertGuard(c)
      /\ status' = status \/ \A c \in Financial :
            status[c] = "approved" \/ status'[c] # "approved" \/ VerifiedInsertGuard(c)
<1>1. ReviewInv /\ [Next]_vars => [Silent]_vars
  <2> SUFFICES ASSUME ReviewInv, Next PROVE Silent
    BY ZenonT(30)
  <2>1. \A b \in Batches : \/ batch'[b] = batch[b]
                           \/ batch[b].life = "absent" /\ BatchInsertGuard(batch'[b])
                           \/ batch[b].life # "absent" /\ BatchWritesPass(batch[b], batch'[b])
    BY Zenon, BatchMoves, MovesPassTriggers
  <2>2. \A c \in Cands : rev'[c] = rev[c] \/ DecisionInsertGuard(c)
    BY Zenon, DecisionsPassTriggers
  <2>3. \A c \in Financial : status'[c] # "approved" \/ VerifiedInsertGuard(c)
    <3>1. AuthorityIsActiveCohort'
      BY Zenon, ReviewStep DEF ReviewInv
    <3> QED
      BY Zenon, <3>1 DEF AuthorityIsActiveCohort, VerifiedInsertGuard
  <2> QED
    BY ZenonT(30), <2>1, <2>2, <2>3
<1> QED
  BY <1>1, ReviewInvariant, PTL DEF Spec, TriggersNeverFire
=============================================================================
