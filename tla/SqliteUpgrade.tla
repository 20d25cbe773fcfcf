--------------------------- MODULE SqliteUpgrade ---------------------------
(***************************************************************************)
(* What upgrade_sqlite_demo_schema does to the rows of a document when the *)
(* API opens a local SQLite database: derivatives are bound to their       *)
(* original, every original gets an intake, every extraction without a     *)
(* batch gets a singleton batch, and search chunks are bound to the        *)
(* authoritative candidate; or the whole transaction is refused            *)
(* (db/sqlite_schema.py).                                                  *)
(*                                                                         *)
(* A document is a record of its rows.                                     *)
(*   orig    contents of the originals, by version                         *)
(*   deriv   derivative rows: content and source_version, 0 when NULL      *)
(*   ext     extracted_records: source_version (0 when it names no         *)
(*           original), status, whether a verified record promotes it, and *)
(*           the lifecycle of the batch it is bound to, "none" when NULL   *)
(*   failed  versions with a failed or dead process_document job           *)
(*   intake  state of the source_intakes row by version, "none" if missing *)
(*   chunks  chunk rows: version the text is of, and extraction or 0       *)
(* The legacy profile binds an extraction to a batch of its own, so that   *)
(* the batch needs no identity beside the extraction's.                    *)
(***************************************************************************)
EXTENDS Naturals, Sequences

CONSTANT Contents    \* contents that files may have

Statuses == {"pending", "approved", "rejected", "superseded"}
Lifecycles == {"none", "open", "active", "rejected", "superseded"}
IntakeStates == {"none", "queued", "processed", "failed", "stored_unprocessed"}
Rows == [src : Nat, status : Statuses, verified : BOOLEAN, batch : Lifecycles]
Docs ==
    [orig : Seq(Contents), deriv : SUBSET [content : Contents, src : Nat],
     ext : Seq(Rows), failed : SUBSET Nat, intake : Seq(IntakeStates),
     chunks : SUBSET [of : Nat, ext : Nat]]

Versions(d) == 1..Len(d.orig)
Current(d) == Len(d.orig)
Candidates(d) == 1..Len(d.ext)
Having(d, status) == {i \in Candidates(d) : d.ext[i].status = status}
Unbound(d) == {i \in Candidates(d) : d.ext[i].batch = "none"}
Several(S) == \E x, y \in S : x # y

(* Rows that some release of the code has written: a document has an original,
   and a derivative that names its version was made from it; one that names
   none was made from one of the originals. *)
WellFormed(d) ==
    /\ d \in Docs
    /\ d.orig # <<>> /\ Len(d.intake) = Len(d.orig)
    /\ \A f \in d.deriv :
          IF f.src = 0 THEN \E v \in Versions(d) : d.orig[v] = f.content
          ELSE f.src \in Versions(d) /\ d.orig[f.src] = f.content

(* restrict_to_active_verified: the verified records that reports read. *)
Authority(d) ==
    {i \in Having(d, "approved") : d.ext[i].verified /\ d.ext[i].batch \in {"none", "active"}}

(* _upgrade_document_files: a derivative without lineage is bound when the
   document has exactly one original. *)
BindDerivatives(d) ==
    [d EXCEPT !.deriv =
        {IF f.src = 0 /\ Len(d.orig) = 1 THEN [f EXCEPT !.src = 1] ELSE f : f \in d.deriv}]

(* _backfill_source_intakes: INSERT OR IGNORE of one intake per original. *)
BackfilledIntake(d, v) ==
    IF \/ \E i \in Candidates(d) : d.ext[i].src = v
       \/ \E f \in d.deriv : f.src = v
    THEN "processed"
    ELSE IF v \in d.failed THEN "failed" ELSE "stored_unprocessed"

BackfillSourceIntakes(d) ==
    [d EXCEPT !.intake =
        [v \in Versions(d) |-> IF @[v] = "none" THEN BackfilledIntake(d, v) ELSE @[v]]]

(* _backfill_legacy_extraction_batches counts what it cannot decide for the
   owner: two approvals, two reviewable extractions of the current source, an
   approval that no verified record carries. *)
NeedsReconciliation(d) ==
    LET approved == Having(d, "approved") \cap Unbound(d)
        reviewable == {i \in Having(d, "pending") \cap Unbound(d) : d.ext[i].src = Current(d)}
    IN  \/ Several(approved)
        \/ Several(reviewable)
        \/ \E i \in approved : ~d.ext[i].verified

LacksExactSource(d) == \E i \in Unbound(d) : d.ext[i].src \notin Versions(d)

(* Wrong variant: a reviewable extraction is opened whatever its source. *)
LifecycleOfStatus(d, i) ==
    CASE d.ext[i].status = "approved" -> "active"
      [] d.ext[i].status = "rejected" -> "rejected"
      [] d.ext[i].status = "superseded" -> "superseded"
      [] d.ext[i].status = "pending" -> "open"

(* The lifecycle of the singleton batch of an extraction. *)
LifecycleOf(d, i) ==
    CASE d.ext[i].status = "approved" -> "active"
      [] d.ext[i].status = "rejected" -> "rejected"
      [] d.ext[i].status = "superseded" -> "superseded"
      [] d.ext[i].status = "pending" ->
            IF d.ext[i].src = Current(d) THEN "open" ELSE "superseded"

BackfillBatches(d) ==
    [d EXCEPT !.ext =
        [i \in Candidates(d) |->
            IF i \in Unbound(d) THEN [@[i] EXCEPT !.batch = LifecycleOf(d, i)] ELSE @[i]]]

ActiveBatches(d) == {i \in Candidates(d) : d.ext[i].batch = "active"}

(* _bind_legacy_chunks, when the document has one approved candidate in an
   active batch. *)
BindChunks(d) ==
    LET holders == ActiveBatches(d) \cap Having(d, "approved")
    IN  IF holders = {} \/ Several(holders) THEN d
        ELSE [d EXCEPT !.chunks =
                {IF c.ext = 0 THEN [c EXCEPT !.ext = CHOOSE i \in holders : TRUE] ELSE c
                    : c \in d.chunks}]

Upgraded(d) == BindChunks(BackfillBatches(BackfillSourceIntakes(BindDerivatives(d))))

(* _assert_sqlite_schema_matches_models, as far as it counts rows: an intake
   for every original and a batch for every extraction. *)
SchemaMatches(d) ==
    /\ \A v \in Versions(d) : d.intake[v] # "none"
    /\ Unbound(d) = {}

(* The upgrade raises, and its transaction rolls back: the explicit checks,
   the index that admits one active batch in a document, or the assertion at
   the end. *)
Refuses(d) ==
    \/ NeedsReconciliation(d)
    \/ LacksExactSource(d)
    \/ Several(ActiveBatches(BackfillBatches(d)))
    \/ ~SchemaMatches(Upgraded(d))

(* The file contents that the rows of a document refer to. *)
Referenced(d) ==
    {<<"originals", d.orig[v]>> : v \in Versions(d)}
        \cup {<<"derivatives", f.content>> : f \in d.deriv}

(* What an upgrade owes to the owner of the rows. *)
KeptByUpgrade(old, new) ==
    LET opened == {i \in Unbound(old) : new.ext[i].batch = "open"}
    IN  /\ Authority(new) = Authority(old)
        /\ ~Several(opened)
        /\ \A i \in opened : new.ext[i].src = Current(new)
        /\ \A f \in new.deriv : f.src = 0 \/ new.orig[f.src] = f.content
=============================================================================
