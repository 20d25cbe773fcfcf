-------------------------- MODULE LocalDataProofs --------------------------
(***************************************************************************)
(* The startup upgrade keeps the owner's data whatever the database holds: *)
(* first for the operators of SqliteUpgrade, on any well-formed document,  *)
(* then for every behaviour of LocalData, where the rows come from uploads,*)
(* reviews, kills and restored backups.                                    *)
(***************************************************************************)
EXTENDS LocalData, SequenceFacts, TLAPS

-----------------------------------------------------------------------------
(* The rows, files, processes and tools, by type. *)
Roles == {"api", "worker"}
Owners == {"user", "launcher"}
SnapshotSteps == {"db", "list", "copy", "manifest"}
MoveSteps == {"move_db", "move_store", "install_db", "install_store", "undo_db", "undo_store"}
Writes == [step : {"none", "published", "committed"}, content : Contents \cup {0}]
MaybeDb == Databases \cup {Gone}
MaybeStore == Stores \cup {Gone}
Pairs == [db : MaybeDb, store : MaybeStore]
ToolStates == [step : {"idle", "drop"} \cup SnapshotSteps \cup MoveSteps,
               db : MaybeDb, store : MaybeStore, listed : SUBSET Paths]
Restores == [outcome : {"none", "running", "killed", "failed", "done"},
             old : Pairs, new : Pairs, run : 0..MaxRestores]

DiskTyped == db \in MaybeDb /\ store \in MaybeStore
WritesTyped == fly \in [Roles -> Writes]
ToolsTyped == tool \in [Owners -> ToolStates]
CopiesTyped ==
    /\ backups \subseteq Pairs /\ rollbacks \subseteq Pairs
    /\ aside \in [1..MaxRestores -> Pairs] /\ last \in Restores
    /\ may \in [Faults \cup Acts -> Nat] /\ last.run + may["restore"] <= MaxRestores
DataTyped == DiskTyped /\ WritesTyped /\ ToolsTyped /\ CopiesTyped

(* Who may be at work together. *)
Running == app # "down" \/ worker
RolesInv ==
    /\ worker \in BOOLEAN
    /\ ~Serving => fly["api"] = NoWrite
    /\ ~worker => fly["worker"] = NoWrite
    /\ worker => app \in {"up", "down"}
    /\ Running => ~Restoring /\ last.outcome = "none" /\ db # Gone /\ store # Gone
    /\ tool["user"].step \in SnapshotSteps => db # Gone /\ store # Gone
    /\ tool["launcher"].step \in {"idle"} \cup SnapshotSteps
    /\ tool["launcher"].step # "idle" => app = "preparing"

(* The live data is whole whenever both parts are in place, and what is being
   published is already in the store. *)
DiskInv ==
    /\ db # Gone /\ store # Gone => Whole(db, store)
    /\ fly["api"].step = "published" => <<"originals", fly["api"].content>> \in store.files
    /\ fly["worker"].step = "published" =>
          /\ <<"derivatives", fly["worker"].content>> \in store.files
          /\ fly["worker"].content = db.doc.orig[Current(db.doc)]

(* A snapshot under way: the database it has copied refers to nothing that the
   live one does not refer to, and its files are listed and copied. *)
SnapshotInv ==
    \A p \in Owners :
        LET t == tool[p] IN
        /\ t.step \in {"list", "copy", "manifest"} =>
              t.db # Gone /\ Referenced(t.db.doc) \subseteq Referenced(db.doc)
        /\ t.step = "copy" => Referenced(t.db.doc) \subseteq t.listed
        /\ t.step = "manifest" => Whole(t.db, t.store)

(* Where a restore has put the old parts, at each of its steps. *)
Held(old, live, moved) == <<live, moved>> \in {<<old, Gone>>, <<Gone, old>>}
RestoreInv ==
    LET step == tool["user"].step
        old == last.old
        moved == aside[Run]
    IN
    /\ \A n \in 1..MaxRestores : n > Run => aside[n] = NothingAside
    /\ last.outcome # "none" => Run \in 1..MaxRestores
    /\ (last.outcome = "running") <=> (step \in MoveSteps)
    /\ last.outcome = "running" =>
          /\ tool["user"].db = last.new.db /\ tool["user"].store = last.new.store
          /\ Whole(last.new.db, last.new.store)
          /\ old.db # Gone /\ old.store # Gone => Whole(old.db, old.store)
    /\ step = "move_db" => db = old.db /\ store = old.store /\ moved = NothingAside
    /\ step = "move_store" =>
          db = Gone /\ store = old.store /\ moved.db = old.db /\ moved.store = Gone
    /\ step = "install_db" => db = Gone /\ store = Gone /\ moved = old
    /\ step = "install_store" => db = last.new.db /\ store = Gone /\ moved = old
    /\ step = "drop" => last.outcome = "done"
    /\ step = "undo_db" => Held(old.db, db, moved.db) /\ Held(old.store, store, moved.store)
    /\ step = "undo_store" =>
          db = old.db /\ moved.db = Gone /\ Held(old.store, store, moved.store)
    /\ last.outcome = "killed" => old.db \in {db, moved.db} /\ old.store \in {store, moved.store}
    /\ last.outcome = "failed" => db = old.db /\ store = old.store
    /\ last.outcome = "done" => db = last.new.db /\ store = last.new.store

(* The schema is changed behind a rollback snapshot, or was current before. *)
RollbackInv ==
    /\ recorded[2] \in {"none", "current"}
    /\ app \in {"starting", "migrating"} =>
          db.schema = "current" \/ \E b \in rollbacks : b.db.doc = db.doc
    /\ app \in {"reconciling", "ready", "up"} => db.schema = "current"

DataInv ==
    /\ DataTyped /\ RolesInv /\ DiskInv /\ SnapshotInv /\ BackupIsComplete
    /\ RestoreInv /\ RollbackInv

-----------------------------------------------------------------------------
(* The derivatives are bound to the version they were made from. *)
LEMMA BindDerivativesKeeps ==
    ASSUME NEW d, WellFormed(d)
    PROVE  /\ WellFormed(BindDerivatives(d))
           /\ BindDerivatives(d).orig = d.orig /\ BindDerivatives(d).ext = d.ext
<1> DEFINE D == {IF f.src = 0 /\ Len(d.orig) = 1 THEN [f EXCEPT !.src = 1] ELSE f : f \in d.deriv}
<1>1. D \in SUBSET [content : Contents, src : Nat]
  BY SMTT(30) DEF WellFormed, Docs
<1>2. \A f \in D : IF f.src = 0 THEN \E v \in 1..Len(d.orig) : d.orig[v] = f.content
                   ELSE f.src \in 1..Len(d.orig) /\ d.orig[f.src] = f.content
  <2> SUFFICES ASSUME NEW g \in d.deriv
               PROVE  LET f == IF g.src = 0 /\ Len(d.orig) = 1 THEN [g EXCEPT !.src = 1] ELSE g
                      IN  IF f.src = 0 THEN \E v \in 1..Len(d.orig) : d.orig[v] = f.content
                          ELSE f.src \in 1..Len(d.orig) /\ d.orig[f.src] = f.content
    BY Zenon
  <2>1. g \in [content : Contents, src : Nat]
    BY Zenon DEF WellFormed, Docs
  <2> QED
    BY SMTT(30), <2>1 DEF WellFormed, Versions
<1>3. BindDerivatives(d) = [d EXCEPT !.deriv = D]
  BY Zenon DEF BindDerivatives
<1> HIDE DEF D
<1> QED
  BY Zenon, <1>1, <1>2, <1>3 DEF WellFormed, Docs, Versions

(* Every original gets an intake and nothing else changes. *)
LEMMA BackfillIntakesKeeps ==
    ASSUME NEW d, WellFormed(d)
    PROVE  /\ WellFormed(BackfillSourceIntakes(d))
           /\ BackfillSourceIntakes(d).orig = d.orig /\ BackfillSourceIntakes(d).ext = d.ext
           /\ BackfillSourceIntakes(d).deriv = d.deriv
<1> DEFINE I == [v \in 1..Len(d.orig) |->
                    IF d.intake[v] = "none" THEN BackfilledIntake(d, v) ELSE d.intake[v]]
<1>1. \A v \in 1..Len(d.orig) : d.intake[v] \in IntakeStates
  BY SMTT(30) DEF WellFormed, Docs
<1>2. \A v \in 1..Len(d.orig) : BackfilledIntake(d, v) \in IntakeStates
  BY Zenon DEF BackfilledIntake, IntakeStates
<1>3. I \in Seq(IntakeStates) /\ Len(I) = Len(d.orig)
  <2>1. Len(d.orig) \in Nat
    BY SMTT(30) DEF WellFormed, Docs
  <2>2. I \in [1..Len(d.orig) -> IntakeStates]
    BY Zenon, <1>1, <1>2
  <2> HIDE DEF I
  <2> QED
    BY Zenon, <2>1, <2>2, FunctionIsSequence
<1>4. BackfillSourceIntakes(d) = [d EXCEPT !.intake = I]
  BY Zenon DEF BackfillSourceIntakes, Versions, WellFormed, Docs
<1> HIDE DEF I
<1> QED
  BY Zenon, <1>3, <1>4 DEF WellFormed, Docs, Versions

(* Every extraction without a batch gets one of the lifecycle its status and
   source call for. *)
LEMMA BackfillBatchesKeeps ==
    ASSUME NEW d, WellFormed(d)
    PROVE  /\ WellFormed(BackfillBatches(d))
           /\ BackfillBatches(d).orig = d.orig /\ BackfillBatches(d).deriv = d.deriv
           /\ Candidates(BackfillBatches(d)) = Candidates(d)
           /\ \A i \in Candidates(d) :
                 BackfillBatches(d).ext[i] =
                    IF i \in Unbound(d) THEN [d.ext[i] EXCEPT !.batch = LifecycleOf(d, i)]
                    ELSE d.ext[i]
<1> DEFINE E == [i \in 1..Len(d.ext) |->
                    IF i \in Unbound(d) THEN [d.ext[i] EXCEPT !.batch = LifecycleOf(d, i)]
                    ELSE d.ext[i]]
<1>1. Len(d.ext) \in Nat /\ \A i \in 1..Len(d.ext) : d.ext[i] \in Rows
  BY SMTT(30) DEF WellFormed, Docs
<1>2. \A i \in 1..Len(d.ext) : LifecycleOf(d, i) \in Lifecycles
  BY Zenon, <1>1 DEF LifecycleOf, Lifecycles, Rows, Statuses
<1>3. E \in Seq(Rows) /\ Len(E) = Len(d.ext)
  <2>1. E \in [1..Len(d.ext) -> Rows]
    BY Zenon, <1>1, <1>2 DEF Rows
  <2> HIDE DEF E
  <2> QED
    BY Zenon, <1>1, <2>1, FunctionIsSequence
<1>4. BackfillBatches(d) = [d EXCEPT !.ext = E]
  BY Zenon DEF BackfillBatches, Candidates, WellFormed, Docs
<1>5. \A i \in 1..Len(d.ext) :
         E[i] = IF i \in Unbound(d) THEN [d.ext[i] EXCEPT !.batch = LifecycleOf(d, i)]
                ELSE d.ext[i]
  BY SMTT(30)
<1> HIDE DEF E
<1>6. /\ BackfillBatches(d).ext = E /\ BackfillBatches(d) \in Docs
      /\ BackfillBatches(d).orig = d.orig /\ BackfillBatches(d).deriv = d.deriv
      /\ BackfillBatches(d).intake = d.intake
  BY Zenon, <1>3, <1>4 DEF WellFormed, Docs
<1> QED
  BY SMTT(30), <1>3, <1>5, <1>6 DEF WellFormed, Versions, Candidates

(* Chunks without a candidate get the authoritative one. *)
LEMMA BindChunksKeeps ==
    ASSUME NEW d, WellFormed(d)
    PROVE  /\ WellFormed(BindChunks(d))
           /\ BindChunks(d).orig = d.orig /\ BindChunks(d).deriv = d.deriv
           /\ BindChunks(d).ext = d.ext
<1> DEFINE holders == ActiveBatches(d) \cap Having(d, "approved")
           h == CHOOSE i \in holders : TRUE
           C == {IF c.ext = 0 THEN [c EXCEPT !.ext = h] ELSE c : c \in d.chunks}
<1>1. CASE holders = {} \/ Several(holders)
  BY Zenon, <1>1 DEF BindChunks
<1>2. CASE ~(holders = {} \/ Several(holders))
  <2>1. holders # {}
    BY Zenon, <1>2
  <2>2. h \in Nat
    BY SMTT(30), <2>1 DEF ActiveBatches, Candidates
  <2>3. BindChunks(d) = [d EXCEPT !.chunks = C]
    BY Zenon, <1>2 DEF BindChunks
  <2> HIDE DEF h
  <2>4. C \in SUBSET [of : Nat, ext : Nat]
    BY SMTT(30), <2>2 DEF WellFormed, Docs
  <2> HIDE DEF C
  <2> QED
    BY Zenon, <2>3, <2>4 DEF WellFormed, Docs, Versions
<1> QED
  BY Zenon, <1>1, <1>2

(* The rows after all four passes, in terms of the rows before them. *)
LEMMA UpgradedRows ==
    ASSUME NEW d, WellFormed(d)
    PROVE  /\ WellFormed(Upgraded(d))
           /\ Upgraded(d).orig = d.orig /\ Upgraded(d).deriv = BindDerivatives(d).deriv
           /\ Candidates(Upgraded(d)) = Candidates(d)
           /\ \A i \in Candidates(d) :
                 Upgraded(d).ext[i] =
                    IF i \in Unbound(d) THEN [d.ext[i] EXCEPT !.batch = LifecycleOf(d, i)]
                    ELSE d.ext[i]
<1> DEFINE b == BackfillSourceIntakes(BindDerivatives(d))
           c == BackfillBatches(b)
<1>1. WellFormed(b) /\ b.orig = d.orig /\ b.ext = d.ext /\ b.deriv = BindDerivatives(d).deriv
  BY Zenon, BindDerivativesKeeps, BackfillIntakesKeeps
<1>2. Upgraded(d) = BindChunks(c)
  BY Zenon DEF Upgraded
<1> HIDE DEF b
<1>3. /\ WellFormed(c) /\ c.orig = b.orig /\ c.deriv = b.deriv
      /\ Candidates(c) = Candidates(b)
      /\ \A i \in Candidates(b) :
            c.ext[i] = IF i \in Unbound(b) THEN [b.ext[i] EXCEPT !.batch = LifecycleOf(b, i)]
                       ELSE b.ext[i]
  BY Zenon, <1>1, BackfillBatchesKeeps
<1>4. /\ Candidates(b) = Candidates(d) /\ Unbound(b) = Unbound(d)
      /\ \A i \in Candidates(d) : LifecycleOf(b, i) = LifecycleOf(d, i)
  BY Zenon, <1>1 DEF Candidates, Unbound, LifecycleOf, Current
<1> HIDE DEF c
<1>5. /\ WellFormed(BindChunks(c)) /\ BindChunks(c).orig = c.orig
      /\ BindChunks(c).ext = c.ext /\ BindChunks(c).deriv = c.deriv
  BY Zenon, <1>3, BindChunksKeeps
<1>6. Candidates(BindChunks(c)) = Candidates(c)
  BY Zenon, <1>5 DEF Candidates
<1> QED
  BY Zenon, <1>1, <1>2, <1>3, <1>4, <1>5, <1>6

(* An upgrade that is not refused keeps what reports show, opens at most one
   review and only for the current source, and binds derivatives to the version
   they were made from: for rows of any number and any shape
   (upgrade_sqlite_demo_schema). *)
THEOREM UpgradeIsSafe ==
    ASSUME NEW d, WellFormed(d), ~Refuses(d)
    PROVE  KeptByUpgrade(d, Upgraded(d))
<1> DEFINE u == Upgraded(d)
           opened == {i \in Unbound(d) : u.ext[i].batch = "open"}
<1>1. /\ WellFormed(u) /\ u.orig = d.orig /\ Candidates(u) = Candidates(d)
      /\ \A i \in Candidates(d) :
            u.ext[i] = IF i \in Unbound(d) THEN [d.ext[i] EXCEPT !.batch = LifecycleOf(d, i)]
                       ELSE d.ext[i]
  BY Zenon, UpgradedRows
<1> HIDE DEF u
<1>2. \A i \in Candidates(d) : d.ext[i] \in Rows
  BY SMTT(30) DEF WellFormed, Docs, Candidates
<1>3. \A i \in Unbound(d) : i \in Candidates(d) /\ d.ext[i].batch = "none"
  BY Zenon DEF Unbound
<1>4. ASSUME NEW i \in Candidates(d)
      PROVE  /\ u.ext[i].status = d.ext[i].status /\ u.ext[i].verified = d.ext[i].verified
             /\ u.ext[i].src = d.ext[i].src
             /\ u.ext[i].batch = IF i \in Unbound(d) THEN LifecycleOf(d, i) ELSE d.ext[i].batch
  BY Zenon, <1>1, <1>2 DEF Rows
<1>5. Authority(u) = Authority(d)
  <2>1. ASSUME NEW i \in Candidates(d), d.ext[i].status = "approved"
        PROVE  u.ext[i].batch \in {"none", "active"} <=> d.ext[i].batch \in {"none", "active"}
    BY Zenon, <1>3, <1>4, <2>1 DEF LifecycleOf, Unbound
  <2> QED
    BY SMTT(30), <1>1, <1>4, <2>1 DEF Authority, Having
<1>6. opened = {i \in Having(d, "pending") \cap Unbound(d) : d.ext[i].src = Current(d)}
  <2>1. ASSUME NEW i \in Unbound(d)
        PROVE  LifecycleOf(d, i) = "open"
                   <=> d.ext[i].status = "pending" /\ d.ext[i].src = Current(d)
    BY Zenon, <1>2, <1>3, <2>1 DEF LifecycleOf, Rows, Statuses
  <2> QED
    BY SMTT(30), <1>3, <1>4, <2>1 DEF Having
<1>7. ~Several(opened)
  BY Zenon, <1>6 DEF Refuses, NeedsReconciliation
<1>8. \A i \in opened : u.ext[i].src = Current(u)
  BY Zenon, <1>1, <1>3, <1>4, <1>6 DEF Current
<1>9. \A f \in u.deriv : f.src = 0 \/ u.orig[f.src] = f.content
  BY Zenon, <1>1 DEF WellFormed
<1> QED
  BY Zenon, <1>5, <1>7, <1>8, <1>9 DEF KeptByUpgrade, u

-----------------------------------------------------------------------------
(* What the operations do to the rows of a well-formed document, as far as
   its files are concerned. *)

(* The upgrade refers to the files that were referred to before. *)
LEMMA UpgradeKeepsFiles ==
    ASSUME NEW d, WellFormed(d)
    PROVE  Referenced(Upgraded(d)) = Referenced(d)
<1>1. /\ Upgraded(d).orig = d.orig /\ Upgraded(d).deriv = BindDerivatives(d).deriv
  BY Zenon, UpgradedRows
<1> DEFINE Bound(f) == IF f.src = 0 /\ Len(d.orig) = 1 THEN [f EXCEPT !.src = 1] ELSE f
<1>2. BindDerivatives(d).deriv = {Bound(f) : f \in d.deriv}
  BY Zenon DEF BindDerivatives, WellFormed, Docs
<1>3. \A f \in d.deriv : Bound(f).content = f.content
  BY Zenon DEF WellFormed, Docs
<1> HIDE DEF Bound
<1>4. {<<"derivatives", f.content>> : f \in {Bound(g) : g \in d.deriv}}
        = {<<"derivatives", f.content>> : f \in d.deriv}
  BY Zenon, <1>3
<1> QED
  BY Zenon, <1>1, <1>2, <1>4 DEF Referenced, Versions

(* Rows other than originals and derivatives refer to no file. *)
LEMMA SameFiles ==
    ASSUME NEW d, WellFormed(d), NEW e \in Docs,
           e.orig = d.orig, e.deriv = d.deriv, Len(e.intake) = Len(d.intake)
    PROVE  WellFormed(e) /\ Referenced(e) = Referenced(d) /\ Current(e) = Current(d)
  BY Zenon DEF WellFormed, Referenced, Versions, Current

(* Superseding the pending extractions keeps the document's files and intakes. *)
LEMMA SupersedeKeeps ==
    ASSUME NEW d, WellFormed(d)
    PROVE  /\ SupersedePending(d) \in Docs
           /\ SupersedePending(d).orig = d.orig /\ SupersedePending(d).deriv = d.deriv
           /\ SupersedePending(d).intake = d.intake
<1> DEFINE E == [i \in 1..Len(d.ext) |->
                    IF d.ext[i].status = "pending" THEN [d.ext[i] EXCEPT !.status = "superseded"]
                    ELSE d.ext[i]]
<1>1. Len(d.ext) \in Nat /\ \A i \in 1..Len(d.ext) : d.ext[i] \in Rows
  BY SMTT(30) DEF WellFormed, Docs
<1>2. E \in [1..Len(d.ext) -> Rows]
  BY Zenon, <1>1 DEF Rows, Statuses
<1>3. SupersedePending(d) = [d EXCEPT !.ext = E]
  BY Zenon DEF SupersedePending, Candidates, WellFormed, Docs
<1> HIDE DEF E
<1>4. E \in Seq(Rows)
  BY Zenon, <1>1, <1>2, FunctionIsSequence
<1> QED
  BY Zenon, <1>3, <1>4 DEF WellFormed, Docs

(* Promoting an extraction keeps the document's files and intakes. *)
LEMMA PromoteKeeps ==
    ASSUME NEW d, WellFormed(d), NEW i, NEW bound \in BOOLEAN
    PROVE  /\ Promoted(d, i, bound) \in Docs
           /\ Promoted(d, i, bound).orig = d.orig /\ Promoted(d, i, bound).deriv = d.deriv
           /\ Promoted(d, i, bound).intake = d.intake
<1> DEFINE Row(j) ==
        IF j = i THEN [d.ext[j] EXCEPT !.status = "approved", !.verified = TRUE,
                                       !.batch = IF bound THEN "active" ELSE @]
        ELSE [d.ext[j] EXCEPT !.status = IF @ = "approved" THEN "superseded" ELSE @,
                              !.batch = IF bound /\ @ = "active" THEN "superseded" ELSE @]
    E == [j \in 1..Len(d.ext) |-> Row(j)]
<1>1. Len(d.ext) \in Nat /\ \A j \in 1..Len(d.ext) : d.ext[j] \in Rows
  BY SMTT(30) DEF WellFormed, Docs
<1>2. ASSUME NEW j \in 1..Len(d.ext) PROVE Row(j) \in Rows
  BY Zenon, <1>1 DEF Rows, Statuses, Lifecycles
<1>3. Promoted(d, i, bound) = [d EXCEPT !.ext = E]
  BY Zenon DEF Promoted, Candidates
<1> HIDE DEF Row
<1>4. E \in [1..Len(d.ext) -> Rows]
  BY Zenon, <1>2
<1> HIDE DEF E
<1>5. E \in Seq(Rows)
  BY Zenon, <1>1, <1>4, FunctionIsSequence
<1> QED
  BY Zenon, <1>3, <1>5 DEF WellFormed, Docs

(* append_raw_source adds one original. *)
Appended(d, c) ==
    [SupersedePending(d) EXCEPT !.orig = Append(@, c), !.intake = Append(@, "queued"),
                                !.chunks = {}]

(* Appending a version keeps a document well formed and refers to one more original. *)
LEMMA AppendedKeeps ==
    ASSUME NEW d, WellFormed(d), NEW c \in Contents
    PROVE  /\ WellFormed(Appended(d, c)) /\ Referenced(d) \subseteq Referenced(Appended(d, c))
           /\ Referenced(Appended(d, c)) \subseteq Referenced(d) \cup {<<"originals", c>>}
<1> DEFINE s == SupersedePending(d)
           e == Appended(d, c)
<1>1. s \in Docs /\ s.orig = d.orig /\ s.deriv = d.deriv /\ s.intake = d.intake
  BY Zenon, SupersedeKeeps
<1> HIDE DEF s
<1>2. /\ d.orig \in Seq(Contents) /\ d.intake \in Seq(IntakeStates) /\ d.orig # <<>>
      /\ Len(d.intake) = Len(d.orig) /\ Len(d.orig) \in Nat
  BY SMTT(30) DEF WellFormed, Docs
<1>3. /\ Append(d.orig, c) \in Seq(Contents) /\ Len(Append(d.orig, c)) = Len(d.orig) + 1
      /\ \A v \in 1..Len(d.orig) : Append(d.orig, c)[v] = d.orig[v]
      /\ Append(d.orig, c)[Len(d.orig) + 1] = c /\ Append(d.orig, c) # <<>>
  BY SMTT(30), <1>2, Appending
<1>4. /\ Append(d.intake, "queued") \in Seq(IntakeStates)
      /\ Len(Append(d.intake, "queued")) = Len(d.orig) + 1
  BY SMTT(30), <1>2, Appending DEF IntakeStates
<1>5. /\ e \in Docs /\ e.orig = Append(d.orig, c) /\ e.deriv = d.deriv
      /\ e.intake = Append(d.intake, "queued")
  BY Zenon, <1>1, <1>3, <1>4 DEF Docs, s, Appended
<1> HIDE DEF e
<1>6. Versions(d) = 1..Len(d.orig) /\ Versions(e) = 1..(Len(d.orig) + 1)
  BY Zenon, <1>3, <1>5 DEF Versions
<1>7. \A v \in Versions(d) : v \in Versions(e) /\ e.orig[v] = d.orig[v]
  BY SMTT(30), <1>2, <1>3, <1>5, <1>6
<1>8. \A v \in Versions(e) : v \in Versions(d) \/ e.orig[v] = c
  BY SMTT(30), <1>2, <1>3, <1>5, <1>6
<1>9. ASSUME NEW f \in e.deriv
      PROVE  IF f.src = 0 THEN \E v \in Versions(e) : e.orig[v] = f.content
             ELSE f.src \in Versions(e) /\ e.orig[f.src] = f.content
  <2>1. IF f.src = 0 THEN \E v \in Versions(d) : d.orig[v] = f.content
        ELSE f.src \in Versions(d) /\ d.orig[f.src] = f.content
    BY Zenon, <1>5, <1>9 DEF WellFormed
  <2> QED
    BY Zenon, <2>1, <1>7
<1>10. WellFormed(e)
  BY Zenon, <1>3, <1>4, <1>5, <1>9 DEF WellFormed
<1>11. Referenced(d) \subseteq Referenced(e)
  BY Zenon, <1>5, <1>7 DEF Referenced
<1>12. Referenced(e) \subseteq Referenced(d) \cup {<<"originals", c>>}
  BY Zenon, <1>5, <1>7, <1>8 DEF Referenced
<1> QED
  BY Zenon, <1>10, <1>11, <1>12 DEF e

(* process_document adds a derivative of the current original. *)
LEMMA ExtractedKeeps ==
    ASSUME NEW d, WellFormed(d), NEW e,
           LET v == Current(d)
               s == SupersedePending(d)
               row == [src |-> v, status |-> "pending", verified |-> FALSE, batch |-> "none"]
           IN  e = [s EXCEPT !.deriv = @ \cup {[content |-> d.orig[v], src |-> v]},
                             !.ext = Append(@, row), !.intake[v] = "processed"]
    PROVE  /\ WellFormed(e) /\ Referenced(d) \subseteq Referenced(e)
           /\ Referenced(e) \subseteq Referenced(d) \cup {<<"derivatives", d.orig[Current(d)]>>}
<1> DEFINE s == SupersedePending(d)
           v == Current(d)
           f == [content |-> d.orig[v], src |-> v]
           row == [src |-> v, status |-> "pending", verified |-> FALSE, batch |-> "none"]
<1>1. s \in Docs /\ s.orig = d.orig /\ s.deriv = d.deriv /\ s.intake = d.intake
  BY Zenon, SupersedeKeeps
<1>2. e = [s EXCEPT !.deriv = s.deriv \cup {f}, !.ext = Append(s.ext, row), !.intake[v] = "processed"]
  BY SMTT(30)
<1> HIDE DEF s
<1>3. /\ d.orig \in Seq(Contents) /\ d.intake \in Seq(IntakeStates) /\ d.orig # <<>>
      /\ Len(d.intake) = Len(d.orig) /\ Len(d.orig) \in Nat
  BY SMTT(30) DEF WellFormed, Docs
<1>4. v \in 1..Len(d.orig) /\ v # 0 /\ d.orig[v] \in Contents
  BY SMTT(30), <1>3, NonEmptyHasLast DEF Current
<1> HIDE DEF v
<1>5. row \in Rows /\ f \in [content : Contents, src : Nat]
  BY SMTT(30), <1>3, <1>4 DEF Rows, Statuses, Lifecycles
<1>6. f.src = v /\ f.content = d.orig[v]
  BY SMTT(30)
<1> HIDE DEF row, f
<1> DEFINE I == [d.intake EXCEPT ![v] = "processed"]
<1>7. I \in Seq(IntakeStates) /\ Len(I) = Len(d.orig)
  <2>1. "processed" \in IntakeStates
    BY Zenon DEF IntakeStates
  <2> QED
    BY SMTT(30), <1>3, <1>4, <2>1, Replacing
<1>8. e = [s EXCEPT !.deriv = s.deriv \cup {f}, !.ext = Append(s.ext, row), !.intake = I]
  BY Zenon, <1>1, <1>2 DEF Docs
<1> HIDE DEF I
<1>9. /\ Append(s.ext, row) \in Seq(Rows)
      /\ s.deriv \cup {f} \in SUBSET [content : Contents, src : Nat]
  BY SMTT(30), <1>1, <1>5 DEF Docs
<1>10. /\ e \in Docs /\ e.orig = d.orig /\ e.deriv = d.deriv \cup {f} /\ e.intake = I
  <2> DEFINE D == s.deriv \cup {f}
             X == Append(s.ext, row)
  <2>1. e = [s EXCEPT !.deriv = D, !.ext = X, !.intake = I] /\ D = d.deriv \cup {f}
    BY Zenon, <1>1, <1>8
  <2>2. D \in SUBSET [content : Contents, src : Nat] /\ X \in Seq(Rows)
    BY Zenon, <1>9
  <2> HIDE DEF D, X
  <2>3. e \in Docs /\ e.orig = s.orig /\ e.deriv = D /\ e.intake = I
    BY Zenon, <1>1, <1>7, <2>1, <2>2 DEF Docs
  <2> QED
    BY Zenon, <1>1, <2>1, <2>3
<1>11. Versions(e) = Versions(d) /\ v \in Versions(d)
  BY Zenon, <1>4, <1>10 DEF Versions
<1>12. ASSUME NEW g \in e.deriv
       PROVE  IF g.src = 0 THEN \E w \in Versions(e) : e.orig[w] = g.content
              ELSE g.src \in Versions(e) /\ e.orig[g.src] = g.content
  <2>1. CASE g = f
    BY Zenon, <2>1, <1>4, <1>6, <1>10, <1>11
  <2>2. CASE g \in d.deriv
    BY Zenon, <2>2, <1>10, <1>11 DEF WellFormed
  <2> QED
    BY Zenon, <2>1, <2>2, <1>10
<1>13. WellFormed(e)
  BY Zenon, <1>3, <1>7, <1>10, <1>12 DEF WellFormed
<1>14. Referenced(d) \subseteq Referenced(e)
  BY Zenon, <1>10, <1>11 DEF Referenced
<1>15. Referenced(e) \subseteq Referenced(d) \cup {<<"derivatives", d.orig[v]>>}
  BY Zenon, <1>6, <1>10, <1>11 DEF Referenced
<1> QED
  BY Zenon, <1>13, <1>14, <1>15 DEF v

-----------------------------------------------------------------------------
(* The parts that are in place are typed and whole. *)
LEMMA PartsInPlace ==
    ASSUME DataInv
    PROVE  /\ db # Gone => db \in Databases /\ WellFormed(db.doc) /\ db.schema \in Schemas
           /\ store # Gone => store \in Stores
           /\ db # Gone /\ store # Gone => Whole(db, store)
  BY Zenon DEF DataInv, DataTyped, DiskTyped, DiskInv, MaybeDb, MaybeStore, Databases

(* A database or store that is on disk is not the mark of an absent one. *)
LEMMA InPlace ==
    /\ \A x \in Databases : x # Gone
    /\ \A x \in Stores : x # Gone
  BY Zenon, LocalAssumption

(* No process of the application writes while a restore runs. *)
LEMMA RestoringIsQuiet ==
    ASSUME DataInv, Restoring
    PROVE  /\ app = "down" /\ worker = FALSE /\ fly["api"] = NoWrite /\ fly["worker"] = NoWrite
           /\ tool["launcher"].step = "idle"
  BY Zenon DEF DataInv, RolesInv, Running, Serving

(* Nothing of an earlier restore is left to finish while a process of the
   application runs. *)
LEMMA RunningHasNoRestore ==
    ASSUME DataInv, Running
    PROVE  /\ last.outcome = "none" /\ tool["user"].step \in {"idle"} \cup SnapshotSteps
           /\ db # Gone /\ store # Gone
  BY Zenon DEF DataInv, RolesInv, Restoring, SnapshotSteps

(* What may still happen only shrinks. *)
MayShrinks == may' \in [Faults \cup Acts -> Nat] /\ may'["restore"] <= may["restore"]

(* Spending an opportunity lowers the bounds; a restore spends exactly one. *)
LEMMA SpendShrinks ==
    ASSUME DataInv, NEW what \in Faults \cup Acts, Spend(what)
    PROVE  MayShrinks /\ (what = "restore" => may'["restore"] = may["restore"] - 1 /\ may["restore"] > 0)
<1>1. may \in [Faults \cup Acts -> Nat] /\ "restore" \in Faults \cup Acts
  BY Zenon DEF DataInv, DataTyped, CopiesTyped, Acts
<1>2. may[what] \in Nat /\ may[what] > 0 /\ may[what] - 1 \in Nat
  BY SMTT(30), <1>1 DEF Spend
<1>3. may' \in [Faults \cup Acts -> Nat]
  BY Zenon, <1>1, <1>2 DEF Spend
<1>4. may'["restore"] = IF what = "restore" THEN may["restore"] - 1 ELSE may["restore"]
  BY Zenon, <1>1 DEF Spend
<1>5. may["restore"] \in Nat
  BY Zenon, <1>1
<1> QED
  BY SMTT(30), <1>2, <1>3, <1>4, <1>5 DEF MayShrinks

(* A step that spends nothing keeps the bounds. *)
LEMMA SameMayShrinks ==
    ASSUME DataInv, may' = may
    PROVE  MayShrinks
<1>1. may["restore"] \in Nat
  BY Zenon DEF DataInv, DataTyped, CopiesTyped, Acts
<1> QED
  BY SMTT(30), <1>1 DEF DataInv, DataTyped, CopiesTyped, MayShrinks

(* The copies stay what they are while only the budget of events is spent. *)
LEMMA CopiesFrame ==
    ASSUME DataInv, MayShrinks, UNCHANGED kept
    PROVE  CopiesTyped' /\ BackupIsComplete'
<1>1. may["restore"] \in Nat /\ may'["restore"] \in Nat /\ last.run \in Nat /\ MaxRestores \in Nat
  BY SMTT(30), LocalAssumption DEF DataInv, DataTyped, CopiesTyped, MayShrinks, Acts, Restores
<1>2. last'.run + may'["restore"] <= MaxRestores
  BY SMTT(30), <1>1 DEF DataInv, DataTyped, CopiesTyped, MayShrinks, kept
<1> QED
  BY Zenon, <1>2 DEF DataInv, DataTyped, CopiesTyped, MayShrinks, kept, BackupIsComplete, Whole

(* Without a restore to account for, the restore invariant asks nothing but
   empty places for the runs to come. *)
LEMMA RestoreVacuous ==
    ASSUME DataInv, aside' = aside, last'.run = last.run, last'.outcome = "none",
           tool'["user"].step \in {"idle"} \cup SnapshotSteps
    PROVE  RestoreInv'
  BY Zenon DEF DataInv, RestoreInv, Run, SnapshotSteps, MoveSteps

(* Steps taken while no restore moves files keep what the last restore left. *)
LEMMA RestoreSettled ==
    ASSUME DataInv, UNCHANGED <<db, store, aside, last>>,
           tool["user"].step \in {"idle"} \cup SnapshotSteps,
           tool'["user"].step \in {"idle"} \cup SnapshotSteps
    PROVE  RestoreInv'
  BY SMTT(30) DEF DataInv, RestoreInv, Run, SnapshotSteps, MoveSteps

(* Steps that touch neither the files nor the user's tool keep RestoreInv. *)
LEMMA RestoreFrame ==
    ASSUME DataInv, UNCHANGED <<db, store, aside, last>>, tool'["user"] = tool["user"]
    PROVE  RestoreInv'
  BY SMTT(30) DEF DataInv, RestoreInv, Run, Held

(* A write of the application that keeps the rows whole. *)
LEMMA DocumentFrame ==
    ASSUME DataInv, Serving \/ worker,
           UNCHANGED <<app, worker, contract, recorded, tool, kept>>, MayShrinks,
           db' \in Databases, store' \in Stores, Whole(db', store')
    PROVE  /\ db'.schema = db.schema /\ Referenced(db.doc) \subseteq Referenced(db'.doc)
              /\ fly' \in [Roles -> Writes]
              /\ (~Serving => fly'["api"] = NoWrite) /\ (~worker => fly'["worker"] = NoWrite)
              /\ DiskInv'
           => DataInv'
<1> SUFFICES ASSUME db'.schema = db.schema, Referenced(db.doc) \subseteq Referenced(db'.doc),
                    fly' \in [Roles -> Writes],
                    ~Serving => fly'["api"] = NoWrite, ~worker => fly'["worker"] = NoWrite,
                    DiskInv'
             PROVE  DataInv'
  BY SMTT(30)
<1>1. /\ Running /\ app \notin {"starting", "migrating"}
      /\ last.outcome = "none" /\ tool["user"].step \in {"idle"} \cup SnapshotSteps
      /\ db # Gone /\ store # Gone
  BY Zenon, RunningHasNoRestore DEF Running, Serving, DataInv, RolesInv
<1>2. db' # Gone /\ store' # Gone
  BY Zenon, InPlace
<1>3. DiskTyped' /\ WritesTyped' /\ ToolsTyped'
  BY Zenon DEF DataInv, DataTyped, DiskTyped, WritesTyped, ToolsTyped, MaybeDb, MaybeStore
<1>4. CopiesTyped' /\ BackupIsComplete'
  BY Zenon, CopiesFrame
<1>5. RolesInv'
  BY Zenon, <1>1, <1>2 DEF DataInv, RolesInv, Running, Serving, Restoring, kept
<1>6. SnapshotInv'
  BY Zenon DEF DataInv, SnapshotInv, Whole
<1>7. RestoreInv'
  BY Zenon, <1>1, RestoreVacuous DEF kept
<1>8. RollbackInv'
  BY Zenon, <1>1 DEF DataInv, RollbackInv, kept
<1> QED
  BY Zenon, <1>3, <1>4, <1>5, <1>6, <1>7, <1>8 DEF DataInv, DataTyped

(* A change of the rows alone: every file of the document stays referred to and
   no other one is. *)
LEMMA RowsFrame ==
    ASSUME DataInv, Serving \/ worker,
           UNCHANGED <<store, fly, app, worker, contract, recorded, tool, kept>>, MayShrinks,
           NEW e, WellFormed(db.doc) => WellFormed(e) /\ Referenced(e) = Referenced(db.doc)
                                        /\ e.orig = db.doc.orig,
           db' = [db EXCEPT !.doc = e]
    PROVE  DataInv'
<1>1. db # Gone /\ store # Gone /\ db \in Databases /\ store \in Stores /\ WellFormed(db.doc)
      /\ Whole(db, store)
  BY Zenon, RunningHasNoRestore, PartsInPlace DEF Running, Serving
<1>2. WellFormed(e) /\ Referenced(e) = Referenced(db.doc) /\ e.orig = db.doc.orig
  BY Zenon, <1>1
<1>3. e \in Docs
  BY Zenon, <1>2 DEF WellFormed
<1>4. db' \in Databases /\ db'.schema = db.schema /\ db'.doc = e
  BY Zenon, <1>1, <1>2, <1>3 DEF Databases
<1>5. Whole(db', store')
  BY Zenon, <1>1, <1>2, <1>4, InPlace DEF Whole
<1>6. DiskInv'
  BY Zenon, <1>2, <1>4, <1>5 DEF DataInv, DiskInv, Current
<1>7. /\ fly' \in [Roles -> Writes]
      /\ (~Serving => fly'["api"] = NoWrite) /\ (~worker => fly'["worker"] = NoWrite)
  BY Zenon DEF DataInv, DataTyped, WritesTyped, RolesInv
<1>8. store' \in Stores
  BY Zenon, <1>1
<1> QED
  BY Zenon, <1>2, <1>4, <1>5, <1>6, <1>7, <1>8, DocumentFrame

(* Indexing a document preserves DataInv. *)
LEMMA IndexStep ==
    ASSUME DataInv, IndexDocument
    PROVE  DataInv'
<1> DEFINE C == {[of |-> Current(db.doc), ext |-> 0]}
           e == [db.doc EXCEPT !.chunks = C]
<1>1. db # Gone /\ db \in Databases
  BY Zenon, RunningHasNoRestore, PartsInPlace DEF Running, IndexDocument
<1>2. db' = [db EXCEPT !.doc = e]
  BY Zenon, <1>1 DEF IndexDocument, Databases
<1>3. ASSUME WellFormed(db.doc)
      PROVE  WellFormed(e) /\ Referenced(e) = Referenced(db.doc) /\ e.orig = db.doc.orig
  <2>1. Current(db.doc) \in Nat
    BY SMTT(30), <1>3 DEF WellFormed, Docs, Current
  <2>2. C \in SUBSET [of : Nat, ext : Nat]
    BY SMTT(30), <2>1
  <2> HIDE DEF C
  <2>3. e \in Docs /\ e.orig = db.doc.orig /\ e.deriv = db.doc.deriv /\ e.intake = db.doc.intake
    BY Zenon, <1>3, <2>2 DEF WellFormed, Docs
  <2> QED
    BY Zenon, <1>3, <2>3, SameFiles
<1>4. MayShrinks
  BY Zenon, SpendShrinks DEF IndexDocument, Acts
<1> HIDE DEF e
<1> QED
  BY Zenon, <1>2, <1>3, <1>4, RowsFrame DEF IndexDocument

(* Approving an extraction preserves DataInv. *)
LEMMA ApproveStep ==
    ASSUME DataInv, NEW i, Approve(i)
    PROVE  DataInv'
<1> DEFINE bound == db.doc.ext[i].batch # "none"
           e == Promoted(db.doc, i, bound)
<1>1. db' = [db EXCEPT !.doc = e]
  BY Zenon DEF Approve
<1>2. ASSUME WellFormed(db.doc)
      PROVE  WellFormed(e) /\ Referenced(e) = Referenced(db.doc) /\ e.orig = db.doc.orig
  <2>1. bound \in BOOLEAN
    BY SMTT(30)
  <2> HIDE DEF bound
  <2>2. e \in Docs /\ e.orig = db.doc.orig /\ e.deriv = db.doc.deriv /\ e.intake = db.doc.intake
    BY Zenon, <1>2, <2>1, PromoteKeeps
  <2> QED
    BY Zenon, <1>2, <2>2, SameFiles
<1>3. MayShrinks
  BY Zenon, SpendShrinks DEF Approve, Acts
<1> HIDE DEF e
<1> QED
  BY Zenon, <1>1, <1>2, <1>3, RowsFrame DEF Approve

(* Rejecting an extraction preserves DataInv. *)
LEMMA RejectStep ==
    ASSUME DataInv, NEW i, Reject(i)
    PROVE  DataInv'
<1> DEFINE row == [db.doc.ext[i] EXCEPT !.status = "rejected",
                                        !.batch = IF @ = "open" THEN "rejected" ELSE @]
           E == [db.doc.ext EXCEPT ![i] = row]
           e == [db.doc EXCEPT !.ext = E]
<1>1. db # Gone /\ db \in Databases /\ WellFormed(db.doc)
  BY Zenon, RunningHasNoRestore, PartsInPlace DEF Running, Reject, Serving
<1>2. /\ db.doc.ext \in Seq(Rows) /\ i \in 1..Len(db.doc.ext) /\ db.doc.ext[i] \in Rows
      /\ DOMAIN db.doc.ext = 1..Len(db.doc.ext)
  BY SMTT(30), <1>1 DEF WellFormed, Docs, Reject, Having, Candidates
<1>3. row \in Rows
  BY Zenon, <1>2 DEF Rows, Statuses, Lifecycles
<1>4. db' = [db EXCEPT !.doc = e]
  BY Zenon, <1>1, <1>2 DEF Reject, Databases, Docs, Rows
<1> HIDE DEF row
<1>5. E \in Seq(Rows)
  BY Zenon, <1>2, <1>3, Replacing
<1> HIDE DEF E
<1>6. e \in Docs /\ e.orig = db.doc.orig /\ e.deriv = db.doc.deriv /\ e.intake = db.doc.intake
  BY Zenon, <1>1, <1>5 DEF WellFormed, Docs
<1> HIDE DEF e
<1>7. WellFormed(e) /\ Referenced(e) = Referenced(db.doc) /\ e.orig = db.doc.orig
  BY Zenon, <1>1, <1>6, SameFiles
<1>8. MayShrinks
  BY Zenon, SpendShrinks DEF Reject, Acts
<1> QED
  BY Zenon, <1>4, <1>7, <1>8, RowsFrame DEF Reject

(* The reprocess route preserves DataInv. *)
LEMMA ReprocessStep ==
    ASSUME DataInv, Reprocess
    PROVE  DataInv'
<1> DEFINE v == Current(db.doc)
           I == [db.doc.intake EXCEPT ![v] = "queued"]
           e == [db.doc EXCEPT !.intake = I]
<1>1. db # Gone /\ db \in Databases /\ WellFormed(db.doc)
  BY Zenon, RunningHasNoRestore, PartsInPlace DEF Running, Reprocess, Serving
<1>2. db' = [db EXCEPT !.doc = e]
  BY Zenon, <1>1 DEF Reprocess, Databases, Docs
<1>3. /\ db.doc.intake \in Seq(IntakeStates) /\ v \in 1..Len(db.doc.intake)
      /\ "queued" \in IntakeStates
  <2>1. db.doc.orig # <<>> /\ db.doc.orig \in Seq(Contents) /\ Len(db.doc.intake) = Len(db.doc.orig)
        /\ db.doc.intake \in Seq(IntakeStates)
    BY Zenon, <1>1 DEF WellFormed, Docs
  <2>2. Len(db.doc.orig) \in Nat \ {0}
    BY Zenon, <2>1, NonEmptyHasLast
  <2> QED
    BY SMTT(30), <2>1, <2>2 DEF Current, IntakeStates
<1> HIDE DEF v
<1>4. I \in Seq(IntakeStates) /\ Len(I) = Len(db.doc.intake)
  BY SMTT(30), <1>3, Replacing
<1> HIDE DEF I
<1>5. e \in Docs /\ e.orig = db.doc.orig /\ e.deriv = db.doc.deriv /\ e.intake = I
  BY Zenon, <1>1, <1>4 DEF WellFormed, Docs
<1> HIDE DEF e
<1>6. WellFormed(e) /\ Referenced(e) = Referenced(db.doc) /\ e.orig = db.doc.orig
  BY Zenon, <1>1, <1>4, <1>5, SameFiles
<1>7. MayShrinks
  BY Zenon, SpendShrinks DEF Reprocess, Acts
<1> QED
  BY Zenon, <1>2, <1>6, <1>7, RowsFrame DEF Reprocess

(* A file that is added to the store harms no row. *)
LEMMA UploadStep ==
    ASSUME DataInv, NEW c \in Contents, UploadOriginal(c)
    PROVE  DataInv'
<1> DEFINE p == <<"originals", c>>
<1>1. /\ db # Gone /\ store # Gone /\ db \in Databases /\ store \in Stores /\ Whole(db, store)
  BY Zenon, RunningHasNoRestore, PartsInPlace DEF Running, UploadOriginal, Serving
<1>2. p \in Paths
  BY Zenon DEF Paths
<1>3. store' = [files |-> store.files \cup {p}, left |-> store.left \cup {p}]
  BY Zenon DEF UploadOriginal
<1>4. fly' = [fly EXCEPT !["api"] = [step |-> "published", content |-> c]] /\ db' = db
  BY Zenon DEF UploadOriginal
<1>5. fly \in [Roles -> Writes] /\ "api" \in Roles /\ "worker" \in Roles
  BY Zenon DEF DataInv, DataTyped, WritesTyped, Roles
<1>6. /\ fly' \in [Roles -> Writes] /\ fly'["api"].step = "published" /\ fly'["api"].content = c
      /\ fly'["worker"] = fly["worker"]
  BY Zenon, <1>4, <1>5 DEF Writes
<1>7. store' \in Stores /\ store.files \subseteq store'.files /\ p \in store'.files
  BY Zenon, <1>1, <1>2, <1>3 DEF Stores
<1>8. Whole(db', store')
  BY Zenon, <1>1, <1>4, <1>7, InPlace DEF Whole
<1>9. DiskInv'
  BY Zenon, <1>4, <1>6, <1>7, <1>8 DEF DataInv, DiskInv
<1>10. MayShrinks
  BY Zenon, SpendShrinks DEF UploadOriginal, Acts
<1>11. /\ (~Serving => fly'["api"] = NoWrite) /\ (~worker => fly'["worker"] = NoWrite)
  BY Zenon, <1>6 DEF UploadOriginal, DataInv, RolesInv
<1> QED
  BY Zenon, <1>1, <1>4, <1>6, <1>7, <1>8, <1>9, <1>10, <1>11, DocumentFrame DEF UploadOriginal

(* Committing the row of a published original preserves DataInv. *)
LEMMA CommitOriginalStep ==
    ASSUME DataInv, CommitOriginal
    PROVE  DataInv'
<1> DEFINE c == fly["api"].content
           e == Appended(db.doc, c)
<1>1. /\ db # Gone /\ store # Gone /\ db \in Databases /\ store \in Stores /\ Whole(db, store)
      /\ WellFormed(db.doc)
  BY Zenon, RunningHasNoRestore, PartsInPlace DEF Running, CommitOriginal, Serving
<1>2. fly \in [Roles -> Writes] /\ "api" \in Roles /\ "worker" \in Roles
  BY Zenon DEF DataInv, DataTyped, WritesTyped, Roles
<1>3. <<"originals", c>> \in store.files
  BY Zenon DEF DataInv, DiskInv, CommitOriginal
<1>4. c \in Contents
  BY Zenon, <1>1, <1>3 DEF Stores, Paths
<1>5. db' = [db EXCEPT !.doc = e]
  BY Zenon DEF CommitOriginal, Appended
<1>6. /\ WellFormed(e) /\ Referenced(db.doc) \subseteq Referenced(e)
      /\ Referenced(e) \subseteq Referenced(db.doc) \cup {<<"originals", c>>}
  BY Zenon, <1>1, <1>4, AppendedKeeps
<1> HIDE DEF e
<1>7. e \in Docs
  BY Zenon, <1>6 DEF WellFormed
<1>8. db' \in Databases /\ db'.schema = db.schema /\ db'.doc = e
  BY Zenon, <1>1, <1>5, <1>6, <1>7 DEF Databases
<1>9. store' = store /\ Whole(db', store')
  BY Zenon, <1>1, <1>3, <1>6, <1>8, InPlace DEF Whole, CommitOriginal
<1>10. /\ fly' \in [Roles -> Writes] /\ fly'["api"].step = "committed"
       /\ fly'["worker"] = NoWrite
  BY Zenon, <1>2 DEF CommitOriginal, Writes
<1>11. DiskInv'
  BY SMTT(30), <1>9, <1>10 DEF DiskInv, NoWrite
<1>12. MayShrinks
  BY Zenon, SameMayShrinks DEF CommitOriginal
<1> QED
  BY Zenon, <1>1, <1>6, <1>8, <1>9, <1>10, <1>11, <1>12, DocumentFrame DEF CommitOriginal

(* Ending an upload's storage transaction preserves DataInv. *)
LEMMA FinalizeStep ==
    ASSUME DataInv, FinalizeOriginal
    PROVE  DataInv'
<1> DEFINE p == <<"originals", fly["api"].content>>
<1>1. Serving
  BY SMTT(30) DEF FinalizeOriginal, DataInv, RolesInv, NoWrite
<1>2. /\ db # Gone /\ store # Gone /\ db \in Databases /\ store \in Stores /\ Whole(db, store)
  BY Zenon, <1>1, RunningHasNoRestore, PartsInPlace DEF Running, Serving
<1>3. fly \in [Roles -> Writes] /\ "api" \in Roles /\ "worker" \in Roles
  BY Zenon DEF DataInv, DataTyped, WritesTyped, Roles
<1>4. /\ store' = [store EXCEPT !.left = store.left \ {p}] /\ db' = db
      /\ fly' = [fly EXCEPT !["api"] = NoWrite]
  BY Zenon DEF FinalizeOriginal
<1>5. store' \in Stores /\ store'.files = store.files
  BY Zenon, <1>2, <1>4 DEF Stores
<1>6. fly' \in [Roles -> Writes] /\ fly'["api"] = NoWrite /\ fly'["worker"] = fly["worker"]
  BY Zenon, <1>3, <1>4 DEF Writes, NoWrite
<1>7. Whole(db', store')
  BY Zenon, <1>2, <1>4, <1>5, InPlace DEF Whole
<1>8. DiskInv'
  BY SMTT(30), <1>4, <1>5, <1>6, <1>7 DEF DataInv, DiskInv, NoWrite
<1>9. MayShrinks
  BY Zenon, SameMayShrinks DEF FinalizeOriginal
<1>10. ~worker => fly'["worker"] = NoWrite
  BY Zenon, <1>6 DEF DataInv, RolesInv
<1> QED
  BY Zenon, <1>1, <1>2, <1>4, <1>5, <1>6, <1>7, <1>8, <1>9, <1>10, DocumentFrame DEF FinalizeOriginal

(* Publishing a derivative in the store before its row preserves DataInv. *)
LEMMA PublishStep ==
    ASSUME DataInv, PublishDerivative
    PROVE  DataInv'
<1> DEFINE c == db.doc.orig[Current(db.doc)]
           p == <<"derivatives", c>>
<1>1. /\ db # Gone /\ store # Gone /\ db \in Databases /\ store \in Stores /\ Whole(db, store)
      /\ WellFormed(db.doc)
  BY Zenon, RunningHasNoRestore, PartsInPlace DEF Running, PublishDerivative
<1>2. c \in Contents
  <2>1. db.doc.orig # <<>> /\ db.doc.orig \in Seq(Contents)
    BY Zenon, <1>1 DEF WellFormed, Docs
  <2>2. Len(db.doc.orig) \in Nat \ {0}
    BY Zenon, <2>1, NonEmptyHasLast
  <2> QED
    BY SMTT(30), <2>1, <2>2 DEF Current
<1>3. fly \in [Roles -> Writes] /\ "api" \in Roles /\ "worker" \in Roles
  BY Zenon DEF DataInv, DataTyped, WritesTyped, Roles
<1>4. /\ store' = [store EXCEPT !.files = store.files \cup {p}] /\ db' = db
      /\ fly' = [fly EXCEPT !["worker"] = [step |-> "published", content |-> c]]
  BY Zenon DEF PublishDerivative
<1> HIDE DEF c
<1>5. p \in Paths
  BY Zenon, <1>2 DEF Paths
<1>6. store' \in Stores /\ store.files \subseteq store'.files /\ p \in store'.files
  BY Zenon, <1>1, <1>4, <1>5 DEF Stores
<1>7. /\ fly' \in [Roles -> Writes] /\ fly'["api"] = fly["api"]
      /\ fly'["worker"].content = c
  BY Zenon, <1>2, <1>3, <1>4 DEF Writes
<1>8. Whole(db', store')
  BY Zenon, <1>1, <1>4, <1>6, InPlace DEF Whole
<1>9. DiskInv'
  BY Zenon, <1>4, <1>6, <1>7, <1>8 DEF DataInv, DiskInv, c
<1>10. MayShrinks
  BY Zenon, SameMayShrinks DEF PublishDerivative
<1>11. ~Serving => fly'["api"] = NoWrite
  BY Zenon, <1>7 DEF DataInv, RolesInv
<1> QED
  BY Zenon, <1>1, <1>4, <1>6, <1>7, <1>8, <1>9, <1>10, <1>11, DocumentFrame DEF PublishDerivative

(* Committing an extraction and its derivative preserves DataInv. *)
LEMMA CommitExtractionStep ==
    ASSUME DataInv, CommitExtraction
    PROVE  DataInv'
<1> DEFINE v == Current(db.doc)
           c == db.doc.orig[v]
           row == [src |-> v, status |-> "pending", verified |-> FALSE, batch |-> "none"]
           e == [SupersedePending(db.doc) EXCEPT !.deriv = @ \cup {[content |-> c, src |-> v]},
                    !.ext = Append(@, row), !.intake[v] = "processed"]
<1>1. /\ db # Gone /\ store # Gone /\ db \in Databases /\ store \in Stores /\ Whole(db, store)
      /\ WellFormed(db.doc)
  BY Zenon, RunningHasNoRestore, PartsInPlace DEF Running, CommitExtraction
<1>2. fly \in [Roles -> Writes] /\ "api" \in Roles /\ "worker" \in Roles
  BY Zenon DEF DataInv, DataTyped, WritesTyped, Roles
<1>3. fly["worker"].content = c /\ <<"derivatives", c>> \in store.files
  BY Zenon DEF DataInv, DiskInv, CommitExtraction
<1>4. Current(SupersedePending(db.doc)) = v
  BY Zenon, <1>1, SupersedeKeeps DEF Current
<1>5. db' = [db EXCEPT !.doc = e]
  BY Zenon, <1>3, <1>4 DEF CommitExtraction
<1>6. /\ WellFormed(e) /\ Referenced(db.doc) \subseteq Referenced(e)
      /\ Referenced(e) \subseteq Referenced(db.doc) \cup {<<"derivatives", c>>}
  BY ZenonT(30), <1>1, ExtractedKeeps
<1> HIDE DEF e
<1>7. e \in Docs
  BY Zenon, <1>6 DEF WellFormed
<1>8. db' \in Databases /\ db'.schema = db.schema /\ db'.doc = e
  BY Zenon, <1>1, <1>5, <1>6, <1>7 DEF Databases
<1>9. store' = store /\ Whole(db', store')
  BY Zenon, <1>1, <1>3, <1>6, <1>8, InPlace DEF Whole, CommitExtraction
<1>10. /\ fly' \in [Roles -> Writes] /\ fly'["worker"] = NoWrite /\ fly'["api"] = fly["api"]
  BY Zenon, <1>2 DEF CommitExtraction, Writes, NoWrite
<1>11. DiskInv'
  BY SMTT(30), <1>9, <1>10 DEF DataInv, DiskInv, NoWrite
<1>12. MayShrinks
  BY Zenon, SameMayShrinks DEF CommitExtraction
<1>13. ~Serving => fly'["api"] = NoWrite
  BY Zenon, <1>10 DEF DataInv, RolesInv
<1> QED
  BY Zenon, <1>1, <1>6, <1>8, <1>9, <1>10, <1>11, <1>12, <1>13, DocumentFrame DEF CommitExtraction

(* Every operation of the API and the worker on a document preserves DataInv. *)
LEMMA DocumentsKeep ==
    ASSUME DataInv, Documents
    PROVE  DataInv'
  BY Zenon, UploadStep, CommitOriginalStep, FinalizeStep, PublishStep, CommitExtractionStep,
     IndexStep, ReprocessStep, ApproveStep, RejectStep DEF Documents

-----------------------------------------------------------------------------
(* The launcher. *)
LEMMA IdleTyped ==
    /\ Idle \in ToolStates /\ Idle.step = "idle"
    /\ [Idle EXCEPT !.step = "db"] \in ToolStates /\ [Idle EXCEPT !.step = "db"].step = "db"
    /\ NoWrite \in Writes /\ NoWrite.step = "none" /\ NothingAside \in Pairs
  BY Zenon DEF Idle, ToolStates, MaybeDb, MaybeStore, SnapshotSteps, NoWrite, Writes, NothingAside, Pairs

(* What processes do to themselves touches no data. *)
LEMMA AppFrame ==
    ASSUME DataInv, UNCHANGED <<db, store, kept>>, MayShrinks,
           fly' \in [Roles -> Writes], \A r \in Roles : fly'[r] \in {fly[r], NoWrite},
           tool' \in [Owners -> ToolStates], tool'["user"] = tool["user"],
           tool'["launcher"] = tool["launcher"] \/ tool'["launcher"].step = "idle",
           RolesInv', RollbackInv'
    PROVE  DataInv'
<1>1. DiskTyped' /\ WritesTyped' /\ ToolsTyped'
  BY Zenon DEF DataInv, DataTyped, DiskTyped, WritesTyped, ToolsTyped
<1>2. CopiesTyped' /\ BackupIsComplete'
  BY Zenon, CopiesFrame
<1>3. DiskInv'
  <2>1. NoWrite.step = "none"
    BY Zenon DEF NoWrite
  <2> QED
    BY Zenon, <2>1 DEF DataInv, DiskInv, Whole, Roles
<1>4. SnapshotInv'
  <2>1. \A p \in Owners : tool'[p] = tool[p] \/ tool'[p].step = "idle"
    BY Zenon DEF Owners
  <2> QED
    BY Zenon, <2>1 DEF DataInv, SnapshotInv, Whole
<1>5. RestoreInv'
  BY Zenon, RestoreFrame DEF kept
<1> QED
  BY Zenon, <1>1, <1>2, <1>3, <1>4, <1>5 DEF DataInv, DataTyped

(* The launcher's steps that touch no data preserve DataInv. *)
LEMMA AppSteps ==
    ASSUME DataInv, MarkUpgrade \/ StartWorker \/ StartFails \/ Stop \/ UpdateCode
    PROVE  DataInv'
<1>1. MayShrinks
  BY Zenon, SpendShrinks, SameMayShrinks
     DEF MarkUpgrade, StartWorker, StartFails, Stop, UpdateCode, Acts
<1>2. /\ UNCHANGED <<db, store, kept>> /\ fly' = fly /\ tool' = tool
  BY Zenon DEF MarkUpgrade, StartWorker, StartFails, Stop, UpdateCode, disk
<1>3. fly' \in [Roles -> Writes] /\ tool' \in [Owners -> ToolStates]
  BY Zenon, <1>2 DEF DataInv, DataTyped, WritesTyped, ToolsTyped
<1>4. RolesInv'
  <2>1. DOMAIN fly = Roles
    BY Zenon DEF DataInv, DataTyped, WritesTyped
  <2>2. CASE MarkUpgrade
    BY Zenon, <1>2, <2>2 DEF DataInv, RolesInv, MarkUpgrade, Running, Serving, Restoring, kept
  <2>3. CASE StartWorker
    BY Zenon, <1>2, <2>3 DEF DataInv, RolesInv, StartWorker, Running, Serving, Restoring, kept
  <2>4. CASE StartFails
    BY Zenon, <1>2, <2>4 DEF DataInv, RolesInv, StartFails, Running, Serving, Restoring, kept
  <2>5. CASE Stop
    BY Zenon, <1>2, <2>1, <2>5 DEF DataInv, RolesInv, Stop, Running, Serving, Restoring, kept, Roles
  <2>6. CASE UpdateCode
    BY Zenon, <1>2, <2>6 DEF DataInv, RolesInv, UpdateCode, Running, Serving, Restoring, kept
  <2> QED
    BY Zenon, <2>2, <2>3, <2>4, <2>5, <2>6
<1>5. RollbackInv'
  <2>1. CASE MarkUpgrade
    <3>1. db.schema = "current" /\ recorded' = <<contract, "current">>
      BY Zenon, <2>1 DEF DataInv, RollbackInv, MarkUpgrade
    <3> QED
      BY SMTT(30), <1>2, <2>1, <3>1 DEF RollbackInv, MarkUpgrade
  <2>2. CASE StartWorker \/ StartFails \/ Stop \/ UpdateCode
    BY Zenon, <1>2, <2>2 DEF DataInv, RollbackInv, StartWorker, StartFails, Stop, UpdateCode, kept
  <2> QED
    BY Zenon, <2>1, <2>2
<1> QED
  BY Zenon, <1>1, <1>2, <1>3, <1>4, <1>5, AppFrame

(* A killed API or worker preserves DataInv. *)
LEMMA KillAppSteps ==
    ASSUME DataInv, KillApi \/ KillWorker
    PROVE  DataInv'
<1>1. /\ fly \in [Roles -> Writes] /\ tool \in [Owners -> ToolStates]
      /\ "api" \in Roles /\ "worker" \in Roles /\ "launcher" \in Owners /\ "user" \in Owners
  BY Zenon DEF DataInv, DataTyped, WritesTyped, ToolsTyped, Roles, Owners
<1>2. MayShrinks /\ UNCHANGED <<db, store, kept>>
  BY Zenon, SpendShrinks DEF KillApi, KillWorker, Faults, disk
<1>3. CASE KillApi
  <2>1. /\ fly' = [fly EXCEPT !["api"] = NoWrite] /\ tool' = [tool EXCEPT !["launcher"] = Idle]
        /\ app' = "down" /\ worker' = worker /\ recorded' = recorded
    BY Zenon, <1>3 DEF KillApi
  <2>2. /\ fly' \in [Roles -> Writes] /\ fly'["api"] = NoWrite /\ fly'["worker"] = fly["worker"]
        /\ \A r \in Roles : fly'[r] \in {fly[r], NoWrite}
    BY Zenon, <1>1, <2>1, IdleTyped
  <2>3. /\ tool' \in [Owners -> ToolStates] /\ tool'["user"] = tool["user"]
        /\ tool'["launcher"].step = "idle"
    BY Zenon, <1>1, <2>1, IdleTyped
  <2>4. RolesInv'
    BY Zenon, <1>2, <2>1, <2>2, <2>3 DEF DataInv, RolesInv, Running, Serving, Restoring, kept
  <2>5. RollbackInv'
    BY Zenon, <1>2, <2>1 DEF DataInv, RollbackInv
  <2> QED
    BY Zenon, <1>2, <2>2, <2>3, <2>4, <2>5, AppFrame
<1>4. CASE KillWorker
  <2>1. /\ fly' = [fly EXCEPT !["worker"] = NoWrite] /\ tool' = tool
        /\ app' = app /\ worker' = FALSE /\ recorded' = recorded /\ worker
    BY Zenon, <1>4 DEF KillWorker
  <2>2. /\ fly' \in [Roles -> Writes] /\ fly'["worker"] = NoWrite /\ fly'["api"] = fly["api"]
        /\ \A r \in Roles : fly'[r] \in {fly[r], NoWrite}
    BY Zenon, <1>1, <2>1, IdleTyped
  <2>3. RolesInv'
    BY Zenon, <1>2, <2>1, <2>2 DEF DataInv, RolesInv, Running, Serving, Restoring, kept
  <2>4. RollbackInv'
    BY Zenon, <1>2, <2>1 DEF DataInv, RollbackInv, kept
  <2> QED
    BY Zenon, <1>1, <1>2, <2>1, <2>2, <2>3, <2>4, AppFrame
<1> QED
  BY Zenon, <1>3, <1>4

(* A start leaves the schema alone when its record says that it is current. *)
LEMMA StartApiStep ==
    ASSUME DataInv, StartApi
    PROVE  DataInv'
<1>1. /\ db # Gone /\ store # Gone /\ app = "down" /\ worker = FALSE /\ ~Restoring
      /\ UNCHANGED <<db, store, fly, worker, recorded, backups, rollbacks, aside, may>>
      /\ last' = [NoRestore EXCEPT !.run = last.run]
  BY Zenon DEF StartApi, DataDirReady, disk, DataInv, RolesInv
<1>2. /\ fly["api"] = NoWrite /\ fly["worker"] = NoWrite /\ tool["launcher"].step = "idle"
      /\ tool["user"].step \in {"idle"} \cup SnapshotSteps
  BY Zenon, <1>1 DEF DataInv, RolesInv, Serving, Restoring, SnapshotSteps
<1>3. db \in Databases /\ db.schema \in Schemas /\ Whole(db, store)
  BY Zenon, <1>1, PartsInPlace
<1>4. tool \in [Owners -> ToolStates] /\ "launcher" \in Owners /\ "user" \in Owners
  BY Zenon DEF DataInv, DataTyped, ToolsTyped, Owners
<1>5. last.run \in 0..MaxRestores /\ last'.outcome = "none" /\ last'.run = last.run /\ last' \in Restores
  BY Zenon, <1>1, IdleTyped DEF DataInv, DataTyped, CopiesTyped, NoRestore, Restores
<1>6. CopiesTyped' /\ BackupIsComplete' /\ DiskTyped' /\ WritesTyped' /\ DiskInv'
  BY Zenon, <1>1, <1>5 DEF DataInv, DataTyped, CopiesTyped, BackupIsComplete, DiskTyped, WritesTyped,
                    DiskInv, Whole
<1>7. /\ app' \in {"starting", "preparing"} /\ tool' \in [Owners -> ToolStates]
      /\ tool'["user"] = tool["user"] /\ tool'["launcher"].step \in {"idle", "db"}
      /\ tool'["launcher"].step # "idle" => app' = "preparing"
  <2>1. CASE AlreadyVerified
    BY Zenon, <1>2, <1>4, <2>1 DEF StartApi
  <2>2. CASE ~AlreadyVerified
    <3>1. tool' = [tool EXCEPT !["launcher"] = [Idle EXCEPT !.step = "db"]] /\ app' = "preparing"
      BY Zenon, <2>2 DEF StartApi, Snapshotting, AfterStep
    <3> QED
      BY Zenon, <1>4, <3>1, IdleTyped
  <2> QED
    BY Zenon, <2>1, <2>2
<1>8. RolesInv'
  BY Zenon, <1>1, <1>2, <1>5, <1>7 DEF RolesInv, Running, Serving, Restoring, SnapshotSteps
<1>9. SnapshotInv'
  <2>1. \A p \in Owners : tool'[p] = tool[p] \/ tool'[p].step \in {"idle", "db"}
    BY Zenon, <1>7 DEF Owners
  <2> QED
    BY Zenon, <1>1, <2>1 DEF DataInv, SnapshotInv, Whole
<1>10. RestoreInv'
  BY Zenon, <1>1, <1>2, <1>5, <1>7, RestoreVacuous
<1>11. RollbackInv'
  <2>1. app' = "starting" => db.schema = "current"
    <3>1. app' = "starting" => recorded = <<contract, db.schema>>
      BY Zenon DEF StartApi, AlreadyVerified
    <3>2. recorded = <<contract, db.schema>> => recorded[2] = db.schema
      BY SMTT(30)
    <3> QED
      BY Zenon, <1>3, <3>1, <3>2 DEF DataInv, RollbackInv, Schemas
  <2> QED
    BY Zenon, <1>1, <1>7, <2>1 DEF DataInv, RollbackInv
<1> QED
  BY Zenon, <1>6, <1>7, <1>8, <1>9, <1>10, <1>11 DEF DataInv, DataTyped, ToolsTyped

(* A snapshot is published when it is what the live data still is. *)
LEMMA PublishRollbackStep ==
    ASSUME DataInv, PublishRollback
    PROVE  DataInv'
<1> DEFINE s == Snapshot("launcher")
<1>1. /\ app = "preparing" /\ tool["launcher"].step = "manifest"
      /\ rollbacks' = rollbacks \cup {b \in {s} : MatchesCurrent(b)}
      /\ app' = IF MatchesCurrent(s) THEN "starting" ELSE "down"
      /\ tool' = [tool EXCEPT !["launcher"] = Idle]
      /\ UNCHANGED <<db, store, fly, worker, recorded, backups, aside, last, may>>
  BY Zenon DEF PublishRollback, disk
<1>2. tool \in [Owners -> ToolStates] /\ "launcher" \in Owners /\ "user" \in Owners
  BY Zenon DEF DataInv, DataTyped, ToolsTyped, Owners
<1>3. s \in Pairs /\ s.db = tool["launcher"].db /\ s.store = tool["launcher"].store
  BY Zenon, <1>2 DEF Snapshot, Pairs, ToolStates
<1>4. Whole(s.db, s.store)
  BY Zenon, <1>1, <1>2, <1>3 DEF DataInv, SnapshotInv
<1> HIDE DEF s
<1>5. /\ last.outcome = "none" /\ tool["user"].step \in {"idle"} \cup SnapshotSteps
      /\ db # Gone /\ store # Gone
  BY Zenon, <1>1, RunningHasNoRestore DEF Running
<1>6. /\ tool' \in [Owners -> ToolStates] /\ tool'["user"] = tool["user"]
      /\ tool'["launcher"].step = "idle"
  BY Zenon, <1>1, <1>2, IdleTyped
<1>7. CopiesTyped'
  BY Zenon, <1>1, <1>3 DEF DataInv, DataTyped, CopiesTyped
<1>8. BackupIsComplete'
  BY Zenon, <1>1, <1>4 DEF DataInv, BackupIsComplete, Whole
<1>9. DiskTyped' /\ WritesTyped' /\ DiskInv'
  BY Zenon, <1>1 DEF DataInv, DataTyped, DiskTyped, WritesTyped, DiskInv, Whole
<1>10. RolesInv'
  BY Zenon, <1>1, <1>5, <1>6 DEF DataInv, RolesInv, Running, Serving, Restoring
<1>11. SnapshotInv'
  <2>1. \A p \in Owners : tool'[p] = tool[p] \/ tool'[p].step = "idle"
    BY Zenon, <1>6 DEF Owners
  <2> QED
    BY Zenon, <1>1, <2>1 DEF DataInv, SnapshotInv, Whole
<1>12. RestoreInv'
  BY Zenon, <1>1, <1>6, RestoreFrame
<1>13. RollbackInv'
  <2>1. CASE MatchesCurrent(s)
    <3>1. s \in rollbacks' /\ s.db = db /\ app' = "starting"
      BY Zenon, <1>1, <2>1 DEF MatchesCurrent
    <3> QED
      BY Zenon, <1>1, <3>1 DEF DataInv, RollbackInv
  <2>2. CASE ~MatchesCurrent(s)
    BY Zenon, <1>1, <2>2 DEF DataInv, RollbackInv
  <2> QED
    BY Zenon, <2>1, <2>2
<1> QED
  BY Zenon, <1>6, <1>7, <1>8, <1>9, <1>10, <1>11, <1>12, <1>13 DEF DataInv, DataTyped, ToolsTyped

(* A startup step works on the data while nothing else does but a backup. *)
LEMMA StartupFrame ==
    ASSUME DataInv, app \in {"starting", "migrating", "reconciling"},
           app' \in {"migrating", "refused", "reconciling", "ready"},
           UNCHANGED <<fly, worker, contract, recorded, tool, kept, may>>,
           db' \in Databases, store' \in Stores, Whole(db', store'),
           Referenced(db'.doc) = Referenced(db.doc), RollbackInv'
    PROVE  DataInv'
<1>1. /\ last.outcome = "none" /\ tool["user"].step \in {"idle"} \cup SnapshotSteps
      /\ worker = FALSE /\ fly["api"] = NoWrite /\ fly["worker"] = NoWrite
      /\ tool["launcher"].step = "idle"
  BY Zenon, RunningHasNoRestore DEF Running, DataInv, RolesInv, Serving
<1>2. db' # Gone /\ store' # Gone
  BY Zenon, InPlace
<1>3. DiskTyped' /\ WritesTyped' /\ ToolsTyped'
  BY Zenon DEF DataInv, DataTyped, DiskTyped, WritesTyped, ToolsTyped, MaybeDb, MaybeStore
<1>4. CopiesTyped' /\ BackupIsComplete'
  BY Zenon, SameMayShrinks, CopiesFrame
<1>5. DiskInv'
  BY SMTT(30), <1>1 DEF DiskInv, NoWrite
<1>6. RolesInv'
  BY Zenon, <1>1, <1>2 DEF DataInv, RolesInv, Running, Serving, Restoring, kept, SnapshotSteps
<1>7. SnapshotInv'
  BY Zenon DEF DataInv, SnapshotInv, Whole
<1>8. RestoreInv'
  BY Zenon, <1>1, RestoreVacuous DEF kept
<1> QED
  BY Zenon, <1>3, <1>4, <1>5, <1>6, <1>7, <1>8 DEF DataInv, DataTyped

(* create_all on a fresh database preserves DataInv. *)
LEMMA CreateAllStep ==
    ASSUME DataInv, CreateAll
    PROVE  DataInv'
<1>1. db # Gone /\ store # Gone /\ db \in Databases /\ store \in Stores /\ Whole(db, store)
  BY Zenon, RunningHasNoRestore, PartsInPlace DEF Running, CreateAll
<1>2. /\ db' \in Databases /\ db'.doc = db.doc
      /\ db'.schema = IF db.schema = "legacy" THEN "partial" ELSE db.schema
  <2>1. CASE db.schema = "legacy"
    BY Zenon, <1>1, <2>1 DEF CreateAll, Databases, Schemas
  <2>2. CASE db.schema # "legacy"
    BY Zenon, <1>1, <2>2 DEF CreateAll
  <2> QED
    BY Zenon, <2>1, <2>2
<1>3. store' = store /\ Whole(db', store')
  BY Zenon, <1>1, <1>2, InPlace DEF Whole, CreateAll
<1>4. RollbackInv'
  BY Zenon, <1>2 DEF DataInv, RollbackInv, CreateAll, kept
<1> QED
  BY Zenon, <1>1, <1>2, <1>3, <1>4, StartupFrame DEF CreateAll

(* The schema upgrade at startup preserves DataInv. *)
LEMMA UpgradeSchemaStep ==
    ASSUME DataInv, UpgradeSchema
    PROVE  DataInv'
<1>1. /\ db # Gone /\ store # Gone /\ db \in Databases /\ store \in Stores /\ Whole(db, store)
      /\ WellFormed(db.doc)
  BY Zenon, RunningHasNoRestore, PartsInPlace DEF Running, UpgradeSchema
<1>2. CASE Refuses(db.doc)
  <2>1. app' = "refused" /\ db' = db /\ store' = store
    BY Zenon, <1>2 DEF UpgradeSchema
  <2>2. RollbackInv'
    BY Zenon, <2>1 DEF DataInv, RollbackInv, UpgradeSchema
  <2>3. Whole(db', store')
    BY Zenon, <1>1, <2>1
  <2> QED
    BY Zenon, <1>1, <2>1, <2>2, <2>3, StartupFrame DEF UpgradeSchema
<1>3. CASE ~Refuses(db.doc)
  <2>1. /\ db' = [schema |-> "current", doc |-> Upgraded(db.doc)] /\ app' = "reconciling"
        /\ store' = store
    BY Zenon, <1>3 DEF UpgradeSchema
  <2>2. WellFormed(Upgraded(db.doc)) /\ Referenced(Upgraded(db.doc)) = Referenced(db.doc)
    BY Zenon, <1>1, UpgradedRows, UpgradeKeepsFiles
  <2>3. Upgraded(db.doc) \in Docs
    BY Zenon, <2>2 DEF WellFormed
  <2>4. db' \in Databases /\ db'.schema = "current" /\ db'.doc = Upgraded(db.doc)
    BY Zenon, <2>1, <2>2, <2>3 DEF Databases, Schemas
  <2>5. Whole(db', store')
    BY Zenon, <1>1, <2>1, <2>2, <2>4, InPlace DEF Whole
  <2>6. RollbackInv'
    BY Zenon, <2>1, <2>4 DEF DataInv, RollbackInv, UpgradeSchema
  <2> QED
    BY Zenon, <1>1, <2>1, <2>2, <2>4, <2>5, <2>6, StartupFrame DEF UpgradeSchema
<1> QED
  BY Zenon, <1>2, <1>3

(* Only files that no row refers to are removed. *)
LEMMA ReconcileStep ==
    ASSUME DataInv, ReconcileStorage
    PROVE  DataInv'
<1>1. /\ db # Gone /\ store # Gone /\ db \in Databases /\ store \in Stores /\ Whole(db, store)
  BY Zenon, RunningHasNoRestore, PartsInPlace DEF Running, ReconcileStorage
<1>2. PICK aged \in SUBSET store.left :
         store' = [files |-> store.files \ Unreferenced(aged), left |-> store.left \ aged]
  BY Zenon DEF ReconcileStorage
<1>3. store' \in Stores /\ store'.files = store.files \ Unreferenced(aged)
  BY Zenon, <1>1, <1>2 DEF Stores
<1>4. db' = db /\ app' = "ready"
  BY Zenon DEF ReconcileStorage
<1>5. Whole(db', store')
  BY Zenon, <1>1, <1>3, <1>4, InPlace DEF Whole, Unreferenced
<1>6. RollbackInv'
  BY Zenon, <1>4 DEF DataInv, RollbackInv, ReconcileStorage
<1> QED
  BY Zenon, <1>1, <1>3, <1>4, <1>5, <1>6, StartupFrame DEF ReconcileStorage

(* Every step of the launcher and of startup preserves DataInv. *)
LEMMA LauncherKeeps ==
    ASSUME DataInv, Launcher
    PROVE  DataInv'
  BY Zenon, StartApiStep, PublishRollbackStep, CreateAllStep, UpgradeSchemaStep, ReconcileStep,
     AppSteps, KillAppSteps DEF Launcher

-----------------------------------------------------------------------------
(* Snapshots.  What is asked of one that is under way. *)
GoodSnapshot(t) ==
    /\ t.step \in {"list", "copy", "manifest"} =>
          t.db # Gone /\ Referenced(t.db.doc) \subseteq Referenced(db.doc)
    /\ t.step = "copy" => Referenced(t.db.doc) \subseteq t.listed
    /\ t.step = "manifest" => Whole(t.db, t.store)

(* A step that only fills a snapshot preserves DataInv when the snapshot stays good. *)
LEMMA SnapshotFrame ==
    ASSUME DataInv, NEW p \in Owners, NEW t \in ToolStates,
           tool[p].step \in {"idle"} \cup SnapshotSteps, t.step \in {"idle"} \cup SnapshotSteps,
           tool' = [tool EXCEPT ![p] = t], GoodSnapshot(t),
           UNCHANGED <<db, store, fly, worker, recorded, rollbacks, aside, last>>,
           CopiesTyped', BackupIsComplete',
           app' = app \/ (p = "launcher" /\ tool[p].step # "idle" /\ app' = "down" /\ t.step = "idle"),
           t.step # "idle" => db # Gone /\ store # Gone,
           p = "launcher" /\ t.step # "idle" => tool[p].step # "idle"
    PROVE  DataInv'
<1>1. /\ tool \in [Owners -> ToolStates] /\ "user" \in Owners /\ "launcher" \in Owners
      /\ p \in {"user", "launcher"}
  BY Zenon DEF DataInv, DataTyped, ToolsTyped, Owners
<1>2. tool' \in [Owners -> ToolStates] /\ tool'[p] = t /\ \A q \in Owners : q # p => tool'[q] = tool[q]
  BY Zenon, <1>1
<1>3. DiskTyped' /\ WritesTyped' /\ DiskInv' /\ ToolsTyped'
  BY Zenon, <1>2 DEF DataInv, DataTyped, DiskTyped, WritesTyped, DiskInv, Whole, ToolsTyped
<1>4. RolesInv'
  <2>1. CASE p = "user"
    <3>1. tool'["launcher"] = tool["launcher"] /\ tool'["user"] = t /\ app' = app
      BY Zenon, <1>1, <1>2, <2>1
    <3>2. Restoring' = FALSE
      BY Zenon, <3>1 DEF Restoring, SnapshotSteps
    <3> QED
      BY Zenon, <3>1, <3>2 DEF DataInv, RolesInv, Running, Serving, SnapshotSteps
  <2>2. CASE p = "launcher"
    <3>1. tool'["user"] = tool["user"] /\ tool'["launcher"] = t
      BY Zenon, <1>1, <1>2, <2>2
    <3>2. tool["launcher"].step # "idle" => app = "preparing"
      BY Zenon DEF DataInv, RolesInv
    <3>3. CASE app' = app
      BY Zenon, <2>2, <3>1, <3>2, <3>3 DEF DataInv, RolesInv, Running, Serving, Restoring, SnapshotSteps
    <3>4. CASE app' # app
      BY Zenon, <2>2, <3>1, <3>2, <3>4 DEF DataInv, RolesInv, Running, Serving, Restoring, SnapshotSteps
    <3> QED
      BY Zenon, <3>3, <3>4
  <2> QED
    BY Zenon, <1>1, <2>1, <2>2
<1>5. SnapshotInv'
  <2>1. \A q \in Owners : GoodSnapshot(tool[q])
    BY Zenon DEF DataInv, SnapshotInv, GoodSnapshot
  <2>2. \A q \in Owners : tool'[q] = t \/ tool'[q] = tool[q]
    BY Zenon, <1>2
  <2> QED
    BY SMTT(30), <2>1, <2>2 DEF SnapshotInv, GoodSnapshot, Whole
<1>6. RestoreInv'
  <2>1. CASE p = "user"
    BY Zenon, <1>2, <2>1, RestoreSettled
  <2>2. CASE p = "launcher"
    BY Zenon, <1>1, <1>2, <2>2, RestoreFrame
  <2> QED
    BY Zenon, <1>1, <2>1, <2>2
<1>7. RollbackInv'
  BY Zenon DEF DataInv, RollbackInv
<1> QED
  BY Zenon, <1>3, <1>4, <1>5, <1>6, <1>7 DEF DataInv, DataTyped

(* A tool that takes a snapshot has both parts before it. *)
LEMMA SnapshotHasParts ==
    ASSUME DataInv, NEW p \in Owners, tool[p].step \in SnapshotSteps
    PROVE  db # Gone /\ store # Gone /\ db \in Databases /\ store \in Stores /\ Whole(db, store)
<1>1. db # Gone /\ store # Gone
  BY Zenon, RunningHasNoRestore DEF DataInv, RolesInv, Owners, SnapshotSteps, Running
<1> QED
  BY Zenon, <1>1, PartsInPlace

(* A step that keeps no new copy leaves the copies typed and the backups complete. *)
LEMMA SnapshotSame ==
    ASSUME DataInv, UNCHANGED <<kept, may>>
    PROVE  /\ CopiesTyped' /\ BackupIsComplete'
           /\ UNCHANGED <<backups, rollbacks, aside, last>>
  BY Zenon, SameMayShrinks, CopiesFrame DEF kept

(* Copying the database into a snapshot preserves DataInv. *)
LEMMA SnapshotDatabaseStep ==
    ASSUME DataInv, NEW p \in Owners, SnapshotDatabase(p)
    PROVE  DataInv'
<1> DEFINE t == [tool[p] EXCEPT !.db = db, !.step = "list"]
<1>1. tool[p] \in ToolStates /\ tool \in [Owners -> ToolStates] /\ tool[p].step = "db"
  BY Zenon DEF DataInv, DataTyped, ToolsTyped, SnapshotDatabase
<1>2. db # Gone /\ store # Gone /\ db \in Databases
  BY Zenon, <1>1, SnapshotHasParts DEF SnapshotSteps
<1>3. t \in ToolStates /\ t.step = "list" /\ t.db = db
  BY Zenon, <1>1, <1>2 DEF ToolStates, MaybeDb, SnapshotSteps
<1>4. tool' = [tool EXCEPT ![p] = t]
  BY Zenon, <1>1 DEF SnapshotDatabase, AfterStep, ToolStates
<1> HIDE DEF t
<1>5. GoodSnapshot(t)
  BY Zenon, <1>2, <1>3 DEF GoodSnapshot
<1> QED
  BY Zenon, <1>1, <1>2, <1>3, <1>4, <1>5, SnapshotSame, SnapshotFrame
     DEF SnapshotDatabase, SnapshotSteps, disk

(* Listing the store for a snapshot preserves DataInv. *)
LEMMA ListStoreStep ==
    ASSUME DataInv, NEW p \in Owners, ListStore(p)
    PROVE  DataInv'
<1> DEFINE t == [tool[p] EXCEPT !.listed = store.files, !.step = "copy"]
<1>1. tool[p] \in ToolStates /\ tool \in [Owners -> ToolStates] /\ tool[p].step = "list"
  BY Zenon DEF DataInv, DataTyped, ToolsTyped, ListStore
<1>2. db # Gone /\ store # Gone /\ store \in Stores /\ Whole(db, store)
  BY Zenon, <1>1, SnapshotHasParts DEF SnapshotSteps
<1>3. t \in ToolStates /\ t.step = "copy" /\ t.db = tool[p].db /\ t.listed = store.files
  BY Zenon, <1>1, <1>2 DEF ToolStates, Stores, SnapshotSteps
<1>4. tool' = [tool EXCEPT ![p] = t]
  BY Zenon, <1>1 DEF ListStore, AfterStep, ToolStates
<1> HIDE DEF t
<1>5. t.db # Gone /\ Referenced(t.db.doc) \subseteq Referenced(db.doc)
  BY Zenon, <1>1, <1>3 DEF DataInv, SnapshotInv
<1>6. GoodSnapshot(t)
  BY Zenon, <1>2, <1>3, <1>5 DEF GoodSnapshot, Whole
<1> QED
  BY Zenon, <1>1, <1>2, <1>3, <1>4, <1>6, SnapshotSame, SnapshotFrame DEF ListStore, SnapshotSteps, disk

(* Copying a listed file into a snapshot preserves DataInv. *)
LEMMA CopyStoreStep ==
    ASSUME DataInv, NEW p \in Owners, CopyStore(p)
    PROVE  DataInv'
<1>1. tool[p] \in ToolStates /\ tool \in [Owners -> ToolStates] /\ tool[p].step = "copy"
  BY Zenon DEF DataInv, DataTyped, ToolsTyped, CopyStore
<1>2. db # Gone /\ store # Gone
  BY Zenon, <1>1, SnapshotHasParts DEF SnapshotSteps
<1>3. CASE tool[p].listed \subseteq store.files
  <2> DEFINE copied == [files |-> tool[p].listed, left |-> {}]
             t == [tool[p] EXCEPT !.store = copied, !.step = "manifest"]
  <2>1. copied \in Stores /\ copied # Gone /\ copied.files = tool[p].listed
    <3>1. copied \in Stores /\ copied.files = tool[p].listed
      BY Zenon, <1>1 DEF Stores, ToolStates
    <3> QED
      BY Zenon, <3>1, InPlace
  <2>2. tool' = [tool EXCEPT ![p] = t] /\ app' = app
    BY Zenon, <1>1, <1>3 DEF CopyStore, AfterStep, ToolStates
  <2> HIDE DEF copied
  <2>3. t \in ToolStates /\ t.step = "manifest" /\ t.db = tool[p].db /\ t.store = copied
    BY Zenon, <1>1, <2>1 DEF ToolStates, MaybeStore, SnapshotSteps
  <2> HIDE DEF t
  <2>4. /\ t.db # Gone /\ Referenced(t.db.doc) \subseteq Referenced(db.doc)
        /\ Referenced(t.db.doc) \subseteq copied.files
    BY Zenon, <1>1, <2>1, <2>3 DEF DataInv, SnapshotInv
  <2>5. GoodSnapshot(t)
    BY Zenon, <2>1, <2>3, <2>4 DEF GoodSnapshot, Whole
  <2> QED
    BY Zenon, <1>1, <1>2, <2>2, <2>3, <2>5, SnapshotSame, SnapshotFrame DEF CopyStore, SnapshotSteps, disk
<1>4. CASE ~(tool[p].listed \subseteq store.files)
  <2>1. /\ tool' = [tool EXCEPT ![p] = Idle]
        /\ app' = app \/ (p = "launcher" /\ app' = "down")
    BY Zenon, <1>4 DEF CopyStore
  <2>2. GoodSnapshot(Idle) /\ Idle \in ToolStates /\ Idle.step = "idle"
    BY Zenon, IdleTyped DEF GoodSnapshot
  <2> QED
    BY Zenon, <1>1, <2>1, <2>2, SnapshotSame, SnapshotFrame DEF CopyStore, SnapshotSteps, disk
<1> QED
  BY Zenon, <1>3, <1>4

(* Starting a backup preserves DataInv. *)
LEMMA BeginBackupStep ==
    ASSUME DataInv, BeginBackup
    PROVE  DataInv'
<1> DEFINE t == [Idle EXCEPT !.step = "db"]
<1>1. t \in ToolStates /\ t.step = "db" /\ "user" \in Owners
  BY Zenon, IdleTyped DEF Owners
<1>2. tool' = [tool EXCEPT !["user"] = t]
  BY Zenon DEF BeginBackup, Snapshotting, AfterStep
<1> HIDE DEF t
<1>3. CopiesTyped' /\ BackupIsComplete'
  BY Zenon, SpendShrinks, CopiesFrame DEF BeginBackup, Acts
<1>4. GoodSnapshot(t)
  BY Zenon, <1>1 DEF GoodSnapshot
<1> QED
  BY Zenon, <1>1, <1>2, <1>3, <1>4, SnapshotFrame DEF BeginBackup, SnapshotSteps, disk, kept

(* Publishing a backup by its manifest preserves DataInv. *)
LEMMA WriteManifestStep ==
    ASSUME DataInv, WriteManifest
    PROVE  DataInv'
<1> DEFINE s == Snapshot("user")
<1>1. tool \in [Owners -> ToolStates] /\ "user" \in Owners /\ tool["user"].step = "manifest"
  BY Zenon DEF DataInv, DataTyped, ToolsTyped, Owners, WriteManifest
<1>2. s \in Pairs /\ s.db = tool["user"].db /\ s.store = tool["user"].store
  BY Zenon, <1>1 DEF Snapshot, Pairs, ToolStates
<1>3. Whole(s.db, s.store)
  BY Zenon, <1>1, <1>2 DEF DataInv, SnapshotInv
<1>4. backups' = backups \cup {s} /\ tool' = [tool EXCEPT !["user"] = Idle]
  BY Zenon DEF WriteManifest
<1> HIDE DEF s
<1>5. CopiesTyped'
  BY Zenon, <1>2, <1>4 DEF DataInv, DataTyped, CopiesTyped, WriteManifest
<1>6. BackupIsComplete'
  BY Zenon, <1>3, <1>4 DEF DataInv, BackupIsComplete, Whole, WriteManifest
<1>7. GoodSnapshot(Idle) /\ Idle \in ToolStates /\ Idle.step = "idle"
  BY Zenon, IdleTyped DEF GoodSnapshot
<1> QED
  BY Zenon, <1>1, <1>4, <1>5, <1>6, <1>7, SnapshotFrame DEF WriteManifest, SnapshotSteps, disk

-----------------------------------------------------------------------------
(* A restore works with the application stopped: only the live parts, the
   parts moved aside and its own record change. *)
LEMMA MoveFrame ==
    ASSUME DataInv, app = "down", worker = FALSE, db' \in MaybeDb, store' \in MaybeStore,
           db' # Gone /\ store' # Gone => Whole(db', store'),
           NEW t \in ToolStates, tool' = [tool EXCEPT !["user"] = t],
           t.step \in {"idle", "drop"} \cup MoveSteps,
           UNCHANGED <<fly, app, worker, recorded, backups, rollbacks>>,
           CopiesTyped', RestoreInv'
    PROVE  DataInv'
<1>1. tool \in [Owners -> ToolStates] /\ "user" \in Owners /\ "launcher" \in Owners
  BY Zenon DEF DataInv, DataTyped, ToolsTyped, Owners
<1>2. /\ tool' \in [Owners -> ToolStates] /\ tool'["user"] = t
      /\ tool'["launcher"] = tool["launcher"]
  BY Zenon, <1>1
<1>3. /\ fly["api"] = NoWrite /\ fly["worker"] = NoWrite /\ tool["launcher"].step = "idle"
  BY Zenon DEF DataInv, RolesInv, Serving
<1>4. DiskTyped' /\ WritesTyped' /\ ToolsTyped' /\ BackupIsComplete'
  BY Zenon, <1>2 DEF DataInv, DataTyped, DiskTyped, WritesTyped, ToolsTyped, BackupIsComplete, Whole
<1>5. DiskInv'
  BY SMTT(30), <1>3 DEF DiskInv, NoWrite
<1>6. RolesInv'
  BY Zenon, <1>2, <1>3 DEF RolesInv, Running, Serving, SnapshotSteps, MoveSteps
<1>7. SnapshotInv'
  <2>1. \A p \in Owners : tool'[p].step \notin {"list", "copy", "manifest"}
    BY Zenon, <1>2, <1>3 DEF Owners, MoveSteps
  <2> QED
    BY Zenon, <2>1 DEF SnapshotInv
<1>8. RollbackInv'
  BY Zenon DEF DataInv, RollbackInv
<1> QED
  BY Zenon, <1>4, <1>5, <1>6, <1>7, <1>8 DEF DataInv, DataTyped

(* No later restore has anything aside, and the one that starts has nothing. *)
LEMMA NothingAsideYet ==
    ASSUME DataInv
    PROVE  /\ \A n \in 1..MaxRestores : n > Run => aside[n] = NothingAside
           /\ tool["user"].step = "move_db" =>
                 /\ db = last.old.db /\ store = last.old.store
                 /\ aside[Run].db = Gone /\ aside[Run].store = Gone
<1>1. /\ \A n \in 1..MaxRestores : n > Run => aside[n] = NothingAside
      /\ tool["user"].step = "move_db" =>
            db = last.old.db /\ store = last.old.store /\ aside[Run] = NothingAside
  BY Zenon DEF DataInv, RestoreInv
<1>2. NothingAside.db = Gone /\ NothingAside.store = Gone
  BY Zenon DEF NothingAside
<1> QED
  BY Zenon, <1>1, <1>2

(* The restore starts with both parts in place and nothing aside. *)
LEMMA BeginRestoreStep ==
    ASSUME DataInv, NEW b \in backups \cup rollbacks, BeginRestore(b)
    PROVE  DataInv'
<1> DEFINE t == [Idle EXCEPT !.step = "move_db", !.db = b.db, !.store = b.store]
<1>1. b \in Pairs /\ Whole(b.db, b.store)
  BY Zenon DEF DataInv, DataTyped, CopiesTyped, BackupIsComplete
<1>2. /\ t \in ToolStates /\ t.step = "move_db" /\ t.db = b.db /\ t.store = b.store
  BY Zenon, <1>1 DEF Idle, ToolStates, Pairs, MoveSteps
<1>3. /\ tool' = [tool EXCEPT !["user"] = t] /\ app = "down" /\ worker = FALSE
      /\ last' = [outcome |-> "running", old |-> [db |-> db, store |-> store],
                  new |-> b, run |-> last.run + 1]
      /\ UNCHANGED <<db, store, fly, app, worker, recorded, backups, rollbacks, aside>>
  BY Zenon DEF BeginRestore, disk, Run, DataInv, RolesInv
<1> HIDE DEF t
<1>4. /\ may' \in [Faults \cup Acts -> Nat] /\ may'["restore"] = may["restore"] - 1
      /\ may["restore"] > 0 /\ may["restore"] \in Nat
  <2>1. may["restore"] \in Nat
    BY Zenon DEF DataInv, DataTyped, CopiesTyped, Acts
  <2> QED
    BY Zenon, <2>1, SpendShrinks DEF BeginRestore, Acts, MayShrinks
<1>5. last.run \in Nat /\ last.run + may["restore"] <= MaxRestores /\ MaxRestores \in Nat
  BY SMTT(30), LocalAssumption DEF DataInv, DataTyped, CopiesTyped, Restores
<1>6. last.run + 1 \in 1..MaxRestores /\ last.run + 1 + may'["restore"] <= MaxRestores
  BY SMTT(30), <1>4, <1>5
<1>7. /\ last'.outcome = "running" /\ last'.old.db = db /\ last'.old.store = store
      /\ last'.new = b /\ last'.run = last.run + 1 /\ last' \in Restores
  <2>1. [db |-> db, store |-> store] \in Pairs
    BY Zenon DEF DataInv, DataTyped, DiskTyped, Pairs
  <2> QED
    BY SMTT(30), <1>1, <1>3, <1>6, <2>1 DEF Restores
<1>8. CopiesTyped'
  BY Zenon, <1>3, <1>4, <1>6, <1>7 DEF DataInv, DataTyped, CopiesTyped
<1>9. db \in MaybeDb /\ store \in MaybeStore /\ (db # Gone /\ store # Gone => Whole(db, store))
  BY Zenon DEF DataInv, DataTyped, DiskTyped, DiskInv
<1>10. tool'["user"] = t
  BY Zenon, <1>3 DEF DataInv, DataTyped, ToolsTyped, Owners
<1>11. /\ \A n \in 1..MaxRestores : n > last.run + 1 => aside[n] = NothingAside
       /\ aside[last.run + 1] = NothingAside
  <2>1. \A n \in 1..MaxRestores : n > last.run => aside[n] = NothingAside
    BY Zenon, NothingAsideYet DEF Run
  <2> QED
    BY SMTT(30), <1>5, <1>6, <2>1
<1>12. RestoreInv'
  BY ZenonT(30), <1>1, <1>2, <1>3, <1>6, <1>7, <1>9, <1>10, <1>11 DEF RestoreInv, Run, MoveSteps, Whole
<1> QED
  BY Zenon, <1>2, <1>3, <1>8, <1>9, <1>12, MoveFrame DEF MoveSteps

(* What holds at every step of a restore. *)
LEMMA MoveContext ==
    ASSUME DataInv, tool["user"].step \in MoveSteps
    PROVE  /\ app = "down" /\ worker = FALSE /\ last.outcome = "running" /\ last \in Restores
           /\ Run \in 1..MaxRestores /\ aside \in [1..MaxRestores -> Pairs]
           /\ aside[Run] \in Pairs /\ last.old \in Pairs
           /\ tool["user"] \in ToolStates /\ db \in MaybeDb /\ store \in MaybeStore
           /\ tool["user"].db = last.new.db /\ tool["user"].store = last.new.store
           /\ Whole(last.new.db, last.new.store)
           /\ (last.old.db # Gone /\ last.old.store # Gone => Whole(last.old.db, last.old.store))
           /\ \A n \in 1..MaxRestores : n > Run => aside[n] = NothingAside
<1>1. Restoring
  BY ZenonT(30) DEF Restoring, MoveSteps
<1>2. last.outcome = "running" /\ Run \in 1..MaxRestores
  BY Zenon DEF DataInv, RestoreInv
<1>3. aside \in [1..MaxRestores -> Pairs] /\ last \in Restores /\ last.old \in Pairs
  BY Zenon DEF DataInv, DataTyped, CopiesTyped, Restores
<1>4. tool["user"] \in ToolStates /\ db \in MaybeDb /\ store \in MaybeStore
  BY Zenon DEF DataInv, DataTyped, ToolsTyped, DiskTyped, Owners
<1>5. /\ tool["user"].db = last.new.db /\ tool["user"].store = last.new.store
      /\ Whole(last.new.db, last.new.store)
      /\ (last.old.db # Gone /\ last.old.store # Gone => Whole(last.old.db, last.old.store))
      /\ \A n \in 1..MaxRestores : n > Run => aside[n] = NothingAside
  BY Zenon, <1>2 DEF DataInv, RestoreInv
<1> QED
  BY ZenonT(30), <1>1, <1>2, <1>3, <1>4, <1>5, RestoringIsQuiet

(* A part is put aside, or taken back from there. *)
LEMMA DatabaseAside ==
    ASSUME NEW A \in [1..MaxRestores -> Pairs], NEW r \in 1..MaxRestores, NEW x \in MaybeDb
    PROVE  /\ [A EXCEPT ![r].db = x] = [A EXCEPT ![r] = [db |-> x, store |-> A[r].store]]
           /\ [db |-> x, store |-> A[r].store] \in Pairs
<1>1. A[r] \in Pairs
  BY SMTT(30)
<1>2. [A[r] EXCEPT !.db = x] = [db |-> x, store |-> A[r].store]
  BY SMTT(30), <1>1 DEF Pairs
<1>3. [A EXCEPT ![r].db = x] = [A EXCEPT ![r] = [A[r] EXCEPT !.db = x]]
  BY SMTT(30)
<1>4. [db |-> x, store |-> A[r].store] \in Pairs
  BY Zenon, <1>1 DEF Pairs
<1> QED
  BY Zenon, <1>2, <1>3, <1>4

(* Setting one store aside replaces the pair of that restore by a pair. *)
LEMMA StoreAside ==
    ASSUME NEW A \in [1..MaxRestores -> Pairs], NEW r \in 1..MaxRestores, NEW y \in MaybeStore
    PROVE  /\ [A EXCEPT ![r].store = y] = [A EXCEPT ![r] = [db |-> A[r].db, store |-> y]]
           /\ [db |-> A[r].db, store |-> y] \in Pairs
<1>1. A[r] \in Pairs
  BY SMTT(30)
<1>2. [A[r] EXCEPT !.store = y] = [db |-> A[r].db, store |-> y]
  BY SMTT(30), <1>1 DEF Pairs
<1>3. [A EXCEPT ![r].store = y] = [A EXCEPT ![r] = [A[r] EXCEPT !.store = y]]
  BY SMTT(30)
<1>4. [db |-> A[r].db, store |-> y] \in Pairs
  BY Zenon, <1>1 DEF Pairs
<1> QED
  BY Zenon, <1>2, <1>3, <1>4

(* The next step of a restore keeps its tool and what it installs. *)
LEMMA NextMove ==
    ASSUME DataInv, tool["user"].step \in MoveSteps, NEW to \in {"drop"} \cup MoveSteps,
           tool' = [tool EXCEPT !["user"].step = to]
    PROVE  \E t \in ToolStates :
              /\ tool' = [tool EXCEPT !["user"] = t] /\ tool'["user"] = t
              /\ t.step = to /\ t.db = tool["user"].db /\ t.store = tool["user"].store
<1> DEFINE t == [tool["user"] EXCEPT !.step = to]
<1>1. tool["user"] \in ToolStates /\ tool \in [Owners -> ToolStates] /\ "user" \in Owners
  BY Zenon DEF DataInv, DataTyped, ToolsTyped, Owners
<1>2. t \in ToolStates /\ t.step = to /\ t.db = tool["user"].db /\ t.store = tool["user"].store
  BY Zenon, <1>1 DEF ToolStates
<1>3. tool' = [tool EXCEPT !["user"] = t]
  BY Zenon, <1>1
<1> HIDE DEF t
<1>4. tool'["user"] = t
  BY Zenon, <1>1, <1>3
<1> QED
  BY Zenon, <1>2, <1>3, <1>4

(* Moving the live database aside preserves DataInv. *)
LEMMA MoveDatabaseStep ==
    ASSUME DataInv, MoveDatabaseAside
    PROVE  DataInv'
<1>1. tool["user"].step = "move_db" /\ tool["user"].step \in MoveSteps
  BY Zenon DEF MoveDatabaseAside, Step, MoveSteps
<1>2. PICK t \in ToolStates :
         /\ tool' = [tool EXCEPT !["user"] = t] /\ tool'["user"] = t
         /\ t.step = "move_store" /\ t.db = tool["user"].db /\ t.store = tool["user"].store
  BY Zenon, <1>1, NextMove DEF MoveDatabaseAside, Step, MoveSteps
<1>3. /\ db' = Gone /\ store' = store /\ last' = last /\ may' = may
      /\ UNCHANGED <<fly, app, worker, recorded, backups, rollbacks>>
  BY Zenon DEF MoveDatabaseAside, Step
<1>4. /\ aside' = [aside EXCEPT ![Run] = [db |-> db, store |-> aside[Run].store]]
      /\ [db |-> db, store |-> aside[Run].store] \in Pairs
  <2>1. aside' = [aside EXCEPT ![Run].db = db]
    BY Zenon DEF MoveDatabaseAside
  <2>2. aside \in [1..MaxRestores -> Pairs] /\ Run \in 1..MaxRestores /\ db \in MaybeDb
    BY Zenon, <1>1, MoveContext
  <2>3. /\ [aside EXCEPT ![Run].db = db]
               = [aside EXCEPT ![Run] = [db |-> db, store |-> aside[Run].store]]
        /\ [db |-> db, store |-> aside[Run].store] \in Pairs
    BY Zenon, <2>2, DatabaseAside
  <2> QED
    BY Zenon, <2>1, <2>3
<1>5. /\ aside' \in [1..MaxRestores -> Pairs] /\ aside'[Run].db = db
      /\ aside'[Run].store = aside[Run].store
      /\ \A n \in 1..MaxRestores : n # Run => aside'[n] = aside[n]
  BY Zenon, <1>1, <1>4, MoveContext
<1>6. CopiesTyped'
  BY Zenon, <1>3, <1>5 DEF DataInv, DataTyped, CopiesTyped
<1>7. db = last.old.db /\ store = last.old.store /\ aside[Run].store = Gone
  BY Zenon, <1>1, NothingAsideYet
<1>8. Run \in Nat /\ \A n \in 1..MaxRestores : n > Run => n # Run
  BY SMTT(30), <1>1, MoveContext
<1>9. RestoreInv'
  BY ZenonT(30), <1>1, <1>2, <1>3, <1>5, <1>7, <1>8, MoveContext DEF RestoreInv, Run, MoveSteps, Whole
<1>10. db' \in MaybeDb /\ store' \in MaybeStore
  BY Zenon, <1>1, <1>3, MoveContext DEF MaybeDb
<1> QED
  BY Zenon, <1>1, <1>2, <1>3, <1>6, <1>9, <1>10, MoveContext, MoveFrame DEF MoveSteps

(* Moving the live store aside preserves DataInv. *)
LEMMA MoveStoreStep ==
    ASSUME DataInv, MoveStoreAside
    PROVE  DataInv'
<1>1. tool["user"].step = "move_store" /\ tool["user"].step \in MoveSteps
  BY Zenon DEF MoveStoreAside, Step, MoveSteps
<1>2. PICK t \in ToolStates :
         /\ tool' = [tool EXCEPT !["user"] = t] /\ tool'["user"] = t
         /\ t.step = "install_db" /\ t.db = tool["user"].db /\ t.store = tool["user"].store
  BY Zenon, <1>1, NextMove DEF MoveStoreAside, Step, MoveSteps
<1>3. /\ store' = Gone /\ db' = db /\ last' = last /\ may' = may
      /\ UNCHANGED <<fly, app, worker, recorded, backups, rollbacks>>
  BY Zenon DEF MoveStoreAside, Step
<1>4. /\ aside' = [aside EXCEPT ![Run] = [db |-> aside[Run].db, store |-> store]]
      /\ [db |-> aside[Run].db, store |-> store] \in Pairs
  <2>1. aside' = [aside EXCEPT ![Run].store = store]
    BY Zenon DEF MoveStoreAside
  <2>2. aside \in [1..MaxRestores -> Pairs] /\ Run \in 1..MaxRestores /\ store \in MaybeStore
    BY Zenon, <1>1, MoveContext
  <2> QED
    BY ZenonT(30), <2>1, <2>2, StoreAside
<1>5. /\ aside' \in [1..MaxRestores -> Pairs]
      /\ aside'[Run] = [db |-> aside[Run].db, store |-> store]
      /\ \A n \in 1..MaxRestores : n # Run => aside'[n] = aside[n]
  BY Zenon, <1>1, <1>4, MoveContext
<1>6. CopiesTyped'
  BY Zenon, <1>3, <1>5 DEF DataInv, DataTyped, CopiesTyped
<1>7. db = Gone /\ aside[Run].db = last.old.db /\ store = last.old.store
  BY Zenon, <1>1 DEF DataInv, RestoreInv
<1>8. aside'[Run] = last.old
  BY Zenon, <1>1, <1>5, <1>7, MoveContext DEF Pairs
<1>9. Run \in Nat /\ \A n \in 1..MaxRestores : n > Run => n # Run
  BY SMTT(30), <1>1, MoveContext
<1>10. RestoreInv'
  BY ZenonT(30), <1>1, <1>2, <1>3, <1>5, <1>7, <1>8, <1>9, MoveContext DEF RestoreInv, Run, MoveSteps, Whole
<1>11. db' \in MaybeDb /\ store' \in MaybeStore
  BY Zenon, <1>1, <1>3, MoveContext DEF MaybeStore
<1> QED
  BY Zenon, <1>1, <1>2, <1>3, <1>6, <1>10, <1>11, MoveContext, MoveFrame DEF MoveSteps

(* Installing the restored database preserves DataInv. *)
LEMMA InstallDatabaseStep ==
    ASSUME DataInv, InstallDatabase
    PROVE  DataInv'
<1>1. tool["user"].step = "install_db" /\ tool["user"].step \in MoveSteps
  BY Zenon DEF InstallDatabase, Step, MoveSteps
<1>2. PICK t \in ToolStates :
         /\ tool' = [tool EXCEPT !["user"] = t] /\ tool'["user"] = t
         /\ t.step = "install_store" /\ t.db = tool["user"].db /\ t.store = tool["user"].store
  BY ZenonT(30), <1>1, NextMove DEF InstallDatabase, Step, MoveSteps
<1>3. /\ db' = tool["user"].db /\ store' = store /\ last' = last /\ may' = may /\ aside' = aside
      /\ UNCHANGED <<fly, app, worker, recorded, backups, rollbacks>>
  BY Zenon DEF InstallDatabase, Step
<1>4. CopiesTyped'
  BY Zenon, <1>3 DEF DataInv, DataTyped, CopiesTyped
<1>5. store = Gone /\ aside[Run] = last.old
  BY Zenon, <1>1 DEF DataInv, RestoreInv
<1>6. RestoreInv'
  BY ZenonT(30), <1>1, <1>2, <1>3, <1>5, MoveContext DEF RestoreInv, Run, MoveSteps, Whole
<1>7. db' \in MaybeDb /\ store' \in MaybeStore
  BY Zenon, <1>1, <1>3, MoveContext DEF ToolStates
<1> QED
  BY Zenon, <1>1, <1>2, <1>3, <1>4, <1>5, <1>6, <1>7, MoveContext, MoveFrame DEF MoveSteps

(* Installing the restored store preserves DataInv. *)
LEMMA InstallStoreStep ==
    ASSUME DataInv, InstallStore
    PROVE  DataInv'
<1>1. tool["user"].step = "install_store" /\ tool["user"].step \in MoveSteps
  BY Zenon DEF InstallStore, Step, MoveSteps
<1>2. PICK t \in ToolStates :
         /\ tool' = [tool EXCEPT !["user"] = t] /\ tool'["user"] = t
         /\ t.step = "drop" /\ t.db = tool["user"].db /\ t.store = tool["user"].store
  BY ZenonT(30), <1>1, NextMove DEF InstallStore, Step, MoveSteps
<1>3. /\ store' = tool["user"].store /\ db' = db /\ may' = may /\ aside' = aside
      /\ last' = [last EXCEPT !.outcome = "done"]
      /\ UNCHANGED <<fly, app, worker, recorded, backups, rollbacks>>
  BY Zenon DEF InstallStore, Step
<1>4. /\ last' \in Restores /\ last'.outcome = "done" /\ last'.new = last.new
      /\ last'.run = last.run
  BY Zenon, <1>1, <1>3, MoveContext DEF Restores
<1>5. CopiesTyped'
  BY Zenon, <1>3, <1>4 DEF DataInv, DataTyped, CopiesTyped
<1>6. db = last.new.db
  BY Zenon, <1>1 DEF DataInv, RestoreInv
<1>7. RestoreInv'
  BY Zenon, <1>1, <1>2, <1>3, <1>4, <1>6, MoveContext DEF RestoreInv, Run, MoveSteps
<1>8. db' \in MaybeDb /\ store' \in MaybeStore /\ Whole(db', store')
  BY Zenon, <1>1, <1>3, <1>6, MoveContext DEF ToolStates
<1> QED
  BY Zenon, <1>1, <1>2, <1>3, <1>5, <1>7, <1>8, MoveContext, MoveFrame

(* Both parts are in place when what was moved aside is dropped. *)
LEMMA DropStep ==
    ASSUME DataInv, DropOldCopies
    PROVE  DataInv'
<1>1. /\ tool["user"].step = "drop" /\ tool' = [tool EXCEPT !["user"] = Idle]
      /\ aside' = [aside EXCEPT ![Run] = NothingAside]
      /\ UNCHANGED <<db, store, fly, app, worker, recorded, backups, rollbacks, last, may>>
  BY Zenon DEF DropOldCopies, disk
<1>2. app = "down" /\ worker = FALSE
  BY Zenon, <1>1, RestoringIsQuiet DEF Restoring
<1>3. last.outcome = "done" /\ Run \in 1..MaxRestores
  BY Zenon, <1>1 DEF DataInv, RestoreInv
<1>4. aside \in [1..MaxRestores -> Pairs]
  BY Zenon DEF DataInv, DataTyped, CopiesTyped
<1>5. /\ aside' \in [1..MaxRestores -> Pairs] /\ aside'[Run] = NothingAside
      /\ \A n \in 1..MaxRestores : n # Run => aside'[n] = aside[n]
  BY Zenon, <1>1, <1>3, <1>4, IdleTyped
<1>6. CopiesTyped'
  BY Zenon, <1>1, <1>5 DEF DataInv, DataTyped, CopiesTyped
<1>7. tool'["user"] = Idle
  BY Zenon, <1>1 DEF DataInv, DataTyped, ToolsTyped, Owners
<1>8. RestoreInv'
  <2>1. tool'["user"].step = "idle"
    BY Zenon, <1>7, IdleTyped
  <2> QED
    BY ZenonT(30), <1>1, <1>3, <1>5, <2>1 DEF DataInv, RestoreInv, Run, MoveSteps
<1>9. db' \in MaybeDb /\ store' \in MaybeStore /\ (db' # Gone /\ store' # Gone => Whole(db', store'))
  BY Zenon, <1>1 DEF DataInv, DataTyped, DiskTyped, DiskInv
<1> QED
  BY Zenon, <1>1, <1>2, <1>6, <1>8, <1>9, IdleTyped, MoveFrame

(* Whatever had been moved when a move fails is still aside. *)
LEMMA MoveFailsStep ==
    ASSUME DataInv, MoveFails
    PROVE  DataInv'
<1>1. /\ tool["user"].step \in {"move_db", "move_store", "install_db", "install_store"}
      /\ tool["user"].step \in MoveSteps
  BY Zenon DEF MoveFails, MoveSteps
<1>2. PICK t \in ToolStates :
         /\ tool' = [tool EXCEPT !["user"] = t] /\ tool'["user"] = t
         /\ t.step = "undo_db" /\ t.db = tool["user"].db /\ t.store = tool["user"].store
  BY ZenonT(30), <1>1, NextMove DEF MoveFails, MoveSteps
<1>3. /\ db' = IF tool["user"].step = "install_store" THEN Gone ELSE db
      /\ store' = store /\ last' = last /\ aside' = aside
      /\ UNCHANGED <<fly, app, worker, recorded, backups, rollbacks>>
  BY Zenon DEF MoveFails, kept
<1>4. CopiesTyped'
  BY Zenon, <1>3, SpendShrinks, CopiesFrame DEF MoveFails, Faults, kept
<1>5. Held(last.old.db, db', aside[Run].db) /\ Held(last.old.store, store, aside[Run].store)
  <2>1. CASE tool["user"].step = "move_db"
    BY Zenon, <1>3, <2>1, NothingAsideYet DEF Held
  <2>2. CASE tool["user"].step = "move_store"
    BY ZenonT(30), <1>3, <2>2 DEF DataInv, RestoreInv, Held
  <2>3. CASE tool["user"].step = "install_db"
    BY ZenonT(30), <1>3, <2>3 DEF DataInv, RestoreInv, Held
  <2>4. CASE tool["user"].step = "install_store"
    BY ZenonT(30), <1>3, <2>4 DEF DataInv, RestoreInv, Held
  <2> QED
    BY Zenon, <1>1, <2>1, <2>2, <2>3, <2>4
<1>6. RestoreInv'
  BY ZenonT(30), <1>1, <1>2, <1>3, <1>5, MoveContext DEF RestoreInv, Run, MoveSteps, Whole, Held
<1>7. db' \in MaybeDb /\ store' \in MaybeStore /\ (db' # Gone /\ store' # Gone => Whole(db', store'))
  BY ZenonT(30), <1>1, <1>3, MoveContext DEF MaybeDb, DataInv, DiskInv
<1> QED
  BY Zenon, <1>1, <1>2, <1>3, <1>4, <1>6, <1>7, MoveContext, MoveFrame DEF MoveSteps

(* Moving the former database back after a failure preserves DataInv. *)
LEMMA UndoDatabaseStep ==
    ASSUME DataInv, UndoDatabase
    PROVE  DataInv'
<1>1. tool["user"].step = "undo_db" /\ tool["user"].step \in MoveSteps
  BY Zenon DEF UndoDatabase, Step, MoveSteps
<1>2. PICK t \in ToolStates :
         /\ tool' = [tool EXCEPT !["user"] = t] /\ tool'["user"] = t
         /\ t.step = "undo_store" /\ t.db = tool["user"].db /\ t.store = tool["user"].store
  BY Zenon, <1>1, NextMove DEF UndoDatabase, Step, MoveSteps
<1>3. /\ db' = IF aside[Run].db # Gone THEN aside[Run].db ELSE db
      /\ store' = store /\ last' = last /\ may' = may
      /\ UNCHANGED <<fly, app, worker, recorded, backups, rollbacks>>
  BY Zenon DEF UndoDatabase, Step
<1>4. Held(last.old.db, db, aside[Run].db) /\ Held(last.old.store, store, aside[Run].store)
  BY Zenon, <1>1 DEF DataInv, RestoreInv
<1>5. db' = last.old.db
  BY Zenon, <1>3, <1>4 DEF Held
<1> DEFINE back == [db |-> Gone, store |-> aside[Run].store]
<1>6. aside' = [aside EXCEPT ![Run] = back] /\ back \in Pairs
  <2>1. aside' = [aside EXCEPT ![Run].db = Gone] /\ Gone \in MaybeDb
    BY Zenon DEF UndoDatabase, MaybeDb
  <2>2. aside \in [1..MaxRestores -> Pairs] /\ Run \in 1..MaxRestores
    BY Zenon, <1>1, MoveContext
  <2>3. [aside EXCEPT ![Run].db = Gone] = [aside EXCEPT ![Run] = back] /\ back \in Pairs
    BY Zenon, <2>1, <2>2, DatabaseAside
  <2> QED
    BY Zenon, <2>1, <2>3
<1>7. back.db = Gone /\ back.store = aside[Run].store
  BY SMTT(30)
<1> HIDE DEF back
<1>8. /\ aside' \in [1..MaxRestores -> Pairs] /\ aside'[Run] = back
      /\ \A n \in 1..MaxRestores : n # Run => aside'[n] = aside[n]
  BY Zenon, <1>1, <1>6, MoveContext
<1>9. CopiesTyped'
  BY Zenon, <1>3, <1>8 DEF DataInv, DataTyped, CopiesTyped
<1>10. Run \in Nat /\ \A n \in 1..MaxRestores : n > Run => n # Run
  BY SMTT(30), <1>1, MoveContext
<1>11. RestoreInv'
  BY ZenonT(30), <1>1, <1>2, <1>3, <1>4, <1>5, <1>7, <1>8, <1>10, MoveContext
     DEF RestoreInv, Run, MoveSteps, Whole, Held
<1>12. db' \in MaybeDb /\ store' \in MaybeStore
  BY Zenon, <1>1, <1>3, <1>5, MoveContext DEF Pairs
<1>13. db' # Gone /\ store' # Gone => Whole(db', store')
  BY Zenon, <1>1, <1>3, <1>4, <1>5, MoveContext DEF Held
<1> QED
  BY Zenon, <1>1, <1>2, <1>3, <1>9, <1>11, <1>12, <1>13, MoveContext, MoveFrame DEF MoveSteps

(* Moving the former store back after a failure preserves DataInv. *)
LEMMA UndoStoreStep ==
    ASSUME DataInv, UndoStore
    PROVE  DataInv'
<1>1. tool["user"].step = "undo_store" /\ tool["user"].step \in MoveSteps
  BY Zenon DEF UndoStore, MoveSteps
<1>2. /\ store' = IF aside[Run].store # Gone THEN aside[Run].store ELSE store
      /\ db' = db /\ last' = [last EXCEPT !.outcome = "failed"] /\ may' = may
      /\ tool' = [tool EXCEPT !["user"] = Idle]
      /\ UNCHANGED <<fly, app, worker, recorded, backups, rollbacks>>
  BY Zenon DEF UndoStore
<1>3. db = last.old.db /\ Held(last.old.store, store, aside[Run].store)
  BY Zenon, <1>1 DEF DataInv, RestoreInv
<1>4. store' = last.old.store
  BY Zenon, <1>2, <1>3 DEF Held
<1>5. /\ last' \in Restores /\ last'.outcome = "failed" /\ last'.old = last.old
      /\ last'.run = last.run
  BY Zenon, <1>1, <1>2, MoveContext DEF Restores
<1> DEFINE back == [db |-> aside[Run].db, store |-> Gone]
<1>6. aside' = [aside EXCEPT ![Run] = back] /\ back \in Pairs
  <2>1. aside' = [aside EXCEPT ![Run].store = Gone] /\ Gone \in MaybeStore
    BY Zenon DEF UndoStore, MaybeStore
  <2>2. aside \in [1..MaxRestores -> Pairs] /\ Run \in 1..MaxRestores
    BY Zenon, <1>1, MoveContext
  <2>3. [aside EXCEPT ![Run].store = Gone] = [aside EXCEPT ![Run] = back] /\ back \in Pairs
    BY Zenon, <2>1, <2>2, StoreAside
  <2> QED
    BY Zenon, <2>1, <2>3
<1> HIDE DEF back
<1>7. /\ aside' \in [1..MaxRestores -> Pairs]
      /\ \A n \in 1..MaxRestores : n # Run => aside'[n] = aside[n]
  BY Zenon, <1>1, <1>6, MoveContext
<1>8. CopiesTyped'
  BY Zenon, <1>2, <1>5, <1>7 DEF DataInv, DataTyped, CopiesTyped
<1>9. Run \in Nat /\ \A n \in 1..MaxRestores : n > Run => n # Run
  BY SMTT(30), <1>1, MoveContext
<1>10. tool'["user"].step = "idle"
  <2>1. tool'["user"] = Idle
    BY Zenon, <1>2 DEF DataInv, DataTyped, ToolsTyped, Owners
  <2> QED
    BY Zenon, <2>1, IdleTyped
<1>11. RestoreInv'
  BY Zenon, <1>1, <1>2, <1>3, <1>4, <1>5, <1>7, <1>9, <1>10, MoveContext DEF RestoreInv, Run, MoveSteps
<1>12. db' \in MaybeDb /\ store' \in MaybeStore
  BY Zenon, <1>1, <1>2, <1>4, MoveContext DEF Pairs
<1>13. db' # Gone /\ store' # Gone => Whole(db', store')
  BY Zenon, <1>1, <1>2, <1>3, <1>4, MoveContext
<1> QED
  BY Zenon, <1>1, <1>2, <1>8, <1>11, <1>12, <1>13, IdleTyped, MoveContext, MoveFrame

(* A kill leaves both old parts, in place or aside, until both new ones are
   installed. *)
LEMMA KillToolStep ==
    ASSUME DataInv, KillTool
    PROVE  DataInv'
<1>1. /\ tool["user"].step # "idle" /\ tool' = [tool EXCEPT !["user"] = Idle] /\ MayShrinks
      /\ last' = IF last.outcome = "running" THEN [last EXCEPT !.outcome = "killed"] ELSE last
      /\ UNCHANGED <<db, store, fly, app, worker, recorded, backups, rollbacks, aside>>
  BY Zenon, SpendShrinks DEF KillTool, disk, Faults
<1>2. tool["user"] \in ToolStates /\ "user" \in Owners /\ tool'["user"].step = "idle"
  <2>1. tool["user"] \in ToolStates /\ "user" \in Owners /\ tool'["user"] = Idle
    BY Zenon, <1>1 DEF DataInv, DataTyped, ToolsTyped, Owners
  <2> QED
    BY Zenon, <2>1, IdleTyped
<1>3. tool["user"].step \in SnapshotSteps \cup {"drop"} \cup MoveSteps
  BY SMTT(30), <1>1, <1>2 DEF ToolStates
<1>4. (last.outcome = "running") <=> (tool["user"].step \in MoveSteps)
  BY Zenon DEF DataInv, RestoreInv
<1>5. db' \in MaybeDb /\ store' \in MaybeStore /\ (db' # Gone /\ store' # Gone => Whole(db', store'))
  BY Zenon, <1>1 DEF DataInv, DataTyped, DiskTyped, DiskInv
<1>6. CASE tool["user"].step \in SnapshotSteps
  <2>1. last' = last
    BY Zenon, <1>1, <1>4, <1>6 DEF SnapshotSteps, MoveSteps
  <2>2. CopiesTyped' /\ BackupIsComplete'
    BY Zenon, <1>1, <2>1, CopiesFrame DEF kept
  <2>3. GoodSnapshot(Idle) /\ Idle \in ToolStates /\ Idle.step = "idle"
    BY Zenon, IdleTyped DEF GoodSnapshot
  <2> QED
    BY Zenon, <1>1, <1>2, <1>6, <2>1, <2>2, <2>3, SnapshotFrame
<1>7. CASE tool["user"].step = "drop"
  <2>1. last' = last /\ last.outcome = "done"
    BY SMTT(30), <1>1, <1>4, <1>7 DEF DataInv, RestoreInv, MoveSteps
  <2>2. CopiesTyped'
    BY ZenonT(30), <1>1, <2>1, CopiesFrame DEF kept
  <2>3. RestoreInv'
    BY SMTT(30), <1>1, <1>2, <2>1 DEF DataInv, RestoreInv, Run, MoveSteps
  <2>4. app = "down" /\ worker = FALSE
    BY Zenon, <1>7, RestoringIsQuiet DEF Restoring
  <2> QED
    BY Zenon, <1>1, <1>5, <2>2, <2>3, <2>4, IdleTyped, MoveFrame
<1>8. CASE tool["user"].step \in MoveSteps
  <2>1. last' = [last EXCEPT !.outcome = "killed"]
    BY Zenon, <1>1, <1>4, <1>8
  <2>2. /\ last' \in Restores /\ last'.outcome = "killed" /\ last'.old = last.old
        /\ last'.run = last.run
    BY Zenon, <1>8, <2>1, MoveContext DEF Restores
  <2>3. CopiesTyped'
    <3>1. /\ may["restore"] \in Nat /\ may'["restore"] \in Nat /\ last.run \in Nat
          /\ MaxRestores \in Nat /\ may'["restore"] <= may["restore"]
          /\ last.run + may["restore"] <= MaxRestores
      BY SMTT(30), <1>1, LocalAssumption DEF DataInv, DataTyped, CopiesTyped, MayShrinks, Acts, Restores
    <3>2. last'.run + may'["restore"] <= MaxRestores
      BY SMTT(30), <2>2, <3>1
    <3> QED
      BY Zenon, <1>1, <2>2, <3>2 DEF DataInv, DataTyped, CopiesTyped, MayShrinks
  <2>4. last.old.db \in {db, aside[Run].db} /\ last.old.store \in {store, aside[Run].store}
    BY Zenon, <1>8 DEF DataInv, RestoreInv, Held, MoveSteps
  <2>5. RestoreInv'
    BY Zenon, <1>1, <1>2, <1>8, <2>2, <2>4, MoveContext DEF RestoreInv, Run, MoveSteps
  <2> QED
    BY Zenon, <1>1, <1>5, <1>8, <2>3, <2>5, IdleTyped, MoveContext, MoveFrame
<1> QED
  BY Zenon, <1>3, <1>6, <1>7, <1>8

(* Every step of the backup and restore tools preserves DataInv. *)
LEMMA ToolsKeep ==
    ASSUME DataInv, Tools
    PROVE  DataInv'
<1>1. \A p \in {"user", "launcher"} : p \in Owners
  BY Zenon DEF Owners
<1>2. CASE \E p \in {"user", "launcher"} : SnapshotDatabase(p) \/ ListStore(p) \/ CopyStore(p)
  BY Zenon, <1>1, <1>2, SnapshotDatabaseStep, ListStoreStep, CopyStoreStep
<1>3. CASE BeginBackup \/ WriteManifest \/ \E b \in backups \cup rollbacks : BeginRestore(b)
  BY Zenon, <1>3, BeginBackupStep, WriteManifestStep, BeginRestoreStep
<1>4. CASE \/ MoveDatabaseAside \/ MoveStoreAside \/ InstallDatabase \/ InstallStore
           \/ DropOldCopies \/ MoveFails \/ UndoDatabase \/ UndoStore \/ KillTool
  BY SMTT(30), <1>4, MoveDatabaseStep, MoveStoreStep, InstallDatabaseStep, InstallStoreStep, DropStep,
     MoveFailsStep, UndoDatabaseStep, UndoStoreStep, KillToolStep
<1> QED
  BY Zenon, <1>2, <1>3, <1>4 DEF Tools

(* Every initial installation satisfies DataInv. *)
LEMMA DataInit == Init => DataInv
<1> SUFFICES ASSUME Init PROVE DataInv
  BY SMTT(30)
<1>1. PICK c \in Cases :
         /\ db = [schema |-> c.schema, doc |-> c.doc] /\ store = StoreOf(c.doc)
         /\ backups = {[db |-> [schema |-> "legacy", doc |-> d], store |-> StoreOf(d)] : d \in c.older}
         /\ may = c.may
  BY Zenon DEF Init
<1>2. /\ fly = [p \in {"api", "worker"} |-> NoWrite] /\ app = "down" /\ worker = FALSE
      /\ recorded = <<0, "none">> /\ tool = [p \in {"user", "launcher"} |-> Idle] /\ rollbacks = {}
      /\ aside = [n \in 1..MaxRestores |-> NothingAside] /\ last = NoRestore
  BY Zenon DEF Init, Unrecorded
<1>3. /\ c.schema \in Schemas /\ c.may \in [Faults \cup Acts -> Nat] /\ c.may["restore"] <= MaxRestores
      /\ WellFormed(c.doc) /\ (\A d \in c.older : WellFormed(d)) /\ MaxRestores \in Nat
  BY Zenon, LocalAssumption
<1>4. ASSUME NEW d, WellFormed(d), NEW s \in Schemas
      PROVE  /\ [schema |-> s, doc |-> d] \in Databases /\ StoreOf(d) \in Stores
             /\ Whole([schema |-> s, doc |-> d], StoreOf(d))
  <2>1. d \in Docs
    BY Zenon, <1>4 DEF WellFormed
  <2>2. [schema |-> s, doc |-> d] \in Databases /\ [schema |-> s, doc |-> d].doc = d
    BY Zenon, <1>4, <2>1 DEF Databases
  <2>3. Referenced(d) \subseteq Paths
    BY SMTT(30), <1>4, <2>1 DEF Referenced, Paths, Versions, Docs, WellFormed
  <2>4. StoreOf(d) \in Stores /\ StoreOf(d).files = Referenced(d)
    BY Zenon, <2>3 DEF StoreOf, Stores
  <2> QED
    BY Zenon, <2>2, <2>4, InPlace DEF Whole
<1>5. /\ db \in Databases /\ store \in Stores /\ Whole(db, store)
  BY Zenon, <1>1, <1>3, <1>4
<1>6. \A b \in backups : b \in Pairs /\ Whole(b.db, b.store)
  <2> SUFFICES ASSUME NEW d \in c.older
               PROVE  LET b == [db |-> [schema |-> "legacy", doc |-> d], store |-> StoreOf(d)]
                      IN  b \in Pairs /\ Whole(b.db, b.store)
    BY Zenon, <1>1
  <2> DEFINE x == [schema |-> "legacy", doc |-> d]
             y == StoreOf(d)
  <2>1. x \in Databases /\ y \in Stores /\ Whole(x, y)
    BY Zenon, <1>3, <1>4 DEF Schemas
  <2> HIDE DEF x, y
  <2>2. [db |-> x, store |-> y] \in Pairs
    BY Zenon, <2>1 DEF Pairs, MaybeDb, MaybeStore
  <2> QED
    BY Zenon, <2>1, <2>2 DEF x, y
<1>7. NoRestore \in Restores /\ NoRestore.outcome = "none" /\ NoRestore.run = 0
  BY SMTT(30), <1>3, IdleTyped DEF NoRestore, Restores
<1>8. DataTyped
  <2>1. DiskTyped
    BY Zenon, <1>5 DEF DiskTyped, MaybeDb, MaybeStore
  <2>2. WritesTyped /\ ToolsTyped
    BY Zenon, <1>2, IdleTyped DEF WritesTyped, ToolsTyped, Roles, Owners
  <2>3. may["restore"] \in Nat /\ last.run + may["restore"] <= MaxRestores
    BY SMTT(30), <1>1, <1>2, <1>3, <1>7 DEF Acts
  <2>4. CopiesTyped
    BY Zenon, <1>1, <1>2, <1>3, <1>6, <1>7, <2>3, IdleTyped DEF CopiesTyped
  <2> QED
    BY Zenon, <2>1, <2>2, <2>4 DEF DataTyped
<1>9. RolesInv
  BY Zenon, <1>2, <1>5, <1>7, IdleTyped, InPlace DEF RolesInv, Running, Serving, SnapshotSteps
<1>10. DiskInv
  BY Zenon, <1>2, <1>5, IdleTyped DEF DiskInv
<1>11. SnapshotInv
  BY Zenon, <1>2, IdleTyped DEF SnapshotInv, Owners
<1>12. BackupIsComplete
  BY Zenon, <1>2, <1>6 DEF BackupIsComplete
<1>13. RestoreInv
  BY Zenon, <1>2, <1>7, IdleTyped DEF RestoreInv, MoveSteps, Run
<1>14. RollbackInv
  BY Zenon, <1>2 DEF RollbackInv
<1> QED
  BY Zenon, <1>8, <1>9, <1>10, <1>11, <1>12, <1>13, <1>14 DEF DataInv

-----------------------------------------------------------------------------
(* Every reachable state of the app, its tools and its documents satisfies the
   invariant. *)
THEOREM DataInvariant == Spec => []DataInv
<1>1. ASSUME DataInv, [Next]_vars
      PROVE  DataInv'
  <2>1. CASE Next
    BY Zenon, <1>1, <2>1, ToolsKeep, LauncherKeeps, DocumentsKeep DEF Next
  <2>2. CASE UNCHANGED vars
    <3>1. UNCHANGED <<db, store, fly, app, worker, contract, recorded, tool, backups, rollbacks,
                      aside, last, may>>
      BY Zenon, <2>2 DEF vars, kept
    <3>2. DataTyped' /\ BackupIsComplete'
      BY SMTT(30), <1>1, <3>1 DEF DataInv, DataTyped, DiskTyped, WritesTyped, ToolsTyped, CopiesTyped,
         BackupIsComplete
    <3>3. RolesInv' /\ DiskInv' /\ RollbackInv'
      BY SMTT(30), <1>1, <3>1 DEF DataInv, RolesInv, DiskInv, RollbackInv, Running, Serving, Restoring
    <3>4. SnapshotInv'
      BY ZenonT(30), <1>1, <3>1 DEF DataInv, SnapshotInv
    <3>5. RestoreInv'
      BY ZenonT(30), <1>1, <3>1 DEF DataInv, RestoreInv, Run
    <3> QED
      BY Zenon, <3>2, <3>3, <3>4, <3>5 DEF DataInv
  <2> QED
    BY Zenon, <1>1, <2>1, <2>2
<1> QED
  BY <1>1, DataInit, PTL DEF Spec

(* A backup with a manifest holds the file of every row of its database,
   whatever was written or removed while it was taken (snapshot_sqlite). *)
THEOREM BackupsAreComplete == Spec => []BackupIsComplete
<1>1. DataInv => BackupIsComplete
  BY Zenon DEF DataInv
<1> QED
  BY <1>1, DataInvariant, PTL

(* What is served is whole, after any number of kills, restores and
   clean-ups (ensure_data_dir_ready, _reconcile_storage). *)
THEOREM ServedStaysWhole == Spec => []ServedDataIsWhole
<1>1. ASSUME DataInv, Serving \/ worker
      PROVE  Whole(db, store)
  <2>1. Running
    BY Zenon, <1>1 DEF Running, Serving
  <2> QED
    BY Zenon, <1>1, <2>1 DEF DataInv, RolesInv, DiskInv
<1> QED
  BY <1>1, DataInvariant, PTL DEF ServedDataIsWhole

(* A restore replaces both parts or none, wherever it fails or is killed
   (_replace_restore_targets). *)
THEOREM RestoresAreAtomic == Spec => []RestoreIsAtomic
<1>1. ASSUME DataInv
      PROVE  RestoreIsAtomic
  <2>1. last.outcome = "running" => tool["user"].step \in MoveSteps
    BY ZenonT(30), <1>1 DEF DataInv, RestoreInv
  <2>2. last.outcome = "running" =>
           last.old.db \in {db, aside[Run].db} /\ last.old.store \in {store, aside[Run].store}
    BY ZenonT(30), <1>1, <2>1 DEF DataInv, RestoreInv, Held, MoveSteps
  <2> QED
    BY SMTT(30), <1>1, <2>2 DEF DataInv, RestoreInv, RestoreIsAtomic
<1> QED
  BY <1>1, DataInvariant, PTL

(* While the API starts, nothing but the upgrade itself changes the
   database. *)
LEMMA OnlyStartupMigrates ==
    ASSUME DataInv, Next, app \in {"starting", "migrating"}, db' # db
    PROVE  CreateAll \/ UpgradeSchema
<1>1. ~Serving /\ ~worker /\ ~Restoring
  BY Zenon, RunningHasNoRestore DEF DataInv, RolesInv, Running, Serving
<1>2. ~Documents
  BY Zenon, <1>1 DEF Documents, UploadOriginal, CommitOriginal, FinalizeOriginal, PublishDerivative,
     CommitExtraction, IndexDocument, Reprocess, Approve, Reject
<1>3. tool["user"].step \notin MoveSteps
  BY Zenon, <1>1 DEF Restoring, MoveSteps
<1>4. ~Tools
  <2>1. \A q \in Owners : ~(SnapshotDatabase(q) \/ ListStore(q) \/ CopyStore(q))
    BY Zenon DEF SnapshotDatabase, ListStore, CopyStore, disk
  <2>2. ~BeginBackup /\ ~WriteManifest /\ ~DropOldCopies /\ ~KillTool /\ ~MoveFails
    BY Zenon, <1>3 DEF BeginBackup, WriteManifest, DropOldCopies, KillTool, MoveFails, disk, MoveSteps
  <2>3. \A b \in backups \cup rollbacks : ~BeginRestore(b)
    BY Zenon DEF BeginRestore
  <2>4. ~(MoveDatabaseAside \/ MoveStoreAside \/ InstallDatabase \/ InstallStore)
    BY Zenon, <1>3 DEF MoveDatabaseAside, MoveStoreAside, InstallDatabase, InstallStore, MoveSteps, Step
  <2>5. ~UndoDatabase /\ ~UndoStore
    BY Zenon, <1>3 DEF UndoDatabase, UndoStore, MoveSteps, Step
  <2> QED
    BY Zenon, <2>1, <2>2, <2>3, <2>4, <2>5 DEF Tools, Owners
<1> QED
  BY Zenon, <1>2, <1>4 DEF Next, Launcher, StartApi, PublishRollback, ReconcileStorage, MarkUpgrade,
     StartWorker, StartFails, Stop, UpdateCode, KillApi, KillWorker, disk

(* The schema of a database only changes behind a published snapshot of the
   rows it has at that moment (prepare_sqlite_upgrade). *)
THEOREM UpgradesHaveRollback == Spec => UpgradeHasRollback
<1> DEFINE Behind == (app \in {"starting", "migrating"} /\ db' # db /\ db'.schema # db.schema) =>
                        (\E b \in rollbacks : b.db.doc = db.doc /\ Whole(b.db, b.store))
<1>1. DataInv /\ [Next]_vars => [Behind]_vars
  <2> SUFFICES ASSUME DataInv, Next, app \in {"starting", "migrating"}, db' # db,
                      db'.schema # db.schema
               PROVE  \E b \in rollbacks : b.db.doc = db.doc /\ Whole(b.db, b.store)
    BY SMTT(30)
  <2>1. db # Gone /\ db \in Databases
    BY Zenon, RunningHasNoRestore, PartsInPlace DEF Running
  <2>2. db.schema # "current"
    <3>1. CASE CreateAll
      BY Zenon, <3>1 DEF CreateAll
    <3>2. CASE UpgradeSchema
      BY SMTT(30), <3>2 DEF UpgradeSchema
    <3> QED
      BY Zenon, <3>1, <3>2, OnlyStartupMigrates
  <2>3. PICK b \in rollbacks : b.db.doc = db.doc
    BY Zenon, <2>2 DEF DataInv, RollbackInv
  <2> QED
    BY Zenon, <2>3 DEF DataInv, BackupIsComplete
<1> QED
  BY <1>1, DataInvariant, PTL DEF Spec, UpgradeHasRollback

(* The startup upgrade of any reachable database, whoever wrote it and
   wherever it was interrupted before, keeps what reports show
   (upgrade_sqlite_demo_schema). *)
THEOREM UpgradesKeepAuthority == Spec => UpgradeKeepsAuthority
<1> DEFINE Kept == (app = "migrating" /\ app' = "reconciling") => KeptByUpgrade(db.doc, db'.doc)
<1>1. DataInv /\ [Next]_vars => [Kept]_vars
  <2> SUFFICES ASSUME DataInv, Next, app = "migrating", app' = "reconciling"
               PROVE  KeptByUpgrade(db.doc, db'.doc)
    BY SMTT(30)
  <2>1. ~Tools /\ ~Documents
    <3>1. \A q \in Owners : ~(SnapshotDatabase(q) \/ ListStore(q) \/ CopyStore(q))
      BY Zenon DEF SnapshotDatabase, ListStore, CopyStore
    <3>2. ~BeginBackup /\ ~WriteManifest /\ ~DropOldCopies /\ ~KillTool /\ ~MoveFails
      BY Zenon DEF BeginBackup, WriteManifest, DropOldCopies, KillTool, MoveFails
    <3>3. \A b \in backups \cup rollbacks : ~BeginRestore(b)
      BY Zenon DEF BeginRestore
    <3>4. ~(MoveDatabaseAside \/ MoveStoreAside \/ InstallDatabase \/ InstallStore)
      BY Zenon DEF MoveDatabaseAside, MoveStoreAside, InstallDatabase, InstallStore, Step
    <3>5. ~UndoDatabase /\ ~UndoStore
      BY Zenon DEF UndoDatabase, UndoStore, Step
    <3>6. ~Tools
      BY Zenon, <3>1, <3>2, <3>3, <3>4, <3>5 DEF Tools, Owners
    <3>7. ~Documents
      BY Zenon DEF Documents, UploadOriginal, CommitOriginal, FinalizeOriginal, PublishDerivative,
         CommitExtraction, IndexDocument, Reprocess, Approve, Reject
    <3> QED
      BY Zenon, <3>6, <3>7
  <2>2. UpgradeSchema
    BY Zenon, <2>1 DEF Next, Launcher, StartApi, PublishRollback, CreateAll, ReconcileStorage,
       MarkUpgrade, StartWorker, StartFails, Stop, UpdateCode, KillApi, KillWorker
  <2>3. ~Refuses(db.doc) /\ db' = [schema |-> "current", doc |-> Upgraded(db.doc)]
    BY Zenon, <2>2 DEF UpgradeSchema
  <2>4. db'.doc = Upgraded(db.doc)
    BY Zenon, <2>3
  <2>5. WellFormed(db.doc)
    BY Zenon, RunningHasNoRestore, PartsInPlace DEF Running
  <2>6. KeptByUpgrade(db.doc, Upgraded(db.doc))
    BY Zenon, <2>3, <2>5, UpgradeIsSafe
  <2> QED
    BY Zenon, <2>4, <2>6
<1> QED
  BY <1>1, DataInvariant, PTL DEF Spec, UpgradeKeepsAuthority
====
