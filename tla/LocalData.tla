----------------------------- MODULE LocalData -----------------------------
(***************************************************************************)
(* The life of one local data directory: a SQLite file and a document      *)
(* store beside it.  The launcher (scripts/local-app.sh) prepares a        *)
(* rollback snapshot, starts the API, which upgrades the database, and     *)
(* records the schema when the core is ready (tools/local_preview.py); the *)
(* API and the worker write documents in the legacy profile; the user      *)
(* takes backups, also of a running system, and restores them while it is  *)
(* stopped (tools/backup.py).                                              *)
(*                                                                         *)
(* A database transaction is a step and every change of the file system is *)
(* a step, because a process may be killed between any two of them.  One   *)
(* document stands for the database; its rows are those of SqliteUpgrade.  *)
(***************************************************************************)
EXTENDS SqliteUpgrade

CONSTANTS
    Gone,          \* the file or directory does not exist
    Cases,         \* initial [doc, schema, older, may]: a database, older
                   \* documents that backups of it hold, and what may happen
    MaxVersions,   \* bound: originals of the document
    MaxCandidates, \* bound: extracted_records rows
    MaxRestores    \* bound: runs of restore-sqlite

Faults == {"kill", "oserror"}
Acts == {"upload", "review", "index", "backup", "restore", "update"}

(* create_all has not run, has run, and the upgrade has been committed. *)
Schemas == {"legacy", "partial", "current"}
Databases == [schema : Schemas, doc : {d \in Docs : WellFormed(d)}]
Paths == {"originals", "derivatives"} \X Contents
Stores == [files : SUBSET Paths, left : SUBSET Paths]

ASSUME LocalAssumption ==
    /\ Gone \notin Databases /\ Gone \notin Stores
    /\ \A n \in {MaxVersions, MaxCandidates, MaxRestores} : n \in Nat
    /\ \A c \in Cases : c.schema \in Schemas
    /\ \A c \in Cases : c.may \in [Faults \cup Acts -> Nat] /\ c.may.restore <= MaxRestores
    /\ \A c \in Cases : \A d \in {c.doc} \cup c.older : WellFormed(d)

VARIABLES
    db,        \* the live database, [schema, doc] or Gone
    store,     \* the live document store, [files, left] or Gone; left holds the
               \* publications whose quarantine manifest is not finalized
    fly,       \* [{"api", "worker"} -> the publication it has under way]
    app,       \* where the API process is, as the launcher drives it
    worker,    \* the worker process runs
    contract,  \* digest of the code that owns the schema
    recorded,  \* the schema-state record, <<contract, schema>>
    tool,      \* [{"user", "launcher"} -> the snapshot or restore it runs]
    backups,   \* backups that have a manifest
    rollbacks, \* published pre-upgrade snapshots
    aside,     \* [1..MaxRestores -> .before-restore copies of a database and a store]
    last,      \* the latest restore: its outcome, what it replaces and installs
    may        \* [Faults \cup Acts -> Nat], what may still happen

disk == <<db, store>>
kept == <<backups, rollbacks, aside, last>>
vars == <<db, store, fly, app, worker, contract, recorded, tool, kept, may>>

Idle == [step |-> "idle", db |-> Gone, store |-> Gone, listed |-> {}]
NoWrite == [step |-> "none", content |-> 0]
StoreOf(d) == [files |-> Referenced(d), left |-> {}]
NothingAside == [db |-> Gone, store |-> Gone]
NoRestore == [outcome |-> "none", old |-> NothingAside, new |-> NothingAside, run |-> 0]
Unrecorded == <<0, "none">>

Init ==
    \E c \in Cases :
        /\ db = [schema |-> c.schema, doc |-> c.doc]
        /\ store = StoreOf(c.doc)
        /\ fly = [p \in {"api", "worker"} |-> NoWrite]
        /\ app = "down" /\ worker = FALSE
        /\ contract = 1 /\ recorded = Unrecorded
        /\ tool = [p \in {"user", "launcher"} |-> Idle]
        /\ backups = {[db |-> [schema |-> "legacy", doc |-> d], store |-> StoreOf(d)] : d \in c.older}
        /\ rollbacks = {}
        /\ aside = [n \in 1..MaxRestores |-> NothingAside]
        /\ last = NoRestore
        /\ may = c.may

Spend(what) == may[what] > 0 /\ may' = [may EXCEPT ![what] = @ - 1]
Serving == app \in {"ready", "up"}
Restoring == tool["user"].step \notin {"idle", "db", "list", "copy", "manifest"}

-----------------------------------------------------------------------------
(* snapshot_sqlite, run by the user or by prepare_sqlite_upgrade: the database
   is copied through SQLite, then the store is listed and copied without its
   runtime files, then the manifest is written.  A listed file that is gone
   when it is read ends the copy with an error. *)

(* Wrong variant: the store is copied before the database. *)
AfterStepStoreFirst(step) ==
    CASE step = "begin" -> "list" [] step = "list" -> "copy"
      [] step = "copy" -> "db" [] step = "db" -> "manifest"

AfterStep(step) ==
    CASE step = "begin" -> "db" [] step = "db" -> "list"
      [] step = "list" -> "copy" [] step = "copy" -> "manifest"

Snapshotting(p) == tool' = [tool EXCEPT ![p] = [Idle EXCEPT !.step = AfterStep("begin")]]

SnapshotDatabase(p) ==
    /\ tool[p].step = "db"
    /\ tool' = [tool EXCEPT ![p].db = db, ![p].step = AfterStep("db")]
    /\ UNCHANGED <<disk, fly, app, worker, contract, recorded, kept, may>>

ListStore(p) ==
    /\ tool[p].step = "list"
    /\ tool' = [tool EXCEPT ![p].listed = store.files, ![p].step = AfterStep("list")]
    /\ UNCHANGED <<disk, fly, app, worker, contract, recorded, kept, may>>

CopyStore(p) ==
    /\ tool[p].step = "copy"
    /\ IF tool[p].listed \subseteq store.files
       THEN /\ tool' = [tool EXCEPT ![p].store = [files |-> tool[p].listed, left |-> {}],
                                      ![p].step = AfterStep("copy")]
            /\ UNCHANGED app
       ELSE /\ tool' = [tool EXCEPT ![p] = Idle]
            /\ app' = IF p = "launcher" THEN "down" ELSE app
    /\ UNCHANGED <<disk, fly, worker, contract, recorded, kept, may>>

Snapshot(p) == [db |-> tool[p].db, store |-> tool[p].store]

(* The operator backs up a data directory that has both of its parts. *)
BeginBackup ==
    /\ tool["user"].step = "idle"
    /\ db # Gone /\ store # Gone
    /\ Spend("backup")
    /\ Snapshotting("user")
    /\ UNCHANGED <<disk, fly, app, worker, contract, recorded, kept>>

WriteManifest ==
    /\ tool["user"].step = "manifest"
    /\ backups' = backups \cup {Snapshot("user")}
    /\ tool' = [tool EXCEPT !["user"] = Idle]
    /\ UNCHANGED <<disk, fly, app, worker, contract, recorded, rollbacks, aside, last, may>>

-----------------------------------------------------------------------------
(* The launcher.  ensure_data_dir_ready, no running worker, then
   prepare_sqlite_upgrade: nothing to do when the recorded state is the
   current one, else a snapshot that is verified, compared with the live data,
   restored once beside it, and published under its digest or reused. *)
DataDirReady == db # Gone /\ store # Gone

(* Wrong variant: only the code is compared with the record. *)
AlreadyVerifiedByCode == recorded[1] = contract

AlreadyVerified == recorded = <<contract, db.schema>>

(* _snapshot_matches_current, runtime files of the store aside. *)
MatchesCurrent(snapshot) == snapshot.db = db /\ snapshot.store.files = store.files

StartApi ==
    /\ app = "down" /\ ~worker /\ ~Restoring
    /\ DataDirReady
    /\ IF AlreadyVerified
       THEN app' = "starting" /\ UNCHANGED tool
       ELSE app' = "preparing" /\ Snapshotting("launcher")
    /\ last' = [NoRestore EXCEPT !.run = last.run]
    /\ UNCHANGED <<disk, fly, worker, contract, recorded, backups, rollbacks, aside, may>>

PublishRollback ==
    /\ app = "preparing" /\ tool["launcher"].step = "manifest"
    /\ rollbacks' = rollbacks \cup {b \in {Snapshot("launcher")} : MatchesCurrent(b)}
    /\ app' = IF MatchesCurrent(Snapshot("launcher")) THEN "starting" ELSE "down"
    /\ tool' = [tool EXCEPT !["launcher"] = Idle]
    /\ UNCHANGED <<disk, fly, worker, contract, recorded, backups, aside, last, may>>

(* _lifespan: create_all and the ALTER TABLE statements that precede the first
   write are committed one by one; the rest of the upgrade is a transaction. *)
CreateAll ==
    /\ app = "starting"
    /\ db' = IF db.schema = "legacy" THEN [db EXCEPT !.schema = "partial"] ELSE db
    /\ app' = "migrating"
    /\ UNCHANGED <<store, fly, worker, contract, recorded, tool, kept, may>>

UpgradeSchema ==
    /\ app = "migrating"
    /\ IF Refuses(db.doc)
       THEN app' = "refused" /\ UNCHANGED db
       ELSE /\ db' = [schema |-> "current", doc |-> Upgraded(db.doc)]
            /\ app' = "reconciling"
    /\ UNCHANGED <<store, fly, worker, contract, recorded, tool, kept, may>>

(* Wrong variant: a leftover manifest is enough to remove its file. *)
UnreferencedBlindly(aged) == aged

Unreferenced(aged) == aged \ Referenced(db.doc)

(* _reconcile_storage: of the publications whose manifests are old enough,
   those that no row refers to are removed. *)
ReconcileStorage ==
    /\ app = "reconciling"
    /\ \E aged \in SUBSET store.left :
          store' = [files |-> store.files \ Unreferenced(aged), left |-> store.left \ aged]
    /\ app' = "ready"
    /\ UNCHANGED <<db, fly, worker, contract, recorded, tool, kept, may>>

(* mark_sqlite_upgrade after core readiness; the worker is started next, and
   again when it is found dead. *)
MarkUpgrade ==
    /\ app = "ready"
    /\ recorded' = <<contract, db.schema>>
    /\ app' = "up"
    /\ UNCHANGED <<disk, fly, worker, contract, tool, kept, may>>

StartWorker ==
    /\ app = "up" /\ ~worker
    /\ worker' = TRUE
    /\ UNCHANGED <<disk, fly, app, contract, recorded, tool, kept, may>>

(* Core readiness never comes: cleanup_started_roles stops the API. *)
StartFails ==
    /\ app = "refused"
    /\ app' = "down"
    /\ UNCHANGED <<disk, fly, worker, contract, recorded, tool, kept, may>>

(* local-app.sh stop lets both roles finish what they are doing. *)
Stop ==
    /\ app = "up" \/ (app = "down" /\ worker)
    /\ \A p \in DOMAIN fly : fly[p] = NoWrite
    /\ app' = "down" /\ worker' = FALSE
    /\ UNCHANGED <<disk, fly, contract, recorded, tool, kept, may>>

UpdateCode ==
    /\ app = "down" /\ ~worker
    /\ Spend("update")
    /\ contract' = contract + 1
    /\ UNCHANGED <<disk, fly, app, worker, recorded, tool, kept>>

-----------------------------------------------------------------------------
(* The legacy profile at work: a file is published before the rows that refer
   to it are committed.  An upload leaves a quarantine manifest until it is
   finalized; a derivative has none. *)
SupersedePending(d) ==
    [d EXCEPT !.ext = [i \in Candidates(d) |->
        IF @[i].status = "pending" THEN [@[i] EXCEPT !.status = "superseded"] ELSE @[i]]]

(* append_original_version up to the link into the store. *)
UploadOriginal(c) ==
    /\ Serving /\ fly["api"] = NoWrite
    /\ Current(db.doc) < MaxVersions
    /\ \A v \in Versions(db.doc) : db.doc.orig[v] # c
    /\ Spend("upload")
    /\ store' = [files |-> store.files \cup {<<"originals", c>>},
                 left |-> store.left \cup {<<"originals", c>>}]
    /\ fly' = [fly EXCEPT !["api"] = [step |-> "published", content |-> c]]
    /\ UNCHANGED <<db, app, worker, contract, recorded, tool, kept>>

(* append_raw_source retires the review and the search text of the replaced
   source and adds the original with its intake.  SQLite has one writer, and
   the worker is one from before it publishes until it commits. *)
CommitOriginal ==
    LET d == SupersedePending(db.doc) IN
    /\ Serving
    /\ fly["api"].step = "published" /\ fly["worker"] = NoWrite
    /\ db' = [db EXCEPT !.doc = [d EXCEPT !.orig = Append(@, fly["api"].content),
                                          !.intake = Append(@, "queued"), !.chunks = {}]]
    /\ fly' = [fly EXCEPT !["api"].step = "committed"]
    /\ UNCHANGED <<store, app, worker, contract, recorded, tool, kept, may>>

(* finalize_reservation *)
FinalizeOriginal ==
    /\ fly["api"].step = "committed"
    /\ store' = [store EXCEPT !.left = @ \ {<<"originals", fly["api"].content>>}]
    /\ fly' = [fly EXCEPT !["api"] = NoWrite]
    /\ UNCHANGED <<db, app, worker, contract, recorded, tool, kept, may>>

(* process_document stores the normalized text of the current source. *)
PublishDerivative ==
    LET c == db.doc.orig[Current(db.doc)] IN
    /\ worker /\ fly["worker"] = NoWrite
    /\ db.doc.intake[Current(db.doc)] = "queued"
    /\ Len(db.doc.ext) < MaxCandidates
    /\ store' = [store EXCEPT !.files = @ \cup {<<"derivatives", c>>}]
    /\ fly' = [fly EXCEPT !["worker"] = [step |-> "published", content |-> c]]
    /\ UNCHANGED <<db, app, worker, contract, recorded, tool, kept, may>>

(* ... and commits the derivative, the extraction, which has no batch, and the
   processed intake. *)
CommitExtraction ==
    LET d == SupersedePending(db.doc)
        v == Current(d)
        row == [src |-> v, status |-> "pending", verified |-> FALSE, batch |-> "none"]
    IN
    /\ worker
    /\ fly["worker"].step = "published"
    /\ db' = [db EXCEPT !.doc =
                [d EXCEPT !.deriv = @ \cup {[content |-> fly["worker"].content, src |-> v]},
                          !.ext = Append(@, row), !.intake[v] = "processed"]]
    /\ fly' = [fly EXCEPT !["worker"] = NoWrite]
    /\ UNCHANGED <<store, app, worker, contract, recorded, tool, kept, may>>

(* index_document replaces the chunks of the document with unbound rows. *)
IndexDocument ==
    /\ worker
    /\ db.doc.intake[Current(db.doc)] = "processed"
    /\ Spend("index")
    /\ db' = [db EXCEPT !.doc.chunks = {[of |-> Current(db.doc), ext |-> 0]}]
    /\ UNCHANGED <<store, fly, app, worker, contract, recorded, tool, kept>>

(* review.approve.  VerifiedRepo.promote supersedes the previous approval and
   touches no batch; a candidate that has a batch goes through its activation,
   which wants a staged chunk and retires the active batch. *)
Promoted(d, i, bound) ==
    LET Row(j) ==
            IF j = i THEN [d.ext[j] EXCEPT !.status = "approved", !.verified = TRUE,
                                           !.batch = IF bound THEN "active" ELSE @]
            ELSE [d.ext[j] EXCEPT !.status = IF @ = "approved" THEN "superseded" ELSE @,
                                  !.batch = IF bound /\ @ = "active" THEN "superseded" ELSE @]
    IN  [d EXCEPT !.ext = [j \in Candidates(d) |-> Row(j)]]

Approve(i) ==
    LET bound == db.doc.ext[i].batch # "none" IN
    /\ Serving
    /\ Spend("review")
    /\ i \in Having(db.doc, "pending")
    /\ bound => /\ db.doc.ext[i].batch = "open" /\ db.doc.ext[i].src = Current(db.doc)
                /\ \E c \in db.doc.chunks : c.ext = i
    /\ db' = [db EXCEPT !.doc = Promoted(@, i, bound)]
    /\ UNCHANGED <<store, fly, app, worker, contract, recorded, tool, kept>>

(* review.reject *)
Reject(i) ==
    LET Rejected(row) == [row EXCEPT !.status = "rejected",
                                     !.batch = IF @ = "open" THEN "rejected" ELSE @]
    IN
    /\ Serving
    /\ Spend("review")
    /\ i \in Having(db.doc, "pending")
    /\ db.doc.ext[i].batch \in {"none", "open"}
    /\ db' = [db EXCEPT !.doc.ext[i] = Rejected(@)]
    /\ UNCHANGED <<store, fly, app, worker, contract, recorded, tool, kept>>

(* prepare_reprocess.  The document is verified when a candidate is approved,
   whatever source that one is of. *)
Reprocessable(d) ==
    LET v == Current(d)
        Decided(status) == \E i \in Having(d, status) : d.ext[i].src = v
    IN  \/ Decided("approved")
        \/ /\ Having(d, "approved") = {}
           /\ Decided("rejected") \/ d.intake[v] \in {"stored_unprocessed", "failed"}

Reprocess ==
    LET v == Current(db.doc) IN
    /\ Serving
    /\ Spend("review")
    /\ db.doc.intake[v] # "queued" /\ Having(db.doc, "pending") = {}
    /\ Len(db.doc.ext) < MaxCandidates
    /\ Reprocessable(db.doc)
    /\ db' = [db EXCEPT !.doc.intake[v] = "queued"]
    /\ UNCHANGED <<store, fly, app, worker, contract, recorded, tool, kept>>

-----------------------------------------------------------------------------
(* restore_sqlite: verify and stage, move both live parts aside, install both
   staged parts, drop what was moved.  An OSError of a move undoes what was
   done.  The operator runs it with the API and the worker stopped. *)
Run == last.run

BeginRestore(b) ==
    /\ tool["user"].step = "idle"
    /\ app = "down" /\ ~worker
    /\ Spend("restore")
    /\ tool' = [tool EXCEPT !["user"] = [Idle EXCEPT !.step = "move_db",
                                                     !.db = b.db, !.store = b.store]]
    /\ last' = [outcome |-> "running", old |-> [db |-> db, store |-> store],
                new |-> b, run |-> Run + 1]
    /\ UNCHANGED <<disk, fly, app, worker, contract, recorded, backups, rollbacks, aside>>

Step(from, to) ==
    /\ tool["user"].step = from
    /\ tool' = [tool EXCEPT !["user"].step = to]
    /\ UNCHANGED <<fly, app, worker, contract, recorded, backups, rollbacks, may>>

MoveDatabaseAside ==
    /\ Step("move_db", "move_store")
    /\ aside' = [aside EXCEPT ![Run].db = db]
    /\ db' = Gone
    /\ UNCHANGED <<store, last>>

MoveStoreAside ==
    /\ Step("move_store", "install_db")
    /\ aside' = [aside EXCEPT ![Run].store = store]
    /\ store' = Gone
    /\ UNCHANGED <<db, last>>

InstallDatabase ==
    /\ Step("install_db", "install_store")
    /\ db' = tool["user"].db
    /\ UNCHANGED <<store, aside, last>>

InstallStore ==
    /\ Step("install_store", "drop")
    /\ store' = tool["user"].store
    /\ last' = [last EXCEPT !.outcome = "done"]
    /\ UNCHANGED <<db, aside>>

DropOldCopies ==
    /\ tool["user"].step = "drop"
    /\ tool' = [tool EXCEPT !["user"] = Idle]
    /\ aside' = [aside EXCEPT ![Run] = NothingAside]
    /\ UNCHANGED <<disk, fly, app, worker, contract, recorded, backups, rollbacks, last, may>>

(* A move fails: an installed database is unlinked before the old parts come
   back. *)
MoveFails ==
    /\ tool["user"].step \in {"move_db", "move_store", "install_db", "install_store"}
    /\ Spend("oserror")
    /\ db' = IF tool["user"].step = "install_store" THEN Gone ELSE db
    /\ tool' = [tool EXCEPT !["user"].step = "undo_db"]
    /\ UNCHANGED <<store, fly, app, worker, contract, recorded, kept>>

UndoDatabase ==
    /\ Step("undo_db", "undo_store")
    /\ db' = IF aside[Run].db # Gone THEN aside[Run].db ELSE db
    /\ aside' = [aside EXCEPT ![Run].db = Gone]
    /\ UNCHANGED <<store, last>>

(* Wrong variant: the store that was moved aside is left there. *)
UndoStoreForgotten ==
    /\ tool["user"].step = "undo_store"
    /\ tool' = [tool EXCEPT !["user"] = Idle]
    /\ last' = [last EXCEPT !.outcome = "failed"]
    /\ UNCHANGED <<disk, fly, app, worker, contract, recorded, backups, rollbacks, aside, may>>

UndoStore ==
    /\ tool["user"].step = "undo_store"
    /\ tool' = [tool EXCEPT !["user"] = Idle]
    /\ store' = IF aside[Run].store # Gone THEN aside[Run].store ELSE store
    /\ aside' = [aside EXCEPT ![Run].store = Gone]
    /\ last' = [last EXCEPT !.outcome = "failed"]
    /\ UNCHANGED <<db, fly, app, worker, contract, recorded, backups, rollbacks, may>>

-----------------------------------------------------------------------------
(* Hard kills.  A publication dies with the process that made it and leaves
   its manifest; what a tool has moved stays where it is. *)
KillApi ==
    /\ app # "down"
    /\ Spend("kill")
    /\ app' = "down"
    /\ fly' = [fly EXCEPT !["api"] = NoWrite]
    /\ tool' = [tool EXCEPT !["launcher"] = Idle]
    /\ UNCHANGED <<disk, worker, contract, recorded, kept>>

KillWorker ==
    /\ worker
    /\ Spend("kill")
    /\ worker' = FALSE
    /\ fly' = [fly EXCEPT !["worker"] = NoWrite]
    /\ UNCHANGED <<disk, app, contract, recorded, tool, kept>>

KillTool ==
    /\ tool["user"].step # "idle"
    /\ Spend("kill")
    /\ tool' = [tool EXCEPT !["user"] = Idle]
    /\ last' = IF last.outcome = "running" THEN [last EXCEPT !.outcome = "killed"] ELSE last
    /\ UNCHANGED <<disk, fly, app, worker, contract, recorded, backups, rollbacks, aside>>

Tools ==
    \/ \E p \in {"user", "launcher"} : SnapshotDatabase(p) \/ ListStore(p) \/ CopyStore(p)
    \/ BeginBackup \/ WriteManifest
    \/ \E b \in backups \cup rollbacks : BeginRestore(b)
    \/ MoveDatabaseAside \/ MoveStoreAside \/ InstallDatabase \/ InstallStore
    \/ DropOldCopies \/ MoveFails \/ UndoDatabase \/ UndoStore \/ KillTool

Launcher ==
    \/ StartApi \/ PublishRollback \/ CreateAll \/ UpgradeSchema \/ ReconcileStorage
    \/ MarkUpgrade \/ StartWorker \/ StartFails \/ Stop \/ UpdateCode \/ KillApi \/ KillWorker

Documents ==
    \/ \E c \in Contents : UploadOriginal(c)
    \/ CommitOriginal \/ FinalizeOriginal \/ PublishDerivative \/ CommitExtraction
    \/ IndexDocument \/ Reprocess
    \/ \E i \in 1..MaxCandidates : Approve(i) \/ Reject(i)

Next == Tools \/ Launcher \/ Documents

Spec == Init /\ [][Next]_vars

-----------------------------------------------------------------------------
Whole(d, files) == d # Gone /\ files # Gone /\ Referenced(d.doc) \subseteq files.files

(* Every backup that has a manifest holds the file of each row of its
   database, also when it was taken while documents were written and left-over
   files were removed (snapshot_sqlite). *)
BackupIsComplete ==
    \A b \in backups \cup rollbacks : Whole(b.db, b.store)

(* Whenever the API serves or the worker runs, the file of every row is in the
   store: across kills, failed and repeated restores, and the removal of
   left-over files at startup (ensure_data_dir_ready, _reconcile_storage). *)
ServedDataIsWhole ==
    Serving \/ worker => Whole(db, store)

(* A restore replaces both parts or none: one that fails puts both old parts
   back, one that ends has installed both parts of its backup, and until then
   each old part exists, in place or aside, even after a kill
   (_replace_restore_targets). *)
RestoreIsAtomic ==
    CASE last.outcome \in {"running", "killed"} ->
            /\ last.old.db \in {db, aside[Run].db}
            /\ last.old.store \in {store, aside[Run].store}
      [] last.outcome = "failed" -> <<db, store>> = <<last.old.db, last.old.store>>
      [] last.outcome = "done" -> <<db, store>> = <<last.new.db, last.new.store>>
      [] OTHER -> TRUE

(* The schema of a database is only changed when a published snapshot holds
   the rows it has at that moment with all their files, also when an earlier
   start was killed half way or an old backup was restored
   (prepare_sqlite_upgrade, mark_sqlite_upgrade). *)
UpgradeHasRollback ==
    [][(app \in {"starting", "migrating"} /\ db' # db /\ db'.schema # db.schema) =>
         (\E b \in rollbacks : b.db.doc = db.doc /\ Whole(b.db, b.store))]_vars

(* An upgrade that is not refused keeps what reports show, opens a review only
   for the current source and at most one, and binds a derivative to the version
   it was made from (_backfill_source_intakes,
   _backfill_legacy_extraction_batches, _upgrade_document_files). *)
UpgradeKeepsAuthority ==
    [][(app = "migrating" /\ app' = "reconciling") => KeptByUpgrade(db.doc, db'.doc)]_vars

(* A database that this code wrote is served again after a restart: the
   startup upgrade does not refuse it. *)
RestartServesOwnData == app # "refused"
=============================================================================
