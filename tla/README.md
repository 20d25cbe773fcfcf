# Verification of Clerk-san

TLA+ modules for the parts of Clerk-san whose correctness depends on the order
in which transactions, processes and people act, and for the functions whose
corner cases decide what a person sees: the durable job queue, the life of a
document from upload to verification, the parser sidecar with its adapters, the
mapping of tables to records, the review of candidate batches with the bills they
create, the content-addressed store, and the local data directory with its
upgrades, backups and restores. TLC checks every module on small instances; TLAPS
proves most safety properties of all parts for every instance; what the format
adapters compute is left to TLC.

Definitions keep the names of the functions they translate; `PROJECT.json` maps
each one to its lines. A definition introduced as *Wrong variant* is a plausible
bug, kept next to the definition it alters to show that a property notices it;
no specification uses one.

## The system and its parts

A document is uploaded through the API (`api/routes/ingest.py`), which streams
the bytes into a quarantine file, decides what may become of them, publishes them
under their SHA-256 and commits a document, its source, an *intake* (the
processing state of one exact source) and a `process_document` job in one
transaction. Worker processes (`ingest/worker.py`) claim jobs from the `jobs`
table (`ingest/jobs.py`) under a lease, and run handlers (`ingest/pipeline.py`,
`search/indexer.py`) that parse, extract records and index text. A person maps
tables to records (`api/routes/mappings.py`), reviews what was extracted
(`review/queue.py`, `db/repositories.py`), approves or rejects it, replaces the
source or asks for it to be processed again. Approved recurring bills are kept by
`bills/`.

There are two profiles. *Legacy* keeps one reviewable extraction per document and
parses in the worker; *universal* parses in a sandboxed sidecar
(`ingest/parser_service.py`) and stages candidates in batches, which a reviewer
decides and activates as one cohort. The local edition runs on SQLite: a launcher
(`scripts/local-app.sh`, `tools/local_preview.py`) starts the API, which upgrades
the database (`db/sqlite_schema.py`).

| Part | Module | Extent |
| --- | --- | --- |
| Job queue, worker loop, leases, heartbeats | `JobQueue`, contract `JobContract`, proofs `JobQueueProofs` | whole |
| `process_document` (legacy), single-extraction review, source replacement, reprocessing, document index | `DocumentLifecycle`, proofs `DocumentLifecycleProofs` | whole for one document |
| Quarantine, publication, reconciler, upload idempotency, storage preflight | `UploadStorage`, proofs `UploadStorageProofs` | whole, except temporary manifest files and bit rot |
| Candidate batches, decisions, activation, rejection, candidate index, bills in force, payments, their triggers | `ReviewBatch`, proofs `ReviewBatchProofs` | financial and generic candidates |
| File inspection, intake policy | `IntakeDecision` | whole; rasters are one format, containers one |
| Parse limits, format adapters | `IngestLimits`, `ParseBudget`, `TabularAdapters`, `ContainerAdapters`, reference `ParseReference` | what each adapter reads, charges, refuses and emits |
| Parser registry, startup self tests | `ParserRegistry` | whole |
| Artifacts of a parse and their validation | `ParserArtifacts` | roles and pages; not the sealing of descriptors |
| Sidecar, runner, capability lease, preflight, previews | `ParserSidecar` (uses `ParserArtifacts` and `IntakeDecision`; `MCParserSidecar` gives it the adapters and the reference), proofs `ParserSidecarProofs` | whole, except byte framing |
| Staging, mapping rules, ledger | `StructuredMapping` | whole; dates and amounts by shape |
| Mapping routes, mapping batches, their index job and triggers | `MappingWorkflow` (uses `StructuredMapping`), proofs `MappingWorkflowProofs` | whole for one document |
| SQLite upgrade | `SqliteUpgrade` | what it does to rows |
| Launcher, API start, rollback snapshots, backup, restore | `LocalData` (uses `SqliteUpgrade`), proofs `LocalDataProofs` | SQLite; not the PostgreSQL archive |

`PROJECT.json` lists all components with their sources.

## How the modules correspond to the code

Every database transaction is one step; whatever the code does between two
transactions (an await, a model call, a wait for a heartbeat) is a point where
the other actors may move. Where a transaction itself is exposed, because it
reads before it locks, it is split at the lock. Changes of the file system are
one step each, since a kill may fall between any two.

**JobQueue.** State: the columns of a `jobs` row (`status`, `attempts`,
`leaseOwner`, `leaseLeft`, `delayLeft`, `completed`), the coroutine of each task
slot (`pc`, `taskJob`, `beating`), the processes with the answers of their
readiness probes. Timestamps are kept as the time that remains. `Enqueue`,
`Claim`/`ClaimNothing` (`claim_next` with `_bury_exhausted_expired_jobs` and its
terminal callback), `Heartbeat` (`renew_lease`), `MarkDone`, `RetryOrBury`,
`RecordFailure` and the steps of `_execute_claimed` are the operations; `Crash`,
`Stop`, `FinishFault`, `OutcomeFault` and `ReadinessLost` the faults. `lapsed` is
a history variable: the lease of this attempt ran out while it held it.

**JobContract.** What a row promises without workers, leases or time: insert,
attempt, retry, give up, finish, start over (rebuild rows). `JobQueue` refines it
with the identity mapping, and the simplified queue inside `DocumentLifecycle`
takes only its steps.

**DocumentLifecycle.** One document: originals, the intake of each, extractions,
`process_document` rows, worker slots, the search projection. A lease is current
or expired; `JobQueue` has its timing. A handler is `Begin` (reads, and possibly
a locked intake: `holds`) and `Commit` (everything under the document lock).
`AppendSource`, `Approve`, `Reject`, `Reprocess`, `RetryDerivatives` are the
requests, `IndexCommit` the chunk replacement. `met` records which kinds of fault
have happened.

**UploadStorage.** Requests with their program counter and shared lock, the
manifest and payload of each reservation, the blobs, the committed rows, the
reconciler under the exclusive lock. References are compared by digest alone, as
the code does. An idempotency key is reserved in a transaction of its own and
taken again when the rows are written (`SourceCompanion`).

**ReviewBatch.** Documents with their current source and counts of live jobs,
batches with lifecycle and version, candidates with status, latest decision and
revision, staged chunks, bills and the set in force, the reviewers' screens and
the index jobs. Each request is one step, because it locks the batch row first.
Two operations are split: the activation preview reads without locks
(`LookAtBatch`, `LookAtCandidates`), and the index job waits for embeddings
between `LoadIndexTarget` and `ReplaceChunks`. The activation vector is modelled
as the tuple of what it hashes. The triggers of `_install_phase4_triggers` are
predicates on a step (`BatchUpdateGuard` and the others).

**IngestLimits, ParseBudget, TabularAdapters, ContainerAdapters.** Pure operators. A *parse* is
a record that the adapter threads through its steps: an error, the counters of
`ParseBudget`, and what has been emitted. A source is abstract: cells, tokens,
members and pages with sizes, at one unit for a character, a run of text and its
output byte. The state machines inside the adapters (the HTML table parser, the
RTF group stack, the recursion into archives and messages) are kept step by step.
A GZip is of one of two formats, as in the code: in a `tgz` a TAR is expected, what
a `gz` holds is inspected like any other member.

**ParseReference** says independently, on the source alone, what is visible in it
(`Conserved`) and how large it is (`Bounded`).

**ParserArtifacts.** The files that a parse sends beside its document, and the
two validations: how many there may be, and which ones the document announces
(for a PDF preview, at least one page).

**ParserRegistry.** The handler of a format and the startup fixtures, which decide
what a build advertises.

**IntakeDecision.** `inspect_file` on the evidence that the bytes and the name
give, then `decide_intake` on the detected format, the registry and the intent.
The name counts for inert text, for delimited text and for a GZip only.

**ParserSidecar.** The server (one request at a time), the forked child, the
descriptors the server holds, the waiting connections and the replies of each
caller; the registry that the API and the worker probed, the capability lease;
for each upload its phase, and the store of pages, manifests and normalized
documents. Connecting and sending are one step. `ChildFails`, `ChildMisreports`,
`ClientTimeout`, `SidecarStop`/`SidecarStart` (another build, or one whose runtime
evidence does not verify), `ApiRestart` and `WorkerRestart` are the faults. The
retries of the queue are reduced to `Attempted`. `drift` is a history variable:
the builds that the heartbeat saw while an upload was claimed.
The protocol does not look into a parse, so the adapters are parameters of the
module: `Adapter` and `SelfTest` stand for `AdapterHandler` and `StartupSelfTest`
of `ParserRegistry`, `Shows` and `Fits` for `Conserved` and `Bounded` of
`ParseReference`. The run takes these very operators and evaluates
`AdapterAssumption`, what the protocol relies on, for each of its sources.

**StructuredMapping.** `build_staged_structure`, `stage_tabular_rows`,
`preview_mapping` and `apply_mapping_set` with the ledger, as functions. A cell
is a tuple that says how its text reads (`<<"comma", 1, 5>>` is 1,5), so that
parsing is a conversion and may fail. A digest is the value it is taken of. A
staged row is a function from column names to cells, as `stage_tabular_rows`
writes it (`RowValues`), while the structure that is mapped keeps every column
under a name of its own (`CanonicalHeaders`).

**MappingWorkflow.** One document: its current source and intake, the artifacts
that parser builds made of it, the staged rows, the `schema_mappings`,
`mapping_sets` and `extraction_batches` tables, what each session was shown and
the request it has under way. `AskX` is the unlocked first half of a route,
`WriteX` the locked second half. `Deploy` puts another build in place, a later or
an earlier one; a job processes only under the registry its evidence names
(`EvidenceIsCurrent`). Candidates follow from artifact and set and are
recomputed where a property needs them. The triggers of
`_install_phase3_triggers` are predicates on a step.

**SqliteUpgrade, LocalData.** The rows of one document stand for the database.
`SqliteUpgrade` is `upgrade_sqlite_demo_schema` as a function on them with the
conditions under which it raises. `LocalData` has the data directory (database
and store), the launcher's phases (`app`), the snapshot or restore that a tool is
running, the copies it has moved aside, the schema-state record, and the writes
of the API and the worker as far as they matter to a backup: publication, commit,
finalization. A restore needs a stopped application, as RUN_AND_DEMO.md asks of
the operator.

## Runs

| Run | Asks | Result |
| --- | --- | --- |
| `queue_leases` | do leases, retries, burials, late heartbeats and crashes keep rows within the contract, and attempts apart? | holds |
| `queue_universal` | does every row that a process is configured for settle, while models and sandbox come and go? | holds |
| `lifecycle_faults` | do review, status and search stay bound to the current source under kills, lapsed leases and database faults? | holds |
| `lifecycle_single` | without faults in processing, does every source get an outcome? | holds |
| `storage_faults` | is any committed or publishing file lost, or any retry answered with another document? | holds |
| `storage_orphans` | is everything left behind collected? | holds |
| `review_batches` | do authority, bills, payments and chunks move together across activations, and do the triggers agree? | holds |
| `sidecar` | is what gets stored the content of the source, does the server leak or hang, are previews whole, and does a build that nobody saw parse for a job? | holds |
| `mapping` | is every row decided once, is the batch what its author was shown, and are the staged rows those of the last job, also after a rollback? | holds |
| `local_data` | are backups and restored data whole, and does an upgrade keep the authority and have a rollback? | holds |
| `mapping_index` | are mapped candidates indexed, so that they can be activated? | violated |
| `local_restart` | does the local edition open its own data again? | violated |

What the properties say is in the comment above each one. The two violated runs:

* `mapping_index`. A mapping batch names its artifact by
  `canonical_digest(document.model_dump(mode="json"))` (`ingest/staging.py`), the
  stored artifact has the digest of `model_dump_json()` (`ingest/pipeline.py`),
  and `index_candidate_batch` looks one up by the other. Its job fails until it
  is dead; the included candidates have no chunks, and activation answers
  `candidate_search_chunks_missing` for ever, although mapped candidates are
  meant to be activated (`docs/decisions/local-first-react-frontend.md:29-30`).
* `local_restart`. A restart binds an approved legacy extraction to an active
  singleton batch. When the document is reprocessed and the new extraction
  approved, `promote` supersedes the old extraction and leaves its batch active.
  The next restart makes a second active batch of the document, the unique index
  refuses it, and the API serves `local_data_needs_upgrade` for data that only
  this code has written.

### Bounds

* *Queue*: two rows, one of them a rebuild row, two processes, two attempts (a
  first and a final one), a lease and a backoff of one tick (enough to be current
  or expired), two faults. Three attempts in `queue_universal` let the backoff
  reach its cap; its third row belongs to a retired registry, which nobody
  serves.
* *Lifecycle*: two sources, three jobs, two extractions, two attempts: enough for
  a replacement during an attempt, a reprocess under a known and under a new key,
  and a second extraction that supersedes the first. One fault per run.
* *Storage*: two uploads under one key with one worker handler that shares their
  digest, one kill, one I/O fault, one startup without a reference snapshot, one
  preflight. `storage_orphans` has uploads only: a derivative and an original of
  the same bytes count as one reference in the code, so the original's blob may
  outlive its last row.
* *Review*: two documents, three batches (d1 has one with a single financial
  candidate, then one with a financial and a generic candidate; d2 has one with
  a single financial candidate), one issuer and period that all three financial
  candidates may claim, one reviewer whose screen shows the two-candidate batch,
  one index job at a time, two events (replacement, reprocess, dead job), two
  live jobs per document.
* *Sidecar*: limits of two to eight units, and for each format all sources up to
  a small size with some on each side of every bound it charges (several hundred);
  files whose bytes and name disagree; every source alone without faults, one
  PDF with two faults, a text and an image with one (which an upgrade of the
  sidecar with the restarts that follow it takes), and two uploads at once;
  three builds, of which one advertises fewer formats and one lacks a required
  one; two attempts, one reprocess request.
* *Mapping*: two sessions, two keys each for mappings and applies (sessions and
  keys of a kind are interchangeable), two sources and two builds. Of the first
  source the builds read other cells from the same structure, of the second one
  a table or only text. A bill and a note mapping and one that is refused. Writing
  requests, replacements, dead jobs and rejections of a job's own batch share a
  pool of four events: enough for two mappings, a set and an apply; for a set that
  is applied under two keys; and, with the replacement, for a source whose mapped
  batch is rejected under a later build and whose next batch is rejected after
  that build was rolled back (a rollback to an older artifact takes three events).
  Deployments are not counted. The tables have repeated and blank headers, short,
  long and blank rows, null markers, amounts and dates that parse and that do not,
  and text beside them.
* *Local data*: every legacy document with one or two originals and up to two
  extractions of any status, source and verification, with and without
  derivatives, chunks and failed jobs (several thousand), under one kill during
  the upgrade; and four cases that go on to be used, backed up and restored, with
  one kill, one OSError, two restores and a code update between them.

Runs with a quiescent end (no more sources, requests or events within the bounds)
do not check deadlock; the queue, storage and sidecar runs do.

### Fairness

* `JobQueue`: time passes; running processes keep polling; a coroutine is not
  suspended for ever; processes are restarted and probes repeated (weak
  fairness). A row that is eligible again and again is claimed in the end
  (strong fairness on its claim): `claim_next` orders by `available_at`, which
  each retry moves behind the waiting rows. Heartbeats get none, so a stalled
  event loop is always possible.
* `DocumentLifecycle`: workers poll and coroutines go on. Reviewers and users owe
  nothing.
* `UploadStorage`: handlers run, reservations age, the database settles, a
  reconciler that started goes on. The shared lock is strongly fair, since
  `async_storage_lock` retries every 10 ms against reconcilers that end; the API
  is restarted again and again, since only startup and the preflight reconcile.
* `ParserSidecar`: the server thread and its timeouts run (weak fairness of
  `ServerStep`). The child is owed nothing and may hang before or after its
  answer; a stopped sidecar may stay stopped.
* `MappingWorkflow`: index jobs are executed; people owe nothing.
* `ReviewBatch` and `LocalData` have safety properties only.

### Assumptions about the environment

* A COMMIT whose client was killed settles within the ten-minute grace and before
  an operator runs the preflight (`SlowCommits = FALSE`). Without it
  `SourcesArePreserved` fails: the reconciler's second look at the references
  asks the snapshot it took at its start.
* `OneExtractionPerJob` and `PendingIsInReview` speak of behaviours in which
  workers are killed but no lease lapses under a live attempt and `mark_done`
  does not fail (`LeasesKept`). A lapsed lease lets a job extract twice, and a
  fault in `mark_done` can hide a pending extraction behind a failed document.
* The consents that an activation may require are given when asked for.
* An adapter is deterministic: a build makes the same parse of a source each
  time. A defective one is the fault `ChildMisreports`.
* The idempotency key of an apply request is never the key of a job: the browser
  sends a random UUID (or `local-` and a time), the pipeline writes `job:` and the
  job's id (`MappingAssumption`). `apply` itself accepts any key.
* The legacy rows of a local database were written by some release: a derivative
  was made from an original of its document (`WellFormed`).

## Proofs

`JobQueueProofs` proves, for any rows, processes, slots, attempts, lease, backoff
and number of faults, from the named assumptions of `JobQueue`:

| Theorem | States |
| --- | --- |
| `QueueInvariant` | `Spec => []IInv` |
| `AttemptsStayInBudget` | a row is claimed at most `job_max_attempts` times, and a queued row has an attempt left |
| `DoneRowsHaveResults` | a done row has a committed completion marker |
| `TerminalRowsAreFinal` | done and dead rows never change status |
| `LeasesAreRespected` | a lease with time left is released only by a slot of its owner |
| `LeaseExclusivity` | with one slot per process, two slots share a row only after a lease ran out |
| `QueueImplementsContract` | `JobQueue` implements `JobContract` |

*The argument.* None of the properties is inductive alone. `DoneHasResult` needs
that a slot about to call `mark_done` stands behind a recorded result
(`SlotsAreSound`); the budget needs that only running rows have owners and lease
time (`LeaseMatchesStatus`), because a burial may reset and claim a row in one
transaction; the contract's insert step needs that absent rows have no attempts.
Their conjunction `IInv` is inductive, and TLC checks it as an invariant of
`queue_universal`. The proof has a lemma per group of actions (poll, execute,
faults), each reduced to the row part and the slot part of the invariant. The
refinement and `TerminalIsFinal` follow from one lemma, that each step from
`IInv` is a contract step. `LeaseExclusivity` adds `UnlapsedSlotsHoldLease`: a
busy slot whose lease never ran out still holds it. That is preserved only when
the owner check identifies the slot, hence the hypothesis `OneSlotPerWorker`.

`UploadStorageProofs` proves, for any uploads, handlers, digests, keys and any
number of kills, I/O faults, outages and preflights:

| Theorem | States |
| --- | --- |
| `SourcesStay` | if commits settle in time, `Spec => []SourcesArePreserved` |
| `RetriesAreSafe` | `Spec => []RetryIsSameDocument`, without that hypothesis |
| `OrphansStayTracked` | `Spec => []OrphansAreTracked`, if commits settle in time and nothing is forgotten (`NothingIsForgotten`) |

*The argument.* A blob is safe from the reconciler for one of two reasons, and the
invariant says which holds when: a publisher holds the shared lock, which
excludes the reconciler (`LocksAreHeld`), and a commit that may still land has a
young manifest that the reconciler has seen (`ManifestsAreKept`,
`ReconcilerKnows`); the latter needs the hypothesis on commits. For retries,
`KeyInv` says that two requests never hold one key at once and that every answer
is a committed upload of the same key and digest. `OrphanInv` adds that a
reservation is finalized or dropped only behind its row or before its blob. Its
hypotheses are real limits of the code, not of the proof: after an OSError in
`discard_reservation`, or at a startup without a reference snapshot, a manifest
goes while its blob stays, and a derivative with the bytes of an original counts
as a reference to both, because the reconciler compares digests and not names.

`DocumentLifecycleProofs` proves, for any workers, sources, jobs, extractions,
attempts and faults:

| Theorem | States |
| --- | --- |
| `LifecycleInvariant` | `Spec => []LifeInv` |
| `ReviewStaysCurrent` | only the current source is offered for review, by one extraction |
| `StatusStaysTruthful` | in review, verified and failed each have a row of the current source behind them |
| `SearchStaysCurrent` | no chunk of a replaced source is left in the index |
| `HistoryStays` | no extraction is removed, rebound or revived |
| `RowsKeepContract` | the rows of this module take only steps of `JobContract` |
| `LeaseInvariant`, `OneExtractionHolds`, `PendingStaysInReview` | while leases are kept (`LeasesKept`), a job appends one extraction, and no pending one is hidden |
| `NoSourceIsStranded` | with one worker without processing faults (`SoleWorker`), a waiting source has a job that will process it |

*The argument.* `LifeInv` has a queue half (rows typed, busy slots bound to
rows of existing sources, queued rows with an attempt left) and a review half: a
pending extraction is the newest of the current source (`PendingIsLast`), at most
one is approved, and a status has its row. Every step is first shown to be a
`SoundMove` (rows keep source and key, completed stays completed, extractions
only age); what a step can do to the document is one lemma with six cases
(`DocumentMoves`). `LeaseInv` is conditional on `LeasesKept` and adds that a busy
slot holds its lease, that the only live work of the source is its newest job,
and that a decided extraction was retried at most once under its key. For
stranded sources, `StrandInv` says in addition that a running row is in the hands
of the worker, that retries take keys nobody used, and that a waiting source has
live work. The hypothesis is needed: with a kill or two workers a row whose result
is recorded but that is not settled yet still answers to its key, and a request
to reprocess finds that row instead of making one.

`ReviewBatchProofs` proves, for any documents, batches, candidates, bill keys,
reviewers and index jobs:

| Theorem | States |
| --- | --- |
| `ReviewInvariant` | `Spec => []ReviewInv` |
| `AuthorityHolds` | authority is one active cohort per document |
| `BillsHold` | bills in force are those of approved candidates, one per issuer and period |
| `ChunksHold` | staged chunks are of the current source, and the authority has them |
| `StaleBatchesStayInert` | a batch of a replaced source takes no decision |
| `PaymentsSurvive` | a paid bill stays paid when another candidate takes it over |
| `ActivationsWereShown` | what is activated is what was previewed |
| `TriggersStaySilent` | no trigger aborts a transaction |

*The argument.* The three invariants support each other: an activation retires
exactly the approved candidates (`RetiredIsAuthority`) only because authority was
one cohort before, and bills move with it only because the set in force was
that of the approved candidates. `ReviewInv` adds that pending candidates are of
the current source and that only a candidate once approved has a bill row.
Uniqueness is proved without counting and turned into cardinalities at the end
(`SequenceFacts`). The four action properties are proved from `ReviewInv` by the
disjuncts of `Next`; `ActivationsWereShown` rests on the activation vector being
the tuple of what it hashes.

`MappingWorkflowProofs` proves, for any sessions, keys, drafts, sources, builds
and normalized documents:

| Theorem | States |
| --- | --- |
| `MappingInvariant` | `Spec => []MappingInv` |
| `RequestsMakeOneBatch` | `Spec => []OneBatchPerRequest` |
| `RowsStayStaged` | `Spec => []StagedRowsMatch`: the staged rows hold, once each, the rows of one stored artifact, and that of the last job where it has tables |
| `RecordsWereShown` | `Spec => []RecordsAreThoseShown`, the first half of `AppliedIsWhatWasShown` |
| `LineageStays` | `Spec => [][LineageIsKept]_records`, all of `MappingTriggersNeverFire` but the counts of a batch |

*The argument.* A request carries what it read without a lock to the write under
the lock, so the invariant speaks of requests too (`RequestStands`): the artifact
that was read has the content that was shown, and a set to be written or applied
names stored mappings and has an application. Mappings and sets are written once
(`RowsArePermanent`), hence that stays true until the write, and the batch inherits
it (`BatchStands`). Two artifacts of the same content give the same records
(`AppliedByContent`). One batch per request needs that a key of a session is
never the key of a job (`MappingAssumption`): the browser draws a random UUID,
the pipeline writes `job:` and an id. `StagedRowsMatch` is stated on the cells of
the document and not on what `stage_tabular_rows` computes: each column that is the
last of its name holds the cell at its place, or a blank one in a short row.
`LastCellIsKept` and `StagingWritesRows` show that the function the code builds
satisfies it; with `SourceTyped` it is inductive (`SourceInv`), because a job
stores its artifact and replaces the rows in one step.

`ParserSidecarProofs` proves, for any uploads, sources, builds, callers, retries and
number of faults, and any adapters of which `AdapterAssumption` holds:

| Theorem | States |
| --- | --- |
| `SidecarInvariant` | `Spec => []SidecarInv` |
| `NothingEverLeaks` | the server holds what the request in hand accounts for, and nothing between two |
| `ParseIsAlwaysFaithful` | `Spec => []ParseIsFaithful`, if a parse that succeeds is faithful (`AdaptersAreFaithful`) |
| `DriftIsAlwaysSeen` | a document of one build meets the registry of another only if the heartbeat saw that build after the claim |
| `PreviewIsAlwaysWhole` | a stored preview has all its pages, of one build |
| `AlwaysAdmittedByContent` | what is kept or processed was admitted for its bytes, under a registry that can serve it; a name tells apart inert texts and the two formats of a GZip (`SignatureIgnoresName`) |

*The argument.* What arrives in the worker passed through the child, the server
and the wire, and each may fail on the way. `ChildInv` says that the message of a
child answers the request in hand and carries the parse of its source, perhaps
with other artifacts; `ValidIsParsed` that among those only the parse itself
passes the validation, because the document announces one sequence of artifacts
(`AnnouncedOnce`). `LinesInv` says that an open request is the only one of its
caller, which waits for it in the phase that sent it; so an answer that is
delivered is the answer to that request (`RepliesInv`), and the late answer to a
caller that gave up reaches nobody. The digest of a run is the registry of its job
or a build that the heartbeat saw since (`Stands`, `ClaimsInv`), and `_dispatch` compares it with
the build. The stored pages are those of the parse for one build (`StoreInv`),
since every build renders the same pages of a source. Admission needs that the
decision of a preflight still stands at the commit: the registry of the API
changes only by a restart, which drops the upload. The steps of the server and
those of the clients have a lemma for each of the two halves.

*The hypotheses.* `AdapterAssumption` is what an honest adapter sends: the announced
artifacts, one image for each page within the page limit. It admits a PDF without
pages, whose manifest alone `validate_result_artifact_set` then refuses.
`AdaptersAreFaithful` is the statement about the recursive adapters
that no prover here can establish; the run `sidecar` checks `ParseIsFaithful`
itself, with the adapters, for several hundred sources. A file whose bytes decode
as delimited text is a table before a package is looked for, so
`AdmittedByContent` speaks of packages that do not decode as text.

`LocalDataProofs` proves, for any contents, documents with any rows, kills,
failed moves and restores:

| Theorem | States |
| --- | --- |
| `UpgradeIsSafe` | an upgrade that is not refused keeps the authority, opens at most one review, and binds derivatives to their version (`KeptByUpgrade`) |
| `DataInvariant` | `Spec => []DataInv` |
| `BackupsAreComplete` | a published backup has the file of every row |
| `ServedStaysWhole` | served data has the file of every row |
| `RestoresAreAtomic` | a restore replaced both parts, or none |
| `UpgradesHaveRollback` | the schema changes only behind a whole snapshot of the same rows |
| `UpgradesKeepAuthority` | `UpgradeIsSafe`, at every upgrade that the specification can reach |

*The argument.* The database is copied before the store is listed, and files are
published before their rows and removed only unreferenced; so what a copied
database refers to stays a subset of what the live one refers to, and of the
files listed and copied later (`SnapshotInv`). `RolesInv` says who may be at work
together: nothing is served while a restore moves files. `RestoreInv` says at
each step of a restore which part is where, and that the place aside of later
restores is empty; every undo step then finds what it puts back. `RollbackInv`
keeps the snapshot of an interrupted upgrade equal to the rows until the schema is
current. All rows that any step writes stay `WellFormed`, which is what
`UpgradeIsSafe` asks of a document.

`SequenceFacts` has the facts about sequences and small sets that these proofs
share. TLC also finds the invariants `LifeInv`, `LeaseInv`, `StrandInv`, `ReviewInv`,
`MappingInv`, `SidecarInv`, `DataInv` and `OrphanInv` true of every state of the
instances of the runs.

Only model-checked:

* all liveness (`EveryJobSettles`, `EverySourceSettles`, `StorageSettles`,
  `CallersAreAnswered`), which needs fairness and `ENABLED` and is beyond the
  prover;
* `UnitsAreReconciled`, the counts of a preview in `AppliedIsWhatWasShown` and of a
  batch in `MappingTriggersNeverFire`: they count what folds over the rows of a
  table produce, an induction over data;
* what the adapters, the registry's self tests and the reference compute: they are
  recursive, so `ParserSidecarProofs` takes them as parameters (`AdaptersAreFaithful`).

## Observed while modelling, without a run

*Queue and lifecycle*

* `_require_running_lease` compares the lease owner, which all slots of a process
  share (`ingest/worker.py:406-407`). After its lease lapsed and a sibling slot
  reclaimed the row, the old attempt still passes the check, fails, and puts the
  row back in the queue while the sibling works. With one slot per process (the
  default) this cannot happen: it is the hypothesis of `LeaseExclusivity`, and
  TLC refutes `OverlapNeedsExpiry` without it.
* When `mark_done` fails after the handler committed, on the last attempt,
  `retry_or_bury` (`ingest/jobs.py:267`) buries the row although its completion
  marker is set. The expiry path checks the marker, this one does not.
* A kill leaves a job completed but `running`; a later job fails the document, and
  `prepare_reprocess` adopts the key of the completed job. Nothing is enqueued,
  and the re-queued intake has no job (TLC refutes `NoStrandedSource` with one
  kill, which is why `lifecycle_single` has no faults in processing).

*Storage*

* An `OSError` in `publish_reserved_blob` after `os.link` leaves `published`
  false, so the route discards the reservation, the only record of the blob
  (`routes/ingest.py:513`). `storage_orphans` therefore has no I/O faults.
* Of two concurrent uploads of the same new content neither may be annotated as a
  duplicate (`routes/ingest.py:451`): both look-ups precede both commits. It is a
  hint to the reader, nothing depends on it.

*Review*

* After the legacy `reject` of a singleton batch whose document has an older
  active batch, the document is verified with no approved candidate on its
  current source, and `prepare_reprocess` refuses it, although
  `db/repositories.py:1736` wants a rejected replacement to be retriable.
* `_replace_candidate_chunks` locks the document before the batch, activation and
  rejection the batch before the document; the database resolves the deadlock by
  aborting one.
* `_replace_candidate_chunks` locks the batch row without reloading it, so its
  lifecycle check uses the value read before the embeddings. The model does the
  same; no property suffers, since the chunks are a function of the candidates.
* A payment recorded between preview and activation invalidates the vector only
  when the new cohort takes that bill over; a cohort that drops the bill drops
  its payment. `PaymentSurvives` is therefore stated for bills that stay in force.
* Open batches of a replaced source stay open for ever (and inert:
  `StaleBatchesAreInert`).

*Sidecar and adapters*

* When the sidecar is upgraded while a job is claimed, the heartbeat's probe
  overwrites the worker's registry digest. The parse is accepted from the new
  build and stored under the job's old registry. Nothing in the repository forbids
  that, and `DriftWasSeen` does not exclude it: it says that this is the only way,
  so that a worker which has not seen the new build is refused, and
  `PreviewIsWhole` that pages of the two builds are not mixed.
* A connection that is opened and never written to blocks the server:
  `receive_request` has no timeout. The model has no such caller. Requests whose
  caller gave up are still executed, and a probe queued behind them may time out
  and fail the jobs the worker holds.
* The API's registry is read once per start; until then it admits what the new
  build cannot parse. Jobs of an old registry are never claimed after an upgrade,
  and a page slot whose manifest differs after one fails every reprocess.
* The registry digest covers the formats whose self test passed, so a spurious
  self-test failure is a new registry. A failed preflight is reported as
  `sandbox_unavailable` whatever its cause. A table of a `generic_file` is
  processed although the registry does not advertise that format.
* PDF text that contains the page separator makes `_normalized_after_pdf_ocr`
  count other pages than the manifest, and the job fails.
* A CSV file whose first bytes are `BM` or `MZ` is taken for a bitmap or an
  executable. The suffix `.tar.gz` in `inspect_file` never matches, because a
  suffix has one dot.
* Content that is not carried over, which `ParseReference` states as it is: text
  after the group of an RTF Unicode escape that has no fallback in it (the count
  to skip outlives the group), frames of an animation after the first, worksheet rows above a header and blocks that are only a
  header, text beside tables in structured sources, repeated child elements after
  the first. Nested XML tables appear twice.
* Headers made unique may collide again (`a`, `a__2`, `a`); the later column is
  then read for both.

*Mapping*

* A source without tables accepts an empty mapping set, which gives an empty batch
  beside a processed intake.
* `apply` reads the artifact before it locks, so its batch may be bound to an
  artifact that a reprocess has just replaced. Two applies with different keys
  give two open batches.
* After a rejection and a reprocess, applying again under the old key replays the
  rejected batch, and the intake stays in `needs_mapping`.
* If a registry is rolled back, the rows of the reused older artifact are staged
  while the routes show the newest one; an artifact without tables leaves the
  rows of an older build in place. `StagedRowsMatch` therefore speaks of the
  artifact of the last job, and of some stored artifact where that has no tables.
* Columns with one name share an entry of a staged row, which keeps the last cell,
  and cells beyond the header are dropped; the structure that is mapped keeps the
  former apart (`a`, `a__2`).
* Tables of one document with the same location would collide in the unique
  constraint of `spreadsheet_rows` and fail the job (`RowsAreApart`).
* `create_mapping` does not check that its columns exist (`create_mapping_set`
  does). The structure fingerprint does not cover the cells; the normalized
  digest does.

*Local data*

* A pending legacy extraction becomes an open singleton batch at a restart. It has
  no chunks, so its approval answers `candidate_search_chunks_missing`.
* `_bind_legacy_chunks` binds chunks of a newer, unreviewed source to the approved
  candidate of an older one.
* An ordinary restart upgrades rows without a rollback snapshot, and a start
  without the launcher has none either; a refused upgrade leaves its additive
  columns behind.
* `snapshot_sqlite` of a directory whose store is missing makes a backup that
  verifies, without documents.
* A kill or a second `OSError` while a restore is being undone leaves the
  `.before-restore` copies, which a person has to move back; nothing is lost
  (`RestoreIsAtomic`).
* When the API dies and the worker lives on, `start` fails until `stop` is called.

## Not modelled

* *Model calls* (`llm/`, `extract/`): what a model answers is a nondeterministic
  result where a handler uses it.
* *Embedded media* (`ingest/embedded_media.py`): media children of a source are
  published by the steps that `UploadStorage` has for handlers; the children's own
  rows are left out.
* *Duplicate detection, queries, exports and the web client* (`dedupe/`, `query/`,
  `export/`, `src/web`): they read or annotate; the rows they read are in
  `DocumentLifecycle`, `ReviewBatch` and `SqliteUpgrade`. The client's upload queue
  repeats requests under one key, which is how `UploadStorage` is driven.
* *Byte formats*: framing, the JSON of replies, spreadsheet and PDF internals and
  OCR; hashing is taken as injective.
* *PostgreSQL archives and migrations* (`tools/backup.py` in part,
  `db/migrate.py`): external tools do the work; the SQLite path is modelled.
* *Settings and the import script* (`config.py`, `tools/import_v1.py`): settings
  are constants, the import runs once.
* *Part of the repositories*: media children, the rebuild of the whole index, and
  batches without candidates in `ReviewBatch`.

## Running

    tlc -config MCJobQueue_leases.cfg MCJobQueue
    tlapm JobQueueProofs.tla

Each `.cfg` names its run after the module it instantiates. The longest runs are
`sidecar` (440 thousand states, two to four minutes), `lifecycle_faults` and
`storage_faults`; the others take up to two minutes.
