-------------------------- MODULE MappingWorkflow --------------------------
(***************************************************************************)
(* One generic upload whose tables people map to records: the job that     *)
(* normalizes and stages the source (ingest/pipeline.py), the requests of  *)
(* api/routes/mappings.py with the repositories behind them, and the job   *)
(* that indexes the candidates (search/indexer.py).                        *)
(*                                                                         *)
(* A mapping request runs in two steps.  It first reads the source and its *)
(* newest normalized artifact without a lock and compares both with what   *)
(* its sender was shown; later it locks the document, checks the source    *)
(* once more and writes.  The source may be replaced, reprocessed or       *)
(* mapped by somebody else in between.  A refused request changes nothing  *)
(* and is not a step.  A reply that is lost and sent again is a request    *)
(* with the same key.                                                      *)
(***************************************************************************)
EXTENDS StructuredMapping, TLC

CONSTANTS
    Users,        \* browser sessions
    Keys,         \* idempotency keys the sessions use for mappings, sets and batches
    Drafts,       \* name -> what a session drafts: a table locator with field rules,
                  \* required fields, kind and subtype
    Normalized,   \* [1..MaxSources -> [1..MaxBuild -> normalized document]]: what
                  \* the parser of a build makes of a source
    MaxSources,   \* bound: originals of the document
    MaxBuild,     \* bound: parser builds
    MaxEvents,    \* bound: writing requests, replaced sources, dead jobs, retries and
                  \* rejected batches of jobs
    Nothing       \* no view, no request

(* A session draws its keys at random, and the key of a batch that a job makes is
   "job:" with the id of the job. *)
ASSUME MappingAssumption ==
    /\ MaxSources \in Nat \ {0} /\ MaxBuild \in Nat \ {0}
    /\ MaxEvents \in Nat
    /\ DOMAIN Normalized = 1..MaxSources
    /\ \A v \in 1..MaxSources : DOMAIN Normalized[v] = 1..MaxBuild
    /\ \A v \in 1..MaxSources, b \in 1..MaxBuild : \A i \in DOMAIN Normalized[v][b].tables :
        LET header == Normalized[v][b].tables[i].header IN header \in Seq(Range(header))
    /\ \A k \in Keys.apply : k \notin {"job"} \X Nat

VARIABLES
    src,       \* version of the current original
    doc,       \* [status, intake, job, build]: the document, the intake of the current
               \* source, its process_document job ("none", "queued" or "running") and
               \* the registry that job is bound to
    build,     \* the registry of the running deployment
    arts,      \* normalized artifacts of the current source, oldest first, each by the
               \* registry in its provenance
    rows,      \* spreadsheet_rows of the current source
    maps,      \* schema_mappings: id -> [art, draft], which determine the contract
    sets,      \* mapping_sets: id -> [art, ids], the artifact whose structure it is
               \* bound to and for each table a mapping id, or Nothing to ignore it
    batches,   \* extraction_batches in order of creation, with their index jobs; the
               \* candidates of a batch follow from its artifact and its set
    view,      \* [Users -> the source and structure last displayed]
    req,       \* [Users -> the request that has read and not yet written]
    events     \* 0..MaxEvents, events still to come

source  == <<src, doc, build, arts, rows>>
records == <<maps, sets, batches>>
clients == <<view, req>>
vars    == <<source, records, clients, events>>

Init ==
    /\ src = 1
    /\ doc = [status |-> "uploaded", intake |-> "queued", job |-> "queued", build |-> 1]
    /\ build = 1
    /\ arts = <<>>
    /\ rows = {}
    /\ maps = <<>>
    /\ sets = <<>>
    /\ batches = <<>>
    /\ view = [u \in Users |-> Nothing]
    /\ req = [u \in Users |-> Nothing]
    /\ events = MaxEvents

Spend == events > 0 /\ events' = events - 1

-----------------------------------------------------------------------------
(* Processing the source.  The worker claims only jobs of its own registry. *)
Claim ==
    /\ doc.job = "queued"
    /\ doc.build = build
    /\ doc' = [doc EXCEPT !.job = "running", !.intake = "processing"]
    /\ UNCHANGED <<src, build, arts, rows, records, clients, events>>

(* _load_or_create_universal_normalized: an artifact with the provenance of this
   registry is used again. *)
Persisted == IF build \in Range(arts) THEN arts ELSE Append(arts, build)

(* The sha256 of a stored artifact is that of its model_dump_json bytes, which
   are not the canonical JSON that build_staged_structure digests. *)
ArtifactSha(v, art) == <<"json", Normalized[v][art]>>

(* A batch of the current source, bound to the content of one artifact. *)
NewBatch(key, set, art, shown, app) ==
    [src |-> src, key |-> key, set |-> set, art |-> art, shown |-> shown, life |-> "open",
     index |-> IF app.cands = <<>> THEN "none" ELSE "queued", chunked |-> FALSE]

(* _load_or_create_universal_normalized refuses a job whose evidence names another
   registry than the running one; the attempt fails. *)
EvidenceIsCurrent == doc.build = build

(* process_document of a generic file with tables: artifact, staged rows and the
   state that asks for a mapping are one transaction. *)
ProcessTables ==
    /\ doc.job = "running"
    /\ EvidenceIsCurrent
    /\ Normalized[src][build].tables # <<>>
    /\ RowsAreApart(Normalized[src][build])
    /\ arts' = Persisted
    /\ rows' = StageTabularRows(rows, Normalized[src][build])
    /\ doc' = [doc EXCEPT !.job = "none", !.status = "normalized", !.intake = "needs_mapping"]
    /\ UNCHANGED <<src, build, records, clients, events>>

(* _persist_generic_candidate_batch: one candidate for the text, or none. *)
BodyCandidate(v, d) ==
    IF d.residual = Null THEN [cands |-> <<>>, decisions |-> <<>>]
    ELSE AddCandidate([cands |-> <<>>, decisions |-> <<>>], v, <<"document", "body">>,
                      d.residual, "generic", "none", 1,
                      [payload |-> [content |-> d.residual], issues |-> {}], "residual")

(* process_document of a generic file without tables.  The rows an earlier build
   staged stay. *)
ProcessText ==
    /\ doc.job = "running"
    /\ EvidenceIsCurrent
    /\ Normalized[src][build].tables = <<>>
    /\ arts' = Persisted
    /\ batches' = Append(batches, NewBatch(<<"job", Len(batches)>>, Nothing, build, build,
                                           BodyCandidate(src, Normalized[src][build])))
    /\ doc' = [doc EXCEPT !.job = "none", !.status = "in_review", !.intake = "processed"]
    /\ UNCHANGED <<src, build, rows, maps, sets, clients, events>>

(* The last attempt fails: _mark_terminal_processing_failure. *)
JobDies ==
    /\ doc.job = "running"
    /\ doc' = [doc EXCEPT !.job = "none", !.status = "failed", !.intake = "failed"]
    /\ Spend
    /\ UNCHANGED <<src, build, arts, rows, records, clients>>

Queued == [doc EXCEPT !.job = "queued", !.build = build, !.intake = "queued",
                      !.status = "needs_reprocess"]

(* reprocess_intake of a failed source; other states refuse it or belong to the
   review of verified records. *)
Reprocess ==
    /\ doc.status = "failed"
    /\ doc' = Queued
    /\ UNCHANGED <<src, build, arts, rows, records, clients, events>>

(* append_original_version; jobs of the replaced source are skipped and its
   chunks deleted. *)
ReplaceSource ==
    /\ src < MaxSources
    /\ src' = src + 1
    /\ doc' = Queued
    /\ arts' = <<>>
    /\ rows' = {}
    /\ batches' = [b \in DOMAIN batches |-> [batches[b] EXCEPT !.chunked = FALSE]]
    /\ Spend
    /\ UNCHANGED <<build, maps, sets, clients>>

(* Another build is deployed, a newer one or again an older one. *)
Deploy ==
    /\ \E b \in 1..MaxBuild \ {build} : build' = b
    /\ UNCHANGED <<src, doc, arts, rows, records, clients, events>>

Current(b) == batches[b].src = src
InReview(b) == batches[b].life = "open" /\ Current(b) /\ doc.intake = "processed"

(* reject_batch_and_reprocess *)
RejectAndReprocess(b) ==
    /\ InReview(b)
    /\ batches' = [batches EXCEPT ![b].life = "rejected"]
    /\ doc' = Queued
    /\ IF batches[b].set = Nothing THEN Spend ELSE UNCHANGED events
    /\ UNCHANGED <<src, build, arts, rows, maps, sets, clients>>

(* activate.  With every candidate excluded it needs no chunks; ReviewBatch has
   the decisions and the rest of the activation. *)
Activate(b) ==
    /\ InReview(b)
    /\ batches' = [batches EXCEPT ![b].life = "active"]
    /\ doc' = [doc EXCEPT !.status = "verified"]
    /\ UNCHANGED <<src, build, arts, rows, maps, sets, clients, events>>

-----------------------------------------------------------------------------
(* What the documents and drafts determine, computed once: the structure of every
   artifact of a source, the valid contracts for its tables with the displayed
   schema, the entries a set for it may have, and what a set makes of the same
   or another artifact of the source.  (TLC keeps the values of a function that
   it has compared.) *)
Tabulated(f) == CHOOSE g \in {f} : g = f

Sources == 1..MaxSources
Builds == 1..MaxBuild

StagedOf ==
    Tabulated([v \in Sources |->
        Tabulated([a \in Builds |-> BuildStagedStructure(Normalized[v][a])])])

TableAt(staged, loc) == {t \in Range(staged.tables) : t.schema.loc = loc}

(* A draft becomes a mapping of the table it names, with the displayed schema. *)
Contracts(staged, draft) ==
    {m \in {[loc |-> draft.loc, schema |-> t.schema, rules |-> draft.rules,
             required |-> draft.required, kind |-> draft.kind, subtype |-> draft.subtype,
             version |-> 1] : t \in TableAt(staged, draft.loc)} : MappingContractValid(m)}

ContractsOf ==
    Tabulated([v \in Sources |-> Tabulated([a \in Builds |-> Tabulated([d \in DOMAIN Drafts |->
        Contracts(StagedOf[v][a], Drafts[d])])])])

(* The mappings a source can have, and list_mappings: those of exactly a table
   and its schema. *)
Mappings(v) ==
    {m \in [art : 1..MaxBuild, draft : DOMAIN Drafts] : ContractsOf[v][m.art][m.draft] # {}}

MappingsFor(t, v, mappings) ==
    {m \in mappings : \E c \in ContractsOf[v][m.art][m.draft] :
                        c.loc = t.schema.loc /\ c.schema = t.schema}

(* Each table mapped or ignored. *)
Entries(v, a, mappings) ==
    LET tables == StagedOf[v][a].tables IN
    {e \in [DOMAIN tables -> mappings \cup {Nothing}] :
        \A i \in DOMAIN e : e[i] = Nothing \/ e[i] \in MappingsFor(tables[i], v, mappings)}

(* MappingSetRepo._snapshot: the contract of a set, with its mappings. *)
Snapshot(v, a, entries) ==
    LET staged == StagedOf[v][a]
        Mapping(m) == <<CHOOSE c \in ContractsOf[v][m.art][m.draft] : TRUE>>
    IN  [fingerprint |-> staged.fingerprint,
         entries |-> [i \in DOMAIN entries |->
            [loc |-> staged.tables[i].schema.loc, schema |-> staged.tables[i].schema,
             mapping |-> IF entries[i] = Nothing THEN <<>> ELSE Mapping(entries[i]),
             ignore |-> IF entries[i] = Nothing THEN "not_a_record" ELSE "none"]]]

SnapshotOf ==
    Tabulated([v \in Sources |-> Tabulated([a \in Builds |->
        Tabulated([e \in Entries(v, a, Mappings(v)) |-> Snapshot(v, a, e)])])])

(* apply_mapping_set: the records, or a refusal. *)
Apply(contract, staged, v) ==
    LET app == ApplyMappingSet(contract, staged, v) IN
    IF /\ MappingSetContractValid(contract)
       /\ SetFitsStructure(contract, staged)
       /\ ApplicationValid(app, staged)
    THEN <<app>> ELSE <<>>

Applied ==
    Tabulated([v \in Sources |-> Tabulated([a \in Builds |->
        Tabulated([e \in Entries(v, a, Mappings(v)) |->
            Tabulated([b \in Builds |-> Apply(SnapshotOf[v][a][e], StagedOf[v][b], v)])])])])

(* _load_staged_source: the current source with its newest artifact. *)
LatestOf(s) == s[Len(s)]
Newest == StagedOf[src][LatestOf(arts)]

(* A session looks at the source for its next request. *)
Show(u) ==
    /\ arts # <<>>
    /\ events > 0
    /\ view[u] = Nothing
    /\ view' = [view EXCEPT ![u] = [src |-> src, art |-> LatestOf(arts)]]
    /\ UNCHANGED <<source, records, req, events>>

(* Wrong variant: only the source is compared with the display. *)
LoadStagedSourceOnly(v) == v # Nothing /\ arts # <<>> /\ v.src = src

(* The unlocked read of a request whose sender looks at v: the source and the
   digests of the document and of its structure are those displayed. *)
LoadStagedSource(v) ==
    /\ v # Nothing
    /\ arts # <<>>
    /\ v.src = src
    /\ StagedOf[v.src][v.art].normalized = Newest.normalized
    /\ StagedOf[v.src][v.art].fingerprint = Newest.fingerprint

(* A request that has passed its reads. *)
Ask(u, op, key, body) ==
    /\ req[u] = Nothing
    /\ req' = [req EXCEPT ![u] = [op |-> op, key |-> key, body |-> body, src |-> src,
                                  art |-> LatestOf(arts), shown |-> view[u].art]]
    /\ Spend
    /\ UNCHANGED <<source, records, view>>

(* The reply; the session displays the source again before its next request. *)
Answer(u) == req' = [req EXCEPT ![u] = Nothing] /\ view' = [view EXCEPT ![u] = Nothing]

Id(u) == <<req[u].src, req[u].key>>

(* MappingSourceRepo.require_current under the document lock. *)
RequireCurrent(u) == req[u].src = src

(* create_mapping *)
AskMapping(u) ==
    /\ LoadStagedSource(view[u])
    /\ \E key \in Keys.mapping, m \in {n \in Mappings(src) : n.art = LatestOf(arts)} :
        Ask(u, "mapping", key, m)

(* A table with a row under this id, unless it has one. *)
Inserted(table, id, row) ==
    [i \in DOMAIN table \cup {id} |-> IF i \in DOMAIN table THEN table[i] ELSE row]

(* Wrong variant: an existing row is overwritten. *)
CreateMappingUpsert(u) ==
    IF RequireCurrent(u)
    THEN [id \in DOMAIN maps \cup {Id(u)} |-> IF id = Id(u) THEN req[u].body ELSE maps[id]]
    ELSE maps

(* SchemaMappingRepo.create: the id is derived from the intake and the key, and
   an existing row is returned or refused, never changed. *)
CreateMapping(u) ==
    IF RequireCurrent(u) THEN Inserted(maps, Id(u), req[u].body) ELSE maps

WriteMapping(u) ==
    /\ req[u] # Nothing
    /\ req[u].op = "mapping"
    /\ maps' = CreateMapping(u)
    /\ Answer(u)
    /\ UNCHANGED <<source, sets, batches, events>>

(* What a set makes of an artifact of its source; its entries name mappings. *)
Members(ids) == [i \in DOMAIN ids |-> IF ids[i] = Nothing THEN Nothing ELSE maps[ids[i]]]
Application(v, set, art) == Applied[v][set.art][Members(set.ids)][art]

(* create_mapping_set: each displayed table mapped or ignored, with the whole
   application as its preflight. *)
Confirmable(art) ==
    {ids \in [DOMAIN StagedOf[src][art].tables -> {m \in DOMAIN maps : m[1] = src} \cup {Nothing}] :
        /\ Members(ids) \in DOMAIN Applied[src][art]
        /\ Applied[src][art][Members(ids)][art] # <<>>}

AskMappingSet(u) ==
    /\ LoadStagedSource(view[u])
    /\ \E key \in Keys.set, ids \in Confirmable(LatestOf(arts)) :
        Ask(u, "set", key, [art |-> LatestOf(arts), ids |-> ids])

(* MappingSetRepo.create: a set with this id, or with the same digest for the
   intake, is returned or refused.  The digest covers the structure and the
   identities of the mappings. *)
SameDigest(r, t) ==
    /\ StagedOf[src][r.art].fingerprint = StagedOf[src][t.art].fingerprint
    /\ r.ids = t.ids

CreateMappingSet(u) ==
    IF /\ RequireCurrent(u)
       /\ ~\E s \in DOMAIN sets : s[1] = src /\ SameDigest(sets[s], req[u].body)
    THEN Inserted(sets, Id(u), req[u].body) ELSE sets

WriteMappingSet(u) ==
    /\ req[u] # Nothing
    /\ req[u].op = "set"
    /\ sets' = CreateMappingSet(u)
    /\ Answer(u)
    /\ UNCHANGED <<source, maps, batches, events>>

(* apply_confirmed_mapping_set up to the lock: _verify_mapping_set_source and the
   application of the set to what was read. *)
AskApply(u) ==
    /\ LoadStagedSource(view[u])
    /\ \E key \in Keys.apply,
          s \in {t \in DOMAIN sets : t[1] = src /\ Application(src, sets[t], LatestOf(arts)) # <<>>} :
        Ask(u, "apply", key, [set |-> s])

(* Wrong variant: a key that was used does not stop a second batch. *)
AcceptsAnyBatch(u) == RequireCurrent(u) /\ doc.intake \in {"needs_mapping", "processed"}

(* add_mapping_batch accepts a key that is new for the intake, once the intake
   asks for a mapping or has one; otherwise it replays or refuses. *)
AcceptsBatch(u) ==
    /\ RequireCurrent(u)
    /\ ~\E b \in DOMAIN batches : batches[b].src = src /\ batches[b].key = req[u].key
    /\ doc.intake \in {"needs_mapping", "processed"}

(* The batch and its candidates, and the index job that the route queues for
   them; the document keeps its status. *)
AddMappingBatch(u) ==
    /\ AcceptsBatch(u)
    /\ batches' = Append(batches,
                         NewBatch(req[u].key, req[u].body.set, req[u].art, req[u].shown,
                                  Application(src, sets[req[u].body.set], req[u].art)[1]))
    /\ doc' = [doc EXCEPT !.intake = "processed"]

WriteApply(u) ==
    /\ req[u] # Nothing
    /\ req[u].op = "apply"
    /\ \/ AddMappingBatch(u)
       \/ ~AcceptsBatch(u) /\ UNCHANGED <<batches, doc>>
    /\ Answer(u)
    /\ UNCHANGED <<src, build, arts, rows, maps, sets, events>>

-----------------------------------------------------------------------------
(* extraction_batches.normalized_sha256: a mapping batch has the digest of its
   staged structure, a batch of the pipeline that of the artifact. *)
BatchSha(b) ==
    IF batches[b].set = Nothing THEN ArtifactSha(batches[b].src, batches[b].art)
    ELSE StagedOf[batches[b].src][batches[b].art].normalized

(* index_candidate_batch: a batch under review, of the current source, with an
   artifact that has exactly its digest. *)
Indexable(b) ==
    /\ batches[b].life = "open"
    /\ Current(b)
    /\ \E i \in DOMAIN arts : ArtifactSha(src, arts[i]) = BatchSha(b)

SetIndex(b, state) == batches' = [batches EXCEPT ![b].index = state]

LoadIndexTarget(b) ==
    /\ batches[b].index = "queued"
    /\ SetIndex(b, IF Indexable(b) THEN "loaded" ELSE "dead")
    /\ UNCHANGED <<source, maps, sets, clients, events>>

(* _replace_candidate_chunks after the embeddings: a replaced source gets none. *)
ReplaceCandidateChunks(b) ==
    /\ batches[b].index = "loaded"
    /\ batches' = [batches EXCEPT ![b].index = "done", ![b].chunked = Current(b)]
    /\ UNCHANGED <<source, maps, sets, clients, events>>

(* retry_current_derivatives queues a successor of a dead job. *)
RetryDerivatives(b) ==
    /\ batches[b].index = "dead"
    /\ Current(b)
    /\ SetIndex(b, "queued")
    /\ Spend
    /\ UNCHANGED <<source, maps, sets, clients>>

IndexStep == \E b \in DOMAIN batches : LoadIndexTarget(b) \/ ReplaceCandidateChunks(b)

Next ==
    \/ Claim \/ ProcessTables \/ ProcessText \/ JobDies \/ Reprocess
    \/ ReplaceSource \/ Deploy
    \/ \E b \in DOMAIN batches : RejectAndReprocess(b) \/ Activate(b) \/ RetryDerivatives(b)
    \/ IndexStep
    \/ \E u \in Users : \/ Show(u) \/ AskMapping(u) \/ AskMappingSet(u) \/ AskApply(u)
                        \/ WriteMapping(u) \/ WriteMappingSet(u) \/ WriteApply(u)

(* The worker keeps claiming queued jobs; nobody has to map anything. *)
Fairness == WF_vars(Claim) /\ WF_vars(IndexStep)

Spec == Init /\ [][Next]_vars /\ Fairness
-----------------------------------------------------------------------------
Mapped(b) == batches[b].set # Nothing
SetOf(b) == sets[batches[b].set]
Contract(b) == SnapshotOf[batches[b].src][SetOf(b).art][Members(SetOf(b).ids)]
SourceDoc(b) == Normalized[batches[b].src][batches[b].art]

(* The candidates and decisions of a batch, and the structure that was displayed. *)
RowsOf(b) == Application(batches[b].src, SetOf(b), batches[b].art)[1]
Shown(b) == StagedOf[batches[b].src][batches[b].shown]

(* What must become of row r of a table, by the confirmed entry of the table. *)
Expected(t, r, entry) ==
    IF entry.mapping = <<>> THEN "ignored"
    ELSE IF \A i \in DOMAIN t.rows[r] : t.rows[r][i] = Null THEN "blank"
    ELSE "mapped"

DecisionsFor(app, unit) == {i \in DOMAIN app.decisions : app.decisions[i].unit = unit}
CandidatesFor(app, unit) == {i \in DOMAIN app.cands : app.cands[i].loc = unit}

(* Row r of t has the one decision its entry asks for, and a candidate exactly
   when that is a mapping; the candidate has the fields of the mapping. *)
RowIsReconciled(app, t, r, entry) ==
    LET unit == <<"row", t.loc, r>>
        how == Expected(t, r, entry)
    IN  /\ \E i \in DecisionsFor(app, unit) :
            /\ DecisionsFor(app, unit) = {i}
            /\ app.decisions[i].how = how
            /\ app.decisions[i].content = t.rows[r]
        /\ how # "mapped" => CandidatesFor(app, unit) = {}
        /\ how = "mapped" => \E c \in CandidatesFor(app, unit) :
                /\ CandidatesFor(app, unit) = {c}
                /\ DOMAIN app.cands[c].payload = {rule.target : rule \in Range(entry.mapping[1].rules)}

Reconciled(app, d, contract) ==
    LET extra == IF d.residual = Null \/ d.tables = <<>> THEN 0 ELSE 1
    IN  /\ \A i \in DOMAIN d.tables : \A r \in DOMAIN d.tables[i].rows :
            RowIsReconciled(app, d.tables[i], r, EntryFor(contract, d.tables[i].loc))
        /\ Cardinality(CandidatesFor(app, ResidualLocator)) = extra
        /\ Len(app.decisions) = RowCount(d.tables) + extra
        /\ \A c, e \in DOMAIN app.cands :
            /\ app.cands[c].ordinal = c
            /\ app.cands[c].key = app.cands[e].key => c = e

(* Every structural unit of the mapped document is decided exactly once and as
   the confirmed set says, no record comes from anywhere else, and the
   candidates are numbered without gaps with a key of their own.  This is the
   reconciliation that build_staged_structure, apply_mapping_set and the ledger
   promise for tables of any shape: short rows, blank rows, ignored tables, text
   around the tables. *)
UnitsAreReconciled ==
    \A b \in DOMAIN batches : Mapped(b) => Reconciled(RowsOf(b), SourceDoc(b), Contract(b))

(* The records made of table t are as many, with and without issues, as the
   preview of its mapping counted. *)
PreviewHolds(app, t, entry) ==
    LET made == {c \in DOMAIN app.cands : app.cands[c].loc \in {t.rows[r].loc : r \in DOMAIN t.rows}}
        wrong == {c \in made : app.cands[c].issues # {}}
        seen == PreviewMapping(entry.mapping[1], t, 50)
    IN  entry.mapping # <<>> =>
            Cardinality(wrong) = seen.errors /\ Cardinality(made \ wrong) = seen.valid

(* The candidates of a mapping batch are those that its set makes of the structure
   displayed to the sender of apply_confirmed_mapping_set. *)
RecordsAreThoseShown ==
    \A b \in DOMAIN batches : Mapped(b) =>
        Application(batches[b].src, SetOf(b), batches[b].art) =
            Application(batches[b].src, SetOf(b), batches[b].shown)

(* A confirmed mapping yields the records of the structure its sender was shown:
   the candidates are those of the displayed structure, and each mapped table
   has as many records, with and without issues, as preview_mapping counted.
   Neither a reprocessed source nor another session between the display, the
   unlocked read and the locked write of apply_confirmed_mapping_set changes
   that. *)
AppliedIsWhatWasShown ==
    /\ RecordsAreThoseShown
    /\ \A b \in DOMAIN batches : Mapped(b) =>
        \A i \in DOMAIN Shown(b).tables :
            PreviewHolds(RowsOf(b), Shown(b).tables[i], Contract(b).entries[i])

(* A repeated apply never makes a second batch: add_mapping_batch knows a request
   by the intake and its key, whichever session sends it and however often. *)
OneBatchPerRequest ==
    \A a, b \in DOMAIN batches :
        batches[a].src = batches[b].src /\ batches[a].key = batches[b].key => a = b

(* The triggers of _install_phase3_triggers, as what they demand of a write: no
   mapping, set or batch is changed or deleted ... *)
WrittenOnce(old, new) == \A i \in DOMAIN old : i \in DOMAIN new /\ new[i] = old[i]

(* ... a set belongs to an existing source intake ... *)
SetInsertGuard(id, intakes) == id[1] \in intakes

(* ... a batch belongs to one too, as does the set it names ... *)
BatchInsertGuard(b, intakes, stored) ==
    /\ b.src \in intakes
    /\ b.set # Nothing => b.set \in DOMAIN stored /\ b.set[1] = b.src

(* ... its candidates are as many as its counts of mapped and residual units ... *)
ReconciliationGuard(app) ==
    Len(app.cands) = Cardinality({i \in DOMAIN app.decisions :
                                    app.decisions[i].how \in {"mapped", "residual"}})

(* ... and have their complete lineage. *)
CandidateInsertGuard(app) ==
    \A c \in DOMAIN app.cands : app.cands[c].ordinal > 0 /\ app.cands[c].key # NoKey

(* extraction_batches_mutation_guard: the life and the index of a batch move on,
   what it stands for does not. *)
Identity(b) == [src |-> b.src, key |-> b.key, set |-> b.set, art |-> b.art]

(* A step keeps every mapping, set and batch identity, and adds sets and batches
   only for sources of the document, a batch with a set of its own source. *)
LineageIsKept ==
    /\ WrittenOnce(maps, maps')
    /\ WrittenOnce(sets, sets')
    /\ WrittenOnce([b \in DOMAIN batches |-> Identity(batches[b])],
                   [b \in DOMAIN batches' |-> Identity(batches'[b])])
    /\ \A s \in DOMAIN sets' \ DOMAIN sets : SetInsertGuard(s, 1..src')
    /\ \A b \in DOMAIN batches' \ DOMAIN batches : BatchInsertGuard(batches'[b], 1..src', sets')

(* No request of the mapping routes and no job is ever stopped by a trigger:
   mappings, sets and the identity of batches are written once, so that what a
   batch refers to keeps meaning what its author confirmed, and every batch
   reaches the tables with a set of its own source and counts that agree with
   its candidates. *)
MappingTriggersNeverFire ==
    [][/\ LineageIsKept
       /\ \A b \in DOMAIN batches' \ DOMAIN batches :
            batches'[b].set # Nothing =>
                LET app == Application(src, sets[batches'[b].set], batches'[b].art)[1]
                IN  ReconciliationGuard(app) /\ CandidateInsertGuard(app)]_records

(* No later column of the header has the name of column i. *)
LastOfItsName(header, i) ==
    \A j \in DOMAIN header : j > i => ColumnName(header, j) # ColumnName(header, i)

(* Row r of table t in the staged row x: a value for every column name and no
   other, and of columns with one name the cell of the last, blank in a row that
   is too short. *)
HoldsRow(x, t, r) ==
    /\ DOMAIN x.values = {ColumnName(t.header, i) : i \in DOMAIN t.header}
    /\ \A i \in DOMAIN t.header :
        LastOfItsName(t.header, i) =>
            x.values[ColumnName(t.header, i)] = IF i \in DOMAIN t.rows[r] THEN t.rows[r][i] ELSE Null

(* One staged row for every row of document d, and no other. *)
RowsAreThoseOf(d, staged) ==
    /\ \A x \in staged : \E t \in Range(d.tables) : x.loc = t.loc /\ x.row \in DOMAIN t.rows
    /\ \A i \in DOMAIN d.tables : \A r \in DOMAIN d.tables[i].rows :
        \E x \in staged : /\ x.loc = d.tables[i].loc /\ x.row = r
                          /\ HoldsRow(x, d.tables[i], r)
                          /\ \A y \in staged : y.loc = x.loc /\ y.row = x.row => y = x

(* The staged rows that spreadsheet queries read are never a mixture: there are
   none, or they are those of one stored artifact of the current source, each
   row once.  While the source waits for a mapping or has one they are the rows
   of the artifact its last job used, if that has tables, whichever builds were
   deployed, rolled back, retried or reprocessed before.  (A job of a build that
   finds no tables leaves the rows of another build in place.) *)
StagedRowsMatch ==
    /\ rows = {} \/ \E i \in DOMAIN arts : RowsAreThoseOf(Normalized[src][arts[i]], rows)
    /\ doc.intake \in {"needs_mapping", "processed"} =>
        /\ doc.build \in Range(arts)
        /\ Normalized[src][doc.build].tables # <<>> => RowsAreThoseOf(Normalized[src][doc.build], rows)

(* Under review and current, with candidates that have no chunks yet. *)
Waits(b) ==
    /\ b \in DOMAIN batches
    /\ Mapped(b)
    /\ batches[b].life = "open"
    /\ Current(b)
    /\ batches[b].index # "none"
    /\ ~batches[b].chunked

(* The candidates of a confirmed mapping are indexed, so that the review can
   include them and activate the batch, unless the source is replaced or the
   review ends before. *)
MappedCandidatesAreIndexed ==
    \A b \in 1..(2 * MaxEvents + 1) : Waits(b) ~> ~Waits(b)
=============================================================================
