----------------------- MODULE MappingWorkflowProofs -----------------------
(***************************************************************************)
(* Proofs about MappingWorkflow, for any sessions, keys, drafts, builds    *)
(* and normalized documents: a request makes one batch, the staged rows    *)
(* are those of one artifact, the records of a batch are those of the      *)
(* structure its author was shown, and what a batch refers to never        *)
(* changes.                                                                *)
(***************************************************************************)
EXTENDS MappingWorkflow, SequenceFacts

-----------------------------------------------------------------------------
(* The invariant. *)

Asking == {"needs_mapping", "processed"}

Documents ==
    [status : {"uploaded", "needs_reprocess", "normalized", "in_review", "verified", "failed"},
     intake : {"queued", "processing", "failed"} \cup Asking,
     job : {"none", "queued", "running"}, build : Builds]

JobKeys == {"job"} \X Nat

Batches ==
    [src : Sources, key : Keys.apply \cup JobKeys, set : (Sources \X Keys.set) \cup {Nothing},
     art : Builds, shown : Builds, life : {"open", "rejected", "active"},
     index : {"none", "queued", "loaded", "dead", "done"}, chunked : BOOLEAN]

SourceTyped ==
    /\ src \in Sources
    /\ build \in Builds
    /\ doc \in Documents
    /\ arts \in Seq(Builds)

SourceInv == SourceTyped /\ StagedRowsMatch

(* Of the set t of source v, with the mappings m: what it names is stored, and it
   has an application. *)
SetStands(v, t, m) ==
    /\ t.art \in Builds
    /\ \A i \in DOMAIN t.ids : t.ids[i] = Nothing \/ t.ids[i] \in DOMAIN m
    /\ [i \in DOMAIN t.ids |-> IF t.ids[i] = Nothing THEN Nothing ELSE m[t.ids[i]]]
            \in DOMAIN Applied[v][t.art]

SetsStand ==
    \A s \in DOMAIN sets : s \in Sources \X Keys.set /\ SetStands(s[1], sets[s], maps)

SessionsTyped ==
    /\ DOMAIN view = Users /\ DOMAIN req = Users
    /\ \A u \in Users : view[u] # Nothing => view[u].src \in Sources /\ view[u].art \in Builds

(* A request has read the content that its sender was shown; m and t are the
   mappings and sets. *)
RequestStands(r, m, t) ==
    /\ r.src \in Sources /\ r.art \in Builds /\ r.shown \in Builds
    /\ Normalized[r.src][r.art] = Normalized[r.src][r.shown]
    /\ r.op = "set" => r.key \in Keys.set /\ SetStands(r.src, r.body, m)
    /\ r.op = "apply" => /\ r.key \in Keys.apply
                         /\ r.body.set \in DOMAIN t /\ r.body.set[1] = r.src

RequestsStand == \A u \in Users : req[u] # Nothing => RequestStands(req[u], maps, sets)

(* A batch of one of the first v sources keeps the set and the content of the
   request that made it. *)
BatchStands(b, v, t) ==
    /\ b.src <= v
    /\ Normalized[b.src][b.art] = Normalized[b.src][b.shown]
    /\ b.set # Nothing => b.set \in DOMAIN t /\ b.set[1] = b.src

BatchesStand ==
    /\ batches \in Seq(Batches)
    /\ \A b \in DOMAIN batches : BatchStands(batches[b], src, sets)

(* A batch of the pipeline is known by its job, one of a session by its key. *)
KeysAreApart ==
    \A b \in DOMAIN batches : batches[b].key \in Keys.apply \/ batches[b].key = <<"job", b - 1>>

MappingInv ==
    /\ SourceInv
    /\ SetsStand
    /\ SessionsTyped /\ RequestsStand
    /\ BatchesStand /\ KeysAreApart /\ OneBatchPerRequest

-----------------------------------------------------------------------------
(* The source and its artifacts. *)

(* A job persists the artifact of the running build or finds it again, and keeps
   the others. *)
LEMMA PersistedKeeps ==
    ASSUME SourceTyped
    PROVE  /\ Persisted \in Seq(Builds)
           /\ \E i \in DOMAIN Persisted : Persisted[i] = build
           /\ \A i \in DOMAIN arts : i \in DOMAIN Persisted /\ Persisted[i] = arts[i]
<1> USE DEF SourceTyped
<1>1. CASE build \in Range(arts)
  BY Zenon, <1>1 DEF Persisted, Range
<1>2. CASE build \notin Range(arts)
  <2>1. Persisted = Append(arts, build)
    BY SMTT(30), <1>2 DEF Persisted
  <2>2. /\ Append(arts, build) \in Seq(Builds) /\ Len(Append(arts, build)) = Len(arts) + 1
        /\ \A i \in 1..Len(arts) : Append(arts, build)[i] = arts[i]
        /\ Append(arts, build)[Len(arts) + 1] = build
    BY SMTT(30), Appending
  <2>3. Len(arts) \in Nat /\ DOMAIN arts = 1..Len(arts) /\ DOMAIN Persisted = 1..(Len(arts) + 1)
    BY SMTT(30), <2>1, <2>2, ByPosition
  <2>4. Len(arts) + 1 \in DOMAIN Persisted /\ \A i \in DOMAIN arts : i \in DOMAIN Persisted
    BY SMTT(30), <2>3
  <2> QED
    BY Zenon, <2>1, <2>2, <2>3, <2>4
<1> QED
  BY SMTT(30), <1>1, <1>2

(* A dictionary row has, under the name of a column that no later column has, the
   cell of that column. *)
LEMMA LastCellIsKept ==
    ASSUME NEW header, DOMAIN header \subseteq Int, NEW cells, NEW i \in DOMAIN header,
           LastOfItsName(header, i)
    PROVE  RowValues(header, cells)[ColumnName(header, i)] =
                IF i \in DOMAIN cells THEN cells[i] ELSE Null
<1> DEFINE Same(c) == {j \in DOMAIN header : ColumnName(header, j) = c}
           name == ColumnName(header, i)
<1>1. \A j \in Same(name) : ~(j > i)
  BY Zenon DEF LastOfItsName
<1>2. i \in Same(name) /\ Same(name) \subseteq Int
  BY Zenon
<1> HIDE DEF Same
<1>3. \A m \in Same(name) : (\A j \in Same(name) : m >= j) <=> m = i
  BY SMTT(30), <1>1, <1>2
<1>4. Max(Same(name)) = i
  BY Zenon, <1>2, <1>3 DEF Max
<1>5. name \in {ColumnName(header, j) : j \in DOMAIN header}
  BY Zenon
<1>6. RowValues(header, cells)[name] = CellAt(cells, Max(Same(name)))
  BY Zenon, <1>5 DEF RowValues, Same
<1> QED
  BY Zenon, <1>4, <1>6 DEF CellAt

(* stage_tabular_rows writes one row for every row of a document whose tables do
   not collide. *)
LEMMA StagingWritesRows ==
    ASSUME NEW d, NEW old, RowsAreApart(d),
           \A k \in DOMAIN d.tables : DOMAIN d.tables[k].header \subseteq Int
    PROVE  RowsAreThoseOf(d, StageTabularRows(old, d))
<1> DEFINE T(k) == d.tables[k]
           X(k, r) == [loc |-> T(k).loc, row |-> r, values |-> RowValues(T(k).header, T(k).rows[r])]
           new == StageTabularRows(old, d)
<1>1. \A k : TableRows(T(k)) = {X(k, r) : r \in DOMAIN T(k).rows}
  BY SMTT(30) DEF TableRows
<1>2. \A k, r : /\ X(k, r).loc = T(k).loc /\ X(k, r).row = r
                /\ X(k, r).values = RowValues(T(k).header, T(k).rows[r])
  BY SMTT(30)
<1> HIDE DEF X
<1>3. new = UNION {TableRows(t) : t \in Range(d.tables)} /\ Range(d.tables) = {T(k) : k \in DOMAIN d.tables}
  BY Zenon DEF StageTabularRows, Range
<1> HIDE DEF T, new
<1>4. ASSUME NEW x \in new
      PROVE  \E k \in DOMAIN d.tables : \E r \in DOMAIN T(k).rows : x = X(k, r)
  <2>1. PICK t \in Range(d.tables) : x \in TableRows(t)
    BY Zenon, <1>3
  <2>2. PICK k \in DOMAIN d.tables : t = T(k)
    BY Zenon, <1>3
  <2>3. x \in {X(k, r) : r \in DOMAIN T(k).rows}
    BY Zenon, <1>1, <2>1, <2>2
  <2> QED
    BY Zenon, <2>3
<1>5. \A k \in DOMAIN d.tables : T(k) \in Range(d.tables) /\ \A r \in DOMAIN T(k).rows : X(k, r) \in new
  BY Zenon, <1>1, <1>3
<1>6. ASSUME NEW x \in new
      PROVE  \E t \in Range(d.tables) : x.loc = t.loc /\ x.row \in DOMAIN t.rows
  <2>1. PICK k \in DOMAIN d.tables : \E r \in DOMAIN T(k).rows : x = X(k, r)
    BY Zenon, <1>4
  <2>2. x.loc = T(k).loc /\ x.row \in DOMAIN T(k).rows
    BY Zenon, <1>2, <2>1
  <2> QED
    BY Zenon, <1>5, <2>2
<1>7. ASSUME NEW k \in DOMAIN d.tables, NEW r \in DOMAIN T(k).rows
      PROVE  HoldsRow(X(k, r), T(k), r)
  <2> DEFINE values == RowValues(T(k).header, T(k).rows[r])
  <2>1. DOMAIN values = {ColumnName(T(k).header, i) : i \in DOMAIN T(k).header}
    BY SMTT(30) DEF RowValues
  <2>2. ASSUME NEW i \in DOMAIN T(k).header, LastOfItsName(T(k).header, i)
        PROVE  values[ColumnName(T(k).header, i)] =
                    IF i \in DOMAIN T(k).rows[r] THEN T(k).rows[r][i] ELSE Null
    <3>1. DOMAIN T(k).header \subseteq Int
      BY Zenon DEF T
    <3> QED
      BY SMTT(30), <2>2, <3>1, LastCellIsKept
  <2>3. X(k, r).values = values
    BY Zenon, <1>2
  <2> QED
    BY Zenon, <2>1, <2>2, <2>3 DEF HoldsRow
<1>8. ASSUME NEW k \in DOMAIN d.tables, NEW r \in DOMAIN T(k).rows,
             NEW y \in new, y.loc = T(k).loc, y.row = r
      PROVE  y = X(k, r)
  <2>1. PICK m \in DOMAIN d.tables : \E q \in DOMAIN T(m).rows : y = X(m, q)
    BY Zenon, <1>4
  <2>2. PICK q \in DOMAIN T(m).rows : y = X(m, q)
    BY Zenon, <2>1
  <2>3. q = r /\ T(m).loc = T(k).loc
    BY Zenon, <1>2, <1>8, <2>2
  <2>4. m = k
    BY Zenon, <2>3 DEF RowsAreApart, T
  <2> QED
    BY Zenon, <2>2, <2>3, <2>4
<1>9. ASSUME NEW k \in DOMAIN d.tables, NEW r \in DOMAIN T(k).rows
      PROVE  \E x \in new : /\ x.loc = T(k).loc /\ x.row = r
                            /\ HoldsRow(x, T(k), r)
                            /\ \A y \in new : y.loc = x.loc /\ y.row = x.row => y = x
  <2>1. X(k, r) \in new /\ X(k, r).loc = T(k).loc /\ X(k, r).row = r
    BY Zenon, <1>2, <1>5
  <2>2. \A y \in new : y.loc = X(k, r).loc /\ y.row = X(k, r).row => y = X(k, r)
    BY Zenon, <1>8, <2>1
  <2> QED
    BY Zenon, <1>7, <2>1, <2>2
<1> QED
  BY Zenon, <1>6, <1>9 DEF RowsAreThoseOf, T, new

(* A step that leaves the rows and artifacts alone and does not start asking for
   a mapping keeps the staged rows. *)
LEMMA SourceFrame ==
    ASSUME SourceInv, doc' \in Documents, UNCHANGED <<src, build, arts, rows>>,
           doc'.intake \in Asking => doc.intake \in Asking /\ doc'.build = doc.build
    PROVE  SourceInv'
  BY Zenon DEF SourceInv, SourceTyped, StagedRowsMatch, Asking

(* What Queued makes of a document. *)
LEMMA QueuedTyped ==
    ASSUME SourceTyped
    PROVE  Queued \in Documents /\ Queued.intake = "queued"
  BY Zenon DEF SourceTyped, Documents, Queued

(* The header of a table is a sequence. *)
LEMMA HeadersTyped ==
    ASSUME NEW v \in Sources, NEW b \in Builds, NEW k \in DOMAIN Normalized[v][b].tables
    PROVE  DOMAIN Normalized[v][b].tables[k].header \subseteq Int
<1> DEFINE header == Normalized[v][b].tables[k].header
<1>1. header \in Seq(Range(header))
  BY Zenon, MappingAssumption DEF Sources, Builds
<1> HIDE DEF header
<1>2. DOMAIN header = 1..Len(header) /\ Len(header) \in Nat
  BY Zenon, <1>1, ByPosition
<1>3. DOMAIN header \subseteq Int
  BY SMTT(30), <1>2
<1> QED
  BY Zenon, <1>3 DEF header

(* process_document stages the rows of the artifact that it makes or finds. *)
LEMMA ProcessTablesStages ==
    ASSUME SourceInv, ProcessTables
    PROVE  SourceInv'
<1>1. doc' \in Documents /\ doc'.build = build
  BY Zenon DEF ProcessTables, EvidenceIsCurrent, SourceInv, SourceTyped, Documents, Asking
<1>2. arts' = Persisted /\ src' = src /\ build' = build
  BY Zenon DEF ProcessTables
<1>3. arts' \in Seq(Builds) /\ \E i \in DOMAIN arts' : arts'[i] = build
  BY Zenon, <1>2, PersistedKeeps DEF SourceInv
<1>4. RowsAreThoseOf(Normalized[src][build], rows')
  <2>1. /\ rows' = StageTabularRows(rows, Normalized[src][build])
        /\ RowsAreApart(Normalized[src][build])
    BY Zenon DEF ProcessTables
  <2>2. src \in Sources /\ build \in Builds
    BY Zenon DEF SourceInv, SourceTyped
  <2> QED
    BY Zenon, <2>1, <2>2, HeadersTyped, StagingWritesRows
<1>5. StagedRowsMatch'
  BY Zenon, <1>1, <1>2, <1>3, <1>4 DEF StagedRowsMatch, Range
<1> QED
  BY Zenon, <1>1, <1>2, <1>3, <1>5 DEF SourceInv, SourceTyped

(* A file without tables leaves the rows, whose artifact stays. *)
LEMMA ProcessTextStages ==
    ASSUME SourceInv, ProcessText
    PROVE  SourceInv'
<1>1. doc' \in Documents /\ doc'.build = build
  BY Zenon DEF ProcessText, EvidenceIsCurrent, SourceInv, SourceTyped, Documents, Asking
<1>2. /\ arts' = Persisted /\ src' = src /\ build' = build /\ rows' = rows
      /\ Normalized[src][build].tables = <<>>
  BY Zenon DEF ProcessText
<1>3. /\ arts' \in Seq(Builds)
      /\ \E i \in DOMAIN arts' : arts'[i] = build
      /\ \A i \in DOMAIN arts : i \in DOMAIN arts' /\ arts'[i] = arts[i]
  BY Zenon, <1>2, PersistedKeeps DEF SourceInv
<1>4. rows' = {} \/ \E i \in DOMAIN arts' : RowsAreThoseOf(Normalized[src'][arts'[i]], rows')
  BY Zenon, <1>2, <1>3 DEF SourceInv, StagedRowsMatch
<1>5. StagedRowsMatch'
  BY Zenon, <1>1, <1>2, <1>3, <1>4 DEF StagedRowsMatch, Range
<1> QED
  BY Zenon, <1>1, <1>2, <1>3, <1>5 DEF SourceInv, SourceTyped

(* Every step keeps the staged rows those of one artifact. *)
LEMMA SourceStep ==
    ASSUME SourceInv, [Next]_vars
    PROVE  SourceInv'
<1> USE DEF SourceInv
<1>1. CASE UNCHANGED source
  BY SMTT(30), <1>1, SourceFrame DEF source, SourceTyped
<1>2. ASSUME UNCHANGED <<src, build, arts, rows>>, doc' = Queued PROVE SourceInv'
  BY Zenon, <1>2, QueuedTyped, SourceFrame DEF Asking
<1>3. CASE Claim
  <2>1. doc' \in Documents /\ doc'.intake = "processing"
    BY Zenon, <1>3 DEF Claim, SourceTyped, Documents
  <2> QED
    BY SMTT(30), <1>3, <2>1, SourceFrame DEF Claim, Asking
<1>4. CASE JobDies
  <2>1. doc' \in Documents /\ doc'.intake = "failed"
    BY Zenon, <1>4 DEF JobDies, SourceTyped, Documents
  <2> QED
    BY SMTT(30), <1>4, <2>1, SourceFrame DEF JobDies, Asking
<1>5. CASE ReplaceSource
  <2>1. doc' = Queued /\ src' = src + 1 /\ src < MaxSources /\ arts' = <<>> /\ build' = build
    BY SMTT(30), <1>5 DEF ReplaceSource
  <2>2. doc' \in Documents /\ doc'.intake = "queued"
    BY SMTT(30), <2>1, QueuedTyped
  <2>3. src' \in Sources /\ arts' \in Seq(Builds) /\ DOMAIN arts' = {}
    <3>1. src' \in Sources
      BY SMTT(30), <2>1, MappingAssumption DEF Sources, SourceTyped
    <3>2. arts' \in Seq(Builds) /\ DOMAIN arts' = {}
      BY SMTT(30), <2>1
    <3> QED
      BY SMTT(30), <3>1, <3>2
  <2>4. StagedRowsMatch'
    BY Zenon, <1>5, <2>2 DEF ReplaceSource, StagedRowsMatch
  <2> QED
    BY SMTT(30), <2>1, <2>2, <2>3, <2>4 DEF SourceTyped
<1>6. CASE Deploy
  <2>1. build' \in Builds /\ UNCHANGED <<src, doc, arts, rows>>
    BY SMTT(30), <1>6 DEF Deploy, Builds
  <2>2. StagedRowsMatch'
    BY Zenon, <2>1 DEF StagedRowsMatch
  <2> QED
    BY Zenon, <2>1, <2>2 DEF SourceTyped
<1>7. ASSUME NEW b \in DOMAIN batches, Activate(b) PROVE SourceInv'
  <2>1. doc' \in Documents /\ doc'.intake = doc.intake /\ doc'.build = doc.build
    BY SMTT(30), <1>7 DEF Activate, SourceTyped, Documents
  <2> QED
    BY SMTT(30), <1>7, <2>1, SourceFrame DEF Activate
<1>8. ASSUME NEW u \in Users, WriteApply(u) PROVE SourceInv'
  <2>1. CASE AddMappingBatch(u)
    <3>1. doc' \in Documents /\ doc.intake \in Asking /\ doc'.build = doc.build
      BY SMTT(30), <2>1 DEF AddMappingBatch, AcceptsBatch, SourceTyped, Documents, Asking
    <3> QED
      BY SMTT(30), <1>8, <3>1, SourceFrame DEF WriteApply
  <2>2. CASE UNCHANGED <<batches, doc>>
    BY SMTT(30), <1>1, <1>8, <2>2 DEF WriteApply, source
  <2> QED
    BY SMTT(30), <1>8, <2>1, <2>2 DEF WriteApply
<1>9. CASE \E b \in DOMAIN batches : RejectAndReprocess(b)
  BY SMTT(30), <1>2, <1>9 DEF RejectAndReprocess
<1>10. CASE Reprocess
  BY SMTT(30), <1>2, <1>10 DEF Reprocess
<1>11. CASE IndexStep \/ \E b \in DOMAIN batches : RetryDerivatives(b)
  BY ZenonT(30), <1>1, <1>11 DEF IndexStep, LoadIndexTarget, ReplaceCandidateChunks, RetryDerivatives
<1>12. ASSUME NEW u \in Users, \/ Show(u) \/ AskMapping(u) \/ AskMappingSet(u) \/ AskApply(u)
                              \/ WriteMapping(u) \/ WriteMappingSet(u)
       PROVE SourceInv'
  BY SMTT(30), <1>1, <1>12 DEF Show, AskMapping, AskMappingSet, AskApply, Ask, WriteMapping, WriteMappingSet
<1>13. CASE UNCHANGED vars
  BY SMTT(30), <1>1, <1>13 DEF vars
<1> QED
  BY Zenon, <1>3, <1>4, <1>5, <1>6, <1>7, <1>8, <1>9, <1>10, <1>11, <1>12, <1>13,
     ProcessTablesStages, ProcessTextStages DEF Next

-----------------------------------------------------------------------------
(* Documents and what sets make of them. *)

(* Tabulating a function changes nothing. *)
LEMMA TabulatedSame == \A f : Tabulated(f) = f
  BY Zenon DEF Tabulated

(* The staged structure of an artifact and its digest of the document. *)
LEMMA StagedIs ==
    ASSUME NEW v \in Sources, NEW a \in Builds
    PROVE  /\ StagedOf[v][a] = BuildStagedStructure(Normalized[v][a])
           /\ StagedOf[v][a].normalized = <<"canonical", Normalized[v][a]>>
<1> DEFINE row(w) == [b \in Builds |-> BuildStagedStructure(Normalized[w][b])]
           all == [w \in Sources |-> Tabulated(row(w))]
<1>1. StagedOf = Tabulated(all)
  BY Zenon DEF StagedOf
<1>2. StagedOf[v] = row(v)
  <2> HIDE DEF row
  <2>1. StagedOf = all
    BY Zenon, <1>1, TabulatedSame
  <2>2. all[v] = Tabulated(row(v))
    BY Zenon
  <2> QED
    BY Zenon, <2>1, <2>2, TabulatedSame
<1>3. row(v)[a] = BuildStagedStructure(Normalized[v][a])
  BY Zenon
<1>4. StagedOf[v][a] = BuildStagedStructure(Normalized[v][a])
  BY Zenon, <1>2, <1>3
<1>5. BuildStagedStructure(Normalized[v][a]).normalized = <<"canonical", Normalized[v][a]>>
  BY SMTT(30) DEF BuildStagedStructure
<1> QED
  BY Zenon, <1>4, <1>5

(* What a set makes of an artifact depends only on the content of the artifact. *)
LEMMA AppliedByContent ==
    ASSUME NEW v \in Sources, NEW a \in Builds, NEW e \in DOMAIN Applied[v][a],
           NEW x \in Builds, NEW y \in Builds, Normalized[v][x] = Normalized[v][y]
    PROVE  Applied[v][a][e][x] = Applied[v][a][e][y]
<1> DEFINE for(w, c, d) == [b \in Builds |-> Apply(SnapshotOf[w][c][d], StagedOf[w][b], w)]
           table(w, c) == [d \in Entries(w, c, Mappings(w)) |-> Tabulated(for(w, c, d))]
           row(w) == [c \in Builds |-> Tabulated(table(w, c))]
           all == [w \in Sources |-> Tabulated(row(w))]
<1>1. Applied = Tabulated(all)
  BY Zenon DEF Applied
<1>2. Applied[v][a] = table(v, a)
  <2> HIDE DEF table
  <2>1. Applied = all
    BY Zenon, <1>1, TabulatedSame
  <2>2. all[v] = Tabulated(row(v)) /\ row(v)[a] = Tabulated(table(v, a))
    BY Zenon
  <2> HIDE DEF row, all
  <2>3. Tabulated(row(v)) = row(v) /\ Tabulated(table(v, a)) = table(v, a)
    BY Zenon, TabulatedSame
  <2>4. Applied[v] = row(v)
    BY Zenon, <2>1, <2>2, <2>3
  <2> QED
    BY Zenon, <2>2, <2>3, <2>4
<1>3. Applied[v][a][e] = for(v, a, e)
  <2> HIDE DEF for
  <2>1. e \in Entries(v, a, Mappings(v))
    BY Zenon, <1>2
  <2> QED
    BY Zenon, <1>2, <2>1, TabulatedSame
<1>4. StagedOf[v][x] = StagedOf[v][y]
  BY Zenon, StagedIs
<1>5. \A b \in Builds : for(v, a, e)[b] = Apply(SnapshotOf[v][a][e], StagedOf[v][b], v)
  BY Zenon
<1> QED
  BY Zenon, <1>3, <1>4, <1>5

(* The display that an unlocked read agrees with has the same content. *)
LEMMA ReadIsShown ==
    ASSUME SourceTyped, SessionsTyped, NEW u \in Users, LoadStagedSource(view[u])
    PROVE  /\ src \in Sources /\ LatestOf(arts) \in Builds /\ view[u].art \in Builds
           /\ Normalized[src][LatestOf(arts)] = Normalized[src][view[u].art]
<1>1. /\ view[u] # Nothing /\ arts # <<>> /\ view[u].src = src
      /\ StagedOf[view[u].src][view[u].art].normalized = StagedOf[src][LatestOf(arts)].normalized
  BY Zenon DEF LoadStagedSource, Newest
<1>2. src \in Sources /\ view[u].art \in Builds
  BY Zenon, <1>1 DEF SourceTyped, SessionsTyped
<1>3. LatestOf(arts) \in Builds
  BY SMTT(30), <1>1, ByPosition, NonEmptyHasLast DEF SourceTyped, LatestOf
<1>4. <<"canonical", Normalized[src][view[u].art]>> = <<"canonical", Normalized[src][LatestOf(arts)]>>
  <2>1. StagedOf[src][view[u].art].normalized = StagedOf[src][LatestOf(arts)].normalized
    BY Zenon, <1>1
  <2>2. /\ StagedOf[src][view[u].art].normalized = <<"canonical", Normalized[src][view[u].art]>>
        /\ StagedOf[src][LatestOf(arts)].normalized = <<"canonical", Normalized[src][LatestOf(arts)]>>
    BY Zenon, <1>2, <1>3, StagedIs
  <2> QED
    BY Zenon, <2>1, <2>2
<1>5. \A x, y : <<"canonical", x>> = <<"canonical", y>> => x = y
  BY SMTT(30)
<1> QED
  BY Zenon, <1>2, <1>3, <1>4, <1>5

-----------------------------------------------------------------------------
(* Rows that are written once. *)

(* Adding a row under an id keeps the rows there are. *)
LEMMA AddedKeeps ==
    ASSUME NEW f, NEW i, NEW x
    PROVE  /\ WrittenOnce(f, Inserted(f, i, x))
           /\ DOMAIN Inserted(f, i, x) = DOMAIN f \cup {i}
           /\ i \notin DOMAIN f => Inserted(f, i, x)[i] = x
  BY Zenon DEF WrittenOnce, Inserted

(* Nothing written keeps everything. *)
LEMMA SameKeeps == \A f : WrittenOnce(f, f)
  BY Zenon DEF WrittenOnce

(* A set stands on mappings that are written once. *)
LEMMA SetStays ==
    ASSUME NEW m, NEW n, WrittenOnce(m, n), NEW v, NEW t, SetStands(v, t, m)
    PROVE  SetStands(v, t, n)
<1>1. \A i \in DOMAIN t.ids : t.ids[i] = Nothing \/ (t.ids[i] \in DOMAIN n /\ n[t.ids[i]] = m[t.ids[i]])
  BY Zenon DEF SetStands, WrittenOnce
<1>2. [i \in DOMAIN t.ids |-> IF t.ids[i] = Nothing THEN Nothing ELSE m[t.ids[i]]]
        = [i \in DOMAIN t.ids |-> IF t.ids[i] = Nothing THEN Nothing ELSE n[t.ids[i]]]
  BY SMTT(30), <1>1
<1> QED
  BY Zenon, <1>1, <1>2 DEF SetStands

(* So does a request that has read them. *)
LEMMA RequestStays ==
    ASSUME NEW m, NEW n, WrittenOnce(m, n), NEW t, NEW s, WrittenOnce(t, s),
           NEW r, RequestStands(r, m, t)
    PROVE  RequestStands(r, n, s)
<1>1. r.op = "set" => SetStands(r.src, r.body, n)
  BY Zenon, SetStays DEF RequestStands
<1>2. r.op = "apply" => r.body.set \in DOMAIN s
  BY Zenon DEF RequestStands, WrittenOnce
<1> QED
  BY Zenon, <1>1, <1>2 DEF RequestStands

-----------------------------------------------------------------------------
(* Mappings, sets and requests. *)

(* No step changes or deletes a mapping or a set. *)
LEMMA RowsArePermanent ==
    ASSUME [Next]_vars
    PROVE  WrittenOnce(maps, maps') /\ WrittenOnce(sets, sets')
<1>1. CASE UNCHANGED <<maps, sets>>
  BY Zenon, <1>1, SameKeeps
<1>2. ASSUME NEW u \in Users, WriteMapping(u) PROVE WrittenOnce(maps, maps') /\ sets' = sets
  BY Zenon, <1>2, AddedKeeps, SameKeeps DEF WriteMapping, CreateMapping
<1>3. ASSUME NEW u \in Users, WriteMappingSet(u) PROVE WrittenOnce(sets, sets') /\ maps' = maps
  BY Zenon, <1>3, AddedKeeps, SameKeeps DEF WriteMappingSet, CreateMappingSet
<1>4. ASSUME NEW u \in Users, Show(u) \/ AskMapping(u) \/ AskMappingSet(u) \/ AskApply(u) \/ WriteApply(u)
      PROVE  UNCHANGED <<maps, sets>>
  BY SMTT(30), <1>4 DEF Show, AskMapping, AskMappingSet, AskApply, Ask, WriteApply, records
<1>5. CASE Claim \/ ProcessTables \/ ProcessText \/ JobDies \/ Reprocess \/ ReplaceSource \/ Deploy
  BY SMTT(30), <1>1, <1>5 DEF Claim, ProcessTables, ProcessText, JobDies, Reprocess, ReplaceSource, Deploy, records
<1>6. ASSUME NEW b \in DOMAIN batches, RejectAndReprocess(b) \/ Activate(b) \/ RetryDerivatives(b)
      PROVE  UNCHANGED <<maps, sets>>
  BY SMTT(30), <1>6 DEF RejectAndReprocess, Activate, RetryDerivatives
<1>7. CASE IndexStep
  BY SMTT(30), <1>1, <1>7 DEF IndexStep, LoadIndexTarget, ReplaceCandidateChunks
<1>8. CASE UNCHANGED vars
  BY SMTT(30), <1>1, <1>8 DEF vars, records
<1> QED
  BY Zenon, <1>1, <1>2, <1>3, <1>4, <1>5, <1>6, <1>7, <1>8, SameKeeps DEF Next

(* A new set is that of a request, under the source and key of the request. *)
LEMMA NewSetIsAsked ==
    ASSUME [Next]_vars, NEW s \in DOMAIN sets' \ DOMAIN sets
    PROVE  \E u \in Users : /\ req[u] # Nothing /\ req[u].op = "set" /\ req[u].src = src
                            /\ s = <<req[u].src, req[u].key>> /\ sets'[s] = req[u].body
                            /\ src' = src
<1>1. sets' # sets
  BY SMTT(30)
<1>2. PICK u \in Users : WriteMappingSet(u)
  <2>1. ASSUME NEW u \in Users, Show(u) \/ AskMapping(u) \/ AskMappingSet(u) \/ AskApply(u)
                                \/ WriteMapping(u) \/ WriteApply(u)
        PROVE  sets' = sets
    BY SMTT(30), <2>1 DEF Show, AskMapping, AskMappingSet, AskApply, Ask, WriteMapping, WriteApply, records
  <2>2. Claim \/ ProcessTables \/ ProcessText \/ JobDies \/ Reprocess \/ ReplaceSource \/ Deploy
          => sets' = sets
    BY SMTT(30) DEF Claim, ProcessTables, ProcessText, JobDies, Reprocess, ReplaceSource, Deploy, records
  <2>3. ASSUME NEW b \in DOMAIN batches, RejectAndReprocess(b) \/ Activate(b) \/ RetryDerivatives(b)
        PROVE  sets' = sets
    BY SMTT(30), <2>3 DEF RejectAndReprocess, Activate, RetryDerivatives
  <2>4. IndexStep => sets' = sets
    BY SMTT(30) DEF IndexStep, LoadIndexTarget, ReplaceCandidateChunks
  <2>5. UNCHANGED vars => sets' = sets
    BY SMTT(30) DEF vars, records
  <2> QED
    BY Zenon, <1>1, <2>1, <2>2, <2>3, <2>4, <2>5 DEF Next
<1>3. /\ req[u] # Nothing /\ req[u].op = "set" /\ sets' = CreateMappingSet(u) /\ src' = src
  BY SMTT(30), <1>2 DEF WriteMappingSet, source
<1>4. req[u].src = src /\ sets' = Inserted(sets, Id(u), req[u].body)
  BY Zenon, <1>1, <1>3 DEF CreateMappingSet, RequireCurrent
<1>5. s = Id(u)
  <2>1. DOMAIN sets' = DOMAIN sets \cup {Id(u)}
    BY Zenon, <1>4, AddedKeeps
  <2> QED
    BY SMTT(30), <2>1
<1>6. sets'[s] = req[u].body
  BY Zenon, <1>4, <1>5, AddedKeeps
<1> QED
  BY Zenon, <1>3, <1>4, <1>5, <1>6 DEF Id

(* Every step keeps the sets on stored mappings. *)
LEMMA SetsStep ==
    ASSUME MappingInv, [Next]_vars
    PROVE  SetsStand'
<1> SUFFICES ASSUME NEW s \in DOMAIN sets'
             PROVE  s \in Sources \X Keys.set /\ SetStands(s[1], sets'[s], maps')
  BY Zenon DEF SetsStand
<1>1. WrittenOnce(maps, maps') /\ WrittenOnce(sets, sets')
  BY SMTT(30), RowsArePermanent
<1>2. CASE s \in DOMAIN sets
  <2>1. sets'[s] = sets[s]
    BY Zenon, <1>1, <1>2 DEF WrittenOnce
  <2>2. s \in Sources \X Keys.set /\ SetStands(s[1], sets[s], maps)
    BY Zenon, <1>2 DEF MappingInv, SetsStand
  <2>3. SetStands(s[1], sets[s], maps')
    BY Zenon, <1>1, <2>2, SetStays
  <2> QED
    BY Zenon, <2>1, <2>2, <2>3
<1>3. CASE s \notin DOMAIN sets
  <2>1. PICK u \in Users : /\ req[u] # Nothing /\ req[u].op = "set"
                           /\ s = <<req[u].src, req[u].key>> /\ sets'[s] = req[u].body
    BY Zenon, <1>3, NewSetIsAsked
  <2>2. req[u].src \in Sources /\ req[u].key \in Keys.set /\ SetStands(req[u].src, req[u].body, maps)
    BY Zenon, <2>1 DEF MappingInv, RequestsStand, RequestStands
  <2>3. SetStands(req[u].src, req[u].body, maps')
    BY Zenon, <1>1, <2>2, SetStays
  <2>4. s \in Sources \X Keys.set /\ s[1] = req[u].src
    BY SMTT(30), <2>1, <2>2
  <2> QED
    BY Zenon, <2>1, <2>3, <2>4
<1> QED
  BY SMTT(30), <1>2, <1>3

(* Sessions are kept by a step that sends no request. *)
LEMMA SessionsFrame ==
    ASSUME MappingInv, WrittenOnce(maps, maps'), WrittenOnce(sets, sets'),
           DOMAIN view' = Users, DOMAIN req' = Users,
           \A u \in Users : view'[u] \in {view[u], Nothing} /\ req'[u] \in {req[u], Nothing}
    PROVE  SessionsTyped' /\ RequestsStand'
<1>1. SessionsTyped'
  BY SMTT(30) DEF MappingInv, SessionsTyped
<1>2. ASSUME NEW u \in Users, req'[u] # Nothing PROVE RequestStands(req'[u], maps', sets')
  <2>1. req'[u] = req[u] /\ RequestStands(req[u], maps, sets)
    BY Zenon, <1>2 DEF MappingInv, RequestsStand
  <2> QED
    BY Zenon, <2>1, RequestStays
<1> QED
  BY Zenon, <1>1, <1>2 DEF RequestsStand

(* The answer to a request clears the session of its sender. *)
LEMMA AnswerKeeps ==
    ASSUME MappingInv, [Next]_vars, NEW u \in Users, Answer(u)
    PROVE  SessionsTyped' /\ RequestsStand'
<1>1. /\ DOMAIN view' = Users /\ DOMAIN req' = Users
      /\ \A w \in Users : view'[w] \in {view[w], Nothing} /\ req'[w] \in {req[w], Nothing}
  BY SMTT(30) DEF MappingInv, SessionsTyped, Answer
<1> QED
  BY Zenon, <1>1, RowsArePermanent, SessionsFrame

(* A request that passed its unlocked reads has read what its sender was shown. *)
LEMMA AskedStands ==
    ASSUME MappingInv, NEW u \in Users, NEW op, NEW key, NEW body,
           LoadStagedSource(view[u]), Ask(u, op, key, body),
           op = "set" => key \in Keys.set /\ SetStands(src, body, maps),
           op = "apply" => key \in Keys.apply /\ body.set \in DOMAIN sets /\ body.set[1] = src
    PROVE  SessionsTyped' /\ RequestsStand'
<1> DEFINE r == [op |-> op, key |-> key, body |-> body, src |-> src,
                 art |-> LatestOf(arts), shown |-> view[u].art]
<1>1. /\ src \in Sources /\ LatestOf(arts) \in Builds /\ view[u].art \in Builds
      /\ Normalized[src][LatestOf(arts)] = Normalized[src][view[u].art]
  BY Zenon, ReadIsShown DEF MappingInv, SourceInv
<1>2. /\ r.op = op /\ r.key = key /\ r.body = body /\ r.src = src
      /\ r.art = LatestOf(arts) /\ r.shown = view[u].art
  BY SMTT(30)
<1>3. req' = [req EXCEPT ![u] = r] /\ view' = view /\ maps' = maps /\ sets' = sets
  BY Zenon DEF Ask, records
<1> HIDE DEF r
<1>4. RequestStands(r, maps, sets)
  BY Zenon, <1>1, <1>2 DEF RequestStands
<1>5. DOMAIN req' = Users /\ \A w \in Users : req'[w] = IF w = u THEN r ELSE req[w]
  BY Zenon, <1>3 DEF MappingInv, SessionsTyped
<1>6. SessionsTyped'
  BY Zenon, <1>3, <1>5 DEF MappingInv, SessionsTyped
<1>7. RequestsStand'
  BY Zenon, <1>3, <1>4, <1>5 DEF MappingInv, RequestsStand
<1> QED
  BY SMTT(30), <1>6, <1>7

(* Every step keeps the sessions and their requests sound. *)
LEMMA SessionsStep ==
    ASSUME MappingInv, [Next]_vars
    PROVE  SessionsTyped' /\ RequestsStand'
<1>1. CASE UNCHANGED <<view, req>>
  <2>1. /\ DOMAIN view' = Users /\ DOMAIN req' = Users
        /\ \A w \in Users : view'[w] \in {view[w], Nothing} /\ req'[w] \in {req[w], Nothing}
    BY SMTT(30), <1>1 DEF MappingInv, SessionsTyped
  <2> QED
    BY Zenon, <2>1, RowsArePermanent, SessionsFrame
<1>2. ASSUME NEW u \in Users, Show(u) PROVE SessionsTyped' /\ RequestsStand'
  <2> DEFINE v == [src |-> src, art |-> LatestOf(arts)]
  <2>1. view' = [view EXCEPT ![u] = v] /\ arts # <<>> /\ UNCHANGED <<req, maps, sets>>
    BY SMTT(30), <1>2 DEF Show, records
  <2>2. v.src \in Sources /\ v.art \in Builds
    BY SMTT(30), <2>1, ByPosition, NonEmptyHasLast DEF MappingInv, SourceInv, SourceTyped, LatestOf
  <2> HIDE DEF v
  <2>3. DOMAIN view' = Users /\ \A w \in Users : view'[w] = IF w = u THEN v ELSE view[w]
    BY Zenon, <2>1 DEF MappingInv, SessionsTyped
  <2> QED
    BY Zenon, <2>1, <2>2, <2>3 DEF MappingInv, SessionsTyped, RequestsStand
<1>3. ASSUME NEW u \in Users, AskMapping(u) PROVE SessionsTyped' /\ RequestsStand'
  <2>1. PICK key \in Keys.mapping, m \in {n \in Mappings(src) : n.art = LatestOf(arts)} :
            Ask(u, "mapping", key, m)
    BY Zenon, <1>3 DEF AskMapping
  <2>2. LoadStagedSource(view[u]) /\ "mapping" # "set" /\ "mapping" # "apply"
    BY SMTT(30), <1>3 DEF AskMapping
  <2> QED
    BY Zenon, <2>1, <2>2, AskedStands
<1>4. ASSUME NEW u \in Users, AskMappingSet(u) PROVE SessionsTyped' /\ RequestsStand'
  <2>1. PICK key \in Keys.set, ids \in Confirmable(LatestOf(arts)) :
            Ask(u, "set", key, [art |-> LatestOf(arts), ids |-> ids])
    BY Zenon, <1>4 DEF AskMappingSet
  <2> DEFINE body == [art |-> LatestOf(arts), ids |-> ids]
  <2>2. body.art = LatestOf(arts) /\ body.ids = ids
    BY SMTT(30)
  <2>3. Ask(u, "set", key, body)
    BY SMTT(30), <2>1
  <2>4. LoadStagedSource(view[u]) /\ "set" # "apply"
    BY SMTT(30), <1>4 DEF AskMappingSet
  <2> HIDE DEF body
  <2>5. /\ ids \in [DOMAIN StagedOf[src][LatestOf(arts)].tables ->
                        {m \in DOMAIN maps : m[1] = src} \cup {Nothing}]
        /\ Members(ids) \in DOMAIN Applied[src][LatestOf(arts)]
    BY Zenon DEF Confirmable
  <2>6. \A i \in DOMAIN ids : ids[i] = Nothing \/ ids[i] \in DOMAIN maps
    BY SMTT(30), <2>5
  <2>7. LatestOf(arts) \in Builds
    BY Zenon, <2>4, ReadIsShown DEF MappingInv, SourceInv
  <2>8. SetStands(src, body, maps)
    BY Zenon, <2>2, <2>5, <2>6, <2>7 DEF SetStands, Members
  <2> QED
    BY Zenon, <2>3, <2>4, <2>8, AskedStands
<1>5. ASSUME NEW u \in Users, AskApply(u) PROVE SessionsTyped' /\ RequestsStand'
  <2>1. PICK key \in Keys.apply, s \in DOMAIN sets : s[1] = src /\ Ask(u, "apply", key, [set |-> s])
    BY Zenon, <1>5 DEF AskApply
  <2>2. LoadStagedSource(view[u]) /\ "apply" # "set" /\ [set |-> s].set = s
    BY SMTT(30), <1>5 DEF AskApply
  <2> QED
    BY Zenon, <2>1, <2>2, AskedStands
<1>6. ASSUME NEW u \in Users, WriteMapping(u) \/ WriteMappingSet(u) \/ WriteApply(u)
      PROVE  SessionsTyped' /\ RequestsStand'
  BY Zenon, <1>6, AnswerKeeps DEF WriteMapping, WriteMappingSet, WriteApply
<1>7. CASE Claim \/ ProcessTables \/ ProcessText \/ JobDies \/ Reprocess \/ ReplaceSource \/ Deploy
  BY SMTT(30), <1>1, <1>7 DEF Claim, ProcessTables, ProcessText, JobDies, Reprocess, ReplaceSource, Deploy, clients
<1>8. ASSUME NEW b \in DOMAIN batches, RejectAndReprocess(b) \/ Activate(b) \/ RetryDerivatives(b)
      PROVE  UNCHANGED <<view, req>>
  BY SMTT(30), <1>8 DEF RejectAndReprocess, Activate, RetryDerivatives, clients
<1>9. CASE IndexStep
  BY SMTT(30), <1>1, <1>9 DEF IndexStep, LoadIndexTarget, ReplaceCandidateChunks, clients
<1>10. CASE UNCHANGED vars
  BY SMTT(30), <1>1, <1>10 DEF vars, clients
<1> QED
  BY Zenon, <1>1, <1>2, <1>3, <1>4, <1>5, <1>6, <1>7, <1>8, <1>9, <1>10 DEF Next

-----------------------------------------------------------------------------
(* Batches. *)

(* Row c is row b later on. *)
SameBatch(b, c) ==
    c.src = b.src /\ c.key = b.key /\ c.set = b.set /\ c.art = b.art /\ c.shown = b.shown

BatchesKept ==
    /\ batches' \in Seq(Batches)
    /\ DOMAIN batches' = DOMAIN batches
    /\ \A b \in DOMAIN batches : SameBatch(batches[b], batches'[b])

(* A new batch is of the current source, and known by its job or by a key that no
   batch of the source has. *)
BatchAdded(new) ==
    /\ new \in Batches /\ new.src = src
    /\ batches' = Append(batches, new)
    /\ BatchStands(new, src, sets)
    /\ \/ new.key = <<"job", Len(batches)>>
       \/ new.key \in Keys.apply /\ \A b \in DOMAIN batches :
                                        batches[b].src = src => batches[b].key # new.key
    /\ UNCHANGED <<src, sets>>

(* Rewriting the life or the index of one row keeps what the rows stand for. *)
LEMMA RowRewritten ==
    ASSUME BatchesStand, NEW b \in DOMAIN batches, NEW x \in Batches, SameBatch(batches[b], x),
           batches' = [batches EXCEPT ![b] = x]
    PROVE  BatchesKept
<1>1. batches \in Seq(Batches) /\ DOMAIN batches = 1..Len(batches)
  BY SMTT(30), ByPosition DEF BatchesStand
<1>2. /\ batches' \in Seq(Batches) /\ Len(batches') = Len(batches)
      /\ \A c \in 1..Len(batches) : batches'[c] = IF c = b THEN x ELSE batches[c]
  BY SMTT(30), <1>1, Replacing
<1>3. DOMAIN batches' = DOMAIN batches
  BY SMTT(30), <1>1, <1>2, ByPosition
<1> QED
  BY SMTT(30), <1>1, <1>2, <1>3 DEF BatchesKept, SameBatch

(* A row that is given another life, index or chunks. *)
LEMMA RowChanges ==
    ASSUME BatchesStand, NEW b \in DOMAIN batches,
           NEW l \in {"open", "rejected", "active"},
           NEW i \in {"none", "queued", "loaded", "dead", "done"}, NEW c \in BOOLEAN
    PROVE  /\ [batches[b] EXCEPT !.life = l] \in Batches
           /\ SameBatch(batches[b], [batches[b] EXCEPT !.life = l])
           /\ [batches[b] EXCEPT !.index = i] \in Batches
           /\ SameBatch(batches[b], [batches[b] EXCEPT !.index = i])
           /\ [batches[b] EXCEPT !.index = i, !.chunked = c] \in Batches
           /\ SameBatch(batches[b], [batches[b] EXCEPT !.index = i, !.chunked = c])
           /\ [batches[b] EXCEPT !.chunked = c] \in Batches
           /\ SameBatch(batches[b], [batches[b] EXCEPT !.chunked = c])
<1>1. batches[b] \in Batches
  BY SMTT(30), ByPosition DEF BatchesStand
<1> QED
  BY Zenon, <1>1 DEF Batches, SameBatch

(* The steps of review and index keep what the batches stand for. *)
LEMMA ReviewKeeps ==
    ASSUME BatchesStand, NEW b \in DOMAIN batches,
           RejectAndReprocess(b) \/ Activate(b) \/ RetryDerivatives(b)
               \/ LoadIndexTarget(b) \/ ReplaceCandidateChunks(b)
    PROVE  BatchesKept /\ src' = src
<1>1. CASE RejectAndReprocess(b)
  <2>1. batches' = [batches EXCEPT ![b] = [batches[b] EXCEPT !.life = "rejected"]] /\ src' = src
    BY SMTT(30), <1>1 DEF RejectAndReprocess
  <2> QED
    BY Zenon, <2>1, RowChanges, RowRewritten
<1>2. CASE Activate(b)
  <2>1. batches' = [batches EXCEPT ![b] = [batches[b] EXCEPT !.life = "active"]] /\ src' = src
    BY SMTT(30), <1>2 DEF Activate
  <2> QED
    BY Zenon, <2>1, RowChanges, RowRewritten
<1>3. CASE RetryDerivatives(b) \/ LoadIndexTarget(b)
  <2>1. PICK i \in {"queued", "loaded", "dead"} : SetIndex(b, i) /\ src' = src
    BY SMTT(30), <1>3 DEF RetryDerivatives, LoadIndexTarget, source
  <2>2. batches' = [batches EXCEPT ![b] = [batches[b] EXCEPT !.index = i]]
    BY SMTT(30), <2>1 DEF SetIndex
  <2>3. i \in {"none", "queued", "loaded", "dead", "done"}
    BY SMTT(30)
  <2> QED
    BY Zenon, <2>1, <2>2, <2>3, RowChanges, RowRewritten
<1>4. CASE ReplaceCandidateChunks(b)
  <2> DEFINE c == Current(b)
  <2>1. batches' = [batches EXCEPT ![b].index = "done", ![b].chunked = c] /\ src' = src
    BY Zenon, <1>4 DEF ReplaceCandidateChunks, source
  <2>2. c \in BOOLEAN
    BY SMTT(30) DEF Current
  <2> HIDE DEF c
  <2>3. batches' = [batches EXCEPT ![b] = [batches[b] EXCEPT !.index = "done", !.chunked = c]]
    BY Zenon, <2>1, ByPosition DEF BatchesStand
  <2> DEFINE x == [batches[b] EXCEPT !.index = "done", !.chunked = c]
  <2>4. x \in Batches /\ SameBatch(batches[b], x)
    BY ZenonT(30), <2>2, RowChanges
  <2> HIDE DEF x
  <2> QED
    BY Zenon, <2>1, <2>3, <2>4, RowRewritten DEF x
<1> QED
  BY SMTT(30), <1>1, <1>2, <1>3, <1>4

(* A replaced source keeps the batches and drops their chunks. *)
LEMMA ReplaceKeeps ==
    ASSUME BatchesStand, ReplaceSource
    PROVE  BatchesKept /\ src' = src + 1
<1>1. batches' = [b \in DOMAIN batches |-> [batches[b] EXCEPT !.chunked = FALSE]] /\ src' = src + 1
  BY SMTT(30) DEF ReplaceSource
<1>2. batches \in Seq(Batches) /\ DOMAIN batches = 1..Len(batches) /\ Len(batches) \in Nat
  BY SMTT(30), ByPosition DEF BatchesStand
<1>3. \A b \in DOMAIN batches : /\ [batches[b] EXCEPT !.chunked = FALSE] \in Batches
                                /\ SameBatch(batches[b], [batches[b] EXCEPT !.chunked = FALSE])
  BY Zenon, RowChanges
<1>4. /\ DOMAIN batches' = DOMAIN batches
      /\ \A b \in DOMAIN batches : batches'[b] \in Batches /\ SameBatch(batches[b], batches'[b])
  BY Zenon, <1>1, <1>3
<1>5. batches' \in [1..Len(batches) -> Batches]
  BY Zenon, <1>1, <1>2, <1>3
<1>6. batches' \in Seq(Batches)
  BY SMTT(30), <1>2, <1>5, FunctionIsSequence
<1> QED
  BY Zenon, <1>1, <1>4, <1>6 DEF BatchesKept

(* The row that NewBatch makes. *)
LEMMA NewBatchRow ==
    ASSUME NEW key \in Keys.apply \cup JobKeys, NEW set \in (Sources \X Keys.set) \cup {Nothing},
           NEW art \in Builds, NEW shown \in Builds, NEW app, src \in Sources
    PROVE  /\ NewBatch(key, set, art, shown, app) \in Batches
           /\ NewBatch(key, set, art, shown, app).src = src
           /\ NewBatch(key, set, art, shown, app).key = key
           /\ NewBatch(key, set, art, shown, app).set = set
           /\ NewBatch(key, set, art, shown, app).art = art
           /\ NewBatch(key, set, art, shown, app).shown = shown
  BY SMTT(30) DEF NewBatch, Batches

(* The batch of a text without tables is known by its job. *)
LEMMA TextAdds ==
    ASSUME MappingInv, ProcessText
    PROVE  \E new : BatchAdded(new)
<1> DEFINE key == <<"job", Len(batches)>>
           app == BodyCandidate(src, Normalized[src][build])
           new == NewBatch(key, Nothing, build, build, app)
<1>1. src \in Sources /\ build \in Builds /\ batches \in Seq(Batches) /\ Len(batches) \in Nat
  BY SMTT(30), ByPosition DEF MappingInv, SourceInv, SourceTyped, BatchesStand
<1>2. key \in JobKeys
  BY SMTT(30), <1>1 DEF JobKeys
<1>3. batches' = Append(batches, new) /\ UNCHANGED <<src, sets>>
  BY Zenon DEF ProcessText
<1> HIDE DEF key, app
<1>4. /\ new \in Batches /\ new.src = src /\ new.key = key /\ new.set = Nothing
      /\ new.art = build /\ new.shown = build
  BY SMTT(30), <1>1, <1>2, NewBatchRow
<1>5. src <= src
  BY SMTT(30), <1>1, MappingAssumption DEF Sources
<1> HIDE DEF new
<1>6. BatchStands(new, src, sets)
  BY Zenon, <1>4, <1>5 DEF BatchStands
<1> QED
  BY Zenon, <1>3, <1>4, <1>6 DEF BatchAdded, key

(* The batch of a confirmed set is known by the key of its request. *)
LEMMA ApplyAdds ==
    ASSUME MappingInv, NEW u \in Users, WriteApply(u), AddMappingBatch(u)
    PROVE  \E new : BatchAdded(new)
<1> DEFINE app == Application(src, sets[req[u].body.set], req[u].art)[1]
           new == NewBatch(req[u].key, req[u].body.set, req[u].art, req[u].shown, app)
<1>1. /\ req[u] # Nothing /\ req[u].op = "apply" /\ req[u].src = src
      /\ batches' = Append(batches, new) /\ UNCHANGED <<src, sets>>
      /\ \A b \in DOMAIN batches : batches[b].src = src => batches[b].key # req[u].key
  BY Zenon DEF WriteApply, AddMappingBatch, AcceptsBatch, RequireCurrent
<1>2. /\ src \in Sources /\ req[u].art \in Builds /\ req[u].shown \in Builds
      /\ Normalized[src][req[u].art] = Normalized[src][req[u].shown]
      /\ req[u].key \in Keys.apply
      /\ req[u].body.set \in DOMAIN sets /\ req[u].body.set[1] = src
  BY Zenon, <1>1 DEF MappingInv, RequestsStand, RequestStands
<1>3. req[u].body.set \in Sources \X Keys.set
  BY Zenon, <1>2 DEF MappingInv, SetsStand
<1> HIDE DEF app
<1>4. /\ new \in Batches /\ new.src = src /\ new.key = req[u].key /\ new.set = req[u].body.set
      /\ new.art = req[u].art /\ new.shown = req[u].shown
  <2>1. req[u].key \in Keys.apply \cup JobKeys /\ req[u].body.set \in (Sources \X Keys.set) \cup {Nothing}
    BY Zenon, <1>2, <1>3
  <2> QED
    BY SMTT(30), <1>2, <2>1, NewBatchRow
<1>5. src <= src
  BY SMTT(30), <1>2, MappingAssumption DEF Sources
<1> HIDE DEF new
<1>6. BatchStands(new, src, sets)
  BY Zenon, <1>2, <1>4, <1>5 DEF BatchStands
<1> QED
  BY Zenon, <1>1, <1>2, <1>4, <1>6 DEF BatchAdded

(* What each step does to the batches: it keeps what they stand for, or adds one. *)
LEMMA BatchMoves ==
    ASSUME MappingInv, [Next]_vars
    PROVE  (BatchesKept /\ src' \in {src, src + 1}) \/ \E new : BatchAdded(new)
<1> USE DEF MappingInv
<1>1. CASE UNCHANGED batches /\ src' = src
  BY SMTT(30), <1>1, ByPosition DEF BatchesStand, BatchesKept, SameBatch
<1>2. ASSUME NEW u \in Users, WriteApply(u)
      PROVE  (UNCHANGED batches /\ src' = src) \/ \E new : BatchAdded(new)
  BY Zenon, <1>2, ApplyAdds DEF WriteApply
<1>3. ASSUME NEW u \in Users, \/ Show(u) \/ AskMapping(u) \/ AskMappingSet(u) \/ AskApply(u)
                              \/ WriteMapping(u) \/ WriteMappingSet(u)
      PROVE  UNCHANGED batches /\ src' = src
  BY Zenon, <1>3 DEF Show, AskMapping, AskMappingSet, AskApply, Ask, WriteMapping, WriteMappingSet,
              source, records
<1>4. CASE Claim \/ ProcessTables \/ JobDies \/ Reprocess \/ Deploy
  BY SMTT(30), <1>1, <1>4 DEF Claim, ProcessTables, JobDies, Reprocess, Deploy, records
<1>5. CASE ReplaceSource
  BY Zenon, <1>5, ReplaceKeeps
<1>6. CASE IndexStep \/ \E b \in DOMAIN batches :
                            RejectAndReprocess(b) \/ Activate(b) \/ RetryDerivatives(b)
  <2>1. PICK b \in DOMAIN batches : RejectAndReprocess(b) \/ Activate(b) \/ RetryDerivatives(b)
                                    \/ LoadIndexTarget(b) \/ ReplaceCandidateChunks(b)
    BY Zenon, <1>6 DEF IndexStep
  <2> QED
    BY Zenon, <2>1, ReviewKeeps
<1>7. CASE UNCHANGED vars
  BY SMTT(30), <1>1, <1>7 DEF vars, source, records
<1> QED
  BY Zenon, <1>1, <1>2, <1>3, <1>4, <1>5, <1>6, <1>7, TextAdds DEF Next

(* The table after a batch was added. *)
LEMMA AddedTable ==
    ASSUME MappingInv, NEW new, BatchAdded(new)
    PROVE  /\ batches' \in Seq(Batches) /\ Len(batches) \in Nat
           /\ DOMAIN batches = 1..Len(batches) /\ DOMAIN batches' = 1..(Len(batches) + 1)
           /\ \A b \in DOMAIN batches : b \in DOMAIN batches' /\ batches'[b] = batches[b]
           /\ batches'[Len(batches) + 1] = new
<1>1. batches \in Seq(Batches) /\ new \in Batches /\ batches' = Append(batches, new)
  BY Zenon DEF MappingInv, BatchesStand, BatchAdded
<1>2. Len(batches) \in Nat /\ DOMAIN batches = 1..Len(batches)
  BY SMTT(30), <1>1, ByPosition
<1>3. /\ batches' \in Seq(Batches) /\ Len(batches') = Len(batches) + 1
      /\ \A b \in 1..Len(batches) : batches'[b] = batches[b]
      /\ batches'[Len(batches) + 1] = new
  BY SMTT(30), <1>1, Appending
<1>4. DOMAIN batches' = 1..(Len(batches) + 1)
  BY SMTT(30), <1>3, ByPosition
<1> QED
  BY SMTT(30), <1>2, <1>3, <1>4

(* Sources are numbered from 1, and every batch names one with two builds. *)
LEMMA BatchTyped ==
    ASSUME MappingInv
    PROVE  /\ src \in Nat /\ src >= 1
           /\ \A b \in DOMAIN batches : /\ batches[b].src \in Sources /\ batches[b].src \in Nat
                                        /\ batches[b].art \in Builds /\ batches[b].shown \in Builds
<1>1. src \in Nat /\ src >= 1 /\ \A v \in Sources : v \in Nat
  BY SMTT(30), MappingAssumption DEF MappingInv, SourceInv, SourceTyped, Sources
<1>2. \A b \in DOMAIN batches : batches[b] \in Batches
  <2>1. batches \in Seq(Batches)
    BY Zenon DEF MappingInv, BatchesStand
  <2> QED
    BY Zenon, <2>1, ByPosition
<1>3. \A b \in Batches : b.src \in Sources /\ b.art \in Builds /\ b.shown \in Builds
  BY SMTT(30) DEF Batches
<1> QED
  BY Zenon, <1>1, <1>2, <1>3

(* Every step keeps the batches bound to what made them. *)
LEMMA BatchesStep ==
    ASSUME MappingInv, [Next]_vars
    PROVE  BatchesStand'
<1>1. WrittenOnce(sets, sets')
  BY Zenon, RowsArePermanent
<1>2. src \in Nat /\ \A b \in DOMAIN batches : batches[b].src \in Nat
  BY Zenon, BatchTyped
<1>3. ASSUME BatchesKept, src' \in {src, src + 1} PROVE BatchesStand'
  <2> SUFFICES ASSUME NEW b \in DOMAIN batches PROVE BatchStands(batches'[b], src', sets')
    BY Zenon, <1>3 DEF BatchesStand, BatchesKept
  <2>1. SameBatch(batches[b], batches'[b]) /\ BatchStands(batches[b], src, sets)
    BY Zenon, <1>3 DEF BatchesKept, MappingInv, BatchesStand
  <2>2. batches[b].src <= src'
    BY SMTT(30), <1>2, <1>3, <2>1 DEF BatchStands
  <2> QED
    BY Zenon, <1>1, <2>1, <2>2 DEF BatchStands, SameBatch, WrittenOnce
<1>4. ASSUME NEW new, BatchAdded(new) PROVE BatchesStand'
  <2>1. /\ batches' \in Seq(Batches) /\ Len(batches) \in Nat
        /\ DOMAIN batches = 1..Len(batches) /\ DOMAIN batches' = 1..(Len(batches) + 1)
        /\ \A b \in DOMAIN batches : batches'[b] = batches[b]
        /\ batches'[Len(batches) + 1] = new
    BY Zenon, <1>4, AddedTable
  <2>2. /\ src' = src /\ sets' = sets /\ BatchStands(new, src, sets)
        /\ \A b \in DOMAIN batches : BatchStands(batches[b], src, sets)
    BY Zenon, <1>4 DEF BatchAdded, MappingInv, BatchesStand
  <2>3. \A b \in DOMAIN batches' : b \in DOMAIN batches \/ b = Len(batches) + 1
    BY SMTT(30), <2>1
  <2> QED
    BY Zenon, <2>1, <2>2, <2>3 DEF BatchesStand
<1> QED
  BY Zenon, <1>3, <1>4, BatchMoves

(* Every step keeps one batch for one request. *)
LEMMA KeysStep ==
    ASSUME MappingInv, [Next]_vars
    PROVE  KeysAreApart' /\ OneBatchPerRequest'
<1>1. KeysAreApart /\ OneBatchPerRequest
  BY SMTT(30) DEF MappingInv
<1>2. CASE BatchesKept
  <2>1. /\ DOMAIN batches' = DOMAIN batches
        /\ \A b \in DOMAIN batches : batches'[b].src = batches[b].src /\ batches'[b].key = batches[b].key
    BY Zenon, <1>2 DEF BatchesKept, SameBatch
  <2> QED
    BY Zenon, <1>1, <2>1 DEF KeysAreApart, OneBatchPerRequest
<1>3. ASSUME NEW new, BatchAdded(new) PROVE KeysAreApart' /\ OneBatchPerRequest'
  <2> DEFINE n == Len(batches)
  <2>1. /\ n \in Nat /\ DOMAIN batches = 1..n /\ DOMAIN batches' = 1..(n + 1)
        /\ \A b \in 1..n : batches'[b] = batches[b]
        /\ batches'[n + 1] = new
    BY Zenon, <1>3, AddedTable
  <2>2. /\ new.src = src
        /\ \/ new.key = <<"job", n>>
           \/ new.key \in Keys.apply /\ \A b \in DOMAIN batches :
                                            batches[b].src = src => batches[b].key # new.key
    BY Zenon, <1>3 DEF BatchAdded
  <2> HIDE DEF n
  <2>3. ASSUME NEW b \in 1..n, batches[b].src = src PROVE batches[b].key # new.key
    <3>1. batches[b].key \in Keys.apply \/ batches[b].key = <<"job", b - 1>>
      BY SMTT(30), <1>1, <2>1 DEF KeysAreApart
    <3>2. CASE new.key = <<"job", n>>
      <4>1. new.key \in {"job"} \X Nat /\ b - 1 # n
        BY SMTT(30), <2>1, <3>2
      <4>2. new.key \notin Keys.apply
        BY Zenon, <4>1, MappingAssumption
      <4>3. <<"job", b - 1>> # <<"job", n>>
        BY SMTT(30), <4>1
      <4> QED
        BY Zenon, <3>1, <3>2, <4>2, <4>3
    <3> QED
      BY SMTT(30), <2>1, <2>2, <2>3, <3>2
  <2>4. KeysAreApart'
    BY SMTT(30), <1>1, <2>1, <2>2 DEF KeysAreApart
  <2>5. OneBatchPerRequest'
    <3> SUFFICES ASSUME NEW a \in 1..(n + 1), NEW b \in 1..(n + 1),
                        batches'[a].src = batches'[b].src, batches'[a].key = batches'[b].key
                 PROVE  a = b
      BY Zenon, <2>1 DEF OneBatchPerRequest
    <3>1. CASE a \in 1..n /\ b \in 1..n
      BY Zenon, <1>1, <2>1, <3>1 DEF OneBatchPerRequest
    <3>2. CASE a \in 1..n /\ b = n + 1
      BY Zenon, <2>1, <2>2, <2>3, <3>2
    <3>3. CASE a = n + 1 /\ b \in 1..n
      BY Zenon, <2>1, <2>2, <2>3, <3>3
    <3> QED
      BY SMTT(30), <2>1, <3>1, <3>2, <3>3
  <2> QED
    BY SMTT(30), <2>4, <2>5
<1> QED
  BY Zenon, <1>2, <1>3, BatchMoves

-----------------------------------------------------------------------------
(* Theorems. *)

(* The document of Init: one uploaded source, nothing mapped. *)
LEMMA MappingInit == Init => MappingInv
<1> SUFFICES ASSUME Init PROVE MappingInv
  BY SMTT(30)
<1>1. SourceInv
  <2>1. src \in Sources /\ build \in Builds
    BY SMTT(30), MappingAssumption DEF Init, Sources, Builds
  <2>2. doc \in Documents /\ doc.intake = "queued"
    BY Zenon, <2>1 DEF Init, Documents, Builds
  <2>3. arts \in Seq(Builds) /\ DOMAIN arts = {}
    BY SMTT(30) DEF Init
  <2> QED
    BY SMTT(30), <2>1, <2>2, <2>3 DEF Init, SourceInv, SourceTyped, StagedRowsMatch
<1>2. DOMAIN sets = {} /\ DOMAIN batches = {} /\ batches \in Seq(Batches)
  BY SMTT(30) DEF Init
<1>3. SessionsTyped /\ RequestsStand
  BY Zenon DEF Init, SessionsTyped, RequestsStand
<1> QED
  BY Zenon, <1>1, <1>2, <1>3
     DEF MappingInv, SetsStand, BatchesStand, KeysAreApart, OneBatchPerRequest

(* The inductive invariant of the mapping routes, the processing job and the index. *)
THEOREM MappingInvariant == Spec => []MappingInv
<1>1. MappingInv /\ [Next]_vars => MappingInv'
  BY Zenon, SourceStep, SetsStep, SessionsStep, BatchesStep, KeysStep DEF MappingInv
<1> QED
  BY <1>1, MappingInit, PTL DEF Spec

(* add_mapping_batch and the pipeline make one batch for one request, whichever
   sessions repeat it and whatever happens to the source in between. *)
THEOREM RequestsMakeOneBatch == Spec => []OneBatchPerRequest
<1>1. MappingInv => OneBatchPerRequest
  BY SMTT(30) DEF MappingInv
<1> QED
  BY <1>1, MappingInvariant, PTL

(* The rows in spreadsheet_rows are those of one artifact, and of the one the last
   job used if it has tables, through retries, replaced sources, upgrades and
   rollbacks of the parser. *)
THEOREM RowsStayStaged == Spec => []StagedRowsMatch
<1>1. MappingInv => StagedRowsMatch
  BY SMTT(30) DEF MappingInv, SourceInv
<1> QED
  BY <1>1, MappingInvariant, PTL

(* A mapping batch holds the records that its set makes of the structure its
   author was shown, although the routes read before they lock. *)
THEOREM RecordsWereShown == Spec => []RecordsAreThoseShown
<1>1. MappingInv => RecordsAreThoseShown
  <2> SUFFICES ASSUME MappingInv, NEW b \in DOMAIN batches, batches[b].set # Nothing
               PROVE  Application(batches[b].src, SetOf(b), batches[b].art) =
                        Application(batches[b].src, SetOf(b), batches[b].shown)
    BY Zenon DEF RecordsAreThoseShown, Mapped
  <2> DEFINE s == batches[b].set
             v == batches[b].src
  <2>1. /\ v \in Sources /\ batches[b].art \in Builds /\ batches[b].shown \in Builds
    BY Zenon, BatchTyped
  <2>2. s \in DOMAIN sets /\ s[1] = v /\ Normalized[v][batches[b].art] = Normalized[v][batches[b].shown]
    BY Zenon DEF MappingInv, BatchesStand, BatchStands
  <2>3. SetStands(v, sets[s], maps)
    BY Zenon, <2>2 DEF MappingInv, SetsStand
  <2>4. sets[s].art \in Builds /\ Members(sets[s].ids) \in DOMAIN Applied[v][sets[s].art]
    BY Zenon, <2>3 DEF SetStands, Members
  <2>5. Application(v, sets[s], batches[b].art) = Application(v, sets[s], batches[b].shown)
    BY Zenon, <2>1, <2>2, <2>4, AppliedByContent DEF Application
  <2> QED
    BY Zenon, <2>5 DEF SetOf
<1> QED
  BY <1>1, MappingInvariant, PTL

(* Mappings, sets and what a batch stands for are written once, and a new set or
   batch belongs to a source of the document, a batch with a set of its own: the
   lineage triggers of _install_phase3_triggers stop no request. *)
THEOREM LineageStays == Spec => [][LineageIsKept]_records
<1>1. ASSUME MappingInv, [Next]_vars PROVE LineageIsKept
  <2>1. WrittenOnce(maps, maps') /\ WrittenOnce(sets, sets')
    BY SMTT(30), <1>1, RowsArePermanent
  <2>2. src \in Nat /\ src >= 1 /\ \A b \in DOMAIN batches : batches[b].src \in Nat
    BY Zenon, <1>1, BatchTyped
  <2>3. ASSUME NEW s \in DOMAIN sets' \ DOMAIN sets PROVE SetInsertGuard(s, 1..src')
    <3>1. s[1] = src /\ src' = src
      BY SMTT(30), <1>1, NewSetIsAsked
    <3> QED
      BY SMTT(30), <2>2, <3>1 DEF SetInsertGuard
  <2>4. CASE BatchesKept
    BY SMTT(30), <2>1, <2>3, <2>4 DEF LineageIsKept, BatchesKept, SameBatch, Identity, WrittenOnce
  <2>5. ASSUME NEW new, BatchAdded(new) PROVE LineageIsKept
    <3>1. /\ Len(batches) \in Nat
          /\ DOMAIN batches = 1..Len(batches) /\ DOMAIN batches' = 1..(Len(batches) + 1)
          /\ \A b \in DOMAIN batches : b \in DOMAIN batches' /\ batches'[b] = batches[b]
          /\ batches'[Len(batches) + 1] = new
      BY Zenon, <1>1, <2>5, AddedTable
    <3>2. /\ new.src = src /\ src' = src /\ sets' = sets
          /\ new.set # Nothing => new.set \in DOMAIN sets /\ new.set[1] = new.src
      BY Zenon, <2>5 DEF BatchAdded, BatchStands
    <3>3. BatchInsertGuard(new, 1..src', sets')
      BY SMTT(30), <2>2, <3>2 DEF BatchInsertGuard
    <3>4. \A b \in DOMAIN batches' \ DOMAIN batches : b = Len(batches) + 1
      BY SMTT(30), <3>1
    <3>5. \A b \in DOMAIN batches' \ DOMAIN batches : BatchInsertGuard(batches'[b], 1..src', sets')
      BY Zenon, <3>1, <3>3, <3>4
    <3>6. WrittenOnce([b \in DOMAIN batches |-> Identity(batches[b])],
                      [b \in DOMAIN batches' |-> Identity(batches'[b])])
      BY Zenon, <3>1 DEF WrittenOnce
    <3> QED
      BY Zenon, <2>1, <2>3, <3>5, <3>6 DEF LineageIsKept
  <2> QED
    BY Zenon, <1>1, <2>4, <2>5, BatchMoves
<1>2. MappingInv /\ [Next]_vars => [LineageIsKept]_records
  BY SMTT(30), <1>1
<1> QED
  BY <1>2, MappingInvariant, PTL DEF Spec
=============================================================================
