------------------------- MODULE StructuredMapping -------------------------
(***************************************************************************)
(* The mapping of tables to records, as functions: how a normalized        *)
(* document is staged (ingest/staging.py), how declarative rules project a *)
(* row (ingest/mapping.py), and the ledger that accounts for every row     *)
(* (ingest/records.py).                                                    *)
(*                                                                         *)
(* A cell is a tuple whose first component says how its text reads:        *)
(*   <<"null">>          blank         <<"string", s>>     other text      *)
(*   <<"integer", n>>    5             <<"date", y>>       an ISO date     *)
(*   <<"number", w, f>>  w.f           <<"code", s>>       three letters   *)
(*   <<"comma", w, f>>   w,f           <<"slash", a, b>>   a/b/year        *)
(* A normalized document is [tables, residual]; a table is [loc, header,   *)
(* rows] and rows may be shorter or longer than the header.  A header cell *)
(* is a tuple: <<>> when blank, <<"a">> for "a" and <<"a", 2>> for "a__2".      *)
(* Digests are injective here: a fingerprint is the value it is taken of.  *)
(***************************************************************************)
EXTENDS Integers, Sequences, FiniteSets, FiniteSetsExt, Functions, Folds

Null == <<"null">>

-----------------------------------------------------------------------------
(* Staging. *)

(* header.strip() or f"column_{i}" *)
ColumnName(header, i) == IF header[i] = <<>> THEN <<"column_", i>> ELSE header[i]

(* _canonical_headers: blank headers are named by position and a repeated one
   gets its count; a suffixed name may still be the name of another column. *)
CanonicalHeaders(header) ==
    LET Named(i) == ColumnName(header, i)
        Count(i) == Cardinality({j \in 1..i : Named(j) = Named(i)})
    IN  [i \in DOMAIN header |-> IF Count(i) = 1 THEN Named(i) ELSE Append(Named(i), Count(i))]

CellAt(cells, i) == IF i \in DOMAIN cells THEN cells[i] ELSE Null

(* _typed_cell: text that is no number, date or flag is a string. *)
TypedCell(c) == IF c[1] \in {"null", "integer", "number", "date"} THEN c[1] ELSE "string"

(* _infer_column_types *)
InferColumnTypes(headers, body) ==
    LET Observed(i) == {TypedCell(CellAt(body[r], i)) : r \in DOMAIN body} \ {"null"}
    IN  [i \in DOMAIN headers |->
            IF Observed(i) = {} THEN "blank"
            ELSE IF Cardinality(Observed(i)) = 1 THEN CHOOSE t \in Observed(i) : TRUE
            ELSE "mixed"]

IsBlank(cells) == \A i \in DOMAIN cells : cells[i] = Null

(* StagedRow: its locator is the table and the ordinal. *)
StageRows(t) ==
    [r \in DOMAIN t.rows |->
        [loc |-> <<"row", t.loc, r>>, cells |-> t.rows[r], blank |-> IsBlank(t.rows[r])]]

(* SchemaDescriptor: the schema fingerprint covers the locator, the headers and
   the types, not the rows. *)
Descriptor(t, headers) ==
    [loc |-> t.loc, headers |-> headers, types |-> InferColumnTypes(headers, t.rows)]

StageTable(t) ==
    [schema |-> Descriptor(t, CanonicalHeaders(t.header)), rows |-> StageRows(t)]

ResidualLocator == <<"document", "residual">>

(* The structure fingerprint: locators, schemas and row counts of the tables and
   the residual text, again without the cells. *)
StructureFingerprint(tables, residual) ==
    [tables |-> [i \in DOMAIN tables |->
                    [schema |-> tables[i].schema, count |-> Len(tables[i].rows)]],
     residual |-> residual]

(* build_staged_structure, for a document that has tables: the canonical digest
   of the document is kept next to its structure. *)
BuildStagedStructure(d) ==
    LET tables == [i \in DOMAIN d.tables |-> StageTable(d.tables[i])]
        residual == IF tables = <<>> THEN Null ELSE d.residual
    IN  [tables |-> tables, residual |-> residual, normalized |-> <<"canonical", d>>,
         fingerprint |-> StructureFingerprint(tables, residual)]

Locators(staged) == {staged.tables[i].schema.loc : i \in DOMAIN staged.tables}

RowCount(tables) == SumFunction([i \in DOMAIN tables |-> Len(tables[i].rows)])
UnitCount(staged) == RowCount(staged.tables) + (IF staged.residual = Null THEN 0 ELSE 1)

(* SpreadsheetRow.values, a dictionary by column name: a later column overwrites
   an earlier one of the same name, a short row is filled with blanks and cells
   beyond the header are dropped. *)
RowValues(header, cells) ==
    [c \in {ColumnName(header, i) : i \in DOMAIN header} |->
        CellAt(cells, Max({i \in DOMAIN header : ColumnName(header, i) = c}))]

(* The rows of a table in spreadsheet_rows. *)
TableRows(t) ==
    {[loc |-> t.loc, row |-> r, values |-> RowValues(t.header, t.rows[r])] : r \in DOMAIN t.rows}

(* spreadsheet_rows is unique in location and row index: the rows of two tables
   at one location cannot both be inserted. *)
RowsAreApart(d) ==
    \A i, j \in DOMAIN d.tables :
        i # j /\ d.tables[i].loc = d.tables[j].loc =>
            DOMAIN d.tables[i].rows \cap DOMAIN d.tables[j].rows = {}

(* Wrong variant: the rows that are already staged stay. *)
StageTabularRowsAdded(old, d) == old \cup UNION {TableRows(t) : t \in Range(d.tables)}

(* stage_tabular_rows: the rows of the source version are deleted and those of
   every table inserted, keyed by table location and row index. *)
StageTabularRows(old, d) == UNION {TableRows(t) : t \in Range(d.tables)}

-----------------------------------------------------------------------------
(* Field rules. *)

(* FieldRule.__post_init__: columns or a literal, and a style exactly where the
   parser needs one. *)
FieldRuleValid(rule) ==
    /\ (rule.columns # <<>>) # (rule.literal # <<>>)
    /\ (rule.parser \in {"date", "decimal"}) = (rule.style # "none")
    /\ rule.parser # "decimal" => rule.sign = "preserve"
    /\ rule.parser # "currency" => rule.aliases = <<>>

(* MappingContract.__post_init__ *)
MappingContractValid(m) ==
    LET targets == {m.rules[i].target : i \in DOMAIN m.rules} IN
    /\ m.rules # <<>>
    /\ \A i \in DOMAIN m.rules : FieldRuleValid(m.rules[i])
    /\ Cardinality(targets) = Len(m.rules)
    /\ m.required \subseteq targets
    /\ (m.kind = "financial") = (m.subtype # "none")

(* MappingSetEntryContract and MappingSetContract: a mapping or a reason to
   ignore, the identity of the mapping, and no locator twice. *)
MappingSetContractValid(s) ==
    /\ \A i \in DOMAIN s.entries :
        LET e == s.entries[i] IN
        /\ (e.mapping = <<>>) # (e.ignore = "none")
        /\ e.mapping # <<>> => e.mapping[1].loc = e.loc /\ e.mapping[1].schema = e.schema
    /\ \A i, j \in DOMAIN s.entries : s.entries[i].loc = s.entries[j].loc => i = j

(* record[column]: of two columns with one name the later cell is kept. *)
AsRecord(row, headers, column) ==
    CellAt(row.cells, Max({i \in DOMAIN headers : headers[i] = column}))

(* separator.join(...).strip() of one or two columns. *)
JoinColumns(cells) ==
    LET filled == SelectSeq(cells, LAMBDA c : c # Null)
    IN  IF filled = <<>> THEN Null ELSE IF Len(filled) = 1 THEN filled[1] ELSE <<"joined", filled>>

Good(v) == [ok |-> TRUE, val |-> v]
Bad == [ok |-> FALSE, val |-> Null]

(* _parse_date: a/b/year is read by the style of the rule. *)
ParseDate(c, style) ==
    IF c[1] = "date" /\ style = "iso" THEN Good(c)
    ELSE IF c[1] = "slash" /\ style = "dmy" /\ c[3] \in 1..12 THEN Good(<<"day", c[2], c[3]>>)
    ELSE IF c[1] = "slash" /\ style = "mdy" /\ c[2] \in 1..12 THEN Good(<<"day", c[3], c[2]>>)
    ELSE Bad

(* _parse_decimal, in tenths: the mark that is not the style's own separates
   thousands and is dropped, so the digits on both sides of it join. *)
ParseDecimal(c, style) ==
    IF c[1] = "integer" THEN Good(10 * c[2])
    ELSE IF c[1] \notin {"number", "comma"} THEN Bad
    ELSE IF (c[1] = "number") = (style = "dot") THEN Good(10 * c[2] + c[3])
    ELSE Good(10 * (10 * c[2] + c[3]))

SignRule(n, sign) == CASE sign = "preserve" -> n
                       [] sign = "negate" -> -n
                       [] sign = "absolute" -> IF n < 0 THEN -n ELSE n

(* The currency branch: an alias, or the text itself, must be three letters. *)
Currency(c, aliases) ==
    LET named == IF c \in DOMAIN aliases THEN aliases[c] ELSE c
    IN  IF named[1] = "code" THEN Good(named) ELSE Bad

ParseValue(rule, v) ==
    IF rule.parser = "raw" THEN Good(v)
    ELSE IF rule.parser = "date" THEN ParseDate(v, rule.style)
    ELSE IF rule.parser = "currency" THEN Currency(v, rule.aliases)
    ELSE LET d == ParseDecimal(v, rule.style)
         IN  IF d.ok THEN Good(<<"decimal", SignRule(d.val, rule.sign)>>) ELSE Bad

Translated(rule, v) == IF v \in DOMAIN rule.values THEN rule.values[v] ELSE v

(* _apply_field_rule on the literal or the joined columns. *)
ApplyFieldRule(rule, read) ==
    IF read = Null \/ read \in rule.nulls THEN Good(Null)
    ELSE ParseValue(rule, Translated(rule, read))

ReadRule(rule, row, headers) ==
    IF rule.literal # <<>> THEN rule.literal
    ELSE JoinColumns([i \in DOMAIN rule.columns |-> AsRecord(row, headers, rule.columns[i])])

(* _apply_row: a value that does not parse is kept as null with an issue, and a
   required value that is null is an issue. *)
ApplyRow(m, row, headers) ==
    LET got == [i \in DOMAIN m.rules |-> ApplyFieldRule(m.rules[i], ReadRule(m.rules[i], row, headers))]
    IN  [payload |-> [t \in {m.rules[i].target : i \in DOMAIN m.rules} |->
                        got[CHOOSE i \in DOMAIN m.rules : m.rules[i].target = t].val],
         issues |-> {<<m.rules[i].target, "invalid">> : i \in {j \in DOMAIN got : ~got[j].ok}}
                    \cup {<<m.rules[i].target, "required">> :
                            i \in {j \in DOMAIN got : /\ m.rules[j].target \in m.required
                                                      /\ got[j].val = Null}}]

(* _validate_mapping_against_table *)
MappingFitsTable(m, table) ==
    /\ m.loc = table.schema.loc
    /\ m.schema = table.schema
    /\ \A i \in DOMAIN m.rules : Range(m.rules[i].columns) \subseteq Range(table.schema.headers)

-----------------------------------------------------------------------------
(* Applying a mapping set. *)

(* build_candidate_key: where the record comes from, its place among the
   candidates, its content and the kind and version of its mapping. *)
CandidateKey(sha, loc, ordinal, content, kind, subtype, version) ==
    <<sha, loc, ordinal, content, kind, subtype, version>>

Decision(loc, content, how, key) ==
    [unit |-> loc, content |-> content, how |-> how, key |-> key]

NoKey == <<>>

(* One unit after another: the candidates and decisions made so far. *)
AddCandidate(acc, sha, loc, content, kind, subtype, version, result, how) ==
    LET key == CandidateKey(sha, loc, Len(acc.cands) + 1, content, kind, subtype, version)
    IN  [cands |-> Append(acc.cands, [ordinal |-> Len(acc.cands) + 1, key |-> key, loc |-> loc,
                                      kind |-> kind, payload |-> result.payload,
                                      issues |-> result.issues]),
         decisions |-> Append(acc.decisions, Decision(loc, content, how, key))]

Decide(acc, row, how) ==
    [acc EXCEPT !.decisions = Append(@, Decision(row.loc, row.cells, how, NoKey))]

(* A loop over a sequence, which hands an accumulator on. *)
Loop(op(_, _), base, seq) ==
    MapThenFoldSet(LAMBDA i, acc : op(acc, seq[i]), base, LAMBDA i : i, Max, DOMAIN seq)

(* Wrong variant: a row with issues is put aside with the blank ones. *)
ApplyRowsWithoutIssues(acc, table, m, sha) ==
    Loop(LAMBDA a, row :
            IF row.blank \/ ApplyRow(m, row, table.schema.headers).issues # {}
            THEN Decide(a, row, "blank")
            ELSE AddCandidate(a, sha, row.loc, row.cells, m.kind, m.subtype, m.version,
                              ApplyRow(m, row, table.schema.headers), "mapped"),
         acc, table.rows)

(* The loop over the rows of a mapped table: blank rows are accounted for, every
   other row is a candidate, with or without issues. *)
ApplyRows(acc, table, m, sha) ==
    Loop(LAMBDA a, row :
            IF row.blank THEN Decide(a, row, "blank")
            ELSE AddCandidate(a, sha, row.loc, row.cells, m.kind, m.subtype, m.version,
                              ApplyRow(m, row, table.schema.headers), "mapped"),
         acc, table.rows)

IgnoreRows(acc, table) ==
    Loop(LAMBDA a, row : Decide(a, row, "ignored"), acc, table.rows)

EntryFor(set, loc) == CHOOSE e \in Range(set.entries) : e.loc = loc

ApplyTable(acc, table, entry, sha) ==
    IF entry.mapping = <<>> THEN IgnoreRows(acc, table)
    ELSE ApplyRows(acc, table, entry.mapping[1], sha)

ApplyResidual(acc, staged, sha) ==
    IF staged.residual = Null THEN acc
    ELSE AddCandidate(acc, sha, ResidualLocator, staged.residual, "generic", "none", 1,
                      [payload |-> [content |-> staged.residual], issues |-> {}], "residual")

(* CompositionLedger.__post_init__: no unit and no candidate twice. *)
LedgerValid(decisions) ==
    \A i, j \in DOMAIN decisions :
        i # j => /\ decisions[i].unit # decisions[j].unit
                 /\ decisions[i].key = NoKey \/ decisions[i].key # decisions[j].key

(* What apply_mapping_set refuses before it looks at a row. *)
SetFitsStructure(set, staged) ==
    /\ set.fingerprint = staged.fingerprint
    /\ Locators(staged) = {set.entries[i].loc : i \in DOMAIN set.entries}
    /\ \A i \in DOMAIN staged.tables :
        LET e == EntryFor(set, staged.tables[i].schema.loc) IN
        /\ e.schema = staged.tables[i].schema
        /\ e.mapping # <<>> => MappingFitsTable(e.mapping[1], staged.tables[i])

(* apply_mapping_set *)
ApplyMappingSet(set, staged, sha) ==
    ApplyResidual(Loop(LAMBDA a, t : ApplyTable(a, t, EntryFor(set, t.schema.loc), sha),
                       [cands |-> <<>>, decisions |-> <<>>], staged.tables),
                  staged, sha)

ApplicationValid(app, staged) ==
    LedgerValid(app.decisions) /\ Len(app.decisions) = UnitCount(staged)

(* preview_mapping: how the rows of one table fare, and whether rows are left
   out of the display. *)
PreviewMapping(m, table, limit) ==
    LET filled == {r \in DOMAIN table.rows : ~table.rows[r].blank}
        wrong == {r \in filled : ApplyRow(m, table.rows[r], table.schema.headers).issues # {}}
    IN  [total |-> Len(table.rows), blank |-> Len(table.rows) - Cardinality(filled),
         errors |-> Cardinality(wrong), valid |-> Cardinality(filled \ wrong),
         truncated |-> Len(table.rows) > limit]
=============================================================================
