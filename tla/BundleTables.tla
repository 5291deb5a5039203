---------------------------- MODULE BundleTables ----------------------------
(***************************************************************************)
(* The contents of a bundle: the rows the writer encodes and sorts         *)
(* (src/bundle/writer.rs, sort keys and manifest of src/bundle/schema.rs), *)
(* and what the reader accepts (src/bundle/reader.rs), down to the types   *)
(* of the columns and the round trip of a contract id                      *)
(* (src/domain/contract.rs).  How the files get to their place is          *)
(* BundleWriter's.                                                         *)
(*                                                                         *)
(* A contract id is the tuple of its segments; a number among them is      *)
(* <<form, value>>, for a parser takes more than one spelling of it.       *)
(***************************************************************************)
EXTENDS Money

CONSTANTS
  Null,      \* a missing cell
  NaN,       \* a number that is not finite
  Long,      \* a text longer than ResourceLimits.max_string_len
  Mistyped,  \* a JSON value of another type than its field's
  MaxRows,   \* ResourceLimits.max_rows_per_table
  Tickers    \* the underlyings in the grammar ^[A-Z0-9._]{1,32}$

Tables == {"fills", "equity_curve", "positions", "greeks_attribution"}

-----------------------------------------------------------------------------
\* The columns of each table, and how a cell of each is read.
FillColumns ==
  [step |-> "u32", ts_ns |-> "i64", strategy_run_id |-> "text", trade_id |-> "u64",
   position_id |-> "u64", order_id |-> "u64", fill_seq |-> "u32",
   underlying |-> "text", expiration_ns |-> "i64", contract_id |-> "text",
   strike_cents |-> "u64", style |-> "text", side |-> "text", quantity |-> "u32",
   price_cents |-> "u64", fees_cents |-> "nonneg", slippage_cents |-> "i64",
   mode |-> "text"]
EquityColumns ==
  [step |-> "u32", ts_ns |-> "i64", cash_cents |-> "i64",
   position_value_cents |-> "i64", equity_cents |-> "i64", drawdown |-> "finite"]
PositionColumns ==
  [step |-> "u32", ts_ns |-> "i64", position_id |-> "u64", trade_id |-> "u64",
   contract_id |-> "text", side |-> "text", quantity |-> "u32",
   avg_price_cents |-> "u64", mark_cents |-> "u64", unrealized_cents |-> "i64",
   stale_mark |-> "bool", exit_reason |-> "optional text", open_at_end |-> "bool"]
GreeksColumns ==
  [step |-> "u32", ts_ns |-> "i64", theta_pnl_cents |-> "i64",
   delta_pnl_cents |-> "i64", vega_pnl_cents |-> "i64",
   spread_capture_cents |-> "i64", fees_cents |-> "nonneg", residual_cents |-> "i64"]
Columns(table) ==
  CASE table = "fills"        -> FillColumns
    [] table = "equity_curve" -> EquityColumns
    [] table = "positions"    -> PositionColumns
    [] table = "greeks_attribution" -> GreeksColumns

\* The fixed schema of a table's file: name, physical type, nullable.
TypeOf(how) ==
  CASE how = "u32"    -> "INT32"
    [] how = "bool"   -> "BOOLEAN"
    [] how = "finite" -> "DOUBLE"
    [] how \in {"text", "optional text"}  -> "UTF8"
    [] how \in {"i64", "u64", "nonneg"}   -> "INT64"
Schema(table) ==
  LET columns == Columns(table) IN
  {<<c, TypeOf(columns[c]), columns[c] = "optional text">> : c \in DOMAIN columns}

\* The sort keys.
KeyOf(table, row) ==
  CASE table = "fills"     -> <<row.step, row.order_id, row.fill_seq>>
    [] table = "positions" -> <<row.step, row.position_id>>
    [] OTHER               -> <<row.step>>
InOrder(table, rows) == SortBy(LAMBDA row : KeyOf(table, row), rows)

-----------------------------------------------------------------------------
\* to_contract_id of a ContractKey.
ContractId(key) ==
  <<"v1", key.underlying, <<"plain", key.expiration>>, <<"plain", key.strike>>,
    IF key.style = "Call" THEN "C" ELSE "P">>

\* from_contract_id: five segments, this version, a ticker of the grammar, an
\* i64, a u64 and a style.  str::parse takes leading zeros.
Parses(id) ==
  /\ Len(id) = 5
  /\ id[1] = "v1"
  /\ id[2] \in Tickers
  /\ id[3][1] # "text" /\ id[4][1] # "text"
  /\ id[4][2] >= 0
  /\ id[5] \in {"C", "P"}
FromContractId(id) ==
  [underlying |-> id[2], expiration |-> id[3][2], strike |-> id[4][2],
   style |-> IF id[5] = "C" THEN "Call" ELSE "Put"]

StyleStr(style) == IF style = "Call" THEN "call" ELSE "put"
SideStr(side) == IF side = "Long" THEN "long" ELSE "short"
\* exit_reason_str; the reasons of a run are named as the bundle names them,
\* all but the manual close.
ExitReasonStr(reason) == IF reason = "manual" THEN "manual_close" ELSE reason

\* fill_row of a FillRecord, position_row of a PositionSnapshot.
FillRow(record, runId) ==
  [step |-> record.step, ts_ns |-> record.ts, strategy_run_id |-> runId,
   trade_id |-> record.trade, position_id |-> record.position,
   order_id |-> record.order, fill_seq |-> record.seq,
   underlying |-> record.contract.underlying,
   expiration_ns |-> record.contract.expiration,
   contract_id |-> ContractId(record.contract),
   strike_cents |-> record.contract.strike,
   style |-> StyleStr(record.contract.style), side |-> SideStr(record.side),
   quantity |-> record.qty, price_cents |-> record.price, fees_cents |-> record.fees,
   slippage_cents |-> record.slippage, mode |-> "naive"]
PositionRow(snapshot) ==
  [step |-> snapshot.step, ts_ns |-> snapshot.ts, position_id |-> snapshot.position,
   trade_id |-> snapshot.trade, contract_id |-> ContractId(snapshot.contract),
   side |-> SideStr(snapshot.side), quantity |-> snapshot.qty,
   avg_price_cents |-> snapshot.entry, mark_cents |-> snapshot.mark,
   unrealized_cents |-> snapshot.unrealized, stale_mark |-> snapshot.stale,
   exit_reason |-> ExitReasonStr(snapshot.reason), open_at_end |-> snapshot.openAtEnd]
EquityRow(point) ==
  [step |-> point.step, ts_ns |-> point.ts, cash_cents |-> point.cash,
   position_value_cents |-> point.equity - point.cash,
   equity_cents |-> point.equity,
   drawdown |-> <<point.equity - point.peak, point.peak>>]
GreeksRow(row) ==
  [step |-> row.step, ts_ns |-> row.ts, theta_pnl_cents |-> row.theta,
   delta_pnl_cents |-> row.delta, vega_pnl_cents |-> row.vega,
   spread_capture_cents |-> row.spread, fees_cents |-> row.fees,
   residual_cents |-> row.residual]

\* The four encoders: convert, sort, count.
EncodeFills(records, runId) ==
  InOrder("fills", MapSeq(LAMBDA r : FillRow(r, runId), records))
EncodePositions(snapshots) == InOrder("positions", MapSeq(PositionRow, snapshots))
EncodeEquity(points) == InOrder("equity_curve", MapSeq(EquityRow, points))
EncodeGreeks(attribution) == InOrder("greeks_attribution", MapSeq(GreeksRow, attribution))

RowCounts(tables) == [t \in Tables |-> Len(tables[t])]
\* The manifest; about is what the run says of itself.
Manifest(tables, about) ==
  [schema |-> "v1", run_id |-> about.run_id, created_utc |-> "then",
   code_version |-> about.build[1], lockfile_sha256 |-> about.build[2],
   seed |-> about.config.seed, config |-> about.config, strategy |-> about.strategy,
   data_source |-> about.data_source, metrics |-> about.metrics,
   row_counts |-> RowCounts(tables)]

\* build_into: the tables, each with the footer of its file, then a manifest of
\* what they hold.
Bundle(tables, about) ==
  [tables |-> tables,
   footers |-> [t \in Tables |-> [columns |-> Schema(t), rows |-> Len(tables[t])]],
   cut |-> {},
   manifest |-> Manifest(tables, about)]

-----------------------------------------------------------------------------
RequiredManifestFields ==
  {"schema", "run_id", "created_utc", "code_version", "lockfile_sha256", "seed",
   "config", "strategy", "data_source", "metrics", "row_counts"}
\* Bounded by max_string_len; the texts of a data source are its identity here.
ManifestTexts == {"schema", "run_id", "created_utc", "code_version", "lockfile_sha256"}

\* read_manifest: the tag before all else, every field there and of its type,
\* the metrics aside, which stay JSON.  A field nobody asked for is let pass.
ManifestReads(manifest) ==
  /\ "schema" \in DOMAIN manifest /\ manifest.schema = "v1"
  /\ RequiredManifestFields \subseteq DOMAIN manifest
  /\ \A field \in RequiredManifestFields \ {"metrics"} : manifest[field] # Mistyped
  /\ \A field \in ManifestTexts : manifest[field] # Long
  /\ manifest.data_source.sha256 # Long

\* validate_schema: as many columns as there should be, and each by its name.
SchemaMatches(table, columns) ==
  Cardinality(columns) = Cardinality(Schema(table)) /\ Schema(table) \subseteq columns

Unsigned == {"u32", "u64", "nonneg"}
\* u32_from_i32, u64_from_i64, i64_cell, nonneg_i64_cell, finite_f64_cell,
\* string_cell, opt_string_cell, bool_cell.
CellOk(how, cell) ==
  IF cell = Null THEN how = "optional text"
  ELSE /\ how \in Unsigned => cell >= 0
       /\ how \in {"text", "optional text"} => cell # Long
       /\ how = "finite" => cell # NaN

\* decode_table: what the footer declares, then the rows.
Decodes(bundle, table) ==
  LET rows == bundle.tables[table]
      footer == bundle.footers[table]
  IN  /\ table \notin bundle.cut
      /\ footer.rows \in 0..MaxRows
      /\ SchemaMatches(table, footer.columns)
      /\ Len(rows) <= MaxRows
      /\ \A i \in DOMAIN rows, c \in DOMAIN Columns(table) :
           CellOk(Columns(table)[c], rows[i][c])

MutNeverUnique(table, rows) == TRUE
\* validate_unique_fill_keys, validate_unique_position_keys.
UniqueKeys(table, rows) ==
  \A i \in 1..(Len(rows) - 1) : KeyOf(table, rows[i]) # KeyOf(table, rows[i + 1])
ContiguousSteps(rows) == \A i \in DOMAIN rows : rows[i].step = i - 1
\* validate_cross_table_step_consistency looks at the last row only.
WithinRun(rows, steps) == rows # <<>> => rows[Len(rows)].step < steps

\* verify_referenced_input: only a Parquet input that was pinned is compared,
\* and one that is out of reach is let pass.
InputHolds(source, onDisk) ==
  \/ source.kind # "parquet" \/ source.sha256 = <<>>
  \/ onDisk \in {source.sha256, Null}

\* from_contract_id and back.
RoundTrips(id) == Parses(id) /\ ContractId(FromContractId(id)) = id
\* verify_fill_contract_id, and a fill of this run.
FillVouched(row, runId) ==
  /\ RoundTrips(row.contract_id)
  /\ LET key == FromContractId(row.contract_id) IN
       <<row.underlying, row.expiration_ns, row.strike_cents, row.style>>
         = <<key.underlying, key.expiration, key.strike, StyleStr(key.style)>>
  /\ row.strategy_run_id = runId
\* verify_position_contract_id.
PositionVouched(row) == RoundTrips(row.contract_id)

ReadBundle(bundle) == [t \in Tables |-> InOrder(t, bundle.tables[t])]
\* read_bundle: the sorted tables, or nothing.
Accepts(bundle, onDisk) ==
  LET manifest == bundle.manifest
      sorted == ReadBundle(bundle)
      steps == Len(sorted["equity_curve"])
  IN  /\ "manifest" \notin bundle.cut /\ ManifestReads(manifest)
      /\ \A t \in Tables : Decodes(bundle, t)
      /\ \A t \in Tables : Len(bundle.tables[t]) = manifest.row_counts[t]
      /\ InputHolds(manifest.data_source, onDisk)
      /\ \A i \in DOMAIN bundle.tables["fills"] :
           FillVouched(bundle.tables["fills"][i], manifest.run_id)
      /\ \A i \in DOMAIN bundle.tables["positions"] :
           PositionVouched(bundle.tables["positions"][i])
      /\ UniqueKeys("fills", sorted["fills"])
      /\ UniqueKeys("positions", sorted["positions"])
      /\ ContiguousSteps(sorted["equity_curve"])
      /\ ContiguousSteps(sorted["greeks_attribution"])
      /\ Len(sorted["greeks_attribution"]) = steps
      /\ WithinRun(sorted["fills"], steps)
      /\ WithinRun(sorted["positions"], steps)

-----------------------------------------------------------------------------
\* What may have happened to one table on disk since it was written: a row
\* lost, doubled, moved, replaced by another of the table, put in a step the run
\* does not have.
Without(rows, i) == SubSeq(rows, 1, i - 1) \o SubSeq(rows, i + 1, Len(rows))
Damaged(rows, steps) ==
  UNION {
    {Without(rows, i), Append(rows, rows[i]), Append(Without(rows, i), rows[i]),
     [rows EXCEPT ![i].step = steps]}
      \cup {[rows EXCEPT ![i] = rows[j]] : j \in DOMAIN rows}
    : i \in DOMAIN rows}

\* One cell of its last row made one that the column does not admit.
Spoiled(table, rows) ==
  LET last == Len(rows)
      Bad(how) == (IF how = "optional text" THEN {} ELSE {Null})
                  \cup (IF how \in Unsigned THEN {-1} ELSE {})
                  \cup (IF how \in {"text", "optional text"} THEN {Long} ELSE {})
                  \cup (IF how = "finite" THEN {NaN} ELSE {})
  IN  IF rows = <<>> THEN {}
      ELSE UNION {{[rows EXCEPT ![last][c] = cell] : cell \in Bad(Columns(table)[c])}
                    : c \in DOMAIN Columns(table)}

\* Another spelling of a contract id: of each segment, and one segment short.
Respelled(id) ==
  {SubSeq(id, 1, 4), [id EXCEPT ![1] = "v2"], [id EXCEPT ![2] = "spx"],
   [id EXCEPT ![5] = "call"], [id EXCEPT ![4][2] = -1]}
    \cup {[id EXCEPT ![s][1] = form] : s \in {3, 4}, form \in {"padded", "text"}}
\* The contract of the last row no longer the one it was: the id of any table,
\* and in the fills the id of another contract, or one of the columns beside it.
Spliced(table, rows, keys) ==
  LET last == Len(rows)
      At(c, values) == {[rows EXCEPT ![last][c] = value] : value \in values}
  IN  IF rows = <<>> \/ table \notin {"fills", "positions"} THEN {}
      ELSE At("contract_id", Respelled(rows[last].contract_id))
             \cup (IF table # "fills" THEN {}
                   ELSE At("contract_id",
                           {ContractId(key) : key \in keys} \ {rows[last].contract_id})
                          \cup At("strategy_run_id", {<<>>})
                          \cup At("underlying", Tickers \ {rows[last].underlying})
                          \cup At("expiration_ns", {rows[last].expiration_ns + 1})
                          \cup At("strike_cents", {rows[last].strike_cents + 1})
                          \cup At("style", {"call", "put"} \ {rows[last].style}))

\* The footer of a table's file, whatever its rows.
Refooted(footer) ==
  {[footer EXCEPT !.rows = r] : r \in {-1, MaxRows + 1}}
    \cup {[footer EXCEPT !.columns = (@ \ {column}) \cup put] :
            column \in footer.columns,
            put \in {{}, {<<"step", "INT64", FALSE>>}, {<<"added", "INT64", FALSE>>}}}
    \cup {[footer EXCEPT !.columns = @ \cup {<<"added", "INT64", FALSE>>}]}
    \cup {[footer EXCEPT !.columns = {<<c[1], c[2], TRUE>> : c \in @}]}

\* The manifest: a field lost, mistyped or too long, counts that are off.
Rewritten(manifest) ==
  {[field \in DOMAIN manifest \ {lost} |-> manifest[field]] : lost \in DOMAIN manifest}
    \cup {[manifest EXCEPT ![field] = Mistyped] :
            field \in RequiredManifestFields \ {"metrics"}}
    \cup {[manifest EXCEPT ![field] = Long] : field \in ManifestTexts}
    \cup {[manifest EXCEPT !.data_source.sha256 = Long],
          [manifest EXCEPT !.schema = "v2"]}
    \cup {[manifest EXCEPT !.row_counts[t] = @ + 1] : t \in Tables}
=============================================================================
