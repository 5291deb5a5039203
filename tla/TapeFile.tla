------------------------------ MODULE TapeFile ------------------------------
(***************************************************************************)
(* What a file of a historical tape holds and how it is read               *)
(* (src/data/historical.rs): the columns, the cells, and the rows that     *)
(* make one snapshot, in either format.                                    *)
(*                                                                         *)
(* A file is its header, a set of <<column, type>>, followed by its rows,  *)
(* functions of the columns.  A cell is <<form, value>>, its form "int",   *)
(* "real", "nan", "word" or, for a Parquet null or an empty CSV cell,      *)
(* "none".  The columns of a CSV header have the type "TEXT".              *)
(***************************************************************************)
EXTENDS Convert

CONSTANTS
  Tickers,      \* the underlyings in the grammar ^[A-Z0-9._]{1,32}$
  MaxContracts  \* limits.max_contracts_per_snapshot

Columns ==
  [step |-> "count", ts |-> "instant", underlying |-> "ticker",
   underlying_price |-> "cents", tick_size |-> "cents", contract_multiplier |-> "count",
   expiration |-> "instant", strike |-> "cents", style |-> "style", bid |-> "cents",
   ask |-> "cents", bid_size |-> "quantity", ask_size |-> "quantity",
   implied_volatility |-> "real", delta |-> "greek", gamma |-> "greek",
   theta |-> "greek", vega |-> "greek"]
Greeks == {"delta", "gamma", "theta", "vega"}

\* expected_schema of a Parquet file; CsvColumns::from_header asks for the
\* columns by name and lets others be.  The step of a CSV file is its place in
\* the directory.
TypeOf(how) ==
  CASE how \in {"count", "quantity"} -> "INT32"
    [] how \in {"instant", "cents"}  -> "INT64"
    [] how \in {"ticker", "style"}   -> "UTF8"
    [] how \in {"real", "greek"}     -> "DOUBLE"
ExpectedSchema == {<<c, TypeOf(Columns[c])>> : c \in DOMAIN Columns}
CsvColumns == DOMAIN Columns \ {"step"}
Required == CsvColumns \ Greeks

HeaderOk(kind, header) ==
  IF kind = "parquet" THEN header = ExpectedSchema
  ELSE Required \subseteq {column[1] : column \in header}

-----------------------------------------------------------------------------
None == <<"none", 0>>
\* A file as it is decoded.  Instants count from the sentinel of the clock, which
\* is none (SimTime).
IsCell(cell, c) ==
  \/ cell \in {None, <<"nan", 0>>}
  \/ cell = <<"int", cell[2]>> /\ cell[2] \in IF c = "ts" THEN Nat ELSE Int
  \/ cell = <<"real", cell[2]>> /\ cell[2] \in Int \X (Nat \ {0})
  \/ cell = <<"word", cell[2]>>
IsContent(file) ==
  /\ IsList(file)
  /\ \A i \in 2..Len(file) : \A c \in DOMAIN file[i] : IsCell(file[i][c], c)

\* An absent column is read as an empty cell.
Cell(row, c) == IF c \in DOMAIN row THEN row[c] ELSE None

Spellings(style) ==
  IF style = "Call" THEN {"call", "Call", "CALL"} ELSE {"put", "Put", "PUT"}

\* req_cell and parse_i64, parse_u32, parse_cents, parse_f64, parse_style,
\* Quantity::new and Underlying::new; req_i64, req_i32, req_str, req_f64,
\* price_cents and count_u32.  Only a Greek may be absent.
Readable(cell, how) ==
  CASE how = "instant"  -> cell[1] = "int"
    [] how = "cents"    -> cell[1] = "int" /\ cell[2] >= 0
    [] how = "count"    -> cell[1] = "int" /\ cell[2] >= 0
    [] how = "quantity" -> cell[1] = "int" /\ cell[2] > 0
    [] how = "ticker"   -> cell[1] = "word" /\ cell[2] \in Tickers
    [] how = "style"    ->
         cell[1] = "word" /\ cell[2] \in Spellings("Call") \cup Spellings("Put")
    [] how = "real"     -> cell[1] \in {"int", "real", "nan"}
    [] how = "greek"    -> cell[1] \in {"int", "real", "nan", "none"}

\* parse_f64, opt_greek, greek_f64: an absent Greek is zero.
Real(cell) ==
  CASE cell[1] = "int"  -> <<cell[2], 1>>
    [] cell[1] = "real" -> cell[2]
    [] cell[1] = "nan"  -> NaN
    [] cell[1] = "none" -> Zero

\* What a file is taken for before any row of it is converted.
Legible(kind, file) ==
  /\ file # <<>> /\ HeaderOk(kind, file[1])
  /\ \A i \in 2..Len(file) :
       /\ DOMAIN file[i] = {column[1] : column \in file[1]}
       /\ \A c \in IF kind = "csv" THEN CsvColumns ELSE DOMAIN Columns :
            Readable(Cell(file[i], c), Columns[c])

-----------------------------------------------------------------------------
\* The snapshot-level fields of a row.
HeadOf(row, step) ==
  [ts |-> row.ts[2], step |-> step, underlying |-> row.underlying[2],
   underlying_price |-> row.underlying_price[2], tick |-> row.tick_size[2],
   multiplier |-> row.contract_multiplier[2]]
RawQuote(row) ==
  [expiration |-> <<1, row.expiration[2]>>, strike |-> row.strike[2],
   style |-> IF row.style[2] \in Spellings("Call") THEN "Call" ELSE "Put",
   bid |-> row.bid[2], ask |-> row.ask[2],
   bid_size |-> row.bid_size[2], ask_size |-> row.ask_size[2],
   analytics |-> [a \in Analytics |-> Real(Cell(row, a))]]

MutOfFirst(rows, step, anchor) ==
  IF rows = <<>> THEN Rejected
  ELSE RawQuotesToSnapshot(HeadOf(rows[1], step), anchor, MapSeq(RawQuote, rows))
\* The rows of one snapshot: their snapshot-level fields agree (ensure_const),
\* there are not too many, and the conversion core takes them.
Group(rows, step, anchor) ==
  IF \/ rows = <<>> \/ Len(rows) > MaxContracts
     \/ \E i \in DOMAIN rows : HeadOf(rows[i], step) # HeadOf(rows[1], step)
  THEN Rejected
  ELSE RawQuotesToSnapshot(HeadOf(rows[1], step), anchor, MapSeq(RawQuote, rows))

\* Parquet rows are grouped by runs of one step, which must ascend.
Starts(rows) == {i \in DOMAIN rows : i = 1 \/ rows[i].step # rows[i - 1].step}
GroupAt(rows, i) ==
  LET later == {j \in Starts(rows) : j > i}
      stop  == IF later = {} THEN Len(rows)
               ELSE (CHOOSE j \in later : \A x \in later : j <= x) - 1
  IN  SubSeq(rows, i, stop)
Ascends(rows) ==
  \A i \in Starts(rows) \ {1} : rows[i].step[2] > rows[i - 1].step[2]

\* The snapshots of a file, in order; the at-th of the directory if it is CSV.
\* Times count from the first snapshot of the tape.
Snapshots(kind, at, file, anchor) ==
  LET rows == Tail(file)
      From == IF anchor = <<>> /\ rows # <<>> THEN rows[1].ts[2] ELSE anchor[1]
      starts == Starts(rows)
      Rank(i) == Cardinality({j \in starts : j <= i})
      Nth(r) == CHOOSE i \in starts : Rank(i) = r
  IN  IF ~Legible(kind, file) THEN <<Rejected>>
      ELSE IF kind = "csv" THEN <<Group(rows, at, From)>>
      ELSE IF ~Ascends(rows) THEN <<Rejected>>
      ELSE [r \in 1..Cardinality(starts) |->
              Group(GroupAt(rows, Nth(r)), rows[Nth(r)].step[2], From)]
=============================================================================
