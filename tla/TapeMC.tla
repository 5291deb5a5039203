------------------------------- MODULE TapeMC -------------------------------
(***************************************************************************)
(* A directory of up to two files, one Parquet file, or a simulator of     *)
(* three walks.  The contents are those that the checks on the way tell    *)
(* apart.                                                                  *)
(***************************************************************************)
EXTENDS Tape, TLC

MCKind == [name \in Names |-> IF name = 3 THEN "parquet" ELSE "csv"]

Num(n) == <<"int", n>>
Row(step, ts, strike, bid, ask) ==
  [step |-> Num(step), ts |-> Num(ts), underlying |-> <<"word", "SPX">>,
   underlying_price |-> Num(50), tick_size |-> Num(5), contract_multiplier |-> Num(100),
   expiration |-> Num(9), strike |-> Num(strike), style |-> <<"word", "call">>,
   bid |-> Num(bid), ask |-> Num(ask), bid_size |-> Num(1), ask_size |-> Num(2),
   implied_volatility |-> <<"real", <<1, 5>>>>, delta |-> <<"real", <<1, 2>>>>,
   gamma |-> Num(1), theta |-> Num(-1), vega |-> <<"real", <<1, 3>>>>]
OfPut(row) == [row EXCEPT !.style = <<"word", "PUT">>]
Second == Row(0, 2, 50, 5, 20)
ToEnd == Row(1, 3, 50, 5, 10)

Only(row, columns) == [c \in columns |-> row[c]]
Csv(columns, rows) ==
  <<{<<c, "TEXT">> : c \in columns}>> \o [i \in DOMAIN rows |-> Only(rows[i], columns)]
Plain(rows) == Csv(CsvColumns, rows)
Parquet(rows) == <<ExpectedSchema>> \o rows
\* Files that decode to more than the ceiling: one says so, one does not.
Large == Parquet(<<Second>>)
Lying == Parquet(<<OfPut(Second)>>)
Retyped(c, to) == (ExpectedSchema \ {<<c, TypeOf(Columns[c])>>}) \cup to

MCBytes == [name \in Names |->
  IF MCKind[name] = "csv" THEN
    {Plain(<<Row(0, 1, 50, 5, 15)>>),
     Plain(<<Second, ToEnd>>),                            \* two times in one step
     Csv(Required, <<Second, OfPut(Second)>>),            \* no Greeks
     Plain(<<Row(0, 1, 50, 10, 5)>>),                     \* crossed
     Csv(CsvColumns \ {"bid"}, <<Second>>),
     Plain(<<[Second EXCEPT !.delta = None]>>),
     Plain(<<[Second EXCEPT !.bid = None]>>),
     Plain(<<[Second EXCEPT !.bid = <<"real", <<11, 2>>>>]>>),
     Plain(<<[Second EXCEPT !.theta = <<"nan", 0>>]>>),
     Plain(<<[Second EXCEPT !.ask_size = Num(0)]>>),
     Append(Plain(<<Second>>), Only(OfPut(Second), Required)),  \* ragged
     Csv(DOMAIN Columns, <<[Second EXCEPT !.step = <<"word", "x">>]>>),
     Plain(<<>>), <<>>,
     \* A file that is longer than the ceiling, cut off where it is not.
     Plain(<<Second, OfPut(Second), Row(0, 2, 55, 0, 5), OfPut(Row(0, 2, 55, 0, 5))>>)}
  ELSE
    {Parquet(<<Row(0, 1, 50, 5, 15), OfPut(Row(0, 1, 50, 5, 15)), Row(1, 2, 50, 5, 15)>>),
     Parquet(<<Row(0, 1, 50, 5, 15), Row(2, 2, 50, 5, 15)>>),   \* a step is missing
     Parquet(<<ToEnd, Second>>),
     Parquet(<<[Second EXCEPT !.step = Num(-1)]>>),
     Parquet(<<Second, [OfPut(Second) EXCEPT !.delta = None, !.vega = None]>>),
     Parquet(<<[Second EXCEPT !.expiration = Num(8)], Second>>),
     Parquet(<<[Second EXCEPT !.implied_volatility = None]>>),
     Parquet(<<[Second EXCEPT !.underlying = <<"word", "spx">>]>>),
     Parquet(<<[Second EXCEPT !.underlying_price = Num(55)], OfPut(Second)>>),
     Parquet(<<Second, Second>>), Large, Lying,
     <<Retyped("bid", {<<"bid", "DOUBLE">>}), [Second EXCEPT !.bid = <<"real", <<5, 1>>>>]>>,
     <<Retyped("step", {<<"step", "INT32">>, <<"added", "INT64">>}), Second @@ [added |-> Num(0)]>>,
     <<Retyped("vega", {}), Only(Second, DOMAIN Columns \ {"vega"})>>,
     Parquet(<<>>), <<>>}]

MCDeclared(file) == IF file = Large THEN 5 ELSE 4
MCDecoded(file) == IF file \in {Large, Lying} THEN 5 ELSE 4

Side(bid, ask) == [bid |-> bid, ask |-> ask, mid |-> ask, delta |-> <<1, 2>>]
Contract(bid) ==
  [strike |-> <<1, 2>>, expiration |-> 9, implied_volatility |-> <<1, 5>>,
   gamma |-> Missing, call |-> Side(bid, <<1, 4>>),
   put |-> [bid |-> <<1, 10>>, ask |-> <<3, 20>>, mid |-> Missing,
           delta |-> Missing]]
Response(ts, contracts) ==
  [ts |-> ts, underlying |-> "SPX", price |-> <<1, 2>>, contracts |-> contracts]
\* A walk of two steps, another of the same mids, one whose time stands still,
\* one without a time, one with too many quotes, an empty and a long one, and one
\* for each flaw of a contract.
MCWalks ==
  LET good == Contract(<<1, 20>>)
      Bad == {[good EXCEPT !.call.bid = Missing], [good EXCEPT !.call.ask = NaN],
              [good EXCEPT !.implied_volatility = Missing],
              [good EXCEPT !.put.bid = <<-1, 20>>], [good EXCEPT !.strike = <<12, 25>>]}
      bads == CHOOSE f \in [1..5 -> Bad] : \A b \in Bad : \E i \in 1..5 : f[i] = b
  IN  <<<<Response(1, <<good>>), Response(2, <<good>>)>>,
        <<Response(1, <<Contract(<<1, 10>>)>>), Response(2, <<good>>)>>,
        <<Response(2, <<good>>), Response(2, <<good>>)>>,
        <<Response(1, <<good>>), Response(NoTime, <<good>>)>>,
        <<Response(1, <<good, [good EXCEPT !.strike = <<1, 1>>]>>)>>,
        <<>>, [t \in 1..3 |-> Response(t, <<good>>)]>> \o [i \in 1..5 |-> <<Response(1, <<bads[i]>>)>>]
MCInstrument == [tick |-> 5, multiplier |-> 100]
=============================================================================
