----------------------------- MODULE SessionMC -----------------------------
(***************************************************************************)
(* Three days, a calendar of two calls at one strike: the first expires on *)
(* the last day, the second later.  Either may be missing from a snapshot, *)
(* and the first has two prices.  On four tapes more, puts and a further   *)
(* call are quoted beside the second, for the strategies that need them.   *)
(***************************************************************************)
EXTENDS Session

MCContracts == 1..5
MCExpiry == <<4, 9, 9, 9, 9>>
MCStrike == <<100, 100, 100, 90, 110>>
MCStyle == <<"Call", "Call", "Put", "Put", "Call">>
MCDays == <<1, 2, 4>>
MCUnderlying == <<50, 53, 52>>

Quote(bid, ask) ==
  [bid |-> bid, ask |-> ask, mid |-> (bid + ask) \div 2, bid_size |-> 9,
   ask_size |-> 9, theta |-> -1, delta |-> 1, vega |-> 1, iv |-> bid]
Near == {Quote(4, 6), Quote(9, 11)}
Far == Quote(6, 8)
Dear == Quote(12, 14)
MCQuotes == <<Near, {Far}, {Far, Dear}, {Far}, {Far}>>

\* A day's quotes: either price of the near contract, or none, and the far one
\* or none.
NearOnly == {[c \in {1} |-> q] : q \in Near}
FarOnly == [c \in {2} |-> Far]
Both == {<<q, Far>> : q \in Near}
Day == NearOnly \cup Both \cup {FarOnly, [c \in {} |-> Far]}
\* A day of the far expiry alone, and one with the near call beside it.
Wings == [c \in 2..5 |-> Far]
WingsMoved == [Wings EXCEPT ![3] = Dear]
WingsAll == [c \in 1..5 |-> IF c = 1 THEN Quote(4, 6) ELSE Far]
MCScripts ==
  {<<a, b, c>> : a \in Both \cup {FarOnly}, b \in Day, c \in Day}
    \cup {<<Wings, WingsMoved, Wings>>, <<Wings, FarOnly, Wings>>,
          <<WingsAll, WingsMoved, Wings>>, <<Wings, Wings, FarOnly>>}

MCFees == [perContract |-> 1, perOrder |-> 1]
MCModel == [kind |-> "FixedCents", cents |-> 1]
MCMaxTrades == [naive |-> 9]
MCMaxQty == [naive |-> 2]
MCProfile == [flat |-> 1, levels |-> 0, num |-> 1, den |-> 1]

Leg(exp, side, qty, iv) ==
  [exp |-> exp, strike |-> 100, style |-> "Call", side |-> side, qty |-> qty, iv |-> iv]
LegSet(ticker, legSeq) ==
  [kind |-> "Legs", underlying |-> ticker, underlying_price |-> 50, legs |-> legSeq,
   risk_free_rate |-> <<-1, 2>>, dividend_yield |-> <<0, 0>>]

NearLeg == Leg(<<0, 3>>, "Short", 1, <<2, 1>>)  \* Days(3), from day 1
FarLeg == Leg(<<1, 9>>, "Long", 2, <<2, 1>>)    \* DateTime of day 9
Calendar == <<FarLeg, NearLeg>>
\* Two legs in one contract that only the scale of a volatility tells apart.
Twins == <<Leg(<<0, 3>>, "Long", 1, <<2, 1>>), Leg(<<0, 3>>, "Long", 1, <<2, 2>>)>>

IronCondor(exp) ==
  [kind |-> "IronCondor", underlying |-> "SPX", underlying_price |-> 50,
   short_call_strike |-> 100, short_put_strike |-> 100, long_call_strike |-> 110,
   long_put_strike |-> 90, expiration |-> exp, implied_volatility |-> <<2, 1>>,
   risk_free_rate |-> <<-1, 2>>, dividend_yield |-> <<0, 0>>, quantity |-> 1,
   premium_short_call |-> 7, premium_short_put |-> 7, premium_long_call |-> 7,
   premium_long_put |-> 7, open_fee |-> 1, close_fee |-> 1]
ShortStrangle(exp, put, putIv) ==
  [kind |-> "ShortStrangle", underlying |-> "NDX", underlying_price |-> 50,
   call_strike |-> 100, put_strike |-> put, expiration |-> exp,
   call_implied_volatility |-> <<2, 1>>, put_implied_volatility |-> putIv,
   risk_free_rate |-> <<-1, 2>>, dividend_yield |-> <<0, 0>>, quantity |-> 2,
   premium_short_call |-> 7, premium_short_put |-> 7, open_fee_short_call |-> 1,
   close_fee_short_call |-> 1, open_fee_short_put |-> 1, close_fee_short_put |-> 1]

MCSpecs ==
  {LegSet("SPX", Calendar), LegSet("SPX", <<NearLeg, FarLeg>>),
   LegSet("SPX", Twins), LegSet("SPX", <<Twins[2], Twins[1]>>),
   LegSet("SPX", <<Leg(<<0, 5>>, "Long", 1, <<2, 1>>)>>),  \* never quoted
   LegSet("NDX", Calendar), LegSet("SPX", <<>>),
   LegSet("SPX", <<Leg(<<1, 9>>, "Long", 1, <<-2, 1>>)>>),
   IronCondor(<<1, 9>>), IronCondor(<<0, 8>>),
   [IronCondor(<<1, 9>>) EXCEPT !.dividend_yield = <<-1, 0>>],
   ShortStrangle(<<1, 9>>, 90, <<3, 1>>), ShortStrangle(<<1, 9>>, 90, <<-3, 1>>),
   [kind |-> "Caller", legs |-> <<Leg(<<1, 4>>, "Short", 1, <<2, 1>>)>>]}

MCUsual ==
  [data_source |-> [kind |-> "parquet", path |-> "tape", sha256 |-> <<>>],
   mode |-> "Naive", seed |-> 7, initial_capital |-> Capital, fees |-> Fees,
   slippage |-> Model, marketable_cap_ticks |-> 10,
   liquidity_profile |-> DefaultProfile,
   limits |-> [field \in DOMAIN HardCap |-> IF field = "max_steps" THEN 100000 ELSE 16],
   output_dir |-> <<"out">>, overwrite |-> FALSE]
\* The same run elsewhere or in the place of another, one with everything at its
\* bound, and one beyond each.
MCConfigs ==
  {MCUsual, [MCUsual EXCEPT !.overwrite = TRUE], [MCUsual EXCEPT !.output_dir = <<"o", "p">>],
   [MCUsual EXCEPT !.limits = HardCap, !.liquidity_profile =
      [touch |-> <<1>>, levels |-> MaxDepthLevels, decay |-> <<1, 1>>]]}
  \cup {[MCUsual EXCEPT !.limits[field] = HardCap[field] + 1] : field \in DOMAIN HardCap}
  \cup {[MCUsual EXCEPT !.initial_capital = 0], [MCUsual EXCEPT !.marketable_cap_ticks = 0],
        [MCUsual EXCEPT !.liquidity_profile.touch = <<0>>],
        [MCUsual EXCEPT !.liquidity_profile.levels = MaxDepthLevels + 1],
        [MCUsual EXCEPT !.liquidity_profile.decay = <<0, 1>>],
        [MCUsual EXCEPT !.liquidity_profile.decay = <<3, 2>>],
        [MCUsual EXCEPT !.slippage = [kind |-> "SpreadFraction", num |-> -1, den |-> 2]],
        [MCUsual EXCEPT !.output_dir = <<>>], [MCUsual EXCEPT !.output_dir = <<"out", "..">>],
        [MCUsual EXCEPT !.data_source.kind = "csv"]}

Half(kind) == [kind |-> kind, num |-> 1, den |-> 2]
Count(kind, count) == [kind |-> kind, count |-> count]
MCPolicies ==
  {<<Half("ProfitPercent")>>, <<Count("TimeSteps", 1)>>, <<Count("DaysToExpiration", 2)>>,
   <<[kind |-> "Or", of |-> {2, 3}], Half("LossPercent"), [kind |-> "Expiration"]>>,
   <<[kind |-> "And", of |-> {2, 3}], Count("TimeSteps", 2), Half("LossPercent")>>}
=============================================================================
