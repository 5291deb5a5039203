------------------------------ MODULE Metrics ------------------------------
(***************************************************************************)
(* The summary metrics of a run (src/analytics/metrics.rs), computed after *)
(* it from the equity curve, the trade log and the legs left open.         *)
(*                                                                         *)
(* A ratio is <<num, den>> with den > 0, and None where the code leaves    *)
(* the field unset; money is in cents.  Of the figures that need a square  *)
(* root (volatility, Sharpe, Sortino, downside deviation) the sign is kept *)
(* and the Ulcer index is left out.  Ratios are exact: in f64 the mean of  *)
(* three equal returns may differ from each of them, of two it does not.   *)
(***************************************************************************)
EXTENDS Money

None == <<>>
RatioLess(a, b) == a[1] * b[2] < b[1] * a[2]
CheckedRatio(num, den) ==
  IF den = 0 THEN None ELSE IF den < 0 THEN <<-num, -den>> ELSE <<num, den>>
Magnitude(x) == IF x < 0 THEN -x ELSE x

TotalOf(log, Value(_)) == Sum(MapSeq(Value, log))
CountOf(log, Test(_)) == Len(SelectSeq(log, Test))

-----------------------------------------------------------------------------
MutUnscaledPremium(leg, mult) == leg.entry * leg.qty
\* premium_cash_cents: on the cash basis of the P&L it is compared with.
PremiumCash(leg, mult) == leg.entry * leg.qty * mult

\* RealisedStats::from_log.
RealisedStats(log) ==
  LET pnls(Test(_)) == TotalOf(SelectSeq(log, Test), LAMBDA t : t.pnl)
      premiums(side) == TotalOf(SelectSeq(log, LAMBDA t : t.side = side),
                                LAMBDA t : PremiumCash(t, t.mult))
  IN  [winners |-> CountOf(log, LAMBDA t : t.pnl > 0),
       losers |-> CountOf(log, LAMBDA t : t.pnl < 0),
       breakEven |-> CountOf(log, LAMBDA t : t.pnl = 0),
       grossProfit |-> pnls(LAMBDA t : t.pnl > 0),
       grossLoss |-> pnls(LAMBDA t : t.pnl < 0),
       total |-> TotalOf(log, LAMBDA t : t.pnl),
       short |-> pnls(LAMBDA t : t.side = "Short"),
       long |-> pnls(LAMBDA t : t.side = "Long"),
       longTrades |-> CountOf(log, LAMBDA t : t.side = "Long"),
       callTrades |-> CountOf(log, LAMBDA t : t.style = "Call"),
       received |-> premiums("Short"), paid |-> premiums("Long")]

\* populate_win_loss.
WinLoss(s, trades) ==
  LET losses == Magnitude(s.grossLoss) IN
  [winRate |-> CheckedRatio(s.winners, trades),
   profitFactor |-> CheckedRatio(s.grossProfit, losses),
   avgGain |-> CheckedRatio(s.grossProfit, s.winners),
   avgLoss |-> CheckedRatio(s.grossLoss, s.losers),
   gainLoss |-> IF s.winners = 0 \/ s.losers = 0 THEN None
                ELSE CheckedRatio(s.grossProfit * s.losers, s.winners * losses)]

MeanOf(seq) == IF seq = <<>> THEN <<0, 1>> ELSE <<Sum(seq), Len(seq)>>
MedianOf(sorted) ==
  LET half == Len(sorted) \div 2 IN
  IF sorted = <<>> THEN <<0, 1>>
  ELSE IF Len(sorted) % 2 = 1 THEN <<sorted[half + 1], 1>>
  ELSE <<sorted[half] + sorted[half + 1], 2>>
Least(sorted) == IF sorted = <<>> THEN 0 ELSE sorted[1]
Greatest(sorted) == IF sorted = <<>> THEN 0 ELSE sorted[Len(sorted)]
Sorted(seq) == SortBy(LAMBDA x : <<x>>, seq)

\* trade_statistics: a break-even trade may be the largest win, since the sign
\* of zero is positive.
TradeStatistics(log) ==
  LET pnls == Sorted(MapSeq(LAMBDA t : t.pnl, log))
      held == Sorted(MapSeq(LAMBDA t : t.closed - t.opened, log))
  IN  [average |-> MeanOf(pnls), median |-> MedianOf(pnls),
       largestWin |-> IF log = <<>> \/ Greatest(pnls) < 0 THEN None
                      ELSE <<Greatest(pnls), 1>>,
       largestLoss |-> IF Least(pnls) < 0 THEN <<Least(pnls), 1>> ELSE None,
       averageHeld |-> MeanOf(held), medianHeld |-> MedianOf(held),
       minHeld |-> Least(held), maxHeld |-> Greatest(held)]

\* options_metrics and capital_utilization.
OptionsMetrics(s, trades) ==
  [calls |-> CheckedRatio(s.callTrades, trades),
   puts |-> CheckedRatio(trades - s.callTrades, trades),
   longs |-> CheckedRatio(s.longTrades, trades),
   shorts |-> CheckedRatio(trades - s.longTrades, trades),
   netPremium |-> s.received - s.paid,
   returnOnPremium |-> CheckedRatio(s.total, s.received - s.paid),
   premiumCapture |-> CheckedRatio(s.total, s.received)]

\* An open leg does not carry the multiplier: the first closed trade's is used,
\* and none without one.
NetPremiumCents(log, openAtEnd) ==
  LET mult == IF log = <<>> THEN 1 ELSE log[1].mult
      Premium(leg, m) == -PremiumCash(leg, m) * SideSign(leg.side)
  IN  TotalOf(log, LAMBDA t : Premium(t, t.mult))
        + TotalOf(openAtEnd, LAMBDA leg : Premium(leg, mult))

-----------------------------------------------------------------------------
\* EquityPoint.drawdown.
Drawdown(point) == <<point.equity - point.peak, point.peak>>
AtPeak(point) == point.equity >= point.peak

WorstDrawdown(curve) ==
  LET ratios == {Drawdown(curve[i]) : i \in DOMAIN curve} \cup {<<0, 1>>}
  IN  CHOOSE r \in ratios : \A q \in ratios : ~RatioLess(q, r)

\* max_drawdown_cents walks the curve with a peak seeded by the capital.
MaxDrawdownCents(curve, capital) ==
  LET Higher(x, y) == IF x > y THEN x ELSE y
      Walk[i \in 0..Len(curve)] ==
        IF i = 0 THEN [peak |-> capital, worst |-> 0]
        ELSE LET peak == Higher(curve[i].equity, Walk[i - 1].peak)
             IN  [peak |-> peak, worst |-> Higher(peak - curve[i].equity, Walk[i - 1].worst)]
  IN  Walk[Len(curve)].worst

\* The trough: the first of the worst steps.
BottomOf(curve) ==
  CHOOSE i \in DOMAIN curve :
    /\ \A j \in DOMAIN curve : ~RatioLess(Drawdown(curve[j]), Drawdown(curve[i]))
    /\ \A j \in 1..(i - 1) : RatioLess(Drawdown(curve[i]), Drawdown(curve[j]))

\* The last step at the peak before it, the first step of all without one.
StartOf(curve, bottom) ==
  LET peaks == {i \in 1..bottom : AtPeak(curve[i])}
  IN  IF peaks = {} THEN 1 ELSE CHOOSE i \in peaks : \A j \in peaks : j <= i
\* A plausible bug: the search does not begin at the trough.
MutFirstOfAll(curve, bottom) ==
  LET peaks == {i \in DOMAIN curve : AtPeak(curve[i])}
  IN  IF peaks = {} THEN 0 ELSE CHOOSE i \in peaks : \A j \in peaks : i <= j
\* The first step at the peak after it, 0 without one.
RecoveryOf(curve, bottom) ==
  LET peaks == {i \in (bottom + 1)..Len(curve) : AtPeak(curve[i])}
  IN  IF peaks = {} THEN 0 ELSE CHOOSE i \in peaks : \A j \in peaks : i <= j

UnderwaterDays(curve, days) ==
  Sum([i \in 1..(Len(curve) - 1) |->
         IF AtPeak(curve[i + 1]) THEN 0 ELSE days[i + 1] - days[i]])

\* build_drawdown_analysis: at most one event, the worst.
DrawdownAnalysis(curve, days) ==
  LET worst    == WorstDrawdown(curve)
      bottom   == BottomOf(curve)
      start    == StartOf(curve, bottom)
      recovery == RecoveryOf(curve, bottom)
  IN  [max |-> <<-worst[1], worst[2]>>,
       events |-> IF worst[1] = 0 THEN <<>> ELSE
         <<[start |-> start, bottom |-> bottom, recovery |-> recovery,
            duration |-> days[bottom] - days[start],
            recoveryDuration |-> IF recovery = 0 THEN 0 ELSE days[recovery] - days[bottom],
            timeToMax |-> days[start] - days[1]]>>,
       underwater |-> UnderwaterDays(curve, days),
       underwaterPart |-> CheckedRatio(UnderwaterDays(curve, days),
                                       days[Len(days)] - days[1])]

\* Steps whose prior equity is zero have no return.
Returns(curve) ==
  SelectSeq([i \in 1..(Len(curve) - 1) |->
               CheckedRatio(curve[i + 1].equity - curve[i].equity, curve[i].equity)],
            LAMBDA r : r # None)
MaxConsecutiveLosses(curve) ==
  LET returns == Returns(curve)
      Run[i \in 0..Len(returns)] ==
        IF i = 0 \/ returns[i][1] >= 0 THEN 0 ELSE Run[i - 1] + 1
      runs == {Run[i] : i \in 0..Len(returns)}
  IN  CHOOSE r \in runs : \A q \in runs : q <= r

\* The sum of ratios, over the product of their denominators.
SumOfRatios(ratios) ==
  LET den == FoldFunction(LAMBDA r, d : r[2] * d, 1, ratios)
  IN  <<Sum(MapSeq(LAMBDA r : r[1] * (den \div r[2]), ratios)), den>>
Mean(ratios) ==
  IF ratios = <<>> THEN None
  ELSE LET sum == SumOfRatios(ratios) IN <<sum[1], Len(ratios) * sum[2]>>

Sign(x) == IF x > 0 THEN 1 ELSE IF x < 0 THEN -1 ELSE 0
\* ratio: the mean over a deviation, None when nothing deviates.
Ratio(mean, deviation) == IF deviation = 0 THEN None ELSE <<Sign(mean[1])>>

\* population_stddev and downside_deviation: 1 for any that is not zero.
MutAboveMean(returns) ==
  IF \E i \in DOMAIN returns : returns[i][1] > 0 THEN 1 ELSE 0
DownsideDeviation(returns) ==
  IF \E i \in DOMAIN returns : returns[i][1] < 0 THEN 1 ELSE 0
PopulationStddev(returns) ==
  IF \E i, j \in DOMAIN returns : RatioLess(returns[i], returns[j]) THEN 1 ELSE 0

\* populate_return_metrics.
ReturnMetrics(returns) ==
  LET Unless(value) == IF returns = <<>> THEN None ELSE value IN
  [volatility |-> Unless(<<PopulationStddev(returns)>>),
   sharpe |-> Unless(Ratio(Mean(returns), PopulationStddev(returns))),
   downside |-> Unless(<<DownsideDeviation(returns)>>),
   sortino |-> Unless(Ratio(Mean(returns), DownsideDeviation(returns)))]

\* build_advanced_risk.
AdvancedRisk(curve) ==
  [lossRun |-> MaxConsecutiveLosses(curve),
   pain |-> Mean(MapSeq(LAMBDA p : <<p.peak - p.equity, p.peak>>, curve))]

-----------------------------------------------------------------------------
\* populate.
Populate(curve, days, capital, log, openAtEnd) ==
  LET s == RealisedStats(log) IN
  [totalReturn |-> CheckedRatio(curve[Len(curve)].equity - capital, capital),
   realised |-> s, winLoss |-> WinLoss(s, Len(log)),
   trades |-> TradeStatistics(log), options |-> OptionsMetrics(s, Len(log)),
   drawdown |-> DrawdownAnalysis(curve, days),
   maxDrawdownCents |-> MaxDrawdownCents(curve, capital),
   returns |-> ReturnMetrics(Returns(curve)), risk |-> AdvancedRisk(curve),
   netPremium |-> NetPremiumCents(log, openAtEnd)]
=============================================================================
