------------------------------- MODULE Money -------------------------------
(***************************************************************************)
(* Money arithmetic of a run, in integer cents: the rounding policy        *)
(* (src/domain/money.rs), the sign conventions (src/domain/execution.rs),  *)
(* what a fill costs (src/execution/mod.rs), what the naive model charges  *)
(* for it (src/execution/naive.rs) and what a leg has won                  *)
(* (src/engine/tradelog.rs, src/engine/bundle_collector.rs).               *)
(*                                                                         *)
(* A Decimal is a rational <<n, d>> with d > 0; only its rounding to whole *)
(* cents is ever observed.                                                 *)
(***************************************************************************)
EXTENDS Integers, Sequences, FiniteSets, Functions

Sum(seq) == FoldFunction(LAMBDA x, y : x + y, 0, seq)
MapSeq(Op(_), seq) == [i \in DOMAIN seq |-> Op(seq[i])]

\* sort_by over a tuple of numbers, which is stable.
LexLess(a, b) ==
  \E i \in DOMAIN a : a[i] < b[i] /\ \A j \in 1..(i - 1) : a[j] = b[j]
NotAfter(keys, i, j) == LexLess(keys[i], keys[j]) \/ (keys[i] = keys[j] /\ i <= j)
SortBy(Key(_), seq) ==
  LET keys == MapSeq(Key, seq)
      Place(j) == Cardinality({i \in DOMAIN seq : NotAfter(keys, i, j)})
  IN  [place \in DOMAIN seq |-> seq[CHOOSE i \in DOMAIN seq : Place(i) = place]]

\* filter: SelectSeq, the elements that pass by their places among those.
Filter(seq, Test(_)) ==
  LET hits == {i \in DOMAIN seq : Test(seq[i])}
      Place(j) == Cardinality({i \in hits : i <= j})
  IN  [place \in 1..Cardinality(hits) |-> seq[CHOOSE i \in hits : Place(i) = place]]

\* Decimal::round_dp_with_strategy(0, MidpointNearestEven) of num / den.
RoundHalfEven(num, den) ==
  LET floor == num \div den
      twice == 2 * (num - floor * den)
  IN  IF twice > den \/ (twice = den /\ floor % 2 = 1) THEN floor + 1 ELSE floor

\* A price is never negative: PriceCents::from_decimal_dollars refuses one.
Unpriced == -1
FromDecimalDollars(num, den) ==
  IF num < 0 THEN Unpriced ELSE RoundHalfEven(100 * num, den)

SideSign(side) == IF side = "Long" THEN 1 ELSE -1

\* Signed cash value of qty contracts of mult units at a price.
Notional(price, qty, mult, side) == price * qty * mult * SideSign(side)

\* Worse than the decision mid is positive for either side; per contract, not
\* scaled by the multiplier.
SlippageCents(price, mid, qty, side) == (price - mid) * qty * SideSign(side)

\* The per-order part is charged on an order's first fill only.
FeeForFill(schedule, qty, first) ==
  schedule.perContract * qty + (IF first THEN schedule.perOrder ELSE 0)

-----------------------------------------------------------------------------
\* The adverse offset of the four SlippageModels.  A fraction is a rational.
AdverseOffset(model, quote, qty) ==
  CASE model.kind = "None"             -> 0
    [] model.kind = "FixedCents"       -> model.cents
    [] model.kind = "SizeProportional" -> model.cents * qty
    [] model.kind = "SpreadFraction"   ->
         RoundHalfEven((quote.ask - quote.bid) * model.num, 2 * model.den)

\* Up for a buy, down for a sell, and never below zero.
NaivePrice(mid, side, offset) ==
  LET price == mid + offset * SideSign(side)
  IN  IF price < 0 THEN 0 ELSE price

\* The single fill of a submission in naive mode.
NaiveFill(model, schedule, quote, side, qty) ==
  LET price == NaivePrice(quote.mid, side, AdverseOffset(model, quote, qty))
  IN  [side |-> side, qty |-> qty, price |-> price,
       fees |-> FeeForFill(schedule, qty, TRUE),
       slippage |-> SlippageCents(price, quote.mid, qty, side)]

-----------------------------------------------------------------------------
\* A plausible bug: the closing fee is left out of the realised P&L.
MutGrossPnl(side, entry, exit, qty, mult, fees) ==
  Notional(exit - entry, qty, mult, side)

\* The closer pays the closing fees; the opening ones are the opener's.
RealizedPnl(side, entry, exit, qty, mult, fees) ==
  Notional(exit - entry, qty, mult, side) - fees

UnrealizedCents(mark, entry, qty, mult, side) ==
  Notional(mark - entry, qty, mult, side)
=============================================================================
