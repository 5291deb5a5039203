------------------------------- MODULE Depth -------------------------------
(***************************************************************************)
(* What a marketable order pays in realistic mode: the ladder seeded from  *)
(* a quote (src/execution/liquidity.rs), the walk of an order up to its    *)
(* cap (src/execution/realistic.rs, option-chain-orderbook), and the       *)
(* aggregate of its fills that a leg carries (src/engine/backtest.rs).     *)
(*                                                                         *)
(* One side of a book is a sequence of <<price in ticks, size>>, best      *)
(* first.  Orders, ids and resting depth are RealisticFill's.              *)
(***************************************************************************)
EXTENDS Money

CONSTANTS
  Tick,      \* InstrumentSpec.tick_size_cents
  Profile,   \* LiquidityProfile: [flat, levels, num, den], decay num / den;
             \* flat is 0 for TouchSize::QuotedSize
  CapTicks   \* marketable_cap_ticks

ASSUME DepthAssumption ==
  /\ Tick \in Nat \ {0} /\ CapTicks \in Nat
  /\ {Profile.flat, Profile.levels, Profile.num, Profile.den} \subseteq Nat
  /\ Profile.den >= Profile.num /\ Profile.num > 0

\* ob_side: the trade's side picks the side of the book, open or close alike.
Takes(side) == IF side = "Long" THEN "ask" ELSE "bid"

\* cents_to_ticks refuses a price off the grid: ingest lets none through.
CentsToTicks(price) == price \div Tick
TicksToCents(ticks) == ticks * Tick

TouchSize(quote, side) ==
  IF Profile.flat # 0 THEN Profile.flat
  ELSE IF side = "ask" THEN quote.ask_size ELSE quote.bid_size

\* Half a contract goes to the even size.
DecayedSize(touch, level) == RoundHalfEven(touch * Profile.num^level, Profile.den^level)

\* push_side_ladder: from the touch away from the mid, until a size rounds to
\* zero or a bid would be below zero.
Ladder(quote, side) ==
  LET Price(i) == IF side = "ask" THEN quote.ask + i * Tick ELSE quote.bid - i * Tick
      Size(i) == DecayedSize(TouchSize(quote, side), i)
      planned == {i \in 0..Profile.levels :
                    \A j \in 0..i : Size(j) \in Nat \ {0} /\ Price(j) >= 0}
  IN  [i \in 1..Cardinality(planned) |-> <<CentsToTicks(Price(i - 1)), Size(i - 1)>>]

\* marketable_limit_cents: a sell never asks for less than nothing.
MarketableLimit(side, quote) ==
  IF side = "Long" THEN quote.ask + CapTicks * Tick
  ELSE IF quote.bid < CapTicks * Tick THEN 0 ELSE quote.bid - CapTicks * Tick

\* What an order of qty takes of each level within its limit.
Taken(book, side, limit, qty) ==
  LET Within(i) == IF side = "Long" THEN book[i][1] <= CentsToTicks(limit)
                   ELSE book[i][1] >= CentsToTicks(limit)
      Ahead(i) == Sum([j \in 1..(i - 1) |-> book[j][2]])
      Fewer(a, b) == IF a < b THEN a ELSE b
  IN  [i \in DOMAIN book |->
         IF Within(i) /\ Ahead(i) < qty THEN Fewer(book[i][2], qty - Ahead(i)) ELSE 0]

\* The book an order leaves behind, without the levels it exhausted; its own
\* remainder is cancelled (IOC).
Consumed(book, taken) ==
  LET gone == Cardinality({i \in DOMAIN book : taken[i] = book[i][2]})
  IN  [i \in 1..(Len(book) - gone) |->
         <<book[i + gone][1], book[i + gone][2] - taken[i + gone]>>]

\* fill_submit: a fill per level, against the mid the order was decided at; the
\* fee per order is the first one's.
LevelFills(book, taken, schedule, side, mid) ==
  LET hit == {i \in DOMAIN book : taken[i] > 0}
  IN  [i \in 1..Cardinality(hit) |->
         LET price == TicksToCents(book[i][1]) IN
         [side |-> side, qty |-> taken[i], price |-> price,
          fees |-> FeeForFill(schedule, taken[i], i = 1),
          slippage |-> SlippageCents(price, mid, taken[i], side)]]

-----------------------------------------------------------------------------
\* vwap_cents, in whole numbers: a tie goes to the even cent.
MutTruncated(notional, total) == notional \div total
VwapCents(notional, total) ==
  LET quotient == notional \div total
      twice == 2 * (notional - quotient * total)
  IN  IF twice < total \/ (twice = total /\ quotient % 2 = 0) THEN quotient
      ELSE quotient + 1

\* aggregate_fills: the leg's quantity, reference premium and costs.
AggregateFills(fills) ==
  LET total == Sum(MapSeq(LAMBDA f : f.qty, fills))
      notional == Sum(MapSeq(LAMBDA f : f.price * f.qty, fills))
  IN  [qty |-> total, price |-> VwapCents(notional, total),
       fees |-> Sum(MapSeq(LAMBDA f : f.fees, fills)),
       slippage |-> Sum(MapSeq(LAMBDA f : f.slippage, fills))]
=============================================================================
