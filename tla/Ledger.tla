------------------------------- MODULE Ledger -------------------------------
(***************************************************************************)
(* The money of one run (src/engine/ledger.rs), the trade log              *)
(* (src/engine/tradelog.rs), the position rows                             *)
(* (src/engine/bundle_collector.rs) and the attribution of every step's    *)
(* P&L to the Greeks (src/engine/substrate.rs,                             *)
(* src/analytics/attribution.rs), over the replay loop of                  *)
(* src/engine/backtest.rs.                                                 *)
(*                                                                         *)
(* Each step takes a snapshot, applies the fills of its commands one after *)
(* another and settles once.  The trades are the strategy's choice: a      *)
(* naive run fills each at one price, a realistic one walks the ladder of  *)
(* the step, which its earlier orders depleted, and may let one order at a *)
(* time rest at its limit until the ladder of a later step crosses it.     *)
(* After the last step the attribution pass walks the flat leg buffer.     *)
(*                                                                         *)
(* Time is in days.  Theta and vega are in half cents, so that the sums    *)
(* they are rounded from are halves; gamma is carried and never read.      *)
(***************************************************************************)
EXTENDS Depth
LOCAL INSTANCE TLC

CONSTANTS
  Contracts,   \* contract keys
  Expiry,      \* [Contracts -> the day of expiration_ns]
  Quotes,      \* [Contracts -> the QuoteViews a snapshot may hold]
  Days,        \* the day of each step's snapshot; one step per entry
  Underlying,  \* the underlying price of each step's snapshot
  Multiplier,  \* InstrumentSpec.contract_multiplier
  Fees,        \* [perContract, perOrder]
  Model,       \* the configured SlippageModel
  Capital,     \* config initial_capital
  MaxTrades,   \* bound: orders of one run, per ExecutionMode
  MaxQty,      \* bound: contracts of one order, per ExecutionMode
  GtcLimits,   \* bound: the limits of the orders that may rest
  MaxCents     \* i64::MAX

\* QuoteView: prices and sizes are unsigned, the analytics have a sign.
IsQuote(q) ==
  /\ {q.bid, q.ask, q.mid, q.bid_size, q.ask_size} \subseteq Nat
  /\ {q.theta, q.delta, q.vega, q.iv} \subseteq Int
\* SlippageModel.
IsModel(model) ==
  \/ model.kind = "None"
  \/ model.kind \in {"FixedCents", "SizeProportional"} /\ model.cents \in Nat
  \/ model.kind = "SpreadFraction" /\ model.num \in Nat /\ model.den \in Nat \ {0}

ASSUME LedgerAssumption ==
  /\ MaxCents \in Nat /\ Multiplier \in Nat \ {0} /\ Capital \in 1..MaxCents
  /\ Days \in Seq(Int) /\ Underlying \in Seq(Int) /\ Len(Underlying) = Len(Days)
  /\ \A i, j \in DOMAIN Days : i < j => Days[i] < Days[j]
  /\ Expiry \in [Contracts -> Int]
  /\ \A c \in Contracts : \A q \in Quotes[c] : IsQuote(q)
  /\ {Fees.perContract, Fees.perOrder} \subseteq Nat
  /\ IsModel(Model)
  /\ DOMAIN MaxTrades \subseteq {"naive", "realistic"}
  /\ \A m \in DOMAIN MaxTrades : MaxQty[m] \in Nat
  /\ GtcLimits \subseteq Nat

VARIABLES
  mode,       \* the run's ExecutionMode
  books,      \* per quoted contract, the two sides of its seeded depth
  working,    \* the order that rests, as <<order>>: RestingStrategyOrder and
              \* PendingEntry in one
  pc,         \* "step" (snapshot next), "carry", "trade", "attribute", "done",
              \* "failed"
  tape,       \* quotes of the snapshots so far, each [contracts quoted -> quote]
  trades,     \* orders of the run so far
  inventory,  \* the open legs, in order
  beginStep,  \* begin_scratch: the inventory before this step's fills
  cash, peak, prevEquity, stepSlippage, stepFees,
  marks, greeks,  \* retained per contract: the last mid, the last quote seen
  openFees,   \* ghost: the fees of the opening fills
  swept,      \* ghost: the contracts of every average over several fills
  carried,    \* ghost: the fills of orders that had been resting
  log,        \* TradeLogCollector.closed: the P&L of each close
  positions,  \* per step, the rows collect_step records
  curve,      \* per step, the EquityPoint
  steps,      \* AttributionSubstrate.steps
  legs,       \* AttributionSubstrate.legs, of all the steps
  offset,     \* attribute's cursor in legs
  rows        \* the GreeksAttributionRows

bookVars == <<books, working, cash, stepSlippage, stepFees, openFees, swept,
              carried, log, inventory, trades>>
settleVars == <<peak, prevEquity, marks, greeks, positions, curve, steps, legs>>
passVars == <<offset, rows>>
vars == <<mode, pc, tape, beginStep, bookVars, settleVars, passVars>>

NoMap == [c \in {} |-> 0]

Init ==
  /\ mode \in DOMAIN MaxTrades
  /\ pc = "step"
  /\ tape = <<>> /\ trades = 0 /\ books = NoMap /\ swept = 0
  /\ working = <<>> /\ carried = <<>>
  /\ inventory = <<>> /\ beginStep = <<>>
  /\ cash = Capital /\ peak = Capital /\ prevEquity = Capital
  /\ stepSlippage = 0 /\ stepFees = 0 /\ openFees = 0
  /\ marks = NoMap /\ greeks = NoMap
  /\ log = <<>> /\ positions = <<>> /\ curve = <<>>
  /\ steps = <<>> /\ legs = <<>>
  /\ offset = 0 /\ rows = <<>>

-----------------------------------------------------------------------------
n == Len(tape)                     \* the current step is n - 1 in the code
Snapshot == tape[n]
Fits(x) == x \in (-MaxCents - 1)..MaxCents

Opposite(side) == IF side = "Long" THEN "Short" ELSE "Long"

\* The feed's next snapshot; realistic mode cancels the depth of the last one
\* and seeds a ladder per quote, which may cross the order that rests.
Seeded(quotes) ==
  [c \in DOMAIN quotes |->
     [side \in {"ask", "bid"} |-> Ladder(quotes[c], side)]]

NextSnapshot(quotes) ==
  /\ pc = "step" /\ n < Len(Days)
  /\ books' = IF mode = "realistic" THEN Seeded(quotes) ELSE NoMap
  /\ tape' = Append(tape, quotes)
  /\ beginStep' = inventory
  /\ pc' = IF working = <<>> THEN "trade" ELSE "carry"
  /\ UNCHANGED <<mode, working, cash, stepSlippage, stepFees, openFees, swept,
                 carried, log, inventory, trades, settleVars, passVars>>

\* Any snapshot.  A contract may be missing from it.
Advance ==
  \E quoted \in SUBSET Contracts :
    \E quotes \in [quoted -> UNION {Quotes[c] : c \in quoted}] :
      /\ \A c \in quoted : quotes[c] \in Quotes[c]
      /\ NextSnapshot(quotes)

\* Mut... operators, here and in the other modules, are the definition after
\* them with a plausible bug; nothing uses them.

\* apply_fill: price and fee move the cash, slippage is summed on a cash basis.
NetFlow(fill) ==
  -Notional(fill.price, fill.qty, Multiplier, fill.side) - fill.fees
MutUnscaled(fill) == fill.slippage
ScaledSlippage(fill) == fill.slippage * Multiplier
After(fills) == cash + Sum(MapSeq(NetFlow, fills))
MutOverflows(fills) == \E i \in DOMAIN fills : ~Fits(NetFlow(fills[i]))
Overflows(fills) ==
  \E i \in DOMAIN fills : ~Fits(NetFlow(fills[i])) \/ ~Fits(After(SubSeq(fills, 1, i)))

Abort ==
  /\ pc' = "failed"
  /\ UNCHANGED <<mode, tape, beginStep, bookVars, settleVars, passVars>>

\* The fills of an order within its limit, and the book it leaves behind.
LimitOf(c, side) == MarketableLimit(side, Snapshot[c])
TakenFrom(c, side, qty, limit) == Taken(books[c][Takes(side)], side, limit, qty)
FillsWithin(c, side, qty, limit) ==
  IF mode = "naive" THEN <<NaiveFill(Model, Fees, Snapshot[c], side, qty)>>
  ELSE LevelFills(books[c][Takes(side)], TakenFrom(c, side, qty, limit), Fees, side,
                  Snapshot[c].mid)
FillsOf(c, side, qty) == FillsWithin(c, side, qty, LimitOf(c, side))

\* Depth ahead of the order that rests, on its side of the book: better prices,
\* and its own price when it has only rested since this step.
AheadOf(w) ==
  LET book == books[w.contract][Takes(Opposite(w.side))]
      Better(price) == IF w.side = "Long" THEN price > CentsToTicks(w.limit)
                       ELSE price < CentsToTicks(w.limit)
      ahead == SelectSeq(book, LAMBDA level :
                 Better(level[1]) \/ (level[1] = CentsToTicks(w.limit) /\ w.step = n))
  IN  Sum(MapSeq(LAMBDA level : level[2], ahead))

\* A strategy self-cross: the order reaches the one that rests.
SelfCross(c, side, qty, limit) ==
  \E i \in DOMAIN working :
    LET w == working[i] IN
      /\ w.contract = c /\ w.side = Opposite(side)
      /\ IF side = "Long" THEN w.limit <= limit ELSE w.limit >= limit
      /\ AheadOf(w) < qty

\* apply_fill of every level: the cash moves fill by fill, not by their average.
MutAtVwap(fills) ==
  IF fills = <<>> THEN <<>> ELSE <<[side |-> fills[1].side] @@ AggregateFills(fills)>>
Applied(fills) == fills
ApplyFills(fills) ==
  /\ cash' = After(Applied(fills))
  /\ stepSlippage' = stepSlippage + Sum(MapSeq(ScaledSlippage, fills))
  /\ stepFees' = stepFees + Sum(MapSeq(LAMBDA f : f.fees, fills))

\* An order's own effects: what it takes from the book, and its number.
Route(c, side, qty, limit) ==
  /\ books' = IF mode = "naive" THEN books
              ELSE [books EXCEPT ![c][Takes(side)] =
                      Consumed(@, TakenFrom(c, side, qty, limit))]
  /\ trades' = trades + 1

\* What is left of a GTC order rests, under the mid it was decided at.
Remainder(c, side, qty, terms, fills, leg) ==
  LET left == qty - Sum(MapSeq(LAMBDA f : f.qty, fills)) IN
  IF terms.tif = "Ioc" \/ left = 0 THEN working
  ELSE <<[contract |-> c, side |-> side, limit |-> terms.limit, left |-> left,
          mid |-> Snapshot[c].mid, step |-> n, charged |-> fills # <<>>, leg |-> leg]>>

\* An order that can fill or rest is accepted; any other aborts the run.
Accepted(c, side, qty, terms, fills) ==
  /\ fills # <<>> \/ terms.tif = "Gtc"
  /\ ~Overflows(fills)
  /\ ~SelfCross(c, side, qty, terms.limit)

Swept(fills) == IF Len(fills) > 1 THEN AggregateFills(fills).qty ELSE 0

\* The new leg of an order, at the average price of its fills.
NewLeg(c, side, fills, id) ==
  [contract |-> c, side |-> side, qty |-> AggregateFills(fills).qty,
   entry |-> AggregateFills(fills).price, id |-> id]

\* Submit(Open): the leg has the next position id.
SubmitOpen(c, side, qty, terms) ==
  LET fills == FillsWithin(c, side, qty, terms.limit)
  IN  \/ /\ Accepted(c, side, qty, terms, fills)
         /\ ApplyFills(fills)
         /\ Route(c, side, qty, terms.limit)
         /\ swept' = swept + Swept(fills)
         /\ inventory' = IF fills = <<>> THEN inventory
                         ELSE Append(inventory, NewLeg(c, side, fills, trades))
         /\ openFees' = openFees + Sum(MapSeq(LAMBDA f : f.fees, fills))
         /\ working' = Remainder(c, side, qty, terms, fills,
                                 [action |-> "open", id |-> trades])
         /\ UNCHANGED <<mode, pc, tape, beginStep, carried, log, settleVars, passVars>>
      \/ ~Accepted(c, side, qty, terms, fills) /\ Abort

\* The terms of an order: marketable up to the cap, or resting at a limit.
Ioc(c, side) == [tif |-> "Ioc", limit |-> LimitOf(c, side)]
Terms(c, side) ==
  {Ioc(c, side)} \cup
    IF mode = "realistic" /\ working = <<>> THEN [tif : {"Gtc"}, limit : GtcLimits] ELSE {}

OpenLeg(c, side, qty) == SubmitOpen(c, side, qty, Ioc(c, side))

Open ==
  /\ pc = "trade" /\ trades < MaxTrades[mode]
  /\ \E c \in DOMAIN Snapshot, side \in {"Long", "Short"}, qty \in 1..MaxQty[mode] :
       \E terms \in Terms(c, side) : SubmitOpen(c, side, qty, terms)

\* reduce_leg: the leg shrinks, or leaves the inventory when nothing is left.
Reduced(i, qty) ==
  IF qty = inventory[i].qty
  THEN SubSeq(inventory, 1, i - 1) \o SubSeq(inventory, i + 1, Len(inventory))
  ELSE [inventory EXCEPT ![i].qty = @ - qty]

\* reduce_leg and record_close of the fills of one order.
PnlOf(leg, order) ==
  RealizedPnl(leg.side, leg.entry, order.price, order.qty, Multiplier, order.fees)
CloseBy(i, order) ==
  /\ inventory' = Reduced(i, order.qty)
  /\ log' = Append(log, PnlOf(inventory[i], order))

\* Submit(Close) of qty contracts of the leg at i.
SubmitClose(i, qty, terms) ==
  LET leg   == inventory[i]
      side  == Opposite(leg.side)
      fills == FillsWithin(leg.contract, side, qty, terms.limit)
      order == AggregateFills(fills)
      accepted == /\ Accepted(leg.contract, side, qty, terms, fills)
                  /\ fills # <<>> => Fits(PnlOf(leg, order))
  IN  \/ /\ accepted
         /\ ApplyFills(fills)
         /\ Route(leg.contract, side, qty, terms.limit)
         /\ swept' = swept + Swept(fills)
         /\ IF fills = <<>> THEN UNCHANGED <<inventory, log>> ELSE CloseBy(i, order)
         /\ working' = Remainder(leg.contract, side, qty, terms, fills,
                                 [action |-> "close", id |-> leg.id])
         /\ UNCHANGED <<mode, pc, tape, beginStep, carried, openFees, settleVars, passVars>>
      \/ ~accepted /\ Abort

CloseLeg(i, qty) ==
  SubmitClose(i, qty, Ioc(inventory[i].contract, Opposite(inventory[i].side)))

Close ==
  /\ pc = "trade" /\ trades < MaxTrades[mode]
  /\ \E i \in DOMAIN inventory : \E qty \in 1..inventory[i].qty :
       /\ inventory[i].contract \in DOMAIN Snapshot
       /\ \E terms \in Terms(inventory[i].contract, Opposite(inventory[i].side)) :
            SubmitClose(i, qty, terms)

\* A submission for a contract the snapshot does not quote.
Unquoted ==
  /\ pc = "trade" /\ trades < MaxTrades[mode]
  /\ Contracts # DOMAIN Snapshot
  /\ Abort

-----------------------------------------------------------------------------
\* capture_refresh_fill: each level of the new ladder that crosses the order
\* trades at the order's own limit, against the mid it was decided at.
MutPresentMid(w) == Snapshot[w.contract].mid
DecisionMid(w) == w.mid
CarryTaken(w) ==
  Taken(books[w.contract][Takes(w.side)], w.side, w.limit, w.left)
CarryFills(w) ==
  LET levels == LevelFills(books[w.contract][Takes(w.side)], CarryTaken(w), Fees, w.side, 0)
  IN  [i \in DOMAIN levels |->
         [levels[i] EXCEPT !.price = w.limit,
            !.fees = FeeForFill(Fees, levels[i].qty, i = 1 /\ ~w.charged),
            !.slippage = SlippageCents(w.limit, DecisionMid(w), levels[i].qty, w.side)]]

\* extend_open_leg: the premium the leg retains and the new fills are averaged
\* again; of earlier fills only what is still open counts.
MutAveragesOrder(leg, order) == order.price
ExtendedEntry(leg, order) ==
  VwapCents(leg.entry * leg.qty + order.price * order.qty, leg.qty + order.qty)
Extended(i, order) ==
  [inventory EXCEPT ![i].qty = @ + order.qty,
                    ![i].entry = ExtendedEntry(inventory[i], order)]

LegOf(w) == {i \in DOMAIN inventory : inventory[i].id = w.leg.id}

\* apply_carry_group, ahead of the step's commands: the first fills of an open
\* make its leg and the later ones extend it, those of a close reduce its leg.
\* One that is gone, or has become too small, aborts the run.
CarryAborts(w, fills) ==
  \/ Overflows(fills)
  \/ w.leg.action = "open" /\ w.charged /\ LegOf(w) = {}
  \/ w.leg.action = "close" /\
       ~\E i \in LegOf(w) :
          LET order == AggregateFills(fills)
          IN  inventory[i].qty >= order.qty /\ Fits(PnlOf(inventory[i], order))
CarryOpen(w, fills) ==
  LET order == AggregateFills(fills) IN
  /\ IF LegOf(w) = {}
     THEN /\ inventory' = Append(inventory, NewLeg(w.contract, w.side, fills, w.leg.id))
          /\ swept' = swept + Swept(fills)
     ELSE \E i \in LegOf(w) :
            inventory' = Extended(i, order) /\ swept' = swept + inventory'[i].qty
  /\ openFees' = openFees + order.fees
  /\ UNCHANGED log
CarryClose(w, fills) ==
  /\ \E i \in LegOf(w) : CloseBy(i, AggregateFills(fills))
  /\ swept' = swept + Swept(fills)
  /\ UNCHANGED openFees

Carry ==
  /\ pc = "carry"
  /\ LET w == working[1]
         fills == IF w.contract \in DOMAIN Snapshot THEN CarryFills(w) ELSE <<>>
         filled == AggregateFills(fills).qty
     IN  \/ /\ fills = <<>>
            /\ pc' = "trade"
            /\ UNCHANGED <<mode, tape, beginStep, bookVars, settleVars, passVars>>
         \/ fills # <<>> /\ CarryAborts(w, fills) /\ Abort
         \/ /\ fills # <<>> /\ ~CarryAborts(w, fills)
            /\ ApplyFills(fills)
            /\ IF w.leg.action = "open" THEN CarryOpen(w, fills) ELSE CarryClose(w, fills)
            /\ books' = [books EXCEPT ![w.contract][Takes(w.side)] =
                            Consumed(@, CarryTaken(w))]
            /\ working' = IF filled = w.left THEN <<>>
                          ELSE <<[w EXCEPT !.left = @ - filled, !.charged = TRUE]>>
            /\ carried' = Append(carried, [step |-> n, since |-> w.step,
                  contract |-> w.contract, side |-> w.side, qty |-> filled])
            /\ pc' = "trade"
            /\ UNCHANGED <<mode, tape, beginStep, trades, settleVars, passVars>>

-----------------------------------------------------------------------------
\* resolve_mark.
IsStale(leg) == leg.contract \notin DOMAIN Snapshot
Expired(leg) == IsStale(leg) /\ Days[n] >= Expiry[leg.contract]
MarkOf(leg) ==
  IF ~IsStale(leg) THEN Snapshot[leg.contract].mid
  ELSE IF leg.contract \in DOMAIN marks THEN marks[leg.contract]
  ELSE leg.entry

\* The map entries of the open, quoted contracts are refreshed in place.
Held == {inventory[i].contract : i \in DOMAIN inventory}
Current(Value(_)) == [c \in Held \cap DOMAIN Snapshot |-> Value(Snapshot[c])]
MutKeepsFirst(map, now) ==
  [c \in DOMAIN map \cup DOMAIN now |-> IF c \in DOMAIN map THEN map[c] ELSE now[c]]
Refreshed(map, now) ==
  [c \in DOMAIN map \cup DOMAIN now |-> IF c \in DOMAIN now THEN now[c] ELSE map[c]]

Row(leg) ==
  [id |-> leg.id, contract |-> leg.contract, side |-> leg.side, qty |-> leg.qty,
   mark |-> MarkOf(leg), stale |-> IsStale(leg),
   unrealized |->
     UnrealizedCents(MarkOf(leg), leg.entry, leg.qty, Multiplier, leg.side)]
RowValue(row) == Notional(row.mark, row.qty, Multiplier, row.side)
PositionValue == Sum(MapSeq(RowValue, MapSeq(Row, inventory)))
Equity == cash + PositionValue

\* AttributionCollector::collect of one mark of collect_attribution_marks.  The
\* retained quote is still the one before this step.
Sample(leg) ==
  LET known == leg.contract \in DOMAIN greeks
      prior == IF known THEN greeks[leg.contract] ELSE 0
  IN  [known |-> known, prior |-> prior, qty |-> leg.qty, side |-> leg.side,
       iv |-> IF ~IsStale(leg) THEN Snapshot[leg.contract].iv
              ELSE IF known THEN prior.iv ELSE 0]
MutSurvivors == inventory
AttributionLegs == beginStep

\* spread_capture_cents: what the slippage cost, from the other side.
SpreadCapture(slippage) == -slippage

\* StepAttributionScalars: the step before the first one is itself.
StepScalars ==
  LET before == IF n = 1 THEN 1 ELSE n - 1
  IN  [ts |-> Days[n], prior_ts |-> Days[before],
       underlying |-> Underlying[n], prior_underlying |-> Underlying[before],
       spread |-> SpreadCapture(stepSlippage), fees |-> stepFees,
       pnl |-> Equity - prevEquity, count |-> Len(AttributionLegs)]

SettleFails ==
  \/ \E i \in DOMAIN inventory : Expired(inventory[i])
  \/ \E i \in DOMAIN inventory : ~Fits(Row(inventory[i]).unrealized)
  \/ ~Fits(PositionValue) \/ ~Fits(Equity) \/ ~Fits(Equity - prevEquity)
  \/ ~Fits(SpreadCapture(stepSlippage)) \/ ~Fits(stepFees)

\* The step's single settlement, then the collectors.
Settle ==
  /\ pc = "trade"
  /\ ~SettleFails
  /\ legs' = legs \o MapSeq(Sample, AttributionLegs)
  /\ steps' = Append(steps, StepScalars)
  /\ positions' = Append(positions, MapSeq(Row, inventory))
  /\ peak' = IF Equity > peak THEN Equity ELSE peak
  /\ curve' = Append(curve, [cash |-> cash, equity |-> Equity, peak |-> peak'])
  /\ prevEquity' = Equity
  /\ marks' = Refreshed(marks, Current(LAMBDA q : q.mid))
  /\ greeks' = Refreshed(greeks, Current(LAMBDA q : q))
  /\ stepSlippage' = 0 /\ stepFees' = 0
  /\ pc' = IF n = Len(Days) THEN "attribute" ELSE "step"
  /\ UNCHANGED <<mode, books, working, swept, carried, tape, trades, inventory,
                 beginStep, cash, openFees, log, passVars>>

SettleAborts == pc = "trade" /\ SettleFails /\ Abort

-----------------------------------------------------------------------------
Weight(leg) == leg.qty * Multiplier * SideSign(leg.side)
Slice(step) == SubSeq(legs, offset + 1, offset + step.count)
Attributed(slice) == {i \in DOMAIN slice : slice[i].known}
TermSum(slice, Term(_)) ==
  FoldFunctionOnSet(LAMBDA x, y : x + y, 0,
                    [i \in DOMAIN slice |-> IF slice[i].known
                       THEN Term(slice[i]) * Weight(slice[i]) ELSE 0],
                    DOMAIN slice)

DeltaTDays(step) == step.ts - step.prior_ts
DeltaSCents(step) == step.underlying - step.prior_underlying
DeltaIv(leg) == leg.iv - leg.prior.iv
RoundToCents(halves) == RoundHalfEven(halves, 2)

\* attribute_step: every term is summed exactly, rounded once, and the residual
\* closes the step's P&L.
AttributeStep(step, slice) ==
  LET theta == RoundToCents(TermSum(slice, LAMBDA g : g.prior.theta * DeltaTDays(step)))
      delta == RoundToCents(TermSum(slice, LAMBDA g : g.prior.delta * DeltaSCents(step)))
      vega  == RoundToCents(TermSum(slice, LAMBDA g : g.prior.vega * DeltaIv(g)))
  IN  [theta |-> theta, delta |-> delta, vega |-> vega,
       spread |-> step.spread, fees |-> step.fees,
       residual |-> step.pnl - (theta + delta + vega + step.spread - step.fees)]

Attribute ==
  /\ pc = "attribute" /\ Len(rows) < Len(steps)
  /\ LET step == steps[Len(rows) + 1] IN
       /\ rows' = Append(rows, AttributeStep(step, Slice(step)))
       /\ offset' = offset + step.count
  /\ UNCHANGED <<mode, pc, tape, beginStep, bookVars, settleVars>>

Finish ==
  /\ pc = "attribute" /\ Len(rows) = Len(steps)
  /\ pc' = "done"
  /\ UNCHANGED <<mode, tape, beginStep, bookVars, settleVars, passVars>>

Next == Advance \/ Carry \/ Open \/ Close \/ Unquoted \/ Settle \/ SettleAborts
          \/ Attribute \/ Finish

Spec == Init /\ [][Next]_vars
-----------------------------------------------------------------------------
\* Every amount of Cents fits an i64 (the sums of a step are wider, until they
\* are settled), and what the ledger writes has the shape the later passes read
\* (EquityPoint, PositionMark, StepAttributionScalars).
TypeOK ==
  /\ pc \in {"step", "carry", "trade", "attribute", "done", "failed"}
  /\ \A x \in {cash, peak, prevEquity} : Fits(x)
  /\ \A i \in DOMAIN steps : \A x \in {steps[i].pnl, steps[i].spread, steps[i].fees} : Fits(x)
  /\ Len(steps) = Len(curve) /\ Len(steps) = Len(positions)
  /\ \A i \in DOMAIN curve : Fits(curve[i].equity)
  /\ \A i \in DOMAIN log : Fits(log[i])
  /\ DOMAIN marks \subseteq Contracts /\ DOMAIN greeks = DOMAIN marks
  /\ offset \in 0..Len(legs)

\* The last quote of c in the first m snapshots, from the tape alone.
SeenIn(c, m) == {j \in 1..m : c \in DOMAIN tape[j]}
Latest(S) == CHOOSE j \in S : \A i \in S : i <= j
LastSeen(c, m) == tape[Latest(SeenIn(c, m))][c]
RowsAt(m) == IF m = 0 THEN <<>> ELSE positions[m]

\* A leg without a quote is marked at the last mid on the tape, wherever that
\* was, and flagged; one past its expiry is never marked without a quote
\* (Ledger::resolve_mark keeps the mid in a map that outlives the leg).
StaleIsLast(m) ==
  \A i \in DOMAIN positions[m] :
    LET row == positions[m][i] IN
      /\ row.mark = LastSeen(row.contract, m).mid
      /\ row.stale <=> row.contract \notin DOMAIN tape[m]
      /\ row.stale => Days[m] < Expiry[row.contract]

\* Three books agree after every settlement: the equity gained (ledger) is what
\* the closes realised (trade log) and what the open rows would realise
\* (positions.parquet), less the opening fees, which neither of those counts.
\* Cash moves by the fill but a leg and a close by the average of an order's
\* fills, rounded each time: each contract of an order that walked several
\* levels, or of a leg that a resting order extended, may be half a cent off, and
\* no other is.  The rows are at the marks of the
\* tape: the present mid or the last one.
BooksReconcile ==
  (pc \in {"step", "attribute", "done"} /\ n > 0) =>
    /\ StaleIsLast(n)
    /\ LET gained == curve[n].equity - Capital
           told   == Sum(log) + Sum(MapSeq(LAMBDA row : row.unrealized, positions[n]))
                       - openFees
       IN  2 * (gained - told) \in -(Multiplier * swept)..(Multiplier * swept)

\* Every cent of a step's P&L is the move of the mid under what was held when
\* the step began, or friction of its fills: a fill is measured against the
\* same mid its leg is marked at, and on the same cash basis.  Only the fill of
\* an order that rested is measured against another, that of the step it was
\* submitted in, and what the mid has moved since is all that separates the two.
PnlExplained ==
  \A m \in DOMAIN steps :
    LET Move(row) == Notional(LastSeen(row.contract, m).mid - row.mark,
                              row.qty, Multiplier, row.side)
        Drift(c) == Notional(tape[m][c.contract].mid - tape[c.since][c.contract].mid,
                             c.qty, Multiplier, c.side)
        DriftNow(c) == IF c.step = m THEN Drift(c) ELSE 0
    IN  steps[m].pnl = Sum(MapSeq(Move, RowsAt(m - 1))) + Sum(MapSeq(DriftNow, carried))
                         + steps[m].spread - steps[m].fees

\* The attribution of a step, from the tape and the position rows alone: the
\* legs held since the step before, a leg closed in the step included and one
\* opened in it left out, at the last Greeks seen before the step.
TermsOf(m) ==
  LET held == RowsAt(m - 1)
      From(row) == LastSeen(row.contract, m - 1)
      To(row)   == LastSeen(row.contract, m)
      Total(Term(_)) ==
        RoundHalfEven(Sum(MapSeq(LAMBDA row : Term(row) * Weight(row), held)), 2)
      gap  == IF m = 1 THEN 0 ELSE Days[m] - Days[m - 1]
      move == IF m = 1 THEN 0 ELSE Underlying[m] - Underlying[m - 1]
  IN  [theta |-> Total(LAMBDA row : From(row).theta * gap),
       delta |-> Total(LAMBDA row : From(row).delta * move),
       vega  |-> Total(LAMBDA row : From(row).vega * (To(row).iv - From(row).iv))]

\* The rows are exactly those terms, for every step, and close the P&L of the
\* equity curve (the slices of the flat leg buffer never slip by a leg, and the
\* retained Greeks are those of S_{n-1}).
TermsCoverHoldings ==
  \A m \in DOMAIN rows :
    LET row == rows[m]  terms == TermsOf(m)
        before == IF m = 1 THEN Capital ELSE curve[m - 1].equity
    IN  /\ row.theta = terms.theta
        /\ row.delta = terms.delta
        /\ row.vega = terms.vega
        /\ curve[m].equity - before
             = row.theta + row.delta + row.vega + row.spread - row.fees + row.residual

=============================================================================
