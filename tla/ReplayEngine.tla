---------------------------- MODULE ReplayEngine ----------------------------
(***************************************************************************)
(* The replay engine (src/engine/backtest.rs): startup, the per-step       *)
(* phases around the execution call, and apply_step_fills, which turns the *)
(* fills and the correlation channels of that call into lifecycle ids, the *)
(* position inventory, the trade log, the bundle streams and the registry  *)
(* of pending orders.                                                      *)
(*                                                                         *)
(* The strategy is any Strategy within the bounds: exits and close_all are *)
(* the shipped ones, on_start and on_snapshot are arbitrary.               *)
(***************************************************************************)
EXTENDS Domain, SequencesExt

CONSTANTS
  MaxCommands,  \* bound: commands one strategy callback appends
  OpenKinds,    \* the order kinds the strategy opens with
  CloseKinds,   \* the order kinds of the closes on_snapshot appends
  IntentSides   \* the sides the strategy opens

ASSUME StrategyAssumption ==
  /\ MaxCommands \in Nat
  /\ OpenKinds \subseteq Kinds
  /\ CloseKinds \subseteq Kinds
  /\ IntentSides \subseteq Sides

VARIABLES
  inventory,    \* the open legs, by PositionId (ascending: push order)
  pending,      \* pending_orders: PendingEntry by OrderId
  tradeOpen,    \* TradeLogCollector.open
  closedTrades, \* TradeLogCollector.closed
  openLegs,     \* BundleCollector.open_legs: the leg's trade
  records,      \* BundleCollector.fills
  terminalRows, \* the terminal rows of BundleCollector.positions
  nextOrder, nextPos, nextTrade,  \* IdCounters
  stepTrade,    \* step_trade of apply_step_fills, 0 for None
  cursor,       \* fills consumed so far
  gi,           \* the next fill group
  submitted,    \* ghost: intent and call of every order the walk has reached
  withdrawn     \* ghost: orders a Cancel or Replace dropped from the registry

bookVars == <<inventory, tradeOpen, closedTrades, openLegs, records, terminalRows>>
idVars == <<nextOrder, nextPos, nextTrade>>
walkVars == <<stepTrade, cursor, gi>>
ghosts == <<submitted, withdrawn>>
engineVars == <<bookVars, pending, idVars, walkVars, ghosts>>

Legs           == [contract : Contracts, side : Sides, qty : Quantities]
PendingEntries == [intent : Intents, trade : Nat, pos : Nat,
                   fillsSoFar : Nat, reason : Reasons]
LoggedLegs     == [trade : Nat, remaining : Quantities]
ClosedTrades   == [pos : Nat, trade : Nat, qty : Quantities, reason : Reasons]
Records        == [order : OrderIds, seq : Nat, trade : Nat, pos : Nat,
                   action : {"open", "close"}, fill : Fills]
TerminalRows   == [pos : Nat, trade : Nat, qty : Quantities, reason : Reasons]

BooksTypeOK ==
  /\ IsMap(inventory, Nat, Legs)
  /\ IsMap(tradeOpen, Nat, LoggedLegs)
  /\ closedTrades \in Seq(ClosedTrades)
  /\ IsMap(openLegs, Nat, Nat)
  /\ records \in Seq(Records)
  /\ terminalRows \in Seq(TerminalRows)

EngineTypeOK ==
  /\ BooksTypeOK
  /\ IsMap(pending, OrderIds, PendingEntries)
  /\ nextOrder \in 1..(MaxOrders + 1) /\ nextPos \in Nat \ {0} /\ nextTrade \in Nat \ {0}
  /\ stepTrade \in Nat /\ cursor \in Nat /\ gi \in Nat \ {0}
  /\ IsMap(submitted, OrderIds, [intent : Intents, call : Nat])
  /\ withdrawn \subseteq OrderIds

EngineInit ==
  /\ inventory = <<>> /\ tradeOpen = <<>> /\ openLegs = <<>>
  /\ closedTrades = <<>> /\ records = <<>> /\ terminalRows = <<>>
  /\ pending = <<>>
  /\ nextOrder = 1 /\ nextPos = 1 /\ nextTrade = 1
  /\ stepTrade = 0 /\ cursor = 0 /\ gi = 1
  /\ submitted = <<>> /\ withdrawn = {}

AbortEngine(cause) == AbortSeam(cause) /\ UNCHANGED engineVars

-----------------------------------------------------------------------------
(* The strategy's callbacks.                                               *)

OpenIntents == [action : {"open"}, pos : {0}, contract : Contracts,
                side : IntentSides, qty : Quantities, kind : OpenKinds]

\* close_command_qty: the opposite side on the leg's contract.
CloseIntent(p, q, kind) ==
  [action |-> "close", pos |-> p, contract |-> inventory[p].contract,
   side |-> Opposite(inventory[p].side), qty |-> q, kind |-> kind]
CloseIntents == {CloseIntent(p, q, kind) : p \in DOMAIN inventory,
                                           q \in Quantities, kind \in CloseKinds}

Submit(intent)         == [type |-> "submit", intent |-> intent]
Cancel(order)          == [type |-> "cancel", order |-> order]
Replacing(order, intent) == [type |-> "replace", order |-> order,
                             intent |-> intent]

\* What on_snapshot may append.  Ids come from the pending view of this step
\* or an earlier one.
OwnIntents == OpenIntents \cup {i \in CloseIntents : i.qty <= inventory[i.pos].qty}
SeenOrders == 1..(nextOrder - 1)
Offered == {Submit(i) : i \in OwnIntents} \cup {Cancel(o) : o \in SeenOrders}
             \cup {Replacing(o, i) : o \in SeenOrders, i \in OwnIntents}

\* Queues of at most MaxCommands of these commands.
Queues(S) == BoundedSeq(S, MaxCommands)

\* The legs of S in inventory order.  A leg takes an order: MaxOrders bounds S.
InOrder(S) == {legs \in BoundedSeq(S, MaxOrders) :
                 /\ Range(legs) = S
                 /\ \A i, j \in DOMAIN legs : i < j => legs[i] < legs[j]}

Submissions(queue) == Cardinality({j \in DOMAIN queue : IsSubmission(queue[j])})
\* Bound: MaxOrders ids in one run.
Mintable(queue) == nextOrder + Submissions(queue) <= MaxOrders + 1

\* on_start: opening intents only, and no exit or on_end range.
OnStart ==
  /\ pc = "start"
  /\ \E queue \in Queues({Submit(i) : i \in OpenIntents}) :
       /\ Mintable(queue)
       /\ cmds' = queue
       /\ onEndStart' = Len(queue)
  /\ exitsEnd' = 0
  /\ pc' = "mint"
  /\ UNCHANGED <<call, quoted, submitIds, outFills, carryGroups, fillGroups, k,
                 error, engineVars>>

\* close_command: flatten the leg at the market.
CloseCommand(p) == Submit(CloseIntent(p, inventory[p].qty, "market"))

\* exits: evaluate_exits closes every leg whose policy triggers.
Exits ==
  /\ pc = "exits"
  /\ \E triggered \in SUBSET DOMAIN inventory : \E legs \in InOrder(triggered) :
       /\ cmds' = [i \in DOMAIN legs |-> CloseCommand(legs[i])]
       /\ exitsEnd' = Len(legs)
       /\ Mintable(cmds')
  /\ pc' = "snapshot"
  /\ UNCHANGED <<call, quoted, onEndStart, submitIds, outFills, carryGroups,
                 fillGroups, k, error, engineVars>>

\* on_snapshot, and the range on_end will append to.
OnSnapshot ==
  /\ pc = "snapshot"
  /\ \E queue \in Queues(Offered) :
       /\ Mintable(cmds \o queue)
       /\ cmds' = cmds \o queue
  /\ onEndStart' = Len(cmds')
  /\ pc' = IF isLast THEN "end" ELSE "mint"
  /\ UNCHANGED <<call, quoted, exitsEnd, submitIds, outFills, carryGroups,
                 fillGroups, k, error, engineVars>>

\* Mutant: close_all ignores what the exits scheduled.
MutNothingScheduled(p) == 0

\* scheduled_close_qty plus the resting closes close_all counts as coverage.
\* A replacement that closes the leg is not counted.
Scheduled(p) ==
  LET closes == {j \in DOMAIN cmds : /\ cmds[j].type = "submit"
                                     /\ cmds[j].intent.action = "close"
                                     /\ cmds[j].intent.pos = p}
      resting == {o \in DOMAIN pending : /\ pending[o].intent.action = "close"
                                         /\ pending[o].intent.pos = p}
  IN  SumOver([j \in closes |-> cmds[j].intent.qty], closes)
        + SumOver([o \in resting |-> pending[o].intent.qty], resting)

\* close_all: flatten what no earlier phase and no resting close covers.
Uncovered(p, q) == Scheduled(p) + q = inventory[p].qty
UncoveredLegs   == {p \in DOMAIN inventory : \E q \in Quantities : Uncovered(p, q)}
FlattenCommand(p) ==
  Submit(CloseIntent(p, CHOOSE q \in Quantities : Uncovered(p, q), "market"))
CloseAll == {[i \in DOMAIN legs |-> FlattenCommand(legs[i])] :
               legs \in InOrder(UncoveredLegs)}

\* reject_non_close looks only at what on_end appended.
IsClose(cmd) == cmd.type = "submit" /\ cmd.intent.action = "close"

\* on_end, inside the final step: close_all, nothing, or a command that is not
\* a close.
OnEnd ==
  /\ pc = "end"
  /\ \E tail \in CloseAll \cup {<<>>} \cup {<<Submit(i)>> : i \in OpenIntents} :
       /\ Mintable(cmds \o tail)
       /\ IF \A j \in DOMAIN tail : IsClose(tail[j])
            THEN /\ cmds' = cmds \o tail
                 /\ pc' = "mint"
                 /\ UNCHANGED <<call, quoted, exitsEnd, onEndStart, submitIds,
                                outFills, carryGroups, fillGroups, k, error,
                                engineVars>>
            ELSE AbortEngine("on_end_non_close")

\* CloseReasons::reason_for the command at index i.
ReasonFor(i) == IF i <= exitsEnd THEN "policy"
                ELSE IF i > onEndStart THEN "end_of_data"
                ELSE "manual"

\* mint_submit_ids: one OrderId per Submit and Replace, in command order.
MintedIds == [i \in 1..Submissions(cmds) |-> nextOrder + i - 1]

MintIds ==
  /\ pc = "mint"
  /\ Mintable(cmds)
  /\ submitIds' = MintedIds
  /\ nextOrder' = nextOrder + Submissions(cmds)
  /\ pc' = "refresh"
  /\ UNCHANGED <<call, quoted, cmds, exitsEnd, onEndStart, outFills,
                 carryGroups, fillGroups, k, error, bookVars, pending, nextPos,
                 nextTrade, walkVars, ghosts>>

-----------------------------------------------------------------------------
(* apply_step_fills.                                                       *)

CountOf(groups) == SumOver([i \in DOMAIN groups |-> groups[i].count],
                           DOMAIN groups)

\* The prechecks: every Cancel and Replace names an order pending when the step
\* began, and the two channels account for exactly the produced fills.
ValidateFault ==
  IF \E i \in DOMAIN cmds : /\ IsLifecycle(cmds[i])
                            /\ cmds[i].order \notin DOMAIN pending
    THEN "not_pending"
  ELSE IF CountOf(carryGroups) + CountOf(fillGroups) # Len(outFills)
    THEN "coverage"
  ELSE "none"

Validate ==
  /\ pc = "validate"
  /\ IF ValidateFault # "none" THEN AbortEngine(ValidateFault)
     ELSE /\ pc' = "carry"
          /\ k' = 1
          /\ stepTrade' = 0 /\ cursor' = 0 /\ gi' = 1
          /\ UNCHANGED <<call, quoted, cmds, exitsEnd, onEndStart, submitIds,
                         outFills, carryGroups, fillGroups, error, bookVars,
                         pending, idVars, ghosts>>

\* The FillRecords of one order's run of fills, numbered from first.
RecordsOf(run, order, action, trade, p, first) ==
  [i \in DOMAIN run |-> [order |-> order, seq |-> first + i - 1,
     trade |-> trade, pos |-> p, action |-> action, fill |-> run[i]]]

\* A leg opens: inventory, record_open, register_open_leg, record_open_fill.
OpenLeg(p, trade, run, order, first) ==
  LET q == TotalQty(run) IN
  /\ inventory' = Put(inventory, p, [contract |-> run[1].contract,
                                     side |-> run[1].side, qty |-> q])
  /\ tradeOpen' = Put(tradeOpen, p, [trade |-> trade, remaining |-> q])
  /\ openLegs' = Put(openLegs, p, trade)
  /\ records' = records \o RecordsOf(run, order, "open", trade, p, first)
  /\ UNCHANGED <<closedTrades, terminalRows>>

\* Mutant: an extension is not told to the trade log.
MutExtendUnlogged(p, q) == tradeOpen

\* record_open_extend: the trade log's leg grows with the inventory's.
LogExtend(p, q) == [tradeOpen EXCEPT ![p].remaining = @ + q]

\* extend_open_leg and its bookkeeping.
ExtendLeg(p, trade, run, order, first) ==
  LET q == TotalQty(run) IN
  /\ inventory' = [inventory EXCEPT ![p].qty = @ + q]
  /\ tradeOpen' = LogExtend(p, q)
  /\ openLegs' = Put(openLegs, p, trade)
  /\ records' = records \o RecordsOf(run, order, "open", trade, p, first)
  /\ UNCHANGED <<closedTrades, terminalRows>>

\* Mutant: every close removes its leg.
MutEveryCloseFull(p, q) == TRUE

\* reduce_leg: a full close removes the leg.
FullClose(p, q) == inventory[p].qty = q

\* A close applies: reduce_leg, record_close, record_close_fill and, for a full
\* close, record_close_terminal.
CloseLeg(p, run, order, first, reason) ==
  LET q == TotalQty(run) IN
  /\ inventory' = IF FullClose(p, q) THEN Drop(inventory, p)
                  ELSE [inventory EXCEPT ![p].qty = @ - q]
  /\ closedTrades' = Append(closedTrades,
       [pos |-> p, trade |-> tradeOpen[p].trade, qty |-> q, reason |-> reason])
  /\ tradeOpen' = IF q >= tradeOpen[p].remaining THEN Drop(tradeOpen, p)
                  ELSE [tradeOpen EXCEPT ![p].remaining = @ - q]
  /\ records' = records
       \o RecordsOf(run, order, "close", openLegs[p], p, first)
  /\ openLegs' = IF FullClose(p, q) THEN Drop(openLegs, p) ELSE openLegs
  /\ terminalRows' = IF FullClose(p, q)
       THEN Append(terminalRows, [pos |-> p, trade |-> openLegs[p], qty |-> q,
                                  reason |-> reason])
       ELSE terminalRows

\* What refuses a close of q contracts of leg p.
CloseFault(p, q) ==
  IF p \notin DOMAIN inventory THEN "close_not_open"
  ELSE IF q > inventory[p].qty THEN "close_oversize"
  ELSE IF p \notin DOMAIN tradeOpen \/ p \notin DOMAIN openLegs
    THEN "log_desync"
  ELSE "none"

\* What refuses an extension of leg p by q contracts.
ExtendFault(p, q) ==
  IF p \notin DOMAIN inventory THEN "extend_gone"
  ELSE IF inventory[p].qty + q \notin Quantities THEN "quantity_overflow"
  ELSE IF p \notin DOMAIN tradeOpen THEN "log_desync"
  ELSE IF tradeOpen[p].remaining + q \notin Quantities
    THEN "quantity_overflow"
  ELSE "none"

-----------------------------------------------------------------------------
(* The carry prefix: apply_carry_group, one CarryGroup at a time.          *)

AtCarry    == pc = "carry" /\ k <= Len(carryGroups)
CarryOrder == carryGroups[k].order
CarryRun   == SubSeq(outFills, cursor + 1, cursor + carryGroups[k].count)
CarryEntry == pending[CarryOrder]

CarryFault ==
  LET q == TotalQty(CarryRun) IN
  IF cursor + carryGroups[k].count > Len(outFills) THEN "uncorrelated"
  ELSE IF CarryOrder \notin DOMAIN pending THEN "carry_unknown"
  ELSE IF q \notin Quantities THEN "quantity_overflow"
  ELSE LET applied ==
             IF CarryEntry.intent.action = "close"
               THEN CloseFault(CarryEntry.intent.pos, q)
             ELSE IF CarryEntry.pos # 0 THEN ExtendFault(CarryEntry.pos, q)
             ELSE "none"
       IN  IF applied # "none" THEN applied
           ELSE IF q > CarryEntry.intent.qty THEN "carry_exceeds"
           ELSE "none"

CarryFails ==
  /\ AtCarry
  /\ CarryFault # "none"
  /\ AbortEngine(CarryFault)

\* Mutant: a carried run is numbered from zero.
MutSeqRestarts(entry) == 0

\* The fill_seq the entry's next fill takes.
NextSeqOf(entry) == entry.fillsSoFar

\* The entry after a carried run: it shrinks, and leaves the registry at zero.
ShrunkEntry(trade, p) ==
  [intent |-> [CarryEntry.intent EXCEPT !.qty = @ - TotalQty(CarryRun)],
   trade |-> trade, pos |-> p,
   fillsSoFar |-> CarryEntry.fillsSoFar + Len(CarryRun),
   reason |-> CarryEntry.reason]
Shrunk(trade, p) ==
  IF TotalQty(CarryRun) = CarryEntry.intent.qty THEN Drop(pending, CarryOrder)
  ELSE Put(pending, CarryOrder, ShrunkEntry(trade, p))

CarryNext ==
  /\ cursor' = cursor + carryGroups[k].count
  /\ k' = k + 1
  /\ UNCHANGED <<pc, call, quoted, cmds, exitsEnd, onEndStart, submitIds,
                 outFills, carryGroups, fillGroups, error, nextOrder, stepTrade,
                 gi, ghosts>>

\* The first fill of a resting open makes its leg, under the reserved trade.
CarryOpensLeg ==
  /\ AtCarry
  /\ CarryFault = "none"
  /\ CarryEntry.intent.action = "open" /\ CarryEntry.pos = 0
  /\ LET fresh == CarryEntry.trade = 0
         trade == IF fresh THEN nextTrade ELSE CarryEntry.trade
     IN  /\ OpenLeg(nextPos, trade, CarryRun, CarryOrder, NextSeqOf(CarryEntry))
         /\ pending' = Shrunk(trade, nextPos)
         /\ nextTrade' = IF fresh THEN nextTrade + 1 ELSE nextTrade
  /\ nextPos' = nextPos + 1
  /\ CarryNext

\* Every later one extends it.
CarryExtendsLeg ==
  /\ AtCarry
  /\ CarryFault = "none"
  /\ CarryEntry.intent.action = "open" /\ CarryEntry.pos # 0
  /\ ExtendLeg(CarryEntry.pos, CarryEntry.trade, CarryRun, CarryOrder,
               NextSeqOf(CarryEntry))
  /\ pending' = Shrunk(CarryEntry.trade, CarryEntry.pos)
  /\ UNCHANGED <<nextPos, nextTrade>>
  /\ CarryNext

CarryClosesLeg ==
  /\ AtCarry
  /\ CarryFault = "none"
  /\ CarryEntry.intent.action = "close"
  /\ CloseLeg(CarryEntry.intent.pos, CarryRun, CarryOrder,
              NextSeqOf(CarryEntry), CarryEntry.reason)
  /\ pending' = Shrunk(CarryEntry.trade, CarryEntry.pos)
  /\ UNCHANGED <<nextPos, nextTrade>>
  /\ CarryNext

CarryDone ==
  /\ pc = "carry"
  /\ k > Len(carryGroups)
  /\ pc' = "walk"
  /\ k' = 1
  /\ UNCHANGED <<call, quoted, cmds, exitsEnd, onEndStart, submitIds, outFills,
                 carryGroups, fillGroups, error, engineVars>>

-----------------------------------------------------------------------------
(* The command walk: every command, in order, with its fill group.         *)

AtWalk      == pc = "walk" /\ k <= Len(cmds)
Walking     == AtWalk /\ IsSubmission(cmds[k])
WalkIntent  == cmds[k].intent
WalkOrder   == submitIds[Ordinal(k)]
\* The group is this command's only if it carries its index.
WalkCount   == IF gi <= Len(fillGroups) /\ fillGroups[gi].cmd = k
                 THEN fillGroups[gi].count ELSE 0
WalkRun     == SubSeq(outFills, cursor + 1, cursor + WalkCount)
WalkReason  == IF WalkIntent.action = "open" THEN "none" ELSE ReasonFor(k)

\* Mutant: the withdrawn order stays in the registry.
MutRegistryKeeps == pending

\* A Cancel or the replaced side of a Replace leaves the registry, if this
\* step's refresh did not consume it first.
AfterCancel == IF IsLifecycle(cmds[k]) THEN Drop(pending, cmds[k].order)
                ELSE pending
NowWithdrawn == IF IsLifecycle(cmds[k]) /\ cmds[k].order \in DOMAIN pending
                  THEN withdrawn \cup {cmds[k].order} ELSE withdrawn

\* Mutant: each open of a step takes the counter's trade.
MutTradePerOpen == nextTrade

\* One trade per step's opens, minted by the first of them.
OpenTrade  == IF stepTrade = 0 THEN nextTrade ELSE stepTrade
MintTrade  == /\ stepTrade' = OpenTrade
              /\ nextTrade' = IF stepTrade = 0 THEN nextTrade + 1 ELSE nextTrade

WalkFault ==
  LET q == TotalQty(WalkRun) IN
  IF Ordinal(k) > Len(submitIds) THEN "under_cover"
  ELSE IF WalkCount = 0
    THEN IF WalkIntent.kind = "gtc" THEN "none" ELSE "unfilled"
  ELSE IF cursor + WalkCount > Len(outFills) THEN "uncorrelated"
  ELSE IF q \notin Quantities THEN "quantity_overflow"
  ELSE IF WalkIntent.action = "close" THEN CloseFault(WalkIntent.pos, q)
  ELSE "none"

\* Mutants: the entry forgets the leg its order opened; the entry keeps the
\* size submitted instead of the size left.
MutEntryForgetsLeg(rest, trade, p, count) ==
  [intent |-> [WalkIntent EXCEPT !.qty = rest], trade |-> trade, pos |-> 0,
   fillsSoFar |-> count, reason |-> WalkReason]
MutEntryKeepsSize(rest, trade, p, count) ==
  [intent |-> WalkIntent, trade |-> trade, pos |-> p,
   fillsSoFar |-> count, reason |-> WalkReason]

\* register_pending: a resting order's entry, with its remaining size.
RestingEntry(rest, trade, p, count) ==
  [intent |-> [WalkIntent EXCEPT !.qty = rest], trade |-> trade, pos |-> p,
   fillsSoFar |-> count, reason |-> WalkReason]

\* The registry once a filled submission is done: a GTC remainder rests.
WithRemainder(trade, p) ==
  LET rest == WalkIntent.qty - TotalQty(WalkRun) IN
  IF WalkIntent.kind = "gtc" /\ rest > 0
    THEN Put(AfterCancel, WalkOrder, RestingEntry(rest, trade, p, WalkCount))
    ELSE AfterCancel

WalkNext ==
  /\ cursor' = cursor + (IF Walking THEN WalkCount ELSE 0)
  /\ gi' = IF Walking /\ WalkCount # 0 THEN gi + 1 ELSE gi
  /\ k' = k + 1
  /\ submitted' = IF Walking
       THEN Put(submitted, WalkOrder, [intent |-> WalkIntent, call |-> call])
       ELSE submitted
  /\ withdrawn' = NowWithdrawn
  /\ UNCHANGED <<pc, call, quoted, cmds, exitsEnd, onEndStart, submitIds,
                 outFills, carryGroups, fillGroups, error, nextOrder>>

WalkCancel ==
  /\ AtWalk
  /\ ~ Walking
  /\ pending' = AfterCancel
  /\ UNCHANGED <<bookVars, nextPos, nextTrade, stepTrade>>
  /\ WalkNext

WalkFails ==
  /\ Walking
  /\ WalkFault # "none"
  /\ AbortEngine(WalkFault)

\* A GTC order that crossed nothing rests whole.  An open reserves the step's
\* trade now.
WalkRestsOpen ==
  /\ Walking
  /\ WalkFault = "none" /\ WalkCount = 0
  /\ WalkIntent.action = "open"
  /\ MintTrade
  /\ pending' = Put(AfterCancel, WalkOrder,
                    RestingEntry(WalkIntent.qty, OpenTrade, 0, 0))
  /\ UNCHANGED <<bookVars, nextPos>>
  /\ WalkNext

WalkRestsClose ==
  /\ Walking
  /\ WalkFault = "none" /\ WalkCount = 0
  /\ WalkIntent.action = "close"
  /\ pending' = Put(AfterCancel, WalkOrder,
                    RestingEntry(WalkIntent.qty, 0, 0, 0))
  /\ UNCHANGED <<bookVars, nextPos, nextTrade, stepTrade>>
  /\ WalkNext

WalkOpens ==
  /\ Walking
  /\ WalkFault = "none" /\ WalkCount # 0
  /\ WalkIntent.action = "open"
  /\ MintTrade
  /\ OpenLeg(nextPos, OpenTrade, WalkRun, WalkOrder, 0)
  /\ nextPos' = nextPos + 1
  /\ pending' = WithRemainder(OpenTrade, nextPos)
  /\ WalkNext

WalkCloses ==
  /\ Walking
  /\ WalkFault = "none" /\ WalkCount # 0
  /\ WalkIntent.action = "close"
  /\ CloseLeg(WalkIntent.pos, WalkRun, WalkOrder, 0, WalkReason)
  /\ pending' = WithRemainder(0, 0)
  /\ UNCHANGED <<nextPos, nextTrade, stepTrade>>
  /\ WalkNext

\* The final check that the walk consumed every fill and every group.  The
\* startup call settles nothing: step 0 runs next, on the same snapshot.
WalkDone ==
  /\ pc = "walk"
  /\ k > Len(cmds)
  /\ IF cursor # Len(outFills) \/ gi <= Len(fillGroups)
       THEN AbortEngine("uncorrelated")
       ELSE /\ pc' = IF call = 0 THEN "exits" ELSE "settle"
            /\ call' = IF call = 0 THEN 1 ELSE call
            /\ UNCHANGED <<quoted, cmds, exitsEnd, onEndStart, submitIds,
                           outFills, carryGroups, fillGroups, k, error,
                           engineVars>>

-----------------------------------------------------------------------------
\* settle and collect_step: every open leg is marked and has its bundle row.
SettleFault ==
  IF \E p \in DOMAIN inventory : p \notin DOMAIN openLegs THEN "untracked_leg"
  ELSE "none"

Settle ==
  /\ pc = "settle"
  /\ IF SettleFault # "none" THEN AbortEngine(SettleFault)
     ELSE /\ pc' = IF isLast THEN "done" ELSE "advance"
          /\ UNCHANGED <<call, quoted, cmds, exitsEnd, onEndStart, submitIds,
                         outFills, carryGroups, fillGroups, k, error,
                         engineVars>>

\* resolve_mark: an open leg without a quote cannot be marked once it expired.
SettleExpired ==
  /\ pc = "settle"
  /\ \E p \in DOMAIN inventory : inventory[p].contract \notin quoted
  /\ AbortEngine("expired_mark")

\* Mutant: the loop asks the feed for the same step again.
MutSameCall == call

\* feed.next: the next snapshot, with whatever contracts it quotes.
NextCall == call + 1

Advance ==
  /\ pc = "advance"
  /\ call' = NextCall
  /\ quoted' \in SUBSET Contracts
  /\ pc' = "exits"
  /\ UNCHANGED <<cmds, exitsEnd, onEndStart, submitIds, outFills, carryGroups,
                 fillGroups, k, error, engineVars>>

-----------------------------------------------------------------------------
EngineNext ==
  \/ OnStart
  \/ Exits
  \/ OnSnapshot
  \/ OnEnd
  \/ MintIds
  \/ Validate
  \/ CarryFails
  \/ CarryOpensLeg
  \/ CarryExtendsLeg
  \/ CarryClosesLeg
  \/ CarryDone
  \/ WalkCancel
  \/ WalkFails
  \/ WalkRestsOpen
  \/ WalkRestsClose
  \/ WalkOpens
  \/ WalkCloses
  \/ WalkDone
  \/ Settle
  \/ SettleExpired
  \/ Advance
=============================================================================
