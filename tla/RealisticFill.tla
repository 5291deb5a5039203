--------------------------- MODULE RealisticFill ---------------------------
(***************************************************************************)
(* The realistic fill model (src/execution/realistic.rs), one call of      *)
(* ExecutionModel::fill per step, in the order the code runs it:           *)
(*   e1  RefreshBooks, then the reseed of every ladder, whose orders may   *)
(*       cross resting strategy orders (the carry fills);                  *)
(*   e2  phase 1, the cancel half of every Cancel and Replace; phase 2,    *)
(*       every Submit and replacement, in command order.                   *)
(*                                                                         *)
(* "books" stands for the per-contract order books of the external crate   *)
(* option-chain-orderbook.  Prices are abstracted: which resting order a   *)
(* ladder crosses, and how many levels a taker walks, are choices bounded  *)
(* by what rests in the book.                                              *)
(***************************************************************************)
EXTENDS Domain, SequencesExt

CONSTANT MaxLevels   \* bound: price levels one taker order walks

ASSUME LevelsAssumption == MaxLevels \in Nat \ {0}

VARIABLES
  mirror,      \* resting_strategy: RestingStrategyOrder by book sequence id
  orderIndex,  \* order_index: book sequence id by engine OrderId
  liveOrders,  \* live_orders: count of resting orders by contract
  seedIds,     \* resting_seed_ids: the ladders to cancel, by contract
  nextSeq,     \* next_strategy_id
  books        \* the leaf books: resting ladders and resting strategy orders

fillVars == <<mirror, orderIndex, liveOrders, seedIds, nextSeq, books>>

\* A ladder is one side of one refresh of a contract's book.
Ladders       == (0..(FinalStep + 1)) \X Sides
RestingOrders == [order : OrderIds, contract : Contracts, side : Sides,
                  remaining : Quantities, firstFillDone : BOOLEAN]
BookOrders    == [qty : Quantities, side : Sides]
EmptyBook     == [seeds |-> {}, orders |-> <<>>]

FillTypeOK ==
  /\ IsMap(mirror, Nat, RestingOrders)
  /\ IsMap(orderIndex, OrderIds, Nat)
  /\ IsMap(liveOrders, Contracts, Nat \ {0})
  /\ IsMap(seedIds, Contracts, SUBSET Ladders)
  /\ nextSeq \in Nat
  /\ DOMAIN books \subseteq Contracts
  /\ \A c \in DOMAIN books : /\ books[c].seeds \subseteq Ladders
                             /\ IsMap(books[c].orders, Nat, BookOrders)

FillInit ==
  /\ mirror = <<>>
  /\ orderIndex = <<>>
  /\ liveOrders = <<>>
  /\ seedIds = <<>>
  /\ nextSeq = 1
  /\ books = <<>>

AbortFill(cause) == AbortSeam(cause) /\ UNCHANGED fillVars

-----------------------------------------------------------------------------
\* leaf_book_in: the contract's book, constructed on first use.
LeafBook(c) == IF c \in DOMAIN books THEN books[c] ELSE EmptyBook

HasLiveOrder(c) == c \in DOMAIN liveOrders

\* Mutant: a count that reaches zero stays in the index.
MutReleaseKeepsZero(live, c) == [live EXCEPT ![c] = @ - 1]

\* release_live_order: decrement the contract's count, drop it at zero.
Release(live, c) == IF live[c] = 1 THEN Drop(live, c)
                    ELSE [live EXCEPT ![c] = @ - 1]

\* Mutant: a contract's second resting order is not counted.
MutTrackOnce(live, c) == Put(live, c, 1)

Track(live, c) == Put(live, c, IF c \in DOMAIN live THEN live[c] + 1 ELSE 1)

\* Mutant: the ladders of the last refresh stay in the book.
MutSeedStays(c) == books[c]

\* cancel_stale_seed: the ladders recorded for a contract leave its book.
WithoutStaleSeed(c) ==
  IF c \in DOMAIN seedIds
    THEN [books[c] EXCEPT !.seeds = @ \ seedIds[c]]
    ELSE books[c]

\* A match or a cancel takes an order, or part of it, out of a book.
Matched(orders, seq, q) ==
  IF orders[seq].qty = q THEN Drop(orders, seq)
  ELSE [orders EXCEPT ![seq].qty = @ - q]

-----------------------------------------------------------------------------
\* Mutant: eviction ignores the live orders.
MutKeptIfQuoted(c) == c \in quoted

\* The books a refresh keeps: quoted contracts and those a live order rests in.
Kept(c) == c \in quoted \/ HasLiveOrder(c)

\* refresh_books up to the reseed: cancel the stale seed, evict departed books.
RefreshBooks ==
  /\ pc = "refresh"
  /\ outFills' = <<>>
  /\ carryGroups' = <<>>
  /\ fillGroups' = <<>>
  /\ books' = [c \in {d \in DOMAIN books : Kept(d)} |-> WithoutStaleSeed(c)]
  /\ seedIds' = [c \in {d \in DOMAIN seedIds : Kept(d)} |-> {}]
  /\ pc' = "reseed"
  /\ k' = 1
  /\ UNCHANGED <<call, quoted, cmds, exitsEnd, onEndStart, submitIds, error,
                 mirror, orderIndex, liveOrders, nextSeq>>

\* The reseed plan: ascending contract, bid before ask.  A bid ladder buys.
LadderCount    == 2 * NumContracts
LadderContract == (k + 1) \div 2
LadderSide     == IF k % 2 = 1 THEN "Long" ELSE "Short"

\* Price-time priority: a maker this ladder already hit and did not exhaust
\* is the next one it hits.
AtFront(seq) ==
  LET last == carryGroups[Len(carryGroups)].order
  IN  (carryGroups # <<>> /\ last \in DOMAIN orderIndex) =>
        LET front == orderIndex[last] IN
        (mirror[front].contract = LadderContract
           /\ mirror[front].side # LadderSide) => seq = front

\* Mutant: the groups are listed in another order than their fills.
MutCoalesceNewestFirst(groups, o) == <<[order |-> o, count |-> 1]>> \o groups

\* The carry groups after one more fill of order o: contiguous fills of one
\* order coalesce.
Coalesce(groups, o) ==
  IF groups # <<>> /\ groups[Len(groups)].order = o
    THEN [groups EXCEPT ![Len(groups)].count = @ + 1]
    ELSE Append(groups, [order |-> o, count |-> 1])

ChargeOf(firstFillDone) == IF firstFillDone THEN "later" ELSE "first"

\* What the mirror refuses of a crossing: more than it tracks, or an order the
\* live-order index does not count.
CaptureFault(seq, q) ==
  IF q > mirror[seq].remaining THEN "refresh_desync"
  ELSE IF q = mirror[seq].remaining /\ ~ HasLiveOrder(mirror[seq].contract)
    THEN "live_desync"
  ELSE "none"

\* capture_refresh_fill: a fill of the resting strategy order seq.
CaptureRefreshFill(seq, q) ==
  LET meta      == mirror[seq]
      exhausted == meta.remaining = q
  IN  /\ outFills' = Append(outFills,
           [contract |-> LadderContract, side |-> meta.side, qty |-> q,
            charge |-> ChargeOf(meta.firstFillDone), owner |-> meta.order])
      /\ carryGroups' = Coalesce(carryGroups, meta.order)
      /\ mirror' = IF exhausted THEN Drop(mirror, seq)
                   ELSE Put(mirror, seq, [meta EXCEPT !.remaining = @ - q,
                                                      !.firstFillDone = TRUE])
      /\ liveOrders' = IF exhausted THEN Release(liveOrders, meta.contract)
                       ELSE liveOrders
      /\ orderIndex' = IF exhausted THEN Drop(orderIndex, meta.order)
                       ELSE orderIndex

\* An order of the current ladder crosses q contracts of the resting order seq.
\* A maker that is no tracked strategy order leaves no fill.
ReseedCross(seq, q) ==
  /\ pc = "reseed"
  /\ k <= LadderCount
  /\ LadderContract \in quoted
  /\ seq \in DOMAIN LeafBook(LadderContract).orders
  /\ LeafBook(LadderContract).orders[seq].side # LadderSide
  /\ q <= LeafBook(LadderContract).orders[seq].qty
  /\ AtFront(seq)
  /\ IF seq \in DOMAIN mirror /\ CaptureFault(seq, q) # "none"
       THEN AbortFill(CaptureFault(seq, q))
       ELSE /\ books' = [books EXCEPT
                           ![LadderContract].orders = Matched(@, seq, q)]
            /\ IF seq \in DOMAIN mirror
                 THEN CaptureRefreshFill(seq, q)
                 ELSE UNCHANGED <<outFills, carryGroups, mirror, liveOrders,
                                  orderIndex>>
            /\ UNCHANGED <<pc, call, quoted, cmds, exitsEnd, onEndStart,
                           submitIds, fillGroups, k, error, seedIds, nextSeq>>

\* Did the current ladder trade?  Only then can it rest nothing: an order of a
\* ladder has a positive size.
LadderTraded ==
  /\ outFills # <<>>
  /\ outFills[Len(outFills)].contract = LadderContract
  /\ outFills[Len(outFills)].side # LadderSide

\* What is left of the ladder rests and is recorded for the next refresh; a
\* contract the snapshot does not quote has no ladder.
ReseedNext(rests) ==
  /\ pc = "reseed"
  /\ k <= LadderCount
  /\ LadderContract \in quoted \/ ~ rests
  /\ rests \/ LadderContract \notin quoted \/ LadderTraded
  /\ LET c      == LadderContract
         ladder == {<<call, LadderSide>>}
         known  == IF c \in DOMAIN seedIds THEN seedIds[c] ELSE {}
     IN  /\ books' = IF c \in quoted
                       THEN Put(books, c, [LeafBook(c) EXCEPT
                              !.seeds = IF rests THEN @ \cup ladder ELSE @])
                       ELSE books
         /\ seedIds' = IF rests THEN Put(seedIds, c, known \cup ladder)
                       ELSE seedIds
  /\ k' = k + 1
  /\ UNCHANGED <<pc, call, quoted, cmds, exitsEnd, onEndStart, submitIds,
                 outFills, carryGroups, fillGroups, error, mirror, orderIndex,
                 liveOrders, nextSeq>>

ReseedDone ==
  /\ pc = "reseed"
  /\ k > LadderCount
  /\ pc' = "lifecycle"
  /\ k' = 1
  /\ UNCHANGED <<call, quoted, cmds, exitsEnd, onEndStart, submitIds,
                 outFills, carryGroups, fillGroups, error, fillVars>>

-----------------------------------------------------------------------------
\* Mutant: phase 1 forgets the cancel half of a Replace.
MutOnlyCancels(cmd) == cmd.type = "cancel"

\* Does phase 1 apply this command's cancel half?
CancelsResting(cmd) == IsLifecycle(cmd)

\* cancel_resting: out of its book, the mirror, the live index and the bridge.
\* An order this step's refresh consumed is no longer indexed: nothing happens.
CancelResting(order) ==
  IF order \notin DOMAIN orderIndex THEN UNCHANGED fillVars
  ELSE LET seq == orderIndex[order]
           c   == mirror[seq].contract
       IN  /\ books' = [books EXCEPT ![c].orders = Drop(@, seq)]
           /\ mirror' = Drop(mirror, seq)
           /\ liveOrders' = Release(liveOrders, c)
           /\ orderIndex' = Drop(orderIndex, order)
           /\ UNCHANGED <<seedIds, nextSeq>>

\* release_live_order refuses a tracked order the index does not count.
Uncounted(order) ==
  /\ order \in DOMAIN orderIndex
  /\ ~ HasLiveOrder(mirror[orderIndex[order]].contract)

\* Phase 1 of fill: one command.
LifecycleOne ==
  /\ pc = "lifecycle"
  /\ k <= Len(cmds)
  /\ IF CancelsResting(cmds[k]) /\ Uncounted(cmds[k].order)
       THEN AbortFill("live_desync")
       ELSE /\ IF CancelsResting(cmds[k]) THEN CancelResting(cmds[k].order)
               ELSE UNCHANGED fillVars
            /\ k' = k + 1
            /\ UNCHANGED <<pc, call, quoted, cmds, exitsEnd, onEndStart,
                           submitIds, outFills, carryGroups, fillGroups, error>>

LifecycleDone ==
  /\ pc = "lifecycle"
  /\ k > Len(cmds)
  /\ pc' = "submit"
  /\ k' = 1
  /\ UNCHANGED <<call, quoted, cmds, exitsEnd, onEndStart, submitIds,
                 outFills, carryGroups, fillGroups, error, fillVars>>

-----------------------------------------------------------------------------
\* The level quantities a taker may execute.
Walks == BoundedSeq(Quantities, MaxLevels)

\* Depth a taker of this side can hit, and the strategy orders in its way.
HasDepth(c, side)  == \E ladder \in LeafBook(c).seeds : ladder[2] # side
Makers(c, side)    == {seq \in DOMAIN LeafBook(c).orders :
                         /\ LeafBook(c).orders[seq].side # side
                         /\ seq \in DOMAIN mirror}

\* One fill per level; the first level carries the order's fee.
LevelFills(intent, id, levels) ==
  [i \in DOMAIN levels |->
     [contract |-> intent.contract, side |-> intent.side, qty |-> levels[i],
      charge |-> IF i = 1 THEN "first" ELSE "later", owner |-> id]]

\* Mutant: the remainder of a partly filled order pays the order fee again.
MutFeeForgotten(intent, id, rest) ==
  [order |-> id, contract |-> intent.contract, side |-> intent.side,
   remaining |-> rest, firstFillDone |-> FALSE]

\* The mirror entry of a GTC remainder.
RestingMeta(intent, id, rest) ==
  [order |-> id, contract |-> intent.contract, side |-> intent.side,
   remaining |-> rest, firstFillDone |-> rest < intent.qty]

\* fill_submit: the levels execute and leave rest contracts; a GTC remainder
\* rests and is tracked, an IOC remainder is cancelled.
FillSubmit(intent, id, levels, rest) ==
  LET c     == intent.contract
      rests == intent.kind = "gtc" /\ rest > 0
  IN  /\ SumOver(levels, DOMAIN levels) + rest = intent.qty
      /\ levels = <<>> \/ HasDepth(c, intent.side)
      /\ nextSeq' = nextSeq + 1
      /\ outFills' = outFills \o LevelFills(intent, id, levels)
      /\ fillGroups' = IF levels = <<>> THEN fillGroups
                       ELSE Append(fillGroups,
                                   [cmd |-> k, count |-> Len(levels)])
      /\ books' = Put(books, c,
           IF rests THEN [LeafBook(c) EXCEPT !.orders =
                            Put(@, nextSeq, [qty |-> rest, side |-> intent.side])]
           ELSE LeafBook(c))
      /\ mirror' = IF rests THEN Put(mirror, nextSeq,
                                     RestingMeta(intent, id, rest))
                   ELSE mirror
      /\ orderIndex' = IF rests THEN Put(orderIndex, id, nextSeq)
                       ELSE orderIndex
      /\ liveOrders' = IF rests THEN Track(liveOrders, c) ELSE liveOrders
      /\ UNCHANGED seedIds

\* Phase 2 of fill: the cursor is on a Submit or a replacement, whose id is
\* the next of the pre-minted ones.
AtSubmission == /\ pc = "submit"
                /\ k <= Len(cmds)
                /\ IsSubmission(cmds[k])

\* No id was minted for it, or a marketable intent has no touch to price off.
SubmitFault ==
  IF Ordinal(k) > Len(submitIds) THEN "under_cover"
  ELSE IF cmds[k].intent.kind = "market" /\ cmds[k].intent.contract \notin quoted
    THEN "unquoted"
  ELSE "none"

SubmitOne(levels, rest) ==
  /\ AtSubmission
  /\ SubmitFault = "none"
  /\ FillSubmit(cmds[k].intent, submitIds[Ordinal(k)], levels, rest)
  /\ k' = k + 1
  /\ UNCHANGED <<pc, call, quoted, cmds, exitsEnd, onEndStart, submitIds,
                 carryGroups, error>>

SubmitFails ==
  /\ AtSubmission
  /\ SubmitFault # "none"
  /\ AbortFill(SubmitFault)

\* The taker traded with a resting strategy order.
SubmitSelfCross ==
  /\ AtSubmission
  /\ SubmitFault = "none"
  /\ Makers(cmds[k].intent.contract, cmds[k].intent.side) # {}
  /\ AbortFill("self_cross")

SubmitSkip ==
  /\ pc = "submit"
  /\ k <= Len(cmds)
  /\ ~ IsSubmission(cmds[k])
  /\ k' = k + 1
  /\ UNCHANGED <<pc, call, quoted, cmds, exitsEnd, onEndStart, submitIds,
                 outFills, carryGroups, fillGroups, error, fillVars>>

SubmitDone ==
  /\ pc = "submit"
  /\ k > Len(cmds)
  /\ pc' = "validate"
  /\ UNCHANGED <<call, quoted, cmds, exitsEnd, onEndStart, submitIds,
                 outFills, carryGroups, fillGroups, k, error, fillVars>>

-----------------------------------------------------------------------------
\* One call of ExecutionModel::fill.
FillNext ==
  \/ RefreshBooks
  \/ \E seq \in DOMAIN mirror \cup UNION {DOMAIN books[c].orders :
                                            c \in DOMAIN books},
        q \in Quantities : ReseedCross(seq, q)
  \/ \E rests \in BOOLEAN : ReseedNext(rests)
  \/ ReseedDone
  \/ LifecycleOne
  \/ LifecycleDone
  \/ \E levels \in Walks, rest \in 0..MaxQty : SubmitOne(levels, rest)
  \/ SubmitFails
  \/ SubmitSelfCross
  \/ SubmitSkip
  \/ SubmitDone
=============================================================================
