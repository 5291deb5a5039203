----------------------------- MODULE ReplayProofs -----------------------------
(***************************************************************************)
(* Replay, for every value of the constants: type correctness, the lemmas  *)
(* on what the checks of each handler establish, and the books of the fill *)
(* model.  The mirror, the leaf books and the two indexes list the same    *)
(* resting orders (MirrorMatchesBooks), no ladder of an earlier snapshot   *)
(* is left (NoStaleDepth), and none of the model's own desync errors is    *)
(* ever returned.                                                          *)
(*                                                                         *)
(* MirrorMatchesBooks is not inductive.  An order that comes to rest must  *)
(* find its sequence id and its engine id unused, and the second is the    *)
(* engine's doing: ids are minted in ascending order ahead of the call and *)
(* dealt out by counting submissions (Dealt).  NoStaleDepth needs that the *)
(* ladders on record are all there are (SeedsKnown).                       *)
(*                                                                         *)
(* The second half is of the seam between the two: RegistryMatchesMirror.  *)
(***************************************************************************)
EXTENDS Replay, Sums

-----------------------------------------------------------------------------
(* Maps.                                                                   *)

\* A map with one more entry is a map.
LEMMA PutIsMap ==
  ASSUME NEW S, NEW T, NEW f, IsMap(f, S, T), NEW key \in S, NEW value \in T
  PROVE  IsMap(Put(f, key, value), S, T)
  BY DEF IsMap, Put

\* A map with an entry removed is a map.
LEMMA DropIsMap ==
  ASSUME NEW S, NEW T, NEW f, IsMap(f, S, T), NEW key
  PROVE  IsMap(Drop(f, key), S, T)
  BY DEF IsMap, Drop

\* A map with an entry replaced is a map.
LEMMA UpdateIsMap ==
  ASSUME NEW S, NEW T, NEW f, IsMap(f, S, T), NEW key, NEW value \in T
  PROVE  IsMap([f EXCEPT ![key] = value], S, T)
  BY DEF IsMap

-----------------------------------------------------------------------------
(* Command queues.                                                         *)

\* The submissions of a queue can be counted.
LEMMA SubmissionsNat ==
  ASSUME NEW queue \in Seq(Commands)
  PROVE  Submissions(queue) \in Nat
<1>1. IsFiniteSet(DOMAIN queue)
  BY FS_Interval
<1>2. IsFiniteSet({j \in DOMAIN queue : IsSubmission(queue[j])})
  BY <1>1, FS_Subset
<1>3. QED
  BY <1>2, FS_CardinalityType DEF Submissions

\* A submission has an ordinal, counted from 1.
LEMMA OrdinalPositive ==
  ASSUME SeamTypeOK, k \in 1..Len(cmds), IsSubmission(cmds[k])
  PROVE  Ordinal(k) \in Nat \ {0}
<1> DEFINE S == {j \in 1..k : IsSubmission(cmds[j])}
<1>1. IsFiniteSet(S)
  <2>1. IsFiniteSet(1..k)
    BY FS_Interval DEF SeamTypeOK
  <2>2. S \subseteq 1..k
    OBVIOUS
  <2>3. QED
    BY <2>1, <2>2, FS_Subset
<1>2. Cardinality(S) \in Nat
  BY <1>1, FS_CardinalityType
<1>3. Cardinality(S) # 0
  <2>1. k \in S
    BY DEF SeamTypeOK
  <2>2. QED
    BY <1>1, <2>1, FS_EmptySet
<1>4. QED
  BY <1>2, <1>3 DEF Ordinal

-----------------------------------------------------------------------------
(* Runs of fills and the bookkeeping they drive.                           *)

\* A run the correlation channels cut out of the produced fills is made of them.
LEMMA RunType ==
  ASSUME outFills \in Seq(Fills), NEW i \in Nat, NEW n \in Nat,
         i + n <= Len(outFills)
  PROVE  /\ SubSeq(outFills, i + 1, i + n) \in Seq(Fills)
         /\ Len(SubSeq(outFills, i + 1, i + n)) = n
  OBVIOUS

\* The records of a run are records.
LEMMA RecordsOfType ==
  ASSUME records \in Seq(Records), NEW run \in Seq(Fills),
         NEW order \in OrderIds, NEW action \in {"open", "close"},
         NEW trade \in Nat, NEW p \in Nat, NEW first \in Nat
  PROVE  records \o RecordsOf(run, order, action, trade, p, first)
           \in Seq(Records)
<1>1. \A i \in DOMAIN run :
        [order |-> order, seq |-> first + i - 1, trade |-> trade, pos |-> p,
         action |-> action, fill |-> run[i]] \in Records
  BY DEF Records
<1>2. RecordsOf(run, order, action, trade, p, first) \in Seq(Records)
  BY <1>1 DEF RecordsOf
<1>3. QED
  BY <1>2

\* Opening a leg keeps the books well typed.
LEMMA OpenLegType ==
  ASSUME BooksTypeOK, NEW run \in Seq(Fills), Len(run) > 0,
         TotalQty(run) \in Quantities, NEW order \in OrderIds, NEW trade \in Nat,
         NEW p \in Nat, NEW first \in Nat,
         OpenLeg(p, trade, run, order, first)
  PROVE  BooksTypeOK'
<1>1. [contract |-> run[1].contract, side |-> run[1].side,
       qty |-> TotalQty(run)] \in Legs
  <2>1. run[1] \in Fills
    OBVIOUS
  <2>2. run[1].contract \in Contracts /\ run[1].side \in Sides
    BY <2>1 DEF Fills
  <2>3. QED
    BY <2>2 DEF Legs
<1>2. IsMap(inventory, Nat, Legs)'
  BY <1>1, PutIsMap DEF BooksTypeOK, OpenLeg
<1>3. IsMap(tradeOpen, Nat, LoggedLegs)'
  <2>1. [trade |-> trade, remaining |-> TotalQty(run)] \in LoggedLegs
    BY DEF LoggedLegs
  <2>2. QED
    BY <2>1, PutIsMap DEF BooksTypeOK, OpenLeg
<1>4. IsMap(openLegs, Nat, Nat)'
  BY PutIsMap DEF BooksTypeOK, OpenLeg
<1>5. (records \in Seq(Records))'
  BY RecordsOfType DEF BooksTypeOK, OpenLeg
<1>6. QED
  BY <1>2, <1>3, <1>4, <1>5 DEF BooksTypeOK, OpenLeg

\* Extending a leg the books hold keeps them well typed.
LEMMA ExtendLegType ==
  ASSUME BooksTypeOK, NEW run \in Seq(Fills),
         TotalQty(run) \in Quantities, NEW order \in OrderIds, NEW trade \in Nat,
         NEW p \in Nat, NEW first \in Nat,
         ExtendFault(p, TotalQty(run)) = "none",
         ExtendLeg(p, trade, run, order, first)
  PROVE  BooksTypeOK'
<1>1. /\ p \in DOMAIN inventory /\ p \in DOMAIN tradeOpen
      /\ inventory[p].qty + TotalQty(run) \in Quantities
      /\ tradeOpen[p].remaining + TotalQty(run) \in Quantities
  BY DEF ExtendFault
<1>2. IsMap(inventory, Nat, Legs)'
  <2>1. [inventory[p] EXCEPT !.qty = @ + TotalQty(run)] \in Legs
    BY <1>1 DEF BooksTypeOK, IsMap, Legs
  <2>2. QED
    BY <2>1, UpdateIsMap DEF BooksTypeOK, ExtendLeg
<1>3. IsMap(tradeOpen, Nat, LoggedLegs)'
  <2>1. [tradeOpen[p] EXCEPT !.remaining = @ + TotalQty(run)] \in LoggedLegs
    BY <1>1 DEF BooksTypeOK, IsMap, LoggedLegs
  <2>2. QED
    BY <2>1, UpdateIsMap DEF BooksTypeOK, ExtendLeg, LogExtend
<1>4. IsMap(openLegs, Nat, Nat)'
  BY PutIsMap DEF BooksTypeOK, ExtendLeg
<1>5. (records \in Seq(Records))'
  BY RecordsOfType DEF BooksTypeOK, ExtendLeg
<1>6. QED
  BY <1>2, <1>3, <1>4, <1>5 DEF BooksTypeOK, ExtendLeg

\* Closing contracts of a leg the books hold keeps them well typed.
LEMMA CloseLegType ==
  ASSUME BooksTypeOK, DomainAssumption, NEW run \in Seq(Fills),
         TotalQty(run) \in Quantities, NEW order \in OrderIds, NEW p \in Nat,
         NEW first \in Nat, NEW reason \in Reasons,
         CloseFault(p, TotalQty(run)) = "none",
         CloseLeg(p, run, order, first, reason)
  PROVE  BooksTypeOK'
<1> DEFINE q == TotalQty(run)
<1>1. /\ p \in DOMAIN inventory /\ p \in DOMAIN tradeOpen
      /\ p \in DOMAIN openLegs
      /\ ~ (q > inventory[p].qty)
  BY DEF CloseFault
<1>2. /\ inventory[p] \in Legs /\ tradeOpen[p] \in LoggedLegs
      /\ openLegs[p] \in Nat
  BY <1>1 DEF BooksTypeOK, IsMap
<1>3. IsMap(inventory, Nat, Legs)'
  <2>1. CASE FullClose(p, q)
    BY <2>1, DropIsMap DEF BooksTypeOK, CloseLeg
  <2>2. CASE ~ FullClose(p, q)
    <3>1. [inventory[p] EXCEPT !.qty = @ - q] \in Legs
      BY <1>1, <1>2, <2>2, DomainAssumption
      DEF Legs, FullClose, Quantities
    <3>2. QED
      BY <2>2, <3>1, UpdateIsMap DEF BooksTypeOK, CloseLeg
  <2>3. QED
    BY <2>1, <2>2
<1>4. IsMap(tradeOpen, Nat, LoggedLegs)'
  <2>1. CASE q >= tradeOpen[p].remaining
    BY <2>1, DropIsMap DEF BooksTypeOK, CloseLeg
  <2>2. CASE ~ (q >= tradeOpen[p].remaining)
    <3>1. tradeOpen[p] \in LoggedLegs /\ tradeOpen[p].remaining \in Quantities
      BY <1>2 DEF LoggedLegs
    <3>2. tradeOpen[p].remaining - q \in Quantities
      BY <2>2, <3>1, DomainAssumption DEF Quantities
    <3>3. [tradeOpen[p] EXCEPT !.remaining = @ - q] \in LoggedLegs
      BY <3>1, <3>2 DEF LoggedLegs
    <3>4. QED
      BY <2>2, <3>3, UpdateIsMap DEF BooksTypeOK, CloseLeg
  <2>3. QED
    BY <2>1, <2>2
<1>5. (closedTrades \in Seq(ClosedTrades))'
  <2>1. [pos |-> p, trade |-> tradeOpen[p].trade, qty |-> q, reason |-> reason]
          \in ClosedTrades
    BY <1>2 DEF LoggedLegs, ClosedTrades
  <2>2. QED
    BY <2>1 DEF BooksTypeOK, CloseLeg
<1>6. IsMap(openLegs, Nat, Nat)'
  BY DropIsMap DEF BooksTypeOK, CloseLeg
<1>7. (records \in Seq(Records))'
  BY <1>2, RecordsOfType DEF BooksTypeOK, CloseLeg
<1>8. (terminalRows \in Seq(TerminalRows))'
  <2>1. [pos |-> p, trade |-> openLegs[p], qty |-> q, reason |-> reason]
          \in TerminalRows
    BY <1>2 DEF TerminalRows
  <2>2. QED
    BY <2>1 DEF BooksTypeOK, CloseLeg
<1>9. QED
  BY <1>3, <1>4, <1>5, <1>6, <1>7, <1>8 DEF BooksTypeOK

-----------------------------------------------------------------------------
(* Type correctness.                                                       *)

\* TypeOK, and what bounds the step counter: only a step that is not the last
\* asks the feed for another snapshot.
TypeInv == TypeOK /\ (pc = "advance" => ~ isLast)

\* A bounded sequence over some commands is a command queue.
LEMMA QueueType ==
  ASSUME NEW S \in SUBSET Commands, NEW n \in Nat, NEW queue \in BoundedSeq(S, n)
  PROVE  queue \in Seq(Commands)
  BY DEF BoundedSeq, SeqOf

\* The intents a strategy may form are intents.
LEMMA OpenIntentsType == OpenIntents \subseteq Intents
  BY StrategyAssumption DEF OpenIntents, Intents

\* So is the close of a leg that is held, at any size and of any kind.
LEMMA CloseIntentType ==
  ASSUME EngineTypeOK, NEW p \in DOMAIN inventory, NEW q \in Quantities,
         NEW kind \in Kinds
  PROVE  CloseIntent(p, q, kind) \in Intents
<1>1. inventory[p] \in Legs /\ p \in Nat
  BY DEF EngineTypeOK, BooksTypeOK, IsMap
<1>2. QED
  BY <1>1 DEF CloseIntent, Intents, Legs, Opposite, Sides

\* Submitting an intent is a command.
LEMMA SubmitType ==
  ASSUME NEW i \in Intents PROVE Submit(i) \in Commands
  BY DEF Submit, Commands

\* Whatever on_snapshot may append is a command.
LEMMA OfferedType ==
  ASSUME EngineTypeOK
  PROVE  Offered \subseteq Commands
<1>1. OwnIntents \subseteq Intents
  BY OpenIntentsType, CloseIntentType, StrategyAssumption
  DEF OwnIntents, CloseIntents
<1>2. SeenOrders \subseteq OrderIds
  BY DomainAssumption DEF SeenOrders, OrderIds, EngineTypeOK
<1>3. QED
  BY <1>1, <1>2 DEF Offered, Submit, Cancel, Replacing, Commands

\* An abort with a cause of the list leaves the seam well typed.
LEMMA AbortType ==
  ASSUME TypeInv, NEW cause \in Errors, AbortEngine(cause), UNCHANGED fillVars
  PROVE  TypeInv'
  BY DEF TypeInv, TypeOK, AbortEngine, AbortSeam, SeamTypeOK, EngineTypeOK,
         BooksTypeOK, FillTypeOK, engineVars, bookVars, idVars, walkVars,
         ghosts, fillVars, Phases, isLast

\* The callbacks: they only build the queue.
LEMMA StrategyType ==
  ASSUME TypeInv, OnStart \/ Exits \/ OnSnapshot \/ OnEnd, UNCHANGED fillVars
  PROVE  TypeInv'
<1> USE DEF Phases
<1>1. ASSUME cmds' \in Seq(Commands), exitsEnd' \in Nat, onEndStart' \in Nat,
             pc' \in Phases \ {"advance"},
             UNCHANGED <<call, quoted, submitIds, outFills, carryGroups,
                         fillGroups, k, error, engineVars>>
      PROVE  TypeInv'
  BY <1>1 DEF TypeInv, TypeOK, SeamTypeOK, EngineTypeOK, BooksTypeOK,
              FillTypeOK, engineVars, bookVars, idVars, walkVars, ghosts,
              fillVars
<1>2. CASE OnStart
  <2>1. PICK queue \in Queues({Submit(i) : i \in OpenIntents}) :
          cmds' = queue /\ onEndStart' = Len(queue)
    BY <1>2 DEF OnStart
  <2>2. {Submit(i) : i \in OpenIntents} \subseteq Commands
    BY OpenIntentsType, SubmitType
  <2>3. queue \in Seq(Commands)
    BY <2>1, <2>2, QueueType, StrategyAssumption DEF Queues
  <2>4. QED
    BY <1>1, <1>2, <2>1, <2>3 DEF OnStart
<1>3. CASE Exits
  <2>0. PICK triggered \in SUBSET DOMAIN inventory :
          \E legs \in InOrder(triggered) :
            /\ cmds' = [i \in DOMAIN legs |-> CloseCommand(legs[i])]
            /\ exitsEnd' = Len(legs)
    BY <1>3 DEF Exits
  <2>1. PICK legs \in InOrder(triggered) :
          /\ cmds' = [i \in DOMAIN legs |-> CloseCommand(legs[i])]
          /\ exitsEnd' = Len(legs)
    BY <2>0
  <2>2. legs \in Seq(DOMAIN inventory)
    BY <2>1, DomainAssumption DEF InOrder, BoundedSeq, SeqOf
  <2>3. \A p \in DOMAIN inventory : CloseCommand(p) \in Commands
    <3>1. SUFFICES ASSUME NEW p \in DOMAIN inventory
                   PROVE  CloseCommand(p) \in Commands
      OBVIOUS
    <3>2. inventory[p].qty \in Quantities
      BY DEF TypeInv, TypeOK, EngineTypeOK, BooksTypeOK, IsMap, Legs
    <3>3. QED
      BY <3>2, CloseIntentType, SubmitType
      DEF CloseCommand, Kinds, TypeInv, TypeOK
  <2>4. cmds' \in Seq(Commands)
    BY <2>1, <2>2, <2>3
  <2>5. onEndStart' \in Nat /\ exitsEnd' \in Nat
    BY <1>3, <2>1, <2>2 DEF Exits, TypeInv, TypeOK, SeamTypeOK
  <2>6. QED
    BY <1>1, <1>3, <2>4, <2>5 DEF Exits
<1>4. CASE OnSnapshot
  <2>1. PICK queue \in Queues(Offered) : cmds' = cmds \o queue
    BY <1>4 DEF OnSnapshot
  <2>2. queue \in Seq(Commands)
    BY OfferedType, QueueType, StrategyAssumption DEF Queues, TypeInv, TypeOK
  <2>3. cmds' \in Seq(Commands)
    BY <2>1, <2>2 DEF TypeInv, TypeOK, SeamTypeOK
  <2>4. onEndStart' \in Nat /\ exitsEnd' \in Nat
    BY <1>4, <2>3 DEF OnSnapshot, TypeInv, TypeOK, SeamTypeOK
  <2>5. pc' \in {"end", "mint"}
    BY <1>4 DEF OnSnapshot
  <2>6. QED
    BY <1>1, <1>4, <2>3, <2>4, <2>5 DEF OnSnapshot
<1>5. CASE OnEnd
  <2>1. PICK tail \in CloseAll \cup {<<>>} \cup {<<Submit(i)>> : i \in OpenIntents} :
          IF \A j \in DOMAIN tail : IsClose(tail[j])
            THEN /\ cmds' = cmds \o tail
                 /\ pc' = "mint"
                 /\ UNCHANGED <<call, quoted, exitsEnd, onEndStart, submitIds,
                                outFills, carryGroups, fillGroups, k, error,
                                engineVars>>
            ELSE AbortEngine("on_end_non_close")
    BY <1>5 DEF OnEnd
  <2>2. CASE ~ \A j \in DOMAIN tail : IsClose(tail[j])
    BY <2>1, <2>2, AbortType DEF Errors
  <2>3. CASE \A j \in DOMAIN tail : IsClose(tail[j])
    <3>1. tail \in Seq(Commands)
      <4>1. CASE tail \in CloseAll
        <5>1. PICK legs \in InOrder(UncoveredLegs) :
                tail = [i \in DOMAIN legs |-> FlattenCommand(legs[i])]
          BY <4>1 DEF CloseAll
        <5>2. legs \in Seq(UncoveredLegs)
          BY DomainAssumption DEF InOrder, BoundedSeq, SeqOf
        <5>3. \A p \in UncoveredLegs : FlattenCommand(p) \in Commands
          BY CloseIntentType, SubmitType
          DEF FlattenCommand, UncoveredLegs, Kinds, TypeInv, TypeOK
        <5>4. QED
          BY <5>1, <5>2, <5>3
      <4>2. CASE tail \in {<<Submit(i)>> : i \in OpenIntents}
        <5>1. PICK i \in OpenIntents : tail = <<Submit(i)>>
          BY <4>2
        <5>2. Submit(i) \in Commands
          BY OpenIntentsType, SubmitType
        <5>3. QED
          BY <5>1, <5>2
      <4>3. CASE tail = <<>>
        BY <4>3
      <4>4. QED
        BY <4>1, <4>2, <4>3
    <3>2. cmds' \in Seq(Commands)
      <4>1. cmds' = cmds \o tail
        BY <2>1, <2>3
      <4>2. cmds \in Seq(Commands)
        BY DEF TypeInv, TypeOK, SeamTypeOK
      <4>3. QED
        BY <3>1, <4>1, <4>2
    <3>3. QED
      BY <1>1, <2>1, <2>3, <3>2 DEF TypeInv, TypeOK, SeamTypeOK
  <2>4. QED
    BY <2>2, <2>3
<1>6. QED
  BY <1>2, <1>3, <1>4, <1>5

\* mint_submit_ids stays within the ids a run may use.
LEMMA MintIdsType ==
  ASSUME TypeInv, MintIds, UNCHANGED fillVars
  PROVE  TypeInv'
<1>1. /\ cmds \in Seq(Commands)
      /\ nextOrder \in 1..(MaxOrders + 1)
  BY DEF TypeInv, TypeOK, SeamTypeOK, EngineTypeOK
<1>2. Submissions(cmds) \in Nat
  BY <1>1, SubmissionsNat
<1>3. nextOrder + Submissions(cmds) <= MaxOrders + 1
  BY DEF MintIds, Mintable
<1>4. submitIds' \in Seq(OrderIds)
  <2>1. \A i \in 1..Submissions(cmds) : nextOrder + i - 1 \in OrderIds
    BY <1>1, <1>2, <1>3, DomainAssumption DEF OrderIds
  <2>2. QED
    BY <1>2, <2>1 DEF MintIds, MintedIds
<1>5. nextOrder' \in 1..(MaxOrders + 1)
  BY <1>1, <1>2, <1>3, DomainAssumption DEF MintIds
<1>6. QED
  BY <1>4, <1>5 DEF TypeInv, TypeOK, MintIds, SeamTypeOK, EngineTypeOK,
     BooksTypeOK, FillTypeOK, bookVars, walkVars, ghosts, fillVars, Phases

\* The prechecks of apply_step_fills only reset the walk.
LEMMA ValidateType ==
  ASSUME TypeInv, Validate, UNCHANGED fillVars
  PROVE  TypeInv'
<1>1. CASE ValidateFault # "none"
  <2>1. ValidateFault \in Errors
    BY DEF ValidateFault, Errors
  <2>2. QED
    BY <1>1, <2>1, AbortType DEF Validate
<1>2. CASE ValidateFault = "none"
  BY <1>2 DEF TypeInv, TypeOK, Validate, SeamTypeOK, EngineTypeOK, BooksTypeOK,
     FillTypeOK, bookVars, idVars, ghosts, fillVars, Phases
<1>3. QED
  BY <1>1, <1>2

\* What the checks of apply_carry_group establish before it touches the books.
LEMMA CarryChecked ==
  ASSUME TypeInv, AtCarry, CarryFault = "none"
  PROVE  /\ CarryRun \in Seq(Fills)
         /\ Len(CarryRun) = carryGroups[k].count
         /\ carryGroups[k].count \in Nat \ {0}
         /\ TotalQty(CarryRun) \in Quantities
         /\ CarryOrder \in DOMAIN pending
         /\ CarryOrder \in OrderIds
         /\ CarryEntry \in PendingEntries
         /\ TotalQty(CarryRun) <= CarryEntry.intent.qty
         /\ CarryEntry.intent.action = "close" =>
              CloseFault(CarryEntry.intent.pos, TotalQty(CarryRun)) = "none"
         /\ (CarryEntry.intent.action = "open" /\ CarryEntry.pos # 0) =>
              ExtendFault(CarryEntry.pos, TotalQty(CarryRun)) = "none"
<1> DEFINE q == TotalQty(CarryRun)
<1>1. carryGroups[k] \in CarryGroups
  <2>1. carryGroups \in Seq(CarryGroups) /\ k \in Nat \ {0}
    BY DEF TypeInv, TypeOK, SeamTypeOK
  <2>2. QED
    BY <2>1 DEF AtCarry
<1>2. carryGroups[k].count \in Nat \ {0} /\ CarryOrder \in OrderIds
  BY <1>1 DEF CarryGroups, CarryOrder
<1>3. /\ ~ (cursor + carryGroups[k].count > Len(outFills))
      /\ CarryOrder \in DOMAIN pending
      /\ q \in Quantities
  BY DEF CarryFault
<1>4. CarryRun \in Seq(Fills) /\ Len(CarryRun) = carryGroups[k].count
  <2>1. outFills \in Seq(Fills) /\ cursor \in Nat
    BY DEF TypeInv, TypeOK, SeamTypeOK, EngineTypeOK
  <2>2. cursor + carryGroups[k].count <= Len(outFills)
    BY <1>2, <1>3, <2>1
  <2>3. QED
    BY <1>2, <2>1, <2>2, RunType DEF CarryRun
<1>5. CarryEntry \in PendingEntries
  BY <1>3 DEF CarryEntry, TypeInv, TypeOK, EngineTypeOK, IsMap
<1>6. q <= CarryEntry.intent.qty
  <2>1. ~ (q > CarryEntry.intent.qty)
    BY DEF CarryFault
  <2>2. CarryEntry.intent.qty \in Quantities
    BY <1>5 DEF PendingEntries, Intents
  <2>3. QED
    BY <1>3, <2>1, <2>2, DomainAssumption DEF Quantities
<1>7. CarryEntry.intent.action = "close" =>
        CloseFault(CarryEntry.intent.pos, q) = "none"
  BY <1>3 DEF CarryFault
<1>8. (CarryEntry.intent.action = "open" /\ CarryEntry.pos # 0) =>
        ExtendFault(CarryEntry.pos, q) = "none"
  BY <1>3 DEF CarryFault
<1>9. QED
  BY <1>2, <1>3, <1>4, <1>5, <1>6, <1>7, <1>8

\* The registry after a carried run is a registry.
LEMMA ShrunkType ==
  ASSUME TypeInv, AtCarry, CarryFault = "none", NEW trade \in Nat, NEW p \in Nat
  PROVE  IsMap(Shrunk(trade, p), OrderIds, PendingEntries)
<1> DEFINE q == TotalQty(CarryRun)
<1>1. /\ CarryEntry \in PendingEntries /\ q \in Quantities
      /\ q <= CarryEntry.intent.qty
      /\ Len(CarryRun) \in Nat
  BY CarryChecked
<1>2. IsMap(pending, OrderIds, PendingEntries)
  BY DEF TypeInv, TypeOK, EngineTypeOK
<1>3. CASE q = CarryEntry.intent.qty
  BY <1>2, <1>3, DropIsMap DEF Shrunk
<1>4. CASE q # CarryEntry.intent.qty
  <2>1. CarryEntry.intent \in Intents /\ CarryEntry.intent.qty \in Quantities
    BY <1>1 DEF PendingEntries, Intents
  <2>2. CarryEntry.intent.qty - q \in Quantities
    BY <1>1, <1>4, <2>1, DomainAssumption DEF Quantities
  <2>3. [CarryEntry.intent EXCEPT !.qty = @ - q] \in Intents
    BY <2>1, <2>2 DEF Intents
  <2>4. ShrunkEntry(trade, p) \in PendingEntries
    BY <1>1, <2>3 DEF ShrunkEntry, PendingEntries
  <2>5. QED
    BY <1>2, <1>4, <2>4, CarryChecked, PutIsMap DEF Shrunk
<1>5. QED
  BY <1>3, <1>4

\* A carry step whose books, registry and counters are well typed is.
LEMMA CarryStepType ==
  ASSUME TypeInv, AtCarry, CarryFault = "none", CarryNext, UNCHANGED fillVars,
         BooksTypeOK', IsMap(pending, OrderIds, PendingEntries)',
         nextPos' \in Nat \ {0}, nextTrade' \in Nat \ {0}
  PROVE  TypeInv'
<1>1. carryGroups[k].count \in Nat
  BY CarryChecked
<1>0. cursor \in Nat /\ k \in Nat \ {0}
  BY DEF TypeInv, TypeOK, SeamTypeOK, EngineTypeOK
<1>2a. cursor' = cursor + carryGroups[k].count /\ k' = k + 1
  BY DEF CarryNext
<1>2. cursor' \in Nat /\ k' \in Nat \ {0}
  <2>1. \A a, b \in Nat : a + b \in Nat /\ b + 1 \in Nat \ {0}
    OBVIOUS
  <2>2. QED
    BY <1>0, <1>1, <1>2a, <2>1, Zenon
<1>3. SeamTypeOK'
  BY <1>2 DEF TypeInv, TypeOK, SeamTypeOK, CarryNext
<1>4. EngineTypeOK'
  BY <1>2 DEF TypeInv, TypeOK, EngineTypeOK, CarryNext, ghosts
<1>5. FillTypeOK'
  BY DEF TypeInv, TypeOK, FillTypeOK, fillVars
<1>6. QED
  BY <1>3, <1>4, <1>5 DEF TypeInv, TypeOK, CarryNext, isLast

\* The carry prefix keeps the types.
LEMMA CarryType ==
  ASSUME TypeInv, UNCHANGED fillVars,
         \/ CarryFails \/ CarryOpensLeg \/ CarryExtendsLeg \/ CarryClosesLeg
         \/ CarryDone
  PROVE  TypeInv'
<1>1. /\ BooksTypeOK /\ nextPos \in Nat \ {0} /\ nextTrade \in Nat \ {0}
  BY DEF TypeInv, TypeOK, EngineTypeOK
<1>2. CASE CarryFails
  <2>1. CarryFault \in Errors
    BY DEF CarryFault, CloseFault, ExtendFault, Errors
  <2>2. QED
    BY <1>2, <2>1, AbortType DEF CarryFails
<1>3. CASE CarryOpensLeg
  <2> DEFINE fresh == CarryEntry.trade = 0
             trade == IF fresh THEN nextTrade ELSE CarryEntry.trade
  <2>1. AtCarry /\ CarryFault = "none" /\ CarryNext
    BY <1>3 DEF CarryOpensLeg
  <2>2. /\ OpenLeg(nextPos, trade, CarryRun, CarryOrder, NextSeqOf(CarryEntry))
        /\ pending' = Shrunk(trade, nextPos)
        /\ nextTrade' = IF fresh THEN nextTrade + 1 ELSE nextTrade
        /\ nextPos' = nextPos + 1
    BY <1>3 DEF CarryOpensLeg
  <2>3. CarryEntry.trade \in Nat /\ NextSeqOf(CarryEntry) \in Nat
    BY <2>1, CarryChecked DEF PendingEntries, NextSeqOf
  <2>4. trade \in Nat /\ nextTrade' \in Nat \ {0} /\ nextPos' \in Nat \ {0}
    BY <1>1, <2>2, <2>3
  <2>5. BooksTypeOK'
    BY <1>1, <2>1, <2>2, <2>3, <2>4, CarryChecked, OpenLegType
  <2>6. IsMap(pending, OrderIds, PendingEntries)'
    BY <1>1, <2>1, <2>2, <2>4, ShrunkType
  <2>7. QED
    BY <2>1, <2>4, <2>5, <2>6, CarryStepType
<1>4. CASE CarryExtendsLeg
  <2>1. AtCarry /\ CarryFault = "none" /\ CarryNext
    BY <1>4 DEF CarryExtendsLeg
  <2>2. /\ CarryEntry.intent.action = "open" /\ CarryEntry.pos # 0
        /\ ExtendLeg(CarryEntry.pos, CarryEntry.trade, CarryRun, CarryOrder,
                     NextSeqOf(CarryEntry))
        /\ pending' = Shrunk(CarryEntry.trade, CarryEntry.pos)
        /\ UNCHANGED <<nextPos, nextTrade>>
    BY <1>4 DEF CarryExtendsLeg
  <2>3. /\ CarryEntry.trade \in Nat /\ CarryEntry.pos \in Nat
        /\ NextSeqOf(CarryEntry) \in Nat
    BY <2>1, CarryChecked DEF PendingEntries, NextSeqOf
  <2>4. BooksTypeOK'
    BY <1>1, <2>1, <2>2, <2>3, CarryChecked, ExtendLegType
  <2>5. IsMap(pending, OrderIds, PendingEntries)'
    BY <2>1, <2>2, <2>3, ShrunkType
  <2>6. QED
    BY <1>1, <2>1, <2>2, <2>4, <2>5, CarryStepType
<1>5. CASE CarryClosesLeg
  <2>1. AtCarry /\ CarryFault = "none" /\ CarryNext
    BY <1>5 DEF CarryClosesLeg
  <2>2. /\ CarryEntry.intent.action = "close"
        /\ CloseLeg(CarryEntry.intent.pos, CarryRun, CarryOrder,
                    NextSeqOf(CarryEntry), CarryEntry.reason)
        /\ pending' = Shrunk(CarryEntry.trade, CarryEntry.pos)
        /\ UNCHANGED <<nextPos, nextTrade>>
    BY <1>5 DEF CarryClosesLeg
  <2>3. /\ CarryEntry.trade \in Nat /\ CarryEntry.pos \in Nat
        /\ CarryEntry.intent.pos \in Nat /\ CarryEntry.reason \in Reasons
        /\ NextSeqOf(CarryEntry) \in Nat
    BY <2>1, CarryChecked DEF PendingEntries, Intents, NextSeqOf
  <2>4. BooksTypeOK'
    BY <1>1, <2>1, <2>2, <2>3, CarryChecked, CloseLegType, DomainAssumption
  <2>5. IsMap(pending, OrderIds, PendingEntries)'
    BY <2>1, <2>2, <2>3, ShrunkType
  <2>6. QED
    BY <1>1, <2>1, <2>2, <2>4, <2>5, CarryStepType
<1>6. CASE CarryDone
  BY <1>6 DEF TypeInv, TypeOK, CarryDone, SeamTypeOK, EngineTypeOK,
     BooksTypeOK, FillTypeOK, engineVars, bookVars, idVars, walkVars, ghosts,
     fillVars, Phases
<1>7. QED
  BY <1>2, <1>3, <1>4, <1>5, <1>6

\* A submission carries an intent; a cancel or a replace names an order.
LEMMA CommandParts ==
  ASSUME NEW cmd \in Commands
  PROVE  /\ IsSubmission(cmd) => cmd.intent \in Intents
         /\ IsLifecycle(cmd) => cmd.order \in OrderIds
  BY DEF Commands, IsSubmission, IsLifecycle

\* What the checks of the command walk establish before the books change.
LEMMA WalkChecked ==
  ASSUME TypeInv, Walking, WalkFault = "none"
  PROVE  /\ WalkIntent \in Intents
         /\ WalkOrder \in OrderIds
         /\ WalkCount \in Nat
         /\ WalkReason \in Reasons
         /\ WalkCount # 0 =>
              /\ WalkRun \in Seq(Fills)
              /\ Len(WalkRun) = WalkCount
              /\ TotalQty(WalkRun) \in Quantities
              /\ WalkIntent.action = "close" =>
                   CloseFault(WalkIntent.pos, TotalQty(WalkRun)) = "none"
<1>1. /\ cmds \in Seq(Commands) /\ k \in 1..Len(cmds)
      /\ IsSubmission(cmds[k])
  BY DEF TypeInv, TypeOK, SeamTypeOK, Walking, AtWalk
<1>2. WalkIntent \in Intents
  BY <1>1, CommandParts DEF WalkIntent
<1>3. WalkOrder \in OrderIds
  <2>1. Ordinal(k) \in Nat \ {0}
    BY <1>1, OrdinalPositive DEF TypeInv, TypeOK
  <2>2. ~ (Ordinal(k) > Len(submitIds))
    BY DEF WalkFault
  <2>3. submitIds \in Seq(OrderIds)
    BY DEF TypeInv, TypeOK, SeamTypeOK
  <2>4. QED
    BY <2>1, <2>2, <2>3 DEF WalkOrder
<1>4. WalkCount \in Nat
  <2>1. fillGroups \in Seq(FillGroups) /\ gi \in Nat \ {0}
    BY DEF TypeInv, TypeOK, SeamTypeOK, EngineTypeOK
  <2>2. gi <= Len(fillGroups) => fillGroups[gi] \in FillGroups
    BY <2>1
  <2>3. gi <= Len(fillGroups) => fillGroups[gi].count \in Nat
    BY <2>2 DEF FillGroups
  <2>4. QED
    BY <2>3 DEF WalkCount
<1>5. WalkReason \in Reasons
  BY DEF WalkReason, ReasonFor, Reasons
<1>6. ASSUME WalkCount # 0
      PROVE  /\ WalkRun \in Seq(Fills)
             /\ Len(WalkRun) = WalkCount
             /\ TotalQty(WalkRun) \in Quantities
             /\ WalkIntent.action = "close" =>
                  CloseFault(WalkIntent.pos, TotalQty(WalkRun)) = "none"
  <2>1. /\ ~ (cursor + WalkCount > Len(outFills))
        /\ TotalQty(WalkRun) \in Quantities
    BY <1>6 DEF WalkFault
  <2>2. outFills \in Seq(Fills) /\ cursor \in Nat
    BY DEF TypeInv, TypeOK, SeamTypeOK, EngineTypeOK
  <2>3. cursor + WalkCount <= Len(outFills)
    BY <1>4, <2>1, <2>2
  <2>4. WalkRun \in Seq(Fills) /\ Len(WalkRun) = WalkCount
    BY <1>4, <2>2, <2>3, RunType DEF WalkRun
  <2>5. WalkIntent.action = "close" =>
          CloseFault(WalkIntent.pos, TotalQty(WalkRun)) = "none"
    BY <1>6, <2>1 DEF WalkFault
  <2>6. QED
    BY <2>1, <2>4, <2>5
<1>7. QED
  BY <1>2, <1>3, <1>4, <1>5, <1>6

\* The registry after the cancel half of the command is a registry.
LEMMA AfterCancelType ==
  ASSUME TypeInv
  PROVE  IsMap(AfterCancel, OrderIds, PendingEntries)
  BY DropIsMap DEF AfterCancel, TypeInv, TypeOK, EngineTypeOK

\* register_pending puts a registry entry.
LEMMA RestingEntryType ==
  ASSUME TypeInv, Walking, WalkFault = "none", NEW rest \in Quantities,
         NEW trade \in Nat, NEW p \in Nat, NEW count \in Nat
  PROVE  RestingEntry(rest, trade, p, count) \in PendingEntries
<1>1. [WalkIntent EXCEPT !.qty = rest] \in Intents
  BY WalkChecked DEF Intents
<1>2. QED
  BY <1>1, WalkChecked DEF RestingEntry, PendingEntries

\* The registry after a filled submission is a registry.
LEMMA WithRemainderType ==
  ASSUME TypeInv, Walking, WalkFault = "none", WalkCount # 0,
         NEW trade \in Nat, NEW p \in Nat
  PROVE  IsMap(WithRemainder(trade, p), OrderIds, PendingEntries)
<1> DEFINE rest == WalkIntent.qty - TotalQty(WalkRun)
<1>1. CASE WalkIntent.kind = "gtc" /\ rest > 0
  <2>1. WalkIntent.qty \in Quantities /\ TotalQty(WalkRun) \in Quantities
    BY WalkChecked DEF Intents
  <2>2. rest \in Quantities
    BY <1>1, <2>1, DomainAssumption DEF Quantities
  <2>3. RestingEntry(rest, trade, p, WalkCount) \in PendingEntries
    BY <2>2, RestingEntryType, WalkChecked
  <2>4. QED
    BY <1>1, <2>3, WalkChecked, AfterCancelType, PutIsMap DEF WithRemainder
<1>2. CASE ~ (WalkIntent.kind = "gtc" /\ rest > 0)
  BY <1>2, AfterCancelType DEF WithRemainder
<1>3. QED
  BY <1>1, <1>2

\* A step of the walk whose books, registry and counters are well typed is.
LEMMA WalkStepType ==
  ASSUME TypeInv, AtWalk, Walking => WalkFault = "none", WalkNext,
         UNCHANGED fillVars, BooksTypeOK',
         IsMap(pending, OrderIds, PendingEntries)',
         nextPos' \in Nat \ {0}, nextTrade' \in Nat \ {0}, stepTrade' \in Nat
  PROVE  TypeInv'
<1>1. cursor \in Nat /\ gi \in Nat \ {0} /\ k \in Nat \ {0} /\ call \in Nat
  BY DomainAssumption DEF TypeInv, TypeOK, SeamTypeOK, EngineTypeOK
<1>2. cursor' \in Nat
  BY <1>1, WalkChecked DEF WalkNext
<1>3. gi' \in Nat \ {0} /\ k' \in Nat \ {0}
  BY <1>1 DEF WalkNext
<1>4. IsMap(submitted, OrderIds, [intent : Intents, call : Nat])'
  <2>1. IsMap(submitted, OrderIds, [intent : Intents, call : Nat])
    BY DEF TypeInv, TypeOK, EngineTypeOK
  <2>2. CASE ~ Walking
    BY <2>1, <2>2 DEF WalkNext
  <2>3. CASE Walking
    <3>1. WalkOrder \in OrderIds /\ WalkIntent \in Intents
      BY <2>3, WalkChecked
    <3>2. [intent |-> WalkIntent, call |-> call] \in [intent : Intents, call : Nat]
      BY <1>1, <3>1
    <3>3. submitted' = Put(submitted, WalkOrder,
                           [intent |-> WalkIntent, call |-> call])
      BY <2>3 DEF WalkNext
    <3>4. QED
      BY <2>1, <3>1, <3>2, <3>3, PutIsMap
  <2>4. QED
    BY <2>2, <2>3
<1>5. withdrawn' \subseteq OrderIds
  BY DEF WalkNext, NowWithdrawn, TypeInv, TypeOK, EngineTypeOK, IsMap
<1>6. SeamTypeOK'
  BY <1>3 DEF TypeInv, TypeOK, SeamTypeOK, WalkNext
<1>7. EngineTypeOK'
  BY <1>2, <1>3, <1>4, <1>5 DEF TypeInv, TypeOK, EngineTypeOK, WalkNext
<1>8. FillTypeOK'
  BY DEF TypeInv, TypeOK, FillTypeOK, fillVars
<1>9. QED
  BY <1>6, <1>7, <1>8 DEF TypeInv, TypeOK, AtWalk, WalkNext

\* The command walk keeps the types.
LEMMA WalkType ==
  ASSUME TypeInv, UNCHANGED fillVars,
         \/ WalkCancel \/ WalkFails \/ WalkRestsOpen \/ WalkRestsClose
         \/ WalkOpens \/ WalkCloses \/ WalkDone
  PROVE  TypeInv'
<1>1. /\ BooksTypeOK /\ nextPos \in Nat \ {0} /\ nextTrade \in Nat \ {0}
      /\ stepTrade \in Nat
  BY DEF TypeInv, TypeOK, EngineTypeOK
<1>2. UNCHANGED bookVars => BooksTypeOK'
  BY <1>1 DEF BooksTypeOK, bookVars
<1>3. OpenTrade \in Nat
  BY <1>1 DEF OpenTrade
<1>4. MintTrade => stepTrade' \in Nat /\ nextTrade' \in Nat \ {0}
  BY <1>1, <1>3 DEF MintTrade
<1>5. CASE WalkCancel
  BY <1>1, <1>2, <1>5, AfterCancelType, WalkStepType DEF WalkCancel
<1>6. CASE WalkFails
  <2>1. WalkFault \in Errors
    BY DEF WalkFault, CloseFault, Errors
  <2>2. QED
    BY <1>6, <2>1, AbortType DEF WalkFails
<1>7. CASE WalkRestsOpen
  <2>1. /\ AtWalk /\ Walking /\ WalkFault = "none" /\ WalkNext /\ MintTrade
        /\ UNCHANGED <<bookVars, nextPos>>
        /\ pending' = Put(AfterCancel, WalkOrder,
                          RestingEntry(WalkIntent.qty, OpenTrade, 0, 0))
    BY <1>7 DEF WalkRestsOpen, Walking
  <2>2. WalkIntent.qty \in Quantities
    BY <2>1, WalkChecked DEF Intents
  <2>3. RestingEntry(WalkIntent.qty, OpenTrade, 0, 0) \in PendingEntries
    BY <1>3, <2>1, <2>2, RestingEntryType
  <2>4. IsMap(pending, OrderIds, PendingEntries)'
    BY <2>1, <2>3, WalkChecked, AfterCancelType, PutIsMap
  <2>5. QED
    BY <1>1, <1>2, <1>4, <2>1, <2>4, WalkStepType
<1>8. CASE WalkRestsClose
  <2>1. /\ AtWalk /\ Walking /\ WalkFault = "none" /\ WalkNext
        /\ UNCHANGED <<bookVars, nextPos, nextTrade, stepTrade>>
        /\ pending' = Put(AfterCancel, WalkOrder,
                          RestingEntry(WalkIntent.qty, 0, 0, 0))
    BY <1>8 DEF WalkRestsClose, Walking
  <2>2. WalkIntent.qty \in Quantities
    BY <2>1, WalkChecked DEF Intents
  <2>3. RestingEntry(WalkIntent.qty, 0, 0, 0) \in PendingEntries
    BY <2>1, <2>2, RestingEntryType
  <2>4. IsMap(pending, OrderIds, PendingEntries)'
    BY <2>1, <2>3, WalkChecked, AfterCancelType, PutIsMap
  <2>5. QED
    BY <1>1, <1>2, <2>1, <2>4, WalkStepType
<1>9. CASE WalkOpens
  <2>1. /\ AtWalk /\ Walking /\ WalkFault = "none" /\ WalkCount # 0 /\ WalkNext
        /\ MintTrade
        /\ OpenLeg(nextPos, OpenTrade, WalkRun, WalkOrder, 0)
        /\ nextPos' = nextPos + 1
        /\ pending' = WithRemainder(OpenTrade, nextPos)
    BY <1>9 DEF WalkOpens, Walking
  <2>2. BooksTypeOK'
    BY <1>1, <1>3, <2>1, WalkChecked, OpenLegType
  <2>3. IsMap(pending, OrderIds, PendingEntries)'
    BY <1>1, <1>3, <2>1, WithRemainderType
  <2>4. nextPos' \in Nat \ {0}
    BY <1>1, <2>1
  <2>5. QED
    BY <1>4, <2>1, <2>2, <2>3, <2>4, WalkStepType
<1>10. CASE WalkCloses
  <2>1. /\ AtWalk /\ Walking /\ WalkFault = "none" /\ WalkCount # 0 /\ WalkNext
        /\ WalkIntent.action = "close"
        /\ CloseLeg(WalkIntent.pos, WalkRun, WalkOrder, 0, WalkReason)
        /\ pending' = WithRemainder(0, 0)
        /\ UNCHANGED <<nextPos, nextTrade, stepTrade>>
    BY <1>10 DEF WalkCloses, Walking
  <2>2. WalkIntent.pos \in Nat
    BY <2>1, WalkChecked DEF Intents
  <2>3. BooksTypeOK'
    BY <1>1, <2>1, <2>2, WalkChecked, CloseLegType, DomainAssumption
  <2>4. IsMap(pending, OrderIds, PendingEntries)'
    BY <2>1, WithRemainderType
  <2>5. QED
    BY <1>1, <2>1, <2>3, <2>4, WalkStepType
<1>11. CASE WalkDone
  <2>1. CASE cursor # Len(outFills) \/ gi <= Len(fillGroups)
    BY <1>11, <2>1, AbortType DEF WalkDone, Errors
  <2>2. CASE ~ (cursor # Len(outFills) \/ gi <= Len(fillGroups))
    <3>1. SeamTypeOK'
      BY <1>11, <2>2, DomainAssumption DEF TypeInv, TypeOK, WalkDone, SeamTypeOK, Phases
    <3>2. EngineTypeOK'
      BY <1>11, <2>2 DEF TypeInv, TypeOK, WalkDone, EngineTypeOK, BooksTypeOK,
         engineVars, bookVars, idVars, walkVars, ghosts
    <3>3. FillTypeOK'
      BY <1>11 DEF TypeInv, TypeOK, FillTypeOK, fillVars
    <3>4. pc' # "advance"
      BY <1>11, <2>2 DEF WalkDone
    <3>5. QED
      BY <3>1, <3>2, <3>3, <3>4 DEF TypeInv, TypeOK
  <2>3. QED
    BY <2>1, <2>2
<1>12. QED
  BY <1>5, <1>6, <1>7, <1>8, <1>9, <1>10, <1>11

\* Settlement and the next snapshot keep the types: only a step that is not
\* the last advances.
LEMMA SettleType ==
  ASSUME TypeInv, UNCHANGED fillVars, Settle \/ SettleExpired \/ Advance
  PROVE  TypeInv'
<1>1. CASE Settle
  <2>1. CASE SettleFault # "none"
    BY <1>1, <2>1, AbortType DEF Settle, SettleFault, Errors
  <2>2. CASE SettleFault = "none"
    BY <1>1, <2>2 DEF TypeInv, TypeOK, Settle, SeamTypeOK, EngineTypeOK,
       BooksTypeOK, FillTypeOK, engineVars, bookVars, idVars, walkVars, ghosts,
       fillVars, Phases, isLast
  <2>3. QED
    BY <2>1, <2>2
<1>2. CASE SettleExpired
  BY <1>2, AbortType DEF SettleExpired, Errors
<1>3. CASE Advance
  <2>1. call' \in 0..(FinalStep + 1)
    BY <1>3, DomainAssumption
    DEF TypeInv, TypeOK, Advance, NextCall, SeamTypeOK, isLast
  <2>2. quoted' \subseteq Contracts
    BY <1>3 DEF Advance
  <2>3. QED
    BY <1>3, <2>1, <2>2 DEF TypeInv, TypeOK, Advance, SeamTypeOK, EngineTypeOK,
       BooksTypeOK, FillTypeOK, engineVars, bookVars, idVars, walkVars, ghosts,
       fillVars, Phases
<1>4. QED
  BY <1>1, <1>2, <1>3

\* Every step of the engine keeps the types.
LEMMA EngineType ==
  ASSUME TypeInv, EngineNext, UNCHANGED fillVars
  PROVE  TypeInv'
  BY StrategyType, MintIdsType, ValidateType, CarryType, WalkType, SettleType
  DEF EngineNext

-----------------------------------------------------------------------------
(* Type correctness of the fill model.                                     *)

\* The leaf book of a contract is a book, also one constructed on first use.
LEMMA LeafBookType ==
  ASSUME FillTypeOK, NEW c
  PROVE  /\ LeafBook(c).seeds \subseteq Ladders
         /\ IsMap(LeafBook(c).orders, Nat, BookOrders)
<1>1. CASE c \in DOMAIN books
  BY <1>1 DEF LeafBook, FillTypeOK
<1>2. CASE c \notin DOMAIN books
  BY <1>2 DEF LeafBook, EmptyBook, IsMap
<1>3. QED
  BY <1>1, <1>2

\* Releasing a counted order of a contract leaves positive counts only.
LEMMA ReleaseType ==
  ASSUME NEW live, IsMap(live, Contracts, Nat \ {0}), NEW c \in DOMAIN live
  PROVE  IsMap(Release(live, c), Contracts, Nat \ {0})
<1>1. live[c] \in Nat \ {0}
  BY DEF IsMap
<1>2. CASE live[c] = 1
  BY <1>2, DropIsMap DEF Release
<1>3. CASE live[c] # 1
  <2>1. live[c] - 1 \in Nat \ {0}
    BY <1>1, <1>3
  <2>2. QED
    BY <1>3, <2>1, UpdateIsMap DEF Release
<1>4. QED
  BY <1>2, <1>3

\* Counting one more resting order does too.
LEMMA TrackType ==
  ASSUME NEW live, IsMap(live, Contracts, Nat \ {0}), NEW c \in Contracts
  PROVE  IsMap(Track(live, c), Contracts, Nat \ {0})
<1>1. (IF c \in DOMAIN live THEN live[c] + 1 ELSE 1) \in Nat \ {0}
  BY DEF IsMap
<1>2. QED
  BY <1>1, PutIsMap DEF Track

\* An order in a book shrinks by less than its size, or leaves it.
LEMMA MatchedType ==
  ASSUME NEW orders, IsMap(orders, Nat, BookOrders), NEW seq \in DOMAIN orders,
         NEW q \in Quantities, q <= orders[seq].qty
  PROVE  IsMap(Matched(orders, seq, q), Nat, BookOrders)
<1>1. orders[seq] \in BookOrders
  BY DEF IsMap
<1>2. CASE orders[seq].qty = q
  BY <1>2, DropIsMap DEF Matched
<1>3. CASE orders[seq].qty # q
  <2>1. orders[seq].qty \in Quantities /\ orders[seq].side \in Sides
    BY <1>1 DEF BookOrders
  <2>2. orders[seq].qty - q \in Quantities
    BY <1>3, <2>1, DomainAssumption DEF Quantities
  <2>3. [orders[seq] EXCEPT !.qty = @ - q] \in BookOrders
    BY <1>1, <2>2 DEF BookOrders
  <2>4. QED
    BY <1>3, <2>3, UpdateIsMap DEF Matched
<1>4. QED
  BY <1>2, <1>3

\* The carry groups after one more fill of a tracked order.
LEMMA CoalesceType ==
  ASSUME NEW groups \in Seq(CarryGroups), NEW o \in OrderIds
  PROVE  Coalesce(groups, o) \in Seq(CarryGroups)
<1>1. CASE groups # <<>> /\ groups[Len(groups)].order = o
  <2>1. Len(groups) \in DOMAIN groups /\ groups[Len(groups)] \in CarryGroups
    BY <1>1
  <2>2. [groups[Len(groups)] EXCEPT !.count = @ + 1] \in CarryGroups
    BY <2>1 DEF CarryGroups
  <2>3. QED
    BY <1>1, <2>1, <2>2 DEF Coalesce
<1>2. CASE ~ (groups # <<>> /\ groups[Len(groups)].order = o)
  <2>1. [order |-> o, count |-> 1] \in CarryGroups
    BY DEF CarryGroups
  <2>2. QED
    BY <1>2, <2>1 DEF Coalesce
<1>3. QED
  BY <1>1, <1>2

\* The refresh keeps the types: it empties the channels, and cancels and evicts.
LEMMA RefreshType ==
  ASSUME TypeInv, RefreshBooks, UNCHANGED engineVars
  PROVE  TypeInv'
<1>1. FillTypeOK
  BY DEF TypeInv, TypeOK
<1>2. ASSUME NEW c \in DOMAIN books
      PROVE  /\ WithoutStaleSeed(c).seeds \subseteq Ladders
             /\ IsMap(WithoutStaleSeed(c).orders, Nat, BookOrders)
  <2>1. /\ books[c].seeds \subseteq Ladders
        /\ IsMap(books[c].orders, Nat, BookOrders)
    BY <1>1, <1>2 DEF FillTypeOK
  <2>2. CASE c \notin DOMAIN seedIds
    BY <2>1, <2>2 DEF WithoutStaleSeed
  <2>3. CASE c \in DOMAIN seedIds
    <3>1. /\ WithoutStaleSeed(c).seeds \in {books[c].seeds \ seedIds[c],
                                            books[c].seeds}
          /\ WithoutStaleSeed(c).orders = books[c].orders
      BY <2>3 DEF WithoutStaleSeed
    <3>2. QED
      BY <2>1, <3>1
  <2>4. QED
    BY <2>2, <2>3
<1>3. FillTypeOK'
  <2>1. IsMap(seedIds', Contracts, SUBSET Ladders)
    BY <1>1 DEF FillTypeOK, IsMap, RefreshBooks
  <2>2. DOMAIN books' \subseteq Contracts
    BY <1>1 DEF FillTypeOK, RefreshBooks
  <2>3. \A c \in DOMAIN books' : /\ books'[c].seeds \subseteq Ladders
                                 /\ IsMap(books'[c].orders, Nat, BookOrders)
    BY <1>2 DEF RefreshBooks
  <2>4. QED
    BY <1>1, <2>1, <2>2, <2>3 DEF FillTypeOK, RefreshBooks
<1>4. QED
  BY <1>3 DEF TypeInv, TypeOK, RefreshBooks, SeamTypeOK, EngineTypeOK,
     BooksTypeOK, engineVars, bookVars, idVars, walkVars, ghosts, Phases

\* capture_refresh_fill keeps the types of what it writes.
LEMMA CaptureType ==
  ASSUME TypeInv, NEW seq \in DOMAIN mirror, NEW q \in Quantities,
         LadderContract \in Contracts, CaptureFault(seq, q) = "none",
         CaptureRefreshFill(seq, q)
  PROVE  /\ outFills' \in Seq(Fills)
         /\ carryGroups' \in Seq(CarryGroups)
         /\ IsMap(mirror', Nat, RestingOrders)
         /\ IsMap(liveOrders', Contracts, Nat \ {0})
         /\ IsMap(orderIndex', OrderIds, Nat)
<1> DEFINE meta == mirror[seq]
<1>1. /\ IsMap(mirror, Nat, RestingOrders)
      /\ IsMap(liveOrders, Contracts, Nat \ {0})
      /\ IsMap(orderIndex, OrderIds, Nat)
      /\ outFills \in Seq(Fills) /\ carryGroups \in Seq(CarryGroups)
  BY DEF TypeInv, TypeOK, FillTypeOK, SeamTypeOK
<1>2. meta \in RestingOrders
  BY <1>1 DEF IsMap
<1>3. /\ meta.order \in OrderIds /\ meta.contract \in Contracts
      /\ meta.side \in Sides /\ meta.remaining \in Quantities
  BY <1>2 DEF RestingOrders
<1>4. outFills' \in Seq(Fills)
  <2>1. [contract |-> LadderContract, side |-> meta.side, qty |-> q,
         charge |-> ChargeOf(meta.firstFillDone), owner |-> meta.order] \in Fills
    BY <1>3 DEF Fills, ChargeOf
  <2>2. QED
    BY <1>1, <2>1 DEF CaptureRefreshFill
<1>5. carryGroups' \in Seq(CarryGroups)
  BY <1>1, <1>3, CoalesceType DEF CaptureRefreshFill
<1>6. IsMap(mirror', Nat, RestingOrders)
  <2>1. CASE meta.remaining = q
    BY <1>1, <2>1, DropIsMap DEF CaptureRefreshFill
  <2>2. CASE meta.remaining # q
    <3>1. meta.remaining - q \in Quantities
      BY <1>3, <2>2, DomainAssumption DEF CaptureFault, Quantities
    <3>2. [meta EXCEPT !.remaining = @ - q, !.firstFillDone = TRUE]
            \in RestingOrders
      BY <1>2, <3>1 DEF RestingOrders
    <3>3. mirror' = Put(mirror, seq, [meta EXCEPT !.remaining = @ - q,
                                                  !.firstFillDone = TRUE])
      BY <2>2 DEF CaptureRefreshFill
    <3>4. seq \in Nat
      BY <1>1 DEF IsMap
    <3>5. QED
      BY <1>1, <3>2, <3>3, <3>4, PutIsMap
  <2>3. QED
    BY <2>1, <2>2
<1>7. IsMap(liveOrders', Contracts, Nat \ {0})
  <2>1. CASE meta.remaining = q
    <3>1. meta.contract \in DOMAIN liveOrders
      BY <1>3, <2>1, DomainAssumption DEF CaptureFault, HasLiveOrder, Quantities
    <3>2. QED
      BY <1>1, <2>1, <3>1, ReleaseType DEF CaptureRefreshFill
  <2>2. CASE meta.remaining # q
    BY <1>1, <2>2 DEF CaptureRefreshFill
  <2>3. QED
    BY <2>1, <2>2
<1>8. IsMap(orderIndex', OrderIds, Nat)
  BY <1>1, DropIsMap DEF CaptureRefreshFill
<1>9. QED
  BY <1>4, <1>5, <1>6, <1>7, <1>8

\* A step of the fill model that leaves the engine alone keeps the types when
\* it keeps those of the seam and of the model.
LEMMA FillStepType ==
  ASSUME TypeInv, UNCHANGED engineVars, SeamTypeOK', FillTypeOK',
         pc' # "advance"
  PROVE  TypeInv'
  BY DEF TypeInv, TypeOK, EngineTypeOK, BooksTypeOK, engineVars, bookVars,
     idVars, walkVars, ghosts

\* An abort of the fill model keeps the types.
LEMMA FillAbortType ==
  ASSUME TypeInv, NEW cause \in Errors, AbortFill(cause), UNCHANGED engineVars
  PROVE  TypeInv'
  BY FillStepType DEF TypeInv, TypeOK, AbortFill, AbortSeam, SeamTypeOK,
     FillTypeOK, fillVars, Phases

\* A crossing of the reseed keeps the types.
LEMMA ReseedCrossType ==
  ASSUME TypeInv, NEW seq, NEW q \in Quantities, ReseedCross(seq, q),
         UNCHANGED engineVars
  PROVE  TypeInv'
<1>1. SeamTypeOK /\ FillTypeOK
  BY DEF TypeInv, TypeOK
<1>2. LadderContract \in Contracts
  BY <1>1 DEF ReseedCross, SeamTypeOK
<1>3. CASE seq \in DOMAIN mirror /\ CaptureFault(seq, q) # "none"
  <2>1. CaptureFault(seq, q) \in Errors
    BY DEF CaptureFault, Errors
  <2>2. QED
    BY <1>3, <2>1, FillAbortType DEF ReseedCross
<1>4. CASE ~ (seq \in DOMAIN mirror /\ CaptureFault(seq, q) # "none")
  <2>1. /\ books' = [books EXCEPT ![LadderContract].orders = Matched(@, seq, q)]
        /\ IF seq \in DOMAIN mirror
             THEN CaptureRefreshFill(seq, q)
             ELSE UNCHANGED <<outFills, carryGroups, mirror, liveOrders,
                              orderIndex>>
        /\ UNCHANGED <<pc, call, quoted, cmds, exitsEnd, onEndStart,
                       submitIds, fillGroups, k, error, seedIds, nextSeq>>
        /\ pc = "reseed"
        /\ seq \in DOMAIN LeafBook(LadderContract).orders
        /\ q <= LeafBook(LadderContract).orders[seq].qty
    BY <1>4 DEF ReseedCross
  <2>2. IsMap(Matched(LeafBook(LadderContract).orders, seq, q), Nat, BookOrders)
    BY <1>1, <2>1, LeafBookType, MatchedType
  <2>3. /\ DOMAIN books' \subseteq Contracts
        /\ \A c \in DOMAIN books' : /\ books'[c].seeds \subseteq Ladders
                                    /\ IsMap(books'[c].orders, Nat, BookOrders)
    <3>1. DOMAIN books' = DOMAIN books
      BY <2>1
    <3>2. ASSUME NEW c \in DOMAIN books
          PROVE  /\ books'[c].seeds \subseteq Ladders
                 /\ IsMap(books'[c].orders, Nat, BookOrders)
      <4>1. /\ books[c].seeds \subseteq Ladders
            /\ IsMap(books[c].orders, Nat, BookOrders)
        BY <1>1 DEF FillTypeOK
      <4>2. CASE c # LadderContract
        BY <2>1, <4>1, <4>2
      <4>3. CASE c = LadderContract
        <5>1. books'[c] = [books[c] EXCEPT !.orders =
                             Matched(books[c].orders, seq, q)]
          BY <2>1, <4>3
        <5>2. books'[c].orders \in {Matched(books[c].orders, seq, q),
                                    books[c].orders}
          BY <5>1
        <5>3. books'[c].seeds = books[c].seeds
          BY <5>1
        <5>4. IsMap(Matched(books[c].orders, seq, q), Nat, BookOrders)
          BY <2>2, <4>3 DEF LeafBook
        <5>5. QED
          BY <4>1, <5>2, <5>3, <5>4
      <4>4. QED
        BY <4>2, <4>3
    <3>3. QED
      BY <1>1, <3>1, <3>2 DEF FillTypeOK
  <2>4. /\ outFills' \in Seq(Fills)
        /\ carryGroups' \in Seq(CarryGroups)
        /\ IsMap(mirror', Nat, RestingOrders)
        /\ IsMap(liveOrders', Contracts, Nat \ {0})
        /\ IsMap(orderIndex', OrderIds, Nat)
    <3>1. CASE seq \in DOMAIN mirror
      BY <1>2, <1>4, <2>1, <3>1, CaptureType
    <3>2. CASE seq \notin DOMAIN mirror
      BY <1>1, <2>1, <3>2 DEF SeamTypeOK, FillTypeOK
    <3>3. QED
      BY <3>1, <3>2
  <2>5. SeamTypeOK'
    BY <1>1, <2>1, <2>4 DEF SeamTypeOK
  <2>6. FillTypeOK'
    BY <1>1, <2>1, <2>3, <2>4 DEF FillTypeOK
  <2>7. QED
    BY <2>1, <2>5, <2>6, FillStepType
<1>5. QED
  BY <1>3, <1>4

\* So does resting what is left of a ladder.
LEMMA ReseedNextType ==
  ASSUME TypeInv, NEW rests \in BOOLEAN, ReseedNext(rests), UNCHANGED engineVars
  PROVE  TypeInv'
<1> DEFINE c      == LadderContract
           ladder == {<<call, LadderSide>>}
           known  == IF c \in DOMAIN seedIds THEN seedIds[c] ELSE {}
           book   == [LeafBook(c) EXCEPT !.seeds =
                        IF rests THEN @ \cup ladder ELSE @]
<1>1. SeamTypeOK /\ FillTypeOK
  BY DEF TypeInv, TypeOK
<1>2. ladder \subseteq Ladders
  BY <1>1 DEF SeamTypeOK, Ladders, LadderSide, Sides
<1>3. rests => c \in quoted
  BY DEF ReseedNext
<1>4. quoted \subseteq Contracts
  BY <1>1 DEF SeamTypeOK
<1>5. seedIds' = IF rests THEN Put(seedIds, c, known \cup ladder) ELSE seedIds
  BY DEF ReseedNext
<1>6. IsMap(seedIds', Contracts, SUBSET Ladders)
  <2>1. IsMap(seedIds, Contracts, SUBSET Ladders)
    BY <1>1 DEF FillTypeOK
  <2>2. known \cup ladder \in SUBSET Ladders
    BY <1>2, <2>1 DEF IsMap
  <2>3. rests => IsMap(Put(seedIds, c, known \cup ladder), Contracts,
                       SUBSET Ladders)
    BY <1>3, <1>4, <2>1, <2>2, PutIsMap
  <2>4. QED
    BY <1>5, <2>1, <2>3
<1>7. books' = IF c \in quoted THEN Put(books, c, book) ELSE books
  BY DEF ReseedNext
<1>8. book.seeds \subseteq Ladders /\ IsMap(book.orders, Nat, BookOrders)
  <2>1. /\ LeafBook(c).seeds \subseteq Ladders
        /\ IsMap(LeafBook(c).orders, Nat, BookOrders)
    BY <1>1, LeafBookType
  <2>2. book.seeds \in {LeafBook(c).seeds, LeafBook(c).seeds \cup ladder}
    OBVIOUS
  <2>3. book.orders = LeafBook(c).orders
    OBVIOUS
  <2>4. QED
    BY <1>2, <2>1, <2>2, <2>3
<1>9. /\ DOMAIN books' \subseteq Contracts
      /\ \A d \in DOMAIN books' : /\ books'[d].seeds \subseteq Ladders
                                  /\ IsMap(books'[d].orders, Nat, BookOrders)
  <2>1. CASE c \notin quoted
    BY <1>1, <1>7, <2>1 DEF FillTypeOK
  <2>2. CASE c \in quoted
    <3>1. /\ DOMAIN books' = DOMAIN books \cup {c}
          /\ \A d \in DOMAIN books' : books'[d] = IF d = c THEN book
                                                  ELSE books[d]
      BY <1>7, <2>2 DEF Put
    <3>2. QED
      BY <1>1, <1>4, <1>8, <2>2, <3>1 DEF FillTypeOK
  <2>3. QED
    BY <2>1, <2>2
<1>10. SeamTypeOK'
  BY <1>1 DEF SeamTypeOK, ReseedNext
<1>11. FillTypeOK'
  BY <1>1, <1>6, <1>9 DEF FillTypeOK, ReseedNext
<1>12. QED
  BY <1>10, <1>11, FillStepType DEF ReseedNext

\* The steps that only move the phase or the cursor keep the types.
LEMMA PhaseType ==
  ASSUME TypeInv, UNCHANGED engineVars,
         ReseedDone \/ LifecycleDone \/ SubmitSkip \/ SubmitDone
  PROVE  TypeInv'
<1>1. SeamTypeOK' /\ pc' # "advance"
  BY DEF TypeInv, TypeOK, SeamTypeOK, ReseedDone, LifecycleDone, SubmitSkip,
         SubmitDone, Phases
<1>2. FillTypeOK'
  BY DEF TypeInv, TypeOK, FillTypeOK, fillVars, ReseedDone, LifecycleDone,
         SubmitSkip, SubmitDone
<1>3. QED
  BY <1>1, <1>2, FillStepType

\* Phase 1, the cancel halves, keeps the types.
LEMMA LifecycleType ==
  ASSUME TypeInv, LifecycleOne, UNCHANGED engineVars
  PROVE  TypeInv'
<1>1. SeamTypeOK /\ FillTypeOK
  BY DEF TypeInv, TypeOK
<1>2. CASE CancelsResting(cmds[k]) /\ Uncounted(cmds[k].order)
  BY <1>2, FillAbortType DEF LifecycleOne, Errors
<1>3. CASE ~ (CancelsResting(cmds[k]) /\ Uncounted(cmds[k].order))
  <2>1. /\ IF CancelsResting(cmds[k]) THEN CancelResting(cmds[k].order)
           ELSE UNCHANGED fillVars
        /\ k' = k + 1 /\ pc = "lifecycle"
        /\ UNCHANGED <<pc, call, quoted, cmds, exitsEnd, onEndStart,
                       submitIds, outFills, carryGroups, fillGroups, error>>
    BY <1>3 DEF LifecycleOne
  <2>2. SeamTypeOK'
    BY <1>1, <2>1 DEF SeamTypeOK
  <2>3. FillTypeOK'
    <3>1. CASE UNCHANGED fillVars
      BY <1>1, <3>1 DEF FillTypeOK, fillVars
    <3>2. CASE CancelsResting(cmds[k]) /\ cmds[k].order \in DOMAIN orderIndex
      <4> DEFINE order == cmds[k].order
                 seq == orderIndex[order]
                 c == mirror[seq].contract
      <4>1. /\ books' = [books EXCEPT ![c].orders = Drop(@, seq)]
            /\ mirror' = Drop(mirror, seq)
            /\ liveOrders' = Release(liveOrders, c)
            /\ orderIndex' = Drop(orderIndex, order)
            /\ UNCHANGED <<seedIds, nextSeq>>
        BY <2>1, <3>2 DEF CancelResting
      <4>2. c \in DOMAIN liveOrders
        BY <1>3, <3>2 DEF Uncounted, HasLiveOrder
      <4>3. IsMap(liveOrders', Contracts, Nat \ {0})
        BY <1>1, <4>1, <4>2, ReleaseType DEF FillTypeOK
      <4>4. IsMap(mirror', Nat, RestingOrders)
            /\ IsMap(orderIndex', OrderIds, Nat)
        BY <1>1, <4>1, DropIsMap DEF FillTypeOK
      <4>5. /\ DOMAIN books' \subseteq Contracts
            /\ \A d \in DOMAIN books' :
                 /\ books'[d].seeds \subseteq Ladders
                 /\ IsMap(books'[d].orders, Nat, BookOrders)
        <5>1. DOMAIN books' = DOMAIN books
          BY <4>1
        <5>2. ASSUME NEW d \in DOMAIN books
              PROVE  /\ books'[d].seeds \subseteq Ladders
                     /\ IsMap(books'[d].orders, Nat, BookOrders)
          <6>1. /\ books[d].seeds \subseteq Ladders
                /\ IsMap(books[d].orders, Nat, BookOrders)
            BY <1>1 DEF FillTypeOK
          <6>2. IsMap(Drop(books[d].orders, seq), Nat, BookOrders)
            BY <6>1, DropIsMap
          <6>3. CASE d # c
            BY <4>1, <6>1, <6>3
          <6>4. CASE d = c
            <7>1. books'[d] = [books[d] EXCEPT !.orders =
                                 Drop(books[d].orders, seq)]
              BY <4>1, <6>4
            <7>2. /\ books'[d].seeds = books[d].seeds
                  /\ books'[d].orders \in {books[d].orders,
                                           Drop(books[d].orders, seq)}
              BY <7>1
            <7>3. QED
              BY <6>1, <6>2, <7>2
          <6>5. QED
            BY <6>3, <6>4
        <5>3. QED
          BY <1>1, <5>1, <5>2 DEF FillTypeOK
      <4>6. QED
        BY <1>1, <4>1, <4>3, <4>4, <4>5 DEF FillTypeOK
    <3>3. QED
      BY <2>1, <3>1, <3>2 DEF CancelResting
  <2>4. QED
    BY <2>1, <2>2, <2>3, FillStepType
<1>4. QED
  BY <1>2, <1>3

\* What the checks of a submission establish: a typed intent and its id.
LEMMA SubmitChecked ==
  ASSUME TypeInv, AtSubmission, SubmitFault = "none"
  PROVE  cmds[k].intent \in Intents /\ submitIds[Ordinal(k)] \in OrderIds
<1>1. /\ cmds \in Seq(Commands) /\ k \in 1..Len(cmds)
      /\ IsSubmission(cmds[k]) /\ submitIds \in Seq(OrderIds)
  BY DEF TypeInv, TypeOK, SeamTypeOK, AtSubmission
<1>2. cmds[k].intent \in Intents
  BY <1>1, CommandParts
<1>3. Ordinal(k) \in Nat \ {0}
  BY <1>1, OrdinalPositive DEF TypeInv, TypeOK
<1>4. ~ (Ordinal(k) > Len(submitIds))
  BY DEF SubmitFault
<1>5. QED
  BY <1>1, <1>2, <1>3, <1>4

\* fill_submit keeps the types of the channels and of the fill model.
LEMMA FillSubmitType ==
  ASSUME TypeInv, NEW intent \in Intents, NEW id \in OrderIds,
         NEW levels \in Walks, NEW rest \in 0..MaxQty,
         FillSubmit(intent, id, levels, rest)
  PROVE  /\ outFills' \in Seq(Fills)
         /\ fillGroups' \in Seq(FillGroups)
         /\ FillTypeOK'
<1> DEFINE c     == intent.contract
           rests == intent.kind = "gtc" /\ rest > 0
           book  == IF rests THEN [LeafBook(c) EXCEPT !.orders =
                             Put(@, nextSeq, [qty |-> rest, side |-> intent.side])]
                    ELSE LeafBook(c)
<1>1. /\ FillTypeOK /\ outFills \in Seq(Fills) /\ fillGroups \in Seq(FillGroups)
      /\ k \in Nat \ {0} /\ nextSeq \in Nat
  BY DEF TypeInv, TypeOK, SeamTypeOK, FillTypeOK
<1>2. c \in Contracts /\ intent.side \in Sides /\ intent.qty \in Quantities
  BY DEF Intents
<1>3. levels \in Seq(Quantities)
  BY LevelsAssumption DEF Walks, BoundedSeq, SeqOf
<1>4. rests => rest \in Quantities
  BY DomainAssumption DEF Quantities
<1>5. outFills' \in Seq(Fills)
  <2>1. \A i \in DOMAIN levels :
          [contract |-> intent.contract, side |-> intent.side, qty |-> levels[i],
           charge |-> IF i = 1 THEN "first" ELSE "later", owner |-> id] \in Fills
    BY <1>2, <1>3 DEF Fills
  <2>2. LevelFills(intent, id, levels) \in Seq(Fills)
    BY <1>3, <2>1 DEF LevelFills
  <2>3. outFills' = outFills \o LevelFills(intent, id, levels)
    BY DEF FillSubmit
  <2>4. QED
    BY <1>1, <2>2, <2>3
<1>6. fillGroups' \in Seq(FillGroups)
  <2>1. CASE levels = <<>>
    BY <1>1, <2>1 DEF FillSubmit
  <2>2. CASE levels # <<>>
    <3>1. Len(levels) \in Nat \ {0}
      BY <1>3, <2>2
    <3>2. [cmd |-> k, count |-> Len(levels)] \in FillGroups
      BY <1>1, <3>1 DEF FillGroups
    <3>3. fillGroups' = Append(fillGroups, [cmd |-> k, count |-> Len(levels)])
      BY <2>2 DEF FillSubmit
    <3>4. QED
      BY <1>1, <3>2, <3>3
  <2>3. QED
    BY <2>1, <2>2
<1>7. IsMap(mirror', Nat, RestingOrders)
  <2>1. IsMap(mirror, Nat, RestingOrders)
    BY <1>1 DEF FillTypeOK
  <2>2. CASE ~ rests
    BY <2>1, <2>2 DEF FillSubmit
  <2>3. CASE rests
    <3>1. RestingMeta(intent, id, rest) \in RestingOrders
      BY <1>2, <1>4, <2>3 DEF RestingMeta, RestingOrders
    <3>2. mirror' = Put(mirror, nextSeq, RestingMeta(intent, id, rest))
      BY <2>3 DEF FillSubmit
    <3>3. QED
      BY <1>1, <2>1, <3>1, <3>2, PutIsMap
  <2>4. QED
    BY <2>2, <2>3
<1>8. IsMap(orderIndex', OrderIds, Nat)
  BY <1>1, PutIsMap DEF FillSubmit, FillTypeOK
<1>9. IsMap(liveOrders', Contracts, Nat \ {0})
  BY <1>1, <1>2, TrackType DEF FillSubmit, FillTypeOK
<1>10. book.seeds \subseteq Ladders /\ IsMap(book.orders, Nat, BookOrders)
  <2>1. /\ LeafBook(c).seeds \subseteq Ladders
        /\ IsMap(LeafBook(c).orders, Nat, BookOrders)
    BY <1>1, LeafBookType
  <2>2. CASE ~ rests
    BY <2>1, <2>2
  <2>3. CASE rests
    <3>1. [qty |-> rest, side |-> intent.side] \in BookOrders
      BY <1>2, <1>4, <2>3 DEF BookOrders
    <3>2. IsMap(Put(LeafBook(c).orders, nextSeq,
                    [qty |-> rest, side |-> intent.side]), Nat, BookOrders)
      BY <1>1, <2>1, <3>1, PutIsMap
    <3>3. /\ book.seeds = LeafBook(c).seeds
          /\ book.orders \in {LeafBook(c).orders,
               Put(LeafBook(c).orders, nextSeq,
                   [qty |-> rest, side |-> intent.side])}
      BY <2>3
    <3>4. QED
      BY <2>1, <3>2, <3>3
  <2>4. QED
    BY <2>2, <2>3
<1>11. /\ DOMAIN books' \subseteq Contracts
       /\ \A d \in DOMAIN books' : /\ books'[d].seeds \subseteq Ladders
                                   /\ IsMap(books'[d].orders, Nat, BookOrders)
  <2>1. books' = Put(books, c, book)
    BY DEF FillSubmit
  <2>2. /\ DOMAIN books' = DOMAIN books \cup {c}
        /\ \A d \in DOMAIN books' : books'[d] = IF d = c THEN book ELSE books[d]
    BY <2>1 DEF Put
  <2>3. QED
    BY <1>1, <1>2, <1>10, <2>2 DEF FillTypeOK
<1>12. nextSeq' \in Nat
  BY <1>1 DEF FillSubmit
<1>13. seedIds' = seedIds
  BY DEF FillSubmit
<1>14. FillTypeOK'
  BY <1>1, <1>7, <1>8, <1>9, <1>11, <1>12, <1>13 DEF FillTypeOK
<1>15. QED
  BY <1>5, <1>6, <1>14

\* Phase 2, the submissions, keeps the types.
LEMMA SubmissionType ==
  ASSUME TypeInv, UNCHANGED engineVars,
         \/ \E levels \in Walks, rest \in 0..MaxQty : SubmitOne(levels, rest)
         \/ SubmitFails \/ SubmitSelfCross
  PROVE  TypeInv'
<1>1. SeamTypeOK
  BY DEF TypeInv, TypeOK
<1>2. ASSUME NEW levels \in Walks, NEW rest \in 0..MaxQty,
             SubmitOne(levels, rest)
      PROVE  TypeInv'
  <2>1. AtSubmission /\ SubmitFault = "none"
    BY <1>2 DEF SubmitOne
  <2>2. /\ outFills' \in Seq(Fills)
        /\ fillGroups' \in Seq(FillGroups)
        /\ FillTypeOK'
    BY <1>2, <2>1, SubmitChecked, FillSubmitType DEF SubmitOne
  <2>3. SeamTypeOK'
    BY <1>1, <1>2, <2>2 DEF SeamTypeOK, SubmitOne
  <2>4. pc' # "advance"
    BY <1>2, <2>1 DEF SubmitOne, AtSubmission
  <2>5. QED
    BY <2>2, <2>3, <2>4, FillStepType
<1>3. CASE SubmitFails
  BY <1>3, FillAbortType DEF SubmitFails, SubmitFault, Errors
<1>4. CASE SubmitSelfCross
  BY <1>4, FillAbortType DEF SubmitSelfCross, Errors
<1>5. QED
  BY <1>2, <1>3, <1>4

\* Every step of the fill model keeps the types.
LEMMA FillType ==
  ASSUME TypeInv, FillNext, UNCHANGED engineVars
  PROVE  TypeInv'
  BY RefreshType, ReseedCrossType, ReseedNextType, PhaseType, LifecycleType,
     SubmissionType
  DEF FillNext

\* The run starts well typed.
LEMMA InitType ==
  ASSUME Init
  PROVE  TypeInv
<1>1. SeamTypeOK
  BY DomainAssumption DEF Init, SeamInit, SeamTypeOK, Phases, Errors
<1>2. EngineTypeOK
  BY DomainAssumption DEF Init, EngineInit, EngineTypeOK, BooksTypeOK, IsMap
<1>3. FillTypeOK
  BY DEF Init, FillInit, FillTypeOK, IsMap
<1>4. QED
  BY <1>1, <1>2, <1>3 DEF TypeInv, TypeOK, Init, SeamInit

\* Every step keeps the types.
LEMMA StepType ==
  ASSUME TypeInv, [Next]_vars
  PROVE  TypeInv'
<1>1. CASE EngineNext /\ UNCHANGED fillVars
  BY <1>1, EngineType
<1>2. CASE FillNext /\ UNCHANGED engineVars
  BY <1>2, FillType
<1>3. CASE UNCHANGED vars
  BY <1>3 DEF TypeInv, TypeOK, SeamTypeOK, EngineTypeOK, BooksTypeOK,
     FillTypeOK, vars, seamVars, engineVars, fillVars, bookVars, idVars,
     walkVars, ghosts, isLast
<1>4. QED
  BY <1>1, <1>2, <1>3 DEF Next

\* The whole program, engine and fill model, keeps every variable in its type:
\* ids and quantities stay in their ranges, no live-order count reaches zero,
\* and the step counter never passes the final step.
THEOREM TypeCorrect == Spec => []TypeOK
<1>1. Init => TypeInv
  BY InitType
<1>2. TypeInv /\ [Next]_vars => TypeInv'
  BY StepType
<1>3. TypeInv => TypeOK
  BY DEF TypeInv
<1>4. QED
  BY <1>1, <1>2, <1>3, PTL DEF Spec

-----------------------------------------------------------------------------
(***************************************************************************)
(* The three books of a replay run - the inventory, the trade log and the  *)
(* bundle collector - agree in every reachable state of Replay, for every  *)
(* value of the constants.                                                 *)
(* LegsAgree is not inductive.  An extension writes the trade of the       *)
(* pending entry into the bundle's leg, so the entry must hold the trade   *)
(* the leg was opened under; and an opening must find its position id in   *)
(* none of the three books, so every id in use lies below the counter.     *)
(***************************************************************************)

\* Every position id in use was minted by the counter.
IdsMinted ==
  /\ \A p \in DOMAIN inventory : p \in 1..(nextPos - 1)
  /\ \A o \in DOMAIN pending : pending[o].pos \in 0..(nextPos - 1)

\* The entry of a working order remembers the trade of the leg it grew.
EntriesKnowTrade ==
  \A o \in DOMAIN pending :
    pending[o].pos \in DOMAIN inventory =>
      tradeOpen[pending[o].pos].trade = pending[o].trade

\* The inductive invariant.
LegsInv == TypeInv /\ LegsAgree /\ IdsMinted /\ EntriesKnowTrade

\* An opening finds its leg's id unused, and writes the same leg three times.
LEMMA OpenLegAgrees ==
  ASSUME LegsAgree, NEW p, p \notin DOMAIN inventory, NEW trade, NEW run,
         NEW order, NEW first, OpenLeg(p, trade, run, order, first)
  PROVE  /\ LegsAgree'
         /\ DOMAIN inventory' = DOMAIN inventory \cup {p}
         /\ tradeOpen'[p].trade = trade
         /\ \A r \in DOMAIN inventory : tradeOpen'[r].trade = tradeOpen[r].trade
<1>1. /\ DOMAIN inventory' = DOMAIN inventory \cup {p}
      /\ DOMAIN tradeOpen' = DOMAIN tradeOpen \cup {p}
      /\ DOMAIN openLegs' = DOMAIN openLegs \cup {p}
  BY DEF OpenLeg, Put
<1>2. /\ inventory'[p].qty = TotalQty(run)
      /\ tradeOpen'[p].remaining = TotalQty(run)
      /\ tradeOpen'[p].trade = trade
      /\ openLegs'[p] = trade
  BY DEF OpenLeg, Put
<1>3. \A r \in DOMAIN inventory : /\ inventory'[r] = inventory[r]
                                  /\ tradeOpen'[r] = tradeOpen[r]
                                  /\ openLegs'[r] = openLegs[r]
  BY DEF OpenLeg, Put, LegsAgree
<1>4. QED
  BY <1>1, <1>2, <1>3 DEF LegsAgree

\* An extension grows the leg in both books and rewrites the trade it has.
LEMMA ExtendLegAgrees ==
  ASSUME LegsAgree, BooksTypeOK, NEW p \in DOMAIN inventory, NEW trade,
         tradeOpen[p].trade = trade, NEW run, NEW order, NEW first,
         ExtendLeg(p, trade, run, order, first)
  PROVE  /\ LegsAgree'
         /\ DOMAIN inventory' = DOMAIN inventory
         /\ \A r \in DOMAIN inventory : tradeOpen'[r].trade = tradeOpen[r].trade
<1> DEFINE q == TotalQty(run)
<1>1. /\ p \in DOMAIN tradeOpen /\ p \in DOMAIN openLegs
      /\ inventory[p] \in Legs /\ tradeOpen[p] \in LoggedLegs
      /\ inventory[p].qty = tradeOpen[p].remaining
  BY DEF LegsAgree, BooksTypeOK, IsMap
<1>2. /\ DOMAIN inventory' = DOMAIN inventory
      /\ DOMAIN tradeOpen' = DOMAIN tradeOpen
      /\ DOMAIN openLegs' = DOMAIN openLegs
  BY <1>1 DEF ExtendLeg, LogExtend, Put
<1>3. \A r \in DOMAIN inventory \ {p} :
        /\ inventory'[r] = inventory[r]
        /\ tradeOpen'[r] = tradeOpen[r]
        /\ openLegs'[r] = openLegs[r]
  BY DEF ExtendLeg, LogExtend, Put, LegsAgree
<1>4. /\ inventory'[p] = [inventory[p] EXCEPT !.qty = @ + q]
      /\ tradeOpen'[p] = [tradeOpen[p] EXCEPT !.remaining = @ + q]
      /\ openLegs'[p] = trade
  BY <1>1 DEF ExtendLeg, LogExtend, Put
<1>5. /\ inventory'[p].qty = inventory[p].qty + q
      /\ tradeOpen'[p].remaining = tradeOpen[p].remaining + q
      /\ tradeOpen'[p].trade = tradeOpen[p].trade
  BY <1>1, <1>4 DEF Legs, LoggedLegs
<1>6. QED
  BY <1>1, <1>2, <1>3, <1>4, <1>5 DEF LegsAgree

\* A close that passes the checks takes the leg out of all three books, or out
\* of none and the same size out of two.
LEMMA CloseLegAgrees ==
  ASSUME LegsAgree, BooksTypeOK, NEW p, NEW run, TotalQty(run) \in Quantities,
         CloseFault(p, TotalQty(run)) = "none", NEW order, NEW first, NEW reason,
         CloseLeg(p, run, order, first, reason)
  PROVE  /\ LegsAgree'
         /\ DOMAIN inventory' \subseteq DOMAIN inventory
         /\ \A r \in DOMAIN inventory' :
              tradeOpen'[r].trade = tradeOpen[r].trade
<1> DEFINE q == TotalQty(run)
<1>1. /\ p \in DOMAIN inventory /\ p \in DOMAIN tradeOpen
      /\ p \in DOMAIN openLegs /\ ~ (q > inventory[p].qty)
  BY DEF CloseFault
<1>2. /\ inventory[p] \in Legs /\ tradeOpen[p] \in LoggedLegs
      /\ inventory[p].qty = tradeOpen[p].remaining
  BY <1>1 DEF LegsAgree, BooksTypeOK, IsMap
<1>3. inventory[p].qty \in Quantities
  BY <1>2 DEF Legs
<1>4. FullClose(p, q) <=> q >= tradeOpen[p].remaining
  BY <1>1, <1>2, <1>3, DomainAssumption DEF FullClose, Quantities
<1>5. CASE FullClose(p, q)
  <2>1. /\ inventory' = Drop(inventory, p)
        /\ tradeOpen' = Drop(tradeOpen, p)
        /\ openLegs' = Drop(openLegs, p)
    BY <1>4, <1>5 DEF CloseLeg
  <2>2. QED
    BY <2>1 DEF LegsAgree, Drop
<1>6. CASE ~ FullClose(p, q)
  <2>1. /\ inventory' = [inventory EXCEPT ![p].qty = @ - q]
        /\ tradeOpen' = [tradeOpen EXCEPT ![p].remaining = @ - q]
        /\ openLegs' = openLegs
    BY <1>4, <1>6 DEF CloseLeg
  <2>2. /\ inventory'[p].qty = inventory[p].qty - q
        /\ tradeOpen'[p].remaining = tradeOpen[p].remaining - q
        /\ tradeOpen'[p].trade = tradeOpen[p].trade
    BY <1>1, <1>2, <2>1 DEF Legs, LoggedLegs
  <2>3. \A r \in DOMAIN inventory \ {p} :
          /\ inventory'[r] = inventory[r]
          /\ tradeOpen'[r] = tradeOpen[r]
    BY <2>1 DEF LegsAgree
  <2>4. /\ DOMAIN inventory' = DOMAIN inventory
        /\ DOMAIN tradeOpen' = DOMAIN tradeOpen
    BY <2>1
  <2>5. QED
    BY <1>2, <2>1, <2>2, <2>3, <2>4 DEF LegsAgree
<1>7. QED
  BY <1>5, <1>6

\* After a carried run the registry holds old entries, and the one that shrank.
LEMMA ShrunkEntries ==
  ASSUME NEW trade, NEW p, NEW o \in DOMAIN Shrunk(trade, p)
  PROVE  \/ o \in DOMAIN pending /\ Shrunk(trade, p)[o] = pending[o]
         \/ Shrunk(trade, p)[o].pos = p /\ Shrunk(trade, p)[o].trade = trade
  BY DEF Shrunk, ShrunkEntry, Put, Drop

\* After a filled submission it holds old entries, and the remainder's.
LEMMA RemainderEntries ==
  ASSUME NEW trade, NEW p, NEW o \in DOMAIN WithRemainder(trade, p)
  PROVE  \/ o \in DOMAIN pending /\ WithRemainder(trade, p)[o] = pending[o]
         \/ /\ WithRemainder(trade, p)[o].pos = p
            /\ WithRemainder(trade, p)[o].trade = trade
  BY DEF WithRemainder, RestingEntry, AfterCancel, Put, Drop

\* After an order that crossed nothing, old entries and its own, without a leg.
LEMMA RestingEntries ==
  ASSUME NEW rest, NEW trade,
         NEW o \in DOMAIN Put(AfterCancel, WalkOrder, RestingEntry(rest, trade, 0, 0))
  PROVE  LET after == Put(AfterCancel, WalkOrder, RestingEntry(rest, trade, 0, 0))
         IN  \/ o \in DOMAIN pending /\ after[o] = pending[o]
             \/ after[o].pos = 0
  BY DEF RestingEntry, AfterCancel, Put, Drop

\* A step that leaves the books alone and adds no entry with a leg keeps the
\* invariant.
LEMMA EntriesShrinkKeepsInv ==
  ASSUME LegsInv, TypeInv', UNCHANGED <<bookVars, nextPos>>,
         \A o \in DOMAIN pending' :
           \/ o \in DOMAIN pending /\ pending'[o] = pending[o]
           \/ pending'[o].pos = 0
  PROVE  LegsInv'
<1>1. LegsAgree'
  BY DEF LegsInv, LegsAgree, bookVars
<1>2. nextPos \in Nat \ {0}
  BY DEF LegsInv, TypeInv, TypeOK, EngineTypeOK
<1>3. IdsMinted'
  BY <1>2 DEF LegsInv, IdsMinted, bookVars
<1>4. EntriesKnowTrade'
  BY <1>2 DEF LegsInv, IdsMinted, EntriesKnowTrade, bookVars
<1>5. QED
  BY <1>1, <1>3, <1>4 DEF LegsInv

\* A step that opens leg nextPos and gives it to one entry keeps the invariant.
LEMMA OpeningKeepsInv ==
  ASSUME LegsInv, TypeInv', NEW trade, NEW run, NEW order, NEW first,
         OpenLeg(nextPos, trade, run, order, first),
         nextPos' = nextPos + 1,
         \A o \in DOMAIN pending' :
           \/ o \in DOMAIN pending /\ pending'[o] = pending[o]
           \/ pending'[o].pos = nextPos /\ pending'[o].trade = trade
  PROVE  LegsInv'
<1>1. nextPos \in Nat \ {0}
  BY DEF LegsInv, TypeInv, TypeOK, EngineTypeOK
<1>2. nextPos \notin DOMAIN inventory
  BY <1>1 DEF LegsInv, IdsMinted
<1>3. /\ LegsAgree'
      /\ DOMAIN inventory' = DOMAIN inventory \cup {nextPos}
      /\ tradeOpen'[nextPos].trade = trade
      /\ \A r \in DOMAIN inventory : tradeOpen'[r].trade = tradeOpen[r].trade
  BY <1>2, OpenLegAgrees DEF LegsInv
<1>4. IdsMinted'
  BY <1>1, <1>3 DEF LegsInv, IdsMinted
<1>5. EntriesKnowTrade'
  <2>1. SUFFICES ASSUME NEW o \in DOMAIN pending',
                        pending'[o].pos \in DOMAIN inventory'
                 PROVE  tradeOpen'[pending'[o].pos].trade = pending'[o].trade
    BY DEF EntriesKnowTrade
  <2>2. CASE pending'[o].pos = nextPos /\ pending'[o].trade = trade
    BY <1>3, <2>2
  <2>3. CASE o \in DOMAIN pending /\ pending'[o] = pending[o]
    <3>1. pending[o].pos # nextPos
      BY <1>1, <2>3 DEF LegsInv, IdsMinted
    <3>2. pending[o].pos \in DOMAIN inventory
      BY <1>3, <2>1, <2>3, <3>1
    <3>3. QED
      BY <1>3, <2>3, <3>2 DEF LegsInv, EntriesKnowTrade
  <2>4. QED
    BY <2>2, <2>3
<1>6. QED
  BY <1>3, <1>4, <1>5 DEF LegsInv

\* A step that closes contracts of a leg and forms no entry but one without a
\* leg, or one with the leg and trade of an old entry, keeps the invariant.
LEMMA ClosingKeepsInv ==
  ASSUME LegsInv, TypeInv', NEW p, NEW run, TotalQty(run) \in Quantities,
         CloseFault(p, TotalQty(run)) = "none", NEW order, NEW first, NEW reason,
         CloseLeg(p, run, order, first, reason), UNCHANGED nextPos,
         \A o \in DOMAIN pending' :
           \/ pending'[o].pos = 0
           \/ \E old \in DOMAIN pending : /\ pending'[o].pos = pending[old].pos
                                          /\ pending'[o].trade = pending[old].trade
  PROVE  LegsInv'
<1>1. nextPos \in Nat \ {0} /\ BooksTypeOK
  BY DEF LegsInv, TypeInv, TypeOK, EngineTypeOK
<1>2. /\ LegsAgree'
      /\ DOMAIN inventory' \subseteq DOMAIN inventory
      /\ \A r \in DOMAIN inventory' : tradeOpen'[r].trade = tradeOpen[r].trade
  BY <1>1, CloseLegAgrees DEF LegsInv
<1>3. IdsMinted'
  BY <1>1, <1>2 DEF LegsInv, IdsMinted
<1>4. EntriesKnowTrade'
  BY <1>1, <1>2 DEF LegsInv, IdsMinted, EntriesKnowTrade
<1>5. QED
  BY <1>2, <1>3, <1>4 DEF LegsInv

\* The carry prefix keeps the books in agreement.
LEMMA CarryKeepsInv ==
  ASSUME LegsInv, TypeInv',
         CarryOpensLeg \/ CarryExtendsLeg \/ CarryClosesLeg
  PROVE  LegsInv'
<1>1. TypeInv
  BY DEF LegsInv
<1>2. CASE CarryOpensLeg
  <2> DEFINE trade == IF CarryEntry.trade = 0 THEN nextTrade ELSE CarryEntry.trade
  <2>1. /\ OpenLeg(nextPos, trade, CarryRun, CarryOrder, NextSeqOf(CarryEntry))
        /\ pending' = Shrunk(trade, nextPos)
        /\ nextPos' = nextPos + 1
    BY <1>2 DEF CarryOpensLeg
  <2>2. QED
    BY <2>1, ShrunkEntries, OpeningKeepsInv
<1>3. CASE CarryExtendsLeg
  <2> DEFINE p == CarryEntry.pos
             trade == CarryEntry.trade
  <2>1. /\ AtCarry /\ CarryFault = "none"
        /\ CarryEntry.intent.action = "open" /\ p # 0
        /\ ExtendLeg(p, trade, CarryRun, CarryOrder, NextSeqOf(CarryEntry))
        /\ pending' = Shrunk(trade, p)
        /\ UNCHANGED nextPos
    BY <1>3 DEF CarryExtendsLeg
  <2>2. CarryOrder \in DOMAIN pending /\ p \in DOMAIN inventory
    BY <1>1, <2>1, CarryChecked DEF ExtendFault
  <2>3. tradeOpen[p].trade = trade
    BY <2>2 DEF LegsInv, EntriesKnowTrade, CarryEntry
  <2>4. /\ LegsAgree'
        /\ DOMAIN inventory' = DOMAIN inventory
        /\ \A r \in DOMAIN inventory : tradeOpen'[r].trade = tradeOpen[r].trade
    BY <2>1, <2>2, <2>3, ExtendLegAgrees
    DEF LegsInv, TypeInv, TypeOK, EngineTypeOK
  <2>5. \A o \in DOMAIN pending' :
          \E old \in DOMAIN pending : /\ pending'[o].pos = pending[old].pos
                                      /\ pending'[o].trade = pending[old].trade
    BY <2>1, <2>2, ShrunkEntries DEF CarryEntry
  <2>6. IdsMinted' /\ EntriesKnowTrade'
    BY <2>1, <2>4, <2>5 DEF LegsInv, IdsMinted, EntriesKnowTrade
  <2>7. QED
    BY <2>4, <2>6 DEF LegsInv
<1>4. CASE CarryClosesLeg
  <2>1. /\ AtCarry /\ CarryFault = "none"
        /\ CarryEntry.intent.action = "close"
        /\ CloseLeg(CarryEntry.intent.pos, CarryRun, CarryOrder,
                    NextSeqOf(CarryEntry), CarryEntry.reason)
        /\ pending' = Shrunk(CarryEntry.trade, CarryEntry.pos)
        /\ UNCHANGED nextPos
    BY <1>4 DEF CarryClosesLeg
  <2>2. /\ CarryOrder \in DOMAIN pending
        /\ TotalQty(CarryRun) \in Quantities
        /\ CloseFault(CarryEntry.intent.pos, TotalQty(CarryRun)) = "none"
    BY <1>1, <2>1, CarryChecked
  <2>3. \A o \in DOMAIN pending' :
          \E old \in DOMAIN pending : /\ pending'[o].pos = pending[old].pos
                                      /\ pending'[o].trade = pending[old].trade
    BY <2>1, <2>2, ShrunkEntries DEF CarryEntry
  <2>4. QED
    BY <2>1, <2>2, <2>3, ClosingKeepsInv
<1>5. QED
  BY <1>2, <1>3, <1>4

\* The command walk keeps the books in agreement.
LEMMA WalkKeepsInv ==
  ASSUME LegsInv, TypeInv',
         WalkCancel \/ WalkRestsOpen \/ WalkRestsClose \/ WalkOpens \/ WalkCloses
  PROVE  LegsInv'
<1>1. TypeInv
  BY DEF LegsInv
<1>2. CASE WalkCancel
  <2>1. \A o \in DOMAIN pending' : o \in DOMAIN pending /\ pending'[o] = pending[o]
    BY <1>2 DEF WalkCancel, AfterCancel, Drop
  <2>2. QED
    BY <1>2, <2>1, EntriesShrinkKeepsInv DEF WalkCancel
<1>3. CASE WalkRestsOpen
  BY <1>3, RestingEntries, EntriesShrinkKeepsInv DEF WalkRestsOpen
<1>4. CASE WalkRestsClose
  BY <1>4, RestingEntries, EntriesShrinkKeepsInv DEF WalkRestsClose
<1>5. CASE WalkOpens
  <2>1. /\ OpenLeg(nextPos, OpenTrade, WalkRun, WalkOrder, 0)
        /\ nextPos' = nextPos + 1
        /\ pending' = WithRemainder(OpenTrade, nextPos)
    BY <1>5 DEF WalkOpens
  <2>2. QED
    BY <2>1, RemainderEntries, OpeningKeepsInv
<1>6. CASE WalkCloses
  <2>1. /\ Walking /\ WalkFault = "none" /\ WalkCount # 0
        /\ WalkIntent.action = "close"
        /\ CloseLeg(WalkIntent.pos, WalkRun, WalkOrder, 0, WalkReason)
        /\ pending' = WithRemainder(0, 0)
        /\ UNCHANGED nextPos
    BY <1>6 DEF WalkCloses
  <2>2. /\ TotalQty(WalkRun) \in Quantities
        /\ CloseFault(WalkIntent.pos, TotalQty(WalkRun)) = "none"
    BY <1>1, <2>1, WalkChecked
  <2>3. \A o \in DOMAIN pending' :
          \/ pending'[o].pos = 0
          \/ \E old \in DOMAIN pending : /\ pending'[o].pos = pending[old].pos
                                         /\ pending'[o].trade = pending[old].trade
    BY <2>1, RemainderEntries
  <2>4. QED
    BY <2>1, <2>2, <2>3, ClosingKeepsInv
<1>7. QED
  BY <1>2, <1>3, <1>4, <1>5, <1>6

\* No other step of the program touches a book, the registry or the counter.
LEMMA OthersKeepInv ==
  ASSUME LegsInv, TypeInv', UNCHANGED <<bookVars, pending, nextPos>>
  PROVE  LegsInv'
  BY EntriesShrinkKeepsInv

\* Every step keeps the invariant.
LEMMA StepKeepsInv ==
  ASSUME LegsInv, [Next]_vars
  PROVE  LegsInv'
<1>1. TypeInv'
  BY StepType DEF LegsInv
<1>2. CASE UNCHANGED engineVars
  BY <1>1, <1>2, OthersKeepInv DEF engineVars, idVars
<1>3. CASE EngineNext
  <2>1. CASE \/ OnStart \/ Exits \/ OnSnapshot \/ OnEnd \/ Validate
             \/ CarryFails \/ CarryDone \/ WalkFails \/ WalkDone
             \/ Settle \/ SettleExpired \/ Advance
    <3>1. UNCHANGED <<bookVars, pending, nextPos>>
      BY <2>1 DEF OnStart, Exits, OnSnapshot, OnEnd, Validate, CarryFails,
         CarryDone, WalkFails, WalkDone, Settle, SettleExpired, Advance,
         AbortEngine, engineVars, idVars
    <3>2. QED
      BY <1>1, <3>1, OthersKeepInv
  <2>2. CASE MintIds
    BY <1>1, <2>2, OthersKeepInv DEF MintIds
  <2>3. CASE CarryOpensLeg \/ CarryExtendsLeg \/ CarryClosesLeg
    BY <1>1, <2>3, CarryKeepsInv
  <2>4. CASE \/ WalkCancel \/ WalkRestsOpen \/ WalkRestsClose
             \/ WalkOpens \/ WalkCloses
    BY <1>1, <2>4, WalkKeepsInv
  <2>5. QED
    BY <1>3, <2>1, <2>2, <2>3, <2>4 DEF EngineNext
<1>4. QED
  BY <1>2, <1>3 DEF Next, vars

\* The inventory, the trade log and the bundle collector always hold the same
\* legs, of the same size and trade, for any number of contracts, orders and
\* steps and any order sizes.
THEOREM LegsAlwaysAgree == Spec => []LegsAgree
<1>1. Init => LegsInv
  BY InitType DEF Init, EngineInit, LegsInv, LegsAgree, IdsMinted, EntriesKnowTrade
<1>2. LegsInv /\ [Next]_vars => LegsInv'
  BY StepKeepsInv
<1>3. LegsInv => LegsAgree
  BY DEF LegsInv
<1>4. QED
  BY <1>1, <1>2, <1>3, PTL DEF Spec

-----------------------------------------------------------------------------
(* What the agreement is for: the books' own guards are unreachable.       *)

\* The run has not been aborted by a book that misses a leg.
NoBookDesync == error \notin BookDesyncs

\* With the books in agreement no check of theirs fails.
LEMMA AgreeingBooksPass ==
  ASSUME LegsAgree
  PROVE  /\ \A p, q : CloseFault(p, q) \notin BookDesyncs
         /\ \A p, q : ExtendFault(p, q) \notin BookDesyncs
         /\ SettleFault \notin BookDesyncs
<1>1. \A p \in DOMAIN inventory : p \in DOMAIN tradeOpen /\ p \in DOMAIN openLegs
  BY DEF LegsAgree
<1>2. \A p, q : CloseFault(p, q) \notin BookDesyncs
  BY <1>1 DEF CloseFault, BookDesyncs
<1>3. \A p, q : ExtendFault(p, q) \notin BookDesyncs
  BY <1>1 DEF ExtendFault, BookDesyncs
<1>4. SettleFault \notin BookDesyncs
  BY <1>1 DEF SettleFault, BookDesyncs
<1>5. QED
  BY <1>2, <1>3, <1>4

\* No step aborts because two of the books disagree.
LEMMA StepNeverDesyncs ==
  ASSUME LegsInv, NoBookDesync, [Next]_vars
  PROVE  NoBookDesync'
<1>1. LegsAgree
  BY DEF LegsInv
<1>2. ASSUME NEW cause, cause \notin BookDesyncs, AbortSeam(cause)
      PROVE  NoBookDesync'
  BY <1>2 DEF AbortSeam, NoBookDesync
<1>3. CASE error' = error
  BY <1>3 DEF NoBookDesync
<1>4. CASE EngineNext
  <2>1. CASE \/ OnStart \/ Exits \/ OnSnapshot \/ MintIds \/ CarryOpensLeg
             \/ CarryExtendsLeg \/ CarryClosesLeg \/ CarryDone \/ WalkCancel
             \/ WalkRestsOpen \/ WalkRestsClose \/ WalkOpens \/ WalkCloses
             \/ Advance
    <3>1. error' = error
      BY <2>1 DEF OnStart, Exits, OnSnapshot, MintIds, CarryOpensLeg,
         CarryExtendsLeg, CarryClosesLeg, CarryDone, WalkCancel, WalkRestsOpen,
         WalkRestsClose, WalkOpens, WalkCloses, Advance, CarryNext, WalkNext
    <3>2. QED
      BY <1>3, <3>1
  <2>2. CASE OnEnd
    <3>1. error' = error \/ AbortEngine("on_end_non_close")
      BY <2>2 DEF OnEnd
    <3>2. QED
      BY <1>2, <1>3, <3>1 DEF AbortEngine, BookDesyncs
  <2>3. CASE Validate
    <3>1. ValidateFault \notin BookDesyncs
      BY DEF ValidateFault, BookDesyncs
    <3>2. error' = error \/ AbortEngine(ValidateFault)
      BY <2>3 DEF Validate
    <3>3. QED
      BY <1>2, <1>3, <3>1, <3>2 DEF AbortEngine
  <2>4. CASE CarryFails
    <3>1. CarryFault \notin BookDesyncs
      BY <1>1, AgreeingBooksPass DEF CarryFault, BookDesyncs
    <3>2. QED
      BY <1>2, <2>4, <3>1 DEF CarryFails, AbortEngine
  <2>5. CASE WalkFails
    <3>1. WalkFault \notin BookDesyncs
      BY <1>1, AgreeingBooksPass DEF WalkFault, BookDesyncs
    <3>2. QED
      BY <1>2, <2>5, <3>1 DEF WalkFails, AbortEngine
  <2>6. CASE WalkDone
    <3>1. error' = error \/ AbortEngine("uncorrelated")
      BY <2>6 DEF WalkDone
    <3>2. QED
      BY <1>2, <1>3, <3>1 DEF AbortEngine, BookDesyncs
  <2>7. CASE Settle
    <3>1. error' = error \/ AbortEngine(SettleFault)
      BY <2>7 DEF Settle
    <3>2. QED
      BY <1>1, <1>2, <1>3, <3>1, AgreeingBooksPass DEF AbortEngine
  <2>8. CASE SettleExpired
    BY <1>2, <2>8 DEF SettleExpired, AbortEngine, BookDesyncs
  <2>9. QED
    BY <1>4, <2>1, <2>2, <2>3, <2>4, <2>5, <2>6, <2>7, <2>8 DEF EngineNext
<1>5. CASE FillNext
  <2>1. CASE \/ RefreshBooks \/ \E rests \in BOOLEAN : ReseedNext(rests)
             \/ ReseedDone \/ LifecycleDone \/ SubmitSkip \/ SubmitDone
             \/ \E levels \in Walks, rest \in 0..MaxQty : SubmitOne(levels, rest)
    <3>1. error' = error
      BY <2>1 DEF RefreshBooks, ReseedNext, ReseedDone, LifecycleDone,
         SubmitSkip, SubmitDone, SubmitOne
    <3>2. QED
      BY <1>3, <3>1
  <2>2. ASSUME NEW seq, NEW q, ReseedCross(seq, q)
        PROVE  NoBookDesync'
    <3>1. CaptureFault(seq, q) \notin BookDesyncs
      BY DEF CaptureFault, BookDesyncs
    <3>2. error' = error \/ AbortFill(CaptureFault(seq, q))
      BY <2>2 DEF ReseedCross
    <3>3. QED
      BY <1>2, <1>3, <3>1, <3>2 DEF AbortFill
  <2>3. CASE LifecycleOne
    <3>1. error' = error \/ AbortFill("live_desync")
      BY <2>3 DEF LifecycleOne
    <3>2. QED
      BY <1>2, <1>3, <3>1 DEF AbortFill, BookDesyncs
  <2>4. CASE SubmitFails
    <3>1. SubmitFault \notin BookDesyncs
      BY DEF SubmitFault, BookDesyncs
    <3>2. QED
      BY <1>2, <2>4, <3>1 DEF SubmitFails, AbortFill
  <2>5. CASE SubmitSelfCross
    BY <1>2, <2>5 DEF SubmitSelfCross, AbortFill, BookDesyncs
  <2>6. QED
    BY <1>5, <2>1, <2>2, <2>3, <2>4, <2>5 DEF FillNext
<1>6. QED
  BY <1>3, <1>4, <1>5 DEF Next, vars, seamVars

\* The guards the code keeps against its own bookkeeping - record_close and
\* record_open_extend without a tracked leg, record_close_fill or a position
\* row without one - never fire, whatever the strategy and the tape do.
THEOREM BooksNeverDesync == Spec => []NoBookDesync
<1>1. Init => LegsInv
  BY InitType DEF Init, EngineInit, LegsInv, LegsAgree, IdsMinted, EntriesKnowTrade
<1>2. Init => NoBookDesync
  BY DEF Init, SeamInit, BookDesyncs, NoBookDesync
<1>3. LegsInv /\ [Next]_vars => LegsInv'
  BY StepKeepsInv
<1>4. LegsInv /\ NoBookDesync /\ [Next]_vars => NoBookDesync'
  BY StepNeverDesyncs
<1>5. QED
  BY <1>1, <1>2, <1>3, <1>4, PTL DEF Spec

-----------------------------------------------------------------------------
(* The books of the fill model.                                            *)

\* Each entry of the mirror is the one its order's index names.
Bridged ==
  /\ \A o \in DOMAIN orderIndex :
       orderIndex[o] \in DOMAIN mirror /\ mirror[orderIndex[o]].order = o
  /\ \A seq \in DOMAIN mirror :
       /\ mirror[seq].order \in DOMAIN orderIndex
       /\ orderIndex[mirror[seq].order] = seq

RestingAt(c) == {seq \in DOMAIN mirror : mirror[seq].contract = c}

\* The sequence ids in use were handed out, and the live index counts them.
Counted ==
  /\ \A seq \in DOMAIN mirror : seq < nextSeq
  /\ DOMAIN liveOrders = {mirror[seq].contract : seq \in DOMAIN mirror}
  /\ \A c \in DOMAIN liveOrders : liveOrders[c] = Cardinality(RestingAt(c))

InBook(seq) ==
  /\ mirror[seq].contract \in DOMAIN books
  /\ seq \in DOMAIN books[mirror[seq].contract].orders
  /\ books[mirror[seq].contract].orders[seq] =
       [qty |-> mirror[seq].remaining, side |-> mirror[seq].side]

\* The leaf books hold the orders of the mirror.
Mirrored ==
  /\ \A seq \in DOMAIN mirror : InBook(seq)
  /\ \A c \in DOMAIN books : \A seq \in DOMAIN books[c].orders :
       seq \in DOMAIN mirror /\ mirror[seq].contract = c

InCall == {"refresh", "reseed", "lifecycle", "submit"}

\* The submissions phase 2 has passed.
Passed == IF pc = "submit" THEN Ordinal(k - 1) ELSE 0

\* The ids of the call are ascending, enough, and above those that rest as
\* long as they are not dealt out.
Dealt ==
  /\ \A o \in DOMAIN orderIndex : o < nextOrder
  /\ pc \in InCall =>
       /\ Len(submitIds) = Submissions(cmds)
       /\ \A i \in DOMAIN submitIds : submitIds[i] < nextOrder
       /\ \A i, j \in DOMAIN submitIds : i < j => submitIds[i] < submitIds[j]
       /\ \A i \in DOMAIN submitIds : i > Passed =>
            \A o \in DOMAIN orderIndex : o < submitIds[i]

\* Every ladder in a book is on record for the next refresh.
SeedsKnown ==
  \A c \in DOMAIN books :
    books[c].seeds \subseteq IF c \in DOMAIN seedIds THEN seedIds[c] ELSE {}

\* A book is its ladders and its orders.
Shaped ==
  \A c \in DOMAIN books : books[c] = [seeds |-> books[c].seeds, orders |-> books[c].orders]

\* The inductive invariant.
FillInv ==
  /\ TypeInv /\ Shaped /\ Bridged /\ Counted /\ Dealt
  /\ pc # "failed" => Mirrored /\ SeedsKnown

\* The model never reports that its own books disagree, and every submission of
\* the queue has an id when its turn comes.
FillDesyncs == {"refresh_desync", "live_desync"}
NoFillDesync ==
  /\ error \notin FillDesyncs
  /\ AtSubmission => SubmitFault # "under_cover"

-----------------------------------------------------------------------------
(* Ordinals.                                                               *)

\* The submissions up to an index are a finite set.
LEMMA PrefixFinite ==
  ASSUME NEW i \in Int
  PROVE  /\ IsFiniteSet({j \in 1..i : IsSubmission(cmds[j])})
         /\ Ordinal(i) \in Nat
<1>1. IsFiniteSet(1..i)
  BY FS_Interval
<1>2. {j \in 1..i : IsSubmission(cmds[j])} \in SUBSET (1..i)
  OBVIOUS
<1>3. IsFiniteSet({j \in 1..i : IsSubmission(cmds[j])})
  BY <1>1, <1>2, FS_Subset
<1>4. QED
  BY <1>3, FS_CardinalityType DEF Ordinal

\* The ordinal counts one submission more at a submission, and none elsewhere.
LEMMA OrdinalSteps ==
  ASSUME NEW i \in Nat \ {0}
  PROVE  Ordinal(i) = IF IsSubmission(cmds[i]) THEN Ordinal(i - 1) + 1
                      ELSE Ordinal(i - 1)
<1> DEFINE S == {j \in 1..(i - 1) : IsSubmission(cmds[j])}
           T == {j \in 1..i : IsSubmission(cmds[j])}
<1>1. IsFiniteSet(S) /\ i \notin S
  BY PrefixFinite
<1>2. T = IF IsSubmission(cmds[i]) THEN S \cup {i} ELSE S
  <2>1. \A j \in 1..i : j = i \/ j \in 1..(i - 1)
    OBVIOUS
  <2>2. \A j \in 1..(i - 1) : j \in 1..i
    OBVIOUS
  <2>3. i \in 1..i
    OBVIOUS
  <2>4. QED
    BY <2>1, <2>2, <2>3
<1>3. Cardinality(S \cup {i}) = Cardinality(S) + 1
  BY <1>1, FS_AddElement
<1>4. QED
  BY <1>2, <1>3 DEF Ordinal

\* Nothing was passed before the first command.
LEMMA OrdinalZero == Ordinal(0) = 0
<1>1. {j \in 1..0 : IsSubmission(cmds[j])} = {}
  OBVIOUS
<1>2. QED
  BY <1>1, FS_EmptySet DEF Ordinal

\* No ordinal exceeds the submissions of the queue.
LEMMA OrdinalBound ==
  ASSUME cmds \in Seq(Commands), NEW i \in 1..Len(cmds)
  PROVE  Ordinal(i) <= Submissions(cmds)
<1> DEFINE S == {j \in 1..i : IsSubmission(cmds[j])}
           T == {j \in DOMAIN cmds : IsSubmission(cmds[j])}
<1>1. IsFiniteSet(T)
  <2>1. IsFiniteSet(DOMAIN cmds)
    BY FS_Interval
  <2>2. T \in SUBSET DOMAIN cmds
    OBVIOUS
  <2>3. QED
    BY <2>1, <2>2, FS_Subset
<1>2. S \in SUBSET T
  OBVIOUS
<1>3. Cardinality(S) <= Cardinality(T)
  BY <1>1, <1>2, FS_Subset
<1>4. QED
  BY <1>3 DEF Ordinal, Submissions

-----------------------------------------------------------------------------
(* The mirror and its two indexes.                                         *)

\* The mirror is finite, its sequence ids being counted.
LEMMA MirrorFinite ==
  ASSUME TypeInv, Counted
  PROVE  /\ IsFiniteSet(DOMAIN mirror)
         /\ \A c : IsFiniteSet(RestingAt(c))
<1>1. nextSeq \in Nat /\ DOMAIN mirror \subseteq Nat
  BY DEF TypeInv, TypeOK, FillTypeOK, IsMap
<1>2. DOMAIN mirror \in SUBSET (0..nextSeq)
  BY <1>1 DEF Counted
<1>3. IsFiniteSet(0..nextSeq)
  BY <1>1, FS_Interval
<1>4. IsFiniteSet(DOMAIN mirror)
  BY <1>2, <1>3, FS_Subset
<1>5. \A c : RestingAt(c) \in SUBSET DOMAIN mirror
  BY DEF RestingAt
<1>6. QED
  BY <1>4, <1>5, FS_Subset

\* A working order's contract is counted in the live index: neither guard of
\* the code against a desync of the two fires.
LEMMA CountedIsLive ==
  ASSUME TypeInv, Counted, NEW seq \in DOMAIN mirror
  PROVE  /\ HasLiveOrder(mirror[seq].contract)
         /\ liveOrders[mirror[seq].contract] = Cardinality(RestingAt(mirror[seq].contract))
         /\ liveOrders[mirror[seq].contract] \in Nat \ {0}
<1>1. mirror[seq].contract \in DOMAIN liveOrders
  BY DEF Counted
<1>2. QED
  BY <1>1 DEF Counted, HasLiveOrder, TypeInv, TypeOK, FillTypeOK, IsMap

\* An order leaves the mirror and both indexes.
LEMMA RemoveKeeps ==
  ASSUME TypeInv, Bridged, Counted, NEW seq \in DOMAIN mirror,
         mirror' = Drop(mirror, seq),
         orderIndex' = Drop(orderIndex, mirror[seq].order),
         liveOrders' = Release(liveOrders, mirror[seq].contract),
         nextSeq' = nextSeq
  PROVE  Bridged' /\ Counted'
<1>0. PICK c : c = mirror[seq].contract
  OBVIOUS
<1>1. /\ DOMAIN mirror' = DOMAIN mirror \ {seq}
      /\ \A s \in DOMAIN mirror' : mirror'[s] = mirror[s]
      /\ DOMAIN orderIndex' = DOMAIN orderIndex \ {mirror[seq].order}
      /\ \A o \in DOMAIN orderIndex' : orderIndex'[o] = orderIndex[o]
  BY DEF Drop
<1>2. Bridged'
  BY <1>1 DEF Bridged
<1>3. RestingAt(c)' = RestingAt(c) \ {seq}
  BY <1>1 DEF RestingAt
<1>4. \A d : d # c => RestingAt(d)' = RestingAt(d)
  BY <1>0, <1>1 DEF RestingAt
<1>5. /\ Cardinality(RestingAt(c) \ {seq}) = Cardinality(RestingAt(c)) - 1
      /\ Cardinality(RestingAt(c) \ {seq}) = 0 <=> RestingAt(c) \ {seq} = {}
  <2>1. seq \in RestingAt(c)
    BY <1>0 DEF RestingAt
  <2>2. IsFiniteSet(RestingAt(c))
    BY MirrorFinite
  <2>3. QED
    BY <2>1, <2>2, FS_RemoveElement, FS_EmptySet
<1>6. liveOrders[c] = Cardinality(RestingAt(c)) /\ liveOrders[c] \in Nat \ {0}
  BY <1>0, CountedIsLive
<1>7. \A d : d \in DOMAIN liveOrders' <=>
                \/ d # c /\ d \in DOMAIN liveOrders
                \/ d = c /\ liveOrders[c] # 1
  BY <1>0, CountedIsLive DEF Release, Drop, HasLiveOrder
<1>8. \A d \in DOMAIN liveOrders' :
        liveOrders'[d] = IF d = c THEN liveOrders[c] - 1 ELSE liveOrders[d]
  BY <1>0, <1>7 DEF Release, Drop
<1>9. DOMAIN liveOrders' = {mirror'[s].contract : s \in DOMAIN mirror'}
  <2>1. \A d : d \in {mirror'[s].contract : s \in DOMAIN mirror'} <=> RestingAt(d)' # {}
    BY DEF RestingAt
  <2>2. \A d : d \in DOMAIN liveOrders <=> RestingAt(d) # {}
    BY DEF RestingAt, Counted
  <2>3. c \in DOMAIN liveOrders' <=> RestingAt(c)' # {}
    BY <1>3, <1>5, <1>6, <1>7
  <2>4. \A d : d # c => (d \in DOMAIN liveOrders' <=> RestingAt(d)' # {})
    BY <1>4, <1>7, <2>2
  <2>5. QED
    BY <2>1, <2>3, <2>4
<1>10. \A d \in DOMAIN liveOrders' : liveOrders'[d] = Cardinality(RestingAt(d)')
  BY <1>3, <1>4, <1>5, <1>6, <1>7, <1>8 DEF Counted
<1>11. QED
  BY <1>1, <1>2, <1>9, <1>10 DEF Counted

\* An order shrinks: the indexes need not know.
LEMMA ShrinkKeeps ==
  ASSUME Bridged, Counted, NEW seq \in DOMAIN mirror, NEW meta,
         meta.order = mirror[seq].order, meta.contract = mirror[seq].contract,
         mirror' = Put(mirror, seq, meta),
         UNCHANGED <<orderIndex, liveOrders, nextSeq>>
  PROVE  Bridged' /\ Counted'
<1>1. /\ DOMAIN mirror' = DOMAIN mirror
      /\ \A s \in DOMAIN mirror' : /\ mirror'[s].order = mirror[s].order
                                   /\ mirror'[s].contract = mirror[s].contract
  BY DEF Put
<1>2. \A c : RestingAt(c)' = RestingAt(c)
  BY <1>1 DEF RestingAt
<1>3. {mirror'[s].contract : s \in DOMAIN mirror'} = {mirror[s].contract : s \in DOMAIN mirror}
  BY <1>1
<1>4. QED
  BY <1>1, <1>2, <1>3 DEF Bridged, Counted

\* An order comes to rest under ids that nothing else has.
LEMMA AddKeeps ==
  ASSUME TypeInv, Bridged, Counted, NEW meta, meta.contract \in Contracts,
         meta.order \notin DOMAIN orderIndex,
         mirror' = Put(mirror, nextSeq, meta),
         orderIndex' = Put(orderIndex, meta.order, nextSeq),
         liveOrders' = Track(liveOrders, meta.contract),
         nextSeq' = nextSeq + 1
  PROVE  Bridged' /\ Counted'
<1> DEFINE c == meta.contract
<1>1. nextSeq \in Nat /\ nextSeq \notin DOMAIN mirror /\ DOMAIN mirror \subseteq Nat
  BY DEF Counted, TypeInv, TypeOK, FillTypeOK, IsMap
<1>2. /\ DOMAIN mirror' = DOMAIN mirror \cup {nextSeq}
      /\ mirror'[nextSeq] = meta
      /\ \A s \in DOMAIN mirror : mirror'[s] = mirror[s]
  BY <1>1 DEF Put
<1>3. /\ DOMAIN orderIndex' = DOMAIN orderIndex \cup {meta.order}
      /\ orderIndex'[meta.order] = nextSeq
      /\ \A o \in DOMAIN orderIndex : orderIndex'[o] = orderIndex[o]
  BY DEF Put
<1>4. Bridged'
  BY <1>2, <1>3 DEF Bridged
<1>5. RestingAt(c)' = RestingAt(c) \cup {nextSeq}
  BY <1>2 DEF RestingAt
<1>6. \A d : d # c => RestingAt(d)' = RestingAt(d)
  BY <1>2 DEF RestingAt
<1>7. Cardinality(RestingAt(c) \cup {nextSeq}) = Cardinality(RestingAt(c)) + 1
  <2>1. IsFiniteSet(RestingAt(c))
    BY MirrorFinite
  <2>2. nextSeq \notin RestingAt(c)
    BY <1>1 DEF RestingAt
  <2>3. QED
    BY <2>1, <2>2, FS_AddElement
<1>8. /\ DOMAIN liveOrders' = DOMAIN liveOrders \cup {c}
      /\ liveOrders'[c] = IF c \in DOMAIN liveOrders THEN liveOrders[c] + 1 ELSE 1
      /\ \A d \in DOMAIN liveOrders : d # c => liveOrders'[d] = liveOrders[d]
  BY DEF Track, Put
<1>9. DOMAIN liveOrders' = {mirror'[s].contract : s \in DOMAIN mirror'}
  BY <1>2, <1>8 DEF Counted
<1>10. liveOrders'[c] = Cardinality(RestingAt(c)')
  <2>1. CASE c \in DOMAIN liveOrders
    BY <1>5, <1>7, <1>8, <2>1 DEF Counted
  <2>2. CASE c \notin DOMAIN liveOrders
    <3>1. RestingAt(c) = {}
      BY <2>2 DEF Counted, RestingAt
    <3>2. Cardinality(RestingAt(c)) = 0
      BY <3>1, FS_EmptySet
    <3>3. QED
      BY <1>5, <1>7, <1>8, <2>2, <3>2
  <2>3. QED
    BY <2>1, <2>2
<1>11. \A d \in DOMAIN liveOrders' : liveOrders'[d] = Cardinality(RestingAt(d)')
  BY <1>6, <1>8, <1>10 DEF Counted
<1>12. \A s \in DOMAIN mirror' : s < nextSeq'
  BY <1>1, <1>2 DEF Counted
<1>13. QED
  BY <1>4, <1>9, <1>11, <1>12 DEF Counted

-----------------------------------------------------------------------------
(* The leaf books.                                                         *)

\* What an order of a book tells of the mirror.
LEMMA BookOrderMirrored ==
  ASSUME Mirrored, NEW c, NEW seq \in DOMAIN LeafBook(c).orders
  PROVE  /\ c \in DOMAIN books /\ seq \in DOMAIN mirror
         /\ mirror[seq].contract = c
         /\ LeafBook(c).orders[seq].qty = mirror[seq].remaining
<1>1. c \in DOMAIN books
  BY DEF LeafBook, EmptyBook
<1>2. seq \in DOMAIN books[c].orders /\ LeafBook(c).orders[seq] = books[c].orders[seq]
  BY <1>1 DEF LeafBook
<1>3. seq \in DOMAIN mirror /\ mirror[seq].contract = c
  BY <1>1, <1>2 DEF Mirrored
<1>4. books[c].orders[seq] = [qty |-> mirror[seq].remaining, side |-> mirror[seq].side]
  BY <1>3 DEF Mirrored, InBook
<1>5. QED
  BY <1>1, <1>2, <1>3, <1>4

\* A book with other orders has the ladders it had.
LEMMA OrdersChange ==
  ASSUME Shaped, NEW c \in DOMAIN books, NEW orders,
         books' = [books EXCEPT ![c].orders = orders]
  PROVE  /\ Shaped'
         /\ DOMAIN books' = DOMAIN books
         /\ \A d \in DOMAIN books : books'[d].seeds = books[d].seeds
         /\ books'[c].orders = orders
         /\ \A d \in DOMAIN books : d # c => books'[d] = books[d]
<1>1. books[c] = [seeds |-> books[c].seeds, orders |-> books[c].orders]
  BY DEF Shaped
<1>2. books'[c] = [seeds |-> books[c].seeds, orders |-> orders]
  BY <1>1
<1>3. DOMAIN books' = DOMAIN books /\ \A d \in DOMAIN books : d # c => books'[d] = books[d]
  OBVIOUS
<1>4. QED
  BY <1>2, <1>3 DEF Shaped

\* An order leaves its book and the mirror.
LEMMA RemoveMirrored ==
  ASSUME Shaped, Mirrored, NEW seq \in DOMAIN mirror, NEW c, c = mirror[seq].contract,
         mirror' = Drop(mirror, seq),
         books' = [books EXCEPT ![c].orders = Drop(books[c].orders, seq)]
  PROVE  Mirrored'
<1>1. c \in DOMAIN books
  BY DEF Mirrored, InBook
<1>2. /\ DOMAIN books' = DOMAIN books
      /\ books'[c].orders = Drop(books[c].orders, seq)
      /\ \A d \in DOMAIN books : d # c => books'[d] = books[d]
  BY <1>1, OrdersChange
<1>3. /\ DOMAIN books'[c].orders = DOMAIN books[c].orders \ {seq}
      /\ \A s \in DOMAIN books'[c].orders : books'[c].orders[s] = books[c].orders[s]
  BY <1>2 DEF Drop
<1>4. /\ DOMAIN mirror' = DOMAIN mirror \ {seq}
      /\ \A s \in DOMAIN mirror' : mirror'[s] = mirror[s]
  BY DEF Drop
<1>5. ASSUME NEW s \in DOMAIN mirror' PROVE InBook(s)'
  <2>1. InBook(s) /\ mirror'[s] = mirror[s] /\ s # seq
    BY <1>4 DEF Mirrored
  <2>2. CASE mirror[s].contract = c
    BY <1>1, <1>2, <1>3, <2>1, <2>2 DEF InBook
  <2>3. CASE mirror[s].contract # c
    BY <1>2, <2>1, <2>3 DEF InBook
  <2>4. QED
    BY <2>2, <2>3
<1>6. ASSUME NEW d \in DOMAIN books', NEW s \in DOMAIN books'[d].orders
      PROVE  s \in DOMAIN mirror' /\ mirror'[s].contract = d
  <2>1. s \in DOMAIN books[d].orders /\ d \in DOMAIN books
    BY <1>2, <1>3
  <2>2. s \in DOMAIN mirror /\ mirror[s].contract = d
    BY <2>1 DEF Mirrored
  <2>3. s # seq
    BY <1>3, <2>2
  <2>4. QED
    BY <1>4, <2>2, <2>3
<1>7. QED
  BY <1>5, <1>6 DEF Mirrored

\* An order shrinks in both.
LEMMA ShrinkMirrored ==
  ASSUME Shaped, Mirrored, NEW seq \in DOMAIN mirror, NEW c, c = mirror[seq].contract,
         NEW meta, meta.contract = c,
         mirror' = Put(mirror, seq, meta),
         books' = [books EXCEPT ![c].orders =
                     [books[c].orders EXCEPT
                        ![seq] = [qty |-> meta.remaining, side |-> meta.side]]]
  PROVE  Mirrored'
<1>1. c \in DOMAIN books /\ seq \in DOMAIN books[c].orders
  BY DEF Mirrored, InBook
<1>2. /\ DOMAIN books' = DOMAIN books
      /\ books'[c].orders = [books[c].orders EXCEPT
                        ![seq] = [qty |-> meta.remaining, side |-> meta.side]]
      /\ \A d \in DOMAIN books : d # c => books'[d] = books[d]
  BY <1>1, OrdersChange
<1>3. /\ DOMAIN books'[c].orders = DOMAIN books[c].orders
      /\ \A s \in DOMAIN books[c].orders : s # seq => books'[c].orders[s] = books[c].orders[s]
      /\ books'[c].orders[seq] = [qty |-> meta.remaining, side |-> meta.side]
  BY <1>1, <1>2
<1>4. /\ DOMAIN mirror' = DOMAIN mirror /\ mirror'[seq] = meta
      /\ \A s \in DOMAIN mirror : s # seq => mirror'[s] = mirror[s]
  BY DEF Put
<1>5. ASSUME NEW s \in DOMAIN mirror' PROVE InBook(s)'
  <2>1. CASE s = seq
    BY <1>1, <1>2, <1>3, <1>4, <2>1 DEF InBook
  <2>2. CASE s # seq
    <3>1. InBook(s) /\ mirror'[s] = mirror[s]
      BY <1>4, <2>2 DEF Mirrored
    <3>2. CASE mirror[s].contract = c
      BY <1>1, <1>2, <1>3, <2>2, <3>1, <3>2 DEF InBook
    <3>3. CASE mirror[s].contract # c
      BY <1>2, <3>1, <3>3 DEF InBook
    <3>4. QED
      BY <3>2, <3>3
  <2>3. QED
    BY <2>1, <2>2
<1>6. ASSUME NEW d \in DOMAIN books', NEW s \in DOMAIN books'[d].orders
      PROVE  s \in DOMAIN mirror' /\ mirror'[s].contract = d
  <2>1. s \in DOMAIN books[d].orders /\ d \in DOMAIN books
    BY <1>2, <1>3
  <2>2. s \in DOMAIN mirror /\ mirror[s].contract = d
    BY <2>1 DEF Mirrored
  <2>3. QED
    BY <1>4, <2>2
<1>7. QED
  BY <1>5, <1>6 DEF Mirrored

\* The ladders of a book change, or a book without orders is constructed.
LEMMA LadderMirrored ==
  ASSUME Mirrored, NEW c, NEW book, book.orders = LeafBook(c).orders,
         books' = Put(books, c, book), mirror' = mirror
  PROVE  Mirrored'
<1>1. /\ DOMAIN books' = DOMAIN books \cup {c} /\ books'[c] = book
      /\ \A d \in DOMAIN books : d # c => books'[d] = books[d]
  BY DEF Put
<1>2. c \in DOMAIN books => book.orders = books[c].orders
  BY DEF LeafBook
<1>3. c \notin DOMAIN books => DOMAIN book.orders = {}
  BY DEF LeafBook, EmptyBook
<1>4. ASSUME NEW s \in DOMAIN mirror' PROVE InBook(s)'
  <2>1. InBook(s)
    BY <1>4 DEF Mirrored
  <2>2. QED
    BY <1>1, <1>2, <2>1 DEF InBook
<1>5. ASSUME NEW d \in DOMAIN books', NEW s \in DOMAIN books'[d].orders
      PROVE  s \in DOMAIN mirror' /\ mirror'[s].contract = d
  BY <1>1, <1>2, <1>3, <1>5 DEF Mirrored
<1>6. QED
  BY <1>4, <1>5 DEF Mirrored

\* An order comes to rest in its book and in the mirror.
LEMMA AddMirrored ==
  ASSUME Mirrored, NEW c, NEW seq, seq \notin DOMAIN mirror,
         NEW meta, meta.contract = c, NEW book,
         book.orders = Put(LeafBook(c).orders, seq,
                           [qty |-> meta.remaining, side |-> meta.side]),
         books' = Put(books, c, book), mirror' = Put(mirror, seq, meta)
  PROVE  Mirrored'
<1>1. /\ DOMAIN books' = DOMAIN books \cup {c} /\ books'[c] = book
      /\ \A d \in DOMAIN books : d # c => books'[d] = books[d]
  BY DEF Put
<1>2. /\ DOMAIN book.orders = DOMAIN LeafBook(c).orders \cup {seq}
      /\ book.orders[seq] = [qty |-> meta.remaining, side |-> meta.side]
      /\ \A s \in DOMAIN LeafBook(c).orders : s # seq =>
           book.orders[s] = LeafBook(c).orders[s]
  BY DEF Put
<1>3. c \in DOMAIN books => LeafBook(c).orders = books[c].orders
  BY DEF LeafBook
<1>4. /\ DOMAIN mirror' = DOMAIN mirror \cup {seq} /\ mirror'[seq] = meta
      /\ \A s \in DOMAIN mirror : s # seq /\ mirror'[s] = mirror[s]
  BY DEF Put
<1>5. ASSUME NEW s \in DOMAIN mirror' PROVE InBook(s)'
  <2>1. CASE s = seq
    BY <1>1, <1>2, <1>4, <2>1 DEF InBook
  <2>2. CASE s # seq
    <3>1. InBook(s) /\ mirror'[s] = mirror[s]
      BY <1>4, <2>2 DEF Mirrored
    <3>2. QED
      BY <1>1, <1>2, <1>3, <2>2, <3>1 DEF InBook
  <2>3. QED
    BY <2>1, <2>2
<1>6. ASSUME NEW d \in DOMAIN books', NEW s \in DOMAIN books'[d].orders
      PROVE  s \in DOMAIN mirror' /\ mirror'[s].contract = d
  <2>1. CASE d # c
    BY <1>1, <1>4, <1>6, <2>1 DEF Mirrored
  <2>2. CASE d = c /\ s = seq
    BY <1>4, <2>2
  <2>3. CASE d = c /\ s # seq
    <3>1. s \in DOMAIN LeafBook(c).orders
      BY <1>1, <1>2, <2>3
    <3>2. s \in DOMAIN mirror /\ mirror[s].contract = c
      BY <3>1, BookOrderMirrored
    <3>3. QED
      BY <1>4, <2>3, <3>2
  <2>4. QED
    BY <2>1, <2>2, <2>3
<1>7. QED
  BY <1>5, <1>6 DEF Mirrored

-----------------------------------------------------------------------------
(* The ids of a call.                                                      *)

\* Minting makes the ids the call will deal out: ascending, one per submission
\* and above every id in use.
LEMMA MintDeals ==
  ASSUME TypeInv, Dealt, MintIds, UNCHANGED fillVars
  PROVE  Dealt'
<1>1. nextOrder \in Nat /\ Submissions(cmds) \in Nat
  BY SubmissionsNat, DomainAssumption DEF TypeInv, TypeOK, SeamTypeOK, EngineTypeOK
<1>2. /\ submitIds' = [i \in 1..Submissions(cmds) |-> nextOrder + i - 1]
      /\ nextOrder' = nextOrder + Submissions(cmds)
      /\ cmds' = cmds /\ pc' = "refresh" /\ orderIndex' = orderIndex
  BY DEF MintIds, MintedIds, fillVars
<1>3. Submissions(cmds)' = Submissions(cmds) /\ Passed' = 0
  BY <1>2 DEF Submissions, Passed
<1>4. Len(submitIds') = Submissions(cmds) /\ DOMAIN submitIds' = 1..Submissions(cmds)
  BY <1>1, <1>2
<1>5. \A o \in DOMAIN orderIndex : o \in Nat /\ o < nextOrder
  BY DEF Dealt, TypeInv, TypeOK, FillTypeOK, IsMap, OrderIds
<1>6. \A i \in 1..Submissions(cmds) : submitIds'[i] = nextOrder + i - 1
  BY <1>2
<1>7. QED
  BY <1>1, <1>2, <1>3, <1>4, <1>5, <1>6 DEF Dealt

\* A step of the call that brings no order to rest leaves the ids ready.
LEMMA DealtKeeps ==
  ASSUME TypeInv, Dealt, pc \in InCall, UNCHANGED <<cmds, submitIds, nextOrder>>,
         DOMAIN orderIndex' \subseteq DOMAIN orderIndex,
         pc' \in InCall => Passed \in Nat /\ Passed' \in Nat /\ Passed <= Passed'
  PROVE  Dealt'
<1>1. Submissions(cmds)' = Submissions(cmds)
  BY DEF Submissions
<1>2. \A i \in DOMAIN submitIds : i \in Nat
  BY DEF TypeInv, TypeOK, SeamTypeOK
<1>3. \A i \in DOMAIN submitIds : pc' \in InCall /\ i > Passed' => i > Passed
  BY <1>2
<1>4. QED
  BY <1>1, <1>3 DEF Dealt

\* Phase 2 passes a command.
LEMMA PassedSteps ==
  ASSUME TypeInv, pc = "submit", pc' = "submit", cmds' = cmds, k' = k + 1
  PROVE  /\ Passed = Ordinal(k - 1) /\ Passed' = Ordinal(k)
         /\ Passed \in Nat /\ Passed' \in Nat
         /\ Passed' = IF IsSubmission(cmds[k]) THEN Passed + 1 ELSE Passed
<1>1. k \in Nat \ {0}
  BY DEF TypeInv, TypeOK, SeamTypeOK
<1>2. k' - 1 = k
  BY <1>1
<1>3. Passed' = Ordinal(k)
  BY <1>2 DEF Passed, Ordinal
<1>4. Passed = Ordinal(k - 1)
  BY DEF Passed
<1>5. Ordinal(k - 1) \in Nat /\ Ordinal(k) \in Nat
  <2>1. k - 1 \in Int /\ k \in Int
    BY <1>1
  <2>2. QED
    BY <2>1, PrefixFinite
<1>6. QED
  BY <1>1, <1>3, <1>4, <1>5, OrdinalSteps

\* The id a submission is dealt is above those that rest and below those to come.
LEMMA NextDealt ==
  ASSUME TypeInv, Dealt, AtSubmission, SubmitFault = "none"
  PROVE  /\ Ordinal(k) \in DOMAIN submitIds
         /\ Ordinal(k) > Passed
         /\ submitIds[Ordinal(k)] \in OrderIds
         /\ submitIds[Ordinal(k)] < nextOrder
         /\ \A o \in DOMAIN orderIndex : o < submitIds[Ordinal(k)]
         /\ submitIds[Ordinal(k)] \notin DOMAIN orderIndex
<1>1. /\ k \in 1..Len(cmds) /\ IsSubmission(cmds[k]) /\ pc = "submit"
      /\ submitIds \in Seq(OrderIds)
  BY DEF AtSubmission, TypeInv, TypeOK, SeamTypeOK
<1>2. Ordinal(k) \in Nat \ {0} /\ Ordinal(k) <= Len(submitIds)
  BY <1>1, OrdinalPositive DEF SubmitFault, TypeInv, TypeOK
<1>3. Ordinal(k) \in DOMAIN submitIds
  BY <1>1, <1>2
<1>4. Ordinal(k) > Passed
  <2>1. k \in Nat \ {0} /\ k - 1 \in Int
    BY DEF TypeInv, TypeOK, SeamTypeOK
  <2>2. Ordinal(k) = Ordinal(k - 1) + 1
    BY <1>1, <2>1, OrdinalSteps
  <2>3. Ordinal(k - 1) \in Nat
    BY <2>1, PrefixFinite
  <2>4. QED
    BY <1>1, <2>2, <2>3 DEF Passed
<1>5. pc \in InCall
  BY <1>1 DEF InCall
<1>6. /\ submitIds[Ordinal(k)] \in OrderIds
      /\ submitIds[Ordinal(k)] < nextOrder
      /\ \A o \in DOMAIN orderIndex : o < submitIds[Ordinal(k)]
  BY <1>1, <1>3, <1>4, <1>5 DEF Dealt
<1>7. DOMAIN orderIndex \subseteq Nat
  BY DEF TypeInv, TypeOK, FillTypeOK, IsMap, OrderIds
<1>8. QED
  BY <1>3, <1>4, <1>6, <1>7 DEF OrderIds

\* After a submission came to rest the ids to come are still above.
LEMMA SubmitDeals ==
  ASSUME TypeInv, Dealt, AtSubmission, SubmitFault = "none",
         UNCHANGED <<pc, cmds, submitIds, nextOrder>>, k' = k + 1,
         DOMAIN orderIndex' \subseteq DOMAIN orderIndex \cup {submitIds[Ordinal(k)]}
  PROVE  Dealt'
<1>1. /\ pc = "submit" /\ IsSubmission(cmds[k]) /\ submitIds \in Seq(OrderIds)
      /\ pc \in InCall
  BY DEF AtSubmission, TypeInv, TypeOK, SeamTypeOK, InCall
<1>2. Passed' = Ordinal(k) /\ Passed \in Nat /\ Passed' \in Nat /\ Passed' = Passed + 1
  BY <1>1, PassedSteps
<1>3. Submissions(cmds)' = Submissions(cmds)
  BY DEF Submissions
<1>4. ASSUME NEW i \in DOMAIN submitIds, i > Passed', NEW o \in DOMAIN orderIndex'
      PROVE  o < submitIds[i]
  <2>1. i \in Nat /\ i > Passed
    BY <1>1, <1>2, <1>4
  <2>2. CASE o \in DOMAIN orderIndex
    BY <1>1, <1>4, <2>1, <2>2 DEF Dealt
  <2>3. CASE o = submitIds[Ordinal(k)]
    BY <1>1, <1>2, <1>4, <2>1, <2>3, NextDealt DEF Dealt
  <2>4. QED
    BY <2>2, <2>3
<1>5. \A o \in DOMAIN orderIndex' : o < nextOrder
  BY NextDealt DEF Dealt
<1>6. QED
  BY <1>1, <1>3, <1>4, <1>5 DEF Dealt

-----------------------------------------------------------------------------
(* Every step keeps the invariant.                                         *)

\* The engine does not touch the model's books, and mints ids before a call.
LEMMA EngineKeepsFill ==
  ASSUME FillInv, EngineNext, UNCHANGED fillVars
  PROVE  FillInv'
<1>1. TypeInv'
  BY EngineType DEF FillInv
<1>2. Shaped' /\ Bridged' /\ Counted'
  <2>1. \A c : RestingAt(c)' = RestingAt(c)
    BY DEF RestingAt, fillVars
  <2>2. QED
    BY <2>1 DEF FillInv, Shaped, Bridged, Counted, fillVars
<1>3. pc # "failed"
  BY DEF EngineNext, OnStart, Exits, OnSnapshot, OnEnd, MintIds, Validate, CarryFails,
     CarryOpensLeg, CarryExtendsLeg, CarryClosesLeg, CarryDone, WalkCancel, WalkFails,
     WalkRestsOpen, WalkRestsClose, WalkOpens, WalkCloses, WalkDone, Settle, SettleExpired,
     Advance, AtCarry, AtWalk, Walking
<1>4. Mirrored' /\ SeedsKnown'
  <2>1. \A seq : InBook(seq)' <=> InBook(seq)
    BY DEF InBook, fillVars
  <2>2. Mirrored'
    BY <1>3, <2>1 DEF FillInv, Mirrored, fillVars
  <2>3. SeedsKnown'
    BY <1>3 DEF FillInv, SeedsKnown, fillVars
  <2>4. QED
    BY <2>2, <2>3
<1>5. Dealt'
  <2>1. CASE MintIds
    BY <2>1, MintDeals DEF FillInv
  <2>2. CASE ~ MintIds
    <3>1. nextOrder' = nextOrder
      BY <2>2 DEF EngineNext, OnStart, Exits, OnSnapshot, OnEnd, Validate, CarryFails,
         CarryOpensLeg, CarryExtendsLeg, CarryClosesLeg, CarryDone, WalkCancel, WalkFails,
         WalkRestsOpen, WalkRestsClose, WalkOpens, WalkCloses, WalkDone, Settle, SettleExpired,
         Advance, AbortEngine, engineVars, idVars, CarryNext, WalkNext
    <3>2. pc' \notin InCall
      BY <2>2 DEF EngineNext, OnStart, Exits, OnSnapshot, OnEnd, Validate, CarryFails,
         CarryOpensLeg, CarryExtendsLeg, CarryClosesLeg, CarryDone, WalkCancel, WalkFails,
         WalkRestsOpen, WalkRestsClose, WalkOpens, WalkCloses, WalkDone, Settle, SettleExpired,
         Advance, AbortEngine, AbortSeam, CarryNext, WalkNext, AtCarry, AtWalk, Walking, InCall
    <3>3. QED
      BY <3>1, <3>2 DEF FillInv, Dealt, fillVars
  <2>3. QED
    BY <2>1, <2>2
<1>6. QED
  BY <1>1, <1>2, <1>4, <1>5 DEF FillInv

\* An abort of the call leaves everything as it is.
LEMMA AbortKeepsFill ==
  ASSUME FillInv, NEW cause \in Errors, AbortFill(cause), UNCHANGED engineVars
  PROVE  FillInv'
<1>1. TypeInv'
  BY FillAbortType DEF FillInv
<1>2. pc' = "failed" /\ UNCHANGED fillVars /\ nextOrder' = nextOrder
  BY DEF AbortFill, AbortSeam, engineVars, idVars
<1>3. \A c : RestingAt(c)' = RestingAt(c)
  BY <1>2 DEF RestingAt, fillVars
<1>4. Shaped' /\ Bridged' /\ Counted'
  BY <1>2, <1>3 DEF FillInv, Shaped, Bridged, Counted, fillVars
<1>5. Dealt'
  BY <1>2 DEF FillInv, Dealt, InCall, fillVars
<1>6. QED
  BY <1>1, <1>2, <1>4, <1>5 DEF FillInv

\* The steps of the call that only move the phase or the cursor.
LEMMA PhaseKeepsFill ==
  ASSUME FillInv, UNCHANGED engineVars,
         ReseedDone \/ LifecycleDone \/ SubmitSkip \/ SubmitDone
  PROVE  FillInv'
<1>1. TypeInv'
  BY PhaseType DEF FillInv
<1>2. /\ UNCHANGED fillVars /\ pc # "failed" /\ pc \in InCall
      /\ UNCHANGED <<cmds, submitIds, nextOrder>>
  BY DEF ReseedDone, LifecycleDone, SubmitSkip, SubmitDone, InCall, engineVars, idVars
<1>3. \A c : RestingAt(c)' = RestingAt(c)
  BY <1>2 DEF RestingAt, fillVars
<1>4. \A seq : InBook(seq)' <=> InBook(seq)
  BY <1>2 DEF InBook, fillVars
<1>5. Shaped' /\ Bridged' /\ Counted' /\ Mirrored' /\ SeedsKnown'
  BY <1>2, <1>3, <1>4 DEF FillInv, Shaped, Bridged, Counted, Mirrored, SeedsKnown, fillVars
<1>6. pc' \in InCall => Passed \in Nat /\ Passed' \in Nat /\ Passed <= Passed'
  <2>1. CASE ReseedDone
    BY <2>1 DEF ReseedDone, Passed
  <2>2. CASE LifecycleDone
    <3>1. k' - 1 = 0 /\ pc' = "submit"
      BY <2>2 DEF LifecycleDone
    <3>2. Passed' = Ordinal(0)'
      BY <3>1 DEF Passed
    <3>3. Ordinal(0)' = Ordinal(0)
      BY <1>2 DEF Ordinal
    <3>4. Passed = 0
      BY <2>2 DEF LifecycleDone, Passed
    <3>5. QED
      BY <3>2, <3>3, <3>4, OrdinalZero
  <2>3. CASE SubmitSkip
    BY <2>3, PassedSteps DEF SubmitSkip, FillInv
  <2>4. CASE SubmitDone
    BY <2>4 DEF SubmitDone, InCall
  <2>5. QED
    BY <2>1, <2>2, <2>3, <2>4
<1>7. Dealt'
  BY <1>2, <1>6, DealtKeeps DEF FillInv, fillVars
<1>8. QED
  BY <1>1, <1>5, <1>7 DEF FillInv

\* The refresh keeps the book of every working order, quoted or not, and leaves
\* no ladder.
LEMMA RefreshKeepsFill ==
  ASSUME FillInv, RefreshBooks, UNCHANGED engineVars
  PROVE  /\ FillInv'
         /\ \A c \in DOMAIN books' : books'[c].seeds = {}
<1>1. TypeInv'
  BY RefreshType DEF FillInv
<1>2. /\ pc = "refresh" /\ pc' = "reseed" /\ pc \in InCall
      /\ UNCHANGED <<mirror, orderIndex, liveOrders, nextSeq, cmds, submitIds, nextOrder>>
      /\ DOMAIN books' = {c \in DOMAIN books : Kept(c)}
      /\ \A c \in DOMAIN books' : books'[c] = WithoutStaleSeed(c)
      /\ DOMAIN seedIds' = {c \in DOMAIN seedIds : Kept(c)}
  BY DEF RefreshBooks, InCall, engineVars, idVars
<1>3. ASSUME NEW c \in DOMAIN books
      PROVE  WithoutStaleSeed(c) = [seeds |-> {}, orders |-> books[c].orders]
  <2>1. books[c] = [seeds |-> books[c].seeds, orders |-> books[c].orders]
    BY DEF FillInv, Shaped
  <2>2. CASE c \in DOMAIN seedIds
    <3>1. books[c].seeds \subseteq seedIds[c]
      BY <1>2, <2>2 DEF FillInv, SeedsKnown
    <3>2. books[c].seeds \ seedIds[c] = {}
      BY <3>1
    <3>3. [books[c] EXCEPT !.seeds = @ \ seedIds[c]] = [seeds |-> {}, orders |-> books[c].orders]
      BY <2>1, <3>2
    <3>4. QED
      BY <2>2, <3>3 DEF WithoutStaleSeed
  <2>3. CASE c \notin DOMAIN seedIds
    <3>1. books[c].seeds = {}
      BY <1>2, <2>3 DEF FillInv, SeedsKnown
    <3>2. QED
      BY <2>1, <2>3, <3>1 DEF WithoutStaleSeed
  <2>4. QED
    BY <2>2, <2>3
<1>4. \A c \in DOMAIN books' : books'[c] = [seeds |-> {}, orders |-> books[c].orders]
  BY <1>2, <1>3
<1>5. Shaped' /\ SeedsKnown' /\ \A c \in DOMAIN books' : books'[c].seeds = {}
  BY <1>4 DEF Shaped, SeedsKnown
<1>6. Bridged' /\ Counted'
  <2>1. \A c : RestingAt(c)' = RestingAt(c)
    BY <1>2 DEF RestingAt
  <2>2. QED
    BY <1>2, <2>1 DEF FillInv, Bridged, Counted
<1>7. Mirrored'
  <2>1. ASSUME NEW seq \in DOMAIN mirror' PROVE InBook(seq)'
    <3>1. InBook(seq) /\ mirror' = mirror
      BY <1>2, <2>1 DEF FillInv, Mirrored
    <3>2. Kept(mirror[seq].contract)
      BY <1>2, <2>1, CountedIsLive DEF FillInv, Kept
    <3>3. mirror[seq].contract \in DOMAIN books'
      BY <1>2, <3>1, <3>2 DEF InBook
    <3>4. QED
      BY <1>4, <3>1, <3>3 DEF InBook
  <2>2. ASSUME NEW c \in DOMAIN books', NEW seq \in DOMAIN books'[c].orders
        PROVE  seq \in DOMAIN mirror' /\ mirror'[seq].contract = c
    BY <1>2, <1>4, <2>2 DEF FillInv, Mirrored
  <2>3. QED
    BY <2>1, <2>2 DEF Mirrored
<1>8. Dealt'
  <2>1. Passed \in Nat /\ Passed' \in Nat /\ Passed <= Passed'
    BY <1>2 DEF Passed
  <2>2. QED
    BY <1>2, <2>1, DealtKeeps DEF FillInv
<1>9. QED
  BY <1>1, <1>5, <1>6, <1>7, <1>8 DEF FillInv

\* No maker of a leaf book is unknown to the mirror, none trades more than the
\* mirror has, and none is uncounted: the guards of capture_refresh_fill pass.
LEMMA MakersTracked ==
  ASSUME FillInv, NEW seq, NEW q \in Quantities, ReseedCross(seq, q)
  PROVE  /\ seq \in DOMAIN mirror /\ mirror[seq].contract = LadderContract
         /\ LadderContract \in DOMAIN books
         /\ mirror[seq].remaining \in Quantities /\ q <= mirror[seq].remaining
         /\ CaptureFault(seq, q) = "none"
<1>1. Mirrored /\ seq \in DOMAIN LeafBook(LadderContract).orders
  BY DEF FillInv, ReseedCross
<1>2. /\ seq \in DOMAIN mirror /\ mirror[seq].contract = LadderContract
      /\ LadderContract \in DOMAIN books
      /\ LeafBook(LadderContract).orders[seq].qty = mirror[seq].remaining
  BY <1>1, BookOrderMirrored
<1>3. q <= mirror[seq].remaining
  BY <1>2 DEF ReseedCross
<1>4. mirror[seq].remaining \in Quantities
  BY <1>2 DEF FillInv, TypeInv, TypeOK, FillTypeOK, IsMap, RestingOrders
<1>5. HasLiveOrder(mirror[seq].contract)
  BY <1>2, CountedIsLive DEF FillInv
<1>6. CaptureFault(seq, q) = "none"
  BY <1>3, <1>4, <1>5, DomainAssumption DEF CaptureFault, Quantities
<1>7. QED
  BY <1>2, <1>3, <1>4, <1>6

\* A crossing of the reseed takes the same contracts out of the book and the
\* mirror.
LEMMA CrossKeepsFill ==
  ASSUME FillInv, NEW seq, NEW q \in Quantities, ReseedCross(seq, q), UNCHANGED engineVars
  PROVE  /\ FillInv' /\ error' = error
         /\ DOMAIN books' = DOMAIN books
         /\ \A c \in DOMAIN books : books'[c].seeds = books[c].seeds
<1>0. PICK c : c = LadderContract
  OBVIOUS
<1>1. TypeInv'
  BY ReseedCrossType DEF FillInv
<1>2. /\ seq \in DOMAIN mirror /\ mirror[seq].contract = c /\ c \in DOMAIN books
      /\ mirror[seq].remaining \in Quantities /\ q <= mirror[seq].remaining
      /\ CaptureFault(seq, q) = "none"
  BY <1>0, MakersTracked
<1>3. /\ books' = [books EXCEPT ![c].orders = Matched(books[c].orders, seq, q)]
      /\ CaptureRefreshFill(seq, q)
      /\ pc = "reseed" /\ pc' = "reseed"
      /\ UNCHANGED <<cmds, submitIds, error, seedIds, nextSeq, nextOrder>>
  BY <1>0, <1>2 DEF ReseedCross, engineVars, idVars
<1>4. /\ Shaped'
      /\ DOMAIN books' = DOMAIN books
      /\ \A d \in DOMAIN books : books'[d].seeds = books[d].seeds
  BY <1>2, <1>3, OrdersChange DEF FillInv
<1>5. SeedsKnown'
  BY <1>3, <1>4 DEF FillInv, SeedsKnown
<1>6. /\ seq \in DOMAIN books[c].orders
      /\ books[c].orders[seq] = [qty |-> mirror[seq].remaining, side |-> mirror[seq].side]
  BY <1>2, <1>3 DEF FillInv, Mirrored, InBook
<1>7. Bridged' /\ Counted' /\ Mirrored' /\ DOMAIN orderIndex' \subseteq DOMAIN orderIndex
  <2>1. CASE mirror[seq].remaining = q
    <3>1. /\ mirror' = Drop(mirror, seq)
          /\ orderIndex' = Drop(orderIndex, mirror[seq].order)
          /\ liveOrders' = Release(liveOrders, mirror[seq].contract)
      BY <1>3, <2>1 DEF CaptureRefreshFill
    <3>2. books' = [books EXCEPT ![c].orders = Drop(books[c].orders, seq)]
      BY <1>3, <1>6, <2>1 DEF Matched
    <3>3. Bridged' /\ Counted'
      BY <1>2, <1>3, <3>1, RemoveKeeps DEF FillInv
    <3>4. Mirrored'
      BY <1>2, <1>3, <3>1, <3>2, RemoveMirrored DEF FillInv
    <3>5. QED
      BY <3>1, <3>3, <3>4 DEF Drop
  <2>2. CASE mirror[seq].remaining # q
    <3> DEFINE meta == [mirror[seq] EXCEPT !.remaining = @ - q, !.firstFillDone = TRUE]
    <3>1. mirror[seq] \in RestingOrders
      BY <1>2 DEF FillInv, TypeInv, TypeOK, FillTypeOK, IsMap
    <3>2. /\ meta.order = mirror[seq].order /\ meta.contract = mirror[seq].contract
          /\ meta.side = mirror[seq].side /\ meta.remaining = mirror[seq].remaining - q
      BY <3>1 DEF RestingOrders
    <3>3. /\ mirror' = Put(mirror, seq, meta)
          /\ UNCHANGED <<orderIndex, liveOrders>>
      BY <1>3, <2>2 DEF CaptureRefreshFill
    <3>4. Matched(books[c].orders, seq, q) =
            [books[c].orders EXCEPT ![seq] = [qty |-> meta.remaining, side |-> meta.side]]
      BY <1>6, <2>2, <3>2 DEF Matched
    <3>5. books' = [books EXCEPT ![c].orders =
            [books[c].orders EXCEPT ![seq] = [qty |-> meta.remaining, side |-> meta.side]]]
      BY <1>3, <3>4
    <3>6. Bridged' /\ Counted'
      BY <1>2, <1>3, <3>2, <3>3, ShrinkKeeps DEF FillInv
    <3>7. Mirrored'
      <4>1. Shaped /\ Mirrored
        BY <1>3 DEF FillInv
      <4> HIDE DEF meta
      <4>2. QED
        BY <1>2, <3>2, <3>3, <3>5, <4>1, ShrinkMirrored
    <3>8. QED
      BY <3>3, <3>6, <3>7
  <2>3. QED
    BY <2>1, <2>2
<1>8. Dealt'
  <2>1. pc \in InCall /\ Passed \in Nat /\ Passed' \in Nat /\ Passed <= Passed'
    BY <1>3 DEF Passed, InCall
  <2>2. QED
    BY <1>3, <1>7, <2>1, DealtKeeps DEF FillInv
<1>9. QED
  BY <1>1, <1>3, <1>4, <1>5, <1>7, <1>8 DEF FillInv

\* Resting a ladder records it.
LEMMA LadderKeepsFill ==
  ASSUME FillInv, NEW rests \in BOOLEAN, ReseedNext(rests), UNCHANGED engineVars
  PROVE  /\ FillInv'
         /\ \A c \in DOMAIN books' : \A ladder \in books'[c].seeds :
              \/ c \in DOMAIN books /\ ladder \in books[c].seeds
              \/ ladder[1] = call /\ c \in quoted
<1>0. PICK c : c = LadderContract
  OBVIOUS
<1> DEFINE ladder == {<<call, LadderSide>>}
           known  == IF c \in DOMAIN seedIds THEN seedIds[c] ELSE {}
           more   == IF rests THEN LeafBook(c).seeds \cup ladder ELSE LeafBook(c).seeds
           book   == [seeds |-> more, orders |-> LeafBook(c).orders]
<1>1. TypeInv'
  BY ReseedNextType DEF FillInv
<1>2. /\ pc = "reseed" /\ pc' = "reseed"
      /\ UNCHANGED <<cmds, submitIds, mirror, orderIndex, liveOrders, nextSeq, nextOrder>>
  BY DEF ReseedNext, engineVars, idVars
<1>3. LeafBook(c) = [seeds |-> LeafBook(c).seeds, orders |-> LeafBook(c).orders]
  BY DEF LeafBook, EmptyBook, FillInv, Shaped
<1>4. books' = IF c \in quoted THEN Put(books, c, book) ELSE books
  <2>1. [LeafBook(c) EXCEPT !.seeds = IF rests THEN @ \cup ladder ELSE @] = book
    BY <1>3
  <2>2. QED
    BY <1>0, <2>1 DEF ReseedNext
<1>5. seedIds' = IF rests THEN Put(seedIds, c, known \cup ladder) ELSE seedIds
  BY <1>0 DEF ReseedNext
<1>6. rests => c \in quoted
  BY <1>0 DEF ReseedNext
<1>7. Shaped'
  BY <1>4 DEF FillInv, Shaped, Put
<1>8. LeafBook(c).seeds \subseteq known
  BY <1>2 DEF LeafBook, EmptyBook, FillInv, SeedsKnown
<1>9. SeedsKnown'
  <2>1. ASSUME NEW d \in DOMAIN books'
        PROVE  books'[d].seeds \subseteq IF d \in DOMAIN seedIds' THEN seedIds'[d] ELSE {}
    <3>1. CASE d # c
      <4>1. d \in DOMAIN books /\ books'[d] = books[d]
        BY <1>4, <2>1, <3>1 DEF Put
      <4>2. /\ d \in DOMAIN seedIds => d \in DOMAIN seedIds'
            /\ d \in DOMAIN seedIds => seedIds'[d] = seedIds[d]
        BY <1>5, <3>1 DEF Put
      <4>3. books[d].seeds \subseteq IF d \in DOMAIN seedIds THEN seedIds[d] ELSE {}
        BY <1>2, <4>1 DEF FillInv, SeedsKnown
      <4>4. QED
        BY <4>1, <4>2, <4>3
    <3>2. CASE d = c /\ c \notin quoted
      BY <1>2, <1>4, <1>5, <1>6, <2>1, <3>2 DEF FillInv, SeedsKnown
    <3>3. CASE d = c /\ c \in quoted /\ rests
      <4>1. books'[d].seeds = LeafBook(c).seeds \cup ladder
        BY <1>4, <3>3 DEF Put
      <4>2. d \in DOMAIN seedIds' /\ seedIds'[d] = known \cup ladder
        BY <1>5, <3>3 DEF Put
      <4>3. QED
        BY <1>8, <4>1, <4>2
    <3>4. CASE d = c /\ c \in quoted /\ ~ rests
      <4>1. books'[d].seeds = LeafBook(c).seeds /\ seedIds' = seedIds
        BY <1>4, <1>5, <3>4 DEF Put
      <4>2. QED
        BY <1>8, <3>4, <4>1
    <3>5. QED
      BY <3>1, <3>2, <3>3, <3>4
  <2>2. QED
    BY <2>1 DEF SeedsKnown
<1>10. Bridged' /\ Counted'
  <2>1. \A d : RestingAt(d)' = RestingAt(d)
    BY <1>2 DEF RestingAt
  <2>2. QED
    BY <1>2, <2>1 DEF FillInv, Bridged, Counted
<1>11. Mirrored'
  <2>1. Mirrored
    BY <1>2 DEF FillInv
  <2>2. CASE c \in quoted
    <3>1. PICK b : b = book
      OBVIOUS
    <3>2. b.orders = LeafBook(c).orders /\ books' = Put(books, c, b)
      BY <1>4, <2>2, <3>1
    <3> HIDE DEF book
    <3>3. QED
      BY <1>2, <2>1, <3>2, LadderMirrored
  <2>3. CASE c \notin quoted
    <3>1. \A s : InBook(s)' <=> InBook(s)
      BY <1>2, <1>4, <2>3 DEF InBook
    <3>2. QED
      BY <1>2, <1>4, <2>1, <2>3, <3>1 DEF Mirrored
  <2>4. QED
    BY <2>2, <2>3
<1>12. Dealt'
  <2>1. pc \in InCall /\ Passed \in Nat /\ Passed' \in Nat /\ Passed <= Passed'
    BY <1>2 DEF Passed, InCall
  <2>2. QED
    BY <1>2, <2>1, DealtKeeps DEF FillInv
<1>13. ASSUME NEW d \in DOMAIN books', NEW l \in books'[d].seeds
       PROVE  \/ d \in DOMAIN books /\ l \in books[d].seeds
              \/ l[1] = call /\ d \in quoted
  <2>1. CASE d # c \/ c \notin quoted
    BY <1>4, <1>13, <2>1 DEF Put
  <2>2. CASE d = c /\ c \in quoted
    <3>1. books'[d].seeds = more
      BY <1>4, <2>2 DEF Put
    <3>2. l \in LeafBook(c).seeds \/ l = <<call, LadderSide>>
      BY <1>13, <3>1
    <3>3. l \in LeafBook(c).seeds => c \in DOMAIN books /\ l \in books[c].seeds
      BY DEF LeafBook, EmptyBook
    <3>4. QED
      BY <2>2, <3>2, <3>3
  <2>3. QED
    BY <2>1, <2>2
<1>14. QED
  BY <1>1, <1>2, <1>7, <1>9, <1>10, <1>11, <1>12, <1>13 DEF FillInv

\* The cancel half of a command takes an indexed order out of its book, the
\* mirror and both indexes.
LEMMA LifecycleKeepsFill ==
  ASSUME FillInv, LifecycleOne, UNCHANGED engineVars
  PROVE  /\ FillInv' /\ error' = error
         /\ DOMAIN books' = DOMAIN books
         /\ \A c \in DOMAIN books : books'[c].seeds = books[c].seeds
<1>1. TypeInv'
  BY LifecycleType DEF FillInv
<1>2. ~ (CancelsResting(cmds[k]) /\ Uncounted(cmds[k].order))
  BY CountedIsLive DEF Uncounted, FillInv, Bridged
<1>3. /\ pc = "lifecycle" /\ pc' = "lifecycle"
      /\ UNCHANGED <<cmds, submitIds, error, nextOrder>>
      /\ IF CancelsResting(cmds[k]) THEN CancelResting(cmds[k].order) ELSE UNCHANGED fillVars
  BY <1>2 DEF LifecycleOne, engineVars, idVars
<1>4. Passed \in Nat /\ Passed' \in Nat /\ Passed <= Passed' /\ pc \in InCall
  BY <1>3 DEF Passed, InCall
<1>5. CASE UNCHANGED fillVars
  <2>1. \A c : RestingAt(c)' = RestingAt(c)
    BY <1>5 DEF RestingAt, fillVars
  <2>2. \A seq : InBook(seq)' <=> InBook(seq)
    BY <1>5 DEF InBook, fillVars
  <2>3. Shaped' /\ Bridged' /\ Counted' /\ Mirrored' /\ SeedsKnown'
    BY <1>3, <1>5, <2>1, <2>2
    DEF FillInv, Shaped, Bridged, Counted, Mirrored, SeedsKnown, fillVars
  <2>4. Dealt'
    BY <1>3, <1>4, <1>5, DealtKeeps DEF FillInv, fillVars
  <2>5. QED
    BY <1>1, <1>3, <1>5, <2>3, <2>4 DEF FillInv, fillVars
<1>6. CASE CancelsResting(cmds[k]) /\ cmds[k].order \in DOMAIN orderIndex
  <2>1. PICK seq : seq = orderIndex[cmds[k].order]
    OBVIOUS
  <2>2. seq \in DOMAIN mirror /\ mirror[seq].order = cmds[k].order
    BY <1>6, <2>1 DEF FillInv, Bridged
  <2>3. PICK c : c = mirror[seq].contract
    OBVIOUS
  <2>4. /\ books' = [books EXCEPT ![c].orders = Drop(books[c].orders, seq)]
        /\ mirror' = Drop(mirror, seq)
        /\ liveOrders' = Release(liveOrders, mirror[seq].contract)
        /\ orderIndex' = Drop(orderIndex, mirror[seq].order)
        /\ seedIds' = seedIds /\ nextSeq' = nextSeq
    BY <1>3, <1>6, <2>1, <2>2, <2>3 DEF CancelResting
  <2>5. Bridged' /\ Counted'
    BY <2>2, <2>4, RemoveKeeps DEF FillInv
  <2>6. Mirrored'
    BY <1>3, <2>2, <2>3, <2>4, RemoveMirrored DEF FillInv
  <2>7. c \in DOMAIN books
    BY <1>3, <2>2, <2>3 DEF FillInv, Mirrored, InBook
  <2>8. /\ Shaped' /\ DOMAIN books' = DOMAIN books
        /\ \A d \in DOMAIN books : books'[d].seeds = books[d].seeds
    BY <2>4, <2>7, OrdersChange DEF FillInv
  <2>9. SeedsKnown'
    BY <1>3, <2>4, <2>8 DEF FillInv, SeedsKnown
  <2>10. DOMAIN orderIndex' \subseteq DOMAIN orderIndex
    BY <2>4 DEF Drop
  <2>11. Dealt'
    BY <1>3, <1>4, <2>10, DealtKeeps DEF FillInv
  <2>12. QED
    BY <1>1, <1>3, <2>5, <2>6, <2>8, <2>9, <2>11 DEF FillInv
<1>7. QED
  BY <1>3, <1>5, <1>6 DEF CancelResting

\* A submission comes to rest under a fresh sequence id and a fresh order id,
\* in the book, the mirror and both indexes, or leaves them alone.
LEMMA SubmitKeepsFill ==
  ASSUME FillInv, NEW levels \in Walks, NEW rest \in 0..MaxQty, SubmitOne(levels, rest),
         UNCHANGED engineVars
  PROVE  /\ FillInv'
         /\ \A c \in DOMAIN books' : \A ladder \in books'[c].seeds :
              c \in DOMAIN books /\ ladder \in books[c].seeds
<1>1. TypeInv'
  BY SubmissionType DEF FillInv
<1>2. PICK intent : intent = cmds[k].intent
  OBVIOUS
<1>3. PICK id : id = submitIds[Ordinal(k)]
  OBVIOUS
<1>4. PICK c : c = intent.contract
  OBVIOUS
<1>5. /\ AtSubmission /\ SubmitFault = "none" /\ pc = "submit"
      /\ FillSubmit(intent, id, levels, rest)
      /\ k' = k + 1
      /\ UNCHANGED <<pc, cmds, submitIds, error, nextOrder>>
  BY <1>2, <1>3 DEF SubmitOne, AtSubmission, engineVars, idVars
<1>6. intent \in Intents /\ c \in Contracts
  BY <1>2, <1>4, <1>5, SubmitChecked DEF FillInv, Intents
<1>7. id \notin DOMAIN orderIndex
  BY <1>3, <1>5, NextDealt DEF FillInv
<1>8. LeafBook(c) = [seeds |-> LeafBook(c).seeds, orders |-> LeafBook(c).orders]
  BY DEF LeafBook, EmptyBook, FillInv, Shaped
<1>9. /\ nextSeq \in Nat /\ DOMAIN mirror \subseteq Nat
      /\ nextSeq \notin DOMAIN mirror
      /\ nextSeq' = nextSeq + 1 /\ seedIds' = seedIds
  BY <1>5 DEF FillSubmit, FillInv, Counted, TypeInv, TypeOK, FillTypeOK, IsMap
<1> DEFINE rests == intent.kind = "gtc" /\ rest > 0
           meta  == RestingMeta(intent, id, rest)
           orders == IF rests THEN Put(LeafBook(c).orders, nextSeq,
                                       [qty |-> rest, side |-> intent.side])
                     ELSE LeafBook(c).orders
           book == [seeds |-> LeafBook(c).seeds, orders |-> orders]
<1>10. books' = Put(books, c, book)
  <2>1. CASE rests
    <3>1. [LeafBook(c) EXCEPT !.orders = Put(@, nextSeq, [qty |-> rest, side |-> intent.side])]
            = book
      BY <1>8, <2>1
    <3>2. QED
      BY <1>4, <1>5, <2>1, <3>1 DEF FillSubmit
  <2>2. CASE ~ rests
    BY <1>4, <1>5, <1>8, <2>2 DEF FillSubmit
  <2>3. QED
    BY <2>1, <2>2
<1>11. /\ DOMAIN books' = DOMAIN books \cup {c} /\ books'[c] = book
       /\ \A d \in DOMAIN books : d # c => books'[d] = books[d]
  BY <1>10 DEF Put
<1>12. Shaped'
  BY <1>11 DEF FillInv, Shaped
<1>13. \A d \in DOMAIN books' : books'[d].seeds = LeafBook(d).seeds
  BY <1>11 DEF LeafBook
<1>14. SeedsKnown'
  BY <1>5, <1>9, <1>13 DEF FillInv, SeedsKnown, LeafBook, EmptyBook
<1>15. \A d \in DOMAIN books' : \A ladder \in books'[d].seeds :
         d \in DOMAIN books /\ ladder \in books[d].seeds
  BY <1>13 DEF LeafBook, EmptyBook
<1>16. /\ Bridged' /\ Counted' /\ Mirrored'
       /\ DOMAIN orderIndex' \subseteq DOMAIN orderIndex \cup {id}
  <2>1. CASE rests
    <3>1. PICK m : m = meta
      OBVIOUS
    <3>2. /\ m.order = id /\ m.contract = c /\ m.remaining = rest /\ m.side = intent.side
      BY <1>4, <3>1 DEF RestingMeta
    <3>3. /\ mirror' = Put(mirror, nextSeq, m)
          /\ orderIndex' = Put(orderIndex, id, nextSeq)
          /\ liveOrders' = Track(liveOrders, c)
      BY <1>4, <1>5, <2>1, <3>1 DEF FillSubmit
    <3>4. PICK b : b = book
      OBVIOUS
    <3>5. /\ b.orders = Put(LeafBook(c).orders, nextSeq, [qty |-> m.remaining, side |-> m.side])
          /\ books' = Put(books, c, b)
      BY <1>10, <2>1, <3>2, <3>4
    <3> HIDE DEF book, meta, orders
    <3>6. Bridged' /\ Counted'
      BY <1>6, <1>7, <1>9, <3>2, <3>3, AddKeeps DEF FillInv
    <3>7. Mirrored'
      BY <1>5, <1>9, <3>2, <3>3, <3>5, AddMirrored DEF FillInv
    <3>8. QED
      BY <3>3, <3>6, <3>7 DEF Put
  <2>2. CASE ~ rests
    <3>1. UNCHANGED <<mirror, orderIndex, liveOrders>>
      BY <1>5, <2>2 DEF FillSubmit
    <3>2. \A d : RestingAt(d)' = RestingAt(d)
      BY <3>1 DEF RestingAt
    <3>3. Bridged' /\ Counted'
      BY <1>9, <3>1, <3>2 DEF FillInv, Bridged, Counted, TypeInv, TypeOK, FillTypeOK, IsMap
    <3>4. PICK b : b = book
      OBVIOUS
    <3>5. b.orders = LeafBook(c).orders /\ books' = Put(books, c, b)
      BY <1>10, <2>2, <3>4
    <3> HIDE DEF book, meta, orders
    <3>6. Mirrored'
      BY <1>5, <3>1, <3>5, LadderMirrored DEF FillInv
    <3>7. QED
      BY <3>1, <3>3, <3>6
  <2>3. QED
    BY <2>1, <2>2
<1>17. Dealt'
  BY <1>3, <1>5, <1>16, SubmitDeals DEF FillInv
<1>18. QED
  BY <1>1, <1>5, <1>12, <1>14, <1>15, <1>16, <1>17 DEF FillInv

\* Every step of the program keeps the invariant.
LEMMA StepKeepsFill ==
  ASSUME FillInv, [Next]_vars
  PROVE  FillInv'
<1>1. CASE EngineNext /\ UNCHANGED fillVars
  BY <1>1, EngineKeepsFill
<1>2. CASE FillNext /\ UNCHANGED engineVars
  <2>1. CASE SubmitFails
    <3>1. SubmitFault \in Errors
      BY DEF SubmitFault, Errors
    <3>2. QED
      BY <1>2, <2>1, <3>1, AbortKeepsFill DEF SubmitFails
  <2>2. CASE SubmitSelfCross
    BY <1>2, <2>2, AbortKeepsFill DEF SubmitSelfCross, Errors
  <2>3. QED
    BY <1>2, <2>1, <2>2, RefreshKeepsFill, CrossKeepsFill, LadderKeepsFill,
       LifecycleKeepsFill, SubmitKeepsFill, PhaseKeepsFill DEF FillNext
<1>3. CASE UNCHANGED vars
  <2>1. \A c : RestingAt(c)' = RestingAt(c)
    BY <1>3 DEF RestingAt, vars, fillVars
  <2>2. \A seq : InBook(seq)' <=> InBook(seq)
    BY <1>3 DEF InBook, vars, fillVars
  <2>3. Passed' = Passed /\ Submissions(cmds)' = Submissions(cmds)
    BY <1>3 DEF Passed, Ordinal, Submissions, vars, seamVars
  <2>4. TypeInv'
    BY StepType DEF FillInv
  <2>5. QED
    BY <1>3, <2>1, <2>2, <2>3, <2>4
    DEF FillInv, Shaped, Bridged, Counted, Dealt, Mirrored, SeedsKnown,
        vars, seamVars, fillVars, engineVars, idVars
<1>4. QED
  BY <1>1, <1>2, <1>3 DEF Next

\* A run starts with empty books.
LEMMA InitFill ==
  ASSUME Init
  PROVE  FillInv
<1>1. TypeInv
  BY InitType
<1>2. QED
  BY <1>1 DEF Init, SeamInit, FillInit, FillInv, Shaped, Bridged, Counted, Dealt, InCall,
     Mirrored, SeedsKnown

\* The bridge pairs the working orders with the entries of the mirror.
LEMMA BridgePairs ==
  ASSUME TypeInv, Bridged, Counted
  PROVE  Cardinality(DOMAIN orderIndex) = Cardinality(DOMAIN mirror)
<1> DEFINE f == [seq \in DOMAIN mirror |-> mirror[seq].order]
<1>1. f \in Bijection(DOMAIN mirror, DOMAIN orderIndex)
  <2>1. f \in [DOMAIN mirror -> DOMAIN orderIndex]
    BY DEF Bridged
  <2>2. \A a, b \in DOMAIN mirror : f[a] = f[b] => a = b
    BY DEF Bridged
  <2>3. \A o \in DOMAIN orderIndex : \E seq \in DOMAIN mirror : f[seq] = o
    BY DEF Bridged
  <2>4. QED
    BY <2>1, <2>2, <2>3 DEF Bijection, Injection, IsInjective, Surjection
<1>2. ExistsBijection(DOMAIN mirror, DOMAIN orderIndex)
  BY <1>1 DEF ExistsBijection
<1>3. QED
  BY <1>2, MirrorFinite, FS_Bijection

\* The invariant says that the mirror, the books and both indexes agree.
LEMMA InvariantAgrees ==
  ASSUME FillInv
  PROVE  MirrorMatchesBooks
<1>1. /\ orderIndex = [o \in DOMAIN orderIndex |-> orderIndex[o]]
      /\ liveOrders = [c \in DOMAIN liveOrders |-> liveOrders[c]]
  BY DEF FillInv, TypeInv, TypeOK, FillTypeOK, IsMap
<1>2. DOMAIN orderIndex = {mirror[seq].order : seq \in DOMAIN mirror}
  BY DEF FillInv, Bridged
<1>3. \A o \in DOMAIN orderIndex :
        orderIndex[o] = CHOOSE seq \in DOMAIN mirror : mirror[seq].order = o
  BY DEF FillInv, Bridged
<1>4. orderIndex = [o \in {mirror[seq].order : seq \in DOMAIN mirror} |->
                      CHOOSE seq \in DOMAIN mirror : mirror[seq].order = o]
  BY <1>1, <1>2, <1>3
<1>5. liveOrders = [c \in {mirror[seq].contract : seq \in DOMAIN mirror} |->
                      Cardinality({seq \in DOMAIN mirror : mirror[seq].contract = c})]
  BY <1>1 DEF FillInv, Counted, RestingAt
<1>6. Cardinality(DOMAIN orderIndex) = Cardinality(DOMAIN mirror)
  BY BridgePairs DEF FillInv
<1>7. ASSUME pc # "failed"
      PROVE  DOMAIN mirror = UNION {DOMAIN books[c].orders : c \in DOMAIN books}
  <2>1. Mirrored
    BY <1>7 DEF FillInv
  <2>2. ASSUME NEW seq \in DOMAIN mirror
        PROVE  seq \in UNION {DOMAIN books[c].orders : c \in DOMAIN books}
    <3>1. InBook(seq)
      BY <2>1 DEF Mirrored
    <3>2. PICK c \in DOMAIN books : seq \in DOMAIN books[c].orders
      BY <3>1 DEF InBook
    <3>3. QED
      BY <3>2
  <2>3. ASSUME NEW seq \in UNION {DOMAIN books[c].orders : c \in DOMAIN books}
        PROVE  seq \in DOMAIN mirror
    <3>1. PICK c \in DOMAIN books : seq \in DOMAIN books[c].orders
      OBVIOUS
    <3>2. QED
      BY <2>1, <3>1 DEF Mirrored
  <2>4. QED
    BY <2>2, <2>3
<1>8. QED
  BY <1>4, <1>5, <1>6, <1>7 DEF MirrorMatchesBooks, FillInv, Mirrored, InBook

-----------------------------------------------------------------------------
(* The theorems.                                                           *)

\* The strategy's resting orders are the same in all four places the model
\* keeps them - the mirror, the leaf books, the order index and the live-order
\* counts - after every insert, match, cancel, replace and eviction, for any
\* number of contracts, orders and steps.
THEOREM MirrorAlwaysMatches == Spec => []MirrorMatchesBooks
<1>1. Init => FillInv
  BY InitFill
<1>2. FillInv /\ [Next]_vars => FillInv'
  BY StepKeepsFill
<1>3. FillInv => MirrorMatchesBooks
  BY InvariantAgrees
<1>4. QED
  BY <1>1, <1>2, <1>3, PTL DEF Spec

\* The phases that run on refreshed books.
Fresh == {"reseed", "lifecycle", "submit", "validate", "carry", "walk",
          "settle", "advance", "done"}

\* The engine works on the books and the snapshot of the call.
LEMMA EngineStaysFresh ==
  ASSUME TypeInv, EngineNext, pc' \in Fresh
  PROVE  pc \in Fresh /\ call' = call /\ quoted' = quoted
  BY DEF EngineNext, OnStart, Exits, OnSnapshot, OnEnd, MintIds, Validate, CarryFails,
     CarryOpensLeg, CarryExtendsLeg, CarryClosesLeg, CarryDone, WalkCancel, WalkFails,
     WalkRestsOpen, WalkRestsClose, WalkOpens, WalkCloses, WalkDone, Settle, SettleExpired,
     Advance, AtCarry, AtWalk, Walking, CarryNext, WalkNext, AbortEngine, AbortSeam, Fresh

\* A step of the program leaves no ladder of an earlier snapshot.
LEMMA StepStaysFresh ==
  ASSUME FillInv, NoStaleDepth, [Next]_vars
  PROVE  NoStaleDepth'
<1> SUFFICES ASSUME pc' \in Fresh, NEW c \in DOMAIN books', NEW ladder \in books'[c].seeds
             PROVE  (ladder[1] = call /\ c \in quoted)'
  BY DEF NoStaleDepth, Fresh
<1>1. CASE EngineNext /\ UNCHANGED fillVars
  <2>1. pc \in Fresh /\ call' = call /\ quoted' = quoted
    BY <1>1, EngineStaysFresh DEF FillInv
  <2>2. QED
    BY <1>1, <2>1 DEF NoStaleDepth, Fresh, fillVars
<1>2. CASE FillNext /\ UNCHANGED engineVars
  <2>1. CASE RefreshBooks
    BY <1>2, <2>1, RefreshKeepsFill
  <2>2. ASSUME NEW seq, NEW q \in Quantities, ReseedCross(seq, q)
        PROVE  (ladder[1] = call /\ c \in quoted)'
    <3>1. /\ DOMAIN books' = DOMAIN books
          /\ \A d \in DOMAIN books : books'[d].seeds = books[d].seeds
      BY <1>2, <2>2, CrossKeepsFill
    <3>2. pc = "reseed" /\ call' = call /\ quoted' = quoted
      BY <2>2 DEF ReseedCross, AbortFill, AbortSeam, Fresh
    <3>3. QED
      BY <3>1, <3>2 DEF NoStaleDepth
  <2>3. ASSUME NEW rests \in BOOLEAN, ReseedNext(rests)
        PROVE  (ladder[1] = call /\ c \in quoted)'
    <3>1. \/ c \in DOMAIN books /\ ladder \in books[c].seeds
          \/ ladder[1] = call /\ c \in quoted
      BY <1>2, <2>3, LadderKeepsFill
    <3>2. pc = "reseed" /\ call' = call /\ quoted' = quoted
      BY <2>3 DEF ReseedNext
    <3>3. QED
      BY <3>1, <3>2 DEF NoStaleDepth
  <2>4. CASE LifecycleOne
    <3>1. /\ FillInv' /\ error' = error
          /\ DOMAIN books' = DOMAIN books
          /\ \A d \in DOMAIN books : books'[d].seeds = books[d].seeds
      BY <1>2, <2>4, LifecycleKeepsFill
    <3>2. pc = "lifecycle" /\ call' = call /\ quoted' = quoted
      BY <2>4 DEF LifecycleOne, AbortFill, AbortSeam, Fresh
    <3>3. QED
      BY <3>1, <3>2 DEF NoStaleDepth
  <2>5. ASSUME NEW levels \in Walks, NEW rest \in 0..MaxQty, SubmitOne(levels, rest)
        PROVE  (ladder[1] = call /\ c \in quoted)'
    <3>1. c \in DOMAIN books /\ ladder \in books[c].seeds
      BY <1>2, <2>5, SubmitKeepsFill
    <3>2. pc = "submit" /\ call' = call /\ quoted' = quoted
      BY <2>5 DEF SubmitOne, AtSubmission
    <3>3. QED
      BY <3>1, <3>2 DEF NoStaleDepth
  <2>6. CASE ReseedDone \/ LifecycleDone \/ SubmitSkip \/ SubmitDone
    <3>1. pc \in Fresh /\ UNCHANGED <<call, quoted, fillVars>>
      BY <2>6 DEF ReseedDone, LifecycleDone, SubmitSkip, SubmitDone, Fresh
    <3>2. QED
      BY <3>1 DEF NoStaleDepth, Fresh, fillVars
  <2>7. ~ (SubmitFails \/ SubmitSelfCross)
    BY DEF SubmitFails, SubmitSelfCross, AbortFill, AbortSeam, Fresh
  <2>8. QED
    BY <1>2, <2>1, <2>2, <2>3, <2>4, <2>5, <2>6, <2>7 DEF FillNext
<1>3. CASE UNCHANGED vars
  BY <1>3 DEF NoStaleDepth, Fresh, vars, seamVars, fillVars
<1>4. QED
  BY <1>1, <1>2, <1>3 DEF Next

\* Synthetic depth is never carried over: from the reseed of a call to the end
\* of its step every ladder in a book was seeded from the snapshot being
\* replayed, whatever books were kept for working orders.
THEOREM DepthNeverStale == Spec => []NoStaleDepth
<1>1. Init => FillInv /\ NoStaleDepth
  BY InitFill DEF Init, SeamInit, NoStaleDepth
<1>2. FillInv /\ NoStaleDepth /\ [Next]_vars => (FillInv /\ NoStaleDepth)'
  BY StepKeepsFill, StepStaysFresh
<1>3. QED
  BY <1>1, <1>2, PTL DEF Spec

\* The ids minted ahead of a call cover its submissions.
LEMMA CallCovered ==
  ASSUME FillInv, AtSubmission
  PROVE  SubmitFault # "under_cover"
<1>1. /\ cmds \in Seq(Commands) /\ k \in 1..Len(cmds) /\ pc \in InCall
      /\ submitIds \in Seq(OrderIds)
  BY DEF AtSubmission, InCall, FillInv, TypeInv, TypeOK, SeamTypeOK
<1>2. Ordinal(k) <= Submissions(cmds) /\ Len(submitIds) = Submissions(cmds)
  BY <1>1, OrdinalBound DEF FillInv, Dealt
<1>3. Ordinal(k) \in Nat /\ Len(submitIds) \in Nat
  <2>1. k \in Int
    BY <1>1
  <2>2. Ordinal(k) \in Nat
    BY <2>1, PrefixFinite
  <2>3. Len(submitIds) \in Nat
    BY <1>1
  <2>4. QED
    BY <2>2, <2>3
<1>4. QED
  BY <1>2, <1>3 DEF SubmitFault

\* No step reports a desync of the model's books.
LEMMA ModelNeverDesyncs ==
  ASSUME FillInv, error \notin FillDesyncs, [Next]_vars
  PROVE  error' \notin FillDesyncs
<1>1. CASE EngineNext /\ UNCHANGED fillVars
  BY <1>1 DEF EngineNext, OnStart, Exits, OnSnapshot, OnEnd, MintIds, Validate, CarryFails,
     CarryOpensLeg, CarryExtendsLeg, CarryClosesLeg, CarryDone, WalkCancel, WalkFails,
     WalkRestsOpen, WalkRestsClose, WalkOpens, WalkCloses, WalkDone, Settle, SettleExpired,
     Advance, CarryNext, WalkNext, AbortEngine, AbortSeam, FillDesyncs,
     ValidateFault, CarryFault, WalkFault, CloseFault, ExtendFault, SettleFault
<1>2. CASE FillNext /\ UNCHANGED engineVars
  <2>1. CASE LifecycleOne
    BY <1>2, <2>1, LifecycleKeepsFill
  <2>2. ASSUME NEW seq, NEW q \in Quantities, ReseedCross(seq, q)
        PROVE  error' = error
    BY <1>2, <2>2, CrossKeepsFill
  <2>3. CASE SubmitFails \/ SubmitSelfCross
    BY <2>3 DEF SubmitFails, SubmitSelfCross, SubmitFault, AbortFill, AbortSeam, FillDesyncs
  <2>4. CASE ~ (LifecycleOne \/ SubmitFails \/ SubmitSelfCross)
    <3>1. CASE \E seq, q : q \in Quantities /\ ReseedCross(seq, q)
      BY <2>2, <3>1
    <3>2. CASE ~ \E seq, q : q \in Quantities /\ ReseedCross(seq, q)
      BY <1>2, <2>4, <3>2 DEF FillNext, RefreshBooks, ReseedNext, ReseedDone, LifecycleDone,
         SubmitOne, SubmitSkip, SubmitDone
    <3>3. QED
      BY <3>1, <3>2
  <2>5. QED
    BY <2>1, <2>3, <2>4
<1>3. CASE UNCHANGED vars
  BY <1>3 DEF vars, seamVars
<1>4. QED
  BY <1>1, <1>2, <1>3 DEF Next

\* The desync guards of the model (a maker that trades more than the mirror
\* tracks, a release of an order the live index does not count) never fire, nor
\* does a submission find no id: whatever the strategy and the tape do, a run
\* does not end on one, as long as the order books match as modelled.
THEOREM FillNeverDesyncs == Spec => []NoFillDesync
<1>1. Init => FillInv /\ error \notin FillDesyncs
  BY InitFill DEF Init, SeamInit, FillDesyncs
<1>2. FillInv /\ error \notin FillDesyncs /\ [Next]_vars
        => (FillInv /\ error \notin FillDesyncs)'
  <2> SUFFICES ASSUME FillInv, error \notin FillDesyncs, [Next]_vars
               PROVE  FillInv' /\ (error \notin FillDesyncs)'
    OBVIOUS
  <2>1. FillInv'
    BY StepKeepsFill
  <2>2. (error \notin FillDesyncs)'
    BY ModelNeverDesyncs DEF FillDesyncs
  <2>3. QED
    BY <2>1, <2>2
<1>3. FillInv /\ error \notin FillDesyncs => NoFillDesync
  BY CallCovered DEF NoFillDesync
<1>4. QED
  BY <1>1, <1>2, <1>3, PTL DEF Spec

-----------------------------------------------------------------------------
(***************************************************************************)
(* The seam of a replay run, for every value of the constants: between two *)
(* calls of ExecutionModel::fill the engine's registry of pending orders   *)
(* and the fill model's mirror list the same orders, of the same contract, *)
(* side and remaining size, and no step ever finds that one side has lost  *)
(* track of the other (RegistryMatchesMirror).                             *)
(*                                                                         *)
(* Inside a call the two do differ: the model executes, cancels and        *)
(* shrinks a whole call ahead of the engine, which learns of it from       *)
(* outFills and the two correlation channels, group by group.  SeamInv     *)
(* says by how much.  What an order is still to be told of is the quantity *)
(* of its fills past the cursor (Owed), and the channels name the owner of *)
(* every fill (Grouped): so each order's entry in the registry is its      *)
(* entry in the mirror plus what it is owed (Registered), where the        *)
(* submissions the walk has not reached stand for entries yet to be made   *)
(* (Awaited) and the cancels it has not reached for entries yet to go      *)
(* (Doomed).  Minted keeps the ids of the call apart from the earlier      *)
(* ones, and Room says that a leg a resting order grows never exceeds a    *)
(* quantity.                                                               *)
(***************************************************************************)

-----------------------------------------------------------------------------
(* Runs of fills, and what an order trades in them.                        *)

\* What order o trades in the fills at the indexes S.
Qty(fills, S, o) ==
  SumOver([i \in DOMAIN fills |-> fills[i].qty], {i \in S : fills[i].owner = o})

\* The indexes of a run are finitely many and its quantities positive.
LEMMA RunSizes ==
  ASSUME NEW fills \in Seq(Fills), NEW S \in SUBSET DOMAIN fills
  PROVE  /\ IsFiniteSet(S)
         /\ \A i \in S : [j \in DOMAIN fills |-> fills[j].qty][i] \in Nat \ {0}
<1>1. IsFiniteSet(S)
  <2>1. IsFiniteSet(DOMAIN fills)
    BY FS_Interval
  <2>2. QED
    BY <2>1, FS_Subset
<1>2. \A i \in DOMAIN fills : fills[i].qty \in Nat \ {0}
  <2>1. \A i \in DOMAIN fills : fills[i] \in Fills
    OBVIOUS
  <2>2. QED
    BY <2>1, DomainAssumption DEF Fills, Quantities
<1>3. QED
  BY <1>1, <1>2

\* An order trades something exactly if one of the fills is its own.
LEMMA QtyNat ==
  ASSUME NEW fills \in Seq(Fills), NEW S \in SUBSET DOMAIN fills, NEW o
  PROVE  /\ Qty(fills, S, o) \in Nat
         /\ Qty(fills, S, o) > 0 <=> \E i \in S : fills[i].owner = o
<1> DEFINE f == [i \in DOMAIN fills |-> fills[i].qty]
           T == {i \in S : fills[i].owner = o}
<1>1. T \in SUBSET DOMAIN fills
  OBVIOUS
<1>2. IsFiniteSet(T) /\ \A i \in T : f[i] \in Nat \ {0}
  BY <1>1, RunSizes
<1>3. Qty(fills, S, o) = SumFunctionOnSet(f, T)
  BY DEF Qty, SumOver
<1> HIDE DEF f
<1>4. CASE T = {}
  <2>1. SumFunctionOnSet(f, T) = 0
    BY <1>4, SumEmpty
  <2>2. QED
    BY <1>3, <1>4, <2>1
<1>5. CASE T # {}
  <2>1. SumFunctionOnSet(f, T) \in Nat \ {0}
    BY <1>2, <1>5, SumPositive
  <2>2. QED
    BY <1>3, <1>5, <2>1
<1>6. QED
  BY <1>4, <1>5

\* Only the fills looked at count.
LEMMA QtySame ==
  ASSUME NEW fills \in Seq(Fills), NEW more \in Seq(Fills), NEW S \in SUBSET DOMAIN fills,
         S \subseteq DOMAIN more, \A i \in S : more[i] = fills[i], NEW o
  PROVE  Qty(more, S, o) = Qty(fills, S, o)
<1> DEFINE f == [i \in DOMAIN fills |-> fills[i].qty]
           g == [i \in DOMAIN more |-> more[i].qty]
           T == {i \in S : fills[i].owner = o}
<1>1. T = {i \in S : more[i].owner = o}
  OBVIOUS
<1>2. IsFiniteSet(T) /\ \A i \in T : f[i] \in Nat \ {0}
  <2>1. T \in SUBSET DOMAIN fills
    OBVIOUS
  <2>2. QED
    BY <2>1, RunSizes
<1>3. \A i \in T : f[i] = g[i]
  OBVIOUS
<1>4. Numbers(f, T)
  BY <1>2 DEF Numbers
<1>5. Qty(fills, S, o) = SumFunctionOnSet(f, T) /\ Qty(more, S, o) = SumFunctionOnSet(g, T)
  BY <1>1 DEF Qty, SumOver
<1> HIDE DEF f, g, T
<1>6. SumFunctionOnSet(f, T) = SumFunctionOnSet(g, T)
  BY <1>2, <1>3, <1>4, SumSame
<1>7. QED
  BY <1>5, <1>6

\* Two disjoint sets of fills.
LEMMA QtyUnion ==
  ASSUME NEW fills \in Seq(Fills), NEW S \in SUBSET DOMAIN fills,
         NEW T \in SUBSET DOMAIN fills, S \cap T = {}, NEW o
  PROVE  Qty(fills, S \cup T, o) = Qty(fills, S, o) + Qty(fills, T, o)
<1> DEFINE f == [i \in DOMAIN fills |-> fills[i].qty]
           A == {i \in S : fills[i].owner = o}
           B == {i \in T : fills[i].owner = o}
<1>1. {i \in S \cup T : fills[i].owner = o} = A \cup B /\ A \cap B = {}
  OBVIOUS
<1>2. IsFiniteSet(A) /\ IsFiniteSet(B) /\ \A i \in A \cup B : f[i] \in Nat \ {0}
  <2>1. A \in SUBSET DOMAIN fills /\ B \in SUBSET DOMAIN fills
    OBVIOUS
  <2>2. QED
    BY <2>1, RunSizes
<1>3. Numbers(f, A \cup B)
  <2>1. \A i \in A \cup B : f[i] \in Int
    <3> HIDE DEF f
    <3>1. QED
      BY <1>2
  <2>2. QED
    BY <2>1 DEF Numbers
<1>4. /\ Qty(fills, S, o) = SumFunctionOnSet(f, A)
      /\ Qty(fills, T, o) = SumFunctionOnSet(f, B)
      /\ Qty(fills, S \cup T, o) = SumFunctionOnSet(f, A \cup B)
  BY <1>1 DEF Qty, SumOver
<1> HIDE DEF f, A, B
<1>5. SumFunctionOnSet(f, A \cup B) = SumFunctionOnSet(f, A) + SumFunctionOnSet(f, B)
  BY <1>1, <1>2, <1>3, SumUnion
<1>6. QED
  BY <1>4, <1>5

\* The n fills after the first c are all of order o.
IsRunOf(fills, c, n, o) ==
  /\ c \in Nat /\ n \in Nat /\ c + n <= Len(fills)
  /\ \A i \in (c + 1)..(c + n) : fills[i].owner = o

\* A part of the produced fills, cut out as a run, has the size of the part; if
\* it is of one order, that is what the order trades in it.
LEMMA QtyOfRun ==
  ASSUME NEW fills \in Seq(Fills), NEW c, NEW n, NEW o, IsRunOf(fills, c, n, o)
  PROVE  /\ Qty(fills, (c + 1)..(c + n), o) = TotalQty(SubSeq(fills, c + 1, c + n))
         /\ \A p : p # o => Qty(fills, (c + 1)..(c + n), p) = 0
<1> DEFINE run == SubSeq(fills, c + 1, c + n)
           f == [i \in DOMAIN fills |-> fills[i].qty]
           g == [i \in DOMAIN run |-> run[i].qty]
<1> USE DEF IsRunOf
<1>1. run \in Seq(Fills) /\ Len(run) = n /\ \A i \in 1..n : run[i] = fills[c + i]
  OBVIOUS
<1>2. DOMAIN run = 1..n
  BY <1>1
<1>3. \A i \in 1..n : g[i] = f[c + i] /\ g[i] \in Int
  <2>1. ASSUME NEW i \in 1..n
        PROVE  g[i] = f[c + i] /\ g[i] \in Int
    <3>1. c + i \in 1..Len(fills)
      OBVIOUS
    <3>2. run[i] = fills[c + i] /\ fills[c + i] \in Fills
      BY <1>1, <3>1
    <3>3. g[i] = fills[c + i].qty /\ f[c + i] = fills[c + i].qty
      BY <1>2, <3>1, <3>2
    <3>4. QED
      BY <3>2, <3>3 DEF Fills, Quantities
  <2>2. QED
    BY <2>1
<1>4. {i \in (c + 1)..(c + n) : fills[i].owner = o} = (c + 1)..(c + n)
  OBVIOUS
<1>5. /\ Qty(fills, (c + 1)..(c + n), o) = SumFunctionOnSet(f, (c + 1)..(c + n))
      /\ TotalQty(run) = SumFunctionOnSet(g, 1..n)
  BY <1>2, <1>4 DEF Qty, SumOver, TotalQty
<1>6. ASSUME NEW p, p # o
      PROVE  Qty(fills, (c + 1)..(c + n), p) = 0
  <2>1. {i \in (c + 1)..(c + n) : fills[i].owner = p} = {}
    BY <1>6
  <2>2. QED
    BY <2>1, SumEmpty DEF Qty, SumOver
<1> HIDE DEF f, g
<1>7. SumFunctionOnSet(g, 1..n) = SumFunctionOnSet(f, (c + 1)..(c + n))
  <2>1. PICK F, G : F = f /\ G = g
    OBVIOUS
  <2>2. Shifted(F, G, c, n)
    BY <1>3, <2>1 DEF Shifted
  <2>3. SumFunctionOnSet(G, 1..n) = SumFunctionOnSet(F, (c + 1)..(c + n))
    BY <2>2, SumShift
  <2>4. QED
    BY <2>1, <2>3
<1>8. QED
  BY <1>5, <1>6, <1>7

\* All of a run is of one order.
OwnedBy(run, id) == \A i \in DOMAIN run : run[i].owner = id

\* A run of one order after other fills.
LEMMA QtyConcat ==
  ASSUME NEW fills \in Seq(Fills), NEW run \in Seq(Fills), NEW id, OwnedBy(run, id), NEW o
  PROVE  Qty(fills \o run, DOMAIN (fills \o run), o)
           = Qty(fills, DOMAIN fills, o) + IF o = id THEN TotalQty(run) ELSE 0
<1>1. PICK more, c, n : more = fills \o run /\ c = Len(fills) /\ n = Len(run)
  OBVIOUS
<1>2. PICK S, T : S = 1..c /\ T = (c + 1)..(c + n)
  OBVIOUS
<1>3. /\ more \in Seq(Fills) /\ c \in Nat /\ n \in Nat /\ c + n = Len(more)
      /\ DOMAIN fills = S /\ DOMAIN more = S \cup T /\ S \cap T = {}
      /\ S \in SUBSET DOMAIN more /\ T \in SUBSET DOMAIN more
  BY <1>1, <1>2
<1>4. (\A i \in S : more[i] = fills[i]) /\ \A i \in T : more[i].owner = id
  BY <1>1, <1>2 DEF OwnedBy
<1>5. SubSeq(more, c + 1, c + n) = run
  BY <1>1, <1>3
<1>6. Qty(more, S \cup T, o) = Qty(more, S, o) + Qty(more, T, o)
  BY <1>3, QtyUnion
<1>7. Qty(more, S, o) = Qty(fills, S, o)
  <2>1. fills \in Seq(Fills) /\ S \in SUBSET DOMAIN fills
    BY <1>3
  <2>2. QED
    BY <1>3, <1>4, <2>1, QtySame
<1>8. /\ Qty(more, T, id) = TotalQty(run)
      /\ \A p : p # id => Qty(more, T, p) = 0
  <2>1. IsRunOf(more, c, n, id)
    BY <1>2, <1>3, <1>4 DEF IsRunOf
  <2>2. /\ Qty(more, (c + 1)..(c + n), id) = TotalQty(SubSeq(more, c + 1, c + n))
        /\ \A p : p # id => Qty(more, (c + 1)..(c + n), p) = 0
    BY <1>3, <2>1, QtyOfRun
  <2>3. QED
    BY <1>2, <1>5, <2>2
<1>9. Qty(fills, S, o) \in Nat
  <2>1. S \in SUBSET DOMAIN fills
    BY <1>3
  <2>2. QED
    BY <2>1, QtyNat
<1>10. QED
  BY <1>1, <1>3, <1>6, <1>7, <1>8, <1>9

\* One more fill.
LEMMA QtyAppend ==
  ASSUME NEW fills \in Seq(Fills), NEW fill \in Fills, NEW o
  PROVE  Qty(Append(fills, fill), DOMAIN Append(fills, fill), o)
           = Qty(fills, DOMAIN fills, o) + IF o = fill.owner THEN fill.qty ELSE 0
<1>1. PICK run : run = <<fill>>
  OBVIOUS
<1>2. run \in Seq(Fills) /\ DOMAIN run = {1} /\ run[1] = fill
      /\ Append(fills, fill) = fills \o run
  BY <1>1
<1>3. TotalQty(run) = fill.qty
  <2> DEFINE f == [i \in DOMAIN run |-> run[i].qty]
  <2>1. f[1] = fill.qty /\ fill.qty \in Int
    BY <1>2 DEF Fills, Quantities
  <2>2. TotalQty(run) = SumFunctionOnSet(f, {1})
    BY <1>2 DEF TotalQty, SumOver
  <2> HIDE DEF f
  <2>3. IsFiniteSet({}) /\ {1} = {} \cup {1} /\ Numbers(f, {} \cup {1})
    BY <2>1, FS_EmptySet DEF Numbers
  <2>4. SumFunctionOnSet(f, {} \cup {1}) = SumFunctionOnSet(f, {}) + f[1]
    BY <2>3, SumAdd
  <2>5. QED
    BY <2>1, <2>2, <2>3, <2>4, SumEmpty
<1>4. OwnedBy(run, fill.owner)
  BY <1>2 DEF OwnedBy
<1>5. Qty(fills \o run, DOMAIN (fills \o run), o)
        = Qty(fills, DOMAIN fills, o) + IF o = fill.owner THEN TotalQty(run) ELSE 0
  BY <1>2, <1>4, QtyConcat
<1>6. QED
  BY <1>2, <1>3, <1>5

-----------------------------------------------------------------------------
(* The groups of the correlation channels, which name the owners of the    *)
(* produced fills by counting.                                             *)

\* A sequence of groups, none of them empty.
Grouping(groups) ==
  /\ Len(groups) \in Nat /\ DOMAIN groups = 1..Len(groups)
  /\ \A g \in DOMAIN groups : groups[g].count \in Nat \ {0}

\* The fills before group g, and those of group g after the first base fills.
Before(groups, g) == SumOver([i \in DOMAIN groups |-> groups[i].count], 1..(g - 1))
Segment(groups, base, g) == (base + Before(groups, g) + 1)..(base + Before(groups, g + 1))

\* The channels hold groupings.
LEMMA ChannelsGroup ==
  ASSUME TypeInv
  PROVE  Grouping(carryGroups) /\ Grouping(fillGroups)
<1>1. carryGroups \in Seq(CarryGroups) /\ fillGroups \in Seq(FillGroups)
  BY DEF TypeInv, TypeOK, SeamTypeOK
<1>2. \A g \in DOMAIN carryGroups : carryGroups[g] \in CarryGroups
  BY <1>1
<1>3. \A g \in DOMAIN fillGroups : fillGroups[g] \in FillGroups
  BY <1>1
<1>4. Grouping(carryGroups)
  BY <1>1, <1>2 DEF Grouping, CarryGroups
<1>5. Grouping(fillGroups)
  BY <1>1, <1>3 DEF Grouping, FillGroups
<1>6. QED
  BY <1>4, <1>5

\* Each group begins where the one before it ends, and the last ends the count.
LEMMA BeforeSteps ==
  ASSUME NEW groups, Grouping(groups)
  PROVE  /\ Before(groups, 1) = 0
         /\ \A g \in 1..(Len(groups) + 1) : Before(groups, g) \in Nat
         /\ \A g \in DOMAIN groups :
              Before(groups, g + 1) = Before(groups, g) + groups[g].count
         /\ \A g, h \in 1..(Len(groups) + 1) :
              g <= h => Before(groups, g) <= Before(groups, h)
         /\ CountOf(groups) = Before(groups, Len(groups) + 1)
<1> DEFINE f == [i \in DOMAIN groups |-> groups[i].count]
           n == Len(groups)
           S(g) == 1..(g - 1)
<1>1. /\ n \in Nat /\ DOMAIN groups = 1..n
      /\ \A i \in 1..n : f[i] = groups[i].count /\ f[i] \in Nat \ {0}
  BY DEF Grouping
<1>2. /\ \A g : Before(groups, g) = SumFunctionOnSet(f, S(g))
      /\ CountOf(groups) = SumFunctionOnSet(f, 1..n)
  BY <1>1 DEF Before, CountOf, SumOver
<1> HIDE DEF f
<1>3. ASSUME NEW g \in 1..(n + 1)
      PROVE  IsFiniteSet(S(g)) /\ S(g) \in SUBSET (1..n) /\ \A i \in S(g) : f[i] \in Nat
  <2>1. IsFiniteSet(1..(g - 1))
    <3>1. 1 \in Int /\ g - 1 \in Int
      BY <1>1
    <3>2. QED
      BY <3>1, FS_Interval
  <2>2. S(g) \in SUBSET (1..n)
    BY <1>1
  <2>3. QED
    BY <1>1, <2>1, <2>2
<1>4. SumFunctionOnSet(f, S(1)) = 0
  <2>1. S(1) = {}
    OBVIOUS
  <2>2. QED
    BY <2>1, SumEmpty
<1>5. \A g \in 1..(n + 1) : SumFunctionOnSet(f, S(g)) \in Nat
  <2> HIDE DEF S
  <2>1. QED
    BY <1>3, SumNat
<1>6. ASSUME NEW g \in 1..n
      PROVE  SumFunctionOnSet(f, S(g + 1)) = SumFunctionOnSet(f, S(g)) + f[g]
  <2>1. S(g + 1) = S(g) \cup {g} /\ g \notin S(g) /\ g \in 1..(n + 1) /\ f[g] \in Int
    BY <1>1
  <2>2. IsFiniteSet(S(g)) /\ Numbers(f, S(g) \cup {g})
    BY <1>3, <2>1 DEF Numbers
  <2> HIDE DEF S
  <2>3. QED
    BY <2>1, <2>2, SumAdd
<1>7. ASSUME NEW g \in 1..(n + 1), NEW h \in 1..(n + 1), g <= h
      PROVE  SumFunctionOnSet(f, S(g)) <= SumFunctionOnSet(f, S(h))
  <2>1. S(g) \in SUBSET S(h)
    BY <1>1, <1>7
  <2>2. IsFiniteSet(S(h)) /\ \A i \in S(h) : f[i] \in Nat
    BY <1>3
  <2> HIDE DEF S
  <2>3. QED
    BY <2>1, <2>2, SumPart
<1>8. S(n + 1) = 1..n
  BY <1>1
<1> HIDE DEF S
<1>9. QED
  BY <1>1, <1>2, <1>4, <1>5, <1>6, <1>7, <1>8

\* Where a group begins depends on the groups before it only.
LEMMA BeforeSame ==
  ASSUME NEW groups, NEW more, Grouping(groups), Grouping(more),
         NEW g \in 1..(Len(groups) + 1), g <= Len(more) + 1,
         \A i \in 1..(g - 1) : more[i].count = groups[i].count
  PROVE  Before(more, g) = Before(groups, g)
<1> DEFINE f == [i \in DOMAIN groups |-> groups[i].count]
           h == [i \in DOMAIN more |-> more[i].count]
<1>1. \A i \in 1..(g - 1) : h[i] = f[i] /\ f[i] \in Int
  <2>1. ASSUME NEW i \in 1..(g - 1)
        PROVE  h[i] = f[i] /\ f[i] \in Int
    <3>1. i \in DOMAIN groups /\ i \in DOMAIN more /\ groups[i].count \in Int
      BY DEF Grouping
    <3>2. QED
      BY <3>1
  <2>2. QED
    BY <2>1
<1>2. PICK S : S = 1..(g - 1)
  OBVIOUS
<1>3. IsFiniteSet(S)
  <2>1. 1 \in Int /\ g - 1 \in Int
    BY DEF Grouping
  <2>2. QED
    BY <1>2, <2>1, FS_Interval
<1>4. Before(groups, g) = SumFunctionOnSet(f, S) /\ Before(more, g) = SumFunctionOnSet(h, S)
  BY <1>2 DEF Before, SumOver
<1> HIDE DEF f, h
<1>5. Numbers(f, S) /\ \A i \in S : f[i] = h[i]
  BY <1>1, <1>2 DEF Numbers
<1>6. SumFunctionOnSet(f, S) = SumFunctionOnSet(h, S)
  BY <1>3, <1>5, SumSame
<1>7. QED
  BY <1>4, <1>6

\* Every fill the groups count is in one of them.
LEMMA InSomeGroup ==
  ASSUME NEW groups, Grouping(groups), NEW i \in 1..CountOf(groups)
  PROVE  \E g \in DOMAIN groups : Before(groups, g) < i /\ i <= Before(groups, g + 1)
<1> DEFINE n == Len(groups)
           P == {m \in Nat : m <= n /\ i <= Before(groups, m + 1) =>
                   \E g \in 1..n : Before(groups, g) < i /\ i <= Before(groups, g + 1)}
<1>1. n \in Nat /\ DOMAIN groups = 1..n
  BY DEF Grouping
<1>2. 0 \in P
  <2>1. Before(groups, 0 + 1) = 0
    BY BeforeSteps
  <2>2. ~ (i <= 0)
    OBVIOUS
  <2>3. QED
    BY <2>1, <2>2
<1>3. ASSUME NEW m \in Nat, m \in P
      PROVE  m + 1 \in P
  <2> SUFFICES ASSUME m + 1 <= n, i <= Before(groups, (m + 1) + 1)
               PROVE  \E g \in 1..n : Before(groups, g) < i /\ i <= Before(groups, g + 1)
    OBVIOUS
  <2>1. CASE i <= Before(groups, m + 1)
    BY <1>1, <1>3, <2>1
  <2>2. CASE ~ (i <= Before(groups, m + 1))
    <3>1. m + 1 \in 1..n /\ m + 1 \in 1..(n + 1)
      BY <1>1
    <3>2. Before(groups, m + 1) \in Nat
      BY <3>1, BeforeSteps
    <3>3. i \in Int
      OBVIOUS
    <3>4. Before(groups, m + 1) < i
      BY <2>2, <3>2, <3>3
    <3>5. QED
      BY <3>1, <3>4
  <2>3. QED
    BY <2>1, <2>2
<1> HIDE DEF P
<1>4. Nat \subseteq P
  BY <1>2, <1>3, SetInduction
<1>5. n \in P /\ CountOf(groups) = Before(groups, n + 1)
  BY <1>1, <1>4, BeforeSteps
<1>6. CountOf(groups) \in Nat
  <2>1. n + 1 \in 1..(n + 1)
    BY <1>1
  <2>2. QED
    BY <1>5, <2>1, BeforeSteps
<1>7. QED
  BY <1>1, <1>5, <1>6 DEF P

\* The count fills after those that are counted.
NextSegment(groups, base, count) ==
  (base + CountOf(groups) + 1)..(base + CountOf(groups) + count)

\* A group appended to a grouping.
LEMMA GroupAppended ==
  ASSUME NEW T, NEW groups \in Seq(T), Grouping(groups), NEW new \in T,
         new.count \in Nat \ {0}, NEW last, last = Len(groups) + 1
  PROVE  /\ Grouping(Append(groups, new))
         /\ DOMAIN Append(groups, new) = DOMAIN groups \cup {last}
         /\ last \notin DOMAIN groups
         /\ CountOf(Append(groups, new)) = CountOf(groups) + new.count
         /\ CountOf(groups) \in Nat
         /\ Append(groups, new)[last] = new
         /\ \A g \in DOMAIN groups :
              /\ Append(groups, new)[g] = groups[g]
              /\ \A b : Segment(Append(groups, new), b, g) = Segment(groups, b, g)
         /\ \A b \in Nat :
              Segment(Append(groups, new), b, last) = NextSegment(groups, b, new.count)
<1>1. PICK more, n : more = Append(groups, new) /\ n = Len(groups)
  OBVIOUS
<1>2. /\ n \in Nat /\ Len(more) = n + 1 /\ DOMAIN groups = 1..n /\ DOMAIN more = 1..(n + 1)
      /\ more[n + 1] = new /\ \A g \in 1..n : more[g] = groups[g]
  BY <1>1
<1>3. Grouping(more)
  BY <1>2 DEF Grouping
<1>4. \A g \in 1..(n + 1) : Before(more, g) = Before(groups, g)
  <2>1. ASSUME NEW g \in 1..(n + 1)
        PROVE  Before(more, g) = Before(groups, g)
    <3>1. /\ g \in 1..(Len(groups) + 1) /\ g <= Len(more) + 1
          /\ \A i \in 1..(g - 1) : more[i].count = groups[i].count
      BY <1>1, <1>2
    <3>2. QED
      BY <1>3, <3>1, BeforeSame
  <2>2. QED
    BY <2>1
<1>5. Before(more, (n + 1) + 1) = Before(more, n + 1) + new.count
  BY <1>2, <1>3, BeforeSteps
<1>6. /\ CountOf(groups) = Before(groups, n + 1) /\ CountOf(groups) \in Nat
      /\ CountOf(more) = Before(more, (n + 1) + 1)
  <2>1. n + 1 \in 1..(Len(groups) + 1)
    BY <1>1, <1>2
  <2>2. QED
    BY <1>1, <1>2, <1>3, <2>1, BeforeSteps
<1>7. CountOf(more) = CountOf(groups) + new.count
  BY <1>2, <1>4, <1>5, <1>6
<1>8. ASSUME NEW g \in 1..n
      PROVE  \A b : Segment(more, b, g) = Segment(groups, b, g)
  <2>1. g \in 1..(n + 1) /\ g + 1 \in 1..(n + 1)
    BY <1>2
  <2>2. QED
    BY <1>4, <2>1 DEF Segment
<1>9. ASSUME NEW b \in Nat
      PROVE  Segment(more, b, n + 1) = NextSegment(groups, b, new.count)
  <2>1. Before(more, n + 1) = CountOf(groups)
    BY <1>2, <1>4, <1>6
  <2>2. b + Before(more, (n + 1) + 1) = b + CountOf(groups) + new.count
    BY <1>5, <1>6, <2>1
  <2>3. QED
    BY <2>1, <2>2 DEF Segment, NextSegment
<1>10. DOMAIN more = DOMAIN groups \cup {n + 1} /\ n + 1 \notin DOMAIN groups
  BY <1>2
<1>11. \A g \in DOMAIN groups :
         /\ more[g] = groups[g]
         /\ \A b : Segment(more, b, g) = Segment(groups, b, g)
  BY <1>2, <1>8
<1>12. QED
  BY <1>1, <1>2, <1>3, <1>6, <1>7, <1>9, <1>10, <1>11

\* The groups with one more fill in the last.
Grown(groups) == [groups EXCEPT ![Len(groups)].count = @ + 1]

\* It is the next fill after those counted.
LEMMA GroupGrown ==
  ASSUME NEW groups \in Seq(CarryGroups), Grouping(groups), groups # <<>>
  PROVE  /\ Grouping(Grown(groups)) /\ DOMAIN Grown(groups) = DOMAIN groups
         /\ CountOf(Grown(groups)) = CountOf(groups) + 1
         /\ CountOf(groups) \in Nat
         /\ \A g \in DOMAIN groups :
              /\ Grown(groups)[g].order = groups[g].order
              /\ g # Len(groups) => Segment(Grown(groups), 0, g) = Segment(groups, 0, g)
         /\ Segment(Grown(groups), 0, Len(groups))
              = Segment(groups, 0, Len(groups)) \cup {CountOf(groups) + 1}
<1>1. PICK more, n : /\ n = Len(groups) /\ more = [groups EXCEPT ![n].count = @ + 1]
                     /\ more = Grown(groups)
  BY DEF Grown
<1>2. /\ n \in Nat \ {0} /\ Len(groups) = n /\ Len(more) = n
      /\ DOMAIN groups = 1..n /\ DOMAIN more = 1..n
      /\ \A g \in 1..n : groups[g] \in CarryGroups
  BY <1>1
<1>3. /\ \A g \in 1..n : more[g].order = groups[g].order
      /\ \A g \in 1..(n - 1) : more[g].count = groups[g].count
      /\ more[n].count = groups[n].count + 1
  BY <1>1, <1>2 DEF CarryGroups
<1>4. Grouping(more)
  <2>1. \A g \in 1..n : groups[g].count \in Nat \ {0}
    BY <1>2 DEF CarryGroups
  <2>2. \A g \in 1..n : g = n \/ g \in 1..(n - 1)
    BY <1>2
  <2>3. \A g \in 1..n : more[g].count \in Nat \ {0}
    BY <1>2, <1>3, <2>1, <2>2
  <2>4. QED
    BY <1>2, <2>3 DEF Grouping
<1>5. \A g \in 1..n : Before(more, g) = Before(groups, g) /\ Before(groups, g) \in Nat
  <2>1. ASSUME NEW g \in 1..n
        PROVE  Before(more, g) = Before(groups, g) /\ Before(groups, g) \in Nat
    <3>1. /\ g \in 1..(Len(groups) + 1) /\ g <= Len(more) + 1
          /\ \A i \in 1..(g - 1) : more[i].count = groups[i].count
      BY <1>1, <1>2, <1>3
    <3>2. QED
      BY <1>4, <3>1, BeforeSame, BeforeSteps
  <2>2. QED
    BY <2>1
<1>6. /\ Before(more, n + 1) = Before(more, n) + more[n].count
      /\ Before(groups, n + 1) = Before(groups, n) + groups[n].count
      /\ CountOf(groups) = Before(groups, n + 1) /\ CountOf(more) = Before(more, n + 1)
  <2>1. n \in DOMAIN groups /\ n \in DOMAIN more
    BY <1>2
  <2>2. QED
    BY <1>2, <1>4, <2>1, BeforeSteps
<1>7. /\ groups[n].count \in Nat \ {0} /\ Before(groups, n) \in Nat
      /\ Before(more, n) = Before(groups, n)
  BY <1>2, <1>5 DEF Grouping
<1>8. CountOf(more) = CountOf(groups) + 1 /\ CountOf(groups) \in Nat
  BY <1>3, <1>6, <1>7
<1>9. \A g \in DOMAIN groups : g # n => Segment(more, 0, g) = Segment(groups, 0, g)
  <2>1. \A g \in 1..n : g # n => g + 1 \in 1..n
    BY <1>2
  <2>2. QED
    BY <1>2, <1>5, <2>1 DEF Segment
<1>10. Segment(more, 0, n) = Segment(groups, 0, n) \cup {CountOf(groups) + 1}
  <2>1. PICK a, b : a = Before(groups, n) /\ b = Before(groups, n + 1)
    OBVIOUS
  <2>2. /\ a \in Nat /\ b \in Nat /\ a <= b /\ CountOf(groups) = b
        /\ Before(more, n) = a /\ Before(more, n + 1) = b + 1
    BY <1>3, <1>6, <1>7, <2>1
  <2>3. (0 + a + 1)..(0 + (b + 1)) = ((0 + a + 1)..(0 + b)) \cup {b + 1}
    BY <2>2
  <2>4. QED
    BY <2>1, <2>2, <2>3 DEF Segment
<1>11. QED
  BY <1>1, <1>2, <1>3, <1>4, <1>8, <1>9, <1>10

\* A fill that joins or starts a carry group belongs to it, and no other fill
\* changes groups.
LEMMA Coalesced ==
  ASSUME NEW groups \in Seq(CarryGroups), Grouping(groups), NEW o \in OrderIds
  PROVE  LET more == Coalesce(groups, o) IN
         /\ Grouping(more) /\ CountOf(groups) \in Nat
         /\ CountOf(more) = CountOf(groups) + 1
         /\ \A g \in DOMAIN more :
              /\ more[g].order = o \/ (g \in DOMAIN groups /\ more[g].order = groups[g].order)
              /\ \A i \in Segment(more, 0, g) :
                   \/ /\ g \in DOMAIN groups /\ i \in Segment(groups, 0, g)
                      /\ more[g].order = groups[g].order
                   \/ i = CountOf(groups) + 1 /\ more[g].order = o
<1>1. CASE groups # <<>> /\ groups[Len(groups)].order = o
  <2>1. Coalesce(groups, o) = Grown(groups)
    BY <1>1 DEF Coalesce, Grown
  <2>2. groups[Len(groups)].order = o
    BY <1>1
  <2>3. QED
    BY <1>1, <2>1, <2>2, GroupGrown
<1>2. CASE ~ (groups # <<>> /\ groups[Len(groups)].order = o)
  <2>1. PICK new, last : new = [order |-> o, count |-> 1] /\ last = Len(groups) + 1
    OBVIOUS
  <2>2. new \in CarryGroups /\ new.count \in Nat \ {0} /\ new.count = 1 /\ new.order = o
    BY <2>1 DEF CarryGroups
  <2>3. Coalesce(groups, o) = Append(groups, new)
    BY <1>2, <2>1 DEF Coalesce
  <2>4. /\ Grouping(Append(groups, new))
        /\ DOMAIN Append(groups, new) = DOMAIN groups \cup {last}
        /\ CountOf(Append(groups, new)) = CountOf(groups) + new.count
        /\ CountOf(groups) \in Nat
        /\ Append(groups, new)[last] = new
        /\ \A g \in DOMAIN groups :
             /\ Append(groups, new)[g] = groups[g]
             /\ \A b : Segment(Append(groups, new), b, g) = Segment(groups, b, g)
        /\ \A b \in Nat :
             Segment(Append(groups, new), b, last) = NextSegment(groups, b, new.count)
    BY <2>1, <2>2, GroupAppended
  <2>5. NextSegment(groups, 0, new.count) = {CountOf(groups) + 1} /\ 0 \in Nat
    BY <2>2, <2>4 DEF NextSegment
  <2>6. QED
    BY <2>2, <2>3, <2>4, <2>5
<1>3. QED
  BY <1>1, <1>2

-----------------------------------------------------------------------------
(* The invariant of the seam.                                              *)

\* The phases from the refresh of a call to the end of its command walk, and
\* those in which the channels of this call are being filled or read.
Calling == {"refresh", "reseed", "lifecycle", "submit", "validate", "carry", "walk"}
Filling == Calling \ {"refresh"}

\* The ids of this call are the last the counter gave: FirstNew and up.
FirstNew == nextOrder - Len(submitIds)
IdOf(j)  == submitIds[Ordinal(j)]

\* The ids below are those the registry may hold.
NextId == IF pc \notin Calling THEN nextOrder
          ELSE IF pc = "walk" THEN FirstNew + Ordinal(k - 1) ELSE FirstNew

\* Ids are dealt in command order, and a command names an order of an earlier
\* call.
Minted ==
  /\ pc \in Calling =>
       /\ Len(submitIds) = Submissions(cmds)
       /\ \A i \in DOMAIN submitIds : submitIds[i] = FirstNew + i - 1
  /\ \A j \in DOMAIN cmds : IsLifecycle(cmds[j]) =>
       cmds[j].order < IF pc \in Calling THEN FirstNew ELSE nextOrder
  /\ \A o \in DOMAIN pending : o < NextId

\* The groups count every fill, name its owner, and are read in order.
Grouped ==
  pc \in Filling =>
    /\ CountOf(carryGroups) + CountOf(fillGroups) = Len(outFills)
    /\ \A g \in DOMAIN carryGroups :
         /\ carryGroups[g].order < FirstNew
         /\ \A i \in Segment(carryGroups, 0, g) :
              outFills[i].owner = carryGroups[g].order
    /\ \A g \in DOMAIN fillGroups :
         /\ fillGroups[g].cmd \in DOMAIN cmds
         /\ IsSubmission(cmds[fillGroups[g].cmd])
         /\ \A i \in Segment(fillGroups, CountOf(carryGroups), g) :
              outFills[i].owner = IdOf(fillGroups[g].cmd)
    /\ \A g, h \in DOMAIN fillGroups : g < h => fillGroups[g].cmd < fillGroups[h].cmd
    /\ pc \in {"reseed", "lifecycle"} => fillGroups = <<>>
    /\ pc = "submit" => \A g \in DOMAIN fillGroups : fillGroups[g].cmd < k
    /\ pc = "carry" => /\ k <= Len(carryGroups) + 1 /\ gi = 1
                       /\ cursor = Before(carryGroups, k)
    /\ pc = "walk" => /\ gi <= Len(fillGroups) + 1
                      /\ cursor = CountOf(carryGroups) + Before(fillGroups, gi)
                      /\ \A g \in DOMAIN fillGroups : g < gi <=> fillGroups[g].cmd < k

\* The fills the engine has yet to apply, and what an order trades in them.
Unapplied == IF pc \in {"reseed", "lifecycle", "submit", "validate"} THEN DOMAIN outFills
             ELSE IF pc \in {"carry", "walk"} THEN (cursor + 1)..Len(outFills)
             ELSE {}
Owed(o) == Qty(outFills, Unapplied, o)

\* The submissions the fill model has executed and the engine has not reached,
\* and the orders it has cancelled and the engine has not.
Awaited == {j \in DOMAIN cmds : /\ IsSubmission(cmds[j])
                                /\ \/ pc = "submit" /\ j < k
                                   \/ pc \in {"validate", "carry"}
                                   \/ pc = "walk" /\ j >= k}
Withdrawing == {j \in DOMAIN cmds : /\ IsLifecycle(cmds[j])
                                    /\ \/ pc = "lifecycle" /\ j < k
                                       \/ pc \in {"submit", "validate", "carry"}
                                       \/ pc = "walk" /\ j >= k}
Doomed == {cmds[j].order : j \in Withdrawing}

\* What the mirror must say of an order of this intent, some of which is owed.
Agrees(listed, meta, intent, owed, filled, rests) ==
  /\ owed <= intent.qty
  /\ listed <=> rests /\ owed < intent.qty
  /\ listed => /\ meta.contract = intent.contract
               /\ meta.side = intent.side
               /\ meta.remaining = intent.qty - owed
               /\ meta.firstFillDone = (filled \/ owed > 0)
MirrorOf(o) == mirror[orderIndex[o]]

\* The mirror is ahead of the registry by the fills, the cancels and the
\* submissions of the call that the engine has yet to apply, and by nothing else.
Registered ==
  /\ \A o \in DOMAIN pending :
       Agrees(o \in DOMAIN orderIndex, MirrorOf(o), pending[o].intent, Owed(o),
              pending[o].fillsSoFar > 0, o \notin Doomed)
  /\ \A j \in Awaited :
       Agrees(IdOf(j) \in DOMAIN orderIndex, MirrorOf(IdOf(j)), cmds[j].intent,
              Owed(IdOf(j)), FALSE, cmds[j].intent.kind = "gtc")
  /\ \A o \in DOMAIN orderIndex : o \in DOMAIN pending \/ \E j \in Awaited : o = IdOf(j)
  /\ \A i \in Unapplied :
       outFills[i].owner < FirstNew => outFills[i].owner \in DOMAIN pending

\* A leg a resting order still grows has room for what rests, and grows by no
\* other order.
Room ==
  \A o \in DOMAIN pending :
    /\ pending[o].pos \in DOMAIN inventory =>
         inventory[pending[o].pos].qty + pending[o].intent.qty <= MaxQty
    /\ \A p \in DOMAIN pending :
         pending[o].pos # 0 /\ pending[o].pos = pending[p].pos => o = p

SeamInv ==
  /\ FillInv /\ LegsInv /\ Room
  /\ pc # "failed" => Minted /\ Grouped /\ Registered

-----------------------------------------------------------------------------
(* The ids of a call.                                                      *)

\* Ordinals ascend with the submissions.
LEMMA OrdinalGrows ==
  ASSUME NEW i \in Nat \ {0}, NEW j \in Nat, j < i, IsSubmission(cmds[i])
  PROVE  Ordinal(j) < Ordinal(i)
<1> DEFINE S == {x \in 1..j : IsSubmission(cmds[x])}
           T == {x \in 1..(i - 1) : IsSubmission(cmds[x])}
<1>1. i - 1 \in Int /\ j \in Int
  OBVIOUS
<1>2. IsFiniteSet(T) /\ Ordinal(i - 1) \in Nat /\ Ordinal(j) \in Nat
  BY <1>1, PrefixFinite
<1>3. S \in SUBSET T
  OBVIOUS
<1>4. Cardinality(S) <= Cardinality(T)
  BY <1>2, <1>3, FS_Subset
<1>5. Ordinal(j) <= Ordinal(i - 1)
  BY <1>4 DEF Ordinal
<1>6. Ordinal(i) = Ordinal(i - 1) + 1
  BY OrdinalSteps
<1>7. QED
  BY <1>2, <1>5, <1>6

\* The ids of a call are told apart by their commands, and lie above every
\* earlier id.
LEMMA IdsAscend ==
  ASSUME TypeInv, Minted, pc \in Calling
  PROVE  /\ FirstNew \in Int
         /\ \A j \in DOMAIN cmds : IsSubmission(cmds[j]) =>
              /\ Ordinal(j) \in DOMAIN submitIds
              /\ IdOf(j) = FirstNew + Ordinal(j) - 1
              /\ IdOf(j) \in OrderIds /\ IdOf(j) >= FirstNew /\ IdOf(j) < nextOrder
         /\ \A i, j \in DOMAIN cmds : IsSubmission(cmds[i]) /\ IsSubmission(cmds[j]) =>
              (IdOf(j) < IdOf(i) <=> j < i)
<1>1. /\ cmds \in Seq(Commands) /\ submitIds \in Seq(OrderIds) /\ nextOrder \in Int
      /\ DOMAIN cmds = 1..Len(cmds) /\ Len(cmds) \in Nat
      /\ DOMAIN submitIds = 1..Len(submitIds) /\ Len(submitIds) \in Nat
  BY DomainAssumption DEF TypeInv, TypeOK, SeamTypeOK, EngineTypeOK
<1>2. FirstNew \in Int
  BY <1>1 DEF FirstNew
<1>3. ASSUME NEW j \in DOMAIN cmds, IsSubmission(cmds[j])
      PROVE  /\ Ordinal(j) \in DOMAIN submitIds
             /\ IdOf(j) = FirstNew + Ordinal(j) - 1
             /\ IdOf(j) \in OrderIds /\ IdOf(j) >= FirstNew /\ IdOf(j) < nextOrder
  <2>1. Ordinal(j) \in Nat \ {0}
    <3>1. j \in Nat \ {0} /\ j - 1 \in Int
      BY <1>1
    <3>2. Ordinal(j) = Ordinal(j - 1) + 1 /\ Ordinal(j - 1) \in Nat
      BY <1>3, <3>1, OrdinalSteps, PrefixFinite
    <3>3. QED
      BY <3>2
  <2>2. Ordinal(j) <= Len(submitIds)
    BY <1>1, OrdinalBound DEF Minted
  <2>3. Ordinal(j) \in DOMAIN submitIds
    BY <1>1, <2>1, <2>2
  <2>4. IdOf(j) = FirstNew + Ordinal(j) - 1
    BY <2>3 DEF IdOf, Minted
  <2>5. IdOf(j) \in OrderIds
    BY <1>1, <2>3 DEF IdOf
  <2>6. QED
    BY <1>1, <1>2, <2>1, <2>2, <2>3, <2>4, <2>5 DEF FirstNew
<1>4. ASSUME NEW i \in DOMAIN cmds, NEW j \in DOMAIN cmds, IsSubmission(cmds[i]),
             IsSubmission(cmds[j]), j < i
      PROVE  IdOf(j) < IdOf(i)
  <2>1. Ordinal(j) < Ordinal(i)
    BY <1>1, <1>4, OrdinalGrows
  <2>2. Ordinal(j) \in Int /\ Ordinal(i) \in Int
    BY <1>1, <1>3, <1>4
  <2>3. QED
    BY <1>2, <1>3, <1>4, <2>1, <2>2
<1>5. ASSUME NEW i \in DOMAIN cmds, NEW j \in DOMAIN cmds, IsSubmission(cmds[i]),
             IsSubmission(cmds[j]), IdOf(j) < IdOf(i)
      PROVE  j < i
  <2>1. i \in Int /\ j \in Int /\ IdOf(i) \in Int /\ IdOf(j) \in Int
    BY <1>1, <1>3, <1>5 DEF OrderIds
  <2>2. ~ (i < j)
    BY <1>4, <1>5, <2>1
  <2>3. i # j
    BY <1>5, <2>1
  <2>4. QED
    BY <2>1, <2>2, <2>3
<1>6. QED
  BY <1>2, <1>3, <1>4, <1>5

-----------------------------------------------------------------------------
(* Steps that leave both sides alone.                                      *)

\* Nothing is owed, awaited or doomed.
Quiet == Unapplied = {} /\ Awaited = {} /\ Doomed = {}

\* The empty set of fills trades nothing.
LEMMA QtyNone == \A fills, o : Qty(fills, {}, o) = 0
<1> SUFFICES ASSUME NEW fills, NEW o PROVE Qty(fills, {}, o) = 0
  OBVIOUS
<1>1. {i \in {} : fills[i].owner = o} = {}
  OBVIOUS
<1>2. QED
  BY <1>1, SumEmpty DEF Qty, SumOver

\* Where nothing is under way the two sides agree as they are.
LEMMA QuietKeeps ==
  ASSUME Registered, Quiet, Quiet', UNCHANGED <<pending, mirror, orderIndex>>
  PROVE  Registered'
<1>1. \A o : Owed(o) = 0 /\ Owed(o)' = 0
  BY QtyNone DEF Owed, Quiet
<1>2. \A o \in DOMAIN pending' :
        Agrees(o \in DOMAIN orderIndex, MirrorOf(o), pending[o].intent, Owed(o),
               pending[o].fillsSoFar > 0, o \notin Doomed)'
  BY <1>1 DEF Registered, Quiet, Agrees, MirrorOf
<1>3. \A o \in DOMAIN orderIndex' : o \in DOMAIN pending'
  BY DEF Registered, Quiet
<1>4. QED
  BY <1>2, <1>3 DEF Registered, Quiet

\* So do they where what is under way stays so.
LEMMA SameKeeps ==
  ASSUME Registered, UNCHANGED <<cmds, submitIds, nextOrder, outFills, pending, mirror,
                                 orderIndex>>,
         Unapplied' = Unapplied, Awaited' = Awaited, Doomed' = Doomed
  PROVE  Registered'
<1>1. FirstNew' = FirstNew /\ \A j : IdOf(j)' = IdOf(j)
  BY DEF FirstNew, IdOf, Ordinal
<1>2. \A o : Owed(o)' = Owed(o) /\ MirrorOf(o)' = MirrorOf(o)
  BY DEF Owed, MirrorOf
<1>3. QED
  BY <1>1, <1>2 DEF Registered, Agrees

\* A step of a call before its walk deals no id.
LEMMA MintedKeeps ==
  ASSUME Minted, pc \in Calling \ {"walk"}, pc' \in Calling \ {"walk"},
         UNCHANGED <<cmds, submitIds, nextOrder>>, DOMAIN pending' \subseteq DOMAIN pending
  PROVE  Minted'
<1>1. FirstNew' = FirstNew /\ Submissions(cmds)' = Submissions(cmds)
  BY DEF FirstNew, Submissions
<1>2. NextId = FirstNew /\ NextId' = FirstNew'
  BY DEF NextId
<1>3. QED
  BY <1>1, <1>2 DEF Minted

\* A step that adds no fill leaves the groups right; what is left to show is
\* where the next phase stands in them.
LEMMA GroupedKeeps ==
  ASSUME Grouped, pc \in Filling, pc' \in Filling,
         UNCHANGED <<cmds, submitIds, nextOrder, outFills, carryGroups, fillGroups>>,
         pc' \in {"reseed", "lifecycle"} => fillGroups = <<>>,
         pc' = "submit" => \A g \in DOMAIN fillGroups : fillGroups[g].cmd < k',
         pc' = "carry" => /\ k' <= Len(carryGroups) + 1 /\ gi' = 1
                          /\ cursor' = Before(carryGroups, k'),
         pc' = "walk" => /\ gi' <= Len(fillGroups) + 1
                         /\ cursor' = CountOf(carryGroups) + Before(fillGroups, gi')
                         /\ \A g \in DOMAIN fillGroups :
                              g < gi' <=> fillGroups[g].cmd < k'
  PROVE  Grouped'
<1>1. FirstNew' = FirstNew /\ \A j : IdOf(j)' = IdOf(j)
  BY DEF FirstNew, IdOf, Ordinal
<1>2. QED
  BY <1>1 DEF Grouped

\* The elements of two sequences put together.
LEMMA AppendedParts ==
  ASSUME NEW S, NEW T, NEW a \in Seq(S), NEW b \in Seq(T)
  PROVE  \A j \in DOMAIN (a \o b) :
           \/ j \in DOMAIN a /\ (a \o b)[j] = a[j]
           \/ \E i \in DOMAIN b : j = Len(a) + i /\ (a \o b)[j] = b[i] /\ b[i] \in T
<1>1. SUFFICES ASSUME NEW j \in DOMAIN (a \o b), j \notin DOMAIN a
               PROVE  \E i \in DOMAIN b : j = Len(a) + i /\ (a \o b)[j] = b[i] /\ b[i] \in T
  OBVIOUS
<1>2. DOMAIN (a \o b) = 1..(Len(a) + Len(b)) /\ DOMAIN a = 1..Len(a) /\ DOMAIN b = 1..Len(b)
  OBVIOUS
<1>3. j - Len(a) \in DOMAIN b
  BY <1>1, <1>2
<1>4. (a \o b)[j] = b[j - Len(a)] /\ j = Len(a) + (j - Len(a))
  BY <1>1, <1>2, <1>3
<1>5. QED
  BY <1>3, <1>4

\* The steps between two calls.
LEMMA BetweenKeeps ==
  ASSUME SeamInv, UNCHANGED fillVars, pc' # "failed",
         OnStart \/ Exits \/ OnSnapshot \/ OnEnd \/ Settle \/ Advance
  PROVE  (Minted /\ Grouped /\ Registered)'
<1>1. /\ pc \in {"start", "exits", "snapshot", "end", "settle", "advance"}
      /\ pc' \in {"mint", "snapshot", "end", "done", "advance", "exits"}
      /\ UNCHANGED <<nextOrder, pending>>
  BY DEF OnStart, Exits, OnSnapshot, OnEnd, Settle, Advance, engineVars, idVars, isLast,
     AbortEngine, AbortSeam
<1>2. Registered /\ Minted /\ UNCHANGED <<mirror, orderIndex>>
  BY <1>1 DEF SeamInv, fillVars
<1>3. Quiet /\ Quiet' /\ Grouped'
  BY <1>1 DEF Quiet, Unapplied, Awaited, Doomed, Withdrawing, Grouped, Filling, Calling
<1>4. \A j \in DOMAIN cmds' : IsLifecycle(cmds'[j]) => cmds'[j].order < nextOrder
  <2>1. \A j \in DOMAIN cmds : IsLifecycle(cmds[j]) => cmds[j].order < nextOrder
    BY <1>1, <1>2 DEF Minted, Calling
  <2>2. CASE Settle \/ Advance
    BY <2>1, <2>2 DEF Settle, Advance, AbortEngine, AbortSeam
  <2>3. CASE OnStart
    <3>1. PICK queue \in Queues({Submit(i) : i \in OpenIntents}) : cmds' = queue
      BY <2>3 DEF OnStart
    <3>2. queue \in Seq({Submit(i) : i \in OpenIntents})
      BY <3>1, StrategyAssumption DEF Queues, BoundedSeq, SeqOf
    <3>3. \A j \in DOMAIN queue : queue[j].type = "submit"
      BY <3>2 DEF Submit
    <3>4. QED
      BY <3>1, <3>3 DEF IsLifecycle
  <2>4. CASE Exits
    <3>1. \A j \in DOMAIN cmds' : cmds'[j].type = "submit"
      BY <2>4 DEF Exits, CloseCommand, Submit
    <3>2. QED
      BY <3>1 DEF IsLifecycle
  <2>5. CASE OnSnapshot
    <3>1. PICK queue \in Queues(Offered) : cmds' = cmds \o queue
      BY <2>5 DEF OnSnapshot
    <3>2. queue \in Seq(Offered) /\ cmds \in Seq(Commands) /\ nextOrder \in Nat
      <4>1. queue \in Seq(Offered)
        BY <3>1, StrategyAssumption DEF Queues, BoundedSeq, SeqOf
      <4>2. SeamTypeOK /\ EngineTypeOK
        BY DEF SeamInv, FillInv, TypeInv, TypeOK
      <4>3. QED
        BY <4>1, <4>2, DomainAssumption DEF SeamTypeOK, EngineTypeOK
    <3>3. \A cmd \in Offered : IsLifecycle(cmd) => cmd.order < nextOrder
      BY <3>2 DEF Offered, Submit, Cancel, Replacing, SeenOrders, IsLifecycle
    <3>4. \A j \in DOMAIN cmds' : \/ j \in DOMAIN cmds /\ cmds'[j] = cmds[j]
                                  \/ cmds'[j] \in Offered
      BY <3>1, <3>2, AppendedParts
    <3>5. QED
      BY <2>1, <3>3, <3>4
  <2>6. CASE OnEnd
    <3>1. PICK tail \in CloseAll \cup {<<>>} \cup {<<Submit(i)>> : i \in OpenIntents} :
            cmds' = cmds \o tail
      BY <1>1, <2>6 DEF OnEnd, AbortEngine, AbortSeam
    <3>2. PICK T : T = {cmd \in {tail[j] : j \in DOMAIN tail} : cmd.type = "submit"}
      OBVIOUS
    <3>3. cmds \in Seq(Commands) /\ tail \in Seq(T)
      <4>1. cmds \in Seq(Commands)
        BY DEF SeamInv, FillInv, TypeInv, TypeOK, SeamTypeOK
      <4>2. CASE tail \in CloseAll
        <5>1. PICK legs \in InOrder(UncoveredLegs) :
                tail = [i \in DOMAIN legs |-> FlattenCommand(legs[i])]
          BY <4>2 DEF CloseAll
        <5>2. legs \in Seq(UncoveredLegs)
          BY <5>1, DomainAssumption DEF InOrder, BoundedSeq, SeqOf
        <5>3. DOMAIN tail = 1..Len(legs) /\ Len(legs) \in Nat
          BY <5>1, <5>2
        <5>4. \A j \in DOMAIN tail : tail[j].type = "submit"
          BY <5>1 DEF FlattenCommand, Submit
        <5>5. \A j \in DOMAIN tail : tail[j] \in T
          BY <3>2, <5>4
        <5>6. tail = [j \in 1..Len(legs) |-> tail[j]]
          BY <5>1, <5>3
        <5>7. QED
          BY <4>1, <5>3, <5>5, <5>6
      <4>3. CASE tail = <<>>
        BY <4>1, <4>3
      <4>4. CASE tail \in {<<Submit(i)>> : i \in OpenIntents}
        <5>1. PICK i \in OpenIntents : tail = <<Submit(i)>>
          BY <4>4
        <5>2. 1 \in DOMAIN tail /\ tail[1] = Submit(i) /\ Submit(i).type = "submit"
          BY <5>1 DEF Submit
        <5>3. Submit(i) \in T
          BY <3>2, <5>2
        <5>4. QED
          BY <4>1, <5>1, <5>3
      <4>5. tail \in CloseAll \/ tail = <<>> \/ tail \in {<<Submit(i)>> : i \in OpenIntents}
        BY <3>1, Zenon
      <4>6. QED
        BY <4>2, <4>3, <4>4, <4>5, Zenon
    <3>4. \A j \in DOMAIN cmds' : \/ j \in DOMAIN cmds /\ cmds'[j] = cmds[j]
                                  \/ cmds'[j].type = "submit"
      BY <3>1, <3>2, <3>3, AppendedParts
    <3>5. QED
      BY <2>1, <3>4 DEF IsLifecycle
  <2>7. QED
    BY <2>2, <2>3, <2>4, <2>5, <2>6
<1>5. Minted'
  BY <1>1, <1>2, <1>4 DEF Minted, NextId, Calling
<1>6. QED
  BY <1>1, <1>2, <1>3, <1>5, QuietKeeps

\* Nothing is counted by no groups.
LEMMA NoGroups == CountOf(<<>>) = 0
<1>1. Grouping(<<>>) /\ Len(<<>>) + 1 = 1
  BY DEF Grouping
<1>2. QED
  BY <1>1, BeforeSteps

\* Minting deals the next ids of the counter.
LEMMA MintKeeps ==
  ASSUME SeamInv, UNCHANGED fillVars, MintIds
  PROVE  (Minted /\ Grouped /\ Registered)'
<1>1. /\ pc = "mint" /\ pc' = "refresh" /\ UNCHANGED <<cmds, pending>>
      /\ submitIds' = [i \in 1..Submissions(cmds) |-> nextOrder + i - 1]
      /\ nextOrder' = nextOrder + Submissions(cmds)
  BY DEF MintIds, MintedIds
<1>2. Registered /\ Minted /\ UNCHANGED <<mirror, orderIndex>>
  BY <1>1 DEF SeamInv, fillVars
<1>3. Quiet /\ Quiet' /\ Grouped'
  BY <1>1 DEF Quiet, Unapplied, Awaited, Doomed, Withdrawing, Grouped, Filling, Calling
<1>4. nextOrder \in Nat /\ Submissions(cmds) \in Nat
  BY SubmissionsNat, DomainAssumption
  DEF SeamInv, FillInv, TypeInv, TypeOK, SeamTypeOK, EngineTypeOK
<1>5. Len(submitIds') = Submissions(cmds) /\ DOMAIN submitIds' = 1..Submissions(cmds)
  BY <1>1, <1>4
<1>6. FirstNew' = nextOrder /\ Submissions(cmds)' = Submissions(cmds)
  BY <1>1, <1>4, <1>5 DEF FirstNew, Submissions
<1>7. NextId = nextOrder /\ NextId' = nextOrder
  BY <1>1, <1>6 DEF NextId, Calling
<1>8. Minted'
  BY <1>1, <1>2, <1>5, <1>6, <1>7 DEF Minted, Calling
<1>9. QED
  BY <1>1, <1>2, <1>3, <1>8, QuietKeeps

\* The refresh starts with empty channels.
LEMMA RefreshKeeps ==
  ASSUME SeamInv, UNCHANGED engineVars, RefreshBooks
  PROVE  (Minted /\ Grouped /\ Registered)'
<1>1. /\ pc = "refresh" /\ pc' = "reseed"
      /\ outFills' = <<>> /\ carryGroups' = <<>> /\ fillGroups' = <<>>
      /\ UNCHANGED <<cmds, submitIds, nextOrder, pending, mirror, orderIndex>>
  BY DEF RefreshBooks, engineVars, idVars
<1>2. Registered /\ Minted
  BY <1>1 DEF SeamInv
<1>3. Quiet /\ Quiet'
  BY <1>1 DEF Quiet, Unapplied, Awaited, Doomed, Withdrawing
<1>4. Minted'
  BY <1>1, <1>2, MintedKeeps DEF Calling
<1>5. Grouped'
  BY <1>1, NoGroups DEF Grouped
<1>6. QED
  BY <1>1, <1>2, <1>3, <1>4, <1>5, QuietKeeps

\* A ladder that rests, and the changes of phase inside the fill model.
LEMMA PhaseKeeps ==
  ASSUME SeamInv, UNCHANGED engineVars,
         \/ \E rests \in BOOLEAN : ReseedNext(rests)
         \/ ReseedDone \/ LifecycleDone \/ SubmitSkip \/ SubmitDone
  PROVE  (Minted /\ Grouped /\ Registered)'
<1>1. /\ pc \in {"reseed", "lifecycle", "submit"}
      /\ pc' \in {"reseed", "lifecycle", "submit", "validate"}
      /\ UNCHANGED <<cmds, submitIds, nextOrder, outFills, carryGroups, fillGroups,
                     pending, mirror, orderIndex>>
  BY DEF ReseedNext, ReseedDone, LifecycleDone, SubmitSkip, SubmitDone, fillVars,
     engineVars, idVars
<1>2. Registered /\ Minted /\ Grouped
  BY <1>1 DEF SeamInv
<1>3. k \in Nat \ {0} /\ cmds \in Seq(Commands) /\ \A j \in DOMAIN cmds : j \in Nat /\ j <= Len(cmds)
  BY DEF SeamInv, FillInv, TypeInv, TypeOK, SeamTypeOK
<1>4. Unapplied' = Unapplied
  BY <1>1 DEF Unapplied
<1>5. Withdrawing' = Withdrawing
  <2>1. CASE \E rests \in BOOLEAN : ReseedNext(rests)
    BY <2>1 DEF ReseedNext, Withdrawing
  <2>2. CASE ReseedDone
    BY <1>1, <1>3, <2>2 DEF ReseedDone, Withdrawing
  <2>3. CASE LifecycleDone
    BY <1>1, <1>3, <2>3 DEF LifecycleDone, Withdrawing
  <2>4. CASE SubmitSkip \/ SubmitDone
    BY <1>1, <2>4 DEF SubmitSkip, SubmitDone, Withdrawing
  <2>5. QED
    BY <2>1, <2>2, <2>3, <2>4
<1>6. Awaited' = Awaited
  <2>1. CASE \E rests \in BOOLEAN : ReseedNext(rests)
    BY <2>1 DEF ReseedNext, Awaited
  <2>2. CASE ReseedDone
    BY <1>1, <2>2 DEF ReseedDone, Awaited
  <2>3. CASE LifecycleDone
    BY <1>1, <1>3, <2>3 DEF LifecycleDone, Awaited
  <2>4. CASE SubmitSkip
    BY <1>1, <1>3, <2>4 DEF SubmitSkip, Awaited
  <2>5. CASE SubmitDone
    BY <1>1, <1>3, <2>5 DEF SubmitDone, Awaited
  <2>6. QED
    BY <2>1, <2>2, <2>3, <2>4, <2>5
<1>7. Registered'
  BY <1>1, <1>2, <1>4, <1>5, <1>6, SameKeeps DEF Doomed
<1>8. Minted'
  BY <1>1, <1>2, MintedKeeps DEF Calling
<1>9. pc' = "submit" => \A g \in DOMAIN fillGroups : fillGroups[g].cmd < k'
  <2>1. CASE LifecycleDone
    BY <1>2, <2>1 DEF LifecycleDone, Grouped, Filling, Calling
  <2>2. CASE SubmitSkip
    <3>1. \A g \in DOMAIN fillGroups : fillGroups[g].cmd \in Nat /\ fillGroups[g].cmd < k
      BY <1>2, <1>3, <2>2 DEF SubmitSkip, Grouped, Filling, Calling
    <3>2. k' = k + 1
      BY <2>2 DEF SubmitSkip
    <3>3. QED
      BY <1>3, <3>1, <3>2
  <2>3. CASE ~ (LifecycleDone \/ SubmitSkip)
    BY <1>1, <2>3 DEF ReseedNext, ReseedDone, SubmitDone
  <2>4. QED
    BY <2>1, <2>2, <2>3
<1>10. pc' \in {"reseed", "lifecycle"} => fillGroups = <<>>
  BY <1>1, <1>2 DEF Grouped, ReseedNext, ReseedDone, LifecycleDone, SubmitSkip, SubmitDone,
     Filling, Calling
<1>11. Grouped'
  BY <1>1, <1>2, <1>9, <1>10, GroupedKeeps DEF Filling, Calling
<1>12. QED
  BY <1>7, <1>8, <1>11

\* The engine takes the call over, and goes from the carry to the walk.
LEMMA TurnsKeep ==
  ASSUME SeamInv, UNCHANGED fillVars, pc' # "failed", Validate \/ CarryDone
  PROVE  (Minted /\ Grouped /\ Registered)'
<1>1. /\ UNCHANGED <<cmds, submitIds, nextOrder, outFills, carryGroups, fillGroups,
                     pending, mirror, orderIndex>>
      /\ \/ pc = "validate" /\ pc' = "carry" /\ k' = 1 /\ cursor' = 0 /\ gi' = 1
         \/ /\ pc = "carry" /\ pc' = "walk" /\ k' = 1 /\ UNCHANGED <<cursor, gi>>
            /\ k > Len(carryGroups)
  BY DEF Validate, CarryDone, AbortEngine, AbortSeam, fillVars, engineVars, idVars, walkVars
<1>2. Registered /\ Minted /\ Grouped
  BY <1>1 DEF SeamInv
<1>3. /\ k \in Nat \ {0} /\ cursor \in Nat
      /\ cmds \in Seq(Commands) /\ \A j \in DOMAIN cmds : j \in Nat /\ j >= 1
      /\ outFills \in Seq(Fills) /\ Grouping(carryGroups) /\ Grouping(fillGroups)
  BY ChannelsGroup DEF SeamInv, FillInv, TypeInv, TypeOK, SeamTypeOK, EngineTypeOK
<1>4. Unapplied' = Unapplied /\ Awaited' = Awaited /\ Withdrawing' = Withdrawing
  BY <1>1, <1>3 DEF Unapplied, Awaited, Withdrawing
<1>5. Registered'
  BY <1>1, <1>2, <1>4, SameKeeps DEF Doomed
<1>6. Minted'
  <2>1. Ordinal(0)' = 0
    BY <1>1, OrdinalZero DEF Ordinal
  <2>2. k' - 1 = 0
    BY <1>1
  <2>3. FirstNew' = FirstNew /\ Submissions(cmds)' = Submissions(cmds) /\ FirstNew \in Int
    BY <1>1, <1>2, IdsAscend DEF FirstNew, Submissions, SeamInv, FillInv, Calling
  <2>4. NextId = FirstNew /\ NextId' = FirstNew'
    BY <1>1, <2>1, <2>2, <2>3 DEF NextId, Calling
  <2>5. QED
    BY <1>1, <1>2, <2>3, <2>4 DEF Minted, Calling
<1>7. Grouped'
  <2>1. CASE pc' = "carry"
    <3>1. Before(carryGroups, 1) = 0 /\ 1 <= Len(carryGroups) + 1
      BY <1>3, BeforeSteps DEF Grouping
    <3>2. QED
      BY <1>1, <1>2, <2>1, <3>1, GroupedKeeps DEF Filling, Calling
  <2>2. CASE pc' = "walk"
    <3>1. /\ k = Len(carryGroups) + 1 /\ cursor = Before(carryGroups, k) /\ gi = 1
          /\ Before(carryGroups, Len(carryGroups) + 1) = CountOf(carryGroups)
          /\ Before(fillGroups, 1) = 0
      <4>1. k <= Len(carryGroups) + 1 /\ cursor = Before(carryGroups, k) /\ gi = 1
        BY <1>1, <1>2, <2>2 DEF Grouped, Filling, Calling
      <4>2. Len(carryGroups) \in Nat /\ k > Len(carryGroups)
        BY <1>1, <1>3, <2>2 DEF Grouping
      <4>3. k = Len(carryGroups) + 1
        BY <1>3, <4>1, <4>2
      <4>4. QED
        BY <1>3, <4>1, <4>3, BeforeSteps
    <3>2. CountOf(carryGroups) \in Nat /\ Len(fillGroups) \in Nat
      BY <1>3, <3>1 DEF Grouping
    <3>3. \A g \in DOMAIN fillGroups : g \in Nat /\ g >= 1 /\ fillGroups[g].cmd >= 1
                                       /\ fillGroups[g].cmd \in Nat
      BY <1>1, <1>2, <1>3 DEF Grouped, Grouping, Filling, Calling
    <3>4. \A g \in DOMAIN fillGroups : g < gi' <=> fillGroups[g].cmd < k'
      BY <1>1, <2>2, <3>1, <3>3
    <3>5. gi' <= Len(fillGroups) + 1 /\ cursor' = CountOf(carryGroups) + Before(fillGroups, gi')
      BY <1>1, <2>2, <3>1, <3>2
    <3>6. QED
      BY <1>1, <1>2, <2>2, <3>4, <3>5, GroupedKeeps DEF Filling, Calling
  <2>3. QED
    BY <1>1, <2>1, <2>2
<1>8. QED
  BY <1>5, <1>6, <1>7

\* The fills of a group are among those the groups count.
LEMMA SegmentInside ==
  ASSUME NEW groups, Grouping(groups), NEW b \in Nat
  PROVE  /\ CountOf(groups) \in Nat
         /\ \A g \in DOMAIN groups : \A i \in Segment(groups, b, g) :
              i \in Int /\ b < i /\ i <= b + CountOf(groups)
<1>1. PICK n : n = Len(groups)
  OBVIOUS
<1>2. n \in Nat /\ DOMAIN groups = 1..n /\ n + 1 \in 1..(n + 1)
  BY <1>1 DEF Grouping
<1>3. CountOf(groups) = Before(groups, n + 1) /\ CountOf(groups) \in Nat
  BY <1>1, <1>2, BeforeSteps
<1>4. ASSUME NEW g \in DOMAIN groups, NEW i \in Segment(groups, b, g)
      PROVE  i \in Int /\ b < i /\ i <= b + CountOf(groups)
  <2>1. g \in 1..(n + 1) /\ g + 1 \in 1..(n + 1) /\ g + 1 <= n + 1
    BY <1>2
  <2>2. /\ Before(groups, g) \in Nat /\ Before(groups, g + 1) \in Nat
        /\ Before(groups, g + 1) <= Before(groups, n + 1)
    BY <1>1, <1>2, <2>1, BeforeSteps
  <2>3. QED
    BY <1>3, <2>2 DEF Segment
<1>5. QED
  BY <1>3, <1>4

\* What a crossing does to the two channels of a refresh.
LEMMA CrossGroups ==
  ASSUME SeamInv, pc = "reseed", UNCHANGED <<pc, cmds, submitIds, nextOrder, fillGroups>>,
         NEW fill \in Fills, fill.owner < FirstNew, outFills' = Append(outFills, fill),
         carryGroups' = Coalesce(carryGroups, fill.owner)
  PROVE  Grouped'
<1>1. /\ outFills \in Seq(Fills) /\ carryGroups \in Seq(CarryGroups)
      /\ Grouping(carryGroups) /\ fill.owner \in OrderIds
  BY ChannelsGroup DEF SeamInv, FillInv, TypeInv, TypeOK, SeamTypeOK, Fills
<1>2. /\ CountOf(carryGroups) + CountOf(fillGroups) = Len(outFills)
      /\ \A g \in DOMAIN carryGroups :
           /\ carryGroups[g].order < FirstNew
           /\ \A i \in Segment(carryGroups, 0, g) :
                outFills[i].owner = carryGroups[g].order
      /\ fillGroups = <<>>
  BY DEF SeamInv, Grouped, Filling, Calling
<1>3. PICK more, n : more = Coalesce(carryGroups, fill.owner) /\ n = CountOf(carryGroups)
  OBVIOUS
<1>4. /\ Grouping(more) /\ n \in Nat /\ CountOf(more) = n + 1
      /\ \A g \in DOMAIN more :
           /\ more[g].order = fill.owner
                \/ (g \in DOMAIN carryGroups /\ more[g].order = carryGroups[g].order)
           /\ \A i \in Segment(more, 0, g) :
                \/ /\ g \in DOMAIN carryGroups /\ i \in Segment(carryGroups, 0, g)
                   /\ more[g].order = carryGroups[g].order
                \/ i = n + 1 /\ more[g].order = fill.owner
  BY <1>1, <1>3, Coalesced
<1>5. Len(outFills) = n /\ CountOf(fillGroups) = 0
  BY <1>2, <1>3, <1>4, NoGroups
<1>6. /\ Len(outFills') = n + 1 /\ outFills'[n + 1] = fill
      /\ \A i \in 1..n : outFills'[i] = outFills[i]
  BY <1>1, <1>5
<1>7. \A g \in DOMAIN carryGroups : \A i \in Segment(carryGroups, 0, g) : i \in 1..n
  <2>1. 0 \in Nat
    OBVIOUS
  <2>2. \A g \in DOMAIN carryGroups : \A i \in Segment(carryGroups, 0, g) :
          i \in Int /\ 0 < i /\ i <= 0 + n
    BY <1>1, <1>3, <2>1, SegmentInside
  <2>3. QED
    BY <1>4, <2>2
<1>8. FirstNew' = FirstNew
  BY DEF FirstNew
<1>9. \A g \in DOMAIN more :
        /\ more[g].order < FirstNew
        /\ \A i \in Segment(more, 0, g) : outFills'[i].owner = more[g].order
  BY <1>2, <1>4, <1>6, <1>7
<1>10. CountOf(carryGroups)' + CountOf(fillGroups)' = Len(outFills)'
  BY <1>3, <1>4, <1>5, <1>6 DEF CountOf
<1>11. carryGroups' = more /\ Segment(carryGroups, 0, 0)' = Segment(more, 0, 0)
  BY <1>3 DEF Segment, Before
<1>12. \A g : Segment(carryGroups, 0, g)' = Segment(more, 0, g)
  BY <1>11 DEF Segment, Before
<1>13. pc' = "reseed" /\ DOMAIN fillGroups' = {}
  BY <1>2
<1>14. QED
  BY <1>2, <1>8, <1>9, <1>10, <1>11, <1>12, <1>13 DEF Grouped

\* A refresh trades a resting order: the mirror shrinks by what it then owes.
LEMMA CrossKeeps ==
  ASSUME SeamInv, UNCHANGED engineVars, NEW seq, NEW q \in Quantities, ReseedCross(seq, q)
  PROVE  (Minted /\ Grouped /\ Registered)'
<1>1. PICK meta, o : meta = mirror[seq] /\ o = meta.order
  OBVIOUS
<1>2. /\ seq \in DOMAIN mirror /\ CaptureFault(seq, q) = "none" /\ q <= meta.remaining
      /\ meta.remaining \in Quantities /\ LadderContract \in DOMAIN books
  BY <1>1, MakersTracked DEF SeamInv
<1>3. TypeInv /\ Bridged /\ FillTypeOK /\ SeamTypeOK /\ EngineTypeOK
  BY DEF SeamInv, FillInv, TypeInv, TypeOK
<1>4. /\ meta \in RestingOrders /\ outFills \in Seq(Fills) /\ LadderContract \in Contracts
      /\ IsMap(pending, OrderIds, PendingEntries)
  BY <1>1, <1>2, <1>3 DEF FillTypeOK, SeamTypeOK, IsMap, EngineTypeOK
<1>5. PICK fill : fill = [contract |-> LadderContract, side |-> meta.side, qty |-> q,
                          charge |-> ChargeOf(meta.firstFillDone), owner |-> o]
  OBVIOUS
<1>6. fill \in Fills /\ fill.owner = o /\ fill.qty = q
  BY <1>1, <1>4, <1>5 DEF Fills, RestingOrders, ChargeOf
<1>7. /\ pc = "reseed"
      /\ UNCHANGED <<pc, cmds, submitIds, nextOrder, pending, fillGroups, k>>
      /\ outFills' = Append(outFills, fill)
      /\ carryGroups' = Coalesce(carryGroups, o)
      /\ mirror' = IF meta.remaining = q THEN Drop(mirror, seq)
                   ELSE Put(mirror, seq, [meta EXCEPT !.remaining = @ - q,
                                                      !.firstFillDone = TRUE])
      /\ orderIndex' = IF meta.remaining = q THEN Drop(orderIndex, o) ELSE orderIndex
  BY <1>1, <1>2, <1>5 DEF ReseedCross, CaptureRefreshFill, engineVars, idVars
<1>8. Registered /\ Minted
  BY <1>7 DEF SeamInv
<1>9. o \in DOMAIN orderIndex /\ orderIndex[o] = seq
      /\ \A p \in DOMAIN orderIndex : p # o => /\ orderIndex[p] # seq
                                               /\ orderIndex[p] \in DOMAIN mirror
  BY <1>1, <1>2, <1>3 DEF Bridged
<1>10. /\ Awaited = {} /\ Awaited' = {} /\ Doomed = {} /\ Doomed' = {}
       /\ Unapplied = DOMAIN outFills /\ Unapplied' = DOMAIN outFills'
  BY <1>7 DEF Awaited, Doomed, Withdrawing, Unapplied
<1>11. o \in DOMAIN pending /\ o < FirstNew
  BY <1>7, <1>8, <1>9, <1>10 DEF Registered, Minted, NextId, Calling
<1>12. \A p : /\ Owed(p) \in Nat
              /\ Owed(p)' = Owed(p) + IF p = o THEN q ELSE 0
  <2>1. \A p : Owed(p) = Qty(outFills, DOMAIN outFills, p)
    BY <1>10 DEF Owed
  <2>2. \A p : Owed(p)' = Qty(Append(outFills, fill), DOMAIN Append(outFills, fill), p)
    BY <1>7, <1>10 DEF Owed
  <2>3. \A p : Qty(outFills, DOMAIN outFills, p) \in Nat
    BY <1>4, QtyNat
  <2>4. \A p : Qty(Append(outFills, fill), DOMAIN Append(outFills, fill), p)
                 = Qty(outFills, DOMAIN outFills, p) + IF p = o THEN q ELSE 0
    BY <1>4, <1>6, QtyAppend
  <2>5. QED
    BY <2>1, <2>2, <2>3, <2>4
<1>13. ASSUME NEW p \in DOMAIN pending
       PROVE  Agrees(p \in DOMAIN orderIndex, MirrorOf(p), pending[p].intent, Owed(p),
                     pending[p].fillsSoFar > 0, p \notin Doomed)'
  <2>1. Agrees(p \in DOMAIN orderIndex, MirrorOf(p), pending[p].intent, Owed(p),
               pending[p].fillsSoFar > 0, TRUE)
    BY <1>8, <1>10 DEF Registered
  <2>2. CASE p = o
    <3>1. /\ MirrorOf(o) = meta /\ meta.remaining \in Nat /\ q \in Nat \ {0}
          /\ pending[o].intent.qty \in Nat
      <4>1. pending[o] \in PendingEntries
        BY <1>4, <1>11 DEF IsMap
      <4>2. pending[o].intent.qty \in Quantities
        BY <4>1 DEF PendingEntries, Intents
      <4>3. QED
        BY <1>1, <1>2, <1>9, <4>2, DomainAssumption DEF MirrorOf, Quantities
    <3>2. /\ meta.contract = pending[o].intent.contract
          /\ meta.side = pending[o].intent.side
          /\ meta.remaining = pending[o].intent.qty - Owed(o)
      BY <1>9, <2>1, <2>2, <3>1 DEF Agrees
    <3>3. Owed(o)' = Owed(o) + q /\ Owed(o) \in Nat /\ q <= meta.remaining
      BY <1>2, <1>12
    <3>4. CASE meta.remaining = q
      <4>1. o \notin DOMAIN orderIndex' /\ Owed(o)' = pending[o].intent.qty
        BY <1>7, <3>1, <3>2, <3>3, <3>4 DEF Drop
      <4>2. QED
        BY <1>7, <1>10, <2>2, <3>1, <4>1 DEF Agrees
    <3>5. CASE meta.remaining # q
      <4>1. o \in DOMAIN orderIndex' /\ orderIndex'[o] = seq
        BY <1>7, <1>9, <3>5
      <4>2. mirror'[seq] = [meta EXCEPT !.remaining = @ - q, !.firstFillDone = TRUE]
        BY <1>7, <3>5 DEF Put
      <4>3. /\ mirror'[seq].contract = meta.contract /\ mirror'[seq].side = meta.side
            /\ mirror'[seq].remaining = meta.remaining - q
            /\ mirror'[seq].firstFillDone = TRUE
        BY <1>4, <4>2 DEF RestingOrders
      <4>4. MirrorOf(o)' = mirror'[seq]
        BY <4>1 DEF MirrorOf
      <4>5. pending' = pending /\ o \notin Doomed'
        BY <1>7, <1>10
      <4>6. /\ Owed(o)' < pending[o].intent.qty /\ Owed(o)' > 0
            /\ mirror'[seq].remaining = pending[o].intent.qty - Owed(o)'
        BY <3>1, <3>2, <3>3, <3>5, <4>3
      <4>7. mirror'[seq].firstFillDone = (pending[o].fillsSoFar > 0 \/ Owed(o)' > 0)
        BY <4>3, <4>6
      <4>8. /\ mirror'[seq].contract = pending[o].intent.contract
            /\ mirror'[seq].side = pending[o].intent.side
        BY <3>2, <4>3
      <4>9. Owed(o)' <= pending[o].intent.qty
        BY <3>1, <3>2, <3>3
      <4>10. QED
        BY <2>2, <4>1, <4>4, <4>5, <4>6, <4>7, <4>8, <4>9 DEF Agrees
    <3>6. QED
      BY <3>4, <3>5
  <2>3. CASE p # o
    <3>1. p \in DOMAIN orderIndex' <=> p \in DOMAIN orderIndex
      BY <1>7, <2>3 DEF Drop
    <3>2. p \in DOMAIN orderIndex => MirrorOf(p)' = MirrorOf(p)
      BY <1>7, <1>9, <2>3 DEF Drop, Put, MirrorOf
    <3>3. Owed(p)' = Owed(p)
      BY <1>12, <2>3
    <3>4. QED
      BY <1>7, <1>10, <2>1, <3>1, <3>2, <3>3 DEF Agrees
  <2>4. QED
    BY <2>2, <2>3
<1>14. Registered'
  <2>1. \A p \in DOMAIN orderIndex' : p \in DOMAIN pending'
    BY <1>7, <1>8, <1>10 DEF Registered, Drop
  <2>2. \A i \in Unapplied' :
          outFills'[i].owner < FirstNew' => outFills'[i].owner \in DOMAIN pending'
    <3>1. /\ DOMAIN outFills' = DOMAIN outFills \cup {Len(outFills) + 1}
          /\ outFills'[Len(outFills) + 1] = fill
          /\ \A i \in DOMAIN outFills : outFills'[i] = outFills[i]
      BY <1>4, <1>7
    <3>2. FirstNew' = FirstNew
      BY <1>7 DEF FirstNew
    <3>3. QED
      BY <1>6, <1>7, <1>8, <1>10, <1>11, <3>1, <3>2 DEF Registered
  <2>3. QED
    BY <1>7, <1>10, <1>13, <2>1, <2>2 DEF Registered
<1>15. Minted'
  BY <1>7, <1>8, MintedKeeps DEF Calling
<1>16. Grouped'
  BY <1>6, <1>7, <1>11, CrossGroups
<1>17. QED
  BY <1>14, <1>15, <1>16

\* An order out of the mirror, doomed if it was still registered.
LEMMA CancelKeeps ==
  ASSUME SeamInv, UNCHANGED engineVars, pc' # "failed", LifecycleOne
  PROVE  (Minted /\ Grouped /\ Registered)'
<1>1. /\ pc = "lifecycle" /\ k <= Len(cmds) /\ k' = k + 1
      /\ UNCHANGED <<pc, cmds, submitIds, nextOrder, outFills, carryGroups, fillGroups, pending>>
      /\ IF IsLifecycle(cmds[k]) THEN CancelResting(cmds[k].order) ELSE UNCHANGED fillVars
  BY DEF LifecycleOne, CancelsResting, AbortFill, AbortSeam, engineVars, idVars
<1>2. Registered /\ Minted /\ Grouped /\ TypeInv /\ Bridged
  BY <1>1 DEF SeamInv, FillInv
<1>3. Minted'
  BY <1>1, <1>2, MintedKeeps DEF Calling
<1>4. Grouped'
  BY <1>1, <1>2, GroupedKeeps DEF Grouped, Filling, Calling
<1>5. /\ k \in Nat \ {0} /\ DOMAIN cmds = 1..Len(cmds) /\ Len(cmds) \in Nat
  BY <1>2 DEF TypeInv, TypeOK, SeamTypeOK
<1>6. Awaited = {} /\ Awaited' = {} /\ Unapplied = DOMAIN outFills /\ Unapplied' = Unapplied
  BY <1>1 DEF Awaited, Unapplied
<1>7. Withdrawing' = IF IsLifecycle(cmds[k]) THEN Withdrawing \cup {k} ELSE Withdrawing
  BY <1>1, <1>5 DEF Withdrawing
<1>8. CASE ~ IsLifecycle(cmds[k])
  <2>1. Doomed' = Doomed /\ UNCHANGED <<mirror, orderIndex>>
    BY <1>1, <1>7, <1>8 DEF Doomed, fillVars
  <2>2. Registered'
    BY <1>1, <1>2, <1>6, <2>1, SameKeeps
  <2>3. QED
    BY <1>3, <1>4, <2>2
<1>9. CASE IsLifecycle(cmds[k])
  <2>1. PICK d : d = cmds[k].order
    OBVIOUS
  <2>2. Doomed' = Doomed \cup {d}
    BY <1>1, <1>7, <1>9, <2>1 DEF Doomed
  <2>3. \/ d \notin DOMAIN orderIndex /\ UNCHANGED <<mirror, orderIndex>>
        \/ /\ d \in DOMAIN orderIndex
           /\ mirror' = Drop(mirror, orderIndex[d])
           /\ orderIndex' = Drop(orderIndex, d)
    BY <1>1, <1>9, <2>1 DEF CancelResting, fillVars
  <2>4. /\ d \notin DOMAIN orderIndex' /\ DOMAIN orderIndex' \subseteq DOMAIN orderIndex
        /\ \A p : p # d => /\ p \in DOMAIN orderIndex' <=> p \in DOMAIN orderIndex
                           /\ p \in DOMAIN orderIndex => MirrorOf(p)' = MirrorOf(p)
    <3>1. CASE d \notin DOMAIN orderIndex /\ UNCHANGED <<mirror, orderIndex>>
      BY <3>1 DEF MirrorOf
    <3>2. CASE /\ d \in DOMAIN orderIndex
               /\ mirror' = Drop(mirror, orderIndex[d])
               /\ orderIndex' = Drop(orderIndex, d)
      <4>1. \A p \in DOMAIN orderIndex : p # d => /\ orderIndex[p] # orderIndex[d]
                                                  /\ orderIndex[p] \in DOMAIN mirror
        BY <1>2, <3>2 DEF Bridged
      <4>2. \A p \in DOMAIN orderIndex : p # d => orderIndex'[p] = orderIndex[p]
        BY <3>2 DEF Drop
      <4>3. \A p \in DOMAIN orderIndex : p # d =>
              mirror'[orderIndex[p]] = mirror[orderIndex[p]]
        BY <3>2, <4>1 DEF Drop
      <4>4. DOMAIN orderIndex' = DOMAIN orderIndex \ {d}
        BY <3>2 DEF Drop
      <4>5. QED
        BY <4>2, <4>3, <4>4 DEF MirrorOf
    <3>3. QED
      BY <2>3, <3>1, <3>2
  <2>5. \A p : Owed(p)' = Owed(p)
    BY <1>1, <1>6 DEF Owed
  <2>6. ASSUME NEW p \in DOMAIN pending
        PROVE  Agrees(p \in DOMAIN orderIndex, MirrorOf(p), pending[p].intent, Owed(p),
                      pending[p].fillsSoFar > 0, p \notin Doomed)'
    <3>1. Agrees(p \in DOMAIN orderIndex, MirrorOf(p), pending[p].intent, Owed(p),
                 pending[p].fillsSoFar > 0, p \notin Doomed)
      BY <1>2 DEF Registered
    <3>2. pending' = pending
      BY <1>1
    <3>3. CASE p = d
      BY <2>2, <2>4, <2>5, <3>1, <3>2, <3>3 DEF Agrees
    <3>4. CASE p # d
      <4>1. p \notin Doomed' <=> p \notin Doomed
        BY <2>2, <3>4
      <4>2. QED
        BY <2>4, <2>5, <3>1, <3>2, <3>4, <4>1 DEF Agrees
    <3>5. QED
      BY <3>3, <3>4
  <2>7. FirstNew' = FirstNew
    BY <1>1 DEF FirstNew
  <2>8. Registered'
    BY <1>1, <1>2, <1>6, <2>4, <2>6, <2>7 DEF Registered
  <2>9. QED
    BY <1>3, <1>4, <2>8
<1>10. QED
  BY <1>8, <1>9

\* Every fill is in a group of one of the channels, which names its owner.
LEMMA OwnersNamed ==
  ASSUME TypeInv, Grouped, pc \in Filling, NEW i \in DOMAIN outFills
  PROVE  \/ \E g \in DOMAIN carryGroups : /\ i \in Segment(carryGroups, 0, g)
                                          /\ outFills[i].owner = carryGroups[g].order
         \/ \E g \in DOMAIN fillGroups :
              /\ i \in Segment(fillGroups, CountOf(carryGroups), g)
              /\ outFills[i].owner = IdOf(fillGroups[g].cmd)
<1>1. /\ Grouping(carryGroups) /\ Grouping(fillGroups)
      /\ DOMAIN outFills = 1..Len(outFills) /\ Len(outFills) \in Nat
  BY ChannelsGroup DEF TypeInv, TypeOK, SeamTypeOK
<1>2. PICK a, b : a = CountOf(carryGroups) /\ b = CountOf(fillGroups)
  OBVIOUS
<1>3. a \in Nat /\ b \in Nat
  <2>1. 0 \in Nat
    OBVIOUS
  <2>2. QED
    BY <1>1, <1>2, <2>1, SegmentInside
<1>4. a + b = Len(outFills) /\ i \in 1..(a + b)
  BY <1>1, <1>2 DEF Grouped
<1>5. CASE i <= a
  <2>1. i \in 1..CountOf(carryGroups)
    BY <1>2, <1>3, <1>4, <1>5
  <2>2. PICK g \in DOMAIN carryGroups :
          Before(carryGroups, g) < i /\ i <= Before(carryGroups, g + 1)
    BY <1>1, <2>1, InSomeGroup
  <2>3. Before(carryGroups, g) \in Nat /\ Before(carryGroups, g + 1) \in Nat
    <3>1. g \in 1..(Len(carryGroups) + 1) /\ g + 1 \in 1..(Len(carryGroups) + 1)
      BY <1>1 DEF Grouping
    <3>2. QED
      BY <1>1, <3>1, BeforeSteps
  <2>4. i \in Segment(carryGroups, 0, g)
    BY <1>4, <2>2, <2>3 DEF Segment
  <2>5. QED
    BY <2>4 DEF Grouped
<1>6. CASE ~ (i <= a)
  <2>1. i - a \in 1..CountOf(fillGroups)
    BY <1>2, <1>3, <1>4, <1>6
  <2>2. PICK g \in DOMAIN fillGroups :
          Before(fillGroups, g) < i - a /\ i - a <= Before(fillGroups, g + 1)
    BY <1>1, <2>1, InSomeGroup
  <2>3. Before(fillGroups, g) \in Nat /\ Before(fillGroups, g + 1) \in Nat
    <3>1. g \in 1..(Len(fillGroups) + 1) /\ g + 1 \in 1..(Len(fillGroups) + 1)
      BY <1>1 DEF Grouping
    <3>2. QED
      BY <1>1, <3>1, BeforeSteps
  <2>4. i \in Segment(fillGroups, a, g)
    BY <1>3, <1>4, <2>2, <2>3 DEF Segment
  <2>5. QED
    BY <1>2, <2>4 DEF Grouped
<1>7. QED
  BY <1>5, <1>6

\* The levels of a submission, as a run of its fills.
LEMMA LevelsRun ==
  ASSUME NEW intent \in Intents, NEW id \in OrderIds, NEW levels \in Walks
  PROVE  /\ LevelFills(intent, id, levels) \in Seq(Fills)
         /\ Len(LevelFills(intent, id, levels)) = Len(levels) /\ Len(levels) \in Nat
         /\ OwnedBy(LevelFills(intent, id, levels), id)
         /\ TotalQty(LevelFills(intent, id, levels)) = SumOver(levels, DOMAIN levels)
<1>1. levels \in Seq(Quantities)
  BY LevelsAssumption DEF Walks, BoundedSeq, SeqOf
<1>2. PICK run : run = LevelFills(intent, id, levels)
  OBVIOUS
<1>3. DOMAIN run = DOMAIN levels /\ \A i \in DOMAIN levels :
        run[i] = [contract |-> intent.contract, side |-> intent.side, qty |-> levels[i],
                  charge |-> IF i = 1 THEN "first" ELSE "later", owner |-> id]
  BY <1>2 DEF LevelFills
<1>4. \A i \in DOMAIN levels : levels[i] \in Quantities
  BY <1>1
<1>5. \A i \in DOMAIN levels :
        run[i] \in Fills /\ run[i].qty = levels[i] /\ run[i].owner = id
  BY <1>3, <1>4 DEF Fills, Intents
<1>6. DOMAIN levels = 1..Len(levels) /\ Len(levels) \in Nat
  BY <1>1
<1>7. run \in Seq(Fills) /\ Len(run) = Len(levels)
  <2>1. run = [i \in 1..Len(levels) |-> run[i]]
    BY <1>2, <1>6 DEF LevelFills
  <2>2. \A i \in 1..Len(levels) : run[i] \in Fills
    BY <1>5, <1>6
  <2>3. QED
    BY <1>6, <2>1, <2>2
<1>8. TotalQty(run) = SumOver(levels, DOMAIN levels)
  <2>1. PICK f : f = [i \in DOMAIN run |-> run[i].qty]
    OBVIOUS
  <2>2. TotalQty(run) = SumFunctionOnSet(f, DOMAIN levels)
    BY <1>3, <2>1 DEF TotalQty, SumOver
  <2>3. IsFiniteSet(DOMAIN levels)
    BY <1>6, FS_Interval
  <2>4. Numbers(f, DOMAIN levels) /\ \A i \in DOMAIN levels : f[i] = levels[i]
    BY <1>3, <1>4, <1>5, <2>1 DEF Numbers, Quantities
  <2>5. SumFunctionOnSet(f, DOMAIN levels) = SumFunctionOnSet(levels, DOMAIN levels)
    BY <2>3, <2>4, SumSame
  <2>6. QED
    BY <2>2, <2>5 DEF SumOver
<1>9. QED
  BY <1>2, <1>3, <1>5, <1>6, <1>7, <1>8 DEF OwnedBy

\* What a submission does to the fill groups.
LEMMA SubmitGroups ==
  ASSUME SeamInv, AtSubmission, k' = k + 1,
         UNCHANGED <<pc, cmds, submitIds, nextOrder, carryGroups>>,
         NEW run \in Seq(Fills), OwnedBy(run, IdOf(k)), outFills' = outFills \o run,
         fillGroups' = IF run = <<>> THEN fillGroups
                       ELSE Append(fillGroups, [cmd |-> k, count |-> Len(run)])
  PROVE  Grouped'
<1>1. /\ pc = "submit" /\ pc \in Filling /\ k \in Nat \ {0} /\ k \in DOMAIN cmds
      /\ IsSubmission(cmds[k])
  BY DEF AtSubmission, SeamInv, FillInv, TypeInv, TypeOK, SeamTypeOK, Filling, Calling
<1>2. /\ outFills \in Seq(Fills) /\ fillGroups \in Seq(FillGroups)
      /\ Grouping(carryGroups) /\ Grouping(fillGroups)
  BY ChannelsGroup DEF SeamInv, FillInv, TypeInv, TypeOK, SeamTypeOK
<1>3. Grouped
  BY <1>1 DEF SeamInv
<1>4. \A g \in DOMAIN fillGroups : fillGroups[g].cmd < k /\ fillGroups[g].cmd \in Nat
  <2>1. \A g \in DOMAIN fillGroups : fillGroups[g] \in FillGroups
    BY <1>2
  <2>2. QED
    BY <1>1, <1>3, <2>1 DEF Grouped, FillGroups
<1>5. CASE run = <<>>
  <2>1. outFills' = outFills /\ fillGroups' = fillGroups
    BY <1>2, <1>5
  <2>2. \A g \in DOMAIN fillGroups : fillGroups[g].cmd < k'
    BY <1>1, <1>4
  <2>3. QED
    BY <1>1, <1>3, <2>1, <2>2, GroupedKeeps
<1>6. CASE run # <<>>
  <2>1. PICK new, last, a, b : /\ new = [cmd |-> k, count |-> Len(run)]
                               /\ last = Len(fillGroups) + 1
                               /\ a = CountOf(carryGroups) /\ b = CountOf(fillGroups)
    OBVIOUS
  <2>2. new \in FillGroups /\ new.count \in Nat \ {0} /\ new.cmd = k /\ new.count = Len(run)
    BY <1>1, <1>6, <2>1 DEF FillGroups
  <2>3. PICK more : more = Append(fillGroups, new)
    OBVIOUS
  <2>4. /\ Grouping(more)
        /\ DOMAIN more = DOMAIN fillGroups \cup {last}
        /\ CountOf(more) = b + new.count
        /\ b \in Nat
        /\ more[last] = new
        /\ \A g \in DOMAIN fillGroups :
             /\ more[g] = fillGroups[g]
             /\ \A c : Segment(more, c, g) = Segment(fillGroups, c, g)
        /\ \A c \in Nat : Segment(more, c, last) = NextSegment(fillGroups, c, new.count)
    BY <1>2, <2>1, <2>2, <2>3, GroupAppended
  <2>5. a \in Nat /\ a + b = Len(outFills)
    <3>1. a \in Nat
      BY <1>2, <2>1, SegmentInside
    <3>2. QED
      BY <1>1, <1>3, <2>1, <3>1 DEF Grouped
  <2>6. /\ Len(outFills') = a + b + new.count
        /\ \A i \in 1..(a + b) : outFills'[i] = outFills[i]
        /\ \A i \in (a + b + 1)..(a + b + new.count) : outFills'[i].owner = IdOf(k)
    <3>1. ASSUME NEW i \in (a + b + 1)..(a + b + new.count)
          PROVE  outFills'[i].owner = IdOf(k)
      <4>1. /\ i - Len(outFills) \in 1..Len(run) /\ i \in 1..(Len(outFills) + Len(run))
            /\ i > Len(outFills)
        BY <2>2, <2>4, <2>5
      <4>2. outFills'[i] = run[i - Len(outFills)]
        BY <1>2, <4>1
      <4>3. i - Len(outFills) \in DOMAIN run
        BY <4>1
      <4>4. QED
        BY <4>2, <4>3 DEF OwnedBy
    <3>2. /\ Len(outFills') = Len(outFills) + Len(run)
          /\ \A i \in 1..Len(outFills) : outFills'[i] = outFills[i]
      BY <1>2
    <3>3. QED
      BY <2>2, <2>5, <3>1, <3>2
  <2>7. fillGroups' = more
    BY <1>6, <2>1, <2>3
  <2>8. FirstNew' = FirstNew /\ \A j : IdOf(j)' = IdOf(j)
    BY DEF FirstNew, IdOf, Ordinal
  <2>9. \A g \in DOMAIN carryGroups :
          /\ carryGroups[g].order < FirstNew
          /\ \A i \in Segment(carryGroups, 0, g) : outFills'[i].owner = carryGroups[g].order
    <3>1. 0 \in Nat
      OBVIOUS
    <3>2. \A g \in DOMAIN carryGroups : \A i \in Segment(carryGroups, 0, g) :
            i \in Int /\ 0 < i /\ i <= 0 + a
      BY <1>2, <2>1, <3>1, SegmentInside
    <3>3. \A g \in DOMAIN carryGroups : \A i \in Segment(carryGroups, 0, g) : i \in 1..(a + b)
      BY <2>4, <2>5, <3>2
    <3>4. QED
      BY <1>1, <1>3, <2>6, <3>3 DEF Grouped
  <2>10. \A g \in DOMAIN more :
           /\ more[g].cmd \in DOMAIN cmds
           /\ IsSubmission(cmds[more[g].cmd])
           /\ \A i \in Segment(more, a, g) : outFills'[i].owner = IdOf(more[g].cmd)
    <3>1. ASSUME NEW g \in DOMAIN fillGroups
          PROVE  /\ more[g].cmd \in DOMAIN cmds
                 /\ IsSubmission(cmds[more[g].cmd])
                 /\ \A i \in Segment(more, a, g) : outFills'[i].owner = IdOf(more[g].cmd)
      <4>1. more[g] = fillGroups[g] /\ Segment(more, a, g) = Segment(fillGroups, a, g)
        BY <2>4
      <4>2. /\ fillGroups[g].cmd \in DOMAIN cmds
            /\ IsSubmission(cmds[fillGroups[g].cmd])
            /\ \A i \in Segment(fillGroups, a, g) :
                 outFills[i].owner = IdOf(fillGroups[g].cmd)
        BY <1>1, <1>3, <2>1 DEF Grouped
      <4>3. \A i \in Segment(fillGroups, a, g) : i \in Int /\ a < i /\ i <= a + b
        BY <1>2, <2>1, <2>5, SegmentInside
      <4>4. \A i \in Segment(fillGroups, a, g) : i \in 1..(a + b)
        BY <2>5, <4>3
      <4>5. QED
        BY <2>6, <4>1, <4>2, <4>4
    <3>2. Segment(more, a, last) = (a + b + 1)..(a + b + new.count)
      <4>1. Segment(more, a, last) = NextSegment(fillGroups, a, new.count)
        BY <2>4, <2>5
      <4>2. QED
        BY <2>1, <4>1 DEF NextSegment
    <3>3. QED
      BY <1>1, <2>2, <2>4, <2>6, <3>1, <3>2
  <2>11. \A g, h \in DOMAIN more : g < h => more[g].cmd < more[h].cmd
    <3>1. \A g, h \in DOMAIN fillGroups : g < h => fillGroups[g].cmd < fillGroups[h].cmd
      BY <1>1, <1>3 DEF Grouped
    <3>2. \A g \in DOMAIN fillGroups : g < last /\ ~ (last < g)
      BY <1>2, <2>1
    <3>3. \A g \in DOMAIN fillGroups : more[g].cmd = fillGroups[g].cmd
      BY <2>4
    <3>4. more[last].cmd = k /\ ~ (last < last)
      BY <1>2, <2>1, <2>2, <2>4
    <3>5. QED
      BY <1>4, <2>4, <3>1, <3>2, <3>3, <3>4
  <2>12. \A g \in DOMAIN more : more[g].cmd < k'
    <3>1. \A c \in Nat : c < k \/ c = k => c < k + 1
      BY <1>1
    <3>2. QED
      BY <1>1, <1>4, <2>2, <2>4, <3>1
  <2>13. \A g : /\ Segment(carryGroups, 0, g)' = Segment(carryGroups, 0, g)
                /\ Segment(fillGroups, CountOf(carryGroups), g)' = Segment(more, a, g)
    BY <2>1, <2>7 DEF Segment, Before, CountOf
  <2>14. CountOf(carryGroups)' + CountOf(fillGroups)' = Len(outFills)'
    <3>1. CountOf(carryGroups)' = a /\ CountOf(fillGroups)' = CountOf(more)
      BY <2>1, <2>7 DEF CountOf
    <3>2. QED
      BY <2>2, <2>4, <2>5, <2>6, <3>1
  <2>15. QED
    BY <1>1, <2>7, <2>8, <2>9, <2>10, <2>11, <2>12, <2>13, <2>14 DEF Grouped
<1>7. QED
  BY <1>5, <1>6

\* Before the submission at the cursor executes none of the fills is its own, and
\* it owes nothing.
LEMMA NotYetOwed ==
  ASSUME SeamInv, AtSubmission
  PROVE  /\ Owed(IdOf(k)) = 0
         /\ \A j \in Awaited : IdOf(j) # IdOf(k)
         /\ \A o \in DOMAIN pending : o # IdOf(k)
         /\ IdOf(k) >= FirstNew /\ FirstNew \in Int
<1>1. /\ pc = "submit" /\ pc \in Filling /\ pc \in Calling /\ k \in DOMAIN cmds
      /\ IsSubmission(cmds[k]) /\ TypeInv /\ Minted /\ Grouped
      /\ outFills \in Seq(Fills) /\ k \in Nat
  BY DEF AtSubmission, SeamInv, FillInv, TypeInv, TypeOK, SeamTypeOK, Filling, Calling
<1>2. /\ FirstNew \in Int /\ IdOf(k) \in OrderIds /\ IdOf(k) >= FirstNew
      /\ \A j \in DOMAIN cmds : IsSubmission(cmds[j]) => (IdOf(j) < IdOf(k) <=> j < k)
  BY <1>1, IdsAscend
<1>3. IdOf(k) \in Int /\ ~ (IdOf(k) < IdOf(k)) /\ ~ (IdOf(k) < FirstNew)
  BY <1>2 DEF OrderIds
<1>4. \A j \in DOMAIN cmds : IsSubmission(cmds[j]) /\ j < k => IdOf(j) # IdOf(k)
  BY <1>2, <1>3
<1>5. \A o \in DOMAIN pending : o # IdOf(k)
  BY <1>1, <1>3 DEF Minted, NextId
<1>6. \A i \in DOMAIN outFills : outFills[i].owner # IdOf(k)
  <2>1. ASSUME NEW i \in DOMAIN outFills
        PROVE  outFills[i].owner # IdOf(k)
    <3>1. CASE \E g \in DOMAIN carryGroups : outFills[i].owner = carryGroups[g].order
      BY <1>1, <1>3, <3>1 DEF Grouped
    <3>2. CASE \E g \in DOMAIN fillGroups : outFills[i].owner = IdOf(fillGroups[g].cmd)
      BY <1>1, <1>4, <3>2 DEF Grouped
    <3>3. QED
      BY <1>1, <3>1, <3>2, OwnersNamed
  <2>2. QED
    BY <2>1
<1>7. Unapplied = DOMAIN outFills
  BY <1>1 DEF Unapplied
<1>8. Owed(IdOf(k)) = 0
  <2>1. /\ Qty(outFills, DOMAIN outFills, IdOf(k)) \in Nat
        /\ ~ (Qty(outFills, DOMAIN outFills, IdOf(k)) > 0)
    BY <1>1, <1>6, QtyNat
  <2>2. QED
    BY <1>7, <2>1 DEF Owed
<1>9. QED
  BY <1>1, <1>2, <1>4, <1>5, <1>8 DEF Awaited

\* A submission executes, and rests what is left of a good-till-cancelled one.
LEMMA SubmitKeeps ==
  ASSUME SeamInv, UNCHANGED engineVars, NEW levels \in Walks, NEW rest \in 0..MaxQty,
         SubmitOne(levels, rest)
  PROVE  (Minted /\ Grouped /\ Registered)'
<1>1. PICK intent, id, run : /\ intent = cmds[k].intent /\ id = IdOf(k)
                             /\ run = LevelFills(intent, id, levels)
  OBVIOUS
<1>2. /\ AtSubmission /\ SubmitFault = "none" /\ k' = k + 1
      /\ FillSubmit(intent, id, levels, rest)
      /\ UNCHANGED <<pc, cmds, submitIds, nextOrder, carryGroups, pending>>
  BY <1>1 DEF SubmitOne, IdOf, engineVars, idVars
<1>3. /\ pc = "submit" /\ k \in Nat \ {0} /\ k \in DOMAIN cmds /\ IsSubmission(cmds[k])
      /\ TypeInv /\ Minted /\ Grouped /\ Registered /\ Bridged /\ Counted /\ Dealt
      /\ outFills \in Seq(Fills) /\ nextSeq \in Nat /\ cmds \in Seq(Commands)
      /\ IsMap(mirror, Nat, RestingOrders)
  BY <1>2 DEF AtSubmission, SeamInv, FillInv, TypeInv, TypeOK, SeamTypeOK, FillTypeOK
<1>4. intent \in Intents /\ id \in OrderIds /\ id \notin DOMAIN orderIndex
  BY <1>1, <1>2, <1>3, SubmitChecked, NextDealt DEF IdOf
<1>5. intent.qty \in Nat \ {0} /\ rest \in Nat
  BY <1>4, DomainAssumption DEF Intents, Quantities
<1>6. PICK total : total = TotalQty(run)
  OBVIOUS
<1>7. /\ run \in Seq(Fills) /\ OwnedBy(run, id) /\ Len(run) = Len(levels)
      /\ total + rest = intent.qty
      /\ outFills' = outFills \o run
      /\ fillGroups' = IF levels = <<>> THEN fillGroups
                       ELSE Append(fillGroups, [cmd |-> k, count |-> Len(levels)])
  BY <1>1, <1>2, <1>4, <1>6, LevelsRun DEF FillSubmit
<1>8. total \in Nat
  <2>1. PICK f : f = [i \in DOMAIN run |-> run[i].qty]
    OBVIOUS
  <2>2. total = SumFunctionOnSet(f, DOMAIN run)
    BY <1>6, <2>1 DEF TotalQty, SumOver
  <2>3. DOMAIN run \in SUBSET DOMAIN run
    OBVIOUS
  <2>4. IsFiniteSet(DOMAIN run) /\ \A i \in DOMAIN run : f[i] \in Nat
    BY <1>7, <2>1, <2>3, RunSizes
  <2>5. QED
    BY <2>2, <2>4, SumNat
<1>9. Grouped'
  <2>1. levels = <<>> <=> run = <<>>
    <3>1. levels \in Seq(Quantities)
      BY LevelsAssumption DEF Walks, BoundedSeq, SeqOf
    <3>2. (levels = <<>> <=> Len(levels) = 0) /\ (run = <<>> <=> Len(run) = 0)
      BY <1>7, <3>1
    <3>3. QED
      BY <1>7, <3>2
  <2>2. fillGroups' = IF run = <<>> THEN fillGroups
                      ELSE Append(fillGroups, [cmd |-> k, count |-> Len(run)])
    BY <1>7, <2>1
  <2>3. QED
    BY <1>1, <1>2, <1>7, <2>2, SubmitGroups
<1>10. Minted'
  BY <1>2, <1>3, MintedKeeps DEF Calling
<1>11. /\ Owed(id) = 0 /\ id >= FirstNew /\ FirstNew \in Int
       /\ \A j \in Awaited : IdOf(j) # id
       /\ \A o \in DOMAIN pending : o # id
  BY <1>1, <1>2, NotYetOwed
<1>12. /\ Unapplied = DOMAIN outFills /\ Unapplied' = DOMAIN (outFills \o run)
       /\ Awaited' = Awaited \cup {k} /\ Doomed' = Doomed
  <2>1. Awaited' = Awaited \cup {k}
    BY <1>2, <1>3 DEF Awaited
  <2>2. Doomed' = Doomed
    BY <1>2, <1>3 DEF Doomed, Withdrawing
  <2>3. QED
    BY <1>2, <1>3, <1>7, <2>1, <2>2 DEF Unapplied
<1>13. \A p : /\ p # id => Owed(p)' = Owed(p)
              /\ Owed(id)' = total
  <2>1. \A p : Owed(p) = Qty(outFills, DOMAIN outFills, p)
    BY <1>12 DEF Owed
  <2>2. \A p : Owed(p)' = Qty(outFills \o run, DOMAIN (outFills \o run), p)
    BY <1>7, <1>12 DEF Owed
  <2>3. \A p : /\ Qty(outFills, DOMAIN outFills, p) \in Nat
               /\ Qty(outFills \o run, DOMAIN (outFills \o run), p)
                    = Qty(outFills, DOMAIN outFills, p) + IF p = id THEN total ELSE 0
    BY <1>3, <1>6, <1>7, QtyNat, QtyConcat
  <2>4. QED
    BY <1>8, <1>11, <2>1, <2>2, <2>3
<1> DEFINE rests == intent.kind = "gtc" /\ rest > 0
<1>15. /\ mirror' = IF rests THEN Put(mirror, nextSeq, RestingMeta(intent, id, rest))
                    ELSE mirror
       /\ orderIndex' = IF rests THEN Put(orderIndex, id, nextSeq) ELSE orderIndex
  BY <1>2 DEF FillSubmit
<1>16. ASSUME NEW p, p # id
       PROVE  /\ p \in DOMAIN orderIndex' <=> p \in DOMAIN orderIndex
              /\ p \in DOMAIN orderIndex => MirrorOf(p)' = MirrorOf(p)
  <2>1. p \in DOMAIN orderIndex => orderIndex[p] # nextSeq /\ orderIndex[p] \in DOMAIN mirror
    <3>1. \A seq \in DOMAIN mirror : seq \in Nat /\ seq < nextSeq
      BY <1>3 DEF Counted, IsMap
    <3>2. ~ (nextSeq < nextSeq)
      BY <1>3
    <3>3. QED
      BY <1>3, <3>1, <3>2 DEF Bridged
  <2>2. CASE rests
    BY <1>15, <1>16, <2>1, <2>2 DEF Put, MirrorOf
  <2>3. CASE ~ rests
    BY <1>15, <2>3 DEF MirrorOf
  <2>4. QED
    BY <2>2, <2>3
<1>17. Agrees(id \in DOMAIN orderIndex', MirrorOf(id)', intent, Owed(id)', FALSE,
              intent.kind = "gtc")
  <2>1. Owed(id)' = total
    BY <1>13
  <2>2. CASE rests
    <3>1. id \in DOMAIN orderIndex' /\ orderIndex'[id] = nextSeq
      BY <1>15, <2>2 DEF Put
    <3>2. mirror'[nextSeq] = RestingMeta(intent, id, rest)
      BY <1>15, <2>2 DEF Put
    <3>3. MirrorOf(id)' = RestingMeta(intent, id, rest)
      BY <3>1, <3>2 DEF MirrorOf
    <3>4. /\ total < intent.qty /\ total <= intent.qty /\ rest = intent.qty - total
          /\ rest < intent.qty <=> total > 0
      BY <1>5, <1>7, <1>8, <2>2
    <3>5. /\ MirrorOf(id)'.contract = intent.contract /\ MirrorOf(id)'.side = intent.side
          /\ MirrorOf(id)'.remaining = intent.qty - total
          /\ MirrorOf(id)'.firstFillDone = (FALSE \/ total > 0)
      BY <3>3, <3>4 DEF RestingMeta
    <3>6. intent.kind = "gtc"
      BY <2>2
    <3>7. QED
      BY <2>1, <3>1, <3>4, <3>5, <3>6 DEF Agrees
  <2>3. CASE ~ rests
    <3>1. id \notin DOMAIN orderIndex' /\ total <= intent.qty
      BY <1>4, <1>5, <1>7, <1>8, <1>15, <2>3
    <3>2. ~ (intent.kind = "gtc" /\ total < intent.qty)
      BY <1>5, <1>7, <1>8, <2>3
    <3>3. QED
      BY <2>1, <3>1, <3>2 DEF Agrees
  <2>4. QED
    BY <2>2, <2>3
<1>18. FirstNew' = FirstNew /\ \A j : IdOf(j)' = IdOf(j)
  BY <1>2 DEF FirstNew, IdOf, Ordinal
<1>19. \A o \in DOMAIN pending' :
         Agrees(o \in DOMAIN orderIndex, MirrorOf(o), pending[o].intent, Owed(o),
                pending[o].fillsSoFar > 0, o \notin Doomed)'
  <2>1. ASSUME NEW o \in DOMAIN pending
        PROVE  Agrees(o \in DOMAIN orderIndex, MirrorOf(o), pending[o].intent, Owed(o),
                      pending[o].fillsSoFar > 0, o \notin Doomed)'
    <3>1. Agrees(o \in DOMAIN orderIndex, MirrorOf(o), pending[o].intent, Owed(o),
                 pending[o].fillsSoFar > 0, o \notin Doomed)
      BY <1>3 DEF Registered
    <3>2. o # id /\ Owed(o)' = Owed(o) /\ Doomed' = Doomed /\ pending' = pending
      BY <1>2, <1>11, <1>12, <1>13
    <3>3. QED
      BY <1>16, <3>1, <3>2 DEF Agrees
  <2>2. QED
    BY <1>2, <2>1
<1>20. \A j \in Awaited' :
         Agrees(IdOf(j) \in DOMAIN orderIndex, MirrorOf(IdOf(j)), cmds[j].intent,
                Owed(IdOf(j)), FALSE, cmds[j].intent.kind = "gtc")'
  <2>1. ASSUME NEW j \in Awaited
        PROVE  Agrees(IdOf(j) \in DOMAIN orderIndex, MirrorOf(IdOf(j)), cmds[j].intent,
                      Owed(IdOf(j)), FALSE, cmds[j].intent.kind = "gtc")'
    <3>1. PICK o, want : o = IdOf(j) /\ want = cmds[j].intent
      OBVIOUS
    <3>2. Agrees(o \in DOMAIN orderIndex, MirrorOf(o), want, Owed(o), FALSE,
                 want.kind = "gtc")
      BY <1>3, <3>1 DEF Registered
    <3>3. o # id /\ Owed(o)' = Owed(o)
      BY <1>11, <1>13, <3>1
    <3>4. Agrees(o \in DOMAIN orderIndex', MirrorOf(o)', want, Owed(o)', FALSE,
                 want.kind = "gtc")
      BY <1>16, <3>2, <3>3 DEF Agrees
    <3>5. IdOf(j)' = o /\ cmds'[j].intent = want
      BY <1>2, <1>18, <3>1
    <3>6. MirrorOf(IdOf(j))' = MirrorOf(o)' /\ Owed(IdOf(j))' = Owed(o)'
      BY <3>5 DEF MirrorOf, Owed
    <3>7. QED
      BY <3>4, <3>5, <3>6
  <2>2. ASSUME NEW j, j = k
        PROVE  Agrees(IdOf(j) \in DOMAIN orderIndex, MirrorOf(IdOf(j)), cmds[j].intent,
                      Owed(IdOf(j)), FALSE, cmds[j].intent.kind = "gtc")'
    <3>1. IdOf(j)' = id /\ cmds'[j].intent = intent
      BY <1>1, <1>2, <1>18, <2>2
    <3>2. MirrorOf(IdOf(j))' = MirrorOf(id)' /\ Owed(IdOf(j))' = Owed(id)'
      BY <3>1 DEF MirrorOf, Owed
    <3>3. QED
      BY <1>17, <3>1, <3>2
  <2>3. QED
    BY <1>12, <2>1, <2>2
<1>21. \A o \in DOMAIN orderIndex' : o \in DOMAIN pending' \/ \E j \in Awaited' : o = IdOf(j)'
  <2>1. \A o \in DOMAIN orderIndex : o \in DOMAIN pending \/ \E j \in Awaited : o = IdOf(j)
    BY <1>3 DEF Registered
  <2>2. IdOf(k) = id
    BY <1>1
  <2>3. QED
    BY <1>2, <1>12, <1>16, <1>18, <2>1, <2>2
<1>22. \A i \in Unapplied' :
         outFills'[i].owner < FirstNew' => outFills'[i].owner \in DOMAIN pending'
  <2>1. ASSUME NEW i \in Unapplied', outFills'[i].owner < FirstNew
        PROVE  outFills'[i].owner \in DOMAIN pending
    <3>1. CASE i \in DOMAIN outFills
      <4>1. outFills'[i] = outFills[i]
        BY <1>3, <1>7, <3>1
      <4>2. QED
        BY <1>3, <1>12, <2>1, <3>1, <4>1 DEF Registered
    <3>2. CASE i \notin DOMAIN outFills
      <4>1. i - Len(outFills) \in DOMAIN run /\ outFills'[i] = run[i - Len(outFills)]
        BY <1>3, <1>7, <1>12, <3>2
      <4>2. outFills'[i].owner = id
        BY <1>7, <4>1 DEF OwnedBy
      <4>3. id \in Int
        BY <1>4 DEF OrderIds
      <4>4. QED
        BY <1>11, <2>1, <4>2, <4>3
    <3>3. QED
      BY <3>1, <3>2
  <2>2. QED
    BY <1>2, <1>18, <2>1
<1>23. Registered'
  BY <1>19, <1>20, <1>21, <1>22 DEF Registered
<1>24. QED
  BY <1>9, <1>10, <1>23

-----------------------------------------------------------------------------
(* Steps that apply a run of fills.                                        *)

\* The engine applies the next n fills, all of order o.
LEMMA RunApplied ==
  ASSUME TypeInv, pc \in {"carry", "walk"}, UNCHANGED <<pc, outFills>>, NEW n, NEW o,
         IsRunOf(outFills, cursor, n, o), cursor' = cursor + n
  PROVE  /\ Unapplied' \subseteq Unapplied /\ Unapplied \subseteq DOMAIN outFills
         /\ \A x : /\ Owed(x)' \in Nat /\ Owed(x) \in Nat
                   /\ x # o => Owed(x) = Owed(x)'
         /\ Owed(o) = Owed(o)' + TotalQty(SubSeq(outFills, cursor + 1, cursor + n))
         /\ \A i \in Unapplied' : Owed(outFills[i].owner)' > 0
<1>1. PICK c, m : c = cursor + n /\ m = Len(outFills)
  OBVIOUS
<1>2. PICK R, S : R = (cursor + 1)..(cursor + n) /\ S = (c + 1)..m
  OBVIOUS
<1>3. /\ cursor \in Nat /\ n \in Nat /\ c \in Nat /\ m \in Nat /\ c <= m
      /\ outFills \in Seq(Fills) /\ DOMAIN outFills = 1..m
  BY <1>1 DEF IsRunOf, TypeInv, TypeOK, SeamTypeOK, EngineTypeOK
<1>4. /\ Unapplied = R \cup S /\ R \cap S = {}
      /\ R \in SUBSET DOMAIN outFills /\ S \in SUBSET DOMAIN outFills
  BY <1>1, <1>2, <1>3 DEF Unapplied
<1>5. Unapplied' = S
  BY <1>1, <1>2 DEF Unapplied
<1>6. \A x : Owed(x) = Qty(outFills, R \cup S, x) /\ Owed(x)' = Qty(outFills, S, x)
  BY <1>4, <1>5 DEF Owed
<1>7. \A x : Qty(outFills, R \cup S, x) = Qty(outFills, R, x) + Qty(outFills, S, x)
  BY <1>3, <1>4, QtyUnion
<1>8. \A x : Qty(outFills, R, x) \in Nat /\ Qty(outFills, S, x) \in Nat
  BY <1>3, <1>4, QtyNat
<1>9. /\ Qty(outFills, R, o) = TotalQty(SubSeq(outFills, cursor + 1, cursor + n))
      /\ \A x : x # o => Qty(outFills, R, x) = 0
  BY <1>2, <1>3, QtyOfRun
<1>10. PICK total : total = TotalQty(SubSeq(outFills, cursor + 1, cursor + n))
  OBVIOUS
<1>11. \A i \in S : Qty(outFills, S, outFills[i].owner) > 0
  BY <1>3, <1>4, QtyNat
<1>12. /\ Unapplied' \subseteq Unapplied /\ Unapplied \subseteq DOMAIN outFills
       /\ \A i \in Unapplied' : Owed(outFills[i].owner)' > 0
  BY <1>4, <1>5, <1>6, <1>11
<1>13. ASSUME NEW x
       PROVE  /\ Owed(x)' \in Nat /\ Owed(x) \in Nat
              /\ x # o => Owed(x) = Owed(x)'
              /\ x = o => Owed(x) = Owed(x)' + total
  <2>1. PICK r, s : r = Qty(outFills, R, x) /\ s = Qty(outFills, S, x)
    OBVIOUS
  <2>2. Owed(x) = r + s /\ Owed(x)' = s
    BY <1>6, <1>7, <2>1
  <2>3. r \in Nat /\ s \in Nat /\ (x # o => r = 0) /\ (x = o => r = total)
    BY <1>8, <1>9, <1>10, <2>1
  <2>4. QED
    BY <2>2, <2>3
<1>14. Owed(o) = Owed(o)' + total
  BY <1>13
<1>15. QED
  BY <1>10, <1>12, <1>13, <1>14

\* What the cursor stands before in the carry prefix.
LEMMA CarryRunIs ==
  ASSUME SeamInv, AtCarry
  PROVE  /\ IsRunOf(outFills, cursor, carryGroups[k].count, CarryOrder)
         /\ cursor + carryGroups[k].count = Before(carryGroups, k + 1)
         /\ k \in DOMAIN carryGroups /\ k + 1 <= Len(carryGroups) + 1
         /\ CarryOrder < FirstNew
<1>1. /\ pc = "carry" /\ pc \in Filling /\ Grouping(carryGroups) /\ Grouping(fillGroups)
      /\ k \in Nat \ {0} /\ k <= Len(carryGroups) /\ Grouped
      /\ cursor = Before(carryGroups, k) /\ cursor \in Nat
  BY ChannelsGroup DEF AtCarry, SeamInv, FillInv, TypeInv, TypeOK, SeamTypeOK, EngineTypeOK,
     Grouped, Filling, Calling
<1>2. k \in DOMAIN carryGroups /\ k + 1 <= Len(carryGroups) + 1 /\ Len(carryGroups) \in Nat
  BY <1>1 DEF Grouping
<1>3. PICK n : n = carryGroups[k].count
  OBVIOUS
<1>4. n \in Nat /\ cursor + n = Before(carryGroups, k + 1)
  BY <1>1, <1>2, <1>3, BeforeSteps DEF Grouping
<1>5. Segment(carryGroups, 0, k) = (cursor + 1)..(cursor + n)
  BY <1>1, <1>4 DEF Segment
<1>6. cursor + n <= Len(outFills)
  <2>1. k + 1 \in 1..(Len(carryGroups) + 1) /\ Len(carryGroups) + 1 \in 1..(Len(carryGroups) + 1)
    BY <1>1, <1>2
  <2>2. /\ Before(carryGroups, k + 1) <= CountOf(carryGroups)
        /\ CountOf(carryGroups) \in Nat
    BY <1>1, <1>2, <2>1, BeforeSteps
  <2>3. CountOf(fillGroups) \in Nat
    <3>1. 0 \in Nat
      OBVIOUS
    <3>2. QED
      BY <1>1, <3>1, SegmentInside
  <2>4. QED
    BY <1>1, <1>4, <2>2, <2>3 DEF Grouped
<1>7. \A i \in Segment(carryGroups, 0, k) : outFills[i].owner = CarryOrder
  BY <1>1, <1>2 DEF Grouped, CarryOrder
<1>8. CarryOrder < FirstNew
  BY <1>1, <1>2 DEF Grouped, CarryOrder
<1>9. IsRunOf(outFills, cursor, n, CarryOrder)
  BY <1>1, <1>4, <1>5, <1>6, <1>7 DEF IsRunOf
<1>10. QED
  BY <1>2, <1>3, <1>4, <1>8, <1>9

\* A carried run leaves the registry owing less.
LEMMA CarryKeeps ==
  ASSUME SeamInv, AtCarry, CarryFault = "none", CarryNext, UNCHANGED fillVars,
         NEW trade, NEW p, pending' = Shrunk(trade, p)
  PROVE  (Minted /\ Grouped /\ Registered)'
<1>1. PICK o, n, total, entry : /\ o = CarryOrder /\ n = carryGroups[k].count
                                /\ total = TotalQty(CarryRun) /\ entry = pending[o]
  OBVIOUS
<1>2. /\ pc = "carry" /\ k' = k + 1 /\ cursor' = cursor + n
      /\ UNCHANGED <<pc, cmds, submitIds, nextOrder, outFills, carryGroups, fillGroups,
                     gi, mirror, orderIndex>>
  BY <1>1 DEF AtCarry, CarryNext, fillVars
<1>3. TypeInv /\ Registered /\ Minted /\ Grouped
  BY <1>2 DEF SeamInv, FillInv
<1>4. /\ IsRunOf(outFills, cursor, n, o) /\ cursor + n = Before(carryGroups, k + 1)
      /\ k + 1 <= Len(carryGroups) + 1 /\ o < FirstNew
  BY <1>1, CarryRunIs
<1>5. /\ o \in DOMAIN pending /\ entry \in PendingEntries /\ n \in Nat \ {0}
      /\ total \in Nat \ {0} /\ total <= entry.intent.qty
      /\ Len(CarryRun) = n
  BY <1>1, <1>3, CarryChecked, DomainAssumption DEF Quantities, CarryEntry
<1>6. entry.intent.qty \in Nat /\ entry.fillsSoFar \in Nat /\ entry.intent \in Intents
  BY <1>5, DomainAssumption DEF PendingEntries, Intents, Quantities
<1>7. /\ DOMAIN pending' = IF total = entry.intent.qty THEN DOMAIN pending \ {o}
                           ELSE DOMAIN pending
      /\ \A x \in DOMAIN pending' : x # o => pending'[x] = pending[x]
  BY <1>1, <1>5 DEF Shrunk, Drop, Put, CarryEntry
<1>8. total # entry.intent.qty =>
        /\ pending'[o].intent.qty = entry.intent.qty - total
        /\ pending'[o].intent.contract = entry.intent.contract
        /\ pending'[o].intent.side = entry.intent.side
        /\ pending'[o].fillsSoFar = entry.fillsSoFar + n
  <2>1. HAVE total # entry.intent.qty
  <2>2. pending'[o] = ShrunkEntry(trade, p)
    BY <1>1, <2>1 DEF Shrunk, Put, CarryEntry
  <2>3. /\ ShrunkEntry(trade, p).intent = [entry.intent EXCEPT !.qty = @ - total]
        /\ ShrunkEntry(trade, p).fillsSoFar = entry.fillsSoFar + n
    BY <1>1, <1>5 DEF ShrunkEntry, CarryEntry
  <2>4. QED
    BY <1>6, <2>2, <2>3 DEF Intents
<1>9. /\ Unapplied' \subseteq Unapplied
      /\ \A x : /\ Owed(x)' \in Nat /\ Owed(x) \in Nat
                /\ x # o => Owed(x) = Owed(x)'
      /\ Owed(o) = Owed(o)' + total
      /\ \A i \in Unapplied' : Owed(outFills[i].owner)' > 0
  BY <1>1, <1>2, <1>3, <1>4, RunApplied DEF CarryRun
<1>10. /\ Awaited' = Awaited /\ Doomed' = Doomed /\ FirstNew' = FirstNew
       /\ \A j : IdOf(j)' = IdOf(j)
       /\ \A x : MirrorOf(x)' = MirrorOf(x)
  BY <1>2 DEF Awaited, Doomed, Withdrawing, FirstNew, IdOf, Ordinal, MirrorOf
<1>11. Agrees(o \in DOMAIN orderIndex, MirrorOf(o), entry.intent, Owed(o),
              entry.fillsSoFar > 0, o \notin Doomed)
  BY <1>1, <1>3, <1>5 DEF Registered
<1>12. ASSUME NEW x \in DOMAIN pending'
       PROVE  Agrees(x \in DOMAIN orderIndex, MirrorOf(x), pending[x].intent, Owed(x),
                     pending[x].fillsSoFar > 0, x \notin Doomed)'
  <2>1. CASE x = o
    <3>1. /\ total # entry.intent.qty
          /\ pending'[o].intent.qty = entry.intent.qty - total
          /\ pending'[o].intent.contract = entry.intent.contract
          /\ pending'[o].intent.side = entry.intent.side
          /\ pending'[o].fillsSoFar > 0
      BY <1>5, <1>6, <1>7, <1>8, <1>12, <2>1
    <3>2. /\ Owed(o)' <= pending'[o].intent.qty <=> Owed(o) <= entry.intent.qty
          /\ Owed(o)' < pending'[o].intent.qty <=> Owed(o) < entry.intent.qty
          /\ pending'[o].intent.qty - Owed(o)' = entry.intent.qty - Owed(o)
          /\ Owed(o) > 0
      BY <1>5, <1>6, <1>9, <3>1
    <3>3. /\ UNCHANGED <<orderIndex, mirror>> /\ Doomed' = Doomed
          /\ MirrorOf(o)' = MirrorOf(o)
      BY <1>2, <1>10
    <3>4. QED
      BY <1>11, <2>1, <3>1, <3>2, <3>3 DEF Agrees
  <2>2. CASE x # o
    <3>1. /\ x \in DOMAIN pending /\ pending'[x] = pending[x] /\ Owed(x)' = Owed(x)
          /\ MirrorOf(x)' = MirrorOf(x) /\ Doomed' = Doomed /\ orderIndex' = orderIndex
      BY <1>2, <1>7, <1>9, <1>10, <2>2
    <3>2. Agrees(x \in DOMAIN orderIndex, MirrorOf(x), pending[x].intent, Owed(x),
                 pending[x].fillsSoFar > 0, x \notin Doomed)
      BY <1>3, <3>1 DEF Registered
    <3>3. QED
      BY <3>1, <3>2
  <2>3. QED
    BY <2>1, <2>2
<1>13. ASSUME NEW j \in Awaited'
       PROVE  Agrees(IdOf(j) \in DOMAIN orderIndex, MirrorOf(IdOf(j)), cmds[j].intent,
                     Owed(IdOf(j)), FALSE, cmds[j].intent.kind = "gtc")'
  <2>1. PICK x : x = IdOf(j)
    OBVIOUS
  <2>2. j \in Awaited /\ IdOf(j)' = x
    BY <1>10, <2>1
  <2>3. x # o
    <3>1. j \in DOMAIN cmds /\ IsSubmission(cmds[j]) /\ pc \in Calling
      BY <1>2, <2>2 DEF Awaited, Calling
    <3>2. FirstNew \in Int /\ IdOf(j) \in OrderIds /\ IdOf(j) >= FirstNew
      BY <1>3, <3>1, IdsAscend
    <3>3. QED
      BY <1>4, <2>1, <3>2 DEF OrderIds
  <2>4. Agrees(x \in DOMAIN orderIndex, MirrorOf(x), cmds[j].intent, Owed(x), FALSE,
               cmds[j].intent.kind = "gtc")
    BY <1>3, <2>1, <2>2 DEF Registered
  <2>5. MirrorOf(x)' = MirrorOf(x) /\ Owed(x)' = Owed(x) /\ UNCHANGED <<cmds, orderIndex>>
    BY <1>2, <1>9, <1>10, <2>3
  <2>6. MirrorOf(IdOf(j))' = MirrorOf(x)' /\ Owed(IdOf(j))' = Owed(x)'
    BY <2>2 DEF MirrorOf, Owed
  <2>7. QED
    BY <2>2, <2>4, <2>5, <2>6
<1>14. \A x \in DOMAIN orderIndex' : x \in DOMAIN pending' \/ \E j \in Awaited' : x = IdOf(j)'
  <2>1. \A x \in DOMAIN orderIndex : x \in DOMAIN pending \/ \E j \in Awaited : x = IdOf(j)
    BY <1>3 DEF Registered
  <2>2. o \in DOMAIN orderIndex => total # entry.intent.qty
    BY <1>5, <1>6, <1>9, <1>11 DEF Agrees
  <2>3. QED
    BY <1>2, <1>7, <1>10, <2>1, <2>2
<1>15. \A i \in Unapplied' :
         outFills'[i].owner < FirstNew' => outFills'[i].owner \in DOMAIN pending'
  <2>1. \A i \in Unapplied' : outFills[i].owner < FirstNew => outFills[i].owner \in DOMAIN pending
    BY <1>3, <1>9 DEF Registered
  <2>2. total = entry.intent.qty => ~ (Owed(o)' > 0)
    BY <1>5, <1>6, <1>9, <1>11 DEF Agrees
  <2>3. \A i \in Unapplied' : outFills[i].owner = o => total # entry.intent.qty
    <3>1. \A i \in Unapplied' : outFills[i].owner = o => Owed(o)' > 0
      BY <1>2, <1>9
    <3>2. QED
      BY <2>2, <3>1
  <2>4. QED
    BY <1>2, <1>7, <1>10, <2>1, <2>3
<1>16. Registered'
  BY <1>12, <1>13, <1>14, <1>15 DEF Registered
<1>17. Minted'
  BY <1>2, <1>3, <1>7, MintedKeeps DEF Calling
<1>18. Grouped'
  <2>1. gi = 1
    BY <1>2, <1>3 DEF Grouped, Filling, Calling
  <2>2. QED
    BY <1>2, <1>3, <1>4, <2>1, GroupedKeeps DEF Filling, Calling
<1>19. QED
  BY <1>16, <1>17, <1>18

\* The fills of the command at the cursor of the walk.
Taken == IF Walking THEN WalkCount ELSE 0

\* The group the next command looks at.
GroupAfter == IF Walking /\ WalkCount # 0 THEN gi + 1 ELSE gi

\* The group of the command at the cursor is its own, and the groups past it
\* are those of later commands.
LEMMA WalkRunIs ==
  ASSUME SeamInv, AtWalk
  PROVE  /\ IsRunOf(outFills, cursor, Taken, IdOf(k))
         /\ GroupAfter \in Nat \ {0} /\ GroupAfter <= Len(fillGroups) + 1
         /\ cursor + Taken = CountOf(carryGroups) + Before(fillGroups, GroupAfter)
         /\ \A g \in DOMAIN fillGroups : g < GroupAfter <=> fillGroups[g].cmd < k + 1
<1>1. PICK a, m : a = CountOf(carryGroups) /\ m = Len(fillGroups)
  OBVIOUS
<1>2. /\ pc = "walk" /\ Grouped /\ Grouping(fillGroups) /\ Grouping(carryGroups)
      /\ k \in Nat \ {0} /\ k \in DOMAIN cmds /\ gi \in Nat \ {0}
      /\ cmds \in Seq(Commands) /\ outFills \in Seq(Fills) /\ fillGroups \in Seq(FillGroups)
  BY ChannelsGroup DEF AtWalk, SeamInv, FillInv, TypeInv, TypeOK, SeamTypeOK,
     EngineTypeOK
<1>3. /\ gi <= m + 1 /\ cursor = a + Before(fillGroups, gi)
      /\ \A g \in DOMAIN fillGroups : g < gi <=> fillGroups[g].cmd < k
      /\ \A g, h \in DOMAIN fillGroups : g < h => fillGroups[g].cmd < fillGroups[h].cmd
  BY <1>1, <1>2 DEF Grouped, Filling, Calling
<1>4. /\ m \in Nat /\ a \in Nat /\ DOMAIN fillGroups = 1..m
      /\ \A g \in 1..(m + 1) : Before(fillGroups, g) \in Nat
      /\ a + Before(fillGroups, m + 1) = Len(outFills)
      /\ \A g, h \in 1..(m + 1) : g <= h => Before(fillGroups, g) <= Before(fillGroups, h)
  <2>1. a \in Nat
    <3>1. 0 \in Nat
      OBVIOUS
    <3>2. QED
      BY <1>1, <1>2, <3>1, SegmentInside
  <2>2. a + CountOf(fillGroups) = Len(outFills)
    BY <1>1, <1>2 DEF Grouped, Filling, Calling
  <2>3. m \in Nat /\ DOMAIN fillGroups = 1..m
    BY <1>1, <1>2 DEF Grouping
  <2>4. /\ \A g \in 1..(m + 1) : Before(fillGroups, g) \in Nat
        /\ CountOf(fillGroups) = Before(fillGroups, m + 1)
        /\ \A g, h \in 1..(m + 1) : g <= h => Before(fillGroups, g) <= Before(fillGroups, h)
    BY <1>1, <1>2, BeforeSteps
  <2>5. QED
    BY <2>1, <2>2, <2>3, <2>4
<1>5. \A g \in 1..m : /\ fillGroups[g].cmd \in Nat
                      /\ fillGroups[g].count \in Nat \ {0}
                      /\ fillGroups[g].cmd \in DOMAIN cmds
                      /\ IsSubmission(cmds[fillGroups[g].cmd])
                      /\ \A i \in Segment(fillGroups, a, g) :
                           outFills[i].owner = IdOf(fillGroups[g].cmd)
  <2>1. \A g \in 1..m : fillGroups[g] \in FillGroups
    BY <1>1, <1>2
  <2>2. QED
    BY <1>1, <1>2, <1>4, <2>1 DEF Grouped, FillGroups, Filling, Calling
<1>6. CASE gi <= m /\ fillGroups[gi].cmd = k
  <2>1. gi \in 1..m /\ gi + 1 \in 1..(m + 1) /\ m + 1 \in 1..(m + 1) /\ gi + 1 <= m + 1
    BY <1>2, <1>4, <1>6
  <2>2. PICK n : n = fillGroups[gi].count
    OBVIOUS
  <2>3. Walking /\ WalkCount = n /\ Taken = n /\ n \in Nat \ {0}
    BY <1>1, <1>5, <1>6, <2>1, <2>2 DEF Walking, WalkCount, Taken
  <2>4. GroupAfter = gi + 1
    BY <2>3 DEF GroupAfter
  <2>5. Before(fillGroups, gi + 1) = Before(fillGroups, gi) + n
    BY <1>2, <1>4, <2>1, <2>2, BeforeSteps
  <2>6. cursor + n = a + Before(fillGroups, gi + 1)
    BY <1>3, <1>4, <2>1, <2>3, <2>5
  <2>7. Segment(fillGroups, a, gi) = (cursor + 1)..(cursor + n)
    BY <1>3, <2>6 DEF Segment
  <2>8. cursor \in Nat /\ cursor + n <= Len(outFills)
    <3>1. gi \in 1..(m + 1)
      BY <1>4, <2>1
    <3>2. /\ Before(fillGroups, gi) \in Nat
          /\ Before(fillGroups, gi + 1) <= Before(fillGroups, m + 1)
          /\ Before(fillGroups, gi + 1) \in Nat /\ Before(fillGroups, m + 1) \in Nat
      BY <1>4, <2>1, <3>1
    <3>3. QED
      BY <1>3, <1>4, <2>6, <3>2
  <2>9. IsRunOf(outFills, cursor, n, IdOf(k))
    BY <1>5, <1>6, <2>1, <2>3, <2>7, <2>8 DEF IsRunOf
  <2>10. \A g \in 1..m : g < gi + 1 <=> fillGroups[g].cmd < k + 1
    <3>1. ASSUME NEW g \in 1..m
          PROVE  g < gi + 1 <=> fillGroups[g].cmd < k + 1
      <4>1. g \in DOMAIN fillGroups /\ gi \in DOMAIN fillGroups
        BY <1>4, <2>1
      <4>2. /\ g < gi <=> fillGroups[g].cmd < k
            /\ gi < g => k < fillGroups[g].cmd
        BY <1>3, <1>6, <4>1
      <4>3. fillGroups[g].cmd \in Nat
        BY <1>5
      <4>4. g = gi => fillGroups[g].cmd = k
        BY <1>6
      <4>5. PICK c : c = fillGroups[g].cmd
        OBVIOUS
      <4>6. /\ c \in Nat /\ k \in Nat /\ g \in Nat /\ gi \in Nat
            /\ (g < gi <=> c < k) /\ (gi < g => k < c) /\ (g = gi => c = k)
        BY <1>2, <1>4, <4>1, <4>2, <4>3, <4>4, <4>5
      <4>7. QED
        BY <4>5, <4>6
    <3>2. QED
      BY <3>1
  <2>11. QED
    BY <1>1, <1>2, <1>4, <2>1, <2>3, <2>4, <2>6, <2>9, <2>10
<1>7. CASE ~ (gi <= m /\ fillGroups[gi].cmd = k)
  <2>1. Taken = 0
    BY <1>1, <1>7 DEF Taken, WalkCount
  <2>2. WalkCount = 0
    BY <1>1, <1>7 DEF WalkCount
  <2>3. gi \in 1..(m + 1) /\ m + 1 \in 1..(m + 1)
    BY <1>2, <1>3, <1>4
  <2>4. cursor \in Nat /\ cursor <= Len(outFills)
    BY <1>2, <1>3, <1>4, <2>3
  <2>5. cursor + Taken = cursor /\ GroupAfter = gi
    BY <2>1, <2>2, <2>4 DEF GroupAfter
  <2>6. IsRunOf(outFills, cursor, 0, IdOf(k))
    BY <2>4 DEF IsRunOf
  <2>7. \A g \in 1..m : fillGroups[g].cmd # k
    <3>1. ASSUME NEW g \in 1..m, fillGroups[g].cmd = k
          PROVE  FALSE
      <4>1. g \in DOMAIN fillGroups /\ (g < gi <=> fillGroups[g].cmd < k)
        BY <1>3, <1>4
      <4>2. ~ (g < gi) /\ g \in Nat
        BY <1>2, <1>4, <3>1, <4>1
      <4>3. gi \in DOMAIN fillGroups /\ gi < g
        BY <1>2, <1>4, <1>7, <2>3, <3>1, <4>2
      <4>4. fillGroups[gi].cmd < fillGroups[g].cmd /\ (gi < gi <=> fillGroups[gi].cmd < k)
        BY <1>3, <4>1, <4>3
      <4>5. QED
        BY <1>2, <3>1, <4>4
    <3>2. QED
      BY <3>1
  <2>8. \A g \in 1..m : g < gi <=> fillGroups[g].cmd < k + 1
    <3>1. ASSUME NEW g \in 1..m
          PROVE  g < gi <=> fillGroups[g].cmd < k + 1
      <4>1. g < gi <=> fillGroups[g].cmd < k
        BY <1>3, <1>4
      <4>2. fillGroups[g].cmd \in Nat /\ fillGroups[g].cmd # k
        BY <1>5, <2>7
      <4>3. QED
        BY <1>2, <4>1, <4>2
    <3>2. QED
      BY <3>1
  <2>9. QED
    BY <1>1, <1>2, <1>3, <1>4, <2>1, <2>4, <2>5, <2>6, <2>8
<1>8. QED
  BY <1>6, <1>7

\* A step of the walk moves both cursors on.
LEMMA WalkGroupIs ==
  ASSUME SeamInv, AtWalk, WalkNext
  PROVE  /\ IsRunOf(outFills, cursor, Taken, IdOf(k))
         /\ cursor' = cursor + Taken
         /\ gi' \in Nat \ {0} /\ gi' <= Len(fillGroups) + 1
         /\ cursor' = CountOf(carryGroups) + Before(fillGroups, gi')
         /\ \A g \in DOMAIN fillGroups : g < gi' <=> fillGroups[g].cmd < k'
<1>1. cursor' = cursor + Taken /\ gi' = GroupAfter /\ k' = k + 1
  BY DEF WalkNext, Taken, GroupAfter
<1>2. QED
  BY <1>1, WalkRunIs

\* What is left after a step of the walk is of later submissions.
LEMMA WalkLeaves ==
  ASSUME SeamInv, AtWalk, WalkNext
  PROVE  /\ Grouped'
         /\ \A i \in Unapplied' : \E j \in DOMAIN cmds :
              k < j /\ IsSubmission(cmds[j]) /\ outFills[i].owner = IdOf(j)
<1>1. PICK a, m, h : a = CountOf(carryGroups) /\ m = Len(fillGroups) /\ h = gi'
  OBVIOUS
<1>2. /\ pc = "walk" /\ Grouped /\ Grouping(fillGroups) /\ Grouping(carryGroups) /\ TypeInv
      /\ k \in Nat \ {0} /\ k' = k + 1
      /\ UNCHANGED <<pc, cmds, submitIds, nextOrder, outFills, carryGroups, fillGroups>>
      /\ outFills \in Seq(Fills) /\ pc \in Filling /\ pc' \in Filling
      /\ fillGroups \in Seq(FillGroups)
  BY ChannelsGroup DEF AtWalk, WalkNext, SeamInv, FillInv, TypeInv, TypeOK, SeamTypeOK,
     EngineTypeOK, Filling, Calling
<1>3. /\ h \in Nat \ {0} /\ h <= m + 1
      /\ cursor' = a + Before(fillGroups, h)
      /\ \A g \in DOMAIN fillGroups : g < h <=> fillGroups[g].cmd < k'
  BY <1>1, WalkGroupIs
<1>4. Grouped'
  BY <1>1, <1>2, <1>3, GroupedKeeps DEF Filling, Calling
<1>5. /\ m \in Nat /\ DOMAIN fillGroups = 1..m /\ a \in Nat
      /\ \A g, x \in 1..(m + 1) : g <= x => Before(fillGroups, g) <= Before(fillGroups, x)
      /\ \A g \in 1..(m + 1) : Before(fillGroups, g) \in Nat
      /\ \A g \in DOMAIN carryGroups : \A i \in Segment(carryGroups, 0, g) :
           i \in Int /\ 0 < i /\ i <= 0 + a
  <2>1. 0 \in Nat
    OBVIOUS
  <2>2. /\ a \in Nat
        /\ \A g \in DOMAIN carryGroups : \A i \in Segment(carryGroups, 0, g) :
             i \in Int /\ 0 < i /\ i <= 0 + a
    BY <1>1, <1>2, <2>1, SegmentInside
  <2>3. m \in Nat /\ DOMAIN fillGroups = 1..m
    BY <1>1, <1>2 DEF Grouping
  <2>4. /\ \A g, x \in 1..(m + 1) : g <= x => Before(fillGroups, g) <= Before(fillGroups, x)
        /\ \A g \in 1..(m + 1) : Before(fillGroups, g) \in Nat
    BY <1>1, <1>2, BeforeSteps
  <2>5. QED
    BY <2>2, <2>3, <2>4
<1>6. PICK c : c = a + Before(fillGroups, h) /\ c \in Nat /\ a <= c
  <2>1. h \in 1..(m + 1)
    BY <1>3, <1>5
  <2>2. Before(fillGroups, h) \in Nat
    BY <1>5, <2>1
  <2>3. QED
    BY <1>5, <2>2
<1>7. Unapplied' = (c + 1)..Len(outFills)
  BY <1>2, <1>3, <1>6 DEF Unapplied
<1>8. ASSUME NEW i \in (c + 1)..Len(outFills)
      PROVE  \E j \in DOMAIN cmds :
               k < j /\ IsSubmission(cmds[j]) /\ outFills[i].owner = IdOf(j)
  <2>1. i \in DOMAIN outFills /\ i \in Int /\ c < i
    BY <1>2, <1>6
  <2>2. PICK g \in DOMAIN fillGroups : /\ i \in Segment(fillGroups, a, g)
                                       /\ outFills[i].owner = IdOf(fillGroups[g].cmd)
    <3>1. \A g \in DOMAIN carryGroups : i \notin Segment(carryGroups, 0, g)
      BY <1>5, <1>6, <2>1
    <3>2. QED
      BY <1>1, <1>2, <2>1, <3>1, OwnersNamed
  <2>3. g \in 1..(m + 1) /\ g + 1 \in 1..(m + 1) /\ h \in 1..(m + 1)
    BY <1>3, <1>5
  <2>4. i <= a + Before(fillGroups, g + 1) /\ Before(fillGroups, g + 1) \in Nat
    BY <1>5, <2>2, <2>3 DEF Segment
  <2>5. ~ (g + 1 <= h)
    <3>1. Before(fillGroups, h) \in Nat
      BY <1>5, <2>3
    <3>2. ~ (Before(fillGroups, g + 1) <= Before(fillGroups, h))
      BY <1>5, <1>6, <2>1, <2>4, <3>1
    <3>3. QED
      BY <1>5, <2>3, <3>2
  <2>6. ~ (g < h)
    BY <1>3, <1>5, <2>3, <2>5
  <2>7. ~ (fillGroups[g].cmd < k + 1)
    BY <1>2, <1>3, <2>6
  <2>8. /\ fillGroups[g].cmd \in Nat /\ fillGroups[g].cmd \in DOMAIN cmds
        /\ IsSubmission(cmds[fillGroups[g].cmd])
    <3>1. fillGroups[g] \in FillGroups
      BY <1>2
    <3>2. QED
      BY <1>2, <3>1 DEF Grouped, FillGroups
  <2>9. k < fillGroups[g].cmd
    BY <1>2, <2>7, <2>8
  <2>10. QED
    BY <2>2, <2>8, <2>9
<1>9. QED
  BY <1>4, <1>7, <1>8

\* A run of fills trades something if there is one.
LEMMA RunTotal ==
  ASSUME NEW run \in Seq(Fills)
  PROVE  TotalQty(run) \in Nat /\ (TotalQty(run) > 0 <=> Len(run) > 0)
<1>1. PICK f, n : f = [i \in DOMAIN run |-> run[i].qty] /\ n = Len(run)
  OBVIOUS
<1>2. DOMAIN run = 1..n /\ n \in Nat
  BY <1>1
<1>3. TotalQty(run) = SumFunctionOnSet(f, 1..n)
  BY <1>1, <1>2 DEF TotalQty, SumOver
<1>4. IsFiniteSet(1..n) /\ \A i \in 1..n : f[i] \in Nat \ {0}
  BY <1>1, <1>2, RunSizes
<1>5. CASE n = 0
  <2>1. 1..n = {}
    BY <1>5
  <2>2. TotalQty(run) = 0
    BY <1>3, <2>1, SumEmpty
  <2>3. QED
    BY <1>1, <1>5, <2>2
<1>6. CASE n # 0
  <2>1. 1 \in 1..n
    BY <1>2, <1>6
  <2>2. SumFunctionOnSet(f, 1..n) \in Nat \ {0}
    BY <1>4, <2>1, SumPositive
  <2>3. n > 0
    BY <1>2, <1>6
  <2>4. QED
    BY <1>1, <1>3, <2>2, <2>3
<1>7. QED
  BY <1>5, <1>6

\* What the command at the cursor takes, and whether its order then rests.
TakenQty == TotalQty(SubSeq(outFills, cursor + 1, cursor + Taken))
Stays    == Walking /\ WalkIntent.kind = "gtc" /\ TakenQty < WalkIntent.qty

\* The registry after a command: a withdrawn order is out, a remainder is in.
Entered ==
  /\ DOMAIN pending' = DOMAIN AfterCancel \cup (IF Stays THEN {WalkOrder} ELSE {})
  /\ \A o \in DOMAIN AfterCancel : (Walking => o # WalkOrder) => pending'[o] = pending[o]
  /\ Stays => /\ pending'[WalkOrder].intent = [WalkIntent EXCEPT !.qty = @ - TakenQty]
              /\ pending'[WalkOrder].fillsSoFar = Taken

\* Withdrawing an order leaves the others as they are.
LEMMA AfterCancelIs ==
  /\ DOMAIN AfterCancel = IF IsLifecycle(cmds[k]) THEN DOMAIN pending \ {cmds[k].order}
                          ELSE DOMAIN pending
  /\ \A o \in DOMAIN AfterCancel : AfterCancel[o] = pending[o]
  BY DEF AfterCancel, Drop

\* Every step of the walk keeps the registry so.
LEMMA WalkEnters ==
  ASSUME SeamInv, WalkCancel \/ WalkRestsOpen \/ WalkRestsClose \/ WalkOpens \/ WalkCloses
  PROVE  AtWalk /\ WalkNext /\ Entered
<1>1. AtWalk /\ WalkNext
  BY DEF WalkCancel, WalkRestsOpen, WalkRestsClose, WalkOpens, WalkCloses, Walking
<1>2. CASE WalkCancel
  <2>1. ~ Stays /\ pending' = AfterCancel
    BY <1>2 DEF WalkCancel, Stays
  <2>2. QED
    BY <1>1, <2>1, AfterCancelIs DEF Entered
<1>3. CASE WalkRestsOpen \/ WalkRestsClose
  <2>1. PICK trade : pending' = Put(AfterCancel, WalkOrder,
                                    RestingEntry(WalkIntent.qty, trade, 0, 0))
    BY <1>3 DEF WalkRestsOpen, WalkRestsClose
  <2>2. Walking /\ WalkFault = "none" /\ WalkCount = 0 /\ Taken = 0
    BY <1>3 DEF WalkRestsOpen, WalkRestsClose, Taken
  <2>3. WalkIntent.kind = "gtc"
    BY <2>2 DEF WalkFault
  <2>4. WalkIntent \in Intents
    BY <2>2, WalkChecked DEF SeamInv, FillInv
  <2>5. WalkIntent.qty \in Nat \ {0}
    BY <2>4, DomainAssumption DEF Intents, Quantities
  <2>6. TakenQty = 0
    <3>1. outFills \in Seq(Fills) /\ cursor \in Nat
      BY DEF SeamInv, FillInv, TypeInv, TypeOK, SeamTypeOK, EngineTypeOK
    <3>2. PICK none : none = SubSeq(outFills, cursor + 1, cursor + Taken)
      OBVIOUS
    <3>3. none \in Seq(Fills) /\ Len(none) = 0
      BY <2>2, <3>1, <3>2
    <3>4. TotalQty(none) \in Nat /\ (TotalQty(none) > 0 <=> Len(none) > 0)
      BY <3>3, RunTotal
    <3>5. TakenQty = TotalQty(none)
      BY <3>2 DEF TakenQty
    <3>6. QED
      BY <3>3, <3>4, <3>5
  <2>7. Stays
    BY <2>2, <2>3, <2>5, <2>6 DEF Stays
  <2>8. [WalkIntent EXCEPT !.qty = WalkIntent.qty] = [WalkIntent EXCEPT !.qty = @ - TakenQty]
    BY <2>5, <2>6
  <2>9. QED
    BY <1>1, <2>1, <2>2, <2>7, <2>8, AfterCancelIs DEF Entered, Put, RestingEntry
<1>4. CASE WalkOpens \/ WalkCloses
  <2>1. PICK trade, p : pending' = WithRemainder(trade, p)
    BY <1>4 DEF WalkOpens, WalkCloses
  <2>2. Walking /\ WalkFault = "none" /\ WalkCount # 0 /\ Taken = WalkCount
    BY <1>4 DEF WalkOpens, WalkCloses, Taken
  <2>3. TakenQty = TotalQty(WalkRun)
    BY <2>2 DEF TakenQty, WalkRun
  <2>4. WalkIntent \in Intents /\ TakenQty \in Quantities
    BY <2>2, <2>3, WalkChecked DEF SeamInv, FillInv
  <2>5. WalkIntent.qty \in Nat /\ TakenQty \in Nat
    BY <2>4, DomainAssumption DEF Intents, Quantities
  <2>6. Stays <=> WalkIntent.kind = "gtc" /\ WalkIntent.qty - TakenQty > 0
    BY <2>2, <2>5 DEF Stays
  <2>7. CASE Stays
    <3>1. pending' = Put(AfterCancel, WalkOrder,
                         RestingEntry(WalkIntent.qty - TakenQty, trade, p, WalkCount))
      BY <2>1, <2>3, <2>6, <2>7 DEF WithRemainder
    <3>2. QED
      BY <1>1, <2>2, <2>7, <3>1, AfterCancelIs DEF Entered, Put, RestingEntry
  <2>8. CASE ~ Stays
    <3>1. pending' = AfterCancel
      BY <2>1, <2>3, <2>6, <2>8 DEF WithRemainder
    <3>2. QED
      BY <1>1, <2>8, <3>1, AfterCancelIs DEF Entered
  <2>9. QED
    BY <2>7, <2>8
<1>5. QED
  BY <1>2, <1>3, <1>4

\* The ids up to and past the command at the cursor of the walk.
LEMMA WalkIds ==
  ASSUME SeamInv, AtWalk
  PROVE  /\ FirstNew \in Int
         /\ \A o \in DOMAIN pending : o \in Int /\ (Walking => o < WalkOrder)
         /\ \A o \in DOMAIN pending : o < FirstNew + Ordinal(k)
         /\ Walking => WalkOrder \in Int /\ WalkOrder >= FirstNew
                       /\ WalkOrder < FirstNew + Ordinal(k)
         /\ IsLifecycle(cmds[k]) => cmds[k].order < FirstNew
         /\ \A j \in DOMAIN cmds : k < j /\ IsSubmission(cmds[j]) =>
              /\ IdOf(j) \in Int /\ IdOf(j) >= FirstNew
              /\ Walking => IdOf(j) # WalkOrder
<1>1. /\ pc = "walk" /\ pc \in Calling /\ TypeInv /\ Minted /\ k \in Nat \ {0}
      /\ k \in DOMAIN cmds /\ IsMap(pending, OrderIds, PendingEntries)
      /\ WalkOrder = IdOf(k)
  BY DEF AtWalk, SeamInv, FillInv, TypeInv, TypeOK, SeamTypeOK, EngineTypeOK, Calling,
     WalkOrder, IdOf
<1>2. /\ FirstNew \in Int
      /\ \A j \in DOMAIN cmds : IsSubmission(cmds[j]) =>
           /\ IdOf(j) = FirstNew + Ordinal(j) - 1
           /\ IdOf(j) \in OrderIds /\ IdOf(j) >= FirstNew
      /\ \A i, j \in DOMAIN cmds : IsSubmission(cmds[i]) /\ IsSubmission(cmds[j]) =>
           (IdOf(j) < IdOf(i) <=> j < i)
  BY <1>1, IdsAscend
<1>3. /\ Ordinal(k) \in Nat /\ Ordinal(k - 1) \in Nat
      /\ Ordinal(k) = IF IsSubmission(cmds[k]) THEN Ordinal(k - 1) + 1 ELSE Ordinal(k - 1)
  <2>1. k \in Int /\ k - 1 \in Int
    BY <1>1
  <2>2. QED
    BY <1>1, <2>1, PrefixFinite, OrdinalSteps
<1>4. \A o \in DOMAIN pending : o \in Int /\ o < FirstNew + Ordinal(k - 1)
  BY <1>1 DEF Minted, NextId, IsMap, OrderIds
<1>5. Walking => /\ WalkOrder = FirstNew + Ordinal(k) - 1 /\ WalkOrder >= FirstNew
                 /\ Ordinal(k) = Ordinal(k - 1) + 1
  BY <1>1, <1>2, <1>3 DEF Walking
<1>6. IsLifecycle(cmds[k]) => cmds[k].order < FirstNew
  BY <1>1 DEF Minted
<1>7. ASSUME NEW j \in DOMAIN cmds, k < j, IsSubmission(cmds[j])
      PROVE  /\ IdOf(j) \in Int /\ IdOf(j) >= FirstNew
             /\ Walking => IdOf(j) # WalkOrder
  <2>1. IdOf(j) \in Int /\ IdOf(j) >= FirstNew
    BY <1>2, <1>7 DEF OrderIds
  <2>2. Walking => IdOf(k) < IdOf(j)
    BY <1>1, <1>2, <1>7 DEF Walking
  <2>3. QED
    BY <1>1, <2>1, <2>2
<1>8. /\ \A o \in DOMAIN pending : o \in Int /\ (Walking => o < WalkOrder)
      /\ \A o \in DOMAIN pending : o < FirstNew + Ordinal(k)
      /\ Walking => WalkOrder \in Int /\ WalkOrder < FirstNew + Ordinal(k)
  BY <1>2, <1>3, <1>4, <1>5
<1>9. QED
  BY <1>2, <1>5, <1>6, <1>7, <1>8

\* A command of the walk: its order joins the registry if it rests, the order it
\* withdraws leaves it.
LEMMA WalkKeeps ==
  ASSUME SeamInv, AtWalk, WalkNext, Entered, UNCHANGED fillVars
  PROVE  (Minted /\ Grouped /\ Registered)'
<1>1. PICK n, total, d : n = Taken /\ total = TakenQty /\ d = cmds[k].order
  OBVIOUS
<1>2. PICK id, intent : id = WalkOrder /\ intent = WalkIntent
  OBVIOUS
<1>3. /\ pc = "walk" /\ k' = k + 1 /\ k \in Nat \ {0} /\ k \in DOMAIN cmds
      /\ TypeInv /\ Registered /\ Minted /\ Grouped
      /\ cmds \in Seq(Commands) /\ outFills \in Seq(Fills)
      /\ UNCHANGED <<pc, cmds, submitIds, nextOrder, outFills, mirror, orderIndex>>
      /\ IdOf(k) = id
      /\ \A j \in DOMAIN cmds : j \in Nat
  BY <1>2 DEF AtWalk, WalkNext, SeamInv, FillInv, TypeInv, TypeOK, SeamTypeOK, fillVars,
     WalkOrder, IdOf
<1>4. /\ IsRunOf(outFills, cursor, n, id) /\ cursor' = cursor + n
  BY <1>1, <1>3, WalkGroupIs
<1>5. /\ Unapplied' \subseteq Unapplied
      /\ \A x : /\ Owed(x)' \in Nat /\ Owed(x) \in Nat
                /\ x # id => Owed(x) = Owed(x)'
      /\ Owed(id) = Owed(id)' + total
  BY <1>1, <1>3, <1>4, RunApplied DEF TakenQty
<1>6. n \in Nat /\ total \in Nat /\ (n > 0 <=> total > 0)
  <2>1. /\ SubSeq(outFills, cursor + 1, cursor + n) \in Seq(Fills)
        /\ Len(SubSeq(outFills, cursor + 1, cursor + n)) = n
        /\ n \in Nat
    BY <1>3, <1>4, RunType DEF IsRunOf
  <2>2. PICK run : run = SubSeq(outFills, cursor + 1, cursor + n)
    OBVIOUS
  <2>3. TotalQty(run) \in Nat /\ (TotalQty(run) > 0 <=> Len(run) > 0)
    BY <2>1, <2>2, RunTotal
  <2>4. total = TotalQty(run)
    BY <1>1, <2>2 DEF TakenQty
  <2>5. QED
    BY <2>1, <2>2, <2>3, <2>4
<1>7. /\ Grouped'
      /\ \A i \in Unapplied' : \E j \in DOMAIN cmds :
           k < j /\ IsSubmission(cmds[j]) /\ outFills[i].owner = IdOf(j)
  BY WalkLeaves
<1>8. /\ FirstNew \in Int /\ FirstNew' = FirstNew
      /\ \A j : IdOf(j)' = IdOf(j)
      /\ \A x : MirrorOf(x)' = MirrorOf(x)
  BY <1>3, WalkIds DEF FirstNew, IdOf, Ordinal, MirrorOf
<1>9. /\ \A o \in DOMAIN pending : o \in Int /\ (Walking => o < id)
      /\ \A o \in DOMAIN pending : o < FirstNew + Ordinal(k)
      /\ Walking => id \in Int /\ id >= FirstNew /\ id < FirstNew + Ordinal(k)
      /\ IsLifecycle(cmds[k]) => d < FirstNew
      /\ \A j \in DOMAIN cmds : k < j /\ IsSubmission(cmds[j]) =>
           IdOf(j) \in Int /\ IdOf(j) >= FirstNew /\ (Walking => IdOf(j) # id)
  BY <1>1, <1>2, WalkIds
<1>10. Walking <=> IsSubmission(cmds[k])
  BY DEF Walking
<1>11. /\ Awaited' = Awaited \ {k} /\ (Walking => k \in Awaited)
       /\ Withdrawing' = Withdrawing \ {k} /\ (IsLifecycle(cmds[k]) => k \in Withdrawing)
  BY <1>3, <1>10 DEF Awaited, Withdrawing
<1>12. /\ DOMAIN pending' = (IF IsLifecycle(cmds[k]) THEN DOMAIN pending \ {d}
                             ELSE DOMAIN pending) \cup (IF Stays THEN {id} ELSE {})
       /\ \A o \in DOMAIN pending : o \in DOMAIN pending' => pending'[o] = pending[o]
       /\ \A o \in DOMAIN pending : Walking => o # id
  <2>1. \A o \in DOMAIN pending : Walking => o # id
    BY <1>9
  <2>2. QED
    BY <1>1, <1>2, <2>1, AfterCancelIs DEF Entered, Stays
<1>13. Walking => Owed(id)' = 0
  <2>1. SUFFICES ASSUME Walking PROVE Owed(id)' = 0
    OBVIOUS
  <2>2. Unapplied' \in SUBSET DOMAIN outFills
    BY <1>1, <1>3, <1>4, RunApplied
  <2>3. \A i \in Unapplied' : outFills[i].owner # id
    BY <1>7, <1>9, <2>1
  <2>4. Owed(id)' = Qty(outFills, Unapplied', id)
    BY <1>3 DEF Owed
  <2>5. /\ Qty(outFills, Unapplied', id) \in Nat
        /\ Qty(outFills, Unapplied', id) > 0 <=> \E i \in Unapplied' : outFills[i].owner = id
    BY <1>3, <2>2, QtyNat
  <2>6. QED
    BY <2>3, <2>4, <2>5
<1>14. Walking => Agrees(id \in DOMAIN orderIndex, MirrorOf(id), intent, total, FALSE,
                         intent.kind = "gtc")
  <2>1. Walking => Owed(id) = total
    BY <1>5, <1>6, <1>13
  <2>2. Walking => Agrees(IdOf(k) \in DOMAIN orderIndex, MirrorOf(IdOf(k)), cmds[k].intent,
                          Owed(IdOf(k)), FALSE, cmds[k].intent.kind = "gtc")
    BY <1>3, <1>11 DEF Registered
  <2>3. QED
    BY <1>2, <1>3, <2>1, <2>2 DEF WalkIntent
<1>15. \A j \in Withdrawing : cmds[j].order < FirstNew
  BY <1>3 DEF Withdrawing, Minted, Calling
<1>16. \A o : o # d \/ ~ IsLifecycle(cmds[k]) => (o \in Doomed' <=> o \in Doomed)
  BY <1>1, <1>3, <1>11 DEF Doomed, Withdrawing
<1>17. ASSUME NEW o \in DOMAIN pending'
       PROVE  Agrees(o \in DOMAIN orderIndex, MirrorOf(o), pending[o].intent, Owed(o),
                     pending[o].fillsSoFar > 0, o \notin Doomed)'
  <2>1. CASE Stays /\ o = id
    <3>1. /\ Walking /\ intent.kind = "gtc" /\ total < intent.qty
          /\ pending'[id].intent = [intent EXCEPT !.qty = @ - total]
          /\ pending'[id].fillsSoFar = n
      BY <1>1, <1>2, <2>1 DEF Stays, Entered
    <3>2. intent \in Intents /\ intent.qty \in Nat
      <4>1. cmds[k] \in Commands /\ intent = cmds[k].intent /\ IsSubmission(cmds[k])
        BY <1>2, <1>3, <1>10, <3>1 DEF WalkIntent
      <4>2. intent \in Intents
        BY <4>1, CommandParts
      <4>3. QED
        BY <4>2, DomainAssumption DEF Intents, Quantities
    <3>3. /\ pending'[id].intent.qty = intent.qty - total
          /\ pending'[id].intent.contract = intent.contract
          /\ pending'[id].intent.side = intent.side
      BY <3>1, <3>2 DEF Intents
    <3>4. /\ id \in DOMAIN orderIndex
          /\ MirrorOf(id).contract = intent.contract
          /\ MirrorOf(id).side = intent.side
          /\ MirrorOf(id).remaining = intent.qty - total
          /\ MirrorOf(id).firstFillDone = (FALSE \/ total > 0)
      BY <1>14, <3>1 DEF Agrees
    <3>5. id \notin Doomed'
      <4>1. \A j \in Withdrawing' : cmds[j].order < FirstNew
        BY <1>11, <1>15
      <4>2. ~ (id < FirstNew)
        BY <1>8, <1>9, <3>1
      <4>3. QED
        BY <1>3, <4>1, <4>2 DEF Doomed
    <3>6. /\ Owed(id)' = 0 /\ MirrorOf(id)' = MirrorOf(id) /\ orderIndex' = orderIndex
      BY <1>3, <1>8, <1>13, <3>1
    <3>7. /\ 0 <= intent.qty - total /\ 0 < intent.qty - total
          /\ intent.qty - total = (intent.qty - total) - 0
          /\ (FALSE \/ total > 0) = (n > 0 \/ 0 > 0)
      BY <1>6, <3>1, <3>2
    <3>8. QED
      BY <2>1, <3>1, <3>3, <3>4, <3>5, <3>6, <3>7 DEF Agrees
  <2>2. CASE ~ (Stays /\ o = id)
    <3>1. o \in DOMAIN pending /\ (IsLifecycle(cmds[k]) => o # d)
      BY <1>12, <2>2
    <3>2. Owed(o)' = Owed(o)
      <4>1. CASE Walking
        BY <1>5, <1>12, <3>1, <4>1
      <4>2. CASE ~ Walking
        <5>1. n = 0
          BY <1>1, <4>2 DEF Taken
        <5>2. Owed(id) = Owed(id)'
          BY <1>5, <1>6, <5>1
        <5>3. QED
          BY <1>5, <5>2
      <4>3. QED
        BY <4>1, <4>2
    <3>3. /\ pending'[o] = pending[o] /\ Owed(o)' = Owed(o) /\ MirrorOf(o)' = MirrorOf(o)
          /\ (o \in Doomed' <=> o \in Doomed) /\ orderIndex' = orderIndex
      BY <1>3, <1>8, <1>12, <1>16, <1>17, <3>1, <3>2
    <3>4. Agrees(o \in DOMAIN orderIndex, MirrorOf(o), pending[o].intent, Owed(o),
                 pending[o].fillsSoFar > 0, o \notin Doomed)
      BY <1>3, <3>1 DEF Registered
    <3>5. QED
      BY <3>3, <3>4
  <2>3. QED
    BY <2>1, <2>2
<1>18. ASSUME NEW j \in Awaited'
       PROVE  Agrees(IdOf(j) \in DOMAIN orderIndex, MirrorOf(IdOf(j)), cmds[j].intent,
                     Owed(IdOf(j)), FALSE, cmds[j].intent.kind = "gtc")'
  <2>1. PICK x : x = IdOf(j)
    OBVIOUS
  <2>2. /\ j \in Awaited /\ j \in DOMAIN cmds /\ IsSubmission(cmds[j]) /\ k < j
        /\ IdOf(j)' = x
    <3>1. j \in Awaited /\ j # k /\ IdOf(j)' = x
      BY <1>8, <1>11, <2>1
    <3>2. j \in DOMAIN cmds /\ IsSubmission(cmds[j]) /\ j >= k
      BY <1>3, <3>1 DEF Awaited
    <3>3. QED
      BY <1>3, <3>1, <3>2
  <2>3. Owed(x)' = Owed(x)
    <3>1. CASE Walking
      BY <1>5, <1>9, <2>1, <2>2, <3>1
    <3>2. CASE ~ Walking
      <4>1. n = 0
        BY <1>1, <3>2 DEF Taken
      <4>2. Owed(id) = Owed(id)'
        BY <1>5, <1>6, <4>1
      <4>3. QED
        BY <1>5, <4>2
    <3>3. QED
      BY <3>1, <3>2
  <2>4. Agrees(x \in DOMAIN orderIndex, MirrorOf(x), cmds[j].intent, Owed(x), FALSE,
               cmds[j].intent.kind = "gtc")
    BY <1>3, <2>1, <2>2 DEF Registered
  <2>5. MirrorOf(x)' = MirrorOf(x) /\ UNCHANGED <<cmds, orderIndex>>
    BY <1>3, <1>8
  <2>6. MirrorOf(IdOf(j))' = MirrorOf(x)' /\ Owed(IdOf(j))' = Owed(x)'
    BY <2>2 DEF MirrorOf, Owed
  <2>7. QED
    BY <2>2, <2>3, <2>4, <2>5, <2>6
<1>19. ASSUME NEW x \in DOMAIN orderIndex'
       PROVE  x \in DOMAIN pending' \/ \E j \in Awaited' : x = IdOf(j)'
  <2>1. x \in DOMAIN orderIndex
    BY <1>3, <1>19
  <2>2. CASE x \in DOMAIN pending
    <3>1. Agrees(x \in DOMAIN orderIndex, MirrorOf(x), pending[x].intent, Owed(x),
                 pending[x].fillsSoFar > 0, x \notin Doomed)
      BY <1>3, <2>2 DEF Registered
    <3>2. x \notin Doomed
      BY <2>1, <3>1 DEF Agrees
    <3>3. IsLifecycle(cmds[k]) => d \in Doomed
      BY <1>1, <1>11 DEF Doomed
    <3>4. QED
      BY <1>12, <2>2, <3>2, <3>3
  <2>3. CASE \E j \in Awaited : x = IdOf(j)
    <3>1. PICK j \in Awaited : x = IdOf(j)
      BY <2>3
    <3>2. CASE j = k
      <4>1. Walking /\ x = id
        BY <1>3, <1>10, <3>1, <3>2 DEF Awaited
      <4>2. intent.kind = "gtc" /\ total < intent.qty
        BY <1>14, <2>1, <4>1 DEF Agrees
      <4>3. Stays
        BY <1>1, <1>2, <4>1, <4>2 DEF Stays
      <4>4. QED
        BY <1>12, <4>1, <4>3
    <3>3. CASE j # k
      BY <1>8, <1>11, <3>1, <3>3
    <3>4. QED
      BY <3>2, <3>3
  <2>4. QED
    BY <1>3, <2>1, <2>2, <2>3 DEF Registered
<1>20. \A i \in Unapplied' :
         outFills'[i].owner < FirstNew' => outFills'[i].owner \in DOMAIN pending'
  <2>1. \A i \in Unapplied' : ~ (outFills[i].owner < FirstNew)
    BY <1>7, <1>8, <1>9
  <2>2. QED
    BY <1>3, <1>8, <2>1
<1>21. Registered'
  BY <1>17, <1>18, <1>19, <1>20 DEF Registered
<1>22. Minted'
  <2>1. Submissions(cmds)' = Submissions(cmds) /\ Ordinal(k)' = Ordinal(k')
    BY <1>3 DEF Submissions, Ordinal
  <2>2. NextId' = FirstNew + Ordinal(k)
    <3>1. k' - 1 = k
      BY <1>3
    <3>2. Ordinal(k - 1)' = Ordinal(k)
      BY <1>3, <3>1 DEF Ordinal
    <3>3. QED
      BY <1>3, <1>8, <3>2 DEF NextId, Calling
  <2>3. \A o \in DOMAIN pending' : o < FirstNew + Ordinal(k)
    BY <1>9, <1>12 DEF Stays
  <2>4. QED
    BY <1>3, <1>8, <2>1, <2>2, <2>3 DEF Minted, Calling
<1>23. QED
  BY <1>7, <1>21, <1>22

-----------------------------------------------------------------------------
(* Between two calls.                                                      *)

\* With nothing under way the registry and the mirror are one.
LEMMA QuietMatches ==
  ASSUME SeamInv, pc # "failed", Quiet
  PROVE  /\ DOMAIN pending = DOMAIN orderIndex
         /\ \A o \in DOMAIN pending :
              LET meta == mirror[orderIndex[o]]
                  entry == pending[o]
              IN  /\ meta.order = o
                  /\ meta.contract = entry.intent.contract
                  /\ meta.side = entry.intent.side
                  /\ meta.remaining = entry.intent.qty
                  /\ meta.firstFillDone = (entry.fillsSoFar > 0)
<1>1. Registered /\ Bridged /\ IsMap(pending, OrderIds, PendingEntries)
  BY DEF SeamInv, FillInv, TypeInv, TypeOK, EngineTypeOK
<1>2. \A o : Owed(o) = 0
  BY QtyNone DEF Owed, Quiet
<1>3. ASSUME NEW o \in DOMAIN pending
      PROVE  /\ o \in DOMAIN orderIndex
             /\ mirror[orderIndex[o]].order = o
             /\ mirror[orderIndex[o]].contract = pending[o].intent.contract
             /\ mirror[orderIndex[o]].side = pending[o].intent.side
             /\ mirror[orderIndex[o]].remaining = pending[o].intent.qty
             /\ mirror[orderIndex[o]].firstFillDone = (pending[o].fillsSoFar > 0)
  <2>1. pending[o].intent.qty \in Nat \ {0}
    BY <1>1, DomainAssumption DEF IsMap, PendingEntries, Intents, Quantities
  <2>2. Agrees(o \in DOMAIN orderIndex, MirrorOf(o), pending[o].intent, 0,
               pending[o].fillsSoFar > 0, TRUE)
    <3>1. o \notin Doomed /\ Owed(o) = 0
      BY <1>2 DEF Quiet
    <3>2. QED
      BY <1>1, <3>1 DEF Registered
  <2>3. /\ 0 < pending[o].intent.qty /\ pending[o].intent.qty - 0 = pending[o].intent.qty
        /\ (pending[o].fillsSoFar > 0 \/ 0 > 0) = (pending[o].fillsSoFar > 0)
    BY <2>1
  <2>4. o \in DOMAIN orderIndex
    BY <2>2, <2>3 DEF Agrees
  <2>5. mirror[orderIndex[o]].order = o
    BY <1>1, <2>4 DEF Bridged
  <2>6. QED
    BY <2>2, <2>3, <2>4, <2>5 DEF Agrees, MirrorOf
<1>4. DOMAIN orderIndex \subseteq DOMAIN pending
  BY <1>1 DEF Registered, Quiet
<1>5. QED
  BY <1>3, <1>4

\* The walk ends with every fill and every group consumed.
LEMMA WalkEnds ==
  ASSUME SeamInv, pc = "walk", k > Len(cmds)
  PROVE  cursor = Len(outFills) /\ ~ (gi <= Len(fillGroups)) /\ Quiet
<1>1. /\ Grouped /\ Grouping(fillGroups) /\ gi \in Nat \ {0} /\ k \in Nat \ {0}
      /\ cmds \in Seq(Commands) /\ outFills \in Seq(Fills)
  BY ChannelsGroup DEF SeamInv, FillInv, TypeInv, TypeOK, SeamTypeOK, EngineTypeOK
<1>2. PICK m : m = Len(fillGroups) /\ m \in Nat /\ DOMAIN fillGroups = 1..m
  BY <1>1 DEF Grouping
<1>3. /\ gi <= m + 1
      /\ cursor = CountOf(carryGroups) + Before(fillGroups, gi)
      /\ CountOf(carryGroups) + CountOf(fillGroups) = Len(outFills)
      /\ \A g \in DOMAIN fillGroups : /\ g < gi <=> fillGroups[g].cmd < k
                                      /\ fillGroups[g].cmd \in DOMAIN cmds
  BY <1>1, <1>2 DEF Grouped, Filling, Calling
<1>4. \A j \in DOMAIN cmds : j \in Nat /\ j < k
  BY <1>1
<1>5. ~ (gi <= m)
  <2>1. gi \notin DOMAIN fillGroups
    BY <1>1, <1>3, <1>4
  <2>2. QED
    BY <1>1, <1>2, <2>1
<1>6. gi = m + 1
  BY <1>1, <1>2, <1>3, <1>5
<1>7. Before(fillGroups, m + 1) = CountOf(fillGroups)
  BY <1>1, <1>2, BeforeSteps
<1>8. cursor = Len(outFills)
  BY <1>3, <1>6, <1>7
<1>9. Awaited = {} /\ Withdrawing = {}
  BY <1>1, <1>4 DEF Awaited, Withdrawing
<1>10. Unapplied = {}
  <2>1. Len(outFills) \in Nat
    BY <1>1
  <2>2. QED
    BY <1>8, <2>1 DEF Unapplied
<1>11. QED
  BY <1>2, <1>5, <1>8, <1>9, <1>10 DEF Quiet, Doomed

\* The call ends.
LEMMA DoneKeeps ==
  ASSUME SeamInv, UNCHANGED fillVars, WalkDone
  PROVE  pc' # "failed" /\ error' = error /\ (Minted /\ Grouped /\ Registered)'
<1>1. pc = "walk" /\ cursor = Len(outFills) /\ ~ (gi <= Len(fillGroups)) /\ Quiet
  BY WalkEnds DEF WalkDone
<1>2. /\ pc' \in {"exits", "settle"} /\ error' = error
      /\ UNCHANGED <<cmds, submitIds, nextOrder, pending, mirror, orderIndex>>
  BY <1>1 DEF WalkDone, engineVars, idVars, fillVars
<1>3. Registered /\ Minted /\ TypeInv /\ Dealt
  BY <1>1 DEF SeamInv, FillInv
<1>4. Quiet' /\ Grouped'
  BY <1>2 DEF Quiet, Unapplied, Awaited, Doomed, Withdrawing, Grouped, Filling, Calling
<1>5. Registered'
  BY <1>1, <1>2, <1>3, <1>4, QuietKeeps
<1>6. Minted'
  <2>1. \A o \in DOMAIN pending : o < nextOrder
    <3>1. DOMAIN pending = DOMAIN orderIndex
      BY <1>1, QuietMatches
    <3>2. QED
      BY <1>3, <3>1 DEF Dealt
  <2>2. \A j \in DOMAIN cmds : IsLifecycle(cmds[j]) => cmds[j].order < nextOrder
    <3>1. \A j \in DOMAIN cmds : IsLifecycle(cmds[j]) =>
            cmds[j].order < FirstNew /\ cmds[j].order \in Int
      <4>1. cmds \in Seq(Commands)
        BY <1>3 DEF TypeInv, TypeOK, SeamTypeOK
      <4>2. \A cmd \in Commands : IsLifecycle(cmd) => cmd.order \in OrderIds
        BY DEF Commands, IsLifecycle
      <4>3. QED
        BY <1>1, <1>3, <4>1, <4>2 DEF Minted, Calling, OrderIds
    <3>2. Len(submitIds) \in Nat /\ nextOrder \in Int
      BY <1>3, DomainAssumption DEF TypeInv, TypeOK, SeamTypeOK, EngineTypeOK
    <3>3. PICK n : n = Len(submitIds) /\ n \in Nat
      BY <3>2
    <3>4. FirstNew = nextOrder - n
      BY <3>3 DEF FirstNew
    <3>5. QED
      BY <3>1, <3>2, <3>3, <3>4
  <2>3. QED
    BY <1>2, <2>1, <2>2 DEF Minted, NextId, Calling
<1>7. QED
  BY <1>2, <1>4, <1>5, <1>6

-----------------------------------------------------------------------------
(* Room.                                                                   *)

\* The sizes and leg ids in play are numbers.
LEMMA SizesNat ==
  ASSUME TypeInv
  PROVE  /\ \A p \in DOMAIN inventory : inventory[p].qty \in Nat
         /\ \A o \in DOMAIN pending :
              pending[o].intent.qty \in Nat /\ pending[o].pos \in Nat
         /\ nextPos \in Nat \ {0} /\ MaxQty \in Nat
<1>1. /\ IsMap(inventory, Nat, Legs) /\ IsMap(pending, OrderIds, PendingEntries)
      /\ nextPos \in Nat \ {0}
  BY DEF TypeInv, TypeOK, EngineTypeOK, BooksTypeOK
<1>2. \A p \in DOMAIN inventory : inventory[p].qty \in Nat
  BY <1>1, DomainAssumption DEF IsMap, Legs, Quantities
<1>3. \A o \in DOMAIN pending : pending[o].intent.qty \in Nat /\ pending[o].pos \in Nat
  BY <1>1, DomainAssumption DEF IsMap, PendingEntries, Intents, Quantities
<1>4. QED
  BY <1>1, <1>2, <1>3, DomainAssumption

\* Room stays where legs and entries only shrink.
LEMMA RoomKept ==
  ASSUME LegsInv, TypeInv', Room,
         \A p \in DOMAIN inventory' :
           p \in DOMAIN inventory /\ inventory'[p].qty <= inventory[p].qty,
         \A o \in DOMAIN pending' :
           \/ pending'[o].pos = 0
           \/ /\ o \in DOMAIN pending
              /\ pending'[o].pos = pending[o].pos
              /\ pending'[o].intent.qty <= pending[o].intent.qty
  PROVE  Room'
<1>1. /\ \A p \in DOMAIN inventory : inventory[p].qty \in Nat
      /\ \A o \in DOMAIN pending : pending[o].intent.qty \in Nat
      /\ \A p \in DOMAIN inventory' : inventory'[p].qty \in Nat
      /\ \A o \in DOMAIN pending' : pending'[o].intent.qty \in Nat
      /\ MaxQty \in Nat
  <2>1. IsMap(inventory', Nat, Legs) /\ IsMap(pending', OrderIds, PendingEntries)
    BY DEF TypeInv, TypeOK, EngineTypeOK, BooksTypeOK
  <2>2. \A p \in DOMAIN inventory' : inventory'[p].qty \in Nat
    BY <2>1, DomainAssumption DEF IsMap, Legs, Quantities
  <2>3. \A o \in DOMAIN pending' : pending'[o].intent.qty \in Nat
    BY <2>1, DomainAssumption DEF IsMap, PendingEntries, Intents, Quantities
  <2>4. QED
    BY <2>2, <2>3, SizesNat DEF LegsInv
<1>2. 0 \notin DOMAIN inventory
  <2>1. \A p \in DOMAIN inventory : p # 0
    BY SizesNat DEF LegsInv, IdsMinted
  <2>2. QED
    BY <2>1
<1>3. ASSUME NEW o \in DOMAIN pending', pending'[o].pos \in DOMAIN inventory'
      PROVE  inventory'[pending'[o].pos].qty + pending'[o].intent.qty <= MaxQty
  <2>1. PICK p : p = pending'[o].pos
    OBVIOUS
  <2>2. p \in DOMAIN inventory /\ inventory'[p].qty <= inventory[p].qty
    BY <1>3, <2>1
  <2>3. o \in DOMAIN pending /\ p = pending[o].pos
          /\ pending'[o].intent.qty <= pending[o].intent.qty
    BY <1>2, <2>1, <2>2
  <2>4. inventory[p].qty + pending[o].intent.qty <= MaxQty
    BY <2>2, <2>3 DEF Room
  <2>5. PICK a, b, c, d : a = inventory[p].qty /\ b = pending[o].intent.qty
                          /\ c = inventory'[p].qty /\ d = pending'[o].intent.qty
    OBVIOUS
  <2>6. a \in Nat /\ b \in Nat /\ c \in Nat /\ d \in Nat
    BY <1>1, <1>3, <2>1, <2>2, <2>3, <2>5
  <2>7. c + d <= MaxQty
    BY <1>1, <2>2, <2>3, <2>4, <2>5, <2>6
  <2>8. QED
    BY <2>1, <2>5, <2>7
<1>4. ASSUME NEW o \in DOMAIN pending', NEW p \in DOMAIN pending', pending'[o].pos # 0,
             pending'[o].pos = pending'[p].pos
      PROVE  o = p
  BY <1>4 DEF Room
<1>5. QED
  BY <1>3, <1>4, DomainAssumption DEF Room

\* A leg that opens leaves room for the rest of its order.
LEMMA RoomOpened ==
  ASSUME LegsInv, TypeInv', Room, NEW order, NEW leg,
         inventory' = Put(inventory, nextPos, leg),
         \A o \in DOMAIN pending' :
           \/ o \in DOMAIN pending /\ pending'[o] = pending[o]
           \/ /\ o = order /\ pending'[o].pos = nextPos
              /\ leg.qty + pending'[o].intent.qty <= MaxQty
  PROVE  Room'
<1>1. /\ \A o \in DOMAIN pending : pending[o].pos \in 0..(nextPos - 1)
      /\ \A p \in DOMAIN inventory : p \in 1..(nextPos - 1)
      /\ nextPos \in Nat \ {0}
  BY SizesNat DEF LegsInv, IdsMinted
<1>2. /\ \A o \in DOMAIN pending : pending[o].pos # nextPos
      /\ nextPos \notin DOMAIN inventory
  BY <1>1
<1>3. /\ inventory'[nextPos] = leg
      /\ DOMAIN inventory' = DOMAIN inventory \cup {nextPos}
      /\ \A p \in DOMAIN inventory : inventory'[p] = inventory[p]
  BY <1>2 DEF Put
<1>4. ASSUME NEW o \in DOMAIN pending', pending'[o].pos \in DOMAIN inventory'
      PROVE  inventory'[pending'[o].pos].qty + pending'[o].intent.qty <= MaxQty
  <2>1. CASE o \in DOMAIN pending /\ pending'[o] = pending[o]
    <3>1. pending[o].pos \in DOMAIN inventory
      BY <1>2, <1>3, <1>4, <2>1
    <3>2. inventory[pending[o].pos].qty + pending[o].intent.qty <= MaxQty
      BY <2>1, <3>1 DEF Room
    <3>3. QED
      BY <1>3, <2>1, <3>1, <3>2
  <2>2. CASE /\ o = order /\ pending'[o].pos = nextPos
             /\ leg.qty + pending'[o].intent.qty <= MaxQty
    BY <1>3, <2>2
  <2>3. QED
    BY <2>1, <2>2
<1>5. ASSUME NEW o \in DOMAIN pending', NEW p \in DOMAIN pending', pending'[o].pos # 0,
             pending'[o].pos = pending'[p].pos
      PROVE  o = p
  BY <1>2, <1>5 DEF Room
<1>6. QED
  BY <1>4, <1>5, DomainAssumption DEF Room

\* A leg that grows takes its room from its order.
LEMMA RoomMoved ==
  ASSUME LegsInv, TypeInv', Room, NEW order \in DOMAIN pending, NEW p \in DOMAIN inventory,
         NEW q \in Nat, pending[order].pos = p, NEW leg,
         inventory' = [inventory EXCEPT ![p] = leg], leg.qty = inventory[p].qty + q,
         \A o \in DOMAIN pending' :
           \/ o # order /\ o \in DOMAIN pending /\ pending'[o] = pending[o]
           \/ /\ o = order /\ pending'[o].pos = p
              /\ pending'[o].intent.qty = pending[o].intent.qty - q
  PROVE  Room'
<1>1. /\ p # 0 /\ inventory'[p] = leg
      /\ DOMAIN inventory' = DOMAIN inventory
      /\ \A r \in DOMAIN inventory : r # p => inventory'[r] = inventory[r]
  BY SizesNat DEF LegsInv, IdsMinted
<1>2. \A o \in DOMAIN pending : o # order => pending[o].pos # p
  BY <1>1 DEF Room
<1>3. ASSUME NEW o \in DOMAIN pending', pending'[o].pos \in DOMAIN inventory'
      PROVE  inventory'[pending'[o].pos].qty + pending'[o].intent.qty <= MaxQty
  <2>1. CASE o # order /\ o \in DOMAIN pending /\ pending'[o] = pending[o]
    <3>1. pending[o].pos \in DOMAIN inventory /\ pending[o].pos # p
      BY <1>1, <1>2, <1>3, <2>1
    <3>2. inventory[pending[o].pos].qty + pending[o].intent.qty <= MaxQty
      BY <2>1, <3>1 DEF Room
    <3>3. QED
      BY <1>1, <2>1, <3>1, <3>2
  <2>2. CASE /\ o = order /\ pending'[o].pos = p
             /\ pending'[o].intent.qty = pending[o].intent.qty - q
    <3>1. inventory[p].qty + pending[order].intent.qty <= MaxQty
      BY DEF Room
    <3>2. PICK a, b : a = inventory[p].qty /\ b = pending[order].intent.qty
      OBVIOUS
    <3>3. a \in Nat /\ b \in Nat /\ MaxQty \in Nat
      BY <3>2, SizesNat DEF LegsInv
    <3>4. (a + q) + (b - q) <= MaxQty
      BY <3>1, <3>2, <3>3
    <3>5. QED
      BY <1>1, <2>2, <3>2, <3>4
  <2>3. QED
    BY <2>1, <2>2
<1>4. ASSUME NEW o \in DOMAIN pending', NEW x \in DOMAIN pending', pending'[o].pos # 0,
             pending'[o].pos = pending'[x].pos
      PROVE  o = x
  BY <1>2, <1>4 DEF Room
<1>5. QED
  BY <1>3, <1>4, DomainAssumption DEF Room

\* A close that applies grows no leg.
LEMMA CloseShrinks ==
  ASSUME TypeInv, NEW p, NEW run, TotalQty(run) \in Quantities,
         CloseFault(p, TotalQty(run)) = "none", NEW order, NEW first, NEW reason,
         CloseLeg(p, run, order, first, reason)
  PROVE  \A r \in DOMAIN inventory' :
           r \in DOMAIN inventory /\ inventory'[r].qty <= inventory[r].qty
<1>1. PICK q : q = TotalQty(run) /\ q \in Nat
  BY DomainAssumption DEF Quantities
<1>2. p \in DOMAIN inventory /\ inventory[p] \in Legs
  BY DEF CloseFault, TypeInv, TypeOK, EngineTypeOK, BooksTypeOK, IsMap
<1>3. \A r \in DOMAIN inventory : inventory[r].qty \in Nat
  BY SizesNat
<1>4. CASE FullClose(p, q)
  <2>1. inventory' = Drop(inventory, p)
    BY <1>1, <1>4 DEF CloseLeg
  <2>2. QED
    BY <1>3, <2>1 DEF Drop
<1>5. CASE ~ FullClose(p, q)
  <2>1. inventory' = [inventory EXCEPT ![p] = [inventory[p] EXCEPT !.qty = @ - q]]
    BY <1>1, <1>5 DEF CloseLeg
  <2>2. [inventory[p] EXCEPT !.qty = @ - q].qty = inventory[p].qty - q
    BY <1>2 DEF Legs
  <2>3. inventory[p].qty - q <= inventory[p].qty
    BY <1>1, <1>2, <1>3
  <2>4. \A r \in DOMAIN inventory : r # p => inventory'[r] = inventory[r]
    BY <2>1
  <2>5. inventory'[p].qty <= inventory[p].qty
    BY <1>2, <2>1, <2>2, <2>3
  <2>6. DOMAIN inventory' = DOMAIN inventory
    BY <2>1
  <2>7. \A r \in DOMAIN inventory : inventory[r].qty <= inventory[r].qty
    BY <1>3
  <2>8. QED
    BY <2>4, <2>5, <2>6, <2>7
<1>6. QED
  BY <1>4, <1>5

\* The steps of the carry prefix leave the legs room.
LEMMA CarryRoom ==
  ASSUME LegsInv, TypeInv', Room, CarryOpensLeg \/ CarryExtendsLeg \/ CarryClosesLeg
  PROVE  Room'
<1>1. AtCarry /\ CarryFault = "none" /\ TypeInv
  BY DEF CarryOpensLeg, CarryExtendsLeg, CarryClosesLeg, LegsInv
<1>2. PICK o, q, entry : o = CarryOrder /\ q = TotalQty(CarryRun) /\ entry = pending[o]
  OBVIOUS
<1>3. /\ o \in DOMAIN pending /\ entry \in PendingEntries /\ q \in Quantities
      /\ q <= entry.intent.qty
      /\ entry.intent.action = "close" => CloseFault(entry.intent.pos, q) = "none"
      /\ (entry.intent.action = "open" /\ entry.pos # 0) => ExtendFault(entry.pos, q) = "none"
  BY <1>1, <1>2, CarryChecked DEF CarryEntry
<1>4. /\ q \in Nat /\ entry.intent \in Intents /\ entry.intent.qty \in Nat
      /\ entry.intent.qty <= MaxQty
  BY <1>3, DomainAssumption DEF PendingEntries, Intents, Quantities
<1>5. ASSUME NEW trade, NEW p, pending' = Shrunk(trade, p)
      PROVE  \A x \in DOMAIN pending' :
               \/ x # o /\ x \in DOMAIN pending /\ pending'[x] = pending[x]
               \/ x = o /\ pending'[x].pos = p /\ pending'[x].intent.qty = entry.intent.qty - q
  <2>1. CASE q = entry.intent.qty
    <3>1. pending' = Drop(pending, o)
      BY <1>2, <1>5, <2>1 DEF Shrunk, CarryEntry
    <3>2. QED
      BY <3>1 DEF Drop
  <2>2. CASE q # entry.intent.qty
    <3>1. pending' = Put(pending, o, ShrunkEntry(trade, p))
      BY <1>2, <1>5, <2>2 DEF Shrunk, CarryEntry
    <3>2. ShrunkEntry(trade, p).pos = p /\ ShrunkEntry(trade, p).intent.qty = entry.intent.qty - q
      BY <1>2, <1>4 DEF ShrunkEntry, CarryEntry, Intents
    <3>3. QED
      BY <3>1, <3>2 DEF Put
  <2>3. QED
    BY <2>1, <2>2
<1>6. CASE CarryOpensLeg
  <2>1. PICK trade : /\ OpenLeg(nextPos, trade, CarryRun, CarryOrder, NextSeqOf(CarryEntry))
                     /\ pending' = Shrunk(trade, nextPos)
    BY <1>6 DEF CarryOpensLeg
  <2>2. PICK leg : inventory' = Put(inventory, nextPos, leg) /\ leg.qty = q
    <3>1. inventory' = Put(inventory, nextPos, [contract |-> CarryRun[1].contract,
                                                side |-> CarryRun[1].side, qty |-> q])
      BY <1>2, <2>1 DEF OpenLeg
    <3>2. QED
      BY <3>1
  <2>3. q + (entry.intent.qty - q) <= MaxQty
    BY <1>4, DomainAssumption
  <2>4. \A x \in DOMAIN pending' :
          \/ x \in DOMAIN pending /\ pending'[x] = pending[x]
          \/ /\ x = o /\ pending'[x].pos = nextPos
             /\ leg.qty + pending'[x].intent.qty <= MaxQty
    BY <1>5, <2>1, <2>2, <2>3
  <2>5. QED
    BY <2>2, <2>4, RoomOpened
<1>7. CASE CarryExtendsLeg
  <2>1. /\ entry.intent.action = "open" /\ entry.pos # 0
        /\ ExtendLeg(entry.pos, entry.trade, CarryRun, CarryOrder, NextSeqOf(CarryEntry))
        /\ pending' = Shrunk(entry.trade, entry.pos)
    BY <1>2, <1>7 DEF CarryExtendsLeg, CarryEntry
  <2>2. PICK p : p = entry.pos
    OBVIOUS
  <2>3. p \in DOMAIN inventory /\ pending[o].pos = p
    BY <1>2, <1>3, <2>1, <2>2 DEF ExtendFault
  <2>4. PICK leg : leg = [inventory[p] EXCEPT !.qty = @ + q]
    OBVIOUS
  <2>5. inventory[p] \in Legs
    BY <1>1, <2>3 DEF TypeInv, TypeOK, EngineTypeOK, BooksTypeOK, IsMap
  <2>6. leg.qty = inventory[p].qty + q
    BY <2>4, <2>5 DEF Legs
  <2>7. inventory' = [inventory EXCEPT ![p] = leg]
    BY <1>2, <2>1, <2>2, <2>4 DEF ExtendLeg
  <2>8. \A x \in DOMAIN pending' :
          \/ x # o /\ x \in DOMAIN pending /\ pending'[x] = pending[x]
          \/ /\ x = o /\ pending'[x].pos = p
             /\ pending'[x].intent.qty = pending[x].intent.qty - q
    BY <1>2, <1>5, <2>1, <2>2
  <2>9. QED
    BY <1>3, <1>4, <2>3, <2>6, <2>7, <2>8, RoomMoved
<1>8. CASE CarryClosesLeg
  <2>1. /\ entry.intent.action = "close" /\ pending' = Shrunk(entry.trade, entry.pos)
        /\ CloseLeg(entry.intent.pos, CarryRun, CarryOrder, NextSeqOf(CarryEntry), entry.reason)
    BY <1>2, <1>8 DEF CarryClosesLeg, CarryEntry
  <2>2. \A p \in DOMAIN inventory' :
          p \in DOMAIN inventory /\ inventory'[p].qty <= inventory[p].qty
    BY <1>1, <1>2, <1>3, <2>1, CloseShrinks
  <2>3. entry.intent.qty - q <= entry.intent.qty
    BY <1>4
  <2>4. \A x \in DOMAIN pending' : \/ pending'[x].pos = 0
                                   \/ /\ x \in DOMAIN pending
                                      /\ pending'[x].pos = pending[x].pos
                                      /\ pending'[x].intent.qty <= pending[x].intent.qty
    <3>1. ASSUME NEW x \in DOMAIN pending'
          PROVE  /\ x \in DOMAIN pending
                 /\ pending'[x].pos = pending[x].pos
                 /\ pending'[x].intent.qty <= pending[x].intent.qty
      <4>1. CASE x # o /\ x \in DOMAIN pending /\ pending'[x] = pending[x]
        <5>1. pending[x].intent.qty \in Nat
          BY <1>1, <4>1, SizesNat
        <5>2. QED
          BY <4>1, <5>1
      <4>2. CASE /\ x = o /\ pending'[x].pos = entry.pos
                 /\ pending'[x].intent.qty = entry.intent.qty - q
        BY <1>2, <1>3, <2>3, <4>2
      <4>3. QED
        BY <1>5, <2>1, <3>1, <4>1, <4>2
    <3>2. QED
      BY <3>1
  <2>5. QED
    BY <2>2, <2>4, RoomKept
<1>9. QED
  BY <1>6, <1>7, <1>8

\* The steps of the walk leave the legs room.
LEMMA WalkRoom ==
  ASSUME LegsInv, TypeInv', Room,
         WalkCancel \/ WalkRestsOpen \/ WalkRestsClose \/ WalkOpens \/ WalkCloses
  PROVE  Room'
<1>1. TypeInv
  BY DEF LegsInv
<1>2. \A o \in DOMAIN AfterCancel : o \in DOMAIN pending /\ AfterCancel[o] = pending[o]
  BY AfterCancelIs
<1>3. /\ \A o \in DOMAIN pending : pending[o].intent.qty <= pending[o].intent.qty
      /\ \A p \in DOMAIN inventory : inventory[p].qty <= inventory[p].qty
  BY <1>1, SizesNat
<1>4. CASE WalkCancel \/ WalkRestsOpen \/ WalkRestsClose
  <2>1. inventory' = inventory
    BY <1>4 DEF WalkCancel, WalkRestsOpen, WalkRestsClose, bookVars
  <2>2. \A o \in DOMAIN pending' :
          pending'[o].pos = 0 \/ (o \in DOMAIN pending /\ pending'[o] = pending[o])
    <3>1. CASE WalkCancel
      BY <1>2, <3>1 DEF WalkCancel
    <3>2. CASE WalkRestsOpen \/ WalkRestsClose
      <4>1. PICK trade : pending' = Put(AfterCancel, WalkOrder,
                                        RestingEntry(WalkIntent.qty, trade, 0, 0))
        BY <3>2 DEF WalkRestsOpen, WalkRestsClose
      <4>2. RestingEntry(WalkIntent.qty, trade, 0, 0).pos = 0
        BY DEF RestingEntry
      <4>3. QED
        BY <1>2, <4>1, <4>2 DEF Put
    <3>3. QED
      BY <1>4, <3>1, <3>2
  <2>3. \A p \in DOMAIN inventory' :
          p \in DOMAIN inventory /\ inventory'[p].qty <= inventory[p].qty
    BY <1>3, <2>1
  <2>4. \A o \in DOMAIN pending' :
           \/ pending'[o].pos = 0
           \/ /\ o \in DOMAIN pending
              /\ pending'[o].pos = pending[o].pos
              /\ pending'[o].intent.qty <= pending[o].intent.qty
    BY <1>3, <2>2
  <2>5. QED
    BY <2>3, <2>4, RoomKept
<1>5. CASE WalkOpens \/ WalkCloses
  <2>1. /\ Walking /\ WalkFault = "none" /\ WalkCount # 0
    BY <1>5 DEF WalkOpens, WalkCloses
  <2>2. PICK q, size : q = TotalQty(WalkRun) /\ size = WalkIntent.qty
    OBVIOUS
  <2>3. /\ q \in Quantities /\ WalkIntent \in Intents
        /\ WalkIntent.action = "close" => CloseFault(WalkIntent.pos, q) = "none"
    BY <1>1, <2>1, <2>2, WalkChecked
  <2>4. q \in Nat /\ size \in Nat /\ size <= MaxQty /\ size - q \in Int
    BY <2>2, <2>3, DomainAssumption DEF Quantities, Intents
  <2>5. ASSUME NEW trade, NEW p, pending' = WithRemainder(trade, p)
        PROVE  \A o \in DOMAIN pending' :
                 \/ o \in DOMAIN pending /\ pending'[o] = pending[o]
                 \/ o = WalkOrder /\ pending'[o].pos = p /\ pending'[o].intent.qty = size - q
    <3>1. CASE pending' = AfterCancel
      BY <1>2, <3>1
    <3>2. CASE pending' = Put(AfterCancel, WalkOrder,
                              RestingEntry(size - q, trade, p, WalkCount))
      <4>1. /\ RestingEntry(size - q, trade, p, WalkCount).pos = p
            /\ RestingEntry(size - q, trade, p, WalkCount).intent.qty = size - q
        BY <2>3, <2>4 DEF RestingEntry, Intents
      <4>2. QED
        BY <1>2, <3>2, <4>1 DEF Put
    <3>3. QED
      BY <2>2, <2>5, <3>1, <3>2 DEF WithRemainder
  <2>6. CASE WalkOpens
    <3>1. /\ OpenLeg(nextPos, OpenTrade, WalkRun, WalkOrder, 0)
          /\ pending' = WithRemainder(OpenTrade, nextPos)
      BY <2>6 DEF WalkOpens
    <3>2. PICK leg : inventory' = Put(inventory, nextPos, leg) /\ leg.qty = q
      <4>1. inventory' = Put(inventory, nextPos, [contract |-> WalkRun[1].contract,
                                                  side |-> WalkRun[1].side, qty |-> q])
        BY <2>2, <3>1 DEF OpenLeg
      <4>2. QED
        BY <4>1
    <3>3. q + (size - q) <= MaxQty
      BY <2>4, DomainAssumption
    <3>4. \A o \in DOMAIN pending' :
            \/ o \in DOMAIN pending /\ pending'[o] = pending[o]
            \/ /\ o = WalkOrder /\ pending'[o].pos = nextPos
               /\ leg.qty + pending'[o].intent.qty <= MaxQty
      BY <2>5, <3>1, <3>2, <3>3
    <3>5. QED
      BY <3>2, <3>4, RoomOpened
  <2>7. CASE WalkCloses
    <3>1. /\ CloseLeg(WalkIntent.pos, WalkRun, WalkOrder, 0, WalkReason)
          /\ pending' = WithRemainder(0, 0) /\ WalkIntent.action = "close"
      BY <2>7 DEF WalkCloses
    <3>2. \A p \in DOMAIN inventory' :
            p \in DOMAIN inventory /\ inventory'[p].qty <= inventory[p].qty
      BY <1>1, <2>2, <2>3, <3>1, CloseShrinks
    <3>3. \A o \in DOMAIN pending' :
             \/ pending'[o].pos = 0
             \/ /\ o \in DOMAIN pending
                /\ pending'[o].pos = pending[o].pos
                /\ pending'[o].intent.qty <= pending[o].intent.qty
      BY <1>3, <2>5, <3>1
    <3>4. QED
      BY <3>2, <3>3, RoomKept
  <2>8. QED
    BY <1>5, <2>6, <2>7
<1>6. QED
  BY <1>4, <1>5

\* No other step touches a leg or an entry.
LEMMA OthersRoom ==
  ASSUME Room, UNCHANGED <<inventory, pending>>
  PROVE  Room'
  BY DEF Room

\* Every step leaves the legs room.
LEMMA StepKeepsRoom ==
  ASSUME LegsInv, Room, [Next]_vars
  PROVE  Room'
<1>1. TypeInv'
  BY StepType DEF LegsInv
<1>2. CASE UNCHANGED engineVars
  BY <1>2, OthersRoom DEF engineVars, bookVars
<1>3. CASE EngineNext
  <2>1. CASE \/ OnStart \/ Exits \/ OnSnapshot \/ OnEnd \/ Validate \/ MintIds
             \/ CarryFails \/ CarryDone \/ WalkFails \/ WalkDone
             \/ Settle \/ SettleExpired \/ Advance
    <3>1. UNCHANGED <<inventory, pending>>
      BY <2>1 DEF OnStart, Exits, OnSnapshot, OnEnd, Validate, MintIds, CarryFails,
         CarryDone, WalkFails, WalkDone, Settle, SettleExpired, Advance,
         AbortEngine, engineVars, bookVars
    <3>2. QED
      BY <3>1, OthersRoom
  <2>2. CASE CarryOpensLeg \/ CarryExtendsLeg \/ CarryClosesLeg
    BY <1>1, <2>2, CarryRoom
  <2>3. CASE WalkCancel \/ WalkRestsOpen \/ WalkRestsClose \/ WalkOpens \/ WalkCloses
    BY <1>1, <2>3, WalkRoom
  <2>4. QED
    BY <1>3, <2>1, <2>2, <2>3 DEF EngineNext
<1>4. QED
  BY <1>2, <1>3 DEF Next, vars

-----------------------------------------------------------------------------
(* No check of the seam fails.                                             *)

\* The next fills are part of what their order is owed.
LEMMA RunOwed ==
  ASSUME TypeInv, pc \in {"carry", "walk"}, NEW n, NEW o, n > 0,
         IsRunOf(outFills, cursor, n, o)
  PROVE  /\ TotalQty(SubSeq(outFills, cursor + 1, cursor + n)) \in Nat \ {0}
         /\ TotalQty(SubSeq(outFills, cursor + 1, cursor + n)) <= Owed(o)
         /\ cursor + 1 \in Unapplied /\ outFills[cursor + 1].owner = o
<1>1. PICK c, m, total : /\ c = cursor + n /\ m = Len(outFills)
                         /\ total = TotalQty(SubSeq(outFills, cursor + 1, cursor + n))
  OBVIOUS
<1>2. PICK R, S : R = (cursor + 1)..(cursor + n) /\ S = (c + 1)..m
  OBVIOUS
<1>3. /\ cursor \in Nat /\ n \in Nat /\ c \in Nat /\ m \in Nat /\ c <= m
      /\ outFills \in Seq(Fills) /\ DOMAIN outFills = 1..m
  BY <1>1 DEF IsRunOf, TypeInv, TypeOK, SeamTypeOK, EngineTypeOK
<1>4. /\ Unapplied = R \cup S /\ R \cap S = {}
      /\ R \in SUBSET DOMAIN outFills /\ S \in SUBSET DOMAIN outFills
  BY <1>1, <1>2, <1>3 DEF Unapplied
<1>5. /\ Owed(o) = Qty(outFills, R, o) + Qty(outFills, S, o)
      /\ Qty(outFills, R, o) \in Nat /\ Qty(outFills, S, o) \in Nat
  BY <1>3, <1>4, QtyUnion, QtyNat DEF Owed
<1>6. Qty(outFills, R, o) = total
  BY <1>1, <1>2, <1>3, QtyOfRun
<1>7. cursor + 1 \in R /\ outFills[cursor + 1].owner = o
  BY <1>2, <1>3 DEF IsRunOf
<1>8. total \in Nat \ {0}
  <2>1. Qty(outFills, R, o) > 0
    BY <1>3, <1>4, <1>7, QtyNat
  <2>2. QED
    BY <1>5, <1>6, <2>1
<1>9. total <= Owed(o)
  <2>1. PICK s : s = Qty(outFills, S, o)
    OBVIOUS
  <2>2. Owed(o) = total + s /\ s \in Nat /\ total \in Nat
    BY <1>5, <1>6, <2>1
  <2>3. QED
    BY <2>2
<1>10. QED
  BY <1>1, <1>4, <1>7, <1>8, <1>9

\* A carried run names a pending order, trades no more of it than is left, and
\* grows a leg by no more than a quantity holds.
LEMMA CarryPasses ==
  ASSUME SeamInv, AtCarry
  PROVE  CarryFault \notin BookDesyncs \cup SeamDesyncs
<1>1. PICK o, n, q, entry : /\ o = CarryOrder /\ n = carryGroups[k].count
                            /\ q = TotalQty(CarryRun) /\ entry = pending[o]
  OBVIOUS
<1>2. pc = "carry" /\ TypeInv /\ Registered /\ LegsAgree /\ Room
  BY DEF AtCarry, SeamInv, FillInv, LegsInv
<1>3. IsRunOf(outFills, cursor, n, o) /\ o < FirstNew /\ k \in DOMAIN carryGroups
  BY <1>1, CarryRunIs
<1>4. n \in Nat \ {0}
  <2>1. carryGroups \in Seq(CarryGroups)
    BY <1>2 DEF TypeInv, TypeOK, SeamTypeOK
  <2>2. carryGroups[k] \in CarryGroups
    BY <1>3, <2>1
  <2>3. QED
    BY <1>1, <2>2 DEF CarryGroups
<1>5. /\ q \in Nat \ {0} /\ q <= Owed(o)
      /\ cursor + 1 \in Unapplied /\ outFills[cursor + 1].owner = o
  BY <1>1, <1>2, <1>3, <1>4, RunOwed DEF CarryRun
<1>6. o \in DOMAIN pending
  BY <1>2, <1>3, <1>5 DEF Registered
<1>7. /\ entry.intent.qty \in Nat /\ MaxQty \in Nat
      /\ entry.intent.qty <= MaxQty
  <2>1. entry \in PendingEntries
    BY <1>1, <1>2, <1>6 DEF TypeInv, TypeOK, EngineTypeOK, IsMap
  <2>2. QED
    BY <2>1, DomainAssumption DEF PendingEntries, Intents, Quantities
<1>8. Owed(o) <= entry.intent.qty
  BY <1>1, <1>2, <1>6 DEF Registered, Agrees
<1>9. Owed(o) \in Nat
  <2>1. outFills \in Seq(Fills) /\ cursor \in Nat
    BY <1>2 DEF TypeInv, TypeOK, SeamTypeOK, EngineTypeOK
  <2>2. Unapplied \in SUBSET DOMAIN outFills
    BY <1>2, <2>1 DEF Unapplied
  <2>3. QED
    BY <2>1, <2>2, QtyNat DEF Owed
<1>10. q <= entry.intent.qty /\ q \in Quantities
  BY <1>5, <1>7, <1>8, <1>9 DEF Quantities
<1>11. ~ (cursor + n > Len(outFills))
  BY <1>3 DEF IsRunOf
<1>12. CloseFault(entry.intent.pos, q) \notin BookDesyncs \cup SeamDesyncs
  <2>1. CloseFault(entry.intent.pos, q) \notin BookDesyncs
    BY <1>2, AgreeingBooksPass
  <2>2. QED
    BY <2>1 DEF CloseFault, BookDesyncs, SeamDesyncs
<1>13. ExtendFault(entry.pos, q) \notin BookDesyncs \cup SeamDesyncs
  <2>1. ExtendFault(entry.pos, q) \notin BookDesyncs
    BY <1>2, AgreeingBooksPass
  <2>2. ASSUME entry.pos \in DOMAIN inventory
        PROVE  /\ inventory[entry.pos].qty + q \in Quantities
               /\ tradeOpen[entry.pos].remaining + q \in Quantities
    <3>1. inventory[entry.pos].qty + entry.intent.qty <= MaxQty
      BY <1>1, <1>2, <1>6, <2>2 DEF Room
    <3>2. PICK a : a = inventory[entry.pos].qty
      OBVIOUS
    <3>3. a \in Nat
      BY <1>2, <2>2, <3>2, SizesNat
    <3>4. a + q \in Quantities
      BY <1>5, <1>7, <1>10, <3>1, <3>2, <3>3 DEF Quantities
    <3>5. tradeOpen[entry.pos].remaining = a
      BY <1>2, <2>2, <3>2 DEF LegsAgree
    <3>6. QED
      BY <3>2, <3>4, <3>5
  <2>3. QED
    BY <2>1, <2>2 DEF ExtendFault, BookDesyncs, SeamDesyncs
<1>14. ~ (q > entry.intent.qty)
  BY <1>5, <1>7, <1>10
<1>15. CarryFault = LET applied == IF entry.intent.action = "close"
                                     THEN CloseFault(entry.intent.pos, q)
                                   ELSE IF entry.pos # 0 THEN ExtendFault(entry.pos, q)
                                   ELSE "none"
                    IN  IF applied # "none" THEN applied ELSE "none"
  BY <1>1, <1>6, <1>10, <1>11, <1>14 DEF CarryFault, CarryEntry
<1>16. QED
  BY <1>12, <1>13, <1>15 DEF BookDesyncs, SeamDesyncs

\* A command of the walk has its id, and its fills trade no more than it asked.
LEMMA WalkPasses ==
  ASSUME SeamInv, Walking
  PROVE  WalkFault \notin BookDesyncs \cup SeamDesyncs
<1>1. PICK n, q, id : n = WalkCount /\ q = TotalQty(WalkRun) /\ id = IdOf(k)
  OBVIOUS
<1>2. /\ pc = "walk" /\ TypeInv /\ Registered /\ LegsAgree /\ Minted /\ AtWalk
      /\ k \in Nat \ {0} /\ k \in DOMAIN cmds /\ IsSubmission(cmds[k])
      /\ cmds \in Seq(Commands) /\ submitIds \in Seq(OrderIds)
  BY DEF Walking, AtWalk, SeamInv, FillInv, LegsInv, TypeInv, TypeOK, SeamTypeOK
<1>3. ~ (Ordinal(k) > Len(submitIds))
  <2>1. Ordinal(k) \in DOMAIN submitIds
    BY <1>2, IdsAscend DEF Calling
  <2>2. QED
    BY <1>2, <2>1
<1>4. IsRunOf(outFills, cursor, n, id)
  BY <1>1, <1>2, WalkRunIs DEF Taken
<1>5. CASE n = 0
  BY <1>1, <1>3, <1>5 DEF WalkFault, BookDesyncs, SeamDesyncs
<1>6. CASE n # 0
  <2>1. n > 0 /\ ~ (cursor + n > Len(outFills))
    BY <1>4, <1>6 DEF IsRunOf
  <2>2. q \in Nat \ {0} /\ q <= Owed(id)
    BY <1>1, <1>2, <1>4, <2>1, RunOwed DEF WalkRun
  <2>3. WalkIntent.qty \in Nat /\ MaxQty \in Nat /\ WalkIntent.qty <= MaxQty
    <3>1. WalkIntent \in Intents
      BY <1>2, CommandParts DEF WalkIntent
    <3>2. QED
      BY <3>1, DomainAssumption DEF Intents, Quantities
  <2>4. Owed(id) <= WalkIntent.qty
    <3>1. k \in Awaited
      BY <1>2 DEF Awaited
    <3>2. QED
      BY <1>1, <1>2, <3>1 DEF Registered, Agrees, WalkIntent
  <2>5. Owed(id) \in Nat
    <3>1. outFills \in Seq(Fills) /\ cursor \in Nat
      BY <1>2 DEF TypeInv, TypeOK, SeamTypeOK, EngineTypeOK
    <3>2. Unapplied \in SUBSET DOMAIN outFills
      BY <1>2, <3>1 DEF Unapplied
    <3>3. QED
      BY <3>1, <3>2, QtyNat DEF Owed
  <2>6. q \in Quantities
    BY <2>2, <2>3, <2>4, <2>5 DEF Quantities
  <2>7. CloseFault(WalkIntent.pos, q) \notin BookDesyncs
    BY <1>2, AgreeingBooksPass
  <2>8. WalkFault = IF WalkIntent.action = "close" THEN CloseFault(WalkIntent.pos, q)
                    ELSE "none"
    BY <1>1, <1>3, <1>6, <2>1, <2>6 DEF WalkFault
  <2>9. QED
    BY <2>7, <2>8 DEF CloseFault, BookDesyncs, SeamDesyncs
<1>7. QED
  BY <1>5, <1>6

\* The channels cover the fills.
LEMMA ValidatePasses ==
  ASSUME SeamInv, pc = "validate"
  PROVE  ValidateFault \notin BookDesyncs \cup SeamDesyncs
<1>1. CountOf(carryGroups) + CountOf(fillGroups) = Len(outFills)
  BY DEF SeamInv, Grouped, Filling, Calling
<1>2. QED
  BY <1>1 DEF ValidateFault, BookDesyncs, SeamDesyncs

\* What the two sides would report had they lost track of each other.
LostTrack == SeamDesyncs \ FillDesyncs

\* No step reports it.
LEMMA StepKeepsTrack ==
  ASSUME SeamInv, error \notin LostTrack, [Next]_vars
  PROVE  error' \notin LostTrack
<1>1. CASE EngineNext /\ UNCHANGED fillVars
  <2>1. CASE \/ OnStart \/ Exits \/ OnSnapshot \/ MintIds \/ CarryOpensLeg
             \/ CarryExtendsLeg \/ CarryClosesLeg \/ CarryDone \/ WalkCancel
             \/ WalkRestsOpen \/ WalkRestsClose \/ WalkOpens \/ WalkCloses \/ Advance
    BY <2>1 DEF OnStart, Exits, OnSnapshot, MintIds, CarryOpensLeg, CarryExtendsLeg,
       CarryClosesLeg, CarryDone, WalkCancel, WalkRestsOpen, WalkRestsClose, WalkOpens,
       WalkCloses, Advance, CarryNext, WalkNext
  <2>2. CASE OnEnd \/ Settle \/ SettleExpired
    BY <2>2 DEF OnEnd, Settle, SettleExpired, SettleFault, AbortEngine, AbortSeam,
       LostTrack, SeamDesyncs
  <2>3. CASE Validate
    <3>1. ValidateFault \notin BookDesyncs \cup SeamDesyncs
      BY <2>3, ValidatePasses DEF Validate
    <3>2. QED
      BY <2>3, <3>1 DEF Validate, AbortEngine, AbortSeam, LostTrack
  <2>4. CASE CarryFails
    <3>1. CarryFault \notin BookDesyncs \cup SeamDesyncs
      BY <2>4, CarryPasses DEF CarryFails
    <3>2. QED
      BY <2>4, <3>1 DEF CarryFails, AbortEngine, AbortSeam, LostTrack
  <2>5. CASE WalkFails
    <3>1. WalkFault \notin BookDesyncs \cup SeamDesyncs
      BY <2>5, WalkPasses DEF WalkFails
    <3>2. QED
      BY <2>5, <3>1 DEF WalkFails, AbortEngine, AbortSeam, LostTrack
  <2>6. CASE WalkDone
    BY <1>1, <2>6, DoneKeeps
  <2>7. QED
    BY <1>1, <2>1, <2>2, <2>3, <2>4, <2>5, <2>6 DEF EngineNext
<1>2. CASE FillNext /\ UNCHANGED engineVars
  <2>1. CASE \/ RefreshBooks \/ \E rests \in BOOLEAN : ReseedNext(rests)
             \/ ReseedDone \/ LifecycleDone \/ SubmitSkip \/ SubmitDone
             \/ \E levels \in Walks, rest \in 0..MaxQty : SubmitOne(levels, rest)
    BY <2>1 DEF RefreshBooks, ReseedNext, ReseedDone, LifecycleDone, SubmitSkip,
       SubmitDone, SubmitOne
  <2>2. ASSUME NEW seq, NEW q, ReseedCross(seq, q)
        PROVE  error' \notin LostTrack
    BY <2>2 DEF ReseedCross, CaptureFault, AbortFill, AbortSeam, LostTrack, FillDesyncs
  <2>3. CASE LifecycleOne \/ SubmitSelfCross
    BY <2>3 DEF LifecycleOne, SubmitSelfCross, AbortFill, AbortSeam, LostTrack,
       FillDesyncs, SeamDesyncs
  <2>4. CASE SubmitFails
    <3>1. SubmitFault # "under_cover"
      BY <2>4, CallCovered DEF SubmitFails, SeamInv
    <3>2. SubmitFault \notin LostTrack
      BY <3>1 DEF SubmitFault, LostTrack, SeamDesyncs
    <3>3. QED
      BY <2>4, <3>2 DEF SubmitFails, AbortFill, AbortSeam
  <2>5. QED
    BY <1>2, <2>1, <2>2, <2>3, <2>4 DEF FillNext
<1>3. CASE UNCHANGED vars
  BY <1>3 DEF vars, seamVars
<1>4. QED
  BY <1>1, <1>2, <1>3 DEF Next

-----------------------------------------------------------------------------
(* The theorem.                                                            *)

\* A step of the fill model.
LEMMA FillKeepsSeam ==
  ASSUME SeamInv, FillNext, UNCHANGED engineVars, pc' # "failed"
  PROVE  (Minted /\ Grouped /\ Registered)'
<1>1. CASE RefreshBooks
  BY <1>1, RefreshKeeps
<1>2. CASE \/ \E rests \in BOOLEAN : ReseedNext(rests)
           \/ ReseedDone \/ LifecycleDone \/ SubmitSkip \/ SubmitDone
  BY <1>2, PhaseKeeps
<1>3. CASE LifecycleOne
  BY <1>3, CancelKeeps
<1>4. ASSUME NEW seq, NEW q \in Quantities, ReseedCross(seq, q)
      PROVE  (Minted /\ Grouped /\ Registered)'
  BY <1>4, CrossKeeps
<1>5. ASSUME NEW levels \in Walks, NEW rest \in 0..MaxQty, SubmitOne(levels, rest)
      PROVE  (Minted /\ Grouped /\ Registered)'
  BY <1>5, SubmitKeeps
<1>6. ~ (SubmitFails \/ SubmitSelfCross)
  BY DEF SubmitFails, SubmitSelfCross, AbortFill, AbortSeam
<1>7. QED
  BY <1>1, <1>2, <1>3, <1>4, <1>5, <1>6 DEF FillNext

\* A step of the engine.
LEMMA EngineKeepsSeam ==
  ASSUME SeamInv, EngineNext, UNCHANGED fillVars, pc' # "failed"
  PROVE  (Minted /\ Grouped /\ Registered)'
<1>1. CASE OnStart \/ Exits \/ OnSnapshot \/ OnEnd \/ Settle \/ Advance
  BY <1>1, BetweenKeeps
<1>2. CASE MintIds
  BY <1>2, MintKeeps
<1>3. CASE Validate \/ CarryDone
  BY <1>3, TurnsKeep
<1>4. CASE CarryOpensLeg \/ CarryExtendsLeg \/ CarryClosesLeg
  <2>1. AtCarry /\ CarryFault = "none" /\ CarryNext
    BY <1>4 DEF CarryOpensLeg, CarryExtendsLeg, CarryClosesLeg
  <2>2. PICK trade, p : pending' = Shrunk(trade, p)
    BY <1>4 DEF CarryOpensLeg, CarryExtendsLeg, CarryClosesLeg
  <2>3. QED
    BY <2>1, <2>2, CarryKeeps
<1>5. CASE WalkCancel \/ WalkRestsOpen \/ WalkRestsClose \/ WalkOpens \/ WalkCloses
  BY <1>5, WalkEnters, WalkKeeps
<1>6. CASE WalkDone
  BY <1>6, DoneKeeps
<1>7. ~ (CarryFails \/ WalkFails \/ SettleExpired)
  BY DEF CarryFails, WalkFails, SettleExpired, AbortEngine, AbortSeam
<1>8. QED
  BY <1>1, <1>2, <1>3, <1>4, <1>5, <1>6, <1>7 DEF EngineNext

\* Every step keeps the invariant.
LEMMA StepKeepsSeam ==
  ASSUME SeamInv, [Next]_vars
  PROVE  SeamInv'
<1>1. FillInv' /\ LegsInv'
  BY StepKeepsFill, StepKeepsInv DEF SeamInv
<1>2. Room'
  BY StepKeepsRoom DEF SeamInv
<1>3. ASSUME pc' # "failed"
      PROVE  (Minted /\ Grouped /\ Registered)'
  <2>1. CASE UNCHANGED vars
    <3>1. /\ UNCHANGED <<pc, cmds, submitIds, nextOrder, outFills, carryGroups, fillGroups,
                         k, cursor, gi, pending, mirror, orderIndex>>
          /\ Minted /\ Grouped /\ Registered
      BY <1>3, <2>1 DEF vars, seamVars, engineVars, fillVars, idVars, walkVars, SeamInv
    <3>2. Unapplied' = Unapplied /\ Awaited' = Awaited /\ Doomed' = Doomed
      BY <3>1 DEF Unapplied, Awaited, Doomed, Withdrawing
    <3>3. Registered'
      BY <3>1, <3>2, SameKeeps
    <3>4. Minted'
      BY <3>1 DEF Minted, NextId, FirstNew, Submissions, Ordinal
    <3>5. /\ pc \in Filling => Grouped'
          /\ pc \notin Filling => Grouped'
      BY <3>1, GroupedKeeps DEF Grouped, Filling, Calling
    <3>6. QED
      BY <3>3, <3>4, <3>5
  <2>2. QED
    BY <1>3, <2>1, FillKeepsSeam, EngineKeepsSeam DEF Next
<1>4. QED
  BY <1>1, <1>2, <1>3 DEF SeamInv

\* A run starts with nothing under way.
LEMMA InitSeam ==
  ASSUME Init
  PROVE  SeamInv
<1>1. FillInv
  BY InitFill
<1>2. LegsInv
  BY InitType DEF Init, EngineInit, LegsInv, LegsAgree, IdsMinted, EntriesKnowTrade
<1>3. /\ pc = "start" /\ cmds = <<>> /\ pending = <<>> /\ orderIndex = <<>>
  BY DEF Init, SeamInit, EngineInit, FillInit
<1>4. Room
  BY <1>3 DEF Room
<1>5. Minted /\ Grouped
  BY <1>3 DEF Minted, Grouped, Filling, Calling, NextId
<1>6. Registered
  BY <1>3 DEF Registered, Awaited, Unapplied
<1>7. QED
  BY <1>1, <1>2, <1>4, <1>5, <1>6 DEF SeamInv

\* The engine's registry and the fill model's mirror track the same working
\* orders, of the same contract, side and remaining size, whenever control is
\* back with the strategy; and no check by which apply_step_fills or the fill
\* model would notice that one had lost track of the other ever fires, whatever
\* the strategy submits, cancels and replaces and however the books match.
THEOREM RegistryAlwaysMatches == Spec => []RegistryMatchesMirror
<1>1. Init => SeamInv /\ NoBookDesync /\ error \notin FillDesyncs /\ error \notin LostTrack
  BY InitSeam DEF Init, SeamInit, NoBookDesync, BookDesyncs, FillDesyncs, LostTrack,
     SeamDesyncs
<1>2. SeamInv /\ NoBookDesync /\ error \notin FillDesyncs /\ error \notin LostTrack
        /\ [Next]_vars
      => (SeamInv /\ NoBookDesync /\ error \notin FillDesyncs /\ error \notin LostTrack)'
  <2> SUFFICES ASSUME SeamInv, NoBookDesync, error \notin FillDesyncs,
                      error \notin LostTrack, [Next]_vars
               PROVE  /\ SeamInv' /\ NoBookDesync'
                      /\ (error \notin FillDesyncs)' /\ (error \notin LostTrack)'
    OBVIOUS
  <2>1. FillInv /\ LegsInv
    BY DEF SeamInv
  <2>2. SeamInv' /\ NoBookDesync'
    BY <2>1, StepKeepsSeam, StepNeverDesyncs
  <2>3. error' \notin FillDesyncs /\ error' \notin LostTrack
    BY <2>1, ModelNeverDesyncs, StepKeepsTrack
  <2>4. FillDesyncs' = FillDesyncs /\ LostTrack' = LostTrack
    BY DEF FillDesyncs, LostTrack, SeamDesyncs
  <2>5. QED
    BY <2>2, <2>3, <2>4
<1>3. SeamInv /\ NoBookDesync /\ error \notin FillDesyncs /\ error \notin LostTrack
        => RegistryMatchesMirror
  <2> SUFFICES ASSUME SeamInv, NoBookDesync, error \notin FillDesyncs, error \notin LostTrack
               PROVE  RegistryMatchesMirror
    OBVIOUS
  <2>1. error \notin BookDesyncs \cup SeamDesyncs
    BY DEF NoBookDesync, LostTrack
  <2>2. BetweenCalls => pc # "failed" /\ Quiet
    BY DEF BetweenCalls, Quiet, Unapplied, Awaited, Doomed, Withdrawing
  <2>3. QED
    BY <2>1, <2>2, QuietMatches DEF RegistryMatchesMirror
<1>4. QED
  BY <1>1, <1>2, <1>3, PTL DEF Spec

=============================================================================
