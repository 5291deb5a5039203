------------------------------- MODULE Replay -------------------------------
(***************************************************************************)
(* One replay run in realistic mode: the engine of ReplayEngine driving    *)
(* the fill model of RealisticFill through the ExecutionModel seam.        *)
(***************************************************************************)
EXTENDS ReplayEngine, RealisticFill

vars == <<seamVars, engineVars, fillVars>>

Init == SeamInit /\ EngineInit /\ FillInit

Finished == pc \in {"done", "failed"}

Next ==
  \/ EngineNext /\ UNCHANGED fillVars
  \/ FillNext /\ UNCHANGED engineVars
  \/ Finished /\ UNCHANGED vars

Spec == Init /\ [][Next]_vars

\* The program is one thread that never waits: it takes its next step.
FairSpec == Spec /\ WF_vars(Next)

TypeOK == SeamTypeOK /\ EngineTypeOK /\ FillTypeOK

-----------------------------------------------------------------------------
(* The engine's own books.                                                 *)

\* The inventory, the trade log and the bundle collector hold the same open
\* legs, of the same size, under the same trade: what a close realises, what a
\* position row reports and what is really held never drift apart, although
\* each of open, extend, reduce and close updates the three separately.
LegsAgree ==
  /\ DOMAIN tradeOpen = DOMAIN inventory
  /\ DOMAIN openLegs = DOMAIN inventory
  /\ \A p \in DOMAIN inventory :
       /\ tradeOpen[p].remaining = inventory[p].qty
       /\ tradeOpen[p].trade = openLegs[p]

RecordsOfOrder(o)   == {i \in DOMAIN records : records[i].order = o}
RecordsOfLeg(p, a)  == {i \in DOMAIN records : records[i].pos = p
                                            /\ records[i].action = a}
Recorded(S) == SumOver([i \in DOMAIN records |-> records[i].fill.qty], S)

\* Replaying fills.parquet gives the inventory back: for every position, what
\* its opening fills bought less what its closing fills sold is what is held;
\* and positions.parquet gets one terminal row for a leg its fills closed in
\* full, and none for a leg that is still open or only partly closed.
BundleReplaysInventory ==
  \A p \in 1..(nextPos - 1) :
    LET bought == Recorded(RecordsOfLeg(p, "open"))
        sold == Recorded(RecordsOfLeg(p, "close"))
    IN  /\ bought - sold = IF p \in DOMAIN inventory THEN inventory[p].qty ELSE 0
        /\ Cardinality({i \in DOMAIN terminalRows : terminalRows[i].pos = p})
             = IF bought = sold THEN 1 ELSE 0

\* Opens of one step share a trade, opens of different steps never do - also
\* when an order rests and fills only in a later step.
TradePerStep ==
  \A i, j \in DOMAIN records :
    LET a == records[i]  b == records[j] IN
      (a.action = "open" /\ b.action = "open") =>
        ((submitted[a.order].call = submitted[b.order].call) <=> (a.trade = b.trade))

-----------------------------------------------------------------------------
(* The seam between the fill model and the engine.                         *)

\* The rows of fills.parquet tell the truth: each is under the order that
\* really traded, which only the positions of the carry and fill groups tell;
\* an order's rows are numbered 0, 1, ... as they were recorded, across steps;
\* the per-order fee is on the first of them and on no other, whether it came
\* at submit or from a refresh steps later; and an opening order builds one leg
\* however many steps its fills are spread over, a leg no other order shares.
FillRowsSound ==
  \A i \in DOMAIN records :
    LET row == records[i] IN
      /\ row.order = row.fill.owner
      /\ row.seq = Cardinality({j \in RecordsOfOrder(row.order) : j < i})
      /\ row.fill.charge = "first" <=> row.seq = 0
      /\ \A j \in DOMAIN records :
           (row.action = "open" /\ records[j].action = "open") =>
             ((row.order = records[j].order) <=> (row.pos = records[j].pos))

\* Between two execution calls.
BetweenCalls == pc \in {"exits", "advance", "done"}

\* The aborts that say the two sides lost track of each other, or of their own
\* books.
BookDesyncs == {"log_desync", "untracked_leg"}
SeamDesyncs == {"refresh_desync", "live_desync", "under_cover", "coverage",
                "carry_unknown", "carry_exceeds", "quantity_overflow",
                "uncorrelated"}

\* The two sides track the same working orders: the engine's registry and the
\* fill model's mirror list the same ids, with the same contract, side and
\* remaining size, and agree on whether the order has filled.  So a run never
\* stops because one side lost track of the other: whatever a strategy does,
\* it fails only for a reason the strategy or the tape gave.
RegistryMatchesMirror ==
  /\ error \notin BookDesyncs \cup SeamDesyncs
  /\ BetweenCalls =>
       /\ DOMAIN pending = DOMAIN orderIndex
       /\ \A o \in DOMAIN pending :
            LET meta == mirror[orderIndex[o]]
                entry == pending[o]
            IN  /\ meta.order = o
                /\ meta.contract = entry.intent.contract
                /\ meta.side = entry.intent.side
                /\ meta.remaining = entry.intent.qty
                /\ meta.firstFillDone = (entry.fillsSoFar > 0)

\* No contract of a good-till-cancelled order is lost or traded twice: between
\* calls what was recorded and what rests add up to what was submitted, unless
\* the strategy withdrew the order; no order ever trades more.
OrderConservation ==
  BetweenCalls =>
    \A o \in DOMAIN submitted :
      LET size == submitted[o].intent.qty
          done == Recorded(RecordsOfOrder(o))
          rest == IF o \in DOMAIN pending THEN pending[o].intent.qty ELSE 0
      IN  /\ done + rest <= size
          /\ (submitted[o].intent.kind = "gtc" /\ o \notin withdrawn) =>
               done + rest = size

-----------------------------------------------------------------------------
(* The fill model's own books.                                             *)

\* The mirror lists exactly the strategy orders resting in the leaf books, with
\* their sizes: no refresh evicts a book a working order lives in, and no
\* match, cancel or replace updates one side only.  The id bridge has one entry
\* per resting order, and the eviction index counts the resting orders of each
\* contract, with no entry at zero (one would keep a departed book for good).
MirrorMatchesBooks ==
  /\ orderIndex = [o \in {mirror[seq].order : seq \in DOMAIN mirror} |->
                     CHOOSE seq \in DOMAIN mirror : mirror[seq].order = o]
  /\ Cardinality(DOMAIN orderIndex) = Cardinality(DOMAIN mirror)
  /\ liveOrders = [c \in {mirror[seq].contract : seq \in DOMAIN mirror} |->
                     Cardinality({seq \in DOMAIN mirror : mirror[seq].contract = c})]
  /\ pc # "failed" =>
       /\ DOMAIN mirror = UNION {DOMAIN books[c].orders : c \in DOMAIN books}
       /\ \A seq \in DOMAIN mirror :
            /\ mirror[seq].contract \in DOMAIN books
            /\ seq \in DOMAIN books[mirror[seq].contract].orders
            /\ books[mirror[seq].contract].orders[seq] =
                 [qty |-> mirror[seq].remaining, side |-> mirror[seq].side]

\* Synthetic depth never accumulates: once the refresh has begun to reseed,
\* every ladder left in a book is of this snapshot, and so of a quoted contract.
NoStaleDepth ==
  pc \in {"reseed", "lifecycle", "submit", "validate", "carry", "walk",
          "settle", "advance", "done"} =>
    \A c \in DOMAIN books : \A ladder \in books[c].seeds :
      ladder[1] = call /\ c \in quoted

-----------------------------------------------------------------------------
(* Termination and the terminal step.                                      *)

\* With no close from on_snapshot, the exits and close_all of the terminal
\* step never close a leg twice nor more of it than is open.
NoDoubleClose == error \notin {"close_not_open", "close_oversize"}

\* A run ends: the loop leaves at the final step or at the first error.
Terminates == <>Finished
=============================================================================
