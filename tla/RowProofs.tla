----------------------------- MODULE RowProofs -----------------------------
(***************************************************************************)
(* What a replay run writes, for every value of the constants: the rows of *)
(* fills.parquet and positions.parquet against the orders submitted and    *)
(* the legs held (OrderConservation, FillRowsSound,                        *)
(* BundleReplaysInventory, TradePerStep), and that no leg is closed twice  *)
(* (NoDoubleClose).                                                        *)
(*                                                                         *)
(* The first four are about rows that accumulate over calls, in steps that *)
(* each see one run of fills.  RowInv holds in every step.  It adds to     *)
(* SeamInv, which says whose the fills past the cursor are, what the rows  *)
(* behind the cursor say: with what rests they add up to what was          *)
(* submitted (Conserved), they are numbered and the entries count them     *)
(* (Numbered, Tallied), an order opens one leg that its entry names        *)
(* (OwnLegs), and the opens of a call are of one trade that no other call  *)
(* has (Traded).  Charged is about the fills yet to be applied: one bears  *)
(* the order fee if no row and no earlier fill is of its order.  Known and *)
(* Placed bound the ids of the rows, so that an order or a leg that is new *)
(* has none.                                                               *)
(*                                                                         *)
(* The last one needs ClosesOnce: what the exits and close_all have put in *)
(* the queue is, from then until the command walk reaches it, the only     *)
(* close of its leg and of no more than is held.                           *)
(***************************************************************************)
EXTENDS ReplayProofs

-----------------------------------------------------------------------------
(* Rows after rows.                                                        *)

\* The indexes of the rows of a kind.
Among(rows, B) == {i \in DOMAIN rows : rows[i] \in B}

\* They are finitely many.
LEMMA AmongFinite ==
  ASSUME NEW S, NEW rows \in Seq(S), NEW B
  PROVE  /\ IsFiniteSet(Among(rows, B)) /\ Cardinality(Among(rows, B)) \in Nat
         /\ Cardinality(Among(rows, B)) = 0 <=> Among(rows, B) = {}
<1>1. IsFiniteSet(DOMAIN rows)
  <2>1. DOMAIN rows = 1..Len(rows) /\ Len(rows) \in Int
    OBVIOUS
  <2>2. QED
    BY <2>1, FS_Interval
<1>2. Among(rows, B) \subseteq DOMAIN rows
  BY DEF Among
<1>3. IsFiniteSet(Among(rows, B))
  BY <1>1, <1>2, FS_Subset
<1>4. QED
  BY <1>3, FS_CardinalityType, FS_EmptySet

\* The elements of a sequence over a set are of the set.
LEMMA ElementsIn ==
  ASSUME NEW S, NEW s \in Seq(S)
  PROVE  \A i \in DOMAIN s : s[i] \in S
  OBVIOUS

\* Rows appended to others: where each of them is found.
LEMMA RowsAfter ==
  ASSUME NEW S, NEW a \in Seq(S), NEW b \in Seq(S), NEW m, NEW n, m = Len(a), n = Len(b)
  PROVE  /\ a \o b \in Seq(S) /\ m \in Nat /\ n \in Nat
         /\ DOMAIN a = 1..m /\ DOMAIN b = 1..n
         /\ DOMAIN (a \o b) = DOMAIN a \cup (m + 1)..(m + n)
         /\ DOMAIN a \cap (m + 1)..(m + n) = {}
         /\ \A i \in DOMAIN a : (a \o b)[i] = a[i]
         /\ \A i \in (m + 1)..(m + n) : i - m \in DOMAIN b /\ (a \o b)[i] = b[i - m]
         /\ \A i \in DOMAIN b : m + i \in (m + 1)..(m + n) /\ (a \o b)[m + i] = b[i]
  OBVIOUS

\* What n elements behind the first c of a sequence are.
TakenFrom(S, s, c, n, run) ==
  s \in Seq(S) /\ c \in Nat /\ n \in Nat /\ c + n <= Len(s) /\ run = SubSeq(s, c + 1, c + n)

LEMMA SubRun ==
  ASSUME NEW S, NEW s, NEW c, NEW n, NEW run, TakenFrom(S, s, c, n, run)
  PROVE  /\ run \in Seq(S) /\ Len(run) = n /\ DOMAIN run = 1..n
         /\ \A i \in 1..n : run[i] = s[c + i]
<1>1. run = [i \in 1..n |-> s[c + i]] /\ n \in Nat
  BY DEF TakenFrom
<1>2. \A i \in 1..n : s[c + i] \in S
  BY DEF TakenFrom
<1>3. QED
  BY <1>1, <1>2

\* The places n rows take behind m others.
Behind(m, n) == (m + 1)..(m + n)
AllOf(rows, B) == \A i \in DOMAIN rows : rows[i] \in B
NoneOf(rows, B) == \A i \in DOMAIN rows : rows[i] \notin B

\* n elements b come behind the m elements a, and make c.
Follows(S, a, b, c, m, n) ==
  a \in Seq(S) /\ b \in Seq(S) /\ m = Len(a) /\ n = Len(b) /\ c = a \o b

\* Those places are the new part of the domain.
Appended(S, a, b, c, m, n) ==
  /\ a \in Seq(S) /\ b \in Seq(S) /\ c \in Seq(S) /\ m \in Nat /\ n \in Nat
  /\ DOMAIN c = DOMAIN a \cup Behind(m, n) /\ DOMAIN a \cap Behind(m, n) = {}
  /\ \A i \in DOMAIN a : c[i] = a[i]
  /\ \A i \in Behind(m, n) : i - m \in DOMAIN b /\ c[i] = b[i - m]
  /\ \A i \in DOMAIN b : m + i \in Behind(m, n) /\ c[m + i] = b[i]
  /\ IsFiniteSet(Behind(m, n)) /\ Cardinality(Behind(m, n)) = n

LEMMA PlacesBehind ==
  ASSUME NEW S, NEW a, NEW b, NEW c, NEW m, NEW n, Follows(S, a, b, c, m, n)
  PROVE  Appended(S, a, b, c, m, n)
<1>0. a \in Seq(S) /\ b \in Seq(S) /\ m = Len(a) /\ n = Len(b) /\ c = a \o b
  BY DEF Follows
<1>1. /\ a \o b \in Seq(S) /\ m \in Nat /\ n \in Nat
      /\ DOMAIN (a \o b) = DOMAIN a \cup (m + 1)..(m + n)
      /\ DOMAIN a \cap (m + 1)..(m + n) = {}
      /\ \A i \in DOMAIN a : (a \o b)[i] = a[i]
      /\ \A i \in (m + 1)..(m + n) : i - m \in DOMAIN b /\ (a \o b)[i] = b[i - m]
      /\ \A i \in DOMAIN b : m + i \in (m + 1)..(m + n) /\ (a \o b)[m + i] = b[i]
  BY <1>0
<1>2. m + 1 \in Int /\ m + n \in Int
  BY <1>1
<1>3. /\ IsFiniteSet((m + 1)..(m + n))
      /\ Cardinality((m + 1)..(m + n)) = IF m + 1 > m + n THEN 0 ELSE (m + n) - (m + 1) + 1
  BY <1>2, FS_Interval
<1>4. Cardinality((m + 1)..(m + n)) = n
  BY <1>1, <1>3
<1>5. QED
  BY <1>0, <1>1, <1>3, <1>4 DEF Behind, Appended

\* If all of the new rows are of the kind there are that many more.
AddsAll(a, c, m, n, B) ==
  /\ Among(c, B) = Among(a, B) \cup Behind(m, n)
  /\ Among(a, B) \cap Behind(m, n) = {}
  /\ Cardinality(Among(c, B)) = Cardinality(Among(a, B)) + n

LEMMA AmongAll ==
  ASSUME NEW S, NEW a, NEW b, NEW c, NEW m, NEW n, Follows(S, a, b, c, m, n),
         NEW B, AllOf(b, B)
  PROVE  AddsAll(a, c, m, n, B)
<1>1. PICK T : T = Behind(m, n)
  OBVIOUS
<1>2. /\ n \in Nat /\ DOMAIN c = DOMAIN a \cup T /\ DOMAIN a \cap T = {}
      /\ \A i \in DOMAIN a : c[i] = a[i]
      /\ \A i \in T : i - m \in DOMAIN b /\ c[i] = b[i - m]
      /\ IsFiniteSet(T) /\ Cardinality(T) = n
  <2>1. Appended(S, a, b, c, m, n)
    BY PlacesBehind
  <2>2. QED
    BY <1>1, <2>1 DEF Appended
<1>3. \A i \in T : c[i] \in B
  BY <1>2 DEF AllOf
<1>4. Among(c, B) = Among(a, B) \cup T /\ Among(a, B) \cap T = {}
  BY <1>2, <1>3 DEF Among
<1>5. IsFiniteSet(Among(a, B)) /\ Cardinality(Among(a, B)) \in Nat
  BY AmongFinite DEF Follows
<1>6. Cardinality(Among(a, B) \cup T)
        = Cardinality(Among(a, B)) + Cardinality(T) - Cardinality(Among(a, B) \cap T)
  BY <1>2, <1>5, FS_Union
<1>7. Cardinality(Among(a, B) \cap T) = 0
  BY <1>4, FS_EmptySet
<1>8. Cardinality(Among(c, B)) = Cardinality(Among(a, B)) + n
  BY <1>2, <1>4, <1>5, <1>6, <1>7
<1>9. QED
  BY <1>1, <1>4, <1>8 DEF AddsAll

\* If none is there are as many as before.
LEMMA AmongNone ==
  ASSUME NEW S, NEW a, NEW b, NEW c, NEW m, NEW n, Follows(S, a, b, c, m, n),
         NEW B, NoneOf(b, B)
  PROVE  Among(c, B) = Among(a, B)
<1>2. PICK T : T = Behind(m, n)
  OBVIOUS
<1>3. /\ DOMAIN c = DOMAIN a \cup T
      /\ \A i \in DOMAIN a : c[i] = a[i]
      /\ \A i \in T : i - m \in DOMAIN b /\ c[i] = b[i - m]
  <2>1. Appended(S, a, b, c, m, n)
    BY PlacesBehind
  <2>2. QED
    BY <1>2, <2>1 DEF Appended
<1>4. \A i \in T : c[i] \notin B
  BY <1>3 DEF NoneOf
<1>5. QED
  BY <1>3, <1>4 DEF Among

\* What the rows of a kind trade.
Bulk(rows, B) == SumOver([i \in DOMAIN rows |-> rows[i].fill.qty], Among(rows, B))

\* It is a number.
LEMMA BulkNat ==
  ASSUME NEW rows \in Seq(Records), NEW B
  PROVE  Bulk(rows, B) \in Nat
<1> DEFINE f == [i \in DOMAIN rows |-> rows[i].fill.qty]
           A == Among(rows, B)
<1>1. \A i \in DOMAIN rows : rows[i] \in Records
  BY ElementsIn
<1>2. \A i \in DOMAIN rows : f[i] \in Nat /\ f[i] \in Int
  BY <1>1 DEF Records, Fills, Quantities
<1>3. A \subseteq DOMAIN rows /\ IsFiniteSet(A)
  BY AmongFinite DEF Among
<1>4. Bulk(rows, B) = SumFunctionOnSet(f, A)
  BY DEF Bulk, SumOver
<1> HIDE DEF f, A
<1>5. Numbers(f, A) /\ \A i \in A : f[i] \in Nat
  BY <1>2, <1>3 DEF Numbers
<1>6. QED
  BY <1>3, <1>4, <1>5, SumNat

\* Rows recorded of a run are as many as its fills.
RowsOfFills(rows, run, order, action, trade, p, first) ==
  /\ rows \in Seq(Records) /\ Len(rows) = Len(run) /\ DOMAIN rows = DOMAIN run
  /\ \A i \in DOMAIN run :
       rows[i] = [order |-> order, seq |-> first + i - 1, trade |-> trade, pos |-> p,
                  action |-> action, fill |-> run[i]]

LEMMA RunRows ==
  ASSUME NEW run \in Seq(Fills), NEW order \in OrderIds, NEW action \in {"open", "close"},
         NEW trade \in Nat, NEW p \in Nat, NEW first \in Nat
  PROVE  RowsOfFills(RecordsOf(run, order, action, trade, p, first),
                     run, order, action, trade, p, first)
<1>1. PICK rows : rows = RecordsOf(run, order, action, trade, p, first)
  OBVIOUS
<1>2. DOMAIN run = 1..Len(run) /\ Len(run) \in Nat
  OBVIOUS
<1>3. /\ DOMAIN rows = DOMAIN run
      /\ \A i \in DOMAIN run :
           rows[i] = [order |-> order, seq |-> first + i - 1, trade |-> trade, pos |-> p,
                      action |-> action, fill |-> run[i]]
      /\ rows = [i \in 1..Len(run) |-> rows[i]]
  BY <1>1, <1>2 DEF RecordsOf
<1>4. \A i \in DOMAIN run : first + i - 1 \in Nat /\ run[i] \in Fills
  BY <1>2
<1>5. \A i \in 1..Len(run) : rows[i] \in Records
  BY <1>2, <1>3, <1>4 DEF Records
<1>6. rows \in Seq(Records) /\ Len(rows) = Len(run)
  BY <1>2, <1>3, <1>5
<1>7. QED
  BY <1>1, <1>3, <1>6 DEF RowsOfFills

\* A row for each fill of a run.
RowsOfRun(rows, run) ==
  DOMAIN rows = DOMAIN run /\ \A i \in DOMAIN run : rows[i].fill = run[i]

\* If the rows of a run are of the kind they add its size, and if not, nothing.
AddsRun(a, b, c, run, B) ==
  /\ Bulk(a, B) \in Nat
  /\ AllOf(b, B) => Bulk(c, B) = Bulk(a, B) + TotalQty(run)
  /\ NoneOf(b, B) => Bulk(c, B) = Bulk(a, B)

LEMMA BulkGrows ==
  ASSUME NEW a, NEW b, NEW c, NEW m, NEW n, Follows(Records, a, b, c, m, n),
         NEW run \in Seq(Fills), RowsOfRun(b, run), NEW B
  PROVE  AddsRun(a, b, c, run, B)
<1>1. a \in Seq(Records) /\ b \in Seq(Records) /\ m = Len(a) /\ n = Len(b)
  BY DEF Follows
<1>2. PICK T : T = Behind(m, n)
  OBVIOUS
<1>3. /\ c \in Seq(Records) /\ m \in Nat /\ n \in Nat
      /\ DOMAIN c = DOMAIN a \cup T /\ DOMAIN a \cap T = {}
      /\ \A i \in DOMAIN a : c[i] = a[i]
      /\ \A i \in DOMAIN b : m + i \in T /\ c[m + i] = b[i]
      /\ IsFiniteSet(T)
  <2>1. Appended(Records, a, b, c, m, n)
    BY PlacesBehind
  <2>2. QED
    BY <1>2, <2>1 DEF Appended
<1>4. DOMAIN b = 1..n /\ DOMAIN run = 1..n /\ \A i \in 1..n : b[i].fill = run[i]
  <2>1. DOMAIN b = 1..n
    BY <1>1
  <2>2. QED
    BY <2>1 DEF RowsOfRun
<1> DEFINE f == [i \in DOMAIN a |-> a[i].fill.qty]
           g == [i \in DOMAIN c |-> c[i].fill.qty]
           h == [i \in DOMAIN run |-> run[i].qty]
           A == Among(a, B)
<1>5. \A i \in DOMAIN c : g[i] \in Nat /\ g[i] \in Int
  <2>1. c \in Seq(Records)
    BY <1>3
  <2>2. \A i \in DOMAIN c : c[i] \in Records
    BY <2>1, ElementsIn
  <2>3. QED
    BY <2>2 DEF Records, Fills, Quantities
<1>6. \A i \in DOMAIN a : f[i] = g[i] /\ f[i] \in Nat /\ f[i] \in Int
  BY <1>3, <1>5
<1>7. Bulk(a, B) = SumFunctionOnSet(f, A) /\ Bulk(c, B) = SumFunctionOnSet(g, Among(c, B))
  BY DEF Bulk, SumOver
<1>8. TotalQty(run) = SumFunctionOnSet(h, 1..n)
  BY <1>4 DEF TotalQty, SumOver
<1>9. Shifted(g, h, m, n)
  <2>1. ASSUME NEW i \in 1..n
        PROVE  h[i] = g[m + i] /\ h[i] \in Int
    <3>1. m + i \in DOMAIN c /\ c[m + i] = b[i] /\ b[i].fill = run[i] /\ i \in DOMAIN run
      BY <1>3, <1>4
    <3>2. g[m + i] = run[i].qty /\ h[i] = run[i].qty
      BY <3>1
    <3>3. QED
      BY <1>5, <3>1, <3>2
  <2>2. QED
    BY <2>1 DEF Shifted
<1>10. A \subseteq DOMAIN a /\ IsFiniteSet(A)
  BY <1>1, AmongFinite DEF Among
<1> HIDE DEF f, g, h, A
<1>11. Numbers(f, A) /\ \A i \in A : f[i] \in Nat /\ f[i] = g[i]
  BY <1>6, <1>10 DEF Numbers
<1>12. SumFunctionOnSet(f, A) \in Nat /\ SumFunctionOnSet(g, A) = SumFunctionOnSet(f, A)
  BY <1>10, <1>11, SumNat, SumSame
<1>13. ASSUME AllOf(b, B)
       PROVE  Bulk(c, B) = Bulk(a, B) + TotalQty(run)
  <2>1. Among(c, B) = A \cup T /\ A \cap T = {}
    <3>1. Among(c, B) = Among(a, B) \cup Behind(m, n) /\ Among(a, B) \cap Behind(m, n) = {}
      <4>1. AddsAll(a, c, m, n, B)
        BY <1>13, AmongAll
      <4>2. QED
        BY <4>1 DEF AddsAll
    <3>2. QED
      BY <1>2, <3>1 DEF A
  <2>2. Numbers(g, A \cup T)
    BY <1>3, <1>5, <1>10 DEF Numbers
  <2>3. SumFunctionOnSet(g, A \cup T) = SumFunctionOnSet(g, A) + SumFunctionOnSet(g, T)
    BY <1>3, <1>10, <2>1, <2>2, SumUnion
  <2>4. SumFunctionOnSet(h, 1..n) = SumFunctionOnSet(g, (m + 1)..(m + n))
    BY <1>3, <1>9, SumShift
  <2>5. SumFunctionOnSet(h, 1..n) = SumFunctionOnSet(g, T)
    BY <1>2, <2>4 DEF Behind
  <2>6. QED
    BY <1>7, <1>8, <1>12, <2>1, <2>3, <2>5
<1>14. ASSUME NoneOf(b, B)
       PROVE  Bulk(c, B) = Bulk(a, B)
  <2>1. Among(c, B) = A
    <3>1. Among(c, B) = Among(a, B)
      BY <1>14, AmongNone
    <3>2. QED
      BY <3>1 DEF A
  <2>2. QED
    BY <1>7, <1>12, <2>1
<1>15. QED
  BY <1>7, <1>12, <1>13, <1>14 DEF AddsRun

-----------------------------------------------------------------------------
(* The invariant of the rows.                                              *)

\* The walk has reached every order that is registered or has a row.
Known ==
  /\ DOMAIN pending \subseteq DOMAIN submitted
  /\ \A i \in DOMAIN records : records[i].order \in DOMAIN submitted
  /\ pc # "failed" => \A o \in DOMAIN submitted : o < NextId
  /\ pc = "walk" => k <= Len(cmds) + 1

\* A row is of a leg that was opened.
Placed ==
  /\ \A i \in DOMAIN records : records[i].pos \in 1..(nextPos - 1)
  /\ \A i \in DOMAIN terminalRows : terminalRows[i].pos \in 1..(nextPos - 1)

\* What an order has left, zero once it is out of the registry.
Rest(o) == IF o \in DOMAIN pending THEN pending[o].intent.qty ELSE 0

\* What was recorded and what rests add up, inside a call too.
Conserved ==
  \A o \in DOMAIN submitted :
    /\ Recorded(RecordsOfOrder(o)) + Rest(o) <= submitted[o].intent.qty
    /\ (submitted[o].intent.kind = "gtc" /\ o \notin withdrawn) =>
         Recorded(RecordsOfOrder(o)) + Rest(o) = submitted[o].intent.qty

\* The rows of an order are numbered, the first bears the order's fee, and the
\* entry counts them.
Numbered ==
  \A i \in DOMAIN records :
    LET row == records[i] IN
    /\ row.order = row.fill.owner
    /\ row.seq = Cardinality({j \in RecordsOfOrder(row.order) : j < i})
    /\ row.fill.charge = "first" <=> row.seq = 0
Tallied == \A o \in DOMAIN pending :
             pending[o].fillsSoFar = Cardinality(RecordsOfOrder(o))

\* An order opens one leg, and the entry of a working order names it.
Opens == {i \in DOMAIN records : records[i].action = "open"}
OwnLegs ==
  /\ \A i, j \in Opens :
       records[i].order = records[j].order <=> records[i].pos = records[j].pos
  /\ \A o \in DOMAIN pending : \A i \in Opens :
       records[i].order = o <=> records[i].pos = pending[o].pos

\* The fill model charges the order fee on the first fill of an order the
\* engine has no row of, and on no other.
Charged ==
  pc # "failed" =>
    \A i \in Unapplied :
      outFills[i].charge = "first" <=>
        /\ RecordsOfOrder(outFills[i].owner) = {}
        /\ \A j \in Unapplied : j < i => outFills[j].owner # outFills[i].owner

\* The calls and the trades their opens go under: of rows, of registered opens
\* and of the walk that is under way.
Uses ==
  {<<submitted[records[i].order].call, records[i].trade>> : i \in Opens}
    \cup {<<submitted[o].call, pending[o].trade>> :
            o \in {x \in DOMAIN pending : pending[x].intent.action = "open"}}
    \cup (IF pc = "walk" /\ stepTrade # 0 THEN {<<call, stepTrade>>} ELSE {})

\* The engine has not taken a trade for this call.
Untraded ==
  pc \in ({"start", "exits", "snapshot", "end", "mint"} \cup Calling)
    /\ (pc = "walk" => stepTrade = 0)

\* One trade for each call that opened something.
Traded ==
  /\ pc = "carry" => stepTrade = 0
  /\ \A u, v \in Uses : u[1] = v[1] <=> u[2] = v[2]
  /\ \A u \in Uses : u[2] \in 1..(nextTrade - 1)
  /\ pc # "failed" =>
       \A u \in Uses : u[1] \in Nat /\ u[1] <= call /\ (Untraded => u[1] < call)

RowInv ==
  /\ SeamInv /\ Known /\ Placed /\ Conserved /\ Numbered /\ Tallied /\ OwnLegs
  /\ Charged /\ Traded /\ BundleReplaysInventory

-----------------------------------------------------------------------------
(* A run of fills is recorded.                                             *)

\* The step that applies the next n fills, all of order o, to the records.
Books(n, o) ==
  /\ IsRunOf(outFills, cursor, n, o) /\ cursor' = cursor + n /\ UNCHANGED <<pc, outFills>>
  /\ pc \in {"carry", "walk"}
  /\ \/ n = 0 /\ records' = records
     \/ /\ n # 0 /\ o \in OrderIds
        /\ \E action \in {"open", "close"}, trade \in Nat, p \in Nat :
             records' = records \o RecordsOf(SubSeq(outFills, cursor + 1, cursor + n),
                          o, action, trade, p, Cardinality(RecordsOfOrder(o)))

\* The parts of the state the rows are read from.
RowTyped ==
  /\ records \in Seq(Records) /\ outFills \in Seq(Fills)
  /\ \A i \in DOMAIN records : records[i] \in Records
  /\ nextPos \in Nat \ {0} /\ nextTrade \in Nat \ {0} /\ nextOrder \in Nat
  /\ call \in Nat /\ stepTrade \in Nat /\ cursor \in Nat
  /\ \A o \in DOMAIN pending : pending[o] \in PendingEntries /\ o \in OrderIds
  /\ \A o \in DOMAIN submitted :
       /\ submitted[o].intent \in Intents /\ submitted[o].call \in Nat
       /\ o \in OrderIds

LEMMA RowTyping == TypeInv => RowTyped
<1> SUFFICES ASSUME TypeInv
             PROVE  RowTyped
  OBVIOUS
<1>1. SeamTypeOK /\ EngineTypeOK /\ BooksTypeOK
  BY DEF TypeInv, TypeOK, EngineTypeOK
<1>2. records \in Seq(Records) /\ outFills \in Seq(Fills)
  BY <1>1 DEF SeamTypeOK, BooksTypeOK
<1>3. \A i \in DOMAIN records : records[i] \in Records
  BY <1>2, ElementsIn
<1>4. nextPos \in Nat \ {0} /\ nextTrade \in Nat \ {0} /\ stepTrade \in Nat /\ cursor \in Nat
  BY <1>1 DEF EngineTypeOK
<1>5. nextOrder \in Nat
  BY <1>1, DomainAssumption DEF EngineTypeOK
<1>6. call \in Nat
  BY <1>1, DomainAssumption DEF SeamTypeOK
<1>7. IsMap(pending, OrderIds, PendingEntries)
  BY <1>1 DEF EngineTypeOK
<1>8. IsMap(submitted, OrderIds, [intent : Intents, call : Nat])
  BY <1>1 DEF EngineTypeOK
<1>9. \A o \in DOMAIN pending : pending[o] \in PendingEntries /\ o \in OrderIds
  BY <1>7 DEF IsMap
<1>10. \A o \in DOMAIN submitted :
         submitted[o] \in [intent : Intents, call : Nat] /\ o \in OrderIds
  BY <1>8 DEF IsMap
<1>11. QED
  BY <1>2, <1>3, <1>4, <1>5, <1>6, <1>9, <1>10 DEF RowTyped

\* They have their types before a step,
LEMMA RowTypes ==
  ASSUME TypeInv
  PROVE  /\ records \in Seq(Records) /\ outFills \in Seq(Fills)
         /\ \A i \in DOMAIN records : records[i] \in Records
         /\ nextPos \in Nat \ {0} /\ nextTrade \in Nat \ {0} /\ nextOrder \in Nat
         /\ call \in Nat /\ stepTrade \in Nat /\ cursor \in Nat
         /\ \A o \in DOMAIN pending : pending[o] \in PendingEntries /\ o \in OrderIds
         /\ \A o \in DOMAIN submitted :
              /\ submitted[o].intent \in Intents /\ submitted[o].call \in Nat
              /\ o \in OrderIds
BY RowTyping DEF RowTyped

\* and after it.
LEMMA RowTypesNext ==
  ASSUME TypeInv'
  PROVE  /\ records' \in Seq(Records) /\ outFills' \in Seq(Fills)
         /\ \A i \in DOMAIN records' : records'[i] \in Records
         /\ nextPos' \in Nat \ {0} /\ nextTrade' \in Nat \ {0} /\ nextOrder' \in Nat
         /\ call' \in Nat /\ stepTrade' \in Nat /\ cursor' \in Nat
         /\ \A o \in DOMAIN pending' : pending'[o] \in PendingEntries /\ o \in OrderIds
         /\ \A o \in DOMAIN submitted' :
              /\ submitted'[o].intent \in Intents /\ submitted'[o].call \in Nat
              /\ o \in OrderIds
<1>1. RowTyped'
  BY RowTyping, PTL
<1>2. QED
  BY <1>1 DEF RowTyped

\* The rows of an order are finitely many.
LEMMA OrderRows ==
  ASSUME TypeInv, NEW o
  PROVE  /\ RecordsOfOrder(o) = Among(records, {r \in Records : r.order = o})
         /\ Recorded(RecordsOfOrder(o)) = Bulk(records, {r \in Records : r.order = o})
         /\ IsFiniteSet(RecordsOfOrder(o)) /\ Cardinality(RecordsOfOrder(o)) \in Nat
         /\ Cardinality(RecordsOfOrder(o)) = 0 <=> RecordsOfOrder(o) = {}
<1>1. records \in Seq(Records) /\ \A i \in DOMAIN records : records[i] \in Records
  BY RowTypes
<1>2. RecordsOfOrder(o) = Among(records, {r \in Records : r.order = o})
  BY <1>1 DEF RecordsOfOrder, Among
<1>3. QED
  BY <1>1, <1>2, AmongFinite DEF Recorded, Bulk

\* The new rows come last, one for each fill, and no other order gets one.
BookedAs(n, o, m) ==
  /\ m \in Nat /\ n \in Nat /\ DOMAIN records = 1..m
  /\ DOMAIN records' = DOMAIN records \cup Behind(m, n)
  /\ \A i \in DOMAIN records : records'[i] = records[i]
  /\ \A i \in Behind(m, n) :
       /\ records'[i].order = o
       /\ records'[i].fill = outFills[cursor + (i - m)]
       /\ records'[i].seq = Cardinality(RecordsOfOrder(o)) + (i - m) - 1
  /\ \A x : x # o => /\ RecordsOfOrder(x)' = RecordsOfOrder(x)
                     /\ Recorded(RecordsOfOrder(x))' = Recorded(RecordsOfOrder(x))
  /\ RecordsOfOrder(o)' = RecordsOfOrder(o) \cup Behind(m, n)
  /\ Cardinality(RecordsOfOrder(o)') = Cardinality(RecordsOfOrder(o)) + n
  /\ Recorded(RecordsOfOrder(o))' = Recorded(RecordsOfOrder(o))
       + TotalQty(SubSeq(outFills, cursor + 1, cursor + n))

LEMMA BookedRows ==
  ASSUME TypeInv, TypeInv', NEW n, NEW o, Books(n, o), NEW m, m = Len(records)
  PROVE  BookedAs(n, o, m)
<1>1. /\ records \in Seq(Records) /\ outFills \in Seq(Fills) /\ cursor \in Nat
      /\ m \in Nat /\ n \in Nat /\ DOMAIN records = 1..m /\ cursor + n <= Len(outFills)
  BY RowTypes DEF Books, IsRunOf
<1> DEFINE Of(x) == {r \in Records : r.order = x}
<1>2. /\ \A x : /\ RecordsOfOrder(x) = Among(records, Of(x))
                /\ Recorded(RecordsOfOrder(x)) = Bulk(records, Of(x))
                /\ Cardinality(RecordsOfOrder(x)) \in Nat
      /\ \A x : /\ RecordsOfOrder(x)' = Among(records', Of(x))
                /\ Recorded(RecordsOfOrder(x))' = Bulk(records', Of(x))
  <2>1. ASSUME NEW x
        PROVE  /\ RecordsOfOrder(x) = Among(records, Of(x))
               /\ Recorded(RecordsOfOrder(x)) = Bulk(records, Of(x))
               /\ Cardinality(RecordsOfOrder(x)) \in Nat
    BY OrderRows
  <2>2. records' \in Seq(Records) /\ \A i \in DOMAIN records' : records'[i] \in Records
    BY RowTypesNext
  <2>3. ASSUME NEW x
        PROVE  /\ RecordsOfOrder(x)' = Among(records', Of(x))
               /\ Recorded(RecordsOfOrder(x))' = Bulk(records', Of(x))
    <3>1. RecordsOfOrder(x)' = Among(records', Of(x))
      BY <2>2 DEF RecordsOfOrder, Among
    <3>2. QED
      BY <3>1 DEF Recorded, Bulk
  <2>4. QED
    BY <2>1, <2>3
<1>3. PICK run : run = SubSeq(outFills, cursor + 1, cursor + n)
  OBVIOUS
<1>4. /\ run \in Seq(Fills) /\ Len(run) = n /\ DOMAIN run = 1..n
      /\ \A i \in 1..n : run[i] = outFills[cursor + i]
  <2>1. TakenFrom(Fills, outFills, cursor, n, run)
    BY <1>1, <1>3 DEF TakenFrom
  <2>2. QED
    BY <2>1, SubRun
<1>5. CASE n = 0
  <2>1. records' = records /\ Behind(m, n) = {}
    BY <1>1, <1>5 DEF Books, Behind
  <2>2. TotalQty(run) = 0
    <3>1. TotalQty(run) \in Nat /\ (TotalQty(run) > 0 <=> Len(run) > 0)
      BY <1>4, RunTotal
    <3>2. QED
      BY <1>4, <1>5, <3>1
  <2>3. \A x : /\ RecordsOfOrder(x)' = RecordsOfOrder(x)
               /\ Recorded(RecordsOfOrder(x))' = Recorded(RecordsOfOrder(x))
               /\ Recorded(RecordsOfOrder(x)) \in Nat
    <3>1. ASSUME NEW x
          PROVE  Bulk(records, Of(x)) \in Nat
      BY <1>1, BulkNat
    <3>2. SUFFICES ASSUME NEW x
                   PROVE  /\ RecordsOfOrder(x)' = RecordsOfOrder(x)
                          /\ Recorded(RecordsOfOrder(x))' = Recorded(RecordsOfOrder(x))
                          /\ Recorded(RecordsOfOrder(x)) \in Nat
      OBVIOUS
    <3> HIDE DEF Of
    <3>3. QED
      BY <1>2, <2>1, <3>1, Zenon
  <2>4. Cardinality(RecordsOfOrder(o)') = Cardinality(RecordsOfOrder(o)) + n
    BY <1>2, <1>5, <2>3
  <2>5. Recorded(RecordsOfOrder(o))' = Recorded(RecordsOfOrder(o)) + TotalQty(run)
    BY <2>2, <2>3
  <2>6. QED
    BY <1>1, <1>3, <2>1, <2>3, <2>4, <2>5 DEF BookedAs
<1>6. CASE n # 0
  <2>1. PICK action \in {"open", "close"}, trade \in Nat, p \in Nat :
          records' = records \o RecordsOf(run, o, action, trade, p,
                                          Cardinality(RecordsOfOrder(o)))
    BY <1>3, <1>6 DEF Books
  <2>2. PICK first \in Nat : first = Cardinality(RecordsOfOrder(o))
    BY <1>2
  <2>3. PICK rows : rows = RecordsOf(run, o, action, trade, p, first)
    OBVIOUS
  <2>4. o \in OrderIds
    BY <1>6 DEF Books
  <2>5. /\ rows \in Seq(Records) /\ Len(rows) = n /\ DOMAIN rows = DOMAIN run
        /\ \A i \in DOMAIN run :
             rows[i] = [order |-> o, seq |-> first + i - 1, trade |-> trade, pos |-> p,
                        action |-> action, fill |-> run[i]]
    <3>1. run \in Seq(Fills) /\ Len(run) = n
      BY <1>4
    <3>2. RowsOfFills(rows, run, o, action, trade, p, first)
      BY <2>3, <2>4, <3>1, RunRows
    <3>3. QED
      BY <3>1, <3>2 DEF RowsOfFills
  <2>6. records' = records \o rows
    BY <2>1, <2>2, <2>3
  <2> DEFINE now == records'
  <2>6a. Follows(Records, records, rows, now, m, n)
    BY <1>1, <2>5, <2>6 DEF Follows
  <2> HIDE DEF now
  <2>7. /\ DOMAIN now = DOMAIN records \cup Behind(m, n)
        /\ \A i \in DOMAIN records : now[i] = records[i]
        /\ \A i \in Behind(m, n) : i - m \in DOMAIN rows /\ now[i] = rows[i - m]
    <3>1. Appended(Records, records, rows, now, m, n)
      BY <2>6a, PlacesBehind
    <3>2. QED
      BY <3>1 DEF Appended
  <2>8. ASSUME NEW i \in Behind(m, n)
        PROVE  /\ now[i].order = o
               /\ now[i].fill = outFills[cursor + (i - m)]
               /\ now[i].seq = Cardinality(RecordsOfOrder(o)) + (i - m) - 1
    <3>1. PICK j : j = i - m
      OBVIOUS
    <3>2. j \in DOMAIN run /\ now[i] = rows[j]
      BY <2>5, <2>7, <3>1
    <3>3. now[i] = [order |-> o, seq |-> first + j - 1, trade |-> trade, pos |-> p,
                    action |-> action, fill |-> run[j]]
      BY <2>5, <3>2
    <3>4. now[i].order = o /\ now[i].fill = run[j] /\ now[i].seq = first + j - 1
      BY <3>3
    <3>5. run[j] = outFills[cursor + j]
      BY <1>4, <3>2
    <3>6. QED
      BY <2>2, <3>1, <3>4, <3>5
  <2>9. \A i \in DOMAIN rows : rows[i].order = o /\ rows[i].fill = run[i]
    <3>1. ASSUME NEW i \in DOMAIN rows
          PROVE  rows[i].order = o /\ rows[i].fill = run[i]
      <4>1. rows[i] = [order |-> o, seq |-> first + i - 1, trade |-> trade, pos |-> p,
                       action |-> action, fill |-> run[i]]
        BY <2>5
      <4>2. QED
        BY <4>1
    <3>2. QED
      BY <3>1
  <2>10. RowsOfRun(rows, run) /\ \A i \in DOMAIN rows : rows[i] \in Records
    BY <2>5, <2>9, ElementsIn DEF RowsOfRun
  <2>11. AllOf(rows, Of(o)) /\ \A x : x # o => NoneOf(rows, Of(x))
    BY <2>9, <2>10 DEF AllOf, NoneOf
  <2> HIDE DEF Of
  <2>12. /\ Among(now, Of(o)) = Among(records, Of(o)) \cup Behind(m, n)
         /\ Cardinality(Among(now, Of(o))) = Cardinality(Among(records, Of(o))) + n
    <3>1. AddsAll(records, now, m, n, Of(o))
      BY <2>11, <2>6a, AmongAll
    <3>2. QED
      BY <3>1 DEF AddsAll
  <2>12a. RowsOfRun(rows, run) /\ run \in Seq(Fills)
    BY <1>4, <2>10
  <2>13. Bulk(now, Of(o)) = Bulk(records, Of(o)) + TotalQty(run)
    <3>1. AddsRun(records, rows, now, run, Of(o))
      BY <2>6a, <2>12a, BulkGrows
    <3>2. QED
      BY <2>11, <3>1 DEF AddsRun
  <2>14. ASSUME NEW x, x # o
         PROVE  /\ Among(now, Of(x)) = Among(records, Of(x))
                /\ Bulk(now, Of(x)) = Bulk(records, Of(x))
    <3>1. NoneOf(rows, Of(x))
      BY <2>11, <2>14
    <3>2. Among(now, Of(x)) = Among(records, Of(x))
      BY <2>6a, <3>1, AmongNone
    <3>3. Bulk(now, Of(x)) = Bulk(records, Of(x))
      <4>1. AddsRun(records, rows, now, run, Of(x))
        BY <2>6a, <2>12a, BulkGrows
      <4>2. QED
        BY <3>1, <4>1 DEF AddsRun
    <3>4. QED
      BY <3>2, <3>3
  <2>15. /\ RecordsOfOrder(o)' = RecordsOfOrder(o) \cup Behind(m, n)
         /\ Cardinality(RecordsOfOrder(o)') = Cardinality(RecordsOfOrder(o)) + n
         /\ Recorded(RecordsOfOrder(o))' = Recorded(RecordsOfOrder(o)) + TotalQty(run)
    BY <1>2, <2>12, <2>13 DEF now
  <2>16. \A x : x # o => /\ RecordsOfOrder(x)' = RecordsOfOrder(x)
                         /\ Recorded(RecordsOfOrder(x))' = Recorded(RecordsOfOrder(x))
    BY <1>2, <2>14 DEF now
  <2>17. QED
    BY <1>1, <1>3, <2>7, <2>8, <2>15, <2>16 DEF BookedAs, now
<1>7. QED
  BY <1>5, <1>6

\* The next fills are among those to be applied, and of the named order.
AppliedNext(n, o) ==
  /\ Unapplied = (cursor + 1)..Len(outFills)
  /\ Unapplied' = (cursor + n + 1)..Len(outFills)
  /\ cursor \in Nat /\ n \in Nat /\ Len(outFills) \in Nat
  /\ cursor + n <= Len(outFills)
  /\ \A i \in 1..n : cursor + i \in Unapplied /\ outFills[cursor + i].owner = o

LEMMA NextFills ==
  ASSUME TypeInv, TypeInv', NEW n, NEW o, Books(n, o)
  PROVE  AppliedNext(n, o)
<1>1. cursor \in Nat /\ n \in Nat /\ Len(outFills) \in Nat /\ cursor + n <= Len(outFills)
  BY RowTypes DEF Books, IsRunOf
<1>2. Unapplied = (cursor + 1)..Len(outFills)
  BY DEF Books, Unapplied
<1>3. Unapplied' = (cursor + n + 1)..Len(outFills)
  <2>1. pc' \in {"carry", "walk"} /\ outFills' = outFills /\ cursor' = cursor + n
    BY DEF Books
  <2>2. Unapplied' = (cursor' + 1)..Len(outFills')
    BY <2>1 DEF Unapplied
  <2>3. QED
    BY <2>1, <2>2
<1>4. ASSUME NEW i \in 1..n
      PROVE  cursor + i \in Unapplied /\ outFills[cursor + i].owner = o
  <2>1. cursor + i \in (cursor + 1)..(cursor + n)
    BY <1>1
  <2>2. outFills[cursor + i].owner = o
    BY <2>1 DEF Books, IsRunOf
  <2>3. QED
    BY <1>1, <1>2, <2>2
<1>5. QED
  BY <1>1, <1>2, <1>3, <1>4 DEF AppliedNext

\* The first of them bears the fee exactly if the order has no row.
ChargedNext(n, o) ==
  \A i \in 1..n :
    outFills[cursor + i].charge = "first" <=> RecordsOfOrder(o) = {} /\ i = 1

LEMMA NextCharges ==
  ASSUME TypeInv, TypeInv', Charged, NEW n, NEW o, Books(n, o)
  PROVE  ChargedNext(n, o)
<1> SUFFICES ASSUME NEW i \in 1..n
             PROVE  outFills[cursor + i].charge = "first" <=> RecordsOfOrder(o) = {} /\ i = 1
  BY DEF ChargedNext
<1>1. /\ Unapplied = (cursor + 1)..Len(outFills) /\ cursor \in Nat /\ n \in Nat
      /\ \A x \in 1..n : cursor + x \in Unapplied /\ outFills[cursor + x].owner = o
  <2>1. AppliedNext(n, o)
    BY NextFills
  <2>2. QED
    BY <2>1 DEF AppliedNext
<1>2. outFills[cursor + i].charge = "first" <=>
        /\ RecordsOfOrder(outFills[cursor + i].owner) = {}
        /\ \A j \in Unapplied :
             j < cursor + i => outFills[j].owner # outFills[cursor + i].owner
  BY <1>1 DEF Charged, Books
<1>3. outFills[cursor + i].owner = o
  BY <1>1
<1>4. outFills[cursor + i].charge = "first" <=>
        RecordsOfOrder(o) = {} /\ \A j \in Unapplied : j < cursor + i => outFills[j].owner # o
  BY <1>2, <1>3
<1>5. CASE i = 1
  <2>1. \A j \in Unapplied : ~ (j < cursor + i)
    BY <1>1, <1>5
  <2>2. QED
    BY <1>4, <1>5, <2>1
<1>6. CASE i # 1
  <2>1. cursor + 1 \in Unapplied /\ outFills[cursor + 1].owner = o /\ cursor + 1 < cursor + i
    BY <1>1, <1>6
  <2>2. QED
    BY <1>4, <1>6, <2>1
<1>7. QED
  BY <1>5, <1>6

\* The new rows continue the numbers, and the fee is on the first.
LEMMA BooksNumbered ==
  ASSUME TypeInv, TypeInv', Numbered, Charged, NEW n, NEW o, Books(n, o)
  PROVE  Numbered'
<1>1. PICK m : m = Len(records)
  OBVIOUS
<1>2. /\ m \in Nat /\ n \in Nat /\ DOMAIN records = 1..m
      /\ DOMAIN records' = DOMAIN records \cup (m + 1)..(m + n)
      /\ \A i \in DOMAIN records : records'[i] = records[i]
      /\ \A i \in (m + 1)..(m + n) :
           /\ records'[i].order = o
           /\ records'[i].fill = outFills[cursor + (i - m)]
           /\ records'[i].seq = Cardinality(RecordsOfOrder(o)) + (i - m) - 1
  <2>1. BookedAs(n, o, m)
    BY <1>1, BookedRows
  <2>2. QED
    BY <2>1 DEF BookedAs, Behind
<1> SUFFICES ASSUME NEW i \in DOMAIN records'
             PROVE  /\ records'[i].order = records'[i].fill.owner
                    /\ records'[i].seq =
                         Cardinality({j \in {x \in DOMAIN records' :
                                               records'[x].order = records'[i].order} : j < i})
                    /\ records'[i].fill.charge = "first" <=> records'[i].seq = 0
  BY DEF Numbered, RecordsOfOrder
<1> DEFINE E == {j \in {x \in DOMAIN records' :
                          records'[x].order = records'[i].order} : j < i}
<1>3. CASE i \in DOMAIN records
  <2>1. E = {j \in {x \in DOMAIN records : records[x].order = records[i].order} : j < i}
    BY <1>2, <1>3
  <2>2. /\ records[i].order = records[i].fill.owner
        /\ records[i].seq =
             Cardinality({j \in {x \in DOMAIN records :
                                   records[x].order = records[i].order} : j < i})
        /\ records[i].fill.charge = "first" <=> records[i].seq = 0
    BY <1>3 DEF Numbered, RecordsOfOrder
  <2>3. records'[i] = records[i]
    BY <1>2, <1>3
  <2>4. QED
    BY <2>1, <2>2, <2>3
<1>4. CASE i \in (m + 1)..(m + n)
  <2>1. i - m \in 1..n
    BY <1>2, <1>4
  <2>2. /\ outFills[cursor + (i - m)].owner = o
        /\ outFills[cursor + (i - m)].charge = "first" <=>
             RecordsOfOrder(o) = {} /\ i - m = 1
    <3>1. AppliedNext(n, o) /\ ChargedNext(n, o)
      BY NextFills, NextCharges
    <3>2. QED
      BY <2>1, <3>1 DEF AppliedNext, ChargedNext
  <2>3. /\ records'[i].order = o /\ records'[i].fill = outFills[cursor + (i - m)]
        /\ records'[i].seq = Cardinality(RecordsOfOrder(o)) + (i - m) - 1
    BY <1>2, <1>4
  <2>4. /\ IsFiniteSet(RecordsOfOrder(o)) /\ Cardinality(RecordsOfOrder(o)) \in Nat
        /\ Cardinality(RecordsOfOrder(o)) = 0 <=> RecordsOfOrder(o) = {}
    BY OrderRows
  <2>5. E = RecordsOfOrder(o) \cup (m + 1)..(i - 1)
    <3>1. m \in Nat /\ n \in Nat /\ i \in Nat /\ m < i /\ i <= m + n
      BY <1>2, <1>4
    <3>2. \A x \in DOMAIN records : x < i /\ records'[x] = records[x]
      BY <1>2, <3>1
    <3>3. \A x \in (m + 1)..(m + n) : records'[x].order = o /\ (x < i <=> x \in (m + 1)..(i - 1))
      BY <1>2, <3>1
    <3>4. (m + 1)..(i - 1) \subseteq (m + 1)..(m + n)
      BY <3>1
    <3>5. E = {x \in DOMAIN records' : records'[x].order = o /\ x < i}
      BY <2>3
    <3>6. QED
      BY <1>2, <2>3, <3>2, <3>3, <3>4, <3>5 DEF RecordsOfOrder
  <2>6. RecordsOfOrder(o) \cap (m + 1)..(i - 1) = {}
    BY <1>2 DEF RecordsOfOrder
  <2>7. /\ IsFiniteSet((m + 1)..(i - 1))
        /\ Cardinality((m + 1)..(i - 1)) = i - m - 1
    <3>1. m + 1 \in Int /\ i - 1 \in Int
      BY <1>2, <1>4
    <3>2. /\ IsFiniteSet((m + 1)..(i - 1))
          /\ Cardinality((m + 1)..(i - 1))
               = IF m + 1 > i - 1 THEN 0 ELSE (i - 1) - (m + 1) + 1
      BY <3>1, FS_Interval
    <3>3. QED
      BY <1>2, <1>4, <3>2
  <2>8. Cardinality(E) = Cardinality(RecordsOfOrder(o)) + (i - m - 1)
    <3>1. PICK A, B : A = RecordsOfOrder(o) /\ B = (m + 1)..(i - 1)
      OBVIOUS
    <3>2. Cardinality(A \cup B) = Cardinality(A) + Cardinality(B) - Cardinality(A \cap B)
      BY <2>4, <2>7, <3>1, FS_Union
    <3>3. Cardinality(A \cap B) = 0
      BY <2>6, <3>1, FS_EmptySet
    <3>4. E = A \cup B /\ Cardinality(A) \in Nat /\ Cardinality(B) = i - m - 1
      BY <2>4, <2>5, <2>7, <3>1
    <3> HIDE DEF E
    <3>5. PICK d : d = i - m - 1
      OBVIOUS
    <3>6. d \in Int
      BY <1>2, <1>4, <3>5
    <3>7. Cardinality(E) = Cardinality(A) + d
      BY <3>2, <3>3, <3>4, <3>5, <3>6
    <3>8. QED
      BY <3>1, <3>5, <3>7
  <2> HIDE DEF E
  <2>9. records'[i].seq = Cardinality(E)
    BY <1>2, <1>4, <2>3, <2>4, <2>8
  <2>10. records'[i].seq = 0 <=> Cardinality(RecordsOfOrder(o)) = 0 /\ i - m = 1
    BY <1>2, <2>1, <2>3, <2>4
  <2>11. records'[i].fill.charge = "first" <=> records'[i].seq = 0
    BY <2>2, <2>3, <2>4, <2>10
  <2>12. QED
    BY <2>2, <2>3, <2>9, <2>11 DEF E
<1>5. QED
  BY <1>2, <1>3, <1>4

\* A fill left to apply is of the order just recorded only if the order has now
\* been charged.
LEMMA BooksCharged ==
  ASSUME TypeInv, TypeInv', Charged, NEW n, NEW o, Books(n, o)
  PROVE  Charged'
<1>1. /\ Unapplied = (cursor + 1)..Len(outFills)
      /\ Unapplied' = (cursor + n + 1)..Len(outFills)
      /\ cursor \in Nat /\ n \in Nat /\ Len(outFills) \in Nat
      /\ \A i \in 1..n : cursor + i \in Unapplied /\ outFills[cursor + i].owner = o
  <2>1. AppliedNext(n, o)
    BY NextFills
  <2>2. QED
    BY <2>1 DEF AppliedNext
<1>2. PICK m : m = Len(records)
  OBVIOUS
<1>3. /\ m \in Nat
      /\ \A x : x # o => RecordsOfOrder(x)' = RecordsOfOrder(x)
      /\ RecordsOfOrder(o)' = RecordsOfOrder(o) \cup (m + 1)..(m + n)
  <2>1. BookedAs(n, o, m)
    BY <1>2, BookedRows
  <2>2. QED
    BY <2>1 DEF BookedAs, Behind
<1>4. outFills' = outFills
  BY DEF Books
<1> SUFFICES ASSUME NEW i \in Unapplied'
             PROVE  outFills[i].charge = "first" <=>
                      /\ {j \in DOMAIN records' : records'[j].order = outFills[i].owner} = {}
                      /\ \A j \in Unapplied' : j < i => outFills[j].owner # outFills[i].owner
  BY <1>4 DEF Charged, RecordsOfOrder
<1>5. i \in Unapplied /\ \A j \in Unapplied' : j \in Unapplied
  BY <1>1
<1>6. outFills[i].charge = "first" <=>
        /\ RecordsOfOrder(outFills[i].owner) = {}
        /\ \A j \in Unapplied : j < i => outFills[j].owner # outFills[i].owner
  BY <1>5 DEF Charged, Books
<1>7. CASE outFills[i].owner # o
  <2>1. \A j \in Unapplied : j \in Unapplied' \/ outFills[j].owner = o
    <3>1. ASSUME NEW j \in Unapplied, j \notin Unapplied'
          PROVE  outFills[j].owner = o
      <4>1. j - cursor \in 1..n /\ cursor + (j - cursor) = j
        BY <1>1, <3>1
      <4>2. QED
        BY <1>1, <4>1
    <3>2. QED
      BY <3>1
  <2>2. PICK x : x = outFills[i].owner
    OBVIOUS
  <2>3. RecordsOfOrder(x)' = RecordsOfOrder(x)
    BY <1>3, <1>7, <2>2
  <2>4. {j \in DOMAIN records' : records'[j].order = x} = RecordsOfOrder(x)
    BY <2>3 DEF RecordsOfOrder
  <2>5. QED
    BY <1>5, <1>6, <1>7, <2>1, <2>2, <2>4
<1>8. CASE outFills[i].owner = o /\ n = 0
  <2>1. Unapplied' = Unapplied /\ (m + 1)..(m + n) = {}
    BY <1>1, <1>3, <1>8
  <2>2. {j \in DOMAIN records' : records'[j].order = o} = RecordsOfOrder(o)
    BY <1>3, <2>1 DEF RecordsOfOrder
  <2>3. QED
    BY <1>6, <1>8, <2>1, <2>2
<1>9. CASE outFills[i].owner = o /\ n # 0
  <2>1. cursor + 1 \in Unapplied /\ cursor + 1 < i /\ outFills[cursor + 1].owner = o
    BY <1>1, <1>9
  <2>2. outFills[i].charge # "first"
    BY <1>6, <1>9, <2>1
  <2>3. m + 1 \in (m + 1)..(m + n)
    BY <1>1, <1>3, <1>9
  <2>4. {j \in DOMAIN records' : records'[j].order = o} # {}
    BY <1>3, <2>3 DEF RecordsOfOrder
  <2>5. QED
    BY <1>9, <2>2, <2>4
<1>10. QED
  BY <1>7, <1>8, <1>9

-----------------------------------------------------------------------------
(* The steps that record a run.                                            *)

\* A carry group records its run under the entry's order, and the entry shrinks.
LEMMA CarryShape ==
  ASSUME TypeInv, CarryOpensLeg \/ CarryExtendsLeg \/ CarryClosesLeg
  PROVE  /\ AtCarry /\ CarryFault = "none" /\ CarryNext
         /\ \E trade \in Nat, p \in Nat : pending' = Shrunk(trade, p)
         /\ \E action \in {"open", "close"}, trade \in Nat, p \in Nat :
              records' = records \o RecordsOf(CarryRun, CarryOrder, action, trade, p,
                                              CarryEntry.fillsSoFar)
<1>1. AtCarry /\ CarryFault = "none" /\ CarryNext
  BY DEF CarryOpensLeg, CarryExtendsLeg, CarryClosesLeg
<1>2. CarryEntry \in PendingEntries
  BY <1>1, CarryChecked
<1>3. CarryEntry.trade \in Nat /\ CarryEntry.pos \in Nat /\ CarryEntry.intent.pos \in Nat
  BY <1>2 DEF PendingEntries, Intents
<1>4. nextPos \in Nat /\ nextTrade \in Nat
  BY RowTypes
<1>5. CASE CarryOpensLeg
  <2>1. PICK trade \in Nat :
          /\ OpenLeg(nextPos, trade, CarryRun, CarryOrder, NextSeqOf(CarryEntry))
          /\ pending' = Shrunk(trade, nextPos)
    <3>1. PICK trade :
            /\ OpenLeg(nextPos, trade, CarryRun, CarryOrder, NextSeqOf(CarryEntry))
            /\ pending' = Shrunk(trade, nextPos)
            /\ trade = nextTrade \/ trade = CarryEntry.trade
      BY <1>5 DEF CarryOpensLeg
    <3>2. QED
      BY <1>3, <1>4, <3>1
  <2>2. records' = records \o RecordsOf(CarryRun, CarryOrder, "open", trade, nextPos,
                                        CarryEntry.fillsSoFar)
    BY <2>1 DEF OpenLeg, NextSeqOf
  <2>3. QED
    BY <1>1, <1>4, <2>1, <2>2
<1>6. CASE CarryExtendsLeg
  <2>1. records' = records \o RecordsOf(CarryRun, CarryOrder, "open", CarryEntry.trade,
                                        CarryEntry.pos, CarryEntry.fillsSoFar)
    BY <1>6 DEF CarryExtendsLeg, ExtendLeg, NextSeqOf
  <2>2. pending' = Shrunk(CarryEntry.trade, CarryEntry.pos)
    BY <1>6 DEF CarryExtendsLeg
  <2>3. QED
    BY <1>1, <1>3, <2>1, <2>2
<1>7. CASE CarryClosesLeg
  <2>1. records' = records \o RecordsOf(CarryRun, CarryOrder, "close",
                       openLegs[CarryEntry.intent.pos], CarryEntry.intent.pos,
                       CarryEntry.fillsSoFar)
    BY <1>7 DEF CarryClosesLeg, CloseLeg, NextSeqOf
  <2>2. pending' = Shrunk(CarryEntry.trade, CarryEntry.pos)
    BY <1>7 DEF CarryClosesLeg
  <2>3. CloseFault(CarryEntry.intent.pos, TotalQty(CarryRun)) = "none"
    BY <1>1, <1>7, CarryChecked DEF CarryClosesLeg
  <2>4. CarryEntry.intent.pos \in DOMAIN openLegs
    BY <2>3 DEF CloseFault
  <2>5. IsMap(openLegs, Nat, Nat)
    BY DEF TypeInv, TypeOK, EngineTypeOK, BooksTypeOK
  <2>6. openLegs[CarryEntry.intent.pos] \in Nat
    BY <2>4, <2>5 DEF IsMap
  <2>7. QED
    BY <1>1, <1>3, <2>1, <2>2, <2>6
<1>8. QED
  BY <1>5, <1>6, <1>7

\* The entry of the order that traded shrinks by the run, or is gone.
ShrunkBy(o, n, q) ==
  /\ o \in DOMAIN pending /\ q \in Nat /\ q <= pending[o].intent.qty
  /\ DOMAIN pending' = IF q = pending[o].intent.qty THEN DOMAIN pending \ {o}
                       ELSE DOMAIN pending
  /\ \A x \in DOMAIN pending' : x # o => pending'[x] = pending[x]
  /\ o \in DOMAIN pending' =>
       /\ pending'[o].intent = [pending[o].intent EXCEPT !.qty = @ - q]
       /\ pending'[o].fillsSoFar = pending[o].fillsSoFar + n

LEMMA CarryBooks ==
  ASSUME SeamInv, Tallied, CarryOpensLeg \/ CarryExtendsLeg \/ CarryClosesLeg,
         NEW n, NEW o, n = carryGroups[k].count, o = CarryOrder
  PROVE  /\ Books(n, o)
         /\ ShrunkBy(o, n, TotalQty(SubSeq(outFills, cursor + 1, cursor + n)))
<1>1. TypeInv
  BY DEF SeamInv, FillInv
<1>2. AtCarry /\ CarryFault = "none" /\ CarryNext
  BY <1>1, CarryShape
<1>3. /\ CarryRun \in Seq(Fills) /\ Len(CarryRun) = carryGroups[k].count
      /\ carryGroups[k].count \in Nat \ {0}
      /\ TotalQty(CarryRun) \in Quantities
      /\ CarryOrder \in DOMAIN pending /\ CarryOrder \in OrderIds
      /\ CarryEntry \in PendingEntries
      /\ TotalQty(CarryRun) <= CarryEntry.intent.qty
  BY <1>1, <1>2, CarryChecked
<1>4. CarryRun = SubSeq(outFills, cursor + 1, cursor + n) /\ CarryEntry = pending[o]
  BY DEF CarryRun, CarryEntry
<1>5. IsRunOf(outFills, cursor, n, o)
  BY <1>2, CarryRunIs
<1>6. pending[o].fillsSoFar = Cardinality(RecordsOfOrder(o))
  BY <1>3 DEF Tallied
<1>7. Books(n, o)
  <2>1. /\ cursor' = cursor + n /\ UNCHANGED <<pc, outFills>> /\ pc \in {"carry", "walk"}
    BY <1>2 DEF CarryNext, AtCarry
  <2>2. PICK action \in {"open", "close"}, trade \in Nat, p \in Nat :
          records' = records \o RecordsOf(CarryRun, CarryOrder, action, trade, p,
                                          CarryEntry.fillsSoFar)
    BY <1>1, CarryShape
  <2>3. n # 0 /\ o \in OrderIds
    BY <1>3
  <2>4. records' = records \o RecordsOf(SubSeq(outFills, cursor + 1, cursor + n),
                     o, action, trade, p, Cardinality(RecordsOfOrder(o)))
    BY <1>4, <1>6, <2>2
  <2>5. QED
    BY <1>5, <2>1, <2>3, <2>4 DEF Books
<1>8. PICK q : q = TotalQty(CarryRun)
  OBVIOUS
<1>9. PICK trade, p : pending' = Shrunk(trade, p)
  BY <1>1, CarryShape
<1>10. CASE q = pending[o].intent.qty
  <2>1. pending' = Drop(pending, o)
    BY <1>4, <1>8, <1>9, <1>10 DEF Shrunk
  <2>2. QED
    BY <1>3, <1>4, <1>7, <1>8, <1>10, <2>1 DEF Drop, ShrunkBy, Quantities
<1>11. CASE q # pending[o].intent.qty
  <2>1. pending' = Put(pending, o, ShrunkEntry(trade, p))
    BY <1>4, <1>8, <1>9, <1>11 DEF Shrunk
  <2>2. /\ ShrunkEntry(trade, p).intent = [pending[o].intent EXCEPT !.qty = @ - q]
        /\ ShrunkEntry(trade, p).fillsSoFar = pending[o].fillsSoFar + n
    BY <1>3, <1>4, <1>8 DEF ShrunkEntry
  <2>3. DOMAIN pending' = DOMAIN pending /\ pending'[o] = ShrunkEntry(trade, p)
        /\ \A x \in DOMAIN pending' : x # o => pending'[x] = pending[x]
    BY <1>3, <2>1 DEF Put
  <2>4. q \in Nat /\ q <= pending[o].intent.qty
    BY <1>3, <1>4, <1>8 DEF Quantities
  <2>5. ShrunkBy(o, n, q)
    BY <1>3, <1>11, <2>2, <2>3, <2>4 DEF ShrunkBy
  <2>6. QED
    BY <1>4, <1>7, <1>8, <2>5
<1>12. QED
  BY <1>10, <1>11

\* Every step of the walk records the run of its command, if there is one.
LEMMA WalkRecords ==
  ASSUME TypeInv, WalkCancel \/ WalkRestsOpen \/ WalkRestsClose \/ WalkOpens \/ WalkCloses
  PROVE  \/ Taken = 0 /\ records' = records
         \/ /\ Walking /\ Taken # 0 /\ WalkFault = "none"
            /\ \E action \in {"open", "close"}, trade \in Nat, p \in Nat :
                 records' = records \o RecordsOf(WalkRun, WalkOrder, action, trade, p, 0)
<1>1. CASE WalkCancel
  BY <1>1 DEF WalkCancel, Taken, bookVars
<1>2. CASE WalkRestsOpen \/ WalkRestsClose
  BY <1>2 DEF WalkRestsOpen, WalkRestsClose, Taken, bookVars
<1>3. nextPos \in Nat /\ nextTrade \in Nat /\ stepTrade \in Nat
  BY RowTypes
<1>4. CASE WalkOpens
  <2>1. /\ Walking /\ WalkFault = "none" /\ Taken # 0
        /\ records' = records \o RecordsOf(WalkRun, WalkOrder, "open", OpenTrade, nextPos, 0)
    BY <1>4 DEF WalkOpens, OpenLeg, Taken
  <2>2. OpenTrade \in Nat
    BY <1>3 DEF OpenTrade
  <2>3. QED
    BY <1>3, <2>1, <2>2
<1>5. CASE WalkCloses
  <2>1. /\ Walking /\ WalkFault = "none" /\ WalkCount # 0 /\ Taken # 0
        /\ WalkIntent.action = "close"
        /\ records' = records \o RecordsOf(WalkRun, WalkOrder, "close",
                                           openLegs[WalkIntent.pos], WalkIntent.pos, 0)
    BY <1>5 DEF WalkCloses, CloseLeg, Taken
  <2>2. WalkIntent \in Intents /\ CloseFault(WalkIntent.pos, TotalQty(WalkRun)) = "none"
    BY <2>1, WalkChecked
  <2>3. WalkIntent.pos \in Nat /\ WalkIntent.pos \in DOMAIN openLegs
    BY <2>2 DEF Intents, CloseFault
  <2>4. IsMap(openLegs, Nat, Nat)
    BY DEF TypeInv, TypeOK, EngineTypeOK, BooksTypeOK
  <2>5. openLegs[WalkIntent.pos] \in Nat
    BY <2>3, <2>4 DEF IsMap
  <2>6. QED
    BY <2>1, <2>3, <2>5
<1>6. QED
  BY <1>1, <1>2, <1>4, <1>5

\* The order a command submits is new: no entry, no row, no record of it.
LEMMA WalkOrderNew ==
  ASSUME SeamInv, Known, Walking
  PROVE  /\ WalkOrder \notin DOMAIN submitted /\ WalkOrder \notin DOMAIN pending
         /\ RecordsOfOrder(WalkOrder) = {}
         /\ WalkOrder \in OrderIds
<1>1. TypeInv /\ Minted /\ pc = "walk" /\ pc \in Calling /\ k \in Nat \ {0} /\ k \in DOMAIN cmds
  BY DEF SeamInv, FillInv, Walking, AtWalk, Calling, TypeInv, TypeOK, SeamTypeOK
<1>2. IsSubmission(cmds[k])
  BY DEF Walking
<1>3. WalkOrder = IdOf(k)
  BY DEF WalkOrder, IdOf
<1>4. FirstNew \in Int /\ IdOf(k) = FirstNew + Ordinal(k) - 1 /\ IdOf(k) \in OrderIds
  BY <1>1, <1>2, IdsAscend
<1>5. Ordinal(k) = Ordinal(k - 1) + 1 /\ Ordinal(k - 1) \in Nat
  <2>1. k - 1 \in Int
    BY <1>1
  <2>2. Ordinal(k) = Ordinal(k - 1) + 1
    BY <1>1, <1>2, OrdinalSteps
  <2>3. QED
    BY <2>1, <2>2, PrefixFinite
<1>6. NextId = FirstNew + Ordinal(k - 1)
  BY <1>1 DEF NextId
<1>7. WalkOrder = NextId /\ WalkOrder \in Int
  BY <1>3, <1>4, <1>5, <1>6
<1>8. \A o \in DOMAIN submitted : o < NextId
  BY <1>1 DEF Known
<1>9. WalkOrder \notin DOMAIN submitted
  BY <1>7, <1>8
<1>10. QED
  BY <1>3, <1>4, <1>9 DEF Known, RecordsOfOrder

LEMMA WalkBooks ==
  ASSUME SeamInv, Known,
         WalkCancel \/ WalkRestsOpen \/ WalkRestsClose \/ WalkOpens \/ WalkCloses,
         NEW n, NEW o, n = Taken, o = IdOf(k)
  PROVE  Books(n, o)
<1>1. TypeInv
  BY DEF SeamInv, FillInv
<1>2. AtWalk /\ WalkNext
  BY WalkEnters
<1>3. IsRunOf(outFills, cursor, n, o) /\ cursor' = cursor + n
  BY <1>2, WalkGroupIs
<1>4. UNCHANGED <<pc, outFills>> /\ pc \in {"carry", "walk"}
  BY <1>2 DEF AtWalk, WalkNext
<1>5. CASE Taken = 0 /\ records' = records
  BY <1>3, <1>4, <1>5 DEF Books
<1>6. CASE /\ Walking /\ Taken # 0 /\ WalkFault = "none"
           /\ \E action \in {"open", "close"}, trade \in Nat, p \in Nat :
                records' = records \o RecordsOf(WalkRun, WalkOrder, action, trade, p, 0)
  <2>1. PICK action \in {"open", "close"}, trade \in Nat, p \in Nat :
          records' = records \o RecordsOf(WalkRun, WalkOrder, action, trade, p, 0)
    BY <1>6
  <2>2. WalkRun = SubSeq(outFills, cursor + 1, cursor + n) /\ WalkOrder = o
    BY <1>6 DEF Taken, WalkRun, WalkOrder, IdOf
  <2>3. RecordsOfOrder(WalkOrder) = {} /\ WalkOrder \in OrderIds
    BY <1>6, WalkOrderNew
  <2>4. Cardinality(RecordsOfOrder(o)) = 0
    BY <2>2, <2>3, FS_EmptySet
  <2>5. records' = records \o RecordsOf(SubSeq(outFills, cursor + 1, cursor + n),
                     o, action, trade, p, Cardinality(RecordsOfOrder(o)))
    BY <2>1, <2>2, <2>4
  <2>6. QED
    BY <1>3, <1>4, <1>6, <2>2, <2>3, <2>5 DEF Books
<1>7. QED
  BY <1>1, <1>5, <1>6, WalkRecords

-----------------------------------------------------------------------------
(* Conservation, over the steps that record a run.                         *)

\* What an order is recorded to have traded is a number.
LEMMA RecordedNat ==
  ASSUME TypeInv, NEW o
  PROVE  Recorded(RecordsOfOrder(o)) \in Nat
<1>1. records \in Seq(Records)
  BY RowTypes
<1>2. PICK B : B = {r \in Records : r.order = o}
  OBVIOUS
<1>3. Recorded(RecordsOfOrder(o)) = Bulk(records, B)
  BY <1>2, OrderRows
<1>4. Bulk(records, B) \in Nat
  BY <1>1, BulkNat
<1>5. QED
  BY <1>3, <1>4

\* The carry moves contracts from what rests to what is recorded.
LEMMA CarryConserves ==
  ASSUME SeamInv, TypeInv', Known, Conserved, Tallied,
         CarryOpensLeg \/ CarryExtendsLeg \/ CarryClosesLeg
  PROVE  Known' /\ Conserved' /\ Tallied'
<1>1. TypeInv
  BY DEF SeamInv, FillInv
<1>2. AtCarry /\ CarryNext
  BY <1>1, CarryShape
<1>3. PICK n, o, m : n = carryGroups[k].count /\ o = CarryOrder /\ m = Len(records)
  OBVIOUS
<1>4. PICK q : q = TotalQty(SubSeq(outFills, cursor + 1, cursor + n))
  OBVIOUS
<1>5. Books(n, o) /\ ShrunkBy(o, n, q)
  BY <1>3, <1>4, CarryBooks
<1>6. /\ m \in Nat /\ n \in Nat /\ DOMAIN records = 1..m
      /\ DOMAIN records' = DOMAIN records \cup (m + 1)..(m + n)
      /\ \A i \in DOMAIN records : records'[i] = records[i]
      /\ \A i \in (m + 1)..(m + n) : records'[i].order = o
      /\ \A x : x # o => /\ RecordsOfOrder(x)' = RecordsOfOrder(x)
                         /\ Recorded(RecordsOfOrder(x))' = Recorded(RecordsOfOrder(x))
      /\ Cardinality(RecordsOfOrder(o)') = Cardinality(RecordsOfOrder(o)) + n
      /\ Recorded(RecordsOfOrder(o))' = Recorded(RecordsOfOrder(o)) + q
  <2>1. BookedAs(n, o, m)
    BY <1>1, <1>3, <1>5, BookedRows
  <2>2. QED
    BY <1>4, <2>1 DEF BookedAs, Behind
<1>7. /\ o \in DOMAIN pending /\ q \in Nat /\ q <= pending[o].intent.qty
      /\ DOMAIN pending' = IF q = pending[o].intent.qty THEN DOMAIN pending \ {o}
                           ELSE DOMAIN pending
      /\ \A x \in DOMAIN pending' : x # o => pending'[x] = pending[x]
      /\ o \in DOMAIN pending' =>
           /\ pending'[o].intent = [pending[o].intent EXCEPT !.qty = @ - q]
           /\ pending'[o].fillsSoFar = pending[o].fillsSoFar + n
  BY <1>5 DEF ShrunkBy
<1>8. UNCHANGED <<pc, submitted, withdrawn, nextOrder, submitIds>> /\ pc = "carry"
  BY <1>2 DEF CarryNext, AtCarry, ghosts
<1>9. Known'
  <2>1. DOMAIN pending' \subseteq DOMAIN submitted'
    BY <1>7, <1>8 DEF Known
  <2>2. ASSUME NEW i \in DOMAIN records'
        PROVE  records'[i].order \in DOMAIN submitted'
    <3>1. CASE i \in DOMAIN records
      BY <1>6, <1>8, <3>1 DEF Known
    <3>2. CASE i \in (m + 1)..(m + n)
      BY <1>6, <1>7, <1>8, <3>2 DEF Known
    <3>3. QED
      BY <1>6, <3>1, <3>2
  <2>3. NextId' = NextId
    BY <1>8 DEF NextId, FirstNew, Calling
  <2>4. \A x \in DOMAIN submitted' : x < NextId'
    BY <1>8, <2>3 DEF Known
  <2>5. pc' # "walk"
    BY <1>8
  <2>6. QED
    BY <2>1, <2>2, <2>4, <2>5 DEF Known
<1>10. pending[o] \in PendingEntries
  BY <1>1, <1>7, RowTypes
<1>11. Tallied'
  <2>1. ASSUME NEW x \in DOMAIN pending'
        PROVE  pending'[x].fillsSoFar = Cardinality(RecordsOfOrder(x)')
    <3>1. x \in DOMAIN pending /\ pending[x].fillsSoFar = Cardinality(RecordsOfOrder(x))
      BY <1>7, <2>1 DEF Tallied
    <3>2. CASE x = o
      BY <1>6, <1>7, <2>1, <3>1, <3>2
    <3>3. CASE x # o
      BY <1>6, <1>7, <2>1, <3>1, <3>3
    <3>4. QED
      BY <3>2, <3>3
  <2>2. QED
    BY <2>1 DEF Tallied
<1>12. ASSUME NEW x \in DOMAIN submitted'
       PROVE  /\ Recorded(RecordsOfOrder(x))' + Rest(x)' <= submitted'[x].intent.qty
              /\ (submitted'[x].intent.kind = "gtc" /\ x \notin withdrawn') =>
                   Recorded(RecordsOfOrder(x))' + Rest(x)' = submitted'[x].intent.qty
  <2>1. PICK done, size : done = Recorded(RecordsOfOrder(x)) /\ size = submitted[x].intent.qty
    OBVIOUS
  <2>2. /\ done + Rest(x) <= size
        /\ (submitted[x].intent.kind = "gtc" /\ x \notin withdrawn) => done + Rest(x) = size
    BY <1>8, <1>12, <2>1 DEF Conserved
  <2>3. done \in Nat
    BY <1>1, <2>1, RecordedNat
  <2>4. CASE x # o
    <3>1. Rest(x)' = Rest(x)
      BY <1>7, <2>4 DEF Rest
    <3>2. QED
      BY <1>6, <1>8, <2>1, <2>2, <2>4, <3>1
  <2>5. CASE x = o
    <3>1. Rest(x) = pending[o].intent.qty /\ Rest(x) \in Nat
      BY <1>7, <1>10, <2>5 DEF Rest, PendingEntries, Intents, Quantities
    <3>2. Rest(x)' = Rest(x) - q
      <4>1. CASE q = pending[o].intent.qty
        BY <1>7, <2>5, <3>1, <4>1 DEF Rest
      <4>2. CASE q # pending[o].intent.qty
        <5>1. o \in DOMAIN pending'
          BY <1>7, <4>2
        <5>2. pending'[o].intent.qty = pending[o].intent.qty - q
          BY <1>7, <1>10, <5>1 DEF PendingEntries, Intents
        <5>3. QED
          BY <2>5, <3>1, <5>1, <5>2 DEF Rest
      <4>3. QED
        BY <4>1, <4>2
    <3>3. Recorded(RecordsOfOrder(x))' = done + q
      BY <1>6, <2>1, <2>5
    <3>4. Recorded(RecordsOfOrder(x))' + Rest(x)' = done + Rest(x)
      BY <1>7, <2>3, <3>1, <3>2, <3>3
    <3>5. QED
      BY <1>8, <2>1, <2>2, <3>4
  <2>6. QED
    BY <2>4, <2>5
<1>13. Conserved'
  BY <1>12 DEF Conserved
<1>14. QED
  BY <1>9, <1>11, <1>13

\* A command trades no more than it asks for, and a good-till-cancelled order
\* that leaves nothing has traded it all.
LEMMA WalkTakes ==
  ASSUME SeamInv, TypeInv', Walking, NEW n, n = Taken, Books(n, IdOf(k))
  PROVE  TakenQty \in Nat /\ TakenQty <= WalkIntent.qty
<1>1. TypeInv /\ Registered /\ pc = "walk"
  BY DEF SeamInv, FillInv, Walking, AtWalk
<1>2. PICK o : o = IdOf(k)
  OBVIOUS
<1>3. Owed(o) = Owed(o)' + TakenQty /\ Owed(o)' \in Nat /\ Owed(o) \in Nat
  <2>1. /\ IsRunOf(outFills, cursor, n, o) /\ cursor' = cursor + n
        /\ UNCHANGED <<pc, outFills>>
    BY <1>2 DEF Books
  <2>2. QED
    BY <1>1, <2>1, RunApplied DEF TakenQty
<1>4. k \in Awaited
  <2>1. k \in DOMAIN cmds /\ IsSubmission(cmds[k]) /\ k \in Nat
    BY <1>1 DEF Walking, AtWalk, TypeInv, TypeOK, SeamTypeOK
  <2>2. QED
    BY <1>1, <2>1 DEF Awaited
<1>5. Owed(o) <= WalkIntent.qty
  BY <1>1, <1>2, <1>4 DEF Registered, Agrees, WalkIntent
<1>6. TakenQty \in Nat
  <2>1. outFills \in Seq(Fills) /\ IsRunOf(outFills, cursor, n, o)
    BY <1>1, <1>2, RowTypes DEF Books
  <2>2. SubSeq(outFills, cursor + 1, cursor + n) \in Seq(Fills)
    <3>1. TakenFrom(Fills, outFills, cursor, n, SubSeq(outFills, cursor + 1, cursor + n))
      BY <1>1, <2>1, RowTypes DEF IsRunOf, TakenFrom
    <3>2. QED
      BY <3>1, SubRun
  <2>3. QED
    BY <2>2, RunTotal DEF TakenQty
<1>7. WalkIntent.qty \in Nat
  <2>1. cmds[k] \in Commands
    BY <1>1 DEF Walking, AtWalk, TypeInv, TypeOK, SeamTypeOK
  <2>2. WalkIntent \in Intents
    BY <2>1, CommandParts DEF Walking, WalkIntent
  <2>3. QED
    BY <2>2 DEF Intents, Quantities
<1>8. QED
  BY <1>3, <1>5, <1>6, <1>7

\* The walk records a new order and lets what is left of it rest.
LEMMA WalkConserves ==
  ASSUME SeamInv, TypeInv', Known, Conserved, Tallied,
         WalkCancel \/ WalkRestsOpen \/ WalkRestsClose \/ WalkOpens \/ WalkCloses
  PROVE  Known' /\ Conserved' /\ Tallied'
<1>1. TypeInv
  BY DEF SeamInv, FillInv
<1>2. AtWalk /\ WalkNext /\ Entered
  BY WalkEnters
<1>3. PICK n, o, m : n = Taken /\ o = IdOf(k) /\ m = Len(records)
  OBVIOUS
<1>4. Books(n, o)
  BY <1>3, WalkBooks
<1>5. /\ m \in Nat /\ n \in Nat /\ DOMAIN records = 1..m
      /\ DOMAIN records' = DOMAIN records \cup (m + 1)..(m + n)
      /\ \A i \in DOMAIN records : records'[i] = records[i]
      /\ \A i \in (m + 1)..(m + n) : records'[i].order = o
      /\ \A x : x # o => /\ RecordsOfOrder(x)' = RecordsOfOrder(x)
                         /\ Recorded(RecordsOfOrder(x))' = Recorded(RecordsOfOrder(x))
      /\ Cardinality(RecordsOfOrder(o)') = Cardinality(RecordsOfOrder(o)) + n
      /\ Recorded(RecordsOfOrder(o))' = Recorded(RecordsOfOrder(o)) + TakenQty
  <2>1. BookedAs(n, o, m)
    BY <1>1, <1>3, <1>4, BookedRows
  <2>2. QED
    BY <1>3, <2>1 DEF BookedAs, Behind, TakenQty
<1>6. /\ UNCHANGED <<pc, nextOrder, submitIds, cmds>> /\ pc = "walk" /\ k' = k + 1
      /\ withdrawn' = NowWithdrawn
      /\ Walking => submitted' = Put(submitted, WalkOrder,
                                     [intent |-> WalkIntent, call |-> call])
      /\ ~ Walking => submitted' = submitted
  BY <1>2 DEF WalkNext, AtWalk
<1>7. Walking => /\ WalkOrder \notin DOMAIN submitted /\ WalkOrder \notin DOMAIN pending
                 /\ RecordsOfOrder(WalkOrder) = {} /\ WalkOrder = o
  BY <1>3, WalkOrderNew DEF WalkOrder, IdOf
<1>8. ~ Walking => n = 0
  BY <1>3 DEF Taken
<1>9. \A x : ~ (Walking /\ x = WalkOrder) =>
        /\ RecordsOfOrder(x)' = RecordsOfOrder(x)
        /\ Recorded(RecordsOfOrder(x))' = Recorded(RecordsOfOrder(x))
  <2>1. CASE Walking
    BY <1>5, <1>7, <2>1
  <2>2. CASE ~ Walking
    <3>1. DOMAIN records' = DOMAIN records /\ \A i \in DOMAIN records : records'[i] = records[i]
      BY <1>5, <1>8, <2>2
    <3>2. records' = records
      <4>1. records \in Seq(Records) /\ records' \in Seq(Records)
        BY <1>1, RowTypes, RowTypesNext
      <4>2. QED
        BY <3>1, <4>1
    <3>3. QED
      BY <3>2 DEF RecordsOfOrder, Recorded
  <2>3. QED
    BY <2>1, <2>2
<1>10. /\ DOMAIN pending' = DOMAIN AfterCancel \cup (IF Stays THEN {WalkOrder} ELSE {})
       /\ \A x \in DOMAIN AfterCancel : (Walking => x # WalkOrder) => pending'[x] = pending[x]
       /\ DOMAIN AfterCancel = IF IsLifecycle(cmds[k]) THEN DOMAIN pending \ {cmds[k].order}
                               ELSE DOMAIN pending
       /\ Stays => /\ pending'[WalkOrder].intent = [WalkIntent EXCEPT !.qty = @ - TakenQty]
                   /\ pending'[WalkOrder].fillsSoFar = Taken
  BY <1>2, AfterCancelIs DEF Entered
<1>11. Stays => Walking
  BY DEF Stays
<1>12. \A x \in DOMAIN pending' : \/ Stays /\ x = WalkOrder
                                  \/ /\ x \in DOMAIN pending /\ pending'[x] = pending[x]
                                     /\ ~ (Walking /\ x = WalkOrder)
  <2>1. ASSUME NEW x \in DOMAIN pending', ~ (Stays /\ x = WalkOrder)
        PROVE  /\ x \in DOMAIN pending /\ pending'[x] = pending[x]
               /\ ~ (Walking /\ x = WalkOrder)
    <3>1. x \in DOMAIN AfterCancel /\ x \in DOMAIN pending
      BY <1>10, <2>1
    <3>2. ~ (Walking /\ x = WalkOrder)
      BY <1>7, <3>1
    <3>3. QED
      BY <1>10, <3>1, <3>2
  <2>2. QED
    BY <2>1
<1>13. Known'
  <2>1. DOMAIN pending' \subseteq DOMAIN submitted'
    <3>1. ASSUME NEW x \in DOMAIN pending'
          PROVE  x \in DOMAIN submitted'
      BY <1>6, <1>11, <1>12 DEF Known, Put
    <3>2. QED
      BY <3>1
  <2>2. ASSUME NEW i \in DOMAIN records'
        PROVE  records'[i].order \in DOMAIN submitted'
    <3>1. CASE i \in DOMAIN records
      BY <1>5, <1>6, <3>1 DEF Known, Put
    <3>2. CASE i \in (m + 1)..(m + n)
      <4>1. Walking
        BY <1>5, <1>8, <3>2
      <4>2. QED
        BY <1>5, <1>6, <1>7, <3>2, <4>1 DEF Put
    <3>3. QED
      BY <1>5, <3>1, <3>2
  <2>3. /\ Walking => WalkOrder < FirstNew + Ordinal(k)
        /\ FirstNew \in Int
    BY <1>2, WalkIds
  <2>4. NextId' = FirstNew + Ordinal(k)
    <3>2. k' - 1 = k
      BY <1>1, <1>6 DEF TypeInv, TypeOK, SeamTypeOK
    <3>3. FirstNew' = FirstNew
      BY <1>6 DEF FirstNew
    <3>4. NextId' = FirstNew' + Cardinality({j \in 1..(k' - 1) : IsSubmission(cmds'[j])})
      BY <1>6 DEF NextId, Calling, Ordinal
    <3>5. QED
      BY <1>6, <3>2, <3>3, <3>4 DEF Ordinal
  <2>5. NextId = FirstNew + Ordinal(k - 1)
    BY <1>6 DEF NextId, Calling
  <2>6. Ordinal(k - 1) \in Nat /\ Ordinal(k) \in Nat /\ Ordinal(k - 1) <= Ordinal(k)
    <3>1. k \in Nat \ {0} /\ k - 1 \in Int /\ k \in Int
      BY <1>1 DEF TypeInv, TypeOK, SeamTypeOK
    <3>2. Ordinal(k - 1) \in Nat /\ Ordinal(k) \in Nat
      BY <3>1, PrefixFinite
    <3>3. Ordinal(k) = Ordinal(k - 1) \/ Ordinal(k) = Ordinal(k - 1) + 1
      BY <3>1, OrdinalSteps
    <3>4. QED
      BY <3>2, <3>3
  <2>7. ASSUME NEW x \in DOMAIN submitted'
        PROVE  x < NextId'
    <3>1. CASE x \in DOMAIN submitted
      <4>1. x < FirstNew + Ordinal(k - 1) /\ x \in Int
        BY <1>1, <1>6, <2>5, <3>1, RowTypes DEF Known, OrderIds
      <4>2. QED
        BY <2>3, <2>4, <2>6, <4>1
    <3>2. CASE x \notin DOMAIN submitted
      <4>1. Walking /\ x = WalkOrder
        BY <1>6, <2>7, <3>2 DEF Put
      <4>2. QED
        BY <2>3, <2>4, <4>1
    <3>3. QED
      BY <3>1, <3>2
  <2>8. k' <= Len(cmds') + 1
    <3>1. k <= Len(cmds) /\ k \in Nat /\ Len(cmds) \in Nat
      BY <1>1, <1>2 DEF AtWalk, TypeInv, TypeOK, SeamTypeOK
    <3>2. QED
      BY <1>6, <3>1
  <2>9. QED
    BY <2>1, <2>2, <2>7, <2>8 DEF Known
<1>14. Tallied'
  <2>1. ASSUME NEW x \in DOMAIN pending'
        PROVE  pending'[x].fillsSoFar = Cardinality(RecordsOfOrder(x)')
    <3>1. CASE Stays /\ x = WalkOrder
      <4>1. x = o /\ RecordsOfOrder(o) = {} /\ pending'[x].fillsSoFar = n
        BY <1>3, <1>7, <1>10, <1>11, <3>1
      <4>2. Cardinality(RecordsOfOrder(o)) = 0
        BY <4>1, FS_EmptySet
      <4>3. QED
        BY <1>5, <4>1, <4>2
    <3>2. CASE x \in DOMAIN pending /\ pending'[x] = pending[x] /\ ~ (Walking /\ x = WalkOrder)
      <4>1. pending[x].fillsSoFar = Cardinality(RecordsOfOrder(x))
        BY <3>2 DEF Tallied
      <4>2. QED
        BY <1>9, <3>2, <4>1
    <3>3. QED
      BY <1>12, <3>1, <3>2
  <2>2. QED
    BY <2>1 DEF Tallied
<1>15. ASSUME NEW x \in DOMAIN submitted'
       PROVE  /\ Recorded(RecordsOfOrder(x))' + Rest(x)' <= submitted'[x].intent.qty
              /\ (submitted'[x].intent.kind = "gtc" /\ x \notin withdrawn') =>
                   Recorded(RecordsOfOrder(x))' + Rest(x)' = submitted'[x].intent.qty
  <2>1. CASE Walking /\ x = WalkOrder
    <3>1. submitted'[x].intent = WalkIntent
      BY <1>6, <2>1 DEF Put
    <3>2. TakenQty \in Nat /\ TakenQty <= WalkIntent.qty
      BY <1>3, <1>4, <2>1, WalkTakes
    <3>3. Recorded(RecordsOfOrder(x))' = TakenQty
      <4>1. Recorded(RecordsOfOrder(o)) = 0
        BY <1>7, <2>1, SumEmpty DEF Recorded, SumOver
      <4>2. QED
        BY <1>5, <1>7, <2>1, <3>2, <4>1
    <3>4. WalkIntent \in Intents
      <4>1. cmds[k] \in Commands
        BY <1>1, <2>1 DEF Walking, AtWalk, TypeInv, TypeOK, SeamTypeOK
      <4>2. QED
        BY <2>1, <4>1, CommandParts DEF Walking, WalkIntent
    <3>5. WalkIntent.qty \in Nat
      BY <3>4 DEF Intents, Quantities
    <3>6. CASE Stays
      <4>1. pending'[x].intent.qty = WalkIntent.qty - TakenQty
        BY <1>10, <2>1, <3>4, <3>6 DEF Intents
      <4>2. x \in DOMAIN pending'
        BY <1>10, <2>1, <3>6
      <4>3. Rest(x)' = WalkIntent.qty - TakenQty
        BY <4>1, <4>2 DEF Rest
      <4>4. QED
        BY <3>1, <3>2, <3>3, <3>5, <4>3
    <3>7. CASE ~ Stays
      <4>1. x \notin DOMAIN pending'
        BY <1>12, <2>1, <3>7
      <4>2. Rest(x)' = 0
        BY <4>1 DEF Rest
      <4>3. WalkIntent.kind = "gtc" => TakenQty = WalkIntent.qty
        BY <2>1, <3>2, <3>5, <3>7 DEF Stays
      <4>4. QED
        BY <3>1, <3>2, <3>3, <3>5, <4>2, <4>3
    <3>8. QED
      BY <3>6, <3>7
  <2>2. CASE ~ (Walking /\ x = WalkOrder)
    <3>1. x \in DOMAIN submitted /\ submitted'[x] = submitted[x]
      BY <1>6, <1>15, <2>2 DEF Put
    <3>2. PICK done, size : done = Recorded(RecordsOfOrder(x)) /\ size = submitted[x].intent.qty
      OBVIOUS
    <3>3. /\ done + Rest(x) <= size
          /\ (submitted[x].intent.kind = "gtc" /\ x \notin withdrawn) => done + Rest(x) = size
      BY <3>1, <3>2 DEF Conserved
    <3>4. Recorded(RecordsOfOrder(x))' = done /\ done \in Nat
      BY <1>1, <1>9, <2>2, <3>2, RecordedNat
    <3>5. x \notin withdrawn' => x \notin withdrawn
      BY <1>6 DEF NowWithdrawn
    <3>6. CASE x \in DOMAIN pending'
      <4>1. x \in DOMAIN pending /\ pending'[x] = pending[x]
        BY <1>11, <1>12, <2>2, <3>6
      <4>2. Rest(x)' = Rest(x)
        BY <3>6, <4>1 DEF Rest
      <4>3. QED
        BY <3>1, <3>2, <3>3, <3>4, <3>5, <4>2
    <3>7. CASE x \notin DOMAIN pending' /\ x \notin DOMAIN pending
      <4>1. Rest(x)' = Rest(x)
        BY <3>7 DEF Rest
      <4>2. QED
        BY <3>1, <3>2, <3>3, <3>4, <3>5, <4>1
    <3>8. CASE x \notin DOMAIN pending' /\ x \in DOMAIN pending
      <4>1. IsLifecycle(cmds[k]) /\ x = cmds[k].order
        BY <1>10, <3>8
      <4>2. x \in withdrawn'
        BY <1>6, <3>8, <4>1 DEF NowWithdrawn
      <4>3. Rest(x)' = 0
        BY <3>8 DEF Rest
      <4>4. Rest(x) \in Nat
        <5>1. pending[x] \in PendingEntries
          BY <1>1, <3>8, RowTypes
        <5>2. QED
          BY <3>8, <5>1 DEF Rest, PendingEntries, Intents, Quantities
      <4>5. size \in Nat
        BY <1>1, <3>1, <3>2, RowTypes DEF Intents, Quantities
      <4>6. QED
        BY <3>1, <3>2, <3>3, <3>4, <4>2, <4>3, <4>4, <4>5
    <3>9. QED
      BY <3>6, <3>7, <3>8
  <2>3. QED
    BY <2>1, <2>2
<1>16. Conserved'
  BY <1>15 DEF Conserved
<1>17. QED
  BY <1>13, <1>14, <1>16

-----------------------------------------------------------------------------
(* The legs the rows tell of.                                              *)

\* The rows of a run change what is recorded of one leg and one action.
LegGrows(order, action, trade, p, q) ==
  /\ \A i \in DOMAIN records : i \in DOMAIN records' /\ records'[i] = records[i]
  /\ \A i \in DOMAIN records' :
       \/ i \in DOMAIN records
       \/ /\ records'[i].order = order /\ records'[i].pos = p
          /\ records'[i].action = action /\ records'[i].trade = trade
  /\ \A x, a : Recorded(RecordsOfLeg(x, a)) \in Nat
  /\ \A x, a : x # p \/ a # action =>
       Recorded(RecordsOfLeg(x, a))' = Recorded(RecordsOfLeg(x, a))
  /\ Recorded(RecordsOfLeg(p, action))' = Recorded(RecordsOfLeg(p, action)) + q

LEMMA LegRows ==
  ASSUME TypeInv, TypeInv', NEW run \in Seq(Fills), NEW order \in OrderIds,
         NEW action \in {"open", "close"}, NEW trade \in Nat, NEW p \in Nat, NEW first \in Nat,
         records' = records \o RecordsOf(run, order, action, trade, p, first)
  PROVE  LegGrows(order, action, trade, p, TotalQty(run))
<1>1. records \in Seq(Records) /\ \A i \in DOMAIN records : records[i] \in Records
  BY RowTypes
<1>2. records' \in Seq(Records) /\ \A i \in DOMAIN records' : records'[i] \in Records
  BY RowTypesNext
<1> DEFINE Of(x, a) == {r \in Records : r.pos = x /\ r.action = a}
<1>3. \A x, a : Recorded(RecordsOfLeg(x, a)) = Bulk(records, Of(x, a))
  <2>1. \A x, a : RecordsOfLeg(x, a) = Among(records, Of(x, a))
    BY <1>1 DEF RecordsOfLeg, Among
  <2>2. QED
    BY <2>1 DEF Recorded, Bulk
<1>4. \A x, a : Recorded(RecordsOfLeg(x, a))' = Bulk(records', Of(x, a))
  <2>1. ASSUME NEW x, NEW a
        PROVE  Recorded(RecordsOfLeg(x, a))' = Bulk(records', Of(x, a))
    <3>1. RecordsOfLeg(x, a)' = Among(records', Of(x, a))
      BY <1>2 DEF RecordsOfLeg, Among
    <3>2. QED
      BY <3>1 DEF Recorded, Bulk
  <2>2. QED
    BY <2>1
<1>5. PICK rows : rows = RecordsOf(run, order, action, trade, p, first)
  OBVIOUS
<1>6. /\ rows \in Seq(Records) /\ DOMAIN rows = DOMAIN run
      /\ \A i \in DOMAIN run :
           rows[i] = [order |-> order, seq |-> first + i - 1, trade |-> trade, pos |-> p,
                      action |-> action, fill |-> run[i]]
  <2>1. RowsOfFills(rows, run, order, action, trade, p, first)
    BY <1>5, RunRows
  <2>2. QED
    BY <2>1 DEF RowsOfFills
<1>7. \A i \in DOMAIN rows : /\ rows[i] \in Records /\ rows[i].fill = run[i]
                             /\ rows[i].order = order /\ rows[i].pos = p
                             /\ rows[i].action = action /\ rows[i].trade = trade
  <2>1. ASSUME NEW i \in DOMAIN rows
        PROVE  /\ rows[i] \in Records /\ rows[i].fill = run[i]
               /\ rows[i].order = order /\ rows[i].pos = p
               /\ rows[i].action = action /\ rows[i].trade = trade
    <3>1. rows[i] \in Records
      BY <1>6, ElementsIn
    <3>2. rows[i] = [order |-> order, seq |-> first + i - 1, trade |-> trade, pos |-> p,
                     action |-> action, fill |-> run[i]]
      BY <1>6
    <3>3. QED
      BY <3>1, <3>2
  <2>2. QED
    BY <2>1
<1> DEFINE now == records'
<1>8. now = records \o rows
  BY <1>5
<1>9. PICK m, n : m = Len(records) /\ n = Len(rows)
  OBVIOUS
<1> HIDE DEF now
<1>9a. Follows(Records, records, rows, now, m, n) /\ RowsOfRun(rows, run)
  BY <1>1, <1>6, <1>7, <1>8, <1>9 DEF Follows, RowsOfRun
<1>10. /\ DOMAIN now = DOMAIN records \cup Behind(m, n)
       /\ \A i \in DOMAIN records : now[i] = records[i]
       /\ \A i \in Behind(m, n) : i - m \in DOMAIN rows /\ now[i] = rows[i - m]
  <2>1. Appended(Records, records, rows, now, m, n)
    BY <1>9a, PlacesBehind
  <2>2. QED
    BY <2>1 DEF Appended
<1>11. AllOf(rows, Of(p, action))
  BY <1>7 DEF AllOf
<1>12. \A x, a : x # p \/ a # action => NoneOf(rows, Of(x, a))
  BY <1>7 DEF NoneOf
<1> HIDE DEF Of
<1>13. \A x, a : Bulk(records, Of(x, a)) \in Nat
  BY <1>1, BulkNat
<1>14. Bulk(now, Of(p, action)) = Bulk(records, Of(p, action)) + TotalQty(run)
  <2>1. AddsRun(records, rows, now, run, Of(p, action))
    BY <1>9a, BulkGrows
  <2>2. QED
    BY <1>11, <2>1 DEF AddsRun
<1>15. ASSUME NEW x, NEW a, x # p \/ a # action
       PROVE  Bulk(now, Of(x, a)) = Bulk(records, Of(x, a))
  <2>1. NoneOf(rows, Of(x, a))
    BY <1>12, <1>15
  <2>2. AddsRun(records, rows, now, run, Of(x, a))
    BY <1>9a, BulkGrows
  <2>3. QED
    BY <2>1, <2>2 DEF AddsRun
<1>16. \A x, a : x # p \/ a # action =>
         Recorded(RecordsOfLeg(x, a))' = Recorded(RecordsOfLeg(x, a))
  BY <1>3, <1>4, <1>15 DEF now
<1>17. /\ \A x, a : Recorded(RecordsOfLeg(x, a)) \in Nat
       /\ Recorded(RecordsOfLeg(p, action))'
            = Recorded(RecordsOfLeg(p, action)) + TotalQty(run)
  BY <1>3, <1>4, <1>13, <1>14 DEF now
<1>18. \A i \in DOMAIN records' :
         \/ i \in DOMAIN records
         \/ /\ records'[i].order = order /\ records'[i].pos = p
            /\ records'[i].action = action /\ records'[i].trade = trade
  BY <1>7, <1>10 DEF now
<1>19. QED
  BY <1>10, <1>16, <1>17, <1>18 DEF LegGrows, now

\* What is held of a leg, and its terminal rows.
Held(p)  == IF p \in DOMAIN inventory THEN inventory[p].qty ELSE 0
Ended(p) == Cardinality({i \in DOMAIN terminalRows : terminalRows[i].pos = p})
Replays(p, bought, sold) ==
  bought - sold = Held(p) /\ Ended(p) = IF bought = sold THEN 1 ELSE 0

\* The bundle replays the inventory leg by leg.
LegsReplay ==
  \A p \in 1..(nextPos - 1) :
    Replays(p, Recorded(RecordsOfLeg(p, "open")), Recorded(RecordsOfLeg(p, "close")))

LEMMA ReplaysEach == BundleReplaysInventory <=> LegsReplay
  BY DEF BundleReplaysInventory, LegsReplay, Replays, Held, Ended

\* A terminal row more is one more for its leg.
LEMMA OneMoreEnded ==
  ASSUME TypeInv, NEW row, row \in TerminalRows, terminalRows' = Append(terminalRows, row)
  PROVE  /\ \A p : /\ Ended(p) \in Nat
                   /\ Ended(p)' = Ended(p) + IF p = row.pos THEN 1 ELSE 0
         /\ \A i \in DOMAIN terminalRows' :
              \/ i \in DOMAIN terminalRows /\ terminalRows'[i] = terminalRows[i]
              \/ terminalRows'[i] = row
<1>1. terminalRows \in Seq(TerminalRows)
  BY DEF TypeInv, TypeOK, EngineTypeOK, BooksTypeOK
<1>2. PICK n : n = Len(terminalRows) + 1
  OBVIOUS
<1>3. /\ n \in Nat /\ DOMAIN terminalRows' = DOMAIN terminalRows \cup {n}
      /\ n \notin DOMAIN terminalRows /\ terminalRows'[n] = row
      /\ \A i \in DOMAIN terminalRows : terminalRows'[i] = terminalRows[i]
  BY <1>1, <1>2
<1>4. ASSUME NEW p
      PROVE  Ended(p) \in Nat /\ Ended(p)' = Ended(p) + IF p = row.pos THEN 1 ELSE 0
  <2>1. PICK A : A = {i \in DOMAIN terminalRows : terminalRows[i].pos = p}
    OBVIOUS
  <2>2. IsFiniteSet(A) /\ Cardinality(A) \in Nat
    <3>1. IsFiniteSet(DOMAIN terminalRows)
      BY <1>1, FS_Interval
    <3>2. QED
      BY <2>1, <3>1, FS_Subset, FS_CardinalityType
  <2>3. Ended(p) = Cardinality(A)
    BY <2>1 DEF Ended
  <2>4. CASE p = row.pos
    <3>1. {i \in DOMAIN terminalRows' : terminalRows'[i].pos = p} = A \cup {n}
      BY <1>3, <2>1, <2>4
    <3>2. n \notin A
      BY <1>3, <2>1
    <3>3. Cardinality(A \cup {n}) = Cardinality(A) + 1
      BY <2>2, <3>2, FS_AddElement
    <3>4. QED
      BY <2>2, <2>3, <2>4, <3>1, <3>3 DEF Ended
  <2>5. CASE p # row.pos
    <3>1. {i \in DOMAIN terminalRows' : terminalRows'[i].pos = p} = A
      BY <1>3, <2>1, <2>5
    <3>2. Ended(p)' = Cardinality(A)
      BY <3>1 DEF Ended
    <3>3. QED
      BY <2>2, <2>3, <2>5, <3>2
  <2>6. QED
    BY <2>4, <2>5
<1>5. QED
  BY <1>3, <1>4

\* Terminal rows of a leg are counted.
LEMMA EndedNat ==
  ASSUME TypeInv, NEW p
  PROVE  /\ Ended(p) \in Nat
         /\ Ended(p) = 0 <=> \A i \in DOMAIN terminalRows : terminalRows[i].pos # p
<1>1. PICK A : A = {i \in DOMAIN terminalRows : terminalRows[i].pos = p}
  OBVIOUS
<1>2. terminalRows \in Seq(TerminalRows)
  BY DEF TypeInv, TypeOK, EngineTypeOK, BooksTypeOK
<1>3. IsFiniteSet(DOMAIN terminalRows)
  BY <1>2, FS_Interval
<1>4. IsFiniteSet(A)
  BY <1>1, <1>3, FS_Subset
<1>5. QED
  BY <1>1, <1>4, FS_CardinalityType, FS_EmptySet DEF Ended

\* A new leg is bought and held; it has no earlier row.
LEMMA OpeningReplays ==
  ASSUME LegsInv, TypeInv', Placed, BundleReplaysInventory,
         NEW run \in Seq(Fills), TotalQty(run) \in Quantities, NEW order \in OrderIds,
         NEW trade \in Nat, NEW first \in Nat,
         OpenLeg(nextPos, trade, run, order, first), nextPos' = nextPos + 1
  PROVE  Placed' /\ BundleReplaysInventory'
<1>1. TypeInv /\ IdsMinted
  BY DEF LegsInv
<1>2. PICK r, q : r = nextPos /\ q = TotalQty(run)
  OBVIOUS
<1>3. r \in Nat \ {0} /\ nextPos = r /\ nextPos' = r + 1 /\ q \in Nat \ {0}
  BY <1>1, <1>2, RowTypes DEF Quantities
<1>4. /\ inventory' = Put(inventory, r, [contract |-> run[1].contract,
                                         side |-> run[1].side, qty |-> q])
      /\ records' = records \o RecordsOf(run, order, "open", trade, r, first)
      /\ terminalRows' = terminalRows
  BY <1>2 DEF OpenLeg
<1>5. /\ \A i \in DOMAIN records : i \in DOMAIN records' /\ records'[i] = records[i]
      /\ \A i \in DOMAIN records' : i \in DOMAIN records \/ records'[i].pos = r
      /\ \A x, a : Recorded(RecordsOfLeg(x, a)) \in Nat
      /\ \A x, a : x # r \/ a # "open" =>
           Recorded(RecordsOfLeg(x, a))' = Recorded(RecordsOfLeg(x, a))
      /\ Recorded(RecordsOfLeg(r, "open"))' = Recorded(RecordsOfLeg(r, "open")) + q
  <2>1. r \in Nat /\ TypeInv
    BY <1>1, <1>3
  <2>2. LegGrows(order, "open", trade, r, TotalQty(run))
    BY <1>4, <2>1, LegRows
  <2>3. QED
    BY <1>2, <2>2 DEF LegGrows
<1>6. Placed'
  <2>1. ASSUME NEW i \in DOMAIN records'
        PROVE  records'[i].pos \in 1..(nextPos' - 1)
    <3>1. CASE i \in DOMAIN records
      <4>1. records[i].pos \in 1..(r - 1) /\ records'[i].pos = records[i].pos
        BY <1>3, <1>5, <3>1 DEF Placed
      <4>2. QED
        BY <1>3, <4>1
    <3>2. CASE records'[i].pos = r
      BY <1>3, <3>2
    <3>3. QED
      BY <1>5, <3>1, <3>2
  <2>2. ASSUME NEW i \in DOMAIN terminalRows'
        PROVE  terminalRows'[i].pos \in 1..(nextPos' - 1)
    <3>1. terminalRows[i].pos \in 1..(r - 1) /\ terminalRows'[i] = terminalRows[i]
      BY <1>3, <1>4 DEF Placed
    <3>2. QED
      BY <1>3, <3>1
  <2>3. QED
    BY <2>1, <2>2 DEF Placed
<1>7. ASSUME NEW p \in 1..(nextPos' - 1), NEW bought, NEW sold,
             bought = Recorded(RecordsOfLeg(p, "open"))',
             sold = Recorded(RecordsOfLeg(p, "close"))'
      PROVE  bought - sold = Held(p)' /\ Ended(p)' = IF bought = sold THEN 1 ELSE 0
  <2>1. Ended(p)' = Ended(p)
    BY <1>4 DEF Ended
  <2>2. CASE p = r
    <3>1. \A a : RecordsOfLeg(r, a) = {}
      <4>1. \A i \in DOMAIN records : records[i].pos # r
        BY <1>3 DEF Placed
      <4>2. QED
        BY <4>1 DEF RecordsOfLeg
    <3>2. \A a : Recorded(RecordsOfLeg(r, a)) = 0
      BY <3>1, SumEmpty DEF Recorded, SumOver
    <3>3. Recorded(RecordsOfLeg(r, "close"))' = Recorded(RecordsOfLeg(r, "close"))
      BY <1>5
    <3>4. bought = q /\ sold = 0
      BY <1>3, <1>5, <1>7, <2>2, <3>2, <3>3
    <3>5. Held(p)' = q
      BY <1>4, <2>2 DEF Held, Put
    <3>6. Ended(p) = 0
      <4>1. \A i \in DOMAIN terminalRows : terminalRows[i].pos # r
        BY <1>3 DEF Placed
      <4>2. QED
        BY <1>1, <2>2, <4>1, EndedNat
    <3>7. QED
      BY <1>3, <2>1, <3>4, <3>5, <3>6
  <2>3. CASE p # r
    <3>1. p \in 1..(nextPos - 1)
      BY <1>3, <2>3
    <3>2. bought = Recorded(RecordsOfLeg(p, "open")) /\ sold = Recorded(RecordsOfLeg(p, "close"))
      BY <1>5, <1>7, <2>3
    <3>3. bought - sold = Held(p) /\ Ended(p) = IF bought = sold THEN 1 ELSE 0
      BY <3>1, <3>2, ReplaysEach DEF LegsReplay, Replays
    <3>4. Held(p)' = Held(p)
      BY <1>4, <2>3 DEF Held, Put
    <3>5. QED
      BY <2>1, <3>3, <3>4
  <2>4. QED
    BY <2>2, <2>3
<1>8. BundleReplaysInventory'
  <2>1. ASSUME NEW p \in 1..(nextPos' - 1)
        PROVE  Replays(p, Recorded(RecordsOfLeg(p, "open")), Recorded(RecordsOfLeg(p, "close")))'
    <3>1. PICK bought, sold : /\ bought = Recorded(RecordsOfLeg(p, "open"))'
                              /\ sold = Recorded(RecordsOfLeg(p, "close"))'
      OBVIOUS
    <3>2. bought - sold = Held(p)' /\ Ended(p)' = IF bought = sold THEN 1 ELSE 0
      BY <1>7, <3>1
    <3>3. QED
      BY <3>1, <3>2 DEF Replays
  <2>2. LegsReplay'
    BY <2>1 DEF LegsReplay
  <2>3. QED
    BY <2>2, ReplaysEach, PTL
<1>9. QED
  BY <1>6, <1>8

\* Rows of legs already opened are placed.
LEMMA PlacedKept ==
  ASSUME TypeInv, Placed, nextPos' = nextPos, NEW p, p \in 1..(nextPos - 1),
         \A i \in DOMAIN records' :
           \/ i \in DOMAIN records /\ records'[i] = records[i]
           \/ records'[i].pos = p,
         \A i \in DOMAIN terminalRows' :
           \/ i \in DOMAIN terminalRows /\ terminalRows'[i] = terminalRows[i]
           \/ terminalRows'[i].pos = p
  PROVE  Placed'
<1>1. ASSUME NEW i \in DOMAIN records'
      PROVE  records'[i].pos \in 1..(nextPos' - 1)
  BY <1>1 DEF Placed
<1>2. ASSUME NEW i \in DOMAIN terminalRows'
      PROVE  terminalRows'[i].pos \in 1..(nextPos' - 1)
  BY <1>2 DEF Placed
<1>3. QED
  BY <1>1, <1>2 DEF Placed

\* An extension is bought and held.
LEMMA ExtensionReplays ==
  ASSUME LegsInv, TypeInv', Placed, BundleReplaysInventory, NEW p \in DOMAIN inventory,
         NEW run \in Seq(Fills), TotalQty(run) \in Quantities, NEW order \in OrderIds,
         NEW trade \in Nat, NEW first \in Nat,
         ExtendLeg(p, trade, run, order, first), nextPos' = nextPos
  PROVE  Placed' /\ BundleReplaysInventory'
<1>1. TypeInv /\ IdsMinted
  BY DEF LegsInv
<1>2. PICK q : q = TotalQty(run)
  OBVIOUS
<1>3. p \in 1..(nextPos - 1) /\ nextPos \in Nat \ {0} /\ p \in Nat /\ q \in Nat \ {0}
  BY <1>1, <1>2, RowTypes DEF Quantities, IdsMinted
<1>4. /\ inventory' = [inventory EXCEPT ![p].qty = @ + q]
      /\ records' = records \o RecordsOf(run, order, "open", trade, p, first)
      /\ terminalRows' = terminalRows
  BY <1>2 DEF ExtendLeg
<1>5. /\ \A i \in DOMAIN records : i \in DOMAIN records' /\ records'[i] = records[i]
      /\ \A i \in DOMAIN records' : i \in DOMAIN records \/ records'[i].pos = p
      /\ \A x, a : Recorded(RecordsOfLeg(x, a)) \in Nat
      /\ \A x, a : x # p \/ a # "open" =>
           Recorded(RecordsOfLeg(x, a))' = Recorded(RecordsOfLeg(x, a))
      /\ Recorded(RecordsOfLeg(p, "open"))' = Recorded(RecordsOfLeg(p, "open")) + q
  <2>1. LegGrows(order, "open", trade, p, TotalQty(run))
    BY <1>1, <1>3, <1>4, LegRows
  <2>2. QED
    BY <1>2, <2>1 DEF LegGrows
<1>6. Placed'
  BY <1>1, <1>3, <1>4, <1>5, PlacedKept
<1>7. inventory[p] \in Legs /\ inventory[p].qty \in Nat \ {0}
  <2>1. IsMap(inventory, Nat, Legs)
    BY <1>1 DEF TypeInv, TypeOK, EngineTypeOK, BooksTypeOK
  <2>2. QED
    BY <2>1 DEF IsMap, Legs, Quantities
<1>8. ASSUME NEW x \in 1..(nextPos' - 1), NEW bought, NEW sold,
             bought = Recorded(RecordsOfLeg(x, "open"))',
             sold = Recorded(RecordsOfLeg(x, "close"))'
      PROVE  bought - sold = Held(x)' /\ Ended(x)' = IF bought = sold THEN 1 ELSE 0
  <2>1. Ended(x)' = Ended(x)
    BY <1>4 DEF Ended
  <2>2. PICK b, s : b = Recorded(RecordsOfLeg(x, "open")) /\ s = Recorded(RecordsOfLeg(x, "close"))
    OBVIOUS
  <2>3. b \in Nat /\ s \in Nat
    BY <1>5, <2>2
  <2>4. b - s = Held(x) /\ Ended(x) = IF b = s THEN 1 ELSE 0
    BY <2>2, ReplaysEach DEF LegsReplay, Replays
  <2>5. sold = s
    BY <1>5, <1>8, <2>2
  <2>6. CASE x = p
    <3>1. bought = b + q
      BY <1>5, <1>8, <2>2, <2>6
    <3>2. Held(x) = inventory[p].qty
      BY <2>6 DEF Held
    <3>3. Held(x)' = inventory[p].qty + q
      BY <1>4, <1>7, <2>6 DEF Held, Legs
    <3>4. QED
      BY <1>3, <1>7, <2>1, <2>3, <2>4, <2>5, <3>1, <3>2, <3>3
  <2>7. CASE x # p
    <3>1. bought = b
      BY <1>5, <1>8, <2>2, <2>7
    <3>2. Held(x)' = Held(x)
      BY <1>4, <2>7 DEF Held
    <3>3. QED
      BY <2>1, <2>4, <2>5, <3>1, <3>2
  <2>8. QED
    BY <2>6, <2>7
<1>9. BundleReplaysInventory'
  <2>1. ASSUME NEW x \in 1..(nextPos' - 1)
        PROVE  Replays(x, Recorded(RecordsOfLeg(x, "open")), Recorded(RecordsOfLeg(x, "close")))'
    <3>1. PICK bought, sold : /\ bought = Recorded(RecordsOfLeg(x, "open"))'
                              /\ sold = Recorded(RecordsOfLeg(x, "close"))'
      OBVIOUS
    <3>2. bought - sold = Held(x)' /\ Ended(x)' = IF bought = sold THEN 1 ELSE 0
      BY <1>8, <3>1
    <3>3. QED
      BY <3>1, <3>2 DEF Replays
  <2>2. LegsReplay'
    BY <2>1 DEF LegsReplay
  <2>3. QED
    BY <2>2, ReplaysEach, PTL
<1>10. QED
  BY <1>6, <1>9

\* A close is sold and no longer held; the one that leaves nothing gives the
\* leg its terminal row.
LEMMA ClosingReplays ==
  ASSUME LegsInv, TypeInv', Placed, BundleReplaysInventory, NEW p,
         NEW run \in Seq(Fills), TotalQty(run) \in Quantities, NEW order \in OrderIds,
         NEW first \in Nat, NEW reason \in Reasons,
         CloseFault(p, TotalQty(run)) = "none",
         CloseLeg(p, run, order, first, reason), nextPos' = nextPos
  PROVE  Placed' /\ BundleReplaysInventory'
<1>1. TypeInv /\ IdsMinted
  BY DEF LegsInv
<1>2. PICK q : q = TotalQty(run)
  OBVIOUS
<1>3. p \in DOMAIN inventory /\ ~ (q > inventory[p].qty) /\ p \in DOMAIN openLegs
  BY <1>2 DEF CloseFault
<1>4. p \in 1..(nextPos - 1) /\ nextPos \in Nat \ {0} /\ p \in Nat /\ q \in Nat \ {0}
  BY <1>1, <1>2, <1>3, RowTypes DEF Quantities, IdsMinted
<1>5. inventory[p] \in Legs /\ inventory[p].qty \in Nat \ {0} /\ openLegs[p] \in Nat
  <2>1. IsMap(inventory, Nat, Legs) /\ IsMap(openLegs, Nat, Nat)
    BY <1>1 DEF TypeInv, TypeOK, EngineTypeOK, BooksTypeOK
  <2>2. QED
    BY <1>3, <2>1 DEF IsMap, Legs, Quantities
<1>6. PICK full, row :
        /\ full \in BOOLEAN /\ full = (inventory[p].qty = q)
        /\ row = [pos |-> p, trade |-> openLegs[p], qty |-> q, reason |-> reason]
  OBVIOUS
<1>7. /\ inventory' = IF full THEN Drop(inventory, p)
                      ELSE [inventory EXCEPT ![p].qty = @ - q]
      /\ records' = records \o RecordsOf(run, order, "close", openLegs[p], p, first)
      /\ terminalRows' = IF full THEN Append(terminalRows, row) ELSE terminalRows
  BY <1>2, <1>6 DEF CloseLeg, FullClose
<1>8. /\ \A i \in DOMAIN records : i \in DOMAIN records' /\ records'[i] = records[i]
      /\ \A i \in DOMAIN records' : i \in DOMAIN records \/ records'[i].pos = p
      /\ \A x, a : Recorded(RecordsOfLeg(x, a)) \in Nat
      /\ \A x, a : x # p \/ a # "close" =>
           Recorded(RecordsOfLeg(x, a))' = Recorded(RecordsOfLeg(x, a))
      /\ Recorded(RecordsOfLeg(p, "close"))' = Recorded(RecordsOfLeg(p, "close")) + q
  <2>1. LegGrows(order, "close", openLegs[p], p, TotalQty(run))
    BY <1>1, <1>4, <1>5, <1>7, LegRows
  <2>2. QED
    BY <1>2, <2>1 DEF LegGrows
<1>9. row \in TerminalRows /\ row.pos = p
  BY <1>2, <1>4, <1>5, <1>6 DEF TerminalRows
<1>10. /\ \A x : /\ Ended(x) \in Nat
                 /\ Ended(x)' = Ended(x) + IF full /\ x = p THEN 1 ELSE 0
       /\ \A i \in DOMAIN terminalRows' :
            \/ i \in DOMAIN terminalRows /\ terminalRows'[i] = terminalRows[i]
            \/ terminalRows'[i].pos = p
  <2>1. CASE full
    <3>1. terminalRows' = Append(terminalRows, row)
      BY <1>7, <2>1
    <3>2. QED
      BY <1>1, <1>9, <2>1, <3>1, OneMoreEnded
  <2>2. CASE ~ full
    <3>1. terminalRows' = terminalRows
      BY <1>7, <2>2
    <3>2. \A x : Ended(x) \in Nat /\ Ended(x)' = Ended(x)
      BY <1>1, <3>1, EndedNat DEF Ended
    <3>3. QED
      BY <2>2, <3>1, <3>2
  <2>3. QED
    BY <2>1, <2>2
<1>11. Placed'
  BY <1>1, <1>4, <1>8, <1>10, PlacedKept
<1>12. ASSUME NEW x \in 1..(nextPos' - 1), NEW bought, NEW sold,
              bought = Recorded(RecordsOfLeg(x, "open"))',
              sold = Recorded(RecordsOfLeg(x, "close"))'
       PROVE  bought - sold = Held(x)' /\ Ended(x)' = IF bought = sold THEN 1 ELSE 0
  <2>1. PICK b, s : b = Recorded(RecordsOfLeg(x, "open")) /\ s = Recorded(RecordsOfLeg(x, "close"))
    OBVIOUS
  <2>2. b \in Nat /\ s \in Nat
    BY <1>8, <2>1
  <2>3. b - s = Held(x) /\ Ended(x) = IF b = s THEN 1 ELSE 0
    BY <2>1, ReplaysEach DEF LegsReplay, Replays
  <2>4. bought = b
    BY <1>8, <1>12, <2>1
  <2>5. CASE x = p
    <3>1. sold = s + q
      BY <1>8, <1>12, <2>1, <2>5
    <3>2. Held(x) = inventory[p].qty
      BY <1>3, <2>5 DEF Held
    <3>3. Held(x)' = inventory[p].qty - q
      <4>1. CASE full
        <5>1. inventory' = Drop(inventory, p)
          BY <1>7, <4>1
        <5>2. x \notin DOMAIN inventory'
          BY <2>5, <5>1 DEF Drop
        <5>3. Held(x)' = 0
          BY <5>2 DEF Held
        <5>4. inventory[p].qty = q
          BY <1>6, <4>1, Zenon
        <5>5. QED
          BY <1>5, <5>3, <5>4
      <4>2. CASE ~ full
        BY <1>3, <1>5, <1>7, <2>5, <4>2 DEF Held, Legs
      <4>3. QED
        BY <4>1, <4>2
    <3>4. Ended(x) = 0
      BY <1>5, <2>2, <2>3, <3>2
    <3>5. Ended(x)' = IF inventory[p].qty = q THEN 1 ELSE 0
      <4>1. Ended(p)' = Ended(p) + IF full THEN 1 ELSE 0
        BY <1>10
      <4>2. CASE full
        <5>1. inventory[p].qty = q
          BY <1>6, <4>2, Zenon
        <5>2. QED
          BY <2>5, <3>4, <4>1, <4>2, <5>1
      <4>3. CASE ~ full
        <5>1. inventory[p].qty # q
          BY <1>6, <4>3, Zenon
        <5>2. QED
          BY <2>5, <3>4, <4>1, <4>3, <5>1
      <4>4. QED
        BY <4>2, <4>3
    <3>6. QED
      BY <1>4, <1>5, <2>2, <2>3, <2>4, <3>1, <3>2, <3>3, <3>5
  <2>6. CASE x # p
    <3>1. sold = s
      BY <1>8, <1>12, <2>1, <2>6
    <3>2. Held(x)' = Held(x)
      BY <1>7, <2>6 DEF Held, Drop
    <3>3. Ended(x)' = Ended(x)
      BY <1>10, <2>6
    <3>4. QED
      BY <2>3, <2>4, <3>1, <3>2, <3>3
  <2>7. QED
    BY <2>5, <2>6
<1>13. BundleReplaysInventory'
  <2>1. ASSUME NEW x \in 1..(nextPos' - 1)
        PROVE  Replays(x, Recorded(RecordsOfLeg(x, "open")), Recorded(RecordsOfLeg(x, "close")))'
    <3>1. PICK bought, sold : /\ bought = Recorded(RecordsOfLeg(x, "open"))'
                              /\ sold = Recorded(RecordsOfLeg(x, "close"))'
      OBVIOUS
    <3>2. bought - sold = Held(x)' /\ Ended(x)' = IF bought = sold THEN 1 ELSE 0
      BY <1>12, <3>1
    <3>3. QED
      BY <3>1, <3>2 DEF Replays
  <2>2. LegsReplay'
    BY <2>1 DEF LegsReplay
  <2>3. QED
    BY <2>2, ReplaysEach, PTL
<1>14. QED
  BY <1>11, <1>13

-----------------------------------------------------------------------------
(* Every opening order has its own leg.                                    *)

\* Entries that keep their legs, and new ones without a leg, of orders that
\* opened none: no leg changes hands if no open is recorded.
LEMMA OwnKept ==
  ASSUME Placed, OwnLegs,
         \A i \in DOMAIN records' : records'[i].action = "open" =>
           i \in DOMAIN records /\ records'[i] = records[i],
         \A o \in DOMAIN pending' :
           \/ o \in DOMAIN pending /\ pending'[o].pos = pending[o].pos
           \/ pending'[o].pos = 0 /\ \A i \in Opens : records[i].order # o
  PROVE  OwnLegs'
<1>1. \A i \in Opens' : i \in Opens /\ records'[i] = records[i]
  BY DEF Opens
<1>2. \A i \in Opens : records[i].pos # 0
  BY DEF Opens, Placed
<1>3. ASSUME NEW i \in Opens', NEW j \in Opens'
      PROVE  records'[i].order = records'[j].order <=> records'[i].pos = records'[j].pos
  <2>1. records[i].order = records[j].order <=> records[i].pos = records[j].pos
    BY <1>1 DEF OwnLegs
  <2>2. QED
    BY <1>1, <2>1
<1>4. ASSUME NEW o \in DOMAIN pending', NEW i \in Opens'
      PROVE  records'[i].order = o <=> records'[i].pos = pending'[o].pos
  <2>1. CASE o \in DOMAIN pending /\ pending'[o].pos = pending[o].pos
    <3>1. records[i].order = o <=> records[i].pos = pending[o].pos
      BY <1>1, <2>1 DEF OwnLegs
    <3>2. QED
      BY <1>1, <2>1, <3>1
  <2>2. CASE pending'[o].pos = 0 /\ \A x \in Opens : records[x].order # o
    BY <1>1, <1>2, <2>2
  <2>3. QED
    BY <2>1, <2>2
<1>5. QED
  BY <1>3, <1>4 DEF OwnLegs

\* An order that opened no leg yet opens the next one.
LEMMA OwnOpened ==
  ASSUME LegsInv, Placed, OwnLegs, NEW order, NEW r, r = nextPos,
         \A i \in Opens : records[i].order # order,
         \A i \in DOMAIN records' :
           \/ i \in DOMAIN records /\ records'[i] = records[i]
           \/ records'[i].order = order /\ records'[i].pos = r,
         \A o \in DOMAIN pending' :
           \/ o # order /\ o \in DOMAIN pending /\ pending'[o].pos = pending[o].pos
           \/ o = order /\ pending'[o].pos = r
  PROVE  OwnLegs'
<1>1. /\ \A i \in Opens : records[i].pos # r
      /\ \A o \in DOMAIN pending : pending[o].pos # r
  <2>1. nextPos \in Nat \ {0}
    BY SizesNat DEF LegsInv
  <2>2. QED
    BY <2>1 DEF Opens, Placed, LegsInv, IdsMinted
<1>2. \A i \in Opens' : \/ i \in Opens /\ records'[i] = records[i]
                        \/ records'[i].order = order /\ records'[i].pos = r
  BY DEF Opens
<1>3. ASSUME NEW i \in Opens', NEW j \in Opens'
      PROVE  records'[i].order = records'[j].order <=> records'[i].pos = records'[j].pos
  <2>1. i \in Opens /\ j \in Opens =>
          (records[i].order = records[j].order <=> records[i].pos = records[j].pos)
    BY DEF OwnLegs
  <2>2. QED
    BY <1>1, <1>2, <2>1
<1>4. ASSUME NEW o \in DOMAIN pending', NEW i \in Opens'
      PROVE  records'[i].order = o <=> records'[i].pos = pending'[o].pos
  <2>1. CASE o # order /\ o \in DOMAIN pending /\ pending'[o].pos = pending[o].pos
    <3>1. i \in Opens => (records[i].order = o <=> records[i].pos = pending[o].pos)
      BY <2>1 DEF OwnLegs
    <3>2. QED
      BY <1>1, <1>2, <2>1, <3>1
  <2>2. CASE o = order /\ pending'[o].pos = r
    BY <1>1, <1>2, <2>2
  <2>3. QED
    BY <2>1, <2>2
<1>5. QED
  BY <1>3, <1>4 DEF OwnLegs

\* An order extends the leg it opened.
LEMMA OwnExtended ==
  ASSUME OwnLegs, Room, NEW order \in DOMAIN pending, NEW p, p = pending[order].pos, p # 0,
         \A i \in DOMAIN records' :
           \/ i \in DOMAIN records /\ records'[i] = records[i]
           \/ records'[i].order = order /\ records'[i].pos = p,
         \A o \in DOMAIN pending' : o \in DOMAIN pending /\ pending'[o].pos = pending[o].pos
  PROVE  OwnLegs'
<1>1. \A o \in DOMAIN pending : p = pending[o].pos <=> order = o
  BY DEF Room
<1>2. \A i \in Opens : records[i].order = order <=> records[i].pos = p
  BY DEF OwnLegs
<1>3. \A i \in Opens' : \/ i \in Opens /\ records'[i] = records[i]
                        \/ records'[i].order = order /\ records'[i].pos = p
  BY DEF Opens
<1>4. ASSUME NEW i \in Opens', NEW j \in Opens'
      PROVE  records'[i].order = records'[j].order <=> records'[i].pos = records'[j].pos
  <2>1. i \in Opens /\ j \in Opens =>
          (records[i].order = records[j].order <=> records[i].pos = records[j].pos)
    BY DEF OwnLegs
  <2>2. QED
    BY <1>2, <1>3, <2>1
<1>5. ASSUME NEW o \in DOMAIN pending', NEW i \in Opens'
      PROVE  records'[i].order = o <=> records'[i].pos = pending'[o].pos
  <2>1. i \in Opens => (records[i].order = o <=> records[i].pos = pending[o].pos)
    BY DEF OwnLegs
  <2>2. pending'[o].pos = pending[o].pos /\ o \in DOMAIN pending
    OBVIOUS
  <2>3. QED
    BY <1>1, <1>3, <2>1, <2>2
<1>6. QED
  BY <1>4, <1>5 DEF OwnLegs

\* The entry of the order that trades, and the others, after a carry group.
LEMMA CarryEntries ==
  ASSUME NEW trade, NEW p, NEW o, o = CarryOrder, pending' = Shrunk(trade, p),
         CarryEntry \in PendingEntries
  PROVE  \A x \in DOMAIN pending' :
           \/ x # o /\ x \in DOMAIN pending /\ pending'[x] = pending[x]
           \/ /\ x = o /\ pending'[x].pos = p /\ pending'[x].trade = trade
              /\ pending'[x].intent.action = CarryEntry.intent.action
<1>1. CASE TotalQty(CarryRun) = CarryEntry.intent.qty
  <2>1. pending' = Drop(pending, o)
    BY <1>1 DEF Shrunk
  <2>2. QED
    BY <2>1 DEF Drop
<1>2. CASE TotalQty(CarryRun) # CarryEntry.intent.qty
  <2>1. pending' = Put(pending, o, ShrunkEntry(trade, p))
    BY <1>2 DEF Shrunk
  <2>2. /\ ShrunkEntry(trade, p).pos = p /\ ShrunkEntry(trade, p).trade = trade
        /\ ShrunkEntry(trade, p).intent.action = CarryEntry.intent.action
    BY DEF ShrunkEntry, PendingEntries, Intents
  <2>3. QED
    BY <2>1, <2>2 DEF Put
<1>3. QED
  BY <1>1, <1>2

\* A carry group leaves every order its leg.
LEMMA CarryOwns ==
  ASSUME SeamInv, TypeInv', Placed, OwnLegs,
         CarryOpensLeg \/ CarryExtendsLeg \/ CarryClosesLeg
  PROVE  OwnLegs'
<1>1. TypeInv /\ LegsInv /\ Room
  BY DEF SeamInv, FillInv
<1>2. AtCarry /\ CarryFault = "none"
  BY <1>1, CarryShape
<1>3. PICK o : o = CarryOrder
  OBVIOUS
<1>4. /\ o \in DOMAIN pending /\ o \in OrderIds /\ CarryEntry = pending[o]
      /\ CarryRun \in Seq(Fills) /\ CarryEntry \in PendingEntries
  BY <1>1, <1>2, <1>3, CarryChecked DEF CarryEntry
<1>5. /\ CarryEntry.trade \in Nat /\ CarryEntry.pos \in Nat
      /\ CarryEntry.intent.pos \in Nat /\ CarryEntry.fillsSoFar \in Nat
  BY <1>4 DEF PendingEntries, Intents
<1>6. nextPos \in Nat /\ nextTrade \in Nat
  BY <1>1, RowTypes
<1>7. CASE CarryOpensLeg
  <2>1. PICK trade \in Nat :
          /\ records' = records \o RecordsOf(CarryRun, o, "open", trade, nextPos,
                                             CarryEntry.fillsSoFar)
          /\ pending' = Shrunk(trade, nextPos)
    BY <1>3, <1>5, <1>6, <1>7 DEF CarryOpensLeg, OpenLeg, NextSeqOf
  <2>2. PICK r : r = nextPos
    OBVIOUS
  <2>3. \A i \in DOMAIN records' :
           \/ i \in DOMAIN records /\ records'[i] = records[i]
           \/ records'[i].order = o /\ records'[i].pos = r
    <3>1. LegGrows(o, "open", trade, r, TotalQty(CarryRun))
      BY <1>1, <1>4, <1>5, <1>6, <2>1, <2>2, LegRows
    <3>2. QED
      BY <3>1 DEF LegGrows
  <2>4. \A x \in DOMAIN pending' :
           \/ x # o /\ x \in DOMAIN pending /\ pending'[x].pos = pending[x].pos
           \/ x = o /\ pending'[x].pos = r
    BY <1>3, <1>4, <2>1, <2>2, CarryEntries
  <2>5. \A i \in Opens : records[i].order # o
    <3>1. pending[o].pos = 0
      BY <1>4, <1>7 DEF CarryOpensLeg
    <3>2. \A i \in Opens : records[i].pos # 0
      BY DEF Opens, Placed
    <3>3. QED
      BY <1>4, <3>1, <3>2 DEF OwnLegs
  <2>6. QED
    BY <1>1, <2>2, <2>3, <2>4, <2>5, OwnOpened
<1>8. CASE CarryExtendsLeg
  <2>1. PICK p : p = pending[o].pos
    OBVIOUS
  <2>2. /\ records' = records \o RecordsOf(CarryRun, o, "open", CarryEntry.trade, p,
                                           CarryEntry.fillsSoFar)
        /\ pending' = Shrunk(CarryEntry.trade, p) /\ p # 0 /\ p \in Nat
    BY <1>3, <1>4, <1>5, <1>8, <2>1 DEF CarryExtendsLeg, ExtendLeg, NextSeqOf
  <2>3. \A i \in DOMAIN records' :
           \/ i \in DOMAIN records /\ records'[i] = records[i]
           \/ records'[i].order = o /\ records'[i].pos = p
    <3>1. LegGrows(o, "open", CarryEntry.trade, p, TotalQty(CarryRun))
      BY <1>1, <1>4, <1>5, <2>2, LegRows
    <3>2. QED
      BY <3>1 DEF LegGrows
  <2>4. \A x \in DOMAIN pending' : x \in DOMAIN pending /\ pending'[x].pos = pending[x].pos
    BY <1>3, <1>4, <2>1, <2>2, CarryEntries
  <2>5. QED
    BY <1>1, <1>4, <2>1, <2>2, <2>3, <2>4, OwnExtended
<1>9. CASE CarryClosesLeg
  <2>1. PICK p \in Nat, trade \in Nat :
          /\ records' = records \o RecordsOf(CarryRun, o, "close", trade, p,
                                             CarryEntry.fillsSoFar)
    <3>1. CloseFault(CarryEntry.intent.pos, TotalQty(CarryRun)) = "none"
      BY <1>1, <1>2, <1>9, CarryChecked DEF CarryClosesLeg
    <3>2. CarryEntry.intent.pos \in DOMAIN openLegs
      BY <3>1 DEF CloseFault
    <3>3. IsMap(openLegs, Nat, Nat)
      BY <1>1 DEF TypeInv, TypeOK, EngineTypeOK, BooksTypeOK
    <3>4. openLegs[CarryEntry.intent.pos] \in Nat
      BY <3>2, <3>3 DEF IsMap
    <3>5. QED
      BY <1>3, <1>5, <1>9, <3>4 DEF CarryClosesLeg, CloseLeg, NextSeqOf
  <2>2. \A i \in DOMAIN records' :
           \/ i \in DOMAIN records /\ records'[i] = records[i]
           \/ records'[i].action = "close"
    <3>1. LegGrows(o, "close", trade, p, TotalQty(CarryRun))
      BY <1>1, <1>4, <1>5, <2>1, LegRows
    <3>2. QED
      BY <3>1 DEF LegGrows
  <2>3. \A i \in DOMAIN records' : records'[i].action = "open" =>
           i \in DOMAIN records /\ records'[i] = records[i]
    BY <2>2
  <2>4. pending' = Shrunk(CarryEntry.trade, CarryEntry.pos)
    BY <1>9 DEF CarryClosesLeg
  <2>5. \A x \in DOMAIN pending' : x \in DOMAIN pending /\ pending'[x].pos = pending[x].pos
    BY <1>3, <1>4, <2>4, CarryEntries
  <2>6. QED
    BY <2>3, <2>5, OwnKept
<1>10. QED
  BY <1>7, <1>8, <1>9

\* The rows a step of the walk records, and the registry after it: the order at
\* the cursor is in it under one trade and one leg, or is not in it.
WalkRows(action, trade, p) ==
  \A i \in DOMAIN records' :
    \/ i \in DOMAIN records /\ records'[i] = records[i]
    \/ /\ Walking /\ records'[i].order = WalkOrder /\ records'[i].action = action
       /\ records'[i].trade = trade /\ records'[i].pos = p
WalkEntry(trade, p) ==
  \A o \in DOMAIN pending' :
    \/ o \in DOMAIN pending /\ pending'[o] = pending[o] /\ (Walking => o # WalkOrder)
    \/ /\ Walking /\ o = WalkOrder /\ pending'[o].intent.action = WalkIntent.action
       /\ pending'[o].trade = trade /\ pending'[o].pos = p

\* A registry with the entry of the order at the cursor in it.
LEMMA EnteredOne ==
  ASSUME SeamInv, Known, Walking, NEW rest, NEW trade, NEW p, NEW count,
         \/ pending' = AfterCancel
         \/ pending' = Put(AfterCancel, WalkOrder, RestingEntry(rest, trade, p, count))
  PROVE  WalkEntry(trade, p)
<1>1. \A o \in DOMAIN AfterCancel : o \in DOMAIN pending /\ AfterCancel[o] = pending[o]
  BY AfterCancelIs
<1>2. WalkOrder \notin DOMAIN pending
  BY WalkOrderNew
<1>3. CASE pending' = AfterCancel
  BY <1>1, <1>2, <1>3 DEF WalkEntry
<1>4. CASE pending' = Put(AfterCancel, WalkOrder, RestingEntry(rest, trade, p, count))
  <2>1. /\ RestingEntry(rest, trade, p, count).intent.action = WalkIntent.action
        /\ RestingEntry(rest, trade, p, count).trade = trade
        /\ RestingEntry(rest, trade, p, count).pos = p
    <3>1. cmds[k] \in Commands
      BY DEF SeamInv, FillInv, Walking, AtWalk, TypeInv, TypeOK, SeamTypeOK
    <3>2. WalkIntent \in Intents
      BY <3>1, CommandParts DEF Walking, WalkIntent
    <3>3. QED
      BY <3>2 DEF RestingEntry, Intents
  <2>2. QED
    BY <1>1, <1>2, <1>4, <2>1 DEF Put, WalkEntry
<1>5. QED
  BY <1>3, <1>4

\* The steps of the walk record and register no more than that.
LEMMA WalkWrites ==
  ASSUME SeamInv, TypeInv', Known,
         WalkCancel \/ WalkRestsOpen \/ WalkRestsClose \/ WalkOpens \/ WalkCloses
  PROVE  \/ /\ WalkOpens
            /\ WalkRows("open", OpenTrade, nextPos) /\ WalkEntry(OpenTrade, nextPos)
         \/ /\ WalkRestsOpen
            /\ records' = records /\ WalkEntry(OpenTrade, 0)
         \/ /\ WalkCancel \/ WalkRestsClose \/ WalkCloses
            /\ \E trade \in Nat, p \in Nat : WalkRows("close", trade, p)
            /\ WalkEntry(0, 0) /\ (Walking => WalkIntent.action = "close")
<1>1. TypeInv
  BY DEF SeamInv, FillInv
<1>2. nextPos \in Nat /\ nextTrade \in Nat /\ stepTrade \in Nat /\ OpenTrade \in Nat
  BY <1>1, RowTypes DEF OpenTrade
<1>3. CASE WalkCancel
  <2>1. records' = records /\ ~ Walking /\ pending' = AfterCancel
    BY <1>3 DEF WalkCancel, bookVars
  <2>2. WalkEntry(0, 0)
    BY <2>1, AfterCancelIs DEF WalkEntry
  <2>3. WalkRows("close", 0, 0)
    BY <2>1 DEF WalkRows
  <2>4. QED
    BY <1>3, <2>1, <2>2, <2>3
<1>4. CASE WalkRestsOpen
  <2>1. /\ records' = records /\ Walking
        /\ pending' = Put(AfterCancel, WalkOrder,
                          RestingEntry(WalkIntent.qty, OpenTrade, 0, 0))
    BY <1>4 DEF WalkRestsOpen, bookVars
  <2>2. QED
    BY <1>4, <2>1, EnteredOne
<1>5. CASE WalkRestsClose
  <2>1. /\ records' = records /\ Walking /\ WalkIntent.action = "close"
        /\ pending' = Put(AfterCancel, WalkOrder, RestingEntry(WalkIntent.qty, 0, 0, 0))
    BY <1>5 DEF WalkRestsClose, bookVars
  <2>2. WalkEntry(0, 0)
    BY <2>1, EnteredOne
  <2>3. WalkRows("close", 0, 0)
    BY <2>1 DEF WalkRows
  <2>4. QED
    BY <1>5, <2>1, <2>2, <2>3
<1>6. ASSUME WalkOpens \/ WalkCloses
      PROVE  /\ Walking /\ WalkFault = "none" /\ WalkCount # 0 /\ WalkRun \in Seq(Fills)
             /\ WalkOrder \in OrderIds
  <2>1. Walking /\ WalkFault = "none" /\ WalkCount # 0
    BY <1>6 DEF WalkOpens, WalkCloses
  <2>2. QED
    BY <1>1, <2>1, WalkChecked, WalkOrderNew
<1>7. ASSUME NEW trade, NEW p, Walking, pending' = WithRemainder(trade, p)
      PROVE  WalkEntry(trade, p)
  <2>1. PICK rest : rest = WalkIntent.qty - TotalQty(WalkRun)
    OBVIOUS
  <2>2. \/ pending' = AfterCancel
        \/ pending' = Put(AfterCancel, WalkOrder, RestingEntry(rest, trade, p, WalkCount))
    BY <1>7, <2>1 DEF WithRemainder
  <2>3. QED
    BY <1>7, <2>2, EnteredOne
<1>8. CASE WalkOpens
  <2>1. PICK r, t : r = nextPos /\ t = OpenTrade
    OBVIOUS
  <2>2. /\ records' = records \o RecordsOf(WalkRun, WalkOrder, "open", t, r, 0)
        /\ pending' = WithRemainder(t, r)
    BY <1>8, <2>1 DEF WalkOpens, OpenLeg
  <2>3. WalkRows("open", t, r)
    <3>1. LegGrows(WalkOrder, "open", t, r, TotalQty(WalkRun))
      BY <1>1, <1>2, <1>6, <1>8, <2>1, <2>2, LegRows
    <3>2. QED
      BY <1>6, <1>8, <3>1 DEF LegGrows, WalkRows
  <2>4. QED
    BY <1>6, <1>7, <1>8, <2>1, <2>2, <2>3
<1>9. CASE WalkCloses
  <2>1. WalkIntent.action = "close" /\ pending' = WithRemainder(0, 0)
    BY <1>9 DEF WalkCloses
  <2>2. PICK trade \in Nat, p \in Nat :
          records' = records \o RecordsOf(WalkRun, WalkOrder, "close", trade, p, 0)
    <3>1. WalkIntent \in Intents /\ CloseFault(WalkIntent.pos, TotalQty(WalkRun)) = "none"
      BY <1>1, <1>6, <1>9, <2>1, WalkChecked
    <3>2. WalkIntent.pos \in Nat /\ WalkIntent.pos \in DOMAIN openLegs
      BY <3>1 DEF Intents, CloseFault
    <3>3. IsMap(openLegs, Nat, Nat)
      BY <1>1 DEF TypeInv, TypeOK, EngineTypeOK, BooksTypeOK
    <3>4. openLegs[WalkIntent.pos] \in Nat
      BY <3>2, <3>3 DEF IsMap
    <3>5. QED
      BY <1>9, <3>2, <3>4 DEF WalkCloses, CloseLeg
  <2>3. WalkRows("close", trade, p)
    <3>1. LegGrows(WalkOrder, "close", trade, p, TotalQty(WalkRun))
      BY <1>1, <1>2, <1>6, <1>9, <2>2, LegRows
    <3>2. QED
      BY <1>6, <1>9, <3>1 DEF LegGrows, WalkRows
  <2>4. QED
    BY <1>6, <1>7, <1>9, <2>1, <2>3
<1>10. QED
  BY <1>3, <1>4, <1>5, <1>8, <1>9

\* A step of the walk leaves every order its leg.
LEMMA WalkOwns ==
  ASSUME SeamInv, TypeInv', Known, Placed, OwnLegs,
         WalkCancel \/ WalkRestsOpen \/ WalkRestsClose \/ WalkOpens \/ WalkCloses
  PROVE  OwnLegs'
<1>1. LegsInv
  BY DEF SeamInv
<1>2. ASSUME Walking
      PROVE  \A i \in Opens : records[i].order # WalkOrder
  BY <1>2, WalkOrderNew DEF Opens, RecordsOfOrder
<1>3. CASE WalkOpens /\ WalkRows("open", OpenTrade, nextPos) /\ WalkEntry(OpenTrade, nextPos)
  <2>1. PICK o, r : o = WalkOrder /\ r = nextPos
    OBVIOUS
  <2>2. Walking
    BY <1>3 DEF WalkOpens
  <2>3. \A i \in DOMAIN records' :
           \/ i \in DOMAIN records /\ records'[i] = records[i]
           \/ records'[i].order = o /\ records'[i].pos = r
    BY <1>3, <2>1 DEF WalkRows
  <2>4. \A x \in DOMAIN pending' :
           \/ x # o /\ x \in DOMAIN pending /\ pending'[x].pos = pending[x].pos
           \/ x = o /\ pending'[x].pos = r
    BY <1>3, <2>1, <2>2 DEF WalkEntry
  <2>5. QED
    BY <1>1, <1>2, <2>1, <2>2, <2>3, <2>4, OwnOpened
<1>4. ASSUME \A i \in DOMAIN records' : records'[i].action = "open" =>
               i \in DOMAIN records /\ records'[i] = records[i],
             NEW trade, WalkEntry(trade, 0)
      PROVE  OwnLegs'
  <2>1. \A o \in DOMAIN pending' :
           \/ o \in DOMAIN pending /\ pending'[o].pos = pending[o].pos
           \/ pending'[o].pos = 0 /\ \A i \in Opens : records[i].order # o
    BY <1>2, <1>4 DEF WalkEntry
  <2>2. QED
    BY <1>4, <2>1, OwnKept
<1>5. CASE records' = records /\ WalkEntry(OpenTrade, 0)
  BY <1>4, <1>5
<1>6. CASE (\E trade \in Nat, p \in Nat : WalkRows("close", trade, p)) /\ WalkEntry(0, 0)
  <2>1. \A i \in DOMAIN records' : records'[i].action = "open" =>
               i \in DOMAIN records /\ records'[i] = records[i]
    BY <1>6 DEF WalkRows
  <2>2. QED
    BY <1>4, <1>6, <2>1
<1>7. QED
  BY <1>3, <1>5, <1>6, WalkWrites

-----------------------------------------------------------------------------
(* Opens of one call go under one trade.                                   *)

\* The uses are those of the rows, of the entries and of the walk.
LEMMA UsesAre ==
  /\ \A i \in Opens : <<submitted[records[i].order].call, records[i].trade>> \in Uses
  /\ \A o \in DOMAIN pending : pending[o].intent.action = "open" =>
       <<submitted[o].call, pending[o].trade>> \in Uses
  /\ pc = "walk" /\ stepTrade # 0 => <<call, stepTrade>> \in Uses
  /\ \A W : /\ \A i \in Opens : <<submitted[records[i].order].call, records[i].trade>> \in W
            /\ \A o \in DOMAIN pending : pending[o].intent.action = "open" =>
                 <<submitted[o].call, pending[o].trade>> \in W
            /\ pc = "walk" /\ stepTrade # 0 => <<call, stepTrade>> \in W
            => Uses \subseteq W
<1>1. \A i \in Opens : <<submitted[records[i].order].call, records[i].trade>> \in Uses
  BY DEF Uses
<1>2. \A o \in DOMAIN pending : pending[o].intent.action = "open" =>
        <<submitted[o].call, pending[o].trade>> \in Uses
  BY DEF Uses
<1>3. pc = "walk" /\ stepTrade # 0 => <<call, stepTrade>> \in Uses
  BY DEF Uses
<1>4. ASSUME NEW W,
             \A i \in Opens : <<submitted[records[i].order].call, records[i].trade>> \in W,
             \A o \in DOMAIN pending : pending[o].intent.action = "open" =>
               <<submitted[o].call, pending[o].trade>> \in W,
             pc = "walk" /\ stepTrade # 0 => <<call, stepTrade>> \in W
      PROVE  Uses \subseteq W
  BY <1>4 DEF Uses
<1>5. QED
  BY <1>1, <1>2, <1>3, <1>4

\* The same of the next state.
LEMMA UsesNext ==
  ASSUME NEW W,
         \A i \in DOMAIN records' : records'[i].action = "open" =>
           <<submitted'[records'[i].order].call, records'[i].trade>> \in W,
         \A o \in DOMAIN pending' : pending'[o].intent.action = "open" =>
           <<submitted'[o].call, pending'[o].trade>> \in W,
         pc' = "walk" /\ stepTrade' # 0 => <<call', stepTrade'>> \in W
  PROVE  Uses' \subseteq W
<1>1. \A u \in {<<submitted'[records'[i].order].call, records'[i].trade>> : i \in Opens'} : u \in W
  BY DEF Opens
<1>2. \A u \in {<<submitted'[o].call, pending'[o].trade>> :
                  o \in {x \in DOMAIN pending' : pending'[x].intent.action = "open"}} : u \in W
  OBVIOUS
<1>3. \A u \in (IF pc' = "walk" /\ stepTrade' # 0 THEN {<<call', stepTrade'>>} ELSE {}) : u \in W
  OBVIOUS
<1>4. Uses' = {<<submitted'[records'[i].order].call, records'[i].trade>> : i \in Opens'}
    \cup {<<submitted'[o].call, pending'[o].trade>> :
            o \in {x \in DOMAIN pending' : pending'[x].intent.action = "open"}}
    \cup (IF pc' = "walk" /\ stepTrade' # 0 THEN {<<call', stepTrade'>>} ELSE {})
  BY DEF Uses
<1>5. QED
  BY <1>1, <1>2, <1>3, <1>4

\* A step that adds no use keeps one trade for each call.
LEMMA TradedKept ==
  ASSUME TypeInv, TypeInv', Traded, Uses' \subseteq Uses, nextTrade' = nextTrade,
         pc' = "carry" => stepTrade' = 0,
         pc' # "failed" => /\ pc # "failed" /\ call <= call'
                           /\ Untraded' => Untraded \/ call < call'
  PROVE  Traded'
<1>1. call \in Nat /\ call' \in Nat
  BY RowTypes, RowTypesNext
<1>2. \A u \in Uses : pc # "failed" => u[1] \in Nat /\ u[1] <= call /\ (Untraded => u[1] < call)
  BY DEF Traded
<1>3. \A u \in Uses' : pc' # "failed" =>
        u[1] \in Nat /\ u[1] <= call' /\ (Untraded' => u[1] < call')
  BY <1>1, <1>2
<1>4. \A u, v \in Uses' : u[1] = v[1] <=> u[2] = v[2]
  BY DEF Traded
<1>5. \A u \in Uses' : u[2] \in 1..(nextTrade' - 1)
  BY DEF Traded
<1>6. QED
  BY <1>3, <1>4, <1>5 DEF Traded

\* The first open of a call takes the next trade, and the others take the same.
LEMMA TradedMinted ==
  ASSUME TypeInv, TypeInv', Traded, pc = "walk", pc' = "walk", call' = call, MintTrade,
         Uses' \subseteq Uses \cup {<<call, OpenTrade>>}
  PROVE  Traded'
<1>1. /\ call \in Nat /\ stepTrade \in Nat /\ nextTrade \in Nat \ {0}
  BY RowTypes
<1>2. PICK t, c : t = OpenTrade /\ c = call
  OBVIOUS
<1>3. PICK N : N = <<c, t>>
  OBVIOUS
<1>4. /\ N[1] = c /\ N[2] = t /\ t \in Nat \ {0} /\ c \in Nat
      /\ \A u \in Uses' : u \in Uses \/ u = N
      /\ stepTrade' = t
  BY <1>1, <1>2, <1>3 DEF OpenTrade, MintTrade
<1>5. /\ \A u, v \in Uses : u[1] = v[1] <=> u[2] = v[2]
      /\ \A u \in Uses : u[2] \in 1..(nextTrade - 1)
      /\ \A u \in Uses : u[1] \in Nat /\ u[1] <= c /\ (Untraded => u[1] < c)
  BY <1>2 DEF Traded
<1>6. ~ Untraded'
  BY <1>4 DEF Untraded
<1>7. \A u \in Uses' : u[1] \in Nat /\ u[1] <= c
  BY <1>4, <1>5
<1>8. CASE stepTrade = 0
  <2>1. t = nextTrade /\ nextTrade' = nextTrade + 1 /\ Untraded
    BY <1>2, <1>8 DEF OpenTrade, MintTrade, Untraded, Calling
  <2>2. \A u \in Uses : u[2] \in Int /\ u[2] < t /\ u[1] < c
    BY <1>1, <1>5, <2>1
  <2>3. \A u \in Uses' : u[2] \in 1..(nextTrade' - 1)
    BY <1>1, <1>4, <1>5, <2>1
  <2>4. \A u, v \in Uses' : u[1] = v[1] <=> u[2] = v[2]
    BY <1>4, <1>5, <2>2
  <2>5. QED
    BY <1>2, <1>6, <1>7, <2>3, <2>4 DEF Traded
<1>9. CASE stepTrade # 0
  <2>1. N \in Uses
    BY <1>2, <1>3, <1>9, UsesAre DEF OpenTrade
  <2>2. Uses' \subseteq Uses
    BY <1>4, <2>1
  <2>3. nextTrade' = nextTrade
    BY <1>9 DEF MintTrade
  <2>4. QED
    BY <1>1, <1>6, <2>2, <2>3, TradedKept
<1>10. QED
  BY <1>8, <1>9

\* An open that rested keeps the trade of the call it was submitted in.
LEMMA CarryTraded ==
  ASSUME SeamInv, TypeInv', Known, Traded, CarryOpensLeg \/ CarryExtendsLeg \/ CarryClosesLeg
  PROVE  Traded'
<1>1. TypeInv
  BY DEF SeamInv, FillInv
<1>2. AtCarry /\ CarryFault = "none" /\ CarryNext
  BY <1>1, CarryShape
<1>3. PICK o, c : o = CarryOrder /\ c = submitted[o].call
  OBVIOUS
<1>4. /\ o \in DOMAIN pending /\ o \in OrderIds /\ CarryEntry = pending[o]
      /\ CarryRun \in Seq(Fills) /\ CarryEntry \in PendingEntries
  BY <1>1, <1>2, <1>3, CarryChecked DEF CarryEntry
<1>5. /\ CarryEntry.trade \in Nat /\ CarryEntry.pos \in Nat
      /\ CarryEntry.intent.pos \in Nat /\ CarryEntry.fillsSoFar \in Nat
  BY <1>4 DEF PendingEntries, Intents
<1>6. nextPos \in Nat /\ nextTrade \in Nat
  BY <1>1, RowTypes
<1>7. submitted' = submitted /\ pc' = "carry" /\ pc = "carry" /\ call' = call
        /\ stepTrade' = stepTrade
  BY <1>2 DEF CarryNext, AtCarry, ghosts
<1>8. Untraded /\ stepTrade = 0
  BY <1>7 DEF Untraded, Traded, Calling
<1>9. CASE CarryOpensLeg \/ CarryExtendsLeg
  <2>1. PICK t, p : t = CarryEntry.trade /\ p = IF CarryOpensLeg THEN nextPos ELSE CarryEntry.pos
    OBVIOUS
  <2>2. <<c, t>> \in Uses
    <3>1. pending[o].intent.action = "open"
      BY <1>4, <1>9 DEF CarryOpensLeg, CarryExtendsLeg
    <3>2. QED
      BY <1>3, <1>4, <2>1, <3>1, UsesAre
  <2>3. t \in Nat \ {0} /\ p \in Nat
    <3>1. <<c, t>>[2] \in 1..(nextTrade - 1)
      BY <2>2 DEF Traded
    <3>2. QED
      BY <1>5, <1>6, <2>1, <3>1
  <2>4. /\ records' = records \o RecordsOf(CarryRun, o, "open", t, p, CarryEntry.fillsSoFar)
        /\ pending' = Shrunk(t, p) /\ nextTrade' = nextTrade
    <3>1. CASE CarryOpensLeg
      BY <1>3, <2>1, <2>3, <3>1 DEF CarryOpensLeg, OpenLeg, NextSeqOf
    <3>2. CASE CarryExtendsLeg
      <4>1. ~ CarryOpensLeg
        BY <3>2 DEF CarryOpensLeg, CarryExtendsLeg
      <4>2. QED
        BY <1>3, <2>1, <2>3, <3>2, <4>1 DEF CarryExtendsLeg, ExtendLeg, NextSeqOf
    <3>3. QED
      BY <1>9, <3>1, <3>2
  <2>5. \A i \in DOMAIN records' :
           \/ i \in DOMAIN records /\ records'[i] = records[i]
           \/ records'[i].order = o /\ records'[i].trade = t
    <3>1. LegGrows(o, "open", t, p, TotalQty(CarryRun))
      BY <1>1, <1>4, <1>5, <2>3, <2>4, LegRows
    <3>2. QED
      BY <3>1 DEF LegGrows
  <2>6. \A x \in DOMAIN pending' :
           \/ x \in DOMAIN pending /\ pending'[x] = pending[x]
           \/ x = o /\ pending'[x].trade = t
    BY <1>3, <1>4, <2>4, CarryEntries
  <2>7. \A i \in DOMAIN records' : records'[i].action = "open" =>
           <<submitted'[records'[i].order].call, records'[i].trade>> \in Uses
    <3>1. \A i \in DOMAIN records : records[i].action = "open" =>
           <<submitted[records[i].order].call, records[i].trade>> \in Uses
      BY UsesAre DEF Opens
    <3>2. QED
      BY <1>3, <1>7, <2>2, <2>5, <3>1
  <2>8. \A x \in DOMAIN pending' : pending'[x].intent.action = "open" =>
           <<submitted'[x].call, pending'[x].trade>> \in Uses
    BY <1>3, <1>7, <2>2, <2>6, UsesAre
  <2>9. Uses' \subseteq Uses
    BY <1>7, <2>7, <2>8, UsesNext
  <2>10. QED
    BY <1>1, <1>7, <1>8, <2>4, <2>9, RowTypes, TradedKept
<1>10. CASE CarryClosesLeg
  <2>1. PICK p \in Nat, trade \in Nat :
          /\ records' = records \o RecordsOf(CarryRun, o, "close", trade, p,
                                             CarryEntry.fillsSoFar)
    <3>1. CloseFault(CarryEntry.intent.pos, TotalQty(CarryRun)) = "none"
      BY <1>1, <1>2, <1>10, CarryChecked DEF CarryClosesLeg
    <3>2. CarryEntry.intent.pos \in DOMAIN openLegs
      BY <3>1 DEF CloseFault
    <3>3. IsMap(openLegs, Nat, Nat)
      BY <1>1 DEF TypeInv, TypeOK, EngineTypeOK, BooksTypeOK
    <3>4. openLegs[CarryEntry.intent.pos] \in Nat
      BY <3>2, <3>3 DEF IsMap
    <3>5. QED
      BY <1>3, <1>5, <1>10, <3>4 DEF CarryClosesLeg, CloseLeg, NextSeqOf
  <2>2. \A i \in DOMAIN records' :
           \/ i \in DOMAIN records /\ records'[i] = records[i]
           \/ records'[i].action = "close"
    <3>1. LegGrows(o, "close", trade, p, TotalQty(CarryRun))
      BY <1>1, <1>4, <1>5, <2>1, LegRows
    <3>2. QED
      BY <3>1 DEF LegGrows
  <2>3. /\ pending' = Shrunk(CarryEntry.trade, CarryEntry.pos) /\ nextTrade' = nextTrade
        /\ CarryEntry.intent.action = "close"
    BY <1>10 DEF CarryClosesLeg
  <2>4. \A x \in DOMAIN pending' :
           \/ x \in DOMAIN pending /\ pending'[x] = pending[x]
           \/ pending'[x].intent.action = "close"
    BY <1>3, <1>4, <2>3, CarryEntries
  <2>5. \A i \in DOMAIN records' : records'[i].action = "open" =>
           <<submitted'[records'[i].order].call, records'[i].trade>> \in Uses
    BY <1>7, <2>2, UsesAre DEF Opens
  <2>6. \A x \in DOMAIN pending' : pending'[x].intent.action = "open" =>
           <<submitted'[x].call, pending'[x].trade>> \in Uses
    BY <1>7, <2>4, UsesAre
  <2>7. Uses' \subseteq Uses
    BY <1>7, <2>5, <2>6, UsesNext
  <2>8. QED
    BY <1>1, <1>7, <1>8, <2>3, <2>7, RowTypes, TradedKept
<1>11. QED
  BY <1>9, <1>10

\* The opens of a walk go under the one trade of its call.
LEMMA WalkTraded ==
  ASSUME SeamInv, TypeInv', Known, Traded,
         WalkCancel \/ WalkRestsOpen \/ WalkRestsClose \/ WalkOpens \/ WalkCloses
  PROVE  Traded'
<1>1. TypeInv
  BY DEF SeamInv, FillInv
<1>2. AtWalk /\ WalkNext
  BY WalkEnters
<1>3. pc = "walk" /\ pc' = "walk" /\ call' = call /\ call \in Nat
  BY <1>1, <1>2, RowTypes DEF AtWalk, WalkNext
<1>4. /\ \A o \in DOMAIN submitted : submitted'[o] = submitted[o]
      /\ Walking => submitted'[WalkOrder].call = call
  <2>1. CASE Walking
    <3>1. WalkOrder \notin DOMAIN submitted
      BY <2>1, WalkOrderNew
    <3>2. submitted' = Put(submitted, WalkOrder, [intent |-> WalkIntent, call |-> call])
      BY <1>2, <2>1 DEF WalkNext
    <3>3. QED
      BY <3>1, <3>2 DEF Put
  <2>2. CASE ~ Walking
    BY <1>2, <2>2 DEF WalkNext
  <2>3. QED
    BY <2>1, <2>2
<1>5. /\ \A i \in DOMAIN records : records[i].action = "open" =>
           <<submitted'[records[i].order].call, records[i].trade>> \in Uses
      /\ \A o \in DOMAIN pending : pending[o].intent.action = "open" =>
           <<submitted'[o].call, pending[o].trade>> \in Uses
      /\ stepTrade # 0 => <<call, stepTrade>> \in Uses
  <2>1. /\ \A i \in DOMAIN records : submitted'[records[i].order] = submitted[records[i].order]
        /\ \A o \in DOMAIN pending : submitted'[o] = submitted[o]
    BY <1>4 DEF Known
  <2>2. QED
    BY <1>3, <2>1, UsesAre DEF Opens
<1>6. ASSUME NEW p, MintTrade, WalkRows("open", OpenTrade, nextPos), WalkEntry(OpenTrade, p)
      PROVE  Traded'
  <2>1. PICK t, W : t = OpenTrade /\ W = Uses \cup {<<call, t>>}
    OBVIOUS
  <2>2. stepTrade' = t /\ <<call, t>> \in W /\ \A u \in Uses : u \in W
    BY <1>6, <2>1 DEF MintTrade
  <2>3. \A i \in DOMAIN records' : records'[i].action = "open" =>
           <<submitted'[records'[i].order].call, records'[i].trade>> \in W
    BY <1>4, <1>5, <1>6, <2>1, <2>2 DEF WalkRows
  <2>4. \A x \in DOMAIN pending' : pending'[x].intent.action = "open" =>
           <<submitted'[x].call, pending'[x].trade>> \in W
    BY <1>4, <1>5, <1>6, <2>1, <2>2 DEF WalkEntry
  <2>5. Uses' \subseteq W
    BY <1>3, <2>2, <2>3, <2>4, UsesNext
  <2>6. QED
    BY <1>1, <1>3, <1>6, <2>1, <2>5, TradedMinted
<1>7. CASE WalkOpens /\ WalkRows("open", OpenTrade, nextPos) /\ WalkEntry(OpenTrade, nextPos)
  BY <1>6, <1>7 DEF WalkOpens
<1>8. CASE WalkRestsOpen /\ records' = records /\ WalkEntry(OpenTrade, 0)
  BY <1>6, <1>8 DEF WalkRestsOpen, WalkRows
<1>9. CASE /\ WalkCancel \/ WalkRestsClose \/ WalkCloses
           /\ \E trade \in Nat, p \in Nat : WalkRows("close", trade, p)
           /\ WalkEntry(0, 0) /\ (Walking => WalkIntent.action = "close")
  <2>1. nextTrade' = nextTrade /\ stepTrade' = stepTrade
    BY <1>9 DEF WalkCancel, WalkRestsClose, WalkCloses
  <2>2. \A i \in DOMAIN records' : records'[i].action = "open" =>
           <<submitted'[records'[i].order].call, records'[i].trade>> \in Uses
    BY <1>5, <1>9 DEF WalkRows
  <2>3. \A x \in DOMAIN pending' : pending'[x].intent.action = "open" =>
           <<submitted'[x].call, pending'[x].trade>> \in Uses
    BY <1>5, <1>9 DEF WalkEntry
  <2>4. Uses' \subseteq Uses
    BY <1>3, <1>5, <2>1, <2>2, <2>3, UsesNext
  <2>5. Untraded' => Untraded
    BY <1>3, <2>1 DEF Untraded
  <2>6. QED
    BY <1>1, <1>3, <2>1, <2>4, <2>5, TradedKept
<1>10. QED
  BY <1>7, <1>8, <1>9, WalkWrites

-----------------------------------------------------------------------------
(* Steps that record nothing.                                              *)

\* A step that leaves the books alone leaves what replaying the rows gives.
LEMMA ReplaysKept ==
  ASSUME Placed, BundleReplaysInventory,
         UNCHANGED <<records, terminalRows, inventory, nextPos>>
  PROVE  Placed' /\ BundleReplaysInventory'
<1>1. Placed'
  BY DEF Placed
<1>2. ASSUME NEW p
      PROVE  /\ Recorded(RecordsOfLeg(p, "open"))' = Recorded(RecordsOfLeg(p, "open"))
             /\ Recorded(RecordsOfLeg(p, "close"))' = Recorded(RecordsOfLeg(p, "close"))
             /\ Held(p)' = Held(p) /\ Ended(p)' = Ended(p)
  BY DEF Recorded, RecordsOfLeg, Held, Ended
<1>3. ASSUME NEW p \in 1..(nextPos' - 1)
      PROVE  Replays(p, Recorded(RecordsOfLeg(p, "open")), Recorded(RecordsOfLeg(p, "close")))'
  <2>1. Replays(p, Recorded(RecordsOfLeg(p, "open")), Recorded(RecordsOfLeg(p, "close")))
    BY ReplaysEach DEF LegsReplay
  <2>2. QED
    BY <1>2, <2>1 DEF Replays
<1>4. LegsReplay'
  BY <1>3 DEF LegsReplay
<1>5. BundleReplaysInventory'
  BY <1>4, ReplaysEach, PTL
<1>6. QED
  BY <1>1, <1>5

\* What the steps outside the carry prefix and the command walk leave alone.
Unrecorded == UNCHANGED <<records, pending, submitted, withdrawn, terminalRows, inventory,
                          nextPos, nextTrade>>

LEMMA RowsKept ==
  ASSUME RowInv, Unrecorded
  PROVE  Placed' /\ Conserved' /\ Numbered' /\ Tallied' /\ OwnLegs' /\ BundleReplaysInventory'
<1>1. \A o : /\ RecordsOfOrder(o)' = RecordsOfOrder(o)
             /\ Recorded(RecordsOfOrder(o))' = Recorded(RecordsOfOrder(o))
             /\ Rest(o)' = Rest(o)
  BY DEF Unrecorded, RecordsOfOrder, Recorded, Rest
<1>2. Placed'
  BY DEF RowInv, Placed, Unrecorded
<1>3. Conserved'
  <2>1. Conserved /\ UNCHANGED <<submitted, withdrawn>>
    BY DEF RowInv, Unrecorded
  <2>2. QED
    BY <1>1, <2>1 DEF Conserved
<1>4. Numbered'
  <2>1. Numbered /\ UNCHANGED records
    BY DEF RowInv, Unrecorded
  <2>2. QED
    BY <1>1, <2>1 DEF Numbered
<1>5. Tallied'
  <2>1. Tallied /\ UNCHANGED pending
    BY DEF RowInv, Unrecorded
  <2>2. ASSUME NEW o \in DOMAIN pending'
        PROVE  pending'[o].fillsSoFar = Cardinality(RecordsOfOrder(o)')
    <3>1. RecordsOfOrder(o)' = RecordsOfOrder(o)
      BY <1>1
    <3>2. pending'[o].fillsSoFar = Cardinality(RecordsOfOrder(o))
      BY <2>1 DEF Tallied
    <3>3. QED
      BY <3>1, <3>2
  <2>3. QED
    BY <2>2 DEF Tallied
<1>6. OwnLegs'
  BY DEF RowInv, OwnLegs, Opens, Unrecorded
<1>7. BundleReplaysInventory'
  <2>1. UNCHANGED <<records, terminalRows, inventory, nextPos>>
    BY DEF Unrecorded
  <2>2. Placed /\ BundleReplaysInventory
    BY DEF RowInv
  <2>3. QED
    BY <2>1, <2>2, ReplaysKept
<1>8. QED
  BY <1>2, <1>3, <1>4, <1>5, <1>6, <1>7

\* Ids known before a step are known after it.
LEMMA KnownKept ==
  ASSUME Known, Unrecorded, pc # "failed" \/ pc' = "failed",
         pc' # "failed" => NextId <= NextId' /\ NextId \in Int /\ NextId' \in Int
                           /\ DOMAIN submitted \subseteq Int,
         pc' = "walk" => k' <= Len(cmds') + 1
  PROVE  Known'
<1>1. /\ DOMAIN pending' \subseteq DOMAIN submitted'
      /\ \A i \in DOMAIN records' : records'[i].order \in DOMAIN submitted'
  BY DEF Known, Unrecorded
<1>2. ASSUME pc' # "failed", NEW o \in DOMAIN submitted'
      PROVE  o < NextId'
  <2>1. o < NextId /\ o \in Int
    BY <1>2 DEF Known, Unrecorded
  <2>2. QED
    BY <1>2, <2>1
<1>3. QED
  BY <1>1, <1>2 DEF Known

-----------------------------------------------------------------------------
(* The steps that record.                                                  *)

\* What a carry group does to a leg, replaying the rows gives as well.
LEMMA CarryReplays ==
  ASSUME SeamInv, TypeInv', Placed, BundleReplaysInventory,
         CarryOpensLeg \/ CarryExtendsLeg \/ CarryClosesLeg
  PROVE  Placed' /\ BundleReplaysInventory'
<1>1. TypeInv /\ LegsInv
  BY DEF SeamInv, FillInv
<1>2. AtCarry /\ CarryFault = "none"
  BY <1>1, CarryShape
<1>3. /\ CarryRun \in Seq(Fills) /\ TotalQty(CarryRun) \in Quantities
      /\ CarryOrder \in OrderIds /\ CarryEntry \in PendingEntries
  BY <1>1, <1>2, CarryChecked
<1>4. /\ CarryEntry.trade \in Nat /\ CarryEntry.pos \in Nat /\ CarryEntry.reason \in Reasons
      /\ CarryEntry.intent.pos \in Nat /\ NextSeqOf(CarryEntry) \in Nat
  BY <1>3 DEF PendingEntries, Intents, NextSeqOf
<1>5. nextTrade \in Nat
  BY <1>1, RowTypes
<1>6. CASE CarryOpensLeg
  <2>1. PICK trade \in Nat :
          OpenLeg(nextPos, trade, CarryRun, CarryOrder, NextSeqOf(CarryEntry))
    BY <1>4, <1>5, <1>6 DEF CarryOpensLeg
  <2>2. nextPos' = nextPos + 1
    BY <1>6 DEF CarryOpensLeg
  <2>3. QED
    BY <1>1, <1>3, <1>4, <2>1, <2>2, OpeningReplays
<1>7. CASE CarryExtendsLeg
  <2>1. ExtendFault(CarryEntry.pos, TotalQty(CarryRun)) = "none"
    BY <1>1, <1>2, <1>7, CarryChecked DEF CarryExtendsLeg
  <2>2. CarryEntry.pos \in DOMAIN inventory
    BY <2>1 DEF ExtendFault
  <2>3. /\ ExtendLeg(CarryEntry.pos, CarryEntry.trade, CarryRun, CarryOrder,
                     NextSeqOf(CarryEntry))
        /\ nextPos' = nextPos
    BY <1>7 DEF CarryExtendsLeg
  <2>4. QED
    BY <1>1, <1>3, <1>4, <2>2, <2>3, ExtensionReplays
<1>8. CASE CarryClosesLeg
  <2>1. CloseFault(CarryEntry.intent.pos, TotalQty(CarryRun)) = "none"
    BY <1>1, <1>2, <1>8, CarryChecked DEF CarryClosesLeg
  <2>2. /\ CloseLeg(CarryEntry.intent.pos, CarryRun, CarryOrder, NextSeqOf(CarryEntry),
                    CarryEntry.reason)
        /\ nextPos' = nextPos
    BY <1>8 DEF CarryClosesLeg
  <2>3. QED
    BY <1>1, <1>3, <1>4, <2>1, <2>2, ClosingReplays
<1>9. QED
  BY <1>6, <1>7, <1>8

\* So does what a command of the walk does to one.
LEMMA WalkReplays ==
  ASSUME SeamInv, TypeInv', Placed, BundleReplaysInventory,
         WalkCancel \/ WalkRestsOpen \/ WalkRestsClose \/ WalkOpens \/ WalkCloses
  PROVE  Placed' /\ BundleReplaysInventory'
<1>1. TypeInv /\ LegsInv
  BY DEF SeamInv, FillInv
<1>2. CASE WalkCancel \/ WalkRestsOpen \/ WalkRestsClose
  BY <1>2, ReplaysKept DEF WalkCancel, WalkRestsOpen, WalkRestsClose, bookVars
<1>3. nextTrade \in Nat /\ stepTrade \in Nat /\ 0 \in Nat
  BY <1>1, RowTypes
<1>4. CASE WalkOpens
  <2>1. Walking /\ WalkFault = "none" /\ WalkCount # 0
    BY <1>4 DEF WalkOpens
  <2>2. /\ WalkRun \in Seq(Fills) /\ TotalQty(WalkRun) \in Quantities
        /\ WalkOrder \in OrderIds
    BY <1>1, <2>1, WalkChecked
  <2>3. OpenTrade \in Nat
    BY <1>3 DEF OpenTrade
  <2>4. OpenLeg(nextPos, OpenTrade, WalkRun, WalkOrder, 0) /\ nextPos' = nextPos + 1
    BY <1>4 DEF WalkOpens
  <2>5. QED
    BY <1>1, <1>3, <2>2, <2>3, <2>4, OpeningReplays
<1>5. CASE WalkCloses
  <2>1. Walking /\ WalkFault = "none" /\ WalkCount # 0 /\ WalkIntent.action = "close"
    BY <1>5 DEF WalkCloses
  <2>2. /\ WalkRun \in Seq(Fills) /\ TotalQty(WalkRun) \in Quantities
        /\ WalkOrder \in OrderIds
        /\ CloseFault(WalkIntent.pos, TotalQty(WalkRun)) = "none"
    BY <1>1, <2>1, WalkChecked
  <2>3. WalkReason \in Reasons
    BY DEF WalkReason, ReasonFor, Reasons
  <2>4. CloseLeg(WalkIntent.pos, WalkRun, WalkOrder, 0, WalkReason) /\ nextPos' = nextPos
    BY <1>5 DEF WalkCloses
  <2>5. QED
    BY <1>1, <1>3, <2>2, <2>3, <2>4, ClosingReplays
<1>6. QED
  BY <1>2, <1>4, <1>5

\* A carry group keeps the invariant of the rows.
LEMMA CarryKeepsRows ==
  ASSUME RowInv, SeamInv', CarryOpensLeg \/ CarryExtendsLeg \/ CarryClosesLeg
  PROVE  RowInv'
<1>1. /\ SeamInv /\ Known /\ Placed /\ Conserved /\ Numbered /\ Tallied /\ OwnLegs
      /\ Charged /\ Traded /\ BundleReplaysInventory
  BY DEF RowInv
<1>2. TypeInv /\ TypeInv'
  BY <1>1 DEF SeamInv, FillInv
<1>3. PICK n, o : n = carryGroups[k].count /\ o = CarryOrder
  OBVIOUS
<1>4. Books(n, o)
  BY <1>1, <1>3, CarryBooks
<1>5. Numbered' /\ Charged'
  BY <1>1, <1>2, <1>4, BooksNumbered, BooksCharged
<1>6. Known' /\ Conserved' /\ Tallied'
  BY <1>1, <1>2, CarryConserves
<1>7. Placed' /\ BundleReplaysInventory'
  BY <1>1, <1>2, CarryReplays
<1>8. OwnLegs'
  BY <1>1, <1>2, CarryOwns
<1>9. Traded'
  BY <1>1, <1>2, CarryTraded
<1>10. QED
  BY <1>5, <1>6, <1>7, <1>8, <1>9 DEF RowInv

\* So does a command of the walk.
LEMMA WalkKeepsRows ==
  ASSUME RowInv, SeamInv',
         WalkCancel \/ WalkRestsOpen \/ WalkRestsClose \/ WalkOpens \/ WalkCloses
  PROVE  RowInv'
<1>1. /\ SeamInv /\ Known /\ Placed /\ Conserved /\ Numbered /\ Tallied /\ OwnLegs
      /\ Charged /\ Traded /\ BundleReplaysInventory
  BY DEF RowInv
<1>2. TypeInv /\ TypeInv'
  BY <1>1 DEF SeamInv, FillInv
<1>3. PICK n, o : n = Taken /\ o = IdOf(k)
  OBVIOUS
<1>4. Books(n, o)
  BY <1>1, <1>3, WalkBooks
<1>5. Numbered' /\ Charged'
  BY <1>1, <1>2, <1>4, BooksNumbered, BooksCharged
<1>6. Known' /\ Conserved' /\ Tallied'
  BY <1>1, <1>2, WalkConserves
<1>7. Placed' /\ BundleReplaysInventory'
  BY <1>1, <1>2, WalkReplays
<1>8. OwnLegs'
  BY <1>1, <1>2, WalkOwns
<1>9. Traded'
  BY <1>1, <1>2, WalkTraded
<1>10. QED
  BY <1>5, <1>6, <1>7, <1>8, <1>9 DEF RowInv

-----------------------------------------------------------------------------
(* The steps that record nothing keep what is known.                       *)

\* The ids the registry may hold are below those the counter deals next.
LEMMA NextIds ==
  ASSUME TypeInv, Minted, Known, pc \in Calling
  PROVE  /\ FirstNew \in Int /\ nextOrder \in Int /\ NextId \in Int
         /\ FirstNew <= NextId /\ NextId <= nextOrder
<1>1. /\ cmds \in Seq(Commands) /\ nextOrder \in Int /\ k \in Nat \ {0}
      /\ FirstNew \in Int
  BY IdsAscend, DomainAssumption DEF TypeInv, TypeOK, SeamTypeOK, EngineTypeOK
<1>2. PICK n \in Nat : n = Len(submitIds)
  BY DEF TypeInv, TypeOK, SeamTypeOK
<1>3. FirstNew = nextOrder - n /\ n = Submissions(cmds)
  BY <1>2 DEF FirstNew, Minted
<1>4. CASE pc = "walk"
  <2>1. PICK i \in Nat : i = k - 1 /\ i <= Len(cmds)
    <3>1. k <= Len(cmds) + 1 /\ Len(cmds) \in Nat
      BY <1>1, <1>4 DEF Known
    <3>2. k - 1 \in Nat /\ k - 1 <= Len(cmds)
      BY <1>1, <3>1
    <3>3. QED
      BY <3>2
  <2>2. Ordinal(i) \in Nat /\ Ordinal(i) <= n
    <3>1. Ordinal(i) \in Nat
      <4>1. i \in Int
        OBVIOUS
      <4>2. QED
        BY <4>1, PrefixFinite
    <3>2. CASE i = 0
      <4>1. Ordinal(i) = 0 /\ n \in Nat
        BY <3>2, OrdinalZero
      <4>2. QED
        BY <4>1
    <3>3. CASE i # 0
      <4>1. i \in 1..Len(cmds)
        BY <1>1, <2>1, <3>3
      <4>2. Ordinal(i) <= Submissions(cmds)
        BY <1>1, <4>1, OrdinalBound
      <4>3. QED
        BY <1>3, <3>1, <4>2
    <3>4. QED
      BY <3>1, <3>2, <3>3
  <2>3. NextId = FirstNew + Ordinal(i)
    BY <1>4, <2>1 DEF NextId, Calling
  <2>4. QED
    BY <1>1, <1>3, <2>2, <2>3
<1>5. CASE pc # "walk"
  <2>1. NextId = FirstNew
    BY <1>5 DEF NextId
  <2>2. QED
    BY <1>1, <1>3, <2>1
<1>6. QED
  BY <1>4, <1>5

\* Ids are numbers.
LEMMA IdsNumbers ==
  ASSUME TypeInv
  PROVE  DOMAIN submitted \subseteq Int /\ nextOrder \in Int
BY RowTypes DEF OrderIds

\* Between two calls the counter rests.
LEMMA BetweenKnown ==
  ASSUME RowInv, Unrecorded, nextOrder' = nextOrder, pc # "failed",
         pc \notin Calling, pc' \notin Calling
  PROVE  Known'
<1>1. NextId = nextOrder /\ NextId' = nextOrder
  BY DEF NextId
<1>2. TypeInv /\ Known
  BY DEF RowInv, SeamInv, FillInv
<1>3. QED
  BY <1>1, <1>2, IdsNumbers, KnownKept DEF Calling

\* So it does inside a call, before the walk.
LEMMA CallKnown ==
  ASSUME RowInv, Unrecorded, UNCHANGED <<nextOrder, submitIds>>,
         pc \in Calling \ {"walk"}, pc' \in Calling \ {"walk"}
  PROVE  Known'
<1>1. TypeInv /\ Known /\ Minted
  BY DEF RowInv, SeamInv, FillInv, Calling
<1>2. FirstNew' = FirstNew /\ FirstNew \in Int
  BY <1>1, NextIds DEF FirstNew
<1>3. NextId = FirstNew /\ NextId' = FirstNew
  BY <1>2 DEF NextId
<1>4. QED
  BY <1>1, <1>2, <1>3, IdsNumbers, KnownKept DEF Calling

\* Minting, the start of the walk and its end.
LEMMA TurnsKnown ==
  ASSUME RowInv, TypeInv', Unrecorded, MintIds \/ CarryDone \/ WalkDone, pc' # "failed"
  PROVE  Known'
<1>1. TypeInv /\ Known /\ (pc \in Calling => Minted)
  BY DEF RowInv, SeamInv, FillInv, Calling
<1>2. DOMAIN submitted \subseteq Int /\ nextOrder \in Int
  BY <1>1, IdsNumbers
<1>3. CASE MintIds
  <2>1. /\ pc = "mint" /\ pc' = "refresh" /\ submitIds' = MintedIds
        /\ nextOrder' = nextOrder + Submissions(cmds)
    BY <1>3 DEF MintIds
  <2>2. PICK n \in Nat : n = Submissions(cmds)
    BY <1>1, SubmissionsNat DEF TypeInv, TypeOK, SeamTypeOK
  <2>3. Len(submitIds') = n
    BY <2>1, <2>2 DEF MintedIds
  <2>4. NextId' = nextOrder' - n
    BY <2>1, <2>3 DEF NextId, FirstNew, Calling
  <2>5. NextId = nextOrder /\ NextId' = nextOrder
    BY <1>2, <2>1, <2>2, <2>4 DEF NextId, Calling
  <2>6. pc # "failed" /\ pc' # "walk"
    BY <2>1
  <2>7. QED
    BY <1>1, <1>2, <2>5, <2>6, KnownKept
<1>4. CASE CarryDone
  <2>1. /\ pc = "carry" /\ pc' = "walk" /\ k' = 1
        /\ UNCHANGED <<cmds, submitIds, nextOrder>>
    BY <1>4 DEF CarryDone, engineVars, idVars
  <2>2. Ordinal(0)' = 0
    BY <2>1, OrdinalZero DEF Ordinal
  <2>3. k' - 1 = 0 /\ FirstNew' = FirstNew /\ FirstNew \in Int /\ Len(cmds') \in Nat
    BY <1>1, <2>1, NextIds DEF FirstNew, Calling, TypeInv, TypeOK, SeamTypeOK
  <2>4. NextId = FirstNew /\ NextId' = FirstNew
    BY <2>1, <2>2, <2>3 DEF NextId, Calling
  <2>5. QED
    BY <1>1, <1>2, <2>1, <2>3, <2>4, KnownKept
<1>5. CASE WalkDone
  <2>1. pc = "walk" /\ pc' \in {"exits", "settle"} /\ nextOrder' = nextOrder
    BY <1>5 DEF WalkDone, AbortEngine, AbortSeam, engineVars, idVars
  <2>2. NextId \in Int /\ NextId <= nextOrder /\ NextId' = nextOrder
    BY <1>1, <2>1, NextIds DEF NextId, Calling
  <2>3. QED
    BY <1>1, <1>2, <2>1, <2>2, KnownKept
<1>6. QED
  BY <1>3, <1>4, <1>5

-----------------------------------------------------------------------------
(* The steps that record nothing keep one trade for each call.             *)

LEMMA TradesKept ==
  ASSUME TypeInv, TypeInv', Traded, Unrecorded,
         pc' = "carry" => stepTrade' = 0,
         pc' = "walk" /\ stepTrade' # 0 =>
           pc = "walk" /\ stepTrade # 0 /\ UNCHANGED <<call, stepTrade>>,
         pc' # "failed" => /\ pc # "failed" /\ call <= call'
                           /\ Untraded' => Untraded \/ call < call'
  PROVE  Traded'
<1>1. \A i \in DOMAIN records' : records'[i].action = "open" =>
        <<submitted'[records'[i].order].call, records'[i].trade>> \in Uses
  <2>1. UNCHANGED <<records, submitted>>
    BY DEF Unrecorded
  <2>2. QED
    BY <2>1, UsesAre DEF Opens
<1>2. \A o \in DOMAIN pending' : pending'[o].intent.action = "open" =>
        <<submitted'[o].call, pending'[o].trade>> \in Uses
  <2>1. UNCHANGED <<pending, submitted>>
    BY DEF Unrecorded
  <2>2. QED
    BY <2>1, UsesAre
<1>3. pc' = "walk" /\ stepTrade' # 0 => <<call', stepTrade'>> \in Uses
  BY UsesAre
<1>4. Uses' \subseteq Uses
  BY <1>1, <1>2, <1>3, UsesNext
<1>5. nextTrade' = nextTrade
  BY DEF Unrecorded
<1>6. QED
  BY <1>4, <1>5, TradedKept

\* Outside the walk, as long as the call goes on.
LEMMA PhaseTraded ==
  ASSUME TypeInv, TypeInv', Traded, Unrecorded, pc # "failed",
         UNCHANGED <<stepTrade, call>>,
         pc \in {"start", "exits", "snapshot", "end", "mint"} \cup (Calling \ {"walk"}),
         pc' = "carry" => pc = "carry", pc' = "walk" => pc = "carry"
  PROVE  Traded'
<1>1. Untraded
  BY DEF Untraded
<1>2. call \in Nat /\ (pc = "carry" => stepTrade = 0)
  BY RowTypes DEF Traded
<1>3. call <= call'
  BY <1>2
<1>4. QED
  BY <1>1, <1>2, <1>3, TradesKept

\* The engine takes a call over, ends it, and asks for the next.
LEMMA TurnsTraded ==
  ASSUME SeamInv, TypeInv, TypeInv', Traded, Unrecorded, pc' # "failed",
         Validate \/ WalkDone \/ Settle \/ Advance
  PROVE  Traded'
<1>1. call \in Nat
  BY RowTypes
<1>2. CASE Validate
  <2>1. pc = "validate" /\ pc' = "carry" /\ stepTrade' = 0 /\ call' = call
    BY <1>2 DEF Validate, AbortEngine, AbortSeam
  <2>2. Untraded /\ call <= call'
    BY <1>1, <2>1 DEF Untraded, Calling
  <2>3. QED
    BY <2>1, <2>2, TradesKept
<1>3. CASE WalkDone
  <2>1. /\ pc = "walk" /\ pc' = IF call = 0 THEN "exits" ELSE "settle"
        /\ call' = IF call = 0 THEN 1 ELSE call
    BY <1>3 DEF WalkDone, AbortEngine, AbortSeam
  <2>2. CASE call = 0
    <3>1. pc' = "exits" /\ call < call' /\ call <= call'
      BY <1>1, <2>1, <2>2
    <3>2. QED
      BY <2>1, <3>1, TradesKept
  <2>3. CASE call # 0
    <3>1. pc' = "settle" /\ call <= call'
      BY <1>1, <2>1, <2>3
    <3>2. ~ Untraded'
      BY <3>1 DEF Untraded, Calling
    <3>3. QED
      BY <2>1, <3>1, <3>2, TradesKept
  <2>4. QED
    BY <2>2, <2>3
<1>4. CASE Settle
  <2>1. pc = "settle" /\ pc' \in {"done", "advance"} /\ call' = call
    BY <1>4 DEF Settle, AbortEngine, AbortSeam
  <2>2. ~ Untraded' /\ call <= call'
    BY <1>1, <2>1 DEF Untraded, Calling
  <2>3. QED
    BY <2>1, <2>2, TradesKept
<1>5. CASE Advance
  <2>1. pc = "advance" /\ pc' = "exits" /\ call' = call + 1
    BY <1>5 DEF Advance, NextCall
  <2>2. call < call' /\ call <= call'
    BY <1>1, <2>1
  <2>3. QED
    BY <2>1, <2>2, TradesKept
<1>6. QED
  BY <1>2, <1>3, <1>4, <1>5

-----------------------------------------------------------------------------
(* The fill model charges the order fee once.                              *)

\* A step that changes neither the fills nor what is owed of them.
LEMMA ChargesSame ==
  ASSUME Charged, pc # "failed", Unapplied' = Unapplied, UNCHANGED <<outFills, records>>
  PROVE  Charged'
<1>1. \A o : RecordsOfOrder(o)' = RecordsOfOrder(o)
  BY DEF RecordsOfOrder
<1>2. ASSUME NEW i \in Unapplied
      PROVE  outFills[i].charge = "first" <=>
               /\ RecordsOfOrder(outFills[i].owner)' = {}
               /\ \A j \in Unapplied : j < i => outFills[j].owner # outFills[i].owner
  <2>1. PICK o : o = outFills[i].owner
    OBVIOUS
  <2>2. RecordsOfOrder(o)' = RecordsOfOrder(o)
    BY <1>1
  <2>3. outFills[i].charge = "first" <=>
          /\ RecordsOfOrder(o) = {}
          /\ \A j \in Unapplied : j < i => outFills[j].owner # o
    BY <2>1 DEF Charged
  <2>4. RecordsOfOrder(outFills[i].owner)' = RecordsOfOrder(o)'
    BY <2>1 DEF RecordsOfOrder
  <2>5. QED
    BY <2>1, <2>2, <2>3, <2>4
<1>3. QED
  BY <1>2 DEF Charged

\* The place of a row among the new ones.
LEMMA PlaceOf ==
  ASSUME NEW m \in Nat, NEW n \in Nat, NEW i \in Behind(m, n), NEW h, h = i - m
  PROVE  i \in Int /\ i = m + h /\ h \in 1..n
BY DEF Behind

\* Fills behind those produced so far bear the fee as an order's first or later.
FirstBears(run, o) ==
  \A i \in DOMAIN run :
    run[i].charge = "first" <=>
      /\ i = 1 /\ RecordsOfOrder(o) = {}
      /\ \A j \in DOMAIN outFills : outFills[j].owner # o

LEMMA ChargesGrow ==
  ASSUME TypeInv, Charged, pc # "failed", records' = records,
         Unapplied = DOMAIN outFills, Unapplied' = DOMAIN outFills',
         NEW run \in Seq(Fills), NEW o, OwnedBy(run, o), FirstBears(run, o),
         outFills' = outFills \o run
  PROVE  Charged'
<1>1. PICK m, n, more : m = Len(outFills) /\ n = Len(run) /\ more = outFills \o run
  OBVIOUS
<1>2. Follows(Fills, outFills, run, more, m, n)
  BY <1>1, RowTypes DEF Follows
<1>3. /\ m \in Nat /\ n \in Nat /\ DOMAIN outFills = 1..m /\ DOMAIN run = 1..n
      /\ DOMAIN more = DOMAIN outFills \cup Behind(m, n)
      /\ \A i \in DOMAIN outFills : more[i] = outFills[i]
      /\ \A i \in Behind(m, n) : i - m \in DOMAIN run /\ more[i] = run[i - m]
  <2>1. Appended(Fills, outFills, run, more, m, n)
    BY <1>2, PlacesBehind
  <2>2. outFills \in Seq(Fills) /\ DOMAIN outFills = 1..m /\ DOMAIN run = 1..n
    BY <1>1, RowTypes
  <2>3. QED
    BY <2>1, <2>2 DEF Appended
<1>4. \A x : RecordsOfOrder(x)' = RecordsOfOrder(x)
  BY DEF RecordsOfOrder
<1>5. ASSUME NEW i \in DOMAIN more
      PROVE  more[i].charge = "first" <=>
               /\ RecordsOfOrder(more[i].owner) = {}
               /\ \A j \in DOMAIN more : j < i => more[j].owner # more[i].owner
  <2>1. CASE i \in DOMAIN outFills
    <3>1. PICK x : x = outFills[i].owner
      OBVIOUS
    <3>2. outFills[i].charge = "first" <=>
            /\ RecordsOfOrder(x) = {}
            /\ \A j \in DOMAIN outFills : j < i => outFills[j].owner # x
      BY <2>1, <3>1 DEF Charged
    <3>3. \A j \in DOMAIN more : j < i => j \in DOMAIN outFills /\ more[j] = outFills[j]
      BY <1>3, <2>1 DEF Behind
    <3>4. \A j \in DOMAIN outFills : j \in DOMAIN more /\ more[j] = outFills[j]
      BY <1>3
    <3>5. more[i] = outFills[i]
      BY <1>3, <2>1
    <3>6. (\A j \in DOMAIN more : j < i => more[j].owner # x)
            <=> \A j \in DOMAIN outFills : j < i => outFills[j].owner # x
      BY <3>3, <3>4
    <3>7. QED
      BY <3>1, <3>2, <3>5, <3>6
  <2>2. CASE i \in Behind(m, n)
    <3>1. PICK h : h = i - m
      OBVIOUS
    <3>2. /\ h \in 1..n /\ i = m + h /\ i \in Int
          /\ more[i].charge = run[h].charge /\ more[i].owner = o
      <4>1. i \in Int /\ i = m + h /\ h \in 1..n
        BY <1>3, <2>2, <3>1, PlaceOf
      <4>2. h \in DOMAIN run /\ more[i] = run[h]
        BY <1>3, <2>2, <3>1
      <4>3. QED
        BY <4>1, <4>2 DEF OwnedBy
    <3>3. run[h].charge = "first" <=>
            h = 1 /\ RecordsOfOrder(o) = {} /\ \A j \in DOMAIN outFills : outFills[j].owner # o
      BY <1>3, <3>2 DEF FirstBears
    <3>4. CASE h = 1
      <4>1. \A j \in DOMAIN more : j < i <=> j \in DOMAIN outFills
        BY <1>3, <3>2, <3>4 DEF Behind
      <4>2. (\A j \in DOMAIN more : j < i => more[j].owner # o)
              <=> \A j \in DOMAIN outFills : outFills[j].owner # o
        BY <1>3, <4>1
      <4>3. QED
        BY <3>2, <3>3, <3>4, <4>2
    <3>5. CASE h # 1
      <4>1. m + 1 \in Behind(m, n) /\ m + 1 < i
        BY <1>3, <3>2, <3>5 DEF Behind
      <4>2. (m + 1) - m \in DOMAIN run /\ more[m + 1] = run[(m + 1) - m]
        BY <1>3, <4>1
      <4>3. m + 1 \in DOMAIN more /\ more[m + 1].owner = o
        BY <1>3, <4>1, <4>2 DEF OwnedBy
      <4>4. QED
        BY <3>2, <3>3, <3>5, <4>1, <4>3
    <3>6. QED
      BY <3>4, <3>5
  <2>3. QED
    BY <1>3, <2>1, <2>2
<1>6. outFills' = more /\ Unapplied' = DOMAIN more
  BY <1>1
<1>7. ASSUME NEW i \in DOMAIN more
      PROVE  outFills'[i].charge = "first" <=>
               /\ RecordsOfOrder(outFills[i].owner)' = {}
               /\ \A j \in DOMAIN more : j < i => outFills'[j].owner # outFills'[i].owner
  <2>1. PICK x : x = more[i].owner
    OBVIOUS
  <2>2. RecordsOfOrder(outFills[i].owner)' = RecordsOfOrder(x)
    BY <1>6, <2>1 DEF RecordsOfOrder
  <2>3. QED
    BY <1>5, <1>6, <2>1, <2>2
<1>8. QED
  BY <1>6, <1>7 DEF Charged

\* A carried fill is its order's first exactly if the engine has no row of it and
\* is owed no other.
LEMMA CrossCharged ==
  ASSUME RowInv, UNCHANGED engineVars, NEW seq, NEW q \in Quantities, ReseedCross(seq, q)
  PROVE  Charged'
<1>1. PICK meta, o : meta = mirror[seq] /\ o = meta.order
  OBVIOUS
<1>2. /\ SeamInv /\ FillInv /\ TypeInv /\ Bridged /\ Charged /\ Tallied
      /\ FillTypeOK /\ SeamTypeOK /\ outFills \in Seq(Fills)
  BY DEF RowInv, SeamInv, FillInv, TypeInv, TypeOK, SeamTypeOK
<1>3. seq \in DOMAIN mirror /\ CaptureFault(seq, q) = "none"
  BY <1>2, MakersTracked
<1>4. PICK fill : fill = [contract |-> LadderContract, side |-> meta.side, qty |-> q,
                          charge |-> ChargeOf(meta.firstFillDone), owner |-> o]
  OBVIOUS
<1>5. /\ pc = "reseed" /\ pc' = "reseed" /\ records' = records
      /\ outFills' = Append(outFills, fill)
  BY <1>1, <1>3, <1>4 DEF ReseedCross, CaptureRefreshFill, engineVars, bookVars
<1>6. meta \in RestingOrders /\ LadderContract \in Contracts
  <2>1. IsMap(mirror, Nat, RestingOrders)
    BY <1>2 DEF FillTypeOK
  <2>2. LadderContract \in DOMAIN books /\ DOMAIN books \subseteq Contracts
    BY <1>2, MakersTracked DEF FillTypeOK, IsMap
  <2>3. QED
    BY <1>1, <1>3, <2>1, <2>2 DEF IsMap
<1>7. fill \in Fills /\ fill.owner = o /\ fill.charge = ChargeOf(meta.firstFillDone)
  BY <1>1, <1>4, <1>6 DEF Fills, RestingOrders, ChargeOf
<1>8. o \in DOMAIN orderIndex /\ orderIndex[o] = seq
  BY <1>1, <1>2, <1>3 DEF Bridged
<1>9. Awaited = {} /\ Doomed = {} /\ Unapplied = DOMAIN outFills /\ Unapplied' = DOMAIN outFills'
  BY <1>5 DEF Awaited, Doomed, Withdrawing, Unapplied
<1>10. Registered
  BY <1>2, <1>5 DEF SeamInv
<1>11. o \in DOMAIN pending
  BY <1>8, <1>9, <1>10 DEF Registered
<1>12. meta.firstFillDone = (pending[o].fillsSoFar > 0 \/ Owed(o) > 0)
  <2>1. MirrorOf(o) = meta
    BY <1>1, <1>8 DEF MirrorOf
  <2>2. Agrees(o \in DOMAIN orderIndex, MirrorOf(o), pending[o].intent, Owed(o),
               pending[o].fillsSoFar > 0, o \notin Doomed)
    BY <1>10, <1>11 DEF Registered
  <2>3. QED
    BY <1>8, <2>1, <2>2 DEF Agrees
<1>13. pending[o].fillsSoFar > 0 <=> RecordsOfOrder(o) # {}
  <2>1. pending[o].fillsSoFar = Cardinality(RecordsOfOrder(o))
    BY <1>2, <1>11 DEF Tallied
  <2>2. /\ Cardinality(RecordsOfOrder(o)) \in Nat
        /\ Cardinality(RecordsOfOrder(o)) = 0 <=> RecordsOfOrder(o) = {}
    BY <1>2, OrderRows
  <2>3. QED
    BY <2>1, <2>2
<1>14. Owed(o) > 0 <=> \E j \in DOMAIN outFills : outFills[j].owner = o
  <2>1. Qty(outFills, DOMAIN outFills, o) > 0
          <=> \E j \in DOMAIN outFills : outFills[j].owner = o
    BY <1>2, QtyNat
  <2>2. QED
    BY <1>9, <2>1 DEF Owed
<1>15. fill.charge = "first" <=>
         RecordsOfOrder(o) = {} /\ \A j \in DOMAIN outFills : outFills[j].owner # o
  <2>1. ChargeOf(meta.firstFillDone) = "first" <=> ~ meta.firstFillDone
    BY DEF ChargeOf
  <2>2. QED
    BY <1>7, <1>12, <1>13, <1>14, <2>1
<1>16. PICK run : run = <<fill>>
  OBVIOUS
<1>17. run \in Seq(Fills) /\ DOMAIN run = {1} /\ run[1] = fill /\ outFills' = outFills \o run
  BY <1>2, <1>5, <1>7, <1>16
<1>18. OwnedBy(run, o) /\ FirstBears(run, o)
  BY <1>7, <1>15, <1>17 DEF OwnedBy, FirstBears
<1>19. QED
  BY <1>2, <1>5, <1>9, <1>17, <1>18, ChargesGrow

\* The order of a submission has no fill yet, and its first level bears the fee.
LEMMA SubmitCharged ==
  ASSUME RowInv, UNCHANGED engineVars, NEW levels \in Walks, NEW rest \in 0..MaxQty,
         SubmitOne(levels, rest)
  PROVE  Charged'
<1>1. PICK intent, o, run : /\ intent = cmds[k].intent /\ o = IdOf(k)
                            /\ run = LevelFills(intent, o, levels)
  OBVIOUS
<1>2. /\ SeamInv /\ TypeInv /\ Charged /\ Known /\ outFills \in Seq(Fills)
  BY DEF RowInv, SeamInv, FillInv, TypeInv, TypeOK, SeamTypeOK
<1>3. /\ AtSubmission /\ SubmitFault = "none" /\ pc = "submit" /\ pc' = "submit"
      /\ records' = records /\ outFills' = outFills \o run
  BY <1>1 DEF SubmitOne, AtSubmission, FillSubmit, IdOf, engineVars, bookVars
<1>4. intent \in Intents /\ o \in OrderIds
  BY <1>1, <1>2, <1>3, SubmitChecked DEF IdOf
<1>5. run \in Seq(Fills) /\ OwnedBy(run, o)
  BY <1>1, <1>4, LevelsRun
<1>6. Owed(o) = 0 /\ o >= FirstNew /\ FirstNew \in Int
  BY <1>1, <1>2, <1>3, NotYetOwed
<1>7. Unapplied = DOMAIN outFills /\ Unapplied' = DOMAIN outFills'
  BY <1>3 DEF Unapplied
<1>8. \A j \in DOMAIN outFills : outFills[j].owner # o
  <2>1. Qty(outFills, DOMAIN outFills, o) > 0
          <=> \E j \in DOMAIN outFills : outFills[j].owner = o
    BY <1>2, QtyNat
  <2>2. ~ (Qty(outFills, DOMAIN outFills, o) > 0)
    BY <1>6, <1>7 DEF Owed
  <2>3. QED
    BY <2>1, <2>2
<1>9. RecordsOfOrder(o) = {}
  <2>1. NextId = FirstNew
    BY <1>3 DEF NextId, Calling
  <2>2. o \notin DOMAIN submitted
    <3>1. o \in DOMAIN submitted => o < FirstNew
      BY <1>2, <1>3, <2>1 DEF Known
    <3>2. o \in Int
      BY <1>4 DEF OrderIds
    <3>3. QED
      BY <1>6, <3>1, <3>2
  <2>3. QED
    BY <1>2, <2>2 DEF Known, RecordsOfOrder
<1>10. \A i \in DOMAIN run : run[i].charge = IF i = 1 THEN "first" ELSE "later"
  BY <1>1 DEF LevelFills
<1>11. FirstBears(run, o)
  BY <1>8, <1>9, <1>10 DEF FirstBears
<1>12. QED
  BY <1>2, <1>3, <1>5, <1>7, <1>11, ChargesGrow

-----------------------------------------------------------------------------
(* Every step keeps the invariant of the rows.                             *)

\* What is left to show of a step that records nothing.
LEMMA OutsideKeepsRows ==
  ASSUME RowInv, SeamInv', Unrecorded, Known', Traded', Charged'
  PROVE  RowInv'
BY RowsKept DEF RowInv

\* A step of the fill model records nothing.
LEMMA FillKeepsRows ==
  ASSUME RowInv, SeamInv', FillNext, UNCHANGED engineVars, pc' # "failed"
  PROVE  RowInv'
<1>1. SeamInv /\ TypeInv /\ TypeInv' /\ Traded /\ Charged
  BY DEF RowInv, SeamInv, FillInv
<1>2. Unrecorded /\ UNCHANGED <<stepTrade, nextOrder, records>>
  BY DEF Unrecorded, engineVars, bookVars, idVars, walkVars, ghosts
<1>3. ~ (SubmitFails \/ SubmitSelfCross)
  BY DEF SubmitFails, SubmitSelfCross, AbortFill, AbortSeam
<1>4. PICK before : before = {"refresh", "reseed", "lifecycle", "submit"}
  OBVIOUS
<1>5. pc \in before /\ pc' \in before \cup {"validate"} /\ UNCHANGED <<call, submitIds>>
  <2>1. CASE RefreshBooks
    BY <1>4, <2>1 DEF RefreshBooks
  <2>2. CASE \E rests \in BOOLEAN : ReseedNext(rests)
    BY <1>4, <2>2 DEF ReseedNext
  <2>3. CASE ReseedDone \/ LifecycleDone \/ SubmitSkip \/ SubmitDone
    BY <1>4, <2>3 DEF ReseedDone, LifecycleDone, SubmitSkip, SubmitDone
  <2>4. CASE LifecycleOne
    BY <1>4, <2>4 DEF LifecycleOne, AbortFill, AbortSeam
  <2>5. ASSUME NEW seq, NEW q \in Quantities, ReseedCross(seq, q)
        PROVE  pc \in before /\ pc' \in before \cup {"validate"} /\ UNCHANGED <<call, submitIds>>
    BY <1>4, <2>5 DEF ReseedCross, AbortFill, AbortSeam
  <2>6. ASSUME NEW levels \in Walks, NEW rest \in 0..MaxQty, SubmitOne(levels, rest)
        PROVE  pc \in before /\ pc' \in before \cup {"validate"} /\ UNCHANGED <<call, submitIds>>
    BY <1>4, <2>6 DEF SubmitOne, AtSubmission
  <2>7. QED
    BY <1>3, <2>1, <2>2, <2>3, <2>4, <2>5, <2>6 DEF FillNext
<1>6. Known'
  BY <1>2, <1>4, <1>5, CallKnown DEF Calling
<1>7. Traded'
  <2>1. /\ pc \in {"start", "exits", "snapshot", "end", "mint"} \cup (Calling \ {"walk"})
        /\ pc # "failed" /\ pc' # "carry" /\ pc' # "walk"
    BY <1>4, <1>5 DEF Calling
  <2>2. QED
    BY <1>1, <1>2, <1>5, <2>1, PhaseTraded
<1>8. Charged'
  <2>1. CASE RefreshBooks
    <3>1. pc' = "reseed" /\ outFills' = <<>>
      BY <2>1 DEF RefreshBooks
    <3>2. Unapplied' = {}
      BY <3>1 DEF Unapplied
    <3>3. QED
      BY <3>2 DEF Charged
  <2>2. CASE \/ \E rests \in BOOLEAN : ReseedNext(rests)
             \/ ReseedDone \/ LifecycleOne \/ LifecycleDone \/ SubmitSkip \/ SubmitDone
    <3>1. /\ pc \in {"reseed", "lifecycle", "submit"}
          /\ pc' \in {"reseed", "lifecycle", "submit", "validate"}
          /\ outFills' = outFills
      BY <2>2 DEF ReseedNext, ReseedDone, LifecycleOne, LifecycleDone, SubmitSkip, SubmitDone,
         AbortFill, AbortSeam
    <3>2. Unapplied' = Unapplied /\ pc # "failed"
      BY <3>1 DEF Unapplied
    <3>3. QED
      BY <1>1, <1>2, <3>1, <3>2, ChargesSame
  <2>3. ASSUME NEW seq, NEW q \in Quantities, ReseedCross(seq, q)
        PROVE  Charged'
    BY <2>3, CrossCharged
  <2>4. ASSUME NEW levels \in Walks, NEW rest \in 0..MaxQty, SubmitOne(levels, rest)
        PROVE  Charged'
    BY <2>4, SubmitCharged
  <2>5. QED
    BY <1>3, <2>1, <2>2, <2>3, <2>4 DEF FillNext
<1>9. QED
  BY <1>2, <1>6, <1>7, <1>8, OutsideKeepsRows

\* Nor does a step of the engine between two calls.
LEMMA BetweenKeepsRows ==
  ASSUME RowInv, SeamInv', pc' # "failed",
         OnStart \/ Exits \/ OnSnapshot \/ OnEnd \/ Settle \/ Advance
  PROVE  RowInv'
<1>1. SeamInv /\ TypeInv /\ TypeInv' /\ Traded
  BY DEF RowInv, SeamInv, FillInv
<1>2. /\ pc \in {"start", "exits", "snapshot", "end", "settle", "advance"}
      /\ pc' \in {"mint", "snapshot", "end", "done", "advance", "exits"}
  BY DEF OnStart, Exits, OnSnapshot, OnEnd, Settle, Advance, isLast, AbortEngine, AbortSeam
<1>3. UNCHANGED engineVars
  BY DEF OnStart, Exits, OnSnapshot, OnEnd, Settle, Advance, AbortEngine, AbortSeam
<1>4. Unrecorded /\ UNCHANGED <<stepTrade, nextOrder>>
  BY <1>3 DEF Unrecorded, engineVars, bookVars, idVars, walkVars, ghosts
<1>5. Known'
  BY <1>2, <1>4, BetweenKnown DEF Calling
<1>6. Traded'
  <2>1. CASE OnStart \/ Exits \/ OnSnapshot \/ OnEnd
    <3>1. call' = call /\ pc \in {"start", "exits", "snapshot", "end"}
      BY <2>1 DEF OnStart, Exits, OnSnapshot, OnEnd, AbortEngine, AbortSeam
    <3>2. /\ pc \in {"start", "exits", "snapshot", "end", "mint"} \cup (Calling \ {"walk"})
          /\ pc # "failed" /\ pc' # "carry" /\ pc' # "walk"
      BY <1>2, <3>1
    <3>3. QED
      BY <1>1, <1>4, <3>1, <3>2, PhaseTraded
  <2>2. CASE Settle \/ Advance
    BY <1>1, <1>4, <2>2, TurnsTraded
  <2>3. QED
    BY <2>1, <2>2
<1>7. Charged'
  BY <1>2 DEF Charged, Unapplied
<1>8. QED
  BY <1>4, <1>5, <1>6, <1>7, OutsideKeepsRows

\* Nor one that takes a call over, turns to the walk, or ends the call.
LEMMA TurnsKeepRows ==
  ASSUME RowInv, SeamInv', pc' # "failed", MintIds \/ Validate \/ CarryDone \/ WalkDone
  PROVE  RowInv'
<1>1. SeamInv /\ TypeInv /\ TypeInv' /\ Traded /\ Charged
  BY DEF RowInv, SeamInv, FillInv
<1>2. Unrecorded
  BY DEF MintIds, Validate, CarryDone, WalkDone, AbortEngine, AbortSeam, Unrecorded,
     engineVars, bookVars, idVars, walkVars, ghosts
<1>3. Known'
  <2>1. CASE Validate
    <3>1. pc = "validate" /\ pc' = "carry" /\ UNCHANGED <<nextOrder, submitIds>>
      BY <2>1 DEF Validate, AbortEngine, AbortSeam, idVars
    <3>2. QED
      BY <1>2, <3>1, CallKnown DEF Calling
  <2>2. QED
    BY <1>1, <1>2, <2>1, TurnsKnown
<1>4. Traded'
  <2>1. CASE MintIds \/ CarryDone
    <3>1. /\ pc \in {"mint", "carry"} /\ UNCHANGED <<stepTrade, call>>
          /\ pc' # "carry" /\ (pc' = "walk" => pc = "carry") /\ pc # "failed"
      BY <2>1 DEF MintIds, CarryDone, engineVars, walkVars
    <3>2. pc \in {"start", "exits", "snapshot", "end", "mint"} \cup (Calling \ {"walk"})
      BY <3>1 DEF Calling
    <3>3. QED
      BY <1>1, <1>2, <3>1, <3>2, PhaseTraded
  <2>2. CASE Validate \/ WalkDone
    BY <1>1, <1>2, <2>2, TurnsTraded
  <2>3. QED
    BY <2>1, <2>2
<1>5. Charged'
  <2>1. CASE MintIds \/ WalkDone
    <3>1. pc' \in {"refresh", "exits", "settle"}
      BY <2>1 DEF MintIds, WalkDone, AbortEngine, AbortSeam
    <3>2. QED
      BY <3>1 DEF Charged, Unapplied
  <2>2. CASE Validate
    <3>1. /\ pc = "validate" /\ pc' = "carry" /\ cursor' = 0
          /\ UNCHANGED <<outFills, records>>
      BY <2>2 DEF Validate, AbortEngine, AbortSeam, bookVars
    <3>2. DOMAIN outFills = 1..Len(outFills)
      BY <1>1, RowTypes
    <3>3. Unapplied' = (cursor' + 1)..Len(outFills')
      BY <3>1 DEF Unapplied
    <3>4. Unapplied = DOMAIN outFills
      BY <3>1 DEF Unapplied
    <3>5. Unapplied' = Unapplied
      BY <3>1, <3>2, <3>3, <3>4
    <3>6. QED
      BY <1>1, <3>1, <3>5, ChargesSame
  <2>3. CASE CarryDone
    <3>1. pc = "carry" /\ pc' = "walk" /\ UNCHANGED <<cursor, outFills, records>>
      BY <2>3 DEF CarryDone, engineVars, walkVars, bookVars
    <3>2. Unapplied' = Unapplied
      BY <3>1 DEF Unapplied
    <3>3. QED
      BY <1>1, <3>1, <3>2, ChargesSame
  <2>4. QED
    BY <2>1, <2>2, <2>3
<1>6. QED
  BY <1>2, <1>3, <1>4, <1>5, OutsideKeepsRows

\* A run that stops leaves the rows as they are.
LEMMA AbortKeepsRows ==
  ASSUME RowInv, SeamInv', Unrecorded, pc' = "failed"
  PROVE  RowInv'
<1>1. TypeInv /\ TypeInv' /\ Known /\ Traded
  BY DEF RowInv, SeamInv, FillInv
<1>2. Known'
  BY <1>1, KnownKept
<1>3. Traded'
  BY <1>1, TradesKept
<1>4. Charged'
  BY DEF Charged
<1>5. QED
  BY <1>2, <1>3, <1>4, OutsideKeepsRows

\* A step that stops a run is none of those that record.
LEMMA AbortsRecordNothing ==
  ASSUME [Next]_vars, pc' = "failed"
  PROVE  Unrecorded
<1>1. UNCHANGED engineVars
  <2>1. CASE UNCHANGED vars
    BY <2>1 DEF vars
  <2>2. CASE FillNext /\ UNCHANGED engineVars
    BY <2>2
  <2>3. CASE EngineNext
    <3>1. CASE OnStart \/ Exits \/ OnSnapshot \/ OnEnd \/ Settle \/ SettleExpired \/ Advance
      BY <3>1 DEF OnStart, Exits, OnSnapshot, OnEnd, Settle, SettleExpired, Advance,
         AbortEngine, AbortSeam
    <3>2. CASE MintIds
      BY <3>2 DEF MintIds
    <3>3. CASE Validate \/ CarryFails \/ CarryDone \/ WalkFails \/ WalkDone
      BY <3>3 DEF Validate, CarryFails, CarryDone, WalkFails, WalkDone, AbortEngine, AbortSeam
    <3>4. ~ (CarryOpensLeg \/ CarryExtendsLeg \/ CarryClosesLeg)
      BY DEF CarryOpensLeg, CarryExtendsLeg, CarryClosesLeg, CarryNext, AtCarry
    <3>5. ~ (WalkCancel \/ WalkRestsOpen \/ WalkRestsClose \/ WalkOpens \/ WalkCloses)
      BY DEF WalkCancel, WalkRestsOpen, WalkRestsClose, WalkOpens, WalkCloses, WalkNext,
         Walking, AtWalk
    <3>6. QED
      BY <2>3, <3>1, <3>2, <3>3, <3>4, <3>5 DEF EngineNext
  <2>4. QED
    BY <2>1, <2>2, <2>3 DEF Next
<1>2. QED
  BY <1>1 DEF Unrecorded, engineVars, bookVars, idVars, ghosts

\* A step of the engine.
LEMMA EngineKeepsRows ==
  ASSUME RowInv, SeamInv', EngineNext, pc' # "failed"
  PROVE  RowInv'
<1>1. CASE OnStart \/ Exits \/ OnSnapshot \/ OnEnd \/ Settle \/ Advance
  BY <1>1, BetweenKeepsRows
<1>2. CASE MintIds \/ Validate \/ CarryDone \/ WalkDone
  BY <1>2, TurnsKeepRows
<1>3. CASE CarryOpensLeg \/ CarryExtendsLeg \/ CarryClosesLeg
  BY <1>3, CarryKeepsRows
<1>4. CASE WalkCancel \/ WalkRestsOpen \/ WalkRestsClose \/ WalkOpens \/ WalkCloses
  BY <1>4, WalkKeepsRows
<1>5. ~ (CarryFails \/ WalkFails \/ SettleExpired)
  BY DEF CarryFails, WalkFails, SettleExpired, AbortEngine, AbortSeam
<1>6. QED
  BY <1>1, <1>2, <1>3, <1>4, <1>5 DEF EngineNext

\* A step that does nothing.
LEMMA StutterKeepsRows ==
  ASSUME RowInv, SeamInv', UNCHANGED vars, pc' # "failed"
  PROVE  RowInv'
<1>1. /\ UNCHANGED <<pc, call, k, cmds, submitIds, outFills>>
      /\ UNCHANGED <<records, pending, submitted, withdrawn, terminalRows, inventory>>
      /\ UNCHANGED <<nextPos, nextTrade, nextOrder, stepTrade, cursor>>
  BY DEF vars, seamVars, engineVars, bookVars, idVars, walkVars, ghosts
<1>2. Unrecorded
  BY <1>1 DEF Unrecorded
<1>3. Known'
  BY <1>1 DEF RowInv, Known, NextId, FirstNew, Ordinal
<1>4. Traded'
  <2>1. Uses' = Uses
    BY <1>1 DEF Uses, Opens
  <2>2. Traded /\ (Untraded' <=> Untraded)
    BY <1>1 DEF RowInv, Untraded
  <2>3. QED
    BY <1>1, <2>1, <2>2 DEF Traded
<1>5. Charged'
  <2>1. Unapplied' = Unapplied /\ Charged
    BY <1>1 DEF Unapplied, RowInv
  <2>2. QED
    BY <1>1, <2>1, ChargesSame
<1>6. QED
  BY <1>2, <1>3, <1>4, <1>5, OutsideKeepsRows

\* Every step keeps it,
LEMMA StepKeepsRows ==
  ASSUME RowInv, [Next]_vars
  PROVE  RowInv'
<1>1. SeamInv'
  BY StepKeepsSeam DEF RowInv
<1>2. CASE pc' = "failed"
  BY <1>1, <1>2, AbortsRecordNothing, AbortKeepsRows
<1>3. CASE pc' # "failed"
  <2>1. CASE UNCHANGED vars
    BY <1>1, <1>3, <2>1, StutterKeepsRows
  <2>2. CASE EngineNext
    BY <1>1, <1>3, <2>2, EngineKeepsRows
  <2>3. CASE FillNext /\ UNCHANGED engineVars
    BY <1>1, <1>3, <2>3, FillKeepsRows
  <2>4. QED
    BY <2>1, <2>2, <2>3 DEF Next
<1>4. QED
  BY <1>2, <1>3

\* and a run starts with no row.
LEMMA InitRows ==
  ASSUME Init
  PROVE  RowInv
<1>1. /\ records = <<>> /\ pending = <<>> /\ submitted = <<>> /\ terminalRows = <<>>
      /\ nextPos = 1 /\ pc = "start" /\ stepTrade = 0
  BY DEF Init, SeamInit, EngineInit
<1>2. Known /\ Placed /\ Conserved /\ Numbered /\ Tallied /\ OwnLegs
  BY <1>1 DEF Known, Placed, Conserved, Numbered, Tallied, OwnLegs, Opens
<1>3. Charged
  BY <1>1 DEF Charged, Unapplied
<1>4. Traded
  <2>1. Uses = {}
    BY <1>1 DEF Uses, Opens
  <2>2. QED
    BY <1>1, <2>1 DEF Traded
<1>5. BundleReplaysInventory
  <2>1. 1..(nextPos - 1) = {}
    BY <1>1
  <2>2. QED
    BY <2>1 DEF BundleReplaysInventory
<1>6. QED
  BY <1>2, <1>3, <1>4, <1>5, InitSeam DEF RowInv

LEMMA RowsAlways == Spec => []RowInv
<1>1. Init => RowInv
  BY InitRows
<1>2. RowInv /\ [Next]_vars => RowInv'
  BY StepKeepsRows
<1>3. QED
  BY <1>1, <1>2, PTL DEF Spec

-----------------------------------------------------------------------------
(* What a run leaves behind, for every value of the constants.             *)

\* Whenever control is back with the strategy, what fills.parquet records of an
\* order and what register_pending still rests of it add up to no more than was
\* submitted, and to exactly that for a good-till-cancelled order nobody withdrew:
\* no step of apply_carry_group or of the command walk loses a contract or trades
\* it twice, over however many refreshes the order is filled.
THEOREM OrdersConserved == Spec => []OrderConservation
<1>1. RowInv => OrderConservation
  <2> SUFFICES ASSUME RowInv, BetweenCalls, NEW o \in DOMAIN submitted
               PROVE  LET size == submitted[o].intent.qty
                          done == Recorded(RecordsOfOrder(o))
                          rest == IF o \in DOMAIN pending THEN pending[o].intent.qty ELSE 0
                      IN  /\ done + rest <= size
                          /\ (submitted[o].intent.kind = "gtc" /\ o \notin withdrawn) =>
                               done + rest = size
    BY DEF OrderConservation
  <2>1. QED
    BY DEF RowInv, Conserved, Rest
<1>2. QED
  BY <1>1, RowsAlways, PTL

\* The rows of fills.parquet are each under the order that traded, which the
\* engine knows only from its place in the groups of the correlation channels; an
\* order's rows are numbered in the order they were recorded; the fill model has
\* charged the order fee on the first of them and on no other; and the opening rows
\* of two orders share a position exactly if the orders are one.
THEOREM RowsSound == Spec => []FillRowsSound
<1>1. RowInv => FillRowsSound
  <2> SUFFICES ASSUME RowInv, NEW i \in DOMAIN records
               PROVE  /\ records[i].order = records[i].fill.owner
                      /\ records[i].seq
                           = Cardinality({j \in RecordsOfOrder(records[i].order) : j < i})
                      /\ records[i].fill.charge = "first" <=> records[i].seq = 0
                      /\ \A j \in DOMAIN records :
                           (records[i].action = "open" /\ records[j].action = "open") =>
                             (records[i].order = records[j].order
                                <=> records[i].pos = records[j].pos)
    BY DEF FillRowsSound
  <2>1. Numbered /\ OwnLegs
    BY DEF RowInv
  <2>2. /\ records[i].order = records[i].fill.owner
        /\ records[i].seq = Cardinality({j \in RecordsOfOrder(records[i].order) : j < i})
        /\ records[i].fill.charge = "first" <=> records[i].seq = 0
    BY <2>1 DEF Numbered
  <2>3. ASSUME NEW j \in DOMAIN records, records[i].action = "open",
               records[j].action = "open"
        PROVE  records[i].order = records[j].order <=> records[i].pos = records[j].pos
    BY <2>1, <2>3 DEF OwnLegs, Opens
  <2>4. QED
    BY <2>2, <2>3
<1>2. QED
  BY <1>1, RowsAlways, PTL

\* Whoever replays fills.parquet finds the inventory the engine holds: for every
\* position ever opened the opening rows less the closing ones are what is held, and
\* positions.parquet has a terminal row of it exactly if its fills closed it in full.
THEOREM BundleAlwaysReplays == Spec => []BundleReplaysInventory
<1>1. RowInv => BundleReplaysInventory
  BY DEF RowInv
<1>2. QED
  BY <1>1, RowsAlways, PTL

\* Two opening rows are of one trade exactly if their orders were submitted in one
\* step, also where an order rested under the trade its step had reserved for it and
\* filled later, next to the opens of that later step.
THEOREM TradesPerStep == Spec => []TradePerStep
<1>1. RowInv => TradePerStep
  <2> SUFFICES ASSUME RowInv, NEW i \in DOMAIN records, NEW j \in DOMAIN records,
                      records[i].action = "open", records[j].action = "open"
               PROVE  submitted[records[i].order].call = submitted[records[j].order].call
                        <=> records[i].trade = records[j].trade
    BY DEF TradePerStep
  <2>1. PICK u, v : /\ u = <<submitted[records[i].order].call, records[i].trade>>
                    /\ v = <<submitted[records[j].order].call, records[j].trade>>
    OBVIOUS
  <2>2. u \in Uses /\ v \in Uses
    BY <2>1, UsesAre DEF Opens
  <2>3. u[1] = v[1] <=> u[2] = v[2]
    BY <2>2 DEF RowInv, Traded
  <2>4. QED
    BY <2>1, <2>3
<1>2. QED
  BY <1>1, RowsAlways, PTL
-----------------------------------------------------------------------------
(* A leg is closed once.                                                   *)

\* The closes of this step the walk has not reached.
Closing == {j \in DOMAIN cmds : /\ IsSubmission(cmds[j]) /\ cmds[j].intent.action = "close"
                                /\ (pc = "walk" => j >= k)}
LegOf(j) == cmds[j].intent.pos

\* The phases in which the queue holds commands of this step.
Scheduling == {"snapshot", "end", "mint"} \cup Calling

\* A close is at the market, of a leg that is held and of no more than is held:
\* of the whole leg, until close_all has looked.
Covered(j) ==
  /\ cmds[j].type = "submit" /\ cmds[j].intent.kind = "market"
  /\ LegOf(j) \in DOMAIN inventory
  /\ cmds[j].intent.qty <= inventory[LegOf(j)].qty
  /\ pc \in {"snapshot", "end"} => cmds[j].intent.qty = inventory[LegOf(j)].qty

\* No close rests, and no two of a step are of one leg.
OpensRest  == \A o \in DOMAIN pending : pending[o].intent.action = "open"
ClosesOnce ==
  pc \in Scheduling =>
    /\ \A j \in Closing : Covered(j)
    /\ \A i, j \in Closing : LegOf(i) = LegOf(j) => i = j

\* The closes that are left are of legs that are no smaller than they were.
Undisturbed ==
  \A j \in Closing' :
    /\ j \in Closing /\ cmds'[j] = cmds[j]
    /\ LegOf(j) \in DOMAIN inventory =>
         /\ LegOf(j) \in DOMAIN inventory'
         /\ inventory'[LegOf(j)].qty >= inventory[LegOf(j)].qty

\* The sizes compared.
LEMMA CloseSizes ==
  ASSUME TypeInv
  PROVE  /\ \A p \in DOMAIN inventory : inventory[p].qty \in Nat /\ p \in Nat
         /\ \A j \in Closing : cmds[j].intent \in Intents /\ cmds[j].intent.qty \in Quantities
         /\ cmds \in Seq(Commands) /\ Quantities \subseteq Nat \ {0}
<1>1. /\ cmds \in Seq(Commands) /\ IsMap(inventory, Nat, Legs)
      /\ \A j \in DOMAIN cmds : cmds[j] \in Commands
  BY DEF TypeInv, TypeOK, SeamTypeOK, EngineTypeOK, BooksTypeOK
<1>2. Quantities \subseteq Nat \ {0}
  BY DomainAssumption DEF Quantities
<1>3. ASSUME NEW j \in Closing
      PROVE  cmds[j].intent \in Intents /\ cmds[j].intent.qty \in Quantities
  <2>1. cmds[j] \in Commands /\ IsSubmission(cmds[j])
    BY <1>1 DEF Closing
  <2>2. cmds[j].intent \in Intents
    BY <2>1, CommandParts
  <2>3. QED
    BY <2>2 DEF Intents
<1>4. \A p \in DOMAIN inventory : inventory[p].qty \in Nat /\ p \in Nat
  BY <1>1, <1>2 DEF IsMap, Legs
<1>5. QED
  BY <1>1, <1>2, <1>3, <1>4

LEMMA UndisturbedKeeps ==
  ASSUME TypeInv, TypeInv', ClosesOnce, Undisturbed,
         pc' \in Scheduling => pc \in Scheduling,
         pc' \in {"snapshot", "end"} => pc \in {"snapshot", "end"} /\ inventory' = inventory
  PROVE  ClosesOnce'
<1> SUFFICES ASSUME pc' \in Scheduling
             PROVE  /\ \A j \in Closing' : Covered(j)'
                    /\ \A i, j \in Closing' : LegOf(i)' = LegOf(j)' => i = j
  BY DEF ClosesOnce, Scheduling, Calling
<1>1. /\ \A j \in Closing : Covered(j)
      /\ \A i, j \in Closing : LegOf(i) = LegOf(j) => i = j
  BY DEF ClosesOnce
<1>2. \A j \in Closing' : j \in Closing /\ cmds'[j] = cmds[j] /\ LegOf(j)' = LegOf(j)
  BY DEF Undisturbed, LegOf
<1>3. ASSUME NEW j \in Closing'
      PROVE  Covered(j)'
  <2>1. j \in Closing /\ cmds'[j] = cmds[j] /\ LegOf(j)' = LegOf(j) /\ Covered(j)
    BY <1>1, <1>2
  <2>2. PICK p, q : p = LegOf(j) /\ q = cmds[j].intent.qty
    OBVIOUS
  <2>3. p \in DOMAIN inventory /\ q <= inventory[p].qty
    BY <2>1, <2>2 DEF Covered
  <2>4. p \in DOMAIN inventory' /\ inventory'[p].qty >= inventory[p].qty
    BY <2>2, <2>3 DEF Undisturbed
  <2>5. inventory[p].qty \in Nat /\ q \in Nat
    BY <2>1, <2>2, <2>3, CloseSizes
  <2>6. inventory'[p].qty \in Nat
    <3>1. IsMap(inventory', Nat, Legs)
      BY DEF TypeInv, TypeOK, EngineTypeOK, BooksTypeOK
    <3>2. QED
      BY <2>4, <3>1, DomainAssumption DEF IsMap, Legs, Quantities
  <2>7. q <= inventory'[p].qty
    BY <2>3, <2>4, <2>5, <2>6
  <2>8. pc' \in {"snapshot", "end"} => q = inventory'[p].qty
    BY <2>1, <2>2 DEF Covered
  <2>9. QED
    BY <2>1, <2>2, <2>4, <2>7, <2>8 DEF Covered
<1>4. \A i, j \in Closing' : LegOf(i)' = LegOf(j)' => i = j
  BY <1>1, <1>2
<1>5. QED
  BY <1>3, <1>4

\* The queue and the legs stay as they are.
LEMMA SameCommands ==
  ASSUME TypeInv, UNCHANGED <<cmds, inventory>>, pc = "walk" => pc' = "walk" /\ k' = k
  PROVE  Undisturbed
<1>1. ASSUME NEW j \in Closing'
      PROVE  j \in Closing
  BY DEF Closing
<1>2. \A p \in DOMAIN inventory : inventory[p].qty \in Nat
  BY CloseSizes
<1>3. \A p \in DOMAIN inventory : inventory[p].qty >= inventory[p].qty
  BY <1>2
<1>4. QED
  BY <1>1, <1>3 DEF Undisturbed

\* The fill model reads the queue and changes neither it nor the phase before.
LEMMA FillQueue ==
  ASSUME FillNext
  PROVE  /\ UNCHANGED cmds
         /\ pc \in {"refresh", "reseed", "lifecycle", "submit"}
         /\ pc' \notin {"snapshot", "end", "walk"}
<1>1. CASE RefreshBooks
  BY <1>1 DEF RefreshBooks
<1>2. ASSUME NEW seq, NEW q, ReseedCross(seq, q)
      PROVE  UNCHANGED cmds /\ pc = "reseed" /\ pc' \in {"reseed", "failed"}
  BY <1>2 DEF ReseedCross, AbortFill, AbortSeam
<1>3. ASSUME NEW rests, ReseedNext(rests)
      PROVE  UNCHANGED cmds /\ pc = "reseed" /\ pc' = "reseed"
  BY <1>3 DEF ReseedNext
<1>4. ASSUME NEW levels, NEW rest, SubmitOne(levels, rest)
      PROVE  UNCHANGED cmds /\ pc = "submit" /\ pc' = "submit"
  BY <1>4 DEF SubmitOne, AtSubmission
<1>5. CASE ReseedDone \/ LifecycleOne \/ LifecycleDone
  BY <1>5 DEF ReseedDone, LifecycleOne, LifecycleDone, AbortFill, AbortSeam
<1>6. CASE SubmitFails \/ SubmitSelfCross \/ SubmitSkip \/ SubmitDone
  BY <1>6 DEF SubmitFails, SubmitSelfCross, SubmitSkip, SubmitDone, AtSubmission,
     AbortFill, AbortSeam
<1>7. QED
  BY <1>1, <1>2, <1>3, <1>4, <1>5, <1>6 DEF FillNext

\* A step that puts no command and no leg anywhere leaves the closes as they are,
\* unless it is an exit phase.
LEMMA OthersKeepCloses ==
  ASSUME TypeInv, TypeInv', OpensRest, ClosesOnce,
         \/ FillNext /\ UNCHANGED engineVars
         \/ MintIds \/ Validate \/ CarryDone \/ WalkDone \/ Settle \/ SettleExpired \/ Advance
         \/ CarryFails \/ WalkFails
         \/ UNCHANGED vars
  PROVE  OpensRest' /\ ClosesOnce'
<1>1. UNCHANGED <<cmds, inventory, pending>>
  <2>1. CASE FillNext /\ UNCHANGED engineVars
    <3>1. UNCHANGED <<inventory, pending>>
      BY <2>1 DEF engineVars, bookVars
    <3>2. UNCHANGED cmds
      BY <2>1, FillQueue
    <3>3. QED
      BY <3>1, <3>2
  <2>2. CASE MintIds
    BY <2>2 DEF MintIds, bookVars
  <2>3. CASE Validate
    BY <2>3 DEF Validate, AbortEngine, AbortSeam, engineVars, bookVars
  <2>4. CASE CarryDone \/ WalkDone \/ Settle \/ SettleExpired \/ Advance \/ CarryFails \/ WalkFails
    BY <2>4 DEF CarryDone, WalkDone, Settle, SettleExpired, Advance, CarryFails, WalkFails,
       AbortEngine, AbortSeam, engineVars, bookVars
  <2>5. CASE UNCHANGED vars
    BY <2>5 DEF vars, seamVars, engineVars, bookVars
  <2>6. QED
    BY <2>1, <2>2, <2>3, <2>4, <2>5
<1>2. \/ pc' \notin Scheduling
      \/ /\ pc \in Scheduling
         /\ pc = "walk" => pc' = "walk" /\ k' = k
         /\ pc' \in {"snapshot", "end"} => pc \in {"snapshot", "end"}
  <2>1. CASE FillNext /\ UNCHANGED engineVars
    <3>1. pc \in {"refresh", "reseed", "lifecycle", "submit"} /\ pc' \notin {"snapshot", "end"}
      BY <2>1, FillQueue
    <3>2. QED
      BY <3>1 DEF Scheduling, Calling
  <2>2. CASE MintIds \/ Validate \/ CarryDone \/ WalkDone
    BY <2>2 DEF MintIds, Validate, CarryDone, WalkDone, AbortEngine, AbortSeam,
       Scheduling, Calling
  <2>3. CASE Settle \/ SettleExpired \/ Advance \/ CarryFails \/ WalkFails
    BY <2>3 DEF Settle, SettleExpired, Advance, CarryFails, WalkFails, AbortEngine, AbortSeam,
       Scheduling, Calling
  <2>4. CASE UNCHANGED vars
    BY <2>4 DEF vars, seamVars
  <2>5. QED
    BY <2>1, <2>2, <2>3, <2>4
<1>3. OpensRest'
  BY <1>1 DEF OpensRest
<1>4. CASE pc' \notin Scheduling
  BY <1>3, <1>4 DEF ClosesOnce, Scheduling, Calling
<1>5. CASE pc' \in Scheduling
  <2>1. Undisturbed
    BY <1>1, <1>2, <1>5, SameCommands
  <2>2. QED
    BY <1>1, <1>2, <1>3, <1>5, <2>1, UndisturbedKeeps
<1>6. QED
  BY <1>4, <1>5

\* A leg that opens is new, and one that grows keeps what its close covers.
LEMMA CarryKeepsCloses ==
  ASSUME SeamInv, TypeInv', OpensRest, ClosesOnce,
         CarryOpensLeg \/ CarryExtendsLeg \/ CarryClosesLeg
  PROVE  OpensRest' /\ ClosesOnce'
<1>1. TypeInv /\ IdsMinted
  BY DEF SeamInv, FillInv, LegsInv
<1>2. AtCarry /\ CarryFault = "none" /\ CarryNext
  BY <1>1, CarryShape
<1>3. /\ CarryEntry \in PendingEntries /\ CarryOrder \in DOMAIN pending
      /\ TotalQty(CarryRun) \in Nat
  <2>1. CarryEntry \in PendingEntries /\ CarryOrder \in DOMAIN pending
        /\ TotalQty(CarryRun) \in Quantities
    BY <1>1, <1>2, CarryChecked
  <2>2. QED
    BY <2>1, DomainAssumption DEF Quantities
<1>4. CarryEntry.intent.action = "open"
  BY <1>3 DEF OpensRest, CarryEntry
<1>5. OpensRest'
  <2>1. PICK trade, p : pending' = Shrunk(trade, p)
    BY <1>1, CarryShape
  <2>2. PICK o : o = CarryOrder
    OBVIOUS
  <2>3. \A x \in DOMAIN pending' :
           \/ x # o /\ x \in DOMAIN pending /\ pending'[x] = pending[x]
           \/ x = o /\ pending'[x].intent.action = CarryEntry.intent.action
    BY <1>3, <2>1, <2>2, CarryEntries
  <2>4. QED
    BY <1>4, <2>3 DEF OpensRest
<1>6. \A p \in DOMAIN inventory :
        p \in DOMAIN inventory' /\ inventory'[p].qty >= inventory[p].qty
  <2>1. ASSUME NEW p \in DOMAIN inventory
        PROVE  inventory[p].qty \in Nat /\ p < nextPos /\ nextPos \in Nat /\ p \in Nat
    BY <1>1, CloseSizes, RowTypes DEF IdsMinted
  <2>2. CASE CarryOpensLeg
    <3>1. PICK leg : inventory' = Put(inventory, nextPos, leg)
      BY <2>2 DEF CarryOpensLeg, OpenLeg
    <3>2. ASSUME NEW p \in DOMAIN inventory
          PROVE  p \in DOMAIN inventory' /\ inventory'[p] = inventory[p]
      <4>1. p # nextPos
        BY <2>1
      <4>2. QED
        BY <3>1, <4>1 DEF Put
    <3>3. QED
      BY <2>1, <3>2
  <2>3. CASE CarryExtendsLeg
    <3>1. inventory' = [inventory EXCEPT ![CarryEntry.pos].qty = @ + TotalQty(CarryRun)]
      BY <2>3 DEF CarryExtendsLeg, ExtendLeg
    <3>2. ASSUME NEW p \in DOMAIN inventory
          PROVE  \/ inventory'[p] = inventory[p]
                 \/ inventory'[p].qty = inventory[p].qty + TotalQty(CarryRun)
      <4>1. inventory[p] \in Legs
        BY <1>1 DEF TypeInv, TypeOK, EngineTypeOK, BooksTypeOK, IsMap
      <4>2. QED
        BY <3>1, <4>1 DEF Legs
    <3>3. DOMAIN inventory' = DOMAIN inventory
      BY <3>1
    <3>4. QED
      BY <1>3, <2>1, <3>2, <3>3
  <2>4. ~ CarryClosesLeg
    BY <1>4 DEF CarryClosesLeg
  <2>5. QED
    BY <2>2, <2>3, <2>4
<1>7. UNCHANGED <<pc, cmds>> /\ pc = "carry"
  BY <1>2 DEF CarryNext, AtCarry
<1>8. Undisturbed
  <2>1. Closing' = Closing
    BY <1>7 DEF Closing
  <2>2. QED
    BY <1>6, <1>7, <2>1 DEF Undisturbed
<1>9. QED
  BY <1>1, <1>5, <1>7, <1>8, UndisturbedKeeps

\* A command the walk reaches: a close is at the market, so it does not rest.
LEMMA WalkedClose ==
  ASSUME TypeInv, ClosesOnce, Walking
  PROVE  /\ WalkIntent \in Intents
         /\ WalkIntent.action = "close" =>
              /\ k \in Closing /\ WalkIntent.kind = "market" /\ WalkIntent.pos = LegOf(k)
              /\ WalkIntent.pos \in DOMAIN inventory
              /\ WalkIntent.qty <= inventory[WalkIntent.pos].qty
<1>1. k \in DOMAIN cmds /\ cmds[k] \in Commands /\ IsSubmission(cmds[k]) /\ pc = "walk" /\ k \in Nat
  BY DEF Walking, AtWalk, TypeInv, TypeOK, SeamTypeOK
<1>2. WalkIntent \in Intents
  BY <1>1, CommandParts DEF WalkIntent
<1>3. ASSUME WalkIntent.action = "close"
      PROVE  k \in Closing /\ Covered(k)
  <2>1. k \in Closing
    BY <1>1, <1>3 DEF Closing, WalkIntent
  <2>2. QED
    BY <1>1, <2>1 DEF ClosesOnce, Scheduling, Calling
<1>4. QED
  BY <1>2, <1>3 DEF Covered, LegOf, WalkIntent

\* A command that opens or closes a leg leaves the legs of the later closes.
LEMMA WalkKeepsCloses ==
  ASSUME SeamInv, TypeInv', OpensRest, ClosesOnce,
         WalkCancel \/ WalkRestsOpen \/ WalkRestsClose \/ WalkOpens \/ WalkCloses
  PROVE  OpensRest' /\ ClosesOnce'
<1>1. TypeInv /\ IdsMinted
  BY DEF SeamInv, FillInv, LegsInv
<1>2. AtWalk /\ WalkNext /\ Entered
  BY WalkEnters
<1>3. UNCHANGED <<pc, cmds>> /\ pc = "walk" /\ k' = k + 1 /\ k \in Nat
  BY <1>1, <1>2 DEF WalkNext, AtWalk, TypeInv, TypeOK, SeamTypeOK
<1>4. /\ Walking => WalkOrder \notin DOMAIN pending
      /\ Stays => Walking /\ WalkIntent.action = "open" /\ WalkIntent \in Intents
  <2>1. Walking => WalkOrder \notin DOMAIN pending
    BY <1>2, WalkIds, SizesNat
  <2>2. ASSUME Stays
        PROVE  Walking /\ WalkIntent.action = "open" /\ WalkIntent \in Intents
    <3>1. Walking /\ WalkIntent.kind = "gtc"
      BY <2>2 DEF Stays
    <3>2. WalkIntent \in Intents /\ WalkIntent.action # "close"
      BY <1>1, <3>1, WalkedClose
    <3>3. QED
      BY <3>1, <3>2 DEF Intents
  <2>3. QED
    BY <2>1, <2>2
<1>5. OpensRest'
  <2>1. ASSUME NEW x \in DOMAIN pending'
        PROVE  pending'[x].intent.action = "open"
    <3>1. CASE Stays /\ x = WalkOrder
      <4>1. pending'[x].intent = [WalkIntent EXCEPT !.qty = @ - TakenQty]
        BY <1>2, <3>1 DEF Entered
      <4>2. QED
        BY <1>4, <3>1, <4>1 DEF Intents
    <3>2. CASE ~ (Stays /\ x = WalkOrder)
      <4>1. x \in DOMAIN AfterCancel /\ x \in DOMAIN pending
        BY <1>2, <2>1, <3>2, AfterCancelIs DEF Entered
      <4>2. pending'[x] = pending[x]
        BY <1>2, <1>4, <4>1 DEF Entered
      <4>3. QED
        BY <4>1, <4>2 DEF OpensRest
    <3>3. QED
      BY <3>1, <3>2
  <2>2. QED
    BY <2>1 DEF OpensRest
<1>6. \A j \in Closing' : j \in Closing /\ j # k
  <2>1. \A j \in DOMAIN cmds : j \in Nat
    BY <1>1, CloseSizes
  <2>2. ASSUME NEW j \in Closing'
        PROVE  j \in Closing /\ j >= k + 1 /\ j \in Nat
    BY <1>3, <2>1 DEF Closing
  <2>3. QED
    BY <1>3, <2>2
<1>7. \A p \in DOMAIN inventory :
        \/ p \in DOMAIN inventory' /\ inventory'[p] = inventory[p]
        \/ Walking /\ WalkIntent.action = "close" /\ p = WalkIntent.pos
  <2>1. CASE WalkCancel \/ WalkRestsOpen \/ WalkRestsClose
    BY <2>1 DEF WalkCancel, WalkRestsOpen, WalkRestsClose, bookVars
  <2>2. CASE WalkOpens
    <3>1. PICK leg : inventory' = Put(inventory, nextPos, leg)
      BY <2>2 DEF WalkOpens, OpenLeg
    <3>2. nextPos \notin DOMAIN inventory
      BY <1>1, RowTypes DEF IdsMinted
    <3>3. QED
      BY <3>1, <3>2 DEF Put
  <2>3. CASE WalkCloses
    <3>1. PICK p, q : /\ p = WalkIntent.pos
                      /\ inventory' = IF FullClose(p, q) THEN Drop(inventory, p)
                                      ELSE [inventory EXCEPT ![p].qty = @ - q]
      BY <2>3 DEF WalkCloses, CloseLeg
    <3>2. Walking /\ WalkIntent.action = "close"
      BY <2>3 DEF WalkCloses
    <3>3. QED
      BY <3>1, <3>2 DEF Drop
  <2>4. QED
    BY <2>1, <2>2, <2>3
<1>8. Undisturbed
  <2>1. ASSUME NEW j \in Closing', LegOf(j) \in DOMAIN inventory
        PROVE  LegOf(j) \in DOMAIN inventory' /\ inventory'[LegOf(j)] = inventory[LegOf(j)]
    <3>1. ~ (Walking /\ WalkIntent.action = "close" /\ LegOf(j) = WalkIntent.pos)
      <4>1. ASSUME Walking, WalkIntent.action = "close", LegOf(j) = WalkIntent.pos
            PROVE  FALSE
        <5>1. k \in Closing /\ LegOf(k) = LegOf(j)
          BY <1>1, <4>1, WalkedClose
        <5>2. j \in Closing /\ j # k
          BY <1>6
        <5>3. QED
          BY <1>3, <5>1, <5>2 DEF ClosesOnce, Scheduling, Calling
      <4>2. QED
        BY <4>1
    <3>2. QED
      BY <1>7, <2>1, <3>1
  <2>2. \A p \in DOMAIN inventory : inventory[p].qty >= inventory[p].qty
    <3>1. \A p \in DOMAIN inventory : inventory[p].qty \in Nat
      BY <1>1, CloseSizes
    <3>2. QED
      BY <3>1
  <2>3. QED
    BY <1>3, <1>6, <2>1, <2>2 DEF Undisturbed
<1>9. QED
  BY <1>1, <1>3, <1>5, <1>8, UndisturbedKeeps

-----------------------------------------------------------------------------
(* The phases of the strategy.                                             *)

\* The commands of a queue, and the legs taken in order.
LEMMA Queued ==
  ASSUME NEW S, NEW queue \in Queues(S)
  PROVE  queue \in Seq(S) /\ \A i \in DOMAIN queue : queue[i] \in S
<1>1. queue \in Seq(S)
  BY DEF Queues, BoundedSeq, SeqOf
<1>2. QED
  BY <1>1, ElementsIn

LEMMA LegsInOrder ==
  ASSUME NEW S \in SUBSET Nat, NEW legs \in InOrder(S)
  PROVE  /\ legs \in Seq(S) /\ \A i \in DOMAIN legs : legs[i] \in S
         /\ \A i, j \in DOMAIN legs : legs[i] = legs[j] => i = j
<1>1. /\ legs \in Seq(S)
      /\ \A i, j \in DOMAIN legs : i < j => legs[i] < legs[j]
  BY DEF InOrder, BoundedSeq, SeqOf
<1>2. \A i \in DOMAIN legs : legs[i] \in S /\ i \in Int
  BY <1>1
<1>3. \A i \in DOMAIN legs : legs[i] \in Nat
  BY <1>2
<1>4. ASSUME NEW i \in DOMAIN legs, NEW j \in DOMAIN legs, legs[i] = legs[j]
      PROVE  i = j
  <2>1. ~ (legs[i] < legs[j]) /\ ~ (legs[j] < legs[i])
    BY <1>3, <1>4
  <2>2. ~ (i < j) /\ ~ (j < i)
    BY <1>1, <2>1
  <2>3. QED
    BY <1>2, <2>2
<1>5. QED
  BY <1>1, <1>2, <1>4

\* on_start and on_snapshot add no close, if the strategy forms none.
LEMMA OffersOpens ==
  ASSUME CloseKinds = {}
  PROVE  \A cmd \in Offered : IsSubmission(cmd) => cmd.intent.action = "open"
<1>1. OwnIntents = OpenIntents
  BY DEF OwnIntents, CloseIntents
<1>2. \A i \in OpenIntents : i.action = "open"
  BY DEF OpenIntents
<1>3. QED
  BY <1>1, <1>2 DEF Offered, Submit, Cancel, Replacing, IsSubmission

LEMMA StartKeepsCloses ==
  ASSUME OnStart, OpensRest
  PROVE  OpensRest' /\ ClosesOnce'
<1>1. PICK queue \in Queues({Submit(i) : i \in OpenIntents}) : cmds' = queue
  BY DEF OnStart
<1>2. \A j \in DOMAIN queue : queue[j] \in {Submit(i) : i \in OpenIntents}
  BY Queued
<1>3. \A j \in DOMAIN queue : queue[j].intent.action = "open"
  BY <1>2 DEF Submit, OpenIntents
<1>4. Closing' = {}
  BY <1>1, <1>3 DEF Closing
<1>5. OpensRest'
  BY DEF OpensRest, OnStart, engineVars
<1>6. QED
  BY <1>4, <1>5 DEF ClosesOnce

LEMMA SnapshotKeepsCloses ==
  ASSUME CloseKinds = {}, TypeInv, TypeInv', OpensRest, ClosesOnce, OnSnapshot
  PROVE  OpensRest' /\ ClosesOnce'
<1>1. PICK queue \in Queues(Offered) : cmds' = cmds \o queue
  BY DEF OnSnapshot
<1>2. /\ pc = "snapshot" /\ pc' \in {"end", "mint"} /\ UNCHANGED <<inventory, pending>>
  BY DEF OnSnapshot, engineVars, bookVars
<1>3. \A j \in DOMAIN queue : IsSubmission(queue[j]) => queue[j].intent.action = "open"
  BY OffersOpens, Queued
<1>4. PICK m, n : m = Len(cmds) /\ n = Len(queue)
  OBVIOUS
<1>5. /\ DOMAIN cmds' = DOMAIN cmds \cup Behind(m, n)
      /\ \A i \in DOMAIN cmds : cmds'[i] = cmds[i]
      /\ \A i \in Behind(m, n) : i - m \in DOMAIN queue /\ cmds'[i] = queue[i - m]
  <2>1. cmds \in Seq(Commands)
    BY CloseSizes
  <2>2. queue \in Seq(Commands)
    <3>1. Offered \subseteq Commands
      BY OfferedType DEF TypeInv, TypeOK
    <3>2. queue \in Seq(Offered)
      BY Queued
    <3>3. QED
      BY <3>1, <3>2
  <2>3. Appended(Commands, cmds, queue, cmds', m, n)
    BY <1>1, <1>4, <2>1, <2>2, PlacesBehind DEF Follows
  <2>4. QED
    BY <2>3 DEF Appended
<1>6. ASSUME NEW j \in Closing'
      PROVE  j \in Closing /\ cmds'[j] = cmds[j]
  <2>1. j \in DOMAIN cmds' /\ IsSubmission(cmds'[j]) /\ cmds'[j].intent.action = "close"
    BY DEF Closing
  <2>2. j \in DOMAIN cmds
    BY <1>3, <1>5, <2>1
  <2>3. QED
    BY <1>2, <1>5, <2>1, <2>2 DEF Closing
<1>7. Undisturbed
  <2>1. \A p \in DOMAIN inventory : inventory[p].qty \in Nat
    BY CloseSizes
  <2>2. \A p \in DOMAIN inventory : inventory[p].qty >= inventory[p].qty
    BY <2>1
  <2>3. QED
    BY <1>2, <1>6, <2>2 DEF Undisturbed
<1>8. ClosesOnce'
  BY <1>2, <1>7, UndisturbedKeeps DEF Scheduling
<1>9. QED
  BY <1>2, <1>8 DEF OpensRest

\* Each leg whose exit triggers is closed whole.
LEMMA ExitsKeepCloses ==
  ASSUME TypeInv, OpensRest, Exits
  PROVE  OpensRest' /\ ClosesOnce'
<1>1. PICK S \in SUBSET DOMAIN inventory : \E legs \in InOrder(S) :
        cmds' = [i \in DOMAIN legs |-> CloseCommand(legs[i])]
  BY DEF Exits
<1>2. PICK legs \in InOrder(S) : cmds' = [i \in DOMAIN legs |-> CloseCommand(legs[i])]
  BY <1>1
<1>3. pc' = "snapshot" /\ UNCHANGED <<inventory, pending>>
  BY DEF Exits, engineVars, bookVars
<1>4. /\ \A i \in DOMAIN legs : legs[i] \in S
      /\ \A i, j \in DOMAIN legs : legs[i] = legs[j] => i = j
  <2>1. S \in SUBSET Nat
    BY CloseSizes
  <2>2. QED
    BY <1>1, <2>1, LegsInOrder
<1>5. ASSUME NEW j \in Closing'
      PROVE  j \in DOMAIN legs /\ LegOf(j)' = legs[j] /\ Covered(j)'
  <2>1. j \in DOMAIN legs
    BY <1>2 DEF Closing
  <2>2. PICK p : p = legs[j] /\ p \in DOMAIN inventory
    BY <1>1, <1>4, <2>1
  <2>3. cmds'[j] = CloseCommand(p)
    BY <1>2, <2>1, <2>2
  <2>4. /\ cmds'[j].type = "submit" /\ cmds'[j].intent.pos = p
        /\ cmds'[j].intent.kind = "market" /\ cmds'[j].intent.qty = inventory[p].qty
    BY <2>3 DEF CloseCommand, Submit, CloseIntent
  <2>5. inventory[p].qty \in Nat
    BY <2>2, CloseSizes
  <2>6. cmds'[j].intent.qty <= inventory[p].qty
    BY <2>4, <2>5
  <2>7. QED
    BY <1>3, <2>1, <2>2, <2>4, <2>6 DEF Covered, LegOf
<1>6. \A i, j \in Closing' : LegOf(i)' = LegOf(j)' => i = j
  BY <1>4, <1>5
<1>7. ClosesOnce'
  BY <1>5, <1>6 DEF ClosesOnce
<1>8. QED
  BY <1>3, <1>7 DEF OpensRest

\* close_all sees what the exits have scheduled: it takes no leg they close, and
\* no more of a leg than is held.
LEMMA FlattenTakes ==
  ASSUME TypeInv, OpensRest, ClosesOnce, pc = "end", NEW p \in DOMAIN inventory,
         NEW q \in Quantities, Uncovered(p, q)
  PROVE  q <= inventory[p].qty /\ \A j \in Closing : LegOf(j) # p
<1> DEFINE closes == {j \in DOMAIN cmds : /\ cmds[j].type = "submit"
                                          /\ cmds[j].intent.action = "close"
                                          /\ cmds[j].intent.pos = p}
           f == [j \in closes |-> cmds[j].intent.qty]
           scheduled == SumFunctionOnSet(f, closes)
<1>1. \A j \in closes : j \in Closing
  BY DEF Closing, IsSubmission
<1>2. \A j \in closes : f[j] \in Nat
  BY <1>1, CloseSizes
<1>3. IsFiniteSet(closes)
  <2>1. DOMAIN cmds = 1..Len(cmds) /\ Len(cmds) \in Int
    <3>1. cmds \in Seq(Commands)
      BY CloseSizes
    <3>2. QED
      BY <3>1
  <2>2. QED
    BY <2>1, FS_Interval, FS_Subset
<1>4. Scheduled(p) = scheduled
  <2>1. {o \in DOMAIN pending : /\ pending[o].intent.action = "close"
                                /\ pending[o].intent.pos = p} = {}
    BY DEF OpensRest
  <2>2. Scheduled(p) = SumOver(f, closes) + SumOver([o \in {} |-> pending[o].intent.qty], {})
    BY <2>1 DEF Scheduled
  <2>3. SumOver([o \in {} |-> pending[o].intent.qty], {}) = 0
    BY SumEmpty DEF SumOver
  <2>4. scheduled \in Nat
    BY <1>2, <1>3, SumNat
  <2>5. QED
    BY <2>2, <2>3, <2>4 DEF SumOver
<1>5. scheduled \in Nat /\ \A j \in closes : f[j] <= scheduled
  BY <1>2, <1>3, SumNat, SumPart
<1>6. scheduled + q = inventory[p].qty
  BY <1>4 DEF Uncovered
<1>7. q \in Nat \ {0} /\ inventory[p].qty \in Nat
  BY CloseSizes
<1>8. ASSUME NEW j \in Closing, LegOf(j) = p
      PROVE  FALSE
  <2>1. Covered(j)
    BY DEF ClosesOnce, Scheduling
  <2>2. cmds[j].type = "submit" /\ cmds[j].intent.qty = inventory[p].qty
    BY <1>8, <2>1 DEF Covered
  <2>3. j \in closes
    BY <1>8, <2>2 DEF Closing, LegOf
  <2>4. f[j] = inventory[p].qty
    BY <2>2, <2>3
  <2>5. inventory[p].qty <= scheduled
    BY <1>5, <2>3, <2>4
  <2> HIDE DEF scheduled
  <2>6. QED
    BY <1>5, <1>6, <1>7, <2>5
<1> HIDE DEF scheduled
<1>9. q <= inventory[p].qty
  BY <1>5, <1>6, <1>7
<1>10. QED
  BY <1>8, <1>9

\* The command that flattens a leg close_all takes.
LEMMA FlattenCloses ==
  ASSUME TypeInv, OpensRest, ClosesOnce, pc = "end", NEW p \in UncoveredLegs,
         NEW cmd, cmd = FlattenCommand(p)
  PROVE  /\ cmd.type = "submit" /\ cmd.intent.kind = "market" /\ cmd.intent.pos = p
         /\ p \in DOMAIN inventory /\ cmd.intent.qty <= inventory[p].qty
         /\ \A j \in Closing : LegOf(j) # p
<1>1. p \in DOMAIN inventory /\ \E q \in Quantities : Uncovered(p, q)
  BY DEF UncoveredLegs
<1>2. PICK q : q = CHOOSE x \in Quantities : Uncovered(p, x)
  OBVIOUS
<1>3. q \in Quantities /\ Uncovered(p, q)
  BY <1>1, <1>2
<1>4. cmd = Submit(CloseIntent(p, q, "market"))
  BY <1>2 DEF FlattenCommand
<1>5. /\ cmd.type = "submit" /\ cmd.intent.kind = "market" /\ cmd.intent.pos = p
      /\ cmd.intent.qty = q
  BY <1>4 DEF Submit, CloseIntent
<1>6. q <= inventory[p].qty /\ \A j \in Closing : LegOf(j) # p
  BY <1>1, <1>3, FlattenTakes
<1>7. QED
  BY <1>1, <1>5, <1>6

LEMMA EndKeepsCloses ==
  ASSUME TypeInv, TypeInv', OpensRest, ClosesOnce, OnEnd
  PROVE  OpensRest' /\ ClosesOnce'
<1>1. pc = "end" /\ UNCHANGED <<inventory, pending>>
  BY DEF OnEnd, AbortEngine, AbortSeam, engineVars, bookVars
<1>2. OpensRest'
  BY <1>1 DEF OpensRest
<1>3. PICK tail \in CloseAll \cup {<<>>} \cup {<<Submit(i)>> : i \in OpenIntents} :
        IF \A j \in DOMAIN tail : IsClose(tail[j])
          THEN pc' = "mint" /\ cmds' = cmds \o tail
          ELSE pc' = "failed"
  BY DEF OnEnd, AbortEngine, AbortSeam
<1>4. CASE pc' = "failed"
  BY <1>2, <1>4 DEF ClosesOnce, Scheduling, Calling
<1>5. cmds \in Seq(Commands)
  BY CloseSizes
<1>6. CASE pc' = "mint" /\ tail = <<>>
  <2>1. cmds' = cmds
    BY <1>3, <1>5, <1>6
  <2>2. Undisturbed
    BY <1>1, <2>1, SameCommands
  <2>3. QED
    BY <1>1, <1>2, <1>6, <2>2, UndisturbedKeeps DEF Scheduling
<1>7. CASE pc' = "mint" /\ tail \in CloseAll
  <2>1. PICK legs \in InOrder(UncoveredLegs) :
          tail = [i \in DOMAIN legs |-> FlattenCommand(legs[i])]
    BY <1>7 DEF CloseAll
  <2>2. /\ legs \in Seq(UncoveredLegs)
        /\ \A i \in DOMAIN legs : legs[i] \in UncoveredLegs
        /\ \A i, j \in DOMAIN legs : legs[i] = legs[j] => i = j
    <3>1. UncoveredLegs \in SUBSET Nat
      BY CloseSizes DEF UncoveredLegs
    <3>2. QED
      BY <3>1, LegsInOrder
  <2>3. PICK m, n : m = Len(cmds) /\ n = Len(tail)
    OBVIOUS
  <2>4. /\ DOMAIN cmds' = DOMAIN cmds \cup Behind(m, n)
        /\ \A i \in DOMAIN cmds : cmds'[i] = cmds[i]
        /\ \A i \in Behind(m, n) : i - m \in DOMAIN tail /\ cmds'[i] = tail[i - m]
        /\ \A i \in Behind(m, n) : i \in Int
        /\ m \in Int
    <3>1. cmds' \in Seq(Commands) /\ cmds' = cmds \o tail
      <4>1. cmds' \in Seq(Commands)
        BY DEF TypeInv, TypeOK, SeamTypeOK
      <4>2. QED
        BY <1>3, <1>7, <4>1
    <3>2. tail \in Seq({tail[i] : i \in DOMAIN tail})
      <4>1. DOMAIN tail = 1..Len(legs) /\ Len(legs) \in Nat
        BY <2>1, <2>2
      <4>2. tail = [i \in 1..Len(legs) |-> tail[i]]
        BY <2>1, <4>1
      <4>3. QED
        BY <4>1, <4>2
    <3>3. QED
      <4>1. PICK T : T = Commands \cup {tail[i] : i \in DOMAIN tail}
        OBVIOUS
      <4>2. cmds \in Seq(T) /\ tail \in Seq(T)
        BY <1>5, <3>2, <4>1
      <4>3. Appended(T, cmds, tail, cmds', m, n)
        BY <2>3, <3>1, <4>2, PlacesBehind DEF Follows
      <4>4. \A i \in Behind(m, n) : i \in Int
        BY DEF Behind
      <4>5. QED
        BY <4>3, <4>4 DEF Appended
  <2>5. ASSUME NEW j \in Closing'
        PROVE  \/ j \in Closing /\ cmds'[j] = cmds[j]
               \/ j \in Behind(m, n)
    BY <1>1, <2>4 DEF Closing
  <2>6. ASSUME NEW j \in Behind(m, n)
        PROVE  /\ j - m \in DOMAIN legs /\ LegOf(j)' = legs[j - m]
               /\ Covered(j)' /\ \A i \in Closing : LegOf(i) # legs[j - m]
    <3>1. j - m \in DOMAIN legs /\ cmds'[j] = FlattenCommand(legs[j - m])
      BY <2>1, <2>4
    <3>2. PICK p : p = legs[j - m] /\ p \in UncoveredLegs
      BY <2>2, <3>1
    <3>3. PICK cmd : cmd = FlattenCommand(p) /\ cmds'[j] = cmd
      BY <3>1, <3>2
    <3>4. /\ cmd.type = "submit" /\ cmd.intent.kind = "market" /\ cmd.intent.pos = p
          /\ p \in DOMAIN inventory /\ cmd.intent.qty <= inventory[p].qty
          /\ \A i \in Closing : LegOf(i) # p
      BY <1>1, <3>2, <3>3, FlattenCloses
    <3>5. LegOf(j)' = p /\ Covered(j)'
      BY <1>1, <1>7, <3>3, <3>4 DEF LegOf, Covered
    <3>6. QED
      BY <3>1, <3>2, <3>4, <3>5
  <2>7. ASSUME NEW j \in Closing, cmds'[j] = cmds[j]
        PROVE  Covered(j)' /\ LegOf(j)' = LegOf(j)
    <3>1. Covered(j)
      BY <1>1 DEF ClosesOnce, Scheduling
    <3>2. QED
      BY <1>1, <1>7, <2>7, <3>1 DEF Covered, LegOf
  <2>8. ASSUME NEW i \in Closing', NEW j \in Closing', LegOf(i)' = LegOf(j)'
        PROVE  i = j
    <3>1. CASE i \in Closing /\ cmds'[i] = cmds[i] /\ j \in Closing /\ cmds'[j] = cmds[j]
      BY <1>1, <2>7, <2>8, <3>1 DEF ClosesOnce, Scheduling
    <3>2. CASE i \in Behind(m, n) /\ j \in Closing /\ cmds'[j] = cmds[j]
      BY <2>6, <2>7, <2>8, <3>2
    <3>3. CASE j \in Behind(m, n) /\ i \in Closing /\ cmds'[i] = cmds[i]
      BY <2>6, <2>7, <2>8, <3>3
    <3>4. CASE i \in Behind(m, n) /\ j \in Behind(m, n)
      <4>1. i - m = j - m
        BY <2>2, <2>6, <2>8, <3>4
      <4>2. QED
        BY <2>4, <3>4, <4>1
    <3>5. QED
      BY <2>5, <3>1, <3>2, <3>3, <3>4
  <2>9. \A j \in Closing' : Covered(j)'
    BY <2>5, <2>6, <2>7
  <2>10. QED
    BY <1>2, <2>8, <2>9 DEF ClosesOnce
<1>8. CASE pc' = "mint" /\ tail \in {<<Submit(i)>> : i \in OpenIntents}
  <2>1. PICK i \in OpenIntents : tail = <<Submit(i)>>
    BY <1>8
  <2>2. 1 \in DOMAIN tail /\ tail[1] = Submit(i)
    BY <2>1
  <2>3. ~ IsClose(tail[1])
    BY <2>2 DEF IsClose, Submit, OpenIntents
  <2>4. QED
    BY <1>3, <1>8, <2>2, <2>3
<1>9. QED
  BY <1>3, <1>4, <1>6, <1>7, <1>8

\* What a close trades is no more than it asks for.
LEMMA WalkAsked ==
  ASSUME SeamInv, Walking, WalkCount # 0
  PROVE  TotalQty(WalkRun) \in Nat /\ TotalQty(WalkRun) <= WalkIntent.qty
<1>1. PICK n, q, id : n = WalkCount /\ q = TotalQty(WalkRun) /\ id = IdOf(k)
  OBVIOUS
<1>2. /\ pc = "walk" /\ TypeInv /\ Registered /\ AtWalk
      /\ k \in Nat \ {0} /\ k \in DOMAIN cmds /\ IsSubmission(cmds[k])
      /\ cmds \in Seq(Commands)
  BY DEF Walking, AtWalk, SeamInv, FillInv, TypeInv, TypeOK, SeamTypeOK
<1>3. IsRunOf(outFills, cursor, n, id)
  BY <1>1, <1>2, WalkRunIs DEF Taken
<1>4. n > 0
  BY <1>1, <1>3 DEF IsRunOf
<1>5. q \in Nat \ {0} /\ q <= Owed(id)
  BY <1>1, <1>2, <1>3, <1>4, RunOwed DEF WalkRun
<1>6. WalkIntent.qty \in Nat
  <2>1. WalkIntent \in Intents
    BY <1>2, CommandParts DEF WalkIntent
  <2>2. QED
    BY <2>1, DomainAssumption DEF Intents, Quantities
<1>7. Owed(id) <= WalkIntent.qty
  <2>1. k \in Awaited
    BY <1>2 DEF Awaited
  <2>2. QED
    BY <1>1, <1>2, <2>1 DEF Registered, Agrees, WalkIntent
<1>8. Owed(id) \in Nat
  <2>1. outFills \in Seq(Fills) /\ cursor \in Nat
    BY <1>2, RowTypes
  <2>2. Unapplied \in SUBSET DOMAIN outFills
    BY <1>2, <2>1 DEF Unapplied
  <2>3. QED
    BY <2>1, <2>2, QtyNat DEF Owed
<1>9. QED
  BY <1>1, <1>5, <1>6, <1>7, <1>8

\* So no close is refused for its leg,
LEMMA ClosesPass ==
  ASSUME SeamInv, OpensRest, ClosesOnce, NoDoubleClose, [Next]_vars
  PROVE  NoDoubleClose'
<1>1. TypeInv
  BY DEF SeamInv, FillInv
<1>2. CASE CarryFails
  <2>1. CarryOrder \in DOMAIN pending => CarryEntry.intent.action # "close"
    BY DEF OpensRest, CarryEntry
  <2>2. CarryFault \notin {"close_not_open", "close_oversize"}
    BY <2>1 DEF CarryFault, ExtendFault
  <2>3. QED
    BY <1>2, <2>2 DEF CarryFails, AbortEngine, AbortSeam, NoDoubleClose
<1>3. CASE WalkFails
  <2>1. Walking
    BY <1>3 DEF WalkFails
  <2>2. WalkFault \notin {"close_not_open", "close_oversize"}
    <3>1. CASE WalkCount = 0 \/ WalkIntent.action # "close"
      BY <3>1 DEF WalkFault
    <3>2. CASE WalkCount # 0 /\ WalkIntent.action = "close"
      <4>1. PICK p, q : p = WalkIntent.pos /\ q = TotalQty(WalkRun)
        OBVIOUS
      <4>2. p \in DOMAIN inventory /\ WalkIntent.qty <= inventory[p].qty
            /\ WalkIntent.qty \in Nat
        <5>1. WalkIntent \in Intents
          BY <1>1, <2>1, WalkedClose
        <5>2. WalkIntent.qty \in Nat
          BY <5>1, DomainAssumption DEF Intents, Quantities
        <5>3. QED
          BY <1>1, <2>1, <3>2, <4>1, <5>2, WalkedClose
      <4>3. q \in Nat /\ q <= WalkIntent.qty
        BY <2>1, <3>2, <4>1, WalkAsked
      <4>4. inventory[p].qty \in Nat
        BY <1>1, <4>2, CloseSizes
      <4>5. ~ (q > inventory[p].qty)
        BY <4>2, <4>3, <4>4
      <4>6. CloseFault(p, q) \in {"log_desync", "none"}
        BY <4>2, <4>5 DEF CloseFault
      <4>7. QED
        BY <4>1, <4>6 DEF WalkFault
    <3>3. QED
      BY <3>1, <3>2
  <2>3. QED
    BY <1>3, <2>2 DEF WalkFails, AbortEngine, AbortSeam, NoDoubleClose
<1>4. CASE FillNext
  <2>1. error' \in {error, "refresh_desync", "live_desync", "self_cross", "under_cover", "unquoted"}
    <3>1. ASSUME NEW seq, NEW q, ReseedCross(seq, q)
          PROVE  error' \in {error, "refresh_desync", "live_desync"}
      BY <3>1 DEF ReseedCross, CaptureFault, AbortFill, AbortSeam
    <3>2. ASSUME NEW rests, ReseedNext(rests)
          PROVE  error' = error
      BY <3>2 DEF ReseedNext
    <3>3. ASSUME NEW levels, NEW rest, SubmitOne(levels, rest)
          PROVE  error' = error
      BY <3>3 DEF SubmitOne
    <3>4. CASE RefreshBooks \/ ReseedDone \/ LifecycleOne \/ LifecycleDone
      BY <3>4 DEF RefreshBooks, ReseedDone, LifecycleOne, LifecycleDone, AbortFill, AbortSeam
    <3>5. CASE SubmitFails \/ SubmitSelfCross \/ SubmitSkip \/ SubmitDone
      BY <3>5 DEF SubmitFails, SubmitFault, SubmitSelfCross, SubmitSkip, SubmitDone,
         AbortFill, AbortSeam
    <3>6. QED
      BY <1>4, <3>1, <3>2, <3>3, <3>4, <3>5 DEF FillNext
  <2>2. QED
    BY <2>1 DEF NoDoubleClose
<1>5. CASE EngineNext /\ ~ CarryFails /\ ~ WalkFails
  <2>1. CASE OnEnd \/ Validate \/ WalkDone \/ Settle \/ SettleExpired
    BY <2>1 DEF OnEnd, Validate, ValidateFault, WalkDone, Settle, SettleFault, SettleExpired,
       AbortEngine, AbortSeam, NoDoubleClose
  <2>2. CASE OnStart \/ Exits \/ OnSnapshot \/ MintIds \/ CarryDone \/ Advance
    BY <2>2 DEF OnStart, Exits, OnSnapshot, MintIds, CarryDone, Advance, NoDoubleClose
  <2>3. CASE CarryOpensLeg \/ CarryExtendsLeg \/ CarryClosesLeg
    BY <2>3 DEF CarryOpensLeg, CarryExtendsLeg, CarryClosesLeg, CarryNext, NoDoubleClose
  <2>4. CASE WalkCancel \/ WalkRestsOpen \/ WalkRestsClose \/ WalkOpens \/ WalkCloses
    BY <2>4 DEF WalkCancel, WalkRestsOpen, WalkRestsClose, WalkOpens, WalkCloses, WalkNext,
       NoDoubleClose
  <2>5. QED
    BY <1>5, <2>1, <2>2, <2>3, <2>4 DEF EngineNext
<1>6. CASE UNCHANGED vars
  BY <1>6 DEF vars, seamVars, NoDoubleClose
<1>7. QED
  BY <1>2, <1>3, <1>4, <1>5, <1>6 DEF Next

\* and every step keeps the closes of the step so.
LEMMA StepKeepsCloses ==
  ASSUME CloseKinds = {}, SeamInv, TypeInv', OpensRest, ClosesOnce, [Next]_vars
  PROVE  OpensRest' /\ ClosesOnce'
<1>1. TypeInv
  BY DEF SeamInv, FillInv
<1>2. CASE EngineNext
  <2>1. CASE OnStart \/ Exits \/ OnSnapshot \/ OnEnd
    BY <1>1, <2>1, StartKeepsCloses, ExitsKeepCloses, SnapshotKeepsCloses, EndKeepsCloses
  <2>2. CASE CarryOpensLeg \/ CarryExtendsLeg \/ CarryClosesLeg
    BY <2>2, CarryKeepsCloses
  <2>3. CASE WalkCancel \/ WalkRestsOpen \/ WalkRestsClose \/ WalkOpens \/ WalkCloses
    BY <2>3, WalkKeepsCloses
  <2>4. CASE \/ MintIds \/ Validate \/ CarryDone \/ WalkDone \/ Settle \/ SettleExpired
             \/ Advance \/ CarryFails \/ WalkFails
    BY <1>1, <2>4, OthersKeepCloses
  <2>5. QED
    BY <1>2, <2>1, <2>2, <2>3, <2>4 DEF EngineNext
<1>3. CASE (FillNext /\ UNCHANGED engineVars) \/ UNCHANGED vars
  BY <1>1, <1>3, OthersKeepCloses
<1>4. QED
  BY <1>2, <1>3 DEF Next

\* A strategy may leave every close to the exits and to close_all: in no step do the
\* two together, with what the command walk has applied by then, close a leg that is
\* gone or more of one than is held, so reduce_leg refuses none of their closes.
\* That is so of a strategy whose on_snapshot closes nothing, as that of each shipped
\* one; one that closes there may ask for what the exits have asked already.
THEOREM ClosedOnce ==
  ASSUME CloseKinds = {}
  PROVE  Spec => []NoDoubleClose
<1>1. Init => SeamInv /\ OpensRest /\ ClosesOnce /\ NoDoubleClose
  BY InitSeam DEF Init, SeamInit, EngineInit, OpensRest, ClosesOnce, Scheduling, Calling,
     NoDoubleClose
<1>2. SeamInv /\ OpensRest /\ ClosesOnce /\ NoDoubleClose /\ [Next]_vars
        => (SeamInv /\ OpensRest /\ ClosesOnce /\ NoDoubleClose)'
  <2> SUFFICES ASSUME SeamInv, OpensRest, ClosesOnce, NoDoubleClose, [Next]_vars
               PROVE  SeamInv' /\ OpensRest' /\ ClosesOnce' /\ NoDoubleClose'
    OBVIOUS
  <2>1. SeamInv'
    BY StepKeepsSeam
  <2>2. TypeInv'
    BY <2>1 DEF SeamInv, FillInv
  <2>3. QED
    BY <2>1, <2>2, StepKeepsCloses, ClosesPass
<1>3. QED
  BY <1>1, <1>2, PTL DEF Spec
=============================================================================
