----------------------------- MODULE LedgerProofs -----------------------------
(***************************************************************************)
(* The money of a run, for every value of the constants: the amounts and   *)
(* tables the ledger keeps have their types (TypeOK), the equity curve,    *)
(* the trade log and the position rows agree (BooksReconcile), every cent  *)
(* of a step's P&L is a move of the mid under what was held or friction of *)
(* its fills (PnlExplained), and the attribution of a step is that of the  *)
(* tape and the position rows and closes its P&L (TermsCoverHoldings).     *)
(*                                                                         *)
(* None of them is inductive: each is about tables that are written once a *)
(* step, from amounts that move fill by fill.  LedgerInv says what those   *)
(* amounts are between two settlements.  Balanced: the cash, the legs at   *)
(* the present mids and the friction of the step so far make up the equity *)
(* of the step before, what the legs it began with have gained since and   *)
(* the drift of orders that had been resting; every order keeps it, a snap-*)
(* shot brings it about and a settlement reads the step's P&L off it.      *)
(* Explained: the cash spent is the stake in the open legs and what the    *)
(* closes realised, up to half a cent for each contract of an average.     *)
(* Marked: the retained mids and Greeks of a leg are those of its last     *)
(* quote on the tape.  Recorded and Sampled: the rows and the leg samples  *)
(* of each step, which the flat buffer holds in the order of the steps.    *)
(* Booked, Rests and Carries are what the matching of an order and the     *)
(* drift of a carried one need: ladders are sorted, and the order that     *)
(* rests is for a contract quoted when it was submitted.                   *)
(*                                                                         *)
(* The proof goes order by order: what the fills of one order add up to    *)
(* (OrderSums, OrderEffects), what its leg changes (HeldAppend, HeldChanged,*)
(* HeldWithout), and from the two that Balanced and Explained still hold   *)
(* (OrderBalanced, OrderExplained, OrderTold).                             *)
(*                                                                         *)
(* The session that drives the ledger follows, with an invariant of its    *)
(* own: a strategy enters with the legs of its spec (EntryIsSpec), closes  *)
(* what its policy triggers for and nothing else (ExitsJustified), and     *)
(* finishes with no leg open (OnEndFlattens).  SessionInv says what the    *)
(* stage knows of the ledger (Phased), that a position id is the number of *)
(* the order that opened it (Numbered), that a retained mark is the last   *)
(* mid on the tape (MarksHold), which fills opened the legs (Enters), and  *)
(* that what is left of the queue of a step closes different legs in full, *)
(* those of the exits first (Queued).                                      *)
(***************************************************************************)
EXTENDS Session, Sums, FunctionTheorems, SequenceTheorems

-----------------------------------------------------------------------------
(* Sums of sequences of amounts.                                           *)

\* Sum is the fold of Sums.
LEMMA SumIs ==
  ASSUME NEW s
  PROVE  Sum(s) = SumFunctionOnSet(s, DOMAIN s)
BY DEF Sum, SumFunctionOnSet, FoldFunction

LEMMA NoSum ==
  ASSUME NEW s, DOMAIN s = {}
  PROVE  Sum(s) = 0
BY SumIs, SumEmpty

LEMMA SumType ==
  ASSUME NEW z \in Nat, NEW s \in [1..z -> Int]
  PROVE  Sum(s) \in Int
<1>1. DOMAIN s = 1..z /\ IsFiniteSet(1..z) /\ Numbers(s, 1..z)
  BY FS_Interval DEF Numbers
<1>2. QED
  BY <1>1, SumIs, SumInt

\* An interval and its last element.
LEMMA LastOf ==
  ASSUME NEW m \in Nat
  PROVE  /\ IsFiniteSet(1..m) /\ m + 1 \notin 1..m /\ m + 1 \in 1..(m + 1)
         /\ 1..(m + 1) = (1..m) \cup {m + 1}
<1>1. m + 1 \notin 1..m /\ m + 1 \in 1..(m + 1)
  OBVIOUS
<1>2. 1..(m + 1) = (1..m) \cup {m + 1}
  OBVIOUS
<1>3. IsFiniteSet(1..m)
  BY FS_Interval
<1>4. QED
  BY <1>1, <1>2, <1>3

\* One amount more.
LEMMA SumGrow ==
  ASSUME NEW z \in Nat, NEW s \in [1..z -> Int], NEW t \in [1..(z + 1) -> Int],
         \A i \in 1..z : t[i] = s[i]
  PROVE  Sum(t) = Sum(s) + t[z + 1]
<1>1. PICK A : A = 1..z
  OBVIOUS
<1>2. IsFiniteSet(A) /\ z + 1 \notin A /\ 1..(z + 1) = A \cup {z + 1}
  BY <1>1, LastOf
<1>3. Numbers(s, A) /\ Numbers(t, A) /\ Numbers(t, A \cup {z + 1})
  BY <1>1, <1>2 DEF Numbers
<1>4. SumFunctionOnSet(t, A \cup {z + 1}) = SumFunctionOnSet(t, A) + t[z + 1]
  BY <1>2, <1>3, SumAdd
<1>5. SumFunctionOnSet(s, A) = SumFunctionOnSet(t, A)
  BY <1>1, <1>2, <1>3, SumSame
<1>6. Sum(s) = SumFunctionOnSet(s, A) /\ Sum(t) = SumFunctionOnSet(t, A \cup {z + 1})
  BY <1>1, <1>2, SumIs
<1>7. QED
  BY <1>4, <1>5, <1>6

\* One amount changed.
LEMMA SumPoint ==
  ASSUME NEW z \in Nat, NEW s \in [1..z -> Int], NEW t \in [1..z -> Int], NEW j \in 1..z,
         \A i \in 1..z : i # j => t[i] = s[i]
  PROVE  Sum(t) = Sum(s) - s[j] + t[j]
<1>1. PICK A : A = 1..z
  OBVIOUS
<1>2. IsFiniteSet(A) /\ IsFiniteSet(A \ {j})
  BY <1>1, FS_Interval, FS_Subset
<1>3. Numbers(s, A) /\ Numbers(t, A) /\ Numbers(s, A \ {j}) /\ Numbers(t, A \ {j})
  BY <1>1 DEF Numbers
<1>4. /\ SumFunctionOnSet(s, A) = s[j] + SumFunctionOnSet(s, A \ {j})
      /\ SumFunctionOnSet(t, A) = t[j] + SumFunctionOnSet(t, A \ {j})
  <2>1. j \in A
    BY <1>1
  <2>2. SumFunctionOnSet(s, A) = s[j] + SumFunctionOnSet(s, A \ {j})
    BY <1>2, <1>3, <2>1, SumRemove
  <2>3. SumFunctionOnSet(t, A) = t[j] + SumFunctionOnSet(t, A \ {j})
    BY <1>2, <1>3, <2>1, SumRemove
  <2>4. QED
    BY <2>2, <2>3
<1>5. SumFunctionOnSet(s, A \ {j}) = SumFunctionOnSet(t, A \ {j})
  BY <1>1, <1>2, <1>3, SumSame
<1>6. SumFunctionOnSet(s, A \ {j}) \in Int
  BY <1>2, <1>3, SumInt
<1>7. Sum(s) = SumFunctionOnSet(s, A) /\ Sum(t) = SumFunctionOnSet(t, A)
  BY <1>1, SumIs
<1>8. s[j] \in Int /\ t[j] \in Int
  OBVIOUS
<1>9. QED
  BY <1>4, <1>5, <1>6, <1>7, <1>8

\* One amount dropped, the later ones move up.
LEMMA SumDrop ==
  ASSUME NEW z \in Nat, NEW s \in [1..(z + 1) -> Int], NEW t \in [1..z -> Int],
         NEW j \in 1..(z + 1),
         \A i \in 1..z : t[i] = IF i < j THEN s[i] ELSE s[i + 1]
  PROVE  Sum(t) = Sum(s) - s[j]
<1> DEFINE To(m) == SumFunctionOnSet(t, 1..m)
           From(m) == SumFunctionOnSet(s, 1..m)
           P == {d \in Nat : j + d <= z + 1 => To((j - 1) + d) = From(j + d) - s[j]}
<1>1. ASSUME NEW m \in Nat, m + 1 <= z + 1
      PROVE  From(m + 1) = From(m) + s[m + 1] /\ From(m) \in Int
  <2>1. PICK A : A = 1..m
    OBVIOUS
  <2>2. IsFiniteSet(A) /\ m + 1 \notin A /\ 1..(m + 1) = A \cup {m + 1}
    BY <2>1, LastOf
  <2>3. Numbers(s, A \cup {m + 1}) /\ Numbers(s, A)
    BY <1>1, <2>1 DEF Numbers
  <2>4. SumFunctionOnSet(s, A \cup {m + 1}) = SumFunctionOnSet(s, A) + s[m + 1]
    <3>1. IsFiniteSet(A) /\ m + 1 \notin A /\ Numbers(s, A \cup {m + 1})
      BY <2>2, <2>3
    <3>2. QED
      BY <3>1, SumAdd
  <2>5. SumFunctionOnSet(s, A) \in Int
    BY <2>2, <2>3, SumInt
  <2>6. QED
    BY <2>1, <2>2, <2>4, <2>5
<1>2. ASSUME NEW m \in Nat, m + 1 <= z PROVE To(m + 1) = To(m) + t[m + 1]
  <2>1. PICK A : A = 1..m
    OBVIOUS
  <2>2. IsFiniteSet(A) /\ m + 1 \notin A /\ 1..(m + 1) = A \cup {m + 1}
    BY <2>1, LastOf
  <2>3. Numbers(t, A \cup {m + 1})
    BY <1>2, <2>1 DEF Numbers
  <2>4. SumFunctionOnSet(t, A \cup {m + 1}) = SumFunctionOnSet(t, A) + t[m + 1]
    BY <2>2, <2>3, SumAdd
  <2>5. QED
    BY <2>1, <2>2, <2>4
<1>3. 0 \in P
  <2>1. j - 1 \in Nat /\ (j - 1) + 1 = j /\ (j - 1) + 0 = j - 1 /\ j + 0 = j
    OBVIOUS
  <2>2. Numbers(t, 1..(j - 1)) /\ \A i \in 1..(j - 1) : t[i] = s[i]
    BY DEF Numbers
  <2>3. To(j - 1) = From(j - 1)
    <3>1. PICK A : A = 1..(j - 1)
      OBVIOUS
    <3>2. IsFiniteSet(A)
      BY <2>1, <3>1, LastOf
    <3>3. QED
      BY <2>2, <3>1, <3>2, SumSame
  <2>4. From(j) = From(j - 1) + s[j] /\ From(j - 1) \in Int
    BY <1>1, <2>1
  <2>5. s[j] \in Int
    OBVIOUS
  <2> HIDE DEF To, From
  <2>6. To((j - 1) + 0) = From(j + 0) - s[j]
    BY <2>1, <2>3, <2>4, <2>5
  <2>7. QED
    BY <2>6
<1>4. ASSUME NEW d \in Nat, d \in P PROVE d + 1 \in P
  <2> SUFFICES ASSUME j + (d + 1) <= z + 1
               PROVE  To((j - 1) + (d + 1)) = From(j + (d + 1)) - s[j]
    OBVIOUS
  <2>1. /\ (j - 1) + d \in Nat /\ ((j - 1) + d) + 1 = (j - 1) + (d + 1) /\ ((j - 1) + d) + 1 <= z
        /\ j + d \in Nat /\ (j + d) + 1 = j + (d + 1)
        /\ ((j - 1) + d) + 1 = j + d
    OBVIOUS
  <2>2. To((j - 1) + (d + 1)) = To((j - 1) + d) + t[j + d]
    BY <1>2, <2>1
  <2>3. From(j + (d + 1)) = From(j + d) + s[(j + d) + 1] /\ From(j + d) \in Int
    BY <1>1, <2>1
  <2>4. t[j + d] = s[(j + d) + 1] /\ s[(j + d) + 1] \in Int /\ s[j] \in Int
    BY <2>1
  <2>5. To((j - 1) + d) = From(j + d) - s[j]
    BY <1>4, <2>1
  <2> HIDE DEF To, From
  <2>6. QED
    BY <2>2, <2>3, <2>4, <2>5
<1> HIDE DEF P
<1>5. Nat \subseteq P
  BY <1>3, <1>4, SetInduction
<1>6. (z + 1) - j \in Nat /\ (z + 1) - j \in P /\ (j - 1) + ((z + 1) - j) = z /\ j + ((z + 1) - j) = z + 1
  BY <1>5
<1>7. To(z) = From(z + 1) - s[j]
  <2> HIDE DEF To, From
  <2>1. QED
    BY <1>6 DEF P
<1>8. Sum(s) = From(z + 1) /\ Sum(t) = To(z)
  BY SumIs
<1>9. QED
  BY <1>7, <1>8

\* Sums are linear.
LEMMA SumOfBoth ==
  ASSUME NEW z \in Nat, NEW s \in [1..z -> Int], NEW t \in [1..z -> Int],
         NEW u, DOMAIN u = 1..z, \A i \in 1..z : u[i] = s[i] + t[i]
  PROVE  Sum(u) = Sum(s) + Sum(t)
<1>1. PICK A : A = 1..z
  OBVIOUS
<1>2. IsFiniteSet(A) /\ Numbers(s, A) /\ Numbers(t, A) /\ \A x \in A : u[x] = s[x] + t[x]
  BY <1>1, LastOf DEF Numbers
<1>3. SumFunctionOnSet(u, A) = SumFunctionOnSet(s, A) + SumFunctionOnSet(t, A)
  BY <1>2, SumBoth
<1>4. QED
  BY <1>1, <1>3, SumIs

\* Amounts that are the sums of two others, place by place, and what they add up to.
AddUp(u, s, t, z) ==
  /\ s \in [1..z -> Int] /\ t \in [1..z -> Int]
  /\ DOMAIN u = 1..z /\ \A i \in 1..z : u[i] = s[i] + t[i]

\* SumOfBoth, of the named condition.
LEMMA SumAddsUp ==
  ASSUME NEW z \in Nat, NEW u, NEW s, NEW t, AddUp(u, s, t, z)
  PROVE  Sum(u) = Sum(s) + Sum(t)
BY SumOfBoth DEF AddUp

LEMMA SumScaled ==
  ASSUME NEW z \in Nat, NEW s \in [1..z -> Int], NEW a \in Int,
         NEW u, DOMAIN u = 1..z, \A i \in 1..z : u[i] = a * s[i]
  PROVE  Sum(u) = a * Sum(s)
<1>1. PICK A : A = 1..z
  OBVIOUS
<1>2. IsFiniteSet(A) /\ Numbers(s, A) /\ \A x \in A : u[x] = a * s[x]
  BY <1>1, LastOf DEF Numbers
<1>3. SumFunctionOnSet(u, A) = a * SumFunctionOnSet(s, A)
  BY <1>2, SumTimes
<1>4. QED
  BY <1>1, <1>3, SumIs

\* Natural amounts.
LEMMA SumOfNats ==
  ASSUME NEW z \in Nat, NEW s \in [1..z -> Nat]
  PROVE  /\ Sum(s) \in Nat /\ \A i \in 1..z : s[i] <= Sum(s)
         /\ (z > 0 /\ \A i \in 1..z : s[i] > 0) => Sum(s) > 0
<1>0. PICK A : A = 1..z
  OBVIOUS
<1>1. IsFiniteSet(A) /\ (\A i \in A : s[i] \in Nat) /\ Sum(s) = SumFunctionOnSet(s, A)
  BY <1>0, LastOf, SumIs
<1>2. Sum(s) \in Nat
  BY <1>1, SumNat
<1>3. ASSUME NEW i \in 1..z PROVE s[i] <= Sum(s)
  <2>1. i \in A /\ A \in SUBSET A
    BY <1>0
  <2>2. \A x \in A : s[x] <= SumFunctionOnSet(s, A)
    BY <1>1, <2>1, SumPart
  <2>3. QED
    BY <1>1, <2>1, <2>2
<1>4. ASSUME z > 0, \A i \in 1..z : s[i] > 0 PROVE Sum(s) > 0
  BY <1>2, <1>3, <1>4
<1>5. QED
  BY <1>2, <1>3, <1>4

-----------------------------------------------------------------------------
(* Rounding.                                                               *)

\* Division of integers.
LEMMA Division ==
  ASSUME NEW a \in Int, NEW b \in Nat \ {0}
  PROVE  /\ a \div b \in Int
         /\ a - (a \div b) * b \in 0..(b - 1)
<1>1. a \div b \in Int
  OBVIOUS
<1>2. a - (a \div b) * b \in 0..(b - 1)
  OBVIOUS
<1>3. QED
  BY <1>1, <1>2

LEMMA RoundType ==
  ASSUME NEW a \in Int, NEW b \in Int, b > 0
  PROVE  RoundHalfEven(a, b) \in Int
BY DEF RoundHalfEven

\* An average is off by half a cent per contract, and exact when there is
\* nothing to round.
LEMMA AverageError ==
  ASSUME NEW paid \in Int, NEW total \in Nat \ {0}
  PROVE  /\ VwapCents(paid, total) \in Int
         /\ 2 * (VwapCents(paid, total) * total - paid) \in -total..total
<1> DEFINE q == paid \div total
           r == paid - q * total
<1>1. q \in Int /\ r \in 0..(total - 1) /\ paid = q * total + r
  BY Division
<1> HIDE DEF q, r
<1>2. (q + 1) * total = q * total + total
  BY <1>1
<1>3. PICK z \in Int : z = q * total
  BY <1>1
<1>4. CASE VwapCents(paid, total) = q /\ 2 * r <= total
  BY <1>1, <1>3, <1>4
<1>5. CASE VwapCents(paid, total) = q + 1 /\ 2 * r >= total
  BY <1>1, <1>2, <1>3, <1>5
<1>6. QED
  BY <1>1, <1>4, <1>5 DEF VwapCents, q, r

LEMMA AverageExact ==
  ASSUME NEW price \in Int, NEW total \in Nat \ {0}
  PROVE  VwapCents(price * total, total) = price
<1> DEFINE paid == price * total
           q == paid \div total
           r == paid - q * total
<1>0. paid \in Int
  OBVIOUS
<1>1. q \in Int /\ r \in 0..(total - 1) /\ paid = q * total + r
  <2> HIDE DEF paid
  <2>1. QED
    BY <1>0, Division
<1> HIDE DEF q, r
<1>2. (price - q) * total = r
  BY <1>1
<1>3. price = q /\ r = 0
  <2>1. \A x \in Int : /\ x >= 1 => x * total >= total
                       /\ x <= -1 => x * total <= -total
    OBVIOUS
  <2>2. price - q \in Int /\ price - q = 0
    BY <1>1, <1>2, <2>1
  <2>3. QED
    BY <1>1, <1>2, <2>2
<1>4. VwapCents(paid, total) = q
  BY <1>3 DEF VwapCents, q, r
<1>5. QED
  BY <1>3, <1>4

-----------------------------------------------------------------------------
(* The fills of an order.                                                  *)

Sides == {"Long", "Short"}
FillRecords == [side : Sides, qty : Nat \ {0}, price : Int, fees : Nat, slippage : Int]

\* They are on its side, each measured against the mid it was decided at.
IsOrder(lot, side, mid) ==
  /\ lot \in Seq(FillRecords)
  /\ \A i \in DOMAIN lot :
       /\ lot[i].side = side
       /\ lot[i].slippage = SlippageCents(lot[i].price, mid, lot[i].qty, side)

QtyOf(lot)  == Sum([i \in DOMAIN lot |-> lot[i].qty])
PaidOf(lot) == Sum([i \in DOMAIN lot |-> lot[i].price * lot[i].qty])
FeesOf(lot) == Sum([i \in DOMAIN lot |-> lot[i].fees])
SlipOf(lot) == Sum([i \in DOMAIN lot |-> lot[i].slippage])

LEMMA SignType ==
  ASSUME NEW side \in Sides
  PROVE  /\ SideSign(side) \in {1, -1}
         /\ Opposite(side) \in Sides /\ SideSign(Opposite(side)) = -SideSign(side)
BY DEF SideSign, Sides, Opposite

LEMMA AggregateIs ==
  ASSUME NEW lot
  PROVE  /\ AggregateFills(lot).qty = QtyOf(lot)
         /\ AggregateFills(lot).price = VwapCents(PaidOf(lot), QtyOf(lot))
         /\ AggregateFills(lot).fees = FeesOf(lot)
BY DEF AggregateFills, MapSeq, QtyOf, PaidOf, FeesOf

LEMMA OrderTypes ==
  ASSUME NEW side, NEW mid \in Int, NEW lot, IsOrder(lot, side, mid)
  PROVE  /\ Len(lot) \in Nat /\ DOMAIN lot = 1..Len(lot)
         /\ QtyOf(lot) \in Nat /\ PaidOf(lot) \in Int /\ FeesOf(lot) \in Nat
         /\ SlipOf(lot) \in Int
         /\ lot # <<>> => QtyOf(lot) > 0
         /\ \A i \in DOMAIN lot : /\ lot[i].qty \in Nat \ {0} /\ lot[i].price \in Int
                                    /\ lot[i].fees \in Nat /\ lot[i].slippage \in Int
<1>1. lot \in Seq(FillRecords)
  BY DEF IsOrder
<1>2. Len(lot) \in Nat /\ DOMAIN lot = 1..Len(lot) /\ (lot # <<>> => Len(lot) > 0)
  BY <1>1
<1>3. ASSUME NEW i \in DOMAIN lot
      PROVE  /\ lot[i].qty \in Nat \ {0} /\ lot[i].price \in Int
             /\ lot[i].fees \in Nat /\ lot[i].slippage \in Int
             /\ lot[i].price * lot[i].qty \in Int
  <2>1. lot[i] \in FillRecords
    BY <1>1, <1>3
  <2>2. /\ lot[i].qty \in Nat \ {0} /\ lot[i].price \in Int
        /\ lot[i].fees \in Nat /\ lot[i].slippage \in Int
    BY <2>1 DEF FillRecords
  <2>3. QED
    BY <2>2
<1>4. PICK z \in Nat : z = Len(lot)
  BY <1>2
<1>5. /\ [i \in DOMAIN lot |-> lot[i].qty] \in [1..z -> Nat]
      /\ [i \in DOMAIN lot |-> lot[i].fees] \in [1..z -> Nat]
      /\ [i \in DOMAIN lot |-> lot[i].price * lot[i].qty] \in [1..z -> Int]
      /\ [i \in DOMAIN lot |-> lot[i].slippage] \in [1..z -> Int]
  BY <1>2, <1>3, <1>4
<1>6. QtyOf(lot) \in Nat /\ FeesOf(lot) \in Nat
  BY <1>5, SumOfNats DEF QtyOf, FeesOf
<1>7. PaidOf(lot) \in Int /\ SlipOf(lot) \in Int
  BY <1>5, SumType DEF PaidOf, SlipOf
<1>8. ASSUME lot # <<>> PROVE QtyOf(lot) > 0
  <2>1. z > 0 /\ \A i \in 1..z : [j \in DOMAIN lot |-> lot[j].qty][i] > 0
    BY <1>2, <1>3, <1>4, <1>8
  <2>2. QED
    BY <1>5, <2>1, SumOfNats DEF QtyOf
<1>9. QED
  BY <1>2, <1>3, <1>6, <1>7, <1>8

\* What they cost, in cash and in slippage.
LEMMA OrderSums ==
  ASSUME NEW side \in Sides, NEW mid \in Int, NEW lot, IsOrder(lot, side, mid)
  PROVE  /\ SlipOf(lot) = (PaidOf(lot) - mid * QtyOf(lot)) * SideSign(side)
         /\ Sum(MapSeq(NetFlow, lot))
              = -(PaidOf(lot) * (Multiplier * SideSign(side))) - FeesOf(lot)
         /\ Sum(MapSeq(ScaledSlippage, lot)) = Multiplier * SlipOf(lot)
<1> DEFINE paid == [i \in DOMAIN lot |-> lot[i].price * lot[i].qty]
           qtys == [i \in DOMAIN lot |-> lot[i].qty]
           fees == [i \in DOMAIN lot |-> lot[i].fees]
           slips == [i \in DOMAIN lot |-> lot[i].slippage]
           sign == SideSign(side)
<1>1. PICK z \in Nat : z = Len(lot) /\ DOMAIN lot = 1..z
  BY OrderTypes
<1>2. \A i \in 1..z : /\ lot[i].qty \in Nat \ {0} /\ lot[i].price \in Int
                      /\ lot[i].fees \in Nat /\ lot[i].slippage \in Int
                      /\ lot[i].price * lot[i].qty \in Int
  BY <1>1, OrderTypes
<1>3. /\ paid \in [1..z -> Int] /\ qtys \in [1..z -> Int] /\ fees \in [1..z -> Int]
      /\ slips \in [1..z -> Int]
  BY <1>1, <1>2
<1>4. sign \in Int /\ Multiplier \in Nat /\ Multiplier * sign \in Int
  <2>1. sign \in {1, -1}
    BY SignType
  <2>2. Multiplier \in Nat
    BY LedgerAssumption
  <2>3. QED
    BY <2>1, <2>2
<1>5. SlipOf(lot) = (PaidOf(lot) - mid * QtyOf(lot)) * sign
  <2> DEFINE base == [i \in 1..z |-> (-mid) * qtys[i]]
             gap == [i \in 1..z |-> paid[i] + base[i]]
  <2>1. base \in [1..z -> Int] /\ -mid \in Int
    BY <1>3
  <2>2. Sum(base) = (-mid) * Sum(qtys)
    <3>1. DOMAIN base = 1..z /\ \A i \in 1..z : base[i] = (-mid) * qtys[i]
      OBVIOUS
    <3> HIDE DEF base, qtys
    <3>2. QED
      BY <1>3, <2>1, <3>1, SumScaled
  <2>3. gap \in [1..z -> Int]
    BY <1>3, <2>1
  <2>4. Sum(gap) = Sum(paid) + Sum(base)
    <3>1. DOMAIN gap = 1..z /\ \A i \in 1..z : gap[i] = paid[i] + base[i]
      OBVIOUS
    <3> HIDE DEF base, paid, gap
    <3>2. QED
      BY <1>3, <2>1, <3>1, SumOfBoth
  <2>5. \A i \in 1..z : slips[i] = sign * gap[i]
    <3>1. SUFFICES ASSUME NEW i \in 1..z PROVE slips[i] = sign * gap[i]
      OBVIOUS
    <3>2. slips[i] = (lot[i].price - mid) * lot[i].qty * sign
      BY <1>1 DEF IsOrder, SlippageCents
    <3>3. gap[i] = lot[i].price * lot[i].qty + (-mid) * lot[i].qty
      BY <1>1
    <3>4. PICK a, b \in Int : a = lot[i].price /\ b = lot[i].qty
      BY <1>2
    <3>5. (a - mid) * b * sign = sign * (a * b + (-mid) * b)
      BY <1>4, <3>4
    <3>6. QED
      BY <3>2, <3>3, <3>4, <3>5
  <2>6. Sum(slips) = sign * Sum(gap)
    <3>1. DOMAIN slips = 1..z
      BY <1>1
    <3> HIDE DEF slips, gap
    <3>2. QED
      BY <1>4, <2>3, <2>5, <3>1, SumScaled
  <2>7. Sum(paid) \in Int /\ Sum(qtys) \in Int
    BY <1>3, SumType
  <2>8. \A x, y, t \in Int : t * (x + (-mid) * y) = (x - mid * y) * t
    OBVIOUS
  <2> HIDE DEF base, gap, slips, paid, qtys
  <2>9. Sum(slips) = (Sum(paid) - mid * Sum(qtys)) * sign
    BY <1>4, <2>2, <2>4, <2>6, <2>7, <2>8
  <2>10. QED
    BY <2>9 DEF SlipOf, PaidOf, QtyOf, slips, paid, qtys
<1>6. Sum(MapSeq(NetFlow, lot)) = -(PaidOf(lot) * (Multiplier * sign)) - FeesOf(lot)
  <2> DEFINE flow == MapSeq(NetFlow, lot)
             gross == [i \in 1..z |-> (-(Multiplier * sign)) * paid[i]]
             cost == [i \in 1..z |-> (-1) * fees[i]]
  <2>1. /\ gross \in [1..z -> Int] /\ cost \in [1..z -> Int]
        /\ -(Multiplier * sign) \in Int /\ -1 \in Int
    BY <1>3, <1>4
  <2>2. Sum(gross) = (-(Multiplier * sign)) * Sum(paid)
    <3>1. DOMAIN gross = 1..z /\ \A i \in 1..z : gross[i] = (-(Multiplier * sign)) * paid[i]
      OBVIOUS
    <3> HIDE DEF gross, paid
    <3>2. QED
      BY <1>3, <2>1, <3>1, SumScaled
  <2>3. Sum(cost) = (-1) * Sum(fees)
    <3>1. DOMAIN cost = 1..z /\ \A i \in 1..z : cost[i] = (-1) * fees[i]
      OBVIOUS
    <3> HIDE DEF cost, fees
    <3>2. QED
      BY <1>3, <2>1, <3>1, SumScaled
  <2>4. DOMAIN flow = 1..z /\ \A i \in 1..z : flow[i] = gross[i] + cost[i]
    <3>1. DOMAIN flow = 1..z
      BY <1>1 DEF MapSeq
    <3>2. SUFFICES ASSUME NEW i \in 1..z PROVE flow[i] = gross[i] + cost[i]
      BY <3>1
    <3>3. flow[i] = -(lot[i].price * lot[i].qty * Multiplier * sign) - lot[i].fees
      BY <1>1 DEF MapSeq, NetFlow, Notional, IsOrder
    <3>4. /\ gross[i] = (-(Multiplier * sign)) * (lot[i].price * lot[i].qty)
          /\ cost[i] = (-1) * lot[i].fees
      BY <1>1
    <3>5. PICK a, b, c \in Int : a = lot[i].price /\ b = lot[i].qty /\ c = lot[i].fees
      BY <1>2
    <3>6. -(a * b * Multiplier * sign) - c = (-(Multiplier * sign)) * (a * b) + (-1) * c
      BY <1>4, <3>5
    <3>7. QED
      BY <3>3, <3>4, <3>5, <3>6
  <2>5. Sum(flow) = Sum(gross) + Sum(cost)
    <3> HIDE DEF flow, gross, cost
    <3>1. QED
      BY <2>1, <2>4, SumOfBoth
  <2>6. Sum(paid) \in Int /\ Sum(fees) \in Int
    BY <1>3, SumType
  <2> HIDE DEF flow, gross, cost, paid, fees
  <2>7. \A x, y, t \in Int : (-t) * x + (-1) * y = -(x * t) - y
    OBVIOUS
  <2>8. Sum(flow) = -(Sum(paid) * (Multiplier * sign)) - Sum(fees)
    BY <1>4, <2>2, <2>3, <2>5, <2>6, <2>7
  <2>9. QED
    BY <2>8 DEF PaidOf, FeesOf, paid, fees, flow
<1>7. Sum(MapSeq(ScaledSlippage, lot)) = Multiplier * SlipOf(lot)
  <2> DEFINE scaled == MapSeq(ScaledSlippage, lot)
  <2>1. DOMAIN scaled = 1..z
    BY <1>1 DEF MapSeq
  <2>2. \A i \in 1..z : scaled[i] = Multiplier * slips[i]
    BY <1>1, <1>2, <1>4 DEF MapSeq, ScaledSlippage
  <2>3. Sum(scaled) = Multiplier * Sum(slips)
    <3>1. Multiplier \in Int
      BY <1>4
    <3> HIDE DEF scaled, slips
    <3>2. QED
      BY <1>3, <2>1, <2>2, <3>1, SumScaled
  <2>4. QED
    BY <2>3 DEF SlipOf, slips, scaled
<1>8. QED
  BY <1>5, <1>6, <1>7

-----------------------------------------------------------------------------
(* Books.                                                                  *)

\* A set of positions with every position before one of its own.
LEMMA InitialSegment ==
  ASSUME NEW z \in Nat, NEW S \in SUBSET (1..z), \A i \in S : \A j \in 1..i : j \in S
  PROVE  \E m \in 0..z : S = 1..m /\ Cardinality(S) = m
<1> DEFINE N == {m \in Nat : 1..m \subseteq S}
<1>1. 0 \in N
  <2>1. 1..0 = {}
    OBVIOUS
  <2>2. QED
    BY <2>1
<1>2. z + 1 \notin N
  <2>1. z + 1 \in 1..(z + 1) /\ z + 1 \notin 1..z
    OBVIOUS
  <2>2. QED
    BY <2>1
<1>3. PICK m \in Nat : m \in N /\ m + 1 \notin N
  <2>1. CASE \A m \in Nat : m \in N => m + 1 \in N
    <3> HIDE DEF N
    <3>1. Nat \subseteq N
      BY <1>1, <2>1, SetInduction
    <3>2. QED
      BY <1>2, <3>1
  <2>2. QED
    BY <2>1
<1>4. m + 1 \notin S
  BY <1>3
<1>5. \A i \in S : i \in 1..m
  <2>1. SUFFICES ASSUME NEW i \in S, i > m PROVE FALSE
    OBVIOUS
  <2>2. i \in Nat /\ m + 1 \in 1..i
    BY <2>1
  <2>3. QED
    BY <1>4, <2>2
<1>6. S = 1..m
  BY <1>3, <1>5
<1>7. Cardinality(1..m) = m
  BY FS_Interval
<1>8. m <= z
  <2>1. CASE m = 0
    BY <2>1
  <2>2. CASE m > 0
    <3>1. m \in S
      BY <1>6, <2>2
    <3>2. QED
      BY <3>1
  <2>3. QED
    BY <2>1, <2>2
<1>9. QED
  BY <1>6, <1>7, <1>8

\* One side of a book, as an order of this side meets it: best first.
IsDepth(book, side) ==
  /\ book \in Seq(Int \X (Nat \ {0}))
  /\ \A i, j \in DOMAIN book :
       i < j => IF side = "Long" THEN book[i][1] <= book[j][1] ELSE book[j][1] <= book[i][1]

LEMMA BookLength ==
  ASSUME NEW side, NEW book, IsDepth(book, side)
  PROVE  Len(book) \in Nat /\ DOMAIN book = 1..Len(book)
<1>1. book \in Seq(Int \X (Nat \ {0}))
  BY DEF IsDepth
<1>2. QED
  BY <1>1

\* The size ahead of a level.
Before(book, i) == Sum([j \in 1..(i - 1) |-> book[j][2]])

LEMMA BeforeGrows ==
  ASSUME NEW side, NEW book, IsDepth(book, side), NEW i \in DOMAIN book
  PROVE  /\ Before(book, i) \in Nat
         /\ Before(book, i + 1) = Before(book, i) + book[i][2]
         /\ Before(book, 1) = 0
         /\ book[i][1] \in Int /\ book[i][2] \in Nat \ {0}
<1>1. Len(book) \in Nat /\ DOMAIN book = 1..Len(book) /\ i \in Nat /\ i <= Len(book) /\ i >= 1
  BY DEF IsDepth
<1>2. \A j \in DOMAIN book : book[j][2] \in Nat \ {0} /\ book[j][1] \in Int
  <2>1. SUFFICES ASSUME NEW j \in DOMAIN book PROVE book[j][2] \in Nat \ {0} /\ book[j][1] \in Int
    OBVIOUS
  <2>2. book[j] \in Int \X (Nat \ {0})
    BY DEF IsDepth
  <2>3. QED
    BY <2>2
<1>3. PICK d \in Nat : d + 1 = i /\ d = i - 1 /\ (i + 1) - 1 = d + 1
  BY <1>1
<1>4. \A j \in 1..(d + 1) : j \in DOMAIN book
  BY <1>1, <1>3
<1> DEFINE s == [j \in 1..d |-> book[j][2]]
           t == [j \in 1..(d + 1) |-> book[j][2]]
<1>5. /\ s \in [1..d -> Nat] /\ s \in [1..d -> Int] /\ t \in [1..(d + 1) -> Int]
      /\ \A j \in 1..d : t[j] = s[j]
      /\ t[d + 1] = book[i][2]
  BY <1>2, <1>3, <1>4
<1>6. Sum(s) \in Nat /\ Sum(t) = Sum(s) + t[d + 1]
  <2> HIDE DEF s, t
  <2>1. QED
    BY <1>5, SumOfNats, SumGrow
<1>7. Before(book, i) = Sum(s) /\ Before(book, i + 1) = Sum(t)
  BY <1>3 DEF Before
<1>8. Before(book, 1) = 0
  <2>1. 1..(1 - 1) = {}
    OBVIOUS
  <2>2. QED
    BY <2>1, NoSum DEF Before
<1>9. QED
  BY <1>2, <1>5, <1>6, <1>7, <1>8

LEMMA BeforeOrdered ==
  ASSUME NEW side, NEW book, IsDepth(book, side), NEW i \in DOMAIN book, NEW j \in 1..i, j # i
  PROVE  Before(book, j) + book[j][2] <= Before(book, i)
<1>1. Len(book) \in Nat /\ DOMAIN book = 1..Len(book) /\ i \in Nat /\ j \in Nat
  BY DEF IsDepth
<1> DEFINE From(d) == Before(book, (j + 1) + d)
           P == {d \in Nat : (j + 1) + d <= i => From(0) <= From(d)}
<1>2. ASSUME NEW d \in Nat, (j + 1) + d <= i
      PROVE  /\ (j + 1) + d \in DOMAIN book /\ ((j + 1) + d) + 1 = (j + 1) + (d + 1)
             /\ From(d) \in Nat
  <2>1. (j + 1) + d \in DOMAIN book /\ ((j + 1) + d) + 1 = (j + 1) + (d + 1)
    BY <1>1, <1>2
  <2>2. QED
    BY <2>1, BeforeGrows
<1>3. ASSUME NEW d \in Nat, (j + 1) + (d + 1) <= i
      PROVE  From(d) <= From(d + 1)
  <2>1. (j + 1) + d <= i
    BY <1>1, <1>3
  <2>2. /\ Before(book, ((j + 1) + d) + 1) = Before(book, (j + 1) + d) + book[(j + 1) + d][2]
        /\ Before(book, (j + 1) + d) \in Nat /\ book[(j + 1) + d][2] \in Nat
    BY <1>2, <2>1, BeforeGrows
  <2>3. QED
    BY <1>2, <2>1, <2>2
<1>4. From(0) = Before(book, j) + book[j][2]
  <2>1. j \in DOMAIN book /\ (j + 1) + 0 = j + 1
    BY <1>1
  <2>2. QED
    BY <2>1, BeforeGrows
<1> HIDE DEF From
<1>5. 0 \in P
  <2>1. (j + 1) + 0 <= i
    BY <1>1
  <2>2. From(0) \in Nat
    BY <1>2, <2>1
  <2>3. QED
    BY <2>2
<1>6. ASSUME NEW d \in Nat, d \in P PROVE d + 1 \in P
  <2> SUFFICES ASSUME (j + 1) + (d + 1) <= i PROVE From(0) <= From(d + 1)
    OBVIOUS
  <2>1. (j + 1) + d <= i /\ (j + 1) + 0 <= i
    BY <1>1
  <2>2. From(d) \in Nat /\ From(d + 1) \in Nat /\ From(0) \in Nat
    BY <1>2, <2>1
  <2>3. QED
    BY <1>3, <1>6, <2>1, <2>2
<1> HIDE DEF P
<1>7. Nat \subseteq P
  BY <1>5, <1>6, SetInduction
<1>8. (i - j) - 1 \in P /\ (j + 1) + ((i - j) - 1) = i
  BY <1>1, <1>7
<1>9. From(0) <= From((i - j) - 1)
  BY <1>1, <1>8 DEF P
<1>10. QED
  BY <1>4, <1>8, <1>9 DEF From

\* What an order takes of a level, before its limit is looked at.
LEMMA TakenIs ==
  ASSUME NEW book, NEW side, NEW limit, NEW qty
  PROVE  LET taken == Taken(book, side, limit, qty)
             Within(i) == IF side = "Long" THEN book[i][1] <= CentsToTicks(limit)
                          ELSE book[i][1] >= CentsToTicks(limit)
         IN  /\ DOMAIN taken = DOMAIN book
             /\ \A i \in DOMAIN book :
                  taken[i] = IF Within(i) /\ Before(book, i) < qty
                             THEN IF book[i][2] < qty - Before(book, i) THEN book[i][2]
                                  ELSE qty - Before(book, i)
                             ELSE 0
BY DEF Taken, Before

\* The levels an order takes of, and those it exhausts.
Hit(book, taken)  == {i \in DOMAIN book : taken[i] > 0}
Gone(book, taken) == {i \in DOMAIN book : taken[i] = book[i][2]}

\* The levels an order takes of are the first, of those it exhausts also.
LEMMA TakenFacts ==
  ASSUME NEW side \in Sides, NEW book, IsDepth(book, side), NEW limit \in Int,
         NEW qty \in Nat \ {0}, NEW taken, taken = Taken(book, side, limit, qty)
  PROVE  /\ taken \in [DOMAIN book -> Nat]
         /\ \A i \in DOMAIN book : taken[i] <= book[i][2]
         /\ \E h \in 0..Len(book) :
              Hit(book, taken) = 1..h /\ Cardinality(Hit(book, taken)) = h
         /\ \E g \in 0..Len(book) :
              Gone(book, taken) = 1..g /\ Cardinality(Gone(book, taken)) = g
<1> DEFINE Within(i) == IF side = "Long" THEN book[i][1] <= CentsToTicks(limit)
                        ELSE book[i][1] >= CentsToTicks(limit)
<1>1. /\ DOMAIN taken = DOMAIN book
      /\ \A i \in DOMAIN book :
           taken[i] = IF Within(i) /\ Before(book, i) < qty
                      THEN IF book[i][2] < qty - Before(book, i) THEN book[i][2]
                           ELSE qty - Before(book, i)
                      ELSE 0
  BY TakenIs
<1>2. \A i \in DOMAIN book : /\ Before(book, i) \in Nat /\ book[i][2] \in Nat \ {0}
                             /\ book[i][1] \in Int
  BY BeforeGrows
<1>3. CentsToTicks(limit) \in Int
  BY DepthAssumption DEF CentsToTicks
<1>4. PICK z \in Nat : z = Len(book) /\ DOMAIN book = 1..z
  BY BookLength
<1> HIDE DEF Within
<1>5. ASSUME NEW i \in DOMAIN book
      PROVE  taken[i] \in Nat /\ taken[i] <= book[i][2]
  <2>1. /\ Before(book, i) \in Nat /\ book[i][2] \in Nat \ {0}
        /\ taken[i] = IF Within(i) /\ Before(book, i) < qty
                      THEN IF book[i][2] < qty - Before(book, i) THEN book[i][2]
                           ELSE qty - Before(book, i)
                      ELSE 0
    BY <1>1, <1>2
  <2>2. QED
    BY <2>1
<1>6. taken \in [DOMAIN book -> Nat]
  <2>1. taken = [i \in DOMAIN book |-> taken[i]]
    BY <1>1 DEF Taken
  <2>2. QED
    BY <1>5, <2>1
<1>7. ASSUME NEW i \in DOMAIN book, taken[i] > 0, NEW j \in 1..i, j # i
      PROVE  j \in DOMAIN book /\ taken[j] = book[j][2]
  <2>1. j \in DOMAIN book /\ j < i
    BY <1>4, <1>7
  <2>2. Within(i) /\ Before(book, i) < qty
    BY <1>1, <1>7
  <2>3. Before(book, j) + book[j][2] <= Before(book, i)
    BY <1>7, BeforeOrdered
  <2>4. Within(j)
    <3>1. IF side = "Long" THEN book[j][1] <= book[i][1] ELSE book[i][1] <= book[j][1]
      BY <2>1 DEF IsDepth
    <3>2. QED
      BY <1>2, <1>3, <2>1, <2>2, <3>1 DEF Within
  <2>5. /\ Before(book, i) \in Nat /\ Before(book, j) \in Nat /\ book[j][2] \in Nat \ {0}
    BY <1>2, <2>1
  <2>6. taken[j] = IF Within(j) /\ Before(book, j) < qty
                   THEN IF book[j][2] < qty - Before(book, j) THEN book[j][2]
                        ELSE qty - Before(book, j)
                   ELSE 0
    BY <1>1, <2>1
  <2>7. QED
    BY <2>1, <2>2, <2>3, <2>4, <2>5, <2>6
<1>8. \E h \in 0..Len(book) :
        Hit(book, taken) = 1..h /\ Cardinality(Hit(book, taken)) = h
  <2> DEFINE hit == {i \in DOMAIN book : taken[i] > 0}
  <2>1. hit \in SUBSET (1..z)
    BY <1>4
  <2>2. ASSUME NEW i \in hit, NEW j \in 1..i PROVE j \in hit
    <3>1. CASE j = i
      BY <3>1
    <3>2. CASE j # i
      <4>1. j \in DOMAIN book /\ taken[j] = book[j][2]
        BY <1>7, <3>2
      <4>2. QED
        BY <1>2, <4>1
    <3>3. QED
      BY <3>1, <3>2
  <2> HIDE DEF hit
  <2>3. \E h \in 0..z : hit = 1..h /\ Cardinality(hit) = h
    BY <2>1, <2>2, InitialSegment
  <2>4. QED
    BY <1>4, <2>3 DEF hit, Hit
<1>9. \E g \in 0..Len(book) :
        Gone(book, taken) = 1..g /\ Cardinality(Gone(book, taken)) = g
  <2> DEFINE gone == {i \in DOMAIN book : taken[i] = book[i][2]}
  <2>1. gone \in SUBSET (1..z)
    BY <1>4
  <2>2. ASSUME NEW i \in gone, NEW j \in 1..i PROVE j \in gone
    <3>1. CASE j = i
      BY <3>1
    <3>2. CASE j # i
      <4>1. i \in DOMAIN book /\ taken[i] > 0
        BY <1>2
      <4>2. j \in DOMAIN book /\ taken[j] = book[j][2]
        BY <1>7, <3>2, <4>1
      <4>3. QED
        BY <4>2
    <3>3. QED
      BY <3>1, <3>2
  <2> HIDE DEF gone
  <2>3. \E h \in 0..z : gone = 1..h /\ Cardinality(gone) = h
    BY <2>1, <2>2, InitialSegment
  <2>4. QED
    BY <1>4, <2>3 DEF gone, Gone
<1>10. QED
  BY <1>5, <1>6, <1>8, <1>9

\* It never takes more than its size.
LEMMA TakenInAll ==
  ASSUME NEW side \in Sides, NEW book, IsDepth(book, side), NEW limit \in Int,
         NEW qty \in Nat \ {0}, NEW taken, taken = Taken(book, side, limit, qty),
         NEW h \in 0..Len(book)
  PROVE  Sum([i \in 1..h |-> taken[i]]) \in 0..qty
<1> DEFINE T(m) == [i \in 1..m |-> taken[i]]
           P == {m \in Nat : m <= Len(book) =>
                   /\ Sum(T(m)) \in Nat /\ Sum(T(m)) <= qty
                   /\ m < Len(book) => Sum(T(m)) <= Before(book, m + 1)}
<1>1. PICK z \in Nat : z = Len(book) /\ DOMAIN book = 1..z
  BY BookLength
<1>2. \A i \in 1..z : taken[i] \in Nat /\ taken[i] <= book[i][2]
  BY <1>1, TakenFacts
<1>3. 0 \in P
  <2>1. DOMAIN T(0) = {}
    OBVIOUS
  <2> HIDE DEF T
  <2>2. Sum(T(0)) = 0
    BY <2>1, NoSum
  <2>3. 0 < z => Before(book, 0 + 1) = 0
    <3>1. SUFFICES ASSUME 0 < z PROVE Before(book, 0 + 1) = 0
      OBVIOUS
    <3>2. 1 \in DOMAIN book /\ 0 + 1 = 1
      BY <1>1, <3>1
    <3>3. QED
      BY <3>2, BeforeGrows
  <2>4. QED
    BY <1>1, <2>2, <2>3
<1>4. ASSUME NEW m \in Nat, m \in P PROVE m + 1 \in P
  <2> SUFFICES ASSUME m + 1 <= z
               PROVE  /\ Sum(T(m + 1)) \in Nat /\ Sum(T(m + 1)) <= qty
                      /\ m + 1 < z => Sum(T(m + 1)) <= Before(book, (m + 1) + 1)
    BY <1>1
  <2>1. m + 1 \in DOMAIN book /\ m + 1 \in 1..z
    BY <1>1
  <2>2. Sum(T(m + 1)) = Sum(T(m)) + taken[m + 1]
    <3>1. /\ T(m) \in [1..m -> Int] /\ T(m + 1) \in [1..(m + 1) -> Int]
          /\ \A i \in 1..m : T(m + 1)[i] = T(m)[i]
          /\ T(m + 1)[m + 1] = taken[m + 1]
      BY <1>2
    <3> HIDE DEF T
    <3>2. QED
      BY <3>1, SumGrow
  <2>3. Sum(T(m)) \in Nat /\ Sum(T(m)) <= qty /\ Sum(T(m)) <= Before(book, m + 1)
    BY <1>1, <1>4
  <2>4. /\ Before(book, m + 1) \in Nat /\ book[m + 1][2] \in Nat \ {0}
        /\ Before(book, (m + 1) + 1) = Before(book, m + 1) + book[m + 1][2]
    BY <2>1, BeforeGrows
  <2>5. taken[m + 1] \in Nat /\ taken[m + 1] <= book[m + 1][2]
        /\ (taken[m + 1] = 0 \/ taken[m + 1] <= qty - Before(book, m + 1))
    <3>1. \/ taken[m + 1] = 0
          \/ /\ Before(book, m + 1) < qty
             /\ taken[m + 1] = IF book[m + 1][2] < qty - Before(book, m + 1) THEN book[m + 1][2]
                               ELSE qty - Before(book, m + 1)
      BY <2>1, TakenIs
    <3>2. taken[m + 1] \in Nat /\ taken[m + 1] <= book[m + 1][2]
      BY <1>2, <2>1
    <3>3. QED
      BY <2>4, <3>1, <3>2
  <2> HIDE DEF T
  <2>6. PICK a, b, c, d \in Nat :
          /\ a = Sum(T(m)) /\ b = Before(book, m + 1) /\ c = taken[m + 1] /\ d = book[m + 1][2]
    BY <2>3, <2>4, <2>5
  <2>7. Sum(T(m + 1)) = a + c
    BY <2>2, <2>6
  <2>8. a <= qty /\ a <= b /\ c <= d /\ (c = 0 \/ c <= qty - b)
    BY <2>3, <2>5, <2>6
  <2>9. a + c \in Nat /\ a + c <= qty /\ a + c <= b + d
    BY <2>8
  <2>10. Before(book, (m + 1) + 1) = b + d
    BY <2>4, <2>6
  <2>11. QED
    BY <2>7, <2>9, <2>10
<1>5. P = P /\ h \in Nat /\ h <= Len(book)
  BY <1>1
<1> HIDE DEF P
<1>6. Nat \subseteq P
  BY <1>3, <1>4, SetInduction
<1>7. h \in P
  BY <1>5, <1>6
<1>8. Sum(T(h)) \in Nat /\ Sum(T(h)) <= qty
  <2> HIDE DEF T
  <2>1. QED
    BY <1>5, <1>7 DEF P
<1>9. QED
  BY <1>8

\* What an order leaves behind is a book again.
LEMMA ConsumedIsDepth ==
  ASSUME NEW side \in Sides, NEW book, IsDepth(book, side), NEW limit \in Int,
         NEW qty \in Nat \ {0}
  PROVE  IsDepth(Consumed(book, Taken(book, side, limit, qty)), side)
<1>0. PICK taken : taken = Taken(book, side, limit, qty)
  OBVIOUS
<1> DEFINE gone == Gone(book, taken)
           left == Consumed(book, taken)
<1>1. PICK z \in Nat : z = Len(book) /\ DOMAIN book = 1..z
  BY BookLength
<1>2. PICK g \in 0..z : gone = 1..g /\ Cardinality(gone) = g
  BY <1>0, <1>1, TakenFacts
<1>3. \A i \in 1..z : /\ taken[i] \in Nat /\ taken[i] <= book[i][2]
                      /\ book[i][2] \in Nat \ {0} /\ book[i][1] \in Int
  BY <1>0, <1>1, TakenFacts, BeforeGrows
<1>4. PICK m \in Nat : m = z - g
  BY <1>2
<1>5. left = [i \in 1..m |-> <<book[i + g][1], book[i + g][2] - taken[i + g]>>]
  BY <1>1, <1>2, <1>4 DEF Consumed, Gone
<1>6. ASSUME NEW i \in 1..m
      PROVE  /\ i + g \in 1..z /\ left[i] \in Int \X (Nat \ {0})
             /\ left[i][1] = book[i + g][1]
  <2>1. i + g \in 1..z /\ i + g \notin 1..g
    BY <1>2, <1>4
  <2>2. taken[i + g] # book[i + g][2]
    BY <1>1, <1>2, <2>1 DEF Gone
  <2>3. book[i + g][2] - taken[i + g] \in Nat \ {0}
    BY <1>3, <2>1, <2>2
  <2>4. left[i] = <<book[i + g][1], book[i + g][2] - taken[i + g]>>
    BY <1>5
  <2> HIDE DEF left
  <2>5. QED
    BY <1>3, <2>1, <2>3, <2>4
<1>7. left \in Seq(Int \X (Nat \ {0}))
  <2>1. left \in [1..m -> Int \X (Nat \ {0})]
    BY <1>5, <1>6
  <2> HIDE DEF left
  <2>2. QED
    BY <2>1
<1>8. ASSUME NEW i \in DOMAIN left, NEW j \in DOMAIN left, i < j
      PROVE  IF side = "Long" THEN left[i][1] <= left[j][1] ELSE left[j][1] <= left[i][1]
  <2>1. i \in 1..m /\ j \in 1..m
    BY <1>5, <1>8
  <2>2. i + g \in DOMAIN book /\ j + g \in DOMAIN book /\ i + g < j + g
    BY <1>1, <1>2, <1>6, <1>8, <2>1
  <2>3. left[i][1] = book[i + g][1] /\ left[j][1] = book[j + g][1]
    BY <1>6, <2>1
  <2> HIDE DEF left
  <2>4. QED
    BY <2>2, <2>3 DEF IsDepth
<1>9. QED
  BY <1>0, <1>7, <1>8 DEF IsDepth

LEMMA FeeType ==
  ASSUME NEW qty \in Nat, NEW first
  PROVE  FeeForFill(Fees, qty, first) \in Nat
<1>1. PICK a, b \in Nat : a = Fees.perContract /\ b = Fees.perOrder
  BY LedgerAssumption
<1>2. a * qty \in Nat
  BY <1>1
<1>3. QED
  BY <1>1, <1>2 DEF FeeForFill

\* A fill per level, and no more than the order's size.
LEMMA LevelFillsFacts ==
  ASSUME NEW side \in Sides, NEW book, IsDepth(book, side), NEW limit \in Int,
         NEW qty \in Nat \ {0}, NEW mid \in Int,
         NEW lot, lot = LevelFills(book, Taken(book, side, limit, qty), Fees, side, mid)
  PROVE  /\ IsOrder(lot, side, mid)
         /\ QtyOf(lot) <= qty
         /\ \A i \in DOMAIN lot : lot[i].qty \in Nat \ {0}
<1>0. PICK taken : taken = Taken(book, side, limit, qty)
  OBVIOUS
<1> DEFINE hit == Hit(book, taken)
<1>1. PICK z \in Nat : z = Len(book) /\ DOMAIN book = 1..z
  BY BookLength
<1>2. PICK h \in 0..z : hit = 1..h /\ Cardinality(hit) = h
  BY <1>0, <1>1, TakenFacts
<1>3. \A i \in 1..z : taken[i] \in Nat /\ book[i][1] \in Int
  BY <1>0, <1>1, TakenFacts, BeforeGrows
<1>4. \A i \in 1..h : i \in 1..z /\ taken[i] \in Nat \ {0}
  <2>1. \A i \in 1..h : i \in hit /\ i \in 1..z
    BY <1>1, <1>2
  <2>2. QED
    BY <1>3, <2>1 DEF Hit
<1>5. /\ DOMAIN lot = 1..h
      /\ lot = [i \in 1..h |->
           [side |-> side, qty |-> taken[i], price |-> TicksToCents(book[i][1]),
            fees |-> FeeForFill(Fees, taken[i], i = 1),
            slippage |-> SlippageCents(TicksToCents(book[i][1]), mid, taken[i], side)]]
  BY <1>0, <1>2 DEF LevelFills, Hit
<1> HIDE DEF hit
<1>6. ASSUME NEW i \in 1..h
      PROVE  /\ lot[i].side = side /\ lot[i].qty = taken[i]
             /\ lot[i].slippage = SlippageCents(lot[i].price, mid, lot[i].qty, side)
             /\ lot[i] \in FillRecords
  <2>1. taken[i] \in Nat \ {0} /\ book[i][1] \in Int
    BY <1>3, <1>4
  <2>2. TicksToCents(book[i][1]) \in Int
    BY <2>1, DepthAssumption DEF TicksToCents
  <2>3. FeeForFill(Fees, taken[i], i = 1) \in Nat
    BY <2>1, FeeType
  <2>4. SlippageCents(TicksToCents(book[i][1]), mid, taken[i], side) \in Int
    BY <2>1, <2>2, SignType DEF SlippageCents
  <2>5. lot[i] = [side |-> side, qty |-> taken[i], price |-> TicksToCents(book[i][1]),
            fees |-> FeeForFill(Fees, taken[i], i = 1),
            slippage |-> SlippageCents(TicksToCents(book[i][1]), mid, taken[i], side)]
    BY <1>5
  <2>6. QED
    BY <2>1, <2>2, <2>3, <2>4, <2>5 DEF FillRecords
<1>7. IsOrder(lot, side, mid)
  <2>1. lot \in [1..h -> FillRecords] /\ h \in Nat
    BY <1>5, <1>6
  <2>2. lot \in Seq(FillRecords)
    BY <2>1
  <2>3. QED
    BY <1>5, <1>6, <2>2 DEF IsOrder
<1>8. QtyOf(lot) <= qty
  <2>1. [i \in DOMAIN lot |-> lot[i].qty] = [i \in 1..h |-> taken[i]]
    BY <1>5, <1>6
  <2>2. Sum([i \in 1..h |-> taken[i]]) \in 0..qty
    <3>1. h \in 0..Len(book)
      BY <1>1
    <3>2. QED
      BY <1>0, <3>1, TakenInAll
  <2>3. QED
    BY <2>1, <2>2 DEF QtyOf
<1>9. QED
  BY <1>4, <1>5, <1>6, <1>7, <1>8

\* The ladder of a quote.
LEMMA LadderIsDepth ==
  ASSUME NEW q, IsQuote(q)
  PROVE  IsDepth(Ladder(q, "ask"), "Long") /\ IsDepth(Ladder(q, "bid"), "Short")
<1> DEFINE Price(s, i) == IF s = "ask" THEN q.ask + i * Tick ELSE q.bid - i * Tick
           Size(s, i) == DecayedSize(TouchSize(q, s), i)
           planned(s) == {i \in 0..Profile.levels :
                            \A j \in 0..i : Size(s, j) \in Nat \ {0} /\ Price(s, j) >= 0}
<1>1. Tick \in Nat \ {0} /\ q.ask \in Nat /\ q.bid \in Nat /\ Profile.levels \in Nat
  BY DepthAssumption DEF IsQuote
<1>2. ASSUME NEW s \in {"ask", "bid"}
      PROVE  \E m \in Nat :
               /\ Ladder(q, s) = [i \in 1..m |-> <<CentsToTicks(Price(s, i - 1)), Size(s, i - 1)>>]
               /\ \A i \in 1..m : Size(s, i - 1) \in Nat \ {0}
  <2> DEFINE S == planned(s)
             up == {i \in 1..(Profile.levels + 1) : i - 1 \in S}
  <2> HIDE DEF Size, Price
  <2>1. up \in SUBSET (1..(Profile.levels + 1)) /\ Profile.levels + 1 \in Nat
    BY <1>1
  <2>2. ASSUME NEW i \in up, NEW j \in 1..i PROVE j \in up
    <3>1. i - 1 \in S /\ i \in Nat /\ j \in Nat /\ j <= i /\ j >= 1 /\ i <= Profile.levels + 1
      BY <1>1, <2>2
    <3>2. \A x \in 0..(i - 1) : Size(s, x) \in Nat \ {0} /\ Price(s, x) >= 0
      BY <3>1
    <3>3. \A x \in 0..(j - 1) : x \in 0..(i - 1)
      BY <3>1
    <3>4. j - 1 \in 0..Profile.levels /\ j \in 1..(Profile.levels + 1)
      BY <1>1, <3>1
    <3>5. j - 1 \in S
      BY <3>2, <3>3, <3>4
    <3>6. QED
      BY <3>4, <3>5
  <2>3. \E m \in 0..(Profile.levels + 1) : up = 1..m /\ Cardinality(up) = m
    <3> HIDE DEF up
    <3>1. QED
      BY <2>1, <2>2, InitialSegment
  <2>4. PICK m \in Nat : up = 1..m /\ Cardinality(up) = m
    <3> HIDE DEF up
    <3>1. PICK m \in 0..(Profile.levels + 1) : up = 1..m /\ Cardinality(up) = m
      BY <2>3
    <3>2. m \in Nat
      OBVIOUS
    <3>3. QED
      BY <3>1, <3>2
  <2>5. Cardinality(S) = m
    <3> DEFINE f == [i \in up |-> i - 1]
    <3>1. \A x \in S : x \in Int /\ x + 1 \in up /\ (x + 1) - 1 = x
      BY <1>1
    <3>2. f \in Bijection(up, S)
      <4>1. f \in [up -> S]
        OBVIOUS
      <4>2. \A x, y \in up : f[x] = f[y] => x = y
        OBVIOUS
      <4>3. \A x \in S : \E y \in up : f[y] = x
        BY <3>1
      <4> HIDE DEF f, up, S
      <4>4. QED
        BY <4>1, <4>2, <4>3, Fun_IsBij
    <3> HIDE DEF f, up, S
    <3>3. IsFiniteSet(up)
      BY <2>4, LastOf
    <3>4. QED
      BY <2>4, <3>2, <3>3, FS_Bijection DEF ExistsBijection
  <2>6. Ladder(q, s) = [i \in 1..m |-> <<CentsToTicks(Price(s, i - 1)), Size(s, i - 1)>>]
    BY <2>5 DEF Ladder, Size, Price
  <2>7. ASSUME NEW i \in 1..m PROVE Size(s, i - 1) \in Nat \ {0}
    <3>0. i \in up
      BY <2>4
    <3>1. i - 1 \in S /\ i - 1 \in 0..(i - 1)
      BY <3>0
    <3>2. QED
      BY <3>1
  <2>8. QED
    BY <2>6, <2>7
<1>3. ASSUME NEW s \in {"ask", "bid"}, NEW i \in Nat
      PROVE  /\ Price(s, i) \in Int /\ CentsToTicks(Price(s, i)) \in Int
  BY <1>1, <1>3 DEF CentsToTicks
<1>4. ASSUME NEW i \in Nat, NEW j \in Nat, i < j
      PROVE  /\ CentsToTicks(Price("ask", i)) <= CentsToTicks(Price("ask", j))
             /\ CentsToTicks(Price("bid", j)) <= CentsToTicks(Price("bid", i))
  <2>1. i * Tick <= j * Tick /\ i * Tick \in Int /\ j * Tick \in Int
    BY <1>1, <1>4
  <2>2. /\ Price("ask", i) <= Price("ask", j) /\ Price("bid", j) <= Price("bid", i)
        /\ Price("ask", i) \in Int /\ Price("ask", j) \in Int
        /\ Price("bid", i) \in Int /\ Price("bid", j) \in Int
    BY <1>1, <2>1
  <2>3. \A x, y \in Int : x <= y => x \div Tick <= y \div Tick
    BY <1>1
  <2> HIDE DEF Price
  <2>4. QED
    BY <2>2, <2>3 DEF CentsToTicks
<1> HIDE DEF Price, Size
<1>5. ASSUME NEW s \in {"ask", "bid"}, NEW side, side = IF s = "ask" THEN "Long" ELSE "Short"
      PROVE  IsDepth(Ladder(q, s), side)
  <2>1. PICK m \in Nat :
          /\ Ladder(q, s) = [i \in 1..m |-> <<CentsToTicks(Price(s, i - 1)), Size(s, i - 1)>>]
          /\ \A i \in 1..m : Size(s, i - 1) \in Nat \ {0}
    BY <1>2
  <2>2. \A i \in 1..m : <<CentsToTicks(Price(s, i - 1)), Size(s, i - 1)>> \in Int \X (Nat \ {0})
    <3>1. \A i \in 1..m : i - 1 \in Nat
      OBVIOUS
    <3>2. QED
      BY <1>3, <2>1, <3>1
  <2>3. Ladder(q, s) \in Seq(Int \X (Nat \ {0}))
    BY <2>1, <2>2
  <2>4. ASSUME NEW i \in DOMAIN Ladder(q, s), NEW j \in DOMAIN Ladder(q, s), i < j
        PROVE  IF side = "Long" THEN Ladder(q, s)[i][1] <= Ladder(q, s)[j][1]
               ELSE Ladder(q, s)[j][1] <= Ladder(q, s)[i][1]
    <3>1. i \in 1..m /\ j \in 1..m /\ i - 1 \in Nat /\ j - 1 \in Nat /\ i - 1 < j - 1
      BY <2>1, <2>4
    <3>2. /\ Ladder(q, s)[i][1] = CentsToTicks(Price(s, i - 1))
          /\ Ladder(q, s)[j][1] = CentsToTicks(Price(s, j - 1))
      BY <2>1, <3>1
    <3>3. QED
      BY <1>4, <1>5, <3>1, <3>2
  <2>5. QED
    BY <2>3, <2>4 DEF IsDepth
<1>6. QED
  BY <1>5

-----------------------------------------------------------------------------
(* Quotes on the tape.                                                     *)

AllQuotes == UNION {Quotes[c] : c \in Contracts}
Snapshots == {s \in UNION {[quoted -> AllQuotes] : quoted \in SUBSET Contracts} :
                \A c \in DOMAIN s : s[c] \in Quotes[c]}

Quoted(c, m) == SeenIn(c, m) # {}

LEMMA LatestIs ==
  ASSUME NEW m \in Nat, NEW S \in SUBSET (1..m), S # {}
  PROVE  Latest(S) \in S /\ \A i \in S : i <= Latest(S)
<1> DEFINE P == {z \in Nat : (\E i \in S : i >= m - z) => \E j \in S : \A i \in S : i <= j}
<1>1. 0 \in P
  <2>1. ASSUME NEW x \in S, x >= m - 0 PROVE \E j \in S : \A i \in S : i <= j
    <3>1. \A i \in S : i <= x
      BY <2>1
    <3>2. QED
      BY <3>1
  <2>2. QED
    BY <2>1
<1>2. ASSUME NEW z \in Nat, z \in P PROVE z + 1 \in P
  <2>1. SUFFICES ASSUME NEW x \in S, x >= m - (z + 1)
                 PROVE  \E j \in S : \A i \in S : i <= j
    OBVIOUS
  <2>2. CASE \E i \in S : i >= m - z
    BY <1>2, <2>2
  <2>3. CASE ~ \E i \in S : i >= m - z
    <3>1. ASSUME NEW i \in S PROVE i <= x
      <4>1. i \in Int /\ x \in Int /\ ~(i >= m - z)
        BY <2>3
      <4>2. QED
        BY <2>1, <4>1
    <3>2. QED
      BY <3>1
  <2>4. QED
    BY <2>2, <2>3
<1> HIDE DEF P
<1>3. Nat \subseteq P
  BY <1>1, <1>2, SetInduction
<1>4. m \in P /\ \E i \in S : i >= m - m
  <2>1. PICK x \in S : TRUE
    OBVIOUS
  <2>2. x \in 1..m /\ x >= m - m
    OBVIOUS
  <2>3. QED
    BY <1>3, <2>1, <2>2
<1>5. \E j \in S : \A i \in S : i <= j
  BY <1>4 DEF P
<1>6. QED
  BY <1>5 DEF Latest

\* A snapshot quotes contracts.
LEMMA SnapshotFacts ==
  ASSUME tape \in Seq(Snapshots), NEW j \in 1..n
  PROVE  /\ DOMAIN tape[j] \subseteq Contracts
         /\ \A c \in DOMAIN tape[j] : /\ tape[j][c] \in Quotes[c] /\ tape[j][c] \in AllQuotes
                                      /\ IsQuote(tape[j][c])
<1>1. tape[j] \in Snapshots
  BY DEF n
<1>2. PICK quoted \in SUBSET Contracts : tape[j] \in [quoted -> AllQuotes]
  BY <1>1 DEF Snapshots
<1>3. DOMAIN tape[j] \subseteq Contracts /\ \A c \in DOMAIN tape[j] : tape[j][c] \in Quotes[c]
  BY <1>1, <1>2 DEF Snapshots
<1>4. QED
  BY <1>3, LedgerAssumption DEF AllQuotes

LEMMA LastSeenType ==
  ASSUME tape \in Seq(Snapshots), NEW m \in Nat, m <= n, NEW c, Quoted(c, m)
  PROVE  /\ c \in Contracts /\ LastSeen(c, m) \in Quotes[c] /\ LastSeen(c, m) \in AllQuotes
         /\ IsQuote(LastSeen(c, m)) /\ LastSeen(c, m).mid \in Nat
<1>1. PICK S : S = SeenIn(c, m)
  OBVIOUS
<1>2. S \in SUBSET (1..m) /\ S # {}
  BY <1>1 DEF SeenIn, Quoted
<1>3. PICK j : j = Latest(S)
  OBVIOUS
<1>4. j \in S
  BY <1>2, <1>3, LatestIs
<1>5. n \in Nat
  BY DEF n
<1>6. j \in 1..n /\ c \in DOMAIN tape[j]
  BY <1>1, <1>4, <1>5 DEF SeenIn
<1>7. LastSeen(c, m) = tape[j][c]
  BY <1>1, <1>3 DEF LastSeen
<1>8. /\ c \in Contracts /\ tape[j][c] \in Quotes[c] /\ tape[j][c] \in AllQuotes
      /\ IsQuote(tape[j][c])
  BY <1>6, SnapshotFacts
<1>9. QED
  BY <1>7, <1>8 DEF IsQuote

\* The last quote of a contract that is quoted now is the present one.
LEMMA LastSeenNow ==
  ASSUME NEW m \in Nat \ {0}, NEW c, c \in DOMAIN tape[m]
  PROVE  Quoted(c, m) /\ LastSeen(c, m) = tape[m][c]
<1>1. PICK S : S = SeenIn(c, m)
  OBVIOUS
<1>2. S \in SUBSET (1..m) /\ m \in S
  BY <1>1 DEF SeenIn
<1>3. PICK j : j = Latest(S)
  OBVIOUS
<1>4. j \in S /\ m <= j
  BY <1>2, <1>3, LatestIs
<1>5. j = m
  BY <1>2, <1>4
<1>6. QED
  BY <1>1, <1>2, <1>3, <1>5 DEF Quoted, LastSeen

\* That of one which is not is that of the step before.
LEMMA LastSeenBefore ==
  ASSUME NEW m \in Nat \ {0}, NEW c, c \notin DOMAIN tape[m]
  PROVE  LastSeen(c, m) = LastSeen(c, m - 1) /\ (Quoted(c, m) <=> Quoted(c, m - 1))
<1>1. SeenIn(c, m) = SeenIn(c, m - 1)
  <2>1. \A j \in 1..m : j \in 1..(m - 1) \/ j = m
    OBVIOUS
  <2>2. \A j \in 1..(m - 1) : j \in 1..m
    OBVIOUS
  <2>3. QED
    BY <2>1, <2>2 DEF SeenIn
<1>2. QED
  BY <1>1 DEF Quoted, LastSeen

LEMMA QuotedLater ==
  ASSUME NEW m \in Nat, NEW z \in Nat, m <= z, NEW c, Quoted(c, m)
  PROVE  Quoted(c, z)
BY DEF Quoted, SeenIn

\* More snapshots leave the past as it is.
LEMMA TapeGrows ==
  ASSUME tape \in Seq(Snapshots), NEW s, tape' = Append(tape, s), NEW m \in Nat, m <= n
  PROVE  /\ \A j \in 1..m : tape'[j] = tape[j]
         /\ \A c : /\ Quoted(c, m)' = Quoted(c, m)
                   /\ Quoted(c, m) => LastSeen(c, m)' = LastSeen(c, m)
<1>1. \A j \in 1..m : tape'[j] = tape[j]
  BY DEF n
<1>2. ASSUME NEW c
      PROVE  /\ Quoted(c, m)' = Quoted(c, m)
             /\ Quoted(c, m) => LastSeen(c, m)' = LastSeen(c, m)
  <2>1. PICK S : S = SeenIn(c, m)
    OBVIOUS
  <2>2. SeenIn(c, m)' = S
    BY <1>1, <2>1 DEF SeenIn
  <2>3. Quoted(c, m)' = Quoted(c, m)
    BY <2>1, <2>2 DEF Quoted
  <2>4. ASSUME Quoted(c, m) PROVE LastSeen(c, m)' = LastSeen(c, m)
    <3>1. S \in SUBSET (1..m) /\ S # {}
      BY <2>1, <2>4 DEF SeenIn, Quoted
    <3>2. PICK j : j = Latest(S)
      OBVIOUS
    <3>3. j \in 1..m
      BY <3>1, <3>2, LatestIs
    <3>4. LastSeen(c, m)' = tape'[j][c] /\ LastSeen(c, m) = tape[j][c]
      BY <2>1, <2>2, <3>2 DEF LastSeen
    <3>5. QED
      BY <1>1, <3>3, <3>4
  <2>5. QED
    BY <2>3, <2>4
<1>3. QED
  BY <1>1, <1>2

-----------------------------------------------------------------------------
(* Holdings.                                                               *)

Legs == [contract : Contracts, side : Sides, qty : Nat \ {0}, entry : Int, id : Nat]

\* What legs are worth at a price per contract, and what was paid for them.
Worth(inv, price) ==
  Sum([i \in DOMAIN inv |->
         Notional(price[inv[i].contract], inv[i].qty, Multiplier, inv[i].side)])
Stake(inv) ==
  Sum([i \in DOMAIN inv |-> Notional(inv[i].entry, inv[i].qty, Multiplier, inv[i].side)])

Priced(inv, price) ==
  inv \in Seq(Legs) /\ \A i \in DOMAIN inv : price[inv[i].contract] \in Int

LEMMA NotionalIs ==
  ASSUME NEW p \in Int, NEW q \in Int, NEW side \in Sides
  PROVE  /\ Notional(p, q, Multiplier, side) = (p * q) * (Multiplier * SideSign(side))
         /\ Notional(p, q, Multiplier, side) \in Int
         /\ Multiplier * SideSign(side) \in Int /\ Multiplier \in Nat \ {0}
<1>1. PICK s \in Int : s = SideSign(side)
  BY SignType
<1>2. PICK u \in Nat \ {0} : u = Multiplier
  BY LedgerAssumption
<1>3. ((p * q) * u) * s = (p * q) * (u * s) /\ u * s \in Int /\ (p * q) * (u * s) \in Int
  BY <1>1, <1>2
<1>4. QED
  BY <1>1, <1>2, <1>3 DEF Notional

LEMMA LegFacts ==
  ASSUME NEW leg \in Legs
  PROVE  /\ leg.contract \in Contracts /\ leg.side \in Sides /\ leg.qty \in Nat \ {0}
         /\ leg.entry \in Int /\ leg.id \in Nat
         /\ Notional(leg.entry, leg.qty, Multiplier, leg.side) \in Int
<1>1. /\ leg.contract \in Contracts /\ leg.side \in Sides /\ leg.qty \in Nat \ {0}
      /\ leg.entry \in Int /\ leg.id \in Nat
  BY DEF Legs
<1>2. QED
  BY <1>1, NotionalIs

LEMMA HoldingTypes ==
  ASSUME NEW inv, NEW price, Priced(inv, price)
  PROVE  /\ Len(inv) \in Nat /\ DOMAIN inv = 1..Len(inv)
         /\ \A i \in DOMAIN inv :
              /\ inv[i] \in Legs
              /\ Notional(price[inv[i].contract], inv[i].qty, Multiplier, inv[i].side) \in Int
              /\ Notional(inv[i].entry, inv[i].qty, Multiplier, inv[i].side) \in Int
         /\ Worth(inv, price) \in Int /\ Stake(inv) \in Int
<1>1. Len(inv) \in Nat /\ DOMAIN inv = 1..Len(inv)
  BY DEF Priced
<1>2. ASSUME NEW i \in DOMAIN inv
      PROVE  /\ inv[i] \in Legs
             /\ Notional(price[inv[i].contract], inv[i].qty, Multiplier, inv[i].side) \in Int
             /\ Notional(inv[i].entry, inv[i].qty, Multiplier, inv[i].side) \in Int
  <2>1. inv[i] \in Legs /\ price[inv[i].contract] \in Int
    BY DEF Priced
  <2>2. QED
    BY <2>1, LegFacts, NotionalIs
<1>3. PICK z \in Nat : z = Len(inv)
  BY <1>1
<1>4. /\ [i \in DOMAIN inv |-> Notional(price[inv[i].contract], inv[i].qty, Multiplier, inv[i].side)]
           \in [1..z -> Int]
      /\ [i \in DOMAIN inv |-> Notional(inv[i].entry, inv[i].qty, Multiplier, inv[i].side)]
           \in [1..z -> Int]
  BY <1>1, <1>2, <1>3
<1>5. Worth(inv, price) \in Int /\ Stake(inv) \in Int
  BY <1>4, SumType DEF Worth, Stake
<1>6. QED
  BY <1>1, <1>2, <1>5

\* A new leg.
LEMMA HeldAppend ==
  ASSUME NEW inv, NEW price, Priced(inv, price), NEW leg \in Legs, price[leg.contract] \in Int
  PROVE  /\ Priced(Append(inv, leg), price)
         /\ Worth(Append(inv, leg), price)
              = Worth(inv, price) + Notional(price[leg.contract], leg.qty, Multiplier, leg.side)
         /\ Stake(Append(inv, leg))
              = Stake(inv) + Notional(leg.entry, leg.qty, Multiplier, leg.side)
<1>1. PICK z \in Nat : z = Len(inv) /\ DOMAIN inv = 1..z
  BY HoldingTypes
<1>2. PICK new : new = Append(inv, leg)
  OBVIOUS
<1>3. /\ new \in Seq(Legs) /\ Len(new) = z + 1 /\ DOMAIN new = 1..(z + 1)
      /\ (\A i \in 1..z : new[i] = inv[i]) /\ new[z + 1] = leg
  BY <1>1, <1>2 DEF Priced
<1>4. Priced(new, price)
  <2>1. \A i \in 1..(z + 1) : i \in 1..z \/ i = z + 1
    OBVIOUS
  <2>2. QED
    BY <1>1, <1>3, <2>1 DEF Priced
<1> DEFINE w == [i \in DOMAIN inv |->
                   Notional(price[inv[i].contract], inv[i].qty, Multiplier, inv[i].side)]
           ww == [i \in DOMAIN new |->
                    Notional(price[new[i].contract], new[i].qty, Multiplier, new[i].side)]
           p == [i \in DOMAIN inv |->
                   Notional(inv[i].entry, inv[i].qty, Multiplier, inv[i].side)]
           pp == [i \in DOMAIN new |->
                    Notional(new[i].entry, new[i].qty, Multiplier, new[i].side)]
<1>5. /\ w \in [1..z -> Int] /\ ww \in [1..(z + 1) -> Int]
      /\ p \in [1..z -> Int] /\ pp \in [1..(z + 1) -> Int]
  BY <1>1, <1>3, <1>4, HoldingTypes
<1>6. /\ \A i \in 1..z : ww[i] = w[i] /\ pp[i] = p[i]
      /\ ww[z + 1] = Notional(price[leg.contract], leg.qty, Multiplier, leg.side)
      /\ pp[z + 1] = Notional(leg.entry, leg.qty, Multiplier, leg.side)
  BY <1>1, <1>3
<1>7. Worth(inv, price) = Sum(w) /\ Worth(new, price) = Sum(ww)
      /\ Stake(inv) = Sum(p) /\ Stake(new) = Sum(pp)
  BY DEF Worth, Stake
<1> HIDE DEF w, ww, p, pp
<1>8. Sum(ww) = Sum(w) + ww[z + 1] /\ Sum(pp) = Sum(p) + pp[z + 1]
  BY <1>5, <1>6, SumGrow
<1>9. QED
  BY <1>2, <1>4, <1>6, <1>7, <1>8

\* A leg with another quantity or entry.
Changes(inv, new, i) ==
  /\ new \in Seq(Legs) /\ Len(new) = Len(inv) /\ i \in DOMAIN inv
  /\ \A j \in DOMAIN inv : j # i => new[j] = inv[j]
  /\ new[i].contract = inv[i].contract /\ new[i].side = inv[i].side

LEMMA HeldChanged ==
  \A inv, new, i, price : Priced(inv, price) /\ Changes(inv, new, i) =>
    /\ Priced(new, price)
    /\ Worth(new, price)
         = Worth(inv, price)
             - Notional(price[inv[i].contract], inv[i].qty, Multiplier, inv[i].side)
             + Notional(price[inv[i].contract], new[i].qty, Multiplier, inv[i].side)
    /\ Stake(new)
         = Stake(inv) - Notional(inv[i].entry, inv[i].qty, Multiplier, inv[i].side)
             + Notional(new[i].entry, new[i].qty, Multiplier, inv[i].side)
<1> SUFFICES ASSUME NEW inv, NEW new, NEW i, NEW price, Priced(inv, price), Changes(inv, new, i)
             PROVE  /\ Priced(new, price)
                    /\ Worth(new, price)
                         = Worth(inv, price)
                             - Notional(price[inv[i].contract], inv[i].qty, Multiplier, inv[i].side)
                             + Notional(price[inv[i].contract], new[i].qty, Multiplier, inv[i].side)
                    /\ Stake(new)
                         = Stake(inv)
                             - Notional(inv[i].entry, inv[i].qty, Multiplier, inv[i].side)
                             + Notional(new[i].entry, new[i].qty, Multiplier, inv[i].side)
  BY ZenonT(30)
<1>0. /\ new \in Seq(Legs) /\ Len(new) = Len(inv) /\ i \in DOMAIN inv
      /\ \A j \in DOMAIN inv : j # i => new[j] = inv[j]
      /\ new[i].contract = inv[i].contract /\ new[i].side = inv[i].side
  BY DEF Changes
<1>1. PICK z \in Nat : z = Len(inv) /\ DOMAIN inv = 1..z
  BY HoldingTypes
<1>2. DOMAIN new = 1..z
  BY <1>0, <1>1
<1>3. Priced(new, price)
  <2>1. ASSUME NEW j \in DOMAIN new PROVE price[new[j].contract] \in Int
    <3>1. j \in DOMAIN inv /\ new[j].contract = inv[j].contract
      BY <1>0, <1>1, <1>2
    <3>2. QED
      BY <3>1 DEF Priced
  <2>2. QED
    BY <1>0, <2>1 DEF Priced
<1> DEFINE w == [j \in DOMAIN inv |->
                   Notional(price[inv[j].contract], inv[j].qty, Multiplier, inv[j].side)]
           ww == [j \in DOMAIN new |->
                    Notional(price[new[j].contract], new[j].qty, Multiplier, new[j].side)]
           p == [j \in DOMAIN inv |->
                   Notional(inv[j].entry, inv[j].qty, Multiplier, inv[j].side)]
           pp == [j \in DOMAIN new |->
                    Notional(new[j].entry, new[j].qty, Multiplier, new[j].side)]
<1>4. /\ w \in [1..z -> Int] /\ ww \in [1..z -> Int]
      /\ p \in [1..z -> Int] /\ pp \in [1..z -> Int]
  BY <1>1, <1>2, <1>3, HoldingTypes
<1>5. /\ \A j \in 1..z : j # i => ww[j] = w[j] /\ pp[j] = p[j]
      /\ i \in 1..z
      /\ w[i] = Notional(price[inv[i].contract], inv[i].qty, Multiplier, inv[i].side)
      /\ ww[i] = Notional(price[inv[i].contract], new[i].qty, Multiplier, inv[i].side)
      /\ p[i] = Notional(inv[i].entry, inv[i].qty, Multiplier, inv[i].side)
      /\ pp[i] = Notional(new[i].entry, new[i].qty, Multiplier, inv[i].side)
  BY <1>0, <1>1, <1>2
<1>6. Worth(inv, price) = Sum(w) /\ Worth(new, price) = Sum(ww)
      /\ Stake(inv) = Sum(p) /\ Stake(new) = Sum(pp)
  BY DEF Worth, Stake
<1> HIDE DEF w, ww, p, pp
<1>7. Sum(ww) = Sum(w) - w[i] + ww[i] /\ Sum(pp) = Sum(p) - p[i] + pp[i]
  BY <1>4, <1>5, SumPoint
<1>8. QED
  BY <1>3, <1>5, <1>6, <1>7

\* A leg gone.
WithoutLeg(inv, i) == SubSeq(inv, 1, i - 1) \o SubSeq(inv, i + 1, Len(inv))

LEMMA WithoutIs ==
  ASSUME NEW S, NEW inv \in Seq(S), NEW i \in DOMAIN inv
  PROVE  /\ WithoutLeg(inv, i) \in Seq(S) /\ Len(WithoutLeg(inv, i)) = Len(inv) - 1
         /\ \A j \in 1..(Len(inv) - 1) :
              WithoutLeg(inv, i)[j] = IF j < i THEN inv[j] ELSE inv[j + 1]
<1>1. PICK z \in Nat : z = Len(inv) /\ i \in 1..z
  OBVIOUS
<1>2. PICK a : a = SubSeq(inv, 1, i - 1)
  OBVIOUS
<1>3. PICK b : b = SubSeq(inv, i + 1, z)
  OBVIOUS
<1>4. a \in Seq(S) /\ Len(a) = i - 1 /\ \A j \in 1..(i - 1) : a[j] = inv[j]
  BY <1>1, <1>2
<1>5. b \in Seq(S) /\ Len(b) = z - i /\ \A j \in 1..(z - i) : b[j] = inv[j + i]
  BY <1>1, <1>3
<1>6. a \o b \in Seq(S) /\ Len(a \o b) = z - 1
  <2>1. a \in Seq(S) /\ b \in Seq(S)
    BY <1>4, <1>5
  <2>2. a \o b \in Seq(S) /\ Len(a \o b) = Len(a) + Len(b)
    BY <2>1
  <2>3. (i - 1) + (z - i) = z - 1
    BY <1>1
  <2>4. QED
    BY <1>4, <1>5, <2>2, <2>3
<1>7. ASSUME NEW j \in 1..(z - 1)
      PROVE  (a \o b)[j] = IF j < i THEN inv[j] ELSE inv[j + 1]
  <2>1. CASE j < i
    <3>1. (a \o b)[j] = a[j] /\ j \in 1..(i - 1)
      BY <1>1, <1>4, <1>5, <2>1
    <3>2. QED
      BY <1>4, <2>1, <3>1
  <2>2. CASE ~(j < i)
    <3>1. j - (i - 1) \in 1..(z - i) /\ (j - (i - 1)) + i = j + 1
      BY <1>1, <2>2
    <3>2. (a \o b)[j] = b[j - (i - 1)]
      BY <1>1, <1>4, <1>5, <2>2
    <3>3. QED
      BY <1>5, <2>2, <3>1, <3>2
  <2>3. QED
    BY <2>1, <2>2
<1>8. QED
  BY <1>1, <1>2, <1>3, <1>6, <1>7 DEF WithoutLeg

LEMMA HeldWithout ==
  ASSUME NEW inv, NEW price, Priced(inv, price), NEW i \in DOMAIN inv
  PROVE  /\ Priced(WithoutLeg(inv, i), price)
         /\ Worth(WithoutLeg(inv, i), price)
              = Worth(inv, price)
                  - Notional(price[inv[i].contract], inv[i].qty, Multiplier, inv[i].side)
         /\ Stake(WithoutLeg(inv, i))
              = Stake(inv) - Notional(inv[i].entry, inv[i].qty, Multiplier, inv[i].side)
<1>1. PICK z \in Nat : z + 1 = Len(inv) /\ DOMAIN inv = 1..(z + 1)
  <2>1. Len(inv) \in Nat /\ DOMAIN inv = 1..Len(inv)
    BY HoldingTypes
  <2>2. Len(inv) - 1 \in Nat /\ (Len(inv) - 1) + 1 = Len(inv)
    BY <2>1
  <2>3. QED
    BY <2>1, <2>2
<1>2. PICK new : new = WithoutLeg(inv, i)
  OBVIOUS
<1>3. inv \in Seq(Legs)
  BY DEF Priced
<1>4. /\ new \in Seq(Legs) /\ Len(new) = z
      /\ \A j \in 1..z : new[j] = IF j < i THEN inv[j] ELSE inv[j + 1]
  <2>1. Len(inv) - 1 = z
    BY <1>1
  <2>2. QED
    BY <1>2, <1>3, <2>1, WithoutIs
<1>5. DOMAIN new = 1..z
  BY <1>4
<1>6. Priced(new, price)
  <2>1. ASSUME NEW j \in DOMAIN new PROVE price[new[j].contract] \in Int
    <3>1. PICK l \in DOMAIN inv : new[j] = inv[l]
      <4>1. j \in DOMAIN inv /\ j + 1 \in DOMAIN inv
        BY <1>1, <1>5
      <4>2. QED
        BY <1>4, <1>5, <4>1
    <3>2. QED
      BY <3>1 DEF Priced
  <2>2. QED
    BY <1>4, <2>1 DEF Priced
<1> DEFINE w == [j \in DOMAIN inv |->
                   Notional(price[inv[j].contract], inv[j].qty, Multiplier, inv[j].side)]
           ww == [j \in DOMAIN new |->
                    Notional(price[new[j].contract], new[j].qty, Multiplier, new[j].side)]
           p == [j \in DOMAIN inv |->
                   Notional(inv[j].entry, inv[j].qty, Multiplier, inv[j].side)]
           pp == [j \in DOMAIN new |->
                    Notional(new[j].entry, new[j].qty, Multiplier, new[j].side)]
<1>7. /\ w \in [1..(z + 1) -> Int] /\ ww \in [1..z -> Int]
      /\ p \in [1..(z + 1) -> Int] /\ pp \in [1..z -> Int]
  BY <1>1, <1>5, <1>6, HoldingTypes
<1>8. ASSUME NEW j \in 1..z
      PROVE  /\ ww[j] = IF j < i THEN w[j] ELSE w[j + 1]
             /\ pp[j] = IF j < i THEN p[j] ELSE p[j + 1]
  <2>1. j \in DOMAIN inv /\ j + 1 \in DOMAIN inv /\ j \in DOMAIN new
    BY <1>1, <1>5
  <2>2. new[j] = IF j < i THEN inv[j] ELSE inv[j + 1]
    BY <1>4
  <2>3. CASE j < i
    BY <2>1, <2>2, <2>3
  <2>4. CASE ~(j < i)
    BY <2>1, <2>2, <2>4
  <2>5. QED
    BY <2>3, <2>4
<1>9. /\ i \in 1..(z + 1)
      /\ w[i] = Notional(price[inv[i].contract], inv[i].qty, Multiplier, inv[i].side)
      /\ p[i] = Notional(inv[i].entry, inv[i].qty, Multiplier, inv[i].side)
  BY <1>1
<1>10. Worth(inv, price) = Sum(w) /\ Worth(new, price) = Sum(ww)
      /\ Stake(inv) = Sum(p) /\ Stake(new) = Sum(pp)
  BY DEF Worth, Stake
<1> HIDE DEF w, ww, p, pp
<1>11. Sum(ww) = Sum(w) - w[i] /\ Sum(pp) = Sum(p) - p[i]
  BY <1>7, <1>8, <1>9, SumDrop
<1>12. QED
  BY <1>2, <1>6, <1>9, <1>10, <1>11

-----------------------------------------------------------------------------
(* The fills of one order.                                                 *)

\* What an offset and a mid come to.
LEMMA NaivePriceType ==
  ASSUME NEW q, IsQuote(q), NEW side \in Sides, NEW qty \in Nat
  PROVE  NaivePrice(q.mid, side, AdverseOffset(Model, q, qty)) \in Int
<1>1. PICK mid, ask, bid \in Int : mid = q.mid /\ ask = q.ask /\ bid = q.bid
  BY DEF IsQuote
<1>2. AdverseOffset(Model, q, qty) \in Int
  <2>1. CASE Model.kind = "None"
    BY <2>1 DEF AdverseOffset
  <2>2. CASE Model.kind \in {"FixedCents", "SizeProportional"} /\ Model.cents \in Nat
    <3>1. PICK cents \in Nat : cents = Model.cents
      BY <2>2
    <3>2. cents * qty \in Int
      BY <3>1
    <3>3. CASE Model.kind = "FixedCents"
      BY <3>1, <3>3 DEF AdverseOffset
    <3>4. CASE Model.kind = "SizeProportional"
      BY <3>1, <3>2, <3>4 DEF AdverseOffset
    <3>5. QED
      BY <2>2, <3>3, <3>4
  <2>3. CASE Model.kind = "SpreadFraction" /\ Model.num \in Nat /\ Model.den \in Nat \ {0}
    <3>1. PICK num, den \in Int : num = Model.num /\ den = Model.den /\ den > 0
      BY <2>3
    <3>2. PICK a, b \in Int : a = (ask - bid) * num /\ b = 2 * den /\ b > 0
      BY <3>1
    <3>3. RoundHalfEven(a, b) \in Int
      BY <3>2, RoundType
    <3>4. AdverseOffset(Model, q, qty) = RoundHalfEven(a, b)
      BY <1>1, <2>3, <3>1, <3>2 DEF AdverseOffset
    <3>5. QED
      BY <3>3, <3>4
  <2>4. QED
    BY <2>1, <2>2, <2>3, LedgerAssumption DEF IsModel
<1>3. PICK off \in Int : off = AdverseOffset(Model, q, qty)
  BY <1>2
<1>4. PICK s \in Int : s = SideSign(side)
  BY SignType
<1>5. mid + off * s \in Int
  BY <1>1, <1>3, <1>4
<1>6. QED
  BY <1>1, <1>3, <1>4, <1>5 DEF NaivePrice

LEMMA SlippageType ==
  ASSUME NEW price \in Int, NEW mid \in Int, NEW qty \in Int, NEW side \in Sides
  PROVE  SlippageCents(price, mid, qty, side) \in Int
<1>1. PICK s \in Int : s = SideSign(side)
  BY SignType
<1>2. (price - mid) * qty * s \in Int
  BY <1>1
<1>3. QED
  BY <1>1, <1>2 DEF SlippageCents

\* No fills cost nothing.
LEMMA NoFills ==
  /\ QtyOf(<<>>) = 0 /\ PaidOf(<<>>) = 0 /\ FeesOf(<<>>) = 0 /\ SlipOf(<<>>) = 0
  /\ \A side, mid : IsOrder(<<>>, side, mid)
<1>1. DOMAIN <<>> = {} /\ <<>> \in Seq(FillRecords)
  OBVIOUS
<1>2. QED
  BY <1>1, NoSum DEF QtyOf, PaidOf, FeesOf, SlipOf, IsOrder

\* A single fill.
LEMMA OneFill ==
  ASSUME NEW f, NEW lot, lot = <<f>>, f.qty \in Int, f.price \in Int
  PROVE  QtyOf(lot) = f.qty /\ PaidOf(lot) = f.price * f.qty
<1> DEFINE e == [i \in {} |-> 0]
           q == [i \in DOMAIN lot |-> lot[i].qty]
           p == [i \in DOMAIN lot |-> lot[i].price * lot[i].qty]
<1>1. DOMAIN lot = 1..(0 + 1) /\ lot[0 + 1] = f /\ 0 \in Nat
  OBVIOUS
<1>2. e \in [1..0 -> Int] /\ DOMAIN e = {}
  OBVIOUS
<1>3. f.price * f.qty \in Int
  OBVIOUS
<1>4. /\ q \in [1..(0 + 1) -> Int] /\ p \in [1..(0 + 1) -> Int]
      /\ q[0 + 1] = f.qty /\ p[0 + 1] = f.price * f.qty
  BY <1>1, <1>3
<1>5. \A i \in 1..0 : q[i] = e[i] /\ p[i] = e[i]
  OBVIOUS
<1> HIDE DEF e, q, p
<1>6. Sum(q) = Sum(e) + q[0 + 1] /\ Sum(p) = Sum(e) + p[0 + 1]
  BY <1>1, <1>2, <1>4, <1>5, SumGrow
<1>7. Sum(e) = 0
  BY <1>2, NoSum
<1>8. QED
  BY <1>3, <1>4, <1>6, <1>7 DEF QtyOf, PaidOf, q, p

LEMMA NaiveOrder ==
  ASSUME NEW q, IsQuote(q), NEW side \in Sides, NEW qty \in Nat \ {0}
  PROVE  /\ IsOrder(<<NaiveFill(Model, Fees, q, side, qty)>>, side, q.mid)
         /\ QtyOf(<<NaiveFill(Model, Fees, q, side, qty)>>) = qty
<1>1. PICK price \in Int : price = NaivePrice(q.mid, side, AdverseOffset(Model, q, qty))
  BY NaivePriceType
<1>2. q.mid \in Int
  BY DEF IsQuote
<1>3. FeeForFill(Fees, qty, TRUE) \in Nat
  BY FeeType
<1>4. SlippageCents(price, q.mid, qty, side) \in Int
  BY <1>2, SlippageType
<1>5. PICK f : f = NaiveFill(Model, Fees, q, side, qty)
  OBVIOUS
<1>6. f = [side |-> side, qty |-> qty, price |-> price, fees |-> FeeForFill(Fees, qty, TRUE),
           slippage |-> SlippageCents(price, q.mid, qty, side)]
  BY <1>1, <1>5 DEF NaiveFill
<1>7. /\ f \in FillRecords /\ f.side = side /\ f.qty = qty /\ f.price = price
      /\ f.slippage = SlippageCents(f.price, q.mid, f.qty, side)
  BY <1>1, <1>3, <1>4, <1>6 DEF FillRecords
<1>8. IsOrder(<<f>>, side, q.mid)
  <2>1. <<f>> \in Seq(FillRecords) /\ DOMAIN <<f>> = {1} /\ <<f>>[1] = f
    BY <1>7
  <2>2. QED
    BY <1>7, <2>1 DEF IsOrder
<1>9. QtyOf(<<f>>) = qty
  BY <1>7, OneFill
<1>10. QED
  BY <1>5, <1>8, <1>9

\* The books of the quotes, while orders may take from them.
Trading == pc \in {"carry", "trade"}
Booked ==
  mode = "realistic" /\ Trading =>
    /\ books \in [DOMAIN Snapshot -> [{"ask", "bid"} -> Seq(Int \X (Nat \ {0}))]]
    /\ \A c \in DOMAIN Snapshot :
         IsDepth(books[c]["ask"], "Long") /\ IsDepth(books[c]["bid"], "Short")

LEMMA TakesFacts ==
  ASSUME NEW side \in Sides
  PROVE  /\ Takes(side) \in {"ask", "bid"}
         /\ Takes("Long") = "ask" /\ Takes("Short") = "bid"
BY DEF Takes, Sides

LEMMA BookOfSide ==
  ASSUME Booked, Trading, mode = "realistic", NEW c \in DOMAIN Snapshot, NEW side \in Sides
  PROVE  IsDepth(books[c][Takes(side)], side)
BY DEF Booked, Takes, Sides

LEMMA FillsWithinFacts ==
  ASSUME Booked, Trading, mode \in {"naive", "realistic"}, NEW c \in DOMAIN Snapshot,
         IsQuote(Snapshot[c]), NEW side \in Sides, NEW qty \in Nat \ {0}, NEW limit \in Int,
         NEW lot, lot = FillsWithin(c, side, qty, limit)
  PROVE  /\ IsOrder(lot, side, Snapshot[c].mid)
         /\ QtyOf(lot) \in 0..qty
<1>1. Snapshot[c].mid \in Int
  BY DEF IsQuote
<1>2. CASE mode = "naive"
  <2>1. lot = <<NaiveFill(Model, Fees, Snapshot[c], side, qty)>>
    BY <1>2 DEF FillsWithin
  <2>2. QED
    BY <2>1, NaiveOrder
<1>3. CASE mode = "realistic"
  <2>1. PICK book : book = books[c][Takes(side)]
    OBVIOUS
  <2>2. IsDepth(book, side)
    BY <1>3, <2>1, BookOfSide
  <2>3. PICK mid \in Int : mid = Snapshot[c].mid
    BY <1>1
  <2>4. lot = LevelFills(book, Taken(book, side, limit, qty), Fees, side, mid)
    BY <1>3, <2>1, <2>3 DEF FillsWithin, TakenFrom
  <2>5. IsOrder(lot, side, mid) /\ QtyOf(lot) <= qty
    BY <2>2, <2>4, LevelFillsFacts
  <2>6. QtyOf(lot) \in Nat
    BY <2>5, OrderTypes
  <2>7. QED
    BY <2>3, <2>5, <2>6
<1>4. QED
  BY <1>2, <1>3

\* What an order does to a book keeps every book in order.
LEMMA RouteKeepsBooks ==
  ASSUME Booked, Trading, mode \in {"naive", "realistic"}, NEW c \in DOMAIN Snapshot,
         NEW side \in Sides, NEW qty \in Nat \ {0}, NEW limit \in Int,
         mode = "realistic" =>
           books' = [books EXCEPT ![c][Takes(side)] =
                       Consumed(@, Taken(books[c][Takes(side)], side, limit, qty))],
         UNCHANGED <<mode, tape>>, pc' = pc \/ pc' = "trade"
  PROVE  Booked'
<1>1. SUFFICES ASSUME mode = "realistic" PROVE Booked'
  BY DEF Booked
<1>2. PICK book : book = books[c][Takes(side)]
  OBVIOUS
<1>3. IsDepth(book, side)
  BY <1>1, <1>2, BookOfSide
<1>4. PICK left : left = Consumed(book, Taken(book, side, limit, qty))
  OBVIOUS
<1>5. IsDepth(left, side)
  BY <1>3, <1>4, ConsumedIsDepth
<1>6. left \in Seq(Int \X (Nat \ {0}))
  BY <1>5 DEF IsDepth
<1>7. books' = [books EXCEPT ![c] = [books[c] EXCEPT ![Takes(side)] = left]]
  BY <1>1, <1>2, <1>4
<1>8. books \in [DOMAIN Snapshot -> [{"ask", "bid"} -> Seq(Int \X (Nat \ {0}))]]
  BY <1>1 DEF Booked
<1>9. Takes(side) \in {"ask", "bid"}
  BY TakesFacts
<1>10. books' \in [DOMAIN Snapshot -> [{"ask", "bid"} -> Seq(Int \X (Nat \ {0}))]]
  BY <1>6, <1>7, <1>8, <1>9
<1>11. ASSUME NEW d \in DOMAIN Snapshot
       PROVE  IsDepth(books'[d]["ask"], "Long") /\ IsDepth(books'[d]["bid"], "Short")
  <2>1. IsDepth(books[d]["ask"], "Long") /\ IsDepth(books[d]["bid"], "Short")
    BY <1>1 DEF Booked
  <2>2. CASE d # c
    <3>1. books'[d] = books[d]
      BY <1>7, <1>8, <2>2
    <3>2. QED
      BY <2>1, <3>1
  <2>3. CASE d = c
    <3>1. books'[d] = [books[d] EXCEPT ![Takes(side)] = left]
      BY <1>7, <1>8, <2>3
    <3>2. books[d] \in [{"ask", "bid"} -> Seq(Int \X (Nat \ {0}))]
      BY <1>8
    <3>3. CASE side = "Long"
      <4>1. Takes(side) = "ask"
        BY <3>3 DEF Takes
      <4>2. books'[d]["ask"] = left /\ books'[d]["bid"] = books[d]["bid"]
        BY <3>1, <3>2, <4>1
      <4>3. QED
        BY <1>5, <2>1, <3>3, <4>2
    <3>4. CASE side = "Short"
      <4>1. Takes(side) = "bid"
        BY <3>4 DEF Takes
      <4>2. books'[d]["bid"] = left /\ books'[d]["ask"] = books[d]["ask"]
        BY <3>1, <3>2, <4>1
      <4>3. QED
        BY <1>5, <2>1, <3>4, <4>2
    <3>5. QED
      BY <3>3, <3>4 DEF Sides
  <2>4. QED
    BY <2>2, <2>3
<1>12. Snapshot' = Snapshot
  BY DEF Snapshot, n
<1>13. QED
  BY <1>10, <1>11, <1>12 DEF Booked

\* The fills of the order that rests: at its own limit, against the mid it was
\* decided at.
LEMMA CarryFillsFacts ==
  ASSUME Booked, Trading, mode = "realistic", NEW w, w.contract \in DOMAIN Snapshot,
         w.side \in Sides, w.limit \in Nat, w.left \in Nat \ {0}, w.mid \in Int,
         NEW lot, lot = CarryFills(w)
  PROVE  /\ IsOrder(lot, w.side, w.mid)
         /\ PaidOf(lot) = w.limit * QtyOf(lot)
         /\ QtyOf(lot) \in 0..w.left
<1>1. PICK book : book = books[w.contract][Takes(w.side)]
  OBVIOUS
<1>2. PICK side \in Sides, limit \in Nat, left \in Nat \ {0}, mid \in Int :
        side = w.side /\ limit = w.limit /\ left = w.left /\ mid = w.mid
  OBVIOUS
<1>3. IsDepth(book, side)
  BY <1>1, <1>2, BookOfSide
<1>4. PICK levels : levels = LevelFills(book, Taken(book, side, limit, left), Fees, side, 0)
  OBVIOUS
<1>5. IsOrder(levels, side, 0) /\ QtyOf(levels) <= left
  BY <1>3, <1>4, LevelFillsFacts
<1>6. PICK z \in Nat : z = Len(levels) /\ DOMAIN levels = 1..z
  BY <1>5, OrderTypes
<1>7. \A i \in 1..z : levels[i].qty \in Nat \ {0} /\ levels[i] \in FillRecords
                      /\ levels[i].side = side
  <2>1. levels \in Seq(FillRecords) /\ \A i \in DOMAIN levels : levels[i].side = side
    BY <1>5 DEF IsOrder
  <2>2. \A i \in DOMAIN levels : levels[i].qty \in Nat \ {0}
    BY <1>5, OrderTypes
  <2>3. QED
    BY <1>6, <2>1, <2>2
<1>8. lot = [i \in 1..z |->
         [levels[i] EXCEPT !.price = limit,
            !.fees = FeeForFill(Fees, levels[i].qty, i = 1 /\ ~w.charged),
            !.slippage = SlippageCents(limit, mid, levels[i].qty, side)]]
  BY <1>1, <1>2, <1>4, <1>6 DEF CarryFills, CarryTaken, DecisionMid
<1>9. ASSUME NEW i \in 1..z
      PROVE  /\ lot[i] \in FillRecords /\ lot[i].side = side
             /\ lot[i].qty = levels[i].qty /\ lot[i].price = limit
             /\ lot[i].slippage = SlippageCents(limit, mid, lot[i].qty, side)
  <2>1. PICK qty \in Nat \ {0} : qty = levels[i].qty
    BY <1>7
  <2>2. PICK fees \in Nat : fees = FeeForFill(Fees, qty, i = 1 /\ ~w.charged)
    BY FeeType
  <2>3. PICK slip \in Int : slip = SlippageCents(limit, mid, qty, side)
    BY SlippageType
  <2>4. lot[i] = [levels[i] EXCEPT !.price = limit, !.fees = fees, !.slippage = slip]
    BY <1>8, <2>1, <2>2, <2>3
  <2>5. levels[i] \in FillRecords /\ levels[i].side = side
    BY <1>7
  <2>6. PICK r \in FillRecords : r = levels[i] /\ r.side = side /\ r.qty = qty
    BY <2>1, <2>5
  <2>7. PICK f : f = [r EXCEPT !.price = limit, !.fees = fees, !.slippage = slip]
    OBVIOUS
  <2>8. f = [side |-> r.side, qty |-> r.qty, price |-> limit, fees |-> fees, slippage |-> slip]
    BY <2>6, <2>7 DEF FillRecords
  <2>9. f \in FillRecords /\ f.side = side /\ f.qty = qty /\ f.price = limit /\ f.slippage = slip
    BY <2>6, <2>8 DEF FillRecords
  <2>10. QED
    BY <2>1, <2>3, <2>4, <2>6, <2>7, <2>9
<1>10. DOMAIN lot = 1..z
  BY <1>8
<1>11. IsOrder(lot, side, mid)
  <2>1. lot \in [1..z -> FillRecords]
    BY <1>8, <1>9
  <2>2. lot \in Seq(FillRecords)
    BY <2>1
  <2>3. QED
    BY <1>9, <1>10, <2>2 DEF IsOrder
<1> DEFINE q == [i \in DOMAIN lot |-> lot[i].qty]
           p == [i \in DOMAIN lot |-> lot[i].price * lot[i].qty]
<1>12. QtyOf(lot) = QtyOf(levels)
  <2>1. q = [i \in DOMAIN levels |-> levels[i].qty]
    BY <1>6, <1>9, <1>10
  <2>2. QED
    BY <2>1 DEF QtyOf
<1>13. PaidOf(lot) = limit * QtyOf(lot)
  <2>1. q \in [1..z -> Int] /\ DOMAIN p = 1..z /\ limit \in Int
    BY <1>7, <1>9, <1>10
  <2>2. \A i \in 1..z : p[i] = limit * q[i]
    BY <1>9, <1>10
  <2> HIDE DEF q, p
  <2>3. Sum(p) = limit * Sum(q)
    BY <2>1, <2>2, SumScaled
  <2>4. QED
    BY <2>3 DEF q, p, PaidOf, QtyOf
<1>14. QtyOf(lot) \in Nat
  BY <1>11, OrderTypes
<1>15. QED
  BY <1>2, <1>5, <1>11, <1>12, <1>13, <1>14

\* Their average: exact when there is nothing to round.
LEMMA AverageOf ==
  ASSUME NEW side \in Sides, NEW mid \in Int, NEW lot, IsOrder(lot, side, mid), lot # <<>>,
         NEW v, v = AggregateFills(lot).price
  PROVE  /\ v \in Int /\ Swept(lot) \in Nat
         /\ 2 * (v * QtyOf(lot) - PaidOf(lot)) \in -Swept(lot)..Swept(lot)
         /\ AggregateFills(lot).qty = QtyOf(lot) /\ QtyOf(lot) \in Nat \ {0}
         /\ AggregateFills(lot).fees = FeesOf(lot)
<1>1. PICK q \in Nat \ {0}, p \in Int : q = QtyOf(lot) /\ p = PaidOf(lot)
  BY OrderTypes
<1>2. v = VwapCents(p, q) /\ AggregateFills(lot).qty = q
      /\ AggregateFills(lot).fees = FeesOf(lot)
  BY <1>1, AggregateIs
<1>3. v \in Int /\ 2 * (v * q - p) \in -q..q
  BY <1>2, AverageError
<1>4. CASE Len(lot) > 1
  BY <1>1, <1>2, <1>3, <1>4 DEF Swept
<1>5. CASE ~(Len(lot) > 1)
  <2>1. lot \in Seq(FillRecords) /\ Len(lot) \in Nat
    BY OrderTypes DEF IsOrder
  <2>2. Len(lot) = 1
    <3>1. \A seq \in Seq(FillRecords) : seq # <<>> => Len(seq) \in Nat \ {0}
      BY EmptySeq, Zenon
    <3>2. lot # <<>>
      OBVIOUS
    <3>3. Len(lot) # 0
      BY <2>1, <3>1, <3>2
    <3>4. PICK l \in Nat : l = Len(lot)
      BY <2>1
    <3>5. ~(l > 1) /\ l # 0
      BY <1>5, <3>3, <3>4
    <3>6. l = 1
      BY <3>5
    <3>7. QED
      BY <3>4, <3>6
  <2>3. PICK f : f = lot[1]
    OBVIOUS
  <2>4. lot = <<f>>
    <3>1. <<f>> \in Seq({f}) /\ Len(<<f>>) = 1 /\ <<f>>[1] = f
      OBVIOUS
    <3>2. DOMAIN lot = {1} /\ DOMAIN <<f>> = {1}
      BY <2>1, <2>2
    <3>3. lot = [i \in DOMAIN lot |-> lot[i]] /\ <<f>> = [i \in {1} |-> f]
      BY <2>1, <3>1, <3>2
    <3>4. QED
      BY <2>3, <3>2, <3>3
  <2>5. f.qty \in Int /\ f.price \in Int
    BY <2>1, <2>2, <2>3, OrderTypes
  <2>6. q = f.qty /\ p = f.price * q
    BY <1>1, <2>4, <2>5, OneFill
  <2>7. v = f.price
    BY <1>2, <2>5, <2>6, AverageExact
  <2>8. v * q - p = 0
    BY <2>5, <2>6, <2>7
  <2>9. Swept(lot) = 0
    BY <1>5 DEF Swept
  <2>10. QED
    BY <1>1, <1>2, <1>3, <2>8, <2>9
<1>6. QED
  BY <1>4, <1>5

\* What an order does to the cash and the friction of the step.
LEMMA OrderEffects ==
  ASSUME NEW side \in Sides, NEW mid \in Int, NEW lot, IsOrder(lot, side, mid),
         cash \in Int, stepSlippage \in Int, stepFees \in Int, ApplyFills(lot),
         NEW K, K = Multiplier * SideSign(side)
  PROVE  /\ K \in Int
         /\ cash' = cash - PaidOf(lot) * K - FeesOf(lot)
         /\ stepSlippage' = stepSlippage + (PaidOf(lot) - mid * QtyOf(lot)) * K
         /\ stepFees' = stepFees + FeesOf(lot)
         /\ cash' \in Int /\ stepSlippage' \in Int /\ stepFees' \in Int
<1>0. PICK M \in Nat : M = Multiplier
  BY LedgerAssumption
<1>1. PICK s \in Int : M = Multiplier /\ s = SideSign(side)
  BY <1>0, SignType
<1>2. PICK P, Q, F, S \in Int :
        P = PaidOf(lot) /\ Q = QtyOf(lot) /\ F = FeesOf(lot) /\ S = SlipOf(lot)
  <2>1. /\ PaidOf(lot) \in Int /\ QtyOf(lot) \in Nat
        /\ FeesOf(lot) \in Nat /\ SlipOf(lot) \in Int
    BY OrderTypes, Zenon
  <2>2. QtyOf(lot) \in Int /\ FeesOf(lot) \in Int
    BY <2>1
  <2>3. QED
    BY <2>1, <2>2, Zenon
<1>3. /\ S = (P - mid * Q) * s
      /\ Sum(MapSeq(NetFlow, lot)) = -(P * (M * s)) - F
      /\ Sum(MapSeq(ScaledSlippage, lot)) = M * S
  BY <1>1, <1>2, OrderSums
<1>4. Sum(MapSeq(LAMBDA f : f.fees, lot)) = F
  BY <1>2 DEF MapSeq, FeesOf
<1>5. /\ cash' = cash + Sum(MapSeq(NetFlow, lot))
      /\ stepSlippage' = stepSlippage + M * S
      /\ stepFees' = stepFees + F
  BY <1>3, <1>4 DEF ApplyFills, Applied, After
<1>6. K = M * s /\ K \in Int /\ P * K \in Int
  BY <1>1
<1>7. M * ((P - mid * Q) * s) = (P - mid * Q) * (M * s) /\ (P - mid * Q) * (M * s) \in Int
  BY <1>1
<1>8. QED
  BY <1>2, <1>3, <1>5, <1>6, <1>7

\* It fits, since its last partial sum does.
LEMMA FitsAfter ==
  ASSUME NEW side \in Sides, NEW mid \in Int, NEW lot, IsOrder(lot, side, mid),
         Fits(cash), ~Overflows(lot), ApplyFills(lot)
  PROVE  Fits(cash')
<1>1. cash' = After(lot)
  BY DEF ApplyFills, Applied
<1>2. lot \in Seq(FillRecords) /\ Len(lot) \in Nat
  BY OrderTypes DEF IsOrder
<1>3. CASE lot # <<>>
  <2>1. Len(lot) \in DOMAIN lot
    BY <1>2, <1>3
  <2>2. SubSeq(lot, 1, Len(lot)) = lot
    BY <1>2, SubSeqFull
  <2>3. Fits(After(SubSeq(lot, 1, Len(lot))))
    BY <2>1 DEF Overflows
  <2>4. QED
    BY <1>1, <2>2, <2>3
<1>4. CASE lot = <<>>
  <2>1. DOMAIN MapSeq(NetFlow, lot) = {}
    BY <1>4 DEF MapSeq
  <2>2. Sum(MapSeq(NetFlow, lot)) = 0
    BY <2>1, NoSum
  <2>3. cash \in Int
    BY LedgerAssumption DEF Fits
  <2>4. cash' = cash
    BY <1>1, <2>2, <2>3 DEF After
  <2>5. QED
    BY <2>4 DEF Fits
<1>5. QED
  BY <1>3, <1>4

\* An order moves cash into holdings and friction, and nothing else but what
\* the mid has drifted since it was decided.
LEMMA BalanceKept ==
  ASSUME NEW P \in Int, NEW K \in Int, NEW F \in Int, NEW Q \in Int, NEW mid \in Int,
         NEW price \in Int, NEW c \in Int, NEW slip \in Int, NEW fee \in Int, NEW W \in Int,
         NEW D \in Int, NEW B \in Int, c + W + slip + fee = B + D
  PROVE  (c - P * K - F) + (W + (price * Q) * K) + (slip + (P - mid * Q) * K) + (fee + F)
           = B + (D + ((price - mid) * Q) * K)
<1>1. PICK x, y, z \in Int : x = P * K /\ y = (mid * Q) * K /\ z = (price * Q) * K
  OBVIOUS
<1>2. (P - mid * Q) * K = x - y
  <2>1. \A a, b, e \in Int : (a - b) * e = a * e - b * e
    OBVIOUS
  <2>2. mid * Q \in Int
    OBVIOUS
  <2>3. QED
    BY <1>1, <2>1, <2>2
<1>3. ((price - mid) * Q) * K = z - y
  <2>1. \A a, b, e \in Int : (a - b) * e = a * e - b * e
    OBVIOUS
  <2>2. mid * Q \in Int /\ price * Q \in Int /\ (price - mid) * Q = price * Q - mid * Q
    BY <2>1
  <2>3. QED
    BY <1>1, <2>1, <2>2
<1>4. QED
  BY <1>1, <1>2, <1>3

\* A rounding of e cents per unit of the multiplier.
LEMMA ErrorKept ==
  ASSUME NEW M \in Nat, NEW K \in {M, -M}, NEW X \in Int, NEW s \in Nat, NEW t \in Nat,
         NEW e \in Int, 2 * X \in -(M * s)..(M * s), 2 * e \in -t..t
  PROVE  2 * (X + e * K) \in -(M * (s + t))..(M * (s + t))
<1>1. PICK a, b, d \in Int : a = M * s /\ b = M * t /\ d = M * e
  OBVIOUS
<1>2. M * (s + t) = a + b
  BY <1>1
<1>3. e * K \in {d, -d}
  BY <1>1
<1>4. M * (2 * e) <= M * t /\ -(M * t) <= M * (2 * e) /\ M * (2 * e) = 2 * d
  <2>1. \A x \in Nat : \A u, v \in Int : u <= v => x * u <= x * v
    OBVIOUS
  <2>2. 2 * e <= t /\ -t <= 2 * e /\ 2 * e \in Int /\ t \in Int /\ -t \in Int
    OBVIOUS
  <2>3. M * (2 * e) <= M * t /\ M * (-t) <= M * (2 * e)
    BY <2>1, <2>2
  <2>4. M * (-t) = -(M * t) /\ M * (2 * e) = 2 * (M * e)
    OBVIOUS
  <2>5. QED
    BY <1>1, <2>3, <2>4
<1>5. PICK g \in Int : g = e * K /\ g \in {d, -d}
  BY <1>3
<1>6. 2 * (X + g) \in -(a + b)..(a + b)
  BY <1>1, <1>4, <1>5
<1>7. QED
  BY <1>2, <1>5, <1>6

-----------------------------------------------------------------------------
(* The inductive invariant.                                                *)

Rows == [id : Nat, contract : Contracts, side : Sides, qty : Nat \ {0}, mark : Int,
         stale : BOOLEAN, unrealized : Int]
Points == [cash : Int, equity : Int, peak : Int]
Scalars == [ts : Int, prior_ts : Int, underlying : Int, prior_underlying : Int,
            spread : Int, fees : Int, pnl : Int, count : Nat]
Samples == [known : BOOLEAN, prior : AllQuotes, qty : Nat \ {0}, side : Sides, iv : Int]
Attributions == [theta : Int, delta : Int, vega : Int, spread : Int, fees : Int, residual : Int]
Carryings == [step : Nat, since : Nat, contract : Contracts, side : Sides, qty : Nat]

Settled == pc \in {"step", "attribute", "done"}

Shape ==
  /\ mode \in {"naive", "realistic"} /\ mode \in DOMAIN MaxTrades
  /\ tape \in Seq(Snapshots) /\ n <= Len(Days)
  /\ trades \in Nat
  /\ inventory \in Seq(Legs) /\ beginStep \in Seq(Legs)
  /\ stepSlippage \in Int /\ stepFees \in Int /\ openFees \in Int /\ swept \in Nat
  /\ log \in Seq(Int) /\ positions \in Seq(Seq(Rows)) /\ curve \in Seq(Points)
  /\ steps \in Seq(Scalars) /\ legs \in Seq(Samples) /\ rows \in Seq(Attributions)
  /\ carried \in Seq(Carryings)

\* One entry per settled step in every table; no rows before the last one.
Counted ==
  /\ Trading => n > 0 /\ Len(steps) = n - 1
  /\ Settled => Len(steps) = n
  /\ Len(steps) <= n
  /\ pc \notin {"attribute", "done"} => rows = <<>> /\ offset = 0

\* Position ids are never used twice.
Identified ==
  /\ \A i \in DOMAIN inventory : inventory[i].id < trades
  /\ \A i, j \in DOMAIN inventory : i # j => inventory[i].id # inventory[j].id

\* The order that rests is for a contract quoted when it was submitted, and
\* the leg it opens or reduces is one of that contract.
IsResting(w) ==
  /\ DOMAIN w = {"contract", "side", "limit", "left", "mid", "step", "charged", "leg"}
  /\ w.contract \in Contracts /\ w.side \in Sides /\ w.limit \in Nat
  /\ w.left \in Nat \ {0}
  /\ w.step \in 1..n /\ w.contract \in DOMAIN tape[w.step]
  /\ w.mid = tape[w.step][w.contract].mid
  /\ w.leg.action \in {"open", "close"} /\ w.leg.id \in Nat /\ w.leg.id < trades
  /\ \A i \in LegOf(w) :
       /\ inventory[i].contract = w.contract
       /\ inventory[i].side = IF w.leg.action = "open" THEN w.side ELSE Opposite(w.side)
Rests ==
  /\ working = <<>> \/ (mode = "realistic" /\ \E w : working = <<w>> /\ IsResting(w))
  /\ pc = "carry" => working # <<>>

IsCarried(c) ==
  /\ c.step \in 1..n /\ c.since \in 1..c.step
  /\ c.contract \in DOMAIN tape[c.step] /\ c.contract \in DOMAIN tape[c.since]
Carries == \A i \in DOMAIN carried : IsCarried(carried[i])

\* The retained mark and Greeks of a leg are those of the last quote seen.
IsRetained(c, m) ==
  /\ Quoted(c, m)
  /\ c \in DOMAIN marks /\ marks[c] = LastSeen(c, m).mid
  /\ c \in DOMAIN greeks /\ greeks[c] = LastSeen(c, m)
Marked ==
  /\ Settled => \A i \in DOMAIN inventory : IsRetained(inventory[i].contract, n)
  /\ Trading =>
       /\ \A i \in DOMAIN beginStep : IsRetained(beginStep[i].contract, n - 1)
       /\ \A i \in DOMAIN inventory :
            \/ inventory[i].contract \in DOMAIN Snapshot
            \/ IsRetained(inventory[i].contract, n - 1)

\* The rows of the last settlement are the legs it found.
RowOf(leg, m) ==
  [id |-> leg.id, contract |-> leg.contract, side |-> leg.side, qty |-> leg.qty,
   mark |-> LastSeen(leg.contract, m).mid, stale |-> leg.contract \notin DOMAIN tape[m],
   unrealized |-> UnrealizedCents(LastSeen(leg.contract, m).mid, leg.entry, leg.qty,
                                  Multiplier, leg.side)]
Records(inv, m) ==
  IF m = 0 THEN inv = <<>> ELSE positions[m] = [i \in DOMAIN inv |-> RowOf(inv[i], m)]
Recorded ==
  /\ Settled => Records(inventory, n)
  /\ Trading => Records(beginStep, n - 1)
  /\ Settled => \A i \in DOMAIN inventory :
       inventory[i].contract \notin DOMAIN tape[n] => Days[n] < Expiry[inventory[i].contract]
  /\ \A m \in DOMAIN positions : \A i \in DOMAIN positions[m] :
       Quoted(positions[m][i].contract, m)

\* Cash, holdings and friction; the drift of what was carried into the step.
Mids(m) == [c \in Contracts |-> LastSeen(c, m).mid]
Drift(c) ==
  Notional(tape[c.step][c.contract].mid - tape[c.since][c.contract].mid,
           c.qty, Multiplier, c.side)
DriftAt(m) == Sum([i \in DOMAIN carried |->
                     IF carried[i].step = m THEN Drift(carried[i]) ELSE 0])
EquityAt(m) == IF m = 0 THEN Capital ELSE curve[m].equity

Balanced ==
  /\ Settled => /\ cash + Worth(inventory, Mids(n)) = prevEquity
                /\ stepSlippage = 0 /\ stepFees = 0
  /\ Trading => cash + Worth(inventory, Mids(n)) + stepSlippage + stepFees
                  = prevEquity + Worth(beginStep, Mids(n)) - Worth(beginStep, Mids(n - 1))
                      + DriftAt(n)
  /\ pc # "failed" => prevEquity = EquityAt(Len(steps))

\* The trade log against the cash.
Explained ==
  2 * (cash + Stake(inventory) - Capital - Sum(log) + openFees)
    \in -(Multiplier * swept)..(Multiplier * swept)

\* What the attribution pass finds: the scalars of each step, and the samples
\* of the legs it began with, after those of the steps before.
Off(m) == Sum([z \in 1..m |-> steps[z].count])
SampleOf(row, m) ==
  [known |-> TRUE, prior |-> LastSeen(row.contract, m - 1), qty |-> row.qty,
   side |-> row.side, iv |-> LastSeen(row.contract, m).iv]
StepBefore(m) == IF m = 1 THEN 1 ELSE m - 1
IsSampled(m) ==
  /\ steps[m].ts = Days[m] /\ steps[m].prior_ts = Days[StepBefore(m)]
  /\ steps[m].underlying = Underlying[m]
  /\ steps[m].prior_underlying = Underlying[StepBefore(m)]
  /\ steps[m].count = Len(RowsAt(m - 1))
  /\ steps[m].pnl = EquityAt(m) - EquityAt(m - 1)
  /\ \A i \in 1..steps[m].count :
       /\ RowsAt(m - 1)[i] \in Rows /\ Quoted(RowsAt(m - 1)[i].contract, m - 1)
       /\ legs[Off(m - 1) + i] = SampleOf(RowsAt(m - 1)[i], m)
Sampled ==
  /\ \A m \in DOMAIN steps : IsSampled(m)
  /\ Len(legs) = Off(Len(steps))
  /\ Len(rows) <= Len(steps) /\ offset = Off(Len(rows))

LedgerInv ==
  /\ TypeOK /\ Shape /\ Counted /\ Identified /\ Booked /\ Rests /\ Carries
  /\ Marked /\ Recorded /\ Balanced /\ Explained /\ Sampled
  /\ PnlExplained /\ TermsCoverHoldings

-----------------------------------------------------------------------------
(* What the invariant says of the legs.                                    *)

LEMMA TapeFacts ==
  ASSUME Shape
  PROVE  /\ n \in Nat /\ DOMAIN tape = 1..n /\ Len(Days) \in Nat
         /\ \A j \in 1..n : /\ DOMAIN tape[j] \subseteq Contracts
                            /\ \A c \in DOMAIN tape[j] : IsQuote(tape[j][c])
<1>1. n \in Nat /\ DOMAIN tape = 1..n
  BY DEF Shape, n
<1>2. Len(Days) \in Nat
  BY LedgerAssumption
<1>3. \A j \in 1..n : /\ DOMAIN tape[j] \subseteq Contracts
                      /\ \A c \in DOMAIN tape[j] : IsQuote(tape[j][c])
  <2>1. tape \in Seq(Snapshots)
    BY DEF Shape
  <2>2. QED
    BY <2>1, SnapshotFacts
<1>4. QED
  BY <1>1, <1>2, <1>3

\* Legs whose contracts have been quoted can be priced.
LEMMA PricedIf ==
  ASSUME Shape, NEW inv, inv \in Seq(Legs), NEW m \in Nat, m <= n,
         \A i \in DOMAIN inv : Quoted(inv[i].contract, m)
  PROVE  Priced(inv, Mids(m))
<1>1. ASSUME NEW i \in DOMAIN inv PROVE Mids(m)[inv[i].contract] \in Int
  <2>1. inv[i] \in Legs /\ Quoted(inv[i].contract, m)
    OBVIOUS
  <2>2. inv[i].contract \in Contracts
    BY <2>1, LegFacts
  <2>3. LastSeen(inv[i].contract, m).mid \in Nat
    <3>1. tape \in Seq(Snapshots)
      BY DEF Shape
    <3>2. QED
      BY <2>1, <3>1, LastSeenType
  <2>4. QED
    BY <2>2, <2>3 DEF Mids
<1>2. QED
  BY <1>1 DEF Priced

LEMMA QuotedLegs ==
  ASSUME Shape, Counted, Marked
  PROVE  /\ Settled => \A i \in DOMAIN inventory : Quoted(inventory[i].contract, n)
         /\ Trading => /\ \A i \in DOMAIN inventory : Quoted(inventory[i].contract, n)
                       /\ \A i \in DOMAIN beginStep : /\ Quoted(beginStep[i].contract, n - 1)
                                                      /\ Quoted(beginStep[i].contract, n)
<1>1. ASSUME Settled PROVE \A i \in DOMAIN inventory : Quoted(inventory[i].contract, n)
  BY <1>1 DEF Marked, IsRetained
<1>2. ASSUME Trading
      PROVE  /\ \A i \in DOMAIN inventory : Quoted(inventory[i].contract, n)
             /\ \A i \in DOMAIN beginStep : /\ Quoted(beginStep[i].contract, n - 1)
                                            /\ Quoted(beginStep[i].contract, n)
  <2>1. n \in Nat \ {0} /\ n - 1 \in Nat /\ n \in Nat /\ n - 1 <= n
    BY <1>2, TapeFacts DEF Counted
  <2>2. \A c : Quoted(c, n - 1) => Quoted(c, n)
    BY <2>1, QuotedLater
  <2>3. \A i \in DOMAIN beginStep : Quoted(beginStep[i].contract, n - 1)
    BY <1>2 DEF Marked, IsRetained
  <2>4. ASSUME NEW i \in DOMAIN inventory PROVE Quoted(inventory[i].contract, n)
    <3>1. CASE inventory[i].contract \in DOMAIN Snapshot
      BY <2>1, <3>1, LastSeenNow DEF Snapshot
    <3>2. CASE IsRetained(inventory[i].contract, n - 1)
      BY <2>2, <3>2 DEF IsRetained
    <3>3. QED
      BY <1>2, <3>1, <3>2 DEF Marked
  <2>5. QED
    BY <2>2, <2>3, <2>4
<1>3. QED
  BY <1>1, <1>2

LEMMA HeldPriced ==
  ASSUME Shape, Counted, Marked, Trading
  PROVE  /\ n \in Nat \ {0} /\ n - 1 \in Nat
         /\ Priced(inventory, Mids(n))
         /\ Priced(beginStep, Mids(n)) /\ Priced(beginStep, Mids(n - 1))
<1>1. n \in Nat \ {0} /\ n - 1 \in Nat /\ n \in Nat /\ n - 1 <= n /\ n <= n
  BY TapeFacts DEF Counted
<1>2. inventory \in Seq(Legs) /\ beginStep \in Seq(Legs)
  BY DEF Shape
<1>3. QED
  BY <1>1, <1>2, QuotedLegs, PricedIf

\* The last quote of a contract the snapshot quotes.
LEMMA PresentMid ==
  ASSUME Shape, n > 0, NEW c \in DOMAIN Snapshot
  PROVE  /\ c \in Contracts /\ IsQuote(Snapshot[c]) /\ Snapshot[c].mid \in Int
         /\ Mids(n)[c] = Snapshot[c].mid /\ LastSeen(c, n) = Snapshot[c] /\ Quoted(c, n)
<1>1. n \in Nat \ {0} /\ n \in 1..n
  BY TapeFacts
<1>2. c \in Contracts /\ IsQuote(Snapshot[c])
  BY <1>1, TapeFacts DEF Snapshot
<1>3. LastSeen(c, n) = Snapshot[c] /\ Quoted(c, n)
  BY <1>1, LastSeenNow DEF Snapshot
<1>4. QED
  BY <1>2, <1>3 DEF Mids, IsQuote

-----------------------------------------------------------------------------
(* The initial states.                                                     *)

LEMMA NothingHeld ==
  ASSUME NEW price
  PROVE  Worth(<<>>, price) = 0 /\ Stake(<<>>) = 0 /\ Sum(<<>>) = 0
<1>1. DOMAIN <<>> = {}
  OBVIOUS
<1>2. QED
  BY <1>1, NoSum DEF Worth, Stake

LEMMA NoSteps ==
  Off(0) = 0
<1>1. 1..0 = {}
  OBVIOUS
<1>2. QED
  BY <1>1, NoSum DEF Off

LEMMA LedgerInit == Init => LedgerInv
<1> SUFFICES ASSUME Init PROVE LedgerInv
  OBVIOUS
<1> USE DEF Init
<1>0. /\ n = 0 /\ Settled /\ ~Trading /\ Len(steps) = 0 /\ Len(legs) = 0 /\ Len(rows) = 0
      /\ DOMAIN <<>> = {} /\ pc = "step" /\ Len(Days) \in Nat
  BY LedgerAssumption DEF n, Settled, Trading
<1>1. TypeOK
  BY <1>0, LedgerAssumption DEF TypeOK, Fits, NoMap
<1>2. Shape
  <2>1. mode \in {"naive", "realistic"}
    BY LedgerAssumption
  <2>2. \A S : <<>> \in Seq(S)
    OBVIOUS
  <2>3. QED
    BY <1>0, <2>1, <2>2 DEF Shape
<1>3. Counted
  BY <1>0 DEF Counted
<1>4. Identified
  BY DEF Identified
<1>5. Booked
  BY <1>0 DEF Booked
<1>6. Rests
  BY DEF Rests
<1>7. Carries
  BY DEF Carries
<1>8. Marked
  BY <1>0 DEF Marked
<1>9. Recorded
  BY <1>0 DEF Recorded, Records
<1>10. Balanced
  BY <1>0, NothingHeld, LedgerAssumption DEF Balanced, EquityAt
<1>11. Explained
  <2>1. Capital \in Int /\ Multiplier * 0 = 0
    BY LedgerAssumption
  <2>2. QED
    BY <2>1, NothingHeld DEF Explained
<1>12. Sampled
  BY <1>0, NoSteps DEF Sampled
<1>13. PnlExplained
  BY <1>0 DEF PnlExplained
<1>14. TermsCoverHoldings
  BY DEF TermsCoverHoldings
<1>15. QED
  BY <1>1, <1>2, <1>3, <1>4, <1>5, <1>6, <1>7, <1>8, <1>9, <1>10, <1>11, <1>12, <1>13, <1>14
     DEF LedgerInv

-----------------------------------------------------------------------------
(* Steps that leave the tables alone.                                      *)

\* What the past says does not change while the tape is the same.
LEMMA SameTape ==
  ASSUME UNCHANGED tape
  PROVE  /\ n' = n /\ Snapshot' = Snapshot
         /\ \A c, m : LastSeen(c, m)' = LastSeen(c, m) /\ Quoted(c, m)' = Quoted(c, m)
         /\ \A m : Mids(m)' = Mids(m)
         /\ \A leg, m : RowOf(leg, m)' = RowOf(leg, m)
         /\ \A row, m : SampleOf(row, m)' = SampleOf(row, m)
<1>1. n' = n /\ Snapshot' = Snapshot
  BY DEF n, Snapshot
<1>2. \A c, m : SeenIn(c, m)' = SeenIn(c, m)
  BY DEF SeenIn
<1>3. \A c, m : LastSeen(c, m)' = LastSeen(c, m) /\ Quoted(c, m)' = Quoted(c, m)
  BY <1>2 DEF LastSeen, Quoted
<1>4. \A m : Mids(m)' = Mids(m)
  BY <1>3 DEF Mids
<1>5. \A leg, m : RowOf(leg, m)' = RowOf(leg, m)
  BY <1>3 DEF RowOf
<1>6. \A row, m : SampleOf(row, m)' = SampleOf(row, m)
  BY <1>3 DEF SampleOf
<1>7. QED
  BY <1>1, <1>3, <1>4, <1>5, <1>6

\* The terms of a step's attribution, leg by leg.
Gap(m)  == IF m = 1 THEN 0 ELSE Days[m] - Days[m - 1]
Move(m) == IF m = 1 THEN 0 ELSE Underlying[m] - Underlying[m - 1]
Thetas(m) ==
  [i \in DOMAIN RowsAt(m - 1) |->
     LastSeen(RowsAt(m - 1)[i].contract, m - 1).theta * Gap(m) * Weight(RowsAt(m - 1)[i])]
Deltas(m) ==
  [i \in DOMAIN RowsAt(m - 1) |->
     LastSeen(RowsAt(m - 1)[i].contract, m - 1).delta * Move(m) * Weight(RowsAt(m - 1)[i])]
Vegas(m) ==
  [i \in DOMAIN RowsAt(m - 1) |->
     LastSeen(RowsAt(m - 1)[i].contract, m - 1).vega
       * (LastSeen(RowsAt(m - 1)[i].contract, m).iv
            - LastSeen(RowsAt(m - 1)[i].contract, m - 1).iv)
       * Weight(RowsAt(m - 1)[i])]

LEMMA TermsAre ==
  ASSUME NEW m
  PROVE  /\ TermsOf(m).theta = RoundHalfEven(Sum(Thetas(m)), 2)
         /\ TermsOf(m).delta = RoundHalfEven(Sum(Deltas(m)), 2)
         /\ TermsOf(m).vega = RoundHalfEven(Sum(Vegas(m)), 2)
BY DEF TermsOf, MapSeq, Thetas, Deltas, Vegas, Gap, Move

\* The attribution of the past neither.
LEMMA SameTables ==
  ASSUME LedgerInv, UNCHANGED <<tape, settleVars, passVars>>
  PROVE  /\ Sampled' /\ TermsCoverHoldings'
         /\ \A m : EquityAt(m)' = EquityAt(m) /\ RowsAt(m)' = RowsAt(m)
<1>1. /\ UNCHANGED <<positions, curve, steps, legs, offset, rows>>
  BY DEF settleVars, passVars
<1>2. \A m : EquityAt(m)' = EquityAt(m) /\ RowsAt(m)' = RowsAt(m) /\ Off(m)' = Off(m)
  BY <1>1 DEF EquityAt, RowsAt, Off
<1>3. Sampled'
  <2>1. \A m : IsSampled(m)' = IsSampled(m)
    BY <1>1, <1>2, SameTape DEF IsSampled
  <2>2. QED
    BY <1>1, <1>2, <2>1 DEF Sampled, LedgerInv
<1>4. TermsCoverHoldings'
  <2>1. \A m : Thetas(m)' = Thetas(m) /\ Deltas(m)' = Deltas(m) /\ Vegas(m)' = Vegas(m)
    BY <1>2, SameTape DEF Thetas, Deltas, Vegas, Weight, Gap, Move
  <2>2. ASSUME NEW m
        PROVE  /\ TermsOf(m)'.theta = TermsOf(m).theta
               /\ TermsOf(m)'.delta = TermsOf(m).delta
               /\ TermsOf(m)'.vega = TermsOf(m).vega
    <3>1. /\ TermsOf(m)'.theta = RoundHalfEven(Sum(Thetas(m)'), 2)
          /\ TermsOf(m)'.delta = RoundHalfEven(Sum(Deltas(m)'), 2)
          /\ TermsOf(m)'.vega = RoundHalfEven(Sum(Vegas(m)'), 2)
      BY DEF TermsOf, MapSeq, Thetas, Deltas, Vegas, Gap, Move
    <3>2. QED
      BY <2>1, <3>1, TermsAre
  <2>3. TermsCoverHoldings
    BY DEF LedgerInv
  <2>4. QED
    BY <1>1, <2>2, <2>3 DEF TermsCoverHoldings
<1>5. QED
  BY <1>2, <1>3, <1>4

-----------------------------------------------------------------------------
(* The P&L of a step, leg by leg and carried order by carried order.       *)

Moves(m) ==
  [i \in DOMAIN RowsAt(m - 1) |->
     Notional(LastSeen(RowsAt(m - 1)[i].contract, m).mid - RowsAt(m - 1)[i].mark,
              RowsAt(m - 1)[i].qty, Multiplier, RowsAt(m - 1)[i].side)]

\* The drift of one order that had been resting, in the step it filled in.
DriftIn(c, m) == IF c.step = m THEN Drift(c) ELSE 0

Explains(m) ==
  steps[m].pnl = Sum(Moves(m)) + DriftAt(m) + steps[m].spread - steps[m].fees

LEMMA PnlIs == PnlExplained <=> \A m \in DOMAIN steps : Explains(m)
<1>1. ASSUME NEW m
      PROVE  [i \in DOMAIN carried |->
                IF carried[i].step = m
                THEN Notional(tape[m][carried[i].contract].mid
                                - tape[carried[i].since][carried[i].contract].mid,
                              carried[i].qty, Multiplier, carried[i].side)
                ELSE 0]
               = [i \in DOMAIN carried |->
                    IF carried[i].step = m THEN Drift(carried[i]) ELSE 0]
  BY DEF Drift
<1>2. QED
  BY <1>1 DEF PnlExplained, Explains, Moves, DriftAt, MapSeq

LEMMA PnlIsNext == PnlExplained' <=> \A m \in DOMAIN steps' : Explains(m)'
<1>1. ASSUME NEW m
      PROVE  [i \in DOMAIN carried |->
                IF carried[i].step = m
                THEN Notional(tape[m][carried[i].contract].mid
                                - tape[carried[i].since][carried[i].contract].mid,
                              carried[i].qty, Multiplier, carried[i].side)
                ELSE 0]'
               = [i \in DOMAIN carried |->
                    IF carried[i].step = m THEN Drift(carried[i]) ELSE 0]'
  BY DEF Drift
<1>2. QED
  BY <1>1 DEF PnlExplained, Explains, Moves, DriftAt, MapSeq

LEMMA PnlSame ==
  ASSUME UNCHANGED <<tape, steps, positions, carried>>, PnlExplained
  PROVE  PnlExplained'
<1>1. \A m : Moves(m)' = Moves(m)
  BY SameTape DEF Moves, RowsAt
<1>2. \A m : DriftAt(m)' = DriftAt(m)
  BY DEF DriftAt, Drift
<1>3. \A m : Explains(m)' = Explains(m)
  BY <1>1, <1>2 DEF Explains
<1>4. QED
  BY <1>3, PnlIs, PnlIsNext

-----------------------------------------------------------------------------
(* A run that aborts keeps its books as they are.                          *)

LEMMA AbortKeeps ==
  ASSUME LedgerInv, pc \in {"carry", "trade"}, Abort
  PROVE  LedgerInv'
<1>1. /\ UNCHANGED <<mode, tape, beginStep, books, working, cash, stepSlippage, stepFees,
                     openFees, swept, carried, log, inventory, trades, peak, prevEquity,
                     marks, greeks, positions, curve, steps, legs, offset, rows>>
      /\ UNCHANGED <<settleVars, passVars>> /\ pc' = "failed"
  BY DEF Abort, bookVars, settleVars, passVars
<1>2. ~Settled' /\ ~Trading'
  BY <1>1 DEF Settled, Trading
<1>3. Sampled' /\ TermsCoverHoldings'
  BY <1>1, SameTables
<1>4. TypeOK'
  BY <1>1 DEF LedgerInv, TypeOK
<1>5. Shape'
  BY <1>1, SameTape DEF LedgerInv, Shape
<1>6. Counted'
  BY <1>1, <1>2, SameTape DEF LedgerInv, Counted
<1>7. Identified'
  BY <1>1 DEF LedgerInv, Identified
<1>8. Booked'
  BY <1>2 DEF Booked
<1>9. Rests'
  <2>1. \A w : IsResting(w)' = IsResting(w)
    BY <1>1, SameTape DEF IsResting, LegOf
  <2>2. QED
    BY <1>1, <2>1 DEF LedgerInv, Rests
<1>10. Carries'
  BY <1>1, SameTape DEF LedgerInv, Carries, IsCarried
<1>11. Marked'
  BY <1>2 DEF Marked
<1>12. Recorded'
  BY <1>1, <1>2, SameTape DEF LedgerInv, Recorded
<1>13. Balanced'
  BY <1>1, <1>2 DEF Balanced
<1>14. Explained'
  BY <1>1 DEF LedgerInv, Explained
<1>15. PnlExplained'
  <2>1. PnlExplained
    BY DEF LedgerInv
  <2>2. QED
    BY <1>1, <2>1, PnlSame
<1>16. QED
  BY <1>3, <1>4, <1>5, <1>6, <1>7, <1>8, <1>9, <1>10, <1>11, <1>12, <1>13, <1>14, <1>15
     DEF LedgerInv

-----------------------------------------------------------------------------
(* What the fills of one order do, whoever decided it.                     *)

LEMMA FitsInt ==
  ASSUME NEW x, Fits(x)
  PROVE  x \in Int
BY LedgerAssumption DEF Fits

LEMMA MoneyTypes ==
  ASSUME LedgerInv
  PROVE  /\ cash \in Int /\ stepSlippage \in Int /\ stepFees \in Int /\ prevEquity \in Int
         /\ peak \in Int /\ openFees \in Int /\ swept \in Nat
<1>1. TypeOK /\ Shape
  BY DEF LedgerInv
<1>2. Fits(cash) /\ Fits(prevEquity) /\ Fits(peak)
  BY <1>1 DEF TypeOK
<1>3. cash \in Int /\ prevEquity \in Int /\ peak \in Int
  BY <1>2, FitsInt
<1>4. QED
  BY <1>1, <1>3 DEF Shape

LEMMA OrderKeeps ==
  ASSUME LedgerInv, Trading, pc' = "trade",
         UNCHANGED <<mode, tape, beginStep, settleVars, passVars>>
  PROVE  /\ Trading' /\ ~Settled' /\ Counted' /\ Recorded' /\ Sampled' /\ TermsCoverHoldings'
         /\ UNCHANGED <<peak, prevEquity, marks, greeks, positions, curve, steps, legs,
                        offset, rows>>
<1>1. UNCHANGED <<peak, prevEquity, marks, greeks, positions, curve, steps, legs, offset, rows>>
  BY DEF settleVars, passVars
<1>2. Trading' /\ ~Settled'
  BY DEF Trading, Settled
<1>3. Sampled' /\ TermsCoverHoldings'
  BY SameTables
<1>4. Counted'
  <2>1. Len(steps) = n - 1 /\ n > 0 /\ rows = <<>> /\ offset = 0 /\ Len(steps) <= n
    BY DEF LedgerInv, Counted, Trading
  <2>2. QED
    BY <1>1, <1>2, <2>1, SameTape DEF Counted
<1>5. Recorded'
  <2>1. Records(beginStep, n - 1)
    BY DEF LedgerInv, Recorded
  <2>2. Records(beginStep, n - 1)'
    BY <1>1, <2>1, SameTape DEF Records
  <2>3. \A m \in DOMAIN positions : \A i \in DOMAIN positions[m] :
          Quoted(positions[m][i].contract, m)
    BY DEF LedgerInv, Recorded
  <2>4. QED
    BY <1>1, <1>2, <2>2, <2>3, SameTape DEF Recorded
<1>6. QED
  BY <1>1, <1>2, <1>3, <1>4, <1>5

\* The cash against the holdings.
LEMMA OrderBalanced ==
  ASSUME LedgerInv, Trading, pc' = "trade",
         UNCHANGED <<mode, tape, beginStep, settleVars, passVars>>,
         NEW side \in Sides, NEW mid \in Int, NEW lot, IsOrder(lot, side, mid),
         ApplyFills(lot), NEW price \in Int, NEW W, W = Worth(inventory, Mids(n)),
         NEW D, D = DriftAt(n), W \in Int, D \in Int,
         Worth(inventory, Mids(n))' = W + Notional(price, QtyOf(lot), Multiplier, side),
         DriftAt(n)' = D + Notional(price - mid, QtyOf(lot), Multiplier, side)
  PROVE  Balanced'
<1>1. PICK K : K = Multiplier * SideSign(side)
  OBVIOUS
<1>2. cash \in Int /\ stepSlippage \in Int /\ stepFees \in Int /\ prevEquity \in Int
  BY MoneyTypes
<1>3. PICK P, Q, F \in Int : P = PaidOf(lot) /\ Q = QtyOf(lot) /\ F = FeesOf(lot)
  <2>1. PaidOf(lot) \in Int /\ QtyOf(lot) \in Nat /\ FeesOf(lot) \in Nat
    BY OrderTypes
  <2>2. QED
    BY <2>1
<1>4. /\ K \in Int
      /\ cash' = cash - P * K - F
      /\ stepSlippage' = stepSlippage + (P - mid * Q) * K
      /\ stepFees' = stepFees + F
  BY <1>1, <1>2, <1>3, OrderEffects
<1>5. /\ Notional(price, Q, Multiplier, side) = (price * Q) * K
      /\ Notional(price - mid, Q, Multiplier, side) = ((price - mid) * Q) * K
  <2>1. price - mid \in Int
    OBVIOUS
  <2>2. QED
    BY <1>1, <1>3, <2>1, NotionalIs
<1>6. PICK B : B = prevEquity + Worth(beginStep, Mids(n)) - Worth(beginStep, Mids(n - 1))
  OBVIOUS
<1>7. B \in Int
  <2>1. Shape /\ Counted /\ Marked
    BY DEF LedgerInv
  <2>2. Priced(beginStep, Mids(n)) /\ Priced(beginStep, Mids(n - 1))
    BY <2>1, HeldPriced
  <2>3. Worth(beginStep, Mids(n)) \in Int /\ Worth(beginStep, Mids(n - 1)) \in Int
    BY <2>2, HoldingTypes
  <2>4. QED
    BY <1>2, <1>6, <2>3
<1>8. cash + W + stepSlippage + stepFees = B + D
  BY <1>6 DEF LedgerInv, Balanced
<1>9. (cash - P * K - F) + (W + (price * Q) * K) + (stepSlippage + (P - mid * Q) * K)
        + (stepFees + F) = B + (D + ((price - mid) * Q) * K)
  BY <1>2, <1>3, <1>4, <1>7, <1>8, BalanceKept
<1>10. cash' + Worth(inventory, Mids(n))' + stepSlippage' + stepFees' = B + DriftAt(n)'
  BY <1>3, <1>4, <1>5, <1>9
<1>11. Worth(beginStep, Mids(n))' = Worth(beginStep, Mids(n))
       /\ Worth(beginStep, Mids(n - 1))' = Worth(beginStep, Mids(n - 1))
       /\ prevEquity' = prevEquity /\ steps' = steps
  BY SameTape DEF Worth, settleVars
<1>12. prevEquity' = EquityAt(Len(steps))'
  <2>1. prevEquity = EquityAt(Len(steps)) /\ curve' = curve
    BY DEF LedgerInv, Balanced, Trading, settleVars
  <2>2. EquityAt(Len(steps))' = EquityAt(Len(steps))
    BY <1>11, <2>1 DEF EquityAt
  <2>3. QED
    BY <1>11, <2>1, <2>2
<1>13. ~Settled'
  BY DEF Settled
<1>14. cash' + Worth(inventory, Mids(n))' + stepSlippage' + stepFees'
        = prevEquity' + Worth(beginStep, Mids(n))' - Worth(beginStep, Mids(n - 1))' + DriftAt(n)'
  BY <1>6, <1>10, <1>11
<1>15. QED
  BY <1>12, <1>13, <1>14 DEF Balanced

\* The cash against the trade log: the averages are all that may differ.
LEMMA OrderExplained ==
  ASSUME LedgerInv, NEW side \in Sides, NEW e \in Int, NEW t \in Nat, 2 * e \in -t..t,
         NEW X, X = cash + Stake(inventory) - Capital - Sum(log) + openFees, X \in Int,
         cash' + Stake(inventory)' - Capital - Sum(log)' + openFees'
           = X + e * (Multiplier * SideSign(side)),
         swept' = swept + t
  PROVE  Explained'
<1>1. PICK M \in Nat, s \in {1, -1} : M = Multiplier /\ s = SideSign(side)
  BY SignType, LedgerAssumption
<1>2. PICK K : K = M * s
  OBVIOUS
<1>3. K \in {M, -M}
  BY <1>1, <1>2
<1>4. swept \in Nat
  BY DEF LedgerInv, Shape
<1>5. 2 * X \in -(M * swept)..(M * swept)
  BY <1>1 DEF LedgerInv, Explained
<1>6. 2 * (X + e * K) \in -(M * (swept + t))..(M * (swept + t))
  BY <1>1, <1>3, <1>4, <1>5, ErrorKept
<1>7. QED
  BY <1>1, <1>2, <1>6 DEF Explained

-----------------------------------------------------------------------------
(* What orders do to the legs.                                             *)

\* The same position, whatever is left of it.
SamePosition(a, b) == a.contract = b.contract /\ a.side = b.side /\ a.id = b.id
Kept(leg) == \E i \in DOMAIN inventory : SamePosition(leg, inventory[i])

LEMMA LegAdded ==
  ASSUME LedgerInv, Trading, NEW leg \in Legs, leg.contract \in DOMAIN Snapshot,
         NEW inv, inv = Append(inventory, leg), NEW price, price = Mids(n)
  PROVE  /\ inv \in Seq(Legs)
         /\ Worth(inv, price) = Worth(inventory, price)
              + Notional(Snapshot[leg.contract].mid, leg.qty, Multiplier, leg.side)
         /\ Stake(inv) = Stake(inventory) + Notional(leg.entry, leg.qty, Multiplier, leg.side)
         /\ \A j \in DOMAIN inv : inv[j] = leg \/ Kept(inv[j])
         /\ (\A i \in DOMAIN inventory : inventory[i].id # leg.id) =>
              \A i, j \in DOMAIN inv : i # j => inv[i].id # inv[j].id
<1>1. Shape /\ Counted /\ Marked /\ Identified
  BY DEF LedgerInv
<1>2. n > 0 /\ inventory \in Seq(Legs)
  BY <1>1 DEF Counted, Shape
<1>3. price[leg.contract] = Snapshot[leg.contract].mid /\ price[leg.contract] \in Int
  BY <1>1, <1>2, PresentMid
<1>4. Priced(inventory, price)
  BY <1>1, HeldPriced
<1>5. /\ Worth(inv, price) = Worth(inventory, price)
           + Notional(Snapshot[leg.contract].mid, leg.qty, Multiplier, leg.side)
      /\ Stake(inv) = Stake(inventory) + Notional(leg.entry, leg.qty, Multiplier, leg.side)
  BY <1>3, <1>4, HeldAppend
<1>6. PICK z \in Nat : z = Len(inventory) /\ DOMAIN inventory = 1..z
  BY <1>2
<1>7. /\ inv \in Seq(Legs) /\ DOMAIN inv = 1..(z + 1)
      /\ \A j \in 1..z : inv[j] = inventory[j]
      /\ inv[z + 1] = leg
  BY <1>2, <1>6
<1>8. \A j \in 1..(z + 1) : j \in 1..z \/ j = z + 1
  OBVIOUS
<1>9. \A j \in DOMAIN inv : inv[j] = leg \/ Kept(inv[j])
  BY <1>6, <1>7, <1>8 DEF Kept, SamePosition
<1>10. ASSUME \A i \in DOMAIN inventory : inventory[i].id # leg.id,
              NEW i \in DOMAIN inv, NEW j \in DOMAIN inv, i # j
       PROVE  inv[i].id # inv[j].id
  BY <1>1, <1>6, <1>7, <1>8, <1>10 DEF Identified
<1>11. QED
  BY <1>5, <1>7, <1>9, <1>10

\* A leg with another quantity or entry is the same position.
LegSet(i, qty, entry) ==
  [inventory EXCEPT ![i] = [inventory[i] EXCEPT !.qty = qty, !.entry = entry]]

IsLegSet(i, qty, entry, inv, price) ==
  /\ inv \in Seq(Legs)
  /\ Worth(inv, price) = Worth(inventory, price)
       - Notional(price[inventory[i].contract], inventory[i].qty, Multiplier,
                  inventory[i].side)
       + Notional(price[inventory[i].contract], qty, Multiplier, inventory[i].side)
  /\ Stake(inv) = Stake(inventory)
       - Notional(inventory[i].entry, inventory[i].qty, Multiplier, inventory[i].side)
       + Notional(entry, qty, Multiplier, inventory[i].side)
  /\ \A j \in DOMAIN inv : Kept(inv[j])
  /\ \A j, l \in DOMAIN inv : j # l => inv[j].id # inv[l].id
  /\ inv[i].qty = qty

LEMMA LegChanged ==
  ASSUME LedgerInv, Trading, NEW i \in DOMAIN inventory, NEW qty \in Nat \ {0},
         NEW entry \in Int, NEW inv, inv = LegSet(i, qty, entry), NEW price, price = Mids(n)
  PROVE  IsLegSet(i, qty, entry, inv, price)
<1>1. Shape /\ Counted /\ Marked /\ Identified
  BY DEF LedgerInv
<1>2. inventory \in Seq(Legs) /\ inventory[i] \in Legs
  BY <1>1 DEF Shape
<1>3. PICK z \in Nat : z = Len(inventory) /\ DOMAIN inventory = 1..z
  BY <1>2
<1>4. PICK old : old = inventory[i] /\ old \in Legs
  BY <1>2
<1>5. PICK new : new = [old EXCEPT !.qty = qty, !.entry = entry]
  OBVIOUS
<1>6. new = [contract |-> old.contract, side |-> old.side, qty |-> qty, entry |-> entry,
             id |-> old.id]
  BY <1>4, <1>5 DEF Legs
<1>7. /\ new \in Legs /\ SamePosition(new, old) /\ new.qty = qty /\ new.entry = entry
  BY <1>4, <1>6 DEF Legs, SamePosition
<1>8. inv = [inventory EXCEPT ![i] = new]
  BY <1>4, <1>5 DEF LegSet
<1>9. /\ inv \in Seq(Legs) /\ Len(inv) = Len(inventory) /\ DOMAIN inv = 1..z /\ inv[i] = new
      /\ \A j \in DOMAIN inventory : j # i => inv[j] = inventory[j]
  <2>1. i \in 1..Len(inventory) /\ new \in Legs
    BY <1>3, <1>7
  <2>2. /\ inv \in Seq(Legs) /\ Len(inv) = Len(inventory)
        /\ \A j \in 1..Len(inventory) : inv[j] = IF j = i THEN new ELSE inventory[j]
    BY <1>2, <1>8, <2>1, ExceptSeq
  <2>3. DOMAIN inv = 1..Len(inv)
    BY <2>2
  <2>4. QED
    BY <1>3, <2>1, <2>2, <2>3
<1>10. Priced(inventory, price)
  BY <1>1, HeldPriced
<1>11. inv[i].contract = inventory[i].contract /\ inv[i].side = inventory[i].side
  BY <1>4, <1>7, <1>9 DEF SamePosition
<1>12. /\ Worth(inv, price) = Worth(inventory, price)
              - Notional(price[inventory[i].contract], inventory[i].qty, Multiplier,
                         inventory[i].side)
              + Notional(price[inventory[i].contract], inv[i].qty, Multiplier, inventory[i].side)
       /\ Stake(inv) = Stake(inventory)
              - Notional(inventory[i].entry, inventory[i].qty, Multiplier, inventory[i].side)
              + Notional(inv[i].entry, inv[i].qty, Multiplier, inventory[i].side)
  <2>1. Changes(inventory, inv, i)
    BY <1>9, <1>11 DEF Changes
  <2>2. QED
    BY <1>10, <2>1, HeldChanged, Zenon
<1>13. \A j \in DOMAIN inv : SamePosition(inv[j], inventory[j])
  BY <1>3, <1>4, <1>7, <1>9 DEF SamePosition
<1>14. \A j, l \in DOMAIN inv : j # l => inv[j].id # inv[l].id
  BY <1>1, <1>3, <1>9, <1>13 DEF Identified, SamePosition
<1>15. \A j \in DOMAIN inv : Kept(inv[j])
  BY <1>3, <1>9, <1>13 DEF Kept
<1>16. QED
  BY <1>7, <1>9, <1>12, <1>14, <1>15 DEF IsLegSet

\* A leg that is closed in full is gone.
LEMMA LegRemoved ==
  ASSUME LedgerInv, Trading, NEW i \in DOMAIN inventory, NEW inv, inv = WithoutLeg(inventory, i),
         NEW price, price = Mids(n)
  PROVE  /\ inv \in Seq(Legs)
         /\ Worth(inv, price) = Worth(inventory, price)
              - Notional(price[inventory[i].contract], inventory[i].qty, Multiplier,
                         inventory[i].side)
         /\ Stake(inv) = Stake(inventory)
              - Notional(inventory[i].entry, inventory[i].qty, Multiplier, inventory[i].side)
         /\ \A j \in DOMAIN inv : Kept(inv[j])
         /\ \A j, l \in DOMAIN inv : j # l => inv[j].id # inv[l].id
<1>1. Shape /\ Counted /\ Marked /\ Identified
  BY DEF LedgerInv
<1>2. inventory \in Seq(Legs)
  BY <1>1 DEF Shape
<1>3. PICK z \in Nat : z = Len(inventory) /\ DOMAIN inventory = 1..z
  BY <1>2
<1>4. /\ inv \in Seq(Legs) /\ Len(inv) = z - 1
      /\ \A j \in 1..(z - 1) : inv[j] = IF j < i THEN inventory[j] ELSE inventory[j + 1]
  BY <1>2, <1>3, WithoutIs
<1>5. DOMAIN inv = 1..(z - 1)
  BY <1>4
<1>6. \A j \in 1..(z - 1) : j \in 1..z /\ j + 1 \in 1..z
  BY <1>3
<1>7. Priced(inventory, price)
  BY <1>1, HeldPriced
<1>8. /\ Worth(inv, price) = Worth(inventory, price)
           - Notional(price[inventory[i].contract], inventory[i].qty, Multiplier,
                      inventory[i].side)
      /\ Stake(inv) = Stake(inventory)
           - Notional(inventory[i].entry, inventory[i].qty, Multiplier, inventory[i].side)
  BY <1>7, HeldWithout
<1>9. \A j \in DOMAIN inv : Kept(inv[j])
  BY <1>3, <1>4, <1>5, <1>6 DEF Kept, SamePosition
<1>10. ASSUME NEW j \in DOMAIN inv, NEW l \in DOMAIN inv, j # l
       PROVE  inv[j].id # inv[l].id
  <2>1. PICK a \in DOMAIN inventory : inv[j] = inventory[a] /\ (a = IF j < i THEN j ELSE j + 1)
    BY <1>3, <1>4, <1>5, <1>6
  <2>2. PICK b \in DOMAIN inventory : inv[l] = inventory[b] /\ (b = IF l < i THEN l ELSE l + 1)
    BY <1>3, <1>4, <1>5, <1>6
  <2>3. a # b
    BY <1>3, <1>5, <1>10, <2>1, <2>2
  <2>4. QED
    BY <1>1, <2>1, <2>2, <2>3 DEF Identified
<1>11. QED
  BY <1>4, <1>8, <1>9, <1>10

-----------------------------------------------------------------------------
(* The parts of the invariant an order has to keep.                        *)

LEMMA OrderInv ==
  ASSUME LedgerInv, Trading, pc' = "trade",
         UNCHANGED <<mode, tape, beginStep, settleVars, passVars>>,
         Fits(cash'), Shape', Booked', Balanced', Explained', Identified', Marked', Rests',
         Carries', PnlExplained', \A i \in DOMAIN log' : Fits(log'[i])
  PROVE  LedgerInv'
<1>1. /\ Counted' /\ Recorded' /\ Sampled' /\ TermsCoverHoldings'
      /\ UNCHANGED <<peak, prevEquity, marks, greeks, positions, curve, steps, legs, offset, rows>>
  BY OrderKeeps
<1>2. TypeOK'
  <2>1. TypeOK
    BY DEF LedgerInv
  <2>2. \A x \in {cash', peak', prevEquity'} : Fits(x)
    BY <1>1, <2>1 DEF TypeOK
  <2>3. pc' \in {"step", "carry", "trade", "attribute", "done", "failed"}
    OBVIOUS
  <2>4. QED
    BY <1>1, <2>1, <2>2, <2>3 DEF TypeOK, Fits
<1>3. QED
  BY <1>1, <1>2 DEF LedgerInv

LEMMA ShapeKept ==
  ASSUME LedgerInv, UNCHANGED <<mode, tape, beginStep, settleVars, passVars>>,
         trades' \in Nat, inventory' \in Seq(Legs), stepSlippage' \in Int, stepFees' \in Int,
         openFees' \in Int, swept' \in Nat, log' \in Seq(Int), carried' \in Seq(Carryings)
  PROVE  Shape'
<1>1. UNCHANGED <<peak, prevEquity, marks, greeks, positions, curve, steps, legs, offset, rows>>
  BY DEF settleVars, passVars
<1>2. QED
  BY <1>1, SameTape DEF LedgerInv, Shape

LEMMA IdentifiedKept ==
  ASSUME LedgerInv, trades' \in Nat, trades <= trades',
         \A j \in DOMAIN inventory' : Kept(inventory'[j]) \/ inventory'[j].id < trades',
         \A i, j \in DOMAIN inventory' : i # j => inventory'[i].id # inventory'[j].id
  PROVE  Identified'
<1>1. ASSUME NEW j \in DOMAIN inventory', Kept(inventory'[j]) PROVE inventory'[j].id < trades'
  <2>1. PICK i \in DOMAIN inventory : inventory'[j].id = inventory[i].id
    BY <1>1 DEF Kept, SamePosition
  <2>2. inventory[i].id < trades /\ inventory[i].id \in Int /\ trades \in Int
    <3>1. inventory \in Seq(Legs) /\ trades \in Nat
      BY DEF LedgerInv, Shape
    <3>2. inventory[i] \in Legs
      BY <3>1
    <3>3. QED
      BY <3>1, <3>2, LegFacts DEF LedgerInv, Identified
  <2>3. QED
    BY <2>1, <2>2
<1>2. QED
  BY <1>1 DEF Identified

LEMMA MarkedKept ==
  ASSUME LedgerInv, Trading, pc' = "trade", UNCHANGED <<tape, beginStep, settleVars>>,
         \A j \in DOMAIN inventory' :
           Kept(inventory'[j]) \/ inventory'[j].contract \in DOMAIN Snapshot
  PROVE  Marked'
<1>1. /\ \A i \in DOMAIN beginStep : IsRetained(beginStep[i].contract, n - 1)
      /\ \A i \in DOMAIN inventory :
           inventory[i].contract \in DOMAIN Snapshot \/ IsRetained(inventory[i].contract, n - 1)
  BY DEF LedgerInv, Marked
<1>2. \A c : IsRetained(c, n - 1)' = IsRetained(c, n - 1)
  BY SameTape DEF IsRetained, settleVars
<1>3. ASSUME NEW j \in DOMAIN inventory'
      PROVE  \/ inventory'[j].contract \in DOMAIN Snapshot'
             \/ IsRetained(inventory[j].contract, n - 1)'
  <2>1. CASE Kept(inventory'[j])
    <3>1. PICK i \in DOMAIN inventory : inventory'[j].contract = inventory[i].contract
      BY <2>1 DEF Kept, SamePosition
    <3>2. PICK c : c = inventory[i].contract
      OBVIOUS
    <3>3. c \in DOMAIN Snapshot \/ IsRetained(c, n - 1)
      BY <1>1, <3>2
    <3>4. c \in DOMAIN Snapshot' \/ IsRetained(c, n - 1)'
      BY <1>2, <3>3, SameTape
    <3>5. IsRetained(inventory[j].contract, n - 1)' <=> IsRetained(c, n - 1)'
      BY <3>1, <3>2 DEF IsRetained, Quoted, SeenIn, LastSeen
    <3>6. QED
      BY <3>1, <3>2, <3>4, <3>5
  <2>2. CASE inventory'[j].contract \in DOMAIN Snapshot
    BY <2>2, SameTape
  <2>3. QED
    BY <2>1, <2>2
<1>4. ~Settled'
  BY DEF Settled
<1>5. \A i \in DOMAIN beginStep' : IsRetained(beginStep[i].contract, n - 1)'
  <2>1. ASSUME NEW i \in DOMAIN beginStep PROVE IsRetained(beginStep[i].contract, n - 1)'
    <3>1. PICK c : c = beginStep[i].contract
      OBVIOUS
    <3>2. IsRetained(c, n - 1)'
      BY <1>1, <1>2, <3>1
    <3>3. QED
      BY <3>1, <3>2
  <2>2. QED
    BY <2>1
<1>6. QED
  BY <1>3, <1>4, <1>5 DEF Marked

\* An order that rests still does, whatever other orders did.
LEMMA StillRests ==
  ASSUME LedgerInv, NEW w, IsResting(w), UNCHANGED tape, trades' \in Nat, trades <= trades',
         \A j \in DOMAIN inventory' : Kept(inventory'[j]) \/ inventory'[j].id = trades
  PROVE  IsResting(w)'
<1>1. trades \in Nat
  BY DEF LedgerInv, Shape
<1>2. w.leg.id \in Nat /\ w.leg.id < trades
  BY DEF IsResting
<1>3. w.leg.id < trades'
  BY <1>1, <1>2
<1>4. ASSUME NEW j \in LegOf(w)'
      PROVE  /\ inventory'[j].contract = w.contract
             /\ inventory'[j].side = IF w.leg.action = "open" THEN w.side ELSE Opposite(w.side)
  <2>1. j \in DOMAIN inventory' /\ inventory'[j].id = w.leg.id
    BY <1>4 DEF LegOf
  <2>2. Kept(inventory'[j])
    BY <1>1, <1>2, <2>1
  <2>3. PICK i \in DOMAIN inventory : SamePosition(inventory'[j], inventory[i])
    BY <2>2 DEF Kept
  <2>4. i \in LegOf(w)
    BY <2>1, <2>3 DEF LegOf, SamePosition
  <2>5. QED
    BY <2>3, <2>4 DEF IsResting, SamePosition
<1>5. QED
  BY <1>2, <1>3, <1>4, SameTape DEF IsResting

-----------------------------------------------------------------------------
(* Submissions.                                                            *)

LEMMA TermsFacts ==
  ASSUME LedgerInv, Trading, NEW c \in DOMAIN Snapshot, NEW side \in Sides,
         NEW terms \in Terms(c, side)
  PROVE  /\ terms.limit \in Nat
         /\ terms.tif = "Ioc" \/ (terms.tif = "Gtc" /\ mode = "realistic")
<1>1. CASE terms = Ioc(c, side)
  <2>1. IsQuote(Snapshot[c])
    BY PresentMid DEF LedgerInv, Counted
  <2>2. PICK ask, bid, tick, cap \in Nat :
          ask = Snapshot[c].ask /\ bid = Snapshot[c].bid /\ tick = Tick /\ cap = CapTicks
    BY <2>1, DepthAssumption DEF IsQuote
  <2>3. cap * tick \in Nat
    BY <2>2
  <2>4. MarketableLimit(side, Snapshot[c]) \in Nat
    BY <2>2, <2>3 DEF MarketableLimit
  <2>5. terms.limit = MarketableLimit(side, Snapshot[c]) /\ terms.tif = "Ioc"
    BY <1>1 DEF Ioc, LimitOf
  <2>6. QED
    BY <2>4, <2>5
<1>2. CASE mode = "realistic" /\ terms \in [tif : {"Gtc"}, limit : GtcLimits]
  BY <1>2, LedgerAssumption
<1>3. QED
  BY <1>1, <1>2 DEF Terms

\* The fills of a submission, and what they leave of the books.
LEMMA SubmitFacts ==
  ASSUME LedgerInv, Trading, NEW c \in DOMAIN Snapshot, NEW side \in Sides,
         NEW qty \in Nat \ {0}, NEW limit \in Nat,
         NEW lot, lot = FillsWithin(c, side, qty, limit),
         Route(c, side, qty, limit), UNCHANGED <<mode, tape>>, pc' = "trade"
  PROVE  /\ IsOrder(lot, side, Snapshot[c].mid) /\ QtyOf(lot) \in 0..qty
         /\ Booked' /\ trades' \in Nat /\ trades' = trades + 1 /\ trades <= trades'
         /\ Snapshot[c].mid \in Int /\ Mids(n)[c] = Snapshot[c].mid /\ c \in Contracts
<1>1. Booked /\ mode \in {"naive", "realistic"} /\ trades \in Nat /\ n > 0 /\ Shape
  BY DEF LedgerInv, Shape, Counted
<1>2. /\ c \in Contracts /\ IsQuote(Snapshot[c]) /\ Snapshot[c].mid \in Int
      /\ Mids(n)[c] = Snapshot[c].mid
  BY <1>1, PresentMid
<1>3. IsOrder(lot, side, Snapshot[c].mid) /\ QtyOf(lot) \in 0..qty
  <2>1. limit \in Int
    OBVIOUS
  <2>2. QED
    BY <1>1, <1>2, <2>1, FillsWithinFacts
<1>4. trades' = trades + 1
  BY DEF Route
<1>5. Booked'
  <2>1. mode = "realistic" =>
          books' = [books EXCEPT ![c][Takes(side)] =
                      Consumed(@, Taken(books[c][Takes(side)], side, limit, qty))]
    BY DEF Route, TakenFrom
  <2>2. limit \in Int
    OBVIOUS
  <2>3. QED
    BY <1>1, <2>1, <2>2, RouteKeepsBooks
<1>6. QED
  BY <1>1, <1>2, <1>3, <1>4, <1>5

\* What is left of an order rests under the leg it opens or reduces.
LEMMA RemainderRests ==
  ASSUME LedgerInv, Trading, pc' = "trade", UNCHANGED <<mode, tape>>,
         NEW c \in DOMAIN Snapshot, NEW side \in Sides, NEW qty \in Nat \ {0}, NEW terms,
         NEW lot, NEW leg,
         terms.limit \in Nat, terms.tif = "Ioc" \/ (terms.tif = "Gtc" /\ mode = "realistic"),
         QtyOf(lot) \in 0..qty,
         working' = Remainder(c, side, qty, terms, lot, leg),
         leg.action \in {"open", "close"}, leg.id \in Nat, leg.id <= trades,
         trades' = trades + 1,
         \A j \in DOMAIN inventory' : Kept(inventory'[j]) \/ inventory'[j].id = trades,
         \A j \in DOMAIN inventory' : inventory'[j].id = leg.id =>
           /\ inventory'[j].contract = c
           /\ inventory'[j].side = IF leg.action = "open" THEN side ELSE Opposite(side)
  PROVE  Rests'
<1>1. PICK left \in Nat : left = qty - QtyOf(lot)
  OBVIOUS
<1>2. trades \in Nat /\ trades + 1 \in Nat /\ trades <= trades + 1 /\ Shape /\ n > 0
  <2>1. Shape /\ Counted
    BY DEF LedgerInv
  <2>2. trades \in Nat
    BY <2>1 DEF Shape
  <2>3. n > 0
    BY <2>1 DEF Counted
  <2>4. QED
    BY <2>1, <2>2, <2>3
<1>3. CASE terms.tif = "Ioc" \/ left = 0
  <2>1. working' = working
    BY <1>1, <1>3 DEF Remainder, MapSeq, QtyOf
  <2>2. working = <<>> \/ (mode = "realistic" /\ \E w : working = <<w>> /\ IsResting(w))
    BY DEF LedgerInv, Rests
  <2>3. \A w : IsResting(w) => IsResting(w)'
    BY <1>2, StillRests
  <2>4. QED
    BY <2>1, <2>2, <2>3 DEF Rests
<1>4. CASE ~(terms.tif = "Ioc" \/ left = 0)
  <2>1. PICK w : w = [contract |-> c, side |-> side, limit |-> terms.limit, left |-> left,
           mid |-> Snapshot[c].mid, step |-> n, charged |-> lot # <<>>, leg |-> leg]
    OBVIOUS
  <2>2. working' = <<w>>
    BY <1>1, <1>4, <2>1 DEF Remainder, MapSeq, QtyOf
  <2>3. n \in 1..n /\ Snapshot = tape[n] /\ c \in Contracts
    BY <1>2, TapeFacts, PresentMid DEF Snapshot
  <2>4. leg.id < trades'
    BY <1>2
  <2>5. /\ w.contract = c /\ w.side = side /\ w.limit = terms.limit /\ w.left = left
        /\ w.mid = Snapshot[c].mid /\ w.step = n /\ w.leg = leg
        /\ DOMAIN w = {"contract", "side", "limit", "left", "mid", "step", "charged", "leg"}
    BY <2>1
  <2>6. \A j \in LegOf(w)' : /\ inventory'[j].contract = c
          /\ inventory'[j].side = IF leg.action = "open" THEN side ELSE Opposite(side)
    BY <2>5 DEF LegOf
  <2>7. IsResting(w)'
    BY <1>1, <1>4, <2>3, <2>4, <2>5, <2>6, SameTape DEF IsResting
  <2>8. QED
    BY <1>4, <2>2, <2>7 DEF Rests
<1>5. QED
  BY <1>3, <1>4

LEMMA NothingNotional ==
  ASSUME NEW x \in Int, NEW side \in Sides
  PROVE  Notional(0, x, Multiplier, side) = 0 /\ Notional(x, 0, Multiplier, side) = 0
<1>1. PICK K \in Int : K = Multiplier * SideSign(side)
  BY NotionalIs
<1>2. Notional(0, x, Multiplier, side) = (0 * x) * K /\ Notional(x, 0, Multiplier, side) = (x * 0) * K
  BY <1>1, NotionalIs
<1>3. QED
  BY <1>1, <1>2

LEMMA LogType ==
  ASSUME LedgerInv
  PROVE  /\ log \in Seq(Int) /\ Sum(log) \in Int
         /\ \A x \in Int : Append(log, x) \in Seq(Int) /\ Sum(Append(log, x)) = Sum(log) + x
<1>1. log \in Seq(Int)
  BY DEF LedgerInv, Shape
<1>2. PICK z \in Nat : z = Len(log) /\ DOMAIN log = 1..z
  BY <1>1
<1>3. log \in [1..z -> Int]
  BY <1>1, <1>2
<1>4. Sum(log) \in Int
  BY <1>3, SumType
<1>5. ASSUME NEW x \in Int PROVE Append(log, x) \in Seq(Int) /\ Sum(Append(log, x)) = Sum(log) + x
  <2>1. PICK t : t = Append(log, x)
    OBVIOUS
  <2>2. t \in Seq(Int) /\ DOMAIN t = 1..(z + 1) /\ t[z + 1] = x /\ \A i \in 1..z : t[i] = log[i]
    BY <1>1, <1>2, <2>1
  <2>3. t \in [1..(z + 1) -> Int]
    BY <2>2
  <2>4. Sum(t) = Sum(log) + t[z + 1]
    BY <1>3, <2>2, <2>3, SumGrow
  <2>5. QED
    BY <2>1, <2>2, <2>4
<1>6. QED
  BY <1>1, <1>4, <1>5

LEMMA HoldingsType ==
  ASSUME LedgerInv, Trading
  PROVE  /\ Stake(inventory) \in Int /\ Worth(inventory, Mids(n)) \in Int
         /\ inventory \in Seq(Legs)
<1>1. Shape /\ Counted /\ Marked
  BY DEF LedgerInv
<1>2. Priced(inventory, Mids(n))
  BY <1>1, HeldPriced
<1>3. QED
  BY <1>1, <1>2, HoldingTypes DEF Shape

\* The drift of what was carried is a number.
LEMMA DriftType ==
  ASSUME LedgerInv, NEW m
  PROVE  /\ \A i \in DOMAIN carried : Drift(carried[i]) \in Int
         /\ DriftAt(m) \in Int
         /\ carried \in Seq(Carryings)
<1>1. carried \in Seq(Carryings) /\ Shape
  BY DEF LedgerInv, Shape
<1>2. ASSUME NEW i \in DOMAIN carried PROVE Drift(carried[i]) \in Int
  <2>1. PICK r : r = carried[i] /\ r \in Carryings /\ IsCarried(r)
    BY <1>1 DEF LedgerInv, Carries
  <2>2. PICK side \in Sides, qty \in Int : side = r.side /\ qty = r.qty
    BY <2>1 DEF Carryings
  <2>3. r.step \in 1..n /\ r.since \in 1..n
    <3>1. n \in Nat
      BY <1>1, TapeFacts
    <3>2. QED
      BY <2>1, <3>1 DEF IsCarried
  <2>4. IsQuote(tape[r.step][r.contract]) /\ IsQuote(tape[r.since][r.contract])
    BY <1>1, <2>1, <2>3, TapeFacts DEF IsCarried
  <2>5. PICK a, b \in Int : a = tape[r.step][r.contract].mid /\ b = tape[r.since][r.contract].mid
    BY <2>4 DEF IsQuote
  <2>6. Notional(a - b, qty, Multiplier, side) \in Int
    BY NotionalIs
  <2>7. QED
    BY <2>1, <2>2, <2>5, <2>6 DEF Drift
<1>3. PICK z \in Nat : z = Len(carried) /\ DOMAIN carried = 1..z
  BY <1>1
<1> DEFINE d == [i \in DOMAIN carried |-> IF carried[i].step = m THEN Drift(carried[i]) ELSE 0]
<1>4. d \in [1..z -> Int]
  BY <1>2, <1>3
<1> HIDE DEF d
<1>5. Sum(d) \in Int
  BY <1>4, SumType
<1>6. QED
  BY <1>1, <1>2, <1>5 DEF DriftAt, d

LEMMA ToldSum ==
  ASSUME NEW c \in Int, NEW S \in Int, NEW L \in Int, NEW O \in Int, NEW P \in Int,
         NEW Q \in Int, NEW F \in Int, NEW K \in Int, NEW v \in Int, NEW S1 \in Int,
         NEW L1 \in Int, NEW O1 \in Int, NEW cap \in Int,
         S1 - L1 + O1 = S - L + O + (v * Q) * K + F
  PROVE  /\ v * Q - P \in Int /\ c + S - cap - L + O \in Int
         /\ (c - P * K - F) + S1 - cap - L1 + O1 = (c + S - cap - L + O) + (v * Q - P) * K
<1>1. PICK m \in Int : m = v * Q
  OBVIOUS
<1>2. (m - P) * K = m * K - P * K
  OBVIOUS
<1>3. PICK x, y \in Int : x = m * K /\ y = P * K
  OBVIOUS
<1>4. S1 - L1 + O1 = S - L + O + x + F
  BY <1>1, <1>3
<1>5. (c - y - F) + S1 - cap - L1 + O1 = (c + S - cap - L + O) + (x - y)
  BY <1>4
<1>6. QED
  BY <1>1, <1>2, <1>3, <1>5

\* The trade log tells what the cash did, up to the average of the fills.
Tells(side, lot, v) ==
  Stake(inventory)' - Sum(log)' + openFees'
    = Stake(inventory) - Sum(log) + openFees
        + (v * QtyOf(lot)) * (Multiplier * SideSign(side)) + FeesOf(lot)

LEMMA OrderTold ==
  ASSUME LedgerInv, Trading, NEW side \in Sides, NEW mid \in Int, NEW lot,
         IsOrder(lot, side, mid), ApplyFills(lot), swept' = swept + Swept(lot),
         NEW v \in Int, lot # <<>> => v = AggregateFills(lot).price,
         Tells(side, lot, v),
         Stake(inventory)' \in Int, Sum(log)' \in Int, openFees' \in Int
  PROVE  Explained' /\ swept' \in Nat
<1>1. PICK P, Q, F \in Int : P = PaidOf(lot) /\ Q = QtyOf(lot) /\ F = FeesOf(lot)
  <2>1. PaidOf(lot) \in Int /\ QtyOf(lot) \in Nat /\ FeesOf(lot) \in Nat
    BY OrderTypes
  <2>2. QED
    BY <2>1
<1>2. PICK K \in Int : K = Multiplier * SideSign(side)
  BY NotionalIs
<1>3. PICK S, L, O, c \in Int : S = Stake(inventory) /\ L = Sum(log) /\ O = openFees /\ c = cash
  BY HoldingsType, LogType, MoneyTypes
<1>4. PICK S1, L1, O1 \in Int : S1 = Stake(inventory)' /\ L1 = Sum(log)' /\ O1 = openFees'
  OBVIOUS
<1>5. PICK cap \in Int : cap = Capital
  BY LedgerAssumption
<1>6. S1 - L1 + O1 = S - L + O + (v * Q) * K + F
  BY <1>1, <1>2, <1>3, <1>4 DEF Tells
<1>7. /\ v * Q - P \in Int /\ c + S - cap - L + O \in Int
      /\ (c - P * K - F) + S1 - cap - L1 + O1 = (c + S - cap - L + O) + (v * Q - P) * K
  BY <1>6, ToldSum
<1>8. PICK X \in Int : X = c + S - cap - L + O
  BY <1>7
<1>9. PICK e \in Int : e = v * Q - P
  BY <1>7
<1>10. PICK t \in Nat : t = Swept(lot) /\ 2 * e \in -t..t
  <2>1. CASE lot # <<>>
    <3>1. Swept(lot) \in Nat /\ 2 * (v * Q - P) \in -Swept(lot)..Swept(lot)
      BY <1>1, <2>1, AverageOf
    <3>2. QED
      BY <1>9, <3>1
  <2>2. CASE lot = <<>>
    <3>1. Q = 0 /\ P = 0
      BY <1>1, <2>2, NoFills
    <3>2. Len(<<>>) = 0
      OBVIOUS
    <3>3. Swept(lot) = 0
      BY <2>2, <3>2 DEF Swept
    <3>4. e = 0
      BY <1>9, <3>1
    <3>5. QED
      BY <3>3, <3>4
  <2>3. QED
    BY <2>1, <2>2
<1>11. cash' = c - P * K - F
  <2>1. cash \in Int /\ stepSlippage \in Int /\ stepFees \in Int
    BY MoneyTypes
  <2>2. cash' = cash - PaidOf(lot) * K - FeesOf(lot)
    BY <1>2, <2>1, OrderEffects
  <2>3. QED
    BY <1>1, <1>3, <2>2
<1>12. cash' + Stake(inventory)' - Capital - Sum(log)' + openFees'
        = X + e * (Multiplier * SideSign(side))
  BY <1>2, <1>4, <1>5, <1>7, <1>8, <1>9, <1>11
<1>13. X = cash + Stake(inventory) - Capital - Sum(log) + openFees
  BY <1>3, <1>5, <1>8
<1>14. swept' = swept + t
  BY <1>10
<1>15. Explained'
  BY <1>10, <1>12, <1>13, <1>14, OrderExplained
<1>16. swept' \in Nat
  <2>1. swept \in Nat
    BY MoneyTypes
  <2>2. QED
    BY <1>10, <1>14, <2>1
<1>17. QED
  BY <1>15, <1>16

LEMMA NewLegIs ==
  ASSUME NEW c \in Contracts, NEW side \in Sides, NEW mid \in Int, NEW lot,
         IsOrder(lot, side, mid), lot # <<>>, NEW id \in Nat,
         NEW leg, leg = NewLeg(c, side, lot, id)
  PROVE  /\ leg \in Legs /\ leg.contract = c /\ leg.side = side /\ leg.id = id
         /\ leg.qty = QtyOf(lot) /\ leg.entry = AggregateFills(lot).price
         /\ leg.entry \in Int
<1>1. PICK v \in Int : v = AggregateFills(lot).price
  <2>1. PICK v : v = AggregateFills(lot).price
    OBVIOUS
  <2>2. v \in Int
    BY <2>1, AverageOf
  <2>3. QED
    BY <2>1, <2>2
<1>2. PICK q \in Nat \ {0} : q = QtyOf(lot) /\ AggregateFills(lot).qty = q
  <2>1. AggregateFills(lot).qty = QtyOf(lot) /\ QtyOf(lot) \in Nat \ {0}
    BY <1>1, AverageOf
  <2>2. QED
    BY <2>1
<1>3. leg = [contract |-> c, side |-> side, qty |-> q, entry |-> v, id |-> id]
  BY <1>1, <1>2 DEF NewLeg
<1>4. leg \in Legs
  BY <1>3 DEF Legs
<1>5. QED
  BY <1>1, <1>2, <1>3, <1>4

\* The holdings of the next state, in terms of the next legs.
LEMMA NextHoldings ==
  ASSUME UNCHANGED tape
  PROVE  /\ Worth(inventory, Mids(n))' = Worth(inventory', Mids(n))
         /\ Stake(inventory)' = Stake(inventory')
BY SameTape DEF Worth, Stake

\* Carried orders stay as they are.
LEMMA SameCarried ==
  ASSUME LedgerInv, UNCHANGED <<tape, carried, steps, positions>>
  PROVE  /\ Carries' /\ PnlExplained' /\ carried' \in Seq(Carryings)
         /\ \A m : DriftAt(m)' = DriftAt(m)
<1>1. Carries' /\ carried' \in Seq(Carryings)
  BY SameTape DEF LedgerInv, Carries, IsCarried, Shape
<1>2. PnlExplained'
  BY PnlSame DEF LedgerInv
<1>3. \A m : DriftAt(m)' = DriftAt(m)
  BY DEF DriftAt, Drift
<1>4. QED
  BY <1>1, <1>2, <1>3

-----------------------------------------------------------------------------
(* Submit(Open).                                                           *)

LEMMA OpenKeeps ==
  ASSUME LedgerInv, pc = "trade", NEW c \in DOMAIN Snapshot, NEW side \in Sides,
         NEW qty \in Nat \ {0}, NEW terms \in Terms(c, side), SubmitOpen(c, side, qty, terms)
  PROVE  LedgerInv'
<1>1. Trading
  BY DEF Trading
<1>2. PICK lot : lot = FillsWithin(c, side, qty, terms.limit)
  OBVIOUS
<1>3. terms.limit \in Nat /\ (terms.tif = "Ioc" \/ (terms.tif = "Gtc" /\ mode = "realistic"))
  BY <1>1, TermsFacts
<1>4. CASE ~Accepted(c, side, qty, terms, lot)
  <2>1. Abort
    BY <1>2, <1>4 DEF SubmitOpen
  <2>2. QED
    BY <2>1, AbortKeeps
<1>5. CASE Accepted(c, side, qty, terms, lot)
  <2>1. /\ ApplyFills(lot) /\ Route(c, side, qty, terms.limit)
        /\ swept' = swept + Swept(lot)
        /\ inventory' = IF lot = <<>> THEN inventory
                        ELSE Append(inventory, NewLeg(c, side, lot, trades))
        /\ openFees' = openFees + FeesOf(lot)
        /\ working' = Remainder(c, side, qty, terms, lot, [action |-> "open", id |-> trades])
        /\ UNCHANGED <<mode, pc, tape, beginStep, carried, log, settleVars, passVars>>
    <3>1. Sum(MapSeq(LAMBDA f : f.fees, lot)) = FeesOf(lot)
      BY DEF MapSeq, FeesOf
    <3>2. \/ /\ Accepted(c, side, qty, terms, lot)
             /\ ApplyFills(lot)
             /\ Route(c, side, qty, terms.limit)
             /\ swept' = swept + Swept(lot)
             /\ inventory' = IF lot = <<>> THEN inventory
                             ELSE Append(inventory, NewLeg(c, side, lot, trades))
             /\ openFees' = openFees + Sum(MapSeq(LAMBDA f : f.fees, lot))
             /\ working' = Remainder(c, side, qty, terms, lot,
                                     [action |-> "open", id |-> trades])
             /\ UNCHANGED <<mode, pc, tape, beginStep, carried, log, settleVars, passVars>>
          \/ ~Accepted(c, side, qty, terms, lot) /\ Abort
      BY <1>2 DEF SubmitOpen
    <3>3. QED
      BY <1>5, <3>1, <3>2
  <2>2. /\ pc' = "trade" /\ UNCHANGED <<mode, tape, beginStep, settleVars, passVars>>
        /\ UNCHANGED <<tape, carried, steps, positions>>
    BY <2>1 DEF settleVars
  <2>3. PICK mid \in Int : mid = Snapshot[c].mid /\ mid = Mids(n)[c]
    <3>1. Snapshot[c].mid \in Int /\ Mids(n)[c] = Snapshot[c].mid
      BY <1>1, <1>2, <1>3, <2>1, <2>2, SubmitFacts
    <3>2. QED
      BY <3>1
  <2>4. /\ IsOrder(lot, side, mid) /\ QtyOf(lot) \in 0..qty /\ Booked'
        /\ trades' \in Nat /\ trades' = trades + 1 /\ trades <= trades' /\ c \in Contracts
    BY <1>1, <1>2, <1>3, <2>1, <2>2, <2>3, SubmitFacts
  <2>5. PICK K \in Int : K = Multiplier * SideSign(side)
    BY NotionalIs
  <2>6. trades \in Nat
    BY DEF LedgerInv, Shape
  <2>7. PICK Q \in Nat, F \in Int : Q = QtyOf(lot) /\ F = FeesOf(lot)
    <3>1. QtyOf(lot) \in Nat /\ FeesOf(lot) \in Nat
      BY <2>4, OrderTypes
    <3>2. QED
      BY <3>1
  <2>8. PICK inv, price : inv = inventory' /\ price = Mids(n)
    OBVIOUS
  <2>9. PICK W, S \in Int : W = Worth(inventory, price) /\ S = Stake(inventory)
    BY <1>1, <2>8, HoldingsType
  \* What becomes of the legs.
  <2>10. PICK v \in Int :
           /\ lot # <<>> => v = AggregateFills(lot).price
           /\ inv \in Seq(Legs)
           /\ Worth(inv, price) = W + (mid * Q) * K
           /\ Stake(inv) = S + (v * Q) * K
           /\ \A j \in DOMAIN inv :
                Kept(inv[j]) \/ (inv[j].id = trades /\ inv[j].contract = c /\ inv[j].side = side)
           /\ \A i, j \in DOMAIN inv : i # j => inv[i].id # inv[j].id
    <3>1. CASE lot = <<>>
      <4>1. inv = inventory /\ Q = 0
        BY <2>1, <2>7, <2>8, <3>1, NoFills
      <4>2. (mid * Q) * K = 0 /\ (0 * Q) * K = 0 /\ W + 0 = W /\ S + 0 = S
        BY <4>1
      <4>3. \A j \in DOMAIN inventory : Kept(inventory[j])
        BY DEF Kept, SamePosition
      <4>4. \A i, j \in DOMAIN inventory : i # j => inventory[i].id # inventory[j].id
        BY DEF LedgerInv, Identified
      <4>5. inventory \in Seq(Legs)
        BY DEF LedgerInv, Shape
      <4>6. WITNESS 0 \in Int
      <4>7. QED
        BY <2>9, <3>1, <4>1, <4>2, <4>3, <4>4, <4>5
    <3>2. CASE lot # <<>>
      <4>1. PICK leg : leg = NewLeg(c, side, lot, trades)
        OBVIOUS
      <4>2. /\ leg \in Legs /\ leg.contract = c /\ leg.side = side /\ leg.id = trades
            /\ leg.qty = Q /\ leg.entry = AggregateFills(lot).price /\ leg.entry \in Int
        BY <2>4, <2>6, <2>7, <3>2, <4>1, NewLegIs
      <4>3. inv = Append(inventory, leg)
        BY <2>1, <2>8, <3>2, <4>1
      <4>4. /\ inv \in Seq(Legs)
            /\ Worth(inv, price) = W + Notional(mid, Q, Multiplier, side)
            /\ Stake(inv) = S + Notional(leg.entry, Q, Multiplier, side)
            /\ \A j \in DOMAIN inv : inv[j] = leg \/ Kept(inv[j])
            /\ (\A i \in DOMAIN inventory : inventory[i].id # leg.id) =>
                 \A i, j \in DOMAIN inv : i # j => inv[i].id # inv[j].id
        BY <1>1, <2>3, <2>8, <2>9, <4>2, <4>3, LegAdded
      <4>5. \A i \in DOMAIN inventory : inventory[i].id # leg.id
        <5>1. ASSUME NEW i \in DOMAIN inventory PROVE inventory[i].id # leg.id
          <6>1. inventory[i].id < trades /\ inventory[i] \in Legs
            BY DEF LedgerInv, Identified, Shape
          <6>2. inventory[i].id \in Nat
            BY <6>1, LegFacts
          <6>3. QED
            BY <2>6, <4>2, <6>1, <6>2
        <5>2. QED
          BY <5>1
      <4>6. /\ Notional(mid, Q, Multiplier, side) = (mid * Q) * K
            /\ Notional(leg.entry, Q, Multiplier, side) = (leg.entry * Q) * K
        <5>1. Q \in Int /\ leg.entry \in Int
          BY <4>2
        <5>2. QED
          BY <2>5, <5>1, NotionalIs
      <4>7. \A j \in DOMAIN inv :
              Kept(inv[j]) \/ (inv[j].id = trades /\ inv[j].contract = c /\ inv[j].side = side)
        BY <4>2, <4>4
      <4>8. QED
        BY <4>2, <4>4, <4>5, <4>6, <4>7
    <3>3. QED
      BY <3>1, <3>2
  <2>11. /\ Worth(inventory, Mids(n))' = W + (mid * Q) * K
         /\ Stake(inventory)' = S + (v * Q) * K
    BY <2>2, <2>8, <2>10, NextHoldings
  <2>12. log \in Seq(Int) /\ Sum(log) \in Int /\ log' = log
    BY <2>1, LogType
  <2>13. (v * Q) * K \in Int /\ openFees \in Int /\ openFees' \in Int /\ openFees' = openFees + F
    <3>1. PICK vq \in Int : vq = v * Q
      OBVIOUS
    <3>2. vq * K \in Int
      OBVIOUS
    <3>3. openFees' = openFees + F /\ openFees \in Int
      BY <2>1, <2>7, MoneyTypes
    <3>4. QED
      BY <3>1, <3>2, <3>3
  <2>14. Explained' /\ swept' \in Nat
    <3>1. PICK x \in Int : x = (v * Q) * K
      BY <2>13
    <3>2. PICK L \in Int, O \in Int : L = Sum(log) /\ O = openFees
      BY <2>12, <2>13
    <3>3. S + x \in Int /\ (S + x) - L + (O + F) = S - L + O + x + F
      OBVIOUS
    <3>4. Stake(inventory)' \in Int /\ Sum(log)' \in Int
      BY <2>11, <2>12, <3>1, <3>3
    <3>5. Tells(side, lot, v)
      BY <2>5, <2>7, <2>9, <2>11, <2>12, <2>13, <3>1, <3>2, <3>3 DEF Tells
    <3>6. QED
      BY <1>1, <2>1, <2>4, <2>10, <2>13, <3>4, <3>5, OrderTold
  <2>15. Balanced'
    <3>1. PICK D \in Int : D = DriftAt(n)
      BY DriftType
    <3>2. DriftAt(n)' = D
      BY <2>2, <3>1, SameCarried, SameTape DEF DriftAt, Drift
    <3>3. mid - mid = 0 /\ Q \in Int
      OBVIOUS
    <3>4. Notional(mid - mid, Q, Multiplier, side) = 0
      BY <3>3, NothingNotional
    <3>5. Notional(mid, Q, Multiplier, side) = (mid * Q) * K
      BY <2>5, <3>3, NotionalIs
    <3>6. W = Worth(inventory, Mids(n)) /\ Worth(inventory, Mids(n))' = W + Notional(mid, QtyOf(lot), Multiplier, side)
      BY <2>7, <2>8, <2>9, <2>11, <3>5
    <3>7. DriftAt(n)' = D + Notional(mid - mid, QtyOf(lot), Multiplier, side)
      BY <2>7, <3>2, <3>4
    <3>8. QED
      BY <1>1, <2>1, <2>2, <2>4, <3>1, <3>6, <3>7, OrderBalanced
  <2>16. Shape'
    <3>1. cash \in Int /\ stepSlippage \in Int /\ stepFees \in Int
      BY MoneyTypes
    <3>2. stepSlippage' \in Int /\ stepFees' \in Int
      BY <2>1, <2>4, <2>5, <3>1, OrderEffects
    <3>3. carried' \in Seq(Carryings)
      BY <2>2, SameCarried
    <3>4. inventory' \in Seq(Legs)
      BY <2>8, <2>10
    <3>5. QED
      BY <2>2, <2>4, <2>12, <2>13, <2>14, <3>2, <3>3, <3>4, ShapeKept
  <2>17. Identified'
    <3>1. \A j \in DOMAIN inventory' : Kept(inventory'[j]) \/ inventory'[j].id < trades'
      BY <2>4, <2>6, <2>8, <2>10
    <3>2. \A i, j \in DOMAIN inventory' : i # j => inventory'[i].id # inventory'[j].id
      BY <2>8, <2>10
    <3>3. QED
      BY <2>4, <3>1, <3>2, IdentifiedKept
  <2>18. Marked'
    <3>1. \A j \in DOMAIN inventory' :
            Kept(inventory'[j]) \/ inventory'[j].contract \in DOMAIN Snapshot
      BY <2>8, <2>10
    <3>2. QED
      BY <1>1, <2>2, <3>1, MarkedKept
  <2>19. Rests'
    <3>1. PICK leg : leg = [action |-> "open", id |-> trades]
      OBVIOUS
    <3>2. leg.action = "open" /\ leg.id = trades /\ leg.id <= trades
      BY <2>6, <3>1
    <3>3. \A j \in DOMAIN inventory' : Kept(inventory'[j]) \/ inventory'[j].id = trades
      BY <2>8, <2>10
    <3>4. ASSUME NEW j \in DOMAIN inventory', inventory'[j].id = leg.id
          PROVE  inventory'[j].contract = c /\ inventory'[j].side = side
      <4>1. ~Kept(inventory'[j])
        <5>1. ASSUME NEW i \in DOMAIN inventory, inventory[i].id = trades PROVE FALSE
          <6>1. inventory[i].id < trades
            BY DEF LedgerInv, Identified
          <6>2. QED
            BY <2>6, <5>1, <6>1
        <5>2. QED
          BY <3>2, <3>4, <5>1 DEF Kept, SamePosition
      <4>2. QED
        BY <2>8, <2>10, <4>1
    <3>5. working' = Remainder(c, side, qty, terms, lot, leg)
      BY <2>1, <3>1
    <3>6. \A j \in DOMAIN inventory' : inventory'[j].id = leg.id =>
            /\ inventory'[j].contract = c
            /\ inventory'[j].side = IF leg.action = "open" THEN side ELSE Opposite(side)
      BY <3>2, <3>4
    <3>7. QED
      BY <1>1, <1>3, <2>2, <2>4, <2>6, <3>2, <3>3, <3>5, <3>6, RemainderRests
  <2>20. Fits(cash')
    <3>1. Fits(cash) /\ ~Overflows(lot)
      BY <1>5 DEF LedgerInv, TypeOK, Accepted
    <3>2. QED
      BY <2>1, <2>4, <3>1, FitsAfter
  <2>21. \A i \in DOMAIN log' : Fits(log'[i])
    BY <2>12 DEF LedgerInv, TypeOK
  <2>22. Carries' /\ PnlExplained'
    BY <2>2, SameCarried
  <2>23. QED
    BY <1>1, <2>2, <2>4, <2>14, <2>15, <2>16, <2>17, <2>18, <2>19, <2>20, <2>21, <2>22, OrderInv
<1>6. QED
  BY <1>4, <1>5

-----------------------------------------------------------------------------
(* Submit(Close), and the close of an order that rested.                   *)

\* A smaller position on the other side's account.
LEMMA OtherSide ==
  ASSUME NEW x \in Int, NEW a \in Int, NEW side \in Sides
  PROVE  /\ Notional(x, a, Multiplier, side) \in Int
         /\ Notional(x, a, Multiplier, Opposite(side)) = -Notional(x, a, Multiplier, side)
<1>1. PICK s, M \in Int : s = SideSign(side) /\ M = Multiplier
  BY SignType, LedgerAssumption
<1>2. PICK K \in Int : K = M * s
  OBVIOUS
<1>3. M * (-s) = -K
  BY <1>2
<1>4. Opposite(side) \in Sides /\ SideSign(Opposite(side)) = -s
  BY <1>1, SignType
<1>5. /\ Notional(x, a, Multiplier, Opposite(side)) = (x * a) * (-K)
      /\ Notional(x, a, Multiplier, side) = (x * a) * K
  BY <1>1, <1>2, <1>3, <1>4, NotionalIs
<1>6. PICK xa \in Int : xa = x * a
  OBVIOUS
<1>7. xa * (-K) = -(xa * K) /\ xa * K \in Int
  OBVIOUS
<1>8. QED
  BY <1>5, <1>6, <1>7

LEMMA LessHeld ==
  ASSUME NEW x \in Int, NEW a \in Int, NEW b \in Int, NEW d \in Int, a = b + d,
         NEW side \in Sides
  PROVE  Notional(x, a, Multiplier, side)
           = Notional(x, b, Multiplier, side) + Notional(x, d, Multiplier, side)
<1>1. PICK K \in Int : K = Multiplier * SideSign(side)
  BY NotionalIs
<1>2. /\ Notional(x, a, Multiplier, side) = (x * a) * K
      /\ Notional(x, b, Multiplier, side) = (x * b) * K
      /\ Notional(x, d, Multiplier, side) = (x * d) * K
  BY <1>1, NotionalIs
<1>3. PICK xb, xd \in Int : xb = x * b /\ xd = x * d
  OBVIOUS
<1>4. x * a = xb + xd
  BY <1>3
<1>5. (xb + xd) * K = xb * K + xd * K
  OBVIOUS
<1>6. QED
  BY <1>2, <1>3, <1>4, <1>5

LEMMA ReducedIs ==
  ASSUME LedgerInv, Trading, NEW i \in DOMAIN inventory, NEW c, c = inventory[i].contract,
         NEW held \in Nat \ {0}, held = inventory[i].qty, NEW q \in 1..held,
         NEW entry \in Int, entry = inventory[i].entry, NEW side \in Sides,
         side = inventory[i].side, NEW inv, inv = Reduced(i, q), NEW price, price = Mids(n)
  PROVE  /\ inv \in Seq(Legs) /\ price[c] \in Int
         /\ Worth(inv, price)
              = Worth(inventory, price) + Notional(price[c], q, Multiplier, Opposite(side))
         /\ Stake(inv) = Stake(inventory) + Notional(entry, q, Multiplier, Opposite(side))
         /\ \A j \in DOMAIN inv : Kept(inv[j])
         /\ \A j, l \in DOMAIN inv : j # l => inv[j].id # inv[l].id
<1>1. PICK W, S \in Int : W = Worth(inventory, price) /\ S = Stake(inventory)
  BY HoldingsType
<1>2. PICK p \in Int : p = price[c]
  <2>1. Shape /\ Counted /\ Marked
    BY DEF LedgerInv
  <2>2. Priced(inventory, price)
    BY <2>1, HeldPriced
  <2>3. QED
    BY <2>2 DEF Priced
<1>3. /\ Notional(p, q, Multiplier, Opposite(side)) = -Notional(p, q, Multiplier, side)
      /\ Notional(entry, q, Multiplier, Opposite(side)) = -Notional(entry, q, Multiplier, side)
      /\ Notional(p, q, Multiplier, side) \in Int /\ Notional(entry, q, Multiplier, side) \in Int
      /\ Notional(p, held, Multiplier, side) \in Int
      /\ Notional(entry, held, Multiplier, side) \in Int
  <2>1. q \in Int /\ held \in Int
    OBVIOUS
  <2>2. QED
    BY <2>1, OtherSide
<1>4. PICK a, b, d, e \in Int :
        /\ a = Notional(p, q, Multiplier, side) /\ b = Notional(entry, q, Multiplier, side)
        /\ d = Notional(p, held, Multiplier, side) /\ e = Notional(entry, held, Multiplier, side)
  BY <1>3
<1>5. CASE q = held
  <2>1. inv = WithoutLeg(inventory, i)
    BY <1>5 DEF Reduced, WithoutLeg
  <2>2. /\ inv \in Seq(Legs)
        /\ Worth(inv, price) = W - d
        /\ Stake(inv) = S - e
        /\ \A j \in DOMAIN inv : Kept(inv[j])
        /\ \A j, l \in DOMAIN inv : j # l => inv[j].id # inv[l].id
    BY <1>1, <1>2, <1>4, <2>1, LegRemoved
  <2>3. a = d /\ b = e
    BY <1>4, <1>5
  <2>4. W - d = W + (-a) /\ S - e = S + (-b)
    BY <2>3
  <2>5. QED
    BY <1>1, <1>2, <1>3, <1>4, <2>2, <2>4
<1>6. CASE q # held
  <2>1. PICK left \in Nat \ {0} : left = held - q
    BY <1>6
  <2>2. inv = [inventory EXCEPT ![i].qty = left]
    BY <1>6, <2>1 DEF Reduced
  <2>3. inventory[i] \in Legs
    BY DEF LedgerInv, Shape
  <2>4. [inventory[i] EXCEPT !.qty = left] = [inventory[i] EXCEPT !.qty = left, !.entry = entry]
    BY <2>3 DEF Legs
  <2>5. inv = LegSet(i, left, entry)
    BY <2>2, <2>4 DEF LegSet
  <2>6. /\ inv \in Seq(Legs)
        /\ Worth(inv, price) = W - d + Notional(p, left, Multiplier, side)
        /\ Stake(inv) = S - e + Notional(entry, left, Multiplier, side)
        /\ \A j \in DOMAIN inv : Kept(inv[j])
        /\ \A j, l \in DOMAIN inv : j # l => inv[j].id # inv[l].id
    <3>1. IsLegSet(i, left, entry, inv, price)
      BY <2>1, <2>5, LegChanged
    <3>2. QED
      BY <1>1, <1>2, <1>4, <3>1 DEF IsLegSet
  <2>7. Notional(p, left, Multiplier, side) = d - a /\ Notional(entry, left, Multiplier, side) = e - b
    <3>1. held = q + left /\ q \in Int /\ left \in Int /\ held \in Int
      BY <2>1
    <3>2. /\ Notional(p, held, Multiplier, side)
               = Notional(p, q, Multiplier, side) + Notional(p, left, Multiplier, side)
          /\ Notional(entry, held, Multiplier, side)
               = Notional(entry, q, Multiplier, side) + Notional(entry, left, Multiplier, side)
      BY <3>1, LessHeld
    <3>3. Notional(p, left, Multiplier, side) \in Int /\ Notional(entry, left, Multiplier, side) \in Int
      BY <3>1, OtherSide
    <3>4. QED
      BY <1>4, <3>2, <3>3
  <2>8. W - d + (d - a) = W + (-a) /\ S - e + (e - b) = S + (-b)
    OBVIOUS
  <2>9. QED
    BY <1>1, <1>2, <1>3, <1>4, <2>6, <2>7, <2>8
<1>7. QED
  BY <1>5, <1>6

ClosesEvenly(S, L, O, F, K, v, entry, Q) ==
  /\ (S + (entry * Q) * K) - (L + (((v - entry) * Q) * (-K) - F)) + O
       = S - L + O + (v * Q) * K + F
  /\ ((v - entry) * Q) * (-K) - F \in Int /\ S + (entry * Q) * K \in Int

\* What the log gains is what the cash gains beyond the stake it frees.
LEMMA ClosedSum ==
  ASSUME NEW S \in Int, NEW L \in Int, NEW O \in Int, NEW F \in Int, NEW K \in Int, NEW v \in Int,
         NEW entry \in Int, NEW Q \in Int
  PROVE  ClosesEvenly(S, L, O, F, K, v, entry, Q)
<1>1. PICK x, y \in Int : x = entry * Q /\ y = v * Q
  OBVIOUS
<1>2. (v - entry) * Q = y - x
  BY <1>1
<1>3. (y - x) * (-K) = x * K - y * K
  OBVIOUS
<1>4. PICK a, b \in Int : a = x * K /\ b = y * K
  OBVIOUS
<1>5. (S + a) - (L + ((a - b) - F)) + O = S - L + O + b + F
  OBVIOUS
<1>6. /\ (S + (entry * Q) * K) - (L + (((v - entry) * Q) * (-K) - F)) + O
           = S - L + O + (v * Q) * K + F
      /\ ((v - entry) * Q) * (-K) - F \in Int /\ S + (entry * Q) * K \in Int
  BY <1>1, <1>2, <1>3, <1>4, <1>5
<1>7. QED
  BY <1>6 DEF ClosesEvenly

LEMMA CloseByIs ==
  ASSUME LedgerInv, Trading, UNCHANGED <<tape, openFees>>, NEW i \in DOMAIN inventory,
         NEW mid \in Int, NEW side, side = Opposite(inventory[i].side), NEW lot,
         IsOrder(lot, side, mid), lot # <<>>, QtyOf(lot) <= inventory[i].qty,
         CloseBy(i, AggregateFills(lot))
  PROVE  /\ side \in Sides
         /\ Mids(n)[inventory[i].contract] \in Int
         /\ Worth(inventory, Mids(n))' = Worth(inventory, Mids(n))
              + Notional(Mids(n)[inventory[i].contract], QtyOf(lot), Multiplier, side)
         /\ AggregateFills(lot).price \in Int /\ Tells(side, lot, AggregateFills(lot).price)
         /\ inventory' \in Seq(Legs) /\ Stake(inventory)' \in Int
         /\ log' \in Seq(Int) /\ Sum(log)' \in Int
         /\ Fits(PnlOf(inventory[i], AggregateFills(lot))) =>
              \A j \in DOMAIN log' : Fits(log'[j])
         /\ \A j \in DOMAIN inventory' : Kept(inventory'[j])
         /\ \A j, l \in DOMAIN inventory' : j # l => inventory'[j].id # inventory'[l].id
<1>1. inventory[i] \in Legs
  BY DEF LedgerInv, Shape
<1>2. PICK held \in Nat \ {0}, entry \in Int, at \in Sides :
        held = inventory[i].qty /\ entry = inventory[i].entry /\ at = inventory[i].side
  BY <1>1, LegFacts
<1>3. PICK c : c = inventory[i].contract
  OBVIOUS
<1>4. side = Opposite(at) /\ side \in Sides
  BY <1>2, SignType
<1>5. PICK v \in Int, Q \in Nat \ {0}, F \in Int :
        /\ v = AggregateFills(lot).price /\ Q = QtyOf(lot) /\ Q = AggregateFills(lot).qty
        /\ F = FeesOf(lot) /\ F = AggregateFills(lot).fees
  <2>1. FeesOf(lot) \in Nat
    BY OrderTypes
  <2>2. PICK v : v = AggregateFills(lot).price
    OBVIOUS
  <2>3. /\ v \in Int /\ AggregateFills(lot).qty = QtyOf(lot) /\ QtyOf(lot) \in Nat \ {0}
        /\ AggregateFills(lot).fees = FeesOf(lot)
    BY <1>4, <2>2, AverageOf
  <2>4. QED
    BY <2>1, <2>2, <2>3
<1>6. Q \in 1..held
  BY <1>2, <1>5
<1>7. PICK inv, price : inv = inventory' /\ price = Mids(n)
  OBVIOUS
<1>8. inv = Reduced(i, Q)
  BY <1>5, <1>7 DEF CloseBy
<1>9. /\ inv \in Seq(Legs) /\ price[c] \in Int
      /\ Worth(inv, price) = Worth(inventory, price) + Notional(price[c], Q, Multiplier, side)
      /\ Stake(inv) = Stake(inventory) + Notional(entry, Q, Multiplier, side)
      /\ \A j \in DOMAIN inv : Kept(inv[j])
      /\ \A j, l \in DOMAIN inv : j # l => inv[j].id # inv[l].id
  BY <1>2, <1>3, <1>4, <1>6, <1>7, <1>8, ReducedIs
<1>10. /\ Worth(inventory, Mids(n))' = Worth(inv, price) /\ Stake(inventory)' = Stake(inv)
  BY <1>7, NextHoldings
<1>11. PICK K \in Int : K = Multiplier * SideSign(side)
  BY <1>4, NotionalIs
<1>12. Multiplier * SideSign(at) = -K
  <2>1. PICK s, M \in Int : s = SideSign(at) /\ M = Multiplier
    BY SignType, LedgerAssumption
  <2>2. K = M * (-s)
    BY <1>4, <1>11, <2>1, SignType
  <2>3. M * s = -(M * (-s))
    BY <2>1
  <2>4. QED
    BY <2>1, <2>2, <2>3
<1>13. PICK S, L, O \in Int : S = Stake(inventory) /\ L = Sum(log) /\ O = openFees
  BY HoldingsType, LogType, MoneyTypes
<1>14. PnlOf(inventory[i], AggregateFills(lot)) = ((v - entry) * Q) * (-K) - F
  <2>1. v - entry \in Int /\ Q \in Int
    OBVIOUS
  <2>2. Notional(v - entry, Q, Multiplier, at) = ((v - entry) * Q) * (-K)
    BY <1>12, <2>1, NotionalIs
  <2>3. QED
    BY <1>2, <1>5, <2>2 DEF PnlOf, RealizedPnl
<1>15. /\ (S + (entry * Q) * K) - (L + (((v - entry) * Q) * (-K) - F)) + O
            = S - L + O + (v * Q) * K + F
       /\ ((v - entry) * Q) * (-K) - F \in Int /\ S + (entry * Q) * K \in Int
  <2>1. Q \in Int /\ v \in Int /\ entry \in Int /\ K \in Int /\ F \in Int
    OBVIOUS
  <2>2. S \in Int /\ L \in Int /\ O \in Int
    OBVIOUS
  <2>3. ClosesEvenly(S, L, O, F, K, v, entry, Q)
    BY <2>1, <2>2, ClosedSum
  <2>4. QED
    BY <2>3 DEF ClosesEvenly
<1>16. PICK pnl \in Int : pnl = ((v - entry) * Q) * (-K) - F
  BY <1>15
<1>17. log' = Append(log, pnl)
  BY <1>14, <1>16 DEF CloseBy
<1>18. log' \in Seq(Int) /\ Sum(log)' = L + pnl /\ Sum(log)' \in Int
  <2>1. Append(log, pnl) \in Seq(Int) /\ Sum(Append(log, pnl)) = L + pnl
    BY <1>13, LogType
  <2>2. Sum(log)' = Sum(Append(log, pnl))
    BY <1>17
  <2>3. QED
    BY <1>17, <2>1, <2>2
<1>19. Notional(entry, Q, Multiplier, side) = (entry * Q) * K
  <2>1. Q \in Int
    OBVIOUS
  <2>2. QED
    BY <1>4, <1>11, <2>1, NotionalIs
<1>20. Stake(inventory)' = S + (entry * Q) * K
  BY <1>9, <1>10, <1>13, <1>19
<1>21. Tells(side, lot, v)
  <2>1. Stake(inventory)' - Sum(log)' + openFees' = S - L + O + (v * Q) * K + F
    BY <1>13, <1>15, <1>16, <1>18, <1>20
  <2>2. QED
    BY <1>5, <1>11, <1>13, <2>1 DEF Tells
<1>22. ASSUME Fits(PnlOf(inventory[i], AggregateFills(lot)))
       PROVE  \A j \in DOMAIN log' : Fits(log'[j])
  <2>1. Fits(pnl)
    BY <1>14, <1>16, <1>22
  <2>2. \A j \in DOMAIN log : Fits(log[j])
    BY DEF LedgerInv, TypeOK
  <2>3. PICK z \in Nat : z = Len(log) /\ DOMAIN log = 1..z
    <3>1. log \in Seq(Int)
      BY LogType
    <3>2. Len(log) \in Nat /\ DOMAIN log = 1..Len(log)
      BY <3>1
    <3>3. QED
      BY <3>2
  <2>4. DOMAIN log' = 1..(z + 1) /\ log'[z + 1] = pnl /\ \A j \in 1..z : log'[j] = log[j]
    BY <1>17, <2>3, LogType
  <2>5. \A j \in 1..(z + 1) : j \in 1..z \/ j = z + 1
    OBVIOUS
  <2>6. QED
    BY <2>1, <2>2, <2>3, <2>4, <2>5
<1>23. QED
  BY <1>2, <1>3, <1>4, <1>5, <1>7, <1>9, <1>10, <1>15, <1>18, <1>20, <1>21, <1>22

LEMMA CloseKeeps ==
  ASSUME LedgerInv, pc = "trade", NEW i \in DOMAIN inventory,
         NEW qty \in Nat \ {0}, qty <= inventory[i].qty,
         inventory[i].contract \in DOMAIN Snapshot,
         NEW terms \in Terms(inventory[i].contract, Opposite(inventory[i].side)),
         SubmitClose(i, qty, terms)
  PROVE  LedgerInv'
<1>1. Trading
  BY DEF Trading
<1>2. inventory[i] \in Legs
  BY DEF LedgerInv, Shape
<1>3. PICK c, side : c = inventory[i].contract /\ side = Opposite(inventory[i].side)
  OBVIOUS
<1>4. PICK held \in Nat \ {0}, at \in Sides :
        held = inventory[i].qty /\ at = inventory[i].side /\ side = Opposite(at)
  BY <1>2, <1>3, LegFacts
<1>5. side \in Sides /\ c \in DOMAIN Snapshot /\ qty <= held /\ terms \in Terms(c, side)
  BY <1>3, <1>4, SignType
<1>6. PICK lot : lot = FillsWithin(c, side, qty, terms.limit)
  OBVIOUS
<1>7. PICK order : order = AggregateFills(lot)
  OBVIOUS
<1>8. terms.limit \in Nat /\ (terms.tif = "Ioc" \/ (terms.tif = "Gtc" /\ mode = "realistic"))
  BY <1>1, <1>5, TermsFacts
<1> DEFINE accepted == /\ Accepted(c, side, qty, terms, lot)
                       /\ lot # <<>> => Fits(PnlOf(inventory[i], order))
<1>9. CASE ~accepted
  <2>1. Abort
    BY <1>3, <1>6, <1>7, <1>9 DEF SubmitClose
  <2>2. QED
    BY <2>1, AbortKeeps
<1>10. CASE accepted
  <2>1. /\ ApplyFills(lot) /\ Route(c, side, qty, terms.limit)
        /\ swept' = swept + Swept(lot)
        /\ IF lot = <<>> THEN UNCHANGED <<inventory, log>> ELSE CloseBy(i, order)
        /\ working' = Remainder(c, side, qty, terms, lot,
                                [action |-> "close", id |-> inventory[i].id])
        /\ UNCHANGED <<mode, pc, tape, beginStep, carried, openFees, settleVars, passVars>>
    BY <1>3, <1>6, <1>7, <1>10 DEF SubmitClose
  <2>2. /\ pc' = "trade" /\ UNCHANGED <<mode, tape, beginStep, settleVars, passVars>>
        /\ UNCHANGED <<tape, carried, steps, positions, openFees>>
    BY <2>1 DEF settleVars
  <2>3. PICK mid \in Int : mid = Snapshot[c].mid /\ mid = Mids(n)[c]
    <3>1. Snapshot[c].mid \in Int /\ Mids(n)[c] = Snapshot[c].mid
      BY <1>1, <1>5, <1>6, <1>8, <2>1, <2>2, SubmitFacts
    <3>2. QED
      BY <3>1
  <2>4. /\ IsOrder(lot, side, mid) /\ QtyOf(lot) \in 0..qty /\ Booked'
        /\ trades' \in Nat /\ trades' = trades + 1 /\ trades <= trades' /\ c \in Contracts
    BY <1>1, <1>5, <1>6, <1>8, <2>1, <2>2, <2>3, SubmitFacts
  <2>5. PICK Q \in Nat, F \in Int : Q = QtyOf(lot) /\ F = FeesOf(lot)
    <3>1. QtyOf(lot) \in Nat /\ FeesOf(lot) \in Nat
      BY <2>4, OrderTypes
    <3>2. QED
      BY <3>1
  <2>6. PICK W, S, L, O \in Int :
          /\ W = Worth(inventory, Mids(n)) /\ S = Stake(inventory) /\ L = Sum(log)
          /\ O = openFees
    BY <1>1, HoldingsType, LogType, MoneyTypes
  \* What becomes of the leg and the log.
  <2>7. PICK v \in Int :
          /\ lot # <<>> => v = AggregateFills(lot).price
          /\ Tells(side, lot, v)
          /\ Worth(inventory, Mids(n))' = W + Notional(mid, Q, Multiplier, side)
          /\ Stake(inventory)' \in Int /\ Sum(log)' \in Int
          /\ inventory' \in Seq(Legs) /\ log' \in Seq(Int)
          /\ \A j \in DOMAIN log' : Fits(log'[j])
          /\ \A j \in DOMAIN inventory' : Kept(inventory'[j])
          /\ \A j, l \in DOMAIN inventory' : j # l => inventory'[j].id # inventory'[l].id
    <3>1. CASE lot = <<>>
      <4>1. /\ inventory' = inventory /\ log' = log /\ openFees' = openFees
            /\ Q = 0 /\ F = 0 /\ FeesOf(lot) = 0 /\ QtyOf(lot) = 0
        BY <2>1, <2>5, <3>1, NoFills
      <4>2. Stake(inventory)' = S /\ Sum(log)' = L /\ Worth(inventory, Mids(n))' = W
        <5>1. Stake(inventory)' = Stake(inventory') /\ Worth(inventory, Mids(n))' = Worth(inventory', Mids(n))
          BY <2>2, NextHoldings
        <5>2. QED
          BY <2>6, <4>1, <5>1
      <4>3. Notional(mid, Q, Multiplier, side) = 0 /\ W + 0 = W
        BY <1>5, <4>1, NothingNotional
      <4>4. Tells(side, lot, 0)
        <5>1. PICK K \in Int : K = Multiplier * SideSign(side)
          BY <1>5, NotionalIs
        <5>2. (0 * 0) * K = 0 /\ S - L + O + 0 + 0 = S - L + O
          OBVIOUS
        <5>3. QED
          BY <2>6, <4>1, <4>2, <5>1, <5>2 DEF Tells
      <4>5. \A j \in DOMAIN inventory : Kept(inventory[j])
        BY DEF Kept, SamePosition
      <4>6. \A j, l \in DOMAIN inventory : j # l => inventory[j].id # inventory[l].id
        BY DEF LedgerInv, Identified
      <4>7. inventory \in Seq(Legs) /\ log \in Seq(Int) /\ \A j \in DOMAIN log : Fits(log[j])
        BY DEF LedgerInv, Shape, TypeOK
      <4>8. WITNESS 0 \in Int
      <4>9. QED
        BY <3>1, <4>1, <4>2, <4>3, <4>4, <4>5, <4>6, <4>7
    <3>2. CASE lot # <<>>
      <4>1. CloseBy(i, AggregateFills(lot)) /\ Fits(PnlOf(inventory[i], AggregateFills(lot)))
        BY <1>7, <1>10, <2>1, <3>2
      <4>2. QtyOf(lot) <= inventory[i].qty
        BY <1>4, <1>5, <2>4
      <4>3. /\ Worth(inventory, Mids(n))' = Worth(inventory, Mids(n))
                 + Notional(Mids(n)[inventory[i].contract], QtyOf(lot), Multiplier, side)
            /\ AggregateFills(lot).price \in Int
            /\ Tells(side, lot, AggregateFills(lot).price)
            /\ inventory' \in Seq(Legs) /\ Stake(inventory)' \in Int
            /\ log' \in Seq(Int) /\ Sum(log)' \in Int
            /\ Fits(PnlOf(inventory[i], AggregateFills(lot))) =>
                 \A j \in DOMAIN log' : Fits(log'[j])
            /\ \A j \in DOMAIN inventory' : Kept(inventory'[j])
            /\ \A j, l \in DOMAIN inventory' : j # l => inventory'[j].id # inventory'[l].id
        BY <1>1, <1>3, <2>2, <2>4, <3>2, <4>1, <4>2, CloseByIs
      <4>4. PICK v \in Int : v = AggregateFills(lot).price
        BY <4>3
      <4>5. Worth(inventory, Mids(n))' = W + Notional(mid, Q, Multiplier, side)
        BY <1>3, <2>3, <2>5, <2>6, <4>3
      <4>6. WITNESS v \in Int
      <4>7. QED
        BY <4>1, <4>3, <4>4, <4>5
    <3>3. QED
      BY <3>1, <3>2
  <2>8. Explained' /\ swept' \in Nat
    <3>1. openFees' \in Int
      BY <2>2, <2>6
    <3>2. QED
      BY <1>1, <1>5, <2>1, <2>4, <2>7, <3>1, OrderTold
  <2>9. Balanced'
    <3>1. PICK D \in Int : D = DriftAt(n)
      BY DriftType
    <3>2. DriftAt(n)' = D
      BY <2>2, <3>1, SameCarried, SameTape DEF DriftAt, Drift
    <3>3. mid - mid = 0 /\ Q \in Int
      OBVIOUS
    <3>4. Notional(mid - mid, Q, Multiplier, side) = 0
      BY <1>5, <3>3, NothingNotional
    <3>5. Worth(inventory, Mids(n))' = W + Notional(mid, QtyOf(lot), Multiplier, side)
      BY <2>5, <2>7
    <3>6. DriftAt(n)' = D + Notional(mid - mid, QtyOf(lot), Multiplier, side)
      BY <2>5, <3>2, <3>4
    <3>7. QED
      BY <1>1, <1>5, <2>1, <2>2, <2>4, <2>6, <3>1, <3>5, <3>6, OrderBalanced
  <2>10. Shape'
    <3>1. cash \in Int /\ stepSlippage \in Int /\ stepFees \in Int
      BY MoneyTypes
    <3>2. stepSlippage' \in Int /\ stepFees' \in Int
      <4>1. PICK K \in Int : K = Multiplier * SideSign(side)
        BY <1>5, NotionalIs
      <4>2. QED
        BY <1>5, <2>1, <2>4, <3>1, <4>1, OrderEffects
    <3>3. carried' \in Seq(Carryings)
      BY <2>2, SameCarried
    <3>4. openFees' \in Int
      BY <2>2, <2>6
    <3>5. QED
      BY <2>2, <2>4, <2>7, <2>8, <3>2, <3>3, <3>4, ShapeKept
  <2>11. Identified'
    BY <2>4, <2>7, IdentifiedKept
  <2>12. Marked'
    BY <1>1, <2>2, <2>7, MarkedKept
  <2>13. Rests'
    <3>1. PICK leg : leg = [action |-> "close", id |-> inventory[i].id]
      OBVIOUS
    <3>2. trades \in Nat /\ inventory[i].id \in Nat /\ inventory[i].id < trades
      BY <1>2, LegFacts DEF LedgerInv, Shape, Identified
    <3>3. leg.action = "close" /\ leg.id = inventory[i].id /\ leg.id \in Nat /\ leg.id <= trades
      BY <3>1, <3>2
    <3>4. ASSUME NEW j \in DOMAIN inventory', inventory'[j].id = leg.id
          PROVE  inventory'[j].contract = c /\ inventory'[j].side = Opposite(side)
      <4>1. PICK l \in DOMAIN inventory : SamePosition(inventory'[j], inventory[l])
        BY <2>7 DEF Kept
      <4>2. inventory[l].id = inventory[i].id
        BY <3>3, <3>4, <4>1 DEF SamePosition
      <4>3. l = i
        BY <4>2 DEF LedgerInv, Identified
      <4>4. Opposite(side) = at
        BY <1>4 DEF Opposite, Sides
      <4>5. QED
        BY <1>3, <1>4, <4>1, <4>3, <4>4 DEF SamePosition
    <3>5. working' = Remainder(c, side, qty, terms, lot, leg)
      BY <2>1, <3>1
    <3>6. \A j \in DOMAIN inventory' : inventory'[j].id = leg.id =>
            /\ inventory'[j].contract = c
            /\ inventory'[j].side = IF leg.action = "open" THEN side ELSE Opposite(side)
      BY <3>3, <3>4
    <3>7. \A j \in DOMAIN inventory' : Kept(inventory'[j]) \/ inventory'[j].id = trades
      BY <2>7
    <3>8. trades' = trades + 1 /\ QtyOf(lot) \in 0..qty /\ UNCHANGED <<mode, tape>>
      BY <2>2, <2>4
    <3>9. leg.action \in {"open", "close"} /\ leg.id \in Nat /\ leg.id <= trades
      BY <3>3
    <3>10. QED
      BY <1>1, <1>5, <1>8, <2>2, <3>5, <3>6, <3>7, <3>8, <3>9, RemainderRests
  <2>14. Fits(cash')
    <3>1. Fits(cash) /\ ~Overflows(lot)
      BY <1>10 DEF LedgerInv, TypeOK, Accepted
    <3>2. QED
      BY <1>5, <2>1, <2>4, <3>1, FitsAfter
  <2>15. Carries' /\ PnlExplained'
    BY <2>2, SameCarried
  <2>16. QED
    BY <1>1, <2>2, <2>4, <2>7, <2>8, <2>9, <2>10, <2>11, <2>12, <2>13, <2>14, <2>15, OrderInv
<1>11. QED
  BY <1>9, <1>10

-----------------------------------------------------------------------------
(* The order that rests.                                                   *)

\* No level of the new ladder crosses it.
LEMMA NothingCarried ==
  ASSUME LedgerInv, pc = "carry", pc' = "trade",
         UNCHANGED <<mode, tape, beginStep, bookVars, settleVars, passVars>>
  PROVE  LedgerInv'
<1>1. Trading /\ Trading'
  BY DEF Trading
<1>2. UNCHANGED <<books, working, cash, stepSlippage, stepFees, openFees, swept, carried, log,
                  inventory, trades, mode, tape, beginStep, prevEquity, steps, positions, curve>>
  BY DEF bookVars, settleVars
<1>3. TypeOK /\ Shape /\ Counted /\ Identified /\ Booked /\ Rests /\ Marked
      /\ Balanced /\ Explained
  BY DEF LedgerInv
<1>4. trades \in Nat /\ trades <= trades
  BY <1>3 DEF Shape
<1>5. Shape'
  BY <1>2, <1>3, ShapeKept DEF Shape
<1>6. Booked'
  BY <1>1, <1>2, <1>3, SameTape DEF Booked
<1>7. Balanced'
  <2>1. ~Settled' /\ pc # "failed"
    BY DEF Settled
  <2>2. /\ Worth(inventory, Mids(n))' = Worth(inventory, Mids(n))
        /\ Worth(beginStep, Mids(n))' = Worth(beginStep, Mids(n))
        /\ Worth(beginStep, Mids(n - 1))' = Worth(beginStep, Mids(n - 1))
    BY <1>2, SameTape DEF Worth
  <2>3. DriftAt(n)' = DriftAt(n)
    BY <1>2, SameTape DEF DriftAt, Drift
  <2>4. EquityAt(Len(steps))' = EquityAt(Len(steps))
    BY <1>2 DEF EquityAt
  <2>5. QED
    BY <1>1, <1>2, <1>3, <2>1, <2>2, <2>3, <2>4 DEF Balanced
<1>8. Explained'
  BY <1>2, <1>3 DEF Explained, Stake
<1>9. \A j \in DOMAIN inventory' : Kept(inventory'[j])
  BY <1>2 DEF Kept, SamePosition
<1>10. Identified'
  BY <1>2, <1>3 DEF Identified
<1>11. Marked'
  BY <1>1, <1>2, <1>9, MarkedKept
<1>12. Rests'
  <2>1. \A w : IsResting(w) => IsResting(w)'
    BY <1>2, <1>4, <1>9, StillRests
  <2>2. QED
    BY <1>2, <1>3, <2>1 DEF Rests
<1>13. Carries' /\ PnlExplained'
  BY <1>2, SameCarried
<1>14. Fits(cash') /\ \A i \in DOMAIN log' : Fits(log'[i])
  BY <1>2, <1>3 DEF TypeOK, Fits
<1>15. QED
  BY <1>1, <1>2, <1>5, <1>6, <1>7, <1>8, <1>10, <1>11, <1>12, <1>13, <1>14, OrderInv

\* One more order that had been resting fills in this step.
LEMMA CarriedIs ==
  ASSUME LedgerInv, Trading, UNCHANGED <<tape, steps, positions>>, NEW r \in Carryings,
         r.step = n, r.since \in 1..n,
         r.contract \in DOMAIN tape[n], r.contract \in DOMAIN tape[r.since],
         carried' = Append(carried, r)
  PROVE  /\ Carries' /\ carried' \in Seq(Carryings) /\ PnlExplained'
         /\ Drift(r) \in Int /\ DriftAt(n)' = DriftAt(n) + Drift(r)
<1>1. carried \in Seq(Carryings) /\ n \in Nat \ {0} /\ Shape
  <2>1. Shape /\ Counted
    BY DEF LedgerInv
  <2>2. QED
    BY <2>1, TapeFacts DEF Shape, Counted
<1>2. PICK z \in Nat : z = Len(carried) /\ DOMAIN carried = 1..z
  BY <1>1
<1>3. /\ carried' \in Seq(Carryings) /\ DOMAIN carried' = 1..(z + 1) /\ carried'[z + 1] = r
      /\ \A i \in 1..z : carried'[i] = carried[i]
  BY <1>1, <1>2
<1>4. \A i \in 1..(z + 1) : i \in 1..z \/ i = z + 1
  OBVIOUS
<1>5. \A c : Drift(c)' = Drift(c)
  BY DEF Drift
<1>6. Drift(r) \in Int
  <2>1. PICK side \in Sides, qty \in Int : side = r.side /\ qty = r.qty
    BY DEF Carryings
  <2>2. IsQuote(tape[r.step][r.contract]) /\ IsQuote(tape[r.since][r.contract])
    BY <1>1, TapeFacts
  <2>3. PICK a, b \in Int : a = tape[r.step][r.contract].mid /\ b = tape[r.since][r.contract].mid
    <3>1. \A q : IsQuote(q) => q.mid \in Int
      BY DEF IsQuote
    <3>2. tape[r.step][r.contract].mid \in Int /\ tape[r.since][r.contract].mid \in Int
      BY <2>2, <3>1
    <3>3. QED
      BY <3>2
  <2>4. Notional(a - b, qty, Multiplier, side) \in Int
    BY NotionalIs
  <2>5. QED
    BY <2>1, <2>3, <2>4 DEF Drift
<1>7. Carries'
  <2>1. IsCarried(r)
    BY <1>1 DEF IsCarried
  <2>2. \A c : IsCarried(c) => IsCarried(c)'
    BY SameTape DEF IsCarried
  <2>3. \A i \in 1..z : IsCarried(carried[i])
    BY <1>2 DEF LedgerInv, Carries
  <2>4. ASSUME NEW i \in DOMAIN carried' PROVE IsCarried(carried[i])'
    <3>1. PICK c : c = carried'[i]
      OBVIOUS
    <3>2. IsCarried(c)
      BY <1>3, <1>4, <2>1, <2>3, <3>1
    <3>3. IsCarried(c)'
      BY <2>2, <3>2
    <3>4. QED
      BY <3>1, <3>3
  <2>5. QED
    BY <2>4 DEF Carries
<1>8. ASSUME NEW m
      PROVE  DriftAt(m)' = DriftAt(m) + (IF m = n THEN Drift(r) ELSE 0)
  <2> DEFINE d == [i \in DOMAIN carried |-> IF carried[i].step = m THEN Drift(carried[i]) ELSE 0]
             e == [i \in DOMAIN carried' |-> IF carried'[i].step = m THEN Drift(carried'[i]) ELSE 0]
  <2>1. DriftAt(m)' = Sum(e)
    <3>1. \A i : Drift(carried[i])' = Drift(carried'[i])
      BY DEF Drift
    <3>2. QED
      BY <3>1 DEF DriftAt
  <2>2. DriftAt(m) = Sum(d)
    BY DEF DriftAt
  <2>3. d \in [1..z -> Int]
    BY <1>2, DriftType
  <2>4. /\ e \in [1..(z + 1) -> Int] /\ \A i \in 1..z : e[i] = d[i]
        /\ e[z + 1] = IF m = n THEN Drift(r) ELSE 0
    <3>1. /\ DOMAIN e = 1..(z + 1) /\ \A i \in 1..z : e[i] = d[i]
          /\ e[z + 1] = IF m = n THEN Drift(r) ELSE 0
      BY <1>2, <1>3
    <3>2. \A i \in 1..(z + 1) : e[i] \in Int
      BY <1>4, <1>6, <2>3, <3>1
    <3>3. QED
      BY <3>1, <3>2
  <2> HIDE DEF d, e
  <2>5. Sum(e) = Sum(d) + e[z + 1]
    BY <2>3, <2>4, SumGrow
  <2>6. QED
    BY <2>1, <2>2, <2>4, <2>5
<1>9. PnlExplained'
  <2>1. Len(steps) = n - 1 /\ DOMAIN steps = 1..Len(steps)
    BY DEF LedgerInv, Counted, Shape
  <2>2. ASSUME NEW m \in DOMAIN steps PROVE Explains(m)'
    <3>1. m # n
      BY <1>1, <2>1
    <3>2. DriftAt(m)' = DriftAt(m)
      BY <1>8, <3>1, DriftType
    <3>3. Moves(m)' = Moves(m)
      BY SameTape DEF Moves, RowsAt
    <3>4. Explains(m)
      BY PnlIs DEF LedgerInv
    <3>5. QED
      BY <3>2, <3>3, <3>4 DEF Explains
  <2>3. QED
    BY <2>2, PnlIsNext
<1>10. DriftAt(n)' = DriftAt(n) + Drift(r)
  <2>1. PICK m : m = n
    OBVIOUS
  <2>2. DriftAt(m)' = DriftAt(m) + Drift(r)
    BY <1>8, <2>1
  <2>3. DriftAt(n)' = DriftAt(m)' /\ DriftAt(n) = DriftAt(m)
    BY <2>1, SameTape DEF DriftAt
  <2>4. QED
    BY <2>2, <2>3
<1>11. QED
  BY <1>3, <1>6, <1>7, <1>9, <1>10

\* The order that rests, as the ladder of this step fills it.
LEMMA RestingIs ==
  ASSUME LedgerInv, pc = "carry"
  PROVE  \E w : /\ working = <<w>> /\ working[1] = w /\ IsResting(w) /\ mode = "realistic"
                /\ w.contract \in Contracts /\ w.side \in Sides /\ w.limit \in Nat
                /\ w.left \in Nat \ {0} /\ w.mid \in Int /\ w.step \in 1..n
                /\ w.leg.id \in Nat /\ w.leg.action \in {"open", "close"}
<1>1. PICK w : working = <<w>> /\ IsResting(w) /\ mode = "realistic"
  BY DEF LedgerInv, Rests
<1>2. w.mid \in Int
  <2>1. Shape /\ w.step \in 1..n /\ w.contract \in DOMAIN tape[w.step]
        /\ w.mid = tape[w.step][w.contract].mid
    BY <1>1 DEF IsResting, LedgerInv
  <2>2. IsQuote(tape[w.step][w.contract])
    BY <2>1, TapeFacts
  <2>3. \A q : IsQuote(q) => q.mid \in Int
    BY DEF IsQuote
  <2>4. QED
    BY <2>1, <2>2, <2>3
<1>3. working[1] = w
  BY <1>1
<1>4. QED
  BY <1>1, <1>2, <1>3 DEF IsResting

\* What the fills of a resting order do to the legs and to what the log tells.
IsCarryOf(w, lot) ==
  /\ Worth(inventory, Mids(n))' = Worth(inventory, Mids(n))
       + Notional(Mids(n)[w.contract], QtyOf(lot), Multiplier, w.side)
  /\ inventory' \in Seq(Legs) /\ log' \in Seq(Int) /\ \A j \in DOMAIN log' : Fits(log'[j])
  /\ openFees' \in Int /\ swept' \in Nat /\ Explained'
  /\ \A j \in DOMAIN inventory' :
       \/ Kept(inventory'[j])
       \/ /\ inventory'[j].contract = w.contract /\ inventory'[j].side = w.side
          /\ inventory'[j].id = w.leg.id /\ w.leg.action = "open"
  /\ \A j, l \in DOMAIN inventory' : j # l => inventory'[j].id # inventory'[l].id

\* The first fills of an open make its leg.
LEMMA CarryOpens ==
  ASSUME LedgerInv, Trading, UNCHANGED tape, NEW w, w.contract \in DOMAIN Snapshot,
         w.contract \in Contracts, w.leg.id \in Nat, w.leg.action = "open",
         NEW side \in Sides, side = w.side, NEW mid \in Int, NEW lot,
         IsOrder(lot, side, mid), lot # <<>>, ApplyFills(lot),
         LegOf(w) = {}, CarryOpen(w, lot)
  PROVE  IsCarryOf(w, lot)
<1>1. PICK c, id : c = w.contract /\ id = w.leg.id
  OBVIOUS
<1>2. PICK Q \in Nat \ {0}, F \in Int, v \in Int :
        /\ Q = QtyOf(lot) /\ F = FeesOf(lot) /\ F = AggregateFills(lot).fees
        /\ v = AggregateFills(lot).price
  <2>1. FeesOf(lot) \in Nat
    BY OrderTypes
  <2>2. PICK v : v = AggregateFills(lot).price
    OBVIOUS
  <2>3. v \in Int /\ QtyOf(lot) \in Nat \ {0} /\ AggregateFills(lot).fees = FeesOf(lot)
    BY <2>2, AverageOf
  <2>4. QED
    BY <2>1, <2>2, <2>3
<1>3. PICK leg : leg = NewLeg(c, side, lot, id)
  OBVIOUS
<1>4. /\ leg \in Legs /\ leg.contract = c /\ leg.side = side /\ leg.id = id
      /\ leg.qty = Q /\ leg.entry = v
  <2>1. c \in Contracts /\ id \in Nat
    BY <1>1
  <2>2. QED
    BY <1>2, <1>3, <2>1, NewLegIs
<1>5. PICK inv, price : inv = inventory' /\ price = Mids(n)
  OBVIOUS
<1>6. /\ inv = Append(inventory, leg) /\ swept' = swept + Swept(lot)
      /\ openFees' = openFees + F /\ log' = log
  BY <1>1, <1>2, <1>3, <1>5 DEF CarryOpen
<1>7. PICK W, S, L, O \in Int :
        W = Worth(inventory, price) /\ S = Stake(inventory) /\ L = Sum(log) /\ O = openFees
  BY <1>5, HoldingsType, LogType, MoneyTypes
<1>8. Mids(n)[c] = Snapshot[c].mid /\ Snapshot[c].mid \in Int
  <2>1. Shape /\ Counted
    BY DEF LedgerInv
  <2>2. n > 0
    BY <2>1 DEF Counted
  <2>3. QED
    BY <1>1, <2>1, <2>2, PresentMid
<1>9. /\ inv \in Seq(Legs)
      /\ Worth(inv, price) = W + Notional(Snapshot[c].mid, Q, Multiplier, side)
      /\ Stake(inv) = S + Notional(v, Q, Multiplier, side)
      /\ \A j \in DOMAIN inv : inv[j] = leg \/ Kept(inv[j])
      /\ (\A i \in DOMAIN inventory : inventory[i].id # leg.id) =>
           \A i, j \in DOMAIN inv : i # j => inv[i].id # inv[j].id
  BY <1>1, <1>4, <1>5, <1>6, <1>7, LegAdded
<1>10. \A i \in DOMAIN inventory : inventory[i].id # leg.id
  BY <1>1, <1>4 DEF LegOf
<1>11. Worth(inventory, Mids(n))' = Worth(inv, price) /\ Stake(inventory)' = Stake(inv)
  BY <1>5, NextHoldings
<1>12. PICK K \in Int : K = Multiplier * SideSign(side)
  BY NotionalIs
<1>13. Notional(v, Q, Multiplier, side) = (v * Q) * K
  <2>1. Q \in Int
    OBVIOUS
  <2>2. QED
    BY <1>12, <2>1, NotionalIs
<1>14. PICK x \in Int : x = (v * Q) * K
  OBVIOUS
<1>15. /\ Stake(inventory)' = S + x /\ Sum(log)' = L /\ openFees' = O + F
       /\ Stake(inventory)' \in Int /\ Sum(log)' \in Int /\ openFees' \in Int
  BY <1>6, <1>7, <1>9, <1>11, <1>13, <1>14
<1>16. Tells(side, lot, v)
  <2>1. S + x - L + (O + F) = S - L + O + x + F
    OBVIOUS
  <2>2. Stake(inventory)' - Sum(log)' + openFees' = S - L + O + (v * Q) * K + F
    BY <1>14, <1>15, <2>1
  <2>3. QED
    BY <1>2, <1>7, <1>12, <2>2 DEF Tells
<1>17. Explained' /\ swept' \in Nat
  BY <1>2, <1>6, <1>15, <1>16, OrderTold
<1>18. log' \in Seq(Int) /\ \A j \in DOMAIN log' : Fits(log'[j])
  BY <1>6 DEF LedgerInv, TypeOK, Shape
<1>19. Worth(inventory, Mids(n))' = Worth(inventory, Mids(n))
         + Notional(Mids(n)[w.contract], QtyOf(lot), Multiplier, w.side)
  BY <1>1, <1>2, <1>5, <1>7, <1>8, <1>9, <1>11
<1>20. \A j \in DOMAIN inventory' :
         \/ Kept(inventory'[j])
         \/ /\ inventory'[j].contract = w.contract /\ inventory'[j].side = w.side
            /\ inventory'[j].id = w.leg.id /\ w.leg.action = "open"
  BY <1>1, <1>4, <1>5, <1>9
<1>21. QED
  BY <1>5, <1>9, <1>10, <1>15, <1>17, <1>18, <1>19, <1>20 DEF IsCarryOf

\* The later ones extend it: entry and quantity are averaged again.
LEMMA ExtendedSum ==
  ASSUME NEW c \in Int, NEW S \in Int, NEW L \in Int, NEW O \in Int, NEW P \in Int,
         NEW F \in Int, NEW K \in Int, NEW a \in Int, NEW b \in Int, NEW cap \in Int
  PROVE  (c - P * K - F) + (S - a * K + b * K) - cap - L + (O + F)
           = (c + S - cap - L + O) + (b - (a + P)) * K
<1>1. (b - (a + P)) * K = b * K - (a * K + P * K)
  OBVIOUS
<1>2. PICK x, y, z \in Int : x = a * K /\ y = b * K /\ z = P * K
  OBVIOUS
<1>3. (c - z - F) + (S - x + y) - cap - L + (O + F) = (c + S - cap - L + O) + (y - (x + z))
  OBVIOUS
<1>4. QED
  BY <1>1, <1>2, <1>3

LEMMA CarryExtends ==
  ASSUME LedgerInv, Trading, UNCHANGED tape, NEW w, w.contract \in DOMAIN Snapshot,
         w.leg.action = "open", NEW limit \in Nat, limit = w.limit,
         NEW side \in Sides, side = w.side, NEW mid \in Int, NEW lot,
         IsOrder(lot, side, mid), lot # <<>>, ApplyFills(lot),
         PaidOf(lot) = limit * QtyOf(lot),
         NEW i \in LegOf(w), inventory[i].contract = w.contract, inventory[i].side = side,
         inventory' = Extended(i, AggregateFills(lot)),
         swept' = swept + inventory'[i].qty,
         openFees' = openFees + AggregateFills(lot).fees, UNCHANGED log
  PROVE  IsCarryOf(w, lot)
<1>1. PICK c : c = w.contract
  OBVIOUS
<1>2. PICK Q \in Nat \ {0}, F \in Int, v \in Int :
        /\ Q = QtyOf(lot) /\ Q = AggregateFills(lot).qty
        /\ F = FeesOf(lot) /\ F = AggregateFills(lot).fees
        /\ v = AggregateFills(lot).price
  <2>1. FeesOf(lot) \in Nat
    BY OrderTypes
  <2>2. PICK v : v = AggregateFills(lot).price
    OBVIOUS
  <2>3. /\ v \in Int /\ QtyOf(lot) \in Nat \ {0} /\ AggregateFills(lot).fees = FeesOf(lot)
        /\ AggregateFills(lot).qty = QtyOf(lot)
    BY <2>2, AverageOf
  <2>4. QED
    BY <2>1, <2>2, <2>3
<1>3. PICK P \in Int : P = PaidOf(lot) /\ P = v * Q
  <2>1. AggregateFills(lot).price = VwapCents(PaidOf(lot), QtyOf(lot))
    BY AggregateIs
  <2>2. limit \in Int
    OBVIOUS
  <2>3. VwapCents(limit * Q, Q) = limit
    BY <2>2, AverageExact
  <2>4. v = limit
    BY <1>2, <2>1, <2>3
  <2>5. QED
    BY <1>2, <2>4
<1>4. i \in DOMAIN inventory /\ inventory[i] \in Legs
  BY DEF LegOf, LedgerInv, Shape
<1>5. PICK held \in Nat \ {0}, entry \in Int :
        held = inventory[i].qty /\ entry = inventory[i].entry
  BY <1>4, LegFacts
<1>6. PICK total \in Nat \ {0} : total = held + Q
  OBVIOUS
<1>7. PICK paid \in Int : paid = entry * held + v * Q
  OBVIOUS
<1>8. PICK x \in Int : x = VwapCents(paid, total) /\ 2 * (x * total - paid) \in -total..total
  <2>1. VwapCents(paid, total) \in Int
        /\ 2 * (VwapCents(paid, total) * total - paid) \in -total..total
    BY AverageError
  <2>2. QED
    BY <2>1
<1>9. PICK e \in Int : e = x * total - paid
  OBVIOUS
<1>10. PICK inv, price : inv = inventory' /\ price = Mids(n)
  OBVIOUS
<1>11. inv = LegSet(i, total, x)
  <2>1. ExtendedEntry(inventory[i], AggregateFills(lot)) = x
    BY <1>2, <1>5, <1>6, <1>7, <1>8 DEF ExtendedEntry
  <2>2. inv = [inventory EXCEPT ![i].qty = total, ![i].entry = x]
    BY <1>2, <1>5, <1>6, <1>10, <2>1 DEF Extended
  <2>3. QED
    BY <2>2 DEF LegSet
<1>12. IsLegSet(i, total, x, inv, price)
  BY <1>4, <1>10, <1>11, LegChanged
<1>13. PICK W, S, L, O, money, cap \in Int :
         /\ W = Worth(inventory, price) /\ S = Stake(inventory) /\ L = Sum(log)
         /\ O = openFees /\ money = cash /\ cap = Capital
  BY <1>10, HoldingsType, LogType, MoneyTypes, LedgerAssumption
<1>14. Worth(inventory, Mids(n))' = Worth(inv, price) /\ Stake(inventory)' = Stake(inv)
  BY <1>10, NextHoldings
<1>15. PICK K \in Int : K = Multiplier * SideSign(side)
  BY NotionalIs
<1>16. PICK m \in Int : m = Mids(n)[c] /\ m = price[c]
  <2>1. Shape /\ Counted
    BY DEF LedgerInv
  <2>2. n > 0
    BY <2>1 DEF Counted
  <2>3. Mids(n)[c] \in Int
    BY <1>1, <2>1, <2>2, PresentMid
  <2>4. QED
    BY <1>10, <2>3
<1>17. held \in Int /\ Q \in Int /\ total \in Int
  OBVIOUS
<1>18. Worth(inv, price) = W + Notional(m, Q, Multiplier, side)
  <2>1. Notional(m, total, Multiplier, side)
          = Notional(m, held, Multiplier, side) + Notional(m, Q, Multiplier, side)
    BY <1>6, <1>17, LessHeld
  <2>2. PICK a, b \in Int : a = Notional(m, held, Multiplier, side)
                            /\ b = Notional(m, Q, Multiplier, side)
    BY <1>17, OtherSide
  <2>3. Worth(inv, price) = W - a + Notional(m, total, Multiplier, side)
    BY <1>1, <1>5, <1>12, <1>13, <1>16, <2>2 DEF IsLegSet
  <2>4. W - a + (a + b) = W + b
    OBVIOUS
  <2>5. QED
    BY <2>1, <2>2, <2>3, <2>4
<1>19. PICK a, b \in Int : a = entry * held /\ b = x * total
  OBVIOUS
<1>20. Stake(inv) = S - a * K + b * K /\ Stake(inv) \in Int
  <2>1. /\ Notional(entry, held, Multiplier, side) = a * K
        /\ Notional(x, total, Multiplier, side) = b * K
    BY <1>15, <1>17, <1>19, NotionalIs
  <2>2. QED
    BY <1>5, <1>12, <1>13, <2>1 DEF IsLegSet
<1>21. /\ openFees' = O + F /\ Sum(log)' = L /\ log' = log /\ swept' = swept + total
       /\ cash' = money - P * K - F
  <2>1. swept' = swept + total
    BY <1>10, <1>12 DEF IsLegSet
  <2>2. cash \in Int /\ stepSlippage \in Int /\ stepFees \in Int
    BY MoneyTypes
  <2>3. cash' = cash - PaidOf(lot) * K - FeesOf(lot)
    BY <1>15, <2>2, OrderEffects
  <2>4. QED
    BY <1>2, <1>3, <1>13, <2>1, <2>3
<1>22. PICK X \in Int : X = money + S - cap - L + O
  OBVIOUS
<1>23. e = b - (a + P)
  BY <1>3, <1>7, <1>9, <1>19
<1>24. (money - P * K - F) + (S - a * K + b * K) - cap - L + (O + F) = X + e * K
  BY <1>22, <1>23, ExtendedSum
<1>25. cash' + Stake(inventory)' - Capital - Sum(log)' + openFees'
         = X + e * (Multiplier * SideSign(side))
  BY <1>13, <1>14, <1>15, <1>20, <1>21, <1>24
<1>26. X = cash + Stake(inventory) - Capital - Sum(log) + openFees
  BY <1>13, <1>22
<1>27. Explained'
  <2>1. total \in Nat
    OBVIOUS
  <2>2. 2 * e \in -total..total
    BY <1>8, <1>9
  <2>3. QED
    BY <1>21, <1>25, <1>26, <2>1, <2>2, OrderExplained
<1>28. swept' \in Nat
  <2>1. swept \in Nat
    BY MoneyTypes
  <2>2. swept' = swept + total
    BY <1>21
  <2>3. QED
    BY <2>1, <2>2
<1>29. log' \in Seq(Int) /\ \A j \in DOMAIN log' : Fits(log'[j])
  BY <1>21 DEF LedgerInv, TypeOK, Shape
<1>30. Worth(inventory, Mids(n))' = Worth(inventory, Mids(n))
         + Notional(Mids(n)[w.contract], QtyOf(lot), Multiplier, w.side)
  BY <1>1, <1>2, <1>10, <1>13, <1>14, <1>16, <1>18
<1>31. /\ inventory' \in Seq(Legs) /\ \A j \in DOMAIN inventory' : Kept(inventory'[j])
       /\ \A j, l \in DOMAIN inventory' : j # l => inventory'[j].id # inventory'[l].id
  BY <1>10, <1>12 DEF IsLegSet
<1>32. openFees' \in Int
  BY <1>21
<1>33. QED
  BY <1>27, <1>28, <1>29, <1>30, <1>31, <1>32 DEF IsCarryOf

\* Those of a close reduce it.
LEMMA CarryCloses ==
  ASSUME LedgerInv, Trading, UNCHANGED <<tape, openFees>>, NEW w,
         NEW side \in Sides, side = w.side, NEW mid \in Int, NEW lot,
         IsOrder(lot, side, mid), lot # <<>>, ApplyFills(lot),
         NEW i \in LegOf(w), inventory[i].contract = w.contract,
         inventory[i].side = Opposite(side), inventory[i].qty >= AggregateFills(lot).qty,
         Fits(PnlOf(inventory[i], AggregateFills(lot))),
         CloseBy(i, AggregateFills(lot)), swept' = swept + Swept(lot)
  PROVE  IsCarryOf(w, lot)
<1>1. i \in DOMAIN inventory /\ inventory[i] \in Legs
  BY DEF LegOf, LedgerInv, Shape
<1>2. side = Opposite(inventory[i].side)
  BY DEF Opposite, Sides
<1>3. QtyOf(lot) <= inventory[i].qty
  <2>1. AggregateFills(lot).qty = QtyOf(lot) /\ QtyOf(lot) \in Nat
    BY AggregateIs, OrderTypes
  <2>2. inventory[i].qty \in Nat
    BY <1>1, LegFacts
  <2>3. QED
    BY <2>1, <2>2
<1>4. /\ Worth(inventory, Mids(n))' = Worth(inventory, Mids(n))
           + Notional(Mids(n)[inventory[i].contract], QtyOf(lot), Multiplier, side)
      /\ AggregateFills(lot).price \in Int
      /\ Tells(side, lot, AggregateFills(lot).price)
      /\ inventory' \in Seq(Legs) /\ Stake(inventory)' \in Int
      /\ log' \in Seq(Int) /\ Sum(log)' \in Int
      /\ Fits(PnlOf(inventory[i], AggregateFills(lot))) =>
           \A j \in DOMAIN log' : Fits(log'[j])
      /\ \A j \in DOMAIN inventory' : Kept(inventory'[j])
      /\ \A j, l \in DOMAIN inventory' : j # l => inventory'[j].id # inventory'[l].id
  BY <1>1, <1>2, <1>3, CloseByIs
<1>5. PICK v \in Int : v = AggregateFills(lot).price
  BY <1>4
<1>6. openFees' \in Int
  BY MoneyTypes
<1>7. Explained' /\ swept' \in Nat
  BY <1>4, <1>5, <1>6, OrderTold
<1>8. QED
  BY <1>4, <1>6, <1>7 DEF IsCarryOf

\* What is left of the order rests on under the leg it opened or reduces.
LEMMA LeftRests ==
  ASSUME LedgerInv, UNCHANGED <<mode, tape, trades>>, pc' = "trade",
         NEW w, IsResting(w), mode = "realistic", NEW lot, NEW Q \in Nat \ {0}, Q <= w.left,
         IsCarryOf(w, lot),
         working' = IF Q = w.left THEN <<>>
                    ELSE <<[w EXCEPT !.left = w.left - Q, !.charged = TRUE]>>
  PROVE  Rests'
<1>1. CASE Q = w.left
  BY <1>1 DEF Rests
<1>2. CASE Q # w.left
  <2>1. PICK u : u = [w EXCEPT !.left = w.left - Q, !.charged = TRUE]
    OBVIOUS
  <2>2. DOMAIN w = {"contract", "side", "limit", "left", "mid", "step", "charged", "leg"}
        /\ w.left \in Nat \ {0}
    BY DEF IsResting
  <2>3. /\ DOMAIN u = DOMAIN w /\ u.contract = w.contract /\ u.side = w.side
        /\ u.limit = w.limit /\ u.left = w.left - Q /\ u.mid = w.mid /\ u.step = w.step
        /\ u.leg = w.leg
    BY <2>1, <2>2
  <2>4. u.left \in Nat \ {0}
    BY <1>2, <2>2, <2>3
  <2>5. ASSUME NEW j \in LegOf(u)'
        PROVE  /\ inventory'[j].contract = u.contract
               /\ inventory'[j].side = IF u.leg.action = "open" THEN u.side ELSE Opposite(u.side)
    <3>1. j \in DOMAIN inventory' /\ inventory'[j].id = w.leg.id
      BY <2>3, <2>5 DEF LegOf
    <3>2. CASE Kept(inventory'[j])
      <4>1. PICK i \in DOMAIN inventory : SamePosition(inventory'[j], inventory[i])
        BY <3>2 DEF Kept
      <4>2. i \in LegOf(w)
        BY <3>1, <4>1 DEF LegOf, SamePosition
      <4>3. QED
        BY <2>3, <4>1, <4>2 DEF IsResting, SamePosition
    <3>3. CASE ~Kept(inventory'[j])
      BY <2>3, <3>1, <3>3 DEF IsCarryOf
    <3>4. QED
      BY <3>2, <3>3
  <2>6. IsResting(u)'
    BY <2>2, <2>3, <2>4, <2>5, SameTape DEF IsResting
  <2>7. working' = <<u>>
    BY <1>2, <2>1
  <2>8. QED
    BY <2>6, <2>7 DEF Rests
<1>3. QED
  BY <1>1, <1>2

LEMMA CarryKeeps ==
  ASSUME LedgerInv, Carry
  PROVE  LedgerInv'
<1>1. pc = "carry" /\ Trading
  BY DEF Carry, Trading
<1>2. PICK w : /\ working = <<w>> /\ working[1] = w /\ IsResting(w) /\ mode = "realistic"
               /\ w.contract \in Contracts /\ w.side \in Sides /\ w.limit \in Nat
               /\ w.left \in Nat \ {0} /\ w.mid \in Int /\ w.step \in 1..n
               /\ w.leg.id \in Nat /\ w.leg.action \in {"open", "close"}
  BY <1>1, RestingIs
<1>3. PICK lot : lot = IF w.contract \in DOMAIN Snapshot THEN CarryFills(w) ELSE <<>>
  OBVIOUS
<1>4. PICK filled : filled = AggregateFills(lot).qty
  OBVIOUS
<1> DEFINE Filled ==
             /\ lot # <<>> /\ ~CarryAborts(w, lot)
             /\ ApplyFills(lot)
             /\ IF w.leg.action = "open" THEN CarryOpen(w, lot) ELSE CarryClose(w, lot)
             /\ books' = [books EXCEPT ![w.contract][Takes(w.side)] =
                             Consumed(@, CarryTaken(w))]
             /\ working' = IF filled = w.left THEN <<>>
                           ELSE <<[w EXCEPT !.left = @ - filled, !.charged = TRUE]>>
             /\ carried' = Append(carried, [step |-> n, since |-> w.step,
                   contract |-> w.contract, side |-> w.side, qty |-> filled])
             /\ pc' = "trade"
             /\ UNCHANGED <<mode, tape, beginStep, trades, settleVars, passVars>>
<1>5. \/ pc' = "trade" /\ UNCHANGED <<mode, tape, beginStep, bookVars, settleVars, passVars>>
      \/ Abort
      \/ Filled
  BY <1>2, <1>3, <1>4 DEF Carry
<1>6. CASE pc' = "trade" /\ UNCHANGED <<mode, tape, beginStep, bookVars, settleVars, passVars>>
  BY <1>1, <1>6, NothingCarried
<1>7. CASE Abort
  BY <1>1, <1>7, AbortKeeps
<1>8. CASE Filled
  <2>1. /\ lot # <<>> /\ ~CarryAborts(w, lot) /\ ApplyFills(lot)
        /\ IF w.leg.action = "open" THEN CarryOpen(w, lot) ELSE CarryClose(w, lot)
        /\ books' = [books EXCEPT ![w.contract][Takes(w.side)] = Consumed(@, CarryTaken(w))]
        /\ working' = IF filled = w.left THEN <<>>
                      ELSE <<[w EXCEPT !.left = @ - filled, !.charged = TRUE]>>
        /\ carried' = Append(carried, [step |-> n, since |-> w.step,
              contract |-> w.contract, side |-> w.side, qty |-> filled])
        /\ pc' = "trade"
        /\ UNCHANGED <<mode, tape, beginStep, trades, settleVars, passVars>>
    BY <1>8
  <2>2. /\ UNCHANGED <<mode, tape, beginStep, trades, steps, positions>>
        /\ pc' = "trade" /\ UNCHANGED <<settleVars, passVars>>
    BY <2>1 DEF settleVars
  <2>3. w.contract \in DOMAIN Snapshot /\ lot = CarryFills(w)
    BY <1>3, <2>1
  <2>4. Shape /\ Counted /\ Booked /\ n \in Nat \ {0} /\ TypeOK /\ Identified
    <3>1. Shape /\ Counted /\ Booked /\ TypeOK /\ Identified
      BY DEF LedgerInv
    <3>2. QED
      BY <1>1, <3>1, TapeFacts DEF Counted
  <2>5. PICK c, since : c = w.contract /\ since = w.step
    OBVIOUS
  <2>6. PICK side \in Sides, limit \in Nat, left \in Nat \ {0}, mid \in Int :
          /\ side = w.side /\ limit = w.limit /\ left = w.left /\ mid = w.mid
          /\ c = w.contract /\ since = w.step
    BY <1>2, <2>5
  <2>7. /\ IsOrder(lot, side, mid) /\ PaidOf(lot) = limit * QtyOf(lot)
        /\ QtyOf(lot) \in 0..left
    BY <1>1, <1>2, <2>3, <2>4, <2>6, CarryFillsFacts
  <2>8. PICK Q \in Nat \ {0} : Q = QtyOf(lot) /\ Q = filled /\ Q <= left
    <3>1. QtyOf(lot) > 0 /\ QtyOf(lot) \in Nat
      BY <2>1, <2>7, OrderTypes
    <3>2. AggregateFills(lot).qty = QtyOf(lot)
      BY AggregateIs
    <3>3. QED
      BY <1>4, <2>7, <3>1, <3>2
  <2>9. PICK price \in Int : price = Snapshot[c].mid /\ price = Mids(n)[c]
    <3>1. n > 0
      BY <2>4
    <3>2. Snapshot[c].mid \in Int /\ Mids(n)[c] = Snapshot[c].mid
      BY <2>3, <2>4, <2>6, <3>1, PresentMid
    <3>3. QED
      BY <3>2
  \* What becomes of the leg and the log.
  <2>10. IsCarryOf(w, lot)
    <3>1. CASE w.leg.action = "open"
      <4>1. CarryOpen(w, lot)
        BY <2>1, <3>1
      <4>2. CASE LegOf(w) = {}
        BY <1>1, <1>2, <2>1, <2>2, <2>3, <2>6, <2>7, <3>1, <4>1, <4>2, CarryOpens
      <4>3. CASE LegOf(w) # {}
        <5>1. PICK i \in LegOf(w) : inventory' = Extended(i, AggregateFills(lot))
                                    /\ swept' = swept + inventory'[i].qty
          BY <4>1, <4>3 DEF CarryOpen
        <5>2. openFees' = openFees + AggregateFills(lot).fees /\ log' = log
          BY <4>1 DEF CarryOpen
        <5>3. inventory[i].contract = w.contract /\ inventory[i].side = side
          BY <1>2, <2>6, <3>1 DEF IsResting
        <5>4. QED
          BY <1>1, <1>2, <2>1, <2>2, <2>3, <2>6, <2>7, <3>1, <5>1, <5>2, <5>3, CarryExtends
      <4>4. QED
        BY <4>2, <4>3
    <3>2. CASE w.leg.action = "close"
      <4>1. CarryClose(w, lot)
        BY <2>1, <3>2
      <4>2. PICK i \in LegOf(w) : CloseBy(i, AggregateFills(lot))
        BY <4>1 DEF CarryClose
      <4>3. swept' = swept + Swept(lot) /\ openFees' = openFees
        BY <4>1 DEF CarryClose
      <4>4. PICK j \in LegOf(w) : /\ inventory[j].qty >= AggregateFills(lot).qty
                                  /\ Fits(PnlOf(inventory[j], AggregateFills(lot)))
        BY <2>1, <3>2 DEF CarryAborts
      <4>5. j = i
        BY <2>4 DEF Identified, LegOf
      <4>6. inventory[i].contract = w.contract /\ inventory[i].side = Opposite(side)
        BY <1>2, <2>6, <3>2 DEF IsResting
      <4>7. QED
        BY <1>1, <2>1, <2>2, <2>6, <2>7, <4>2, <4>3, <4>4, <4>5, <4>6, CarryCloses
    <3>3. QED
      BY <1>2, <3>1, <3>2
  <2>11. PICK r : r = [step |-> n, since |-> since, contract |-> c, side |-> side, qty |-> Q]
    OBVIOUS
  <2>12. r \in Carryings /\ r.step = n /\ r.since = since /\ r.contract = c
         /\ r.side = side /\ r.qty = Q
    BY <1>2, <2>4, <2>6, <2>11 DEF Carryings
  <2>13. carried' = Append(carried, r)
    BY <2>1, <2>6, <2>8, <2>11
  <2>14. /\ r.since \in 1..n /\ r.contract \in DOMAIN tape[n] /\ r.contract \in DOMAIN tape[r.since]
         /\ mid = tape[since][c].mid /\ price = tape[n][c].mid
    BY <1>2, <2>3, <2>6, <2>9, <2>12 DEF IsResting, Snapshot
  <2>15. /\ Carries' /\ carried' \in Seq(Carryings) /\ PnlExplained'
         /\ Drift(r) \in Int /\ DriftAt(n)' = DriftAt(n) + Drift(r)
    BY <1>1, <2>2, <2>12, <2>13, <2>14, CarriedIs
  <2>16. Drift(r) = Notional(price - mid, Q, Multiplier, side)
    BY <2>12, <2>14 DEF Drift
  <2>17. Balanced'
    <3>1. PICK W, D \in Int : W = Worth(inventory, Mids(n)) /\ D = DriftAt(n)
      BY <1>1, HoldingsType, DriftType
    <3>2. Worth(inventory, Mids(n))' = W + Notional(price, QtyOf(lot), Multiplier, side)
      BY <2>6, <2>9, <2>10, <3>1 DEF IsCarryOf
    <3>3. DriftAt(n)' = D + Notional(price - mid, QtyOf(lot), Multiplier, side)
      BY <2>8, <2>15, <2>16, <3>1
    <3>4. QED
      BY <1>1, <2>1, <2>2, <2>7, <3>1, <3>2, <3>3, OrderBalanced
  <2>18. /\ inventory' \in Seq(Legs) /\ log' \in Seq(Int) /\ openFees' \in Int /\ swept' \in Nat
         /\ Explained' /\ \A j \in DOMAIN log' : Fits(log'[j])
         /\ \A j, l \in DOMAIN inventory' : j # l => inventory'[j].id # inventory'[l].id
         /\ \A j \in DOMAIN inventory' :
              \/ Kept(inventory'[j])
              \/ inventory'[j].contract = w.contract /\ inventory'[j].id = w.leg.id
    BY <2>10 DEF IsCarryOf
  <2>19. trades \in Nat /\ trades' \in Nat /\ trades <= trades' /\ w.leg.id < trades'
    BY <1>2, <2>2, <2>4 DEF Shape, IsResting
  <2>20. Shape'
    <3>1. cash \in Int /\ stepSlippage \in Int /\ stepFees \in Int
      BY MoneyTypes
    <3>2. PICK K : K = Multiplier * SideSign(side)
      OBVIOUS
    <3>3. stepSlippage' \in Int /\ stepFees' \in Int
      BY <2>1, <2>7, <3>1, <3>2, OrderEffects
    <3>4. QED
      BY <2>2, <2>15, <2>18, <2>19, <3>3, ShapeKept
  <2>21. Identified'
    <3>1. \A j \in DOMAIN inventory' : Kept(inventory'[j]) \/ inventory'[j].id < trades'
      BY <2>18, <2>19
    <3>2. QED
      BY <2>18, <2>19, <3>1, IdentifiedKept
  <2>22. Marked'
    <3>1. \A j \in DOMAIN inventory' :
            Kept(inventory'[j]) \/ inventory'[j].contract \in DOMAIN Snapshot
      BY <2>3, <2>18
    <3>2. QED
      BY <1>1, <2>2, <3>1, MarkedKept
  <2>23. Rests'
    <3>1. working' = IF Q = w.left THEN <<>>
                     ELSE <<[w EXCEPT !.left = w.left - Q, !.charged = TRUE]>>
      BY <2>1, <2>8
    <3>2. Q <= w.left
      BY <2>6, <2>8
    <3>3. QED
      BY <1>2, <2>2, <2>10, <3>1, <3>2, LeftRests
  <2>24. Booked'
    <3>1. books' = [books EXCEPT ![c][Takes(side)] =
                      Consumed(@, Taken(books[c][Takes(side)], side, limit, left))]
      BY <2>1, <2>6 DEF CarryTaken
    <3>2. limit \in Int /\ c \in DOMAIN Snapshot
      BY <2>3, <2>6
    <3>3. QED
      BY <1>1, <1>2, <2>2, <2>4, <3>1, <3>2, RouteKeepsBooks
  <2>25. Fits(cash')
    <3>1. Fits(cash) /\ ~Overflows(lot)
      BY <2>1, <2>4 DEF TypeOK, CarryAborts
    <3>2. QED
      BY <2>1, <2>7, <3>1, FitsAfter
  <2>26. QED
    BY <1>1, <2>2, <2>15, <2>17, <2>18, <2>20, <2>21, <2>22, <2>23, <2>24, <2>25, OrderInv
<1>9. QED
  BY <1>5, <1>6, <1>7, <1>8

-----------------------------------------------------------------------------
(* The next snapshot.                                                      *)

\* What the tape told so far it still tells.
Grows(s) == tape' = Append(tape, s)
Stands(m) ==
  \A c : /\ Quoted(c, m)' = Quoted(c, m)
         /\ Quoted(c, m) => LastSeen(c, m)' = LastSeen(c, m)

LEMMA GrowsIs ==
  ASSUME Shape, NEW s \in Snapshots, Grows(s)
  PROVE  /\ n \in Nat /\ n' = n + 1 /\ tape' \in Seq(Snapshots)
         /\ \A j \in 1..n : tape'[j] = tape[j]
         /\ tape'[n + 1] = s /\ Snapshot' = s
         /\ \A m \in 0..n : Stands(m)
<1>1. tape \in Seq(Snapshots) /\ n \in Nat
  BY TapeFacts DEF Shape
<1>2. PICK z \in Nat : z = n
  BY <1>1
<1>3. tape' = Append(tape, s)
  BY DEF Grows
<1>4. /\ n' = n + 1 /\ tape' \in Seq(Snapshots) /\ tape'[n + 1] = s
      /\ \A j \in 1..n : tape'[j] = tape[j]
  BY <1>1, <1>3 DEF n
<1>5. Snapshot' = s
  BY <1>4 DEF Snapshot
<1>6. ASSUME NEW m \in 0..z PROVE Stands(m)
  <2>1. m \in Nat /\ m <= n
    BY <1>2
  <2>2. \A c : /\ Quoted(c, m)' = Quoted(c, m)
               /\ Quoted(c, m) => LastSeen(c, m)' = LastSeen(c, m)
    BY <1>1, <1>3, <2>1, TapeGrows
  <2>3. QED
    BY <2>2 DEF Stands
<1>7. QED
  BY <1>1, <1>2, <1>4, <1>5, <1>6

\* Rows and samples are read at the same quotes.
LEMMA RowStands ==
  ASSUME Shape, NEW s \in Snapshots, Grows(s), NEW m \in 1..n, NEW leg, Quoted(leg.contract, m)
  PROVE  RowOf(leg, m)' = RowOf(leg, m)
<1>1. tape'[m] = tape[m] /\ Stands(m)
  <2>1. n \in Nat /\ m \in 0..n
    BY TapeFacts
  <2>2. QED
    BY <2>1, GrowsIs
<1>2. LastSeen(leg.contract, m)' = LastSeen(leg.contract, m)
  <2>1. PICK c : c = leg.contract
    OBVIOUS
  <2>2. LastSeen(c, m)' = LastSeen(c, m)
    BY <1>1, <2>1 DEF Stands
  <2>3. QED
    BY <2>1, <2>2
<1>3. QED
  BY <1>1, <1>2 DEF RowOf

LEMMA SampleStands ==
  ASSUME Shape, NEW s \in Snapshots, Grows(s), NEW m \in 1..n, NEW row,
         Quoted(row.contract, m - 1)
  PROVE  /\ SampleOf(row, m)' = SampleOf(row, m)
         /\ Quoted(row.contract, m - 1)'
         /\ LastSeen(row.contract, m)' = LastSeen(row.contract, m)
<1>1. PICK c : c = row.contract
  OBVIOUS
<1>2. n \in Nat /\ m \in Nat \ {0} /\ m - 1 \in 0..n /\ m \in 0..n
  BY TapeFacts
<1>3. Stands(m) /\ Stands(m - 1)
  BY <1>2, GrowsIs
<1>4. Quoted(c, m)
  <2>1. PICK z \in Nat : z = m - 1
    BY <1>2
  <2>2. Quoted(c, z) /\ z <= m
    BY <1>1, <2>1
  <2>3. m \in Nat
    BY <1>2
  <2>4. QED
    BY <2>2, <2>3, QuotedLater
<1>5. LastSeen(c, m)' = LastSeen(c, m) /\ LastSeen(c, m - 1)' = LastSeen(c, m - 1)
      /\ Quoted(c, m - 1)'
  BY <1>1, <1>3, <1>4 DEF Stands
<1>6. QED
  BY <1>1, <1>5 DEF SampleOf

\* The tables of the settled steps say what they said.
LEMMA TablesStand ==
  ASSUME LedgerInv, pc = "step", NEW s \in Snapshots, Grows(s),
         UNCHANGED <<carried, settleVars, passVars>>
  PROVE  Sampled' /\ PnlExplained' /\ TermsCoverHoldings' /\ Carries' /\ DriftAt(n)' = 0
<1>1. UNCHANGED <<carried, prevEquity, marks, greeks, positions, curve, steps, legs, offset, rows>>
  BY DEF settleVars, passVars
<1>2. Shape /\ Recorded /\ Sampled /\ Carries /\ n \in Nat /\ rows = <<>>
  <2>1. Shape /\ Counted /\ Recorded /\ Sampled /\ Carries
    BY DEF LedgerInv
  <2>2. QED
    BY <2>1, TapeFacts DEF Counted
<1>3. PICK z \in Nat : z = n
  BY <1>2
<1>4. DOMAIN steps = 1..z /\ DOMAIN positions = 1..z
  <2>1. Len(steps) = n /\ Len(steps) = Len(positions)
    BY DEF LedgerInv, Counted, TypeOK, Settled
  <2>2. QED
    BY <1>2, <1>3, <2>1 DEF Shape
<1>5. n' = z + 1 /\ \A j \in 1..z : tape'[j] = tape[j]
  BY <1>2, <1>3, GrowsIs
<1>6. \A m : RowsAt(m)' = RowsAt(m) /\ EquityAt(m)' = EquityAt(m) /\ Off(m)' = Off(m)
  BY <1>1 DEF RowsAt, EquityAt, Off
<1>7. Sampled'
  <2>1. ASSUME NEW m \in 1..z PROVE IsSampled(m)'
    <3>1. IsSampled(m)
      BY <1>2, <1>4 DEF Sampled
    <3>2. PICK held : held = RowsAt(m - 1) /\ held = RowsAt(m - 1)'
      BY <1>6
    <3>3. ASSUME NEW i \in 1..steps[m].count
          PROVE  /\ held[i] \in Rows /\ Quoted(held[i].contract, m - 1)'
                 /\ SampleOf(held[i], m)' = SampleOf(held[i], m)
                 /\ legs[Off(m - 1) + i] = SampleOf(held[i], m)
      <4>1. PICK row : row = held[i]
        OBVIOUS
      <4>2. row \in Rows /\ Quoted(row.contract, m - 1)
            /\ legs[Off(m - 1) + i] = SampleOf(row, m)
        BY <3>1, <3>2, <4>1 DEF IsSampled
      <4>3. m \in 1..n
        BY <1>3
      <4>4. SampleOf(row, m)' = SampleOf(row, m) /\ Quoted(row.contract, m - 1)'
        BY <1>2, <4>2, <4>3, SampleStands
      <4>5. QED
        BY <4>1, <4>2, <4>4
    <3>4. ASSUME NEW i \in 1..steps[m].count
          PROVE  /\ RowsAt(m - 1)'[i] \in Rows
                 /\ (Quoted(RowsAt(m - 1)[i].contract, m - 1))'
                 /\ legs'[Off(m - 1)' + i] = (SampleOf(RowsAt(m - 1)[i], m))'
      <4>1. PICK row : row = held[i]
        OBVIOUS
      <4>2. row = (RowsAt(m - 1)[i])'
        BY <3>2, <4>1
      <4>3. row \in Rows /\ Quoted(row.contract, m - 1)'
            /\ legs[Off(m - 1) + i] = SampleOf(row, m)'
        BY <3>3, <4>1
      <4>4. (Quoted(RowsAt(m - 1)[i].contract, m - 1))'
        BY <4>2, <4>3 DEF Quoted, SeenIn
      <4>5. (SampleOf(RowsAt(m - 1)[i], m))' = SampleOf(row, m)'
        BY <4>2 DEF SampleOf, LastSeen, SeenIn
      <4>6. QED
        BY <1>1, <1>6, <4>2, <4>3, <4>4, <4>5
    <3>5. QED
      BY <1>1, <1>6, <3>1, <3>4 DEF IsSampled
  <2>2. QED
    BY <1>1, <1>2, <1>4, <1>6, <2>1 DEF Sampled
<1>8. Carries' /\ \A i \in DOMAIN carried : Drift(carried[i])' = Drift(carried[i])
  <2>1. ASSUME NEW c, IsCarried(c) PROVE IsCarried(c)' /\ Drift(c)' = Drift(c)
    <3>1. c.step \in 1..z /\ c.since \in 1..z /\ c.step \in 1..(z + 1)
      BY <1>3, <2>1 DEF IsCarried
    <3>2. tape'[c.step] = tape[c.step] /\ tape'[c.since] = tape[c.since]
      BY <1>5, <3>1
    <3>3. QED
      BY <1>5, <2>1, <3>1, <3>2 DEF IsCarried, Drift
  <2>2. \A i \in DOMAIN carried : IsCarried(carried[i])
    BY <1>2 DEF Carries
  <2>3. ASSUME NEW i \in DOMAIN carried
        PROVE  IsCarried(carried[i])' /\ Drift(carried[i])' = Drift(carried[i])
    <3>1. PICK c : c = carried[i]
      OBVIOUS
    <3>2. IsCarried(c)' /\ Drift(c)' = Drift(c)
      BY <2>1, <2>2, <3>1
    <3>3. c = carried'[i]
      BY <1>1, <3>1
    <3>4. QED
      BY <3>1, <3>2, <3>3 DEF IsCarried, Drift
  <2>4. QED
    BY <1>1, <2>3 DEF Carries
<1>9. \A m : DriftAt(m)' = DriftAt(m)
  <2>1. ASSUME NEW m
        PROVE  [i \in DOMAIN carried |-> IF carried[i].step = m THEN Drift(carried[i]) ELSE 0]'
                 = [i \in DOMAIN carried |-> IF carried[i].step = m THEN Drift(carried[i]) ELSE 0]
    BY <1>1, <1>8
  <2>2. QED
    BY <2>1 DEF DriftAt
<1>10. DriftAt(n)' = 0
  <2>1. PICK m : m = z + 1
    OBVIOUS
  <2>2. \A i \in DOMAIN carried : carried[i].step # m
    <3>1. ASSUME NEW i \in DOMAIN carried PROVE carried[i].step # m
      <4>1. carried[i].step \in 1..z
        BY <1>2, <1>3 DEF Carries, IsCarried
      <4>2. QED
        BY <2>1, <4>1
    <3>2. QED
      BY <3>1
  <2>3. PICK l \in Nat : l = Len(carried) /\ DOMAIN carried = 1..l
    BY <1>2 DEF Shape
  <2> DEFINE d == [i \in DOMAIN carried |-> IF carried[i].step = m THEN Drift(carried[i]) ELSE 0]
             nil == [i \in 1..l |-> 0]
  <2>4. d = nil
    BY <2>2, <2>3
  <2>5. Sum(d) = 0
    <3>1. nil \in [1..l -> Int] /\ DOMAIN nil = 1..l /\ \A i \in 1..l : nil[i] = 0 * nil[i]
      OBVIOUS
    <3> HIDE DEF d, nil
    <3>2. Sum(nil) = 0 * Sum(nil) /\ Sum(nil) \in Int
      BY <3>1, SumScaled, SumType
    <3>3. Sum(nil) = 0
      BY <3>2
    <3>4. QED
      BY <2>4, <3>3
  <2> HIDE DEF d, nil
  <2>6. DriftAt(m) = 0
    BY <2>5 DEF DriftAt, d
  <2>7. DriftAt(m)' = 0
    BY <1>9, <2>6
  <2>8. DriftAt(n)' = DriftAt(m)'
    BY <1>5, <2>1 DEF DriftAt
  <2>9. QED
    BY <2>7, <2>8
<1>11. PnlExplained'
  <2>1. ASSUME NEW m \in 1..z PROVE Explains(m)'
    <3>1. Explains(m)
      BY <1>4, PnlIs DEF LedgerInv
    <3>2. ASSUME NEW i \in DOMAIN RowsAt(m - 1)
          PROVE  LastSeen(RowsAt(m - 1)[i].contract, m)' = LastSeen(RowsAt(m - 1)[i].contract, m)
      <4>1. PICK row : row = RowsAt(m - 1)[i] /\ row = RowsAt(m - 1)'[i]
        BY <1>6
      <4>2. m # 1
        BY <3>2 DEF RowsAt
      <4>3. m - 1 \in 1..z /\ m - 1 # 0 /\ m \in 1..n
        BY <1>3, <4>2
      <4>4. Quoted(row.contract, m - 1)
        BY <1>2, <1>4, <3>2, <4>1, <4>3 DEF Recorded, RowsAt
      <4>5. LastSeen(row.contract, m)' = LastSeen(row.contract, m)
        BY <1>2, <4>3, <4>4, SampleStands
      <4>6. QED
        BY <4>1, <4>5 DEF LastSeen, SeenIn
    <3>3. Moves(m)' = Moves(m)
      <4>1. DOMAIN RowsAt(m - 1)' = DOMAIN RowsAt(m - 1)
        BY <1>6
      <4>2. \A i \in DOMAIN RowsAt(m - 1) : RowsAt(m - 1)'[i] = RowsAt(m - 1)[i]
        BY <1>6
      <4>3. QED
        BY <3>2, <4>1, <4>2 DEF Moves
    <3>4. QED
      BY <1>1, <1>9, <3>1, <3>3 DEF Explains
  <2>2. QED
    BY <1>1, <1>4, <2>1, PnlIsNext
<1>12. TermsCoverHoldings'
  BY <1>1, <1>2 DEF TermsCoverHoldings
<1>13. QED
  BY <1>7, <1>8, <1>10, <1>11, <1>12

\* A contract that was quoted before still has a last mid.
LEMMA NextMid ==
  ASSUME Shape, NEW s \in Snapshots, Grows(s), NEW c \in Contracts, Quoted(c, n)
  PROVE  Mids(n)'[c] \in Int
<1>1. PICK z \in Nat : z = n
  BY TapeFacts
<1>2. /\ n' = z + 1 /\ \A j \in 1..z : tape'[j] = tape[j]
      /\ tape'[z + 1] = s /\ Stands(z)
  <2>1. z \in 0..n
    BY <1>1
  <2>2. QED
    BY <1>1, <2>1, GrowsIs
<1>3. PICK t, q : t = tape' /\ q = LastSeen(c, z)
  OBVIOUS
<1>4. IsQuote(q)
  <2>1. tape \in Seq(Snapshots) /\ Quoted(c, z) /\ z <= n
    BY <1>1 DEF Shape
  <2>2. IsQuote(LastSeen(c, z))
    BY <2>1, LastSeenType
  <2>3. QED
    BY <1>3, <2>2
<1>5. LastSeen(c, z)' = q
  BY <1>1, <1>2, <1>3 DEF Stands
<1> DEFINE seen == {j \in 1..(z + 1) : c \in DOMAIN t[j]}
           old == {j \in 1..z : c \in DOMAIN t[j]}
<1>6. LastSeen(c, z + 1)' = t[Latest(seen)][c] /\ q = t[Latest(old)][c]
  BY <1>3, <1>5 DEF LastSeen, SeenIn
<1>7. IsQuote(LastSeen(c, z + 1)')
  <2>1. CASE c \in DOMAIN s
    <3>1. z + 1 \in seen /\ seen \subseteq 1..(z + 1)
      BY <1>2, <1>3, <2>1
    <3>2. Latest(seen) = z + 1
      <4>1. z + 1 \in Nat /\ seen # {}
        BY <3>1
      <4>2. Latest(seen) \in seen /\ \A i \in seen : i <= Latest(seen)
        BY <3>1, <4>1, LatestIs
      <4>3. QED
        BY <3>1, <4>2
    <3>3. LastSeen(c, z + 1)' = s[c]
      BY <1>2, <1>3, <1>6, <3>2
    <3>4. s[c] \in Quotes[c]
      BY <2>1 DEF Snapshots
    <3>5. QED
      BY <3>3, <3>4, LedgerAssumption
  <2>2. CASE c \notin DOMAIN s
    <3>1. \A j \in 1..(z + 1) : j \in 1..z \/ j = z + 1
      OBVIOUS
    <3>2. seen = old
      BY <1>2, <1>3, <2>2, <3>1
    <3>3. QED
      BY <1>4, <1>6, <3>2
  <2>3. QED
    BY <2>1, <2>2
<1>8. Mids(n)'[c] = LastSeen(c, z + 1)'.mid
  BY <1>2 DEF Mids, LastSeen, SeenIn
<1>9. \A x : IsQuote(x) => x.mid \in Int
  BY DEF IsQuote
<1>10. QED
  BY <1>7, <1>8, <1>9

LEMMA AdvanceKeeps ==
  ASSUME LedgerInv, NEW s \in Snapshots, NextSnapshot(s)
  PROVE  LedgerInv'
<1>1. /\ pc = "step" /\ n < Len(Days) /\ Grows(s)
      /\ books' = IF mode = "realistic" THEN Seeded(s) ELSE NoMap
      /\ beginStep' = inventory
      /\ pc' = IF working = <<>> THEN "trade" ELSE "carry"
      /\ UNCHANGED <<mode, working, cash, stepSlippage, stepFees, openFees, swept,
                     carried, log, inventory, trades, peak, prevEquity, marks, greeks,
                     positions, curve, steps, legs, offset, rows>>
      /\ UNCHANGED <<settleVars, passVars>>
  BY DEF NextSnapshot, Grows, settleVars, passVars
<1>2. /\ TypeOK /\ Shape /\ Counted /\ Identified /\ Rests /\ Marked /\ Recorded
      /\ Balanced /\ Explained
  BY DEF LedgerInv
<1>3. PICK z \in Nat : z = n
  BY <1>2, TapeFacts
<1>4. /\ n' = z + 1 /\ tape' \in Seq(Snapshots) /\ \A j \in 1..z : tape'[j] = tape[j]
      /\ tape'[z + 1] = s /\ Snapshot' = s /\ \A m \in 0..z : Stands(m)
  BY <1>1, <1>2, <1>3, GrowsIs
<1>5. Settled /\ ~Settled' /\ Trading' /\ pc' \in {"trade", "carry"}
  BY <1>1 DEF Settled, Trading
<1>6. Len(steps) = z /\ z < Len(Days) /\ DOMAIN positions = 1..z /\ rows = <<>> /\ offset = 0
  <2>1. Len(steps) = z /\ Len(steps) = Len(positions)
    BY <1>2, <1>3, <1>5 DEF Counted, TypeOK
  <2>2. QED
    BY <1>1, <1>2, <1>3, <2>1 DEF Shape, Counted
<1>7. TypeOK'
  BY <1>1, <1>2, <1>5 DEF TypeOK, Fits
<1>8. Shape'
  <2>1. n' <= Len(Days)
    <3>1. Len(Days) \in Nat
      BY <1>2, TapeFacts
    <3>2. QED
      BY <1>4, <1>6, <3>1
  <2>2. QED
    BY <1>1, <1>2, <1>4, <2>1 DEF Shape
<1>9. Counted'
  BY <1>1, <1>4, <1>5, <1>6 DEF Counted
<1>10. Identified'
  BY <1>1, <1>2 DEF Identified
<1>11. Booked'
  <2>1. SUFFICES ASSUME mode = "realistic" PROVE Booked'
    BY <1>1 DEF Booked
  <2>2. books' = Seeded(s)
    BY <1>1, <2>1
  <2>3. \A c \in DOMAIN s : IsQuote(s[c])
    <3>1. ASSUME NEW c \in DOMAIN s PROVE IsQuote(s[c])
      <4>1. s[c] \in Quotes[c] /\ c \in Contracts
        BY DEF Snapshots
      <4>2. QED
        BY <4>1, LedgerAssumption
    <3>2. QED
      BY <3>1
  <2>4. \A c \in DOMAIN s : /\ IsDepth(Ladder(s[c], "ask"), "Long")
                            /\ IsDepth(Ladder(s[c], "bid"), "Short")
    BY <2>3, LadderIsDepth
  <2>5. /\ books' \in [DOMAIN s -> [{"ask", "bid"} -> Seq(Int \X (Nat \ {0}))]]
        /\ \A c \in DOMAIN s : /\ books'[c]["ask"] = Ladder(s[c], "ask")
                               /\ books'[c]["bid"] = Ladder(s[c], "bid")
    <3>1. \A c \in DOMAIN s, side \in {"ask", "bid"} :
            Ladder(s[c], side) \in Seq(Int \X (Nat \ {0}))
      BY <2>4 DEF IsDepth
    <3>2. QED
      BY <2>2, <3>1 DEF Seeded
  <2>6. QED
    BY <1>4, <2>4, <2>5 DEF Booked
<1>12. Rests'
  <2>1. ASSUME NEW w, IsResting(w) PROVE IsResting(w)'
    <3>1. w.step \in 1..z /\ w.step \in 1..(z + 1)
      BY <1>3, <2>1 DEF IsResting
    <3>2. tape'[w.step] = tape[w.step]
      BY <1>4, <3>1
    <3>3. LegOf(w)' = LegOf(w)
      BY <1>1 DEF LegOf
    <3>4. QED
      BY <1>1, <1>4, <2>1, <3>1, <3>2, <3>3 DEF IsResting
  <2>2. QED
    BY <1>1, <1>2, <2>1 DEF Rests
<1>13. Sampled' /\ PnlExplained' /\ TermsCoverHoldings' /\ Carries' /\ DriftAt(n)' = 0
  BY <1>1, TablesStand
\* Every leg was quoted before, and is retained as it was last quoted.
<1>14. \A i \in DOMAIN inventory : /\ IsRetained(inventory[i].contract, z)
                                   /\ Quoted(inventory[i].contract, z)
  BY <1>2, <1>3, <1>5 DEF Marked, IsRetained
<1>15. \A c : IsRetained(c, z) => IsRetained(c, z)'
  <2>1. Stands(z)
    BY <1>3, <1>4
  <2>2. QED
    BY <1>1, <2>1 DEF Stands, IsRetained
<1>16. Marked'
  <2>1. ASSUME NEW i \in DOMAIN inventory
        PROVE  /\ IsRetained(beginStep[i].contract, n - 1)'
               /\ IsRetained(inventory[i].contract, n - 1)'
    <3>1. PICK c : c = inventory[i].contract
      OBVIOUS
    <3>2. IsRetained(c, z)'
      BY <1>14, <1>15, <3>1
    <3>3. /\ beginStep'[i].contract = c /\ inventory'[i].contract = c /\ n' - 1 = z
      BY <1>1, <1>4, <3>1
    <3>4. QED
      BY <3>2, <3>3 DEF IsRetained, Quoted, LastSeen, SeenIn
  <2>2. DOMAIN beginStep' = DOMAIN inventory /\ DOMAIN inventory' = DOMAIN inventory
    BY <1>1
  <2>3. QED
    BY <1>5, <2>1, <2>2 DEF Marked
<1>17. Recorded'
  <2>1. Records(inventory, z)
    BY <1>2, <1>3, <1>5 DEF Recorded
  <2>2. Records(beginStep, n - 1)'
    <3>1. CASE z = 0
      BY <1>1, <1>4, <2>1, <3>1 DEF Records
    <3>2. CASE z # 0
      <4>1. z \in 1..n
        BY <1>3, <3>2
      <4>2. ASSUME NEW i \in DOMAIN inventory
            PROVE  RowOf(inventory[i], z)' = RowOf(inventory[i], z)
        <5>1. PICK leg : leg = inventory[i]
          OBVIOUS
        <5>2. RowOf(leg, z)' = RowOf(leg, z)
          BY <1>1, <1>2, <1>14, <4>1, <5>1, RowStands
        <5>3. leg = inventory'[i]
          BY <1>1, <5>1
        <5>4. QED
          BY <5>1, <5>2, <5>3 DEF RowOf, LastSeen, SeenIn
      <4>3. positions[z] = [i \in DOMAIN inventory |-> RowOf(inventory[i], z)]
        BY <2>1, <3>2 DEF Records
      <4>4. positions'[z] = [i \in DOMAIN inventory |-> RowOf(inventory[i], z)]'
        BY <1>1, <4>2, <4>3
      <4>5. [i \in DOMAIN inventory |-> RowOf(inventory[i], z)]'
              = [i \in DOMAIN beginStep |-> RowOf(beginStep[i], n - 1)]'
        <5>1. beginStep' = inventory' /\ n' - 1 = z
          BY <1>1, <1>4
        <5>2. QED
          BY <5>1 DEF RowOf, LastSeen, SeenIn
      <4>6. n' - 1 = z /\ n' - 1 # 0
        BY <1>4, <3>2
      <4>7. QED
        BY <4>4, <4>5, <4>6 DEF Records
    <3>3. QED
      BY <3>1, <3>2
  <2>3. ASSUME NEW m \in DOMAIN positions', NEW i \in DOMAIN positions'[m]
        PROVE  Quoted(positions[m][i].contract, m)'
    <3>1. PICK c : c = positions[m][i].contract /\ c = positions'[m][i].contract
      BY <1>1
    <3>2. Quoted(c, m) /\ m \in 0..z
      BY <1>1, <1>2, <1>6, <3>1 DEF Recorded
    <3>3. Quoted(c, m)'
      BY <1>4, <3>2 DEF Stands
    <3>4. QED
      BY <3>1, <3>3 DEF Quoted, SeenIn
  <2>4. QED
    BY <1>5, <2>2, <2>3 DEF Recorded
<1>18. Balanced'
  <2>1. PICK W, V \in Int : W = Worth(inventory, Mids(n))' /\ V = Worth(inventory, Mids(n))
    <3>1. Priced(inventory, Mids(n))
      <4>1. inventory \in Seq(Legs) /\ z <= n
        BY <1>2, <1>3 DEF Shape
      <4>2. \A i \in DOMAIN inventory : Quoted(inventory[i].contract, z)
        BY <1>14
      <4>3. QED
        BY <1>2, <1>3, <4>1, <4>2, PricedIf
    <3>2. Worth(inventory, Mids(n)) \in Int
      BY <3>1, HoldingTypes
    <3>3. Worth(inventory, Mids(n))' \in Int
      <4>1. PICK inv, price : inv = inventory' /\ price = Mids(n)'
        OBVIOUS
      <4>2. inv \in Seq(Legs)
        BY <1>2, <1>1, <4>1 DEF Shape
      <4>3. ASSUME NEW i \in DOMAIN inv PROVE price[inv[i].contract] \in Int
        <5>1. PICK c : c = inv[i].contract
          OBVIOUS
        <5>2. c \in Contracts
          BY <4>2, <5>1, LegFacts
        <5>3. Quoted(c, z)
          BY <1>1, <1>14, <4>1, <5>1
        <5>4. Quoted(c, n)
          BY <1>3, <5>3
        <5>5. Mids(n)'[c] \in Int
          BY <1>1, <1>2, <5>2, <5>4, NextMid
        <5>6. QED
          BY <4>1, <5>1, <5>5
      <4>4. Priced(inv, price)
        BY <4>2, <4>3 DEF Priced
      <4>5. Worth(inv, price) \in Int
        BY <4>4, HoldingTypes
      <4>6. QED
        BY <4>1, <4>5 DEF Worth
    <3>4. QED
      BY <3>2, <3>3
  <2>2. Worth(beginStep, Mids(n))' = W
    BY <1>1, <2>1 DEF Worth
  <2>3. Worth(beginStep, Mids(n - 1))' = V
    <3>1. PICK price, next : price = Mids(n) /\ next = Mids(n - 1)'
      OBVIOUS
    <3>2. ASSUME NEW i \in DOMAIN inventory
          PROVE  next[inventory[i].contract] = price[inventory[i].contract]
      <4>1. PICK c : c = inventory[i].contract
        OBVIOUS
      <4>2. c \in Contracts
        BY <1>2, <4>1, LegFacts DEF Shape
      <4>3. LastSeen(c, z)' = LastSeen(c, z)
        BY <1>4, <1>14, <4>1 DEF Stands
      <4>4. next[c] = LastSeen(c, z)'.mid /\ price[c] = LastSeen(c, z).mid
        BY <1>3, <1>4, <3>1, <4>2 DEF Mids, LastSeen, SeenIn
      <4>5. QED
        BY <4>1, <4>3, <4>4
    <3>3. Worth(inventory, next) = Worth(inventory, price)
      BY <3>2 DEF Worth
    <3>4. Worth(beginStep, Mids(n - 1))' = Worth(inventory, next)
      BY <1>1, <3>1 DEF Worth
    <3>5. QED
      BY <2>1, <3>1, <3>3, <3>4
  <2>4. cash + V = prevEquity /\ stepSlippage = 0 /\ stepFees = 0
    BY <1>2, <1>5, <2>1 DEF Balanced
  <2>5. cash \in Int /\ prevEquity \in Int
    BY MoneyTypes
  <2>6. cash + W + 0 + 0 = prevEquity + W - V + 0
    BY <2>4, <2>5
  <2>7. cash' + Worth(inventory, Mids(n))' + stepSlippage' + stepFees'
          = prevEquity' + Worth(beginStep, Mids(n))' - Worth(beginStep, Mids(n - 1))' + DriftAt(n)'
    BY <1>1, <1>13, <2>1, <2>2, <2>3, <2>4, <2>6
  <2>8. prevEquity' = EquityAt(Len(steps))'
    BY <1>1, <1>2 DEF Balanced, EquityAt
  <2>9. QED
    BY <1>5, <2>7, <2>8 DEF Balanced
<1>19. Explained'
  BY <1>1, <1>2 DEF Explained, Stake
<1>20. QED
  BY <1>7, <1>8, <1>9, <1>10, <1>11, <1>12, <1>13, <1>16, <1>17, <1>18, <1>19 DEF LedgerInv

-----------------------------------------------------------------------------
(* The settlement of a step.                                               *)

\* The mark of a leg is the last mid on the tape.
LEMMA MarkIs ==
  ASSUME LedgerInv, pc = "trade", NEW i \in DOMAIN inventory
  PROVE  /\ MarkOf(inventory[i]) = LastSeen(inventory[i].contract, n).mid
         /\ Mids(n)[inventory[i].contract] = LastSeen(inventory[i].contract, n).mid
         /\ LastSeen(inventory[i].contract, n).mid \in Int
         /\ Quoted(inventory[i].contract, n)
         /\ Row(inventory[i]) = RowOf(inventory[i], n)
         /\ RowOf(inventory[i], n) \in Rows
<1>1. Shape /\ Counted /\ Marked /\ Trading /\ n \in Nat \ {0} /\ tape \in Seq(Snapshots)
  <2>1. Shape /\ Counted /\ Marked /\ Trading
    BY DEF LedgerInv, Trading
  <2>2. QED
    BY <2>1, HeldPriced DEF Shape
<1>2. PICK leg, c : leg = inventory[i] /\ c = leg.contract
  OBVIOUS
<1>3. leg \in Legs /\ c \in Contracts
  BY <1>1, <1>2, LegFacts DEF Shape
<1>4. Quoted(c, n)
  BY <1>1, <1>2, QuotedLegs
<1>5. MarkOf(leg) = LastSeen(c, n).mid
  <2>1. CASE c \in DOMAIN Snapshot
    <3>1. LastSeen(c, n) = Snapshot[c]
      BY <1>1, <2>1, PresentMid
    <3>2. QED
      BY <1>2, <2>1, <3>1 DEF MarkOf, IsStale
  <2>2. CASE c \notin DOMAIN Snapshot
    <3>1. LastSeen(c, n) = LastSeen(c, n - 1)
      BY <1>1, <2>2, LastSeenBefore DEF Snapshot
    <3>2. IsRetained(c, n - 1)
      BY <1>1, <1>2, <2>2 DEF Marked
    <3>3. QED
      BY <1>2, <2>2, <3>1, <3>2 DEF MarkOf, IsStale, IsRetained
  <2>3. QED
    BY <2>1, <2>2
<1>6. PICK mark \in Int : mark = LastSeen(c, n).mid
  <2>1. LastSeen(c, n).mid \in Nat
    BY <1>1, <1>4, LastSeenType
  <2>2. QED
    BY <2>1
<1>7. Mids(n)[c] = mark
  BY <1>3, <1>6 DEF Mids
<1>8. Row(leg) = RowOf(leg, n)
  BY <1>2, <1>5 DEF Row, RowOf, IsStale, Snapshot
<1>9. RowOf(leg, n) \in Rows
  <2>1. PICK side \in Sides, qty \in Nat \ {0}, entry \in Int :
          side = leg.side /\ qty = leg.qty /\ entry = leg.entry /\ leg.id \in Nat
    BY <1>3, LegFacts
  <2>2. PICK won \in Int : won = UnrealizedCents(mark, entry, qty, Multiplier, side)
    <3>1. mark - entry \in Int /\ qty \in Int
      OBVIOUS
    <3>2. Notional(mark - entry, qty, Multiplier, side) \in Int
      BY <3>1, NotionalIs
    <3>3. QED
      BY <3>2 DEF UnrealizedCents
  <2>3. RowOf(leg, n) = [id |-> leg.id, contract |-> c, side |-> side, qty |-> qty,
           mark |-> mark, stale |-> c \notin DOMAIN tape[n], unrealized |-> won]
    BY <1>2, <1>6, <2>1, <2>2 DEF RowOf
  <2>4. PICK stale \in BOOLEAN : stale = (c \notin DOMAIN tape[n])
    OBVIOUS
  <2>5. RowOf(leg, n) = [id |-> leg.id, contract |-> c, side |-> side, qty |-> qty,
           mark |-> mark, stale |-> stale, unrealized |-> won]
    BY <2>3, <2>4
  <2>6. QED
    BY <1>3, <2>1, <2>5 DEF Rows
<1>10. QED
  BY <1>2, <1>4, <1>5, <1>6, <1>7, <1>8, <1>9

LEMMA PositionValueIs ==
  ASSUME LedgerInv, pc = "trade"
  PROVE  /\ PositionValue = Worth(inventory, Mids(n)) /\ PositionValue \in Int
         /\ Equity \in Int /\ Equity = cash + Worth(inventory, Mids(n))
         /\ MapSeq(Row, inventory) = [i \in DOMAIN inventory |-> RowOf(inventory[i], n)]
         /\ MapSeq(Row, inventory) \in Seq(Rows)
<1>1. Trading /\ inventory \in Seq(Legs)
  BY DEF LedgerInv, Trading, Shape
<1>2. MapSeq(Row, inventory) = [i \in DOMAIN inventory |-> RowOf(inventory[i], n)]
  BY MarkIs DEF MapSeq
<1>3. PICK z \in Nat : z = Len(inventory) /\ DOMAIN inventory = 1..z
  BY <1>1
<1>4. MapSeq(Row, inventory) \in Seq(Rows)
  <2>1. \A i \in 1..z : RowOf(inventory[i], n) \in Rows
    BY <1>3, MarkIs
  <2>2. QED
    BY <1>2, <1>3, <2>1
<1>5. PICK table : table = MapSeq(Row, inventory)
  OBVIOUS
<1>6. MapSeq(RowValue, table)
        = [i \in DOMAIN inventory |->
             Notional(Mids(n)[inventory[i].contract], inventory[i].qty, Multiplier,
                      inventory[i].side)]
  <2>1. ASSUME NEW i \in DOMAIN inventory
        PROVE  RowValue(table[i]) = Notional(Mids(n)[inventory[i].contract], inventory[i].qty,
                                             Multiplier, inventory[i].side)
    <3>1. table[i] = RowOf(inventory[i], n)
      BY <1>2, <1>5
    <3>2. /\ RowOf(inventory[i], n).mark = Mids(n)[inventory[i].contract]
          /\ RowOf(inventory[i], n).qty = inventory[i].qty
          /\ RowOf(inventory[i], n).side = inventory[i].side
      BY MarkIs DEF RowOf
    <3>3. QED
      BY <3>1, <3>2 DEF RowValue
  <2>2. DOMAIN table = DOMAIN inventory
    BY <1>2, <1>5
  <2>3. QED
    BY <2>1, <2>2 DEF MapSeq
<1>7. PositionValue = Worth(inventory, Mids(n))
  BY <1>5, <1>6 DEF PositionValue, Worth
<1>8. QED
  BY <1>1, <1>2, <1>4, <1>7, HoldingsType, MoneyTypes DEF Equity

\* The sample of a leg the step began with.
LEMMA SampleIs ==
  ASSUME LedgerInv, pc = "trade", NEW i \in DOMAIN beginStep
  PROVE  /\ n - 1 \in Nat \ {0} /\ RowsAt(n - 1) = positions[n - 1]
         /\ RowsAt(n - 1)[i] = RowOf(beginStep[i], n - 1)
         /\ RowsAt(n - 1)[i] \in Rows /\ Quoted(RowsAt(n - 1)[i].contract, n - 1)
         /\ Sample(beginStep[i]) = SampleOf(RowsAt(n - 1)[i], n)
         /\ Sample(beginStep[i]) \in Samples
<1>1. Shape /\ Counted /\ Marked /\ Recorded /\ Trading
  BY DEF LedgerInv, Trading
<1>2. n \in Nat \ {0} /\ n - 1 \in Nat /\ n \in 1..n /\ tape \in Seq(Snapshots)
  BY <1>1, HeldPriced DEF Shape
<1>3. PICK leg, c : leg = beginStep[i] /\ c = leg.contract
  OBVIOUS
<1>4. leg \in Legs /\ c \in Contracts
  BY <1>1, <1>3, LegFacts DEF Shape
<1>5. IsRetained(c, n - 1)
  BY <1>1, <1>3 DEF Marked
<1>6. Records(beginStep, n - 1) /\ n - 1 # 0
  <2>1. Records(beginStep, n - 1)
    BY <1>1 DEF Recorded
  <2>2. n - 1 # 0
    <3>1. SUFFICES ASSUME n - 1 = 0 PROVE FALSE
      OBVIOUS
    <3>2. beginStep = <<>>
      BY <2>1, <3>1 DEF Records
    <3>3. QED
      BY <3>2
  <2>3. QED
    BY <2>1, <2>2
<1>7. RowsAt(n - 1) = positions[n - 1] /\ RowsAt(n - 1)[i] = RowOf(leg, n - 1)
  BY <1>3, <1>6 DEF Records, RowsAt
<1>8. PICK row : row = RowsAt(n - 1)[i]
  OBVIOUS
<1>9. row \in Rows
  <2>1. Len(positions) = n - 1 /\ positions \in Seq(Seq(Rows))
    BY <1>1 DEF LedgerInv, TypeOK, Counted, Shape
  <2>2. n - 1 \in DOMAIN positions
    BY <1>2, <1>6, <2>1
  <2>3. positions[n - 1] \in Seq(Rows)
    BY <2>1, <2>2
  <2>4. DOMAIN positions[n - 1] = DOMAIN beginStep
    BY <1>6 DEF Records
  <2>5. QED
    BY <1>7, <1>8, <2>3, <2>4
<1>10. row.contract = c /\ row.qty = leg.qty /\ row.side = leg.side
  BY <1>3, <1>7, <1>8 DEF RowOf
<1>11. PICK prior : prior = LastSeen(c, n - 1)
  OBVIOUS
<1>12. Quoted(c, n - 1) /\ prior \in AllQuotes /\ IsQuote(prior)
       /\ c \in DOMAIN greeks /\ greeks[c] = prior
  <2>1. Quoted(c, n - 1) /\ n - 1 <= n
    BY <1>2, <1>5 DEF IsRetained
  <2>2. QED
    BY <1>2, <1>5, <1>11, <2>1, LastSeenType DEF IsRetained
<1>13. PICK iv \in Int : iv = LastSeen(c, n).iv
                         /\ iv = IF c \in DOMAIN Snapshot THEN Snapshot[c].iv ELSE prior.iv
  <2>1. \A q : IsQuote(q) => q.iv \in Int
    BY DEF IsQuote
  <2>2. CASE c \in DOMAIN Snapshot
    <3>1. LastSeen(c, n) = Snapshot[c] /\ IsQuote(Snapshot[c])
      BY <1>1, <1>2, <2>2, PresentMid
    <3>2. QED
      BY <2>1, <2>2, <3>1
  <2>3. CASE c \notin DOMAIN Snapshot
    <3>1. LastSeen(c, n) = prior
      BY <1>2, <1>11, <2>3, LastSeenBefore DEF Snapshot
    <3>2. QED
      BY <1>12, <2>1, <2>3, <3>1
  <2>4. QED
    BY <2>2, <2>3
<1>14. Sample(leg) = [known |-> TRUE, prior |-> prior, qty |-> leg.qty, side |-> leg.side,
                      iv |-> iv]
  <2>1. (c \in DOMAIN greeks) = TRUE
    BY <1>12
  <2>2. QED
    BY <1>3, <1>12, <1>13, <2>1 DEF Sample, IsStale
<1>15. SampleOf(row, n) = Sample(leg)
  BY <1>10, <1>11, <1>13, <1>14 DEF SampleOf
<1>16. Sample(leg) \in Samples
  BY <1>4, <1>12, <1>14, LegFacts DEF Samples
<1>17. QED
  BY <1>2, <1>3, <1>6, <1>7, <1>8, <1>9, <1>10, <1>12, <1>15, <1>16

\* The legs a step began with are the rows of the one before.
LEMMA BeganWith ==
  ASSUME LedgerInv, pc = "trade"
  PROVE  /\ DOMAIN RowsAt(n - 1) = DOMAIN beginStep /\ Len(RowsAt(n - 1)) = Len(beginStep)
         /\ Len(beginStep) \in Nat /\ DOMAIN beginStep = 1..Len(beginStep)
<1>1. Shape /\ Recorded /\ Trading
  BY DEF LedgerInv, Trading
<1>2. Records(beginStep, n - 1) /\ beginStep \in Seq(Legs)
  BY <1>1 DEF Recorded, Shape
<1>3. CASE n - 1 = 0
  BY <1>2, <1>3 DEF Records, RowsAt
<1>4. CASE n - 1 # 0
  <2>1. RowsAt(n - 1) = [i \in DOMAIN beginStep |-> RowOf(beginStep[i], n - 1)]
    BY <1>2, <1>4 DEF Records, RowsAt
  <2>2. PICK z \in Nat : z = Len(beginStep) /\ DOMAIN beginStep = 1..z
    BY <1>2
  <2>3. PICK t : t = RowsAt(n - 1)
    OBVIOUS
  <2>4. t = [i \in 1..z |-> RowOf(beginStep[i], n - 1)]
    BY <2>1, <2>2, <2>3
  <2>5. DOMAIN t = 1..z /\ Len(t) = z
    BY <2>4
  <2>6. QED
    BY <2>2, <2>3, <2>5
<1>5. QED
  BY <1>3, <1>4

\* The moves of the mids under them.
LEMMA MovesAre ==
  ASSUME LedgerInv, pc = "trade"
  PROVE  /\ Sum(Moves(n)) = Worth(beginStep, Mids(n)) - Worth(beginStep, Mids(n - 1))
         /\ Sum(Moves(n)) \in Int
<1>1. Shape /\ Counted /\ Marked /\ Trading
  BY DEF LedgerInv, Trading
<1>2. PICK old, now : old = Mids(n - 1) /\ now = Mids(n)
  OBVIOUS
<1>3. Priced(beginStep, now) /\ Priced(beginStep, old)
  BY <1>1, <1>2, HeldPriced
<1>4. PICK z \in Nat : z = Len(beginStep) /\ DOMAIN beginStep = 1..z
                       /\ DOMAIN RowsAt(n - 1) = 1..z
  BY BeganWith
<1> DEFINE a == [i \in DOMAIN beginStep |->
                   Notional(now[beginStep[i].contract], beginStep[i].qty, Multiplier,
                            beginStep[i].side)]
           b == [i \in DOMAIN beginStep |->
                   Notional(old[beginStep[i].contract], beginStep[i].qty, Multiplier,
                            beginStep[i].side)]
           m == Moves(n)
<1>5. ASSUME NEW i \in 1..z
      PROVE  a[i] \in Int /\ b[i] \in Int /\ m[i] \in Int /\ a[i] = b[i] + m[i]
  <2>1. PICK leg : leg = beginStep[i]
    OBVIOUS
  <2>2. leg \in Legs /\ now[leg.contract] \in Int /\ old[leg.contract] \in Int
    BY <1>3, <1>4, <2>1, HoldingTypes DEF Priced
  <2>3. PICK x, y \in Int : x = now[leg.contract] /\ y = old[leg.contract]
    BY <2>2
  <2>4. PICK side \in Sides, qty \in Nat \ {0} : side = leg.side /\ qty = leg.qty
    BY <2>2, LegFacts
  <2>5. leg.contract \in Contracts
    BY <2>2, LegFacts
  <2>6. x = LastSeen(leg.contract, n).mid /\ y = LastSeen(leg.contract, n - 1).mid
    BY <1>2, <2>3, <2>5 DEF Mids
  <2>7. RowsAt(n - 1)[i] = RowOf(leg, n - 1)
    BY <1>4, <2>1, SampleIs
  <2>8. m[i] = Notional(x - y, qty, Multiplier, side)
    BY <1>4, <2>4, <2>6, <2>7 DEF Moves, RowOf
  <2>9. a[i] = Notional(x, qty, Multiplier, side) /\ b[i] = Notional(y, qty, Multiplier, side)
    BY <1>4, <2>1, <2>3, <2>4
  <2>10. PICK K \in Int : K = Multiplier * SideSign(side)
    BY NotionalIs
  <2>11. qty \in Int /\ x - y \in Int
    OBVIOUS
  <2>12. /\ Notional(x, qty, Multiplier, side) = (x * qty) * K
         /\ Notional(y, qty, Multiplier, side) = (y * qty) * K
         /\ Notional(x - y, qty, Multiplier, side) = ((x - y) * qty) * K
    BY <2>10, <2>11, NotionalIs
  <2>13. PICK p, q \in Int : p = x * qty /\ q = y * qty
    OBVIOUS
  <2>14. (x - y) * qty = p - q
    BY <2>13
  <2>15. (p - q) * K = p * K - q * K /\ p * K \in Int /\ q * K \in Int
    OBVIOUS
  <2>16. a[i] = p * K /\ b[i] = q * K /\ m[i] = (p - q) * K
    BY <2>8, <2>9, <2>12, <2>13, <2>14
  <2>17. PICK u, v \in Int : u = p * K /\ v = q * K
    OBVIOUS
  <2>18. a[i] = u /\ b[i] = v /\ m[i] = u - v
    BY <2>15, <2>16, <2>17
  <2> HIDE DEF a, b, m
  <2>19. QED
    BY <2>18
<1>6. DOMAIN a = 1..z /\ DOMAIN b = 1..z /\ DOMAIN m = 1..z
  BY <1>4 DEF Moves
<1>7. a = [i \in 1..z |-> a[i]] /\ b = [i \in 1..z |-> b[i]] /\ m = [i \in 1..z |-> m[i]]
  BY <1>6 DEF Moves
<1>8. Worth(beginStep, now) = Sum(a) /\ Worth(beginStep, old) = Sum(b)
  BY DEF Worth
<1> HIDE DEF a, b, m
<1>9. b \in [1..z -> Int] /\ m \in [1..z -> Int]
  BY <1>5, <1>7
<1>10. Sum(a) = Sum(b) + Sum(m)
  BY <1>5, <1>6, <1>9, SumOfBoth
<1>11. Sum(b) \in Int /\ Sum(m) \in Int
  BY <1>9, SumType
<1>12. QED
  BY <1>2, <1>8, <1>10, <1>11 DEF m

\* The offsets of the slices in the flat buffer.
LEMMA OffIs ==
  ASSUME steps \in Seq(Scalars), NEW m \in 1..Len(steps)
  PROVE  /\ Off(m - 1) \in Nat /\ steps[m].count \in Nat
         /\ Off(m) = Off(m - 1) + steps[m].count
         /\ Off(m) <= Off(Len(steps)) /\ Off(Len(steps)) \in Nat
<1>1. PICK l, z \in Nat : l = Len(steps) /\ DOMAIN steps = 1..l /\ m = z + 1 /\ z < l
  <2>1. Len(steps) \in Nat /\ DOMAIN steps = 1..Len(steps)
    OBVIOUS
  <2>2. m - 1 \in Nat /\ m - 1 < Len(steps) /\ m = (m - 1) + 1
    BY <2>1
  <2>3. QED
    BY <2>1, <2>2
<1>2. \A i \in 1..l : steps[i].count \in Nat
  <2>1. \A i \in 1..l : steps[i] \in Scalars
    BY <1>1
  <2>2. QED
    BY <2>1 DEF Scalars
<1> DEFINE Counts(x) == [i \in 1..x |-> steps[i].count]
           all == Counts(l)
           upto == Counts(m)
           before == Counts(z)
<1>3. /\ all \in [1..l -> Nat] /\ upto \in [1..m -> Nat] /\ before \in [1..z -> Nat]
      /\ 1..z \subseteq 1..l /\ 1..m \subseteq 1..l
      /\ \A i \in 1..m : upto[i] = all[i]
      /\ \A i \in 1..z : before[i] = upto[i]
      /\ upto[m] = steps[m].count
  BY <1>1, <1>2
<1>4. Off(l) = Sum(all) /\ Off(m) = Sum(upto) /\ Off(z) = Sum(before) /\ Off(m - 1) = Off(z)
  BY <1>1 DEF Off
<1> HIDE DEF all, upto, before, Counts
<1>5. Sum(upto) = Sum(before) + upto[m]
  <2>1. before \in [1..z -> Int] /\ upto \in [1..(z + 1) -> Int] /\ m = z + 1
    BY <1>1, <1>3
  <2>2. \A i \in 1..z : upto[i] = before[i]
    BY <1>3
  <2>3. QED
    BY <2>1, <2>2, SumGrow
<1>6. Sum(before) \in Nat /\ Sum(all) \in Nat /\ Sum(upto) \in Nat
  <2>1. m \in Nat
    BY <1>1
  <2>2. QED
    BY <1>1, <1>3, <2>1, SumOfNats
<1>7. Sum(upto) <= Sum(all)
  <2>1. DOMAIN all = 1..l /\ DOMAIN upto = 1..m
    BY <1>3
  <2>2. Sum(all) = SumFunctionOnSet(all, 1..l) /\ Sum(upto) = SumFunctionOnSet(upto, 1..m)
    BY <2>1, SumIs
  <2>3. IsFiniteSet(1..l) /\ IsFiniteSet(1..m)
    BY <1>1, FS_Interval
  <2>4. SumFunctionOnSet(all, 1..m) <= SumFunctionOnSet(all, 1..l)
    <3>1. \A i \in 1..l : all[i] \in Nat
      BY <1>3
    <3>2. 1..m \in SUBSET (1..l)
      BY <1>3
    <3>3. QED
      BY <2>3, <3>1, <3>2, SumPart
  <2>5. SumFunctionOnSet(upto, 1..m) = SumFunctionOnSet(all, 1..m)
    <3>1. Numbers(upto, 1..m) /\ \A i \in 1..m : upto[i] = all[i]
      BY <1>3 DEF Numbers
    <3>2. QED
      BY <2>3, <3>1, SumSame
  <2>6. QED
    BY <2>2, <2>4, <2>5
<1>8. QED
  BY <1>1, <1>2, <1>3, <1>4, <1>5, <1>6, <1>7

LEMMA OffStays ==
  ASSUME NEW m \in Nat, m <= Len(steps), steps \in Seq(Scalars), NEW r, steps' = Append(steps, r)
  PROVE  Off(m)' = Off(m)
<1>1. \A i \in 1..m : steps'[i] = steps[i]
  OBVIOUS
<1>2. [i \in 1..m |-> steps'[i].count] = [i \in 1..m |-> steps[i].count]
  BY <1>1
<1>3. QED
  BY <1>2 DEF Off

-----------------------------------------------------------------------------
(* What the settlement writes.                                             *)

LEMMA ScalarsAre ==
  ASSUME LedgerInv, pc = "trade"
  PROVE  /\ StepScalars \in Scalars
         /\ StepScalars.ts = Days[n] /\ StepScalars.prior_ts = Days[StepBefore(n)]
         /\ StepScalars.underlying = Underlying[n]
         /\ StepScalars.prior_underlying = Underlying[StepBefore(n)]
         /\ StepScalars.spread = -stepSlippage /\ StepScalars.fees = stepFees
         /\ StepScalars.pnl = Equity - prevEquity /\ StepScalars.count = Len(beginStep)
<1>1. /\ StepScalars.ts = Days[n] /\ StepScalars.prior_ts = Days[StepBefore(n)]
      /\ StepScalars.underlying = Underlying[n]
      /\ StepScalars.prior_underlying = Underlying[StepBefore(n)]
      /\ StepScalars.spread = -stepSlippage /\ StepScalars.fees = stepFees
      /\ StepScalars.pnl = Equity - prevEquity /\ StepScalars.count = Len(beginStep)
  BY DEF StepScalars, StepBefore, SpreadCapture, AttributionLegs
<1>2. Shape /\ Counted /\ Marked /\ Trading
  BY DEF LedgerInv, Trading
<1>3. n \in Nat \ {0} /\ n <= Len(Days)
  BY <1>2, HeldPriced DEF Shape
<1>4. PICK i \in Nat \ {0} : i = StepBefore(n) /\ i <= n
  BY <1>3 DEF StepBefore
<1>5. Days \in Seq(Int) /\ Underlying \in Seq(Int) /\ Len(Underlying) = Len(Days)
      /\ Len(Days) \in Nat
  BY LedgerAssumption
<1>6. i \in 1..Len(Days) /\ n \in 1..Len(Days)
  BY <1>3, <1>4, <1>5
<1>7. Days[n] \in Int /\ Days[i] \in Int /\ Underlying[n] \in Int /\ Underlying[i] \in Int
  BY <1>5, <1>6
<1>8. -stepSlippage \in Int /\ stepFees \in Int /\ Equity - prevEquity \in Int
      /\ Len(beginStep) \in Nat
  BY PositionValueIs, MoneyTypes, BeganWith
<1>9. StepScalars = [ts |-> Days[n], prior_ts |-> Days[i], underlying |-> Underlying[n],
         prior_underlying |-> Underlying[i], spread |-> -stepSlippage, fees |-> stepFees,
         pnl |-> Equity - prevEquity, count |-> Len(beginStep)]
  BY <1>4 DEF StepScalars, StepBefore, SpreadCapture, AttributionLegs
<1>10. StepScalars \in Scalars
  BY <1>7, <1>8, <1>9 DEF Scalars
<1>11. QED
  BY <1>1, <1>10

LEMMA TakenSamples ==
  ASSUME LedgerInv, pc = "trade"
  PROVE  /\ MapSeq(Sample, AttributionLegs) \in Seq(Samples)
         /\ Len(MapSeq(Sample, AttributionLegs)) = Len(beginStep)
         /\ \A i \in DOMAIN beginStep :
              MapSeq(Sample, AttributionLegs)[i] = SampleOf(RowsAt(n - 1)[i], n)
<1>1. PICK z \in Nat : z = Len(beginStep) /\ DOMAIN beginStep = 1..z
  BY BeganWith
<1>2. PICK s : s = MapSeq(Sample, AttributionLegs)
  OBVIOUS
<1>3. s = [i \in 1..z |-> Sample(beginStep[i])]
  BY <1>1, <1>2 DEF MapSeq, AttributionLegs
<1>4. \A i \in 1..z : Sample(beginStep[i]) \in Samples
                      /\ Sample(beginStep[i]) = SampleOf(RowsAt(n - 1)[i], n)
  BY <1>1, SampleIs
<1>5. s \in Seq(Samples) /\ Len(s) = z /\ \A i \in 1..z : s[i] = SampleOf(RowsAt(n - 1)[i], n)
  BY <1>3, <1>4
<1>6. QED
  BY <1>1, <1>2, <1>5

\* The retained marks and Greeks after a settlement.
LEMMA RefreshedIs ==
  ASSUME LedgerInv, pc = "trade",
         marks' = Refreshed(marks, Current(LAMBDA q : q.mid)),
         greeks' = Refreshed(greeks, Current(LAMBDA q : q)), UNCHANGED tape
  PROVE  /\ DOMAIN marks' \subseteq Contracts /\ DOMAIN greeks' = DOMAIN marks'
         /\ \A c : (\E i \in DOMAIN inventory : inventory[i].contract = c)
                     => /\ c \in DOMAIN marks' /\ marks'[c] = LastSeen(c, n).mid
                        /\ c \in DOMAIN greeks' /\ greeks'[c] = LastSeen(c, n)
<1>1. Shape /\ Counted /\ Marked /\ Trading /\ n \in Nat \ {0} /\ TypeOK
  <2>1. Shape /\ Counted /\ Marked /\ Trading /\ TypeOK
    BY DEF LedgerInv, Trading
  <2>2. QED
    BY <2>1, HeldPriced
<1>2. PICK now : now = Held \cap DOMAIN Snapshot
  OBVIOUS
<1>3. /\ marks' = [c \in DOMAIN marks \cup now |->
                     IF c \in now THEN Snapshot[c].mid ELSE marks[c]]
      /\ greeks' = [c \in DOMAIN greeks \cup now |->
                      IF c \in now THEN Snapshot[c] ELSE greeks[c]]
  BY <1>2 DEF Refreshed, Current
<1>4. now \subseteq Contracts
  <2>1. DOMAIN Snapshot \subseteq Contracts
    BY <1>1, PresentMid
  <2>2. QED
    BY <1>2, <2>1
<1>5. DOMAIN marks' \subseteq Contracts /\ DOMAIN greeks' = DOMAIN marks'
  BY <1>1, <1>3, <1>4 DEF TypeOK
<1>6. ASSUME NEW c, NEW i \in DOMAIN inventory, inventory[i].contract = c
      PROVE  /\ c \in DOMAIN marks' /\ marks'[c] = LastSeen(c, n).mid
             /\ c \in DOMAIN greeks' /\ greeks'[c] = LastSeen(c, n)
  <2>1. CASE c \in DOMAIN Snapshot
    <3>1. LastSeen(c, n) = Snapshot[c]
      BY <1>1, <2>1, PresentMid
    <3>2. c \in now
      BY <1>2, <1>6, <2>1 DEF Held
    <3>3. QED
      BY <1>3, <3>1, <3>2
  <2>2. CASE c \notin DOMAIN Snapshot
    <3>1. LastSeen(c, n) = LastSeen(c, n - 1)
      BY <1>1, <2>2, LastSeenBefore DEF Snapshot
    <3>2. IsRetained(c, n - 1) /\ c \notin now
      BY <1>1, <1>2, <1>6, <2>2 DEF Marked
    <3>3. QED
      BY <1>3, <3>1, <3>2 DEF IsRetained
  <2>3. QED
    BY <2>1, <2>2
<1>7. QED
  BY <1>5, <1>6

\* Every table grows by the step that is settled.
LEMMA TablesGrow ==
  ASSUME LedgerInv, Settle
  PROVE  \E z \in Nat \ {0} :
           /\ z = n /\ n' = z /\ Len(steps) = z - 1
           /\ steps \in Seq(Scalars) /\ steps' \in Seq(Scalars) /\ Len(steps') = z
           /\ steps'[z] = StepScalars /\ \A m \in 1..(z - 1) : steps'[m] = steps[m]
           /\ curve' \in Seq(Points) /\ Len(curve') = z /\ curve'[z].equity = Equity
           /\ \A m \in 1..(z - 1) : curve'[m] = curve[m]
           /\ positions' \in Seq(Seq(Rows)) /\ Len(positions') = z
           /\ positions'[z] = [i \in DOMAIN inventory |-> RowOf(inventory[i], n)]
           /\ \A m \in 1..(z - 1) : positions'[m] = positions[m]
           /\ \A m \in 0..(z - 1) : RowsAt(m)' = RowsAt(m) /\ EquityAt(m)' = EquityAt(m)
           /\ EquityAt(z)' = Equity
           /\ legs' \in Seq(Samples) /\ Len(legs') = Len(legs) + Len(beginStep)
           /\ \A j \in 1..Len(legs) : legs'[j] = legs[j]
           /\ \A i \in DOMAIN beginStep :
                legs'[Len(legs) + i] = SampleOf(RowsAt(n - 1)[i], n)
<1>1. pc = "trade" /\ tape' = tape
  BY DEF Settle
<1>2. Shape /\ Counted /\ Marked /\ Trading /\ TypeOK
  BY <1>1 DEF LedgerInv, Trading
<1>3. PICK z \in Nat \ {0} : z = n
  BY <1>2, HeldPriced
<1>4. Len(steps) = z - 1 /\ Len(curve) = z - 1 /\ Len(positions) = z - 1
  BY <1>2, <1>3 DEF Counted, TypeOK
<1>5. n' = z
  BY <1>1, <1>3, SameTape
<1>6. PICK sc \in Scalars, table \in Seq(Rows), now \in Int, top \in Int, money \in Int :
        /\ sc = StepScalars /\ table = MapSeq(Row, inventory) /\ now = Equity /\ top = peak'
        /\ money = cash
  <2>1. StepScalars \in Scalars /\ MapSeq(Row, inventory) \in Seq(Rows) /\ Equity \in Int
    BY <1>1, ScalarsAre, PositionValueIs
  <2>2. peak' \in Int /\ cash \in Int
    BY <2>1, MoneyTypes DEF Settle
  <2>3. QED
    BY <2>1, <2>2
<1>7. PICK point : point = [cash |-> money, equity |-> now, peak |-> top]
  OBVIOUS
<1>8. point \in Points /\ point.equity = now
  BY <1>7 DEF Points
<1>9. steps' = Append(steps, sc) /\ positions' = Append(positions, table)
      /\ curve' = Append(curve, point) /\ legs' = legs \o MapSeq(Sample, AttributionLegs)
  BY <1>6, <1>7 DEF Settle
<1>10. /\ steps \in Seq(Scalars) /\ positions \in Seq(Seq(Rows)) /\ curve \in Seq(Points)
       /\ legs \in Seq(Samples)
  BY <1>2 DEF Shape
<1>11. /\ steps' \in Seq(Scalars) /\ Len(steps') = z /\ steps'[z] = sc
       /\ \A m \in 1..(z - 1) : steps'[m] = steps[m]
  BY <1>4, <1>6, <1>9, <1>10
<1>12. /\ curve' \in Seq(Points) /\ Len(curve') = z /\ curve'[z] = point
       /\ \A m \in 1..(z - 1) : curve'[m] = curve[m]
  BY <1>4, <1>8, <1>9, <1>10
<1>13. /\ positions' \in Seq(Seq(Rows)) /\ Len(positions') = z /\ positions'[z] = table
       /\ \A m \in 1..(z - 1) : positions'[m] = positions[m]
  BY <1>4, <1>6, <1>9, <1>10
<1>14. table = [i \in DOMAIN inventory |-> RowOf(inventory[i], n)]
  BY <1>1, <1>6, PositionValueIs
<1>15. \A m \in 0..(z - 1) : m = 0 \/ m \in 1..(z - 1)
  OBVIOUS
<1>16. \A m \in 0..(z - 1) : RowsAt(m)' = RowsAt(m) /\ EquityAt(m)' = EquityAt(m)
  BY <1>12, <1>13, <1>15 DEF RowsAt, EquityAt
<1>17. EquityAt(z)' = Equity
  BY <1>6, <1>8, <1>12 DEF EquityAt
<1>18. PICK taken : taken = MapSeq(Sample, AttributionLegs)
  OBVIOUS
<1>19. /\ taken \in Seq(Samples) /\ Len(taken) = Len(beginStep)
       /\ \A i \in DOMAIN beginStep : taken[i] = SampleOf(RowsAt(n - 1)[i], n)
  BY <1>1, <1>18, TakenSamples
<1>20. DOMAIN beginStep = 1..Len(taken)
  BY <1>1, <1>19, BeganWith
<1>21. /\ legs' \in Seq(Samples) /\ Len(legs') = Len(legs) + Len(taken)
       /\ \A j \in 1..Len(legs) : legs'[j] = legs[j]
       /\ \A i \in 1..Len(taken) : legs'[Len(legs) + i] = taken[i]
  <2>1. legs' = legs \o taken
    BY <1>9, <1>18
  <2>2. QED
    BY <1>10, <1>19, <2>1
<1>22. QED
  BY <1>3, <1>4, <1>5, <1>6, <1>8, <1>10, <1>11, <1>12, <1>13, <1>14, <1>16, <1>17, <1>19,
     <1>20, <1>21

\* The slice of the step is the buffer's end, and no earlier slice moves.
LEMMA SettleSamples ==
  ASSUME LedgerInv, Settle
  PROVE  Sampled'
<1>1. pc = "trade" /\ UNCHANGED <<tape, offset, rows>>
  BY DEF Settle, passVars
<1>2. PICK z \in Nat \ {0} :
        /\ z = n /\ n' = z /\ Len(steps) = z - 1
        /\ steps \in Seq(Scalars) /\ steps' \in Seq(Scalars) /\ Len(steps') = z
        /\ steps'[z] = StepScalars /\ \A m \in 1..(z - 1) : steps'[m] = steps[m]
        /\ \A m \in 0..(z - 1) : RowsAt(m)' = RowsAt(m) /\ EquityAt(m)' = EquityAt(m)
        /\ EquityAt(z)' = Equity
        /\ legs' \in Seq(Samples) /\ Len(legs') = Len(legs) + Len(beginStep)
        /\ \A j \in 1..Len(legs) : legs'[j] = legs[j]
        /\ \A i \in DOMAIN beginStep : legs'[Len(legs) + i] = SampleOf(RowsAt(n - 1)[i], n)
  BY TablesGrow
<1>3. /\ Sampled /\ Len(legs) = Off(z - 1) /\ \A m \in 1..(z - 1) : IsSampled(m)
      /\ rows = <<>> /\ offset = 0
  <2>1. DOMAIN steps = 1..(z - 1)
    BY <1>2
  <2>2. QED
    BY <1>1, <1>2, <2>1 DEF LedgerInv, Sampled, Counted
<1>4. \A m \in 0..(z - 1) : Off(m)' = Off(m)
  <2>1. PICK sc : sc = StepScalars /\ steps' = Append(steps, sc)
    BY DEF Settle
  <2>2. ASSUME NEW m \in 0..(z - 1) PROVE Off(m)' = Off(m)
    <3>1. m \in Nat /\ m <= Len(steps)
      BY <1>2
    <3>2. QED
      BY <1>2, <2>1, <3>1, OffStays
  <2>3. QED
    BY <2>2
<1>5. ASSUME NEW m \in 1..(z - 1) PROVE IsSampled(m)'
  <2>1. IsSampled(m)
    BY <1>3
  <2>2. m - 1 \in 0..(z - 1) /\ m \in 0..(z - 1) /\ m \in 1..Len(steps)
    BY <1>2
  <2>3. PICK held : held = RowsAt(m - 1) /\ held = RowsAt(m - 1)'
    BY <1>2, <2>2
  <2>4. PICK off, count \in Nat :
          /\ held = RowsAt(m - 1) /\ held = RowsAt(m - 1)'
          /\ off = Off(m - 1) /\ off = Off(m - 1)'
          /\ count = steps[m].count /\ count = steps'[m].count
          /\ off + count <= Len(legs)
    <3>1. /\ Off(m - 1) \in Nat /\ steps[m].count \in Nat
          /\ Off(m) = Off(m - 1) + steps[m].count /\ Off(m) <= Off(Len(steps))
      BY <1>2, <2>2, OffIs
    <3>2. Off(m - 1)' = Off(m - 1)
      BY <1>4, <2>2
    <3>3. QED
      BY <1>2, <1>3, <2>2, <2>3, <3>1, <3>2
  <2>5. ASSUME NEW i \in 1..count
        PROVE  /\ held[i] \in Rows /\ (Quoted(RowsAt(m - 1)[i].contract, m - 1))'
               /\ legs'[off + i] = (SampleOf(RowsAt(m - 1)[i], m))'
    <3>1. PICK row : row = held[i] /\ row = RowsAt(m - 1)[i] /\ row = (RowsAt(m - 1)[i])'
      BY <2>4
    <3>2. row \in Rows /\ Quoted(row.contract, m - 1) /\ legs[off + i] = SampleOf(row, m)
      BY <2>1, <2>4, <3>1 DEF IsSampled
    <3>3. PICK c : c = row.contract
      OBVIOUS
    <3>4. Quoted(c, m - 1)' /\ SampleOf(row, m)' = SampleOf(row, m)
      BY <1>1, <3>2, <3>3, SameTape
    <3>5. (Quoted(RowsAt(m - 1)[i].contract, m - 1))'
      BY <3>1, <3>3, <3>4 DEF Quoted, SeenIn
    <3>6. (SampleOf(RowsAt(m - 1)[i], m))' = SampleOf(row, m)'
      BY <3>1 DEF SampleOf, LastSeen, SeenIn
    <3>7. legs'[off + i] = legs[off + i]
      <4>1. Len(legs) \in Nat
        BY DEF LedgerInv, Shape
      <4>2. off + i \in 1..Len(legs)
        BY <2>4, <4>1
      <4>3. QED
        BY <1>2, <4>2
    <3>8. QED
      BY <3>1, <3>2, <3>4, <3>5, <3>6, <3>7
  <2>6. steps'[m] = steps[m] /\ EquityAt(m)' = EquityAt(m) /\ EquityAt(m - 1)' = EquityAt(m - 1)
    BY <1>2, <2>2
  <2>7. \A i \in 1..count : /\ (RowsAt(m - 1)[i])' \in Rows
                            /\ (Quoted(RowsAt(m - 1)[i].contract, m - 1))'
                            /\ (legs[Off(m - 1) + i])' = (SampleOf(RowsAt(m - 1)[i], m))'
    BY <2>4, <2>5
  <2>8. QED
    BY <2>1, <2>4, <2>6, <2>7 DEF IsSampled
<1>6. IsSampled(z)'
  <2>1. /\ StepScalars.ts = Days[n] /\ StepScalars.prior_ts = Days[StepBefore(n)]
        /\ StepScalars.underlying = Underlying[n]
        /\ StepScalars.prior_underlying = Underlying[StepBefore(n)]
        /\ StepScalars.pnl = Equity - prevEquity /\ StepScalars.count = Len(beginStep)
    BY <1>1, ScalarsAre
  <2>2. PICK held, count, off : /\ held = RowsAt(z - 1) /\ count = Len(beginStep)
                                /\ off = Off(z - 1)
    OBVIOUS
  <2>3. /\ held = RowsAt(z - 1)' /\ off = Off(z - 1)' /\ off = Len(legs)
        /\ DOMAIN beginStep = 1..count /\ Len(held) = count
    <3>1. z - 1 \in 0..(z - 1)
      OBVIOUS
    <3>2. RowsAt(z - 1)' = RowsAt(z - 1) /\ Off(z - 1)' = Off(z - 1)
      BY <1>2, <1>4, <3>1
    <3>3. QED
      BY <1>1, <1>2, <1>3, <2>2, <3>2, BeganWith
  <2>4. prevEquity = EquityAt(z - 1) /\ EquityAt(z - 1)' = EquityAt(z - 1)
    <3>1. z - 1 \in 0..(z - 1)
      OBVIOUS
    <3>2. QED
      BY <1>1, <1>2, <3>1 DEF LedgerInv, Balanced
  <2>5. ASSUME NEW i \in 1..count
        PROVE  /\ (RowsAt(z - 1)[i])' \in Rows /\ (Quoted(RowsAt(z - 1)[i].contract, z - 1))'
               /\ legs'[off + i] = (SampleOf(RowsAt(z - 1)[i], z))'
    <3>1. PICK row : row = held[i] /\ row = RowsAt(n - 1)[i] /\ row = (RowsAt(z - 1)[i])'
      BY <1>2, <2>2, <2>3
    <3>2. row \in Rows /\ Quoted(row.contract, n - 1)
      BY <1>1, <2>3, <3>1, SampleIs
    <3>3. legs'[off + i] = SampleOf(row, n)
      BY <1>2, <2>3, <3>1
    <3>4. PICK c : c = row.contract
      OBVIOUS
    <3>5. Quoted(c, z - 1)' /\ SampleOf(row, z)' = SampleOf(row, z)
      BY <1>1, <1>2, <3>2, <3>4, SameTape
    <3>6. (Quoted(RowsAt(z - 1)[i].contract, z - 1))'
      BY <3>1, <3>4, <3>5 DEF Quoted, SeenIn
    <3>7. (SampleOf(RowsAt(z - 1)[i], z))' = SampleOf(row, z)'
      BY <3>1 DEF SampleOf, LastSeen, SeenIn
    <3>8. QED
      BY <1>2, <3>1, <3>2, <3>3, <3>5, <3>6, <3>7
  <2>6. \A i \in 1..count : /\ (RowsAt(z - 1)[i])' \in Rows
                            /\ (Quoted(RowsAt(z - 1)[i].contract, z - 1))'
                            /\ (legs[Off(z - 1) + i])' = (SampleOf(RowsAt(z - 1)[i], z))'
    BY <2>3, <2>5
  <2>7. StepBefore(z) = StepBefore(n)
    BY <1>2
  <2>8. QED
    BY <1>2, <2>1, <2>2, <2>3, <2>4, <2>6, <2>7 DEF IsSampled
<1>7. Len(legs)' = Off(z)' /\ Off(0)' = 0
  <2>1. z \in 1..Len(steps')
    BY <1>2
  <2>2. Off(z)' = Off(z - 1)' + steps'[z].count
    <3>1. PICK t : t = steps'
      OBVIOUS
    <3> DEFINE upto == [i \in 1..z |-> t[i].count]
               before == [i \in 1..(z - 1) |-> t[i].count]
    <3>2. \A i \in 1..z : t[i].count \in Nat
      <4>1. \A i \in 1..z : t[i] \in Scalars
        BY <1>2, <3>1
      <4>2. QED
        BY <4>1 DEF Scalars
    <3>3. PICK j \in Nat : j = z - 1 /\ z = j + 1
      OBVIOUS
    <3>4. before \in [1..j -> Int] /\ upto \in [1..(j + 1) -> Int]
          /\ \A i \in 1..j : upto[i] = before[i]
      BY <3>2, <3>3
    <3>5. upto[j + 1] = t[z].count
      BY <3>3
    <3>6. Off(z)' = Sum(upto) /\ Off(z - 1)' = Sum(before)
      BY <3>1 DEF Off
    <3> HIDE DEF upto, before
    <3>7. Sum(upto) = Sum(before) + upto[j + 1]
      BY <3>4, SumGrow
    <3>8. QED
      BY <3>1, <3>5, <3>6, <3>7
  <2>3. steps'[z].count = Len(beginStep)
    BY <1>1, <1>2, ScalarsAre
  <2>4. Off(z - 1)' = Len(legs)
    <3>1. z - 1 \in 0..(z - 1)
      OBVIOUS
    <3>2. QED
      BY <1>3, <1>4, <3>1
  <2>5. 0 \in 0..(z - 1) /\ Off(0) = 0
    BY NoSteps
  <2>6. QED
    BY <1>2, <1>4, <2>2, <2>3, <2>4, <2>5
<1>8. \A m \in 1..z : m \in 1..(z - 1) \/ m = z
  OBVIOUS
<1>9. \A m \in DOMAIN steps' : IsSampled(m)'
  <2>1. DOMAIN steps' = 1..z
    BY <1>2
  <2>2. QED
    BY <1>5, <1>6, <1>8, <2>1
<1>10. Len(rows') = 0 /\ offset' = 0
  BY <1>1, <1>3
<1>11. offset' = Off(Len(rows))' /\ Len(rows)' <= Len(steps)'
  <2>1. Off(Len(rows))' = Off(0)'
    BY <1>10 DEF Off
  <2>2. QED
    BY <1>2, <1>7, <1>10, <2>1
<1>12. Len(legs)' = Off(Len(steps))'
  <2>1. Off(Len(steps))' = Off(z)'
    BY <1>2 DEF Off
  <2>2. QED
    BY <1>7, <2>1
<1>13. QED
  BY <1>9, <1>11, <1>12 DEF Sampled

\* The amounts of a settlement, the checks of settle having passed.
LEMMA SettleTyped ==
  ASSUME LedgerInv, Settle
  PROVE  TypeOK'
<1>1. /\ pc = "trade" /\ ~SettleFails /\ UNCHANGED <<tape, cash, log, offset, rows>>
      /\ peak' = (IF Equity > peak THEN Equity ELSE peak) /\ prevEquity' = Equity
      /\ pc' \in {"attribute", "step"}
      /\ marks' = Refreshed(marks, Current(LAMBDA q : q.mid))
      /\ greeks' = Refreshed(greeks, Current(LAMBDA q : q))
  BY DEF Settle, passVars
<1>2. TypeOK /\ Shape /\ Counted
  BY DEF LedgerInv
<1>3. Fits(Equity) /\ Fits(Equity - prevEquity) /\ Fits(-stepSlippage) /\ Fits(stepFees)
  BY <1>1 DEF SettleFails, SpreadCapture
<1>4. PICK z \in Nat \ {0} :
        /\ steps' \in Seq(Scalars) /\ Len(steps') = z /\ Len(steps) = z - 1
        /\ steps \in Seq(Scalars)
        /\ steps'[z] = StepScalars /\ \A m \in 1..(z - 1) : steps'[m] = steps[m]
        /\ curve' \in Seq(Points) /\ Len(curve') = z /\ curve'[z].equity = Equity
        /\ \A m \in 1..(z - 1) : curve'[m] = curve[m]
        /\ Len(positions') = z /\ legs' \in Seq(Samples)
  BY TablesGrow
<1>5. /\ DOMAIN steps' = 1..z /\ DOMAIN curve' = 1..z
      /\ DOMAIN steps = 1..(z - 1) /\ DOMAIN curve = 1..(z - 1)
  <2>1. curve \in Seq(Points) /\ Len(curve) = z - 1
    BY <1>2, <1>4 DEF TypeOK, Shape
  <2>2. QED
    BY <1>4, <2>1
<1>6. \A m \in 1..z : m \in 1..(z - 1) \/ m = z
  OBVIOUS
<1>7. \A m \in DOMAIN steps' :
        \A x \in {steps'[m].pnl, steps'[m].spread, steps'[m].fees} : Fits(x)
  <2>1. /\ StepScalars.pnl = Equity - prevEquity /\ StepScalars.spread = -stepSlippage
        /\ StepScalars.fees = stepFees
    BY <1>1, ScalarsAre
  <2>2. \A m \in DOMAIN steps : \A x \in {steps[m].pnl, steps[m].spread, steps[m].fees} : Fits(x)
    BY <1>2 DEF TypeOK
  <2>3. ASSUME NEW m \in 1..(z - 1), NEW x \in {steps'[m].pnl, steps'[m].spread, steps'[m].fees}
        PROVE Fits(x)
    BY <1>4, <1>5, <2>2
  <2>4. ASSUME NEW x \in {steps'[z].pnl, steps'[z].spread, steps'[z].fees} PROVE Fits(x)
    BY <1>3, <1>4, <2>1
  <2>5. QED
    BY <1>5, <1>6, <2>3, <2>4
<1>8. \A m \in DOMAIN curve' : Fits(curve'[m].equity)
  BY <1>2, <1>3, <1>4, <1>5, <1>6 DEF TypeOK
<1>9. \A x \in {cash', peak', prevEquity'} : Fits(x)
  <2>1. Fits(cash) /\ Fits(peak)
    BY <1>2 DEF TypeOK
  <2>2. QED
    BY <1>1, <1>3, <2>1
<1>10. DOMAIN marks' \subseteq Contracts /\ DOMAIN greeks' = DOMAIN marks'
  BY <1>1, RefreshedIs
<1>11. offset' = 0 /\ 0 \in 0..Len(legs')
  BY <1>1, <1>2, <1>4 DEF Counted
<1>12. Len(curve') = Len(steps') /\ Len(steps') = Len(positions')
  BY <1>4
<1>13. \A i \in DOMAIN log' : Fits(log'[i])
  BY <1>1, <1>2 DEF TypeOK
<1>14. QED
  BY <1>1, <1>7, <1>8, <1>9, <1>10, <1>11, <1>12, <1>13 DEF TypeOK, Fits

\* What a settlement leaves alone.
LEMMA SettleShaped ==
  ASSUME LedgerInv, Settle
  PROVE  Shape' /\ Counted' /\ Identified' /\ Booked' /\ Rests' /\ Carries'
<1>1. /\ pc = "trade" /\ pc' \in {"attribute", "step"}
      /\ UNCHANGED <<mode, tape, working, cash, log, trades, inventory, beginStep, openFees,
                     swept, carried, offset, rows>>
      /\ stepSlippage' = 0 /\ stepFees' = 0
  BY DEF Settle, passVars
<1>2. Shape /\ Counted /\ Identified /\ Rests /\ Carries /\ n' = n
  BY <1>1, SameTape DEF LedgerInv
<1>3. PICK z \in Nat \ {0} :
        /\ z = n /\ n' = z /\ steps' \in Seq(Scalars) /\ Len(steps') = z
        /\ curve' \in Seq(Points) /\ positions' \in Seq(Seq(Rows)) /\ legs' \in Seq(Samples)
  BY TablesGrow
<1>4. Shape'
  BY <1>1, <1>2, <1>3 DEF Shape
<1>5. ~Trading' /\ Settled'
  BY <1>1 DEF Trading, Settled
<1>6. Counted'
  BY <1>1, <1>2, <1>3, <1>5 DEF Counted
<1>7. Identified'
  BY <1>1, <1>2 DEF Identified
<1>8. Booked'
  BY <1>5 DEF Booked
<1>9. Rests'
  <2>1. \A w : IsResting(w)' = IsResting(w)
    BY <1>1, SameTape DEF IsResting, LegOf
  <2>2. QED
    BY <1>1, <1>2, <2>1 DEF Rests
<1>10. Carries'
  BY <1>1, <1>2, SameTape DEF Carries, IsCarried
<1>11. QED
  BY <1>4, <1>6, <1>7, <1>8, <1>9, <1>10

\* The legs are retained and recorded at the mids of the tape.
LEMMA SettleRecorded ==
  ASSUME LedgerInv, Settle
  PROVE  Marked' /\ Recorded'
<1>1. /\ pc = "trade" /\ pc' \in {"attribute", "step"} /\ UNCHANGED <<tape, inventory>>
      /\ ~SettleFails
      /\ marks' = Refreshed(marks, Current(LAMBDA q : q.mid))
      /\ greeks' = Refreshed(greeks, Current(LAMBDA q : q))
  BY DEF Settle
<1>2. Shape /\ Counted /\ Marked /\ Recorded /\ Trading /\ ~Trading' /\ Settled'
  BY <1>1 DEF LedgerInv, Trading, Settled
<1>3. PICK z \in Nat \ {0} :
        /\ z = n /\ n' = z /\ Len(steps) = z - 1
        /\ positions' \in Seq(Seq(Rows)) /\ Len(positions') = z
        /\ positions'[z] = [i \in DOMAIN inventory |-> RowOf(inventory[i], n)]
        /\ \A m \in 1..(z - 1) : positions'[m] = positions[m]
  BY TablesGrow
<1>4. Marked'
  <2>1. ASSUME NEW i \in DOMAIN inventory PROVE IsRetained(inventory[i].contract, n)'
    <3>1. PICK c : c = inventory[i].contract
      OBVIOUS
    <3>2. Quoted(c, n)
      BY <1>2, <3>1, QuotedLegs
    <3>3. /\ c \in DOMAIN marks' /\ marks'[c] = LastSeen(c, n).mid
          /\ c \in DOMAIN greeks' /\ greeks'[c] = LastSeen(c, n)
      BY <1>1, <3>1, RefreshedIs
    <3>4. Quoted(c, z)' /\ LastSeen(c, z)' = LastSeen(c, n)
      BY <1>1, <1>3, <3>2, SameTape
    <3>5. IsRetained(c, z)'
      BY <3>3, <3>4 DEF IsRetained
    <3>6. QED
      BY <1>1, <1>3, <3>1, <3>5 DEF IsRetained, Quoted, SeenIn, LastSeen
  <2>2. QED
    BY <1>1, <1>2, <2>1 DEF Marked
<1>5. Records(inventory, n)'
  <2>1. \A leg : RowOf(leg, z)' = RowOf(leg, n)
    BY <1>1, <1>3, SameTape
  <2>2. positions'[z] = [i \in DOMAIN inventory' |-> RowOf(inventory[i], z)']
    <3>1. ASSUME NEW i \in DOMAIN inventory PROVE RowOf(inventory[i], z)' = RowOf(inventory[i], n)
      <4>1. PICK leg : leg = inventory[i]
        OBVIOUS
      <4>2. RowOf(leg, z)' = RowOf(leg, n)
        BY <2>1
      <4>3. RowOf(inventory[i], z)' = RowOf(leg, z)'
        BY <1>1, <4>1 DEF RowOf, LastSeen, SeenIn
      <4>4. QED
        BY <4>1, <4>2, <4>3
    <3>2. QED
      BY <1>1, <1>3, <3>1
  <2>3. Records(inventory, z)'
    BY <2>2 DEF Records
  <2>4. QED
    BY <1>3, <2>3 DEF Records, RowOf, LastSeen, SeenIn
<1>6. ASSUME NEW i \in DOMAIN inventory', inventory'[i].contract \notin DOMAIN tape'[n']
      PROVE  Days[n'] < Expiry[inventory'[i].contract]
  <2>1. IsStale(inventory[i]) /\ ~Expired(inventory[i])
    BY <1>1, <1>3, <1>6 DEF IsStale, Snapshot, SettleFails
  <2>2. ~(Days[n] >= Expiry[inventory[i].contract])
    BY <2>1 DEF Expired
  <2>3. Days[n] \in Int /\ Expiry[inventory[i].contract] \in Int
    <3>1. inventory[i] \in Legs
      BY <1>1, <1>2 DEF Shape
    <3>2. inventory[i].contract \in Contracts
      BY <3>1, LegFacts
    <3>3. n \in 1..Len(Days) /\ Days \in Seq(Int)
      BY <1>2, <1>3, LedgerAssumption DEF Shape
    <3>4. QED
      BY <3>2, <3>3, LedgerAssumption
  <2>4. QED
    BY <1>1, <1>3, <2>2, <2>3
<1>7. ASSUME NEW m \in DOMAIN positions', NEW i \in DOMAIN positions'[m]
      PROVE  Quoted(positions[m][i].contract, m)'
  <2>1. m \in 1..(z - 1) \/ m = z
    BY <1>3
  <2>2. PICK c : c = positions'[m][i].contract
    OBVIOUS
  <2>3. Quoted(c, m)
    <3>1. CASE m \in 1..(z - 1)
      <4>1. m \in DOMAIN positions
        <5>1. positions \in Seq(Seq(Rows)) /\ Len(positions) = z - 1
          BY <1>2, <1>3 DEF LedgerInv, TypeOK, Shape
        <5>2. QED
          BY <3>1, <5>1
      <4>2. QED
        BY <1>2, <1>3, <2>2, <3>1, <4>1 DEF Recorded
    <3>2. CASE m = z
      <4>1. i \in DOMAIN inventory /\ positions'[m][i] = RowOf(inventory[i], n)
        BY <1>3, <3>2
      <4>2. c = inventory[i].contract
        BY <2>2, <4>1 DEF RowOf
      <4>3. QED
        BY <1>2, <1>3, <3>2, <4>1, <4>2, QuotedLegs
    <3>3. QED
      BY <2>1, <3>1, <3>2
  <2>4. Quoted(c, m)'
    BY <1>1, <2>3, SameTape
  <2>5. QED
    BY <2>2, <2>4 DEF Quoted, SeenIn
<1>8. Recorded'
  BY <1>2, <1>5, <1>6, <1>7 DEF Recorded
<1>9. QED
  BY <1>4, <1>8

\* The settlement's equity is the cash and what is held at the mids.
LEMMA SettleBalanced ==
  ASSUME LedgerInv, Settle
  PROVE  Balanced' /\ Explained' /\ TermsCoverHoldings'
<1>1. /\ pc = "trade" /\ pc' \in {"attribute", "step"}
      /\ UNCHANGED <<tape, inventory, cash, log, openFees, swept, rows>>
      /\ stepSlippage' = 0 /\ stepFees' = 0 /\ prevEquity' = Equity
  BY DEF Settle, passVars
<1>2. Counted /\ Explained
  BY DEF LedgerInv
<1>3. ~Trading' /\ Settled' /\ Equity = cash + Worth(inventory, Mids(n))
  BY <1>1, PositionValueIs DEF Trading, Settled
<1>4. PICK z \in Nat \ {0} : z = n /\ n' = z /\ Len(steps') = z /\ EquityAt(z)' = Equity
  BY TablesGrow
<1>5. Worth(inventory, Mids(n))' = Worth(inventory, Mids(n))
  BY <1>1, SameTape DEF Worth
<1>6. EquityAt(Len(steps))' = EquityAt(z)'
  BY <1>4 DEF EquityAt
<1>7. Balanced'
  BY <1>1, <1>3, <1>4, <1>5, <1>6 DEF Balanced
<1>8. Explained'
  BY <1>1, <1>2 DEF Explained, Stake
<1>9. TermsCoverHoldings'
  <2>1. rows' = <<>>
    BY <1>1, <1>2 DEF Counted
  <2>2. DOMAIN rows' = {}
    BY <2>1
  <2>3. QED
    BY <2>2 DEF TermsCoverHoldings
<1>10. QED
  BY <1>7, <1>8, <1>9

\* The P&L of the step is explained, and that of the steps before stays so.
LEMMA SettleExplains ==
  ASSUME LedgerInv, Settle
  PROVE  PnlExplained'
<1>1. pc = "trade" /\ UNCHANGED <<tape, carried>>
  BY DEF Settle
<1>2. PICK z \in Nat \ {0} :
        /\ z = n /\ steps' \in Seq(Scalars) /\ Len(steps') = z /\ Len(steps) = z - 1
        /\ steps \in Seq(Scalars)
        /\ steps'[z] = StepScalars /\ \A m \in 1..(z - 1) : steps'[m] = steps[m]
        /\ \A m \in 0..(z - 1) : RowsAt(m)' = RowsAt(m)
  BY TablesGrow
<1>3. \A m : DriftAt(m)' = DriftAt(m)
  BY <1>1 DEF DriftAt, Drift
<1>4. \A m \in 1..z : Moves(m)' = Moves(m)
  <2>1. ASSUME NEW m \in 1..z PROVE Moves(m)' = Moves(m)
    <3>1. m - 1 \in 0..(z - 1)
      OBVIOUS
    <3>2. RowsAt(m - 1)' = RowsAt(m - 1)
      BY <1>2, <3>1
    <3>3. QED
      BY <1>1, <3>2, SameTape DEF Moves
  <2>2. QED
    BY <2>1
<1>5. ASSUME NEW m \in 1..(z - 1) PROVE Explains(m)'
  <2>1. m \in DOMAIN steps /\ m \in 1..z
    BY <1>2
  <2>2. Explains(m)
    BY <2>1, PnlIs DEF LedgerInv
  <2>3. steps'[m] = steps[m]
    BY <1>2
  <2>4. QED
    BY <1>3, <1>4, <2>1, <2>2, <2>3 DEF Explains
<1>6. Explains(z)'
  <2>1. cash + Worth(inventory, Mids(n)) + stepSlippage + stepFees
          = prevEquity + Worth(beginStep, Mids(n)) - Worth(beginStep, Mids(n - 1)) + DriftAt(n)
    BY <1>1 DEF LedgerInv, Balanced, Trading
  <2>2. /\ Sum(Moves(n)) = Worth(beginStep, Mids(n)) - Worth(beginStep, Mids(n - 1))
        /\ Sum(Moves(n)) \in Int
    BY <1>1, MovesAre
  <2>3. Equity = cash + Worth(inventory, Mids(n)) /\ Equity \in Int
    BY <1>1, PositionValueIs
  <2>4. /\ StepScalars.pnl = Equity - prevEquity /\ StepScalars.spread = -stepSlippage
        /\ StepScalars.fees = stepFees
    BY <1>1, ScalarsAre
  <2>5. PICK W, A, B, D \in Int :
          /\ W = Worth(inventory, Mids(n)) /\ A = Worth(beginStep, Mids(n))
          /\ B = Worth(beginStep, Mids(n - 1)) /\ D = DriftAt(n)
    <3>1. Shape /\ Counted /\ Marked /\ Trading
      BY <1>1 DEF LedgerInv, Trading
    <3>2. /\ Worth(inventory, Mids(n)) \in Int /\ Worth(beginStep, Mids(n)) \in Int
          /\ Worth(beginStep, Mids(n - 1)) \in Int
      BY <3>1, HeldPriced, HoldingTypes
    <3>3. DriftAt(n) \in Int
      BY DriftType
    <3>4. QED
      BY <3>2, <3>3
  <2>6. Equity - prevEquity = Sum(Moves(n)) + DriftAt(n) + (-stepSlippage) - stepFees
    BY <2>1, <2>2, <2>3, <2>5, MoneyTypes
  <2>7. Moves(z)' = Moves(n) /\ DriftAt(z)' = DriftAt(n)
    <3>1. Moves(z)' = Moves(z) /\ DriftAt(z)' = DriftAt(z)
      BY <1>3, <1>4
    <3>2. QED
      BY <1>2, <3>1
  <2>8. QED
    BY <1>2, <2>4, <2>6, <2>7 DEF Explains
<1>7. \A m \in DOMAIN steps' : Explains(m)'
  <2>1. DOMAIN steps' = 1..z /\ \A m \in 1..z : m \in 1..(z - 1) \/ m = z
    BY <1>2
  <2>2. QED
    BY <1>5, <1>6, <2>1
<1>8. QED
  BY <1>7, PnlIsNext

LEMMA SettleKeeps ==
  ASSUME LedgerInv, Settle
  PROVE  LedgerInv'
BY SettleTyped, SettleShaped, SettleRecorded, SettleBalanced, SettleSamples, SettleExplains
   DEF LedgerInv

-----------------------------------------------------------------------------
(* The attribution pass.                                                   *)

ThetasIn(step, slice) ==
  [i \in DOMAIN slice |-> IF slice[i].known
     THEN slice[i].prior.theta * DeltaTDays(step) * Weight(slice[i]) ELSE 0]
DeltasIn(step, slice) ==
  [i \in DOMAIN slice |-> IF slice[i].known
     THEN slice[i].prior.delta * DeltaSCents(step) * Weight(slice[i]) ELSE 0]
VegasIn(step, slice) ==
  [i \in DOMAIN slice |-> IF slice[i].known
     THEN slice[i].prior.vega * DeltaIv(slice[i]) * Weight(slice[i]) ELSE 0]

LEMMA FoldIsSum ==
  ASSUME NEW f, NEW S, S = DOMAIN f
  PROVE  FoldFunctionOnSet(LAMBDA x, y : x + y, 0, f, S) = Sum(f)
BY DEF Sum, FoldFunction

\* A row of the pass, amount by amount.
LEMMA AttributeIs ==
  ASSUME NEW step, NEW slice, NEW row, row = AttributeStep(step, slice)
  PROVE  /\ row.theta = RoundHalfEven(Sum(ThetasIn(step, slice)), 2)
         /\ row.delta = RoundHalfEven(Sum(DeltasIn(step, slice)), 2)
         /\ row.vega = RoundHalfEven(Sum(VegasIn(step, slice)), 2)
         /\ row.spread = step.spread /\ row.fees = step.fees
         /\ row.residual = step.pnl - (row.theta + row.delta + row.vega + step.spread - step.fees)
         /\ row = [theta |-> row.theta, delta |-> row.delta, vega |-> row.vega,
                   spread |-> row.spread, fees |-> row.fees, residual |-> row.residual]
<1>1. /\ DOMAIN ThetasIn(step, slice) = DOMAIN slice
      /\ DOMAIN DeltasIn(step, slice) = DOMAIN slice
      /\ DOMAIN VegasIn(step, slice) = DOMAIN slice
  BY DEF ThetasIn, DeltasIn, VegasIn
<1>2. /\ FoldFunctionOnSet(LAMBDA x, y : x + y, 0, ThetasIn(step, slice), DOMAIN slice)
           = Sum(ThetasIn(step, slice))
      /\ FoldFunctionOnSet(LAMBDA x, y : x + y, 0, DeltasIn(step, slice), DOMAIN slice)
           = Sum(DeltasIn(step, slice))
      /\ FoldFunctionOnSet(LAMBDA x, y : x + y, 0, VegasIn(step, slice), DOMAIN slice)
           = Sum(VegasIn(step, slice))
  BY <1>1, FoldIsSum
<1>3. TermSum(slice, LAMBDA g : g.prior.theta * DeltaTDays(step)) = Sum(ThetasIn(step, slice))
  BY <1>2 DEF TermSum, ThetasIn
<1>4. TermSum(slice, LAMBDA g : g.prior.delta * DeltaSCents(step)) = Sum(DeltasIn(step, slice))
  BY <1>2 DEF TermSum, DeltasIn
<1>5. TermSum(slice, LAMBDA g : g.prior.vega * DeltaIv(g)) = Sum(VegasIn(step, slice))
  BY <1>2 DEF TermSum, VegasIn
<1>6. QED
  BY <1>3, <1>4, <1>5 DEF AttributeStep, RoundToCents

\* The slice of a step is the legs it began with.
LEMMA SliceIs ==
  ASSUME LedgerInv, NEW m \in Nat \ {0}, m = Len(rows) + 1, m <= Len(steps),
         NEW slice, slice = Slice(steps[m])
  PROVE  /\ DOMAIN slice = DOMAIN RowsAt(m - 1) /\ DOMAIN slice = 1..steps[m].count
         /\ \A i \in DOMAIN slice :
              /\ slice[i] = SampleOf(RowsAt(m - 1)[i], m) /\ RowsAt(m - 1)[i] \in Rows
              /\ Quoted(RowsAt(m - 1)[i].contract, m - 1)
         /\ offset = Off(m - 1) /\ offset + steps[m].count = Off(m)
         /\ Off(m) \in Nat /\ Off(m) <= Len(legs)
<1>1. /\ steps \in Seq(Scalars) /\ legs \in Seq(Samples) /\ positions \in Seq(Seq(Rows))
      /\ rows \in Seq(Attributions) /\ Len(steps) = Len(positions)
  BY DEF LedgerInv, Shape, TypeOK
<1>2. m \in 1..Len(steps) /\ m \in DOMAIN steps
  BY <1>1
<1>3. /\ IsSampled(m) /\ Len(legs) = Off(Len(steps)) /\ offset = Off(m - 1)
  <2>1. Len(rows) = m - 1
    BY <1>1
  <2>2. QED
    BY <1>2, <2>1 DEF LedgerInv, Sampled
<1>4. /\ Off(m - 1) \in Nat /\ steps[m].count \in Nat
      /\ Off(m) = Off(m - 1) + steps[m].count /\ Off(m) <= Off(Len(steps))
  BY <1>1, <1>2, OffIs
<1>5. RowsAt(m - 1) \in Seq(Rows)
  <2>1. CASE m = 1
    BY <2>1 DEF RowsAt
  <2>2. CASE m # 1
    <3>1. m - 1 \in DOMAIN positions /\ m - 1 # 0
      BY <1>1, <2>2
    <3>2. QED
      BY <1>1, <3>1 DEF RowsAt
  <2>3. QED
    BY <2>1, <2>2
<1>6. PICK off, count \in Nat : off = offset /\ count = steps[m].count
  BY <1>3, <1>4
<1>7. slice = SubSeq(legs, off + 1, off + count)
  BY <1>6 DEF Slice
<1>8. off + count \in Nat /\ off + count <= Len(legs) /\ Len(legs) \in Nat
  BY <1>1, <1>3, <1>4, <1>6
<1>9. DOMAIN slice = 1..count /\ \A i \in 1..count : slice[i] = legs[off + i]
  BY <1>1, <1>7, <1>8
<1>10. DOMAIN RowsAt(m - 1) = 1..count
  BY <1>3, <1>5, <1>6 DEF IsSampled
<1>11. ASSUME NEW i \in 1..count
       PROVE  /\ slice[i] = SampleOf(RowsAt(m - 1)[i], m) /\ RowsAt(m - 1)[i] \in Rows
              /\ Quoted(RowsAt(m - 1)[i].contract, m - 1)
  BY <1>3, <1>6, <1>9 DEF IsSampled
<1>12. QED
  BY <1>3, <1>4, <1>6, <1>8, <1>9, <1>10, <1>11

\* The elapsed days and the move of the underlying, from the tape alone.
LEMMA GapIs ==
  ASSUME LedgerInv, NEW m \in 1..Len(steps)
  PROVE  /\ DeltaTDays(steps[m]) = Gap(m) /\ Gap(m) \in Int
         /\ DeltaSCents(steps[m]) = Move(m) /\ Move(m) \in Int
<1>1. /\ steps \in Seq(Scalars) /\ n \in Nat /\ n <= Len(Days) /\ Len(steps) <= n
  BY TapeFacts DEF LedgerInv, Shape, Counted
<1>2. IsSampled(m)
  BY <1>1 DEF LedgerInv, Sampled
<1>3. /\ Days \in Seq(Int) /\ Underlying \in Seq(Int) /\ Len(Underlying) = Len(Days)
  BY LedgerAssumption
<1>4. m \in 1..Len(Days) /\ StepBefore(m) \in 1..Len(Days)
  BY <1>1, <1>3 DEF StepBefore
<1>5. /\ Days[m] \in Int /\ Days[StepBefore(m)] \in Int
      /\ Underlying[m] \in Int /\ Underlying[StepBefore(m)] \in Int
  BY <1>3, <1>4
<1>6. /\ DeltaTDays(steps[m]) = Days[m] - Days[StepBefore(m)]
      /\ DeltaSCents(steps[m]) = Underlying[m] - Underlying[StepBefore(m)]
  BY <1>2 DEF IsSampled, DeltaTDays, DeltaSCents
<1>7. QED
  BY <1>5, <1>6 DEF Gap, Move, StepBefore

\* The terms of the slice are those of the tape and the position rows.
LEMMA TermsOfSlice ==
  ASSUME LedgerInv, NEW m \in Nat \ {0}, m = Len(rows) + 1, m <= Len(steps),
         NEW step, step = steps[m], NEW slice, slice = Slice(step)
  PROVE  /\ ThetasIn(step, slice) = Thetas(m)
         /\ DeltasIn(step, slice) = Deltas(m)
         /\ VegasIn(step, slice) = Vegas(m)
         /\ \E z \in Nat : {Thetas(m), Deltas(m), Vegas(m)} \subseteq [1..z -> Int]
<1>1. PICK held : held = RowsAt(m - 1)
  OBVIOUS
<1>2. /\ DOMAIN slice = DOMAIN held /\ DOMAIN slice = 1..step.count
      /\ \A i \in DOMAIN slice :
           slice[i] = SampleOf(held[i], m) /\ held[i] \in Rows /\ Quoted(held[i].contract, m - 1)
  BY <1>1, SliceIs
<1>3. m \in 1..Len(steps) /\ step.count \in Nat
  <2>1. steps \in Seq(Scalars)
    BY DEF LedgerInv, Shape
  <2>2. m \in 1..Len(steps)
    BY <2>1
  <2>3. QED
    BY <2>1, <2>2, OffIs
<1>4. DeltaTDays(step) = Gap(m) /\ Gap(m) \in Int /\ DeltaSCents(step) = Move(m) /\ Move(m) \in Int
  BY <1>3, GapIs
<1>5. ASSUME NEW i \in DOMAIN slice
      PROVE  /\ slice[i].known /\ slice[i].prior = LastSeen(held[i].contract, m - 1)
             /\ Weight(slice[i]) = Weight(held[i]) /\ Weight(held[i]) \in Int
             /\ DeltaIv(slice[i])
                  = LastSeen(held[i].contract, m).iv - LastSeen(held[i].contract, m - 1).iv
             /\ {LastSeen(held[i].contract, m - 1).theta, LastSeen(held[i].contract, m - 1).delta,
                 LastSeen(held[i].contract, m - 1).vega, LastSeen(held[i].contract, m - 1).iv,
                 LastSeen(held[i].contract, m).iv} \subseteq Int
  <2>1. PICK row : row = held[i] /\ slice[i] = SampleOf(row, m) /\ row \in Rows
                   /\ Quoted(row.contract, m - 1)
    BY <1>2
  <2>2. PICK c : c = row.contract
    OBVIOUS
  <2>3. /\ slice[i].known /\ slice[i].prior = LastSeen(c, m - 1)
        /\ slice[i].qty = row.qty /\ slice[i].side = row.side /\ slice[i].iv = LastSeen(c, m).iv
    BY <2>1, <2>2 DEF SampleOf
  <2>4. IsQuote(LastSeen(c, m - 1)) /\ IsQuote(LastSeen(c, m))
    <3>1. tape \in Seq(Snapshots) /\ m - 1 \in Nat /\ m \in Nat /\ m - 1 <= m /\ m <= n /\ m - 1 <= n
      BY <1>3, TapeFacts DEF LedgerInv, Shape, Counted
    <3>2. Quoted(c, m - 1) /\ Quoted(c, m)
      BY <2>1, <2>2, <3>1, QuotedLater
    <3>3. QED
      BY <3>1, <3>2, LastSeenType
  <2>5. \A q : IsQuote(q) => {q.theta, q.delta, q.vega, q.iv} \subseteq Int
    BY DEF IsQuote
  <2>6. Weight(slice[i]) = Weight(row) /\ Weight(row) \in Int
    <3>1. PICK side \in Sides, qty \in Nat : side = row.side /\ qty = row.qty
      BY <2>1 DEF Rows
    <3>2. SideSign(side) \in Int /\ Multiplier \in Int
      BY SignType, LedgerAssumption
    <3>3. qty * Multiplier * SideSign(side) \in Int
      BY <3>2
    <3>4. QED
      BY <2>3, <3>1, <3>3 DEF Weight
  <2>7. DeltaIv(slice[i]) = LastSeen(c, m).iv - LastSeen(c, m - 1).iv
    BY <2>3 DEF DeltaIv
  <2>8. QED
    BY <2>1, <2>2, <2>3, <2>4, <2>5, <2>6, <2>7
<1>6. ThetasIn(step, slice) = Thetas(m)
  BY <1>1, <1>2, <1>4, <1>5 DEF ThetasIn, Thetas
<1>7. DeltasIn(step, slice) = Deltas(m)
  BY <1>1, <1>2, <1>4, <1>5 DEF DeltasIn, Deltas
<1>8. VegasIn(step, slice) = Vegas(m)
  BY <1>1, <1>2, <1>5 DEF VegasIn, Vegas
<1>9. {Thetas(m), Deltas(m), Vegas(m)} \subseteq [1..step.count -> Int]
  <2>1. Thetas(m) \in [1..step.count -> Int]
    <3>1. ASSUME NEW i \in 1..step.count PROVE Thetas(m)[i] \in Int
      <4>1. PICK theta, weight \in Int :
              /\ theta = LastSeen(held[i].contract, m - 1).theta /\ weight = Weight(held[i])
        BY <1>2, <1>5
      <4>2. theta * Gap(m) * weight \in Int
        BY <1>4
      <4>3. QED
        BY <1>1, <1>2, <4>1, <4>2 DEF Thetas
    <3>2. Thetas(m) = [i \in 1..step.count |-> Thetas(m)[i]]
      BY <1>1, <1>2 DEF Thetas
    <3>3. QED
      BY <3>1, <3>2
  <2>2. Deltas(m) \in [1..step.count -> Int]
    <3>1. ASSUME NEW i \in 1..step.count PROVE Deltas(m)[i] \in Int
      <4>1. PICK delta, weight \in Int :
              /\ delta = LastSeen(held[i].contract, m - 1).delta /\ weight = Weight(held[i])
        BY <1>2, <1>5
      <4>2. delta * Move(m) * weight \in Int
        BY <1>4
      <4>3. QED
        BY <1>1, <1>2, <4>1, <4>2 DEF Deltas
    <3>2. Deltas(m) = [i \in 1..step.count |-> Deltas(m)[i]]
      BY <1>1, <1>2 DEF Deltas
    <3>3. QED
      BY <3>1, <3>2
  <2>3. Vegas(m) \in [1..step.count -> Int]
    <3>1. ASSUME NEW i \in 1..step.count PROVE Vegas(m)[i] \in Int
      <4>1. PICK vega, now, past, weight \in Int :
              /\ vega = LastSeen(held[i].contract, m - 1).vega
              /\ now = LastSeen(held[i].contract, m).iv
              /\ past = LastSeen(held[i].contract, m - 1).iv
              /\ weight = Weight(held[i])
        BY <1>2, <1>5
      <4>2. vega * (now - past) * weight \in Int
        OBVIOUS
      <4>3. QED
        BY <1>1, <1>2, <4>1, <4>2 DEF Vegas
    <3>2. Vegas(m) = [i \in 1..step.count |-> Vegas(m)[i]]
      BY <1>1, <1>2 DEF Vegas
    <3>3. QED
      BY <3>1, <3>2
  <2>4. QED
    BY <2>1, <2>2, <2>3
<1>10. QED
  BY <1>3, <1>6, <1>7, <1>8, <1>9

\* The pass leaves the books of the replay as they are.
LEMMA BooksStand ==
  ASSUME LedgerInv, UNCHANGED <<mode, tape, beginStep, bookVars, settleVars>>,
         Settled' <=> Settled, Trading' <=> Trading, pc' = "carry" => pc = "carry",
         pc' # "failed" => pc # "failed"
  PROVE  /\ Identified' /\ Booked' /\ Rests' /\ Carries' /\ Marked' /\ Recorded' /\ Balanced'
         /\ Explained' /\ PnlExplained'
         /\ UNCHANGED <<books, working, cash, stepSlippage, stepFees, openFees, swept, carried,
                        log, inventory, trades, peak, prevEquity, marks, greeks, positions,
                        curve, steps, legs>>
<1>1. UNCHANGED <<books, working, cash, stepSlippage, stepFees, openFees, swept, carried, log,
                  inventory, trades, peak, prevEquity, marks, greeks, positions, curve, steps,
                  legs>>
  BY DEF bookVars, settleVars
<1>2. /\ Identified /\ Booked /\ Rests /\ Carries /\ Marked /\ Recorded /\ Balanced /\ Explained
      /\ PnlExplained
  BY DEF LedgerInv
<1>3. Identified' /\ Explained'
  BY <1>1, <1>2 DEF Identified, Explained, Stake
<1>4. Booked'
  BY <1>1, <1>2, SameTape DEF Booked
<1>5. Rests'
  <2>1. \A w : IsResting(w)' = IsResting(w)
    BY <1>1, SameTape DEF IsResting, LegOf
  <2>2. QED
    BY <1>1, <1>2, <2>1 DEF Rests
<1>6. Carries' /\ PnlExplained'
  BY <1>1, SameCarried
<1>7. Marked'
  <2>1. \A c, m : IsRetained(c, m)' = IsRetained(c, m)
    BY <1>1, SameTape DEF IsRetained
  <2>2. \A i : /\ IsRetained(inventory[i].contract, n)' = IsRetained(inventory[i].contract, n)
               /\ IsRetained(inventory[i].contract, n - 1)'
                    = IsRetained(inventory[i].contract, n - 1)
               /\ IsRetained(beginStep[i].contract, n - 1)'
                    = IsRetained(beginStep[i].contract, n - 1)
    BY <1>1, SameTape DEF IsRetained, Quoted, SeenIn, LastSeen
  <2>3. QED
    BY <1>1, <1>2, <2>2, SameTape DEF Marked
<1>8. Recorded'
  <2>1. /\ Records(inventory, n)' = Records(inventory, n)
        /\ Records(beginStep, n - 1)' = Records(beginStep, n - 1)
    BY <1>1, SameTape DEF Records, RowOf, LastSeen, SeenIn
  <2>2. \A m, i : Quoted(positions[m][i].contract, m)' = Quoted(positions[m][i].contract, m)
    BY <1>1 DEF Quoted, SeenIn
  <2>3. QED
    BY <1>1, <1>2, <2>1, <2>2, SameTape DEF Recorded
<1>9. Balanced'
  <2>1. /\ Worth(inventory, Mids(n))' = Worth(inventory, Mids(n))
        /\ Worth(beginStep, Mids(n))' = Worth(beginStep, Mids(n))
        /\ Worth(beginStep, Mids(n - 1))' = Worth(beginStep, Mids(n - 1))
    BY <1>1, SameTape DEF Worth
  <2>2. DriftAt(n)' = DriftAt(n)
    BY <1>1, SameTape DEF DriftAt, Drift
  <2>3. EquityAt(Len(steps))' = EquityAt(Len(steps))
    BY <1>1 DEF EquityAt
  <2>4. QED
    BY <1>1, <1>2, <2>1, <2>2, <2>3 DEF Balanced
<1>10. QED
  BY <1>1, <1>3, <1>4, <1>5, <1>6, <1>7, <1>8, <1>9

\* What the past's rows are compared with does not move.
LEMMA SameTerms ==
  ASSUME UNCHANGED <<tape, positions>>, NEW m
  PROVE  /\ TermsOf(m)'.theta = TermsOf(m).theta
         /\ TermsOf(m)'.delta = TermsOf(m).delta
         /\ TermsOf(m)'.vega = TermsOf(m).vega
<1>1. \A z : RowsAt(z)' = RowsAt(z)
  BY DEF RowsAt
<1>2. Thetas(m)' = Thetas(m) /\ Deltas(m)' = Deltas(m) /\ Vegas(m)' = Vegas(m)
  BY <1>1, SameTape DEF Thetas, Deltas, Vegas, Weight, Gap, Move
<1>3. /\ TermsOf(m)'.theta = RoundHalfEven(Sum(Thetas(m)'), 2)
      /\ TermsOf(m)'.delta = RoundHalfEven(Sum(Deltas(m)'), 2)
      /\ TermsOf(m)'.vega = RoundHalfEven(Sum(Vegas(m)'), 2)
  BY DEF TermsOf, MapSeq, Thetas, Deltas, Vegas, Gap, Move
<1>4. QED
  BY <1>2, <1>3, TermsAre

\* The residual closes the sum.
LEMMA ResidualCloses ==
  \A pnl, theta, delta, vega, spread, fees \in Int :
    pnl = theta + delta + vega + spread - fees
            + (pnl - (theta + delta + vega + spread - fees))
OBVIOUS

\* The next row: its terms are the tape's, and it closes the step's P&L.
Closes(m, row) ==
  /\ row \in Attributions
  /\ row.theta = TermsOf(m).theta /\ row.delta = TermsOf(m).delta /\ row.vega = TermsOf(m).vega
  /\ EquityAt(m) - EquityAt(m - 1)
       = row.theta + row.delta + row.vega + row.spread - row.fees + row.residual

LEMMA RowCloses ==
  ASSUME LedgerInv, NEW m \in Nat \ {0}, m = Len(rows) + 1, m <= Len(steps),
         NEW row, row = AttributeStep(steps[m], Slice(steps[m]))
  PROVE  Closes(m, row)
<1>1. PICK step \in Scalars : step = steps[m]
  <2>1. steps \in Seq(Scalars)
    BY DEF LedgerInv, Shape
  <2>2. m \in DOMAIN steps
    BY <2>1
  <2>3. QED
    BY <2>1, <2>2
<1>2. PICK slice : slice = Slice(step)
  OBVIOUS
<1>3. /\ ThetasIn(step, slice) = Thetas(m)
      /\ DeltasIn(step, slice) = Deltas(m)
      /\ VegasIn(step, slice) = Vegas(m)
      /\ \E z \in Nat : {Thetas(m), Deltas(m), Vegas(m)} \subseteq [1..z -> Int]
  BY <1>1, <1>2, TermsOfSlice
<1>4. Sum(Thetas(m)) \in Int /\ Sum(Deltas(m)) \in Int /\ Sum(Vegas(m)) \in Int
  <2>1. PICK z \in Nat : {Thetas(m), Deltas(m), Vegas(m)} \subseteq [1..z -> Int]
    BY <1>3
  <2>2. QED
    BY <2>1, SumType
<1>5. /\ row.theta = RoundHalfEven(Sum(Thetas(m)), 2)
      /\ row.delta = RoundHalfEven(Sum(Deltas(m)), 2)
      /\ row.vega = RoundHalfEven(Sum(Vegas(m)), 2)
      /\ row.spread = step.spread /\ row.fees = step.fees
      /\ row.residual = step.pnl - (row.theta + row.delta + row.vega + step.spread - step.fees)
      /\ row = [theta |-> row.theta, delta |-> row.delta, vega |-> row.vega,
                spread |-> row.spread, fees |-> row.fees, residual |-> row.residual]
  BY <1>1, <1>2, <1>3, AttributeIs
<1>6. row.theta \in Int /\ row.delta \in Int /\ row.vega \in Int
  BY <1>4, <1>5, RoundType
<1>7. step.spread \in Int /\ step.fees \in Int /\ step.pnl \in Int
  BY DEF Scalars
<1>8. row \in Attributions
  <2>1. row.spread \in Int /\ row.fees \in Int /\ row.residual \in Int
    BY <1>5, <1>6, <1>7
  <2>2. QED
    BY <1>5, <1>6, <2>1 DEF Attributions
<1>9. step.pnl = EquityAt(m) - EquityAt(m - 1)
  <2>1. m \in DOMAIN steps
    BY DEF LedgerInv, Shape
  <2>2. QED
    BY <1>1, <2>1 DEF LedgerInv, Sampled, IsSampled
<1>10. step.pnl = row.theta + row.delta + row.vega + row.spread - row.fees + row.residual
  <2>1. PICK p, a, b, c, d, e \in Int :
          /\ p = step.pnl /\ a = row.theta /\ b = row.delta /\ c = row.vega
          /\ d = step.spread /\ e = step.fees
    BY <1>6, <1>7
  <2>2. row.spread = d /\ row.fees = e /\ row.residual = p - (a + b + c + d - e)
    BY <1>5, <2>1
  <2>3. p = a + b + c + d - e + (p - (a + b + c + d - e))
    BY ResidualCloses
  <2>4. QED
    BY <2>1, <2>2, <2>3
<1>11. QED
  BY <1>5, <1>8, <1>9, <1>10, TermsAre DEF Closes

LEMMA AttributeKeeps ==
  ASSUME LedgerInv, Attribute
  PROVE  LedgerInv'
<1>1. /\ pc = "attribute" /\ pc' = pc /\ Len(rows) < Len(steps)
      /\ rows' = Append(rows, AttributeStep(steps[Len(rows) + 1], Slice(steps[Len(rows) + 1])))
      /\ offset' = offset + steps[Len(rows) + 1].count
      /\ UNCHANGED <<mode, tape, beginStep, bookVars, settleVars>>
  BY DEF Attribute
<1>2. Settled /\ Settled' /\ ~Trading /\ ~Trading'
  BY <1>1 DEF Settled, Trading
<1>3. /\ Identified' /\ Booked' /\ Rests' /\ Carries' /\ Marked' /\ Recorded' /\ Balanced'
      /\ Explained' /\ PnlExplained'
      /\ UNCHANGED <<books, working, cash, stepSlippage, stepFees, openFees, swept, carried, log,
                     inventory, trades, peak, prevEquity, marks, greeks, positions, curve, steps,
                     legs>>
  BY <1>1, <1>2, BooksStand
<1>4. /\ TypeOK /\ Shape /\ Counted /\ Sampled /\ TermsCoverHoldings
  BY DEF LedgerInv
<1>5. PICK m \in Nat \ {0} : m = Len(rows) + 1 /\ m <= Len(steps)
  BY <1>1, <1>4 DEF Shape
<1>6. PICK row : row = AttributeStep(steps[m], Slice(steps[m])) /\ rows' = Append(rows, row)
  BY <1>1, <1>5
<1>7. Closes(m, row)
  BY <1>5, <1>6, RowCloses
<1>8. /\ offset' = Off(m) /\ Off(m) \in Nat /\ Off(m) <= Len(legs)
  <2>1. PICK slice : slice = Slice(steps[m])
    OBVIOUS
  <2>2. offset + steps[m].count = Off(m) /\ Off(m) \in Nat /\ Off(m) <= Len(legs)
    BY <1>5, <2>1, SliceIs
  <2>3. QED
    BY <1>1, <1>5, <2>2
<1>9. /\ rows' \in Seq(Attributions) /\ Len(rows') = m /\ rows'[m] = row
      /\ \A j \in 1..(m - 1) : rows'[j] = rows[j] /\ j \in DOMAIN rows
  BY <1>4, <1>5, <1>6, <1>7 DEF Shape, Closes
<1>10. TypeOK'
  <2>1. offset' \in 0..Len(legs')
    <3>1. Len(legs) \in Nat
      BY <1>4 DEF Shape
    <3>2. QED
      BY <1>3, <1>8, <3>1
  <2>2. QED
    BY <1>1, <1>3, <1>4, <2>1 DEF TypeOK, Fits
<1>11. Shape'
  BY <1>1, <1>3, <1>4, <1>9, SameTape DEF Shape
<1>12. Counted'
  BY <1>1, <1>2, <1>3, <1>4, SameTape DEF Counted
<1>13. Sampled'
  <2>1. \A z : EquityAt(z)' = EquityAt(z) /\ RowsAt(z)' = RowsAt(z) /\ Off(z)' = Off(z)
    BY <1>3 DEF EquityAt, RowsAt, Off
  <2>2. \A z : IsSampled(z)' = IsSampled(z)
    <3>1. /\ \A c, z : Quoted(c, z)' = Quoted(c, z)
          /\ \A held, z : SampleOf(held, z)' = SampleOf(held, z)
      BY <1>1, SameTape
    <3>2. steps' = steps /\ legs' = legs
      BY <1>3
    <3>3. QED
      BY <2>1, <3>1, <3>2 DEF IsSampled
  <2>3. Off(Len(rows))' = Off(m)' /\ Off(Len(steps))' = Off(Len(steps))
    BY <1>3, <1>9 DEF Off
  <2>4. QED
    BY <1>3, <1>4, <1>5, <1>8, <1>9, <2>1, <2>2, <2>3 DEF Sampled
<1>14. TermsCoverHoldings'
  <2>1. DOMAIN rows' = 1..m /\ \A j \in 1..m : j \in 1..(m - 1) \/ j = m
    BY <1>9
  <2>2. \A j : TermsOf(j)'.theta = TermsOf(j).theta /\ TermsOf(j)'.delta = TermsOf(j).delta
               /\ TermsOf(j)'.vega = TermsOf(j).vega
    BY <1>1, <1>3, SameTerms
  <2>3. EquityAt(m) = curve[m].equity
        /\ EquityAt(m - 1) = (IF m = 1 THEN Capital ELSE curve[m - 1].equity)
    BY DEF EquityAt
  <2>4. QED
    BY <1>3, <1>4, <1>7, <1>9, <2>1, <2>2, <2>3 DEF TermsCoverHoldings, Closes
<1>15. QED
  BY <1>3, <1>10, <1>11, <1>12, <1>13, <1>14 DEF LedgerInv

\* The end of the pass, and a step that does nothing.
LEMMA RestsKeeps ==
  ASSUME LedgerInv, UNCHANGED <<mode, tape, beginStep, bookVars, settleVars, passVars>>,
         pc' = pc \/ (pc = "attribute" /\ pc' = "done")
  PROVE  LedgerInv'
<1>1. (Settled' <=> Settled) /\ (Trading' <=> Trading)
      /\ (pc' = "carry" => pc = "carry") /\ (pc' # "failed" => pc # "failed")
  BY DEF Settled, Trading
<1>2. /\ Identified' /\ Booked' /\ Rests' /\ Carries' /\ Marked' /\ Recorded' /\ Balanced'
      /\ Explained' /\ PnlExplained'
      /\ UNCHANGED <<books, working, cash, stepSlippage, stepFees, openFees, swept, carried, log,
                     inventory, trades, peak, prevEquity, marks, greeks, positions, curve, steps,
                     legs>>
  BY <1>1, BooksStand
<1>3. Sampled' /\ TermsCoverHoldings'
  BY SameTables
<1>4. TypeOK /\ Shape /\ Counted /\ UNCHANGED <<offset, rows>>
  BY DEF LedgerInv, passVars
<1>5. TypeOK'
  BY <1>2, <1>4 DEF TypeOK, Fits
<1>6. Shape'
  BY <1>2, <1>4, SameTape DEF Shape
<1>7. Counted'
  BY <1>1, <1>2, <1>4, SameTape DEF Counted
<1>8. QED
  BY <1>2, <1>3, <1>5, <1>6, <1>7 DEF LedgerInv

-----------------------------------------------------------------------------
(* Every step, and the theorems.                                           *)

LEMMA StepKeeps ==
  ASSUME LedgerInv, [Next]_vars
  PROVE  LedgerInv'
<1>0. Shape
  BY DEF LedgerInv
<1>1. CASE Advance
  <2>0. PICK quoted \in SUBSET Contracts :
          \E quotes \in [quoted -> UNION {Quotes[c] : c \in quoted}] :
            (\A c \in quoted : quotes[c] \in Quotes[c]) /\ NextSnapshot(quotes)
    BY <1>1 DEF Advance
  <2>1. PICK quotes \in [quoted -> UNION {Quotes[c] : c \in quoted}] :
          (\A c \in quoted : quotes[c] \in Quotes[c]) /\ NextSnapshot(quotes)
    BY <2>0
  <2>2. quotes \in Snapshots
    <3>1. DOMAIN quotes = quoted /\ \A c \in quoted : quotes[c] \in AllQuotes
      BY <2>1 DEF AllQuotes
    <3>2. quotes \in [quoted -> AllQuotes]
      BY <3>1
    <3>3. QED
      BY <2>1, <3>1, <3>2 DEF Snapshots
  <2>3. QED
    BY <2>1, <2>2, AdvanceKeeps
<1>2. CASE Carry
  BY <1>2, CarryKeeps
<1>3. CASE Open
  <2>1. PICK c \in DOMAIN Snapshot, side \in {"Long", "Short"}, qty \in 1..MaxQty[mode] :
          \E terms \in Terms(c, side) : SubmitOpen(c, side, qty, terms)
    BY <1>3 DEF Open
  <2>2. PICK terms \in Terms(c, side) : SubmitOpen(c, side, qty, terms)
    BY <2>1
  <2>3. side \in Sides /\ qty \in Nat \ {0} /\ pc = "trade"
    <3>1. mode \in DOMAIN MaxTrades
      BY <1>0 DEF Shape
    <3>2. QED
      BY <1>3, LedgerAssumption DEF Open, Sides
  <2>4. QED
    BY <2>2, <2>3, OpenKeeps
<1>4. CASE Close
  <2>1. PICK i \in DOMAIN inventory :
          \E qty \in 1..inventory[i].qty :
            /\ inventory[i].contract \in DOMAIN Snapshot
            /\ \E terms \in Terms(inventory[i].contract, Opposite(inventory[i].side)) :
                 SubmitClose(i, qty, terms)
    BY <1>4 DEF Close
  <2>2. PICK qty \in 1..inventory[i].qty :
            /\ inventory[i].contract \in DOMAIN Snapshot
            /\ \E terms \in Terms(inventory[i].contract, Opposite(inventory[i].side)) :
                 SubmitClose(i, qty, terms)
    BY <2>1
  <2>3. PICK terms \in Terms(inventory[i].contract, Opposite(inventory[i].side)) :
          SubmitClose(i, qty, terms)
    BY <2>2
  <2>4. inventory[i] \in Legs /\ pc = "trade"
    BY <1>0, <1>4 DEF Shape, Close
  <2>5. qty \in Nat \ {0} /\ qty <= inventory[i].qty
    BY <2>4, LegFacts
  <2>6. QED
    BY <2>2, <2>3, <2>4, <2>5, CloseKeeps
<1>5. CASE Unquoted
  BY <1>5, AbortKeeps DEF Unquoted
<1>6. CASE Settle
  BY <1>6, SettleKeeps
<1>7. CASE SettleAborts
  BY <1>7, AbortKeeps DEF SettleAborts
<1>8. CASE Attribute
  BY <1>8, AttributeKeeps
<1>9. CASE Finish
  BY <1>9, RestsKeeps DEF Finish
<1>10. CASE UNCHANGED vars
  BY <1>10, RestsKeeps DEF vars
<1>11. QED
  BY <1>1, <1>2, <1>3, <1>4, <1>5, <1>6, <1>7, <1>8, <1>9, <1>10 DEF Next

\* What the open rows would realise is what they are worth, less their stake.
LEMMA UnrealizedAre ==
  ASSUME Shape, NEW z \in Nat, z = n,
         \A i \in DOMAIN inventory : Quoted(inventory[i].contract, z),
         NEW held, held = [i \in DOMAIN inventory |-> RowOf(inventory[i], z)]
  PROVE  /\ Sum(MapSeq(LAMBDA row : row.unrealized, held))
              = Worth(inventory, Mids(z)) - Stake(inventory)
         /\ Worth(inventory, Mids(z)) \in Int /\ Stake(inventory) \in Int
         /\ Sum(MapSeq(LAMBDA row : row.unrealized, held)) \in Int
<1>1. PICK now : now = Mids(z)
  OBVIOUS
<1>2. Priced(inventory, now)
  BY <1>1, PricedIf DEF Shape
<1>3. PICK l \in Nat : DOMAIN inventory = 1..l
  BY <1>2, HoldingTypes
<1> DEFINE a == [i \in DOMAIN inventory |->
                   Notional(now[inventory[i].contract], inventory[i].qty, Multiplier,
                            inventory[i].side)]
           b == [i \in DOMAIN inventory |->
                   Notional(inventory[i].entry, inventory[i].qty, Multiplier,
                            inventory[i].side)]
           u == [i \in DOMAIN held |-> held[i].unrealized]
<1>4. ASSUME NEW i \in 1..l
      PROVE  a[i] \in Int /\ b[i] \in Int /\ u[i] \in Int /\ a[i] = b[i] + u[i]
  <2>1. PICK leg : leg = inventory[i]
    OBVIOUS
  <2>2. leg \in Legs /\ now[leg.contract] \in Int
    BY <1>2, <1>3, <2>1, HoldingTypes DEF Priced
  <2>3. PICK x, y \in Int : x = now[leg.contract] /\ y = leg.entry
    BY <2>2, LegFacts
  <2>4. PICK side \in Sides, qty \in Nat \ {0} : side = leg.side /\ qty = leg.qty
    BY <2>2, LegFacts
  <2>5. leg.contract \in Contracts
    BY <2>2, LegFacts
  <2>6. x = LastSeen(leg.contract, z).mid
    BY <1>1, <2>3, <2>5 DEF Mids
  <2>7. u[i] = Notional(x - y, qty, Multiplier, side)
    BY <1>3, <2>1, <2>3, <2>4, <2>6 DEF RowOf, UnrealizedCents
  <2>8. a[i] = Notional(x, qty, Multiplier, side) /\ b[i] = Notional(y, qty, Multiplier, side)
    BY <1>3, <2>1, <2>3, <2>4
  <2>9. PICK K \in Int : K = Multiplier * SideSign(side)
    BY NotionalIs
  <2>10. qty \in Int /\ x - y \in Int
    OBVIOUS
  <2>11. /\ Notional(x, qty, Multiplier, side) = (x * qty) * K
         /\ Notional(y, qty, Multiplier, side) = (y * qty) * K
         /\ Notional(x - y, qty, Multiplier, side) = ((x - y) * qty) * K
    BY <2>9, <2>10, NotionalIs
  <2>12. PICK p, q \in Int : p = x * qty /\ q = y * qty
    OBVIOUS
  <2>13. (x - y) * qty = p - q
    BY <2>12
  <2>14. (p - q) * K = p * K - q * K /\ p * K \in Int /\ q * K \in Int
    OBVIOUS
  <2>15. a[i] = p * K /\ b[i] = q * K /\ u[i] = (p - q) * K
    BY <2>7, <2>8, <2>11, <2>12, <2>13
  <2>16. PICK v, w \in Int : v = p * K /\ w = q * K
    OBVIOUS
  <2>17. a[i] = v /\ b[i] = w /\ u[i] = v - w
    BY <2>14, <2>15, <2>16
  <2> HIDE DEF a, b, u
  <2>18. QED
    BY <2>17
<1>5. DOMAIN a = 1..l /\ DOMAIN b = 1..l /\ DOMAIN u = 1..l
  BY <1>3
<1>6. a = [i \in 1..l |-> a[i]] /\ b = [i \in 1..l |-> b[i]] /\ u = [i \in 1..l |-> u[i]]
  BY <1>3, <1>5
<1>7. /\ Worth(inventory, now) = Sum(a) /\ Stake(inventory) = Sum(b)
      /\ Sum(MapSeq(LAMBDA row : row.unrealized, held)) = Sum(u)
  BY DEF Worth, Stake, MapSeq
<1> HIDE DEF a, b, u
<1>8. b \in [1..l -> Int] /\ u \in [1..l -> Int]
  BY <1>4, <1>6
<1>9. Sum(a) = Sum(b) + Sum(u)
  <2>1. PICK f, s, t : f = a /\ s = b /\ t = u
    OBVIOUS
  <2>2. s \in [1..l -> Int] /\ t \in [1..l -> Int]
    BY <1>8, <2>1
  <2>3. DOMAIN f = 1..l /\ \A i \in 1..l : f[i] = s[i] + t[i]
    BY <1>4, <1>5, <2>1
  <2>4. Sum(f) = Sum(s) + Sum(t)
    <3>1. AddUp(f, s, t, l)
      BY <2>2, <2>3 DEF AddUp
    <3>2. QED
      BY <1>3, <3>1, SumAddsUp
  <2>5. QED
    BY <2>1, <2>4
<1>10. Sum(b) \in Int /\ Sum(u) \in Int
  BY <1>8, SumType
<1>11. Sum(a) \in Int
  BY <1>9, <1>10
<1>12. QED
  BY <1>1, <1>7, <1>9, <1>10, <1>11

\* The three books agree whenever the invariant holds.
LEMMA InvReconciles ==
  ASSUME LedgerInv
  PROVE  BooksReconcile
<1> SUFFICES ASSUME Settled, n > 0
             PROVE  BooksReconcile
  BY DEF BooksReconcile, Settled
<1>1. /\ Shape /\ Counted /\ Marked /\ Recorded /\ Balanced /\ Explained
  BY DEF LedgerInv
<1>2. PICK z \in Nat \ {0} : z = n
  BY <1>1, TapeFacts
<1>3. \A i \in DOMAIN inventory : Quoted(inventory[i].contract, z)
  BY <1>1, <1>2, QuotedLegs
<1>4. PICK held : held = positions[z] /\ held = [i \in DOMAIN inventory |-> RowOf(inventory[i], z)]
  BY <1>1, <1>2 DEF Recorded, Records
<1>5. StaleIsLast(n)
  <2>1. ASSUME NEW i \in DOMAIN positions[n]
        PROVE  /\ positions[n][i].mark = LastSeen(positions[n][i].contract, n).mid
               /\ positions[n][i].stale <=> positions[n][i].contract \notin DOMAIN tape[n]
               /\ positions[n][i].stale => Days[n] < Expiry[positions[n][i].contract]
    <3>1. i \in DOMAIN inventory /\ positions[n][i] = RowOf(inventory[i], n)
      BY <1>2, <1>4
    <3>2. /\ positions[n][i].contract = inventory[i].contract
          /\ positions[n][i].mark = LastSeen(inventory[i].contract, n).mid
          /\ positions[n][i].stale <=> inventory[i].contract \notin DOMAIN tape[n]
      <4>1. PICK leg : leg = inventory[i]
        OBVIOUS
      <4>2. /\ RowOf(leg, n).contract = leg.contract
            /\ RowOf(leg, n).mark = LastSeen(leg.contract, n).mid
        BY DEF RowOf
      <4>3. RowOf(leg, n).stale <=> leg.contract \notin DOMAIN tape[n]
        BY Zenon DEF RowOf
      <4>4. QED
        BY <3>1, <4>1, <4>2, <4>3
    <3>3. inventory[i].contract \notin DOMAIN tape[n] => Days[n] < Expiry[inventory[i].contract]
      BY <1>1, <3>1 DEF Recorded
    <3>4. QED
      BY <3>2, <3>3
  <2>2. QED
    BY <2>1 DEF StaleIsLast
<1>6. PICK W, S, U \in Int :
        /\ W = Worth(inventory, Mids(z)) /\ S = Stake(inventory)
        /\ U = Sum(MapSeq(LAMBDA row : row.unrealized, held)) /\ U = W - S
  BY <1>1, <1>2, <1>3, <1>4, UnrealizedAre
<1>7. curve[n].equity = cash + W
  <2>1. Len(steps) = z /\ pc # "failed"
    BY <1>1, <1>2 DEF Counted, Settled
  <2>2. prevEquity = EquityAt(z) /\ cash + W = prevEquity
    BY <1>1, <1>2, <1>6, <2>1 DEF Balanced
  <2>3. QED
    BY <1>2, <2>2 DEF EquityAt
<1>8. PICK L, O, c, a, s \in Int :
        /\ L = Sum(log) /\ O = openFees /\ c = cash /\ a = Capital /\ s = Multiplier * swept
  <2>1. Sum(log) \in Int /\ openFees \in Int /\ cash \in Int /\ Capital \in Int
    BY LogType, MoneyTypes, LedgerAssumption
  <2>2. Multiplier * swept \in Int
    <3>1. Multiplier \in Int /\ swept \in Int
      BY MoneyTypes, LedgerAssumption
    <3>2. QED
      BY <3>1
  <2>3. QED
    BY <2>1, <2>2
<1>9. 2 * (c + S - a - L + O) \in -s..s
  BY <1>1, <1>6, <1>8 DEF Explained
<1>10. (c + W - a) - (L + U - O) = c + S - a - L + O
  BY <1>6
<1>11. Sum(MapSeq(LAMBDA row : row.unrealized, positions[n])) = U
  BY <1>2, <1>4, <1>6
<1>12. 2 * ((curve[n].equity - Capital)
              - (Sum(log) + Sum(MapSeq(LAMBDA row : row.unrealized, positions[n])) - openFees))
         \in -(Multiplier * swept)..(Multiplier * swept)
  BY <1>7, <1>8, <1>9, <1>10, <1>11
<1>13. QED
  BY <1>5, <1>12 DEF BooksReconcile

-----------------------------------------------------------------------------
(* The theorems.                                                           *)

LEMMA LedgerAlways == Spec => []LedgerInv
<1>1. LedgerInv /\ [Next]_vars => LedgerInv'
  BY StepKeeps
<1>2. QED
  BY <1>1, LedgerInit, PTL DEF Spec

\* Every amount the ledger keeps in Cents fits an i64, the tables have one entry
\* per settled step, and the attribution cursor stays in the leg buffer: the
\* checked arithmetic of apply_fill and settle leaves no other amount behind.
THEOREM LedgerTyped == Spec => []TypeOK
<1>1. LedgerInv => TypeOK
  BY DEF LedgerInv
<1>2. QED
  BY <1>1, LedgerAlways, PTL

\* After every settlement the equity gained is what the closes realised and what
\* the open rows would realise, less the opening fees, but for half a cent per
\* contract of an average over several fills; and each row is at the last mid
\* on the tape, stale exactly when its contract is not quoted, never past its
\* expiry (Ledger::settle, resolve_mark, record_close, collect_step).
THEOREM BooksAlwaysReconcile == Spec => []BooksReconcile
<1>1. LedgerInv => BooksReconcile
  BY InvReconciles
<1>2. QED
  BY <1>1, LedgerAlways, PTL

\* The P&L of every step is the moves of the mids under the legs it began with,
\* the drift of orders that had been resting, and the slippage and fees of its
\* fills, to the cent (Ledger::apply_fill and settle).
THEOREM PnlAlwaysExplained == Spec => []PnlExplained
<1>1. LedgerInv => PnlExplained
  BY DEF LedgerInv
<1>2. QED
  BY <1>1, LedgerAlways, PTL

\* Every attribution row has the theta, delta and vega of the position rows of
\* the step before at the last Greeks on the tape, rounded once each, and its
\* residual closes the P&L of the equity curve (attribute_step, the cursor of
\* attribute over the flat leg buffer).
THEOREM TermsAlwaysCover == Spec => []TermsCoverHoldings
<1>1. LedgerInv => TermsCoverHoldings
  BY DEF LedgerInv
<1>2. QED
  BY <1>1, LedgerAlways, PTL
-----------------------------------------------------------------------------
(* The order of the legs of a spec.                                        *)

\* The lexicographic order of the keys is total and transitive.
LEMMA LexOrder ==
  ASSUME NEW w \in Nat, NEW a \in [1..w -> Int], NEW b \in [1..w -> Int],
         NEW c \in [1..w -> Int]
  PROVE  /\ ~LexLess(a, a)
         /\ a # b => LexLess(a, b) \/ LexLess(b, a)
         /\ LexLess(a, b) /\ LexLess(b, c) => LexLess(a, c)
         /\ ~(LexLess(a, b) /\ LexLess(b, a))
<1>1. ~LexLess(a, a)
  <2>1. DOMAIN a = 1..w /\ \A i \in 1..w : ~(a[i] < a[i])
    <3>1. \A i \in 1..w : a[i] \in Int
      OBVIOUS
    <3>2. QED
      BY <3>1
  <2>2. ASSUME LexLess(a, a) PROVE FALSE
    <3>1. PICK i \in DOMAIN a : a[i] < a[i]
      BY <2>2 DEF LexLess
    <3>2. QED
      BY <2>1, <3>1
  <2>3. QED
    BY <2>2
<1>2. ASSUME a # b PROVE LexLess(a, b) \/ LexLess(b, a)
  <2> DEFINE S == {i \in 1..w : a[i] # b[i]}
  <2>1. S \in SUBSET Nat /\ S # {}
    <3>1. ASSUME S = {} PROVE FALSE
      <4>1. \A i \in 1..w : a[i] = b[i]
        BY <3>1
      <4>2. a = [i \in 1..w |-> a[i]] /\ b = [i \in 1..w |-> b[i]]
        OBVIOUS
      <4>3. QED
        BY <1>2, <4>1, <4>2
    <3>2. QED
      BY <3>1
  <2>2. PICK x \in S : \A y \in S : x <= y
    BY <2>1, LeastIs
  <2>3. x \in 1..w /\ a[x] # b[x] /\ \A y \in 1..w : a[y] # b[y] => x <= y
    BY <2>2
  <2>4. \A y \in 1..(x - 1) : a[y] = b[y]
    <3>1. ASSUME NEW y \in 1..(x - 1) PROVE a[y] = b[y]
      <4>1. y \in 1..w /\ ~(x <= y)
        BY <2>3
      <4>2. QED
        BY <2>3, <4>1
    <3>2. QED
      BY <3>1
  <2>5. a[x] < b[x] \/ b[x] < a[x]
    BY <2>3
  <2>6. x \in DOMAIN a /\ x \in DOMAIN b
    BY <2>3
  <2>7. QED
    BY <2>4, <2>5, <2>6 DEF LexLess
<1>3. ASSUME NEW d \in [1..w -> Int], LexLess(a, b), LexLess(b, d) PROVE LexLess(a, d)
  <2>1. PICK i \in 1..w : a[i] < b[i] /\ \A j \in 1..(i - 1) : a[j] = b[j]
    BY <1>3 DEF LexLess
  <2>2. PICK j \in 1..w : b[j] < d[j] /\ \A l \in 1..(j - 1) : b[l] = d[l]
    BY <1>3 DEF LexLess
  <2>3. PICK x \in 1..w : x = IF i < j THEN i ELSE j
    OBVIOUS
  <2>4. x <= i /\ x <= j
    BY <2>3
  <2>5. \A l \in 1..(x - 1) : l \in 1..(i - 1) /\ l \in 1..(j - 1)
    BY <2>4
  <2>6. \A l \in 1..(x - 1) : a[l] = d[l]
    BY <2>1, <2>2, <2>5
  <2>7. a[x] < d[x]
    <3>1. a[x] \in Int /\ b[x] \in Int /\ d[x] \in Int
      OBVIOUS
    <3>2. CASE i < j
      <4>1. x = i /\ i \in 1..(j - 1)
        BY <2>3, <3>2
      <4>2. QED
        BY <2>1, <2>2, <4>1
    <3>3. CASE i = j
      BY <2>1, <2>2, <2>3, <3>1, <3>3
    <3>4. CASE j < i
      <4>1. x = j /\ j \in 1..(i - 1)
        BY <2>3, <3>4
      <4>2. QED
        BY <2>1, <2>2, <4>1
    <3>5. QED
      BY <3>2, <3>3, <3>4
  <2>8. x \in DOMAIN a
    OBVIOUS
  <2>9. QED
    BY <2>6, <2>7, <2>8 DEF LexLess
<1>4. ~(LexLess(a, b) /\ LexLess(b, a))
  BY <1>1, <1>3
<1>5. QED
  BY <1>1, <1>2, <1>3, <1>4

\* Ties go by place, so that no two elements share one.
AreKeys(keys, N, w) == \A i \in 1..N : keys[i] \in [1..w -> Int]
AreBefore(U, keys, N) == U = [j \in 1..N |-> {i \in 1..N : NotAfter(keys, i, j)}]

LEMMA StableOrder ==
  ASSUME NEW N \in Nat, NEW w \in Nat, NEW keys, AreKeys(keys, N, w),
         NEW U, AreBefore(U, keys, N)
  PROVE  Chain(U, 1..N)
<1> USE DEF AreKeys, AreBefore
<1>1. \A i \in 1..N : U[i] \in SUBSET (1..N) /\ i \in U[i]
  BY DEF NotAfter
<1>2. ASSUME NEW i \in 1..N, NEW j \in 1..N, i # j, NotAfter(keys, i, j)
      PROVE  U[i] \subseteq U[j] /\ j \notin U[i]
  <2>1. ASSUME NEW l \in U[i] PROVE l \in U[j]
    <3>1. l \in 1..N /\ NotAfter(keys, l, i)
      BY <2>1
    <3>2. keys[l] \in [1..w -> Int] /\ keys[i] \in [1..w -> Int] /\ keys[j] \in [1..w -> Int]
      BY <3>1
    <3>3. LexLess(keys[l], keys[i]) /\ LexLess(keys[i], keys[j]) => LexLess(keys[l], keys[j])
      BY <3>2, LexOrder
    <3>4. NotAfter(keys, l, j)
      BY <1>2, <3>1, <3>3 DEF NotAfter
    <3>5. QED
      BY <3>1, <3>4
  <2>2. ASSUME j \in U[i] PROVE FALSE
    <3>1. NotAfter(keys, j, i)
      BY <2>2
    <3>2. keys[i] \in [1..w -> Int] /\ keys[j] \in [1..w -> Int]
      OBVIOUS
    <3>3. ~LexLess(keys[i], keys[i]) /\ ~(LexLess(keys[i], keys[j]) /\ LexLess(keys[j], keys[i]))
      BY <3>2, LexOrder
    <3>4. keys[i] = keys[j] /\ i <= j /\ j <= i
      BY <1>2, <3>1, <3>3 DEF NotAfter
    <3>5. QED
      BY <1>2, <3>4
  <2>3. QED
    BY <2>1, <2>2
<1>3. ASSUME NEW i \in 1..N, NEW j \in 1..N, ~NotAfter(keys, i, j) PROVE NotAfter(keys, j, i)
  <2>1. keys[i] \in [1..w -> Int] /\ keys[j] \in [1..w -> Int]
    OBVIOUS
  <2>2. keys[i] # keys[j] => LexLess(keys[i], keys[j]) \/ LexLess(keys[j], keys[i])
    BY <2>1, LexOrder
  <2>3. QED
    BY <1>3, <2>2 DEF NotAfter
<1>4. ASSUME NEW i \in 1..N, NEW j \in 1..N, i # j
      PROVE  \/ U[i] \subseteq U[j] /\ j \notin U[i]
             \/ U[j] \subseteq U[i] /\ i \notin U[j]
  <2>1. CASE NotAfter(keys, i, j)
    BY <1>2, <1>4, <2>1
  <2>2. CASE ~NotAfter(keys, i, j)
    BY <1>2, <1>3, <1>4, <2>2
  <2>3. QED
    BY <2>1, <2>2
<1> HIDE DEF AreKeys, AreBefore
<1>5. QED
  BY <1>1, <1>4 DEF Chain

\* The legs of a spec, sorted: the same legs.
LEMMA KeyType ==
  ASSUME NEW leg \in LegSpecs
  PROVE  LegKey(leg) \in [1..8 -> Int]
<1>1. /\ leg.exp[1] \in Int /\ leg.exp[2] \in Int /\ leg.strike \in Int /\ leg.qty \in Int
      /\ leg.iv[1] \in Int /\ leg.iv[2] \in Int
  <2>1. leg.exp \in {0} \X Nat \/ leg.exp \in {1} \X Int
    BY DEF LegSpecs
  <2>2. leg.exp[1] \in Int /\ leg.exp[2] \in Int
    BY <2>1
  <2>3. leg.iv \in Int \X Int
    BY DEF LegSpecs
  <2>4. leg.strike \in Int /\ leg.qty \in Int
    BY DEF LegSpecs
  <2>5. QED
    BY <2>2, <2>3, <2>4
<1>2. (IF leg.style = "Call" THEN 0 ELSE 1) \in Int /\ (IF leg.side = "Long" THEN 0 ELSE 1) \in Int
  OBVIOUS
<1>3. QED
  BY <1>1, <1>2 DEF LegKey

LEMMA SortedLegs ==
  ASSUME NEW s \in Seq(LegSpecs)
  PROVE  /\ SortBy(LegKey, s) \in Seq(LegSpecs) /\ Len(SortBy(LegKey, s)) = Len(s)
         /\ \E p : Lists(p, Len(s), 1..Len(s)) /\ \A i \in 1..Len(s) : SortBy(LegKey, s)[i] = s[p[i]]
<1>1. PICK N \in Nat : N = Len(s) /\ DOMAIN s = 1..N
  OBVIOUS
<1>2. PICK keys : keys = MapSeq(LegKey, s)
  OBVIOUS
<1>3. PICK w \in Nat : w = 8 /\ AreKeys(keys, N, w)
  <2>1. ASSUME NEW i \in 1..N PROVE keys[i] \in [1..8 -> Int]
    <3>1. PICK leg \in LegSpecs : leg = s[i]
      BY <1>1
    <3>2. keys[i] = LegKey(leg)
      BY <1>1, <1>2, <3>1 DEF MapSeq
    <3>3. LegKey(leg) \in [1..8 -> Int]
      BY KeyType
    <3>4. QED
      BY <3>2, <3>3
  <2>2. QED
    BY <2>1 DEF AreKeys
<1>4. PICK U : AreBefore(U, keys, N)
  BY DEF AreBefore
<1>5. Chain(U, 1..N)
  BY <1>3, <1>4, StableOrder
<1>6. IsFiniteSet(1..N) /\ Cardinality(1..N) = N
  BY FS_Interval
<1>7. PICK p : IsPlacing(p, U, 1..N)
  BY DEF IsPlacing
<1>8. Lists(p, N, 1..N)
  <2>1. PICK D : D = 1..N
    OBVIOUS
  <2>2. Lists(p, Cardinality(D), D)
    BY <1>5, <1>6, <1>7, <2>1, ByPlace
  <2>3. QED
    BY <1>6, <2>1, <2>2
<1>9. SortBy(LegKey, s) = [r \in 1..N |-> s[p[r]]]
  <2>1. ASSUME NEW r \in 1..N
        PROVE  p[r] = CHOOSE i \in 1..N : Cardinality({j \in 1..N : NotAfter(keys, j, i)}) = r
    <3>1. p[r] = CHOOSE i \in 1..N : Cardinality(U[i]) = r
      BY <1>6, <1>7 DEF IsPlacing
    <3>2. \A i \in 1..N : U[i] = {j \in 1..N : NotAfter(keys, j, i)}
      BY <1>4 DEF AreBefore
    <3>3. QED
      BY <3>1, <3>2
  <2>2. SortBy(LegKey, s) =
          [r \in 1..N |-> s[CHOOSE i \in 1..N :
                               Cardinality({j \in 1..N : NotAfter(keys, j, i)}) = r]]
    BY <1>1, <1>2 DEF SortBy
  <2>3. QED
    BY <2>1, <2>2
<1>10. p \in [1..N -> 1..N]
  BY <1>8 DEF Lists
<1>11. PICK t : t = SortBy(LegKey, s)
  OBVIOUS
<1>12. t \in [1..N -> LegSpecs] /\ \A i \in 1..N : t[i] = s[p[i]]
  BY <1>1, <1>9, <1>10, <1>11
<1>13. t \in Seq(LegSpecs) /\ Len(t) = N
  BY <1>12, SeqDef, LenProperties
<1>14. QED
  BY <1>1, <1>8, <1>11, <1>12, <1>13
-----------------------------------------------------------------------------
(* The inductive invariant of a session.                                   *)

Stages ==
  {"new", "run", "start", "open", "decide", "apply", "analysed", "published", "again",
   "altered", "over"}
InStep == stage \in {"start", "open", "decide", "apply"}
Built == stage \in {"analysed", "published", "again", "altered"}

SessionTyped ==
  /\ mode = "naive" /\ working = <<>> /\ stage \in Stages
  /\ script \in Scripts /\ spec \in Specs /\ policy \in Policies
  /\ tape \in Seq(Snapshots) /\ n <= Len(Days)
  /\ inventory \in Seq(Legs) /\ trades \in Nat
  /\ IsArray(cmds) /\ k \in Nat \ {0} /\ exitsEnd \in Nat
  /\ IsArray(fills) /\ IsArray(closed) /\ IsArray(terminals)

\* What the stage says of the ledger's phase, and of what there is so far.
Phased ==
  /\ stage = "new" => pc = "step" /\ n = 0
  /\ stage = "run" => pc \in {"step", "attribute"}
  /\ InStep => pc = "trade" /\ n > 0
  /\ stage \in {"start", "open"} => n = 1
  /\ Built => pc \in {"attribute", "done"}
  /\ stage # "over" => error = "none"
  /\ stage = "over" /\ error # "collision" => pc = "failed"
  /\ error # "not open"
  /\ n = 0 \/ stage = "start" => inventory = <<>> /\ fills = <<>> /\ closed = <<>> /\ terminals = <<>>
  /\ pc \in {"attribute", "done"} /\ spec.kind # "Caller" => inventory = <<>>

\* A position id is the number of the order that opened it; a leg closed in
\* full has one row and is not in the inventory.
Numbered ==
  /\ Identified
  /\ trades = Len(fills)
  /\ \A i \in DOMAIN terminals :
       /\ terminals[i].position \in Nat /\ terminals[i].position < trades
       /\ \A j \in DOMAIN inventory : inventory[j].id # terminals[i].position
  /\ \A i, j \in DOMAIN terminals : terminals[i].position = terminals[j].position => i = j

\* The retained mark of a leg is the last mid on the tape.
MarkHolds(c, m) == Quoted(c, m) /\ c \in DOMAIN marks /\ marks[c] = LastSeen(c, m).mid
MarksHold ==
  /\ stage = "run" => \A i \in DOMAIN inventory : MarkHolds(inventory[i].contract, n)
  /\ InStep => \A i \in DOMAIN inventory :
       inventory[i].contract \in DOMAIN Snapshot \/ MarkHolds(inventory[i].contract, n - 1)

\* The i-th fill opens the i-th leg of the strategy.
OpensAs(f, leg, i) ==
  /\ f.order = i - 1 /\ f.position = i - 1
  /\ f.side = leg.side /\ f.qty = leg.qty
  /\ f.contract.strike = leg.strike /\ f.contract.style = leg.style
  /\ spec.kind = "Legs" => f.contract.expiration = DueDay(leg)
Entering == \A i \in DOMAIN fills : OpensAs(fills[i], EngineLegs(spec)[i], i)
Entered ==
  /\ Len(EngineLegs(spec)) <= Len(fills)
  /\ \A i \in 1..Len(EngineLegs(spec)) : OpensAs(fills[i], EngineLegs(spec)[i], i)
  /\ \A i \in DOMAIN fills : i > Len(EngineLegs(spec)) => fills[i].order # fills[i].position
Enters ==
  /\ stage = "open" =>
       /\ ~EntryFails(spec) /\ cmds = Entries(spec)
       /\ Len(fills) = k - 1 /\ k <= Len(cmds) + 1 /\ Entering
  /\ stage # "open" => fills = <<>> \/ error = "arithmetic" \/ Entered

\* The queue of a step from its k-th command on: full closes of different legs,
\* those of the exits first; all of the legs at the last step.
Waiting == k..Len(cmds)
Orders(i, j) ==
  /\ cmds[i] = CloseCommand(inventory[j], inventory[j].qty)
  /\ inventory[j].contract \in DOMAIN Snapshot
  /\ i <= exitsEnd <=> TriggeredOnTape(inventory[j])
Queued ==
  stage = "apply" =>
    /\ onEndStart = exitsEnd
    /\ \A i \in Waiting : \E j \in DOMAIN inventory : Orders(i, j)
    /\ \A i, j \in Waiting : cmds[i].id = cmds[j].id => i = j
    /\ n = Len(Days) /\ spec.kind # "Caller" =>
         \A j \in DOMAIN inventory : \E i \in Waiting : Orders(i, j)

\* What the exits closed, of this step and of those before.
ExitsAre ==
  k = 1 /\ (stage = "apply" \/ error = "quote") /\ spec.kind # "Caller" =>
    {cmds[i].id : i \in 1..exitsEnd}
      = {inventory[i].id : i \in {j \in DOMAIN inventory : TriggeredOnTape(inventory[j])}}
Justified ==
  /\ \A i \in DOMAIN closed : closed[i].step \in 0..n
  /\ stage \in {"start", "open", "decide"} => \A i \in DOMAIN closed : closed[i].step < n
  /\ stage = "apply" =>
       \A i \in DOMAIN closed : closed[i].step = n =>
         (closed[i].reason = "end_of_data" <=> ~TriggeredOnTape(closed[i]))

SessionInv ==
  /\ SessionTyped /\ Phased /\ Numbered /\ MarksHold /\ Enters /\ Queued
  /\ ExitsAre /\ Justified
-----------------------------------------------------------------------------
-----------------------------------------------------------------------------
(* What the exits and the flatten queue.                                   *)

LEMMA SameJudged ==
  ASSUME UNCHANGED <<tape, policy>>
  PROVE  \A leg : TriggeredOnTape(leg)' = TriggeredOnTape(leg)
<1>1. n' = n /\ \A c : LastSeen(c, n)' = LastSeen(c, n)
  BY SameTape
<1>2. \A c : DaysLeft(c)' = DaysLeft(c)
  BY <1>1 DEF DaysLeft
<1>3. QED
  BY <1>1, <1>2 DEF TriggeredOnTape, TriggeredFor

\* The policy judges a leg by its contract, entry and side.
LEMMA JudgedAlike ==
  ASSUME NEW a, NEW b, a.contract = b.contract, a.entry = b.entry, a.side = b.side
  PROVE  TriggeredOnTape(a) <=> TriggeredOnTape(b)
BY DEF TriggeredOnTape, TriggeredFor

LEMMA ReasonIsNot == PolicyReason(policy) # "end_of_data"
BY DEF PolicyReason

\* CurrentPremium is the last mid on the tape.
LEMMA PremiumIs ==
  ASSUME SessionInv, InStep, NEW j \in DOMAIN inventory
  PROVE  CurrentPremium(inventory[j]) = LastSeen(inventory[j].contract, n).mid
<1>1. PICK c : c = inventory[j].contract
  OBVIOUS
<1>2. n \in Nat \ {0} /\ (c \in DOMAIN Snapshot \/ MarkHolds(c, n - 1))
  <2>1. n \in Nat
    BY DEF n, SessionInv, SessionTyped
  <2>2. n > 0
    BY DEF SessionInv, Phased
  <2>3. c \in DOMAIN Snapshot \/ MarkHolds(c, n - 1)
    BY <1>1 DEF SessionInv, MarksHold
  <2>4. QED
    BY <2>1, <2>2, <2>3
<1>3. CASE c \in DOMAIN Snapshot
  <2>1. LastSeen(c, n) = Snapshot[c]
    BY <1>2, <1>3, LastSeenNow DEF Snapshot
  <2>2. QED
    BY <1>1, <1>3, <2>1 DEF CurrentPremium
<1>4. CASE c \notin DOMAIN Snapshot
  <2>1. LastSeen(c, n) = LastSeen(c, n - 1)
    BY <1>2, <1>4, LastSeenBefore DEF Snapshot
  <2>2. c \in DOMAIN marks /\ marks[c] = LastSeen(c, n - 1).mid
    BY <1>2, <1>4 DEF MarkHolds
  <2>3. QED
    BY <1>1, <1>4, <2>1, <2>2 DEF CurrentPremium
<1>5. QED
  BY <1>3, <1>4

\* Commands that close some of the legs in full, each once.
FullClose(j) == CloseCommand(inventory[j], inventory[j].qty)
FullCloses(e, H) ==
  \E m, p : m \in Nat /\ Lists(p, m, H) /\ e = [r \in 1..m |-> FullClose(p[r])]

LEMMA ExitsIs ==
  ASSUME SessionInv, InStep,
         NEW H, H = {j \in DOMAIN inventory : TriggeredOnTape(inventory[j])}
  PROVE  FullCloses(Exits(policy), H)
<1> DEFINE hits == {i \in DOMAIN inventory :
                      TriggeredFor(policy, inventory[i], CurrentPremium(inventory[i]))}
           left == Filter(inventory, LAMBDA leg : TriggeredFor(policy, leg, CurrentPremium(leg)))
<1>1. PICK N \in Nat : DOMAIN inventory = 1..N
  BY DEF SessionInv, SessionTyped
<1>2. hits = H
  BY PremiumIs DEF TriggeredOnTape
<1>3. left = Passing(inventory, hits)
  BY DEF Filter, Passing
<1>4. Exits(policy) = [r \in DOMAIN left |-> CloseCommand(left[r], left[r].qty)]
  BY DEF Exits, MapSeq
<1> HIDE DEF hits, left
<1>5. left = Passing(inventory, H)
  BY <1>2, <1>3
<1>6. H \in SUBSET (1..N)
  BY <1>1
<1>7. PICK m, p : m \in Nat /\ Lists(p, m, H) /\ Passing(inventory, H) = [r \in 1..m |-> inventory[p[r]]]
  <2>1. KeepsEach(inventory, H)
    BY <1>6, FilterLists
  <2>2. QED
    BY <2>1 DEF KeepsEach
<1>8. left = [r \in 1..m |-> inventory[p[r]]]
  BY <1>5, <1>7
<1>9. Exits(policy) = [r \in 1..m |-> FullClose(p[r])]
  <2>1. DOMAIN left = 1..m /\ \A r \in 1..m : left[r] = inventory[p[r]]
    BY <1>8
  <2>2. Exits(policy) = [r \in 1..m |-> CloseCommand(left[r], left[r].qty)]
    BY <1>4, <2>1
  <2>3. \A r \in 1..m : CloseCommand(left[r], left[r].qty) = FullClose(p[r])
    BY <2>1 DEF FullClose
  <2>4. QED
    BY <2>2, <2>3
<1>10. m \in Nat /\ Lists(p, m, H)
  BY <1>7
<1>11. QED
  BY <1>9, <1>10 DEF FullCloses

LEMMA ZeroSum ==
  ASSUME NEW m \in Nat, NEW s, s = [r \in 1..m |-> 0]
  PROVE  s \in [1..m -> Int] /\ Sum(s) = 0
<1>1. s \in [1..m -> Int] /\ DOMAIN s = 1..m /\ \A i \in 1..m : s[i] = 0 * s[i]
  OBVIOUS
<1>2. Sum(s) = 0 * Sum(s)
  BY <1>1, SumScaled
<1>3. Sum(s) \in Int
  BY <1>1, SumType
<1>4. QED
  BY <1>1, <1>2, <1>3

\* What the queue closes of a leg.
LEMMA ScheduledIs ==
  ASSUME inventory \in Seq(Legs), Identified, NEW H \in SUBSET (DOMAIN inventory),
         NEW e, FullCloses(e, H), NEW j \in DOMAIN inventory
  PROVE  ScheduledCloseQty(e, inventory[j].id) = IF j \in H THEN inventory[j].qty ELSE 0
<1>1. PICK m, p : m \in Nat /\ Lists(p, m, H) /\ e = [r \in 1..m |-> FullClose(p[r])]
  BY DEF FullCloses
<1>2. PICK id : id = inventory[j].id
  OBVIOUS
<1>3. PICK qty \in Nat : qty = inventory[j].qty
  BY LegFacts
<1> DEFINE s == MapSeq(LAMBDA cmd : IF cmd.action = "close" /\ cmd.id = id THEN cmd.qty ELSE 0, e)
           zero == [r \in 1..m |-> 0]
<1>4. ScheduledCloseQty(e, inventory[j].id) = Sum(s)
  BY <1>2 DEF ScheduledCloseQty, MapSeq
<1>5. DOMAIN s = 1..m /\ \A r \in 1..m : s[r] = IF p[r] = j THEN qty ELSE 0
  <2>1. s = [r \in DOMAIN e |-> IF e[r].action = "close" /\ e[r].id = id THEN e[r].qty ELSE 0]
    BY DEF MapSeq
  <2>2. DOMAIN e = 1..m
    BY <1>1
  <2>3. ASSUME NEW r \in 1..m
        PROVE  s[r] = IF p[r] = j THEN qty ELSE 0
    <3>1. p[r] \in DOMAIN inventory
      BY <1>1 DEF Lists
    <3>2. e[r] = CloseCommand(inventory[p[r]], inventory[p[r]].qty)
      BY <1>1 DEF FullClose
    <3>3. e[r].action = "close" /\ e[r].id = inventory[p[r]].id /\ e[r].qty = inventory[p[r]].qty
      BY <3>2 DEF CloseCommand
    <3>4. inventory[p[r]].id = id <=> p[r] = j
      BY <1>2, <3>1 DEF Identified
    <3>5. s[r] = IF e[r].action = "close" /\ e[r].id = id THEN e[r].qty ELSE 0
      BY <2>1, <2>2
    <3>6. QED
      BY <1>3, <3>3, <3>4, <3>5
  <2>4. QED
    BY <2>1, <2>2, <2>3
<1>6. s = [r \in 1..m |-> IF p[r] = j THEN qty ELSE 0]
  <2>1. s = [r \in DOMAIN s |-> s[r]]
    BY DEF MapSeq
  <2>2. QED
    BY <1>5, <2>1
<1> HIDE DEF s
<1>7. zero \in [1..m -> Int] /\ Sum(zero) = 0
  BY <1>1, ZeroSum
<1>8. s \in [1..m -> Int]
  BY <1>6
<1>9. CASE j \in H
  <2>1. PICK r \in 1..m : p[r] = j
    BY <1>1, <1>9 DEF Lists
  <2>2. \A i \in 1..m : i # r => s[i] = zero[i]
    BY <1>1, <1>5, <2>1 DEF Lists
  <2>3. s[r] = qty /\ zero[r] = 0
    BY <1>5, <2>1
  <2> HIDE DEF zero
  <2>4. Sum(s) = Sum(zero) - zero[r] + s[r]
    BY <1>1, <1>7, <1>8, <2>1, <2>2, SumPoint
  <2>5. Sum(s) = qty
    BY <1>7, <2>3, <2>4
  <2>6. QED
    BY <1>3, <1>4, <1>9, <2>5
<1>10. CASE j \notin H
  <2>1. \A r \in 1..m : s[r] = 0
    BY <1>1, <1>5, <1>10 DEF Lists
  <2>2. s = zero
    BY <1>6, <2>1, <1>5
  <2>3. QED
    BY <1>4, <1>7, <1>10, <2>2
<1>11. QED
  BY <1>9, <1>10

\* close_all: the legs that the exits of the step leave open.
LEMMA CloseAllIs ==
  ASSUME inventory \in Seq(Legs), Identified, NEW H \in SUBSET (DOMAIN inventory),
         NEW e, FullCloses(e, H)
  PROVE  FullCloses(CloseAll(e), (DOMAIN inventory) \ H)
<1> DEFINE hits == {i \in DOMAIN inventory :
                      ScheduledCloseQty(e, inventory[i].id) < inventory[i].qty}
           left == Filter(inventory, LAMBDA leg : ScheduledCloseQty(e, leg.id) < leg.qty)
<1>0. PICK R : R = (DOMAIN inventory) \ H
  OBVIOUS
<1>1. PICK N \in Nat : DOMAIN inventory = 1..N
  OBVIOUS
<1>2. hits = R
  <2>1. ASSUME NEW i \in DOMAIN inventory
        PROVE  ScheduledCloseQty(e, inventory[i].id) < inventory[i].qty <=> i \notin H
    <3>1. ScheduledCloseQty(e, inventory[i].id) = IF i \in H THEN inventory[i].qty ELSE 0
      BY ScheduledIs
    <3>2. PICK qty \in Nat \ {0} : qty = inventory[i].qty
      BY LegFacts
    <3>3. QED
      BY <3>1, <3>2
  <2>2. QED
    BY <1>0, <2>1
<1>3. left = Passing(inventory, hits)
  BY DEF Filter, Passing
<1>4. CloseAll(e) = [r \in DOMAIN left |->
                       CloseCommand(left[r], left[r].qty - ScheduledCloseQty(e, left[r].id))]
  BY DEF CloseAll, MapSeq
<1> HIDE DEF hits, left
<1>5. left = Passing(inventory, R)
  BY <1>2, <1>3
<1>6. R \in SUBSET (1..N)
  BY <1>0, <1>1
<1>7. PICK m, p : m \in Nat /\ Lists(p, m, R) /\ Passing(inventory, R) = [r \in 1..m |-> inventory[p[r]]]
  <2>1. KeepsEach(inventory, R)
    BY <1>6, FilterLists
  <2>2. QED
    BY <2>1 DEF KeepsEach
<1>8. DOMAIN left = 1..m /\ \A r \in 1..m : left[r] = inventory[p[r]]
  BY <1>5, <1>7
<1>9. ASSUME NEW r \in 1..m
      PROVE  CloseCommand(left[r], left[r].qty - ScheduledCloseQty(e, left[r].id)) = FullClose(p[r])
  <2>1. PICK i \in DOMAIN inventory : i = p[r] /\ i \notin H
    BY <1>0, <1>7 DEF Lists
  <2>2. left[r] = inventory[i]
    BY <1>8, <2>1
  <2>3. ScheduledCloseQty(e, inventory[i].id) = 0
    BY <2>1, ScheduledIs
  <2>4. PICK qty \in Nat \ {0} : qty = inventory[i].qty
    BY LegFacts
  <2>5. qty - 0 = qty
    OBVIOUS
  <2>6. QED
    BY <2>1, <2>2, <2>3, <2>4, <2>5 DEF FullClose
<1>10. CloseAll(e) = [r \in 1..m |-> FullClose(p[r])]
  BY <1>4, <1>8, <1>9
<1>11. m \in Nat /\ Lists(p, m, R)
  BY <1>7
<1>12. FullCloses(CloseAll(e), R)
  BY <1>10, <1>11 DEF FullCloses
<1>13. QED
  BY <1>0, <1>12
-----------------------------------------------------------------------------
(* Steps that leave the ledger alone.                                      *)

\* What the invariant reads of a run besides the stage and the queue.
readVars == <<mode, working, tape, inventory, trades, marks, script, spec, policy, recordVars>>

LEMMA StillHolds ==
  ASSUME SessionInv, UNCHANGED readVars
  PROVE  /\ n' = n /\ Snapshot' = Snapshot /\ Numbered'
         /\ \A c, m : MarkHolds(c, m)' = MarkHolds(c, m)
         /\ \A leg : TriggeredOnTape(leg)' = TriggeredOnTape(leg)
         /\ \A f, leg, i : OpensAs(f, leg, i)' = OpensAs(f, leg, i)
         /\ Entering' = Entering /\ Entered' = Entered
<1>1. n' = n /\ Snapshot' = Snapshot /\ \A c, m : Quoted(c, m)' = Quoted(c, m) /\ LastSeen(c, m)' = LastSeen(c, m)
  BY SameTape DEF readVars
<1>2. Numbered'
  BY DEF SessionInv, Numbered, Identified, readVars, recordVars
<1>3. \A c, m : MarkHolds(c, m)' = MarkHolds(c, m)
  BY <1>1 DEF MarkHolds, readVars
<1>4. \A leg : TriggeredOnTape(leg)' = TriggeredOnTape(leg)
  BY SameJudged DEF readVars
<1>5. \A f, leg, i : OpensAs(f, leg, i)' = OpensAs(f, leg, i)
  BY DEF OpensAs, readVars
<1>6. Entering' = Entering /\ Entered' = Entered
  BY DEF Entering, Entered, OpensAs, readVars, recordVars
<1>7. QED
  BY <1>1, <1>2, <1>3, <1>4, <1>5, <1>6

\* A run that is abandoned.
LEMMA OverKeeps ==
  ASSUME SessionInv, UNCHANGED readVars, stage' = "over", error' \in {"config", "spec", "entry",
           "quote", "settle", "arithmetic"},
         pc' = "failed", IsArray(cmds'), k' \in Nat \ {0}, exitsEnd' \in Nat,
         fills = <<>> \/ Entered \/ error' = "arithmetic", ExitsAre'
  PROVE  SessionInv'
<1>1. /\ n' = n /\ Numbered' /\ Entered' = Entered
  BY StillHolds
<1>2. SessionTyped'
  BY <1>1 DEF SessionInv, SessionTyped, readVars, recordVars, Stages, IsArray
<1>3. Phased'
  BY <1>1 DEF SessionInv, Phased, readVars, recordVars, InStep, Built
<1>4. MarksHold'
  BY DEF MarksHold, InStep
<1>5. Enters'
  BY <1>1 DEF Enters, readVars, recordVars
<1>6. Queued'
  BY DEF Queued
<1>7. Justified'
  BY <1>1 DEF SessionInv, Justified, readVars, recordVars
<1>8. QED
  BY <1>1, <1>2, <1>3, <1>4, <1>5, <1>6, <1>7 DEF SessionInv

\* One that goes on to a stage without a queue of closes.
LEMMA OnKeeps ==
  ASSUME SessionInv, UNCHANGED readVars, UNCHANGED queueVars, error' = error,
         stage' \in Stages \ {"over", "open", "apply"}, stage \notin {"open", "apply", "over"},
         Phased', MarksHold', 
         stage' \in {"start", "decide"} => \A i \in DOMAIN closed : closed[i].step < n
  PROVE  SessionInv'
<1>1. /\ n' = n /\ Numbered' /\ Entered' = Entered
  BY StillHolds
<1>2. SessionTyped'
  BY <1>1 DEF SessionInv, SessionTyped, readVars, recordVars, queueVars, IsArray
<1>3. Enters'
  BY <1>1 DEF SessionInv, Enters, readVars, recordVars
<1>4. Queued'
  BY DEF Queued
<1>5. ExitsAre'
  BY DEF ExitsAre, SessionInv, Phased
<1>6. Justified'
  BY <1>1 DEF SessionInv, Justified, readVars, recordVars
<1>7. QED
  BY <1>1, <1>2, <1>3, <1>4, <1>5, <1>6 DEF SessionInv

LEMMA NothingMarked ==
  ASSUME UNCHANGED <<tape, inventory, marks>>, MarksHold, n' = n,
         stage' = "run" => stage = "run" \/ inventory = <<>>,
         InStep' => InStep
  PROVE  MarksHold'
<1>1. stage' = "run" => \A i \in DOMAIN inventory : MarkHolds(inventory[i].contract, n)'
  <2>1. ASSUME stage' = "run", NEW i \in DOMAIN inventory
        PROVE  MarkHolds(inventory[i].contract, n)'
    <3>1. MarkHolds(inventory[i].contract, n)
      BY <2>1 DEF MarksHold
    <3>2. QED
      BY <3>1 DEF MarkHolds, Quoted, SeenIn, LastSeen
  <2>2. QED
    BY <2>1
<1>2. InStep' => \A i \in DOMAIN inventory :
        (inventory[i].contract \in DOMAIN Snapshot \/ MarkHolds(inventory[i].contract, n - 1))'
  BY DEF MarksHold, MarkHolds, Quoted, SeenIn, LastSeen, Snapshot
<1>3. QED
  BY <1>1, <1>2 DEF MarksHold

LEMMA ConstructKeeps ==
  ASSUME SessionInv, Construct
  PROVE  SessionInv'
<1>1. stage = "new" /\ fills = <<>> /\ inventory = <<>> /\ error = "none"
  BY DEF Construct, SessionInv, Phased
<1>2. CASE Fail("config") \/ Fail("spec")
  <2>1. UNCHANGED readVars /\ UNCHANGED queueVars
    BY <1>2 DEF Construct, Fail, Abort, readVars, recordVars, inputVars, bookVars, settleVars
  <2>2. /\ stage' = "over" /\ pc' = "failed" /\ error' \in {"config", "spec"}
        /\ IsArray(cmds') /\ k' \in Nat \ {0} /\ exitsEnd' \in Nat
    BY <1>2, <2>1 DEF Fail, Abort, SessionInv, SessionTyped, queueVars, IsArray
  <2>3. ExitsAre'
    BY <2>2 DEF ExitsAre
  <2>4. QED
    BY <1>1, <2>1, <2>2, <2>3, OverKeeps
<1>3. CASE stage' = "run" /\ UNCHANGED <<vars, error>>
  <2>1. UNCHANGED readVars /\ UNCHANGED queueVars /\ UNCHANGED pc
    BY <1>3 DEF Construct, vars, readVars, recordVars, inputVars, bookVars, settleVars
  <2>2. Phased'
    BY <1>1, <1>3, <2>1 DEF SessionInv, Phased, readVars, recordVars, InStep, Built, n
  <2>3. MarksHold'
    BY <1>1, <1>3, <2>1, NothingMarked, StillHolds DEF SessionInv, readVars, InStep
  <2>4. QED
    BY <1>1, <1>3, <2>1, <2>2, <2>3, OnKeeps DEF Stages
<1>4. QED
  BY <1>2, <1>3 DEF Construct

LEMMA AnalyseKeeps ==
  ASSUME SessionInv, Analyse
  PROVE  SessionInv'
<1>1. /\ UNCHANGED readVars /\ UNCHANGED queueVars /\ UNCHANGED pc /\ UNCHANGED error
      /\ stage = "run" /\ pc = "attribute" /\ stage' = "analysed"
  BY DEF Analyse, vars, readVars, recordVars, inputVars, bookVars, settleVars
<1>2. Phased'
  BY <1>1 DEF SessionInv, Phased, readVars, recordVars, InStep, Built, n
<1>3. MarksHold'
  BY <1>1 DEF MarksHold, InStep
<1>4. QED
  BY <1>1, <1>2, <1>3, OnKeeps DEF Stages

LEMMA AttributeRunKeeps ==
  ASSUME SessionInv, AttributeRun
  PROVE  SessionInv'
<1>1. /\ UNCHANGED readVars /\ UNCHANGED queueVars /\ UNCHANGED error
      /\ stage = "analysed" /\ stage' = stage /\ pc' \in {"attribute", "done"}
      /\ pc = "attribute"
  BY DEF AttributeRun, Attribute, Finish, sessionVars, readVars, recordVars, inputVars,
         bookVars, settleVars
<1>2. Phased'
  BY <1>1 DEF SessionInv, Phased, readVars, recordVars, InStep, Built, n
<1>3. MarksHold'
  BY <1>1 DEF MarksHold, InStep
<1>4. QED
  BY <1>1, <1>2, <1>3, OnKeeps DEF Stages

LEMMA AlterKeeps ==
  ASSUME SessionInv, Alter
  PROVE  SessionInv'
<1>1. /\ UNCHANGED readVars /\ UNCHANGED queueVars /\ UNCHANGED error /\ UNCHANGED pc
      /\ stage = "published" /\ stage' = "altered"
  BY DEF Alter, vars, readVars, recordVars, inputVars, bookVars, settleVars
<1>2. Phased'
  BY <1>1 DEF SessionInv, Phased, readVars, recordVars, InStep, Built, n
<1>3. MarksHold'
  BY <1>1 DEF MarksHold, InStep
<1>4. QED
  BY <1>1, <1>2, <1>3, OnKeeps DEF Stages

LEMMA PublishKeeps ==
  ASSUME SessionInv, Publish
  PROVE  SessionInv'
<1>1. /\ UNCHANGED readVars /\ UNCHANGED queueVars /\ UNCHANGED pc
      /\ stage = "analysed" /\ pc = "done" /\ spec.kind # "Caller"
      /\ \/ stage' = "over" /\ error' = "collision"
         \/ stage' \in {"published", "again"} /\ UNCHANGED error
  BY DEF Publish, vars, readVars, recordVars, inputVars, bookVars, settleVars
<1>2. Phased'
  BY <1>1 DEF SessionInv, Phased, readVars, recordVars, InStep, Built, n
<1>3. MarksHold'
  BY <1>1 DEF MarksHold, InStep
<1>4. CASE stage' # "over"
  BY <1>1, <1>2, <1>3, <1>4, OnKeeps DEF Stages
<1>5. CASE stage' = "over"
  <2>1. /\ n' = n /\ Numbered' /\ Entered' = Entered
    BY <1>1, StillHolds
  <2>2. SessionTyped'
    BY <1>1, <1>5, <2>1 DEF SessionInv, SessionTyped, readVars, recordVars, queueVars, IsArray, Stages
  <2>3. Enters'
    BY <1>1, <1>5, <2>1 DEF SessionInv, Enters, readVars, recordVars, Phased
  <2>4. Queued' /\ ExitsAre'
    BY <1>1, <1>5 DEF Queued, ExitsAre
  <2>5. Justified'
    BY <1>1, <1>5, <2>1 DEF SessionInv, Justified, readVars, recordVars
  <2>6. QED
    BY <1>2, <1>3, <2>1, <2>2, <2>3, <2>4, <2>5 DEF SessionInv
<1>6. QED
  BY <1>4, <1>5

\* A session before its first snapshot.
Fresh ==
  /\ mode = "naive" /\ working = <<>> /\ stage = "new" /\ pc = "step"
  /\ script \in Scripts /\ spec \in Specs /\ policy \in Policies
  /\ tape = <<>> /\ trades = 0 /\ inventory = <<>> /\ error = "none"
  /\ IsArray(cmds) /\ k \in Nat \ {0} /\ exitsEnd \in Nat
  /\ fills = <<>> /\ closed = <<>> /\ terminals = <<>>

LEMMA FreshIs == Fresh => SessionInv
<1> SUFFICES ASSUME Fresh PROVE SessionInv
  OBVIOUS
<1> USE DEF Fresh
<1>1. n = 0 /\ Len(Days) \in Nat
  BY LedgerAssumption DEF n
<1>2. SessionTyped
  BY <1>1, NoArray DEF SessionTyped, Stages
<1>3. Phased /\ Numbered /\ MarksHold
  BY <1>1 DEF Phased, Numbered, Identified, MarksHold, InStep, Built
<1>4. Enters /\ Queued /\ ExitsAre /\ Justified
  BY <1>1 DEF Enters, Queued, ExitsAre, Justified
<1>5. QED
  BY <1>2, <1>3, <1>4 DEF SessionInv

LEMMA SessionStarts == SessionInit => SessionInv
BY FreshIs, NoArray DEF SessionInit, Init, Fresh

LEMMA AgainKeeps ==
  ASSUME SessionInv, Again
  PROVE  SessionInv'
<1>1. /\ mode' = "naive" /\ working' = <<>> /\ stage' = "new" /\ pc' = "step" /\ tape' = <<>>
      /\ trades' = 0 /\ inventory' = <<>> /\ fills' = <<>> /\ closed' = <<>> /\ terminals' = <<>>
      /\ error' = "none"
  BY DEF Again, SessionInv, SessionTyped, Phased
<1>2. script' \in Scripts /\ spec' \in Specs /\ policy' \in Policies
  BY DEF Again, SessionInv, SessionTyped
<1>3. IsArray(cmds') /\ k' \in Nat \ {0} /\ exitsEnd' \in Nat
  BY DEF Again, SessionInv, SessionTyped, queueVars, IsArray
<1>4. Fresh'
  BY <1>1, <1>2, <1>3 DEF Fresh
<1>5. QED
  BY <1>4, FreshIs, PTL
-----------------------------------------------------------------------------
(* The start of a run, and its snapshots.                                  *)

LEMMA LegsOf ==
  ASSUME NEW s \in Specs
  PROVE  /\ WrittenLegs(s) \in Seq(LegSpecs) /\ EngineLegs(s) \in Seq(LegSpecs)
         /\ Len(EngineLegs(s)) = Len(WrittenLegs(s))
         /\ \E p : /\ Lists(p, Len(WrittenLegs(s)), 1..Len(WrittenLegs(s)))
                   /\ \A i \in 1..Len(WrittenLegs(s)) : EngineLegs(s)[i] = WrittenLegs(s)[p[i]]
<1>1. WrittenLegs(s) \in Seq(LegSpecs)
  BY SpecsAssumption DEF IsStrategySpec
<1>2. CASE s.kind = "Legs"
  <2>1. WrittenLegs(s) = s.legs /\ EngineLegs(s) = SortBy(LegKey, s.legs)
    BY <1>2 DEF WrittenLegs, EngineLegs
  <2>2. PICK w \in Seq(LegSpecs) : w = WrittenLegs(s) /\ w = s.legs
    BY <1>1, <2>1
  <2>3. /\ SortBy(LegKey, w) \in Seq(LegSpecs) /\ Len(SortBy(LegKey, w)) = Len(w)
        /\ \E p : Lists(p, Len(w), 1..Len(w)) /\ \A i \in 1..Len(w) : SortBy(LegKey, w)[i] = w[p[i]]
    BY SortedLegs
  <2>4. EngineLegs(s) = SortBy(LegKey, w)
    BY <2>1, <2>2
  <2>5. QED
    BY <1>1, <2>2, <2>3, <2>4
<1>3. CASE s.kind # "Legs"
  <2>1. EngineLegs(s) = WrittenLegs(s)
    BY <1>3 DEF EngineLegs
  <2>2. PICK m \in Nat : m = Len(WrittenLegs(s))
    BY <1>1
  <2>3. PICK p : p = [i \in 1..m |-> i]
    OBVIOUS
  <2>4. Lists(p, m, 1..m) /\ \A i \in 1..m : p[i] = i
    BY <2>3 DEF Lists
  <2>5. QED
    BY <1>1, <2>1, <2>2, <2>4
<1>4. QED
  BY <1>2, <1>3

LEMMA EntriesIs ==
  ASSUME spec \in Specs
  PROVE  /\ IsArray(Entries(spec)) /\ Len(Entries(spec)) = Len(EngineLegs(spec))
         /\ \A i \in 1..Len(EngineLegs(spec)) :
              Entries(spec)[i] =
                [action |-> "open", side |-> EngineLegs(spec)[i].side,
                 qty |-> EngineLegs(spec)[i].qty,
                 contract |-> CHOOSE c \in Select(spec, EngineLegs(spec)[i]) : TRUE]
<1>1. PICK m, e : m \in Nat /\ m = Len(EngineLegs(spec)) /\ e = EngineLegs(spec) /\ DOMAIN e = 1..m
  BY LegsOf
<1>2. PICK s : s = Entries(spec)
  OBVIOUS
<1>3. s = [i \in 1..m |-> [action |-> "open", side |-> e[i].side, qty |-> e[i].qty,
                           contract |-> CHOOSE c \in Select(spec, e[i]) : TRUE]]
  BY <1>1, <1>2 DEF Entries, MapSeq
<1>4. s = [i \in 1..m |-> s[i]]
  BY <1>3
<1>5. Len(s) = m /\ IsArray(s)
  BY <1>1, <1>4, FunList
<1>6. QED
  BY <1>1, <1>2, <1>3, <1>5

LEMMA SameEntries ==
  ASSUME UNCHANGED <<tape, spec>>
  PROVE  Entries(spec)' = Entries(spec) /\ EntryFails(spec)' = EntryFails(spec)
<1>1. \A s, leg : Select(s, leg)' = Select(s, leg)
  BY DEF Select, SelectLegSetQuote, SelectLegQuote, Candidates, ResolveExpiration, Snapshot, n
<1>2. QED
  BY <1>1 DEF Entries, EntryFails, MapSeq

LEMMA OnStartKeeps ==
  ASSUME SessionInv, OnStart
  PROVE  SessionInv'
<1>1. stage = "start" /\ fills = <<>> /\ inventory = <<>> /\ error = "none" /\ closed = <<>>
  BY DEF OnStart, SessionInv, Phased
<1>2. CASE Fail("entry") /\ UNCHANGED queueVars
  <2>1. UNCHANGED readVars
    BY <1>2 DEF OnStart, Fail, Abort, readVars, recordVars, inputVars, bookVars, settleVars
  <2>2. /\ stage' = "over" /\ pc' = "failed" /\ error' = "entry"
        /\ IsArray(cmds') /\ k' \in Nat \ {0} /\ exitsEnd' \in Nat
    BY <1>2, <2>1 DEF Fail, Abort, SessionInv, SessionTyped, queueVars, IsArray
  <2>3. ExitsAre'
    BY <2>2 DEF ExitsAre
  <2>4. QED
    BY <1>1, <2>1, <2>2, <2>3, OverKeeps
<1>3. CASE ~(Fail("entry") /\ UNCHANGED queueVars)
  <2>1. /\ ~EntryFails(spec) /\ cmds' = Entries(spec) /\ k' = 1 /\ exitsEnd' = 0
        /\ stage' = "open" /\ UNCHANGED readVars /\ UNCHANGED pc /\ UNCHANGED error
    BY <1>3 DEF OnStart, vars, readVars, recordVars, inputVars, bookVars, settleVars
  <2>2. n' = n /\ Numbered' /\ Entering' = Entering
    BY <2>1, StillHolds
  <2>3. IsArray(Entries(spec)) /\ Len(Entries(spec)) \in Nat
    BY EntriesIs DEF SessionInv, SessionTyped, IsArray
  <2>4. SessionTyped'
    BY <2>1, <2>2, <2>3 DEF SessionInv, SessionTyped, readVars, recordVars, IsArray, Stages
  <2>5. Phased'
    BY <1>1, <2>1, <2>2 DEF SessionInv, Phased, readVars, recordVars, InStep, Built
  <2>6. MarksHold'
    BY <1>1, <2>1 DEF MarksHold, readVars
  <2>7. Enters'
    <3>1. ~EntryFails(spec)' /\ cmds' = Entries(spec)'
      BY <2>1, SameEntries DEF readVars
    <3>2. Entering /\ fills' = <<>>
      BY <1>1, <2>1 DEF Entering, readVars, recordVars
    <3>3. Len(fills') = 0 /\ 1 <= Len(cmds') + 1
      BY <2>1, <2>3, <3>2, NoArray
    <3>4. QED
      BY <2>1, <2>2, <3>1, <3>2, <3>3 DEF Enters
  <2>8. Queued' /\ ExitsAre' /\ Justified'
    <3>1. closed' = <<>>
      BY <1>1, <2>1 DEF readVars, recordVars
    <3>2. error' # "quote"
      BY <1>1, <2>1
    <3>3. QED
      BY <2>1, <3>1, <3>2 DEF Queued, ExitsAre, Justified
  <2>9. QED
    BY <2>2, <2>4, <2>5, <2>6, <2>7, <2>8 DEF SessionInv
<1>4. QED
  BY <1>2, <1>3

LEMMA ScriptOf ==
  ASSUME script \in Scripts, NEW m \in 1..Len(Days)
  PROVE  script[m] \in Snapshots
<1>1. PICK s \in Scripts : s = script
  OBVIOUS
<1>2. PICK T : T = UNION {[quoted -> UNION {Quotes[c] : c \in quoted}] : quoted \in SUBSET Contracts}
  OBVIOUS
<1>3. /\ s \in Seq(T) /\ Len(s) = Len(Days) /\ Len(Days) \in Nat
      /\ \A i \in DOMAIN s : \A c \in DOMAIN s[i] : s[i][c] \in Quotes[c]
  <2>1. /\ s \in Seq(UNION {[quoted -> UNION {Quotes[c] : c \in quoted}] :
                             quoted \in SUBSET Contracts})
        /\ Len(s) = Len(Days)
        /\ \A i \in DOMAIN s : \A c \in DOMAIN s[i] : s[i][c] \in Quotes[c]
    BY ScriptsAssumption, Zenon
  <2>2. Len(Days) \in Nat
    BY LedgerAssumption
  <2>3. QED
    BY <1>2, <2>1, <2>2, Zenon
<1>4. m \in DOMAIN s /\ s[m] \in T
  BY <1>3
<1>5. PICK quoted \in SUBSET Contracts : s[m] \in [quoted -> UNION {Quotes[c] : c \in quoted}]
  BY <1>2, <1>4
<1>6. (UNION {Quotes[c] : c \in quoted}) \subseteq AllQuotes
  BY DEF AllQuotes
<1>7. s[m] \in [quoted -> AllQuotes]
  BY <1>5, <1>6
<1>8. QED
  BY <1>1, <1>3, <1>4, <1>7 DEF Snapshots

LEMMA PullKeeps ==
  ASSUME SessionInv, Pull
  PROVE  SessionInv'
<1>1. /\ stage = "run" /\ pc = "step" /\ n \in Nat /\ n < Len(Days) /\ tape' = Append(tape, script[n + 1])
      /\ pc' = "trade" /\ stage' = IF n = 0 THEN "start" ELSE "decide"
  BY DEF Pull, NextSnapshot, SessionInv, SessionTyped, n
<1>2. /\ UNCHANGED <<mode, working, inventory, trades, marks, recordVars, error>>
      /\ UNCHANGED <<script, spec, policy>> /\ UNCHANGED queueVars
  BY DEF Pull, NextSnapshot, settleVars, inputVars
<1>3. PICK s \in Snapshots : s = script[n + 1]
  <2>1. Len(Days) \in Nat /\ n + 1 \in 1..Len(Days)
    BY <1>1, LedgerAssumption
  <2>2. QED
    BY <2>1, ScriptOf DEF SessionInv, SessionTyped
<1>4. tape' \in Seq(Snapshots) /\ n' = n + 1
  <2>1. tape \in Seq(Snapshots)
    BY DEF SessionInv, SessionTyped
  <2>2. QED
    BY <1>1, <1>3, <2>1 DEF n
<1>5. SessionTyped'
  <2>1. n' <= Len(Days)
    BY <1>1, <1>4, LedgerAssumption
  <2>2. QED
    BY <1>1, <1>2, <1>4, <2>1 DEF SessionInv, SessionTyped, recordVars, queueVars, IsArray, Stages
<1>6. Phased'
  <2>1. error = "none"
    BY <1>1 DEF SessionInv, Phased
  <2>2. n = 0 => inventory = <<>> /\ fills = <<>> /\ closed = <<>> /\ terminals = <<>>
    BY DEF SessionInv, Phased
  <2>3. QED
    BY <1>1, <1>2, <1>4, <2>1, <2>2 DEF Phased, InStep, Built, recordVars
<1>7. Numbered'
  BY <1>2 DEF SessionInv, Numbered, Identified, recordVars
<1>8. MarksHold'
  <2>1. PICK m \in Nat : m = n
    BY <1>1
  <2>2. ASSUME NEW i \in DOMAIN inventory PROVE MarkHolds(inventory[i].contract, m)'
    <3>1. PICK c : c = inventory[i].contract
      OBVIOUS
    <3>2. MarkHolds(c, m)
      BY <1>1, <2>1, <3>1 DEF SessionInv, MarksHold
    <3>3. tape \in Seq(Snapshots) /\ m <= n /\ Quoted(c, m)
      BY <2>1, <3>2 DEF SessionInv, SessionTyped, MarkHolds
    <3>4. Quoted(c, m)' /\ LastSeen(c, m)' = LastSeen(c, m)
      BY <1>1, <3>3, TapeGrows
    <3>5. MarkHolds(c, m)'
      BY <1>2, <3>2, <3>4 DEF MarkHolds
    <3>6. inventory'[i].contract = c
      BY <1>2, <3>1
    <3>7. QED
      BY <3>5, <3>6 DEF MarkHolds
  <2>3. n' - 1 = m
    BY <1>4, <2>1
  <2>4. InStep' => \A i \in DOMAIN inventory' : MarkHolds(inventory[i].contract, n - 1)'
    BY <1>2, <2>2, <2>3
  <2>5. QED
    BY <1>1, <2>4 DEF MarksHold
<1>9. Enters'
  <2>1. fills = <<>> \/ Entered
    BY <1>1 DEF SessionInv, Enters, Phased
  <2>2. Entered' = Entered
    BY <1>2 DEF Entered, OpensAs, recordVars
  <2>3. QED
    BY <1>1, <1>2, <2>1, <2>2 DEF Enters, recordVars
<1>10. Queued' /\ ExitsAre'
  BY <1>1, <1>2 DEF Queued, ExitsAre, SessionInv, Phased
<1>11. Justified'
  <2>1. \A i \in DOMAIN closed : closed[i].step \in 0..n
    BY DEF SessionInv, Justified
  <2>2. QED
    BY <1>1, <1>2, <1>4, <2>1 DEF Justified, recordVars
<1>12. QED
  BY <1>5, <1>6, <1>7, <1>8, <1>9, <1>10, <1>11 DEF SessionInv
-----------------------------------------------------------------------------
(* The queue of a step.                                                    *)

\* A queue of full closes of different legs, those of H first and all of H.
IsQueue(all, x, H, p, m) ==
  /\ IsArray(all) /\ Len(all) = m /\ x \in 0..m
  /\ \A i \in 1..m : /\ p[i] \in DOMAIN inventory /\ all[i] = FullClose(p[i])
                     /\ i <= x <=> p[i] \in H
  /\ \A i, j \in 1..m : p[i] = p[j] => i = j
  /\ \A j \in H : \E i \in 1..x : p[i] = j

LEMMA ExitsQueue ==
  ASSUME NEW H \in SUBSET (DOMAIN inventory), NEW e, FullCloses(e, H)
  PROVE  \E m, p : m \in Nat /\ IsQueue(e, m, H, p, m) /\ Len(e) = m
<1>1. PICK m, p : m \in Nat /\ Lists(p, m, H) /\ e = [r \in 1..m |-> FullClose(p[r])]
  BY DEF FullCloses
<1>2. e = [r \in 1..m |-> e[r]]
  BY <1>1
<1>3. Len(e) = m /\ IsArray(e)
  BY <1>1, <1>2, FunList
<1>4. IsQueue(e, m, H, p, m)
  BY <1>1, <1>3 DEF IsQueue, Lists
<1>5. QED
  BY <1>3, <1>4

LEMMA WholeQueue ==
  ASSUME NEW H \in SUBSET (DOMAIN inventory), NEW e, FullCloses(e, H),
         NEW f, FullCloses(f, (DOMAIN inventory) \ H)
  PROVE  \E m, p : /\ m \in Nat
                   /\ IsQueue(e \o f, Len(e), H, p, m)
                   /\ \A j \in DOMAIN inventory : \E i \in 1..m : p[i] = j
<1>0. PICK R : R = (DOMAIN inventory) \ H
  OBVIOUS
<1>1. PICK x, a : x \in Nat /\ Lists(a, x, H) /\ e = [r \in 1..x |-> FullClose(a[r])]
  BY DEF FullCloses
<1>2. PICK y, b : y \in Nat /\ Lists(b, y, R) /\ f = [r \in 1..y |-> FullClose(b[r])]
  BY <1>0 DEF FullCloses
<1>3. Len(e) = x /\ IsArray(e) /\ \A i \in 1..x : e[i] = FullClose(a[i])
  <2>1. e = [r \in 1..x |-> e[r]]
    BY <1>1
  <2>2. QED
    BY <1>1, <2>1, FunList
<1>4. Len(f) = y /\ IsArray(f) /\ \A i \in 1..y : f[i] = FullClose(b[i])
  <2>1. f = [r \in 1..y |-> f[r]]
    BY <1>2
  <2>2. QED
    BY <1>2, <2>1, FunList
<1>5. PICK m \in Nat : m = x + y
  BY <1>1, <1>2
<1>6. PICK p : p = [i \in 1..m |-> IF i <= x THEN a[i] ELSE b[i - x]]
  OBVIOUS
<1>7. PICK all : all = e \o f
  OBVIOUS
<1>8. /\ IsArray(all) /\ Len(all) = m
      /\ \A i \in 1..x : all[i] = e[i]
      /\ \A i \in 1..y : all[x + i] = f[i]
  <2>1. /\ IsArray(e \o f) /\ Len(e \o f) = Len(e) + Len(f)
        /\ \A i \in 1..Len(e) : (e \o f)[i] = e[i]
        /\ \A i \in 1..Len(f) : (e \o f)[Len(e) + i] = f[i]
    BY <1>1, <1>2, <1>3, <1>4, ListJoin
  <2>2. QED
    BY <1>1, <1>2, <1>3, <1>4, <1>5, <1>7, <2>1
<1>9. /\ \A i \in 1..x : i \in 1..m /\ p[i] = a[i] /\ a[i] \in H
      /\ \A i \in 1..y : x + i \in 1..m /\ ~(x + i <= x) /\ p[x + i] = b[i] /\ b[i] \in R
  <2>1. ASSUME NEW i \in 1..x PROVE i \in 1..m /\ p[i] = a[i] /\ a[i] \in H
    BY <1>1, <1>2, <1>5, <1>6 DEF Lists
  <2>2. ASSUME NEW i \in 1..y
        PROVE  x + i \in 1..m /\ ~(x + i <= x) /\ p[x + i] = b[i] /\ b[i] \in R
    <3>1. x + i \in 1..m /\ ~(x + i <= x) /\ (x + i) - x = i
      BY <1>1, <1>2, <1>5
    <3>2. p[x + i] = b[i]
      BY <1>1, <1>6, <3>1
    <3>3. b[i] \in R
      BY <1>2 DEF Lists
    <3>4. QED
      BY <3>1, <3>2, <3>3
  <2>3. QED
    BY <2>1, <2>2
<1>10. \A i \in 1..m : i \in 1..x \/ \E d \in 1..y : i = x + d
  <2>1. ASSUME NEW i \in 1..m, i \notin 1..x PROVE \E d \in 1..y : i = x + d
    <3>1. i - x \in 1..y /\ i = x + (i - x)
      BY <1>1, <1>2, <1>5, <2>1
    <3>2. QED
      BY <3>1
  <2>2. QED
    BY <2>1
<1>11. ASSUME NEW i \in 1..m
       PROVE  p[i] \in DOMAIN inventory /\ all[i] = FullClose(p[i]) /\ (i <= x <=> p[i] \in H)
  <2>1. CASE i \in 1..x
    BY <1>3, <1>8, <1>9, <2>1
  <2>2. CASE i \notin 1..x
    <3>1. PICK d \in 1..y : i = x + d
      BY <1>10, <2>2
    <3>2. p[i] \in R /\ ~(i <= x) /\ all[i] = FullClose(p[i])
      BY <1>4, <1>8, <1>9, <3>1
    <3>3. QED
      BY <1>0, <3>2
  <2>3. QED
    BY <2>1, <2>2
<1>12. ASSUME NEW i \in 1..m, NEW j \in 1..m, p[i] = p[j] PROVE i = j
  <2>1. CASE i \in 1..x
    <3>1. j \in 1..x
      BY <1>9, <1>11, <1>12, <2>1
    <3>2. QED
      BY <1>1, <1>9, <1>12, <2>1, <3>1 DEF Lists
  <2>2. CASE i \notin 1..x
    <3>1. j \notin 1..x
      BY <1>9, <1>11, <1>12, <2>2
    <3>2. PICK d \in 1..y, g \in 1..y : i = x + d /\ j = x + g
      BY <1>10, <2>2, <3>1
    <3>3. b[d] = b[g]
      BY <1>9, <1>12, <3>2
    <3>4. QED
      BY <1>2, <3>2, <3>3 DEF Lists
  <2>3. QED
    BY <2>1, <2>2
<1>13. \A j \in H : \E i \in 1..x : p[i] = j
  BY <1>1, <1>9 DEF Lists
<1>14. ASSUME NEW j \in DOMAIN inventory PROVE \E i \in 1..m : p[i] = j
  <2>1. CASE j \in H
    BY <1>9, <1>13, <2>1
  <2>2. CASE j \in R
    <3>1. PICK i \in 1..y : b[i] = j
      BY <1>2, <2>2 DEF Lists
    <3>2. QED
      BY <1>9, <3>1
  <2>3. QED
    BY <1>0, <2>1, <2>2
<1>15. x \in 0..m
  BY <1>1, <1>2, <1>5
<1>16. IsQueue(all, x, H, p, m)
  BY <1>8, <1>11, <1>12, <1>13, <1>15 DEF IsQueue
<1>17. QED
  BY <1>3, <1>7, <1>14, <1>16

\* The legs a step is to exit.
ToExit == {j \in DOMAIN inventory : TriggeredOnTape(inventory[j])}

\* The queue that Decide fills.
IsDecided(all, x, last) ==
  \E m, p : /\ m \in Nat
            /\ IsQueue(all, x, ToExit, p, m)
            /\ last => \A j \in DOMAIN inventory : \E i \in 1..m : p[i] = j

LEMMA DecidedIs ==
  ASSUME SessionInv, InStep, spec.kind # "Caller", NEW all,
         all = IF n = Len(Days) THEN ExitsOf \o TerminalOf(ExitsOf) ELSE ExitsOf
  PROVE  IsDecided(all, Len(ExitsOf), n = Len(Days))
<1>1. ExitsOf = Exits(policy) /\ TerminalOf(ExitsOf) = CloseAll(ExitsOf)
  BY DEF ExitsOf, TerminalOf
<1>2. PICK H : H = ToExit
  OBVIOUS
<1>3. H \in SUBSET (DOMAIN inventory) /\ FullCloses(ExitsOf, H)
  BY <1>1, <1>2, ExitsIs DEF ToExit
<1>4. inventory \in Seq(Legs) /\ Identified
  BY DEF SessionInv, SessionTyped, Numbered
<1>5. PICK e : e = ExitsOf
  OBVIOUS
<1>6. FullCloses(CloseAll(e), (DOMAIN inventory) \ H)
  BY <1>3, <1>4, <1>5, CloseAllIs
<1>7. CASE n = Len(Days)
  <2>1. PICK f : f = CloseAll(e)
    OBVIOUS
  <2>2. all = e \o f
    BY <1>1, <1>5, <1>7, <2>1
  <2>3. \E m, p : /\ m \in Nat
                  /\ IsQueue(e \o f, Len(e), H, p, m)
                  /\ \A j \in DOMAIN inventory : \E i \in 1..m : p[i] = j
    BY <1>3, <1>5, <1>6, <2>1, WholeQueue
  <2>4. PICK m, p : /\ m \in Nat
                    /\ IsQueue(e \o f, Len(e), H, p, m)
                    /\ \A j \in DOMAIN inventory : \E i \in 1..m : p[i] = j
    BY <2>3, Zenon
  <2>5. IsQueue(all, Len(ExitsOf), ToExit, p, m)
    BY <1>2, <1>5, <2>2, <2>4, Zenon
  <2>6. QED
    BY <2>4, <2>5 DEF IsDecided
<1>8. CASE n # Len(Days)
  <2>1. \E m, p : m \in Nat /\ IsQueue(e, m, H, p, m) /\ Len(e) = m
    BY <1>3, <1>5, ExitsQueue
  <2>2. PICK m, p : m \in Nat /\ IsQueue(e, m, H, p, m) /\ Len(e) = m
    BY <2>1, Zenon
  <2>3. IsQueue(all, Len(ExitsOf), ToExit, p, m)
    BY <1>2, <1>5, <1>8, <2>2
  <2>4. QED
    BY <1>8, <2>2, <2>3 DEF IsDecided
<1>9. QED
  BY <1>7, <1>8

\* What the invariant asks of such a queue.
Serves(all, x, p, m) ==
  /\ {all[i].id : i \in 1..x} = {inventory[i].id : i \in ToExit}
  /\ \A i \in 1..m : all[i].contract = inventory[p[i]].contract
  /\ \A i, j \in 1..m : all[i].id = all[j].id => i = j
LEMMA QueueServes ==
  ASSUME SessionInv, NEW all, NEW x, NEW m \in Nat, NEW p,
         IsQueue(all, x, ToExit, p, m)
  PROVE  Serves(all, x, p, m)
<1>1. \A i \in 1..m : /\ p[i] \in DOMAIN inventory /\ all[i].id = inventory[p[i]].id
                      /\ all[i].contract = inventory[p[i]].contract
  BY DEF IsQueue, FullClose, CloseCommand
<1>2. \A i, j \in 1..m : all[i].id = all[j].id => i = j
  <2>1. ASSUME NEW i \in 1..m, NEW j \in 1..m, all[i].id = all[j].id PROVE i = j
    <3>1. p[i] = p[j]
      BY <1>1, <2>1 DEF SessionInv, Numbered, Identified
    <3>2. QED
      BY <3>1 DEF IsQueue
  <2>2. QED
    BY <2>1
<1>3. {all[i].id : i \in 1..x} = {inventory[i].id : i \in ToExit}
  <2>1. ASSUME NEW i \in 1..x PROVE all[i].id \in {inventory[j].id : j \in ToExit}
    <3>1. i \in 1..m /\ i <= x
      BY DEF IsQueue
    <3>2. p[i] \in ToExit
      BY <3>1 DEF IsQueue
    <3>3. QED
      BY <1>1, <3>1, <3>2
  <2>2. ASSUME NEW j \in ToExit PROVE inventory[j].id \in {all[i].id : i \in 1..x}
    <3>1. PICK i \in 1..x : p[i] = j
      BY DEF IsQueue
    <3>2. i \in 1..m
      BY DEF IsQueue
    <3>3. QED
      BY <1>1, <3>1, <3>2
  <2>3. QED
    BY <2>1, <2>2
<1>4. QED
  BY <1>1, <1>2, <1>3 DEF Serves
-----------------------------------------------------------------------------
(* A step decides.                                                         *)

\* The entry is over once its queue is.
LEMMA EntryDone ==
  ASSUME SessionInv, stage = "decide" \/ (stage = "open" /\ k > Len(cmds))
  PROVE  fills = <<>> \/ Entered
<1>1. CASE stage = "decide"
  BY <1>1 DEF SessionInv, Enters, Phased
<1>2. CASE stage = "open" /\ k > Len(cmds)
  <2>1. PICK m \in Nat : m = Len(EngineLegs(spec)) /\ Len(cmds) = m
    <3>1. spec \in Specs /\ cmds = Entries(spec)
      BY <1>2 DEF SessionInv, SessionTyped, Enters
    <3>2. QED
      BY <3>1, LegsOf, EntriesIs
  <2>2. Len(fills) = k - 1 /\ k <= m + 1 /\ k \in Nat /\ k > m /\ Entering
    BY <1>2, <2>1 DEF SessionInv, Enters, SessionTyped
  <2>3. Len(fills) = m /\ DOMAIN fills = 1..m
    BY <2>2, ListType DEF SessionInv, SessionTyped
  <2>4. QED
    BY <2>1, <2>2, <2>3 DEF Entering, Entered
<1>3. QED
  BY <1>1, <1>2

LEMMA DecideKeeps ==
  ASSUME SessionInv, Decide
  PROVE  SessionInv'
<1> DEFINE all == IF n = Len(Days) THEN ExitsOf \o TerminalOf(ExitsOf) ELSE ExitsOf
<1>1. /\ stage = "decide" \/ (stage = "open" /\ k > Len(cmds))
      /\ cmds' = all /\ k' = 1 /\ exitsEnd' = Len(ExitsOf) /\ onEndStart' = Len(ExitsOf)
      /\ UNCHANGED readVars
      /\ \/ Fail("quote")
         \/ /\ \A i \in DOMAIN all : all[i].contract \in DOMAIN Snapshot
            /\ stage' = "apply" /\ UNCHANGED pc /\ UNCHANGED error
  BY DEF Decide, Fail, Abort, readVars, inputVars, recordVars, bookVars, settleVars
<1> HIDE DEF all
<1>2. InStep /\ error = "none" /\ pc = "trade" /\ n > 0
  BY <1>1 DEF InStep, SessionInv, Phased
<1>3. /\ n' = n /\ Snapshot' = Snapshot /\ Numbered' /\ Entered' = Entered
      /\ \A leg : TriggeredOnTape(leg)' = TriggeredOnTape(leg)
  BY <1>1, StillHolds
<1>4. fills = <<>> \/ Entered
  BY <1>1, EntryDone
<1>5. spec.kind = "Caller" =>
        /\ IsArray(all) /\ Len(all) = 0 /\ Len(ExitsOf) = 0
  BY NoArray DEF all, ExitsOf, TerminalOf
<1>6. ASSUME spec.kind # "Caller"
      PROVE  IsDecided(all, Len(ExitsOf), n = Len(Days))
  BY <1>2, <1>6, DecidedIs DEF all
<1>7. IsArray(all) /\ Len(ExitsOf) \in Nat
  <2>1. CASE spec.kind = "Caller"
    BY <1>5, <2>1
  <2>2. CASE spec.kind # "Caller"
    <3>1. PICK m, p : m \in Nat /\ IsQueue(all, Len(ExitsOf), ToExit, p, m)
      BY <1>6, <2>2 DEF IsDecided
    <3>2. QED
      BY <3>1 DEF IsQueue
  <2>3. QED
    BY <2>1, <2>2
<1>8. ExitsAre'
  <2>1. CASE spec.kind = "Caller"
    BY <1>1, <2>1 DEF ExitsAre, readVars
  <2>2. CASE spec.kind # "Caller"
    <3>1. PICK m, p : m \in Nat /\ IsQueue(all, Len(ExitsOf), ToExit, p, m)
      BY <1>6, <2>2 DEF IsDecided
    <3>2. PICK x, q : x = Len(ExitsOf) /\ q = all
      OBVIOUS
    <3>3. {all[i].id : i \in 1..x} = {inventory[i].id : i \in ToExit}
      <4>1. Serves(q, x, p, m)
        BY <3>1, <3>2, QueueServes
      <4>2. QED
        BY <3>2, <4>1 DEF Serves
    <3>4. {j \in DOMAIN inventory' : TriggeredOnTape(inventory[j])'} = ToExit
      <4>1. \A j \in DOMAIN inventory : TriggeredOnTape(inventory[j])' <=> TriggeredOnTape(inventory[j])
        <5>1. ASSUME NEW j \in DOMAIN inventory
              PROVE  TriggeredOnTape(inventory[j])' <=> TriggeredOnTape(inventory[j])
          <6>1. PICK leg : leg = inventory[j]
            OBVIOUS
          <6>2. inventory'[j] = leg
            BY <1>1, <6>1 DEF readVars
          <6>3. TriggeredOnTape(leg)' = TriggeredOnTape(leg)
            BY <1>3
          <6>4. TriggeredOnTape(inventory[j])' <=> TriggeredOnTape(leg)'
            BY <6>2 DEF TriggeredOnTape, TriggeredFor
          <6>5. QED
            BY <6>1, <6>3, <6>4
        <5>2. QED
          BY <5>1
      <4>2. inventory' = inventory
        BY <1>1 DEF readVars
      <4>3. QED
        BY <4>1, <4>2 DEF ToExit
    <3>5. {cmds'[i].id : i \in 1..exitsEnd'} = {inventory'[i].id : i \in ToExit}
      BY <1>1, <3>2, <3>3 DEF readVars
    <3>6. QED
      BY <3>4, <3>5 DEF ExitsAre
  <2>3. QED
    BY <2>1, <2>2
<1>9. CASE Fail("quote")
  <2>1. stage' = "over" /\ error' = "quote" /\ pc' = "failed"
    BY <1>9 DEF Fail, Abort
  <2>2. QED
    BY <1>1, <1>4, <1>7, <1>8, <2>1, OverKeeps
<1>10. CASE /\ \A i \in DOMAIN all : all[i].contract \in DOMAIN Snapshot
            /\ stage' = "apply" /\ UNCHANGED pc /\ UNCHANGED error
  <2>1. SessionTyped'
    BY <1>1, <1>3, <1>7, <1>10 DEF SessionInv, SessionTyped, readVars, recordVars, IsArray, Stages
  <2>2. Phased'
    BY <1>1, <1>2, <1>3, <1>10 DEF SessionInv, Phased, readVars, recordVars, InStep, Built
  <2>3. MarksHold'
    BY <1>1, <1>2, <1>3, <1>10, NothingMarked DEF SessionInv, readVars
  <2>4. Enters'
    BY <1>1, <1>3, <1>4, <1>10 DEF Enters, readVars, recordVars
  <2>5. Queued'
    <3>1. CASE spec.kind = "Caller"
      <4>1. Len(cmds') = 0
        BY <1>1, <1>5, <3>1
      <4>2. Waiting' = {} /\ onEndStart' = exitsEnd' /\ spec' = spec
        BY <1>1, <4>1 DEF Waiting, readVars
      <4>3. QED
        BY <3>1, <4>2 DEF Queued
    <3>2. CASE spec.kind # "Caller"
      <4>1. PICK m, p : /\ m \in Nat
                        /\ IsQueue(all, Len(ExitsOf), ToExit, p, m)
                        /\ n = Len(Days) =>
                                     \A j \in DOMAIN inventory : \E i \in 1..m : p[i] = j
        BY <1>6, <3>2 DEF IsDecided
      <4>2. Len(all) = m /\ DOMAIN all = 1..m
        BY <1>7, <4>1, ListType DEF IsQueue
      <4>3. PICK x : x = Len(ExitsOf)
        OBVIOUS
      <4>4. /\ \A i \in 1..m : all[i].contract = inventory[p[i]].contract
            /\ \A i, j \in 1..m : all[i].id = all[j].id => i = j
        <5>1. PICK q : q = all
          OBVIOUS
        <5>2. Serves(q, x, p, m)
          BY <4>1, <4>3, <5>1, QueueServes
        <5>3. QED
          BY <5>1, <5>2 DEF Serves
      <4>5. Waiting' = 1..m
        BY <1>1, <4>2 DEF Waiting
      <4>6. ASSUME NEW i \in 1..m PROVE Orders(i, p[i])'
        <5>1. PICK j \in DOMAIN inventory : j = p[i]
          BY <4>1 DEF IsQueue
        <5>2. /\ all[i] = CloseCommand(inventory[j], inventory[j].qty)
              /\ i <= x <=> j \in ToExit
          BY <4>1, <4>3, <5>1 DEF IsQueue, FullClose
        <5>3. inventory[j].contract \in DOMAIN Snapshot
          BY <1>10, <4>2, <4>4, <5>1
        <5>4. PICK leg : leg = inventory[j] /\ leg = inventory'[j]
          BY <1>1 DEF readVars
        <5>5. TriggeredOnTape(inventory[j])' <=> TriggeredOnTape(leg)
          <6>1. TriggeredOnTape(inventory[j])' <=> TriggeredOnTape(leg)'
            BY <5>4 DEF TriggeredOnTape, TriggeredFor
          <6>2. QED
            BY <1>3, <6>1
        <5>6. i <= x <=> TriggeredOnTape(leg)
          BY <5>2, <5>4 DEF ToExit
        <5>7. Orders(i, j)'
          BY <1>1, <1>3, <4>3, <5>2, <5>3, <5>4, <5>5, <5>6 DEF Orders
        <5>8. QED
          BY <5>1, <5>7
      <4>7. \A i \in Waiting' : \E j \in DOMAIN inventory' : Orders(i, j)'
        <5>1. \A i \in 1..m : p[i] \in DOMAIN inventory'
          BY <1>1, <4>1 DEF IsQueue, readVars
        <5>2. QED
          BY <4>5, <4>6, <5>1
      <4>8. n' = Len(Days) => \A j \in DOMAIN inventory' : \E i \in Waiting' : Orders(i, j)'
        <5>1. DOMAIN inventory' = DOMAIN inventory
          BY <1>1 DEF readVars
        <5>2. ASSUME n' = Len(Days), NEW j \in DOMAIN inventory'
              PROVE  \E i \in Waiting' : Orders(i, j)'
          <6>1. PICK i \in 1..m : p[i] = j
            BY <1>3, <4>1, <5>1, <5>2
          <6>2. QED
            BY <4>5, <4>6, <6>1
        <5>3. QED
          BY <5>2
      <4>9. \A i, j \in Waiting' : cmds'[i].id = cmds'[j].id => i = j
        BY <1>1, <4>4, <4>5
      <4>10. onEndStart' = exitsEnd'
        BY <1>1
      <4>11. QED
        BY <4>7, <4>8, <4>9, <4>10 DEF Queued
    <3>3. QED
      BY <3>1, <3>2
  <2>6. Justified'
    <3>1. \A i \in DOMAIN closed : closed[i].step \in 0..n /\ closed[i].step < n
      BY <1>1 DEF SessionInv, Justified
    <3>2. \A i \in DOMAIN closed' : closed'[i].step \in 0..n' /\ closed'[i].step # n'
      BY <1>1, <1>2, <1>3, <3>1 DEF readVars, recordVars
    <3>3. QED
      BY <1>10, <3>2 DEF Justified
  <2>7. QED
    BY <1>3, <1>8, <2>1, <2>2, <2>3, <2>4, <2>5, <2>6 DEF SessionInv
<1>11. QED
  BY <1>1, <1>9, <1>10
-----------------------------------------------------------------------------
(* The end of a step, and the kind of the model.                           *)

LEMMA MarksSettled ==
  ASSUME SessionInv, stage = "apply", Settle
  PROVE  \A i \in DOMAIN inventory : MarkHolds(inventory[i].contract, n)'
<1>1. n \in Nat \ {0} /\ tape' = tape /\ inventory' = inventory /\ n' = n
  <2>1. n \in Nat /\ n > 0
    BY DEF n, SessionInv, SessionTyped, Phased, InStep
  <2>2. QED
    BY <2>1 DEF Settle, n
<1>2. PICK now : now = Held \cap DOMAIN Snapshot
  OBVIOUS
<1>3. marks' = [c \in DOMAIN marks \cup now |-> IF c \in now THEN Snapshot[c].mid ELSE marks[c]]
  BY <1>2 DEF Settle, Refreshed, Current
<1>4. ASSUME NEW i \in DOMAIN inventory
      PROVE  MarkHolds(inventory[i].contract, n)'
  <2>1. PICK c, m : c = inventory[i].contract /\ m = n
    OBVIOUS
  <2>2. Quoted(c, m) /\ c \in DOMAIN marks' /\ marks'[c] = LastSeen(c, m).mid
    <3>1. CASE c \in DOMAIN Snapshot
      <4>1. Quoted(c, m) /\ LastSeen(c, m) = Snapshot[c]
        BY <1>1, <2>1, <3>1, LastSeenNow DEF Snapshot
      <4>2. c \in now
        BY <1>2, <2>1, <3>1 DEF Held
      <4>3. QED
        BY <1>3, <4>1, <4>2
    <3>2. CASE c \notin DOMAIN Snapshot
      <4>1. MarkHolds(c, n - 1)
        BY <2>1, <3>2 DEF SessionInv, MarksHold, InStep
      <4>2. LastSeen(c, m) = LastSeen(c, n - 1) /\ Quoted(c, m)
        BY <1>1, <2>1, <3>2, <4>1, LastSeenBefore DEF Snapshot, MarkHolds
      <4>3. c \notin now
        BY <1>2, <3>2
      <4>4. QED
        BY <1>3, <4>1, <4>2, <4>3 DEF MarkHolds
    <3>3. QED
      BY <3>1, <3>2
  <2>3. Quoted(c, m)' = Quoted(c, m) /\ LastSeen(c, m)' = LastSeen(c, m)
    BY <1>1, SameTape
  <2>4. MarkHolds(c, m)'
    BY <2>2, <2>3 DEF MarkHolds
  <2>5. inventory'[i].contract = c /\ n' = m
    BY <1>1, <2>1
  <2>6. QED
    BY <2>4, <2>5 DEF MarkHolds, Quoted, SeenIn, LastSeen
<1>5. QED
  BY <1>4

LEMMA EndStepKeeps ==
  ASSUME SessionInv, EndStep
  PROVE  SessionInv'
<1>1. /\ stage = "apply" /\ error = "none" /\ pc = "trade" /\ n > 0 /\ k > Len(cmds)
      /\ fills = <<>> \/ Entered
  BY DEF EndStep, SessionInv, Phased, InStep, Enters
<1>2. CASE Fail("settle")
  <2>1. UNCHANGED readVars /\ UNCHANGED queueVars
    BY <1>2 DEF EndStep, Fail, Abort, readVars, recordVars, inputVars, bookVars, settleVars
  <2>2. /\ stage' = "over" /\ pc' = "failed" /\ error' = "settle"
        /\ IsArray(cmds') /\ k' \in Nat \ {0} /\ exitsEnd' \in Nat
    BY <1>2, <2>1 DEF Fail, Abort, SessionInv, SessionTyped, queueVars, IsArray
  <2>3. ExitsAre'
    BY <2>2 DEF ExitsAre
  <2>4. QED
    BY <1>1, <2>1, <2>2, <2>3, OverKeeps
<1>3. CASE Settle /\ stage' = "run" /\ UNCHANGED error
  <2>1. /\ UNCHANGED <<mode, working, tape, inventory, trades, script, spec, policy, recordVars>>
        /\ UNCHANGED queueVars
        /\ pc' = IF n = Len(Days) THEN "attribute" ELSE "step"
    BY <1>3 DEF EndStep, Settle, inputVars
  <2>2. n' = n /\ Entered' = Entered
    BY <2>1 DEF n, Entered, OpensAs, recordVars
  <2>3. SessionTyped'
    BY <1>3, <2>1, <2>2 DEF SessionInv, SessionTyped, recordVars, queueVars, IsArray, Stages
  <2>4. n = Len(Days) /\ spec.kind # "Caller" => inventory = <<>>
    <3>1. SUFFICES ASSUME n = Len(Days), spec.kind # "Caller" PROVE inventory = <<>>
      OBVIOUS
    <3>2. \A j \in DOMAIN inventory : \E i \in Waiting : Orders(i, j)
      BY <1>1, <3>1 DEF SessionInv, Queued
    <3>3. Waiting = {}
      BY <1>1 DEF Waiting, SessionInv, SessionTyped, IsArray
    <3>4. inventory \in Seq(Legs) /\ DOMAIN inventory = {}
      BY <3>2, <3>3 DEF SessionInv, SessionTyped
    <3>5. QED
      BY <3>4
  <2>5. Phased'
    BY <1>1, <1>3, <2>1, <2>2, <2>4 DEF SessionInv, Phased, recordVars, InStep, Built
  <2>6. Numbered'
    BY <2>1 DEF SessionInv, Numbered, Identified, recordVars
  <2>7. MarksHold'
    BY <1>1, <1>3, <2>1, <2>2, MarksSettled DEF MarksHold, InStep
  <2>8. Enters'
    BY <1>1, <1>3, <2>1, <2>2 DEF Enters, recordVars
  <2>9. Queued' /\ ExitsAre'
    BY <1>1, <1>3 DEF Queued, ExitsAre
  <2>10. Justified'
    BY <1>3, <2>1, <2>2 DEF SessionInv, Justified, recordVars
  <2>11. QED
    BY <2>3, <2>5, <2>6, <2>7, <2>8, <2>9, <2>10 DEF SessionInv
<1>4. QED
  BY <1>2, <1>3 DEF EndStep

\* The one fill of a submission in naive mode.
IsNaive(lot, side, qty, mid) ==
  /\ IsOrder(lot, side, mid) /\ lot # <<>> /\ mid \in Int
  /\ AggregateFills(lot).qty = qty /\ lot[1].side = side /\ lot[1].qty = qty
LEMMA NaiveIs ==
  ASSUME SessionInv, InStep, NEW c, c \in DOMAIN Snapshot, NEW side \in Sides,
         NEW qty \in Nat \ {0}, NEW limit
  PROVE  c \in Contracts /\ IsNaive(FillsWithin(c, side, qty, limit), side, qty, Snapshot[c].mid)
<1>1. n \in Nat \ {0} /\ tape \in Seq(Snapshots) /\ mode = "naive"
  <2>1. n \in Nat
    BY DEF n, SessionInv, SessionTyped
  <2>2. n > 0
    BY DEF SessionInv, Phased
  <2>3. QED
    BY <2>1, <2>2 DEF SessionInv, SessionTyped
<1>2. n \in 1..n
  BY <1>1
<1>3. DOMAIN Snapshot \subseteq Contracts /\ IsQuote(Snapshot[c])
  BY <1>1, <1>2, SnapshotFacts DEF Snapshot
<1>4. PICK q : q = Snapshot[c] /\ IsQuote(q)
  BY <1>3
<1>5. PICK f : f = NaiveFill(Model, Fees, q, side, qty)
  OBVIOUS
<1>6. FillsWithin(c, side, qty, limit) = <<f>>
  BY <1>1, <1>4, <1>5 DEF FillsWithin
<1>7. PICK lot : lot = <<f>>
  OBVIOUS
<1>8. IsOrder(lot, side, q.mid) /\ QtyOf(lot) = qty
  BY <1>4, <1>5, <1>7, NaiveOrder
<1>9. q.mid \in Int
  BY <1>4 DEF IsQuote
<1>10. lot # <<>> /\ lot[1] = f /\ f.side = side /\ f.qty = qty
  <2>1. f.side = side /\ f.qty = qty
    BY <1>5 DEF NaiveFill
  <2>2. QED
    BY <1>7, <2>1
<1>11. AggregateFills(lot).qty = qty
  BY <1>8, AggregateIs
<1>12. QED
  BY <1>3, <1>4, <1>6, <1>7, <1>8, <1>9, <1>10, <1>11 DEF IsNaive

\* The contract an entry is made in.
LEMMA EntryIs ==
  ASSUME SessionInv, stage = "open", NEW i \in 1..Len(cmds)
  PROVE  /\ Len(cmds) = Len(EngineLegs(spec))
         /\ cmds[i].contract \in DOMAIN Snapshot
         /\ cmds[i].side \in Sides /\ cmds[i].qty \in Nat \ {0}
         /\ cmds[i].side = EngineLegs(spec)[i].side /\ cmds[i].qty = EngineLegs(spec)[i].qty
         /\ Strike[cmds[i].contract] = EngineLegs(spec)[i].strike
         /\ Style[cmds[i].contract] = EngineLegs(spec)[i].style
         /\ spec.kind = "Legs" => Expiry[cmds[i].contract] = DueDay(EngineLegs(spec)[i])
<1>1. spec \in Specs /\ n = 1 /\ ~EntryFails(spec) /\ cmds = Entries(spec)
  BY DEF SessionInv, SessionTyped, Phased, Enters
<1>2. Len(cmds) = Len(EngineLegs(spec)) /\ EngineLegs(spec) \in Seq(LegSpecs)
  BY <1>1, LegsOf, EntriesIs
<1>3. PICK leg \in LegSpecs : leg = EngineLegs(spec)[i]
  BY <1>2
<1>4. cmds[i] = [action |-> "open", side |-> leg.side, qty |-> leg.qty,
                 contract |-> CHOOSE c \in Select(spec, leg) : TRUE]
  BY <1>1, <1>2, <1>3, EntriesIs
<1>5. i \in DOMAIN EngineLegs(spec)
  BY <1>2
<1>6. Select(spec, leg) # {}
  BY <1>1, <1>3, <1>5 DEF EntryFails
<1>7. PICK c : c = cmds[i].contract
  OBVIOUS
<1>8. c \in Select(spec, leg)
  BY <1>4, <1>6, <1>7
<1>9. c \in Candidates(leg)
  BY <1>8 DEF Select, SelectLegSetQuote, SelectLegQuote
<1>10. c \in DOMAIN Snapshot /\ Strike[c] = leg.strike /\ Style[c] = leg.style
  BY <1>9 DEF Candidates
<1>11. spec.kind = "Legs" => Expiry[c] = DueDay(leg)
  BY <1>1, <1>8 DEF Select, SelectLegSetQuote, ResolveExpiration, DueDay
<1>12. leg.side \in Sides /\ leg.qty \in Nat \ {0}
  BY DEF LegSpecs, Sides
<1>13. QED
  BY <1>2, <1>3, <1>4, <1>7, <1>10, <1>11, <1>12
-----------------------------------------------------------------------------
(* A fill that opens.                                                      *)

LEMMA OpenIs ==
  ASSUME SessionInv, ApplyOpen, pc' # "failed"
  PROVE  \E lot, leg :
           /\ lot = FillsOf(cmds[k].contract, cmds[k].side, cmds[k].qty)
           /\ lot[1].side = cmds[k].side /\ lot[1].qty = cmds[k].qty
           /\ leg \in Legs /\ leg.contract = cmds[k].contract /\ leg.id = trades
           /\ inventory' = Append(inventory, leg)
           /\ trades' = trades + 1
           /\ UNCHANGED <<mode, working, tape, marks, pc>>
<1>1. stage = "open" /\ InStep /\ k \in 1..Len(cmds)
  BY DEF ApplyOpen, InStep, SessionInv, SessionTyped, IsArray
<1>2. PICK c, side, qty : c = cmds[k].contract /\ side = cmds[k].side /\ qty = cmds[k].qty
  OBVIOUS
<1>3. c \in DOMAIN Snapshot /\ side \in Sides /\ qty \in Nat \ {0}
  BY <1>1, <1>2, EntryIs
<1>4. PICK terms : terms = Ioc(c, side)
  OBVIOUS
<1>5. PICK lot : lot = FillsWithin(c, side, qty, terms.limit)
  OBVIOUS
<1>6. c \in Contracts /\ IsNaive(lot, side, qty, Snapshot[c].mid)
  BY <1>1, <1>3, <1>5, NaiveIs
<1>7. lot = FillsOf(c, side, qty)
  BY <1>4, <1>5 DEF Ioc, FillsOf
<1>8. SubmitOpen(c, side, qty, terms)
  BY <1>2, <1>4 DEF ApplyOpen, OpenLeg, Command
<1>9. ~Abort
  BY DEF Abort
<1>10. PICK leg : leg = NewLeg(c, side, lot, trades)
  OBVIOUS
<1>11. /\ inventory' = Append(inventory, leg) /\ trades' = trades + 1
       /\ working' = Remainder(c, side, qty, terms, lot, [action |-> "open", id |-> trades])
       /\ UNCHANGED <<mode, tape, marks, pc>>
  BY <1>5, <1>6, <1>8, <1>9, <1>10 DEF SubmitOpen, Route, settleVars, IsNaive
<1>12. working' = working
  BY <1>4, <1>11 DEF Remainder, Ioc
<1>13. leg \in Legs /\ leg.contract = c /\ leg.id = trades
  <2>1. PICK mid \in Int : mid = Snapshot[c].mid /\ IsOrder(lot, side, mid) /\ lot # <<>>
    BY <1>6 DEF IsNaive
  <2>2. trades \in Nat
    BY DEF SessionInv, SessionTyped
  <2>3. QED
    BY <1>3, <1>6, <1>10, <2>1, <2>2, NewLegIs
<1>14. lot[1].side = side /\ lot[1].qty = qty
  BY <1>6 DEF IsNaive
<1>15. QED
  BY <1>2, <1>7, <1>11, <1>12, <1>13, <1>14

\* An order of the session that the ledger refuses.
LEMMA RefusedKeeps ==
  ASSUME SessionInv, Abort, stage \in {"open", "apply"}, UNCHANGED <<script, spec, policy, recordVars>>,
         UNCHANGED <<cmds, k, exitsEnd>>, stage' = "over", error' = "arithmetic"
  PROVE  SessionInv'
<1>1. UNCHANGED readVars /\ pc' = "failed"
  BY DEF Abort, readVars, bookVars, settleVars
<1>2. IsArray(cmds') /\ k' \in Nat \ {0} /\ exitsEnd' \in Nat
  BY DEF SessionInv, SessionTyped, IsArray
<1>3. ExitsAre'
  BY DEF ExitsAre
<1>4. QED
  BY <1>1, <1>2, <1>3, OverKeeps

LEMMA ApplyOpenKeeps ==
  ASSUME SessionInv, ApplyOpen
  PROVE  SessionInv'
<1>1. /\ stage = "open" /\ InStep /\ k \in 1..Len(cmds) /\ n = 1 /\ error = "none" /\ pc = "trade"
      /\ UNCHANGED <<script, spec, policy, cmds, exitsEnd, closed, terminals>>
  BY DEF ApplyOpen, InStep, SessionInv, SessionTyped, Phased, IsArray, inputVars
<1>2. CASE pc' = "failed"
  <2>1. Abort
    <3>1. pc # "failed"
      BY <1>1
    <3>2. QED
      BY <1>2, <3>1 DEF ApplyOpen, OpenLeg, SubmitOpen
  <2>2. stage' = "over" /\ error' = "arithmetic" /\ k' = k /\ fills' = fills
    BY <1>2 DEF ApplyOpen, Proceed
  <2>3. QED
    BY <1>1, <2>1, <2>2, RefusedKeeps DEF recordVars
<1>3. CASE pc' # "failed"
  <2>1. PICK lot, leg :
          /\ lot = FillsOf(cmds[k].contract, cmds[k].side, cmds[k].qty)
          /\ lot[1].side = cmds[k].side /\ lot[1].qty = cmds[k].qty
          /\ leg \in Legs /\ leg.contract = cmds[k].contract /\ leg.id = trades
          /\ inventory' = Append(inventory, leg)
          /\ trades' = trades + 1
          /\ UNCHANGED <<mode, working, tape, marks, pc>>
    BY <1>3, OpenIs
  <2>2. k' = k + 1 /\ stage' = stage /\ error' = error
    BY <1>3 DEF ApplyOpen, Proceed
  <2>3. PICK r : r = Record(cmds[k], lot[1], trades) /\ fills' = Append(fills, r)
    BY <1>3, <2>1 DEF ApplyOpen, Command
  <2>4. n' = n /\ Snapshot' = Snapshot
    BY <2>1, SameTape
  <2>5. PICK z \in Nat : z = Len(inventory) /\ DOMAIN inventory = 1..z
    BY DEF SessionInv, SessionTyped
  <2>6. /\ inventory' \in Seq(Legs) /\ DOMAIN inventory' = 1..(z + 1)
        /\ \A i \in 1..z : inventory'[i] = inventory[i]
        /\ inventory'[z + 1] = leg
    BY <2>1, <2>5 DEF SessionInv, SessionTyped
  <2>7. /\ IsArray(fills') /\ Len(fills') = Len(fills) + 1 /\ DOMAIN fills' = 1..(Len(fills) + 1)
        /\ \A i \in 1..Len(fills) : fills'[i] = fills[i]
        /\ fills'[Len(fills) + 1] = r
    BY <2>3, ListAppend DEF SessionInv, SessionTyped
  <2>8. /\ trades \in Nat /\ trades = Len(fills) /\ Len(fills) = k - 1 /\ Entering /\ k <= Len(cmds)
        /\ DOMAIN fills = 1..Len(fills) /\ k \in Nat /\ Len(cmds) \in Nat
    BY <1>1, ListType DEF SessionInv, SessionTyped, Numbered, Enters, IsArray
  <2>9. SessionTyped'
    <3>1. SessionTyped
      BY DEF SessionInv
    <3>2. /\ mode' = "naive" /\ working' = <<>> /\ stage' \in Stages
          /\ script' \in Scripts /\ spec' \in Specs /\ policy' \in Policies
      BY <1>1, <2>1, <2>2, <3>1 DEF SessionTyped
    <3>3. tape' \in Seq(Snapshots) /\ n' <= Len(Days)
      BY <2>1, <2>4, <3>1 DEF SessionTyped
    <3>4. trades' \in Nat /\ k' \in Nat \ {0} /\ exitsEnd' \in Nat
      BY <1>1, <2>1, <2>2, <2>8, <3>1 DEF SessionTyped
    <3>5. IsArray(cmds)' /\ IsArray(closed)' /\ IsArray(terminals)'
      BY <1>1, <3>1 DEF SessionTyped, IsArray
    <3>6. IsArray(fills)'
      BY <2>7 DEF IsArray
    <3>7. QED
      BY <2>6, <3>2, <3>3, <3>4, <3>5, <3>6 DEF SessionTyped
  <2>10. Phased'
    BY <1>1, <2>1, <2>2, <2>4 DEF SessionInv, Phased, InStep, Built
  <2>11. Numbered'
    <3>1. Identified'
      <4>1. \A i \in 1..z : inventory[i].id < trades /\ inventory[i].id \in Nat
        <5>1. \A i \in 1..z : inventory[i].id < trades
          BY <2>5 DEF SessionInv, Numbered, Identified
        <5>2. \A i \in 1..z : inventory[i].id \in Nat
          BY <2>5, LegFacts DEF SessionInv, SessionTyped
        <5>3. QED
          BY <5>1, <5>2
      <4>2. \A i \in DOMAIN inventory' : inventory'[i].id < trades'
        <5>1. ASSUME NEW i \in 1..(z + 1) PROVE inventory'[i].id < trades + 1
          <6>1. CASE i = z + 1
            BY <2>1, <2>6, <2>8, <6>1
          <6>2. CASE i \in 1..z
            BY <2>6, <2>8, <4>1, <6>2
          <6>3. QED
            BY <6>1, <6>2
        <5>2. QED
          BY <2>1, <2>6, <5>1
      <4>3. ASSUME NEW i \in 1..(z + 1), NEW j \in 1..(z + 1), i # j
            PROVE  inventory'[i].id # inventory'[j].id
        <5>1. CASE i \in 1..z /\ j \in 1..z
          BY <2>5, <2>6, <4>3, <5>1 DEF SessionInv, Numbered, Identified
        <5>2. CASE i = z + 1 /\ j \in 1..z
          BY <2>1, <2>6, <2>8, <4>1, <5>2
        <5>3. CASE i \in 1..z /\ j = z + 1
          BY <2>1, <2>6, <2>8, <4>1, <5>3
        <5>4. QED
          BY <4>3, <5>1, <5>2, <5>3
      <4>4. QED
        BY <2>6, <4>2, <4>3 DEF Identified
    <3>2. \A i \in DOMAIN terminals : /\ terminals[i].position < trades /\ terminals[i].position \in Nat
                                      /\ \A j \in DOMAIN inventory : inventory[j].id # terminals[i].position
      BY DEF SessionInv, Numbered
    <3>3. ASSUME NEW i \in DOMAIN terminals', NEW j \in DOMAIN inventory'
          PROVE  inventory'[j].id # terminals'[i].position
      <4>1. CASE j = z + 1
        BY <1>1, <2>1, <2>6, <2>8, <3>2, <4>1
      <4>2. CASE j \in 1..z
        BY <1>1, <2>5, <2>6, <3>2, <4>2
      <4>3. QED
        BY <2>6, <4>1, <4>2
    <3>4. \A i \in DOMAIN terminals' : terminals'[i].position < trades' /\ terminals'[i].position \in Nat
      BY <1>1, <2>1, <2>8, <3>2
    <3>5. trades' = Len(fills')
      BY <2>1, <2>7, <2>8
    <3>6. \A i, j \in DOMAIN terminals' : terminals'[i].position = terminals'[j].position => i = j
      BY <1>1 DEF SessionInv, Numbered
    <3>7. QED
      BY <3>1, <3>3, <3>4, <3>5, <3>6 DEF Numbered
  <2>12. MarksHold'
    <3>1. ASSUME NEW i \in DOMAIN inventory'
          PROVE  inventory'[i].contract \in DOMAIN Snapshot' \/ MarkHolds(inventory[i].contract, n - 1)'
      <4>1. CASE i = z + 1
        BY <1>1, <2>1, <2>4, <2>6, <4>1, EntryIs
      <4>2. CASE i \in 1..z
        <5>1. PICK c, m : c = inventory[i].contract /\ m = n - 1
          OBVIOUS
        <5>2. c \in DOMAIN Snapshot \/ MarkHolds(c, m)
          BY <1>1, <2>5, <4>2, <5>1 DEF SessionInv, MarksHold
        <5>3. MarkHolds(c, m)' = MarkHolds(c, m)
          BY <2>1, SameTape DEF MarkHolds
        <5>4. inventory'[i].contract = c /\ n' - 1 = m
          BY <2>4, <2>6, <4>2, <5>1
        <5>5. MarkHolds(inventory[i].contract, n - 1)' <=> MarkHolds(c, m)'
          BY <5>4 DEF MarkHolds, Quoted, SeenIn, LastSeen
        <5>6. QED
          BY <2>4, <5>2, <5>3, <5>4, <5>5
      <4>3. QED
        BY <2>6, <4>1, <4>2
    <3>2. QED
      BY <1>1, <2>2, <3>1 DEF MarksHold
  <2>13. Enters'
    <3>1. EntryFails(spec)' = EntryFails(spec) /\ Entries(spec)' = Entries(spec)
      BY <1>1, <2>1, SameEntries
    <3>2. ASSUME NEW i \in 1..Len(fills') PROVE OpensAs(fills[i], EngineLegs(spec)[i], i)'
      <4>1. CASE i \in 1..Len(fills)
        <5>1. OpensAs(fills[i], EngineLegs(spec)[i], i)
          BY <2>8, <4>1 DEF Entering
        <5>2. QED
          BY <1>1, <2>7, <4>1, <5>1 DEF OpensAs
      <4>2. CASE i = k
        <5>1. r.order = k - 1 /\ r.position = k - 1 /\ r.side = cmds[k].side /\ r.qty = cmds[k].qty
          BY <2>1, <2>3, <2>8 DEF Record
        <5>2. /\ r.contract.strike = Strike[cmds[k].contract]
              /\ r.contract.style = Style[cmds[k].contract]
              /\ r.contract.expiration = Expiry[cmds[k].contract]
          BY <2>3 DEF Record, Key
        <5>3. OpensAs(r, EngineLegs(spec)[k], k)
          BY <1>1, <5>1, <5>2, EntryIs DEF OpensAs
        <5>4. fills'[i] = r
          BY <2>7, <2>8, <4>2
        <5>5. QED
          BY <1>1, <4>2, <5>3, <5>4 DEF OpensAs
      <4>3. i \in 1..Len(fills) \/ i = k
        BY <2>7, <2>8
      <4>4. QED
        BY <4>1, <4>2, <4>3
    <3>3. Entering'
      BY <2>7, <3>2 DEF Entering
    <3>4. Len(fills') = k' - 1 /\ k' <= Len(cmds') + 1
      BY <1>1, <2>2, <2>7, <2>8
    <3>5. ~EntryFails(spec) /\ cmds = Entries(spec)
      BY <1>1 DEF SessionInv, Enters
    <3>6. QED
      BY <1>1, <2>2, <3>1, <3>3, <3>4, <3>5 DEF Enters
  <2>14. Queued' /\ ExitsAre'
    BY <1>1, <2>2 DEF Queued, ExitsAre
  <2>15. Justified'
    BY <1>1, <2>2, <2>4 DEF SessionInv, Justified
  <2>16. QED
    BY <2>9, <2>10, <2>11, <2>12, <2>13, <2>14, <2>15 DEF SessionInv
<1>4. QED
  BY <1>2, <1>3
-----------------------------------------------------------------------------
(* A fill that closes.                                                     *)

\* The legs without the j-th, which q finds among those before.
IsRest(rest, inv, j, q) ==
  /\ rest \in Seq(Legs)
  /\ \A i \in DOMAIN rest : q[i] \in DOMAIN inv /\ q[i] # j /\ rest[i] = inv[q[i]]
  /\ \A i, l \in DOMAIN rest : q[i] = q[l] => i = l
  /\ \A l \in DOMAIN inv : l # j => \E i \in DOMAIN rest : q[i] = l

LEMMA RestIs ==
  ASSUME NEW inv \in Seq(Legs), NEW j \in DOMAIN inv
  PROVE  \E q : IsRest(WithoutLeg(inv, j), inv, j, q)
<1>1. PICK rest : rest = WithoutLeg(inv, j)
  OBVIOUS
<1>2. PICK z \in Nat : Len(inv) = z + 1 /\ DOMAIN inv = 1..(z + 1)
  <2>1. PICK y \in Nat : y = Len(inv) /\ DOMAIN inv = 1..y /\ y > 0
    OBVIOUS
  <2>2. y - 1 \in Nat /\ (y - 1) + 1 = y
    BY <2>1
  <2>3. QED
    BY <2>1, <2>2
<1>3. /\ rest \in Seq(Legs) /\ DOMAIN rest = 1..z
      /\ \A i \in 1..z : rest[i] = IF i < j THEN inv[i] ELSE inv[i + 1]
  <2>1. (z + 1) - 1 = z
    OBVIOUS
  <2>2. /\ rest \in Seq(Legs) /\ Len(rest) = z
        /\ \A i \in 1..z : rest[i] = IF i < j THEN inv[i] ELSE inv[i + 1]
    BY <1>1, <1>2, <2>1, WithoutIs
  <2>3. QED
    BY <2>2
<1>4. PICK q : q = [i \in 1..z |-> IF i < j THEN i ELSE i + 1]
  OBVIOUS
<1>5. j \in 1..(z + 1)
  BY <1>2
<1>6. \A i \in 1..z : q[i] \in 1..(z + 1) /\ q[i] # j /\ rest[i] = inv[q[i]]
  BY <1>3, <1>4, <1>5
<1>7. \A i, l \in 1..z : q[i] = q[l] => i = l
  BY <1>4, <1>5
<1>8. ASSUME NEW l \in 1..(z + 1), l # j PROVE \E i \in 1..z : q[i] = l
  <2>1. CASE l < j
    <3>1. l \in 1..z /\ q[l] = l
      BY <1>4, <1>5, <2>1
    <3>2. QED
      BY <3>1
  <2>2. CASE ~(l < j)
    <3>1. l - 1 \in 1..z /\ q[l - 1] = l
      BY <1>4, <1>5, <1>8, <2>2
    <3>2. QED
      BY <3>1
  <2>3. QED
    BY <2>1, <2>2
<1>9. IsRest(rest, inv, j, q)
  BY <1>2, <1>3, <1>6, <1>7, <1>8 DEF IsRest
<1>10. QED
  BY <1>1, <1>9

\* The leg that the next command of the queue closes.
LEMMA NextClose ==
  ASSUME SessionInv, stage = "apply", k <= Len(cmds)
  PROVE  \E j \in DOMAIN inventory :
           /\ Orders(k, j) /\ IndexOf(cmds[k].id) = {j}
           /\ inventory[j] \in Legs /\ inventory[j].id < trades
           /\ cmds[k].id = inventory[j].id /\ cmds[k].contract = inventory[j].contract
           /\ cmds[k].side = Opposite(inventory[j].side) /\ cmds[k].qty = inventory[j].qty
<1>1. k \in Waiting
  BY DEF SessionInv, SessionTyped, IsArray, Waiting
<1>2. PICK j \in DOMAIN inventory : Orders(k, j)
  BY <1>1 DEF SessionInv, Queued
<1>3. /\ cmds[k].id = inventory[j].id /\ cmds[k].contract = inventory[j].contract
      /\ cmds[k].side = Opposite(inventory[j].side) /\ cmds[k].qty = inventory[j].qty
  BY <1>2 DEF Orders, CloseCommand
<1>4. IndexOf(cmds[k].id) = {j}
  BY <1>3 DEF IndexOf, SessionInv, Numbered, Identified
<1>5. inventory[j] \in Legs /\ inventory[j].id < trades
  BY DEF SessionInv, SessionTyped, Numbered, Identified
<1>6. QED
  BY <1>2, <1>3, <1>4, <1>5

\* What closing it does.
Closed(j, fill) ==
  /\ inventory' = WithoutLeg(inventory, j) /\ trades' = trades + 1
  /\ UNCHANGED <<mode, working, tape, marks, pc>>
  /\ k' = k + 1 /\ stage' = stage /\ error' = error
  /\ fill = FillsOf(inventory[j].contract, cmds[k].side, cmds[k].qty)[1]
  /\ closed' = Append(closed, ClosedTrade(inventory[j], fill))
  /\ fills' = Append(fills, Record(cmds[k], fill, inventory[j].id))
  /\ terminals' = Append(terminals, TerminalRow(inventory[j], cmds[k].qty))

LEMMA CloseIs ==
  ASSUME SessionInv, ApplyClose, NEW j \in DOMAIN inventory, IndexOf(cmds[k].id) = {j},
         Orders(k, j), inventory[j] \in Legs, cmds[k].side = Opposite(inventory[j].side),
         cmds[k].qty = inventory[j].qty
  PROVE  \/ \E fill : Closed(j, fill)
         \/ /\ Abort /\ stage' = "over" /\ error' = "arithmetic" /\ UNCHANGED recordVars
            /\ UNCHANGED <<cmds, k, exitsEnd>>
<1>1. PICK leg \in Legs : leg = inventory[j]
  OBVIOUS
<1>2. PICK side, qty, c : side = Opposite(leg.side) /\ qty = leg.qty /\ c = leg.contract
  OBVIOUS
<1>3. side \in Sides /\ qty \in Nat \ {0} /\ c \in DOMAIN Snapshot
  <2>1. side \in Sides /\ qty \in Nat \ {0}
    BY <1>2, SignType DEF Legs
  <2>2. QED
    BY <1>1, <1>2, <2>1 DEF Orders
<1>4. stage = "apply" /\ InStep /\ pc = "trade"
  BY DEF ApplyClose, InStep, SessionInv, Phased
<1>5. PICK terms : terms = Ioc(c, side)
  OBVIOUS
<1>6. PICK lot : lot = FillsWithin(c, side, qty, terms.limit)
  OBVIOUS
<1>7. IsNaive(lot, side, qty, Snapshot[c].mid)
  BY <1>3, <1>4, <1>6, NaiveIs
<1>8. PICK fill : fill = lot[1]
  OBVIOUS
<1>9. lot = FillsOf(c, side, qty)
  BY <1>5, <1>6 DEF Ioc, FillsOf
<1>10. (CHOOSE i \in IndexOf(cmds[k].id) : TRUE) = j
  OBVIOUS
<1>11. /\ CloseLeg(j, qty) /\ Proceed
       /\ IF pc' = "failed" THEN UNCHANGED recordVars
          ELSE /\ closed' = Append(closed, ClosedTrade(leg, fill))
               /\ fills' = Append(fills, Record(cmds[k], fill, leg.id))
               /\ terminals' = Append(terminals, TerminalRow(leg, qty))
       /\ UNCHANGED <<cmds, exitsEnd>>
  BY <1>1, <1>2, <1>8, <1>9, <1>10 DEF ApplyClose, Command
<1>12. SubmitClose(j, qty, terms)
  BY <1>1, <1>2, <1>5, <1>11 DEF CloseLeg
<1>13. CASE pc' = "failed"
  <2>1. Abort
    <3>1. pc' # pc
      BY <1>4, <1>13
    <3>2. QED
      BY <1>12, <3>1 DEF SubmitClose
  <2>2. QED
    BY <1>11, <1>13, <2>1 DEF Proceed
<1>14. CASE pc' # "failed"
  <2>1. ~Abort
    BY <1>14 DEF Abort
  <2>2. /\ inventory' = Reduced(j, AggregateFills(lot).qty) /\ trades' = trades + 1
        /\ working' = Remainder(c, side, qty, terms, lot, [action |-> "close", id |-> leg.id])
        /\ UNCHANGED <<mode, tape, marks, pc>>
    BY <1>1, <1>2, <1>6, <1>7, <1>12, <2>1 DEF SubmitClose, CloseBy, Route, settleVars, IsNaive
  <2>3. working' = working
    BY <1>5, <2>2 DEF Remainder, Ioc
  <2>4. inventory' = WithoutLeg(inventory, j)
    <3>1. AggregateFills(lot).qty = inventory[j].qty
      BY <1>1, <1>2, <1>7 DEF IsNaive
    <3>2. QED
      BY <2>2, <3>1 DEF Reduced, WithoutLeg
  <2>5. k' = k + 1 /\ stage' = stage /\ error' = error
    BY <1>11, <1>14 DEF Proceed
  <2>6. Closed(j, fill)
    BY <1>1, <1>2, <1>8, <1>9, <1>11, <1>14, <2>2, <2>3, <2>4, <2>5 DEF Closed
  <2>7. QED
    BY <2>6
<1>15. QED
  BY <1>13, <1>14
-----------------------------------------------------------------------------
(* What it leaves of the invariant.                                        *)

\* What is known of a close that the ledger took.
Closing(j, fill, q) ==
  /\ SessionInv /\ stage = "apply" /\ k <= Len(cmds) /\ j \in DOMAIN inventory
  /\ Orders(k, j) /\ inventory[j] \in Legs /\ inventory[j].id < trades
  /\ cmds[k].id = inventory[j].id /\ cmds[k].contract = inventory[j].contract
  /\ cmds[k].qty = inventory[j].qty
  /\ Closed(j, fill) /\ UNCHANGED <<script, spec, policy, cmds, exitsEnd, onEndStart>>
  /\ IsRest(inventory', inventory, j, q)

LEMMA CloseNumbered ==
  ASSUME NEW j, NEW fill, NEW q, Closing(j, fill, q)
  PROVE  Numbered' /\ IsArray(fills') /\ IsArray(closed') /\ IsArray(terminals')
<1> USE DEF Closing
<1>1. /\ trades \in Nat /\ trades' = trades + 1 /\ trades = Len(fills) /\ Identified
      /\ IsArray(fills) /\ IsArray(closed) /\ IsArray(terminals) /\ j \in DOMAIN inventory
  BY DEF SessionInv, SessionTyped, Numbered, Closed
<1>2. IsArray(fills') /\ IsArray(closed') /\ Len(fills') = Len(fills) + 1
  BY <1>1, ListAppend DEF Closed
<1>14. PICK id \in Nat : id = inventory[j].id /\ id < trades
  BY LegFacts
<1>15. PICK row : row = TerminalRow(inventory[j], cmds[k].qty)
  OBVIOUS
<1>3. id = inventory[j].id /\ id < trades /\ row.position = id /\ terminals' = Append(terminals, row)
  <2>1. row.position = id
    BY <1>14, <1>15 DEF TerminalRow
  <2>2. terminals' = Append(terminals, row)
    BY <1>15 DEF Closed
  <2>3. QED
    BY <1>14, <2>1, <2>2
<1>4. PICK m \in Nat : m = Len(terminals) /\ DOMAIN terminals = 1..m
  BY <1>1, ListType
<1>5. /\ IsArray(terminals') /\ DOMAIN terminals' = 1..(m + 1)
      /\ \A i \in 1..m : terminals'[i] = terminals[i]
      /\ terminals'[m + 1] = row
  BY <1>1, <1>3, <1>4, ListAppend
<1>6. \A i \in DOMAIN inventory' :
        q[i] \in DOMAIN inventory /\ q[i] # j /\ inventory'[i] = inventory[q[i]]
  BY DEF IsRest
<1>7. Identified'
  <2>1. ASSUME NEW i \in DOMAIN inventory' PROVE inventory'[i].id < trades'
    <3>1. inventory'[i].id = inventory[q[i]].id /\ q[i] \in DOMAIN inventory
      BY <1>6
    <3>2. inventory[q[i]].id \in Nat /\ inventory[q[i]].id < trades
      BY <1>1, <3>1, LegFacts DEF SessionInv, SessionTyped, Identified
    <3>3. QED
      BY <1>1, <3>1, <3>2
  <2>2. ASSUME NEW i \in DOMAIN inventory', NEW l \in DOMAIN inventory', i # l
        PROVE  inventory'[i].id # inventory'[l].id
    <3>1. q[i] # q[l]
      BY <2>2 DEF IsRest
    <3>2. QED
      BY <1>1, <1>6, <3>1 DEF Identified
  <2>3. QED
    BY <2>1, <2>2 DEF Identified
<1>8. \A i \in 1..m : /\ terminals[i].position \in Nat /\ terminals[i].position < trades
                      /\ \A l \in DOMAIN inventory : inventory[l].id # terminals[i].position
  BY <1>4 DEF SessionInv, Numbered
<1>9. \A i \in 1..(m + 1) : i \in 1..m \/ i = m + 1
  OBVIOUS
<1>10. ASSUME NEW i \in 1..(m + 1)
       PROVE  /\ terminals'[i].position \in Nat /\ terminals'[i].position < trades'
              /\ \A l \in DOMAIN inventory' : inventory'[l].id # terminals'[i].position
  <2>1. CASE i \in 1..m
    <3>1. PICK at : at = terminals[i].position
      OBVIOUS
    <3>2. terminals'[i].position = at
      BY <1>5, <2>1, <3>1
    <3>3. at \in Nat /\ at < trades /\ \A l \in DOMAIN inventory : inventory[l].id # at
      BY <1>8, <2>1, <3>1
    <3>4. at < trades'
      BY <1>1, <3>3
    <3>5. \A l \in DOMAIN inventory' : inventory'[l].id # at
      BY <1>6, <3>3
    <3>6. QED
      BY <3>2, <3>3, <3>4, <3>5
  <2>2. CASE i = m + 1
    <3>1. terminals'[i].position = id
      BY <1>3, <1>5, <2>2
    <3>2. \A l \in DOMAIN inventory : l # j => inventory[l].id # id
      BY <1>1, <1>3 DEF Identified
    <3>3. \A l \in DOMAIN inventory' : inventory'[l].id # id
      BY <1>6, <3>2
    <3>4. id < trades'
      BY <1>1, <1>3
    <3>5. QED
      BY <3>1, <3>3, <3>4
  <2>3. QED
    BY <1>9, <2>1, <2>2
<1>11. ASSUME NEW i \in 1..(m + 1), NEW l \in 1..(m + 1),
              terminals'[i].position = terminals'[l].position
       PROVE  i = l
  <2>1. CASE i \in 1..m /\ l \in 1..m
    BY <1>4, <1>5, <1>11, <2>1 DEF SessionInv, Numbered
  <2>2. CASE i = m + 1 /\ l \in 1..m
    BY <1>1, <1>3, <1>5, <1>8, <1>11, <2>2
  <2>3. CASE i \in 1..m /\ l = m + 1
    BY <1>1, <1>3, <1>5, <1>8, <1>11, <2>3
  <2>4. QED
    BY <1>9, <2>1, <2>2, <2>3
<1>12. trades' = Len(fills')
  BY <1>1, <1>2
<1>13. QED
  BY <1>2, <1>5, <1>7, <1>10, <1>11, <1>12 DEF Numbered

LEMMA CloseMarks ==
  ASSUME NEW j, NEW fill, NEW q, Closing(j, fill, q)
  PROVE  MarksHold' /\ n' = n /\ Snapshot' = Snapshot
<1> USE DEF Closing
<1>1. stage = "apply" /\ stage' = stage /\ UNCHANGED <<tape, marks>>
  BY DEF Closed
<1>2. n' = n /\ Snapshot' = Snapshot
  BY <1>1, SameTape
<1>3. ASSUME NEW i \in DOMAIN inventory'
      PROVE  inventory'[i].contract \in DOMAIN Snapshot' \/ MarkHolds(inventory[i].contract, n - 1)'
  <2>1. PICK c, m : c = inventory'[i].contract /\ m = n - 1
    OBVIOUS
  <2>2. q[i] \in DOMAIN inventory /\ inventory[q[i]].contract = c
    BY <2>1 DEF IsRest
  <2>3. c \in DOMAIN Snapshot \/ MarkHolds(c, m)
    BY <1>1, <2>1, <2>2 DEF SessionInv, MarksHold, InStep
  <2>4. MarkHolds(c, m)' = MarkHolds(c, m)
    BY <1>1, SameTape DEF MarkHolds
  <2>5. n' - 1 = m
    BY <1>2, <2>1
  <2>6. MarkHolds(inventory[i].contract, n - 1)' <=> MarkHolds(c, m)'
    BY <2>1, <2>5 DEF MarkHolds, Quoted, SeenIn, LastSeen
  <2>7. QED
    BY <1>2, <2>1, <2>3, <2>4, <2>6
<1>4. QED
  BY <1>1, <1>2, <1>3 DEF MarksHold

LEMMA CloseEnters ==
  ASSUME NEW j, NEW fill, NEW q, Closing(j, fill, q)
  PROVE  Enters'
<1> USE DEF Closing
<1>14. PICK id \in Nat : id = inventory[j].id
  BY LegFacts
<1>15. PICK r : r = Record(cmds[k], fill, id)
  OBVIOUS
<1>1. id = inventory[j].id /\ r = Record(cmds[k], fill, id) /\ fills' = Append(fills, r)
  <2>1. fills' = Append(fills, r)
    BY <1>14, <1>15 DEF Closed
  <2>2. QED
    BY <1>14, <1>15, <2>1
<1>2. /\ trades \in Nat /\ trades = Len(fills) /\ id < trades /\ IsArray(fills)
      /\ DOMAIN fills = 1..Len(fills) /\ error = "none"
  BY <1>1, ListType DEF SessionInv, SessionTyped, Numbered, Phased
<1>3. Entered
  <2>1. fills # <<>>
    BY <1>2, NoArray
  <2>2. QED
    BY <1>2, <2>1 DEF SessionInv, Enters
<1>4. r.order = trades /\ r.position = id
  BY <1>1 DEF Record
<1>5. PICK z \in Nat, m \in Nat : z = Len(fills) /\ m = Len(EngineLegs(spec))
  BY <1>2, LegsOf DEF SessionInv, SessionTyped
<1>6. /\ Len(fills') = z + 1 /\ DOMAIN fills' = 1..(z + 1)
      /\ \A i \in 1..z : fills'[i] = fills[i]
      /\ fills'[z + 1] = r
  BY <1>1, <1>2, <1>5, ListAppend
<1>7. m <= z /\ \A i \in 1..m : OpensAs(fills[i], EngineLegs(spec)[i], i)
  BY <1>3, <1>5 DEF Entered
<1>8. \A i \in 1..m : OpensAs(fills[i], EngineLegs(spec)[i], i)'
  <2>1. ASSUME NEW i \in 1..m PROVE OpensAs(fills[i], EngineLegs(spec)[i], i)'
    <3>1. fills'[i] = fills[i]
      BY <1>6, <1>7
    <3>2. OpensAs(fills[i], EngineLegs(spec)[i], i)
      BY <1>7
    <3>3. QED
      BY <3>1, <3>2 DEF OpensAs
  <2>2. QED
    BY <2>1
<1>9. ASSUME NEW i \in 1..(z + 1), i > m PROVE fills'[i].order # fills'[i].position
  <2>1. CASE i \in 1..z
    BY <1>2, <1>3, <1>5, <1>6, <1>9, <2>1 DEF Entered
  <2>2. CASE i = z + 1
    BY <1>2, <1>4, <1>6, <2>2
  <2>3. QED
    BY <2>1, <2>2
<1>10. m <= z + 1
  BY <1>7
<1>11. Entered'
  BY <1>5, <1>6, <1>8, <1>9, <1>10 DEF Entered
<1>12. stage' # "open"
  BY DEF Closed
<1>13. QED
  BY <1>11, <1>12 DEF Enters

LEMMA CloseQueued ==
  ASSUME NEW j, NEW fill, NEW q, Closing(j, fill, q)
  PROVE  Queued'
<1> USE DEF Closing
<1>1. k \in Nat \ {0} /\ Len(cmds) \in Nat /\ k' = k + 1 /\ cmds' = cmds
  BY DEF SessionInv, SessionTyped, IsArray, Closed
<1>2. k \in Waiting /\ \A i : i \in Waiting' <=> i \in Waiting /\ i # k
  BY <1>1 DEF Waiting
<1>3. /\ \A i \in Waiting : \E l \in DOMAIN inventory : Orders(i, l)
      /\ \A i, l \in Waiting : cmds[i].id = cmds[l].id => i = l
      /\ n = Len(Days) /\ spec.kind # "Caller" =>
           \A l \in DOMAIN inventory : \E i \in Waiting : Orders(i, l)
      /\ onEndStart = exitsEnd
  BY DEF SessionInv, Queued
<1>4. /\ n' = n /\ Snapshot' = Snapshot /\ UNCHANGED <<tape, policy>>
      /\ \A leg : TriggeredOnTape(leg)' = TriggeredOnTape(leg)
  BY SameTape, SameJudged DEF Closed
<1>5. ASSUME NEW i, NEW l \in DOMAIN inventory', Orders(i, q[l]) PROVE Orders(i, l)'
  <2>1. PICK leg : leg = inventory'[l] /\ leg = inventory[q[l]]
    BY DEF IsRest
  <2>2. /\ cmds[i] = CloseCommand(leg, leg.qty) /\ leg.contract \in DOMAIN Snapshot
        /\ i <= exitsEnd <=> TriggeredOnTape(leg)
    BY <1>5, <2>1 DEF Orders
  <2>3. TriggeredOnTape(inventory[l])' <=> TriggeredOnTape(leg)
    <3>1. TriggeredOnTape(inventory[l])' <=> TriggeredOnTape(leg)'
      BY <2>1 DEF TriggeredOnTape, TriggeredFor
    <3>2. QED
      BY <1>4, <3>1
  <2>4. QED
    BY <1>1, <1>4, <2>1, <2>2, <2>3 DEF Orders
<1>6. \A i, l : Orders(i, l) => cmds[i].id = inventory[l].id
  BY DEF Orders, CloseCommand
<1>7. ASSUME NEW i \in Waiting' PROVE \E l \in DOMAIN inventory' : Orders(i, l)'
  <2>1. i \in Waiting /\ i # k
    BY <1>2
  <2>2. PICK l \in DOMAIN inventory : Orders(i, l)
    BY <1>3, <2>1
  <2>3. l # j
    BY <1>2, <1>3, <1>6, <2>1, <2>2
  <2>4. PICK d \in DOMAIN inventory' : q[d] = l
    BY <2>3 DEF IsRest
  <2>5. QED
    BY <1>5, <2>2, <2>4
<1>8. ASSUME n' = Len(Days), spec'.kind # "Caller", NEW l \in DOMAIN inventory'
      PROVE  \E i \in Waiting' : Orders(i, l)'
  <2>1. q[l] \in DOMAIN inventory /\ q[l] # j
    BY DEF IsRest
  <2>2. PICK i \in Waiting : Orders(i, q[l])
    BY <1>3, <1>4, <1>8, <2>1
  <2>3. i # k
    <3>1. inventory[q[l]].id # inventory[j].id
      BY <2>1 DEF SessionInv, Numbered, Identified
    <3>2. QED
      BY <1>6, <2>2, <3>1
  <2>4. QED
    BY <1>2, <1>5, <2>2, <2>3
<1>9. \A i, l \in Waiting' : cmds'[i].id = cmds'[l].id => i = l
  BY <1>1, <1>2, <1>3
<1>10. onEndStart' = exitsEnd'
  BY <1>3
<1>11. QED
  BY <1>7, <1>8, <1>9, <1>10 DEF Queued

LEMMA CloseJustified ==
  ASSUME NEW j, NEW fill, NEW q, Closing(j, fill, q)
  PROVE  Justified'
<1> USE DEF Closing
<1>1. PICK t : t = ClosedTrade(inventory[j], fill) /\ closed' = Append(closed, t)
  BY DEF Closed
<1>2. PICK z \in Nat : /\ z = Len(closed) /\ DOMAIN closed = 1..z /\ DOMAIN closed' = 1..(z + 1)
                       /\ \A i \in 1..z : closed'[i] = closed[i]
                       /\ closed'[z + 1] = t
  <2>1. IsArray(closed)
    BY DEF SessionInv, SessionTyped
  <2>2. DOMAIN closed = 1..Len(closed) /\ Len(closed) \in Nat
    BY <2>1, ListType
  <2>3. /\ DOMAIN closed' = 1..(Len(closed) + 1)
        /\ \A i \in 1..Len(closed) : closed'[i] = closed[i]
        /\ closed'[Len(closed) + 1] = t
    BY <1>1, <2>1, ListAppend
  <2>4. QED
    BY <2>2, <2>3
<1>3. /\ n' = n /\ n \in Nat /\ UNCHANGED <<tape, policy>>
      /\ \A leg : TriggeredOnTape(leg)' = TriggeredOnTape(leg)
  <2>1. n \in Nat /\ UNCHANGED <<tape, policy>>
    BY DEF Closed, SessionInv, SessionTyped, n
  <2>2. QED
    BY <2>1, SameTape, SameJudged
<1>4. t.step = n /\ t.reason = ReasonFor(k)
  BY <1>1 DEF ClosedTrade
<1>5. t.reason = "end_of_data" <=> ~TriggeredOnTape(t)
  <2>1. TriggeredOnTape(t) <=> TriggeredOnTape(inventory[j])
    <3>1. t.contract = inventory[j].contract /\ t.entry = inventory[j].entry /\ t.side = inventory[j].side
      BY <1>1 DEF ClosedTrade
    <3>2. QED
      BY <3>1, JudgedAlike
  <2>2. k <= exitsEnd <=> TriggeredOnTape(inventory[j])
    BY DEF Orders
  <2>3. onEndStart = exitsEnd /\ exitsEnd \in Nat /\ k \in Nat
    BY DEF SessionInv, Queued, SessionTyped
  <2>4. ReasonFor(k) = "end_of_data" <=> ~(k <= exitsEnd)
    BY <2>3, ReasonIsNot DEF ReasonFor
  <2>5. QED
    BY <1>4, <2>1, <2>2, <2>4
<1>6. /\ \A i \in 1..z : closed[i].step \in 0..n
      /\ \A i \in 1..z : closed[i].step = n =>
           (closed[i].reason = "end_of_data" <=> ~TriggeredOnTape(closed[i]))
  BY <1>2 DEF SessionInv, Justified
<1>7. ASSUME NEW i \in 1..(z + 1)
      PROVE  /\ closed'[i].step \in 0..n
             /\ closed'[i].step = n =>
                  (closed'[i].reason = "end_of_data" <=> ~TriggeredOnTape(closed[i])')
  <2>1. PICK u : u = closed'[i]
    OBVIOUS
  <2>2. TriggeredOnTape(closed[i])' <=> TriggeredOnTape(u)
    <3>1. TriggeredOnTape(closed[i])' <=> TriggeredOnTape(u)'
      BY <2>1 DEF TriggeredOnTape, TriggeredFor
    <3>2. QED
      BY <1>3, <3>1
  <2>3. CASE i \in 1..z
    BY <1>2, <1>6, <2>1, <2>2, <2>3
  <2>4. CASE i = z + 1
    BY <1>2, <1>3, <1>4, <1>5, <2>1, <2>2, <2>4
  <2>5. QED
    BY <2>3, <2>4
<1>8. stage' = "apply"
  BY DEF Closed
<1>9. QED
  BY <1>2, <1>3, <1>7, <1>8 DEF Justified

LEMMA ApplyCloseKeeps ==
  ASSUME SessionInv, ApplyClose
  PROVE  SessionInv'
<1>1. /\ stage = "apply" /\ k <= Len(cmds) /\ error = "none" /\ pc = "trade" /\ n > 0
      /\ UNCHANGED <<script, spec, policy, cmds, exitsEnd, onEndStart>>
  BY DEF ApplyClose, SessionInv, Phased, InStep, inputVars
<1>2. PICK j \in DOMAIN inventory :
        /\ Orders(k, j) /\ IndexOf(cmds[k].id) = {j}
        /\ inventory[j] \in Legs /\ inventory[j].id < trades
        /\ cmds[k].id = inventory[j].id /\ cmds[k].contract = inventory[j].contract
        /\ cmds[k].side = Opposite(inventory[j].side) /\ cmds[k].qty = inventory[j].qty
  BY <1>1, NextClose
<1>3. CASE /\ Abort /\ stage' = "over" /\ error' = "arithmetic" /\ UNCHANGED recordVars
           /\ UNCHANGED <<cmds, k, exitsEnd>>
  BY <1>1, <1>3, RefusedKeeps
<1>4. CASE \E fill : Closed(j, fill)
  <2>1. PICK fill : Closed(j, fill)
    BY <1>4
  <2>2. PICK q : IsRest(inventory', inventory, j, q)
    <3>1. inventory \in Seq(Legs) /\ inventory' = WithoutLeg(inventory, j)
      BY <2>1 DEF Closed, SessionInv, SessionTyped
    <3>2. PICK q : IsRest(WithoutLeg(inventory, j), inventory, j, q)
      BY <3>1, RestIs
    <3>3. QED
      BY <3>1, <3>2
  <2>3. Closing(j, fill, q)
    BY <1>1, <1>2, <2>1, <2>2 DEF Closing
  <2>4. /\ Numbered' /\ IsArray(fills') /\ IsArray(closed') /\ IsArray(terminals')
        /\ MarksHold' /\ n' = n /\ Enters' /\ Queued' /\ Justified'
    BY <2>3, CloseNumbered, CloseMarks, CloseEnters, CloseQueued, CloseJustified
  <2>5. /\ UNCHANGED <<mode, working, tape, pc>> /\ k' = k + 1 /\ stage' = stage /\ error' = error
        /\ trades' = trades + 1
    BY <2>1 DEF Closed
  <2>6. inventory' \in Seq(Legs)
    BY <2>2 DEF IsRest
  <2>7. SessionTyped'
    BY <1>1, <2>4, <2>5, <2>6 DEF SessionInv, SessionTyped, IsArray
  <2>8. Phased'
    BY <1>1, <2>4, <2>5 DEF SessionInv, Phased, InStep, Built
  <2>9. ExitsAre'
    <3>1. k' # 1
      BY <2>5 DEF SessionInv, SessionTyped
    <3>2. QED
      BY <3>1 DEF ExitsAre
  <2>10. QED
    BY <2>4, <2>7, <2>8, <2>9 DEF SessionInv
<1>5. QED
  BY <1>1, <1>2, <1>3, <1>4, CloseIs
-----------------------------------------------------------------------------
(* Every step of a session, and its theorems.                              *)

LEMMA RestKeeps ==
  ASSUME SessionInv, UNCHANGED allVars
  PROVE  SessionInv'
<1>1. UNCHANGED readVars /\ UNCHANGED queueVars /\ UNCHANGED <<stage, error, pc>>
  BY DEF allVars, vars, bookVars, settleVars, passVars, sessionVars, inputVars, recordVars,
         outVars, queueVars, readVars
<1>2. /\ n' = n /\ Snapshot' = Snapshot /\ Numbered'
      /\ \A c, m : MarkHolds(c, m)' = MarkHolds(c, m)
      /\ \A leg : TriggeredOnTape(leg)' = TriggeredOnTape(leg)
      /\ Entering' = Entering /\ Entered' = Entered
  BY <1>1, StillHolds
<1>3. SessionTyped'
  BY <1>1, <1>2 DEF SessionInv, SessionTyped, IsArray, readVars, recordVars, queueVars
<1>4. Phased'
  BY <1>1, <1>2 DEF SessionInv, Phased, InStep, Built, readVars, recordVars
<1>5. MarksHold'
  BY <1>1, <1>2 DEF SessionInv, MarksHold, InStep, readVars
<1>6. Enters'
  <2>1. EntryFails(spec)' = EntryFails(spec) /\ Entries(spec)' = Entries(spec)
    BY <1>1, SameEntries DEF readVars
  <2>2. QED
    BY <1>1, <1>2, <2>1 DEF SessionInv, Enters, readVars, recordVars, queueVars
<1>7. Queued'
  BY <1>1, <1>2 DEF SessionInv, Queued, Waiting, Orders, readVars, queueVars
<1>8. ExitsAre'
  BY <1>1, <1>2 DEF SessionInv, ExitsAre, readVars, queueVars
<1>9. Justified'
  BY <1>1, <1>2 DEF SessionInv, Justified, readVars, recordVars
<1>10. QED
  BY <1>2, <1>3, <1>4, <1>5, <1>6, <1>7, <1>8, <1>9 DEF SessionInv

\* The session invariant holds of every state (SessionNext, an action at a time).
THEOREM SessionAlways == SessionSpec => []SessionInv
<1>1. SessionInv /\ [SessionNext]_allVars => SessionInv'
  <2> SUFFICES ASSUME SessionInv, [SessionNext]_allVars PROVE SessionInv'
    OBVIOUS
  <2>1. CASE Construct
    BY <2>1, ConstructKeeps
  <2>2. CASE Pull
    BY <2>2, PullKeeps
  <2>3. CASE OnStart
    BY <2>3, OnStartKeeps
  <2>4. CASE Decide
    BY <2>4, DecideKeeps
  <2>5. CASE ApplyOpen
    BY <2>5, ApplyOpenKeeps
  <2>6. CASE ApplyClose
    BY <2>6, ApplyCloseKeeps
  <2>7. CASE EndStep
    BY <2>7, EndStepKeeps
  <2>8. CASE Analyse
    BY <2>8, AnalyseKeeps
  <2>9. CASE AttributeRun
    BY <2>9, AttributeRunKeeps
  <2>10. CASE Publish
    BY <2>10, PublishKeeps
  <2>11. CASE Again
    BY <2>11, AgainKeeps
  <2>12. CASE Alter
    BY <2>12, AlterKeeps
  <2>13. CASE UNCHANGED allVars
    BY <2>13, RestKeeps
  <2>14. QED
    BY <2>1, <2>2, <2>3, <2>4, <2>5, <2>6, <2>7, <2>8, <2>9, <2>10, <2>11, <2>12,
       <2>13 DEF SessionNext
<1>2. QED
  BY SessionStarts, <1>1, PTL DEF SessionSpec

\* The terminal flatten closes every leg once: a built-in strategy finishes with
\* none open, no close names a leg that is not (close_all counts what the exits of
\* the step have queued), and each leg closed in full has one row.
THEOREM OnEndAlwaysFlattens == SessionSpec => []OnEndFlattens
<1>1. SessionInv => OnEndFlattens
  BY DEF SessionInv, Phased, Numbered, OnEndFlattens
<1>2. QED
  BY SessionAlways, <1>1, PTL

\* The exits of a step are those of the policy on the tape, although
\* evaluate_exits reads the marks of the ledger; and a trade says end_of_data
\* just when the policy did not trigger (CloseReasons).
THEOREM ExitsAlwaysJustified == SessionSpec => []ExitsJustified
<1>1. SessionInv => ExitsJustified
  BY DEF SessionInv, ExitsAre, Justified, ExitsJustified
<1>2. QED
  BY SessionAlways, <1>1, PTL
-----------------------------------------------------------------------------
(* The entry is the spec.                                                  *)

\* What the entry is read by: the terms of a fill and those of a leg, as often
\* as each sequence holds them.
Alike(a, b) == Len(a) = Len(b) /\ \A i \in DOMAIN a : TimesIn(a, a[i]) = TimesIn(b, a[i])
Got(f) == <<f.side, f.qty, f.contract.strike, f.contract.style>>
AsWritten(leg) == <<leg.side, leg.qty, leg.strike, leg.style>>

LEMMA AlikeIs ==
  ASSUME NEW m, NEW p, NEW a, NEW b, Permuted(a, b, p, m)
  PROVE  Alike(a, b)
<1>1. Len(a) = m /\ DOMAIN a = 1..m /\ Len(b) = m /\ DOMAIN b = 1..m
  BY FunList DEF Permuted
<1>2. ASSUME NEW x PROVE TimesIn(a, x) = TimesIn(b, x)
  BY <1>1, SameCount
<1>3. QED
  BY <1>1, <1>2 DEF Alike

LEMMA DescribedIs ==
  ASSUME spec \in Specs
  PROVE  Described = [i \in 1..Len(WrittenLegs(spec)) |-> AsWritten(WrittenLegs(spec)[i])]
<1>1. PICK w : w = WrittenLegs(spec) /\ w \in Seq(LegSpecs)
  BY LegsOf
<1>2. CASE spec.kind = "IronCondor"
  <2>1. /\ Len(w) = 4
        /\ AsWritten(w[1]) = <<"Short", spec.quantity, spec.short_call_strike, "Call">>
        /\ AsWritten(w[2]) = <<"Short", spec.quantity, spec.short_put_strike, "Put">>
        /\ AsWritten(w[3]) = <<"Long", spec.quantity, spec.long_call_strike, "Call">>
        /\ AsWritten(w[4]) = <<"Long", spec.quantity, spec.long_put_strike, "Put">>
    BY <1>1, <1>2 DEF WrittenLegs, BuildIronCondor, IronCondorNew, AsWritten
  <2>2. Described = <<AsWritten(w[1]), AsWritten(w[2]), AsWritten(w[3]), AsWritten(w[4])>>
    BY <1>2, <2>1 DEF Described
  <2>3. <<AsWritten(w[1]), AsWritten(w[2]), AsWritten(w[3]), AsWritten(w[4])>> = [i \in 1..4 |-> AsWritten(w[i])]
    OBVIOUS
  <2>4. QED
    BY <1>1, <2>1, <2>2, <2>3
<1>3. CASE spec.kind = "ShortStrangle"
  <2>1. /\ Len(w) = 2
        /\ AsWritten(w[1]) = <<"Short", spec.quantity, spec.call_strike, "Call">>
        /\ AsWritten(w[2]) = <<"Short", spec.quantity, spec.put_strike, "Put">>
    BY <1>1, <1>3 DEF WrittenLegs, BuildShortStrangle, ShortStrangleNew, AsWritten
  <2>2. Described = <<AsWritten(w[1]), AsWritten(w[2])>>
    BY <1>3, <2>1 DEF Described
  <2>3. <<AsWritten(w[1]), AsWritten(w[2])>> = [i \in 1..2 |-> AsWritten(w[i])]
    OBVIOUS
  <2>4. QED
    BY <1>1, <2>1, <2>2, <2>3
<1>4. CASE spec.kind \notin {"IronCondor", "ShortStrangle"}
  <2>1. w = spec.legs
    BY <1>1, <1>4 DEF WrittenLegs
  <2>2. Described = [i \in DOMAIN spec.legs |-> AsWritten(spec.legs[i])]
    BY <1>4 DEF Described, MapSeq, AsWritten
  <2>3. DOMAIN w = 1..Len(w)
    BY <1>1
  <2>4. QED
    BY <1>1, <2>1, <2>2, <2>3
<1>5. QED
  BY <1>2, <1>3, <1>4

\* The fills that opened a leg are the first ones.
LEMMA EntryHead ==
  ASSUME SessionInv, Entered, NEW m \in Nat, m = Len(EngineLegs(spec))
  PROVE  Filter(fills, LAMBDA f : f.order = f.position) = [i \in 1..m |-> fills[i]]
<1>1. PICK H : H = {i \in DOMAIN fills : fills[i].order = fills[i].position}
  OBVIOUS
<1>2. DOMAIN fills = 1..Len(fills) /\ Len(fills) \in Nat
  BY ListType DEF SessionInv, SessionTyped
<1>3. H = 1..m
  <2>1. \A i \in 1..m : i \in DOMAIN fills /\ fills[i].order = fills[i].position
    BY <1>2 DEF Entered, OpensAs
  <2>2. \A i \in DOMAIN fills : fills[i].order = fills[i].position => i \in 1..m
    BY <1>2 DEF Entered
  <2>3. QED
    BY <1>1, <2>1, <2>2
<1>4. Passing(fills, H) = [i \in 1..m |-> fills[i]]
  BY <1>3, FilterHead
<1>5. QED
  BY <1>1, <1>4 DEF Filter, Passing

\* A run that entered opened the legs of its spec and no others, each as often as
\* the spec has it, in whatever order they were written (LegSetStrategy::new sorts
\* them); a leg of an explicit set in the contract of its own expiration.
THEOREM EntryAlwaysSpec == SessionSpec => []EntryIsSpec
<1>1. ASSUME SessionInv, stage \notin {"new", "start", "open", "altered"},
             error # "arithmetic", fills # <<>>
      PROVE  LET opened == Filter(fills, LAMBDA f : f.order = f.position)
             IN  /\ Alike(MapSeq(Got, opened), Described)
                 /\ spec.kind = "Legs" =>
                      Alike(MapSeq(LAMBDA f : <<Got(f), f.contract.expiration>>, opened),
                            [i \in DOMAIN spec.legs |-> <<Described[i], DueDay(spec.legs[i])>>])
  <2>1. Entered /\ spec \in Specs
    BY <1>1 DEF SessionInv, Enters, SessionTyped
  <2>2. PICK m, e, w : m \in Nat /\ e = EngineLegs(spec) /\ w = WrittenLegs(spec) /\ m = Len(e)
                               /\ m = Len(w) /\ w \in Seq(LegSpecs)
    BY <2>1, LegsOf
  <2>10. PICK p : Lists(p, m, 1..m) /\ \A i \in 1..m : e[i] = w[p[i]]
    BY <2>1, <2>2, LegsOf
  <2>3. Lists(p, m, 1..m) /\ \A i \in 1..m : e[i] = w[p[i]] /\ p[i] \in 1..m
    BY <2>10 DEF Lists
  <2>4. PICK opened : /\ opened = Filter(fills, LAMBDA f : f.order = f.position)
                      /\ opened = [i \in 1..m |-> fills[i]]
    BY <1>1, <2>1, <2>2, EntryHead
  <2>5. \A i \in 1..m : OpensAs(fills[i], e[i], i)
    BY <2>1, <2>2 DEF Entered
  <2>11. ASSUME NEW i \in 1..m PROVE Got(fills[i]) = AsWritten(w[p[i]])
    <3>1. Got(fills[i]) = AsWritten(e[i])
      BY <2>5 DEF OpensAs, Got, AsWritten
    <3>2. QED
      BY <2>3, <3>1
  <2>6. Described = [i \in 1..m |-> AsWritten(w[i])]
    BY <2>1, <2>2, DescribedIs
  <2>7. Alike(MapSeq(Got, opened), Described)
    <3>1. PICK a, b : a = MapSeq(Got, opened) /\ b = Described
      OBVIOUS
    <3>2. a = [i \in 1..m |-> Got(fills[i])]
      BY <2>4, <3>1 DEF MapSeq
    <3>3. a = [i \in 1..m |-> a[i]] /\ b = [i \in 1..m |-> b[i]]
      BY <2>6, <3>1, <3>2
    <3>4. ASSUME NEW i \in 1..m PROVE a[i] = b[p[i]]
      BY <2>3, <2>6, <2>11, <3>1, <3>2
    <3>5. Permuted(a, b, p, m)
      BY <2>2, <2>3, <3>3, <3>4 DEF Permuted
    <3>6. QED
      BY <3>1, <3>5, AlikeIs
  <2>8. ASSUME spec.kind = "Legs"
        PROVE  Alike(MapSeq(LAMBDA f : <<Got(f), f.contract.expiration>>, opened),
                     [i \in DOMAIN spec.legs |-> <<Described[i], DueDay(spec.legs[i])>>])
    <3>1. PICK a, b : /\ a = MapSeq(LAMBDA f : <<Got(f), f.contract.expiration>>, opened)
                      /\ b = [i \in DOMAIN spec.legs |-> <<Described[i], DueDay(spec.legs[i])>>]
      OBVIOUS
    <3>2. w = spec.legs /\ DOMAIN w = 1..m
      BY <2>2, <2>8 DEF WrittenLegs
    <3>3. /\ a = [i \in 1..m |-> <<Got(fills[i]), fills[i].contract.expiration>>]
          /\ b = [i \in 1..m |-> <<AsWritten(w[i]), DueDay(w[i])>>]
      BY <2>4, <2>6, <3>1, <3>2 DEF MapSeq
    <3>4. a = [i \in 1..m |-> a[i]] /\ b = [i \in 1..m |-> b[i]]
      BY <3>3
    <3>5. ASSUME NEW i \in 1..m PROVE a[i] = b[p[i]]
      <4>1. fills[i].contract.expiration = DueDay(w[p[i]])
        BY <2>3, <2>5, <2>8 DEF OpensAs
      <4>2. QED
        BY <2>3, <2>11, <3>3, <4>1
    <3>6. Permuted(a, b, p, m)
      BY <2>2, <2>3, <3>4, <3>5 DEF Permuted
    <3>7. QED
      BY <3>1, <3>6, AlikeIs
  <2>9. QED
    BY <2>4, <2>7, <2>8
<1>2. SessionInv => EntryIsSpec
  BY <1>1 DEF EntryIsSpec, Alike, TimesIn, Got
<1>3. QED
  BY SessionAlways, <1>2, PTL
=============================================================================
