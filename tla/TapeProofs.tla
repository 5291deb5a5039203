----------------------------- MODULE TapeProofs -----------------------------
(***************************************************************************)
(* The tape, for every value of the constants: it is what its files or its *)
(* walk say (TapeIsValid), what was recorded of it brings it back          *)
(* (Reproduces), and the loop replays all of it, once (PlaysTape).         *)
(*                                                                         *)
(* TapeInv is inductive.  Typed and Fed are of the variables, the cursor   *)
(* and the clock.  Told says what the identity hashes in each phase: the   *)
(* listing up to the file that is open, in name order, of which the tape   *)
(* is the reading (IsTapeOf).  Walked says the same of a walk and its      *)
(* drain.  Kept is what the first round leaves to the second.  Same and    *)
(* Opens are of a second round that finds nothing written since the first  *)
(* began: its listing, the bytes it has counted and its tape are then a    *)
(* part of the first one's, so no ceiling and no check can turn it away.   *)
(*                                                                         *)
(* The rest is about what is read.  One ascending list has a given set of  *)
(* names (OneOrder), groups of rows follow each other without a gap        *)
(* (GroupsInOrder), as many keys as quotes make each row a quote of its    *)
(* own (QuotesAre), and equal hashes are of equal snapshots (HashTells).   *)
(***************************************************************************)
EXTENDS Tape, Sums, FunctionTheorems, SequenceTheorems

-----------------------------------------------------------------------------
(* Lists, and places in an order.                                          *)

\* A list is a sequence of its elements.
LEMMA ListIsSeq ==
  ASSUME NEW s, IsList(s)
  PROVE  /\ Len(s) \in Nat /\ DOMAIN s = 1..Len(s)
         /\ s \in Seq({s[i] : i \in DOMAIN s})
<1>1. Len(s) \in Nat /\ s = [i \in 1..Len(s) |-> s[i]]
  BY Zenon DEF IsList
<1>2. DOMAIN s = 1..Len(s)
  BY <1>1
<1> DEFINE S == {s[i] : i \in DOMAIN s}
<1>3. s \in [1..Len(s) -> S]
  BY <1>1, <1>2
<1>4. s \in Seq(S)
  BY <1>1, <1>3, SeqDef
<1>5. QED
  BY <1>1, <1>2, <1>4

\* A sequence is a list.
LEMMA SeqIsList ==
  ASSUME NEW S, NEW s \in Seq(S)
  PROVE  IsList(s) /\ \A i \in DOMAIN s : s[i] \in S
<1>1. Len(s) \in Nat /\ DOMAIN s = 1..Len(s) /\ s \in [1..Len(s) -> S]
  BY LenProperties
<1>2. s = [i \in 1..Len(s) |-> s[i]]
  BY <1>1
<1>3. QED
  BY <1>1, <1>2 DEF IsList

\* A function on an interval from 1 is a list.
LEMMA ListOf ==
  ASSUME NEW k \in Nat, NEW f, f = [i \in 1..k |-> f[i]]
  PROVE  IsList(f) /\ Len(f) = k /\ DOMAIN f = 1..k
<1> DEFINE S == {f[i] : i \in 1..k}
<1>1. f \in [1..k -> S]
  OBVIOUS
<1>2. f \in Seq(S)
  BY <1>1, SeqDef
<1>3. Len(f) = k /\ DOMAIN f = 1..k
  BY <1>1, <1>2, LenProperties
<1>4. QED
  BY <1>2, <1>3, SeqIsList

\* Two lists of one length with the same elements are one.
LEMMA SameList ==
  ASSUME NEW s, NEW t, IsList(s), IsList(t), Len(s) = Len(t),
         \A i \in 1..Len(s) : s[i] = t[i]
  PROVE  s = t
<1>1. s = [i \in 1..Len(s) |-> s[i]] /\ t = [i \in 1..Len(s) |-> t[i]]
  BY DEF IsList
<1>2. [i \in 1..Len(s) |-> s[i]] = [i \in 1..Len(s) |-> t[i]]
  OBVIOUS
<1>3. QED
  BY <1>1, <1>2

\* The elements of D up to i, in the order of f.
UpTo(D, f, i) == {j \in D : f[j] <= f[i]}

\* Of n things in a strict order one is the first, one the second, up to the n-th.
LEMMA Places ==
  ASSUME NEW D, IsFiniteSet(D), NEW f, \A i \in D : f[i] \in Int,
         \A i, j \in D : f[i] = f[j] => i = j
  PROVE  /\ Cardinality(D) \in Nat
         /\ \A i \in D : Cardinality(UpTo(D, f, i)) \in 1..Cardinality(D)
         /\ \A i, j \in D : f[i] < f[j] =>
              Cardinality(UpTo(D, f, i)) < Cardinality(UpTo(D, f, j))
         /\ \A k \in 1..Cardinality(D) : \E i \in D : Cardinality(UpTo(D, f, i)) = k
<1> DEFINE m == Cardinality(D)
           rank == [i \in D |-> Cardinality(UpTo(D, f, i))]
<1>1. m \in Nat
  BY FS_CardinalityType
<1>2. ASSUME NEW i \in D
      PROVE  IsFiniteSet(UpTo(D, f, i)) /\ Cardinality(UpTo(D, f, i)) \in 1..m
  <2>1. UpTo(D, f, i) \in SUBSET D /\ i \in UpTo(D, f, i)
    BY DEF UpTo
  <2>2. IsFiniteSet(UpTo(D, f, i)) /\ Cardinality(UpTo(D, f, i)) <= m
    BY <2>1, FS_Subset
  <2>3. Cardinality(UpTo(D, f, i)) \in Nat /\ Cardinality(UpTo(D, f, i)) # 0
    BY <2>1, <2>2, FS_CardinalityType, FS_EmptySet
  <2>4. QED
    BY <1>1, <2>2, <2>3
<1>3. ASSUME NEW i \in D, NEW j \in D, f[i] < f[j]
      PROVE  Cardinality(UpTo(D, f, i)) < Cardinality(UpTo(D, f, j))
  <2>1. UpTo(D, f, i) \in SUBSET UpTo(D, f, j)
    BY <1>3 DEF UpTo
  <2>2. j \in UpTo(D, f, j) /\ j \notin UpTo(D, f, i)
    BY <1>3 DEF UpTo
  <2>3. /\ Cardinality(UpTo(D, f, i)) <= Cardinality(UpTo(D, f, j))
        /\ Cardinality(UpTo(D, f, i)) # Cardinality(UpTo(D, f, j))
    BY <1>2, <2>1, <2>2, FS_Subset
  <2>4. QED
    BY <1>1, <1>2, <2>3
<1>4. rank \in Injection(D, 1..m)
  <2>1. rank \in [D -> 1..m]
    BY <1>2
  <2>2. ASSUME NEW i \in D, NEW j \in D, rank[i] = rank[j]
        PROVE  i = j
    <3>1. ~(f[i] < f[j]) /\ ~(f[j] < f[i])
      BY <1>2, <1>3, <2>2
    <3>2. QED
      BY <3>1
  <2>3. QED
    BY <2>1, <2>2, Fun_IsInj
<1>5. rank \in Surjection(D, 1..m)
  <2>1. IsFiniteSet(1..m) /\ Cardinality(1..m) = m
    BY <1>1, FS_Interval
  <2>2. QED
    BY <1>4, <2>1, FS_Injection
<1>6. \A k \in 1..m : \E i \in D : rank[i] = k
  BY <1>5 DEF Surjection
<1>7. QED
  BY <1>1, <1>2, <1>3, <1>6

-----------------------------------------------------------------------------
(* The replay order.                                                       *)

\* Names in ascending order.
Ascending(names) == \A i, j \in DOMAIN names : i < j => names[i] < names[j]
Distinct(names) == \A i, j \in DOMAIN names : names[i] = names[j] => i = j
NamesOf(names) == {names[i] : i \in DOMAIN names}

\* Sorted lists the same names in ascending order, each once.
LEMMA SortedOrder ==
  ASSUME NEW names, IsList(names), Distinct(names), \A i \in DOMAIN names : names[i] \in Int
  PROVE  /\ IsList(Sorted(names)) /\ Len(Sorted(names)) = Len(names)
         /\ NamesOf(Sorted(names)) = NamesOf(names)
         /\ Ascending(Sorted(names)) /\ Distinct(Sorted(names))
<1> DEFINE D == DOMAIN names
           rank == [i \in D |-> Cardinality({j \in D : names[j] <= names[i]})]
           at == [k \in D |-> CHOOSE i \in D : rank[i] = k]
           s == Sorted(names)
<1>1. Len(names) \in Nat /\ D = 1..Len(names)
  BY ListIsSeq
<1>2. IsFiniteSet(D) /\ Cardinality(D) = Len(names)
  BY <1>1, FS_Interval
<1>3. /\ \A i \in D : rank[i] \in D
      /\ \A i, j \in D : names[i] < names[j] => rank[i] < rank[j]
      /\ \A k \in D : \E i \in D : rank[i] = k
  <2>1. \A i \in D : rank[i] = Cardinality(UpTo(D, names, i))
    BY DEF UpTo
  <2>2. /\ \A i \in D : Cardinality(UpTo(D, names, i)) \in 1..Cardinality(D)
        /\ \A i, j \in D : names[i] < names[j] =>
             Cardinality(UpTo(D, names, i)) < Cardinality(UpTo(D, names, j))
        /\ \A k \in 1..Cardinality(D) : \E i \in D : Cardinality(UpTo(D, names, i)) = k
    BY <1>2, Places DEF Distinct
  <2> HIDE DEF rank
  <2>3. QED
    BY <1>1, <1>2, <2>1, <2>2
<1>4. s = [k \in D |-> names[at[k]]]
  BY DEF Sorted
<1> HIDE DEF rank
<1>5. \A k \in D : at[k] \in D /\ rank[at[k]] = k
  BY <1>3
<1> HIDE DEF at, s
<1>6. \A i \in D : at[rank[i]] = i
  <2>1. SUFFICES ASSUME NEW i \in D PROVE at[rank[i]] = i
    OBVIOUS
  <2>2. rank[i] \in D /\ rank[i] \in Int
    BY <1>1, <1>3
  <2>3. PICK x \in D : x = at[rank[i]] /\ rank[x] = rank[i]
    BY <1>5, <2>2
  <2>4. /\ names[i] < names[x] => rank[i] < rank[x]
        /\ names[x] < names[i] => rank[x] < rank[i]
    BY <1>3, <2>3
  <2>5. names[i] = names[x]
    <3>1. names[i] \in Int /\ names[x] \in Int
      BY <2>3
    <3>2. QED
      BY <2>2, <2>3, <2>4, <3>1
  <2>6. QED
    BY <2>3, <2>5 DEF Distinct
<1>7. IsList(s) /\ Len(s) = Len(names) /\ DOMAIN s = D
  BY <1>1, <1>4, ListOf
<1>8. NamesOf(s) = NamesOf(names)
  <2>1. \A k \in D : s[k] = names[at[k]]
    BY <1>4
  <2>2. \A k \in D : s[k] \in NamesOf(names)
    BY <1>5, <2>1 DEF NamesOf
  <2>3. \A i \in D : rank[i] \in D /\ s[rank[i]] = names[i]
    BY <1>3, <1>6, <2>1
  <2>4. QED
    BY <1>7, <2>2, <2>3 DEF NamesOf
<1>9. Ascending(s)
  <2>1. SUFFICES ASSUME NEW i \in D, NEW j \in D, i < j PROVE s[i] < s[j]
    BY <1>7 DEF Ascending
  <2>2. at[i] \in D /\ at[j] \in D /\ rank[at[i]] = i /\ rank[at[j]] = j
    BY <1>5
  <2>3. names[at[i]] \in Int /\ names[at[j]] \in Int
    BY <2>2
  <2>4. i \in Int /\ j \in Int
    BY <1>1
  <2>5. names[at[i]] # names[at[j]]
    BY <2>1, <2>2, <2>4 DEF Distinct
  <2>6. ASSUME names[at[j]] < names[at[i]] PROVE FALSE
    <3>1. rank[at[j]] < rank[at[i]]
      BY <1>3, <2>2, <2>6
    <3>2. QED
      BY <2>1, <2>2, <2>4, <3>1
  <2>7. QED
    BY <1>4, <2>3, <2>5, <2>6
<1>10. Distinct(s)
  BY <1>1, <1>4, <1>5, <1>6, <1>7, <1>9 DEF Ascending, Distinct
<1>11. QED
  BY <1>7, <1>8, <1>9, <1>10 DEF s

\* There is one ascending list of a set of names.
LEMMA OneOrder ==
  ASSUME NEW a, NEW b, IsList(a), IsList(b), Ascending(a), Ascending(b),
         NamesOf(a) = NamesOf(b), \A x \in NamesOf(a) : x \in Int
  PROVE  a = b
<1>1. /\ Len(a) \in Nat /\ DOMAIN a = 1..Len(a)
      /\ Len(b) \in Nat /\ DOMAIN b = 1..Len(b)
  BY ListIsSeq
<1>2. /\ \A i \in DOMAIN a : a[i] \in Int /\ \E j \in DOMAIN b : b[j] = a[i]
      /\ \A i \in DOMAIN b : b[i] \in Int /\ \E j \in DOMAIN a : a[j] = b[i]
  BY DEF NamesOf
<1> DEFINE P == {m \in Nat : \A i \in 1..m :
                   /\ i \in DOMAIN a <=> i \in DOMAIN b
                   /\ i \in DOMAIN a => a[i] = b[i]}
<1>3. 0 \in P
  OBVIOUS
<1>4. ASSUME NEW m \in Nat, m \in P PROVE m + 1 \in P
  <2>1. ASSUME m + 1 \in DOMAIN a, m + 1 \in DOMAIN b PROVE a[m + 1] = b[m + 1]
    <3>1. PICK j \in DOMAIN b : b[j] = a[m + 1]
      BY <1>2, <2>1
    <3>2. PICK i \in DOMAIN a : a[i] = b[m + 1]
      BY <1>2, <2>1
    <3>3. j > m /\ i > m
      <4>1. ASSUME j <= m PROVE FALSE
        <5>1. j \in 1..m /\ j \in DOMAIN a /\ a[j] = b[j]
          BY <1>1, <1>4, <4>1
        <5>2. a[j] < a[m + 1]
          BY <1>1, <2>1, <5>1 DEF Ascending
        <5>3. QED
          BY <1>2, <2>1, <3>1, <5>1, <5>2
      <4>2. ASSUME i <= m PROVE FALSE
        <5>1. i \in 1..m /\ i \in DOMAIN b /\ a[i] = b[i]
          BY <1>1, <1>4, <4>2
        <5>2. b[i] < b[m + 1]
          BY <1>1, <2>1, <5>1 DEF Ascending
        <5>3. QED
          BY <1>2, <2>1, <3>2, <5>1, <5>2
      <4>3. QED
        BY <1>1, <4>1, <4>2
    <3>4. b[m + 1] <= a[m + 1]
      <4>1. j = m + 1 \/ m + 1 < j
        BY <1>1, <3>3
      <4>2. m + 1 < j => b[m + 1] < b[j]
        BY <2>1, <3>1 DEF Ascending
      <4>3. b[m + 1] \in Int /\ b[j] \in Int
        BY <1>2, <2>1, <3>1
      <4>4. QED
        BY <3>1, <4>1, <4>2, <4>3
    <3>5. a[m + 1] <= b[m + 1]
      <4>1. i = m + 1 \/ m + 1 < i
        BY <1>1, <3>3
      <4>2. m + 1 < i => a[m + 1] < a[i]
        BY <2>1, <3>2 DEF Ascending
      <4>3. a[m + 1] \in Int /\ a[i] \in Int
        BY <1>2, <2>1, <3>2
      <4>4. QED
        BY <3>2, <4>1, <4>2, <4>3
    <3>6. QED
      BY <1>2, <2>1, <3>4, <3>5
  <2>2. ASSUME m + 1 \in DOMAIN a, m + 1 \notin DOMAIN b PROVE FALSE
    <3>1. PICK j \in DOMAIN b : b[j] = a[m + 1]
      BY <1>2, <2>2
    <3>2. j \in 1..m /\ j \in DOMAIN a /\ a[j] = b[j]
      BY <1>1, <1>4, <2>2, <3>1
    <3>3. a[j] < a[m + 1]
      BY <1>1, <2>2, <3>2 DEF Ascending
    <3>4. QED
      BY <1>2, <2>2, <3>1, <3>2, <3>3
  <2>3. ASSUME m + 1 \in DOMAIN b, m + 1 \notin DOMAIN a PROVE FALSE
    <3>1. PICK j \in DOMAIN a : a[j] = b[m + 1]
      BY <1>2, <2>3
    <3>2. j \in 1..m /\ j \in DOMAIN b /\ a[j] = b[j]
      BY <1>1, <1>4, <2>3, <3>1
    <3>3. b[j] < b[m + 1]
      BY <1>1, <2>3, <3>2 DEF Ascending
    <3>4. QED
      BY <1>2, <2>3, <3>1, <3>2, <3>3
  <2>4. QED
    BY <1>4, <2>1, <2>2, <2>3
<1>5. Nat \subseteq P
  <2> HIDE DEF P
  <2>1. QED
    BY <1>3, <1>4, SetInduction
<1>6. /\ \A i \in Nat \ {0} : i \in DOMAIN a <=> i \in DOMAIN b
      /\ \A i \in DOMAIN a : a[i] = b[i]
  <2>1. \A i \in Nat \ {0} : i \in P /\ i \in 1..i
    BY <1>5
  <2>2. QED
    BY <1>1, <2>1
<1>7. Len(a) = Len(b)
  <2>1. \A i \in Nat \ {0} : i <= Len(a) <=> i <= Len(b)
    BY <1>1, <1>6
  <2>2. ASSUME Len(a) < Len(b) PROVE FALSE
    BY <1>1, <2>1, <2>2
  <2>3. ASSUME Len(b) < Len(a) PROVE FALSE
    BY <1>1, <2>1, <2>3
  <2>4. Len(a) \in Int /\ Len(b) \in Int
    BY <1>1
  <2>5. QED
    BY <2>2, <2>3, <2>4
<1>8. QED
  BY <1>1, <1>6, <1>7, SameList

-----------------------------------------------------------------------------
(* What is converted.                                                      *)

\* A finite set of numbers has a least one.
LEMMA LeastOf ==
  ASSUME NEW S, IsFiniteSet(S), S # {}, \A x \in S : x \in Int
  PROVE  \E x \in S : \A y \in S : x <= y
<1> DEFINE f == [x \in S |-> x]
<1>1. \A k \in 1..Cardinality(S) : \E x \in S : Cardinality(UpTo(S, f, x)) = k
  BY Places
<1>2. Cardinality(S) \in Nat /\ Cardinality(S) # 0
  BY FS_CardinalityType, FS_EmptySet
<1>3. PICK x \in S : Cardinality(UpTo(S, f, x)) = 1
  BY <1>1, <1>2
<1>4. ASSUME NEW y \in S PROVE x <= y
  <2>1. SUFFICES ASSUME y <= x PROVE x <= y
    OBVIOUS
  <2>2. UpTo(S, f, x) \in SUBSET S
    BY DEF UpTo
  <2>3. IsFiniteSet(UpTo(S, f, x))
    BY <2>2, FS_Subset
  <2>4. PICK z : UpTo(S, f, x) = {z}
    BY <1>3, <2>3, FS_Singleton
  <2>5. x \in UpTo(S, f, x) /\ y \in UpTo(S, f, x)
    BY <2>1 DEF UpTo
  <2>6. x = y
    BY <2>4, <2>5
  <2>7. QED
    BY <2>6
<1>5. QED
  BY <1>3, <1>4

\* A snapshot of all the raw quotes, under their meta, no two in one place.
KeepsRaw(s, meta, anchor, raw) ==
  LET keys == {KeyOf(raw[i], anchor) : i \in DOMAIN raw}
  IN  /\ InstrumentOk(meta)
      /\ \A i \in DOMAIN raw : Accepts(raw[i], meta.tick)
      /\ Cardinality(keys) = Len(raw)
      /\ s.meta = meta
      /\ s.quotes = [key \in keys |->
           QuoteView(raw[CHOOSE i \in DOMAIN raw : KeyOf(raw[i], anchor) = key], meta.tick)]

\* The meta of a snapshot is the one its quotes are converted under.
LEMMA RawKept ==
  ASSUME NEW meta, NEW anchor, NEW raw,
         RawQuotesToSnapshot(meta, anchor, raw) # Rejected
  PROVE  KeepsRaw(RawQuotesToSnapshot(meta, anchor, raw), meta, anchor, raw)
BY DEF RawQuotesToSnapshot, KeepsRaw

\* The quotes of a group.
Raws(rows) == MapSeq(RawQuote, rows)

\* One raw quote for each row.
LEMMA RawsAre ==
  ASSUME NEW rows
  PROVE  Raws(rows) = [i \in DOMAIN rows |-> RawQuote(rows[i])]
BY DEF Raws, MapSeq

\* The rows of a group agree on the meta, which is its first row's.
LEMMA GroupKept ==
  ASSUME NEW rows, NEW step, NEW anchor, Group(rows, step, anchor) # Rejected
  PROVE  /\ rows # <<>> /\ ~(Len(rows) > MaxContracts)
         /\ \A i \in DOMAIN rows : HeadOf(rows[i], step) = HeadOf(rows[1], step)
         /\ Group(rows, step, anchor)
              = RawQuotesToSnapshot(HeadOf(rows[1], step), anchor, Raws(rows))
         /\ Group(rows, step, anchor).meta = HeadOf(rows[1], step)
<1>1. Group(rows, step, anchor) =
        IF \/ rows = <<>> \/ Len(rows) > MaxContracts
           \/ \E i \in DOMAIN rows : HeadOf(rows[i], step) # HeadOf(rows[1], step)
        THEN Rejected
        ELSE RawQuotesToSnapshot(HeadOf(rows[1], step), anchor, Raws(rows))
  BY DEF Group, Raws
<1>2. /\ rows # <<>> /\ ~(Len(rows) > MaxContracts)
      /\ \A i \in DOMAIN rows : HeadOf(rows[i], step) = HeadOf(rows[1], step)
      /\ Group(rows, step, anchor)
           = RawQuotesToSnapshot(HeadOf(rows[1], step), anchor, Raws(rows))
  BY <1>1
<1>3. RawQuotesToSnapshot(HeadOf(rows[1], step), anchor, Raws(rows)).meta = HeadOf(rows[1], step)
  <2>1. RawQuotesToSnapshot(HeadOf(rows[1], step), anchor, Raws(rows)) # Rejected
    BY <1>2
  <2>2. QED
    BY <2>1 DEF RawQuotesToSnapshot
<1>4. QED
  BY <1>2, <1>3

\* The rows of a file: what follows its header.
LEMMA RowsOf ==
  ASSUME NEW file, IsContent(file), file # <<>>
  PROVE  /\ IsList(Tail(file)) /\ Len(file) \in Nat /\ Len(file) > 0
         /\ Len(Tail(file)) = Len(file) - 1
         /\ \A i \in 1..Len(Tail(file)) : Tail(file)[i] = file[i + 1]
<1>1. IsList(file)
  BY DEF IsContent
<1>2. file \in Seq({file[i] : i \in DOMAIN file})
  BY <1>1, ListIsSeq
<1> DEFINE S == {file[i] : i \in DOMAIN file}
<1>3. file \in Seq(S)
  BY <1>2
<1> HIDE DEF S
<1>4. /\ Tail(file) \in Seq(S) /\ Len(Tail(file)) = Len(file) - 1
      /\ \A i \in 1..Len(Tail(file)) : Tail(file)[i] = file[i + 1]
  BY <1>3, HeadTailProperties
<1>5. Len(file) \in Nat /\ Len(file) # 0
  BY <1>3, LenProperties, EmptySeq
<1>6. IsList(Tail(file))
  BY <1>4, SeqIsList
<1>7. QED
  BY <1>4, <1>5, <1>6

\* An instant that was read counts from the sentinel of the clock.
LEMMA InstantOf ==
  ASSUME NEW kind \in {"csv", "parquet"}, NEW file, IsContent(file), Legible(kind, file),
         NEW i \in 2..Len(file)
  PROVE  "ts" \in DOMAIN file[i] /\ file[i].ts[2] \in Nat
<1>1. Readable(Cell(file[i], "ts"), "instant")
  <2>1. "ts" \in CsvColumns /\ "ts" \in DOMAIN Columns /\ Columns["ts"] = "instant"
    BY DEF CsvColumns, Columns
  <2>2. \A c \in IF kind = "csv" THEN CsvColumns ELSE DOMAIN Columns :
          Readable(Cell(file[i], c), Columns[c])
    BY DEF Legible
  <2>3. QED
    BY <2>1, <2>2
<1>2. Cell(file[i], "ts")[1] = "int"
  BY <1>1 DEF Readable
<1>3. "ts" \in DOMAIN file[i]
  BY <1>2 DEF Cell, None
<1>4. file[i]["ts"][1] = "int"
  BY <1>2, <1>3 DEF Cell
<1>5. file[i]["ts"][2] \in Nat
  BY <1>3, <1>4 DEF IsContent, IsCell, None
<1>6. QED
  BY <1>3, <1>5

\* The starts of the groups, in order.
StartAt(rows, r) ==
  CHOOSE i \in Starts(rows) : Cardinality({j \in Starts(rows) : j <= i}) = r

\* The starts can be counted, the first row is one, and each has its place.
LEMMA StartsInOrder ==
  ASSUME NEW rows, IsList(rows)
  PROVE  /\ IsFiniteSet(Starts(rows)) /\ Cardinality(Starts(rows)) \in Nat
         /\ \A r \in 1..Cardinality(Starts(rows)) :
              /\ StartAt(rows, r) \in Starts(rows)
              /\ Cardinality({j \in Starts(rows) : j <= StartAt(rows, r)}) = r
         /\ rows # <<>> => 1 \in Starts(rows)
         /\ 1 \in 1..Cardinality(Starts(rows)) => StartAt(rows, 1) = 1
<1> DEFINE S == Starts(rows)
           f == [x \in S |-> x]
           m == Cardinality(S)
<1>1. Len(rows) \in Nat /\ DOMAIN rows = 1..Len(rows)
  BY ListIsSeq
<1>2. S \in SUBSET (1..Len(rows))
  BY <1>1 DEF Starts
<1>3. IsFiniteSet(S) /\ m \in Nat
  <2>1. IsFiniteSet(1..Len(rows))
    BY <1>1, FS_Interval
  <2>2. IsFiniteSet(S)
    BY <1>2, <2>1, FS_Subset
  <2>3. QED
    BY <2>2, FS_CardinalityType
<1>4. \A i \in S : i \in Int /\ f[i] = i /\ {j \in S : j <= i} = UpTo(S, f, i)
  BY <1>1, <1>2 DEF UpTo
<1> HIDE DEF S, f
<1>5. \A r \in 1..m : \E i \in S : Cardinality(UpTo(S, f, i)) = r
  BY <1>3, <1>4, Places
<1>6. \A r \in 1..m : \E i \in S : Cardinality({j \in S : j <= i}) = r
  BY <1>4, <1>5
<1>7. ASSUME NEW r \in 1..m
      PROVE  StartAt(rows, r) \in S /\ Cardinality({j \in S : j <= StartAt(rows, r)}) = r
  BY <1>6 DEF StartAt, S
<1>8. rows # <<>> => 1 \in S
  <2>1. SUFFICES ASSUME rows # <<>> PROVE 1 \in DOMAIN rows
    BY DEF Starts, S
  <2>2. Len(rows) # 0
    BY <2>1, ListIsSeq, EmptySeq
  <2>3. QED
    BY <1>1, <2>2
<1>9. ASSUME 1 \in 1..m PROVE StartAt(rows, 1) = 1
  <2>1. StartAt(rows, 1) \in S /\ Cardinality({j \in S : j <= StartAt(rows, 1)}) = 1
    BY <1>7, <1>9
  <2>2. S # {}
    BY <2>1
  <2>3. rows # <<>>
    BY <1>2, <2>2, <1>1, EmptySeq DEF S
  <2> DEFINE T == {j \in S : j <= StartAt(rows, 1)}
  <2>4. StartAt(rows, 1) \in T /\ 1 \in T
    <3>1. StartAt(rows, 1) \in 1..Len(rows)
      BY <1>2, <2>1
    <3>2. QED
      BY <1>1, <1>8, <2>1, <2>3, <3>1
  <2>5. T \in SUBSET S
    OBVIOUS
  <2>6. IsFiniteSet(T)
    BY <1>3, <2>5, FS_Subset
  <2>7. PICK z : T = {z}
    BY <2>1, <2>6, FS_Singleton
  <2>8. QED
    BY <2>4, <2>7
<1>10. QED
  BY <1>3, <1>7, <1>8, <1>9 DEF S

-----------------------------------------------------------------------------
(* What a file is read as.                                                 *)

\* Where times count from.
FromOf(rows, anchor) == IF anchor = <<>> /\ rows # <<>> THEN rows[1].ts[2] ELSE anchor[1]

\* Snapshots, in terms of the places of the starts.
LEMMA SnapshotsAre ==
  ASSUME NEW kind, NEW at, NEW file, NEW anchor
  PROVE  Snapshots(kind, at, file, anchor) =
           LET rows == Tail(file) IN
           IF ~Legible(kind, file) THEN <<Rejected>>
           ELSE IF kind = "csv" THEN <<Group(rows, at, FromOf(rows, anchor))>>
           ELSE IF ~Ascends(rows) THEN <<Rejected>>
           ELSE [r \in 1..Cardinality(Starts(rows)) |->
                   Group(GroupAt(rows, StartAt(rows, r)), rows[StartAt(rows, r)].step[2],
                         FromOf(rows, anchor))]
BY DEF Snapshots, StartAt, FromOf

\* A group goes from its start to before the next one, or to the end.
LEMMA GroupRows ==
  ASSUME NEW rows, IsList(rows), NEW i \in Starts(rows)
  PROVE  \E stop \in i..Len(rows) :
           /\ GroupAt(rows, i) = [k \in 1..(stop - i + 1) |-> rows[i + k - 1]]
           /\ IsList(GroupAt(rows, i)) /\ Len(GroupAt(rows, i)) = stop - i + 1
           /\ \A j \in (i + 1)..stop : j \notin Starts(rows)
           /\ stop = Len(rows) \/ stop + 1 \in Starts(rows)
<1> DEFINE later == {j \in Starts(rows) : j > i}
           next == CHOOSE j \in later : \A x \in later : j <= x
           stop == IF later = {} THEN Len(rows) ELSE next - 1
<1>1. Len(rows) \in Nat /\ DOMAIN rows = 1..Len(rows) /\ IsFiniteSet(Starts(rows))
  BY ListIsSeq, StartsInOrder
<1>2. Starts(rows) \subseteq 1..Len(rows) /\ i \in 1..Len(rows)
  BY <1>1 DEF Starts
<1>3. later # {} => /\ next \in later /\ \A x \in later : next <= x
                    /\ next \in Int
  <2>1. later \in SUBSET Starts(rows)
    OBVIOUS
  <2>2. IsFiniteSet(later) /\ \A x \in later : x \in Int
    BY <1>1, <1>2, <2>1, FS_Subset
  <2> HIDE DEF later
  <2>3. SUFFICES ASSUME later # {} PROVE next \in later /\ \A x \in later : next <= x
    BY <2>2
  <2>4. \E x \in later : \A y \in later : x <= y
    BY <2>2, <2>3, LeastOf
  <2>5. QED
    BY <2>4
<1>4. stop \in i..Len(rows) /\ stop \in Int
  <2>1. CASE later = {}
    BY <1>1, <1>2, <2>1
  <2>2. CASE later # {}
    <3>1. next \in Starts(rows) /\ next > i /\ stop = next - 1 /\ next \in Int
      BY <1>3, <2>2
    <3>2. next \in 1..Len(rows)
      BY <1>2, <3>1
    <3> HIDE DEF next, stop, later
    <3>3. QED
      BY <1>1, <1>2, <3>1, <3>2
  <2>3. QED
    BY <2>1, <2>2
<1>5. \A j \in (i + 1)..stop : j \notin Starts(rows)
  <2>1. SUFFICES ASSUME NEW j \in (i + 1)..stop, j \in Starts(rows) PROVE FALSE
    OBVIOUS
  <2>2. j \in later
    BY <1>2, <1>4, <2>1
  <2>3. next <= j /\ stop = next - 1
    BY <1>3, <2>2
  <2>4. QED
    BY <1>2, <1>3, <1>4, <2>1, <2>2, <2>3
<1>6. stop = Len(rows) \/ stop + 1 \in Starts(rows)
  BY <1>3
<1>7. GroupAt(rows, i) = SubSeq(rows, i, stop)
  BY DEF GroupAt
<1> HIDE DEF stop
<1>8. GroupAt(rows, i) = [k \in 1..(stop - i + 1) |-> rows[i + k - 1]]
  <2>1. rows \in Seq({rows[k] : k \in DOMAIN rows})
    BY ListIsSeq
  <2>2. QED
    BY <1>1, <1>2, <1>4, <1>7, <2>1, SubSeqProperties
<1>9. IsList(GroupAt(rows, i)) /\ Len(GroupAt(rows, i)) = stop - i + 1
  <2> DEFINE g == GroupAt(rows, i)
  <2>1. stop - i + 1 \in Nat
    BY <1>2, <1>4
  <2>2. g = [k \in 1..(stop - i + 1) |-> g[k]]
    BY <1>8
  <2> HIDE DEF g
  <2>3. IsList(g) /\ Len(g) = stop - i + 1
    BY <2>1, <2>2, ListOf
  <2>4. QED
    BY <2>3 DEF g
<1>10. QED
  BY <1>4, <1>5, <1>6, <1>8, <1>9

\* The snapshots of a file that none of the checks rejects.
Pieces(file, anchor) ==
  [r \in 1..Cardinality(Starts(Tail(file))) |->
     Group(GroupAt(Tail(file), StartAt(Tail(file), r)),
           Tail(file)[StartAt(Tail(file), r)].step[2], FromOf(Tail(file), anchor))]
Whole(file, at, anchor) == Group(Tail(file), at, FromOf(Tail(file), anchor))

\* A file none of whose snapshots was rejected passed every check.
LEMMA FileKept ==
  ASSUME NEW kind \in {"csv", "parquet"}, NEW file, NEW at, NEW anchor, NEW s,
         s = Snapshots(kind, at, file, anchor), \A i \in DOMAIN s : s[i] # Rejected
  PROVE  /\ Legible(kind, file)
         /\ kind = "csv" => s = <<Whole(file, at, anchor)>>
         /\ kind = "parquet" => Ascends(Tail(file)) /\ s = Pieces(file, anchor)
<1>1. s = IF ~Legible(kind, file) THEN <<Rejected>>
          ELSE IF kind = "csv" THEN <<Whole(file, at, anchor)>>
          ELSE IF ~Ascends(Tail(file)) THEN <<Rejected>>
          ELSE Pieces(file, anchor)
  BY SnapshotsAre DEF Whole, Pieces
<1>2. s # <<Rejected>>
  <2>1. ASSUME s = <<Rejected>> PROVE FALSE
    <3>1. 1 \in DOMAIN s /\ s[1] = Rejected
      BY <2>1
    <3>2. QED
      BY <3>1
  <2>2. QED
    BY <2>1
<1>3. QED
  BY <1>1, <1>2

\* The first row of a group that was kept is a row of the file.
LEMMA FirstRow ==
  ASSUME NEW file, IsContent(file), \E kind \in {"csv", "parquet"} : Legible(kind, file),
         NEW rows, NEW step, NEW from, Group(rows, step, from) # Rejected,
         NEW i \in 1..Len(Tail(file)), rows[1] = Tail(file)[i]
  PROVE  /\ Group(rows, step, from).meta.ts = rows[1].ts[2]
         /\ Group(rows, step, from).meta.ts \in Nat
         /\ Group(rows, step, from).meta.step = step
<1>1. Group(rows, step, from).meta = HeadOf(rows[1], step)
  BY GroupKept
<1>2. PICK kind \in {"csv", "parquet"} : Legible(kind, file)
  OBVIOUS
<1>7. file # <<>>
  BY <1>2 DEF Legible
<1>3. i + 1 \in 2..Len(file) /\ Tail(file)[i] = file[i + 1]
  BY <1>7, RowsOf
<1>4. file[i + 1].ts[2] \in Nat
  BY <1>2, <1>3, InstantOf
<1>5. QED
  BY <1>1, <1>3, <1>4 DEF HeadOf

\* The snapshot of a CSV file is at the instant of its first row.
LEMMA WholeRow ==
  ASSUME NEW file, IsContent(file), \E kind \in {"csv", "parquet"} : Legible(kind, file),
         NEW at, NEW anchor, Whole(file, at, anchor) # Rejected
  PROVE  /\ Whole(file, at, anchor).meta.ts = Tail(file)[1].ts[2]
         /\ Whole(file, at, anchor).meta.ts \in Nat
<1>1. Tail(file) # <<>>
  BY GroupKept DEF Whole
<1>2. 1 \in 1..Len(Tail(file))
  BY <1>1, RowsOf, ListIsSeq, EmptySeq DEF Legible
<1> DEFINE rows == Tail(file)
           from == FromOf(rows, anchor)
<1>3. \E i \in 1..Len(Tail(file)) : rows[1] = Tail(file)[i]
  BY <1>2
<1> HIDE DEF rows, from
<1>4. ASSUME Group(rows, at, from) # Rejected
      PROVE  /\ Group(rows, at, from).meta.ts = rows[1].ts[2]
             /\ Group(rows, at, from).meta.ts \in Nat
  <2>1. PICK i \in 1..Len(Tail(file)) : rows[1] = Tail(file)[i]
    BY <1>3
  <2>2. QED
    BY <1>4, <2>1, FirstRow
<1>5. QED
  BY <1>4 DEF Whole, rows, from

\* What a file is read as: a list of snapshots with their instants.
LEMMA FileRead ==
  ASSUME NEW kind \in {"csv", "parquet"}, NEW file, IsContent(file), NEW at, NEW anchor,
         NEW s, s = Snapshots(kind, at, file, anchor), \A i \in DOMAIN s : s[i] # Rejected
  PROVE  /\ IsList(s) /\ Len(s) \in Nat /\ DOMAIN s = 1..Len(s)
         /\ kind = "csv" => Len(s) = 1
         /\ \A i \in 1..Len(s) : s[i].meta.ts \in Nat
         /\ s # <<>> => s[1].meta.ts = Tail(file)[1].ts[2]
<1> DEFINE rows == Tail(file)
           from == FromOf(rows, anchor)
<1>1. /\ Legible(kind, file)
      /\ kind = "csv" => s = <<Whole(file, at, anchor)>>
      /\ kind = "parquet" => Ascends(rows) /\ s = Pieces(file, anchor)
  BY FileKept
<1>2. /\ IsList(rows) /\ Len(rows) \in Nat /\ DOMAIN rows = 1..Len(rows)
  <2>1. file # <<>>
    BY <1>1 DEF Legible
  <2>2. IsList(rows)
    BY <2>1, RowsOf
  <2>3. QED
    BY <2>2, ListIsSeq
<1> HIDE DEF rows, from
<1>3. CASE kind = "csv"
  <2> DEFINE g == Group(rows, at, from)
  <2>1. s = <<g>>
    BY <1>1, <1>3 DEF Whole, rows, from
  <2>2. s[1] = g /\ 1 \in DOMAIN s
    BY <2>1
  <2>3. g # Rejected
    BY <2>2
  <2>4. g.meta.ts = rows[1].ts[2] /\ g.meta.ts \in Nat
    BY <1>1, <2>3, WholeRow DEF Whole, rows, from
  <2> HIDE DEF g
  <2>7. s \in Seq({g}) /\ Len(s) = 1 /\ DOMAIN s = 1..1
    BY <2>1
  <2>8. IsList(s)
    BY <2>7, SeqIsList
  <2>9. \A i \in 1..Len(s) : s[i].meta.ts \in Nat
    BY <2>2, <2>4, <2>7
  <2>10. s[1].meta.ts = Tail(file)[1].ts[2]
    BY <2>2, <2>4 DEF rows
  <2>11. QED
    BY <2>7, <2>8, <2>9, <2>10
<1>4. CASE kind = "parquet"
  <2> DEFINE m == Cardinality(Starts(rows))
  <2>1. m \in Nat
    BY <1>2, StartsInOrder
  <2>2. s = [r \in 1..m |-> Group(GroupAt(rows, StartAt(rows, r)),
                                  rows[StartAt(rows, r)].step[2], from)]
    BY <1>1, <1>4 DEF Pieces, rows, from
  <2>3. IsList(s) /\ Len(s) = m /\ DOMAIN s = 1..m
    <3>1. s = [r \in 1..m |-> s[r]]
      BY <2>2
    <3>2. QED
      BY <2>1, <3>1, ListOf
  <2>4. ASSUME NEW r \in 1..m
        PROVE  s[r].meta.ts = rows[StartAt(rows, r)].ts[2] /\ s[r].meta.ts \in Nat
    <3> DEFINE i == StartAt(rows, r)
               g == GroupAt(rows, i)
    <3>1. i \in Starts(rows)
      BY <1>2, StartsInOrder
    <3>2. i \in 1..Len(rows)
      BY <1>2, <3>1 DEF Starts
    <3>3. s[r] = Group(g, rows[i].step[2], from) /\ s[r] # Rejected
      BY <2>2, <2>3
    <3>4. PICK stop \in i..Len(rows) : g = [k \in 1..(stop - i + 1) |-> rows[i + k - 1]]
      BY <1>2, <3>1, GroupRows
    <3>5. g[1] = rows[i]
      BY <1>2, <3>2, <3>4
    <3> HIDE DEF g, i
    <3>6. QED
      BY <1>1, <3>2, <3>3, <3>5, FirstRow DEF rows, i
  <2>5. s # <<>> => s[1].meta.ts = rows[1].ts[2]
    <3>1. SUFFICES ASSUME s # <<>> PROVE s[1].meta.ts = rows[1].ts[2]
      OBVIOUS
    <3>2. m # 0
      BY <2>3, <3>1, ListIsSeq, EmptySeq
    <3>3. 1 \in 1..m
      BY <2>1, <3>2
    <3>4. StartAt(rows, 1) = 1
      BY <1>2, <3>3, StartsInOrder
    <3>5. QED
      BY <2>4, <3>3, <3>4
  <2>6. QED
    BY <1>4, <2>1, <2>3, <2>4, <2>5 DEF rows
<1>5. QED
  BY <1>3, <1>4

\* A quote response is converted under its own instant and its place in the walk.
LEMMA ResponseRead ==
  ASSUME NEW response, NEW step, NEW spec, NEW anchor, NEW size,
         ChainResponseToSnapshot(response, step, spec, anchor, size) # Rejected
  PROVE  LET s == ChainResponseToSnapshot(response, step, spec, anchor, size)
         IN  s.meta.ts = response.ts /\ s.meta.step = step
<1> DEFINE meta == [ts |-> response.ts, step |-> step, underlying |-> response.underlying,
                    underlying_price |-> DollarsToCents(response.price), tick |-> spec.tick,
                    multiplier |-> spec.multiplier]
           s == ChainResponseToSnapshot(response, step, spec, anchor, size)
<1>1. \E raw : s = RawQuotesToSnapshot(meta, anchor, raw)
  BY DEF ChainResponseToSnapshot
<1>2. PICK raw : s = RawQuotesToSnapshot(meta, anchor, raw)
  BY <1>1
<1>3. s.meta = meta
  BY <1>2 DEF RawQuotesToSnapshot
<1>4. QED
  BY <1>3

-----------------------------------------------------------------------------
(* Lists that grow, and what their elements add up to.                     *)

\* Two lists, one after the other.
LEMMA Joined ==
  ASSUME NEW s, NEW t, IsList(s), IsList(t)
  PROVE  /\ IsList(s \o t) /\ Len(s \o t) = Len(s) + Len(t)
         /\ Len(s) \in Nat /\ Len(t) \in Nat
         /\ \A i \in 1..Len(s) : (s \o t)[i] = s[i]
         /\ \A i \in 1..Len(t) : (s \o t)[Len(s) + i] = t[i]
         /\ \A i \in 1..(Len(s) + Len(t)) : i > Len(s) =>
              i - Len(s) \in 1..Len(t) /\ (s \o t)[i] = t[i - Len(s)]
<1> DEFINE A == {s[i] : i \in DOMAIN s}
           B == {t[i] : i \in DOMAIN t}
<1>1. s \in Seq(A) /\ t \in Seq(B) /\ Len(s) \in Nat /\ Len(t) \in Nat
  BY ListIsSeq
<1> HIDE DEF A, B
<1>2. s \in Seq(A \cup B) /\ t \in Seq(A \cup B)
  BY <1>1, SeqMonotonic
<1>3. /\ s \o t \in Seq(A \cup B) /\ Len(s \o t) = Len(s) + Len(t)
      /\ \A i \in 1..(Len(s) + Len(t)) :
           (s \o t)[i] = IF i <= Len(s) THEN s[i] ELSE t[i - Len(s)]
  BY <1>2, ConcatProperties
<1>4. IsList(s \o t)
  BY <1>3, SeqIsList
<1> HIDE DEF IsList
<1>5. QED
  BY <1>1, <1>3, <1>4

\* A list and one more.
LEMMA Appended ==
  ASSUME NEW s, NEW x, IsList(s)
  PROVE  /\ IsList(Append(s, x)) /\ Len(Append(s, x)) = Len(s) + 1 /\ Len(s) \in Nat
         /\ \A i \in 1..Len(s) : Append(s, x)[i] = s[i]
         /\ Append(s, x)[Len(s) + 1] = x
<1> DEFINE A == {s[i] : i \in DOMAIN s} \cup {x}
<1>1. s \in Seq({s[i] : i \in DOMAIN s}) /\ Len(s) \in Nat
  BY ListIsSeq
<1>2. s \in Seq(A) /\ x \in A
  BY <1>1, SeqMonotonic
<1> HIDE DEF A
<1>3. /\ Append(s, x) \in Seq(A) /\ Len(Append(s, x)) = Len(s) + 1
      /\ \A i \in 1..Len(s) : Append(s, x)[i] = s[i]
      /\ Append(s, x)[Len(s) + 1] = x
  BY <1>2, AppendProperties
<1>4. QED
  BY <1>1, <1>3, SeqIsList

\* A list of one.
LEMMA OneList ==
  ASSUME NEW x
  PROVE  IsList(<<x>>) /\ Len(<<x>>) = 1 /\ <<x>>[1] = x
<1>1. <<x>> \in Seq({x})
  OBVIOUS
<1>2. QED
  BY <1>1, SeqIsList

\* The empty list is the one of no length.
LEMMA NoList ==
  /\ IsList(<<>>) /\ Len(<<>>) = 0
  /\ \A s : IsList(s) /\ Len(s) = 0 => s = <<>>
<1>1. <<>> \in Seq({})
  OBVIOUS
<1>2. IsList(<<>>) /\ Len(<<>>) = 0
  BY <1>1, SeqIsList
<1>3. QED
  BY <1>2, SameList

\* Sum is the fold of Sums.
LEMMA SumIs ==
  ASSUME NEW s
  PROVE  Sum(s) = SumFunctionOnSet(s, DOMAIN s)
BY DEF Sum, SumFunctionOnSet, FoldFunction

\* One summand more than a part: no more than all.
LEMMA SumNext ==
  ASSUME NEW f, NEW m \in Nat, NEW k \in Nat, k < m, \A i \in 1..m : f[i] \in Nat
  PROVE  /\ SumFunctionOnSet(f, 1..(k + 1)) = SumFunctionOnSet(f, 1..k) + f[k + 1]
         /\ SumFunctionOnSet(f, 1..k) + f[k + 1] <= SumFunctionOnSet(f, 1..m)
         /\ SumFunctionOnSet(f, 1..k) \in Nat
<1>1. PICK A : A = 1..k
  OBVIOUS
<1>2. PICK C : C = 1..m
  OBVIOUS
<1>3. IsFiniteSet(A) /\ IsFiniteSet(C)
  BY <1>1, <1>2, FS_Interval
<1>4. k + 1 \notin A /\ k + 1 \in C /\ A \cup {k + 1} = 1..(k + 1) /\ A \cup {k + 1} \in SUBSET C
  BY <1>1, <1>2
<1>5. (\A i \in C : f[i] \in Nat) /\ (\A i \in A : f[i] \in Nat) /\ Numbers(f, A \cup {k + 1})
  BY <1>1, <1>2, <1>4 DEF Numbers
<1>6. SumFunctionOnSet(f, A \cup {k + 1}) = SumFunctionOnSet(f, A) + f[k + 1]
  BY <1>3, <1>4, <1>5, SumAdd
<1>7. SumFunctionOnSet(f, A \cup {k + 1}) <= SumFunctionOnSet(f, C)
  BY <1>3, <1>4, <1>5, SumPart
<1>8. SumFunctionOnSet(f, A) \in Nat
  BY <1>3, <1>5, SumNat
<1>9. QED
  BY <1>1, <1>2, <1>4, <1>6, <1>7, <1>8

\* The sums of two lists, the first a part of the second.
LEMMA SumPrefix ==
  ASSUME NEW f, NEW g, NEW m \in Nat, NEW k \in Nat, k <= m, \A i \in 1..m : g[i] \in Nat,
         \A i \in 1..k : f[i] = g[i]
  PROVE  /\ SumFunctionOnSet(f, 1..k) = SumFunctionOnSet(g, 1..k)
         /\ SumFunctionOnSet(f, 1..k) <= SumFunctionOnSet(g, 1..m)
         /\ SumFunctionOnSet(f, 1..k) \in Nat
<1>1. PICK A : A = 1..k
  OBVIOUS
<1>2. PICK C : C = 1..m
  OBVIOUS
<1>3. IsFiniteSet(A) /\ IsFiniteSet(C) /\ A \in SUBSET C
  BY <1>1, <1>2, FS_Interval
<1>4. (\A i \in C : g[i] \in Nat) /\ (\A i \in A : f[i] \in Nat) /\ Numbers(f, A)
  BY <1>1, <1>2, <1>3 DEF Numbers
<1>5. SumFunctionOnSet(f, A) = SumFunctionOnSet(g, A)
  BY <1>1, <1>3, <1>4, SumSame
<1>6. SumFunctionOnSet(g, A) <= SumFunctionOnSet(g, C) /\ SumFunctionOnSet(f, A) \in Nat
  BY <1>3, <1>4, SumPart, SumNat
<1>7. QED
  BY <1>1, <1>2, <1>5, <1>6

-----------------------------------------------------------------------------
(* The ceilings: a tape's size, the bytes of its files.                    *)

\* A tape under construction.
IsTape(snapshots) ==
  /\ IsList(snapshots)
  /\ \A i \in 1..Len(snapshots) :
       /\ snapshots[i] # Rejected /\ snapshots[i].meta.ts \in Nat
       /\ SizeOf(snapshots[i]) \in Nat

EachSize(snapshots) == [i \in 1..Len(snapshots) |-> SizeOf(snapshots[i])]

\* The size of a tape is the sum over its places.
LEMMA TotalIs ==
  ASSUME NEW s, IsTape(s)
  PROVE  /\ TotalOf(s) = SumFunctionOnSet(EachSize(s), 1..Len(s))
         /\ \A i \in 1..Len(s) : EachSize(s)[i] = SizeOf(s[i]) /\ EachSize(s)[i] \in Nat
         /\ Len(s) \in Nat /\ TotalOf(s) \in Nat
<1>1. IsList(s) /\ \A i \in 1..Len(s) : SizeOf(s[i]) \in Nat
  BY DEF IsTape
<1>2. Len(s) \in Nat /\ DOMAIN s = 1..Len(s)
  BY <1>1, ListIsSeq
<1>3. MapSeq(SizeOf, s) = EachSize(s)
  BY <1>2 DEF MapSeq, EachSize
<1>4. DOMAIN EachSize(s) = 1..Len(s)
  BY DEF EachSize
<1>5. TotalOf(s) = SumFunctionOnSet(EachSize(s), 1..Len(s))
  BY <1>3, <1>4, SumIs DEF TotalOf
<1>6. \A i \in 1..Len(s) : EachSize(s)[i] = SizeOf(s[i]) /\ EachSize(s)[i] \in Nat
  BY <1>1 DEF EachSize
<1>7. SumFunctionOnSet(EachSize(s), 1..Len(s)) \in Nat
  BY <1>2, <1>6, SumPrefix
<1>8. QED
  BY <1>2, <1>5, <1>6, <1>7

\* A tape that another one begins with is no larger.
LEMMA TotalPart ==
  ASSUME NEW s, NEW t, IsTape(s), IsTape(t), Len(s) <= Len(t),
         \A i \in 1..Len(s) : s[i] = t[i]
  PROVE  TotalOf(s) <= TotalOf(t)
<1>1. /\ Len(s) \in Nat /\ Len(t) \in Nat
      /\ TotalOf(s) = SumFunctionOnSet(EachSize(s), 1..Len(s))
      /\ TotalOf(t) = SumFunctionOnSet(EachSize(t), 1..Len(t))
      /\ \A i \in 1..Len(s) : EachSize(s)[i] = SizeOf(s[i])
      /\ \A i \in 1..Len(t) : EachSize(t)[i] = SizeOf(t[i]) /\ EachSize(t)[i] \in Nat
  BY TotalIs
<1>2. \A i \in 1..Len(s) : EachSize(s)[i] = EachSize(t)[i]
  BY <1>1
<1>3. QED
  BY <1>1, <1>2, SumPrefix

\* The size of two tapes, one after the other (push_checked counts as it goes).
LEMMA TotalJoined ==
  ASSUME NEW s, NEW t, IsTape(s), IsTape(t)
  PROVE  IsTape(s \o t) /\ TotalOf(s \o t) = TotalOf(s) + TotalOf(t)
<1> DEFINE u == s \o t
<1>1. IsList(s) /\ IsList(t)
  BY DEF IsTape
<1>2. /\ IsList(u) /\ Len(u) = Len(s) + Len(t) /\ Len(s) \in Nat /\ Len(t) \in Nat
      /\ \A i \in 1..Len(s) : u[i] = s[i]
      /\ \A i \in 1..Len(t) : u[Len(s) + i] = t[i]
      /\ \A i \in 1..(Len(s) + Len(t)) : i > Len(s) =>
           i - Len(s) \in 1..Len(t) /\ u[i] = t[i - Len(s)]
  BY <1>1, Joined
<1> HIDE DEF u
<1>3. IsTape(u)
  <2>1. ASSUME NEW i \in 1..Len(u)
        PROVE  \/ i \in 1..Len(s) /\ u[i] = s[i]
               \/ i - Len(s) \in 1..Len(t) /\ u[i] = t[i - Len(s)]
    BY <1>2
  <2>2. QED
    BY <1>2, <2>1 DEF IsTape
<1>4. /\ TotalOf(s) = SumFunctionOnSet(EachSize(s), 1..Len(s))
      /\ TotalOf(t) = SumFunctionOnSet(EachSize(t), 1..Len(t))
      /\ TotalOf(u) = SumFunctionOnSet(EachSize(u), 1..Len(u))
      /\ \A i \in 1..Len(s) : EachSize(s)[i] = SizeOf(s[i]) /\ EachSize(s)[i] \in Nat
      /\ \A i \in 1..Len(t) : EachSize(t)[i] = SizeOf(t[i]) /\ EachSize(t)[i] \in Nat
      /\ \A i \in 1..Len(u) : EachSize(u)[i] = SizeOf(u[i]) /\ EachSize(u)[i] \in Nat
  BY <1>3, TotalIs
<1>5. PICK n, m, f, g, h :
        n = Len(s) /\ m = Len(t) /\ f = EachSize(s) /\ g = EachSize(t) /\ h = EachSize(u)
  OBVIOUS
<1>6. SumFunctionOnSet(f, 1..n) = SumFunctionOnSet(h, 1..n)
  <2>1. \A i \in 1..n : f[i] = h[i]
    <3>1. SUFFICES ASSUME NEW i \in 1..n PROVE f[i] = h[i]
      OBVIOUS
    <3>2. i \in 1..Len(u) /\ u[i] = s[i]
      BY <1>2, <1>5
    <3>3. QED
      BY <1>4, <1>5, <3>2
  <2>2. (\A i \in 1..n : h[i] \in Nat) /\ n \in Nat
    BY <1>2, <1>4, <1>5
  <2>3. QED
    BY <2>1, <2>2, SumPrefix
<1>7. SumFunctionOnSet(g, 1..m) = SumFunctionOnSet(h, (n + 1)..(n + m))
  <2>1. \A i \in 1..m : g[i] = h[n + i] /\ g[i] \in Nat
    <3>1. SUFFICES ASSUME NEW i \in 1..m PROVE g[i] = h[n + i] /\ g[i] \in Nat
      OBVIOUS
    <3>2. n + i \in 1..Len(u) /\ u[n + i] = t[i]
      BY <1>2, <1>5
    <3>3. QED
      BY <1>4, <1>5, <3>2
  <2>2. Shifted(h, g, n, m)
    BY <1>2, <1>5, <2>1 DEF Shifted
  <2>3. QED
    BY <1>2, <1>5, <2>2, SumShift
<1>8. SumFunctionOnSet(h, 1..(n + m))
        = SumFunctionOnSet(h, 1..n) + SumFunctionOnSet(h, (n + 1)..(n + m))
  <2>1. PICK A, B : A = 1..n /\ B = (n + 1)..(n + m)
    OBVIOUS
  <2>2. /\ IsFiniteSet(A) /\ IsFiniteSet(B) /\ A \cap B = {} /\ A \cup B = 1..(n + m)
    <3>1. n \in Nat /\ m \in Nat
      BY <1>2, <1>5
    <3>2. IsFiniteSet(A) /\ IsFiniteSet(B)
      BY <2>1, <3>1, FS_Interval
    <3>3. QED
      BY <2>1, <3>1, <3>2
  <2>3. Numbers(h, A \cup B)
    <3>1. \A i \in 1..(n + m) : h[i] \in Nat
      BY <1>2, <1>4, <1>5
    <3>2. QED
      BY <2>2, <3>1 DEF Numbers
  <2>4. SumFunctionOnSet(h, A \cup B) = SumFunctionOnSet(h, A) + SumFunctionOnSet(h, B)
    BY <2>2, <2>3, SumUnion
  <2>5. QED
    BY <2>1, <2>2, <2>4
<1>9. QED
  BY <1>2, <1>3, <1>4, <1>5, <1>6, <1>7, <1>8 DEF u

\* The size of one snapshot.
LEMMA TotalOne ==
  ASSUME NEW x, x # Rejected, x.meta.ts \in Nat, SizeOf(x) \in Nat
  PROVE  IsTape(<<x>>) /\ TotalOf(<<x>>) = SizeOf(x)
<1>1. IsList(<<x>>) /\ Len(<<x>>) = 1 /\ <<x>>[1] = x
  BY OneList
<1>2. IsTape(<<x>>)
  BY <1>1 DEF IsTape
<1>3. /\ TotalOf(<<x>>) = SumFunctionOnSet(EachSize(<<x>>), 1..1)
      /\ EachSize(<<x>>)[1] = SizeOf(x)
  BY <1>1, <1>2, TotalIs
<1>4. PICK f : f = EachSize(<<x>>)
  OBVIOUS
<1>5. SumFunctionOnSet(f, {} \cup {1}) = SumFunctionOnSet(f, {}) + f[1]
  <2>1. IsFiniteSet({}) /\ 1 \notin {} /\ Numbers(f, {} \cup {1})
    BY <1>3, <1>4, FS_EmptySet DEF Numbers
  <2>2. QED
    BY <2>1, SumAdd
<1>6. SumFunctionOnSet(f, {}) = 0 /\ {} \cup {1} = 1..1
  BY SumEmpty
<1>7. QED
  BY <1>2, <1>3, <1>4, <1>5, <1>6

\* The size of a tape and one more snapshot.
LEMMA TotalAppended ==
  ASSUME NEW s, IsTape(s), NEW x, x # Rejected, x.meta.ts \in Nat, SizeOf(x) \in Nat
  PROVE  IsTape(Append(s, x)) /\ TotalOf(Append(s, x)) = TotalOf(s) + SizeOf(x)
<1> DEFINE A == {s[i] : i \in DOMAIN s} \cup {x}
<1>1. s \in Seq({s[i] : i \in DOMAIN s})
  BY ListIsSeq DEF IsTape
<1>2. s \in Seq(A) /\ x \in A
  BY <1>1, SeqMonotonic
<1> HIDE DEF A
<1>3. Append(s, x) = s \o <<x>>
  BY <1>2, AppendIsConcat
<1>4. QED
  BY <1>3, TotalOne, TotalJoined

\* The size of no tape.
LEMMA TotalNone ==
  IsTape(<<>>) /\ TotalOf(<<>>) = 0
<1>1. IsList(<<>>) /\ Len(<<>>) = 0
  BY NoList
<1>2. IsTape(<<>>)
  BY <1>1 DEF IsTape
<1>3. TotalOf(<<>>) = SumFunctionOnSet(EachSize(<<>>), 1..0)
  BY <1>1, <1>2, TotalIs
<1>4. QED
  BY <1>2, <1>3, SumEmpty

\* What was hashed: a name and the bytes of a file.
IsIdentity(entries) ==
  /\ IsList(entries)
  /\ \A i \in 1..Len(entries) :
       /\ entries[i] = <<entries[i][1], entries[i][2]>>
       /\ IsContent(entries[i][2])

EachLength(entries) == [i \in 1..Len(entries) |-> Len(entries[i][2])]
Sizes(entries) == SumFunctionOnSet(EachLength(entries), 1..Len(entries))

\* The lengths of what was hashed.
LEMMA LengthsAre ==
  ASSUME NEW entries, IsIdentity(entries)
  PROVE  /\ Len(entries) \in Nat
         /\ \A i \in 1..Len(entries) :
              EachLength(entries)[i] = Len(entries[i][2]) /\ EachLength(entries)[i] \in Nat
<1>1. Len(entries) \in Nat
  BY ListIsSeq DEF IsIdentity
<1>2. \A i \in 1..Len(entries) : Len(entries[i][2]) \in Nat
  BY ListIsSeq DEF IsIdentity, IsContent
<1>3. QED
  BY <1>1, <1>2 DEF EachLength

\* Nothing hashed, nothing counted.
LEMMA SizesNone == Sizes(<<>>) = 0 /\ IsIdentity(<<>>)
<1>1. IsList(<<>>) /\ Len(<<>>) = 0
  BY NoList
<1>2. SumFunctionOnSet(EachLength(<<>>), {}) = 0
  BY SumEmpty
<1>3. 1..0 = {}
  OBVIOUS
<1>4. QED
  BY <1>1, <1>2, <1>3 DEF Sizes, IsIdentity

\* One more file is counted.
LEMMA SizesAppended ==
  ASSUME NEW entries, IsIdentity(entries), NEW name, NEW file, IsContent(file)
  PROVE  /\ IsIdentity(Append(entries, <<name, file>>))
         /\ Sizes(Append(entries, <<name, file>>)) = Sizes(entries) + Len(file)
<1> DEFINE t == Append(entries, <<name, file>>)
<1>1. /\ IsList(t) /\ Len(t) = Len(entries) + 1 /\ Len(entries) \in Nat
      /\ \A i \in 1..Len(entries) : t[i] = entries[i]
      /\ t[Len(entries) + 1] = <<name, file>>
  BY Appended DEF IsIdentity
<1> HIDE DEF t
<1>2. IsIdentity(t)
  <2>1. \A i \in 1..Len(t) : i \in 1..Len(entries) \/ i = Len(entries) + 1
    BY <1>1
  <2>2. QED
    BY <1>1, <2>1 DEF IsIdentity
<1>3. /\ \A i \in 1..Len(t) : EachLength(t)[i] = Len(t[i][2]) /\ EachLength(t)[i] \in Nat
      /\ \A i \in 1..Len(entries) : EachLength(entries)[i] = Len(entries[i][2])
  BY <1>2, LengthsAre
<1>4. PICK f, g, k : f = EachLength(entries) /\ g = EachLength(t) /\ k = Len(entries)
  OBVIOUS
<1>5. k \in Nat /\ g[k + 1] = Len(file) /\ \A i \in 1..k : f[i] = g[i]
  BY <1>1, <1>3, <1>4
<1>6. \A i \in 1..(k + 1) : g[i] \in Nat
  BY <1>1, <1>3, <1>4
<1>7. SumFunctionOnSet(f, 1..k) = SumFunctionOnSet(g, 1..k)
  BY <1>5, <1>6, SumPrefix
<1>8. SumFunctionOnSet(g, 1..(k + 1)) = SumFunctionOnSet(g, 1..k) + g[k + 1]
  BY <1>5, <1>6, SumNext
<1>9. QED
  BY <1>1, <1>2, <1>4, <1>5, <1>7, <1>8 DEF Sizes, t

\* One more of the files of a tape that fits.
LEMMA SizesPart ==
  ASSUME NEW entries, NEW more, IsIdentity(entries), IsIdentity(more), Len(entries) < Len(more),
         \A i \in 1..Len(entries) : entries[i] = more[i]
  PROVE  Sizes(entries) + Len(more[Len(entries) + 1][2]) <= Sizes(more)
<1>1. /\ Len(entries) \in Nat /\ Len(more) \in Nat
      /\ \A i \in 1..Len(entries) : EachLength(entries)[i] = Len(entries[i][2])
      /\ \A i \in 1..Len(more) :
           EachLength(more)[i] = Len(more[i][2]) /\ EachLength(more)[i] \in Nat
  BY LengthsAre
<1>2. PICK f, g, k, m :
        f = EachLength(entries) /\ g = EachLength(more) /\ k = Len(entries) /\ m = Len(more)
  OBVIOUS
<1>3. /\ k \in Nat /\ m \in Nat /\ k < m
      /\ \A i \in 1..m : g[i] \in Nat
      /\ \A i \in 1..k : f[i] = g[i]
      /\ g[k + 1] = Len(more[Len(entries) + 1][2])
  <2>1. k \in Nat /\ m \in Nat /\ k < m
    BY <1>1, <1>2
  <2>2. \A i \in 1..m : g[i] = Len(more[i][2]) /\ g[i] \in Nat
    BY <1>1, <1>2
  <2>3. \A i \in 1..k : i \in 1..m /\ entries[i] = more[i] /\ f[i] = Len(entries[i][2])
    BY <1>1, <1>2, <2>1
  <2>4. \A i \in 1..k : f[i] = g[i]
    BY <2>2, <2>3
  <2>5. k + 1 \in 1..m
    BY <2>1
  <2>6. g[k + 1] = Len(more[Len(entries) + 1][2])
    BY <1>2, <2>2, <2>5
  <2>7. QED
    BY <2>1, <2>2, <2>4, <2>6
<1>4. SumFunctionOnSet(g, 1..k) + g[k + 1] <= SumFunctionOnSet(g, 1..m)
  BY <1>3, SumNext
<1>5. SumFunctionOnSet(f, 1..k) = SumFunctionOnSet(g, 1..k)
  BY <1>3, SumPrefix
<1>6. QED
  BY <1>2, <1>3, <1>4, <1>5 DEF Sizes

\* What is counted is a number.
LEMMA SizesSame ==
  ASSUME NEW entries, IsIdentity(entries)
  PROVE  Sizes(entries) \in Nat
<1>1. /\ Len(entries) \in Nat
      /\ \A i \in 1..Len(entries) : EachLength(entries)[i] \in Nat
  BY LengthsAre
<1>2. QED
  BY <1>1, SumPrefix DEF Sizes

-----------------------------------------------------------------------------
(* What is converted has a size.                                           *)

\* A snapshot has as many quotes as were converted.
LEMMA RawSized ==
  ASSUME NEW meta, NEW anchor, NEW raw, Len(raw) \in Nat,
         RawQuotesToSnapshot(meta, anchor, raw) # Rejected
  PROVE  SizeOf(RawQuotesToSnapshot(meta, anchor, raw)) = 1 + Len(raw)
<1> DEFINE keys == {KeyOf(raw[i], anchor) : i \in DOMAIN raw}
           quotes == [key \in keys |->
              QuoteView(raw[CHOOSE i \in DOMAIN raw : KeyOf(raw[i], anchor) = key], meta.tick)]
<1>1. RawQuotesToSnapshot(meta, anchor, raw) = [meta |-> meta, quotes |-> quotes]
  BY DEF RawQuotesToSnapshot
<1>2. Cardinality(keys) = Len(raw)
  BY DEF RawQuotesToSnapshot
<1>3. DOMAIN quotes = keys
  OBVIOUS
<1> HIDE DEF keys, quotes
<1>4. QED
  BY <1>1, <1>2, <1>3 DEF SizeOf

\* A group has a quote a row.
LEMMA GroupSized ==
  ASSUME NEW rows, IsList(rows), NEW step, NEW anchor, Group(rows, step, anchor) # Rejected
  PROVE  SizeOf(Group(rows, step, anchor)) = 1 + Len(rows) /\ Len(rows) \in Nat
<1>1. Group(rows, step, anchor)
        = RawQuotesToSnapshot(HeadOf(rows[1], step), anchor, Raws(rows))
  BY GroupKept
<1>2. Len(rows) \in Nat /\ DOMAIN rows = 1..Len(rows)
  BY ListIsSeq
<1>3. Len(Raws(rows)) = Len(rows)
  <2>1. Raws(rows) = [i \in 1..Len(rows) |-> RawQuote(rows[i])]
    BY <1>2, RawsAre
  <2> DEFINE q == Raws(rows)
  <2>2. q = [i \in 1..Len(rows) |-> q[i]]
    BY <2>1
  <2> HIDE DEF q
  <2>3. Len(q) = Len(rows)
    BY <1>2, <2>2, ListOf
  <2>4. QED
    BY <2>3 DEF q
<1>4. QED
  BY <1>1, <1>2, <1>3, RawSized

\* What a file is read as, and is not rejected, is a tape.
LEMMA FileTape ==
  ASSUME NEW kind \in {"csv", "parquet"}, NEW file, IsContent(file), NEW at, NEW anchor,
         NEW s, s = Snapshots(kind, at, file, anchor), \A i \in DOMAIN s : s[i] # Rejected
  PROVE  IsTape(s)
<1> DEFINE rows == Tail(file)
           from == FromOf(rows, anchor)
<1>1. /\ Legible(kind, file)
      /\ kind = "csv" => s = <<Whole(file, at, anchor)>>
      /\ kind = "parquet" => s = Pieces(file, anchor)
  BY FileKept
<1>2. IsList(rows) /\ Len(rows) \in Nat /\ DOMAIN rows = 1..Len(rows)
  BY <1>1, RowsOf, ListIsSeq DEF Legible
<1>3. /\ IsList(s) /\ Len(s) \in Nat /\ DOMAIN s = 1..Len(s)
      /\ kind = "csv" => Len(s) = 1
      /\ \A i \in 1..Len(s) : s[i].meta.ts \in Nat
  BY FileRead
<1> HIDE DEF rows, from
<1>4. \A i \in 1..Len(s) : SizeOf(s[i]) \in Nat
  <2>1. SUFFICES ASSUME NEW r \in 1..Len(s) PROVE SizeOf(s[r]) \in Nat
    OBVIOUS
  <2>2. s[r] # Rejected
    BY <1>3
  <2>3. CASE kind = "csv"
    <3>1. r = 1 /\ s[1] = Group(rows, at, from)
      BY <1>1, <1>3, <2>3 DEF Whole, rows, from
    <3>2. SizeOf(s[r]) = 1 + Len(rows)
      BY <1>2, <2>2, <3>1, GroupSized
    <3>3. QED
      BY <1>2, <3>2
  <2>4. CASE kind = "parquet"
    <3> DEFINE m == Cardinality(Starts(rows))
    <3>1. s = [x \in 1..m |-> Group(GroupAt(rows, StartAt(rows, x)),
                                    rows[StartAt(rows, x)].step[2], from)]
      BY <1>1, <2>4 DEF Pieces, rows, from
    <3>2. r \in 1..m
      BY <1>3, <3>1
    <3>3. s[r] = Group(GroupAt(rows, StartAt(rows, r)), rows[StartAt(rows, r)].step[2], from)
      BY <3>1, <3>2
    <3>4. StartAt(rows, r) \in Starts(rows)
      BY <1>2, <3>2, StartsInOrder
    <3> DEFINE g == GroupAt(rows, StartAt(rows, r))
    <3>5. IsList(g)
      BY <1>2, <3>4, GroupRows
    <3> HIDE DEF g
    <3>6. SizeOf(s[r]) = 1 + Len(g) /\ Len(g) \in Nat
      BY <2>2, <3>3, <3>5, GroupSized DEF g
    <3>7. QED
      BY <3>6
  <2>5. QED
    BY <2>3, <2>4
<1>5. QED
  BY <1>3, <1>4 DEF IsTape

\* The quotes of a response: a call and a put of each contract.
SidesOf(response, size) ==
  [i \in 1..(2 * Len(response.contracts)) |->
     LET contract == response.contracts[(i + 1) \div 2] IN
     IF i % 2 = 1 THEN SideToRawQuote(contract, "Call", contract.call, size)
     ELSE SideToRawQuote(contract, "Put", contract.put, size)]

\* A response that is converted has a size.
LEMMA ResponseSized ==
  ASSUME NEW response, IsChainResponse(response), NEW step, NEW spec, NEW anchor, NEW size,
         ChainResponseToSnapshot(response, step, spec, anchor, size) # Rejected
  PROVE  SizeOf(ChainResponseToSnapshot(response, step, spec, anchor, size)) \in Nat
<1> DEFINE s == ChainResponseToSnapshot(response, step, spec, anchor, size)
           n == 2 * Len(response.contracts)
<1>1. IsList(response.contracts)
  BY DEF IsChainResponse
<1>2. n \in Nat
  BY <1>1, ListIsSeq
<1> HIDE DEF n
<1> DEFINE raws == SidesOf(response, size)
           heading == [ts |-> response.ts, step |-> step, underlying |-> response.underlying,
                    underlying_price |-> DollarsToCents(response.price), tick |-> spec.tick,
                    multiplier |-> spec.multiplier]
<1>3. s = RawQuotesToSnapshot(heading, anchor, raws)
  BY DEF ChainResponseToSnapshot, SidesOf
<1>7. raws = [i \in 1..n |-> raws[i]]
  BY DEF SidesOf, n
<1> HIDE DEF raws, heading
<1>4. PICK meta, raw : s = RawQuotesToSnapshot(meta, anchor, raw) /\ raw = [i \in 1..n |-> raw[i]]
  BY <1>3, <1>7
<1>5. Len(raw) \in Nat
  BY <1>2, <1>4, ListOf
<1>6. QED
  BY <1>4, <1>5, RawSized

-----------------------------------------------------------------------------
(* The inductive invariant.                                                *)

Opening == {"stat", "list", "open", "hash", "read", "drain"}
Playing == {"start", "play", "done"}

\* The files of a source, and those of them that are there.
MineOf(kind) == {name \in Names : Kind[name] = kind}
Present(kind, files) == {name \in MineOf(kind) : files[name] # Absent}

Typed ==
  /\ source \in {"csv", "parquet", "simulator"} /\ round \in {1, 2}
  /\ pc \in Opening \cup Playing \cup {"failed"}
  /\ pc = "list" => source = "csv"
  /\ pc = "hash" => source = "parquet"
  /\ pc = "read" => source # "simulator"
  /\ pc = "drain" => source = "simulator"
  /\ DOMAIN disk = Names
  /\ \A name \in MineOf(source) : disk[name] \in {Absent, Subdir} \cup Bytes[name]
  /\ server \in {"seeded", "old", "clamps"} /\ dataSeed \in DOMAIN Walks
  /\ server # "seeded" => source = "simulator"
  /\ IsList(seen) /\ Distinct(seen) /\ \A i \in 1..Len(seen) : seen[i] \in MineOf(source)
  /\ pc \in {"hash", "read"} =>
       IsContent(handle) /\ opened \in MineOf(source) /\ handle \in Bytes[opened]
  /\ IsTape(tape) /\ Len(tape) <= MaxSteps
  /\ total = TotalOf(tape) /\ total <= MaxTotal
  /\ decoded \in Nat /\ decoded <= MaxDecompressed
  /\ pc \in {"stat", "list"} => decoded = 0
  /\ pc = "stat" => seen = <<>>
  /\ pc \in {"stat", "list", "hash"} => tape = <<>>

\* The feed and the clock.
Fed ==
  /\ pc \notin Playing => cursor = 0 /\ clock = Before /\ played = <<>>
  /\ pc \in Playing => FromTape(tape)
  /\ pc = "start" => cursor = 0 /\ clock = Before /\ played = <<>>
  /\ pc = "play" =>
       /\ cursor \in 1..(Len(tape) - 1)
       /\ clock = [ts |-> tape[cursor].meta.ts, step |-> cursor - 1]
       /\ IsList(played) /\ Len(played) = cursor
       /\ \A i \in 1..cursor : played[i] = tape[i]
  /\ pc = "done" => played = tape

\* What a tape of files is, by what was hashed: a file a step, or all of one file.
AnchorAt(i, entries) == IF i = 1 THEN <<>> ELSE <<Tail(entries[1][2])[1].ts[2]>>
IsTapeOf(kind, entries, snapshots) ==
  IF kind = "csv"
  THEN /\ Len(snapshots) = Len(entries)
       /\ \A i \in 1..Len(entries) :
            Snapshots("csv", i - 1, entries[i][2], AnchorAt(i, entries)) = <<snapshots[i]>>
  ELSE IF entries = <<>> THEN snapshots = <<>>
  ELSE Len(entries) = 1 /\ Snapshots("parquet", 1, entries[1][2], <<>>) = snapshots

\* A Parquet file that is rewritten between the hash and the second reading is not
\* what was hashed.
Settled(kind) == kind = "csv" \/ "parquet" \notin InPlace

\* The files that were hashed are those of the listing, in name order; the tape
\* is theirs.
Told ==
  source # "simulator" =>
    /\ IsIdentity(identity) /\ Len(identity) <= Len(seen)
    /\ \A i \in 1..Len(identity) : identity[i][1] = seen[i]
    /\ pc \in {"stat", "list", "hash"} => identity = <<>>
    /\ pc \in {"open", "hash", "read"} \cup Playing => Ascending(seen)
    /\ pc \in {"open", "hash", "read"} \cup Playing /\ source = "parquet" => Len(seen) = 1
    /\ pc = "hash" => opened = seen[1]
    /\ pc = "open" /\ identity = <<>> => tape = <<>>
    /\ pc \in {"open"} \cup Playing /\ Settled(source) => IsTapeOf(source, identity, tape)
    /\ pc = "read" /\ source = "csv" =>
         /\ IsTapeOf(source, identity, tape)
         /\ Len(identity) < Len(seen) /\ opened = seen[Len(identity) + 1]
    /\ pc = "read" /\ source = "parquet" =>
         /\ Len(identity) = 1 /\ tape = <<>>
         /\ Settled(source) => identity[1][2] = BytesOf(handle)
    /\ pc \in Playing => Len(identity) = Len(seen)

\* The seed that drives the walk, when the service has one.
DrivenBy(service, seed) ==
  IF service = "clamps" THEN CHOOSE s \in DOMAIN Walks : \A t \in DOMAIN Walks : s <= t
  ELSE seed

\* What a walk was drained into.
Converted(responses, i) ==
  ChainResponseToSnapshot(responses[i], i - 1, Instrument, responses[1].ts, QuoteSize)
IsDrainOf(responses, snapshots) ==
  /\ Len(snapshots) <= Len(responses)
  /\ \A i \in 1..Len(snapshots) :
       /\ snapshots[i] = Converted(responses, i)
       /\ 2 * Len(responses[i].contracts) <= MaxContracts /\ HasTs(responses[i])
       /\ i > 1 => responses[i].ts > responses[i - 1].ts

Walked ==
  source = "simulator" =>
    /\ pc = "stat" => walk = <<>>
    /\ pc \in {"drain", "open"} \cup Playing =>
         /\ \E seed \in DOMAIN Walks : walk = Walks[seed]
         /\ server # "old" => walk = Walks[DrivenBy(server, dataSeed)]
         /\ IsDrainOf(walk, tape)
    /\ pc \in {"open"} \cup Playing => Len(tape) = Len(walk) /\ identity = TapeSha256(tape)

\* What the first round recorded.
Kept ==
  /\ round = 1 /\ pc \notin Playing => first = NotOpened
  /\ round = 1 /\ pc \in Playing => first = [tape |-> tape, identity |-> identity]
  /\ round = 1 => pin = NoPin
  /\ round = 2 =>
       /\ pin = first.identity
       /\ IsTape(first.tape) /\ FromTape(first.tape)
       /\ Len(first.tape) <= MaxSteps /\ TotalOf(first.tape) <= MaxTotal
       /\ source # "simulator" =>
            /\ IsIdentity(first.identity) /\ first.identity # NoPin
            /\ Settled(source) => IsTapeOf(source, first.identity, first.tape)
            /\ pc \in Playing => identity = first.identity
       /\ source = "simulator" =>
            /\ first.identity = TapeSha256(first.tape)
            /\ \E seed \in DOMAIN Walks : IsDrainOf(Walks[seed], first.tape)
            /\ server # "old" =>
                 /\ Len(first.tape) = Len(Walks[DrivenBy(server, dataSeed)])
                 /\ IsDrainOf(Walks[DrivenBy(server, dataSeed)], first.tape)

\* The entries are the present files as they are; all of them, in name order.
AreFiles(kind, files, entries) ==
  \A i \in 1..Len(entries) :
    /\ entries[i][1] \in MineOf(kind) /\ IsFile(files[entries[i][1]])
    /\ entries[i][2] = files[entries[i][1]] /\ Len(entries[i][2]) <= MaxFileBytes
NamesIn(entries) == [i \in 1..Len(entries) |-> entries[i][1]]
AllFiles(kind, files, entries) ==
  Ascending(NamesIn(entries)) /\ NamesOf(NamesIn(entries)) = Present(kind, files)

\* What the files count, against the ceiling: a CSV directory by the lengths of its
\* files, a Parquet file by what it says of itself and what it decodes to.
UnpacksAll(entries) == entries = <<>> \/ Unpacks(entries[1][2])
Counted(kind, entries, size) ==
  IF kind = "csv" THEN size = Sizes(entries) ELSE UnpacksAll(entries)
Fits(kind, entries) ==
  IF kind = "csv" THEN Sizes(entries) <= MaxDecompressed ELSE UnpacksAll(entries)

\* Nobody wrote since the first round began.
Same ==
  ~dirty /\ source # "simulator" /\ (pc # "stat" \/ round = 2) =>
    /\ pc = "list" => fresh = {} /\ \A i \in 1..Len(seen) : IsFile(disk[seen[i]])
    /\ pc \in {"open", "hash", "read"} \cup Playing =>
         AreFiles(source, disk, identity) /\ NamesOf(seen) = Present(source, disk)
    /\ pc \in {"open"} \cup Playing =>
         IsTapeOf(source, identity, tape) /\ Counted(source, identity, decoded)
    /\ pc \in {"hash", "read"} =>
         IsFile(disk[opened]) /\ handle = disk[opened] /\ Len(handle) <= MaxFileBytes
    /\ pc = "read" /\ source = "csv" => decoded = Sizes(identity) + Len(handle)
    /\ pc = "read" /\ source = "parquet" => identity[1][2] = BytesOf(handle)
    /\ round = 2 =>
         /\ AreFiles(source, disk, first.identity) /\ AllFiles(source, disk, first.identity)
         /\ Fits(source, first.identity)
         /\ IsTapeOf(source, first.identity, first.tape)

\* A second round fails only on files that changed or a walk of another seed.
Opens == round = 2 /\ pc = "failed" => dirty \/ server = "old"

TapeInv == Typed /\ Fed /\ Told /\ Walked /\ Kept /\ Same /\ Opens

-----------------------------------------------------------------------------
(* What does not open, starts or stops.                                    *)

\* The phases.
LEMMA Phases ==
  /\ Opening \cap Playing = {} /\ "failed" \notin Opening \cup Playing
BY DEF Opening, Playing

\* A run that has opened nothing.
LEMMA InitKeeps ==
  ASSUME Init
  PROVE  TapeInv
<1> USE DEF Init
<1>1. IsList(<<>>) /\ Len(<<>>) = 0 /\ IsTape(<<>>) /\ TotalOf(<<>>) = 0
  BY NoList, TotalNone
<1>2. Typed
  <2>1. source \in {"csv", "parquet", "simulator"}
    BY TapeAssumption
  <2>2. server \in {"seeded", "old", "clamps"} /\ (server # "seeded" => source = "simulator")
    BY TapeAssumption
  <2>3. dataSeed \in DOMAIN Walks
    BY TapeAssumption
  <2>4. DOMAIN disk = Names
        /\ \A name \in MineOf(source) : disk[name] \in {Absent, Subdir} \cup Bytes[name]
    BY DEF MineOf
  <2>5. Distinct(<<>>)
    BY DEF Distinct
  <2>6. MaxSteps \in Nat /\ MaxTotal \in Nat /\ MaxDecompressed \in Nat
    BY TapeAssumption
  <2>7. QED
    BY <1>1, <2>1, <2>2, <2>3, <2>4, <2>5, <2>6 DEF Typed, Opening
<1>3. Fed
  BY DEF Fed, Playing
<1>4. Told
  BY <1>1, SizesNone DEF Told, Playing
<1>5. Walked /\ Kept /\ Same /\ Opens
  BY DEF Walked, Kept, Same, Opens, Playing
<1>6. QED
  BY <1>2, <1>3, <1>4, <1>5 DEF TapeInv

\* A tape that does not open; in a second round, only of changed files or of another walk.
LEMMA FailKeeps ==
  ASSUME TapeInv, pc \in Opening, Fail, round = 2 => dirty \/ server = "old"
  PROVE  TapeInv'
<1> USE DEF TapeInv, Fail, Goto
<1> USE DEF envVars, simVars, openVars, playVars
<1>1. pc' = "failed" /\ pc \notin Playing
  BY Phases
<1>2. Typed'
  BY <1>1, Phases DEF Typed
<1>3. Fed'
  BY <1>1, Phases DEF Fed
<1>4. Told'
  BY <1>1, Phases DEF Told
<1>5. Walked' /\ Opens'
  BY <1>1, Phases DEF Walked, Opens
<1>6. Kept'
  BY <1>1, Phases DEF Kept
<1>7. Same'
  BY <1>1, Phases DEF Same
<1>8. QED
  BY <1>2, <1>3, <1>4, <1>5, <1>6, <1>7

\* Nothing happens.
LEMMA StutterKeeps ==
  ASSUME TapeInv, UNCHANGED vars
  PROVE  TapeInv'
<1> USE DEF vars, envVars, simVars, openVars, playVars
<1>1. Typed' /\ Fed'
  BY DEF TapeInv, Typed, Fed
<1>2. Told' /\ Walked' /\ Opens'
  BY DEF TapeInv, Told, Walked, Opens
<1>3. Kept' /\ Same'
  BY DEF TapeInv, Kept, Same
<1>4. QED
  BY <1>1, <1>2, <1>3 DEF TapeInv

\* A write: the open handle of a file that is rewritten in place is another content.
LEMMA WriteKeeps ==
  ASSUME TapeInv, Write
  PROVE  TapeInv'
<1> USE DEF Write
<1>1. PICK name \in Mine : \E entry \in {Absent} \cup Bytes[name] :
        /\ disk' = [disk EXCEPT ![name] = entry]
        /\ handle' = IF /\ opened = name /\ Kind[name] \in InPlace
                        /\ Absent \notin {entry, disk[name]}
                     THEN entry ELSE handle
  OBVIOUS
<1>2. PICK entry \in {Absent} \cup Bytes[name] :
        /\ disk' = [disk EXCEPT ![name] = entry]
        /\ handle' = IF /\ opened = name /\ Kind[name] \in InPlace
                        /\ Absent \notin {entry, disk[name]}
                     THEN entry ELSE handle
  BY <1>1
<1>3. name \in Names /\ Kind[name] = source
  BY DEF Mine
<1>4. handle' = handle \/ (handle' \in Bytes[name] /\ source \in InPlace)
  BY <1>2, <1>3
<1>5. IsContent(handle') \/ handle' = handle
  BY <1>3, <1>4, TapeAssumption
<1>6. Typed'
  <2>1. DOMAIN disk' = Names
        /\ \A x \in MineOf(source) : disk'[x] \in {Absent, Subdir} \cup Bytes[x]
    BY <1>2 DEF TapeInv, Typed
  <2>2. /\ UNCHANGED <<source, server, round, pc, seen, opened, decoded, tape, total>>
        /\ dataSeed' = dataSeed
    BY DEF simVars
  <2>3. QED
    BY <1>5, <2>1, <2>2 DEF TapeInv, Typed
<1>7. Fed'
  BY DEF TapeInv, Fed, playVars
<1>8. Told'
  <2>1. Settled(source) => source = "csv" \/ handle' = handle
    <3>1. source \in {"csv", "parquet"}
      BY <1>3, TapeAssumption
    <3>2. QED
      BY <1>4, <3>1 DEF Settled
  <2>2. UNCHANGED <<source, pc, seen, opened, identity, tape>>
    OBVIOUS
  <2>3. QED
    BY <2>1, <2>2 DEF TapeInv, Told
<1>9. Walked'
  BY DEF TapeInv, Walked, simVars
<1>10. Kept'
  BY DEF TapeInv, Kept, simVars
<1>11. Same'
  BY DEF Same
<1>12. Opens'
  BY DEF TapeInv, Typed, Opens
<1>13. QED
  BY <1>6, <1>7, <1>8, <1>9, <1>10, <1>11, <1>12 DEF TapeInv

\* CSV: the directory is there.
LEMMA StatDirKeeps ==
  ASSUME TapeInv, StatDir
  PROVE  TapeInv'
<1> USE DEF StatDir, Goto
<1> USE DEF envVars, simVars, openVars, playVars
<1>1. Typed'
  BY DEF TapeInv, Typed, Opening
<1>2. Fed'
  BY DEF TapeInv, Fed, Playing
<1>3. Told' /\ Walked' /\ Opens'
  BY DEF TapeInv, Told, Walked, Opens, Playing
<1>4. Kept'
  BY DEF TapeInv, Kept, Playing
<1>5. Same'
  <2>1. Len(seen) = 0
    BY NoList DEF TapeInv, Typed
  <2>2. \A i \in 1..Len(seen') : IsFile(disk[seen'[i]])
    BY <2>1
  <2>3. QED
    BY <2>2 DEF TapeInv, Same, Playing
<1>6. QED
  BY <1>1, <1>2, <1>3, <1>4, <1>5 DEF TapeInv

\* A second run of what the first one recorded.
LEMMA AgainKeeps ==
  ASSUME TapeInv, Again
  PROVE  TapeInv'
<1> USE DEF Again
<1> USE DEF envVars
<1>0. first = [tape |-> tape, identity |-> identity] /\ pc = "done"
  BY DEF TapeInv, Kept, Playing
<1>1. IsList(<<>>) /\ Len(<<>>) = 0 /\ IsTape(<<>>) /\ TotalOf(<<>>) = 0
  BY NoList, TotalNone
<1>2. Typed'
  <2>1. Distinct(<<>>)
    BY DEF Distinct
  <2>2. MaxSteps \in Nat /\ MaxTotal \in Nat /\ MaxDecompressed \in Nat
    BY TapeAssumption
  <2>3. QED
    BY <1>1, <2>1, <2>2 DEF TapeInv, Typed, Opening, Playing
<1>3. Fed'
  BY DEF Fed, Playing
<1>4. Told'
  BY <1>1, SizesNone DEF Told, Playing
<1>5. Walked' /\ Opens'
  BY DEF Walked, Opens, Playing
<1>6. Kept'
  <2>1. IsTape(tape) /\ Len(tape) <= MaxSteps /\ TotalOf(tape) <= MaxTotal /\ FromTape(tape)
    BY <1>0 DEF TapeInv, Typed, Fed, Playing
  <2>2. first.tape = tape /\ first.identity = identity
    BY <1>0
  <2>3. source # "simulator" =>
          /\ IsIdentity(identity) /\ identity # NoPin
          /\ Settled(source) => IsTapeOf(source, identity, tape)
    <3>1. SUFFICES ASSUME source # "simulator"
                   PROVE  /\ IsIdentity(identity) /\ identity # NoPin
                          /\ Settled(source) => IsTapeOf(source, identity, tape)
      OBVIOUS
    <3>2. IsIdentity(identity) /\ (Settled(source) => IsTapeOf(source, identity, tape))
      BY <1>0, <3>1 DEF TapeInv, Told, Playing
    <3>3. identity # <<>>
      <4>1. ASSUME identity = <<>> PROVE FALSE
        <5>1. Len(seen) = 0
          BY <1>0, <3>1, <4>1, NoList DEF TapeInv, Told, Playing
        <5>2. source = "csv"
          BY <1>0, <3>1, <5>1 DEF TapeInv, Typed, Told, Playing
        <5>3. Len(tape) = 0
          BY <3>2, <4>1, <5>2, NoList DEF IsTapeOf, Settled
        <5>4. tape = <<>>
          BY <2>1, <5>3, NoList DEF IsTape
        <5>5. QED
          BY <2>1, <5>4 DEF FromTape
      <4>2. QED
        BY <4>1
    <3>4. QED
      BY <3>2, <3>3 DEF NoPin
  <2>4. source = "simulator" =>
          /\ identity = TapeSha256(tape)
          /\ \E seed \in DOMAIN Walks : IsDrainOf(Walks[seed], tape)
          /\ server # "old" =>
               /\ Len(tape) = Len(Walks[DrivenBy(server, dataSeed)])
               /\ IsDrainOf(Walks[DrivenBy(server, dataSeed)], tape)
    BY <1>0 DEF TapeInv, Walked, Playing
  <2>5. QED
    BY <2>1, <2>2, <2>3, <2>4 DEF Kept, Playing
<1>7. Same'
  <2>1. SUFFICES ASSUME ~dirty, source # "simulator"
                 PROVE  /\ AreFiles(source, disk, identity) /\ AllFiles(source, disk, identity)
                        /\ Fits(source, identity)
                        /\ IsTapeOf(source, identity, tape)
    BY <1>0 DEF Same, Playing
  <2>2. /\ AreFiles(source, disk, identity) /\ NamesOf(seen) = Present(source, disk)
        /\ IsTapeOf(source, identity, tape) /\ Counted(source, identity, decoded)
    BY <1>0, <2>1 DEF TapeInv, Same, Playing
  <2>3. NamesIn(identity) = seen /\ Ascending(seen)
    <3>1. /\ Len(identity) = Len(seen) /\ \A i \in 1..Len(identity) : identity[i][1] = seen[i]
          /\ Ascending(seen)
      BY <1>0, <2>1 DEF TapeInv, Told, Playing
    <3>2. seen = [i \in 1..Len(seen) |-> seen[i]]
      BY DEF TapeInv, Typed, IsList
    <3>3. QED
      BY <3>1, <3>2 DEF NamesIn
  <2>4. Fits(source, identity)
    BY <2>2 DEF TapeInv, Typed, Counted, Fits
  <2>5. QED
    BY <2>2, <2>3, <2>4 DEF AllFiles
<1>8. QED
  BY <1>2, <1>3, <1>4, <1>5, <1>6, <1>7 DEF TapeInv

-----------------------------------------------------------------------------
(* The listing.                                                            *)

\* A list of distinct names and one more, all of them in another list.
LEMMA Pigeons ==
  ASSUME NEW a, NEW b, IsList(a), IsList(b), Distinct(a), NEW x, x \notin NamesOf(a),
         NamesOf(a) \cup {x} \subseteq NamesOf(b)
  PROVE  Len(a) + 1 <= Len(b)
<1>1. /\ Len(a) \in Nat /\ DOMAIN a = 1..Len(a)
      /\ Len(b) \in Nat /\ DOMAIN b = 1..Len(b)
  BY ListIsSeq
<1>2. /\ IsFiniteSet(1..Len(a)) /\ Cardinality(1..Len(a)) = Len(a)
      /\ IsFiniteSet(1..Len(b)) /\ Cardinality(1..Len(b)) = Len(b)
  <2>1. \A n \in Nat : IsFiniteSet(1..n) /\ Cardinality(1..n) = n
    BY FS_Interval
  <2>2. QED
    BY <1>1, <2>1
<1>3. a \in Surjection(1..Len(a), NamesOf(a)) /\ a \in Injection(1..Len(a), NamesOf(a))
  <2>1. a \in [1..Len(a) -> NamesOf(a)]
    BY <1>1 DEF IsList, NamesOf
  <2>2. \A y \in NamesOf(a) : \E i \in 1..Len(a) : a[i] = y
    BY <1>1 DEF NamesOf
  <2>3. \A i, j \in 1..Len(a) : a[i] = a[j] => i = j
    BY <1>1 DEF Distinct
  <2>4. QED
    BY <2>1, <2>2, <2>3, Fun_IsSurj, Fun_IsInj
<1>4. b \in Surjection(1..Len(b), NamesOf(b))
  <2>1. b \in [1..Len(b) -> NamesOf(b)]
    BY <1>1 DEF IsList, NamesOf
  <2>2. \A y \in NamesOf(b) : \E i \in 1..Len(b) : b[i] = y
    BY <1>1 DEF NamesOf
  <2>3. QED
    BY <2>1, <2>2, Fun_IsSurj
<1>5. IsFiniteSet(NamesOf(a)) /\ Cardinality(NamesOf(a)) = Len(a)
  <2>1. a \in Bijection(1..Len(a), NamesOf(a))
    BY <1>3 DEF Bijection
  <2>2. QED
    BY <1>2, <2>1, FS_Bijection DEF ExistsBijection
<1>6. IsFiniteSet(NamesOf(b)) /\ Cardinality(NamesOf(b)) <= Len(b)
  BY <1>2, <1>4, FS_Surjection
<1>7. /\ Cardinality(NamesOf(a) \cup {x}) = Len(a) + 1
  BY <1>5, FS_AddElement
<1>8. Cardinality(NamesOf(a) \cup {x}) <= Cardinality(NamesOf(b)) /\ Cardinality(NamesOf(b)) \in Nat
  BY <1>6, FS_Subset, FS_CardinalityType
<1>9. QED
  BY <1>1, <1>6, <1>7, <1>8

\* In a second round of what nobody changed, every entry is a file of the tape.
LEMMA EntriesKnown ==
  ASSUME TapeInv, ~dirty, round = 2, source # "simulator"
  PROVE  /\ \A name \in Present(source, disk) :
              IsFile(disk[name]) /\ Len(disk[name]) <= MaxFileBytes
         /\ IsList(NamesIn(first.identity)) /\ Len(NamesIn(first.identity)) = Len(first.identity)
         /\ DOMAIN NamesIn(first.identity) = 1..Len(first.identity)
         /\ NamesOf(NamesIn(first.identity)) = Present(source, disk)
         /\ Len(first.identity) \in Nat
<1>1. AreFiles(source, disk, first.identity) /\ AllFiles(source, disk, first.identity)
  BY DEF TapeInv, Same
<1>2. IsIdentity(first.identity)
  BY DEF TapeInv, Kept
<1>3. Len(first.identity) \in Nat
  BY <1>2, ListIsSeq DEF IsIdentity
<1> DEFINE names == NamesIn(first.identity)
<1>4. names = [i \in 1..Len(first.identity) |-> names[i]]
  BY DEF NamesIn
<1>5. IsList(names) /\ Len(names) = Len(first.identity) /\ DOMAIN names = 1..Len(first.identity)
  <2> HIDE DEF names
  <2>1. QED
    BY <1>3, <1>4, ListOf
<1>6. NamesOf(names) = Present(source, disk)
  BY <1>1 DEF AllFiles
<1>7. ASSUME NEW name \in Present(source, disk)
      PROVE  IsFile(disk[name]) /\ Len(disk[name]) <= MaxFileBytes
  <2>1. PICK i \in DOMAIN names : names[i] = name
    BY <1>6, <1>7 DEF NamesOf
  <2>2. i \in 1..Len(first.identity) /\ first.identity[i][1] = name
    BY <1>5, <2>1 DEF NamesIn
  <2>3. QED
    BY <1>1, <2>2 DEF AreFiles
<1>8. QED
  BY <1>3, <1>5, <1>6, <1>7

\* read_dir gives one more entry, of a name it has not given.
LEMMA ListKeeps ==
  ASSUME TapeInv, List
  PROVE  TapeInv'
<1>1. pc = "list" /\ source = "csv" /\ pc \in Opening
  BY DEF List, TapeInv, Typed, Opening
<1>2. PICK name \in Mine \ {seen[i] : i \in DOMAIN seen} :
       /\ disk[name] # Absent
       /\ \/ ~IsFile(disk[name]) /\ Fail
          \/ IsFile(disk[name]) /\ Len(seen) + 1 > MaxSteps /\ Fail
          \/ /\ IsFile(disk[name]) /\ Len(seen) + 1 <= MaxSteps
             /\ seen' = Append(seen, name)
             /\ Goto("list")
             /\ UNCHANGED <<pin, fresh, handle, opened, decoded, identity, tape, total, simVars>>
  BY DEF List
<1>3. name \in MineOf(source) /\ name \in Present(source, disk) /\ name \notin NamesOf(seen)
  BY <1>2 DEF Mine, MineOf, Present, NamesOf
<1>4. IsList(seen) /\ Distinct(seen) /\ DOMAIN seen = 1..Len(seen) /\ Len(seen) \in Nat
  BY ListIsSeq DEF TapeInv, Typed
<1>5. CASE Fail
  <2>1. ASSUME round = 2, ~dirty PROVE FALSE
    <3>1. IsFile(disk[name])
      BY <1>1, <1>3, <2>1, EntriesKnown
    <3>2. NamesOf(seen) \subseteq Present(source, disk)
      <4>1. \A i \in 1..Len(seen) : IsFile(disk[seen[i]]) /\ seen[i] \in MineOf(source)
        BY <1>1, <2>1 DEF TapeInv, Same, Typed
      <4>2. QED
        BY <1>4, <4>1 DEF NamesOf, Present, IsFile
    <3>3. Len(seen) + 1 <= Len(first.identity) /\ Len(first.identity) \in Nat
      <4>1. /\ IsList(NamesIn(first.identity))
            /\ Len(NamesIn(first.identity)) = Len(first.identity)
            /\ NamesOf(NamesIn(first.identity)) = Present(source, disk)
            /\ Len(first.identity) \in Nat
        BY <1>1, <2>1, EntriesKnown
      <4>2. QED
        BY <1>3, <1>4, <3>2, <4>1, Pigeons
    <3>4. Len(first.tape) = Len(first.identity) /\ Len(first.tape) <= MaxSteps
      BY <1>1, <2>1 DEF TapeInv, Kept, Settled, IsTapeOf
    <3>5. ~(Len(seen) + 1 > MaxSteps)
      BY <1>4, <3>3, <3>4, TapeAssumption
    <3>6. ~IsFile(disk[name]) \/ Len(seen) + 1 > MaxSteps \/ (Goto("list") /\ Goto("failed"))
      BY <1>2, <1>5 DEF Fail
    <3>7. QED
      BY <3>1, <3>5, <3>6 DEF Goto
  <2>2. QED
    BY <1>1, <1>5, <2>1, FailKeeps
<1>6. CASE /\ IsFile(disk[name]) /\ Len(seen) + 1 <= MaxSteps
           /\ seen' = Append(seen, name)
           /\ Goto("list")
           /\ UNCHANGED <<pin, fresh, handle, opened, decoded, identity, tape, total, simVars>>
  <2> USE <1>6 DEF Goto
  <2> USE DEF envVars, simVars, playVars
  <2>1. /\ IsList(seen') /\ Len(seen') = Len(seen) + 1
        /\ \A i \in 1..Len(seen) : seen'[i] = seen[i]
        /\ seen'[Len(seen) + 1] = name
    BY <1>4, Appended
  <2>2. \A i \in 1..Len(seen') : i \in 1..Len(seen) \/ i = Len(seen) + 1
    BY <1>4, <2>1
  <2>3. \A i \in 1..Len(seen') : seen'[i] \in MineOf(source)
    BY <1>3, <2>1, <2>2 DEF TapeInv, Typed
  <2>4. Distinct(seen')
    <3>1. DOMAIN seen' = 1..Len(seen')
      BY <2>1, ListIsSeq
    <3>2. \A i \in 1..Len(seen) : seen[i] # name
      BY <1>3, <1>4 DEF NamesOf
    <3>3. QED
      BY <1>4, <2>1, <2>2, <3>1, <3>2 DEF Distinct
  <2>5. Typed'
    BY <1>1, <2>1, <2>3, <2>4 DEF TapeInv, Typed
  <2>6. Fed' /\ Walked' /\ Opens'
    BY <1>1 DEF TapeInv, Fed, Walked, Opens
  <2>7. Told'
    <3>1. Len(identity) = 0
      BY <1>1, NoList DEF TapeInv, Told
    <3>2. QED
      BY <1>1, <1>4, <2>1, <3>1 DEF TapeInv, Told, Playing
  <2>8. Kept'
    BY <1>1 DEF TapeInv, Kept, Playing
  <2>9. Same'
    <3>1. ASSUME ~dirty PROVE fresh' = {} /\ \A i \in 1..Len(seen') : IsFile(disk[seen'[i]])
      BY <1>1, <2>1, <2>2, <3>1 DEF TapeInv, Same
    <3>2. QED
      BY <1>1, <3>1 DEF TapeInv, Same, Playing
  <2>10. QED
    BY <2>5, <2>6, <2>7, <2>8, <2>9 DEF TapeInv
<1>7. QED
  BY <1>2, <1>5, <1>6

\* The listing is complete, and sorted.
LEMMA ListedKeeps ==
  ASSUME TapeInv, Listed
  PROVE  TapeInv'
<1> USE DEF Listed, Goto
<1> USE DEF envVars, simVars, playVars
<1>1. pc = "list" /\ source = "csv"
  BY DEF TapeInv, Typed
<1>2. IsList(seen) /\ Distinct(seen) /\ DOMAIN seen = 1..Len(seen) /\ Len(seen) \in Nat
  BY ListIsSeq DEF TapeInv, Typed
<1>3. \A i \in DOMAIN seen : seen[i] \in MineOf(source) /\ seen[i] \in Int
  BY <1>2, TapeAssumption DEF TapeInv, Typed, MineOf
<1>4. /\ IsList(seen') /\ Len(seen') = Len(seen) /\ NamesOf(seen') = NamesOf(seen)
      /\ Ascending(seen') /\ Distinct(seen')
  BY <1>2, <1>3, SortedOrder
<1>5. \A i \in 1..Len(seen') : seen'[i] \in MineOf(source)
  <2>1. SUFFICES ASSUME NEW i \in 1..Len(seen') PROVE seen'[i] \in MineOf(source)
    OBVIOUS
  <2>2. seen'[i] \in NamesOf(seen)
    BY <1>4, ListIsSeq DEF NamesOf
  <2>3. QED
    BY <1>3, <2>2 DEF NamesOf
<1>6. identity = <<>> /\ tape = <<>> /\ Len(identity) = 0 /\ Len(tape) = 0 /\ decoded = 0
  BY <1>1, NoList DEF TapeInv, Told, Typed
<1>7. IsTapeOf("csv", identity, tape)
  BY <1>6 DEF IsTapeOf
<1>8. Typed'
  BY <1>1, <1>4, <1>5 DEF TapeInv, Typed, Opening
<1>9. Fed' /\ Walked' /\ Opens'
  BY <1>1 DEF TapeInv, Fed, Walked, Opens, Playing
<1>10. Told'
  BY <1>1, <1>2, <1>4, <1>6, <1>7, SizesNone DEF Told, Playing
<1>11. Kept'
  BY <1>1 DEF TapeInv, Kept, Playing
<1>12. Same'
  <2>1. SUFFICES ASSUME ~dirty
                 PROVE  /\ AreFiles(source, disk, identity)
                        /\ NamesOf(seen') = Present(source, disk)
                        /\ IsTapeOf(source, identity, tape)
                        /\ Counted(source, identity, decoded)
    BY <1>1 DEF TapeInv, Same, Playing
  <2>2. AreFiles(source, disk, identity) /\ Counted(source, identity, decoded)
    BY <1>1, <1>6, SizesNone DEF AreFiles, Counted
  <2>3. fresh = {} /\ \A i \in 1..Len(seen) : IsFile(disk[seen[i]])
    BY <1>1, <2>1 DEF TapeInv, Same
  <2>4. \A name \in MineOf(source) : disk[name] = Absent \/ \E i \in DOMAIN seen : seen[i] = name
    BY <2>3 DEF Mine, MineOf
  <2>5. NamesOf(seen) = Present(source, disk)
    BY <1>2, <1>3, <2>3, <2>4 DEF NamesOf, Present, IsFile
  <2>6. QED
    BY <1>1, <1>4, <1>7, <2>2, <2>5
<1>13. QED
  BY <1>8, <1>9, <1>10, <1>11, <1>12 DEF TapeInv

\* The one Parquet file is a file.
LEMMA StatFileKeeps ==
  ASSUME TapeInv, StatFile
  PROVE  TapeInv'
<1>1. pc = "stat" /\ source = "parquet" /\ pc \in Opening
  BY DEF StatFile, Opening
<1>2. PICK name \in Mine :
       \/ ~IsFile(disk[name]) /\ Fail
       \/ /\ IsFile(disk[name])
          /\ seen' = <<name>>
          /\ Goto("open")
          /\ UNCHANGED <<pin, fresh, handle, opened, decoded, identity, tape, total, simVars>>
  BY DEF StatFile
<1>3. name \in MineOf(source) /\ \A x \in MineOf(source) : x = name
  BY <1>1, <1>2, TapeAssumption DEF Mine, MineOf
<1>4. CASE Fail
  <2>1. ASSUME round = 2, ~dirty PROVE FALSE
    <3>1. /\ \A x \in Present(source, disk) : IsFile(disk[x])
          /\ Len(first.identity) \in Nat
          /\ DOMAIN NamesIn(first.identity) = 1..Len(first.identity)
          /\ NamesOf(NamesIn(first.identity)) = Present(source, disk)
      BY <1>1, <2>1, EntriesKnown
    <3>2. Len(first.identity) # 0
      BY <1>1, <2>1, NoList DEF TapeInv, Kept, IsIdentity, NoPin
    <3>3. NamesIn(first.identity)[1] \in Present(source, disk)
      BY <3>1, <3>2 DEF NamesOf
    <3>4. name \in Present(source, disk)
      BY <1>3, <3>3 DEF Present
    <3>5. IsFile(disk[name])
      BY <3>1, <3>4
    <3>6. Goto("open") /\ Goto("failed")
      BY <1>2, <1>4, <3>5 DEF Fail
    <3>7. QED
      BY <3>6 DEF Goto
  <2>2. QED
    BY <1>1, <1>4, <2>1, FailKeeps
<1>5. CASE /\ IsFile(disk[name])
           /\ seen' = <<name>>
           /\ Goto("open")
           /\ UNCHANGED <<pin, fresh, handle, opened, decoded, identity, tape, total, simVars>>
  <2> USE <1>5 DEF Goto
  <2> USE DEF envVars, simVars, playVars
  <2>1. IsList(seen') /\ Len(seen') = 1 /\ seen'[1] = name /\ DOMAIN seen' = {1}
    <3>1. IsList(<<name>>) /\ Len(<<name>>) = 1 /\ <<name>>[1] = name
      BY OneList
    <3>2. DOMAIN seen' = 1..1
      BY <3>1, ListIsSeq
    <3>3. QED
      BY <3>1, <3>2
  <2>2. Distinct(seen') /\ Ascending(seen') /\ NamesOf(seen') = {name}
    BY <2>1 DEF Distinct, Ascending, NamesOf
  <2>3. identity = <<>> /\ tape = <<>> /\ Len(identity) = 0 /\ decoded = 0
    BY <1>1, NoList DEF TapeInv, Told, Typed
  <2>4. IsTapeOf("parquet", identity, tape)
    BY <2>3 DEF IsTapeOf
  <2>5. Typed'
    BY <1>1, <1>3, <2>1, <2>2 DEF TapeInv, Typed, Opening
  <2>6. Fed' /\ Walked' /\ Opens'
    BY <1>1 DEF TapeInv, Fed, Walked, Opens, Playing
  <2>7. Told'
    BY <1>1, <2>1, <2>2, <2>3, <2>4, SizesNone DEF Told, Playing
  <2>8. Kept'
    BY <1>1 DEF TapeInv, Kept, Playing
  <2>9. Same'
    <3>1. AreFiles(source, disk, identity) /\ Counted(source, identity, decoded)
      BY <1>1, <2>3 DEF AreFiles, Counted, UnpacksAll
    <3>2. NamesOf(seen') = Present(source, disk)
      BY <1>3, <2>2 DEF Present, IsFile
    <3>3. round' = 2 =>
            /\ round = 2
            /\ ~dirty => /\ AreFiles(source, disk, first.identity)
                         /\ AllFiles(source, disk, first.identity)
                         /\ Fits(source, first.identity)
                         /\ IsTapeOf(source, first.identity, first.tape)
      BY <1>1 DEF TapeInv, Same
    <3>4. QED
      BY <1>1, <2>4, <3>1, <3>2, <3>3 DEF Same, Playing
  <2>10. QED
    BY <2>5, <2>6, <2>7, <2>8, <2>9 DEF TapeInv
<1>6. QED
  BY <1>2, <1>4, <1>5

-----------------------------------------------------------------------------
(* The files are opened and hashed.                                        *)

\* What is read of a file: all of it when it is not longer than the ceiling.
LEMMA ReadBytes ==
  ASSUME NEW file, IsContent(file)
  PROVE  /\ IsContent(BytesOf(file))
         /\ Len(file) <= MaxFileBytes => BytesOf(file) = file
<1>1. IsList(file) /\ Len(file) \in Nat /\ file \in Seq({file[i] : i \in DOMAIN file})
  BY ListIsSeq DEF IsContent
<1> DEFINE S == {file[i] : i \in DOMAIN file}
           m == IF Len(file) < MaxFileBytes THEN Len(file) ELSE MaxFileBytes
           part == BytesOf(file)
<1>2. m \in Nat /\ m <= Len(file) /\ (Len(file) <= MaxFileBytes => m = Len(file))
  BY <1>1, TapeAssumption
<1>3. part = SubSeq(file, 1, m)
  BY DEF BytesOf
<1>4. file \in Seq(S)
  BY <1>1
<1> HIDE DEF S, m, part
<1>5. part \in Seq(S) /\ Len(part) = m /\ \A i \in 1..m : part[i] = file[i]
  <2>1. CASE m = 0
    BY <2>1, <1>1, <1>3, <1>4, SubSeqProperties
  <2>2. CASE m # 0
    <3>1. 1 \in 1..(Len(file) + 1) /\ m \in (1 - 1)..Len(file)
      BY <1>1, <1>2
    <3>2. /\ part \in Seq(S) /\ Len(part) = m
          /\ \A i \in 1..m : part[i] = file[1 + i - 1]
      BY <1>1, <1>2, <1>3, <1>4, <2>2, <3>1, SubSeqProperties
    <3>3. \A i \in 1..m : 1 + i - 1 = i
      BY <1>2
    <3>4. QED
      BY <3>2, <3>3
  <2>3. QED
    BY <2>1, <2>2
<1>6. IsList(part)
  BY <1>5, SeqIsList
<1>7. IsContent(part)
  BY <1>1, <1>2, <1>5, <1>6 DEF IsContent
<1>8. Len(file) <= MaxFileBytes => part = file
  BY <1>1, <1>2, <1>5, <1>6, SameList
<1>9. QED
  BY <1>7, <1>8 DEF part

\* An entry that is a file has its contents.
LEMMA EntryContent ==
  ASSUME TapeInv, NEW name \in MineOf(source), IsFile(disk[name])
  PROVE  disk[name] \in Bytes[name] /\ IsContent(disk[name])
<1>1. disk[name] \in Bytes[name]
  BY DEF TapeInv, Typed, IsFile
<1>2. name \in Names
  BY DEF MineOf
<1>3. QED
  BY <1>1, <1>2, TapeAssumption

\* In a second round of what nobody changed, the listing is that of the first one.
LEMMA SecondListing ==
  ASSUME TapeInv, ~dirty, round = 2, source # "simulator",
         pc \in {"open", "hash", "read"} \cup Playing
  PROVE  /\ Len(first.identity) = Len(seen) /\ Len(seen) \in Nat
         /\ \A i \in 1..Len(seen) :
              /\ first.identity[i] = <<seen[i], disk[seen[i]]>>
              /\ IsFile(disk[seen[i]]) /\ Len(disk[seen[i]]) <= MaxFileBytes
         /\ \A i \in 1..Len(identity) : identity[i] = first.identity[i]
         /\ IsIdentity(first.identity) /\ IsIdentity(identity)
<1> DEFINE names == NamesIn(first.identity)
<1>1. /\ IsList(names) /\ Len(names) = Len(first.identity)
      /\ DOMAIN names = 1..Len(first.identity)
      /\ NamesOf(names) = Present(source, disk) /\ Len(first.identity) \in Nat
  BY EntriesKnown
<1>2. Ascending(names) /\ AreFiles(source, disk, first.identity)
  BY DEF TapeInv, Same, AllFiles
<1>3. /\ NamesOf(seen) = Present(source, disk) /\ AreFiles(source, disk, identity)
  BY DEF TapeInv, Same, Playing
<1>4. IsList(seen) /\ Len(seen) \in Nat
  BY ListIsSeq DEF TapeInv, Typed
<1>5. /\ Ascending(seen) /\ IsIdentity(identity) /\ Len(identity) <= Len(seen)
      /\ \A i \in 1..Len(identity) : identity[i][1] = seen[i]
  BY DEF TapeInv, Told
<1>6. IsIdentity(first.identity)
  BY DEF TapeInv, Kept
<1>7. names = seen
  <2>1. \A x \in NamesOf(names) : x \in Int
    <3>1. \A x \in Present(source, disk) : x \in Names
      BY DEF Present, MineOf
    <3>2. \A x \in Names : x \in Int
      BY TapeAssumption
    <3>3. NamesOf(names) = Present(source, disk)
      BY <1>1
    <3>4. \A x \in Present(source, disk) : x \in Int
      BY <3>1, <3>2, Zenon
    <3> HIDE DEF names
    <3>5. QED
      BY <3>3, <3>4, Zenon
  <2> HIDE DEF names
  <2>2. QED
    BY <1>1, <1>2, <1>3, <1>4, <1>5, <2>1, OneOrder
<1>8. ASSUME NEW i \in 1..Len(seen)
      PROVE  /\ first.identity[i] = <<seen[i], disk[seen[i]]>>
             /\ IsFile(disk[seen[i]]) /\ Len(disk[seen[i]]) <= MaxFileBytes
  <2>1. i \in 1..Len(first.identity) /\ first.identity[i][1] = seen[i]
    BY <1>1, <1>7 DEF NamesIn
  <2>2. first.identity[i] = <<first.identity[i][1], first.identity[i][2]>>
    BY <1>6, <2>1 DEF IsIdentity
  <2>3. /\ first.identity[i][2] = disk[seen[i]]
        /\ IsFile(disk[seen[i]]) /\ Len(disk[seen[i]]) <= MaxFileBytes
    BY <1>2, <2>1 DEF AreFiles
  <2>4. QED
    BY <2>1, <2>2, <2>3
<1>9. ASSUME NEW i \in 1..Len(identity)
      PROVE  identity[i] = first.identity[i]
  <2>1. i \in 1..Len(seen) /\ identity[i][1] = seen[i]
    <3>1. Len(identity) \in Nat
      BY <1>5, ListIsSeq DEF IsIdentity
    <3>2. QED
      BY <1>4, <1>5, <3>1
  <2>2. identity[i] = <<identity[i][1], identity[i][2]>> /\ identity[i][2] = disk[seen[i]]
    BY <1>3, <1>5, <2>1 DEF IsIdentity, AreFiles
  <2>3. QED
    BY <1>8, <2>1, <2>2
<1>10. QED
  BY <1>1, <1>4, <1>5, <1>6, <1>7, <1>8, <1>9

\* The next file is opened and counted; one that fitted the first time fits again.
LEMMA OpenFileKeeps ==
  ASSUME TapeInv, OpenFile
  PROVE  TapeInv'
<1>1. pc = "open" /\ pc \in Opening /\ source \in {"csv", "parquet"} /\ MoreFiles
  BY DEF OpenFile, Opening, TapeInv, Typed
<1> DEFINE entry == disk[NextName]
<1>2. /\ IsIdentity(identity) /\ Len(identity) \in Nat /\ Len(seen) \in Nat
      /\ Len(identity) < Len(seen) /\ Len(identity) + 1 \in 1..Len(seen)
  <2>1. IsIdentity(identity) /\ IsList(seen)
    BY <1>1 DEF TapeInv, Told, Typed
  <2>2. Len(identity) \in Nat /\ Len(seen) \in Nat
    BY <2>1, ListIsSeq DEF IsIdentity
  <2>3. QED
    BY <1>1, <2>1, <2>2 DEF MoreFiles
<1>3. NextName \in MineOf(source)
  BY <1>2 DEF TapeInv, Typed, NextName
<1>4. \/ /\ IsFile(entry) /\ SizeOk(Len(entry))
         /\ handle' = entry /\ opened' = NextName
         /\ decoded' = IF source = "csv" THEN decoded + Len(entry) ELSE decoded
         /\ Goto(IF source = "csv" THEN "read" ELSE "hash")
         /\ UNCHANGED <<pin, seen, fresh, identity, tape, total, simVars>>
      \/ ~(IsFile(entry) /\ SizeOk(Len(entry))) /\ Fail
  BY DEF OpenFile
<1>5. CASE ~(IsFile(entry) /\ SizeOk(Len(entry))) /\ Fail
  <2>1. ASSUME round = 2, ~dirty PROVE FALSE
    <3>1. /\ Len(first.identity) = Len(seen)
          /\ IsFile(entry) /\ Len(entry) <= MaxFileBytes
          /\ first.identity[Len(identity) + 1] = <<NextName, entry>>
          /\ \A i \in 1..Len(identity) : identity[i] = first.identity[i]
          /\ IsIdentity(first.identity)
      BY <1>1, <1>2, <2>1, SecondListing DEF NextName
    <3>2. ASSUME source = "csv" PROVE decoded + Len(entry) <= MaxDecompressed
      <4>1. Sizes(identity) + Len(first.identity[Len(identity) + 1][2]) <= Sizes(first.identity)
        BY <1>2, <3>1, SizesPart
      <4>2. first.identity[Len(identity) + 1][2] = entry
        BY <3>1
      <4>3. decoded = Sizes(identity) /\ Sizes(first.identity) <= MaxDecompressed
        BY <1>1, <2>1, <3>2 DEF TapeInv, Same, Counted, Fits
      <4>4. /\ Sizes(identity) \in Nat /\ Sizes(first.identity) \in Nat
            /\ MaxDecompressed \in Nat /\ Len(entry) \in Nat
        <5>1. IsContent(entry)
          BY <1>3, <3>1, EntryContent
        <5>2. QED
          BY <1>2, <3>1, <5>1, SizesSame, TapeAssumption, ListIsSeq DEF IsContent
      <4> HIDE DEF entry
      <4>5. QED
        BY <4>1, <4>2, <4>3, <4>4
    <3>3. QED
      BY <1>5, <3>1, <3>2 DEF SizeOk
  <2>2. QED
    BY <1>1, <1>5, <2>1, FailKeeps
<1>6. CASE /\ IsFile(entry) /\ SizeOk(Len(entry))
           /\ handle' = entry /\ opened' = NextName
           /\ decoded' = IF source = "csv" THEN decoded + Len(entry) ELSE decoded
           /\ Goto(IF source = "csv" THEN "read" ELSE "hash")
           /\ UNCHANGED <<pin, seen, fresh, identity, tape, total, simVars>>
  <2> USE DEF Goto, envVars, simVars, playVars
  <2>1. IsContent(entry) /\ Len(entry) \in Nat /\ entry \in Bytes[NextName]
    <3>1. IsContent(entry) /\ entry \in Bytes[NextName]
      BY <1>3, <1>6, EntryContent
    <3>2. QED
      BY <3>1, ListIsSeq DEF IsContent
  <2>2. pc' = IF source = "csv" THEN "read" ELSE "hash"
    BY <1>6
  <2> HIDE DEF entry
  <2>3. source = "parquet" =>
          identity = <<>> /\ tape = <<>> /\ NextName = seen[1]
    <3>1. SUFFICES ASSUME source = "parquet"
                   PROVE  identity = <<>> /\ tape = <<>> /\ NextName = seen[1]
      OBVIOUS
    <3>2. Len(identity) = 0
      <4>1. Len(seen) = 1
        BY <1>1, <3>1 DEF TapeInv, Told
      <4>2. QED
        BY <1>2, <4>1
    <3>3. identity = <<>>
      BY <1>2, <3>2, NoList DEF IsIdentity
    <3>4. QED
      BY <1>1, <3>1, <3>2, <3>3 DEF TapeInv, Told, NextName
  <2>4. Typed'
    <3>1. decoded' \in Nat /\ decoded' <= MaxDecompressed
      BY <1>6, <2>1 DEF TapeInv, Typed, SizeOk
    <3>2. QED
      BY <1>1, <1>3, <1>6, <2>1, <2>2, <2>3, <3>1 DEF TapeInv, Typed, Opening
  <2>5. Fed' /\ Walked' /\ Opens'
    BY <1>1, <1>6 DEF TapeInv, Fed, Walked, Opens, Playing
  <2>6. Told'
    <3>1. source = "csv" => IsTapeOf(source, identity, tape)
      BY <1>1 DEF TapeInv, Told, Settled
    <3>2. QED
      BY <1>1, <1>2, <1>6, <2>2, <2>3, <3>1 DEF TapeInv, Told, Playing, NextName
  <2>7. Kept'
    BY <1>1, <1>6 DEF TapeInv, Kept, Playing
  <2>8. Same'
    <3>1. SUFFICES ASSUME ~dirty
                   PROVE  /\ AreFiles(source, disk, identity)
                          /\ NamesOf(seen) = Present(source, disk)
                          /\ IsFile(disk[opened']) /\ handle' = disk[opened']
                          /\ Len(handle') <= MaxFileBytes
                          /\ source = "csv" => decoded' = Sizes(identity) + Len(handle')
                          /\ round = 2 =>
                               /\ AreFiles(source, disk, first.identity)
                               /\ AllFiles(source, disk, first.identity)
                               /\ Fits(source, first.identity)
                               /\ IsTapeOf(source, first.identity, first.tape)
      BY <1>1, <1>6, <2>2 DEF Same, Playing
    <3>2. source = "csv" => decoded = Sizes(identity)
      BY <1>1, <3>1 DEF TapeInv, Same, Counted
    <3>3. QED
      BY <1>1, <1>6, <3>1, <3>2 DEF TapeInv, Same, SizeOk, entry
  <2>9. QED
    BY <2>4, <2>5, <2>6, <2>7, <2>8 DEF TapeInv
<1>7. QED
  BY <1>4, <1>5, <1>6

\* A Parquet file is hashed.
LEMMA HashFileKeeps ==
  ASSUME TapeInv, HashFile
  PROVE  TapeInv'
<1> USE DEF HashFile, Goto
<1> USE DEF envVars, simVars, playVars
<1>1. pc = "hash" /\ source = "parquet" /\ tape = <<>>
  BY DEF TapeInv, Typed
<1>2. /\ identity = <<>> /\ IsIdentity(identity) /\ Len(identity) = 0
      /\ Len(seen) = 1 /\ opened = seen[1]
  BY <1>1, NoList DEF TapeInv, Told
<1> DEFINE bytes == BytesOf(handle)
<1>3. IsContent(bytes) /\ IsContent(handle) /\ (Len(handle) <= MaxFileBytes => bytes = handle)
  BY <1>1, ReadBytes DEF TapeInv, Typed
<1>4. identity' = Append(identity, <<opened, bytes>>)
  BY DEF Hashed
<1> HIDE DEF bytes
<1>5. /\ IsIdentity(identity') /\ Sizes(identity') = Len(bytes)
      /\ Len(identity') = 1 /\ identity'[1] = <<opened, bytes>>
  <2>1. /\ IsIdentity(identity') /\ Sizes(identity') = Sizes(identity) + Len(bytes)
    BY <1>2, <1>3, <1>4, SizesAppended
  <2>2. /\ Len(identity') = Len(identity) + 1 /\ identity'[Len(identity) + 1] = <<opened, bytes>>
    BY <1>2, <1>4, Appended DEF IsIdentity
  <2>3. Len(bytes) \in Nat
    BY <1>3, ListIsSeq DEF IsContent
  <2>4. QED
    BY <1>2, <2>1, <2>2, <2>3, SizesNone
<1>6. Typed'
  BY <1>1 DEF TapeInv, Typed, Opening
<1>7. Fed' /\ Walked' /\ Opens'
  BY <1>1 DEF TapeInv, Fed, Walked, Opens, Playing
<1>8. Told'
  BY <1>1, <1>2, <1>5 DEF TapeInv, Told, Playing, bytes
<1>9. Kept'
  BY <1>1 DEF TapeInv, Kept, Playing
<1>10. Same'
  <2>1. SUFFICES ASSUME ~dirty
                 PROVE  /\ AreFiles(source, disk, identity')
                        /\ NamesOf(seen) = Present(source, disk)
                        /\ IsFile(disk[opened]) /\ handle = disk[opened]
                        /\ Len(handle) <= MaxFileBytes
                        /\ identity'[1][2] = BytesOf(handle)
                        /\ round = 2 =>
                             /\ AreFiles(source, disk, first.identity)
                             /\ AllFiles(source, disk, first.identity)
                             /\ Fits(source, first.identity)
                             /\ IsTapeOf(source, first.identity, first.tape)
    BY <1>1 DEF Same, Playing
  <2>2. /\ IsFile(disk[opened]) /\ handle = disk[opened]
        /\ Len(handle) <= MaxFileBytes
    BY <1>1, <2>1 DEF TapeInv, Same
  <2>3. bytes = handle
    BY <1>3, <2>2
  <2>4. AreFiles(source, disk, identity')
    <3>1. opened \in MineOf(source)
      BY <1>1 DEF TapeInv, Typed
    <3>2. QED
      BY <1>5, <2>2, <2>3, <3>1 DEF AreFiles
  <2>5. QED
    BY <1>1, <1>5, <2>1, <2>2, <2>3, <2>4 DEF TapeInv, Same, bytes
<1>11. QED
  BY <1>6, <1>7, <1>8, <1>9, <1>10 DEF TapeInv

-----------------------------------------------------------------------------
(* The files are read.                                                     *)

\* The first snapshot of a CSV tape is the first row of its first file: times count
\* from there.
LEMMA AnchorSame ==
  ASSUME NEW entries, IsIdentity(entries), NEW s, IsTape(s), IsTapeOf("csv", entries, s),
         NEW more, \A i \in 1..Len(entries) : more[i] = entries[i]
  PROVE  AnchorOf(s) = AnchorAt(Len(entries) + 1, more)
<1>1. Len(entries) \in Nat /\ Len(s) = Len(entries) /\ IsList(s)
  BY ListIsSeq DEF IsIdentity, IsTape, IsTapeOf
<1>2. CASE Len(entries) = 0
  BY <1>1, <1>2, NoList DEF AnchorOf, AnchorAt
<1>3. CASE Len(entries) # 0
  <2>1. 1 \in 1..Len(entries) /\ s # <<>> /\ Len(entries) + 1 # 1
    BY <1>1, <1>3, NoList
  <2>2. AnchorAt(1, entries) = <<>>
    BY DEF AnchorAt
  <2>3. Snapshots("csv", 1 - 1, entries[1][2], <<>>) = <<s[1]>>
    BY <2>1, <2>2 DEF IsTapeOf
  <2>4. IsContent(entries[1][2]) /\ s[1] # Rejected
    BY <1>1, <2>1 DEF IsIdentity, IsTape
  <2>5. PICK r, file, at, kind, anchor :
          /\ r = <<s[1]>> /\ file = entries[1][2] /\ at = 1 - 1
          /\ kind = "csv" /\ anchor = <<>>
    OBVIOUS
  <2>6. /\ r = Snapshots(kind, at, file, anchor) /\ r # <<>> /\ r[1] = s[1]
        /\ \A i \in DOMAIN r : r[i] # Rejected
        /\ IsContent(file) /\ kind \in {"csv", "parquet"}
    BY <2>3, <2>4, <2>5
  <2>7. r[1].meta.ts = Tail(file)[1].ts[2]
    <3>1. Legible(kind, file) /\ r = <<Whole(file, at, anchor)>>
      BY <2>5, <2>6, FileKept
    <3>2. r[1] = Whole(file, at, anchor) /\ r[1] # Rejected
      BY <2>5, <2>6, <3>1
    <3>3. \E k \in {"csv", "parquet"} : Legible(k, file)
      BY <2>6, <3>1
    <3>4. IsContent(file) /\ Whole(file, at, anchor) # Rejected
      BY <2>6, <3>2
    <3>5. Whole(file, at, anchor).meta.ts = Tail(file)[1].ts[2]
      BY <3>3, <3>4, WholeRow
    <3>6. QED
      BY <3>2, <3>5
  <2>8. s[1].meta.ts = Tail(entries[1][2])[1].ts[2]
    BY <2>5, <2>6, <2>7
  <2>9. more[1] = entries[1]
    BY <2>1
  <2>10. QED
    BY <2>1, <2>8, <2>9 DEF AnchorOf, AnchorAt
<1>4. QED
  BY <1>2, <1>3

\* The next file of a CSV tape gives its next snapshot.
LEMMA TapeGrows ==
  ASSUME NEW entries, IsIdentity(entries), NEW s, IsTape(s), IsTapeOf("csv", entries, s),
         NEW name, NEW file, IsContent(file), NEW t,
         t = Snapshots("csv", Len(entries), file, AnchorOf(s)), \A i \in DOMAIN t : t[i] # Rejected
  PROVE  IsTapeOf("csv", Append(entries, <<name, file>>), s \o t)
<1> DEFINE more == Append(entries, <<name, file>>)
           u == s \o t
           k == Len(entries)
<1>1. k \in Nat /\ Len(s) = k /\ IsList(s) /\ IsList(entries)
  BY ListIsSeq DEF IsIdentity, IsTape, IsTapeOf
<1>2. /\ Len(more) = k + 1 /\ more[k + 1] = <<name, file>>
      /\ \A i \in 1..k : more[i] = entries[i]
  BY <1>1, Appended
<1>3. IsList(t) /\ Len(t) = 1 /\ DOMAIN t = 1..1
  BY FileRead
<1>4. Len(u) = k + 1 /\ (\A i \in 1..k : u[i] = s[i]) /\ u[k + 1] = t[1]
  BY <1>1, <1>3, Joined
<1>5. t = <<t[1]>>
  <2>1. IsList(<<t[1]>>) /\ Len(<<t[1]>>) = 1 /\ <<t[1]>>[1] = t[1]
    BY OneList
  <2>2. \A i \in 1..Len(t) : t[i] = <<t[1]>>[i]
    BY <1>3, <2>1
  <2>3. QED
    BY <1>3, <2>1, <2>2, SameList
<1>6. AnchorOf(s) = AnchorAt(k + 1, more)
  BY <1>2, AnchorSame
<1> HIDE DEF more, u
<1>7. ASSUME NEW i \in 1..Len(more)
      PROVE  Snapshots("csv", i - 1, more[i][2], AnchorAt(i, more)) = <<u[i]>>
  <2>1. i \in 1..k \/ i = k + 1
    BY <1>1, <1>2
  <2>2. CASE i \in 1..k
    <3>1. Snapshots("csv", i - 1, entries[i][2], AnchorAt(i, entries)) = <<s[i]>>
      BY <2>2 DEF IsTapeOf
    <3>2. more[i] = entries[i] /\ more[1] = entries[1] /\ u[i] = s[i]
      <4>1. 1 \in 1..k
        BY <1>1, <2>2
      <4>2. QED
        BY <1>2, <1>4, <2>2, <4>1
    <3>3. AnchorAt(i, more) = AnchorAt(i, entries)
      BY <3>2 DEF AnchorAt
    <3>4. QED
      BY <3>1, <3>2, <3>3
  <2>3. CASE i = k + 1
    <3>1. i - 1 = k /\ more[i][2] = file /\ u[i] = t[1]
      BY <1>1, <1>2, <1>4, <2>3
    <3>2. Snapshots("csv", k, file, AnchorAt(k + 1, more)) = <<t[1]>>
      BY <1>5, <1>6
    <3>3. QED
      BY <2>3, <3>1, <3>2
  <2>4. QED
    BY <2>1, <2>2, <2>3
<1>8. QED
  BY <1>1, <1>2, <1>4, <1>7 DEF IsTapeOf, more, u

\* Of the same files it is the same tape, as far as they go.
LEMMA TapeSame ==
  ASSUME NEW a, NEW b, NEW s, NEW t, IsIdentity(a), IsTapeOf("csv", a, s), IsTapeOf("csv", b, t),
         Len(b) \in Nat, Len(a) <= Len(b), \A i \in 1..Len(a) : a[i] = b[i]
  PROVE  Len(s) = Len(a) /\ Len(t) = Len(b) /\ \A i \in 1..Len(a) : s[i] = t[i]
<1>1. Len(a) \in Nat /\ Len(s) = Len(a) /\ Len(t) = Len(b)
  BY ListIsSeq DEF IsIdentity, IsTapeOf
<1>2. ASSUME NEW i \in 1..Len(a) PROVE s[i] = t[i]
  <2>1. i \in 1..Len(b) /\ a[i] = b[i] /\ a[1] = b[1]
    <3>1. 1 \in 1..Len(a) /\ i \in 1..Len(b)
      BY <1>1
    <3>2. QED
      BY <3>1
  <2>2. AnchorAt(i, a) = AnchorAt(i, b)
    BY <2>1 DEF AnchorAt
  <2>3. /\ Snapshots("csv", i - 1, a[i][2], AnchorAt(i, a)) = <<s[i]>>
        /\ Snapshots("csv", i - 1, b[i][2], AnchorAt(i, b)) = <<t[i]>>
    BY <2>1 DEF IsTapeOf
  <2>4. <<s[i]>> = <<t[i]>>
    BY <2>1, <2>2, <2>3
  <2>5. <<s[i]>>[1] = s[i] /\ <<t[i]>>[1] = t[i]
    BY OneList
  <2>6. QED
    BY <2>4, <2>5
<1>3. QED
  BY <1>1, <1>2

\* A second reading of files that nobody changed is taken.
LEMMA SecondReading ==
  ASSUME TapeInv, ~dirty, round = 2, pc = "read"
  PROVE  /\ source = "parquet" => Unpacks(handle)
         /\ Takes(Snapshots(source, Len(identity), Parsed, AnchorOf(tape)))
<1> DEFINE read == Snapshots(source, Len(identity), Parsed, AnchorOf(tape))
<1>1. source \in {"csv", "parquet"} /\ source # "simulator"
  BY DEF TapeInv, Typed
<1>2. /\ Len(first.identity) = Len(seen) /\ Len(seen) \in Nat
      /\ \A i \in 1..Len(seen) : first.identity[i] = <<seen[i], disk[seen[i]]>>
      /\ \A i \in 1..Len(identity) : identity[i] = first.identity[i]
      /\ IsIdentity(first.identity) /\ IsIdentity(identity)
  BY <1>1, SecondListing
<1>3. /\ IsTape(tape) /\ total = TotalOf(tape) /\ IsContent(handle)
      /\ IsTape(first.tape) /\ TotalOf(first.tape) <= MaxTotal /\ Len(first.tape) <= MaxSteps
  BY DEF TapeInv, Typed, Kept
<1>4. /\ handle = disk[opened] /\ BytesOf(handle) = handle
      /\ IsTapeOf(source, first.identity, first.tape)
  <2>1. /\ handle = disk[opened] /\ Len(handle) <= MaxFileBytes
        /\ IsTapeOf(source, first.identity, first.tape)
    BY <1>1 DEF TapeInv, Same
  <2>2. QED
    BY <1>3, <2>1, ReadBytes
<1>5. MaxSteps \in Nat /\ MaxTotal \in Nat /\ IsList(tape) /\ Len(tape) \in Nat
      /\ IsList(first.tape) /\ Len(first.tape) \in Nat
  BY <1>3, ListIsSeq, TapeAssumption DEF IsTape
<1>6. CASE source = "csv"
  <2> DEFINE k == Len(identity)
             next == first.tape[k + 1]
  <2>1. /\ IsTapeOf("csv", identity, tape) /\ k < Len(seen) /\ opened = seen[k + 1]
    BY <1>6 DEF TapeInv, Told
  <2>2. k \in Nat /\ k + 1 \in 1..Len(seen)
    BY <1>2, <2>1, ListIsSeq DEF IsIdentity
  <2>3. first.identity[k + 1] = <<opened, handle>>
    BY <1>2, <1>4, <2>1, <2>2
  <2>4. AnchorOf(tape) = AnchorAt(k + 1, first.identity)
    BY <1>2, <1>3, <2>1, AnchorSame
  <2>5. read = <<next>>
    <3>1. Snapshots("csv", (k + 1) - 1, first.identity[k + 1][2], AnchorAt(k + 1, first.identity))
            = <<next>>
      BY <1>2, <1>4, <1>6, <2>2 DEF IsTapeOf
    <3>2. (k + 1) - 1 = k /\ first.identity[k + 1][2] = handle /\ Parsed = handle
      BY <1>4, <2>2, <2>3 DEF Parsed
    <3>3. QED
      BY <1>6, <2>4, <3>1, <3>2
  <2>6. /\ Len(tape) = k /\ Len(first.tape) = Len(seen)
        /\ \A i \in 1..k : tape[i] = first.tape[i]
    BY <1>2, <1>4, <1>6, <2>1, <2>2, TapeSame
  <2>7. next # Rejected /\ next.meta.ts \in Nat /\ SizeOf(next) \in Nat
    BY <1>3, <2>2, <2>6 DEF IsTape
  <2> HIDE DEF next, k, read
  <2>8. IsTape(<<next>>) /\ TotalOf(<<next>>) = SizeOf(next)
    BY <2>7, TotalOne
  <2>9. IsTape(tape \o <<next>>) /\ TotalOf(tape \o <<next>>) = TotalOf(tape) + TotalOf(<<next>>)
    BY <1>3, <2>8, TotalJoined
  <2>10. TotalOf(tape \o <<next>>) <= TotalOf(first.tape)
    <3> DEFINE u == tape \o <<next>>
    <3>1. IsList(<<next>>) /\ Len(<<next>>) = 1 /\ <<next>>[1] = next
      BY OneList
    <3>2. Len(u) = k + 1 /\ (\A i \in 1..k : u[i] = tape[i]) /\ u[k + 1] = next
      BY <1>5, <2>6, <3>1, Joined
    <3>3. IsTape(u)
      BY <2>9
    <3> HIDE DEF u
    <3>4. \A i \in 1..Len(u) : i \in 1..k \/ i = k + 1
      BY <2>2, <3>2
    <3>5. \A i \in 1..Len(u) : u[i] = first.tape[i]
      BY <2>2, <2>6, <3>2, <3>4 DEF next
    <3>6. Len(u) <= Len(first.tape)
      BY <2>2, <2>6, <3>2
    <3>7. TotalOf(u) <= TotalOf(first.tape)
      BY <1>3, <3>3, <3>5, <3>6, TotalPart
    <3>8. QED
      BY <3>7 DEF u
  <2>11. total + TotalOf(<<next>>) <= MaxTotal
    <3>1. TotalOf(first.tape) \in Nat /\ TotalOf(tape) \in Nat /\ TotalOf(<<next>>) \in Nat
      BY <1>3, <2>8, TotalIs
    <3>2. QED
      BY <1>3, <1>5, <2>9, <2>10, <3>1
  <2>12. Len(<<next>>) = 1 /\ DOMAIN <<next>> = 1..1 /\ <<next>>[1] = next
    BY OneList, ListIsSeq
  <2>13. Takes(<<next>>)
    BY <1>3, <1>5, <2>2, <2>6, <2>7, <2>11, <2>12 DEF Takes
  <2>14. QED
    BY <1>6, <2>5, <2>13 DEF read
<1>7. CASE source = "parquet"
  <2>1. Len(identity) = 1 /\ tape = <<>> /\ identity[1][2] = BytesOf(handle)
    BY <1>7 DEF TapeInv, Told, Same
  <2>2. first.identity[1] = identity[1] /\ first.identity # <<>>
    <3>1. 1 \in 1..Len(identity)
      BY <2>1
    <3>2. Len(seen) = 1
      BY <1>7 DEF TapeInv, Told
    <3>3. QED
      BY <1>2, <3>1, <3>2, NoList
  <2>3. Snapshots("parquet", 1, first.identity[1][2], <<>>) = first.tape
    BY <1>4, <1>7, <2>2 DEF IsTapeOf
  <2>4. read = first.tape
    BY <1>7, <2>1, <2>2, <2>3 DEF Parsed, AnchorOf
  <2> HIDE DEF read
  <2>5. total = 0 /\ Len(tape) = 0
    BY <1>3, <2>1, TotalNone, NoList
  <2>6. TotalOf(first.tape) \in Nat /\ \A i \in DOMAIN first.tape : first.tape[i] # Rejected
    BY <1>3, TotalIs, ListIsSeq DEF IsTape
  <2>7. Takes(first.tape)
    BY <1>3, <1>5, <2>5, <2>6 DEF Takes
  <2>8. Unpacks(handle)
    <3>1. UnpacksAll(first.identity)
      BY <1>7 DEF TapeInv, Same, Fits
    <3>2. QED
      BY <1>4, <2>1, <2>2, <3>1 DEF UnpacksAll
  <2>9. QED
    BY <2>4, <2>7, <2>8 DEF read
<1>8. QED
  BY <1>1, <1>6, <1>7

\* A file is read; one that was taken the first time is taken again.
LEMMA ReadFileKeeps ==
  ASSUME TapeInv, ReadFile
  PROVE  TapeInv'
<1> DEFINE read == Snapshots(source, Len(identity), Parsed, AnchorOf(tape))
           taken == (source = "parquet" => Unpacks(handle)) /\ Takes(read)
<1>1. pc = "read" /\ pc \in Opening /\ source \in {"csv", "parquet"} /\ source # "simulator"
  BY DEF ReadFile, Opening, TapeInv, Typed
<1>2. \/ /\ taken
         /\ tape' = tape \o read
         /\ total' = total + TotalOf(read)
         /\ identity' = IF source = "csv" THEN Hashed ELSE identity
         /\ handle' = <<>> /\ opened' = 0
         /\ decoded' = IF source = "parquet" THEN Decoded(handle) ELSE decoded
         /\ Goto("open")
         /\ UNCHANGED <<pin, seen, fresh, simVars>>
      \/ ~taken /\ Fail
  BY DEF ReadFile
<1>3. CASE ~taken /\ Fail
  <2>1. ASSUME round = 2, ~dirty PROVE FALSE
    BY <1>1, <1>3, <2>1, SecondReading
  <2>2. QED
    BY <1>1, <1>3, <2>1, FailKeeps
<1>4. CASE /\ taken
           /\ tape' = tape \o read
           /\ total' = total + TotalOf(read)
           /\ identity' = IF source = "csv" THEN Hashed ELSE identity
           /\ handle' = <<>> /\ opened' = 0
           /\ decoded' = IF source = "parquet" THEN Decoded(handle) ELSE decoded
           /\ Goto("open")
           /\ UNCHANGED <<pin, seen, fresh, simVars>>
  <2> USE DEF Goto, envVars, simVars, playVars
  <2>0. Takes(read) /\ (source = "parquet" => Unpacks(handle))
    BY <1>4
  <2> HIDE DEF taken
  <2>1. /\ IsTape(tape) /\ total = TotalOf(tape) /\ IsContent(handle)
        /\ IsIdentity(identity) /\ IsList(seen)
    BY <1>1 DEF TapeInv, Typed, Told
  <2>2. IsContent(BytesOf(handle)) /\ (Len(handle) <= MaxFileBytes => BytesOf(handle) = handle)
    BY <2>1, ReadBytes
  <2>3. \A i \in DOMAIN read : read[i] # Rejected
    BY <2>0 DEF Takes
  <2>4. IsTape(read)
    <3>1. PICK kind, file, at, anchor :
            /\ kind = source /\ file = BytesOf(handle) /\ at = Len(identity)
            /\ anchor = AnchorOf(tape)
      OBVIOUS
    <3>2. read = Snapshots(kind, at, file, anchor) /\ IsContent(file) /\ kind \in {"csv", "parquet"}
      BY <1>1, <2>2, <3>1 DEF Parsed
    <3> HIDE DEF read
    <3>3. QED
      BY <2>3, <3>2, FileTape
  <2>5. IsTape(tape') /\ TotalOf(tape') = total'
    <3> HIDE DEF read
    <3>1. IsTape(tape \o read) /\ TotalOf(tape \o read) = TotalOf(tape) + TotalOf(read)
      BY <2>1, <2>4, TotalJoined
    <3>2. QED
      BY <1>4, <2>1, <3>1
  <2>6. Len(tape') = Len(tape) + Len(read) /\ Len(tape') <= MaxSteps /\ total' <= MaxTotal
    <3> HIDE DEF read
    <3>1. Len(tape \o read) = Len(tape) + Len(read)
      BY <2>1, <2>4, Joined DEF IsTape
    <3>2. QED
      BY <1>4, <2>0, <3>1 DEF Takes
  <2>7. source = "csv" =>
          /\ identity' = Append(identity, <<opened, BytesOf(handle)>>)
          /\ IsIdentity(identity') /\ Len(identity') = Len(identity) + 1
          /\ Sizes(identity') = Sizes(identity) + Len(BytesOf(handle))
          /\ \A i \in 1..Len(identity) : identity'[i] = identity[i]
          /\ identity'[Len(identity) + 1] = <<opened, BytesOf(handle)>>
          /\ identity' # <<>>
    <3>1. SUFFICES ASSUME source = "csv"
                   PROVE  /\ identity' = Append(identity, <<opened, BytesOf(handle)>>)
                          /\ IsIdentity(identity') /\ Len(identity') = Len(identity) + 1
                          /\ Sizes(identity') = Sizes(identity) + Len(BytesOf(handle))
                          /\ \A i \in 1..Len(identity) : identity'[i] = identity[i]
                          /\ identity'[Len(identity) + 1] = <<opened, BytesOf(handle)>>
                          /\ identity' # <<>>
      OBVIOUS
    <3> DEFINE bytes == BytesOf(handle)
    <3>2. identity' = Append(identity, <<opened, bytes>>)
      BY <1>4, <3>1 DEF Hashed
    <3>3. IsContent(bytes)
      BY <2>2
    <3> HIDE DEF bytes
    <3>4. IsIdentity(identity') /\ Sizes(identity') = Sizes(identity) + Len(bytes)
      BY <2>1, <3>2, <3>3, SizesAppended
    <3>5. /\ Len(identity') = Len(identity) + 1 /\ Len(identity) \in Nat
          /\ \A i \in 1..Len(identity) : identity'[i] = identity[i]
          /\ identity'[Len(identity) + 1] = <<opened, bytes>>
      BY <2>1, <3>2, Appended DEF IsIdentity
    <3>6. identity' # <<>>
      BY <3>5, NoList
    <3>7. QED
      BY <3>2, <3>4, <3>5, <3>6 DEF bytes
  <2>8. source = "csv" => IsTapeOf(source, identity', tape')
    <3>1. SUFFICES ASSUME source = "csv" PROVE IsTapeOf("csv", identity', tape')
      OBVIOUS
    <3>2. IsTapeOf("csv", identity, tape)
      BY <1>1, <3>1 DEF TapeInv, Told
    <3>3. PICK file, name : file = BytesOf(handle) /\ name = opened
      OBVIOUS
    <3>4. read = Snapshots("csv", Len(identity), file, AnchorOf(tape))
      BY <3>1, <3>3 DEF Parsed
    <3> HIDE DEF read
    <3>5. IsTapeOf("csv", Append(identity, <<name, file>>), tape \o read)
      BY <2>1, <2>2, <2>3, <3>2, <3>3, <3>4, TapeGrows
    <3>6. QED
      BY <1>4, <2>7, <3>1, <3>3, <3>5
  <2>9. source = "parquet" =>
          /\ Len(identity) = 1 /\ identity' = identity /\ identity # <<>>
          /\ tape' = Snapshots("parquet", 1, BytesOf(handle), <<>>)
          /\ identity[1][2] = BytesOf(handle) => IsTapeOf(source, identity, tape')
    <3>1. SUFFICES ASSUME source = "parquet"
                   PROVE  /\ Len(identity) = 1 /\ identity' = identity /\ identity # <<>>
                          /\ tape' = Snapshots("parquet", 1, BytesOf(handle), <<>>)
                          /\ identity[1][2] = BytesOf(handle)
                               => IsTapeOf(source, identity, tape')
      OBVIOUS
    <3>2. Len(identity) = 1 /\ tape = <<>> /\ identity' = identity /\ identity # <<>>
      <4>1. Len(identity) = 1 /\ tape = <<>>
        BY <1>1, <3>1 DEF TapeInv, Told
      <4>2. identity' = identity
        BY <1>4, <3>1
      <4>3. QED
        BY <4>1, <4>2, NoList
    <3>3. read = Snapshots("parquet", 1, BytesOf(handle), <<>>)
      BY <3>1, <3>2 DEF Parsed, AnchorOf
    <3> HIDE DEF read
    <3>4. tape' = read
      <4>1. IsList(read) /\ IsList(tape) /\ Len(tape) = 0 /\ IsList(tape')
        BY <2>1, <2>4, <2>5, <3>2, NoList DEF IsTape
      <4>2. Len(tape') = Len(read) /\ \A i \in 1..Len(read) : tape'[i] = read[i]
        <5>1. Len(tape \o read) = Len(tape) + Len(read) /\ Len(read) \in Nat
              /\ \A i \in 1..Len(read) : (tape \o read)[Len(tape) + i] = read[i]
          BY <4>1, Joined
        <5>2. QED
          BY <1>4, <4>1, <5>1
      <4>3. QED
        BY <4>1, <4>2, SameList
    <3>5. QED
      BY <3>1, <3>2, <3>3, <3>4 DEF IsTapeOf
  <2> HIDE DEF read
  <2>10. Typed'
    <3>1. decoded' \in Nat /\ decoded' <= MaxDecompressed
      <4>1. CASE source = "csv"
        BY <1>4, <4>1 DEF TapeInv, Typed
      <4>2. CASE source = "parquet"
        <5>1. opened \in MineOf(source) /\ handle \in Bytes[opened]
          BY <1>1 DEF TapeInv, Typed
        <5>2. Decoded(handle) \in Nat
          BY <4>2, <5>1, TapeAssumption DEF MineOf
        <5>3. QED
          BY <1>4, <2>0, <4>2, <5>2 DEF Unpacks
      <4>3. QED
        BY <1>1, <4>1, <4>2
    <3>2. QED
      BY <1>1, <1>4, <2>5, <2>6, <3>1 DEF TapeInv, Typed, Opening
  <2>11. Fed' /\ Walked' /\ Opens'
    BY <1>1, <1>4 DEF TapeInv, Fed, Walked, Opens, Playing
  <2>12. Told'
    <3>1. CASE source = "csv"
      <4>1. Len(identity) < Len(seen) /\ opened = seen[Len(identity) + 1]
            /\ (\A i \in 1..Len(identity) : identity[i][1] = seen[i]) /\ Ascending(seen)
        BY <1>1, <3>1 DEF TapeInv, Told
      <4>2. Len(identity) \in Nat /\ Len(seen) \in Nat
        BY <2>1, ListIsSeq DEF IsIdentity
      <4>3. Len(identity') <= Len(seen)
        BY <2>7, <3>1, <4>1, <4>2
      <4>4. ASSUME NEW i \in 1..Len(identity') PROVE identity'[i][1] = seen[i]
        <5>1. i \in 1..Len(identity) \/ i = Len(identity) + 1
          BY <2>7, <3>1, <4>2
        <5>2. QED
          BY <2>7, <3>1, <4>1, <5>1
      <4>5. QED
        BY <1>1, <1>4, <2>7, <2>8, <3>1, <4>1, <4>3, <4>4 DEF Told, Playing
    <3>2. CASE source = "parquet"
      <4>1. /\ IsIdentity(identity) /\ Len(identity) <= Len(seen)
            /\ \A i \in 1..Len(identity) : identity[i][1] = seen[i]
            /\ Ascending(seen) /\ Len(seen) = 1
        BY <1>1, <3>2 DEF TapeInv, Told
      <4>2. Settled(source) => IsTapeOf(source, identity, tape')
        BY <1>1, <2>9, <3>2 DEF TapeInv, Told
      <4>3. QED
        BY <1>1, <1>4, <2>9, <3>2, <4>1, <4>2 DEF Told, Playing
    <3>3. QED
      BY <1>1, <3>1, <3>2
  <2>13. Kept'
    BY <1>1, <1>4 DEF TapeInv, Kept, Playing
  <2>14. Same'
    <3>1. SUFFICES ASSUME ~dirty
                   PROVE  /\ AreFiles(source, disk, identity')
                          /\ NamesOf(seen) = Present(source, disk)
                          /\ IsTapeOf(source, identity', tape')
                          /\ Counted(source, identity', decoded')
                          /\ round = 2 =>
                               /\ AreFiles(source, disk, first.identity)
                               /\ AllFiles(source, disk, first.identity)
                               /\ Fits(source, first.identity)
                               /\ IsTapeOf(source, first.identity, first.tape)
      BY <1>1, <1>4 DEF Same, Playing
    <3>2. /\ AreFiles(source, disk, identity) /\ NamesOf(seen) = Present(source, disk)
          /\ IsFile(disk[opened]) /\ handle = disk[opened] /\ Len(handle) <= MaxFileBytes
          /\ source = "csv" => decoded = Sizes(identity) + Len(handle)
          /\ source = "parquet" => identity[1][2] = BytesOf(handle)
      BY <1>1, <3>1 DEF TapeInv, Same
    <3>3. CASE source = "csv"
      <4>1. AreFiles(source, disk, identity')
        <5>1. opened \in MineOf(source)
          BY <1>1 DEF TapeInv, Typed
        <5>2. Len(identity) \in Nat
          BY <2>1, ListIsSeq DEF IsIdentity
        <5>3. \A i \in 1..Len(identity') : i \in 1..Len(identity) \/ i = Len(identity) + 1
          BY <2>7, <3>3, <5>2
        <5>4. identity'[Len(identity) + 1] = <<opened, handle>>
          BY <2>2, <2>7, <3>2, <3>3
        <5>5. \A i \in 1..Len(identity) : identity'[i] = identity[i]
          BY <2>7, <3>3
        <5>6. QED
          BY <3>2, <5>1, <5>3, <5>4, <5>5 DEF AreFiles
      <4>2. Counted(source, identity', decoded')
        BY <1>4, <2>2, <2>7, <3>2, <3>3 DEF Counted
      <4>3. QED
        BY <1>1, <2>8, <3>1, <3>2, <3>3, <4>1, <4>2 DEF TapeInv, Same
    <3>4. CASE source = "parquet"
      <4>1. Counted(source, identity', decoded')
        BY <2>0, <2>2, <2>9, <3>2, <3>4 DEF Counted, UnpacksAll
      <4>2. QED
        BY <1>1, <2>9, <3>1, <3>2, <3>4, <4>1 DEF TapeInv, Same
    <3>5. QED
      BY <1>1, <3>3, <3>4
  <2>15. QED
    BY <2>10, <2>11, <2>12, <2>13, <2>14 DEF TapeInv
<1>5. QED
  BY <1>2, <1>3, <1>4

-----------------------------------------------------------------------------
(* The walk is drained.                                                    *)

\* Numbers have a least one.
LEMMA LeastSeed ==
  LET least == CHOOSE s \in DOMAIN Walks : \A t \in DOMAIN Walks : s <= t
  IN  least \in DOMAIN Walks
<1> DEFINE S == DOMAIN Walks
<1>1. S \subseteq Nat /\ S # {}
  BY TapeAssumption
<1> HIDE DEF S
<1>2. PICK x \in S : TRUE
  BY <1>1
<1> DEFINE T == S \cap (0..x)
<1>3. IsFiniteSet(T) /\ x \in T /\ \A y \in T : y \in Int
  <2>1. IsFiniteSet(0..x)
    BY <1>1, <1>2, FS_Interval
  <2>2. IsFiniteSet(T)
    BY <2>1, FS_Subset
  <2>3. QED
    BY <1>1, <1>2, <2>2
<1>4. PICK z \in T : \A y \in T : z <= y
  <2> HIDE DEF T
  <2>1. QED
    BY <1>3, LeastOf
<1>5. \A y \in S : z <= y
  <2>1. SUFFICES ASSUME NEW y \in S PROVE z <= y
    OBVIOUS
  <2>2. CASE y <= x
    BY <1>1, <1>2, <1>4, <2>2
  <2>3. CASE y > x
    BY <1>1, <1>2, <1>4, <2>3
  <2>4. QED
    BY <1>1, <1>2, <2>2, <2>3
<1>6. QED
  BY <1>4, <1>5 DEF S

\* The service echoes the seed of the walk, or has none.
LEMMA CreateSessionKeeps ==
  ASSUME TapeInv, CreateSession
  PROVE  TapeInv'
<1> USE DEF CreateSession, Goto
<1> USE DEF envVars, playVars
<1>1. pc = "stat" /\ source = "simulator" /\ pc' = "drain" /\ tape = <<>>
  BY DEF TapeInv, Typed
<1>2. server \in {"seeded", "old", "clamps"} /\ dataSeed \in DOMAIN Walks
  BY DEF TapeInv, Typed
<1>3. PICK effective \in Effective : walk' = Walks[effective] /\ dataSeed' = Recorded(effective)
  OBVIOUS
<1>4. /\ effective \in DOMAIN Walks /\ dataSeed' \in DOMAIN Walks
      /\ DrivenBy(server, dataSeed') = DrivenBy(server, dataSeed)
      /\ server # "old" => effective = DrivenBy(server, dataSeed)
  BY <1>2, <1>3, LeastSeed DEF Effective, Recorded, DrivenBy
<1>5. Typed'
  BY <1>1, <1>4 DEF TapeInv, Typed, Opening
<1>6. Fed' /\ Opens'
  BY <1>1 DEF TapeInv, Fed, Opens, Playing
<1>7. Told' /\ Same'
  BY <1>1 DEF Told, Same
<1>8. Walked'
  <2>1. IsDrainOf(walk', <<>>)
    <3>1. IsList(walk') /\ Len(<<>>) = 0
      BY <1>3, <1>4, TapeAssumption, NoList
    <3>2. Len(walk') \in Nat
      BY <3>1, ListIsSeq
    <3>3. QED
      BY <3>1, <3>2 DEF IsDrainOf
  <2>2. \E seed \in DOMAIN Walks : walk' = Walks[seed]
    BY <1>3, <1>4
  <2>3. server # "old" => walk' = Walks[DrivenBy(server, dataSeed')]
    BY <1>3, <1>4
  <2>4. QED
    BY <1>1, <2>1, <2>2, <2>3 DEF Walked, Playing
<1>9. Kept'
  BY <1>1, <1>4 DEF TapeInv, Kept, Playing
<1>10. QED
  BY <1>5, <1>6, <1>7, <1>8, <1>9 DEF TapeInv

\* What a response is converted under.
AnchorIn(response, snapshots) == IF snapshots = <<>> THEN response.ts ELSE snapshots[1].meta.ts

\* The next response of a walk in hand.
LEMMA NextResponse ==
  ASSUME TapeInv, pc = "drain", MoreSteps
  PROVE  /\ IsList(walk) /\ Len(walk) \in Nat /\ Len(tape) \in Nat
         /\ Len(tape) + 1 \in 1..Len(walk)
         /\ IsChainResponse(walk[Len(tape) + 1])
         /\ IsDrainOf(walk, tape) /\ IsTape(tape) /\ IsList(tape)
         /\ ChainResponseToSnapshot(walk[Len(tape) + 1], Len(tape), Instrument,
              AnchorIn(walk[Len(tape) + 1], tape), QuoteSize) = Converted(walk, Len(tape) + 1)
         /\ tape # <<>> =>
              /\ Len(tape) \in 1..Len(walk)
              /\ tape[Len(tape)].meta.ts = walk[Len(tape)].ts
<1>1. source = "simulator" /\ IsTape(tape) /\ IsList(tape)
  BY DEF TapeInv, Typed, IsTape
<1>2. IsDrainOf(walk, tape) /\ \E seed \in DOMAIN Walks : walk = Walks[seed]
  BY <1>1 DEF TapeInv, Walked
<1>3. IsList(walk) /\ \A i \in DOMAIN walk : IsChainResponse(walk[i])
  BY <1>2, TapeAssumption
<1>4. /\ Len(walk) \in Nat /\ DOMAIN walk = 1..Len(walk) /\ Len(tape) \in Nat
      /\ Len(tape) + 1 \in 1..Len(walk)
  <2>1. Len(walk) \in Nat /\ DOMAIN walk = 1..Len(walk) /\ Len(tape) \in Nat
    BY <1>1, <1>3, ListIsSeq
  <2>2. QED
    BY <2>1 DEF MoreSteps
<1>5. ASSUME NEW i \in 1..Len(tape)
      PROVE  tape[i].meta.ts = walk[i].ts
  <2>1. tape[i] = Converted(walk, i) /\ tape[i] # Rejected
    BY <1>1, <1>2 DEF IsDrainOf, IsTape
  <2>2. QED
    BY <2>1, ResponseRead DEF Converted
<1>6. AnchorIn(walk[Len(tape) + 1], tape) = walk[1].ts
  <2>1. CASE tape = <<>>
    BY <2>1, NoList DEF AnchorIn
  <2>2. CASE tape # <<>>
    <3>1. 1 \in 1..Len(tape)
      BY <1>1, <1>4, <2>2, NoList
    <3>2. QED
      BY <1>5, <2>2, <3>1 DEF AnchorIn
  <2>3. QED
    BY <2>1, <2>2
<1>7. ChainResponseToSnapshot(walk[Len(tape) + 1], Len(tape), Instrument,
        AnchorIn(walk[Len(tape) + 1], tape), QuoteSize) = Converted(walk, Len(tape) + 1)
  <2>1. (Len(tape) + 1) - 1 = Len(tape)
    BY <1>4
  <2>2. QED
    BY <1>6, <2>1 DEF Converted
<1>8. tape # <<>> => Len(tape) \in 1..Len(walk) /\ Len(tape) \in 1..Len(tape)
  BY <1>1, <1>4, NoList
<1>9. QED
  BY <1>1, <1>2, <1>3, <1>4, <1>5, <1>7, <1>8

\* What is asked of a response before its snapshot is kept.
Stays(response, snapshot) ==
  /\ 2 * Len(response.contracts) <= MaxContracts
  /\ HasTs(response) /\ snapshot # Rejected
  /\ tape # <<>> => response.ts > tape[Len(tape)].meta.ts
  /\ Takes(<<snapshot>>)

\* The same walk is drained again.
LEMMA SecondDrain ==
  ASSUME TapeInv, pc = "drain", MoreSteps, round = 2, server # "old"
  PROVE  Stays(walk[Len(tape) + 1], Converted(walk, Len(tape) + 1))
<1> DEFINE k == Len(tape)
           next == Converted(walk, k + 1)
<1>1. source = "simulator"
  BY DEF TapeInv, Typed
<1>2. /\ k \in Nat /\ Len(walk) \in Nat /\ k + 1 \in 1..Len(walk)
      /\ IsDrainOf(walk, tape) /\ IsTape(tape) /\ IsList(tape)
      /\ tape # <<>> => k \in 1..Len(walk) /\ tape[k].meta.ts = walk[k].ts
  BY NextResponse
<1>3. /\ Len(first.tape) = Len(walk) /\ IsDrainOf(walk, first.tape) /\ IsTape(first.tape)
      /\ TotalOf(first.tape) <= MaxTotal /\ Len(first.tape) <= MaxSteps
  BY <1>1 DEF TapeInv, Walked, Kept
<1>4. MaxSteps \in Nat /\ MaxTotal \in Nat
  BY TapeAssumption
<1>5. /\ next = first.tape[k + 1] /\ 2 * Len(walk[k + 1].contracts) <= MaxContracts
      /\ HasTs(walk[k + 1]) /\ (k + 1 > 1 => walk[k + 1].ts > walk[(k + 1) - 1].ts)
  BY <1>2, <1>3 DEF IsDrainOf
<1>6. next # Rejected /\ next.meta.ts \in Nat /\ SizeOf(next) \in Nat
  BY <1>2, <1>3, <1>5 DEF IsTape
<1>7. tape # <<>> => walk[k + 1].ts > tape[k].meta.ts
  <2>1. SUFFICES ASSUME tape # <<>> PROVE walk[k + 1].ts > tape[k].meta.ts
    OBVIOUS
  <2>2. k \in 1..Len(walk) /\ tape[k].meta.ts = walk[k].ts
    BY <1>2, <2>1
  <2>3. k + 1 > 1 /\ (k + 1) - 1 = k
    BY <1>2, <2>2
  <2>4. QED
    BY <1>5, <2>2, <2>3
<1> HIDE DEF next
<1>8. Takes(<<next>>)
  <2>1. IsTape(Append(tape, next)) /\ TotalOf(Append(tape, next)) = TotalOf(tape) + SizeOf(next)
    BY <1>2, <1>6, TotalAppended
  <2>2. IsTape(<<next>>) /\ TotalOf(<<next>>) = SizeOf(next)
    BY <1>6, TotalOne
  <2>3. Len(<<next>>) = 1 /\ DOMAIN <<next>> = 1..1 /\ <<next>>[1] = next
    BY OneList, ListIsSeq
  <2>4. TotalOf(Append(tape, next)) <= TotalOf(first.tape)
    <3> DEFINE u == Append(tape, next)
    <3>1. Len(u) = k + 1 /\ (\A i \in 1..k : u[i] = tape[i]) /\ u[k + 1] = next
      BY <1>2, Appended
    <3>2. \A i \in 1..k : tape[i] = first.tape[i]
      BY <1>2, <1>3 DEF IsDrainOf
    <3>3. IsTape(u)
      BY <2>1
    <3> HIDE DEF u
    <3>4. \A i \in 1..Len(u) : i \in 1..k \/ i = k + 1
      BY <1>2, <3>1
    <3>5. \A i \in 1..Len(u) : u[i] = first.tape[i]
      BY <1>5, <3>1, <3>2, <3>4
    <3>6. Len(u) <= Len(first.tape)
      BY <1>2, <1>3, <3>1
    <3>7. TotalOf(u) <= TotalOf(first.tape)
      BY <1>3, <3>3, <3>5, <3>6, TotalPart
    <3>8. QED
      BY <3>7 DEF u
  <2>5. TotalOf(first.tape) \in Nat /\ TotalOf(tape) \in Nat /\ total = TotalOf(tape)
    BY <1>2, <1>3, TotalIs DEF TapeInv, Typed
  <2>6. QED
    BY <1>2, <1>3, <1>4, <1>6, <2>1, <2>2, <2>3, <2>4, <2>5 DEF Takes
<1>9. QED
  BY <1>5, <1>6, <1>7, <1>8 DEF Stays, next

\* One more response is converted and kept.
LEMMA DrainKeeps ==
  ASSUME TapeInv, Drain
  PROVE  TapeInv'
<1> DEFINE k == Len(tape)
           response == walk[k + 1]
           next == Converted(walk, k + 1)
<1>1. pc = "drain" /\ MoreSteps /\ source = "simulator" /\ pc \in Opening
  BY DEF Drain, TapeInv, Typed, Opening
<1>2. /\ k \in Nat /\ Len(walk) \in Nat /\ k + 1 \in 1..Len(walk)
      /\ IsChainResponse(response) /\ IsDrainOf(walk, tape) /\ IsTape(tape) /\ IsList(tape)
      /\ ChainResponseToSnapshot(response, k, Instrument, AnchorIn(response, tape), QuoteSize)
           = next
      /\ tape # <<>> => k \in 1..Len(walk) /\ tape[k].meta.ts = walk[k].ts
  BY <1>1, NextResponse
<1>3. \/ /\ Stays(response, next)
         /\ tape' = Append(tape, next)
         /\ total' = total + SizeOf(next)
         /\ Goto("drain")
         /\ UNCHANGED <<pin, seen, fresh, handle, opened, decoded, identity, simVars>>
      \/ ~Stays(response, next) /\ Fail
  BY <1>2 DEF Drain, Stays, AnchorIn
<1>4. CASE ~Stays(response, next) /\ Fail
  <2>1. ASSUME round = 2, server # "old" PROVE FALSE
    BY <1>1, <1>4, <2>1, SecondDrain
  <2>2. QED
    BY <1>1, <1>4, <2>1, FailKeeps
<1>5. CASE /\ Stays(response, next)
           /\ tape' = Append(tape, next)
           /\ total' = total + SizeOf(next)
           /\ Goto("drain")
           /\ UNCHANGED <<pin, seen, fresh, handle, opened, decoded, identity, simVars>>
  <2> USE DEF Goto, envVars, simVars, playVars
  <2>1. next # Rejected /\ next.meta.ts \in Nat /\ SizeOf(next) \in Nat
    <3>1. next # Rejected /\ HasTs(response)
      BY <1>5 DEF Stays
    <3>2. next.meta.ts = response.ts /\ SizeOf(next) \in Nat
      <4>1. PICK r, s, a : r = response /\ s = k /\ a = AnchorIn(response, tape)
        OBVIOUS
      <4>2. next = ChainResponseToSnapshot(r, s, Instrument, a, QuoteSize) /\ IsChainResponse(r)
        BY <1>2, <4>1
      <4> HIDE DEF next
      <4>3. QED
        BY <3>1, <4>1, <4>2, ResponseRead, ResponseSized
    <3>3. response.ts \in Nat
      BY <1>2, <3>1 DEF HasTs, IsChainResponse
    <3>4. QED
      BY <3>1, <3>2, <3>3
  <2> HIDE DEF next
  <2>2. IsTape(tape') /\ TotalOf(tape') = total'
    <3>1. IsTape(Append(tape, next)) /\ TotalOf(Append(tape, next)) = TotalOf(tape) + SizeOf(next)
      BY <1>2, <2>1, TotalAppended
    <3>2. QED
      BY <1>5, <3>1 DEF TapeInv, Typed
  <2>3. Len(tape') = k + 1 /\ (\A i \in 1..k : tape'[i] = tape[i]) /\ tape'[k + 1] = next
    BY <1>2, <1>5, Appended
  <2>4. Len(tape') <= MaxSteps /\ total' <= MaxTotal
    <3>1. Len(<<next>>) = 1 /\ TotalOf(<<next>>) = SizeOf(next)
      BY <2>1, OneList, TotalOne
    <3>2. QED
      BY <1>5, <2>3, <3>1 DEF Stays, Takes
  <2>5. IsDrainOf(walk, tape')
    <3>1. \A i \in 1..Len(tape') : i \in 1..k \/ i = k + 1
      BY <1>2, <2>3
    <3>2. /\ 2 * Len(response.contracts) <= MaxContracts /\ HasTs(response)
          /\ tape # <<>> => response.ts > tape[k].meta.ts
      BY <1>5 DEF Stays
    <3>3. k + 1 > 1 => walk[k + 1].ts > walk[(k + 1) - 1].ts
      <4>1. SUFFICES ASSUME k + 1 > 1 PROVE walk[k + 1].ts > walk[(k + 1) - 1].ts
        OBVIOUS
      <4>2. tape # <<>> /\ (k + 1) - 1 = k
        BY <1>2, <4>1, NoList
      <4>3. tape[k].meta.ts = walk[k].ts
        BY <1>2, <4>2
      <4>4. QED
        BY <3>2, <4>2, <4>3
    <3>4. ASSUME NEW i \in 1..Len(tape')
          PROVE  /\ tape'[i] = Converted(walk, i)
                 /\ 2 * Len(walk[i].contracts) <= MaxContracts /\ HasTs(walk[i])
                 /\ i > 1 => walk[i].ts > walk[i - 1].ts
      <4>1. CASE i \in 1..k
        BY <1>2, <2>3, <4>1 DEF IsDrainOf
      <4>2. CASE i = k + 1
        BY <2>3, <3>2, <3>3, <4>2 DEF next
      <4>3. QED
        BY <3>1, <4>1, <4>2
    <3>5. Len(tape') <= Len(walk)
      BY <1>2, <2>3
    <3>6. QED
      BY <3>4, <3>5 DEF IsDrainOf
  <2>6. Typed'
    BY <1>1, <1>5, <2>2, <2>4 DEF TapeInv, Typed, Opening
  <2>7. Fed' /\ Opens'
    BY <1>1, <1>5 DEF TapeInv, Fed, Opens, Playing
  <2>8. Told' /\ Same'
    BY <1>1, <1>5 DEF Told, Same
  <2>9. Walked'
    BY <1>1, <1>5, <2>5 DEF TapeInv, Walked, Playing
  <2>10. Kept'
    BY <1>1, <1>5 DEF TapeInv, Kept, Playing
  <2>11. QED
    BY <2>6, <2>7, <2>8, <2>9, <2>10 DEF TapeInv
<1>6. QED
  BY <1>3, <1>4, <1>5

\* The walk is drained and hashed.
LEMMA DrainedKeeps ==
  ASSUME TapeInv, Drained
  PROVE  TapeInv'
<1> USE DEF Drained, Goto
<1> USE DEF envVars, simVars, playVars
<1>1. pc = "drain" /\ source = "simulator"
  BY DEF TapeInv, Typed
<1>2. IsDrainOf(walk, tape) /\ \E seed \in DOMAIN Walks : walk = Walks[seed]
  BY <1>1 DEF TapeInv, Walked
<1>3. Len(tape) = Len(walk)
  <2>1. IsList(walk) /\ IsList(tape)
    BY <1>2, TapeAssumption DEF TapeInv, Typed, IsTape
  <2>2. Len(walk) \in Nat /\ Len(tape) \in Nat /\ Len(tape) <= Len(walk)
    BY <1>2, <2>1, ListIsSeq DEF IsDrainOf
  <2>3. QED
    BY <2>2 DEF MoreSteps
<1>4. Typed'
  BY <1>1 DEF TapeInv, Typed, Opening
<1>5. Fed' /\ Opens'
  BY <1>1 DEF TapeInv, Fed, Opens, Playing
<1>6. Told' /\ Same'
  BY <1>1 DEF Told, Same
<1>7. Walked'
  BY <1>1, <1>3 DEF TapeInv, Walked, Playing
<1>8. Kept'
  BY <1>1 DEF TapeInv, Kept, Playing
<1>9. QED
  BY <1>4, <1>5, <1>6, <1>7, <1>8 DEF TapeInv

-----------------------------------------------------------------------------
(* The tape is opened and replayed.                                        *)

\* One identity, one tape.
LEMMA SameTapes ==
  ASSUME NEW kind \in {"csv", "parquet"}, NEW entries, IsIdentity(entries), entries # <<>>,
         NEW s, NEW t, IsTape(s), IsTape(t),
         IsTapeOf(kind, entries, s), IsTapeOf(kind, entries, t)
  PROVE  s = t
<1>1. CASE kind = "csv"
  <2>1. Len(entries) \in Nat /\ IsList(s) /\ IsList(t)
    BY ListIsSeq DEF IsIdentity, IsTape
  <2>2. Len(entries) <= Len(entries) /\ \A i \in 1..Len(entries) : entries[i] = entries[i]
    BY <2>1
  <2>3. Len(s) = Len(entries) /\ Len(t) = Len(entries) /\ \A i \in 1..Len(entries) : s[i] = t[i]
    BY <1>1, <2>1, <2>2, TapeSame
  <2>4. QED
    BY <2>1, <2>3, SameList
<1>2. CASE kind = "parquet"
  BY <1>2 DEF IsTapeOf
<1>3. QED
  BY <1>1, <1>2

\* One walk, one tape.
LEMMA SameDrains ==
  ASSUME NEW responses, NEW s, NEW t, IsTape(s), IsTape(t), Len(s) = Len(t),
         IsDrainOf(responses, s), IsDrainOf(responses, t)
  PROVE  s = t
<1>1. IsList(s) /\ IsList(t)
  BY DEF IsTape
<1>2. \A i \in 1..Len(s) : s[i] = t[i]
  BY DEF IsDrainOf
<1>3. QED
  BY <1>1, <1>2, SameList

\* In a second round, the tape of files that nobody changed, or of a walk of the
\* same seed, is the first one's.
LEMMA SecondTape ==
  ASSUME TapeInv, round = 2, ~dirty, server # "old",
         pc = "open", source = "simulator" \/ ~MoreFiles
  PROVE  tape = first.tape /\ (source # "simulator" => identity = first.identity)
<1>1. IsTape(tape) /\ IsTape(first.tape)
  BY DEF TapeInv, Typed, Kept
<1>2. CASE source = "simulator"
  <2>1. /\ IsDrainOf(walk, tape) /\ Len(tape) = Len(walk)
        /\ IsDrainOf(walk, first.tape) /\ Len(first.tape) = Len(walk)
    BY <1>2 DEF TapeInv, Walked, Kept
  <2>2. QED
    BY <1>1, <1>2, <2>1, SameDrains
<1>3. CASE source # "simulator"
  <2>1. source \in {"csv", "parquet"}
    BY <1>3 DEF TapeInv, Typed
  <2>2. /\ Len(first.identity) = Len(seen) /\ Len(seen) \in Nat
        /\ \A i \in 1..Len(identity) : identity[i] = first.identity[i]
        /\ IsIdentity(first.identity) /\ IsIdentity(identity)
    BY <1>3, SecondListing
  <2>3. Len(identity) = Len(seen)
    <3>1. Len(identity) <= Len(seen) /\ Len(identity) \in Nat
      BY <1>3, <2>2, ListIsSeq DEF TapeInv, Told, IsIdentity
    <3>2. QED
      BY <1>3, <2>2, <3>1 DEF MoreFiles
  <2>4. identity = first.identity
    BY <2>2, <2>3, SameList DEF IsIdentity
  <2>5. /\ IsTapeOf(source, identity, tape) /\ IsTapeOf(source, first.identity, first.tape)
        /\ first.identity # <<>>
    BY <1>3 DEF TapeInv, Same, Kept, NoPin
  <2>6. tape = first.tape
    BY <1>1, <2>1, <2>2, <2>4, <2>5, SameTapes
  <2>7. QED
    BY <2>4, <2>6
<1>4. QED
  BY <1>2, <1>3

\* The tape is checked and opened.
LEMMA FinishKeeps ==
  ASSUME TapeInv, Finish
  PROVE  TapeInv'
<1>1. pc = "open" /\ pc \in Opening /\ (source = "simulator" \/ ~MoreFiles)
  BY DEF Finish, Opening
<1>2. CASE ~(FromTape(tape) /\ Verified) /\ Fail
  <2>1. ASSUME round = 2, ~dirty, server # "old" PROVE FALSE
    <3>1. tape = first.tape /\ (source # "simulator" => identity = first.identity)
      BY <1>1, <2>1, SecondTape
    <3>2. FromTape(tape) /\ Verified
      BY <2>1, <3>1 DEF TapeInv, Kept, Verified
    <3>3. QED
      BY <1>2, <3>2
  <2>2. QED
    BY <1>1, <1>2, <2>1, FailKeeps
<1>3. CASE /\ FromTape(tape) /\ Verified
           /\ pc' = "start"
           /\ first' = IF round = 1 THEN [tape |-> tape, identity |-> identity] ELSE first
           /\ UNCHANGED <<source, round, fresh, envVars, openVars, playVars>>
  <2> USE <1>3
  <2> USE DEF envVars, simVars, openVars, playVars
  <2>1. Typed'
    BY <1>1 DEF TapeInv, Typed, Playing
  <2>2. Fed' /\ Opens'
    BY <1>1 DEF TapeInv, Fed, Opens, Playing
  <2>3. Told'
    <3>1. source # "simulator" => Len(identity) = Len(seen)
      <4>1. SUFFICES ASSUME source # "simulator" PROVE Len(identity) = Len(seen)
        OBVIOUS
      <4>2. IsIdentity(identity) /\ Len(identity) <= Len(seen) /\ IsList(seen)
        BY <4>1 DEF TapeInv, Told, Typed
      <4>3. Len(identity) \in Nat /\ Len(seen) \in Nat
        BY <4>2, ListIsSeq DEF IsIdentity
      <4>4. QED
        BY <1>1, <4>1, <4>2, <4>3 DEF MoreFiles
    <3>2. QED
      BY <1>1, <3>1 DEF TapeInv, Told, Playing
  <2>4. Walked'
    BY <1>1 DEF TapeInv, Walked, Playing
  <2>5. Kept'
    <3>1. round \in {1, 2}
      BY DEF TapeInv, Typed
    <3>2. CASE round = 1
      BY <1>1, <3>2 DEF TapeInv, Kept, Playing
    <3>3. CASE round = 2
      <4>1. source # "simulator" => identity = first.identity
        BY <3>3 DEF TapeInv, Kept, Verified
      <4>2. QED
        BY <1>1, <3>3, <4>1 DEF TapeInv, Kept, Playing
    <3>4. QED
      BY <3>1, <3>2, <3>3
  <2>6. Same'
    <3>1. round = 2 => first' = first
      OBVIOUS
    <3>2. QED
      BY <1>1, <3>1 DEF TapeInv, Same, Playing
  <2>7. QED
    BY <2>1, <2>2, <2>3, <2>4, <2>5, <2>6 DEF TapeInv
<1>4. QED
  BY <1>2, <1>3 DEF Finish

\* The feed gives what the cursor is at, and the clock takes it.
LEMMA Advances ==
  ASSUME TapeInv, pc \in {"start", "play"}
  PROVE  /\ Gives /\ Onward(Given.meta)
         /\ cursor \in 0..(Len(tape) - 1) /\ Len(tape) \in Nat /\ IsList(tape)
         /\ Given.meta.step = cursor
         /\ IsList(played) /\ Len(played) = cursor
         /\ \A i \in 1..cursor : played[i] = tape[i]
<1>1. IsTape(tape) /\ FromTape(tape) /\ IsList(tape)
  BY DEF TapeInv, Typed, Fed, Playing, IsTape
<1>2. Len(tape) \in Nat /\ DOMAIN tape = 1..Len(tape) /\ Len(tape) # 0
  BY <1>1, ListIsSeq, NoList DEF FromTape
<1>3. CASE pc = "start"
  <2>1. cursor = 0 /\ clock = Before /\ played = <<>>
    BY <1>3 DEF TapeInv, Fed
  <2>2. 1 \in 1..Len(tape) /\ tape[1].meta.ts \in Nat /\ tape[1].meta.step = 0
    BY <1>1, <1>2 DEF IsTape, FromTape
  <2>3. QED
    BY <1>1, <1>2, <2>1, <2>2, NoList DEF Gives, Onward, Given, Before, NoTime
<1>4. CASE pc = "play"
  <2>1. /\ cursor \in 1..(Len(tape) - 1)
        /\ clock = [ts |-> tape[cursor].meta.ts, step |-> cursor - 1]
        /\ IsList(played) /\ Len(played) = cursor
        /\ \A i \in 1..cursor : played[i] = tape[i]
    BY <1>4 DEF TapeInv, Fed
  <2>2. cursor + 1 \in 2..Len(tape) /\ cursor + 1 \in 1..Len(tape) /\ cursor \in 1..Len(tape)
        /\ (cursor + 1) - 1 = cursor
    BY <1>2, <2>1
  <2>3. tape[cursor + 1].meta.step = (cursor + 1) - 1
    BY <1>1, <1>2, <2>2 DEF FromTape
  <2>4. tape[cursor + 1].meta.ts > tape[(cursor + 1) - 1].meta.ts
    BY <1>1, <2>2 DEF FromTape
  <2>5. QED
    BY <1>1, <1>2, <2>1, <2>2, <2>3, <2>4 DEF Gives, Onward, Given
<1>5. QED
  BY <1>3, <1>4

\* One more snapshot is replayed: neither guard of the loop fires.
LEMMA PlayKeeps ==
  ASSUME TapeInv, Play
  PROVE  TapeInv'
<1> USE DEF envVars, simVars, openVars, playVars
<1>1. /\ pc \in {"start", "play"}
      /\ UNCHANGED <<source, round, fresh, envVars, openVars, first>>
  BY DEF Play
<1>2. /\ Gives /\ Onward(Given.meta)
      /\ cursor \in 0..(Len(tape) - 1) /\ Len(tape) \in Nat /\ IsList(tape)
      /\ Given.meta.step = cursor
      /\ IsList(played) /\ Len(played) = cursor
      /\ \A i \in 1..cursor : played[i] = tape[i]
  BY <1>1, Advances
<1>3. /\ AdvanceTo(Given.meta) /\ played' = Append(played, Given) /\ cursor' = cursor + 1
      /\ pc' = IF IsLast THEN "done" ELSE "play"
  BY <1>2 DEF Play
<1>4. pc' \in {"play", "done"} /\ pc' \in Playing /\ pc \in Playing
  BY <1>1, <1>3 DEF Playing
<1>5. Typed'
  BY <1>1, <1>4, Phases DEF TapeInv, Typed, Opening, Playing
<1>6. Fed'
  <2>1. /\ IsList(played') /\ Len(played') = cursor'
        /\ \A i \in 1..cursor' : played'[i] = tape[i]
    <3>1. /\ IsList(played') /\ Len(played') = cursor + 1
          /\ \A i \in 1..cursor : played'[i] = played[i]
          /\ played'[cursor + 1] = tape[cursor + 1]
      BY <1>2, <1>3, Appended DEF Given
    <3>2. \A i \in 1..(cursor + 1) : i \in 1..cursor \/ i = cursor + 1
      BY <1>2
    <3>3. QED
      BY <1>2, <1>3, <3>1, <3>2
  <2>2. clock' = [ts |-> tape[cursor'].meta.ts, step |-> cursor' - 1]
    <3>1. cursor' - 1 = cursor
      BY <1>2, <1>3
    <3>2. QED
      BY <1>2, <1>3, <3>1 DEF AdvanceTo, Given
  <2>3. FromTape(tape)
    BY <1>4 DEF TapeInv, Fed
  <2>4. CASE pc' = "play"
    <3>1. cursor # Len(tape) - 1
      BY <1>3, <2>4 DEF IsLast, FinalStep
    <3>2. cursor' \in 1..(Len(tape) - 1)
      BY <1>2, <1>3, <3>1
    <3>3. QED
      BY <1>1, <1>4, <2>1, <2>2, <2>3, <2>4, <3>2 DEF Fed
  <2>5. CASE pc' = "done"
    <3>1. cursor = Len(tape) - 1
      BY <1>3, <2>5 DEF IsLast, FinalStep
    <3>2. cursor' = Len(tape)
      BY <1>2, <1>3, <3>1
    <3>3. played' = tape
      BY <1>2, <2>1, <3>2, SameList
    <3>4. QED
      BY <1>1, <1>4, <2>3, <2>5, <3>3 DEF Fed
  <2>6. QED
    BY <1>4, <2>4, <2>5
<1>7. Told'
  BY <1>1, <1>4 DEF TapeInv, Told, Playing
<1>8. Walked' /\ Opens'
  BY <1>1, <1>4 DEF TapeInv, Walked, Opens, Playing
<1>9. Kept'
  BY <1>1, <1>4, Phases DEF TapeInv, Kept
<1>10. Same'
  BY <1>1, <1>4 DEF TapeInv, Same, Playing
<1>11. QED
  BY <1>5, <1>6, <1>7, <1>8, <1>9, <1>10 DEF TapeInv

\* The invariant holds throughout.
LEMMA TapeInvAlways == Spec => []TapeInv
<1>1. Init => TapeInv
  BY InitKeeps
<1>2. TapeInv /\ [Next]_vars => TapeInv'
  <2>1. SUFFICES ASSUME TapeInv, [Next]_vars PROVE TapeInv'
    OBVIOUS
  <2>2. CASE UNCHANGED vars
    BY <2>1, <2>2, StutterKeeps
  <2>3. CASE Write
    BY <2>1, <2>3, WriteKeeps
  <2>4. CASE StatDir \/ List \/ Listed \/ StatFile
    BY <2>1, <2>4, StatDirKeeps, ListKeeps, ListedKeeps, StatFileKeeps
  <2>5. CASE OpenFile \/ HashFile \/ ReadFile
    BY <2>1, <2>5, OpenFileKeeps, HashFileKeeps, ReadFileKeeps
  <2>6. CASE CreateSession \/ Drain \/ Drained
    BY <2>1, <2>6, CreateSessionKeeps, DrainKeeps, DrainedKeeps
  <2>7. CASE Finish \/ Play \/ Again
    BY <2>1, <2>7, FinishKeeps, PlayKeeps, AgainKeeps
  <2>8. QED
    BY <2>1, <2>2, <2>3, <2>4, <2>5, <2>6, <2>7 DEF Next, Run
<1>3. QED
  BY <1>1, <1>2, PTL DEF Spec

\* Neither guard of the replay loop, against a feed that ends early and against
\* one that goes back in time, ever stops a run of an opened tape, and the run is
\* over when each of its snapshots was replayed, once (engine/backtest.rs run,
\* engine/clock.rs SimClock::advance_to).
THEOREM TapeAlwaysPlayed == Spec => []PlaysTape
<1>1. TapeInv => PlaysTape
  BY DEF TapeInv, Typed, Fed, PlaysTape, Opening, Playing
<1>2. QED
  BY <1>1, TapeInvAlways, PTL

-----------------------------------------------------------------------------
(* What a tape of a walk is known by.                                      *)

\* A snapshot, field by field.
IsSnapshot(s) ==
  s = [meta |-> [ts |-> s.meta.ts, step |-> s.meta.step, underlying |-> s.meta.underlying,
                 underlying_price |-> s.meta.underlying_price, tick |-> s.meta.tick,
                 multiplier |-> s.meta.multiplier],
       quotes |-> [key \in DOMAIN s.quotes |->
         [bid |-> s.quotes[key].bid, ask |-> s.quotes[key].ask, mid |-> s.quotes[key].mid,
          bid_size |-> s.quotes[key].bid_size, ask_size |-> s.quotes[key].ask_size,
          analytics |-> s.quotes[key].analytics]]]

\* What is converted is a snapshot of these fields and no other.
LEMMA RawSnapshot ==
  ASSUME NEW meta, NEW anchor, NEW raw, RawQuotesToSnapshot(meta, anchor, raw) # Rejected,
         meta = [ts |-> meta.ts, step |-> meta.step, underlying |-> meta.underlying,
                 underlying_price |-> meta.underlying_price, tick |-> meta.tick,
                 multiplier |-> meta.multiplier]
  PROVE  IsSnapshot(RawQuotesToSnapshot(meta, anchor, raw))
<1> DEFINE keys == {KeyOf(raw[i], anchor) : i \in DOMAIN raw}
           Of(key) == QuoteView(raw[CHOOSE i \in DOMAIN raw : KeyOf(raw[i], anchor) = key],
                                meta.tick)
           quotes == [key \in keys |-> Of(key)]
           s == RawQuotesToSnapshot(meta, anchor, raw)
<1>1. s = [meta |-> meta, quotes |-> quotes]
  BY DEF RawQuotesToSnapshot
<1>2. \A key \in keys :
        Of(key) = [bid |-> Of(key).bid, ask |-> Of(key).ask, mid |-> Of(key).mid,
                   bid_size |-> Of(key).bid_size, ask_size |-> Of(key).ask_size,
                   analytics |-> Of(key).analytics]
  BY DEF QuoteView
<1> HIDE DEF keys, Of, s
<1>3. DOMAIN quotes = keys /\ \A key \in keys : quotes[key] = Of(key)
  OBVIOUS
<1>4. quotes = [key \in DOMAIN quotes |->
         [bid |-> quotes[key].bid, ask |-> quotes[key].ask, mid |-> quotes[key].mid,
          bid_size |-> quotes[key].bid_size, ask_size |-> quotes[key].ask_size,
          analytics |-> quotes[key].analytics]]
  BY <1>2, <1>3
<1> HIDE DEF quotes
<1>5. s.meta = meta /\ s.quotes = quotes
  BY <1>1
<1>6. IsSnapshot(s)
  BY <1>1, <1>4, <1>5 DEF IsSnapshot
<1>7. QED
  BY <1>6 DEF s

\* So is a response.
LEMMA ResponseSnapshot ==
  ASSUME NEW response, NEW step, NEW spec, NEW anchor, NEW size,
         ChainResponseToSnapshot(response, step, spec, anchor, size) # Rejected
  PROVE  IsSnapshot(ChainResponseToSnapshot(response, step, spec, anchor, size))
<1> DEFINE raws == SidesOf(response, size)
           heading == [ts |-> response.ts, step |-> step, underlying |-> response.underlying,
                    underlying_price |-> DollarsToCents(response.price), tick |-> spec.tick,
                    multiplier |-> spec.multiplier]
<1>1. ChainResponseToSnapshot(response, step, spec, anchor, size)
        = RawQuotesToSnapshot(heading, anchor, raws)
  BY DEF ChainResponseToSnapshot, SidesOf
<1>2. heading = [ts |-> heading.ts, step |-> heading.step, underlying |-> heading.underlying,
                 underlying_price |-> heading.underlying_price, tick |-> heading.tick,
                 multiplier |-> heading.multiplier]
  OBVIOUS
<1> HIDE DEF raws, heading
<1>3. QED
  BY <1>1, <1>2, RawSnapshot

\* One entry of the hash.
HashOf(s) ==
  <<s.meta.ts, s.meta.step, s.meta.underlying, s.meta.underlying_price,
    s.meta.tick, s.meta.multiplier,
    [key \in DOMAIN s.quotes |->
      LET q == s.quotes[key]
      IN  <<q.bid, q.ask, q.mid, q.bid_size, q.ask_size, q.analytics>>]>>

\* Equal entries of the hash are of equal snapshots.
LEMMA HashTells ==
  ASSUME NEW s, NEW t, IsSnapshot(s), IsSnapshot(t), HashOf(s) = HashOf(t)
  PROVE  s = t
<1> DEFINE Hashes(x) == [key \in DOMAIN x.quotes |->
              <<x.quotes[key].bid, x.quotes[key].ask, x.quotes[key].mid,
                x.quotes[key].bid_size, x.quotes[key].ask_size, x.quotes[key].analytics>>]
<1>1. /\ s.meta.ts = t.meta.ts /\ s.meta.step = t.meta.step
      /\ s.meta.underlying = t.meta.underlying
      /\ s.meta.underlying_price = t.meta.underlying_price
      /\ s.meta.tick = t.meta.tick /\ s.meta.multiplier = t.meta.multiplier
      /\ Hashes(s) = Hashes(t)
  <2>1. HashOf(s) = <<s.meta.ts, s.meta.step, s.meta.underlying, s.meta.underlying_price,
                      s.meta.tick, s.meta.multiplier, Hashes(s)>>
    BY DEF HashOf
  <2>5. HashOf(t) = <<t.meta.ts, t.meta.step, t.meta.underlying, t.meta.underlying_price,
                      t.meta.tick, t.meta.multiplier, Hashes(t)>>
    BY DEF HashOf
  <2> HIDE DEF Hashes
  <2>2. /\ HashOf(s)[1] = s.meta.ts /\ HashOf(s)[2] = s.meta.step
        /\ HashOf(s)[3] = s.meta.underlying /\ HashOf(s)[4] = s.meta.underlying_price
        /\ HashOf(s)[5] = s.meta.tick /\ HashOf(s)[6] = s.meta.multiplier
        /\ HashOf(s)[7] = Hashes(s)
    BY <2>1
  <2>3. /\ HashOf(t)[1] = t.meta.ts /\ HashOf(t)[2] = t.meta.step
        /\ HashOf(t)[3] = t.meta.underlying /\ HashOf(t)[4] = t.meta.underlying_price
        /\ HashOf(t)[5] = t.meta.tick /\ HashOf(t)[6] = t.meta.multiplier
        /\ HashOf(t)[7] = Hashes(t)
    BY <2>5
  <2>4. QED
    BY <2>2, <2>3
<1>2. DOMAIN s.quotes = DOMAIN t.quotes
  <2>1. DOMAIN Hashes(s) = DOMAIN s.quotes /\ DOMAIN Hashes(t) = DOMAIN t.quotes
    OBVIOUS
  <2> HIDE DEF Hashes
  <2>2. QED
    BY <1>1, <2>1
<1>3. ASSUME NEW key \in DOMAIN s.quotes
      PROVE  /\ s.quotes[key].bid = t.quotes[key].bid /\ s.quotes[key].ask = t.quotes[key].ask
             /\ s.quotes[key].mid = t.quotes[key].mid
             /\ s.quotes[key].bid_size = t.quotes[key].bid_size
             /\ s.quotes[key].ask_size = t.quotes[key].ask_size
             /\ s.quotes[key].analytics = t.quotes[key].analytics
  <2>1. /\ Hashes(s)[key] = <<s.quotes[key].bid, s.quotes[key].ask, s.quotes[key].mid,
             s.quotes[key].bid_size, s.quotes[key].ask_size, s.quotes[key].analytics>>
        /\ Hashes(t)[key] = <<t.quotes[key].bid, t.quotes[key].ask, t.quotes[key].mid,
             t.quotes[key].bid_size, t.quotes[key].ask_size, t.quotes[key].analytics>>
    BY <1>2
  <2> HIDE DEF Hashes
  <2>2. Hashes(s)[key] = Hashes(t)[key]
    BY <1>1
  <2>3. QED
    BY <2>1, <2>2
<1> HIDE DEF Hashes
<1> DEFINE Each(x) == [key \in DOMAIN x.quotes |->
         [bid |-> x.quotes[key].bid, ask |-> x.quotes[key].ask, mid |-> x.quotes[key].mid,
          bid_size |-> x.quotes[key].bid_size, ask_size |-> x.quotes[key].ask_size,
          analytics |-> x.quotes[key].analytics]]
<1>4. Each(s) = Each(t)
  BY <1>2, <1>3
<1>5. /\ s = [meta |-> [ts |-> s.meta.ts, step |-> s.meta.step, underlying |-> s.meta.underlying,
                 underlying_price |-> s.meta.underlying_price, tick |-> s.meta.tick,
                 multiplier |-> s.meta.multiplier], quotes |-> Each(s)]
      /\ t = [meta |-> [ts |-> t.meta.ts, step |-> t.meta.step, underlying |-> t.meta.underlying,
                 underlying_price |-> t.meta.underlying_price, tick |-> t.meta.tick,
                 multiplier |-> t.meta.multiplier], quotes |-> Each(t)]
  BY DEF IsSnapshot
<1> HIDE DEF Each
<1>6. QED
  BY <1>1, <1>4, <1>5

\* Equal hashes are of equal tapes (tape_sha256).
LEMMA SameHash ==
  ASSUME NEW s, NEW t, IsTape(s), IsTape(t), TapeSha256(s) = TapeSha256(t),
         \A i \in 1..Len(s) : IsSnapshot(s[i]), \A i \in 1..Len(t) : IsSnapshot(t[i])
  PROVE  s = t
<1>1. /\ IsList(s) /\ IsList(t) /\ Len(s) \in Nat /\ Len(t) \in Nat
      /\ DOMAIN s = 1..Len(s) /\ DOMAIN t = 1..Len(t)
  BY ListIsSeq DEF IsTape
<1>2. /\ TapeSha256(s) = [i \in 1..Len(s) |-> HashOf(s[i])]
      /\ TapeSha256(t) = [i \in 1..Len(t) |-> HashOf(t[i])]
  BY <1>1 DEF TapeSha256, MapSeq, HashOf
<1>3. 1..Len(s) = 1..Len(t)
  <2>1. DOMAIN TapeSha256(s) = 1..Len(s) /\ DOMAIN TapeSha256(t) = 1..Len(t)
    BY <1>2
  <2>2. QED
    BY <2>1
<1>4. Len(s) = Len(t)
  <2>1. ASSUME Len(s) < Len(t) PROVE FALSE
    <3>1. Len(t) \in 1..Len(t) /\ Len(t) \notin 1..Len(s)
      BY <1>1, <2>1
    <3>2. QED
      BY <1>3, <3>1
  <2>2. ASSUME Len(t) < Len(s) PROVE FALSE
    <3>1. Len(s) \in 1..Len(s) /\ Len(s) \notin 1..Len(t)
      BY <1>1, <2>2
    <3>2. QED
      BY <1>3, <3>1
  <2>3. Len(s) \in Int /\ Len(t) \in Int
    BY <1>1
  <2>4. QED
    BY <2>1, <2>2, <2>3
<1>5. \A i \in 1..Len(s) : s[i] = t[i]
  <2>1. SUFFICES ASSUME NEW i \in 1..Len(s) PROVE s[i] = t[i]
    OBVIOUS
  <2>2. HashOf(s[i]) = HashOf(t[i])
    <3>1. TapeSha256(s)[i] = HashOf(s[i]) /\ TapeSha256(t)[i] = HashOf(t[i])
      BY <1>2, <1>3
    <3>2. QED
      BY <3>1
  <2>3. IsSnapshot(s[i]) /\ IsSnapshot(t[i])
    BY <1>3
  <2>4. QED
    BY <2>2, <2>3, HashTells
<1>6. QED
  BY <1>1, <1>4, <1>5, SameList

\* A drained tape is one of snapshots.
LEMMA DrainSnapshots ==
  ASSUME NEW responses, NEW s, IsTape(s), IsDrainOf(responses, s)
  PROVE  \A i \in 1..Len(s) : IsSnapshot(s[i])
<1>1. SUFFICES ASSUME NEW i \in 1..Len(s) PROVE IsSnapshot(s[i])
  OBVIOUS
<1>2. s[i] = Converted(responses, i) /\ s[i] # Rejected
  BY DEF IsTape, IsDrainOf
<1>3. QED
  BY <1>2, ResponseSnapshot DEF Converted

\* Run again from the identity that the manifest recorded, the tape is the same,
\* and it opens again unless a file was written in between (data/historical.rs
\* open_verified, data/simulator.rs tape_sha256).  Of a Parquet file this asks that
\* it is not rewritten in place: what is hashed may then not be what is read.
THEOREM TapeAlwaysReproduces ==
  ASSUME "parquet" \notin InPlace
  PROVE  Spec => []Reproduces
<1>1. ASSUME TapeInv PROVE Reproduces
  <2>1. SUFFICES ASSUME round = 2, Opened
                 PROVE  /\ tape = first.tape <=> identity = first.identity
                        /\ source # "simulator" \/ server # "old" => tape = first.tape
    BY <1>1 DEF TapeInv, Opens, Reproduces
  <2>2. pc \in Playing
    BY <1>1, <2>1 DEF TapeInv, Typed, Opened, Opening, Playing
  <2>3. IsTape(tape) /\ IsTape(first.tape) /\ source \in {"csv", "parquet", "simulator"}
    BY <1>1, <2>1 DEF TapeInv, Typed, Kept
  <2>4. CASE source # "simulator"
    <3>1. Settled(source) /\ source \in {"csv", "parquet"}
      BY <2>3, <2>4 DEF Settled
    <3>2. /\ IsTapeOf(source, identity, tape) /\ identity = first.identity
          /\ IsTapeOf(source, first.identity, first.tape)
          /\ IsIdentity(identity) /\ identity # <<>>
      BY <1>1, <2>1, <2>2, <2>4, <3>1 DEF TapeInv, Told, Kept, NoPin
    <3>3. tape = first.tape
      BY <2>3, <3>1, <3>2, SameTapes
    <3>4. QED
      BY <3>2, <3>3
  <2>5. CASE source = "simulator"
    <3>1. /\ IsDrainOf(walk, tape) /\ Len(tape) = Len(walk) /\ identity = TapeSha256(tape)
          /\ first.identity = TapeSha256(first.tape)
          /\ \E seed \in DOMAIN Walks : IsDrainOf(Walks[seed], first.tape)
      BY <1>1, <2>1, <2>2, <2>5 DEF TapeInv, Walked, Kept
    <3>2. identity = first.identity => tape = first.tape
      <4>1. /\ \A i \in 1..Len(tape) : IsSnapshot(tape[i])
            /\ \A i \in 1..Len(first.tape) : IsSnapshot(first.tape[i])
        BY <2>3, <3>1, DrainSnapshots
      <4>2. QED
        BY <2>3, <3>1, <4>1, SameHash
    <3>3. tape = first.tape => identity = first.identity
      BY <3>1
    <3>4. server # "old" => tape = first.tape
      <4>1. SUFFICES ASSUME server # "old" PROVE tape = first.tape
        OBVIOUS
      <4>2. IsDrainOf(walk, first.tape) /\ Len(first.tape) = Len(walk)
        BY <1>1, <2>1, <2>2, <2>5, <4>1 DEF TapeInv, Walked, Kept, Playing
      <4>3. QED
        BY <2>3, <3>1, <4>2, SameDrains
    <3>5. QED
      BY <2>5, <3>2, <3>3, <3>4
  <2>6. QED
    BY <2>4, <2>5
<1>2. QED
  BY <1>1, TapeInvAlways, PTL

-----------------------------------------------------------------------------
(* The groups of a Parquet file, one after another.                        *)

\* Which of the starts one is.
RankOf(rows, i) == Cardinality({j \in Starts(rows) : j <= i})

\* The starts are ranked in their order.
LEMMA StartRanks ==
  ASSUME NEW rows, IsList(rows)
  PROVE  /\ \A i \in Starts(rows) :
              i \in 1..Len(rows) /\ RankOf(rows, i) \in 1..Cardinality(Starts(rows))
         /\ \A i, j \in Starts(rows) : i < j => RankOf(rows, i) < RankOf(rows, j)
<1> DEFINE S == Starts(rows)
           f == [x \in S |-> x]
<1>1. IsFiniteSet(S) /\ \A i \in S : i \in 1..Len(rows) /\ i \in Int
  BY StartsInOrder, ListIsSeq DEF Starts
<1>2. \A i \in S : f[i] = i /\ RankOf(rows, i) = Cardinality(UpTo(S, f, i))
  <2>1. \A i \in S : {j \in S : j <= i} = UpTo(S, f, i)
    BY DEF UpTo
  <2>2. QED
    BY <2>1 DEF RankOf
<1> HIDE DEF S, f
<1>3. /\ \A i \in S : Cardinality(UpTo(S, f, i)) \in 1..Cardinality(S)
      /\ \A i, j \in S : f[i] < f[j] =>
           Cardinality(UpTo(S, f, i)) < Cardinality(UpTo(S, f, j))
  BY <1>1, <1>2, Places
<1>4. QED
  BY <1>1, <1>2, <1>3 DEF S

\* A group ends where the next one starts, the last one with the file.
LEMMA GroupsInOrder ==
  ASSUME NEW rows, IsList(rows), NEW r \in 1..Cardinality(Starts(rows))
  PROVE  LET i == StartAt(rows, r)
             group == GroupAt(rows, i)
         IN  /\ i \in 1..Len(rows) /\ IsList(group) /\ Len(group) \in Nat /\ Len(group) > 0
             /\ \A k \in 1..Len(group) : i + k - 1 \in 1..Len(rows) /\ group[k] = rows[i + k - 1]
             /\ r < Cardinality(Starts(rows)) => StartAt(rows, r + 1) = i + Len(group)
             /\ r = Cardinality(Starts(rows)) => Len(rows) + 1 = i + Len(group)
<1> DEFINE S == Starts(rows)
           m == Cardinality(S)
           i == StartAt(rows, r)
           group == GroupAt(rows, i)
<1>1. m \in Nat /\ \A q \in 1..m : StartAt(rows, q) \in S /\ RankOf(rows, StartAt(rows, q)) = q
  BY StartsInOrder DEF RankOf
<1>2. /\ \A x \in S : x \in 1..Len(rows) /\ RankOf(rows, x) \in 1..m
      /\ \A x, y \in S : x < y => RankOf(rows, x) < RankOf(rows, y)
  BY StartRanks
<1>3. i \in S /\ RankOf(rows, i) = r /\ i \in 1..Len(rows) /\ Len(rows) \in Nat
  BY <1>1, <1>2, ListIsSeq
<1>4. PICK stop \in i..Len(rows) :
        /\ group = [k \in 1..(stop - i + 1) |-> rows[i + k - 1]]
        /\ IsList(group) /\ Len(group) = stop - i + 1
        /\ \A j \in (i + 1)..stop : j \notin S
        /\ stop = Len(rows) \/ stop + 1 \in S
  BY <1>3, GroupRows
<1> HIDE DEF S, m, i, group
<1>5. /\ Len(group) \in Nat /\ Len(group) > 0 /\ i + Len(group) = stop + 1 /\ stop \in Int
      /\ \A k \in 1..Len(group) : i + k - 1 \in 1..Len(rows) /\ group[k] = rows[i + k - 1]
  BY <1>3, <1>4
<1>6. ASSUME r < m PROVE StartAt(rows, r + 1) = stop + 1
  <2> DEFINE a == StartAt(rows, r + 1)
  <2>1. r \in Int /\ r + 1 \in 1..m
    BY <1>1, <1>6 DEF m, S
  <2>2. a \in S /\ RankOf(rows, a) = r + 1 /\ a \in 1..Len(rows)
    BY <1>1, <1>2, <2>1
  <2> HIDE DEF a
  <2>3. a > i
    <3>1. ASSUME a < i PROVE FALSE
      BY <1>2, <1>3, <2>1, <2>2, <3>1
    <3>2. a # i
      BY <1>3, <2>1, <2>2
    <3>3. QED
      BY <1>3, <2>2, <3>1, <3>2
  <2>4. a > stop
    BY <1>3, <1>4, <1>5, <2>2, <2>3
  <2>5. stop + 1 \in S
    BY <1>4, <1>5, <2>2, <2>4
  <2>6. ASSUME stop + 1 < a PROVE FALSE
    <3>1. RankOf(rows, stop + 1) < r + 1
      BY <1>2, <2>2, <2>5, <2>6
    <3>2. r < RankOf(rows, stop + 1)
      BY <1>2, <1>3, <1>4, <2>5
    <3>3. RankOf(rows, stop + 1) \in Int
      BY <1>2, <2>5
    <3>4. QED
      BY <2>1, <3>1, <3>2, <3>3
  <2>7. a = stop + 1
    BY <1>5, <2>2, <2>4, <2>6
  <2>8. QED
    BY <2>7 DEF a
<1>7. ASSUME r = m PROVE stop = Len(rows)
  <2>1. ASSUME stop + 1 \in S PROVE FALSE
    <3>1. r < RankOf(rows, stop + 1) /\ RankOf(rows, stop + 1) \in 1..m
      BY <1>2, <1>3, <1>4, <2>1
    <3>2. QED
      BY <1>1, <1>7, <3>1
  <2>2. QED
    BY <1>4, <2>1
<1>8. QED
  BY <1>3, <1>4, <1>5, <1>6, <1>7 DEF S, m, i, group

\* A row of a file is in one of its groups.
LEMMA RowInGroup ==
  ASSUME NEW rows, IsList(rows), NEW x \in 1..Len(rows)
  PROVE  \E r \in 1..Cardinality(Starts(rows)) :
           \E k \in 1..Len(GroupAt(rows, StartAt(rows, r))) :
             GroupAt(rows, StartAt(rows, r))[k] = rows[x]
<1> DEFINE m == Cardinality(Starts(rows))
           From(r) == StartAt(rows, r)
           group(r) == GroupAt(rows, StartAt(rows, r))
           In(r) == \E k \in 1..Len(group(r)) : group(r)[k] = rows[x]
           P == {q \in Nat : q > 0 /\ q <= m /\ (\A r \in 1..q : ~In(r))
                               => x >= From(q) + Len(group(q))}
<1>1. \A r \in 1..m :
        /\ From(r) \in 1..Len(rows) /\ Len(group(r)) \in Nat
        /\ \A k \in 1..Len(group(r)) : group(r)[k] = rows[From(r) + k - 1]
        /\ r < m => From(r + 1) = From(r) + Len(group(r))
        /\ r = m => Len(rows) + 1 = From(r) + Len(group(r))
  BY GroupsInOrder
<1>2. m \in Nat /\ (1 \in 1..m => From(1) = 1)
  BY StartsInOrder
<1>3. Len(rows) \in Nat /\ 1 \in Starts(rows)
  <2>1. Len(rows) \in Nat
    BY ListIsSeq
  <2>2. rows # <<>>
    BY <2>1, NoList
  <2>3. QED
    BY <2>1, <2>2, StartsInOrder
<1>4. m > 0
  <2>1. RankOf(rows, 1) \in 1..m
    BY <1>3, StartRanks
  <2>2. QED
    BY <1>2, <2>1
<1> HIDE DEF m, From, group
<1>5. ASSUME NEW r \in 1..m, ~In(r), x >= From(r) PROVE x >= From(r) + Len(group(r))
  <2>1. SUFFICES ASSUME x < From(r) + Len(group(r)) PROVE FALSE
    BY <1>1
  <2>2. x - From(r) + 1 \in 1..Len(group(r)) /\ From(r) + (x - From(r) + 1) - 1 = x
    BY <1>1, <1>5, <2>1
  <2>3. group(r)[x - From(r) + 1] = rows[x]
    BY <1>1, <2>2
  <2>4. QED
    BY <1>5, <2>2, <2>3
<1>6. 0 \in P
  OBVIOUS
<1>7. ASSUME NEW q \in Nat, q \in P PROVE q + 1 \in P
  <2>1. SUFFICES ASSUME q + 1 <= m, \A r \in 1..(q + 1) : ~In(r)
                 PROVE  x >= From(q + 1) + Len(group(q + 1))
    OBVIOUS
  <2>2. q + 1 \in 1..m /\ ~In(q + 1)
    BY <1>2, <2>1
  <2>3. x >= From(q + 1)
    <3>1. CASE q = 0
      BY <1>2, <2>2, <3>1
    <3>2. CASE q # 0
      <4>1. q \in 1..m /\ q < m
        BY <1>2, <2>1, <3>2
      <4>2. \A r \in 1..q : ~In(r)
        BY <2>1
      <4>3. x >= From(q) + Len(group(q))
        BY <1>2, <1>7, <4>1, <4>2
      <4>4. QED
        BY <1>1, <4>1, <4>3
    <3>3. QED
      BY <3>1, <3>2
  <2>4. QED
    BY <1>5, <2>2, <2>3
<1>8. Nat \subseteq P
  <2> HIDE DEF P
  <2>1. QED
    BY <1>6, <1>7, SetInduction
<1>9. \E r \in 1..m : In(r)
  <2>1. SUFFICES ASSUME \A r \in 1..m : ~In(r) PROVE FALSE
    OBVIOUS
  <2>2. m \in P /\ m \in 1..m
    BY <1>2, <1>4, <1>8
  <2>3. x >= From(m) + Len(group(m))
    BY <1>2, <1>4, <2>1, <2>2
  <2>4. Len(rows) + 1 = From(m) + Len(group(m))
    BY <1>1, <2>2
  <2>5. QED
    BY <1>3, <2>3, <2>4
<1>10. QED
  BY <1>9 DEF m, group

-----------------------------------------------------------------------------
(* The quotes of a snapshot.                                               *)

\* A snapshot has a quote of each raw one and no other.
LEMMA QuotesAre ==
  ASSUME NEW meta, NEW anchor, NEW raw, IsList(raw),
         RawQuotesToSnapshot(meta, anchor, raw) # Rejected
  PROVE  LET s == RawQuotesToSnapshot(meta, anchor, raw)
         IN  /\ s.meta = meta /\ InstrumentOk(meta)
             /\ \A i \in 1..Len(raw) : Accepts(raw[i], meta.tick)
             /\ Cardinality(DOMAIN s.quotes) = Len(raw)
             /\ \A i \in 1..Len(raw) :
                  /\ KeyOf(raw[i], anchor) \in DOMAIN s.quotes
                  /\ s.quotes[KeyOf(raw[i], anchor)] = QuoteView(raw[i], meta.tick)
             /\ \A key \in DOMAIN s.quotes : \E i \in 1..Len(raw) :
                  /\ key = KeyOf(raw[i], anchor)
                  /\ s.quotes[key] = QuoteView(raw[i], meta.tick)
<1> DEFINE s == RawQuotesToSnapshot(meta, anchor, raw)
           D == 1..Len(raw)
           keys == {KeyOf(raw[i], anchor) : i \in DOMAIN raw}
           of == [i \in D |-> KeyOf(raw[i], anchor)]
           At(key) == CHOOSE i \in DOMAIN raw : KeyOf(raw[i], anchor) = key
<1>1. Len(raw) \in Nat /\ DOMAIN raw = D
  BY ListIsSeq
<1>2. /\ InstrumentOk(meta) /\ \A i \in D : Accepts(raw[i], meta.tick)
      /\ Cardinality(keys) = Len(raw)
      /\ s.meta = meta /\ s.quotes = [key \in keys |-> QuoteView(raw[At(key)], meta.tick)]
  <2>1. PICK kept : kept = s
    OBVIOUS
  <2>2. KeepsRaw(kept, meta, anchor, raw)
    BY <2>1, RawKept
  <2>3. /\ InstrumentOk(meta) /\ \A i \in DOMAIN raw : Accepts(raw[i], meta.tick)
        /\ Cardinality(keys) = Len(raw) /\ kept.meta = meta
        /\ kept.quotes = [key \in keys |-> QuoteView(raw[At(key)], meta.tick)]
    BY <2>2 DEF KeepsRaw
  <2>4. QED
    BY <1>1, <2>1, <2>3
<1>3. of \in Surjection(D, keys)
  BY <1>1 DEF Surjection
<1>4. IsFiniteSet(D) /\ Cardinality(D) = Len(raw)
  <2>1. PICK n \in Nat : n = Len(raw)
    BY <1>1
  <2>2. IsFiniteSet(1..n) /\ Cardinality(1..n) = n
    BY FS_Interval
  <2>3. QED
    BY <2>1, <2>2
<1>5. of \in Injection(D, keys)
  <2> HIDE DEF of, keys, D
  <2>1. QED
    BY <1>2, <1>3, <1>4, FS_Surjection
<1>6. \A i, j \in D : of[i] = of[j] => i = j
  <2> HIDE DEF of, keys, D
  <2>1. QED
    BY <1>5 DEF Injection, IsInjective
<1>7. \A i \in D : of[i] = KeyOf(raw[i], anchor) /\ of[i] \in keys
  BY <1>1
<1>8. \A key \in keys : At(key) \in D /\ of[At(key)] = key
  BY <1>1
<1>9. \A i \in D : At(of[i]) = i
  <2> HIDE DEF of, keys, D, At
  <2>1. QED
    BY <1>6, <1>7, <1>8
<1> HIDE DEF s, of, keys, At
<1>10. /\ DOMAIN s.quotes = keys
       /\ \A key \in keys : s.quotes[key] = QuoteView(raw[At(key)], meta.tick)
  BY <1>2
<1>11. \A i \in D : of[i] \in DOMAIN s.quotes /\ s.quotes[of[i]] = QuoteView(raw[i], meta.tick)
  BY <1>7, <1>9, <1>10
<1>12. \A key \in DOMAIN s.quotes : \E i \in D :
         key = of[i] /\ s.quotes[key] = QuoteView(raw[i], meta.tick)
  BY <1>8, <1>10
<1>13. QED
  BY <1>2, <1>7, <1>10, <1>11, <1>12 DEF s

\* A raw quote in whole cents.
IsPriced(raw) == {raw.strike, raw.bid, raw.ask} \subseteq Int /\ raw.style \in {"Call", "Put"}

\* What is on the tick is a number of ticks.
LEMMA Ticks ==
  ASSUME NEW v \in Int, NEW tick \in Nat, tick # 0
  PROVE  \E j \in Int : v - (v % tick) = tick * j /\ v % tick \in 0..(tick - 1)
<1>1. v = tick * (v \div tick) + (v % tick) /\ v % tick \in 0..(tick - 1) /\ v \div tick \in Int
  OBVIOUS
<1>2. QED
  BY <1>1

\* A number of ticks is on the tick.
LEMMA OnTick ==
  ASSUME NEW j \in Int, NEW tick \in Nat, tick # 0, NEW v \in Int, v = tick * j
  PROVE  v % tick = 0
<1>1. PICK k \in Int : v - (v % tick) = tick * k /\ v % tick \in 0..(tick - 1)
  BY Ticks
<1>2. PICK r : r = v % tick
  OBVIOUS
<1>3. tick * (j - k) = r /\ r \in 0..(tick - 1)
  BY <1>1, <1>2
<1>4. ASSUME j - k >= 1 PROVE FALSE
  <2>1. tick * (j - k) >= tick
    BY <1>4
  <2>2. QED
    BY <1>3, <2>1
<1>5. ASSUME j - k <= -1 PROVE FALSE
  <2>1. tick * (j - k) <= -tick
    BY <1>5
  <2>2. QED
    BY <1>3, <2>1
<1>6. j - k = 0
  BY <1>4, <1>5
<1>7. QED
  BY <1>2, <1>3, <1>6

\* The mid of a quote that is taken is on the tick and in the spread.
LEMMA MidInSpread ==
  ASSUME NEW raw, IsPriced(raw), NEW tick \in Nat, tick # 0, Accepts(raw, tick)
  PROVE  /\ Mid(raw.bid, raw.ask, tick) \in raw.bid..raw.ask
         /\ Mid(raw.bid, raw.ask, tick) % tick = 0
<1>1. PICK bid, ask : bid = raw.bid /\ ask = raw.ask
  OBVIOUS
<1>2. bid \in Int /\ ask \in Int /\ bid <= ask /\ bid % tick = 0
  BY <1>1 DEF IsPriced, Accepts, TickAligned
<1>3. PICK v : v = (bid + ask) \div 2
  OBVIOUS
<1>4. v \in Int /\ bid <= v /\ v <= ask
  BY <1>2, <1>3
<1>5. PICK j \in Int : v - (v % tick) = tick * j /\ v % tick \in 0..(tick - 1)
  BY <1>4, Ticks
<1>6. PICK k \in Int : bid - (bid % tick) = tick * k
  BY <1>2, Ticks
<1>7. bid = tick * k
  BY <1>2, <1>6
<1>8. k <= j
  <2>1. SUFFICES ASSUME j + 1 <= k PROVE FALSE
    OBVIOUS
  <2>2. tick * (j + 1) <= tick * k
    BY <2>1
  <2>3. tick * (j + 1) = tick * j + tick
    OBVIOUS
  <2>4. PICK a, b : a = tick * j /\ b = tick * k /\ a \in Int /\ b \in Int
    OBVIOUS
  <2>5. v < a + tick /\ a + tick <= b /\ b <= v
    BY <1>4, <1>5, <1>7, <2>2, <2>3, <2>4
  <2>6. QED
    BY <1>4, <2>4, <2>5
<1>9. tick * k <= tick * j
  BY <1>8
<1>10. PICK mid : mid = v - (v % tick)
  OBVIOUS
<1>11. mid \in bid..ask
  <2>1. PICK a, b : a = tick * j /\ b = tick * k /\ a \in Int /\ b \in Int
    OBVIOUS
  <2>2. QED
    BY <1>2, <1>4, <1>5, <1>7, <1>9, <1>10, <2>1
<1>12. mid % tick = 0
  BY <1>4, <1>5, <1>10, OnTick
<1>13. Mid(raw.bid, raw.ask, tick) = mid
  BY <1>1, <1>3, <1>10 DEF Mid, FloorToTick
<1>14. QED
  BY <1>1, <1>11, <1>12, <1>13

\* What TapeIsValid asks of each quote.
IsFair(snapshot) ==
  LET quotes == snapshot.quotes
      chain == SnapshotToOptionChain(snapshot)
  IN  \A key \in DOMAIN quotes :
        /\ quotes[key].mid \in quotes[key].bid..quotes[key].ask
        /\ quotes[key].mid % snapshot.meta.tick = 0
        /\ chain # Rejected =>
             <<quotes[key].bid, quotes[key].ask>>
               \in IF key[3] = "Call" THEN chain[key[2]].call ELSE chain[key[2]].put

\* A chain has the quotes of its snapshot.
LEMMA InChain ==
  ASSUME NEW s, SnapshotToOptionChain(s) # Rejected, NEW key \in DOMAIN s.quotes,
         key[3] \in {"Call", "Put"}
  PROVE  LET chain == SnapshotToOptionChain(s)
         IN  <<s.quotes[key].bid, s.quotes[key].ask>>
               \in IF key[3] = "Call" THEN chain[key[2]].call ELSE chain[key[2]].put
<1> DEFINE keys == DOMAIN s.quotes
           Half(strike, style) == {s.quotes[x] : x \in {k \in keys : k[2] = strike /\ k[3] = style}}
           Pairs(strike, style) == {<<q.bid, q.ask>> : q \in Half(strike, style)}
           chain == SnapshotToOptionChain(s)
<1>1. chain = [strike \in {k[2] : k \in keys} |->
                [call |-> Pairs(strike, "Call"), put |-> Pairs(strike, "Put")]]
  BY DEF SnapshotToOptionChain
<1>2. <<s.quotes[key].bid, s.quotes[key].ask>> \in Pairs(key[2], key[3])
  OBVIOUS
<1> HIDE DEF Pairs, chain
<1>3. chain[key[2]] = [call |-> Pairs(key[2], "Call"), put |-> Pairs(key[2], "Put")]
  BY <1>1
<1>4. QED
  BY <1>2, <1>3 DEF chain

\* The quotes of a snapshot are fair if the raw ones are in whole cents.
LEMMA RawFair ==
  ASSUME NEW meta, NEW anchor, NEW raw, IsList(raw), meta.tick \in Nat,
         \A i \in 1..Len(raw) : IsPriced(raw[i]),
         RawQuotesToSnapshot(meta, anchor, raw) # Rejected
  PROVE  IsFair(RawQuotesToSnapshot(meta, anchor, raw))
<1> DEFINE s == RawQuotesToSnapshot(meta, anchor, raw)
<1>1. /\ s.meta = meta /\ InstrumentOk(meta)
      /\ \A i \in 1..Len(raw) : Accepts(raw[i], meta.tick)
      /\ \A key \in DOMAIN s.quotes : \E i \in 1..Len(raw) :
           key = KeyOf(raw[i], anchor) /\ s.quotes[key] = QuoteView(raw[i], meta.tick)
  BY QuotesAre
<1> HIDE DEF s
<1>2. SUFFICES ASSUME NEW key \in DOMAIN s.quotes
               PROVE  /\ s.quotes[key].mid \in s.quotes[key].bid..s.quotes[key].ask
                      /\ s.quotes[key].mid % s.meta.tick = 0
                      /\ SnapshotToOptionChain(s) # Rejected =>
                           <<s.quotes[key].bid, s.quotes[key].ask>>
                             \in IF key[3] = "Call" THEN SnapshotToOptionChain(s)[key[2]].call
                                 ELSE SnapshotToOptionChain(s)[key[2]].put
  BY <1>2 DEF s, IsFair
<1>3. PICK i \in 1..Len(raw) :
        key = KeyOf(raw[i], anchor) /\ s.quotes[key] = QuoteView(raw[i], meta.tick)
  BY <1>1
<1>4. /\ s.quotes[key].mid = Mid(raw[i].bid, raw[i].ask, meta.tick)
      /\ s.quotes[key].bid = raw[i].bid /\ s.quotes[key].ask = raw[i].ask
  BY <1>3 DEF QuoteView
<1>5. IsPriced(raw[i]) /\ Accepts(raw[i], meta.tick) /\ meta.tick # 0
  BY <1>1 DEF InstrumentOk
<1>6. /\ s.quotes[key].mid \in s.quotes[key].bid..s.quotes[key].ask
      /\ s.quotes[key].mid % s.meta.tick = 0
  BY <1>1, <1>4, <1>5, MidInSpread
<1>7. key[3] \in {"Call", "Put"}
  BY <1>3, <1>5 DEF KeyOf, IsPriced
<1>8. QED
  BY <1>6, <1>7, InChain

-----------------------------------------------------------------------------
(* The rows of a file and their quotes.                                    *)

\* A row that is read: whole numbers, and Greeks that may be absent.
NumberColumns == {"strike", "expiration", "bid", "ask", "tick_size"}
IsRow(row) ==
  /\ \A c \in NumberColumns : row[c] = <<"int", row[c][2]>> /\ row[c][2] \in Int
  /\ row.tick_size[2] \in Nat
  /\ \A c \in Greeks : IsCell(Cell(row, c), c) /\ Cell(row, c)[1] \in {"int", "real", "nan", "none"}

\* A cell that is read is what it is written as.
LEMMA CellRead ==
  ASSUME NEW kind \in {"csv", "parquet"}, NEW file, IsContent(file), Legible(kind, file),
         NEW i \in 2..Len(file), NEW c \in CsvColumns
  PROVE  /\ Readable(Cell(file[i], c), Columns[c])
         /\ IsCell(Cell(file[i], c), c)
         /\ Cell(file[i], c) # None => Cell(file[i], c) = file[i][c]
<1>1. c \in DOMAIN Columns
  BY DEF CsvColumns
<1>2. Readable(Cell(file[i], c), Columns[c])
  BY <1>1 DEF Legible
<1>3. c \in DOMAIN file[i] => IsCell(file[i][c], c)
  BY DEF IsContent
<1>4. IsCell(None, c)
  BY DEF IsCell
<1>5. QED
  BY <1>2, <1>3, <1>4 DEF Cell

\* A row of a file that is taken is read.
LEMMA RowRead ==
  ASSUME NEW kind \in {"csv", "parquet"}, NEW file, IsContent(file), Legible(kind, file),
         NEW i \in 2..Len(file)
  PROVE  IsRow(file[i])
<1>1. ASSUME NEW c \in NumberColumns
      PROVE  /\ file[i][c] = <<"int", file[i][c][2]>> /\ file[i][c][2] \in Int
             /\ c = "tick_size" => file[i][c][2] \in Nat
  <2>1. c \in CsvColumns /\ Columns[c] \in {"cents", "instant"} /\ c # "ts"
        /\ (c = "tick_size" => Columns[c] = "cents")
    BY <1>1 DEF NumberColumns, CsvColumns, Columns
  <2>2. PICK cell : cell = Cell(file[i], c)
    OBVIOUS
  <2>3. Readable(cell, Columns[c]) /\ IsCell(cell, c) /\ (cell # None => cell = file[i][c])
    BY <2>1, <2>2, CellRead
  <2>4. cell[1] = "int" /\ (c = "tick_size" => cell[2] >= 0)
    BY <2>1, <2>3 DEF Readable
  <2>5. cell = <<"int", cell[2]>> /\ cell[2] \in Int
    BY <2>1, <2>3, <2>4 DEF IsCell, None
  <2>6. cell # None
    BY <2>4 DEF None
  <2>7. QED
    BY <2>3, <2>4, <2>5, <2>6
<1>2. ASSUME NEW c \in Greeks
      PROVE  /\ IsCell(Cell(file[i], c), c)
             /\ Cell(file[i], c)[1] \in {"int", "real", "nan", "none"}
  <2>1. c \in CsvColumns /\ Columns[c] = "greek"
    BY <1>2 DEF Greeks, CsvColumns, Columns
  <2>2. Readable(Cell(file[i], c), "greek") /\ IsCell(Cell(file[i], c), c)
    BY <2>1, CellRead
  <2>3. QED
    BY <2>2 DEF Readable
<1>3. file[i].tick_size[2] \in Nat
  BY <1>1 DEF NumberColumns
<1>4. QED
  BY <1>1, <1>2, <1>3 DEF IsRow

\* A Greek is zero if it is absent or is written as zero.
LEMMA GreekTold ==
  ASSUME NEW row, IsRow(row), NEW c \in Greeks
  PROVE  Real(Cell(row, c)) = Zero <=> Cell(row, c) \in {None, <<"int", 0>>, <<"real", Zero>>}
<1>1. PICK cell : cell = Cell(row, c)
  OBVIOUS
<1>2. IsCell(cell, c) /\ cell[1] \in {"int", "real", "nan", "none"} /\ c # "ts"
  BY <1>1 DEF IsRow, Greeks
<1>3. CASE cell[1] = "none"
  BY <1>1, <1>2, <1>3 DEF IsCell, Real, None
<1>4. CASE cell[1] = "nan"
  BY <1>1, <1>2, <1>4 DEF IsCell, Real, None, NaN, Zero
<1>5. CASE cell[1] = "int"
  <2>1. cell = <<"int", cell[2]>> /\ cell[2] \in Int
    BY <1>2, <1>5 DEF IsCell, None
  <2>2. Real(cell) = <<cell[2], 1>>
    BY <1>5 DEF Real
  <2>3. QED
    BY <1>1, <2>1, <2>2 DEF None, Zero
<1>6. CASE cell[1] = "real"
  <2>1. cell = <<"real", cell[2]>>
    BY <1>2, <1>6 DEF IsCell, None
  <2>2. Real(cell) = cell[2]
    BY <1>6 DEF Real
  <2>3. QED
    BY <1>1, <2>1, <2>2 DEF None
<1>7. QED
  BY <1>2, <1>3, <1>4, <1>5, <1>6

\* The quotes of a group are those of its rows, each as it is written.
LEMMA GroupRead ==
  ASSUME NEW rows, IsList(rows), \A i \in 1..Len(rows) : IsRow(rows[i]),
         NEW step, NEW anchor, Group(rows, step, anchor) # Rejected
  PROVE  /\ IsFair(Group(rows, step, anchor))
         /\ Cardinality(DOMAIN Group(rows, step, anchor).quotes) = Len(rows)
         /\ \A i \in 1..Len(rows) : Quoted(rows[i], Group(rows, step, anchor))
<1> DEFINE raw == Raws(rows)
           meta == HeadOf(rows[1], step)
           s == Group(rows, step, anchor)
<1>1. /\ s = RawQuotesToSnapshot(meta, anchor, raw) /\ rows # <<>> /\ s.meta = meta
      /\ \A i \in DOMAIN rows : HeadOf(rows[i], step) = meta
  BY GroupKept
<1>2. Len(rows) \in Nat /\ DOMAIN rows = 1..Len(rows) /\ 1 \in 1..Len(rows)
  BY <1>1, ListIsSeq, NoList
<1>3. raw = [i \in 1..Len(rows) |-> RawQuote(rows[i])]
  BY <1>2, RawsAre
<1> HIDE DEF raw, s, meta
<1>4. IsList(raw) /\ Len(raw) = Len(rows)
  <2>1. raw = [i \in 1..Len(rows) |-> raw[i]]
    BY <1>3
  <2>2. QED
    BY <1>2, <2>1, ListOf
<1>5. ASSUME NEW i \in 1..Len(rows)
      PROVE  /\ raw[i] = RawQuote(rows[i]) /\ IsPriced(raw[i])
             /\ raw[i].strike = rows[i].strike[2] /\ raw[i].bid = rows[i].bid[2]
             /\ raw[i].ask = rows[i].ask[2]
             /\ raw[i].expiration = <<1, rows[i].expiration[2]>>
             /\ \A c \in Greeks : raw[i].analytics[c] = Real(Cell(rows[i], c))
  <2>1. raw[i] = RawQuote(rows[i])
    BY <1>3
  <2>2. /\ raw[i].strike = rows[i].strike[2] /\ raw[i].bid = rows[i].bid[2]
        /\ raw[i].ask = rows[i].ask[2] /\ raw[i].style \in {"Call", "Put"}
        /\ raw[i].expiration = <<1, rows[i].expiration[2]>>
    BY <2>1 DEF RawQuote
  <2>3. \A c \in Greeks : raw[i].analytics[c] = Real(Cell(rows[i], c))
    <3>1. raw[i].analytics = [a \in Analytics |-> Real(Cell(rows[i], a))]
      BY <2>1 DEF RawQuote
    <3>2. Greeks \subseteq Analytics
      BY DEF Greeks, Analytics
    <3>3. QED
      BY <3>1, <3>2
  <2>4. IsPriced(raw[i])
    BY <2>2 DEF IsPriced, IsRow, NumberColumns
  <2>5. QED
    BY <2>1, <2>2, <2>3, <2>4
<1>6. meta.tick \in Nat
  BY <1>2 DEF meta, HeadOf, IsRow
<1>7. IsFair(s)
  BY <1>1, <1>4, <1>5, <1>6, RawFair DEF s
<1>8. /\ Cardinality(DOMAIN s.quotes) = Len(rows)
      /\ \A i \in 1..Len(rows) :
           /\ KeyOf(raw[i], anchor) \in DOMAIN s.quotes
           /\ s.quotes[KeyOf(raw[i], anchor)] = QuoteView(raw[i], meta.tick)
  <2>1. RawQuotesToSnapshot(meta, anchor, raw) # Rejected
    BY <1>1 DEF s
  <2>2. QED
    BY <1>1, <1>4, <2>1, QuotesAre
<1>9. ASSUME NEW i \in 1..Len(rows) PROVE Quoted(rows[i], s)
  <2>1. HeadOf(rows[i], s.meta.step) = s.meta
    <3>1. meta.step = step
      BY DEF meta, HeadOf
    <3>2. QED
      BY <1>1, <1>2, <3>1
  <2>2. PICK key \in DOMAIN s.quotes :
          key = KeyOf(raw[i], anchor) /\ s.quotes[key] = QuoteView(raw[i], meta.tick)
    BY <1>8
  <2>3. key[1] = rows[i].expiration[2] /\ key[2] = rows[i].strike[2]
    BY <1>5, <2>2 DEF KeyOf, ResolveExpiration
  <2>4. PICK q : q = s.quotes[key]
    OBVIOUS
  <2>5. q.bid = rows[i].bid[2] /\ q.ask = rows[i].ask[2] /\ q.analytics = raw[i].analytics
    BY <1>5, <2>2, <2>4 DEF QuoteView
  <2>6. /\ rows[i].strike = <<"int", key[2]>> /\ rows[i].expiration = <<"int", key[1]>>
        /\ rows[i].bid = <<"int", q.bid>> /\ rows[i].ask = <<"int", q.ask>>
    BY <2>3, <2>5 DEF IsRow, NumberColumns
  <2>7. ASSUME NEW c \in Greeks
        PROVE  q.analytics[c] = Zero
                 <=> Cell(rows[i], c) \in {None, <<"int", 0>>, <<"real", Zero>>}
    <3>1. q.analytics[c] = Real(Cell(rows[i], c))
      BY <1>5, <2>5
    <3>2. QED
      BY <3>1, GreekTold
  <2>8. QED
    BY <2>1, <2>4, <2>6, <2>7 DEF Quoted
<1>10. QED
  BY <1>7, <1>8, <1>9 DEF s

-----------------------------------------------------------------------------
(* The snapshots of a file have its rows.                                  *)

EachQuotes(s) == [i \in 1..Len(s) |-> Cardinality(DOMAIN s[i].quotes)]

\* What TapeIsValid asks of the snapshots of a file.
HasRows(file, s) ==
  /\ \A n \in 1..Len(s) : IsFair(s[n])
  /\ \A i \in 2..Len(file) : \E n \in 1..Len(s) : Quoted(file[i], s[n])
  /\ \A n \in 1..Len(s) : EachQuotes(s)[n] \in Nat
  /\ SumFunctionOnSet(EachQuotes(s), 1..Len(s)) = Len(file) - 1

\* A sum of one.
LEMMA SumOne ==
  ASSUME NEW f, f[1] \in Nat
  PROVE  SumFunctionOnSet(f, 1..1) = f[1]
<1>1. PICK A : A = {}
  OBVIOUS
<1>2. SumFunctionOnSet(f, A \cup {1}) = SumFunctionOnSet(f, A) + f[1]
  <2>1. IsFiniteSet(A) /\ 1 \notin A /\ Numbers(f, A \cup {1})
    BY <1>1, FS_EmptySet DEF Numbers
  <2>2. QED
    BY <2>1, SumAdd
<1>3. SumFunctionOnSet(f, A) = 0 /\ A \cup {1} = 1..1
  BY <1>1, SumEmpty
<1>4. PICK B : B = A \cup {1}
  OBVIOUS
<1>5. SumFunctionOnSet(f, B) = f[1] /\ B = 1..1
  BY <1>2, <1>3, <1>4
<1>6. QED
  BY <1>5

\* The rows of a file that is taken.
LEMMA FileRows ==
  ASSUME NEW kind \in {"csv", "parquet"}, NEW file, IsContent(file), Legible(kind, file)
  PROVE  /\ IsList(Tail(file)) /\ Len(file) \in Nat /\ Len(Tail(file)) = Len(file) - 1
         /\ Len(Tail(file)) \in Nat
         /\ \A x \in 1..Len(Tail(file)) : IsRow(Tail(file)[x])
         /\ \A i \in 2..Len(file) : i - 1 \in 1..Len(Tail(file)) /\ file[i] = Tail(file)[i - 1]
<1>1. file # <<>>
  BY DEF Legible
<1>2. /\ IsList(Tail(file)) /\ Len(file) \in Nat /\ Len(file) > 0
      /\ Len(Tail(file)) = Len(file) - 1
      /\ \A i \in 1..Len(Tail(file)) : Tail(file)[i] = file[i + 1]
  BY <1>1, RowsOf
<1>3. ASSUME NEW x \in 1..Len(Tail(file)) PROVE IsRow(Tail(file)[x])
  <2>1. x + 1 \in 2..Len(file) /\ Tail(file)[x] = file[x + 1]
    BY <1>2
  <2>2. QED
    BY <2>1, RowRead
<1>4. ASSUME NEW i \in 2..Len(file)
      PROVE  i - 1 \in 1..Len(Tail(file)) /\ file[i] = Tail(file)[i - 1]
  <2>1. i - 1 \in 1..Len(Tail(file)) /\ (i - 1) + 1 = i
    BY <1>2
  <2>2. QED
    BY <1>2, <2>1
<1>5. QED
  BY <1>2, <1>3, <1>4

\* The one snapshot of a CSV file has its rows.
LEMMA CsvRows ==
  ASSUME NEW file, IsContent(file), NEW at, NEW anchor, NEW s,
         s = Snapshots("csv", at, file, anchor), \A i \in DOMAIN s : s[i] # Rejected
  PROVE  HasRows(file, s)
<1>1. Legible("csv", file) /\ s = <<Whole(file, at, anchor)>>
  BY FileKept
<1> DEFINE rows == Tail(file)
           from == FromOf(rows, anchor)
           g == Group(rows, at, from)
<1>2. /\ IsList(rows) /\ Len(file) \in Nat /\ Len(rows) = Len(file) - 1 /\ Len(rows) \in Nat
      /\ \A x \in 1..Len(rows) : IsRow(rows[x])
      /\ \A i \in 2..Len(file) : i - 1 \in 1..Len(rows) /\ file[i] = rows[i - 1]
  BY <1>1, FileRows
<1>3. s = <<g>>
  BY <1>1 DEF Whole
<1> HIDE DEF rows, from
<1>4. Len(s) = 1 /\ s[1] = g /\ g # Rejected
  <2> HIDE DEF g
  <2>1. Len(s) = 1 /\ s[1] = g /\ 1 \in DOMAIN s
    BY <1>3
  <2>2. QED
    BY <2>1
<1>5. /\ IsFair(g) /\ Cardinality(DOMAIN g.quotes) = Len(rows)
      /\ \A x \in 1..Len(rows) : Quoted(rows[x], g)
  BY <1>2, <1>4, GroupRead
<1> HIDE DEF g
<1>6. \A n \in 1..Len(s) : n = 1
  <2>1. 1..Len(s) = 1..1
    BY <1>4
  <2>2. \A n \in 1..1 : n = 1
    OBVIOUS
  <2>3. QED
    BY <2>1, <2>2
<1>7. EachQuotes(s)[1] = Len(rows)
  BY <1>4, <1>5 DEF EachQuotes
<1>8. SumFunctionOnSet(EachQuotes(s), 1..1) = Len(rows)
  <2>1. PICK f : f = EachQuotes(s)
    OBVIOUS
  <2>2. f[1] = Len(rows) /\ f[1] \in Nat
    BY <1>2, <1>7, <2>1
  <2>3. SumFunctionOnSet(f, 1..1) = f[1]
    BY <2>2, SumOne
  <2>4. QED
    BY <2>1, <2>2, <2>3
<1>9. \A i \in 2..Len(file) : Quoted(file[i], s[1])
  BY <1>2, <1>4, <1>5
<1>10. QED
  BY <1>2, <1>4, <1>5, <1>6, <1>7, <1>8, <1>9 DEF HasRows

\* The snapshots of a Parquet file have its rows: the groups fill it, one after another.
LEMMA ParquetRows ==
  ASSUME NEW file, IsContent(file), NEW at, NEW anchor, NEW s,
         s = Snapshots("parquet", at, file, anchor), \A i \in DOMAIN s : s[i] # Rejected,
         s # <<>>
  PROVE  HasRows(file, s)
<1>1. Legible("parquet", file) /\ s = Pieces(file, anchor)
  BY FileKept
<1> DEFINE rows == Tail(file)
           from == FromOf(rows, anchor)
           m == Cardinality(Starts(rows))
           group(r) == GroupAt(rows, StartAt(rows, r))
           Of(r) == Group(group(r), rows[StartAt(rows, r)].step[2], from)
<1>2. /\ IsList(rows) /\ Len(file) \in Nat /\ Len(rows) = Len(file) - 1 /\ Len(rows) \in Nat
      /\ \A x \in 1..Len(rows) : IsRow(rows[x])
      /\ \A i \in 2..Len(file) : i - 1 \in 1..Len(rows) /\ file[i] = rows[i - 1]
  BY <1>1, FileRows
<1>3. s = [r \in 1..m |-> Of(r)]
  BY <1>1 DEF Pieces
<1> HIDE DEF rows, from
<1>4. m \in Nat /\ (1 \in 1..m => StartAt(rows, 1) = 1)
  BY <1>2, StartsInOrder
<1>5. \A r \in 1..m :
        /\ StartAt(rows, r) \in 1..Len(rows)
        /\ IsList(group(r)) /\ Len(group(r)) \in Nat
        /\ \A k \in 1..Len(group(r)) :
             /\ StartAt(rows, r) + k - 1 \in 1..Len(rows)
             /\ group(r)[k] = rows[StartAt(rows, r) + k - 1]
        /\ r < m => StartAt(rows, r + 1) = StartAt(rows, r) + Len(group(r))
        /\ r = m => Len(rows) + 1 = StartAt(rows, r) + Len(group(r))
  BY <1>2, GroupsInOrder
<1>6. \A x \in 1..Len(rows) : \E r \in 1..m : \E k \in 1..Len(group(r)) : group(r)[k] = rows[x]
  BY <1>2, RowInGroup
<1> HIDE DEF m, group
<1>7. IsList(s) /\ Len(s) = m /\ DOMAIN s = 1..m /\ \A r \in 1..m : s[r] = Of(r) /\ s[r] # Rejected
  <2>1. s = [r \in 1..m |-> s[r]]
    BY <1>3
  <2>2. IsList(s) /\ Len(s) = m /\ DOMAIN s = 1..m
    BY <1>4, <2>1, ListOf
  <2>3. QED
    BY <1>3, <2>2
<1>8. ASSUME NEW r \in 1..m
      PROVE  /\ IsFair(s[r]) /\ Cardinality(DOMAIN s[r].quotes) = Len(group(r))
             /\ \A k \in 1..Len(group(r)) : Quoted(group(r)[k], s[r])
  <2>1. \A k \in 1..Len(group(r)) : IsRow(group(r)[k])
    BY <1>2, <1>5
  <2>2. IsList(group(r)) /\ s[r] # Rejected
        /\ s[r] = Group(group(r), rows[StartAt(rows, r)].step[2], from)
    BY <1>5, <1>7
  <2>3. QED
    BY <2>1, <2>2, GroupRead
<1> HIDE DEF Of
<1>9. m # 0
  BY <1>7, NoList
<1>10. PICK f : f = EachQuotes(s)
  OBVIOUS
<1>11. \A r \in 1..m : f[r] = Len(group(r)) /\ f[r] \in Nat
  BY <1>5, <1>7, <1>8, <1>10 DEF EachQuotes
<1> DEFINE P == {q \in Nat : q > 0 /\ q <= m =>
                   SumFunctionOnSet(f, 1..q) = StartAt(rows, q) + Len(group(q)) - 1}
<1>12. ASSUME NEW q \in Nat, q \in P PROVE q + 1 \in P
  <2>1. SUFFICES ASSUME q + 1 <= m
                 PROVE  SumFunctionOnSet(f, 1..(q + 1)) = StartAt(rows, q + 1) + Len(group(q + 1)) - 1
    OBVIOUS
  <2>2. /\ SumFunctionOnSet(f, 1..(q + 1)) = SumFunctionOnSet(f, 1..q) + f[q + 1]
    BY <1>4, <1>11, <2>1, SumNext
  <2>3. q + 1 \in 1..m /\ f[q + 1] = Len(group(q + 1)) /\ Len(group(q + 1)) \in Nat
        /\ StartAt(rows, q + 1) \in Int
    BY <1>4, <1>5, <1>11, <2>1
  <2>4. CASE q = 0
    <3>1. SumFunctionOnSet(f, 1..0) = 0 /\ StartAt(rows, 1) = 1
      BY <1>4, <2>3, <2>4, SumEmpty
    <3>2. QED
      BY <2>2, <2>3, <2>4, <3>1
  <2>5. CASE q # 0
    <3>1. q \in 1..m /\ q < m
      BY <1>4, <2>1, <2>5
    <3>2. SumFunctionOnSet(f, 1..q) = StartAt(rows, q) + Len(group(q)) - 1
      BY <1>4, <1>12, <3>1
    <3>3. StartAt(rows, q + 1) = StartAt(rows, q) + Len(group(q))
      BY <1>5, <3>1
    <3>4. PICK a, b : a = StartAt(rows, q) /\ b = Len(group(q)) /\ a \in Int /\ b \in Int
      BY <1>5, <3>1
    <3>5. QED
      BY <2>2, <2>3, <3>2, <3>3, <3>4
  <2>6. QED
    BY <2>4, <2>5
<1>13. Nat \subseteq P
  <2>1. 0 \in P
    OBVIOUS
  <2> HIDE DEF P
  <2>2. QED
    BY <1>12, <2>1, SetInduction
<1>14. SumFunctionOnSet(f, 1..m) = Len(rows)
  <2>1. m \in P /\ m \in 1..m
    BY <1>4, <1>9, <1>13
  <2>2. SumFunctionOnSet(f, 1..m) = StartAt(rows, m) + Len(group(m)) - 1
    BY <1>4, <1>9, <2>1
  <2>3. Len(rows) + 1 = StartAt(rows, m) + Len(group(m))
    BY <1>5, <2>1
  <2>4. PICK a, b : a = StartAt(rows, m) /\ b = Len(group(m)) /\ a \in Int /\ b \in Int
    BY <1>5, <2>1
  <2>5. QED
    BY <1>2, <2>2, <2>3, <2>4
<1>15. ASSUME NEW i \in 2..Len(file) PROVE \E n \in 1..Len(s) : Quoted(file[i], s[n])
  <2>1. i - 1 \in 1..Len(rows) /\ file[i] = rows[i - 1]
    BY <1>2
  <2>2. PICK r \in 1..m : \E k \in 1..Len(group(r)) : group(r)[k] = rows[i - 1]
    BY <1>6, <2>1
  <2>3. PICK k \in 1..Len(group(r)) : group(r)[k] = rows[i - 1]
    BY <2>2
  <2>4. Quoted(group(r)[k], s[r])
    BY <1>8
  <2>5. QED
    BY <1>7, <2>1, <2>3, <2>4
<1>16. QED
  BY <1>2, <1>7, <1>8, <1>10, <1>11, <1>14, <1>15 DEF HasRows

-----------------------------------------------------------------------------
(* What a tape of files has of them.                                       *)

EachRows(entries) == [i \in 1..Len(entries) |-> Len(entries[i][2]) - 1]

\* What TapeIsValid asks of the tape of an identity.
IsTold(kind, entries, s) ==
  /\ \A n \in 1..Len(s) : IsFair(s[n])
  /\ \A f \in 1..Len(entries) : \A i \in 2..Len(entries[f][2]) :
       \E n \in 1..Len(s) : Quoted(entries[f][2][i], s[n])
  /\ SumFunctionOnSet(EachQuotes(s), 1..Len(s))
       = SumFunctionOnSet(EachRows(entries), 1..Len(entries))

\* A tape of CSV files, each of which has a row.
LEMMA CsvTold ==
  ASSUME NEW entries, IsIdentity(entries), NEW s, IsTape(s), IsTapeOf("csv", entries, s)
  PROVE  /\ IsTold("csv", entries, s)
         /\ Len(entries) > 0 => Len(entries[1][2]) > 1 /\ Tail(entries[1][2])[1] = entries[1][2][2]
<1>1. /\ Len(s) = Len(entries) /\ Len(s) \in Nat /\ IsList(entries)
      /\ \A i \in 1..Len(entries) :
           Snapshots("csv", i - 1, entries[i][2], AnchorAt(i, entries)) = <<s[i]>>
  BY ListIsSeq DEF IsTapeOf, IsTape, IsIdentity
<1>2. ASSUME NEW f \in 1..Len(entries)
      PROVE  /\ HasRows(entries[f][2], <<s[f]>>)
             /\ Tail(entries[f][2]) # <<>> /\ entries[f][2] # <<>> /\ IsContent(entries[f][2])
  <2>1. PICK file, at, anchor : file = entries[f][2] /\ at = f - 1 /\ anchor = AnchorAt(f, entries)
    OBVIOUS
  <2>2. <<s[f]>> = Snapshots("csv", at, file, anchor) /\ IsContent(file)
    BY <1>1, <2>1 DEF IsIdentity
  <2>3. s[f] # Rejected
    BY <1>1 DEF IsTape
  <2>4. PICK t : t = <<s[f]>>
    OBVIOUS
  <2>5. \A i \in DOMAIN t : t[i] # Rejected
    BY <2>3, <2>4
  <2>6. HasRows(file, t)
    BY <2>2, <2>4, <2>5, CsvRows
  <2>7. Legible("csv", file) /\ t = <<Whole(file, at, anchor)>>
    BY <2>2, <2>4, <2>5, FileKept
  <2>8. Whole(file, at, anchor) = s[f]
    BY <2>4, <2>7
  <2>9. Tail(file) # <<>> /\ file # <<>>
    BY <2>3, <2>7, <2>8, GroupKept DEF Whole, Legible
  <2>10. QED
    BY <2>1, <2>2, <2>4, <2>6, <2>9
<1>3. ASSUME NEW f \in 1..Len(entries)
      PROVE  /\ IsFair(s[f]) /\ Cardinality(DOMAIN s[f].quotes) = Len(entries[f][2]) - 1
             /\ Len(entries[f][2]) - 1 \in Nat
             /\ \A i \in 2..Len(entries[f][2]) : Quoted(entries[f][2][i], s[f])
  <2>1. PICK t : t = <<s[f]>>
    OBVIOUS
  <2>2. Len(t) = 1 /\ t[1] = s[f]
    BY <2>1
  <2>3. PICK file : file = entries[f][2]
    OBVIOUS
  <2>4. HasRows(file, t)
    BY <1>2, <2>1, <2>3
  <2>5. 1..Len(t) = 1..1 /\ \A n \in 1..1 : n = 1
    BY <2>2
  <2>6. IsFair(s[f]) /\ \A i \in 2..Len(file) : Quoted(file[i], s[f])
    BY <2>2, <2>4, <2>5 DEF HasRows
  <2>7. /\ EachQuotes(t)[1] = Cardinality(DOMAIN s[f].quotes)
        /\ EachQuotes(t)[1] \in Nat /\ SumFunctionOnSet(EachQuotes(t), 1..1) = Len(file) - 1
    BY <2>2, <2>4, <2>5 DEF HasRows, EachQuotes
  <2>8. PICK g : g = EachQuotes(t)
    OBVIOUS
  <2>9. SumFunctionOnSet(g, 1..1) = g[1]
    BY <2>7, <2>8, SumOne
  <2>10. QED
    BY <2>3, <2>6, <2>7, <2>8, <2>9
<1>4. SumFunctionOnSet(EachQuotes(s), 1..Len(s))
        = SumFunctionOnSet(EachRows(entries), 1..Len(entries))
  <2>1. PICK n, f, g : n = Len(s) /\ f = EachQuotes(s) /\ g = EachRows(entries)
    OBVIOUS
  <2>2. \A i \in 1..n : f[i] = g[i] /\ g[i] \in Nat
    BY <1>1, <1>3, <2>1 DEF EachQuotes, EachRows
  <2>3. SumFunctionOnSet(f, 1..n) = SumFunctionOnSet(g, 1..n)
    <3>1. n \in Nat /\ n <= n
      BY <1>1, <2>1
    <3>2. QED
      BY <2>2, <3>1, SumPrefix
  <2>4. QED
    BY <1>1, <2>1, <2>3
<1>5. Len(entries) > 0 => Len(entries[1][2]) > 1 /\ Tail(entries[1][2])[1] = entries[1][2][2]
  <2>1. SUFFICES ASSUME Len(entries) > 0
                 PROVE  Len(entries[1][2]) > 1 /\ Tail(entries[1][2])[1] = entries[1][2][2]
    OBVIOUS
  <2>2. PICK file : file = entries[1][2]
    OBVIOUS
  <2>3. Tail(file) # <<>> /\ file # <<>> /\ IsContent(file)
    BY <1>1, <1>2, <2>1, <2>2
  <2>4. PICK rows : rows = Tail(file)
    OBVIOUS
  <2>5. /\ IsList(rows) /\ Len(file) \in Nat /\ Len(rows) = Len(file) - 1 /\ rows # <<>>
        /\ \A i \in 1..Len(rows) : rows[i] = file[i + 1]
    BY <2>3, <2>4, RowsOf, Zenon
  <2>6. Len(rows) \in Nat /\ Len(rows) # 0
    BY <2>5, ListIsSeq, NoList
  <2>7. rows[1] = file[2] /\ Len(file) > 1
    BY <2>5, <2>6
  <2>8. QED
    BY <2>2, <2>4, <2>7
<1>6. QED
  BY <1>1, <1>3, <1>4, <1>5 DEF IsTold

\* A tape of the one Parquet file.
LEMMA ParquetTold ==
  ASSUME NEW entries, IsIdentity(entries), NEW s, IsTape(s), s # <<>>,
         IsTapeOf("parquet", entries, s)
  PROVE  IsTold("parquet", entries, s)
<1>1. /\ Len(entries) = 1 /\ Snapshots("parquet", 1, entries[1][2], <<>>) = s
      /\ Len(s) \in Nat /\ DOMAIN s = 1..Len(s)
  BY ListIsSeq DEF IsTapeOf, IsTape
<1>2. PICK file : file = entries[1][2]
  OBVIOUS
<1>3. IsContent(file)
  BY <1>1, <1>2 DEF IsIdentity
<1>4. \A i \in DOMAIN s : s[i] # Rejected
  BY <1>1 DEF IsTape
<1>5. HasRows(file, s)
  <2>1. PICK at, anchor : at = 1 /\ anchor = <<>> /\ s = Snapshots("parquet", at, file, anchor)
    BY <1>1, <1>2
  <2>2. QED
    BY <1>3, <1>4, <2>1, ParquetRows
<1>6. 1..Len(entries) = 1..1 /\ \A n \in 1..1 : n = 1
  BY <1>1
<1>7. SumFunctionOnSet(EachRows(entries), 1..1) = Len(file) - 1
  <2>1. PICK g : g = EachRows(entries)
    OBVIOUS
  <2>2. g[1] = Len(file) - 1
    BY <1>1, <1>2, <2>1 DEF EachRows
  <2>3. g[1] \in Nat
    <3>1. SumFunctionOnSet(EachQuotes(s), 1..Len(s)) = Len(file) - 1
          /\ \A n \in 1..Len(s) : EachQuotes(s)[n] \in Nat
      BY <1>5 DEF HasRows
    <3>2. PICK f, m : f = EachQuotes(s) /\ m = Len(s)
      OBVIOUS
    <3>3. SumFunctionOnSet(f, 1..m) \in Nat
      BY <1>1, <3>1, <3>2, SumPrefix
    <3>4. QED
      BY <2>2, <3>1, <3>2, <3>3
  <2>4. QED
    BY <2>1, <2>2, <2>3, SumOne
<1>8. QED
  BY <1>1, <1>2, <1>5, <1>6, <1>7 DEF HasRows, IsTold

-----------------------------------------------------------------------------
(* The sums of TapeIsValid.                                                *)

\* The quotes of a tape, counted.
LEMMA QuotesSum ==
  ASSUME NEW s, IsList(s)
  PROVE  Sum(MapSeq(LAMBDA x : Cardinality(DOMAIN x.quotes), s))
           = SumFunctionOnSet(EachQuotes(s), 1..Len(s))
<1>1. DOMAIN s = 1..Len(s)
  BY ListIsSeq
<1>2. MapSeq(LAMBDA x : Cardinality(DOMAIN x.quotes), s) = EachQuotes(s)
  BY <1>1 DEF MapSeq, EachQuotes
<1>3. DOMAIN EachQuotes(s) = 1..Len(s)
  BY DEF EachQuotes
<1>4. QED
  BY <1>2, <1>3, SumIs

\* The rows of what was hashed, counted.
LEMMA RowsSum ==
  ASSUME NEW entries, IsList(entries)
  PROVE  Sum(MapSeq(LAMBDA file : Len(file[2]) - 1, entries))
           = SumFunctionOnSet(EachRows(entries), 1..Len(entries))
<1>1. DOMAIN entries = 1..Len(entries)
  BY ListIsSeq
<1>2. MapSeq(LAMBDA file : Len(file[2]) - 1, entries) = EachRows(entries)
  BY <1>1 DEF MapSeq, EachRows
<1>3. DOMAIN EachRows(entries) = 1..Len(entries)
  BY DEF EachRows
<1>4. QED
  BY <1>2, <1>3, SumIs

-----------------------------------------------------------------------------
(* The tape is the one that its identity hashes.                           *)

\* The tape of files is read from what was hashed of them, with the instant that
\* opens the first of them for an anchor.
LEMMA TapeOfHashed ==
  ASSUME source \in {"csv", "parquet"}, IsIdentity(identity), IsTape(tape), tape # <<>>,
         IsTapeOf(source, identity, tape)
  PROVE  tape = TapeOfIdentity
<1>1. /\ IsList(identity) /\ IsList(tape) /\ DOMAIN identity = 1..Len(identity)
      /\ Len(identity) \in Nat /\ Len(tape) \in Nat /\ DOMAIN tape = 1..Len(tape)
  BY ListIsSeq DEF IsIdentity, IsTape
<1> DEFINE From(i) == IF i = 1 THEN <<>> ELSE <<identity[1][2][2].ts[2]>>
           read == [i \in DOMAIN identity |-> Snapshots(source, i - 1, identity[i][2], From(i))]
<1>2. TapeOfIdentity = IF source = "csv" THEN [i \in DOMAIN read |-> read[i][1]] ELSE read[1]
  BY DEF TapeOfIdentity
<1>3. \A i \in 1..Len(identity) :
        read[i] = Snapshots(source, i - 1, identity[i][2], From(i))
  BY <1>1
<1>4. DOMAIN read = 1..Len(identity)
  BY <1>1
<1> HIDE DEF read
<1>5. CASE source = "csv"
  <2>1. /\ Len(tape) = Len(identity)
        /\ \A i \in 1..Len(identity) :
             Snapshots("csv", i - 1, identity[i][2], AnchorAt(i, identity)) = <<tape[i]>>
    BY <1>5 DEF IsTapeOf
  <2>2. ASSUME NEW i \in 1..Len(identity) PROVE read[i][1] = tape[i]
    <3>1. Tail(identity[1][2])[1] = identity[1][2][2]
      <4>1. Len(identity) > 0
        BY <1>1
      <4>2. QED
        BY <1>5, <4>1, CsvTold
    <3>2. From(i) = AnchorAt(i, identity)
      BY <3>1 DEF AnchorAt
    <3> HIDE DEF From
    <3>3. read[i] = <<tape[i]>>
      BY <1>3, <1>5, <2>1, <3>2
    <3>4. QED
      BY <3>3
  <2>3. TapeOfIdentity = [i \in 1..Len(identity) |-> read[i][1]]
    BY <1>2, <1>4, <1>5
  <2>4. tape = [i \in 1..Len(identity) |-> tape[i]]
    BY <1>1, <2>1 DEF IsList
  <2>5. QED
    BY <2>2, <2>3, <2>4
<1>6. CASE source = "parquet"
  <2>1. identity # <<>>
    BY <1>6 DEF IsTapeOf
  <2>2. Len(identity) = 1 /\ Snapshots("parquet", 1, identity[1][2], <<>>) = tape
    BY <1>6, <2>1 DEF IsTapeOf
  <2>3. read[1] = Snapshots("parquet", 0, identity[1][2], <<>>)
    BY <1>3, <1>6, <2>2
  <2>4. Snapshots("parquet", 0, identity[1][2], <<>>) = Snapshots("parquet", 1, identity[1][2], <<>>)
    BY SnapshotsAre
  <2>5. QED
    BY <1>2, <1>6, <2>2, <2>3, <2>4
<1>7. QED
  BY <1>5, <1>6

-----------------------------------------------------------------------------
(* What was drained of a walk.                                             *)

\* A price of the simulator is in whole cents or is none.
LEMMA CentsAre ==
  ASSUME NEW p, IsFloat(p)
  PROVE  DollarsToCents(p) \in Int
<1>1. CASE p \in {NaN, Missing}
  BY <1>1 DEF DollarsToCents, Unpriced
<1>2. CASE p \notin {NaN, Missing}
  <2>1. PICK n \in Int, d \in Nat \ {0} : p = <<n, d>>
    BY <1>2 DEF IsFloat
  <2>2. DollarsToCents(p) = FromDecimalDollars(n, d)
    BY <1>2, <2>1 DEF DollarsToCents
  <2>3. (100 * n) \div d \in Int
    BY <2>1
  <2>4. RoundHalfEven(100 * n, d) \in Int
    BY <2>3 DEF RoundHalfEven
  <2>5. QED
    BY <2>2, <2>4 DEF FromDecimalDollars, Unpriced
<1>3. QED
  BY <1>1, <1>2

\* The quotes of a response that is converted are fair.
LEMMA ResponseFair ==
  ASSUME NEW response, IsChainResponse(response), NEW step, NEW spec, spec.tick \in Nat,
         NEW anchor, NEW size,
         ChainResponseToSnapshot(response, step, spec, anchor, size) # Rejected
  PROVE  IsFair(ChainResponseToSnapshot(response, step, spec, anchor, size))
<1> DEFINE raw == SidesOf(response, size)
           heading == [ts |-> response.ts, step |-> step, underlying |-> response.underlying,
                    underlying_price |-> DollarsToCents(response.price), tick |-> spec.tick,
                    multiplier |-> spec.multiplier]
           n == 2 * Len(response.contracts)
<1>1. ChainResponseToSnapshot(response, step, spec, anchor, size)
        = RawQuotesToSnapshot(heading, anchor, raw)
  BY DEF ChainResponseToSnapshot, SidesOf
<1>2. /\ Len(response.contracts) \in Nat
      /\ DOMAIN response.contracts = 1..Len(response.contracts)
      /\ \A i \in 1..Len(response.contracts) : IsOptionContract(response.contracts[i])
  BY ListIsSeq DEF IsChainResponse
<1>3. raw = [i \in 1..n |-> raw[i]] /\ n \in Nat
  BY <1>2 DEF SidesOf
<1>4. heading.tick = spec.tick
  OBVIOUS
<1>5. ASSUME NEW i \in 1..n PROVE IsPriced(raw[i])
  <2>1. PICK j \in 1..Len(response.contracts) : j = (i + 1) \div 2
    BY <1>2
  <2>2. PICK contract : contract = response.contracts[j]
    OBVIOUS
  <2>3. IsOptionContract(contract)
    BY <1>2, <2>2
  <2>4. \E style \in {"Call", "Put"} : \E side \in {contract.call, contract.put} :
          raw[i] = SideToRawQuote(contract, style, side, size)
    BY <2>1, <2>2 DEF SidesOf
  <2> HIDE DEF raw
  <2>5. PICK style \in {"Call", "Put"}, side \in {contract.call, contract.put} :
          raw[i] = SideToRawQuote(contract, style, side, size)
    BY <2>4
  <2>6. IsFloat(contract.strike) /\ IsFloat(side.bid) /\ IsFloat(side.ask)
    BY <2>3 DEF IsOptionContract, IsOptionPrice
  <2>7. /\ raw[i].strike = DollarsToCents(contract.strike)
        /\ raw[i].bid = DollarsToCents(side.bid) /\ raw[i].ask = DollarsToCents(side.ask)
        /\ raw[i].style = style
    BY <2>5 DEF SideToRawQuote
  <2>8. QED
    BY <2>6, <2>7, CentsAre DEF IsPriced
<1> HIDE DEF raw, heading, n
<1>6. IsList(raw) /\ Len(raw) = n
  BY <1>3, ListOf
<1>7. QED
  BY <1>1, <1>4, <1>5, <1>6, RawFair

\* The quotes of a drained tape are fair.
LEMMA DrainFair ==
  ASSUME NEW seed \in DOMAIN Walks, NEW s, IsTape(s), IsDrainOf(Walks[seed], s)
  PROVE  \A n \in 1..Len(s) : IsFair(s[n])
<1>1. SUFFICES ASSUME NEW n \in 1..Len(s) PROVE IsFair(s[n])
  OBVIOUS
<1>2. PICK responses : responses = Walks[seed]
  OBVIOUS
<1>3. /\ IsList(responses) /\ \A i \in DOMAIN responses : IsChainResponse(responses[i])
      /\ Instrument.tick \in Nat
  BY <1>2, TapeAssumption
<1>4. Len(s) <= Len(responses) /\ s[n] = Converted(responses, n) /\ s[n] # Rejected
  BY <1>2 DEF IsDrainOf, IsTape
<1>5. n \in DOMAIN responses
  <2>1. Len(responses) \in Nat /\ DOMAIN responses = 1..Len(responses)
    BY <1>3, ListIsSeq
  <2>2. Len(s) \in Nat
    BY ListIsSeq DEF IsTape
  <2>3. QED
    BY <1>4, <2>1, <2>2
<1>6. QED
  BY <1>3, <1>4, <1>5, ResponseFair DEF Converted

-----------------------------------------------------------------------------
\* The steps of a tape are its places and its time goes on from each to the next.
LEMMA TimeGoesOn ==
  ASSUME NEW s, IsTape(s), FromTape(s)
  PROVE  \A i \in 1..Len(s) :
           s[i].meta.step = i - 1 /\ \A j \in 1..(i - 1) : s[j].meta.ts < s[i].meta.ts
<1>1. /\ Len(s) \in Nat /\ DOMAIN s = 1..Len(s)
      /\ \A i \in 1..Len(s) : s[i].meta.ts \in Nat
  BY ListIsSeq DEF IsTape
<1>2. /\ \A i \in 1..Len(s) : s[i].meta.step = i - 1
      /\ \A i \in 2..Len(s) : s[i].meta.ts > s[i - 1].meta.ts
  BY <1>1 DEF FromTape
<1> DEFINE P == {n \in Nat : \A i \in 1..Len(s) :
                   i <= n => \A j \in 1..(i - 1) : s[j].meta.ts < s[i].meta.ts}
<1>3. 0 \in P
  OBVIOUS
<1>4. ASSUME NEW n \in Nat, n \in P PROVE n + 1 \in P
  <2>1. SUFFICES ASSUME NEW i \in 1..Len(s), i = n + 1, NEW j \in 1..(i - 1)
                 PROVE  s[j].meta.ts < s[i].meta.ts
    <3>1. \A i \in 1..Len(s) : i <= n => \A j \in 1..(i - 1) : s[j].meta.ts < s[i].meta.ts
      BY <1>4
    <3>2. \A i \in 1..Len(s) : i <= n + 1 => i <= n \/ i = n + 1
      BY <1>1
    <3>3. QED
      BY <3>1, <3>2
  <2>2. i \in 2..Len(s) /\ i - 1 = n /\ n \in 1..Len(s) /\ j \in 1..Len(s)
    BY <1>1, <2>1
  <2>3. s[n].meta.ts < s[i].meta.ts
    BY <1>2, <2>2
  <2>4. j = n \/ s[j].meta.ts < s[n].meta.ts
    <3>1. j = n \/ j \in 1..(n - 1)
      BY <2>1, <2>2
    <3>2. QED
      BY <1>4, <2>2, <3>1
  <2>5. s[j].meta.ts \in Nat /\ s[n].meta.ts \in Nat /\ s[i].meta.ts \in Nat
    BY <1>1, <2>2
  <2>6. QED
    BY <2>3, <2>4, <2>5
<1>5. Nat \subseteq P
  <2> HIDE DEF P
  <2>1. QED
    BY <1>3, <1>4, SetInduction
<1>6. Len(s) \in P
  BY <1>1, <1>5
<1>7. QED
  BY <1>1, <1>2, <1>6

\* A tape of files that was opened is the one its identity hashes, in name order,
\* every row of them a quote.
LEMMA FilesValid ==
  ASSUME TapeInv, pc \in Playing, source # "simulator", Settled(source)
  PROVE  /\ \A n \in 1..Len(tape) : IsFair(tape[n])
         /\ tape = TapeOfIdentity
         /\ \A i, j \in DOMAIN identity : i < j => identity[i][1] < identity[j][1]
         /\ \A f \in DOMAIN identity : \A i \in 2..Len(identity[f][2]) :
              \E n \in DOMAIN tape : Quoted(identity[f][2][i], tape[n])
         /\ Sum(MapSeq(LAMBDA s : Cardinality(DOMAIN s.quotes), tape))
              = Sum(MapSeq(LAMBDA file : Len(file[2]) - 1, identity))
<1>1. source \in {"csv", "parquet"} /\ IsTape(tape) /\ FromTape(tape) /\ IsList(seen)
  BY DEF TapeInv, Typed, Fed
<1>2. /\ IsIdentity(identity) /\ IsTapeOf(source, identity, tape)
      /\ Len(identity) = Len(seen) /\ Ascending(seen)
      /\ \A i \in 1..Len(identity) : identity[i][1] = seen[i]
  BY <1>1 DEF TapeInv, Told
<1>3. tape # <<>>
  BY <1>1 DEF FromTape
<1>4. /\ IsList(tape) /\ DOMAIN tape = 1..Len(tape)
      /\ IsList(identity) /\ DOMAIN identity = 1..Len(identity)
      /\ DOMAIN seen = 1..Len(seen)
  BY <1>1, <1>2, ListIsSeq DEF IsTape, IsIdentity
<1>5. IsTold(source, identity, tape)
  BY <1>1, <1>2, <1>3, CsvTold, ParquetTold
<1>6. tape = TapeOfIdentity
  BY <1>1, <1>2, <1>3, TapeOfHashed
<1>7. \A i, j \in DOMAIN identity : i < j => identity[i][1] < identity[j][1]
  <2>1. SUFFICES ASSUME NEW i \in DOMAIN identity, NEW j \in DOMAIN identity, i < j
                 PROVE  identity[i][1] < identity[j][1]
    OBVIOUS
  <2>2. i \in DOMAIN seen /\ j \in DOMAIN seen
    BY <1>2, <1>4
  <2>3. seen[i] < seen[j]
    BY <1>2, <2>1, <2>2 DEF Ascending
  <2>4. identity[i][1] = seen[i] /\ identity[j][1] = seen[j]
    BY <1>2, <1>4
  <2>5. QED
    BY <2>3, <2>4
<1>8. Sum(MapSeq(LAMBDA s : Cardinality(DOMAIN s.quotes), tape))
        = Sum(MapSeq(LAMBDA file : Len(file[2]) - 1, identity))
  BY <1>4, <1>5, QuotesSum, RowsSum DEF IsTold
<1>9. /\ \A n \in 1..Len(tape) : IsFair(tape[n])
      /\ \A f \in DOMAIN identity : \A i \in 2..Len(identity[f][2]) :
           \E n \in DOMAIN tape : Quoted(identity[f][2][i], tape[n])
  BY <1>4, <1>5 DEF IsTold
<1>10. QED
  BY <1>6, <1>7, <1>8, <1>9

\* A tape that opens is one the engine can run, and is what its files or its walk
\* say (data/historical.rs, data/simulator.rs, data/convert.rs).  Of a Parquet file
\* this asks that it is not rewritten in place: its two readings may then differ.
THEOREM TapeAlwaysValid ==
  ASSUME "parquet" \notin InPlace
  PROVE  Spec => []TapeIsValid
<1>1. ASSUME TapeInv, Opened PROVE TapeIsValid
  <2>1. pc \in Playing /\ source \in {"csv", "parquet", "simulator"}
    BY <1>1 DEF TapeInv, Typed, Opened, Opening, Playing
  <2>2. /\ IsTape(tape) /\ FromTape(tape)
        /\ Len(tape) <= MaxSteps /\ total <= MaxTotal /\ decoded <= MaxDecompressed
    BY <1>1, <2>1 DEF TapeInv, Typed, Fed
  <2>3. DOMAIN tape = 1..Len(tape)
    BY <2>2, ListIsSeq DEF IsTape
  <2>4. \A i \in DOMAIN tape :
          tape[i].meta.step = i - 1 /\ \A j \in 1..(i - 1) : tape[j].meta.ts < tape[i].meta.ts
    BY <2>2, <2>3, TimeGoesOn
  <2>5. source = "simulator" =>
          Len(tape) = Len(walk) /\ \A n \in 1..Len(tape) : IsFair(tape[n])
    <3>1. SUFFICES ASSUME source = "simulator"
                   PROVE  Len(tape) = Len(walk) /\ \A n \in 1..Len(tape) : IsFair(tape[n])
      OBVIOUS
    <3>2. /\ Len(tape) = Len(walk) /\ IsDrainOf(walk, tape)
          /\ \E seed \in DOMAIN Walks : walk = Walks[seed]
      BY <1>1, <2>1, <3>1 DEF TapeInv, Walked
    <3>3. QED
      BY <2>2, <3>2, DrainFair
  <2>6. source # "simulator" =>
          /\ \A n \in 1..Len(tape) : IsFair(tape[n])
          /\ tape = TapeOfIdentity
          /\ \A i, j \in DOMAIN identity : i < j => identity[i][1] < identity[j][1]
          /\ \A f \in DOMAIN identity : \A i \in 2..Len(identity[f][2]) :
               \E n \in DOMAIN tape : Quoted(identity[f][2][i], tape[n])
          /\ Sum(MapSeq(LAMBDA s : Cardinality(DOMAIN s.quotes), tape))
               = Sum(MapSeq(LAMBDA file : Len(file[2]) - 1, identity))
    BY <1>1, <2>1, FilesValid DEF Settled
  <2>7. \A n \in DOMAIN tape : IsFair(tape[n])
    BY <2>3, <2>5, <2>6
  <2>8. \A i \in DOMAIN tape :
          LET quotes == tape[i].quotes
              chain == SnapshotToOptionChain(tape[i])
          IN  \A key \in DOMAIN quotes :
                /\ quotes[key].mid \in quotes[key].bid..quotes[key].ask
                /\ quotes[key].mid % tape[i].meta.tick = 0
                /\ chain # Rejected =>
                     <<quotes[key].bid, quotes[key].ask>>
                       \in IF key[3] = "Call" THEN chain[key[2]].call ELSE chain[key[2]].put
    BY <2>7 DEF IsFair
  <2>9. QED
    BY <2>2, <2>4, <2>5, <2>6, <2>8 DEF TapeIsValid
<1>2. TapeInv => TapeIsValid
  BY <1>1 DEF TapeIsValid
<1>3. QED
  BY <1>2, TapeInvAlways, PTL
=============================================================================
