-------------------------------- MODULE Sums --------------------------------
(***************************************************************************)
(* Lemmas about SumFunctionOnSet of the community module Functions, which  *)
(* adds up quantities and counts all over the replay modules.  The fold    *)
(* behind it picks the elements of the set one after another, so that each *)
(* fact needs an induction; the induction is stated about sets (the sizes  *)
(* for which the fact holds) and follows from the well-foundedness of the  *)
(* natural numbers.                                                        *)
(*                                                                         *)
(* After them, what the sorts and the filters of the models need: an       *)
(* element goes where as many others go before it, so that a sequence      *)
(* rebuilt by its places has the same elements.                            *)
(***************************************************************************)
EXTENDS Functions, Integers, Sequences, FiniteSets, FiniteSetTheorems, FunctionTheorems, TLAPS

\* A set with 0 and every successor has every natural number.
LEMMA SetInduction ==
  ASSUME NEW P, 0 \in P, \A n \in Nat : n \in P => n + 1 \in P
  PROVE  Nat \subseteq P
<1> DEFINE T == Nat \ P
<1>1. SUFFICES ASSUME T # {} PROVE FALSE
  OBVIOUS
<1>2. \E x \in T : \A y \in T : <<y, x>> \notin OpToRel(<, Nat)
  <2>1. T \subseteq Nat
    OBVIOUS
  <2> HIDE DEF T
  <2>2. QED
    BY <1>1, <2>1, NatLessThanWellFounded, WFMin
<1>3. PICK x \in T : \A y \in T : <<y, x>> \notin OpToRel(<, Nat)
  BY <1>2
<1>4. x # 0 /\ x \in Nat
  OBVIOUS
<1>5. x - 1 \in Nat /\ x - 1 < x /\ (x - 1) + 1 = x
  BY <1>4
<1>6. x - 1 \notin T
  BY <1>3, <1>4, <1>5 DEF OpToRel
<1>7. QED
  BY <1>4, <1>5, <1>6

\* A family of sets with {} and closed under adding an element of S has every
\* finite subset of S.
LEMMA SubsetInduction ==
  ASSUME NEW S, IsFiniteSet(S), NEW P, {} \in P,
         \A T \in SUBSET S : \A x \in S \ T : T \in P => T \cup {x} \in P
  PROVE  S \in P
<1> DEFINE N == {n \in Nat : \A T \in SUBSET S : Cardinality(T) = n => T \in P}
<1>1. \A T \in SUBSET S : IsFiniteSet(T) /\ Cardinality(T) \in Nat
  BY FS_Subset, FS_CardinalityType
<1>2. 0 \in N
  BY <1>1, FS_EmptySet
<1>3. ASSUME NEW n \in Nat, n \in N
      PROVE  n + 1 \in N
  <2> SUFFICES ASSUME NEW T \in SUBSET S, Cardinality(T) = n + 1
               PROVE  T \in P
    OBVIOUS
  <2>1. T # {}
    BY <1>1, FS_EmptySet
  <2>2. PICK x \in T : TRUE
    BY <2>1
  <2>3. Cardinality(T \ {x}) = n
    <3>1. Cardinality(T \ {x}) = Cardinality(T) - 1
      BY <1>1, FS_RemoveElement
    <3>2. QED
      BY <3>1
  <2>4. T \ {x} \in P
    BY <1>3, <2>3
  <2>5. (T \ {x}) \cup {x} \in P
    BY <2>2, <2>4
  <2>6. QED
    BY <2>5
<1> HIDE DEF N
<1>4. Nat \subseteq N
  BY <1>2, <1>3, SetInduction
<1>5. QED
  BY <1>1, <1>4 DEF N

-----------------------------------------------------------------------------
(* The recursive function of the fold.                                     *)

\* The element the fold takes next, and one step of the fold.
Pick(s) == CHOOSE x \in s : TRUE
SumStep(f, g, s) == IF s = {} THEN 0 ELSE f[Pick(s)] + g[s \ {Pick(s)}]

\* g adds up f over each of the sets in D.
Sums(f, g, D) == g = [s \in D |-> SumStep(f, g, s)]

\* The fold is the value at S of a function that adds up every subset of S.
LEMMA SumByFold ==
  ASSUME NEW f, NEW S
  PROVE  SumFunctionOnSet(f, S) = (CHOOSE g : Sums(f, g, SUBSET S))[S]
  BY DEF SumFunctionOnSet, FoldFunctionOnSet, MapThenFoldSet, Sums, SumStep, Pick

\* There is such a function.
LEMMA SumsExist ==
  ASSUME NEW f, NEW S, IsFiniteSet(S)
  PROVE  \E g : Sums(f, g, SUBSET S)
<1> DEFINE Small(n) == {T \in SUBSET S : Cardinality(T) <= n}
           N == {n \in Nat : \E g : Sums(f, g, Small(n))}
<1>1. \A T \in SUBSET S : IsFiniteSet(T) /\ Cardinality(T) \in Nat
  BY FS_Subset, FS_CardinalityType
<1>2. 0 \in N
  <2>1. \A T \in Small(0) : T = {}
    BY <1>1, FS_EmptySet
  <2>2. Sums(f, [s \in Small(0) |-> 0], Small(0))
    BY <2>1 DEF Sums, SumStep
  <2>3. QED
    BY <2>2
<1>3. ASSUME NEW n \in Nat, n \in N
      PROVE  n + 1 \in N
  <2>1. PICK g : Sums(f, g, Small(n))
    BY <1>3
  <2> DEFINE h == [s \in Small(n + 1) |-> SumStep(f, g, s)]
  <2>2. \A s \in Small(n) : s \in Small(n + 1) /\ h[s] = g[s]
    BY <1>1, <2>1 DEF Sums
  <2>3. \A s \in Small(n + 1) : s # {} => s \ {Pick(s)} \in Small(n)
    <3> SUFFICES ASSUME NEW s \in Small(n + 1), s # {}
                 PROVE  s \ {Pick(s)} \in Small(n)
      OBVIOUS
    <3>1. Pick(s) \in s
      BY DEF Pick
    <3>2. Cardinality(s \ {Pick(s)}) = Cardinality(s) - 1
      BY <1>1, <3>1, FS_RemoveElement
    <3>3. Cardinality(s) \in Nat /\ Cardinality(s) <= n + 1
      BY <1>1
    <3>4. QED
      BY <3>2, <3>3
  <2>4. \A s \in Small(n + 1) : SumStep(f, h, s) = SumStep(f, g, s)
    BY <2>2, <2>3 DEF SumStep
  <2>5. Sums(f, h, Small(n + 1))
    BY <2>4 DEF Sums
  <2> HIDE DEF h, Small
  <2>6. QED
    BY <2>5
<1> HIDE DEF N
<1>4. Nat \subseteq N
  BY <1>2, <1>3, SetInduction
<1>5. Cardinality(S) \in N
  BY <1>1, <1>4
<1>6. Small(Cardinality(S)) = SUBSET S
  BY <1>1, FS_Subset
<1>7. QED
  BY <1>5, <1>6 DEF N

\* Two such functions agree on the sets they share.
LEMMA SumsAgree ==
  ASSUME NEW f, NEW g, NEW h, NEW S, NEW T \in SUBSET S, IsFiniteSet(S),
         Sums(f, g, SUBSET S), Sums(f, h, SUBSET T)
  PROVE  g[T] = h[T]
<1> DEFINE N == {n \in Nat : \A U \in SUBSET T : Cardinality(U) = n => g[U] = h[U]}
<1>1. \A U \in SUBSET T : IsFiniteSet(U) /\ Cardinality(U) \in Nat /\ U \in SUBSET S
  BY FS_Subset, FS_CardinalityType
<1>2. \A U \in SUBSET T : g[U] = SumStep(f, g, U) /\ h[U] = SumStep(f, h, U)
  BY <1>1 DEF Sums
<1>3. 0 \in N
  BY <1>1, <1>2, FS_EmptySet DEF SumStep
<1>4. ASSUME NEW n \in Nat, n \in N
      PROVE  n + 1 \in N
  <2> SUFFICES ASSUME NEW U \in SUBSET T, Cardinality(U) = n + 1
               PROVE  g[U] = h[U]
    OBVIOUS
  <2>1. U # {} /\ Pick(U) \in U
    <3>1. Cardinality({}) = 0 /\ n + 1 # 0
      BY FS_EmptySet
    <3>2. U # {}
      BY <3>1
    <3>3. QED
      BY <3>2 DEF Pick
  <2>2. Cardinality(U \ {Pick(U)}) = n
    <3>1. PICK x \in U : x = Pick(U)
      BY <2>1
    <3>2. Cardinality(U \ {x}) = Cardinality(U) - 1
      BY <1>1, FS_RemoveElement
    <3>3. QED
      BY <3>1, <3>2
  <2>3. g[U \ {Pick(U)}] = h[U \ {Pick(U)}]
    BY <1>4, <2>2
  <2>4. QED
    BY <1>2, <2>1, <2>3 DEF SumStep
<1> HIDE DEF N
<1>5. Nat \subseteq N
  BY <1>3, <1>4, SetInduction
<1>6. QED
  BY <1>1, <1>5 DEF N

\* A sum is one element of the set and the sum of the others.
LEMMA SumUnfolds ==
  ASSUME NEW f, NEW S, IsFiniteSet(S), S # {}
  PROVE  /\ Pick(S) \in S
         /\ SumFunctionOnSet(f, S) = f[Pick(S)] + SumFunctionOnSet(f, S \ {Pick(S)})
<1>1. Pick(S) \in S
  BY DEF Pick
<1> DEFINE g == CHOOSE g : Sums(f, g, SUBSET S)
           R == S \ {Pick(S)}
           h == CHOOSE h : Sums(f, h, SUBSET R)
<1>2. IsFiniteSet(R)
  BY FS_RemoveElement
<1>3. Sums(f, g, SUBSET S) /\ Sums(f, h, SUBSET R)
  BY <1>2, SumsExist
<1>4. R \in SUBSET S
  OBVIOUS
<1>5. SumFunctionOnSet(f, S) = g[S] /\ SumFunctionOnSet(f, R) = h[R]
  BY SumByFold
<1> HIDE DEF g, h
<1>6. g[R] = h[R]
  BY <1>3, <1>4, SumsAgree
<1>7. g[S] = f[Pick(S)] + g[R]
  BY <1>3 DEF Sums, SumStep
<1>8. QED
  BY <1>1, <1>5, <1>6, <1>7

-----------------------------------------------------------------------------
(* What the proofs about the program use.                                  *)

\* f has a number for every element of S.
Numbers(f, S) == \A x \in S : f[x] \in Int

\* Nothing adds up to 0.
LEMMA SumEmpty ==
  ASSUME NEW f
  PROVE  SumFunctionOnSet(f, {}) = 0
<1>1. IsFiniteSet({})
  BY FS_EmptySet
<1>2. PICK g : g = CHOOSE v : Sums(f, v, SUBSET {})
  OBVIOUS
<1>3. Sums(f, g, SUBSET {})
  BY <1>1, <1>2, SumsExist
<1>4. g[{}] = 0
  BY <1>3 DEF Sums, SumStep
<1>5. QED
  BY <1>2, <1>4, SumByFold

\* A sum of integers is one.
LEMMA SumInt ==
  ASSUME NEW f, NEW S, IsFiniteSet(S), Numbers(f, S)
  PROVE  SumFunctionOnSet(f, S) \in Int
<1> DEFINE N == {n \in Nat : \A T \in SUBSET S : Cardinality(T) = n =>
                               SumFunctionOnSet(f, T) \in Int}
<1>1. \A T \in SUBSET S : IsFiniteSet(T) /\ Cardinality(T) \in Nat
  BY FS_Subset, FS_CardinalityType
<1>2. 0 \in N
  BY <1>1, FS_EmptySet, SumEmpty
<1>3. ASSUME NEW n \in Nat, n \in N
      PROVE  n + 1 \in N
  <2> SUFFICES ASSUME NEW T \in SUBSET S, Cardinality(T) = n + 1
               PROVE  SumFunctionOnSet(f, T) \in Int
    OBVIOUS
  <2>1. T # {}
    BY <1>1, FS_EmptySet
  <2>2. /\ Pick(T) \in T
        /\ SumFunctionOnSet(f, T) = f[Pick(T)] + SumFunctionOnSet(f, T \ {Pick(T)})
    BY <1>1, <2>1, SumUnfolds
  <2>3. Cardinality(T \ {Pick(T)}) = Cardinality(T) - 1
    BY <1>1, <2>2, FS_RemoveElement
  <2>4. SumFunctionOnSet(f, T \ {Pick(T)}) \in Int
    BY <1>3, <2>3
  <2>5. f[Pick(T)] \in Int
    BY <2>2 DEF Numbers
  <2>6. QED
    BY <2>2, <2>4, <2>5
<1> HIDE DEF N
<1>4. Nat \subseteq N
  BY <1>2, <1>3, SetInduction
<1>5. QED
  BY <1>1, <1>4 DEF N

\* Any element can be taken out of a sum, whichever the fold takes first.
LEMMA SumRemove ==
  ASSUME NEW f, NEW S, IsFiniteSet(S), Numbers(f, S), NEW x \in S
  PROVE  SumFunctionOnSet(f, S) = f[x] + SumFunctionOnSet(f, S \ {x})
<1> DEFINE Takes(T) == \A y \in T :
             SumFunctionOnSet(f, T) = f[y] + SumFunctionOnSet(f, T \ {y})
           N == {n \in Nat : \A T \in SUBSET S : Cardinality(T) = n => Takes(T)}
<1>1. \A T \in SUBSET S : /\ IsFiniteSet(T) /\ Cardinality(T) \in Nat
                          /\ SumFunctionOnSet(f, T) \in Int
  BY FS_Subset, FS_CardinalityType, SumInt DEF Numbers
<1>2. 0 \in N
  BY <1>1, FS_EmptySet
<1>3. ASSUME NEW n \in Nat, n \in N
      PROVE  n + 1 \in N
  <2> SUFFICES ASSUME NEW T \in SUBSET S, Cardinality(T) = n + 1, NEW y \in T
               PROVE  SumFunctionOnSet(f, T) = f[y] + SumFunctionOnSet(f, T \ {y})
    OBVIOUS
  <2>1. PICK z : z = Pick(T)
    OBVIOUS
  <2>2. z \in T /\ SumFunctionOnSet(f, T) = f[z] + SumFunctionOnSet(f, T \ {z})
    BY <1>1, <2>1, SumUnfolds
  <2>3. CASE y # z
    <3>1. Cardinality(T \ {z}) = n /\ Cardinality(T \ {y}) = n
      <4>1. /\ Cardinality(T \ {z}) = Cardinality(T) - 1
            /\ Cardinality(T \ {y}) = Cardinality(T) - 1
        BY <1>1, <2>2, FS_RemoveElement
      <4>2. QED
        BY <4>1
    <3>2. Takes(T \ {z}) /\ Takes(T \ {y})
      BY <1>3, <3>1
    <3>3. (T \ {z}) \ {y} = (T \ {y}) \ {z}
      OBVIOUS
    <3>4. SumFunctionOnSet(f, T \ {z}) = f[y] + SumFunctionOnSet(f, (T \ {z}) \ {y})
      BY <2>3, <3>2
    <3>5. SumFunctionOnSet(f, T \ {y}) = f[z] + SumFunctionOnSet(f, (T \ {z}) \ {y})
      BY <2>2, <2>3, <3>2, <3>3
    <3>6. /\ f[y] \in Int /\ f[z] \in Int
          /\ SumFunctionOnSet(f, (T \ {z}) \ {y}) \in Int
      BY <1>1, <2>2 DEF Numbers
    <3>7. QED
      BY <2>2, <3>4, <3>5, <3>6
  <2>4. QED
    BY <2>2, <2>3
<1> HIDE DEF N
<1>4. Nat \subseteq N
  BY <1>2, <1>3, SetInduction
<1>5. QED
  BY <1>1, <1>4 DEF N

\* An element added to the set adds its value to the sum.
LEMMA SumAdd ==
  ASSUME NEW f, NEW S, IsFiniteSet(S), NEW x, x \notin S, Numbers(f, S \cup {x})
  PROVE  SumFunctionOnSet(f, S \cup {x}) = SumFunctionOnSet(f, S) + f[x]
<1>1. IsFiniteSet(S \cup {x}) /\ (S \cup {x}) \ {x} = S
  BY FS_AddElement
<1>2. SumFunctionOnSet(f, S \cup {x}) = f[x] + SumFunctionOnSet(f, S)
  BY <1>1, SumRemove
<1>3. f[x] \in Int /\ SumFunctionOnSet(f, S) \in Int
  BY SumInt DEF Numbers
<1>4. QED
  BY <1>2, <1>3

\* A sum depends on the values over its set only.
LEMMA SumSame ==
  ASSUME NEW f, NEW g, NEW S, IsFiniteSet(S), Numbers(f, S), \A x \in S : f[x] = g[x]
  PROVE  SumFunctionOnSet(f, S) = SumFunctionOnSet(g, S)
<1> DEFINE P == {T \in SUBSET S : SumFunctionOnSet(f, T) = SumFunctionOnSet(g, T)}
<1>1. {} \in P
  BY SumEmpty
<1>2. ASSUME NEW T \in SUBSET S, NEW x \in S \ T, T \in P
      PROVE  T \cup {x} \in P
  <2>1. IsFiniteSet(T) /\ Numbers(f, T \cup {x}) /\ Numbers(g, T \cup {x})
    BY FS_Subset DEF Numbers
  <2>2. /\ SumFunctionOnSet(f, T \cup {x}) = SumFunctionOnSet(f, T) + f[x]
        /\ SumFunctionOnSet(g, T \cup {x}) = SumFunctionOnSet(g, T) + g[x]
    BY <2>1, SumAdd
  <2>3. QED
    BY <1>2, <2>2
<1> HIDE DEF P
<1>3. S \in P
  BY <1>1, <1>2, SubsetInduction
<1>4. QED
  BY <1>3 DEF P

\* The sums over two disjoint sets add up.
LEMMA SumUnion ==
  ASSUME NEW f, NEW S, NEW T, IsFiniteSet(S), IsFiniteSet(T), S \cap T = {},
         Numbers(f, S \cup T)
  PROVE  SumFunctionOnSet(f, S \cup T) = SumFunctionOnSet(f, S) + SumFunctionOnSet(f, T)
<1> DEFINE P == {U \in SUBSET T : SumFunctionOnSet(f, S \cup U)
                                    = SumFunctionOnSet(f, S) + SumFunctionOnSet(f, U)}
<1>0. SumFunctionOnSet(f, S) \in Int
  BY SumInt DEF Numbers
<1>1. {} \in P
  BY <1>0, SumEmpty
<1>2. ASSUME NEW U \in SUBSET T, NEW x \in T \ U, U \in P
      PROVE  U \cup {x} \in P
  <2>1. IsFiniteSet(U) /\ IsFiniteSet(S \cup U)
    BY FS_Subset, FS_Union
  <2>2. /\ Numbers(f, U \cup {x}) /\ Numbers(f, (S \cup U) \cup {x}) /\ Numbers(f, U)
        /\ f[x] \in Int /\ x \notin S \cup U
    BY DEF Numbers
  <2>3. /\ SumFunctionOnSet(f, U \cup {x}) = SumFunctionOnSet(f, U) + f[x]
        /\ SumFunctionOnSet(f, (S \cup U) \cup {x}) = SumFunctionOnSet(f, S \cup U) + f[x]
    BY <2>1, <2>2, SumAdd
  <2>4. SumFunctionOnSet(f, U) \in Int
    BY <2>1, <2>2, SumInt
  <2>5. (S \cup U) \cup {x} = S \cup (U \cup {x})
    OBVIOUS
  <2>6. SumFunctionOnSet(f, S \cup (U \cup {x})) = SumFunctionOnSet(f, S \cup U) + f[x]
    BY <2>3, <2>5
  <2>7. SumFunctionOnSet(f, S \cup U) = SumFunctionOnSet(f, S) + SumFunctionOnSet(f, U)
    BY <1>2
  <2>8. SumFunctionOnSet(f, S \cup (U \cup {x}))
          = SumFunctionOnSet(f, S) + SumFunctionOnSet(f, U \cup {x})
    BY <1>0, <2>2, <2>3, <2>4, <2>6, <2>7
  <2>9. QED
    BY <2>8
<1> HIDE DEF P
<1>3. T \in P
  BY <1>1, <1>2, SubsetInduction
<1>4. QED
  BY <1>3 DEF P

\* Sums are linear.
LEMMA SumBoth ==
  ASSUME NEW f, NEW g, NEW h, NEW S, IsFiniteSet(S), Numbers(f, S), Numbers(g, S),
         \A x \in S : h[x] = f[x] + g[x]
  PROVE  SumFunctionOnSet(h, S) = SumFunctionOnSet(f, S) + SumFunctionOnSet(g, S)
<1> DEFINE P == {T \in SUBSET S : SumFunctionOnSet(h, T)
                   = SumFunctionOnSet(f, T) + SumFunctionOnSet(g, T)}
<1>1. {} \in P
  BY SumEmpty
<1>2. ASSUME NEW T \in SUBSET S, NEW x \in S \ T, T \in P
      PROVE  T \cup {x} \in P
  <2>1. /\ IsFiniteSet(T) /\ Numbers(f, T \cup {x}) /\ Numbers(g, T \cup {x})
        /\ Numbers(f, T) /\ Numbers(g, T)
    BY FS_Subset DEF Numbers
  <2>2. h[x] = f[x] + g[x] /\ f[x] \in Int /\ g[x] \in Int /\ Numbers(h, T \cup {x})
    BY DEF Numbers
  <2>3. /\ SumFunctionOnSet(f, T \cup {x}) = SumFunctionOnSet(f, T) + f[x]
        /\ SumFunctionOnSet(g, T \cup {x}) = SumFunctionOnSet(g, T) + g[x]
        /\ SumFunctionOnSet(h, T \cup {x}) = SumFunctionOnSet(h, T) + h[x]
    BY <2>1, <2>2, SumAdd
  <2>4. SumFunctionOnSet(f, T) \in Int /\ SumFunctionOnSet(g, T) \in Int
    BY <2>1, SumInt
  <2>5. QED
    BY <1>2, <2>2, <2>3, <2>4
<1> HIDE DEF P
<1>3. S \in P
  BY <1>1, <1>2, SubsetInduction
<1>4. QED
  BY <1>3 DEF P

LEMMA SumTimes ==
  ASSUME NEW f, NEW h, NEW S, IsFiniteSet(S), Numbers(f, S), NEW a \in Int,
         \A x \in S : h[x] = a * f[x]
  PROVE  SumFunctionOnSet(h, S) = a * SumFunctionOnSet(f, S)
<1> DEFINE P == {T \in SUBSET S : SumFunctionOnSet(h, T) = a * SumFunctionOnSet(f, T)}
<1>1. {} \in P
  BY SumEmpty
<1>2. ASSUME NEW T \in SUBSET S, NEW x \in S \ T, T \in P
      PROVE  T \cup {x} \in P
  <2>1. /\ IsFiniteSet(T) /\ Numbers(f, T \cup {x}) /\ Numbers(f, T)
    BY FS_Subset DEF Numbers
  <2>2. h[x] = a * f[x] /\ f[x] \in Int /\ Numbers(h, T \cup {x})
    BY DEF Numbers
  <2>3. /\ SumFunctionOnSet(f, T \cup {x}) = SumFunctionOnSet(f, T) + f[x]
        /\ SumFunctionOnSet(h, T \cup {x}) = SumFunctionOnSet(h, T) + h[x]
    BY <2>1, <2>2, SumAdd
  <2>4. SumFunctionOnSet(f, T) \in Int
    BY <2>1, SumInt
  <2>5. \A F, u \in Int : a * F + a * u = a * (F + u)
    OBVIOUS
  <2>6. QED
    BY <1>2, <2>2, <2>3, <2>4, <2>5
<1> HIDE DEF P
<1>3. S \in P
  BY <1>1, <1>2, SubsetInduction
<1>4. QED
  BY <1>3 DEF P

\* Sums of natural numbers.
LEMMA SumNat ==
  ASSUME NEW f, NEW S, IsFiniteSet(S), \A x \in S : f[x] \in Nat
  PROVE  SumFunctionOnSet(f, S) \in Nat
<1> DEFINE P == {T \in SUBSET S : SumFunctionOnSet(f, T) \in Nat}
<1>1. {} \in P
  BY SumEmpty
<1>2. ASSUME NEW T \in SUBSET S, NEW x \in S \ T, T \in P
      PROVE  T \cup {x} \in P
  <2>1. IsFiniteSet(T) /\ Numbers(f, T \cup {x})
    BY FS_Subset DEF Numbers
  <2>2. SumFunctionOnSet(f, T \cup {x}) = SumFunctionOnSet(f, T) + f[x]
    BY <2>1, SumAdd
  <2>3. QED
    BY <1>2, <2>2
<1> HIDE DEF P
<1>3. S \in P
  BY <1>1, <1>2, SubsetInduction
<1>4. QED
  BY <1>3 DEF P

\* A part is no more than the whole, and an element no more than the sum.
LEMMA SumPart ==
  ASSUME NEW f, NEW S, IsFiniteSet(S), \A x \in S : f[x] \in Nat, NEW T \in SUBSET S
  PROVE  /\ SumFunctionOnSet(f, T) <= SumFunctionOnSet(f, S)
         /\ SumFunctionOnSet(f, S) = SumFunctionOnSet(f, T) + SumFunctionOnSet(f, S \ T)
         /\ \A x \in S : f[x] <= SumFunctionOnSet(f, S)
<1>1. IsFiniteSet(T) /\ IsFiniteSet(S \ T) /\ T \cup (S \ T) = S /\ T \cap (S \ T) = {}
  BY FS_Subset
<1>2. Numbers(f, T \cup (S \ T)) /\ Numbers(f, S)
  BY DEF Numbers
<1>3. SumFunctionOnSet(f, S) = SumFunctionOnSet(f, T) + SumFunctionOnSet(f, S \ T)
  BY <1>1, <1>2, SumUnion
<1>4. /\ SumFunctionOnSet(f, T) \in Nat /\ SumFunctionOnSet(f, S \ T) \in Nat
      /\ \A x \in S : SumFunctionOnSet(f, S \ {x}) \in Nat
  BY <1>1, FS_Subset, SumNat
<1>5. \A x \in S : SumFunctionOnSet(f, S) = f[x] + SumFunctionOnSet(f, S \ {x})
  BY <1>2, SumRemove
<1>6. SumFunctionOnSet(f, T) <= SumFunctionOnSet(f, S)
  BY <1>3, <1>4
<1>7. ASSUME NEW x \in S PROVE f[x] <= SumFunctionOnSet(f, S)
  <2>1. f[x] \in Nat /\ SumFunctionOnSet(f, S \ {x}) \in Nat
    BY <1>4
  <2>2. SumFunctionOnSet(f, S) = f[x] + SumFunctionOnSet(f, S \ {x})
    BY <1>5
  <2>3. QED
    BY <2>1, <2>2
<1>8. QED
  BY <1>3, <1>6, <1>7

\* A sum of positive numbers over some elements is positive.
LEMMA SumPositive ==
  ASSUME NEW f, NEW S, IsFiniteSet(S), S # {}, \A x \in S : f[x] \in Nat \ {0}
  PROVE  SumFunctionOnSet(f, S) \in Nat \ {0}
<1>1. PICK x \in S : TRUE
  OBVIOUS
<1>2. f[x] <= SumFunctionOnSet(f, S) /\ SumFunctionOnSet(f, S) \in Nat
  BY SumNat, SumPart
<1>3. QED
  BY <1>2

\* g on 1..n is f after the first c.
Shifted(f, g, c, n) == \A i \in 1..n : g[i] = f[c + i] /\ g[i] \in Int

\* The sum over a stretch of a sequence is the sum over the subsequence.
LEMMA SumShift ==
  ASSUME NEW f, NEW g, NEW c \in Nat, NEW n \in Nat, Shifted(f, g, c, n)
  PROVE  SumFunctionOnSet(g, 1..n) = SumFunctionOnSet(f, (c + 1)..(c + n))
<1> DEFINE P == {m \in Nat : m <= n => SumFunctionOnSet(g, 1..m)
                                         = SumFunctionOnSet(f, (c + 1)..(c + m))}
<1> USE DEF Shifted
<1>1. 0 \in P
  <2>1. 1..0 = {} /\ (c + 1)..(c + 0) = {}
    OBVIOUS
  <2>2. QED
    BY <2>1, SumEmpty
<1>2. ASSUME NEW m \in Nat, m \in P
      PROVE  m + 1 \in P
  <2> SUFFICES ASSUME m + 1 <= n
               PROVE  SumFunctionOnSet(g, 1..(m + 1))
                        = SumFunctionOnSet(f, (c + 1)..(c + (m + 1)))
    OBVIOUS
  <2>1. PICK A, B : A = 1..m /\ B = (c + 1)..(c + m)
    OBVIOUS
  <2>2. /\ 1..(m + 1) = A \cup {m + 1} /\ m + 1 \notin A
        /\ (c + 1)..(c + (m + 1)) = B \cup {c + (m + 1)} /\ c + (m + 1) \notin B
    <3>1. 1..(m + 1) = A \cup {m + 1} /\ m + 1 \notin A
      BY <2>1
    <3>2. PICK d \in Nat : d = c + m /\ c + (m + 1) = d + 1 /\ c <= d
      OBVIOUS
    <3>3. B = (c + 1)..d
      BY <2>1, <3>2
    <3>4. (c + 1)..(d + 1) = B \cup {d + 1} /\ d + 1 \notin B
      BY <3>2, <3>3
    <3>5. QED
      BY <3>1, <3>2, <3>4
  <2>3. IsFiniteSet(A) /\ IsFiniteSet(B)
    BY <2>1, FS_Interval
  <2>4. Numbers(g, A \cup {m + 1})
    BY <2>1 DEF Numbers
  <2>5. Numbers(f, B \cup {c + (m + 1)})
    <3>1. ASSUME NEW j \in B \cup {c + (m + 1)}
          PROVE  f[j] \in Int
      <4>1. j - c \in 1..n /\ c + (j - c) = j
        BY <2>1
      <4>2. QED
        BY <4>1
    <3>2. QED
      BY <3>1 DEF Numbers
  <2>6. SumFunctionOnSet(g, A \cup {m + 1}) = SumFunctionOnSet(g, A) + g[m + 1]
    BY <2>2, <2>3, <2>4, SumAdd
  <2>7. SumFunctionOnSet(f, B \cup {c + (m + 1)})
          = SumFunctionOnSet(f, B) + f[c + (m + 1)]
    BY <2>2, <2>3, <2>5, SumAdd
  <2>8. SumFunctionOnSet(g, A) = SumFunctionOnSet(f, B)
    BY <1>2, <2>1
  <2>9. g[m + 1] = f[c + (m + 1)]
    OBVIOUS
  <2>10. QED
    BY <2>2, <2>6, <2>7, <2>8, <2>9
<1> HIDE DEF P
<1>3. Nat \subseteq P
  BY <1>1, <1>2, SetInduction
<1>4. QED
  BY <1>3 DEF P

\* The least of some natural numbers.
LEMMA LeastIs ==
  ASSUME NEW S \in SUBSET Nat, S # {}
  PROVE  \E x \in S : \A y \in S : x <= y
<1> DEFINE P == {m \in Nat : (\E x \in S : x <= m) => \E x \in S : \A y \in S : x <= y}
<1>1. 0 \in P
  <2>1. ASSUME NEW x \in S, x <= 0 PROVE \A y \in S : x <= y
    BY <2>1
  <2>2. QED
    BY <2>1
<1>2. ASSUME NEW m \in Nat, m \in P PROVE m + 1 \in P
  <2>1. SUFFICES ASSUME NEW x \in S, x <= m + 1, ~ \E y \in S : y <= m
                 PROVE  \A y \in S : x <= y
    BY <1>2
  <2>2. ASSUME NEW y \in S PROVE x <= y
    <3>1. x \in Nat /\ y \in Nat /\ ~(y <= m)
      BY <2>1
    <3>2. QED
      BY <2>1, <3>1
  <2>3. QED
    BY <2>2
<1> HIDE DEF P
<1>3. Nat \subseteq P
  BY <1>1, <1>2, SetInduction
<1>4. PICK x \in S : x \in P
  BY <1>3
<1>5. QED
  BY <1>4 DEF P
-----------------------------------------------------------------------------
(* Places: an element of a sequence by how many go before it.              *)

\* U[i] is what does not come after i, in some strict order of D.
Chain(U, D) ==
  /\ \A i \in D : U[i] \in SUBSET D /\ i \in U[i]
  /\ \A i, j \in D : i # j =>
       \/ U[i] \subseteq U[j] /\ j \notin U[i]
       \/ U[j] \subseteq U[i] /\ i \notin U[j]

\* The sizes of a chain are all different and leave out none.
LEMMA ChainPlaces ==
  ASSUME NEW D, IsFiniteSet(D), NEW U, Chain(U, D)
  PROVE  /\ Cardinality(D) \in Nat
         /\ \A i \in D : Cardinality(U[i]) \in 1..Cardinality(D)
         /\ \A i, j \in D : Cardinality(U[i]) = Cardinality(U[j]) => i = j
         /\ \A r \in 1..Cardinality(D) : \E i \in D : Cardinality(U[i]) = r
<1> DEFINE m == Cardinality(D)
           rank == [i \in D |-> Cardinality(U[i])]
<1>1. m \in Nat
  BY FS_CardinalityType
<1>2. ASSUME NEW i \in D
      PROVE  IsFiniteSet(U[i]) /\ Cardinality(U[i]) \in 1..m
  <2>0. U[i] \in SUBSET D /\ i \in U[i]
    BY DEF Chain
  <2>1. IsFiniteSet(U[i]) /\ Cardinality(U[i]) <= m
    BY <2>0, FS_Subset
  <2>2. Cardinality(U[i]) \in Nat /\ Cardinality(U[i]) # 0
    BY <2>0, <2>1, FS_CardinalityType, FS_EmptySet
  <2>3. QED
    BY <1>1, <2>1, <2>2
<1>3. ASSUME NEW i \in D, NEW j \in D, U[i] \subseteq U[j], j \notin U[i]
      PROVE  Cardinality(U[i]) # Cardinality(U[j])
  <2>1. U[i] \in SUBSET U[j] /\ U[i] # U[j]
    BY <1>3 DEF Chain
  <2>2. QED
    BY <1>2, <2>1, FS_Subset
<1>4. ASSUME NEW i \in D, NEW j \in D, Cardinality(U[i]) = Cardinality(U[j])
      PROVE  i = j
  BY <1>3, <1>4 DEF Chain
<1>5. rank \in Injection(D, 1..m)
  <2>1. rank \in [D -> 1..m]
    BY <1>2
  <2>2. \A i, j \in D : rank[i] = rank[j] => i = j
    BY <1>4
  <2>3. QED
    BY <2>1, <2>2, Fun_IsInj
<1>6. rank \in Surjection(D, 1..m)
  <2>1. IsFiniteSet(1..m) /\ Cardinality(1..m) = m
    BY <1>1, FS_Interval
  <2>2. QED
    BY <1>5, <2>1, FS_Injection
<1>7. \A r \in 1..m : \E i \in D : rank[i] = r
  BY <1>6 DEF Surjection
<1>8. QED
  BY <1>1, <1>2, <1>4, <1>7

\* p lists the elements of D, each once.
Lists(p, m, D) ==
  /\ p \in [1..m -> D]
  /\ \A i, j \in 1..m : p[i] = p[j] => i = j
  /\ \A x \in D : \E i \in 1..m : p[i] = x

\* The elements by their places.
IsPlacing(p, U, D) ==
  p = [r \in 1..Cardinality(D) |-> CHOOSE i \in D : Cardinality(U[i]) = r]

LEMMA ByPlace ==
  ASSUME NEW D, IsFiniteSet(D), NEW U,
         Chain(U, D), NEW p, IsPlacing(p, U, D)
  PROVE  /\ Cardinality(D) \in Nat /\ Lists(p, Cardinality(D), D)
         /\ \A r \in 1..Cardinality(D) : Cardinality(U[p[r]]) = r
<1> DEFINE m == Cardinality(D)
<1>1. /\ m \in Nat
      /\ \A i \in D : Cardinality(U[i]) \in 1..m
      /\ \A i, j \in D : Cardinality(U[i]) = Cardinality(U[j]) => i = j
      /\ \A r \in 1..m : \E i \in D : Cardinality(U[i]) = r
  BY ChainPlaces
<1> HIDE DEF m
<1>2. \A r \in 1..m : p[r] \in D /\ Cardinality(U[p[r]]) = r
  BY <1>1 DEF m, IsPlacing
<1>3. p \in [1..m -> D]
  BY <1>2 DEF m, IsPlacing
<1>4. \A i, j \in 1..m : p[i] = p[j] => i = j
  BY <1>2
<1>5. ASSUME NEW x \in D PROVE \E i \in 1..m : p[i] = x
  BY <1>1, <1>2
<1>6. QED
  BY <1>1, <1>2, <1>3, <1>4, <1>5 DEF Lists, m
-----------------------------------------------------------------------------
(* The elements of a sequence that pass, and those that two have in common.*)

\* Indexes by how many of them are no later.
AreUpTo(U, H) == U = [j \in H |-> {i \in H : i <= j}]

LEMMA IndexOrder ==
  ASSUME NEW N \in Nat, NEW H \in SUBSET (1..N), NEW U, AreUpTo(U, H)
  PROVE  Chain(U, H)
<1>1. \A i \in H : U[i] \in SUBSET H /\ i \in U[i]
  BY DEF AreUpTo
<1>2. ASSUME NEW i \in H, NEW j \in H, i < j
      PROVE  U[i] \subseteq U[j] /\ j \notin U[i]
  <2>1. U[i] = {l \in H : l <= i} /\ U[j] = {l \in H : l <= j}
    BY DEF AreUpTo
  <2>2. \A l \in H : l <= i => l <= j
    BY <1>2
  <2>3. ~(j <= i)
    BY <1>2
  <2>4. QED
    BY <2>1, <2>2, <2>3
<1>3. ASSUME NEW i \in H, NEW j \in H, i # j
      PROVE  \/ U[i] \subseteq U[j] /\ j \notin U[i]
             \/ U[j] \subseteq U[i] /\ i \notin U[j]
  <2>1. i < j \/ j < i
    BY <1>3
  <2>2. QED
    BY <1>2, <2>1
<1>4. QED
  BY <1>1, <1>3 DEF Chain

\* What a filter makes of a sequence, of which hits are to stay.
Passing(seq, hits) ==
  [place \in 1..Cardinality(hits) |->
     seq[CHOOSE i \in hits : Cardinality({j \in hits : j <= i}) = place]]

\* It keeps those elements, each once.
KeepsEach(s, H) ==
  \E m, p : m \in Nat /\ Lists(p, m, H) /\ Passing(s, H) = [r \in 1..m |-> s[p[r]]]

LEMMA FilterLists ==
  ASSUME NEW N \in Nat, NEW H \in SUBSET (1..N), NEW s
  PROVE  KeepsEach(s, H)
<1>1. PICK U : AreUpTo(U, H)
  BY DEF AreUpTo
<1>2. Chain(U, H)
  BY <1>1, IndexOrder
<1>3. IsFiniteSet(H)
  <2>1. IsFiniteSet(1..N)
    BY FS_Interval
  <2>2. QED
    BY <2>1, FS_Subset
<1>4. PICK p : IsPlacing(p, U, H)
  BY DEF IsPlacing
<1>5. Cardinality(H) \in Nat /\ Lists(p, Cardinality(H), H)
  BY <1>2, <1>3, <1>4, ByPlace
<1>6. PICK m \in Nat : m = Cardinality(H)
  BY <1>5
<1>7. ASSUME NEW r \in 1..m
      PROVE  p[r] = CHOOSE i \in H : Cardinality({j \in H : j <= i}) = r
  <2>1. p[r] = CHOOSE i \in H : Cardinality(U[i]) = r
    BY <1>4, <1>6 DEF IsPlacing
  <2>2. \A i \in H : U[i] = {j \in H : j <= i}
    BY <1>1 DEF AreUpTo
  <2>3. QED
    BY <2>1, <2>2
<1>8. Passing(s, H) = [r \in 1..m |-> s[p[r]]]
  <2>1. Passing(s, H) =
          [r \in 1..m |-> s[CHOOSE i \in H : Cardinality({j \in H : j <= i}) = r]]
    BY <1>6 DEF Passing
  <2>2. QED
    BY <1>7, <2>1
<1>9. QED
  BY <1>5, <1>6, <1>8 DEF KeepsEach

\* When the first ones pass and no other, it is the head of the sequence.
LEMMA FilterHead ==
  ASSUME NEW m \in Nat, NEW H, H = 1..m, NEW s
  PROVE  Cardinality(H) = m /\ Passing(s, H) = [r \in 1..m |-> s[r]]
<1>1. Cardinality(H) = m
  BY FS_Interval
<1>2. ASSUME NEW i \in H PROVE Cardinality({j \in H : j <= i}) = i
  <2>1. i \in Nat /\ {j \in H : j <= i} = 1..i
    BY <1>2
  <2>2. Cardinality(1..i) = i
    BY <2>1, FS_Interval
  <2>3. QED
    BY <2>1, <2>2
<1>3. ASSUME NEW r \in 1..m
      PROVE  (CHOOSE i \in H : Cardinality({j \in H : j <= i}) = r) = r
  <2>1. r \in H /\ Cardinality({j \in H : j <= r}) = r
    BY <1>2
  <2>2. \A i \in H : Cardinality({j \in H : j <= i}) = r => i = r
    BY <1>2
  <2>3. QED
    BY <2>1, <2>2
<1>4. Passing(s, H) =
        [r \in 1..m |-> s[CHOOSE i \in H : Cardinality({j \in H : j <= i}) = r]]
  BY <1>1 DEF Passing
<1>5. QED
  BY <1>1, <1>3, <1>4

\* How often a sequence holds x.
TimesIn(seq, x) == Cardinality({i \in DOMAIN seq : seq[i] = x})

\* Two sequences of the same elements hold each of them equally often.
Permuted(a, b, p, m) ==
  /\ m \in Nat /\ Lists(p, m, 1..m) /\ a = [i \in 1..m |-> a[i]] /\ b = [i \in 1..m |-> b[i]]
  /\ \A i \in 1..m : a[i] = b[p[i]]

LEMMA SameCount ==
  ASSUME NEW m, NEW p, NEW a, NEW b, Permuted(a, b, p, m), NEW x
  PROVE  TimesIn(a, x) = TimesIn(b, x)
<1> DEFINE A == {i \in 1..m : a[i] = x}
           B == {i \in 1..m : b[i] = x}
           f == [i \in A |-> p[i]]
<1>0. /\ m \in Nat /\ DOMAIN a = 1..m /\ DOMAIN b = 1..m /\ \A i \in 1..m : a[i] = b[p[i]]
  BY DEF Permuted
<1>1. /\ p \in [1..m -> 1..m] /\ \A i, j \in 1..m : p[i] = p[j] => i = j
      /\ \A y \in 1..m : \E i \in 1..m : p[i] = y
  BY DEF Permuted, Lists
<1>2. f \in [A -> B]
  BY <1>0, <1>1
<1>3. \A i, j \in A : f[i] = f[j] => i = j
  BY <1>1
<1>4. \A y \in B : \E i \in A : f[i] = y
  <2>1. ASSUME NEW y \in B PROVE \E i \in A : f[i] = y
    <3>1. PICK i \in 1..m : p[i] = y
      BY <1>1
    <3>2. i \in A
      BY <1>0, <3>1
    <3>3. QED
      BY <3>1, <3>2
  <2>2. QED
    BY <2>1
<1>5. IsFiniteSet(A) /\ IsFiniteSet(B)
  <2>1. IsFiniteSet(1..m)
    BY <1>0, FS_Interval
  <2>2. A \in SUBSET (1..m) /\ B \in SUBSET (1..m)
    OBVIOUS
  <2>3. QED
    BY <2>1, <2>2, FS_Subset
<1> HIDE DEF A, B, f
<1>6. f \in Injection(A, B) /\ f \in Surjection(A, B)
  BY <1>2, <1>3, <1>4 DEF Injection, IsInjective, Surjection
<1>7. f \in Bijection(A, B)
  BY <1>6 DEF Bijection
<1>8. Cardinality(A) = Cardinality(B)
  BY <1>5, <1>7, FS_Bijection DEF ExistsBijection
<1>9. QED
  BY <1>0, <1>8 DEF A, B, TimesIn
-----------------------------------------------------------------------------
(* Sequences whose elements have no set of their own.                      *)

IsArray(s) == Len(s) \in Nat /\ s = [i \in 1..Len(s) |-> s[i]]

LEMMA FunList ==
  ASSUME NEW m \in Nat, NEW s, s = [i \in 1..m |-> s[i]]
  PROVE  Len(s) = m /\ IsArray(s) /\ DOMAIN s = 1..m
<1>1. s \in Seq({s[i] : i \in 1..m}) /\ Len(s) = m
  <2>1. PICK T : T = {s[i] : i \in 1..m}
    OBVIOUS
  <2>2. s \in [1..m -> T]
    BY <2>1
  <2>3. s \in Seq(T)
    BY <2>2
  <2>4. Len(s) = m
    BY <2>2
  <2>5. QED
    BY <2>1, <2>3, <2>4
<1>2. QED
  BY <1>1 DEF IsArray

LEMMA ListType ==
  ASSUME NEW s, IsArray(s)
  PROVE  DOMAIN s = 1..Len(s) /\ Len(s) \in Nat /\ \E T : s \in Seq(T)
<1>1. PICK m \in Nat : m = Len(s) /\ s = [i \in 1..m |-> s[i]]
  BY DEF IsArray
<1>2. PICK T : T = {s[i] : i \in 1..m}
  OBVIOUS
<1>3. s \in [1..m -> T]
  BY <1>1, <1>2
<1>4. s \in Seq(T)
  BY <1>3
<1>5. QED
  BY <1>1, <1>4

LEMMA SeqList ==
  ASSUME NEW T, NEW s \in Seq(T)
  PROVE  IsArray(s) /\ DOMAIN s = 1..Len(s) /\ Len(s) \in Nat
BY DEF IsArray

LEMMA NoArray == IsArray(<<>>) /\ Len(<<>>) = 0 /\ DOMAIN <<>> = {}
BY DEF IsArray

LEMMA ListAppend ==
  ASSUME NEW s, IsArray(s), NEW e
  PROVE  /\ IsArray(Append(s, e)) /\ Len(Append(s, e)) = Len(s) + 1
         /\ DOMAIN Append(s, e) = 1..(Len(s) + 1)
         /\ \A i \in 1..Len(s) : Append(s, e)[i] = s[i]
         /\ Append(s, e)[Len(s) + 1] = e
<1>1. PICK T : s \in Seq(T)
  BY ListType
<1>2. PICK R : R = T \cup {e}
  OBVIOUS
<1>3. s \in Seq(R) /\ e \in R
  <2>1. T \subseteq R /\ e \in R
    BY <1>2
  <2>2. PICK m \in Nat : s \in [1..m -> T]
    BY <1>1
  <2>3. s \in [1..m -> R]
    BY <2>1, <2>2
  <2>4. QED
    BY <2>1, <2>3
<1>4. PICK t : t = Append(s, e)
  OBVIOUS
<1>5. /\ t \in Seq(R) /\ Len(t) = Len(s) + 1 /\ Len(s) \in Nat
      /\ \A i \in 1..Len(s) : t[i] = s[i]
      /\ t[Len(s) + 1] = e
  BY <1>3, <1>4
<1>6. IsArray(t) /\ DOMAIN t = 1..Len(t)
  BY <1>5, SeqList
<1>7. QED
  BY <1>4, <1>5, <1>6

LEMMA ListJoin ==
  ASSUME NEW a, IsArray(a), NEW b, IsArray(b)
  PROVE  /\ IsArray(a \o b) /\ Len(a \o b) = Len(a) + Len(b)
         /\ \A i \in 1..Len(a) : (a \o b)[i] = a[i]
         /\ \A i \in 1..Len(b) : (a \o b)[Len(a) + i] = b[i]
<1>1. PICK y \in Nat, z \in Nat : y = Len(a) /\ z = Len(b)
  BY DEF IsArray
<1>2. PICK T, R : a \in Seq(T) /\ b \in Seq(R)
  BY ListType
<1>3. PICK U : U = T \cup R
  OBVIOUS
<1>4. a \in Seq(U) /\ b \in Seq(U)
  <2>1. T \subseteq U /\ R \subseteq U
    BY <1>3
  <2>2. a \in [1..y -> T] /\ b \in [1..z -> R]
    BY <1>1, <1>2
  <2>3. a \in [1..y -> U] /\ b \in [1..z -> U]
    BY <2>1, <2>2
  <2>4. QED
    BY <2>3
<1>5. PICK t : t = a \o b
  OBVIOUS
<1>6. /\ t \in Seq(U) /\ Len(t) = y + z
      /\ \A i \in 1..y : t[i] = a[i]
      /\ \A i \in 1..z : t[y + i] = b[i]
  <2>1. t \in Seq(U) /\ Len(t) = y + z
    BY <1>1, <1>4, <1>5
  <2>2. \A i \in 1..y : t[i] = a[i]
    BY <1>1, <1>4, <1>5
  <2>3. ASSUME NEW i \in 1..z PROVE t[y + i] = b[i]
    <3>1. y + i \in 1..(y + z) /\ y + i > y /\ (y + i) - y = i
      OBVIOUS
    <3>2. QED
      BY <1>1, <1>4, <1>5, <3>1
  <2>4. QED
    BY <2>1, <2>2, <2>3
<1>7. IsArray(t)
  BY <1>6, SeqList
<1>8. QED
  BY <1>1, <1>5, <1>6, <1>7
=============================================================================
