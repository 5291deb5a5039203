---------------------------- MODULE BatchProofs ----------------------------
(***************************************************************************)
(* The batch runner, proved for every set of requests, of tapes and of     *)
(* failures, any number of cores and any ceiling on the runs: no two       *)
(* workers write the bundle of one run id, the published index is the plan *)
(* run by run whatever the schedule, what it calls Ok is on disk, and the  *)
(* runs of a recorded source replay one tape.                              *)
(*                                                                         *)
(* The invariant follows an entry from the worker that makes it to the     *)
(* index.  Filled says that worker w has the entries of the first runs of  *)
(* its chunk, each true of its run; the chunks follow one another          *)
(* (ChunksFollow), so that the vectors appended in worker order are the    *)
(* plan's (AppendedInOrder) and the sort leaves them so (SortedStays).     *)
(* That an entry is true rests on the seeds of a plan being distinct       *)
(* (SeedsDiffer): what a worker finds on disk is then either older than    *)
(* the batch or its own.                                                   *)
(***************************************************************************)
EXTENDS Batch, Sums, SequenceTheorems

USE ScenarioAssumption, BatchAssumption DEF ScenarioAssumption
-----------------------------------------------------------------------------
(* Chunks.                                                                 *)

\* Division of naturals.
LEMMA DivFacts ==
  ASSUME NEW a \in Nat, NEW b \in Nat \ {0}
  PROVE  /\ a \div b \in Nat
         /\ (a \div b) * b <= a
         /\ a < (a \div b) * b + b
<1> DEFINE q == a \div b
<1>1. q \in Int /\ q * b <= a /\ a < q * b + b
  OBVIOUS
<1>2. q >= 0
  <2>1. CASE q < 0
    <3>1. (q + 1) * b <= 0
      BY <1>1, <2>1
    <3>2. QED
      BY <1>1, <3>1
  <2>2. QED
    BY <1>1, <2>1
<1>3. QED
  BY <1>1, <1>2

LEMMA CeilFacts ==
  ASSUME NEW a \in Nat, NEW b \in Nat \ {0}
  PROVE  /\ CeilDiv(a, b) \in Nat
         /\ a <= CeilDiv(a, b) * b
         /\ CeilDiv(a, b) * b < a + b
         /\ a > 0 => CeilDiv(a, b) > 0
<1> DEFINE q == (a + b - 1) \div b
<1>1. q \in Nat /\ q * b <= a + b - 1 /\ a + b - 1 < q * b + b
  <2>1. a + b - 1 \in Nat
    OBVIOUS
  <2>2. QED
    BY <2>1, DivFacts
<1> HIDE DEF q
<1>2. a > 0 => q > 0
  BY <1>1
<1>3. q \in Nat /\ a <= q * b /\ q * b < a + b
  BY <1>1
<1>4. CeilDiv(a, b) = q
  BY DEF CeilDiv, q
<1>5. QED
  BY <1>2, <1>3, <1>4

LEMMA MulMono ==
  ASSUME NEW x \in Nat, NEW y \in Nat, NEW c \in Nat, x <= y
  PROVE  x * c <= y * c
<1>1. (y - x) * c >= 0
  OBVIOUS
<1>2. QED
  BY <1>1

\* The workers of n runs: c runs each, m of them.
Spans(n, c, m) ==
  /\ c \in Nat \ {0} /\ m \in Nat \ {0}
  /\ (m - 1) * c < n /\ n <= m * c

LEMMA ChunkFacts ==
  ASSUME NEW n \in Nat \ {0}
  PROVE  /\ Spans(n, ChunkSize(n), CeilDiv(n, ChunkSize(n)))
         /\ WorkersFor(n) = 1..CeilDiv(n, ChunkSize(n))
         /\ CeilDiv(n, ChunkSize(n)) <= Cores
<1> DEFINE k == worker_count(n)
           c == CeilDiv(n, k)
           m == CeilDiv(n, c)
<1>1. k \in Nat \ {0} /\ k <= Cores
  BY DEF worker_count, LesserOf, BatchAssumption
<1>2. c \in Nat \ {0} /\ n <= c * k
  <2> HIDE DEF k
  <2>1. QED
    BY <1>1, CeilFacts
<1>3. m \in Nat \ {0} /\ n <= m * c /\ m * c < n + c
  <2> HIDE DEF c
  <2>1. QED
    BY <1>2, CeilFacts
<1>4. m <= k
  <2> HIDE DEF k, c, m
  <2>1. CASE m > k
    <3>1. k * c <= (m - 1) * c
      BY <1>1, <1>2, <1>3, <2>1, MulMono
    <3>2. (m - 1) * c = m * c - c /\ k * c = c * k
      BY <1>1, <1>2, <1>3
    <3>3. QED
      BY <1>1, <1>2, <1>3, <3>1, <3>2
  <2>2. QED
    BY <1>1, <1>3, <2>1
<1>5. (m - 1) * c < n
  <2> HIDE DEF k, c, m
  <2>1. (m - 1) * c = m * c - c /\ m * c \in Nat
    BY <1>2, <1>3
  <2>2. QED
    BY <1>2, <1>3, <2>1
<1>6. c = ChunkSize(n)
  BY DEF ChunkSize
<1>7. m <= Cores
  <2> HIDE DEF m
  <2>1. QED
    BY <1>1, <1>3, <1>4 DEF BatchAssumption
<1>8. QED
  <2> HIDE DEF m, c
  <2>1. Spans(n, c, m)
    BY <1>2, <1>3, <1>5 DEF Spans
  <2>2. m = CeilDiv(n, c)
    BY DEF m
  <2>3. QED
    BY <1>6, <1>7, <2>1, <2>2 DEF WorkersFor

\* The chunks of the workers 1..m follow one another from 1 to Len(plan).
Chunked(m) ==
  /\ m \in Nat \ {0} /\ m <= Cores /\ WorkersFor(Len(plan)) = 1..m
  /\ FirstOf(1) = 1 /\ LastOf(m) = Len(plan)
  /\ \A w \in 1..m :
       /\ FirstOf(w) \in Nat \ {0} /\ LastOf(w) \in Nat
       /\ FirstOf(w) <= LastOf(w) /\ LastOf(w) <= Len(plan)
       /\ w < m => FirstOf(w + 1) = LastOf(w) + 1
  /\ \A v, w \in 1..m : v < w => LastOf(v) < FirstOf(w)

LEMMA ChunksFollow ==
  ASSUME Len(plan) \in Nat \ {0}
  PROVE  \E m \in Nat : Chunked(m)
<1> DEFINE n == Len(plan)
           c == ChunkSize(n)
           m == CeilDiv(n, c)
<1>1. /\ c \in Nat \ {0} /\ m \in Nat \ {0} /\ (m - 1) * c < n /\ n <= m * c
      /\ WorkersFor(n) = 1..m /\ m <= Cores
  BY ChunkFacts DEF Spans
<1>2. \A w : /\ FirstOf(w) = (w - 1) * c + 1
             /\ LastOf(w) = IF w * c < n THEN w * c ELSE n
  BY DEF FirstOf, LastOf, LesserOf
<1> HIDE DEF n, c, m
<1>3. n \in Nat
  BY DEF n
<1>4. ASSUME NEW w \in 1..m
      PROVE  /\ w * c \in Nat /\ (w - 1) * c \in Nat /\ w * c = (w - 1) * c + c
             /\ (w - 1) * c < n
             /\ w < m => w * c < n
  <2>1. w * c \in Nat /\ (w - 1) * c \in Nat /\ w * c = (w - 1) * c + c /\ (m - 1) * c \in Nat
    BY <1>1
  <2>2. (w - 1) * c <= (m - 1) * c
    BY <1>1, MulMono
  <2>3. w < m => w * c <= (m - 1) * c
    BY <1>1, MulMono
  <2>4. QED
    BY <1>1, <1>3, <2>1, <2>2, <2>3
<1>5. ASSUME NEW w \in 1..m
      PROVE  /\ FirstOf(w) \in Nat \ {0} /\ LastOf(w) \in Nat
             /\ FirstOf(w) <= LastOf(w) /\ LastOf(w) <= n /\ LastOf(w) <= w * c
             /\ w < m => FirstOf(w + 1) = LastOf(w) + 1
  <2>1. FirstOf(w) = (w - 1) * c + 1 /\ LastOf(w) = IF w * c < n THEN w * c ELSE n
    BY <1>2
  <2>2. FirstOf(w + 1) = w * c + 1
    BY <1>2
  <2>3. QED
    BY <1>1, <1>3, <1>4, <2>1, <2>2
<1>6. ASSUME NEW v \in 1..m, NEW w \in 1..m, v < w
      PROVE  LastOf(v) < FirstOf(w)
  <2>1. v * c <= (w - 1) * c
    BY <1>1, <1>6, MulMono
  <2>2. FirstOf(w) = (w - 1) * c + 1
    BY <1>2
  <2>3. LastOf(v) <= v * c /\ LastOf(v) \in Nat /\ v * c \in Nat /\ (w - 1) * c \in Nat
    BY <1>4, <1>5
  <2>4. QED
    BY <2>1, <2>2, <2>3
<1>7. FirstOf(1) = 1 /\ LastOf(m) = n
  <2>1. FirstOf(1) = (1 - 1) * c + 1 /\ LastOf(m) = IF m * c < n THEN m * c ELSE n
    BY <1>2
  <2>2. (1 - 1) * c = 0 /\ m * c \in Nat
    BY <1>1
  <2>3. QED
    BY <1>1, <1>3, <2>1, <2>2
<1>8. m \in Nat /\ Chunked(m)
  <2>1. WorkersFor(Len(plan)) = 1..m /\ n = Len(plan)
    BY <1>1 DEF n
  <2>2. QED
    BY <1>1, <1>5, <1>6, <1>7, <2>1 DEF Chunked
<1>9. QED
  BY <1>8

-----------------------------------------------------------------------------
(* The plan.                                                               *)

\* What expand promises of an accepted batch.
PlanFor(req) ==
  /\ ExpandError(req.params, req.base) = "none"
  /\ plan = Expand(req.params, req.base)

\* An override pinned by two entries of the sweep.
Twice(req) ==
  \E i, j \in DOMAIN req.params.sweep :
    /\ i < j
    /\ req.params.sweep[i].seed = req.params.sweep[j].seed
    /\ req.params.sweep[i].seed # None

LEMMA OverridesTyped ==
  ASSUME NEW req \in Requests
  PROVE  /\ req.params.count \in Nat
         /\ DOMAIN Overrides(req.params) = 1..Len(Overrides(req.params))
         /\ Len(Overrides(req.params)) \in Nat \ {0}
         /\ Total(req.params) = Len(Overrides(req.params)) * req.params.count
         /\ Total(req.params) \in Nat
<1>1. /\ req.params.count \in Nat
      /\ req.params.sweep \in Seq([seed : Int, factor : Int, delta : Int])
  BY DEF BatchAssumption, IsRequest
<1>2. /\ DOMAIN Overrides(req.params) = 1..Len(Overrides(req.params))
      /\ Len(Overrides(req.params)) \in Nat \ {0}
  <2>1. CASE req.params.sweep = <<>>
    BY <2>1 DEF Overrides
  <2>2. CASE req.params.sweep # <<>>
    <3>1. Len(req.params.sweep) # 0
      BY <1>1, <2>2, EmptySeq
    <3>2. QED
      BY <1>1, <2>2, <3>1 DEF Overrides
  <2>3. QED
    BY <2>1, <2>2
<1>3. QED
  BY <1>1, <1>2 DEF Total

\* The runs of a plan.
LEMMA PlanShape ==
  ASSUME NEW req \in Requests, PlanFor(req)
  PROVE  /\ Len(plan) = Total(req.params) /\ DOMAIN plan = 1..Len(plan)
         /\ Len(plan) \in Nat /\ Len(plan) <= MaxRuns
         /\ \A i \in DOMAIN plan : plan[i] = DeriveConfig(req.params, req.base, i)
<1>1. Total(req.params) \in Nat
  BY OverridesTyped
<1>2. plan = [i \in 1..Total(req.params) |-> DeriveConfig(req.params, req.base, i)]
  BY DEF PlanFor, Expand
<1>3. ~(Total(req.params) > MaxRuns)
  BY DEF PlanFor, ExpandError
<1>4. Len(plan) = Total(req.params) /\ DOMAIN plan = 1..Total(req.params)
  BY <1>1, <1>2
<1>5. QED
  BY <1>1, <1>2, <1>3, <1>4

\* A run keeps the kind of the source, and a recorded source altogether.
LEMMA PlanSources ==
  ASSUME NEW req \in Requests, PlanFor(req), NEW i \in DOMAIN plan
  PROVE  /\ plan[i].source.kind = req.base.source.kind
         /\ req.base.source.kind = "parquet" => plan[i].source = req.base.source
<1>1. req.base = [seed |-> req.base.seed, source |-> req.base.source, valid |-> req.base.valid]
      /\ {"kind", "pin"} \subseteq DOMAIN req.base.source
  BY DEF BatchAssumption, IsRequest
<1>2. plan[i] = DeriveConfig(req.params, req.base, i)
  BY PlanShape
<1>3. CASE req.base.source.kind # "simulator"
  <2>1. plan[i].source = req.base.source
    BY <1>1, <1>2, <1>3 DEF DeriveConfig
  <2>2. QED
    BY <2>1
<1>4. CASE req.base.source.kind = "simulator"
  <2> DEFINE s == [req.base.source EXCEPT
                     !.data_seed = child_data_seed(req.params.base_seed, RunIndex(req.params, i)),
                     !.pin = "none"]
  <2>1. plan[i].source = Shocked(s, OverrideOf(req.params, i))
    BY <1>1, <1>2, <1>4 DEF DeriveConfig
  <2>2. "kind" \in DOMAIN s /\ s.kind = "simulator"
    BY <1>1, <1>4
  <2> HIDE DEF s
  <2>3. \A o : Shocked(s, o).kind = s.kind
    BY <2>2 DEF Shocked
  <2>4. QED
    BY <1>4, <2>1, <2>2, <2>3
<1>5. QED
  BY <1>3, <1>4

\* The override of a run, when an override that pins a seed is not replicated:
\* run i has the i-th one, or one that pins nothing.
LEMMA OverridesOfRuns ==
  ASSUME NEW req \in Requests, PlanFor(req), NEW i \in DOMAIN plan
  PROVE  \/ OverrideOf(req.params, i).seed = None
         \/ /\ i \in DOMAIN Overrides(req.params)
            /\ OverrideOf(req.params, i) = Overrides(req.params)[i]
<1> DEFINE c == req.params.count
           L == Len(Overrides(req.params))
           q == (i - 1) \div c
<1>1. /\ c \in Nat /\ L \in Nat \ {0} /\ i \in Nat \ {0} /\ i <= L * c
      /\ DOMAIN Overrides(req.params) = 1..L
  BY OverridesTyped, PlanShape
<1>2. OverrideOf(req.params, i) = Overrides(req.params)[q + 1]
  BY DEF OverrideOf
<1>3. c # 0
  BY <1>1
<1>4. q \in Nat /\ q + 1 \in 1..L
  <2>0. i - 1 \in Nat
    BY <1>1
  <2>1. q \in Nat /\ q * c <= i - 1 /\ i - 1 < q * c + c
    BY <1>1, <1>3, <2>0, DivFacts
  <2>2. i <= L * c
    BY <1>1
  <2> HIDE DEF c, L, q
  <2>3. q < L
    <3>1. CASE q >= L
      <4>1. L * c <= q * c
        BY <1>1, <2>1, <3>1, MulMono
      <4>2. QED
        BY <1>1, <2>1, <2>2, <4>1
    <3>2. QED
      BY <1>1, <2>1, <3>1
  <2>4. QED
    BY <1>1, <2>1, <2>3
<1>5. CASE c = 1
  <2>1. q = i - 1
    BY <1>1, <1>5
  <2>2. QED
    BY <1>1, <1>2, <1>4, <2>1
<1>6. CASE c # 1
  <2>1. c > 1 /\ ~Replicates(req.params)
    BY <1>1, <1>3, <1>6 DEF PlanFor, ExpandError
  <2>2. Overrides(req.params)[q + 1].seed = None
    BY <1>1, <1>4, <2>1 DEF Replicates
  <2>3. QED
    BY <1>2, <2>2
<1>7. QED
  BY <1>5, <1>6

\* Seeds of different origins differ.
LEMMA SeedOrigins ==
  /\ \A x, y : Explicit(x) = Explicit(y) => x = y
  /\ \A x, b, i : Explicit(x) # child_seed(b, i)
  /\ \A b, i, j : child_seed(b, i) = child_seed(b, j) => i = j
<1>1. \A x, y : Explicit(x) = Explicit(y) => x = y
  <2>1. \A x : Explicit(x)[2] = x
    BY DEF Explicit
  <2>2. QED
    BY <2>1
<1>2. \A x, b, i : Explicit(x) # child_seed(b, i)
  <2>1. \A x, b, i : Explicit(x)[1] = "explicit" /\ child_seed(b, i)[1] = "engine"
    BY DEF Explicit, child_seed
  <2>2. QED
    BY <2>1
<1>3. \A b, i, j : child_seed(b, i) = child_seed(b, j) => i = j
  <2>1. \A b, i : child_seed(b, i)[3] = i
    BY DEF child_seed
  <2>2. QED
    BY <2>1
<1>4. QED
  BY <1>1, <1>2, <1>3

\* Unless a seed is pinned twice, no two runs share one.
LEMMA SeedsDiffer ==
  ASSUME NEW req \in Requests, PlanFor(req), ~Twice(req),
         NEW i \in DOMAIN plan, NEW j \in DOMAIN plan, i < j
  PROVE  plan[i].seed # plan[j].seed
<1> DEFINE o(k) == OverrideOf(req.params, k)
           seed(k) == IF o(k).seed # None THEN Explicit(o(k).seed)
                      ELSE child_seed(req.params.base_seed, RunIndex(req.params, k))
<1>1. ASSUME NEW k \in DOMAIN plan
      PROVE  plan[k].seed = seed(k)
  <2>1. req.base = [seed |-> req.base.seed, source |-> req.base.source, valid |-> req.base.valid]
    BY DEF BatchAssumption, IsRequest
  <2>2. plan[k] = DeriveConfig(req.params, req.base, k)
    BY PlanShape
  <2> HIDE DEF o
  <2>3. QED
    BY <2>1, <2>2 DEF DeriveConfig, o
<1>2. i \in Nat /\ j \in Nat
  BY PlanShape
<1>3. CASE o(i).seed # None /\ o(j).seed # None
  <2>1. /\ i \in DOMAIN Overrides(req.params) /\ o(i) = Overrides(req.params)[i]
        /\ j \in DOMAIN Overrides(req.params) /\ o(j) = Overrides(req.params)[j]
    BY <1>3, OverridesOfRuns
  <2>2. Overrides(req.params) = req.params.sweep
    BY <1>3, <2>1 DEF Overrides, NoOverride
  <2>3. o(i).seed # o(j).seed
    BY <1>3, <2>1, <2>2 DEF Twice
  <2>4. plan[i].seed = Explicit(o(i).seed) /\ plan[j].seed = Explicit(o(j).seed)
    BY <1>1, <1>3
  <2>5. QED
    BY <2>3, <2>4, SeedOrigins
<1>4. CASE ~(o(i).seed # None /\ o(j).seed # None)
  <2>1. i - 1 # j - 1
    BY <1>2
  <2> DEFINE b == req.params.base_seed
  <2>2. ASSUME NEW k \in DOMAIN plan
        PROVE  plan[k].seed = IF o(k).seed # None THEN Explicit(o(k).seed) ELSE child_seed(b, k - 1)
    BY <1>1 DEF RunIndex
  <2> HIDE DEF o, b, seed
  <2>3. QED
    BY <1>4, <2>1, <2>2, SeedOrigins
<1>5. QED
  BY <1>3, <1>4

-----------------------------------------------------------------------------
(* The join.                                                               *)

\* Entries whose indexes are their places stay in place.
LEMMA SortedStays ==
  ASSUME NEW S, NEW s \in Seq(S), \A j \in DOMAIN s : s[j].index = j - 1
  PROVE  SortedByIndex(s) = s
<1>1. DOMAIN s = 1..Len(s) /\ Len(s) \in Nat
  OBVIOUS
<1>2. ASSUME NEW j \in DOMAIN s
      PROVE  Cardinality(UpTo(s, j)) = j
  <2>1. j \in Nat /\ j <= Len(s)
    BY <1>1
  <2>2. \A k \in DOMAIN s : k \in Nat /\ s[k].index = k - 1
    BY <1>1
  <2>3. UpTo(s, j) = 1..j
    BY <1>1, <2>1, <2>2 DEF UpTo
  <2>4. QED
    BY <2>1, <2>3, FS_Interval
<1>3. ASSUME NEW i \in DOMAIN s
      PROVE  (CHOOSE j \in DOMAIN s : Cardinality(UpTo(s, j)) = i) = i
  BY <1>2
<1>4. DOMAIN SortedByIndex(s) = DOMAIN s
  BY DEF SortedByIndex
<1>5. \A i \in DOMAIN s : SortedByIndex(s)[i] = s[i]
  <2>1. \A i \in DOMAIN s :
          SortedByIndex(s)[i] = s[CHOOSE j \in DOMAIN s : Cardinality(UpTo(s, j)) = i]
    BY DEF SortedByIndex
  <2>2. QED
    BY <1>3, <2>1
<1>6. SortedByIndex(s) = [i \in DOMAIN s |-> SortedByIndex(s)[i]]
  BY DEF SortedByIndex
<1>7. s = [i \in DOMAIN s |-> s[i]]
  BY <1>1
<1>8. QED
  BY <1>4, <1>5, <1>6, <1>7

\* The recursive function of FlattenSeq.
Flattens(g, s, n) ==
  g = [i \in 1..n |-> IF i = 1 THEN s[i] ELSE g[i - 1] \o s[i]]

LEMMA FlattensExists ==
  ASSUME NEW s, NEW n \in Nat
  PROVE  \E g : Flattens(g, s, n)
<1> DEFINE P == {k \in Nat : \E g : Flattens(g, s, k)}
<1>1. 0 \in P
  <2>1. Flattens([i \in 1..0 |-> s[i]], s, 0)
    BY DEF Flattens
  <2>2. QED
    BY <2>1
<1>2. ASSUME NEW k \in Nat, k \in P
      PROVE  k + 1 \in P
  <2>1. PICK g : Flattens(g, s, k)
    BY <1>2
  <2> DEFINE h == [i \in 1..(k + 1) |-> IF i = 1 THEN s[i] ELSE g[i - 1] \o s[i]]
  <2>2. \A i \in 1..k : h[i] = g[i]
    <3>1. \A i \in 1..k : g[i] = IF i = 1 THEN s[i] ELSE g[i - 1] \o s[i]
      BY <2>1 DEF Flattens
    <3>2. \A i \in 1..k : h[i] = IF i = 1 THEN s[i] ELSE g[i - 1] \o s[i]
      OBVIOUS
    <3> HIDE DEF h
    <3>3. QED
      BY <3>1, <3>2
  <2>3. \A i \in 1..(k + 1) : i # 1 => i - 1 \in 1..k
    OBVIOUS
  <2>4. \A i \in 1..(k + 1) : h[i] = IF i = 1 THEN s[i] ELSE h[i - 1] \o s[i]
    BY <2>2, <2>3
  <2>5. Flattens(h, s, k + 1)
    BY <2>4 DEF Flattens
  <2> HIDE DEF h
  <2>6. QED
    BY <2>5
<1> HIDE DEF P
<1>3. Nat \subseteq P
  BY <1>1, <1>2, SetInduction
<1>4. QED
  BY <1>3 DEF P

LEMMA FlattenSeqIs ==
  ASSUME NEW s, Len(s) \in Nat \ {0}
  PROVE  \E g : Flattens(g, s, Len(s)) /\ FlattenSeq(s) = g[Len(s)]
<1> DEFINE g == CHOOSE g : Flattens(g, s, Len(s))
<1>1. Flattens(g, s, Len(s))
  BY FlattensExists
<1>2. FlattenSeq(s) = g[Len(s)]
  BY DEF FlattenSeq, Flattens
<1>3. QED
  BY <1>1, <1>2

Size(w) == LastOf(w) - FirstOf(w) + 1

LEMMA Appended ==
  ASSUME NEW S, NEW s \in Seq(S), NEW t \in Seq(S)
  PROVE  /\ \A i \in 1..Len(s) : (s \o t)[i] = s[i]
         /\ \A k \in 1..Len(t) : (s \o t)[Len(s) + k] = t[k]
OBVIOUS

\* The vectors of workers that have finished, appended, have run i at place i.
LEMMA AppendedInOrder ==
  ASSUME NEW m \in Nat, Chunked(m), NEW S, local \in [1..m -> Seq(S)],
         \A w \in 1..m : Len(local[w]) = Size(w)
  PROVE  /\ FlattenSeq(local) \in Seq(S) /\ Len(FlattenSeq(local)) = Len(plan)
         /\ \A w \in 1..m : \A k \in 1..Len(local[w]) :
              FlattenSeq(local)[FirstOf(w) + k - 1] = local[w][k]
<1>1. Len(local) = m /\ m # 0
  BY DEF Chunked
<1>2. PICK g : Flattens(g, local, m) /\ FlattenSeq(local) = g[m]
  BY <1>1, FlattenSeqIs
<1>3. ASSUME NEW w \in 1..m
      PROVE  /\ FirstOf(w) \in Nat \ {0} /\ LastOf(w) \in Nat /\ FirstOf(w) <= LastOf(w)
             /\ local[w] \in Seq(S) /\ Len(local[w]) = LastOf(w) - FirstOf(w) + 1
             /\ w < m => FirstOf(w + 1) = LastOf(w) + 1
  BY DEF Chunked, Size
<1> DEFINE At0(w) == /\ g[w] \in Seq(S) /\ Len(g[w]) = LastOf(w)
                     /\ \A v \in 1..w : \A k \in 1..Len(local[v]) :
                          g[w][FirstOf(v) + k - 1] = local[v][k]
           P == {w \in Nat : w \in 1..m => At0(w)}
<1>4. 0 \in P
  OBVIOUS
<1>5. ASSUME NEW w \in Nat, w \in P
      PROVE  w + 1 \in P
  <2> SUFFICES ASSUME w + 1 \in 1..m
               PROVE  At0(w + 1)
    OBVIOUS
  <2>1. CASE w = 0
    <3>1. g[1] = local[1] /\ w + 1 = 1
      BY <1>1, <1>2, <2>1 DEF Flattens
    <3>2. FirstOf(1) = 1
      BY DEF Chunked
    <3>3. Len(g[1]) = LastOf(1) /\ g[1] \in Seq(S)
      BY <1>3, <3>1, <3>2
    <3>4. \A k \in 1..Len(local[1]) : g[1][FirstOf(1) + k - 1] = local[1][k]
      BY <3>1, <3>2
    <3>5. QED
      BY <3>1, <3>3, <3>4
  <2>2. CASE w # 0
    <3>1. w \in 1..m /\ w < m
      BY <2>2
    <3>2. At0(w)
      BY <1>5, <3>1
    <3>3. g[w + 1] = g[w] \o local[w + 1]
      <4>1. g[w + 1] = IF w + 1 = 1 THEN local[w + 1] ELSE g[(w + 1) - 1] \o local[w + 1]
        BY <1>2 DEF Flattens
      <4>2. w + 1 # 1 /\ (w + 1) - 1 = w
        BY <2>2
      <4> HIDE DEF P, At0
      <4>3. QED
        BY <4>1, <4>2
    <3>4. /\ FirstOf(w + 1) = LastOf(w) + 1 /\ LastOf(w) \in Nat /\ LastOf(w + 1) \in Nat
          /\ local[w + 1] \in Seq(S) /\ Len(local[w + 1]) = LastOf(w + 1) - FirstOf(w + 1) + 1
      BY <1>3, <3>1
    <3>5. g[w + 1] \in Seq(S) /\ Len(g[w + 1]) = LastOf(w + 1)
      <4>1. g[w] \in Seq(S) /\ Len(g[w]) = LastOf(w)
        BY <3>2
      <4> HIDE DEF P, At0
      <4>2. /\ g[w] \o local[w + 1] \in Seq(S)
            /\ Len(g[w] \o local[w + 1]) = Len(g[w]) + Len(local[w + 1])
        <5>1. PICK a, b : a = g[w] /\ b = local[w + 1]
          OBVIOUS
        <5>2. a \in Seq(S) /\ b \in Seq(S)
          BY <3>4, <4>1, <5>1
        <5>3. a \o b \in Seq(S) /\ Len(a \o b) = Len(a) + Len(b)
          BY <5>2, ConcatProperties
        <5>4. QED
          BY <5>1, <5>3
      <4>3. QED
        BY <3>3, <3>4, <4>1, <4>2
    <3>6. ASSUME NEW v \in 1..(w + 1), NEW k \in 1..Len(local[v])
          PROVE  g[w + 1][FirstOf(v) + k - 1] = local[v][k]
      <4>0. /\ g[w] \in Seq(S) /\ Len(g[w]) = LastOf(w) /\ v \in 1..m
            /\ FirstOf(v) \in Nat \ {0} /\ LastOf(v) \in Nat
            /\ Len(local[v]) = LastOf(v) - FirstOf(v) + 1
        BY <1>3, <3>2
      <4>1. CASE v = w + 1
        <5>1. FirstOf(v) + k - 1 = Len(g[w]) + k /\ k \in 1..Len(local[w + 1])
          BY <3>4, <4>0, <4>1
        <5> HIDE DEF P, At0
        <5>2. (g[w] \o local[w + 1])[Len(g[w]) + k] = local[w + 1][k]
          <6>1. g[w] \in Seq(S) /\ local[w + 1] \in Seq(S) /\ k \in 1..Len(local[w + 1])
            BY <3>4, <4>0, <5>1
          <6> DEFINE s == g[w]
                     t == local[w + 1]
          <6>2. s \in Seq(S) /\ t \in Seq(S) /\ k \in 1..Len(t)
            BY <6>1
          <6> HIDE DEF s, t
          <6>3. (s \o t)[Len(s) + k] = t[k]
            BY <6>2, Appended
          <6>4. QED
            BY <6>3 DEF s, t
        <5>3. QED
          BY <3>3, <4>1, <5>1, <5>2
      <4>2. CASE v # w + 1
        <5>1. v \in 1..w /\ LastOf(v) <= LastOf(w)
          <6>1. v < w \/ v = w
            BY <4>2
          <6>2. v < w => LastOf(v) < FirstOf(w)
            BY <3>1, <4>0 DEF Chunked
          <6>3. FirstOf(w) <= LastOf(w) /\ FirstOf(w) \in Nat /\ LastOf(w) \in Nat
            BY <1>3, <3>1
          <6>4. QED
            BY <4>0, <6>1, <6>2, <6>3
        <5>2. FirstOf(v) + k - 1 \in 1..Len(g[w])
          <6> HIDE DEF P, At0
          <6>1. k \in Nat \ {0} /\ k <= LastOf(v) - FirstOf(v) + 1
            BY <4>0
          <6>2. /\ FirstOf(v) \in Nat \ {0} /\ LastOf(v) \in Nat /\ LastOf(w) \in Nat
                /\ LastOf(v) <= LastOf(w) /\ Len(g[w]) = LastOf(w)
            BY <3>4, <4>0, <5>1
          <6>3. QED
            BY <6>1, <6>2
        <5>3. g[w][FirstOf(v) + k - 1] = local[v][k]
          BY <3>2, <5>1
        <5> HIDE DEF P, At0
        <5>4. g[w] \in Seq(S) /\ local[w + 1] \in Seq(S)
          BY <3>4, <4>0
        <5>5. (g[w] \o local[w + 1])[FirstOf(v) + k - 1] = g[w][FirstOf(v) + k - 1]
          BY <5>2, <5>4, Appended
        <5>6. QED
          BY <3>3, <5>3, <5>5
      <4>3. QED
        BY <4>1, <4>2
    <3>7. QED
      BY <3>5, <3>6
  <2>3. QED
    BY <2>1, <2>2
<1>6. Nat \subseteq P
  <2> HIDE DEF P
  <2>1. QED
    BY <1>4, <1>5, SetInduction
<1>7. At0(m)
  BY <1>1, <1>6
<1>8. LastOf(m) = Len(plan)
  BY DEF Chunked
<1>9. QED
  BY <1>2, <1>7, <1>8

-----------------------------------------------------------------------------
(* The invariant.                                                          *)

Planning == phase \in {"materialise", "fan", "index"} \/ Published
Fanned == phase \in {"fan", "index"} \/ Published

\* The tape a run can replay, and the entries it can end with.
TapesOf(i) ==
  CASE plan[i].source.kind = "parquet" /\ cache # BadTape -> {FileTape(cache)}
    [] plan[i].source.kind = "simulator" -> {WalkTape(plan[i])}
    [] OTHER -> {}
EntriesOf(i) ==
  {RunEntry(i, ErrorOutcome)} \cup {RunEntry(i, OkOutcome(i, t)) : t \in TapesOf(i)}
AllEntries == UNION {EntriesOf(i) : i \in DOMAIN plan}

IsOk(e) == e.outcome.status = "ok"

Shape ==
  /\ batches \in Nat /\ (phase # "idle" => batches # 0)
  /\ phase \in {"idle", "expand", "materialise", "fan", "index"}
  /\ request \in Requests /\ file \in Tapes
  /\ Len(plan) \in 0..MaxRuns
  /\ \E n \in 0..Cores : DOMAIN local = 1..n

Planned == Planning => PlanFor(request)

\* The parse cache holds the pinned tape, or the failure to open it.
Cached ==
  Fanned /\ plan # <<>> /\ request.base.source.kind = "parquet" =>
    /\ cache \in Tapes
    /\ cache # BadTape /\ Pinned(request.base) => request.base.source.pin = cache

\* What a worker has checked before its run is written.
Opened(w) ==
  /\ plan[At(w)].valid
  /\ plan[At(w)].source.kind = "parquet" => cache # BadTape
  /\ plan[At(w)].source.kind # "parquet" =>
       plan[At(w)].source.kind = "simulator" /\ request.knobs
  /\ tape[w] \in TapesOf(At(w))

\* An entry says what becomes of run i, and its bundle is of this batch.
IsTrue(e, i) ==
  /\ e \in EntriesOf(i)
  /\ ~PinsTwice => (IsOk(e) <=> Alone(i))

OnDisk(e) ==
  IsOk(e) => /\ e.outcome.run_id \in DOMAIN store
             /\ store[e.outcome.run_id].batch = batches

Filled(w) ==
  /\ Len(local[w]) <= Size(w)
  /\ stage[w] = "done" <=> Len(local[w]) = Size(w)
  /\ \A i \in faulted : i \notin At(w)..LastOf(w)
  /\ \A k \in 1..Len(local[w]) :
       IsTrue(local[w][k], FirstOf(w) + k - 1) /\ OnDisk(local[w][k])
  /\ stage[w] = "write" => Opened(w)

Spread ==
  phase \in {"fan", "index"} =>
    /\ local \in [WorkersFor(Len(plan)) -> Seq(AllEntries)]
    /\ stage \in [WorkersFor(Len(plan)) -> {"open", "write", "done", "dead"}]
    /\ DOMAIN tape = WorkersFor(Len(plan))
    /\ \A w \in Workers : Filled(w) /\ (phase = "index" => stage[w] = "done")

\* A bundle is of its run id's tape, which no later batch replays if it is a walk.
OfBatch(t, n) ==
  \/ t = <<t[1]>>
  \/ t = <<"walk", t[2], t[3]>> /\ t[3] \in 1..n

Stored ==
  \A id \in DOMAIN store :
    /\ OfBatch(id[3], batches)
    /\ store[id].tape = id[3]
    /\ store[id].batch \in 0..batches

\* What this batch found on disk, and what it put there.
Earlier ==
  phase # "idle" =>
    /\ before \subseteq DOMAIN store
    /\ \A id \in before : OfBatch(id[3], batches - 1)
    /\ phase \in {"expand", "materialise"} => before = DOMAIN store /\ faulted = {}
    /\ phase \in {"fan", "index"} =>
         \A id \in DOMAIN store \ before :
           \E w \in Workers : \E k \in 1..Len(local[w]) :
             IsOk(local[w][k]) /\ local[w][k].outcome.run_id = id

\* What the indexes on disk call Ok.
Indexed ==
  \A id \in DOMAIN index :
    /\ index[id].batch \in 0..batches
    /\ \A i \in 1..index[id].run_count :
         LET outcome == index[id].runs[i].outcome
         IN  outcome.status = "ok" =>
               /\ outcome.run_id \in DOMAIN store
               /\ store[outcome.run_id].tape = outcome.tape_sha256
               /\ store[outcome.run_id].batch >= index[id].batch

\* The index of the batch that has just ended.
Told ==
  Published =>
    /\ Runs \in Seq(AllEntries) /\ Len(Runs) = Len(plan)
    /\ \A i \in DOMAIN plan : IsTrue(Runs[i], i)

\* The inductive invariant.
BatchInv ==
  Shape /\ Planned /\ Cached /\ Spread /\ Stored /\ Earlier /\ Indexed /\ Told

-----------------------------------------------------------------------------
(* The workers.                                                            *)

\* An entry of run i.
LEMMA EntryFacts ==
  ASSUME NEW i, NEW e \in EntriesOf(i)
  PROVE  /\ e.index = i - 1 /\ e.engine_seed = plan[i].seed
         /\ IsOk(e) => \E t \in TapesOf(i) :
              e.outcome.run_id = RunId(plan[i], t) /\ e.outcome.tape_sha256 = t
         /\ \A t \in TapesOf(i) : RunEntry(i, OkOutcome(i, t)) \in EntriesOf(i)
<1>1. \A t : IsOk(RunEntry(i, OkOutcome(i, t)))
  BY DEF IsOk, RunEntry, OkOutcome
<1>2. ~IsOk(RunEntry(i, ErrorOutcome))
  BY DEF IsOk, RunEntry, ErrorOutcome
<1>3. e.index = i - 1 /\ e.engine_seed = plan[i].seed
  BY DEF EntriesOf, RunEntry
<1>4. IsOk(e) => \E t \in TapesOf(i) :
              e.outcome.run_id = RunId(plan[i], t) /\ e.outcome.tape_sha256 = t
  <2>1. IsOk(e) => \E t \in TapesOf(i) : e = RunEntry(i, OkOutcome(i, t))
    BY <1>2 DEF EntriesOf
  <2>2. \A t : /\ RunEntry(i, OkOutcome(i, t)).outcome.run_id = RunId(plan[i], t)
               /\ RunEntry(i, OkOutcome(i, t)).outcome.tape_sha256 = t
    BY DEF RunEntry, OkOutcome
  <2>3. QED
    BY <2>1, <2>2
<1>5. QED
  BY <1>3, <1>4 DEF EntriesOf

\* The runs a worker has done and the one it is at.
LEMMA Places ==
  ASSUME NEW m \in Nat, Chunked(m), NEW w \in 1..m,
         Len(local[w]) \in Nat, Len(local[w]) <= Size(w)
  PROVE  /\ At(w) \in Nat /\ At(w) = FirstOf(w) + Len(local[w])
         /\ \A k \in 1..Len(local[w]) :
              /\ FirstOf(w) + k - 1 \in FirstOf(w)..LastOf(w)
              /\ FirstOf(w) + k - 1 < At(w) /\ FirstOf(w) + k - 1 \in 1..Len(plan)
         /\ Len(local[w]) # Size(w) =>
              At(w) \in FirstOf(w)..LastOf(w) /\ At(w) \in 1..Len(plan)
         /\ Len(local[w]) = Size(w) <=> At(w) = LastOf(w) + 1
<1>1. /\ FirstOf(w) \in Nat \ {0} /\ LastOf(w) \in Nat /\ LastOf(w) <= Len(plan)
      /\ Len(plan) \in Nat
  <2>1. Len(plan) = LastOf(m) /\ LastOf(m) \in Nat
    BY DEF Chunked
  <2>2. QED
    BY <2>1 DEF Chunked
<1>2. At(w) = FirstOf(w) + Len(local[w]) /\ Size(w) = LastOf(w) - FirstOf(w) + 1
  BY DEF At, Size
<1>3. PICK a, b, x, y, p :
        a = FirstOf(w) /\ b = LastOf(w) /\ x = Len(local[w]) /\ y = At(w) /\ p = Len(plan)
  OBVIOUS
<1>4. /\ a \in Nat \ {0} /\ b \in Nat /\ b <= p /\ p \in Nat /\ x \in Nat /\ x <= b - a + 1
      /\ y = a + x /\ Size(w) = b - a + 1
  BY <1>1, <1>2, <1>3
<1>5. At(w) \in Nat /\ (Len(local[w]) = Size(w) <=> At(w) = LastOf(w) + 1)
  <2>1. y \in Nat /\ (x = b - a + 1 <=> y = b + 1)
    BY <1>4
  <2>2. QED
    BY <1>3, <1>4, <2>1
<1>6. ASSUME NEW k \in 1..Len(local[w])
      PROVE  /\ FirstOf(w) + k - 1 \in FirstOf(w)..LastOf(w)
             /\ FirstOf(w) + k - 1 < At(w) /\ FirstOf(w) + k - 1 \in 1..Len(plan)
  <2>1. k \in 1..x
    BY <1>3
  <2>2. a + k - 1 \in a..b /\ a + k - 1 < y /\ a + k - 1 \in 1..p
    BY <1>4, <2>1
  <2>3. QED
    BY <1>3, <2>2
<1>7. Len(local[w]) # Size(w) => At(w) \in FirstOf(w)..LastOf(w) /\ At(w) \in 1..Len(plan)
  <2>1. x # b - a + 1 => y \in a..b /\ y \in 1..p
    BY <1>4
  <2>2. QED
    BY <1>3, <1>4, <2>1
<1>8. QED
  BY <1>2, <1>5, <1>6, <1>7

\* What workers leave alone while they run.
Frame(w) ==
  /\ UNCHANGED <<phase, plan, cache, request, batches, before>>
  /\ faulted' = faulted \/ faulted' = faulted \cup {At(w)}
  /\ \A v \in Workers \ {w} :
       local'[v] = local[v] /\ stage'[v] = stage[v] /\ tape'[v] = tape[v]
  /\ \A id \in DOMAIN store :
       /\ id \in DOMAIN store'
       /\ store'[id].batch = store[id].batch \/ store'[id].batch = batches

LEMMA SamePlaces ==
  ASSUME plan' = plan
  PROVE  \A w : FirstOf(w)' = FirstOf(w) /\ LastOf(w)' = LastOf(w) /\ Size(w)' = Size(w)
BY DEF FirstOf, LastOf, Size

LEMMA SameEntries ==
  ASSUME UNCHANGED <<plan, cache, batches>>
  PROVE  /\ \A i : EntriesOf(i)' = EntriesOf(i) /\ TapesOf(i)' = TapesOf(i)
         /\ AllEntries' = AllEntries
<1>1. \A i : TapesOf(i)' = TapesOf(i)
  BY DEF TapesOf, WalkTape
<1>2. \A i : EntriesOf(i)' = EntriesOf(i)
  BY <1>1 DEF EntriesOf, RunEntry, OkOutcome
<1>3. QED
  BY <1>1, <1>2 DEF AllEntries

\* A worker's step does not make another entry false.
LEMMA FrameKeepsEntries ==
  ASSUME NEW w, Frame(w)
  PROVE  /\ \A e, i : i # At(w) /\ IsTrue(e, i) => IsTrue(e, i)'
         /\ \A e : OnDisk(e) => OnDisk(e)'
<1>1. \A i : EntriesOf(i)' = EntriesOf(i)
  BY SameEntries DEF Frame
<1>2. PinsTwice' <=> PinsTwice
  BY DEF Frame, PinsTwice
<1>3. \A i : i # At(w) => (Alone(i)' <=> Alone(i))
  BY DEF Frame, Alone
<1>4. \A e, i : i # At(w) /\ IsTrue(e, i) => IsTrue(e, i)'
  BY <1>1, <1>2, <1>3 DEF IsTrue
<1>5. \A e : OnDisk(e) => OnDisk(e)'
  BY DEF Frame, OnDisk
<1>6. QED
  BY <1>4, <1>5

\* Nor does it disturb another worker.
LEMMA OthersStay ==
  ASSUME NEW m \in Nat, Chunked(m), Workers = 1..m, NEW w \in Workers, NEW v \in Workers, v # w,
         local[v] \in Seq(AllEntries), Len(local[w]) \in Nat,
         At(w) \in FirstOf(w)..LastOf(w), Frame(w), Filled(v)
  PROVE  Filled(v)'
<1>1. /\ local'[v] = local[v] /\ stage'[v] = stage[v] /\ tape'[v] = tape[v]
      /\ UNCHANGED <<plan, cache, batches, request>>
  BY DEF Frame
<1>2. At(w) \notin FirstOf(v)..LastOf(v)
  <2>1. v < w \/ w < v
    OBVIOUS
  <2>2. /\ v < w => LastOf(v) < FirstOf(w)
        /\ w < v => LastOf(w) < FirstOf(v)
    BY DEF Chunked
  <2>3. \A x \in {v, w} : FirstOf(x) \in Nat /\ LastOf(x) \in Nat
    BY DEF Chunked
  <2>4. QED
    BY <2>1, <2>2, <2>3
<1>3. /\ Len(local[v]) \in Nat /\ Len(local[v]) <= Size(v) /\ v \in 1..m
      /\ At(v) = FirstOf(v) + Len(local[v])
      /\ FirstOf(v) \in Nat /\ LastOf(v) \in Nat
  BY DEF Filled, At, Chunked
<1>4. FirstOf(v)' = FirstOf(v) /\ LastOf(v)' = LastOf(v) /\ Size(v)' = Size(v) /\ At(v)' = At(v)
  BY <1>1, SamePlaces DEF At
<1>5. \A i \in faulted' : i \notin At(v)..LastOf(v)
  <2>1. \A i \in faulted : i \notin At(v)..LastOf(v)
    BY DEF Filled
  <2>2. At(w) \notin At(v)..LastOf(v)
    BY <1>2, <1>3
  <2>3. QED
    BY <2>1, <2>2 DEF Frame
<1>6. \A k \in 1..Len(local[v]) :
        IsTrue(local[v][k], FirstOf(v) + k - 1)' /\ OnDisk(local[v][k])'
  <2> SUFFICES ASSUME NEW k \in 1..Len(local[v])
               PROVE  IsTrue(local[v][k], FirstOf(v) + k - 1)' /\ OnDisk(local[v][k])'
    OBVIOUS
  <2>1. IsTrue(local[v][k], FirstOf(v) + k - 1) /\ OnDisk(local[v][k])
    BY DEF Filled
  <2>2. FirstOf(v) + k - 1 \in FirstOf(v)..LastOf(v)
    BY <1>3, Places
  <2>3. FirstOf(v) + k - 1 # At(w)
    BY <1>2, <2>2
  <2>4. QED
    BY <1>1, <1>4, <2>1, <2>3, FrameKeepsEntries
<1>7. stage'[v] = "write" => Opened(v)'
  <2>1. stage[v] = "write" => Opened(v)
    BY DEF Filled
  <2>2. QED
    BY <1>1, <1>4, <2>1, SameEntries DEF Opened
<1>8. QED
  BY <1>1, <1>4, <1>5, <1>6, <1>7 DEF Filled

\* The three ways a worker's step ends.
Records(w, j, e) ==
  /\ j = At(w) /\ Recorded(w, e) /\ IsTrue(e, j)' /\ OnDisk(e)'
  /\ DOMAIN tape' = DOMAIN tape

Proceeds(w) ==
  /\ local' = local /\ stage' = [stage EXCEPT ![w] = "write"] /\ faulted' = faulted
  /\ DOMAIN tape' = DOMAIN tape /\ Opened(w)'

Dies(w) ==
  /\ local' = local /\ stage' = [stage EXCEPT ![w] = "dead"] /\ faulted' = faulted
  /\ tape' = tape

\* Where the run a worker is at belongs.
LEMMA AtRun ==
  ASSUME Spread, phase = "fan", Len(plan) \in Nat, NEW w \in Workers,
         stage[w] \in {"open", "write"}
  PROVE  \E m \in Nat :
           /\ Chunked(m) /\ Workers = 1..m
           /\ Len(local[w]) \in Nat /\ Len(local[w]) < Size(w) /\ Size(w) \in Nat
           /\ Filled(w)
           /\ At(w) \in FirstOf(w)..LastOf(w) /\ At(w) \in 1..Len(plan)
           /\ At(w) \notin faulted
<1>1. /\ local \in [WorkersFor(Len(plan)) -> Seq(AllEntries)] /\ Filled(w)
      /\ Workers = WorkersFor(Len(plan))
  BY DEF Spread, Workers
<1>2. Len(plan) # 0
  BY <1>1 DEF WorkersFor
<1>3. PICK m \in Nat : Chunked(m)
  BY <1>2, ChunksFollow
<1>4. Workers = 1..m /\ Len(local[w]) \in Nat
  BY <1>1, <1>3 DEF Chunked
<1>5. /\ Len(local[w]) <= Size(w) /\ Len(local[w]) # Size(w)
      /\ \A i \in faulted : i \notin At(w)..LastOf(w)
  BY <1>1 DEF Filled
<1>6. FirstOf(w) \in Nat /\ LastOf(w) \in Nat
  BY <1>3, <1>4 DEF Chunked
<1>7. At(w) \in FirstOf(w)..LastOf(w) /\ At(w) \in 1..Len(plan)
  BY <1>3, <1>4, <1>5, Places
<1>8. At(w) \in At(w)..LastOf(w)
  BY <1>6, <1>7
<1>9. Size(w) \in Nat /\ Len(local[w]) < Size(w)
  BY <1>4, <1>5, <1>6 DEF Size
<1>10. QED
  BY <1>1, <1>3, <1>4, <1>5, <1>7, <1>8, <1>9

\* The worker that records an entry has one more that is true.
LEMMA RecordsFills ==
  ASSUME NEW m \in Nat, Chunked(m), NEW w \in 1..m, NEW j, NEW e \in AllEntries,
         local \in [1..m -> Seq(AllEntries)],
         stage \in [1..m -> {"open", "write", "done", "dead"}],
         Len(local[w]) < Size(w), Size(w) \in Nat,
         Filled(w), Frame(w), Records(w, j, e)
  PROVE  Filled(w)' /\ local'[w] \in Seq(AllEntries)
<1> DEFINE n == Len(local[w])
<1>1. /\ local'[w] = Append(local[w], e) /\ local[w] \in Seq(AllEntries)
      /\ stage'[w] = IF At(w) = LastOf(w) THEN "done" ELSE "open"
  BY DEF Records, Recorded
<1>2. /\ local'[w] \in Seq(AllEntries) /\ n \in Nat /\ Len(local'[w]) = n + 1
      /\ \A k \in 1..n : local'[w][k] = local[w][k]
      /\ local'[w][n + 1] = e
  BY <1>1
<1>3. /\ FirstOf(w)' = FirstOf(w) /\ LastOf(w)' = LastOf(w) /\ Size(w)' = Size(w)
  BY SamePlaces DEF Frame
<1>4. /\ At(w) = FirstOf(w) + n /\ FirstOf(w) \in Nat /\ LastOf(w) \in Nat
      /\ Size(w) = LastOf(w) - FirstOf(w) + 1
  BY DEF At, Size, Chunked
<1>5. At(w)' = At(w) + 1
  <2>1. At(w)' = FirstOf(w)' + Len(local'[w])
    BY DEF At
  <2>2. QED
    BY <1>2, <1>3, <1>4, <2>1
<1> HIDE DEF n
<1>6. Len(local'[w]) <= Size(w)
  BY <1>2, <1>4 DEF n
<1>7. stage'[w] = "done" <=> Len(local'[w]) = Size(w)
  <2>1. At(w) = LastOf(w) <=> n + 1 = Size(w)
    <3>1. n \in Nat /\ FirstOf(w) \in Nat /\ LastOf(w) \in Nat /\ At(w) \in Nat
      BY <1>2, <1>4
    <3>2. At(w) = LastOf(w) => n + 1 = Size(w)
      BY <1>4, <3>1
    <3>3. n + 1 = Size(w) => At(w) = LastOf(w)
      BY <1>4, <3>1
    <3>4. QED
      BY <3>2, <3>3
  <2>2. QED
    BY <1>1, <1>2, <2>1
<1>8. \A i \in faulted' : i \notin (At(w) + 1)..LastOf(w)
  <2>1. \A i \in faulted : i \notin At(w)..LastOf(w)
    BY DEF Filled
  <2>2. At(w) \in Nat
    BY <1>2, <1>4
  <2>3. QED
    BY <1>4, <2>1, <2>2 DEF Frame
<1>9. ASSUME NEW k \in 1..(n + 1), NEW x, x = local'[w][k], NEW i, i = FirstOf(w) + k - 1
      PROVE  IsTrue(x, i)' /\ OnDisk(x)'
  <2>1. CASE k = n + 1
    <3>1. x = e /\ i = At(w)
      BY <1>2, <1>4, <1>9, <2>1
    <3>2. IsTrue(e, j)' /\ OnDisk(e)' /\ j = At(w)
      BY DEF Records
    <3>3. QED
      BY <3>1, <3>2
  <2>2. CASE k # n + 1
    <3>1. k \in 1..n /\ x = local[w][k]
      BY <1>2, <1>9, <2>2
    <3>2. IsTrue(x, i) /\ OnDisk(x)
      BY <1>9, <3>1 DEF Filled, n
    <3>3. i # At(w)
      BY <1>2, <1>4, <1>9, <3>1
    <3>4. QED
      BY <3>2, <3>3, FrameKeepsEntries
  <2>3. QED
    BY <2>1, <2>2
<1>10. QED
  BY <1>1, <1>2, <1>3, <1>5, <1>6, <1>7, <1>8, <1>9 DEF Filled

\* A worker that goes on to write, or dies, has the entries it had.
LEMMA StaysFilled ==
  ASSUME NEW m \in Nat, Chunked(m), NEW w \in 1..m,
         local \in [1..m -> Seq(AllEntries)],
         stage \in [1..m -> {"open", "write", "done", "dead"}],
         Len(local[w]) < Size(w), Size(w) \in Nat,
         Filled(w), Frame(w), Proceeds(w) \/ Dies(w)
  PROVE  Filled(w)'
<1>1. /\ local' = local /\ faulted' = faulted
      /\ stage'[w] \in {"write", "dead"} /\ (stage'[w] = "write" => Opened(w)')
  BY DEF Proceeds, Dies
<1>2. FirstOf(w)' = FirstOf(w) /\ LastOf(w)' = LastOf(w) /\ Size(w)' = Size(w)
  BY SamePlaces DEF Frame
<1>3. At(w)' = At(w)
  BY <1>1, <1>2 DEF At
<1>4. Len(local[w]) # Size(w) /\ Len(local[w]) \in Nat
  OBVIOUS
<1>5. ASSUME NEW k \in 1..Len(local[w]), NEW x, x = local[w][k], NEW i, i = FirstOf(w) + k - 1
      PROVE  IsTrue(x, i)' /\ OnDisk(x)'
  <2>1. IsTrue(x, i) /\ OnDisk(x)
    BY <1>5 DEF Filled
  <2>2. FirstOf(w) \in Nat /\ At(w) = FirstOf(w) + Len(local[w])
    BY DEF At, Chunked
  <2>3. i # At(w)
    BY <1>4, <1>5, <2>2
  <2>4. QED
    BY <2>1, <2>3, FrameKeepsEntries
<1>6. \A i \in faulted' : i \notin At(w)..LastOf(w)
  BY <1>1 DEF Filled
<1>7. QED
  BY <1>1, <1>2, <1>3, <1>4, <1>5, <1>6 DEF Filled

\* Whichever way it ends, a worker's step keeps what the workers have.
LEMMA WorkKeepsSpread ==
  ASSUME Spread, phase = "fan", Len(plan) \in Nat, DOMAIN plan = 1..Len(plan),
         NEW w \in Workers, stage[w] \in {"open", "write"}, Frame(w),
         (\E j, e : Records(w, j, e)) \/ Proceeds(w) \/ Dies(w)
  PROVE  Spread'
<1>1. PICK m \in Nat :
           /\ Chunked(m) /\ Workers = 1..m
           /\ Len(local[w]) \in Nat /\ Len(local[w]) < Size(w) /\ Size(w) \in Nat
           /\ Filled(w)
           /\ At(w) \in FirstOf(w)..LastOf(w) /\ At(w) \in 1..Len(plan)
  BY AtRun
<1>2. /\ local \in [1..m -> Seq(AllEntries)]
      /\ stage \in [1..m -> {"open", "write", "done", "dead"}]
      /\ DOMAIN tape = 1..m /\ WorkersFor(Len(plan)) = 1..m
      /\ \A v \in 1..m : Filled(v)
  <2>1. WorkersFor(Len(plan)) = 1..m
    BY <1>1 DEF Chunked
  <2>2. QED
    BY <1>1, <2>1 DEF Spread
<1>3. UNCHANGED <<phase, plan, cache, batches>>
  BY DEF Frame
<1>4. AllEntries' = AllEntries
  BY <1>3, SameEntries
<1>5. ASSUME NEW v \in 1..m, v # w
      PROVE  Filled(v)'
  <2>1. v \in Workers /\ local[v] \in Seq(AllEntries) /\ Filled(v)
    BY <1>1, <1>2
  <2>2. QED
    BY <1>1, <1>5, <2>1, OthersStay
<1>6. /\ Filled(w)' /\ DOMAIN tape' = DOMAIN tape
      /\ local' \in [1..m -> Seq(AllEntries)]
      /\ stage' \in [1..m -> {"open", "write", "done", "dead"}]
  <2>1. CASE Proceeds(w) \/ Dies(w)
    <3>1. Filled(w)'
      BY <1>1, <1>2, <2>1, StaysFilled
    <3>2. QED
      BY <1>1, <1>2, <2>1, <3>1 DEF Proceeds, Dies
  <2>2. CASE \E j, e : Records(w, j, e)
    <3>1. PICK j, e : Records(w, j, e)
      BY <2>2
    <3>2. e \in AllEntries
      <4>1. j \in DOMAIN plan /\ e \in EntriesOf(j)'
        BY <1>1, <3>1 DEF Records, IsTrue
      <4>2. EntriesOf(j)' = EntriesOf(j)
        BY <1>3, SameEntries
      <4>3. QED
        BY <4>1, <4>2 DEF AllEntries
    <3>3. Filled(w)' /\ local'[w] \in Seq(AllEntries)
      BY <1>1, <1>2, <3>1, <3>2, RecordsFills
    <3>4. local' = [local EXCEPT ![w] = Append(@, e)] /\ DOMAIN tape' = DOMAIN tape
      BY <3>1 DEF Records, Recorded
    <3>5. local' \in [1..m -> Seq(AllEntries)]
      BY <1>1, <1>2, <3>2, <3>4
    <3>6. stage' \in [1..m -> {"open", "write", "done", "dead"}]
      BY <1>1, <1>2, <3>1 DEF Records, Recorded
    <3>7. QED
      BY <3>3, <3>4, <3>5, <3>6
  <2>3. QED
    BY <2>1, <2>2
<1>7. WorkersFor(Len(plan)) = 1..m /\ WorkersFor(Len(plan))' = WorkersFor(Len(plan))
  BY <1>2, <1>3
<1>8. Workers' = 1..m /\ \A v \in 1..m : Filled(v)'
  BY <1>5, <1>6 DEF Workers
<1>9. QED
  BY <1>2, <1>3, <1>4, <1>6, <1>7, <1>8 DEF Spread

\* A run that fails leaves an entry that says so.
LEMMA FailedRecords ==
  ASSUME NEW w \in Workers, NEW j, j = At(w), Frame(w), Failed(w), ~PinsTwice => ~Alone(j)'
  PROVE  \E i, e : Records(w, i, e)
<1>1. Recorded(w, RunEntry(j, ErrorOutcome)) /\ tape' = tape
  BY DEF Failed
<1>2. PICK e : e = RunEntry(j, ErrorOutcome)
  OBVIOUS
<1>3. Recorded(w, e)
  BY <1>1, <1>2
<1>4. EntriesOf(j)' = EntriesOf(j) /\ (PinsTwice' <=> PinsTwice)
  BY SameEntries DEF Frame, PinsTwice
<1>5. e \in EntriesOf(j) /\ ~IsOk(e)
  BY <1>2 DEF EntriesOf, IsOk, RunEntry, ErrorOutcome
<1>6. IsTrue(e, j)' /\ OnDisk(e)'
  BY <1>4, <1>5 DEF IsTrue, OnDisk
<1>7. Records(w, j, e)
  BY <1>1, <1>3, <1>6 DEF Records
<1>8. QED
  BY <1>7

\* What is known of the run a worker is at.
LEMMA RunAtHand ==
  ASSUME BatchInv, phase = "fan", NEW w \in Workers, stage[w] \in {"open", "write"}
  PROVE  /\ Len(plan) \in Nat /\ DOMAIN plan = 1..Len(plan)
         /\ Filled(w) /\ At(w) \in DOMAIN plan /\ At(w) \notin faulted
         /\ DOMAIN stage = Workers /\ DOMAIN tape = Workers
         /\ request \in Requests /\ PlanFor(request)
         /\ plan[At(w)].source.kind = "parquet" =>
              /\ cache \in Tapes
              /\ cache # BadTape /\ Pinned(plan[At(w)]) => plan[At(w)].source.pin = cache
<1>1. request \in Requests /\ PlanFor(request) /\ Cached /\ Spread
  BY DEF BatchInv, Shape, Planned, Planning
<1>2. Len(plan) \in Nat /\ DOMAIN plan = 1..Len(plan)
  BY <1>1, PlanShape
<1>3. Filled(w) /\ At(w) \in DOMAIN plan /\ At(w) \notin faulted
  BY <1>1, <1>2, AtRun
<1>4. DOMAIN stage = Workers /\ DOMAIN tape = Workers
  BY <1>1 DEF Spread, Workers
<1>5. plan # <<>>
  BY <1>2, <1>3
<1>6. ASSUME plan[At(w)].source.kind = "parquet"
      PROVE  /\ cache \in Tapes
             /\ cache # BadTape /\ Pinned(plan[At(w)]) => plan[At(w)].source.pin = cache
  <2>1. request.base.source.kind = "parquet" /\ plan[At(w)].source = request.base.source
    BY <1>1, <1>3, <1>6, PlanSources
  <2>2. Fanned
    BY DEF Fanned
  <2>3. QED
    BY <1>1, <1>5, <2>1, <2>2 DEF Cached, Pinned
<1>7. QED
  BY <1>1, <1>2, <1>3, <1>4, <1>6

\* A worker touches its own vector, stage and tape.
LEMMA OwnOnly ==
  ASSUME BatchInv, phase = "fan", NEW w \in Workers, stage[w] \in {"open", "write"},
         \/ \E e : Recorded(w, e) /\ tape' = tape
         \/ \E t : /\ tape' = [tape EXCEPT ![w] = t] /\ UNCHANGED local
                  /\ stage' = [stage EXCEPT ![w] = "write"]
         \/ stage' = [stage EXCEPT ![w] = "dead"] /\ UNCHANGED <<local, tape>>
  PROVE  /\ \A v \in Workers \ {w} :
              local'[v] = local[v] /\ stage'[v] = stage[v] /\ tape'[v] = tape[v]
         /\ DOMAIN tape' = DOMAIN tape
<1>1. DOMAIN stage = Workers /\ DOMAIN tape = Workers /\ DOMAIN local = Workers
  BY RunAtHand DEF Workers
<1>2. CASE \E e : Recorded(w, e) /\ tape' = tape
  BY <1>1, <1>2 DEF Recorded
<1>3. CASE \E t : /\ tape' = [tape EXCEPT ![w] = t] /\ UNCHANGED local
                  /\ stage' = [stage EXCEPT ![w] = "write"]
  BY <1>1, <1>3
<1>4. CASE stage' = [stage EXCEPT ![w] = "dead"] /\ UNCHANGED <<local, tape>>
  BY <1>1, <1>4
<1>5. QED
  BY <1>2, <1>3, <1>4

\* How opening a tape ends.
OpensWith(w, t) ==
  /\ tape' = [tape EXCEPT ![w] = t] /\ stage' = [stage EXCEPT ![w] = "write"]
  /\ UNCHANGED local

OpenCases(w, j) ==
  \/ ~plan[j].valid /\ Failed(w) /\ faulted' = faulted
  \/ /\ plan[j].valid /\ plan[j].source.kind = "parquet" /\ faulted' = faulted
     /\ \/ Hit(plan[j]) /\ OpensWith(w, FileTape(cache))
        \/ ~Hit(plan[j]) /\ cache = BadTape /\ Failed(w)
        \/ ~Hit(plan[j]) /\ cache # BadTape
  \/ /\ plan[j].valid /\ plan[j].source.kind = "simulator" /\ request.knobs
     /\ \/ OpensWith(w, WalkTape(plan[j])) /\ faulted' = faulted
        \/ Failed(w) /\ faulted' = faulted \cup {j}
  \/ /\ plan[j].source.kind # "parquet"
     /\ ~(plan[j].source.kind = "simulator" /\ request.knobs)
     /\ Failed(w) /\ faulted' = faulted

LEMMA OpenSplits ==
  ASSUME NEW w, NEW j, j = At(w), OpenTape(w)
  PROVE  OpenCases(w, j)
<1>1. CASE ~plan[j].valid
  BY <1>1 DEF OpenTape, OpenCases
<1>2. CASE plan[j].valid /\ plan[j].source.kind = "parquet"
  <2>1. faulted' = faulted
    BY <1>2 DEF OpenTape
  <2>2. CASE Hit(plan[j])
    <3>1. OpensWith(w, FileTape(cache))
      BY <1>2, <2>2 DEF OpenTape, OpensWith, Hit
    <3>2. QED
      BY <1>2, <2>1, <2>2, <3>1 DEF OpenCases
  <2>3. CASE ~Hit(plan[j])
    BY <1>2, <2>1, <2>3 DEF OpenTape, OpenCases
  <2>4. QED
    BY <2>2, <2>3
<1>3. CASE plan[j].valid /\ plan[j].source.kind = "simulator" /\ request.knobs
  BY <1>3 DEF OpenTape, OpenCases, OpensWith
<1>4. CASE /\ plan[j].valid /\ plan[j].source.kind # "parquet"
           /\ ~(plan[j].source.kind = "simulator" /\ request.knobs)
  BY <1>4 DEF OpenTape, OpenCases
<1>5. QED
  BY <1>1, <1>2, <1>3, <1>4

LEMMA OpenEnds ==
  ASSUME BatchInv, NEW w \in Workers, Open(w)
  PROVE  Frame(w) /\ ((\E i, e : Records(w, i, e)) \/ Proceeds(w)) /\ store' = store
<1>0. phase = "fan" /\ stage[w] = "open" /\ OpenTape(w)
  BY DEF Open
<1>1. /\ At(w) \in DOMAIN plan /\ w \in DOMAIN tape
      /\ plan[At(w)].source.kind = "parquet" =>
              /\ cache \in Tapes
              /\ cache # BadTape /\ Pinned(plan[At(w)]) => plan[At(w)].source.pin = cache
  BY <1>0, RunAtHand
<1>2. PICK j : j = At(w)
  OBVIOUS
<1>3. UNCHANGED <<phase, plan, cache, request, batches, before, store>>
  BY DEF Open, diskVars
<1>4. OpenCases(w, j)
  BY <1>0, <1>2, OpenSplits
<1>5. ~(plan[j].source.kind = "parquet" /\ ~Hit(plan[j]) /\ cache # BadTape)
  BY <1>1, <1>2 DEF Hit, BatchAssumption
<1>6. CASE \E t \in TapesOf(j) :
             /\ OpensWith(w, t) /\ faulted' = faulted /\ plan[j].valid
             /\ plan[j].source.kind = "parquet" => cache # BadTape
             /\ plan[j].source.kind # "parquet" =>
                  plan[j].source.kind = "simulator" /\ request.knobs
  <2>1. PICK t \in TapesOf(j) : OpensWith(w, t)
    BY <1>6
  <2>2. /\ \A v \in Workers \ {w} :
             local'[v] = local[v] /\ stage'[v] = stage[v] /\ tape'[v] = tape[v]
        /\ DOMAIN tape' = DOMAIN tape
    BY <1>0, <2>1, OwnOnly DEF OpensWith
  <2>3. Frame(w)
    BY <1>3, <1>6, <2>2 DEF Frame
  <2>4. At(w)' = j /\ tape'[w] = t /\ t \in TapesOf(j)'
    BY <1>1, <1>2, <1>3, <2>1, SamePlaces, SameEntries DEF OpensWith, At
  <2>5. Opened(w)'
    BY <1>3, <1>6, <2>4 DEF Opened
  <2>6. Proceeds(w)
    BY <1>6, <2>1, <2>2, <2>5 DEF Proceeds, OpensWith
  <2>7. QED
    BY <1>3, <2>3, <2>6
<1>7. CASE /\ Failed(w) /\ (faulted' = faulted \/ faulted' = faulted \cup {j})
           /\ \/ j \in faulted' \/ ~plan[j].valid
              \/ plan[j].source.kind = "parquet" /\ cache = BadTape
              \/ /\ plan[j].source.kind # "parquet"
                 /\ ~(plan[j].source.kind = "simulator" /\ request.knobs)
  <2>1. \A v \in Workers \ {w} :
          local'[v] = local[v] /\ stage'[v] = stage[v] /\ tape'[v] = tape[v]
    BY <1>0, <1>7, OwnOnly DEF Failed
  <2>2. Frame(w)
    BY <1>2, <1>3, <1>7, <2>1 DEF Frame
  <2>3. ~Alone(j)'
    BY <1>3, <1>7 DEF Alone
  <2>4. QED
    BY <1>2, <1>3, <1>7, <2>2, <2>3, FailedRecords
<1>8. QED
  <2>1. plan[j].source.kind = "parquet" /\ Hit(plan[j]) => cache # BadTape
    BY DEF Hit
  <2>2. /\ plan[j].source.kind = "parquet" /\ cache # BadTape => FileTape(cache) \in TapesOf(j)
        /\ plan[j].source.kind = "simulator" => WalkTape(plan[j]) \in TapesOf(j)
    BY DEF TapesOf
  <2>3. QED
    BY <1>4, <1>5, <1>6, <1>7, <2>1, <2>2 DEF OpenCases

\* Where the entries of a batch that is running come from.
LEMMA EntryOf ==
  ASSUME BatchInv, phase = "fan", NEW w \in Workers, stage[w] \in {"open", "write"},
         NEW v \in Workers, NEW k \in 1..Len(local[v])
  PROVE  /\ FirstOf(v) + k - 1 \in DOMAIN plan /\ FirstOf(v) + k - 1 # At(w)
         /\ IsTrue(local[v][k], FirstOf(v) + k - 1)
<1>1. Spread /\ Len(plan) \in Nat /\ DOMAIN plan = 1..Len(plan)
  BY RunAtHand DEF BatchInv
<1>2. PICK m \in Nat :
           /\ Chunked(m) /\ Workers = 1..m
           /\ At(w) \in FirstOf(w)..LastOf(w)
           /\ Len(local[w]) \in Nat
  BY <1>1, AtRun
<1>3. Filled(v) /\ Len(local[v]) \in Nat
  BY <1>1, <1>2 DEF Spread, Workers
<1>4. Len(local[v]) <= Size(v) /\ IsTrue(local[v][k], FirstOf(v) + k - 1)
  BY <1>3 DEF Filled
<1>5. /\ FirstOf(v) + k - 1 \in FirstOf(v)..LastOf(v)
      /\ FirstOf(v) + k - 1 < At(v) /\ FirstOf(v) + k - 1 \in 1..Len(plan)
  BY <1>2, <1>3, <1>4, Places
<1>6. /\ FirstOf(v) \in Nat /\ LastOf(v) \in Nat /\ FirstOf(w) \in Nat /\ LastOf(w) \in Nat
      /\ v < w => LastOf(v) < FirstOf(w)
      /\ w < v => LastOf(w) < FirstOf(v)
  BY <1>2 DEF Chunked
<1>7. FirstOf(v) + k - 1 # At(w)
  <2>1. CASE v = w
    BY <1>5, <1>6, <2>1
  <2>2. CASE v < w
    BY <1>2, <1>5, <1>6, <2>2
  <2>3. CASE w < v
    BY <1>2, <1>5, <1>6, <2>3
  <2>4. v \in Nat /\ w \in Nat
    BY <1>2
  <2>5. QED
    BY <2>1, <2>2, <2>3, <2>4
<1>8. QED
  BY <1>1, <1>4, <1>5, <1>7

\* Two runs have two seeds, in whichever order they are named.
LEMMA TwoSeeds ==
  ASSUME request \in Requests, PlanFor(request), ~PinsTwice,
         NEW i \in DOMAIN plan, NEW j \in DOMAIN plan, i # j
  PROVE  plan[i].seed # plan[j].seed
<1>1. ~Twice(request)
  BY DEF Twice, PinsTwice
<1>2. i < j \/ j < i
  BY PlanShape
<1>3. \A x, y \in DOMAIN plan : x < y => plan[x].seed # plan[y].seed
  BY <1>1, SeedsDiffer
<1>4. QED
  BY <1>2, <1>3

\* What a run id is made of.
LEMMA RunIdParts ==
  \A config, t : RunId(config, t)[1] = config.seed /\ RunId(config, t)[3] = t
BY DEF RunId

\* A bundle in the way of a run was there before its batch.
LEMMA OnlyOlder ==
  ASSUME BatchInv, phase = "fan", NEW w \in Workers, stage[w] = "write", ~PinsTwice,
         NEW j, j = At(w), NEW t, t = tape[w], RunId(plan[j], t) \in DOMAIN store
  PROVE  RunId(plan[j], t) \in before
<1>1. SUFFICES ASSUME RunId(plan[j], t) \notin before
               PROVE  FALSE
  OBVIOUS
<1>2. PICK v \in Workers : \E k \in 1..Len(local[v]) :
             IsOk(local[v][k]) /\ local[v][k].outcome.run_id = RunId(plan[j], t)
  <2>1. Earlier
    BY DEF BatchInv
  <2>2. QED
    BY <1>1, <2>1 DEF Earlier
<1>3. PICK k \in 1..Len(local[v]) :
             IsOk(local[v][k]) /\ local[v][k].outcome.run_id = RunId(plan[j], t)
  BY <1>2
<1>4. PICK i : i = FirstOf(v) + k - 1
  OBVIOUS
<1>5. PICK e : e = local[v][k]
  OBVIOUS
<1>6. i \in DOMAIN plan /\ i # j /\ IsTrue(e, i)
  BY <1>4, <1>5, EntryOf
<1>7. \E u : e.outcome.run_id = RunId(plan[i], u)
  BY <1>3, <1>5, <1>6, EntryFacts DEF IsTrue
<1>8. plan[i].seed = plan[j].seed
  <2>1. PICK u : e.outcome.run_id = RunId(plan[i], u)
    BY <1>7
  <2>2. e.outcome.run_id = RunId(plan[j], t)
    BY <1>3, <1>5
  <2>3. RunId(plan[i], u)[1] = RunId(plan[j], t)[1]
    BY <2>1, <2>2
  <2>4. QED
    BY <2>3, RunIdParts
<1>9. j \in DOMAIN plan /\ request \in Requests /\ PlanFor(request)
  BY RunAtHand
<1>10. QED
  BY <1>6, <1>8, <1>9, TwoSeeds

\* The bundle of a run, put in place.
Puts(id, t) ==
  store' = [d \in DOMAIN store \cup {id} |->
              IF d = id THEN [batch |-> batches, tape |-> t] ELSE store[d]]

LEMMA PutsFacts ==
  ASSUME NEW id, NEW t, Puts(id, t)
  PROVE  /\ DOMAIN store' = DOMAIN store \cup {id}
         /\ store'[id].batch = batches /\ store'[id].tape = t
         /\ \A d \in DOMAIN store : d # id => store'[d] = store[d]
BY DEF Puts

\* How a run that was written ends: with an entry that says so, or with one
\* that says that it failed, and the store as it was.
Stores(w, e) ==
  \/ store' = store
  \/ /\ IsOk(e) /\ Puts(e.outcome.run_id, tape[w]) /\ e.outcome.run_id[3] = tape[w]
     /\ tape[w] \in TapesOf(At(w))

\* A walk is of this batch.
LEMMA WalksDiffer ==
  ASSUME NEW config, batches \in Nat, OfBatch(WalkTape(config), batches - 1)
  PROVE  FALSE
<1>1. WalkTape(config)[3] = batches
  BY DEF WalkTape
<1>2. WalkTape(config) # <<WalkTape(config)[1]>>
  BY DEF WalkTape
<1>3. batches \in 1..(batches - 1)
  BY <1>1, <1>2 DEF OfBatch
<1>4. QED
  BY <1>3

LEMMA WriteEnds ==
  ASSUME BatchInv, NEW w \in Workers, WriteRun(w)
  PROVE  Frame(w) /\ \E j, e : Records(w, j, e) /\ Stores(w, e)
<1>0. phase = "fan" /\ stage[w] = "write"
  BY DEF WriteRun
<1>1. /\ At(w) \in DOMAIN plan /\ At(w) \notin faulted /\ Filled(w)
      /\ w \in DOMAIN tape
  BY <1>0, RunAtHand
<1>2. PICK j : j = At(w)
  OBVIOUS
<1>3. PICK t : t = tape[w]
  OBVIOUS
<1>4. PICK id : id = RunId(plan[j], t)
  OBVIOUS
<1>5. UNCHANGED <<phase, plan, cache, request, batches, before, faulted>>
  BY DEF WriteRun
<1>6. /\ plan[j].valid
      /\ plan[j].source.kind = "parquet" => cache # BadTape
      /\ plan[j].source.kind # "parquet" =>
           plan[j].source.kind = "simulator" /\ request.knobs
      /\ t \in TapesOf(j)
  BY <1>0, <1>1, <1>2, <1>3 DEF Filled, Opened
<1>7. batches \in Nat /\ before \subseteq DOMAIN store
      /\ \A d \in before : OfBatch(d[3], batches - 1)
  BY <1>0 DEF BatchInv, Shape, Earlier
<1>8. CASE plan[j].seed \in Failing \/ (id \in DOMAIN store /\ ~request.overwrite)
  <2>1. Failed(w) /\ store' = store
    BY <1>2, <1>3, <1>4, <1>8 DEF WriteRun
  <2>2. \A v \in Workers \ {w} :
          local'[v] = local[v] /\ stage'[v] = stage[v] /\ tape'[v] = tape[v]
    BY <1>0, <2>1, OwnOnly DEF Failed
  <2>3. Frame(w)
    BY <1>5, <2>1, <2>2 DEF Frame
  <2>4. ~PinsTwice => ~Alone(j)
    <3>1. SUFFICES ASSUME ~PinsTwice, Alone(j)
                   PROVE  FALSE
      OBVIOUS
    <3>2. plan[j].seed \notin Failing
      BY <3>1 DEF Alone
    <3>3. id \in before
      BY <1>0, <1>2, <1>3, <1>4, <1>8, <3>1, <3>2, OnlyOlder
    <3>4. CASE plan[j].source.kind = "parquet"
      <4>1. t = FileTape(cache)
        BY <1>6, <3>4 DEF TapesOf
      <4>2. request.overwrite \/ id \notin before
        BY <1>4, <3>1, <3>4, <4>1 DEF Alone
      <4>3. QED
        BY <1>8, <3>2, <3>3, <4>2
    <3>5. CASE plan[j].source.kind # "parquet"
      <4>1. plan[j].source.kind = "simulator"
        BY <1>6, <3>5
      <4>2. t = WalkTape(plan[j])
        BY <1>6, <4>1 DEF TapesOf
      <4>3. OfBatch(WalkTape(plan[j]), batches - 1)
        BY <1>4, <1>7, <3>3, <4>2, RunIdParts
      <4>4. QED
        BY <1>7, <4>3, WalksDiffer
    <3>6. QED
      BY <3>4, <3>5
  <2>5. ~PinsTwice => ~Alone(j)'
    BY <1>5, <2>4 DEF Alone
  <2>6. \E i, e : Records(w, i, e)
    BY <1>2, <2>1, <2>3, <2>5, FailedRecords
  <2>7. QED
    BY <2>1, <2>3, <2>6 DEF Stores
<1>9. CASE ~(plan[j].seed \in Failing \/ (id \in DOMAIN store /\ ~request.overwrite))
  <2>0. PICK e : e = RunEntry(j, OkOutcome(j, t))
    OBVIOUS
  <2>1. Recorded(w, e) /\ Puts(id, t) /\ tape' = tape
    BY <1>2, <1>3, <1>4, <1>9, <2>0 DEF WriteRun, Puts
  <2>2. \A v \in Workers \ {w} :
          local'[v] = local[v] /\ stage'[v] = stage[v] /\ tape'[v] = tape[v]
    BY <1>0, <2>1, OwnOnly
  <2>3. \A d \in DOMAIN store :
          /\ d \in DOMAIN store'
          /\ store'[d].batch = store[d].batch \/ store'[d].batch = batches
    BY <2>1, PutsFacts
  <2>4. Frame(w)
    BY <1>5, <2>2, <2>3 DEF Frame
  <2>5. IsOk(e) /\ e.outcome.run_id = id
    BY <1>4, <2>0 DEF IsOk, RunEntry, OkOutcome
  <2>6. e \in EntriesOf(j)
    BY <1>6, <2>0 DEF EntriesOf
  <2>7. Alone(j)
    <3>1. request.overwrite \/ id \notin before
      BY <1>7, <1>9
    <3>2. plan[j].source.kind = "parquet" => id = RunId(plan[j], FileTape(cache))
      BY <1>4, <1>6 DEF TapesOf
    <3>3. QED
      BY <1>1, <1>2, <1>6, <1>9, <3>1, <3>2 DEF Alone
  <2>8. IsTrue(e, j)'
    <3>1. EntriesOf(j)' = EntriesOf(j)
      BY <1>5, SameEntries
    <3>2. Alone(j)'
      BY <1>5, <2>7 DEF Alone
    <3>3. QED
      BY <2>5, <2>6, <3>1, <3>2 DEF IsTrue
  <2>9. OnDisk(e)'
    <3>1. id \in DOMAIN store' /\ store'[id].batch = batches
      BY <2>1, PutsFacts
    <3>2. QED
      BY <1>5, <2>5, <3>1 DEF OnDisk
  <2>10. Records(w, j, e)
    BY <1>2, <2>1, <2>8, <2>9 DEF Records
  <2>11. id[3] = t
    BY <1>4, RunIdParts
  <2>12. Stores(w, e)
    BY <1>2, <1>3, <1>6, <2>1, <2>5, <2>11 DEF Stores
  <2>13. QED
    BY <2>4, <2>10, <2>12
<1>10. QED
  BY <1>8, <1>9

LEMMA WriteFailsEnds ==
  ASSUME BatchInv, NEW w \in Workers, WriteFails(w)
  PROVE  Frame(w) /\ (\E j, e : Records(w, j, e)) /\ store' = store
<1>1. /\ phase = "fan" /\ stage[w] = "write" /\ Failed(w)
      /\ faulted' = faulted \cup {At(w)}
      /\ UNCHANGED <<phase, plan, cache, request, batches, before, store>>
  BY DEF WriteFails, diskVars
<1>2. PICK j : j = At(w)
  OBVIOUS
<1>3. \A v \in Workers \ {w} :
        local'[v] = local[v] /\ stage'[v] = stage[v] /\ tape'[v] = tape[v]
  BY <1>1, OwnOnly DEF Failed
<1>4. Frame(w)
  BY <1>1, <1>3 DEF Frame
<1>5. ~Alone(j)'
  BY <1>1, <1>2 DEF Alone
<1>6. QED
  BY <1>1, <1>2, <1>4, <1>5, FailedRecords

LEMMA PanicEnds ==
  ASSUME BatchInv, NEW w \in Workers, Panic(w)
  PROVE  Frame(w) /\ Dies(w) /\ store' = store
<1>1. /\ phase = "fan" /\ stage[w] = "write"
      /\ stage' = [stage EXCEPT ![w] = "dead"]
      /\ UNCHANGED <<phase, plan, cache, request, batches, before, faulted, local, tape, store>>
  BY DEF Panic, diskVars
<1>2. \A v \in Workers \ {w} :
        local'[v] = local[v] /\ stage'[v] = stage[v] /\ tape'[v] = tape[v]
  BY <1>1, OwnOnly
<1>3. QED
  BY <1>1, <1>2 DEF Frame, Dies

\* What a worker's step is, whichever it is.
Worked(w) ==
  /\ phase = "fan" /\ stage[w] \in {"open", "write"}
  /\ Frame(w) /\ UNCHANGED <<index, result, file>>
  /\ \/ \E j, e : Records(w, j, e) /\ Stores(w, e)
     \/ (Proceeds(w) \/ Dies(w)) /\ store' = store

LEMMA WorkIs ==
  ASSUME BatchInv, Work
  PROVE  \E w \in Workers : Worked(w)
<1>1. PICK w \in Workers : Open(w) \/ WriteRun(w) \/ WriteFails(w) \/ Panic(w)
  BY DEF Work
<1>2. CASE Open(w)
  <2>1. /\ phase = "fan" /\ stage[w] \in {"open", "write"}
        /\ UNCHANGED <<index, result, file>>
    BY <1>2 DEF Open, diskVars
  <2>2. QED
    BY <1>2, <2>1, OpenEnds DEF Worked, Stores
<1>3. CASE WriteRun(w)
  <2>1. /\ phase = "fan" /\ stage[w] \in {"open", "write"}
        /\ UNCHANGED <<index, result, file>>
    BY <1>3 DEF WriteRun
  <2>2. QED
    BY <1>3, <2>1, WriteEnds DEF Worked
<1>4. CASE WriteFails(w)
  <2>1. /\ phase = "fan" /\ stage[w] \in {"open", "write"}
        /\ UNCHANGED <<index, result, file>>
    BY <1>4 DEF WriteFails, diskVars
  <2>2. QED
    BY <1>4, <2>1, WriteFailsEnds DEF Worked, Stores
<1>5. CASE Panic(w)
  <2>1. /\ phase = "fan" /\ stage[w] \in {"open", "write"}
        /\ UNCHANGED <<index, result, file>>
    BY <1>5 DEF Panic, diskVars
  <2>2. QED
    BY <1>5, <2>1, PanicEnds DEF Worked
<1>6. QED
  BY <1>1, <1>2, <1>3, <1>4, <1>5

\* The bundles stay those of their tapes.
LEMMA WorkKeepsStored ==
  ASSUME BatchInv, NEW w \in Workers, Worked(w)
  PROVE  Stored'
<1>1. Stored /\ batches' = batches /\ batches \in Nat \ {0}
  BY DEF BatchInv, Shape, Worked, Frame
<1>2. CASE store' = store
  BY <1>1, <1>2 DEF Stored, OfBatch
<1>3. CASE store' # store
  <2>1. PICK e : Stores(w, e)
    BY <1>3 DEF Worked
  <2>2. PICK id : id = e.outcome.run_id
    OBVIOUS
  <2>3. PICK t : t = tape[w]
    OBVIOUS
  <2>4. Puts(id, t) /\ id[3] = t /\ t \in TapesOf(At(w))
    BY <1>3, <2>1, <2>2, <2>3 DEF Stores
  <2>5. OfBatch(t, batches)
    <3>1. CASE t = FileTape(cache)
      BY <3>1 DEF OfBatch, FileTape
    <3>2. CASE t = WalkTape(plan[At(w)])
      BY <1>1, <3>2 DEF OfBatch, WalkTape
    <3>3. QED
      BY <2>4, <3>1, <3>2 DEF TapesOf
  <2>6. /\ DOMAIN store' = DOMAIN store \cup {id}
        /\ store'[id].batch = batches /\ store'[id].tape = t
        /\ \A d \in DOMAIN store : d # id => store'[d] = store[d]
    BY <2>4, PutsFacts
  <2>7. ASSUME NEW d \in DOMAIN store'
        PROVE  /\ OfBatch(d[3], batches)
               /\ store'[d].tape = d[3]
               /\ store'[d].batch \in 0..batches
    <3>1. CASE d = id
      BY <1>1, <2>4, <2>5, <2>6, <3>1
    <3>2. CASE d # id
      BY <1>1, <2>6, <3>2 DEF Stored
    <3>3. QED
      BY <3>1, <3>2
  <2>8. \A d : OfBatch(d[3], batches)' <=> OfBatch(d[3], batches)
    BY <1>1 DEF OfBatch
  <2>9. QED
    BY <1>1, <2>7, <2>8 DEF Stored
<1>4. QED
  BY <1>2, <1>3

\* A bundle that is new is an entry's.
LEMMA WorkKeepsEarlier ==
  ASSUME BatchInv, NEW w \in Workers, Worked(w)
  PROVE  Earlier'
<1>1. /\ phase = "fan" /\ phase' = "fan" /\ batches' = batches /\ before' = before
      /\ \A d \in DOMAIN store : d \in DOMAIN store'
      /\ stage[w] \in {"open", "write"}
  BY DEF Worked, Frame
<1>2. /\ before \subseteq DOMAIN store
      /\ \A id \in before : OfBatch(id[3], batches - 1)
      /\ \A id \in DOMAIN store \ before :
           \E v \in Workers : \E k \in 1..Len(local[v]) :
             IsOk(local[v][k]) /\ local[v][k].outcome.run_id = id
  BY <1>1 DEF BatchInv, Earlier
<1>3. /\ w \in DOMAIN local /\ local[w] \in Seq(AllEntries)
      /\ Workers = DOMAIN local
  BY <1>1 DEF BatchInv, Spread, Workers
<1>4. CASE local' = local
  <2>1. store' = store
    <3>1. ~ \E j, e : Records(w, j, e)
      <4>1. ASSUME NEW j, NEW e, Records(w, j, e)
            PROVE  FALSE
        <5>1. local'[w] = Append(local[w], e)
          BY <1>3, <4>1 DEF Records, Recorded
        <5>2. Len(local'[w]) = Len(local[w]) + 1 /\ Len(local[w]) \in Nat
          BY <1>3, <5>1
        <5>3. QED
          BY <1>4, <5>2
      <4>2. QED
        BY <4>1
    <3>2. QED
      BY <3>1 DEF Worked
  <2>2. QED
    BY <1>1, <1>2, <1>4, <2>1 DEF Earlier, OfBatch, Workers, IsOk
<1>5. CASE local' # local
  <2>1. PICK j, e : Records(w, j, e) /\ Stores(w, e)
    BY <1>5 DEF Worked, Proceeds, Dies
  <2>2. /\ local' = [local EXCEPT ![w] = Append(@, e)]
        /\ local'[w] = Append(local[w], e)
    BY <1>3, <2>1 DEF Records, Recorded
  <2>3. PICK n \in Nat : n = Len(local[w])
    BY <1>3
  <2>4. /\ Workers' = Workers /\ Len(local'[w]) = n + 1 /\ local'[w][n + 1] = e
        /\ \A k \in 1..n : local'[w][k] = local[w][k]
        /\ \A v \in Workers \ {w} : local'[v] = local[v]
    BY <1>3, <2>2, <2>3 DEF Workers
  <2>5. ASSUME NEW id \in DOMAIN store' \ before
        PROVE  \E v \in Workers : \E k \in 1..Len(local'[v]) :
                 IsOk(local'[v][k]) /\ local'[v][k].outcome.run_id = id
    <3>1. CASE id \in DOMAIN store
      <4>1. PICK v \in Workers : \E k \in 1..Len(local[v]) :
                     IsOk(local[v][k]) /\ local[v][k].outcome.run_id = id
        BY <1>2, <2>5, <3>1
      <4>2. PICK k \in 1..Len(local[v]) :
                     IsOk(local[v][k]) /\ local[v][k].outcome.run_id = id
        BY <4>1
      <4>3. k \in 1..Len(local'[v]) /\ local'[v][k] = local[v][k]
        BY <2>3, <2>4
      <4>4. QED
        BY <4>2, <4>3
    <3>2. CASE id \notin DOMAIN store
      <4>1. Puts(e.outcome.run_id, tape[w]) /\ IsOk(e)
        BY <2>1, <2>5, <3>2 DEF Stores
      <4>2. id = e.outcome.run_id
        <5>1. PICK t, d : t = tape[w] /\ d = e.outcome.run_id
          OBVIOUS
        <5>2. DOMAIN store' = DOMAIN store \cup {d}
          BY <4>1, <5>1, PutsFacts
        <5>3. QED
          BY <2>5, <3>2, <5>1, <5>2
      <4>3. w \in Workers /\ n + 1 \in 1..Len(local'[w])
        BY <2>3, <2>4
      <4>4. QED
        BY <2>4, <4>1, <4>2, <4>3
    <3>3. QED
      BY <3>1, <3>2
  <2>6. \A id : OfBatch(id[3], batches - 1)' <=> OfBatch(id[3], batches - 1)
    BY <1>1 DEF OfBatch
  <2>7. \A x : IsOk(x)' <=> IsOk(x)
    BY DEF IsOk
  <2>8. QED
    BY <1>1, <1>2, <2>4, <2>5, <2>6, <2>7 DEF Earlier, IsOk
<1>6. QED
  BY <1>4, <1>5

\* What an index calls Ok stays on disk: a bundle that is replaced is replaced
\* by one of the same tape.
IndexKept(ix) ==
  /\ ix.batch \in 0..batches
  /\ \A i \in 1..ix.run_count :
       LET outcome == ix.runs[i].outcome
       IN  outcome.status = "ok" =>
             /\ outcome.run_id \in DOMAIN store
             /\ store[outcome.run_id].tape = outcome.tape_sha256
             /\ store[outcome.run_id].batch >= ix.batch

LEMMA IndexedIs ==
  Indexed <=> \A id \in DOMAIN index : IndexKept(index[id])
BY DEF Indexed, IndexKept

\* Bundles stay and become only newer.
Grows ==
  \A d \in DOMAIN store :
    /\ d \in DOMAIN store'
    /\ store'[d].tape = store[d].tape
    /\ store'[d].batch = store[d].batch \/ store'[d].batch = batches'

LEMMA GrowthKeepsIndexed ==
  ASSUME Stored, batches \in Nat, batches' \in Nat, batches <= batches', Grows,
         NEW ix, IndexKept(ix)
  PROVE  IndexKept(ix)'
<1>1. ix.batch \in 0..batches'
  BY DEF IndexKept
<1>2. ASSUME NEW i \in 1..ix.run_count, ix.runs[i].outcome.status = "ok",
             NEW id, id = ix.runs[i].outcome.run_id
      PROVE  /\ id \in DOMAIN store'
             /\ store'[id].tape = ix.runs[i].outcome.tape_sha256
             /\ store'[id].batch >= ix.batch
  <2>1. /\ id \in DOMAIN store
        /\ store[id].tape = ix.runs[i].outcome.tape_sha256
        /\ store[id].batch >= ix.batch
    BY <1>2 DEF IndexKept
  <2>2. QED
    BY <1>1, <2>1 DEF Grows, Stored
<1>3. QED
  BY <1>1, <1>2 DEF IndexKept

LEMMA WorkKeepsIndexed ==
  ASSUME BatchInv, NEW w \in Workers, Worked(w), Stored'
  PROVE  Indexed'
<1>1. /\ Stored /\ Indexed /\ batches \in Nat /\ batches' = batches
      /\ index' = index
  BY DEF BatchInv, Shape, Worked, Frame
<1>2. Grows
  BY <1>1 DEF Grows, Stored, Worked, Frame
<1>3. \A id \in DOMAIN index : IndexKept(index[id])'
  <2> SUFFICES ASSUME NEW id \in DOMAIN index, NEW ix, ix = index[id]
               PROVE  IndexKept(ix)'
    BY <1>1
  <2>1. IndexKept(ix)
    BY <1>1, IndexedIs
  <2>2. QED
    BY <1>1, <1>2, <2>1, GrowthKeepsIndexed
<1>4. QED
  BY <1>1, <1>3 DEF Indexed, IndexKept

LEMMA WorkKeeps ==
  ASSUME BatchInv, Work
  PROVE  BatchInv'
<1>1. PICK w \in Workers : Worked(w)
  BY WorkIs
<1>2. /\ phase = "fan" /\ stage[w] \in {"open", "write"} /\ Frame(w)
      /\ UNCHANGED <<phase, plan, cache, request, batches, before, index, result, file>>
  BY <1>1 DEF Worked, Frame
<1>3. Len(plan) \in Nat /\ DOMAIN plan = 1..Len(plan)
  BY <1>2, RunAtHand
<1>4. Spread'
  <2>1. (\E j, e : Records(w, j, e)) \/ Proceeds(w) \/ Dies(w)
    BY <1>1 DEF Worked
  <2>2. QED
    BY <1>2, <1>3, <2>1, WorkKeepsSpread DEF BatchInv
<1>5. Shape'
  <2>1. DOMAIN local' = DOMAIN local
    <3>1. DOMAIN local = WorkersFor(Len(plan)) /\ DOMAIN local' = WorkersFor(Len(plan))'
      BY <1>2, <1>4 DEF BatchInv, Spread
    <3>2. QED
      BY <1>2, <3>1
  <2>2. QED
    BY <1>2, <2>1 DEF BatchInv, Shape
<1>6. Planned'
  BY <1>2 DEF BatchInv, Planned, Planning, PlanFor
<1>7. Cached'
  BY <1>2 DEF BatchInv, Cached, Fanned, Pinned
<1>8. Stored' /\ Earlier' /\ Indexed'
  BY <1>1, WorkKeepsStored, WorkKeepsEarlier, WorkKeepsIndexed
<1>9. Told'
  BY <1>2 DEF Told, Published
<1>10. QED
  BY <1>4, <1>5, <1>6, <1>7, <1>8, <1>9 DEF BatchInv

-----------------------------------------------------------------------------
(* The steps that leave the workers alone.                                 *)

Steady ==
  UNCHANGED <<batches, request, plan, cache, local, stage, tape, store, before, faulted>>

LEMMA SteadyFills ==
  ASSUME Steady
  PROVE  /\ \A w : Filled(w)' <=> Filled(w)
         /\ \A e, i : IsTrue(e, i)' <=> IsTrue(e, i)
         /\ AllEntries' = AllEntries /\ WorkersFor(Len(plan))' = WorkersFor(Len(plan))
<1>1. UNCHANGED <<batches, request, plan, cache, local, stage, tape, store, before, faulted>>
  BY DEF Steady
<1>2. /\ \A w : FirstOf(w)' = FirstOf(w) /\ LastOf(w)' = LastOf(w) /\ Size(w)' = Size(w)
      /\ \A w : At(w)' = At(w)
      /\ \A i : EntriesOf(i)' = EntriesOf(i) /\ TapesOf(i)' = TapesOf(i)
      /\ AllEntries' = AllEntries
  BY <1>1, SamePlaces, SameEntries DEF At
<1>3. \A i : Alone(i)' <=> Alone(i)
  BY <1>1 DEF Alone
<1>4. PinsTwice' <=> PinsTwice
  BY <1>1 DEF PinsTwice
<1>5. \A e, i : IsTrue(e, i)' <=> IsTrue(e, i)
  BY <1>2, <1>3, <1>4 DEF IsTrue
<1>6. \A e : OnDisk(e)' <=> OnDisk(e)
  BY <1>1 DEF OnDisk
<1>7. \A w : Opened(w)' <=> Opened(w)
  BY <1>1, <1>2 DEF Opened
<1>8. ASSUME NEW w
      PROVE  Filled(w)' <=> Filled(w)
  <2>1. \A k \in 1..Len(local[w]) :
          /\ IsTrue(local[w][k], FirstOf(w) + k - 1)' <=> IsTrue(local[w][k], FirstOf(w) + k - 1)
          /\ OnDisk(local[w][k])' <=> OnDisk(local[w][k])
    <3> SUFFICES ASSUME NEW k \in 1..Len(local[w]), NEW x, x = local[w][k],
                        NEW i, i = FirstOf(w) + k - 1
                 PROVE  (IsTrue(x, i)' <=> IsTrue(x, i)) /\ (OnDisk(x)' <=> OnDisk(x))
      BY <1>1, <1>2
    <3>1. QED
      BY <1>5, <1>6
  <2>2. QED
    BY <1>1, <1>2, <1>7, <2>1 DEF Filled
<1>9. WorkersFor(Len(plan))' = WorkersFor(Len(plan))
  BY <1>1
<1>10. QED
  BY <1>2, <1>5, <1>8, <1>9

LEMMA SteadyStores ==
  ASSUME BatchInv, Steady
  PROVE  /\ Stored' /\ (index' = index => Indexed')
         /\ \A ix : IndexKept(ix) => IndexKept(ix)'
<1>1. UNCHANGED <<batches, store>> /\ Stored /\ Indexed
  BY DEF Steady, BatchInv
<1>2. Stored'
  <2>1. \A t : OfBatch(t, batches)' <=> OfBatch(t, batches)
    BY <1>1 DEF OfBatch
  <2>2. QED
    BY <1>1, <2>1 DEF Stored
<1>3. \A ix : IndexKept(ix) => IndexKept(ix)'
  BY <1>1 DEF IndexKept
<1>4. index' = index => Indexed'
  BY <1>1 DEF Indexed
<1>5. QED
  BY <1>2, <1>3, <1>4

\* The batch returns an error, or is killed.
LEMMA EndKeeps ==
  ASSUME BatchInv, Steady, index' = index, file' = file,
         phase' = "idle", result' # "ok"
  PROVE  BatchInv'
<1>1. ~Planning' /\ ~Fanned' /\ ~Published'
  BY DEF Planning, Fanned, Published
<1>2. Shape'
  BY DEF BatchInv, Shape, Steady
<1>3. Planned' /\ Cached' /\ Told'
  BY <1>1 DEF Planned, Cached, Told
<1>4. Spread' /\ Earlier'
  BY DEF Spread, Earlier
<1>5. QED
  BY <1>2, <1>3, <1>4, SteadyStores DEF BatchInv

\* Nothing of the batch changes.
LEMMA StutterKeeps ==
  ASSUME BatchInv, Steady, UNCHANGED <<index, phase, result>>, file' \in Tapes
  PROVE  BatchInv'
<1>0. /\ Shape /\ Planned /\ Cached /\ Spread /\ Stored /\ Earlier /\ Indexed /\ Told
      /\ UNCHANGED <<batches, request, plan, cache, local, stage, tape, store, before, faulted>>
  BY DEF BatchInv, Steady
<1>1. Shape'
  BY <1>0 DEF Shape
<1>2. Planned'
  BY <1>0 DEF Planned, Planning, Published, PlanFor
<1>3. Cached'
  BY <1>0 DEF Cached, Fanned, Published, Pinned
<1>4. Spread'
  BY <1>0, SteadyFills DEF Spread, Workers
<1>5. Earlier'
  <2>1. \A t : OfBatch(t, batches - 1)' <=> OfBatch(t, batches - 1)
    BY <1>0 DEF OfBatch
  <2>2. QED
    BY <1>0, <2>1 DEF Earlier, Workers, IsOk
<1>6. Told'
  <2>1. (Published' <=> Published) /\ Runs' = Runs
    BY <1>0 DEF Published, Runs, BatchId
  <2>2. SUFFICES ASSUME Published
                 PROVE  /\ Runs \in Seq(AllEntries) /\ Len(Runs) = Len(plan)
                        /\ \A i \in DOMAIN plan : IsTrue(Runs[i], i)'
    BY <1>0, <2>1, SteadyFills DEF Told
  <2>3. Runs \in Seq(AllEntries) /\ Len(Runs) = Len(plan)
    BY <1>0, <2>2 DEF Told
  <2>4. ASSUME NEW i \in DOMAIN plan
        PROVE  IsTrue(Runs[i], i)'
    <3>1. PICK x : x = Runs[i]
      OBVIOUS
    <3>2. IsTrue(x, i)'
      BY <1>0, <2>2, <3>1, SteadyFills DEF Told
    <3>3. x = Runs[i]'
      BY <2>1, <3>1
    <3>4. QED
      BY <3>2, <3>3
  <2>5. QED
    BY <2>3, <2>4
<1>7. QED
  BY <1>0, <1>1, <1>2, <1>3, <1>4, <1>5, <1>6, SteadyStores DEF BatchInv

\* A new batch finds every walk on disk older than itself.
LEMMA AskKeeps ==
  ASSUME BatchInv, Ask
  PROVE  BatchInv'
<1>1. /\ batches' = batches + 1 /\ request' \in Requests /\ phase' = "expand"
      /\ before' = DOMAIN store /\ faulted' = {}
      /\ UNCHANGED <<file, plan, local, store, index>>
  BY DEF Ask, runVars, diskVars
<1>2. batches \in Nat /\ Stored /\ Indexed
  BY DEF BatchInv, Shape
<1>3. Shape'
  BY <1>1 DEF BatchInv, Shape
<1>4. \A t : OfBatch(t, batches) => OfBatch(t, batches')
  BY <1>1, <1>2 DEF OfBatch
<1>5. Stored'
  <2>1. \A id \in DOMAIN store :
          /\ OfBatch(id[3], batches')
          /\ store[id].tape = id[3]
          /\ store[id].batch \in 0..batches'
    BY <1>1, <1>2, <1>4 DEF Stored
  <2>2. \A t : OfBatch(t, batches)' <=> OfBatch(t, batches')
    BY DEF OfBatch
  <2>3. QED
    BY <1>1, <2>1, <2>2 DEF Stored
<1>6. Earlier'
  <2>1. \A id \in DOMAIN store : OfBatch(id[3], batches' - 1)
    <3>1. batches' - 1 = batches
      BY <1>1, <1>2
    <3>2. QED
      BY <1>2, <3>1 DEF Stored
  <2>2. \A t : OfBatch(t, batches - 1)' <=> OfBatch(t, batches' - 1)
    BY DEF OfBatch
  <2>3. QED
    BY <1>1, <2>1, <2>2 DEF Earlier
<1>7. Indexed'
  <2>1. Grows
    BY <1>1 DEF Grows
  <2>2. \A ix : IndexKept(ix) => IndexKept(ix)'
    BY <1>1, <1>2, <2>1, GrowthKeepsIndexed
  <2>3. \A id \in DOMAIN index : IndexKept(index[id])
    BY <1>2, IndexedIs
  <2>4. \A id \in DOMAIN index : IndexKept(index[id])'
    <3> SUFFICES ASSUME NEW id \in DOMAIN index, NEW ix, ix = index[id]
                 PROVE  IndexKept(ix)'
      BY <1>1
    <3>1. QED
      BY <2>2, <2>3
  <2>5. QED
    BY <1>1, <2>4 DEF Indexed, IndexKept
<1>8. Planned' /\ Cached' /\ Told' /\ Spread'
  BY <1>1 DEF Planned, Planning, Cached, Fanned, Told, Published, Spread
<1>9. QED
  BY <1>3, <1>5, <1>6, <1>7, <1>8 DEF BatchInv

\* No error is called Ok.
LEMMA ErrorNames ==
  \A params, base : ExpandError(params, base) # "ok"
BY DEF ExpandError

LEMMA ExpandLen ==
  ASSUME NEW req \in Requests, ExpandError(req.params, req.base) = "none"
  PROVE  Len(Expand(req.params, req.base)) \in 0..MaxRuns
<1>1. Total(req.params) \in Nat
  BY OverridesTyped
<1>2. ~(Total(req.params) > MaxRuns)
  BY DEF ExpandError
<1>3. Len(Expand(req.params, req.base)) = Total(req.params)
  BY <1>1 DEF Expand
<1>4. QED
  BY <1>1, <1>2, <1>3

LEMMA DoExpandKeeps ==
  ASSUME BatchInv, DoExpand
  PROVE  BatchInv'
<1>1. /\ phase = "expand"
      /\ UNCHANGED <<file, batches, request, cache, local, stage, tape, store, index, before,
                     faulted>>
  BY DEF DoExpand, diskVars
<1>2. request \in Requests
  BY DEF BatchInv, Shape
<1>3. CASE ExpandError(request.params, request.base) # "none"
  <2>1. /\ phase' = "idle" /\ result' = ExpandError(request.params, request.base)
        /\ plan' = plan
    BY <1>3 DEF DoExpand, Give
  <2>2. Steady /\ result' # "ok"
    BY <1>1, <2>1, ErrorNames DEF Steady
  <2>3. QED
    BY <1>1, <2>1, <2>2, EndKeeps
<1>4. CASE ExpandError(request.params, request.base) = "none"
  <2>1. plan' = Expand(request.params, request.base) /\ phase' = "materialise"
    BY <1>4 DEF DoExpand
  <2>2. Len(plan') \in 0..MaxRuns
    BY <1>2, <1>4, <2>1, ExpandLen
  <2>3. Shape'
    BY <1>1, <2>1, <2>2 DEF BatchInv, Shape
  <2>4. Planned'
    BY <1>1, <1>4, <2>1 DEF Planned, PlanFor
  <2>5. Stored' /\ Indexed'
    <3>1. Stored /\ Indexed
      BY DEF BatchInv
    <3>2. \A t : OfBatch(t, batches)' <=> OfBatch(t, batches)
      BY <1>1 DEF OfBatch
    <3>3. QED
      BY <1>1, <3>1, <3>2 DEF Stored, Indexed
  <2>6. Earlier'
    <3>1. \A t : OfBatch(t, batches - 1)' <=> OfBatch(t, batches - 1)
      BY <1>1 DEF OfBatch
    <3>2. Earlier
      BY DEF BatchInv
    <3>3. QED
      BY <1>1, <2>1, <3>1, <3>2 DEF Earlier
  <2>7. Cached' /\ Told' /\ Spread'
    BY <2>1 DEF Cached, Fanned, Told, Published, Spread
  <2>8. QED
    BY <2>3, <2>4, <2>5, <2>6, <2>7 DEF BatchInv
<1>5. QED
  BY <1>3, <1>4

\* The workers of a plan, and none for no runs.
LEMMA WorkersAre ==
  ASSUME Len(plan) \in Nat
  PROVE  \E n \in 0..Cores :
           /\ WorkersFor(Len(plan)) = 1..n
           /\ n = 0 <=> Len(plan) = 0
           /\ n # 0 => Chunked(n)
<1>1. CASE Len(plan) = 0
  <2>1. WorkersFor(Len(plan)) = 1..0 /\ 0 \in 0..Cores
    BY <1>1 DEF WorkersFor, BatchAssumption
  <2>2. QED
    BY <1>1, <2>1
<1>2. CASE Len(plan) # 0
  <2>1. PICK m \in Nat : Chunked(m)
    BY <1>2, ChunksFollow
  <2>2. m # 0 /\ m \in 0..Cores /\ WorkersFor(Len(plan)) = 1..m
    BY <2>1 DEF Chunked, BatchAssumption
  <2>3. QED
    BY <1>2, <2>1, <2>2
<1>3. QED
  BY <1>1, <1>2

LEMMA MaterialiseKeeps ==
  ASSUME BatchInv, Materialise
  PROVE  BatchInv'
<1>1. /\ phase = "materialise" /\ phase' = "fan"
      /\ UNCHANGED <<file, batches, request, plan, store, index, before, faulted, result>>
      /\ local' = [w \in WorkersFor(Len(plan)) |-> <<>>]
      /\ stage' = [w \in WorkersFor(Len(plan)) |-> "open"]
      /\ DOMAIN tape' = WorkersFor(Len(plan))
      /\ cache' = IF plan = <<>> \/ request.base.source.kind # "parquet" THEN NoTape
                  ELSE SharedTape(plan[1])
  BY DEF Materialise, diskVars
<1>2. request \in Requests /\ PlanFor(request) /\ faulted = {} /\ before = DOMAIN store
  BY <1>1 DEF BatchInv, Shape, Planned, Planning, Earlier
<1>3. Len(plan) \in Nat /\ DOMAIN plan = 1..Len(plan)
  BY <1>2, PlanShape
<1>4. PICK n \in 0..Cores :
           /\ WorkersFor(Len(plan)) = 1..n
           /\ n = 0 <=> Len(plan) = 0
           /\ n # 0 => Chunked(n)
  BY <1>3, WorkersAre
<1>5. Shape'
  <2>1. DOMAIN local' = 1..n
    BY <1>1, <1>4
  <2>2. QED
    BY <1>1, <1>4, <2>1 DEF BatchInv, Shape
<1>6. Planned'
  BY <1>1, <1>2 DEF Planned, PlanFor
<1>7. Cached'
  <2>1. SUFFICES ASSUME plan # <<>>, request.base.source.kind = "parquet"
                 PROVE  /\ cache' \in Tapes
                        /\ cache' # BadTape /\ Pinned(request.base) =>
                             request.base.source.pin = cache'
    BY <1>1 DEF Cached, Pinned
  <2>2. cache' = SharedTape(plan[1]) /\ file \in Tapes
    BY <1>1, <2>1 DEF BatchInv, Shape
  <2>3. 1 \in DOMAIN plan
    <3>1. plan = [i \in DOMAIN plan |-> plan[i]]
      BY <1>2 DEF PlanFor, Expand
    <3>2. Len(plan) # 0
      BY <1>3, <2>1, <3>1
    <3>3. QED
      BY <1>3, <3>2
  <2>4. plan[1].source = request.base.source
    BY <1>2, <2>1, <2>3, PlanSources
  <2>5. QED
    BY <2>2, <2>4 DEF SharedTape, Opens, Pinned, BatchAssumption
<1>8. Spread'
  <2>1. UNCHANGED <<plan, batches, request>>
    BY <1>1
  <2>2. ASSUME NEW w \in 1..n
        PROVE  Filled(w)'
    <3>1. local'[w] = <<>> /\ stage'[w] = "open" /\ faulted' = {}
      BY <1>1, <1>2, <1>4
    <3>2. Len(local'[w]) = 0
      BY <3>1
    <3>3. Size(w)' = Size(w) /\ Size(w) \in Nat \ {0}
      <4>1. Size(w) \in Nat \ {0}
        BY <1>4 DEF Chunked, Size
      <4>2. QED
        BY <2>1, <4>1, SamePlaces
    <3>4. QED
      BY <3>1, <3>2, <3>3 DEF Filled
  <2>3. \A S : local' \in [1..n -> Seq(S)]
    <3>1. \A S : <<>> \in Seq(S)
      BY EmptySeq
    <3>2. QED
      BY <1>1, <1>4, <3>1
  <2>4. WorkersFor(Len(plan))' = 1..n /\ Workers' = 1..n
    BY <1>1, <1>4 DEF Workers
  <2>5. QED
    BY <1>1, <1>4, <2>2, <2>3, <2>4 DEF Spread
<1>9. Stored' /\ Indexed'
  <2>1. Stored /\ Indexed
    BY DEF BatchInv
  <2>2. \A t : OfBatch(t, batches)' <=> OfBatch(t, batches)
    BY <1>1 DEF OfBatch
  <2>3. QED
    BY <1>1, <2>1, <2>2 DEF Stored, Indexed
<1>10. Earlier'
  <2>1. \A t : OfBatch(t, batches - 1)' <=> OfBatch(t, batches - 1)
    BY <1>1 DEF OfBatch
  <2>2. Earlier
    BY DEF BatchInv
  <2>3. QED
    BY <1>1, <1>2, <2>1, <2>2 DEF Earlier
<1>11. Told'
  BY <1>1 DEF Told, Published
<1>12. QED
  BY <1>5, <1>6, <1>7, <1>8, <1>9, <1>10, <1>11 DEF BatchInv

LEMMA JoinKeeps ==
  ASSUME BatchInv, Join
  PROVE  BatchInv'
<1>1. /\ phase = "fan" /\ \A w \in Workers : stage[w] \in {"done", "dead"}
      /\ UNCHANGED <<file, index>>
  BY DEF Join, Joined, diskVars
<1>2. Steady
  BY DEF Join, Steady, runVars, diskVars
<1>3. CASE \E w \in Workers : stage[w] = "dead"
  <2>1. phase' = "idle" /\ result' = "panic"
    BY <1>3 DEF Join, Give
  <2>2. QED
    BY <1>1, <1>2, <2>1, EndKeeps
<1>4. CASE ~ \E w \in Workers : stage[w] = "dead"
  <2>1. phase' = "index"
    BY <1>4 DEF Join
  <2>2. \A w \in Workers : stage[w] = "done"
    BY <1>1, <1>4
  <2>3. UNCHANGED <<batches, request, plan, cache, local, stage, tape, store, before, faulted>>
    BY <1>2 DEF Steady
  <2>4. Shape'
    BY <1>1, <2>1, <2>3 DEF BatchInv, Shape
  <2>5. Planned'
    BY <1>1, <2>3 DEF BatchInv, Planned, Planning, PlanFor
  <2>6. Cached'
    BY <1>1, <2>3 DEF BatchInv, Cached, Fanned, Pinned
  <2>7. Spread'
    BY <1>1, <1>2, <2>2, <2>3, SteadyFills DEF BatchInv, Spread, Workers
  <2>8. Earlier'
    <3>1. \A t : OfBatch(t, batches - 1)' <=> OfBatch(t, batches - 1)
      BY <2>3 DEF OfBatch
    <3>2. Earlier
      BY DEF BatchInv
    <3>3. QED
      BY <1>1, <2>1, <2>3, <3>1, <3>2 DEF Earlier, Workers, IsOk
  <2>9. Told'
    BY <2>1 DEF Told, Published
  <2>10. QED
    BY <1>1, <1>2, <2>4, <2>5, <2>6, <2>7, <2>8, <2>9, SteadyStores DEF BatchInv
<1>5. QED
  BY <1>3, <1>4

\* Every run is some worker's.
LEMMA Covered ==
  ASSUME NEW m \in Nat, Chunked(m), Len(plan) \in Nat, NEW i \in 1..Len(plan)
  PROVE  \E w \in 1..m : i \in FirstOf(w)..LastOf(w)
<1> DEFINE P == {w \in Nat : w \in 1..m /\ i <= LastOf(w) =>
                               \E v \in 1..m : i \in FirstOf(v)..LastOf(v)}
<1>1. 0 \in P
  OBVIOUS
<1>2. ASSUME NEW w \in Nat, w \in P
      PROVE  w + 1 \in P
  <2> SUFFICES ASSUME w + 1 \in 1..m, i <= LastOf(w + 1)
               PROVE  \E v \in 1..m : i \in FirstOf(v)..LastOf(v)
    OBVIOUS
  <2>1. FirstOf(w + 1) \in Nat /\ LastOf(w + 1) \in Nat
    BY DEF Chunked
  <2>2. CASE i >= FirstOf(w + 1)
    BY <2>1, <2>2
  <2>3. CASE i < FirstOf(w + 1)
    <3>1. w # 0
      BY <2>3 DEF Chunked
    <3>2. w \in 1..m /\ w < m
      BY <3>1
    <3>3. FirstOf(w + 1) = LastOf(w) + 1 /\ LastOf(w) \in Nat
      BY <3>2 DEF Chunked
    <3>4. i <= LastOf(w)
      BY <2>3, <3>3
    <3>5. QED
      BY <1>2, <3>2, <3>4
  <2>4. QED
    BY <2>1, <2>2, <2>3
<1>3. Nat \subseteq P
  <2> HIDE DEF P
  <2>1. QED
    BY <1>1, <1>2, SetInduction
<1>4. m \in P /\ m \in 1..m /\ i <= LastOf(m)
  BY <1>3 DEF Chunked
<1>5. QED
  BY <1>4

\* What is published: the plan, run by run.
LEMMA CollectedIsPlan ==
  ASSUME BatchInv, phase = "index"
  PROVE  /\ Collected \in Seq(AllEntries) /\ Len(Collected) = Len(plan)
         /\ \A i \in DOMAIN plan : IsTrue(Collected[i], i) /\ OnDisk(Collected[i])
         /\ Len(plan) \in Nat /\ DOMAIN plan = 1..Len(plan)
<1>1. request \in Requests /\ PlanFor(request) /\ Spread
  BY DEF BatchInv, Shape, Planned, Planning
<1>2. Len(plan) \in Nat /\ DOMAIN plan = 1..Len(plan)
  BY <1>1, PlanShape
<1>3. PICK n \in 0..Cores :
           /\ WorkersFor(Len(plan)) = 1..n
           /\ n = 0 <=> Len(plan) = 0
           /\ n # 0 => Chunked(n)
  BY <1>2, WorkersAre
<1>4. /\ local \in [1..n -> Seq(AllEntries)] /\ Workers = 1..n
      /\ \A w \in 1..n : Filled(w) /\ stage[w] = "done"
  BY <1>1, <1>3 DEF Spread, Workers
<1>5. CASE n = 0
  <2>1. local = <<>> /\ Len(local) = 0
    BY <1>4, <1>5
  <2>2. FlattenSeq(local) = <<>>
    BY <2>1 DEF FlattenSeq
  <2>3. <<>> \in Seq(AllEntries)
    BY EmptySeq
  <2>4. SortedByIndex(<<>>) = <<>>
    <3>1. PICK s : s = <<>>
      OBVIOUS
    <3>2. s \in Seq(AllEntries) /\ \A j \in DOMAIN s : s[j].index = j - 1
      BY <2>3, <3>1
    <3>3. SortedByIndex(s) = s
      BY <3>2, SortedStays
    <3>4. QED
      BY <3>1, <3>3
  <2>5. Collected = <<>>
    BY <2>2, <2>4 DEF Collected
  <2>6. QED
    BY <1>2, <1>3, <1>5, <2>3, <2>5, EmptySeq
<1>6. CASE n # 0
  <2>1. \A w \in 1..n : Len(local[w]) = Size(w)
    BY <1>4 DEF Filled
  <2>2. n \in Nat /\ Chunked(n)
    BY <1>3, <1>6
  <2>3. PICK s : s = FlattenSeq(local)
    OBVIOUS
  <2>4. /\ s \in Seq(AllEntries) /\ Len(s) = Len(plan)
        /\ \A w \in 1..n : \A k \in 1..Len(local[w]) : s[FirstOf(w) + k - 1] = local[w][k]
    BY <1>4, <2>1, <2>2, <2>3, AppendedInOrder
  <2>5. ASSUME NEW i \in 1..Len(plan)
        PROVE  IsTrue(s[i], i) /\ OnDisk(s[i])
    <3>1. PICK w \in 1..n : i \in FirstOf(w)..LastOf(w)
      BY <1>2, <2>2, Covered
    <3>2. FirstOf(w) \in Nat /\ LastOf(w) \in Nat
      BY <2>2 DEF Chunked
    <3>3. PICK k \in Nat : k = i - FirstOf(w) + 1
      BY <3>1, <3>2
    <3>4. k \in 1..Len(local[w]) /\ FirstOf(w) + k - 1 = i
      BY <2>1, <3>1, <3>2, <3>3 DEF Size
    <3>5. Filled(w)
      BY <1>4
    <3>6. IsTrue(local[w][k], i) /\ OnDisk(local[w][k])
      BY <3>4, <3>5 DEF Filled
    <3>7. s[i] = local[w][k]
      BY <2>4, <3>4
    <3>8. QED
      BY <3>6, <3>7
  <2>6. \A i \in DOMAIN s : s[i].index = i - 1
    <3>1. DOMAIN s = 1..Len(plan)
      BY <2>4
    <3>2. \A i \in 1..Len(plan) : s[i] \in EntriesOf(i)
      BY <2>5 DEF IsTrue
    <3>3. QED
      BY <3>1, <3>2, EntryFacts
  <2>7. Collected = s
    BY <2>3, <2>4, <2>6, SortedStays DEF Collected
  <2>8. QED
    BY <1>2, <2>4, <2>5, <2>7
<1>7. QED
  BY <1>5, <1>6

LEMMA PublishKeeps ==
  ASSUME BatchInv, PublishIndex
  PROVE  BatchInv'
<1> DEFINE own == BatchId(request)
           new == BatchIndex(request, Collected)
<1>1. /\ phase = "index" /\ phase' = "idle" /\ result' = "ok" /\ file' = file
      /\ index' = [id \in DOMAIN index \cup {own} |-> IF id = own THEN new ELSE index[id]]
  BY DEF PublishIndex, Give
<1>2. Steady
  BY DEF PublishIndex, Steady, runVars
<1>3. UNCHANGED <<batches, request, plan, cache, store>>
  BY <1>2 DEF Steady
<1>4. /\ Collected \in Seq(AllEntries) /\ Len(Collected) = Len(plan)
      /\ \A i \in DOMAIN plan : IsTrue(Collected[i], i) /\ OnDisk(Collected[i])
      /\ Len(plan) \in Nat /\ DOMAIN plan = 1..Len(plan)
  BY <1>1, CollectedIsPlan
<1>5. new.runs = Collected /\ new.run_count = Len(plan) /\ new.batch = batches
  BY <1>4 DEF BatchIndex
<1>6. batches \in Nat /\ Stored /\ Indexed
  BY DEF BatchInv, Shape
<1>7. IndexKept(new)
  <2>1. ASSUME NEW i \in DOMAIN plan, NEW e, e = Collected[i], IsOk(e)
        PROVE  /\ e.outcome.run_id \in DOMAIN store
               /\ store[e.outcome.run_id].tape = e.outcome.tape_sha256
               /\ store[e.outcome.run_id].batch >= batches
    <3>1. e \in EntriesOf(i) /\ OnDisk(e)
      BY <1>4, <2>1 DEF IsTrue
    <3>2. PICK t : e.outcome.run_id = RunId(plan[i], t) /\ e.outcome.tape_sha256 = t
      BY <2>1, <3>1, EntryFacts
    <3>3. e.outcome.run_id \in DOMAIN store /\ store[e.outcome.run_id].batch = batches
      BY <2>1, <3>1 DEF OnDisk
    <3>4. store[e.outcome.run_id].tape = e.outcome.run_id[3]
      BY <1>6, <3>3 DEF Stored
    <3>5. QED
      BY <1>6, <3>2, <3>3, <3>4, RunIdParts
  <2> HIDE DEF new
  <2>2. QED
    BY <1>4, <1>5, <1>6, <2>1 DEF IndexKept, IsOk
<1> HIDE DEF own, new
<1>8. Indexed'
  <2>1. ASSUME NEW id \in DOMAIN index', NEW ix, ix = index'[id]
        PROVE  IndexKept(ix)'
    <3>1. IndexKept(ix)
      BY <1>1, <1>6, <1>7, <2>1, IndexedIs
    <3>2. QED
      BY <1>2, <3>1, SteadyStores
  <2>2. ASSUME NEW id \in DOMAIN index'
        PROVE  /\ index'[id].batch \in 0..batches'
               /\ \A i \in 1..index'[id].run_count :
                    LET outcome == index'[id].runs[i].outcome
                    IN  outcome.status = "ok" =>
                          /\ outcome.run_id \in DOMAIN store'
                          /\ store'[outcome.run_id].tape = outcome.tape_sha256
                          /\ store'[outcome.run_id].batch >= index'[id].batch
    <3>1. PICK ix : ix = index'[id]
      OBVIOUS
    <3>2. IndexKept(ix)'
      BY <2>1, <3>1
    <3>3. QED
      BY <3>1, <3>2 DEF IndexKept
  <2>3. QED
    BY <2>2 DEF Indexed
<1>9. Told'
  <2>1. Runs' = Collected
    <3>1. BatchId(request)' = own
      BY <1>3 DEF own, BatchId
    <3>2. index'[own] = new
      BY <1>1
    <3>3. QED
      BY <1>5, <3>1, <3>2 DEF Runs
  <2>2. PICK runs : runs = Collected
    OBVIOUS
  <2>3. /\ runs \in Seq(AllEntries)' /\ Len(runs) = Len(plan')
        /\ \A i \in DOMAIN plan' : IsTrue(runs[i], i)'
    <3>1. \A i \in DOMAIN plan : IsTrue(runs[i], i)
      BY <1>4, <2>2
    <3>2. QED
      BY <1>2, <1>3, <1>4, <2>2, <3>1, SteadyFills
  <2>4. QED
    BY <2>1, <2>2, <2>3 DEF Told
<1>10. Planned'
  BY <1>1, <1>3 DEF BatchInv, Planned, Planning, PlanFor
<1>11. Cached'
  BY <1>1, <1>3 DEF BatchInv, Cached, Fanned, Pinned
<1>12. Shape' /\ Spread' /\ Earlier'
  BY <1>1, <1>2 DEF BatchInv, Shape, Spread, Earlier, Steady
<1>13. QED
  BY <1>2, <1>8, <1>9, <1>10, <1>11, <1>12, SteadyStores DEF BatchInv

-----------------------------------------------------------------------------
(* Theorems.                                                               *)

LEMMA InitBatch ==
  ASSUME Init
  PROVE  BatchInv
<1>1. Shape
  <2>1. Len(plan) = 0 /\ DOMAIN local = 1..0
    BY DEF Init
  <2>2. 0 \in 0..Cores /\ 0 \in 0..MaxRuns
    BY DEF BatchAssumption
  <2>3. QED
    BY <2>1, <2>2 DEF Init, Shape
<1>2. Stored /\ Indexed
  <2>1. DOMAIN store = {} /\ DOMAIN index = {}
    BY DEF Init
  <2>2. QED
    BY <2>1 DEF Stored, Indexed
<1>3. QED
  BY <1>1, <1>2 DEF Init, BatchInv, Planned, Planning, Cached, Fanned, Published, Spread,
                    Earlier, Told

LEMMA NextKeepsBatch ==
  ASSUME BatchInv, [Next]_vars
  PROVE  BatchInv'
<1>1. CASE Ask
  BY <1>1, AskKeeps
<1>2. CASE DoExpand
  BY <1>2, DoExpandKeeps
<1>3. CASE Materialise
  BY <1>3, MaterialiseKeeps
<1>4. CASE Work
  BY <1>4, WorkKeeps
<1>5. CASE Join
  BY <1>5, JoinKeeps
<1>6. CASE PublishIndex
  BY <1>6, PublishKeeps
<1>7. CASE IndexFails
  <2>1. Steady /\ index' = index /\ file' = file /\ phase' = "idle" /\ result' # "ok"
    BY <1>7 DEF IndexFails, Steady, runVars, diskVars, Give
  <2>2. QED
    BY <2>1, EndKeeps
<1>8. CASE Crash
  <2>1. Steady /\ index' = index /\ file' = file /\ phase' = "idle" /\ result' # "ok"
    BY <1>8 DEF Crash, Steady, runVars, diskVars, Give
  <2>2. QED
    BY <2>1, EndKeeps
<1>9. CASE FileChanges
  <2>1. Steady /\ UNCHANGED <<index, phase, result>> /\ file' \in Tapes
    BY <1>9 DEF FileChanges, Steady, runVars, diskVars
  <2>2. QED
    BY <2>1, StutterKeeps
<1>10. CASE UNCHANGED vars
  <2>1. Steady /\ UNCHANGED <<index, phase, result, file>> /\ file \in Tapes
    BY <1>10 DEF vars, Steady, runVars, diskVars, BatchInv, Shape
  <2>2. QED
    BY <2>1, StutterKeeps
<1>11. QED
  BY <1>1, <1>2, <1>3, <1>4, <1>5, <1>6, <1>7, <1>8, <1>9, <1>10 DEF Next, Step, AllDone

THEOREM BatchIsInvariant == Spec => []BatchInv
<1>1. Init => BatchInv
  BY InitBatch
<1>2. BatchInv /\ [Next]_vars => BatchInv'
  BY NextKeepsBatch
<1>3. QED
  BY <1>1, <1>2, PTL DEF Spec

LEMMA NoRaceHolds ==
  ASSUME BatchInv
  PROVE  NoRace
<1>1. Len(plan) <= MaxRuns
  BY DEF BatchInv, Shape
<1>2. Cardinality(Workers) <= Cores
  <2>1. PICK n \in 0..Cores : Workers = 1..n
    BY DEF BatchInv, Shape, Workers
  <2>2. n \in Nat /\ n <= Cores
    BY <2>1 DEF BatchAssumption
  <2>3. Cardinality(1..n) = n
    BY <2>2, FS_Interval
  <2>4. QED
    BY <2>1, <2>2, <2>3
<1>3. ASSUME phase = "fan", ~PinsTwice, NEW v \in Workers, NEW w \in Workers, v # w,
             stage[v] = "write", stage[w] = "write"
      PROVE  RunId(plan[At(v)], tape[v]) # RunId(plan[At(w)], tape[w])
  <2>1. /\ request \in Requests /\ PlanFor(request) /\ Len(plan) \in Nat /\ Spread
        /\ At(v) \in DOMAIN plan /\ At(w) \in DOMAIN plan
    BY <1>3, RunAtHand DEF BatchInv
  <2>2. PICK m \in Nat :
             Chunked(m) /\ Workers = 1..m /\ At(v) \in FirstOf(v)..LastOf(v)
    BY <1>3, <2>1, AtRun
  <2>3. At(w) \in FirstOf(w)..LastOf(w)
    BY <1>3, <2>1, AtRun
  <2>4. /\ FirstOf(v) \in Nat /\ LastOf(v) \in Nat /\ FirstOf(w) \in Nat /\ LastOf(w) \in Nat
        /\ v < w => LastOf(v) < FirstOf(w)
        /\ w < v => LastOf(w) < FirstOf(v)
        /\ v < w \/ w < v
    BY <1>3, <2>2 DEF Chunked
  <2>5. At(v) # At(w)
    BY <2>2, <2>3, <2>4
  <2>6. plan[At(v)].seed # plan[At(w)].seed
    BY <1>3, <2>1, <2>5, TwoSeeds
  <2>7. QED
    BY <2>6, RunIdParts
<1>4. QED
  BY <1>1, <1>2, <1>3 DEF NoRace

\* NoRace: no two workers write the bundle of one run id, whatever the number
\* of runs and of cores and however the workers interleave; and there are no
\* more workers than cores, nor runs than the ceiling (batch.rs:50).
THEOREM RunsNeverRace == Spec => []NoRace
<1>1. BatchInv => NoRace
  BY NoRaceHolds
<1>2. QED
  BY <1>1, BatchIsInvariant, PTL

LEMMA IndexIsPlanHolds ==
  ASSUME BatchInv
  PROVE  IndexIsPlan
<1>1. ASSUME Published
      PROVE  /\ Len(Runs) = Len(plan)
             /\ \A i \in DOMAIN plan :
                  /\ Runs[i].index = i - 1
                  /\ Runs[i].engine_seed = plan[i].seed
                  /\ ~PinsTwice => (Runs[i].outcome.status = "ok" <=> Alone(i))
  <2>1. Len(Runs) = Len(plan) /\ \A i \in DOMAIN plan : IsTrue(Runs[i], i)
    BY <1>1 DEF BatchInv, Told
  <2>2. ASSUME NEW i \in DOMAIN plan
        PROVE  /\ Runs[i].index = i - 1
               /\ Runs[i].engine_seed = plan[i].seed
               /\ ~PinsTwice => (Runs[i].outcome.status = "ok" <=> Alone(i))
    <3>1. PICK e : e = Runs[i]
      OBVIOUS
    <3>2. IsTrue(e, i)
      BY <2>1, <3>1
    <3>3. e.index = i - 1 /\ e.engine_seed = plan[i].seed
      BY <3>2, EntryFacts DEF IsTrue
    <3>4. ~PinsTwice => (e.outcome.status = "ok" <=> Alone(i))
      BY <3>2 DEF IsTrue, IsOk
    <3>5. QED
      BY <3>1, <3>3, <3>4
  <2>3. QED
    BY <2>1, <2>2
<1>2. Indexed
  BY DEF BatchInv
<1>3. QED
  BY <1>1, <1>2 DEF IndexIsPlan, Indexed

\* IndexIsPlan: the published index has one entry per run, in run order, Ok
\* exactly when the run alone succeeds, whatever the schedule of the workers;
\* and what any published index calls Ok stays on disk (batch.rs:394).
THEOREM IndexAlwaysPlan == Spec => []IndexIsPlan
<1>1. BatchInv => IndexIsPlan
  BY IndexIsPlanHolds
<1>2. QED
  BY <1>1, BatchIsInvariant, PTL

LEMMA OneTapeHolds ==
  ASSUME BatchInv
  PROVE  OneTape
<1>1. SUFFICES ASSUME Published, request.base.source.kind = "parquet",
                      NEW i \in DOMAIN Runs, Runs[i].outcome.status = "ok"
               PROVE  /\ Runs[i].outcome.tape_sha256 = FileTape(cache)
                      /\ Pinned(request.base) => request.base.source.pin = cache
  BY DEF OneTape
<1>2. /\ request \in Requests /\ PlanFor(request) /\ Told /\ Cached
  BY <1>1 DEF BatchInv, Shape, Planned, Planning
<1>3. Len(plan) \in Nat /\ DOMAIN plan = 1..Len(plan)
  BY <1>2, PlanShape
<1>4. DOMAIN Runs = DOMAIN plan /\ IsTrue(Runs[i], i)
  BY <1>1, <1>2, <1>3 DEF Told
<1>5. PICK e : e = Runs[i]
  OBVIOUS
<1>6. PICK t \in TapesOf(i) : e.outcome.tape_sha256 = t
  BY <1>1, <1>4, <1>5, EntryFacts DEF IsTrue, IsOk
<1>7. plan[i].source.kind = "parquet"
  BY <1>1, <1>2, <1>4, PlanSources
<1>8. t = FileTape(cache) /\ cache # BadTape
  BY <1>6, <1>7 DEF TapesOf
<1>9. plan # <<>>
  BY <1>1, <1>4
<1>10. Pinned(request.base) => request.base.source.pin = cache
  BY <1>1, <1>2, <1>8, <1>9 DEF Cached, Fanned
<1>11. QED
  BY <1>5, <1>6, <1>8, <1>10

\* OneTape: the runs of a recorded source replay one tape, the pinned one when
\* there is a pin, also when the file is replaced while they run (batch.rs:279).
THEOREM TapeAlwaysOne == Spec => []OneTape
<1>1. BatchInv => OneTape
  BY OneTapeHolds
<1>2. QED
  BY <1>1, BatchIsInvariant, PTL
=============================================================================
