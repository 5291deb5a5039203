------------------------------ MODULE Scenario ------------------------------
(***************************************************************************)
(* The scenario generator (src/engine/scenario.rs): expand turns a base    *)
(* configuration and the parameters of a batch into the configurations of  *)
(* its runs.                                                               *)
(*                                                                         *)
(* A derived seed is its preimage: the domain tag, the root seed and the   *)
(* index, so that different preimages are different seeds.  A walk is the  *)
(* variant and the fields of its method; volatility and drift are integers *)
(* and Unbounded stands for any number that is not finite.                 *)
(***************************************************************************)
EXTENDS Integers, Sequences

CONSTANT MaxRuns   \* MAX_RUNS

ASSUME ScenarioAssumption == MaxRuns \in Nat

None == -100        \* Option::None of a seed or of a shock
Unbounded == 1000   \* a decimal or product that is no finite f64

ScenarioKinds == {"MonteCarlo", "StressTest", "Historical", "Custom"}

\* ConfigOverride::default.
NoOverride == [seed |-> None, factor |-> None, delta |-> None]

-----------------------------------------------------------------------------
(* Seeds and walks.                                                        *)

child_seed(base, index) == <<"engine", base, index>>
child_data_seed(base, index) == <<"data", base, index>>
Explicit(seed) == <<"explicit", seed, 0>>

\* The parameters each preset sends.
WalkFields ==
  [Brownian          |-> {"dt", "drift", "volatility"},
   GeometricBrownian |-> {"dt", "drift", "volatility"},
   MeanReverting     |-> {"dt", "volatility", "speed", "mean"},
   JumpDiffusion     |-> {"dt", "drift", "volatility", "intensity", "jump_mean",
                          "jump_volatility"},
   Garch             |-> {"dt", "drift", "volatility", "alpha", "beta"},
   Heston            |-> {"dt", "drift", "volatility", "kappa", "theta", "xi", "rho"}]

Finite(x) == x < Unbounded

\* A value of a preset's field reaches the wire only when it is finite.
WalkMethod(variant, values) ==
  IF \A f \in WalkFields[variant] : Finite(values[f])
  THEN [ok |-> TRUE, variant |-> variant, fields |-> [f \in WalkFields[variant] |-> values[f]]]
  ELSE [ok |-> FALSE, variant |-> variant, fields |-> <<>>]

\* A method without the field is left as it is.
ShockField(fields, field, value) ==
  IF field \in DOMAIN fields THEN [fields EXCEPT ![field] = value] ELSE fields

\* The factor scales the session's volatility and the walk's own, the delta
\* shifts the walk's drift; a source is refused when a result is not finite.
Shocked(source, over) ==
  LET scaled ==
        IF over.factor = None THEN source
        ELSE [source EXCEPT !.volatility = @ * over.factor,
                            !.fields = IF "volatility" \in DOMAIN @
                                       THEN ShockField(@, "volatility", @["volatility"] * over.factor)
                                       ELSE @]
  IN  IF over.delta = None THEN scaled
      ELSE [scaled EXCEPT !.fields = IF "drift" \in DOMAIN @
                                     THEN ShockField(@, "drift", @["drift"] + over.delta) ELSE @]

Refuses(source, over) ==
  \/ over.factor # None /\ (~Finite(over.factor) \/ over.factor < 0)
  \/ over.delta # None /\ ~Finite(over.delta)
  \/ LET s == Shocked(source, over)
     IN  ~Finite(s.volatility) \/ \E f \in DOMAIN s.fields : ~Finite(s.fields[f])

-----------------------------------------------------------------------------
(* expand.                                                                 *)

Overrides(params) == IF params.sweep = <<>> THEN <<NoOverride>> ELSE params.sweep

Shocks(over) == over.factor # None \/ over.delta # None

\* Mutant: an explicit seed may be replicated.
MutReplicates(params) == FALSE

\* An explicit seed with count > 1 gives every replicate one run id.
Replicates(params) ==
  params.count > 1 /\ \E i \in DOMAIN Overrides(params) : Overrides(params)[i].seed # None

Total(params) == Len(Overrides(params)) * params.count

\* The position of run i, from 0: its override and its replicate.
\* Mutant: the replicate alone.
MutPerOverride(params, i) == (i - 1) % params.count
RunIndex(params, i) == i - 1

OverrideOf(params, i) == Overrides(params)[((i - 1) \div params.count) + 1]

\* derive_config.
DeriveConfig(params, base, i) ==
  LET over  == OverrideOf(params, i)
      index == RunIndex(params, i)
  IN  [base EXCEPT
         !.seed = IF over.seed # None THEN Explicit(over.seed)
                  ELSE child_seed(params.base_seed, index),
         !.source = IF @.kind # "simulator" THEN @
                    ELSE Shocked([@ EXCEPT !.data_seed = child_data_seed(params.base_seed, index),
                                           !.pin = "none"], over)]

\* Why the whole batch is refused, before any run; the shocks are checked run
\* by run while the configurations are derived.
ExpandError(params, base) ==
  CASE params.kind # "StressTest"
         /\ \E i \in DOMAIN Overrides(params) : Shocks(Overrides(params)[i]) -> "shock"
    [] Replicates(params) -> "seed"
    [] Total(params) > MaxRuns -> "runs"
    [] base.source.kind = "simulator"
         /\ \E i \in 1..Total(params) : Refuses(base.source, OverrideOf(params, i)) -> "conversion"
    [] OTHER -> "none"

Expand(params, base) == [i \in 1..Total(params) |-> DeriveConfig(params, base, i)]
=============================================================================
