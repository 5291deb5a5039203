------------------------------- MODULE Config -------------------------------
(***************************************************************************)
(* The configuration of a run (src/config.rs) and its identity             *)
(* (src/bundle/schema.rs).                                                 *)
(*                                                                         *)
(* A path is the sequence of its components, a decimal is <<num, den>>.    *)
(* The caps on bytes are in MiB, the one on rows in 2^20 rows, so that     *)
(* they stay within the integers of a model checker.                       *)
(***************************************************************************)
EXTENDS Integers, Sequences

\* FeeSchedule and SlippageModel, which the ledger charges, TouchSize and
\* LiquidityProfile, which seed a book: a touch is <<>> for QuotedSize, <<n>> for
\* Flat.
IsFeeSchedule(fees) ==
  DOMAIN fees = {"perContract", "perOrder"} /\ \A f \in DOMAIN fees : fees[f] \in Nat
IsSlippageModel(model) ==
  CASE model.kind = "None" -> DOMAIN model = {"kind"}
    [] model.kind \in {"FixedCents", "SizeProportional"} ->
         DOMAIN model = {"kind", "cents"} /\ model.cents \in Nat
    [] model.kind = "SpreadFraction" ->
         DOMAIN model = {"kind", "num", "den"} /\ model.num \in Int /\ model.den \in Nat
    [] OTHER -> FALSE
IsTouchSize(touch) == touch = <<>> \/ (Len(touch) = 1 /\ touch[1] \in Nat)
IsLiquidityProfile(profile) ==
  /\ DOMAIN profile = {"touch", "levels", "decay"}
  /\ IsTouchSize(profile.touch) /\ profile.levels \in Nat
  /\ profile.decay[1] \in Int /\ profile.decay[2] \in Nat \ {0}
DefaultProfile == [touch |-> <<>>, levels |-> 5, decay |-> <<1, 2>>]

\* ResourceLimits::CAP_*.
HardCap ==
  [max_steps |-> 10000000, max_contracts_per_snapshot |-> 5000000,
   max_total_bytes |-> 32 * 1024, max_file_bytes |-> 64 * 1024,
   max_decompressed_bytes |-> 64 * 1024, max_manifest_bytes |-> 256,
   max_string_len |-> 16, max_rows_per_table |-> 1024 * 1024]

\* ResourceLimits::validate: each ceiling may be lowered at will, and raised to
\* its hard cap.
LimitsValid(limits) == \A field \in DOMAIN HardCap : limits[field] <= HardCap[field]

MaxDepthLevels == 64
\* LiquidityProfile::validate.
ProfileValid(profile) ==
  /\ profile.levels <= MaxDepthLevels
  /\ 0 < profile.decay[1] /\ profile.decay[1] <= profile.decay[2]
  /\ profile.touch # <<0>>

\* BacktestConfig.
IsBacktestConfig(config) ==
  /\ DOMAIN config = {"data_source", "mode", "seed", "initial_capital", "fees",
       "slippage", "marketable_cap_ticks", "liquidity_profile", "limits",
       "output_dir", "overwrite"}
  /\ config.data_source.kind \in {"csv", "parquet", "simulator"}
  /\ config.mode \in {"Naive", "Realistic"}
  /\ {config.seed, config.initial_capital, config.marketable_cap_ticks} \subseteq Nat
  /\ IsFeeSchedule(config.fees) /\ IsSlippageModel(config.slippage)
  /\ IsLiquidityProfile(config.liquidity_profile)
  /\ DOMAIN config.limits = DOMAIN HardCap
  /\ config.overwrite \in BOOLEAN

MutAnyPath(path) == TRUE
\* The output directory names something, and nothing above itself.
PathValid(path) == path # <<>> /\ \A i \in DOMAIN path : path[i] # ".."

\* BacktestConfig::validate.
Valid(config) ==
  /\ config.initial_capital # 0
  /\ config.marketable_cap_ticks # 0
  /\ LimitsValid(config.limits)
  /\ ProfileValid(config.liquidity_profile)
  /\ config.slippage.kind = "SpreadFraction" => config.slippage.num >= 0
  /\ PathValid(config.output_dir)

\* run_backtest replays Parquet tapes only.
Supported(config) == config.data_source.kind = "parquet"

-----------------------------------------------------------------------------
\* SemanticConfig: where the bundle goes and whether it may replace another are
\* no part of what was run.
Semantic(config) ==
  [field \in DOMAIN config \ {"output_dir", "overwrite"} |-> config[field]]

\* RunId::derive, of an already canonical strategy.  The hash is the preimage.
Preimage(config, strategy, tape, build) ==
  <<config.seed, Semantic(config), strategy, tape, build>>
=============================================================================
