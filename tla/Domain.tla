------------------------------- MODULE Domain -------------------------------
(***************************************************************************)
(* Vocabulary and seam of one replay run: the values the engine, the       *)
(* strategy and the fill model exchange (src/domain/execution.rs), and the *)
(* variables of the seam itself - the RunState buffers both sides read     *)
(* (src/engine/backtest.rs) and the two correlation channels of the        *)
(* ExecutionModel trait (src/execution/mod.rs).                            *)
(*                                                                         *)
(* Prices are abstracted away: nothing here compares two of them.  Whether *)
(* an order crosses, and over how many price levels, is a choice of the    *)
(* fill model; what a fill costs is left to the ledger.                    *)
(***************************************************************************)
EXTENDS Integers, Sequences, FiniteSets, Functions

CONSTANTS
  NumContracts,  \* contract keys are 1..NumContracts, in ContractKey order
  MaxQty,        \* the largest Quantity (u32::MAX in the code)
  MaxOrders,     \* bound: orders one run may submit
  FinalStep      \* TapeMeta.final_step

ASSUME DomainAssumption ==
  /\ NumContracts \in Nat \ {0}
  /\ MaxQty \in Nat \ {0}
  /\ MaxOrders \in Nat \ {0}
  /\ FinalStep \in Nat

Contracts  == 1..NumContracts
Quantities == 1..MaxQty
OrderIds   == 1..MaxOrders
Sides      == {"Long", "Short"}
\* limit = None is "market" and IOC by construction (OrderIntent::validate).
Kinds      == {"market", "ioc", "gtc"}
Reasons    == {"policy", "manual", "end_of_data", "none"}

Opposite(side) == IF side = "Long" THEN "Short" ELSE "Long"

\* An OrderIntent.  "pos" is the PositionAction's target, 0 for an open.
Intents == [action : {"open", "close"}, pos : Nat, contract : Contracts,
            side : Sides, qty : Quantities, kind : Kinds]

\* An OrderCommand.  Only Cancel and Replace name a resting order.
Commands ==
  [type : {"submit"}, intent : Intents]
    \cup [type : {"cancel"}, order : OrderIds]
    \cup [type : {"replace"}, order : OrderIds, intent : Intents]

IsSubmission(cmd) == cmd.type # "cancel"   \* mints an id and may fill
IsLifecycle(cmd)  == cmd.type # "submit"   \* names a resting order

\* A Fill.  "owner" is a ghost: the order that really traded, which the code
\* does not put on the Fill and the correlation channels must recover.
Fills == [contract : Contracts, side : Sides, qty : Quantities,
          charge : {"first", "later"}, owner : OrderIds]

CarryGroups == [order : OrderIds, count : Nat \ {0}]
FillGroups  == [cmd : Nat, count : Nat \ {0}]

\* Update and removal of a key of a map (a BTreeMap, or an inventory Vec whose
\* legs are found by id).
Put(f, key, value) ==
  [x \in DOMAIN f \cup {key} |-> IF x = key THEN value ELSE f[x]]
Drop(f, key) == [x \in DOMAIN f \ {key} |-> f[x]]

\* f maps some of the keys S to values in T.
IsMap(f, S, T) == DOMAIN f \subseteq S /\ f \in [DOMAIN f -> T]

\* Sum of f[x] for the x in S; the contracts a run of fills trades in all.
SumOver(f, S) == SumFunctionOnSet(f, S)
TotalQty(run) == SumOver([i \in DOMAIN run |-> run[i].qty], DOMAIN run)

-----------------------------------------------------------------------------
VARIABLES
  pc,          \* the phase of run / step the run is in
  call,        \* 0 during on_start, n + 1 during step n
  quoted,      \* the contracts the current snapshot quotes
  cmds,        \* the step's submission queue
  exitsEnd,    \* length of cmds after the exits phase
  onEndStart,  \* length of cmds before on_end
  submitIds,   \* pre-minted ids, one per submission in command order
  outFills,    \* the fills of the last ExecutionModel::fill call
  carryGroups, \* ExecutionModel::carry_fills
  fillGroups,  \* ExecutionModel::fill_groups
  k,           \* cursor of the loop the current phase runs
  error        \* cause of the abort, "none" while the run is healthy

seamVars == <<pc, call, quoted, cmds, exitsEnd, onEndStart, submitIds,
              outFills, carryGroups, fillGroups, k, error>>

Phases == {"start", "exits", "snapshot", "end", "mint", "refresh", "reseed",
           "lifecycle", "submit", "validate", "carry", "walk", "settle",
           "advance", "done", "failed"}

Errors == {"none", "on_end_non_close", "unquoted", "self_cross",
           "refresh_desync", "live_desync", "under_cover", "not_pending",
           "coverage", "carry_unknown", "extend_gone", "carry_exceeds",
           "close_not_open", "close_oversize", "quantity_overflow",
           "unfilled", "uncorrelated", "log_desync", "untracked_leg",
           "expired_mark"}

SeamTypeOK ==
  /\ pc \in Phases
  /\ call \in 0..(FinalStep + 1)
  /\ quoted \subseteq Contracts
  /\ cmds \in Seq(Commands)
  /\ exitsEnd \in Nat
  /\ onEndStart \in Nat
  /\ submitIds \in Seq(OrderIds)
  /\ outFills \in Seq(Fills)
  /\ carryGroups \in Seq(CarryGroups)
  /\ fillGroups \in Seq(FillGroups)
  /\ k \in Nat \ {0}
  /\ error \in Errors

SeamInit ==
  /\ pc = "start"
  /\ call = 0
  /\ quoted \in SUBSET Contracts
  /\ cmds = <<>>
  /\ exitsEnd = 0
  /\ onEndStart = 0
  /\ submitIds = <<>>
  /\ outFills = <<>>
  /\ carryGroups = <<>>
  /\ fillGroups = <<>>
  /\ k = 1
  /\ error = "none"

isLast == call = FinalStep + 1

\* The id pre-minted for the submission at index i of the queue: the ordinal
\* both sides recount (RealisticFill::fill and apply_step_fills).
Ordinal(i) == Cardinality({j \in 1..i : IsSubmission(cmds[j])})

\* A `?` on a typed error: the run ends and its state is dropped.
AbortSeam(cause) ==
  /\ pc' = "failed"
  /\ error' = cause
  /\ UNCHANGED <<call, quoted, cmds, exitsEnd, onEndStart, submitIds,
                 outFills, carryGroups, fillGroups, k>>
=============================================================================
