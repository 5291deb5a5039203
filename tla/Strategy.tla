------------------------------ MODULE Strategy ------------------------------
(***************************************************************************)
(* The strategies a run can be given (src/engine/strategy.rs), built from  *)
(* a StrategySpec (src/domain/strategy_spec.rs): the explicit leg set and  *)
(* the adapter of the named kinds.  Both enter once, at the first          *)
(* snapshot, and share the exit rule and the terminal flatten.             *)
(*                                                                         *)
(* An expiration is <<0, n>> for Days(n) and <<1, day>> for a DateTime;    *)
(* an implied volatility is <<value, scale>>, since a Decimal compares by  *)
(* value and is hashed as it is written.  Deltas are never read.  A        *)
(* caller's own Strategy is given by the legs it opens.                    *)
(***************************************************************************)
EXTENDS Ledger

CONSTANTS
  Ticker,  \* ChainSnapshot.underlying
  Strike,  \* [Contracts -> the strike of the key]
  Style    \* [Contracts -> "Call", "Put"]

-----------------------------------------------------------------------------
\* canonical_cmp, and the resolved order of the two forms of an expiration.
LegKey(leg) ==
  <<leg.exp[1], leg.exp[2], leg.strike, IF leg.style = "Call" THEN 0 ELSE 1,
    IF leg.side = "Long" THEN 0 ELSE 1, leg.qty, leg.iv[1], leg.iv[2]>>

\* The parameters a spec carries, all of which are recorded and hashed.
IronCondorSpec ==
  {"kind", "underlying", "underlying_price", "short_call_strike", "short_put_strike",
   "long_call_strike", "long_put_strike", "expiration", "implied_volatility",
   "risk_free_rate", "dividend_yield", "quantity", "premium_short_call",
   "premium_short_put", "premium_long_call", "premium_long_put", "open_fee",
   "close_fee"}
ShortStrangleSpec ==
  {"kind", "underlying", "underlying_price", "call_strike", "put_strike", "expiration",
   "call_implied_volatility", "put_implied_volatility", "risk_free_rate",
   "dividend_yield", "quantity", "premium_short_call", "premium_short_put",
   "open_fee_short_call", "close_fee_short_call", "open_fee_short_put",
   "close_fee_short_put"}
LegSetSpec ==
  {"kind", "underlying", "underlying_price", "legs", "risk_free_rate", "dividend_yield"}
\* StrategySpec::canonical: what the run id hashes and the manifest records.
Canonical(spec) ==
  IF spec.kind = "Legs" THEN [spec EXCEPT !.legs = SortBy(LegKey, @)] ELSE spec

\* Upstream's constructors, whose arguments are positional.
IronCondorNew(shortCall, shortPut, longCall, longPut, exp, iv, qty) ==
  LET Leg(side, style, strike) ==
        [exp |-> exp, strike |-> strike, style |-> style, side |-> side, qty |-> qty,
         iv |-> iv]
  IN  <<Leg("Short", "Call", shortCall), Leg("Short", "Put", shortPut),
        Leg("Long", "Call", longCall), Leg("Long", "Put", longPut)>>
ShortStrangleNew(call, put, exp, callIv, putIv, qty) ==
  LET Leg(style, strike, iv) ==
        [exp |-> exp, strike |-> strike, style |-> style, side |-> "Short", qty |-> qty,
         iv |-> iv]
  IN  <<Leg("Call", call, callIv), Leg("Put", put, putIv)>>

BuildIronCondor(spec) ==
  IronCondorNew(spec.short_call_strike, spec.short_put_strike, spec.long_call_strike,
                spec.long_put_strike, spec.expiration, spec.implied_volatility,
                spec.quantity)
BuildShortStrangle(spec) ==
  ShortStrangleNew(spec.call_strike, spec.put_strike, spec.expiration,
                   spec.call_implied_volatility, spec.put_implied_volatility,
                   spec.quantity)

WrittenLegs(spec) ==
  CASE spec.kind = "IronCondor"    -> BuildIronCondor(spec)
    [] spec.kind = "ShortStrangle" -> BuildShortStrangle(spec)
    [] OTHER -> spec.legs
MutCallersOrder(spec) == WrittenLegs(spec)
\* The legs in the order LegSetStrategy::new stores them, or upstream's.
EngineLegs(spec) ==
  IF spec.kind = "Legs" THEN SortBy(LegKey, spec.legs) ELSE WrittenLegs(spec)

LegSpecs ==
  [exp : ({0} \X Nat) \cup ({1} \X Int), strike : Nat, style : {"Call", "Put"},
   side : {"Long", "Short"}, qty : Nat \ {0}, iv : Int \X Nat]
IsStrategySpec(spec) ==
  /\ DOMAIN spec = CASE spec.kind = "IronCondor"    -> IronCondorSpec
                     [] spec.kind = "ShortStrangle" -> ShortStrangleSpec
                     [] spec.kind = "Legs"          -> LegSetSpec
                     [] spec.kind = "Caller"        -> {"kind", "legs"}
  /\ WrittenLegs(spec) \in Seq(LegSpecs)

\* from_spec: a rate that may not be negative is, or there is no leg.  positive_rate
\* is asked of the volatilities and the yield, and of the rate never.
NegativeRate(spec) ==
  \E rate \in {spec.dividend_yield} \cup
       CASE spec.kind = "IronCondor" -> {spec.implied_volatility}
         [] spec.kind = "ShortStrangle" ->
              {spec.call_implied_volatility, spec.put_implied_volatility}
         [] spec.kind = "Legs" -> {spec.legs[i].iv : i \in DOMAIN spec.legs} :
    rate[1] < 0
Refused(spec) ==
  spec.kind # "Caller" /\ (NegativeRate(spec) \/ (spec.kind = "Legs" /\ spec.legs = <<>>))

\* resolve_expiration, against the snapshot the run enters on.
ResolveExpiration(exp) == IF exp[1] = 0 THEN Days[n] + exp[2] ELSE exp[2]

Candidates(leg) ==
  {c \in DOMAIN Snapshot : Strike[c] = leg.strike /\ Style[c] = leg.style}

\* A leg set takes the contract of its own expiration or none.
SelectLegSetQuote(leg) ==
  {c \in Candidates(leg) : Expiry[c] = ResolveExpiration(leg.exp)}
\* A named kind takes the only contract of the strike and style, whatever its
\* expiration, and among several the one of its own.
SelectLegQuote(leg) ==
  IF Cardinality(Candidates(leg)) = 1 THEN Candidates(leg)
  ELSE {c \in Candidates(leg) : leg.exp = <<1, Expiry[c]>>}

MutSingleCandidate(spec, leg) == SelectLegQuote(leg)
Select(spec, leg) ==
  IF spec.kind = "Legs" THEN SelectLegSetQuote(leg) ELSE SelectLegQuote(leg)

\* A named kind does not ask for its own underlying.
EntryFails(spec) ==
  \/ spec.kind = "Legs" /\ spec.underlying # Ticker
  \/ \E i \in DOMAIN EngineLegs(spec) : Select(spec, EngineLegs(spec)[i]) = {}

\* open_entries: one market order per leg.
Entries(spec) ==
  MapSeq(LAMBDA leg : [action |-> "open", side |-> leg.side, qty |-> leg.qty,
                       contract |-> CHOOSE c \in Select(spec, leg) : TRUE],
         EngineLegs(spec))

-----------------------------------------------------------------------------
DaysLeft(c) == LET left == Expiry[c] - Days[n] IN IF left < 0 THEN 0 ELSE left

MutSnapsToEntry(leg) ==
  IF leg.contract \in DOMAIN Snapshot THEN Snapshot[leg.contract].mid ELSE leg.entry
\* The mid, or the ledger's mark of the step before, or the entry.
CurrentPremium(leg) ==
  IF leg.contract \in DOMAIN Snapshot THEN Snapshot[leg.contract].mid
  ELSE IF leg.contract \in DOMAIN marks THEN marks[leg.contract]
  ELSE leg.entry

\* The leaves upstream decides, a percentage being of the entry premium.
CheckExitPolicy(leaf, initial, current, step, left, side) ==
  LET gain == (current - initial) * SideSign(side) IN
  CASE leaf.kind = "ProfitPercent" -> gain * leaf.den >= leaf.num * initial
    [] leaf.kind = "LossPercent"   -> -gain * leaf.den >= leaf.num * initial
    [] leaf.kind = "TimeSteps"     -> step >= leaf.count
    [] leaf.kind = "DaysToExpiration" -> left <= leaf.count

\* An ExitPolicy is the sequence of its nodes, the root first: a composite
\* names its children by their places, all after its own.
Composite(node) == node.kind \in {"And", "Or"}
IsExitPolicy(policy) ==
  /\ policy # <<>>
  /\ \A i \in DOMAIN policy :
       Composite(policy[i]) => policy[i].of \subseteq (i + 1)..Len(policy)

Triggered(policy, initial, current, step, left, side) ==
  LET Holds[i \in DOMAIN policy] ==
        CASE policy[i].kind = "And" -> \A j \in policy[i].of : Holds[j]
          [] policy[i].kind = "Or"  -> \E j \in policy[i].of : Holds[j]
          [] policy[i].kind = "Expiration"     -> left = 0
          [] policy[i].kind = "DeltaThreshold" -> FALSE
          [] OTHER -> CheckExitPolicy(policy[i], initial, current, step, left, side)
  IN  Holds[1]
\* For a leg at a premium; the first step is 0.
TriggeredFor(policy, leg, premium) ==
  Triggered(policy, leg.entry, premium, n - 1, DaysLeft(leg.contract), leg.side)

CloseCommand(leg, qty) ==
  [action |-> "close", id |-> leg.id, contract |-> leg.contract,
   side |-> Opposite(leg.side), qty |-> qty]

\* evaluate_exits: a full close of every leg the policy triggers for.
Exits(policy) ==
  MapSeq(LAMBDA leg : CloseCommand(leg, leg.qty),
         Filter(inventory, LAMBDA leg : TriggeredFor(policy, leg, CurrentPremium(leg))))

\* Closes of the leg already queued this step.
MutUncounted(cmds, id) == 0
ScheduledCloseQty(cmds, id) ==
  Sum(MapSeq(LAMBDA cmd : IF cmd.action = "close" /\ cmd.id = id THEN cmd.qty ELSE 0,
             cmds))

\* close_all: what the queue leaves open.  No built-in leaves an order resting.
CloseAll(cmds) ==
  MapSeq(LAMBDA leg : CloseCommand(leg, leg.qty - ScheduledCloseQty(cmds, leg.id)),
         Filter(inventory, LAMBDA leg : ScheduledCloseQty(cmds, leg.id) < leg.qty))

\* exit_policy_to_reason: a composite does not say which leaf triggered.
PolicyReason(policy) ==
  LET root == policy[1].kind IN
  CASE root = "ProfitPercent" -> "target_reached"
    [] root = "LossPercent"   -> "stop_loss"
    [] root \in {"Expiration", "DaysToExpiration"} -> "expiration"
    [] root = "TimeSteps"     -> "time_steps"
    [] OTHER -> "composite"
=============================================================================
