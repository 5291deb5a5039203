------------------------------ MODULE Session ------------------------------
(***************************************************************************)
(* One backtest from its specification to the bundle a later reader opens  *)
(* (src/run.rs, src/engine/backtest.rs, src/engine/tradelog.rs,            *)
(* src/engine/bundle_collector.rs): the strategy a spec names, the naive   *)
(* replay over the ledger, the metrics and the attribution, the tables.    *)
(*                                                                         *)
(* The tape is chosen whole, so that it can be replayed: a second run of   *)
(* the same run id over it may follow, or the published bundle may be      *)
(* altered before it is read.                                              *)
(***************************************************************************)
EXTENDS Strategy, Metrics, BundleTables, Config
LOCAL INSTANCE TLC

CONSTANTS
  Usual,       \* the configuration of most runs
  Configs,     \* that and others, each of which one run is given
  Scripts,     \* the tapes: per day, [contracts quoted -> quote]
  Specs,       \* the StrategySpecs, and a caller's own Strategy
  Policies,    \* the ExitPolicies
  VaryPolicy   \* whether the second run may have another ExitPolicy

ASSUME ConfigAssumption ==
  /\ Usual \in Configs /\ Valid(Usual) /\ Supported(Usual)
  /\ \A config \in Configs : IsBacktestConfig(config)
ASSUME ScriptsAssumption ==
  \A s \in Scripts :
    /\ s \in Seq(UNION {[quoted -> UNION {Quotes[c] : c \in quoted}] :
                          quoted \in SUBSET Contracts})
    /\ Len(s) = Len(Days)
    /\ \A m \in DOMAIN s : \A c \in DOMAIN s[m] : s[m][c] \in Quotes[c]
ASSUME SpecsAssumption == \A s \in Specs : IsStrategySpec(s)
ASSUME PoliciesAssumption == \A p \in Policies : IsExitPolicy(p)

VARIABLES
  script, spec, policy, config,
  stage,       \* "new", "run", "start", "open", "decide", "apply", "analysed",
               \* "published", "again", "altered", "over"
  cmds, k,     \* the command queue of the step, the command to apply next
  exitsEnd, onEndStart,  \* CloseReasons: the phases of the queue
  closed,      \* TradeLogCollector.closed
  fills,       \* BundleCollector.fills
  terminals,   \* its rows of legs closed in full
  metrics,     \* BacktestResult
  bundle,      \* the bundle at its destination
  published,   \* ghost: the first run's bundle
  onDisk,      \* the tape file when the bundle is read, Null without it
  error        \* "none", or why the run was abandoned

queueVars == <<cmds, k, exitsEnd, onEndStart>>
recordVars == <<closed, fills, terminals>>
inputVars == <<script, spec, policy, config>>
outVars == <<metrics, bundle, published, onDisk>>
sessionVars == <<inputVars, stage, queueVars, recordVars, outVars, error>>
allVars == <<vars, sessionVars>>

NoBundle == [tables |-> <<>>]

SessionInit ==
  /\ Init /\ mode = "naive"
  /\ script \in Scripts /\ spec \in Specs /\ policy \in Policies
  /\ config \in Configs
  /\ spec.kind = "Caller" => policy = CHOOSE p \in Policies : TRUE
  /\ config # Usual =>
       /\ script = CHOOSE s \in Scripts : TRUE
       /\ spec = CHOOSE s \in Specs : s.kind # "Caller" /\ ~Refused(s)
       /\ policy = CHOOSE p \in Policies : TRUE
  /\ stage = "new" /\ error = "none"
  /\ cmds = <<>> /\ k = 1 /\ exitsEnd = 0 /\ onEndStart = 0
  /\ closed = <<>> /\ fills = <<>> /\ terminals = <<>>
  /\ metrics = None /\ bundle = NoBundle /\ published = NoBundle
  /\ onDisk = script

-----------------------------------------------------------------------------
Fail(why) == Abort /\ stage' = "over" /\ error' = why

\* run_backtest checks the configuration, then run_spec_with_feed builds the
\* strategy its kind names.
Construct ==
  /\ stage = "new"
  /\ IF ~Valid(config) \/ ~Supported(config) THEN Fail("config")
     ELSE IF Refused(spec) THEN Fail("spec")
     ELSE stage' = "run" /\ UNCHANGED <<vars, error>>
  /\ UNCHANGED <<inputVars, queueVars, recordVars, outVars>>

Pull ==
  /\ stage = "run"
  /\ NextSnapshot(script[n + 1])
  /\ stage' = IF n = 0 THEN "start" ELSE "decide"
  /\ UNCHANGED <<inputVars, queueVars, recordVars, outVars, error>>

\* on_start, against the first snapshot and ahead of its step.
OnStart ==
  /\ stage = "start"
  /\ \/ EntryFails(spec) /\ Fail("entry") /\ UNCHANGED queueVars
     \/ /\ ~EntryFails(spec)
        /\ cmds' = Entries(spec) /\ k' = 1
        /\ exitsEnd' = 0 /\ onEndStart' = Len(cmds')
        /\ stage' = "open"
        /\ UNCHANGED <<vars, error>>
  /\ UNCHANGED <<inputVars, recordVars, outVars>>

\* A caller's own Strategy, which here holds what it opened.
ExitsOf == IF spec.kind = "Caller" THEN <<>> ELSE Exits(policy)
TerminalOf(queued) == IF spec.kind = "Caller" THEN <<>> ELSE CloseAll(queued)

\* The three phases of a step fill one queue; on_snapshot adds nothing once the
\* strategy has entered.  The naive model fills the queue as one call, which
\* fails when one contract is not quoted.
Decide ==
  /\ stage = "decide" \/ (stage = "open" /\ k > Len(cmds))
  /\ LET exits == ExitsOf
         all   == IF n = Len(Days) THEN exits \o TerminalOf(exits) ELSE exits
     IN  /\ cmds' = all /\ k' = 1
         /\ exitsEnd' = Len(exits) /\ onEndStart' = Len(exits)
         /\ \/ /\ \E i \in DOMAIN all : all[i].contract \notin DOMAIN Snapshot
               /\ Fail("quote")
            \/ /\ \A i \in DOMAIN all : all[i].contract \in DOMAIN Snapshot
               /\ beginStep' = inventory
               /\ stage' = "apply"
               /\ UNCHANGED <<mode, pc, tape, bookVars, settleVars, passVars, error>>
  /\ UNCHANGED <<inputVars, recordVars, outVars>>

-----------------------------------------------------------------------------
\* apply_step_fills, one command of the queue at a time.  Every order fills in
\* one fill, so order and position ids follow the count of fills; all opens are
\* on_start's and share its trade.
Key(c) ==
  [underlying |-> Ticker, expiration |-> Expiry[c], strike |-> Strike[c],
   style |-> Style[c]]
Record(cmd, fill, position) ==
  [step |-> n - 1, ts |-> Days[n], trade |-> 1, position |-> position, order |-> trades, seq |-> 0,
   contract |-> Key(cmd.contract), side |-> fill.side, qty |-> fill.qty,
   price |-> fill.price, fees |-> fill.fees, slippage |-> ScaledSlippage(fill)]

\* CloseReasons::reason_for.
ReasonFor(index) ==
  IF index <= exitsEnd THEN PolicyReason(policy)
  ELSE IF index > onEndStart THEN "end_of_data" ELSE "manual"

Command == cmds[k]
IndexOf(id) == {i \in DOMAIN inventory : inventory[i].id = id}

\* On to the next command, unless the ledger refused the fill.
Proceed ==
  IF pc' = "failed" THEN stage' = "over" /\ error' = "arithmetic" /\ UNCHANGED k
  ELSE k' = k + 1 /\ UNCHANGED <<stage, error>>

ApplyOpen ==
  /\ stage = "open" /\ k <= Len(cmds)
  /\ OpenLeg(Command.contract, Command.side, Command.qty)
  /\ Proceed
  /\ fills' = IF pc' = "failed" THEN fills
              ELSE Append(fills, Record(Command,
                     FillsOf(Command.contract, Command.side, Command.qty)[1], trades))
  /\ UNCHANGED <<inputVars, cmds, exitsEnd, onEndStart, closed, terminals, outVars>>

\* record_close: the realised trade.
ClosedTrade(leg, fill) ==
  [id |-> leg.id, contract |-> leg.contract, style |-> Style[leg.contract],
   side |-> leg.side, qty |-> fill.qty, mult |-> Multiplier, entry |-> leg.entry,
   exit |-> fill.price, opened |-> Days[1], closed |-> Days[n], step |-> n,
   pnl |-> RealizedPnl(leg.side, leg.entry, fill.price, fill.qty, Multiplier, fill.fees),
   reason |-> ReasonFor(k)]

\* record_close_terminal: the leg's last row, at the closing step's mid.
TerminalRow(leg, qty) ==
  LET mid == Snapshot[leg.contract].mid IN
  [step |-> n - 1, ts |-> Days[n], position |-> leg.id, trade |-> 1,
   contract |-> Key(leg.contract),
   side |-> leg.side, qty |-> qty, entry |-> leg.entry, mark |-> mid,
   unrealized |-> UnrealizedCents(mid, leg.entry, qty, Multiplier, leg.side),
   stale |-> FALSE, reason |-> ReasonFor(k), openAtEnd |-> FALSE]

ApplyClose ==
  /\ stage = "apply" /\ k <= Len(cmds)
  /\ IF IndexOf(Command.id) = {}
     THEN Fail("not open") /\ UNCHANGED <<k, recordVars>>
     ELSE LET i == CHOOSE i \in IndexOf(Command.id) : TRUE
              leg == inventory[i]
              fill == FillsOf(leg.contract, Command.side, Command.qty)[1]
          IN  /\ CloseLeg(i, Command.qty)
              /\ Proceed
              /\ IF pc' = "failed" THEN UNCHANGED recordVars
                 ELSE /\ closed' = Append(closed, ClosedTrade(leg, fill))
                      /\ fills' = Append(fills, Record(Command, fill, leg.id))
                      /\ terminals' = IF Command.qty = leg.qty
                                      THEN Append(terminals, TerminalRow(leg, Command.qty))
                                      ELSE terminals
  /\ UNCHANGED <<inputVars, cmds, exitsEnd, onEndStart, outVars>>

EndStep ==
  /\ stage = "apply" /\ k > Len(cmds)
  /\ \/ Settle /\ stage' = "run" /\ UNCHANGED error
     \/ SettleFails /\ Fail("settle")
  /\ UNCHANGED <<inputVars, queueVars, recordVars, outVars>>

-----------------------------------------------------------------------------
\* After the loop, populate and then the attribution pass.
Analyse ==
  /\ stage = "run" /\ pc = "attribute"
  /\ metrics' = Populate(curve, Days, Capital, closed, inventory)
  /\ stage' = "analysed"
  /\ UNCHANGED <<vars, inputVars, queueVars, recordVars, bundle, published, onDisk, error>>

AttributeRun ==
  /\ stage = "analysed"
  /\ Attribute \/ Finish
  /\ UNCHANGED sessionVars

\* collect_step: the ledger's rows with the leg's entry and trade.
OpenRow(m, row) ==
  LET opened == CHOOSE i \in DOMAIN fills : fills[i].position = row.id
                  /\ \A j \in 1..(i - 1) : fills[j].position # row.id
  IN  [step |-> m - 1, ts |-> Days[m], position |-> row.id,
       trade |-> fills[opened].trade, contract |-> Key(row.contract), side |-> row.side, qty |-> row.qty,
       entry |-> fills[opened].price, mark |-> row.mark, unrealized |-> row.unrealized,
       stale |-> row.stale, reason |-> Null, openAtEnd |-> m = Len(Days)]
OpenRows == [m \in DOMAIN positions |-> MapSeq(LAMBDA row : OpenRow(m, row), positions[m])]

\* One build; a tape's identity is its contents.
Build == <<"0.1.0", "lockfile">>
RunId == Preimage(config, Canonical(spec), script, Build)
\* A row per step.
PerStep(seq) == [m \in DOMAIN seq |-> seq[m] @@ [step |-> m - 1, ts |-> Days[m]]]
TablesOf ==
  [fills |-> EncodeFills(fills, RunId),
   equity_curve |-> EncodeEquity(PerStep(curve)),
   positions |-> EncodePositions(FoldFunction(LAMBDA x, y : x \o y, terminals, OpenRows)),
   greeks_attribution |-> EncodeGreeks(PerStep(rows))]
\* The run's own part of the manifest; the tape is pinned to what was read.
About ==
  [run_id |-> RunId, config |-> config, strategy |-> Canonical(spec),
   data_source |-> [config.data_source EXCEPT !.sha256 = script],
   metrics |-> metrics, build |-> Build]

\* The first run's bundle is in the way of the second.
Collides ==
  /\ published # NoBundle
  /\ config.output_dir = published.manifest.config.output_dir
  /\ ~config.overwrite

\* write_bundle, of a run that a StrategySpec describes.
Publish ==
  /\ stage = "analysed" /\ pc = "done" /\ spec.kind # "Caller"
  /\ IF Collides
     THEN stage' = "over" /\ error' = "collision" /\ UNCHANGED <<bundle, published>>
     ELSE /\ bundle' = Bundle(TablesOf, About)
          /\ published' = IF published = NoBundle THEN bundle' ELSE published
          /\ stage' = IF published = NoBundle THEN "published" ELSE "again"
          /\ UNCHANGED error
  /\ UNCHANGED <<vars, inputVars, queueVars, recordVars, metrics, onDisk>>

\* Another run of the same run id, from the start.
Again ==
  /\ stage = "published"
  /\ spec' \in {s \in Specs : s.kind # "Caller" /\ Canonical(s) = Canonical(spec)}
  /\ policy' \in IF VaryPolicy THEN Policies ELSE {policy}
  /\ config' \in {c \in Configs : Semantic(c) = Semantic(config)}
  /\ <<spec', policy', config'>> # <<spec, policy, config>>
  /\ stage' = "new"
  /\ pc' = "step" /\ tape' = <<>> /\ trades' = 0 /\ books' = NoMap /\ swept' = 0
  /\ inventory' = <<>> /\ beginStep' = <<>>
  /\ cash' = Capital /\ peak' = Capital /\ prevEquity' = Capital
  /\ working' = <<>> /\ carried' = <<>>
  /\ stepSlippage' = 0 /\ stepFees' = 0 /\ openFees' = 0
  /\ marks' = NoMap /\ greeks' = NoMap
  /\ log' = <<>> /\ positions' = <<>> /\ curve' = <<>>
  /\ steps' = <<>> /\ legs' = <<>> /\ offset' = 0 /\ rows' = <<>>
  /\ closed' = <<>> /\ fills' = <<>> /\ terminals' = <<>>
  /\ metrics' = None /\ bundle' = NoBundle
  /\ UNCHANGED <<mode, script, queueVars, published, onDisk, error>>

\* The published bundle, or the tape file it names, is altered on disk.
Alter ==
  /\ stage = "published"
  /\ \/ \E t \in Tables :
          \E altered \in Damaged(bundle.tables[t], Len(curve))
                   \cup Spoiled(t, bundle.tables[t])
                   \cup Spliced(t, bundle.tables[t], {Key(c) : c \in Contracts}) :
            bundle' = [bundle EXCEPT !.tables[t] = altered] /\ UNCHANGED onDisk
     \/ \E t \in Tables : \E footer \in Refooted(bundle.footers[t]) :
          bundle' = [bundle EXCEPT !.footers[t] = footer] /\ UNCHANGED onDisk
     \/ \E manifest \in Rewritten(bundle.manifest) :
          bundle' = [bundle EXCEPT !.manifest = manifest] /\ UNCHANGED onDisk
     \/ \E file \in Tables \cup {"manifest"} :
          bundle' = [bundle EXCEPT !.cut = {file}] /\ UNCHANGED onDisk
     \/ onDisk' \in {Null, Tail(script)} /\ UNCHANGED bundle
  /\ stage' = "altered"
  /\ UNCHANGED <<vars, inputVars, queueVars, recordVars, metrics, published, error>>

SessionNext ==
  \/ Construct \/ Pull \/ OnStart \/ Decide \/ ApplyOpen \/ ApplyClose \/ EndStep
  \/ Analyse \/ AttributeRun \/ Publish \/ Again \/ Alter

SessionSpec == SessionInit /\ [][SessionNext]_allVars
-----------------------------------------------------------------------------
\* The legs a spec describes, each <<side, qty, strike, style>>.
Described ==
  CASE spec.kind = "IronCondor" ->
         <<<<"Short", spec.quantity, spec.short_call_strike, "Call">>,
           <<"Short", spec.quantity, spec.short_put_strike, "Put">>,
           <<"Long", spec.quantity, spec.long_call_strike, "Call">>,
           <<"Long", spec.quantity, spec.long_put_strike, "Put">>>>
    [] spec.kind = "ShortStrangle" ->
         <<<<"Short", spec.quantity, spec.call_strike, "Call">>,
           <<"Short", spec.quantity, spec.put_strike, "Put">>>>
    [] OTHER -> MapSeq(LAMBDA leg : <<leg.side, leg.qty, leg.strike, leg.style>>, spec.legs)
\* And the day each leg of an explicit set expires.
DueDay(leg) == IF leg.exp[1] = 0 THEN Days[1] + leg.exp[2] ELSE leg.exp[2]

\* A run that entered holds the legs of its spec and no others, whatever order
\* they were written in (the constructors of the named kinds are positional);
\* each leg of an explicit set is in the contract of its own expiration, counted
\* from the first day of the tape, and never in one that merely shares its
\* strike and style (select_leg_set_quote).
EntryIsSpec ==
  (/\ stage \notin {"new", "start", "open", "altered"}
   /\ error # "arithmetic" /\ fills # <<>>) =>
    LET opened == Filter(fills, LAMBDA f : f.order = f.position)
        Got(f) == <<f.side, f.qty, f.contract.strike, f.contract.style>>
        Times(seq, x) == Cardinality({i \in DOMAIN seq : seq[i] = x})
        Same(a, b) == Len(a) = Len(b) /\ \A i \in DOMAIN a : Times(a, a[i]) = Times(b, a[i])
    IN  /\ Same(MapSeq(Got, opened), Described)
        /\ spec.kind = "Legs" =>
             Same(MapSeq(LAMBDA f : <<Got(f), f.contract.expiration>>, opened),
                  [i \in DOMAIN spec.legs |-> <<Described[i], DueDay(spec.legs[i])>>])

\* The terminal flatten closes every leg exactly once: no built-in strategy
\* finishes with a leg open, and none is abandoned because a close names a leg
\* that an exit of the same step has already closed (close_all, finding F11 of
\* its comment).
OnEndFlattens ==
  /\ error # "not open"
  /\ (pc \in {"attribute", "done"} /\ spec.kind # "Caller") =>
       /\ inventory = <<>>
       /\ \A i, j \in DOMAIN terminals :
            terminals[i].position = terminals[j].position => i = j

\* The policy, on the tape alone: a leg without a quote is judged by the last
\* mid the tape had for it.
TriggeredOnTape(leg) == TriggeredFor(policy, leg, LastSeen(leg.contract, n).mid)

\* A step closes exactly the legs whose policy triggers on the tape, and a
\* trade says end_of_data just when it did not (evaluate_exits reads a mark
\* that settle wrote a step before; CloseReasons tells the phases apart by
\* their place in the queue).
ExitsJustified ==
  (spec.kind # "Caller" /\ n > 0) =>
    /\ (k = 1 /\ (stage = "apply" \/ error = "quote")) =>
         {cmds[i].id : i \in 1..exitsEnd}
           = {inventory[i].id : i \in {j \in DOMAIN inventory : TriggeredOnTape(inventory[j])}}
    /\ stage = "apply" =>
         \A i \in DOMAIN closed : closed[i].step = n =>
           (closed[i].reason = "end_of_data" <=> ~TriggeredOnTape(closed[i]))

\* One run id names one bundle: two runs that hash to the same id publish the
\* same rows in the same tables, under manifests that differ only in where they
\* were told to write.
OneIdOneBundle ==
  stage = "again" =>
    /\ bundle.tables = published.tables
    /\ [bundle.manifest EXCEPT !.config = Semantic(@)]
         = [published.manifest EXCEPT !.config = Semantic(@)]

\* The summary agrees with books it never reads together: the return with
\* what the trades realised and the open legs would, the sides and the signs of
\* the trades with their total, and the net premium with the cash the opening
\* fills moved (the trade log alone carries the multiplier).
BooksSummed ==
    LET unrealised == Sum(MapSeq(LAMBDA row : row.unrealized, positions[Len(positions)]))
        realised == metrics.realised.total
        premium == Sum(MapSeq(LAMBDA f : -Notional(f.price, f.qty, Multiplier, f.side),
                              SelectSeq(fills, LAMBDA f : f.order = f.position)))
    IN  /\ metrics.totalReturn = <<realised + unrealised - openFees, Capital>>
        /\ metrics.realised.long + metrics.realised.short = realised
        /\ metrics.realised.grossProfit + metrics.realised.grossLoss = realised
        /\ realised = Sum(log)
        /\ closed # <<>> => metrics.netPremium = premium

\* The worst drawdown of the equity alone, its peak seeded by the capital.
PeakAt(i) ==
  LET seen == {curve[j].equity : j \in 1..i} \cup {Capital}
  IN  CHOOSE x \in seen : \A y \in seen : y <= x

\* The drawdown event brackets the trough: it starts at the last peak before
\* it, ends at the first after it, every step between is under water, and no
\* step of the run lies deeper (find_peak, find_recovery).
DrawdownBrackets ==
    LET dd == metrics.drawdown
        Under(i) == curve[i].equity < PeakAt(i)
        Depth(i) == <<PeakAt(i) - curve[i].equity, PeakAt(i)>>
    IN  /\ \A i \in DOMAIN curve : ~RatioLess(dd.max, Depth(i))
        /\ dd.events = <<>> <=> \A i \in DOMAIN curve : ~Under(i)
        /\ dd.events # <<>> =>
             LET event == dd.events[1]
                 last == IF event.recovery = 0 THEN Len(curve) + 1 ELSE event.recovery
             IN  /\ event.start <= event.bottom /\ event.bottom < last
                 /\ Depth(event.bottom) = dd.max
                 /\ \A i \in (event.start + 1)..(last - 1) : Under(i)
                 /\ event.recovery # 0 => ~Under(event.recovery)
                 /\ event.duration >= 0 /\ event.recoveryDuration >= 0

\* The risk figures agree with the curve: a loss run, a downside deviation and a
\* Sortino ratio come together or not at all; without a losing step the trough is
\* the first step; a run that varied and did not lose has a mean return above
\* zero; the average drawdown is within the worst.
RiskAgrees ==
  LET r == metrics.returns
      dd == metrics.drawdown
      loses == \E i \in 2..Len(curve) : curve[i].equity < curve[i - 1].equity
  IN  (\A i \in DOMAIN curve : curve[i].equity > 0) =>
        /\ loses <=> metrics.risk.lossRun > 0
        /\ loses <=> r.sortino # None
        /\ ~loses /\ dd.events # <<>> => dd.events[1].bottom = 1
        /\ r.sharpe # None /\ curve[Len(curve)].equity >= curve[1].equity => r.sharpe = <<1>>
        /\ ~RatioLess(dd.max, metrics.risk.pain)
        /\ metrics.risk.pain[1] = 0 <=> dd.events = <<>>

\* The summary of a run is true of the run (compute_metrics sees the equity
\* curve, the trade log and the position rows, each kept by its own collector).
SummaryReconciles == stage = "analysed" => BooksSummed /\ DrawdownBrackets /\ RiskAgrees

\* A reader returns the rows that were written, in the writer's order, or
\* refuses; it never refuses a bundle nobody touched (read_bundle).
ReadsBack ==
  /\ stage = "published" => Accepts(bundle, onDisk) /\ ReadBundle(bundle) = bundle.tables
  /\ (stage = "altered" /\ Accepts(bundle, onDisk)) =>
       ReadBundle(bundle) = published.tables /\ onDisk \in {script, Null}
=============================================================================
