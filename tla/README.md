# IronCondor: specification and proofs

TLA+ modules for the IronCondor options backtester (`src/`, Rust), the TLC
configurations that check them on small instances, and theorems about them
checked by TLAPS. Line references are to files of `src/src/`.

## 1. The system

A run replays a *tape* of option-chain snapshots against a *strategy*, fills the
orders the strategy submits through an *execution model*, and writes a *bundle*
of four tables and a manifest. One run is one thread; a *batch* runs many on a
pool. The tape comes from files or from a simulator over HTTP. The hard part is
less concurrency inside a run than bookkeeping across steps: since
good-till-cancelled orders exist, an order may rest, fill over several price
levels and several snapshots, be cancelled or replaced in the very step in which
the market consumes it, and close a leg that something else already closed. Six
structures, in three files, each keep a copy of part of that story, and the
run's correctness is that the copies agree. The money has the same shape: cash,
trade log, position rows, equity curve and attribution rows are kept by
different code and must tell one story.

| component | source | state it keeps | operations |
|---|---|---|---|
| replay engine | `engine/backtest.rs` | ids, inventory, registry of pending orders, command queue | `run`, `on_start`, `step`, `apply_step_fills`, `apply_carry_group` |
| realistic fill model | `execution/realistic.rs` | order books, resting-order mirror, id bridge, live-order index, seed ids | `fill` = refresh, reseed, cancels, submits |
| naive fill model, seam | `execution/{mod,naive}.rs` | none | one fill per `Submit`; fee and slippage arithmetic |
| liquidity ladder | `execution/liquidity.rs` | none | `plan_seed_into` |
| strategies | `engine/strategy.rs`, `domain/strategy_spec.rs` | `entered` flag | `on_start`, `exits`, `on_snapshot`, `on_end`, `close_all`, `request_cancel`, `request_replace` |
| trade log | `engine/tradelog.rs` | open legs, closed trades | `record_open`, `record_open_extend`, `record_close` |
| bundle collector | `engine/bundle_collector.rs` | live legs, fill and position rows | `register_open_leg`, `record_*`, `collect_step` |
| ledger | `engine/ledger.rs`, `domain/money.rs` | cash, marks, greeks, equity peak | `apply_fill`, `settle` |
| clock, substrate | `engine/{clock,substrate}.rs` | last timestamp; attribution buffers | `advance_to`, `collect` |
| scenario, run | `engine/scenario.rs`, `run.rs` | none | expansion of a batch, dispatch of a run |
| batch | `batch.rs` | parse cache, worker results, index | `run_scenario_batch`, `fan_out`, `write_batch_index` |
| bundle writer, reader | `bundle/*.rs` | directories on disk | `write_bundle`, `RunId::derive`, the validating reader |
| simulator source | `data/simulator.rs` | a remote session | create, drain, delete, with retries |
| historical source | `data/{historical,convert,feed}.rs` | a parsed tape, a cursor | `open`, `open_verified`, `next` |
| analytics | `analytics/*.rs` | none | attribution pass, metrics |
| configuration | `config.rs` | none | validation |
| python bindings | `python/` | none | conversion of results |

**Interaction.** Per step the engine asks the strategy for commands (`exits`,
`on_snapshot` and, on the last step, `on_end`, into one queue), mints one order
id per `Submit` or `Replace`, calls `ExecutionModel::fill` once and applies its
result. A fill does not carry the order it belongs to: the fill model reports
counts through two side channels, `carry_fills` (fills of orders that were
already resting, in order) and `fill_groups` (fills of this step's commands by
queue index), and the engine recovers the owners by walking both. The engine
then moves cash, the inventory, the trade log and the bundle rows leg by leg,
marks what is open and hands a sample of every leg to the attribution, which
runs after the last step. The bundle's name is a hash of the run's inputs, and
renames put it in place; a batch derives its runs' names from a plan and lets its
workers write them concurrently.

**What is hard.** Two copies of the working orders (the engine's registry, the
fill model's mirror) updated at different times by different code; three copies
of the open legs; identity of fills by position in a list; once-per-order
effects (the fee, the leg, the trade id, `fill_seq`) of orders whose fills are
steps apart; eviction of order books while orders rest in them; closes from
four sources (exit policy, strategy, resting orders, `close_all`) competing for
the same leg; close reasons told apart by index ranges of a queue; contracts
that leave the chain while they are held. Outside a run: renames and crashes of
the bundle writer, retries of the simulator client, files that change while they
are hashed and parsed, the batch's workers. `PROJECT.json` lists these at their
lines, with the properties that would catch each going wrong.

## 2. The modules

| module | models | EXTENDS |
|---|---|---|
| `Domain` | intents, commands, fills, the two channels, the step's buffers and phase | |
| `RealisticFill` | one call of `RealisticFill::fill`, step by step | `Domain` |
| `ReplayEngine` | strategy callbacks, id minting, `apply_step_fills`, settlement, the loop | `Domain` |
| `Replay` | the two composed through the seam; the properties of order life cycles | both |
| `ReplayClaims` | what a comment says and the code does not do | `Replay` |
| `Money` | rounding, signs, fees, slippage, realised P&L, in integer cents | |
| `Depth` | the seeded ladder, the walk of a marketable order, the aggregate of its fills | `Money` |
| `Ledger`, `LedgerMC` | cash, legs, marks, equity, substrate and attribution of a whole run, naive or realistic | `Depth` |
| `Strategy` | the shipped strategies: construction, leg matching, entry, exit policies, `close_all` | `Ledger` |
| `Metrics` | the summary figures of a finished run | `Money` |
| `BundleTables` | rows, sort keys, manifest, and what the reader accepts | `Money` |
| `Config` | validation of a configuration, and what of it is identity | |
| `Session`, `SessionMC` | one backtest from its specification to the bundle a reader opens, and its repetition | the four above |
| `Convert` | raw quotes to snapshots and back | `Money` |
| `TapeFile` | columns, cells and rows of a historical tape | `Convert` |
| `Tape`, `TapeMC` | opening, hashing, verifying and replaying a tape while its files change | `TapeFile` |
| `SimulatorSession` | the HTTP client and its server, with lost, late and retried requests | |
| `Scenario` | overrides, seeds and walk presets of a batch | |
| `Batch`, `BatchMC` | validation, plan, parse cache, workers, panics, the index | `Scenario` |
| `BundleStore` | the abstract promise: complete versions, never lost | |
| `BundleWriter` | one call of `write_bundle`, file-system step by step, by any number of writers | |
| `BundleReader` | `read_bundle` beside the writers | `BundleWriter` |
| `Sums` | lemmas on `SumFunctionOnSet`, on the places of a sort or a filter, and induction over sets | |
| `ReplayProofs`, `RowProofs` | theorems about `Replay`: the books, the fill model and the seam between them; on top of it, the rows written | `Replay`, `Sums` |
| `LedgerProofs` | theorems about `Ledger` and `Session`: the money of a run, its entry, its exits and its end | `Session`, `Sums` |
| `BundleProofs` | theorems about `BundleWriter` and `BundleReader` | `BundleReader` |
| `SimulatorProofs` | theorems about `SimulatorSession` | `SimulatorSession` |
| `BatchProofs` | theorems about `Batch` | `Batch`, `Sums` |
| `TapeProofs` | theorems about `Tape`: what is read, and what brings it back | `Tape`, `Sums` |

Every variable is a field or a local of the code, named in the comment of its
declaration; ghosts, which exist for the properties only and which no guard
reads, are marked so. A `?` on an error is a step to a failed phase with its
cause.

### Order life cycles: `Domain`, `RealisticFill`, `ReplayEngine`, `Replay`

`pending` is `pending_orders`, `mirror` is `resting_strategy`, `orderIndex`,
`liveOrders`, `seedIds` and `books` the fields of `RealisticFill`, `inventory`,
`tradeOpen`, `openLegs` the three copies of the open legs, `records` and
`terminalRows` the bundle streams. `pc`, `k`, `cursor`, `gi` and `stepTrade` are
the program counter and the locals of the loops. An action is one turn of a loop
of the code, with every call it makes: `CarryClosesLeg`, for instance, is
`apply_carry_group` for a close, with `reduce_leg`, `record_close`,
`record_close_fill`, `record_close_terminal` and the shrinking or removal of the
registry entry. Ghosts: `submitted`, `withdrawn`, and the field `owner` of a
fill.

Prices do not appear here. Whether a ladder or a taker crosses a resting order,
and over how many levels, is a choice bounded by what rests in the book. The
books are external (`option-chain-orderbook`): sets of ladders and resting
orders; of price-time priority the model keeps what the correlation depends on,
that a maker a ladder hits and does not exhaust is the next one it hits. The
strategy is *any* strategy: `on_start` and `on_snapshot` submit any queue of at
most `MaxCommands`; `exits` and `close_all` are the shipped ones with an
arbitrary exit policy. The tape quotes any set of contracts at any step.

Bounds: `NumContracts`, `MaxQty`, `MaxOrders` (orders one run submits),
`FinalStep`, `MaxLevels` (levels a taker walks), `MaxCommands`. `MaxQty` is a
real limit of the code (`u32::MAX`), the others only bound the instance. Two
steps after the startup call let an order rest, be carried, and be carried again
or withdrawn; two contracts of size let it fill partly; two levels let one
command produce several fills; two contract keys let one leave the chain while
orders rest in the other, and let one step open two legs.

### Money: `Money`, `Depth`, `Ledger`

Here prices are numbers and the strategy is any sequence of orders. A step takes
a snapshot, applies the fills of its orders one after another (`apply_fill`, the
trade log and the collector in the code's order) and settles once: marks of
quoted contracts, the last mid of the others, the refusal to mark an expired leg,
equity, peak and drawdown, and a sample per leg into the flat buffer the
attribution pass walks after the last step (`AttributeStep`). A naive order is
one fill at the adverse, floored price of each `SlippageModel`; a realistic one
walks the ladder `plan_seed_into` builds from the quote, which earlier orders of
the step depleted, up to its cap in ticks, and is rounded to an average as the
code rounds it. One order at a time may rest at its limit; a later ladder that
crosses it fills it and extends or reduces its leg.

Bounds: `MaxTrades` and `MaxQty` per mode, `GtcLimits`. `MaxCents` is `i64::MAX`,
small enough in the run that the checked additions do overflow. The three days
are one and two days apart, so that elapsed time counts; the second contract
expires on the last, so that a run meets a leg it must refuse to mark.

### One backtest: `Strategy`, `Metrics`, `BundleTables`, `Config`, `Session`

`Session` composes what a run from `run.rs` goes through: `Construct` validates
the configuration and the spec, `OnStart` enters, `Decide` builds the queue of a
step (exits, then `close_all` on the last), the apply actions run the ledger, the
trade log and the collector on it, `Analyse` fills the metrics, `Publish` derives
the run id, sorts and writes the tables. Then one of several things happens: the
run is repeated (its legs written in another order, its configuration's
behaviour-neutral fields changed, its bundle written elsewhere), or the bundle is altered (a row
dropped, repeated or swapped, a cell, a footer or a manifest field changed, the tape file removed or
changed) and read. A tape is chosen whole at the beginning and a run is then
deterministic, which is what makes the repetition meaningful. Ratios are exact
rationals.

An `ExitPolicy` is a tree in the code and the sequence of its nodes in the model, a
composite naming its children by their places; `SortBy` and `Filter` put an
element at the place the number of those before it gives, as a stable sort and a
loop over the legs do. A fill the ledger refuses ends the run (`Proceed`).

Bounds: three days; every pattern of presence and price over a near and a far
call, and four tapes with more strikes for `IronCondor` and `ShortStrangle`;
fourteen specs, five exit policies; configurations at and beyond each ceiling.

### Tapes: `Convert`, `TapeFile`, `Tape`, `SimulatorSession`

`Tape` opens a CSV directory, a Parquet file or a simulator's walk, and between
any two steps of the code another program may write, create or remove files:
listing, opening, hashing and parsing are separate actions because they are
separate calls. A file's hash is its bytes. A CSV file may be rewritten in place
(`InPlace`), a Parquet file is replaced: its parser reads it in random order
after the hash, and only the replacement is harmless. `max_decompressed_bytes` is
held as each reader holds it: over the raw lengths of the CSV files as they are
opened (`SizeOk`), over the sizes a Parquet footer declares before anything is
decoded and over the decoded batches as they come (`Unpacks`; one file of the
instance declares too much, one declares little and decodes to too much; the batches
of a file count as one). Two rounds open and replay the
tape, the second from what the first recorded. Contents cover each check on the
way: crossed, off-grid, absent, empty, mistyped, NaN, ragged, too long, too many.

`SimulatorSession` is the client of `simulator.rs` against the server the code's
comments describe: a request has an attempt, may be lost, answered, answered
without being heard, or arrive late, after the client has sent another; `Attempts`
is `MATERIALISE_ATTEMPTS`. The server refuses a step whose precondition, the
length of the tape, is not its own (412). `MarketSimulator` shares the module:
its calls are single attempts. Bounds: steps, sessions, calls and late requests.

### Batches: `Scenario`, `Batch`

A batch is validated, expanded (`Scenario`), its tape parsed once, its runs
chunked over `Cores` workers, each run opening the shared tape, running, and
publishing at the level of `BundleStore` (all or nothing), and the entries
published as one index. The file may change at any time, a run or a session may
fail, a worker may panic, the process may be killed. The engine is a function of
seed and tape. Bounds: the requests of `BatchMC`, two batches, two cores, one
change of the file; five runs are the limit `MaxRuns`, so that one request is
beyond it.

### The bundle writer: `BundleStore`, `BundleWriter`, `BundleReader`

All calls modelled name one run id, so the three directories `<run_id>`,
`.<run_id>.partial` and `.<run_id>.backup` are the whole state (`fs`); `pc`,
`local` and `victim` are each writer's program counter, its locals
(`dest_exists`, the file at hand) and the directory its `remove_dir_all` holds
open. One action is one call into the file system, so a rival, an I/O failure
(`Fault`) or a kill (`Crash`) can come between any two, and a `remove_dir_all`
unlinks file by file. A directory is known by the call that created it and keeps
that identity through renames, so that a writer whose directory was renamed under
it goes on writing where POSIX says it does. The rows of a table are left out: a
file is absent, begun or whole. This is sound across calls as far as the tables of one run
id are the same whoever writes them, which is `OneIdOneBundle` of `Session`.
`create_dir_all` of the output directory is merged into the first test. A crash
is the death of the process: what was written stays, because the code makes no
`fsync` and power loss is outside what it promises. Bounds: `NumFiles` (the code
writes five, and treats all but the last alike: three give a first, a middle and
the manifest, two a table and the manifest), `MaxCalls` (four let a crashed
overwrite be followed by a failing one, and that one by two more).

## 3. What is checked

| run | question | distinct states |
|---|---|---|
| `ReplayOrders` | do both sides' books agree through rests, partial fills, carries, cancels and replaces of up to three orders of two contracts? | 600 thousand |
| `ReplayLegs` | do fills reach their owner, and does no working order lose its book, with two contracts and two commands a step? | 2.5 million |
| `ReplayTerminal` | can the exit policy and `close_all` close a leg twice, and does every run end? | 260 thousand |
| `Ledger` | do cash, trade log, position rows, equity curve and attribution rows agree to the cent? | 1 million |
| `Session` | does a spec get the legs it names, the exits its policy asks for, a true summary, a bundle that reads back, an id that is its own? | 410 thousand |
| `Tape` | is the tape what its recorded hash says, valid, and the same the second time? | 900 thousand |
| `Simulator` | is the drained tape a walk without gap or repeat, and what is left on the server? | 1 million |
| `Batch` | is the index a function of the plan, whatever the schedule, the faults and the file? | 410 thousand |
| `BundleCrash` | one writer, every step failing or crashing, and a reader: is a partial bundle ever visible, one lost, a later call spoiled, a read mixed? | 110 thousand |
| `BundleRivals` | do two writers of one run id, failing or killed at any step, always return, and does either replace a complete bundle without permission? | 700 thousand |
| `ClaimFlatten`, `ClaimRunId` | violations, see below | |

**Order life cycles** (`Replay`): the three copies of a leg (`LegsAgree`), the
streams against the inventory (`BundleReplaysInventory`), identity, numbering and
the fee of the recorded fills (`FillRowsSound`, `TradePerStep`), the two copies
of the working orders, so that no run aborts because one lost track
(`RegistryMatchesMirror`), no contract lost or traded twice
(`OrderConservation`), the fill model's mirror, books and indexes
(`MirrorMatchesBooks`, `NoStaleDepth`), the terminal step (`NoDoubleClose`) and
termination (`Terminates`). `ReplayTerminal` excludes closes from `on_snapshot`
(`CloseKinds = {}`): the code does let a run abort when a strategy closes a leg
that its exit policy closes too, and says so nowhere; `NoDoubleClose` is what it
promises for the closes it generates itself.

**Money** (`Ledger`): the equity gained is what the trade log realised and the
open rows would (`BooksReconcile`); every cent of a step's P&L is the move of a
mid under what was held or friction of its fills (`PnlExplained`); the
attribution rows are those terms, and close the equity curve
(`TermsCoverHoldings`). Both books round an average per order, so a multi-level
order may be off by half a cent per contract; the properties state that bound
exactly where it can arise and equality elsewhere.

**One backtest** (`Session`): `EntryIsSpec` (positional constructors, selection
by expiry), `OnEndFlattens`, `ExitsJustified` (exits against the tape, reasons
against exits), `SummaryReconciles` (metrics against all three collectors),
`OneIdOneBundle` and `ReadsBack` (a reader returns what was written or refuses).

**Tapes**: `TapeIsValid`, `Reproduces`, `PlaysTape`; over the wire `TapeIsWalk`,
`NoLeak`, `FailsForCause`, `OpenReturns`. **Batches**: `NoRace`, `IndexIsPlan`,
`OneTape`, `BatchReturns`.

**The writer**: what readers see (`DestWhole`, `ManifestImpliesTables`), what
survives (`BundleSurvives`), the truth of the return value and the innocence of
leftovers (`AnswersTrue`), the refinement of `BundleStore` (`ImplementsStore`);
all of these for one writer, because they are about content and are false for two
(below). For two writers, that each call returns (`CallsReturn`) and permission
(`OverwriteAuthorised`): the destination is looked at before the files are staged
and used after it, and a bundle that a rival has published in between is not
replaced, because the publication goes by what was seen and a rename does not land
on a directory with files. What keeps two writers from one run id is `NoRace`, of
their caller.

**Fairness.** `Terminates` is checked under `WF_vars(Next)`: a run is one
thread that never waits on anything. A run's end is `pc` in `done` or `failed`,
where the specification stutters explicitly, so deadlock is checked everywhere
else. `CallsReturn` assumes weak fairness of each writer's own steps, not of new
calls, faults' absence or a rival's progress: a writer is a thread that takes no
lock. `OpenReturns` assumes weak fairness of the client's own steps, `Timeout`
among them, because every request has one; nothing is assumed of the server.
`BatchReturns` assumes that the batch's threads run: they wait for nothing and
the join waits for them only. `Ledger`, `Session`, `Tape` stop when a run is
over, and do not check deadlock.

**Findings** (the violation runs). `close_all`, which should close each leg
exactly once, does not see a `Replace` whose replacement closes the leg, and the
run aborts (`ClaimFlatten`). The preimage of a run id leaves out the
`ExitPolicy`, so two runs that exit differently share an id and the second is
refused or replaces the first (`ClaimRunId`); the `Session` run holds the policy
fixed over a repetition for that reason (`VaryPolicy`), and finds no other input
left out.

**Smaller divergences**, modelled as the code has them:

- `apply_step_fills` documents its errors (`engine/backtest.rs:1187`) but not the
  abort when a resting open's leg was closed before its remainder filled. A
  marketable order that fills nothing aborts the run, and so does a taker that
  crosses the strategy's own resting order, after the book was changed
  (`execution/realistic.rs:764`).
- The comments of `apply_carry_group` say that an open's carried fills push a
  *new* leg, and they extend the one its first fill made; `fill`'s doc says that
  lifecycle commands are processed in command order alongside submits, and every
  cancel half is applied before any submit. A `Replace` of an order that this
  step's refresh filled still routes its replacement.
- An exit or `close_all` of a leg that is not quoted at that step aborts a naive
  run, although the doc of `close_command` (`engine/strategy.rs:1190`) describes a
  fallback to the entry premium. The exit policy does not look at pending closes
  (`:941`). An open still pending at the final step leaves no record.
- An order that rested is measured against the mid of the step it was submitted
  in, so the mid's drift since lands in the attribution's residual; extending a
  leg averages an average that was already rounded.
- `IronCondor` and `ShortStrangle` never compare their `underlying` with the
  tape's; only an explicit leg set does.
- With two writers of one run id, "a reader sees a complete bundle or none" is
  false: the second removes the staging directory the first is renaming into
  place. A batch makes such writers when two overrides pin one seed
  (`engine/scenario.rs:476`, against `batch.rs:50`); `BundleRivals.cfg` with
  `INVARIANT DestWhole` shows it. "A reader that sees the manifest sees the
  complete tables" (`bundle/writer.rs:21`) is false across an overwrite. "A failed
  run leaves nothing behind" (`:70`) is false when a stale backup cannot be
  removed (`:374`), and the error of a failed overwrite reports the old bundle as
  restored even when the restoring rename failed too.
- `write_bundle` does not check `max_rows_per_table`, so that its own reader may
  refuse a large bundle; edits within range (a reason blanked, a fill's side, a
  signed column negated) are not detected by the reader, nor is the manifest's
  run id compared with anything.
- "Provably the sha of the exact bytes the parser consumes"
  (`data/historical.rs:209`) holds of a Parquet file only when it is replaced and
  not rewritten in place; tick and multiplier may change between snapshots. The
  simulator source has no `open_verified`.
- An answer of the simulator that is too large or cannot be parsed is retried,
  and the retry is reported as 412.
- A batch id does not cover the limits the simulator's walks are materialised with.
- `largest_win` may be 0; the net premium of a run without closed trades is not
  scaled by the multiplier (documented at `analytics/metrics.rs:558`); the first
  step's P&L against the capital is in no return. In `f64` the mean of three or
  more equal returns can differ from them and give a huge Sharpe ratio where the
  doc promises none; the model's ratios are exact and do not show it.

## 4. What is proved

TLAPS proves the following for every value of the constants allowed by the
assumptions of the modules: `DomainAssumption`, `LevelsAssumption`,
`StrategyAssumption`, `DepthAssumption`, `LedgerAssumption`, `WriterAssumption`,
`SimulatorAssumption`, `ScenarioAssumption`, `BatchAssumption`, `TapeAssumption`,
`ConfigAssumption`, `ScriptsAssumption`, `SpecsAssumption`, `PoliciesAssumption`, which are positive
bounds, kinds, sides and steps out of the enumerations, the shape of a batch
request (what the deserialiser lets through), and for the money the types of the
fields: unsigned prices, sizes and fees, signed analytics, a capital that fits,
snapshots in ascending order of time; for a tape, the shape of a decoded cell and of
a response, that at most one file is Parquet and that its sizes are numbers; for a session, a script with a
snapshot a day, the fields a spec of each kind has, and policies that are trees. Some results have a hypothesis
besides, written in the theorem: `OneWriter`, `CloseKinds = {}` and
`"parquet" \notin InPlace`, explained below.

About a run (`Replay`):

- `TypeCorrect`: `Spec => []TypeOK`. `TypeOK` lacks one fact to be inductive,
  that the loop does not ask for a snapshot past the final step; `TypeInv` adds
  it. The proof has a lemma per action, and what it shows is that the code's
  guards suffice: each typed error refuses what would leave the types (a size
  past `MaxQty`, a leg that is gone, a count the channels do not cover).
- `LegsAlwaysAgree`: `Spec => []LegsAgree`. `LegsAgree` is not inductive either:
  an extension must find the trade the leg was opened under, and a fresh
  position id must be free. The strengthening `LegsInv` adds `IdsMinted` (every
  leg's id is below `nextPos`) and `EntriesKnowTrade` (a registry entry whose
  order already has an open leg carries the leg's trade). TLC checked the
  strengthening first; one step per action of `EngineNext` and one for
  `FillNext`, which leaves the books alone, preserve it.
- `BooksNeverDesync`: no run aborts with `log_desync` or `untracked_leg`, from
  `LegsInv`: the two errors are the guards that find a leg in the inventory and
  not in the trade log or the collector.
- `MirrorAlwaysMatches`, `DepthNeverStale` and `FillNeverDesyncs`: the fill
  model's mirror, its leaf books and its two indexes always list the same resting
  orders (`[]MirrorMatchesBooks`); no ladder of an earlier snapshot is ever left in
  a book (`[]NoStaleDepth`); and the guards of the model against a desync of its own
  books (`refresh_desync`, `live_desync`, a submission without an id) never fire.
  All three come from `FillInv`. An order that comes to rest must find its sequence
  id and its engine id unused: the first is a counter's doing (`Counted`), the second
  the engine's, which mints ids in ascending order ahead of the call and lets both
  sides deal them out by counting submissions, so that while the call runs the ids
  to come are above those that rest (`Dealt`, by a count of the queue's prefix).
  `Bridged` and `Mirrored` tie index, mirror and books entry by entry, and
  `SeedsKnown` says that the ladders on record for the next refresh are all there
  are, which is what makes cancelling the recorded ones enough.
- `RegistryAlwaysMatches`: `[]RegistryMatchesMirror`. The engine's registry and the
  fill model's mirror are two copies of the working orders that nothing but the
  returned fills and one list of withdrawals keeps together, and they agree only
  between calls. `SeamInv` says what the difference is in between. The ids the
  engine will mint are the ids the fill model was given ahead of the call
  (`Minted`); the fills of a call come in runs of one order, the carried ones in
  ascending order and then the command walk's in the order of the queue
  (`Grouped`); and what the registry lists of an order is what rests of it plus the
  fills of it that are still to be applied (`Owed`, in `Registered`), with the
  orders whose fills are all that will be left of them (`Awaited`) and those whose
  withdrawal the walk has yet to reach (`Doomed`). `Room` bounds the ids.
- `OrdersConserved`, `RowsSound`, `BundleAlwaysReplays`, `TradesPerStep`:
  `[]OrderConservation`, `[]FillRowsSound`, `[]BundleReplaysInventory` and
  `[]TradePerStep`, of a run of any length. They are about rows that accumulate
  over all calls, while each step sees one run of fills; `RowInv` adds to
  `SeamInv` what the rows written so far say: with what rests and what is still to
  be applied they add up to what was submitted (`Conserved`), they are numbered
  and the registry entries carry the count (`Numbered`, `Tallied`), an order opens
  one leg and its entry names it (`OwnLegs`), the order fee is on one fill
  (`Charged`), the opens of a call are of one trade that no other call has
  (`Traded`), and a new order or leg has no rows (`Known`, `Placed`).
- `ClosedOnce`: `CloseKinds = {} => (Spec => []NoDoubleClose)`. The hypothesis says
  that `on_snapshot` appends no close, which is so of every strategy of the
  repository; without it the property is false (section 3). `OpensRest` says that
  then only opens can rest, `ClosesOnce` that a close the exits or `close_all` put
  in the queue is the only one of its leg, and of no more than is held, until the
  walk reaches it.

About the money of a run (`Ledger`), naive or realistic, for any contracts,
expiries, quotes and days, any slippage model, ladder and fees, and any number of
orders: `LedgerTyped` (`[]TypeOK`), `BooksAlwaysReconcile` (`[]BooksReconcile`),
`PnlAlwaysExplained` (`[]PnlExplained`) and `TermsAlwaysCover`
(`[]TermsCoverHoldings`), all from `LedgerInv`. They are about tables written once
a step, from amounts that move with every fill, and `LedgerInv` says what those
amounts are in between:

- `Balanced`: the cash, the open legs at the present mids and the friction of the
  step so far make up the equity of the step before, what the legs it began with
  have gained since, and the drift of carried fills. A snapshot brings it about, an
  order keeps it and the settlement reads the step's P&L off it. `Explained` says
  the same of the whole run: the cash spent is the stake in the open legs and what
  the closes realised, up to half a cent for each contract of an average.
- `Marked`: the retained mid and Greeks of a leg are those of its last quote on the
  tape, whatever left the chain since. `Recorded` and `Sampled`: the position rows
  and leg samples of each step, which lie in the flat buffer in the order of the
  steps, so that the cursor of `attribute` reads those of the step it is at.
- `Booked`: every ladder is sorted best first and holds no empty level, whatever was
  taken from it. `Rests` and `Carries` hold the order that rests to a contract that was
  quoted when it was submitted, which its decision mid is read from.

The proof goes order by order: what the fills of one order sum to (`OrderSums`), what
the leg changes by (`HeldAppend`, `HeldChanged`, `HeldWithout`), that rounding the
average moves the stake by half a cent per contract at most, and from these that
both balances still hold. The cents of fills, slippage and fees cancel exactly:
the slippage a fill records is what its price cost against the mid.

About one backtest (`Session`), for any contracts, tapes, specs and exit policies,
any length of run, all from `SessionInv`:

- `EntryAlwaysSpec`: `[]EntryIsSpec`. `Enters` says that the fills so far open the
  legs the strategy stores, one after another, and that no later fill opens a leg
  (`OpensAs`). That these are the legs that were written, each as often, is
  `LegsOf`: sorting by `canonical_cmp` permutes them, because a lexicographic order
  with ties broken by place gives each leg a place of its own (`LexOrder`,
  `StableOrder`, and `ChainPlaces` and `ByPlace` of `Sums`).
- `ExitsAlwaysJustified`: `[]ExitsJustified`. `evaluate_exits` reads the mark that a
  settlement retained, the property the tape: `MarksHold` says that the mark of an
  open leg the snapshot does not quote is the last mid on the tape. `Justified`
  carries the reason of a trade from its place in the queue to the policy.
- `OnEndAlwaysFlattens`: `[]OnEndFlattens`. `Queued` says that what is left of the
  queue of a step are full closes of different open legs, those of the exits first,
  and on the last step of all legs: `ScheduledIs` computes that
  `scheduled_close_qty` is the whole leg when an exit has queued it and 0 when
  not, and `WholeQueue` that exits and flatten together list every leg once.
  `Numbered` says that a position id is the number of the order that opened it, so
  that an id closed in full never comes back. When the queue is empty so is the
  inventory.

About the bundle writer, for any number of files and calls, any set of steps
that may fail, with or without crashes:

- `BundleTypeCorrect`: `Spec => []TypeOK`, for any number of writers.
- `DestinationWhole` and `BundleNeverLost`: `[]DestWhole` and
  `[]BundleSurvives`, under the hypothesis `OneWriter` that all writers are one
  (they may call, crash and restart for ever). Both come from one inductive
  invariant, `BundleInv`: the three names never refer to one directory
  (`Apart`), nothing outside the staging directory is still being written
  (`Sealed`), a published bundle is seen or whole in the backup (`SeenOrKept`),
  and `Phase`, what each step of the code may rely on: in particular that
  `dest_exists`, read at the beginning, is still true at the renames, which is
  where the hypothesis of a single writer is needed.
- `OverwritesAuthorised`: the action property `OverwriteAuthorised`, for any number
  of writers. `PermitInv` says that whoever found a bundle when its call began, and
  whoever is past the point where that decides, has permission (`Permitted`);
  only the step that moves the destination aside takes a complete bundle from it
  (`OnlyAside`).
- `AnswersAlwaysTrue`: `[]AnswersTrue`, under `OneWriter`. `AnswerInv` adds to
  `BundleInv` that what the tests of the code found still holds (`Looked`), whose
  bundle is where while the call runs (`Ours`) and that the error paths are entered
  by a fault only (`Broken`).
- `ManifestAlwaysImpliesTables`: `[]ManifestImpliesTables`, of a reader beside the
  writer, under `OneWriter`. `ReadInv` adds that as long as no overwrite moved the
  bundle aside what the reader has seen is all of the call that wrote the
  destination (`Reading`), and that every directory is of a call that was made
  (`AllAuthored`).
- `WriterImplementsStore`: under the same hypothesis the writer refines
  `BundleStore`, with "visible" the complete bundle at the destination and
  "kept" the one in the backup; a backup that `remove_dir_all` has begun to
  empty counts as forgotten.

About the simulator client, for any number of attempts, steps, sessions and late
requests, whatever is lost, late or repeated:

- `TapeAlwaysWalk`: `[]TapeIsWalk`. The inductive `WalkInv` says that a retried
  advance is harmless because its precondition is the length of the tape
  (`Drains`), that an answer under way tells of the step after it (`Answered`),
  and that what a view says stays true because sessions only move forward
  (`Grows`).
- `FailuresHaveCause`: `[]FailsForCause`. `CauseInv` adds `Quiet`: of a client
  that missed no answer nothing is late, and its session is exactly where the
  last answer says; so the precondition cannot refuse it.
- `LeaksAreUnanswered`: `[]NoLeak`. `LeakInv` adds a count (`Counted`): the live
  sessions the client does not know, the create requests that are late and the one
  that is under way are together no more than the attempts to create that went
  unanswered, from the library's theorems on cardinalities.

About the batch runner, for any set of requests and tapes, any number of cores,
of runs and of batches, whatever runs fail or panic, and with crashes, all from
`BatchInv`:

- `RunsNeverRace`: `[]NoRace`. Two workers could write one bundle only if two runs
  of a plan had one run id, and `SeedsDiffer` shows that the seeds of a plan are
  distinct unless the overrides pin one twice.
- `IndexAlwaysPlan`: `[]IndexIsPlan`. The invariant follows an entry from the worker
  to the index: each worker has the entries of the first runs of its chunk
  (`Spread`), the chunks follow one another (`ChunksFollow`, arithmetic of the
  chunk size), so that the vectors appended in worker order are the plan's
  (`AppendedInOrder`) and sorting them changes nothing (`SortedStays`). That an Ok
  entry is true, and stays so through later batches, rests on what is on disk being
  this worker's or older than the batch (`Stored`, `Earlier`, `Indexed`).
- `TapeAlwaysOne`: `[]OneTape`, from what the parse cache holds (`Cached`).

About a tape (`Tape`), for any names and contents of files, whatever other programs
write between any two steps, any walks of the simulator and any ceilings, all from
`TapeInv`:

- `TapeAlwaysPlayed`: `[]PlaysTape`, from `Fed`, what the feed's cursor and the
  clock have to do with each other.
- `TapeAlwaysReproduces`: `[]Reproduces`. `Told` says what the identity hashes in
  each phase, while file after file is opened, counted, hashed and read, and that
  the snapshots so far are their reading (`IsTapeOf`); `Walked` says it of a walk and
  its drain; `Kept` is what the first round leaves to the second. That equal hashes
  are of equal snapshots is `HashTells`. The other direction, that an opening from
  a recorded identity does not fail when nothing was written, is `Opens`, and needs
  `Same`: the second listing is the first one (`OneOrder`: one ascending list has
  a given set of names), the bytes counted so far are a part of those counted then
  (`SizesPart`), and so are the snapshots, so that no ceiling and no check can turn
  away what passed before.
- `TapeAlwaysValid`: `[]TapeIsValid`, from `TapeInv` and the algebra of reading.
  Rows of one step are a group (`StartRanks`, `GroupsInOrder`: the groups follow
  each other without a gap, `RowInGroup`: every row is in one), as many keys as rows
  make each row a quote of its own (`QuotesAre`), the mid is on the tick and in
  the spread (`Ticks`, `MidInSpread`), the chain an upstream strategy gets has the
  same quotes (`InChain`), and the counts add up (`RowsSum`, `QuotesSum`).

The hypothesis of the last two is that a Parquet file is replaced and not rewritten
in place: its parser goes back to the file after the hash, and `TapeIsValid` is
false of the bytes it finds then (section 3). A CSV file may be rewritten in place.
A Greek that is written as 0 gives the same quote as one that is left out: what a
row says can be told from its quote up to that (`Quoted`).

`Sums` serves several of these proofs. What `SumFunctionOnSet` computes is a fold
that picks elements in no order one knows, so every fact about it needs an
induction. The library's induction theorems take an operator; `Sums` states
induction about sets instead (a set with 0 and all successors holds every natural
number, a family with `{}` and closed under adding an element holds every finite
set), which the provers can use, and derives from it how a sum changes with one
element, with a disjoint union and with a function that differs at one place.

Each strengthening was checked by TLC as an invariant before it was proved:
`RowInv` on 600 thousand states of the `ReplayOrders` instance and 2.5 million of
`ReplayLegs`, `ClosesOnce` on `ReplayTerminal`, `ReadInv` on `BundleCrash`,
`BatchInv` on `Batch`, `LedgerInv` on the million states of `Ledger`, `TapeInv` on
the 900 thousand of `Tape`, `SessionInv` on the 410 thousand of `Session`.

**Only model-checked:** of `Session`, `SummaryReconciles` (ratios and extremes
computed by recursion over the curve), `OneIdOneBundle` and `ReadsBack` (two whole
runs compared, and every alteration against every check of the reader); liveness
(`Terminates`, `CallsReturn`, `OpenReturns`, `BatchReturns`) and `ENABLED`, which
are outside the prover's reach. What a recursive function computes for every
input needs an induction over data: the proofs use of `Triggered` only that it
depends on its arguments.

## 5. What is not modelled

- The simulator service and the order book crate are external: modelled from how
  the code uses them. Whether the book accepts a level at price 0 cannot be read
  from `src/`; `Depth` lets it.
- `RealisticFill` leaves crossing to choice; `Depth` and `Ledger` compute it for
  marketable orders and for one resting order. Several resting orders' money at
  once, and the raw adapter without a liquidity profile (`seed_maker_limit`, a
  test interface), are not modelled.
- Arrow and Parquet encoding, CSV tokenisation, JSON and error texts: tokens and
  records stand for them. The canonical order of legs that differ only in how a
  `Days` expiration is written is left out.
- Figures with a square root: only their sign; the Ulcer index not at all. No
  number type of the model checker expresses them.
- Delta thresholds and `reprice_inner`, which no shipped policy reaches
  (`policy_reads_inner` is false for each of them).
- The Python bindings: conversion, without state of their own.
- A carried close whose leg is gone is in `ReplayEngine` and does not arise in
  the instance of `Ledger`.

**Left to do**: an abstract order life cycle (submitted, resting, filled,
withdrawn) that `Replay` refines, for which `RowInv` has the facts.
