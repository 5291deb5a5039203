-------------------------------- MODULE Batch --------------------------------
(***************************************************************************)
(* The batch runner (src/batch.rs): a batch is expanded, its source parsed *)
(* once, its runs fanned out over worker threads in disjoint chunks, each  *)
(* run writing its own bundle, and the entries published as one index.     *)
(*                                                                         *)
(* write_bundle is taken at the level of BundleStore: it puts a complete   *)
(* bundle in place or changes nothing.  The engine is a function of the    *)
(* seed and the tape: Failing are the seeds whose run aborts.              *)
(***************************************************************************)
EXTENDS Scenario, SequencesExt, FiniteSets

CONSTANTS
  Requests,    \* the batches that may be asked for: parameters, base, overwrite, knobs
  Cores,       \* available_parallelism
  MaxBatches,  \* bound: batches run one after another
  Tapes,       \* the contents the source file may have
  BadTape,     \* a content that is no valid tape
  MaxChanges,  \* bound: changes of the file
  Failing,     \* the engine seeds whose run aborts
  Faults,      \* the steps that may fail: "session", "write", "index", "panic"
  Crashes      \* may the process be killed?

NoTape == "none"

\* A batch: count is unsigned, the sweep a vector of overrides, and every source
\* has a kind; only a recorded one has more than no pin.
IsRequest(req) ==
  /\ req.params.count \in Nat
  /\ req.params.sweep \in Seq([seed : Int, factor : Int, delta : Int])
  /\ req.base = [seed |-> req.base.seed, source |-> req.base.source, valid |-> req.base.valid]
  /\ {"kind", "pin"} \subseteq DOMAIN req.base.source
  /\ {req.base.valid, req.overwrite, req.knobs} \subseteq BOOLEAN

ASSUME BatchAssumption ==
  /\ Cores \in Nat \ {0} /\ MaxBatches \in Nat /\ MaxChanges \in Nat
  /\ BadTape \in Tapes /\ NoTape \notin Tapes
  /\ Crashes \in BOOLEAN
  /\ \A req \in Requests : IsRequest(req)

VARIABLES
  file,      \* the content of the source file
  changes,   \* how often it changed
  batches,   \* batches asked for
  request,   \* the batch at hand
  phase,     \* what run_scenario_batch is doing
  plan,      \* the configurations, in run order
  cache,     \* the parse cache: "none", or the tape it holds
  local,     \* per worker, the entries of the runs it has finished
  stage,     \* per worker, what it does with the run it is at
  tape,      \* per worker, the tape it opened
  store,     \* the bundles on disk, by run id: the batch and the tape of each
  index,     \* batch_<id>/index.json, by batch id
  result,    \* what the last batch returned
  before,    \* ghost: run ids on disk when the batch began
  faulted    \* ghost: runs that met a fault of their own

runVars == <<plan, cache, local, stage, tape>>
diskVars == <<store, index>>
vars == <<file, changes, batches, request, phase, runVars, diskVars, result, before, faulted>>

\* The identity of a tape: a file's is its content's, a walk's is its session's
\* own, for the server stamps each snapshot with its clock.
FileTape(t) == <<t>>
WalkTape(config) == <<"walk", config.source.data_seed, batches>>
Pinned(config) == config.source.pin # NoTape

Init ==
  /\ file \in Tapes /\ changes = 0 /\ batches = 0
  /\ request \in Requests
  /\ phase = "idle"
  /\ plan = <<>> /\ cache = NoTape
  /\ local = <<>> /\ stage = <<>> /\ tape = <<>>
  /\ store = <<>> /\ index = <<>>
  /\ result = "none" /\ before = {} /\ faulted = {}

\* RunId::derive: the configuration with its seed, and the data identity.
RunId(config, t) == <<config.seed, config.source, t>>

\* derive_batch_id: of the parameters and the base configuration, whether it may
\* overwrite included; the knobs of a simulated source are no part of it.
BatchId(req) == <<req.params, req.base, req.overwrite>>

-----------------------------------------------------------------------------
(* Workers and chunks.                                                     *)

CeilDiv(a, b) == (a + b - 1) \div b
LesserOf(a, b) == IF a < b THEN a ELSE b

\* Mutant: a thread for every run.
MutOnePerRun(n) == IF n = 0 THEN 1 ELSE n
worker_count(n) == IF n = 0 THEN 1 ELSE LesserOf(n, Cores)
ChunkSize(n) == CeilDiv(n, worker_count(n))

\* Mutant: neighbouring chunks share a run.
MutFirstOf(w) == (w - 1) * ChunkSize(Len(plan)) + (IF w = 1 THEN 1 ELSE 0)
\* planned.chunks(chunk_size): one worker per chunk.
FirstOf(w) == (w - 1) * ChunkSize(Len(plan)) + 1
LastOf(w)  == LesserOf(w * ChunkSize(Len(plan)), Len(plan))
WorkersFor(n) == IF n = 0 THEN {} ELSE 1..CeilDiv(n, ChunkSize(n))
Workers == DOMAIN local
At(w) == FirstOf(w) + Len(local[w])

-----------------------------------------------------------------------------
(* run_scenario_batch, up to the fan-out.                                  *)

Ask ==
  /\ phase = "idle" /\ batches < MaxBatches
  /\ batches' = batches + 1
  /\ request' \in Requests
  /\ phase' = "expand"
  /\ result' = "none" /\ before' = DOMAIN store /\ faulted' = {}
  /\ UNCHANGED <<file, changes, runVars, diskVars>>

Give(r) == phase' = "idle" /\ result' = r

DoExpand ==
  /\ phase = "expand"
  /\ LET e == ExpandError(request.params, request.base)
     IN  IF e # "none" THEN Give(e) /\ UNCHANGED plan
         ELSE /\ plan' = Expand(request.params, request.base)
              /\ phase' = "materialise" /\ UNCHANGED result
  /\ UNCHANGED <<file, changes, batches, request, cache, local, stage, tape,
                 diskVars, before, faulted>>

\* ParquetFeed::open_verified: a valid tape, and the one the pin names.
Opens(config, t) == t # BadTape /\ (Pinned(config) => config.source.pin = t)

\* SharedParquetTape::materialise.
SharedTape(config) == IF Opens(config, file) THEN file ELSE BadTape

\* materialise_shared_tapes: the file is parsed once, its failure kept too.
Materialise ==
  /\ phase = "materialise"
  /\ cache' = IF plan = <<>> \/ request.base.source.kind # "parquet" THEN NoTape
              ELSE SharedTape(plan[1])
  /\ local' = [w \in WorkersFor(Len(plan)) |-> <<>>]
  /\ stage' = [w \in WorkersFor(Len(plan)) |-> "open"]
  /\ tape' = [w \in WorkersFor(Len(plan)) |-> <<>>]
  /\ phase' = "fan"
  /\ UNCHANGED <<file, changes, batches, request, plan, diskVars, result, before, faulted>>

-----------------------------------------------------------------------------
(* One worker thread: run_one_entry for each run of its chunk.             *)

\* data_seed_of: a file feed has none.
data_seed_of(config) ==
  IF config.source.kind = "simulator" THEN config.source.data_seed ELSE <<>>

\* BatchRunOutcome and BatchRunEntry.
OkOutcome(i, t) == [status |-> "ok", run_id |-> RunId(plan[i], t), tape_sha256 |-> t]
ErrorOutcome == [status |-> "error"]
RunEntry(i, outcome) ==
  [index |-> i - 1, engine_seed |-> plan[i].seed, data_seed |-> data_seed_of(plan[i]),
   outcome |-> outcome]

\* The run is over: the next one of the chunk, or the end of the thread.
Recorded(w, entry) ==
  /\ local' = [local EXCEPT ![w] = Append(@, entry)]
  /\ stage' = [stage EXCEPT ![w] = IF At(w) = LastOf(w) THEN "done" ELSE "open"]

\* Mutant: the error is swallowed.
MutFailedAsOk(w) ==
  Recorded(w, RunEntry(At(w), OkOutcome(At(w), tape[w]))) /\ UNCHANGED tape
Failed(w) == Recorded(w, RunEntry(At(w), ErrorOutcome)) /\ UNCHANGED tape

\* Mutant: every run opens the file itself.
MutNoCache(config) == FALSE
\* A hit needs the pin to be the cached tape's identity, when there is a pin.
Hit(config) == cache \notin {NoTape, BadTape}
                 /\ (Pinned(config) => config.source.pin = cache)

\* run_one up to the engine: the configuration is valid, and open_and_run finds
\* the cached tape, the cached failure, or opens the file itself; a simulator's
\* session gives each run a tape of its own, and is opened only with its
\* SimulatorMaterialisation.
OpenTape(w) ==
  LET config == plan[At(w)]
      opened(t) == /\ tape' = [tape EXCEPT ![w] = t]
                   /\ stage' = [stage EXCEPT ![w] = "write"]
                   /\ UNCHANGED local
  IN  CASE ~config.valid -> Failed(w) /\ UNCHANGED faulted
        [] config.valid /\ config.source.kind = "parquet" ->
             /\ CASE Hit(config) -> opened(FileTape(cache))
                  [] cache = BadTape -> Failed(w)
                  [] OTHER -> IF Opens(config, file) THEN opened(FileTape(file)) ELSE Failed(w)
             /\ UNCHANGED faulted
        [] config.valid /\ config.source.kind = "simulator" /\ request.knobs ->
             \/ opened(WalkTape(config)) /\ UNCHANGED faulted
             \/ "session" \in Faults /\ Failed(w) /\ faulted' = faulted \cup {At(w)}
        [] OTHER -> Failed(w) /\ UNCHANGED faulted

Open(w) ==
  /\ phase = "fan" /\ stage[w] = "open"
  /\ OpenTape(w)
  /\ UNCHANGED <<file, changes, batches, request, phase, plan, cache, diskVars, result, before>>

\* The engine runs, and the bundle is written: a collision when one is there
\* that may not be replaced.
WriteRun(w) ==
  LET i == At(w)
      id == RunId(plan[i], tape[w])
  IN  /\ phase = "fan" /\ stage[w] = "write"
      /\ IF plan[i].seed \in Failing \/ (id \in DOMAIN store /\ ~request.overwrite)
         THEN Failed(w) /\ UNCHANGED store
         ELSE /\ Recorded(w, RunEntry(i, OkOutcome(i, tape[w])))
              /\ store' = [d \in DOMAIN store \cup {id} |->
                             IF d = id THEN [batch |-> batches, tape |-> tape[w]] ELSE store[d]]
              /\ UNCHANGED tape
      /\ UNCHANGED <<file, changes, batches, request, phase, plan, cache, index, result,
                     before, faulted>>

\* write_bundle fails and leaves what was there.
WriteFails(w) ==
  /\ phase = "fan" /\ stage[w] = "write" /\ "write" \in Faults
  /\ Failed(w)
  /\ faulted' = faulted \cup {At(w)}
  /\ UNCHANGED <<file, changes, batches, request, phase, plan, cache, diskVars, result, before>>

\* A bug: the thread dies with the entries of its chunk.
Panic(w) ==
  /\ phase = "fan" /\ stage[w] = "write" /\ "panic" \in Faults
  /\ stage' = [stage EXCEPT ![w] = "dead"]
  /\ UNCHANGED <<file, changes, batches, request, phase, plan, cache, local, tape,
                 diskVars, result, before, faulted>>

-----------------------------------------------------------------------------
(* The join and the index.                                                 *)

\* Mutant: a dead thread is waited for.
MutJoinedDone == phase = "fan" /\ \A w \in Workers : stage[w] = "done"
Joined == phase = "fan" /\ \A w \in Workers : stage[w] \in {"done", "dead"}

Join ==
  /\ Joined
  /\ IF \E w \in Workers : stage[w] = "dead" THEN Give("panic")
     ELSE phase' = "index" /\ UNCHANGED result
  /\ UNCHANGED <<file, changes, batches, request, runVars, diskVars, before, faulted>>

\* sort_by_key is stable: the entries that go before another one, and itself.
UpTo(entries, j) ==
  {k \in DOMAIN entries : \/ entries[k].index < entries[j].index
                          \/ entries[k].index = entries[j].index /\ k <= j}
SortedByIndex(entries) ==
  [i \in DOMAIN entries |->
     entries[CHOOSE j \in DOMAIN entries : Cardinality(UpTo(entries, j)) = i]]

\* The workers' vectors, appended as the threads are joined, by run index.
Collected == SortedByIndex(FlattenSeq(local))

\* BatchIndex; batch is a ghost, the batch that wrote it.
BatchIndex(req, runs) ==
  [kind |-> req.params.kind, base_seed |-> req.params.base_seed,
   count |-> req.params.count, run_count |-> Len(runs), runs |-> runs, batch |-> batches]

\* write_batch_index: staged beside the last one of this batch and renamed over it.
PublishIndex ==
  /\ phase = "index"
  /\ index' = [id \in DOMAIN index \cup {BatchId(request)} |->
                 IF id = BatchId(request) THEN BatchIndex(request, Collected) ELSE index[id]]
  /\ Give("ok")
  /\ UNCHANGED <<file, changes, batches, request, runVars, store, before, faulted>>

IndexFails ==
  /\ phase = "index" /\ "index" \in Faults
  /\ Give("bundle")
  /\ UNCHANGED <<file, changes, batches, request, runVars, diskVars, before, faulted>>
-----------------------------------------------------------------------------
(* The environment.                                                        *)

\* Somebody replaces the source file.
FileChanges ==
  /\ changes < MaxChanges
  /\ changes' = changes + 1
  /\ file' \in Tapes \ {file}
  /\ UNCHANGED <<batches, request, phase, runVars, diskVars, result, before, faulted>>

\* The process is killed; a bundle being staged is not in place.
Crash ==
  /\ Crashes /\ phase # "idle"
  /\ Give("crashed")
  /\ UNCHANGED <<file, changes, batches, request, runVars, diskVars, before, faulted>>

Work == \E w \in Workers : Open(w) \/ WriteRun(w) \/ WriteFails(w) \/ Panic(w)

Step == DoExpand \/ Materialise \/ Work \/ Join \/ PublishIndex \/ IndexFails

AllDone == phase = "idle" /\ batches = MaxBatches /\ UNCHANGED vars

Next == Ask \/ Step \/ FileChanges \/ Crash \/ AllDone

Spec == Init /\ [][Next]_vars

\* The threads wait for nothing and the join waits for them only.
FairSpec == Spec /\ WF_vars(Step)

-----------------------------------------------------------------------------
(* Properties.                                                             *)

\* Do the overrides pin one seed twice?  Nothing in expand refuses that with
\* count = 1, and two runs then share a run id.
PinsTwice ==
  \E i, j \in DOMAIN request.params.sweep :
    /\ i < j
    /\ request.params.sweep[i].seed = request.params.sweep[j].seed
    /\ request.params.sweep[i].seed # None

\* "Runs never collide" (batch.rs:50): no two workers ever write the bundle of
\* one run id, which is what the replicated seeds are refused for; and no more
\* of them run than there are cores, over no more runs than the ceiling.
NoRace ==
  /\ Len(plan) <= MaxRuns /\ Cardinality(Workers) <= Cores
  /\ phase = "fan" /\ ~PinsTwice =>
       \A v, w \in Workers :
         v # w /\ stage[v] = "write" /\ stage[w] = "write" =>
           RunId(plan[At(v)], tape[v]) # RunId(plan[At(w)], tape[w])

Published == phase = "idle" /\ result = "ok"

\* What becomes of run i by itself.
Alone(i) ==
  /\ i \notin faulted /\ plan[i].valid /\ plan[i].seed \notin Failing
  /\ plan[i].source.kind = "parquet" \/ (plan[i].source.kind = "simulator" /\ request.knobs)
  /\ plan[i].source.kind = "parquet" =>
       /\ cache # BadTape
       /\ request.overwrite \/ RunId(plan[i], FileTape(cache)) \notin before

Runs == index[BatchId(request)].runs

\* The index is a function of the batch, not of its schedule: one entry per
\* run, in run order, and an entry is Ok exactly when its run alone succeeds,
\* whatever became of the others.  And every run a published index calls Ok has
\* its bundle on disk, written from the tape the entry names, through later
\* batches, failures and crashes.
IndexIsPlan ==
  /\ Published =>
       /\ Len(Runs) = Len(plan)
       /\ \A i \in DOMAIN plan :
            /\ Runs[i].index = i - 1
            /\ Runs[i].engine_seed = plan[i].seed
            /\ ~PinsTwice => (Runs[i].outcome.status = "ok" <=> Alone(i))
  /\ \A id \in DOMAIN index : \A i \in 1..index[id].run_count :
       LET outcome == index[id].runs[i].outcome
       IN  outcome.status = "ok" =>
             /\ outcome.run_id \in DOMAIN store
             /\ store[outcome.run_id].tape = outcome.tape_sha256
             /\ store[outcome.run_id].batch >= index[id].batch

\* The runs of a file batch replay one tape, the pinned one when there is a
\* pin, also when the file is replaced while they run.
OneTape ==
  Published /\ request.base.source.kind = "parquet" =>
    \A i, j \in DOMAIN Runs :
      Runs[i].outcome.status = "ok" /\ Runs[j].outcome.status = "ok" =>
        /\ Runs[i].outcome.tape_sha256 = Runs[j].outcome.tape_sha256
        /\ Pinned(request.base) =>
             Runs[i].outcome.tape_sha256 = FileTape(request.base.source.pin)

\* A batch returns, whatever its runs meet.
BatchReturns == phase # "idle" ~> phase = "idle"
=============================================================================
