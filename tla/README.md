# CodeRadius in TLA+

CodeRadius reads source repositories, asks an LLM what each function does to the outside world, and keeps the
answers in a Memgraph graph.  This directory holds TLA+ models of the parts of it in which order, failure and
concurrency decide whether the graph can be trusted, the TLC configurations that check them, and TLAPS proofs.

    tlc -workers 2 -config MCAIMDSemaphore.cfg MCAIMDSemaphore      # model-check
    tlapm AIMDSemaphoreProofs.tla                                   # prove

## 1. The system

Paths are relative to `src/src/`.  The modules are listed with every part; "-" is not modelled.

| part | where | state it keeps | what makes it correct | module |
|---|---|---|---|---|
| adaptive concurrency semaphore | `utils/aimd-semaphore.ts` | permits out, FIFO queue, limit, congestion window, cooldown timer | permits never exceed what was granted, no lost wakeup, one cut per window, limit in bounds | `AIMDSemaphore`, `PermitPool` |
| congestion control, circuit breakers | `utils/congestion-control.ts`, `utils/connection-health.ts` | per call: attempt; shared: 429 streak, transport failures, probes | a permit is held only around a provider call; a dead endpoint fails fast; every call settles | `CongestionControl` |
| rate limiter | `utils/rate-limiter.ts` | tokens, rate and phase, queue, drain timer, cooldown | tokens not overspent, waiters woken and in order, one cut per cooldown | `RateLimiter` (without the fail-fast window) |
| shutdown controller | `utils/shutdown.ts`, `cli/commands/analyze/code.ts` | signals, hooks with timers, exit | a signal ends the process, whatever is under way | `InterruptedExtraction` |
| incremental code pipeline | `ingestion/processors/code-pipeline/`: orchestrator, file-discovery, contract, static-analyzer(-pass, -task-builder), semantic-extractor, graph-writer; `ingestion/core/merkle*.ts`; `graph/mutations/{merkle,code-graph}.ts` | on disk: files; in the graph: file, function and repository hashes, nodes and edges; per run: plan, tasks, write jobs, deferred tasks, errors | what a later sync skips is complete; what the code no longer has is not live; syncing converges | `IncrementalIngest` |
| parse pool | `code-pipeline/parse-pool.ts` (threads), `process-parse-pool.ts` (processes), `parse-worker*.ts` | workers, queue, outcomes | no file lost, no stale answer, runs settle, also when sends fail | `ParsePool` |
| broker late binding | `graph/mutations/broker-candidates.ts`, `ingestion/processors/{broker-consolidation,service-host-to-dependency-resolver}.ts` | ledger of candidates, brokers, bindings with the run that confirmed them | no hint of a configuration is lost, only contracts clear a review, bindings follow the configuration | `BrokerBinding` |
| channel reconciliation | `ingestion/processors/{channel-autopromoter,channel-broker-convergence,channel-routing-pattern-resolver,dynamic-infra-resolver}.ts`, `graph/mutations/data-contracts.ts` | channels and their edges, live and tombstoned | every use keeps a channel, no function gets a foreign one, runs come to have nothing to do | `ChannelReconcile` |
| semantic extraction, batch pool | `code-pipeline/{semantic-extractor,semantic-batch-extractor,singleton-batch-pool}.ts`, `ai/agents/unified-analyzer.ts` (how its calls end) | groups of functions that wait for company, batches and calls under way, outcomes, deferred functions | every function gets one outcome, its own; no answer is paid for twice; nothing unsolved passes for clean | `ExtractionPromise`, `SemanticExtraction` |
| edge reconciler | `code-pipeline/edge-reconciler.ts` | - | retires only edges the writer would not write | `ChannelReconcile` (channels only; plan 3) |
| grounding, write model | `graph/grounding.ts`, `graph/write-model/` | evidence per node | merge independent of the order of the extractors | - (plan 4) |
| other steps and processors on the finished graph | `ingestion/processors/*.ts`, `workflows/*.ts` | the graph | order of the steps, idempotence | - (plan 5) |
| sink classifier | `ai/agents/sink-classifier/` | budget, cache | budget not exceeded by concurrent calls | - (plan 6) |
| blast radius, drift, graph diff | `graph/queries/`, `eval/` | none | pure algorithms against a reference | - (plan 7) |
| language and structural plugins, value resolution, extractors | `ingestion/core/`, `ingestion/structural/` | per file | large pure syntax analyses | - : data |
| enrichment, LLM agents, policy runner, telemetry, config, CLI, dashboard, MCP, infra | rest | none shared, or nothing reads it back | | - : I/O and presentation |

How they interact.  A sync runs `orchestrator.ts`: discovery hashes the files and compares them with the graph
(`loadMerkleIndex`), the parse pool parses the files that changed, the static pass decides per function what is
cached, the diff soft-deletes what is gone, and the files' functions go in chunks through the LLM.  Every LLM
call passes `withCongestionControl`, and so the rate limiter, the semaphore and the breakers, which the whole
process shares.  On their way to those calls functions are put together, by class, by kind of prompt, and across files in the
batch pool.  Results go to writers that run side by side behind a mutex of width
`MEMGRAPH_WRITE_CONCURRENCY`.  Functions deferred by 429s get one more pass (the drain), and at the end the
repository hash is written if nothing went wrong: the next sync believes that hash.  After every sync the reconcile
workflow rewrites the finished graph in some fifteen steps.  Two stages of it carry state from run to run: the broker stage
(steps 9 to 9b) binds services to brokers by what their environments say, and the channel stage (steps 10 to 12) moves the
channels that the LLM has named onto those brokers.  The next analysis of a function writes its channels as if nothing had
been moved.

What is hard: calls, timers and aborts of the limiter in any order; hashes written before the data they stand for,
while chunks, writers, crashes and later edits interleave; workers whose exit events come after their last messages; graph
rewrites that are sequences of statements without a transaction, feed each other over several runs, and undo what others
have done.  `PROJECT.json` lists these hazards line by line with the properties that cover them.

## 2. The modules

JavaScript runs every callback to its end, so an action is the code from one await (or event) to the next, with
everything it calls; where a model splits such a block, it says so and keeps everybody else out meanwhile.

### PermitPool

What a limiter promises to its callers: at most `capacity` permits are handed out by one step, a caller that waits
gets one or leaves, and the capacity may move.  No queue, no policy.

### AIMDSemaphore

`handle` is the per-caller `release` closure with its `released` flag, `queue` the FIFO of entries, `inFlight`,
`limit`, `streak`, `recovery` the fields of the same meaning.  Clock values are reduced to the comparisons made on
them: `frozen` is `Date.now() < freezeUntil`, `cooldown` that the cooldown timer is armed.  Actions: `AcquireNow`,
`Enqueue` (the two outcomes of `acquire`), `Abandon` (timeout or abort of an entry), `Release`, `RecordSuccess`,
`RecordRateLimit`, `FreezeElapses`, `CooldownEnd`.  `Drain` is `drainQueue()`, part of every action that calls it.

### RateLimiter

The token bucket that every attempt passes before the semaphore.  Time goes in ticks, `Minute` of them a minute, and
tokens are counted in parts of which `Minute` make one, so that a tick at rate r earns r parts and no fractions arise.
`available` and `age` (ticks since `lastRefill`) are the lazy bucket of the code: `Refilled` is what `refill()` would make
of them, and every action that calls `refill()` uses it.  `age` saturates when the bucket is full at any rate
(`FillTime`).  `timer` and `freeze` are the ticks left to the drain timer and to `freezeUntil`; timers are punctual.
Actions: `TakeNow`, `TakeLater`, `Abandon` (abort), `Fire` (`drain()` with its rescheduling), `RecordRateLimit`,
`RecordSuccess` (both with `setRpm()`), `Stats`, `Tick`.  `spent` is no state of the code: it adds what is handed out and
loses what the rate earns, so that `spent <= Capacity(rpm)` says that no stretch of time at one rate sees more than a
burst and the rate.

Not in the module: `shouldFailFast()` with its rolling window (`CongestionControl` takes it as a choice), listeners,
the registry of limiters per domain (they share nothing).

### CongestionControl

One process per LLM call.  `pc` is the await it is at: `take` (rate token), `acquire`, `call`, `sleep`.  Its actions
are made of those of `AIMDSemaphore` (`Sem == INSTANCE`), as the code's calls are of the semaphore's methods: that a behaviour
of the calls is one of the semaphore holds by construction and is no result, but it lets the theorems about the semaphore be used
for the one that the calls share.  `sync` marks the two places where the code
calls the semaphore twice without an await (success then release, release then 429).  The breakers are counters
that saturate at their thresholds, `aged` says that a 429 streak has lasted long enough, and a probe interval is an
action of its own.

`aborted` is the signal that the options of `withCongestionControl()` may carry.  No caller of the program passes one (the
analyzer passes the limiter and the rate domain), so that a shutdown does not reach the calls; the module has the contract.

`MCQueuedCalls` adds a history variable for one property: `queued`, the calls that have stood in line in their present attempt.

### ExtractionPromise, SemanticExtraction

`ExtractionPromise` is what the pipeline relies on when it hands over the functions of a repository: a function that is taken up
gets one outcome and keeps it, a deferred one gets one more try, and only a repository whose functions were all analysed or
turned down ends clean.  Sharing of calls, failures and retries are not in it.

`SemanticExtraction` is how fast scans do it.  `phase` and `chunk` are where each file is in the loop of `orchestrator.ts`,
`group` the groups of the pool, `trips` the batches and single functions whose calls are under way, `task` the outcomes.

| action | code |
|---|---|
| `StartFile`, `NextChunk` | `pLimit`, the chunk loop, and `extractSemantics()` up to its first await: grouping by class, then by kind of prompt, `submit()` to the pool of what is left over (full groups leave at once) |
| `Flush` | the timer of a group |
| `BatchEnds` | a batched call: sections in any order, some missing; nothing usable; quota or connection gone; an agent that cannot be set up |
| `SingleEnds` | a call for one function, on the primary or the fallback model (`analyzeFunction()`, `extractSingleIsolated()`) |
| `Unauthorized` | a refused key, which breaks off the callers, their files and the loop, while other calls go on unheard |
| `Return`, `EndFiles`, `EndDrain` | a chunk's accounting; the single drain of deferred functions, without the pool; its accounting |

`paid` is no state of the code: the functions that the provider has answered for.  What a call does inside
`withCongestionControl()` is `CongestionControl`; here only its end counts.  Embeddings and writes, which follow each chunk, are
in `IncrementalIngest`.  A chunk is a set: functions are numbered in their order, and wherever they are grouped, the left-overs
of a mixed group and the deferred ones included, they are taken in it.  Contracts scans, where every function goes alone and
schemas are extracted, are not modelled.

### InterruptedExtraction

`SemanticExtraction` extended by the shutdown controller and the analyze command around it.  `command` is how far the command
is (its hooks registered, its steps, its finally block), `hook` what became of each cleanup hook, `exit` who reached
`process.exit()` first.  `Interrupt` is the first signal: it aborts the extraction and starts the hooks in one callback;
`ForceExit` any later one; `GracefulExit` the exit after the hooks; `Leave` and `Close` the command's own way out, which runs
beside them.  The abort is seen where the code looks: when a file starts, which breaks off the loop, at the next chunk of a
file, which the file survives with an error, and before the drain.  Calls that are under way are not told.

### IncrementalIngest

One repository over many syncs.  The graph (`func`, `contains`, `sfile`, `repoHash`) survives; `phase`, `plan`,
`todo`, `marked`, `jobs`, `deferred`, `errors` are the memory of one run and are forgotten at its end and in a
crash.  A file's content is one value that also stands for its hash; `Defs` gives the functions in it with their
bodies; `Gated` and `IO` say which bodies pass the static gates and which ones the LLM accepts.

| action | code |
|---|---|
| `StartRun` | discovery and repository fast path (`file-discovery.ts:236-283`), parse and cache decisions (`static-analyzer*.ts`), `newIndex` and diff (`orchestrator.ts:259-300`, `merkle-diff.ts`) |
| `TombstoneFiles`, `DetachFiles`, `TombstoneFuncs`, `DetachFuncs` | `contract.ts`, one action per database statement |
| `Extract(f)` | one chunk of one file: LLM, embeddings, `draftHash`, hand-over to the writers |
| `WriteFile`, `DetachFunc`, `MergeFunc`, `ContainFunc`, `RelateFunc`, `WriteFails` | `graph-writer.ts`, one action per statement, up to `WriteConcurrency` jobs side by side |
| `Drain`, `Commit` | second pass over the deferred tasks, `updateRepositoryHash` |
| `Edit`, `Crash` | the checkout changes between runs; the process dies anywhere in a run |

`Faults` names the failures that may happen and `MaxFaults` how many: `parseFail`, `llmFailed`, `llmDeferred`,
`embedFail`, `writeFail`, `eagerFail` (the write of manifests), `drainFailed`, `drainDeferred`, `crash`.  An embedding can fail
only where the LLM has accepted something to embed (`orchestrator.ts:433`).

`CompleteWhere` and `GhostFreeWhere` say where `CompleteWhenSettled` and `NoGhostsWhenSettled` hold: they restrict the failures
and what edits can do, and are the hypotheses of two theorems (section 4).  `MCSettledIngest` assumes both, so that TLC
evaluates them on the instance of the run `ingest`.

Not in the model: re-extraction forced by tainted symbols or schemas, the expiry of tombstones, several
repositories in one graph, edits during a run (a run works on the snapshot it took), and the second read of a file
by the parse worker.

### ParsePool

The pool's own fields (`pool`, `ready`, `current`, `queue`, `outcome`, `deaths`) and, apart from them, what is really
going on: `thread`, `hand` and `mail` (posted and not yet delivered).  Every handler of the pool is one action; a
thread gets ready, answers, answers unreadably, hangs or dies, and what it posted is delivered before its exit.
Workers are slots: a replacement takes over the slot of the dead worker.  `backend` says whether workers are threads or child
processes, a choice the code makes once.  They differ in two ways: a send to a process that is gone throws (its file
fails and the worker gets no other one until its exit is seen), while a message to such a thread is lost; and only threads
can post an answer that cannot be deserialised.  Two assumptions about Node are in the model: what a child posted arrives
before its exit event, and a send fails only to a child that is dead.

### BrokerBinding

One host, since every lookup, group and merge of the code is keyed by it.  `env` is what the configuration of each service
says (hints); `ledger`, `brokers` and `bonds` are the nodes and edges that survive a run; `pc`, `repos`, `todo`, `rest` and
`target` are the memory of a run.  A broker is its id (provider, virtual host, and whether an earlier version of the id
scheme made it), so that minting one that exists overwrites it, as `MERGE` does.

| action | code |
|---|---|
| `Emit(s)` | step 9 for one service: `mergeBrokerCandidate()` for every hint, one of which may fail and be logged only |
| `Anchor`, `SelfAnchor`, `Converge` and `BindGroup`, `DeclareConfig`, `Residual` | the phases A, B, C, C0, D0, D and E of `bindBrokerCandidates()`, one candidate at a time; each can end the run between its statements (`BindCut`) |
| `NextPhase` | which candidates the next phase gets |
| `Reap` | `reapStaleEnvVarBrokerBindings()` |
| `MergeDuplicate`, `Melt`, `MarkDoubtful`, `Consolidated` | `broker-consolidation.ts`, one merge (a transaction) at a time |
| `Start`, `Crash`, `Edit` | a run over any set of repositories, its end in the middle, a change of configuration between runs |

`said` and `vouched` are no state of the code: what the last emission wrote, and which providers a contract has named.

### ChannelReconcile

`channels` holds the nodes and edges (with their tombstones, which several statements revive), `connections` the bindings; `pass`
and `work` are the pass and the candidates it read at its start.  Every pass applies its candidates one by one, and each candidate is
a sequence of graphs, one after each of its transactions (`Applies`): the run takes the last or ends after an earlier one.
`Promote` is `channel-autopromoter.ts`, `ConvergeChannel` `channel-broker-convergence.ts`, `Route`
`channel-routing-pattern-resolver.ts`, `Extend` and `Absorb` the two welds of `dynamic-infra-resolver.ts`.  The first weld leaves
names of ambiguous depth alone, so that no target of a pass is the source of another candidate of it (`OfOneDepth`).  `Analyse` is a
whole code pipeline for one function as far as channels go: the edge reconciler retires what the analysis did not
derive, promoted edges included, the writer merges logical channels, and orphans are tombstoned.  `Redeclare` reads an
infrastructure file again.  `found` (what the last analysis of each function found), `named` (the names a function was ever
found to use) and `channels.dropped` (the edges that the second weld has deleted for a tombstone) are no state of the code.  `world` fixes which channels configuration declares, for whom, along which routes, and how
services are bound.

### MCReconcile

Both stages in one instance, which extends both modules: a behaviour is about the stage that `stage` names, and the other one rests.  What couples them
in the code is that the bindings of the first are read by the second; here the second starts from bindings that the first
can end with (`world.connections`).

## 3. The runs

Twelve runs, one for each question.  Liveness and safety of a module share a run where its instance is small enough.

| run | what it shows | distinct states |
|---|---|---|
| `semaphore` | types, permit accounting, wakeups, congestion window, order of service, refinement of `PermitPool`, every waiter leaves; two calls of `CongestionControl`: every call settles | 52 000 |
| `rates` | the bucket keeps the rate, waiters have a timer and are served in order, one cut per cooldown, every taker is served | 30 000 |
| `calls` | permits only around calls, three calls with a retry each | 189 000 (symmetry) |
| `extraction` | answers reach their functions, the extraction implements its promise, liveness included, and a signal ends the process | 214 000 |
| `ingest` | what is skipped is complete, nothing gone is live, repeated syncs converge | 1.3 million |
| `ingest_faults` | the commit vouches for every task, up-to-date work is left alone, under any one of nine failures | 1.2 million |
| `pool` | no file lost, no answer of an older run, full strength while files wait, runs settle; threads and processes | 455 000 |
| `reconcile` | hints leave a trace, only contracts clear reviews, bindings follow the configuration; uses are served, by no foreign channel, and runs come to have nothing to do | 815 000 |
| `calls_circuit` (violation) | one permit: the call that waits in line for it when the connection circuit opens reaches the dead endpoint | |
| `ingest_deferred` (violation) | a function deferred twice is never extracted | |
| `ingest_removed` (violation) | a function removed from an otherwise cached file stays live | |
| `pool_blame` (violation) | a file fails through the fate of another one | |

### Bounds

* `semaphore`: four callers and limits 1 to 3 let one drain serve several entries, let a cut leave more calls out
  than the new limit, and keep two entries in line behind one holder.  Three 429s and a factor of 0.7 give two
  successive cuts inside the bounds, so that a second cut in one window would show.
* `rates`: a token takes one to four ticks and a burst holds one to three tokens, so that a drain can serve nobody, some or
  all of three callers; four rates let a rise be followed by a cut and a cut by another; a cooldown of two ticks is
  both shorter and longer than a wait.  Nothing else is bounded: a caller may take again for ever.
* `calls`: three calls so that one holds, one queues and one finds the queue (`MaxQueue = 1`) full; two attempts make
  the retry loop turn; thresholds of one open the circuits early, and all interleavings with three calls remain.
* `ingest`: chunks of one make a two-function file take two chunks and two write jobs; two writers interleave; two edits
  give three snapshots, so that an entry can be cached, changed and cached again.  One failure is enough for any
  step to be the one that fails.  Two failures are a question of their own, because `errors` keeps the repository hash back but not
  the hash of a file: with two, a deferred function and a failed embedding in one file violate `CompleteWhenSettled` (table
  below); a failed function with either of them does not, and the theorem `SettledIsComplete` has that for any number.
* `pool`: three files and two workers, so that a file waits while both work; two deaths include the two in a row that
  end the pool; two runs so that old answers have a run to be mistaken for.
* `semaphore` and the calls: a behaviour is about four callers that come and go at will, or about two calls of
  `withCongestionControl()` with a semaphore of their own, which starts at one permit and has a queue of one, so that one call
  waits for the other.  Three calls (run `calls`) are too many for liveness.
* `extraction`: batches of two, so that a pair can be full and a rest be left; three files for two places; one file with two
  calls, one function that meets another file's in the pool, one batch in which a gate vouches for one member only, one
  function that needs no model; each call ends in every way, on each model, in the main pass and in the drain.  One hook, which
  may hang until its timer fires, and two signals, the first at any moment from the start of the process.
* `reconcile`, brokers: two services of two repositories, so that a group can converge and a run can leave a repository out;
  each has four configurations, one of them empty, so that a binding can lose its reason; among the hints are all four
  grades, a configuration file, and virtual hosts that agree and differ; two brokers of an earlier id scheme give the
  merges work.  One change, one lost candidate and one crash may come at any point.
* `reconcile`, channels: six worlds (nothing declared and both services on one broker; different brokers; a queue declared for
  everybody, for one service, at the end of a route; a topic declared, which makes the weld across kinds drop an edge) and six
  uses that a function can be found to make, so that every pass finds candidates; two analyses let a function lose or change a
  use after its channel was moved, and one crash ends any candidate half-way.

### What the passing runs of the pipeline leave out, and why

`CompleteWhenSettled` and `NoGhostsWhenSettled` do not hold of the whole program.  The run `ingest` checks them where
they hold: `CompleteWhere` and `GhostFreeWhere` name the restrictions, each property needing only its own, and
`MCSettledIngest` assumes both.  Each restriction hides a behaviour of the code:

| restriction of `ingest` | behaviour without it |
|---|---|
| no `drainDeferred`, `drainFailed` | run `ingest_deferred`; a function that fails in the drain is lost in the same way |
| a deferral and a failed embedding, not both | a file has a deferred function, and another of its chunks fails at its embedding: the catch (`orchestrator.ts:496-508`) sets `repoHasErrors` but does not mark the file, the drain then writes the file's good hash, and the next sync takes the file for cached |
| no two snapshots of one hash (`HashIsExact`) | `computeRepoHash()` (`merkle.ts:41`) sorts the hashes of the files and leaves out their paths: after a rename, or when two files swap contents, the repository is passed over and the graph keeps the old paths, and with them the old function ids where ids carry the path (TypeScript, JavaScript) |
| each content of a file has a body of its own (`OwnBody`) | an edit that only removes a function, or a part of it: run `ingest_removed` |
| no `parseFail` | the file is treated as a cache hit, its mark is never written, and the repository hash is committed (`static-analyzer-pass.ts:250`; the comment at 240-242 says the next sync retries): `CompleteWhenSettled` fails at the first commit |
| no `crash`, `writeFail` | a good file or function hash over functions or edges that were not written (`graph-writer.ts:829`, `572`), which the next sync takes for cached |
| no `eagerFail` | a manifest that was not written, under a committed hash (`orchestrator.ts:355`) |
| a checkout never goes back (`Reverts = FALSE`) | after a failed run the checkout goes back to the content committed before, and the repository is passed over (`file-discovery.ts:253`) |
| no function that moves | the CONTAINS edge of the file it left is never retired and keeps it live (`orchestrator.ts:275`).  Where ids carry the path a function cannot move; PHP and Python ids do not |
| one source always stays | with no source left the diff is skipped (`orchestrator.ts:263`) |
| no rewrite that the LLM rejects of a function it had accepted | the node of the old body stays (`semantic-extractor.ts:704`) |

`ingest_faults` has moves, reverts, rejections and all nine failures.  What still holds there is weaker and exact:
a repository hash is never committed in a run that lost one of its own tasks, and no run damages what it did not
plan to write.

### Fairness

* `AIMDSemaphore.FairSpec`: a held permit is released (`withCongestionControl` does so on every path, and
  `PermitsOnlyAroundCalls` checks it), the freeze elapses, and an armed timer fires.  Nobody is obliged to acquire,
  to succeed or to give up.
* `RateLimiter.FairSpec`: time passes and an armed timer fires.  Nobody is obliged to take, to report or to abort.
* `CongestionControl.FairSpec`: every await of a call settles except the one in the queue, which nothing but an abort ends
  for sure; the provider answers or fails (calls have a timeout, `AbortSignal.timeout()`).
* `InterruptedExtraction.FairSpecAll`: the command registers its hooks; the loop goes on; some call of those under way ends, and
  some timer of the pool fires (there are finitely many); every hook settles or its timer fires; the exit after the hooks comes.
  The command's own way out is not assumed.
* `IncrementalIngest.FairSpec`: a run goes on, since all its awaits settle, and syncs are repeated.  Edits and failures
  are bounded, so "eventually none any more" is part of the instance; `SyncsConverge` is about syncs that are not forced
  for ever, since a forced one always finds work.
* `BrokerBinding.FairSpec`, `ChannelReconcile.FairChannelSpec` (conjoined in `MCReconcile.FairSpecAll`): a run that has started takes its
  steps; every repository is analysed again and again, and there is always another run.  `BindingsFollowConfiguration` needs
  the runs over each repository: a run that leaves it out neither confirms nor reaps its bindings.  These are strong
  fairness conditions because a run can be started only between runs.
* `ParsePool.FairSpec`: posted messages and exits are delivered, `terminate()` takes effect, the watchdog comes round, and
  a thread that starts gets ready or dies.  The last one is a real assumption: the watchdog looks only at workers
  that hold a file (`parse-pool.ts:207`), so a thread that neither loads nor dies stalls the run.

## 4. The proofs

### The semaphore

`AIMDSemaphoreProofs` proves, for any finite set of callers and any options the constructor accepts:

| theorem | statement |
|---|---|
| `TypeCorrect` | `Spec => []TypeOK` |
| `PermitsAreCounted` | `Spec => []PermitAccounting` |
| `NobodyIsForgotten` | `Spec => []NoLostWakeup` |
| `LimitStaysInBounds` | `Spec => []LimitWithinBounds`, if `MinLimit <= HardMaxOpt` |
| `WindowHolds` | `Spec => CongestionWindow` |
| `LineIsFair` | `Spec => FirstComeFirstServed` |
| `ImplementsPermitPool` | `Spec => IsPermitPool` |

The inductive invariant is `Ind == TypeOK /\ PermitAccounting /\ NoLostWakeup`.  `PermitAccounting` is not inductive
without the types, and its first conjunct (`inFlight` is the number of holders) needs the other two: a drain of n
entries adds n holders only because the entries are distinct and none of them holds a permit already.  The work is in
three lemmas: `LuckyCount` (the clients of the first n entries are n), `DrainAccounts` (a drain keeps the accounting)
and `DrainWakes` (after a drain either the queue is empty, the limit is reached, or the freeze is on, and then
the timer is armed).  The lemmas `Slice`, `Suffix`, `Prefix` and `Splice` say what parts of a queue contain.  The refinement
shows that each step maps to one step of `PermitPool` or to a stutter; its hard part is that a drain hands out at
most `capacity - |holding|` permits.

`LimitStaysInBounds` has a hypothesis because the code does not establish it: the constructor clamps the initial limit
and the soft maximum to `hardMaxLimit`, but not `minLimit`, so that with a hard maximum below the minimum a 429
raises the limit above it (`aimd-semaphore.ts:159`, `315`).

### The rate limiter

`RateLimiterProofs` proves, for any callers, any granularity of time and any options the constructor accepts:

| theorem | statement |
|---|---|
| `RateTypeCorrect` | `Spec => []TypeOK` |
| `BucketKeepsTheRate` | `Spec => []RateIsKept` |
| `TakersAreTimed` | `Spec => []WaitersAreTimed` |
| `CooldownHolds` | `Spec => OneCutPerCooldown` |
| `LineIsServedInOrder` | `Spec => ServedInOrder` |

Here the inductive invariant needs three strengthenings, each a fact about the code.  `BucketCovers` (what was spent
and what the bucket holds fit into one capacity) carries `RateIsKept`: a take moves parts from one to the other, and a
tick takes the rate from the first and adds at most the rate to the second.  `TimerIsShort` bounds the timer also when
nobody is in line, because an abort leaves the timer armed and the next caller inherits it.  `FreezeEndsSlowStart` (a
cooldown is on only after slow-start) is what forbids a rise during a cooldown: the code checks `freezeUntil` only in
avoidance.  The arithmetic is in `CeilDivBounds`, `WholeTokens`, `OneMoreTick` and `CapacityBounds`; after these a capacity
is an opaque number of at least one token.

### The brokers

`BrokerBindingProofs` proves, for any services, repositories, environments and finite sets of providers and virtual hosts:

| theorem | statement |
|---|---|
| `BrokersTypeCorrect` | `Spec => []TypeOK` |
| `ReviewsAreClearedByContract` | `Spec => []CleanByContract` |
| `HintsAreTraced` | `Spec => []HintsLeaveATrace` |

None of the three is inductive.  The types need `OnePlace`: a candidate is in `todo` or in `rest`, never in both, or a phase would
hand on what another has consumed.  `CleanByContract` needs the ledger to be sound (`SoundLedger`): a candidate of a contract
grade has a provider that was named, a configuration lane comes with such a grade, and a service has one candidate per
virtual host, so that merging hints into it (`MergedIsSound`) cannot pair the provider of one with the grade of another.
`HintsLeaveATrace` needs to know before the reaper runs what it will spare (`FirmTraces`): from its emission on, a hint of an
analysed repository has a candidate in the ledger, a binding stamped by this run, or one from a configuration file; and it
needs that a group binds to a broker of its virtual host (`GroupAgrees`), which `SpotIsSound` gets from the two cardinalities
that convergence tests.  The assumptions are those of `BrokerAssumption`: hints are well formed (a provider is missing exactly
for the lowest grade; configuration files declare), and the sets of providers and virtual hosts are finite.

### The extraction

`ExtractionProofs` proves, for any files, chunks, classes, keys and limits, any size of a batch from two on, any finite set of
hooks and any number of signals:

| theorem | statement |
|---|---|
| `ExtractionTypeCorrect` | `SpecAll => []TypeOK` |
| `AnswersArrive` | `SpecAll => []AnswersReachTheirTasks` |
| `PromiseKept` | `SpecAll => Promised!Spec`: the extraction, interrupted or not, implements `ExtractionPromise` (safety) |
| `CleanEndsAreSolved` | a clean end means that every function is analysed or turned down, and stays so |
| `DrainIsTheLastTry` | after its second try no function is deferred again |

`TypeOK` and `AnswersReachTheirTasks` are not inductive: who is in one trip only depends on how the groups were made, and whose
an answer is depends on what the trips hold.  The argument has three layers.

* Grouping.  `Batches(bs, ts)`: the sequences `bs` are non-empty, at most a batch long, made of members of `ts`, and no function
  is in two of them or twice in one.  Slices of a sequence without repetitions are such (`SlicesAreBatches`, which needs that two starts,
  both 1 modulo the size of a batch, are a whole batch apart), hence the groups by class and by key; what is alone in one grouping goes on to
  the next (`LeaveAlone`, `CallBatches`); and full groups of the pool share nobody with what stays (`PoolBatches`).
* `IInv`.  Functions that wait or travel are open, wait in one group or travel on one trip; trips are disjoint; in a batch under
  way nobody has an outcome yet; an outcome that counts as good is of its own function; whoever is paid for has a good outcome, or is open
  and not waiting, and the trip that has it, if any is left, holds a good one for it; the functions of a file that are idle are
  exactly those of the chunks it has not come to.  `Proceeds`, which all ends of calls share, is treated once (`ProceedsKeeps`).
* `LoopInv`, for the promise.  As long as the loop is not broken off, an open function belongs to the current chunk of a
  file in its call, or to the drain; without an error, nothing that was looked at has failed and every file that is over came to its
  end; with an error, some function has failed or some file stopped before its end.  So the end of the loop tells the truth (`ErrorsAreTold`).

The last two theorems follow from `PromiseKept` and the abstract specification alone.  What is assumed: `ExtractionAssumption`,
`ChunksAssumption` (each function is in one chunk, and only the first chunk of a file may be empty: `orchestrator.ts:373-379`) and
`ShutdownAssumption`.  The second half of `KeepsPromise`, that what was taken up settles, is liveness and stays with TLC.

### The calls

`CongestionControlProofs` proves, for any finite set of calls, any thresholds and any options of the semaphore:

| theorem | statement |
|---|---|
| `NoCallIsForgotten` | `Spec => []SemaphoreOK`: the semaphore's types, accounting and wakeup condition, under its real callers |
| `CallsTypeCorrect` | `Spec => []TypeOK` |
| `PermitsAreOutAroundCalls` | `Spec => []PermitsOnlyAroundCalls` |

Because every step of the retry loop is a step of the semaphore or leaves it alone (`CallStep`, `CallsUseSemaphore`), what
`AIMDSemaphoreProofs` proves is used here through `Proved == INSTANCE AIMDSemaphoreProofs`, not proved again; the lemmas `Same...` say that the two
instances define the same.  The types need `SleepersMayRetry` (a call sleeps only with an attempt left, or its counter would
pass the maximum).  `PermitsOnlyAroundCalls` needs `Positions`: where a call is, where the semaphore has it (in line, holding,
neither), and what stands between the two inside a synchronous block.  A drain moves permits among calls that do not move
themselves; `Moves` says how (only from the line to a permit), and `DrainMoves`, `ReleaseMoves` and `StayMoves` that every
operation of the semaphore keeps to it.

### The parse pool

`ParsePoolProofs` proves, for any finite sets of files and workers and any bounds:

| theorem | statement |
|---|---|
| `PoolTypeCorrect` | `Spec => []TypeOK` |
| `NoTaskIsLost` | `Spec => []NoTaskLost` |
| `ParsedIsParsedNow` | `Spec => []ParsedInThisRun` |
| `WorkersStayBusy` | `Spec => []WorkersKeepBusy` |

`NoTaskLost` speaks of the pool's tables only, but is not inductive without what is under way: an answer taken from the mail is
recorded for the task that the pool believes the worker to hold, so that belief and mail must agree.  `Ind` has `Accounts` (each
file without an outcome is in the queue or with one worker, and in no two places), `QuietBetweenRuns` (nobody holds a file when a
run starts), and `Agrees`: a worker has at most one message on its way, it holds nothing then, and the message is `Expected`,
that is, about the current task of this run.  That is why no late answer counts: a replaced worker's mail went with its slot.

### The pipeline

`IncrementalIngestProofs` proves, for any finite repository, any contents and bodies, any chunk size and number of writers, and
any number of edits and failures:

| theorem | statement |
|---|---|
| `IngestTypeCorrect` | `Spec => []TypeOK` |
| `TasksReachTheGraph` | `Spec => []CommitVouchesForTasks` |
| `UpToDateWorkStays` | `Spec => UpToDateWorkIsKept` |
| `SettledIsComplete` | `Spec => []CompleteWhenSettled`, if `CompleteWhere` |
| `SettledHasNoGhosts` | `Spec => []NoGhostsWhenSettled`, if `GhostFreeWhere` |

The commit looks at one flag, `errors`, and vouches for many tasks.  `NothingLost` is what carries it through a run: as long as
there was no error, each task of the plan that the LLM will accept is pending (in `todo`, deferred, or in a job) or `Written`.
It needs `WorkOK` (everything under way stems from the plan, and the drain leaves nothing deferred behind) and `WritesOK`, which
says what a job that has got to a given statement has already put into the graph (`InStep`): writers interleave, and each of
their statements must find the effect of the ones before it in place.  Both need function ids to be unique in the snapshot
(`PlanOK`), for one job's `DetachFunc` would else undo another job's edges.  `SparesWritten` is for the action property: the
soft-deletes of an incremental run spare what is up to date.  The assumptions say that the contents define functions with known
bodies, that what the LLM accepts passes the gates (`BodiesAssumption`), and that function ids are unique in the first
checkout (`CheckoutAssumption`), as `Edit` has it of every later one.

The last two theorems are about what survives from sync to sync, and their hypotheses are constants' conditions that the
code does not establish: what section 3 shows to go wrong otherwise.  TLC evaluates them before the run `ingest`.  Both
rest on `HInv`: `Remembered` says that the repository hash is that of an earlier snapshot and the hash of a file node that of
an earlier content (or `Incomplete`), `RightHeads` that a job writes into a file node the hash of its content or `Incomplete`.
Because a checkout never goes back and the hash is exact, an edit makes a committed hash differ from the checkout's
(`EditUnsettles`), and "settled" always means "committed with this content".

* `CInv`, for `SettledIsComplete`.  Three caches can make a sync skip something, and each has a conjunct that says what it vouches
  for: the function hash (`EdgesFollow`: the edges are those of the hash, or a writer is at the function), the file hash
  (`GoodFiles`: what is missing is deferred or in a job) and the repository hash (`MatchComplete`).  `FinalHeads` says the
  second of a good hash that is still in a job, `OpenFiles` that a file that is not through yet has lost nothing unless it is
  marked, and `GoodFilesRest` that no writer is at a good file with chunks still to come before its node is poisoned.  `PlanComplete` is
  what a plan leaves out; `ManifestsFollow` the same for manifests, which an eager job writes.  `DeferredCounted` is where the
  hypothesis that a deferral and a failed embedding exclude each other enters.
* `GInv`, for `SettledHasNoGhosts`.  What is alive was accepted by the LLM (`CarriesIO`, `LiveIsIO`).  In a run, it is in the code, or
  about to be retired, or at a writer (`LiveBelongs`); between two runs it has its file (`LiveReached`), and either it is in the
  code or its file will be found changed and all its functions stem from earlier contents (`CleanOrOutdated`).  This needs to know
  where links and hashes come from (`LinksStem`, `HashesStem`), so that a body of its own (`OwnBody`) makes a new content
  a file that is planned again.  `GoneRetired` is about files that are gone, `MatchClean` about a repository hash that matches.

### The channels

`ChannelReconcileProofs` proves, for any functions, brokers, names, worlds and findings:

| theorem | statement |
|---|---|
| `ChannelsTypeCorrect` | `ChannelSpec => []ChannelTypeOK` |
| `ChannelsAreOwn` | `ChannelSpec => []OnlyOwnChannels` |
| `ChannelsServeUses` | `ChannelSpec => []UsesAreServed` |

`OnlyOwnChannels` speaks of live edges and is not inductive: the suffix weld revives tombstoned ones.  `Sound` has it for every
edge.  `UsesAreServed` is not inductive either, because a pass reads its candidates once and applies them one by one, in
transactions between which it may end.  `Apt` says what a candidate that is still to come can rely on although others went
before: the channel it moves edges to is live.  For the routing and suffix passes this needs that no candidate's target is
another one's source: a route leads from an undeclared channel to a declared one, and the suffix weld leaves names of ambiguous
depth alone.  Each statement is then shown to carry the graph before it to the graph after it (`Carries`: every live edge to a live channel has a
live follower for the same use, or was dropped for a tombstone): lemmas `UpsertKeeps`, `TombstoneKeeps`, `DetachKeeps`,
`MovedKeeps`, `CopiedKeeps`, `RewiredKeeps`, one for each kind of statement; a pass is a composition of them, at whichever
of its transactions it ends (`AppliesKeeps`).

### What is only model-checked

* Every liveness property (`EveryWaiterLeaves`, `CallsSettle`, `EveryTakerIsServed`, `SignalEndsProcess`, `SyncsConverge`,
  `RunSettles`, `RunsSettle`, `BindingsFollowConfiguration`, and `Settles` in `KeepsPromise`): fairness and ENABLED are outside the
  prover.

Every invariant and every safety action property of a passing run has a theorem.

## 5. Properties worth knowing

* `NoLostWakeup`: whoever could be served is served by the method that made room, or the armed cooldown timer will.
* `FirstComeFirstServed`: queue order, with the one exception the code has: between the end of a freeze and its timer a
  newcomer passes the line.
* `RateIsKept`: aborts, drains and idle time never add up to more than the rate and one burst.
* `CallsSettle`: whoever waits in the queue gets its turn, because every other call gives back its permit in time.
* `AnswersReachTheirTasks`: whatever company a function travels in, the answer that was paid for is used, and for that function.
* `KeepsPromise`: the refinement of `ExtractionPromise`; whatever fails, nothing open, failed or dropped passes for clean.
* `SignalEndsProcess`: hanging hooks and a hanging provider do not hold up a process that got a signal.
* `CompleteWhenSettled`, `NoGhostsWhenSettled`: what skipping a repository relies on.
* `CommitVouchesForTasks`, `UpToDateWorkIsKept`: what survives every failure.
* `WorkersKeepBusy`: while files wait, the pool is at full strength and every ready worker holds a file, unless a failed send
  has shown its death.
* `HintsLeaveATrace`, `CleanByContract`, `BindingsFollowConfiguration`: what a reader of the graph may believe of a binding.
* `UsesAreServed`, `OnlyOwnChannels`, `RunsSettle`: the same of channels, and that a second run is a no-op in the long run
  (`reconcile.workflow.ts:5-6`).

Behaviours of the extraction and its shutdown that the models show, or that were met while modelling, and no property forbids:

* The header of `shutdown.ts` (4-7) says that LLM backoff sleeps and queued callers of the semaphore fail fast on Ctrl+C.  No
  call of `withCongestionControl()` in the analyzer passes the signal (`unified-analyzer.ts:1488`, `1651`, `1720`).
* The command that the abort has failed may reach its own `process.exit()` (`cli/commands/analyze/code.ts:460`) while hooks
  run: exit code 0 or 1 instead of 130.
* An error of the connection that speaks of a timeout ("connect timeout" is one, `congestion-control.ts:81`) defers the members
  of a batch, while on the single path the same error is taken for the call's own deadline and the function fails
  (`unified-analyzer.ts:1894-1910`); the comment at 1656-1660 has the caller defer it.
* `AnswersReachTheirTasks` assumes that the work on an answer (`processAnalysisOutcome()`, in `Promise.all` over the members of a
  batch, `semantic-extractor.ts:631-644`) does not throw.  If it did for one member, `handleExtractionError()` (721-745)
  would fail all members of the batch, those included whose answers had arrived.
* A function that a gate has confirmed must not be turned down by the model (`unified-analyzer.ts:1785-1787`).  In a batch with a
  member that is not confirmed it can be: has_io is forced only if all members are (`semantic-extractor.ts:590`).
* The writer looks up the alias of the name that the environment resolves (`interpret/message-channel.ts`), the edge reconciler the alias
  of the raw name (`edge-reconciler.ts:93-104`): an edge of a channel with both is retired in the pass that writes it.

Behaviours of the two reconcile stages that the models show and no property forbids:

* A tombstoned edge comes back: the suffix weld copies edges without looking at `valid_to_commit` and makes them live
  (`dynamic-infra-resolver.ts:272-277`).  The function is again credited with a use that its last analysis did not find.
* The weld across kinds does the opposite: an edge that the surviving topic already has, tombstoned, stays so, while the live
  edge of the queue is deleted (`dynamic-infra-resolver.ts:454-473`).  `UsesAreServed` excepts exactly these edges (`Dropped`).
* Once a topic has absorbed a queue, the `mergedFrom` guard (line 425) keeps a queue of that name apart for good when a later
  analysis writes it again; the two then stay side by side.
* Promoting another logical channel onto a channel that convergence has moved writes its broker back to the host-only one
  (`data-contracts.ts:499`), until the next convergence.
* Which provider a binding ends with can depend on the order in which services are analysed: a candidate left in the ledger
  keeps its provider against a changed configuration of the same rank, and a residual mint over a clean broker of the same
  id puts it back under review.
* Bindings of configuration files are never reaped, and brokers go only by merges.

### Not modelled

* Channels: technologies and their compatibility, routing keys and consumer groups (the properties of an edge), review flags,
  HOSTED_ON, MANIFESTS_AS, CARRIED_BY and HAS_SCHEMA edges, channels that survive as schema anchors, the binding of channel
  connections (step 9c), the technology weld and the cleanup of reviews (steps 13 and 14).
* Brokers: more than one host, ports, candidates of services that are gone (garbage collection).  Ties between hints of one rank
  at one virtual host are left to chance, as is the order of candidates.
* The pipeline: see `IncrementalIngest` and `SemanticExtraction` in section 2.
* The parts marked "-" in section 1: syntax analyses, prompts and presentation are data to every property here; the others
  are in the plan.

## 6. Plan

Models, in order of importance.  A new module joins the run of the stage it belongs to.

1. `CongestionControl` over `RateLimiter` instead of a plain await, with the fail-fast window (`shouldFailFast`, `floorSince`).
   With it the promise of `rate-limiter.ts:245` ("a higher rate ... can free queued waiters sooner"), which
   `scheduleDrain()` (273) does not keep while a timer is armed.
2. Contracts scans in `SemanticExtraction`, with their schemas, and the extraction inside `IncrementalIngest`, which now chooses
   outcomes freely: `ExtractionPromise` is the interface.
3. The edge reconciler for all kinds of edges, against the writer that derives them on its own.
4. Grounding and write model as an algebra: merge commutative, associative, idempotent on bounded evidence.
5. The remaining steps of the reconcile workflow; symbol taint, tombstone expiry, two repositories in one graph.
6. Sink classifier budget and cache under concurrent calls.
7. Blast radius, drift classification and graph diff against reference definitions.

Proofs: the invariants of the models of 1 to 3, and how far the hypotheses of `SettledIsComplete` and `SettledHasNoGhosts` can be
weakened once the behaviours of the table in section 3 are mended, row by row.
