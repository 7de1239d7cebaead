-------------------------- MODULE IncrementalIngest --------------------------
(***************************************************************************)
(* The incremental code pipeline for one repository                        *)
(* (src/src/ingestion/processors/code-pipeline/orchestrator.ts and what it *)
(* calls): discovery and the Merkle comparison, the plan, the soft-deletes *)
(* of the contract phase, extraction in chunks, the concurrent graph       *)
(* writers, the drain of the deferred tasks and the commit of the          *)
(* repository hash.  The graph keeps its data between runs; everything     *)
(* else is the memory of one run and is gone after a crash.                *)
(*                                                                         *)
(* A file's content is one value of Contents, which also stands for its    *)
(* hash; Defs gives the functions it defines and the body of each, which   *)
(* also stands for the function's hash and for the edges it yields.        *)
(***************************************************************************)
EXTENDS Naturals, Sequences, FiniteSets

CONSTANTS
    Sources, Manifests,   \* the paths, by what the file router makes of them
    Funcs,                \* function ids
    Bodies,               \* function sources
    Gated,                \* the bodies that pass the static gates
    IO,                   \* the ones of them the LLM finds to do I/O
    Contents,             \* file contents
    Defs,                 \* per content, the functions it defines: [ids -> Bodies]
    Checkout,             \* per path, its content at the first sync
    Variants,             \* per path, the contents it may take (Absent: no file)
    ChunkSize,            \* CHUNK_SIZE
    WriteConcurrency,     \* MEMGRAPH_WRITE_CONCURRENCY
    Faults,               \* the failures that may happen
    Reverts,              \* whether a file may go back to an earlier content
    Forced,               \* the values of --force the users pass
    MaxEdits, MaxFaults   \* bounds on the edits and failures of one behaviour

Absent     == "absent"
Incomplete == "incomplete"    \* INCOMPLETE_DUE_TO_ERROR and INCOMPLETE_<hash>
None       == "none"
Null       == <<>>            \* a value that is not there yet
Files      == Sources \cup Manifests

ASSUME PathsAssumption == Sources \cap Manifests = {} /\ IsFiniteSet(Files)
ASSUME BodiesAssumption == IO \subseteq Gated /\ Gated \subseteq Bodies /\ None \notin Bodies
ASSUME DefsAssumption ==
    /\ DOMAIN Defs = Contents
    /\ \A c \in Contents : DOMAIN Defs[c] \subseteq Funcs /\ \A fn \in DOMAIN Defs[c] : Defs[c][fn] \in Bodies
    /\ {Absent, Incomplete, None} \cap Contents = {}
ASSUME VariantsAssumption ==
    /\ Variants \in [Files -> SUBSET (Contents \cup {Absent})]
    /\ Checkout \in [Files -> Contents \cup {Absent}]
    /\ \A f \in Files : Checkout[f] \in Variants[f]
ASSUME BoundsAssumption ==
    /\ {ChunkSize, WriteConcurrency} \subseteq Nat \ {0}
    /\ {MaxEdits, MaxFaults} \subseteq Nat
    /\ Reverts \in BOOLEAN /\ Forced \subseteq BOOLEAN

VARIABLES
    disk,       \* per path, its content
    seen,       \* per path, the contents it has had
    func,       \* the Function nodes: live, sourceHash, and the body its live edges stem from
    contains,   \* the live CONTAINS edges from source files to functions
    sfile,      \* the SourceFile nodes: live, fileHash
    repoHash,   \* Repository.repoHash
    phase,      \* where the run is
    plan,       \* what discovery, analysis and diff decided for the run
    todo,       \* per source, the analysis tasks not extracted yet
    marked,     \* the sources whose in-memory fileHash is INCOMPLETE_DUE_TO_ERROR
    jobs,       \* the write jobs handed to writeMutex, in order
    deferred,   \* deferredForRepo, as <<source, function>>
    errors,     \* plan.repoHasErrors
    edits, faults

world == <<disk, seen, edits>>
graph == <<func, contains, sfile, repoHash>>
run   == <<phase, plan, todo, marked, jobs, deferred, errors>>
vars  == <<disk, seen, edits, func, contains, sfile, repoHash,
           phase, plan, todo, marked, jobs, deferred, errors, faults>>

Least(m, n) == IF m <= n THEN m ELSE n

\* The failures in the set kinds happen in this step.
Strike(kinds) ==
    /\ kinds \subseteq Faults
    /\ faults + Cardinality(kinds) <= MaxFaults
    /\ faults' = faults + Cardinality(kinds)
If(condition, kind) == IF condition THEN {kind} ELSE {}

--------------------------------------------------------------------------------
\* What a snapshot of the disk holds.

Present(v, paths) == {f \in paths : v[f] # Absent}
DefinedIn(v, f)   == IF v[f] = Absent THEN {} ELSE DOMAIN Defs[v[f]]
Body(v, f, fn)    == Defs[v[f]][fn]

\* A function id stays unique in the repository.
UniqueIds(v) ==
    \A f, g \in Sources : DefinedIn(v, f) \cap DefinedIn(v, g) # {} => f = g
ASSUME CheckoutAssumption == UniqueIds(Checkout)

\* computeRepoHash(): over the sorted file hashes, whatever the paths.
HashOf(v) == [c \in Contents |-> Cardinality({f \in Files : v[f] = c})]

\* loadMerkleIndex(): live files and their live functions.
Indexed == {f \in Files : sfile[f].live}
IndexedFuncs(f) ==
    {fn \in Funcs : f \in Indexed /\ <<f, fn>> \in contains /\ func[fn].live}

--------------------------------------------------------------------------------
\* Analysis of the snapshot v.

\* The whole-file cache.
FileHit(v, f, force) == ~force /\ f \in Indexed /\ sfile[f].hash = v[f]

\* The function cache inside a file that changed.
Mutant_Unchanged_ById(v, f, force) ==
    {fn \in DefinedIn(v, f) : ~force /\ fn \in IndexedFuncs(f)}
Unchanged(v, f, force) ==
    {fn \in DefinedIn(v, f) :
        ~force /\ fn \in IndexedFuncs(f) /\ func[fn].hash = Body(v, f, fn)}

Changed(v, f, force) == DefinedIn(v, f) \ Unchanged(v, f, force)
TasksOf(v, f, force) == {fn \in Changed(v, f, force) : Body(v, f, fn) \in Gated}

\* The files that end up in cacheHitResults: cached, broken in the parse worker,
\* or with nothing left to do.
CacheHits(v, force, broken) ==
    {f \in Present(v, Sources) :
        \/ FileHit(v, f, force)
        \/ f \in broken
        \/ DefinedIn(v, f) # {} /\ Changed(v, f, force) = {}}

\* The functions newIndex lists for a file.
Mutant_Kept_NoCacheHits(v, force, broken, f) ==
    IF f \in CacheHits(v, force, broken)
    THEN {}
    ELSE TasksOf(v, f, force) \cup Unchanged(v, f, force)
Kept(v, force, broken, f) ==
    IF f \in CacheHits(v, force, broken)
    THEN IndexedFuncs(f)
    ELSE TasksOf(v, f, force) \cup Unchanged(v, f, force)

\* diffMerkleIndexes(): files gone (newIndex has no manifests), and functions in
\* no file any more.  Skipped when no source was analysed or cached.
DeletedFiles(v) ==
    IF Present(v, Sources) = {} THEN {} ELSE Indexed \ Present(v, Sources)

Mutant_DeletedFuncs_None(v, force, broken) == {}
DeletedFuncs(v, force, broken) ==
    IF Present(v, Sources) = {} THEN {}
    ELSE (UNION {IndexedFuncs(f) : f \in Files})
            \ (UNION {Kept(v, force, broken, f) : f \in Present(v, Sources)})

NoPlan == [snap |-> [f \in Files |-> Absent], force |-> FALSE, delFiles |-> {},
           delFuncs |-> {}, tasks |-> [f \in Sources |-> {}]]

MakePlan(v, force, broken) ==
    [snap |-> v, force |-> force,
     delFiles |-> DeletedFiles(v),
     delFuncs |-> DeletedFuncs(v, force, broken),
     tasks |-> [f \in Sources |->
                  IF f \in CacheHits(v, force, broken) THEN {} ELSE TasksOf(v, f, force)]]

--------------------------------------------------------------------------------
NoNode == [live |-> FALSE, hash |-> None]

Init ==
    /\ disk = Checkout
    /\ seen = [f \in Files |-> {disk[f]}]
    /\ func = [fn \in Funcs |-> [live |-> FALSE, hash |-> None, edges |-> None]]
    /\ contains = {}
    /\ sfile = [f \in Files |-> NoNode]
    /\ repoHash = Null
    /\ phase = "idle"
    /\ plan = NoPlan
    /\ todo = NoPlan.tasks
    /\ marked = {}
    /\ jobs = <<>>
    /\ deferred = {}
    /\ errors = FALSE
    /\ edits = 0
    /\ faults = 0

\* Someone changes the checkout.
\* A run works on the snapshot it took, so an edit during a run is one after it.
Edit ==
    /\ phase = "idle"
    /\ edits < MaxEdits
    /\ edits' = edits + 1
    /\ \E changed \in (SUBSET Files) \ {{}} :
         /\ disk' \in {v \in [Files -> Contents \cup {Absent}] :
                         \A f \in Files : IF f \in changed THEN v[f] \in Variants[f] \ {disk[f]}
                                                           ELSE v[f] = disk[f]}
         /\ Reverts \/ \A f \in changed : disk'[f] \notin seen[f]
    /\ UniqueIds(disk)'
    /\ seen' = [f \in Files |-> seen[f] \cup {disk'[f]}]
    /\ UNCHANGED <<graph, run, faults>>

--------------------------------------------------------------------------------
\* A write job: the SourceFile nodes to write with their hashes, the tasks whose
\* functions follow, the function under way and its next statement.  The relinking
\* of unchanged functions and cache hits (graph-writer.ts) writes edges that are
\* there already: an indexed function has them, and the contract phase detaches
\* only files that are gone.
Job(kind, heads, tasks) ==
    [kind |-> kind, heads |-> heads, tasks |-> tasks, at |-> Null, step |-> "detach"]

\* The write of the manifests, first in the queue of the execution phase.
EagerJobs(v) ==
    LET present == Present(v, Manifests)
    IN  IF present = {} THEN <<>>
        ELSE <<Job("eager", [f \in present |-> v[f]], {})>>

AfterFiles(p) == IF p.delFuncs # {} THEN "tombstoneFuncs" ELSE "extract"
FirstPhase(p) == IF p.delFiles # {} THEN "tombstoneFiles" ELSE AfterFiles(p)

\* The repository fast path: nothing changed since the last committed run.
RepoHit(v, force) == ~force /\ repoHash = HashOf(v)

\* A sync starts: discovery, parse and diff, up to the first soft-delete.  A
\* repository without a file has no result at all and is passed over.
StartRun(force) ==
    /\ phase = "idle"
    /\ ~RepoHit(disk, force)
    /\ Present(disk, Files) # {}
    /\ \E broken \in SUBSET Present(disk, Sources) :
         /\ Strike(If(broken # {}, "parseFail"))
         /\ plan' = MakePlan(disk, force, broken)
    /\ phase' = FirstPhase(plan')
    /\ todo' = plan'.tasks
    /\ jobs' = EagerJobs(disk)
    /\ UNCHANGED <<world, graph, marked, deferred, errors>>

\* contractDeletedFiles(): the nodes, then their CONTAINS edges.
TombstoneFiles ==
    /\ phase = "tombstoneFiles"
    /\ sfile' = [f \in Files |-> [sfile[f] EXCEPT !.live = @ /\ f \notin plan.delFiles]]
    /\ phase' = "detachFiles"
    /\ UNCHANGED <<world, func, contains, repoHash, plan, todo, marked, jobs, deferred, errors, faults>>

DetachFiles ==
    /\ phase = "detachFiles"
    /\ contains' = {e \in contains : e[1] \notin plan.delFiles}
    /\ phase' = AfterFiles(plan)
    /\ UNCHANGED <<world, func, sfile, repoHash, plan, todo, marked, jobs, deferred, errors, faults>>

\* contractDeletedFunctions(): the nodes, then their outgoing edges.
TombstoneFuncs ==
    /\ phase = "tombstoneFuncs"
    /\ func' = [fn \in Funcs |-> [func[fn] EXCEPT !.live = @ /\ fn \notin plan.delFuncs]]
    /\ phase' = "detachFuncs"
    /\ UNCHANGED <<world, contains, sfile, repoHash, plan, todo, marked, jobs, deferred, errors, faults>>

DetachFuncs ==
    /\ phase = "detachFuncs"
    /\ func' = [fn \in Funcs |->
                  IF fn \in plan.delFuncs THEN [func[fn] EXCEPT !.edges = None] ELSE func[fn]]
    /\ phase' = "extract"
    /\ UNCHANGED <<world, contains, sfile, repoHash, plan, todo, marked, jobs, deferred, errors, faults>>

--------------------------------------------------------------------------------
Chunks(tasks) == {c \in SUBSET tasks : Cardinality(c) = Least(Cardinality(tasks), ChunkSize)}

\* extractSemantics(): some tasks fail, some are deferred by 429s, the others get
\* the LLM's verdict.
Outcomes(tasks) == {o \in [failed : SUBSET tasks, late : SUBSET tasks] : o.failed \cap o.late = {}}

\* The tasks that the LLM turns into function data; the rest of them it rejects.
Accepted(f, tasks) == {fn \in tasks : Body(plan.snap, f, fn) \in IO}

\* The hash a chunk writes: poisoned until the last chunk, or for good once a
\* task of the file failed.
Mutant_DraftHash_IgnoresFailures(f, chunk, bad) ==
    IF chunk = todo[f] THEN plan.snap[f] ELSE Incomplete
DraftHash(f, chunk, bad) ==
    IF chunk = todo[f] /\ f \notin bad THEN plan.snap[f] ELSE Incomplete

\* One chunk of one file: LLM calls, embeddings of what the LLM accepted, and the
\* hand-over to the writers.  Files run concurrently, the chunks of one file in
\* turn; a failed embedding call ends the file.
Extract(f) ==
    /\ phase = "extract"
    /\ todo[f] # {}
    /\ \E chunk \in Chunks(todo[f]), embedded \in BOOLEAN :
       \E o \in Outcomes(chunk) :
         /\ Strike(If(o.failed # {}, "llmFailed") \cup If(o.late # {}, "llmDeferred")
                     \cup If(~embedded, "embedFail"))
         /\ embedded \/ Accepted(f, chunk \ (o.failed \cup o.late)) # {}
         /\ marked' = IF o.failed # {} THEN marked \cup {f} ELSE marked
         /\ errors' = (errors \/ o.failed # {} \/ ~embedded)
         /\ deferred' = deferred \cup ({f} \X o.late)
         /\ IF embedded
            THEN /\ todo' = [todo EXCEPT ![f] = @ \ chunk]
                 /\ jobs' = Append(jobs,
                        Job("chunk", [g \in {f} |-> DraftHash(f, chunk, marked')],
                            {f} \X Accepted(f, chunk \ (o.failed \cup o.late))))
            ELSE /\ todo' = [todo EXCEPT ![f] = {}]
                 /\ UNCHANGED jobs
    /\ UNCHANGED <<world, graph, phase, plan>>

\* Every extraction and every write has been awaited: the deferred tasks get one
\* more pass.
AllWritten == jobs = <<>> /\ \A f \in Sources : todo[f] = {}

Owners(tasks) == {t[1] : t \in tasks}

Drain ==
    /\ phase = "extract"
    /\ AllWritten
    /\ \E o \in Outcomes(deferred) :
         LET answered  == deferred \ (o.failed \cup o.late)
             recovered == {t \in answered : t[2] \in Accepted(t[1], {t[2]})}
         IN /\ Strike(If(o.failed # {}, "drainFailed") \cup If(o.late # {}, "drainDeferred"))
            /\ jobs' = IF recovered = {} THEN jobs
                       ELSE <<Job("chunk",
                                  [f \in Owners(recovered) |->
                                      IF f \in marked THEN Incomplete ELSE plan.snap[f]],
                                  recovered)>>
            /\ marked' = marked \cup Owners(o.late)
            /\ errors' = (errors \/ o.late # {} \/ o.failed # {})
    /\ phase' = "drained"
    /\ deferred' = {}
    /\ UNCHANGED <<world, graph, plan, todo>>

\* The memory of a run ends with it.
Mutant_Forget_KeepsMarks ==
    /\ phase' = "idle"
    /\ plan' = NoPlan
    /\ todo' = NoPlan.tasks
    /\ jobs' = <<>>
    /\ deferred' = {}
    /\ errors' = FALSE
    /\ UNCHANGED marked
Forget ==
    /\ phase' = "idle"
    /\ plan' = NoPlan
    /\ todo' = NoPlan.tasks
    /\ marked' = {}
    /\ jobs' = <<>>
    /\ deferred' = {}
    /\ errors' = FALSE

\* The commit point: the repository hash, unless something went wrong.
Committed(bad) == IF bad THEN repoHash ELSE HashOf(plan.snap)

ReadyToCommit == phase = "drained" /\ AllWritten

Commit ==
    /\ ReadyToCommit
    /\ repoHash' = Committed(errors)
    /\ Forget
    /\ UNCHANGED <<world, func, contains, sfile, faults>>

\* The process dies, or the run is aborted, between two statements.
Crash ==
    /\ phase # "idle"
    /\ Strike({"crash"})
    /\ Forget
    /\ UNCHANGED <<world, graph>>

--------------------------------------------------------------------------------
\* The writers: the first WriteConcurrency jobs make progress side by side.

Writing == 1..Least(Len(jobs), WriteConcurrency)
Without(i) == SubSeq(jobs, 1, i - 1) \o SubSeq(jobs, i + 1, Len(jobs))

\* The rest of job i, or its end.
Continue(i, job) ==
    jobs' = IF job.heads = Null /\ job.tasks = {} /\ job.at = Null
            THEN Without(i) ELSE [jobs EXCEPT ![i] = job]

WriteOnly == UNCHANGED <<world, repoHash, phase, plan, todo, marked, deferred, faults>>

\* persistFileContext() and persistManifest().
WriteFile(i) ==
    /\ \E f \in DOMAIN jobs[i].heads :
         /\ sfile' = [sfile EXCEPT ![f] = [live |-> TRUE, hash |-> jobs[i].heads[f]]]
         /\ Continue(i, [jobs[i] EXCEPT !.heads = [g \in DOMAIN @ \ {f} |-> @[g]]])
    /\ UNCHANGED <<func, contains, errors>>
    /\ WriteOnly

\* persistFunction(), statement by statement: retire the old edges, write the
\* node, link it to its file, write the edges.
DetachFunc(i) ==
    /\ jobs[i].heads = Null
    /\ jobs[i].at = Null
    /\ \E t \in jobs[i].tasks :
         /\ func' = [func EXCEPT ![t[2]].edges = None]
         /\ Continue(i, [jobs[i] EXCEPT !.at = t, !.tasks = @ \ {t}, !.step = "merge"])
    /\ UNCHANGED <<contains, sfile, errors>>
    /\ WriteOnly

At(i, step) == jobs[i].at # Null /\ jobs[i].step = step
Under(i)    == jobs[i].at[2]
NewBody(i)  == Body(plan.snap, jobs[i].at[1], jobs[i].at[2])

MergeFunc(i) ==
    /\ At(i, "merge")
    /\ func' = [func EXCEPT ![Under(i)].live = TRUE, ![Under(i)].hash = NewBody(i)]
    /\ Continue(i, [jobs[i] EXCEPT !.step = "contain"])
    /\ UNCHANGED <<contains, sfile, errors>>
    /\ WriteOnly

ContainFunc(i) ==
    /\ At(i, "contain")
    /\ contains' = contains \cup {jobs[i].at}
    /\ Continue(i, [jobs[i] EXCEPT !.step = "relate"])
    /\ UNCHANGED <<func, sfile, errors>>
    /\ WriteOnly

RelateFunc(i) ==
    /\ At(i, "relate")
    /\ func' = [func EXCEPT ![Under(i)].edges = NewBody(i)]
    /\ Continue(i, [jobs[i] EXCEPT !.at = Null, !.step = "detach"])
    /\ UNCHANGED <<contains, sfile, errors>>
    /\ WriteOnly

\* A statement of the job throws: the rest of the job is dropped.  Only the eager
\* job's failure is not counted against the repository.
Mutant_Blamed_Never(job) == FALSE
Blamed(job) == job.kind # "eager"

WriteFails(i) ==
    /\ Strike(If(Blamed(jobs[i]), "writeFail") \cup If(~Blamed(jobs[i]), "eagerFail"))
    /\ jobs' = Without(i)
    /\ errors' = (errors \/ Blamed(jobs[i]))
    /\ UNCHANGED <<world, graph, phase, plan, todo, marked, deferred>>

Write ==
    /\ phase \in {"extract", "drained"}
    /\ \E i \in Writing :
         WriteFile(i) \/ DetachFunc(i) \/ MergeFunc(i) \/ ContainFunc(i) \/ RelateFunc(i) \/ WriteFails(i)

Contract == TombstoneFiles \/ DetachFiles \/ TombstoneFuncs \/ DetachFuncs

Advance == Contract \/ (\E f \in Sources : Extract(f)) \/ Drain \/ Write \/ Commit

Next ==
    \/ Edit
    \/ \E force \in Forced : StartRun(force)
    \/ Advance
    \/ Crash

Spec == Init /\ [][Next]_vars

\* A run that has started goes on (its awaits settle), and the repository is
\* synced again and again.
FairSpec == Spec /\ WF_vars(Advance) /\ WF_vars(StartRun(FALSE))
--------------------------------------------------------------------------------
Hashes == Contents \cup {Incomplete, None}

TypeOK ==
    /\ disk \in [Files -> Contents \cup {Absent}]
    /\ seen \in [Files -> SUBSET (Contents \cup {Absent})]
    /\ func \in [Funcs -> [live : BOOLEAN, hash : Bodies \cup {None}, edges : Bodies \cup {None}]]
    /\ contains \subseteq Sources \X Funcs
    /\ sfile \in [Files -> [live : BOOLEAN, hash : Hashes]]
    /\ repoHash = Null \/ repoHash \in [Contents -> Nat]
    /\ phase \in {"idle", "tombstoneFiles", "detachFiles", "tombstoneFuncs", "detachFuncs",
                  "extract", "drained"}
    /\ todo \in [Sources -> SUBSET Funcs]
    /\ marked \subseteq Sources
    /\ \A i \in DOMAIN jobs : jobs[i].tasks \subseteq Sources \X Funcs
    /\ deferred \subseteq Sources \X Funcs
    /\ errors \in BOOLEAN
    /\ phase = "idle" => todo = NoPlan.tasks /\ <<marked, jobs, deferred, errors>> = <<{}, <<>>, {}, FALSE>>
    /\ edits \in 0..MaxEdits /\ faults \in 0..MaxFaults

\* The functions of a snapshot that belong in the graph.
Wanted(v) == {t \in Sources \X Funcs : t[2] \in DefinedIn(v, t[1]) /\ Body(v, t[1], t[2]) \in IO}

\* A function is in the graph with this body, and reachable from its file.
Current(f, fn, body) ==
    /\ sfile[f].live
    /\ <<f, fn>> \in contains
    /\ func[fn] = [live |-> TRUE, hash |-> body, edges |-> body]

InGraph(v) == \A t \in Wanted(v) : Current(t[1], t[2], Body(v, t[1], t[2]))

ManifestsInGraph(v) ==
    \A m \in Present(v, Manifests) : sfile[m] = [live |-> TRUE, hash |-> v[m]]

\* The next sync will find the repository unchanged and pass it over.
Settled == phase = "idle" /\ repoHash = HashOf(disk)

\* Whatever the next sync would skip is completely in the graph: skipping never
\* hides a function or a manifest that was not written.
CompleteWhenSettled == Settled => InGraph(disk) /\ ManifestsInGraph(disk)

\* And nothing else is: no live function is missing from the code, and no
\* deleted file is alive.
NoGhostsWhenSettled ==
    Settled => /\ \A fn \in Funcs : func[fn].live => \E f \in Sources : <<f, fn>> \in Wanted(disk)
               /\ \A f \in Files : sfile[f].live => disk[f] # Absent

\* What these two rest on.  Every snapshot of the repository has a hash of its
\* own: no two files swap their contents.
Snapshots   == {v \in [Files -> Contents \cup {Absent}] : \A f \in Files : v[f] \in Variants[f]}
HashIsExact == \A v, w \in Snapshots : HashOf(v) = HashOf(w) => v = w

\* For the first: a checkout never goes back, and LLM calls and embeddings are all
\* that fails, a deferred function and a failed embedding never both.
CompleteWhere ==
    /\ ~Reverts
    /\ HashIsExact
    /\ Faults \subseteq {"llmFailed", "llmDeferred", "embedFail"}
    /\ {"llmDeferred", "embedFail"} \subseteq Faults => MaxFaults <= 1

\* For the second: neither the parser nor a writer of functions nor the process
\* fails; a source stays; functions do not move between files; each content of a
\* file has a body of its own; and no rewrite of a function ends its I/O but
\* still passes the gates.
OwnBody(f, c) ==
    \E fn \in DOMAIN Defs[c] : \A d \in Variants[f] \ {Absent, c} :
        fn \in DOMAIN Defs[d] => Defs[d][fn] # Defs[c][fn]
GhostFreeWhere ==
    /\ ~Reverts
    /\ HashIsExact
    /\ Faults \cap {"parseFail", "writeFail", "crash"} = {}
    /\ \E f \in Sources : Absent \notin Variants[f]
    /\ \A f, g \in Sources :
          \A c \in Variants[f] \ {Absent}, d \in Variants[g] \ {Absent} :
              f # g => DOMAIN Defs[c] \cap DOMAIN Defs[d] = {}
    /\ \A f \in Sources :
          \A c \in Variants[f] \ {Absent} : DOMAIN Defs[c] = {} \/ OwnBody(f, c)
    /\ \A f \in Sources :
          \A c, d \in Variants[f] \ {Absent} : \A fn \in DOMAIN Defs[c] \cap DOMAIN Defs[d] :
              Defs[c][fn] \in IO /\ Defs[d][fn] \in Gated => Defs[d][fn] \in IO

\* The repository hash is committed only when every task of the plan that the
\* LLM accepted is in the graph, whatever failed in this run or an earlier one.
CommitVouchesForTasks ==
    ReadyToCommit /\ ~errors =>
        \A f \in Sources : \A fn \in Accepted(f, plan.tasks[f]) :
            Current(f, fn, Body(plan.snap, f, fn))

\* An incremental run neither re-extracts a function that is up to date nor
\* damages one on the way, whatever fails: the functions outside its plan that
\* match the snapshot stay as they are.
UpToDateWorkIsKept ==
    [][ phase' # "idle" /\ ~plan'.force =>
          \A f \in Sources, fn \in Funcs, body \in IO :
             /\ <<f, fn>> \in Wanted(plan'.snap)
             /\ Body(plan'.snap, f, fn) = body
             /\ Current(f, fn, body)
             => IF phase = "idle" THEN fn \notin plan'.tasks[f]
                ELSE fn \in plan.tasks[f] \/ Current(f, fn, body)' ]_vars

\* Once the edits, the failures and the forced runs stop, syncing brings the graph up
\* to the code and then leaves it alone: a forced run does its work again.
SyncsConverge == <>[](~plan.force) => <>[](Settled /\ InGraph(disk))
================================================================================
