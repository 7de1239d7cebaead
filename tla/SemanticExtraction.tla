-------------------------- MODULE SemanticExtraction --------------------------
(***************************************************************************)
(* The semantic extraction of one repository, in fast scans: the file loop  *)
(* and the drain of orchestrator.ts, extractSemantics() with its batches    *)
(* (semantic-extractor.ts, semantic-batch-extractor.ts), the pool in which  *)
(* single functions of different files meet (singleton-batch-pool.ts) and   *)
(* the model calls behind them (unified-analyzer.ts).                       *)
(*                                                                         *)
(* A "trip" is a group of functions that travel together: a batch makes one *)
(* call for all of its members, and a call of its own for each member that  *)
(* the answer leaves out; a trip of one starts with that call.  A call is   *)
(* withCongestionControl() around the provider and may be retried in there; *)
(* what counts here is how it ends.                                         *)
(***************************************************************************)
EXTENDS Naturals, Sequences, FiniteSets, SequencesExt

CONSTANTS
    NumFiles, NumTasks,
    ChunksOf,     \* per file: its chunks, sets of tasks, which are numbered in their order
    ClassOf,      \* per task: what the functions of a (file, class) batch share
    KeyOf,        \* per task: mixedBatchKeyOf()
    Static,       \* the tasks that are resolved without a model
    Confirmed,    \* the tasks that passed a strong I/O gate
    MaxBatch,     \* MAX_BATCH
    FileLimit     \* FILE_CONCURRENCY

Files == 1 .. NumFiles
Tasks == 1 .. NumTasks
Keys  == {KeyOf[t] : t \in Tasks}

ASSUME ExtractionAssumption ==
    /\ {NumFiles, NumTasks} \subseteq Nat
    /\ ChunksOf \in [Files -> Seq(SUBSET Tasks) \ {<<>>}]
    /\ {Static, Confirmed} \subseteq SUBSET Tasks
    /\ MaxBatch \in Nat \ {0, 1} /\ FileLimit \in Nat \ {0}

\* Every function is in one chunk; only the first one of a file without functions is empty.
ASSUME ChunksAssumption ==
    /\ \A f \in Files : \A c \in DOMAIN ChunksOf[f] : c > 1 => ChunksOf[f][c] # {}
    /\ \A t \in Tasks : \E f \in Files : \E c \in DOMAIN ChunksOf[f] : t \in ChunksOf[f][c]
    /\ \A f, g \in Files : \A c \in DOMAIN ChunksOf[f], d \in DOMAIN ChunksOf[g] :
          ChunksOf[f][c] \cap ChunksOf[g][d] # {} => f = g /\ c = d

VARIABLES
    phase,     \* per file: "queued", "calling" (in extractSemantics), "between" two calls, "over"
    chunk,     \* per file: the number of its last call
    task,      \* per function: its outcome so far, and the function it is about
    group,     \* per key: the functions that wait in the pool
    trips,     \* the trips under way
    loop,      \* "files", "drain", "done" or "broken"
    retried,   \* the functions of the drain
    errors,    \* repoHasErrors
    paid,      \* the functions that the provider has answered for
    aborted    \* the shutdown signal

files == <<phase, chunk>>
work  == <<task, group, trips, paid>>
run   == <<loop, retried, errors>>
vars  == <<files, work, run, aborted>>

None           == 0
Is(s)          == [is |-> s, of |-> None]
Outcome(s, t)  == [is |-> s, of |-> t]
Outcomes       == {"success", "rejected", "failed", "deferred"}
Settled(t)     == task[t].is \in Outcomes
With(outcome)  == {t \in Tasks : task[t].is = outcome}

Init ==
    /\ phase = [f \in Files |-> "queued"]
    /\ chunk = [f \in Files |-> 0]
    /\ task = [t \in Tasks |-> Is("idle")]
    /\ group = [k \in Keys |-> <<>>]
    /\ trips = {}
    /\ loop = "files" /\ retried = {} /\ errors = FALSE
    /\ paid = {}
    /\ aborted = FALSE

--------------------------------------------------------------------------------
\* Grouping.  Within a class or key, tasks keep their order.
Sorted(ts) == [n \in 1 .. Cardinality(ts) |-> CHOOSE t \in ts : Cardinality({u \in ts : u <= t}) = n]
Slices(s) ==
    {SubSeq(s, i, IF i + MaxBatch - 1 <= Len(s) THEN i + MaxBatch - 1 ELSE Len(s)) :
        i \in {j \in DOMAIN s : j % MaxBatch = 1}}
ByClass(ts)   == UNION {Slices(Sorted({t \in ts : ClassOf[t] = c})) : c \in {ClassOf[t] : t \in ts}}
OfKey(ts, k)  == {t \in ts : KeyOf[t] = k}
ByKey(ts)     == UNION {Slices(Sorted(OfKey(ts, k))) : k \in Keys}
Lone(slices)  == {s \in slices : Len(s) = 1}
Alone(slices) == {s[1] : s \in Lone(slices)}

Starting(s) ==
    [members |-> s, batch |-> Len(s) > 1,
     got |-> [i \in DOMAIN s |-> Is(IF Len(s) > 1 THEN "batched" ELSE "primary")]]
StartingAll(slices) == {Starting(s) : s \in slices}

\* The batches of a call and what is left of its tasks.
Asked(ts)     == ts \ Static
Shared(ts)    == ByClass(Asked(ts)) \ Lone(ByClass(Asked(ts)))
Singles(ts)   == Alone(ByClass(Asked(ts)))
Mixed(ts)     == ByKey(Singles(ts)) \ Lone(ByKey(Singles(ts)))
Remaining(ts) == Alone(ByKey(Singles(ts)))

\* extractSemantics() up to its first await: static tasks have their outcome.
Opened(ts) ==
    [t \in Tasks |-> IF t \notin ts THEN task[t]
                     ELSE IF t \in Static THEN Outcome("success", t) ELSE Is("open")]

\* SingletonBatchPool.submit() for one task after the other: a group that is full leaves.
Pooled(ts, k) == group[k] \o Sorted(OfKey(ts, k))
Full(ts)      == {b \in UNION {Slices(Pooled(ts, k)) : k \in Keys} : Len(b) = MaxBatch}
\* A group stays in the pool when it leaves for being full.
Mutant_Rest_Kept(ts, k) == Pooled(ts, k)
Rest(ts, k) ==
    LET p == Pooled(ts, k)
    IN  SubSeq(p, (Len(p) - (Len(p) % MaxBatch)) + 1, Len(p))

CallFor(ts) ==
    /\ task' = Opened(ts)
    /\ trips' = trips \cup StartingAll(Shared(ts) \cup Mixed(ts) \cup Full(Remaining(ts)))
    /\ group' = [k \in Keys |-> Rest(Remaining(ts), k)]
    /\ UNCHANGED paid

\* The drain has no pool.
DrainFor(ts) ==
    /\ task' = Opened(ts)
    /\ trips' = trips \cup StartingAll(Shared(ts) \cup Mixed(ts) \cup {<<t>> : t \in Remaining(ts)})
    /\ UNCHANGED <<group, paid>>

--------------------------------------------------------------------------------
\* The file loop.
Busy == {f \in Files : phase[f] \in {"calling", "between"}}
Next1(f) == \A g \in 1 .. f - 1 : phase[g] # "queued"

Call(f) ==
    /\ phase' = [phase EXCEPT ![f] = "calling"]
    /\ chunk' = [chunk EXCEPT ![f] = @ + 1]
    /\ CallFor(ChunksOf[f][chunk[f] + 1])

\* pLimit lets a file in; the signal makes it throw, and with it the loop.
StartFile(f) ==
    /\ phase[f] = "queued" /\ Next1(f) /\ Cardinality(Busy) < FileLimit
    /\ IF aborted
       THEN /\ phase' = [phase EXCEPT ![f] = "over"]
            /\ loop' = "broken"
            /\ UNCHANGED <<chunk, work, retried, errors>>
       ELSE Call(f) /\ UNCHANGED run
    /\ UNCHANGED aborted

\* The next chunk; the signal makes every task of it throw, which the file survives.
NextChunk(f) ==
    /\ phase[f] = "between"
    /\ IF aborted
       THEN /\ phase' = [phase EXCEPT ![f] = "over"]
            /\ errors' = TRUE
            /\ UNCHANGED <<chunk, work, loop, retried>>
       ELSE Call(f) /\ UNCHANGED run
    /\ UNCHANGED aborted

\* Failures are looked for when a call returns.
Return(f) ==
    LET ts == ChunksOf[f][chunk[f]]
    IN  /\ phase[f] = "calling"
        /\ \A t \in ts : Settled(t)
        /\ phase' = [phase EXCEPT ![f] = IF chunk[f] < Len(ChunksOf[f]) THEN "between" ELSE "over"]
        /\ errors' = (errors \/ \E t \in ts : task[t].is = "failed")
        /\ UNCHANGED <<chunk, work, loop, retried, aborted>>

\* All files are over: the deferred functions get their single drain, or there are none.
EndFiles ==
    /\ loop = "files"
    /\ \A f \in Files : phase[f] = "over"
    /\ \/ With("deferred") = {} /\ loop' = "done" /\ UNCHANGED <<work, retried>>
       \/ With("deferred") # {} /\ aborted /\ loop' = "broken" /\ UNCHANGED <<work, retried>>
       \/ /\ With("deferred") # {} /\ ~aborted
          /\ loop' = "drain"
          /\ retried' = With("deferred")
          /\ DrainFor(With("deferred"))
    /\ UNCHANGED <<files, errors, aborted>>

\* What is left over after the drain makes the repository incomplete.
Mutant_Unsolved_FailedOnly == \E t \in retried : task[t].is = "failed"
Unsolved == \E t \in retried : task[t].is \in {"failed", "deferred"}
EndDrain ==
    /\ loop = "drain"
    /\ \A t \in retried : Settled(t)
    /\ loop' = "done"
    /\ errors' = (errors \/ Unsolved)
    /\ UNCHANGED <<files, work, retried, aborted>>

\* The timer of a group of the pool.
Flush(k) ==
    /\ group[k] # <<>>
    /\ trips' = trips \cup {Starting(group[k])}
    /\ group' = [group EXCEPT ![k] = <<>>]
    /\ UNCHANGED <<files, task, paid, run, aborted>>

--------------------------------------------------------------------------------
\* The ends of calls.

\* A trip whose members all have their outcome resolves as a whole.
Proceeds(w, got) ==
    LET after == [w EXCEPT !.got = got, !.batch = FALSE]
        over  == \A i \in DOMAIN got : got[i].is \in Outcomes
    IN  /\ trips' = (trips \ {w}) \cup (IF over THEN {} ELSE {after})
        /\ task' = IF ~over THEN task
                   ELSE [t \in Tasks |-> IF \E i \in DOMAIN got : w.members[i] = t
                                         THEN got[CHOOSE i \in DOMAIN got : w.members[i] = t] ELSE task[t]]

\* A refused key: the trip rejects, and so do the calls that wait for its members, their
\* files and the loop.  What is under way beside it goes on, unheard.
Callers(w) ==
    {f \in Files : phase[f] = "calling" /\ ChunksOf[f][chunk[f]] \cap ToSet(w.members) # {}}
Unauthorized(w) ==
    /\ trips' = trips \ {w}
    /\ phase' = [f \in Files |-> IF f \in Callers(w) THEN "over" ELSE phase[f]]
    /\ loop' = "broken"
    /\ UNCHANGED <<chunk, task, group, paid, retried, errors, aborted>>

\* With every member confirmed, nobody is turned down.
Verdicts(members) == IF members \subseteq Confirmed THEN {"success"} ELSE {"success", "rejected"}

\* An answer to a batch: sections in any order, for some of the members or for none that
\* exists (0).  They are told apart by the number that each states; of two with the same
\* number the first one counts, so that a second one may as well be missing.
Responses(w)      == {r \in UNION {[1 .. n -> 0 .. Len(w.members)] : n \in 1 .. Len(w.members)} : IsInjective(r)}
Section(r, i) == IF i \in ToSet(r) THEN i ELSE None

BatchAnswered(w) ==
    \E r \in Responses(w), verdict \in [DOMAIN w.members -> Verdicts(ToSet(w.members))] :
        /\ Proceeds(w, [i \in DOMAIN w.members |->
                          IF Section(r, i) = None THEN Is("primary")
                          ELSE Outcome(verdict[i], w.members[Section(r, i)])])
        /\ paid' = paid \cup {w.members[i] : i \in DOMAIN w.members \cap ToSet(r)}

\* Nothing usable: every member goes alone.  An exhausted quota or no connection: all are
\* deferred.  The agent cannot be set up: all have failed.
BatchFailed(w) ==
    /\ \E s \in {"primary", "deferred", "failed"} : Proceeds(w, [i \in DOMAIN w.members |-> Is(s)])
    /\ UNCHANGED paid

\* How the call of a single function ends, on the primary model and then on the fallback
\* model: with nothing usable, an exhausted quota, no connection, or a connection that
\* "timed out", which analyzeFunction() takes for its own deadline.
After(model) ==
    IF model = "primary"
    THEN [empty |-> "fallback", quota |-> "fallback", unreachable |-> "deferred", timeout |-> "failed"]
    ELSE [empty |-> "failed", quota |-> "deferred", unreachable |-> "deferred", timeout |-> "failed"]

Answered(w, i) ==
    \E verdict \in Verdicts({w.members[i]}) :
        /\ Proceeds(w, [w.got EXCEPT ![i] = Outcome(verdict, w.members[i])])
        /\ paid' = paid \cup {w.members[i]}

\* extractSingleIsolated(): the error of a member is its own.
\* It takes its siblings along.
Mutant_Isolated_Never(w, i, s) ==
    IF s = "deferred" THEN [j \in DOMAIN w.got |-> Is(s)] ELSE [w.got EXCEPT ![i] = Is(s)]
Isolated(w, i, s) == [w.got EXCEPT ![i] = Is(s)]
NotAnswered(w, i) ==
    /\ \E how \in DOMAIN After(w.got[i].is) : Proceeds(w, Isolated(w, i, After(w.got[i].is)[how]))
    /\ UNCHANGED paid

BatchEnds(w) ==
    /\ w.batch
    /\ BatchAnswered(w) \/ BatchFailed(w)
    /\ UNCHANGED <<files, group, run, aborted>>
SingleEnds(w, i) ==
    /\ w.got[i].is \in {"primary", "fallback"}
    /\ Answered(w, i) \/ NotAnswered(w, i)
    /\ UNCHANGED <<files, group, run, aborted>>

\* Every call ends: by an answer, an error or its timeout.
Ends(t) ==
    \E w \in trips : \E i \in DOMAIN w.members :
        w.members[i] = t /\ (BatchEnds(w) \/ SingleEnds(w, i))

Abort == ~aborted /\ aborted' = TRUE /\ UNCHANGED <<files, work, run>>

LoopStep ==
    \/ \E f \in Files : StartFile(f) \/ NextChunk(f) \/ Return(f)
    \/ EndFiles \/ EndDrain

Next ==
    \/ LoopStep
    \/ \E k \in Keys : Flush(k)
    \/ \E t \in Tasks : Ends(t)
    \/ \E w \in trips : Unauthorized(w)
    \/ Abort

Spec == Init /\ [][Next]_vars

--------------------------------------------------------------------------------
\* The state has its shape: what waits in the pool or travels is open, and once only.
Waiting(t)  == Cardinality({k \in Keys : t \in ToSet(group[k])})
Trips(t)    == Cardinality({w \in trips : t \in ToSet(w.members)})
TypeOK ==
    /\ phase \in [Files -> {"queued", "calling", "between", "over"}]
    /\ \A f \in Files : chunk[f] \in 0 .. Len(ChunksOf[f])
    /\ \A t \in Tasks : task[t].is \in {"idle", "open"} \cup Outcomes
    /\ \A k \in Keys : Len(group[k]) < MaxBatch /\ \A t \in ToSet(group[k]) : KeyOf[t] = k
    /\ \A w \in trips : Len(w.members) \in 1 .. MaxBatch /\ Len(w.got) = Len(w.members)
    /\ \A t \in Tasks : Waiting(t) + Trips(t) <= 1
    /\ \A t \in Tasks : Waiting(t) + Trips(t) = 1 => task[t].is = "open"
    /\ loop \in {"files", "drain", "done", "broken"}
    /\ retried \cup paid \subseteq Tasks
    /\ {errors, aborted} \subseteq BOOLEAN

\* Whatever company a function travels in, an answer that the provider has given for it
\* becomes its outcome, and no other function's: no failure of a sibling, in the batch or
\* in another file, takes it back to the drain or to the next run.
AnswersReachTheirTasks ==
    \A t \in Tasks : Settled(t) =>
        /\ task[t].is \in {"success", "rejected"} => task[t].of = t
        /\ t \in paid => task[t].is \in {"success", "rejected"}

\* Where a function stands, for ExtractionPromise.
Standing(t) ==
    IF t \notin retried THEN task[t].is
    ELSE [open |-> "again", deferred |-> "dropped", success |-> "success",
          rejected |-> "rejected", failed |-> "failed"][task[t].is]
================================================================================
