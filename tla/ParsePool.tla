------------------------------ MODULE ParsePool ------------------------------
(***************************************************************************)
(* The pools of parse workers (parse-pool.ts and process-parse-pool.ts in   *)
(* src/src/ingestion/processors/code-pipeline/): threads, or processes in   *)
(* the compiled binary, pull files from a queue; one that dies or hangs     *)
(* costs its file and is replaced.  Every handler of the pool is one        *)
(* action.  A worker is modelled by what the pool can see of it: it says    *)
(* that it is ready, answers a task, answers unreadably (a thread only),    *)
(* hangs, or dies, and what it posted before it died is delivered before    *)
(* its exit event.  A message to a process that is dead already may throw.  *)
(***************************************************************************)
EXTENDS Naturals, Sequences, FiniteSets

CONSTANTS
    Tasks,        \* the files
    Workers,      \* the slots of the pool: options.size of them, a replacement takes over the slot
    MaxRuns,      \* bound on the runs of one pool
    MaxCrashes    \* bound on the workers that die by themselves

ASSUME PoolAssumption ==
    /\ IsFiniteSet(Tasks) /\ IsFiniteSet(Workers)
    /\ Workers # {}
    /\ MaxRuns \in Nat /\ MaxCrashes \in Nat
    /\ "none" \notin Tasks

None == "none"

VARIABLES
    backend,   \* "threads" or "processes"
    pool,      \* this.workers, by slot
    ready,     \* the workers that said so
    current,   \* per worker, the task the pool believes it holds
    doomed,    \* the workers on which terminate() was called
    queue,     \* run_.queue
    outcome,   \* run_.outcomes, of the tasks of the run: None, "ok" or "failed"
    phase,     \* "idle", "running" (run_ is set), "resolved", "rejected"
    deaths,    \* consecutivePreReadyDeaths
    destroyed,
    thread,    \* per worker: "alive" or "dead" (its exit event is due)
    hand,      \* per worker, the task its thread has been sent and not taken up
    mail,      \* per worker, the messages it has posted and the pool has not seen
    tried,     \* the tasks that in this run a thread took up or the watchdog gave up on
    runs, crashes

poolVars   == <<pool, ready, current, doomed, deaths, destroyed>>
runVars    == <<queue, outcome, phase>>
threadVars == <<thread, hand, mail, tried>>
others     == <<backend, runs, crashes>>
vars       == <<backend, pool, ready, current, doomed, deaths, destroyed, queue, outcome, phase,
                thread, hand, mail, tried, runs, crashes>>

Least(m, n) == IF m <= n THEN m ELSE n
Nobody      == [w \in Workers |-> None]

\* createParseExecutor(): the compiled binary parses in processes.
Init ==
    /\ backend \in {"threads", "processes"}
    /\ pool = {} /\ ready = {} /\ doomed = {}
    /\ current = Nobody
    /\ queue = <<>> /\ outcome = <<>>
    /\ phase = "idle"
    /\ deaths = 0
    /\ destroyed = FALSE
    /\ thread = [w \in Workers |-> "alive"]
    /\ hand = Nobody
    /\ mail = [w \in Workers |-> <<>>]
    /\ tried = {}
    /\ runs = 0 /\ crashes = 0

--------------------------------------------------------------------------------
\* recordOutcome(): the first outcome of a task of the run counts, and the last one
\* that is missing resolves the run.
Record(out, t, o) == IF t \in DOMAIN out /\ out[t] = None THEN [out EXCEPT ![t] = o] ELSE out
Mutant_Complete_OneShort(out) == \A s, t \in DOMAIN out : out[s] = None /\ out[t] = None => s = t
Complete(out) == \A t \in DOMAIN out : out[t] # None
Outcomes(out) ==
    /\ outcome' = out
    /\ phase' = IF phase = "running" /\ Complete(out) THEN "resolved" ELSE phase

\* send() to a process that is gone throws; a message to such a thread is lost.
SendMayFail(w) == backend = "processes" /\ thread[w] = "dead"

\* A file that could not be sent has failed.
Mutant_Unsent_Silent(out, t) == out
Unsent(out, t) == Record(out, t, "failed")

\* assignNext() after the outcomes out: the next task goes to w, unless the run is
\* over, w holds one or is not ready.  If the send fails, w gets no other one.
HandOver(w, held, isReady, out) ==
    LET takes == phase = "running" /\ ~Complete(out) /\ isReady /\ held[w] = None /\ queue # <<>>
        next  == Head(queue)
    IN \/ /\ ~takes
          /\ current' = held
          /\ Outcomes(out)
          /\ UNCHANGED <<queue, hand>>
       \/ /\ takes
          /\ current' = [held EXCEPT ![w] = next]
          /\ hand' = [hand EXCEPT ![w] = next]
          /\ queue' = Tail(queue)
          /\ Outcomes(out)
       \/ /\ takes /\ SendMayFail(w)
          /\ current' = held
          /\ queue' = Tail(queue)
          /\ Outcomes(Unsent(out, next))
          /\ UNCHANGED hand

\* Worker w is free and task t has an outcome: it is recorded, w gets the next task.
Finish(w, t, o) ==
    HandOver(w, [current EXCEPT ![w] = None], w \in ready,
             IF phase = "running" THEN Record(outcome, t, o) ELSE outcome)

--------------------------------------------------------------------------------
\* The orders in which a set of tasks can be submitted, and the ways in which the
\* idle workers can be dealt the first of them.
Orders(S) == {q \in [1..Cardinality(S) -> S] : \A i, j \in DOMAIN q : q[i] = q[j] => i = j}
Deals(idle, batch) ==
    {deal \in [idle -> batch \cup {None}] :
        /\ \A v, w \in idle : deal[v] = deal[w] /\ deal[v] # None => v = w
        /\ \A v \in idle : deal[v] = None => batch \subseteq {deal[w] : w \in idle}}

\* ensureWorkers(): how many workers there are to spawn.
Missing(n) ==
    LET target == Least(Cardinality(Workers), n)
    IN  IF target > Cardinality(pool) THEN target - Cardinality(pool) ELSE 0

\* run(): the caller runs the pool again only when the last run has resolved.
Run ==
    /\ phase \in {"idle", "resolved"}
    /\ ~destroyed
    /\ runs < MaxRuns
    /\ runs' = runs + 1
    /\ tried' = {}
    /\ \E batch \in (SUBSET Tasks) \ {{}} :
         LET idle == {w \in pool : w \in ready /\ current[w] = None}
         IN /\ \E deal \in Deals(idle, batch) :
               \E unsent \in SUBSET {w \in idle : SendMayFail(w) /\ deal[w] # None} :
                 LET given == idle \ unsent
                 IN /\ current' = [w \in Workers |-> IF w \in given THEN deal[w] ELSE current[w]]
                    /\ hand' = [w \in Workers |-> IF w \in given THEN deal[w] ELSE hand[w]]
                    /\ queue' \in Orders(batch \ {deal[w] : w \in idle})
                    /\ outcome' = [t \in batch |->
                                     IF \E w \in unsent : deal[w] = t THEN "failed" ELSE None]
            /\ phase' = IF Complete(outcome') THEN "resolved" ELSE "running"
            /\ \E born \in SUBSET (Workers \ pool) :
                 /\ Cardinality(born) = Missing(Cardinality(batch))
                 /\ pool' = pool \cup born
    /\ UNCHANGED <<ready, doomed, deaths, destroyed, thread, mail, backend, crashes>>

Has(w, kind) == w \in pool /\ mail[w] # <<>> /\ Head(mail[w]).kind = kind
Receive(w)   == mail' = [mail EXCEPT ![w] = Tail(@)]

\* onMessage("ready").
OnReady(w) ==
    /\ Has(w, "ready")
    /\ Receive(w)
    /\ ready' = ready \cup {w}
    /\ deaths' = 0
    /\ HandOver(w, current, TRUE, outcome)
    /\ UNCHANGED <<pool, doomed, destroyed, thread, tried, others>>

\* onMessage("result" or "error"): the outcome goes to the task the message names.
OnAnswer(w) ==
    /\ Has(w, "answer")
    /\ Receive(w)
    /\ Finish(w, Head(mail[w]).task, Head(mail[w]).outcome)
    /\ UNCHANGED <<pool, ready, doomed, deaths, destroyed, thread, tried, others>>

\* onLostResponse(): an answer that cannot be read fails the task in hand.
OnLost(w) ==
    /\ Has(w, "lost")
    /\ Receive(w)
    /\ IF current[w] # None THEN Finish(w, current[w], "failed")
                            ELSE UNCHANGED <<current, hand, runVars>>
    /\ UNCHANGED <<pool, ready, doomed, deaths, destroyed, thread, tried, others>>

\* The task in hand of a worker that exits fails with it.
LastWords(w) ==
    IF current[w] # None /\ phase = "running" THEN Record(outcome, current[w], "failed") ELSE outcome

\* A dead worker is replaced while there is work for the replacement.
Mutant_Replaced_IfLast(running, rest) == running /\ rest = {}
Replaced(running, rest) == running /\ (queue # <<>> \/ rest = {})

\* spawnWorker(): a worker starts with a record of its own.
Mutant_Cleared_Never(S, w) == S
Cleared(S, w) == S \ {w}

\* onExit().  Two deaths in a row before ready mean that no worker can start.
OnExit(w) ==
    /\ w \in pool /\ thread[w] = "dead" /\ mail[w] = <<>>
    /\ LET unready == w \notin ready
           broken  == unready /\ deaths + 1 >= 2
           rest    == pool \ {w}
       IN /\ deaths' = IF unready THEN Least(deaths + 1, 2) ELSE deaths
          /\ IF broken
             THEN /\ phase' = IF phase = "running" THEN "rejected" ELSE phase
                  /\ pool' = rest
                  /\ UNCHANGED outcome
             ELSE /\ Outcomes(LastWords(w))
                  /\ pool' = IF Replaced(phase' = "running", rest) THEN pool ELSE rest
    /\ thread' = [thread EXCEPT ![w] = "alive"]
    /\ ready' = Cleared(ready, w) /\ doomed' = Cleared(doomed, w)
    /\ current' = [current EXCEPT ![w] = None]
    /\ hand' = [hand EXCEPT ![w] = None]
    /\ UNCHANGED <<destroyed, queue, mail, tried, others>>

\* reapStalledWorkers(): terminate() a worker that holds a task for too long.
Mutant_Stalled_Never(w) == FALSE
Stalled(w) == w \in pool /\ current[w] # None

Reap(w) ==
    /\ Stalled(w)
    /\ w \notin doomed
    /\ doomed' = doomed \cup {w}
    /\ tried' = tried \cup {current[w]}
    /\ UNCHANGED <<pool, ready, current, deaths, destroyed, runVars, thread, hand, mail, others>>

\* destroy(), by the caller after its last run or by the abort signal, which
\* rejects the run under way.  Nothing the threads do is heard of again.
Destroy ==
    /\ ~destroyed
    /\ destroyed' = TRUE
    /\ phase' = IF phase = "running" THEN "rejected" ELSE phase
    /\ pool' = {} /\ ready' = {} /\ doomed' = {}
    /\ current' = Nobody /\ hand' = Nobody
    /\ thread' = [w \in Workers |-> "alive"]
    /\ mail' = [w \in Workers |-> <<>>]
    /\ UNCHANGED <<deaths, queue, outcome, tried, others>>

--------------------------------------------------------------------------------
\* The workers.

Live(w)    == w \in pool /\ thread[w] = "alive"
Post(w, m) == mail' = [mail EXCEPT ![w] = Append(@, m)]

\* The thread has loaded its parsers.
Boot(w) ==
    /\ Live(w)
    /\ w \notin ready /\ mail[w] = <<>>
    /\ Post(w, [kind |-> "ready"])
    /\ UNCHANGED <<thread, hand, tried, poolVars, runVars, others>>

\* The thread answers its task, readably or not.
Answer(w) ==
    /\ Live(w)
    /\ hand[w] # None
    /\ \/ \E o \in {"ok", "failed"} : Post(w, [kind |-> "answer", task |-> hand[w], outcome |-> o])
       \/ backend = "threads" /\ Post(w, [kind |-> "lost"])
    /\ hand' = [hand EXCEPT ![w] = None]
    /\ tried' = tried \cup {hand[w]}
    /\ UNCHANGED <<thread, poolVars, runVars, others>>

\* The thread takes its task up and never answers.
Hang(w) ==
    /\ Live(w)
    /\ hand[w] # None
    /\ hand' = [hand EXCEPT ![w] = None]
    /\ tried' = tried \cup {hand[w]}
    /\ UNCHANGED <<thread, mail, poolVars, runVars, others>>

\* The thread dies by itself, over its task or with nothing in hand.
Crash(w) ==
    /\ Live(w)
    /\ crashes < MaxCrashes
    /\ crashes' = crashes + 1
    /\ thread' = [thread EXCEPT ![w] = "dead"]
    /\ tried' = tried \cup ({hand[w]} \ {None})
    /\ UNCHANGED <<hand, mail, poolVars, runVars, backend, runs>>

\* terminate() takes effect.
Terminated(w) ==
    /\ Live(w)
    /\ w \in doomed
    /\ thread' = [thread EXCEPT ![w] = "dead"]
    /\ UNCHANGED <<hand, mail, tried, poolVars, runVars, others>>

Handle(w)  == OnReady(w) \/ OnAnswer(w) \/ OnLost(w) \/ OnExit(w)
Operate(w) == Boot(w) \/ Answer(w) \/ Hang(w) \/ Crash(w) \/ Terminated(w)

Next == Run \/ Destroy \/ \E w \in Workers : Handle(w) \/ Reap(w) \/ Operate(w)

Spec == Init /\ [][Next]_vars

\* Events are delivered, terminate() takes effect and the watchdog comes round.
PoolFairness ==
    \A w \in Workers : WF_vars(Handle(w)) /\ WF_vars(Terminated(w)) /\ WF_vars(Reap(w))

\* A thread that starts gets ready or dies; one that has a task may hang.
FairSpec == Spec /\ PoolFairness /\ \A w \in Workers : WF_vars(Boot(w))

--------------------------------------------------------------------------------
\* The state is well typed; what the pool knows of a worker it knows of a worker it has.
TypeOK ==
    /\ backend \in {"threads", "processes"}
    /\ pool \subseteq Workers
    /\ ready \subseteq pool
    /\ doomed \subseteq pool
    /\ current \in [Workers -> Tasks \cup {None}]
    /\ hand \in [Workers -> Tasks \cup {None}]
    /\ DOMAIN outcome \subseteq Tasks
    /\ \A t \in DOMAIN outcome : outcome[t] \in {None, "ok", "failed"}
    /\ queue \in Seq(DOMAIN outcome)
    /\ phase \in {"idle", "running", "resolved", "rejected"}
    /\ deaths \in 0..2
    /\ destroyed \in BOOLEAN
    /\ thread \in [Workers -> {"alive", "dead"}]
    /\ mail \in [Workers -> Seq(
          {[kind |-> "ready"], [kind |-> "lost"]}
            \cup [kind : {"answer"}, task : Tasks, outcome : {"ok", "failed"}])]
    /\ tried \subseteq Tasks
    /\ runs \in 0..MaxRuns /\ crashes \in 0..MaxCrashes

Queued(t)  == \E i \in DOMAIN queue : queue[i] = t
Holders(t) == {w \in pool : current[w] = t}

\* While a run goes on each of its files is in exactly one place: in the queue, with
\* one worker, or accounted for; and when it resolves no worker holds a file, so that
\* no answer of one run can be taken for an answer of the next.
NoTaskLost ==
    /\ phase = "running" => \A t \in DOMAIN outcome :
         /\ Queued(t) => Holders(t) = {} /\ outcome[t] = None
         /\ outcome[t] # None => Holders(t) = {}
         /\ outcome[t] = None /\ ~Queued(t) => \E w \in pool : Holders(t) = {w}
    /\ phase = "resolved" => \A w \in pool : current[w] = None

\* A file counts as parsed only when a thread took it up in this very run, although
\* the runs of a pool use the same task ids.
ParsedInThisRun == \A t \in DOMAIN outcome : outcome[t] = "ok" => t \in tried

\* While files wait the pool is at full strength, whatever workers it has lost, and
\* every worker that is ready holds a file, unless a failed send has shown its death.
WorkersKeepBusy ==
    phase = "running" /\ queue # <<>> =>
        /\ Missing(Cardinality(DOMAIN outcome)) = 0
        /\ \A w \in ready : current[w] # None \/ SendMayFail(w)

\* A run settles whatever its threads do with their tasks: lost answers, hangs and
\* crashes all end in an outcome ("a lost IPC response must never stall the run",
\* parse-pool.ts:24).
RunSettles == phase = "running" ~> phase # "running"

\* "A worker crash while processing a file yields a failure outcome for THAT file
\* only" (parse-pool.ts:18-19): a file fails only after a thread took it up or the
\* watchdog gave up on it.
FailuresAreOwn == \A t \in DOMAIN outcome : outcome[t] = "failed" => t \in tried
================================================================================
