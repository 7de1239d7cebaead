--------------------------- MODULE ParsePoolProofs ---------------------------
(***************************************************************************)
(* Proofs about ParsePool, for any files, any number of workers and any     *)
(* bounds on runs and crashes.                                             *)
(*                                                                         *)
(* What happens to a file is spread over three places that the pool cannot  *)
(* read at once: its queue, what it believes its workers hold, and what the *)
(* threads have posted.  The inductive invariant relates them: Accounts     *)
(* says where each file of the run is, Expected what a message on its way   *)
(* can still be about.                                                      *)
(***************************************************************************)
EXTENDS ParsePool, SequenceTheorems, FunctionTheorems, FiniteSetTheorems, TLAPS

Results  == {None, "ok", "failed"}
Messages == {[kind |-> "ready"], [kind |-> "lost"]}
              \cup [kind : {"answer"}, task : Tasks, outcome : {"ok", "failed"}]

--------------------------------------------------------------------------------
\* The first entry of a queue is taken out.
LEMMA TakeFirst ==
    ASSUME NEW S, NEW q \in Seq(S), q # <<>>
    PROVE  /\ 1 \in DOMAIN q /\ Head(q) = q[1] /\ Head(q) \in S
           /\ Tail(q) \in Seq(S)
           /\ \A i \in DOMAIN Tail(q) : i + 1 \in DOMAIN q /\ Tail(q)[i] = q[i + 1]
           /\ \A j \in DOMAIN q : j # 1 => j - 1 \in DOMAIN Tail(q) /\ Tail(q)[j - 1] = q[j]
<1>1. Len(q) \in Nat /\ Len(q) # 0 /\ DOMAIN q = 1..Len(q) /\ Head(q) = q[1]
    BY EmptySeq, LenProperties
<1>2. /\ Head(q) \in S /\ Tail(q) \in Seq(S) /\ Len(Tail(q)) = Len(q) - 1
      /\ \A i \in 1..Len(Tail(q)) : Tail(q)[i] = q[i + 1]
    BY HeadTailProperties
<1>3. DOMAIN Tail(q) = 1..(Len(q) - 1)
    BY <1>2, LenProperties
<1>4. ASSUME NEW i \in DOMAIN Tail(q) PROVE i + 1 \in DOMAIN q /\ Tail(q)[i] = q[i + 1]
    BY <1>1, <1>2, <1>3
<1>5. ASSUME NEW j \in DOMAIN q, j # 1
      PROVE  j - 1 \in DOMAIN Tail(q) /\ Tail(q)[j - 1] = q[j]
  <2>1. j - 1 \in 1..Len(Tail(q)) /\ (j - 1) + 1 = j
    BY <1>1, <1>2, <1>5
  <2> QED
    BY <1>2, <1>3, <2>1
<1> QED
    BY <1>1, <1>2, <1>4, <1>5

\* recordOutcome() touches one task, and only one whose outcome is missing.
LEMMA Recorded ==
    ASSUME NEW out, NEW t, NEW o, o # None
    PROVE  /\ DOMAIN Record(out, t, o) = DOMAIN out
           /\ \A s \in DOMAIN out :
                 Record(out, t, o)[s] = IF s = t /\ out[s] = None THEN o ELSE out[s]
BY DEF Record

LEMMA RecordedTypes ==
    ASSUME NEW out, NEW t, NEW o \in {"ok", "failed"},
           \A s \in DOMAIN out : out[s] \in Results
    PROVE  /\ DOMAIN Record(out, t, o) = DOMAIN out
           /\ \A s \in DOMAIN out : Record(out, t, o)[s] \in Results
BY Recorded DEF Results, None

\* What assignNext() may do to the types.
LEMMA HandOverTypes ==
    ASSUME TypeOK,
           NEW w \in Workers, NEW isReady, NEW out,
           NEW held \in [Workers -> Tasks \cup {None}],
           DOMAIN out = DOMAIN outcome, \A t \in DOMAIN out : out[t] \in Results,
           HandOver(w, held, isReady, out)
    PROVE  /\ current' \in [Workers -> Tasks \cup {None}]
           /\ hand' \in [Workers -> Tasks \cup {None}]
           /\ DOMAIN outcome' = DOMAIN outcome
           /\ \A t \in DOMAIN outcome' : outcome'[t] \in Results
           /\ queue' \in Seq(DOMAIN outcome)
           /\ phase' \in {"idle", "running", "resolved", "rejected"}
<1> DEFINE takes == phase = "running" /\ ~Complete(out) /\ isReady /\ held[w] = None /\ queue # <<>>
           next  == Head(queue)
<1>1. queue \in Seq(DOMAIN outcome) /\ DOMAIN outcome \subseteq Tasks
      /\ hand \in [Workers -> Tasks \cup {None}]
      /\ phase \in {"idle", "running", "resolved", "rejected"}
    BY DEF TypeOK
<1>2. queue # <<>> => next \in DOMAIN outcome /\ Tail(queue) \in Seq(DOMAIN outcome)
    BY <1>1, TakeFirst
<1>3. ASSUME NEW new, Outcomes(new)
      PROVE  outcome' = new /\ phase' \in {"idle", "running", "resolved", "rejected"}
    BY <1>1, <1>3 DEF Outcomes
<1>4. CASE ~takes /\ current' = held /\ Outcomes(out) /\ UNCHANGED <<queue, hand>>
    BY <1>1, <1>3, <1>4
<1>5. CASE /\ takes
           /\ current' = [held EXCEPT ![w] = next]
           /\ hand' = [hand EXCEPT ![w] = next]
           /\ queue' = Tail(queue)
           /\ Outcomes(out)
    BY <1>1, <1>2, <1>3, <1>5
<1>6. CASE /\ takes
           /\ current' = held
           /\ queue' = Tail(queue)
           /\ Outcomes(Unsent(out, next))
           /\ UNCHANGED hand
  <2>1. outcome' = Record(out, next, "failed")
    BY <1>3, <1>6 DEF Unsent
  <2> QED
    BY <1>1, <1>2, <1>3, <1>6, <2>1, RecordedTypes DEF Unsent
<1> QED
    BY <1>4, <1>5, <1>6 DEF HandOver

\* The same for a worker that is free again.
LEMMA FinishTypes ==
    ASSUME TypeOK,
           NEW w \in Workers, NEW t, NEW o \in {"ok", "failed"},
           Finish(w, t, o)
    PROVE  /\ current' \in [Workers -> Tasks \cup {None}]
           /\ hand' \in [Workers -> Tasks \cup {None}]
           /\ DOMAIN outcome' = DOMAIN outcome
           /\ \A s \in DOMAIN outcome' : outcome'[s] \in Results
           /\ queue' \in Seq(DOMAIN outcome)
           /\ phase' \in {"idle", "running", "resolved", "rejected"}
<1> DEFINE held == [current EXCEPT ![w] = None]
           out  == IF phase = "running" THEN Record(outcome, t, o) ELSE outcome
<1>1. held \in [Workers -> Tasks \cup {None}]
    BY DEF TypeOK
<1>2. DOMAIN out = DOMAIN outcome /\ \A s \in DOMAIN out : out[s] \in Results
    BY RecordedTypes DEF TypeOK, Results
<1>3. HandOver(w, held, w \in ready, out)
    BY DEF Finish
<1> HIDE DEF held, out
<1> QED
    BY <1>1, <1>2, <1>3, HandOverTypes

\* A message that is received, and one that is posted.
LEMMA ReceiveTypes ==
    ASSUME TypeOK, NEW w \in Workers, NEW k, Has(w, k), Receive(w)
    PROVE  /\ Head(mail[w]) \in Messages
           /\ mail' \in [Workers -> Seq(Messages)]
<1>1. mail \in [Workers -> Seq(Messages)]
    BY DEF TypeOK, Messages
<1>2. mail[w] # <<>> /\ mail' = [mail EXCEPT ![w] = Tail(mail[w])]
    BY DEF Has, Receive
<1>3. Head(mail[w]) \in Messages /\ Tail(mail[w]) \in Seq(Messages)
    BY <1>1, <1>2, HeadTailProperties
<1> QED
    BY <1>1, <1>2, <1>3

LEMMA PostTypes ==
    ASSUME TypeOK, NEW w \in Workers, NEW m \in Messages, Post(w, m)
    PROVE  mail' \in [Workers -> Seq(Messages)]
<1>1. mail \in [Workers -> Seq(Messages)]
    BY DEF TypeOK, Messages
<1>2. Append(mail[w], m) \in Seq(Messages)
    BY <1>1, AppendProperties
<1> QED
    BY <1>1, <1>2 DEF Post

\* An answer that is received names a task and an outcome.
LEMMA AnswerTypes ==
    ASSUME NEW m \in Messages, m.kind = "answer"
    PROVE  m.task \in Tasks /\ m.outcome \in {"ok", "failed"}
BY DEF Messages

\* The files left over by a deal are queued in some order.
LEMMA OrderTypes ==
    ASSUME NEW S, IsFiniteSet(S), NEW q \in Orders(S)
    PROVE  /\ q \in Seq(S)
           /\ \A i, j \in DOMAIN q : q[i] = q[j] => i = j
           /\ \A i \in DOMAIN q : q[i] \in S
           /\ \A s \in S : \E i \in DOMAIN q : q[i] = s
<1>1. Cardinality(S) \in Nat
    BY FS_CardinalityType
<1>2. q \in [1..Cardinality(S) -> S] /\ \A i, j \in DOMAIN q : q[i] = q[j] => i = j
    BY DEF Orders
<1>3. q \in Seq(S)
    BY <1>1, <1>2, IsASeq
<1>4. q \in Injection(1..Cardinality(S), S)
    BY <1>2 DEF Injection, IsInjective
<1>5. IsFiniteSet(1..Cardinality(S)) /\ Cardinality(1..Cardinality(S)) = Cardinality(S)
    BY <1>1, FS_Interval
<1>6. q \in Surjection(1..Cardinality(S), S)
    BY <1>4, <1>5, FS_Injection
<1> QED
    BY <1>2, <1>3, <1>6 DEF Surjection

--------------------------------------------------------------------------------
\* Type correctness: it is inductive by itself.

\* What run() deals out: to the idle workers, to the queue, and to the failures of the
\* sends that throw.
IdleWorkers == {w \in pool : w \in ready /\ current[w] = None}
Unsendable(deal) == {w \in IdleWorkers : SendMayFail(w) /\ deal[w] # None}
Dealt(batch, deal, unsent) ==
    /\ current' = [w \in Workers |-> IF w \in IdleWorkers \ unsent THEN deal[w] ELSE current[w]]
    /\ hand' = [w \in Workers |-> IF w \in IdleWorkers \ unsent THEN deal[w] ELSE hand[w]]
    /\ queue' \in Orders(batch \ {deal[w] : w \in IdleWorkers})
    /\ outcome' = [t \in batch |-> IF \E w \in unsent : deal[w] = t THEN "failed" ELSE None]
Staffed(batch) ==
    \E born \in SUBSET (Workers \ pool) :
        /\ Cardinality(born) = Missing(Cardinality(batch))
        /\ pool' = pool \cup born

LEMMA RunDeals ==
    ASSUME Run
    PROVE  \E batch \in (SUBSET Tasks) \ {{}} :
             /\ phase' = IF Complete(outcome') THEN "resolved" ELSE "running"
             /\ Staffed(batch)
             /\ \E deal \in Deals(IdleWorkers, batch) :
                   \E unsent \in SUBSET Unsendable(deal) : Dealt(batch, deal, unsent)
BY DEF Run, IdleWorkers, Unsendable, Dealt, Staffed

LEMMA RunTypes ==
    ASSUME TypeOK, Run
    PROVE  TypeOK'
<1>1. PICK batch \in (SUBSET Tasks) \ {{}} :
         /\ phase' = IF Complete(outcome') THEN "resolved" ELSE "running"
         /\ Staffed(batch)
         /\ \E deal \in Deals(IdleWorkers, batch) :
               \E unsent \in SUBSET Unsendable(deal) : Dealt(batch, deal, unsent)
    BY RunDeals
<1>2. PICK deal \in Deals(IdleWorkers, batch) :
         \E unsent \in SUBSET Unsendable(deal) : Dealt(batch, deal, unsent)
    BY <1>1
<1>2a. PICK unsent \in SUBSET Unsendable(deal) : Dealt(batch, deal, unsent)
    BY <1>2
<1>3. /\ runs < MaxRuns /\ runs' = runs + 1 /\ tried' = {}
      /\ UNCHANGED <<ready, doomed, deaths, destroyed, thread, mail, backend, crashes>>
    BY DEF Run
<1>4. deal \in [IdleWorkers -> batch \cup {None}]
    BY DEF Deals
<1>5. current' \in [Workers -> Tasks \cup {None}] /\ hand' \in [Workers -> Tasks \cup {None}]
    BY <1>2a, <1>4 DEF TypeOK, Dealt, Unsendable
<1>6. DOMAIN outcome' = batch /\ \A t \in DOMAIN outcome' : outcome'[t] \in {None, "ok", "failed"}
    BY <1>2a DEF Dealt
<1>7. queue' \in Seq(DOMAIN outcome')
  <2> DEFINE rest == batch \ {deal[w] : w \in IdleWorkers}
  <2>1. IsFiniteSet(rest) /\ rest \subseteq batch
    BY PoolAssumption, FS_Subset DEF PoolAssumption
  <2>2. queue' \in Seq(rest)
    BY <1>2a, <2>1, OrderTypes DEF Dealt
  <2> HIDE DEF rest
  <2> QED
    BY <1>6, <2>1, <2>2, SeqMonotonic
<1>8. pool' \subseteq Workers /\ pool \subseteq pool'
    BY <1>1 DEF TypeOK, Staffed
<1>9. runs' \in 0..MaxRuns
    BY <1>3, PoolAssumption DEF TypeOK, PoolAssumption
<1>10. phase' \in {"idle", "running", "resolved", "rejected"}
    BY <1>1
<1> QED
    BY <1>3, <1>5, <1>6, <1>7, <1>8, <1>9, <1>10 DEF TypeOK

LEMMA ExitTypes ==
    ASSUME TypeOK, NEW w \in Workers, OnExit(w)
    PROVE  TypeOK'
<1>1. /\ ready' = ready \ {w} /\ doomed' = doomed \ {w}
      /\ current' = [current EXCEPT ![w] = None]
      /\ hand' = [hand EXCEPT ![w] = None]
      /\ thread' = [thread EXCEPT ![w] = "alive"]
      /\ UNCHANGED <<destroyed, queue, mail, tried, backend, runs, crashes>>
    BY DEF OnExit, Cleared, others
<1>2. deaths' \in 0..2 /\ pool' \in {pool, pool \ {w}}
    BY DEF OnExit, Least, TypeOK
<1>3. /\ phase' \in {"idle", "running", "resolved", "rejected"}
      /\ outcome' = outcome \/ outcome' = LastWords(w)
    BY DEF OnExit, Outcomes, TypeOK
<1>4. /\ DOMAIN outcome' = DOMAIN outcome
      /\ \A t \in DOMAIN outcome' : outcome'[t] \in {None, "ok", "failed"}
    BY <1>3, RecordedTypes DEF LastWords, TypeOK, Results
<1> QED
    BY <1>1, <1>2, <1>3, <1>4 DEF TypeOK

\* The handlers that pass the next file on.
LEMMA HandlerTypes ==
    ASSUME TypeOK, NEW w \in Workers, OnReady(w) \/ OnAnswer(w) \/ OnLost(w)
    PROVE  TypeOK'
<1> DEFINE Passed ==
      /\ current' \in [Workers -> Tasks \cup {None}]
      /\ hand' \in [Workers -> Tasks \cup {None}]
      /\ DOMAIN outcome' = DOMAIN outcome
      /\ \A s \in DOMAIN outcome' : outcome'[s] \in Results
      /\ queue' \in Seq(DOMAIN outcome)
      /\ phase' \in {"idle", "running", "resolved", "rejected"}
      /\ mail' \in [Workers -> Seq(Messages)]
<1>1. CASE OnReady(w)
  <2>1. Passed
    <3>1. mail' \in [Workers -> Seq(Messages)]
        BY <1>1, ReceiveTypes DEF OnReady
    <3>2. HandOver(w, current, TRUE, outcome) /\ current \in [Workers -> Tasks \cup {None}]
          /\ \A t \in DOMAIN outcome : outcome[t] \in Results
        BY <1>1 DEF OnReady, TypeOK, Results
    <3> QED
        BY <3>1, <3>2, HandOverTypes
  <2>2. ready' = ready \cup {w} /\ w \in pool /\ deaths' = 0
        /\ UNCHANGED <<pool, doomed, destroyed, thread, tried, backend, runs, crashes>>
    BY <1>1 DEF OnReady, Has, others
  <2> QED
    BY <2>1, <2>2 DEF TypeOK, Results, Messages
<1>2. CASE OnAnswer(w)
  <2>1. Passed
    <3>1. Head(mail[w]) \in Messages /\ mail' \in [Workers -> Seq(Messages)]
        BY <1>2, ReceiveTypes DEF OnAnswer
    <3>2. Head(mail[w]).outcome \in {"ok", "failed"}
        BY <1>2, <3>1, AnswerTypes DEF OnAnswer, Has
    <3> QED
        BY <1>2, <3>1, <3>2, FinishTypes DEF OnAnswer
  <2>2. UNCHANGED <<pool, ready, doomed, deaths, destroyed, thread, tried, backend, runs, crashes>>
    BY <1>2 DEF OnAnswer, others
  <2> QED
    BY <2>1, <2>2 DEF TypeOK, Results, Messages
<1>3. CASE OnLost(w)
  <2>1. Passed
    <3>1. mail' \in [Workers -> Seq(Messages)]
        BY <1>3, ReceiveTypes DEF OnLost
    <3>2. CASE Finish(w, current[w], "failed")
        BY <3>1, <3>2, FinishTypes
    <3>3. CASE UNCHANGED <<current, hand, queue, outcome, phase>>
        BY <3>1, <3>3 DEF TypeOK, Results
    <3> QED
        BY <1>3, <3>2, <3>3 DEF OnLost, runVars
  <2>2. UNCHANGED <<pool, ready, doomed, deaths, destroyed, thread, tried, backend, runs, crashes>>
    BY <1>3 DEF OnLost, others
  <2> QED
    BY <2>1, <2>2 DEF TypeOK, Results, Messages
<1> QED
    BY <1>1, <1>2, <1>3

LEMMA WorkerTypes ==
    ASSUME TypeOK, NEW w \in Workers, Reap(w) \/ Operate(w)
    PROVE  TypeOK'
<1>1. CASE Reap(w)
    BY <1>1 DEF Reap, Stalled, TypeOK, runVars, others
<1>2. CASE Boot(w)
  <2>1. mail' \in [Workers -> Seq(Messages)]
    BY <1>2, PostTypes DEF Boot, Messages
  <2> QED
    BY <1>2, <2>1 DEF Boot, poolVars, runVars, others, TypeOK, Messages
<1>3. CASE Answer(w)
  <2>1. hand[w] \in Tasks
    BY <1>3 DEF Answer, TypeOK
  <2>2. mail' \in [Workers -> Seq(Messages)]
    <3>1. PICK m \in Messages : Post(w, m)
        BY <1>3, <2>1 DEF Answer, Messages
    <3> QED
        BY <3>1, PostTypes
  <2>3. /\ hand' = [hand EXCEPT ![w] = None] /\ tried' = tried \cup {hand[w]}
        /\ UNCHANGED <<thread, poolVars, runVars, others>>
    BY <1>3 DEF Answer
  <2> QED
    BY <2>1, <2>2, <2>3 DEF poolVars, runVars, others, TypeOK, Messages
<1>4. CASE Hang(w)
    BY <1>4 DEF Hang, poolVars, runVars, others, TypeOK
<1>5. CASE Crash(w)
    BY <1>5, PoolAssumption DEF Crash, poolVars, runVars, TypeOK, PoolAssumption
<1>6. CASE Terminated(w)
    BY <1>6 DEF Terminated, poolVars, runVars, others, TypeOK
<1> QED
    BY <1>1, <1>2, <1>3, <1>4, <1>5, <1>6 DEF Operate

LEMMA InitTypes ==
    ASSUME Init
    PROVE  TypeOK
<1>1. <<>> \in Seq(DOMAIN outcome) /\ mail \in [Workers -> Seq(Messages)]
    BY DEF Init
<1>2. DOMAIN outcome = {}
    BY DEF Init
<1>3. /\ current \in [Workers -> Tasks \cup {None}] /\ hand \in [Workers -> Tasks \cup {None}]
        /\ thread \in [Workers -> {"alive", "dead"}]
    BY DEF Init, Nobody
<1>4. runs \in 0..MaxRuns /\ crashes \in 0..MaxCrashes /\ deaths \in 0..2
    BY PoolAssumption DEF Init, PoolAssumption
<1> QED
    BY <1>1, <1>2, <1>3, <1>4 DEF Init, TypeOK, Messages

LEMMA NextTypes ==
    ASSUME TypeOK, [Next]_vars
    PROVE  TypeOK'
<1>1. CASE Run
    BY <1>1, RunTypes
<1>2. CASE Destroy
    BY <1>2 DEF Destroy, Nobody, others, TypeOK
<1>3. ASSUME NEW w \in Workers, Handle(w) PROVE TypeOK'
    BY <1>3, HandlerTypes, ExitTypes DEF Handle
<1>4. ASSUME NEW w \in Workers, Reap(w) \/ Operate(w) PROVE TypeOK'
    BY <1>4, WorkerTypes
<1>5. CASE UNCHANGED vars
    BY <1>5 DEF vars, TypeOK
<1> QED
    BY <1>1, <1>2, <1>3, <1>4, <1>5 DEF Next

\* The pool's records, the queue, the outcomes and the mailboxes stay well typed; no
\* worker is ready or doomed that the pool does not have.
THEOREM PoolTypeCorrect == Spec => []TypeOK
<1>1. Init => TypeOK
    BY InitTypes
<1>2. TypeOK /\ [Next]_vars => TypeOK'
    BY NextTypes
<1> QED
    BY <1>1, <1>2, PTL DEF Spec

--------------------------------------------------------------------------------
\* The inductive invariant of the runs.

\* Each file of a run is in the queue, with one worker, or has an outcome.
Accounts(held, q, out) ==
    /\ \A i, j \in DOMAIN q : q[i] = q[j] => i = j
    /\ \A i \in DOMAIN q :
          q[i] \in DOMAIN out /\ out[q[i]] = None /\ \A w \in Workers : held[w] # q[i]
    /\ \A w \in Workers : held[w] # None => held[w] \in DOMAIN out /\ out[held[w]] = None
    /\ \A v, w \in Workers : held[v] = held[w] /\ held[v] # None => v = w
    /\ \A t \in DOMAIN out : out[t] = None =>
          (\E i \in DOMAIN q : q[i] = t) \/ (\E w \in Workers : held[w] = t)

Ledger           == phase = "running" => Accounts(current, queue, outcome)
QuietBetweenRuns == phase \in {"idle", "resolved"} => \A w \in Workers : current[w] = None

\* A message on its way: a worker says once that it is ready, and an answer is about
\* the task that the pool believes its worker to hold.
Expected(w, m) ==
    /\ m.kind = "ready" => w \notin ready
    /\ m.kind # "ready" => current[w] # None
    /\ m.kind = "answer" => m.task = current[w] /\ m.task \in tried

\* What the pool knows of a worker and what the worker is about.
Agrees(w) ==
    /\ current[w] # None => w \in ready
    /\ hand[w] # None => hand[w] = current[w]
    /\ mail[w] # <<>> => /\ Tail(mail[w]) = <<>>
                         /\ hand[w] = None
                         /\ Expected(w, Head(mail[w]))

Ind ==
    /\ TypeOK
    /\ Ledger
    /\ QuietBetweenRuns
    /\ \A w \in Workers : Agrees(w)
    /\ ParsedInThisRun

\* A worker that a step does not concern.
LEMMA AgreesFrame ==
    ASSUME NEW w, Agrees(w),
           current'[w] = current[w], hand'[w] = hand[w], mail'[w] = mail[w],
           w \in ready' <=> w \in ready, tried \subseteq tried'
    PROVE  Agrees(w)'
BY DEF Agrees, Expected

\* When every file has an outcome no worker holds one.
LEMMA CompleteFreesAll ==
    ASSUME NEW held, NEW q, NEW out, Accounts(held, q, out), Complete(out)
    PROVE  \A w \in Workers : held[w] = None
BY DEF Accounts, Complete

\* A worker gives its file back and the file gets its outcome.
LEMMA FinishAccounts ==
    ASSUME NEW held \in [Workers -> Tasks \cup {None}], NEW q \in Seq(Tasks), NEW out,
           Accounts(held, q, out),
           NEW w \in Workers, held[w] # None, NEW o \in {"ok", "failed"}
    PROVE  Accounts([held EXCEPT ![w] = None], q, Record(out, held[w], o))
<1> DEFINE after == [held EXCEPT ![w] = None]
           new   == Record(out, held[w], o)
<1>1. /\ DOMAIN new = DOMAIN out
      /\ \A s \in DOMAIN out : new[s] = IF s = held[w] /\ out[s] = None THEN o ELSE out[s]
    BY Recorded DEF None
<1>2. after[w] = None /\ \A v \in Workers : v # w => after[v] = held[v]
    OBVIOUS
<1>3. /\ \A i, j \in DOMAIN q : q[i] = q[j] => i = j
      /\ \A i \in DOMAIN q :
            q[i] \in DOMAIN out /\ out[q[i]] = None /\ \A v \in Workers : held[v] # q[i]
      /\ \A v \in Workers : held[v] # None => held[v] \in DOMAIN out /\ out[held[v]] = None
      /\ \A v, u \in Workers : held[v] = held[u] /\ held[v] # None => v = u
      /\ \A t \in DOMAIN out : out[t] = None =>
            (\E i \in DOMAIN q : q[i] = t) \/ (\E v \in Workers : held[v] = t)
    BY DEF Accounts
<1>4. ASSUME NEW i \in DOMAIN q PROVE q[i] # None
    BY ElementOfSeq, LenProperties, PoolAssumption DEF PoolAssumption, None
<1>5. new[held[w]] = o /\ o # None
    BY <1>1, <1>3 DEF None
<1> HIDE DEF after, new
<1>6. \A i \in DOMAIN q : q[i] \in DOMAIN new /\ new[q[i]] = None /\ \A v \in Workers : after[v] # q[i]
    BY <1>1, <1>2, <1>3, <1>4
<1>7. \A v \in Workers : after[v] # None => after[v] \in DOMAIN new /\ new[after[v]] = None
    BY <1>1, <1>2, <1>3
<1>8. \A v, u \in Workers : after[v] = after[u] /\ after[v] # None => v = u
    BY <1>2, <1>3
<1>9. ASSUME NEW t \in DOMAIN new, new[t] = None
      PROVE  (\E i \in DOMAIN q : q[i] = t) \/ (\E v \in Workers : after[v] = t)
    BY <1>1, <1>2, <1>3, <1>5, <1>9
<1>10. Accounts(after, q, new)
    BY <1>3, <1>6, <1>7, <1>8, <1>9 DEF Accounts
<1> QED
    BY <1>10 DEF after, new

\* assignNext() during a run moves at most one file: from the queue to the worker, or
\* to the failures when it cannot be sent.
LEMMA HandOverAccounts ==
    ASSUME NEW w \in Workers, NEW isReady, NEW out,
           DOMAIN out \subseteq Tasks, queue \in Seq(DOMAIN out),
           NEW held \in [Workers -> Tasks \cup {None}], held[w] = None,
           phase = "running", Accounts(held, queue, out),
           HandOver(w, held, isReady, out)
    PROVE  /\ Accounts(current', queue', outcome')
           /\ phase' \in {"running", "resolved"}
           /\ phase' = "resolved" => \A v \in Workers : current'[v] = None
<1> DEFINE takes == phase = "running" /\ ~Complete(out) /\ isReady /\ held[w] = None /\ queue # <<>>
           next  == Head(queue)
<1>1. ASSUME NEW new, Outcomes(new)
      PROVE  /\ outcome' = new
             /\ phase' \in {"running", "resolved"}
             /\ phase' = "resolved" => Complete(new)
    BY <1>1 DEF Outcomes
<1>2. /\ \A i, j \in DOMAIN queue : queue[i] = queue[j] => i = j
      /\ \A i \in DOMAIN queue : queue[i] \in DOMAIN out /\ out[queue[i]] = None
                                    /\ \A v \in Workers : held[v] # queue[i]
      /\ \A v \in Workers : held[v] # None => held[v] \in DOMAIN out /\ out[held[v]] = None
      /\ \A v, u \in Workers : held[v] = held[u] /\ held[v] # None => v = u
      /\ \A t \in DOMAIN out : out[t] = None =>
            (\E i \in DOMAIN queue : queue[i] = t) \/ (\E v \in Workers : held[v] = t)
    BY DEF Accounts
<1>3. ASSUME queue # <<>>
      PROVE  /\ 1 \in DOMAIN queue /\ next = queue[1] /\ next \in Tasks /\ next # None
             /\ \A i \in DOMAIN Tail(queue) : i + 1 \in DOMAIN queue /\ Tail(queue)[i] = queue[i + 1]
             /\ \A j \in DOMAIN queue :
                   j # 1 => j - 1 \in DOMAIN Tail(queue) /\ Tail(queue)[j - 1] = queue[j]
             /\ \A i \in DOMAIN Tail(queue) : i \in Nat /\ i # 0 /\ Tail(queue)[i] # next
  <2>1. /\ 1 \in DOMAIN queue /\ next = queue[1] /\ next \in DOMAIN out /\ Tail(queue) \in Seq(DOMAIN out)
        /\ \A i \in DOMAIN Tail(queue) : i + 1 \in DOMAIN queue /\ Tail(queue)[i] = queue[i + 1]
        /\ \A j \in DOMAIN queue :
              j # 1 => j - 1 \in DOMAIN Tail(queue) /\ Tail(queue)[j - 1] = queue[j]
    BY <1>3, TakeFirst
  <2>2. \A i \in DOMAIN Tail(queue) : i \in Nat /\ i # 0
    BY <2>1, LenProperties
  <2>3. ASSUME NEW i \in DOMAIN Tail(queue) PROVE Tail(queue)[i] # next
    <3>1. i + 1 # 1 /\ i + 1 \in DOMAIN queue /\ Tail(queue)[i] = queue[i + 1]
        BY <2>1, <2>2
    <3> QED
        BY <1>2, <2>1, <3>1
  <2> QED
    BY <2>1, <2>2, <2>3, PoolAssumption DEF PoolAssumption, None
<1>4. ASSUME queue # <<>>
      PROVE  /\ \A i, j \in DOMAIN Tail(queue) : Tail(queue)[i] = Tail(queue)[j] => i = j
             /\ \A i \in DOMAIN Tail(queue) :
                   /\ Tail(queue)[i] \in DOMAIN out /\ out[Tail(queue)[i]] = None
                   /\ \A v \in Workers : held[v] # Tail(queue)[i]
             /\ \A i \in DOMAIN queue : queue[i] = next \/ \E j \in DOMAIN Tail(queue) : Tail(queue)[j] = queue[i]
  <2>1. ASSUME NEW i \in DOMAIN Tail(queue), NEW j \in DOMAIN Tail(queue),
               Tail(queue)[i] = Tail(queue)[j]
        PROVE  i = j
    <3>1. i + 1 = j + 1 /\ i \in Nat /\ j \in Nat
        BY <1>2, <1>3, <1>4, <2>1
    <3> QED
        BY <3>1
  <2>2. ASSUME NEW i \in DOMAIN Tail(queue)
        PROVE  /\ Tail(queue)[i] \in DOMAIN out /\ out[Tail(queue)[i]] = None
               /\ \A v \in Workers : held[v] # Tail(queue)[i]
    <3>1. i + 1 \in DOMAIN queue /\ Tail(queue)[i] = queue[i + 1]
        BY <1>3, <1>4
    <3> QED
        BY <1>2, <3>1
  <2>3. ASSUME NEW i \in DOMAIN queue
        PROVE  queue[i] = next \/ \E j \in DOMAIN Tail(queue) : Tail(queue)[j] = queue[i]
    BY <1>3, <1>4
  <2> QED
    BY <2>1, <2>2, <2>3
<1>5. CASE ~takes /\ current' = held /\ Outcomes(out) /\ UNCHANGED <<queue, hand>>
  <2>1. outcome' = out /\ queue' = queue /\ current' = held
    BY <1>1, <1>5
  <2> QED
    BY <1>1, <1>5, <2>1, CompleteFreesAll
<1>6. CASE /\ takes
           /\ current' = [held EXCEPT ![w] = next]
           /\ queue' = Tail(queue)
           /\ Outcomes(out)
  <2>1. outcome' = out
    BY <1>1, <1>6
  <2>2. current'[w] = next /\ \A v \in Workers : v # w => current'[v] = held[v]
    BY <1>6
  <2>3. queue # <<>> /\ held[w] = None /\ queue' = Tail(queue)
    BY <1>6
  <2> HIDE DEF next, takes
  <2>4. \A i \in DOMAIN queue' :
            /\ queue'[i] \in DOMAIN out /\ out[queue'[i]] = None
            /\ \A v \in Workers : current'[v] # queue'[i]
    BY <1>3, <1>4, <2>2, <2>3
  <2>5. \A v \in Workers : current'[v] # None => current'[v] \in DOMAIN out /\ out[current'[v]] = None
    BY <1>2, <1>3, <2>2, <2>3
  <2>6. \A v, u \in Workers : current'[v] = current'[u] /\ current'[v] # None => v = u
    BY <1>2, <1>3, <2>2, <2>3
  <2>7. ASSUME NEW t \in DOMAIN out, out[t] = None
        PROVE  (\E i \in DOMAIN queue' : queue'[i] = t) \/ (\E v \in Workers : current'[v] = t)
    <3>1. CASE \E i \in DOMAIN queue : queue[i] = t
        BY <1>4, <2>2, <2>3, <3>1
    <3>2. CASE \E v \in Workers : held[v] = t
      <4>1. t # None
        BY PoolAssumption DEF PoolAssumption, None
      <4> QED
        BY <2>2, <2>3, <3>2, <4>1
    <3> QED
        BY <1>2, <2>7, <3>1, <3>2
  <2>8. Accounts(current', queue', outcome')
    BY <1>4, <2>1, <2>3, <2>4, <2>5, <2>6, <2>7 DEF Accounts
  <2> QED
    BY <1>1, <1>6, <2>1, <2>8, CompleteFreesAll
<1>7. CASE /\ takes
           /\ current' = held
           /\ queue' = Tail(queue)
           /\ Outcomes(Unsent(out, next))
  <2>1. outcome' = Record(out, next, "failed") /\ queue' = Tail(queue) /\ current' = held
    BY <1>1, <1>7 DEF Unsent
  <2>2. queue # <<>>
    BY <1>7
  <2> HIDE DEF next, takes
  <2>3. /\ DOMAIN outcome' = DOMAIN out
        /\ outcome'[next] = "failed" /\ "failed" # None
        /\ \A s \in DOMAIN out : s # next => outcome'[s] = out[s]
    BY <1>2, <1>3, <2>1, <2>2, Recorded DEF None
  <2>4. \A i \in DOMAIN queue' :
            /\ queue'[i] \in DOMAIN outcome' /\ outcome'[queue'[i]] = None
            /\ \A v \in Workers : current'[v] # queue'[i]
    BY <1>3, <1>4, <2>1, <2>2, <2>3
  <2>5. \A v \in Workers : held[v] # next
    BY <1>2, <1>3, <2>2
  <2>6. \A v \in Workers :
            current'[v] # None => current'[v] \in DOMAIN outcome' /\ outcome'[current'[v]] = None
    BY <1>2, <2>1, <2>3, <2>5
  <2>7. ASSUME NEW t \in DOMAIN outcome', outcome'[t] = None
        PROVE  (\E i \in DOMAIN queue' : queue'[i] = t) \/ (\E v \in Workers : current'[v] = t)
    <3>1. t # next /\ t \in DOMAIN out /\ out[t] = None
        BY <2>3, <2>7
    <3> QED
        BY <1>2, <1>4, <2>1, <2>2, <3>1
  <2>8. Accounts(current', queue', outcome')
    BY <1>2, <1>4, <2>1, <2>2, <2>4, <2>6, <2>7 DEF Accounts
  <2> QED
    BY <1>1, <1>7, <2>1, <2>8, CompleteFreesAll
<1> QED
    BY <1>5, <1>6, <1>7 DEF HandOver

\* What assignNext() leaves alone.
LEMMA HandOverFrame ==
    ASSUME NEW w \in Workers, NEW isReady, NEW out,
           NEW held \in [Workers -> Tasks \cup {None}],
           hand \in [Workers -> Tasks \cup {None}],
           HandOver(w, held, isReady, out)
    PROVE  /\ \A v \in Workers : v # w => current'[v] = held[v] /\ hand'[v] = hand[v]
           /\ \/ current'[w] = held[w] /\ hand'[w] = hand[w]
              \/ current'[w] = hand'[w]
           /\ phase # "running" => phase' = phase /\ current' = held
           /\ \A t \in DOMAIN outcome' : outcome'[t] = "ok" => t \in DOMAIN out /\ out[t] = "ok"
<1> DEFINE takes == phase = "running" /\ ~Complete(out) /\ isReady /\ held[w] = None /\ queue # <<>>
           next  == Head(queue)
<1>1. CASE ~takes /\ current' = held /\ Outcomes(out) /\ UNCHANGED <<queue, hand>>
    BY <1>1 DEF Outcomes
<1>2. CASE /\ takes
           /\ current' = [held EXCEPT ![w] = next]
           /\ hand' = [hand EXCEPT ![w] = next]
           /\ Outcomes(out)
    BY <1>2 DEF Outcomes
<1>3. CASE /\ takes
           /\ current' = held
           /\ Outcomes(Unsent(out, next))
           /\ UNCHANGED hand
  <2>1. outcome' = Record(out, next, "failed")
    BY <1>3 DEF Outcomes, Unsent
  <2>2. \A t \in DOMAIN outcome' : outcome'[t] = "ok" => t \in DOMAIN out /\ out[t] = "ok"
    BY <2>1, Recorded DEF None
  <2> QED
    BY <1>3, <2>2
<1> QED
    BY <1>1, <1>2, <1>3 DEF HandOver

\* A worker whose message is taken in gets another file, or none.
LEMMA HandOverInd ==
    ASSUME Ind, NEW w \in Workers, NEW out,
           NEW held \in [Workers -> Tasks \cup {None}], held[w] = None,
           \A v \in Workers : v # w => held[v] = current[v],
           DOMAIN out = DOMAIN outcome,
           phase = "running" => Accounts(held, queue, out),
           \A t \in DOMAIN out : out[t] = "ok" => t \in tried,
           NEW isReady, HandOver(w, held, isReady, out), w \in ready', hand[w] = None,
           \A v \in Workers : v # w => mail'[v] = mail[v] /\ (v \in ready' <=> v \in ready),
           mail'[w] = <<>>, tried' = tried
    PROVE  /\ Ledger' /\ QuietBetweenRuns'
           /\ \A v \in Workers : Agrees(v)'
           /\ ParsedInThisRun'
<1>1. /\ \A v \in Workers : v # w => current'[v] = held[v] /\ hand'[v] = hand[v]
      /\ \/ current'[w] = held[w] /\ hand'[w] = hand[w]
         \/ current'[w] = hand'[w]
      /\ phase # "running" => phase' = phase /\ current' = held
      /\ \A t \in DOMAIN outcome' : outcome'[t] = "ok" => t \in DOMAIN out /\ out[t] = "ok"
  <2>1. hand \in [Workers -> Tasks \cup {None}]
    BY DEF Ind, TypeOK
  <2> QED
    BY <2>1, HandOverFrame
<1>2. phase = "running" =>
         /\ Accounts(current', queue', outcome')
         /\ phase' \in {"running", "resolved"}
         /\ phase' = "resolved" => \A v \in Workers : current'[v] = None
  <2>1. DOMAIN out \subseteq Tasks /\ queue \in Seq(DOMAIN out)
    BY DEF Ind, TypeOK
  <2> QED
    BY <2>1, HandOverAccounts
<1>3. Ledger'
    BY <1>1, <1>2 DEF Ledger
<1>4. QuietBetweenRuns'
    BY <1>1, <1>2 DEF QuietBetweenRuns, Ind
<1>5. ASSUME NEW v \in Workers PROVE Agrees(v)'
  <2>1. CASE v = w
    BY <1>1, <2>1 DEF Agrees
  <2>2. CASE v # w
    BY <1>1, <2>2, AgreesFrame DEF Ind
  <2> QED
    BY <2>1, <2>2
<1>6. ParsedInThisRun'
    BY <1>1 DEF ParsedInThisRun
<1> QED
    BY <1>3, <1>4, <1>5, <1>6

\* A worker that had a file, whose message is taken in.
LEMMA FinishInd ==
    ASSUME Ind, NEW w \in Workers, NEW o \in {"ok", "failed"},
           current[w] # None, hand[w] = None, o = "ok" => current[w] \in tried,
           Finish(w, current[w], o),
           \A v \in Workers : v # w => mail'[v] = mail[v],
           mail'[w] = <<>>, tried' = tried, ready' = ready
    PROVE  /\ Ledger' /\ QuietBetweenRuns'
           /\ \A v \in Workers : Agrees(v)'
           /\ ParsedInThisRun'
<1> DEFINE held == [current EXCEPT ![w] = None]
           out  == IF phase = "running" THEN Record(outcome, current[w], o) ELSE outcome
<1>1. /\ held \in [Workers -> Tasks \cup {None}] /\ held[w] = None
      /\ \A v \in Workers : v # w => held[v] = current[v]
    BY DEF Ind, TypeOK
<1>2. /\ DOMAIN out = DOMAIN outcome
      /\ \A t \in DOMAIN out : out[t] = "ok" => t \in tried
    BY Recorded DEF Ind, ParsedInThisRun, None
<1>3. phase = "running" => Accounts(held, queue, out)
  <2>1. SUFFICES ASSUME phase = "running"
                 PROVE  Accounts(held, queue, Record(outcome, current[w], o))
    OBVIOUS
  <2>2. current \in [Workers -> Tasks \cup {None}] /\ queue \in Seq(DOMAIN outcome)
        /\ DOMAIN outcome \subseteq Tasks /\ Accounts(current, queue, outcome)
    BY <2>1 DEF Ind, TypeOK, Ledger
  <2>3. queue \in Seq(Tasks)
    BY <2>2, SeqMonotonic
  <2> QED
    BY <2>2, <2>3, FinishAccounts
<1>4. HandOver(w, held, w \in ready, out)
    BY DEF Finish
<1>5. w \in ready'
    BY DEF Ind, Agrees
<1> HIDE DEF held, out
<1> QED
    BY <1>1, <1>2, <1>3, <1>4, <1>5, HandOverInd

LEMMA HandlerInd ==
    ASSUME Ind, NEW w \in Workers, OnReady(w) \/ OnAnswer(w) \/ OnLost(w)
    PROVE  /\ Ledger' /\ QuietBetweenRuns'
           /\ \A v \in Workers : Agrees(v)'
           /\ ParsedInThisRun'
<1>1. \A v \in Workers : Agrees(v)
    BY DEF Ind
<1>2. ASSUME NEW k, Has(w, k), Receive(w)
      PROVE  /\ hand[w] = None /\ Expected(w, Head(mail[w])) /\ Head(mail[w]).kind = k
             /\ mail'[w] = <<>> /\ \A v \in Workers : v # w => mail'[v] = mail[v]
    BY <1>1, <1>2 DEF Agrees, Has, Receive, Ind, TypeOK
<1>3. CASE OnReady(w)
  <2>1. hand[w] = None /\ w \notin ready /\ mail'[w] = <<>>
        /\ \A v \in Workers : v # w => mail'[v] = mail[v]
    BY <1>2, <1>3 DEF OnReady, Expected
  <2>2. current[w] = None
    BY <1>1, <2>1 DEF Agrees
  <2>3. ready' = ready \cup {w} /\ tried' = tried /\ HandOver(w, current, TRUE, outcome)
    BY <1>3 DEF OnReady
  <2>4. HandOver(w, current, TRUE, outcome)
    BY <2>3
  <2>5. /\ current \in [Workers -> Tasks \cup {None}]
        /\ \A t \in DOMAIN outcome : outcome[t] = "ok" => t \in tried
        /\ phase = "running" => Accounts(current, queue, outcome)
    BY DEF Ind, TypeOK, ParsedInThisRun, Ledger
  <2> QED
    BY <2>1, <2>2, <2>3, <2>4, <2>5, HandOverInd
<1>4. CASE OnAnswer(w)
  <2> DEFINE m == Head(mail[w])
  <2>1. /\ hand[w] = None /\ current[w] # None /\ m.task = current[w] /\ m.task \in tried
        /\ m.kind = "answer" /\ mail'[w] = <<>>
        /\ \A v \in Workers : v # w => mail'[v] = mail[v]
    BY <1>2, <1>4 DEF OnAnswer, Expected
  <2>2. m.outcome \in {"ok", "failed"}
    BY <1>4, <2>1, ReceiveTypes, AnswerTypes DEF OnAnswer, Ind
  <2>3. Finish(w, current[w], m.outcome) /\ ready' = ready /\ tried' = tried
    BY <1>4, <2>1 DEF OnAnswer
  <2> HIDE DEF m
  <2> QED
    BY <2>1, <2>2, <2>3, FinishInd
<1>5. CASE OnLost(w)
  <2>1. /\ hand[w] = None /\ current[w] # None /\ mail'[w] = <<>>
        /\ \A v \in Workers : v # w => mail'[v] = mail[v]
    BY <1>2, <1>5 DEF OnLost, Expected
  <2>2. Finish(w, current[w], "failed") /\ ready' = ready /\ tried' = tried
    BY <1>5, <2>1 DEF OnLost
  <2> QED
    BY <2>1, <2>2, FinishInd
<1> QED
    BY <1>3, <1>4, <1>5

\* A worker that exits takes its file with it: the file fails, unless the run does.
LEMMA ExitInd ==
    ASSUME Ind, NEW w \in Workers, OnExit(w)
    PROVE  /\ Ledger' /\ QuietBetweenRuns'
           /\ \A v \in Workers : Agrees(v)'
           /\ ParsedInThisRun'
<1>1. /\ mail[w] = <<>> /\ ready' = ready \ {w}
      /\ current' = [current EXCEPT ![w] = None]
      /\ hand' = [hand EXCEPT ![w] = None]
      /\ UNCHANGED <<queue, mail, tried>>
    BY DEF OnExit, Cleared
<1>2. \/ /\ phase' = IF phase = "running" THEN "rejected" ELSE phase
         /\ outcome' = outcome
      \/ Outcomes(LastWords(w))
    BY DEF OnExit
<1>3. /\ current \in [Workers -> Tasks \cup {None}] /\ hand \in [Workers -> Tasks \cup {None}]
      /\ DOMAIN outcome \subseteq Tasks /\ queue \in Seq(DOMAIN outcome)
    BY DEF Ind, TypeOK
<1>4. current'[w] = None /\ hand'[w] = None
      /\ \A v \in Workers : v # w => current'[v] = current[v] /\ hand'[v] = hand[v]
    BY <1>1, <1>3
<1>5. phase = "running" => Accounts(current', queue', LastWords(w))
  <2>1. SUFFICES ASSUME phase = "running" PROVE Accounts(current', queue, LastWords(w))
    BY <1>1
  <2>2. Accounts(current, queue, outcome)
    BY <2>1 DEF Ind, Ledger
  <2>3. CASE current[w] = None
    <3>1. current' = current
        BY <1>1, <1>3, <2>3
    <3> QED
        BY <2>2, <2>3, <3>1 DEF LastWords
  <2>4. CASE current[w] # None
    <3>1. queue \in Seq(Tasks)
        BY <1>3, SeqMonotonic
    <3>2. Accounts([current EXCEPT ![w] = None], queue, Record(outcome, current[w], "failed"))
        BY <1>3, <2>2, <2>4, <3>1, FinishAccounts
    <3> QED
        BY <1>1, <2>1, <2>4, <3>2 DEF LastWords
  <2> QED
    BY <2>3, <2>4
<1>6. Ledger'
    BY <1>2, <1>5 DEF Ledger, Outcomes
<1>7. QuietBetweenRuns'
  <2>1. CASE phase \in {"idle", "resolved"}
    BY <1>4, <2>1 DEF Ind, QuietBetweenRuns
  <2>2. ASSUME phase \notin {"idle", "resolved"}, phase' \in {"idle", "resolved"}
        PROVE  phase = "running" /\ Complete(LastWords(w))
    BY <1>2, <2>2 DEF Outcomes
  <2> QED
    BY <1>5, <2>1, <2>2, CompleteFreesAll DEF QuietBetweenRuns
<1>8. ASSUME NEW v \in Workers PROVE Agrees(v)'
  <2>1. CASE v = w
    BY <1>1, <1>4, <2>1 DEF Agrees
  <2>2. CASE v # w
    BY <1>1, <1>4, <2>2, AgreesFrame DEF Ind
  <2> QED
    BY <2>1, <2>2
<1>9. ParsedInThisRun'
  <2>1. \A t \in DOMAIN LastWords(w) : LastWords(w)[t] = "ok" => t \in DOMAIN outcome /\ outcome[t] = "ok"
    BY Recorded DEF LastWords, None
  <2>2. outcome' \in {outcome, LastWords(w)}
    BY <1>2 DEF Outcomes
  <2> QED
    BY <1>1, <2>1, <2>2 DEF Ind, ParsedInThisRun
<1> QED
    BY <1>6, <1>7, <1>8, <1>9

\* run() starts from a pool of which no worker holds a file or owes an answer.
LEMMA RunInd ==
    ASSUME Ind, Run
    PROVE  /\ Ledger' /\ QuietBetweenRuns'
           /\ \A v \in Workers : Agrees(v)'
           /\ ParsedInThisRun'
<1>1. PICK batch \in (SUBSET Tasks) \ {{}} :
         /\ phase' = IF Complete(outcome') THEN "resolved" ELSE "running"
         /\ \E deal \in Deals(IdleWorkers, batch) :
               \E unsent \in SUBSET Unsendable(deal) : Dealt(batch, deal, unsent)
    BY RunDeals
<1>2. PICK deal \in Deals(IdleWorkers, batch) :
         \E unsent \in SUBSET Unsendable(deal) : Dealt(batch, deal, unsent)
    BY <1>1
<1>3. PICK unsent \in SUBSET Unsendable(deal) : Dealt(batch, deal, unsent)
    BY <1>2
<1> DEFINE idle  == IdleWorkers
           given == idle \ unsent
           rest  == batch \ {deal[w] : w \in idle}
<1>4. \A w \in Workers : current[w] = None /\ hand[w] = None
    BY DEF Run, Ind, QuietBetweenRuns, Agrees
<1>5. mail' = mail /\ ready' = ready /\ idle \subseteq ready /\ idle \subseteq Workers /\ unsent \subseteq idle
    BY DEF Run, IdleWorkers, Unsendable, Ind, TypeOK
<1>6. /\ \A v \in idle : deal[v] \in batch \/ deal[v] = None
      /\ \A v, w \in idle : deal[v] = deal[w] /\ deal[v] # None => v = w
    BY DEF Deals
<1>7. /\ \A w \in given : current'[w] = deal[w] /\ hand'[w] = deal[w]
      /\ \A w \in Workers \ given : current'[w] = None /\ hand'[w] = None
    BY <1>3, <1>4, <1>5 DEF Dealt
<1>8. /\ DOMAIN outcome' = batch
      /\ \A t \in batch : outcome'[t] = IF \E w \in unsent : deal[w] = t THEN "failed" ELSE None
    BY <1>3 DEF Dealt
<1>9. /\ \A i, j \in DOMAIN queue' : queue'[i] = queue'[j] => i = j
      /\ \A i \in DOMAIN queue' : queue'[i] \in rest
      /\ \A t \in rest : \E i \in DOMAIN queue' : queue'[i] = t
  <2>1. IsFiniteSet(rest)
    BY PoolAssumption, FS_Subset DEF PoolAssumption
  <2>2. queue' \in Orders(rest)
    BY <1>3 DEF Dealt
  <2> HIDE DEF rest
  <2> QED
    BY <2>1, <2>2, OrderTypes
<1>10. None \notin batch /\ "failed" # None /\ "ok" # None
    BY PoolAssumption DEF PoolAssumption, None
<1> HIDE DEF idle
<1>11. Accounts(current', queue', outcome')
  <2>1. ASSUME NEW i \in DOMAIN queue'
        PROVE  /\ queue'[i] \in DOMAIN outcome' /\ outcome'[queue'[i]] = None
               /\ \A w \in Workers : current'[w] # queue'[i]
    BY <1>5, <1>7, <1>8, <1>9, <1>10 DEF idle
  <2>2. ASSUME NEW w \in Workers, current'[w] # None
        PROVE  current'[w] \in DOMAIN outcome' /\ outcome'[current'[w]] = None
    BY <1>5, <1>6, <1>7, <1>8, <2>2
  <2>3. ASSUME NEW v \in Workers, NEW w \in Workers, current'[v] = current'[w], current'[v] # None
        PROVE  v = w
    BY <1>5, <1>6, <1>7, <2>3
  <2>4. ASSUME NEW t \in DOMAIN outcome', outcome'[t] = None
        PROVE  (\E i \in DOMAIN queue' : queue'[i] = t) \/ (\E w \in Workers : current'[w] = t)
    <3>1. CASE t \in rest
        BY <1>9, <3>1
    <3>2. CASE t \notin rest
      <4>1. PICK w \in idle : deal[w] = t
        BY <1>8, <3>2 DEF idle
      <4>2. w \in given /\ w \in Workers
        BY <1>5, <1>8, <1>10, <2>4, <4>1
      <4> QED
        BY <1>7, <4>1, <4>2
    <3> QED
        BY <3>1, <3>2
  <2> QED
    BY <1>9, <2>1, <2>2, <2>3, <2>4 DEF Accounts
<1>12. Ledger'
    BY <1>11 DEF Ledger
<1>13. QuietBetweenRuns'
    BY <1>1, <1>11, CompleteFreesAll DEF QuietBetweenRuns
<1>14. ASSUME NEW v \in Workers PROVE Agrees(v)'
  <2>1. mail[v] # <<>> => Tail(mail[v]) = <<>> /\ Head(mail[v]).kind = "ready" /\ v \notin ready
    BY <1>4 DEF Ind, Agrees, Expected
  <2>2. CASE v \in given
    BY <1>5, <1>7, <2>1, <2>2 DEF Agrees
  <2>3. CASE v \notin given
    BY <1>5, <1>7, <2>1, <2>3 DEF Agrees, Expected
  <2> QED
    BY <2>2, <2>3
<1>15. ParsedInThisRun'
    BY <1>8, <1>10 DEF ParsedInThisRun
<1> QED
    BY <1>12, <1>13, <1>14, <1>15

\* What a worker does by itself.
LEMMA WorkerInd ==
    ASSUME Ind, NEW w \in Workers, Reap(w) \/ Operate(w)
    PROVE  /\ Ledger' /\ QuietBetweenRuns'
           /\ \A v \in Workers : Agrees(v)'
           /\ ParsedInThisRun'
<1>1. UNCHANGED <<pool, ready, current, queue, outcome, phase>> /\ tried \subseteq tried'
    BY DEF Reap, Operate, Boot, Answer, Hang, Crash, Terminated, poolVars, runVars
<1>2. Ledger' /\ QuietBetweenRuns' /\ ParsedInThisRun'
    BY <1>1 DEF Ind, Ledger, QuietBetweenRuns, ParsedInThisRun
<1>3. /\ mail \in [Workers -> Seq(Messages)] /\ hand \in [Workers -> Tasks \cup {None}]
      /\ \A v \in Workers : Agrees(v)
    BY DEF Ind, TypeOK, Messages
<1>4. \A v \in Workers : v # w => mail'[v] = mail[v] /\ hand'[v] = hand[v]
    BY <1>3 DEF Reap, Operate, Boot, Answer, Hang, Crash, Terminated, Post, runVars
<1>5. ASSUME NEW m, Post(w, m), mail[w] = <<>>
      PROVE  mail'[w] # <<>> /\ Tail(mail'[w]) = <<>> /\ Head(mail'[w]) = m
  <2>1. mail'[w] = Append(<<>>, m)
    BY <1>3, <1>5 DEF Post
  <2>2. <<>> \in Seq({m}) /\ m \in {m}
    OBVIOUS
  <2> QED
    BY <2>1, <2>2, HeadTailAppend, AppendProperties
<1>6. Agrees(w)'
  <2>1. CASE Reap(w)
    BY <1>1, <1>3, <2>1 DEF Reap, Agrees, Expected
  <2>2. CASE Boot(w)
    <3>1. hand' = hand /\ current[w] = None /\ hand[w] = None /\ w \notin ready'
        BY <1>1, <1>3, <2>2 DEF Boot, Agrees
    <3>2. mail'[w] # <<>> /\ Tail(mail'[w]) = <<>> /\ Head(mail'[w]) = [kind |-> "ready"]
        BY <1>5, <2>2 DEF Boot
    <3> QED
        BY <1>1, <3>1, <3>2 DEF Agrees, Expected
  <2>3. CASE Answer(w)
    <3>1. /\ hand[w] # None /\ current[w] = hand[w] /\ w \in ready /\ mail[w] = <<>>
          /\ hand'[w] = None /\ hand[w] \in tried'
        BY <1>3, <2>3 DEF Answer, Agrees
    <3>2. PICK m : /\ Post(w, m)
                   /\ m.kind # "ready"
                   /\ m.kind = "answer" => m.task = hand[w]
        BY <2>3 DEF Answer
    <3>3. mail'[w] # <<>> /\ Tail(mail'[w]) = <<>> /\ Head(mail'[w]) = m
        BY <1>5, <3>1, <3>2
    <3> QED
        BY <1>1, <3>1, <3>2, <3>3 DEF Agrees, Expected
  <2>4. CASE Hang(w)
    BY <1>1, <1>3, <2>4 DEF Hang, Agrees, Expected
  <2>5. CASE Crash(w) \/ Terminated(w)
    <3>1. mail' = mail /\ hand' = hand
        BY <2>5 DEF Crash, Terminated
    <3> QED
        BY <1>1, <1>3, <3>1, AgreesFrame
  <2> QED
    BY <2>1, <2>2, <2>3, <2>4, <2>5 DEF Operate
<1>7. ASSUME NEW v \in Workers, v # w PROVE Agrees(v)'
    BY <1>1, <1>3, <1>4, <1>7, AgreesFrame
<1> QED
    BY <1>2, <1>6, <1>7

LEMMA Inductive == Spec => []Ind
<1>1. Init => Ind
  <2> SUFFICES ASSUME Init PROVE Ind
    OBVIOUS
  <2>1. Ledger /\ QuietBetweenRuns /\ ParsedInThisRun
    BY DEF Init, Nobody, Ledger, QuietBetweenRuns, ParsedInThisRun
  <2>2. \A w \in Workers : Agrees(w)
    BY DEF Init, Nobody, Agrees
  <2>3. TypeOK
    BY InitTypes
  <2> QED
    BY <2>1, <2>2, <2>3 DEF Ind
<1>2. Ind /\ [Next]_vars => Ind'
  <2> SUFFICES ASSUME Ind, [Next]_vars
               PROVE  /\ Ledger' /\ QuietBetweenRuns'
                      /\ \A w \in Workers : Agrees(w)'
                      /\ ParsedInThisRun'
    BY NextTypes DEF Ind
  <2>1. CASE Run
    BY <2>1, RunInd
  <2>2. CASE Destroy
    BY <2>2 DEF Destroy, Nobody, Ind, Ledger, QuietBetweenRuns, Agrees, ParsedInThisRun
  <2>3. ASSUME NEW w \in Workers, OnReady(w) \/ OnAnswer(w) \/ OnLost(w)
        PROVE  Ledger' /\ QuietBetweenRuns' /\ (\A v \in Workers : Agrees(v)') /\ ParsedInThisRun'
    BY <2>3, HandlerInd
  <2>4. ASSUME NEW w \in Workers, OnExit(w)
        PROVE  Ledger' /\ QuietBetweenRuns' /\ (\A v \in Workers : Agrees(v)') /\ ParsedInThisRun'
    BY <2>4, ExitInd
  <2>5. ASSUME NEW w \in Workers, Reap(w) \/ Operate(w)
        PROVE  Ledger' /\ QuietBetweenRuns' /\ (\A v \in Workers : Agrees(v)') /\ ParsedInThisRun'
    BY <2>5, WorkerInd
  <2>6. CASE UNCHANGED vars
    <3>1. UNCHANGED <<current, queue, outcome, phase, tried>>
        BY <2>6 DEF vars
    <3>2. \A w \in Workers : Agrees(w)'
        BY <2>6, AgreesFrame DEF vars, Ind
    <3> QED
        BY <3>1, <3>2 DEF Ind, Ledger, QuietBetweenRuns, ParsedInThisRun
  <2> QED
    BY <2>1, <2>2, <2>3, <2>4, <2>5, <2>6 DEF Next, Handle
<1> QED
    BY <1>1, <1>2, PTL DEF Spec

\* While a run goes on each of its files is in exactly one place, and between two runs
\* nobody holds one: no file is lost, none is parsed twice, and no answer of one run
\* can be taken for an answer of the next.
THEOREM NoTaskIsLost == Spec => []NoTaskLost
<1>1. Ind => NoTaskLost
  <2> SUFFICES ASSUME Ind PROVE NoTaskLost
    OBVIOUS
  <2>1. pool \subseteq Workers /\ \A w \in Workers : current[w] # None => w \in pool
    BY DEF Ind, Agrees, TypeOK
  <2>2. phase = "resolved" => \A w \in pool : current[w] = None
    BY <2>1 DEF Ind, QuietBetweenRuns
  <2>3. ASSUME phase = "running", NEW t \in DOMAIN outcome
        PROVE  /\ Queued(t) => Holders(t) = {} /\ outcome[t] = None
               /\ outcome[t] # None => Holders(t) = {}
               /\ outcome[t] = None /\ ~Queued(t) => \E w \in pool : Holders(t) = {w}
    <3>1. Accounts(current, queue, outcome) /\ t # None
        BY <2>3, PoolAssumption DEF Ind, Ledger, TypeOK, PoolAssumption, None
    <3>2. Queued(t) => Holders(t) = {} /\ outcome[t] = None
        BY <2>1, <3>1 DEF Accounts, Queued, Holders
    <3>3. outcome[t] # None => Holders(t) = {}
        BY <2>1, <3>1 DEF Accounts, Holders
    <3>4. ASSUME outcome[t] = None, ~Queued(t) PROVE \E w \in pool : Holders(t) = {w}
      <4>1. PICK w \in Workers : current[w] = t
        BY <3>1, <3>4 DEF Accounts, Queued
      <4>2. w \in pool /\ \A v \in pool : current[v] = t => v = w
        BY <2>1, <3>1, <4>1 DEF Accounts
      <4> QED
        BY <4>1, <4>2 DEF Holders
    <3> QED
        BY <3>2, <3>3, <3>4
  <2> QED
    BY <2>2, <2>3 DEF NoTaskLost
<1> QED
    BY <1>1, Inductive, PTL

\* A file counts as parsed only when a thread took it up in this very run, although the
\* runs of a pool use the same task ids and its threads outlive them.
THEOREM ParsedIsParsedNow == Spec => []ParsedInThisRun
<1>1. Ind => ParsedInThisRun
    BY DEF Ind
<1> QED
    BY <1>1, Inductive, PTL

--------------------------------------------------------------------------------
\* The pool is used to the full while files wait.

\* A handler that passes the next file on to a worker that is ready.
LEMMA HandOverBusy ==
    ASSUME TypeOK, WorkersKeepBusy, NEW w \in Workers, NEW out,
           NEW held \in [Workers -> Tasks \cup {None}],
           \A v \in Workers : v # w => held[v] = current[v],
           DOMAIN out = DOMAIN outcome, \A t \in DOMAIN out : out[t] \in Results,
           HandOver(w, held, TRUE, out),
           ready' \subseteq ready \cup {w}, UNCHANGED <<pool, thread, backend>>
    PROVE  WorkersKeepBusy'
<1> DEFINE takes == phase = "running" /\ ~Complete(out) /\ held[w] = None /\ queue # <<>>
           next  == Head(queue)
<1>1. queue # <<>> => next # None
  <2>1. queue \in Seq(DOMAIN outcome) /\ DOMAIN outcome \subseteq Tasks
    BY DEF TypeOK
  <2> QED
    BY <2>1, TakeFirst, PoolAssumption DEF PoolAssumption, None
<1>2. ASSUME phase' = "running", queue' # <<>>
      PROVE  /\ phase = "running" /\ queue # <<>>
             /\ current'[w] # None \/ SendMayFail(w)
             /\ \A v \in Workers : v # w => current'[v] = current[v]
  <2>1. CASE ~takes /\ current' = held /\ Outcomes(out) /\ UNCHANGED <<queue, hand>>
    BY <1>2, <2>1 DEF Outcomes
  <2>2. CASE /\ takes
             /\ current' = [held EXCEPT ![w] = next]
    BY <1>1, <2>2
  <2>3. CASE takes /\ SendMayFail(w) /\ current' = held
    BY <2>3
  <2> QED
    BY <2>1, <2>2, <2>3 DEF HandOver
<1>3. DOMAIN outcome' = DOMAIN outcome
  <2>1. HandOver(w, held, TRUE, out)
    OBVIOUS
  <2> QED
    BY <2>1, HandOverTypes
<1>4. ASSUME phase' = "running", queue' # <<>>
      PROVE  /\ Missing(Cardinality(DOMAIN outcome))' = 0
             /\ \A v \in ready' : current'[v] # None \/ SendMayFail(v)'
  <2>1. /\ Missing(Cardinality(DOMAIN outcome)) = 0
        /\ \A v \in ready : current[v] # None \/ SendMayFail(v)
    BY <1>2, <1>4 DEF WorkersKeepBusy
  <2>2. Missing(Cardinality(DOMAIN outcome))' = 0
    BY <1>3, <2>1 DEF Missing
  <2>3. ASSUME NEW v \in ready' PROVE current'[v] # None \/ SendMayFail(v)'
    <3>1. v \in Workers /\ (v = w \/ v \in ready)
        BY DEF TypeOK
    <3>2. SendMayFail(v)' <=> SendMayFail(v)
        BY DEF SendMayFail
    <3> QED
        BY <1>2, <1>4, <2>1, <3>1, <3>2
  <2> QED
    BY <2>2, <2>3
<1> QED
    BY <1>4 DEF WorkersKeepBusy

LEMMA HandlerBusy ==
    ASSUME Ind, WorkersKeepBusy, NEW w \in Workers, OnReady(w) \/ OnAnswer(w) \/ OnLost(w)
    PROVE  WorkersKeepBusy'
<1>1. TypeOK /\ Agrees(w)
    BY DEF Ind
<1>2. ASSUME NEW t, NEW o \in {"ok", "failed"}, Finish(w, t, o), w \in ready,
             UNCHANGED <<pool, ready, thread, backend>>
      PROVE  WorkersKeepBusy'
  <2> DEFINE held == [current EXCEPT ![w] = None]
             out  == IF phase = "running" THEN Record(outcome, t, o) ELSE outcome
  <2>1. held \in [Workers -> Tasks \cup {None}] /\ \A v \in Workers : v # w => held[v] = current[v]
    BY <1>1 DEF TypeOK
  <2>2. DOMAIN out = DOMAIN outcome /\ \A s \in DOMAIN out : out[s] \in Results
    BY <1>1, RecordedTypes DEF TypeOK, Results
  <2>3. HandOver(w, held, w \in ready, out)
    BY <1>2 DEF Finish
  <2> HIDE DEF held, out
  <2>4. HandOver(w, held, TRUE, out)
    BY <1>2, <2>3 DEF HandOver
  <2> QED
    BY <1>1, <1>2, <2>1, <2>2, <2>4, HandOverBusy
<1>3. CASE OnReady(w)
  <2>1. /\ current \in [Workers -> Tasks \cup {None}]
        /\ \A t \in DOMAIN outcome : outcome[t] \in Results
    BY <1>1 DEF TypeOK, Results
  <2>2. HandOver(w, current, TRUE, outcome) /\ ready' = ready \cup {w} /\ UNCHANGED <<pool, thread, backend>>
    BY <1>3 DEF OnReady, others
  <2> QED
    BY <1>1, <2>1, <2>2, HandOverBusy
<1>4. CASE OnAnswer(w)
  <2>1. mail[w] # <<>> /\ Head(mail[w]).kind = "answer" /\ Head(mail[w]) \in Messages
    BY <1>1, <1>4, ReceiveTypes DEF OnAnswer, Has
  <2>2. w \in ready /\ Head(mail[w]).outcome \in {"ok", "failed"}
    BY <1>1, <2>1, AnswerTypes DEF Agrees, Expected
  <2> QED
    BY <1>2, <1>4, <2>2 DEF OnAnswer, others
<1>5. CASE OnLost(w)
  <2>1. mail[w] # <<>> /\ Head(mail[w]).kind = "lost"
    BY <1>5 DEF OnLost, Has
  <2>2. w \in ready /\ current[w] # None
    BY <1>1, <2>1 DEF Agrees, Expected
  <2> QED
    BY <1>2, <1>5, <2>2 DEF OnLost, others
<1> QED
    BY <1>3, <1>4, <1>5

\* run() spawns the workers that are missing, and deals a file to every idle one
\* before it lets a file wait.
LEMMA RunBusy ==
    ASSUME TypeOK, Run
    PROVE  WorkersKeepBusy'
<1>1. PICK batch \in (SUBSET Tasks) \ {{}} :
         /\ Staffed(batch)
         /\ \E deal \in Deals(IdleWorkers, batch) :
               \E unsent \in SUBSET Unsendable(deal) : Dealt(batch, deal, unsent)
    BY RunDeals
<1>2. PICK deal \in Deals(IdleWorkers, batch) :
         \E unsent \in SUBSET Unsendable(deal) : Dealt(batch, deal, unsent)
    BY <1>1
<1>3. PICK unsent \in SUBSET Unsendable(deal) : Dealt(batch, deal, unsent)
    BY <1>2
<1>4. UNCHANGED <<ready, thread, backend>> /\ ready \subseteq pool
      /\ current \in [Workers -> Tasks \cup {None}] /\ pool \subseteq Workers
    BY DEF Run, TypeOK
<1>5. DOMAIN outcome' = batch /\ IsFiniteSet(batch)
    BY <1>3, PoolAssumption, FS_Subset DEF Dealt, PoolAssumption
<1>6. Missing(Cardinality(batch))' = 0
  <2>1. PICK born \in SUBSET (Workers \ pool) :
            Cardinality(born) = Missing(Cardinality(batch)) /\ pool' = pool \cup born
    BY <1>1 DEF Staffed
  <2>2. IsFiniteSet(pool) /\ IsFiniteSet(born) /\ IsFiniteSet(Workers)
    BY <1>4, PoolAssumption, FS_Subset DEF PoolAssumption
  <2>3. /\ Cardinality(pool) \in Nat /\ Cardinality(born) \in Nat
        /\ Cardinality(Workers) \in Nat /\ Cardinality(batch) \in Nat
    BY <1>5, <2>2, FS_CardinalityType
  <2>4. pool \cap born = {}
    OBVIOUS
  <2>5. Cardinality(pool') = Cardinality(pool) + Cardinality(born)
    BY <2>1, <2>2, <2>3, <2>4, FS_Union, FS_EmptySet
  <2> QED
    BY <2>1, <2>3, <2>5 DEF Missing, Least
<1>7. ASSUME queue' # <<>>, NEW w \in ready' PROVE current'[w] # None \/ SendMayFail(w)'
  <2> DEFINE rest == batch \ {deal[v] : v \in IdleWorkers}
  <2>1. rest # {}
    <3>1. IsFiniteSet(rest) /\ queue' \in Orders(rest)
        BY <1>3, <1>5, FS_Subset DEF Dealt
    <3> HIDE DEF rest
    <3>2. queue' \in Seq(rest) /\ \A i \in DOMAIN queue' : queue'[i] \in rest
        BY <3>1, OrderTypes
    <3>3. 1 \in DOMAIN queue'
        BY <1>7, <3>2, TakeFirst
    <3> QED
        BY <3>2, <3>3
  <2>2. w \in ready /\ w \in Workers /\ (SendMayFail(w)' <=> SendMayFail(w))
    BY <1>4, <1>7 DEF SendMayFail
  <2>3. CASE w \notin IdleWorkers
    BY <1>3, <1>4, <2>2, <2>3 DEF Dealt, IdleWorkers
  <2>4. CASE w \in unsent
    BY <2>2, <2>4 DEF Unsendable
  <2>5. CASE w \in IdleWorkers \ unsent
    <3>1. deal[w] # None
        BY <2>1, <2>5 DEF Deals
    <3> QED
        BY <1>3, <2>2, <2>5, <3>1 DEF Dealt
  <2> QED
    BY <2>3, <2>4, <2>5
<1> QED
    BY <1>5, <1>6, <1>7 DEF WorkersKeepBusy

\* While files wait the pool is at full strength, whatever workers it has lost, and a
\* worker that is ready has a file unless a failed send has shown that it is dead.
THEOREM WorkersStayBusy == Spec => []WorkersKeepBusy
<1>1. Init => WorkersKeepBusy
    BY DEF Init, WorkersKeepBusy
<1>2. Ind /\ WorkersKeepBusy /\ [Next]_vars => WorkersKeepBusy'
  <2> SUFFICES ASSUME Ind, WorkersKeepBusy, [Next]_vars PROVE WorkersKeepBusy'
    OBVIOUS
  <2>1. TypeOK
    BY DEF Ind
  <2>2. CASE Run
    BY <2>1, <2>2, RunBusy
  <2>3. CASE Destroy
    BY <2>3 DEF Destroy, WorkersKeepBusy
  <2>4. ASSUME NEW w \in Workers, OnReady(w) \/ OnAnswer(w) \/ OnLost(w) PROVE WorkersKeepBusy'
    BY <2>4, HandlerBusy
  <2>5. ASSUME NEW w \in Workers, OnExit(w) PROVE WorkersKeepBusy'
    <3>1. SUFFICES ASSUME phase' = "running", queue' # <<>>
                   PROVE  /\ Missing(Cardinality(DOMAIN outcome))' = 0
                          /\ \A v \in ready' : current'[v] # None \/ SendMayFail(v)'
        BY DEF WorkersKeepBusy
    <3>2. /\ phase = "running" /\ queue' = queue /\ pool' = pool /\ Outcomes(LastWords(w))
        BY <2>5, <3>1 DEF OnExit, Outcomes, Replaced
    <3>3. DOMAIN outcome' = DOMAIN outcome
        BY <3>2, Recorded DEF Outcomes, LastWords, None
    <3>4. /\ ready' = ready \ {w} /\ UNCHANGED backend
          /\ \A v \in Workers : v # w => current'[v] = current[v] /\ thread'[v] = thread[v]
        BY <2>1, <2>5 DEF OnExit, Cleared, others, TypeOK
    <3>5. /\ Missing(Cardinality(DOMAIN outcome)) = 0
          /\ \A v \in ready : current[v] # None \/ SendMayFail(v)
        BY <3>1, <3>2 DEF WorkersKeepBusy
    <3>6. Missing(Cardinality(DOMAIN outcome))' = 0
        BY <3>2, <3>3, <3>5 DEF Missing
    <3>7. ASSUME NEW v \in ready' PROVE current'[v] # None \/ SendMayFail(v)'
        BY <2>1, <3>4, <3>5 DEF SendMayFail, TypeOK
    <3> QED
        BY <3>6, <3>7
  <2>6. ASSUME NEW w \in Workers, Reap(w) \/ Operate(w) PROVE WorkersKeepBusy'
    <3>1. UNCHANGED <<backend, pool, ready, current, queue, outcome, phase>>
        BY <2>6 DEF Reap, Operate, Boot, Answer, Hang, Crash, Terminated, poolVars, runVars, others
    <3>2. \A v \in Workers : SendMayFail(v) => SendMayFail(v)'
        BY <2>1, <2>6, <3>1
           DEF Reap, Operate, Boot, Answer, Hang, Crash, Terminated, SendMayFail, TypeOK
    <3>3. ready \subseteq Workers
        BY <2>1 DEF TypeOK
    <3> QED
        BY <3>1, <3>2, <3>3 DEF WorkersKeepBusy, Missing
  <2>7. CASE UNCHANGED vars
    BY <2>7 DEF vars, WorkersKeepBusy, Missing, SendMayFail
  <2> QED
    BY <2>2, <2>3, <2>4, <2>5, <2>6, <2>7 DEF Next, Handle
<1> QED
    BY <1>1, <1>2, Inductive, PTL DEF Spec
================================================================================
