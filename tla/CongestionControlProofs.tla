------------------------ MODULE CongestionControlProofs ------------------------
(***************************************************************************)
(* Proofs about CongestionControl, for any number of calls and any options. *)
(*                                                                         *)
(* Every step of a call is a step of the semaphore or leaves it alone: what *)
(* AIMDSemaphoreProofs proves of the semaphore holds of the one the calls   *)
(* share.  On top of it the inductive invariant Positions relates where a   *)
(* call is to where the semaphore has its permit.                          *)
(***************************************************************************)
EXTENDS CongestionControl, SequenceTheorems, FiniteSetTheorems, TLAPS

Proved == INSTANCE AIMDSemaphoreProofs

--------------------------------------------------------------------------------
\* The semaphore of the calls is the semaphore of the proofs.
LEMMA SameOptions == Proved!OptionsAssumption /\ Proved!ClientsAssumption
BY SemaphoreAssumption
   DEF Sem!OptionsAssumption, Sem!ClientsAssumption,
       Proved!OptionsAssumption, Proved!ClientsAssumption, Sem!IsFiniteSet, Proved!IsFiniteSet

LEMMA SameInit == Sem!Init <=> Proved!Init
BY DEF Sem!Init, Proved!Init, Sem!Initial, Proved!Initial, Sem!MinLimit, Proved!MinLimit,
       Sem!Least, Proved!Least, Sem!Greatest, Proved!Greatest

LEMMA SameNext == Sem!Next <=> Proved!Next
BY DEF
    Sem!Least, Proved!Least, Sem!Greatest, Proved!Greatest, Sem!SoftMax, Proved!SoftMax,
    Sem!MinLimit, Proved!MinLimit, Sem!Initial, Proved!Initial, Sem!Holders, Proved!Holders,
    Sem!InLine, Proved!InLine, Sem!Idle, Proved!Idle, Sem!Open, Proved!Open, Sem!Served,
    Proved!Served, Sem!Drain, Proved!Drain, Sem!Init, Proved!Init, Sem!QueueHasRoom,
    Proved!QueueHasRoom, Sem!AcquireNow, Proved!AcquireNow, Sem!Enqueue, Proved!Enqueue,
    Sem!Abandon, Proved!Abandon, Sem!FirstCall, Proved!FirstCall, Sem!Release,
    Proved!Release, Sem!RecoveredLimit, Proved!RecoveredLimit, Sem!StreakPays,
    Proved!StreakPays, Sem!RaiseTo, Proved!RaiseTo, Sem!RecordSuccess, Proved!RecordSuccess,
    Sem!CutLimit, Proved!CutLimit, Sem!OpensWindow, Proved!OpensWindow, Sem!RecordRateLimit,
    Proved!RecordRateLimit, Sem!FreezeElapses, Proved!FreezeElapses, Sem!CooldownEnd,
    Proved!CooldownEnd, Sem!Next, Proved!Next, Sem!permits, Proved!permits, Sem!policy,
    Proved!policy, Sem!vars, Proved!vars

LEMMA SameVars == Sem!vars = Proved!vars /\ Sem!vars' = Proved!vars'
BY DEF Sem!vars, Proved!vars

LEMMA SameTypes == Sem!TypeOK <=> Proved!TypeOK
BY DEF Sem!TypeOK, Proved!TypeOK

LEMMA SameAccounting == Sem!PermitAccounting <=> Proved!PermitAccounting
BY DEF Sem!PermitAccounting, Proved!PermitAccounting, Sem!Holders, Proved!Holders,
       Sem!Cardinality, Proved!Cardinality

LEMMA SameWakeup == Sem!NoLostWakeup <=> Proved!NoLostWakeup
BY DEF Sem!NoLostWakeup, Proved!NoLostWakeup

\* A specification of the semaphore keeps the invariants proved of it.
LEMMA SemaphoreInvariants ==
    Sem!Spec => [](Sem!TypeOK /\ Sem!PermitAccounting /\ Sem!NoLostWakeup)
<1>1. Sem!Init => Proved!Ind
    BY SameOptions, SameInit, Proved!InitInd
<1>2. Proved!Ind /\ [Sem!Next]_(Sem!vars) => Proved!Ind'
  <2>1. [Sem!Next]_(Sem!vars) => [Proved!Next]_(Proved!vars)
    BY SameNext, SameVars
  <2> QED
    BY <2>1, SameOptions, Proved!StepInd
<1>3. Proved!Ind => Sem!TypeOK /\ Sem!PermitAccounting /\ Sem!NoLostWakeup
    BY SameTypes, SameAccounting, SameWakeup DEF Proved!Ind
<1> QED
    BY <1>1, <1>2, <1>3, PTL DEF Sem!Spec

--------------------------------------------------------------------------------
\* The calls use the semaphore as its specification allows.

SemaphoreStep == [Sem!Next]_(Sem!vars)

LEMMA CallStep ==
    ASSUME NEW c \in Clients, Step(c)
    PROVE  SemaphoreStep
<1>1. ASSUME UNCHANGED <<permits, policy>> PROVE SemaphoreStep
    BY <1>1 DEF SemaphoreStep, permits, policy, Sem!vars
<1>2. ASSUME Sem!RecordSuccess \/ Sem!Release(c) \/ Sem!RecordRateLimit
             \/ Sem!AcquireNow(c) \/ Sem!Enqueue(c) \/ Sem!Abandon(c)
      PROVE  SemaphoreStep
    BY <1>2 DEF SemaphoreStep, Sem!Next
<1>3. CASE Attempt(c) \/ FailFast(c) \/ AbortTake(c) \/ Call(c) \/ Wake(c) \/ AbortSleep(c)
    BY <1>1, <1>3 DEF Attempt, FailFast, AbortTake, Call, Wake, AbortSleep
<1>4. CASE Acquire(c)
    BY <1>1, <1>2, <1>4 DEF Acquire
<1>5. CASE LeaveQueue(c) \/ Released(c) \/ Recorded(c)
    BY <1>2, <1>5 DEF LeaveQueue, Released, Recorded
<1>6. CASE Settle(c)
    BY <1>1, <1>2, <1>6 DEF Settle, Succeed, Fail, RateLimited, CountsSuccess, FreesPermit
<1> QED
    BY <1>3, <1>4, <1>5, <1>6 DEF Step

\* The actions of the calls are made of the semaphore's, so that a behaviour of the
\* calls is one of the semaphore, and what is proved of it can be used here.
LEMMA CallsUseSemaphore == Spec => Sem!Spec
<1>1. Init => Sem!Init
    BY DEF Init
<1>2. [Next]_vars => [Sem!Next]_(Sem!vars)
  <2> SUFFICES ASSUME [Next]_vars PROVE SemaphoreStep
    BY DEF SemaphoreStep
  <2>1. ASSUME NEW c \in Clients, Step(c) PROVE SemaphoreStep
    BY <2>1, CallStep
  <2>2. CASE Abort \/ StreakAges \/ ProbeInterval \/ UNCHANGED vars
    BY <2>2 DEF Abort, StreakAges, ProbeInterval, vars, permits, policy, SemaphoreStep, Sem!vars
  <2>3. CASE Timers
    BY <2>3 DEF Timers, SemaphoreStep, Sem!Next
  <2> QED
    BY <2>1, <2>2, <2>3 DEF Next
<1> QED
    BY <1>1, <1>2, PTL DEF Spec, Sem!Spec

\* Hence what is proved of the semaphore holds under its real callers: its permits are
\* counted, and no call waits in a queue that nothing will wake.
SemaphoreOK == Sem!TypeOK /\ Sem!PermitAccounting /\ Sem!NoLostWakeup

THEOREM NoCallIsForgotten == Spec => []SemaphoreOK
<1>1. Sem!Spec => []SemaphoreOK
    BY SemaphoreInvariants DEF SemaphoreOK
<1> QED
    BY <1>1, CallsUseSemaphore, PTL

--------------------------------------------------------------------------------
\* Type correctness.  A call that sleeps has an attempt left.

OwnTypes ==
    /\ pc \in [Clients -> {"start", "take", "acquire", "call", "sleep", "done", "failed"}]
    /\ attempt \in [Clients -> 1..MaxAttempts]
    /\ sync = <<>> \/ sync \in Clients \X {"release", "record"}
    /\ consecutive \in 0..QuotaMin /\ failures \in 0..ConnMin
    /\ {aged, quotaClaimed, connClaimed, aborted} \subseteq BOOLEAN
    /\ probing \subseteq Clients
    /\ probes \in 0..MaxProbes

SleepersMayRetry == \A c \in Clients : pc[c] = "sleep" => attempt[c] < MaxAttempts

LEMMA StepTypes ==
    ASSUME OwnTypes, SleepersMayRetry, NEW c \in Clients, Step(c)
    PROVE  OwnTypes' /\ SleepersMayRetry'
<1>1. /\ MaxAttempts \in Nat \ {0} /\ QuotaMin \in Nat \ {0} /\ ConnMin \in Nat \ {0} /\ MaxProbes \in Nat
    BY LoopAssumption DEF LoopAssumption
<1> DEFINE Places == {"start", "take", "acquire", "call", "sleep", "done", "failed"}
<1>2. ASSUME NEW where \in Places \ {"sleep"}, Goto(c, where), UNCHANGED attempt
      PROVE  pc' \in [Clients -> Places] /\ SleepersMayRetry'
    BY <1>2 DEF Goto, OwnTypes, SleepersMayRetry
<1>3. ASSUME UNCHANGED <<pc, attempt>> PROVE pc' \in [Clients -> Places] /\ SleepersMayRetry'
    BY <1>3 DEF OwnTypes, SleepersMayRetry
<1>4. CASE Attempt(c) \/ FailFast(c)
  <2>1. pc' \in [Clients -> Places] /\ SleepersMayRetry'
    BY <1>2, <1>4 DEF Attempt, FailFast
  <2>2. quotaClaimed \in BOOLEAN /\ connClaimed \in BOOLEAN
    BY DEF OwnTypes
  <2>3. QuotaOpen \in BOOLEAN /\ ConnOpen \in BOOLEAN
    BY DEF QuotaOpen, ConnOpen
  <2> HIDE DEF QuotaOpen, ConnOpen
  <2>4. quotaClaimed' \in BOOLEAN /\ connClaimed' \in BOOLEAN
    BY Zenon, <1>4, <2>2, <2>3 DEF Attempt, FailFast
  <2>5. probing' \subseteq Clients
    BY <1>4 DEF Attempt, FailFast, OwnTypes
  <2>6. UNCHANGED <<attempt, sync, consecutive, aged, failures, aborted, probes>>
    BY <1>4 DEF Attempt, FailFast
  <2> QED
    BY <2>1, <2>4, <2>5, <2>6 DEF OwnTypes
<1>5. CASE Acquire(c) \/ AbortTake(c) \/ LeaveQueue(c) \/ Call(c)
  <2>1. UNCHANGED <<attempt, sync, quota, conn, probing, aborted, probes>>
    BY <1>5 DEF Acquire, AbortTake, LeaveQueue, Call
  <2>2. pc' \in [Clients -> Places] /\ SleepersMayRetry'
    BY <1>2, <1>5, <2>1 DEF Acquire, AbortTake, LeaveQueue, Call
  <2> QED
    BY <2>1, <2>2 DEF OwnTypes, quota, conn
<1>6. CASE Succeed(c)
  <2>1. UNCHANGED <<pc, attempt, quotaClaimed, probing, aborted, probes>>
    BY <1>6 DEF Succeed, calls
  <2>2. sync' = <<c, "release">> /\ consecutive' = 0 /\ failures' = 0
    BY <1>6 DEF Succeed
  <2>3. aged' \in BOOLEAN /\ connClaimed' \in BOOLEAN
    BY Zenon, <1>6 DEF Succeed
  <2>4. sync' \in Clients \X {"release", "record"} /\ consecutive' \in 0..QuotaMin /\ failures' \in 0..ConnMin
    BY <1>1, <2>2
  <2> QED
    BY <1>3, <2>1, <2>3, <2>4 DEF OwnTypes
<1>7. CASE Fail(c)
  <2>1. failures' \in 0..ConnMin
    BY <1>1, <1>7 DEF Fail, OwnTypes, Least
  <2> QED
    BY <1>2, <1>7, <2>1 DEF Fail, OwnTypes, quota
<1>8. CASE RateLimited(c)
    BY <1>3, <1>8 DEF RateLimited, calls, quota, conn, OwnTypes
<1>9. CASE Released(c)
    BY <1>2, <1>9 DEF Released, quota, conn, OwnTypes
<1>10. CASE Recorded(c)
  <2>1. consecutive' \in 0..QuotaMin
    BY <1>1, <1>10 DEF Recorded, OwnTypes, Least
  <2>2. pc' \in [Clients -> Places] /\ SleepersMayRetry'
    <3>1. CASE Goto(c, "failed")
        BY <1>2, <1>10, <3>1 DEF Recorded
    <3>2. CASE ~LastAttempt(c) /\ Goto(c, "sleep")
        BY <1>1, <1>10, <3>2 DEF Recorded, LastAttempt, Goto, OwnTypes, SleepersMayRetry
    <3> QED
        BY <1>10, <3>1, <3>2 DEF Recorded
  <2> QED
    BY <1>10, <2>1, <2>2 DEF Recorded, conn, OwnTypes
<1>11. CASE Wake(c)
  <2>1. attempt[c] \in 1..MaxAttempts /\ attempt[c] < MaxAttempts
    BY <1>11 DEF Wake, OwnTypes, SleepersMayRetry
  <2>2. attempt' \in [Clients -> 1..MaxAttempts] /\ SleepersMayRetry'
    BY <1>1, <1>11, <2>1 DEF Wake, Goto, OwnTypes, SleepersMayRetry
  <2> QED
    BY <1>11, <2>2 DEF Wake, Goto, quota, conn, OwnTypes
<1>12. CASE AbortSleep(c)
    BY <1>2, <1>12 DEF AbortSleep, quota, conn, OwnTypes
<1> QED
    BY <1>4, <1>5, <1>6, <1>7, <1>8, <1>9, <1>10, <1>11, <1>12 DEF Step, Settle

LEMMA OwnTypesInvariant == Spec => [](OwnTypes /\ SleepersMayRetry)
<1>1. Init => OwnTypes /\ SleepersMayRetry
  <2> SUFFICES ASSUME Init PROVE OwnTypes /\ SleepersMayRetry
    OBVIOUS
  <2>1. aged \in BOOLEAN /\ quotaClaimed \in BOOLEAN /\ connClaimed \in BOOLEAN /\ aborted \in BOOLEAN
    BY Zenon DEF Init
  <2>2. /\ pc \in [Clients -> {"start", "take", "acquire", "call", "sleep", "done", "failed"}]
        /\ attempt \in [Clients -> 1..MaxAttempts] /\ sync = <<>> /\ probing = {}
        /\ consecutive \in 0..QuotaMin /\ failures \in 0..ConnMin /\ probes \in 0..MaxProbes
    BY LoopAssumption DEF LoopAssumption, Init
  <2>3. SleepersMayRetry
    BY DEF Init, SleepersMayRetry
  <2> QED
    BY <2>1, <2>2, <2>3 DEF OwnTypes
<1>2. OwnTypes /\ SleepersMayRetry /\ [Next]_vars => OwnTypes' /\ SleepersMayRetry'
  <2> SUFFICES ASSUME OwnTypes, SleepersMayRetry, [Next]_vars
               PROVE  OwnTypes' /\ SleepersMayRetry'
    OBVIOUS
  <2>1. ASSUME NEW c \in Clients, Step(c) PROVE OwnTypes' /\ SleepersMayRetry'
    BY <2>1, StepTypes
  <2>2. CASE Abort \/ StreakAges \/ Timers \/ UNCHANGED vars
    BY <2>2 DEF Abort, StreakAges, Timers, vars, calls, quota, conn, OwnTypes, SleepersMayRetry
  <2>3. CASE ProbeInterval
    BY <2>3, LoopAssumption DEF LoopAssumption, ProbeInterval, calls, OwnTypes, SleepersMayRetry
  <2> QED
    BY <2>1, <2>2, <2>3 DEF Next
<1> QED
    BY <1>1, <1>2, PTL DEF Spec

\* The state of the calls, the semaphore and the breakers is well typed; no call makes
\* more attempts than it may.
THEOREM CallsTypeCorrect == Spec => []TypeOK
<1>1. OwnTypes /\ SemaphoreOK => TypeOK
    BY DEF OwnTypes, SemaphoreOK, TypeOK
<1> QED
    BY <1>1, OwnTypesInvariant, NoCallIsForgotten, PTL

--------------------------------------------------------------------------------
\* Where the permits are.

Held(c) == c \in Sem!Holders

\* A call waits for its permit in the line or with the permit granted already, and
\* inside a synchronous block it is at the provider's await.
Positions ==
    \A c \in Clients :
        /\ Sem!InLine(c) => pc[c] = "acquire"
        /\ Held(c) => pc[c] \in {"acquire", "call"}
        /\ pc[c] = "acquire" => Held(c) \/ Sem!InLine(c)
        /\ pc[c] = "call" => Held(c) \/ sync = <<c, "record">>
        /\ sync \in {<<c, "release">>, <<c, "record">>} => pc[c] = "call"
        /\ sync = <<c, "record">> => ~Held(c)

\* A call that is in line is there once and holds nothing.
LEMMA LineFacts ==
    ASSUME SemaphoreOK
    PROVE  /\ queue \in Seq(Clients)
           /\ \A i, j \in DOMAIN queue : queue[i] = queue[j] => i = j
           /\ \A c \in Clients : Sem!InLine(c) => ~Held(c)
           /\ \A c \in Clients : Held(c) <=> handle[c] = "held"
BY DEF SemaphoreOK, Sem!TypeOK, Sem!PermitAccounting, Sem!InLine, Sem!Holders, Held

\* What a drain does to the calls: those of the line that leave it hold a permit, the
\* others stay as they are, but for the calls in gone, which have just given theirs back.
Moves(gone) ==
    \A c \in Clients :
        /\ Held(c)' => (Held(c) /\ c \notin gone) \/ Sem!InLine(c)
        /\ Held(c) /\ c \notin gone => Held(c)'
        /\ Sem!InLine(c)' => Sem!InLine(c)
        /\ Sem!InLine(c) => Sem!InLine(c)' \/ Held(c)'

LEMMA DrainMoves ==
    ASSUME SemaphoreOK, NEW gone,
           NEW h \in [Clients -> {"none", "held", "released"}],
           \A c \in Clients : h[c] = "held" <=> Held(c) /\ c \notin gone,
           NEW busy \in Nat, NEW lim \in Nat, NEW closed \in BOOLEAN,
           Sem!Drain(h, busy, lim, closed)
    PROVE  Moves(gone)
<1> DEFINE n == Sem!Served(queue, busy, lim, closed)
           L == Len(queue)
<1>1. queue \in Seq(Clients) /\ L \in Nat /\ DOMAIN queue = 1..L
    BY LineFacts
<1>2. n \in 0..L
  <2>1. n = Proved!Served(queue, busy, lim, closed)
    BY DEF Sem!Served, Proved!Served, Sem!Open, Proved!Open, Sem!Least, Proved!Least
  <2> QED
    BY <1>1, <2>1, SameOptions, Proved!ServedBounds
<1>3. /\ handle' = [c \in Clients |-> IF \E i \in 1..n : queue[i] = c THEN "held" ELSE h[c]]
      /\ queue' = SubSeq(queue, n + 1, L)
    BY DEF Sem!Drain
<1> HIDE DEF n
<1>4. /\ DOMAIN SubSeq(queue, n + 1, L) = 1..(L - n)
      /\ \A i \in 1..(L - n) : SubSeq(queue, n + 1, L)[i] = queue[i + n]
    BY <1>1, <1>2, SameOptions, Proved!Suffix
<1>5. \A i \in 1..n : i \in DOMAIN queue
    BY <1>1, <1>2
<1>6. ASSUME NEW c \in Clients, NEW i \in DOMAIN queue, queue[i] = c
      PROVE  i \in 1..n \/ (i - n \in DOMAIN queue' /\ queue'[i - n] = c)
  <2>1. i \in 1..n \/ (i - n \in 1..(L - n) /\ (i - n) + n = i)
    BY <1>1, <1>2
  <2> QED
    BY <1>3, <1>4, <1>6, <2>1
<1>7. ASSUME NEW i \in DOMAIN queue' PROVE i + n \in DOMAIN queue /\ queue'[i] = queue[i + n]
    BY <1>1, <1>2, <1>3, <1>4
<1>8. ASSUME NEW c \in Clients
      PROVE  /\ Held(c)' <=> (\E i \in 1..n : queue[i] = c) \/ h[c] = "held"
             /\ Sem!InLine(c)' <=> \E i \in DOMAIN queue' : queue'[i] = c
             /\ Sem!InLine(c) <=> \E i \in DOMAIN queue : queue[i] = c
    BY <1>3 DEF Held, Sem!Holders, Sem!InLine
<1> QED
    BY <1>5, <1>6, <1>7, <1>8 DEF Moves

LEMMA ReleaseMoves ==
    ASSUME SemaphoreOK, NEW c \in Clients, Held(c), Sem!Release(c)
    PROVE  Moves({c})
<1>1. /\ handle \in [Clients -> {"none", "held", "released"}]
      /\ inFlight \in Nat /\ limit \in Nat /\ frozen \in BOOLEAN
      /\ inFlight = Cardinality(Sem!Holders)
  <2>1. Sem!Cardinality(Sem!Holders) = Cardinality(Sem!Holders)
    BY DEF Sem!Cardinality, Cardinality
  <2> QED
    BY <2>1 DEF SemaphoreOK, Sem!TypeOK, Sem!PermitAccounting
<1>2. inFlight - 1 \in Nat
  <2>1. IsFiniteSet(Sem!Holders)
    <3>1. IsFiniteSet(Clients)
        BY SemaphoreAssumption DEF Sem!ClientsAssumption, Sem!IsFiniteSet, IsFiniteSet
    <3> QED
        BY <3>1, FS_Subset DEF Sem!Holders
  <2>2. Cardinality(Sem!Holders) # 0
    BY <2>1, FS_EmptySet DEF Held
  <2> QED
    BY <1>1, <2>2
<1> DEFINE h == [handle EXCEPT ![c] = "released"]
<1>3. h \in [Clients -> {"none", "held", "released"}]
    BY <1>1
<1>4. \A d \in Clients : h[d] = "held" <=> Held(d) /\ d \notin {c}
    BY <1>1, LineFacts
<1>5. Sem!Drain(h, inFlight - 1, limit, frozen)
    BY LineFacts DEF Sem!Release, Sem!FirstCall
<1> HIDE DEF h
<1> QED
    BY <1>1, <1>2, <1>3, <1>4, <1>5, DrainMoves

\* Nobody's permit is given back.
LEMMA StayMoves ==
    ASSUME SemaphoreOK, UNCHANGED permits \/ CountsSuccess \/ Sem!FreezeElapses \/ Sem!CooldownEnd
    PROVE  Moves({})
<1>1. /\ handle \in [Clients -> {"none", "held", "released"}]
      /\ inFlight \in Nat /\ limit \in Nat \ {0} /\ frozen \in BOOLEAN
    BY DEF SemaphoreOK, Sem!TypeOK
<1>2. \A c \in Clients : handle[c] = "held" <=> Held(c) /\ c \notin {}
    BY LineFacts
<1>3. ASSUME NEW lim \in Nat, Sem!Drain(handle, inFlight, lim, frozen) PROVE Moves({})
    BY <1>1, <1>2, <1>3, DrainMoves
<1>4. ASSUME UNCHANGED <<handle, queue>> PROVE Moves({})
    BY <1>4 DEF Moves, Held, Sem!Holders, Sem!InLine
<1>5. ASSUME NEW new \in Nat, Sem!RaiseTo(new) PROVE Moves({})
    BY <1>3, <1>4, <1>5 DEF Sem!RaiseTo, Sem!permits
<1>6. CASE CountsSuccess
  <2>1. CASE UNCHANGED <<permits, policy>>
    BY <1>4, <2>1 DEF permits
  <2>2. CASE Sem!RecordSuccess
    <3>1. Sem!RecoveredLimit \in Nat /\ limit + 1 \in Nat
        BY <1>1, SameOptions, Proved!OptionTypes
           DEF Sem!RecoveredLimit, Sem!Greatest, Sem!Least, Sem!Initial, Proved!Initial,
               Proved!OptionsAssumption, Proved!Least, Proved!Greatest, Sem!MinLimit, Proved!MinLimit
    <3> QED
        BY <1>1, <1>5, <2>2, <3>1 DEF Sem!RecordSuccess
  <2> QED
    BY <1>6, <2>1, <2>2 DEF CountsSuccess
<1>7. CASE Sem!FreezeElapses
    BY <1>4, <1>7 DEF Sem!FreezeElapses, Sem!permits
<1>8. CASE Sem!CooldownEnd
    BY <1>1, <1>3, <1>8 DEF Sem!CooldownEnd
<1> QED
    BY <1>4, <1>6, <1>7, <1>8 DEF permits

\* A step of the semaphore that moves permits between calls whose place it keeps.
LEMMA PositionsFrame ==
    ASSUME Positions, Moves({}), UNCHANGED <<pc, sync>>
    PROVE  Positions'
BY DEF Positions, Moves

LEMMA StepPositions ==
    ASSUME SemaphoreOK, OwnTypes, Positions, NEW c \in Clients, Step(c)
    PROVE  Positions'
<1>1. /\ pc \in [Clients -> {"start", "take", "acquire", "call", "sleep", "done", "failed"}]
      /\ \A w : Goto(c, w) => pc'[c] = w /\ \A d \in Clients : d # c => pc'[d] = pc[d]
    BY DEF OwnTypes, Goto
<1>2. /\ queue \in Seq(Clients)
      /\ \A i, j \in DOMAIN queue : queue[i] = queue[j] => i = j
      /\ \A d \in Clients : Sem!InLine(d) => ~Held(d)
      /\ \A d \in Clients : Held(d) <=> handle[d] = "held"
    BY LineFacts
<1>3. ASSUME Free, UNCHANGED <<permits, sync>>, pc[c] \in {"start", "take", "sleep"},
             NEW w \in {"start", "take", "sleep", "failed"}, Goto(c, w)
      PROVE  Positions'
  <2>1. Moves({})
    BY <1>3, StayMoves
  <2> QED
    BY <1>1, <1>3, <2>1 DEF Positions, Moves, Free
<1>4. CASE Attempt(c) \/ FailFast(c) \/ AbortTake(c) \/ Wake(c) \/ AbortSleep(c)
    BY <1>3, <1>4 DEF Attempt, FailFast, AbortTake, Wake, AbortSleep
<1>5. CASE Acquire(c)
  <2>1. Free /\ pc[c] = "take" /\ UNCHANGED sync
    BY <1>5 DEF Acquire
  <2>2. CASE ~Sem!QueueHasRoom /\ Goto(c, "failed") /\ UNCHANGED <<permits, policy>>
    BY <1>3, <2>1, <2>2
  <2>3. CASE Sem!AcquireNow(c) /\ Goto(c, "acquire")
    <3>1. /\ \A d \in Clients : Held(d)' <=> Held(d) \/ d = c
          /\ \A d \in Clients : Sem!InLine(d)' <=> Sem!InLine(d)
        BY <1>2, <2>3 DEF Sem!AcquireNow, Held, Sem!Holders, Sem!InLine, SemaphoreOK, Sem!TypeOK
    <3> QED
        BY <1>1, <2>1, <2>3, <3>1 DEF Positions, Free
  <2>4. CASE Sem!Enqueue(c) /\ Goto(c, "acquire")
    <3>1. \A d \in Clients : Held(d)' <=> Held(d)
        BY <2>4 DEF Sem!Enqueue, Held, Sem!Holders
    <3>2. \A d \in Clients : Sem!InLine(d)' <=> Sem!InLine(d) \/ d = c
      <4>1. queue' = Append(queue, c)
        BY <2>4 DEF Sem!Enqueue
      <4>2. /\ DOMAIN queue = 1..Len(queue) /\ DOMAIN queue' = 1..(Len(queue) + 1)
            /\ \A i \in 1..Len(queue) : queue'[i] = queue[i]
            /\ queue'[Len(queue) + 1] = c /\ Len(queue) \in Nat
        BY <1>2, <4>1, AppendProperties, LenProperties
      <4> QED
        BY <4>2 DEF Sem!InLine
    <3> QED
        BY <1>1, <2>1, <2>4, <3>1, <3>2 DEF Positions, Free
  <2> QED
    BY <1>5, <2>2, <2>3, <2>4 DEF Acquire
<1>6. CASE LeaveQueue(c)
  <2>1. Free /\ pc[c] = "acquire" /\ UNCHANGED sync /\ Goto(c, "failed") /\ UNCHANGED handle
    BY <1>6 DEF LeaveQueue, Sem!Abandon
  <2>2. PICK i \in DOMAIN queue :
           /\ queue[i] = c
           /\ queue' = SubSeq(queue, 1, i - 1) \o SubSeq(queue, i + 1, Len(queue))
    BY <1>6 DEF LeaveQueue, Sem!Abandon
  <2>3. /\ DOMAIN queue = 1..Len(queue) /\ Len(queue) \in Nat
        /\ DOMAIN queue' = 1..(Len(queue) - 1)
        /\ \A k \in DOMAIN queue' : queue'[k] = IF k < i THEN queue[k] ELSE queue[k + 1]
    <3> DEFINE r == SubSeq(queue, 1, i - 1) \o SubSeq(queue, i + 1, Len(queue))
    <3>1. /\ DOMAIN r = 1..(Len(queue) - 1)
          /\ \A k \in DOMAIN r : r[k] = IF k < i THEN queue[k] ELSE queue[k + 1]
        BY <1>2, SameOptions, Proved!Splice
    <3>2. DOMAIN queue = 1..Len(queue) /\ Len(queue) \in Nat /\ queue' = r
        BY <1>2, <2>2, LenProperties
    <3> HIDE DEF r
    <3> QED
        BY <3>1, <3>2
  <2>4. ASSUME NEW d \in Clients PROVE Sem!InLine(d)' <=> Sem!InLine(d) /\ d # c
    <3>1. ASSUME NEW k \in DOMAIN queue', queue'[k] = d PROVE Sem!InLine(d) /\ d # c
      <4>1. PICK j \in DOMAIN queue : j # i /\ queue[j] = d
        <5>1. CASE k < i
            BY <2>3, <3>1, <5>1
        <5>2. CASE ~(k < i)
          <6>1. k + 1 \in DOMAIN queue /\ k + 1 # i
            BY <2>3, <3>1, <5>2
          <6> QED
            BY <2>3, <3>1, <5>2, <6>1
        <5> QED
            BY <5>1, <5>2
      <4> QED
        BY <1>2, <2>2, <4>1 DEF Sem!InLine
    <3>2. ASSUME NEW k \in DOMAIN queue, queue[k] = d, d # c PROVE Sem!InLine(d)'
      <4>1. CASE k < i
        <5>1. k \in DOMAIN queue' /\ queue'[k] = d
          <6>1. i \in 1..Len(queue)
            BY <2>3
          <6>2. k \in 1..(Len(queue) - 1)
            BY <2>3, <3>2, <4>1, <6>1
          <6> QED
            BY <2>3, <3>2, <4>1, <6>2
        <5> QED
            BY <5>1 DEF Sem!InLine
      <4>2. CASE ~(k < i)
        <5>1. k # i /\ k - 1 \in DOMAIN queue' /\ ~(k - 1 < i) /\ (k - 1) + 1 = k
            BY <2>2, <2>3, <3>2, <4>2
        <5> QED
            BY <2>3, <3>2, <5>1 DEF Sem!InLine
      <4> QED
        BY <4>1, <4>2
    <3> QED
        BY <3>1, <3>2 DEF Sem!InLine
  <2>5. Sem!InLine(c) /\ ~Held(c)
    BY <1>2, <2>2 DEF Sem!InLine
  <2>6. \A d \in Clients : Held(d)' <=> Held(d)
    BY <2>1 DEF Held, Sem!Holders
  <2> QED
    BY <1>1, <2>1, <2>4, <2>5, <2>6 DEF Positions, Free
<1>7. CASE Call(c)
  <2>1. Moves({}) /\ Held(c)' /\ ~Sem!InLine(c)'
    <3>1. UNCHANGED permits /\ Held(c)
        BY <1>7 DEF Call, Held
    <3> QED
        BY <1>2, <3>1, StayMoves DEF Moves
  <2>2. Free /\ pc[c] = "acquire" /\ UNCHANGED sync /\ Goto(c, "call")
    BY <1>7 DEF Call
  <2> QED
    BY <1>1, <2>1, <2>2 DEF Positions, Moves, Free
<1>8. CASE Succeed(c)
  <2>1. Free /\ pc[c] = "call" /\ sync' = <<c, "release">> /\ pc' = pc /\ CountsSuccess
    BY <1>8 DEF Succeed, calls
  <2>2. Moves({})
    BY <2>1, StayMoves
  <2> QED
    BY <2>1, <2>2 DEF Positions, Moves, Free
<1>9. ASSUME Free, pc[c] = "call", Sem!Release(c)
      PROVE  Moves({c}) /\ ~Held(c)' /\ ~Sem!InLine(c)'
  <2>1. Held(c) /\ ~Sem!InLine(c)
    BY <1>9 DEF Positions, Free
  <2>2. Moves({c})
    BY <1>9, <2>1, ReleaseMoves
  <2> QED
    BY <2>1, <2>2 DEF Moves
<1>10. CASE Fail(c)
  <2>1. Free /\ pc[c] = "call" /\ Sem!Release(c) /\ Goto(c, "failed") /\ UNCHANGED sync
    BY <1>10 DEF Fail, FreesPermit
  <2> QED
    BY <1>1, <1>9, <2>1 DEF Positions, Moves, Free
<1>11. CASE RateLimited(c)
  <2>1. Free /\ pc[c] = "call" /\ Sem!Release(c) /\ pc' = pc /\ sync' = <<c, "record">>
    BY <1>11 DEF RateLimited, FreesPermit, calls
  <2> QED
    BY <1>9, <2>1 DEF Positions, Moves, Free
<1>12. CASE Released(c)
  <2>1. sync = <<c, "release">> /\ sync' = <<>> /\ Sem!Release(c) /\ Goto(c, "done")
    BY <1>12 DEF Released
  <2>2. pc[c] = "call" /\ Held(c) /\ ~Sem!InLine(c)
    BY <2>1 DEF Positions
  <2>3. Moves({c}) /\ ~Held(c)' /\ ~Sem!InLine(c)'
    <3>1. Moves({c})
        BY <2>1, <2>2, ReleaseMoves
    <3> QED
        BY <2>2, <3>1 DEF Moves
  <2> QED
    BY <1>1, <2>1, <2>2, <2>3 DEF Positions, Moves
<1>13. CASE Recorded(c)
  <2>1. sync = <<c, "record">> /\ sync' = <<>> /\ UNCHANGED permits
        /\ (Goto(c, "failed") \/ Goto(c, "sleep"))
    BY <1>13 DEF Recorded, Sem!RecordRateLimit, Sem!permits, permits
  <2>2. Moves({}) /\ ~Held(c) /\ ~Sem!InLine(c) /\ pc[c] = "call"
    BY <2>1, StayMoves DEF Positions
  <2> QED
    BY <1>1, <2>1, <2>2 DEF Positions, Moves
<1> QED
    BY <1>4, <1>5, <1>6, <1>7, <1>8, <1>10, <1>11, <1>12, <1>13 DEF Step, Settle

\* G1: at every await a permit is out exactly for the calls at the provider and for the
\* ones that are about to call it; a call that sleeps, waits for a token or is over
\* holds none, on every error path.
THEOREM PermitsAreOutAroundCalls == Spec => []PermitsOnlyAroundCalls
<1>1. Init => Positions
    BY DEF Init, Sem!Init, Positions, Held, Sem!Holders, Sem!InLine
<1>2. OwnTypes /\ SemaphoreOK /\ Positions /\ [Next]_vars => Positions'
  <2> SUFFICES ASSUME OwnTypes, SemaphoreOK, Positions, [Next]_vars PROVE Positions'
    OBVIOUS
  <2>1. ASSUME NEW c \in Clients, Step(c) PROVE Positions'
    BY <2>1, StepPositions
  <2>2. CASE Abort \/ StreakAges \/ ProbeInterval \/ UNCHANGED vars
    <3>1. UNCHANGED <<permits, pc, sync>>
        BY <2>2 DEF Abort, StreakAges, ProbeInterval, vars, calls
    <3> QED
        BY <3>1, StayMoves, PositionsFrame
  <2>3. CASE Timers
    BY <2>3, StayMoves, PositionsFrame DEF Timers, calls
  <2> QED
    BY <2>1, <2>2, <2>3 DEF Next
<1>3. Positions => PermitsOnlyAroundCalls
    BY DEF Positions, PermitsOnlyAroundCalls, Held, Free
<1> QED
    BY <1>1, <1>2, <1>3, OwnTypesInvariant, NoCallIsForgotten, PTL DEF Spec
================================================================================
