-------------------------- MODULE CongestionControl --------------------------
(***************************************************************************)
(* withCongestionControl (src/src/utils/congestion-control.ts): the retry   *)
(* loop around one LLM call, with the adaptive semaphore and the two        *)
(* circuit breakers it shares with every other call of the process.        *)
(*                                                                         *)
(* An action runs from one await to the next.  Where the code calls two     *)
(* methods of the semaphore without an await in between, the second one is  *)
(* an action of its own and "sync" keeps every other caller out until it is *)
(* done: JavaScript runs to completion.                                    *)
(*                                                                         *)
(* Time is what the breakers compare: a 429 streak that has lasted long     *)
(* enough, a probe interval that has passed.                               *)
(***************************************************************************)
EXTENDS Naturals, Sequences, FiniteSets

CONSTANTS
    Clients,                \* one LLM call each
    InitialOpt, SoftMaxOpt, HardMaxOpt, MinOpt, SuccessStreak, DecreasePercent,
    MaxQueue, MaxRateLimits,
    MaxAttempts,            \* opts.maxAttempts
    QuotaMin, ConnMin,      \* minConsecutive of the two breakers
    MaxProbes               \* bound on the probe intervals of one behaviour

VARIABLES
    handle, queue, inFlight, limit, streak, frozen, cooldown, recovery, rateLimits,
    pc,            \* per call, the await it is at
    attempt,       \* per call, the attempt it is on
    sync,          \* the rest of the synchronous block under way: <<caller, rest>> or <<>>
    consecutive,   \* the semaphore's consecutiveRateLimits, saturated at QuotaMin
    aged,          \* that streak has lasted minStreakDurationMs
    quotaClaimed,  \* the quota probe of this interval is claimed
    failures,      \* the connection tracker's consecutive, saturated at ConnMin
    connClaimed,   \* the connection probe of this interval is claimed
    probing,       \* the calls that passed an open circuit as its probe
    aborted,       \* opts.signal is aborted
    probes

Sem == INSTANCE AIMDSemaphore

permits  == <<handle, queue, inFlight>>
policy   == <<limit, streak, frozen, cooldown, recovery, rateLimits>>
calls    == <<pc, attempt>>
quota    == <<consecutive, aged, quotaClaimed>>
conn     == <<failures, connClaimed>>
vars     == <<permits, policy, calls, sync, quota, conn, probing, aborted, probes>>

Least(m, n) == IF m <= n THEN m ELSE n

ASSUME LoopAssumption ==
    /\ {MaxAttempts, QuotaMin, ConnMin} \subseteq Nat \ {0}
    /\ MaxProbes \in Nat
    /\ MaxRateLimits >= MaxAttempts * Cardinality(Clients)

\* The semaphore is built with its own options.
ASSUME SemaphoreAssumption == Sem!OptionsAssumption /\ Sem!ClientsAssumption

Init ==
    /\ Sem!Init
    /\ pc = [c \in Clients |-> "start"]
    /\ attempt = [c \in Clients |-> 1]
    /\ sync = <<>>
    /\ consecutive = 0
    /\ aged = FALSE
    /\ quotaClaimed = FALSE
    /\ failures = 0
    /\ connClaimed = FALSE
    /\ probing = {}
    /\ aborted = FALSE
    /\ probes = 0

Free     == sync = <<>>
Goto(c, where) == pc' = [pc EXCEPT ![c] = where]

--------------------------------------------------------------------------------
\* The circuits at the top of the loop.

QuotaOpen == consecutive >= QuotaMin /\ aged
ConnOpen  == failures >= ConnMin

\* The loop top up to the await of rateLimiter.take(): the circuits let the
\* call through, at most as the probe of an interval.
Passes == (QuotaOpen => ~quotaClaimed) /\ (ConnOpen => ~connClaimed)

Attempt(c) ==
    /\ Free
    /\ pc[c] = "start"
    /\ ~aborted
    /\ Passes
    /\ quotaClaimed' = (quotaClaimed \/ QuotaOpen)
    /\ connClaimed' = (connClaimed \/ ConnOpen)
    /\ probing' = IF QuotaOpen \/ ConnOpen THEN probing \cup {c} ELSE probing \ {c}
    /\ Goto(c, "take")
    /\ UNCHANGED <<permits, policy, attempt, sync, consecutive, aged, failures, aborted, probes>>

\* Or it fails fast: aborted, an open circuit (the quota circuit may still claim
\* its probe before the connection circuit refuses), or a dead rate limiter.
FailFast(c) ==
    /\ Free
    /\ pc[c] = "start"
    /\ Goto(c, "failed")
    /\ quotaClaimed' \in {quotaClaimed, quotaClaimed \/ (QuotaOpen /\ ~aborted)}
    /\ connClaimed' \in {connClaimed, connClaimed \/ (ConnOpen /\ ~aborted)}
    /\ UNCHANGED <<permits, policy, attempt, sync, consecutive, aged, failures, probing, aborted, probes>>

\* rateLimiter.take() gives a token and acquire() is called.
Acquire(c) ==
    /\ Free
    /\ pc[c] = "take"
    /\ ~aborted
    /\ \/ (Sem!AcquireNow(c) \/ Sem!Enqueue(c)) /\ Goto(c, "acquire")
       \/ ~Sem!QueueHasRoom /\ Goto(c, "failed") /\ UNCHANGED <<permits, policy>>
    /\ UNCHANGED <<attempt, sync, quota, conn, probing, aborted, probes>>

\* The wait for a token is aborted, or acquire() finds the signal aborted.
AbortTake(c) ==
    /\ Free
    /\ pc[c] = "take"
    /\ aborted
    /\ Goto(c, "failed")
    /\ UNCHANGED <<permits, policy, attempt, sync, quota, conn, probing, aborted, probes>>

\* The wait in the queue times out or is aborted.
LeaveQueue(c) ==
    /\ Free
    /\ pc[c] = "acquire"
    /\ Sem!Abandon(c)
    /\ Goto(c, "failed")
    /\ UNCHANGED <<attempt, sync, quota, conn, probing, aborted, probes>>

\* The permit is there: the provider is called.
Call(c) ==
    /\ Free
    /\ pc[c] = "acquire"
    /\ c \in Sem!Holders
    /\ Goto(c, "call")
    /\ UNCHANGED <<permits, policy, attempt, sync, quota, conn, probing, aborted, probes>>

--------------------------------------------------------------------------------
\* recordSuccess() of the semaphore: inside a freeze only the 429 streak resets.
CountsSuccess == IF frozen THEN UNCHANGED <<permits, policy>> ELSE Sem!RecordSuccess

\* fn() resolves: the successes are recorded, then finally releases.
Succeed(c) ==
    /\ Free
    /\ pc[c] = "call"
    /\ CountsSuccess
    /\ consecutive' = 0
    /\ aged' = FALSE
    /\ failures' = 0
    /\ connClaimed' = FALSE
    /\ sync' = <<c, "release">>
    /\ UNCHANGED <<calls, quotaClaimed, probing, aborted, probes>>

Released(c) ==
    /\ sync = <<c, "release">>
    /\ Sem!Release(c)
    /\ sync' = <<>>
    /\ Goto(c, "done")
    /\ UNCHANGED <<attempt, quota, conn, probing, aborted, probes>>

\* What the failure path does with its permit before anything else (G1).
Mutant_FreesPermit_Late(c) == UNCHANGED <<permits, policy>>
FreesPermit(c) == Sem!Release(c)

\* fn() rejects with a transport error, which the domain's circuit counts, or
\* with an error that is not a 429.
Fail(c) ==
    /\ Free
    /\ pc[c] = "call"
    /\ FreesPermit(c)
    /\ failures' \in {failures, Least(failures + 1, ConnMin)}
    /\ Goto(c, "failed")
    /\ UNCHANGED <<attempt, sync, quota, connClaimed, probing, aborted, probes>>

\* fn() rejects with a 429: the permit goes first, the 429 is recorded next.
RateLimited(c) ==
    /\ Free
    /\ pc[c] = "call"
    /\ FreesPermit(c)
    /\ sync' = <<c, "record">>
    /\ UNCHANGED <<calls, quota, conn, probing, aborted, probes>>

Mutant_LastAttempt_Never(c) == FALSE
LastAttempt(c) == attempt[c] >= MaxAttempts

\* ... and the call gives up (attempts spent, shutdown, or a Retry-After beyond
\* the cap) or sleeps.
Recorded(c) ==
    /\ sync = <<c, "record">>
    /\ Sem!RecordRateLimit
    /\ consecutive' = Least(consecutive + 1, QuotaMin)
    /\ sync' = <<>>
    /\ \/ Goto(c, "failed")
       \/ ~LastAttempt(c) /\ ~aborted /\ Goto(c, "sleep")
    /\ UNCHANGED <<attempt, aged, quotaClaimed, conn, probing, aborted, probes>>

\* The backoff ends, or the abort ends it.
Wake(c) ==
    /\ Free
    /\ pc[c] = "sleep"
    /\ attempt' = [attempt EXCEPT ![c] = @ + 1]
    /\ Goto(c, "start")
    /\ UNCHANGED <<permits, policy, sync, quota, conn, probing, aborted, probes>>

AbortSleep(c) ==
    /\ Free
    /\ pc[c] = "sleep"
    /\ aborted
    /\ Goto(c, "failed")
    /\ UNCHANGED <<permits, policy, attempt, sync, quota, conn, probing, aborted, probes>>

--------------------------------------------------------------------------------
\* No caller of the program passes a signal; one that does may abort it at any time.
Abort ==
    /\ Free
    /\ ~aborted
    /\ aborted' = TRUE
    /\ UNCHANGED <<permits, policy, calls, sync, quota, conn, probing, probes>>

\* The streak reaches minStreakDurationMs.
StreakAges ==
    /\ Free
    /\ consecutive > 0 /\ ~aged
    /\ aged' = TRUE
    /\ UNCHANGED <<permits, policy, calls, sync, consecutive, quotaClaimed, conn, probing, aborted, probes>>

\* A probe interval passes.
ProbeInterval ==
    /\ Free
    /\ probes < MaxProbes
    /\ quotaClaimed \/ connClaimed
    /\ probes' = probes + 1
    /\ quotaClaimed' \in BOOLEAN /\ (quotaClaimed' => quotaClaimed)
    /\ connClaimed' \in BOOLEAN /\ (connClaimed' => connClaimed)
    /\ UNCHANGED <<permits, policy, calls, sync, consecutive, aged, failures, probing, aborted>>

Timers ==
    /\ Free
    /\ Sem!FreezeElapses \/ Sem!CooldownEnd
    /\ UNCHANGED <<calls, sync, quota, conn, probing, aborted, probes>>

Settle(c) == Succeed(c) \/ Fail(c) \/ RateLimited(c)

Step(c) ==
    \/ Attempt(c) \/ FailFast(c) \/ Acquire(c) \/ AbortTake(c) \/ LeaveQueue(c) \/ Call(c)
    \/ Settle(c) \/ Released(c) \/ Recorded(c) \/ Wake(c) \/ AbortSleep(c)

Next == (\E c \in Clients : Step(c)) \/ Abort \/ StreakAges \/ ProbeInterval \/ Timers

Spec == Init /\ [][Next]_vars

\* Every await of a call but the one in the queue settles: tokens and provider answers
\* come, sleeps end, timers fire.  Nothing obliges a queued call to give up, unless it
\* is aborted.
Settles(c) ==
    \/ Attempt(c) \/ FailFast(c) \/ Acquire(c) \/ AbortTake(c) \/ Call(c) \/ Settle(c)
    \/ Released(c) \/ Recorded(c) \/ Wake(c)
GivesUp(c) == aborted /\ (LeaveQueue(c) \/ AbortSleep(c))

Fairness ==
    /\ \A c \in Clients : WF_vars(Settles(c)) /\ WF_vars(GivesUp(c))
    /\ WF_vars(Timers)

FairSpec == Spec /\ Fairness

--------------------------------------------------------------------------------
TypeOK ==
    /\ Sem!TypeOK
    /\ pc \in [Clients -> {"start", "take", "acquire", "call", "sleep", "done", "failed"}]
    /\ attempt \in [Clients -> 1..MaxAttempts]
    /\ sync = <<>> \/ sync \in Clients \X {"release", "record"}
    /\ consecutive \in 0..QuotaMin /\ failures \in 0..ConnMin
    /\ {aged, quotaClaimed, connClaimed, aborted} \subseteq BOOLEAN
    /\ probing \subseteq Clients
    /\ probes \in 0..MaxProbes

\* G1: at every await a permit is out exactly for the calls at the provider and
\* the ones that are about to call it.  A call that sleeps, waits for a token or
\* is over holds none, on every error path.
PermitsOnlyAroundCalls ==
    Free => \A c \in Clients :
        /\ pc[c] = "call" => c \in Sem!Holders
        /\ c \in Sem!Holders => pc[c] \in {"acquire", "call"}
        /\ pc[c] = "acquire" => c \in Sem!Holders \/ Sem!InLine(c)


\* Every call settles by an answer or by an error, one that waits in the queue included:
\* whoever holds a permit gives it back.
CallsSettle == \A c \in Clients : pc[c] = "start" ~> pc[c] \in {"done", "failed"}
================================================================================
