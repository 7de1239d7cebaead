--------------------------- MODULE MCAIMDSemaphore ---------------------------
(***************************************************************************)
(* AIMDSemaphore for TLC: four callers against a limit that moves between 1 *)
(* and 3.  The line holds several entries, a raise can serve more than one  *)
(* of them, and a cut can leave more calls in flight than the new limit.    *)
(*                                                                         *)
(* Or, with a semaphore of their own, two calls of withCongestionControl(), *)
(* in as small a setting as makes them wait for each other.  A behaviour is *)
(* about one of the two, chosen at its start; the other rests.              *)
(***************************************************************************)
EXTENDS AIMDSemaphore

CONSTANT Calls    \* the two calls

VARIABLES
    callHandle, callQueue, callsInFlight, callLimit, callStreak, callsFrozen, callCooldown,
    callRecovery, callRateLimits,
    pc, attempt, sync, consecutive, aged, quotaClaimed, failures, connClaimed, probing,
    aborted, probes

Loop == INSTANCE CongestionControl WITH
            Clients <- Calls, InitialOpt <- 1, SoftMaxOpt <- 2, HardMaxOpt <- 3, MinOpt <- 1,
            SuccessStreak <- 1, DecreasePercent <- 50, MaxQueue <- 1, MaxRateLimits <- 4,
            MaxAttempts <- 2, QuotaMin <- 1, ConnMin <- 1, MaxProbes <- 1,
            handle <- callHandle, queue <- callQueue, inFlight <- callsInFlight,
            limit <- callLimit, streak <- callStreak, frozen <- callsFrozen,
            cooldown <- callCooldown, recovery <- callRecovery, rateLimits <- callRateLimits

--------------------------------------------------------------------------------
VARIABLE stage    \* what the behaviour is about

calls == <<callHandle, callQueue, callsInFlight, callLimit, callStreak, callsFrozen, callCooldown,
           callRecovery, callRateLimits, pc, attempt, sync, consecutive, aged, quotaClaimed,
           failures, connClaimed, probing, aborted, probes>>
all   == <<stage, vars, calls>>

InitAll == Init /\ Loop!Init /\ stage \in {"semaphore", "calls"}

Semaphore(A) == stage = "semaphore" /\ UNCHANGED <<stage, calls>> /\ A
Calling(A)   == stage = "calls" /\ UNCHANGED <<stage, vars>> /\ A

\* Calls that are over stop; a semaphore never does.
Over == Calling(\A c \in Calls : pc[c] \in {"done", "failed"}) /\ UNCHANGED all

NextAll == Semaphore(Next) \/ Calling(Loop!Next) \/ Over

\* The fairness of the two specifications.
FairSpecAll ==
    /\ InitAll /\ [][NextAll]_all
    /\ \A c \in Clients : WF_all(Semaphore(FirstCall(c) /\ Release(c)))
    /\ WF_all(Semaphore(FreezeElapses))
    /\ WF_all(Semaphore(CooldownEnd))
    /\ \A c \in Calls : WF_all(Calling(Loop!Settles(c))) /\ WF_all(Calling(Loop!GivesUp(c)))
    /\ WF_all(Calling(Loop!Timers))

\* The property of CongestionControl, for calls that do not rest.
CallsSettle == stage = "calls" => Loop!CallsSettle
================================================================================
