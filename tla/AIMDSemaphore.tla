---------------------------- MODULE AIMDSemaphore ----------------------------
(***************************************************************************)
(* The adaptive semaphore in front of every LLM call                       *)
(* (src/src/utils/aimd-semaphore.ts).  JavaScript runs each method to its   *)
(* end, so a method is one action, with the drain it ends in.              *)
(*                                                                         *)
(* Time is abstracted to what the code compares: "frozen" is               *)
(* Date.now() < freezeUntil, and FreezeElapses is the moment at which that *)
(* comparison turns; "cooldown" is the armed cooldown-end timer, which     *)
(* fires once the freeze is over.  Between the two the semaphore is open   *)
(* but its queue has not been drained yet.                                 *)
(***************************************************************************)
EXTENDS Naturals, Sequences, FiniteSets

CONSTANTS
    Clients,          \* concurrent callers of acquire()
    InitialOpt,       \* options.initialLimit
    SoftMaxOpt,       \* options.softMaxLimit
    HardMaxOpt,       \* options.hardMaxLimit
    MinOpt,           \* options.minLimit
    SuccessStreak,    \* options.successStreakForIncrease
    DecreasePercent,  \* options.decreaseFactor, in hundredths
    MaxQueue,         \* options.maxQueueSize
    MaxRateLimits     \* bound on the number of 429s of one behaviour

ASSUME OptionsAssumption ==
    /\ {InitialOpt, SoftMaxOpt, HardMaxOpt, MinOpt} \subseteq Nat \ {0}
    /\ SuccessStreak \in Nat \ {0}
    /\ DecreasePercent \in 1..99
    /\ MaxQueue \in Nat
    /\ MaxRateLimits \in Nat

ASSUME ClientsAssumption == IsFiniteSet(Clients)

VARIABLES
    handle,       \* per client, its last release() closure: never had one, held, or released
    queue,        \* the clients of the queued entries, oldest first
    inFlight,     \* this.inFlight
    limit,        \* this.currentLimit
    streak,       \* this.successesSinceLast, saturated at SuccessStreak
    frozen,       \* Date.now() < this.freezeUntil
    cooldown,     \* this.cooldownEndTimer is armed
    recovery,     \* this.recoveryPending
    rateLimits    \* this.rateLimitCount

permits == <<handle, queue, inFlight>>
policy  == <<limit, streak, frozen, cooldown, recovery, rateLimits>>
vars    == <<handle, queue, inFlight, limit, streak, frozen, cooldown, recovery, rateLimits>>

Least(m, n)    == IF m <= n THEN m ELSE n
Greatest(m, n) == IF m >= n THEN m ELSE n

--------------------------------------------------------------------------------
\* The options as the constructor normalises them.

SoftMax  == Least(SoftMaxOpt, HardMaxOpt)
MinLimit == Greatest(1, Least(MinOpt, InitialOpt))
Initial  == Least(Greatest(InitialOpt, MinLimit), HardMaxOpt)

--------------------------------------------------------------------------------
Holders   == {c \in Clients : handle[c] = "held"}
InLine(c) == \E i \in DOMAIN queue : queue[i] = c
Idle(c)   == c \notin Holders /\ ~InLine(c)

\* A permit may go out: the guard of acquire() and of every turn of drainQueue().
Mutant_Open_OneTooMany(busy, lim, closed)  == busy <= lim /\ ~closed
Open(busy, lim, closed) == busy < lim /\ ~closed

\* How many queued entries drainQueue() serves before its loop guard fails.
Served(q, busy, lim, closed) ==
    IF Open(busy, lim, closed) THEN Least(Len(q), lim - busy) ELSE 0

\* drainQueue(): the oldest entries are shifted out and granted a slot each.
Mutant_Drain_Newest(h, busy, lim, closed) ==
    LET n == Served(queue, busy, lim, closed)
    IN  /\ handle' = [c \in Clients |->
                        IF \E i \in Len(queue) - n + 1 .. Len(queue) : queue[i] = c
                        THEN "held" ELSE h[c]]
        /\ queue' = SubSeq(queue, 1, Len(queue) - n)
        /\ inFlight' = busy + n
Drain(h, busy, lim, closed) ==
    LET n == Served(queue, busy, lim, closed)
    IN  /\ handle' = [c \in Clients |->
                        IF \E i \in 1..n : queue[i] = c THEN "held" ELSE h[c]]
        /\ queue' = SubSeq(queue, n + 1, Len(queue))
        /\ inFlight' = busy + n

--------------------------------------------------------------------------------
Init ==
    /\ handle = [c \in Clients |-> "none"]
    /\ queue = <<>>
    /\ inFlight = 0
    /\ limit = Initial
    /\ streak = 0
    /\ frozen = FALSE
    /\ cooldown = FALSE
    /\ recovery = FALSE
    /\ rateLimits = 0

\* acquire() rejects a caller that finds the queue full.
QueueHasRoom == Len(queue) < MaxQueue

\* acquire() that is granted a slot at once.
AcquireNow(c) ==
    /\ Idle(c)
    /\ QueueHasRoom
    /\ Open(inFlight, limit, frozen)
    /\ handle' = [handle EXCEPT ![c] = "held"]
    /\ inFlight' = inFlight + 1
    /\ UNCHANGED <<queue, policy>>

\* acquire() that has to queue.
Enqueue(c) ==
    /\ Idle(c)
    /\ QueueHasRoom
    /\ ~Open(inFlight, limit, frozen)
    /\ queue' = Append(queue, c)
    /\ UNCHANGED <<handle, inFlight, policy>>

\* A queued entry whose wait timer fires or whose signal aborts is spliced out.
Abandon(c) ==
    /\ \E i \in DOMAIN queue :
          /\ queue[i] = c
          /\ queue' = SubSeq(queue, 1, i - 1) \o SubSeq(queue, i + 1, Len(queue))
    /\ UNCHANGED <<handle, inFlight, policy>>

\* The closure's "released" flag: only the first call gives the slot back.
Mutant_FirstCall_Always(c) == TRUE
FirstCall(c) == handle[c] = "held"

\* A release() closure is called, by the call's own path or again by its finally.
Release(c) ==
    /\ handle[c] # "none"
    /\ IF FirstCall(c)
       THEN Drain([handle EXCEPT ![c] = "released"], inFlight - 1, limit, frozen)
       ELSE UNCHANGED permits
    /\ UNCHANGED policy

\* The limit after the first success that follows a freeze.
RecoveredLimit == Greatest(limit, Least(Initial, HardMaxOpt))

\* A full streak of successes below the soft maximum raises the limit by one.
StreakPays == streak + 1 >= SuccessStreak /\ limit < SoftMax

\* A raised limit drains the queue; an unchanged one does not.
Mutant_RaiseTo_NoDrain(new) == limit' = new /\ UNCHANGED permits
RaiseTo(new) ==
    /\ limit' = new
    /\ IF new # limit THEN Drain(handle, inFlight, new, frozen) ELSE UNCHANGED permits

\* recordSuccess() outside a freeze (inside one only the breaker streak resets,
\* which CongestionControl models).
RecordSuccess ==
    /\ ~frozen
    /\ IF recovery
       THEN /\ recovery' = FALSE
            /\ RaiseTo(RecoveredLimit)
            /\ UNCHANGED streak
       ELSE /\ streak' = IF StreakPays THEN 0 ELSE Least(streak + 1, SuccessStreak)
            /\ RaiseTo(IF StreakPays THEN limit + 1 ELSE limit)
            /\ UNCHANGED recovery
    /\ UNCHANGED <<frozen, cooldown, rateLimits>>

\* The limit a new congestion window starts with.
Mutant_CutLimit_NoFloor == (limit * DecreasePercent) \div 100
CutLimit == Greatest(MinLimit, (limit * DecreasePercent) \div 100)

\* A 429 opens a congestion window unless one is open already (G2).
Mutant_OpensWindow_Always == TRUE
OpensWindow == ~frozen

\* recordRateLimit(): one decrease, the freeze, and the timer re-armed.
RecordRateLimit ==
    /\ rateLimits < MaxRateLimits
    /\ rateLimits' = rateLimits + 1
    /\ IF OpensWindow
       THEN /\ limit' = CutLimit
            /\ streak' = 0
            /\ recovery' = TRUE
            /\ frozen' = TRUE
            /\ cooldown' = TRUE
       ELSE UNCHANGED <<limit, streak, recovery, frozen, cooldown>>
    /\ UNCHANGED permits

\* Date.now() reaches freezeUntil.
FreezeElapses ==
    /\ frozen
    /\ frozen' = FALSE
    /\ UNCHANGED <<permits, limit, streak, cooldown, recovery, rateLimits>>

\* The cooldown-end timer fires: nothing else would wake the waiters of a
\* frozen semaphore with no call in flight.
CooldownEnd ==
    /\ cooldown
    /\ ~frozen
    /\ cooldown' = FALSE
    /\ Drain(handle, inFlight, limit, frozen)
    /\ UNCHANGED <<limit, streak, frozen, recovery, rateLimits>>

Next ==
    \/ \E c \in Clients : AcquireNow(c) \/ Enqueue(c) \/ Abandon(c) \/ Release(c)
    \/ RecordSuccess
    \/ RecordRateLimit
    \/ FreezeElapses
    \/ CooldownEnd

Spec == Init /\ [][Next]_vars

\* Every held slot is released (withCongestionControl's finally), time passes
\* and armed timers fire.  Nothing obliges a caller to acquire or to give up.
Fairness ==
    /\ \A c \in Clients : WF_vars(FirstCall(c) /\ Release(c))
    /\ WF_vars(FreezeElapses)
    /\ WF_vars(CooldownEnd)

FairSpec == Spec /\ Fairness

--------------------------------------------------------------------------------
TypeOK ==
    /\ handle \in [Clients -> {"none", "held", "released"}]
    /\ queue \in Seq(Clients)
    /\ inFlight \in Nat
    /\ limit \in Nat \ {0}
    /\ streak \in 0..SuccessStreak
    /\ frozen \in BOOLEAN
    /\ cooldown \in BOOLEAN
    /\ recovery \in BOOLEAN
    /\ rateLimits \in 0..MaxRateLimits

\* The counter that admits callers agrees with the permits that are out, and a
\* client is in line once, and not while it holds: whatever the order of grants,
\* give-ups and repeated release() calls.
PermitAccounting ==
    /\ inFlight = Cardinality(Holders)
    /\ \A i, j \in DOMAIN queue : queue[i] = queue[j] => i = j
    /\ \A i \in DOMAIN queue : queue[i] \notin Holders

\* No lost wakeup: a queued caller that could be served is served by the method
\* that made room for it; if not, the cooldown timer that will serve it is armed.
NoLostWakeup ==
    /\ frozen => cooldown
    /\ queue # <<>> /\ inFlight < limit => cooldown

\* The AIMD policy keeps the limit between the configured bounds.
LimitWithinBounds == limit >= MinLimit /\ limit <= HardMaxOpt

\* G2: inside a congestion window the limit stands still and nobody is let in;
\* the only step that lowers the limit opens a window.
CongestionWindow ==
    [][ /\ frozen /\ frozen' => limit' = limit /\ Holders' \subseteq Holders
        /\ limit' < limit => ~frozen /\ frozen' ]_vars

\* First come, first served: an entry is granted only with every older entry
\* gone from the line, and a newcomer passes the line only in the gap between
\* the end of a freeze and the timer that drains the queue.
FirstComeFirstServed ==
    [][ \A c \in Holders' \ Holders :
          /\ \A j \in DOMAIN queue : queue[j] = c =>
                \A i \in 1..(j - 1) : \A k \in DOMAIN queue' : queue'[k] # queue[i]
          /\ ~InLine(c) /\ queue # <<>> => cooldown ]_vars

\* With the callers, their permits and the capacity read off this state, the
\* semaphore is a permit pool.
Pool == INSTANCE PermitPool WITH
            capacity <- limit,
            holding  <- Holders,
            waiting  <- {c \in Clients : InLine(c)}

IsPermitPool == Pool!Spec

\* Once the provider has sent its last 429, every queued call leaves the line.
EveryWaiterLeaves == \A c \in Clients : InLine(c) ~> ~InLine(c)
================================================================================
