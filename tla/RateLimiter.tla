----------------------------- MODULE RateLimiter -----------------------------
(***************************************************************************)
(* The token bucket in front of every LLM attempt                          *)
(* (src/src/utils/rate-limiter.ts): a rate in requests per minute that      *)
(* doubles until the first 429 and is then raised by steps and cut by a    *)
(* factor, and one timer that serves the callers in line.                  *)
(*                                                                         *)
(* Time passes in ticks, Minute of them a minute, and tokens are counted    *)
(* in parts of which Minute make one token, so that a tick at rate rpm is   *)
(* worth rpm parts.  Timers are punctual: no time passes while one is due.  *)
(* The breaker that watches a rolling window (shouldFailFast) is left out. *)
(***************************************************************************)
EXTENDS Integers, Sequences, FiniteSets

CONSTANTS
    Clients,           \* concurrent callers of take()
    Minute,            \* ticks to a minute
    InitialOpt, MinOpt, MaxOpt,   \* options.initialRpm, minRpm, maxRpm
    IncreaseStep,      \* options.increaseStepRpm
    DecreasePercent,   \* options.decreaseFactor, in hundredths
    SuccessStreak,     \* options.successStreak
    Cooldown,          \* options.cooldownMs, in ticks
    BurstTicks         \* options.burstSeconds, in ticks

ASSUME RateOptionsAssumption ==
    /\ {Minute, InitialOpt, MinOpt, MaxOpt, IncreaseStep, SuccessStreak, Cooldown} \subseteq Nat \ {0}
    /\ BurstTicks \in Nat
    /\ DecreasePercent \in 1..99
    /\ IsFiniteSet(Clients)

VARIABLES
    rpm,         \* this.rpm
    avoidance,   \* this.phase = 'avoidance'
    available,   \* this.available, in parts
    age,         \* ticks since this.lastRefill, saturated at FillTime
    queue,       \* the waiters, oldest first
    timer,       \* ticks until the drain timer fires, or Off
    freeze,      \* ticks until freezeUntil
    streak,      \* this.successesSinceIncrease
    spent        \* what the callers have had since the rate last changed, beyond what it earned

rate   == <<rpm, avoidance, freeze, streak>>
bucket == <<available, age>>
vars   == <<rpm, avoidance, available, age, queue, timer, freeze, streak, spent>>

Least(m, n)    == IF m <= n THEN m ELSE n
Greatest(m, n) == IF m >= n THEN m ELSE n
CeilDiv(m, n)  == (m + n - 1) \div n

Off == -1

\* The options as the constructor normalises them (MinOpt is positive already).
MaxRpm  == Greatest(MinOpt, MaxOpt)
Initial == Least(Greatest(InitialOpt, MinOpt), MaxRpm)

\* computeBurst(): never below one token, or nobody would ever be served.
Mutant_Burst_NoFloor(r) == (r * BurstTicks) \div Minute
Burst(r) == Greatest(1, CeilDiv(r * BurstTicks, Minute))

\* What the bucket holds at most.
Capacity(r) == Burst(r) * Minute

\* After so many ticks the bucket is full whatever the rate.
FillTime == CeilDiv(Capacity(MaxRpm), MinOpt)

InLine(c) == \E i \in DOMAIN queue : queue[i] = c

--------------------------------------------------------------------------------
Init ==
    /\ rpm = Initial
    /\ avoidance = FALSE
    /\ available = Capacity(Initial)
    /\ age = 0
    /\ queue = <<>>
    /\ timer = Off
    /\ freeze = 0
    /\ streak = 0
    /\ spent = 0

\* refill(): what the bucket holds once the time since the last refill is credited.
Mutant_Refilled_Uncapped == available + age * rpm
Refilled == Least(Capacity(rpm), available + age * rpm)

\* scheduleDrain() for a non-empty queue: one timer, due when the missing parts are there.
Scheduled(have) ==
    IF timer # Off THEN timer ELSE CeilDiv(Greatest(0, Minute - have), rpm)

\* A token can be had at once: nobody is in line, and there is one.
Mutant_AtOnce_OvertakesLine == Refilled >= Minute
AtOnce == queue = <<>> /\ Refilled >= Minute

\* take() that gets its token at once.
TakeNow ==
    /\ AtOnce
    /\ available' = Refilled - Minute
    /\ age' = 0
    /\ spent' = spent + Minute
    /\ UNCHANGED <<rate, queue, timer>>

\* take() that has to wait.
TakeLater(c) ==
    /\ ~InLine(c)
    /\ ~AtOnce
    /\ available' = Refilled
    /\ age' = 0
    /\ queue' = Append(queue, c)
    /\ timer' = Scheduled(Refilled)
    /\ UNCHANGED <<rate, spent>>

\* The signal of a waiter aborts; the timer stays armed.
Abandon(c) ==
    /\ \E i \in DOMAIN queue :
         /\ queue[i] = c
         /\ queue' = SubSeq(queue, 1, i - 1) \o SubSeq(queue, i + 1, Len(queue))
    /\ UNCHANGED <<rate, bucket, timer, spent>>

\* The timer fires: drain() serves as many waiters as there are tokens, in order,
\* and schedules itself again for the rest.
Mutant_Rearmed_Never(rest, have) == Off
Rearmed(rest, have) ==
    IF rest = <<>> THEN Off ELSE CeilDiv(Greatest(0, Minute - have), rpm)

Fire ==
    /\ timer = 0
    /\ LET n == Least(Len(queue), Refilled \div Minute)
       IN  /\ queue' = SubSeq(queue, n + 1, Len(queue))
           /\ available' = Refilled - n * Minute
           /\ spent' = spent + n * Minute
           /\ timer' = Rearmed(queue', available')
    /\ age' = 0
    /\ UNCHANGED rate

\* setRpm(): the tokens are cut to the new burst; what the time since the last
\* refill earned is credited later, at the new rate.  Its scheduleDrain() finds
\* the timer of a non-empty queue armed and does nothing.
Mutant_Clipped_Never(have, r) == have
Clipped(have, r) == Least(have, Capacity(r))

SetRpm(next) ==
    /\ rpm' = Least(MaxRpm, Greatest(MinOpt, next))
    /\ available' = IF rpm' = rpm THEN available ELSE Clipped(available, rpm')
    /\ spent' = IF rpm' = rpm THEN spent ELSE 0

\* recordRateLimit(): the end of slow-start, and one cut per cooldown.
Mutant_Cuts_Always == TRUE
Cuts == freeze = 0

RecordRateLimit ==
    /\ avoidance' = TRUE
    /\ IF Cuts
       THEN /\ freeze' = Cooldown
            /\ SetRpm((rpm * DecreasePercent) \div 100)
       ELSE UNCHANGED <<freeze, rpm, available, spent>>
    /\ UNCHANGED <<age, queue, timer, streak>>

\* The rate that a full streak of successes earns.
Raised ==
    IF ~avoidance THEN rpm * 2
    ELSE IF freeze = 0 THEN rpm + IncreaseStep
    ELSE rpm

RecordSuccess ==
    /\ IF streak + 1 < SuccessStreak
       THEN streak' = streak + 1 /\ UNCHANGED <<rpm, available, spent>>
       ELSE streak' = 0 /\ SetRpm(Raised)
    /\ UNCHANGED <<avoidance, age, queue, timer, freeze>>

\* stats(), read when a call fails fast, credits the bucket as well.
Stats ==
    /\ available' = Refilled
    /\ age' = 0
    /\ UNCHANGED <<rate, queue, timer, spent>>

\* Time passes, up to the next timer.
Tick ==
    /\ timer # 0
    /\ timer' = IF timer = Off THEN Off ELSE timer - 1
    /\ age' = Least(age + 1, FillTime)
    /\ freeze' = Greatest(0, freeze - 1)
    /\ spent' = Greatest(0, spent - rpm)
    /\ UNCHANGED <<rpm, avoidance, available, queue, streak>>

Next ==
    \/ TakeNow
    \/ \E c \in Clients : TakeLater(c) \/ Abandon(c)
    \/ Fire
    \/ RecordRateLimit
    \/ RecordSuccess
    \/ Stats
    \/ Tick

Spec == Init /\ [][Next]_vars

\* Time passes and timers fire.
FairSpec == Spec /\ WF_vars(Tick) /\ WF_vars(Fire)

--------------------------------------------------------------------------------
\* The state is well typed, the rate is within its bounds and the bucket within its burst.
TypeOK ==
    /\ rpm \in MinOpt..MaxRpm
    /\ avoidance \in BOOLEAN
    /\ available \in 0..Capacity(rpm)
    /\ age \in 0..FillTime
    /\ queue \in Seq(Clients)
    /\ timer \in Nat \cup {Off}
    /\ freeze \in 0..Cooldown
    /\ streak \in 0..(SuccessStreak - 1)
    /\ spent \in Nat

\* The law of the bucket: while the rate stands still, no stretch of time sees more
\* tokens handed out than one burst and what the rate earns in it, whatever the
\* order of takes, drains and aborts.
RateIsKept == spent <= Capacity(rpm)

\* No lost wakeup: while a caller waits the drain timer is armed, whoever else gives
\* up or is served, and it fires within a minute.
WaitersAreTimed == queue # <<>> => timer # Off /\ timer <= Minute

\* First come, first served: a token handed out while callers are in line goes to the
\* oldest of them, one each, and to nobody who comes later.
ServedInOrder ==
    [][ spent' > spent /\ queue # <<>> =>
          queue' = SubSeq(queue, (spent' - spent) \div Minute + 1, Len(queue)) ]_vars

\* One cut per cooldown, and no rise during it: a burst of 429s costs one factor.
OneCutPerCooldown ==
    [][ /\ freeze > 0 /\ freeze' > 0 => rpm' = rpm
        /\ rpm' < rpm => freeze = 0 /\ freeze' = Cooldown ]_vars

\* Everybody in line gets a token or gives up, even at the lowest rate (PIN B1 in
\* rate-limiter.test.ts).
EveryTakerIsServed == \A c \in Clients : InLine(c) ~> ~InLine(c)
================================================================================
