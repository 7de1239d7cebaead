--------------------------- MODULE RateLimiterProofs ---------------------------
(***************************************************************************)
(* Proofs about RateLimiter, for any number of callers, any granularity of *)
(* time and any options.                                                   *)
(*                                                                         *)
(* RateIsKept is not inductive: what has been spent must leave room for     *)
(* what the bucket still holds, credit for the time since the last refill   *)
(* included (BucketCovers).  WaitersAreTimed needs that an armed timer is   *)
(* due within a minute even if nobody is in line, since the line may fill   *)
(* again before it fires (TimerIsShort).  That the rate stands still in a   *)
(* cooldown rests on slow-start being over by then (FreezeEndsSlowStart).   *)
(***************************************************************************)
EXTENDS RateLimiter, SequenceTheorems, TLAPS

\* What one more tick, at most, earns.
LEMMA OneMoreTick ==
    ASSUME NEW t \in Nat, NEW u \in Nat, NEW r \in Nat, u <= t + 1
    PROVE  t * r \in Nat /\ u * r \in Nat /\ u * r <= t * r + r
<1>1. u * r <= (t + 1) * r
    OBVIOUS
<1>2. (t + 1) * r = t * r + r
    OBVIOUS
<1>3. t * r \in Nat /\ u * r \in Nat
    OBVIOUS
<1> QED
    BY <1>1, <1>2, <1>3

\* A quotient rounded up is at most the dividend.
LEMMA CeilDivBounds ==
    ASSUME NEW m \in Nat, NEW n \in Nat \ {0}
    PROVE  CeilDiv(m, n) \in Nat /\ CeilDiv(m, n) <= m
<1> DEFINE d == (m + n - 1) \div n
<1>1. d \in Nat /\ d * n <= m + n - 1
    OBVIOUS
<1>2. ASSUME d >= m + 1 PROVE FALSE
  <2>1. d * n >= (m + 1) * n
    BY <1>1, <1>2
  <2>2. (m + 1) * n = m * n + n
    OBVIOUS
  <2>3. m * n >= m
    OBVIOUS
  <2> QED
    BY <1>1, <2>1, <2>2, <2>3
<1> QED
    BY <1>1, <1>2 DEF CeilDiv

\* Whole tokens are worth no more than the parts they are made of.
LEMMA WholeTokens ==
    ASSUME NEW have \in Nat, NEW n \in Nat, n <= have \div Minute
    PROVE  n * Minute \in Nat /\ n * Minute <= have
<1> DEFINE d == have \div Minute
<1>1. Minute \in Nat \ {0}
    BY RateOptionsAssumption DEF RateOptionsAssumption
<1>2. d \in Nat /\ d * Minute <= have
    BY <1>1
<1>3. n * Minute <= d * Minute
    BY <1>1, <1>2
<1> QED
    BY <1>1, <1>2, <1>3

\* The bucket always holds a token, and the bounds of the rate are in order.
LEMMA CapacityBounds ==
    ASSUME NEW r \in Nat
    PROVE  Capacity(r) \in Nat /\ Capacity(r) >= Minute
<1>1. Minute \in Nat \ {0} /\ BurstTicks \in Nat
    BY RateOptionsAssumption DEF RateOptionsAssumption
<1>2. r * BurstTicks \in Nat
    BY <1>1
<1>3. CeilDiv(r * BurstTicks, Minute) \in Nat
    BY <1>1, <1>2, CeilDivBounds
<1>4. Burst(r) \in Nat /\ Burst(r) >= 1
    BY <1>3 DEF Burst, Greatest
<1>5. Burst(r) * Minute >= 1 * Minute
    BY <1>1, <1>4
<1> QED
    BY <1>1, <1>4, <1>5 DEF Capacity

LEMMA RateBounds ==
    /\ MinOpt \in Nat \ {0} /\ MaxRpm \in Nat /\ MinOpt <= MaxRpm
    /\ Initial \in MinOpt..MaxRpm
    /\ Minute \in Nat \ {0} /\ Cooldown \in Nat \ {0}
    /\ SuccessStreak \in Nat \ {0} /\ IncreaseStep \in Nat
    /\ FillTime \in Nat
<1>1. /\ MinOpt \in Nat \ {0} /\ MaxRpm \in Nat /\ MinOpt <= MaxRpm
      /\ Initial \in MinOpt..MaxRpm
      /\ Minute \in Nat \ {0} /\ Cooldown \in Nat \ {0}
      /\ SuccessStreak \in Nat \ {0} /\ IncreaseStep \in Nat
    BY RateOptionsAssumption DEF RateOptionsAssumption, MaxRpm, Initial, Least, Greatest
<1>2. FillTime \in Nat
    BY <1>1, CapacityBounds, CeilDivBounds DEF FillTime
<1> QED
    BY <1>1, <1>2

\* What the bucket holds, and how long a missing token takes at most.
LEMMA RefilledBounds ==
    ASSUME TypeOK
    PROVE  Refilled \in 0..Capacity(rpm) /\ rpm \in Nat \ {0}
<1>1. rpm \in Nat \ {0} /\ Capacity(rpm) \in Nat
    BY RateBounds, CapacityBounds DEF TypeOK
<1>2. age * rpm \in Nat
    BY <1>1, RateBounds DEF TypeOK
<1> QED
    BY <1>1, <1>2 DEF Refilled, Least, TypeOK

LEMMA WaitBounds ==
    ASSUME NEW have \in Nat, NEW r \in Nat \ {0}
    PROVE  /\ CeilDiv(Greatest(0, Minute - have), r) \in Nat
           /\ CeilDiv(Greatest(0, Minute - have), r) <= Minute
<1>1. Greatest(0, Minute - have) \in Nat /\ Greatest(0, Minute - have) <= Minute
    BY RateBounds DEF Greatest
<1> QED
    BY <1>1, CeilDivBounds, RateBounds

--------------------------------------------------------------------------------
\* What has been spent leaves room for what the bucket holds.
BucketCovers == spent + Refilled <= Capacity(rpm)

\* The timer may outlive its line, and is due within a minute all the same.
TimerIsShort == timer # Off => timer <= Minute

\* A cooldown starts with the 429 that ends slow-start.
FreezeEndsSlowStart == freeze > 0 => avoidance

Ind == TypeOK /\ WaitersAreTimed /\ TimerIsShort /\ FreezeEndsSlowStart /\ BucketCovers

\* A new rate: the tokens are cut to its burst, and the account starts afresh.
LEMMA NewRate ==
    ASSUME Ind, NEW next \in Int, SetRpm(next), age' = age
    PROVE  /\ rpm' \in MinOpt..MaxRpm
           /\ available' \in 0..Capacity(rpm')
           /\ spent' \in Nat
           /\ BucketCovers'
<1> DEFINE r == Least(MaxRpm, Greatest(MinOpt, next))
<1>1. rpm' = r /\ r \in MinOpt..MaxRpm
    BY RateBounds DEF SetRpm, Least, Greatest
<1>2. rpm' \in Nat \ {0} /\ Capacity(rpm') \in Nat
    BY <1>1, RateBounds, CapacityBounds
<1> HIDE DEF r
<1>3. CASE rpm' = rpm
  <2>1. available' = available /\ spent' = spent
    BY <1>3 DEF SetRpm
  <2>2. Refilled' = Refilled
    BY <1>3, <2>1 DEF Refilled
  <2> QED
    BY <1>1, <1>3, <2>1, <2>2 DEF Ind, TypeOK, BucketCovers
<1>4. CASE rpm' # rpm
  <2>1. available' = Least(available, Capacity(rpm')) /\ spent' = 0
    BY <1>4 DEF SetRpm, Clipped
  <2>2. available \in Nat /\ age \in Nat
    BY CapacityBounds, RateBounds DEF Ind, TypeOK
  <2>3. available' \in 0..Capacity(rpm')
    BY <1>2, <2>1, <2>2 DEF Least
  <2>4. age' * rpm' \in Nat
    <3>1. age' \in Nat /\ rpm' \in Nat
      BY <1>2, <2>2
    <3>2. \A a, b \in Nat : a * b \in Nat
      OBVIOUS
    <3> QED
      BY <3>1, <3>2
  <2>5. Refilled' <= Capacity(rpm')
    BY <1>2, <2>3, <2>4 DEF Refilled, Least
  <2>6. Refilled' \in Nat
    BY <1>2, <2>3, <2>4 DEF Refilled, Least
  <2> QED
    BY <1>1, <2>1, <2>3, <2>5, <2>6 DEF BucketCovers
<1> QED
    BY <1>3, <1>4

\* A step that spends what it takes out of the bucket, and leaves the rate alone.
LEMMA Spends ==
    ASSUME Ind, NEW parts \in Nat, parts <= Refilled,
           available' = Refilled - parts, age' = 0, spent' = spent + parts,
           UNCHANGED rate
    PROVE  /\ rpm' \in MinOpt..MaxRpm /\ avoidance' \in BOOLEAN
           /\ freeze' \in 0..Cooldown /\ streak' \in 0..(SuccessStreak - 1)
           /\ available' \in 0..Capacity(rpm') /\ age' \in 0..FillTime /\ spent' \in Nat
           /\ BucketCovers'
<1>1. Refilled \in 0..Capacity(rpm) /\ rpm \in Nat \ {0}
    BY RefilledBounds DEF Ind
<1>2. rpm' = rpm /\ Capacity(rpm) \in Nat /\ spent \in Nat
    BY <1>1, CapacityBounds DEF rate, Ind, TypeOK
<1>3. available' \in 0..Capacity(rpm')
    BY <1>1, <1>2
<1>4. Refilled' = available'
  <2>1. age' * rpm' = 0
    BY <1>1, <1>2
  <2> QED
    BY <1>2, <1>3, <2>1 DEF Refilled, Least
<1>5. BucketCovers'
    BY <1>1, <1>2, <1>4 DEF Ind, BucketCovers
<1> QED
    BY <1>2, <1>3, <1>5, RateBounds DEF rate, Ind, TypeOK

LEMMA InitInd == Init => Ind
<1> SUFFICES ASSUME Init PROVE Ind
    OBVIOUS
<1>1. rpm \in MinOpt..MaxRpm /\ rpm \in Nat \ {0} /\ Capacity(rpm) \in Nat
    BY RateBounds, CapacityBounds DEF Init
<1>2. TypeOK
  <2>1. 0 \in 0..Capacity(rpm) /\ available \in 0..Capacity(rpm)
    BY <1>1, RateBounds DEF Init
  <2>2. age \in 0..FillTime /\ freeze \in 0..Cooldown /\ streak \in 0..(SuccessStreak - 1)
    BY RateBounds DEF Init
  <2>3. queue \in Seq(Clients) /\ timer = Off /\ spent \in Nat
    BY DEF Init
  <2>4. avoidance \in BOOLEAN
    BY Zenon DEF Init
  <2> QED
    BY <1>1, <2>1, <2>2, <2>3, <2>4 DEF TypeOK
<1>3. WaitersAreTimed /\ TimerIsShort /\ FreezeEndsSlowStart
    BY DEF Init, WaitersAreTimed, TimerIsShort, FreezeEndsSlowStart
<1>4. BucketCovers
    BY <1>1, <1>2, RefilledBounds DEF Init, BucketCovers
<1> QED
    BY <1>2, <1>3, <1>4 DEF Ind

\* A cooldown finds slow-start over.
LEMMA SlowStartIsOver == Ind /\ [Next]_vars => FreezeEndsSlowStart'
<1> SUFFICES ASSUME Ind, [Next]_vars PROVE FreezeEndsSlowStart'
    OBVIOUS
<1>1. ASSUME UNCHANGED <<avoidance, freeze>> PROVE FreezeEndsSlowStart'
    BY Zenon, <1>1 DEF Ind, FreezeEndsSlowStart
<1>2. CASE RecordRateLimit
    BY <1>2 DEF RecordRateLimit, FreezeEndsSlowStart
<1>3. CASE Tick
  <2>1. avoidance' = avoidance
    BY <1>3 DEF Tick
  <2>2. freeze' > 0 => freeze > 0
    BY <1>3, RateBounds DEF Tick, Greatest, Ind, TypeOK
  <2> QED
    BY Zenon, <2>1, <2>2 DEF Ind, FreezeEndsSlowStart
<1>4. ASSUME NEW c \in Clients, TakeLater(c) \/ Abandon(c) PROVE UNCHANGED <<avoidance, freeze>>
    BY <1>4 DEF TakeLater, Abandon, rate
<1>5. CASE TakeNow \/ Fire \/ Stats \/ RecordSuccess \/ UNCHANGED vars
  <2>1. UNCHANGED <<avoidance, freeze>>
    BY <1>5 DEF TakeNow, Fire, Stats, RecordSuccess, rate, vars
  <2> QED
    BY <1>1, <2>1
<1> QED
    BY <1>1, <1>2, <1>3, <1>4, <1>5 DEF Next

LEMMA StepInd == Ind /\ [Next]_vars => Ind'
<1> SUFFICES ASSUME Ind, [Next]_vars PROVE Ind'
    OBVIOUS
<1>0. Refilled \in 0..Capacity(rpm) /\ rpm \in Nat \ {0} /\ Capacity(rpm) \in Nat
    BY RefilledBounds, CapacityBounds DEF Ind
<1>f. FreezeEndsSlowStart'
    BY SlowStartIsOver
<1>1. CASE TakeNow
  <2>1. Minute <= Refilled
    BY <1>1 DEF TakeNow, AtOnce
  <2>2. /\ rpm' \in MinOpt..MaxRpm /\ avoidance' \in BOOLEAN
        /\ freeze' \in 0..Cooldown /\ streak' \in 0..(SuccessStreak - 1)
        /\ available' \in 0..Capacity(rpm') /\ age' \in 0..FillTime /\ spent' \in Nat
        /\ BucketCovers'
    BY <1>1, <2>1, Spends, RateBounds DEF TakeNow
  <2> QED
    BY <1>f, <1>1, <2>2 DEF TakeNow, Ind, TypeOK, WaitersAreTimed, TimerIsShort
<1>2. ASSUME NEW c \in Clients, TakeLater(c) PROVE Ind'
  <2>1. /\ rpm' \in MinOpt..MaxRpm /\ avoidance' \in BOOLEAN
        /\ freeze' \in 0..Cooldown /\ streak' \in 0..(SuccessStreak - 1)
        /\ available' \in 0..Capacity(rpm') /\ age' \in 0..FillTime /\ spent' \in Nat
        /\ BucketCovers'
    <3>1. available' = Refilled - 0 /\ spent' = spent + 0
      BY <1>0, <1>2 DEF TakeLater, Ind, TypeOK
    <3> QED
      BY <1>0, <1>2, <3>1, Spends DEF TakeLater
  <2>2. timer' \in Nat /\ timer' <= Minute
    <3>1. CASE timer = Off
      BY <1>0, <1>2, <3>1, WaitBounds DEF TakeLater, Scheduled
    <3>2. CASE timer # Off
      <4>1. timer' = timer
        BY <1>2, <3>2 DEF TakeLater, Scheduled
      <4> QED
        BY <3>2, <4>1 DEF Ind, TypeOK, TimerIsShort
    <3> QED
      BY <3>1, <3>2
  <2>3. queue' \in Seq(Clients)
    BY <1>2 DEF TakeLater, Ind, TypeOK
  <2> QED
    BY <1>f, <2>1, <2>2, <2>3 DEF Ind, TypeOK, WaitersAreTimed, TimerIsShort, Off
<1>3. ASSUME NEW c \in Clients, Abandon(c) PROVE Ind'
  <2>1. PICK i \in DOMAIN queue :
          queue' = SubSeq(queue, 1, i - 1) \o SubSeq(queue, i + 1, Len(queue))
    BY <1>3 DEF Abandon
  <2>2. queue' \in Seq(Clients) /\ queue # <<>>
    <3>1. queue \in Seq(Clients) /\ i \in 1..Len(queue)
      BY DEF Ind, TypeOK
    <3>2. \A j \in 1..Len(queue) : queue[j] \in Clients
      BY <3>1, ElementOfSeq
    <3>3. SubSeq(queue, 1, i - 1) \in Seq(Clients)
      BY <3>1, <3>2, SubSeqProperties
    <3>4. SubSeq(queue, i + 1, Len(queue)) \in Seq(Clients)
      BY <3>1, <3>2, SubSeqProperties
    <3> QED
      BY <2>1, <3>1, <3>3, <3>4, ConcatProperties
  <2>3. UNCHANGED <<rpm, avoidance, freeze, streak, available, age, timer, spent>>
    BY <1>3 DEF Abandon, rate, bucket
  <2>4. Refilled' = Refilled
    BY <2>3 DEF Refilled
  <2> QED
    BY <1>f, <2>2, <2>3, <2>4 DEF Ind, TypeOK, WaitersAreTimed, TimerIsShort, BucketCovers
<1>4. CASE Fire
  <2> DEFINE n == Least(Len(queue), Refilled \div Minute)
             parts == n * Minute
  <2>1. queue \in Seq(Clients) /\ Len(queue) \in Nat
    BY DEF Ind, TypeOK
  <2>2. n \in 0..Len(queue) /\ n \in Nat /\ n <= Refilled \div Minute
    BY <1>0, <2>1, RateBounds DEF Least
  <2>3. /\ queue' = SubSeq(queue, n + 1, Len(queue))
        /\ available' = Refilled - parts /\ spent' = spent + parts
        /\ timer' = Rearmed(queue', available') /\ age' = 0 /\ UNCHANGED rate
    BY <1>4 DEF Fire
  <2> HIDE DEF n
  <2>4. parts \in Nat /\ parts <= Refilled
    BY <1>0, <2>2, WholeTokens
  <2> HIDE DEF parts
  <2>5. /\ rpm' \in MinOpt..MaxRpm /\ avoidance' \in BOOLEAN
        /\ freeze' \in 0..Cooldown /\ streak' \in 0..(SuccessStreak - 1)
        /\ available' \in 0..Capacity(rpm') /\ age' \in 0..FillTime /\ spent' \in Nat
        /\ BucketCovers'
    BY <2>3, <2>4, Spends
  <2>6. queue' \in Seq(Clients)
    <3>1. \A j \in 1..Len(queue) : queue[j] \in Clients
      BY <2>1, ElementOfSeq
    <3> QED
      BY <2>1, <2>2, <2>3, <3>1, SubSeqProperties
  <2>7. /\ timer' \in Nat \cup {Off} /\ timer' <= Minute
        /\ queue' # <<>> => timer' # Off
    <3>1. available' \in Nat
      BY <1>0, <2>3, <2>4
    <3>2. CASE queue' = <<>>
      BY <2>3, <3>2, RateBounds DEF Rearmed, Off
    <3>3. CASE queue' # <<>>
      BY <1>0, <2>3, <3>1, <3>3, WaitBounds DEF Rearmed, Off
    <3> QED
      BY <3>2, <3>3
  <2> QED
    BY <1>f, <2>5, <2>6, <2>7 DEF Ind, TypeOK, WaitersAreTimed, TimerIsShort
<1>5. CASE RecordRateLimit
  <2>1. /\ rpm' \in MinOpt..MaxRpm /\ available' \in 0..Capacity(rpm')
        /\ spent' \in Nat /\ freeze' \in 0..Cooldown /\ BucketCovers'
    <3>1. CASE Cuts
      <4>1. (rpm * DecreasePercent) \div 100 \in Int
        BY <1>0, RateOptionsAssumption DEF RateOptionsAssumption
      <4>2. SetRpm((rpm * DecreasePercent) \div 100) /\ age' = age /\ freeze' = Cooldown
        BY <1>5, <3>1 DEF RecordRateLimit
      <4> QED
        BY <4>1, <4>2, NewRate, RateBounds
    <3>2. CASE ~Cuts
      <4>1. UNCHANGED <<freeze, rpm, available, spent, age>>
        BY <1>5, <3>2 DEF RecordRateLimit
      <4>2. Refilled' = Refilled
        BY <4>1 DEF Refilled
      <4> QED
        BY <4>1, <4>2 DEF Ind, TypeOK, BucketCovers
    <3> QED
      BY <3>1, <3>2
  <2> QED
    BY <1>f, <1>5, <2>1 DEF RecordRateLimit, Ind, TypeOK, WaitersAreTimed, TimerIsShort
<1>6. CASE RecordSuccess
  <2>1. /\ rpm' \in MinOpt..MaxRpm /\ available' \in 0..Capacity(rpm')
        /\ spent' \in Nat /\ streak' \in 0..(SuccessStreak - 1) /\ BucketCovers'
    <3>1. CASE streak + 1 < SuccessStreak
      <4>1. streak' = streak + 1 /\ UNCHANGED <<rpm, available, spent, age>>
        BY <1>6, <3>1 DEF RecordSuccess
      <4>2. Refilled' = Refilled
        BY <4>1 DEF Refilled
      <4> QED
        BY <3>1, <4>1, <4>2, RateBounds DEF Ind, TypeOK, BucketCovers
    <3>2. CASE ~(streak + 1 < SuccessStreak)
      <4>1. Raised \in Int
        BY <1>0, RateBounds DEF Raised
      <4>2. SetRpm(Raised) /\ age' = age /\ streak' = 0
        BY <1>6, <3>2 DEF RecordSuccess
      <4> QED
        BY <4>1, <4>2, NewRate, RateBounds
    <3> QED
      BY <3>1, <3>2
  <2> QED
    BY <1>f, <1>6, <2>1 DEF RecordSuccess, Ind, TypeOK, WaitersAreTimed, TimerIsShort
<1>7. CASE Stats
  <2>1. /\ rpm' \in MinOpt..MaxRpm /\ avoidance' \in BOOLEAN
        /\ freeze' \in 0..Cooldown /\ streak' \in 0..(SuccessStreak - 1)
        /\ available' \in 0..Capacity(rpm') /\ age' \in 0..FillTime /\ spent' \in Nat
        /\ BucketCovers'
    <3>1. available' = Refilled - 0 /\ spent' = spent + 0
      BY <1>0, <1>7 DEF Stats, Ind, TypeOK
    <3> QED
      BY <1>0, <1>7, <3>1, Spends DEF Stats
  <2> QED
    BY <1>f, <1>7, <2>1 DEF Stats, Ind, TypeOK, WaitersAreTimed, TimerIsShort
<1>8. CASE Tick
  <2>1. UNCHANGED <<rpm, avoidance, available, queue, streak>>
    BY <1>8 DEF Tick
  <2>2. /\ age' \in 0..FillTime /\ age' <= age + 1 /\ age \in Nat
        /\ freeze' \in 0..Cooldown
    BY <1>8, RateBounds DEF Tick, Least, Greatest, Ind, TypeOK
  <2>3. spent' \in Nat /\ spent' = Greatest(0, spent - rpm) /\ spent \in Nat
    BY <1>0, <1>8 DEF Tick, Greatest, Ind, TypeOK
  <2>4. /\ timer' \in Nat \cup {Off}
        /\ timer = Off => timer' = Off
        /\ timer # Off => timer' # Off /\ timer' <= timer
    BY <1>8 DEF Tick, Ind, TypeOK, Off
  <2>5. Refilled' <= Refilled + rpm /\ Refilled' <= Capacity(rpm) /\ Refilled' \in Nat
    <3> DEFINE credit == age * rpm
               later == age' * rpm
    <3>1. age \in Nat /\ age' \in Nat /\ age' <= age + 1 /\ rpm \in Nat
      BY <1>0, <2>2, RateBounds
    <3>2. credit \in Nat /\ later \in Nat /\ later <= credit + rpm
      BY <3>1, OneMoreTick
    <3>3. available \in Nat
      BY <1>0 DEF Ind, TypeOK
    <3>4. /\ Refilled = Least(Capacity(rpm), available + credit)
          /\ Refilled' = Least(Capacity(rpm), available + later)
      BY <2>1 DEF Refilled
    <3> HIDE DEF credit, later
    <3> QED
      BY <1>0, <3>1, <3>2, <3>3, <3>4 DEF Least
  <2>6. BucketCovers'
    BY <1>0, <2>1, <2>3, <2>5 DEF BucketCovers, Ind, Greatest
  <2>7. TypeOK'
    BY <2>1, <2>2, <2>3, <2>4 DEF Ind, TypeOK
  <2>8. WaitersAreTimed' /\ TimerIsShort'
    BY <2>1, <2>4, RateBounds DEF Ind, TypeOK, WaitersAreTimed, TimerIsShort, Off
  <2> QED
    BY <1>f, <2>6, <2>7, <2>8 DEF Ind
<1>9. CASE UNCHANGED vars
  BY <1>f, <1>9 DEF vars, Ind, TypeOK, WaitersAreTimed, TimerIsShort, BucketCovers, Refilled
<1> QED
    BY <1>1, <1>2, <1>3, <1>4, <1>5, <1>6, <1>7, <1>8, <1>9 DEF Next

LEMMA Inductive == Spec => []Ind
<1> QED
    BY InitInd, StepInd, PTL DEF Spec

--------------------------------------------------------------------------------
\* The rate stays within its bounds and the bucket within its burst.
THEOREM RateTypeCorrect == Spec => []TypeOK
<1>1. Ind => TypeOK
    BY DEF Ind
<1> QED
    BY <1>1, Inductive, PTL

\* The law of the bucket: in no stretch of time at one rate is more handed out
\* than one burst and what the rate earns, for any number of callers.
THEOREM BucketKeepsTheRate == Spec => []RateIsKept
<1>1. Ind => RateIsKept
  <2>1. ASSUME Ind PROVE RateIsKept
    <3>1. Refilled \in Nat /\ Capacity(rpm) \in Nat /\ spent \in Nat
      BY <2>1, RefilledBounds, CapacityBounds DEF Ind, TypeOK
    <3> QED
      BY <2>1, <3>1 DEF Ind, BucketCovers, RateIsKept
  <2> QED
    BY <2>1
<1> QED
    BY <1>1, Inductive, PTL

\* No lost wakeup: whoever waits has a timer, due within a minute.
THEOREM TakersAreTimed == Spec => []WaitersAreTimed
<1>1. Ind => WaitersAreTimed
    BY DEF Ind
<1> QED
    BY <1>1, Inductive, PTL

\* A burst of 429s costs one factor, and the rate never rises inside a cooldown.
THEOREM CooldownHolds == Spec => OneCutPerCooldown
<1> DEFINE Step ==
      /\ freeze > 0 /\ freeze' > 0 => rpm' = rpm
      /\ rpm' < rpm => freeze = 0 /\ freeze' = Cooldown
<1>1. Ind /\ [Next]_vars => [Step]_vars
  <2> SUFFICES ASSUME Ind, Next PROVE Step
    BY DEF vars
  <2>0. rpm \in MinOpt..MaxRpm /\ freeze \in Nat /\ avoidance \in BOOLEAN
    BY RateBounds DEF Ind, TypeOK
  <2>1. CASE RecordRateLimit
    <3>1. CASE Cuts
      BY <2>0, <2>1, <3>1 DEF RecordRateLimit, Cuts
    <3>2. CASE ~Cuts
      BY <2>0, <2>1, <3>2, RateBounds DEF RecordRateLimit
    <3> QED
      BY <3>1, <3>2
  <2>2. CASE RecordSuccess
    <3>1. freeze' = freeze
      BY <2>2 DEF RecordSuccess
    <3>2. CASE rpm' = rpm
      BY <2>0, <3>2, RateBounds
    <3>3. CASE rpm' # rpm
      <4>1. rpm' = Least(MaxRpm, Greatest(MinOpt, Raised))
        BY <2>2, <3>3 DEF RecordSuccess, SetRpm
      <4>2. freeze > 0 => Raised = rpm
        BY <2>0 DEF Raised, Ind, FreezeEndsSlowStart
      <4>3. Raised \in Int /\ Raised >= rpm
        BY <2>0, RateBounds DEF Raised
      <4>4. rpm' >= rpm
        BY <2>0, <4>1, <4>3, RateBounds DEF Least, Greatest
      <4> QED
        BY <2>0, <3>1, <3>3, <4>1, <4>2, <4>3, <4>4, RateBounds DEF Least, Greatest
    <3> QED
      BY <3>2, <3>3
  <2>3. ASSUME UNCHANGED rpm PROVE Step
    BY <2>0, <2>3, RateBounds
  <2>4. ASSUME NEW c \in Clients, TakeLater(c) \/ Abandon(c) PROVE UNCHANGED rpm
    BY <2>4 DEF TakeLater, Abandon, rate
  <2>5. CASE TakeNow \/ Fire \/ Stats \/ Tick
    BY <2>3, <2>5 DEF TakeNow, Fire, Stats, Tick, rate
  <2> QED
    BY <2>1, <2>2, <2>3, <2>4, <2>5 DEF Next
<1> QED
    BY <1>1, Inductive, PTL DEF Spec, OneCutPerCooldown

\* First come, first served: what a step hands out while callers are in line goes
\* to the oldest of them.
THEOREM LineIsServedInOrder == Spec => ServedInOrder
<1> DEFINE Step == spent' > spent /\ queue # <<>> =>
              queue' = SubSeq(queue, (spent' - spent) \div Minute + 1, Len(queue))
<1>1. Ind /\ [Next]_vars => [Step]_vars
  <2> SUFFICES ASSUME Ind, Next, spent' > spent, queue # <<>>
               PROVE  queue' = SubSeq(queue, (spent' - spent) \div Minute + 1, Len(queue))
    BY DEF vars
  <2>0. spent \in Nat /\ rpm \in Nat /\ Refilled \in Nat /\ queue \in Seq(Clients)
    BY RefilledBounds, CapacityBounds DEF Ind, TypeOK
  <2>1. CASE Fire
    <3> DEFINE n == Least(Len(queue), Refilled \div Minute)
    <3>1. n \in Nat /\ Minute \in Nat \ {0}
      BY <2>0, RateBounds DEF Least
    <3>2. spent' = spent + n * Minute /\ queue' = SubSeq(queue, n + 1, Len(queue))
      BY <2>1 DEF Fire
    <3> HIDE DEF n
    <3>3. n * Minute \in Nat
      BY <3>1
    <3>4. spent' - spent = n * Minute
      BY <2>0, <3>2, <3>3
    <3>5. (n * Minute) \div Minute = n
      BY <3>1
    <3> QED
      BY <3>2, <3>4, <3>5
  <2>2. ASSUME spent' = spent \/ spent' = 0 PROVE FALSE
    BY <2>0, <2>2
  <2>3. CASE TakeNow
    BY <2>3 DEF TakeNow, AtOnce
  <2>4. CASE RecordRateLimit
    BY <2>2, <2>4 DEF RecordRateLimit, SetRpm
  <2>5. CASE RecordSuccess
    BY <2>2, <2>5 DEF RecordSuccess, SetRpm
  <2>6. CASE Tick
    BY <2>0, <2>6 DEF Tick, Greatest
  <2>7. ASSUME NEW c \in Clients, TakeLater(c) \/ Abandon(c) PROVE FALSE
    <3>1. spent' = spent
      BY <2>7 DEF TakeLater, Abandon
    <3> QED
      BY <2>2, <3>1
  <2>8. CASE Stats
    BY <2>2, <2>8 DEF Stats
  <2> QED
    BY <2>1, <2>3, <2>4, <2>5, <2>6, <2>7, <2>8 DEF Next
<1> QED
    BY <1>1, Inductive, PTL DEF Spec, ServedInOrder
================================================================================
