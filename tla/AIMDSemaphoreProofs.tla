-------------------------- MODULE AIMDSemaphoreProofs --------------------------
(***************************************************************************)
(* Proofs about AIMDSemaphore, for any number of clients and any options.  *)
(*                                                                         *)
(* The inductive invariant is Ind: the types, the accounting of permits    *)
(* and the wakeup condition.  The accounting needs the three conjuncts at  *)
(* once (a served entry is a new holder because entries are distinct and   *)
(* hold nothing); the wakeup condition needs the accounting nowhere.       *)
(***************************************************************************)
EXTENDS AIMDSemaphore, SequenceTheorems, FunctionTheorems, FiniteSetTheorems, TLAPS

\* The options after normalisation are positive, and the limits stay ordered
\* as far as the constructor orders them.
LEMMA OptionTypes ==
    /\ SoftMax \in Nat \ {0} /\ MinLimit \in Nat \ {0} /\ Initial \in Nat \ {0}
    /\ Initial <= HardMaxOpt /\ SoftMax <= HardMaxOpt
    /\ SuccessStreak \in Nat /\ MaxRateLimits \in Nat
BY OptionsAssumption DEF OptionsAssumption, SoftMax, MinLimit, Initial, Least, Greatest

\* A contiguous part of the queue.
LEMMA Slice ==
    ASSUME NEW q \in Seq(Clients), NEW m \in Nat, NEW n \in Nat,
           1 <= m, m <= n + 1, n <= Len(q)
    PROVE  /\ SubSeq(q, m, n) \in Seq(Clients)
           /\ Len(SubSeq(q, m, n)) = n + 1 - m
           /\ DOMAIN SubSeq(q, m, n) = 1..(n + 1 - m)
           /\ \A i \in 1..(n + 1 - m) : SubSeq(q, m, n)[i] = q[i + m - 1]
<1> DEFINE part == SubSeq(q, m, n)
<1>1. Len(q) \in Nat /\ DOMAIN q = 1..Len(q)
    OBVIOUS
<1>2. ASSUME NEW i \in m..n PROVE q[i] \in Clients
  <2>1. i \in 1..Len(q)
    BY <1>1
  <2> QED
    BY <1>1, <2>1, ElementOfSeq
<1>3. /\ part \in Seq(Clients)
      /\ Len(part) = IF m <= n THEN n - m + 1 ELSE 0
      /\ \A i \in 1..(n - m + 1) : part[i] = q[m + i - 1]
    BY <1>2, SubSeqProperties
<1> HIDE DEF part
<1>4. (IF m <= n THEN n - m + 1 ELSE 0) = n + 1 - m
    OBVIOUS
<1>5. Len(part) = n + 1 - m /\ DOMAIN part = 1..(n + 1 - m)
    BY <1>3, <1>4
<1>6. ASSUME NEW i \in 1..(n + 1 - m) PROVE part[i] = q[i + m - 1]
  <2>1. i \in 1..(n - m + 1) /\ m + i - 1 = i + m - 1
    OBVIOUS
  <2> QED
    BY <1>3, <2>1
<1> QED
    BY <1>3, <1>5, <1>6 DEF part

\* What remains of the queue when its oldest n entries are shifted out.
LEMMA Suffix ==
    ASSUME NEW q \in Seq(Clients), NEW n \in 0..Len(q)
    PROVE  LET r == SubSeq(q, n + 1, Len(q))
           IN  /\ r \in Seq(Clients)
               /\ Len(r) = Len(q) - n
               /\ DOMAIN r = 1..(Len(q) - n)
               /\ \A i \in 1..(Len(q) - n) : r[i] = q[i + n]
<1> DEFINE L == Len(q)
           m == n + 1
           r == SubSeq(q, m, L)
<1>1. L \in Nat /\ n \in Nat /\ n <= L
    OBVIOUS
<1>2. m \in Nat /\ 1 <= m /\ m <= L + 1 /\ L + 1 - m = L - n
    BY <1>1
<1>3. \A i \in 1..(L - n) : i + m - 1 = i + n
    BY <1>1
<1> HIDE DEF m
<1>4. /\ r \in Seq(Clients) /\ Len(r) = L + 1 - m /\ DOMAIN r = 1..(L + 1 - m)
      /\ \A i \in 1..(L + 1 - m) : r[i] = q[i + m - 1]
    BY <1>1, <1>2, Slice
<1> HIDE DEF r, L
<1>5. /\ r \in Seq(Clients) /\ Len(r) = L - n /\ DOMAIN r = 1..(L - n)
      /\ \A i \in 1..(L - n) : r[i] = q[i + n]
    BY <1>2, <1>3, <1>4
<1> QED
    BY <1>5 DEF r, L, m

\* The oldest n entries of the queue.
LEMMA Prefix ==
    ASSUME NEW q \in Seq(Clients), NEW n \in 0..Len(q)
    PROVE  LET r == SubSeq(q, 1, n)
           IN  /\ r \in Seq(Clients)
               /\ Len(r) = n
               /\ \A i \in 1..n : r[i] = q[i]
<1> DEFINE r == SubSeq(q, 1, n)
<1>1. n \in Nat /\ n <= Len(q) /\ n + 1 - 1 = n /\ 1 <= n + 1 /\ \A i \in 1..n : i + 1 - 1 = i
    OBVIOUS
<1>2. /\ r \in Seq(Clients) /\ Len(r) = n + 1 - 1
      /\ \A i \in 1..(n + 1 - 1) : r[i] = q[i + 1 - 1]
    BY <1>1, Slice
<1> HIDE DEF r
<1>3. r \in Seq(Clients) /\ Len(r) = n /\ \A i \in 1..n : r[i] = q[i]
    BY <1>1, <1>2
<1> QED
    BY <1>3 DEF r

\* A congestion event never takes the limit below the minimum, and raises it
\* only when it was below the minimum.
LEMMA CutBounds ==
    ASSUME limit \in Nat \ {0}
    PROVE  /\ CutLimit \in Nat \ {0}
           /\ CutLimit >= MinLimit
           /\ CutLimit <= limit \/ CutLimit = MinLimit
<1> DEFINE share == limit * DecreasePercent
<1>1. DecreasePercent \in 1..99
    BY OptionsAssumption DEF OptionsAssumption
<1>2. share \in Nat /\ share <= limit * 100
    BY <1>1
<1> HIDE DEF share
<1>3. share \div 100 \in Nat /\ share \div 100 <= limit
    BY <1>2
<1> QED
    BY <1>3, OptionTypes DEF CutLimit, Greatest, share

\* How many entries drainQueue() serves: never past the limit or the queue, and
\* it stops early only when the semaphore is closed or full.
LEMMA ServedBounds ==
    ASSUME NEW q \in Seq(Clients), NEW busy \in Nat, NEW lim \in Nat,
           NEW closed \in BOOLEAN
    PROVE  LET n == Served(q, busy, lim, closed)
           IN  /\ n \in 0..Len(q)
               /\ n > 0 => busy + n <= lim /\ ~closed
               /\ n < Len(q) => closed \/ busy + n >= lim
<1>1. Len(q) \in Nat
    OBVIOUS
<1>2. CASE Open(busy, lim, closed)
    BY <1>1, <1>2 DEF Served, Open, Least
<1>3. CASE ~Open(busy, lim, closed)
    BY <1>1, <1>3 DEF Served, Open
<1> QED
    BY <1>2, <1>3

\* What a drain leaves behind.
LEMMA DrainTypes ==
    ASSUME TypeOK,
           NEW h \in [Clients -> {"none", "held", "released"}],
           NEW busy \in Nat, NEW lim \in Nat, NEW closed \in BOOLEAN,
           Drain(h, busy, lim, closed)
    PROVE  /\ handle' \in [Clients -> {"none", "held", "released"}]
           /\ queue' \in Seq(Clients)
           /\ inFlight' \in Nat
<1> DEFINE n == Served(queue, busy, lim, closed)
<1>1. queue \in Seq(Clients) /\ Len(queue) \in Nat
    BY DEF TypeOK
<1>2. n \in 0..Len(queue)
    BY <1>1, ServedBounds
<1>3. queue' = SubSeq(queue, n + 1, Len(queue)) /\ inFlight' = busy + n
    BY DEF Drain
<1>4. queue' \in Seq(Clients)
  <2> HIDE DEF n
  <2> QED
    BY <1>1, <1>2, <1>3, Suffix
<1>5. inFlight' \in Nat
    BY <1>1, <1>2, <1>3
<1>6. handle' \in [Clients -> {"none", "held", "released"}]
    BY DEF Drain
<1> QED
    BY <1>4, <1>5, <1>6

\* The entries a drain serves are that many distinct clients.
LEMMA LuckyCount ==
    ASSUME NEW q \in Seq(Clients), NEW n \in 0..Len(q),
           \A i, j \in DOMAIN q : q[i] = q[j] => i = j
    PROVE  /\ IsFiniteSet({q[i] : i \in 1..n})
           /\ Cardinality({q[i] : i \in 1..n}) = n
<1> DEFINE Lucky == {q[i] : i \in 1..n}
           f == [i \in 1..n |-> q[i]]
<1>1. 1..n \subseteq DOMAIN q
    OBVIOUS
<1>2. f \in Bijection(1..n, Lucky)
    BY <1>1, Fun_IsBij
<1>3. ExistsBijection(1..n, Lucky)
    BY <1>2 DEF ExistsBijection
<1>4. IsFiniteSet(1..n) /\ Cardinality(1..n) = n
    BY FS_Interval
<1> QED
    BY <1>3, <1>4, FS_Bijection

\* A drain that starts with the counter right ends with it right, and serves
\* nobody who holds a permit already.
LEMMA DrainAccounts ==
    ASSUME TypeOK,
           NEW h \in [Clients -> {"none", "held", "released"}],
           NEW lim \in Nat, NEW closed \in BOOLEAN,
           \A i, j \in DOMAIN queue : queue[i] = queue[j] => i = j,
           \A i \in DOMAIN queue : h[queue[i]] # "held",
           Drain(h, Cardinality({c \in Clients : h[c] = "held"}), lim, closed)
    PROVE  PermitAccounting'
<1> DEFINE kept  == {c \in Clients : h[c] = "held"}
           busy  == Cardinality(kept)
           n     == Served(queue, busy, lim, closed)
           lucky == {queue[i] : i \in 1..n}
<1>1. queue \in Seq(Clients) /\ Len(queue) \in Nat /\ DOMAIN queue = 1..Len(queue)
    BY DEF TypeOK
<1>2. IsFiniteSet(kept) /\ busy \in Nat
    BY ClientsAssumption, FS_Subset, FS_CardinalityType
<1>3. n \in 0..Len(queue)
    BY <1>1, <1>2, ServedBounds
<1>4. /\ handle' = [c \in Clients |-> IF \E i \in 1..n : queue[i] = c THEN "held" ELSE h[c]]
      /\ queue' = SubSeq(queue, n + 1, Len(queue))
      /\ inFlight' = busy + n
    BY DEF Drain
<1> HIDE DEF n
<1>5. IsFiniteSet(lucky) /\ Cardinality(lucky) = n
    BY <1>1, <1>3, LuckyCount
<1>6. Holders' = kept \cup lucky
    BY <1>1, <1>3, <1>4 DEF Holders
<1>7. kept \cap lucky = {}
    BY <1>1, <1>3
<1>8. inFlight' = Cardinality(Holders')
  <2>1. Cardinality(kept \cap lucky) = 0
    BY <1>7, FS_EmptySet
  <2>2. Cardinality(kept \cup lucky) = busy + n - 0
    <3> HIDE DEF kept, lucky
    <3> QED
        BY <1>2, <1>5, <2>1, FS_Union
  <2> QED
    BY <1>2, <1>3, <1>4, <1>6, <2>2
<1>9. /\ DOMAIN queue' = 1..(Len(queue) - n)
      /\ \A i \in DOMAIN queue' : queue'[i] = queue[i + n]
    BY <1>1, <1>3, <1>4, Suffix
<1>10. \A i, j \in DOMAIN queue' : queue'[i] = queue'[j] => i = j
    BY <1>1, <1>3, <1>9
<1>11. ASSUME NEW i \in DOMAIN queue' PROVE queue'[i] \notin Holders'
  <2>1. i + n \in DOMAIN queue /\ i + n \notin 1..n /\ queue'[i] = queue[i + n]
    BY <1>1, <1>3, <1>9
  <2>2. queue[i + n] \notin lucky
    BY <1>1, <1>3, <2>1
  <2> QED
    BY <1>6, <2>1, <2>2
<1> QED
    BY <1>8, <1>10, <1>11 DEF PermitAccounting, Holders

\* After a drain nobody who could be served is left in line.
LEMMA DrainWakes ==
    ASSUME TypeOK, NEW h, NEW busy \in Nat, NEW lim \in Nat, NEW closed \in BOOLEAN,
           Drain(h, busy, lim, closed), queue' # <<>>, inFlight' < lim
    PROVE  closed
<1> DEFINE n == Served(queue, busy, lim, closed)
<1>1. queue \in Seq(Clients) /\ Len(queue) \in Nat
    BY DEF TypeOK
<1>2. n \in 0..Len(queue) /\ (n < Len(queue) => closed \/ busy + n >= lim)
    BY <1>1, ServedBounds
<1>3. queue' = SubSeq(queue, n + 1, Len(queue)) /\ inFlight' = busy + n
    BY DEF Drain
<1> HIDE DEF n
<1>4. n # Len(queue)
    BY <1>1, <1>3, SubSeqEmpty
<1> QED
    BY <1>1, <1>2, <1>3, <1>4

\* What splicing the i-th entry out of the queue leaves.
LEMMA Splice ==
    ASSUME NEW q \in Seq(Clients), NEW i \in DOMAIN q
    PROVE  LET r == SubSeq(q, 1, i - 1) \o SubSeq(q, i + 1, Len(q))
           IN  /\ r \in Seq(Clients)
               /\ DOMAIN r = 1..(Len(q) - 1)
               /\ \A k \in DOMAIN r : r[k] = IF k < i THEN q[k] ELSE q[k + 1]
<1> DEFINE a == SubSeq(q, 1, i - 1)
           b == SubSeq(q, i + 1, Len(q))
           r == a \o b
<1>1. Len(q) \in Nat /\ DOMAIN q = 1..Len(q) /\ i \in 1..Len(q)
    OBVIOUS
<1>2. a \in Seq(Clients) /\ Len(a) = i - 1 /\ \A k \in 1..(i - 1) : a[k] = q[k]
  <2>1. i - 1 \in 0..Len(q)
    BY <1>1
  <2> QED
    BY <2>1, Prefix
<1>3. b \in Seq(Clients) /\ Len(b) = Len(q) - i /\ \A k \in 1..(Len(q) - i) : b[k] = q[k + i]
  <2>1. i \in 0..Len(q)
    BY <1>1
  <2> QED
    BY <2>1, Suffix
<1> HIDE DEF a, b
<1>4. /\ r \in Seq(Clients) /\ Len(r) = Len(a) + Len(b)
      /\ \A k \in 1..(Len(a) + Len(b)) : r[k] = IF k <= Len(a) THEN a[k] ELSE b[k - Len(a)]
    BY <1>2, <1>3, ConcatProperties
<1> HIDE DEF r
<1>5. DOMAIN r = 1..(Len(q) - 1)
    BY <1>1, <1>2, <1>3, <1>4
<1>6. ASSUME NEW k \in DOMAIN r PROVE r[k] = IF k < i THEN q[k] ELSE q[k + 1]
  <2>1. CASE k < i
    BY <1>1, <1>2, <1>3, <1>4, <1>5, <2>1
  <2>2. CASE ~(k < i)
    <3>1. k \in 1..(Len(a) + Len(b)) /\ ~(k <= Len(a))
        BY <1>1, <1>2, <1>3, <1>5, <2>2
    <3>2. r[k] = b[k - Len(a)]
        BY <1>4, <3>1
    <3> DEFINE l == k - Len(a)
    <3>3. l \in 1..(Len(q) - i) /\ l + i = k + 1
        BY <1>1, <1>2, <1>5, <2>2
    <3> HIDE DEF l
    <3>4. b[l] = q[l + i]
        BY <1>3, <3>3
    <3> QED
        BY <2>2, <3>2, <3>3, <3>4 DEF l
  <2> QED
    BY <2>1, <2>2
<1> QED
    BY <1>4, <1>5, <1>6 DEF r, a, b

--------------------------------------------------------------------------------
Ind == TypeOK /\ PermitAccounting /\ NoLostWakeup

\* The hypotheses of the drain lemmas hold for a drain that keeps every holder.
LEMMA HoldersFacts ==
    ASSUME TypeOK, PermitAccounting
    PROVE  /\ Holders = {c \in Clients : handle[c] = "held"}
           /\ inFlight = Cardinality({c \in Clients : handle[c] = "held"})
           /\ IsFiniteSet(Holders)
           /\ \A i \in DOMAIN queue : queue[i] \in Clients /\ handle[queue[i]] # "held"
<1>1. IsFiniteSet(Holders)
    BY ClientsAssumption, FS_Subset DEF Holders
<1> QED
    BY <1>1 DEF TypeOK, PermitAccounting, Holders

\* A change of the limit after a success keeps the accounting and wakes
\* whoever the new limit has room for.
LEMMA RaiseToPreserves ==
    ASSUME TypeOK, PermitAccounting, NoLostWakeup, ~frozen,
           NEW new \in Nat \ {0}, RaiseTo(new), frozen' = frozen, cooldown' = cooldown
    PROVE  /\ handle' \in [Clients -> {"none", "held", "released"}]
           /\ queue' \in Seq(Clients) /\ inFlight' \in Nat /\ limit' \in Nat \ {0}
           /\ PermitAccounting'
           /\ NoLostWakeup'
<1>1. CASE new = limit
    BY <1>1 DEF RaiseTo, permits, TypeOK, PermitAccounting, NoLostWakeup, Holders
<1>2. CASE new # limit
  <2>1. Drain(handle, inFlight, new, frozen) /\ limit' = new
    BY <1>2 DEF RaiseTo
  <2>2. /\ handle' \in [Clients -> {"none", "held", "released"}]
        /\ queue' \in Seq(Clients) /\ inFlight' \in Nat
    BY <2>1, DrainTypes DEF TypeOK
  <2>3. PermitAccounting'
    BY <2>1, HoldersFacts, DrainAccounts DEF TypeOK, PermitAccounting
  <2>4. queue' # <<>> /\ inFlight' < limit' => frozen
    BY <2>1, DrainWakes DEF TypeOK
  <2> QED
    BY <2>1, <2>2, <2>3, <2>4 DEF NoLostWakeup
<1> QED
    BY <1>1, <1>2

\* The inductive invariant holds at the start.
LEMMA InitInd == Init => Ind
<1> SUFFICES ASSUME Init PROVE Ind
    OBVIOUS
<1>1. TypeOK
  <2>1. frozen \in BOOLEAN /\ cooldown \in BOOLEAN /\ recovery \in BOOLEAN
    BY Zenon DEF Init
  <2>2. /\ queue \in Seq(Clients) /\ inFlight \in Nat /\ limit \in Nat \ {0}
        /\ streak \in 0..SuccessStreak /\ rateLimits \in 0..MaxRateLimits
        /\ handle \in [Clients -> {"none", "held", "released"}]
    BY OptionTypes DEF Init
  <2> QED
    BY <2>1, <2>2 DEF TypeOK
<1>2. PermitAccounting
  <2>1. Holders = {}
    BY DEF Init, Holders
  <2> QED
    BY <2>1, FS_EmptySet DEF Init, PermitAccounting
<1>3. NoLostWakeup
    BY DEF Init, NoLostWakeup
<1> QED
    BY <1>1, <1>2, <1>3 DEF Ind

\* Every step keeps the inductive invariant.
LEMMA StepInd == Ind /\ [Next]_vars => Ind'
<1> SUFFICES ASSUME Ind, [Next]_vars PROVE Ind'
    OBVIOUS
<1> USE DEF Ind
<1>1. ASSUME NEW c \in Clients, AcquireNow(c) PROVE Ind'
  <2>1. TypeOK'
    BY <1>1 DEF AcquireNow, TypeOK, policy
  <2>2. c \notin Holders /\ Holders' = Holders \cup {c}
    BY <1>1 DEF AcquireNow, Idle, Holders, TypeOK
  <2>3. inFlight' = Cardinality(Holders')
    BY <1>1, <2>2, HoldersFacts, FS_AddElement DEF AcquireNow, PermitAccounting
  <2>4. PermitAccounting'
    BY <1>1, <2>2, <2>3 DEF AcquireNow, Idle, InLine, PermitAccounting
  <2>5. NoLostWakeup'
    BY <1>1 DEF AcquireNow, NoLostWakeup, Open, TypeOK, policy
  <2> QED
    BY <2>1, <2>4, <2>5
<1>2. ASSUME NEW c \in Clients, Enqueue(c) PROVE Ind'
  <2>1. queue \in Seq(Clients) /\ Len(queue) \in Nat /\ DOMAIN queue = 1..Len(queue)
    BY DEF TypeOK
  <2>2. /\ queue' \in Seq(Clients) /\ DOMAIN queue' = 1..(Len(queue) + 1)
        /\ \A i \in 1..Len(queue) : queue'[i] = queue[i]
        /\ queue'[Len(queue) + 1] = c
    BY <1>2, <2>1, AppendProperties DEF Enqueue
  <2>3. TypeOK'
    BY <1>2, <2>2 DEF Enqueue, TypeOK, policy
  <2>4. PermitAccounting'
    BY <1>2, <2>1, <2>2 DEF Enqueue, Idle, InLine, PermitAccounting, Holders
  <2>5. NoLostWakeup'
    BY <1>2 DEF Enqueue, NoLostWakeup, Open, TypeOK, policy
  <2> QED
    BY <2>3, <2>4, <2>5
<1>3. ASSUME NEW c \in Clients, Abandon(c) PROVE Ind'
  <2>1. PICK i \in DOMAIN queue :
            queue' = SubSeq(queue, 1, i - 1) \o SubSeq(queue, i + 1, Len(queue))
    BY <1>3 DEF Abandon
  <2>2. queue \in Seq(Clients) /\ Len(queue) \in Nat /\ DOMAIN queue = 1..Len(queue)
    BY DEF TypeOK
  <2>3. /\ queue' \in Seq(Clients) /\ DOMAIN queue' = 1..(Len(queue) - 1)
        /\ \A k \in DOMAIN queue' : queue'[k] = IF k < i THEN queue[k] ELSE queue[k + 1]
    BY <2>1, <2>2, Splice
  <2>4. TypeOK'
    BY <1>3, <2>3 DEF Abandon, TypeOK, policy
  <2>5. PermitAccounting'
    <3>1. UNCHANGED <<handle, inFlight>>
        BY <1>3 DEF Abandon
    <3> DEFINE from(k) == IF k < i THEN k ELSE k + 1
    <3>2. \A k \in DOMAIN queue' : from(k) \in DOMAIN queue /\ queue'[k] = queue[from(k)]
        BY <2>2, <2>3
    <3>3. \A k, l \in DOMAIN queue' : from(k) = from(l) => k = l
        BY <2>2, <2>3
    <3> HIDE DEF from
    <3> QED
        BY <3>1, <3>2, <3>3 DEF PermitAccounting, Holders
  <2>6. queue # <<>>
    BY <2>2
  <2>7. NoLostWakeup'
    BY <1>3, <2>6 DEF Abandon, NoLostWakeup, policy
  <2> QED
    BY <2>4, <2>5, <2>7
<1>4. ASSUME NEW c \in Clients, Release(c) PROVE Ind'
  <2>1. CASE ~FirstCall(c)
    BY <1>4, <2>1 DEF Release, permits, policy, TypeOK, PermitAccounting, NoLostWakeup, Holders
  <2>2. CASE FirstCall(c)
    <3> DEFINE h == [handle EXCEPT ![c] = "released"]
               kept == {d \in Clients : h[d] = "held"}
    <3>1. Drain(h, inFlight - 1, limit, frozen) /\ UNCHANGED policy
        BY <1>4, <2>2 DEF Release
    <3>2. h \in [Clients -> {"none", "held", "released"}]
        BY DEF TypeOK
    <3>3. c \in Holders /\ kept = Holders \ {c}
        BY <2>2 DEF FirstCall, Holders, TypeOK
    <3>4. inFlight - 1 = Cardinality(kept) /\ inFlight - 1 \in Nat
      <4>1. IsFiniteSet(kept) /\ Cardinality(kept) = Cardinality(Holders) - 1
        BY <3>3, HoldersFacts, FS_RemoveElement
      <4> QED
        BY <4>1, FS_CardinalityType DEF PermitAccounting
    <3>5. \A i \in DOMAIN queue : h[queue[i]] # "held"
        BY HoldersFacts DEF TypeOK
    <3> HIDE DEF h
    <3>6. TypeOK'
        BY <3>1, <3>2, <3>4, DrainTypes DEF TypeOK, policy
    <3>7. PermitAccounting'
        BY <3>1, <3>2, <3>4, <3>5, DrainAccounts DEF TypeOK, PermitAccounting
    <3>8. queue' # <<>> /\ inFlight' < limit => frozen
        BY <3>1, <3>4, DrainWakes DEF TypeOK
    <3>9. NoLostWakeup'
        BY <3>1, <3>8 DEF NoLostWakeup, policy
    <3> QED
        BY <3>6, <3>7, <3>9
  <2> QED
    BY <2>1, <2>2
<1>5. ASSUME RecordSuccess PROVE Ind'
  <2>1. /\ StreakPays => limit + 1 \in Nat \ {0}
        /\ RecoveredLimit \in Nat \ {0}
    BY OptionTypes, OptionsAssumption
    DEF RecoveredLimit, Greatest, Least, TypeOK, OptionsAssumption
  <2>2. PICK new \in Nat \ {0} : RaiseTo(new)
    BY <1>5, <2>1 DEF RecordSuccess, TypeOK
  <2>3. ~frozen /\ UNCHANGED <<frozen, cooldown, rateLimits>>
    BY <1>5 DEF RecordSuccess
  <2>4. streak' \in 0..SuccessStreak /\ recovery' \in BOOLEAN
    <3>1. streak \in 0..SuccessStreak /\ SuccessStreak \in Nat
        BY OptionTypes DEF TypeOK
    <3>2. Least(streak + 1, SuccessStreak) \in 0..SuccessStreak
        BY <3>1 DEF Least
    <3>3. recovery' \in BOOLEAN
        BY <1>5, Zenon DEF RecordSuccess, TypeOK
    <3>4. streak' \in 0..SuccessStreak
        BY <1>5, <3>1, <3>2 DEF RecordSuccess
    <3> QED
        BY <3>3, <3>4
  <2> QED
    BY <2>2, <2>3, <2>4, RaiseToPreserves DEF TypeOK
<1>6. ASSUME RecordRateLimit PROVE Ind'
  <2>1. CutLimit \in Nat \ {0}
    BY CutBounds DEF TypeOK
  <2>2. TypeOK'
    <3>1. frozen' \in BOOLEAN /\ cooldown' \in BOOLEAN /\ recovery' \in BOOLEAN
        BY <1>6, Zenon DEF RecordRateLimit, TypeOK
    <3>2. /\ limit' \in Nat \ {0} /\ streak' \in 0..SuccessStreak
          /\ rateLimits' \in 0..MaxRateLimits
        BY <1>6, <2>1, OptionTypes DEF RecordRateLimit, TypeOK
    <3> QED
        BY <1>6, <3>1, <3>2 DEF RecordRateLimit, TypeOK, permits
  <2>3. PermitAccounting'
    BY <1>6 DEF RecordRateLimit, permits, PermitAccounting, Holders
  <2>4. NoLostWakeup'
    BY <1>6 DEF RecordRateLimit, OpensWindow, permits, NoLostWakeup
  <2> QED
    BY <2>2, <2>3, <2>4
<1>7. ASSUME FreezeElapses PROVE Ind'
    BY <1>7 DEF FreezeElapses, permits, TypeOK, PermitAccounting, NoLostWakeup, Holders
<1>8. ASSUME CooldownEnd PROVE Ind'
  <2>1. Drain(handle, inFlight, limit, frozen) /\ ~frozen
        /\ UNCHANGED <<limit, streak, frozen, recovery, rateLimits>> /\ cooldown' = FALSE
    BY <1>8 DEF CooldownEnd
  <2>2. TypeOK'
    BY <2>1, DrainTypes DEF TypeOK
  <2>3. PermitAccounting'
    BY <2>1, HoldersFacts, DrainAccounts DEF TypeOK, PermitAccounting
  <2>4. queue' # <<>> /\ inFlight' < limit => frozen
    BY <2>1, DrainWakes DEF TypeOK
  <2> QED
    BY <2>1, <2>2, <2>3, <2>4 DEF NoLostWakeup
<1>9. CASE UNCHANGED vars
    BY <1>9 DEF vars, TypeOK, PermitAccounting, NoLostWakeup, Holders
<1> QED
    BY <1>1, <1>2, <1>3, <1>4, <1>5, <1>6, <1>7, <1>8, <1>9 DEF Next

\* So it holds in every reachable state.
LEMMA IndInvariant == Spec => []Ind
BY InitInd, StepInd, PTL DEF Spec

\* Type correctness: in particular the limit stays positive, so the pool never
\* closes for good.
THEOREM TypeCorrect == Spec => []TypeOK
BY IndInvariant, PTL DEF Ind

\* The in-flight counter and the permits that are out agree, whatever the order
\* of grants, give-ups and repeated release() calls.
THEOREM PermitsAreCounted == Spec => []PermitAccounting
BY IndInvariant, PTL DEF Ind

\* No reachable state holds a servable entry that nothing will wake.
THEOREM NobodyIsForgotten == Spec => []NoLostWakeup
BY IndInvariant, PTL DEF Ind

\* With a minimum below the hard maximum the limit stays between the two.  The
\* constructor does not enforce the assumption: it clamps the minimum to the
\* initial limit before it clamps the initial limit to the hard maximum.
THEOREM LimitStaysInBounds ==
    ASSUME MinLimit <= HardMaxOpt
    PROVE  Spec => []LimitWithinBounds
<1> HardMaxOpt \in Nat
    BY OptionsAssumption DEF OptionsAssumption
<1>1. Init => LimitWithinBounds
    BY OptionTypes, OptionsAssumption
    DEF Init, LimitWithinBounds, Initial, Least, Greatest, OptionsAssumption
<1>2. ASSUME TypeOK, LimitWithinBounds, [Next]_vars PROVE LimitWithinBounds'
  <2>1. CASE RecordSuccess
    <3>1. PICK new \in Nat : RaiseTo(new) /\ new >= limit /\ new <= HardMaxOpt
      <4>1. StreakPays => limit + 1 <= HardMaxOpt
        BY <1>2, OptionTypes DEF StreakPays, TypeOK
      <4>2. RecoveredLimit \in Nat /\ RecoveredLimit >= limit /\ RecoveredLimit <= HardMaxOpt
        BY <1>2, OptionTypes DEF RecoveredLimit, Greatest, Least, TypeOK, LimitWithinBounds
      <4> QED
        BY <1>2, <2>1, <4>1, <4>2 DEF RecordSuccess, TypeOK, LimitWithinBounds
    <3> QED
        BY <1>2, <3>1, OptionTypes DEF RaiseTo, LimitWithinBounds, TypeOK
  <2>2. CASE RecordRateLimit
    BY <1>2, <2>2, CutBounds, OptionTypes DEF RecordRateLimit, LimitWithinBounds, TypeOK
  <2>3. CASE ~RecordSuccess /\ ~RecordRateLimit
    <3>1. UNCHANGED limit
        BY <1>2, <2>3
        DEF Next, vars, policy, AcquireNow, Enqueue, Abandon, Release, FreezeElapses, CooldownEnd
    <3> QED
        BY <1>2, <3>1 DEF LimitWithinBounds
  <2> QED
    BY <2>1, <2>2, <2>3
<1> QED
    BY <1>1, <1>2, TypeCorrect, PTL DEF Spec

\* A drain on a closed semaphore serves nobody.
LEMMA ClosedDrain ==
    ASSUME NEW h, NEW busy, NEW lim, NEW closed, closed, Drain(h, busy, lim, closed)
    PROVE  \A c \in Clients : handle'[c] = h[c]
BY DEF Drain, Served, Open

\* G2 for any options: one decrease per window, and no grant inside it.
THEOREM WindowHolds == Spec => CongestionWindow
<1>1. ASSUME TypeOK, [Next]_vars
      PROVE  /\ frozen /\ frozen' => limit' = limit /\ Holders' \subseteq Holders
             /\ limit' < limit => ~frozen /\ frozen'
  <2>1. CASE \E c \in Clients : AcquireNow(c) \/ Enqueue(c) \/ Abandon(c)
    BY <1>1, <2>1
    DEF AcquireNow, Enqueue, Abandon, Open, policy, Holders, TypeOK
  <2>2. ASSUME NEW c \in Clients, Release(c)
        PROVE  UNCHANGED limit /\ (frozen => Holders' \subseteq Holders)
    <3>1. UNCHANGED limit
        BY <2>2 DEF Release, policy
    <3>2. CASE FirstCall(c) /\ frozen
      <4>1. \A d \in Clients : handle'[d] = [handle EXCEPT ![c] = "released"][d]
        BY <2>2, <3>2, ClosedDrain DEF Release
      <4> QED
        BY <1>1, <3>1, <4>1 DEF Holders, TypeOK
    <3>3. CASE ~FirstCall(c)
        BY <2>2, <3>1, <3>3 DEF Release, permits, Holders
    <3> QED
        BY <3>1, <3>2, <3>3
  <2>3. CASE RecordSuccess
    <3>1. ~frozen
        BY <2>3 DEF RecordSuccess
    <3>2. RecoveredLimit >= limit
        BY <1>1, OptionTypes, OptionsAssumption
        DEF RecoveredLimit, Greatest, Least, TypeOK, OptionsAssumption
    <3>3. limit' >= limit
        BY <1>1, <2>3, <3>2 DEF RecordSuccess, RaiseTo, TypeOK
    <3>4. limit' \in Nat
        BY <1>1, <2>3, OptionTypes, OptionsAssumption
        DEF RecordSuccess, RaiseTo, RecoveredLimit, Greatest, Least, TypeOK, OptionsAssumption
    <3> QED
        BY <1>1, <3>1, <3>3, <3>4 DEF TypeOK
  <2>4. CASE RecordRateLimit
    BY <1>1, <2>4 DEF RecordRateLimit, OpensWindow, permits, Holders, TypeOK
  <2>5. CASE FreezeElapses
    BY <1>1, <2>5 DEF FreezeElapses, TypeOK
  <2>6. CASE CooldownEnd
    BY <1>1, <2>6 DEF CooldownEnd, TypeOK
  <2>7. CASE UNCHANGED vars
    BY <1>1, <2>7 DEF vars, Holders, TypeOK
  <2> QED
    BY <1>1, <2>1, <2>2, <2>3, <2>4, <2>5, <2>6, <2>7 DEF Next, TypeOK
<1> QED
    BY <1>1, TypeCorrect, PTL DEF Spec, CongestionWindow

--------------------------------------------------------------------------------
\* What a step may do to a client that becomes a holder in it.
InTurn(c) ==
    /\ \A j \in DOMAIN queue : queue[j] = c =>
          \A i \in 1..(j - 1) : \A k \in DOMAIN queue' : queue'[k] # queue[i]
    /\ ~InLine(c) /\ queue # <<>> => cooldown

\* A drain grants the oldest entries: whoever is older than a new holder is out
\* of the line too.
LEMMA DrainInOrder ==
    ASSUME TypeOK, PermitAccounting,
           NEW h \in [Clients -> {"none", "held", "released"}],
           NEW busy \in Nat, NEW lim \in Nat, NEW closed \in BOOLEAN,
           Drain(h, busy, lim, closed),
           NEW c \in Clients, handle'[c] = "held", h[c] # "held"
    PROVE  InTurn(c)
<1> DEFINE n == Served(queue, busy, lim, closed)
<1>1. queue \in Seq(Clients) /\ Len(queue) \in Nat /\ DOMAIN queue = 1..Len(queue)
    BY DEF TypeOK
<1>2. n \in 0..Len(queue)
    BY <1>1, ServedBounds
<1>3. /\ handle' = [d \in Clients |-> IF \E i \in 1..n : queue[i] = d THEN "held" ELSE h[d]]
      /\ queue' = SubSeq(queue, n + 1, Len(queue))
    BY DEF Drain
<1> HIDE DEF n
<1>4. PICK m \in 1..n : queue[m] = c
    BY <1>3
<1>5. m \in DOMAIN queue /\ InLine(c)
    BY <1>1, <1>2, <1>4 DEF InLine
<1>6. DOMAIN queue' = 1..(Len(queue) - n) /\ \A k \in DOMAIN queue' : queue'[k] = queue[k + n]
    BY <1>1, <1>2, <1>3, Suffix
<1>7. ASSUME NEW j \in DOMAIN queue, queue[j] = c, NEW i \in 1..(j - 1), NEW k \in DOMAIN queue'
      PROVE  queue'[k] # queue[i]
  <2>1. j = m
    BY <1>4, <1>5, <1>7 DEF PermitAccounting
  <2>2. i \in DOMAIN queue /\ k + n \in DOMAIN queue /\ i # k + n
    BY <1>1, <1>2, <1>6, <2>1
  <2> QED
    BY <1>6, <2>2 DEF PermitAccounting
<1> QED
    BY <1>5, <1>7 DEF InTurn

\* The queue discipline, for any callers and options: permits go to the line in
\* its order, and past it only between the end of a freeze and its timer.
THEOREM LineIsFair == Spec => FirstComeFirstServed
<1>1. ASSUME Ind, [Next]_vars, NEW c \in Clients, c \in Holders', c \notin Holders
      PROVE  InTurn(c)
  <2> USE DEF Ind
  <2>1. handle \in [Clients -> {"none", "held", "released"}]
        /\ inFlight \in Nat /\ limit \in Nat \ {0} /\ frozen \in BOOLEAN
    BY <1>1 DEF TypeOK
  <2>2. handle'[c] = "held" /\ handle[c] # "held"
    BY <1>1 DEF Holders
  <2>3. ASSUME NEW d \in Clients, AcquireNow(d) PROVE InTurn(c)
    <3>1. c = d
        BY <2>1, <2>2, <2>3 DEF AcquireNow
    <3>2. ~InLine(c) /\ inFlight < limit
        BY <2>3, <3>1 DEF AcquireNow, Idle, Open
    <3>3. queue # <<>> => cooldown
        BY <1>1, <3>2 DEF NoLostWakeup
    <3> QED
        BY <3>2, <3>3 DEF InTurn, InLine
  <2>4. ASSUME NEW d \in Clients, Release(d) PROVE InTurn(c)
    <3>1. CASE FirstCall(d)
      <4> DEFINE h == [handle EXCEPT ![d] = "released"]
      <4>1. Drain(h, inFlight - 1, limit, frozen)
        BY <2>4, <3>1 DEF Release
      <4>2. d \in Holders /\ inFlight - 1 \in Nat
        <5>1. d \in Holders
            BY <3>1 DEF FirstCall, Holders
        <5>2. inFlight = Cardinality(Holders) /\ IsFiniteSet(Holders)
            BY <1>1, HoldersFacts
        <5>3. Cardinality(Holders) # 0
            BY <5>1, <5>2, FS_EmptySet
        <5> QED
            BY <2>1, <5>1, <5>2, <5>3
      <4>3. h \in [Clients -> {"none", "held", "released"}] /\ h[c] # "held"
        BY <2>1, <2>2
      <4> HIDE DEF h
      <4> QED
        BY <1>1, <2>1, <2>2, <4>1, <4>2, <4>3, DrainInOrder
    <3>2. CASE ~FirstCall(d)
        BY <2>2, <2>4, <3>2 DEF Release, permits
    <3> QED
        BY <3>1, <3>2
  <2>5. CASE RecordSuccess
    <3>1. PICK new \in Nat : RaiseTo(new)
        BY <2>1, <2>5, OptionTypes, OptionsAssumption
        DEF RecordSuccess, RecoveredLimit, Greatest, Least, OptionsAssumption
    <3>2. Drain(handle, inFlight, new, frozen)
        BY <2>2, <3>1 DEF RaiseTo, permits
    <3> QED
        BY <1>1, <2>1, <2>2, <3>1, <3>2, DrainInOrder
  <2>6. CASE CooldownEnd
    <3>1. Drain(handle, inFlight, limit, frozen)
        BY <2>6 DEF CooldownEnd
    <3> QED
        BY <1>1, <2>1, <2>2, <3>1, DrainInOrder
  <2> QED
    BY <1>1, <2>2, <2>3, <2>4, <2>5, <2>6
    DEF Next, Enqueue, Abandon, RecordRateLimit, FreezeElapses, vars, permits
<1>2. Ind /\ [Next]_vars => \A c \in Holders' \ Holders : InTurn(c)
  <2>1. Holders' \subseteq Clients
    BY DEF Holders
  <2> QED
    BY <1>1, <2>1
<1>3. Ind /\ [Next]_vars =>
        \A c \in Holders' \ Holders :
          /\ \A j \in DOMAIN queue : queue[j] = c =>
                \A i \in 1..(j - 1) : \A k \in DOMAIN queue' : queue'[k] # queue[i]
          /\ ~InLine(c) /\ queue # <<>> => cooldown
    BY <1>2 DEF InTurn
<1> QED
    BY <1>3, IndInvariant, PTL DEF Spec, FirstComeFirstServed

--------------------------------------------------------------------------------
\* The semaphore implements the permit pool.

InLineSet == {c \in Clients : InLine(c)}

\* The instance's Cardinality is the library's.
LEMMA PoolCardinality == \A S : Pool!Cardinality(S) = Cardinality(S)
BY DEF Pool!Cardinality, Cardinality

\* A drain hands out permits of the pool, within its capacity.
LEMMA DrainHandsOut ==
    ASSUME TypeOK,
           NEW h \in [Clients -> {"none", "held", "released"}],
           NEW lim \in Nat, NEW closed \in BOOLEAN,
           \A i, j \in DOMAIN queue : queue[i] = queue[j] => i = j,
           \A i \in DOMAIN queue : h[queue[i]] # "held",
           Drain(h, Cardinality({c \in Clients : h[c] = "held"}), lim, closed)
    PROVE  \E lucky \in SUBSET InLineSet :
              Pool!HandOut({c \in Clients : h[c] = "held"}, lucky, lim)
<1> DEFINE kept  == {c \in Clients : h[c] = "held"}
           busy  == Cardinality(kept)
           n     == Served(queue, busy, lim, closed)
           lucky == {queue[i] : i \in 1..n}
<1>1. queue \in Seq(Clients) /\ Len(queue) \in Nat /\ DOMAIN queue = 1..Len(queue)
    BY DEF TypeOK
<1>2. IsFiniteSet(kept) /\ busy \in Nat
    BY ClientsAssumption, FS_Subset, FS_CardinalityType
<1>3. n \in 0..Len(queue) /\ (n > 0 => busy + n <= lim)
    BY <1>1, <1>2, ServedBounds
<1>4. /\ handle' = [c \in Clients |-> IF \E i \in 1..n : queue[i] = c THEN "held" ELSE h[c]]
      /\ queue' = SubSeq(queue, n + 1, Len(queue))
      /\ inFlight' = busy + n
    BY DEF Drain
<1>5. PermitAccounting'
    BY DrainAccounts
<1> HIDE DEF n
<1>6. Holders' = kept \cup lucky
    BY <1>1, <1>3, <1>4 DEF Holders
<1>7. lucky \in SUBSET InLineSet
    BY <1>1, <1>3 DEF InLineSet, InLine
<1>8. Cardinality(kept \cup lucky) = busy + n
    BY <1>4, <1>5, <1>6 DEF PermitAccounting
<1>9. lucky # {} => Cardinality(kept \cup lucky) <= lim
  <2>1. lucky # {} => n > 0
    BY <1>3
  <2> QED
    BY <1>3, <1>8, <2>1
<1>10. DOMAIN queue' = 1..(Len(queue) - n) /\ \A i \in DOMAIN queue' : queue'[i] = queue[i + n]
    BY <1>1, <1>3, <1>4, Suffix
<1>11. InLineSet' = InLineSet \ lucky
  <2>1. ASSUME NEW c \in Clients, InLine(c), c \notin lucky PROVE InLine(c)'
    <3>1. PICK i \in DOMAIN queue : queue[i] = c
        BY <2>1 DEF InLine
    <3>2. i \in (n + 1)..Len(queue)
        BY <1>1, <1>3, <2>1, <3>1
    <3> DEFINE j == i - n
    <3>3. j \in DOMAIN queue' /\ j + n = i
        BY <1>1, <1>3, <1>10, <3>2
    <3> HIDE DEF j
    <3> QED
        BY <1>10, <3>1, <3>3 DEF InLine
  <2>2. ASSUME NEW c \in Clients, InLine(c)' PROVE InLine(c) /\ c \notin lucky
    <3>1. PICK j \in DOMAIN queue' : queue'[j] = c
        BY <2>2 DEF InLine
    <3>2. j + n \in DOMAIN queue /\ j + n \notin 1..n /\ queue[j + n] = c
        BY <1>1, <1>3, <1>10, <3>1
    <3> QED
        BY <1>1, <1>3, <3>2 DEF InLine
  <2> QED
    BY <2>1, <2>2 DEF InLineSet
<1> HIDE DEF kept, lucky, busy
<1>12. Pool!HandOut(kept, lucky, lim)
    BY <1>6, <1>9, <1>11, PoolCardinality DEF Pool!HandOut, InLineSet
<1> QED
    BY <1>7, <1>12 DEF kept

\* The semaphore starts as an empty pool.
LEMMA InitPool == Init => Pool!Init
<1>1. ASSUME Init PROVE Holders = {} /\ InLineSet = {} /\ limit \in Nat \ {0}
    BY <1>1, OptionTypes DEF Init, Holders, InLineSet, InLine
<1> QED
    BY <1>1 DEF Pool!Init, InLineSet

\* A change of the limit is a resize of the pool.
LEMMA RaisePool ==
    ASSUME TypeOK, PermitAccounting, NEW new \in Nat \ {0}, RaiseTo(new)
    PROVE  Pool!Resize
<1>1. limit' \in Nat \ {0}
    BY DEF RaiseTo
<1>2. CASE new = limit
  <2>1. UNCHANGED <<Holders, InLineSet>>
    BY <1>2 DEF RaiseTo, permits, Holders, InLineSet, InLine
  <2>2. Pool!HandOut(Holders, {}, limit')
    BY <2>1 DEF Pool!HandOut, InLineSet
  <2> QED
    BY <1>1, <2>2 DEF Pool!Resize, InLineSet
<1>3. CASE new # limit
  <2>1. Drain(handle, inFlight, new, frozen) /\ limit' = new
    BY <1>3 DEF RaiseTo
  <2> DEFINE H == {c \in Clients : handle[c] = "held"}
  <2>2. H = Holders /\ Drain(handle, Cardinality(H), new, frozen)
    BY <2>1, HoldersFacts
  <2>3. \E lucky \in SUBSET InLineSet : Pool!HandOut(H, lucky, new)
    BY <2>2, HoldersFacts, DrainHandsOut DEF TypeOK, PermitAccounting
  <2> HIDE DEF H
  <2> QED
    BY <1>1, <2>1, <2>2, <2>3 DEF Pool!Resize, InLineSet
<1> QED
    BY <1>2, <1>3

\* Every step of the semaphore is a step of the pool or changes nothing of it.
LEMMA StepPool == Ind /\ [Next]_vars => [Pool!Next]_(Pool!vars)
<1> SUFFICES ASSUME Ind, [Next]_vars PROVE Pool!Next \/ UNCHANGED Pool!vars
    OBVIOUS
<1> USE DEF Ind
<1>1. ASSUME NEW c \in Clients, AcquireNow(c) PROVE Pool!Take(c)
  <2>1. c \notin Holders /\ Holders' = Holders \cup {c}
    BY <1>1 DEF AcquireNow, Idle, Holders, TypeOK
  <2>2. c \notin InLineSet /\ InLineSet' = InLineSet /\ UNCHANGED limit
    BY <1>1 DEF AcquireNow, Idle, InLineSet, InLine, policy
  <2>3. Cardinality(Holders) < limit
    BY <1>1 DEF AcquireNow, Open, PermitAccounting
  <2>4. Pool!Idle(c)
    BY <2>1, <2>2 DEF Pool!Idle, InLineSet
  <2> QED
    BY <2>1, <2>2, <2>3, <2>4, PoolCardinality DEF Pool!Take, InLineSet
<1>2. ASSUME NEW c \in Clients, Enqueue(c) PROVE Pool!Wait(c)
  <2>1. queue \in Seq(Clients) /\ Len(queue) \in Nat /\ DOMAIN queue = 1..Len(queue)
    BY DEF TypeOK
  <2>2. /\ DOMAIN queue' = 1..(Len(queue) + 1)
        /\ \A i \in 1..Len(queue) : queue'[i] = queue[i]
        /\ queue'[Len(queue) + 1] = c
    BY <1>2, <2>1, AppendProperties DEF Enqueue
  <2>3. c \notin InLineSet /\ InLineSet' = InLineSet \cup {c}
    BY <1>2, <2>1, <2>2 DEF Enqueue, Idle, InLineSet, InLine
  <2>4. c \notin Holders /\ UNCHANGED <<Holders, limit>>
    BY <1>2 DEF Enqueue, Idle, Holders, policy
  <2> QED
    BY <2>3, <2>4 DEF Pool!Wait, Pool!Idle, InLineSet
<1>3. ASSUME NEW c \in Clients, Abandon(c) PROVE Pool!GiveUp(c)
  <2>1. PICK i \in DOMAIN queue :
            /\ queue[i] = c
            /\ queue' = SubSeq(queue, 1, i - 1) \o SubSeq(queue, i + 1, Len(queue))
    BY <1>3 DEF Abandon
  <2>2. queue \in Seq(Clients) /\ Len(queue) \in Nat /\ DOMAIN queue = 1..Len(queue)
    BY DEF TypeOK
  <2>3. /\ DOMAIN queue' = 1..(Len(queue) - 1)
        /\ \A k \in DOMAIN queue' : queue'[k] = IF k < i THEN queue[k] ELSE queue[k + 1]
    BY <2>1, <2>2, Splice
  <2>4. ASSUME NEW d \in Clients, InLine(d), d # c PROVE InLine(d)'
    <3>1. PICK j \in DOMAIN queue : queue[j] = d
        BY <2>4 DEF InLine
    <3>2. CASE j < i
      <4>1. j \in DOMAIN queue' /\ queue'[j] = d
        BY <2>2, <2>3, <3>1, <3>2
      <4> QED
        BY <4>1 DEF InLine
    <3>3. CASE j > i
      <4> DEFINE k == j - 1
      <4>1. k \in DOMAIN queue' /\ ~(k < i) /\ k + 1 = j
        BY <2>2, <2>3, <3>3
      <4> HIDE DEF k
      <4>2. queue'[k] = d
        BY <2>3, <3>1, <4>1
      <4> QED
        BY <4>1, <4>2 DEF InLine
    <3> QED
        BY <2>1, <2>2, <2>4, <3>1, <3>2, <3>3
  <2>5. ASSUME NEW d \in Clients, InLine(d)' PROVE InLine(d) /\ d # c
    <3>1. PICK k \in DOMAIN queue' : queue'[k] = d
        BY <2>5 DEF InLine
    <3>2. PICK j \in DOMAIN queue : queue[j] = d /\ j # i
        BY <2>2, <2>3, <3>1
    <3> QED
        BY <2>1, <3>2 DEF InLine, PermitAccounting
  <2>6. c \in InLineSet /\ InLineSet' = InLineSet \ {c}
    BY <2>1, <2>4, <2>5 DEF InLineSet, InLine
  <2>7. UNCHANGED <<Holders, limit>>
    BY <1>3 DEF Abandon, Holders, policy
  <2> QED
    BY <2>6, <2>7 DEF Pool!GiveUp, InLineSet
<1>4. ASSUME NEW c \in Clients, Release(c) PROVE Pool!GiveBack(c) \/ UNCHANGED Pool!vars
  <2>1. CASE ~FirstCall(c)
    BY <1>4, <2>1 DEF Release, permits, policy, Pool!vars, Holders, InLine
  <2>2. CASE FirstCall(c)
    <3> DEFINE h == [handle EXCEPT ![c] = "released"]
               kept == {d \in Clients : h[d] = "held"}
    <3>1. Drain(h, inFlight - 1, limit, frozen) /\ UNCHANGED limit
        BY <1>4, <2>2 DEF Release, policy
    <3>2. h \in [Clients -> {"none", "held", "released"}]
        BY DEF TypeOK
    <3>3. c \in Holders /\ kept = Holders \ {c}
        BY <2>2 DEF FirstCall, Holders, TypeOK
    <3>4. inFlight - 1 = Cardinality(kept)
        BY <3>3, HoldersFacts, FS_RemoveElement DEF PermitAccounting
    <3>5. \A i \in DOMAIN queue : h[queue[i]] # "held"
        BY HoldersFacts DEF TypeOK
    <3> HIDE DEF h
    <3>6. \E lucky \in SUBSET InLineSet : Pool!HandOut(kept, lucky, limit)
        BY <3>1, <3>2, <3>4, <3>5, DrainHandsOut DEF TypeOK, PermitAccounting
    <3> HIDE DEF kept
    <3> QED
        BY <3>1, <3>3, <3>6 DEF Pool!GiveBack, InLineSet
  <2> QED
    BY <2>1, <2>2
<1>5. ASSUME RecordSuccess PROVE Pool!Resize
  <2>1. /\ StreakPays => limit + 1 \in Nat \ {0}
        /\ RecoveredLimit \in Nat \ {0}
    BY OptionTypes, OptionsAssumption
    DEF RecoveredLimit, Greatest, Least, TypeOK, OptionsAssumption
  <2>2. PICK new \in Nat \ {0} : RaiseTo(new)
    BY <1>5, <2>1 DEF RecordSuccess, TypeOK
  <2> QED
    BY <2>2, RaisePool
<1>6. ASSUME RecordRateLimit PROVE Pool!Resize
  <2>1. limit' \in Nat \ {0}
    BY <1>6, CutBounds DEF RecordRateLimit, TypeOK
  <2>2. UNCHANGED <<Holders, InLineSet>>
    BY <1>6 DEF RecordRateLimit, permits, Holders, InLineSet, InLine
  <2>3. Pool!HandOut(Holders, {}, limit')
    BY <2>2 DEF Pool!HandOut, InLineSet
  <2> QED
    BY <2>1, <2>3 DEF Pool!Resize, InLineSet
<1>7. ASSUME FreezeElapses PROVE UNCHANGED Pool!vars
    BY <1>7 DEF FreezeElapses, permits, Pool!vars, Holders, InLine
<1>8. ASSUME CooldownEnd PROVE Pool!Resize
  <2>1. Drain(handle, inFlight, limit, frozen) /\ UNCHANGED limit
    BY <1>8 DEF CooldownEnd
  <2> DEFINE H == {c \in Clients : handle[c] = "held"}
  <2>2. H = Holders /\ Drain(handle, Cardinality(H), limit, frozen)
    BY <2>1, HoldersFacts
  <2>3. \E lucky \in SUBSET InLineSet : Pool!HandOut(H, lucky, limit)
    BY <2>2, HoldersFacts, DrainHandsOut DEF TypeOK, PermitAccounting
  <2> HIDE DEF H
  <2> QED
    BY <2>1, <2>2, <2>3 DEF Pool!Resize, InLineSet, TypeOK
<1>9. CASE UNCHANGED vars
    BY <1>9 DEF vars, Pool!vars, Holders, InLine
<1> QED
    BY <1>1, <1>2, <1>3, <1>4, <1>5, <1>6, <1>7, <1>8, <1>9 DEF Next, Pool!Next

\* For any clients and options the semaphore is a permit pool: no policy signal,
\* freeze, timer or give-up makes it hand out a permit past its current limit,
\* to a client that holds one, or to one that has left the line.
THEOREM ImplementsPermitPool == Spec => IsPermitPool
BY InitPool, StepPool, IndInvariant, PTL DEF Spec, Pool!Spec, IsPermitPool
================================================================================
