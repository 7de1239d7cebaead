--------------------------- MODULE ExtractionProofs ---------------------------
(***************************************************************************)
(* Proofs about SemanticExtraction and InterruptedExtraction, for any       *)
(* files, functions, chunks, classes and keys, and any size of a batch.     *)
(*                                                                         *)
(* Functions change company three times on their way to the model: by      *)
(* class, by key, and in the pool.  The lemmas on grouping say that none of *)
(* these puts a function into two groups; the inductive invariant IInv then *)
(* knows where each function is, and whose its answer is.  LoopInv adds     *)
(* what the loop knows of its functions and of their failures; with it each *)
(* step is one of ExtractionPromise.                                        *)
(***************************************************************************)
EXTENDS InterruptedExtraction, SequenceTheorems, FunctionTheorems, FiniteSetTheorems, TLAPS

--------------------------------------------------------------------------------
\* A set of functions in its order.

LEMMA TaskSets ==
    /\ NumTasks \in Nat /\ Tasks \subseteq Nat
    /\ IsFiniteSet(Tasks)
    /\ \A ts \in SUBSET Tasks : IsFiniteSet(ts) /\ Cardinality(ts) \in Nat
<1>1. NumTasks \in Nat
    BY ExtractionAssumption DEF ExtractionAssumption
<1>2. IsFiniteSet(Tasks)
    BY <1>1, FS_Interval DEF Tasks
<1>3. ASSUME NEW ts \in SUBSET Tasks PROVE IsFiniteSet(ts) /\ Cardinality(ts) \in Nat
    BY <1>2, FS_Subset, FS_CardinalityType
<1>4. Tasks \subseteq Nat
    BY <1>1 DEF Tasks
<1> QED
    BY <1>1, <1>2, <1>3, <1>4

\* How many of a set come up to a function.
Rank(ts, t) == Cardinality({u \in ts : u <= t})

LEMMA RankFacts ==
    ASSUME NEW ts \in SUBSET Tasks
    PROVE  /\ \A t \in ts : Rank(ts, t) \in 1 .. Cardinality(ts)
           /\ \A t, u \in ts : Rank(ts, t) = Rank(ts, u) => t = u
           /\ \A n \in 1 .. Cardinality(ts) : \E t \in ts : Rank(ts, t) = n
<1> DEFINE N == Cardinality(ts)
           Upto(t) == {u \in ts : u <= t}
<1>1. ts \subseteq Nat /\ IsFiniteSet(ts) /\ N \in Nat
    BY TaskSets
<1>2. \A t \in ts : Upto(t) \in SUBSET Tasks /\ IsFiniteSet(Upto(t)) /\ Rank(ts, t) \in Nat
    BY TaskSets DEF Rank
<1>3. ASSUME NEW t \in ts PROVE Rank(ts, t) \in 1 .. N
  <2>1. Rank(ts, t) <= N
    BY <1>1, FS_Subset DEF Rank
  <2>2. t \in Upto(t)
    BY <1>1
  <2>3. Rank(ts, t) # 0
    BY <1>2, <2>2, FS_EmptySet DEF Rank
  <2>4. Rank(ts, t) \in Nat
    BY <1>2
  <2>5. N \in Nat
    BY <1>1
  <2> HIDE DEF N
  <2> QED
    BY <2>1, <2>3, <2>4, <2>5
<1>4. ASSUME NEW t \in ts, NEW u \in ts, t < u PROVE Rank(ts, t) # Rank(ts, u)
  <2>1. t \in Nat /\ u \in Nat /\ (\A v \in ts : v \in Nat)
    BY <1>1
  <2>3. u \in Upto(u) /\ u \notin Upto(t)
    BY <1>4, <2>1
  <2>4. \A v \in ts : v <= t => v <= u
    BY <1>4, <2>1
  <2>5. Upto(t) \subseteq Upto(u)
    BY <2>4
  <2>2. Upto(t) # Upto(u)
    BY <2>3
  <2> QED
    BY <1>2, <2>5, <2>2, FS_Subset DEF Rank
<1>5. ASSUME NEW t \in ts, NEW u \in ts, Rank(ts, t) = Rank(ts, u) PROVE t = u
    BY <1>1, <1>4, <1>5
<1> DEFINE r == [t \in ts |-> Rank(ts, t)]
<1>6. r \in Injection(ts, 1 .. N)
    BY <1>3, <1>5, Fun_IsInj
<1>7. IsFiniteSet(1 .. N) /\ Cardinality(1 .. N) = N
    BY <1>1, FS_Interval
<1>8. r \in Surjection(ts, 1 .. N)
    BY <1>6, <1>7, FS_Injection
<1>9. \A n \in 1 .. N : \E t \in ts : Rank(ts, t) = n
    BY <1>8 DEF Surjection
<1> QED
    BY <1>3, <1>5, <1>9

LEMMA SortedFacts ==
    ASSUME NEW ts \in SUBSET Tasks
    PROVE  /\ Sorted(ts) \in Seq(Tasks)
           /\ IsInjective(Sorted(ts))
           /\ ToSet(Sorted(ts)) = ts
<1> DEFINE N == Cardinality(ts)
           at(n) == CHOOSE t \in ts : Rank(ts, t) = n
           s == [n \in 1 .. N |-> at(n)]
<1>1. Sorted(ts) = s
    BY DEF Sorted, Rank
<1>2. \A n \in 1 .. N : at(n) \in ts /\ Rank(ts, at(n)) = n
    BY RankFacts
<1>3. \A t \in ts : Rank(ts, t) \in 1 .. N /\ at(Rank(ts, t)) = t
    BY <1>2, RankFacts
<1> HIDE DEF at
<1>4. N \in Nat
    BY TaskSets
<1>5. s \in Seq(Tasks)
    BY <1>2, <1>4, IsASeq
<1>6. DOMAIN s = 1 .. N /\ \A n \in 1 .. N : s[n] = at(n)
    OBVIOUS
<1> HIDE DEF s
<1>7. IsInjective(s)
    BY <1>2, <1>6 DEF IsInjective
<1>8. ToSet(s) = ts
    BY <1>2, <1>3, <1>6 DEF ToSet
<1> QED
    BY <1>1, <1>5, <1>7, <1>8

--------------------------------------------------------------------------------
\* Slices of a sequence.

LEMMA BatchSize == MaxBatch \in Nat /\ MaxBatch > 1
BY ExtractionAssumption DEF ExtractionAssumption

LEMMA Quotient ==
    ASSUME NEW n \in Nat
    PROVE  /\ n \div MaxBatch \in Nat /\ n % MaxBatch \in 0 .. MaxBatch - 1
           /\ n = MaxBatch * (n \div MaxBatch) + (n % MaxBatch)
BY BatchSize

\* A multiple that is smaller is smaller by a whole batch.
LEMMA NextMultiple ==
    ASSUME NEW a \in Nat, NEW b \in Nat, MaxBatch * a < MaxBatch * b
    PROVE  MaxBatch * a + MaxBatch <= MaxBatch * b
<1>1. MaxBatch \in Nat
    BY BatchSize
<1>2. CASE b <= a
  <2>1. MaxBatch * b <= MaxBatch * a
    BY <1>1, <1>2
  <2>2. MaxBatch * a \in Nat /\ MaxBatch * b \in Nat
    BY <1>1
  <2> QED
    BY <2>1, <2>2
<1>3. CASE a + 1 <= b
  <2>1. MaxBatch * (a + 1) <= MaxBatch * b
    BY <1>1, <1>3
  <2>2. MaxBatch * (a + 1) = MaxBatch * a + MaxBatch
    BY <1>1
  <2> QED
    BY <2>1, <2>2
<1> QED
    BY <1>2, <1>3

\* Slices start a batch apart, and a full one ends before the rest.
LEMMA SlicesApart ==
    ASSUME NEW i \in Nat, NEW j \in Nat, i % MaxBatch = 1, j % MaxBatch = 1, i < j
    PROVE  i + MaxBatch <= j
<1> DEFINE p == MaxBatch * (i \div MaxBatch)
           q == MaxBatch * (j \div MaxBatch)
<1>1. i = p + 1 /\ j = q + 1 /\ i \div MaxBatch \in Nat /\ j \div MaxBatch \in Nat
    BY Quotient
<1>2. p \in Nat /\ q \in Nat /\ MaxBatch \in Nat
    BY <1>1, BatchSize
<1>3. p < q => p + MaxBatch <= q
    BY <1>1, NextMultiple
<1> HIDE DEF p, q
<1> QED
    BY <1>1, <1>2, <1>3

LEMMA FullBeforeRest ==
    ASSUME NEW i \in Nat, NEW n \in Nat, i % MaxBatch = 1, i + MaxBatch - 1 <= n
    PROVE  i + MaxBatch - 1 <= n - (n % MaxBatch)
<1> DEFINE p == MaxBatch * (i \div MaxBatch)
           q == MaxBatch * (n \div MaxBatch)
           r == n % MaxBatch
<1>1. i = p + 1 /\ i \div MaxBatch \in Nat /\ n \div MaxBatch \in Nat
    BY Quotient
<1>2. n = q + r /\ r \in 0 .. MaxBatch - 1
    BY Quotient
<1>3. p \in Nat /\ q \in Nat /\ MaxBatch \in Nat /\ MaxBatch > 1
    BY <1>1, BatchSize
<1>4. p < q => p + MaxBatch <= q
    BY <1>1, NextMultiple
<1> HIDE DEF p, q, r
<1>5. p + MaxBatch <= q + r /\ r < MaxBatch
    BY <1>1, <1>2, <1>3
<1>6. p < q
    BY <1>2, <1>3, <1>5
<1>7. p + MaxBatch <= q
    BY <1>4, <1>6
<1>8. i + MaxBatch - 1 = p + MaxBatch /\ n - r = q
    BY <1>1, <1>2, <1>3
<1> QED
    BY <1>7, <1>8 DEF r

\* A part of a sequence of functions in which none occurs twice.
LEMMA PartFacts ==
    ASSUME NEW s \in Seq(Tasks), IsInjective(s), NEW m \in Nat \ {0}, NEW e \in Nat,
           e <= Len(s), m <= e + 1
    PROVE  LET b == SubSeq(s, m, e)
           IN  /\ b \in Seq(Tasks)
               /\ Len(b) = e + 1 - m
               /\ IsInjective(b)
               /\ ToSet(b) = {s[n] : n \in m .. e}
<1> DEFINE b == SubSeq(s, m, e)
<1>1. Len(s) \in Nat /\ DOMAIN s = 1 .. Len(s)
    BY LenProperties
<1>2. \A n \in m .. e : n \in DOMAIN s /\ s[n] \in Tasks
    BY <1>1, ElementOfSeq
<1>3. /\ b \in Seq(Tasks)
      /\ Len(b) = IF m <= e THEN e - m + 1 ELSE 0
      /\ \A i \in 1 .. e - m + 1 : b[i] = s[m + i - 1]
    BY <1>2, SubSeqProperties
<1> HIDE DEF b
<1>4. Len(b) = e + 1 - m /\ e + 1 - m = e - m + 1
    BY <1>3
<1>5. DOMAIN b = 1 .. e - m + 1
    BY <1>3, <1>4, LenProperties
<1>6. \A i \in DOMAIN b : b[i] = s[m + i - 1] /\ m + i - 1 \in m .. e
    BY <1>3, <1>5
<1>7. IsInjective(b)
  <2> SUFFICES ASSUME NEW i \in DOMAIN b, NEW j \in DOMAIN b, b[i] = b[j] PROVE i = j
    BY DEF IsInjective
  <2>1. m + i - 1 = m + j - 1
    BY <1>2, <1>6 DEF IsInjective
  <2> QED
    BY <1>5, <2>1
<1>8. ASSUME NEW n \in m .. e PROVE \E i \in DOMAIN b : b[i] = s[n]
  <2> DEFINE i == n - m + 1
  <2>1. i \in DOMAIN b /\ m + i - 1 = n
    BY <1>5
  <2> HIDE DEF i
  <2> QED
    BY <1>6, <2>1
<1>9. ToSet(b) = {s[n] : n \in m .. e}
    BY <1>6, <1>8 DEF ToSet
<1> QED
    BY <1>3, <1>4, <1>7, <1>9 DEF b

--------------------------------------------------------------------------------
\* Batches of functions of a set, none of which is in two of them or twice in one.

Batches(bs, ts) ==
    /\ \A b \in bs : /\ b \in Seq(Tasks) /\ Len(b) \in 1 .. MaxBatch /\ IsInjective(b)
                     /\ ToSet(b) \subseteq ts
    /\ \A b, c \in bs : ToSet(b) \cap ToSet(c) # {} => b = c

LEMMA SlicesAreBatches ==
    ASSUME NEW s \in Seq(Tasks), IsInjective(s)
    PROVE  Batches(Slices(s), ToSet(s))
<1> DEFINE L == Len(s)
           Starts == {j \in DOMAIN s : j % MaxBatch = 1}
           end(i) == IF i + MaxBatch - 1 <= L THEN i + MaxBatch - 1 ELSE L
           part(i) == SubSeq(s, i, end(i))
<1>1. L \in Nat /\ DOMAIN s = 1 .. L
    BY LenProperties
<1>2. Slices(s) = {part(i) : i \in Starts}
    BY DEF Slices
<1>3. \A i \in Starts : /\ i \in Nat \ {0} /\ i % MaxBatch = 1
                        /\ end(i) \in Nat /\ i <= end(i) /\ end(i) <= L
                        /\ end(i) + 1 - i \in 1 .. MaxBatch
                        /\ end(i) <= i + MaxBatch - 1
    BY <1>1, BatchSize
<1> HIDE DEF end, L
<1>4. ASSUME NEW i \in Starts
      PROVE  /\ part(i) \in Seq(Tasks) /\ Len(part(i)) = end(i) + 1 - i /\ IsInjective(part(i))
             /\ ToSet(part(i)) = {s[n] : n \in i .. end(i)}
  <2>1. i <= end(i) + 1
    BY <1>3
  <2> QED
    BY <1>3, <2>1, PartFacts DEF L
<1>5. ASSUME NEW i \in Starts PROVE i .. end(i) \subseteq DOMAIN s
    BY <1>1, <1>3
<1>6. \A i \in Starts : ToSet(part(i)) \subseteq ToSet(s)
    BY <1>4, <1>5 DEF ToSet
<1>7. ASSUME NEW i \in Starts, NEW j \in Starts, i < j
      PROVE  ToSet(part(i)) \cap ToSet(part(j)) = {}
  <2>4. i \in Nat /\ j \in Nat /\ i % MaxBatch = 1 /\ j % MaxBatch = 1
    BY <1>3
  <2>5. i + MaxBatch <= j
    BY <1>7, <2>4, SlicesApart
  <2>6. end(i) \in Nat /\ end(i) <= i + MaxBatch - 1
    BY <1>3
  <2>1. end(i) < j
    BY <2>4, <2>5, <2>6, BatchSize
  <2>2. \A m \in i .. end(i) : \A n \in j .. end(j) : m # n
    BY <1>3, <2>1
  <2>3. \A m \in i .. end(i) : \A n \in j .. end(j) : s[m] # s[n]
    BY <1>5, <2>2 DEF IsInjective
  <2> HIDE DEF part
  <2>7. ToSet(part(i)) = {s[n] : n \in i .. end(i)} /\ ToSet(part(j)) = {s[n] : n \in j .. end(j)}
    BY <1>4
  <2> QED
    BY <2>3, <2>7
<1>8. ASSUME NEW i \in Starts, NEW j \in Starts, ToSet(part(i)) \cap ToSet(part(j)) # {}
      PROVE  part(i) = part(j)
  <2>1. i = j
    BY <1>3, <1>7, <1>8
  <2> QED
    BY <2>1
<1> HIDE DEF part
<1> QED
    BY <1>2, <1>3, <1>4, <1>6, <1>8 DEF Batches

\* The batches that are made class by class, or key by key.
LEMMA ByClassBatches ==
    ASSUME NEW ts \in SUBSET Tasks
    PROVE  Batches(ByClass(ts), ts)
<1> DEFINE of(c) == {t \in ts : ClassOf[t] = c}
<1>1. ASSUME NEW c PROVE Batches(Slices(Sorted(of(c))), of(c))
  <2>1. of(c) \in SUBSET Tasks
    OBVIOUS
  <2> HIDE DEF of
  <2> QED
    BY <2>1, SortedFacts, SlicesAreBatches
<1>2. \A b \in ByClass(ts) : \E c : b \in Slices(Sorted(of(c)))
    BY DEF ByClass
<1>3. \A c : of(c) \subseteq ts
    OBVIOUS
<1>4. ASSUME NEW b \in ByClass(ts), NEW d \in ByClass(ts), ToSet(b) \cap ToSet(d) # {}
      PROVE  b = d
  <2>1. PICK c1 : b \in Slices(Sorted(of(c1)))
    BY <1>2
  <2>2. PICK c2 : d \in Slices(Sorted(of(c2)))
    BY <1>2
  <2>3. ToSet(b) \subseteq of(c1) /\ ToSet(d) \subseteq of(c2)
    BY <1>1, <2>1, <2>2 DEF Batches
  <2>4. c1 = c2
    BY <1>4, <2>3
  <2> HIDE DEF of
  <2> QED
    BY <1>1, <1>4, <2>1, <2>2, <2>4 DEF Batches
<1> HIDE DEF of
<1>5. ASSUME NEW b \in ByClass(ts)
      PROVE  /\ b \in Seq(Tasks) /\ Len(b) \in 1 .. MaxBatch /\ IsInjective(b)
             /\ ToSet(b) \subseteq ts
    BY <1>1, <1>2, <1>3 DEF Batches
<1> QED
    BY <1>4, <1>5 DEF Batches

LEMMA ByKeyBatches ==
    ASSUME NEW ts \in SUBSET Tasks
    PROVE  Batches(ByKey(ts), ts)
<1>1. ASSUME NEW k PROVE Batches(Slices(Sorted(OfKey(ts, k))), OfKey(ts, k))
  <2>1. OfKey(ts, k) \in SUBSET Tasks
    BY DEF OfKey
  <2> QED
    BY <2>1, SortedFacts, SlicesAreBatches
<1>2. \A b \in ByKey(ts) : \E k : b \in Slices(Sorted(OfKey(ts, k)))
    BY DEF ByKey
<1>3. \A k : OfKey(ts, k) \subseteq ts
    BY DEF OfKey
<1>4. ASSUME NEW b \in ByKey(ts), NEW d \in ByKey(ts), ToSet(b) \cap ToSet(d) # {}
      PROVE  b = d
  <2>1. PICK k1 : b \in Slices(Sorted(OfKey(ts, k1)))
    BY <1>2
  <2>2. PICK k2 : d \in Slices(Sorted(OfKey(ts, k2)))
    BY <1>2
  <2>3. ToSet(b) \subseteq OfKey(ts, k1) /\ ToSet(d) \subseteq OfKey(ts, k2)
    BY <1>1, <2>1, <2>2 DEF Batches
  <2>4. k1 = k2
    BY <1>4, <2>3 DEF OfKey
  <2> QED
    BY <1>1, <1>4, <2>1, <2>2, <2>4 DEF Batches
<1>5. ASSUME NEW b \in ByKey(ts)
      PROVE  /\ b \in Seq(Tasks) /\ Len(b) \in 1 .. MaxBatch /\ IsInjective(b)
             /\ ToSet(b) \subseteq ts
    BY <1>1, <1>2, <1>3 DEF Batches
<1> QED
    BY <1>4, <1>5 DEF Batches

\* Whoever would be a batch of one goes on to the next grouping, and no other does.
LEMMA LeaveAlone ==
    ASSUME NEW bs, NEW ts \in SUBSET Tasks, Batches(bs, ts)
    PROVE  /\ Alone(bs) \subseteq ts
           /\ Batches(bs \ Lone(bs), ts \ Alone(bs))
<1>1. ASSUME NEW b \in Lone(bs) PROVE b \in bs /\ ToSet(b) = {b[1]} /\ b[1] \in ts
  <2>1. b \in bs /\ Len(b) = 1 /\ b \in Seq(Tasks) /\ ToSet(b) \subseteq ts
    BY DEF Lone, Batches
  <2>2. DOMAIN b = {1}
    BY <2>1, LenProperties
  <2> QED
    BY <2>1, <2>2 DEF ToSet
<1>2. Alone(bs) \subseteq ts
    BY <1>1 DEF Alone
<1>3. ASSUME NEW b \in bs \ Lone(bs), NEW t \in ToSet(b), t \in Alone(bs) PROVE FALSE
  <2>1. PICK d \in Lone(bs) : d[1] = t
    BY <1>3 DEF Alone
  <2>2. d \in bs /\ t \in ToSet(d)
    BY <1>1, <2>1
  <2>3. b = d
    BY <1>3, <2>2 DEF Batches
  <2> QED
    BY <2>1, <2>3
<1> QED
    BY <1>2, <1>3 DEF Batches

LEMMA JoinBatches ==
    ASSUME NEW bs, NEW cs, NEW ts, NEW us, Batches(bs, ts), Batches(cs, us), ts \cap us = {}
    PROVE  Batches(bs \cup cs, ts \cup us)
<1>1. \A b \in bs, c \in cs : ToSet(b) \cap ToSet(c) = {}
    BY DEF Batches
<1> QED
    BY <1>1 DEF Batches

\* What a call makes of its functions.
LEMMA CallBatches ==
    ASSUME NEW ts \in SUBSET Tasks
    PROVE  /\ Remaining(ts) \subseteq Asked(ts)
           /\ Batches(Shared(ts) \cup Mixed(ts), Asked(ts) \ Remaining(ts))
<1>1. Asked(ts) \in SUBSET Tasks
    BY DEF Asked
<1>2. Singles(ts) \subseteq Asked(ts) /\ Batches(Shared(ts), Asked(ts) \ Singles(ts))
    BY <1>1, ByClassBatches, LeaveAlone DEF Singles, Shared
<1>3. Singles(ts) \in SUBSET Tasks
    BY <1>1, <1>2
<1>4. Remaining(ts) \subseteq Singles(ts) /\ Batches(Mixed(ts), Singles(ts) \ Remaining(ts))
    BY <1>3, ByKeyBatches, LeaveAlone DEF Remaining, Mixed
<1>5. Batches(Shared(ts) \cup Mixed(ts), (Asked(ts) \ Singles(ts)) \cup (Singles(ts) \ Remaining(ts)))
    BY <1>2, <1>4, JoinBatches
<1>6. (Asked(ts) \ Singles(ts)) \cup (Singles(ts) \ Remaining(ts)) = Asked(ts) \ Remaining(ts)
    BY <1>2, <1>4
<1> QED
    BY <1>2, <1>4, <1>5, <1>6

--------------------------------------------------------------------------------
\* The pool.

\* A group of the pool: too small for a batch, and all of its own key.
GroupOK(s, k) ==
    /\ s \in Seq(Tasks) /\ IsInjective(s)
    /\ Len(s) < MaxBatch
    /\ \A t \in ToSet(s) : KeyOf[t] = k
GroupsOK(g) == g \in [Keys -> Seq(Tasks)] /\ \A k \in Keys : GroupOK(g[k], k)
Waiters(g)  == UNION {ToSet(g[k]) : k \in Keys}

\* What is left of a sequence when its full slices are taken.
LastPart(s) == SubSeq(s, (Len(s) - (Len(s) % MaxBatch)) + 1, Len(s))

LEMMA LastPartFacts ==
    ASSUME NEW s \in Seq(Tasks), IsInjective(s)
    PROVE  /\ LastPart(s) \in Seq(Tasks) /\ IsInjective(LastPart(s))
           /\ Len(LastPart(s)) < MaxBatch
           /\ ToSet(LastPart(s)) \subseteq ToSet(s)
           /\ \A b \in Slices(s) : Len(b) = MaxBatch => ToSet(b) \cap ToSet(LastPart(s)) = {}
<1> DEFINE L == Len(s)
           r == L % MaxBatch
           m == (L - r) + 1
<1>1. L \in Nat /\ DOMAIN s = 1 .. L
    BY LenProperties
<1>2. r \in 0 .. MaxBatch - 1 /\ r <= L
  <2>1. L % MaxBatch \in 0 .. MaxBatch - 1 /\ L % MaxBatch <= L
    BY <1>1, BatchSize
  <2> QED
    BY <2>1
<1>3. MaxBatch \in Nat /\ MaxBatch > 1
    BY BatchSize
<1> HIDE DEF r
<1>4. m \in Nat \ {0} /\ m <= L + 1
    BY <1>1, <1>2, <1>3
<1>5. LastPart(s) = SubSeq(s, m, L)
    BY DEF LastPart, r
<1> HIDE DEF m
<1>6. /\ LastPart(s) \in Seq(Tasks) /\ Len(LastPart(s)) = L + 1 - m /\ IsInjective(LastPart(s))
      /\ ToSet(LastPart(s)) = {s[n] : n \in m .. L}
  <2>1. L <= Len(s) /\ L \in Nat
    BY <1>1
  <2> HIDE DEF L
  <2>2. LET b == SubSeq(s, m, L)
        IN  /\ b \in Seq(Tasks) /\ Len(b) = L + 1 - m /\ IsInjective(b)
            /\ ToSet(b) = {s[n] : n \in m .. L}
    BY <1>4, <2>1, PartFacts
  <2> QED
    BY <1>5, <2>2
<1>7. Len(LastPart(s)) < MaxBatch
    BY <1>1, <1>2, <1>3, <1>6 DEF m
<1>8. m .. L \subseteq DOMAIN s
    BY <1>1, <1>4
<1>9. ToSet(LastPart(s)) \subseteq ToSet(s)
    BY <1>6, <1>8 DEF ToSet
<1>10. ASSUME NEW b \in Slices(s), Len(b) = MaxBatch PROVE ToSet(b) \cap ToSet(LastPart(s)) = {}
  <2>1. PICK i \in DOMAIN s :
            /\ i % MaxBatch = 1
            /\ b = SubSeq(s, i, IF i + MaxBatch - 1 <= L THEN i + MaxBatch - 1 ELSE L)
    BY DEF Slices
  <2> DEFINE e == IF i + MaxBatch - 1 <= L THEN i + MaxBatch - 1 ELSE L
  <2>2. i \in Nat \ {0} /\ e \in Nat /\ e <= L /\ i <= e + 1 /\ i <= L
    BY <1>1, <1>3
  <2>3. b = SubSeq(s, i, e)
    BY <2>1
  <2>10. e = i + MaxBatch - 1 \/ (i + MaxBatch - 1 > L /\ e = L)
    BY <1>1, <1>3
  <2> HIDE DEF e
  <2>4. Len(b) = e + 1 - i /\ ToSet(b) = {s[n] : n \in i .. e}
    BY <2>2, <2>3, PartFacts
  <2>5. e = i + MaxBatch - 1
    BY <1>1, <1>3, <1>10, <2>2, <2>4, <2>10
  <2>6. e <= L - r
    BY <1>1, <2>1, <2>2, <2>5, FullBeforeRest DEF r
  <2>7. \A n \in i .. e : \A o \in m .. L : n # o
    BY <1>1, <1>2, <1>3, <2>2, <2>6 DEF m
  <2>8. i .. e \subseteq DOMAIN s
    BY <1>1, <2>2
  <2>9. \A n \in i .. e : \A o \in m .. L : s[n] # s[o]
    BY <1>8, <2>7, <2>8 DEF IsInjective
  <2> QED
    BY <1>6, <2>4, <2>9
<1> QED
    BY <1>6, <1>7, <1>9, <1>10

LEMMA PooledFacts ==
    ASSUME GroupsOK(group), NEW ts \in SUBSET Tasks, ts \cap Waiters(group) = {}, NEW k \in Keys
    PROVE  /\ Pooled(ts, k) \in Seq(Tasks) /\ IsInjective(Pooled(ts, k))
           /\ ToSet(Pooled(ts, k)) = ToSet(group[k]) \cup OfKey(ts, k)
           /\ \A t \in ToSet(Pooled(ts, k)) : KeyOf[t] = k
<1> DEFINE g == group[k]
           a == Sorted(OfKey(ts, k))
<1>1. g \in Seq(Tasks) /\ IsInjective(g) /\ \A t \in ToSet(g) : KeyOf[t] = k
    BY DEF GroupsOK, GroupOK
<1>2. OfKey(ts, k) \in SUBSET Tasks /\ \A t \in OfKey(ts, k) : t \in ts /\ KeyOf[t] = k
    BY DEF OfKey
<1>3. a \in Seq(Tasks) /\ IsInjective(a) /\ ToSet(a) = OfKey(ts, k)
    BY <1>2, SortedFacts
<1>4. ToSet(g) \subseteq Waiters(group)
    BY DEF Waiters
<1>5. Pooled(ts, k) = g \o a
    BY DEF Pooled
<1> HIDE DEF g, a
<1>6. Len(g) \in Nat /\ Len(a) \in Nat /\ DOMAIN g = 1 .. Len(g) /\ DOMAIN a = 1 .. Len(a)
    BY <1>1, <1>3, LenProperties
<1>7. /\ g \o a \in Seq(Tasks) /\ Len(g \o a) = Len(g) + Len(a)
      /\ \A i \in 1 .. Len(g) + Len(a) :
            (g \o a)[i] = IF i <= Len(g) THEN g[i] ELSE a[i - Len(g)]
    BY <1>1, <1>3, ConcatProperties
<1> DEFINE p == g \o a
<1> HIDE DEF p
<1>8. p \in Seq(Tasks) /\ DOMAIN p = 1 .. Len(g) + Len(a)
    BY <1>7, LenProperties DEF p
<1>9. \A i \in DOMAIN p : \/ i \in DOMAIN g /\ p[i] = g[i]
                          \/ i > Len(g) /\ i - Len(g) \in DOMAIN a /\ p[i] = a[i - Len(g)]
    BY <1>6, <1>7, <1>8 DEF p
<1>10. \A i \in DOMAIN g : g[i] \in ToSet(g)
    BY DEF ToSet
<1>11. \A i \in DOMAIN a : a[i] \in ToSet(a)
    BY DEF ToSet
<1>12. ToSet(g) \cap ToSet(a) = {}
    BY <1>2, <1>3, <1>4
<1>13. IsInjective(p)
  <2> SUFFICES ASSUME NEW i \in DOMAIN p, NEW j \in DOMAIN p, p[i] = p[j] PROVE i = j
    BY DEF IsInjective
  <2>1. CASE i \in DOMAIN g /\ p[i] = g[i] /\ j \in DOMAIN g /\ p[j] = g[j]
    BY <1>1, <2>1 DEF IsInjective
  <2>2. CASE /\ i > Len(g) /\ i - Len(g) \in DOMAIN a /\ p[i] = a[i - Len(g)]
             /\ j > Len(g) /\ j - Len(g) \in DOMAIN a /\ p[j] = a[j - Len(g)]
    <3>1. i - Len(g) = j - Len(g)
      BY <1>3, <2>2 DEF IsInjective
    <3> QED
      BY <1>6, <1>8, <3>1
  <2>3. ~(i \in DOMAIN g /\ p[i] = g[i] /\ j - Len(g) \in DOMAIN a /\ p[j] = a[j - Len(g)])
    BY <1>10, <1>11, <1>12
  <2>4. ~(j \in DOMAIN g /\ p[j] = g[j] /\ i - Len(g) \in DOMAIN a /\ p[i] = a[i - Len(g)])
    BY <1>10, <1>11, <1>12
  <2> QED
    BY <1>9, <2>1, <2>2, <2>3, <2>4
<1>14. ToSet(p) \subseteq ToSet(g) \cup ToSet(a)
    BY <1>9, <1>10, <1>11 DEF ToSet
<1>15. ToSet(g) \subseteq ToSet(p)
  <2>1. \A i \in DOMAIN g : i \in DOMAIN p /\ p[i] = g[i]
    BY <1>6, <1>7, <1>8 DEF p
  <2> QED
    BY <2>1 DEF ToSet
<1>16. ToSet(a) \subseteq ToSet(p)
  <2>1. \A i \in DOMAIN a : i + Len(g) \in DOMAIN p /\ p[i + Len(g)] = a[i]
    BY <1>6, <1>7, <1>8 DEF p
  <2> QED
    BY <2>1 DEF ToSet
<1>17. ToSet(p) = ToSet(g) \cup OfKey(ts, k)
    BY <1>3, <1>14, <1>15, <1>16
<1>18. \A t \in ToSet(p) : KeyOf[t] = k
    BY <1>1, <1>2, <1>17
<1> QED
    BY <1>5, <1>8, <1>13, <1>17, <1>18 DEF p, g

\* Full groups leave, and nobody leaves and stays.
LEMMA PoolBatches ==
    ASSUME GroupsOK(group), NEW ts \in SUBSET Tasks, ts \cap Waiters(group) = {}
    PROVE  /\ Batches(Full(ts), ts \cup Waiters(group))
           /\ \A k \in Keys : /\ GroupOK(Rest(ts, k), k)
                              /\ ToSet(Rest(ts, k)) \subseteq ts \cup Waiters(group)
           /\ \A b \in Full(ts) : \A k \in Keys : ToSet(b) \cap ToSet(Rest(ts, k)) = {}
<1>1. ASSUME NEW k \in Keys
      PROVE  /\ Pooled(ts, k) \in Seq(Tasks) /\ IsInjective(Pooled(ts, k))
             /\ ToSet(Pooled(ts, k)) \subseteq ts \cup Waiters(group)
             /\ \A t \in ToSet(Pooled(ts, k)) : KeyOf[t] = k
    BY PooledFacts DEF OfKey, Waiters
<1>2. \A k \in Keys : Rest(ts, k) = LastPart(Pooled(ts, k))
    BY DEF Rest, LastPart
<1>3. ASSUME NEW k \in Keys PROVE Batches(Slices(Pooled(ts, k)), ToSet(Pooled(ts, k)))
    BY <1>1, SlicesAreBatches
<1>4. ASSUME NEW k \in Keys
      PROVE  /\ GroupOK(Rest(ts, k), k) /\ ToSet(Rest(ts, k)) \subseteq ToSet(Pooled(ts, k))
             /\ \A b \in Slices(Pooled(ts, k)) :
                    Len(b) = MaxBatch => ToSet(b) \cap ToSet(Rest(ts, k)) = {}
    BY <1>1, <1>2, LastPartFacts DEF GroupOK
<1>5. \A b \in Full(ts) : Len(b) = MaxBatch /\ \E k \in Keys : b \in Slices(Pooled(ts, k))
    BY DEF Full
<1>6. \A k \in Keys : \A b \in Slices(Pooled(ts, k)) : ToSet(b) \subseteq ToSet(Pooled(ts, k))
    BY <1>3 DEF Batches
<1>7. ASSUME NEW b \in Full(ts), NEW k \in Keys PROVE ToSet(b) \cap ToSet(Rest(ts, k)) = {}
  <2>1. PICK l \in Keys : b \in Slices(Pooled(ts, l))
    BY <1>5
  <2>2. CASE l = k
    BY <1>4, <1>5, <2>1, <2>2
  <2>3. CASE l # k
    BY <1>1, <1>4, <1>6, <2>1, <2>3
  <2> QED
    BY <2>2, <2>3
<1>8. ASSUME NEW b \in Full(ts), NEW c \in Full(ts), ToSet(b) \cap ToSet(c) # {} PROVE b = c
  <2>1. PICK l \in Keys : b \in Slices(Pooled(ts, l))
    BY <1>5
  <2>2. PICK k \in Keys : c \in Slices(Pooled(ts, k))
    BY <1>5
  <2>3. l = k
    BY <1>1, <1>6, <1>8, <2>1, <2>2
  <2> QED
    BY <1>3, <1>8, <2>1, <2>2, <2>3 DEF Batches
<1>9. ASSUME NEW b \in Full(ts)
      PROVE  /\ b \in Seq(Tasks) /\ Len(b) \in 1 .. MaxBatch /\ IsInjective(b)
             /\ ToSet(b) \subseteq ts \cup Waiters(group)
    BY <1>1, <1>3, <1>5, <1>6 DEF Batches
<1>10. Batches(Full(ts), ts \cup Waiters(group))
    BY <1>8, <1>9 DEF Batches
<1>11. \A k \in Keys : ToSet(Rest(ts, k)) \subseteq ts \cup Waiters(group)
    BY <1>1, <1>4
<1> QED
    BY <1>4, <1>7, <1>10, <1>11

--------------------------------------------------------------------------------
\* The inductive invariant.

Good       == {"success", "rejected"}
Gots       == [is : {"batched", "primary", "fallback"} \cup Outcomes, of : Nat]
TripTypes  == [members : Seq(Tasks), batch : BOOLEAN, got : Seq(Gots)]
OwnIfGood(o, t) == o.is \in Good => o.of = t

\* A trip: before its first call ends, nobody has anything; an answer is its member's own.
TripOK(w) ==
    /\ w \in TripTypes
    /\ IsInjective(w.members)
    /\ Len(w.members) \in 1 .. MaxBatch /\ Len(w.got) = Len(w.members)
    /\ w.batch => \A i \in DOMAIN w.got : w.got[i].is = "batched"
    /\ \A i \in DOMAIN w.got : OwnIfGood(w.got[i], w.members[i])
TripsOK(ws) ==
    /\ \A w \in ws : TripOK(w)
    /\ \A v, w \in ws : ToSet(v.members) \cap ToSet(w.members) # {} => v = w
Travellers(ws) == UNION {ToSet(w.members) : w \in ws}

\* Outcomes, and the trips and groups that they will come from.
TaskTypes == [is : {"idle", "open"} \cup Outcomes, of : Nat]
TasksOK ==
    /\ task \in [Tasks -> TaskTypes]
    /\ \A t \in Tasks : OwnIfGood(task[t], t)
    /\ \A t \in Static : task[t].is \in {"idle", "success"}
CompanyOK ==
    /\ GroupsOK(group) /\ TripsOK(trips)
    /\ Waiters(group) \cap Travellers(trips) = {}
    /\ \A t \in Waiters(group) \cup Travellers(trips) : task[t].is = "open"

\* An answer that is paid for has arrived, or travels, or its trip was broken off.
ArrivesIn(t, ws) == \A w \in ws : \A i \in DOMAIN w.members : w.members[i] = t => w.got[i].is \in Good
PaidOK ==
    /\ paid \subseteq Tasks
    /\ \A t \in paid : \/ task[t].is \in Good
                       \/ task[t].is = "open" /\ t \notin Waiters(group) /\ ArrivesIn(t, trips)

\* A file's chunks are taken up in their order.
FileOK(f) ==
    /\ phase[f] \in {"queued", "calling", "between", "over"}
    /\ chunk[f] \in 0 .. Len(ChunksOf[f])
    /\ phase[f] = "queued" => chunk[f] = 0
    /\ phase[f] = "calling" => chunk[f] >= 1
    /\ phase[f] = "between" => chunk[f] \in 1 .. Len(ChunksOf[f]) - 1
    /\ \A c \in DOMAIN ChunksOf[f] : \A t \in ChunksOf[f][c] : task[t].is = "idle" <=> c > chunk[f]
FilesOK ==
    /\ phase \in [Files -> {"queued", "calling", "between", "over"}] /\ chunk \in [Files -> Nat]
    /\ \A f \in Files : FileOK(f)
RunOK ==
    /\ loop \in {"files", "drain", "done", "broken"}
    /\ retried \subseteq Tasks
    /\ errors \in BOOLEAN /\ aborted \in BOOLEAN

IInv == TasksOK /\ CompanyOK /\ PaidOK /\ FilesOK /\ RunOK

--------------------------------------------------------------------------------
\* What the loop knows of its functions.

CalledFor(t) == \E f \in Files : phase[f] = "calling" /\ t \in ChunksOf[f][chunk[f]]
Looked(f, c) == c < chunk[f] \/ (c = chunk[f] /\ phase[f] # "calling")
NoneFailed ==
    /\ \A f \in Files : \A c \in DOMAIN ChunksOf[f] : Looked(f, c) =>
          \A t \in ChunksOf[f][c] \ retried : task[t].is # "failed"
    /\ \A f \in Files : phase[f] = "over" => chunk[f] = Len(ChunksOf[f])
SomeFailed ==
    \/ \E t \in Tasks : task[t].is = "failed"
    \/ \E f \in Files : phase[f] = "over" /\ chunk[f] \in 1 .. Len(ChunksOf[f]) - 1
LoopInv ==
    /\ \A t \in retried : task[t].is # "idle"
    /\ loop = "files" => retried = {}
    /\ loop \in {"drain", "done"} => \A f \in Files : phase[f] = "over"
    /\ loop \in {"drain", "done"} => \A t \in Tasks \ retried : task[t].is # "deferred"
    /\ loop # "broken" => \A t \in Tasks : task[t].is = "open" => CalledFor(t) \/ (loop = "drain" /\ t \in retried)
    /\ loop # "broken" /\ ~errors => NoneFailed
    /\ loop \in {"files", "drain"} /\ errors => SomeFailed

--------------------------------------------------------------------------------
\* Trips.

LEMMA StartingFacts ==
    ASSUME NEW b \in Seq(Tasks), IsInjective(b), Len(b) \in 1 .. MaxBatch
    PROVE  TripOK(Starting(b)) /\ Starting(b).members = b
<1> DEFINE first == Is(IF Len(b) > 1 THEN "batched" ELSE "primary")
           gots == [i \in DOMAIN b |-> first]
           w == Starting(b)
           many == Len(b) > 1
<1>1. w = [members |-> b, batch |-> many, got |-> gots]
    BY DEF Starting
<1>6. many \in BOOLEAN
    OBVIOUS
<1> HIDE DEF many
<1>2. w.members = b /\ w.got = gots /\ w.batch = many
  <2> HIDE DEF w, gots, first
  <2>1. w.members = b /\ w.got = gots
    BY <1>1
  <2>2. w.batch = many
    BY <1>1, Zenon
  <2> QED
    BY <2>1, <2>2
<1>3. DOMAIN b = 1 .. Len(b) /\ Len(b) \in Nat
    BY LenProperties
<1>4. first \in Gots
    BY DEF Gots, Is, None
<1>5. /\ Len(b) > 1 => first.is = "batched"
      /\ first.is \notin Good
    BY DEF Is, Good
<1>12. many => first.is = "batched"
    BY <1>5 DEF many
<1> HIDE DEF first
<1>7. gots \in Seq(Gots) /\ Len(gots) = Len(b)
    BY <1>3, <1>4, IsASeq
<1>8. DOMAIN gots = DOMAIN b /\ \A i \in DOMAIN b : gots[i] = first
    OBVIOUS
<1> HIDE DEF gots
<1>9. [members |-> b, batch |-> many, got |-> gots] \in TripTypes
    BY <1>6, <1>7, Zenon DEF TripTypes
<1>10. w \in TripTypes
    BY <1>1, <1>9
<1> HIDE DEF w
<1>11. TripOK(w)
    BY <1>2, <1>5, <1>7, <1>8, <1>10, <1>12 DEF TripOK, OwnIfGood
<1> QED
    BY <1>2, <1>11 DEF w

LEMMA StartTrips ==
    ASSUME NEW ws, NEW bs, NEW us, TripsOK(ws), Batches(bs, us), us \cap Travellers(ws) = {}
    PROVE  LET new == ws \cup StartingAll(bs)
           IN  /\ TripsOK(new)
               /\ \A t \in Travellers(new) : t \in Travellers(ws) \/ \E b \in bs : t \in ToSet(b)
               /\ \A t : t \notin us /\ ArrivesIn(t, ws) => ArrivesIn(t, new)
<1> DEFINE new == ws \cup StartingAll(bs)
<1>1. ASSUME NEW b \in bs PROVE TripOK(Starting(b)) /\ Starting(b).members = b
    BY StartingFacts DEF Batches
<1>2. \A w \in new : w \in ws \/ \E b \in bs : w = Starting(b)
    BY DEF StartingAll
<1>3. \A w \in ws : ToSet(w.members) \subseteq Travellers(ws)
    BY DEF Travellers
<1>4. \A b \in bs : ToSet(b) \subseteq us
    BY DEF Batches
<1> HIDE DEF new
<1>5. \A w \in new : TripOK(w)
    BY <1>1, <1>2 DEF TripsOK
<1>6. ASSUME NEW v \in new, NEW w \in new, ToSet(v.members) \cap ToSet(w.members) # {} PROVE v = w
  <2>1. CASE v \in ws /\ w \in ws
    BY <1>6, <2>1 DEF TripsOK
  <2>2. CASE (\E b \in bs : v = Starting(b)) /\ (\E c \in bs : w = Starting(c))
    BY <1>1, <1>6, <2>2 DEF Batches
  <2>3. CASE v \in ws /\ \E b \in bs : w = Starting(b)
    BY <1>1, <1>3, <1>4, <1>6, <2>3
  <2>4. CASE w \in ws /\ \E b \in bs : v = Starting(b)
    BY <1>1, <1>3, <1>4, <1>6, <2>4
  <2> QED
    BY <1>2, <2>1, <2>2, <2>3, <2>4
<1>7. TripsOK(new)
    BY <1>5, <1>6 DEF TripsOK
<1>8. ASSUME NEW t \in Travellers(new)
      PROVE  t \in Travellers(ws) \/ \E b \in bs : t \in ToSet(b)
  <2>1. PICK w \in new : t \in ToSet(w.members)
    BY DEF Travellers
  <2> QED
    BY <1>1, <1>2, <1>3, <2>1
<1>9. ASSUME NEW t, t \notin us, ArrivesIn(t, ws) PROVE ArrivesIn(t, new)
  <2> SUFFICES ASSUME NEW w \in new, NEW i \in DOMAIN w.members, w.members[i] = t
               PROVE  w.got[i].is \in Good
    BY DEF ArrivesIn
  <2>1. t \in ToSet(w.members)
    BY DEF ToSet
  <2>2. w \in ws
    BY <1>1, <1>2, <1>4, <1>9, <2>1
  <2> QED
    BY <1>9, <2>2 DEF ArrivesIn
<1> QED
    BY <1>7, <1>8, <1>9 DEF new

--------------------------------------------------------------------------------
\* Calls.

Before(ts) == \A t \in ts : task[t].is \in {"idle", "deferred"}

LEMMA OpenedFacts ==
    ASSUME TasksOK, NEW ts \in SUBSET Tasks, Before(ts), task' = Opened(ts)
    PROVE  /\ TasksOK'
           /\ \A t \in Tasks \ ts : task'[t] = task[t]
           /\ \A t \in Asked(ts) : task'[t].is = "open"
           /\ \A t \in ts : task'[t].is \in {"open", "success"}
<1>1. \A t \in Tasks : task'[t] = IF t \notin ts THEN task[t]
                                  ELSE IF t \in Static THEN Outcome("success", t) ELSE Is("open")
    BY DEF Opened
<1>2. \A t \in Tasks : t \in Nat /\ task[t] \in TaskTypes /\ OwnIfGood(task[t], t)
    BY TaskSets DEF TasksOK
<1>3. \A t \in Tasks : Outcome("success", t) \in TaskTypes /\ Is("open") \in TaskTypes
    BY <1>2 DEF Outcome, Is, None, TaskTypes, Outcomes
<1>4. \A t : /\ Outcome("success", t).is = "success" /\ Outcome("success", t).of = t
             /\ Is("open").is = "open"
    BY DEF Outcome, Is
<1>5. ASSUME NEW t \in Tasks PROVE task'[t] \in TaskTypes /\ OwnIfGood(task'[t], t)
    BY <1>1, <1>2, <1>3, <1>4 DEF OwnIfGood, Good
<1>6. task' \in [Tasks -> TaskTypes]
  <2>1. task' = [t \in Tasks |-> task'[t]]
    BY DEF Opened
  <2> QED
    BY <1>5, <2>1
<1>7. Static \subseteq Tasks
    BY ExtractionAssumption DEF ExtractionAssumption
<1>8. \A t \in Static : task'[t].is \in {"idle", "success"}
    BY <1>1, <1>4, <1>7 DEF TasksOK
<1> QED
    BY <1>1, <1>4, <1>5, <1>6, <1>8 DEF TasksOK, Asked

\* New trips of functions that were not travelling, beside groups they have left.
LEMMA CompanyStarts ==
    ASSUME TasksOK, CompanyOK, PaidOK,
           NEW ts \in SUBSET Tasks, Before(ts), task' = Opened(ts),
           NEW bs, Batches(bs, Asked(ts) \cup Waiters(group)), trips' = trips \cup StartingAll(bs),
           GroupsOK(group'), Waiters(group') \subseteq Asked(ts) \cup Waiters(group),
           \A b \in bs : ToSet(b) \cap Waiters(group') = {},
           paid' = paid
    PROVE  TasksOK' /\ CompanyOK' /\ PaidOK'
<1> DEFINE us == Asked(ts) \cup Waiters(group)
<1>1. /\ TasksOK'
      /\ \A t \in Tasks \ ts : task'[t] = task[t]
      /\ \A t \in Asked(ts) : task'[t].is = "open"
      /\ \A t \in ts : task'[t].is \in {"open", "success"}
    BY OpenedFacts
<1>2. Waiters(group) \subseteq Tasks /\ Travellers(trips) \subseteq Tasks
  <2>1. \A k \in Keys : ToSet(group[k]) \subseteq Tasks
    BY ElementOfSeq DEF CompanyOK, GroupsOK, GroupOK, ToSet
  <2>2. \A w \in trips : ToSet(w.members) \subseteq Tasks
    <3> SUFFICES ASSUME NEW w \in trips PROVE ToSet(w.members) \subseteq Tasks
      OBVIOUS
    <3>1. w.members \in Seq(Tasks)
      BY DEF CompanyOK, TripsOK, TripOK, TripTypes
    <3>2. DOMAIN w.members = 1 .. Len(w.members)
      BY <3>1, LenProperties
    <3> QED
      BY <3>1, <3>2, ElementOfSeq DEF ToSet
  <2> QED
    BY <2>1, <2>2 DEF Waiters, Travellers
<1>3. \A t \in Waiters(group) \cup Travellers(trips) : task[t].is = "open" /\ t \notin ts
    BY DEF CompanyOK, Before
<1>4. \A t \in Waiters(group) \cup Travellers(trips) : task'[t].is = "open"
    BY <1>1, <1>2, <1>3
<1>5. Asked(ts) \subseteq ts
    BY DEF Asked
<1>6. us \cap Travellers(trips) = {}
    BY <1>3, <1>5 DEF CompanyOK
<1>7. /\ TripsOK(trips')
      /\ \A t \in Travellers(trips') : t \in Travellers(trips) \/ \E b \in bs : t \in ToSet(b)
      /\ \A t : t \notin us /\ ArrivesIn(t, trips) => ArrivesIn(t, trips')
  <2> DEFINE new == trips \cup StartingAll(bs)
  <2>1. TripsOK(trips) /\ Batches(bs, us)
    BY DEF CompanyOK
  <2> HIDE DEF us
  <2>2. /\ TripsOK(new)
        /\ \A t \in Travellers(new) : t \in Travellers(trips) \/ \E b \in bs : t \in ToSet(b)
        /\ \A t : t \notin us /\ ArrivesIn(t, trips) => ArrivesIn(t, new)
    BY <1>6, <2>1, StartTrips
  <2>3. trips' = new
    OBVIOUS
  <2> HIDE DEF new
  <2> QED
    BY <2>2, <2>3
<1>8. \A b \in bs : ToSet(b) \subseteq us
    BY DEF Batches
<1>9. Waiters(group') \cap Travellers(trips') = {}
    BY <1>6, <1>7
<1>10. \A t \in Waiters(group') \cup Travellers(trips') : task'[t].is = "open"
    BY <1>1, <1>4, <1>7, <1>8
<1>11. CompanyOK'
    BY <1>7, <1>9, <1>10 DEF CompanyOK
<1>12. ASSUME NEW t \in paid
       PROVE  \/ task'[t].is \in Good
              \/ task'[t].is = "open" /\ t \notin Waiters(group') /\ ArrivesIn(t, trips')
  <2>1. t \in Tasks /\ t \notin ts /\ task'[t] = task[t]
    BY <1>1 DEF PaidOK, Before, Good
  <2>2. CASE task[t].is \in Good
    BY <2>1, <2>2
  <2>3. CASE task[t].is = "open" /\ t \notin Waiters(group) /\ ArrivesIn(t, trips)
    BY <1>5, <1>7, <2>1, <2>3
  <2> QED
    BY <2>2, <2>3 DEF PaidOK
<1>13. PaidOK'
    BY <1>12 DEF PaidOK
<1> QED
    BY <1>1, <1>11, <1>13

LEMMA CallKeepsCompany ==
    ASSUME TasksOK, CompanyOK, PaidOK, NEW ts \in SUBSET Tasks, Before(ts), CallFor(ts)
    PROVE  TasksOK' /\ CompanyOK' /\ PaidOK'
<1> DEFINE r == Remaining(ts)
           a == Shared(ts) \cup Mixed(ts)
           bs == a \cup Full(r)
<1>1. /\ task' = Opened(ts) /\ trips' = trips \cup StartingAll(bs)
      /\ group' = [k \in Keys |-> Rest(r, k)] /\ paid' = paid
    BY DEF CallFor
<1>2. r \subseteq Asked(ts) /\ Batches(a, Asked(ts) \ r)
    BY CallBatches
<1>3. Asked(ts) \subseteq ts
    BY DEF Asked
<1>4. ts \cap Waiters(group) = {}
    BY DEF CompanyOK, Before
<1>5. GroupsOK(group) /\ r \in SUBSET Tasks /\ r \cap Waiters(group) = {}
    BY <1>2, <1>3, <1>4 DEF CompanyOK
<1> HIDE DEF r, a
<1>6. /\ Batches(Full(r), r \cup Waiters(group))
      /\ \A k \in Keys : GroupOK(Rest(r, k), k) /\ ToSet(Rest(r, k)) \subseteq r \cup Waiters(group)
      /\ \A b \in Full(r) : \A k \in Keys : ToSet(b) \cap ToSet(Rest(r, k)) = {}
    BY <1>5, PoolBatches
<1>7. Batches(bs, (Asked(ts) \ r) \cup (r \cup Waiters(group)))
  <2>1. (Asked(ts) \ r) \cap (r \cup Waiters(group)) = {}
    BY <1>3, <1>4
  <2> QED
    BY <1>2, <1>6, <2>1, JoinBatches
<1>8. (Asked(ts) \ r) \cup (r \cup Waiters(group)) = Asked(ts) \cup Waiters(group)
    BY <1>2
<1>9. \A k \in Keys : group'[k] = Rest(r, k)
    BY <1>1
<1>10. GroupsOK(group')
  <2>1. \A k \in Keys : Rest(r, k) \in Seq(Tasks)
    BY <1>6 DEF GroupOK
  <2>2. group' \in [Keys -> Seq(Tasks)]
    BY <1>1, <2>1
  <2> QED
    BY <1>6, <1>9, <2>2 DEF GroupsOK
<1>11. Waiters(group') \subseteq r \cup Waiters(group)
    BY <1>6, <1>9 DEF Waiters
<1>12. \A b \in a : ToSet(b) \subseteq Asked(ts) \ r
    BY <1>2 DEF Batches
<1>13. \A b \in Full(r) : ToSet(b) \cap Waiters(group') = {}
    BY <1>6, <1>9 DEF Waiters
<1>14. \A b \in bs : ToSet(b) \cap Waiters(group') = {}
    BY <1>3, <1>4, <1>11, <1>12, <1>13
<1> QED
    BY <1>1, <1>2, <1>7, <1>8, <1>10, <1>11, <1>14, CompanyStarts

LEMMA DrainKeepsCompany ==
    ASSUME TasksOK, CompanyOK, PaidOK, NEW ts \in SUBSET Tasks, Before(ts), DrainFor(ts)
    PROVE  TasksOK' /\ CompanyOK' /\ PaidOK'
<1> DEFINE r == Remaining(ts)
           a == Shared(ts) \cup Mixed(ts)
           ones == {<<t>> : t \in r}
           bs == a \cup ones
<1>1. /\ task' = Opened(ts) /\ trips' = trips \cup StartingAll(bs)
      /\ group' = group /\ paid' = paid
    BY DEF DrainFor
<1>2. r \subseteq Asked(ts) /\ Batches(a, Asked(ts) \ r)
    BY CallBatches
<1>3. Asked(ts) \subseteq ts
    BY DEF Asked
<1>4. ts \cap Waiters(group) = {}
    BY DEF CompanyOK, Before
<1>5. GroupsOK(group) /\ r \in SUBSET Tasks
    BY <1>2, <1>3 DEF CompanyOK
<1> HIDE DEF r, a
<1>6. Batches(ones, r)
  <2>1. ASSUME NEW t \in r
        PROVE  /\ <<t>> \in Seq(Tasks) /\ Len(<<t>>) \in 1 .. MaxBatch /\ IsInjective(<<t>>)
               /\ ToSet(<<t>>) = {t}
    BY <1>5, BatchSize DEF IsInjective, ToSet
  <2>2. ASSUME NEW b \in ones
        PROVE  /\ b \in Seq(Tasks) /\ Len(b) \in 1 .. MaxBatch /\ IsInjective(b)
               /\ \E t \in r : b = <<t>> /\ ToSet(b) = {t}
    BY <2>1
  <2> HIDE DEF ones
  <2>3. ASSUME NEW b \in ones, NEW c \in ones, ToSet(b) \cap ToSet(c) # {} PROVE b = c
    BY <2>2, <2>3
  <2>4. \A b \in ones : ToSet(b) \subseteq r
    BY <2>2
  <2> QED
    BY <2>2, <2>3, <2>4 DEF Batches
<1> HIDE DEF ones
<1>7. Batches(bs, (Asked(ts) \ r) \cup r)
    BY <1>2, <1>6, JoinBatches
<1>8. (Asked(ts) \ r) \cup r = Asked(ts)
    BY <1>2
<1>9. Batches(bs, Asked(ts) \cup Waiters(group))
    BY <1>7, <1>8 DEF Batches
<1>10. \A b \in bs : ToSet(b) \cap Waiters(group) = {}
    BY <1>3, <1>4, <1>7, <1>8 DEF Batches
<1> HIDE DEF bs
<1> QED
    BY <1>1, <1>5, <1>9, <1>10, CompanyStarts

LEMMA FlushKeepsCompany ==
    ASSUME TasksOK, CompanyOK, PaidOK, NEW k \in Keys, Flush(k)
    PROVE  TasksOK' /\ CompanyOK' /\ PaidOK'
<1> DEFINE b == group[k]
           bs == {b}
<1>1. /\ b # <<>> /\ trips' = trips \cup {Starting(b)}
      /\ group' = [group EXCEPT ![k] = <<>>] /\ task' = task /\ paid' = paid
    BY DEF Flush
<1>2. GroupsOK(group) /\ group \in [Keys -> Seq(Tasks)] /\ GroupOK(b, k)
    BY DEF CompanyOK, GroupsOK
<1>3. b \in Seq(Tasks) /\ IsInjective(b) /\ Len(b) \in 1 .. MaxBatch
    BY <1>1, <1>2, LenProperties, EmptySeq, BatchSize DEF GroupOK
<1>4. ToSet(b) \subseteq Waiters(group)
    BY DEF Waiters
<1>5. Asked({}) = {} /\ Before({}) /\ {} \in SUBSET Tasks
    BY DEF Asked, Before
<1>6. task' = Opened({})
  <2>1. task = [t \in Tasks |-> task[t]]
    BY DEF TasksOK
  <2> QED
    BY <1>1, <2>1 DEF Opened
<1>7. \A l \in Keys : group'[l] = IF l = k THEN <<>> ELSE group[l]
    BY <1>1, <1>2
<1>8. GroupOK(<<>>, k) /\ ToSet(<<>>) = {}
    BY BatchSize DEF GroupOK, IsInjective, ToSet
<1>9. GroupsOK(group')
  <2>1. group' \in [Keys -> Seq(Tasks)]
    BY <1>1, <1>2
  <2> QED
    BY <1>2, <1>7, <1>8, <2>1 DEF GroupsOK
<1>10. Waiters(group') \subseteq Waiters(group) /\ ToSet(b) \cap Waiters(group') = {}
  <2>1. \A l \in Keys : ToSet(group'[l]) \subseteq ToSet(group[l])
    BY <1>7, <1>8
  <2>2. ASSUME NEW l \in Keys, NEW t \in ToSet(b), t \in ToSet(group'[l]) PROVE FALSE
    <3>1. l # k
      BY <1>7, <1>8, <2>2
    <3>2. t \in ToSet(group[l])
      BY <2>1, <2>2
    <3> QED
      BY <1>2, <2>2, <3>1, <3>2 DEF GroupsOK, GroupOK
  <2> QED
    BY <2>1, <2>2 DEF Waiters
<1> HIDE DEF b
<1>11. StartingAll(bs) = {Starting(b)}
    BY DEF StartingAll
<1>12. Batches(bs, Asked({}) \cup Waiters(group))
    BY <1>3, <1>4 DEF Batches
<1>13. trips' = trips \cup StartingAll(bs) /\ \A c \in bs : ToSet(c) \cap Waiters(group') = {}
    BY <1>1, <1>10, <1>11
<1> HIDE DEF bs
<1>14. Waiters(group') \subseteq Asked({}) \cup Waiters(group)
    BY <1>10
<1> QED
    BY <1>1, <1>5, <1>6, <1>9, <1>12, <1>13, <1>14, CompanyStarts

--------------------------------------------------------------------------------
\* Ends of calls.

\* What a step does to the outcomes that have been open: it may decide them.
Decides == \A t \in Tasks : \/ task'[t] = task[t]
                            \/ /\ task[t].is = "open" /\ task'[t].is \in Outcomes
                               /\ t \in Travellers(trips)

LEMMA TripFacts ==
    ASSUME CompanyOK, NEW w \in trips
    PROVE  /\ w \in TripTypes /\ w.members \in Seq(Tasks) /\ w.got \in Seq(Gots)
           /\ DOMAIN w.members = 1 .. Len(w.members) /\ DOMAIN w.got = DOMAIN w.members
           /\ Len(w.members) \in Nat
           /\ \A i \in DOMAIN w.members : /\ i \in Nat \ {0}
                                          /\ w.members[i] \in Tasks /\ w.members[i] \in ToSet(w.members)
                                          /\ w.got[i] \in Gots
                                          /\ task[w.members[i]].is = "open"
                                          /\ w.members[i] \notin Waiters(group)
           /\ \A i, j \in DOMAIN w.members : w.members[i] = w.members[j] => i = j
           /\ \A v \in trips : v # w => ToSet(v.members) \cap ToSet(w.members) = {}
<1>1. TripOK(w)
    BY DEF CompanyOK, TripsOK
<1>2. w \in TripTypes /\ Len(w.got) = Len(w.members) /\ IsInjective(w.members)
    BY <1>1 DEF TripOK
<1>3. w.members \in Seq(Tasks) /\ w.got \in Seq(Gots)
    BY <1>2 DEF TripTypes
<1>4. DOMAIN w.members = 1 .. Len(w.members) /\ DOMAIN w.got = 1 .. Len(w.got) /\ Len(w.members) \in Nat
    BY <1>3, LenProperties
<1>5. ASSUME NEW i \in DOMAIN w.members
      PROVE  /\ i \in Nat \ {0}
             /\ w.members[i] \in Tasks /\ w.members[i] \in ToSet(w.members)
             /\ w.got[i] \in Gots
  <2>1. i \in 1 .. Len(w.members) /\ i \in 1 .. Len(w.got)
    BY <1>2, <1>4
  <2>2. w.members[i] \in Tasks /\ w.got[i] \in Gots
    BY <1>3, <2>1, ElementOfSeq
  <2> QED
    BY <1>4, <2>1, <2>2 DEF ToSet
<1>6. \A t \in ToSet(w.members) : task[t].is = "open" /\ t \notin Waiters(group)
    BY DEF CompanyOK, Travellers
<1>7. \A v \in trips : v # w => ToSet(v.members) \cap ToSet(w.members) = {}
    BY DEF CompanyOK, TripsOK
<1>8. \A i, j \in DOMAIN w.members : w.members[i] = w.members[j] => i = j
    BY <1>2 DEF IsInjective
<1> QED
    BY <1>2, <1>3, <1>4, <1>5, <1>6, <1>7, <1>8

LEMMA AfterFacts ==
    ASSUME NEW w \in TripTypes, NEW got \in Seq(Gots)
    PROVE  LET a == [w EXCEPT !.got = got, !.batch = FALSE]
           IN  a \in TripTypes /\ a.members = w.members /\ a.got = got /\ ~a.batch
<1> DEFINE b == [w EXCEPT !.got = got]
           a == [b EXCEPT !.batch = FALSE]
<1>1. b \in TripTypes /\ b.members = w.members /\ b.got = got
    BY DEF TripTypes
<1> HIDE DEF b
<1>2. a \in TripTypes /\ a.members = b.members /\ a.got = b.got /\ ~a.batch
    BY <1>1 DEF TripTypes
<1>3. a = [w EXCEPT !.got = got, !.batch = FALSE]
    BY DEF b
<1> HIDE DEF a
<1> QED
    BY <1>1, <1>2, <1>3

LEMMA ProceedsKeeps ==
    ASSUME TasksOK, CompanyOK, PaidOK, NEW w \in trips, NEW got \in Seq(Gots),
           Len(got) = Len(w.members),
           \A i \in DOMAIN w.members : OwnIfGood(got[i], w.members[i]),
           Proceeds(w, got), group' = group,
           paid' \subseteq paid \cup ToSet(w.members),
           \A i \in DOMAIN w.members : w.members[i] \in paid' => got[i].is \in Good
    PROVE  TasksOK' /\ CompanyOK' /\ PaidOK' /\ Decides
<1> DEFINE after == [w EXCEPT !.got = got, !.batch = FALSE]
           over == \A i \in DOMAIN got : got[i].is \in Outcomes
           at(t) == CHOOSE i \in DOMAIN got : w.members[i] = t
<1>1. /\ w \in TripTypes /\ w.members \in Seq(Tasks)
      /\ \A i \in DOMAIN w.members : /\ w.members[i] \in Tasks /\ w.members[i] \in ToSet(w.members)
                                     /\ task[w.members[i]].is = "open"
                                     /\ w.members[i] \notin Waiters(group)
      /\ \A i, j \in DOMAIN w.members : w.members[i] = w.members[j] => i = j
      /\ \A v \in trips : v # w => ToSet(v.members) \cap ToSet(w.members) = {}
    BY TripFacts
<1>2. DOMAIN got = DOMAIN w.members /\ \A i \in DOMAIN got : got[i] \in Gots
  <2>1. DOMAIN got = 1 .. Len(got) /\ DOMAIN w.members = 1 .. Len(w.members)
    BY <1>1, LenProperties
  <2> QED
    BY <2>1, ElementOfSeq
<1>3. \A t \in ToSet(w.members) : \E i \in DOMAIN w.members : w.members[i] = t
    BY DEF ToSet
<1>4. TasksOK /\ task \in [Tasks -> TaskTypes] /\ \A t \in Tasks : OwnIfGood(task[t], t)
    BY DEF TasksOK
<1>5. /\ trips' = (trips \ {w}) \cup (IF over THEN {} ELSE {after})
      /\ task' = IF ~over THEN task
                 ELSE [t \in Tasks |-> IF \E i \in DOMAIN got : w.members[i] = t THEN got[at(t)] ELSE task[t]]
    BY DEF Proceeds
<1>6. ToSet(w.members) \subseteq Travellers(trips) /\ Travellers(trips \ {w}) \subseteq Travellers(trips)
    BY DEF Travellers
<1>7. Travellers(trips \ {w}) \cap ToSet(w.members) = {}
    BY <1>1 DEF Travellers
<1>8. TripsOK(trips \ {w})
    BY DEF CompanyOK, TripsOK
<1>9. \A t : ArrivesIn(t, trips) => ArrivesIn(t, trips \ {w})
    BY DEF ArrivesIn
<1>10. CASE ~over
  <2>1. trips' = (trips \ {w}) \cup {after} /\ task' = task
    BY <1>5, <1>10
  <2>2. after \in TripTypes /\ after.members = w.members /\ after.got = got /\ ~after.batch
    BY <1>1, AfterFacts
  <2> HIDE DEF after, over, at
  <2>3. TripOK(w)
    BY DEF CompanyOK, TripsOK
  <2>4. TripOK(after)
    BY <1>2, <2>2, <2>3 DEF TripOK
  <2>5. TripsOK(trips')
    <3>1. \A v \in trips \ {w} : ToSet(v.members) \cap ToSet(after.members) = {}
      BY <1>1, <2>2
    <3> QED
      BY <1>8, <2>1, <2>4, <3>1 DEF TripsOK
  <2>6. Travellers(trips') \subseteq Travellers(trips)
    BY <1>6, <2>1, <2>2 DEF Travellers
  <2>7. CompanyOK'
    BY <2>1, <2>5, <2>6 DEF CompanyOK
  <2>8. ASSUME NEW t \in paid'
        PROVE  \/ task'[t].is \in Good
               \/ task'[t].is = "open" /\ t \notin Waiters(group') /\ ArrivesIn(t, trips')
    <3>1. CASE t \in ToSet(w.members)
      <4>1. PICK i \in DOMAIN w.members : w.members[i] = t
        BY <1>3, <3>1
      <4>2. \A j \in DOMAIN after.members : after.members[j] = t => after.got[j].is \in Good
        BY <2>2, <2>8
      <4>3. \A v \in trips \ {w} : \A j \in DOMAIN v.members : v.members[j] # t
        <5>1. \A v \in trips \ {w} : t \notin ToSet(v.members)
          BY <1>1, <3>1
        <5> QED
          BY <5>1 DEF ToSet
      <4>4. ArrivesIn(t, trips')
        BY <2>1, <4>2, <4>3 DEF ArrivesIn
      <4> QED
        BY <1>1, <2>1, <4>1, <4>4
    <3>2. CASE t \notin ToSet(w.members)
      <4>1. t \in paid
        BY <2>8, <3>2
      <4>2. \A j \in DOMAIN after.members : after.members[j] # t
        BY <2>2, <3>2 DEF ToSet
      <4>3. ArrivesIn(t, trips) => ArrivesIn(t, trips')
        BY <1>9, <2>1, <4>2 DEF ArrivesIn
      <4> QED
        BY <2>1, <4>1, <4>3 DEF PaidOK
    <3> QED
      BY <3>1, <3>2
  <2>9. paid' \subseteq Tasks
    BY <1>1, <1>3 DEF PaidOK
  <2>10. PaidOK'
    BY <2>8, <2>9 DEF PaidOK
  <2>11. TasksOK' /\ Decides
    BY <2>1 DEF TasksOK, Decides
  <2> QED
    BY <2>7, <2>10, <2>11
<1>11. CASE over
  <2>1. /\ trips' = trips \ {w}
        /\ task' = [t \in Tasks |-> IF \E i \in DOMAIN got : w.members[i] = t THEN got[at(t)] ELSE task[t]]
    BY <1>5, <1>11
  <2>2. \A i \in DOMAIN w.members : at(w.members[i]) = i
    BY <1>1, <1>2
  <2>3. \A i \in DOMAIN w.members : task'[w.members[i]] = got[i] /\ got[i].is \in Outcomes
    BY <1>1, <1>2, <1>11, <2>1, <2>2
  <2>4. \A t \in Tasks \ ToSet(w.members) : task'[t] = task[t]
    BY <1>1, <1>2, <2>1
  <2>5. task' = [t \in Tasks |-> task'[t]]
    BY <2>1
  <2> HIDE DEF after, over, at
  <2>6. \A i \in DOMAIN got : got[i].is \in Outcomes => got[i] \in TaskTypes
  <3> SUFFICES ASSUME NEW i \in DOMAIN got, got[i].is \in Outcomes PROVE got[i] \in TaskTypes
    OBVIOUS
  <3>1. got[i] = [is |-> got[i].is, of |-> got[i].of] /\ got[i].of \in Nat
    BY <1>2 DEF Gots
  <3> QED
    BY <3>1 DEF TaskTypes
  <2>7. ASSUME NEW t \in Tasks
        PROVE  task'[t] \in TaskTypes /\ OwnIfGood(task'[t], t)
    BY <1>2, <1>3, <1>4, <2>3, <2>4, <2>6
  <2>8. task' \in [Tasks -> TaskTypes]
    BY <2>5, <2>7
  <2>9. ASSUME NEW t \in Static PROVE task'[t].is \in {"idle", "success"}
    <3>1. t \in Tasks /\ task[t].is \in {"idle", "success"}
      BY ExtractionAssumption DEF ExtractionAssumption, TasksOK
    <3>2. t \notin ToSet(w.members)
      BY <1>1, <1>3, <3>1
    <3> QED
      BY <2>4, <3>1, <3>2
  <2>10. TasksOK'
    BY <2>7, <2>8, <2>9 DEF TasksOK
  <2>11. Travellers(trips') \subseteq Travellers(trips) /\ Travellers(trips') \cap ToSet(w.members) = {}
    BY <1>6, <1>7, <2>1
  <2>12. Waiters(group) \cap ToSet(w.members) = {}
    BY <1>1, <1>3
  <2>13. Waiters(group) \subseteq Tasks /\ Travellers(trips') \subseteq Tasks
    <3>1. \A k \in Keys : ToSet(group[k]) \subseteq Tasks
      BY ElementOfSeq DEF CompanyOK, GroupsOK, GroupOK, ToSet
    <3>2. \A v \in trips : ToSet(v.members) \subseteq Tasks
      BY TripFacts DEF ToSet
    <3> QED
      BY <2>1, <3>1, <3>2 DEF Waiters, Travellers
  <2>14. \A t \in Waiters(group) \cup Travellers(trips') : task'[t].is = "open"
    BY <2>4, <2>11, <2>12, <2>13 DEF CompanyOK
  <2>15. CompanyOK'
    BY <1>8, <2>1, <2>11, <2>14 DEF CompanyOK
  <2>16. ASSUME NEW t \in paid'
         PROVE  \/ task'[t].is \in Good
                \/ task'[t].is = "open" /\ t \notin Waiters(group') /\ ArrivesIn(t, trips')
    <3>1. CASE t \in ToSet(w.members)
      BY <1>3, <2>3, <2>16, <3>1
    <3>2. CASE t \notin ToSet(w.members)
      BY <1>9, <2>1, <2>4, <2>16, <3>2 DEF PaidOK
    <3> QED
      BY <3>1, <3>2
  <2>17. paid' \subseteq Tasks
    BY <1>1, <1>3 DEF PaidOK
  <2>18. PaidOK'
    BY <2>16, <2>17 DEF PaidOK
  <2>19. Decides
    <3> SUFFICES ASSUME NEW t \in Tasks, task'[t] # task[t]
                 PROVE  task[t].is = "open" /\ task'[t].is \in Outcomes /\ t \in Travellers(trips)
      BY DEF Decides
    <3>1. t \in ToSet(w.members)
      BY <2>4
    <3> QED
      BY <1>1, <1>3, <1>6, <2>3, <3>1
  <2> QED
    BY <2>10, <2>15, <2>18, <2>19
<1> QED
    BY <1>10, <1>11

LEMMA PaidInTrip ==
    ASSUME CompanyOK, PaidOK, NEW w \in trips, NEW i \in DOMAIN w.members, w.members[i] \in paid
    PROVE  w.got[i].is \in Good
<1>1. task[w.members[i]].is = "open"
    BY TripFacts
<1> QED
    BY <1>1 DEF PaidOK, ArrivesIn, Good

LEMMA OutcomeFacts ==
    ASSUME NEW t \in Tasks, NEW s \in Outcomes
    PROVE  Outcome(s, t) \in Gots /\ Outcome(s, t).is = s /\ OwnIfGood(Outcome(s, t), t)
<1>1. t \in Nat
    BY TaskSets
<1> QED
    BY <1>1 DEF Outcome, Gots, OwnIfGood

LEMMA IsFacts ==
    ASSUME NEW s \in {"primary", "fallback", "failed", "deferred"}
    PROVE  Is(s) \in Gots /\ Is(s).is = s /\ \A t : OwnIfGood(Is(s), t)
BY DEF Is, None, Gots, OwnIfGood, Good, Outcomes

LEMMA VerdictFacts == \A ts : Verdicts(ts) \subseteq Good /\ Good \subseteq Outcomes
BY DEF Verdicts, Good, Outcomes

LEMMA BatchKeeps ==
    ASSUME TasksOK, CompanyOK, PaidOK, NEW w \in trips, BatchEnds(w)
    PROVE  TasksOK' /\ CompanyOK' /\ PaidOK' /\ Decides
<1> DEFINE D == DOMAIN w.members
<1>1. /\ D = 1 .. Len(w.members) /\ Len(w.members) \in Nat
      /\ \A i \in D : i \in Nat \ {0} /\ w.members[i] \in Tasks /\ w.members[i] \in ToSet(w.members)
      /\ \A i, j \in D : w.members[i] = w.members[j] => i = j
      /\ DOMAIN w.got = D
    BY TripFacts
<1>2. w.batch /\ group' = group
    BY DEF BatchEnds
<1>3. \A i \in D : w.got[i].is = "batched"
    BY <1>1, <1>2 DEF CompanyOK, TripsOK, TripOK
<1>4. \A i \in D : w.members[i] \notin paid
    BY <1>3, PaidInTrip DEF Good
<1>5. CASE BatchFailed(w)
  <2>1. PICK s \in {"primary", "deferred", "failed"} : Proceeds(w, [i \in D |-> Is(s)])
    BY <1>5 DEF BatchFailed
  <2> DEFINE got == [i \in D |-> Is(s)]
  <2>2. paid' = paid
    BY <1>5 DEF BatchFailed
  <2>3. Is(s) \in Gots /\ \A t : OwnIfGood(Is(s), t)
    BY IsFacts
  <2>4. got \in Seq(Gots) /\ Len(got) = Len(w.members)
    BY <1>1, <2>3, IsASeq
  <2>5. \A i \in D : OwnIfGood(got[i], w.members[i])
    BY <2>3
  <2>6. Proceeds(w, got)
    BY <2>1
  <2> HIDE DEF got
  <2> QED
    BY <1>2, <1>4, <2>2, <2>4, <2>5, <2>6, ProceedsKeeps
<1>6. CASE BatchAnswered(w)
  <2>1. PICK r \in Responses(w), verdict \in [D -> Verdicts(ToSet(w.members))] :
            /\ Proceeds(w, [i \in D |-> IF Section(r, i) = None THEN Is("primary")
                                        ELSE Outcome(verdict[i], w.members[Section(r, i)])])
            /\ paid' = paid \cup {w.members[i] : i \in D \cap ToSet(r)}
    BY <1>6 DEF BatchAnswered
  <2> DEFINE got == [i \in D |-> IF Section(r, i) = None THEN Is("primary")
                                 ELSE Outcome(verdict[i], w.members[Section(r, i)])]
             own(i) == Outcome(verdict[i], w.members[i])
  <2>2. \A i \in D : got[i] = IF i \in ToSet(r) THEN own(i) ELSE Is("primary")
    BY <1>1 DEF Section, None
  <2>3. \A i \in D : verdict[i] \in Good /\ verdict[i] \in Outcomes
    BY VerdictFacts
  <2>4. \A i \in D : own(i) \in Gots /\ own(i).is \in Good /\ OwnIfGood(own(i), w.members[i])
    BY <1>1, <2>3, OutcomeFacts
  <2>5. Is("primary") \in Gots /\ \A t : OwnIfGood(Is("primary"), t)
    BY IsFacts
  <2>6. DOMAIN got = D /\ got = [i \in D |-> got[i]]
    OBVIOUS
  <2>7. Proceeds(w, got) /\ paid' = paid \cup {w.members[i] : i \in D \cap ToSet(r)}
    BY <2>1
  <2> HIDE DEF got, own
  <2>8. \A i \in D : got[i] \in Gots /\ OwnIfGood(got[i], w.members[i])
    BY <2>2, <2>4, <2>5
  <2>9. got \in Seq(Gots) /\ Len(got) = Len(w.members)
    <3> DEFINE again == [i \in 1 .. Len(w.members) |-> got[i]]
    <3>1. again \in Seq(Gots) /\ Len(again) = Len(w.members)
      BY <1>1, <2>8
    <3>2. got = again
      BY <1>1, <2>6
    <3> HIDE DEF again
    <3> QED
      BY <3>1, <3>2
  <2>10. ASSUME NEW i \in D, w.members[i] \in paid' PROVE got[i].is \in Good
    <3>1. PICK j \in D \cap ToSet(r) : w.members[i] = w.members[j]
      BY <1>4, <2>7, <2>10
    <3>2. i = j
      BY <1>1, <3>1
    <3> QED
      BY <2>2, <2>4, <3>1, <3>2
  <2>11. paid' \subseteq paid \cup ToSet(w.members)
    BY <1>1, <2>7
  <2> QED
    BY <1>2, <2>7, <2>8, <2>9, <2>10, <2>11, ProceedsKeeps
<1> QED
    BY <1>5, <1>6 DEF BatchEnds

LEMMA SingleKeeps ==
    ASSUME TasksOK, CompanyOK, PaidOK, NEW w \in trips, NEW i \in DOMAIN w.members, SingleEnds(w, i)
    PROVE  TasksOK' /\ CompanyOK' /\ PaidOK' /\ Decides
<1> DEFINE D == DOMAIN w.members
           t == w.members[i]
<1>1. /\ w.got \in Seq(Gots) /\ DOMAIN w.got = D
      /\ \A j \in D : /\ j \in Nat \ {0} /\ w.members[j] \in Tasks
                      /\ w.members[j] \in ToSet(w.members) /\ w.got[j] \in Gots
      /\ \A j, k \in D : w.members[j] = w.members[k] => j = k
    BY TripFacts
<1>2. w.got[i].is \in {"primary", "fallback"} /\ group' = group
    BY DEF SingleEnds
<1>3. Len(w.got) = Len(w.members) /\ \A j \in D : OwnIfGood(w.got[j], w.members[j])
    BY <1>1 DEF CompanyOK, TripsOK, TripOK
<1>4. ASSUME NEW o \in Gots, OwnIfGood(o, t), Proceeds(w, [w.got EXCEPT ![i] = o]),
             paid' \subseteq paid \cup ToSet(w.members),
             paid' = paid \/ (o.is \in Good /\ paid' = paid \cup {t})
      PROVE  TasksOK' /\ CompanyOK' /\ PaidOK' /\ Decides
  <2> DEFINE got == [w.got EXCEPT ![i] = o]
  <2>1. got \in Seq(Gots) /\ Len(got) = Len(w.got)
    BY <1>1, ExceptSeq
  <2>2. \A j \in D : got[j] = IF j = i THEN o ELSE w.got[j]
    BY <1>1
  <2>3. Proceeds(w, got)
    BY <1>4
  <2> HIDE DEF got
  <2>4. \A j \in D : OwnIfGood(got[j], w.members[j])
    BY <1>3, <1>4, <2>2
  <2>5. ASSUME NEW j \in D, w.members[j] \in paid' PROVE got[j].is \in Good
    <3>1. CASE j = i
      <4>1. t \notin paid
        BY <1>2, PaidInTrip DEF Good
      <4> QED
        BY <1>4, <2>2, <2>5, <3>1, <4>1
    <3>2. CASE j # i
      <4>1. w.members[j] \in paid
        BY <1>1, <1>4, <2>5, <3>2
      <4> QED
        BY <2>2, <3>2, <4>1, PaidInTrip
    <3> QED
      BY <3>1, <3>2
  <2> QED
    BY <1>2, <1>3, <1>4, <2>1, <2>3, <2>4, <2>5, ProceedsKeeps
<1>5. CASE Answered(w, i)
  <2>1. PICK verdict \in Verdicts({t}) : /\ Proceeds(w, [w.got EXCEPT ![i] = Outcome(verdict, t)])
                                         /\ paid' = paid \cup {t}
    BY <1>5 DEF Answered
  <2>2. verdict \in Good /\ verdict \in Outcomes
    BY VerdictFacts
  <2>3. /\ Outcome(verdict, t) \in Gots /\ Outcome(verdict, t).is \in Good
        /\ OwnIfGood(Outcome(verdict, t), t)
    BY <1>1, <2>2, OutcomeFacts
  <2>4. paid' \subseteq paid \cup ToSet(w.members)
    BY <1>1, <2>1
  <2> QED
    BY <1>4, <2>1, <2>3, <2>4
<1>6. CASE NotAnswered(w, i)
  <2>1. PICK how \in DOMAIN After(w.got[i].is) : Proceeds(w, Isolated(w, i, After(w.got[i].is)[how]))
    BY <1>6 DEF NotAnswered
  <2> DEFINE s == After(w.got[i].is)[how]
  <2>2. s \in {"primary", "fallback", "failed", "deferred"}
    BY <1>2 DEF After
  <2>3. Proceeds(w, [w.got EXCEPT ![i] = Is(s)])
    BY <2>1 DEF Isolated
  <2>4. paid' = paid
    BY <1>6 DEF NotAnswered
  <2> HIDE DEF s
  <2>5. Is(s) \in Gots /\ OwnIfGood(Is(s), t)
    BY <2>2, IsFacts
  <2> QED
    BY <1>4, <2>3, <2>4, <2>5
<1> QED
    BY <1>5, <1>6 DEF SingleEnds

LEMMA EndsKeepCompany ==
    ASSUME TasksOK, CompanyOK, PaidOK, NEW t \in Tasks, Ends(t)
    PROVE  TasksOK' /\ CompanyOK' /\ PaidOK' /\ Decides
BY BatchKeeps, SingleKeeps DEF Ends

\* A trip that breaks off leaves its functions open.
LEMMA UnauthorizedKeepsCompany ==
    ASSUME TasksOK, CompanyOK, PaidOK, NEW w \in trips, Unauthorized(w)
    PROVE  TasksOK' /\ CompanyOK' /\ PaidOK'
<1>1. trips' = trips \ {w} /\ task' = task /\ group' = group /\ paid' = paid
    BY DEF Unauthorized
<1>2. Travellers(trips') \subseteq Travellers(trips)
    BY <1>1 DEF Travellers
<1>3. \A t : ArrivesIn(t, trips) => ArrivesIn(t, trips')
    BY <1>1 DEF ArrivesIn
<1>4. TripsOK(trips')
    BY <1>1 DEF CompanyOK, TripsOK
<1>5. CompanyOK'
    BY <1>1, <1>2, <1>4 DEF CompanyOK
<1>6. PaidOK'
    BY <1>1, <1>3 DEF PaidOK
<1> QED
    BY <1>1, <1>5, <1>6 DEF TasksOK

--------------------------------------------------------------------------------
\* Files.

LEMMA ChunkFacts ==
    ASSUME NEW f \in Files
    PROVE  /\ Len(ChunksOf[f]) \in Nat \ {0} /\ DOMAIN ChunksOf[f] = 1 .. Len(ChunksOf[f])
           /\ \A c \in DOMAIN ChunksOf[f] : ChunksOf[f][c] \in SUBSET Tasks
<1>1. ChunksOf[f] \in Seq(SUBSET Tasks) /\ ChunksOf[f] # <<>>
    BY ExtractionAssumption DEF ExtractionAssumption
<1>2. Len(ChunksOf[f]) \in Nat /\ DOMAIN ChunksOf[f] = 1 .. Len(ChunksOf[f])
    BY <1>1, LenProperties
<1>3. Len(ChunksOf[f]) # 0
    BY <1>1, EmptySeq
<1>4. \A c \in DOMAIN ChunksOf[f] : ChunksOf[f][c] \in SUBSET Tasks
    BY <1>1, <1>2, ElementOfSeq
<1> QED
    BY <1>2, <1>3, <1>4

LEMMA FilesStay ==
    ASSUME FilesOK, phase' = phase, chunk' = chunk,
           \A t \in Tasks : task'[t].is = "idle" <=> task[t].is = "idle"
    PROVE  FilesOK'
<1>1. ASSUME NEW f \in Files PROVE FileOK(f)'
  <2>1. FileOK(f)
    BY DEF FilesOK
  <2> QED
    BY <2>1, ChunkFacts DEF FileOK
<1> QED
    BY <1>1 DEF FilesOK

\* A file is over: by its last call, by a signal or by a refused key.
LEMMA FilesOver ==
    ASSUME FilesOK, NEW fs, phase' = [f \in Files |-> IF f \in fs THEN "over" ELSE phase[f]],
           chunk' = chunk, task' = task
    PROVE  FilesOK'
<1>1. ASSUME NEW f \in Files PROVE FileOK(f)' /\ phase'[f] \in {"queued", "calling", "between", "over"}
  <2>1. FileOK(f)
    BY DEF FilesOK
  <2>2. phase'[f] = "over" \/ phase'[f] = phase[f]
    OBVIOUS
  <2> QED
    BY <2>1, <2>2 DEF FileOK
<1> QED
    BY <1>1 DEF FilesOK

LEMMA OneFileOver ==
    ASSUME FilesOK, NEW f \in Files, phase' = [phase EXCEPT ![f] = "over"], chunk' = chunk, task' = task
    PROVE  FilesOK'
<1>1. phase' = [g \in Files |-> IF g \in {f} THEN "over" ELSE phase[g]]
    BY DEF FilesOK
<1> QED
    BY <1>1, FilesOver

LEMMA CallFacts ==
    ASSUME IInv, NEW f \in Files, phase[f] \in {"queued", "between"}, Call(f)
    PROVE  LET c == chunk[f] + 1
           IN  /\ TasksOK' /\ CompanyOK' /\ PaidOK' /\ FilesOK'
               /\ c \in DOMAIN ChunksOf[f]
               /\ phase'[f] = "calling" /\ chunk'[f] = c
               /\ \A g \in Files \ {f} : phase'[g] = phase[g] /\ chunk'[g] = chunk[g]
               /\ \A t \in Tasks \ ChunksOf[f][c] : task'[t] = task[t]
               /\ \A t \in ChunksOf[f][c] : t \in Tasks /\ task[t].is = "idle" /\ task'[t].is \in {"open", "success"}
<1> DEFINE c == chunk[f] + 1
           ts == ChunksOf[f][c]
<1>1. FileOK(f) /\ phase \in [Files -> {"queued", "calling", "between", "over"}] /\ chunk \in [Files -> Nat]
    BY DEF IInv, FilesOK
<1>2. Len(ChunksOf[f]) \in Nat \ {0} /\ DOMAIN ChunksOf[f] = 1 .. Len(ChunksOf[f])
    BY ChunkFacts
<1>3. c \in DOMAIN ChunksOf[f]
    BY <1>1, <1>2 DEF FileOK
<1>4. /\ phase' = [phase EXCEPT ![f] = "calling"] /\ chunk' = [chunk EXCEPT ![f] = c]
      /\ CallFor(ts)
    BY <1>1 DEF Call
<1>5. phase'[f] = "calling" /\ chunk'[f] = c
    BY <1>1, <1>4
<1>6. \A g \in Files \ {f} : phase'[g] = phase[g] /\ chunk'[g] = chunk[g]
    BY <1>1, <1>4
<1>7. ts \in SUBSET Tasks
    BY <1>3, ChunkFacts
<1>8. chunk[f] \in Nat /\ c > chunk[f]
    BY <1>1
<1>9. \A t \in ts : t \in Tasks /\ task[t].is = "idle"
    BY <1>1, <1>3, <1>7, <1>8 DEF FileOK
<1>10. Before(ts)
    BY <1>9 DEF Before
<1>11. TasksOK /\ CompanyOK /\ PaidOK
    BY DEF IInv
<1>12. task' = Opened(ts)
    BY <1>4 DEF CallFor
<1> HIDE DEF ts
<1>13. TasksOK' /\ CompanyOK' /\ PaidOK'
    BY <1>4, <1>7, <1>10, <1>11, CallKeepsCompany
<1>14. /\ \A t \in Tasks \ ts : task'[t] = task[t]
       /\ \A t \in ts : task'[t].is \in {"open", "success"}
    BY <1>7, <1>10, <1>11, <1>12, OpenedFacts
<1>15. ASSUME NEW g \in Files, NEW d \in DOMAIN ChunksOf[g], g # f \/ d # c
       PROVE  ChunksOf[g][d] \cap ts = {}
    BY <1>3, <1>15, ChunksAssumption DEF ChunksAssumption, ts
<1>16. ASSUME NEW g \in Files, NEW d \in DOMAIN ChunksOf[g], NEW t \in ChunksOf[g][d]
       PROVE  task'[t].is = "idle" <=> d > chunk'[g]
  <2>1. t \in Tasks /\ (task[t].is = "idle" <=> d > chunk[g])
    BY <1>16, ChunkFacts DEF IInv, FilesOK, FileOK
  <2>2. CASE g = f /\ d = c
    BY <1>5, <1>8, <1>14, <1>16, <2>2 DEF ts
  <2>3. CASE g = f /\ d # c
    <3>1. task'[t] = task[t]
      BY <1>14, <1>15, <2>1, <2>3
    <3>2. d \in Nat /\ (d > chunk[f] <=> d > c)
      BY <1>2, <1>8, <2>3
    <3> QED
      BY <1>5, <2>1, <2>3, <3>1, <3>2
  <2>4. CASE g # f
    <3>1. task'[t] = task[t]
      BY <1>14, <1>15, <2>1, <2>4
    <3> QED
      BY <1>6, <2>1, <2>4, <3>1
  <2> QED
    BY <2>2, <2>3, <2>4
<1>17. ASSUME NEW g \in Files PROVE FileOK(g)'
  <2>1. FileOK(g)
    BY DEF IInv, FilesOK
  <2>2. CASE g = f
    <3>1. chunk'[f] \in 1 .. Len(ChunksOf[f])
      BY <1>2, <1>3, <1>5
    <3> QED
      BY <1>2, <1>5, <1>16, <2>2, <3>1 DEF FileOK
  <2>3. CASE g # f
    BY <1>6, <1>16, <2>1, <2>3 DEF FileOK
  <2> QED
    BY <2>2, <2>3
<1>18. FilesOK'
  <2>1. c \in Nat
    BY <1>8
  <2>2. /\ phase' \in [Files -> {"queued", "calling", "between", "over"}]
        /\ chunk' \in [Files -> Nat]
    BY <1>1, <1>4, <2>1
  <2> QED
    BY <1>17, <2>2 DEF FilesOK
<1> QED
    BY <1>3, <1>5, <1>6, <1>9, <1>13, <1>14, <1>18 DEF ts

--------------------------------------------------------------------------------
\* The invariant is inductive, action by action.

LEMMA WorkStays ==
    ASSUME TasksOK, CompanyOK, PaidOK, UNCHANGED work
    PROVE  TasksOK' /\ CompanyOK' /\ PaidOK'
<1>1. task' = task /\ group' = group /\ trips' = trips /\ paid' = paid
    BY DEF work
<1> QED
    BY <1>1 DEF TasksOK, CompanyOK, PaidOK

LEMMA StartFileKeeps == ASSUME IInv, NEW f \in Files, StartFile(f) PROVE IInv'
<1>1. TasksOK /\ CompanyOK /\ PaidOK /\ FilesOK /\ RunOK
    BY DEF IInv
<1>2. CASE aborted
  <2>1. /\ phase' = [phase EXCEPT ![f] = "over"] /\ loop' = "broken" /\ chunk' = chunk
        /\ UNCHANGED work /\ retried' = retried /\ errors' = errors /\ aborted' = aborted
    BY <1>2 DEF StartFile
  <2>2. task' = task
    BY <2>1 DEF work
  <2> QED
    BY <1>1, <2>1, <2>2, WorkStays, OneFileOver DEF IInv, RunOK
<1>3. CASE ~aborted
  <2>1. phase[f] = "queued" /\ Call(f) /\ UNCHANGED run /\ aborted' = aborted
    BY <1>3 DEF StartFile
  <2> QED
    BY <1>1, <2>1, CallFacts DEF IInv, RunOK, run
<1> QED
    BY <1>2, <1>3

LEMMA NextChunkKeeps == ASSUME IInv, NEW f \in Files, NextChunk(f) PROVE IInv'
<1>1. TasksOK /\ CompanyOK /\ PaidOK /\ FilesOK /\ RunOK
    BY DEF IInv
<1>2. CASE aborted
  <2>1. /\ phase' = [phase EXCEPT ![f] = "over"] /\ errors' = TRUE /\ chunk' = chunk
        /\ UNCHANGED work /\ retried' = retried /\ loop' = loop /\ aborted' = aborted
    BY <1>2 DEF NextChunk
  <2>2. task' = task
    BY <2>1 DEF work
  <2> QED
    BY <1>1, <2>1, <2>2, WorkStays, OneFileOver DEF IInv, RunOK
<1>3. CASE ~aborted
  <2>1. phase[f] = "between" /\ Call(f) /\ UNCHANGED run /\ aborted' = aborted
    BY <1>3 DEF NextChunk
  <2> QED
    BY <1>1, <2>1, CallFacts DEF IInv, RunOK, run
<1> QED
    BY <1>2, <1>3

LEMMA ReturnKeeps == ASSUME IInv, NEW f \in Files, Return(f) PROVE IInv'
<1> DEFINE p == IF chunk[f] < Len(ChunksOf[f]) THEN "between" ELSE "over"
<1>1. TasksOK /\ CompanyOK /\ PaidOK /\ FilesOK /\ RunOK
    BY DEF IInv
<1>2. /\ phase[f] = "calling" /\ phase' = [phase EXCEPT ![f] = p]
      /\ chunk' = chunk /\ UNCHANGED work /\ loop' = loop /\ retried' = retried /\ aborted' = aborted
    BY DEF Return
<1>3. errors' \in BOOLEAN
  <2>1. errors' = (errors \/ \E t \in ChunksOf[f][chunk[f]] : task[t].is = "failed")
    BY DEF Return
  <2> QED
    BY <2>1, Zenon
<1>4. ASSUME NEW g \in Files PROVE FileOK(g)'
  <2>1. FileOK(g)
    BY <1>1 DEF FilesOK
  <2>2. phase'[g] = IF g = f THEN p ELSE phase[g]
    BY <1>1, <1>2 DEF FilesOK
  <2>3. task' = task
    BY <1>2 DEF work
  <2>4. Len(ChunksOf[g]) \in Nat
    BY ChunkFacts
  <2> QED
    BY <1>2, <2>1, <2>2, <2>3, <2>4 DEF FileOK
<1>5. phase' \in [Files -> {"queued", "calling", "between", "over"}] /\ chunk' \in [Files -> Nat]
    BY <1>1, <1>2 DEF FilesOK
<1>6. RunOK'
    BY <1>1, <1>2, <1>3 DEF RunOK
<1> QED
    BY <1>1, <1>2, <1>4, <1>5, <1>6, WorkStays DEF IInv, FilesOK

LEMMA EndFilesKeeps == ASSUME IInv, EndFiles PROVE IInv'
<1>1. TasksOK /\ CompanyOK /\ PaidOK /\ FilesOK /\ RunOK
    BY DEF IInv
<1>2. phase' = phase /\ chunk' = chunk /\ errors' = errors /\ aborted' = aborted
    BY DEF EndFiles, files
<1>3. CASE loop' \in {"done", "broken"} /\ UNCHANGED <<work, retried>>
  <2>1. task' = task /\ UNCHANGED work /\ retried' = retried
    BY <1>3 DEF work
  <2>2. FilesOK'
    BY <1>1, <1>2, <2>1, FilesStay
  <2> QED
    BY <1>1, <1>2, <1>3, <2>1, <2>2, WorkStays DEF IInv, RunOK
<1>4. CASE loop' = "drain" /\ retried' = With("deferred") /\ DrainFor(With("deferred"))
  <2> DEFINE ts == With("deferred")
  <2>1. ts \in SUBSET Tasks /\ Before(ts) /\ \A t \in ts : task[t].is = "deferred"
    BY DEF With, Before
  <2>2. DrainFor(ts) /\ task' = Opened(ts)
    BY <1>4 DEF DrainFor
  <2>3. retried' = ts
    BY <1>4
  <2> HIDE DEF ts
  <2>4. TasksOK' /\ CompanyOK' /\ PaidOK'
    BY <1>1, <2>1, <2>2, DrainKeepsCompany
  <2>5. /\ \A t \in Tasks \ ts : task'[t] = task[t]
        /\ \A t \in ts : task'[t].is \in {"open", "success"}
    BY <1>1, <2>1, <2>2, OpenedFacts
  <2>6. \A t \in Tasks : task'[t].is = "idle" <=> task[t].is = "idle"
    BY <2>1, <2>5
  <2>7. FilesOK'
    BY <1>1, <1>2, <2>6, FilesStay
  <2> QED
    BY <1>1, <1>2, <1>4, <2>1, <2>3, <2>4, <2>7 DEF IInv, RunOK
<1> QED
    BY <1>3, <1>4 DEF EndFiles

LEMMA EndDrainKeeps == ASSUME IInv, EndDrain PROVE IInv'
<1>1. TasksOK /\ CompanyOK /\ PaidOK /\ FilesOK /\ RunOK
    BY DEF IInv
<1>2. /\ loop' = "done" /\ phase' = phase /\ chunk' = chunk /\ UNCHANGED work
      /\ retried' = retried /\ aborted' = aborted /\ task' = task
    BY DEF EndDrain, files, work
<1>3. errors' \in BOOLEAN
  <2>1. errors' = (errors \/ Unsolved)
    BY DEF EndDrain
  <2> QED
    BY <2>1, Zenon
<1>4. FilesOK'
    BY <1>1, <1>2, FilesStay
<1>5. RunOK'
    BY <1>1, <1>2, <1>3 DEF RunOK
<1> QED
    BY <1>1, <1>2, <1>4, <1>5, WorkStays DEF IInv

LEMMA FlushKeeps == ASSUME IInv, NEW k \in Keys, Flush(k) PROVE IInv'
<1>1. TasksOK /\ CompanyOK /\ PaidOK /\ FilesOK /\ RunOK
    BY DEF IInv
<1>2. /\ phase' = phase /\ chunk' = chunk /\ loop' = loop /\ task' = task
      /\ retried' = retried /\ errors' = errors /\ aborted' = aborted
    BY DEF Flush, files, run
<1>3. FilesOK'
    BY <1>1, <1>2, FilesStay
<1>4. RunOK'
    BY <1>1, <1>2 DEF RunOK
<1> QED
    BY <1>1, <1>3, <1>4, FlushKeepsCompany DEF IInv

LEMMA EndsKeep == ASSUME IInv, NEW t \in Tasks, Ends(t) PROVE IInv'
<1>1. TasksOK /\ CompanyOK /\ PaidOK /\ FilesOK /\ RunOK
    BY DEF IInv
<1>2. /\ phase' = phase /\ chunk' = chunk /\ loop' = loop
      /\ retried' = retried /\ errors' = errors /\ aborted' = aborted
    BY DEF Ends, BatchEnds, SingleEnds, files, run
<1>3. TasksOK' /\ CompanyOK' /\ PaidOK' /\ Decides
    BY <1>1, EndsKeepCompany
<1>4. \A u \in Tasks : task'[u].is = "idle" <=> task[u].is = "idle"
    BY <1>3 DEF Decides, Outcomes
<1>5. FilesOK'
    BY <1>1, <1>2, <1>4, FilesStay
<1>6. RunOK'
    BY <1>1, <1>2 DEF RunOK
<1> QED
    BY <1>3, <1>5, <1>6 DEF IInv

LEMMA UnauthorizedKeeps == ASSUME IInv, NEW w \in trips, Unauthorized(w) PROVE IInv'
<1>1. TasksOK /\ CompanyOK /\ PaidOK /\ FilesOK /\ RunOK
    BY DEF IInv
<1>2. /\ phase' = [f \in Files |-> IF f \in Callers(w) THEN "over" ELSE phase[f]]
      /\ loop' = "broken" /\ chunk' = chunk /\ task' = task
      /\ retried' = retried /\ errors' = errors /\ aborted' = aborted
    BY DEF Unauthorized
<1>3. FilesOK'
    BY <1>1, <1>2, FilesOver
<1>4. RunOK'
    BY <1>1, <1>2 DEF RunOK
<1> QED
    BY <1>1, <1>3, <1>4, UnauthorizedKeepsCompany DEF IInv

LEMMA AbortKeeps == ASSUME IInv, Abort PROVE IInv'
<1>1. TasksOK /\ CompanyOK /\ PaidOK /\ FilesOK /\ RunOK
    BY DEF IInv
<1>2. /\ phase' = phase /\ chunk' = chunk /\ loop' = loop /\ UNCHANGED work /\ task' = task
      /\ retried' = retried /\ errors' = errors /\ aborted' = TRUE
    BY DEF Abort, files, run, work
<1>3. FilesOK'
    BY <1>1, <1>2, FilesStay
<1>4. RunOK'
    BY <1>1, <1>2 DEF RunOK
<1> QED
    BY <1>1, <1>2, <1>3, <1>4, WorkStays DEF IInv

LEMMA StutterKeeps == ASSUME IInv, UNCHANGED vars PROVE IInv'
<1>1. TasksOK /\ CompanyOK /\ PaidOK /\ FilesOK /\ RunOK
    BY DEF IInv
<1>2. /\ phase' = phase /\ chunk' = chunk /\ loop' = loop /\ UNCHANGED work /\ task' = task
      /\ retried' = retried /\ errors' = errors /\ aborted' = aborted
    BY DEF vars, files, run, work
<1>3. FilesOK'
    BY <1>1, <1>2, FilesStay
<1>4. RunOK'
    BY <1>1, <1>2 DEF RunOK
<1> QED
    BY <1>1, <1>2, <1>3, <1>4, WorkStays DEF IInv

LEMMA StepKeepsIInv == IInv /\ [Next]_vars => IInv'
<1> SUFFICES ASSUME IInv, [Next]_vars PROVE IInv'
    OBVIOUS
<1>1. CASE LoopStep
    BY <1>1, StartFileKeeps, NextChunkKeeps, ReturnKeeps, EndFilesKeeps, EndDrainKeeps DEF LoopStep
<1>2. CASE \E k \in Keys : Flush(k)
    BY <1>2, FlushKeeps
<1>3. CASE \E t \in Tasks : Ends(t)
    BY <1>3, EndsKeep
<1>4. CASE \E w \in trips : Unauthorized(w)
    BY <1>4, UnauthorizedKeeps
<1>5. CASE Abort
    BY <1>5, AbortKeeps
<1>6. CASE UNCHANGED vars
    BY <1>6, StutterKeeps
<1> QED
    BY <1>1, <1>2, <1>3, <1>4, <1>5, <1>6 DEF Next

LEMMA InitIsFine == Init => IInv
<1> SUFFICES ASSUME Init PROVE IInv
    OBVIOUS
<1>1. /\ phase = [f \in Files |-> "queued"] /\ chunk = [f \in Files |-> 0]
      /\ task = [t \in Tasks |-> Is("idle")] /\ group = [k \in Keys |-> <<>>] /\ trips = {}
      /\ loop = "files" /\ retried = {} /\ errors = FALSE /\ paid = {} /\ aborted = FALSE
    BY DEF Init
<1>2. Is("idle") \in TaskTypes /\ Is("idle").is = "idle"
    BY DEF Is, None, TaskTypes
<1>3. Static \subseteq Tasks
    BY ExtractionAssumption DEF ExtractionAssumption
<1>4. TasksOK
    BY <1>1, <1>2, <1>3 DEF TasksOK, OwnIfGood, Good
<1>5. \A k \in Keys : GroupOK(<<>>, k) /\ ToSet(<<>>) = {}
    BY BatchSize DEF GroupOK, IsInjective, ToSet
<1>6. GroupsOK(group) /\ Waiters(group) = {}
    BY <1>1, <1>5 DEF GroupsOK, Waiters
<1>7. TripsOK(trips) /\ Travellers(trips) = {}
    BY <1>1 DEF TripsOK, Travellers
<1>8. CompanyOK /\ PaidOK
    BY <1>1, <1>6, <1>7 DEF CompanyOK, PaidOK
<1>9. ASSUME NEW f \in Files PROVE FileOK(f)
  <2>1. Len(ChunksOf[f]) \in Nat \ {0} /\ DOMAIN ChunksOf[f] = 1 .. Len(ChunksOf[f])
    BY ChunkFacts
  <2>2. \A c \in DOMAIN ChunksOf[f] : \A t \in ChunksOf[f][c] : task[t].is = "idle" /\ c > 0
    BY <1>1, <1>2, <2>1, ChunkFacts
  <2> QED
    BY <1>1, <2>1, <2>2 DEF FileOK
<1>10. FilesOK
    BY <1>1, <1>9 DEF FilesOK
<1>11. RunOK
    BY <1>1 DEF RunOK
<1> QED
    BY <1>4, <1>8, <1>10, <1>11 DEF IInv

--------------------------------------------------------------------------------
\* The two invariants of the runs.

\* Whoever is in one place only counts once there.
LEMMA OnceAtMost ==
    ASSUME NEW S, NEW P, \A x \in P : x \in S, \A x, y \in P : x = y
    PROVE  /\ P = {} => Cardinality(P) = 0
           /\ P # {} => Cardinality(P) = 1
<1>1. P = {} => Cardinality(P) = 0
    BY FS_EmptySet
<1>2. ASSUME P # {} PROVE Cardinality(P) = 1
  <2>1. PICK x \in P : TRUE
    BY <1>2
  <2>2. P = {x}
    BY <2>1
  <2> QED
    BY <2>2, FS_Singleton
<1> QED
    BY <1>1, <1>2

LEMMA InOnePlace ==
    ASSUME CompanyOK, NEW t \in Tasks
    PROVE  /\ Waiting(t) \in {0, 1} /\ Trips(t) \in {0, 1}
           /\ Waiting(t) = 1 => t \in Waiters(group)
           /\ Trips(t) = 1 => t \in Travellers(trips)
<1> DEFINE P == {k \in Keys : t \in ToSet(group[k])}
           Q == {w \in trips : t \in ToSet(w.members)}
<1>1. Waiting(t) = Cardinality(P) /\ Trips(t) = Cardinality(Q)
    BY DEF Waiting, Trips
<1>2. \A k, l \in P : k = l
    BY DEF CompanyOK, GroupsOK, GroupOK
<1>3. \A v, w \in Q : v = w
    BY DEF CompanyOK, TripsOK
<1>4. P # {} => t \in Waiters(group)
    BY DEF Waiters
<1>5. Q # {} => t \in Travellers(trips)
    BY DEF Travellers
<1>6. (\A k \in P : k \in Keys) /\ (\A w \in Q : w \in trips)
    OBVIOUS
<1> HIDE DEF P, Q
<1>7. P = {} => Cardinality(P) = 0
    BY <1>2, <1>6, OnceAtMost
<1>8. P # {} => Cardinality(P) = 1
    BY <1>2, <1>6, OnceAtMost
<1>9. Q = {} => Cardinality(Q) = 0
    BY <1>3, <1>6, OnceAtMost
<1>10. Q # {} => Cardinality(Q) = 1
    BY <1>3, <1>6, OnceAtMost
<1> QED
    BY <1>1, <1>4, <1>5, <1>7, <1>8, <1>9, <1>10

LEMMA IInvIsTyped == IInv => TypeOK
<1> SUFFICES ASSUME IInv PROVE TypeOK
    OBVIOUS
<1>1. TasksOK /\ CompanyOK /\ PaidOK /\ FilesOK /\ RunOK
    BY DEF IInv
<1>2. \A t \in Tasks : task[t].is \in {"idle", "open"} \cup Outcomes
    BY <1>1 DEF TasksOK, TaskTypes
<1>3. \A k \in Keys : Len(group[k]) < MaxBatch /\ \A t \in ToSet(group[k]) : KeyOf[t] = k
    BY <1>1 DEF CompanyOK, GroupsOK, GroupOK
<1>4. \A w \in trips : Len(w.members) \in 1 .. MaxBatch /\ Len(w.got) = Len(w.members)
    BY <1>1 DEF CompanyOK, TripsOK, TripOK
<1>5. ASSUME NEW t \in Tasks
      PROVE  /\ Waiting(t) + Trips(t) <= 1
             /\ Waiting(t) + Trips(t) = 1 => task[t].is = "open"
  <2>1. /\ Waiting(t) \in {0, 1} /\ Trips(t) \in {0, 1}
        /\ Waiting(t) = 1 => t \in Waiters(group)
        /\ Trips(t) = 1 => t \in Travellers(trips)
    BY <1>1, InOnePlace
  <2>2. ~(t \in Waiters(group) /\ t \in Travellers(trips))
    BY <1>1 DEF CompanyOK
  <2>3. t \in Waiters(group) \/ t \in Travellers(trips) => task[t].is = "open"
    BY <1>1 DEF CompanyOK
  <2> QED
    BY <2>1, <2>2, <2>3
<1>6. /\ phase \in [Files -> {"queued", "calling", "between", "over"}]
      /\ \A f \in Files : chunk[f] \in 0 .. Len(ChunksOf[f])
    BY <1>1 DEF FilesOK, FileOK
<1>7. loop \in {"files", "drain", "done", "broken"} /\ retried \cup paid \subseteq Tasks
    BY <1>1 DEF RunOK, PaidOK
<1>8. {errors, aborted} \subseteq BOOLEAN
    BY <1>1 DEF RunOK
<1> QED
    BY <1>2, <1>3, <1>4, <1>5, <1>6, <1>7, <1>8 DEF TypeOK

LEMMA IInvMeansAnswersArrive == IInv => AnswersReachTheirTasks
<1> SUFFICES ASSUME IInv, NEW t \in Tasks, Settled(t)
             PROVE  /\ task[t].is \in {"success", "rejected"} => task[t].of = t
                    /\ t \in paid => task[t].is \in {"success", "rejected"}
    BY DEF AnswersReachTheirTasks
<1>1. task[t].is # "open"
    BY DEF Settled, Outcomes
<1> QED
    BY <1>1 DEF IInv, TasksOK, OwnIfGood, PaidOK, Good

\* What the process does beside the extraction leaves it alone, or is its signal.
LEMMA ProcessSteps == [NextAll]_allVars => [Next]_vars
<1> SUFFICES ASSUME [NextAll]_allVars PROVE [Next]_vars
    OBVIOUS
<1>1. CASE \E k \in Keys : Timer(k)
    BY <1>1 DEF Timer, Alive, Next
<1>2. CASE \E t \in Tasks : CallOf(t)
    BY <1>2 DEF CallOf, Alive, Next
<1>3. CASE \E t \in Tasks : Refused(t)
    BY <1>3 DEF Refused, Alive, Next
<1>4. CASE Loop
    BY <1>4 DEF Loop, Alive, Next
<1>5. CASE Register \/ Leave \/ Close \/ ForceExit \/ GracefulExit \/ \E h \in Hooks : HookEnds(h)
    BY <1>5 DEF Register, Leave, Close, ForceExit, GracefulExit, HookEnds
<1>6. CASE Interrupt
    BY <1>6 DEF Interrupt, Next
<1>7. CASE UNCHANGED allVars
    BY <1>7 DEF allVars
<1> QED
    BY <1>1, <1>2, <1>3, <1>4, <1>5, <1>6, <1>7 DEF NextAll

\* The inductive invariant of the extraction, and so of the process around it.
LEMMA ExtractionInvariant == SpecAll => []IInv
<1>1. InitAll => IInv
    BY InitIsFine DEF InitAll
<1>2. IInv /\ [NextAll]_allVars => IInv'
    BY StepKeepsIInv, ProcessSteps
<1> QED
    BY <1>1, <1>2, PTL DEF SpecAll

\* The state keeps its shape: a function that waits in the pool or travels is open, and it
\* is in one group or one trip only, whichever batches it went through
\* (semantic-batch-extractor.ts, singleton-batch-pool.ts).
THEOREM ExtractionTypeCorrect == SpecAll => []TypeOK
BY ExtractionInvariant, IInvIsTyped, PTL

\* An answer that the provider has given becomes the outcome of its own function, whatever
\* becomes of the functions it shared a call with (semantic-batch-extractor.ts,
\* extractSingleIsolated()).
THEOREM AnswersArrive == SpecAll => []AnswersReachTheirTasks
BY ExtractionInvariant, IInvMeansAnswersArrive, PTL

--------------------------------------------------------------------------------
\* What the loop knows stays true.

LEMMA OneChunkEach ==
    ASSUME NEW f \in Files, NEW c \in DOMAIN ChunksOf[f], NEW t \in ChunksOf[f][c],
           NEW g \in Files, NEW d \in DOMAIN ChunksOf[g], t \in ChunksOf[g][d]
    PROVE  f = g /\ c = d
<1>1. ChunksOf[f][c] \cap ChunksOf[g][d] # {}
    OBVIOUS
<1> QED
    BY <1>1, ChunksAssumption DEF ChunksAssumption

\* The chunk of a call is one of its file's.
LEMMA CurrentChunk ==
    ASSUME FilesOK, NEW f \in Files, phase[f] = "calling"
    PROVE  chunk[f] \in DOMAIN ChunksOf[f] /\ ChunksOf[f][chunk[f]] \subseteq Tasks
<1>1. FileOK(f)
    BY DEF FilesOK
<1>2. chunk[f] \in 1 .. Len(ChunksOf[f])
    BY <1>1 DEF FileOK
<1> QED
    BY <1>2, ChunkFacts

LEMMA LoopBroken ==
    ASSUME LoopInv, loop' = "broken", retried' = retried, task' = task
    PROVE  LoopInv'
BY DEF LoopInv

LEMMA LoopStays ==
    ASSUME LoopInv, loop' = loop, retried' = retried, errors' = errors,
           task' = task, phase' = phase, chunk' = chunk
    PROVE  LoopInv'
BY DEF LoopInv, CalledFor, NoneFailed, SomeFailed, Looked

LEMMA LoopCall ==
    ASSUME IInv, LoopInv, NEW f \in Files, phase[f] \in {"queued", "between"}, Call(f), UNCHANGED run
    PROVE  LoopInv'
<1> DEFINE c == chunk[f] + 1
           ts == ChunksOf[f][c]
<1>1. /\ c \in DOMAIN ChunksOf[f]
      /\ phase'[f] = "calling" /\ chunk'[f] = c
      /\ \A g \in Files \ {f} : phase'[g] = phase[g] /\ chunk'[g] = chunk[g]
      /\ \A t \in Tasks \ ts : task'[t] = task[t]
      /\ \A t \in ts : t \in Tasks /\ task[t].is = "idle" /\ task'[t].is \in {"open", "success"}
    BY CallFacts
<1>2. loop' = loop /\ retried' = retried /\ errors' = errors
    BY DEF run
<1>3. loop \in {"files", "broken"} /\ retried \subseteq Tasks
    BY DEF LoopInv, IInv, RunOK
<1>4. \A t \in retried' : task'[t].is # "idle"
  <2>1. \A t \in retried : t \in Tasks \ ts /\ task[t].is # "idle"
    BY <1>1, <1>3 DEF LoopInv
  <2> QED
    BY <1>1, <1>2, <2>1
<1>5. ASSUME NEW t \in Tasks, loop = "files", task'[t].is = "open" PROVE CalledFor(t)'
  <2>1. CASE t \in ts
    BY <1>1, <2>1 DEF CalledFor
  <2>2. CASE t \notin ts
    <3>1. task[t].is = "open"
      BY <1>1, <1>5, <2>2
    <3>2. CalledFor(t)
      BY <1>5, <3>1 DEF LoopInv
    <3>3. PICK g \in Files : phase[g] = "calling" /\ t \in ChunksOf[g][chunk[g]]
      BY <3>2 DEF CalledFor
    <3>4. g # f
      BY <3>3
    <3> QED
      BY <1>1, <3>3, <3>4 DEF CalledFor
  <2> QED
    BY <2>1, <2>2
<1>6. ASSUME loop = "files", ~errors PROVE NoneFailed'
  <2>1. NoneFailed
    BY <1>6 DEF LoopInv
  <2>2. ASSUME NEW g \in Files, NEW d \in DOMAIN ChunksOf[g], Looked(g, d)',
               NEW t \in ChunksOf[g][d] \ retried'
        PROVE  task'[t].is # "failed"
    <3>1. t \in Tasks
      BY <2>2, ChunkFacts
    <3>2. CASE t \in ts
      BY <1>1, <3>2
    <3>3. CASE t \notin ts
      <4>1. Looked(g, d)
        <5>1. CASE g = f
          <6>1. d < c /\ chunk[f] \in Nat /\ d \in Nat
            BY <1>1, <2>2, <5>1, ChunkFacts DEF Looked, IInv, FilesOK
          <6>2. d < chunk[f] \/ d = chunk[f]
            BY <6>1
          <6> QED
            BY <5>1, <6>2 DEF Looked
        <5>2. CASE g # f
          BY <1>1, <2>2, <5>2 DEF Looked
        <5> QED
          BY <5>1, <5>2
      <4>2. task[t].is # "failed"
        BY <1>2, <2>1, <2>2, <4>1 DEF NoneFailed
      <4> QED
        BY <1>1, <3>1, <3>3, <4>2
    <3> QED
      BY <3>2, <3>3
  <2>3. \A g \in Files : phase'[g] = "over" => chunk'[g] = Len(ChunksOf[g])
    BY <1>1, <2>1 DEF NoneFailed
  <2> QED
    BY <2>2, <2>3 DEF NoneFailed
<1>7. ASSUME loop = "files", errors PROVE SomeFailed'
  <2>1. SomeFailed
    BY <1>7 DEF LoopInv
  <2>2. CASE \E t \in Tasks : task[t].is = "failed"
    <3>1. PICK t \in Tasks : task[t].is = "failed"
      BY <2>2
    <3>2. task'[t].is = "failed"
      BY <1>1, <3>1
    <3> QED
      BY <3>2 DEF SomeFailed
  <2>3. CASE \E g \in Files : phase[g] = "over" /\ chunk[g] \in 1 .. Len(ChunksOf[g]) - 1
    <3>1. PICK g \in Files : phase[g] = "over" /\ chunk[g] \in 1 .. Len(ChunksOf[g]) - 1
      BY <2>3
    <3>2. g # f
      BY <3>1
    <3> QED
      BY <1>1, <3>1, <3>2 DEF SomeFailed
  <2> QED
    BY <2>1, <2>2, <2>3 DEF SomeFailed
<1> HIDE DEF c, ts
<1> QED
    BY <1>2, <1>3, <1>4, <1>5, <1>6, <1>7 DEF LoopInv

LEMMA LoopStartFile == ASSUME IInv, LoopInv, NEW f \in Files, StartFile(f) PROVE LoopInv'
<1>1. CASE aborted
    BY <1>1, LoopBroken DEF StartFile, work
<1>2. CASE ~aborted
    BY <1>2, LoopCall DEF StartFile
<1> QED
    BY <1>1, <1>2

LEMMA LoopNextChunk == ASSUME IInv, LoopInv, NEW f \in Files, NextChunk(f) PROVE LoopInv'
<1>1. CASE ~aborted
    BY <1>1, LoopCall DEF NextChunk
<1>2. CASE aborted
  <2>1. /\ phase[f] = "between" /\ phase' = [phase EXCEPT ![f] = "over"] /\ errors' = TRUE
        /\ chunk' = chunk /\ task' = task /\ loop' = loop /\ retried' = retried
    BY <1>2 DEF NextChunk, work
  <2>2. loop \in {"files", "broken"} /\ FileOK(f) /\ phase \in [Files -> {"queued", "calling", "between", "over"}]
    BY <2>1 DEF LoopInv, IInv, RunOK, FilesOK
  <2>3. phase'[f] = "over" /\ \A g \in Files : g # f => phase'[g] = phase[g]
    BY <2>1, <2>2
  <2>4. SomeFailed'
    BY <2>1, <2>2, <2>3 DEF SomeFailed, FileOK
  <2>5. \A t : CalledFor(t) => CalledFor(t)'
    BY <2>1, <2>3 DEF CalledFor
  <2> QED
    BY <2>1, <2>2, <2>4, <2>5 DEF LoopInv, IInv, RunOK
<1> QED
    BY <1>1, <1>2

LEMMA LoopReturn == ASSUME IInv, LoopInv, NEW f \in Files, Return(f) PROVE LoopInv'
<1> DEFINE ts == ChunksOf[f][chunk[f]]
           p == IF chunk[f] < Len(ChunksOf[f]) THEN "between" ELSE "over"
<1>1. /\ phase[f] = "calling" /\ \A t \in ts : Settled(t)
      /\ phase' = [phase EXCEPT ![f] = p]
      /\ errors' = (errors \/ \E t \in ts : task[t].is = "failed")
      /\ chunk' = chunk /\ task' = task /\ loop' = loop /\ retried' = retried
    BY DEF Return, work
<1>2. /\ loop \in {"files", "broken"} /\ FileOK(f) /\ FilesOK
      /\ phase \in [Files -> {"queued", "calling", "between", "over"}]
    BY <1>1 DEF LoopInv, IInv, RunOK, FilesOK
<1>3. phase'[f] = p /\ \A g \in Files : g # f => phase'[g] = phase[g]
    BY <1>1, <1>2
<1>4. ts \subseteq Tasks
    BY <1>1, <1>2, CurrentChunk
<1> HIDE DEF ts, p
<1>5. ASSUME NEW t \in Tasks, loop = "files", task'[t].is = "open" PROVE CalledFor(t)'
  <2>1. PICK g \in Files : phase[g] = "calling" /\ t \in ChunksOf[g][chunk[g]]
    BY <1>1, <1>5 DEF LoopInv, CalledFor
  <2>2. g # f
    BY <1>1, <1>5, <2>1 DEF Settled, Outcomes, ts
  <2> QED
    BY <1>1, <1>3, <2>1, <2>2 DEF CalledFor
<1>6. ASSUME loop = "files", ~errors' PROVE NoneFailed'
  <2>1. ~errors /\ \A t \in ts : task[t].is # "failed"
    BY <1>1, <1>6
  <2>2. NoneFailed
    BY <1>6, <2>1 DEF LoopInv
  <2>3. ASSUME NEW g \in Files, NEW d \in DOMAIN ChunksOf[g], Looked(g, d)',
               NEW t \in ChunksOf[g][d] \ retried'
        PROVE  task'[t].is # "failed"
    <3>1. CASE g = f /\ d = chunk[f]
      BY <1>1, <2>1, <2>3, <3>1 DEF ts
    <3>2. CASE g = f /\ d # chunk[f]
      <4>1. Looked(g, d)
        BY <1>1, <2>3, <3>2 DEF Looked
      <4> QED
        BY <1>1, <2>2, <2>3, <4>1 DEF NoneFailed
    <3>3. CASE g # f
      <4>1. Looked(g, d)
        BY <1>1, <1>3, <2>3, <3>3 DEF Looked
      <4> QED
        BY <1>1, <2>2, <2>3, <4>1 DEF NoneFailed
    <3> QED
      BY <3>1, <3>2, <3>3
  <2>4. ASSUME NEW g \in Files, phase'[g] = "over" PROVE chunk'[g] = Len(ChunksOf[g])
    <3>1. CASE g = f
      <4>1. ~(chunk[f] < Len(ChunksOf[f])) /\ chunk[f] \in 0 .. Len(ChunksOf[f]) /\ Len(ChunksOf[f]) \in Nat
        BY <1>2, <1>3, <2>4, <3>1, ChunkFacts DEF p, FileOK
      <4> QED
        BY <1>1, <3>1, <4>1
    <3>2. CASE g # f
      BY <1>1, <1>3, <2>2, <2>4, <3>2 DEF NoneFailed
    <3> QED
      BY <3>1, <3>2
  <2> QED
    BY <2>3, <2>4 DEF NoneFailed
<1>7. ASSUME loop = "files", errors' PROVE SomeFailed'
  <2>1. CASE \E t \in ts : task[t].is = "failed"
    BY <1>1, <1>4, <2>1 DEF SomeFailed
  <2>2. CASE errors
    <3>1. SomeFailed
      BY <1>7, <2>2 DEF LoopInv
    <3> QED
      BY <1>1, <1>3, <3>1 DEF SomeFailed
  <2> QED
    BY <1>1, <1>7, <2>1, <2>2
<1> QED
    BY <1>1, <1>2, <1>5, <1>6, <1>7 DEF LoopInv

LEMMA NothingCalled ==
    ASSUME LoopInv, loop # "broken", \A f \in Files : phase[f] = "over", NEW t \in Tasks, task[t].is = "open"
    PROVE  loop = "drain" /\ t \in retried
BY DEF LoopInv, CalledFor

LEMMA LoopEndFiles == ASSUME IInv, LoopInv, EndFiles PROVE LoopInv'
<1>1. /\ loop = "files" /\ retried = {} /\ \A f \in Files : phase[f] = "over"
      /\ phase' = phase /\ chunk' = chunk /\ errors' = errors
    BY DEF EndFiles, files, LoopInv
<1>2. \A t \in Tasks : task[t].is # "open"
    BY <1>1, NothingCalled
<1>3. CASE With("deferred") = {} /\ loop' = "done" /\ UNCHANGED <<work, retried>>
  <2>1. task' = task /\ retried' = retried
    BY <1>3 DEF work
  <2>2. \A t \in Tasks : task[t].is # "deferred"
    BY <1>3 DEF With
  <2>3. ~errors => NoneFailed
    BY <1>1 DEF LoopInv
  <2>4. ~errors' => NoneFailed'
    BY <1>1, <2>1, <2>3 DEF NoneFailed, Looked
  <2> QED
    BY <1>1, <1>2, <1>3, <2>1, <2>2, <2>4 DEF LoopInv
<1>4. CASE loop' = "broken" /\ UNCHANGED <<work, retried>>
    BY <1>4, LoopBroken DEF work
<1>5. CASE loop' = "drain" /\ retried' = With("deferred") /\ DrainFor(With("deferred"))
  <2> DEFINE ts == With("deferred")
  <2>1. /\ ts \in SUBSET Tasks /\ Before(ts) /\ \A t \in ts : task[t].is = "deferred"
        /\ \A t \in Tasks \ ts : task[t].is # "deferred"
    BY DEF With, Before
  <2>2. task' = Opened(ts) /\ retried' = ts
    BY <1>5 DEF DrainFor
  <2> HIDE DEF ts
  <2>3. /\ \A t \in Tasks \ ts : task'[t] = task[t]
        /\ \A t \in ts : task'[t].is \in {"open", "success"}
    BY <2>1, <2>2, OpenedFacts DEF IInv
  <2>4. \A t \in retried' : task'[t].is # "idle"
    BY <2>2, <2>3
  <2>5. \A t \in Tasks \ retried' : task'[t].is # "deferred" /\ task'[t].is # "open"
    BY <1>2, <2>1, <2>2, <2>3
  <2>6. ASSUME ~errors' PROVE NoneFailed'
    <3>1. NoneFailed
      BY <1>1, <2>6 DEF LoopInv
    <3>2. ASSUME NEW f \in Files, NEW c \in DOMAIN ChunksOf[f], Looked(f, c)',
                 NEW t \in ChunksOf[f][c] \ retried'
          PROVE  task'[t].is # "failed"
      <4>1. t \in Tasks /\ Looked(f, c)
        BY <1>1, <3>2, ChunkFacts DEF Looked
      <4> QED
        BY <1>1, <2>2, <2>3, <3>1, <3>2, <4>1 DEF NoneFailed
    <3> QED
      BY <1>1, <3>1, <3>2 DEF NoneFailed
  <2>7. ASSUME errors' PROVE SomeFailed'
    <3>1. SomeFailed
      BY <1>1, <2>7 DEF LoopInv
    <3>2. \A t \in Tasks : task[t].is = "failed" => task'[t].is = "failed"
      BY <2>1, <2>3
    <3> QED
      BY <1>1, <3>1, <3>2 DEF SomeFailed
  <2> QED
    BY <1>1, <1>5, <2>4, <2>5, <2>6, <2>7 DEF LoopInv
<1> QED
    BY <1>3, <1>4, <1>5 DEF EndFiles

LEMMA LoopEndDrain == ASSUME IInv, LoopInv, EndDrain PROVE LoopInv'
<1>1. /\ loop = "drain" /\ \A f \in Files : phase[f] = "over"
      /\ \A t \in retried : Settled(t)
      /\ loop' = "done" /\ errors' = (errors \/ Unsolved)
      /\ phase' = phase /\ chunk' = chunk /\ task' = task /\ retried' = retried
    BY DEF EndDrain, files, work, LoopInv
<1>2. ASSUME NEW t \in Tasks, task[t].is = "open" PROVE FALSE
  <2>1. t \in retried
    BY <1>1, <1>2, NothingCalled
  <2> QED
    BY <1>1, <1>2, <2>1 DEF Settled, Outcomes
<1>3. ~errors' => NoneFailed
    BY <1>1 DEF LoopInv
<1>4. ~errors' => NoneFailed'
    BY <1>1, <1>3 DEF NoneFailed, Looked
<1> QED
    BY <1>1, <1>2, <1>4 DEF LoopInv

LEMMA LoopEnds == ASSUME IInv, LoopInv, NEW u \in Tasks, Ends(u) PROVE LoopInv'
<1>1. /\ phase' = phase /\ chunk' = chunk /\ loop' = loop
      /\ retried' = retried /\ errors' = errors
    BY DEF Ends, BatchEnds, SingleEnds, files, run
<1>2. TasksOK /\ CompanyOK /\ PaidOK /\ FilesOK /\ retried \subseteq Tasks
    BY DEF IInv, RunOK
<1>3. \A t \in Tasks : task'[t] = task[t] \/ (task[t].is = "open" /\ task'[t].is \in Outcomes)
    BY <1>2, EndsKeepCompany DEF Decides
<1>4. "idle" \notin Outcomes /\ "open" \notin Outcomes
    BY DEF Outcomes
<1>5. \A t \in retried' : task'[t].is # "idle"
    BY <1>1, <1>2, <1>3, <1>4 DEF LoopInv
<1>6. ASSUME loop \in {"drain", "done"}, NEW t \in Tasks \ retried PROVE task'[t].is # "deferred"
  <2>1. \A f \in Files : phase[f] = "over"
    BY <1>6 DEF LoopInv
  <2>2. task[t].is # "open" /\ task[t].is # "deferred"
    BY <1>6, <2>1, NothingCalled DEF LoopInv
  <2> QED
    BY <1>3, <2>2
<1>7. ASSUME loop # "broken", NEW t \in Tasks, task'[t].is = "open"
      PROVE  CalledFor(t)' \/ (loop' = "drain" /\ t \in retried')
  <2>1. task[t].is = "open"
    BY <1>3, <1>4, <1>7
  <2> QED
    BY <1>1, <1>7, <2>1 DEF LoopInv, CalledFor
<1>8. ASSUME loop # "broken", ~errors PROVE NoneFailed'
  <2>1. NoneFailed
    BY <1>8 DEF LoopInv
  <2>2. ASSUME NEW f \in Files, NEW c \in DOMAIN ChunksOf[f], Looked(f, c)',
               NEW t \in ChunksOf[f][c] \ retried'
        PROVE  task'[t].is # "failed"
    <3>1. t \in Tasks /\ Looked(f, c) /\ t \notin retried
      BY <1>1, <2>2, ChunkFacts DEF Looked
    <3>2. task[t].is # "failed"
      BY <2>1, <2>2, <3>1 DEF NoneFailed
    <3>3. task[t].is # "open"
      <4> SUFFICES ASSUME task[t].is = "open" PROVE FALSE
        OBVIOUS
      <4>1. PICK g \in Files : phase[g] = "calling" /\ t \in ChunksOf[g][chunk[g]]
        BY <1>8, <3>1 DEF LoopInv, CalledFor
      <4>2. chunk[g] \in DOMAIN ChunksOf[g]
        BY <1>2, <4>1, CurrentChunk
      <4>3. f = g /\ c = chunk[g]
        BY <2>2, <4>1, <4>2, OneChunkEach
      <4>4. c \in Nat
        BY ChunkFacts
      <4> QED
        BY <3>1, <4>1, <4>3, <4>4 DEF Looked
    <3> QED
      BY <1>3, <3>1, <3>2, <3>3
  <2> QED
    BY <1>1, <2>1, <2>2 DEF NoneFailed
<1>9. ASSUME loop \in {"files", "drain"}, errors PROVE SomeFailed'
  <2>1. SomeFailed
    BY <1>9 DEF LoopInv
  <2>2. \A t \in Tasks : task[t].is = "failed" => task'[t].is = "failed"
    BY <1>3
  <2> QED
    BY <1>1, <2>1, <2>2 DEF SomeFailed
<1> QED
    BY <1>1, <1>5, <1>6, <1>7, <1>8, <1>9 DEF LoopInv

LEMMA StepKeepsLoopInv == IInv /\ LoopInv /\ [Next]_vars => LoopInv'
<1> SUFFICES ASSUME IInv, LoopInv, [Next]_vars PROVE LoopInv'
    OBVIOUS
<1>1. CASE LoopStep
    BY <1>1, LoopStartFile, LoopNextChunk, LoopReturn, LoopEndFiles, LoopEndDrain DEF LoopStep
<1>2. CASE \E k \in Keys : Flush(k)
    BY <1>2, LoopStays DEF Flush, files, run
<1>3. CASE \E t \in Tasks : Ends(t)
    BY <1>3, LoopEnds
<1>4. CASE \E w \in trips : Unauthorized(w)
    BY <1>4, LoopBroken DEF Unauthorized
<1>5. CASE Abort \/ UNCHANGED vars
    BY <1>5, LoopStays DEF Abort, vars, files, run, work
<1> QED
    BY <1>1, <1>2, <1>3, <1>4, <1>5 DEF Next

--------------------------------------------------------------------------------
\* The extraction keeps its promise, step by step.

Stands(t) ==
    /\ t \notin retried => Standing(t) = task[t].is
    /\ t \in retried /\ task[t].is = "open" => Standing(t) = "again"
    /\ t \in retried /\ task[t].is = "deferred" => Standing(t) = "dropped"
    /\ t \in retried /\ task[t].is \notin {"open", "deferred"} =>
           Standing(t) = task[t].is /\ Standing(t) \in {"success", "rejected", "failed"}
    /\ Standing(t) \in {"idle", "open", "deferred", "again", "success", "rejected", "failed", "dropped"}

LEMMA StandingFacts == IInv /\ LoopInv => \A t \in Tasks : Stands(t)
<1> SUFFICES ASSUME IInv, LoopInv, NEW t \in Tasks PROVE Stands(t)
    OBVIOUS
<1>1. task[t].is \in {"idle", "open"} \cup Outcomes
    BY DEF IInv, TasksOK, TaskTypes
<1>2. t \in retried => task[t].is # "idle"
    BY DEF LoopInv
<1>3. \A s : /\ s = "open" => [open |-> "again", deferred |-> "dropped", success |-> "success",
                               rejected |-> "rejected", failed |-> "failed"][s] = "again"
             /\ s = "deferred" => [open |-> "again", deferred |-> "dropped", success |-> "success",
                               rejected |-> "rejected", failed |-> "failed"][s] = "dropped"
             /\ s \in {"success", "rejected", "failed"} =>
                    [open |-> "again", deferred |-> "dropped", success |-> "success",
                     rejected |-> "rejected", failed |-> "failed"][s] = s
    OBVIOUS
<1> QED
    BY <1>1, <1>2, <1>3 DEF Standing, Stands, Outcomes

LEMMA StandingAfter == IInv' /\ LoopInv' => \A t \in Tasks : Stands(t)'
<1> DEFINE AllStand == \A t \in Tasks : Stands(t)
<1>1. IInv /\ LoopInv => AllStand
    BY StandingFacts
<1> HIDE DEF AllStand
<1>2. IInv' /\ LoopInv' => AllStand'
    BY <1>1, PTL
<1> QED
    BY <1>2 DEF AllStand

\* What Onward allows, written out.
LEMMA OnwardFacts ==
    /\ DOMAIN Promised!Onward =
           {"idle", "open", "deferred", "again", "success", "rejected", "failed", "dropped"}
    /\ Promised!Onward["idle"] = {"idle", "open", "success", "rejected"}
    /\ Promised!Onward["open"] = {"open", "failed", "deferred", "success", "rejected"}
    /\ Promised!Onward["deferred"] = {"deferred", "again"}
    /\ Promised!Onward["again"] = {"again", "failed", "dropped", "success", "rejected"}
    /\ Promised!Onward["success"] = {"success"}
    /\ Promised!Onward["rejected"] = {"rejected"}
    /\ Promised!Onward["failed"] = {"failed"}
    /\ Promised!Onward["dropped"] = {"dropped"}
BY DEF Promised!Onward, Promised!Good

LEMMA StandsStill ==
    ASSUME task' = task, retried' = retried
    PROVE  /\ \A t \in Tasks : Standing(t)' = Standing(t)
           /\ [t \in Tasks |-> Standing(t)]' = [t \in Tasks |-> Standing(t)]
BY DEF Standing

LEMMA NoMove ==
    ASSUME task' = task, retried' = retried, Ended' = Ended
    PROVE  UNCHANGED Promised!vars
BY StandsStill DEF Promised!vars

LEMMA BreaksOff ==
    ASSUME task' = task, retried' = retried, Ended = "none", Ended' = "broken"
    PROVE  Promised!BreakOff
BY StandsStill DEF Promised!BreakOff

LEMMA MovesOn ==
    ASSUME IInv', LoopInv', Ended' = Ended,
           \A t \in Tasks : Standing(t)' \in Promised!Onward[Standing(t)]
    PROVE  Promised!Move
<1>1. \A t \in Tasks : Standing(t)' \in DOMAIN Promised!Onward
    BY StandingAfter, OnwardFacts DEF Stands
<1>2. [t \in Tasks |-> Standing(t)]' \in [Tasks -> DOMAIN Promised!Onward]
    BY <1>1
<1> QED
    BY <1>2 DEF Promised!Move

LEMMA CallMoves ==
    ASSUME IInv, LoopInv, IInv', LoopInv', NEW f \in Files, phase[f] \in {"queued", "between"},
           Call(f), UNCHANGED run, exit' = exit
    PROVE  Promised!Move
<1> DEFINE ts == ChunksOf[f][chunk[f] + 1]
<1>1. /\ \A t \in Tasks \ ts : task'[t] = task[t]
      /\ \A t \in ts : task[t].is = "idle" /\ task'[t].is \in {"open", "success"}
    BY CallFacts
<1>2. loop' = loop /\ retried' = retried /\ errors' = errors
    BY DEF run
<1>3. Ended' = Ended
    BY <1>2 DEF Ended, Running
<1> HIDE DEF ts
<1>4. ASSUME NEW t \in Tasks PROVE Standing(t)' \in Promised!Onward[Standing(t)]
  <2>1. Stands(t) /\ Stands(t)'
    BY StandingFacts, StandingAfter
  <2>2. CASE t \in ts
    <3>1. t \notin retried
      BY <1>1, <2>2 DEF LoopInv
    <3>2. Standing(t) = "idle" /\ Standing(t)' \in {"open", "success"}
      BY <1>1, <1>2, <2>1, <2>2, <3>1 DEF Stands
    <3> QED
      BY <3>2, OnwardFacts
  <2>3. CASE t \notin ts
    <3>1. Standing(t)' = Standing(t)
      BY <1>1, <1>2, <2>3 DEF Standing
    <3> QED
      BY <2>1, <3>1, OnwardFacts DEF Stands
  <2> QED
    BY <2>2, <2>3
<1> QED
    BY <1>3, <1>4, MovesOn

LEMMA EndsMove ==
    ASSUME IInv, LoopInv, IInv', LoopInv', NEW u \in Tasks, Ends(u), exit' = exit
    PROVE  Promised!Move
<1>1. loop' = loop /\ retried' = retried /\ errors' = errors
    BY DEF Ends, BatchEnds, SingleEnds, run
<1>2. \A t \in Tasks : task'[t] = task[t] \/ (task[t].is = "open" /\ task'[t].is \in Outcomes)
    BY EndsKeepCompany DEF Decides, IInv
<1>3. Ended' = Ended
    BY <1>1 DEF Ended, Running
<1>4. ASSUME NEW t \in Tasks PROVE Standing(t)' \in Promised!Onward[Standing(t)]
  <2>1. Stands(t) /\ Stands(t)'
    BY StandingFacts, StandingAfter
  <2>2. CASE task'[t] = task[t]
    <3>1. Standing(t)' = Standing(t)
      BY <1>1, <2>2 DEF Standing
    <3> QED
      BY <2>1, <3>1, OnwardFacts DEF Stands
  <2>3. CASE task[t].is = "open" /\ task'[t].is \in Outcomes /\ t \notin retried
    <3>1. Standing(t) = "open" /\ Standing(t)' \in Outcomes
      BY <1>1, <2>1, <2>3 DEF Stands
    <3> QED
      BY <3>1, OnwardFacts DEF Outcomes
  <2>4. CASE task[t].is = "open" /\ task'[t].is \in Outcomes /\ t \in retried
    <3>1. Standing(t) = "again" /\ Standing(t)' \in {"success", "rejected", "failed", "dropped"}
      BY <1>1, <2>1, <2>4 DEF Stands, Outcomes
    <3> QED
      BY <3>1, OnwardFacts
  <2> QED
    BY <1>2, <2>2, <2>3, <2>4
<1> QED
    BY <1>3, <1>4, MovesOn

LEMMA DrainMoves ==
    ASSUME IInv, LoopInv, IInv', LoopInv', loop = "files", loop' = "drain",
           retried' = With("deferred"), DrainFor(With("deferred")), exit' = exit, exit = "none"
    PROVE  Promised!Move
<1> DEFINE ts == With("deferred")
<1>1. retried = {} /\ Ended' = Ended
    BY DEF Ended, Running, LoopInv
<1>2. ts \in SUBSET Tasks /\ Before(ts) /\ \A t \in ts : task[t].is = "deferred"
    BY DEF With, Before
<1>3. task' = Opened(ts) /\ retried' = ts
    BY DEF DrainFor
<1> HIDE DEF ts
<1>4. ts \subseteq Asked(ts)
    BY <1>2 DEF Asked, IInv, TasksOK
<1>5. /\ \A t \in Tasks \ ts : task'[t] = task[t]
      /\ \A t \in ts : task'[t].is = "open"
    BY <1>2, <1>3, <1>4, OpenedFacts DEF IInv
<1>6. ASSUME NEW t \in Tasks PROVE Standing(t)' \in Promised!Onward[Standing(t)]
  <2>1. Stands(t) /\ Stands(t)'
    BY StandingFacts, StandingAfter
  <2>2. CASE t \in ts
    <3>1. Standing(t) = "deferred" /\ Standing(t)' = "again"
      BY <1>1, <1>2, <1>3, <1>5, <2>1, <2>2 DEF Stands
    <3> QED
      BY <3>1, OnwardFacts
  <2>3. CASE t \notin ts
    <3>1. Standing(t)' = Standing(t)
      BY <1>1, <1>3, <1>5, <2>3 DEF Standing
    <3> QED
      BY <2>1, <3>1, OnwardFacts DEF Stands
  <2> QED
    BY <2>2, <2>3
<1> QED
    BY <1>1, <1>6, MovesOn

\* What a file loop that was not broken off knows of errors is what there is to know.
LEMMA ErrorsAreTold ==
    ASSUME IInv, LoopInv, loop \in {"files", "drain"}, \A f \in Files : phase[f] = "over",
           \A t \in Tasks : task[t].is # "open", \A t \in Tasks \ retried : task[t].is # "deferred"
    PROVE  /\ ~errors => \A t \in Tasks \ retried : Standing(t) \in Good
           /\ errors => \E t \in Tasks : Standing(t) \notin Good
<1>1. \A t \in Tasks : Stands(t)
    BY StandingFacts
<1>2. ASSUME ~errors, NEW t \in Tasks \ retried PROVE Standing(t) \in Good
  <2>1. NoneFailed
    BY <1>2 DEF LoopInv
  <2>10. PICK f \in Files : \E c \in DOMAIN ChunksOf[f] : t \in ChunksOf[f][c]
    BY <1>2, ChunksAssumption DEF ChunksAssumption
  <2>2. PICK c \in DOMAIN ChunksOf[f] : t \in ChunksOf[f][c]
    BY <2>10
  <2>3. chunk[f] = Len(ChunksOf[f]) /\ c \in 1 .. Len(ChunksOf[f]) /\ Len(ChunksOf[f]) \in Nat
    BY <2>1, <2>2, ChunkFacts DEF NoneFailed
  <2>4. c < chunk[f] \/ c = chunk[f]
    BY <2>3
  <2>5. Looked(f, c)
    BY <2>4 DEF Looked
  <2>6. task[t].is # "failed"
    BY <1>2, <2>1, <2>2, <2>5 DEF NoneFailed
  <2>7. task[t].is # "idle"
    BY <2>2, <2>3, <2>4 DEF IInv, FilesOK, FileOK
  <2>8. task[t].is \in {"idle", "open"} \cup Outcomes
    BY <1>2 DEF IInv, TasksOK, TaskTypes
  <2>9. task[t].is \in Good
    BY <1>2, <2>6, <2>7, <2>8 DEF Outcomes, Good
  <2> QED
    BY <1>1, <1>2, <2>9 DEF Stands
<1>3. ASSUME errors PROVE \E t \in Tasks : Standing(t) \notin Good
  <2>1. SomeFailed
    BY <1>3 DEF LoopInv
  <2>2. CASE \E t \in Tasks : task[t].is = "failed"
    <3>1. PICK t \in Tasks : task[t].is = "failed"
      BY <2>2
    <3>2. Standing(t) = "failed"
      BY <1>1, <3>1 DEF Stands
    <3> QED
      BY <3>2 DEF Good
  <2>3. CASE \E f \in Files : phase[f] = "over" /\ chunk[f] \in 1 .. Len(ChunksOf[f]) - 1
    <3>1. PICK f \in Files : chunk[f] \in 1 .. Len(ChunksOf[f]) - 1
      BY <2>3
    <3> DEFINE d == chunk[f] + 1
    <3>2. d \in DOMAIN ChunksOf[f] /\ d > 1 /\ d > chunk[f]
      BY <3>1, ChunkFacts
    <3>3. PICK t \in ChunksOf[f][d] : TRUE
      BY <3>2, ChunksAssumption DEF ChunksAssumption
    <3>4. t \in Tasks /\ task[t].is = "idle"
      BY <3>2, ChunkFacts DEF IInv, FilesOK, FileOK
    <3>5. t \notin retried
      BY <3>4 DEF LoopInv
    <3>6. Standing(t) = "idle"
      BY <1>1, <3>4, <3>5 DEF Stands
    <3> QED
      BY <3>4, <3>6 DEF Good
  <2> QED
    BY <2>1, <2>2, <2>3 DEF SomeFailed
<1> QED
    BY <1>2, <1>3

LEMMA FinishesAs ==
    ASSUME task' = task, retried' = retried, Ended = "none",
           \A t \in Tasks : Standing(t) \notin {"open", "again", "deferred"},
           Ended' = IF \A t \in Tasks : Standing(t) \in Good THEN "clean" ELSE "errors"
    PROVE  Promised!Finish
<1>1. \A t \in Tasks : Standing(t) \notin Promised!Pending \cup {"deferred"}
    BY DEF Promised!Pending
<1>2. Promised!Good = Good
    BY DEF Promised!Good, Good
<1> QED
    BY <1>1, <1>2, StandsStill DEF Promised!Finish

LEMMA FilesFinish ==
    ASSUME IInv, LoopInv, loop = "files", \A f \in Files : phase[f] = "over", exit = "none",
           With("deferred") = {}, loop' = "done", UNCHANGED <<work, retried, errors, exit>>
    PROVE  Promised!Finish
<1>1. task' = task /\ retried' = retried /\ errors' = errors /\ retried = {}
    BY DEF work, LoopInv
<1>2. \A t \in Tasks : task[t].is # "open"
    BY NothingCalled
<1>3. \A t \in Tasks : task[t].is # "deferred"
    BY DEF With
<1>4. Ended = "none" /\ Ended' = IF errors THEN "errors" ELSE "clean"
    BY <1>1 DEF Ended, Running
<1>5. errors <=> ~ \A t \in Tasks : Standing(t) \in Good
    BY <1>1, <1>2, <1>3, ErrorsAreTold
<1>6. \A t \in Tasks : Standing(t) \notin {"open", "again", "deferred"}
  <2> SUFFICES ASSUME NEW t \in Tasks PROVE Standing(t) \notin {"open", "again", "deferred"}
    OBVIOUS
  <2>1. Standing(t) = task[t].is
    BY <1>1 DEF Standing
  <2>2. task[t].is \in {"idle", "open"} \cup Outcomes
    BY DEF IInv, TasksOK, TaskTypes
  <2> QED
    BY <1>2, <1>3, <2>1, <2>2 DEF Outcomes
<1> QED
    BY <1>1, <1>4, <1>5, <1>6, FinishesAs

LEMMA DrainFinishes ==
    ASSUME IInv, LoopInv, EndDrain, exit = "none", exit' = exit
    PROVE  Promised!Finish
<1>1. /\ loop = "drain" /\ loop' = "done" /\ errors' = (errors \/ Unsolved)
      /\ \A t \in retried : Settled(t)
      /\ task' = task /\ retried' = retried
    BY DEF EndDrain, work
<1>2. /\ \A f \in Files : phase[f] = "over"
      /\ \A t \in Tasks \ retried : task[t].is # "deferred"
    BY <1>1 DEF LoopInv
<1>3. ASSUME NEW t \in Tasks, task[t].is = "open" PROVE FALSE
  <2>1. t \in retried
    BY <1>1, <1>2, <1>3, NothingCalled
  <2> QED
    BY <1>1, <1>3, <2>1 DEF Settled, Outcomes
<1>4. /\ ~errors => \A t \in Tasks \ retried : Standing(t) \in Good
      /\ errors => \E t \in Tasks : Standing(t) \notin Good
    BY <1>1, <1>2, <1>3, ErrorsAreTold
<1>5. Ended = "none" /\ Ended' = IF errors' THEN "errors" ELSE "clean"
    BY <1>1 DEF Ended, Running
<1>6. retried \subseteq Tasks
    BY DEF IInv, RunOK
<1>7. ASSUME NEW t \in retried
      PROVE  Standing(t) \in Good <=> task[t].is \notin {"failed", "deferred"}
  <2>1. Stands(t) /\ task[t].is \in Outcomes
    BY <1>1, <1>6, StandingFacts DEF Settled
  <2> QED
    BY <2>1 DEF Stands, Good, Outcomes
<1>8. errors' <=> ~ \A t \in Tasks : Standing(t) \in Good
    BY <1>1, <1>4, <1>6, <1>7 DEF Unsolved
<1>9. ASSUME NEW t \in Tasks PROVE Standing(t) \notin {"open", "again", "deferred"}
  <2>1. Stands(t) /\ task[t].is # "open"
    BY <1>3, StandingFacts
  <2>2. task[t].is \in {"idle", "open"} \cup Outcomes
    BY DEF IInv, TasksOK, TaskTypes
  <2> QED
    BY <1>2, <2>1, <2>2 DEF Stands, Outcomes
<1> QED
    BY <1>1, <1>5, <1>8, <1>9, FinishesAs

\* A step of the loop, of a living process.
LEMMA LoopKeepsPromise ==
    ASSUME IInv, LoopInv, IInv', LoopInv', LoopStep, exit = "none", exit' = exit
    PROVE  Promised!Next \/ UNCHANGED Promised!vars
<1>1. ASSUME NEW f \in Files, StartFile(f) PROVE Promised!Next \/ UNCHANGED Promised!vars
  <2>1. CASE aborted
    <3>1. task' = task /\ retried' = retried /\ loop' = "broken" /\ loop # "done"
      BY <1>1, <2>1 DEF StartFile, work, LoopInv
    <3>2. Ended \in {"none", "broken"} /\ Ended' = "broken"
      BY <3>1 DEF Ended, Running
    <3> QED
      BY <3>1, <3>2, NoMove, BreaksOff DEF Promised!Next
  <2>2. CASE ~aborted
    <3>1. phase[f] \in {"queued", "between"} /\ Call(f) /\ UNCHANGED run
      BY <1>1, <2>2 DEF StartFile
    <3> QED
      BY <3>1, CallMoves DEF Promised!Next
  <2> QED
    BY <2>1, <2>2
<1>2. ASSUME NEW f \in Files, NextChunk(f) PROVE Promised!Next \/ UNCHANGED Promised!vars
  <2>1. CASE aborted
    <3>1. task' = task /\ retried' = retried /\ loop' = loop /\ loop # "done"
      BY <1>2, <2>1 DEF NextChunk, work, LoopInv
    <3>2. Ended' = Ended
      BY <3>1 DEF Ended, Running
    <3> QED
      BY <3>1, <3>2, NoMove
  <2>2. CASE ~aborted
    <3>1. phase[f] \in {"queued", "between"} /\ Call(f) /\ UNCHANGED run
      BY <1>2, <2>2 DEF NextChunk
    <3> QED
      BY <3>1, CallMoves DEF Promised!Next
  <2> QED
    BY <2>1, <2>2
<1>3. ASSUME NEW f \in Files, Return(f) PROVE UNCHANGED Promised!vars
  <2>1. task' = task /\ retried' = retried /\ loop' = loop /\ loop # "done"
    BY <1>3 DEF Return, work, LoopInv
  <2>2. Ended' = Ended
    BY <2>1 DEF Ended, Running
  <2> QED
    BY <2>1, <2>2, NoMove
<1>4. ASSUME EndFiles PROVE Promised!Next
  <2>1. loop = "files" /\ (\A f \in Files : phase[f] = "over") /\ errors' = errors
    BY <1>4 DEF EndFiles
  <2>2. CASE With("deferred") = {} /\ loop' = "done" /\ UNCHANGED <<work, retried>>
    BY <2>1, <2>2, FilesFinish DEF Promised!Next
  <2>3. CASE loop' = "broken" /\ UNCHANGED <<work, retried>>
    <3>1. task' = task /\ retried' = retried /\ Ended = "none" /\ Ended' = "broken"
      BY <2>1, <2>3 DEF work, Ended, Running
    <3> QED
      BY <3>1, BreaksOff DEF Promised!Next
  <2>4. CASE loop' = "drain" /\ retried' = With("deferred") /\ DrainFor(With("deferred"))
    BY <2>1, <2>4, DrainMoves DEF Promised!Next
  <2> QED
    BY <1>4, <2>2, <2>3, <2>4 DEF EndFiles
<1>5. ASSUME EndDrain PROVE Promised!Next
    BY <1>5, DrainFinishes DEF Promised!Next
<1> QED
    BY <1>1, <1>2, <1>3, <1>4, <1>5 DEF LoopStep

LEMMA StepKeepsPromise ==
    IInv /\ LoopInv /\ IInv' /\ LoopInv' /\ [NextAll]_allVars
        => [Promised!Next]_(Promised!vars)
<1> SUFFICES ASSUME IInv, LoopInv, IInv', LoopInv', [NextAll]_allVars
             PROVE  Promised!Next \/ UNCHANGED Promised!vars
    OBVIOUS
<1>1. CASE \E k \in Keys : Timer(k)
  <2>1. task' = task /\ retried' = retried /\ loop' = loop /\ errors' = errors /\ exit' = exit
    BY <1>1 DEF Timer, Alive, Flush, run, shutdown
  <2>2. Ended' = Ended
    BY <2>1 DEF Ended, Running
  <2> QED
    BY <2>1, <2>2, NoMove
<1>2. CASE \E t \in Tasks : CallOf(t)
  <2>1. PICK t \in Tasks : Ends(t) /\ exit' = exit
    BY <1>2 DEF CallOf, Alive, shutdown
  <2> QED
    BY <2>1, EndsMove DEF Promised!Next
<1>3. CASE \E t \in Tasks : Refused(t)
  <2>1. PICK w \in trips : Unauthorized(w)
    BY <1>3 DEF Refused, Alive
  <2>2. exit = "none" /\ exit' = exit
    BY <1>3 DEF Refused, Alive, Running, shutdown
  <2>3. task' = task /\ retried' = retried /\ loop' = "broken"
    BY <2>1 DEF Unauthorized
  <2>4. loop # "done"
    <3>1. Len(w.members) \in 1 .. MaxBatch
      BY DEF IInv, CompanyOK, TripsOK, TripOK
    <3>2. 1 \in DOMAIN w.members
      BY <3>1, TripFacts DEF IInv
    <3>3. w.members[1] \in Tasks /\ task[w.members[1]].is = "open"
      BY <3>2, TripFacts DEF IInv
    <3> QED
      BY <3>3, NothingCalled DEF LoopInv
  <2>5. Ended \in {"none", "broken"} /\ Ended' = "broken"
    BY <2>2, <2>3, <2>4 DEF Ended, Running
  <2> QED
    BY <2>3, <2>5, NoMove, BreaksOff DEF Promised!Next
<1>4. CASE Loop
    BY <1>4, LoopKeepsPromise DEF Loop, Alive, Running, shutdown
<1>5. CASE Register \/ Leave \/ Interrupt \/ (\E h \in Hooks : HookEnds(h)) \/ UNCHANGED allVars
  <2>1. task' = task /\ retried' = retried /\ loop' = loop /\ errors' = errors /\ exit' = exit
    BY <1>5 DEF Register, Leave, Interrupt, Abort, HookEnds, allVars, vars, run, work, shutdown
  <2>2. Ended' = Ended
    BY <2>1 DEF Ended, Running
  <2> QED
    BY <2>1, <2>2, NoMove
<1>6. CASE Close \/ ForceExit \/ GracefulExit
  <2>1. task' = task /\ retried' = retried /\ loop' = loop /\ errors' = errors
    BY <1>6 DEF Close, ForceExit, GracefulExit, vars, run, work
  <2>2. exit = "none" /\ exit' # "none"
    BY <1>6 DEF Close, ForceExit, GracefulExit, Running
  <2>3. CASE loop = "done"
    <3>1. Ended' = Ended
      BY <2>1, <2>3 DEF Ended
    <3> QED
      BY <2>1, <3>1, NoMove
  <2>4. CASE loop # "done"
    <3>1. Ended \in {"none", "broken"} /\ Ended' = "broken"
      BY <2>1, <2>2, <2>4 DEF Ended, Running
    <3> QED
      BY <2>1, <3>1, NoMove, BreaksOff DEF Promised!Next
  <2> QED
    BY <2>3, <2>4
<1> QED
    BY <1>1, <1>2, <1>3, <1>4, <1>5, <1>6 DEF NextAll

LEMMA InitPromises == InitAll => LoopInv /\ Promised!Init
<1> SUFFICES ASSUME InitAll PROVE LoopInv /\ Promised!Init
    OBVIOUS
<1>1. /\ phase = [f \in Files |-> "queued"] /\ chunk = [f \in Files |-> 0]
      /\ task = [t \in Tasks |-> Is("idle")] /\ loop = "files" /\ retried = {} /\ errors = FALSE
      /\ exit = "none"
    BY DEF InitAll, Init
<1>2. \A t \in Tasks : task[t].is = "idle" /\ Standing(t) = "idle"
    BY <1>1 DEF Is, Standing
<1>3. NoneFailed
    BY <1>1, <1>2, ChunkFacts DEF NoneFailed
<1>4. LoopInv
    BY <1>1, <1>2, <1>3 DEF LoopInv
<1>5. Ended = "none"
    BY <1>1 DEF Ended, Running
<1>6. Promised!Init
    BY <1>2, <1>5 DEF Promised!Init
<1> QED
    BY <1>4, <1>6

\* With what the loop knows of its files.
LEMMA LoopInvariant == SpecAll => [](IInv /\ LoopInv)
<1>1. InitAll => LoopInv
    BY InitPromises
<1>2. IInv /\ LoopInv /\ [NextAll]_allVars => LoopInv'
    BY StepKeepsLoopInv, ProcessSteps
<1> QED
    BY <1>1, <1>2, ExtractionInvariant, PTL DEF SpecAll

\* The extraction, with the process around it, keeps its promise to the pipeline in every
\* step: one outcome for each function that is taken up, one more try for a deferred one,
\* no clean end over anything else (orchestrator.ts:540-628, shutdown.ts).
THEOREM PromiseKept == SpecAll => Promised!Spec
<1>1. InitAll => Promised!Init
    BY InitPromises
<1>2. IInv /\ LoopInv /\ (IInv /\ LoopInv)' /\ [NextAll]_allVars => [Promised!Next]_(Promised!vars)
    BY StepKeepsPromise
<1> QED
    BY <1>1, <1>2, LoopInvariant, PTL DEF SpecAll, Promised!Spec

--------------------------------------------------------------------------------
\* What the promise is worth.

\* A clean end stays true: every function is analysed or turned down, and stays so.  The
\* repository hash, which later syncs believe, is written over nothing less.
CleanMeansSolved == Ended = "clean" => \A t \in Tasks : Standing(t) \in Good

\* No function is taken up a third time: from its second try on, it never waits for another.
SecondTryIsLast ==
    [][ \A t \in Tasks : Standing(t) \in {"again", "dropped"} =>
            Standing(t)' \notin {"open", "deferred"} ]_(Promised!vars)

LEMMA StandsFor ==
    ASSUME Promised!Move, NEW t \in Tasks
    PROVE  Standing(t)' \in Promised!Onward[Standing(t)]
BY DEF Promised!Move

LEMMA OthersStand ==
    ASSUME \/ UNCHANGED Promised!vars
           \/ Promised!Finish
           \/ Promised!BreakOff,
           NEW t \in Tasks
    PROVE  Standing(t)' = Standing(t)
<1>1. [u \in Tasks |-> Standing(u)]' = [u \in Tasks |-> Standing(u)]
    BY DEF Promised!vars, Promised!Finish, Promised!BreakOff
<1>2. [u \in Tasks |-> Standing(u)'] = [u \in Tasks |-> Standing(u)]
    BY <1>1
<1>3. [u \in Tasks |-> Standing(u)'][t] = Standing(t)' /\ [u \in Tasks |-> Standing(u)][t] = Standing(t)
    OBVIOUS
<1> QED
    BY <1>2, <1>3

\* An extraction that ended clean has analysed or turned down every function, for good
\* (orchestrator.ts:609-628, what keeps repoHasErrors false).
THEOREM CleanEndsAreSolved == SpecAll => []CleanMeansSolved
<1>1. Promised!Init => CleanMeansSolved
    BY DEF Promised!Init, CleanMeansSolved
<1>2. ASSUME CleanMeansSolved, [Promised!Next]_(Promised!vars) PROVE CleanMeansSolved'
  <2> SUFFICES ASSUME Ended' = "clean", NEW t \in Tasks PROVE Standing(t)' \in Good
    BY DEF CleanMeansSolved
  <2>1. CASE Promised!Move
    <3>1. Ended = "clean"
      BY <2>1 DEF Promised!Move
    <3>2. Standing(t) \in Good
      BY <1>2, <3>1 DEF CleanMeansSolved
    <3> QED
      BY <2>1, <3>2, StandsFor, OnwardFacts DEF Good
  <2>2. CASE Promised!Finish
    <3>1. \A u \in Tasks : Standing(u) \in Promised!Good
      BY <2>2 DEF Promised!Finish
    <3> QED
      BY <2>2, <3>1, OthersStand DEF Promised!Good, Good
  <2>3. CASE Promised!BreakOff
    BY <2>3 DEF Promised!BreakOff
  <2>4. CASE UNCHANGED Promised!vars
    BY <1>2, <2>4, OthersStand DEF Promised!vars, CleanMeansSolved
  <2> QED
    BY <1>2, <2>1, <2>2, <2>3, <2>4 DEF Promised!Next
<1> QED
    BY <1>1, <1>2, PromiseKept, PTL DEF Promised!Spec

\* The drain is the only other try: what is left over after it waits for the next sync.
THEOREM DrainIsTheLastTry == SpecAll => SecondTryIsLast
<1>1. ASSUME [Promised!Next]_(Promised!vars)
      PROVE  \A t \in Tasks : Standing(t) \in {"again", "dropped"} => Standing(t)' \notin {"open", "deferred"}
  <2> SUFFICES ASSUME NEW t \in Tasks, Standing(t) \in {"again", "dropped"}
               PROVE  Standing(t)' \notin {"open", "deferred"}
    OBVIOUS
  <2>1. CASE Promised!Move
    BY <2>1, StandsFor, OnwardFacts
  <2>2. CASE Promised!Finish \/ Promised!BreakOff \/ UNCHANGED Promised!vars
    BY <2>2, OthersStand
  <2> QED
    BY <1>1, <2>1, <2>2 DEF Promised!Next
<1> QED
    BY <1>1, PromiseKept, PTL DEF Promised!Spec, SecondTryIsLast
================================================================================
