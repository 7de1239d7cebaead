------------------------ MODULE IncrementalIngestProofs ------------------------
(***************************************************************************)
(* Proofs about IncrementalIngest, for any repository, any functions and    *)
(* contents, any chunk size, number of writers, edits and failures.         *)
(*                                                                         *)
(* A task of the plan passes through the todo list of its file, the         *)
(* deferred tasks and a write job, and its function is written statement by *)
(* statement next to others.  The inductive invariant says where each task  *)
(* is (NothingLost), what its write has already put into the graph          *)
(* (WritesOK), and which functions the soft-deletes leave alone.            *)
(*                                                                         *)
(* What a settled repository holds also depends on the runs before: HInv    *)
(* remembers the contents the files have had, CInv says for each cache that *)
(* what it vouches for is complete, and GInv that what is alive is in the   *)
(* code, or that its file will be found changed.                            *)
(***************************************************************************)
EXTENDS IncrementalIngest, SequenceTheorems, FunctionTheorems, FiniteSetTheorems, TLAPS

Slots  == Sources \X Funcs
Heads  == UNION {[D -> Contents \cup {Incomplete}] : D \in SUBSET Files}
JobSet == [kind : {"eager", "chunk"}, heads : Heads, tasks : SUBSET Slots,
           at : Slots \cup {Null}, step : {"detach", "merge", "contain", "relate"}]
PlanSet == [snap : [Files -> Contents \cup {Absent}], force : BOOLEAN,
            delFiles : SUBSET Files, delFuncs : SUBSET Funcs,
            tasks : [Sources -> SUBSET Funcs]]

\* The tasks of the plan p, and the body that belongs in the graph for each.
Planned(p)     == {t \in Slots : t[2] \in p.tasks[t[1]]}
PlanBody(p, t) == Body(p.snap, t[1], t[2])

\* What a plan promises about the snapshot it was made of.
PlanOK(p) ==
    /\ p \in PlanSet
    /\ UniqueIds(p.snap)
    /\ \A f \in Sources : p.tasks[f] \subseteq DefinedIn(p.snap, f)
    /\ p.delFiles \cap Present(p.snap, Sources) = {}

\* Everything under way stems from the plan.
JobOK(j, p) ==
    /\ j \in JobSet
    /\ j.tasks \subseteq Planned(p)
    /\ j.at # Null => j.at \in Planned(p)
    /\ j.kind = "eager" => j.tasks = {} /\ j.at = Null

Contracting == phase \in {"tombstoneFiles", "detachFiles", "tombstoneFuncs", "detachFuncs"}

WorkOK ==
    /\ jobs \in Seq(JobSet)
    /\ \A i \in DOMAIN jobs : JobOK(jobs[i], plan)
    /\ \A f \in Sources : todo[f] \subseteq plan.tasks[f]
    /\ deferred \subseteq Planned(plan)
    /\ phase = "idle" => plan = NoPlan
    /\ Contracting => /\ todo = plan.tasks
                      /\ \A i \in DOMAIN jobs : jobs[i].tasks = {} /\ jobs[i].at = Null
    /\ phase = "drained" => deferred = {}

\* What the statements of the job j have put into the graph so far: the files
\* come before the functions, and a function's node before its CONTAINS edge.
InStep(j, p, fs, co, sf) ==
    /\ \A t \in j.tasks : t[1] \in DOMAIN j.heads \/ sf[t[1]].live
    /\ j.at # Null =>
         /\ sf[j.at[1]].live
         /\ j.step \in {"contain", "relate"} =>
              fs[j.at[2]].live /\ fs[j.at[2]].hash = PlanBody(p, j.at)
         /\ j.step = "relate" => j.at \in co

WritesOK == \A i \in DOMAIN jobs : InStep(jobs[i], plan, func, contains, sfile)

\* A task is in the graph, or still on its way there.
Carries(j, t) == t \in j.tasks \/ j.at = t
Pending(t) ==
    \/ t[2] \in todo[t[1]]
    \/ t \in deferred
    \/ \E i \in DOMAIN jobs : Carries(jobs[i], t)
Written(t, p, fs, co, sf) ==
    /\ sf[t[1]].live
    /\ t \in co
    /\ fs[t[2]] = [live |-> TRUE, hash |-> PlanBody(p, t), edges |-> PlanBody(p, t)]

NothingLost ==
    ~errors => \A t \in Planned(plan) :
        PlanBody(plan, t) \in IO =>
            Pending(t) \/ Written(t, plan, func, contains, sfile)

\* The soft-deletes of an incremental run spare what is up to date.
SparesWritten ==
    Contracting /\ ~plan.force =>
        \A t \in Slots :
            t[2] \in DefinedIn(plan.snap, t[1]) /\ Written(t, plan, func, contains, sfile)
                => t[2] \notin plan.delFuncs

IInv ==
    /\ TypeOK
    /\ UniqueIds(disk)
    /\ PlanOK(plan)
    /\ WorkOK
    /\ WritesOK
    /\ NothingLost
    /\ SparesWritten

LEMMA SlotNotNull == \A t \in Slots : t # Null
BY DEF Slots, Null

--------------------------------------------------------------------------------
\* The rest of a queue without its i-th entry: the other entries, and no more.
Minus(q, i) == SubSeq(q, 1, i - 1) \o SubSeq(q, i + 1, Len(q))

LEMMA WithoutOne ==
    ASSUME NEW S, NEW q \in Seq(S), NEW i \in DOMAIN q
    PROVE  /\ Minus(q, i) \in Seq(S)
           /\ \A k \in DOMAIN Minus(q, i) : \E m \in DOMAIN q : Minus(q, i)[k] = q[m]
           /\ \A m \in DOMAIN q :
                 m # i => \E k \in DOMAIN Minus(q, i) : Minus(q, i)[k] = q[m]
<1> DEFINE a == SubSeq(q, 1, i - 1)
           b == SubSeq(q, i + 1, Len(q))
           r == Minus(q, i)
<1>1. Len(q) \in Nat /\ DOMAIN q = 1..Len(q) /\ i \in 1..Len(q) /\ \A m \in 1..Len(q) : q[m] \in S
    BY LenProperties, ElementOfSeq
<1>2. /\ a \in Seq(S) /\ Len(a) = i - 1
      /\ \A k \in 1..(i - 1) : a[k] = q[k]
  <2>1. \A k \in 1..(i - 1) : q[k] \in S
    BY <1>1
  <2>2. /\ a \in Seq(S)
        /\ Len(a) = IF 1 <= i - 1 THEN (i - 1) - 1 + 1 ELSE 0
        /\ \A k \in 1..((i - 1) - 1 + 1) : a[k] = q[1 + k - 1]
    BY <1>1, <2>1, SubSeqProperties
  <2> HIDE DEF a
  <2> QED
    BY <1>1, <2>2
<1>3. /\ b \in Seq(S) /\ Len(b) = Len(q) - i
      /\ \A k \in 1..(Len(q) - i) : b[k] = q[i + k]
  <2>1. \A k \in (i + 1)..Len(q) : q[k] \in S
    BY <1>1
  <2>2. /\ b \in Seq(S)
        /\ Len(b) = IF i + 1 <= Len(q) THEN Len(q) - (i + 1) + 1 ELSE 0
        /\ \A k \in 1..(Len(q) - (i + 1) + 1) : b[k] = q[(i + 1) + k - 1]
    BY <1>1, <2>1, SubSeqProperties
  <2> HIDE DEF b
  <2>3. \A k \in 1..(Len(q) - i) : (i + 1) + k - 1 = i + k /\ k \in 1..(Len(q) - (i + 1) + 1)
    BY <1>1
  <2> QED
    BY <1>1, <2>2, <2>3
<1>4. r = a \o b
    BY DEF Minus
<1> HIDE DEF a, b, r
<1>5. /\ r \in Seq(S) /\ DOMAIN r = 1..(Len(q) - 1)
      /\ \A k \in 1..(Len(q) - 1) : r[k] = IF k <= i - 1 THEN a[k] ELSE b[k - (i - 1)]
  <2>0. /\ a \o b \in Seq(S) /\ Len(a \o b) = Len(a) + Len(b)
        /\ \A k \in 1..(Len(a) + Len(b)) :
              (a \o b)[k] = IF k <= Len(a) THEN a[k] ELSE b[k - Len(a)]
    <3>1. a \in Seq(S) /\ b \in Seq(S)
      BY <1>2, <1>3
    <3> QED
      BY <3>1, ConcatProperties, Zenon
  <2>1. /\ r \in Seq(S) /\ Len(r) = Len(a) + Len(b)
        /\ \A k \in 1..(Len(a) + Len(b)) : r[k] = IF k <= Len(a) THEN a[k] ELSE b[k - Len(a)]
    BY <1>4, <2>0, Zenon
  <2>2. Len(a) + Len(b) = Len(q) - 1
    BY <1>1, <1>2, <1>3
  <2> QED
    BY <1>2, <2>1, <2>2, LenProperties
<1>6. ASSUME NEW k \in DOMAIN r PROVE \E m \in DOMAIN q : r[k] = q[m]
  <2>0. k \in Int /\ i \in Int /\ 1 <= k /\ k <= Len(q) - 1 /\ 1 <= i /\ i <= Len(q)
    BY <1>1, <1>5, <1>6
  <2>1. CASE k <= i - 1
    <3>1. k \in 1..(i - 1) /\ k \in 1..Len(q) /\ k \in 1..(Len(q) - 1)
      BY <1>1, <2>0, <2>1
    <3> QED
      BY <1>1, <1>2, <1>5, <2>1, <3>1
  <2>2. CASE k > i - 1
    <3> DEFINE n == k - (i - 1)
    <3>1. n \in 1..(Len(q) - i) /\ i + n = k + 1
      <4>1. k >= i
        BY <2>0, <2>2
      <4> QED
        BY <1>1, <2>0, <4>1
    <3>2. k + 1 \in 1..Len(q) /\ ~(k <= i - 1) /\ k \in 1..(Len(q) - 1)
      BY <1>1, <2>0, <2>2
    <3>3. r[k] = b[n]
      BY <1>5, <3>2
    <3> HIDE DEF n
    <3>4. b[n] = q[k + 1]
      BY <1>3, <3>1
    <3> QED
      BY <1>1, <3>2, <3>3, <3>4
  <2>3. k <= i - 1 \/ k > i - 1
    BY <2>0
  <2> QED
    BY <2>1, <2>2, <2>3, Zenon
<1>7. ASSUME NEW m \in DOMAIN q, m # i PROVE \E k \in DOMAIN r : r[k] = q[m]
  <2>0. m \in Int /\ i \in Int /\ 1 <= m /\ m <= Len(q) /\ 1 <= i /\ i <= Len(q)
    BY <1>1, <1>7
  <2>1. CASE m < i
    <3>1. m \in 1..(i - 1) /\ m <= i - 1 /\ m \in 1..(Len(q) - 1)
      BY <1>1, <2>0, <2>1
    <3> QED
      BY <1>2, <1>5, <3>1
  <2>2. CASE m > i
    <3> DEFINE n == (m - 1) - (i - 1)
    <3>1. n \in 1..(Len(q) - i) /\ i + n = m
      BY <1>1, <2>0, <2>2
    <3>2. m - 1 \in 1..(Len(q) - 1) /\ ~(m - 1 <= i - 1)
      BY <1>1, <2>0, <2>2
    <3>3. r[m - 1] = b[n]
      BY <1>5, <3>2
    <3> HIDE DEF n
    <3>4. b[n] = q[m]
      BY <1>3, <3>1
    <3> QED
      BY <1>5, <3>2, <3>3, <3>4
  <2>3. m < i \/ m > i
    BY <1>7, <2>0
  <2> QED
    BY <2>1, <2>2, <2>3, Zenon
<1> QED
    BY <1>5, <1>6, <1>7 DEF r

\* A task of the plan names a function of the snapshot, and no other task does.
LEMMA PlannedTask ==
    ASSUME NEW p, PlanOK(p), NEW t \in Planned(p)
    PROVE  /\ t \in Slots /\ t = <<t[1], t[2]>>
           /\ t[1] \in Sources /\ t[1] \in Files /\ t[2] \in Funcs
           /\ t[2] \in p.tasks[t[1]] /\ t[2] \in DefinedIn(p.snap, t[1])
           /\ p.snap[t[1]] \in Contents
           /\ PlanBody(p, t) \in Bodies
           /\ t # Null
           /\ \A u \in Planned(p) : u[2] = t[2] => u = t
<1>1. /\ t \in Slots /\ t = <<t[1], t[2]>> /\ t[1] \in Sources /\ t[1] \in Files /\ t[2] \in Funcs
      /\ t[2] \in p.tasks[t[1]] /\ t # Null
  <2>1. t \in Slots /\ t[2] \in p.tasks[t[1]]
    BY DEF Planned
  <2>2. t = <<t[1], t[2]>> /\ t[1] \in Sources /\ t[2] \in Funcs
    BY <2>1 DEF Slots
  <2>3. t # Null
    BY <2>2 DEF Null
  <2> QED
    BY <2>1, <2>2, <2>3 DEF Files
<1>2. t[2] \in DefinedIn(p.snap, t[1])
    BY <1>1 DEF PlanOK
<1>3. p.snap[t[1]] \in Contents
    BY <1>1, <1>2 DEF PlanOK, PlanSet, DefinedIn
<1>4. PlanBody(p, t) \in Bodies
  <2>1. t[2] \in DOMAIN Defs[p.snap[t[1]]]
    BY <1>2 DEF DefinedIn
  <2> QED
    BY <1>3, <2>1, DefsAssumption DEF PlanBody, Body
<1>5. ASSUME NEW u \in Planned(p), u[2] = t[2] PROVE u = t
  <2>1. u = <<u[1], u[2]>> /\ u[1] \in Sources /\ u[2] \in p.tasks[u[1]]
    BY DEF Planned, Slots
  <2>2. u[2] \in DefinedIn(p.snap, u[1])
    BY <2>1 DEF PlanOK
  <2>3. u[1] = t[1]
    <3>1. DefinedIn(p.snap, u[1]) \cap DefinedIn(p.snap, t[1]) # {}
      BY <1>2, <1>5, <2>2
    <3> QED
      BY <1>1, <2>1, <3>1 DEF PlanOK, UniqueIds
  <2> QED
    BY <1>1, <1>5, <2>1, <2>3
<1> QED
    BY <1>1, <1>2, <1>3, <1>4, <1>5

\* What a writer leaves behind of its job takes the job's place in the queue.
LEMMA Continued ==
    ASSUME jobs \in Seq(JobSet), NEW i \in DOMAIN jobs, NEW job \in JobSet, Continue(i, job)
    PROVE  /\ jobs' \in Seq(JobSet)
           /\ \A k \in DOMAIN jobs' : jobs'[k] = job \/ \E m \in DOMAIN jobs : jobs'[k] = jobs[m]
           /\ \A m \in DOMAIN jobs : m # i => \E k \in DOMAIN jobs' : jobs'[k] = jobs[m]
           /\ \/ job.heads = Null /\ job.tasks = {} /\ job.at = Null
              \/ \E k \in DOMAIN jobs' : jobs'[k] = job
<1>1. DOMAIN jobs = 1..Len(jobs)
    BY LenProperties
<1>2. CASE job.heads = Null /\ job.tasks = {} /\ job.at = Null
  <2>1. jobs' = Minus(jobs, i)
    BY <1>2 DEF Continue, Without, Minus
  <2>2. /\ jobs' \in Seq(JobSet)
        /\ \A k \in DOMAIN jobs' : \E m \in DOMAIN jobs : jobs'[k] = jobs[m]
        /\ \A m \in DOMAIN jobs : m # i => \E k \in DOMAIN jobs' : jobs'[k] = jobs[m]
    BY <2>1, WithoutOne, Zenon
  <2> QED
    BY <1>2, <2>2
<1>3. CASE ~(job.heads = Null /\ job.tasks = {} /\ job.at = Null)
  <2>1. jobs' = [jobs EXCEPT ![i] = job]
    BY <1>3 DEF Continue
  <2>2. /\ jobs' \in Seq(JobSet) /\ Len(jobs') = Len(jobs)
        /\ \A k \in 1..Len(jobs) : jobs'[k] = IF k = i THEN job ELSE jobs[k]
    BY <1>1, <2>1, ExceptSeq
  <2>3. DOMAIN jobs' = DOMAIN jobs
    BY <1>1, <2>2, LenProperties
  <2> QED
    BY <1>1, <2>2, <2>3
<1> QED
    BY <1>2, <1>3

\* A job that is dropped takes nothing else with it.
LEMMA Dropped ==
    ASSUME jobs \in Seq(JobSet), NEW i \in DOMAIN jobs, jobs' = Without(i)
    PROVE  /\ jobs' \in Seq(JobSet)
           /\ \A k \in DOMAIN jobs' : \E m \in DOMAIN jobs : jobs'[k] = jobs[m]
           /\ \A m \in DOMAIN jobs : m # i => \E k \in DOMAIN jobs' : jobs'[k] = jobs[m]
<1>1. jobs' = Minus(jobs, i)
    BY DEF Without, Minus
<1>2. /\ Minus(jobs, i) \in Seq(JobSet)
      /\ \A k \in DOMAIN Minus(jobs, i) : \E m \in DOMAIN jobs : Minus(jobs, i)[k] = jobs[m]
      /\ \A m \in DOMAIN jobs :
            m # i => \E k \in DOMAIN Minus(jobs, i) : Minus(jobs, i)[k] = jobs[m]
    BY WithoutOne, Zenon
<1> QED
    BY <1>1, <1>2

\* The writers work on jobs of the queue.
LEMMA WritingInQueue ==
    ASSUME jobs \in Seq(JobSet), NEW i \in Writing
    PROVE  i \in DOMAIN jobs /\ jobs[i] \in JobSet
<1>1. Len(jobs) \in Nat /\ DOMAIN jobs = 1..Len(jobs) /\ \A k \in 1..Len(jobs) : jobs[k] \in JobSet
    BY LenProperties, ElementOfSeq
<1>2. WriteConcurrency \in Nat
    BY BoundsAssumption
<1> QED
    BY <1>1, <1>2 DEF Writing, Least

\* One statement of a writer: if what is left of its job is in step with the
\* graph, if no other job falls out of step, and if every task the job carried
\* is still carried or in the graph, then nothing is lost.
LEMMA WriterMoves ==
    ASSUME IInv, phase \in {"extract", "drained"},
           NEW i \in DOMAIN jobs, NEW job,
           Continue(i, job), WriteOnly, errors' = errors,
           JobOK(job, plan),
           InStep(job, plan, func', contains', sfile'),
           \A j : JobOK(j, plan) /\ InStep(j, plan, func, contains, sfile)
                     => InStep(j, plan, func', contains', sfile'),
           \A t \in Planned(plan) :
               Carries(jobs[i], t) \/ Written(t, plan, func, contains, sfile)
                  => Carries(job, t) \/ Written(t, plan, func', contains', sfile')
    PROVE  WorkOK' /\ WritesOK' /\ NothingLost' /\ SparesWritten'
<1>1. /\ phase' = phase /\ plan' = plan /\ todo' = todo /\ deferred' = deferred
      /\ phase # "idle" /\ ~Contracting
    BY DEF WriteOnly, Contracting
<1>2. jobs \in Seq(JobSet) /\ job \in JobSet /\ \A k \in DOMAIN jobs : JobOK(jobs[k], plan)
    BY DEF IInv, WorkOK, JobOK
<1>3. /\ jobs' \in Seq(JobSet)
      /\ \A k \in DOMAIN jobs' : jobs'[k] = job \/ \E m \in DOMAIN jobs : jobs'[k] = jobs[m]
      /\ \A m \in DOMAIN jobs : m # i => \E k \in DOMAIN jobs' : jobs'[k] = jobs[m]
      /\ \/ job.heads = Null /\ job.tasks = {} /\ job.at = Null
         \/ \E k \in DOMAIN jobs' : jobs'[k] = job
    BY <1>2, Continued
<1>4. WorkOK'
  <2>1. \A k \in DOMAIN jobs' : JobOK(jobs'[k], plan)
    BY <1>2, <1>3
  <2> QED
    BY <1>1, <1>3, <2>1 DEF IInv, WorkOK, Contracting
<1>5. WritesOK'
  <2>1. \A k \in DOMAIN jobs' : InStep(jobs'[k], plan, func', contains', sfile')
    BY <1>2, <1>3 DEF IInv, WritesOK
  <2> QED
    BY <1>1, <2>1 DEF WritesOK
<1>6. NothingLost'
  <2> SUFFICES ASSUME ~errors, NEW t \in Planned(plan), PlanBody(plan, t) \in IO
               PROVE  Pending(t)' \/ Written(t, plan, func', contains', sfile')
    BY <1>1 DEF NothingLost
  <2>1. t # Null
    BY PlannedTask DEF IInv
  <2>2. Carries(job, t) => Pending(t)'
    <3> SUFFICES ASSUME Carries(job, t) PROVE \E k \in DOMAIN jobs' : Carries(jobs'[k], t)
      BY DEF Pending
    <3> QED
      BY <1>3, <2>1 DEF Carries
  <2>3. CASE Written(t, plan, func, contains, sfile)
    BY <2>2, <2>3
  <2>4. CASE t[2] \in todo[t[1]] \/ t \in deferred
    BY <1>1, <2>4 DEF Pending
  <2>5. CASE \E m \in DOMAIN jobs : Carries(jobs[m], t)
    <3>1. PICK m \in DOMAIN jobs : Carries(jobs[m], t)
      BY <2>5
    <3>2. CASE m = i
      BY <2>2, <3>1, <3>2
    <3>3. CASE m # i
      BY <1>3, <3>1, <3>3 DEF Pending
    <3> QED
      BY <3>2, <3>3
  <2> QED
    BY <2>3, <2>4, <2>5 DEF IInv, NothingLost, Pending
<1>7. SparesWritten'
    BY <1>1 DEF SparesWritten, Contracting
<1> QED
    BY <1>4, <1>5, <1>6, <1>7

--------------------------------------------------------------------------------
\* The statements of the writers.

FuncSet == [Funcs -> [live : BOOLEAN, hash : Bodies \cup {None}, edges : Bodies \cup {None}]]
FileSet == [Files -> [live : BOOLEAN, hash : Hashes]]

\* What a writer does not touch keeps its type.
LEMMA WriterTypes ==
    ASSUME IInv, phase \in {"extract", "drained"}, WriteOnly,
           errors' \in BOOLEAN, WorkOK',
           func' \in FuncSet, contains' \subseteq Slots, sfile' \in FileSet
    PROVE  TypeOK' /\ UniqueIds(disk)' /\ PlanOK(plan)'
<1>1. /\ disk' = disk /\ seen' = seen /\ edits' = edits /\ repoHash' = repoHash /\ phase' = phase
      /\ plan' = plan /\ todo' = todo /\ marked' = marked /\ deferred' = deferred /\ faults' = faults
    BY DEF WriteOnly, world
<1>2. UniqueIds(disk)'
    BY <1>1 DEF IInv, UniqueIds, DefinedIn
<1>3. PlanOK(plan)'
  <2>1. PlanOK(plan)
    BY DEF IInv
  <2> QED
    BY <1>1, <2>1 DEF PlanOK, PlanSet, UniqueIds, DefinedIn, Present
<1>4. \A k \in DOMAIN jobs' : jobs'[k].tasks \subseteq Sources \X Funcs
  <2> SUFFICES ASSUME NEW k \in DOMAIN jobs' PROVE jobs'[k].tasks \subseteq Sources \X Funcs
    OBVIOUS
  <2>1. jobs'[k] \in JobSet
    BY LenProperties, ElementOfSeq DEF WorkOK
  <2> QED
    BY <2>1 DEF JobSet, Slots
<1> QED
    BY <1>1, <1>2, <1>3, <1>4 DEF IInv, TypeOK, FuncSet, FileSet, Slots

\* A job stays in step while files come alive, links are added, and what is
\* written of a planned function stays.
LEMMA StaysInStep ==
    ASSUME NEW p, PlanOK(p), NEW j, JobOK(j, p),
           NEW fs, NEW co, NEW sf, NEW fs2, NEW co2, NEW sf2,
           InStep(j, p, fs, co, sf),
           \A f \in Files : sf[f].live => sf2[f].live,
           co \subseteq co2,
           \A u \in Planned(p) : fs[u[2]].live /\ fs[u[2]].hash = PlanBody(p, u)
                                   => fs2[u[2]].live /\ fs2[u[2]].hash = PlanBody(p, u)
    PROVE  InStep(j, p, fs2, co2, sf2)
<1>1. j.tasks \subseteq Planned(p) /\ (j.at # Null => j.at \in Planned(p))
    BY DEF JobOK
<1>2. \A t \in Planned(p) : t[1] \in Files
    BY PlannedTask
<1>3. ASSUME NEW t \in j.tasks PROVE t[1] \in DOMAIN j.heads \/ sf2[t[1]].live
    BY <1>1, <1>2 DEF InStep
<1>4. ASSUME j.at # Null
      PROVE  /\ sf2[j.at[1]].live
             /\ j.step \in {"contain", "relate"} =>
                  fs2[j.at[2]].live /\ fs2[j.at[2]].hash = PlanBody(p, j.at)
             /\ j.step = "relate" => j.at \in co2
    BY <1>1, <1>2, <1>4 DEF InStep
<1> QED
    BY <1>3, <1>4 DEF InStep

\* What the code knows of the job it works on.
LEMMA JobAtWork ==
    ASSUME IInv, NEW i \in Writing
    PROVE  /\ i \in DOMAIN jobs /\ jobs[i] \in JobSet
           /\ JobOK(jobs[i], plan)
           /\ InStep(jobs[i], plan, func, contains, sfile)
           /\ PlanOK(plan)
           /\ func \in FuncSet /\ contains \subseteq Slots /\ sfile \in FileSet
           /\ errors \in BOOLEAN
<1>1. i \in DOMAIN jobs /\ jobs[i] \in JobSet
    BY WritingInQueue DEF IInv, WorkOK
<1>2. JobOK(jobs[i], plan) /\ InStep(jobs[i], plan, func, contains, sfile)
    BY <1>1 DEF IInv, WorkOK, WritesOK
<1> QED
    BY <1>1, <1>2 DEF IInv, TypeOK, FuncSet, FileSet, Slots

\* One statement for the job old, of which it leaves job: the files it writes,
\* the functions and links it touches are among those the job is about.
Narrows(job, old) ==
    /\ DOMAIN job.heads \subseteq DOMAIN old.heads
    /\ \A f \in DOMAIN job.heads : job.heads[f] = old.heads[f]
    /\ \A t \in Slots : Carries(job, t) => Carries(old, t)
    /\ job.at # Null => old.at # Null \/ DOMAIN old.heads = {}

FilesFollow(job, old) ==
    \A f \in Files : sfile'[f] = IF f \in DOMAIN old.heads \ DOMAIN job.heads
                                 THEN [live |-> TRUE, hash |-> old.heads[f]] ELSE sfile[f]

LinksFollow(old) ==
    /\ contains \subseteq contains'
    /\ \A t \in contains' \ contains : Carries(old, t) /\ func'[t[2]].hash = PlanBody(plan, t)

FuncsFollow(job, old) ==
    /\ \A fn \in Funcs : func[fn].live => func'[fn].live
    /\ \A fn \in Funcs :
          \/ func'[fn] = func[fn]
          \/ \E u \in Slots :
                /\ u[2] = fn /\ Carries(old, u)
                /\ job.at = u \/ (old.at = u /\ func'[fn].edges = func'[fn].hash)
                /\ \/ func'[fn].live = func[fn].live /\ func'[fn].hash = func[fn].hash
                   \/ func'[fn].hash = PlanBody(plan, u)
    /\ old.at # Null => job.at = old.at \/ Written(old.at, plan, func', contains', sfile')

Statement(i, job) ==
    /\ Continue(i, job) /\ WriteOnly /\ errors' = errors
    /\ func' \in FuncSet /\ contains' \subseteq Slots /\ sfile' \in FileSet
    /\ JobOK(job, plan)
    /\ InStep(job, plan, func', contains', sfile')
    /\ \A j : JobOK(j, plan) /\ InStep(j, plan, func, contains, sfile)
                 => InStep(j, plan, func', contains', sfile')
    /\ \A t \in Planned(plan) :
          Carries(jobs[i], t) \/ Written(t, plan, func, contains, sfile)
             => Carries(job, t) \/ Written(t, plan, func', contains', sfile')
    /\ Narrows(job, jobs[i])
    /\ FilesFollow(job, jobs[i])
    /\ LinksFollow(jobs[i])
    /\ FuncsFollow(job, jobs[i])

LEMMA StatementKeeps ==
    ASSUME IInv, phase \in {"extract", "drained"}, NEW i \in Writing, NEW job, Statement(i, job)
    PROVE  IInv'
<1>1. i \in DOMAIN jobs
    BY JobAtWork
<1>2. /\ Continue(i, job) /\ WriteOnly /\ errors' = errors
      /\ func' \in FuncSet /\ contains' \subseteq Slots /\ sfile' \in FileSet
      /\ JobOK(job, plan)
      /\ InStep(job, plan, func', contains', sfile')
      /\ \A j : JobOK(j, plan) /\ InStep(j, plan, func, contains, sfile)
                   => InStep(j, plan, func', contains', sfile')
      /\ \A t \in Planned(plan) :
            Carries(jobs[i], t) \/ Written(t, plan, func, contains, sfile)
               => Carries(job, t) \/ Written(t, plan, func', contains', sfile')
    BY DEF Statement
<1>3. WorkOK' /\ WritesOK' /\ NothingLost' /\ SparesWritten'
    BY <1>1, <1>2, WriterMoves
<1>4. errors' \in BOOLEAN
    BY <1>2 DEF IInv, TypeOK
<1>5. TypeOK' /\ UniqueIds(disk)' /\ PlanOK(plan)'
    BY <1>2, <1>3, <1>4, WriterTypes
<1> QED
    BY <1>3, <1>5 DEF IInv

LEMMA WriteFileMoves ==
    ASSUME IInv, phase \in {"extract", "drained"}, NEW i \in Writing, WriteFile(i)
    PROVE  \E job : Statement(i, job)
<1>1. PICK f \in DOMAIN jobs[i].heads :
         /\ sfile' = [sfile EXCEPT ![f] = [live |-> TRUE, hash |-> jobs[i].heads[f]]]
         /\ Continue(i, [jobs[i] EXCEPT !.heads = [g \in DOMAIN @ \ {f} |-> @[g]]])
    BY DEF WriteFile
<1>2. WriteOnly /\ func' = func /\ contains' = contains /\ errors' = errors
    BY DEF WriteFile
<1> DEFINE rest == [g \in DOMAIN jobs[i].heads \ {f} |-> jobs[i].heads[g]]
           job  == [jobs[i] EXCEPT !.heads = rest]
<1>3. /\ i \in DOMAIN jobs /\ jobs[i] \in JobSet /\ JobOK(jobs[i], plan) /\ PlanOK(plan)
      /\ InStep(jobs[i], plan, func, contains, sfile)
      /\ func \in FuncSet /\ contains \subseteq Slots /\ sfile \in FileSet /\ errors \in BOOLEAN
    BY JobAtWork
<1>4. PICK D \in SUBSET Files : jobs[i].heads \in [D -> Contents \cup {Incomplete}]
    BY <1>3 DEF JobSet, Heads
<1>5. f \in Files /\ jobs[i].heads[f] \in Hashes
    BY <1>1, <1>4 DEF Hashes
<1>6. sfile' \in FileSet /\ sfile'[f].live /\ \A g \in Files : sfile[g].live => sfile'[g].live
    BY <1>1, <1>3, <1>5 DEF FileSet
<1>7. rest \in Heads /\ DOMAIN rest = DOMAIN jobs[i].heads \ {f}
  <2>1. rest \in [D \ {f} -> Contents \cup {Incomplete}]
    BY <1>4
  <2> QED
    BY <2>1 DEF Heads
<1>8. Continue(i, job)
    BY <1>1
<1> HIDE DEF rest
<1>9. /\ job \in JobSet /\ job.heads = rest /\ job.kind = jobs[i].kind
      /\ job.tasks = jobs[i].tasks /\ job.at = jobs[i].at /\ job.step = jobs[i].step
    BY <1>3, <1>7 DEF JobSet
<1> HIDE DEF job
<1>10. JobOK(job, plan)
    BY <1>3, <1>9 DEF JobOK
<1>11. \A j : JobOK(j, plan) /\ InStep(j, plan, func, contains, sfile)
                 => InStep(j, plan, func', contains', sfile')
    BY <1>2, <1>3, <1>6, StaysInStep
<1>12. InStep(job, plan, func', contains', sfile')
  <2>1. InStep(jobs[i], plan, func', contains', sfile')
    BY <1>3, <1>11
  <2>2. \A t \in job.tasks : t[1] \in DOMAIN job.heads \/ sfile'[t[1]].live
    BY <1>6, <1>7, <1>9, <2>1 DEF InStep
  <2> QED
    BY <1>9, <2>1, <2>2 DEF InStep
<1>13. \A t \in Planned(plan) :
          Carries(jobs[i], t) \/ Written(t, plan, func, contains, sfile)
             => Carries(job, t) \/ Written(t, plan, func', contains', sfile')
  <2> SUFFICES ASSUME NEW t \in Planned(plan),
                      Carries(jobs[i], t) \/ Written(t, plan, func, contains, sfile)
               PROVE  Carries(job, t) \/ Written(t, plan, func', contains', sfile')
    OBVIOUS
  <2>1. t[1] \in Files
    BY <1>3, PlannedTask
  <2> QED
    BY <1>2, <1>6, <1>9, <2>1 DEF Carries, Written
<1>14. Narrows(job, jobs[i])
    BY <1>7, <1>9 DEF Narrows, Carries, rest
<1>15. FilesFollow(job, jobs[i])
    BY <1>1, <1>3, <1>5, <1>7, <1>9 DEF FilesFollow, FileSet
<1>16. LinksFollow(jobs[i]) /\ FuncsFollow(job, jobs[i])
    BY <1>2, <1>9 DEF LinksFollow, FuncsFollow
<1> QED
    BY <1>2, <1>3, <1>6, <1>8, <1>10, <1>11, <1>12, <1>13, <1>14, <1>15, <1>16 DEF Statement

LEMMA DetachFuncMoves ==
    ASSUME IInv, phase \in {"extract", "drained"}, NEW i \in Writing, DetachFunc(i)
    PROVE  \E job : Statement(i, job)
<1>1. PICK t \in jobs[i].tasks :
         /\ func' = [func EXCEPT ![t[2]].edges = None]
         /\ Continue(i, [jobs[i] EXCEPT !.at = t, !.tasks = @ \ {t}, !.step = "merge"])
    BY DEF DetachFunc
<1>2. /\ WriteOnly /\ contains' = contains /\ sfile' = sfile /\ errors' = errors
      /\ jobs[i].heads = Null /\ jobs[i].at = Null
    BY DEF DetachFunc
<1> DEFINE job == [jobs[i] EXCEPT !.at = t, !.tasks = @ \ {t}, !.step = "merge"]
<1>3. /\ i \in DOMAIN jobs /\ jobs[i] \in JobSet /\ JobOK(jobs[i], plan) /\ PlanOK(plan)
      /\ InStep(jobs[i], plan, func, contains, sfile)
      /\ func \in FuncSet /\ contains \subseteq Slots /\ sfile \in FileSet /\ errors \in BOOLEAN
    BY JobAtWork
<1>4. t \in Planned(plan) /\ t # Null /\ t \in Slots /\ t[2] \in Funcs /\ t[1] \in Files
    BY <1>3, PlannedTask DEF JobOK
<1>5. func' \in FuncSet
    BY <1>1, <1>3, <1>4 DEF FuncSet
<1>6. \A fn \in Funcs : /\ func'[fn].live = func[fn].live /\ func'[fn].hash = func[fn].hash
                        /\ fn # t[2] => func'[fn] = func[fn]
    BY <1>1, <1>3, <1>4 DEF FuncSet
<1>7. Continue(i, job)
    BY <1>1
<1>8. /\ job \in JobSet /\ job.heads = jobs[i].heads /\ job.kind = jobs[i].kind
      /\ job.tasks = jobs[i].tasks \ {t} /\ job.at = t /\ job.step = "merge"
    BY <1>3, <1>4 DEF JobSet
<1> HIDE DEF job
<1>9. JobOK(job, plan)
    BY <1>1, <1>3, <1>4, <1>8 DEF JobOK
<1>10. \A j : JobOK(j, plan) /\ InStep(j, plan, func, contains, sfile)
                 => InStep(j, plan, func', contains', sfile')
  <2>1. \A u \in Planned(plan) : func[u[2]].live /\ func[u[2]].hash = PlanBody(plan, u)
                                   => func'[u[2]].live /\ func'[u[2]].hash = PlanBody(plan, u)
    BY <1>3, <1>6, PlannedTask
  <2> QED
    BY <1>2, <1>3, <2>1, StaysInStep
<1>11. InStep(job, plan, func', contains', sfile')
  <2>1. DOMAIN jobs[i].heads = {}
    BY <1>2 DEF Null
  <2>2. \A u \in jobs[i].tasks : sfile[u[1]].live
    BY <1>3, <2>1 DEF InStep
  <2> QED
    BY <1>1, <1>2, <1>8, <2>2 DEF InStep
<1>12. \A u \in Planned(plan) :
          Carries(jobs[i], u) \/ Written(u, plan, func, contains, sfile)
             => Carries(job, u) \/ Written(u, plan, func', contains', sfile')
  <2> SUFFICES ASSUME NEW u \in Planned(plan),
                      Carries(jobs[i], u) \/ Written(u, plan, func, contains, sfile)
               PROVE  Carries(job, u) \/ Written(u, plan, func', contains', sfile')
    OBVIOUS
  <2>1. u[2] \in Funcs /\ u # Null /\ (u[2] = t[2] => u = t)
    BY <1>3, <1>4, PlannedTask
  <2>2. CASE u = t
    BY <1>8, <2>2 DEF Carries
  <2>3. CASE u # t
    BY <1>2, <1>6, <1>8, <2>1, <2>3 DEF Carries, Written
  <2> QED
    BY <2>2, <2>3
<1>13. Narrows(job, jobs[i])
    BY <1>1, <1>2, <1>8 DEF Narrows, Carries, Null
<1>14. FilesFollow(job, jobs[i])
    BY <1>2, <1>8 DEF FilesFollow
<1>15. LinksFollow(jobs[i])
    BY <1>2 DEF LinksFollow
<1>16. FuncsFollow(job, jobs[i])
    BY <1>1, <1>2, <1>4, <1>6, <1>8 DEF FuncsFollow, Carries
<1> QED
    BY <1>2, <1>3, <1>5, <1>7, <1>9, <1>10, <1>11, <1>12, <1>13, <1>14, <1>15, <1>16 DEF Statement

\* The function a writer has under way, and where it stands.
LEMMA FuncUnderWay ==
    ASSUME IInv, NEW i \in Writing, NEW step, At(i, step)
    PROVE  /\ jobs[i].at \in Planned(plan) /\ jobs[i].at \in Slots
           /\ Under(i) = jobs[i].at[2] /\ Under(i) \in Funcs
           /\ NewBody(i) = PlanBody(plan, jobs[i].at) /\ NewBody(i) \in Bodies
           /\ jobs[i].at # Null /\ jobs[i].step = step
           /\ sfile[jobs[i].at[1]].live
           /\ \A u \in Planned(plan) : u[2] = Under(i) => u = jobs[i].at
<1>1. /\ JobOK(jobs[i], plan) /\ PlanOK(plan) /\ InStep(jobs[i], plan, func, contains, sfile)
    BY JobAtWork
<1>2. jobs[i].at # Null /\ jobs[i].step = step /\ Under(i) = jobs[i].at[2]
    BY DEF At, Under
<1>3. jobs[i].at \in Planned(plan)
    BY <1>1, <1>2 DEF JobOK
<1>4. NewBody(i) = PlanBody(plan, jobs[i].at)
    BY DEF NewBody, PlanBody
<1>5. /\ jobs[i].at \in Slots /\ jobs[i].at[2] \in Funcs /\ PlanBody(plan, jobs[i].at) \in Bodies
      /\ \A u \in Planned(plan) : u[2] = jobs[i].at[2] => u = jobs[i].at
    BY <1>1, <1>3, PlannedTask
<1>6. sfile[jobs[i].at[1]].live
    BY <1>1, <1>2 DEF InStep
<1> QED
    BY <1>2, <1>3, <1>4, <1>5, <1>6

LEMMA MergeFuncMoves ==
    ASSUME IInv, phase \in {"extract", "drained"}, NEW i \in Writing, MergeFunc(i)
    PROVE  \E job : Statement(i, job)
<1> DEFINE job == [jobs[i] EXCEPT !.step = "contain"]
           t   == jobs[i].at
<1>1. /\ At(i, "merge") /\ Continue(i, job)
      /\ func' = [func EXCEPT ![Under(i)].live = TRUE, ![Under(i)].hash = NewBody(i)]
      /\ WriteOnly /\ contains' = contains /\ sfile' = sfile /\ errors' = errors
    BY DEF MergeFunc
<1>2. /\ i \in DOMAIN jobs /\ jobs[i] \in JobSet /\ JobOK(jobs[i], plan) /\ PlanOK(plan)
      /\ InStep(jobs[i], plan, func, contains, sfile)
      /\ func \in FuncSet /\ contains \subseteq Slots /\ sfile \in FileSet /\ errors \in BOOLEAN
    BY JobAtWork
<1>3. /\ t \in Planned(plan) /\ Under(i) = t[2] /\ Under(i) \in Funcs
      /\ NewBody(i) = PlanBody(plan, t) /\ NewBody(i) \in Bodies
      /\ t # Null /\ sfile[t[1]].live
      /\ \A u \in Planned(plan) : u[2] = t[2] => u = t
    BY <1>1, FuncUnderWay
<1>4. func' \in FuncSet
    BY <1>1, <1>2, <1>3 DEF FuncSet
<1>5. /\ func'[t[2]].live /\ func'[t[2]].hash = PlanBody(plan, t)
      /\ \A fn \in Funcs : fn # t[2] => func'[fn] = func[fn]
    BY <1>1, <1>2, <1>3 DEF FuncSet
<1>6. /\ job \in JobSet /\ job.heads = jobs[i].heads /\ job.kind = jobs[i].kind
      /\ job.tasks = jobs[i].tasks /\ job.at = t /\ job.step = "contain"
    BY <1>2 DEF JobSet
<1> HIDE DEF job
<1>7. JobOK(job, plan)
    BY <1>2, <1>6 DEF JobOK
<1>8. \A j : JobOK(j, plan) /\ InStep(j, plan, func, contains, sfile)
                => InStep(j, plan, func', contains', sfile')
  <2>1. \A u \in Planned(plan) : func[u[2]].live /\ func[u[2]].hash = PlanBody(plan, u)
                                   => func'[u[2]].live /\ func'[u[2]].hash = PlanBody(plan, u)
    <3> SUFFICES ASSUME NEW u \in Planned(plan),
                        func[u[2]].live /\ func[u[2]].hash = PlanBody(plan, u)
                 PROVE  func'[u[2]].live /\ func'[u[2]].hash = PlanBody(plan, u)
      OBVIOUS
    <3>1. u[2] \in Funcs /\ (u[2] = t[2] => u = t)
      BY <1>2, <1>3, PlannedTask
    <3> QED
      BY <1>5, <3>1
  <2>2. PlanOK(plan) /\ contains \subseteq contains' /\ \A f \in Files : sfile[f].live => sfile'[f].live
    BY <1>1, <1>2
  <2> QED
    BY <2>1, <2>2, StaysInStep
<1>9. InStep(job, plan, func', contains', sfile')
    BY <1>1, <1>2, <1>3, <1>5, <1>6 DEF InStep
<1>10. \A u \in Planned(plan) :
          Carries(jobs[i], u) \/ Written(u, plan, func, contains, sfile)
             => Carries(job, u) \/ Written(u, plan, func', contains', sfile')
  <2> SUFFICES ASSUME NEW u \in Planned(plan),
                      Carries(jobs[i], u) \/ Written(u, plan, func, contains, sfile)
               PROVE  Carries(job, u) \/ Written(u, plan, func', contains', sfile')
    OBVIOUS
  <2>1. u[2] \in Funcs /\ (u[2] = t[2] => u = t)
    BY <1>2, <1>3, PlannedTask
  <2> QED
    BY <1>1, <1>5, <1>6, <2>1 DEF Carries, Written
<1>11. Narrows(job, jobs[i])
    BY <1>3, <1>6 DEF Narrows, Carries
<1>12. FilesFollow(job, jobs[i])
    BY <1>1, <1>6 DEF FilesFollow
<1>13. LinksFollow(jobs[i])
    BY <1>1 DEF LinksFollow
<1>14. FuncsFollow(job, jobs[i])
  <2>1. t \in Slots /\ Carries(jobs[i], t) /\ job.at = t
    BY <1>3, <1>6 DEF Carries, Planned
  <2> QED
    BY <1>5, <1>6, <2>1 DEF FuncsFollow
<1> QED
    BY <1>1, <1>2, <1>4, <1>7, <1>8, <1>9, <1>10, <1>11, <1>12, <1>13, <1>14 DEF Statement

LEMMA ContainFuncMoves ==
    ASSUME IInv, phase \in {"extract", "drained"}, NEW i \in Writing, ContainFunc(i)
    PROVE  \E job : Statement(i, job)
<1> DEFINE job == [jobs[i] EXCEPT !.step = "relate"]
           t   == jobs[i].at
<1>1. /\ At(i, "contain") /\ Continue(i, job)
      /\ contains' = contains \cup {jobs[i].at}
      /\ WriteOnly /\ func' = func /\ sfile' = sfile /\ errors' = errors
    BY DEF ContainFunc
<1>2. /\ i \in DOMAIN jobs /\ jobs[i] \in JobSet /\ JobOK(jobs[i], plan) /\ PlanOK(plan)
      /\ InStep(jobs[i], plan, func, contains, sfile)
      /\ func \in FuncSet /\ contains \subseteq Slots /\ sfile \in FileSet /\ errors \in BOOLEAN
    BY JobAtWork
<1>3. /\ t \in Planned(plan) /\ t \in Slots /\ t # Null /\ sfile[t[1]].live
      /\ jobs[i].step = "contain"
    BY <1>1, FuncUnderWay
<1>4. contains' \subseteq Slots /\ t \in contains' /\ contains \subseteq contains'
    BY <1>1, <1>2, <1>3
<1>5. func[t[2]].live /\ func[t[2]].hash = PlanBody(plan, t)
    BY <1>2, <1>3 DEF InStep
<1>6. /\ job \in JobSet /\ job.heads = jobs[i].heads /\ job.kind = jobs[i].kind
      /\ job.tasks = jobs[i].tasks /\ job.at = t /\ job.step = "relate"
    BY <1>2 DEF JobSet
<1> HIDE DEF job
<1>7. JobOK(job, plan)
    BY <1>2, <1>6 DEF JobOK
<1>8. \A j : JobOK(j, plan) /\ InStep(j, plan, func, contains, sfile)
                => InStep(j, plan, func', contains', sfile')
  <2>1. /\ \A f \in Files : sfile[f].live => sfile'[f].live
        /\ \A u \in Planned(plan) : func[u[2]].live /\ func[u[2]].hash = PlanBody(plan, u)
                                      => func'[u[2]].live /\ func'[u[2]].hash = PlanBody(plan, u)
    BY <1>1
  <2> QED
    BY <1>2, <1>4, <2>1, StaysInStep
<1>9. InStep(job, plan, func', contains', sfile')
    BY <1>1, <1>2, <1>3, <1>4, <1>5, <1>6 DEF InStep
<1>10. \A u \in Planned(plan) :
          Carries(jobs[i], u) \/ Written(u, plan, func, contains, sfile)
             => Carries(job, u) \/ Written(u, plan, func', contains', sfile')
    BY <1>1, <1>4, <1>6 DEF Carries, Written
<1>11. Narrows(job, jobs[i])
    BY <1>3, <1>6 DEF Narrows, Carries
<1>12. FilesFollow(job, jobs[i])
    BY <1>1, <1>6 DEF FilesFollow
<1>13. LinksFollow(jobs[i])
    BY <1>1, <1>3, <1>4, <1>5 DEF LinksFollow, Carries
<1>14. FuncsFollow(job, jobs[i])
    BY <1>1, <1>6 DEF FuncsFollow
<1> QED
    BY <1>1, <1>2, <1>4, <1>7, <1>8, <1>9, <1>10, <1>11, <1>12, <1>13, <1>14 DEF Statement

LEMMA RelateFuncMoves ==
    ASSUME IInv, phase \in {"extract", "drained"}, NEW i \in Writing, RelateFunc(i)
    PROVE  \E job : Statement(i, job)
<1> DEFINE job == [jobs[i] EXCEPT !.at = Null, !.step = "detach"]
           t   == jobs[i].at
<1>1. /\ At(i, "relate") /\ Continue(i, job)
      /\ func' = [func EXCEPT ![Under(i)].edges = NewBody(i)]
      /\ WriteOnly /\ contains' = contains /\ sfile' = sfile /\ errors' = errors
    BY DEF RelateFunc
<1>2. /\ i \in DOMAIN jobs /\ jobs[i] \in JobSet /\ JobOK(jobs[i], plan) /\ PlanOK(plan)
      /\ InStep(jobs[i], plan, func, contains, sfile)
      /\ func \in FuncSet /\ contains \subseteq Slots /\ sfile \in FileSet /\ errors \in BOOLEAN
    BY JobAtWork
<1>3. /\ t \in Planned(plan) /\ Under(i) = t[2] /\ Under(i) \in Funcs
      /\ NewBody(i) = PlanBody(plan, t) /\ NewBody(i) \in Bodies
      /\ t # Null /\ sfile[t[1]].live /\ jobs[i].step = "relate"
      /\ \A u \in Planned(plan) : u[2] = t[2] => u = t
    BY <1>1, FuncUnderWay
<1>4. func' \in FuncSet
    BY <1>1, <1>2, <1>3 DEF FuncSet
<1>5. /\ func'[t[2]].edges = PlanBody(plan, t)
      /\ \A fn \in Funcs : /\ func'[fn].live = func[fn].live /\ func'[fn].hash = func[fn].hash
                           /\ fn # t[2] => func'[fn] = func[fn]
    BY <1>1, <1>2, <1>3 DEF FuncSet
<1>6. func[t[2]].live /\ func[t[2]].hash = PlanBody(plan, t) /\ t \in contains
    BY <1>2, <1>3 DEF InStep
<1>7. Written(t, plan, func', contains', sfile')
  <2>1. func'[t[2]] \in [live : BOOLEAN, hash : Bodies \cup {None}, edges : Bodies \cup {None}]
    BY <1>3, <1>4 DEF FuncSet
  <2>2. func'[t[2]].live = TRUE /\ func'[t[2]].hash = PlanBody(plan, t)
    BY <1>3, <1>5, <1>6, <2>1
  <2>3. func'[t[2]] = [live |-> TRUE, hash |-> PlanBody(plan, t), edges |-> PlanBody(plan, t)]
    BY <1>5, <2>1, <2>2
  <2> QED
    BY <1>1, <1>3, <1>6, <2>3 DEF Written
<1>8. /\ job \in JobSet /\ job.heads = jobs[i].heads /\ job.kind = jobs[i].kind
      /\ job.tasks = jobs[i].tasks /\ job.at = Null
    BY <1>2 DEF JobSet
<1> HIDE DEF job
<1>9. JobOK(job, plan)
    BY <1>2, <1>8 DEF JobOK
<1>10. \A j : JobOK(j, plan) /\ InStep(j, plan, func, contains, sfile)
                 => InStep(j, plan, func', contains', sfile')
  <2>1. \A u \in Planned(plan) : func[u[2]].live /\ func[u[2]].hash = PlanBody(plan, u)
                                   => func'[u[2]].live /\ func'[u[2]].hash = PlanBody(plan, u)
    BY <1>2, <1>5, PlannedTask
  <2>2. PlanOK(plan) /\ contains \subseteq contains' /\ \A f \in Files : sfile[f].live => sfile'[f].live
    BY <1>1, <1>2
  <2> QED
    BY <2>1, <2>2, StaysInStep
<1>11. InStep(job, plan, func', contains', sfile')
    BY <1>1, <1>2, <1>8 DEF InStep
<1>12. \A u \in Planned(plan) :
          Carries(jobs[i], u) \/ Written(u, plan, func, contains, sfile)
             => Carries(job, u) \/ Written(u, plan, func', contains', sfile')
  <2> SUFFICES ASSUME NEW u \in Planned(plan),
                      Carries(jobs[i], u) \/ Written(u, plan, func, contains, sfile), u # t
               PROVE  Carries(job, u) \/ Written(u, plan, func', contains', sfile')
    BY <1>7
  <2>1. u[2] \in Funcs /\ u[2] # t[2]
    BY <1>2, <1>3, PlannedTask
  <2> QED
    BY <1>1, <1>5, <1>8, <2>1 DEF Carries, Written
<1>13. Narrows(job, jobs[i])
  <2>1. \A u \in Slots : u # Null
    BY SlotNotNull
  <2> QED
    BY <1>8, <2>1 DEF Narrows, Carries
<1>14. FilesFollow(job, jobs[i])
    BY <1>1, <1>8 DEF FilesFollow
<1>15. LinksFollow(jobs[i])
    BY <1>1 DEF LinksFollow
<1>16. FuncsFollow(job, jobs[i])
  <2>1. t \in Slots /\ Carries(jobs[i], t) /\ func'[t[2]].edges = func'[t[2]].hash
    BY <1>3, <1>5, <1>6 DEF Carries, Planned
  <2> QED
    BY <1>5, <1>7, <2>1 DEF FuncsFollow
<1> QED
    BY <1>1, <1>2, <1>4, <1>9, <1>10, <1>11, <1>12, <1>13, <1>14, <1>15, <1>16 DEF Statement

\* A step's failures are a handful, so that counting them makes sense.
LEMMA StrikeTypes ==
    ASSUME NEW kinds, IsFiniteSet(kinds), faults \in 0..MaxFaults, Strike(kinds)
    PROVE  faults' \in 0..MaxFaults
<1>1. Cardinality(kinds) \in Nat
    BY FS_CardinalityType
<1> QED
    BY <1>1, BoundsAssumption DEF Strike

LEMMA IfFinite ==
    ASSUME NEW condition, NEW kind
    PROVE  IsFiniteSet(If(condition, kind))
<1>1. IsFiniteSet({kind}) /\ IsFiniteSet({})
    BY FS_Singleton, FS_EmptySet
<1> QED
    BY <1>1 DEF If

LEMMA WriteFailsKeeps ==
    ASSUME IInv, phase \in {"extract", "drained"}, NEW i \in Writing, WriteFails(i)
    PROVE  IInv'
<1>1. /\ i \in DOMAIN jobs /\ JobOK(jobs[i], plan) /\ errors \in BOOLEAN
      /\ jobs \in Seq(JobSet)
    BY JobAtWork DEF IInv, WorkOK
<1>2. /\ Strike(If(Blamed(jobs[i]), "writeFail") \cup If(~Blamed(jobs[i]), "eagerFail"))
      /\ jobs' = Without(i)
      /\ errors' = (errors \/ Blamed(jobs[i]))
      /\ disk' = disk /\ seen' = seen /\ edits' = edits /\ repoHash' = repoHash /\ phase' = phase
      /\ func' = func /\ contains' = contains /\ sfile' = sfile
      /\ plan' = plan /\ todo' = todo /\ marked' = marked /\ deferred' = deferred
    BY DEF WriteFails, world, graph
<1>3. /\ jobs' \in Seq(JobSet)
      /\ \A k \in DOMAIN jobs' : \E m \in DOMAIN jobs : jobs'[k] = jobs[m]
      /\ \A m \in DOMAIN jobs : m # i => \E k \in DOMAIN jobs' : jobs'[k] = jobs[m]
    BY <1>1, <1>2, Dropped
<1>4. faults' \in 0..MaxFaults
  <2>1. IsFiniteSet(If(Blamed(jobs[i]), "writeFail") \cup If(~Blamed(jobs[i]), "eagerFail"))
    BY IfFinite, FS_Union
  <2> QED
    BY <1>2, <2>1, StrikeTypes DEF IInv, TypeOK
<1>5. WorkOK'
  <2>1. \A k \in DOMAIN jobs' : JobOK(jobs'[k], plan)
    BY <1>3 DEF IInv, WorkOK
  <2> QED
    BY <1>2, <1>3, <2>1 DEF IInv, WorkOK, Contracting
<1>6. WritesOK'
  <2>1. \A k \in DOMAIN jobs' : InStep(jobs'[k], plan, func, contains, sfile)
    BY <1>3 DEF IInv, WritesOK
  <2> QED
    BY <1>2, <2>1 DEF WritesOK
<1>7. NothingLost'
  <2> SUFFICES ASSUME ~errors', NEW t \in Planned(plan), PlanBody(plan, t) \in IO
               PROVE  Pending(t)' \/ Written(t, plan, func, contains, sfile)
    BY <1>2 DEF NothingLost
  <2>1. ~errors /\ ~Blamed(jobs[i])
    BY <1>1, <1>2
  <2>2. ~Carries(jobs[i], t)
    <3>1. jobs[i].tasks = {} /\ jobs[i].at = Null
      BY <1>1, <2>1 DEF Blamed, JobOK
    <3>2. t # Null
      BY PlannedTask DEF IInv
    <3> QED
      BY <3>1, <3>2 DEF Carries
  <2>3. Pending(t) \/ Written(t, plan, func, contains, sfile)
    BY <2>1 DEF IInv, NothingLost
  <2>4. (\E m \in DOMAIN jobs : Carries(jobs[m], t)) => \E k \in DOMAIN jobs' : Carries(jobs'[k], t)
    BY <1>3, <2>2
  <2> QED
    BY <1>2, <2>3, <2>4 DEF Pending
<1>8. SparesWritten'
    BY <1>2 DEF IInv, SparesWritten, Contracting
<1>9. \A k \in DOMAIN jobs' : jobs'[k].tasks \subseteq Sources \X Funcs
    BY <1>3 DEF IInv, TypeOK
<1>10. TypeOK' /\ UniqueIds(disk)' /\ PlanOK(plan)'
  <2>1. UniqueIds(disk)' /\ PlanOK(plan)'
    BY <1>2 DEF IInv, UniqueIds, DefinedIn, PlanOK, PlanSet, Present
  <2>2. errors' \in BOOLEAN
    BY <1>2, Zenon
  <2>3. phase' # "idle"
    BY <1>2
  <2> QED
    BY <1>2, <1>4, <1>9, <2>1, <2>2, <2>3 DEF IInv, TypeOK
<1> QED
    BY <1>5, <1>6, <1>7, <1>8, <1>10 DEF IInv

LEMMA WriteSteps ==
    ASSUME IInv, Write
    PROVE  \E i \in Writing : WriteFails(i) \/ \E job : Statement(i, job)
<1>1. phase \in {"extract", "drained"}
    BY DEF Write
<1>2. PICK i \in Writing : \/ WriteFile(i) \/ DetachFunc(i) \/ MergeFunc(i)
                           \/ ContainFunc(i) \/ RelateFunc(i) \/ WriteFails(i)
    BY DEF Write
<1> QED
    BY <1>1, <1>2, WriteFileMoves, DetachFuncMoves, MergeFuncMoves, ContainFuncMoves, RelateFuncMoves

LEMMA WriteKeeps ==
    ASSUME IInv, Write
    PROVE  IInv'
<1>1. phase \in {"extract", "drained"}
    BY DEF Write
<1>2. PICK i \in Writing : WriteFails(i) \/ \E job : Statement(i, job)
    BY WriteSteps
<1> QED
    BY <1>1, <1>2, StatementKeeps, WriteFailsKeeps

\* A statement leaves alone a function that its job is not about.
LEMMA StatementSpares ==
    ASSUME IInv, phase \in {"extract", "drained"}, NEW i \in Writing, NEW job, Statement(i, job),
           NEW t \in Slots, t[2] \in DefinedIn(plan.snap, t[1]), ~Carries(jobs[i], t),
           Written(t, plan, func, contains, sfile)
    PROVE  Written(t, plan, func', contains', sfile')
<1>1. JobOK(jobs[i], plan) /\ PlanOK(plan)
    BY JobAtWork
<1>2. t[1] \in Sources /\ t[1] \in Files /\ t[2] \in Funcs /\ t = <<t[1], t[2]>>
    BY DEF Slots, Files
<1>3. ASSUME NEW u \in Slots, u[2] = t[2], Carries(jobs[i], u) PROVE FALSE
  <2>1. u \in Planned(plan)
    <3>1. u # Null
      BY SlotNotNull
    <3> QED
      BY <1>1, <1>3, <3>1 DEF JobOK, Carries
  <2>2. u[1] \in Sources /\ u[2] \in DefinedIn(plan.snap, u[1]) /\ u = <<u[1], u[2]>>
    BY <1>1, <2>1, PlannedTask
  <2>3. u[1] = t[1]
    <3>1. DefinedIn(plan.snap, u[1]) \cap DefinedIn(plan.snap, t[1]) # {}
      BY <1>3, <2>2
    <3> QED
      BY <1>1, <1>2, <2>2, <3>1 DEF PlanOK, UniqueIds
  <2> QED
    BY <1>2, <1>3, <2>2, <2>3
<1>4. func'[t[2]] = func[t[2]]
    BY <1>2, <1>3 DEF Statement, FuncsFollow
<1>5. contains \subseteq contains' /\ (sfile[t[1]].live => sfile'[t[1]].live)
  <2>1. contains \subseteq contains' /\ FilesFollow(job, jobs[i])
    BY DEF Statement, LinksFollow
  <2>2. sfile'[t[1]] = [live |-> TRUE, hash |-> jobs[i].heads[t[1]]] \/ sfile'[t[1]] = sfile[t[1]]
    BY <1>2, <2>1 DEF FilesFollow
  <2> QED
    BY <2>1, <2>2
<1> QED
    BY <1>4, <1>5 DEF Written

--------------------------------------------------------------------------------
\* The contract phase: no writer has a function yet, every task is in todo, and
\* what is up to date only ever becomes less.

LEMMA ContractMoves ==
    ASSUME IInv, Contracting,
           phase' \in {"detachFiles", "tombstoneFuncs", "detachFuncs", "extract"},
           UNCHANGED <<world, repoHash, plan, todo, marked, jobs, deferred, errors, faults>>,
           func' \in FuncSet, contains' \subseteq Slots, sfile' \in FileSet,
           phase' # "extract" =>
               \A t \in Slots : Written(t, plan, func', contains', sfile')
                                   => Written(t, plan, func, contains, sfile)
    PROVE  IInv'
<1>1. /\ disk' = disk /\ seen' = seen /\ edits' = edits /\ repoHash' = repoHash
      /\ plan' = plan /\ todo' = todo /\ marked' = marked /\ jobs' = jobs /\ deferred' = deferred
      /\ errors' = errors /\ faults' = faults
    BY DEF world
<1>2. /\ todo = plan.tasks
      /\ \A i \in DOMAIN jobs : jobs[i].tasks = {} /\ jobs[i].at = Null
    BY DEF IInv, WorkOK
<1>3. WorkOK'
    BY <1>1, <1>2 DEF IInv, WorkOK, Contracting
<1>4. WritesOK'
    BY <1>1, <1>2 DEF WritesOK, InStep
<1>5. NothingLost'
    BY <1>1, <1>2 DEF NothingLost, Pending, Planned
<1>6. SparesWritten'
  <2> SUFFICES ASSUME phase' # "extract", ~plan.force, NEW t \in Slots,
                      t[2] \in DefinedIn(plan.snap, t[1]),
                      Written(t, plan, func', contains', sfile')
               PROVE  t[2] \notin plan.delFuncs
    BY <1>1 DEF SparesWritten, Contracting, DefinedIn
  <2>1. Written(t, plan, func, contains, sfile)
    OBVIOUS
  <2> QED
    BY <2>1 DEF IInv, SparesWritten
<1>7. TypeOK' /\ UniqueIds(disk)' /\ PlanOK(plan)'
  <2>1. UniqueIds(disk)' /\ PlanOK(plan)'
    BY <1>1 DEF IInv, UniqueIds, DefinedIn, PlanOK, PlanSet, Present
  <2> QED
    BY <1>1, <2>1 DEF IInv, TypeOK, FuncSet, FileSet, Slots
<1> QED
    BY <1>3, <1>4, <1>5, <1>6, <1>7 DEF IInv

LEMMA ContractKeeps ==
    ASSUME IInv, Contract
    PROVE  IInv'
<1>1. func \in FuncSet /\ contains \subseteq Slots /\ sfile \in FileSet
    BY DEF IInv, TypeOK, FuncSet, FileSet, Slots
<1>2. CASE TombstoneFiles
  <2>1. /\ sfile' = [f \in Files |-> [sfile[f] EXCEPT !.live = @ /\ f \notin plan.delFiles]]
        /\ func' = func /\ contains' = contains
        /\ UNCHANGED <<world, repoHash, plan, todo, marked, jobs, deferred, errors, faults>>
        /\ Contracting /\ phase' = "detachFiles"
    BY <1>2 DEF TombstoneFiles, Contracting
  <2>2. sfile' \in FileSet
    BY <1>1, <2>1 DEF FileSet
  <2>3. \A f \in Files : sfile'[f].live => sfile[f].live
    BY <1>1, <2>1 DEF FileSet
  <2>4. \A t \in Slots : Written(t, plan, func', contains', sfile')
                            => Written(t, plan, func, contains, sfile)
    BY <2>1, <2>3 DEF Written, Slots, Files
  <2> QED
    BY <1>1, <2>1, <2>2, <2>4, ContractMoves
<1>3. CASE DetachFiles
  <2>1. /\ contains' = {e \in contains : e[1] \notin plan.delFiles}
        /\ func' = func /\ sfile' = sfile
        /\ UNCHANGED <<world, repoHash, plan, todo, marked, jobs, deferred, errors, faults>>
        /\ Contracting /\ phase' \in {"tombstoneFuncs", "extract"}
    BY <1>3 DEF DetachFiles, Contracting, AfterFiles
  <2>2. \A t \in Slots : Written(t, plan, func', contains', sfile')
                            => Written(t, plan, func, contains, sfile)
    BY <2>1 DEF Written
  <2> QED
    BY <1>1, <2>1, <2>2, ContractMoves
<1>4. CASE TombstoneFuncs
  <2>1. /\ func' = [fn \in Funcs |-> [func[fn] EXCEPT !.live = @ /\ fn \notin plan.delFuncs]]
        /\ contains' = contains /\ sfile' = sfile
        /\ UNCHANGED <<world, repoHash, plan, todo, marked, jobs, deferred, errors, faults>>
        /\ Contracting /\ phase' = "detachFuncs"
    BY <1>4 DEF TombstoneFuncs, Contracting
  <2>2. func' \in FuncSet
    BY <1>1, <2>1 DEF FuncSet
  <2>3. \A t \in Slots : Written(t, plan, func', contains', sfile')
                            => Written(t, plan, func, contains, sfile)
    <3> SUFFICES ASSUME NEW t \in Slots, Written(t, plan, func', contains', sfile')
                 PROVE  Written(t, plan, func, contains, sfile)
      OBVIOUS
    <3> DEFINE fn == t[2]
               b  == PlanBody(plan, t)
    <3>1. fn \in Funcs
      BY DEF Slots
    <3>2. func'[fn] = [live |-> TRUE, hash |-> b, edges |-> b]
      BY DEF Written
    <3>3. func[fn] \in [live : BOOLEAN, hash : Bodies \cup {None}, edges : Bodies \cup {None}]
      BY <1>1, <3>1 DEF FuncSet
    <3>4. func'[fn] = [func[fn] EXCEPT !.live = @ /\ fn \notin plan.delFuncs]
      BY <2>1, <3>1
    <3>5. func[fn].live = TRUE /\ func[fn].hash = b /\ func[fn].edges = b
      BY <3>2, <3>3, <3>4
    <3>6. func[fn] = [live |-> TRUE, hash |-> b, edges |-> b]
      BY <3>3, <3>5
    <3> QED
      BY <2>1, <3>6 DEF Written
  <2> QED
    BY <1>1, <2>1, <2>2, <2>3, ContractMoves
<1>5. CASE DetachFuncs
  <2>1. /\ func' = [fn \in Funcs |-> IF fn \in plan.delFuncs
                                     THEN [func[fn] EXCEPT !.edges = None] ELSE func[fn]]
        /\ contains' = contains /\ sfile' = sfile
        /\ UNCHANGED <<world, repoHash, plan, todo, marked, jobs, deferred, errors, faults>>
        /\ Contracting /\ phase' = "extract"
    BY <1>5 DEF DetachFuncs, Contracting
  <2>2. func' \in FuncSet
    BY <1>1, <2>1 DEF FuncSet
  <2> QED
    BY <1>1, <2>1, <2>2, ContractMoves
<1> QED
    BY <1>2, <1>3, <1>4, <1>5 DEF Contract

--------------------------------------------------------------------------------
\* Extraction and the drain hand their answers to the writers.

LEMMA Queued ==
    ASSUME jobs \in Seq(JobSet), NEW job \in JobSet, jobs' = Append(jobs, job)
    PROVE  /\ jobs' \in Seq(JobSet)
           /\ \A k \in DOMAIN jobs' : jobs'[k] = job \/ \E m \in DOMAIN jobs : jobs'[k] = jobs[m]
           /\ \A m \in DOMAIN jobs : \E k \in DOMAIN jobs' : jobs'[k] = jobs[m]
           /\ \E k \in DOMAIN jobs' : jobs'[k] = job
<1>1. /\ jobs' \in Seq(JobSet) /\ Len(jobs') = Len(jobs) + 1
      /\ \A k \in 1..Len(jobs) : jobs'[k] = jobs[k]
      /\ jobs'[Len(jobs) + 1] = job
    BY AppendProperties
<1>2. DOMAIN jobs = 1..Len(jobs) /\ DOMAIN jobs' = 1..(Len(jobs) + 1) /\ Len(jobs) \in Nat
    BY <1>1, LenProperties
<1>3. \A k \in DOMAIN jobs' : k \in DOMAIN jobs \/ k = Len(jobs) + 1
    BY <1>2
<1>4. DOMAIN jobs \subseteq DOMAIN jobs' /\ Len(jobs) + 1 \in DOMAIN jobs'
    BY <1>2
<1> QED
    BY <1>1, <1>2, <1>3, <1>4

\* A new job of planned tasks that names the files of all of them.
LEMMA FreshJob ==
    ASSUME IInv, NEW D \in SUBSET Sources, NEW heads \in [D -> Contents \cup {Incomplete}],
           NEW tasks \in SUBSET Planned(plan), \A t \in tasks : t[1] \in D
    PROVE  /\ JobOK(Job("chunk", heads, tasks), plan)
           /\ InStep(Job("chunk", heads, tasks), plan, func, contains, sfile)
           /\ \A t \in tasks : Carries(Job("chunk", heads, tasks), t)
<1> DEFINE job == Job("chunk", heads, tasks)
<1>1. heads \in Heads /\ DOMAIN heads = D
    BY DEF Heads, Files
<1>2. tasks \in SUBSET Slots
    BY DEF Planned
<1>3. /\ job \in JobSet /\ job.kind = "chunk" /\ job.tasks = tasks /\ job.heads = heads
      /\ job.at = Null
    BY <1>1, <1>2 DEF Job, JobSet
<1> HIDE DEF job
<1>4. JobOK(job, plan)
    BY <1>3 DEF JobOK
<1>5. InStep(job, plan, func, contains, sfile)
    BY <1>1, <1>3 DEF InStep
<1>6. \A t \in tasks : Carries(job, t)
    BY <1>3 DEF Carries
<1> QED
    BY <1>4, <1>5, <1>6 DEF job

\* What handing over leaves alone.
LEMMA HandOverTypes ==
    ASSUME IInv, phase \in {"extract", "drained"}, phase' \in {"extract", "drained"},
           UNCHANGED <<world, graph, plan>>,
           faults' \in 0..MaxFaults, errors' \in BOOLEAN, marked' \subseteq Sources,
           todo' \in [Sources -> SUBSET Funcs],
           jobs' \in Seq(JobSet), \A i \in DOMAIN jobs' : JobOK(jobs'[i], plan),
           \A f \in Sources : todo'[f] \subseteq plan.tasks[f],
           deferred' \subseteq Planned(plan),
           phase' = "drained" => deferred' = {}
    PROVE  TypeOK' /\ UniqueIds(disk)' /\ PlanOK(plan)' /\ WorkOK' /\ SparesWritten'
<1>1. /\ disk' = disk /\ seen' = seen /\ edits' = edits /\ repoHash' = repoHash
      /\ func' = func /\ contains' = contains /\ sfile' = sfile /\ plan' = plan
    BY DEF world, graph
<1>2. WorkOK' /\ SparesWritten'
    BY <1>1 DEF WorkOK, SparesWritten, Contracting
<1>3. UniqueIds(disk)' /\ PlanOK(plan)'
    BY <1>1 DEF IInv, UniqueIds, DefinedIn, PlanOK, PlanSet, Present
<1>4. \A k \in DOMAIN jobs' : jobs'[k].tasks \subseteq Sources \X Funcs
    BY DEF JobOK, Planned, Slots
<1>5. deferred' \subseteq Sources \X Funcs
    BY DEF Planned, Slots
<1>6. TypeOK'
    BY <1>1, <1>4, <1>5 DEF IInv, TypeOK
<1> QED
    BY <1>2, <1>3, <1>6

LEMMA ExtractKeeps ==
    ASSUME IInv, NEW f \in Sources, Extract(f)
    PROVE  IInv'
<1>1. PICK chunk \in Chunks(todo[f]), embedded \in BOOLEAN : \E o \in Outcomes(chunk) :
         /\ Strike(If(o.failed # {}, "llmFailed") \cup If(o.late # {}, "llmDeferred")
                     \cup If(~embedded, "embedFail"))
         /\ embedded \/ Accepted(f, chunk \ (o.failed \cup o.late)) # {}
         /\ marked' = IF o.failed # {} THEN marked \cup {f} ELSE marked
         /\ errors' = (errors \/ o.failed # {} \/ ~embedded)
         /\ deferred' = deferred \cup ({f} \X o.late)
         /\ IF embedded
            THEN /\ todo' = [todo EXCEPT ![f] = @ \ chunk]
                 /\ jobs' = Append(jobs,
                        Job("chunk", [g \in {f} |-> DraftHash(f, chunk, marked')],
                            {f} \X Accepted(f, chunk \ (o.failed \cup o.late))))
            ELSE /\ todo' = [todo EXCEPT ![f] = {}]
                 /\ UNCHANGED jobs
    BY DEF Extract
<1>2. PICK o \in Outcomes(chunk) :
         /\ Strike(If(o.failed # {}, "llmFailed") \cup If(o.late # {}, "llmDeferred")
                     \cup If(~embedded, "embedFail"))
         /\ marked' = IF o.failed # {} THEN marked \cup {f} ELSE marked
         /\ errors' = (errors \/ o.failed # {} \/ ~embedded)
         /\ deferred' = deferred \cup ({f} \X o.late)
         /\ IF embedded
            THEN /\ todo' = [todo EXCEPT ![f] = @ \ chunk]
                 /\ jobs' = Append(jobs,
                        Job("chunk", [g \in {f} |-> DraftHash(f, chunk, marked')],
                            {f} \X Accepted(f, chunk \ (o.failed \cup o.late))))
            ELSE /\ todo' = [todo EXCEPT ![f] = {}]
                 /\ UNCHANGED jobs
    BY <1>1
<1>3. /\ phase = "extract" /\ phase' = "extract" /\ todo[f] # {}
      /\ UNCHANGED <<world, graph, plan>>
      /\ func' = func /\ contains' = contains /\ sfile' = sfile /\ plan' = plan
    BY DEF Extract, graph
<1>4. chunk \subseteq todo[f] /\ o.failed \subseteq chunk /\ o.late \subseteq chunk
    BY DEF Chunks, Outcomes
<1>5. /\ PlanOK(plan) /\ jobs \in Seq(JobSet) /\ \A i \in DOMAIN jobs : JobOK(jobs[i], plan)
      /\ \A g \in Sources : todo[g] \subseteq plan.tasks[g]
      /\ deferred \subseteq Planned(plan)
      /\ \A i \in DOMAIN jobs : InStep(jobs[i], plan, func, contains, sfile)
      /\ todo \in [Sources -> SUBSET Funcs] /\ marked \subseteq Sources /\ errors \in BOOLEAN
      /\ faults \in 0..MaxFaults
    BY DEF IInv, WorkOK, WritesOK, TypeOK
<1>6. \A fn \in chunk : <<f, fn>> \in Planned(plan)
    BY <1>4, <1>5 DEF Planned, Slots
<1>7. faults' \in 0..MaxFaults
  <2>1. IsFiniteSet(If(o.failed # {}, "llmFailed") \cup If(o.late # {}, "llmDeferred")
                      \cup If(~embedded, "embedFail"))
    BY IfFinite, FS_Union
  <2> QED
    BY <1>2, <1>5, <2>1, StrikeTypes
<1>8. errors' \in BOOLEAN
    BY <1>2, Zenon
<1>9. marked' \subseteq Sources /\ deferred' \subseteq Planned(plan)
    BY <1>2, <1>4, <1>5, <1>6
<1>10. /\ todo' \in [Sources -> SUBSET Funcs] /\ \A g \in Sources : todo'[g] \subseteq todo[g]
       /\ \A g \in Sources : g # f => todo'[g] = todo[g]
    BY <1>2, <1>5
<1> DEFINE heads == [g \in {f} |-> DraftHash(f, chunk, marked')]
           tasks == {f} \X Accepted(f, chunk \ (o.failed \cup o.late))
           job   == Job("chunk", heads, tasks)
<1>11. /\ JobOK(job, plan) /\ InStep(job, plan, func, contains, sfile)
       /\ \A t \in tasks : Carries(job, t)
  <2>1. PICK fn \in todo[f] : TRUE
    BY <1>3
  <2>2. plan.snap[f] \in Contents
    <3>1. <<f, fn>> \in Planned(plan)
      BY <1>5, <2>1 DEF Planned, Slots
    <3>2. plan.snap[<<f, fn>>[1]] \in Contents
      BY <1>5, <3>1, PlannedTask
    <3> QED
      BY <3>2
  <2>3. heads \in [{f} -> Contents \cup {Incomplete}]
    BY <2>2 DEF DraftHash
  <2>4. tasks \in SUBSET Planned(plan) /\ \A t \in tasks : t[1] \in {f}
    BY <1>6 DEF Accepted
  <2> HIDE DEF heads, tasks
  <2> QED
    BY <2>3, <2>4, FreshJob
<1>12. \A t \in Planned(plan) :
          t[1] = f /\ t[2] \in chunk \ (o.failed \cup o.late) /\ PlanBody(plan, t) \in IO
             => t \in tasks
  <2> SUFFICES ASSUME NEW t \in Planned(plan), t[1] = f, t[2] \in chunk \ (o.failed \cup o.late),
                      PlanBody(plan, t) \in IO
               PROVE  t \in tasks
    OBVIOUS
  <2>1. t = <<f, t[2]>>
    BY <1>5, PlannedTask
  <2>2. t[2] \in Accepted(f, chunk \ (o.failed \cup o.late))
    BY DEF Accepted, PlanBody
  <2> QED
    BY <2>1, <2>2
<1> HIDE DEF tasks, job, heads
<1>13. CASE ~embedded
  <2>1. jobs' = jobs /\ errors'
    BY <1>2, <1>13
  <2>2. TypeOK' /\ UniqueIds(disk)' /\ PlanOK(plan)' /\ WorkOK' /\ SparesWritten'
    BY <1>3, <1>5, <1>7, <1>8, <1>9, <1>10, <2>1, HandOverTypes
  <2>3. WritesOK' /\ NothingLost'
    BY <1>3, <1>5, <2>1 DEF WritesOK, NothingLost
  <2> QED
    BY <2>2, <2>3 DEF IInv
<1>14. CASE embedded
  <2>1. jobs' = Append(jobs, job) /\ todo' = [todo EXCEPT ![f] = @ \ chunk]
    BY <1>2, <1>14 DEF job, heads, tasks
  <2>2. /\ jobs' \in Seq(JobSet)
        /\ \A k \in DOMAIN jobs' : jobs'[k] = job \/ \E m \in DOMAIN jobs : jobs'[k] = jobs[m]
        /\ \A m \in DOMAIN jobs : \E k \in DOMAIN jobs' : jobs'[k] = jobs[m]
        /\ \E k \in DOMAIN jobs' : jobs'[k] = job
    BY <1>5, <1>11, <2>1, Queued DEF JobOK
  <2>3. /\ \A i \in DOMAIN jobs' : JobOK(jobs'[i], plan)
        /\ \A i \in DOMAIN jobs' : InStep(jobs'[i], plan, func, contains, sfile)
    BY <1>5, <1>11, <2>2
  <2>4. TypeOK' /\ UniqueIds(disk)' /\ PlanOK(plan)' /\ WorkOK' /\ SparesWritten'
    BY <1>3, <1>5, <1>7, <1>8, <1>9, <1>10, <2>2, <2>3, HandOverTypes
  <2>5. WritesOK'
    BY <1>3, <2>3 DEF WritesOK
  <2>6. NothingLost'
    <3> SUFFICES ASSUME ~errors', NEW t \in Planned(plan), PlanBody(plan, t) \in IO
                 PROVE  Pending(t)' \/ Written(t, plan, func, contains, sfile)
      BY <1>3 DEF NothingLost
    <3>1. ~errors /\ o.failed = {}
      BY <1>2
    <3>2. Pending(t) \/ Written(t, plan, func, contains, sfile)
      BY <3>1 DEF IInv, NothingLost
    <3>3. t = <<t[1], t[2]>> /\ t[1] \in Sources
      BY <1>5, PlannedTask
    <3>4. CASE t[2] \in todo[t[1]] /\ t[1] = f /\ t[2] \in chunk
      <4>1. CASE t[2] \in o.late
        BY <1>2, <3>3, <3>4, <4>1 DEF Pending
      <4>2. CASE t[2] \notin o.late
        <5>1. Carries(job, t)
          BY <1>11, <1>12, <3>1, <3>4, <4>2
        <5> QED
          BY <2>2, <5>1 DEF Pending
      <4> QED
        BY <4>1, <4>2
    <3>5. CASE t[2] \in todo[t[1]] /\ ~(t[1] = f /\ t[2] \in chunk)
      <4>1. t[2] \in todo'[t[1]]
        BY <1>5, <2>1, <3>3, <3>5
      <4> QED
        BY <4>1 DEF Pending
    <3>6. CASE t \in deferred
      BY <1>2, <3>6 DEF Pending
    <3>7. CASE \E i \in DOMAIN jobs : Carries(jobs[i], t)
      BY <2>2, <3>7 DEF Pending
    <3> QED
      BY <3>2, <3>4, <3>5, <3>6, <3>7 DEF Pending
  <2> QED
    BY <2>4, <2>5, <2>6 DEF IInv
<1> QED
    BY <1>13, <1>14

LEMMA DrainKeeps ==
    ASSUME IInv, Drain
    PROVE  IInv'
<1> DEFINE answered(o)  == deferred \ (o.failed \cup o.late)
           recovered(o) == {t \in answered(o) : t[2] \in Accepted(t[1], {t[2]})}
           heads(o)     == [f \in Owners(recovered(o)) |->
                               IF f \in marked THEN Incomplete ELSE plan.snap[f]]
<1>1. PICK o \in Outcomes(deferred) :
         /\ Strike(If(o.failed # {}, "drainFailed") \cup If(o.late # {}, "drainDeferred"))
         /\ jobs' = IF recovered(o) = {} THEN jobs ELSE <<Job("chunk", heads(o), recovered(o))>>
         /\ marked' = marked \cup Owners(o.late)
         /\ errors' = (errors \/ o.late # {} \/ o.failed # {})
    BY DEF Drain
<1>2. /\ phase = "extract" /\ phase' = "drained" /\ deferred' = {} /\ AllWritten
      /\ UNCHANGED <<world, graph, plan>> /\ todo' = todo
      /\ func' = func /\ contains' = contains /\ sfile' = sfile /\ plan' = plan
    BY DEF Drain, graph
<1>3. /\ PlanOK(plan) /\ \A g \in Sources : todo[g] \subseteq plan.tasks[g]
      /\ deferred \subseteq Planned(plan) /\ marked \subseteq Sources /\ errors \in BOOLEAN
      /\ todo \in [Sources -> SUBSET Funcs] /\ faults \in 0..MaxFaults
    BY DEF IInv, WorkOK, TypeOK
<1>4. jobs = <<>> /\ \A f \in Sources : todo[f] = {}
    BY <1>2 DEF AllWritten
<1>5. o.failed \subseteq deferred /\ o.late \subseteq deferred
    BY DEF Outcomes
<1>6. faults' \in 0..MaxFaults
  <2>1. IsFiniteSet(If(o.failed # {}, "drainFailed") \cup If(o.late # {}, "drainDeferred"))
    BY IfFinite, FS_Union
  <2> QED
    BY <1>1, <1>3, <2>1, StrikeTypes
<1>7. errors' \in BOOLEAN
    BY <1>1, Zenon
<1>8. \A t \in Planned(plan) : t[1] \in Sources /\ plan.snap[t[1]] \in Contents
    BY <1>3, PlannedTask
<1>9. marked' \subseteq Sources
    BY <1>1, <1>3, <1>5, <1>8 DEF Owners
<1> DEFINE rec == recovered(o)
           hs  == heads(o)
           job == Job("chunk", hs, rec)
<1>10. rec \in SUBSET Planned(plan) /\ rec \subseteq deferred
    BY <1>3
<1>11. \A t \in deferred \ (o.failed \cup o.late) : PlanBody(plan, t) \in IO => t \in rec
    BY DEF Accepted, PlanBody
<1>12. /\ JobOK(job, plan) /\ InStep(job, plan, func, contains, sfile)
       /\ \A t \in rec : Carries(job, t)
  <2>1. Owners(rec) \in SUBSET Sources /\ \A f \in Owners(rec) : plan.snap[f] \in Contents
    BY <1>8, <1>10 DEF Owners
  <2>2. hs \in [Owners(rec) -> Contents \cup {Incomplete}]
    BY <2>1
  <2>3. \A t \in rec : t[1] \in Owners(rec)
    BY DEF Owners
  <2> HIDE DEF hs, rec
  <2> QED
    BY <1>10, <2>1, <2>2, <2>3, FreshJob
<1>13. jobs' = IF rec = {} THEN <<>> ELSE <<job>>
    BY <1>1, <1>4
<1> HIDE DEF rec, hs, job
<1>14. /\ jobs' \in Seq(JobSet)
       /\ \A k \in DOMAIN jobs' : jobs'[k] = job
       /\ rec # {} => \E k \in DOMAIN jobs' : jobs'[k] = job
  <2>1. job \in JobSet
    BY <1>12 DEF JobOK
  <2>2. CASE rec = {}
    BY <1>13, <2>2
  <2>3. CASE rec # {}
    <3>1. jobs' = <<job>>
      BY <1>13, <2>3
    <3>2. <<job>> \in Seq(JobSet) /\ DOMAIN <<job>> = {1} /\ <<job>>[1] = job
      BY <2>1
    <3> QED
      BY <3>1, <3>2
  <2> QED
    BY <2>2, <2>3
<1>15. TypeOK' /\ UniqueIds(disk)' /\ PlanOK(plan)' /\ WorkOK' /\ SparesWritten'
  <2>1. \A i \in DOMAIN jobs' : JobOK(jobs'[i], plan)
    BY <1>12, <1>14
  <2>2. /\ todo' \in [Sources -> SUBSET Funcs] /\ \A f \in Sources : todo'[f] \subseteq plan.tasks[f]
        /\ deferred' \subseteq Planned(plan)
    BY <1>2, <1>3
  <2> QED
    BY <1>2, <1>6, <1>7, <1>9, <1>14, <2>1, <2>2, HandOverTypes
<1>16. WritesOK'
    BY <1>2, <1>12, <1>14 DEF WritesOK
<1>17. NothingLost'
  <2> SUFFICES ASSUME ~errors', NEW t \in Planned(plan), PlanBody(plan, t) \in IO
               PROVE  Pending(t)' \/ Written(t, plan, func, contains, sfile)
    BY <1>2 DEF NothingLost
  <2>1. ~errors /\ o.late = {} /\ o.failed = {}
    BY <1>1
  <2>2. Pending(t) \/ Written(t, plan, func, contains, sfile)
    BY <2>1 DEF IInv, NothingLost
  <2>3. t[1] \in Sources
    BY <1>8
  <2>4. CASE t \in deferred
    <3>1. t \in rec
      BY <1>11, <2>1, <2>4
    <3>2. Carries(job, t)
      BY <1>12, <3>1
    <3> QED
      BY <1>14, <3>1, <3>2 DEF Pending
  <2> QED
    BY <1>4, <2>2, <2>3, <2>4 DEF Pending
<1> QED
    BY <1>15, <1>16, <1>17 DEF IInv

--------------------------------------------------------------------------------
\* A run starts and ends.

\* What the index says of a function that is up to date saves it from the diff.
LEMMA PlanMade ==
    ASSUME TypeOK, UniqueIds(disk), NEW force \in BOOLEAN,
           NEW broken \in SUBSET Present(disk, Sources),
           NEW p, p = MakePlan(disk, force, broken)
    PROVE  /\ PlanOK(p) /\ p.snap = disk /\ p.force = force
           /\ ~force => \A t \in Slots :
                 t[2] \in DefinedIn(disk, t[1]) /\ Written(t, p, func, contains, sfile)
                    => t[2] \notin p.delFuncs /\ t[2] \notin p.tasks[t[1]]
<1>1. /\ p.snap = disk /\ p.force = force
      /\ p.delFiles = DeletedFiles(disk) /\ p.delFuncs = DeletedFuncs(disk, force, broken)
      /\ p.tasks = [f \in Sources |->
                      IF f \in CacheHits(disk, force, broken) THEN {} ELSE TasksOf(disk, f, force)]
    BY DEF MakePlan
<1>2. \A f \in Files : DefinedIn(disk, f) \subseteq Funcs
    BY DefsAssumption DEF TypeOK, DefinedIn
<1>3. \A f \in Sources : p.tasks[f] \subseteq DefinedIn(disk, f)
    BY <1>1 DEF TasksOf, Changed
<1>4. PlanOK(p)
  <2>1. p.snap \in [Files -> Contents \cup {Absent}]
    BY <1>1 DEF TypeOK
  <2>2. p.delFiles \in SUBSET Files /\ p.delFiles \cap Present(p.snap, Sources) = {}
    BY <1>1 DEF DeletedFiles, Indexed
  <2>3. p.delFuncs \in SUBSET Funcs
    <3> SUFFICES ASSUME NEW fn \in DeletedFuncs(disk, force, broken) PROVE fn \in Funcs
      BY <1>1
    <3>1. fn \in UNION {IndexedFuncs(f) : f \in Files}
      BY DEF DeletedFuncs
    <3>2. PICK f \in Files : fn \in IndexedFuncs(f)
      BY <3>1, Zenon
    <3> QED
      BY <3>2 DEF IndexedFuncs
  <2>4. p.tasks \in [Sources -> SUBSET Funcs]
    <3>1. \A f \in Sources : (IF f \in CacheHits(disk, force, broken) THEN {}
                              ELSE TasksOf(disk, f, force)) \in SUBSET Funcs
      BY <1>2 DEF TasksOf, Changed, Files
    <3> QED
      BY <1>1, <3>1
  <2>5. p \in PlanSet
    BY <1>1, <2>1, <2>2, <2>3, <2>4 DEF MakePlan, PlanSet
  <2> QED
    BY <1>1, <1>3, <2>2, <2>5 DEF PlanOK
<1>5. ASSUME ~force, NEW t \in Slots, t[2] \in DefinedIn(disk, t[1]),
             Written(t, p, func, contains, sfile)
      PROVE  t[2] \notin p.delFuncs /\ t[2] \notin p.tasks[t[1]]
  <2>1. t = <<t[1], t[2]>> /\ t[1] \in Sources /\ t[1] \in Files /\ t[2] \in Funcs
    BY DEF Slots, Files
  <2>2. func[t[2]].live /\ func[t[2]].hash = Body(disk, t[1], t[2])
    BY <1>1, <1>5 DEF Written, PlanBody
  <2>3. t[2] \in IndexedFuncs(t[1])
    BY <1>5, <2>1, <2>2 DEF Written, IndexedFuncs, Indexed
  <2>4. t[2] \in Unchanged(disk, t[1], force)
    BY <1>5, <2>2, <2>3 DEF Unchanged
  <2>5. t[2] \in Kept(disk, force, broken, t[1])
    BY <2>3, <2>4 DEF Kept
  <2>6. t[1] \in Present(disk, Sources)
    BY <1>5, <2>1 DEF Present, DefinedIn
  <2>7. t[2] \notin p.delFuncs
    <3> DEFINE kept    == UNION {Kept(disk, force, broken, f) : f \in Present(disk, Sources)}
               indexed == UNION {IndexedFuncs(f) : f \in Files}
    <3>1. t[2] \in kept
      BY <2>5, <2>6, Zenon
    <3>2. p.delFuncs = IF Present(disk, Sources) = {} THEN {} ELSE indexed \ kept
      BY <1>1, Zenon DEF DeletedFuncs
    <3> HIDE DEF kept, indexed
    <3> QED
      BY <3>1, <3>2
  <2>8. t[2] \notin TasksOf(disk, t[1], force)
    BY <2>4 DEF TasksOf, Changed
  <2> QED
    BY <1>1, <2>1, <2>7, <2>8
<1> QED
    BY <1>1, <1>4, <1>5

LEMMA NoPlanOK ==
    /\ PlanOK(NoPlan) /\ Planned(NoPlan) = {} /\ NoPlan.tasks \in [Sources -> SUBSET Funcs]
    /\ \A f \in Sources : NoPlan.tasks[f] = {}
<1>1. /\ NoPlan.snap = [f \in Files |-> Absent] /\ NoPlan.delFiles = {}
      /\ NoPlan.tasks = [f \in Sources |-> {}]
    BY DEF NoPlan
<1>2. NoPlan \in PlanSet
    BY DEF NoPlan, PlanSet
<1>3. \A f \in Sources : DefinedIn(NoPlan.snap, f) = {}
    BY <1>1 DEF DefinedIn, Files
<1>4. UniqueIds(NoPlan.snap)
    BY <1>3 DEF UniqueIds
<1>5. PlanOK(NoPlan)
    BY <1>1, <1>2, <1>4 DEF PlanOK
<1>6. Planned(NoPlan) = {}
    BY <1>1 DEF Planned, Slots
<1> QED
    BY <1>1, <1>5, <1>6

LEMMA StartRunKeeps ==
    ASSUME IInv, NEW force \in BOOLEAN, StartRun(force)
    PROVE  IInv'
<1>1. PICK broken \in SUBSET Present(disk, Sources) :
         /\ Strike(If(broken # {}, "parseFail"))
         /\ plan' = MakePlan(disk, force, broken)
    BY DEF StartRun
<1>2. /\ phase = "idle" /\ phase' = FirstPhase(plan') /\ todo' = plan'.tasks
      /\ jobs' = EagerJobs(disk)
      /\ disk' = disk /\ seen' = seen /\ edits' = edits
      /\ func' = func /\ contains' = contains /\ sfile' = sfile /\ repoHash' = repoHash
      /\ marked' = marked /\ deferred' = deferred /\ errors' = errors
    BY DEF StartRun, world, graph
<1>3. PlanOK(plan') /\ plan'.snap = disk /\ plan'.force = force
    BY <1>1, PlanMade DEF IInv
<1>4. /\ ~force => \A t \in Slots :
            t[2] \in DefinedIn(disk, t[1]) /\ Written(t, plan', func, contains, sfile)
               => t[2] \notin plan'.delFuncs
    BY <1>1, PlanMade DEF IInv
<1>5. phase' \in {"tombstoneFiles", "tombstoneFuncs", "extract"}
    BY <1>2 DEF FirstPhase, AfterFiles
<1>6. deferred = {}
    BY <1>2, NoPlanOK DEF IInv, WorkOK
<1>7. faults' \in 0..MaxFaults
    BY <1>1, IfFinite, StrikeTypes DEF IInv, TypeOK
<1>8. jobs' \in Seq(JobSet) /\ \A i \in DOMAIN jobs' : jobs'[i].tasks = {} /\ jobs'[i].at = Null
  <2> DEFINE present == Present(disk, Manifests)
             heads   == [f \in present |-> disk[f]]
             job     == Job("eager", heads, {})
  <2>1. present \in SUBSET Files /\ heads \in [present -> Contents \cup {Incomplete}]
    BY DEF Present, Files, IInv, TypeOK
  <2>2. heads \in Heads
    BY <2>1 DEF Heads
  <2>3. jobs' = IF present = {} THEN <<>> ELSE <<job>>
    BY <1>2 DEF EagerJobs
  <2> HIDE DEF heads, present
  <2>4. job \in JobSet /\ job.tasks = {} /\ job.at = Null
    BY <2>2 DEF Job, JobSet
  <2> HIDE DEF job
  <2>5. <<job>> \in Seq(JobSet) /\ DOMAIN <<job>> = {1} /\ <<job>>[1] = job
    BY <2>4
  <2>6. CASE present = {}
    BY <2>3, <2>6
  <2>7. CASE present # {}
    <3>1. jobs' = <<job>>
      BY <2>3, <2>7
    <3> QED
      BY <2>4, <2>5, <3>1
  <2> QED
    BY <2>6, <2>7
<1>9. WorkOK'
  <2>1. \A i \in DOMAIN jobs' : JobOK(jobs'[i], plan')
    <3> SUFFICES ASSUME NEW i \in DOMAIN jobs' PROVE JobOK(jobs'[i], plan')
      OBVIOUS
    <3>1. jobs'[i] \in JobSet
      BY <1>8, LenProperties, ElementOfSeq
    <3> QED
      BY <1>8, <3>1 DEF JobOK
  <2> QED
    BY <1>2, <1>5, <1>6, <1>8, <2>1 DEF WorkOK, Contracting
<1>10. WritesOK'
    BY <1>8 DEF WritesOK, InStep
<1>11. NothingLost'
    BY <1>2 DEF NothingLost, Pending, Planned
<1>12. SparesWritten'
    BY <1>2, <1>3, <1>4 DEF SparesWritten, DefinedIn
<1>13. TypeOK' /\ UniqueIds(disk)'
  <2>1. UniqueIds(disk)'
    BY <1>2 DEF IInv, UniqueIds, DefinedIn
  <2>2. todo' \in [Sources -> SUBSET Funcs]
    BY <1>2, <1>3 DEF PlanOK, PlanSet
  <2>3. \A i \in DOMAIN jobs' : jobs'[i].tasks \subseteq Sources \X Funcs
    BY <1>8
  <2> QED
    BY <1>2, <1>5, <1>7, <2>1, <2>2, <2>3 DEF IInv, TypeOK
<1> QED
    BY <1>3, <1>9, <1>10, <1>11, <1>12, <1>13 DEF IInv

\* Whatever a run knew is gone; what it wrote stays.
LEMMA ForgetKeeps ==
    ASSUME IInv, Forget, UNCHANGED <<world, func, contains, sfile>>,
           repoHash' = Null \/ repoHash' \in [Contents -> Nat], faults' \in 0..MaxFaults
    PROVE  IInv'
<1>1. /\ disk' = disk /\ seen' = seen /\ edits' = edits
      /\ func' = func /\ contains' = contains /\ sfile' = sfile
    BY DEF world
<1>2. /\ phase' = "idle" /\ plan' = NoPlan /\ todo' = NoPlan.tasks /\ marked' = {} /\ jobs' = <<>>
      /\ deferred' = {} /\ errors' = FALSE
    BY DEF Forget
<1>3. PlanOK(plan)' /\ UniqueIds(disk)'
  <2>1. PlanOK(plan')
    BY <1>2, NoPlanOK
  <2> QED
    BY <1>1, <2>1 DEF IInv, UniqueIds, DefinedIn, PlanOK, PlanSet, Present
<1>4. WorkOK'
    BY <1>2 DEF WorkOK, Contracting
<1>5. WritesOK' /\ NothingLost' /\ SparesWritten'
  <2>1. Planned(plan') = {}
    BY <1>2, NoPlanOK
  <2> QED
    BY <1>2, <2>1 DEF WritesOK, NothingLost, SparesWritten, Contracting, Planned
<1>6. TypeOK'
  <2>1. todo' \in [Sources -> SUBSET Funcs]
    BY <1>2, NoPlanOK
  <2>2. <<marked', jobs', deferred', errors'>> = <<{}, <<>>, {}, FALSE>>
    BY <1>2, Zenon
  <2>3. \A i \in DOMAIN jobs' : jobs'[i].tasks \subseteq Sources \X Funcs
    BY <1>2
  <2>4. errors' \in BOOLEAN
    BY <1>2, Zenon
  <2> QED
    BY <1>1, <1>2, <2>1, <2>2, <2>3, <2>4 DEF IInv, TypeOK
<1> QED
    BY <1>3, <1>4, <1>5, <1>6 DEF IInv

\* A repository has finitely many files, so that its hash is a count of contents.
LEMMA HashTypes ==
    ASSUME NEW v
    PROVE  HashOf(v) \in [Contents -> Nat]
<1>1. \A c \in Contents : Cardinality({f \in Files : v[f] = c}) \in Nat
    BY PathsAssumption, FS_Subset, FS_CardinalityType
<1> QED
    BY <1>1 DEF HashOf

LEMMA CommitKeeps ==
    ASSUME IInv, Commit
    PROVE  IInv'
<1>1. repoHash' = Null \/ repoHash' \in [Contents -> Nat]
    BY HashTypes DEF Commit, Committed, IInv, TypeOK
<1>2. Forget /\ UNCHANGED <<world, func, contains, sfile>> /\ faults' \in 0..MaxFaults
    BY DEF Commit, IInv, TypeOK
<1> QED
    BY <1>1, <1>2, ForgetKeeps

LEMMA CrashKeeps ==
    ASSUME IInv, Crash
    PROVE  IInv'
<1>1. /\ Strike({"crash"}) /\ Forget /\ UNCHANGED <<world, func, contains, sfile>>
      /\ repoHash' = repoHash
    BY DEF Crash, graph
<1>2. faults' \in 0..MaxFaults
    BY <1>1, FS_Singleton, StrikeTypes DEF IInv, TypeOK
<1> QED
    BY <1>1, <1>2, ForgetKeeps DEF IInv, TypeOK

LEMMA EditKeeps ==
    ASSUME IInv, Edit
    PROVE  IInv'
<1>1. PICK changed \in (SUBSET Files) \ {{}} :
         disk' \in {v \in [Files -> Contents \cup {Absent}] :
                      \A f \in Files : IF f \in changed THEN v[f] \in Variants[f] \ {disk[f]}
                                                        ELSE v[f] = disk[f]}
    BY DEF Edit
<1>2. /\ phase = "idle" /\ edits < MaxEdits /\ edits' = edits + 1 /\ UniqueIds(disk)'
      /\ seen' = [f \in Files |-> seen[f] \cup {disk'[f]}]
      /\ UNCHANGED <<graph, run, faults>>
    BY DEF Edit
<1>3. disk' \in [Files -> Contents \cup {Absent}]
    BY <1>1
<1>4. /\ phase' = phase /\ plan' = plan /\ todo' = todo /\ marked' = marked /\ jobs' = jobs
      /\ deferred' = deferred /\ errors' = errors /\ faults' = faults
      /\ func' = func /\ contains' = contains /\ sfile' = sfile /\ repoHash' = repoHash
    BY <1>2 DEF graph, run
<1>5. seen' \in [Files -> SUBSET (Contents \cup {Absent})]
    BY <1>2, <1>3 DEF IInv, TypeOK
<1>6. edits' \in 0..MaxEdits
    BY <1>2, BoundsAssumption DEF IInv, TypeOK
<1>7. TypeOK'
    BY <1>3, <1>4, <1>5, <1>6 DEF IInv, TypeOK
<1>8. PlanOK(plan)'
    BY <1>4 DEF IInv, UniqueIds, DefinedIn, PlanOK, PlanSet, Present
<1>9. WorkOK' /\ WritesOK' /\ NothingLost' /\ SparesWritten'
    BY <1>4 DEF IInv, WorkOK, WritesOK, NothingLost, SparesWritten, Contracting, Pending, DefinedIn
<1> QED
    BY <1>2, <1>7, <1>8, <1>9 DEF IInv

--------------------------------------------------------------------------------
LEMMA InitIInv == Init => IInv
<1> SUFFICES ASSUME Init PROVE IInv
    OBVIOUS
<1>1. plan = NoPlan /\ phase = "idle" /\ jobs = <<>> /\ deferred = {} /\ todo = NoPlan.tasks
    BY DEF Init
<1>2. disk = Checkout /\ disk \in [Files -> Contents \cup {Absent}] /\ UniqueIds(disk)
    BY VariantsAssumption, CheckoutAssumption DEF Init
<1>3. PlanOK(plan) /\ Planned(plan) = {}
    BY <1>1, NoPlanOK
<1>4. TypeOK
  <2>1. seen \in [Files -> SUBSET (Contents \cup {Absent})]
    BY <1>2 DEF Init
  <2>2. func \in [Funcs -> [live : BOOLEAN, hash : Bodies \cup {None}, edges : Bodies \cup {None}]]
    BY DEF Init
  <2>3. sfile \in [Files -> [live : BOOLEAN, hash : Hashes]]
    BY DEF Init, NoNode, Hashes
  <2>4. todo \in [Sources -> SUBSET Funcs]
    BY <1>1, NoPlanOK
  <2>5. <<marked, jobs, deferred, errors>> = <<{}, <<>>, {}, FALSE>> /\ errors \in BOOLEAN
    BY Zenon DEF Init
  <2>6. edits \in 0..MaxEdits /\ faults \in 0..MaxFaults
    BY BoundsAssumption DEF Init
  <2>7. contains = {} /\ repoHash = Null /\ marked = {}
    BY DEF Init
  <2> QED
    BY <1>1, <1>2, <2>1, <2>2, <2>3, <2>4, <2>5, <2>6, <2>7 DEF TypeOK
<1>5. WorkOK
    BY <1>1 DEF WorkOK, Contracting
<1>6. WritesOK /\ NothingLost /\ SparesWritten
    BY <1>1, <1>3 DEF WritesOK, NothingLost, SparesWritten, Contracting
<1> QED
    BY <1>2, <1>3, <1>4, <1>5, <1>6 DEF IInv

LEMMA NextIInv == IInv /\ [Next]_vars => IInv'
<1> SUFFICES ASSUME IInv, [Next]_vars PROVE IInv'
    OBVIOUS
<1>1. CASE Edit
    BY <1>1, EditKeeps
<1>2. ASSUME NEW force \in Forced, StartRun(force) PROVE IInv'
    BY <1>2, StartRunKeeps, BoundsAssumption
<1>3. CASE Contract
    BY <1>3, ContractKeeps
<1>4. ASSUME NEW f \in Sources, Extract(f) PROVE IInv'
    BY <1>4, ExtractKeeps
<1>5. CASE Drain
    BY <1>5, DrainKeeps
<1>6. CASE Write
    BY <1>6, WriteKeeps
<1>7. CASE Commit
    BY <1>7, CommitKeeps
<1>8. CASE Crash
    BY <1>8, CrashKeeps
<1>9. CASE UNCHANGED vars
  <2>1. /\ disk' = disk /\ seen' = seen /\ edits' = edits /\ repoHash' = repoHash /\ phase' = phase
        /\ func' = func /\ contains' = contains /\ sfile' = sfile /\ jobs' = jobs /\ errors' = errors
        /\ plan' = plan /\ todo' = todo /\ marked' = marked /\ deferred' = deferred /\ faults' = faults
    BY <1>9 DEF vars
  <2>2. TypeOK'
    BY <2>1 DEF IInv, TypeOK
  <2>3. UniqueIds(disk)' /\ PlanOK(plan)'
    BY <2>1 DEF IInv, UniqueIds, DefinedIn, PlanOK, PlanSet, Present
  <2>4. WorkOK' /\ WritesOK' /\ NothingLost' /\ SparesWritten'
    BY <2>1 DEF IInv, WorkOK, WritesOK, NothingLost, SparesWritten, Contracting, Pending, DefinedIn
  <2> QED
    BY <2>2, <2>3, <2>4 DEF IInv
<1> QED
    BY <1>1, <1>2, <1>3, <1>4, <1>5, <1>6, <1>7, <1>8, <1>9 DEF Next, Advance

LEMMA Inductive == Spec => []IInv
BY InitIInv, NextIInv, PTL DEF Spec

\* The state of the pipeline keeps its shape, through failures and crashes.
THEOREM IngestTypeCorrect == Spec => []TypeOK
<1>1. IInv => TypeOK
    BY DEF IInv
<1> QED
    BY Inductive, <1>1, PTL

\* The repository hash is committed without an error only when every function
\* that the LLM accepted is in the graph with its file, its node and its edges:
\* nothing is lost between the chunks, the deferred tasks and the writers.
THEOREM TasksReachTheGraph == Spec => []CommitVouchesForTasks
<1>1. ASSUME IInv PROVE CommitVouchesForTasks
  <2> SUFFICES ASSUME ReadyToCommit, ~errors,
                      NEW f \in Sources, NEW fn \in Accepted(f, plan.tasks[f])
               PROVE  Current(f, fn, Body(plan.snap, f, fn))
    BY DEF CommitVouchesForTasks
  <2> DEFINE t == <<f, fn>>
  <2>1. fn \in plan.tasks[f] /\ plan.tasks[f] \subseteq Funcs
    BY <1>1 DEF Accepted, IInv, PlanOK, PlanSet
  <2>2. t \in Planned(plan) /\ t[1] = f /\ t[2] = fn
    BY <2>1 DEF Planned, Slots
  <2>3. PlanBody(plan, t) = Body(plan.snap, f, fn) /\ PlanBody(plan, t) \in IO
    BY DEF Accepted, PlanBody
  <2>4. jobs = <<>> /\ todo[f] = {} /\ deferred = {}
    BY <1>1 DEF ReadyToCommit, AllWritten, IInv, WorkOK
  <2>5. Pending(t) \/ Written(t, plan, func, contains, sfile)
    BY <1>1, <2>2, <2>3 DEF IInv, NothingLost
  <2>6. ~Pending(t)
    BY <2>2, <2>4 DEF Pending
  <2> QED
    BY <2>2, <2>3, <2>5, <2>6 DEF Written, Current
<1> QED
    BY Inductive, <1>1, PTL

--------------------------------------------------------------------------------
\* What is up to date and not in the plan is left alone.

\* A writer only touches functions of the plan.
LEMMA WriteSpares ==
    ASSUME IInv, Write, NEW t \in Slots,
           t[2] \in DefinedIn(plan.snap, t[1]), t[2] \notin plan.tasks[t[1]],
           Written(t, plan, func, contains, sfile)
    PROVE  Written(t, plan, func', contains', sfile')
<1>1. phase \in {"extract", "drained"}
    BY DEF Write
<1>2. PICK i \in Writing : WriteFails(i) \/ \E job : Statement(i, job)
    BY WriteSteps
<1>3. CASE WriteFails(i)
    BY <1>3 DEF WriteFails, graph, Written
<1>4. ASSUME NEW job, Statement(i, job)
      PROVE  Written(t, plan, func', contains', sfile')
  <2>1. ~Carries(jobs[i], t)
    <3>1. JobOK(jobs[i], plan)
      BY JobAtWork
    <3>2. t \notin Planned(plan)
      BY DEF Planned
    <3>3. t # Null
      BY SlotNotNull
    <3> QED
      BY <3>1, <3>2, <3>3 DEF JobOK, Carries
  <2> QED
    BY <1>1, <1>4, <2>1, StatementSpares
<1> QED
    BY <1>2, <1>3, <1>4

\* The soft-deletes hit neither its file nor the function.
LEMMA ContractSpares ==
    ASSUME IInv, Contract, ~plan.force, NEW t \in Slots,
           t[2] \in DefinedIn(plan.snap, t[1]),
           Written(t, plan, func, contains, sfile)
    PROVE  Written(t, plan, func', contains', sfile')
<1>1. t[1] \in Sources /\ t[1] \in Files /\ t[2] \in Funcs
    BY DEF Slots, Files
<1>2. t[1] \notin plan.delFiles
  <2>1. t[1] \in Present(plan.snap, Sources)
    BY <1>1 DEF Present, DefinedIn
  <2> QED
    BY <2>1 DEF IInv, PlanOK
<1>3. t[2] \notin plan.delFuncs
    BY DEF Contract, TombstoneFiles, DetachFiles, TombstoneFuncs, DetachFuncs, Contracting,
           IInv, SparesWritten
<1>4. func \in FuncSet /\ sfile \in FileSet
    BY DEF IInv, TypeOK, FuncSet, FileSet
<1>5. CASE TombstoneFiles
  <2>1. sfile'[t[1]] = [sfile[t[1]] EXCEPT !.live = @ /\ t[1] \notin plan.delFiles]
    BY <1>1, <1>5 DEF TombstoneFiles
  <2>2. sfile[t[1]].live => sfile'[t[1]].live
    BY <1>1, <1>2, <1>4, <2>1 DEF FileSet
  <2> QED
    BY <1>5, <2>2 DEF TombstoneFiles, Written
<1>6. CASE DetachFiles
    BY <1>2, <1>6 DEF DetachFiles, Written
<1>7. CASE TombstoneFuncs
  <2>1. func'[t[2]] = [func[t[2]] EXCEPT !.live = @ /\ t[2] \notin plan.delFuncs]
    BY <1>1, <1>7 DEF TombstoneFuncs
  <2>2. func'[t[2]] = func[t[2]]
    BY <1>1, <1>3, <1>4, <2>1 DEF FuncSet
  <2> QED
    BY <1>7, <2>2 DEF TombstoneFuncs, Written
<1>8. CASE DetachFuncs
  <2>1. func'[t[2]] = func[t[2]]
    BY <1>1, <1>3, <1>8 DEF DetachFuncs
  <2> QED
    BY <1>8, <2>1 DEF DetachFuncs, Written
<1> QED
    BY <1>5, <1>6, <1>7, <1>8 DEF Contract

\* An incremental run neither plans a function that is up to date nor damages one
\* outside its plan, whatever is retired, written or fails next to it.
THEOREM UpToDateWorkStays == Spec => UpToDateWorkIsKept
<1> DEFINE Keeps ==
      phase' # "idle" /\ ~plan'.force =>
          \A f \in Sources, fn \in Funcs, body \in IO :
             /\ <<f, fn>> \in Wanted(plan'.snap)
             /\ Body(plan'.snap, f, fn) = body
             /\ Current(f, fn, body)
             => IF phase = "idle" THEN fn \notin plan'.tasks[f]
                ELSE fn \in plan.tasks[f] \/ Current(f, fn, body)'
<1>1. ASSUME IInv, [Next]_vars PROVE [Keeps]_vars
  <2> SUFFICES ASSUME Next, phase' # "idle", ~plan'.force,
                      NEW f \in Sources, NEW fn \in Funcs, NEW body \in IO,
                      <<f, fn>> \in Wanted(plan'.snap), Body(plan'.snap, f, fn) = body,
                      Current(f, fn, body)
               PROVE  IF phase = "idle" THEN fn \notin plan'.tasks[f]
                      ELSE fn \in plan.tasks[f] \/ Current(f, fn, body)'
    BY <1>1
  <2> DEFINE t == <<f, fn>>
  <2>1. t \in Slots /\ t[1] = f /\ t[2] = fn
    BY DEF Slots
  <2>2. t[2] \in DefinedIn(plan'.snap, t[1])
    BY DEF Wanted
  <2>3. Written(t, plan', func, contains, sfile)
    BY <2>1 DEF Current, Written, PlanBody
  <2>4. ASSUME NEW force \in Forced, StartRun(force)
        PROVE  phase = "idle" /\ fn \notin plan'.tasks[f]
    <3>1. PICK broken \in SUBSET Present(disk, Sources) : plan' = MakePlan(disk, force, broken)
      BY <2>4 DEF StartRun
    <3>2. plan'.snap = disk /\ plan'.force = force
      BY <3>1 DEF MakePlan
    <3>3. force \in BOOLEAN /\ ~force
      BY <3>2, BoundsAssumption
    <3>4. t[2] \notin plan'.tasks[t[1]]
      BY <1>1, <2>1, <2>2, <2>3, <3>1, <3>2, <3>3, PlanMade DEF IInv
    <3> QED
      BY <2>1, <2>4, <3>4 DEF StartRun
  <2>5. ASSUME phase # "idle", plan' = plan, Written(t, plan, func', contains', sfile')
        PROVE  phase # "idle" /\ Current(f, fn, body)'
    BY <2>1, <2>5 DEF Current, Written, PlanBody
  <2>6. CASE Contract
    <3>1. phase # "idle" /\ plan' = plan
      BY <2>6 DEF Contract, TombstoneFiles, DetachFiles, TombstoneFuncs, DetachFuncs
    <3>2. Written(t, plan, func', contains', sfile')
      BY <1>1, <2>1, <2>2, <2>3, <2>6, <3>1, ContractSpares
    <3> QED
      BY <2>5, <3>1, <3>2
  <2>7. CASE Drain \/ \E g \in Sources : Extract(g)
    <3>1. phase # "idle" /\ plan' = plan /\ func' = func /\ contains' = contains /\ sfile' = sfile
      BY <2>7 DEF Drain, Extract, graph
    <3> QED
      BY <2>3, <2>5, <3>1
  <2>8. CASE Write
    <3>1. phase # "idle" /\ plan' = plan
      BY <2>8 DEF Write, WriteFile, DetachFunc, MergeFunc, ContainFunc, RelateFunc, WriteFails, WriteOnly
    <3>2. CASE fn \in plan.tasks[f]
      BY <3>1, <3>2
    <3>3. CASE fn \notin plan.tasks[f]
      <4>1. Written(t, plan, func', contains', sfile')
        BY <1>1, <2>1, <2>2, <2>3, <2>8, <3>1, <3>3, WriteSpares
      <4> QED
        BY <2>5, <3>1, <4>1
    <3> QED
      BY <3>2, <3>3
  <2>9. ~Edit /\ ~Commit /\ ~Crash
    BY DEF Edit, Commit, Crash, Forget, run
  <2> QED
    BY <2>4, <2>6, <2>7, <2>8, <2>9 DEF Next, Advance
<1> QED
    BY Inductive, <1>1, PTL DEF Spec, UpToDateWorkIsKept

--------------------------------------------------------------------------------
\* What a repository remembers of its earlier snapshots, and what the jobs of a
\* run write into the file nodes.

Remembered ==
    /\ \A f \in Files : disk[f] \in seen[f] /\ seen[f] \subseteq Variants[f]
    /\ repoHash # Null =>
          \E v \in Snapshots : (\A f \in Files : v[f] \in seen[f]) /\ repoHash = HashOf(v)
    /\ \A f \in Files : sfile[f].live => sfile[f].hash \in seen[f] \cup {Incomplete}
    /\ phase # "idle" => plan.snap = disk

RightHeads(j, v) ==
    /\ \A f \in DOMAIN j.heads :
          /\ f \in Files /\ v[f] # Absent
          /\ j.heads[f] = v[f] \/ (f \in Sources /\ j.heads[f] = Incomplete)
    /\ j.at # Null => DOMAIN j.heads = {}

HInv ==
    /\ IInv
    /\ Remembered
    /\ \A i \in DOMAIN jobs : RightHeads(jobs[i], disk)

LEMMA WantedFacts ==
    ASSUME NEW v \in [Files -> Contents \cup {Absent}], NEW t \in Wanted(v)
    PROVE  /\ t \in Slots /\ t = <<t[1], t[2]>> /\ t # Null
           /\ t[1] \in Sources /\ t[1] \in Files /\ t[2] \in Funcs
           /\ t[2] \in DefinedIn(v, t[1]) /\ v[t[1]] \in Contents /\ v[t[1]] # Absent
           /\ Body(v, t[1], t[2]) \in IO
           /\ Body(v, t[1], t[2]) \in Gated
<1>1. /\ t \in Slots /\ t = <<t[1], t[2]>> /\ t[1] \in Sources /\ t[1] \in Files /\ t[2] \in Funcs
      /\ t[2] \in DefinedIn(v, t[1]) /\ Body(v, t[1], t[2]) \in IO
    BY DEF Wanted, Slots, Files
<1>2. v[t[1]] \in Contents /\ v[t[1]] # Absent
    BY <1>1 DEF DefinedIn
<1> QED
    BY <1>1, <1>2, SlotNotNull, BodiesAssumption

\* The jobs of a statement's queue are those of before, or what it leaves of its own.
LEMMA StatementJobs ==
    ASSUME IInv, phase \in {"extract", "drained"}, NEW i \in Writing, NEW job, Statement(i, job)
    PROVE  /\ i \in DOMAIN jobs
           /\ \A k \in DOMAIN jobs' : jobs'[k] = job \/ \E m \in DOMAIN jobs : jobs'[k] = jobs[m]
           /\ \A m \in DOMAIN jobs : m # i => \E k \in DOMAIN jobs' : jobs'[k] = jobs[m]
           /\ (job.tasks = {} /\ job.at = Null /\ DOMAIN job.heads = {})
                 \/ \E k \in DOMAIN jobs' : jobs'[k] = job
<1>1. i \in DOMAIN jobs /\ jobs \in Seq(JobSet)
    BY JobAtWork DEF IInv, WorkOK
<1>2. job \in JobSet /\ Continue(i, job)
    BY DEF Statement, JobOK
<1>3. job.heads = Null => DOMAIN job.heads = {}
    BY DEF Null
<1>4. /\ \A k \in DOMAIN jobs' : jobs'[k] = job \/ \E m \in DOMAIN jobs : jobs'[k] = jobs[m]
      /\ \A m \in DOMAIN jobs : m # i => \E k \in DOMAIN jobs' : jobs'[k] = jobs[m]
      /\ (job.heads = Null /\ job.tasks = {} /\ job.at = Null) \/ \E k \in DOMAIN jobs' : jobs'[k] = job
    BY <1>1, <1>2, Continued
<1> QED
    BY <1>1, <1>3, <1>4

--------------------------------------------------------------------------------
\* What a chunk and the drain hand over.

FromChunk(j, f) ==
    /\ j.at = Null
    /\ DOMAIN j.heads = {f}
    /\ j.heads[f] = Incomplete \/ (j.heads[f] = plan.snap[f] /\ todo'[f] = {} /\ f \notin marked')
    /\ \A t \in j.tasks : t \in Planned(plan) /\ t[1] = f /\ PlanBody(plan, t) \in IO

\* The chunk's answers are on their way, but for a file that is marked; or its
\* embedding call failed.
LEMMA ExtractHands ==
    ASSUME IInv, NEW f \in Sources, Extract(f)
    PROVE  /\ phase = "extract" /\ phase' = "extract" /\ plan' = plan
           /\ disk' = disk /\ seen' = seen /\ repoHash' = repoHash
           /\ func' = func /\ contains' = contains /\ sfile' = sfile
           /\ todo[f] # {} /\ todo'[f] \subseteq todo[f]
           /\ \A g \in Sources : g # f => todo'[g] = todo[g]
           /\ marked \subseteq marked' /\ marked' \subseteq marked \cup {f}
           /\ deferred \subseteq deferred'
           /\ \A t \in deferred' : t \in deferred \/ t[1] = f
           /\ faults \in 0..MaxFaults /\ faults' \in 0..MaxFaults
           /\ faults <= faults'
           /\ deferred' = deferred \/ ("llmDeferred" \in Faults /\ faults' >= 1)
           /\ \A k \in DOMAIN jobs' : FromChunk(jobs'[k], f) \/ \E m \in DOMAIN jobs : jobs'[k] = jobs[m]
           /\ \A m \in DOMAIN jobs : \E k \in DOMAIN jobs' : jobs'[k] = jobs[m]
           /\ \/ /\ todo'[f] = {} /\ jobs' = jobs
                 /\ "embedFail" \in Faults /\ faults + 1 <= MaxFaults
                 /\ deferred' = deferred \/ ("llmDeferred" \in Faults /\ faults + 2 <= MaxFaults)
              \/ f \in marked'
              \/ \A t \in Planned(plan) :
                    t[1] = f /\ t[2] \in todo[f] /\ PlanBody(plan, t) \in IO => Pending(t)'
<1>1. PICK chunk \in Chunks(todo[f]), embedded \in BOOLEAN : \E o \in Outcomes(chunk) :
         /\ Strike(If(o.failed # {}, "llmFailed") \cup If(o.late # {}, "llmDeferred")
                     \cup If(~embedded, "embedFail"))
         /\ marked' = IF o.failed # {} THEN marked \cup {f} ELSE marked
         /\ deferred' = deferred \cup ({f} \X o.late)
         /\ IF embedded
            THEN /\ todo' = [todo EXCEPT ![f] = @ \ chunk]
                 /\ jobs' = Append(jobs,
                        Job("chunk", [g \in {f} |-> DraftHash(f, chunk, marked')],
                            {f} \X Accepted(f, chunk \ (o.failed \cup o.late))))
            ELSE /\ todo' = [todo EXCEPT ![f] = {}]
                 /\ UNCHANGED jobs
    BY DEF Extract
<1>2. PICK o \in Outcomes(chunk) :
         /\ Strike(If(o.failed # {}, "llmFailed") \cup If(o.late # {}, "llmDeferred")
                     \cup If(~embedded, "embedFail"))
         /\ marked' = IF o.failed # {} THEN marked \cup {f} ELSE marked
         /\ deferred' = deferred \cup ({f} \X o.late)
         /\ IF embedded
            THEN /\ todo' = [todo EXCEPT ![f] = @ \ chunk]
                 /\ jobs' = Append(jobs,
                        Job("chunk", [g \in {f} |-> DraftHash(f, chunk, marked')],
                            {f} \X Accepted(f, chunk \ (o.failed \cup o.late))))
            ELSE /\ todo' = [todo EXCEPT ![f] = {}]
                 /\ UNCHANGED jobs
    BY <1>1
<1> DEFINE kinds == If(o.failed # {}, "llmFailed") \cup If(o.late # {}, "llmDeferred")
                      \cup If(~embedded, "embedFail")
           heads == [g \in {f} |-> DraftHash(f, chunk, marked')]
           tasks == {f} \X Accepted(f, chunk \ (o.failed \cup o.late))
           job   == Job("chunk", heads, tasks)
<1>3. /\ phase = "extract" /\ phase' = "extract" /\ todo[f] # {} /\ plan' = plan
      /\ disk' = disk /\ seen' = seen /\ repoHash' = repoHash
      /\ func' = func /\ contains' = contains /\ sfile' = sfile
    BY DEF Extract, graph, world
<1>4. chunk \subseteq todo[f] /\ o.failed \subseteq chunk /\ o.late \subseteq chunk
    BY DEF Chunks, Outcomes
<1>5. /\ PlanOK(plan) /\ jobs \in Seq(JobSet) /\ todo[f] \subseteq plan.tasks[f]
      /\ todo \in [Sources -> SUBSET Funcs] /\ faults \in 0..MaxFaults
    BY DEF IInv, WorkOK, TypeOK
<1>6. /\ todo'[f] \subseteq todo[f] /\ \A g \in Sources : g # f => todo'[g] = todo[g]
      /\ embedded => todo'[f] = todo[f] \ chunk
      /\ ~embedded => todo'[f] = {} /\ jobs' = jobs
    BY <1>2, <1>5
<1>7. /\ kinds \subseteq Faults /\ IsFiniteSet(kinds) /\ Cardinality(kinds) \in Nat
      /\ faults' = faults + Cardinality(kinds) /\ faults + Cardinality(kinds) <= MaxFaults
      /\ ~embedded => "embedFail" \in kinds
      /\ o.late # {} => "llmDeferred" \in kinds
  <2>1. IsFiniteSet(kinds)
    BY IfFinite, FS_Union
  <2>2. Strike(kinds)
    BY <1>2
  <2> HIDE DEF kinds
  <2>3. /\ kinds \subseteq Faults /\ Cardinality(kinds) \in Nat
        /\ faults' = faults + Cardinality(kinds) /\ faults + Cardinality(kinds) <= MaxFaults
    BY <2>1, <2>2, FS_CardinalityType DEF Strike
  <2>4. (~embedded => "embedFail" \in kinds) /\ (o.late # {} => "llmDeferred" \in kinds)
    BY DEF kinds, If
  <2> QED
    BY <2>1, <2>3, <2>4
<1>8. /\ \A e \in kinds : Cardinality(kinds) >= 1
      /\ "llmDeferred" \in kinds /\ "embedFail" \in kinds => Cardinality(kinds) >= 2
  <2> HIDE DEF kinds
  <2>1. ASSUME NEW e \in kinds PROVE Cardinality(kinds) >= 1
    <3>1. Cardinality({e}) = 1 /\ {e} \subseteq kinds
      BY FS_Singleton
    <3>2. Cardinality({e}) <= Cardinality(kinds)
      BY <1>7, <3>1, FS_Subset
    <3> QED
      BY <3>1, <3>2
  <2>2. ASSUME "llmDeferred" \in kinds, "embedFail" \in kinds PROVE Cardinality(kinds) >= 2
    <3> DEFINE pair == {"llmDeferred"} \cup {"embedFail"}
    <3>1. IsFiniteSet({"llmDeferred"}) /\ Cardinality({"llmDeferred"}) = 1
      BY FS_Singleton
    <3>2. Cardinality(pair) = 2
      <4>1. Cardinality({"llmDeferred"} \cup {"embedFail"}) = Cardinality({"llmDeferred"}) + 1
        BY <3>1, FS_AddElement
      <4> QED
        BY <3>1, <4>1
    <3>3. Cardinality(pair) <= Cardinality(kinds)
      BY <1>7, <2>2, FS_Subset
    <3> HIDE DEF pair
    <3> QED
      BY <1>7, <3>2, <3>3
  <2> QED
    BY <2>1, <2>2
<1>9. /\ faults' \in 0..MaxFaults /\ faults <= faults'
      /\ ~embedded => "embedFail" \in Faults /\ faults + 1 <= MaxFaults
      /\ o.late # {} => "llmDeferred" \in Faults /\ faults' >= 1
      /\ ~embedded /\ o.late # {} => "llmDeferred" \in Faults /\ faults + 2 <= MaxFaults
  <2>1. MaxFaults \in Nat /\ faults \in Nat
    BY <1>5, BoundsAssumption
  <2> HIDE DEF kinds
  <2> QED
    BY <1>5, <1>7, <1>8, <2>1
<1>10. /\ marked \subseteq marked' /\ marked' \subseteq marked \cup {f}
       /\ o.failed # {} => f \in marked'
    BY <1>2
<1>11. /\ deferred \subseteq deferred' /\ \A t \in deferred' : t \in deferred \/ t[1] = f
       /\ \A fn \in o.late : <<f, fn>> \in deferred'
       /\ o.late = {} => deferred' = deferred
    BY <1>2
<1>12. /\ job.at = Null /\ job.tasks = tasks /\ job.heads = heads /\ job.kind = "chunk"
       /\ job.step = "detach"
    BY DEF Job
<1>13. \A fn \in todo[f] : <<f, fn>> \in Planned(plan) /\ plan.snap[f] \in Contents
  <2> SUFFICES ASSUME NEW fn \in todo[f] PROVE <<f, fn>> \in Planned(plan) /\ plan.snap[f] \in Contents
    OBVIOUS
  <2>1. <<f, fn>> \in Planned(plan)
    BY <1>5 DEF Planned, Slots
  <2>2. plan.snap[<<f, fn>>[1]] \in Contents
    BY <1>5, <2>1, PlannedTask
  <2> QED
    BY <2>1, <2>2
<1>14. CASE embedded
  <2>1. jobs' = Append(jobs, job)
    BY <1>2, <1>14
  <2>2. FromChunk(job, f)
    <3>1. DOMAIN heads = {f} /\ heads[f] = DraftHash(f, chunk, marked')
      OBVIOUS
    <3>2. DraftHash(f, chunk, marked') = Incomplete
             \/ (DraftHash(f, chunk, marked') = plan.snap[f] /\ todo'[f] = {} /\ f \notin marked')
      BY <1>6, <1>14 DEF DraftHash
    <3>3. ASSUME NEW t \in tasks PROVE t \in Planned(plan) /\ t[1] = f /\ PlanBody(plan, t) \in IO
      BY <1>4, <1>13 DEF Accepted, PlanBody
    <3> HIDE DEF heads, tasks, job
    <3> QED
      BY <1>12, <3>1, <3>2, <3>3 DEF FromChunk
  <2>3. job \in JobSet
    <3>1. PICK fn \in todo[f] : TRUE
      BY <1>3
    <3>2. heads \in [{f} -> Contents \cup {Incomplete}]
      BY <1>13, <3>1 DEF DraftHash
    <3>3. heads \in Heads
      BY <3>2 DEF Heads, Files
    <3>4. tasks \in SUBSET Slots
      BY <1>4, <1>13 DEF Accepted, Planned
    <3> HIDE DEF heads, tasks
    <3> QED
      BY <3>3, <3>4 DEF Job, JobSet
  <2> HIDE DEF job, heads
  <2>4. /\ \A k \in DOMAIN jobs' : jobs'[k] = job \/ \E m \in DOMAIN jobs : jobs'[k] = jobs[m]
        /\ \A m \in DOMAIN jobs : \E k \in DOMAIN jobs' : jobs'[k] = jobs[m]
        /\ \E k \in DOMAIN jobs' : jobs'[k] = job
    BY <1>5, <2>1, <2>3, Queued
  <2>5. ASSUME f \notin marked', NEW t \in Planned(plan), t[1] = f, t[2] \in todo[f],
               PlanBody(plan, t) \in IO
        PROVE  Pending(t)'
    <3>1. t = <<f, t[2]>> /\ o.failed = {}
      BY <1>5, <1>10, <2>5, PlannedTask
    <3>2. CASE t[2] \notin chunk
      <4>1. t[2] \in todo'[t[1]]
        BY <1>6, <1>14, <2>5, <3>2
      <4> QED
        BY <4>1 DEF Pending
    <3>3. CASE t[2] \in o.late
      BY <1>11, <3>1, <3>3 DEF Pending
    <3>4. CASE t[2] \in chunk /\ t[2] \notin o.late
      <4>1. t[2] \in Accepted(f, chunk \ (o.failed \cup o.late))
        BY <2>5, <3>1, <3>4 DEF Accepted, PlanBody
      <4>2. t \in tasks
        BY <3>1, <4>1
      <4> QED
        BY <1>12, <2>4, <4>2 DEF Pending, Carries
    <3> QED
      BY <3>2, <3>3, <3>4
  <2>6. \A k \in DOMAIN jobs' : FromChunk(jobs'[k], f) \/ \E m \in DOMAIN jobs : jobs'[k] = jobs[m]
    BY <2>2, <2>4
  <2> QED
    BY <1>3, <1>5, <1>6, <1>9, <1>10, <1>11, <2>4, <2>5, <2>6
<1>15. CASE ~embedded
  <2>1. todo'[f] = {} /\ jobs' = jobs
    BY <1>6, <1>15
  <2> QED
    BY <1>3, <1>5, <1>6, <1>9, <1>10, <1>11, <1>15, <2>1
<1> QED
    BY <1>14, <1>15

LEMMA DrainHands ==
    ASSUME IInv, Drain
    PROVE  /\ phase = "extract" /\ phase' = "drained" /\ plan' = plan
           /\ disk' = disk /\ seen' = seen /\ repoHash' = repoHash
           /\ func' = func /\ contains' = contains /\ sfile' = sfile
           /\ jobs = <<>> /\ \A f \in Sources : todo[f] = {}
           /\ todo' = todo /\ deferred' = {}
           /\ \E rec \in SUBSET deferred :
                /\ \A t \in rec : t \in Planned(plan) /\ PlanBody(plan, t) \in IO
                /\ {"drainFailed", "drainDeferred"} \cap Faults = {} =>
                      \A t \in deferred : PlanBody(plan, t) \in IO => t \in rec
                /\ rec # {} => \E k \in DOMAIN jobs' : TRUE
                /\ \A k \in DOMAIN jobs' :
                      /\ jobs'[k].tasks = rec /\ jobs'[k].at = Null
                      /\ DOMAIN jobs'[k].heads = Owners(rec)
                      /\ \A f \in Owners(rec) :
                            jobs'[k].heads[f] = IF f \in marked THEN Incomplete ELSE plan.snap[f]
<1> DEFINE answered(o)  == deferred \ (o.failed \cup o.late)
           recovered(o) == {t \in answered(o) : t[2] \in Accepted(t[1], {t[2]})}
           heads(o)     == [f \in Owners(recovered(o)) |->
                               IF f \in marked THEN Incomplete ELSE plan.snap[f]]
<1>1. PICK o \in Outcomes(deferred) :
         /\ Strike(If(o.failed # {}, "drainFailed") \cup If(o.late # {}, "drainDeferred"))
         /\ jobs' = IF recovered(o) = {} THEN jobs ELSE <<Job("chunk", heads(o), recovered(o))>>
    BY DEF Drain
<1>2. /\ phase = "extract" /\ phase' = "drained" /\ plan' = plan
      /\ disk' = disk /\ seen' = seen /\ repoHash' = repoHash
      /\ func' = func /\ contains' = contains /\ sfile' = sfile
      /\ jobs = <<>> /\ (\A f \in Sources : todo[f] = {})
      /\ todo' = todo /\ deferred' = {}
    BY DEF Drain, AllWritten, graph, world
<1>3. deferred \subseteq Planned(plan)
    BY DEF IInv, WorkOK
<1>4. {"drainFailed", "drainDeferred"} \cap Faults = {} => o.failed = {} /\ o.late = {}
    BY <1>1 DEF Strike, If
<1> DEFINE rec == recovered(o)
           hs  == heads(o)
           job == Job("chunk", hs, rec)
<1>5. rec \in SUBSET deferred /\ \A t \in rec : t \in Planned(plan) /\ PlanBody(plan, t) \in IO
    BY <1>3 DEF Accepted, PlanBody
<1>6. {"drainFailed", "drainDeferred"} \cap Faults = {} =>
         \A t \in deferred : PlanBody(plan, t) \in IO => t \in rec
    BY <1>4 DEF Accepted, PlanBody
<1>7. jobs' = IF rec = {} THEN <<>> ELSE <<job>>
    BY <1>1, <1>2
<1>8. /\ job.tasks = rec /\ job.at = Null /\ job.heads = hs
      /\ DOMAIN hs = Owners(rec)
      /\ \A f \in Owners(rec) : hs[f] = IF f \in marked THEN Incomplete ELSE plan.snap[f]
    BY DEF Job
<1> HIDE DEF rec, hs, job
<1>9. CASE rec = {}
  <2>1. DOMAIN jobs' = {}
    BY <1>7, <1>9
  <2> QED
    BY <1>2, <1>5, <1>6, <1>9, <2>1
<1>10. CASE rec # {}
  <2>1. jobs' = <<job>>
    BY <1>7, <1>10
  <2>2. DOMAIN jobs' = {1} /\ jobs'[1] = job
    BY <2>1
  <2> QED
    BY <1>2, <1>5, <1>6, <1>8, <2>2
<1> QED
    BY <1>9, <1>10

LEMMA StartHands ==
    ASSUME IInv, NEW force, StartRun(force)
    PROVE  /\ phase = "idle" /\ phase' = FirstPhase(plan') /\ todo' = plan'.tasks
           /\ phase' \in {"tombstoneFiles", "tombstoneFuncs", "extract"}
           /\ disk' = disk /\ seen' = seen /\ repoHash' = repoHash
           /\ func' = func /\ contains' = contains /\ sfile' = sfile
           /\ marked' = marked /\ deferred' = deferred
           /\ \E broken \in SUBSET Present(disk, Sources) :
                /\ broken # {} => "parseFail" \in Faults
                /\ plan' = MakePlan(disk, force, broken)
           /\ Present(disk, Manifests) # {} => \E k \in DOMAIN jobs' : TRUE
           /\ \A k \in DOMAIN jobs' :
                /\ jobs'[k].tasks = {} /\ jobs'[k].at = Null
                /\ DOMAIN jobs'[k].heads = Present(disk, Manifests)
                /\ \A m \in Present(disk, Manifests) : jobs'[k].heads[m] = disk[m]
<1>1. PICK broken \in SUBSET Present(disk, Sources) :
         Strike(If(broken # {}, "parseFail")) /\ plan' = MakePlan(disk, force, broken)
    BY DEF StartRun
<1>2. /\ phase = "idle" /\ phase' = FirstPhase(plan') /\ todo' = plan'.tasks
      /\ disk' = disk /\ seen' = seen /\ repoHash' = repoHash
      /\ func' = func /\ contains' = contains /\ sfile' = sfile
      /\ marked' = marked /\ deferred' = deferred
      /\ jobs' = EagerJobs(disk)
    BY DEF StartRun, world, graph
<1>3. broken # {} => "parseFail" \in Faults
    BY <1>1 DEF Strike, If
<1>4. phase' \in {"tombstoneFiles", "tombstoneFuncs", "extract"}
    BY <1>2 DEF FirstPhase, AfterFiles
<1> DEFINE present == Present(disk, Manifests)
           heads   == [f \in present |-> disk[f]]
           job     == Job("eager", heads, {})
<1>5. jobs' = IF present = {} THEN <<>> ELSE <<job>>
    BY <1>2 DEF EagerJobs
<1>6. /\ job.tasks = {} /\ job.at = Null /\ DOMAIN job.heads = present
      /\ \A m \in present : job.heads[m] = disk[m]
    BY DEF Job
<1> HIDE DEF job, heads, present
<1>7. CASE present = {}
  <2>1. DOMAIN jobs' = {}
    BY <1>5, <1>7
  <2> QED
    BY <1>1, <1>2, <1>3, <1>4, <1>7, <2>1 DEF present
<1>8. CASE present # {}
  <2>1. jobs' = <<job>>
    BY <1>5, <1>8
  <2>2. DOMAIN jobs' = {1} /\ jobs'[1] = job
    BY <2>1
  <2> QED
    BY <1>1, <1>2, <1>3, <1>4, <1>6, <2>2 DEF present
<1> QED
    BY <1>7, <1>8

\* A soft-delete only takes away, and only what the plan names.
LEMMA ContractTakes ==
    ASSUME IInv, Contract
    PROVE  /\ Contracting /\ phase' \in {"detachFiles", "tombstoneFuncs", "detachFuncs", "extract"}
           /\ phase # "idle" /\ plan' = plan /\ todo' = todo /\ marked' = marked
           /\ disk' = disk /\ seen' = seen /\ repoHash' = repoHash
           /\ jobs' = jobs /\ deferred' = deferred /\ faults' = faults
           /\ todo = plan.tasks
           /\ \A i \in DOMAIN jobs : jobs[i].tasks = {} /\ jobs[i].at = Null
           /\ \A f \in Files : /\ sfile'[f].hash = sfile[f].hash
                               /\ sfile'[f].live => sfile[f].live
                               /\ f \notin plan.delFiles => sfile'[f] = sfile[f]
           /\ phase = "tombstoneFiles" => \A f \in plan.delFiles : ~sfile'[f].live
           /\ contains' \subseteq contains
           /\ \A t \in contains : t[1] \notin plan.delFiles => t \in contains'
           /\ \A fn \in Funcs : /\ func'[fn].hash = func[fn].hash
                                /\ func'[fn].live => func[fn].live
                                /\ fn \notin plan.delFuncs => func'[fn] = func[fn]
                                /\ func'[fn].edges = func[fn].edges \/ phase = "detachFuncs"
           /\ phase = "tombstoneFuncs" => \A fn \in plan.delFuncs : ~func'[fn].live
           /\ \/ phase = "tombstoneFiles" /\ phase' = "detachFiles"
              \/ phase = "detachFiles" /\ phase' = IF plan.delFuncs # {} THEN "tombstoneFuncs" ELSE "extract"
              \/ phase = "tombstoneFuncs" /\ phase' = "detachFuncs"
              \/ phase = "detachFuncs" /\ phase' = "extract"
<1>1. /\ func \in FuncSet /\ sfile \in FileSet /\ plan \in PlanSet
    BY DEF IInv, TypeOK, FuncSet, FileSet, PlanOK
<1>2. plan.delFiles \subseteq Files /\ plan.delFuncs \subseteq Funcs
    BY <1>1 DEF PlanSet
<1>3. Contracting /\ todo = plan.tasks /\ \A i \in DOMAIN jobs : jobs[i].tasks = {} /\ jobs[i].at = Null
  <2>1. Contracting
    BY DEF Contract, TombstoneFiles, DetachFiles, TombstoneFuncs, DetachFuncs, Contracting
  <2> QED
    BY <2>1 DEF IInv, WorkOK
<1>4. /\ plan' = plan /\ todo' = todo /\ marked' = marked
      /\ disk' = disk /\ seen' = seen /\ repoHash' = repoHash
      /\ jobs' = jobs /\ deferred' = deferred /\ faults' = faults
    BY DEF Contract, TombstoneFiles, DetachFiles, TombstoneFuncs, DetachFuncs, world
<1>5. CASE TombstoneFiles
  <2>1. /\ sfile' = [f \in Files |-> [sfile[f] EXCEPT !.live = @ /\ f \notin plan.delFiles]]
        /\ func' = func /\ contains' = contains /\ phase = "tombstoneFiles" /\ phase' = "detachFiles"
    BY <1>5 DEF TombstoneFiles
  <2>2. \A f \in Files : /\ sfile'[f].hash = sfile[f].hash
                         /\ sfile'[f].live = (sfile[f].live /\ f \notin plan.delFiles)
    BY <1>1, <2>1 DEF FileSet
  <2>4. ASSUME NEW f \in Files, f \notin plan.delFiles PROVE sfile'[f] = sfile[f]
    <3>1. sfile'[f] = [sfile[f] EXCEPT !.live = @ /\ f \notin plan.delFiles]
      BY <2>1
    <3> QED
      BY <1>1, <2>4, <3>1 DEF FileSet
  <2>5. \A f \in plan.delFiles : ~sfile'[f].live
    BY <1>2, <2>2, Zenon
  <2> QED
    BY <1>3, <1>4, <2>1, <2>2, <2>4, <2>5
<1>6. CASE DetachFiles
  <2>1. /\ contains' = {e \in contains : e[1] \notin plan.delFiles}
        /\ func' = func /\ sfile' = sfile /\ phase = "detachFiles"
        /\ phase' = IF plan.delFuncs # {} THEN "tombstoneFuncs" ELSE "extract"
    BY <1>6 DEF DetachFiles, AfterFiles
  <2> QED
    BY <1>3, <1>4, <2>1
<1>7. CASE TombstoneFuncs
  <2>1. /\ func' = [fn \in Funcs |-> [func[fn] EXCEPT !.live = @ /\ fn \notin plan.delFuncs]]
        /\ contains' = contains /\ sfile' = sfile
        /\ phase = "tombstoneFuncs" /\ phase' = "detachFuncs"
    BY <1>7 DEF TombstoneFuncs
  <2>2. \A fn \in Funcs : /\ func'[fn].hash = func[fn].hash /\ func'[fn].edges = func[fn].edges
                          /\ func'[fn].live = (func[fn].live /\ fn \notin plan.delFuncs)
    BY <1>1, <2>1 DEF FuncSet
  <2>3. ASSUME NEW fn \in Funcs, fn \notin plan.delFuncs PROVE func'[fn] = func[fn]
    <3>1. func'[fn] = [func[fn] EXCEPT !.live = @ /\ fn \notin plan.delFuncs]
      BY <2>1
    <3> QED
      BY <1>1, <2>3, <3>1 DEF FuncSet
  <2>4. \A fn \in plan.delFuncs : ~func'[fn].live
    BY <1>2, <2>2, Zenon
  <2>5. \A fn \in Funcs : func'[fn].live => func[fn].live
    BY <2>2, Zenon
  <2> QED
    BY <1>3, <1>4, <2>1, <2>2, <2>3, <2>4, <2>5
<1>8. CASE DetachFuncs
  <2>1. /\ func' = [fn \in Funcs |-> IF fn \in plan.delFuncs
                                     THEN [func[fn] EXCEPT !.edges = None] ELSE func[fn]]
        /\ contains' = contains /\ sfile' = sfile
        /\ phase = "detachFuncs" /\ phase' = "extract"
    BY <1>8 DEF DetachFuncs
  <2>2. \A fn \in Funcs : /\ func'[fn].hash = func[fn].hash /\ func'[fn].live = func[fn].live
                          /\ fn \notin plan.delFuncs => func'[fn] = func[fn]
    BY <1>1, <2>1 DEF FuncSet
  <2> QED
    BY <1>3, <1>4, <2>1, <2>2
<1> QED
    BY <1>5, <1>6, <1>7, <1>8 DEF Contract

LEMMA IdleFacts ==
    ASSUME IInv, phase = "idle"
    PROVE  jobs = <<>> /\ DOMAIN jobs = {} /\ deferred = {} /\ marked = {} /\ \A f \in Sources : todo[f] = {}
<1>1. <<marked, jobs, deferred, errors>> = <<{}, <<>>, {}, FALSE>> /\ todo = NoPlan.tasks
    BY DEF IInv, TypeOK
<1> QED
    BY <1>1, NoPlanOK

LEMMA EditFacts ==
    ASSUME IInv, Edit
    PROVE  /\ phase = "idle" /\ phase' = "idle"
           /\ disk' \in [Files -> Contents \cup {Absent}]
           /\ \E f \in Files : disk'[f] # disk[f]
           /\ \A f \in Files : disk'[f] = disk[f] \/ (disk'[f] \in Variants[f] /\ (Reverts \/ disk'[f] \notin seen[f]))
           /\ \A f \in Files : seen'[f] = seen[f] \cup {disk'[f]}
           /\ func' = func /\ contains' = contains /\ sfile' = sfile /\ repoHash' = repoHash
           /\ jobs' = jobs /\ deferred' = deferred /\ marked' = marked /\ todo' = todo
           /\ plan' = plan /\ faults' = faults
<1>1. PICK changed \in (SUBSET Files) \ {{}} :
         /\ disk' \in {v \in [Files -> Contents \cup {Absent}] :
                         \A f \in Files : IF f \in changed THEN v[f] \in Variants[f] \ {disk[f]}
                                                           ELSE v[f] = disk[f]}
         /\ Reverts \/ \A f \in changed : disk'[f] \notin seen[f]
    BY DEF Edit
<1>2. /\ phase = "idle" /\ phase' = "idle"
      /\ \A f \in Files : seen'[f] = seen[f] \cup {disk'[f]}
      /\ func' = func /\ contains' = contains /\ sfile' = sfile /\ repoHash' = repoHash
      /\ jobs' = jobs /\ deferred' = deferred /\ marked' = marked /\ todo' = todo
      /\ plan' = plan /\ faults' = faults
    BY DEF Edit, graph, run
<1>3. \E f \in Files : disk'[f] # disk[f]
  <2>1. PICK f \in changed : f \in Files
    BY <1>1
  <2> QED
    BY <1>1, <2>1
<1>4. ASSUME NEW f \in Files
      PROVE  disk'[f] = disk[f] \/ (disk'[f] \in Variants[f] /\ (Reverts \/ disk'[f] \notin seen[f]))
    BY <1>1
<1> QED
    BY <1>1, <1>2, <1>3, <1>4

LEMMA InitHInv == Init => HInv
<1> SUFFICES ASSUME Init PROVE HInv
    OBVIOUS
<1>1. /\ disk = Checkout /\ seen = [f \in Files |-> {disk[f]}] /\ repoHash = Null /\ jobs = <<>>
      /\ phase = "idle" /\ sfile = [f \in Files |-> [live |-> FALSE, hash |-> None]]
    BY DEF Init, NoNode
<1>2. Remembered
    BY <1>1, VariantsAssumption DEF Remembered
<1>3. DOMAIN jobs = {}
    BY <1>1
<1> QED
    BY <1>2, <1>3, InitIInv DEF HInv

LEMMA NextHInv == HInv /\ [Next]_vars => HInv'
<1> SUFFICES ASSUME HInv, [Next]_vars PROVE HInv'
    OBVIOUS
<1>1. IInv /\ IInv'
    BY NextIInv DEF HInv
<1>2. Remembered /\ \A i \in DOMAIN jobs : RightHeads(jobs[i], disk)
    BY DEF HInv
<1>3. disk \in [Files -> Contents \cup {Absent}]
    BY <1>1 DEF IInv, TypeOK
<1>4. CASE Edit
  <2>1. /\ phase = "idle" /\ phase' = "idle"
        /\ \A f \in Files : disk'[f] = disk[f] \/ disk'[f] \in Variants[f]
        /\ \A f \in Files : seen'[f] = seen[f] \cup {disk'[f]}
        /\ sfile' = sfile /\ repoHash' = repoHash /\ jobs' = jobs
    BY <1>1, <1>4, EditFacts
  <2>2. DOMAIN jobs' = {}
    BY <1>1, <2>1, IdleFacts
  <2>3. \A f \in Files : disk'[f] \in seen'[f] /\ seen'[f] \subseteq Variants[f]
    BY <1>2, <2>1 DEF Remembered
  <2>4. repoHash' # Null =>
           \E v \in Snapshots : (\A f \in Files : v[f] \in seen'[f]) /\ repoHash' = HashOf(v)
    BY <1>2, <2>1 DEF Remembered
  <2>5. \A f \in Files : sfile'[f].live => sfile'[f].hash \in seen'[f] \cup {Incomplete}
    BY <1>2, <2>1 DEF Remembered
  <2>6. Remembered'
    BY <2>1, <2>3, <2>4, <2>5 DEF Remembered
  <2> QED
    BY <1>1, <2>2, <2>6 DEF HInv
<1>5. ASSUME NEW force \in Forced, StartRun(force) PROVE HInv'
  <2>1. /\ disk' = disk /\ seen' = seen /\ repoHash' = repoHash /\ sfile' = sfile
        /\ \E broken : plan' = MakePlan(disk, force, broken)
        /\ \A k \in DOMAIN jobs' :
             /\ jobs'[k].at = Null /\ DOMAIN jobs'[k].heads = Present(disk, Manifests)
             /\ \A m \in Present(disk, Manifests) : jobs'[k].heads[m] = disk[m]
    BY <1>1, <1>5, StartHands
  <2>2. plan'.snap = disk
    BY <2>1 DEF MakePlan
  <2>3. Remembered'
    BY <1>2, <2>1, <2>2 DEF Remembered
  <2>4. \A k \in DOMAIN jobs' : RightHeads(jobs'[k], disk')
    BY <2>1 DEF RightHeads, Present, Files
  <2> QED
    BY <1>1, <2>3, <2>4 DEF HInv
<1>6. CASE Contract
  <2>1. /\ disk' = disk /\ seen' = seen /\ repoHash' = repoHash /\ jobs' = jobs /\ plan' = plan
        /\ phase # "idle"
        /\ \A f \in Files : sfile'[f].hash = sfile[f].hash /\ (sfile'[f].live => sfile[f].live)
    BY <1>1, <1>6, ContractTakes
  <2>2. Remembered'
    BY <1>2, <2>1 DEF Remembered
  <2> QED
    BY <1>1, <1>2, <2>1, <2>2 DEF HInv, RightHeads
<1>7. ASSUME NEW f \in Sources, Extract(f) PROVE HInv'
  <2>1. /\ disk' = disk /\ seen' = seen /\ repoHash' = repoHash /\ sfile' = sfile /\ plan' = plan
        /\ phase = "extract" /\ todo[f] # {}
        /\ \A k \in DOMAIN jobs' : FromChunk(jobs'[k], f) \/ \E m \in DOMAIN jobs : jobs'[k] = jobs[m]
    BY <1>1, <1>7, ExtractHands
  <2>2. plan.snap = disk
    BY <1>2, <2>1 DEF Remembered
  <2>3. disk[f] # Absent /\ f \in Files
    <3>1. todo[f] \subseteq DefinedIn(plan.snap, f)
      BY <1>1 DEF IInv, WorkOK, PlanOK
    <3> QED
      BY <2>1, <2>2, <3>1 DEF DefinedIn, Files
  <2>4. \A k \in DOMAIN jobs' : RightHeads(jobs'[k], disk')
    <3> SUFFICES ASSUME NEW k \in DOMAIN jobs' PROVE RightHeads(jobs'[k], disk)
      BY <2>1
    <3>1. CASE FromChunk(jobs'[k], f)
      BY <2>2, <2>3, <3>1 DEF FromChunk, RightHeads
    <3> QED
      BY <1>2, <2>1, <3>1
  <2>5. Remembered'
    BY <1>2, <2>1, <2>2 DEF Remembered
  <2> QED
    BY <1>1, <2>4, <2>5 DEF HInv
<1>8. CASE Drain
  <2>1. /\ disk' = disk /\ seen' = seen /\ repoHash' = repoHash /\ sfile' = sfile /\ plan' = plan
        /\ phase = "extract"
    BY <1>1, <1>8, DrainHands
  <2>2. PICK rec \in SUBSET deferred :
          /\ \A t \in rec : t \in Planned(plan)
          /\ \A k \in DOMAIN jobs' :
                /\ jobs'[k].at = Null /\ DOMAIN jobs'[k].heads = Owners(rec)
                /\ \A f \in Owners(rec) :
                      jobs'[k].heads[f] = IF f \in marked THEN Incomplete ELSE plan.snap[f]
    BY <1>1, <1>8, DrainHands
  <2>3. plan.snap = disk
    BY <1>2, <2>1 DEF Remembered
  <2>4. \A f \in Owners(rec) : f \in Sources /\ f \in Files /\ disk[f] # Absent
    <3> SUFFICES ASSUME NEW t \in rec PROVE t[1] \in Sources /\ t[1] \in Files /\ disk[t[1]] # Absent
      BY DEF Owners
    <3>1. t[1] \in Sources /\ t[1] \in Files /\ plan.snap[t[1]] \in Contents
      BY <1>1, <2>2, PlannedTask DEF IInv
    <3> QED
      BY <2>3, <3>1, DefsAssumption
  <2>5. \A k \in DOMAIN jobs' : RightHeads(jobs'[k], disk')
    BY <2>1, <2>2, <2>3, <2>4 DEF RightHeads
  <2>6. Remembered'
    BY <1>2, <2>1, <2>3 DEF Remembered
  <2> QED
    BY <1>1, <2>5, <2>6 DEF HInv
<1>9. CASE Write
  <2>1. phase \in {"extract", "drained"} /\ phase' = phase
    BY <1>9 DEF Write, WriteFile, DetachFunc, MergeFunc, ContainFunc, RelateFunc, WriteFails, WriteOnly
  <2>2. PICK i \in Writing : WriteFails(i) \/ \E job : Statement(i, job)
    BY <1>1, <1>9, WriteSteps
  <2>3. CASE WriteFails(i)
    <3>1. /\ disk' = disk /\ seen' = seen /\ repoHash' = repoHash /\ sfile' = sfile /\ plan' = plan
          /\ jobs' = Without(i)
      BY <2>3 DEF WriteFails, graph, world
    <3>2. \A k \in DOMAIN jobs' : \E m \in DOMAIN jobs : jobs'[k] = jobs[m]
      BY <1>1, <3>1, JobAtWork, Dropped DEF IInv, WorkOK
    <3>3. \A k \in DOMAIN jobs' : RightHeads(jobs'[k], disk')
      BY <1>2, <3>1, <3>2
    <3>4. Remembered'
      BY <1>2, <2>1, <3>1 DEF Remembered
    <3> QED
      BY <1>1, <3>3, <3>4 DEF HInv
  <2>4. ASSUME NEW job, Statement(i, job) PROVE HInv'
    <3>1. /\ disk' = disk /\ seen' = seen /\ repoHash' = repoHash /\ plan' = plan
          /\ Narrows(job, jobs[i]) /\ FilesFollow(job, jobs[i])
      BY <2>4 DEF Statement, WriteOnly, world
    <3>2. /\ i \in DOMAIN jobs
          /\ \A k \in DOMAIN jobs' : jobs'[k] = job \/ \E m \in DOMAIN jobs : jobs'[k] = jobs[m]
      BY <1>1, <2>1, <2>4, StatementJobs
    <3>3. RightHeads(jobs[i], disk)
      BY <1>2, <3>2
    <3>4. RightHeads(job, disk)
      BY <3>1, <3>3 DEF Narrows, RightHeads
    <3>5. \A k \in DOMAIN jobs' : RightHeads(jobs'[k], disk')
      BY <1>2, <3>1, <3>2, <3>4
    <3>6. \A f \in Files : sfile'[f].live => sfile'[f].hash \in seen[f] \cup {Incomplete}
      <4> SUFFICES ASSUME NEW f \in Files, sfile'[f].live
                   PROVE  sfile'[f].hash \in seen[f] \cup {Incomplete}
        OBVIOUS
      <4>1. CASE f \in DOMAIN jobs[i].heads \ DOMAIN job.heads
        <5>1. sfile'[f] = [live |-> TRUE, hash |-> jobs[i].heads[f]]
          BY <3>1, <4>1 DEF FilesFollow
        <5>2. sfile'[f].hash = jobs[i].heads[f]
          BY <5>1
        <5> QED
          BY <1>2, <3>3, <4>1, <5>2 DEF RightHeads, Remembered
      <4>2. CASE f \notin DOMAIN jobs[i].heads \ DOMAIN job.heads
        <5>1. sfile'[f] = sfile[f]
          BY <3>1, <4>2 DEF FilesFollow
        <5> QED
          BY <1>2, <5>1 DEF Remembered
      <4> QED
        BY <4>1, <4>2
    <3>7. Remembered'
      BY <1>2, <2>1, <3>1, <3>6 DEF Remembered
    <3> QED
      BY <1>1, <3>5, <3>7 DEF HInv
  <2> QED
    BY <2>2, <2>3, <2>4
<1>10. CASE Commit \/ Crash
  <2>1. /\ disk' = disk /\ seen' = seen /\ sfile' = sfile /\ phase' = "idle" /\ jobs' = <<>>
        /\ phase # "idle" /\ repoHash' \in {repoHash, HashOf(plan.snap)}
    BY <1>10 DEF Commit, Crash, Forget, graph, world, ReadyToCommit, Committed
  <2>2. disk \in Snapshots /\ plan.snap = disk
    BY <1>2, <1>3, <2>1 DEF Remembered, Snapshots
  <2>3. repoHash' # Null =>
           \E v \in Snapshots : (\A f \in Files : v[f] \in seen[f]) /\ repoHash' = HashOf(v)
    BY <1>2, <2>1, <2>2 DEF Remembered
  <2>4. Remembered'
    BY <1>2, <2>1, <2>3 DEF Remembered
  <2>5. DOMAIN jobs' = {}
    BY <2>1
  <2> QED
    BY <1>1, <2>4, <2>5 DEF HInv
<1>11. CASE UNCHANGED vars
  <2>1. /\ disk' = disk /\ seen' = seen /\ repoHash' = repoHash /\ phase' = phase
        /\ sfile' = sfile /\ jobs' = jobs /\ plan' = plan
    BY <1>11 DEF vars
  <2>2. Remembered'
    BY <1>2, <2>1 DEF Remembered
  <2> QED
    BY <1>1, <1>2, <2>1, <2>2 DEF HInv, RightHeads
<1> QED
    BY <1>4, <1>5, <1>6, <1>7, <1>8, <1>9, <1>10, <1>11 DEF Next, Advance

--------------------------------------------------------------------------------
\* What the next sync skips is complete.

InPlace(t)  == Written(t, [snap |-> disk], func, contains, sfile)
Carried(t)  == \E i \in DOMAIN jobs : Carries(jobs[i], t)
OnItsWay(t) == t \in deferred \/ Carried(t)

\* A file whose node has the hash of its content passes for cached.
Good(f) == sfile[f].live /\ sfile[f].hash = disk[f]

\* The edges of a live function are those of its hash, or a writer is at it.
EdgesFollow ==
    /\ \A fn \in Funcs : func[fn].live =>
          \/ func[fn].edges = func[fn].hash
          \/ \E i \in DOMAIN jobs : jobs[i].at # Null /\ jobs[i].at[2] = fn
    /\ phase = "detachFuncs" => \A fn \in plan.delFuncs : ~func[fn].live

DeferredCounted == deferred # {} => "llmDeferred" \in Faults /\ faults >= 1

\* The plan spares what is wanted, and what it leaves out is in place.
PlanComplete ==
    phase # "idle" => \A t \in Wanted(disk) :
        /\ t[2] \notin plan.delFuncs
        /\ t \in Planned(plan) \/ InPlace(t)

\* A file that is not through yet, nor marked, has lost nothing.
OpenFiles ==
    phase # "idle" => \A t \in Wanted(disk) :
        /\ t[1] \notin marked
        /\ todo[t[1]] # {} \/ \E u \in deferred : u[1] = t[1]
        => InPlace(t) \/ Pending(t)

\* A good file is complete, or what is missing is on its way.
GoodFiles ==
    \A t \in Wanted(disk) : Good(t[1]) =>
        InPlace(t) \/ (todo[t[1]] = {} /\ OnItsWay(t))

\* So will be a file whose good hash is still to be written.
FinalHeads ==
    \A i \in DOMAIN jobs : \A f \in Sources :
        f \in DOMAIN jobs[i].heads /\ jobs[i].heads[f] = disk[f] =>
            /\ todo[f] = {}
            /\ \A t \in Wanted(disk) : t[1] = f => InPlace(t) \/ OnItsWay(t)

\* No writer is at the functions of a good file before its node is poisoned.
GoodFilesRest ==
    \A f \in Sources : Good(f) /\ todo[f] # {} =>
        \A i \in DOMAIN jobs : \A t \in Slots :
            Carries(jobs[i], t) /\ t[1] = f => f \in DOMAIN jobs[i].heads

\* Under a repository hash that matches, only a writer may be at a function.
MatchComplete ==
    repoHash = HashOf(disk) => \A t \in Wanted(disk) : InPlace(t) \/ Carried(t)

ManifestsFollow ==
    phase # "idle" \/ repoHash = HashOf(disk) =>
        \A m \in Present(disk, Manifests) :
            \/ phase \in {"idle", "extract", "drained"} /\ sfile[m] = [live |-> TRUE, hash |-> disk[m]]
            \/ \E i \in DOMAIN jobs : m \in DOMAIN jobs[i].heads

CInv ==
    /\ HInv
    /\ EdgesFollow
    /\ DeferredCounted
    /\ PlanComplete
    /\ OpenFiles
    /\ GoodFiles
    /\ FinalHeads
    /\ GoodFilesRest
    /\ MatchComplete
    /\ ManifestsFollow

LEMMA SameBody ==
    ASSUME NEW p, NEW v, p.snap = v, NEW t, NEW fs, NEW co, NEW sf
    PROVE  Written(t, [snap |-> v], fs, co, sf) <=> Written(t, p, fs, co, sf)
BY DEF Written, PlanBody

LEMMA WantedNow ==
    ASSUME IInv, NEW t \in Wanted(disk)
    PROVE  /\ t \in Slots /\ t = <<t[1], t[2]>> /\ t # Null
           /\ t[1] \in Sources /\ t[1] \in Files /\ t[2] \in Funcs
           /\ t[2] \in DefinedIn(disk, t[1]) /\ disk[t[1]] \in Contents /\ disk[t[1]] # Absent
           /\ Body(disk, t[1], t[2]) \in IO
           /\ Body(disk, t[1], t[2]) \in Gated
BY WantedFacts DEF IInv, TypeOK

\* Only one of the functions a snapshot defines has the id of a job's function.
LEMMA CarriedAlone ==
    ASSUME NEW p, PlanOK(p), NEW j, JobOK(j, p), NEW u \in Slots, Carries(j, u),
           NEW t \in Slots, t[2] \in DefinedIn(p.snap, t[1]), u[2] = t[2]
    PROVE  u = t /\ t \in Planned(p)
<1>1. u \in Planned(p)
    BY SlotNotNull DEF JobOK, Carries
<1>2. u[1] \in Sources /\ u[2] \in DefinedIn(p.snap, u[1]) /\ u = <<u[1], u[2]>>
    BY <1>1, PlannedTask
<1>3. t[1] \in Sources /\ t = <<t[1], t[2]>>
    BY DEF Slots
<1>4. DefinedIn(p.snap, u[1]) \cap DefinedIn(p.snap, t[1]) # {}
    BY <1>2
<1>5. u[1] = t[1]
    BY <1>2, <1>3, <1>4 DEF PlanOK, UniqueIds
<1> QED
    BY <1>1, <1>2, <1>3, <1>5

LEMMA StatementPlaces ==
    ASSUME HInv, phase \in {"extract", "drained"}, NEW i \in Writing, NEW job, Statement(i, job),
           NEW t \in Wanted(disk)
    PROVE  /\ InPlace(t) /\ ~Carries(jobs[i], t) => InPlace(t)'
           /\ InPlace(t) \/ Carried(t) => InPlace(t)' \/ Carried(t)'
<1>1. IInv /\ plan.snap = disk /\ disk' = disk /\ JobOK(jobs[i], plan)
    BY JobAtWork DEF HInv, Remembered, Statement, WriteOnly, world
<1>2. t \in Slots /\ t # Null /\ t[2] \in DefinedIn(plan.snap, t[1])
    BY <1>1, WantedNow
<1>3. /\ InPlace(t) <=> Written(t, plan, func, contains, sfile)
      /\ InPlace(t)' <=> Written(t, plan, func', contains', sfile')
    BY <1>1, SameBody DEF InPlace
<1>4. InPlace(t) /\ ~Carries(jobs[i], t) => InPlace(t)'
    BY <1>1, <1>2, <1>3, StatementSpares
<1>5. /\ i \in DOMAIN jobs
      /\ \A m \in DOMAIN jobs : m # i => \E k \in DOMAIN jobs' : jobs'[k] = jobs[m]
      /\ (job.tasks = {} /\ job.at = Null) \/ \E k \in DOMAIN jobs' : jobs'[k] = job
    BY <1>1, StatementJobs
<1>6. Carries(jobs[i], t) => InPlace(t)' \/ Carried(t)'
  <2> SUFFICES ASSUME Carries(jobs[i], t) PROVE InPlace(t)' \/ Carried(t)'
    OBVIOUS
  <2>1. t \in Planned(plan)
    BY <1>1, <1>2 DEF JobOK, Carries
  <2>2. Carries(job, t) \/ Written(t, plan, func', contains', sfile')
    BY <2>1 DEF Statement
  <2>3. Carries(job, t) => Carried(t)'
    BY <1>2, <1>5 DEF Carries, Carried
  <2> QED
    BY <1>3, <2>2, <2>3
<1>7. Carried(t) => InPlace(t)' \/ Carried(t)'
    BY <1>5, <1>6 DEF Carried
<1> QED
    BY <1>4, <1>6, <1>7

LEMMA StatementCompletes ==
    ASSUME CInv, phase \in {"extract", "drained"}, NEW i \in Writing, NEW job, Statement(i, job), HInv'
    PROVE  CInv'
<1>1. /\ HInv /\ IInv /\ plan.snap = disk
      /\ disk' = disk /\ repoHash' = repoHash /\ phase' = phase /\ plan' = plan /\ todo' = todo
      /\ marked' = marked /\ deferred' = deferred /\ faults' = faults
    BY DEF CInv, HInv, Remembered, Statement, WriteOnly, world
<1>2. /\ i \in DOMAIN jobs
      /\ \A k \in DOMAIN jobs' : jobs'[k] = job \/ \E m \in DOMAIN jobs : jobs'[k] = jobs[m]
      /\ \A m \in DOMAIN jobs : m # i => \E k \in DOMAIN jobs' : jobs'[k] = jobs[m]
      /\ (job.tasks = {} /\ job.at = Null /\ DOMAIN job.heads = {}) \/ \E k \in DOMAIN jobs' : jobs'[k] = job
    BY <1>1, StatementJobs
<1>3. /\ Narrows(job, jobs[i]) /\ FilesFollow(job, jobs[i]) /\ FuncsFollow(job, jobs[i])
      /\ RightHeads(jobs[i], disk)
    BY <1>2 DEF Statement, CInv, HInv
<1>4. \A t \in Wanted(disk) : /\ InPlace(t) /\ ~Carries(jobs[i], t) => InPlace(t)'
                              /\ InPlace(t) \/ Carried(t) => InPlace(t)' \/ Carried(t)'
    BY <1>1, StatementPlaces
<1>5. \A t \in Wanted(disk) : t \in Slots /\ t[1] \in Sources /\ t[1] \in Files /\ t # Null
    BY <1>1, WantedNow
<1>6. EdgesFollow'
  <2>1. \A fn \in Funcs : func'[fn].live =>
          \/ func'[fn].edges = func'[fn].hash
          \/ \E k \in DOMAIN jobs' : jobs'[k].at # Null /\ jobs'[k].at[2] = fn
    <3> SUFFICES ASSUME NEW fn \in Funcs, func'[fn].live, func'[fn].edges # func'[fn].hash
                 PROVE  \E k \in DOMAIN jobs' : jobs'[k].at # Null /\ jobs'[k].at[2] = fn
      OBVIOUS
    <3>1. job.at # Null => \E k \in DOMAIN jobs' : jobs'[k] = job
      BY <1>2
    <3>2. CASE func'[fn] = func[fn]
      <4>1. PICK m \in DOMAIN jobs : jobs[m].at # Null /\ jobs[m].at[2] = fn
        BY <3>2 DEF CInv, EdgesFollow
      <4>2. CASE m # i
        BY <1>2, <4>1, <4>2
      <4>3. CASE m = i
        <5>1. ~Written(jobs[i].at, plan, func', contains', sfile')
          <6> SUFFICES ASSUME Written(jobs[i].at, plan, func', contains', sfile') PROVE FALSE
            OBVIOUS
          <6>1. func'[fn] = [live |-> TRUE, hash |-> PlanBody(plan, jobs[i].at), edges |-> PlanBody(plan, jobs[i].at)]
            BY <4>1, <4>3 DEF Written
          <6> QED
            BY <6>1
        <5>2. job.at = jobs[i].at
          BY <1>3, <4>1, <4>3, <5>1 DEF FuncsFollow
        <5> QED
          BY <3>1, <4>1, <4>3, <5>2
      <4> QED
        BY <4>2, <4>3
    <3>3. CASE func'[fn] # func[fn]
      <4>1. PICK u \in Slots : u[2] = fn /\ job.at = u
        BY <1>3, <3>3 DEF FuncsFollow
      <4> QED
        BY <3>1, <4>1, SlotNotNull
    <3> QED
      BY <3>2, <3>3
  <2> QED
    BY <1>1, <2>1 DEF EdgesFollow
<1>7. DeferredCounted' 
    BY <1>1 DEF CInv, DeferredCounted
<1>8. PlanComplete'
  <2>1. ASSUME NEW t \in Wanted(disk), t \notin Planned(plan), InPlace(t) PROVE InPlace(t)'
    <3>1. ~Carries(jobs[i], t)
      BY <1>1, <1>5, <2>1, JobAtWork DEF JobOK, Carries
    <3> QED
      BY <1>4, <2>1, <3>1
  <2> QED
    BY <1>1, <2>1 DEF CInv, PlanComplete
<1>9. OpenFiles'
  <2>1. \A t \in Wanted(disk) : InPlace(t) \/ Pending(t) => InPlace(t)' \/ Pending(t)'
    BY <1>1, <1>4 DEF Pending, Carried
  <2> QED
    BY <1>1, <2>1 DEF CInv, OpenFiles
<1>10. \A t \in Wanted(disk) : InPlace(t) \/ OnItsWay(t) => InPlace(t)' \/ OnItsWay(t)'
    BY <1>1, <1>4 DEF OnItsWay
<1>11. \A f \in Sources : Good(f)' =>
          \/ Good(f) /\ ~(f \in DOMAIN jobs[i].heads /\ f \notin DOMAIN job.heads)
          \/ f \in DOMAIN jobs[i].heads /\ jobs[i].heads[f] = disk[f]
  <2> SUFFICES ASSUME NEW f \in Sources, Good(f)'
               PROVE  \/ Good(f) /\ ~(f \in DOMAIN jobs[i].heads /\ f \notin DOMAIN job.heads)
                      \/ f \in DOMAIN jobs[i].heads /\ jobs[i].heads[f] = disk[f]
    OBVIOUS
  <2>1. f \in Files
    BY DEF Files
  <2>2. CASE f \in DOMAIN jobs[i].heads \ DOMAIN job.heads
    <3>1. sfile'[f] = [live |-> TRUE, hash |-> jobs[i].heads[f]]
      BY <1>3, <2>1, <2>2 DEF FilesFollow
    <3> QED
      BY <1>1, <2>2, <3>1 DEF Good
  <2>3. CASE f \notin DOMAIN jobs[i].heads \ DOMAIN job.heads
    <3>1. sfile'[f] = sfile[f]
      BY <1>3, <2>1, <2>3 DEF FilesFollow
    <3> QED
      BY <1>1, <2>3, <3>1 DEF Good
  <2> QED
    BY <2>2, <2>3
<1>12. \A f \in Sources : f \in DOMAIN jobs[i].heads /\ jobs[i].heads[f] = disk[f] =>
          todo[f] = {} /\ \A t \in Wanted(disk) : t[1] = f => InPlace(t) \/ OnItsWay(t)
    BY <1>2 DEF CInv, FinalHeads
<1>13. GoodFiles'
  <2> SUFFICES ASSUME NEW t \in Wanted(disk), Good(t[1])'
               PROVE  InPlace(t)' \/ (todo[t[1]] = {} /\ OnItsWay(t)')
    BY <1>1 DEF GoodFiles
  <2>1. CASE t[1] \in DOMAIN jobs[i].heads /\ jobs[i].heads[t[1]] = disk[t[1]]
    BY <1>5, <1>10, <1>12, <2>1
  <2>2. CASE /\ Good(t[1]) /\ ~(t[1] \in DOMAIN jobs[i].heads /\ t[1] \notin DOMAIN job.heads)
             /\ todo[t[1]] = {}
    BY <1>10, <2>2 DEF CInv, GoodFiles
  <2>3. CASE /\ Good(t[1]) /\ ~(t[1] \in DOMAIN jobs[i].heads /\ t[1] \notin DOMAIN job.heads)
             /\ todo[t[1]] # {}
    <3>1. InPlace(t)
      BY <2>3 DEF CInv, GoodFiles
    <3>2. CASE Carries(jobs[i], t)
      <4>1. t[1] \in DOMAIN jobs[i].heads /\ t[1] \in DOMAIN job.heads
        BY <1>2, <1>5, <2>3, <3>2 DEF CInv, GoodFilesRest
      <4>2. jobs[i].at = Null
        BY <1>3, <4>1 DEF RightHeads
      <4>3. Written(t, plan, func, contains, sfile)
        BY <1>1, <3>1, SameBody DEF InPlace
      <4>4. job.at = Null
        BY <1>3, <4>1, <4>2 DEF Narrows
      <4>5. PlanOK(plan) /\ JobOK(jobs[i], plan) /\ func' \in FuncSet
        BY <1>1, JobAtWork DEF Statement
      <4>6. t \in Slots /\ t[1] \in Files /\ t[2] \in Funcs /\ t[2] \in DefinedIn(plan.snap, t[1])
        BY <1>1, WantedNow
      <4>7. func'[t[2]].live
        BY <1>3, <4>3, <4>6 DEF FuncsFollow, Written
      <4>8. func'[t[2]].edges = PlanBody(plan, t) /\ func'[t[2]].hash = PlanBody(plan, t)
        <5>1. func[t[2]].hash = PlanBody(plan, t) /\ func[t[2]].edges = PlanBody(plan, t)
          BY <4>3 DEF Written
        <5>2. ASSUME NEW u \in Slots, u[2] = t[2], Carries(jobs[i], u) PROVE u = t /\ job.at # u
          BY <4>4, <4>5, <4>6, <5>2, CarriedAlone, SlotNotNull
        <5> QED
          BY <1>3, <4>6, <5>1, <5>2 DEF FuncsFollow
      <4>9. func'[t[2]] = [live |-> TRUE, hash |-> PlanBody(plan, t), edges |-> PlanBody(plan, t)]
        BY <4>5, <4>6, <4>7, <4>8, Zenon DEF FuncSet
      <4>10. contains \subseteq contains' /\ (sfile[t[1]].live => sfile'[t[1]].live)
        <5>1. contains \subseteq contains' /\ FilesFollow(job, jobs[i])
          BY DEF Statement, LinksFollow
        <5>2. sfile'[t[1]] = [live |-> TRUE, hash |-> jobs[i].heads[t[1]]] \/ sfile'[t[1]] = sfile[t[1]]
          BY <4>6, <5>1 DEF FilesFollow
        <5> QED
          BY <5>1, <5>2
      <4>11. Written(t, plan, func', contains', sfile')
        BY <4>3, <4>9, <4>10 DEF Written
      <4> QED
        BY <1>1, <4>11, SameBody DEF InPlace
    <3>3. CASE ~Carries(jobs[i], t)
      BY <1>4, <3>1, <3>3
    <3> QED
      BY <3>2, <3>3
  <2> QED
    BY <1>5, <1>11, <2>1, <2>2, <2>3
<1>14. FinalHeads'
  <2> SUFFICES ASSUME NEW k \in DOMAIN jobs', NEW f \in Sources,
                      f \in DOMAIN jobs'[k].heads, jobs'[k].heads[f] = disk[f]
               PROVE  /\ todo[f] = {}
                      /\ \A t \in Wanted(disk) : t[1] = f => InPlace(t)' \/ OnItsWay(t)'
    BY <1>1 DEF FinalHeads
  <2>1. \E m \in DOMAIN jobs : f \in DOMAIN jobs[m].heads /\ jobs[m].heads[f] = disk[f]
    BY <1>2, <1>3 DEF Narrows
  <2> QED
    BY <1>10, <2>1 DEF CInv, FinalHeads
<1>15. GoodFilesRest'
  <2> SUFFICES ASSUME NEW f \in Sources, Good(f)', todo[f] # {}, NEW k \in DOMAIN jobs',
                      NEW t \in Slots, Carries(jobs'[k], t), t[1] = f
               PROVE  f \in DOMAIN jobs'[k].heads
    BY <1>1 DEF GoodFilesRest
  <2>1. Good(f) /\ ~(f \in DOMAIN jobs[i].heads /\ f \notin DOMAIN job.heads)
    BY <1>11, <1>12
  <2>2. \A m \in DOMAIN jobs : Carries(jobs[m], t) => f \in DOMAIN jobs[m].heads
    BY <2>1 DEF CInv, GoodFilesRest
  <2>3. CASE jobs'[k] = job
    <3>1. Carries(jobs[i], t)
      BY <1>3, <2>3 DEF Narrows
    <3> QED
      BY <1>2, <2>1, <2>2, <2>3, <3>1
  <2> QED
    BY <1>2, <2>2, <2>3
<1>16. MatchComplete'
    BY <1>1, <1>4 DEF CInv, MatchComplete
<1>17. ManifestsFollow'
  <2> SUFFICES ASSUME NEW m \in Present(disk, Manifests)
               PROVE  \/ sfile'[m] = [live |-> TRUE, hash |-> disk[m]]
                      \/ \E k \in DOMAIN jobs' : m \in DOMAIN jobs'[k].heads
    BY <1>1 DEF ManifestsFollow
  <2>1. m \in Files /\ m \notin Sources
    BY PathsAssumption DEF Present, Files
  <2>2. sfile[m] = [live |-> TRUE, hash |-> disk[m]] \/ \E k \in DOMAIN jobs : m \in DOMAIN jobs[k].heads
    BY DEF CInv, ManifestsFollow
  <2>3. CASE m \in DOMAIN jobs[i].heads \ DOMAIN job.heads
    <3>1. sfile'[m] = [live |-> TRUE, hash |-> jobs[i].heads[m]]
      BY <1>3, <2>1, <2>3 DEF FilesFollow
    <3>2. jobs[i].heads[m] = disk[m]
      BY <1>3, <2>1, <2>3 DEF RightHeads
    <3> QED
      BY <3>1, <3>2
  <2>4. CASE m \notin DOMAIN jobs[i].heads \ DOMAIN job.heads
    <3>1. sfile'[m] = sfile[m]
      BY <1>3, <2>1, <2>4 DEF FilesFollow
    <3>2. ASSUME NEW k \in DOMAIN jobs, m \in DOMAIN jobs[k].heads
          PROVE  \E n \in DOMAIN jobs' : m \in DOMAIN jobs'[n].heads
      <4>1. CASE k = i
        <5>1. m \in DOMAIN job.heads
          BY <2>4, <3>2, <4>1
        <5>2. \E n \in DOMAIN jobs' : jobs'[n] = job
          BY <1>2, <5>1
        <5> QED
          BY <5>1, <5>2
      <4>2. CASE k # i
        BY <1>2, <3>2, <4>2
      <4> QED
        BY <4>1, <4>2
    <3> QED
      BY <2>2, <3>1, <3>2
  <2> QED
    BY <2>3, <2>4
<1> QED
    BY <1>1, <1>6, <1>7, <1>8, <1>9, <1>13, <1>14, <1>15, <1>16, <1>17 DEF CInv

\* Null is a repository hash only where no file has a content.
LEMMA EmptyHash ==
    ASSUME NEW v, HashOf(v) = Null
    PROVE  Contents = {}
<1>1. DOMAIN HashOf(v) = Contents
    BY DEF HashOf
<1>2. DOMAIN Null = {}
    BY DEF Null
<1> QED
    BY <1>1, <1>2

\* After an edit the repository hash is out of date.
LEMMA EditUnsettles ==
    ASSUME HInv, Edit, HInv', ~Reverts, HashIsExact
    PROVE  repoHash' # HashOf(disk')
<1>1. /\ disk \in [Files -> Contents \cup {Absent}] /\ disk' \in [Files -> Contents \cup {Absent}]
      /\ \E f \in Files : disk'[f] # disk[f]
      /\ \A f \in Files : disk'[f] = disk[f] \/ disk'[f] \notin seen[f]
      /\ repoHash' = repoHash
    BY EditFacts DEF HInv, IInv, TypeOK
<1>2. CASE repoHash = Null
  <2> SUFFICES ASSUME HashOf(disk') = Null PROVE FALSE
    BY <1>1, <1>2
  <2>1. Contents = {}
    BY EmptyHash
  <2> QED
    BY <1>1, <2>1
<1>3. CASE repoHash # Null
  <2>1. PICK v \in Snapshots : (\A f \in Files : v[f] \in seen[f]) /\ repoHash = HashOf(v)
    BY <1>3 DEF HInv, Remembered
  <2>2. disk' \in Snapshots
    BY <1>1 DEF HInv, Remembered, Snapshots
  <2>3. SUFFICES ASSUME repoHash = HashOf(disk') PROVE FALSE
    BY <1>1
  <2>4. v = disk'
    BY <2>1, <2>2, <2>3 DEF HashIsExact
  <2> QED
    BY <1>1, <2>1, <2>4 DEF HInv, Remembered
<1> QED
    BY <1>2, <1>3

LEMMA InitCInv == Init => CInv
<1> SUFFICES ASSUME Init PROVE CInv
    OBVIOUS
<1>1. HInv /\ IInv
    BY InitHInv DEF HInv
<1>2. /\ repoHash = Null /\ jobs = <<>> /\ DOMAIN jobs = {} /\ phase = "idle" /\ deferred = {}
      /\ sfile = [f \in Files |-> [live |-> FALSE, hash |-> None]]
      /\ func = [fn \in Funcs |-> [live |-> FALSE, hash |-> None, edges |-> None]]
    BY DEF Init, NoNode
<1>3. EdgesFollow /\ DeferredCounted /\ PlanComplete /\ OpenFiles
    BY <1>2 DEF EdgesFollow, DeferredCounted, PlanComplete, OpenFiles
<1>4. \A f \in Files : ~sfile[f].live
    BY <1>2
<1>5. GoodFiles /\ FinalHeads /\ GoodFilesRest
  <2>1. \A f \in Sources : ~Good(f)
    BY <1>4 DEF Good, Files
  <2>2. \A t \in Wanted(disk) : t[1] \in Sources
    BY <1>1, WantedNow
  <2> QED
    BY <1>2, <2>1, <2>2 DEF GoodFiles, FinalHeads, GoodFilesRest
<1>6. MatchComplete /\ ManifestsFollow
  <2>1. disk \in [Files -> Contents \cup {Absent}]
    BY <1>1 DEF IInv, TypeOK
  <2>2. SUFFICES ASSUME HashOf(disk) = Null PROVE MatchComplete /\ ManifestsFollow
    BY <1>2 DEF MatchComplete, ManifestsFollow
  <2>3. \A f \in Files : disk[f] = Absent
    BY <2>1, <2>2, EmptyHash
  <2>4. \A t \in Wanted(disk) : t[1] \in Files /\ disk[t[1]] # Absent
    BY <1>1, WantedNow
  <2> QED
    BY <2>3, <2>4 DEF MatchComplete, ManifestsFollow, Present, Files
<1> QED
    BY <1>1, <1>3, <1>5, <1>6 DEF CInv

LEMMA EditCompletes ==
    ASSUME CInv, CompleteWhere, Edit, HInv'
    PROVE  CInv'
<1>1. HInv /\ IInv /\ IInv'
    BY DEF CInv, HInv
<1>2. /\ phase = "idle" /\ phase' = "idle" /\ jobs' = jobs /\ DOMAIN jobs = {} /\ deferred' = {} /\ deferred = {}
      /\ func' = func /\ contains' = contains /\ sfile' = sfile
      /\ \A f \in Files : disk'[f] = disk[f] \/ disk'[f] \notin seen[f]
    BY <1>1, EditFacts, IdleFacts DEF CompleteWhere
<1>3. repoHash' # HashOf(disk')
    BY <1>1, EditUnsettles DEF CompleteWhere
<1>4. EdgesFollow' /\ DeferredCounted' /\ PlanComplete' /\ OpenFiles' /\ FinalHeads' /\ GoodFilesRest'
    BY <1>2 DEF CInv, EdgesFollow, DeferredCounted, PlanComplete, OpenFiles, FinalHeads, GoodFilesRest
<1>5. MatchComplete' /\ ManifestsFollow'
    BY <1>2, <1>3 DEF MatchComplete, ManifestsFollow
<1>6. GoodFiles'
  <2> SUFFICES ASSUME NEW t \in Wanted(disk'), Good(t[1])' PROVE InPlace(t)'
    BY DEF GoodFiles
  <2>1. /\ t \in Slots /\ t[1] \in Sources /\ t[1] \in Files
        /\ t[2] \in DefinedIn(disk', t[1]) /\ disk'[t[1]] \in Contents
        /\ Body(disk', t[1], t[2]) \in IO
    <3>1. disk' \in [Files -> Contents \cup {Absent}]
      BY <1>1 DEF IInv, TypeOK
    <3> QED
      BY <3>1, WantedFacts
  <2>2. disk'[t[1]] = disk[t[1]]
    <3>1. sfile[t[1]].live /\ sfile[t[1]].hash = disk'[t[1]]
      BY <1>2 DEF Good
    <3>2. disk'[t[1]] \in seen[t[1]]
      BY <1>1, <2>1, <3>1, DefsAssumption DEF HInv, Remembered
    <3> QED
      BY <1>2, <2>1, <3>2
  <2>3. t \in Wanted(disk) /\ Good(t[1])
    BY <1>2, <2>1, <2>2 DEF Wanted, DefinedIn, Body, Good, Slots
  <2>4. InPlace(t)
    BY <1>2, <2>3 DEF CInv, GoodFiles, OnItsWay, Carried
  <2> QED
    BY <1>2, <2>2, <2>4 DEF InPlace, Written, PlanBody, Body
<1> QED
    BY <1>4, <1>5, <1>6 DEF CInv

LEMMA StartCompletes ==
    ASSUME CInv, CompleteWhere, NEW force, StartRun(force), HInv'
    PROVE  CInv'
<1>1. HInv /\ IInv
    BY DEF CInv, HInv
<1>2. /\ phase = "idle" /\ todo' = plan'.tasks
      /\ phase' \in {"tombstoneFiles", "tombstoneFuncs", "extract"}
      /\ disk' = disk /\ repoHash' = repoHash
      /\ func' = func /\ contains' = contains /\ sfile' = sfile /\ deferred' = {}
      /\ DOMAIN jobs = {} /\ deferred = {}
    BY <1>1, StartHands, IdleFacts
<1>3. plan' = MakePlan(disk, force, {})
  <2>1. PICK broken \in SUBSET Present(disk, Sources) :
          (broken # {} => "parseFail" \in Faults) /\ plan' = MakePlan(disk, force, broken)
    BY <1>1, StartHands
  <2>2. broken = {}
    BY <2>1 DEF CompleteWhere
  <2> QED
    BY <2>1, <2>2
<1>4. /\ Present(disk, Manifests) # {} => \E k \in DOMAIN jobs' : TRUE
      /\ \A k \in DOMAIN jobs' : /\ jobs'[k].tasks = {} /\ jobs'[k].at = Null
                                 /\ DOMAIN jobs'[k].heads = Present(disk, Manifests)
    BY <1>1, StartHands
<1>5. ASSUME NEW t \in Wanted(disk), Good(t[1]) PROVE InPlace(t)
    BY <1>2, <1>5 DEF CInv, GoodFiles, OnItsWay, Carried
<1>6. ASSUME NEW t \in Wanted(disk)
      PROVE  /\ t[2] \notin plan'.delFuncs
             /\ t \in Planned(plan') \/ InPlace(t)
  <2>1. /\ t \in Slots /\ t = <<t[1], t[2]>> /\ t[1] \in Sources /\ t[1] \in Files /\ t[2] \in Funcs
        /\ t[2] \in DefinedIn(disk, t[1]) /\ disk[t[1]] # Absent
        /\ Body(disk, t[1], t[2]) \in Gated
    BY <1>1, WantedNow
  <2> DEFINE f  == t[1]
             fn == t[2]
  <2>2. f \in Present(disk, Sources) /\ Present(disk, Sources) # {}
    BY <2>1 DEF Present
  <2>3. InPlace(t) => fn \in IndexedFuncs(f)
    BY <2>1 DEF InPlace, Written, IndexedFuncs, Indexed
  <2>4. fn \in Unchanged(disk, f, force) => InPlace(t) /\ fn \in IndexedFuncs(f)
    <3> SUFFICES ASSUME fn \in Unchanged(disk, f, force) PROVE InPlace(t) /\ fn \in IndexedFuncs(f)
      OBVIOUS
    <3>1. /\ fn \in IndexedFuncs(f) /\ func[fn].hash = Body(disk, f, fn)
          /\ sfile[f].live /\ t \in contains /\ func[fn].live
      BY <2>1 DEF Unchanged, IndexedFuncs, Indexed
    <3>2. func[fn].edges = func[fn].hash
      BY <1>2, <2>1, <3>1 DEF CInv, EdgesFollow
    <3>3. func \in FuncSet
      BY <1>1 DEF IInv, TypeOK, FuncSet
    <3>4. func[fn] = [live |-> TRUE, hash |-> Body(disk, f, fn), edges |-> Body(disk, f, fn)]
      BY <2>1, <3>1, <3>2, <3>3, Zenon DEF FuncSet
    <3> QED
      BY <3>1, <3>4 DEF InPlace, Written, PlanBody
  <2>5. fn \in Unchanged(disk, f, force) \/ fn \in TasksOf(disk, f, force)
    BY <2>1 DEF TasksOf, Changed
  <2>6. FileHit(disk, f, force) => InPlace(t)
    BY <1>5 DEF FileHit, Indexed, Good
  <2>7. f \in CacheHits(disk, force, {}) => InPlace(t)
    <3> SUFFICES ASSUME f \in CacheHits(disk, force, {}), ~FileHit(disk, f, force) PROVE InPlace(t)
      BY <2>6
    <3>1. Changed(disk, f, force) = {}
      BY DEF CacheHits
    <3>2. fn \in Unchanged(disk, f, force)
      BY <2>1, <3>1 DEF Changed
    <3> QED
      BY <2>4, <3>2
  <2>8. fn \in Kept(disk, force, {}, f)
    BY <2>3, <2>5, <2>7 DEF Kept
  <2>9. fn \notin plan'.delFuncs
    BY <1>3, <2>2, <2>8 DEF MakePlan, DeletedFuncs
  <2>10. f \notin CacheHits(disk, force, {}) => t \in Planned(plan') \/ InPlace(t)
    <3> SUFFICES ASSUME f \notin CacheHits(disk, force, {}), fn \in TasksOf(disk, f, force)
                 PROVE  t \in Planned(plan')
      BY <2>4, <2>5
    <3>1. plan'.tasks[f] = TasksOf(disk, f, force)
      BY <1>3, <2>1 DEF MakePlan
    <3> QED
      BY <2>1, <3>1 DEF Planned
  <2> QED
    BY <2>7, <2>9, <2>10
<1>7. \A t \in Wanted(disk) : InPlace(t)' <=> InPlace(t)
    BY <1>2 DEF InPlace, Written, PlanBody, Body
<1>8. EdgesFollow' /\ DeferredCounted'
    BY <1>2 DEF CInv, EdgesFollow, DeferredCounted
<1>9. PlanComplete'
    BY <1>2, <1>6, <1>7 DEF PlanComplete
<1>10. OpenFiles'
  <2>1. \A t \in Planned(plan') : Pending(t)'
    BY <1>2 DEF Planned, Pending
  <2> QED
    BY <1>2, <1>6, <1>7, <2>1 DEF OpenFiles
<1>11. GoodFiles'
    BY <1>2, <1>5, <1>7 DEF GoodFiles, Good
<1>12. FinalHeads' /\ GoodFilesRest'
    BY <1>4, PathsAssumption, SlotNotNull DEF FinalHeads, GoodFilesRest, Present, Carries
<1>13. MatchComplete'
    BY <1>2, <1>7 DEF CInv, MatchComplete, Carried
<1>14. ManifestsFollow'
    BY <1>2, <1>4 DEF ManifestsFollow
<1> QED
    BY <1>8, <1>9, <1>10, <1>11, <1>12, <1>13, <1>14 DEF CInv

LEMMA ContractCompletes ==
    ASSUME CInv, CompleteWhere, Contract, HInv'
    PROVE  CInv'
<1>1. HInv /\ IInv
    BY DEF CInv, HInv
<1>2. /\ Contracting /\ phase' \in {"detachFiles", "tombstoneFuncs", "detachFuncs", "extract"}
      /\ phase # "idle" /\ plan' = plan /\ todo' = todo /\ marked' = marked
      /\ disk' = disk /\ repoHash' = repoHash
      /\ jobs' = jobs /\ deferred' = deferred /\ faults' = faults
      /\ \A i \in DOMAIN jobs : jobs[i].tasks = {} /\ jobs[i].at = Null
    BY <1>1, ContractTakes
<1>3. /\ \A f \in Files : /\ sfile'[f].hash = sfile[f].hash
                          /\ sfile'[f].live => sfile[f].live
                          /\ f \notin plan.delFiles => sfile'[f] = sfile[f]
      /\ \A t \in contains : t[1] \notin plan.delFiles => t \in contains'
      /\ \A fn \in Funcs : /\ func'[fn].hash = func[fn].hash
                           /\ func'[fn].live => func[fn].live
                           /\ fn \notin plan.delFuncs => func'[fn] = func[fn]
                           /\ func'[fn].edges = func[fn].edges \/ phase = "detachFuncs"
      /\ phase' = "detachFuncs" => \A fn \in plan.delFuncs : ~func'[fn].live
    BY <1>1, ContractTakes
<1>4. plan.snap = disk /\ PlanOK(plan)
    BY <1>1, <1>2 DEF HInv, Remembered, IInv
<1>5. ASSUME NEW t \in Wanted(disk), InPlace(t) PROVE InPlace(t)'
  <2>1. t[1] \in Sources /\ t[1] \in Files /\ t[2] \in Funcs /\ disk[t[1]] # Absent
    BY <1>1, WantedNow
  <2>2. t[1] \notin plan.delFiles
    BY <1>4, <2>1 DEF PlanOK, Present
  <2>3. t[2] \notin plan.delFuncs
    BY <1>2 DEF CInv, PlanComplete
  <2> QED
    BY <1>2, <1>3, <1>5, <2>1, <2>2, <2>3 DEF InPlace, Written, PlanBody, Body
<1>6. EdgesFollow'
  <2>1. ASSUME NEW fn \in Funcs, func'[fn].live PROVE func'[fn].edges = func'[fn].hash
    <3>1. func[fn].live /\ func[fn].edges = func[fn].hash
      BY <1>2, <1>3, <2>1 DEF CInv, EdgesFollow
    <3>2. CASE fn \notin plan.delFuncs
      BY <1>3, <3>1, <3>2
    <3>3. CASE fn \in plan.delFuncs
      <4>1. phase # "detachFuncs"
        BY <3>1, <3>3 DEF CInv, EdgesFollow
      <4> QED
        BY <1>3, <3>1, <4>1
    <3> QED
      BY <3>2, <3>3
  <2> QED
    BY <1>2, <1>3, <2>1 DEF EdgesFollow
<1>7. DeferredCounted' /\ PlanComplete'
    BY <1>2, <1>5 DEF CInv, DeferredCounted, PlanComplete
<1>8. \A t \in Wanted(disk) : Pending(t)' <=> Pending(t)
    BY <1>2 DEF Pending
<1>9. OpenFiles'
    BY <1>2, <1>5, <1>8 DEF CInv, OpenFiles
<1>10. \A f \in Sources : Good(f)' => Good(f)
    BY <1>2, <1>3 DEF Good, Files
<1>11. \A t \in Wanted(disk) : (OnItsWay(t)' <=> OnItsWay(t)) /\ (Carried(t)' <=> Carried(t))
    BY <1>2 DEF OnItsWay, Carried
<1>12. \A t \in Wanted(disk) : t[1] \in Sources
    BY <1>1, WantedNow
<1>13. GoodFiles'
    BY <1>2, <1>5, <1>10, <1>11, <1>12 DEF CInv, GoodFiles
<1>14. FinalHeads' /\ GoodFilesRest'
    BY <1>2, <1>5, <1>10, <1>11 DEF CInv, FinalHeads, GoodFilesRest
<1>15. MatchComplete'
    BY <1>2, <1>5, <1>11 DEF CInv, MatchComplete
<1>16. ManifestsFollow'
    BY <1>2 DEF CInv, ManifestsFollow, Contracting
<1> QED
    BY <1>6, <1>7, <1>9, <1>13, <1>14, <1>15, <1>16 DEF CInv

LEMMA ExtractCompletes ==
    ASSUME CInv, CompleteWhere, NEW f \in Sources, Extract(f), HInv'
    PROVE  CInv'
<1>1. HInv /\ IInv
    BY DEF CInv, HInv
<1>2. /\ phase = "extract" /\ phase' = "extract" /\ plan' = plan
      /\ disk' = disk /\ repoHash' = repoHash
      /\ func' = func /\ contains' = contains /\ sfile' = sfile
      /\ todo[f] # {} /\ todo'[f] \subseteq todo[f]
      /\ \A g \in Sources : g # f => todo'[g] = todo[g]
      /\ marked \subseteq marked' /\ marked' \subseteq marked \cup {f}
      /\ deferred \subseteq deferred'
      /\ \A t \in deferred' : t \in deferred \/ t[1] = f
    BY <1>1, ExtractHands
<1>3. /\ faults \in 0..MaxFaults /\ faults' \in 0..MaxFaults /\ faults <= faults'
      /\ deferred' = deferred \/ ("llmDeferred" \in Faults /\ faults' >= 1)
    BY <1>1, ExtractHands
<1>4. /\ \A k \in DOMAIN jobs' : FromChunk(jobs'[k], f) \/ \E m \in DOMAIN jobs : jobs'[k] = jobs[m]
      /\ \A m \in DOMAIN jobs : \E k \in DOMAIN jobs' : jobs'[k] = jobs[m]
    BY <1>1, ExtractHands
<1>5. \/ /\ todo'[f] = {} /\ jobs' = jobs
         /\ "embedFail" \in Faults /\ faults + 1 <= MaxFaults
         /\ deferred' = deferred \/ ("llmDeferred" \in Faults /\ faults + 2 <= MaxFaults)
      \/ f \in marked'
      \/ \A t \in Planned(plan) :
            t[1] = f /\ t[2] \in todo[f] /\ PlanBody(plan, t) \in IO => Pending(t)'
    BY <1>1, ExtractHands
<1>6. plan.snap = disk /\ PlanOK(plan)
    BY <1>1, <1>2 DEF HInv, Remembered, IInv
<1>7. \A t \in Wanted(disk) :
         /\ t \in Slots /\ t[1] \in Sources /\ t[1] \in Files
         /\ PlanBody(plan, t) \in IO /\ t[2] \in DefinedIn(disk, t[1]) /\ disk[t[1]] \in Contents
    BY <1>1, <1>6, WantedNow DEF PlanBody
<1>8. \A t \in Wanted(disk) : /\ InPlace(t)' <=> InPlace(t)
                              /\ Carried(t) => Carried(t)'
                              /\ OnItsWay(t) => OnItsWay(t)'
    BY <1>2, <1>4 DEF InPlace, Written, PlanBody, Body, Carried, OnItsWay
\* What the chunk's file was still waiting for.
<1>9. ASSUME NEW t \in Wanted(disk), t[1] = f, f \notin marked', Pending(t),
             todo'[f] # {} \/ jobs' # jobs \/ \E u \in deferred' : u[1] = f
      PROVE  Pending(t)'
  <2>1. CASE OnItsWay(t)
    BY <1>8, <2>1 DEF OnItsWay, Carried, Pending
  <2>2. CASE ~OnItsWay(t)
    <3>1. t[2] \in todo[f]
      BY <1>9, <2>2 DEF Pending, OnItsWay, Carried
    <3>2. t \in Planned(plan)
      BY <1>1, <1>7, <1>9, <3>1 DEF Planned, IInv, WorkOK
    <3>3. ~( /\ todo'[f] = {} /\ jobs' = jobs
             /\ "embedFail" \in Faults /\ faults + 1 <= MaxFaults
             /\ deferred' = deferred \/ ("llmDeferred" \in Faults /\ faults + 2 <= MaxFaults) )
      <4> SUFFICES ASSUME todo'[f] = {}, jobs' = jobs, "embedFail" \in Faults, faults + 1 <= MaxFaults,
                          deferred' = deferred \/ ("llmDeferred" \in Faults /\ faults + 2 <= MaxFaults)
                   PROVE  FALSE
        OBVIOUS
      <4>1. MaxFaults \in Nat /\ faults \in Nat
        BY <1>3, BoundsAssumption
      <4>2. deferred' # {}
        BY <1>9
      <4>3. ("llmDeferred" \in Faults /\ faults + 2 <= MaxFaults) \/ ("llmDeferred" \in Faults /\ faults >= 1)
        BY <4>2 DEF CInv, DeferredCounted
      <4>4. MaxFaults <= 1
        BY <4>3 DEF CompleteWhere
      <4> QED
        BY <4>1, <4>3, <4>4
    <3> QED
      BY <1>5, <1>7, <1>9, <3>1, <3>2, <3>3
  <2> QED
    BY <2>1, <2>2
<1>10. EdgesFollow'
  <2>1. \A m \in DOMAIN jobs : \E k \in DOMAIN jobs' : jobs'[k] = jobs[m]
    BY <1>4
  <2>2. ASSUME NEW fn \in Funcs, NEW m \in DOMAIN jobs, jobs[m].at # Null /\ jobs[m].at[2] = fn
        PROVE  \E k \in DOMAIN jobs' : jobs'[k].at # Null /\ jobs'[k].at[2] = fn
    BY <2>1, <2>2
  <2> QED
    BY <1>2, <2>2 DEF CInv, EdgesFollow
<1>11. DeferredCounted'
  <2>1. MaxFaults \in Nat
    BY BoundsAssumption
  <2> QED
    BY <1>3, <2>1 DEF CInv, DeferredCounted
<1>12. PlanComplete'
    BY <1>2, <1>8 DEF CInv, PlanComplete
<1>13. OpenFiles'
  <2> SUFFICES ASSUME NEW t \in Wanted(disk), t[1] \notin marked',
                      todo'[t[1]] # {} \/ \E u \in deferred' : u[1] = t[1]
               PROVE  InPlace(t) \/ Pending(t)'
    BY <1>2, <1>8 DEF OpenFiles
  <2>1. CASE t[1] = f
    <3>1. InPlace(t) \/ Pending(t)
      BY <1>2, <2>1 DEF CInv, OpenFiles
    <3> QED
      BY <1>9, <2>1, <3>1
  <2>2. CASE t[1] # f
    <3>1. todo'[t[1]] = todo[t[1]] /\ \A u \in deferred' : u[1] = t[1] => u \in deferred
      BY <1>2, <1>7, <2>2
    <3>2. InPlace(t) \/ Pending(t)
      BY <1>2, <3>1 DEF CInv, OpenFiles
    <3>3. Pending(t) => Pending(t)'
      BY <1>8, <3>1 DEF Pending, OnItsWay, Carried
    <3> QED
      BY <3>2, <3>3
  <2> QED
    BY <2>1, <2>2
<1>14. GoodFiles'
  <2> SUFFICES ASSUME NEW t \in Wanted(disk), Good(t[1])
               PROVE  InPlace(t) \/ (todo'[t[1]] = {} /\ OnItsWay(t)')
    BY <1>2, <1>8 DEF GoodFiles, Good
  <2>1. InPlace(t) \/ (todo[t[1]] = {} /\ OnItsWay(t))
    BY DEF CInv, GoodFiles
  <2> QED
    BY <1>2, <1>7, <1>8, <2>1
<1>15. FinalHeads'
  <2> SUFFICES ASSUME NEW k \in DOMAIN jobs', NEW g \in Sources,
                      g \in DOMAIN jobs'[k].heads, jobs'[k].heads[g] = disk[g]
               PROVE  /\ todo'[g] = {}
                      /\ \A t \in Wanted(disk) : t[1] = g => InPlace(t) \/ OnItsWay(t)'
    BY <1>2, <1>8 DEF FinalHeads
  <2>1. CASE \E m \in DOMAIN jobs : jobs'[k] = jobs[m]
    <3>1. todo[g] = {} /\ \A t \in Wanted(disk) : t[1] = g => InPlace(t) \/ OnItsWay(t)
      BY <2>1 DEF CInv, FinalHeads
    <3> QED
      BY <1>2, <1>8, <3>1
  <2>2. CASE FromChunk(jobs'[k], f) /\ ~(\E m \in DOMAIN jobs : jobs'[k] = jobs[m])
    <3>1. g = f /\ disk[f] # Incomplete /\ jobs' # jobs
      <4>1. g = f
        BY <2>2 DEF FromChunk
      <4>2. disk[f] \in Contents \cup {Absent}
        BY <1>1 DEF IInv, TypeOK, Files
      <4> QED
        BY <2>2, <4>1, <4>2, DefsAssumption DEF Absent, Incomplete
    <3>2. todo'[f] = {} /\ f \notin marked'
      BY <2>2, <3>1 DEF FromChunk
    <3>3. ASSUME NEW t \in Wanted(disk), t[1] = f PROVE InPlace(t) \/ OnItsWay(t)'
      <4>1. InPlace(t) \/ Pending(t)
        BY <1>2, <3>2, <3>3 DEF CInv, OpenFiles
      <4>2. Pending(t) => Pending(t)'
        BY <1>9, <3>1, <3>2, <3>3
      <4>3. Pending(t)' => OnItsWay(t)'
        BY <3>2, <3>3 DEF Pending, OnItsWay, Carried
      <4> QED
        BY <4>1, <4>2, <4>3
    <3> QED
      BY <3>1, <3>2, <3>3
  <2> QED
    BY <1>4, <2>1, <2>2
<1>16. GoodFilesRest'
  <2> SUFFICES ASSUME NEW g \in Sources, Good(g), todo'[g] # {}, NEW k \in DOMAIN jobs',
                      NEW t \in Slots, Carries(jobs'[k], t), t[1] = g
               PROVE  g \in DOMAIN jobs'[k].heads
    BY <1>2 DEF GoodFilesRest, Good
  <2>1. CASE FromChunk(jobs'[k], f)
    BY <2>1, SlotNotNull DEF FromChunk, Carries
  <2>2. CASE \E m \in DOMAIN jobs : jobs'[k] = jobs[m]
    <3>1. todo[g] # {}
      BY <1>2
    <3> QED
      BY <2>2, <3>1 DEF CInv, GoodFilesRest
  <2> QED
    BY <1>4, <2>1, <2>2
<1>17. MatchComplete'
    BY <1>2, <1>8 DEF CInv, MatchComplete
<1>18. ManifestsFollow'
  <2> SUFFICES ASSUME NEW m \in Present(disk, Manifests)
               PROVE  \/ sfile[m] = [live |-> TRUE, hash |-> disk[m]]
                      \/ \E k \in DOMAIN jobs' : m \in DOMAIN jobs'[k].heads
    BY <1>2 DEF ManifestsFollow
  <2>1. sfile[m] = [live |-> TRUE, hash |-> disk[m]] \/ \E i \in DOMAIN jobs : m \in DOMAIN jobs[i].heads
    BY <1>2 DEF CInv, ManifestsFollow
  <2> QED
    BY <1>4, <2>1
<1> QED
    BY <1>1, <1>10, <1>11, <1>12, <1>13, <1>14, <1>15, <1>16, <1>17, <1>18 DEF CInv

LEMMA DrainCompletes ==
    ASSUME CInv, CompleteWhere, Drain, HInv'
    PROVE  CInv'
<1>1. HInv /\ IInv
    BY DEF CInv, HInv
<1>2. /\ phase = "extract" /\ phase' = "drained" /\ plan' = plan
      /\ disk' = disk /\ repoHash' = repoHash
      /\ func' = func /\ contains' = contains /\ sfile' = sfile
      /\ DOMAIN jobs = {} /\ \A f \in Sources : todo[f] = {}
      /\ todo' = todo /\ deferred' = {}
  <2>1. jobs = <<>>
    BY <1>1, DrainHands
  <2> QED
    BY <1>1, <2>1, DrainHands
<1>3. PICK rec \in SUBSET deferred :
         /\ {"drainFailed", "drainDeferred"} \cap Faults = {} =>
               \A t \in deferred : PlanBody(plan, t) \in IO => t \in rec
         /\ rec # {} => \E k \in DOMAIN jobs' : TRUE
         /\ \A k \in DOMAIN jobs' :
               /\ jobs'[k].tasks = rec /\ jobs'[k].at = Null
               /\ DOMAIN jobs'[k].heads = Owners(rec)
               /\ \A f \in Owners(rec) :
                     jobs'[k].heads[f] = IF f \in marked THEN Incomplete ELSE plan.snap[f]
    BY <1>1, DrainHands
<1>4. {"drainFailed", "drainDeferred"} \cap Faults = {}
    BY DEF CompleteWhere
<1>5. plan.snap = disk
    BY <1>1, <1>2 DEF HInv, Remembered
<1>6. \A t \in Wanted(disk) : InPlace(t)' <=> InPlace(t)
    BY <1>2 DEF InPlace, Written, PlanBody, Body
<1>7. ASSUME NEW t \in Wanted(disk), t \in deferred PROVE OnItsWay(t)'
  <2>1. PlanBody(plan, t) \in IO
    BY <1>1, <1>5, WantedNow DEF PlanBody
  <2>2. t \in rec
    BY <1>3, <1>4, <1>7, <2>1
  <2>3. PICK k \in DOMAIN jobs' : jobs'[k].tasks = rec
    BY <1>3, <2>2
  <2> QED
    BY <2>2, <2>3 DEF OnItsWay, Carried, Carries
<1>8. EdgesFollow' /\ DeferredCounted' /\ PlanComplete'
    BY <1>2, <1>6 DEF CInv, EdgesFollow, DeferredCounted, PlanComplete
<1>9. OpenFiles' /\ GoodFilesRest'
  <2>1. \A t \in Wanted(disk) : t[1] \in Sources
    BY <1>1, WantedNow
  <2> QED
    BY <1>2, <2>1 DEF OpenFiles, GoodFilesRest
<1>10. GoodFiles'
  <2> SUFFICES ASSUME NEW t \in Wanted(disk), Good(t[1])
               PROVE  InPlace(t) \/ (todo[t[1]] = {} /\ OnItsWay(t)')
    BY <1>2, <1>6 DEF GoodFiles, Good
  <2>1. InPlace(t) \/ t \in deferred
    BY <1>2 DEF CInv, GoodFiles, OnItsWay, Carried
  <2>2. t[1] \in Sources
    BY <1>1, WantedNow
  <2> QED
    BY <1>2, <1>7, <2>1, <2>2
<1>11. FinalHeads'
  <2> SUFFICES ASSUME NEW k \in DOMAIN jobs', NEW f \in Sources,
                      f \in DOMAIN jobs'[k].heads, jobs'[k].heads[f] = disk[f],
                      NEW t \in Wanted(disk), t[1] = f
               PROVE  InPlace(t) \/ OnItsWay(t)'
    BY <1>2, <1>6 DEF FinalHeads
  <2>1. disk[f] # Incomplete
    <3>1. disk[f] \in Contents \cup {Absent}
      BY <1>1 DEF IInv, TypeOK, Files
    <3> QED
      BY <3>1, DefsAssumption DEF Absent, Incomplete
  <2>2. f \notin marked /\ \E u \in deferred : u[1] = f
    BY <1>3, <2>1 DEF Owners
  <2>3. InPlace(t) \/ Pending(t)
    BY <1>2, <2>2 DEF CInv, OpenFiles
  <2>4. Pending(t) => t \in deferred
    BY <1>2 DEF Pending
  <2> QED
    BY <1>7, <2>3, <2>4
<1>12. MatchComplete'
    BY <1>2, <1>6 DEF CInv, MatchComplete, Carried
<1>13. ManifestsFollow'
    BY <1>2 DEF CInv, ManifestsFollow
<1> QED
    BY <1>8, <1>9, <1>10, <1>11, <1>12, <1>13 DEF CInv

LEMMA CommitCompletes ==
    ASSUME CInv, CompleteWhere, Commit, HInv'
    PROVE  CInv'
<1>1. HInv /\ IInv
    BY DEF CInv, HInv
<1>2. /\ phase = "drained" /\ phase' = "idle"
      /\ disk' = disk /\ repoHash' \in {IF errors THEN repoHash ELSE HashOf(plan.snap)}
      /\ func' = func /\ contains' = contains /\ sfile' = sfile
      /\ jobs = <<>> /\ jobs' = <<>> /\ \A f \in Sources : todo[f] = {}
      /\ deferred' = {}
    BY DEF Commit, Forget, ReadyToCommit, AllWritten, Committed, world
<1>3. DOMAIN jobs = {} /\ DOMAIN jobs' = {} /\ deferred = {}
    BY <1>1, <1>2 DEF IInv, WorkOK
<1>4. plan.snap = disk
    BY <1>1, <1>2 DEF HInv, Remembered
<1>5. \A t \in Wanted(disk) : InPlace(t)' <=> InPlace(t)
    BY <1>2 DEF InPlace, Written, PlanBody, Body
<1>6. EdgesFollow' /\ DeferredCounted' /\ PlanComplete' /\ OpenFiles' /\ FinalHeads' /\ GoodFilesRest'
    BY <1>2, <1>3 DEF CInv, EdgesFollow, DeferredCounted, PlanComplete, OpenFiles, FinalHeads, GoodFilesRest
<1>7. GoodFiles'
    BY <1>2, <1>3, <1>5 DEF CInv, GoodFiles, Good, OnItsWay, Carried
<1>8. MatchComplete'
  <2> SUFFICES ASSUME NEW t \in Wanted(disk), repoHash' = HashOf(disk) PROVE InPlace(t)
    BY <1>2, <1>5 DEF MatchComplete
  <2>1. CASE errors
    BY <1>2, <1>3, <2>1 DEF CInv, MatchComplete, Carried
  <2>2. CASE ~errors
    <3>1. t \in Planned(plan) \/ InPlace(t)
      BY <1>2 DEF CInv, PlanComplete
    <3>2. PlanBody(plan, t) \in IO /\ t[1] \in Sources
      BY <1>1, <1>4, WantedNow DEF PlanBody
    <3>3. ~Pending(t)
      BY <1>2, <1>3, <3>2 DEF Pending
    <3>4. t \in Planned(plan) => Written(t, plan, func, contains, sfile)
      BY <1>1, <2>2, <3>2, <3>3 DEF IInv, NothingLost
    <3> QED
      BY <1>4, <3>1, <3>4, SameBody DEF InPlace
  <2> QED
    BY <2>1, <2>2
<1>9. ManifestsFollow'
    BY <1>2, <1>3 DEF CInv, ManifestsFollow
<1> QED
    BY <1>6, <1>7, <1>8, <1>9 DEF CInv

LEMMA NextCInv == CompleteWhere /\ CInv /\ HInv' /\ [Next]_vars => CInv'
<1> SUFFICES ASSUME CompleteWhere, CInv, HInv', [Next]_vars PROVE CInv'
    OBVIOUS
<1>1. CASE Edit
    BY <1>1, EditCompletes
<1>2. ASSUME NEW force \in Forced, StartRun(force) PROVE CInv'
    BY <1>2, StartCompletes
<1>3. CASE Contract
    BY <1>3, ContractCompletes
<1>4. ASSUME NEW f \in Sources, Extract(f) PROVE CInv'
    BY <1>4, ExtractCompletes
<1>5. CASE Drain
    BY <1>5, DrainCompletes
<1>6. CASE Write
  <2>1. PICK i \in Writing : WriteFails(i) \/ \E job : Statement(i, job)
    BY <1>6, WriteSteps DEF CInv, HInv
  <2>2. phase \in {"extract", "drained"}
    BY <1>6 DEF Write
  <2>3. ~WriteFails(i)
    BY DEF CompleteWhere, WriteFails, Strike, If
  <2>4. PICK job : Statement(i, job)
    BY <2>1, <2>3
  <2> QED
    BY <2>2, <2>4, StatementCompletes
<1>7. CASE Commit
    BY <1>7, CommitCompletes
<1>8. CASE Crash
    BY <1>8 DEF CompleteWhere, Crash, Strike
<1>9. CASE UNCHANGED vars
  <2>1. /\ disk' = disk /\ func' = func /\ contains' = contains /\ sfile' = sfile /\ repoHash' = repoHash
        /\ phase' = phase /\ plan' = plan /\ todo' = todo /\ marked' = marked /\ jobs' = jobs
        /\ deferred' = deferred /\ faults' = faults
    BY <1>9 DEF vars
  <2>2. \A t \in Wanted(disk) : /\ InPlace(t)' <=> InPlace(t)
                                /\ Carried(t)' <=> Carried(t)
                                /\ OnItsWay(t)' <=> OnItsWay(t)
                                /\ Pending(t)' <=> Pending(t)
    BY <2>1 DEF InPlace, Written, PlanBody, Body, Carried, OnItsWay, Pending
  <2>3. EdgesFollow' /\ DeferredCounted' /\ PlanComplete' /\ OpenFiles'
    BY <2>1, <2>2 DEF CInv, EdgesFollow, DeferredCounted, PlanComplete, OpenFiles
  <2>4. GoodFiles' /\ FinalHeads' /\ GoodFilesRest' /\ MatchComplete' /\ ManifestsFollow'
    BY <2>1, <2>2 DEF CInv, GoodFiles, Good, FinalHeads, GoodFilesRest, MatchComplete, ManifestsFollow
  <2> QED
    BY <2>3, <2>4 DEF CInv
<1> QED
    BY <1>1, <1>2, <1>3, <1>4, <1>5, <1>6, <1>7, <1>8, <1>9 DEF Next, Advance

\* Whatever the next sync passes over is completely in the graph, for every
\* repository, schedule and placement of the failures that CompleteWhere allows
\* (orchestrator.ts's fast path and caches).
THEOREM SettledIsComplete ==
    ASSUME CompleteWhere
    PROVE  Spec => []CompleteWhenSettled
<1>1. Init => HInv /\ CInv
    BY InitHInv, InitCInv
<1>2. HInv /\ CInv /\ [Next]_vars => (HInv /\ CInv)'
    BY NextHInv, NextCInv
<1>3. CInv => CompleteWhenSettled
  <2> SUFFICES ASSUME CInv, Settled PROVE InGraph(disk) /\ ManifestsInGraph(disk)
    BY DEF CompleteWhenSettled
  <2>1. DOMAIN jobs = {} /\ phase = "idle" /\ repoHash = HashOf(disk)
    BY IdleFacts DEF CInv, HInv, Settled
  <2>2. ASSUME NEW t \in Wanted(disk) PROVE Current(t[1], t[2], Body(disk, t[1], t[2]))
    <3>1. InPlace(t)
      BY <2>1 DEF CInv, MatchComplete, Carried
    <3>2. t = <<t[1], t[2]>>
      BY WantedNow DEF CInv, HInv
    <3> QED
      BY <3>1, <3>2 DEF InPlace, Written, PlanBody, Current
  <2>3. ManifestsInGraph(disk)
    BY <2>1 DEF CInv, ManifestsFollow, ManifestsInGraph
  <2> QED
    BY <2>2, <2>3 DEF InGraph
<1> QED
    BY <1>1, <1>2, <1>3, PTL DEF Spec

--------------------------------------------------------------------------------
\* Nothing but what the code defines is alive once a run has committed.

Belongs(f, fn) == fn \in DefinedIn(disk, f) /\ Body(disk, f, fn) \in Gated

\* A writer only has functions the LLM took for I/O.
CarriesIO == \A i \in DOMAIN jobs : \A t \in Slots : Carries(jobs[i], t) => Body(disk, t[1], t[2]) \in IO

\* A file that is gone is retired by the next plan.
GoneRetired ==
    \A f \in Files : sfile[f].live /\ disk[f] = Absent =>
        \/ phase = "tombstoneFiles" /\ f \in plan.delFiles
        \/ phase = "idle" /\ repoHash # HashOf(disk)

\* A link, and the hash of the function it leads to, stem from a content the file has had.
LinksStem ==
    \A t \in contains : \E c \in seen[t[1]] \ {Absent} : t[2] \in DOMAIN Defs[c]
HashesStem ==
    \A t \in contains : func[t[2]].live =>
        \E c \in seen[t[1]] \ {Absent} : t[2] \in DOMAIN Defs[c] /\ func[t[2]].hash = Defs[c][t[2]]
LiveIsIO == \A fn \in Funcs : func[fn].live => func[fn].hash \in IO

\* During a run, a live function is in the code, or about to be retired or written.
LiveBelongs ==
    phase # "idle" => \A fn \in Funcs : func[fn].live =>
        \/ phase \in {"tombstoneFiles", "detachFiles", "tombstoneFuncs"} /\ fn \in plan.delFuncs
        \/ \E i \in DOMAIN jobs : jobs[i].at # Null /\ jobs[i].at[2] = fn
        \/ \E f \in Sources : fn \in IndexedFuncs(f) /\ Belongs(f, fn)

\* Between two runs every live function has its file, and if it is not in the code
\* its file will be found changed, all its functions of earlier contents.
LiveReached == phase = "idle" => \A fn \in Funcs : func[fn].live => \E f \in Sources : fn \in IndexedFuncs(f)
Outdated(f) ==
    /\ sfile[f].hash # disk[f]
    /\ \A fn \in IndexedFuncs(f) : \E c \in seen[f] \ {disk[f], Absent} :
          fn \in DOMAIN Defs[c] /\ func[fn].hash = Defs[c][fn]
CleanOrOutdated ==
    phase = "idle" => \A f \in Sources : (\A fn \in IndexedFuncs(f) : Belongs(f, fn)) \/ Outdated(f)
MatchClean ==
    phase = "idle" /\ repoHash = HashOf(disk) => \A f \in Sources : \A fn \in IndexedFuncs(f) : Belongs(f, fn)

GInv ==
    /\ HInv
    /\ CarriesIO
    /\ GoneRetired
    /\ LinksStem
    /\ HashesStem
    /\ LiveIsIO
    /\ LiveBelongs
    /\ LiveReached
    /\ CleanOrOutdated
    /\ MatchClean

\* Two files that ever define the same function are one.
LEMMA OneFile ==
    ASSUME GhostFreeWhere, HInv, NEW f \in Sources, NEW g \in Sources, NEW fn,
           NEW c \in seen[f] \ {Absent}, NEW d \in seen[g] \ {Absent},
           fn \in DOMAIN Defs[c], fn \in DOMAIN Defs[d]
    PROVE  f = g
<1>1. c \in Variants[f] \ {Absent} /\ d \in Variants[g] \ {Absent}
    BY DEF HInv, Remembered, Files
<1>2. DOMAIN Defs[c] \cap DOMAIN Defs[d] # {}
    OBVIOUS
<1> QED
    BY <1>1, <1>2 DEF GhostFreeWhere

\* A function the code defines, by a content its file has had: the one of now.
LEMMA DefinedNow ==
    ASSUME HInv, NEW f \in Sources, NEW fn \in DefinedIn(disk, f)
    PROVE  disk[f] \in seen[f] \ {Absent} /\ fn \in DOMAIN Defs[disk[f]] /\ Body(disk, f, fn) = Defs[disk[f]][fn]
BY DEF HInv, Remembered, Files, DefinedIn, Body

LEMMA InitGInv == Init => GInv
<1> SUFFICES ASSUME Init PROVE GInv
    OBVIOUS
<1>1. HInv
    BY InitHInv
<1>2. /\ DOMAIN jobs = {} /\ phase = "idle" /\ contains = {}
      /\ \A f \in Files : ~sfile[f].live
      /\ \A fn \in Funcs : ~func[fn].live
    BY DEF Init, NoNode
<1>3. \A f \in Sources : IndexedFuncs(f) = {}
    BY <1>2 DEF IndexedFuncs
<1>4. CarriesIO /\ GoneRetired /\ LinksStem /\ HashesStem /\ LiveIsIO
    BY <1>2 DEF CarriesIO, GoneRetired, LinksStem, HashesStem, LiveIsIO
<1>5. LiveBelongs /\ LiveReached /\ CleanOrOutdated /\ MatchClean
    BY <1>2, <1>3 DEF LiveBelongs, LiveReached, CleanOrOutdated, MatchClean
<1> QED
    BY <1>1, <1>4, <1>5 DEF GInv

LEMMA EditCleans ==
    ASSUME GInv, GhostFreeWhere, Edit, HInv'
    PROVE  GInv'
<1>1. HInv /\ IInv /\ IInv'
    BY DEF GInv, HInv
<1>2. /\ phase = "idle" /\ phase' = "idle" /\ DOMAIN jobs' = {}
      /\ func' = func /\ contains' = contains /\ sfile' = sfile
      /\ \A f \in Files : disk'[f] = disk[f] \/ disk'[f] \notin seen[f]
      /\ \A f \in Files : seen'[f] = seen[f] \cup {disk'[f]}
    BY <1>1, EditFacts, IdleFacts DEF GhostFreeWhere
<1>3. repoHash' # HashOf(disk')
    BY <1>1, EditUnsettles DEF GhostFreeWhere
<1>4. contains \subseteq Slots /\ \A t \in Slots : t[1] \in Files /\ t[1] \in Sources
    BY <1>1 DEF IInv, TypeOK, Slots, Files
<1>5. CarriesIO' /\ GoneRetired' /\ LiveBelongs' /\ MatchClean'
    BY <1>2, <1>3 DEF CarriesIO, GoneRetired, LiveBelongs, MatchClean
<1>6. LinksStem' /\ HashesStem' /\ LiveIsIO'
    BY <1>2, <1>4 DEF GInv, LinksStem, HashesStem, LiveIsIO
<1>7. \A f \in Sources : IndexedFuncs(f)' = IndexedFuncs(f)
    BY <1>2 DEF IndexedFuncs, Indexed
<1>8. LiveReached'
    BY <1>2, <1>7 DEF GInv, LiveReached
<1>9. CleanOrOutdated'
  <2> SUFFICES ASSUME NEW f \in Sources
               PROVE  (\A fn \in IndexedFuncs(f) : Belongs(f, fn)') \/ Outdated(f)'
    BY <1>7 DEF CleanOrOutdated
  <2>1. f \in Files
    BY DEF Files
  <2>2. CASE disk'[f] = disk[f]
    <3>1. (\A fn \in IndexedFuncs(f) : Belongs(f, fn)) \/ Outdated(f)
      BY <1>2 DEF GInv, CleanOrOutdated
    <3>2. \A fn : Belongs(f, fn) <=> Belongs(f, fn)'
      BY <2>2 DEF Belongs, DefinedIn, Body
    <3>3. Outdated(f) => Outdated(f)'
      BY <1>2, <1>7, <2>1, <2>2 DEF Outdated
    <3> QED
      BY <3>1, <3>2, <3>3
  <2>3. CASE disk'[f] \notin seen[f]
    <3>1. CASE ~sfile[f].live
      BY <3>1 DEF IndexedFuncs, Indexed
    <3>2. CASE sfile[f].live
      <4>1. sfile[f].hash \in seen[f] \cup {Incomplete} /\ disk'[f] \in Contents \cup {Absent}
        BY <1>1, <2>1, <3>2 DEF HInv, Remembered, IInv, TypeOK
      <4>2. sfile[f].hash # disk'[f]
        BY <2>3, <4>1, DefsAssumption DEF Absent, Incomplete
      <4>3. ASSUME NEW fn \in IndexedFuncs(f)
            PROVE  \E c \in seen'[f] \ {disk'[f], Absent} : fn \in DOMAIN Defs[c] /\ func[fn].hash = Defs[c][fn]
        <5>1. <<f, fn>> \in contains /\ func[fn].live
          BY DEF IndexedFuncs
        <5>2. PICK c \in seen[f] \ {Absent} : fn \in DOMAIN Defs[c] /\ func[fn].hash = Defs[c][fn]
          BY <5>1 DEF GInv, HashesStem
        <5> QED
          BY <1>2, <2>1, <2>3, <5>2
      <4> QED
        BY <1>2, <1>7, <4>2, <4>3 DEF Outdated
    <3> QED
      BY <3>1, <3>2
  <2> QED
    BY <1>2, <2>1, <2>2, <2>3
<1> QED
    BY <1>5, <1>6, <1>8, <1>9 DEF GInv

LEMMA StartCleans ==
    ASSUME GInv, GhostFreeWhere, NEW force, StartRun(force), HInv'
    PROVE  GInv'
<1>1. HInv /\ IInv
    BY DEF GInv, HInv
<1>2. /\ phase = "idle" /\ phase' = FirstPhase(plan')
      /\ phase' \in {"tombstoneFiles", "tombstoneFuncs", "extract"}
      /\ disk' = disk /\ seen' = seen /\ repoHash' = repoHash
      /\ func' = func /\ contains' = contains /\ sfile' = sfile
      /\ \A k \in DOMAIN jobs' : jobs'[k].tasks = {} /\ jobs'[k].at = Null
    BY <1>1, StartHands
<1>3. plan' = MakePlan(disk, force, {})
  <2>1. PICK broken \in SUBSET Present(disk, Sources) :
          (broken # {} => "parseFail" \in Faults) /\ plan' = MakePlan(disk, force, broken)
    BY <1>1, StartHands
  <2>2. broken = {}
    BY <2>1 DEF GhostFreeWhere
  <2> QED
    BY <2>1, <2>2
<1>4. Present(disk, Sources) # {}
  <2>1. PICK s \in Sources : Absent \notin Variants[s]
    BY DEF GhostFreeWhere
  <2>2. disk[s] # Absent
    BY <1>1, <2>1 DEF HInv, Remembered, Files
  <2> QED
    BY <2>2 DEF Present
<1>5. CarriesIO'
    BY <1>2, SlotNotNull DEF CarriesIO, Carries
<1>6. LinksStem' /\ HashesStem' /\ LiveIsIO'
    BY <1>2 DEF GInv, LinksStem, HashesStem, LiveIsIO
<1>7. LiveReached' /\ CleanOrOutdated' /\ MatchClean'
    BY <1>2 DEF LiveReached, CleanOrOutdated, MatchClean
<1>8. GoneRetired'
  <2> SUFFICES ASSUME NEW f \in Files, sfile[f].live, disk[f] = Absent
               PROVE  phase' = "tombstoneFiles" /\ f \in plan'.delFiles
    BY <1>2 DEF GoneRetired
  <2>1. f \in DeletedFiles(disk)
    BY <1>4 DEF DeletedFiles, Indexed, Present
  <2>2. plan'.delFiles = DeletedFiles(disk)
    BY <1>3 DEF MakePlan
  <2> QED
    BY <1>2, <2>1, <2>2 DEF FirstPhase
<1>9. LiveBelongs'
  <2> SUFFICES ASSUME NEW fn \in Funcs, func[fn].live
               PROVE  \/ phase' \in {"tombstoneFiles", "detachFiles", "tombstoneFuncs"} /\ fn \in plan'.delFuncs
                      \/ \E f \in Sources : fn \in IndexedFuncs(f)' /\ Belongs(f, fn)'
    BY <1>2 DEF LiveBelongs
  <2>1. \A f \in Sources : IndexedFuncs(f)' = IndexedFuncs(f) /\ (Belongs(f, fn)' <=> Belongs(f, fn))
    BY <1>2 DEF IndexedFuncs, Indexed, Belongs, DefinedIn, Body
  <2>2. PICK f \in Sources : fn \in IndexedFuncs(f)
    BY <1>2 DEF GInv, LiveReached
  <2>3. CASE fn \in plan'.delFuncs
    BY <1>2, <2>3 DEF FirstPhase, AfterFiles
  <2>4. CASE fn \notin plan'.delFuncs
    <3>1. plan'.delFuncs = DeletedFuncs(disk, force, {})
      BY <1>3 DEF MakePlan
    <3>2. PICK g \in Present(disk, Sources) : fn \in Kept(disk, force, {}, g)
      BY <1>4, <2>2, <2>4, <3>1 DEF DeletedFuncs, Files
    <3>3. g \in Sources /\ g \in Files /\ disk[g] # Absent
      BY DEF Present, Files
    <3>4. CASE g \in CacheHits(disk, force, {})
      <4>1. fn \in IndexedFuncs(g)
        BY <3>2, <3>4 DEF Kept
      <4>2. ~Outdated(g)
        <5>1. CASE FileHit(disk, g, force)
          BY <5>1 DEF FileHit, Outdated
        <5>2. CASE DefinedIn(disk, g) # {} /\ Changed(disk, g, force) = {}
          <6>1. disk[g] \in Variants[g] \ {Absent} /\ seen[g] \subseteq Variants[g] /\ DOMAIN Defs[disk[g]] # {}
            BY <1>1, <3>3, <5>2 DEF HInv, Remembered, DefinedIn
          <6>2. OwnBody(g, disk[g])
            BY <3>3, <6>1 DEF GhostFreeWhere
          <6>3. PICK own \in DOMAIN Defs[disk[g]] : \A d \in Variants[g] \ {Absent, disk[g]} :
                   own \in DOMAIN Defs[d] => Defs[d][own] # Defs[disk[g]][own]
            BY <6>2 DEF OwnBody
          <6>4. own \in Unchanged(disk, g, force)
            BY <3>3, <5>2 DEF Changed, DefinedIn
          <6>5. own \in IndexedFuncs(g) /\ func[own].hash = Defs[disk[g]][own]
            BY <6>4 DEF Unchanged, Body
          <6> QED
            BY <6>1, <6>3, <6>5 DEF Outdated
        <5> QED
          BY <3>4, <5>1, <5>2 DEF CacheHits
      <4>3. Belongs(g, fn)
        BY <1>2, <3>3, <4>1, <4>2 DEF GInv, CleanOrOutdated
      <4> QED
        BY <2>1, <3>3, <4>1, <4>3
    <3>5. CASE g \notin CacheHits(disk, force, {})
      <4>1. fn \in TasksOf(disk, g, force) \cup Unchanged(disk, g, force)
        BY <3>2, <3>5 DEF Kept
      <4>2. fn \in DefinedIn(disk, g)
        BY <4>1 DEF TasksOf, Changed, Unchanged
      <4>3. g = f
        <5>1. PICK c \in seen[f] \ {Absent} : fn \in DOMAIN Defs[c]
          BY <2>2 DEF GInv, LinksStem, IndexedFuncs
        <5>2. disk[g] \in seen[g] \ {Absent} /\ fn \in DOMAIN Defs[disk[g]]
          BY <1>1, <3>3, <4>2, DefinedNow
        <5> QED
          BY <1>1, <3>3, <5>1, <5>2, OneFile
      <4>4. Body(disk, g, fn) \in Gated
        <5>1. CASE fn \in TasksOf(disk, g, force)
          BY <5>1 DEF TasksOf
        <5>2. CASE fn \in Unchanged(disk, g, force)
          BY <5>2, BodiesAssumption DEF Unchanged, GInv, LiveIsIO
        <5> QED
          BY <4>1, <5>1, <5>2
      <4> QED
        BY <2>1, <2>2, <4>2, <4>3, <4>4 DEF Belongs
    <3> QED
      BY <3>4, <3>5
  <2> QED
    BY <2>3, <2>4
<1> QED
    BY <1>5, <1>6, <1>7, <1>8, <1>9 DEF GInv

LEMMA ContractCleans ==
    ASSUME GInv, GhostFreeWhere, Contract, HInv'
    PROVE  GInv'
<1>1. HInv /\ IInv
    BY DEF GInv, HInv
<1>2. /\ phase' \in {"detachFiles", "tombstoneFuncs", "detachFuncs", "extract"}
      /\ phase # "idle" /\ plan' = plan /\ disk' = disk /\ seen' = seen /\ jobs' = jobs
      /\ \A i \in DOMAIN jobs : jobs[i].tasks = {} /\ jobs[i].at = Null
    BY <1>1, ContractTakes
<1>3. /\ \A f \in Files : /\ sfile'[f].hash = sfile[f].hash
                          /\ sfile'[f].live => sfile[f].live
                          /\ f \notin plan.delFiles => sfile'[f] = sfile[f]
      /\ phase = "tombstoneFiles" => \A f \in plan.delFiles : ~sfile'[f].live
      /\ contains' \subseteq contains
      /\ \A t \in contains : t[1] \notin plan.delFiles => t \in contains'
      /\ \A fn \in Funcs : func'[fn].hash = func[fn].hash /\ (func'[fn].live => func[fn].live)
      /\ phase = "tombstoneFuncs" => \A fn \in plan.delFuncs : ~func'[fn].live
    BY <1>1, ContractTakes
<1>4. \/ phase = "tombstoneFiles" /\ phase' = "detachFiles"
      \/ phase = "detachFiles" /\ phase' = IF plan.delFuncs # {} THEN "tombstoneFuncs" ELSE "extract"
      \/ phase = "tombstoneFuncs" /\ phase' = "detachFuncs"
      \/ phase = "detachFuncs" /\ phase' = "extract"
    BY <1>1, ContractTakes
<1>5. plan.snap = disk /\ PlanOK(plan)
    BY <1>1, <1>2 DEF HInv, Remembered, IInv
<1>6. \A t \in contains : t[1] \in Sources /\ t[2] \in Funcs
    BY <1>1 DEF IInv, TypeOK
<1>7. CarriesIO'
    BY <1>2 DEF GInv, CarriesIO
<1>8. GoneRetired'
    BY <1>2, <1>3 DEF GInv, GoneRetired
<1>9. LinksStem' /\ HashesStem' /\ LiveIsIO'
    BY <1>2, <1>3, <1>6 DEF GInv, LinksStem, HashesStem, LiveIsIO
<1>10. LiveReached' /\ CleanOrOutdated' /\ MatchClean'
    BY <1>2 DEF LiveReached, CleanOrOutdated, MatchClean
<1>11. LiveBelongs'
  <2> SUFFICES ASSUME NEW fn \in Funcs, func'[fn].live
               PROVE  \/ phase' \in {"tombstoneFiles", "detachFiles", "tombstoneFuncs"} /\ fn \in plan.delFuncs
                      \/ \E f \in Sources : fn \in IndexedFuncs(f)' /\ Belongs(f, fn)'
    BY <1>2 DEF LiveBelongs
  <2>1. \/ phase \in {"tombstoneFiles", "detachFiles", "tombstoneFuncs"} /\ fn \in plan.delFuncs
        \/ \E f \in Sources : fn \in IndexedFuncs(f) /\ Belongs(f, fn)
    BY <1>2, <1>3 DEF GInv, LiveBelongs
  <2>2. CASE phase \in {"tombstoneFiles", "detachFiles", "tombstoneFuncs"} /\ fn \in plan.delFuncs
    <3>1. phase # "tombstoneFuncs"
      BY <1>3, <2>2
    <3> QED
      BY <1>4, <2>2, <3>1
  <2>3. ASSUME NEW f \in Sources, fn \in IndexedFuncs(f), Belongs(f, fn)
        PROVE  fn \in IndexedFuncs(f)' /\ Belongs(f, fn)'
    <3>1. f \notin plan.delFiles /\ f \in Files
      BY <1>5, <2>3 DEF PlanOK, Present, Belongs, DefinedIn, Files
    <3>2. sfile[f].live /\ <<f, fn>> \in contains
      BY <2>3 DEF IndexedFuncs, Indexed
    <3>3. sfile'[f].live /\ <<f, fn>> \in contains'
      BY <1>3, <3>1, <3>2
    <3> QED
      BY <1>2, <2>3, <3>1, <3>3 DEF IndexedFuncs, Indexed, Belongs, DefinedIn, Body
  <2> QED
    BY <2>1, <2>2, <2>3
<1> QED
    BY <1>7, <1>8, <1>9, <1>10, <1>11 DEF GInv

\* A step within a run that writes nothing: the jobs may change, but what is under
\* way goes on.
LEMMA QueueCleans ==
    ASSUME GInv, HInv', phase \in {"extract", "drained"}, phase' \in {"extract", "drained"},
           disk' = disk, seen' = seen, func' = func, contains' = contains, sfile' = sfile,
           \A m \in DOMAIN jobs : jobs[m].at # Null => \E k \in DOMAIN jobs' : jobs'[k] = jobs[m],
           \A k \in DOMAIN jobs' : \A t \in Slots :
               Carries(jobs'[k], t) => Body(disk, t[1], t[2]) \in IO
    PROVE  GInv'
<1>1. CarriesIO' /\ GoneRetired' /\ LinksStem' /\ HashesStem' /\ LiveIsIO'
    BY DEF GInv, CarriesIO, GoneRetired, LinksStem, HashesStem, LiveIsIO, Body
<1>2. LiveReached' /\ CleanOrOutdated' /\ MatchClean'
    BY DEF LiveReached, CleanOrOutdated, MatchClean
<1>3. LiveBelongs'
  <2> SUFFICES ASSUME NEW fn \in Funcs, func[fn].live
               PROVE  \/ \E k \in DOMAIN jobs' : jobs'[k].at # Null /\ jobs'[k].at[2] = fn
                      \/ \E f \in Sources : fn \in IndexedFuncs(f)' /\ Belongs(f, fn)'
    BY DEF LiveBelongs
  <2>1. \/ \E m \in DOMAIN jobs : jobs[m].at # Null /\ jobs[m].at[2] = fn
        \/ \E f \in Sources : fn \in IndexedFuncs(f) /\ Belongs(f, fn)
    BY DEF GInv, LiveBelongs
  <2>2. ASSUME NEW m \in DOMAIN jobs, jobs[m].at # Null, jobs[m].at[2] = fn
        PROVE  \E k \in DOMAIN jobs' : jobs'[k].at # Null /\ jobs'[k].at[2] = fn
    <3>1. PICK k \in DOMAIN jobs' : jobs'[k] = jobs[m]
      BY <2>2
    <3> QED
      BY <2>2, <3>1
  <2>3. \A f \in Sources : IndexedFuncs(f)' = IndexedFuncs(f) /\ (Belongs(f, fn)' <=> Belongs(f, fn))
    BY DEF IndexedFuncs, Indexed, Belongs, DefinedIn, Body
  <2> QED
    BY <2>1, <2>2, <2>3
<1> QED
    BY <1>1, <1>2, <1>3 DEF GInv

LEMMA ExtractCleans ==
    ASSUME GInv, NEW f \in Sources, Extract(f), HInv'
    PROVE  GInv'
<1>1. HInv /\ IInv
    BY DEF GInv, HInv
<1>2. /\ phase = "extract" /\ phase' = "extract"
      /\ disk' = disk /\ seen' = seen /\ func' = func /\ contains' = contains /\ sfile' = sfile
      /\ \A k \in DOMAIN jobs' : FromChunk(jobs'[k], f) \/ \E m \in DOMAIN jobs : jobs'[k] = jobs[m]
      /\ \A m \in DOMAIN jobs : \E k \in DOMAIN jobs' : jobs'[k] = jobs[m]
    BY <1>1, ExtractHands
<1>3. plan.snap = disk
    BY <1>1, <1>2 DEF HInv, Remembered
<1>4. ASSUME NEW k \in DOMAIN jobs', NEW t \in Slots, Carries(jobs'[k], t)
      PROVE  Body(disk, t[1], t[2]) \in IO
  <2>1. CASE FromChunk(jobs'[k], f)
    BY <1>3, <1>4, <2>1, SlotNotNull DEF FromChunk, Carries, PlanBody
  <2>2. CASE \E m \in DOMAIN jobs : jobs'[k] = jobs[m]
    BY <1>4, <2>2 DEF GInv, CarriesIO
  <2> QED
    BY <1>2, <2>1, <2>2
<1> QED
    BY <1>2, <1>4, QueueCleans

LEMMA DrainCleans ==
    ASSUME GInv, Drain, HInv'
    PROVE  GInv'
<1>1. HInv /\ IInv
    BY DEF GInv, HInv
<1>2. /\ phase = "extract" /\ phase' = "drained" /\ jobs = <<>>
      /\ disk' = disk /\ seen' = seen /\ func' = func /\ contains' = contains /\ sfile' = sfile
    BY <1>1, DrainHands
<1>3. PICK rec \in SUBSET deferred :
         /\ \A t \in rec : PlanBody(plan, t) \in IO
         /\ \A k \in DOMAIN jobs' : jobs'[k].tasks = rec /\ jobs'[k].at = Null
    BY <1>1, DrainHands
<1>4. plan.snap = disk
    BY <1>1, <1>2 DEF HInv, Remembered
<1>5. \A k \in DOMAIN jobs' : \A t \in Slots : Carries(jobs'[k], t) => Body(disk, t[1], t[2]) \in IO
    BY <1>3, <1>4, SlotNotNull DEF Carries, PlanBody
<1>6. DOMAIN jobs = {}
    BY <1>2
<1> QED
    BY <1>2, <1>5, <1>6, QueueCleans

LEMMA FailureCleans ==
    ASSUME GInv, GhostFreeWhere, phase \in {"extract", "drained"}, NEW i \in Writing, WriteFails(i), HInv'
    PROVE  GInv'
<1>1. HInv /\ IInv
    BY DEF GInv, HInv
<1>2. /\ phase' = phase /\ jobs' = Without(i)
      /\ disk' = disk /\ seen' = seen /\ func' = func /\ contains' = contains /\ sfile' = sfile
    BY DEF WriteFails, world, graph
<1>3. /\ \A k \in DOMAIN jobs' : \E m \in DOMAIN jobs : jobs'[k] = jobs[m]
      /\ \A m \in DOMAIN jobs : m # i => \E k \in DOMAIN jobs' : jobs'[k] = jobs[m]
    BY <1>1, <1>2, JobAtWork, Dropped DEF IInv, WorkOK
<1>4. jobs[i].kind = "eager"
    BY DEF WriteFails, Strike, If, Blamed, GhostFreeWhere
<1>5. jobs[i].at = Null
    BY <1>1, <1>4, JobAtWork DEF JobOK
<1>6. \A k \in DOMAIN jobs' : \A t \in Slots : Carries(jobs'[k], t) => Body(disk, t[1], t[2]) \in IO
    BY <1>3 DEF GInv, CarriesIO
<1> QED
    BY <1>2, <1>3, <1>5, <1>6, QueueCleans

LEMMA StatementCleans ==
    ASSUME GInv, GhostFreeWhere, phase \in {"extract", "drained"},
           NEW i \in Writing, NEW job, Statement(i, job), HInv'
    PROVE  GInv'
<1>1. /\ HInv /\ IInv /\ plan.snap = disk
      /\ disk' = disk /\ seen' = seen /\ phase' = phase /\ plan' = plan
    BY DEF GInv, HInv, Remembered, Statement, WriteOnly, world
<1>2. /\ i \in DOMAIN jobs
      /\ \A k \in DOMAIN jobs' : jobs'[k] = job \/ \E m \in DOMAIN jobs : jobs'[k] = jobs[m]
      /\ \A m \in DOMAIN jobs : m # i => \E k \in DOMAIN jobs' : jobs'[k] = jobs[m]
      /\ job.at # Null => \E k \in DOMAIN jobs' : jobs'[k] = job
    BY <1>1, StatementJobs
<1>3. /\ Narrows(job, jobs[i]) /\ FilesFollow(job, jobs[i]) /\ LinksFollow(jobs[i]) /\ FuncsFollow(job, jobs[i])
      /\ RightHeads(jobs[i], disk)
    BY <1>2 DEF Statement, GInv, HInv
\* What the job at work is about.
<1>4. ASSUME NEW u \in Slots, Carries(jobs[i], u)
      PROVE  /\ u[1] \in Sources /\ u[2] \in Funcs /\ u = <<u[1], u[2]>>
             /\ u[2] \in DefinedIn(disk, u[1])
             /\ disk[u[1]] \in seen[u[1]] \ {Absent} /\ u[2] \in DOMAIN Defs[disk[u[1]]]
             /\ PlanBody(plan, u) = Defs[disk[u[1]]][u[2]]
             /\ PlanBody(plan, u) \in IO
  <2>1. u \in Planned(plan) /\ PlanOK(plan)
    BY <1>1, <1>4, JobAtWork, SlotNotNull DEF JobOK, Carries
  <2>2. u[1] \in Sources /\ u[2] \in Funcs /\ u = <<u[1], u[2]>> /\ u[2] \in DefinedIn(disk, u[1])
    BY <1>1, <2>1, PlannedTask
  <2>3. PlanBody(plan, u) \in IO
    BY <1>1, <1>2, <1>4 DEF GInv, CarriesIO, PlanBody
  <2> QED
    BY <1>1, <2>2, <2>3, DefinedNow DEF PlanBody
<1>5. CarriesIO'
    BY <1>1, <1>2, <1>3 DEF GInv, CarriesIO, Narrows, Body
<1>6. GoneRetired'
  <2> SUFFICES ASSUME NEW f \in Files, sfile'[f].live, disk[f] = Absent PROVE FALSE
    BY <1>1 DEF GoneRetired
  <2>1. f \notin DOMAIN jobs[i].heads
    BY <1>3 DEF RightHeads
  <2>2. sfile'[f] = sfile[f]
    BY <1>3, <2>1 DEF FilesFollow
  <2> QED
    BY <2>2 DEF GInv, GoneRetired
<1>7. LinksStem'
  <2> SUFFICES ASSUME NEW t \in contains'
               PROVE  \E c \in seen[t[1]] \ {Absent} : t[2] \in DOMAIN Defs[c]
    BY <1>1 DEF LinksStem
  <2>1. CASE t \in contains
    BY <2>1 DEF GInv, LinksStem
  <2>2. CASE t \notin contains
    <3>1. t \in Slots /\ Carries(jobs[i], t)
      BY <1>3, <2>2 DEF LinksFollow, Statement
    <3> QED
      BY <1>4, <3>1
  <2> QED
    BY <2>1, <2>2
<1>8. ASSUME NEW fn \in Funcs
      PROVE  \/ func'[fn].live = func[fn].live /\ func'[fn].hash = func[fn].hash
             \/ \E u \in Slots : u[2] = fn /\ Carries(jobs[i], u) /\ func'[fn].hash = PlanBody(plan, u)
    BY <1>3 DEF FuncsFollow
<1>9. LiveIsIO'
    BY <1>4, <1>8 DEF GInv, LiveIsIO
<1>10. HashesStem'
  <2> SUFFICES ASSUME NEW t \in contains', func'[t[2]].live
               PROVE  \E c \in seen[t[1]] \ {Absent} : t[2] \in DOMAIN Defs[c] /\ func'[t[2]].hash = Defs[c][t[2]]
    BY <1>1 DEF HashesStem
  <2>1. CASE t \notin contains
    <3>1. t \in Slots /\ Carries(jobs[i], t) /\ func'[t[2]].hash = PlanBody(plan, t)
      BY <1>3, <2>1 DEF LinksFollow, Statement
    <3> QED
      BY <1>4, <3>1
  <2>2. CASE t \in contains
    <3>1. t[1] \in Sources /\ t[2] \in Funcs
      BY <1>1, <2>2 DEF IInv, TypeOK
    <3>2. CASE func'[t[2]].live = func[t[2]].live /\ func'[t[2]].hash = func[t[2]].hash
      BY <2>2, <3>2 DEF GInv, HashesStem
    <3>3. ASSUME NEW u \in Slots, u[2] = t[2], Carries(jobs[i], u), func'[t[2]].hash = PlanBody(plan, u)
          PROVE  \E c \in seen[t[1]] \ {Absent} : t[2] \in DOMAIN Defs[c] /\ func'[t[2]].hash = Defs[c][t[2]]
      <4>1. PICK c \in seen[t[1]] \ {Absent} : t[2] \in DOMAIN Defs[c]
        BY <2>2 DEF GInv, LinksStem
      <4>2. u[1] = t[1]
        BY <1>1, <1>4, <3>1, <3>3, <4>1, OneFile
      <4> QED
        BY <1>4, <3>3, <4>2
    <3> QED
      BY <1>8, <3>1, <3>2, <3>3
  <2> QED
    BY <2>1, <2>2
<1>11. LiveReached' /\ CleanOrOutdated' /\ MatchClean'
    BY <1>1 DEF LiveReached, CleanOrOutdated, MatchClean
<1>12. ASSUME NEW u \in Slots, Carries(jobs[i], u), Written(u, plan, func', contains', sfile')
       PROVE  u[2] \in IndexedFuncs(u[1])' /\ Belongs(u[1], u[2])'
  <2>1. u[1] \in Files
    BY <1>4, <1>12 DEF Files
  <2>2. u[2] \in IndexedFuncs(u[1])'
    <3>1. sfile'[u[1]].live /\ u \in contains' /\ func'[u[2]].live
      BY <1>12 DEF Written
    <3> QED
      BY <1>4, <1>12, <2>1, <3>1 DEF IndexedFuncs, Indexed
  <2>3. Body(disk, u[1], u[2]) \in Gated
    BY <1>1, <1>4, <1>12, BodiesAssumption DEF PlanBody
  <2> QED
    BY <1>1, <1>4, <1>12, <2>2, <2>3 DEF Belongs, DefinedIn, Body
<1>13. LiveBelongs'
  <2> SUFFICES ASSUME NEW fn \in Funcs, func'[fn].live
               PROVE  \/ \E k \in DOMAIN jobs' : jobs'[k].at # Null /\ jobs'[k].at[2] = fn
                      \/ \E f \in Sources : fn \in IndexedFuncs(f)' /\ Belongs(f, fn)'
    BY <1>1 DEF LiveBelongs
  <2>1. ASSUME NEW u \in Slots, u[2] = fn, job.at = u
        PROVE  \E k \in DOMAIN jobs' : jobs'[k].at # Null /\ jobs'[k].at[2] = fn
    BY <1>2, <2>1, SlotNotNull
  <2>2. ASSUME NEW u \in Slots, u[2] = fn, jobs[i].at = u
        PROVE  \/ \E k \in DOMAIN jobs' : jobs'[k].at # Null /\ jobs'[k].at[2] = fn
               \/ \E f \in Sources : fn \in IndexedFuncs(f)' /\ Belongs(f, fn)'
    <3>1. Carries(jobs[i], u) /\ u # Null
      BY <2>2, SlotNotNull DEF Carries
    <3>2. job.at = u \/ Written(u, plan, func', contains', sfile')
      BY <1>3, <2>2, <3>1 DEF FuncsFollow
    <3> QED
      BY <1>4, <1>12, <2>1, <2>2, <3>1, <3>2
  <2>3. CASE func'[fn] # func[fn]
    <3>1. PICK u \in Slots : u[2] = fn /\ (job.at = u \/ jobs[i].at = u)
      BY <1>3, <2>3 DEF FuncsFollow
    <3> QED
      BY <2>1, <2>2, <3>1
  <2>4. CASE func'[fn] = func[fn]
    <3>1. \/ \E m \in DOMAIN jobs : jobs[m].at # Null /\ jobs[m].at[2] = fn
          \/ \E f \in Sources : fn \in IndexedFuncs(f) /\ Belongs(f, fn)
      BY <1>1, <2>4 DEF GInv, LiveBelongs
    <3>2. ASSUME NEW m \in DOMAIN jobs, jobs[m].at # Null, jobs[m].at[2] = fn
          PROVE  \/ \E k \in DOMAIN jobs' : jobs'[k].at # Null /\ jobs'[k].at[2] = fn
                 \/ \E f \in Sources : fn \in IndexedFuncs(f)' /\ Belongs(f, fn)'
      <4>1. CASE m = i
        <5>1. jobs[i].at \in Slots
          BY <1>1, <3>2, <4>1, JobAtWork DEF JobSet
        <5> QED
          BY <2>2, <3>2, <4>1, <5>1
      <4>2. CASE m # i
        BY <1>2, <3>2, <4>2
      <4> QED
        BY <4>1, <4>2
    <3>3. ASSUME NEW f \in Sources, fn \in IndexedFuncs(f), Belongs(f, fn)
          PROVE  fn \in IndexedFuncs(f)' /\ Belongs(f, fn)'
      <4>1. f \in Files /\ sfile[f].live /\ <<f, fn>> \in contains
        BY <3>3 DEF IndexedFuncs, Indexed
      <4>2. sfile'[f] = [live |-> TRUE, hash |-> jobs[i].heads[f]] \/ sfile'[f] = sfile[f]
        BY <1>3, <4>1 DEF FilesFollow
      <4>3. sfile'[f].live /\ <<f, fn>> \in contains'
        BY <1>3, <4>1, <4>2 DEF LinksFollow
      <4> QED
        BY <1>1, <3>3, <4>1, <4>3 DEF IndexedFuncs, Indexed, Belongs, DefinedIn, Body
    <3> QED
      BY <3>1, <3>2, <3>3
  <2> QED
    BY <2>3, <2>4
<1> QED
    BY <1>5, <1>6, <1>7, <1>9, <1>10, <1>11, <1>13 DEF GInv

LEMMA CommitCleans ==
    ASSUME GInv, GhostFreeWhere, Commit, HInv'
    PROVE  GInv'
<1>1. HInv /\ IInv
    BY DEF GInv, HInv
<1>2. /\ phase = "drained" /\ phase' = "idle" /\ jobs = <<>> /\ jobs' = <<>>
      /\ disk' = disk /\ seen' = seen /\ func' = func /\ contains' = contains /\ sfile' = sfile
    BY DEF Commit, Forget, ReadyToCommit, AllWritten, world
<1>3. DOMAIN jobs = {} /\ DOMAIN jobs' = {}
    BY <1>2
<1>4. CarriesIO' /\ GoneRetired' /\ LinksStem' /\ HashesStem' /\ LiveIsIO' /\ LiveBelongs'
    BY <1>2, <1>3 DEF GInv, CarriesIO, GoneRetired, LinksStem, HashesStem, LiveIsIO, LiveBelongs
<1>5. \A f \in Sources : /\ IndexedFuncs(f)' = IndexedFuncs(f)
                         /\ \A fn : Belongs(f, fn)' <=> Belongs(f, fn)
    BY <1>2 DEF IndexedFuncs, Indexed, Belongs, DefinedIn, Body
<1>6. \A fn \in Funcs : func[fn].live => \E f \in Sources : fn \in IndexedFuncs(f) /\ Belongs(f, fn)
    BY <1>2, <1>3 DEF GInv, LiveBelongs
<1>7. ASSUME NEW f \in Sources, NEW fn \in IndexedFuncs(f) PROVE Belongs(f, fn)
  <2>1. fn \in Funcs /\ func[fn].live /\ <<f, fn>> \in contains
    BY DEF IndexedFuncs
  <2>2. PICK g \in Sources : Belongs(g, fn)
    BY <1>6, <2>1
  <2>3. PICK c \in seen[f] \ {Absent} : fn \in DOMAIN Defs[c]
    BY <2>1 DEF GInv, LinksStem
  <2>4. disk[g] \in seen[g] \ {Absent} /\ fn \in DOMAIN Defs[disk[g]]
    BY <1>1, <2>2, DefinedNow DEF Belongs
  <2>5. f = g
    BY <1>1, <2>3, <2>4, OneFile
  <2> QED
    BY <2>2, <2>5
<1>8. LiveReached' /\ CleanOrOutdated' /\ MatchClean'
    BY <1>2, <1>5, <1>6, <1>7 DEF LiveReached, CleanOrOutdated, MatchClean
<1> QED
    BY <1>4, <1>8 DEF GInv

LEMMA NextGInv == GhostFreeWhere /\ GInv /\ HInv' /\ [Next]_vars => GInv'
<1> SUFFICES ASSUME GhostFreeWhere, GInv, HInv', [Next]_vars PROVE GInv'
    OBVIOUS
<1>1. CASE Edit
    BY <1>1, EditCleans
<1>2. ASSUME NEW force \in Forced, StartRun(force) PROVE GInv'
    BY <1>2, StartCleans
<1>3. CASE Contract
    BY <1>3, ContractCleans
<1>4. ASSUME NEW f \in Sources, Extract(f) PROVE GInv'
    BY <1>4, ExtractCleans
<1>5. CASE Drain
    BY <1>5, DrainCleans
<1>6. CASE Write
  <2>1. PICK i \in Writing : WriteFails(i) \/ \E job : Statement(i, job)
    BY <1>6, WriteSteps DEF GInv, HInv
  <2>2. phase \in {"extract", "drained"}
    BY <1>6 DEF Write
  <2> QED
    BY <2>1, <2>2, FailureCleans, StatementCleans
<1>7. CASE Commit
    BY <1>7, CommitCleans
<1>8. CASE Crash
    BY <1>8 DEF GhostFreeWhere, Crash, Strike
<1>9. CASE UNCHANGED vars
  <2>1. /\ disk' = disk /\ seen' = seen /\ func' = func /\ contains' = contains /\ sfile' = sfile
        /\ repoHash' = repoHash /\ phase' = phase /\ plan' = plan /\ jobs' = jobs
    BY <1>9 DEF vars
  <2>2. \A f \in Sources : /\ IndexedFuncs(f)' = IndexedFuncs(f)
                           /\ \A fn : Belongs(f, fn)' <=> Belongs(f, fn)
                           /\ Outdated(f)' <=> Outdated(f)
    BY <2>1 DEF IndexedFuncs, Indexed, Belongs, DefinedIn, Body, Outdated
  <2>3. CarriesIO' /\ GoneRetired' /\ LinksStem' /\ HashesStem' /\ LiveIsIO'
    BY <2>1 DEF GInv, CarriesIO, GoneRetired, LinksStem, HashesStem, LiveIsIO, Body
  <2>4. LiveBelongs' /\ LiveReached' /\ CleanOrOutdated' /\ MatchClean'
    BY <2>1, <2>2 DEF GInv, LiveBelongs, LiveReached, CleanOrOutdated, MatchClean
  <2> QED
    BY <2>3, <2>4 DEF GInv
<1> QED
    BY <1>1, <1>2, <1>3, <1>4, <1>5, <1>6, <1>7, <1>8, <1>9 DEF Next, Advance

\* Under a repository hash that matches nothing outlives the code: no function and
\* no file, for every repository, schedule and placement of the failures that
\* GhostFreeWhere allows (diffMerkleIndexes() and the contract phase).
THEOREM SettledHasNoGhosts ==
    ASSUME GhostFreeWhere
    PROVE  Spec => []NoGhostsWhenSettled
<1>1. Init => HInv /\ GInv
    BY InitHInv, InitGInv
<1>2. HInv /\ GInv /\ [Next]_vars => (HInv /\ GInv)'
    BY NextHInv, NextGInv
<1>3. GInv => NoGhostsWhenSettled
  <2> SUFFICES ASSUME GInv, Settled
               PROVE  /\ \A fn \in Funcs : func[fn].live => \E f \in Sources : <<f, fn>> \in Wanted(disk)
                      /\ \A f \in Files : sfile[f].live => disk[f] # Absent
    BY DEF NoGhostsWhenSettled
  <2>1. phase = "idle" /\ repoHash = HashOf(disk) /\ HInv
    BY DEF GInv, Settled
  <2>2. \A f \in Files : sfile[f].live => disk[f] # Absent
    BY <2>1 DEF GInv, GoneRetired
  <2>3. ASSUME NEW fn \in Funcs, func[fn].live PROVE \E f \in Sources : <<f, fn>> \in Wanted(disk)
    <3>1. PICK f \in Sources : fn \in IndexedFuncs(f)
      BY <2>1, <2>3 DEF GInv, LiveReached
    <3>2. fn \in DefinedIn(disk, f) /\ Body(disk, f, fn) \in Gated
      BY <2>1, <3>1 DEF GInv, MatchClean, Belongs
    <3>3. PICK c \in seen[f] \ {Absent} : fn \in DOMAIN Defs[c] /\ func[fn].hash = Defs[c][fn]
      BY <2>3, <3>1 DEF GInv, HashesStem, IndexedFuncs
    <3>4. disk[f] \in seen[f] \ {Absent} /\ fn \in DOMAIN Defs[disk[f]] /\ Body(disk, f, fn) = Defs[disk[f]][fn]
      BY <2>1, <3>2, DefinedNow
    <3>5. c \in Variants[f] \ {Absent} /\ disk[f] \in Variants[f] \ {Absent}
      BY <2>1, <3>4 DEF HInv, Remembered, Files
    <3>6. Defs[c][fn] \in IO
      BY <2>3, <3>3 DEF GInv, LiveIsIO
    <3>7. Body(disk, f, fn) \in IO
      BY <3>2, <3>3, <3>4, <3>5, <3>6 DEF GhostFreeWhere
    <3> QED
      BY <3>2, <3>7 DEF Wanted
  <2> QED
    BY <2>2, <2>3
<1> QED
    BY <1>1, <1>2, <1>3, PTL DEF Spec
================================================================================
