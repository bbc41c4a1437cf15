--------------------------- MODULE CollatzProofs ---------------------------
(***************************************************************************)
(* Proofs about the Collatz drivers, for any number of threads, any range  *)
(* of tasks and any CHUNK: first the one over vectors, then that the one   *)
(* over lists implements it.                                               *)
(***************************************************************************)
EXTENDS CollatzLists, SequenceTheorems, WellFoundedInduction, TLAPS

-----------------------------------------------------------------------------
(***************************************************************************)
(* Recursion and induction.  Both rest on the least element of a set of    *)
(* naturals.                                                               *)
(***************************************************************************)
LEMMA Least ==
  ASSUME NEW S \in SUBSET Nat, S # {}
  PROVE  \E n \in S : \A m \in S : ~(m < n)
<1> PICK n \in S : \A m \in S : <<m, n>> \notin OpToRel(<, Nat)
  BY NatLessThanWellFounded, WFMin
<1>1. \A m \in S : ~(m < n)
  BY DEF OpToRel
<1> QED BY <1>1

\* The local function of iterate, on 0 .. n.
Grown(g, v, n) == g = [jj \in 0 .. n |-> IF jj = 0 THEN v ELSE grow(g[jj - 1])]

LEMMA GrownExists ==
  ASSUME NEW v, NEW n \in Nat
  PROVE  \E g : Grown(g, v, n)
<1> DEFINE Bad == {k \in Nat : ~ \E g : Grown(g, v, k)}
<1> SUFFICES ASSUME Bad # {} PROVE FALSE
  OBVIOUS
<1> PICK k \in Bad : \A m \in Bad : ~(m < k)
  BY Least
<1>1. CASE k = 0
  <2>1. Grown([jj \in 0 .. 0 |-> v], v, 0)
    BY DEF Grown
  <2> QED BY <1>1, <2>1
<1>2. CASE k # 0
  <2>1. k - 1 \in Nat /\ k - 1 \notin Bad
    BY <1>2
  <2> PICK g : Grown(g, v, k - 1)
    BY <2>1
  <2> DEFINE h == [jj \in 0 .. k |-> IF jj = k THEN grow(g[k - 1]) ELSE g[jj]]
  <2>2. \A jj \in 0 .. k : h[jj] = IF jj = 0 THEN v ELSE grow(h[jj - 1])
    BY <1>2 DEF Grown
  <2>3. Grown(h, v, k)
    BY <2>2 DEF Grown
  <2> QED BY <2>3
<1> QED BY <1>1, <1>2

LEMMA IterateIsGrown ==
  ASSUME NEW v
  PROVE  \E g : Grown(g, v, CHUNK) /\ iterate(v) = g[CHUNK]
<1> DEFINE grown == CHOOSE g : Grown(g, v, CHUNK)
<1>1. iterate(v) = grown[CHUNK]
  BY Zenon DEF iterate, Grown
<1>2. \E g : Grown(g, v, CHUNK)
  BY GrownExists, CollatzAssumption
<1>3. Grown(grown, v, CHUNK)
  BY <1>2, Zenon
<1> HIDE DEF grown
<1> QED BY <1>1, <1>3

\* A set of sequences that is closed under a round of iterate is closed under iterate.
LEMMA IterateClosed ==
  ASSUME NEW Good, NEW v \in Good,
         \A w \in Good : ivec_last(w) # 1 => Append(w, collatz_step(ivec_last(w))) \in Good
  PROVE  iterate(v) \in Good
<1>2. PICK grown : Grown(grown, v, CHUNK) /\ iterate(v) = grown[CHUNK]
  BY IterateIsGrown
<1> DEFINE Bad == {k \in 0 .. CHUNK : grown[k] \notin Good}
<1>3. ASSUME Bad # {} PROVE FALSE
  <2> PICK k \in Bad : \A m \in Bad : ~(m < k)
    <3>1. Bad \in SUBSET Nat
      BY CollatzAssumption
    <3> QED BY <1>3, <3>1, Least
  <2>1. k # 0
    BY <1>2, CollatzAssumption DEF Grown
  <2>2. k - 1 \in 0 .. CHUNK /\ grown[k - 1] \in Good
    BY <2>1, CollatzAssumption
  <2>3. grown[k] = grow(grown[k - 1])
    BY <1>2, <2>1, CollatzAssumption DEF Grown
  <2> QED BY <2>2, <2>3 DEF grow
<1> QED BY <1>2, <1>3, CollatzAssumption

-----------------------------------------------------------------------------
(***************************************************************************)
(* The rotation of a scan                                                  *)
(***************************************************************************)
LEMMA ModRange ==
  \A a \in Nat, n \in Nat \ {0} : a % n \in 0 .. n - 1
OBVIOUS

LEMMA ModShift ==
  ASSUME NEW n \in Nat \ {0}, NEW m \in 0 .. n - 1, NEW q \in 0 .. 2
  PROVE  (m + q * n) % n = m
<1>1. CASE q = 0  BY <1>1
<1>2. CASE q = 1  BY <1>2
<1>3. CASE q = 2  BY <1>3
<1> QED BY <1>1, <1>2, <1>3

LEMMA TaskAtIsTask ==
  ASSUME NEW b \in 0 .. data_top - 1, NEW i \in 1 .. data_top - 1
  PROVE  TaskAt(b, i) \in Tasks
<1>1. b + i \in Nat /\ Last \in Nat \ {0}
  BY CollatzAssumption DEF Last
<1> QED BY <1>1, ModRange, CollatzAssumption DEF TaskAt, Tasks, Last

\* Wherever it starts, a scan looks at every task.
LEMMA ScanVisitsAll ==
  ASSUME NEW b \in 0 .. data_top - 1, NEW k \in Tasks
  PROVE  \E j \in 1 .. data_top - 1 : TaskAt(b, j) = k
<1> DEFINE n == Last
           d == k - 1 - b
<1>1. n \in Nat \ {0} /\ b \in 0 .. n /\ k - 1 \in 0 .. n - 1 /\ data_top - 1 = n
  BY CollatzAssumption DEF Last, Tasks
<1> HIDE DEF n
<1>2. \A j \in 1 .. n, q \in 0 .. 2 : b + j = (k - 1) + q * n => TaskAt(b, j) = k
  <2> TAKE j \in 1 .. n, q \in 0 .. 2
  <2> HAVE b + j = (k - 1) + q * n
  <2>1. (b + j) % n = k - 1
    BY <1>1, ModShift
  <2> QED BY <2>1, <1>1 DEF TaskAt, Tasks, n
<1>3. CASE d >= 1
  <2>1. d \in 1 .. n /\ b + d = (k - 1) + 0 * n  BY <1>1, <1>3
  <2> QED BY <1>1, <1>2, <2>1
<1>4. CASE d < 1 /\ d # 0 - n
  <2>1. d + n \in 1 .. n /\ b + (d + n) = (k - 1) + 1 * n  BY <1>1, <1>4
  <2> QED BY <1>1, <1>2, <2>1
<1>5. CASE d = 0 - n
  <2>1. n \in 1 .. n /\ b + n = (k - 1) + 2 * n  BY <1>1, <1>5
  <2> QED BY <1>1, <1>2, <2>1
<1> QED BY <1>1, <1>3, <1>4, <1>5

-----------------------------------------------------------------------------
(***************************************************************************)
(* The sequences                                                           *)
(***************************************************************************)
Pos == Nat \ {0}

\* The sequences that task k may point to.
Good(k) == {v \in Seq(Pos) :
              /\ v # <<>> /\ v[1] = k
              /\ \A j \in 1 .. Len(v) - 1 :
                   v[j] # 1 /\ v[j + 1] = collatz_step(v[j])}

LEMMA StepPositive ==
  ASSUME NEW n \in Pos  PROVE collatz_step(n) \in Pos
BY DEF Pos, collatz_step

LEMMA GoodGrows ==
  ASSUME NEW k, NEW w \in Good(k), ivec_last(w) # 1
  PROVE  Append(w, collatz_step(ivec_last(w))) \in Good(k)
<1> DEFINE x == collatz_step(ivec_last(w))
           v == Append(w, x)
<1>1. w \in Seq(Pos) /\ Len(w) \in Nat \ {0} /\ ivec_last(w) \in Pos
  BY DEF Good, ivec_last
<1>2. x \in Pos
  BY <1>1, StepPositive
<1> HIDE DEF x
<1>3. /\ v \in Seq(Pos) /\ Len(v) = Len(w) + 1 /\ v # <<>>
      /\ v[Len(w) + 1] = x /\ \A j \in 1 .. Len(w) : v[j] = w[j]
  BY <1>1, <1>2
<1>4. v[1] = k
  BY <1>1, <1>3 DEF Good
<1>5. ASSUME NEW j \in 1 .. Len(v) - 1
      PROVE  v[j] # 1 /\ v[j + 1] = collatz_step(v[j])
  <2>1. CASE j = Len(w)
    BY <1>1, <1>3, <2>1 DEF ivec_last, x
  <2>2. CASE j # Len(w)
    <3>1. j \in 1 .. Len(w) - 1 /\ j + 1 \in 1 .. Len(w)
      BY <1>1, <1>3, <2>2
    <3> QED BY <1>3, <3>1 DEF Good
  <2> QED BY <2>1, <2>2
<1> QED BY <1>3, <1>4, <1>5 DEF Good, x

LEMMA IterateGood ==
  ASSUME NEW k, NEW v \in Good(k)
  PROVE  iterate(v) \in Good(k)
BY GoodGrows, IterateClosed

LEMMA GoodFacts ==
  ASSUME NEW k, NEW v \in Good(k)
  PROVE  v \in Seq(Nat) /\ Len(v) \in Pos /\ ivec_last(v) \in Pos
BY DEF Good, Pos, ivec_last

-----------------------------------------------------------------------------
(***************************************************************************)
(* The inductive invariant                                                 *)
(***************************************************************************)
Places == {"start", "lock", "load", "iterate", "free", "store", "count", "unlock",
           "exited"}

Control ==
  /\ at \in [Threads -> Places]
  /\ base \in [Threads -> 0 .. data_top - 1]
  /\ i0 \in [Threads -> 1 .. data_top]
  /\ done_count \in [Threads -> Nat]
  /\ dibs \in [Tasks -> {0, 1}]
  /\ \A t \in Threads : HasDibs(t) => i0[t] < data_top

Alloc == 1 .. Len(ivecs)

\* A thread at "free" or "store" has a new ivec.
HasNew(t) == at[t] \in {"free", "store"}

\* No two tasks and no two threads that have made a new ivec point to the same one.  What a
\* task points to is freed only by a thread that has dibs on it and stores another next.
Pointers ==
  /\ ivecs \in Seq(Seq(Nat)) /\ freed \subseteq Alloc
  /\ vals \in [Tasks -> Alloc] /\ xs \in [Threads -> 0 .. Len(ivecs)]
  /\ \A j, k \in Tasks : vals[j] = vals[k] => j = k
  /\ \A t \in Threads : at[t] = "iterate" => xs[t] = vals[task(t)]
  /\ \A t \in Threads : HasNew(t) => xs[t] \in Alloc \ freed /\ \A k \in Tasks : xs[t] # vals[k]
  /\ \A t, u \in Threads : HasNew(t) /\ HasNew(u) /\ xs[t] = xs[u] => t = u
  /\ \A k \in Tasks : vals[k] \in freed => \E t \in Threads : at[t] = "store" /\ task(t) = k

\* What a thread knows of the task it has dibs on.
Sequences ==
  /\ \A k \in Tasks : sequence(k) \in Good(k)
  /\ \A t \in Threads :
       /\ at[t] = "iterate" \/ HasNew(t) => ivec_last(sequence(task(t))) > 1
       /\ HasNew(t) => ivecs[xs[t]] \in Good(task(t))
       /\ at[t] = "count" => ivec_last(sequence(task(t))) = 1

StepsSet == steps \in [Tasks -> Int] /\ StepsAreFinal

\* How many tasks thread t has looked at in its scan.
Rounds(t) == IF at[t] = "unlock" THEN i0[t] ELSE i0[t] - 1

\* A thread that has counted every task it has looked at has seen them all finished.
CountedAreDone ==
  \A t \in Threads :
    /\ done_count[t] <= Rounds(t)
    /\ done_count[t] = Rounds(t) =>
         \A j \in 1 .. Rounds(t) : steps[TaskAt(base[t], j)] # -1
    /\ at[t] = "exited" => i0[t] = data_top /\ done_count[t] = Last

IInv == Control /\ DibsExclusive /\ Pointers /\ Sequences /\ StepsSet /\ CountedAreDone

-----------------------------------------------------------------------------
LEMMA InitInv == Init => IInv
<1> SUFFICES ASSUME Init PROVE IInv
  OBVIOUS
<1> USE CollatzAssumption
<1>1. Control
  BY DEF Init, Control, HasDibs, Places
<1>2. DibsExclusive
  BY DEF Init, DibsExclusive, HasDibs
<1>3. /\ ivecs \in Seq(Seq(Nat)) /\ Len(ivecs) = Last /\ Alloc = Tasks
      /\ \A k \in Tasks : sequence(k) = <<k>> /\ <<k>> \in Good(k)
  <2>1. Last \in Nat /\ Tasks = 1 .. Last
    BY DEF Last, Tasks
  <2>2. \A k \in Tasks : <<k>> \in Good(k) /\ <<k>> \in Seq(Nat)
    BY DEF Good, Pos, Tasks
  <2>3. ivecs \in [1 .. Last -> Seq(Nat)]
    BY <2>1, <2>2 DEF Init
  <2>4. ivecs \in Seq(Seq(Nat)) /\ Len(ivecs) = Last
    BY <2>1, <2>3
  <2>5. \A k \in Tasks : sequence(k) = <<k>>
    BY DEF Init, sequence
  <2> QED BY <2>1, <2>2, <2>4, <2>5 DEF Alloc
<1>4. Pointers /\ Sequences
  <2>1. \A t \in Threads : at[t] = "start" /\ ~HasNew(t)
    BY DEF Init, HasNew
  <2>2. vals = [k \in Tasks |-> k] /\ freed = {} /\ xs = [t \in Threads |-> 0]
    BY DEF Init
  <2>3. Len(ivecs) \in Nat
    BY <1>3
  <2>4. vals \in [Tasks -> Alloc] /\ \A j, k \in Tasks : vals[j] = vals[k] => j = k
    BY <1>3, <2>2
  <2>5. xs \in [Threads -> 0 .. Len(ivecs)]
    BY <2>2, <2>3
  <2>6. Pointers
    BY <1>3, <2>1, <2>2, <2>4, <2>5 DEF Pointers
  <2> QED BY <1>3, <2>1, <2>6 DEF Sequences
<1>5. StepsSet
  BY DEF Init, StepsSet, StepsAreFinal
<1>6. CountedAreDone
  BY DEF Init, CountedAreDone, Rounds
<1> QED BY <1>1, <1>2, <1>4, <1>5, <1>6 DEF IInv

\* A thread that has dibs, or looks for a task, is at one of the tasks.
LEMMA TaskIsTask ==
  ASSUME Control, NEW t \in Threads, i0[t] < data_top
  PROVE  task(t) \in Tasks
<1>1. base[t] \in 0 .. data_top - 1 /\ i0[t] \in 1 .. data_top - 1
  BY CollatzAssumption DEF Control
<1> QED BY <1>1, TaskAtIsTask DEF task

\* A step of thread t leaves the others where they are.
LEMMA OthersStay ==
  ASSUME Control, xs \in [Threads -> Nat], NEW t \in Threads, Worker(t),
         NEW u \in Threads, u # t
  PROVE  /\ at'[u] = at[u] /\ base'[u] = base[u] /\ i0'[u] = i0[u]
         /\ done_count'[u] = done_count[u] /\ xs'[u] = xs[u]
         /\ task(u)' = task(u)
<1>1. /\ at'[u] = at[u] /\ base'[u] = base[u] /\ i0'[u] = i0[u]
      /\ done_count'[u] = done_count[u] /\ xs'[u] = xs[u]
  BY DEF Worker, Start, TakeDibs, Skip, Load, Iterate, Free, Store, CountDone,
         DropDibs, EndScan, Goto, Control
<1> QED BY <1>1 DEF task

\* A step of thread t within a round leaves it at its task.
LEMMA TaskStays ==
  ASSUME NEW t \in Threads, base' = base, i0' = i0
  PROVE  task(t)' = task(t)
BY DEF task

LEMMA ControlStep ==
  ASSUME Control, NEW t \in Threads, Worker(t)
  PROVE  Control'
<1> USE CollatzAssumption DEF Control, Goto, Places, HasDibs
<1>1. CASE Start(t)     BY <1>1 DEF Start
<1>2. CASE TakeDibs(t)  BY <1>2 DEF TakeDibs
<1>3. CASE Skip(t)      BY <1>3 DEF Skip
<1>4. CASE Load(t)      BY <1>4 DEF Load
<1>5. CASE Iterate(t)   BY <1>5 DEF Iterate
<1>6. CASE Free(t)      BY <1>6 DEF Free
<1>7. CASE Store(t)     BY <1>7 DEF Store
<1>8. CASE CountDone(t) BY <1>8 DEF CountDone
<1>9. CASE DropDibs(t)
  <2>1. i0[t] + 1 \in 1 .. data_top /\ ~HasDibs(t)'
    BY <1>9 DEF DropDibs
  <2>2. \A u \in Threads \ {t} : at'[u] = at[u] /\ i0'[u] = i0[u]
    BY <1>9 DEF DropDibs
  <2>3. dibs' \in [Tasks -> {0, 1}] /\ i0' \in [Threads -> 1 .. data_top]
    BY <1>9, <2>1 DEF DropDibs
  <2>4. at' \in [Threads -> Places] /\ UNCHANGED <<base, done_count>>
    BY <1>9 DEF DropDibs
  <2> QED BY <2>1, <2>2, <2>3, <2>4
<1>10. CASE EndScan(t)  BY <1>10 DEF EndScan
<1> QED BY <1>1, <1>2, <1>3, <1>4, <1>5, <1>6, <1>7, <1>8, <1>9, <1>10 DEF Worker

\* dibs are taken when they are free, and dropped by the thread that has them.
LEMMA DibsStep ==
  ASSUME Control, DibsExclusive, xs \in [Threads -> Nat],
         NEW t \in Threads, Worker(t)
  PROVE  DibsExclusive'
<1> DEFINE Owner(u, k) == HasDibs(u) /\ task(u) = k
<1>1. \A u \in Threads \ {t} : (HasDibs(u)' <=> HasDibs(u)) /\ task(u)' = task(u)
  BY OthersStay DEF HasDibs
<1>2. CASE TakeDibs(t)
  <2>1. task(t) \in Tasks
    BY <1>2, TaskIsTask DEF TakeDibs
  <2>2. /\ ~HasDibs(t) /\ HasDibs(t)' /\ task(t)' = task(t)
        /\ dibs[task(t)] = 0 /\ dibs' = [dibs EXCEPT ![task(t)] = 1]
    BY <1>2, TaskStays DEF TakeDibs, HasDibs, Goto, Control
  <2>3. \A u \in Threads : HasDibs(u) => task(u) # task(t)
    BY <2>1, <2>2 DEF DibsExclusive
  <2>4. \A u \in Threads, w \in Threads :
          HasDibs(u)' /\ HasDibs(w)' /\ task(u)' = task(w)' => u = w
    BY <1>1, <2>2, <2>3 DEF DibsExclusive
  <2>5. \A k \in Tasks : dibs'[k] = 1 <=> \E u \in Threads : HasDibs(u)' /\ task(u)' = k
    <3> TAKE k \in Tasks
    <3>1. CASE k = task(t)
      BY <2>2, <3>1 DEF Control
    <3>2. CASE k # task(t)
      BY <1>1, <2>2, <3>2 DEF Control, DibsExclusive
    <3> QED BY <3>1, <3>2
  <2> QED BY <2>4, <2>5 DEF DibsExclusive
<1>3. CASE DropDibs(t)
  <2>1. task(t) \in Tasks
    BY <1>3, TaskIsTask DEF DropDibs, HasDibs, Control
  <2>2. /\ HasDibs(t) /\ ~HasDibs(t)'
        /\ dibs' = [dibs EXCEPT ![task(t)] = 0]
    BY <1>3 DEF DropDibs, HasDibs, Goto, Control
  <2>3. \A u \in Threads \ {t} : HasDibs(u) => task(u) # task(t)
    BY <2>2 DEF DibsExclusive
  <2>4. \A u \in Threads, w \in Threads :
          HasDibs(u)' /\ HasDibs(w)' /\ task(u)' = task(w)' => u = w
    BY <1>1, <2>2 DEF DibsExclusive
  <2>5. \A k \in Tasks : dibs'[k] = 1 <=> \E u \in Threads : HasDibs(u)' /\ task(u)' = k
    <3> TAKE k \in Tasks
    <3>1. CASE k = task(t)
      <4>1. dibs'[k] = 0
        BY <2>2, <3>1 DEF Control
      <4>2. \A u \in Threads : ~(HasDibs(u)' /\ task(u)' = k)
        BY <1>1, <2>2, <2>3, <3>1
      <4> QED BY <4>1, <4>2
    <3>2. CASE k # task(t)
      <4>1. dibs'[k] = 1 <=> \E u \in Threads : HasDibs(u) /\ task(u) = k
        BY <2>2, <3>2 DEF Control, DibsExclusive
      <4>2. \A u \in Threads :
              HasDibs(u)' /\ task(u)' = k <=> HasDibs(u) /\ task(u) = k
        BY <1>1, <2>2, <3>2
      <4> QED BY <4>1, <4>2
    <3> QED BY <3>1, <3>2
  <2> QED BY <2>4, <2>5 DEF DibsExclusive
<1>4. CASE Load(t) \/ Iterate(t) \/ Free(t) \/ Store(t) \/ CountDone(t)
  <2>1. HasDibs(t) /\ HasDibs(t)' /\ task(t)' = task(t) /\ dibs' = dibs
    BY <1>4, TaskStays
    DEF Load, Iterate, Free, Store, CountDone, HasDibs, Goto, Control
  <2>2. \A u \in Threads : (HasDibs(u)' <=> HasDibs(u)) /\ task(u)' = task(u)
    BY <1>1, <2>1
  <2> QED BY <2>1, <2>2 DEF DibsExclusive
<1>5. CASE Start(t) \/ Skip(t) \/ EndScan(t)
  <2>1. ~HasDibs(t) /\ ~HasDibs(t)' /\ dibs' = dibs
    BY <1>5 DEF Start, Skip, EndScan, HasDibs, Goto, Control
  <2> QED BY <1>1, <2>1 DEF DibsExclusive
<1> QED BY <1>2, <1>3, <1>4, <1>5 DEF Worker

\* Pointers are numbers, and no ivec that was made changes.
LEMMA HeapGrows ==
  ASSUME Pointers, NEW t \in Threads, Worker(t)
  PROVE  /\ xs \in [Threads -> Nat] /\ Len(ivecs) \in Nat
         /\ ivecs' # ivecs => Iterate(t)
         /\ Iterate(t) => /\ ivecs' = Append(ivecs, iterate(ivecs[xs[t]]))
                          /\ Len(ivecs') = Len(ivecs) + 1
                          /\ ivecs'[Len(ivecs')] = iterate(ivecs[xs[t]])
         /\ Len(ivecs') \in Nat /\ Len(ivecs') >= Len(ivecs) /\ Alloc \subseteq Alloc'
         /\ \A p \in Alloc : ivecs'[p] = ivecs[p]
<1>1. ivecs \in Seq(Seq(Nat)) /\ Len(ivecs) \in Nat /\ xs \in [Threads -> Nat]
  BY DEF Pointers
<1>2. CASE Iterate(t)
  <2>n. PICK v : v = iterate(ivecs[xs[t]])
    OBVIOUS
  <2>1. ivecs' = Append(ivecs, v)
    BY <1>2, <2>n DEF Iterate
  <2> QED BY <1>1, <1>2, <2>1, <2>n DEF Alloc
<1>3. CASE ~Iterate(t)
  <2>1. ivecs' = ivecs
    BY <1>3 DEF Worker, Start, TakeDibs, Skip, Load, Free, Store, CountDone, DropDibs, EndScan, heap
  <2> QED BY <1>1, <1>3, <2>1 DEF Alloc
<1> QED BY <1>2, <1>3

\* What a task points to changes only by the store of a thread that has dibs on it.
LEMMA SequenceStays ==
  ASSUME Control, Pointers, NEW t \in Threads, Worker(t), NEW k \in Tasks,
         Store(t) => k # task(t)
  PROVE  vals'[k] = vals[k] /\ sequence(k)' = sequence(k)
<1>1. vals'[k] = vals[k]
  BY DEF Worker, Start, TakeDibs, Skip, Load, Iterate, Free, Store, CountDone, DropDibs, EndScan,
         Pointers
<1>2. vals[k] \in Alloc
  BY DEF Pointers
<1> QED BY <1>1, <1>2, HeapGrows DEF sequence

\* A step that makes no ivec, frees none and stores none.
LEMMA PointersKept ==
  ASSUME Control, Pointers, NEW t \in Threads, Worker(t), UNCHANGED <<ivecs, freed, vals>>,
         xs' \in [Threads -> 0 .. Len(ivecs)],
         at'[t] \notin {"free", "store"}, at[t] # "store",
         at'[t] = "iterate" => xs'[t] = vals[task(t)] /\ task(t)' = task(t)
  PROVE  Pointers'
<1>1. \A u \in Threads \ {t} : at'[u] = at[u] /\ task(u)' = task(u) /\ xs'[u] = xs[u]
  BY OthersStay, HeapGrows
<1>2. ~HasNew(t)' /\ \A u \in Threads \ {t} : HasNew(u)' <=> HasNew(u)
  BY <1>1 DEF HasNew
<1>3. Alloc' = Alloc
  BY DEF Alloc
<1>4. \A u \in Threads : HasNew(u)' => HasNew(u) /\ xs'[u] = xs[u]
  BY <1>1, <1>2
<1>5. \A u \in Threads : HasNew(u)' => xs'[u] \in Alloc' \ freed' /\ \A k \in Tasks : xs'[u] # vals'[k]
  BY <1>3, <1>4 DEF Pointers
<1>6. \A u, w \in Threads : HasNew(u)' /\ HasNew(w)' /\ xs'[u] = xs'[w] => u = w
  BY <1>4 DEF Pointers
<1>7. \A u \in Threads : at'[u] = "iterate" => xs'[u] = vals'[task(u)']
  <2> TAKE u \in Threads
  <2>1. CASE u = t
    BY <2>1
  <2>2. CASE u # t
    BY <1>1, <2>2 DEF Pointers
  <2> QED BY <2>1, <2>2
<1>8. ASSUME NEW k \in Tasks, vals'[k] \in freed'
      PROVE  \E u \in Threads : at'[u] = "store" /\ task(u)' = k
  <2> PICK u \in Threads : at[u] = "store" /\ task(u) = k
    BY <1>8 DEF Pointers
  <2> QED BY <1>1
<1> QED BY <1>3, <1>5, <1>6, <1>7, <1>8 DEF Pointers

LEMMA PointersStep ==
  ASSUME Control, DibsExclusive, Pointers, Sequences, NEW t \in Threads, Worker(t)
  PROVE  Pointers'
<1>1. \A u \in Threads \ {t} : at'[u] = at[u] /\ task(u)' = task(u) /\ xs'[u] = xs[u]
  BY OthersStay, HeapGrows
<1>2. \A u \in Threads \ {t} : HasNew(u)' <=> HasNew(u)
  BY <1>1 DEF HasNew
<1>h. /\ ivecs \in Seq(Seq(Nat)) /\ Len(ivecs) \in Nat /\ freed \subseteq Alloc
      /\ vals \in [Tasks -> Alloc] /\ xs \in [Threads -> 0 .. Len(ivecs)]
  BY HeapGrows DEF Pointers
<1>3. CASE Start(t) \/ TakeDibs(t) \/ Skip(t) \/ CountDone(t) \/ EndScan(t)
  <2>1. /\ UNCHANGED <<ivecs, freed, vals, xs>> /\ at[t] # "store"
        /\ at'[t] \notin {"iterate", "free", "store"}
    BY <1>3 DEF Start, TakeDibs, Skip, CountDone, EndScan, Goto, Control, heap
  <2> QED BY <1>h, <2>1, PointersKept
<1>4. CASE DropDibs(t)
  <2>1. /\ UNCHANGED <<ivecs, freed, vals>> /\ at[t] # "store"
        /\ at'[t] \notin {"iterate", "free", "store"} /\ xs' = [xs EXCEPT ![t] = 0]
    BY <1>4 DEF DropDibs, Goto, Control, heap
  <2>2. xs' \in [Threads -> 0 .. Len(ivecs)]
    BY <1>h, <2>1
  <2> QED BY <2>1, <2>2, PointersKept
<1>5. CASE Load(t)
  <2>1. task(t) \in Tasks /\ task(t)' = task(t)
    BY <1>5, TaskIsTask, TaskStays DEF Load, HasDibs, Control
  <2>2. /\ UNCHANGED <<ivecs, freed, vals>> /\ at[t] # "store"
        /\ at'[t] \notin {"free", "store"} /\ xs' = [xs EXCEPT ![t] = vals[task(t)]]
    BY <1>5 DEF Load, Goto, Control, heap
  <2>3. vals[task(t)] \in 0 .. Len(ivecs)
    BY <1>h, <2>1 DEF Alloc
  <2>4. xs' \in [Threads -> 0 .. Len(ivecs)] /\ xs'[t] = vals[task(t)]
    BY <1>h, <2>2, <2>3
  <2> QED BY <2>1, <2>2, <2>4, PointersKept
<1>6. CASE Iterate(t)
  <2>n. PICK n : n = Len(ivecs)
    OBVIOUS
  <2>1. /\ UNCHANGED <<freed, vals>> /\ at'[t] = "free" /\ at[t] = "iterate"
        /\ Len(ivecs') = n + 1 /\ n \in Nat /\ xs' = [xs EXCEPT ![t] = n + 1]
    BY <1>6, <2>n, HeapGrows DEF Iterate, Goto, Control
  <2>2. ivecs' \in Seq(Seq(Nat))
    <3>1. xs[t] = vals[task(t)] /\ task(t) \in Tasks
      BY <1>6, <2>1, TaskIsTask DEF Pointers, HasDibs, Control
    <3>2. ivecs[xs[t]] \in Good(task(t))
      BY <3>1 DEF Sequences, sequence
    <3>3. iterate(ivecs[xs[t]]) \in Seq(Nat)
      BY <3>2, IterateGood, GoodFacts
    <3>4. ivecs' = Append(ivecs, iterate(ivecs[xs[t]]))
      BY <1>6 DEF Iterate
    <3> QED BY <1>h, <3>3, <3>4
  <2>3. Alloc = 1 .. n /\ Alloc' = 1 .. n + 1 /\ n + 1 \notin Alloc /\ Alloc \subseteq Alloc'
    BY <2>1, <2>n DEF Alloc
  <2>4. xs' \in [Threads -> 0 .. n + 1] /\ xs'[t] = n + 1
    BY <1>h, <2>1, <2>n
  <2>5. freed' \subseteq Alloc' /\ vals' \in [Tasks -> Alloc']
    BY <1>h, <2>1, <2>3
  <2>6. \A u \in Threads : HasNew(u)' => u = t \/ (u # t /\ HasNew(u) /\ xs'[u] = xs[u] /\ xs'[u] # n + 1)
    <3>1. \A u \in Threads : HasNew(u) => xs[u] \in Alloc
      BY DEF Pointers
    <3> QED BY <1>1, <1>2, <2>3, <3>1
  <2>7. \A u \in Threads : HasNew(u)' =>
          xs'[u] \in Alloc' \ freed' /\ \A k \in Tasks : xs'[u] # vals'[k]
    <3> TAKE u \in Threads
    <3>1. CASE u = t
      BY <1>h, <2>1, <2>3, <2>4, <3>1
    <3>2. CASE u # t
      BY <2>1, <2>3, <2>6, <3>2 DEF Pointers
    <3> QED BY <3>1, <3>2
  <2>8. \A u, w \in Threads : HasNew(u)' /\ HasNew(w)' /\ xs'[u] = xs'[w] => u = w
    BY <2>4, <2>6 DEF Pointers
  <2>9. \A u \in Threads : at'[u] = "iterate" => xs'[u] = vals'[task(u)']
    BY <1>1, <2>1 DEF Pointers
  <2>10. ASSUME NEW k \in Tasks, vals'[k] \in freed'
         PROVE  \E u \in Threads : at'[u] = "store" /\ task(u)' = k
    <3> PICK u \in Threads : at[u] = "store" /\ task(u) = k
      BY <2>1, <2>10 DEF Pointers
    <3> QED BY <1>1, <2>1
  <2>11. \A j, k \in Tasks : vals'[j] = vals'[k] => j = k
    BY <2>1 DEF Pointers
  <2> QED BY <2>1, <2>2, <2>4, <2>5, <2>7, <2>8, <2>9, <2>10, <2>11 DEF Pointers
<1>7. CASE Free(t)
  <2>1. task(t) \in Tasks /\ task(t)' = task(t)
    BY <1>7, TaskIsTask, TaskStays DEF Free, HasDibs, Control
  <2>2. /\ UNCHANGED <<ivecs, vals, xs>> /\ freed' = freed \cup {vals[task(t)]}
        /\ at[t] = "free" /\ at'[t] = "store"
    BY <1>7 DEF Free, Goto, Control
  <2>3. \A u \in Threads : HasNew(u)' <=> HasNew(u)
    BY <1>2, <2>2 DEF HasNew
  <2>4. \A u \in Threads : HasNew(u)' => xs'[u] \notin freed'
    BY <2>1, <2>2, <2>3 DEF Pointers
  <2>5. \A u \in Threads : at'[u] = "iterate" => xs'[u] = vals'[task(u)']
    BY <1>1, <2>2 DEF Pointers
  <2>6. ASSUME NEW k \in Tasks, vals'[k] \in freed'
        PROVE  \E u \in Threads : at'[u] = "store" /\ task(u)' = k
    <3>1. CASE vals[k] \in freed
      <4> PICK u \in Threads : at[u] = "store" /\ task(u) = k
        BY <3>1 DEF Pointers
      <4> QED BY <1>1, <2>2
    <3>2. CASE vals[k] = vals[task(t)]
      <4>1. k = task(t)
        BY <2>1, <3>2 DEF Pointers
      <4> QED BY <2>1, <2>2, <4>1
    <3> QED BY <2>2, <2>6, <3>1, <3>2
  <2>7. Alloc' = Alloc /\ freed' \subseteq Alloc'
    BY <1>h, <2>1, <2>2 DEF Alloc
  <2> QED BY <2>2, <2>3, <2>4, <2>5, <2>6, <2>7 DEF Pointers
<1>8. CASE Store(t)
  <2>1. task(t) \in Tasks
    BY <1>8, TaskIsTask DEF Store, HasDibs, Control
  <2>2. /\ UNCHANGED <<ivecs, freed, xs>> /\ vals' = [vals EXCEPT ![task(t)] = xs[t]]
        /\ at[t] = "store" /\ at'[t] = "unlock"
    BY <1>8 DEF Store, Goto, Control, heap
  <2>3. HasNew(t) /\ ~HasNew(t)' /\ HasDibs(t)
    BY <2>2 DEF HasNew, HasDibs
  <2>4. xs[t] \in Alloc \ freed /\ \A k \in Tasks : xs[t] # vals[k]
    BY <2>3 DEF Pointers
  <2>5. Alloc' = Alloc /\ vals' \in [Tasks -> Alloc']
    BY <1>h, <2>2, <2>4 DEF Alloc
  <2>6. \A k \in Tasks : vals'[k] = IF k = task(t) THEN xs[t] ELSE vals[k]
    BY <1>h, <2>2
  <2>7. \A j, k \in Tasks : vals'[j] = vals'[k] => j = k
    BY <2>4, <2>6 DEF Pointers
  <2>8. \A u \in Threads \ {t} : HasDibs(u) => task(u) \in Tasks /\ task(u) # task(t)
    BY <2>3, TaskIsTask DEF DibsExclusive, Control
  <2>9. ASSUME NEW u \in Threads, at'[u] = "iterate" PROVE xs'[u] = vals'[task(u)']
    <3>1. u # t /\ at[u] = "iterate" /\ task(u)' = task(u)
      BY <1>1, <2>2, <2>9
    <3>2. task(u) \in Tasks /\ task(u) # task(t)
      BY <2>8, <3>1 DEF HasDibs
    <3> QED BY <2>2, <2>6, <3>1, <3>2 DEF Pointers
  <2>10. ASSUME NEW u \in Threads, HasNew(u)'
         PROVE  xs'[u] \in Alloc' \ freed' /\ \A k \in Tasks : xs'[u] # vals'[k]
    <3>1. u # t /\ HasNew(u)
      BY <1>2, <2>3, <2>10
    <3>2. xs[u] # xs[t]
      BY <2>3, <3>1 DEF Pointers
    <3> QED BY <2>2, <2>5, <2>6, <3>1, <3>2 DEF Pointers
  <2>11. \A u, w \in Threads : HasNew(u)' /\ HasNew(w)' /\ xs'[u] = xs'[w] => u = w
    BY <1>2, <2>2, <2>3 DEF Pointers
  <2>12. ASSUME NEW k \in Tasks, vals'[k] \in freed'
         PROVE  \E u \in Threads : at'[u] = "store" /\ task(u)' = k
    <3>1. k # task(t) /\ vals[k] \in freed
      BY <2>2, <2>4, <2>6, <2>12
    <3> PICK u \in Threads : at[u] = "store" /\ task(u) = k
      BY <3>1 DEF Pointers
    <3> QED BY <1>1, <3>1
  <2> QED BY <1>h, <2>2, <2>5, <2>7, <2>9, <2>10, <2>11, <2>12 DEF Pointers
<1> QED BY <1>3, <1>4, <1>5, <1>6, <1>7, <1>8 DEF Worker

LEMMA SequencesStep ==
  ASSUME Control, DibsExclusive, Pointers, Sequences, NEW t \in Threads, Worker(t)
  PROVE  Sequences'
<1> DEFINE Knows(u) ==
      /\ at[u] = "iterate" \/ HasNew(u) => ivec_last(sequence(task(u))) > 1
      /\ HasNew(u) => ivecs[xs[u]] \in Good(task(u))
      /\ at[u] = "count" => ivec_last(sequence(task(u))) = 1
<1>1. \A u \in Threads \ {t} : at'[u] = at[u] /\ task(u)' = task(u) /\ xs'[u] = xs[u]
  BY OthersStay, HeapGrows
<1>2. \A p \in Alloc : ivecs'[p] = ivecs[p]
  BY HeapGrows
<1>3. ASSUME NEW u \in Threads \ {t} PROVE Knows(u)'
  <2>1. HasNew(u)' <=> HasNew(u)
    BY <1>1 DEF HasNew
  <2>2. HasNew(u) => xs[u] \in Alloc /\ ivecs'[xs[u]] = ivecs[xs[u]]
    BY <1>2 DEF Pointers
  <2>3. HasDibs(u) => sequence(task(u))' = sequence(task(u))
    <3> SUFFICES ASSUME HasDibs(u) PROVE sequence(task(u))' = sequence(task(u))
      OBVIOUS
    <3>1. task(u) \in Tasks
      BY TaskIsTask DEF Control
    <3>2. Store(t) => task(u) # task(t)
      BY DEF Store, HasDibs, DibsExclusive
    <3>k. PICK k \in Tasks : k = task(u)
      BY <3>1
    <3>3. sequence(k)' = sequence(k)
      BY <3>2, <3>k, SequenceStays
    <3>4. task(u)' = task(u)
      BY <1>1
    <3> QED BY <3>3, <3>4, <3>k DEF sequence
  <2>4. at[u] = "iterate" \/ at[u] = "count" \/ HasNew(u) => HasDibs(u)
    BY DEF HasNew, HasDibs
  <2>5. Knows(u)
    BY DEF Sequences
  <2> QED BY <1>1, <2>1, <2>2, <2>3, <2>4, <2>5
<1>4. ASSUME \A k \in Tasks : sequence(k)' \in Good(k), Knows(t)' PROVE Sequences'
  BY <1>3, <1>4 DEF Sequences
<1>5. ASSUME ~Store(t) PROVE \A k \in Tasks : sequence(k)' = sequence(k) /\ sequence(k)' \in Good(k)
  BY <1>5, SequenceStays DEF Sequences
<1>6. CASE Start(t) \/ TakeDibs(t) \/ Skip(t) \/ CountDone(t) \/ DropDibs(t) \/ EndScan(t)
  <2>1. at'[t] \notin {"iterate", "free", "store", "count"} /\ at[t] # "store"
    BY <1>6 DEF Start, TakeDibs, Skip, CountDone, DropDibs, EndScan, Goto, Control
  <2>2. ~Store(t) /\ Knows(t)'
    BY <2>1 DEF Store, HasNew
  <2> QED BY <1>4, <1>5, <2>2
<1>7. CASE Load(t)
  <2>1. task(t) \in Tasks /\ task(t)' = task(t)
    BY <1>7, TaskIsTask, TaskStays DEF Load, HasDibs, Control
  <2>2. sequence(task(t)) \in Good(task(t)) /\ ivec_last(sequence(task(t))) \in Pos
    BY <2>1, GoodFacts DEF Sequences
  <2>3. /\ ~Store(t) /\ UNCHANGED <<ivecs, vals>>
        /\ at'[t] = IF ivec_last(sequence(task(t))) > 1 THEN "iterate" ELSE "count"
    <3>1. xs'[t] = vals[task(t)]
      BY <1>7, HeapGrows DEF Load
    <3> QED BY <1>7, <3>1 DEF Load, Store, Goto, Control, heap, sequence
  <2>4. ~HasNew(t)' /\ sequence(task(t))' = sequence(task(t))
    BY <2>1, <2>3 DEF HasNew, sequence
  <2>5. Knows(t)'
    BY <2>2, <2>3, <2>4 DEF Pos
  <2> QED BY <1>4, <1>5, <2>3, <2>5
<1>8. CASE Iterate(t)
  <2>1. task(t) \in Tasks /\ task(t)' = task(t) /\ ~Store(t) /\ at[t] = "iterate"
    BY <1>8, TaskIsTask, TaskStays DEF Iterate, Store, HasDibs, Control
  <2>2. xs[t] = vals[task(t)] /\ ivec_last(sequence(task(t))) > 1
    BY <2>1 DEF Pointers, Sequences
  <2>3. ivecs[xs[t]] \in Good(task(t))
    BY <2>1, <2>2 DEF Sequences, sequence
  <2>4. iterate(ivecs[xs[t]]) \in Good(task(t))
    BY <2>3, IterateGood
  <2>5. xs'[t] = Len(ivecs') /\ at'[t] = "free"
    BY <1>8, HeapGrows DEF Iterate, Goto, Control
  <2>6. ivecs'[xs'[t]] \in Good(task(t))
    BY <1>8, <2>4, <2>5, HeapGrows
  <2>7. sequence(task(t))' = sequence(task(t))
    <3>k. PICK k \in Tasks : k = task(t)
      BY <2>1
    <3>1. sequence(k)' = sequence(k)
      BY <1>5, <2>1
    <3> QED BY <2>1, <3>1, <3>k DEF sequence
  <2>8. Knows(t)'
    BY <2>1, <2>2, <2>5, <2>6, <2>7
  <2> QED BY <1>4, <1>5, <2>1, <2>8
<1>9. CASE Free(t)
  <2>1. /\ UNCHANGED <<ivecs, vals, xs>> /\ at[t] = "free" /\ at'[t] = "store"
        /\ task(t)' = task(t) /\ ~Store(t)
    BY <1>9, TaskStays DEF Free, Store, Goto, Control
  <2>2. sequence(task(t))' = sequence(task(t)) /\ HasNew(t)
    BY <2>1 DEF sequence, HasNew
  <2>3. ivec_last(sequence(task(t))) > 1 /\ ivecs[xs[t]] \in Good(task(t))
    BY <2>2 DEF Sequences
  <2>4. Knows(t)'
    BY <2>1, <2>2, <2>3
  <2> QED BY <1>4, <1>5, <2>1, <2>4
<1>10. CASE Store(t)
  <2>1. task(t) \in Tasks
    BY <1>10, TaskIsTask DEF Store, HasDibs, Control
  <2>2. /\ vals' = [vals EXCEPT ![task(t)] = xs[t]] /\ ivecs' = ivecs
        /\ at[t] = "store" /\ at'[t] = "unlock"
    BY <1>10 DEF Store, Goto, Control, heap
  <2>3. ivecs[xs[t]] \in Good(task(t))
    BY <2>2 DEF Sequences, HasNew
  <2>4. ASSUME NEW k \in Tasks PROVE sequence(k)' \in Good(k)
    <3>1. CASE k = task(t)
      BY <2>1, <2>2, <2>3, <3>1 DEF sequence, Pointers
    <3>2. CASE k # task(t)
      BY <3>2, SequenceStays DEF Sequences
    <3> QED BY <3>1, <3>2
  <2>5. Knows(t)'
    BY <2>2 DEF HasNew
  <2> QED BY <1>4, <2>4, <2>5
<1> QED BY <1>6, <1>7, <1>8, <1>9, <1>10 DEF Worker

\* steps is set where the sequence has reached 1, and nobody stores there after that.
LEMMA StepsStep ==
  ASSUME Control, DibsExclusive, Pointers, Sequences, StepsSet, NEW t \in Threads, Worker(t)
  PROVE  /\ StepsSet'
         /\ \A k \in Tasks : steps[k] # -1 => steps'[k] # -1
<1>1. CASE Store(t)
  <2>1. task(t) \in Tasks
    BY <1>1, TaskIsTask DEF Store, HasDibs, Control
  <2>2. UNCHANGED steps /\ ivec_last(sequence(task(t))) > 1
    BY <1>1 DEF Store, Sequences, HasNew
  <2>3. steps[task(t)] = -1
    BY <2>1, <2>2 DEF StepsSet, StepsAreFinal
  <2>4. \A k \in Tasks : k # task(t) => sequence(k)' = sequence(k)
    BY SequenceStays
  <2> QED BY <2>2, <2>3, <2>4 DEF StepsSet, StepsAreFinal
<1>2. CASE CountDone(t)
  <2>1. task(t) \in Tasks
    BY <1>2, TaskIsTask DEF CountDone, HasDibs, Control
  <2>k. PICK k \in Tasks : k = task(t)
    BY <2>1
  <2>2. /\ ivec_last(sequence(k)) = 1
        /\ steps' = IF steps[k] = -1 THEN [steps EXCEPT ![k] = Len(sequence(k)) - 1] ELSE steps
    BY <1>2, <2>k DEF CountDone, Sequences
  <2>s. \A j \in Tasks : sequence(j)' = sequence(j)
    <3>1. ~Store(t)
      BY <1>2 DEF CountDone, Store
    <3> QED BY <3>1, SequenceStays
  <2>3. Len(sequence(k)) \in Pos
    BY GoodFacts DEF Sequences
  <2>n. PICK n : n = Len(sequence(k)) - 1
    OBVIOUS
  <2>4. n \in Nat
    BY <2>3, <2>n DEF Pos
  <2>5. CASE steps[k] = -1
    <3>1. steps' = [steps EXCEPT ![k] = n]
      BY <2>2, <2>5, <2>n
    <3>2. steps' \in [Tasks -> Int] /\ steps'[k] = n
      BY <2>4, <3>1 DEF StepsSet
    <3>3. \A j \in Tasks : j # k => steps'[j] = steps[j]
      BY <3>1 DEF StepsSet
    <3> QED BY <2>2, <2>4, <2>n, <2>s, <3>2, <3>3 DEF StepsSet, StepsAreFinal
  <2>6. CASE steps[k] # -1
    BY <2>2, <2>6, <2>s DEF StepsSet, StepsAreFinal
  <2> QED BY <2>5, <2>6
<1>3. CASE ~Store(t) /\ ~CountDone(t)
  <2>1. UNCHANGED steps
    BY <1>3 DEF Worker, Start, TakeDibs, Skip, Load, Iterate, Free, DropDibs, EndScan
  <2>2. \A k \in Tasks : sequence(k)' = sequence(k)
    BY <1>3, SequenceStays
  <2> QED BY <2>1, <2>2 DEF StepsSet, StepsAreFinal
<1> QED BY <1>1, <1>2, <1>3

LEMMA CountedStep ==
  ASSUME Control, DibsExclusive, Pointers, Sequences, StepsSet, CountedAreDone,
         NEW t \in Threads, Worker(t)
  PROVE  CountedAreDone'
<1> DEFINE Counted(u) ==
      /\ done_count[u] <= Rounds(u)
      /\ done_count[u] = Rounds(u) =>
           \A j \in 1 .. Rounds(u) : steps[TaskAt(base[u], j)] # -1
      /\ at[u] = "exited" => i0[u] = data_top /\ done_count[u] = Last
<1>1. \A k \in Tasks : steps[k] # -1 => steps'[k] # -1
  BY StepsStep
<1>2. \A u \in Threads, j \in Int : 1 <= j /\ j < data_top => TaskAt(base[u], j) \in Tasks
  BY TaskAtIsTask, CollatzAssumption DEF Control
<1>3. \A u \in Threads : Rounds(u) \in 0 .. data_top - 1
  BY CollatzAssumption DEF Rounds, Control, HasDibs
<1>4. ASSUME NEW u \in Threads, Rounds(u)' = Rounds(u), base'[u] = base[u],
             done_count'[u] = done_count[u],
             at'[u] = "exited" => i0'[u] = data_top /\ done_count'[u] = Last
      PROVE  Counted(u)'
  <2>1. \A j \in 1 .. Rounds(u) :
          steps[TaskAt(base[u], j)] # -1 => steps'[TaskAt(base'[u], j)] # -1
    <3> TAKE j \in 1 .. Rounds(u)
    <3>1. j \in Int /\ 1 <= j /\ j < data_top
      BY <1>3, CollatzAssumption
    <3>2. TaskAt(base[u], j) \in Tasks
      BY <1>2, <3>1
    <3> QED BY <1>1, <1>4, <3>2
  <2> QED BY <1>4, <2>1 DEF CountedAreDone
<1>5. \A u \in Threads \ {t} : Counted(u)'
  <2> TAKE u \in Threads \ {t}
  <2>1. /\ at'[u] = at[u] /\ base'[u] = base[u] /\ i0'[u] = i0[u]
        /\ done_count'[u] = done_count[u]
    BY OthersStay, HeapGrows
  <2>2. Rounds(u)' = Rounds(u)
    BY <2>1 DEF Rounds
  <2> QED BY <1>4, <2>1, <2>2 DEF CountedAreDone
<1>6. CASE TakeDibs(t) \/ Load(t) \/ Iterate(t) \/ Free(t) \/ EndScan(t) \/ DropDibs(t)
  <2>1. /\ UNCHANGED <<base, done_count>> /\ Rounds(t)' = Rounds(t)
        /\ at'[t] = "exited" => i0'[t] = data_top /\ done_count'[t] = Last
    BY <1>6
    DEF TakeDibs, Load, Iterate, Free, EndScan, DropDibs, Goto, Control, Rounds
  <2> QED BY <1>4, <1>5, <2>1 DEF CountedAreDone
<1>7. CASE Start(t)
  <2>1. done_count'[t] = 0 /\ Rounds(t)' = 0 /\ at'[t] = "lock"
    BY <1>7 DEF Start, Goto, Control, Rounds
  <2> QED BY <1>5, <2>1 DEF CountedAreDone
<1>8. CASE Skip(t) \/ Store(t)
  <2>1. /\ done_count'[t] = done_count[t] /\ Rounds(t)' = Rounds(t) + 1
        /\ at'[t] # "exited"
    BY <1>8 DEF Skip, Store, Goto, Control, Rounds
  <2>2. done_count[t] <= Rounds(t) /\ done_count[t] \in Nat
    BY DEF CountedAreDone, Control
  <2> QED BY <1>3, <1>5, <2>1, <2>2 DEF CountedAreDone
<1>9. CASE CountDone(t)
  <2>1. task(t) \in Tasks
    BY <1>9, TaskIsTask DEF CountDone, HasDibs, Control
  <2>2. /\ done_count'[t] = done_count[t] + 1 /\ Rounds(t)' = Rounds(t) + 1
        /\ Rounds(t)' = i0[t] /\ UNCHANGED base /\ at'[t] # "exited"
    BY <1>9 DEF CountDone, Goto, Control, Rounds
  <2>3. steps'[task(t)] # -1
    <3>1. Len(sequence(task(t))) \in Pos
      BY <2>1, GoodFacts DEF Sequences
    <3> QED BY <1>9, <2>1, <3>1 DEF CountDone, StepsSet, Pos
  <2>4. ASSUME done_count[t] = Rounds(t), NEW j \in 1 .. i0[t]
        PROVE  steps'[TaskAt(base[t], j)] # -1
    <3>1. CASE j = i0[t]
      BY <2>3, <3>1 DEF task
    <3>2. CASE j # i0[t]
      <4>1. j \in 1 .. Rounds(t)
        BY <2>2, <2>4, <3>2, <1>3 DEF Control
      <4>2. j \in Int /\ 1 <= j /\ j < data_top
        BY <1>3, <4>1, CollatzAssumption
      <4>3. TaskAt(base[t], j) \in Tasks
        BY <1>2, <4>2
      <4>4. steps[TaskAt(base[t], j)] # -1
        BY <2>4, <4>1 DEF CountedAreDone
      <4> QED BY <1>1, <4>3, <4>4
    <3> QED BY <3>1, <3>2
  <2>5. done_count[t] <= Rounds(t) /\ done_count[t] \in Nat
    BY DEF CountedAreDone, Control
  <2> QED BY <1>3, <1>5, <2>2, <2>4, <2>5 DEF CountedAreDone
<1> QED BY <1>6, <1>7, <1>8, <1>9 DEF Worker

-----------------------------------------------------------------------------
(***************************************************************************)
(* The maximum that main prints                                            *)
(***************************************************************************)
best(m, ii) == IF steps[ii] > m.s THEN [v |-> ii, s |-> steps[ii]] ELSE m

\* The local function of MaxSteps, on 0 .. n.
Maxima(g, n) ==
  g = [ii \in 0 .. n |-> IF ii = 0 THEN [v |-> 0, s |-> 0] ELSE best(g[ii - 1], ii)]

LEMMA MaximaExist ==
  ASSUME NEW n \in Nat
  PROVE  \E g : Maxima(g, n)
<1> DEFINE Bad == {k \in Nat : ~ \E g : Maxima(g, k)}
<1> SUFFICES ASSUME Bad # {} PROVE FALSE
  OBVIOUS
<1> PICK k \in Bad : \A m \in Bad : ~(m < k)
  BY Least
<1>1. CASE k = 0
  <2>1. Maxima([ii \in 0 .. 0 |-> [v |-> 0, s |-> 0]], 0)
    BY DEF Maxima
  <2> QED BY <1>1, <2>1
<1>2. CASE k # 0
  <2>1. k - 1 \in Nat /\ k - 1 \notin Bad
    BY <1>2
  <2> PICK g : Maxima(g, k - 1)
    BY <2>1
  <2> DEFINE h == [ii \in 0 .. k |-> IF ii = k THEN best(g[k - 1], k) ELSE g[ii]]
  <2>2. \A ii \in 0 .. k :
          h[ii] = IF ii = 0 THEN [v |-> 0, s |-> 0] ELSE best(h[ii - 1], ii)
    BY <1>2 DEF Maxima
  <2>3. Maxima(h, k)
    BY <2>2 DEF Maxima
  <2> QED BY <2>3
<1> QED BY <1>1, <1>2

\* m is the maximum of the steps of 1 .. n and the first place where it is reached.
IsMax(m, n) ==
  /\ m.v \in 0 .. n /\ m.s \in Nat
  /\ \A k \in 1 .. n : steps[k] <= m.s /\ (k < m.v => steps[k] < m.s)
  /\ IF m.v = 0 THEN m.s = 0 ELSE steps[m.v] = m.s

LEMMA MaxStepsIsMax ==
  ASSUME steps \in [Tasks -> Int]
  PROVE  IsMax(MaxSteps, Last)
<1> DEFINE R(g) == g = [ii \in 0 .. Last |->
                     IF ii = 0 THEN [v |-> 0, s |-> 0]
                     ELSE IF steps[ii] > g[ii - 1].s THEN [v |-> ii, s |-> steps[ii]]
                     ELSE g[ii - 1]]
           max == CHOOSE g : R(g)
<1>1. MaxSteps = max[Last]
  BY DEF MaxSteps
<1>2. Last \in Nat /\ Tasks = 1 .. Last
  BY CollatzAssumption DEF Last, Tasks
<1>3. Maxima(max, Last)
  <2>1. \A g : R(g) <=> Maxima(g, Last)
    BY Zenon DEF Maxima, best
  <2>2. \E g : R(g)
    <3>1. \E g : Maxima(g, Last)
      BY <1>2, MaximaExist
    <3> QED BY <2>1, <3>1, Zenon
  <2> HIDE DEF R
  <2>3. R(max)
    BY <2>2, Zenon
  <2> QED BY <2>1, <2>3
<1> DEFINE Bad == {k \in 0 .. Last : ~IsMax(max[k], k)}
<1> HIDE DEF max
<1>4. ASSUME Bad # {} PROVE FALSE
  <2> PICK k \in Bad : \A m \in Bad : ~(m < k)
    <3>1. Bad \in SUBSET Nat
      BY <1>2
    <3> QED BY <1>4, <3>1, Least
  <2>1. CASE k = 0
    <3>1. max[0] = [v |-> 0, s |-> 0]
      BY <1>2, <1>3 DEF Maxima
    <3> QED BY <2>1, <3>1 DEF IsMax
  <2>2. CASE k # 0
    <3>1. k - 1 \in 0 .. Last /\ k \in 1 .. Last /\ IsMax(max[k - 1], k - 1)
      BY <1>2, <2>2
    <3>2. max[k] = best(max[k - 1], k)
      BY <1>2, <1>3, <2>2, <3>1 DEF Maxima
    <3>3. steps[k] \in Int
      BY <1>2, <3>1
    <3>4. CASE steps[k] > max[k - 1].s
      <4>1. max[k].v = k /\ max[k].s = steps[k]
        BY <3>2, <3>4 DEF best
      <4>2. \A j \in 1 .. k : j \in 1 .. k - 1 \/ j = k
        BY <3>1
      <4>3. \A j \in 1 .. k - 1 : steps[j] \in Int /\ steps[j] <= max[k - 1].s
        BY <1>2, <3>1 DEF IsMax
      <4>4. max[k - 1].s \in Nat
        BY <3>1 DEF IsMax
      <4> QED BY <3>1, <3>3, <3>4, <4>1, <4>2, <4>3, <4>4 DEF IsMax
    <3>5. CASE ~(steps[k] > max[k - 1].s)
      <4>1. max[k] = max[k - 1]
        BY <3>2, <3>5 DEF best
      <4>2. \A j \in 1 .. k : j \in 1 .. k - 1 \/ j = k
        BY <3>1
      <4> QED BY <3>1, <3>3, <3>5, <4>1, <4>2 DEF IsMax
    <3> QED BY <3>4, <3>5
  <2> QED BY <2>1, <2>2
<1> QED BY <1>1, <1>2, <1>4

\* main prints after every thread has ended.
Printed == result # <<>> => result = MaxSteps /\ \A t \in Threads : at[t] = "exited"

-----------------------------------------------------------------------------
LEMMA NextInv ==
  ASSUME IInv, Printed, [Next]_vars
  PROVE  IInv' /\ Printed'
<1>1. CASE UNCHANGED vars
  <2>1. MaxSteps' = MaxSteps
    BY <1>1 DEF vars, MaxSteps, Last
  <2>2. \A u \in Threads : task(u)' = task(u) /\ Rounds(u)' = Rounds(u)
    BY <1>1 DEF vars, task, Rounds
  <2> QED
    BY <1>1, <2>1, <2>2
    DEF vars, heap, IInv, Printed, Control, DibsExclusive, Pointers, Alloc, HasNew, sequence, Sequences, StepsSet,
        StepsAreFinal, CountedAreDone, HasDibs
<1>2. CASE PrintMax
  <2>1. UNCHANGED <<ivecs, freed, vals, steps, dibs, locals>>
    BY <1>2 DEF PrintMax, heap
  <2>2. \A u \in Threads : task(u)' = task(u) /\ Rounds(u)' = Rounds(u)
    BY <2>1 DEF locals, task, Rounds
  <2>3. IInv'
    BY <2>1, <2>2
    DEF locals, IInv, Control, DibsExclusive, Pointers, Alloc, HasNew, sequence, Sequences, StepsSet,
        StepsAreFinal, CountedAreDone, HasDibs
  <2>4. MaxSteps' = MaxSteps
    BY <2>1 DEF MaxSteps, Last
  <2> QED BY <1>2, <2>1, <2>3, <2>4 DEF PrintMax, Printed, locals
<1>3. ASSUME NEW t \in Threads, Worker(t) PROVE IInv' /\ Printed'
  <2>1. xs \in [Threads -> Nat]
    BY <1>3, HeapGrows DEF IInv
  <2>2. IInv'
    BY <1>3, <2>1, ControlStep, DibsStep, PointersStep, SequencesStep, StepsStep, CountedStep
    DEF IInv
  <2>3. at[t] # "exited" /\ result' = result
    BY <1>3 DEF Worker, Start, TakeDibs, Skip, Load, Iterate, Free, Store, CountDone,
                DropDibs, EndScan
  <2> QED BY <2>2, <2>3 DEF Printed
<1> QED BY <1>1, <1>2, <1>3 DEF Next

LEMMA StepsInv == Init /\ [][Next]_vars => [](IInv /\ Printed)
<1>1. Init => IInv /\ Printed
  BY InitInv DEF Init, Printed
<1>2. IInv /\ Printed /\ [Next]_vars => (IInv /\ Printed)'
  BY NextInv
<1> QED BY <1>1, <1>2, PTL

LEMMA SpecInv == Spec => [](IInv /\ Printed)
BY StepsInv, PTL DEF Spec

-----------------------------------------------------------------------------
(***************************************************************************)
(* What follows from it                                                    *)
(***************************************************************************)
\* The program's variables keep their types; in particular no scan runs past the
\* last task and no computed sequence leaves the naturals.
THEOREM CollatzTypeCorrect == Spec => []TypeOK
<1>1. IInv => TypeOK
  <2> SUFFICES ASSUME IInv PROVE TypeOK
    OBVIOUS
  <2> QED BY DEF IInv, TypeOK, Control, Pointers, Alloc, StepsSet, Places
<1> QED BY <1>1, SpecInv, PTL

\* dibs, which are written in two short critical sections, exclude all other threads
\* from the task in between.
THEOREM DibsAreALock == Spec => []DibsExclusive
<1>1. IInv => DibsExclusive
  BY DEF IInv
<1> QED BY <1>1, SpecInv, PTL

LEMMA InvFreed == IInv => NoUseAfterFree
<1> SUFFICES ASSUME IInv PROVE NoUseAfterFree
  OBVIOUS
<1>1. ASSUME NEW t \in Threads, at[t] \in {"load", "iterate", "free", "count"}
      PROVE  vals[task(t)] \notin freed
  <2>1. HasDibs(t) /\ task(t) \in Tasks
    BY <1>1, TaskIsTask DEF IInv, Control, HasDibs
  <2>2. ASSUME vals[task(t)] \in freed PROVE FALSE
    <3> PICK u \in Threads : at[u] = "store" /\ task(u) = task(t)
      BY <2>1, <2>2 DEF IInv, Pointers
    <3> QED BY <1>1, <2>1 DEF IInv, DibsExclusive, HasDibs
  <2> QED BY <2>2
<1>2. \A t \in Threads : at[t] = "iterate" => xs[t] \notin freed
  BY <1>1 DEF IInv, Pointers
<1>3. (\A t \in Threads : at[t] = "exited") =>
        /\ \A k \in Tasks : vals[k] \notin freed
        /\ \A j, k \in Tasks : vals[j] = vals[k] => j = k
  BY DEF IInv, Pointers
<1> QED BY <1>1, <1>2, <1>3 DEF NoUseAfterFree

\* No thread reads, copies, counts or frees an ivec or a list that has been freed (free_ivec,
\* free_list), although each keeps the pointer it has loaded, and when all have ended main has
\* one of its own to free for every task.
THEOREM NothingFreedIsUsed == Spec => []NoUseAfterFree
BY InvFreed, SpecInv, PTL

LEMMA InvSequences == IInv => SequencesFollowCollatz
BY DEF IInv, Sequences, Good, SequencesFollowCollatz

\* However many times a sequence is copied and extended, and by whom, it is the
\* Collatz sequence of its task up to where it has got.
THEOREM SequencesAreCollatz == Spec => []SequencesFollowCollatz
BY InvSequences, SpecInv, PTL

\* steps is set once, to the length of a sequence that is never extended again.
THEOREM StepsStay == Spec => []StepsAreFinal
<1>1. IInv => StepsAreFinal
  BY DEF IInv, StepsSet
<1> QED BY <1>1, SpecInv, PTL

LEMMA InvExited == IInv => ExitMeansAllDone
<1> SUFFICES ASSUME IInv, NEW t \in Threads, at[t] = "exited", NEW k \in Tasks
             PROVE  steps[k] # -1
  BY DEF ExitMeansAllDone
<1>1. base[t] \in 0 .. data_top - 1
  BY DEF IInv, Control
<1>2. PICK j \in 1 .. data_top - 1 : TaskAt(base[t], j) = k
  BY <1>1, ScanVisitsAll
<1>3. Rounds(t) = data_top - 1 /\ done_count[t] = Rounds(t)
  BY DEF IInv, CountedAreDone, Rounds, Last
<1> QED BY <1>2, <1>3 DEF IInv, CountedAreDone

\* scan_and_iterate returns true only if every task is finished.
THEOREM ExitsWhenDone == Spec => []ExitMeansAllDone
BY InvExited, SpecInv, PTL

LEMMA InvPrinted == IInv /\ Printed => ResultIsMax
<1> SUFFICES ASSUME IInv, Printed, result # <<>>
             PROVE  /\ \A k \in Tasks : steps[k] <= result.s
                                        /\ (k < result.v => steps[k] < result.s)
                    /\ IF result.v = 0 THEN result.s = 0
                       ELSE steps[result.v] = result.s
  BY DEF ResultIsMax
<1>1. IsMax(result, Last)
  BY MaxStepsIsMax DEF IInv, StepsSet, Printed
<1> QED BY <1>1 DEF IsMax, Tasks

\* main prints the largest number of steps and the first number that takes them.
THEOREM PrintsTheMaximum == Spec => []ResultIsMax
BY InvPrinted, SpecInv, PTL

-----------------------------------------------------------------------------
(***************************************************************************)
(* The driver over lists.  A list spells out its sequence from the end.    *)
(***************************************************************************)
Lists == Seq(Nat) \ {<<>>}

\* The newest number is in front.
LEMMA ReversedMore ==
  ASSUME NEW list \in Seq(Nat), NEW d \in Nat
  PROVE  /\ Seqs!Reverse(list) \in Seq(Nat) /\ Len(Seqs!Reverse(list)) = Len(list)
         /\ Seqs!Reverse(<<d>> \o list) = Append(Seqs!Reverse(list), d)
<1> DEFINE n == Len(list)  more == <<d>> \o list
<1>1. /\ n \in Nat /\ more \in Seq(Nat) /\ Len(more) = n + 1 /\ more[1] = d
      /\ \A k \in 1 .. n : list[k] \in Nat /\ more[k + 1] = list[k]
  OBVIOUS
<1>2. Seqs!Reverse(list) = [k \in 1 .. n |-> list[n - k + 1]]
  BY DEF Seqs!Reverse
<1>3. Seqs!Reverse(list) \in Seq(Nat) /\ Len(Seqs!Reverse(list)) = n
  <2>1. \A k \in 1 .. n : n - k + 1 \in 1 .. n
    BY <1>1
  <2> QED BY <1>1, <1>2, <2>1
<1>4. Seqs!Reverse(more) = [k \in 1 .. n + 1 |-> more[n + 1 - k + 1]]
  BY <1>1 DEF Seqs!Reverse
<1>5. ASSUME NEW k \in 1 .. n + 1 PROVE Seqs!Reverse(more)[k] = Append(Seqs!Reverse(list), d)[k]
  <2>1. CASE k = n + 1
    BY <1>1, <1>3, <1>4, <2>1
  <2>2. CASE k # n + 1
    <3>1. k \in 1 .. n /\ n - k + 1 \in 1 .. n /\ n + 1 - k + 1 = (n - k + 1) + 1
      BY <1>1, <2>2
    <3>2. Seqs!Reverse(more)[k] = list[n - k + 1]
      BY <1>1, <1>4, <3>1
    <3>3. Append(Seqs!Reverse(list), d)[k] = Seqs!Reverse(list)[k]
      BY <1>3, <3>1
    <3> QED BY <1>2, <3>1, <3>2, <3>3
  <2> QED BY <2>1, <2>2
<1>6. Append(Seqs!Reverse(list), d) \in Seq(Nat) /\ Len(Append(Seqs!Reverse(list), d)) = n + 1
  BY <1>1, <1>3
<1>7. Seqs!Reverse(more) \in Seq(Nat) /\ Len(Seqs!Reverse(more)) = n + 1
  <2>1. \A k \in 1 .. n + 1 : n + 1 - k + 1 \in 1 .. n + 1
    BY <1>1
  <2>2. \A k \in 1 .. n + 1 : more[n + 1 - k + 1] \in Nat
    BY <1>1, <2>1
  <2>3. Seqs!Reverse(more) \in [1 .. n + 1 -> Nat]
    BY <1>4, <2>2
  <2>4. n + 1 \in Nat
    BY <1>1
  <2> HIDE DEF n, more
  <2> QED BY <2>3, <2>4
<1> HIDE DEF more
<1>8. Seqs!Reverse(more) = Append(Seqs!Reverse(list), d)
  BY <1>5, <1>6, <1>7, SeqEqual
<1> QED BY <1>3, <1>8 DEF more

LEMMA ReversedEnd ==
  ASSUME NEW list \in Lists
  PROVE  /\ Seqs!Reverse(list) \in Seq(Nat) /\ Len(Seqs!Reverse(list)) = Len(list)
         /\ Head(list) \in Nat /\ ivec_last(Seqs!Reverse(list)) = Head(list)
<1>1. list \in Seq(Nat) /\ Len(list) \in Nat \ {0} /\ Head(list) = list[1] /\ list[1] \in Nat
  BY DEF Lists
<1>2. 0 \in Nat
  OBVIOUS
<1>3. Seqs!Reverse(list) \in Seq(Nat) /\ Len(Seqs!Reverse(list)) = Len(list)
  BY <1>1, <1>2, ReversedMore, Zenon
<1>4. Seqs!Reverse(list)[Len(list)] = list[1]
  BY <1>1 DEF Seqs!Reverse
<1> QED BY <1>1, <1>3, <1>4 DEF ivec_last

\* The fold of copy_list, on the indexes from m on.
Copies(iter, list, m) ==
  iter = [s \in SUBSET (m .. Len(list)) |->
            IF s = {} THEN <<>> ELSE <<list[Seqs!Min(s)]>> \o iter[s \ {Seqs!Min(s)}]]

LEMMA MinFirst ==
  ASSUME NEW m \in Nat, NEW s, m \in s, \A x \in s : x \in Nat /\ m <= x
  PROVE  Seqs!Min(s) = m
<1> DEFINE IsMin(x) == x \in s /\ \A y \in s : x <= y
<1>1. IsMin(m)
  OBVIOUS
<1>2. Seqs!Min(s) = CHOOSE x : IsMin(x)
  BY Zenon DEF Seqs!Min
<1> HIDE DEF IsMin
<1>3. IsMin(Seqs!Min(s))
  BY <1>1, <1>2, Zenon
<1>4. Seqs!Min(s) \in s /\ Seqs!Min(s) <= m
  BY <1>1, <1>3 DEF IsMin
<1> DEFINE least == Seqs!Min(s)
<1>5. least \in Nat /\ m <= least /\ least <= m
  BY <1>4
<1> HIDE DEF least
<1>6. least = m
  BY <1>5
<1> QED BY <1>6 DEF least

LEMMA CopiesExist ==
  ASSUME NEW list \in Seq(Nat), NEW d \in 0 .. Len(list)
  PROVE  \E iter : Copies(iter, list, Len(list) + 1 - d)
<1> DEFINE n == Len(list)
           Bad == {k \in 0 .. n : ~ \E iter : Copies(iter, list, n + 1 - k)}
<1>1. n \in Nat
  OBVIOUS
<1> HIDE DEF n
<1> SUFFICES ASSUME Bad # {} PROVE FALSE
  BY DEF n
<1>2. PICK k \in Bad : \A j \in Bad : ~(j < k)
  <2>1. Bad \in SUBSET Nat
    BY <1>1
  <2> QED BY <2>1, Least
<1> DEFINE m == n + 1 - k
<1>3. m \in Nat \ {0} /\ m <= n + 1
  BY <1>1
<1>4. CASE k = 0
  <2>1. n + 1 .. n = {}
    BY <1>1
  <2>2. Copies([s \in SUBSET (n + 1 .. n) |-> <<>>], list, n + 1)
    BY <2>1 DEF Copies, n
  <2>3. n + 1 - 0 = n + 1
    BY <1>1
  <2> QED BY <1>4, <2>2, <2>3
<1>5. CASE k # 0
  <2>1. k - 1 \in 0 .. n /\ n + 1 - (k - 1) = m + 1
    BY <1>1, <1>2, <1>5
  <2>6. k - 1 \notin Bad
    <3>1. k \in Nat /\ k - 1 < k
      BY <1>1, <1>2
    <3> HIDE DEF Bad
    <3> QED BY <1>2, <3>1
  <2>2. PICK g : Copies(g, list, m + 1)
    BY <2>1, <2>6
  <2> HIDE DEF m
  <2> DEFINE h == [s \in SUBSET (m .. n) |->
                     IF m \in s THEN <<list[m]>> \o g[s \ {m}] ELSE g[s]]
  <2>3. ASSUME NEW s \in SUBSET (m .. n)
        PROVE  h[s] = IF s = {} THEN <<>> ELSE <<list[Seqs!Min(s)]>> \o h[s \ {Seqs!Min(s)}]
    <3>1. CASE m \in s
      <4>1. Seqs!Min(s) = m
        <5>1. m \in Nat /\ m \in s /\ \A x \in s : x \in Nat /\ m <= x
          BY <1>1, <1>3, <3>1
        <5> HIDE DEF h
        <5> QED BY <5>1, MinFirst
      <4>2. h[s \ {m}] = g[s \ {m}]
        OBVIOUS
      <4> QED BY <3>1, <4>1, <4>2
    <3>2. CASE m \notin s
      <4>1. s \in SUBSET (m + 1 .. n)
        BY <1>1, <1>3, <3>2
      <4>2. g[s] = IF s = {} THEN <<>> ELSE <<list[Seqs!Min(s)]>> \o g[s \ {Seqs!Min(s)}]
        BY <2>2, <4>1 DEF Copies, n
      <4>3. h[s] = g[s] /\ h[s \ {Seqs!Min(s)}] = g[s \ {Seqs!Min(s)}]
        BY <3>2
      <4> QED BY <4>2, <4>3
    <3> QED BY <3>1, <3>2
  <2>4. Copies(h, list, m)
    <3> HIDE DEF h
    <3>1. h = [s \in SUBSET (m .. n) |-> h[s]]
      BY DEF h
    <3> QED BY <2>3, <3>1 DEF Copies, n
  <2> QED BY <2>4 DEF m
<1> QED BY <1>4, <1>5

\* A copy of a list has the same numbers.
LEMMA CopyIsList ==
  ASSUME NEW list \in Seq(Nat)
  PROVE  copy_list(list) = list
<1> DEFINE n == Len(list)
           iter == CHOOSE f : Copies(f, list, 1)
<1>1. copy_list(list) = iter[DOMAIN list]
  <2>1. DOMAIN list = 1 .. Len(list)
    OBVIOUS
  <2> QED BY <2>1, Zenon DEF copy_list, cons, Copies, Seqs!FoldRight, Seqs!MapThenFoldSet
<1>2. n \in Nat /\ DOMAIN list = 1 .. n
  OBVIOUS
<1>3. Copies(iter, list, 1)
  <2>1. n \in 0 .. n /\ n + 1 - n = 1
    OBVIOUS
  <2>2. \E f : Copies(f, list, 1)
    BY <2>1, CopiesExist
  <2> QED BY <2>2, Zenon
<1> HIDE DEF iter
<1> DEFINE Bad == {k \in 0 .. n : iter[n + 1 - k .. n] # SubSeq(list, n + 1 - k, n)}
<1>4. ASSUME Bad # {} PROVE FALSE
  <2>1. PICK k \in Bad : \A j \in Bad : ~(j < k)
    <3>1. Bad \in SUBSET Nat
      BY <1>2
    <3> QED BY <1>4, <3>1, Least
  <2> DEFINE m == n + 1 - k
  <2>2. k \in 0 .. n /\ m \in Nat \ {0} /\ m <= n + 1 /\ m .. n \in SUBSET (1 .. n)
    BY <1>2
  <2>3. iter[m .. n] = IF m .. n = {} THEN <<>>
                       ELSE <<list[Seqs!Min(m .. n)]>> \o iter[(m .. n) \ {Seqs!Min(m .. n)}]
    BY <1>3, <2>2 DEF Copies
  <2>4. CASE k = 0
    <3>1. m = n + 1 /\ m .. n = {}
      BY <1>2, <2>4
    <3>2. SubSeq(list, m, n) = <<>>
      BY <1>2, <3>1
    <3> QED BY <2>1, <2>3, <3>1, <3>2
  <2>5. CASE k # 0
    <3>1. m \in 1 .. n /\ k - 1 \in 0 .. n /\ n + 1 - (k - 1) = m + 1
      BY <1>2, <2>2, <2>5
    <3>2. k - 1 \notin Bad
      <4>1. k \in Nat /\ k - 1 < k
        BY <1>2, <2>2
      <4> HIDE DEF Bad
      <4> QED BY <2>1, <4>1
    <3>3. iter[m + 1 .. n] = SubSeq(list, m + 1, n)
      BY <3>1, <3>2
    <3>4. Seqs!Min(m .. n) = m
      <4> DEFINE s == m .. n
      <4>1. m \in Nat /\ m \in s /\ \A x \in s : x \in Nat /\ m <= x
        BY <1>2, <3>1
      <4> HIDE DEF s, m
      <4>2. Seqs!Min(s) = m
        BY <4>1, MinFirst
      <4> QED BY <4>2 DEF s
    <3>5. m .. n # {} /\ (m .. n) \ {m} = m + 1 .. n
      <4>1. m \in Nat /\ n \in Nat /\ m <= n
        BY <1>2, <3>1
      <4> HIDE DEF m, n
      <4>2. m \in m .. n
        BY <4>1
      <4>3. \A x : x \in (m .. n) \ {m} <=> x \in m + 1 .. n
        BY <4>1
      <4> QED BY <4>2, <4>3, Zenon
    <3>6. iter[m .. n] = <<list[m]>> \o SubSeq(list, m + 1, n)
      BY <2>3, <3>3, <3>4, <3>5
    <3>7. <<list[m]>> \o SubSeq(list, m + 1, n) = SubSeq(list, m, n)
      <4> HIDE DEF m
      <4>1. m \in 1 .. Len(list) /\ Len(list) \in m .. Len(list) /\ n = Len(list)
        BY <1>2, <3>1
      <4> HIDE DEF m, n
      <4>2. SubSeq(list, m, Len(list)) = <<list[m]>> \o SubSeq(list, m + 1, Len(list))
        BY <4>1, SubSeqRecursiveFirst
      <4> QED BY <4>1, <4>2
    <3> QED BY <2>1, <3>6, <3>7
  <2> QED BY <2>4, <2>5
<1>5. n + 1 - n = 1
  BY <1>2
<1>9. n \notin Bad
  <2> HIDE DEF Bad
  <2> QED BY <1>4
<1>8. n \in 0 .. n
  BY <1>2
<1>6. iter[1 .. n] = SubSeq(list, 1, n)
  BY <1>5, <1>8, <1>9
<1>7. SubSeq(list, 1, n) = list
  BY SubSeqFull
<1> QED BY <1>1, <1>2, <1>6, <1>7

\* The local function of iterate_list, on 0 .. n.
GrownList(g, v, n) == g = [jj \in 0 .. n |-> IF jj = 0 THEN v ELSE grow_list(g[jj - 1])]

LEMMA GrownListExists ==
  ASSUME NEW v, NEW n \in Nat
  PROVE  \E g : GrownList(g, v, n)
<1> DEFINE Bad == {k \in Nat : ~ \E g : GrownList(g, v, k)}
<1> SUFFICES ASSUME Bad # {} PROVE FALSE
  OBVIOUS
<1> PICK k \in Bad : \A m \in Bad : ~(m < k)
  BY Least
<1>1. CASE k = 0
  <2>1. GrownList([jj \in 0 .. 0 |-> v], v, 0)
    BY DEF GrownList
  <2> QED BY <1>1, <2>1
<1>2. CASE k # 0
  <2>1. k - 1 \in Nat /\ k - 1 \notin Bad
    BY <1>2
  <2> PICK g : GrownList(g, v, k - 1)
    BY <2>1
  <2> DEFINE h == [jj \in 0 .. k |-> IF jj = k THEN grow_list(g[k - 1]) ELSE g[jj]]
  <2>2. \A jj \in 0 .. k : h[jj] = IF jj = 0 THEN v ELSE grow_list(h[jj - 1])
    BY <1>2 DEF GrownList
  <2>3. GrownList(h, v, k)
    BY <2>2 DEF GrownList
  <2> QED BY <2>3
<1> QED BY <1>1, <1>2

LEMMA IterateListIsGrown ==
  ASSUME NEW v
  PROVE  \E g : GrownList(g, v, CHUNK) /\ iterate_list(v) = g[CHUNK]
<1> DEFINE grown == CHOOSE g : GrownList(g, v, CHUNK)
<1>1. iterate_list(v) = grown[CHUNK]
  BY Zenon DEF iterate_list, GrownList
<1>2. \E g : GrownList(g, v, CHUNK)
  BY GrownListExists, CollatzAssumption
<1>3. GrownList(grown, v, CHUNK)
  BY <1>2, Zenon
<1> HIDE DEF grown
<1> QED BY <1>1, <1>3

\* A round on a list is a round on its sequence.
LEMMA ListGrows ==
  ASSUME NEW w \in Lists
  PROVE  grow_list(w) \in Lists /\ grow(Seqs!Reverse(w)) = Seqs!Reverse(grow_list(w))
<1> DEFINE d == collatz_step(Head(w))
<1>1. /\ Head(w) \in Nat /\ ivec_last(Seqs!Reverse(w)) = Head(w)
      /\ w \in Seq(Nat)
  BY ReversedEnd DEF Lists
<1>2. d \in Nat
  BY <1>1 DEF collatz_step
<1>3. Seqs!Reverse(<<d>> \o w) = Append(Seqs!Reverse(w), d)
  <2> HIDE DEF d
  <2> QED BY <1>1, <1>2, ReversedMore
<1>4. <<d>> \o w \in Lists
  <2> HIDE DEF d
  <2>1. <<d>> \o w \in Seq(Nat) /\ Len(<<d>> \o w) = 1 + Len(w) /\ Len(w) \in Nat
    BY <1>1, <1>2
  <2>2. Len(<<d>> \o w) # 0
    BY <2>1
  <2> QED BY <2>1, <2>2 DEF Lists
<1> QED BY <1>1, <1>3, <1>4 DEF grow, grow_list, cons

\* iterate on a list is iterate on its sequence.
LEMMA IterateListIsIterate ==
  ASSUME NEW list \in Lists
  PROVE  /\ iterate_list(list) \in Lists
         /\ Seqs!Reverse(iterate_list(list)) = iterate(Seqs!Reverse(list))
<1>1. PICK gl : GrownList(gl, list, CHUNK) /\ iterate_list(list) = gl[CHUNK]
  BY IterateListIsGrown
<1>2. PICK g : Grown(g, Seqs!Reverse(list), CHUNK) /\ iterate(Seqs!Reverse(list)) = g[CHUNK]
  BY IterateIsGrown
<1> DEFINE Same(k) == gl[k] \in Lists /\ g[k] = Seqs!Reverse(gl[k])
           Bad == {k \in 0 .. CHUNK : ~ Same(k)}
<1>3. ASSUME Bad # {} PROVE FALSE
  <2> PICK k \in Bad : \A m \in Bad : ~(m < k)
    <3>1. Bad \in SUBSET Nat
      BY CollatzAssumption
    <3> QED BY <1>3, <3>1, Least
  <2>1. CASE k = 0
    <3>1. gl[0] = list /\ g[0] = Seqs!Reverse(list)
      BY <1>1, <1>2, CollatzAssumption DEF GrownList, Grown
    <3> QED BY <2>1, <3>1
  <2>2. CASE k # 0
    <3>1. k - 1 \in 0 .. CHUNK /\ k - 1 < k
      BY <2>2, CollatzAssumption
    <3>2. Same(k - 1)
      BY <3>1
    <3>3. gl[k] = grow_list(gl[k - 1]) /\ g[k] = grow(g[k - 1])
      BY <1>1, <1>2, <2>2, CollatzAssumption DEF GrownList, Grown
    <3>4. Same(k)
      BY <3>2, <3>3, ListGrows
    <3> QED BY <3>4
  <2> QED BY <2>1, <2>2
<1>4. CHUNK \in 0 .. CHUNK
  BY CollatzAssumption
<1>5. Same(CHUNK)
  BY <1>3, <1>4
<1> QED BY <1>1, <1>2, <1>5

-----------------------------------------------------------------------------
(***************************************************************************)
(* The driver over lists takes the steps of the driver over vectors.       *)
(***************************************************************************)
Spelled(list) == Seqs!Reverse(list)

\* What the lists spell out is what the ivecs of Collatz hold.
ListsAgree ==
  /\ driver \in {"ivec", "list"}
  /\ driver = "list" =>
       /\ lists \in Seq(Lists) /\ Len(lists) = Len(ivecs)
       /\ \A p \in 1 .. Len(lists) : ivecs[p] = Spelled(lists[p])

LEMMA SpelledList ==
  ASSUME NEW list \in Seq(Nat)
  PROVE  /\ Spelled(list) \in Seq(Nat) /\ Len(Spelled(list)) = Len(list)
         /\ list \in Lists => ivec_last(Spelled(list)) = Head(list)
<1>1. 0 \in Nat
  OBVIOUS
<1> QED BY <1>1, ReversedMore, ReversedEnd, Zenon DEF Spelled

LEMMA ListInit == LInit => Init /\ ListsAgree
<1> SUFFICES ASSUME LInit PROVE ListsAgree
  BY DEF LInit
<1>1. CASE driver = "ivec"
  BY <1>1 DEF ListsAgree
<1>2. CASE driver = "list"
  <2>1. lists = [k \in Tasks |-> cons(k, <<>>)] /\ ivecs = [k \in Tasks |-> <<k>>]
    BY <1>2 DEF LInit, Init
  <2>2. <<>> \in Seq(Nat) /\ Spelled(<<>>) = <<>>
    <3>1. <<>> \in Seq(Nat) /\ Len(<<>>) = 0
      OBVIOUS
    <3>2. Spelled(<<>>) \in Seq(Nat) /\ Len(Spelled(<<>>)) = 0
      BY <3>1, SpelledList
    <3> HIDE DEF Spelled
    <3> QED BY <3>1, <3>2
  <2>3. ASSUME NEW k \in Tasks PROVE cons(k, <<>>) \in Lists /\ Spelled(cons(k, <<>>)) = <<k>>
    <3>1. k \in Nat
      BY CollatzAssumption DEF Tasks, Last
    <3>2. Spelled(cons(k, <<>>)) = Append(Spelled(<<>>), k)
      BY <2>2, <3>1, ReversedMore DEF Spelled, cons
    <3>3. cons(k, <<>>) = <<k>> /\ Append(<<>>, k) = <<k>> /\ <<k>> \in Lists
      BY <3>1 DEF cons, Lists
    <3> QED BY <2>2, <3>2, <3>3
  <2>4. Last \in Nat /\ Tasks = 1 .. Last
    BY CollatzAssumption DEF Last, Tasks
  <2>5. lists \in [1 .. Last -> Lists] /\ \A k \in 1 .. Last : ivecs[k] = Spelled(lists[k])
    BY <2>1, <2>3, <2>4
  <2>6. lists \in Seq(Lists) /\ Len(lists) = Last /\ Len(ivecs) = Last
    BY <2>1, <2>4, <2>5
  <2> QED BY <1>2, <2>5, <2>6 DEF ListsAgree
<1> QED BY <1>1, <1>2 DEF LInit

\* A thread that has dibs, or takes them, is at one of the tasks.
LEMMA DibsTask ==
  ASSUME Control, NEW t \in Threads, HasDibs(t)
  PROVE  task(t) \in Tasks
BY TaskIsTask DEF Control

\* What is read of the list that a task points to.
LEMMA TaskList ==
  ASSUME IInv, ListsAgree, driver = "list", NEW k \in Tasks
  PROVE  /\ vals[k] \in 1 .. Len(lists) /\ lists[vals[k]] \in Lists
         /\ sequence(k) = Spelled(lists[vals[k]])
         /\ ivec_last(sequence(k)) = Head(lists[vals[k]])
         /\ Len(sequence(k)) = count_list(lists[vals[k]])
<1>1. vals[k] \in 1 .. Len(lists) /\ lists \in Seq(Lists)
  BY DEF IInv, Pointers, Alloc, ListsAgree
<1>l. PICK list : list = lists[vals[k]]
  OBVIOUS
<1>2. list \in Lists /\ list \in Seq(Nat)
  BY <1>1, <1>l DEF Lists
<1>3. sequence(k) = Spelled(list)
  BY <1>1, <1>l DEF ListsAgree, sequence
<1>4. Len(Spelled(list)) = Len(list) /\ ivec_last(Spelled(list)) = Head(list)
  BY <1>2, SpelledList
<1> QED BY <1>1, <1>2, <1>3, <1>4, <1>l DEF count_list

LEMMA ListStep ==
  ASSUME IInv, ListsAgree, driver = "list", NEW t \in Threads, ListWorker(t), driver' = driver
  PROVE  Worker(t) /\ ListsAgree'
<1>1. lists \in Seq(Lists) /\ Len(lists) \in Nat /\ Len(lists) = Len(ivecs) /\ ivecs \in Seq(Seq(Nat))
  BY DEF ListsAgree, IInv, Pointers
<1>2. HasDibs(t) => task(t) \in Tasks
  BY DibsTask DEF IInv
<1>3. ASSUME UNCHANGED <<ivecs, lists>> PROVE ListsAgree'
  BY <1>3 DEF ListsAgree
<1>4. CASE ListLoad(t)
  <2>1. task(t) \in Tasks
    BY <1>2, <1>4 DEF ListLoad, HasDibs
  <2>2. ivec_last(sequence(task(t))) = Head(lists[vals[task(t)]])
    BY <2>1, TaskList
  <2>3. xs'[t] = vals[task(t)]
    BY <1>4 DEF ListLoad, IInv, Pointers
  <2>4. ivec_last(ivecs[xs'[t]]) = Head(lists[xs'[t]])
    BY <2>2, <2>3 DEF sequence
  <2>5. Load(t)
    BY <1>4, <2>4 DEF ListLoad, Load, Goto
  <2>6. UNCHANGED <<ivecs, lists>>
    BY <1>4 DEF ListLoad, heap
  <2> QED BY <1>3, <2>5, <2>6 DEF Worker
<1>5. CASE ListIterate(t)
  <2>1. task(t) \in Tasks /\ xs[t] = vals[task(t)]
    BY <1>2, <1>5 DEF ListIterate, HasDibs, IInv, Pointers
  <2>w. PICK w : w = lists[xs[t]]
    OBVIOUS
  <2>2. w \in Lists /\ w \in Seq(Nat) /\ ivecs[xs[t]] = Spelled(w)
    <3>1. lists[vals[task(t)]] \in Lists /\ sequence(task(t)) = Spelled(lists[vals[task(t)]])
      BY <2>1, TaskList
    <3> QED BY <2>1, <2>w, <3>1 DEF Lists, sequence
  <2>n. PICK list : list = iterate_list(w)
    OBVIOUS
  <2>3. list \in Lists /\ Spelled(list) = iterate(Spelled(w))
    BY <2>2, <2>n, IterateListIsIterate DEF Spelled
  <2>4. lists' = Append(lists, list)
    <3>1. copy_list(w) = w
      BY <2>2, CopyIsList
    <3> QED BY <1>5, <2>n, <2>w, <3>1 DEF ListIterate
  <2>5. /\ lists' \in Seq(Lists) /\ Len(lists') = Len(lists) + 1 /\ lists'[Len(lists')] = list
        /\ \A p \in 1 .. Len(lists) : lists'[p] = lists[p]
    BY <1>1, <2>3, <2>4
  <2>6. ivecs' = Append(ivecs, Spelled(list))
    <3>1. Seqs!Last(lists') = list
      BY <2>5 DEF Seqs!Last
    <3> QED BY <1>5, <3>1 DEF ListIterate, Spelled
  <2>7. /\ Len(ivecs') = Len(ivecs) + 1 /\ ivecs'[Len(ivecs')] = Spelled(list)
        /\ \A p \in 1 .. Len(ivecs) : ivecs'[p] = ivecs[p]
    <3>1. Spelled(list) \in Seq(Nat)
      BY <2>3, SpelledList DEF Lists
    <3> HIDE DEF Spelled
    <3> QED BY <1>1, <2>6, <3>1
  <2>8. Iterate(t)
    <3>1. ivecs' = Append(ivecs, iterate(ivecs[xs[t]]))
      BY <2>2, <2>3, <2>6
    <3>2. Len(lists') = Len(ivecs')
      BY <1>1, <2>5, <2>7
    <3> QED BY <1>5, <3>1, <3>2 DEF ListIterate, Iterate
  <2>9. ListsAgree'
    <3>1. ASSUME NEW p \in 1 .. Len(lists') PROVE ivecs'[p] = Spelled(lists'[p])
      <4>1. CASE p = Len(lists')
        BY <1>1, <2>5, <2>7, <4>1
      <4>2. CASE p # Len(lists')
        <5>1. p \in 1 .. Len(lists) /\ p \in 1 .. Len(ivecs)
          BY <1>1, <2>5, <4>2
        <5>2. ivecs[p] = Spelled(lists[p])
          BY <5>1 DEF ListsAgree
        <5> QED BY <2>5, <2>7, <5>1, <5>2
      <4> QED BY <4>1, <4>2
    <3> QED BY <1>1, <2>5, <2>7, <3>1 DEF ListsAgree
  <2> QED BY <2>8, <2>9 DEF Worker
<1>6. CASE ListCountDone(t)
  <2>1. task(t) \in Tasks
    BY <1>2, <1>6 DEF ListCountDone, HasDibs
  <2>2. Len(sequence(task(t))) = count_list(lists[vals[task(t)]])
    BY <2>1, TaskList
  <2>3. CountDone(t)
    BY <1>6, <2>2 DEF ListCountDone, CountDone
  <2>4. UNCHANGED <<ivecs, lists>>
    BY <1>6 DEF ListCountDone, heap
  <2> QED BY <1>3, <2>3, <2>4 DEF Worker
<1>7. CASE /\ Start(t) \/ TakeDibs(t) \/ Skip(t) \/ Free(t) \/ Store(t) \/ DropDibs(t) \/ EndScan(t)
           /\ UNCHANGED lists
  <2>1. UNCHANGED <<ivecs, lists>>
    BY <1>7 DEF Start, TakeDibs, Skip, Free, Store, DropDibs, EndScan, heap
  <2> QED BY <1>3, <1>7, <2>1 DEF Worker
<1> QED BY <1>4, <1>5, <1>6, <1>7 DEF ListWorker

LEMMA ListNext ==
  ASSUME IInv, ListsAgree, [LNext]_lvars
  PROVE  [Next]_vars /\ ListsAgree'
<1>1. CASE UNCHANGED lvars
  BY <1>1 DEF lvars, vars, heap, ListsAgree
<1>2. CASE LPrintMax
  BY <1>2 DEF LPrintMax, PrintMax, Next, locals, heap, ListsAgree
<1>3. ASSUME NEW t \in Threads, Thread(t) PROVE Worker(t) /\ ListsAgree'
  <2>1. CASE driver = "ivec"
    <3>1. Worker(t) /\ driver' = "ivec"
      BY <1>3, <2>1 DEF Thread
    <3> QED BY <3>1 DEF ListsAgree
  <2>2. CASE driver = "list"
    <3>1. ListWorker(t) /\ driver' = driver
      BY <1>3, <2>2 DEF Thread
    <3> QED BY <2>2, <3>1, ListStep
  <2> QED BY <2>1, <2>2 DEF ListsAgree
<1> QED BY <1>1, <1>2, <1>3 DEF LNext, Next

\* The driver over lists (list_main.c) makes no step that the driver over vectors
\* (ivec_main.c) could not make on the sequences that the lists spell from their ends.
THEOREM ListsImplementVectors == LSpec => Init /\ [][Next]_vars
<1>1. LInit => Init /\ IInv /\ Printed /\ ListsAgree
  BY ListInit, InitInv DEF Init, Printed
<1>2. IInv /\ Printed /\ ListsAgree /\ [LNext]_lvars
        => [Next]_vars /\ (IInv /\ Printed /\ ListsAgree)'
  BY ListNext, NextInv
<1> QED BY <1>1, <1>2, PTL DEF LSpec

\* So every safety property of scan_and_iterate and main above is one of both drivers.
THEOREM BothDriversAreSafe ==
  LSpec => /\ []DibsExclusive /\ []NoUseAfterFree /\ []SequencesFollowCollatz
           /\ []StepsAreFinal /\ []ExitMeansAllDone /\ []ResultIsMax
<1>1. IInv => DibsExclusive /\ StepsAreFinal
  BY DEF IInv, StepsSet
<1> QED
  BY <1>1, ListsImplementVectors, StepsInv, InvFreed, InvSequences, InvExited, InvPrinted, PTL

=============================================================================
