------------------------------ MODULE Collatz ------------------------------
(***************************************************************************)
(* The Collatz driver of hw11 (ivec_main.c): threads scan the tasks        *)
(* 1 .. data_top-1 in an order that starts at a random place, take dibs on *)
(* a task under its mutex or skip it, and add up to CHUNK numbers to the   *)
(* task's sequence.  What they do between taking and dropping dibs is not  *)
(* under the mutex, so each access to the task is an action of its own.    *)
(* A thread ends after a scan in which it found every task finished.       *)
(***************************************************************************)
EXTENDS Integers, Sequences, FiniteSets

CONSTANTS
  Threads,      \* THREADS of them, 4 in the source
  data_top,     \* the argument TOP
  CHUNK         \* numbers computed before dibs are dropped, 50 in iterate

ASSUME CollatzAssumption ==
  /\ IsFiniteSet(Threads)
  /\ data_top \in Nat \ {0}
  /\ CHUNK \in Nat \ {0}

Last  == data_top - 1        \* the number of tasks, and the last of them
Tasks == 1 .. Last

VARIABLES
  ivecs,               \* every ivec that was made and what it holds; a pointer is a place here
  freed,               \* the pointers that were given to free_ivec
  vals, steps, dibs,   \* the fields of each num_task; vals is a pointer
  at,                  \* where each thread is
  base, i0, done_count, xs,   \* the locals of scan_and_iterate; xs is a pointer
  result               \* what main prints, <<>> before

locals == <<at, base, i0, done_count, xs>>
heap   == <<ivecs, freed>>
vars   == <<heap, vals, steps, dibs, at, base, i0, done_count, xs, result>>

collatz_step(n) == IF n % 2 = 0 THEN n \div 2 ELSE 3 * n + 1

ivec_last(v) == v[Len(v)]

\* Push the numbers that follow the last of v, CHUNK of them or until 1.
grow(v)    == IF ivec_last(v) = 1 THEN v ELSE Append(v, collatz_step(ivec_last(v)))
iterate(v) == LET grown[jj \in 0 .. CHUNK] == IF jj = 0 THEN v ELSE grow(grown[jj - 1])
              IN  grown[CHUNK]

\* The task that a thread looks at in round i of a scan that starts at b.
TaskAt(b, i) == 1 + ((b + i) % Last)
task(t)      == TaskAt(base[t], i0[t])

\* What the ivec holds that a task points to.
sequence(k) == ivecs[vals[k]]

Goto(t, label) == at' = [at EXCEPT ![t] = label]

Init ==
  /\ ivecs = [k \in Tasks |-> <<k>>]
  /\ freed = {}
  /\ vals = [k \in Tasks |-> k]
  /\ steps = [k \in Tasks |-> -1]
  /\ dibs = [k \in Tasks |-> 0]
  /\ at = [t \in Threads |-> "start"]
  /\ base = [t \in Threads |-> 0]
  /\ i0 = [t \in Threads |-> 1]
  /\ done_count = [t \in Threads |-> 0]
  /\ xs = [t \in Threads |-> 0]
  /\ result = <<>>

(***************************************************************************)
(* scan_and_iterate and the worker's loop around it                        *)
(***************************************************************************)
\* A variant for the checks: done_count is not reset.
StartKeepCount(t) ==
  /\ at[t] = "start"
  /\ \E b \in 0 .. data_top - 1 : base' = [base EXCEPT ![t] = b]
  /\ i0' = [i0 EXCEPT ![t] = 1]
  /\ Goto(t, "lock")
  /\ UNCHANGED <<heap, vals, steps, dibs, done_count, xs, result>>

Start(t) ==                          \* base = random() % data_top
  /\ at[t] = "start"
  /\ \E b \in 0 .. data_top - 1 : base' = [base EXCEPT ![t] = b]
  /\ i0' = [i0 EXCEPT ![t] = 1]
  /\ done_count' = [done_count EXCEPT ![t] = 0]
  /\ Goto(t, "lock")
  /\ UNCHANGED <<heap, vals, steps, dibs, xs, result>>

\* A variant for the checks: take dibs that somebody has.
TakeAnyDibs(t) ==
  /\ at[t] = "lock" /\ i0[t] < data_top
  /\ dibs' = [dibs EXCEPT ![task(t)] = 1]
  /\ Goto(t, "load")
  /\ UNCHANGED <<heap, vals, steps, base, i0, done_count, xs, result>>

TakeDibs(t) ==
  /\ at[t] = "lock" /\ i0[t] < data_top
  /\ dibs[task(t)] = 0
  /\ dibs' = [dibs EXCEPT ![task(t)] = 1]
  /\ Goto(t, "load")
  /\ UNCHANGED <<heap, vals, steps, base, i0, done_count, xs, result>>

Skip(t) ==
  /\ at[t] = "lock" /\ i0[t] < data_top
  /\ dibs[task(t)] # 0
  /\ i0' = [i0 EXCEPT ![t] = @ + 1]
  /\ UNCHANGED <<heap, vals, steps, dibs, at, base, done_count, xs, result>>

Load(t) ==                           \* xs = tasks[ii]->vals; vv = ivec_last(xs)
  /\ at[t] = "load"
  /\ xs' = [xs EXCEPT ![t] = vals[task(t)]]
  /\ Goto(t, IF ivec_last(ivecs[xs'[t]]) > 1 THEN "iterate" ELSE "count")
  /\ UNCHANGED <<heap, vals, steps, dibs, base, i0, done_count, result>>

Iterate(t) ==                        \* xs = ivec_copy(xs); xs = iterate(xs)
  /\ at[t] = "iterate"
  /\ ivecs' = Append(ivecs, iterate(ivecs[xs[t]]))
  /\ xs' = [xs EXCEPT ![t] = Len(ivecs')]
  /\ Goto(t, "free")
  /\ UNCHANGED <<freed, vals, steps, dibs, base, i0, done_count, result>>

Free(t) ==                           \* free_ivec(tasks[ii]->vals)
  /\ at[t] = "free"
  /\ freed' = freed \cup {vals[task(t)]}
  /\ Goto(t, "store")
  /\ UNCHANGED <<ivecs, vals, steps, dibs, base, i0, done_count, xs, result>>

Store(t) ==                          \* tasks[ii]->vals = xs
  /\ at[t] = "store"
  /\ vals' = [vals EXCEPT ![task(t)] = xs[t]]
  /\ Goto(t, "unlock")
  /\ UNCHANGED <<heap, steps, dibs, base, i0, done_count, xs, result>>

\* A variant for the checks: count the numbers, not the steps between them.
CountNumbers(t) ==
  /\ at[t] = "count"
  /\ steps' = IF steps[task(t)] = -1
              THEN [steps EXCEPT ![task(t)] = Len(sequence(task(t)))]
              ELSE steps
  /\ done_count' = [done_count EXCEPT ![t] = @ + 1]
  /\ Goto(t, "unlock")
  /\ UNCHANGED <<heap, vals, dibs, base, i0, xs, result>>

CountDone(t) ==                      \* the sequence has reached 1
  /\ at[t] = "count"
  /\ steps' = IF steps[task(t)] = -1
              THEN [steps EXCEPT ![task(t)] = Len(sequence(task(t))) - 1]
              ELSE steps
  /\ done_count' = [done_count EXCEPT ![t] = @ + 1]
  /\ Goto(t, "unlock")
  /\ UNCHANGED <<heap, vals, dibs, base, i0, xs, result>>

\* A variant for the checks: keep dibs.
KeepDibs(t) ==
  /\ at[t] = "unlock"
  /\ i0' = [i0 EXCEPT ![t] = @ + 1]
  /\ xs' = [xs EXCEPT ![t] = 0]
  /\ Goto(t, "lock")
  /\ UNCHANGED <<heap, vals, steps, dibs, base, done_count, result>>

DropDibs(t) ==                       \* and xs goes out of scope
  /\ at[t] = "unlock"
  /\ dibs' = [dibs EXCEPT ![task(t)] = 0]
  /\ i0' = [i0 EXCEPT ![t] = @ + 1]
  /\ xs' = [xs EXCEPT ![t] = 0]
  /\ Goto(t, "lock")
  /\ UNCHANGED <<heap, vals, steps, base, done_count, result>>

EndScan(t) ==
  /\ at[t] = "lock" /\ i0[t] = data_top
  /\ Goto(t, IF done_count[t] = Last THEN "exited" ELSE "start")
  /\ UNCHANGED <<heap, vals, steps, dibs, base, i0, done_count, xs, result>>

Worker(t) ==
  \/ Start(t) \/ TakeDibs(t) \/ Skip(t) \/ Load(t) \/ Iterate(t) \/ Free(t)
  \/ Store(t) \/ CountDone(t) \/ DropDibs(t) \/ EndScan(t)

(***************************************************************************)
(* main, once it has joined the threads: the first task with the most      *)
(* steps, or 0 if none has any.                                            *)
(***************************************************************************)
\* A variant for the checks: leave out the last task.
MaxStepsButLast == LET max[ii \in 0 .. Last] ==
                         IF ii = 0 THEN [v |-> 0, s |-> 0]
                         ELSE IF steps[ii] > max[ii - 1].s
                              THEN [v |-> ii, s |-> steps[ii]]
                         ELSE max[ii - 1]
                   IN  max[Last - 1]

MaxSteps == LET max[ii \in 0 .. Last] ==
                  IF ii = 0 THEN [v |-> 0, s |-> 0]
                  ELSE IF steps[ii] > max[ii - 1].s THEN [v |-> ii, s |-> steps[ii]]
                  ELSE max[ii - 1]
            IN  max[Last]

PrintMax ==
  /\ result = <<>>
  /\ \A t \in Threads : at[t] = "exited"
  /\ result' = MaxSteps
  /\ UNCHANGED <<heap, vals, steps, dibs, locals>>

Next == PrintMax \/ \E t \in Threads : Worker(t)

\* Threads are scheduled; a mutex that is free is given to a thread that wants it.
Spec == /\ Init /\ [][Next]_vars
        /\ WF_vars(PrintMax)
        /\ \A t \in Threads : WF_vars(Worker(t))

-----------------------------------------------------------------------------
HasDibs(t) == at[t] \in {"load", "iterate", "free", "store", "count", "unlock"}

TypeOK ==
  /\ ivecs \in Seq(Seq(Nat))
  /\ freed \subseteq 1 .. Len(ivecs)
  /\ vals \in [Tasks -> 1 .. Len(ivecs)]
  /\ steps \in [Tasks -> Int]
  /\ dibs \in [Tasks -> {0, 1}]
  /\ at \in [Threads -> {"start", "lock", "load", "iterate", "free", "store",
                         "count", "unlock", "exited"}]
  /\ base \in [Threads -> 0 .. data_top - 1]
  /\ i0 \in [Threads -> 1 .. data_top]
  /\ done_count \in [Threads -> Nat]
  /\ xs \in [Threads -> 0 .. Len(ivecs)]

\* dibs, which is read and written in two short critical sections only, is a lock
\* on vals and steps for all the accesses between them: at most one thread is
\* between taking and dropping dibs on a task, and dibs is set exactly then.
DibsExclusive ==
  /\ \A t, u \in Threads : HasDibs(t) /\ HasDibs(u) /\ task(t) = task(u) => t = u
  /\ \A k \in Tasks : dibs[k] = 1 <=> \E t \in Threads : HasDibs(t) /\ task(t) = k

\* A pointer is never one that was freed when a thread reads the last number of what it
\* points to, copies that, counts it, or frees it.  When the threads have ended, main, which
\* frees what each task points to, frees nothing twice.
NoUseAfterFree ==
  /\ \A t \in Threads : at[t] \in {"load", "free", "count"} => vals[task(t)] \notin freed
  /\ \A t \in Threads : at[t] = "iterate" => xs[t] \notin freed
  /\ (\A t \in Threads : at[t] = "exited") =>
       /\ \A k \in Tasks : vals[k] \notin freed
       /\ \A j, k \in Tasks : vals[j] = vals[k] => j = k

\* Whatever threads extended it in whatever order, a task's sequence starts with
\* its number, follows collatz_step, and does not go on after 1.
SequencesFollowCollatz ==
  \A k \in Tasks :
    /\ sequence(k)[1] = k
    /\ \A j \in 1 .. Len(sequence(k)) - 1 :
         sequence(k)[j] # 1 /\ sequence(k)[j + 1] = collatz_step(sequence(k)[j])

\* A task's steps, once set, are the length of a finished sequence.
StepsAreFinal ==
  \A k \in Tasks :
    steps[k] # -1 => ivec_last(sequence(k)) = 1 /\ steps[k] = Len(sequence(k)) - 1

\* A thread ends only when every task is finished, although it looks at the tasks
\* one by one, skips some, and others change meanwhile.
ExitMeansAllDone ==
  \A t \in Threads : at[t] = "exited" => \A k \in Tasks : steps[k] # -1

\* What main prints is the largest number of steps and the first number that takes
\* that many.
ResultIsMax ==
  result # <<>> =>
    /\ \A k \in Tasks : steps[k] <= result.s /\ (k < result.v => steps[k] < result.s)
    /\ IF result.v = 0 THEN result.s = 0 ELSE steps[result.v] = result.s

\* Threads that keep each other from holding dibs never keep a task from being
\* finished: a skipped task is one that another thread is extending.
EveryTaskFinishes == \A k \in Tasks : <>(steps[k] # -1)

=============================================================================
