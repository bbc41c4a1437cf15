--------------------------- MODULE FactorThreads ---------------------------
(***************************************************************************)
(* The factoring program of hw08 (main.c, factor.c): main starts NumThreads *)
(* threads, submits Count jobs on iqueue, closes it, and prints what it    *)
(* takes from oqueue until it takes a null job; then it wakes the threads  *)
(* and joins them.  Both queues are ThreadQueue, one instance each; a job  *)
(* is a pointer that is passed on.                                         *)
(***************************************************************************)
EXTENDS Factoring, FiniteSets

CONSTANTS
  NumThreads, Count,   \* the arguments
  Texts                \* and what the argument start may be, by digits

ASSUME FactorThreadsAssumption ==
  /\ NumThreads \in Nat \ {0}
  /\ Count \in Nat
  /\ \A text \in Texts : text \in Seq(0 .. 9) /\ atoh(text) > 0

Main    == 0
Workers == 1 .. NumThreads
Jobs    == 1 .. Count      \* the factor_jobs main allocates, by address

VARIABLES
  ihead, itail, inode, idone, iasleep, iret, ififo,    \* iqueue
  ohead, otail, onode, odone, oasleep, oret, ofifo,    \* oqueue
  at,         \* where each thread is
  ii,         \* the counter of the loop main is in
  start,      \* the number of the first job
  factors,    \* the field of each job, <<>> for a null pointer
  printed,    \* what main has printed of the jobs, in order; it frees them
  oks         \* how many of them multiply to their number

ivars == <<ihead, itail, inode, idone, iasleep, iret, ififo>>
ovars == <<ohead, otail, onode, odone, oasleep, oret, ofifo>>
results == <<factors, printed, oks>>
vars  == <<ihead, itail, inode, idone, iasleep, iret, ififo,
           ohead, otail, onode, odone, oasleep, oret, ofifo,
           at, ii, start, factors, printed, oks>>

IQ == INSTANCE ThreadQueue WITH
        Threads <- Workers, Msg <- Jobs, MaxNodes <- Count,
        head <- ihead, tail <- itail, node <- inode, done <- idone,
        asleep <- iasleep, ret <- iret, fifo <- ififo

\* Each thread ends by putting a null job on oqueue.
OQ == INSTANCE ThreadQueue WITH
        Threads <- {Main}, Msg <- Jobs \cup {0}, MaxNodes <- Count + NumThreads,
        head <- ohead, tail <- otail, node <- onode, done <- odone,
        asleep <- oasleep, ret <- oret, fifo <- ofifo

Goto(p, label) == at' = [at EXCEPT ![p] = label]

Init ==
  /\ IQ!Init /\ OQ!Init
  /\ at = [p \in Workers \cup {Main} |-> IF p = Main THEN "create" ELSE "unborn"]
  /\ ii = 0
  /\ start \in {atoh(text) : text \in Texts}
  /\ factors = [job \in Jobs |-> <<>>]
  /\ printed = <<>> /\ oks = 0

(***************************************************************************)
(* main                                                                    *)
(***************************************************************************)
CreateThread ==
  /\ at[Main] = "create"
  /\ ii < NumThreads
  /\ Goto(ii + 1, "get")
  /\ ii' = ii + 1
  /\ UNCHANGED <<ivars, ovars, start, results>>

AllCreated ==
  /\ at[Main] = "create"
  /\ ii = NumThreads
  /\ Goto(Main, "submit")
  /\ ii' = 0
  /\ UNCHANGED <<ivars, ovars, start, results>>

submit_job ==
  /\ at[Main] = "submit"
  /\ ii < Count
  /\ IQ!queue_put(ii + 1)
  /\ ii' = ii + 1
  /\ UNCHANGED <<ovars, at, start, results>>

set_i_done ==
  /\ at[Main] = "submit"
  /\ ii = Count
  /\ IQ!set_doneq
  /\ Goto(Main, "results")
  /\ UNCHANGED <<ovars, ii, start, results>>

number(job) == start + job - 1

\* Print and check a job, then free it.
print_result(job) ==
  /\ printed' = Append(printed, [job |-> job, text |-> print_int128(number(job)),
                                 factors |-> factors[job]])
  /\ oks' = IF product(factors[job]) = number(job) THEN oks + 1 ELSE oks
  /\ factors' = [factors EXCEPT ![job] = <<>>]

get_result ==                       \* NULL ends the loop
  /\ at[Main] = "results"
  /\ \/ OQ!GetSleep(Main) /\ UNCHANGED <<at, results>>
     \/ /\ OQ!GetNull(Main) \/ OQ!GetNode(Main)
        /\ \/ oret'[Main] = 0 /\ Goto(Main, "wake") /\ UNCHANGED results
           \/ oret'[Main] # 0 /\ print_result(oret'[Main]) /\ UNCHANGED at
  /\ UNCHANGED <<ivars, ii, start>>

wake_ithread ==
  /\ at[Main] = "wake"
  /\ IQ!wake_up
  /\ Goto(Main, "join")
  /\ ii' = 0
  /\ UNCHANGED <<ovars, start, results>>

JoinThread ==
  /\ at[Main] = "join"
  /\ ii < NumThreads
  /\ at[ii + 1] = "ended"
  /\ Goto(ii + 1, "joined")
  /\ ii' = ii + 1
  /\ UNCHANGED <<ivars, ovars, start, results>>

Exit ==                             \* pthread_exit: factor_cleanup is never reached
  /\ at[Main] = "join"
  /\ ii = NumThreads
  /\ Goto(Main, "exited")
  /\ UNCHANGED <<ivars, ovars, ii, start, results>>

MainStep ==
  \/ CreateThread \/ AllCreated \/ submit_job \/ set_i_done \/ get_result
  \/ wake_ithread \/ JoinThread \/ Exit

(***************************************************************************)
(* run_jobs2                                                               *)
(***************************************************************************)
GetJob(w) ==
  /\ at[w] = "get"
  /\ \/ IQ!GetSleep(w) /\ UNCHANGED at
     \/ IQ!GetNull(w) /\ Goto(w, "put")
     \/ IQ!GetNode(w) /\ Goto(w, "factor")
  /\ UNCHANGED <<ovars, ii, start, results>>

Factor(w) ==                        \* job->factors = factor(job->number)
  /\ at[w] = "factor"
  /\ factors' = [factors EXCEPT ![iret[w]] = factor(number(iret[w]))]
  /\ Goto(w, "put")
  /\ UNCHANGED <<ivars, ovars, ii, start, printed, oks>>

PutResult(w) ==                     \* the factored job, or after the loop NULL
  /\ at[w] = "put"
  /\ OQ!queue_put(iret[w])
  /\ Goto(w, IF iret[w] = 0 THEN "set_o_done" ELSE "get")
  /\ UNCHANGED <<ivars, ii, start, results>>

set_o_done(w) ==
  /\ at[w] = "set_o_done"
  /\ OQ!set_doneq
  /\ Goto(w, "wake_othread")
  /\ UNCHANGED <<ivars, ii, start, results>>

wake_othread(w) ==
  /\ at[w] = "wake_othread"
  /\ OQ!wake_up
  /\ Goto(w, "ended")
  /\ UNCHANGED <<ivars, ii, start, results>>

WorkerStep(w) == GetJob(w) \/ Factor(w) \/ PutResult(w) \/ set_o_done(w) \/ wake_othread(w)

SpuriousWakeUp ==
  \/ (\E w \in Workers : IQ!SpuriousWakeUp(w)) /\ UNCHANGED <<ovars, at, ii, start, results>>
  \/ OQ!SpuriousWakeUp(Main) /\ UNCHANGED <<ivars, at, ii, start, results>>

Next == MainStep \/ SpuriousWakeUp \/ \E w \in Workers : WorkerStep(w)

\* Every thread that can run is scheduled; wake-ups that nobody asked for may
\* never come.
Spec == /\ Init /\ [][Next]_vars
        /\ WF_vars(MainStep)
        /\ \A w \in Workers : WF_vars(WorkerStep(w))

-----------------------------------------------------------------------------
\* How often a job is somewhere: on a queue, in the hands of a thread between taking it
\* and putting it on oqueue, or printed (and freed).
Places(job) ==
    Cardinality({a \in DOMAIN inode : inode[a].data = job})
  + Cardinality({a \in DOMAIN onode : onode[a].data = job})
  + Cardinality({w \in Workers : at[w] \in {"factor", "put"} /\ iret[w] = job})
  + Cardinality({k \in DOMAIN printed : printed[k].job = job})

Submitted == IF at[Main] = "create" THEN {}
             ELSE IF at[Main] = "submit" THEN 1 .. ii ELSE Jobs

\* Every job that was submitted is in exactly one place: threads never share one,
\* none is dropped by a queue, and main frees it once.
JobsConserved == \A job \in Jobs : Places(job) = IF job \in Submitted THEN 1 ELSE 0

\* Main leaves its loop at the first null job although each thread puts one on oqueue:
\* what it has not printed when it exits is at most one job of each other thread, never
\* one that no thread had taken.
MissesFewerThanThreads ==
  at[Main] = "exited" =>
    Count - Len(printed) < NumThreads /\ DOMAIN inode = {}

\* ys can be the factors of a job: they are its number's prime factors if these fit the
\* vector, and whenever they multiply to the number.
Right(ys, job) ==
  Fits(number(job)) \/ product(ys) = number(job) => IsFactorization(ys, number(job))

\* Results are complete before main can read them: whatever is on oqueue has been given
\* its prime factors by the thread that took it, unless one of them does not fit; main's
\* check of the product notices each that does not, and counts the others; and what it
\* prints reads back as the number.
ResultsFactored ==
  /\ \A a \in DOMAIN onode : LET job == onode[a].data IN job # 0 => Right(factors[job], job)
  /\ \A k \in DOMAIN printed :
       LET result == printed[k] IN
       Right(result.factors, result.job) /\ atoh(result.text) = number(result.job)
  /\ oks = Cardinality({k \in DOMAIN printed :
                          IsFactorization(printed[k].factors, number(printed[k].job))})

\* Once main has left its loop, every thread ends and is joined: wake_ithread
\* reaches the threads that went to sleep before set_i_done.
JoinedAfterLoop == at[Main] = "wake" ~> at[Main] = "exited"

\* Both linked lists, with their sleepers and their done flags, implement the
\* closable queue: jobs leave in the order they came, and a thread is told that
\* there is none only when the queue is empty and done.
QueuesAreFifo == IQ!FifoSpec /\ OQ!FifoSpec

\* main.c:98: "We should have joined all spawned threads."
AllThreadsJoined == <>(\A w \in Workers : at[w] = "joined")

=============================================================================
