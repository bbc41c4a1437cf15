-------------------------- MODULE FactorProcesses --------------------------
(***************************************************************************)
(* The factoring program of hw09 (main.c, factor.c): main forks NumProcs   *)
(* workers and a printer, submits Count numbers on iqueue, waits for the   *)
(* printer, sends every worker the job -1 and reaps it.  Workers move jobs *)
(* from iqueue to oqueue, the printer takes Count results from oqueue.     *)
(* Both queues are SharedQueue, one instance each.                         *)
(***************************************************************************)
EXTENDS QueueConstants, Integers, FiniteSets, Sequences

CONSTANTS
  NumProcs, \* procs
  Start,    \* the first number; one that is not positive would end a worker, or keep it for ever
  Count

ASSUME FactorProcessesAssumption ==
  /\ NumProcs \in Nat \ {0}
  /\ Start \in Nat \ {0} /\ Count \in Nat
  /\ QUEUE_SIZE \in Nat \ {0}
  /\ UINT_SPAN \in Nat
  /\ QUEUE_SIZE < UINT_SPAN
  /\ UINT_SPAN % QUEUE_SIZE = 0

Main    == 0
Workers == 1 .. NumProcs
Printer == NumProcs + 1
Processes == {Main, Printer} \cup Workers

\* The numbers that main submits.
Numbers == Start .. Start + Count - 1

\* Words of a job.  The number n stands for itself in "number" and for the list of
\* its factors in "factors", where 0 is the count of factors make_job leaves.
Word == {-1, 0} \cup Numbers

VARIABLES
  ijobs, iqii, iqjj, iempty, ifull, ipc, iidx, ibuf, itodo,   \* iqueue
  ojobs, oqii, oqjj, oempty, ofull, opc, oidx, obuf, otodo,   \* oqueue
  at,        \* where each process is outside the queues' code
  ii,        \* the counter of the loop main is in
  printed    \* what the printer has printed, in order

ivars == <<ijobs, iqii, iqjj, iempty, ifull, ipc, iidx, ibuf, itodo>>
ovars == <<ojobs, oqii, oqjj, oempty, ofull, opc, oidx, obuf, otodo>>
fvars == <<ijobs, iqii, iqjj, iempty, ifull, ipc, iidx, ibuf, itodo,
           ojobs, oqii, oqjj, oempty, ofull, opc, oidx, obuf, otodo,
           at, ii, printed>>

\* Of a job on iqueue only the number carries information.
I == INSTANCE SharedQueue WITH
       Putters <- {Main}, Getters <- Workers,
       Parts <- {"number"}, Value <- Word, Zero <- 0,
       jobs <- ijobs, qii <- iqii, qjj <- iqjj, empty <- iempty, full <- ifull,
       pc <- ipc, idx <- iidx, buf <- ibuf, todo <- itodo

O == INSTANCE SharedQueue WITH
       Putters <- Workers, Getters <- {Printer},
       Parts <- {"number", "factors"}, Value <- Word, Zero <- 0,
       jobs <- ojobs, qii <- oqii, qjj <- oqjj, empty <- oempty, full <- ofull,
       pc <- opc, idx <- oidx, buf <- obuf, todo <- otodo

make_job(n) == [number |-> n]

factor(job) == [number |-> job.number, factors |-> job.number]

GoOn(p, label) == at' = [at EXCEPT ![p] = label]

FInit ==
  /\ I!Init /\ O!Init
  /\ at = [p \in Processes |-> IF p = Main THEN "fork" ELSE "unborn"]
  /\ ii = 0
  /\ printed = <<>>

(***************************************************************************)
(* main: factor_init, the submitting loop, factor_wait_done and            *)
(* factor_cleanup.                                                         *)
(***************************************************************************)
ForkWorker ==
  /\ at[Main] = "fork"
  /\ ii < NumProcs
  /\ GoOn(ii + 1, "loop")
  /\ ii' = ii + 1
  /\ UNCHANGED <<ivars, ovars, printed>>

ForkPrinter ==
  /\ at[Main] = "fork"
  /\ ii = NumProcs
  /\ at' = [at EXCEPT ![Main] = "submit", ![Printer] = "loop"]
  /\ ii' = 0
  /\ UNCHANGED <<ivars, ovars, printed>>

SubmitJob ==
  /\ at[Main] = "submit"
  /\ ii < Count
  /\ I!PutWait(Main, make_job(Start + ii))
  /\ ii' = ii + 1
  /\ UNCHANGED <<ovars, at, printed>>

MainPut ==                              \* the rest of submit_job's queue_put
  /\ I!PutStep(Main)
  /\ UNCHANGED <<ovars, at, ii, printed>>

\* A variant for the checks: do not wait for the printer.
FactorDoNotWait ==
  /\ at[Main] = "submit" /\ ii = Count /\ ipc[Main] = "out"
  /\ GoOn(Main, "cleanup")
  /\ ii' = 0
  /\ UNCHANGED <<ivars, ovars, printed>>

FactorWaitDone ==                       \* waitpid(printer)
  /\ at[Main] = "submit"
  /\ ii = Count
  /\ ipc[Main] = "out"
  /\ at[Printer] = "exited"
  /\ at' = [at EXCEPT ![Main] = "cleanup", ![Printer] = "reaped"]
  /\ ii' = 0
  /\ UNCHANGED <<ivars, ovars, printed>>

\* A variant for the checks: one -1 for all the workers.
SubmitOneDone ==
  /\ at[Main] = "cleanup" /\ ii < NumProcs
  /\ I!PutWait(Main, make_job(-1))
  /\ ii' = NumProcs
  /\ UNCHANGED <<ovars, at, printed>>

SubmitDone ==                           \* the job each worker ends on
  /\ at[Main] = "cleanup"
  /\ ii < NumProcs
  /\ I!PutWait(Main, make_job(-1))
  /\ ii' = ii + 1
  /\ UNCHANGED <<ovars, at, printed>>

AllDonesSubmitted ==
  /\ at[Main] = "cleanup"
  /\ ii = NumProcs
  /\ ipc[Main] = "out"
  /\ GoOn(Main, "reap")
  /\ ii' = 0
  /\ UNCHANGED <<ivars, ovars, printed>>

ReapWorker ==                           \* waitpid(workers[i])
  /\ at[Main] = "reap"
  /\ ii < NumProcs
  /\ at[ii + 1] = "exited"
  /\ GoOn(ii + 1, "reaped")
  /\ ii' = ii + 1
  /\ UNCHANGED <<ivars, ovars, printed>>

\* The printer has been reaped already, so the second waitpid for it returns at
\* once; free_queue asserts that each queue was emptied.
FreeQueues ==
  /\ at[Main] = "reap"
  /\ ii = NumProcs
  /\ GoOn(Main, IF iqii = iqjj /\ oqii = oqjj THEN "done" ELSE "aborted")
  /\ UNCHANGED <<ivars, ovars, ii, printed>>

MainStep ==
  \/ ForkWorker \/ ForkPrinter \/ SubmitJob \/ MainPut \/ FactorWaitDone
  \/ SubmitDone \/ AllDonesSubmitted \/ ReapWorker \/ FreeQueues

(***************************************************************************)
(* work_off_jobs                                                           *)
(***************************************************************************)
WorkerGet(w) ==                         \* enter queue_get(iqueue)
  /\ at[w] = "loop"
  /\ opc[w] = "out"
  /\ I!GetWait(w)
  /\ UNCHANGED <<ovars, at, ii, printed>>

WorkerInGet(w) ==
  /\ I!GetFetchAdd(w) \/ I!GetPost(w) \/ I!GetLoad(w, "number")
  /\ UNCHANGED <<ovars, at, ii, printed>>

WorkerGot(w) ==                         \* a negative number ends the worker
  /\ I!GetReturn(w)
  /\ GoOn(w, IF ibuf[w].number < 0 THEN "exited" ELSE "put")
  /\ UNCHANGED <<ovars, ii, printed>>

WorkerPut(w) ==                         \* factor, enter queue_put(oqueue)
  /\ at[w] = "put"
  /\ O!PutWait(w, factor(ibuf[w]))
  /\ GoOn(w, "loop")
  /\ UNCHANGED <<ivars, ii, printed>>

WorkerInPut(w) ==
  /\ O!PutStep(w)
  /\ UNCHANGED <<ivars, at, ii, printed>>

WorkerStep(w) ==
  WorkerGet(w) \/ WorkerInGet(w) \/ WorkerGot(w) \/ WorkerPut(w) \/ WorkerInPut(w)

(***************************************************************************)
(* print_results                                                           *)
(***************************************************************************)
PrinterGet ==
  /\ at[Printer] = "loop"
  /\ Len(printed) < Count
  /\ O!GetWait(Printer)
  /\ UNCHANGED <<ivars, at, ii, printed>>

PrinterInGet ==
  /\ \/ O!GetFetchAdd(Printer) \/ O!GetPost(Printer)
     \/ \E w \in {"number", "factors"} : O!GetLoad(Printer, w)
  /\ UNCHANGED <<ivars, at, ii, printed>>

PrinterGot ==
  /\ O!GetReturn(Printer)
  /\ printed' = Append(printed, obuf[Printer])
  /\ UNCHANGED <<ivars, at, ii>>

\* A variant for the checks: stop one result early.
PrinterExitEarly ==
  /\ at[Printer] = "loop"
  /\ Len(printed) + 1 >= Count
  /\ opc[Printer] = "out"
  /\ GoOn(Printer, "exited")
  /\ UNCHANGED <<ivars, ovars, ii, printed>>

PrinterExit ==
  /\ at[Printer] = "loop"
  /\ Len(printed) = Count
  /\ opc[Printer] = "out"
  /\ GoOn(Printer, "exited")
  /\ UNCHANGED <<ivars, ovars, ii, printed>>

PrinterStep == PrinterGet \/ PrinterInGet \/ PrinterGot \/ PrinterExit

FNext == MainStep \/ PrinterStep \/ \E w \in Workers : WorkerStep(w)

\* The kernel keeps scheduling every process that can run.
FSpec == /\ FInit /\ [][FNext]_fvars
         /\ WF_fvars(MainStep) /\ WF_fvars(PrinterStep)
         /\ \A w \in Workers : WF_fvars(WorkerStep(w))

-----------------------------------------------------------------------------
Gone(p) == at[p] \in {"exited", "reaped"}

\* The job -1 is a message on the same queue as the work, and factor_cleanup only
\* works if no worker takes it early: a worker leaves only when the printer has
\* printed its last result, although workers and printer never synchronise.
WorkersOutliveThePrinter ==
  \A w \in Workers : Gone(w) => Gone(Printer)

\* Whatever slots the workers read, each one that they factor holds a number that
\* main submitted: never the zero job of a slot that was not written, on which
\* factor's loop over "xx % 2 == 0" does not end.
OnlySubmittedFactored ==
  \A w \in Workers : at[w] = "put" => ibuf[w].number \in Numbers

\* free_queue's assertions hold when factor_cleanup reaches them.
QueuesEmptiedAtCleanup == at[Main] # "aborted"

\* The program ends, and it has reaped every process it forked (test.t:54).
EndsWithoutStrays ==
  <>(at[Main] = "done" /\ \A p \in Processes \ {Main} : at[p] = "reaped")

\* test.t:40 expects the factorization of a number in the submitted range in the
\* output of four workers: when the program ends, every number was printed with
\* its factors.
EveryNumberPrinted ==
  at[Main] = "done" =>
    \A n \in Numbers :
      \E k \in DOMAIN printed : printed[k] = factor(make_job(n))

=============================================================================
