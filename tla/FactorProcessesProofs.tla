------------------------ MODULE FactorProcessesProofs ------------------------
(***************************************************************************)
(* For every number of workers, every number of jobs and every ring size:  *)
(* no worker leaves before the printer, every number that is factored was  *)
(* submitted, and both queues are empty when main frees them.              *)
(*                                                                         *)
(* And of a queue with one putter, as the one main fills, for every number *)
(* of getters, every ring size and every batch that fits into the ring:    *)
(* what queue_get returns is what queue_put was given for the same ticket, *)
(* whole, and no ticket is returned twice.                                 *)
(***************************************************************************)
EXTENDS FactorProcesses, OneBatch, SharedQueueProofs, SequenceTheorems

\* What is proved of the queue, for each of the two.
IP == INSTANCE SharedQueueProofs WITH
        Putters <- {Main}, Getters <- Workers,
        Parts <- {"number"}, Value <- Word, Zero <- 0,
        jobs <- ijobs, qii <- iqii, qjj <- iqjj, empty <- iempty, full <- ifull,
        pc <- ipc, idx <- iidx, buf <- ibuf, todo <- itodo

OP == INSTANCE SharedQueueProofs WITH
        Putters <- Workers, Getters <- {Printer},
        Parts <- {"number", "factors"}, Value <- Word, Zero <- 0,
        jobs <- ojobs, qii <- oqii, qjj <- oqjj, empty <- oempty, full <- ofull,
        pc <- opc, idx <- oidx, buf <- obuf, todo <- otodo

-----------------------------------------------------------------------------
(***************************************************************************)
(* The inductive invariant.                                                *)
(***************************************************************************)
MainLabels    == {"fork", "submit", "cleanup", "reap", "done", "aborted"}
WorkerLabels  == {"unborn", "loop", "put", "exited", "reaped"}
PrinterLabels == {"unborn", "loop", "exited", "reaped"}
InPut == {"out", "put_claim", "put_copy"}
InGet == {"out", "get_claim", "get_post", "get_copy"}

\* Main has waited for the printer.
Late == at[Main] \in {"cleanup", "reap", "done", "aborted"}

FTypeOK ==
  /\ at \in [Processes -> MainLabels \cup WorkerLabels]
  /\ ii \in Nat /\ printed \in Seq(O!Job)

\* Where main is in its own code, and in queue_put.
MainPhase ==
  /\ at[Main] \in MainLabels /\ ipc[Main] \in InPut
  /\ ipc[Main] # "out" => at[Main] \in {"submit", "cleanup"}
  /\ ii <= IF at[Main] = "submit" THEN Count ELSE NumProcs
  /\ at[Main] = "fork" => at[Printer] = "unborn" /\ \A w \in Workers : w > ii => at[w] = "unborn"
  /\ Late => at[Printer] = "reaped"
  /\ at[Main] \in {"reap", "done", "aborted"} => \A w \in 1 .. ii : at[w] = "reaped"

\* Where a worker is, and in which of the two queues.
WorkerPhase ==
  \A w \in Workers :
    /\ at[w] \in WorkerLabels /\ ipc[w] \in InGet /\ opc[w] \in InPut
    /\ ipc[w] # "out" => at[w] = "loop" /\ opc[w] = "out"
    /\ opc[w] # "out" => at[w] = "loop"

PrinterPhase ==
  /\ at[Printer] \in PrinterLabels /\ opc[Printer] \in InGet
  /\ opc[Printer] # "out" => at[Printer] = "loop"
  /\ Len(printed) <= Count
  /\ Gone(Printer) => Len(printed) = Count

\* Before the printer has been waited for there is no -1 anywhere.
NoEarlyDone ==
  ~Late =>
    /\ \A s \in 0 .. QUEUE_SIZE - 1 : ijobs[s]["number"] >= 0
    /\ \A p \in {Main} \cup Workers : ibuf[p]["number"] >= 0
    /\ \A w \in Workers : ~Gone(w)

\* How many jobs main has begun to put on iqueue.
Begun == CASE at[Main] = "fork"    -> 0
           [] at[Main] = "submit"  -> ii
           [] at[Main] = "cleanup" -> Count + ii
           [] OTHER                -> Count + NumProcs

\* The workers that have taken a job from iqueue and not yet put a result on oqueue,
\* or have taken the last.
Holding == {w \in Workers : ipc[w] # "out" \/ at[w] = "put" \/ opc[w] # "out" \/ Gone(w)}

One(condition) == IF condition THEN 1 ELSE 0

\* Each of them is somewhere.
Conserved ==
  Begun = One(ipc[Main] # "out") + ifull + Cardinality(Holding)
          + ofull + One(opc[Printer] # "out") + Len(printed)

\* How many jobs are on iqueue as a whole or have been.
Submitted == Begun - One(ipc[Main] # "out")

\* A slot is not zero any more once it is announced; nor is what main puts, or a worker
\* has read.
Written ==
  /\ \A s \in 0 .. QUEUE_SIZE - 1 : s < Submitted => ijobs[s]["number"] # 0
  /\ ipc[Main] # "out" => ibuf[Main]["number"] # 0
  /\ ipc[Main] = "put_copy" /\ itodo[Main] = {} => ijobs[IP!Slot(iidx[Main])]["number"] # 0
  /\ \A w \in Workers :
       /\ ipc[w] = "get_copy" /\ itodo[w] = {} => ibuf[w]["number"] # 0
       /\ at[w] = "put" => ibuf[w]["number"] > 0

\* Until the ring has been filled once, tickets count from zero and getters are behind.
FirstRound ==
  Submitted < QUEUE_SIZE =>
    /\ iqii = Submitted + One(ipc[Main] = "put_copy")
    /\ ipc[Main] = "put_copy" => iidx[Main] = Submitted
    /\ iqii = iqjj + IP!Outstanding
    /\ \A w \in Workers : ipc[w] \in {"get_post", "get_copy"} => iidx[w] < iqjj

FInv == /\ IP!IInv /\ OP!IInv
        /\ FTypeOK /\ MainPhase /\ WorkerPhase /\ PrinterPhase
        /\ NoEarlyDone /\ Conserved /\ Written /\ FirstRound

-----------------------------------------------------------------------------
(***************************************************************************)
(* The two queues.                                                         *)
(***************************************************************************)
LEMMA QueueAssumptions == IP!SharedQueueAssumption /\ OP!SharedQueueAssumption
<1>1. IsFiniteSet({Main}) /\ IsFiniteSet({Printer})
  BY FS_Singleton
<1>2. IsFiniteSet(Workers)
  BY FS_Interval, FactorProcessesAssumption DEF Workers
<1>3. 0 \in Word
  BY DEF Word
<1>4. /\ IP!IsFiniteSet({Main}) /\ IP!IsFiniteSet(Workers)
      /\ OP!IsFiniteSet({Printer}) /\ OP!IsFiniteSet(Workers)
  BY <1>1, <1>2 DEF IsFiniteSet, IP!IsFiniteSet, OP!IsFiniteSet
<1> QED
  BY <1>3, <1>4, FactorProcessesAssumption
  DEF IP!SharedQueueAssumption, OP!SharedQueueAssumption

\* Main, printer and workers are different processes.
LEMMA ProcsApart ==
  /\ Main \notin Workers /\ Printer \notin Workers /\ Main # Printer
  /\ NumProcs \in Nat \ {0} /\ Start \in Nat \ {0} /\ Count \in Nat /\ QUEUE_SIZE \in Nat \ {0}
  /\ UINT_SPAN \in Nat /\ QUEUE_SIZE < UINT_SPAN
BY FactorProcessesAssumption DEF Main, Printer, Workers

\* The types of the two queues' variables, spelled out.
LEMMA QueueTypes ==
  ASSUME IP!IInv, OP!IInv
  PROVE  /\ ijobs \in [0 .. QUEUE_SIZE - 1 -> [{"number"} -> Word]]
         /\ iqii \in 0 .. UINT_SPAN - 1 /\ iqjj \in 0 .. UINT_SPAN - 1
         /\ ifull \in Nat /\ ofull \in Nat
         /\ DOMAIN ipc = {Main} \cup Workers /\ DOMAIN opc = Workers \cup {Printer}
         /\ iidx \in [{Main} \cup Workers -> 0 .. UINT_SPAN - 1]
         /\ ibuf \in [{Main} \cup Workers -> [{"number"} -> Word]]
         /\ itodo \in [{Main} \cup Workers -> SUBSET {"number"}]
         /\ obuf \in [Workers \cup {Printer} -> O!Job]
BY ProcsApart
DEF IP!IInv, IP!TypeOK, IP!Procs, IP!Job, IP!Slots, IP!UInt,
    OP!IInv, OP!TypeOK, OP!Procs, OP!Job, O!Job

\* What main and the workers put are jobs.
LEMMA JobTypes ==
  /\ \A n \in Word : make_job(n) \in [{"number"} -> Word] /\ make_job(n)["number"] = n
  /\ \A job \in [{"number"} -> Word] : factor(job) \in [{"number", "factors"} -> Word]
BY DEF make_job, factor

\* The queues' own steps, and the labels in them.
LEMMA ISteps ==
  /\ \A msg \in [{"number"} -> Word] : I!PutWait(Main, msg) => IP!Next
  /\ I!PutStep(Main) => IP!Next
  /\ \A w \in Workers : I!GetWait(w) \/ I!GetStep(w) => IP!Next
BY DEF IP!Next, IP!Job,
       I!PutWait, I!PutStep, I!PutFetchAdd, I!PutStore, I!PutPost,
       I!GetWait, I!GetStep, I!GetFetchAdd, I!GetPost, I!GetLoad, I!GetReturn,
       I!Goto, I!Inc, I!Slot,
       IP!PutWait, IP!PutStep, IP!PutFetchAdd, IP!PutStore, IP!PutPost,
       IP!GetWait, IP!GetStep, IP!GetFetchAdd, IP!GetPost, IP!GetLoad, IP!GetReturn,
       IP!Goto, IP!Inc, IP!Slot

LEMMA OSteps ==
  /\ \A w \in Workers : /\ \A msg \in [{"number", "factors"} -> Word] : O!PutWait(w, msg) => OP!Next
                        /\ O!PutStep(w) => OP!Next
  /\ O!GetWait(Printer) \/ O!GetStep(Printer) => OP!Next
BY DEF OP!Next, OP!Job,
       O!PutWait, O!PutStep, O!PutFetchAdd, O!PutStore, O!PutPost,
       O!GetWait, O!GetStep, O!GetFetchAdd, O!GetPost, O!GetLoad, O!GetReturn,
       O!Goto, O!Inc, O!Slot,
       OP!PutWait, OP!PutStep, OP!PutFetchAdd, OP!PutStore, OP!PutPost,
       OP!GetWait, OP!GetStep, OP!GetFetchAdd, OP!GetPost, OP!GetLoad, OP!GetReturn,
       OP!Goto, OP!Inc, OP!Slot

\* What is proved of the queue in general holds of both, from the start ...
LEMMA QueuesInit == FInit => IP!IInv /\ OP!IInv
<1> SUFFICES ASSUME FInit PROVE IP!IInv /\ OP!IInv
  OBVIOUS
<1>1. IP!Init
  BY DEF FInit, I!Init, IP!Init, I!Slots, IP!Slots, I!NoJob, IP!NoJob, I!Procs, IP!Procs
<1>2. OP!Init
  BY DEF FInit, O!Init, OP!Init, O!Slots, OP!Slots, O!NoJob, OP!NoJob, O!Procs, OP!Procs
<1> QED BY <1>1, <1>2, QueueAssumptions, IP!InitInv, OP!InitInv

\* ... and after every step of the program.
LEMMA QueuesStep == FInv /\ [FNext]_fvars => IP!IInv' /\ OP!IInv'
<1> SUFFICES ASSUME FInv, [FNext]_fvars PROVE IP!IInv' /\ OP!IInv'
  OBVIOUS
<1>1. IP!IInv /\ OP!IInv
  BY DEF FInv
<1>2. [IP!Next]_ivars => IP!IInv'
  BY <1>1, QueueAssumptions, IP!StepInv DEF IP!vars, ivars
<1>3. [OP!Next]_ovars => OP!IInv'
  BY <1>1, QueueAssumptions, OP!StepInv DEF OP!vars, ovars
<1>4. [IP!Next]_ivars
  <2>1. CASE SubmitJob
    <3>1. Start + ii \in Word
      BY <2>1, ProcsApart DEF SubmitJob, FInv, FTypeOK, Word, Numbers
    <3> QED BY <2>1, <3>1, JobTypes, ISteps DEF SubmitJob
  <2>2. CASE SubmitDone
    <3>1. -1 \in Word
      BY ProcsApart DEF Word
    <3> QED BY <2>2, <3>1, JobTypes, ISteps DEF SubmitDone
  <2>3. CASE MainPut
    BY <2>3, ISteps DEF MainPut
  <2>4. ASSUME NEW w \in Workers, WorkerStep(w)
        PROVE  [IP!Next]_ivars
    BY <2>4, ISteps
    DEF WorkerStep, WorkerGet, WorkerInGet, WorkerGot, WorkerPut, WorkerInPut, I!GetStep
  <2>5. CASE PrinterStep
    BY <2>5 DEF PrinterStep, PrinterGet, PrinterInGet, PrinterGot, PrinterExit
  <2>6. CASE ForkWorker \/ ForkPrinter \/ FactorWaitDone \/ AllDonesSubmitted
             \/ ReapWorker \/ FreeQueues
    BY <2>6 DEF ForkWorker, ForkPrinter, FactorWaitDone, AllDonesSubmitted, ReapWorker,
                FreeQueues
  <2>7. CASE UNCHANGED fvars
    BY <2>7 DEF fvars, ivars
  <2> QED BY <2>1, <2>2, <2>3, <2>4, <2>5, <2>6, <2>7 DEF FNext, MainStep
<1>5. [OP!Next]_ovars
  <2>1. ASSUME NEW w \in Workers, WorkerStep(w)
        PROVE  [OP!Next]_ovars
    <3>1. factor(ibuf[w]) \in [{"number", "factors"} -> Word]
      BY <1>1, QueueTypes, JobTypes
    <3> QED
      BY <2>1, <3>1, OSteps
      DEF WorkerStep, WorkerGet, WorkerInGet, WorkerGot, WorkerPut, WorkerInPut
  <2>2. CASE PrinterStep
    BY <2>2, OSteps
    DEF PrinterStep, PrinterGet, PrinterInGet, PrinterGot, PrinterExit, O!GetStep
  <2>3. CASE MainStep
    BY <2>3 DEF MainStep, SubmitJob, SubmitDone, MainPut, ForkWorker, ForkPrinter,
                FactorWaitDone, AllDonesSubmitted, ReapWorker, FreeQueues
  <2>4. CASE UNCHANGED fvars
    BY <2>4 DEF fvars, ovars
  <2> QED BY <2>1, <2>2, <2>3, <2>4 DEF FNext
<1> QED BY <1>2, <1>3, <1>4, <1>5

-----------------------------------------------------------------------------
(***************************************************************************)
(* Counting.                                                               *)
(***************************************************************************)
LEMMA HoldingCount ==
  /\ IsFiniteSet(Holding) /\ Cardinality(Holding) \in Nat
  /\ \A w \in Workers \ Holding :
       Holding' = Holding \cup {w} => Cardinality(Holding') = Cardinality(Holding) + 1
  /\ \A w \in Holding :
       Holding' = Holding \ {w} => Cardinality(Holding') = Cardinality(Holding) - 1
<1>1. IsFiniteSet(Workers)
  BY FS_Interval, FactorProcessesAssumption DEF Workers
<1>2. IsFiniteSet(Holding)
  BY <1>1, FS_Subset DEF Holding
<1> QED
  BY <1>2, FS_CardinalityType, FS_AddElement, FS_RemoveElement

\* All workers have gone.
LEMMA AllGone ==
  ASSUME \A w \in Workers : Gone(w)
  PROVE  Cardinality(Holding) = NumProcs
<1>1. Holding = 1 .. NumProcs
  BY DEF Holding, Workers
<1> QED BY <1>1, FS_Interval, ProcsApart

\* What the steps of iqueue do to the number of tickets that are claimed by putters and
\* not by getters.
LEMMA OutstandingMoves ==
  ASSUME IP!IInv
  PROVE  /\ IP!Outstanding \in Nat
         /\ ipc[Main] = "put_copy" => IP!Outstanding > 0
         /\ \A w \in Workers : ipc[w] = "get_claim" => IP!Outstanding > One(ipc[Main] = "put_copy")
         /\ \A msg : I!PutWait(Main, msg) => IP!Outstanding' = IP!Outstanding
         /\ I!PutFetchAdd(Main) => IP!Outstanding' = IP!Outstanding + 1
         /\ I!PutPost(Main) => IP!Outstanding' = IP!Outstanding
         /\ UNCHANGED <<ifull, ipc>> => IP!Outstanding' = IP!Outstanding
         /\ \A w \in Workers :
              /\ I!GetFetchAdd(w) => IP!Outstanding' = IP!Outstanding - 1
              /\ I!GetWait(w) \/ I!GetPost(w) \/ I!GetReturn(w) => IP!Outstanding' = IP!Outstanding
<1> DEFINE a == IP!NumAt("put_copy")  b == IP!NumAt("get_claim")
<1>1. /\ a \in Nat /\ b \in Nat /\ ifull \in Nat
      /\ \A p \in IP!At("put_copy") : a >= 1
      /\ \A p \in IP!At("get_claim") : b >= 1
  BY QueueAssumptions, IP!CountType DEF IP!IInv, IP!TypeOK
<1>2. IP!Procs = {Main} \cup Workers /\ DOMAIN ipc = IP!Procs
  BY DEF IP!IInv, IP!TypeOK, IP!Procs
<1>3. /\ ipc[Main] = "put_copy" => a >= 1
      /\ \A w \in Workers : ipc[w] = "get_claim" => b >= 1
  BY <1>1, <1>2 DEF IP!At
<1>4. Main \in IP!Procs /\ \A w \in Workers : w \in IP!Procs
  BY <1>2
<1>5. IP!Outstanding = ifull + a + b /\ IP!Outstanding' = ifull' + a' + b'
  BY DEF IP!Outstanding
<1>6. ASSUME NEW msg, I!PutWait(Main, msg) PROVE IP!Outstanding' = IP!Outstanding
  <2>1. ipc[Main] = "out" /\ IP!Goto(Main, "put_claim") /\ ifull' = ifull
    BY <1>6 DEF I!PutWait, I!Goto, IP!Goto
  <2>2. a' = a /\ b' = b
    BY <1>2, <1>4, <2>1, QueueAssumptions, IP!CountMove
  <2> QED BY <1>1, <1>5, <2>1, <2>2
<1>7. ASSUME I!PutFetchAdd(Main) PROVE IP!Outstanding' = IP!Outstanding + 1
  <2>1. ipc[Main] = "put_claim" /\ IP!Goto(Main, "put_copy") /\ ifull' = ifull
    BY <1>7 DEF I!PutFetchAdd, I!Goto, IP!Goto
  <2>2. a' = a + 1 /\ b' = b
    BY <1>2, <1>4, <2>1, QueueAssumptions, IP!CountMove
  <2> QED BY <1>1, <1>5, <2>1, <2>2
<1>8. ASSUME I!PutPost(Main) PROVE IP!Outstanding' = IP!Outstanding
  <2>1. ipc[Main] = "put_copy" /\ IP!Goto(Main, "out") /\ ifull' = ifull + 1
    BY <1>8 DEF I!PutPost, I!Goto, IP!Goto
  <2>2. a' = a - 1 /\ b' = b
    BY <1>2, <1>4, <2>1, QueueAssumptions, IP!CountMove
  <2> QED BY <1>1, <1>5, <2>1, <2>2
<1>9. ASSUME UNCHANGED <<ifull, ipc>> PROVE IP!Outstanding' = IP!Outstanding
  <2>1. a' = a /\ b' = b
    BY <1>9, QueueAssumptions, IP!CountSame
  <2> QED BY <1>5, <1>9, <2>1
<1>10. ASSUME NEW w \in Workers, I!GetFetchAdd(w) PROVE IP!Outstanding' = IP!Outstanding - 1
  <2>1. ipc[w] = "get_claim" /\ IP!Goto(w, "get_post") /\ ifull' = ifull
    BY <1>10 DEF I!GetFetchAdd, I!Goto, IP!Goto
  <2>2. a' = a /\ b' = b - 1
    BY <1>2, <1>4, <2>1, QueueAssumptions, IP!CountMove
  <2> QED BY <1>1, <1>5, <2>1, <2>2
<1>11. ASSUME NEW w \in Workers, I!GetWait(w) PROVE IP!Outstanding' = IP!Outstanding
  <2>1. ipc[w] = "out" /\ IP!Goto(w, "get_claim") /\ ifull' = ifull - 1
    BY <1>11 DEF I!GetWait, I!Goto, IP!Goto
  <2>2. a' = a /\ b' = b + 1
    BY <1>2, <1>4, <2>1, QueueAssumptions, IP!CountMove
  <2> QED BY <1>1, <1>5, <2>1, <2>2
<1>12. ASSUME NEW w \in Workers, I!GetPost(w) PROVE IP!Outstanding' = IP!Outstanding
  <2>1. ipc[w] = "get_post" /\ IP!Goto(w, "get_copy") /\ ifull' = ifull
    BY <1>12 DEF I!GetPost, I!Goto, IP!Goto
  <2>2. a' = a /\ b' = b
    BY <1>2, <1>4, <2>1, QueueAssumptions, IP!CountMove
  <2> QED BY <1>1, <1>5, <2>1, <2>2
<1>13. ASSUME NEW w \in Workers, I!GetReturn(w) PROVE IP!Outstanding' = IP!Outstanding
  <2>1. ipc[w] = "get_copy" /\ IP!Goto(w, "out") /\ ifull' = ifull
    BY <1>13 DEF I!GetReturn, I!Goto, IP!Goto
  <2>2. a' = a /\ b' = b
    BY <1>2, <1>4, <2>1, QueueAssumptions, IP!CountMove
  <2> QED BY <1>1, <1>5, <2>1, <2>2
<1>14. IP!Outstanding \in Nat /\ (ipc[Main] = "put_copy" => IP!Outstanding > 0)
  BY <1>1, <1>3, <1>5
<1>15. \A w \in Workers : ipc[w] = "get_claim" => IP!Outstanding > One(ipc[Main] = "put_copy")
  BY <1>1, <1>3, <1>5 DEF One
<1> QED BY <1>6, <1>7, <1>8, <1>9, <1>10, <1>11, <1>12, <1>13, <1>14, <1>15

-----------------------------------------------------------------------------
(***************************************************************************)
(* Every step preserves the invariant.                                     *)
(***************************************************************************)
Before == FInv /\ IP!IInv' /\ OP!IInv'

\* What the lemmas use of the types.
LEMMA Typed ==
  ASSUME Before
  PROVE  /\ ijobs \in [0 .. QUEUE_SIZE - 1 -> [{"number"} -> Word]]
         /\ iqii \in Nat /\ iqjj \in Nat /\ iqii < UINT_SPAN
         /\ ifull \in Nat /\ ofull \in Nat
         /\ DOMAIN ipc = {Main} \cup Workers /\ DOMAIN opc = Workers \cup {Printer}
         /\ iidx \in [{Main} \cup Workers -> Nat]
         /\ \A p \in {Main} \cup Workers : IP!Slot(iidx[p]) \in 0 .. QUEUE_SIZE - 1
         /\ ibuf \in [{Main} \cup Workers -> [{"number"} -> Word]]
         /\ itodo \in [{Main} \cup Workers -> SUBSET {"number"}]
         /\ obuf \in [Workers \cup {Printer} -> O!Job]
         /\ DOMAIN at = {Main, Printer} \cup Workers
         /\ ii \in Nat /\ printed \in Seq(O!Job) /\ Len(printed) \in Nat
         /\ Begun \in Nat /\ Submitted \in Int
         /\ Word \subseteq Int
<1>1. IP!IInv /\ OP!IInv
  BY DEF Before, FInv
<1>2. \A p \in {Main} \cup Workers : IP!Slot(iidx[p]) \in 0 .. QUEUE_SIZE - 1
  <2> SUFFICES ASSUME NEW p \in {Main} \cup Workers
               PROVE  IP!Slot(iidx[p]) \in 0 .. QUEUE_SIZE - 1
    OBVIOUS
  <2>1. iidx[p] \in IP!UInt
    BY <1>1, QueueTypes DEF IP!UInt
  <2> QED BY <2>1, QueueAssumptions, IP!SlotType DEF IP!Slots
<1>3. \A n \in 0 .. UINT_SPAN - 1 : n \in Nat /\ n < UINT_SPAN
  BY ProcsApart
<1>4. DOMAIN at = {Main, Printer} \cup Workers /\ ii \in Nat /\ printed \in Seq(O!Job)
  BY DEF Before, FInv, FTypeOK, Processes
<1>5. Begun \in Nat /\ Submitted \in Int
  BY <1>4, ProcsApart DEF Begun, Submitted, One
<1> QED
  BY <1>1, <1>2, <1>3, <1>4, <1>5, QueueTypes, LenProperties, ProcsApart DEF Word, Numbers

\* A step that leaves iqueue alone, and main where it is.
LEMMA IqueueSame ==
  ASSUME Before, UNCHANGED ivars, Submitted' = Submitted,
         \A w \in Workers : at'[w] = "put" => at[w] = "put"
  PROVE  Written' /\ FirstRound'
<1>1. UNCHANGED <<ijobs, iqii, iqjj, ifull, ipc, iidx, ibuf, itodo>>
  BY DEF ivars
<1>2. IP!Outstanding' = IP!Outstanding
  BY <1>1, OutstandingMoves DEF Before, FInv
<1>3. Written'
  BY <1>1 DEF Before, FInv, Written, IP!Slot
<1>4. FirstRound'
  BY <1>1, <1>2 DEF Before, FInv, FirstRound, One
<1> QED BY <1>3, <1>4

\* Main creates its children.
LEMMA ForkInv ==
  ASSUME Before, ForkWorker \/ ForkPrinter
  PROVE  FInv'
<1>1. /\ at[Main] = "fork" /\ UNCHANGED <<ivars, ovars, printed>>
      /\ \/ /\ ii < NumProcs /\ ii' = ii + 1 /\ at' = [at EXCEPT ![ii + 1] = "loop"]
         \/ /\ ii = NumProcs /\ ii' = 0
            /\ at' = [at EXCEPT ![Main] = "submit", ![Printer] = "loop"]
  BY DEF ForkWorker, ForkPrinter, GoOn
<1>2. /\ ipc' = ipc /\ opc' = opc /\ ifull' = ifull /\ ofull' = ofull /\ printed' = printed
      /\ ijobs' = ijobs /\ ibuf' = ibuf
  BY <1>1 DEF ivars, ovars
<1>3. /\ ii < NumProcs => ii + 1 \in Workers /\ at[ii + 1] = "unborn"
      /\ ii \in Nat /\ at[Printer] = "unborn"
  BY <1>1, Typed, ProcsApart, SMTT(30) DEF Before, FInv, MainPhase, Workers
<1>4. \A w \in Workers : at'[w] = at[w] \/ (at[w] = "unborn" /\ at'[w] = "loop")
  BY <1>1, <1>3, Typed, ProcsApart
<1>5. at'[Main] = IF ii < NumProcs THEN "fork" ELSE "submit"
  BY <1>1, <1>3, Typed, ProcsApart
<1>6. FTypeOK'
  <2>1. at' \in [Processes -> MainLabels \cup WorkerLabels]
    BY <1>1 DEF Before, FInv, FTypeOK, MainLabels, WorkerLabels
  <2> QED BY <1>1, <1>2, <2>1 DEF Before, FInv, FTypeOK, O!Job
<1>7. MainPhase'
  <2>1. ipc[Main] = "out" /\ \A w \in Workers : w > ii => at[w] = "unborn"
    BY <1>1, Typed, ProcsApart DEF Before, FInv, MainPhase, InPut
  <2>2. ii' <= IF at'[Main] = "submit" THEN Count ELSE NumProcs
    BY <1>1, <1>3, <1>5, ProcsApart
  <2>3. at'[Main] = "fork" =>
          at'[Printer] = "unborn" /\ \A w \in Workers : w > ii' => at'[w] = "unborn"
    <3> SUFFICES ASSUME at'[Main] = "fork"
                 PROVE  at'[Printer] = "unborn" /\ \A w \in Workers : w > ii' => at'[w] = "unborn"
      OBVIOUS
    <3>1. ii < NumProcs /\ ii' = ii + 1 /\ at' = [at EXCEPT ![ii + 1] = "loop"]
      BY <1>1, <1>3, <1>5, ProcsApart
    <3> QED BY <1>3, <2>1, <3>1, Typed, ProcsApart, SMTT(30) DEF Workers
  <2> QED BY <1>2, <1>5, <2>1, <2>2, <2>3 DEF MainPhase, Late, MainLabels, InPut
<1>8. WorkerPhase'
  BY <1>2, <1>4 DEF Before, FInv, WorkerPhase, WorkerLabels
<1>9. PrinterPhase'
  <2>1. at'[Printer] \in {"unborn", "loop"} /\ at[Printer] = "unborn"
    BY <1>1, <1>3, Typed, ProcsApart
  <2> QED BY <1>2, <2>1 DEF Before, FInv, PrinterPhase, Gone, PrinterLabels
<1>10. Begun = 0 /\ Begun' = 0 /\ Submitted' = Submitted
  BY <1>1, <1>2, <1>5 DEF Begun, Submitted
<1>11. NoEarlyDone'
  BY <1>1, <1>2, <1>4, <1>5 DEF Before, FInv, NoEarlyDone, Late, Gone
<1>12. Conserved'
  <2>1. Holding' = Holding
    BY <1>2, <1>4 DEF Holding, Gone
  <2> QED BY <1>2, <1>10, <2>1 DEF Before, FInv, Conserved, One
<1>13. Written' /\ FirstRound'
  BY <1>1, <1>4, <1>10, IqueueSame
<1> QED BY <1>6, <1>7, <1>8, <1>9, <1>11, <1>12, <1>13 DEF Before, FInv

\* Main goes from one loop to the next, and frees the queues.
LEMMA NextLoopInv ==
  ASSUME Before, FactorWaitDone \/ AllDonesSubmitted \/ FreeQueues
  PROVE  FInv'
<1>1. /\ UNCHANGED <<ivars, ovars, printed>>
      /\ \/ /\ at[Main] = "submit" /\ ii = Count /\ ipc[Main] = "out" /\ ii' = 0
            /\ at[Printer] = "exited"
            /\ at' = [at EXCEPT ![Main] = "cleanup", ![Printer] = "reaped"]
         \/ /\ at[Main] = "cleanup" /\ ii = NumProcs /\ ipc[Main] = "out" /\ ii' = 0
            /\ at' = [at EXCEPT ![Main] = "reap"]
         \/ /\ at[Main] = "reap" /\ ii = NumProcs /\ ii' = ii
            /\ at' = [at EXCEPT ![Main] = "done"] \/ at' = [at EXCEPT ![Main] = "aborted"]
  BY DEF FactorWaitDone, AllDonesSubmitted, FreeQueues, GoOn
<1>2. /\ ipc' = ipc /\ opc' = opc /\ ifull' = ifull /\ ofull' = ofull /\ printed' = printed
      /\ ijobs' = ijobs /\ ibuf' = ibuf
  BY <1>1 DEF ivars, ovars
<1>3. \A w \in Workers : at'[w] = at[w]
  BY <1>1, Typed, ProcsApart
<1>4. at'[Main] = CASE at[Main] = "submit" -> "cleanup" [] at[Main] = "cleanup" -> "reap"
                    [] OTHER -> IF at'[Main] = "done" THEN "done" ELSE "aborted"
  BY <1>1, Typed, ProcsApart
<1>5. at'[Printer] = "reaped" /\ Gone(Printer) /\ opc[Printer] = "out"
  BY <1>1, Typed, ProcsApart DEF Before, FInv, MainPhase, PrinterPhase, Late, Gone
<1>6. FTypeOK'
  <2>1. at' \in [Processes -> MainLabels \cup WorkerLabels]
    BY <1>1 DEF Before, FInv, FTypeOK, MainLabels, WorkerLabels
  <2> QED BY <1>1, <1>2, <2>1 DEF Before, FInv, FTypeOK, O!Job
<1>7. MainPhase'
  BY <1>1, <1>2, <1>3, <1>4, <1>5, Typed, ProcsApart, SMTT(30)
  DEF Before, FInv, MainPhase, Late, MainLabels, Workers
<1>8. WorkerPhase'
  BY <1>2, <1>3 DEF Before, FInv, WorkerPhase
<1>9. PrinterPhase'
  BY <1>2, <1>5 DEF Before, FInv, PrinterPhase, Gone, PrinterLabels
<1>10. Begun' = Begun /\ Submitted' = Submitted
  BY <1>1, <1>2, <1>4, ProcsApart DEF Begun, Submitted
<1>11. NoEarlyDone'
  BY <1>1, <1>4 DEF NoEarlyDone, Late
<1>12. Conserved'
  <2>1. Holding' = Holding
    BY <1>2, <1>3 DEF Holding, Gone
  <2> QED BY <1>2, <1>10, <2>1 DEF Before, FInv, Conserved, One
<1>13. Written' /\ FirstRound'
  BY <1>1, <1>3, <1>10, IqueueSame
<1> QED BY <1>6, <1>7, <1>8, <1>9, <1>11, <1>12, <1>13 DEF Before, FInv

\* Main reaps a worker, or the printer ends.
LEMMA EndInv ==
  ASSUME Before, ReapWorker \/ PrinterExit
  PROVE  FInv'
<1>1. /\ UNCHANGED <<ivars, ovars, printed>>
      /\ \/ /\ at[Main] = "reap" /\ ii < NumProcs /\ at[ii + 1] = "exited" /\ ii' = ii + 1
            /\ at' = [at EXCEPT ![ii + 1] = "reaped"]
         \/ /\ at[Printer] = "loop" /\ Len(printed) = Count /\ opc[Printer] = "out" /\ ii' = ii
            /\ at' = [at EXCEPT ![Printer] = "exited"]
  BY DEF ReapWorker, PrinterExit, GoOn
<1>2. /\ ipc' = ipc /\ opc' = opc /\ ifull' = ifull /\ ofull' = ofull /\ printed' = printed
      /\ ijobs' = ijobs /\ ibuf' = ibuf
  BY <1>1 DEF ivars, ovars
<1>3. ii < NumProcs => ii + 1 \in Workers /\ ii + 1 # Main /\ ii + 1 # Printer
  <2>1. ii \in Nat /\ NumProcs \in Nat
    BY Typed, ProcsApart
  <2> QED BY <2>1 DEF Workers, Main, Printer
<1>4. /\ \A w \in Workers : at'[w] = at[w] \/ (at[w] = "exited" /\ at'[w] = "reaped")
      /\ at'[Main] = at[Main]
      /\ at'[Printer] = at[Printer] \/ (at[Printer] = "loop" /\ at'[Printer] = "exited")
  BY <1>1, <1>3, Typed, ProcsApart
<1>5. FTypeOK'
  <2>1. at' \in [Processes -> MainLabels \cup WorkerLabels]
    BY <1>1 DEF Before, FInv, FTypeOK, MainLabels, WorkerLabels
  <2>2. ii' \in Nat
    BY <1>1, Typed
  <2> QED BY <1>2, <2>1, <2>2 DEF Before, FInv, FTypeOK, O!Job
<1>6. MainPhase'
  <2>1. ii <= (IF at[Main] = "submit" THEN Count ELSE NumProcs) /\ ii' \in Nat /\ ii \in Nat
    BY <1>1, Typed DEF Before, FInv, MainPhase
  <2>2. ii' <= IF at'[Main] = "submit" THEN Count ELSE NumProcs
    BY <1>1, <1>4, <2>1, ProcsApart
  <2>3. at[Main] = "fork" => UNCHANGED <<ii, at>>
    BY <1>1 DEF Before, FInv, MainPhase
  <2>4. Late => at'[Printer] = "reaped"
    BY <1>4 DEF Before, FInv, MainPhase
  <2>5. at[Main] \in {"reap", "done", "aborted"} => \A w \in 1 .. ii' : at'[w] = "reaped"
    <3> SUFFICES ASSUME at[Main] \in {"reap", "done", "aborted"}, NEW w \in 1 .. ii'
                 PROVE  at'[w] = "reaped"
      OBVIOUS
    <3>1. at[Printer] = "reaped" /\ \A v \in 1 .. ii : at[v] = "reaped"
      BY DEF Before, FInv, MainPhase, Late
    <3>2. at[Main] = "reap" /\ ii < NumProcs /\ ii' = ii + 1
          /\ at' = [at EXCEPT ![ii + 1] = "reaped"]
      BY <1>1, <3>1
    <3> QED BY <1>3, <2>1, <3>1, <3>2, Typed
  <2> QED BY <1>2, <1>4, <2>2, <2>3, <2>4, <2>5 DEF Before, FInv, MainPhase, Late
<1>7. WorkerPhase'
  BY <1>2, <1>4 DEF Before, FInv, WorkerPhase, WorkerLabels
<1>8. PrinterPhase'
  <2>1. /\ opc[Printer] \in InGet /\ Len(printed) <= Count
        /\ Gone(Printer) => Len(printed) = Count
        /\ at[Printer] \in PrinterLabels
        /\ opc[Printer] # "out" => at[Printer] = "loop"
    BY DEF Before, FInv, PrinterPhase
  <2>2. \/ at'[Printer] = at[Printer]
        \/ at'[Printer] = "exited" /\ opc[Printer] = "out" /\ Len(printed) = Count
    BY <1>1, <1>3, <1>4, Typed, ProcsApart
  <2> QED BY <1>2, <2>1, <2>2 DEF PrinterPhase, Gone, PrinterLabels
<1>9. Begun' = Begun /\ Submitted' = Submitted
  BY <1>1, <1>2, <1>4, ProcsApart DEF Begun, Submitted
<1>10. NoEarlyDone'
  BY <1>1, <1>2, <1>4 DEF Before, FInv, NoEarlyDone, Late, Gone
<1>11. Conserved'
  <2>1. Holding' = Holding
    BY <1>2, <1>4 DEF Holding, Gone
  <2> QED BY <1>2, <1>9, <2>1 DEF Before, FInv, Conserved, One
<1>12. Written' /\ FirstRound'
  BY <1>1, <1>4, <1>9, IqueueSame
<1> QED BY <1>5, <1>6, <1>7, <1>8, <1>10, <1>11, <1>12 DEF Before, FInv

\* A step inside iqueue leaves the printer and the types alone.
LEMMA InIqueue ==
  ASSUME Before, UNCHANGED <<ovars, at, printed>>, ii' \in Nat
  PROVE  /\ FTypeOK' /\ PrinterPhase'
         /\ opc' = opc /\ ofull' = ofull /\ at' = at /\ printed' = printed
<1>1. opc' = opc /\ ofull' = ofull
  BY DEF ovars
<1>2. FTypeOK'
  BY DEF Before, FInv, FTypeOK, O!Job
<1>3. PrinterPhase'
  BY <1>1 DEF Before, FInv, PrinterPhase, Gone
<1> QED BY <1>1, <1>2, <1>3

\* Main begins to put a job, of the work or one that ends a worker.
LEMMA MainPutWaitInv ==
  ASSUME Before, SubmitJob \/ SubmitDone
  PROVE  FInv'
<1> DEFINE n == IF at[Main] = "submit" THEN Start + ii ELSE -1
<1>1. /\ \/ at[Main] = "submit" /\ ii < Count
         \/ at[Main] = "cleanup" /\ ii < NumProcs
      /\ I!PutWait(Main, make_job(n)) /\ ii' = ii + 1
      /\ UNCHANGED <<ovars, at, printed>>
  BY DEF SubmitJob, SubmitDone
<1>2. /\ ipc[Main] = "out" /\ ipc' = [ipc EXCEPT ![Main] = "put_claim"]
      /\ ibuf' = [ibuf EXCEPT ![Main] = make_job(n)]
      /\ UNCHANGED <<ijobs, iqii, iqjj, ifull, iidx, itodo>>
  BY <1>1 DEF I!PutWait, I!Goto
<1>3. n \in Word /\ n # 0 /\ (n < 0 => Late) /\ ii' \in Nat /\ ii \in Nat
  <2>1. ii \in Nat
    BY Typed
  <2> QED BY <1>1, <2>1, ProcsApart DEF Word, Numbers, Late
<1>4. /\ \A w \in Workers : ipc'[w] = ipc[w] /\ ibuf'[w] = ibuf[w]
      /\ ipc'[Main] = "put_claim" /\ ibuf'[Main]["number"] = n
  BY <1>2, <1>3, Typed, ProcsApart, JobTypes
<1>5. /\ FTypeOK' /\ PrinterPhase'
      /\ opc' = opc /\ ofull' = ofull /\ at' = at /\ printed' = printed
  BY <1>1, <1>3, InIqueue
<1>6. Begun' = Begun + 1 /\ Submitted' = Submitted
  <2>1. Begun' = Begun + 1
    BY <1>1, <1>3, <1>5, ProcsApart DEF Begun
  <2> QED BY <1>2, <1>4, <2>1, Typed DEF Submitted, One
<1>7. MainPhase'
  <2>1. ii' <= IF at[Main] = "submit" THEN Count ELSE NumProcs
    BY <1>1, Typed, ProcsApart, SMTT(30)
  <2> QED BY <1>1, <1>4, <1>5, <2>1 DEF Before, FInv, MainPhase, Late, InPut
<1>8. WorkerPhase'
  BY <1>4, <1>5 DEF Before, FInv, WorkerPhase
<1>9. NoEarlyDone'
  BY <1>2, <1>3, <1>4, <1>5 DEF Before, FInv, NoEarlyDone, Late, Gone, Word, Numbers
<1>10. Conserved'
  <2>1. Holding' = Holding
    BY <1>4, <1>5 DEF Holding, Gone
  <2>2. Cardinality(Holding) \in Nat
    BY HoldingCount
  <2>3. /\ One(ipc[Main] # "out") = 0 /\ One(ipc[Main] # "out")' = 1
        /\ One(opc[Printer] # "out")' = One(opc[Printer] # "out")
        /\ One(opc[Printer] # "out") \in Nat
    BY <1>2, <1>4, <1>5 DEF One
  <2>4. /\ ifull \in Nat /\ ofull \in Nat /\ Len(printed) \in Nat
        /\ Begun' = Begun + 1 /\ ifull' = ifull /\ ofull' = ofull /\ printed' = printed
    BY <1>2, <1>5, <1>6, Typed
  <2>5. Conserved /\ Cardinality(Holding') = Cardinality(Holding)
    BY <2>1 DEF Before, FInv
  <2> QED BY <2>2, <2>3, <2>4, <2>5 DEF Conserved
<1>11. Written'
  BY <1>2, <1>3, <1>4, <1>5, <1>6 DEF Before, FInv, Written
<1>12. FirstRound'
  <2>1. IP!Outstanding' = IP!Outstanding
    BY <1>1, OutstandingMoves DEF Before, FInv
  <2> QED BY <1>2, <1>4, <1>6, <2>1 DEF Before, FInv, FirstRound, One
<1> QED BY <1>5, <1>7, <1>8, <1>9, <1>10, <1>11, <1>12 DEF Before, FInv

\* What main's steps inside queue_put have in common.
LEMMA MainPutFrame ==
  ASSUME Before, UNCHANGED <<ovars, at, ii, printed>>,
         ipc[Main] # "out", ipc'[Main] \in InPut,
         \A w \in Workers : ipc'[w] = ipc[w]
  PROVE  /\ FTypeOK' /\ PrinterPhase' /\ MainPhase' /\ WorkerPhase'
         /\ Holding' = Holding /\ Begun' = Begun /\ at' = at
         /\ ofull' = ofull /\ opc' = opc /\ printed' = printed
<1>1. ii' \in Nat /\ ii' = ii
  BY Typed
<1>2. /\ FTypeOK' /\ PrinterPhase'
      /\ opc' = opc /\ ofull' = ofull /\ at' = at /\ printed' = printed
  BY <1>1, InIqueue
<1>3. MainPhase'
  BY <1>1, <1>2 DEF Before, FInv, MainPhase, Late
<1>4. WorkerPhase'
  BY <1>2 DEF Before, FInv, WorkerPhase
<1>5. Holding' = Holding
  BY <1>2 DEF Holding, Gone
<1>6. Begun' = Begun
  BY <1>1, <1>2 DEF Begun
<1> QED BY <1>2, <1>3, <1>4, <1>5, <1>6

\* Main claims a ticket.
LEMMA MainFetchAddInv ==
  ASSUME Before, I!PutFetchAdd(Main), UNCHANGED <<ovars, at, ii, printed>>
  PROVE  FInv'
<1>1. /\ ipc[Main] = "put_claim" /\ ipc' = [ipc EXCEPT ![Main] = "put_copy"]
      /\ iidx' = [iidx EXCEPT ![Main] = iqii] /\ iqii' = I!Inc(iqii)
      /\ itodo' = [itodo EXCEPT ![Main] = {"number"}]
      /\ UNCHANGED <<ijobs, iqjj, ifull, ibuf>>
  BY DEF I!PutFetchAdd, I!Goto
<1>2. /\ ipc'[Main] = "put_copy" /\ iidx'[Main] = iqii /\ itodo'[Main] = {"number"}
      /\ \A w \in Workers : ipc'[w] = ipc[w] /\ iidx'[w] = iidx[w] /\ itodo'[w] = itodo[w]
  BY <1>1, Typed, ProcsApart
<1>3. /\ FTypeOK' /\ PrinterPhase' /\ MainPhase' /\ WorkerPhase'
      /\ Holding' = Holding /\ Begun' = Begun /\ at' = at
      /\ ofull' = ofull /\ opc' = opc /\ printed' = printed
  BY <1>1, <1>2, MainPutFrame DEF InPut
<1>4. Submitted' = Submitted
  BY <1>1, <1>2, <1>3 DEF Submitted
<1>5. NoEarlyDone'
  BY <1>1, <1>3 DEF Before, FInv, NoEarlyDone, Late, Gone
<1>6. Conserved'
  BY <1>1, <1>2, <1>3 DEF Before, FInv, Conserved, One
<1>7. Written'
  BY <1>1, <1>2, <1>3, <1>4 DEF Before, FInv, Written
<1>8. FirstRound'
  <2> SUFFICES ASSUME Submitted < QUEUE_SIZE
               PROVE  /\ iqii' = Submitted + 1 /\ iidx'[Main] = Submitted
                      /\ iqii' = iqjj + IP!Outstanding'
                      /\ \A w \in Workers : ipc[w] \in {"get_post", "get_copy"} => iidx[w] < iqjj
    BY <1>1, <1>2, <1>4 DEF FirstRound, One
  <2>1. /\ iqii = Submitted + One(ipc[Main] = "put_copy") /\ iqii = iqjj + IP!Outstanding
        /\ \A w \in Workers : ipc[w] \in {"get_post", "get_copy"} => iidx[w] < iqjj
    BY DEF Before, FInv, FirstRound
  <2>2. IP!Outstanding' = IP!Outstanding + 1 /\ IP!Outstanding \in Nat
    BY OutstandingMoves DEF Before, FInv
  <2>3. iqii = Submitted
    BY <1>1, <2>1, Typed DEF One
  <2>4. iqii' = iqii + 1
    BY <1>1, <2>3, Typed, ProcsApart DEF I!Inc
  <2> QED BY <1>2, <2>1, <2>2, <2>3, <2>4, Typed
<1> QED BY <1>3, <1>5, <1>6, <1>7, <1>8 DEF Before, FInv

\* Main writes its job into the slot.
LEMMA MainStoreInv ==
  ASSUME Before, I!PutStore(Main, "number"), UNCHANGED <<ovars, at, ii, printed>>
  PROVE  FInv'
<1> DEFINE slot == IP!Slot(iidx[Main])
<1>1. /\ ipc[Main] = "put_copy" /\ "number" \in itodo[Main]
      /\ ijobs' = [ijobs EXCEPT ![slot]["number"] = ibuf[Main]["number"]]
      /\ itodo' = [itodo EXCEPT ![Main] = @ \ {"number"}]
      /\ UNCHANGED <<iqii, iqjj, ifull, ipc, iidx, ibuf>>
  BY DEF I!PutStore, I!Slot, IP!Slot
<1>2. slot \in 0 .. QUEUE_SIZE - 1
  BY Typed
<1>3. /\ ijobs'[slot]["number"] = ibuf[Main]["number"]
      /\ \A s \in 0 .. QUEUE_SIZE - 1 : s # slot => ijobs'[s] = ijobs[s]
      /\ \A w \in Workers : itodo'[w] = itodo[w]
  <2>1. ijobs[slot] \in [{"number"} -> Word]
    BY <1>2, Typed
  <2>2. ijobs'[slot]["number"] = ibuf[Main]["number"]
    BY <1>1, <1>2, <2>1, Typed
  <2> QED BY <1>1, <1>2, <2>2, Typed, ProcsApart
<1>4. /\ FTypeOK' /\ PrinterPhase' /\ MainPhase' /\ WorkerPhase'
      /\ Holding' = Holding /\ Begun' = Begun /\ at' = at
      /\ ofull' = ofull /\ opc' = opc /\ printed' = printed
  BY <1>1, MainPutFrame DEF InPut
<1>5. Submitted' = Submitted
  BY <1>1, <1>4 DEF Submitted
<1>6. NoEarlyDone'
  <2> SUFFICES ASSUME ~Late
               PROVE  /\ \A s \in 0 .. QUEUE_SIZE - 1 : ijobs'[s]["number"] >= 0
                      /\ \A p \in {Main} \cup Workers : ibuf[p]["number"] >= 0
                      /\ \A w \in Workers : ~Gone(w)
    BY <1>1, <1>4 DEF NoEarlyDone, Late, Gone
  <2>1. /\ \A s \in 0 .. QUEUE_SIZE - 1 : ijobs[s]["number"] >= 0
        /\ \A p \in {Main} \cup Workers : ibuf[p]["number"] >= 0
        /\ \A w \in Workers : ~Gone(w)
    BY DEF Before, FInv, NoEarlyDone
  <2> QED BY <1>3, <2>1
<1>7. Conserved'
  BY <1>1, <1>4 DEF Before, FInv, Conserved, One
<1>8. Written'
  <2>1. ibuf[Main]["number"] # 0
    BY <1>1 DEF Before, FInv, Written
  <2>2. IP!Slot(iidx[Main])' = slot
    BY <1>1 DEF IP!Slot
  <2> QED BY <1>1, <1>3, <1>4, <1>5, <2>1, <2>2 DEF Before, FInv, Written
<1>9. FirstRound'
  <2>1. IP!Outstanding' = IP!Outstanding
    BY <1>1, OutstandingMoves DEF Before, FInv
  <2> QED BY <1>1, <1>5, <2>1 DEF Before, FInv, FirstRound, One
<1> QED BY <1>4, <1>6, <1>7, <1>8, <1>9 DEF Before, FInv

\* Main announces it.
LEMMA MainPostInv ==
  ASSUME Before, I!PutPost(Main), UNCHANGED <<ovars, at, ii, printed>>
  PROVE  FInv'
<1>1. /\ ipc[Main] = "put_copy" /\ itodo[Main] = {} /\ ifull' = ifull + 1
      /\ ipc' = [ipc EXCEPT ![Main] = "out"]
      /\ UNCHANGED <<ijobs, iqii, iqjj, iidx, ibuf, itodo>>
  BY DEF I!PutPost, I!Goto
<1>2. ipc'[Main] = "out" /\ \A w \in Workers : ipc'[w] = ipc[w]
  BY <1>1, Typed, ProcsApart
<1>3. /\ FTypeOK' /\ PrinterPhase' /\ MainPhase' /\ WorkerPhase'
      /\ Holding' = Holding /\ Begun' = Begun /\ at' = at
      /\ ofull' = ofull /\ opc' = opc /\ printed' = printed
  BY <1>1, <1>2, MainPutFrame DEF InPut
<1>4. Submitted' = Submitted + 1
  BY <1>1, <1>2, <1>3, Typed DEF Submitted, One
<1>5. NoEarlyDone'
  BY <1>1, <1>3 DEF Before, FInv, NoEarlyDone, Late, Gone
<1>6. Conserved'
  <2>1. Cardinality(Holding) \in Nat
    BY HoldingCount
  <2> QED BY <1>1, <1>2, <1>3, <2>1, Typed DEF Before, FInv, Conserved, One
<1>7. Written'
  <2>1. ASSUME NEW s \in 0 .. QUEUE_SIZE - 1, s < Submitted + 1
        PROVE  ijobs[s]["number"] # 0
    <3>1. CASE s < Submitted
      BY <2>1, <3>1 DEF Before, FInv, Written
    <3>2. CASE s = Submitted
      <4>1. iidx[Main] = s
        BY <1>1, <3>2, ProcsApart DEF Before, FInv, FirstRound
      <4>2. s % QUEUE_SIZE = s
        BY ProcsApart
      <4> QED BY <1>1, <4>1, <4>2 DEF Before, FInv, Written, IP!Slot
    <3> QED BY <2>1, <3>1, <3>2, Typed
  <2> QED BY <1>1, <1>2, <1>3, <1>4, <2>1 DEF Before, FInv, Written
<1>8. FirstRound'
  <2> SUFFICES ASSUME Submitted + 1 < QUEUE_SIZE
               PROVE  /\ iqii = Submitted + 1 /\ iqii = iqjj + IP!Outstanding'
                      /\ \A w \in Workers : ipc[w] \in {"get_post", "get_copy"} => iidx[w] < iqjj
    BY <1>1, <1>2, <1>4, Typed DEF FirstRound, One
  <2>1. Submitted < QUEUE_SIZE
    BY Typed, ProcsApart
  <2>2. IP!Outstanding' = IP!Outstanding
    BY OutstandingMoves DEF Before, FInv
  <2> QED BY <1>1, <2>1, <2>2 DEF Before, FInv, FirstRound, One
<1> QED BY <1>3, <1>5, <1>6, <1>7, <1>8 DEF Before, FInv

\* What a worker's steps inside queue_get have in common.
LEMMA WorkerGetFrame ==
  ASSUME Before, NEW w \in Workers, at[w] = "loop", opc[w] = "out",
         UNCHANGED <<ovars, at, ii, printed>>, ipc'[w] \in InGet \ {"out"},
         \A p \in {Main} \cup Workers : p # w => ipc'[p] = ipc[p]
  PROVE  /\ FTypeOK' /\ PrinterPhase' /\ MainPhase' /\ WorkerPhase'
         /\ Holding' = Holding \cup {w} /\ Begun' = Begun /\ Submitted' = Submitted
         /\ at' = at /\ ofull' = ofull /\ opc' = opc /\ printed' = printed
         /\ ipc'[Main] = ipc[Main]
<1>1. ii' \in Nat /\ ii' = ii
  BY Typed
<1>2. /\ FTypeOK' /\ PrinterPhase'
      /\ opc' = opc /\ ofull' = ofull /\ at' = at /\ printed' = printed
  BY <1>1, InIqueue
<1>3. ipc'[Main] = ipc[Main]
  BY ProcsApart
<1>4. MainPhase'
  BY <1>1, <1>2, <1>3 DEF Before, FInv, MainPhase, Late
<1>5. WorkerPhase'
  BY <1>2 DEF Before, FInv, WorkerPhase
<1>6. Holding' = Holding \cup {w}
  BY <1>2 DEF Holding, Gone
<1>7. Begun' = Begun /\ Submitted' = Submitted
  BY <1>1, <1>2, <1>3 DEF Begun, Submitted
<1> QED BY <1>2, <1>3, <1>4, <1>5, <1>6, <1>7

\* A worker begins to take a job.
LEMMA WorkerGetInv ==
  ASSUME Before, NEW w \in Workers, WorkerGet(w)
  PROVE  FInv'
<1>1. /\ at[w] = "loop" /\ opc[w] = "out" /\ ipc[w] = "out" /\ ifull > 0
      /\ ifull' = ifull - 1 /\ ipc' = [ipc EXCEPT ![w] = "get_claim"]
      /\ UNCHANGED <<ijobs, iqii, iqjj, iidx, ibuf, itodo>>
      /\ UNCHANGED <<ovars, at, ii, printed>> /\ I!GetWait(w)
  BY DEF WorkerGet, I!GetWait, I!Goto
<1>2. /\ ipc'[w] = "get_claim"
      /\ \A p \in {Main} \cup Workers : p # w => ipc'[p] = ipc[p]
  BY <1>1, Typed, ProcsApart
<1>3. /\ FTypeOK' /\ PrinterPhase' /\ MainPhase' /\ WorkerPhase'
      /\ Holding' = Holding \cup {w} /\ Begun' = Begun /\ Submitted' = Submitted
      /\ at' = at /\ ofull' = ofull /\ opc' = opc /\ printed' = printed
      /\ ipc'[Main] = ipc[Main]
  BY <1>1, <1>2, WorkerGetFrame DEF InGet
<1>4. NoEarlyDone'
  BY <1>1, <1>3 DEF Before, FInv, NoEarlyDone, Late, Gone
<1>5. Conserved'
  <2>1. w \notin Holding
    BY <1>1 DEF Holding, Gone
  <2>2. Cardinality(Holding') = Cardinality(Holding) + 1 /\ Cardinality(Holding) \in Nat
    BY <1>3, <2>1, HoldingCount
  <2>3. /\ ifull \in Nat /\ ofull \in Nat /\ Len(printed) \in Nat
        /\ ifull' = ifull - 1 /\ Begun' = Begun /\ ofull' = ofull /\ printed' = printed
        /\ opc' = opc /\ ipc'[Main] = ipc[Main]
    BY <1>1, <1>3, Typed
  <2>4. Conserved
    BY DEF Before, FInv
  <2>5. ifull' + Cardinality(Holding') = ifull + Cardinality(Holding)
    BY <2>2, <2>3
  <2>6. /\ One(ipc[Main] # "out")' = One(ipc[Main] # "out")
        /\ One(opc[Printer] # "out")' = One(opc[Printer] # "out")
        /\ One(ipc[Main] # "out") \in Nat /\ One(opc[Printer] # "out") \in Nat
    BY <2>3 DEF One
  <2> QED BY <2>2, <2>3, <2>4, <2>5, <2>6 DEF Conserved
<1>6. Written'
  BY <1>1, <1>2, <1>3 DEF Before, FInv, Written, IP!Slot
<1>7. FirstRound'
  <2>1. IP!Outstanding' = IP!Outstanding
    BY <1>1, OutstandingMoves DEF Before, FInv
  <2> QED BY <1>1, <1>2, <1>3, <2>1 DEF Before, FInv, FirstRound, One
<1> QED BY <1>3, <1>4, <1>5, <1>6, <1>7 DEF Before, FInv

\* A getter that is past its sem_wait runs behind what main has announced.
LEMMA BehindPosted ==
  ASSUME Before, Submitted < QUEUE_SIZE
  PROVE  /\ iqjj <= Submitted
         /\ \A w \in Workers : ipc[w] = "get_claim" => iqjj < Submitted
<1>1. /\ iqii = Submitted + One(ipc[Main] = "put_copy")
      /\ iqii = iqjj + IP!Outstanding
  BY DEF Before, FInv, FirstRound
<1>2. /\ IP!Outstanding \in Nat
      /\ ipc[Main] = "put_copy" => IP!Outstanding > 0
      /\ \A w \in Workers : ipc[w] = "get_claim" => IP!Outstanding > One(ipc[Main] = "put_copy")
  BY OutstandingMoves DEF Before, FInv
<1> QED BY <1>1, <1>2, Typed DEF One

\* It claims a ticket.
LEMMA WorkerFetchAddInv ==
  ASSUME Before, NEW w \in Workers, I!GetFetchAdd(w), UNCHANGED <<ovars, at, ii, printed>>
  PROVE  FInv'
<1>1. /\ ipc[w] = "get_claim" /\ ipc' = [ipc EXCEPT ![w] = "get_post"]
      /\ iidx' = [iidx EXCEPT ![w] = iqjj] /\ iqjj' = I!Inc(iqjj)
      /\ UNCHANGED <<ijobs, iqii, ifull, ibuf, itodo>>
  BY DEF I!GetFetchAdd, I!Goto
<1>2. /\ at[w] = "loop" /\ opc[w] = "out" /\ w \in Holding
  BY <1>1 DEF Before, FInv, WorkerPhase, Holding
<1>3. /\ ipc'[w] = "get_post" /\ iidx'[w] = iqjj
      /\ \A p \in {Main} \cup Workers : p # w => ipc'[p] = ipc[p] /\ iidx'[p] = iidx[p]
  BY <1>1, Typed, ProcsApart
<1>4. /\ FTypeOK' /\ PrinterPhase' /\ MainPhase' /\ WorkerPhase'
      /\ Holding' = Holding \cup {w} /\ Begun' = Begun /\ Submitted' = Submitted
      /\ at' = at /\ ofull' = ofull /\ opc' = opc /\ printed' = printed
      /\ ipc'[Main] = ipc[Main]
  BY <1>2, <1>3, WorkerGetFrame DEF InGet
<1>5. NoEarlyDone'
  BY <1>1, <1>4 DEF Before, FInv, NoEarlyDone, Late, Gone
<1>6. Conserved'
  <2>1. Holding' = Holding
    BY <1>2, <1>4
  <2> QED BY <1>1, <1>4, <2>1 DEF Before, FInv, Conserved, One
<1>7. Written'
  <2>1. iidx'[Main] = iidx[Main]
    BY <1>3, ProcsApart
  <2> QED BY <1>1, <1>3, <1>4, <2>1 DEF Before, FInv, Written, IP!Slot
<1>8. FirstRound'
  <2> SUFFICES ASSUME Submitted < QUEUE_SIZE
               PROVE  /\ iqii = Submitted + One(ipc[Main] = "put_copy")
                      /\ ipc[Main] = "put_copy" => iidx[Main] = Submitted
                      /\ iqii = iqjj' + IP!Outstanding'
                      /\ \A v \in Workers : ipc'[v] \in {"get_post", "get_copy"} => iidx'[v] < iqjj'
    BY <1>1, <1>3, <1>4, ProcsApart DEF FirstRound, One
  <2>1. /\ iqii = Submitted + One(ipc[Main] = "put_copy")
        /\ ipc[Main] = "put_copy" => iidx[Main] = Submitted
        /\ iqii = iqjj + IP!Outstanding
        /\ \A v \in Workers : ipc[v] \in {"get_post", "get_copy"} => iidx[v] < iqjj
    BY DEF Before, FInv, FirstRound
  <2>2. IP!Outstanding' = IP!Outstanding - 1 /\ IP!Outstanding \in Nat
    BY OutstandingMoves DEF Before, FInv
  <2>3. iqjj' = iqjj + 1
    BY <1>1, BehindPosted, Typed, ProcsApart DEF I!Inc
  <2>4. \A v \in Workers : ipc'[v] \in {"get_post", "get_copy"} => iidx'[v] < iqjj'
    BY <1>3, <2>1, <2>3, Typed, SMTT(30)
  <2> QED BY <2>1, <2>2, <2>3, <2>4, Typed
<1> QED BY <1>4, <1>5, <1>6, <1>7, <1>8 DEF Before, FInv

\* It gives its slot back before it has read it.
LEMMA WorkerGetPostInv ==
  ASSUME Before, NEW w \in Workers, I!GetPost(w), UNCHANGED <<ovars, at, ii, printed>>
  PROVE  FInv'
<1>1. /\ ipc[w] = "get_post" /\ ipc' = [ipc EXCEPT ![w] = "get_copy"]
      /\ itodo' = [itodo EXCEPT ![w] = {"number"}]
      /\ UNCHANGED <<ijobs, iqii, iqjj, ifull, iidx, ibuf>>
  BY DEF I!GetPost, I!Goto
<1>2. /\ at[w] = "loop" /\ opc[w] = "out" /\ w \in Holding
  BY <1>1 DEF Before, FInv, WorkerPhase, Holding
<1>3. /\ ipc'[w] = "get_copy" /\ itodo'[w] # {}
      /\ \A p \in {Main} \cup Workers : p # w => ipc'[p] = ipc[p] /\ itodo'[p] = itodo[p]
  BY <1>1, Typed, ProcsApart
<1>4. /\ FTypeOK' /\ PrinterPhase' /\ MainPhase' /\ WorkerPhase'
      /\ Holding' = Holding \cup {w} /\ Begun' = Begun /\ Submitted' = Submitted
      /\ at' = at /\ ofull' = ofull /\ opc' = opc /\ printed' = printed
      /\ ipc'[Main] = ipc[Main]
  BY <1>2, <1>3, WorkerGetFrame DEF InGet
<1>5. NoEarlyDone'
  BY <1>1, <1>4 DEF Before, FInv, NoEarlyDone, Late, Gone
<1>6. Conserved'
  <2>1. Holding' = Holding
    BY <1>2, <1>4
  <2> QED BY <1>1, <1>4, <2>1 DEF Before, FInv, Conserved, One
<1>7. Written'
  <2>1. itodo'[Main] = itodo[Main]
    BY <1>3, ProcsApart
  <2> QED BY <1>1, <1>3, <1>4, <2>1 DEF Before, FInv, Written, IP!Slot
<1>8. FirstRound'
  <2>1. IP!Outstanding' = IP!Outstanding
    BY OutstandingMoves DEF Before, FInv
  <2> QED BY <1>1, <1>3, <1>4, <2>1 DEF Before, FInv, FirstRound, One
<1> QED BY <1>4, <1>5, <1>6, <1>7, <1>8 DEF Before, FInv

\* It reads the job out of a slot main has written.
LEMMA WorkerLoadInv ==
  ASSUME Before, NEW w \in Workers, I!GetLoad(w, "number"), UNCHANGED <<ovars, at, ii, printed>>
  PROVE  FInv'
<1> DEFINE slot == IP!Slot(iidx[w])
<1>1. /\ ipc[w] = "get_copy"
      /\ ibuf' = [ibuf EXCEPT ![w]["number"] = ijobs[slot]["number"]]
      /\ itodo' = [itodo EXCEPT ![w] = @ \ {"number"}]
      /\ UNCHANGED <<ijobs, iqii, iqjj, ifull, ipc, iidx>>
  BY DEF I!GetLoad, I!Slot, IP!Slot
<1>2. /\ at[w] = "loop" /\ opc[w] = "out" /\ w \in Holding
  BY <1>1 DEF Before, FInv, WorkerPhase, Holding
<1>3. slot \in 0 .. QUEUE_SIZE - 1
  BY Typed
<1>4. /\ ibuf'[w]["number"] = ijobs[slot]["number"]
      /\ \A p \in {Main} \cup Workers : p # w => ibuf'[p] = ibuf[p] /\ itodo'[p] = itodo[p]
  BY <1>1, Typed
<1>5. /\ FTypeOK' /\ PrinterPhase' /\ MainPhase' /\ WorkerPhase'
      /\ Holding' = Holding \cup {w} /\ Begun' = Begun /\ Submitted' = Submitted
      /\ at' = at /\ ofull' = ofull /\ opc' = opc /\ printed' = printed
      /\ ipc'[Main] = ipc[Main]
  BY <1>1, <1>2, WorkerGetFrame DEF InGet
<1>6. ijobs[slot]["number"] # 0
  <2>1. CASE Submitted < QUEUE_SIZE
    <3>1. iidx[w] < Submitted
      <4>1. iidx[w] < iqjj
        BY <1>1, <2>1 DEF Before, FInv, FirstRound
      <4> QED BY <2>1, <4>1, BehindPosted, Typed
    <3>2. slot = iidx[w]
      <4>1. iidx[w] \in 0 .. QUEUE_SIZE - 1
        BY <2>1, <3>1, Typed, ProcsApart, SMTT(30)
      <4>2. iidx[w] % QUEUE_SIZE = iidx[w]
        BY <4>1, ProcsApart
      <4> QED BY <4>2 DEF IP!Slot
    <3> QED BY <1>3, <3>1, <3>2 DEF Before, FInv, Written
  <2>2. CASE ~(Submitted < QUEUE_SIZE)
    <3>1. slot < Submitted
      BY <1>3, <2>2, Typed, ProcsApart
    <3> QED BY <1>3, <3>1 DEF Before, FInv, Written
  <2> QED BY <2>1, <2>2
<1>7. NoEarlyDone'
  <2> SUFFICES ASSUME ~Late
               PROVE  /\ \A s \in 0 .. QUEUE_SIZE - 1 : ijobs[s]["number"] >= 0
                      /\ \A p \in {Main} \cup Workers : ibuf'[p]["number"] >= 0
                      /\ \A v \in Workers : ~Gone(v)
    BY <1>1, <1>5 DEF NoEarlyDone, Late, Gone
  <2>1. /\ \A s \in 0 .. QUEUE_SIZE - 1 : ijobs[s]["number"] >= 0
        /\ \A p \in {Main} \cup Workers : ibuf[p]["number"] >= 0
        /\ \A v \in Workers : ~Gone(v)
    BY DEF Before, FInv, NoEarlyDone
  <2> QED BY <1>3, <1>4, <2>1
<1>8. Conserved'
  <2>1. Holding' = Holding
    BY <1>2, <1>5
  <2> QED BY <1>1, <1>5, <2>1 DEF Before, FInv, Conserved, One
<1>9. Written'
  <2>1. itodo'[Main] = itodo[Main] /\ ibuf'[Main] = ibuf[Main]
    BY <1>4, ProcsApart
  <2> QED BY <1>1, <1>2, <1>4, <1>5, <1>6, <2>1 DEF Before, FInv, Written, IP!Slot
<1>10. FirstRound'
  <2>1. IP!Outstanding' = IP!Outstanding
    BY <1>1, OutstandingMoves DEF Before, FInv
  <2> QED BY <1>1, <1>5, <2>1 DEF Before, FInv, FirstRound, One
<1> QED BY <1>5, <1>7, <1>8, <1>9, <1>10 DEF Before, FInv

\* It returns from queue_get, and ends if the number is negative.
LEMMA WorkerGotInv ==
  ASSUME Before, NEW w \in Workers, WorkerGot(w)
  PROVE  FInv'
<1>1. /\ ipc[w] = "get_copy" /\ itodo[w] = {} /\ ipc' = [ipc EXCEPT ![w] = "out"]
      /\ at' = [at EXCEPT ![w] = IF ibuf[w]["number"] < 0 THEN "exited" ELSE "put"]
      /\ UNCHANGED <<ijobs, iqii, iqjj, ifull, iidx, ibuf, itodo>>
      /\ UNCHANGED <<ovars, ii, printed>> /\ I!GetReturn(w)
  BY DEF WorkerGot, I!GetReturn, I!Goto, GoOn
<1>2. opc' = opc /\ ofull' = ofull /\ printed' = printed /\ ii' = ii
  BY <1>1 DEF ovars
<1>3. /\ at[w] = "loop" /\ opc[w] = "out" /\ ibuf[w]["number"] # 0
  BY <1>1 DEF Before, FInv, WorkerPhase, Written
<1>4. /\ ipc'[w] = "out"
      /\ at'[w] = IF ibuf[w]["number"] < 0 THEN "exited" ELSE "put"
      /\ \A v \in Workers : v # w => at'[v] = at[v] /\ ipc'[v] = ipc[v]
      /\ at'[Main] = at[Main] /\ at'[Printer] = at[Printer] /\ ipc'[Main] = ipc[Main]
  BY <1>1, Typed, ProcsApart
<1>5. FTypeOK'
  <2>1. at' \in [Processes -> MainLabels \cup WorkerLabels]
    BY <1>1 DEF Before, FInv, FTypeOK, MainLabels, WorkerLabels
  <2> QED BY <1>2, <2>1 DEF Before, FInv, FTypeOK, O!Job
<1>6. MainPhase'
  <2>1. \A v \in Workers : at[v] \in {"unborn", "reaped"} => at'[v] = at[v]
    BY <1>3, <1>4
  <2>2. ii <= NumProcs => \A v \in 1 .. ii : v \in Workers
    BY Typed, ProcsApart DEF Workers
  <2>3. at[Main] \in {"reap", "done", "aborted"} =>
          ii <= NumProcs /\ \A v \in 1 .. ii : at[v] = "reaped"
    BY DEF Before, FInv, MainPhase
  <2>4. at[Main] \in {"reap", "done", "aborted"} => \A v \in 1 .. ii : at'[v] = "reaped"
    BY <2>1, <2>2, <2>3
  <2> QED BY <1>2, <1>4, <2>1, <2>4 DEF Before, FInv, MainPhase, Late
<1>7. WorkerPhase'
  BY <1>2, <1>3, <1>4 DEF Before, FInv, WorkerPhase, WorkerLabels, InGet
<1>8. PrinterPhase'
  BY <1>2, <1>4 DEF Before, FInv, PrinterPhase, Gone
<1>9. Begun' = Begun /\ Submitted' = Submitted
  BY <1>2, <1>4 DEF Begun, Submitted
<1>10. NoEarlyDone'
  <2>1. Late' = Late
    BY <1>4 DEF Late
  <2>2. ~Late => /\ \A s \in 0 .. QUEUE_SIZE - 1 : ijobs[s]["number"] >= 0
                 /\ \A p \in {Main} \cup Workers : ibuf[p]["number"] >= 0
                 /\ \A v \in Workers : ~Gone(v)
    BY DEF Before, FInv, NoEarlyDone
  <2>3. ~Late => ibuf[w]["number"] \in Int /\ ibuf[w]["number"] >= 0
    BY <2>2, Typed
  <2>4. ~Late => at'[w] = "put"
    BY <1>4, <2>3
  <2>5. ~Late => \A v \in Workers : at'[v] \notin {"exited", "reaped"}
    BY <1>4, <2>2, <2>4 DEF Gone
  <2> QED BY <1>1, <2>1, <2>2, <2>5 DEF NoEarlyDone, Gone
<1>11. Conserved'
  <2>1. Holding' = Holding
    BY <1>1, <1>2, <1>3, <1>4 DEF Holding, Gone
  <2> QED BY <1>1, <1>2, <1>4, <1>9, <2>1 DEF Before, FInv, Conserved, One
<1>12. Written'
  <2>1. ibuf[w]["number"] \in Int
    BY Typed
  <2>2. at'[w] = "put" => ibuf[w]["number"] > 0
    BY <1>3, <1>4, <2>1
  <2> QED BY <1>1, <1>4, <1>9, <2>2 DEF Before, FInv, Written, IP!Slot
<1>13. FirstRound'
  <2>1. IP!Outstanding' = IP!Outstanding
    BY <1>1, OutstandingMoves DEF Before, FInv
  <2> QED BY <1>1, <1>4, <1>9, <2>1 DEF Before, FInv, FirstRound, One
<1> QED BY <1>5, <1>6, <1>7, <1>8, <1>10, <1>11, <1>12, <1>13 DEF Before, FInv

\* What the steps inside oqueue have in common.
LEMMA InOqueue ==
  ASSUME Before, UNCHANGED <<ivars, ii>>,
         \A p \in {Main, Printer} : at'[p] = at[p],
         \A w \in Workers : at'[w] = at[w] \/ (at[w] = "put" /\ at'[w] = "loop")
  PROVE  /\ MainPhase' /\ NoEarlyDone' /\ Written' /\ FirstRound' /\ Begun' = Begun
         /\ ipc' = ipc /\ ifull' = ifull
<1>1. ijobs' = ijobs /\ ipc' = ipc /\ ibuf' = ibuf /\ ifull' = ifull /\ ii' = ii
  BY DEF ivars
<1>2. at'[Main] = at[Main] /\ at'[Printer] = at[Printer]
  OBVIOUS
<1>3. MainPhase'
  <2>1. \A v \in Workers : at[v] \in {"unborn", "reaped"} => at'[v] = at[v]
    OBVIOUS
  <2>2. ii <= NumProcs => \A v \in 1 .. ii : v \in Workers
    BY Typed, ProcsApart DEF Workers
  <2>3. at[Main] \in {"reap", "done", "aborted"} =>
          ii <= NumProcs /\ \A v \in 1 .. ii : at[v] = "reaped"
    BY DEF Before, FInv, MainPhase
  <2>4. at[Main] \in {"reap", "done", "aborted"} => \A v \in 1 .. ii : at'[v] = "reaped"
    BY <2>1, <2>2, <2>3
  <2> QED BY <1>1, <1>2, <2>1, <2>4 DEF Before, FInv, MainPhase, Late
<1>4. NoEarlyDone'
  BY <1>1, <1>2 DEF Before, FInv, NoEarlyDone, Late, Gone
<1>5. Begun' = Begun /\ Submitted' = Submitted
  BY <1>1, <1>2 DEF Begun, Submitted
<1>6. Written' /\ FirstRound'
  BY <1>5, IqueueSame
<1> QED BY <1>1, <1>3, <1>4, <1>5, <1>6

\* A worker begins to put a result.
LEMMA WorkerPutInv ==
  ASSUME Before, NEW w \in Workers, WorkerPut(w)
  PROVE  FInv'
<1>1. /\ at[w] = "put" /\ at' = [at EXCEPT ![w] = "loop"]
      /\ opc[w] = "out" /\ opc' = [opc EXCEPT ![w] = "put_claim"] /\ ofull' = ofull
      /\ UNCHANGED <<ivars, ii, printed>>
  BY DEF WorkerPut, O!PutWait, O!Goto, GoOn
<1>2. /\ at'[w] = "loop" /\ opc'[w] = "put_claim" /\ opc'[Printer] = opc[Printer]
      /\ at'[Main] = at[Main] /\ at'[Printer] = at[Printer]
      /\ \A v \in Workers : v # w => at'[v] = at[v] /\ opc'[v] = opc[v]
  BY <1>1, Typed, ProcsApart
<1>3. /\ MainPhase' /\ NoEarlyDone' /\ Written' /\ FirstRound' /\ Begun' = Begun
      /\ ipc' = ipc /\ ifull' = ifull
  BY <1>1, <1>2, InOqueue
<1>4. FTypeOK'
  <2>1. at' \in [Processes -> MainLabels \cup WorkerLabels]
    BY <1>1 DEF Before, FInv, FTypeOK, MainLabels, WorkerLabels
  <2> QED BY <1>1, <2>1 DEF Before, FInv, FTypeOK, O!Job
<1>5. WorkerPhase'
  <2>1. ipc[w] = "out"
    BY <1>1 DEF Before, FInv, WorkerPhase
  <2> QED BY <1>2, <1>3, <2>1 DEF Before, FInv, WorkerPhase, WorkerLabels, InPut
<1>6. PrinterPhase'
  BY <1>1, <1>2 DEF Before, FInv, PrinterPhase, Gone
<1>7. Conserved'
  <2>1. Holding' = Holding
    BY <1>1, <1>2, <1>3 DEF Holding, Gone
  <2> QED BY <1>1, <1>2, <1>3, <2>1 DEF Before, FInv, Conserved, One
<1> QED BY <1>3, <1>4, <1>5, <1>6, <1>7 DEF Before, FInv

\* It is somewhere inside queue_put.
LEMMA WorkerInPutInv ==
  ASSUME Before, NEW w \in Workers, WorkerInPut(w)
  PROVE  FInv'
<1>1. /\ UNCHANGED <<ivars, at, ii, printed>>
      /\ \/ /\ opc[w] = "put_claim" /\ opc' = [opc EXCEPT ![w] = "put_copy"] /\ ofull' = ofull
         \/ opc[w] = "put_copy" /\ opc' = opc /\ ofull' = ofull
         \/ /\ opc[w] = "put_copy" /\ opc' = [opc EXCEPT ![w] = "out"] /\ ofull' = ofull + 1
  BY DEF WorkerInPut, O!PutStep, O!PutFetchAdd, O!PutStore, O!PutPost, O!Goto
<1>2. /\ opc'[Printer] = opc[Printer] /\ opc[w] # "out" /\ opc'[w] \in InPut
      /\ \A v \in Workers : v # w => opc'[v] = opc[v]
      /\ \/ opc'[w] # "out" /\ ofull' = ofull
         \/ opc'[w] = "out" /\ ofull' = ofull + 1
  BY <1>1, Typed, ProcsApart DEF InPut
<1>3. /\ MainPhase' /\ NoEarlyDone' /\ Written' /\ FirstRound' /\ Begun' = Begun
      /\ ipc' = ipc /\ ifull' = ifull
  BY <1>1, InOqueue
<1>4. FTypeOK' /\ PrinterPhase'
  BY <1>1, <1>2 DEF Before, FInv, FTypeOK, PrinterPhase, Gone, O!Job
<1>5. /\ at[w] = "loop" /\ ipc[w] = "out"
  BY <1>2 DEF Before, FInv, WorkerPhase
<1>6. WorkerPhase'
  BY <1>1, <1>2, <1>3, <1>5 DEF Before, FInv, WorkerPhase
<1>7. Conserved'
  <2>1. w \in Holding /\ Cardinality(Holding) \in Nat
    BY <1>2, HoldingCount DEF Holding
  <2>2. CASE opc'[w] # "out" /\ ofull' = ofull
    <3>1. Holding' = Holding
      BY <1>1, <1>2, <1>3, <2>2 DEF Holding, Gone
    <3> QED BY <1>1, <1>2, <1>3, <2>2, <3>1 DEF Before, FInv, Conserved, One
  <2>3. CASE opc'[w] = "out" /\ ofull' = ofull + 1
    <3>1. Holding' = Holding \ {w}
      BY <1>1, <1>2, <1>3, <1>5, <2>3 DEF Holding, Gone
    <3>2. Cardinality(Holding') = Cardinality(Holding) - 1
      BY <2>1, <3>1, HoldingCount
    <3>3. /\ ifull \in Nat /\ ofull \in Nat /\ Len(printed) \in Nat
          /\ ifull' = ifull /\ Begun' = Begun /\ ofull' = ofull + 1 /\ printed' = printed
          /\ opc'[Printer] = opc[Printer] /\ ipc' = ipc
      BY <1>1, <1>2, <1>3, <2>3, Typed
    <3>4. Conserved
      BY DEF Before, FInv
    <3>5. ofull' + Cardinality(Holding') = ofull + Cardinality(Holding)
      BY <2>1, <3>2, <3>3
    <3>6. /\ One(ipc[Main] # "out")' = One(ipc[Main] # "out")
          /\ One(opc[Printer] # "out")' = One(opc[Printer] # "out")
          /\ One(ipc[Main] # "out") \in Nat /\ One(opc[Printer] # "out") \in Nat
      BY <3>3 DEF One
    <3> QED BY <2>1, <3>2, <3>3, <3>4, <3>5, <3>6, SMTT(30) DEF Conserved
  <2> QED BY <1>2, <2>2, <2>3
<1> QED BY <1>3, <1>4, <1>6, <1>7 DEF Before, FInv

\* The printer takes a result, and prints it.
LEMMA PrinterInv ==
  ASSUME Before, PrinterGet \/ PrinterInGet \/ PrinterGot
  PROVE  FInv'
<1>1. /\ UNCHANGED <<ivars, at, ii>>
      /\ \/ /\ at[Printer] = "loop" /\ opc[Printer] = "out" /\ ofull > 0 /\ ofull' = ofull - 1
            /\ opc' = [opc EXCEPT ![Printer] = "get_claim"] /\ printed' = printed
         \/ /\ opc[Printer] # "out" /\ ofull' = ofull /\ printed' = printed
            /\ \/ opc' = opc
               \/ opc' = [opc EXCEPT ![Printer] = "get_post"]
               \/ opc' = [opc EXCEPT ![Printer] = "get_copy"]
         \/ /\ opc[Printer] # "out" /\ ofull' = ofull /\ opc' = [opc EXCEPT ![Printer] = "out"]
            /\ printed' = Append(printed, obuf[Printer])
  BY DEF PrinterGet, PrinterInGet, PrinterGot, O!GetWait, O!GetFetchAdd, O!GetPost, O!GetLoad,
         O!GetReturn, O!Goto
<1>2. at[Printer] = "loop" /\ opc[Printer] \in InGet
  BY <1>1 DEF Before, FInv, PrinterPhase
<1>3. /\ opc'[Printer] \in InGet
      /\ \A w \in Workers : opc'[w] = opc[w]
      /\ \/ /\ opc[Printer] = "out" /\ opc'[Printer] # "out" /\ ofull' = ofull - 1
            /\ printed' = printed
         \/ /\ opc[Printer] # "out" /\ opc'[Printer] # "out" /\ ofull' = ofull
            /\ printed' = printed
         \/ /\ opc[Printer] # "out" /\ opc'[Printer] = "out" /\ ofull' = ofull
            /\ printed' = Append(printed, obuf[Printer])
  BY <1>1, <1>2, Typed, ProcsApart DEF InGet
<1>4. /\ MainPhase' /\ NoEarlyDone' /\ Written' /\ FirstRound' /\ Begun' = Begun
      /\ ipc' = ipc /\ ifull' = ifull
  BY <1>1, InOqueue
<1>5. /\ printed' \in Seq(O!Job) /\ Len(printed) \in Nat
      /\ Len(printed') = Len(printed)
           + One(opc[Printer] # "out" /\ opc'[Printer] = "out")
  <2>1. obuf[Printer] \in O!Job /\ printed \in Seq(O!Job)
    BY Typed
  <2>2. /\ Append(printed, obuf[Printer]) \in Seq(O!Job)
        /\ Len(Append(printed, obuf[Printer])) = Len(printed) + 1
        /\ Len(printed) \in Nat
    BY <2>1, AppendProperties, LenProperties
  <2> QED BY <1>3, <2>1, <2>2 DEF One
<1>6. FTypeOK'
  BY <1>1, <1>5 DEF Before, FInv, FTypeOK, O!Job
<1>7. WorkerPhase'
  BY <1>1, <1>3, <1>4 DEF Before, FInv, WorkerPhase
<1>8. Holding' = Holding /\ Cardinality(Holding) \in Nat
  BY <1>1, <1>3, <1>4, HoldingCount DEF Holding, Gone
<1>9. Conserved'
  <2>1. /\ ifull \in Nat /\ ofull \in Nat /\ Len(printed) \in Nat
    BY Typed
  <2>2. Conserved
    BY DEF Before, FInv
  <2>3. Cardinality(Holding') = Cardinality(Holding) /\ Cardinality(Holding) \in Nat
        /\ Begun' = Begun /\ ifull' = ifull
    BY <1>4, <1>8
  <2>4. /\ One(ipc[Main] # "out")' = One(ipc[Main] # "out")
        /\ One(ipc[Main] # "out") \in Nat /\ One(opc[Printer] # "out") \in Nat
    BY <1>4 DEF One
  <2>5. \/ /\ One(opc[Printer] # "out") = 0 /\ One(opc[Printer] # "out")' = 1
           /\ ofull' = ofull - 1 /\ Len(printed') = Len(printed)
        \/ /\ One(opc[Printer] # "out")' = One(opc[Printer] # "out")
           /\ ofull' = ofull /\ Len(printed') = Len(printed)
        \/ /\ One(opc[Printer] # "out") = 1 /\ One(opc[Printer] # "out")' = 0
           /\ ofull' = ofull /\ Len(printed') = Len(printed) + 1
    BY <1>3, <1>5, <2>1 DEF One
  <2> QED BY <2>1, <2>2, <2>3, <2>4, <2>5, SMTT(30) DEF Conserved
<1>10. PrinterPhase'
  <2>1. Begun \in Nat /\ Begun <= Count
    <3>1. ~Late /\ ii <= (IF at[Main] = "submit" THEN Count ELSE NumProcs)
          /\ at[Main] \in {"fork", "submit"}
      BY <1>2 DEF Before, FInv, MainPhase, Late, MainLabels
    <3> QED BY <3>1, Typed, ProcsApart, SMTT(30) DEF Begun
  <2>2. Len(printed') <= Count
    <3>1. /\ ifull \in Nat /\ ofull \in Nat /\ Len(printed) \in Nat
      BY Typed
    <3>2. Len(printed) + One(opc[Printer] # "out") <= Begun
      BY <1>8, <3>1 DEF Before, FInv, Conserved, One
    <3> QED BY <1>5, <2>1, <3>2, ProcsApart DEF One
  <2> QED BY <1>1, <1>2, <1>3, <2>2 DEF PrinterPhase, Gone, PrinterLabels
<1> QED BY <1>4, <1>6, <1>7, <1>9, <1>10 DEF Before, FInv

LEMMA FInitInv == FInit => FInv
<1> SUFFICES ASSUME FInit PROVE FInv
  OBVIOUS
<1>1. IP!IInv /\ OP!IInv
  BY QueuesInit
<1>2. /\ at = [p \in Processes |-> IF p = Main THEN "fork" ELSE "unborn"]
      /\ ii = 0 /\ printed = <<>> /\ ifull = 0 /\ ofull = 0 /\ iqii = 0 /\ iqjj = 0
      /\ ipc = [p \in {Main} \cup Workers |-> "out"]
      /\ opc = [p \in Workers \cup {Printer} |-> "out"]
      /\ ijobs = [s \in 0 .. QUEUE_SIZE - 1 |-> [w \in {"number"} |-> 0]]
      /\ ibuf = [p \in {Main} \cup Workers |-> [w \in {"number"} |-> 0]]
  BY DEF FInit, I!Init, O!Init, I!Procs, O!Procs, I!NoJob, I!Slots
<1>3. /\ at[Main] = "fork" /\ at[Printer] = "unborn" /\ ipc[Main] = "out" /\ opc[Printer] = "out"
      /\ \A w \in Workers : at[w] = "unborn" /\ ipc[w] = "out" /\ opc[w] = "out"
  BY <1>2, ProcsApart DEF Processes
<1>4. FTypeOK
  BY <1>2 DEF FTypeOK, MainLabels, WorkerLabels
<1>5. MainPhase /\ WorkerPhase /\ PrinterPhase
  BY <1>2, <1>3, ProcsApart
  DEF MainPhase, WorkerPhase, PrinterPhase, Gone, Late, MainLabels, WorkerLabels, PrinterLabels,
      InPut, InGet
<1>6. NoEarlyDone
  BY <1>2, <1>3 DEF NoEarlyDone, Gone
<1>7. Begun = 0 /\ Submitted = 0
  BY <1>3 DEF Begun, Submitted, One
<1>8. Conserved
  <2>1. Holding = {}
    BY <1>3 DEF Holding, Gone
  <2> QED BY <1>2, <1>3, <1>7, <2>1, FS_EmptySet DEF Conserved, One
<1>9. Written
  BY <1>3, <1>7 DEF Written
<1>10. FirstRound
  <2>1. IP!At("put_copy") = {} /\ IP!At("get_claim") = {}
    BY <1>3 DEF IP!At, IP!Procs
  <2>2. IP!Outstanding = 0
    BY <1>2, <2>1, QueueAssumptions, IP!CountNone DEF IP!Outstanding
  <2> QED BY <1>2, <1>3, <1>7, <2>2 DEF FirstRound, One
<1> QED BY <1>1, <1>4, <1>5, <1>6, <1>8, <1>9, <1>10 DEF FInv

LEMMA FStepInv == FInv /\ [FNext]_fvars => FInv'
<1> SUFFICES ASSUME FInv, [FNext]_fvars PROVE FInv'
  OBVIOUS
<1>1. Before
  BY QueuesStep DEF Before
<1>2. CASE MainStep
  <2>1. CASE MainPut
    BY <1>1, <2>1, MainFetchAddInv, MainStoreInv, MainPostInv DEF MainPut, I!PutStep
  <2> QED BY <1>1, <1>2, <2>1, ForkInv, NextLoopInv, EndInv, MainPutWaitInv DEF MainStep
<1>3. ASSUME NEW w \in Workers, WorkerStep(w)
      PROVE  FInv'
  <2>1. CASE WorkerInGet(w)
    BY <1>1, <2>1, WorkerFetchAddInv, WorkerGetPostInv, WorkerLoadInv DEF WorkerInGet
  <2> QED BY <1>1, <1>3, <2>1, WorkerGetInv, WorkerGotInv, WorkerPutInv, WorkerInPutInv
          DEF WorkerStep
<1>4. CASE PrinterStep
  BY <1>1, <1>4, PrinterInv, EndInv DEF PrinterStep
<1>5. CASE UNCHANGED fvars
  <2>1. UNCHANGED <<ivars, ovars>> /\ at' = at /\ ii' = ii /\ printed' = printed
    BY <1>5 DEF fvars, ivars, ovars
  <2>2. /\ MainPhase' /\ NoEarlyDone' /\ Written' /\ FirstRound' /\ Begun' = Begun
        /\ ipc' = ipc /\ ifull' = ifull
    BY <1>1, <2>1, InOqueue
  <2>3. opc' = opc /\ ofull' = ofull
    BY <2>1 DEF ovars
  <2>4. FTypeOK' /\ WorkerPhase' /\ PrinterPhase'
    BY <2>1, <2>2, <2>3 DEF FInv, FTypeOK, WorkerPhase, PrinterPhase, Gone, O!Job
  <2>5. Conserved'
    <3>1. Holding' = Holding
      BY <2>1, <2>2, <2>3 DEF Holding, Gone
    <3> QED BY <2>1, <2>2, <2>3, <3>1 DEF FInv, Conserved, One
  <2> QED BY <1>1, <2>2, <2>4, <2>5 DEF Before, FInv
<1> QED BY <1>2, <1>3, <1>4, <1>5 DEF FNext

LEMMA ProgramInvariance == FSpec => []FInv
<1>1. FInit => FInv  BY FInitInv
<1>2. FInv /\ [FNext]_fvars => FInv'  BY FStepInv
<1> QED BY <1>1, <1>2, PTL DEF FSpec

-----------------------------------------------------------------------------
(***************************************************************************)
(* The results.                                                            *)
(***************************************************************************)

\* No worker takes a job -1 while there is work: with any number of workers and jobs, a
\* worker has left only if the printer has printed its last result and left.
THEOREM WorkersLeaveLast == FSpec => []WorkersOutliveThePrinter
<1>1. FInv => WorkersOutliveThePrinter
  BY DEF FInv, WorkersOutliveThePrinter, NoEarlyDone, MainPhase, Gone
<1> QED BY <1>1, ProgramInvariance, PTL

\* With any number of workers, jobs and slots, factor is called only with a number that
\* main submitted, never with the zero of a slot that has not been written.
THEOREM FactoredWasSubmitted == FSpec => []OnlySubmittedFactored
<1>1. FInv => OnlySubmittedFactored
  <2> SUFFICES ASSUME FInv, NEW w \in Workers, at[w] = "put"
               PROVE  ibuf[w]["number"] \in Numbers
    BY DEF OnlySubmittedFactored
  <2>1. ibuf[w]["number"] \in Word
    BY QueueTypes DEF FInv
  <2>2. ibuf[w]["number"] > 0
    BY DEF FInv, Written
  <2> QED BY <2>1, <2>2, ProcsApart DEF Word
<1> QED BY <1>1, ProgramInvariance, PTL

\* When main has reaped all the workers, every job has been printed or has ended a worker,
\* so the semaphores are down and the tickets of each queue agree.
LEMMA BothEmpty ==
  ASSUME FInv, at[Main] = "reap", ii = NumProcs
  PROVE  iqii = iqjj /\ oqii = oqjj
<1>1. \A w \in Workers : at[w] = "reaped"
  BY DEF FInv, MainPhase, Workers
<1>2. /\ \A w \in Workers : ipc[w] = "out" /\ opc[w] = "out"
      /\ ipc[Main] = "out" /\ at[Printer] = "reaped"
  BY <1>1 DEF FInv, MainPhase, WorkerPhase, Late
<1>3. opc[Printer] = "out" /\ Len(printed) = Count
  BY <1>2 DEF FInv, PrinterPhase, Gone
<1>4. ifull = 0 /\ ofull = 0
  <2>1. Cardinality(Holding) = NumProcs
    BY <1>1, AllGone DEF Gone
  <2>2. Begun = Count + NumProcs
    BY DEF Begun
  <2>3. One(ipc[Main] # "out") = 0 /\ One(opc[Printer] # "out") = 0
    BY <1>2, <1>3 DEF One
  <2>4. Conserved /\ ifull \in Nat /\ ofull \in Nat
    BY QueueTypes DEF FInv
  <2> QED BY <1>3, <2>1, <2>2, <2>3, <2>4, ProcsApart DEF Conserved
<1>5. IP!Outstanding = 0
  <2>1. IP!At("put_copy") = {} /\ IP!At("get_claim") = {}
    BY <1>2 DEF IP!At, IP!Procs
  <2> QED BY <1>4, <2>1, QueueAssumptions, IP!CountNone DEF IP!Outstanding
<1>6. OP!Outstanding = 0
  <2>1. OP!At("put_copy") = {} /\ OP!At("get_claim") = {}
    BY <1>2, <1>3 DEF OP!At, OP!Procs
  <2> QED BY <1>4, <2>1, QueueAssumptions, OP!CountNone DEF OP!Outstanding
<1>7. /\ iqii \in 0 .. UINT_SPAN - 1 /\ iqjj \in 0 .. UINT_SPAN - 1
      /\ iqii = iqjj + 0 \/ iqii + UINT_SPAN = iqjj + 0
  BY <1>5, QueueTypes DEF FInv, IP!IInv, IP!TicketEquation
<1>8. /\ oqii \in 0 .. UINT_SPAN - 1 /\ oqjj \in 0 .. UINT_SPAN - 1
      /\ oqii = oqjj + 0 \/ oqii + UINT_SPAN = oqjj + 0
  BY <1>6 DEF FInv, OP!IInv, OP!TicketEquation, OP!TypeOK, OP!UInt
<1> QED BY <1>7, <1>8, ProcsApart

\* The assertions of free_queue never fail.
THEOREM QueuesAreEmptyAtTheEnd == FSpec => []QueuesEmptiedAtCleanup
<1>1. FInit => QueuesEmptiedAtCleanup
  BY FInitInv DEF FInit, QueuesEmptiedAtCleanup, Processes
<1>2. FInv /\ QueuesEmptiedAtCleanup /\ [FNext]_fvars => QueuesEmptiedAtCleanup'
  <2> SUFFICES ASSUME FInv, at[Main] # "aborted", [FNext]_fvars
               PROVE  at'[Main] # "aborted"
    BY DEF QueuesEmptiedAtCleanup
  <2>1. DOMAIN at = Processes /\ Main \in Processes /\ Main \notin Workers /\ Main # Printer
    BY ProcsApart DEF FInv, FTypeOK, Processes
  <2>2. CASE FreeQueues
    BY <2>1, <2>2, BothEmpty DEF FreeQueues, GoOn
  <2>3. ASSUME NEW w \in Workers, WorkerStep(w)
        PROVE  at'[Main] = at[Main]
    BY <2>1, <2>3 DEF WorkerStep, WorkerGet, WorkerInGet, WorkerGot, WorkerPut, WorkerInPut, GoOn
  <2>4. CASE PrinterStep
    BY <2>1, <2>4 DEF PrinterStep, PrinterGet, PrinterInGet, PrinterGot, PrinterExit, GoOn
  <2>5. CASE ForkWorker \/ ReapWorker
    <3>1. ii + 1 # Main
      BY <2>5 DEF FInv, FTypeOK, Main
    <3> QED BY <2>1, <2>5, <3>1 DEF ForkWorker, ReapWorker, GoOn
  <2>6. CASE ForkPrinter \/ FactorWaitDone \/ AllDonesSubmitted
    BY <2>1, <2>6 DEF ForkPrinter, FactorWaitDone, AllDonesSubmitted, GoOn
  <2>7. CASE SubmitJob \/ MainPut \/ SubmitDone
    BY <2>7 DEF SubmitJob, MainPut, SubmitDone
  <2>8. CASE UNCHANGED fvars
    BY <2>8 DEF fvars
  <2> QED BY <2>2, <2>3, <2>4, <2>5, <2>6, <2>7, <2>8 DEF FNext, MainStep
<1> QED BY <1>1, <1>2, ProgramInvariance, PTL DEF FSpec

-----------------------------------------------------------------------------
(***************************************************************************)
(* The inductive invariant.  A batch never wraps, neither around the ring  *)
(* nor around unsigned int, so ticket t is the job sent[t + 1] and its     *)
(* slot is slot t.                                                         *)
(***************************************************************************)

\* How many jobs are written as a whole and announced by sem_post(full).
Posted == Len(sent) - (IF \E p \in Putters : pc[p] # "out" THEN 1 ELSE 0)

\* The getters that hold a ticket.
Holders == {p \in Getters : pc[p] \in {"get_post", "get_copy"}}

BTypeOK ==
  /\ sent \in Seq(Job) /\ Len(sent) <= Batch
  /\ got \in Seq([ticket : UInt, job : Job])
  /\ \A p \in Putters : pc[p] \in {"out", "put_claim", "put_copy"}
  /\ \A p \in Getters : pc[p] \in {"out", "get_claim", "get_post", "get_copy"}

\* The tickets count jobs: the wrap in TicketEquation does not happen.
NoWrap ==
  /\ qii = qjj + Outstanding
  /\ \A p \in Putters : Len(sent) = qii + (IF pc[p] = "put_claim" THEN 1 ELSE 0)

\* The putter writes its last job into the slot behind the announced ones.
PutterAtLast ==
  \A p \in Putters :
    /\ pc[p] # "out" => Len(sent) > 0 /\ buf[p] = sent[Len(sent)]
    /\ pc[p] = "put_copy" =>
         /\ idx[p] = Len(sent) - 1
         /\ \A w \in Parts \ todo[p] : jobs[idx[p]][w] = buf[p][w]

\* Announced slots hold the jobs that were sent.
SlotsWritten == \A t \in 0 .. Posted - 1 : jobs[t] = sent[t + 1]

\* A getter reads an announced slot, and has read part of the job sent for it.
GettersBehind ==
  \A p \in Holders :
    /\ idx[p] < qjj
    /\ pc[p] = "get_copy" => \A w \in Parts \ todo[p] : buf[p][w] = sent[idx[p] + 1][w]

\* A ticket is held by one getter or was returned once.
TicketsOnce ==
  /\ \A p, q \in Holders : idx[p] = idx[q] => p = q
  /\ \A p \in Holders, k \in DOMAIN got : idx[p] # got[k].ticket

\* What was returned was claimed.
GotClaimed ==
  \A k \in DOMAIN got : got[k].ticket < qjj /\ got[k].job = sent[got[k].ticket + 1]

BInv == /\ IInv /\ BTypeOK /\ NoWrap /\ PutterAtLast /\ SlotsWritten
        /\ GettersBehind /\ TicketsOnce /\ GotClaimed /\ AtMostOnce


-----------------------------------------------------------------------------
(***************************************************************************)
(* There is one putter, and getters are others.                            *)
(***************************************************************************)
LEMMA OnePutter == \E P : Putters = {P} /\ P \notin Getters
<1>1. PICK P : Putters = {P}
  BY SharedQueueAssumption, OneBatchAssumption, FS_Singleton
<1> QED BY <1>1, OneBatchAssumption

\* A batch is no longer than the ring, so its tickets are their slots.
LEMMA TicketIsSlot ==
  ASSUME NEW t \in Nat, t < Batch
  PROVE  t \in UInt /\ Slot(t) = t /\ t \in Slots
<1>1. t \in 0 .. QUEUE_SIZE - 1 /\ QUEUE_SIZE \in Nat \ {0} /\ QUEUE_SIZE < UINT_SPAN
  BY SharedQueueAssumption, OneBatchAssumption
<1>2. t % QUEUE_SIZE = t
  BY <1>1
<1> QED BY <1>1, <1>2, SharedQueueAssumption DEF Slot, Slots, UInt

\* How many jobs are announced, by what the putter is doing.
LEMMA PostedCases ==
  ASSUME NEW P, Putters = {P}
  PROVE  Posted = IF pc[P] # "out" THEN Len(sent) - 1 ELSE Len(sent) - 0
BY DEF Posted

\* No getter has claimed a ticket that is not announced, and while one is about to,
\* there is one left.
LEMMA ClaimedArePosted ==
  ASSUME BInv
  PROVE  /\ Posted \in 0 .. Len(sent) /\ qjj <= Posted
         /\ At("get_claim") # {} => qjj < Posted
<1>1. PICK P : Putters = {P} /\ P \notin Getters
  BY OnePutter
<1>2. NumAt("put_copy") = IF pc[P] = "put_copy" THEN 1 ELSE 0
  <2>1. At("put_copy") = IF pc[P] = "put_copy" THEN {P} ELSE {}
    BY <1>1 DEF At, Procs, BInv, BTypeOK
  <2> QED BY <2>1, FS_EmptySet, FS_Singleton DEF NumAt
<1>3. qii = qjj + full + NumAt("put_copy") + NumAt("get_claim")
  <2>1. qjj \in Nat /\ full \in Nat /\ NumAt("put_copy") \in Nat /\ NumAt("get_claim") \in Nat
    BY CountType DEF BInv, IInv, TypeOK, UInt
  <2> QED BY <2>1 DEF BInv, NoWrap, Outstanding
<1>4. /\ qjj \in Nat /\ full \in Nat /\ NumAt("get_claim") \in Nat
      /\ At("get_claim") # {} => NumAt("get_claim") >= 1
  BY CountType DEF BInv, IInv, TypeOK, UInt
<1>5. /\ pc[P] \in {"out", "put_claim", "put_copy"}
      /\ Len(sent) = qii + (IF pc[P] = "put_claim" THEN 1 ELSE 0)
      /\ pc[P] # "out" => Len(sent) > 0
      /\ Len(sent) \in Nat
  BY <1>1 DEF BInv, BTypeOK, NoWrap, PutterAtLast
<1>6. Posted = qjj + full + NumAt("get_claim")
  <2>1. CASE pc[P] = "out"
    BY <2>1, <1>1, <1>2, <1>3, <1>4, <1>5, PostedCases
  <2>2. CASE pc[P] = "put_claim"
    BY <2>2, <1>1, <1>2, <1>3, <1>4, <1>5, PostedCases
  <2>3. CASE pc[P] = "put_copy"
    BY <2>3, <1>1, <1>2, <1>3, <1>4, <1>5, PostedCases
  <2> QED BY <1>5, <2>1, <2>2, <2>3
<1>7. Posted <= Len(sent)
  BY <1>1, <1>5, PostedCases
<1> QED BY <1>4, <1>5, <1>6, <1>7

LEMMA BInitInv == BInit => BInv
<1> SUFFICES ASSUME BInit PROVE BInv
  OBVIOUS
<1>1. IInv
  BY InitInv DEF BInit
<1>2. PICK P : Putters = {P} /\ P \notin Getters
  BY OnePutter
<1>3. \A p \in Procs : pc[p] = "out"
  BY DEF BInit, Init
<1>4. BTypeOK
  BY <1>3, OneBatchAssumption DEF BTypeOK, BInit, Procs
<1>5. At("put_copy") = {} /\ At("get_claim") = {}
  BY <1>3 DEF At
<1>6. NoWrap
  <2>1. NumAt("put_copy") = 0 /\ NumAt("get_claim") = 0
    BY <1>5, FS_EmptySet DEF NumAt
  <2> QED BY <1>3, <2>1 DEF NoWrap, BInit, Init, Outstanding, Procs
<1>7. Posted = 0
  BY <1>2, <1>3, PostedCases DEF BInit, Procs
<1>8. Holders = {}
  BY <1>3 DEF Holders, Procs
<1> QED
  BY <1>1, <1>3, <1>4, <1>6, <1>7, <1>8
  DEF BInv, BInit, PutterAtLast, SlotsWritten, GettersBehind, TicketsOnce,
      GotClaimed, AtMostOnce, Procs

\* Every step is one of the queue, so what holds of the queue holds here.
LEMMA BatchSteps == [BNext]_bvars => [Next]_vars
BY DEF BNext, bvars, vars, Put, Putting, Get, Getting, Return, Next, GetStep

\* What the lemmas below start from: the invariant, with the putter named.
Facts(P) ==
  /\ BInv /\ IInv'
  /\ Putters = {P} /\ P \notin Getters

LEMMA FactsTyped ==
  ASSUME NEW P, Facts(P)
  PROVE  /\ P \in Procs /\ Getters \subseteq Procs
         /\ jobs \in [Slots -> Job] /\ DOMAIN pc = Procs
         /\ idx \in [Procs -> UInt] /\ buf \in [Procs -> Job] /\ todo \in [Procs -> SUBSET Parts]
         /\ UInt \subseteq Nat /\ Len(sent) \in Nat /\ qjj \in Nat /\ qii \in Nat
         /\ Batch \in Nat /\ Batch < UINT_SPAN /\ UINT_SPAN \in Nat
         /\ Len(sent) <= Batch /\ Posted \in 0 .. Len(sent) /\ qjj <= Posted
         /\ sent \in Seq(Job)
<1>1. Posted \in 0 .. Len(sent) /\ qjj <= Posted
  BY ClaimedArePosted DEF Facts
<1>2. /\ Batch \in Nat /\ Batch < UINT_SPAN /\ UINT_SPAN \in Nat
  BY OneBatchAssumption, SharedQueueAssumption
<1> QED
  BY <1>1, <1>2 DEF Facts, BInv, IInv, TypeOK, BTypeOK, Procs, UInt

LEMMA GotTyped ==
  ASSUME BTypeOK, NEW k \in DOMAIN got
  PROVE  got[k].ticket \in UInt /\ got[k].job \in Job
<1> DEFINE Returned == [ticket : UInt, job : Job]
<1>1. got \in Seq(Returned)
  BY DEF BTypeOK
<1>2. got[k] \in Returned
  <2> HIDE DEF Returned
  <2>1. k \in 1 .. Len(got)
    BY <1>1, LenProperties
  <2> QED BY <1>1, <2>1, ElementOfSeq
<1> QED BY <1>2

\* The putter begins a call.
LEMMA PutInv ==
  ASSUME NEW P, Facts(P), NEW msg \in Job, Put(P, msg)
  PROVE  BInv'
<1>1. /\ pc' = [pc EXCEPT ![P] = "put_claim"] /\ pc[P] = "out"
      /\ buf' = [buf EXCEPT ![P] = msg]
      /\ UNCHANGED <<jobs, qii, qjj, full, idx, todo, got>>
      /\ sent' = Append(sent, msg) /\ Len(sent) < Batch
  BY DEF Put, PutWait, Goto
<1>2. /\ sent' \in Seq(Job) /\ Len(sent') = Len(sent) + 1
      /\ sent'[Len(sent) + 1] = msg
      /\ \A i \in 1 .. Len(sent) : sent'[i] = sent[i]
  BY <1>1, FactsTyped
<1>3. Posted = Len(sent) /\ Posted' = Posted
  BY <1>1, <1>2, FactsTyped, PostedCases DEF Facts, Posted
<1>4. /\ Holders' = Holders /\ Holders \subseteq Getters
      /\ \A p \in Getters : pc'[p] = pc[p] /\ buf'[p] = buf[p]
  BY <1>1, FactsTyped DEF Facts, Holders
<1>5. BTypeOK'
  <2>1. Len(sent') <= Batch
    BY <1>1, <1>2, FactsTyped
  <2>2. /\ \A p \in Putters : pc'[p] \in {"out", "put_claim", "put_copy"}
        /\ \A p \in Getters : pc'[p] \in {"out", "get_claim", "get_post", "get_copy"}
    BY <1>1, <1>4, FactsTyped DEF Facts, BInv, BTypeOK
  <2> QED BY <1>1, <1>2, <2>1, <2>2 DEF Facts, BInv, BTypeOK
<1>6. NoWrap'
  <2>1. Outstanding' = Outstanding
    <3>0. PutWait(P, msg)
      BY DEF Put
    <3>1. /\ NumAt("put_copy")' = NumAt("put_copy")
          /\ NumAt("get_claim")' = NumAt("get_claim")
      BY <3>0, FactsTyped, CountMove DEF PutWait
    <3> QED BY <1>1, <3>1 DEF Outstanding
  <2> QED BY <2>1, <1>1, <1>2, FactsTyped DEF Facts, BInv, NoWrap
<1>7. PutterAtLast'
  BY <1>1, <1>2, FactsTyped DEF Facts, PutterAtLast
<1>8. SlotsWritten'
  BY <1>1, <1>2, <1>3, FactsTyped DEF Facts, BInv, SlotsWritten
<1>9. GettersBehind'
  <2> SUFFICES ASSUME NEW p \in Holders
               PROVE  /\ idx[p] < qjj
                      /\ pc[p] = "get_copy" =>
                           \A w \in Parts \ todo[p] : buf[p][w] = sent'[idx[p] + 1][w]
    <3>1. idx' = idx /\ qjj' = qjj /\ todo' = todo
      BY <1>1
    <3>2. \A p \in Holders : pc'[p] = pc[p] /\ buf'[p] = buf[p]
      BY <1>4
    <3> QED BY <1>4, <3>1, <3>2 DEF GettersBehind
  <2>1. p \in Getters /\ idx[p] < qjj /\ idx[p] \in Nat
    BY FactsTyped DEF Facts, BInv, GettersBehind, Holders
  <2>2. sent'[idx[p] + 1] = sent[idx[p] + 1]
    BY <1>2, <2>1, FactsTyped
  <2> QED BY <2>1, <2>2 DEF Facts, BInv, GettersBehind
<1>10. TicketsOnce'
  BY <1>1, <1>4 DEF Facts, BInv, TicketsOnce
<1>11. GotClaimed'
  <2> SUFFICES ASSUME NEW k \in DOMAIN got
               PROVE  got[k].ticket < qjj /\ got[k].job = sent'[got[k].ticket + 1]
    BY <1>1 DEF GotClaimed
  <2>1. got[k].ticket < qjj /\ got[k].ticket \in Nat /\ got[k].job = sent[got[k].ticket + 1]
    BY FactsTyped, GotTyped DEF Facts, BInv, GotClaimed
  <2>2. got[k].ticket + 1 \in 1 .. Len(sent)
    BY <2>1, FactsTyped
  <2> QED BY <1>2, <2>1, <2>2
<1>12. AtMostOnce'
  BY <1>1 DEF Facts, BInv, AtMostOnce
<1> QED BY <1>5, <1>6, <1>7, <1>8, <1>9, <1>10, <1>11, <1>12 DEF Facts, BInv

\* It claims a ticket, the one of the job it was given.
LEMMA FetchAddInv ==
  ASSUME NEW P, Facts(P), PutFetchAdd(P), UNCHANGED <<sent, got>>
  PROVE  BInv'
<1>1. /\ pc' = [pc EXCEPT ![P] = "put_copy"] /\ pc[P] = "put_claim"
      /\ idx' = [idx EXCEPT ![P] = qii] /\ qii' = Inc(qii)
      /\ todo' = [todo EXCEPT ![P] = Parts]
      /\ UNCHANGED <<jobs, qjj, full, buf, sent, got>>
  BY DEF PutFetchAdd, Goto
<1>2. Len(sent) = qii + 1
  BY <1>1 DEF Facts, BInv, NoWrap
<1>3. qii' = qii + 1
  BY <1>1, <1>2, FactsTyped DEF Inc
<1>4. Posted' = Posted
  BY <1>1, FactsTyped, PostedCases DEF Facts, Posted
<1>5. /\ Holders' = Holders
      /\ \A p \in Getters : pc'[p] = pc[p] /\ idx'[p] = idx[p] /\ todo'[p] = todo[p]
  BY <1>1, FactsTyped DEF Facts, Holders
<1>6. BTypeOK'
  BY <1>1, <1>5, FactsTyped DEF Facts, BInv, BTypeOK
<1>7. NoWrap'
  <2>1. /\ NumAt("put_copy")' = NumAt("put_copy") + 1
        /\ NumAt("get_claim")' = NumAt("get_claim")
    BY FactsTyped, CountMove, SMTT(30) DEF PutFetchAdd
  <2>2. NumAt("put_copy") \in Nat /\ NumAt("get_claim") \in Nat /\ full \in Nat
    BY CountType DEF Facts, BInv, IInv, TypeOK
  <2>3. Outstanding' = Outstanding + 1 /\ Outstanding \in Nat
    BY <1>1, <2>1, <2>2 DEF Outstanding
  <2> QED BY <1>1, <1>2, <1>3, <2>3, FactsTyped DEF Facts, BInv, NoWrap
<1>8. PutterAtLast'
  BY <1>1, <1>2, FactsTyped DEF Facts, BInv, PutterAtLast
<1>9. SlotsWritten' /\ GotClaimed' /\ AtMostOnce'
  BY <1>1, <1>4 DEF Facts, BInv, SlotsWritten, GotClaimed, AtMostOnce
<1>10. GettersBehind' /\ TicketsOnce'
  BY <1>1, <1>5 DEF Facts, BInv, GettersBehind, TicketsOnce, Holders
<1> QED BY <1>6, <1>7, <1>8, <1>9, <1>10 DEF Facts, BInv

\* It copies a word into the slot behind the announced ones.
LEMMA StoreInv ==
  ASSUME NEW P, Facts(P), NEW v \in Parts, PutStore(P, v), UNCHANGED <<sent, got>>
  PROVE  BInv'
<1>1. /\ pc[P] = "put_copy" /\ v \in todo[P]
      /\ jobs' = [jobs EXCEPT ![Slot(idx[P])][v] = buf[P][v]]
      /\ todo' = [todo EXCEPT ![P] = @ \ {v}]
      /\ UNCHANGED <<qii, qjj, full, pc, idx, buf, sent, got>>
  BY DEF PutStore
<1>2. idx[P] = Len(sent) - 1 /\ Len(sent) > 0 /\ Posted = Len(sent) - 1
  BY <1>1, FactsTyped, PostedCases DEF Facts, BInv, PutterAtLast
<1>3. idx[P] \in Slots /\ Slot(idx[P]) = idx[P]
  BY <1>2, FactsTyped, TicketIsSlot
<1>4. /\ \A t \in Slots : t # idx[P] => jobs'[t] = jobs[t]
      /\ \A w \in Parts : jobs'[idx[P]][w] = IF w = v THEN buf[P][v] ELSE jobs[idx[P]][w]
  BY <1>1, <1>3, FactsTyped DEF Job
<1>5. Posted' = Posted /\ Holders' = Holders /\ \A p \in Getters : todo'[p] = todo[p]
  BY <1>1, FactsTyped DEF Facts, Posted, Holders
<1>6. BTypeOK' /\ GotClaimed' /\ AtMostOnce' /\ TicketsOnce'
  BY <1>1, <1>5 DEF Facts, BInv, BTypeOK, GotClaimed, AtMostOnce, TicketsOnce
<1>7. NoWrap'
  <2>1. Outstanding' = Outstanding
    BY <1>1, CountSame DEF Outstanding
  <2> QED BY <1>1, <2>1 DEF Facts, BInv, NoWrap
<1>8. PutterAtLast'
  BY <1>1, <1>4, FactsTyped DEF Facts, BInv, PutterAtLast
<1>9. SlotsWritten'
  <2> SUFFICES ASSUME NEW t \in 0 .. Posted - 1
               PROVE  jobs'[t] = sent[t + 1]
    BY <1>1, <1>5 DEF SlotsWritten
  <2>1. t \in Slots /\ t # idx[P]
    BY <1>2, FactsTyped, TicketIsSlot
  <2> QED BY <1>4, <2>1 DEF Facts, BInv, SlotsWritten
<1>10. GettersBehind'
  BY <1>1, <1>5 DEF Facts, BInv, GettersBehind, Holders
<1> QED BY <1>6, <1>7, <1>8, <1>9, <1>10 DEF Facts, BInv

\* It announces the slot, which is complete.
LEMMA PutPostInv ==
  ASSUME NEW P, Facts(P), PutPost(P), UNCHANGED <<sent, got>>
  PROVE  BInv'
<1>1. /\ pc[P] = "put_copy" /\ todo[P] = {} /\ full' = full + 1
      /\ pc' = [pc EXCEPT ![P] = "out"]
      /\ UNCHANGED <<jobs, qii, qjj, idx, buf, todo, sent, got>>
  BY DEF PutPost, Goto
<1>2. /\ idx[P] = Len(sent) - 1 /\ Len(sent) > 0
      /\ Posted = Len(sent) - 1 /\ Posted' = Len(sent)
  BY <1>1, FactsTyped, PostedCases DEF Facts, BInv, PutterAtLast, Posted
<1>3. jobs[idx[P]] = sent[Len(sent)]
  <2>1. idx[P] \in Slots
    BY <1>2, FactsTyped, TicketIsSlot
  <2>2. jobs[idx[P]] \in Job /\ buf[P] \in Job
    BY <2>1, FactsTyped
  <2>3. \A w \in Parts : jobs[idx[P]][w] = buf[P][w]
    BY <1>1 DEF Facts, BInv, PutterAtLast
  <2>4. jobs[idx[P]] = buf[P]
    BY <2>2, <2>3 DEF Job
  <2> QED BY <1>1, <2>4 DEF Facts, BInv, PutterAtLast
<1>4. Holders' = Holders /\ \A p \in Getters : pc'[p] = pc[p]
  BY <1>1, FactsTyped DEF Facts, Holders
<1>5. BTypeOK'
  BY <1>1, <1>4, FactsTyped DEF Facts, BInv, BTypeOK
<1>6. NoWrap'
  <2>1. /\ NumAt("put_copy")' = NumAt("put_copy") - 1
        /\ NumAt("get_claim")' = NumAt("get_claim")
    BY FactsTyped, CountMove DEF PutPost
  <2>2. NumAt("put_copy") \in Nat /\ NumAt("get_claim") \in Nat /\ full \in Nat
    BY CountType DEF Facts, BInv, IInv, TypeOK
  <2>3. Outstanding' = Outstanding
    BY <1>1, <2>1, <2>2 DEF Outstanding
  <2> QED BY <1>1, <2>3, FactsTyped DEF Facts, BInv, NoWrap
<1>7. PutterAtLast'
  BY <1>1, FactsTyped DEF Facts, PutterAtLast
<1>8. SlotsWritten'
  <2> SUFFICES ASSUME NEW t \in 0 .. Posted' - 1
               PROVE  jobs[t] = sent[t + 1]
    BY <1>1 DEF SlotsWritten
  <2>1. CASE t \in 0 .. Posted - 1
    BY <2>1 DEF Facts, BInv, SlotsWritten
  <2>2. CASE t = Len(sent) - 1
    BY <1>2, <1>3, <2>2, FactsTyped
  <2> QED BY <1>2, <2>1, <2>2, FactsTyped
<1>9. GotClaimed' /\ AtMostOnce' /\ GettersBehind' /\ TicketsOnce'
  BY <1>1, <1>4 DEF Facts, BInv, GotClaimed, AtMostOnce, GettersBehind, TicketsOnce, Holders
<1> QED BY <1>5, <1>6, <1>7, <1>8, <1>9 DEF Facts, BInv

\* What no step of a getter changes.
LEMMA GetterKeeps ==
  ASSUME NEW P, Facts(P), NEW g \in Getters,
         UNCHANGED <<jobs, qii, sent>>,
         \A p \in Procs : p # g => pc'[p] = pc[p] /\ idx'[p] = idx[p]
                                   /\ buf'[p] = buf[p] /\ todo'[p] = todo[p],
         pc'[g] \in {"out", "get_claim", "get_post", "get_copy"}
  PROVE  /\ Posted' = Posted
         /\ PutterAtLast' /\ SlotsWritten'
         /\ \A p \in Putters : pc'[p] \in {"out", "put_claim", "put_copy"}
         /\ \A p \in Getters : pc'[p] \in {"out", "get_claim", "get_post", "get_copy"}
         /\ \A p \in Putters : Len(sent') = qii' + (IF pc'[p] = "put_claim" THEN 1 ELSE 0)
<1>1. P # g /\ P \in Procs /\ Getters \subseteq Procs
  BY FactsTyped DEF Facts
<1>2. /\ pc'[P] = pc[P] /\ idx'[P] = idx[P] /\ buf'[P] = buf[P] /\ todo'[P] = todo[P]
      /\ Putters = {P} /\ sent' = sent /\ jobs' = jobs /\ qii' = qii
  BY <1>1 DEF Facts
<1>3. Posted' = Posted
  BY <1>2 DEF Posted
<1>4. PutterAtLast'
  BY <1>2 DEF Facts, BInv, PutterAtLast
<1>5. SlotsWritten'
  BY <1>2, <1>3 DEF Facts, BInv, SlotsWritten
<1>6. \A p \in Getters : pc'[p] \in {"out", "get_claim", "get_post", "get_copy"}
  BY <1>1 DEF Facts, BInv, BTypeOK
<1>7. /\ \A p \in Putters : pc'[p] \in {"out", "put_claim", "put_copy"}
      /\ \A p \in Putters : Len(sent') = qii' + (IF pc'[p] = "put_claim" THEN 1 ELSE 0)
  BY <1>2 DEF Facts, BInv, BTypeOK, NoWrap
<1> QED BY <1>3, <1>4, <1>5, <1>6, <1>7

\* A getter begins a call.
LEMMA GetWaitInv ==
  ASSUME NEW P, Facts(P), NEW g \in Getters, GetWait(g), UNCHANGED <<sent, got>>
  PROVE  BInv'
<1>1. /\ pc[g] = "out" /\ pc' = [pc EXCEPT ![g] = "get_claim"] /\ full' = full - 1
      /\ UNCHANGED <<jobs, qii, qjj, idx, buf, todo, sent, got>>
  BY DEF GetWait, Goto
<1>2. g \in Procs /\ DOMAIN pc = Procs
  BY FactsTyped
<1>3. /\ PutterAtLast' /\ SlotsWritten'
      /\ \A p \in Putters : pc'[p] \in {"out", "put_claim", "put_copy"}
      /\ \A p \in Getters : pc'[p] \in {"out", "get_claim", "get_post", "get_copy"}
      /\ \A p \in Putters : Len(sent') = qii' + (IF pc'[p] = "put_claim" THEN 1 ELSE 0)
  BY <1>1, <1>2, GetterKeeps
<1>4. BTypeOK'
  BY <1>1, <1>3 DEF Facts, BInv, BTypeOK
<1>5. NoWrap'
  <2>1. /\ NumAt("get_claim")' = NumAt("get_claim") + 1
        /\ NumAt("put_copy")' = NumAt("put_copy")
    BY <1>2, CountMove DEF GetWait
  <2>2. NumAt("put_copy") \in Nat /\ NumAt("get_claim") \in Nat /\ full \in Nat
    BY CountType DEF Facts, BInv, IInv, TypeOK
  <2>3. Outstanding' = Outstanding
    BY <1>1, <2>1, <2>2 DEF Outstanding
  <2> QED BY <1>1, <1>3, <2>3 DEF Facts, BInv, NoWrap
<1>6. Holders' = Holders /\ \A p \in Holders : pc'[p] = pc[p]
  BY <1>1, <1>2 DEF Holders
<1>7. GettersBehind' /\ TicketsOnce' /\ GotClaimed' /\ AtMostOnce'
  BY <1>1, <1>6 DEF Facts, BInv, GettersBehind, TicketsOnce, GotClaimed, AtMostOnce
<1> QED BY <1>3, <1>4, <1>5, <1>7 DEF Facts, BInv

\* It claims a ticket nobody else has, of a slot that is announced.
LEMMA GetFetchAddInv ==
  ASSUME NEW P, Facts(P), NEW g \in Getters, GetFetchAdd(g), UNCHANGED <<sent, got>>
  PROVE  BInv'
<1>1. /\ pc[g] = "get_claim" /\ pc' = [pc EXCEPT ![g] = "get_post"]
      /\ idx' = [idx EXCEPT ![g] = qjj] /\ qjj' = Inc(qjj)
      /\ UNCHANGED <<jobs, qii, full, buf, todo, sent, got>>
  BY DEF GetFetchAdd, Goto
<1>2. g \in Procs /\ DOMAIN pc = Procs /\ DOMAIN idx = Procs
  BY FactsTyped
<1>3. /\ PutterAtLast' /\ SlotsWritten'
      /\ \A p \in Putters : pc'[p] \in {"out", "put_claim", "put_copy"}
      /\ \A p \in Getters : pc'[p] \in {"out", "get_claim", "get_post", "get_copy"}
      /\ \A p \in Putters : Len(sent') = qii' + (IF pc'[p] = "put_claim" THEN 1 ELSE 0)
  BY <1>1, <1>2, GetterKeeps
<1>4. qjj' = qjj + 1
  <2>1. qjj < Posted
    BY <1>1, <1>2, ClaimedArePosted DEF At, Facts
  <2> QED BY <1>1, <2>1, FactsTyped DEF Inc
<1>5. BTypeOK'
  BY <1>1, <1>3 DEF Facts, BInv, BTypeOK
<1>6. NoWrap'
  <2>1. /\ NumAt("get_claim")' = NumAt("get_claim") - 1
        /\ NumAt("put_copy")' = NumAt("put_copy")
    BY <1>2, CountMove DEF GetFetchAdd
  <2>2. NumAt("put_copy") \in Nat /\ NumAt("get_claim") \in Nat /\ full \in Nat
    BY CountType DEF Facts, BInv, IInv, TypeOK
  <2>3. Outstanding' = Outstanding - 1 /\ Outstanding \in Nat
    BY <1>1, <2>1, <2>2 DEF Outstanding
  <2> QED BY <1>1, <1>3, <1>4, <2>3, FactsTyped DEF Facts, BInv, NoWrap
<1>7. /\ Holders' = Holders \cup {g} /\ g \notin Holders
      /\ \A p \in Holders : pc'[p] = pc[p] /\ idx'[p] = idx[p] /\ idx[p] \in Nat
      /\ idx'[g] = qjj /\ pc'[g] = "get_post"
  BY <1>1, <1>2, FactsTyped DEF Holders
<1>8. \A p \in Holders : idx[p] < qjj
  BY DEF Facts, BInv, GettersBehind
<1>9. \A k \in DOMAIN got : got[k].ticket < qjj /\ got[k].ticket \in Nat
  BY GotTyped, FactsTyped DEF Facts, BInv, GotClaimed
<1>10. GettersBehind'
  <2> SUFFICES ASSUME NEW p \in Holders \cup {g}
               PROVE  /\ idx'[p] < qjj + 1
                      /\ pc'[p] = "get_copy" =>
                           \A w \in Parts \ todo[p] : buf[p][w] = sent[idx'[p] + 1][w]
    BY <1>1, <1>4, <1>7 DEF GettersBehind
  <2>1. CASE p \in Holders
    BY <2>1, <1>7, <1>8, FactsTyped DEF Facts, BInv, GettersBehind
  <2>2. CASE p = g
    BY <2>2, <1>7, FactsTyped
  <2> QED BY <2>1, <2>2
<1>11. TicketsOnce'
  <2>1. \A p, q \in Holders \cup {g} : idx'[p] = idx'[q] => p = q
    BY <1>7, <1>8, FactsTyped DEF Facts, BInv, TicketsOnce
  <2>2. \A p \in Holders \cup {g}, k \in DOMAIN got : idx'[p] # got[k].ticket
    BY <1>7, <1>9, FactsTyped DEF Facts, BInv, TicketsOnce
  <2> QED BY <1>1, <1>7, <2>1, <2>2 DEF TicketsOnce
<1>12. GotClaimed' /\ AtMostOnce'
  BY <1>1, <1>4, <1>9, FactsTyped DEF Facts, BInv, GotClaimed, AtMostOnce
<1> QED BY <1>3, <1>5, <1>6, <1>10, <1>11, <1>12 DEF Facts, BInv

\* It gives the slot back before it has read it.
LEMMA GetPostInv ==
  ASSUME NEW P, Facts(P), NEW g \in Getters, GetPost(g), UNCHANGED <<sent, got>>
  PROVE  BInv'
<1>1. /\ pc[g] = "get_post" /\ pc' = [pc EXCEPT ![g] = "get_copy"]
      /\ todo' = [todo EXCEPT ![g] = Parts]
      /\ UNCHANGED <<jobs, qii, qjj, full, idx, buf, sent, got>>
  BY DEF GetPost, Goto
<1>2. g \in Procs /\ DOMAIN pc = Procs /\ DOMAIN todo = Procs
  BY FactsTyped
<1>3. /\ PutterAtLast' /\ SlotsWritten'
      /\ \A p \in Putters : pc'[p] \in {"out", "put_claim", "put_copy"}
      /\ \A p \in Getters : pc'[p] \in {"out", "get_claim", "get_post", "get_copy"}
      /\ \A p \in Putters : Len(sent') = qii' + (IF pc'[p] = "put_claim" THEN 1 ELSE 0)
  BY <1>1, <1>2, GetterKeeps
<1>4. BTypeOK'
  BY <1>1, <1>3 DEF Facts, BInv, BTypeOK
<1>5. NoWrap'
  <2>1. /\ NumAt("get_claim")' = NumAt("get_claim")
        /\ NumAt("put_copy")' = NumAt("put_copy")
    BY <1>2, CountMove DEF GetPost
  <2>2. Outstanding' = Outstanding
    BY <1>1, <2>1 DEF Outstanding
  <2> QED BY <1>1, <1>3, <2>2 DEF Facts, BInv, NoWrap
<1>6. /\ Holders' = Holders /\ Holders \subseteq Procs
      /\ todo'[g] = Parts /\ \A p \in Holders : p # g => pc'[p] = pc[p] /\ todo'[p] = todo[p]
  BY <1>1, <1>2, FactsTyped DEF Holders
<1>7. GettersBehind'
  BY <1>1, <1>6 DEF Facts, BInv, GettersBehind
<1>8. TicketsOnce' /\ GotClaimed' /\ AtMostOnce'
  BY <1>1, <1>6 DEF Facts, BInv, TicketsOnce, GotClaimed, AtMostOnce
<1> QED BY <1>3, <1>4, <1>5, <1>7, <1>8 DEF Facts, BInv

\* It reads a word of the job sent for its ticket: the putter is not there.
LEMMA GetLoadInv ==
  ASSUME NEW P, Facts(P), NEW g \in Getters, NEW v \in Parts, GetLoad(g, v),
         UNCHANGED <<sent, got>>
  PROVE  BInv'
<1>1. /\ pc[g] = "get_copy" /\ v \in todo[g]
      /\ buf' = [buf EXCEPT ![g][v] = jobs[Slot(idx[g])][v]]
      /\ todo' = [todo EXCEPT ![g] = @ \ {v}]
      /\ UNCHANGED <<jobs, qii, qjj, full, pc, idx, sent, got>>
  BY DEF GetLoad
<1>2. g \in Procs /\ g \in Holders
  BY <1>1, FactsTyped DEF Holders
<1>3. /\ \A p \in Procs : p # g => buf'[p] = buf[p] /\ todo'[p] = todo[p]
      /\ \A w \in Parts : buf'[g][w] = IF w = v THEN jobs[Slot(idx[g])][v] ELSE buf[g][w]
      /\ todo'[g] = todo[g] \ {v}
  BY <1>1, <1>2, FactsTyped DEF Job
<1>4. /\ PutterAtLast' /\ SlotsWritten'
      /\ \A p \in Putters : pc'[p] \in {"out", "put_claim", "put_copy"}
      /\ \A p \in Getters : pc'[p] \in {"out", "get_claim", "get_post", "get_copy"}
      /\ \A p \in Putters : Len(sent') = qii' + (IF pc'[p] = "put_claim" THEN 1 ELSE 0)
  BY <1>1, <1>2, <1>3, GetterKeeps
<1>5. BTypeOK'
  BY <1>1, <1>4 DEF Facts, BInv, BTypeOK
<1>6. NoWrap'
  <2>1. Outstanding' = Outstanding
    BY <1>1, CountSame DEF Outstanding
  <2> QED BY <1>1, <1>4, <2>1 DEF Facts, BInv, NoWrap
<1>7. jobs[Slot(idx[g])] = sent[idx[g] + 1]
  <2>1. idx[g] \in Nat /\ idx[g] < qjj
    BY <1>2, FactsTyped DEF Facts, BInv, GettersBehind
  <2>2. Slot(idx[g]) = idx[g] /\ idx[g] \in 0 .. Posted - 1
    BY <2>1, FactsTyped, TicketIsSlot
  <2> QED BY <2>2 DEF Facts, BInv, SlotsWritten
<1>8. Holders' = Holders /\ Holders \subseteq Procs
  BY <1>1, FactsTyped DEF Holders
<1>9. GettersBehind'
  <2> SUFFICES ASSUME NEW p \in Holders
               PROVE  /\ idx[p] < qjj
                      /\ pc[p] = "get_copy" =>
                           \A w \in Parts \ todo'[p] : buf'[p][w] = sent[idx[p] + 1][w]
    BY <1>1, <1>8 DEF GettersBehind
  <2>1. CASE p = g
    BY <2>1, <1>1, <1>3, <1>7 DEF Facts, BInv, GettersBehind
  <2>2. CASE p # g
    BY <2>2, <1>3, <1>8 DEF Facts, BInv, GettersBehind
  <2> QED BY <2>1, <2>2
<1>10. TicketsOnce' /\ GotClaimed' /\ AtMostOnce'
  BY <1>1, <1>8 DEF Facts, BInv, TicketsOnce, GotClaimed, AtMostOnce
<1> QED BY <1>4, <1>5, <1>6, <1>9, <1>10 DEF Facts, BInv

\* It returns the job, which it has read as a whole.
LEMMA ReturnInv ==
  ASSUME NEW P, Facts(P), NEW g \in Getters, Return(g)
  PROVE  BInv'
<1> DEFINE result == [ticket |-> idx[g], job |-> buf[g]]
<1>1. /\ pc[g] = "get_copy" /\ todo[g] = {} /\ pc' = [pc EXCEPT ![g] = "out"]
      /\ UNCHANGED <<jobs, qii, qjj, full, idx, buf, todo, sent>>
      /\ got' = Append(got, result)
  BY DEF Return, GetReturn, Goto
<1>2. g \in Procs /\ g \in Holders /\ DOMAIN pc = Procs
  BY <1>1, FactsTyped DEF Holders
<1>3. /\ PutterAtLast' /\ SlotsWritten'
      /\ \A p \in Putters : pc'[p] \in {"out", "put_claim", "put_copy"}
      /\ \A p \in Getters : pc'[p] \in {"out", "get_claim", "get_post", "get_copy"}
      /\ \A p \in Putters : Len(sent') = qii' + (IF pc'[p] = "put_claim" THEN 1 ELSE 0)
  BY <1>1, <1>2, GetterKeeps
<1>4. result \in [ticket : UInt, job : Job]
  BY <1>2, FactsTyped
<1>5. /\ got' \in Seq([ticket : UInt, job : Job])
      /\ DOMAIN got' = DOMAIN got \cup {Len(got) + 1} /\ Len(got) + 1 \notin DOMAIN got
      /\ got'[Len(got) + 1] = result
      /\ \A k \in DOMAIN got : got'[k] = got[k]
  BY <1>1, <1>4, AppendProperties, LenProperties DEF Facts, BInv, BTypeOK
<1>6. BTypeOK'
  BY <1>1, <1>3, <1>5 DEF Facts, BInv, BTypeOK
<1>7. NoWrap'
  <2>1. GetReturn(g)
    BY DEF Return
  <2>2. /\ NumAt("get_claim")' = NumAt("get_claim")
        /\ NumAt("put_copy")' = NumAt("put_copy")
    BY <1>2, <2>1, CountMove DEF GetReturn
  <2>3. Outstanding' = Outstanding
    BY <1>1, <2>2 DEF Outstanding
  <2> QED BY <1>1, <1>3, <2>3 DEF Facts, BInv, NoWrap
<1>8. /\ Holders' = Holders \ {g}
      /\ \A p \in Holders : p # g => pc'[p] = pc[p]
  BY <1>1, <1>2, FactsTyped DEF Holders
<1>9. GettersBehind'
  BY <1>1, <1>8 DEF Facts, BInv, GettersBehind
<1>10. idx[g] < qjj /\ buf[g] = sent[idx[g] + 1]
  <2>1. idx[g] < qjj /\ \A w \in Parts : buf[g][w] = sent[idx[g] + 1][w]
    BY <1>1, <1>2 DEF Facts, BInv, GettersBehind
  <2>2. idx[g] + 1 \in 1 .. Len(sent)
    BY <1>2, <2>1, FactsTyped
  <2>3. sent[idx[g] + 1] \in Job /\ buf[g] \in Job
    BY <1>2, <2>2, FactsTyped, ElementOfSeq
  <2> QED BY <2>1, <2>3 DEF Job
<1>11. GotClaimed'
  BY <1>1, <1>5, <1>10 DEF Facts, BInv, GotClaimed
<1>12. \A k \in DOMAIN got : got[k].ticket # result.ticket
  BY <1>2 DEF Facts, BInv, TicketsOnce
<1>13. AtMostOnce'
  <2> SUFFICES ASSUME NEW j \in DOMAIN got', NEW k \in DOMAIN got',
                      got'[j].ticket = got'[k].ticket
               PROVE  j = k
    BY DEF AtMostOnce
  <2> QED BY <1>5, <1>12 DEF Facts, BInv, AtMostOnce
<1>14. TicketsOnce'
  <2>1. \A p, q \in Holders' : idx'[p] = idx'[q] => p = q
    BY <1>1, <1>8 DEF Facts, BInv, TicketsOnce
  <2>2. ASSUME NEW p \in Holders', NEW k \in DOMAIN got'
        PROVE  idx[p] # got'[k].ticket
    BY <1>2, <1>5, <1>8 DEF Facts, BInv, TicketsOnce
  <2> QED BY <1>1, <2>1, <2>2 DEF TicketsOnce
<1> QED BY <1>3, <1>6, <1>7, <1>9, <1>11, <1>13, <1>14 DEF Facts, BInv

-----------------------------------------------------------------------------
(***************************************************************************)
(* The results.                                                            *)
(***************************************************************************)
LEMMA BStepInv == BInv /\ [BNext]_bvars => BInv'
<1> SUFFICES ASSUME BInv, [BNext]_bvars PROVE BInv'
  OBVIOUS
<1>1. IInv'
  BY BatchSteps, StepInv DEF BInv
<1>2. PICK P : Putters = {P} /\ P \notin Getters
  BY OnePutter
<1>3. Facts(P)
  BY <1>1, <1>2 DEF Facts
<1>4. CASE \E p \in Putters : (\E msg \in Job : Put(p, msg)) \/ Putting(p)
  <2>1. ASSUME NEW msg \in Job, Put(P, msg) PROVE BInv'
    BY <1>3, <2>1, PutInv
  <2>2. ASSUME Putting(P) PROVE BInv'
    BY <1>3, <2>2, FetchAddInv, StoreInv, PutPostInv DEF Putting, PutStep
  <2> QED BY <1>2, <1>4, <2>1, <2>2
<1>5. ASSUME NEW g \in Getters, Get(g) \/ Getting(g) \/ Return(g)
      PROVE  BInv'
  BY <1>3, <1>5, GetWaitInv, GetFetchAddInv, GetPostInv, GetLoadInv, ReturnInv
  DEF Get, Getting
<1>6. CASE UNCHANGED bvars
  <2>1. /\ UNCHANGED <<jobs, qii, qjj, full, pc, idx, buf, todo, sent, got>>
    BY <1>6 DEF bvars, vars
  <2>2. Outstanding' = Outstanding
    BY <2>1, CountSame DEF Outstanding
  <2>3. Holders' = Holders /\ Posted' = Posted
    BY <2>1 DEF Holders, Posted
  <2> QED
    BY <1>1, <2>1, <2>2, <2>3
    DEF BInv, BTypeOK, NoWrap, PutterAtLast, SlotsWritten, GettersBehind, TicketsOnce,
        GotClaimed, AtMostOnce
<1> QED BY <1>4, <1>5, <1>6 DEF BNext

LEMMA BatchInvariance == BSpec => []BInv
<1>1. BInit => BInv  BY BInitInv
<1>2. BInv /\ [BNext]_bvars => BInv'  BY BStepInv
<1> QED BY <1>1, <1>2, PTL DEF BSpec

\* As long as all the jobs fit into the ring, queue_get returns for every ticket the job
\* that queue_put was given for it, word by word, although it gives the slot back before
\* it has read it and no lock keeps the two copies apart.
THEOREM QueueIsFaithful == BSpec => []Faithful
<1>1. BInv => Faithful
  <2> SUFFICES ASSUME BInv, NEW k \in DOMAIN got
               PROVE  /\ got[k].ticket + 1 \in DOMAIN sent
                      /\ got[k].job = sent[got[k].ticket + 1]
    BY DEF Faithful
  <2>1. got[k].ticket \in Nat /\ got[k].ticket < qjj
    BY GotTyped DEF BInv, GotClaimed, UInt
  <2>2. qjj \in Nat /\ qjj <= Posted /\ Posted \in 0 .. Len(sent) /\ sent \in Seq(Job)
    BY ClaimedArePosted DEF BInv, IInv, TypeOK, UInt, BTypeOK
  <2>3. DOMAIN sent = 1 .. Len(sent) /\ Len(sent) \in Nat
    BY <2>2
  <2>4. got[k].ticket + 1 \in DOMAIN sent
    BY <2>1, <2>2, <2>3
  <2> QED BY <2>4 DEF BInv, GotClaimed
<1> QED BY <1>1, BatchInvariance, PTL

\* However many getters there are, no job is returned to two of them, nor twice to one.
THEOREM QueueDeliversOnce == BSpec => []AtMostOnce
<1>1. BInv => AtMostOnce  BY DEF BInv
<1> QED BY <1>1, BatchInvariance, PTL

=============================================================================
