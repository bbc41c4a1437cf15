---------------------------- MODULE SharedQueue ----------------------------
(***************************************************************************)
(* The interprocess queue of hw09 (queue.c): a ring of QUEUE_SIZE job      *)
(* slots in shared memory, two free-running atomic tickets qii and qjj,    *)
(* and two semaphores.  Any number of processes may be inside queue_put    *)
(* and queue_get at once; every statement that touches shared memory is an *)
(* action of its own.  A job is larger than a machine word, so copying one *)
(* in or out of a slot is done part by part, in any order.                 *)
(***************************************************************************)
EXTENDS QueueConstants, Integers, FiniteSets

CONSTANTS
  Putters,      \* the processes that call queue_put
  Getters,      \* the processes that call queue_get
  Parts,        \* the words of a job that are copied separately
  Value,        \* what a word can hold
  Zero          \* the word mmap leaves in a page nobody has written

ASSUME SharedQueueAssumption ==
  /\ IsFiniteSet(Putters) /\ IsFiniteSet(Getters)
  /\ QUEUE_SIZE \in Nat \ {0}
  /\ UINT_SPAN \in Nat
  /\ QUEUE_SIZE < UINT_SPAN
  /\ UINT_SPAN % QUEUE_SIZE = 0
  /\ Zero \in Value

Procs == Putters \cup Getters
Job   == [Parts -> Value]
Slots == 0 .. QUEUE_SIZE - 1
UInt  == 0 .. UINT_SPAN - 1
Slot(ticket) == ticket % QUEUE_SIZE

VARIABLES
  jobs,         \* the ring
  qii, qjj,     \* next ticket to put and next ticket to get
  empty, full,  \* the values of the two semaphores
  pc,           \* how far each process is in its call
  idx,          \* the ticket each process holds (the locals ii and jj)
  buf,          \* the job each process passes in or is reading out
  todo          \* the parts of it that are still to be copied

shared == <<jobs, qii, qjj, empty, full>>
vars   == <<jobs, qii, qjj, empty, full, pc, idx, buf, todo>>

PcLabel == {"out", "put_claim", "put_copy", "get_claim", "get_post", "get_copy"}

\* A variant for the checks: wrap at the end of the ring.
IncWithinRing(ticket) == IF ticket + 1 = QUEUE_SIZE THEN 0 ELSE ticket + 1

\* unsigned int arithmetic wraps
Inc(ticket) == IF ticket + 1 = UINT_SPAN THEN 0 ELSE ticket + 1

Goto(p, label) == pc' = [pc EXCEPT ![p] = label]

NoJob == [w \in Parts |-> Zero]

Init ==
  /\ jobs = [s \in Slots |-> NoJob]
  /\ qii = 0 /\ qjj = 0
  /\ empty = QUEUE_SIZE
  /\ full = 0
  /\ pc = [p \in Procs |-> "out"]
  /\ idx = [p \in Procs |-> 0]
  /\ buf = [p \in Procs |-> NoJob]
  /\ todo = [p \in Procs |-> {}]

(***************************************************************************)
(* queue_put(qq, msg)                                                      *)
(***************************************************************************)
PutWait(p, msg) ==                      \* sem_wait(&(qq->empty))
  /\ pc[p] = "out"
  /\ empty > 0
  /\ empty' = empty - 1
  /\ buf' = [buf EXCEPT ![p] = msg]
  /\ Goto(p, "put_claim")
  /\ UNCHANGED <<jobs, qii, qjj, full, idx, todo>>

PutFetchAdd(p) ==                       \* ii = atomic_fetch_add(&(qq->qii), 1)
  /\ pc[p] = "put_claim"
  /\ idx' = [idx EXCEPT ![p] = qii]
  /\ qii' = Inc(qii)
  /\ todo' = [todo EXCEPT ![p] = Parts]
  /\ Goto(p, "put_copy")
  /\ UNCHANGED <<jobs, qjj, empty, full, buf>>

PutStore(p, w) ==                       \* a word of qq->jobs[ii % QUEUE_SIZE] = msg
  /\ pc[p] = "put_copy"
  /\ w \in todo[p]
  /\ jobs' = [jobs EXCEPT ![Slot(idx[p])][w] = buf[p][w]]
  /\ todo' = [todo EXCEPT ![p] = @ \ {w}]
  /\ UNCHANGED <<qii, qjj, empty, full, pc, idx, buf>>

\* Variants for the checks: post before the copy is complete, forget to post.
PutPostBeforeStore(p) ==
  /\ pc[p] = "put_copy"
  /\ full' = full + 1
  /\ Goto(p, "out")
  /\ UNCHANGED <<jobs, qii, qjj, empty, idx, buf, todo>>
PutNoPost(p) ==
  /\ pc[p] = "put_copy" /\ todo[p] = {}
  /\ Goto(p, "out")
  /\ UNCHANGED <<jobs, qii, qjj, empty, full, idx, buf, todo>>

PutPost(p) ==                           \* sem_post(&(qq->full)); return
  /\ pc[p] = "put_copy"
  /\ todo[p] = {}
  /\ full' = full + 1
  /\ Goto(p, "out")
  /\ UNCHANGED <<jobs, qii, qjj, empty, idx, buf, todo>>

(***************************************************************************)
(* queue_get(qq)                                                           *)
(***************************************************************************)
GetWait(p) ==                           \* sem_wait(&(qq->full))
  /\ pc[p] = "out"
  /\ full > 0
  /\ full' = full - 1
  /\ Goto(p, "get_claim")
  /\ UNCHANGED <<jobs, qii, qjj, empty, idx, buf, todo>>

\* A variant for the checks: read the ticket without advancing it.
GetFetchOnly(p) ==
  /\ pc[p] = "get_claim"
  /\ idx' = [idx EXCEPT ![p] = qjj]
  /\ Goto(p, "get_post")
  /\ UNCHANGED <<jobs, qii, qjj, empty, full, buf, todo>>

GetFetchAdd(p) ==                       \* jj = atomic_fetch_add(&(qq->qjj), 1)
  /\ pc[p] = "get_claim"
  /\ idx' = [idx EXCEPT ![p] = qjj]
  /\ qjj' = Inc(qjj)
  /\ Goto(p, "get_post")
  /\ UNCHANGED <<jobs, qii, empty, full, buf, todo>>

GetPost(p) ==                           \* sem_post(&(qq->empty))
  /\ pc[p] = "get_post"
  /\ empty' = empty + 1
  /\ todo' = [todo EXCEPT ![p] = Parts]
  /\ Goto(p, "get_copy")
  /\ UNCHANGED <<jobs, qii, qjj, full, idx, buf>>

GetLoad(p, w) ==                        \* a word of qq->jobs[jj % QUEUE_SIZE]
  /\ pc[p] = "get_copy"
  /\ w \in todo[p]
  /\ buf' = [buf EXCEPT ![p][w] = jobs[Slot(idx[p])][w]]
  /\ todo' = [todo EXCEPT ![p] = @ \ {w}]
  /\ UNCHANGED <<jobs, qii, qjj, empty, full, pc, idx>>

GetReturn(p) ==                         \* return: buf[p] is the result
  /\ pc[p] = "get_copy"
  /\ todo[p] = {}
  /\ Goto(p, "out")
  /\ UNCHANGED <<jobs, qii, qjj, empty, full, idx, buf, todo>>

(***************************************************************************)
(* The steps inside a call, once its first sem_wait has succeeded.         *)
(***************************************************************************)
PutStep(p) == PutFetchAdd(p) \/ (\E w \in Parts : PutStore(p, w)) \/ PutPost(p)
GetStep(p) == \/ GetFetchAdd(p) \/ GetPost(p)
              \/ (\E w \in Parts : GetLoad(p, w)) \/ GetReturn(p)

Next ==
  \/ \E p \in Putters : (\E msg \in Job : PutWait(p, msg)) \/ PutStep(p)
  \/ \E p \in Getters : GetWait(p) \/ GetStep(p)

Spec == Init /\ [][Next]_vars

-----------------------------------------------------------------------------
At(label)    == {p \in Procs : pc[p] = label}
NumAt(label) == Cardinality(At(label))

TypeOK ==
  /\ jobs \in [Slots -> Job]
  /\ qii \in UInt /\ qjj \in UInt
  /\ empty \in 0 .. QUEUE_SIZE /\ full \in 0 .. QUEUE_SIZE
  /\ pc \in [Procs -> PcLabel]
  /\ idx \in [Procs -> UInt]
  /\ buf \in [Procs -> Job]
  /\ todo \in [Procs -> SUBSET Parts]

\* Every slot of the ring is accounted for at every instant, whatever calls are
\* under way: it is free (empty), written (full), or in the hands of one process
\* between a sem_wait and the matching sem_post.  No interleaving of queue_put
\* and queue_get creates or loses a token.
SpaceAccounted ==
  empty + full + NumAt("put_claim") + NumAt("put_copy")
               + NumAt("get_claim") + NumAt("get_post") = QUEUE_SIZE

\* The tickets claimed by putters and not yet by getters.
Outstanding == full + NumAt("put_copy") + NumAt("get_claim")

\* The two tickets, which are advanced outside any lock and wrap independently,
\* never disagree with the semaphores: their distance is what full promises plus
\* the calls caught between the atomic_fetch_add and the semaphore.  This is what
\* makes free_queue's assert(qii == qjj) come down to "full is 0 and no call is
\* under way".
TicketsAccounted == (qii - qjj) % UINT_SPAN = Outstanding

\* The tickets, taken alone, are a counter of a bounded buffer.
Buffer == INSTANCE BoundedBuffer WITH
            Capacity <- QUEUE_SIZE, held <- (qii - qjj) % UINT_SPAN

\* The lock-free queue implements the bounded buffer: a ticket for a slot is never
\* handed out twice before a getter has claimed it, and no getter claims a ticket
\* that no putter has.
BufferSpec == Buffer!Spec

=============================================================================
