---------------------------- MODULE ThreadQueue ----------------------------
(***************************************************************************)
(* The job queue of hw08 (queue.c): a doubly linked list under a mutex,    *)
(* with a condition variable for getters that find it empty and a flag     *)
(* done that tells them to give up.  A critical section is one action;     *)
(* set_doneq, which takes no lock, is one too.  Getters sleep inside       *)
(* queue_get: a thread in asleep has released the mutex and goes on only   *)
(* after a broadcast or a spurious wake-up.                                *)
(***************************************************************************)
EXTENDS Integers, Sequences

CONSTANTS
  Threads,     \* the threads that call queue_get
  Msg,         \* the pointers passed to queue_put (NULL may be one)
  MaxNodes     \* bound: how many qnodes malloc can have given out at once

NULL == 0
Addr == 1 .. MaxNodes

VARIABLES
  head, tail,   \* the newest and the oldest qnode
  node,         \* the allocated qnodes, by address
  done,
  asleep,       \* the threads in pthread_cond_wait
  ret,          \* what queue_get last returned to each thread
  fifo          \* history: the addresses put and not yet taken, oldest first

vars == <<head, tail, node, done, asleep, ret, fifo>>

Init ==                                          \* make_queue
  /\ head = NULL /\ tail = NULL
  /\ node = <<>>
  /\ done = FALSE
  /\ asleep = {}
  /\ ret = [t \in Threads |-> NULL]
  /\ fifo = <<>>

set_doneq ==
  /\ done' = TRUE
  /\ UNCHANGED <<head, tail, node, asleep, ret, fifo>>

\* A variant for the checks: wake nobody.
no_broadcast == UNCHANGED asleep

broadcast == asleep' = {}                 \* pthread_cond_broadcast(&(qq->condv))

wake_up ==
  /\ broadcast
  /\ UNCHANGED <<head, tail, node, done, ret, fifo>>

\* The qnodes after a new one, at a, is linked in front of the others.
Linked(a, msg) ==
  [b \in DOMAIN node \cup {a} |->
     CASE b = a    -> [data |-> msg, prev |-> NULL, next |-> head]
       [] b = head -> [node[b] EXCEPT !.prev = a]
       [] OTHER    -> node[b]]

queue_put(msg) ==
  \E a \in Addr \ DOMAIN node :
    /\ node' = Linked(a, msg)
    /\ head' = a
    /\ tail' = IF head = NULL THEN a ELSE tail
    /\ broadcast
    /\ fifo' = Append(fifo, a)
    /\ UNCHANGED <<done, ret>>

(***************************************************************************)
(* queue_get: the thread holds the mutex and evaluates the loop's          *)
(* condition, for the first time or after waking up.                       *)
(***************************************************************************)
GetSleep(t) ==
  /\ t \notin asleep
  /\ tail = NULL /\ ~done
  /\ asleep' = asleep \cup {t}
  /\ UNCHANGED <<head, tail, node, done, ret, fifo>>

\* A variant for the checks: give up on an empty queue that is not done.
GetNullEagerly(t) ==
  /\ t \notin asleep
  /\ tail = NULL
  /\ ret' = [ret EXCEPT ![t] = NULL]
  /\ UNCHANGED <<head, tail, node, done, asleep, fifo>>

GetNull(t) ==
  /\ t \notin asleep
  /\ tail = NULL /\ done
  /\ ret' = [ret EXCEPT ![t] = NULL]
  /\ UNCHANGED <<head, tail, node, done, asleep, fifo>>

\* A variant for the checks: return the oldest job and leave it in the list.
GetNodeAndKeep(t) ==
  /\ t \notin asleep
  /\ tail # NULL
  /\ ret' = [ret EXCEPT ![t] = node[tail].data]
  /\ UNCHANGED <<head, tail, node, done, asleep, fifo>>

GetNode(t) ==
  /\ t \notin asleep
  /\ tail # NULL
  /\ tail' = node[tail].prev
  /\ head' = IF node[tail].prev = NULL THEN NULL ELSE head
  /\ node' = [b \in DOMAIN node \ {tail} |->
                IF b = node[tail].prev THEN [node[b] EXCEPT !.next = NULL]
                                       ELSE node[b]]
  /\ ret' = [ret EXCEPT ![t] = node[tail].data]
  /\ fifo' = Tail(fifo)
  /\ UNCHANGED <<done, asleep>>

\* pthread_cond_wait may return although nobody called broadcast.
SpuriousWakeUp(t) ==
  /\ t \in asleep
  /\ asleep' = asleep \ {t}
  /\ UNCHANGED <<head, tail, node, done, ret, fifo>>

queue_get(t) == GetSleep(t) \/ GetNull(t) \/ GetNode(t)

Next ==
  \/ set_doneq \/ wake_up
  \/ \E msg \in Msg : queue_put(msg)
  \/ \E t \in Threads : queue_get(t) \/ SpuriousWakeUp(t)

Spec == Init /\ [][Next]_vars

-----------------------------------------------------------------------------
Fifo == INSTANCE ClosableFifo WITH
          NoMsg <- NULL, closed <- done, answer <- ret,
          contents <- [k \in 1 .. Len(fifo) |-> node[fifo[k]].data]

\* The linked list implements the closable queue.
FifoSpec == Fifo!Spec

=============================================================================
