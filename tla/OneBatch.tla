------------------------------ MODULE OneBatch ------------------------------
(***************************************************************************)
(* The use of the interprocess queue that queue.c does serve: one putter   *)
(* that makes at most Batch <= QUEUE_SIZE calls of queue_put in all, and   *)
(* any number of getters.  Main is such a putter of iqueue, and a single   *)
(* worker of oqueue, when no more numbers are factored than the ring has   *)
(* slots.                                                                  *)
(***************************************************************************)
EXTENDS SharedQueue, Sequences

CONSTANT Batch       \* how many jobs the putter sends

ASSUME OneBatchAssumption ==
  /\ Cardinality(Putters) = 1
  /\ Putters \cap Getters = {}
  /\ Batch \in 0 .. QUEUE_SIZE

VARIABLES
  sent,   \* the jobs passed to queue_put, in order
  got     \* what queue_get returned, in order: the job and the ticket it came with

bvars == <<vars, sent, got>>

BInit == Init /\ sent = <<>> /\ got = <<>>

Put(p, msg) ==
  /\ Len(sent) < Batch
  /\ PutWait(p, msg)
  /\ sent' = Append(sent, msg)
  /\ UNCHANGED got

Putting(p) == PutStep(p) /\ UNCHANGED <<sent, got>>

Get(p) == GetWait(p) /\ UNCHANGED <<sent, got>>

Getting(p) ==
  /\ GetFetchAdd(p) \/ GetPost(p) \/ \E w \in Parts : GetLoad(p, w)
  /\ UNCHANGED <<sent, got>>

Return(p) ==
  /\ GetReturn(p)
  /\ got' = Append(got, [ticket |-> idx[p], job |-> buf[p]])
  /\ UNCHANGED sent

BNext ==
  \/ \E p \in Putters : (\E msg \in Job : Put(p, msg)) \/ Putting(p)
  \/ \E p \in Getters : Get(p) \/ Getting(p) \/ Return(p)

\* Workers and printer call queue_get in a loop; the kernel keeps scheduling them.
BSpec ==
  /\ BInit /\ [][BNext]_bvars
  /\ \A p \in Putters : WF_bvars(Putting(p))
  /\ \A p \in Getters : WF_bvars(Get(p) \/ Getting(p) \/ Return(p))

-----------------------------------------------------------------------------
\* queue_get returns the job that queue_put was given for the same ticket, whole,
\* however the copying of the jobs interleaves.
Faithful ==
  \A k \in DOMAIN got :
    /\ got[k].ticket + 1 \in DOMAIN sent
    /\ got[k].job = sent[got[k].ticket + 1]

\* No job is returned twice.
AtMostOnce ==
  \A j, k \in DOMAIN got : got[j].ticket = got[k].ticket => j = k

\* Every job that was sent is returned.
EveryJobArrives ==
  \A n \in 1 .. Batch :
    Len(sent) >= n ~> \E k \in DOMAIN got : got[k].ticket + 1 = n

=============================================================================
