------------------------- MODULE SharedQueueProofs -------------------------
(***************************************************************************)
(* For every number of processes, every ring size, every width of the      *)
(* tickets and every job layout: the semaphores of the interprocess queue  *)
(* account for every slot, the tickets agree with them, and the queue      *)
(* implements BoundedBuffer.                                               *)
(***************************************************************************)
EXTENDS SharedQueue, FiniteSetTheorems, TLAPS

-----------------------------------------------------------------------------
(***************************************************************************)
(* Arithmetic of slots and tickets.                                        *)
(***************************************************************************)

\* A ticket always denotes a slot of the ring.
LEMMA SlotType ==
  ASSUME NEW t \in UInt
  PROVE  Slot(t) \in Slots
BY SharedQueueAssumption DEF Slot, Slots, UInt

\* The remainder of a difference of two tickets, whether or not qii has wrapped
\* past qjj.
LEMMA TicketDistance ==
  ASSUME NEW i \in UInt, NEW j \in UInt, NEW d \in 0 .. QUEUE_SIZE,
         i = j + d \/ i + UINT_SPAN = j + d
  PROVE  (i - j) % UINT_SPAN = d
<1>1. UINT_SPAN \in Nat \ {0} /\ d \in 0 .. UINT_SPAN - 1
  BY SharedQueueAssumption
<1>2. CASE i = j + d
  <2>1. i - j = d  BY <1>2 DEF UInt
  <2> QED BY <1>1, <2>1
<1>3. CASE i + UINT_SPAN = j + d
  <2>1. i - j = d - UINT_SPAN  BY <1>3, SharedQueueAssumption DEF UInt
  <2> QED BY <1>1, <2>1
<1> QED BY <1>2, <1>3

-----------------------------------------------------------------------------
(***************************************************************************)
(* Counting the processes at a label.                                      *)
(***************************************************************************)

\* Counts are natural numbers, and at least 1 where somebody is.
LEMMA CountType ==
  ASSUME NEW label
  PROVE  /\ IsFiniteSet(At(label))
         /\ NumAt(label) \in Nat
         /\ \A p \in At(label) : NumAt(label) >= 1
<1>1. IsFiniteSet(Procs)
  BY SharedQueueAssumption, FS_Union DEF Procs
<1>2. IsFiniteSet(At(label))
  BY <1>1, FS_Subset DEF At
<1>3. NumAt(label) \in Nat
  BY <1>2, FS_CardinalityType DEF NumAt
<1>4. ASSUME NEW p \in At(label)
      PROVE  NumAt(label) >= 1
  <2>1. NumAt(label) # 0  BY <1>2, <1>4, FS_EmptySet DEF NumAt
  <2> QED BY <2>1, <1>3
<1> QED BY <1>2, <1>3, <1>4

\* A process that goes from one label to another leaves one count and joins one.
LEMMA CountMove ==
  ASSUME NEW p \in Procs, NEW from, NEW to,
         DOMAIN pc = Procs, pc[p] = from, from # to, Goto(p, to)
  PROVE  /\ NumAt(from)' = NumAt(from) - 1
         /\ NumAt(to)' = NumAt(to) + 1
         /\ \A label : label # from /\ label # to => NumAt(label)' = NumAt(label)
<1>1. \A q \in Procs : pc'[q] = IF q = p THEN to ELSE pc[q]
  BY DEF Goto
<1>2. At(from)' = At(from) \ {p} /\ p \in At(from)
  BY <1>1 DEF At
<1>3. At(to)' = At(to) \cup {p} /\ p \notin At(to)
  BY <1>1 DEF At
<1>4. \A label : label # from /\ label # to => At(label)' = At(label)
  BY <1>1 DEF At
<1>5. NumAt(from)' = NumAt(from) - 1
  BY <1>2, CountType, FS_RemoveElement DEF NumAt
<1>6. NumAt(to)' = NumAt(to) + 1
  BY <1>3, CountType, FS_AddElement DEF NumAt
<1> QED BY <1>4, <1>5, <1>6 DEF NumAt

\* A step that moves nobody changes no count.
LEMMA CountSame ==
  ASSUME UNCHANGED pc
  PROVE  \A label : NumAt(label)' = NumAt(label)
BY DEF NumAt, At

\* Where nobody is, the count is zero.
LEMMA CountNone ==
  ASSUME NEW label, At(label) = {}
  PROVE  NumAt(label) = 0
BY FS_EmptySet DEF NumAt

-----------------------------------------------------------------------------
(***************************************************************************)
(* The inductive invariant.  TicketsAccounted is a remainder; what the     *)
(* steps preserve is the equation it comes from, which says whether qii    *)
(* has wrapped past qjj.                                                   *)
(***************************************************************************)
TicketEquation ==
  \/ qii = qjj + Outstanding
  \/ qii + UINT_SPAN = qjj + Outstanding

IInv == TypeOK /\ SpaceAccounted /\ TicketEquation

\* No count exceeds what the ring allows, so semaphores stay within QUEUE_SIZE.
LEMMA OutstandingBound ==
  ASSUME TypeOK, SpaceAccounted
  PROVE  /\ Outstanding \in 0 .. QUEUE_SIZE
         /\ At("put_claim") # {} => Outstanding < QUEUE_SIZE
         /\ At("get_claim") # {} => Outstanding > 0
<1> DEFINE a == NumAt("put_claim")  b == NumAt("put_copy")
           c == NumAt("get_claim")  d == NumAt("get_post")
<1>1. a \in Nat /\ b \in Nat /\ c \in Nat /\ d \in Nat
  BY CountType
<1>2. empty \in Nat /\ full \in Nat /\ QUEUE_SIZE \in Nat
  BY SharedQueueAssumption DEF TypeOK
<1>3. empty + full + a + b + c + d = QUEUE_SIZE
  BY DEF SpaceAccounted
<1>4. Outstanding = full + b + c
  BY DEF Outstanding
<1>5. At("put_claim") # {} => a >= 1
  BY CountType
<1>6. At("get_claim") # {} => c >= 1
  BY CountType
<1> QED BY <1>1, <1>2, <1>3, <1>4, <1>5, <1>6

LEMMA InitInv == Init => IInv
<1> SUFFICES ASSUME Init PROVE IInv
  OBVIOUS
<1>1. TypeOK
  BY SharedQueueAssumption DEF Init, TypeOK, NoJob, Job, UInt, PcLabel
<1>2. \A label : label # "out" => At(label) = {}
  BY DEF Init, At
<1>3. \A label : label # "out" => NumAt(label) = 0
  BY <1>2, FS_EmptySet DEF NumAt
<1>4. SpaceAccounted
  BY <1>3, SharedQueueAssumption DEF SpaceAccounted, Init
<1>5. TicketEquation
  BY <1>3 DEF TicketEquation, Outstanding, Init
<1> QED BY <1>1, <1>4, <1>5 DEF IInv

\* The tickets stay in the range of an unsigned int.
LEMMA IncType ==
  ASSUME NEW t \in UInt
  PROVE  /\ Inc(t) \in UInt
         /\ Inc(t) = t + 1 \/ Inc(t) + UINT_SPAN = t + 1
BY SharedQueueAssumption DEF Inc, UInt

LEMMA StepInv == IInv /\ [Next]_vars => IInv'
<1> SUFFICES ASSUME IInv, [Next]_vars PROVE IInv'
  OBVIOUS
<1> USE DEF IInv
<1>t. /\ DOMAIN pc = Procs
      /\ empty \in Nat /\ full \in Nat /\ QUEUE_SIZE \in Nat
      /\ Putters \subseteq Procs /\ Getters \subseteq Procs
  BY SharedQueueAssumption DEF TypeOK, Procs
<1>n. \A label : NumAt(label) \in Nat /\ NumAt(label)' \in Nat
  <2>1. \A label : NumAt(label) \in Nat  BY CountType
  <2>2. ASSUME NEW label PROVE NumAt(label)' \in Nat
    <3>1. IsFiniteSet(Procs)  BY SharedQueueAssumption, FS_Union DEF Procs
    <3>2. IsFiniteSet(At(label)')  BY <3>1, FS_Subset DEF At
    <3> QED BY <3>2, FS_CardinalityType DEF NumAt
  <2> QED BY <2>1, <2>2
<1>1. ASSUME NEW p \in Putters, NEW msg \in Job, PutWait(p, msg)
      PROVE  IInv'
  <2>1. /\ NumAt("put_claim")' = NumAt("put_claim") + 1
        /\ \A label : label # "out" /\ label # "put_claim" => NumAt(label)' = NumAt(label)
    BY <1>1, <1>t, CountMove DEF PutWait
  <2>2. SpaceAccounted'
    BY <1>1, <1>t, <1>n, <2>1 DEF SpaceAccounted, PutWait
  <2>3. TypeOK'
    BY <1>1, <1>t DEF TypeOK, PutWait, Goto, PcLabel
  <2>4. TicketEquation'
    BY <1>1, <2>1 DEF TicketEquation, Outstanding, PutWait
  <2> QED BY <2>2, <2>3, <2>4
<1>2. ASSUME NEW p \in Putters, PutFetchAdd(p)
      PROVE  IInv'
  <2>1. /\ NumAt("put_claim")' = NumAt("put_claim") - 1
        /\ NumAt("put_copy")' = NumAt("put_copy") + 1
        /\ \A label : label # "put_claim" /\ label # "put_copy" => NumAt(label)' = NumAt(label)
    BY <1>2, <1>t, CountMove DEF PutFetchAdd
  <2>2. SpaceAccounted'
    BY <1>2, <1>t, <1>n, <2>1 DEF SpaceAccounted, PutFetchAdd
  <2>3. TypeOK'
    BY <1>2, <1>t, IncType DEF TypeOK, PutFetchAdd, Goto, PcLabel
  <2>4. Outstanding' = Outstanding + 1 /\ qjj' = qjj /\ qii' = Inc(qii)
    BY <1>2, <1>t, <1>n, <2>1 DEF Outstanding, PutFetchAdd
  <2>5. TicketEquation'
    <3>1. Outstanding < QUEUE_SIZE /\ Outstanding \in Nat
      BY <1>2, <1>t, OutstandingBound DEF PutFetchAdd, At
    <3>2. qii \in UInt /\ qjj \in UInt /\ UINT_SPAN \in Nat /\ QUEUE_SIZE < UINT_SPAN
      BY SharedQueueAssumption DEF TypeOK
    <3>3. Inc(qii) = qii + 1 \/ Inc(qii) + UINT_SPAN = qii + 1
      BY <3>2, IncType
    <3>4. Inc(qii) \in UInt
      BY <3>2, IncType
    <3> QED BY <1>t, <2>4, <3>1, <3>2, <3>3, <3>4 DEF TicketEquation, UInt
  <2> QED BY <2>2, <2>3, <2>5
<1>3. ASSUME NEW p \in Putters, NEW w \in Parts, PutStore(p, w)
      PROVE  IInv'
  <2>1. \A label : NumAt(label)' = NumAt(label)
    BY <1>3, CountSame DEF PutStore
  <2>2. SpaceAccounted' /\ TicketEquation'
    BY <1>3, <2>1 DEF SpaceAccounted, TicketEquation, Outstanding, PutStore
  <2>3. jobs' \in [Slots -> Job]
    <3>1. p \in Procs /\ Slot(idx[p]) \in Slots
      BY <1>t, SlotType DEF TypeOK
    <3>2. buf[p][w] \in Value
      BY <3>1 DEF TypeOK, Job
    <3> QED BY <1>3, <3>1, <3>2 DEF TypeOK, PutStore, Job
  <2>4. TypeOK'
    BY <1>3, <1>t, <2>3 DEF TypeOK, PutStore
  <2> QED BY <2>2, <2>4
<1>4. ASSUME NEW p \in Putters, PutPost(p)
      PROVE  IInv'
  <2>1. /\ NumAt("put_copy")' = NumAt("put_copy") - 1
        /\ \A label : label # "put_copy" /\ label # "out" => NumAt(label)' = NumAt(label)
    BY <1>4, <1>t, CountMove DEF PutPost
  <2>2. SpaceAccounted'
    BY <1>4, <1>t, <1>n, <2>1 DEF SpaceAccounted, PutPost
  <2>3. full' \in 0 .. QUEUE_SIZE
    BY <1>4, <1>t, <1>n, <2>2 DEF SpaceAccounted, PutPost
  <2>4. TypeOK'
    BY <1>4, <1>t, <2>3 DEF TypeOK, PutPost, Goto, PcLabel
  <2>5. TicketEquation'
    BY <1>4, <1>t, <1>n, <2>1 DEF TicketEquation, Outstanding, PutPost
  <2> QED BY <2>2, <2>4, <2>5
<1>5. ASSUME NEW p \in Getters, GetWait(p)
      PROVE  IInv'
  <2>1. /\ NumAt("get_claim")' = NumAt("get_claim") + 1
        /\ \A label : label # "out" /\ label # "get_claim" => NumAt(label)' = NumAt(label)
    BY <1>5, <1>t, CountMove DEF GetWait
  <2>2. SpaceAccounted'
    BY <1>5, <1>t, <1>n, <2>1 DEF SpaceAccounted, GetWait
  <2>3. TypeOK'
    BY <1>5, <1>t DEF TypeOK, GetWait, Goto, PcLabel
  <2>4. TicketEquation'
    BY <1>5, <1>t, <1>n, <2>1 DEF TicketEquation, Outstanding, GetWait
  <2> QED BY <2>2, <2>3, <2>4
<1>6. ASSUME NEW p \in Getters, GetFetchAdd(p)
      PROVE  IInv'
  <2>1. /\ NumAt("get_claim")' = NumAt("get_claim") - 1
        /\ NumAt("get_post")' = NumAt("get_post") + 1
        /\ \A label : label # "get_claim" /\ label # "get_post" => NumAt(label)' = NumAt(label)
    BY <1>6, <1>t, CountMove DEF GetFetchAdd
  <2>2. SpaceAccounted'
    BY <1>6, <1>t, <1>n, <2>1 DEF SpaceAccounted, GetFetchAdd
  <2>3. TypeOK'
    BY <1>6, <1>t, IncType DEF TypeOK, GetFetchAdd, Goto, PcLabel
  <2>4. Outstanding' = Outstanding - 1 /\ qii' = qii /\ qjj' = Inc(qjj)
    BY <1>6, <1>t, <1>n, <2>1 DEF Outstanding, GetFetchAdd
  <2>5. TicketEquation'
    <3>1. Outstanding > 0 /\ Outstanding \in 0 .. QUEUE_SIZE
      BY <1>6, <1>t, OutstandingBound DEF GetFetchAdd, At
    <3>2. qii \in UInt /\ qjj \in UInt /\ UINT_SPAN \in Nat /\ QUEUE_SIZE < UINT_SPAN
      BY SharedQueueAssumption DEF TypeOK
    <3>3. Inc(qjj) = qjj + 1 \/ Inc(qjj) + UINT_SPAN = qjj + 1
      BY <3>2, IncType
    <3>4. Inc(qjj) \in UInt
      BY <3>2, IncType
    <3> QED BY <1>t, <2>4, <3>1, <3>2, <3>3, <3>4 DEF TicketEquation, UInt
  <2> QED BY <2>2, <2>3, <2>5
<1>7. ASSUME NEW p \in Getters, GetPost(p)
      PROVE  IInv'
  <2>1. /\ NumAt("get_post")' = NumAt("get_post") - 1
        /\ \A label : label # "get_post" /\ label # "get_copy" => NumAt(label)' = NumAt(label)
    BY <1>7, <1>t, CountMove DEF GetPost
  <2>2. SpaceAccounted'
    BY <1>7, <1>t, <1>n, <2>1 DEF SpaceAccounted, GetPost
  <2>3. empty' \in 0 .. QUEUE_SIZE
    BY <1>7, <1>t, <1>n, <2>2 DEF SpaceAccounted, GetPost
  <2>4. TypeOK'
    BY <1>7, <1>t, <2>3 DEF TypeOK, GetPost, Goto, PcLabel
  <2>5. TicketEquation'
    BY <1>7, <2>1 DEF TicketEquation, Outstanding, GetPost
  <2> QED BY <2>2, <2>4, <2>5
<1>8. ASSUME NEW p \in Getters, NEW w \in Parts, GetLoad(p, w)
      PROVE  IInv'
  <2>1. \A label : NumAt(label)' = NumAt(label)
    BY <1>8, CountSame DEF GetLoad
  <2>2. SpaceAccounted' /\ TicketEquation'
    BY <1>8, <2>1 DEF SpaceAccounted, TicketEquation, Outstanding, GetLoad
  <2>3. buf' \in [Procs -> Job]
    <3>1. p \in Procs /\ Slot(idx[p]) \in Slots
      BY <1>t, SlotType DEF TypeOK
    <3>2. jobs[Slot(idx[p])][w] \in Value
      BY <3>1 DEF TypeOK, Job
    <3> QED BY <1>8, <3>1, <3>2 DEF TypeOK, GetLoad, Job
  <2>4. TypeOK'
    BY <1>8, <1>t, <2>3 DEF TypeOK, GetLoad
  <2> QED BY <2>2, <2>4
<1>9. ASSUME NEW p \in Getters, GetReturn(p)
      PROVE  IInv'
  <2>1. \A label : label # "get_copy" /\ label # "out" => NumAt(label)' = NumAt(label)
    BY <1>9, <1>t, CountMove DEF GetReturn
  <2>2. SpaceAccounted' /\ TicketEquation'
    BY <1>9, <2>1 DEF SpaceAccounted, TicketEquation, Outstanding, GetReturn
  <2>3. TypeOK'
    BY <1>9, <1>t DEF TypeOK, GetReturn, Goto, PcLabel
  <2> QED BY <2>2, <2>3
<1>10. CASE UNCHANGED vars
  <2>1. \A label : NumAt(label)' = NumAt(label)
    BY <1>10, CountSame DEF vars
  <2> QED BY <1>10, <2>1
          DEF vars, TypeOK, SpaceAccounted, TicketEquation, Outstanding
<1> QED
  BY <1>1, <1>2, <1>3, <1>4, <1>5, <1>6, <1>7, <1>8, <1>9, <1>10
  DEF Next, PutStep, GetStep

-----------------------------------------------------------------------------
(***************************************************************************)
(* The results.                                                            *)
(***************************************************************************)
LEMMA Invariance == Spec => []IInv
<1>1. Init => IInv  BY InitInv
<1>2. IInv /\ [Next]_vars => IInv'  BY StepInv
<1> QED BY <1>1, <1>2, PTL DEF Spec

\* The semaphores stay between 0 and QUEUE_SIZE, the tickets within an unsigned
\* int, and every local variable holds what its type says, whoever calls
\* queue_put and queue_get and however the calls interleave.
THEOREM QueueTypeCorrect == Spec => []TypeOK
BY Invariance, PTL DEF IInv

\* No interleaving of queue_put and queue_get creates or loses a slot: what the
\* two semaphores do not count is held by a process inside a call.
THEOREM SpaceIsAccounted == Spec => []SpaceAccounted
BY Invariance, PTL DEF IInv

LEMMA TicketDifference ==
  ASSUME IInv
  PROVE  (qii - qjj) % UINT_SPAN = Outstanding
<1>1. qii \in UInt /\ qjj \in UInt  BY DEF IInv, TypeOK
<1>2. Outstanding \in 0 .. QUEUE_SIZE  BY OutstandingBound DEF IInv
<1> QED BY <1>1, <1>2, TicketDistance DEF IInv, TicketEquation

\* The wrapping tickets of queue_put and queue_get never disagree with the
\* semaphores, for every ring size smaller than the range of an unsigned int.
THEOREM TicketsAreAccounted == Spec => []TicketsAccounted
<1>1. IInv => TicketsAccounted  BY TicketDifference DEF TicketsAccounted
<1> QED BY <1>1, Invariance, PTL

\* Claiming a put ticket makes the distance one longer, and there is room for it.
LEMMA ClaimPut ==
  ASSUME IInv, NEW p \in Putters, PutFetchAdd(p)
  PROVE  Buffer!Put
<1> DEFINE d == Outstanding
<1>1. (qii - qjj) % UINT_SPAN = d
  BY TicketDifference
<1>2. d \in Nat /\ d < QUEUE_SIZE
  BY OutstandingBound DEF IInv, TypeOK, PutFetchAdd, At, Procs
<1>3. qii \in UInt /\ qjj \in UInt /\ qii' = Inc(qii) /\ qjj' = qjj
  BY DEF IInv, TypeOK, PutFetchAdd
<1>4. Inc(qii) \in UInt /\ (Inc(qii) = qii + 1 \/ Inc(qii) + UINT_SPAN = qii + 1)
  BY <1>3, IncType
<1>5. Inc(qii) = qjj + (d + 1) \/ Inc(qii) + UINT_SPAN = qjj + (d + 1)
  BY <1>2, <1>3, <1>4, SharedQueueAssumption DEF IInv, TicketEquation, UInt
<1>6. d + 1 \in 0 .. QUEUE_SIZE
  BY <1>2, SharedQueueAssumption
<1>7. (Inc(qii) - qjj) % UINT_SPAN = d + 1
  BY <1>3, <1>4, <1>5, <1>6, TicketDistance
<1> QED BY <1>1, <1>2, <1>3, <1>7 DEF Buffer!Put

\* Claiming a get ticket makes it one shorter, and there is a ticket to claim.
LEMMA ClaimGet ==
  ASSUME IInv, NEW p \in Getters, GetFetchAdd(p)
  PROVE  Buffer!Get
<1> DEFINE d == Outstanding
<1>1. (qii - qjj) % UINT_SPAN = d
  BY TicketDifference
<1>2. d \in 0 .. QUEUE_SIZE /\ d > 0
  BY OutstandingBound DEF IInv, TypeOK, GetFetchAdd, At, Procs
<1>3. qii \in UInt /\ qjj \in UInt /\ qjj' = Inc(qjj) /\ qii' = qii
  BY DEF IInv, TypeOK, GetFetchAdd
<1>4. Inc(qjj) \in UInt /\ (Inc(qjj) = qjj + 1 \/ Inc(qjj) + UINT_SPAN = qjj + 1)
  BY <1>3, IncType
<1>5. qii = Inc(qjj) + (d - 1) \/ qii + UINT_SPAN = Inc(qjj) + (d - 1)
  BY <1>2, <1>3, <1>4, SharedQueueAssumption DEF IInv, TicketEquation, UInt
<1>6. d - 1 \in 0 .. QUEUE_SIZE
  BY <1>2, SharedQueueAssumption
<1>7. (qii - Inc(qjj)) % UINT_SPAN = d - 1
  BY <1>3, <1>4, <1>5, <1>6, TicketDistance
<1> QED BY <1>1, <1>2, <1>3, <1>7 DEF Buffer!Get

\* The lock-free queue of queue.c implements the bounded buffer: a putter claims a
\* ticket only while fewer than QUEUE_SIZE are outstanding, a getter only one that
\* is, although the semaphores and the tickets are never updated together.
THEOREM QueueImplementsBuffer == Spec => BufferSpec
<1>1. Init => Buffer!Init
  BY SharedQueueAssumption DEF Init, Buffer!Init
<1>2. IInv /\ [Next]_vars => [Buffer!Put \/ Buffer!Get]_((qii - qjj) % UINT_SPAN)
  <2> SUFFICES ASSUME IInv, [Next]_vars
               PROVE  [Buffer!Put \/ Buffer!Get]_((qii - qjj) % UINT_SPAN)
    OBVIOUS
  <2>1. CASE \E p \in Putters : PutFetchAdd(p)
    BY <2>1, ClaimPut
  <2>2. CASE \E p \in Getters : GetFetchAdd(p)
    BY <2>2, ClaimGet
  <2>3. CASE UNCHANGED <<qii, qjj>>
    BY <2>3
  <2> QED
    BY <2>1, <2>2, <2>3
    DEF Next, PutStep, GetStep, PutWait, PutStore, PutPost,
        GetWait, GetPost, GetLoad, GetReturn, vars
<1> QED BY <1>1, <1>2, Invariance, PTL DEF Spec, BufferSpec, Buffer!Spec

=============================================================================
