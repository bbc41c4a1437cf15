------------------------- MODULE ThreadQueueProofs -------------------------
(***************************************************************************)
(* The linked list of hw08 implements the closable queue, for any threads, *)
(* any messages and any number of qnodes.                                  *)
(***************************************************************************)
EXTENDS ThreadQueue, SequenceTheorems, TLAPS

-----------------------------------------------------------------------------
(***************************************************************************)
(* The inductive invariant.  The history fifo is the list, read through    *)
(* the prev pointers from the tail and through the next pointers from the  *)
(* head; every allocated qnode is on it, once.                             *)
(***************************************************************************)
Qnode == [data : Msg, prev : Addr \cup {NULL}, next : Addr \cup {NULL}]

QTypeOK ==
  /\ fifo \in Seq(Addr)
  /\ node \in [{fifo[k] : k \in 1 .. Len(fifo)} -> Qnode]
  /\ done \in BOOLEAN
  /\ ret \in [Threads -> Msg \cup {NULL}]

NoNodeTwice == \A j, k \in 1 .. Len(fifo) : fifo[j] = fifo[k] => j = k

Ends ==
  /\ tail = IF Len(fifo) = 0 THEN NULL ELSE fifo[1]
  /\ head = IF Len(fifo) = 0 THEN NULL ELSE fifo[Len(fifo)]

Links ==
  \A k \in 1 .. Len(fifo) :
    /\ node[fifo[k]].prev = IF k < Len(fifo) THEN fifo[k + 1] ELSE NULL
    /\ node[fifo[k]].next = IF k > 1 THEN fifo[k - 1] ELSE NULL

QInv == QTypeOK /\ NoNodeTwice /\ Ends /\ Links

-----------------------------------------------------------------------------
\* The jobs on the list, oldest first.
contents == [k \in 1 .. Len(fifo) |-> node[fifo[k]].data]

\* Only a sequence without elements is empty, and no qnode is at NULL.
LEMMA QueueBasics ==
  ASSUME QInv
  PROVE  /\ Len(fifo) \in Nat /\ contents \in Seq(Msg) /\ Len(contents) = Len(fifo)
         /\ \A k \in 1 .. Len(fifo) : /\ fifo[k] \in Addr /\ fifo[k] # NULL
                                      /\ fifo[k] \in DOMAIN node /\ node[fifo[k]] \in Qnode
                                      /\ contents[k] = node[fifo[k]].data
         /\ tail = NULL <=> Len(fifo) = 0
         /\ head = NULL <=> Len(fifo) = 0
         /\ contents = <<>> <=> Len(fifo) = 0
<1>1. Len(fifo) \in Nat /\ fifo \in Seq(Addr)
  BY DEF QInv, QTypeOK
<1>2. \A k \in 1 .. Len(fifo) : fifo[k] \in Addr /\ fifo[k] # NULL
  <2>1. \A k \in 1 .. Len(fifo) : fifo[k] \in Addr
    BY <1>1
  <2> QED BY <2>1 DEF Addr, NULL
<1>3. \A k \in 1 .. Len(fifo) : fifo[k] \in DOMAIN node /\ node[fifo[k]] \in Qnode
  BY DEF QInv, QTypeOK
<1>4. \A k \in 1 .. Len(fifo) : contents[k] \in Msg /\ contents[k] = node[fifo[k]].data
  BY <1>3 DEF contents, Qnode
<1>5. contents \in Seq(Msg) /\ Len(contents) = Len(fifo)
  <2>1. contents \in [1 .. Len(fifo) -> Msg]
    BY <1>4 DEF contents
  <2> QED BY <1>1, <2>1
<1>6. contents = <<>> <=> Len(fifo) = 0
  BY <1>5, EmptySeq
<1>7. /\ tail = NULL <=> Len(fifo) = 0
      /\ head = NULL <=> Len(fifo) = 0
  BY <1>1, <1>2 DEF QInv, Ends
<1> QED BY <1>1, <1>2, <1>3, <1>4, <1>5, <1>6, <1>7

\* queue_put links the new qnode in front of the newest.
LEMMA PutLinks ==
  ASSUME QInv, NEW msg \in Msg, queue_put(msg)
  PROVE  QInv' /\ contents' = Append(contents, msg) /\ UNCHANGED <<done, ret>>
<1>1. PICK a \in Addr \ DOMAIN node :
        /\ node' = Linked(a, msg) /\ head' = a
        /\ tail' = IF head = NULL THEN a ELSE tail
        /\ fifo' = Append(fifo, a) /\ UNCHANGED <<done, ret>>
  BY DEF queue_put
<1> DEFINE n == Len(fifo)
<1>2. /\ fifo' \in Seq(Addr) /\ Len(fifo') = n + 1 /\ fifo'[n + 1] = a
      /\ \A k \in 1 .. n : fifo'[k] = fifo[k]
      /\ n \in Nat
  BY <1>1 DEF QInv, QTypeOK
<1>3. \A k \in 1 .. n : fifo[k] # a
  BY <1>1, QueueBasics
<1>4. DOMAIN node' = {fifo'[k] : k \in 1 .. Len(fifo')}
  <2>1. DOMAIN node' = {fifo[k] : k \in 1 .. n} \cup {a}
    BY <1>1 DEF Linked, QInv, QTypeOK
  <2>2. {fifo'[k] : k \in 1 .. n + 1} = {fifo[k] : k \in 1 .. n} \cup {a}
    BY <1>2
  <2> QED BY <1>2, <2>1, <2>2
<1>5. a # NULL /\ a # head
  <2>1. a # NULL
    BY <1>1 DEF Addr, NULL
  <2>2. head = NULL \/ head \in DOMAIN node
    BY <1>2, QueueBasics DEF QInv, Ends
  <2> QED BY <1>1, <2>1, <2>2
<1>6. node'[a] = [data |-> msg, prev |-> NULL, next |-> head]
  BY <1>1, <1>5 DEF Linked
<1>7. \A k \in 1 .. n :
        node'[fifo[k]] = IF k = n THEN [node[fifo[k]] EXCEPT !.prev = a] ELSE node[fifo[k]]
  <2> SUFFICES ASSUME NEW k \in 1 .. n
               PROVE  node'[fifo[k]] = IF k = n THEN [node[fifo[k]] EXCEPT !.prev = a]
                                                ELSE node[fifo[k]]
    OBVIOUS
  <2>1. fifo[k] \in DOMAIN node /\ fifo[k] # a
    BY <1>3, QueueBasics
  <2>2. fifo[k] = head <=> k = n
    BY <1>2 DEF QInv, Ends, NoNodeTwice
  <2> QED BY <1>1, <2>1, <2>2 DEF Linked
<1>8. head \in Addr \cup {NULL}
  BY <1>2, QueueBasics DEF QInv, Ends
<1>9. \A k \in 1 .. n + 1 : node'[fifo'[k]] \in Qnode
  <2> SUFFICES ASSUME NEW k \in 1 .. n + 1 PROVE node'[fifo'[k]] \in Qnode
    OBVIOUS
  <2>1. CASE k = n + 1
    BY <1>1, <1>2, <1>6, <1>8, <2>1 DEF Qnode
  <2>2. CASE k # n + 1
    <3>1. k \in 1 .. n /\ node[fifo[k]] \in Qnode
      BY <1>2, <2>2, QueueBasics
    <3>2. [node[fifo[k]] EXCEPT !.prev = a] \in Qnode
      BY <1>1, <3>1 DEF Qnode
    <3> QED BY <1>2, <1>7, <3>1, <3>2
  <2> QED BY <2>1, <2>2
<1>10. QTypeOK'
  <2>1. node' \in [{fifo'[k] : k \in 1 .. Len(fifo')} -> Qnode]
    <3>1. \A b \in DOMAIN node' : node'[b] \in Qnode
      BY <1>2, <1>4, <1>9
    <3>2. node' = [b \in DOMAIN node' |-> node'[b]]
      BY <1>1 DEF Linked
    <3> QED BY <1>4, <3>1, <3>2
  <2> QED BY <1>1, <1>2, <2>1 DEF QInv, QTypeOK
<1>11. NoNodeTwice'
  BY <1>2, <1>3 DEF QInv, NoNodeTwice
<1>12. Ends'
  <2>1. head = NULL <=> n = 0
    BY QueueBasics
  <2> QED BY <1>1, <1>2, <2>1 DEF QInv, Ends
<1>13. Links'
  <2> SUFFICES ASSUME NEW k \in 1 .. n + 1
               PROVE  /\ node'[fifo'[k]].prev = IF k < n + 1 THEN fifo'[k + 1] ELSE NULL
                      /\ node'[fifo'[k]].next = IF k > 1 THEN fifo'[k - 1] ELSE NULL
    BY <1>2 DEF Links
  <2>1. CASE k = n + 1
    <3>1. head = IF n = 0 THEN NULL ELSE fifo[n]
      BY DEF QInv, Ends
    <3> QED BY <1>2, <1>6, <2>1, <3>1
  <2>2. CASE k # n + 1
    <3>1. k \in 1 .. n /\ node[fifo[k]] \in Qnode
      BY <1>2, <2>2, QueueBasics
    <3>2. /\ node[fifo[k]].prev = IF k < n THEN fifo[k + 1] ELSE NULL
          /\ node[fifo[k]].next = IF k > 1 THEN fifo[k - 1] ELSE NULL
      BY <3>1 DEF QInv, Links
    <3>3. /\ node'[fifo'[k]].prev = IF k = n THEN a ELSE node[fifo[k]].prev
          /\ node'[fifo'[k]].next = node[fifo[k]].next
      <4>1. node'[fifo'[k]] = IF k = n THEN [node[fifo[k]] EXCEPT !.prev = a] ELSE node[fifo[k]]
        BY <1>2, <1>7, <3>1
      <4>2. /\ [node[fifo[k]] EXCEPT !.prev = a].prev = a
            /\ [node[fifo[k]] EXCEPT !.prev = a].next = node[fifo[k]].next
        BY <3>1 DEF Qnode
      <4> QED BY <4>1, <4>2
    <3>4. /\ k < n => fifo'[k + 1] = fifo[k + 1]
          /\ k > 1 => fifo'[k - 1] = fifo[k - 1]
      BY <1>2, <3>1
    <3> QED BY <1>2, <3>1, <3>2, <3>3, <3>4
  <2> QED BY <2>1, <2>2
<1>14. contents' = Append(contents, msg)
  <2>1. ASSUME NEW k \in 1 .. n PROVE node'[fifo'[k]].data = node[fifo[k]].data
    <3>1. node[fifo[k]] \in Qnode
      BY QueueBasics
    <3>2. [node[fifo[k]] EXCEPT !.prev = a].data = node[fifo[k]].data
      BY <3>1 DEF Qnode
    <3>3. node'[fifo'[k]] = IF k = n THEN [node[fifo[k]] EXCEPT !.prev = a] ELSE node[fifo[k]]
      BY <1>2, <1>7
    <3> QED BY <3>2, <3>3
  <2>2. node'[fifo'[n + 1]].data = msg
    BY <1>2, <1>6
  <2>3. contents \in Seq(Msg) /\ Len(contents) = n /\ \A k \in 1 .. n : contents[k] = node[fifo[k]].data
    BY QueueBasics
  <2>4. /\ Append(contents, msg) \in Seq(Msg) /\ Len(Append(contents, msg)) = n + 1
        /\ \A k \in 1 .. n : Append(contents, msg)[k] = node[fifo[k]].data
        /\ Append(contents, msg)[n + 1] = msg
    BY <2>3, AppendProperties
  <2>5. /\ contents' = [k \in 1 .. n + 1 |-> node'[fifo'[k]].data]
        /\ \A k \in 1 .. n + 1 : contents'[k] = node'[fifo'[k]].data /\ contents'[k] \in Msg
    BY <1>2, <1>9 DEF contents, Qnode
  <2>6. contents' \in Seq(Msg) /\ Len(contents') = n + 1
    <3>1. contents' \in [1 .. n + 1 -> Msg]
      BY <2>5
    <3> QED BY <1>2, <3>1
  <2>7. \A k \in 1 .. n + 1 : contents'[k] = Append(contents, msg)[k]
    <3>1. \A k \in 1 .. n + 1 : k \in 1 .. n \/ k = n + 1
      BY <1>2
    <3> QED BY <2>1, <2>2, <2>4, <2>5, <3>1
  <2> QED BY <2>4, <2>6, <2>7, SeqEqual
<1> QED BY <1>1, <1>10, <1>11, <1>12, <1>13, <1>14 DEF QInv

\* queue_get unlinks the oldest, and returns its data.
LEMMA GetLinks ==
  ASSUME QInv, NEW t \in Threads, GetNode(t)
  PROVE  /\ QInv' /\ contents # <<>> /\ contents' = Tail(contents)
         /\ ret' = [ret EXCEPT ![t] = Head(contents)] /\ done' = done
<1> DEFINE n == Len(fifo)
<1>1. /\ tail # NULL /\ tail' = node[tail].prev
      /\ head' = IF node[tail].prev = NULL THEN NULL ELSE head
      /\ node' = [b \in DOMAIN node \ {tail} |->
                    IF b = node[tail].prev THEN [node[b] EXCEPT !.next = NULL] ELSE node[b]]
      /\ ret' = [ret EXCEPT ![t] = node[tail].data]
      /\ fifo' = Tail(fifo) /\ done' = done
  BY DEF GetNode
<1>2. n \in Nat /\ n > 0 /\ tail = fifo[1] /\ fifo \in Seq(Addr) /\ fifo # <<>>
  <2>1. fifo \in Seq(Addr)
    BY DEF QInv, QTypeOK
  <2> QED BY <1>1, <2>1, QueueBasics, EmptySeq DEF QInv, Ends
<1>3. /\ fifo' \in Seq(Addr) /\ Len(fifo') = n - 1
      /\ \A k \in 1 .. n - 1 : fifo'[k] = fifo[k + 1] /\ k + 1 \in 1 .. n
  BY <1>1, <1>2, HeadTailProperties
<1>4. node[tail].prev = IF n > 1 THEN fifo[2] ELSE NULL
  BY <1>2 DEF QInv, Links
<1>5. DOMAIN node' = {fifo'[k] : k \in 1 .. Len(fifo')}
  <2>1. DOMAIN node' = {fifo[k] : k \in 1 .. n} \ {fifo[1]}
    BY <1>1, <1>2 DEF QInv, QTypeOK
  <2>2. \A k \in 1 .. n : k # 1 => fifo[k] # fifo[1] /\ k - 1 \in 1 .. n - 1
    BY <1>2 DEF QInv, NoNodeTwice
  <2>3. {fifo'[k] : k \in 1 .. n - 1} \subseteq {fifo[k] : k \in 1 .. n} \ {fifo[1]}
    BY <1>2, <1>3, <2>2
  <2>4. ASSUME NEW k \in 1 .. n, k # 1 PROVE fifo[k] \in {fifo'[j] : j \in 1 .. n - 1}
    <3>1. fifo'[k - 1] = fifo[k]
      BY <1>2, <1>3, <2>2, <2>4
    <3> QED BY <2>2, <2>4, <3>1
  <2>5. {fifo[k] : k \in 1 .. n} \ {fifo[1]} \subseteq {fifo'[j] : j \in 1 .. n - 1}
    BY <2>4
  <2>6. DOMAIN node' = {fifo'[j] : j \in 1 .. n - 1}
    BY <2>1, <2>3, <2>5
  <2> QED BY <1>3, <2>6
<1>6. ASSUME NEW k \in 1 .. n - 1
      PROVE  node'[fifo'[k]] = IF k = 1 THEN [node[fifo[2]] EXCEPT !.next = NULL]
                                        ELSE node[fifo[k + 1]]
  <2>1. fifo'[k] \in DOMAIN node \ {tail}
    BY <1>1, <1>3, <1>5
  <2>2. fifo'[k] = node[tail].prev <=> k = 1
    <3>1. n > 1 /\ node[tail].prev = fifo[2] /\ 2 \in 1 .. n /\ k + 1 \in 1 .. n
      BY <1>2, <1>3, <1>4
    <3> QED BY <1>3, <3>1 DEF QInv, NoNodeTwice
  <2> QED BY <1>1, <1>3, <2>1, <2>2
<1>7. ASSUME NEW k \in 1 .. n - 1
      PROVE  /\ node[fifo[k + 1]] \in Qnode /\ node'[fifo'[k]] \in Qnode
             /\ node'[fifo'[k]].data = node[fifo[k + 1]].data
             /\ node'[fifo'[k]].prev = node[fifo[k + 1]].prev
             /\ node'[fifo'[k]].next = IF k = 1 THEN NULL ELSE node[fifo[k + 1]].next
  <2>1. node[fifo[k + 1]] \in Qnode
    BY <1>3, QueueBasics
  <2>2. CASE k = 1
    <3>1. /\ [node[fifo[2]] EXCEPT !.next = NULL] \in Qnode
          /\ [node[fifo[2]] EXCEPT !.next = NULL].data = node[fifo[2]].data
          /\ [node[fifo[2]] EXCEPT !.next = NULL].prev = node[fifo[2]].prev
          /\ [node[fifo[2]] EXCEPT !.next = NULL].next = NULL
      BY <2>1, <2>2 DEF Qnode
    <3>2. node'[fifo'[k]] = [node[fifo[2]] EXCEPT !.next = NULL] /\ k + 1 = 2
      BY <1>6, <2>2
    <3> QED BY <2>1, <2>2, <3>1, <3>2
  <2>3. CASE k # 1
    BY <1>6, <2>1, <2>3
  <2> QED BY <2>2, <2>3
<1>8. QTypeOK'
  <2>1. \A b \in DOMAIN node' : node'[b] \in Qnode
    BY <1>3, <1>5, <1>7
  <2>2. node' = [b \in DOMAIN node' |-> node'[b]]
    BY <1>1
  <2>3. node' \in [{fifo'[k] : k \in 1 .. Len(fifo')} -> Qnode]
    BY <1>5, <2>1, <2>2
  <2>4. ret' \in [Threads -> Msg \cup {NULL}]
    <3>1. node[tail].data \in Msg
      BY <1>2, QueueBasics DEF Qnode
    <3> QED BY <1>1, <3>1 DEF QInv, QTypeOK
  <2> QED BY <1>1, <1>3, <2>3, <2>4 DEF QInv, QTypeOK
<1>9. NoNodeTwice'
  <2> SUFFICES ASSUME NEW j \in 1 .. n - 1, NEW k \in 1 .. n - 1, fifo'[j] = fifo'[k]
               PROVE  j = k
    BY <1>3 DEF NoNodeTwice
  <2>1. j + 1 = k + 1
    BY <1>3 DEF QInv, NoNodeTwice
  <2> QED BY <2>1
<1>10. Ends'
  <2>1. CASE n = 1
    BY <1>1, <1>3, <1>4, <2>1 DEF Ends
  <2>2. CASE n # 1
    <3>0. n > 1
      <4>1. \A m \in Nat : m > 0 /\ m # 1 => m > 1
        OBVIOUS
      <4> HIDE DEF n
      <4> QED BY <1>2, <2>2, <4>1
    <3>1. 1 \in 1 .. n - 1 /\ n - 1 \in 1 .. n - 1 /\ fifo[2] # NULL
      BY <1>2, <3>0, QueueBasics
    <3>2. tail' = fifo'[1] /\ head' = head /\ head = fifo[n] /\ fifo'[n - 1] = fifo[n]
      BY <1>1, <1>2, <1>3, <1>4, <3>0, <3>1 DEF QInv, Ends
    <3> QED BY <1>2, <1>3, <3>0, <3>2 DEF Ends
  <2> QED BY <2>1, <2>2
<1>11. Links'
  <2> SUFFICES ASSUME NEW k \in 1 .. n - 1
               PROVE  /\ node'[fifo'[k]].prev = IF k < n - 1 THEN fifo'[k + 1] ELSE NULL
                      /\ node'[fifo'[k]].next = IF k > 1 THEN fifo'[k - 1] ELSE NULL
    BY <1>3 DEF Links
  <2>1. /\ node[fifo[k + 1]].prev = IF k + 1 < n THEN fifo[k + 2] ELSE NULL
        /\ node[fifo[k + 1]].next = fifo[k]
    BY <1>2, <1>3 DEF QInv, Links
  <2>2. /\ k < n - 1 => fifo'[k + 1] = fifo[k + 2]
        /\ k > 1 => fifo'[k - 1] = fifo[k]
    <3>1. k < n - 1 => k + 1 \in 1 .. n - 1 /\ (k + 1) + 1 = k + 2
      BY <1>2
    <3>2. k > 1 => k - 1 \in 1 .. n - 1 /\ (k - 1) + 1 = k
      BY <1>2
    <3> QED BY <1>3, <3>1, <3>2
  <2> QED BY <1>2, <1>7, <2>1, <2>2
<1>12. /\ contents \in Seq(Msg) /\ contents # <<>> /\ Len(contents) = n
       /\ \A k \in 1 .. n : contents[k] = node[fifo[k]].data
  BY <1>2, QueueBasics
<1>13. contents' = Tail(contents)
  <2>1. /\ Tail(contents) \in Seq(Msg) /\ Len(Tail(contents)) = n - 1
        /\ \A k \in 1 .. n - 1 : Tail(contents)[k] = contents[k + 1]
    BY <1>12, HeadTailProperties
  <2>2. /\ contents' = [k \in 1 .. n - 1 |-> node'[fifo'[k]].data]
        /\ \A k \in 1 .. n - 1 : contents'[k] = node[fifo[k + 1]].data
    BY <1>3, <1>7 DEF contents
  <2>3. \A k \in 1 .. n - 1 : contents'[k] \in Msg
    BY <1>7, <2>2 DEF Qnode
  <2>4. contents' \in Seq(Msg) /\ Len(contents') = n - 1
    <3>1. contents' \in [1 .. n - 1 -> Msg]
      BY <2>2, <2>3
    <3>2. n - 1 \in Nat
      BY <1>2
    <3> QED BY <3>1, <3>2
  <2>5. \A k \in 1 .. n - 1 : contents'[k] = Tail(contents)[k]
    BY <1>3, <1>12, <2>1, <2>2
  <2> QED BY <2>1, <2>4, <2>5, SeqEqual
<1>14. ret' = [ret EXCEPT ![t] = Head(contents)]
  <2>1. Head(contents) = contents[1] /\ 1 \in 1 .. n
    BY <1>2, <1>12
  <2>2. Head(contents) = node[tail].data
    BY <1>2, <1>12, <2>1
  <2> QED BY <1>1, <2>2
<1> QED BY <1>1, <1>8, <1>9, <1>10, <1>11, <1>12, <1>13, <1>14 DEF QInv

\* What queue_put does to the set of qnodes: there is one more, and the others keep their
\* data.
LEMMA PutData ==
  ASSUME QInv, NEW msg \in Msg, queue_put(msg)
  PROVE  /\ Len(fifo') = Len(fifo) + 1 /\ ret' = ret /\ done' = done
         /\ \E a \in Addr \ DOMAIN node :
              /\ DOMAIN node' = DOMAIN node \cup {a} /\ node'[a].data = msg
              /\ \A b \in DOMAIN node : node'[b].data = node[b].data
              /\ fifo'[Len(fifo) + 1] = a
              /\ \A k \in 1 .. Len(fifo) : fifo'[k] = fifo[k]
<1>1. PICK a \in Addr \ DOMAIN node :
        /\ node' = Linked(a, msg) /\ fifo' = Append(fifo, a) /\ UNCHANGED <<done, ret>>
  BY DEF queue_put
<1>2. /\ Len(fifo') = Len(fifo) + 1 /\ fifo'[Len(fifo) + 1] = a
      /\ \A k \in 1 .. Len(fifo) : fifo'[k] = fifo[k]
  BY <1>1 DEF QInv, QTypeOK
<1>3. a # head
  <2>1. a # NULL
    BY <1>1 DEF Addr, NULL
  <2>2. head = NULL \/ head \in DOMAIN node
    BY QueueBasics DEF QInv, Ends
  <2> QED BY <1>1, <2>1, <2>2
<1>4. DOMAIN node' = DOMAIN node \cup {a} /\ node'[a].data = msg
  BY <1>1, <1>3 DEF Linked
<1>5. ASSUME NEW b \in DOMAIN node PROVE node'[b].data = node[b].data
  <2>1. node[b] \in Qnode
    BY DEF QInv, QTypeOK
  <2>2. [node[b] EXCEPT !.prev = a].data = node[b].data
    BY <2>1 DEF Qnode
  <2>3. node'[b] = IF b = head THEN [node[b] EXCEPT !.prev = a] ELSE node[b]
    BY <1>1 DEF Linked
  <2> QED BY <2>2, <2>3
<1> QED BY <1>1, <1>2, <1>4, <1>5

\* And queue_get: the oldest is gone, and its data were returned.
LEMMA GetData ==
  ASSUME QInv, NEW t \in Threads, GetNode(t)
  PROVE  /\ tail \in DOMAIN node /\ node[tail].data \in Msg
         /\ DOMAIN node' = DOMAIN node \ {tail}
         /\ \A b \in DOMAIN node' : node'[b].data = node[b].data
         /\ Len(fifo) \in Nat /\ Len(fifo) > 0 /\ tail = fifo[1]
         /\ Len(fifo') = Len(fifo) - 1
         /\ \A k \in 1 .. Len(fifo) - 1 : fifo'[k] = fifo[k + 1]
         /\ ret' = [ret EXCEPT ![t] = node[tail].data] /\ done' = done
<1>1. /\ tail # NULL /\ fifo' = Tail(fifo) /\ done' = done
      /\ node' = [b \in DOMAIN node \ {tail} |->
                    IF b = node[tail].prev THEN [node[b] EXCEPT !.next = NULL] ELSE node[b]]
      /\ ret' = [ret EXCEPT ![t] = node[tail].data]
  BY DEF GetNode
<1>2. Len(fifo) \in Nat /\ Len(fifo) > 0 /\ tail = fifo[1] /\ fifo \in Seq(Addr) /\ fifo # <<>>
  <2>1. fifo \in Seq(Addr)
    BY DEF QInv, QTypeOK
  <2> QED BY <1>1, <2>1, QueueBasics, EmptySeq DEF QInv, Ends
<1>3. tail \in DOMAIN node /\ node[tail].data \in Msg
  BY <1>2, QueueBasics DEF Qnode
<1>4. /\ Len(fifo') = Len(fifo) - 1
      /\ \A k \in 1 .. Len(fifo) - 1 : fifo'[k] = fifo[k + 1]
  BY <1>1, <1>2, HeadTailProperties
<1>5. ASSUME NEW b \in DOMAIN node' PROVE node'[b].data = node[b].data
  <2>1. b \in DOMAIN node /\ node[b] \in Qnode
    BY <1>1 DEF QInv, QTypeOK
  <2>2. [node[b] EXCEPT !.next = NULL].data = node[b].data
    BY <2>1 DEF Qnode
  <2> QED BY <1>1, <2>2
<1> QED BY <1>1, <1>2, <1>3, <1>4, <1>5

-----------------------------------------------------------------------------
(***************************************************************************)
(* The refinement.                                                         *)
(***************************************************************************)
LEMMA QInitInv == Init => QInv /\ Fifo!Init
<1> SUFFICES ASSUME Init PROVE QInv /\ Fifo!Init
  OBVIOUS
<1>1. fifo = <<>> /\ Len(fifo) = 0 /\ node = <<>>
  BY DEF Init
<1>2. node \in [{fifo[k] : k \in 1 .. Len(fifo)} -> Qnode]
  BY <1>1
<1>3. QInv
  <2>1. fifo \in Seq(Addr)
    BY <1>1
  <2>3. QTypeOK
    BY <1>2, <2>1 DEF Init, QTypeOK
  <2>2. NoNodeTwice /\ Ends /\ Links
    BY <1>1 DEF Init, NoNodeTwice, Ends, Links
  <2> QED BY <2>2, <2>3 DEF QInv
<1>4. contents = <<>>
  BY <1>3, <1>1, QueueBasics
<1> QED BY <1>3, <1>4 DEF Fifo!Init, Init, contents

\* A step on the list is a step on the closable queue, or none.
LEMMA QStepInv ==
  ASSUME QInv, [Next]_vars
  PROVE  QInv' /\ [Fifo!Next]_<<contents, done, ret>>
<1>1. CASE \E msg \in Msg : queue_put(msg)
  BY <1>1, PutLinks DEF Fifo!Next, Fifo!Put, contents
<1>2. ASSUME NEW t \in Threads, GetNode(t)
      PROVE  QInv' /\ [Fifo!Next]_<<contents, done, ret>>
  BY <1>2, GetLinks DEF Fifo!Next, Fifo!Take, contents
<1>3. ASSUME UNCHANGED <<head, tail, node, fifo>>, done' \in BOOLEAN,
             ret' \in [Threads -> Msg \cup {NULL}]
      PROVE  QInv' /\ contents' = contents
  BY <1>3 DEF QInv, QTypeOK, NoNodeTwice, Ends, Links, contents
<1>4. done \in BOOLEAN /\ ret \in [Threads -> Msg \cup {NULL}]
  BY DEF QInv, QTypeOK
<1>5. ASSUME NEW t \in Threads, GetNull(t)
      PROVE  QInv' /\ [Fifo!Next]_<<contents, done, ret>>
  <2>1. /\ UNCHANGED <<head, tail, node, fifo>> /\ done' = done
        /\ ret' = [ret EXCEPT ![t] = NULL] /\ done /\ tail = NULL
    BY <1>5 DEF GetNull
  <2>2. contents = <<>>
    BY <2>1, QueueBasics
  <2>3. QInv' /\ contents' = contents
    BY <1>3, <1>4, <2>1
  <2> QED BY <2>1, <2>2, <2>3 DEF Fifo!Next, Fifo!End, contents
<1>6. CASE set_doneq
  <2>1. UNCHANGED <<head, tail, node, fifo, ret>> /\ done' = TRUE
    BY <1>6 DEF set_doneq
  <2>2. QInv' /\ contents' = contents
    BY <1>3, <1>4, <2>1
  <2> QED BY <2>1, <2>2 DEF Fifo!Next, Fifo!Close, contents
<1>7. CASE UNCHANGED <<head, tail, node, fifo, done, ret>>
  <2>1. QInv' /\ contents' = contents
    BY <1>3, <1>4, <1>7
  <2> QED BY <1>7, <2>1
<1> QED
  BY <1>1, <1>2, <1>5, <1>6, <1>7
  DEF Next, vars, wake_up, queue_get, GetSleep, SpuriousWakeUp

\* The pointers of the linked list, whatever is put and taken by however many threads:
\* jobs come out in the order in which they went in, each once, and a thread is told that
\* there is none only when the list is empty and done is set.
THEOREM ListImplementsFifo == Spec => FifoSpec
<1>1. Init => QInv /\ Fifo!Init  BY QInitInv
<1>2. QInv /\ [Next]_vars => QInv' /\ [Fifo!Next]_<<contents, done, ret>>  BY QStepInv
<1> QED BY <1>1, <1>2, PTL DEF Spec, FifoSpec, Fifo!Spec, contents

=============================================================================
