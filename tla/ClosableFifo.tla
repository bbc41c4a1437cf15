---------------------------- MODULE ClosableFifo ----------------------------
(***************************************************************************)
(* What the job queue of hw08 promises: jobs come out in the order they    *)
(* went in, each to one thread, and a thread is told that there is no job  *)
(* only when the queue is empty and has been closed.                       *)
(***************************************************************************)
EXTENDS Sequences

CONSTANTS Threads, Msg, NoMsg
VARIABLES contents,   \* the jobs in the queue, oldest first
          closed,
          answer      \* what each thread's last get returned

Init == contents = <<>> /\ closed = FALSE /\ answer = [t \in Threads |-> NoMsg]

Put == /\ \E m \in Msg : contents' = Append(contents, m)
       /\ UNCHANGED <<closed, answer>>

Take(t) == /\ contents # <<>>
           /\ answer' = [answer EXCEPT ![t] = Head(contents)]
           /\ contents' = Tail(contents)
           /\ UNCHANGED closed

End(t) == /\ contents = <<>> /\ closed
          /\ answer' = [answer EXCEPT ![t] = NoMsg]
          /\ UNCHANGED <<contents, closed>>

Close == closed' = TRUE /\ UNCHANGED <<contents, answer>>

Next == Put \/ Close \/ \E t \in Threads : Take(t) \/ End(t)
Spec == Init /\ [][Next]_<<contents, closed, answer>>

=============================================================================
