---------------------------- MODULE CollatzLists ----------------------------
(***************************************************************************)
(* Both Collatz drivers of hw11.  The second (list_main.c) has the control *)
(* of ivec_main.c over lists of cells (list.h), the newest number first;   *)
(* the initial state says which driver runs.  For the second, ivecs holds  *)
(* what each list spells out from its end, so that the properties of       *)
(* Collatz speak of both.                                                  *)
(***************************************************************************)
EXTENDS Collatz

Seqs == INSTANCE SequencesExt

VARIABLES
  driver,      \* "ivec" or "list"
  lists        \* with lists: every list that was made, by the same pointers as ivecs

lvars == <<vars, driver, lists>>

cons(item, rest) == <<item>> \o rest
count_list(list) == Len(list)

\* A new cell for each, from the end on.
copy_list(list) == Seqs!FoldRight(cons, list, <<>>)

\* A variant for the checks: go on from the number that the list ends with.
grow_oldest(list) == IF Head(list) = 1 THEN list ELSE cons(collatz_step(Seqs!Last(list)), list)
grow_list(list)   == IF Head(list) = 1 THEN list ELSE cons(collatz_step(Head(list)), list)

iterate_list(list) ==
  LET grown[jj \in 0 .. CHUNK] == IF jj = 0 THEN list ELSE grow_list(grown[jj - 1])
  IN  grown[CHUNK]

LInit ==
  /\ Init
  /\ \/ driver = "ivec" /\ lists = <<>>
     \/ driver = "list" /\ lists = [k \in Tasks |-> cons(k, <<>>)]

ListLoad(t) ==
  /\ at[t] = "load"
  /\ xs' = [xs EXCEPT ![t] = vals[task(t)]]
  /\ Goto(t, IF Head(lists[xs'[t]]) > 1 THEN "iterate" ELSE "count")
  /\ UNCHANGED <<heap, vals, steps, dibs, base, i0, done_count, result, lists>>

ListIterate(t) ==                    \* iterate on a copy
  /\ at[t] = "iterate"
  /\ lists' = Append(lists, iterate_list(copy_list(lists[xs[t]])))
  /\ ivecs' = Append(ivecs, Seqs!Reverse(Seqs!Last(lists')))
  /\ xs' = [xs EXCEPT ![t] = Len(lists')]
  /\ Goto(t, "free")
  /\ UNCHANGED <<freed, vals, steps, dibs, base, i0, done_count, result>>

ListCountDone(t) ==
  /\ at[t] = "count"
  /\ steps' = IF steps[task(t)] = -1
              THEN [steps EXCEPT ![task(t)] = count_list(lists[vals[task(t)]]) - 1]
              ELSE steps
  /\ done_count' = [done_count EXCEPT ![t] = @ + 1]
  /\ Goto(t, "unlock")
  /\ UNCHANGED <<heap, vals, dibs, base, i0, xs, result, lists>>

\* What the drivers have in common; free_list takes the place of free_ivec.
ListWorker(t) ==
  \/ ListLoad(t) \/ ListIterate(t) \/ ListCountDone(t)
  \/ /\ \/ Start(t) \/ TakeDibs(t) \/ Skip(t) \/ Free(t) \/ Store(t) \/ DropDibs(t)
        \/ EndScan(t)
     /\ UNCHANGED lists

Thread(t) ==
  /\ \/ driver = "ivec" /\ Worker(t) /\ UNCHANGED lists
     \/ driver = "list" /\ ListWorker(t)
  /\ UNCHANGED driver

LPrintMax == PrintMax /\ UNCHANGED <<driver, lists>>

LNext == LPrintMax \/ \E t \in Threads : Thread(t)

LSpec == /\ LInit /\ [][LNext]_lvars
         /\ WF_lvars(LPrintMax)
         /\ \A t \in Threads : WF_lvars(Thread(t))

=============================================================================
