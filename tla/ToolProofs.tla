----------------------------- MODULE ToolProofs -----------------------------
(***************************************************************************)
(* Proofs about the smaller programs of the repository: the shell, for any *)
(* scripts and any number of processes, the file system, for any addresses *)
(* and any number of mounts, and the growing arrays, for any values and    *)
(* any length.                                                             *)
(***************************************************************************)
EXTENDS Nush, Nufs, Vectors, FiniteSetTheorems, SequenceTheorems, WellFoundedInduction, TLAPS

-----------------------------------------------------------------------------
(***************************************************************************)
(* Sums over finite sets.                                                  *)
(***************************************************************************)
\* A set of numbers that is not empty has a least one.
LEMMA Least ==
  ASSUME NEW S \in SUBSET Nat, S # {}
  PROVE  \E n \in S : \A m \in S : ~(m < n)
<1>1. PICK n \in S : \A m \in S : <<m, n>> \notin OpToRel(<, Nat)
  BY NatLessThanWellFounded, WFMin
<1>2. \A m \in S : ~(m < n)
  BY <1>1 DEF OpToRel
<1> QED BY <1>2

OneOf(s) == CHOOSE x \in s : TRUE

\* iter is the sum of b over the subsets of T with at most n elements.
Upto(T, n) == {s \in SUBSET T : Cardinality(s) <= n}
SumsUpto(iter, b, T, n) ==
  iter = [s \in Upto(T, n) |-> IF s = {} THEN 0 ELSE b[OneOf(s)] + iter[s \ {OneOf(s)}]]

Sums(iter, b, T) ==
  iter = [s \in SUBSET T |-> IF s = {} THEN 0 ELSE b[OneOf(s)] + iter[s \ {OneOf(s)}]]

SumOf(b, T) == MapThenSumSet(LAMBDA j : b[j], T)

\* Without the element that is summed first, a finite set is smaller by one.
LEMMA Smaller ==
  ASSUME NEW T, IsFiniteSet(T), NEW s \in SUBSET T, s # {}
  PROVE  /\ OneOf(s) \in s /\ s \ {OneOf(s)} \in SUBSET T
         /\ Cardinality(s) \in Nat \ {0} /\ Cardinality(s \ {OneOf(s)}) = Cardinality(s) - 1
<1>1. OneOf(s) \in s
  BY Zenon DEF OneOf
<1>2. IsFiniteSet(s)
  BY FS_Subset
<1>3. Cardinality(s) \in Nat /\ Cardinality(s) # 0
  BY <1>2, FS_CardinalityType, FS_EmptySet
<1> QED BY <1>1, <1>2, <1>3, FS_RemoveElement

\* What holds of the empty set, and of each set of which it holds without the element that
\* CHOOSE picks, holds of all subsets.
LEMMA SubsetInduction ==
  ASSUME NEW T, IsFiniteSet(T), NEW Good, {} \in Good,
         \A s \in SUBSET T : s # {} /\ s \ {OneOf(s)} \in Good => s \in Good
  PROVE  \A s \in SUBSET T : s \in Good
<1> DEFINE Bad == {n \in Nat : \E s \in SUBSET T : s \notin Good /\ Cardinality(s) = n}
<1> SUFFICES ASSUME NEW s0 \in SUBSET T, s0 \notin Good PROVE FALSE
  OBVIOUS
<1>1. Bad # {}
  <2>1. s0 # {}
    OBVIOUS
  <2>2. Cardinality(s0) \in Nat
    BY <2>1, Smaller
  <2> QED BY <2>2
<1>2. PICK n \in Bad : \A m \in Bad : ~(m < n)
  BY <1>1, Least
<1>3. PICK s \in SUBSET T : s \notin Good /\ Cardinality(s) = n
  OBVIOUS
<1>4. s # {}
  BY <1>3
<1>5. n - 1 \in Nat /\ Cardinality(s \ {OneOf(s)}) = n - 1 /\ s \ {OneOf(s)} \in SUBSET T
  BY <1>3, <1>4, Smaller
<1>6. s \ {OneOf(s)} \notin Good
  BY <1>3, <1>4
<1>7. n - 1 \in Bad /\ n - 1 < n
  BY <1>5, <1>6
<1> QED BY <1>2, <1>7

\* The sums are defined, by induction over the size of the subsets.
LEMMA SumsUptoExists ==
  ASSUME NEW T, IsFiniteSet(T), NEW b, NEW n \in Nat
  PROVE  \E iter : SumsUpto(iter, b, T, n)
<1> DEFINE Bad == {k \in Nat : ~ \E iter : SumsUpto(iter, b, T, k)}
<1> SUFFICES ASSUME Bad # {} PROVE FALSE
  OBVIOUS
<1>1. PICK k \in Bad : \A m \in Bad : ~(m < k)
  BY Least
<1>2. CASE k = 0
  <2>1. ASSUME NEW s \in Upto(T, 0) PROVE s = {}
    <3>1. s \in SUBSET T /\ Cardinality(s) <= 0
      BY DEF Upto
    <3>2. CASE s # {}
      <4>1. Cardinality(s) \in Nat \ {0}
        BY <3>1, <3>2, Smaller
      <4> QED BY <3>1, <4>1
    <3> QED BY <3>2
  <2>2. PICK iter : iter = [s \in Upto(T, 0) |-> 0]
    OBVIOUS
  <2>3. SumsUpto(iter, b, T, 0)
    BY <2>1, <2>2 DEF SumsUpto
  <2> QED BY <1>2, <2>3
<1>3. CASE k # 0
  <2>1. k - 1 \in Nat /\ k - 1 < k
    BY <1>3
  <2>2. k - 1 \notin Bad
    BY <1>1, <2>1
  <2>3. PICK g : SumsUpto(g, b, T, k - 1)
    BY <2>1, <2>2
  <2>4. PICK h : h = [s \in Upto(T, k) |->
                        IF s = {} THEN 0 ELSE b[OneOf(s)] + g[s \ {OneOf(s)}]]
    OBVIOUS
  <2>5. ASSUME NEW s \in Upto(T, k - 1) PROVE s \in Upto(T, k) /\ h[s] = g[s]
    <3>1. s \in SUBSET T /\ Cardinality(s) <= k - 1
      BY DEF Upto
    <3>2. s = {} \/ Cardinality(s) \in Nat
      BY <3>1, Smaller
    <3>3. Cardinality({}) = 0
      BY FS_EmptySet
    <3>4. s \in Upto(T, k)
      BY <3>1, <3>2, <3>3, <2>1 DEF Upto
    <3> QED BY <3>4, <2>3, <2>4 DEF SumsUpto
  <2>6. ASSUME NEW s \in Upto(T, k), s # {} PROVE h[s \ {OneOf(s)}] = g[s \ {OneOf(s)}]
    <3>1. s \in SUBSET T /\ Cardinality(s) <= k
      BY DEF Upto
    <3>2. s \ {OneOf(s)} \in Upto(T, k - 1)
      BY <3>1, <2>6, <2>1, Smaller DEF Upto
    <3> QED BY <3>2, <2>5
  <2>7. SumsUpto(h, b, T, k)
    BY <2>4, <2>6 DEF SumsUpto
  <2> QED BY <2>7
<1> QED BY <1>2, <1>3

\* What the folds of the library compute is the sum by this recursion.
LEMMA SumsOf ==
  ASSUME NEW T, IsFiniteSet(T), NEW b
  PROVE  \E iter : Sums(iter, b, T) /\ SumOf(b, T) = iter[T]
<1>1. Cardinality(T) \in Nat /\ Upto(T, Cardinality(T)) = SUBSET T
  BY FS_CardinalityType, FS_Subset DEF Upto
<1>2. \E iter : SumsUpto(iter, b, T, Cardinality(T))
  BY <1>1, SumsUptoExists
<1>3. \E iter : Sums(iter, b, T)
  BY <1>1, <1>2 DEF SumsUpto, Sums
<1>4. SumOf(b, T) = (CHOOSE iter : Sums(iter, b, T))[T]
  BY Zenon DEF SumOf, MapThenSumSet, MapThenFoldSet, Sums, OneOf
<1>5. Sums(CHOOSE iter : Sums(iter, b, T), b, T)
  BY <1>3, Zenon
<1> QED BY <1>4, <1>5

\* A sum of zeros is zero.
LEMMA SumOfZero ==
  ASSUME NEW T, IsFiniteSet(T), NEW b, \A j \in T : b[j] = 0
  PROVE  SumOf(b, T) = 0
<1>1. PICK iter : Sums(iter, b, T) /\ SumOf(b, T) = iter[T]
  BY SumsOf
<1> DEFINE Good == {s \in SUBSET T : iter[s] = 0}
<1>2. {} \in Good
  BY <1>1 DEF Sums
<1>3. ASSUME NEW s \in SUBSET T, s # {}, s \ {OneOf(s)} \in Good PROVE s \in Good
  <2>1. OneOf(s) \in T
    BY <1>3, Smaller
  <2>2. iter[s] = b[OneOf(s)] + iter[s \ {OneOf(s)}]
    BY <1>1, <1>3 DEF Sums
  <2> QED BY <1>3, <2>1, <2>2
<1>4. T \in Good
  <2> HIDE DEF Good
  <2> QED BY <1>2, <1>3, SubsetInduction
<1> QED BY <1>1, <1>4

\* One element more by one makes the sum more by one, if the element is one of those added up.
LEMMA SumOfMore ==
  ASSUME NEW T, IsFiniteSet(T), NEW b, NEW c, NEW k, \A j \in T : b[j] \in Nat,
         \A j \in T : c[j] = IF j = k THEN b[j] + 1 ELSE b[j]
  PROVE  /\ SumOf(b, T) \in Nat
         /\ SumOf(c, T) = IF k \in T THEN SumOf(b, T) + 1 ELSE SumOf(b, T)
<1>1. PICK f : Sums(f, b, T) /\ SumOf(b, T) = f[T]
  BY SumsOf
<1>2. PICK g : Sums(g, c, T) /\ SumOf(c, T) = g[T]
  BY SumsOf
<1> DEFINE Good == {s \in SUBSET T : f[s] \in Nat /\ g[s] = IF k \in s THEN f[s] + 1 ELSE f[s]}
<1>3. {} \in Good
  BY <1>1, <1>2 DEF Sums
<1>4. ASSUME NEW s \in SUBSET T, s # {}, s \ {OneOf(s)} \in Good PROVE s \in Good
  <2>1. OneOf(s) \in s
    BY <1>4, Smaller
  <2>2. f[s] = b[OneOf(s)] + f[s \ {OneOf(s)}] /\ g[s] = c[OneOf(s)] + g[s \ {OneOf(s)}]
    BY <1>1, <1>2, <1>4 DEF Sums
  <2>3. b[OneOf(s)] \in Nat /\ c[OneOf(s)] = IF OneOf(s) = k THEN b[OneOf(s)] + 1 ELSE b[OneOf(s)]
    BY <2>1
  <2>4. /\ f[s \ {OneOf(s)}] \in Nat
        /\ g[s \ {OneOf(s)}] = IF k \in s \ {OneOf(s)} THEN f[s \ {OneOf(s)}] + 1 ELSE f[s \ {OneOf(s)}]
    BY <1>4
  <2>5. CASE OneOf(s) = k
    BY <2>1, <2>2, <2>3, <2>4, <2>5
  <2>6. CASE OneOf(s) # k
    BY <2>1, <2>2, <2>3, <2>4, <2>6
  <2> QED BY <2>5, <2>6
<1>5. T \in Good
  <2> HIDE DEF Good
  <2> QED BY <1>3, <1>4, SubsetInduction
<1> QED BY <1>1, <1>2, <1>5

-----------------------------------------------------------------------------
(***************************************************************************)
(* The shell.                                                              *)
(***************************************************************************)
Waits   == {"wait1", "wait2", "wait3"}
Execs   == {"exec1", "exec2", "exec3"}
\* A process at one of these labels will read another line.
Reading == Waits \cup {"read", "execute", "fork2", "fork3"}
Labels  == Reading \cup Execs \cup {"none", "program", "return", "zombie"}

ShellTypeOK ==
  /\ version \in Versions /\ script \in Scripts
  /\ pc \in [Procs -> Labels]
  /\ pos \in [Procs -> 0 .. Len(script)] /\ from \in [Procs -> 0 .. Len(script)]
  /\ parent \in [Procs -> {0} \cup Procs] /\ child \in [Procs -> {0} \cup Procs]
  /\ ran \in [1 .. Len(script) -> Nat] /\ born \in [1 .. Len(script) -> Nat]

\* A process that works on a line has read one, and one that waits has somebody to wait for.
Places ==
  \A p \in Procs :
    /\ pc[p] \in Waits \cup Execs \cup {"execute", "fork2", "fork3"} => pos[p] \in 1 .. Len(script)
    /\ pc[p] \in Waits => child[p] \in Procs

\* With no line in the background at most one process does not wait, a dead one included.
Foreground == \A i \in 1 .. Len(script) : version # "start" => script[i].oper # "&"
Alone ==
  Foreground =>
    \A p, q \in Procs :
      pc[p] \notin {"none"} \cup Waits /\ pc[q] \notin {"none"} \cup Waits => p = q

\* Whoever is somebody's child is the child of a live process.
Parents ==
  \A q \in Procs : pc[q] # "none" /\ parent[q] # 0 => pc[parent[q]] \notin {"none", "zombie"}

\* The children of p are in the background, but for the one it waits for.
Kids ==
  \A p, c \in Procs :
    pc[c] # "none" /\ parent[c] = p =>
      script[from[c]].oper = "&" \/ (pc[p] \in Waits /\ child[p] = c)

\* Those that have still to read line i, and those that have read it, are no more than the
\* shell and what the lines before i have made of its children; none is missing if no line
\* ends a shell.
Readers(i) == {p \in Procs : pc[p] \in Reading /\ pos[p] < i}
Whole == version = "final" /\ \A i \in 1 .. Len(script) : script[i].first \notin {"", "exit"}
Budget ==
  \A i \in 1 .. Len(script) :
    /\ ran[i] + Cardinality(Readers(i)) <= 1 + SumOf(born, 1 .. i - 1)
    /\ Whole => ran[i] + Cardinality(Readers(i)) = 1 + SumOf(born, 1 .. i - 1)

ShellInv == ShellTypeOK /\ Places /\ Alone /\ Parents /\ Kids /\ Budget

\* One shell has every line before it, and no line has made another.
LEMMA ShellStart == Init => ShellInv
<1> SUFFICES ASSUME Init PROVE ShellInv
  OBVIOUS
<1>1. Len(script) \in Nat
  BY NushAssumption DEF Init
<1>2. 1 \in Procs
  BY NushAssumption DEF Procs
<1>3. ShellTypeOK
  BY <1>1 DEF Init, ShellTypeOK, Labels, Reading, Waits, Execs
<1>4. Places /\ Alone /\ Parents /\ Kids
  <2>1. \A p \in Procs : pc[p] = (IF p = 1 THEN "read" ELSE "none") /\ parent[p] = 0 /\ p # 0
    BY DEF Init, Procs
  <2> QED BY <2>1 DEF Places, Alone, Parents, Kids, Waits, Execs
<1>5. Budget
  <2> SUFFICES ASSUME NEW i \in 1 .. Len(script)
               PROVE  ran[i] = 0 /\ Cardinality(Readers(i)) = 1 /\ SumOf(born, 1 .. i - 1) = 0
    BY DEF Budget
  <2>1. i \in Nat /\ i - 1 \in Nat
    BY <1>1
  <2>2. Readers(i) = {1}
    BY <1>1, <1>2 DEF Readers, Init, Reading, Waits
  <2>3. Cardinality(Readers(i)) = 1
    BY <2>2, FS_Singleton
  <2>4. SumOf(born, 1 .. i - 1) = 0
    <3>1. IsFiniteSet(1 .. i - 1)
      BY <2>1, FS_Interval
    <3>2. \A j \in 1 .. i - 1 : born[j] = 0
      BY <1>1 DEF Init
    <3> QED BY <3>1, <3>2, SumOfZero
  <2> QED BY <2>3, <2>4 DEF Init
<1> QED BY <1>3, <1>4, <1>5 DEF ShellInv

\* The length of a script is a number.
LEMMA ScriptType == ShellTypeOK => Len(script) \in Nat
BY NushAssumption DEF ShellTypeOK

\* Finitely many processes have line i still to read.
LEMMA ReadersFinite ==
  ASSUME NEW i
  PROVE  /\ IsFiniteSet(Procs) /\ IsFiniteSet(Readers(i)) /\ Cardinality(Readers(i)) \in Nat
<1>1. IsFiniteSet(Procs)
  BY NushAssumption, FS_Interval DEF Procs
<1>2. Readers(i) \subseteq Procs
  BY DEF Readers
<1> QED BY <1>1, <1>2, FS_Subset, FS_CardinalityType

\* How many second shells the lines before i have made is a number.
LEMMA SumType ==
  ASSUME ShellTypeOK, NEW i \in 1 .. Len(script)
  PROVE  SumOf(born, 1 .. i - 1) \in Nat
<1>0. i - 1 \in Int /\ 1 .. i - 1 \subseteq 1 .. Len(script)
  BY ScriptType
<1>1. IsFiniteSet(1 .. i - 1)
  BY <1>0, FS_Interval
<1>3. \A j \in 1 .. i - 1 : born[j] \in Nat
  BY <1>0 DEF ShellTypeOK
<1>2. \A j \in 1 .. i - 1 : born[j] = IF j = 0 THEN born[j] + 1 ELSE born[j]
  BY ScriptType
<1> QED BY <1>1, <1>2, <1>3, SumOfMore

\* No line is read and no shell made.
LEMMA BudgetKept ==
  ASSUME ShellTypeOK, Budget, UNCHANGED <<version, script, ran, born>>,
         \A i \in 1 .. Len(script) :
           Readers(i)' \subseteq Readers(i) /\ (Whole => Readers(i)' = Readers(i))
  PROVE  Budget'
<1> SUFFICES ASSUME NEW i \in 1 .. Len(script)
             PROVE  /\ ran[i] + Cardinality(Readers(i)') <= 1 + SumOf(born, 1 .. i - 1)
                    /\ Whole => ran[i] + Cardinality(Readers(i)') = 1 + SumOf(born, 1 .. i - 1)
  BY DEF Budget, Whole
<1>1. /\ Cardinality(Readers(i)') \in Nat /\ Cardinality(Readers(i)) \in Nat
      /\ Cardinality(Readers(i)') <= Cardinality(Readers(i))
  BY ReadersFinite, FS_Subset, FS_CardinalityType
<1>2. ran[i] \in Nat /\ SumOf(born, 1 .. i - 1) \in Nat
  BY SumType DEF ShellTypeOK
<1>3. Whole => Cardinality(Readers(i)') = Cardinality(Readers(i))
  OBVIOUS
<1> QED BY <1>1, <1>2, <1>3 DEF Budget

\* A process that ends its program or its lines reads none of those behind: there are none left,
\* or the script is one in which a line may end a shell.
LEMMA OverKeeps ==
  ASSUME ShellInv, NEW p \in Procs, Over(p), pc[p] \in {"read", "execute", "return", "program"},
         pc[p] = "read" => pos[p] = Len(script), pc[p] = "execute" => ~Whole
  PROVE  ShellInv'
<1> USE DEF ShellInv
<1>1. ShellTypeOK'
  BY DEF ShellTypeOK, Over, Labels
<1>0. \A q \in Procs :
        /\ pc'[q] \notin {"none", "zombie"} => pc'[q] = pc[q] /\ q # p
        /\ pc'[q] # "none" => pc[q] # "none"
        /\ pc[q] \notin {"none", "zombie"} /\ q # p => pc'[q] = pc[q]
        /\ parent'[q] = IF parent[q] = p THEN 0 ELSE parent[q]
  BY DEF Over, ShellTypeOK
<1>2. Places'
  BY <1>0 DEF Places, Over, Waits, Execs
<1>3. Alone'
  BY DEF Alone, Over, ShellTypeOK, Foreground, Waits
<1>4. Parents'
  BY DEF Parents, Over, ShellTypeOK
<1>5. Kids'
  <2> SUFFICES ASSUME NEW r \in Procs, NEW q \in Procs, pc'[q] # "none", parent'[q] = r
               PROVE  script[from[q]].oper = "&" \/ (pc'[r] \in Waits /\ child[r] = q)
    BY DEF Kids, Over
  <2>1. r # 0 /\ pc[q] # "none" /\ parent[q] = r /\ r # p
    BY <1>0 DEF Procs
  <2>2. pc[r] \notin {"none", "zombie"}
    BY <2>1 DEF Parents
  <2> QED BY <1>0, <2>1, <2>2 DEF Kids
<1>6. Budget'
  <2>1. ASSUME NEW i \in 1 .. Len(script)
        PROVE  Readers(i)' \subseteq Readers(i) /\ (Whole => Readers(i)' = Readers(i))
    <3>1. \A q \in Procs : pc'[q] \in Reading => q # p /\ pc'[q] = pc[q]
      BY DEF Over, Reading, Waits, ShellTypeOK
    <3>2. \A q \in Procs : q # p /\ pc[q] \in Reading => pc'[q] = pc[q]
      BY DEF Over, Reading, Waits, ShellTypeOK
    <3>3. Readers(i)' = Readers(i) \ {p}
      BY <3>1, <3>2 DEF Readers, Over
    <3>4. Whole => p \notin Readers(i)
      BY ScriptType DEF Readers, Reading, Waits, Places
    <3> QED BY <3>3, <3>4
  <2> QED BY <2>1, BudgetKept DEF Over
<1> QED BY <1>1, <1>2, <1>3, <1>4, <1>5, <1>6

\* The child goes to execvp, and its parent waits unless the line is in the background.
LEMMA ForkKeeps ==
  ASSUME ShellInv, NEW p \in Procs, NEW exec \in Execs, NEW then \in Waits \cup {"read"},
         pc[p] \in {"execute", "fork2", "fork3"},
         then = "read" => version # "start" /\ line(p).oper = "&",
         Fork(p, exec, then), UNCHANGED <<version, script, ran, born>>
  PROVE  ShellInv'
<1> USE DEF ShellInv
<1>1. PICK c \in Procs :
        /\ pc[c] = "none"
        /\ pc' = [pc EXCEPT ![p] = then, ![c] = exec]
        /\ pos' = [pos EXCEPT ![c] = pos[p]]
        /\ parent' = [parent EXCEPT ![c] = p]
        /\ child' = [child EXCEPT ![p] = c]
        /\ from' = [from EXCEPT ![c] = pos[p]]
  BY DEF Fork
<1>2. c # p
  BY <1>1
<1>3. ShellTypeOK'
  BY <1>1 DEF ShellTypeOK, Labels, Reading
<1>4. Places'
  BY <1>1, <1>2 DEF Places, ShellTypeOK, Waits, Execs
<1>5. Alone'
  <2>1. Foreground' = Foreground
    BY DEF Foreground
  <2>2. Foreground => then # "read"
    BY DEF Foreground, Places, line
  <2> QED BY <1>1, <1>2, <2>1, <2>2 DEF Alone, ShellTypeOK, Waits, Execs
<1>6. Parents'
  BY <1>1, <1>2 DEF Parents, ShellTypeOK, Waits, Execs
<1>7. Kids'
  <2> SUFFICES ASSUME NEW r \in Procs, NEW q \in Procs, pc'[q] # "none", parent'[q] = r
               PROVE  script[from'[q]].oper = "&" \/ (pc'[r] \in Waits /\ child'[r] = q)
    BY DEF Kids
  <2>1. CASE q = c
    BY <1>1, <1>2, <2>1 DEF ShellTypeOK, line
  <2>2. CASE q # c
    <3>1. parent[q] = r /\ from'[q] = from[q]
      BY <1>1, <2>2 DEF ShellTypeOK
    <3>2. pc[q] # "none"
      BY <1>1, <2>2 DEF ShellTypeOK
    <3>3. r # c
      BY <1>1, <3>1, <3>2 DEF Parents, Procs
    <3>4. script[from[q]].oper = "&" \/ (pc[r] \in Waits /\ child[r] = q)
      BY <3>1, <3>2 DEF Kids
    <3>5. r # p => pc'[r] = pc[r] /\ child'[r] = child[r]
      BY <1>1, <3>3 DEF ShellTypeOK
    <3> QED BY <3>1, <3>4, <3>5 DEF Waits
  <2> QED BY <2>1, <2>2
<1>8. Budget'
  <2>1. ASSUME NEW i \in 1 .. Len(script) PROVE Readers(i)' = Readers(i)
    <3>1. \A q \in Procs : pc'[q] \in Reading <=> pc[q] \in Reading
      BY <1>1, <1>2 DEF Reading, Waits, Execs, ShellTypeOK
    <3>2. \A q \in Procs : pc[q] \in Reading => pos'[q] = pos[q]
      BY <1>1 DEF Reading, Waits, ShellTypeOK
    <3> QED BY <3>1, <3>2 DEF Readers
  <2> QED BY <2>1, BudgetKept
<1> QED BY <1>3, <1>4, <1>5, <1>6, <1>7, <1>8

\* After waitpid the parent is the one that does not wait.
LEMMA ReapKeeps ==
  ASSUME ShellInv, NEW p \in Procs, NEW then \in {"read", "fork2", "fork3", "return"},
         pc[p] \in Waits, then = "return" => version = "start", Reap(p, then)
  PROVE  ShellInv'
<1> USE DEF ShellInv
<1>1. child[p] \in Procs /\ pc[child[p]] = "zombie" /\ child[p] # p /\ pos[p] \in 1 .. Len(script)
  BY DEF Places, Reap, Waits
<1>2. ShellTypeOK'
  BY DEF ShellTypeOK, Reap, Labels, Reading
<1>3. Places'
  BY <1>1 DEF Places, ShellTypeOK, Reap, Waits, Execs
<1>4. Alone'
  <2>1. Foreground' = Foreground
    BY DEF Foreground, Reap
  <2> QED BY <1>1, <2>1 DEF Alone, ShellTypeOK, Reap, Waits
<1>0. /\ pc'[p] = then /\ pc'[child[p]] = "none"
      /\ \A q \in Procs \ {p, child[p]} : pc'[q] = pc[q]
      /\ child' = child /\ parent' = parent /\ from' = from /\ script' = script
  BY <1>1 DEF ShellTypeOK, Reap
<1>5. Parents'
  <2> SUFFICES ASSUME NEW q \in Procs, pc'[q] # "none", parent[q] # 0
               PROVE  pc'[parent[q]] \notin {"none", "zombie"}
    BY <1>0 DEF Parents
  <2>1. pc[q] # "none" /\ parent[q] \in Procs
    BY <1>0 DEF ShellTypeOK, Waits
  <2>2. pc[parent[q]] \notin {"none", "zombie"}
    BY <2>1 DEF Parents
  <2> QED BY <1>0, <1>1, <2>1, <2>2
<1>6. Kids'
  <2> SUFFICES ASSUME NEW r \in Procs, NEW q \in Procs, pc'[q] # "none", parent[q] = r
               PROVE  script[from[q]].oper = "&" \/ (pc'[r] \in Waits /\ child[r] = q)
    BY <1>0 DEF Kids
  <2>1. r # 0 /\ pc[q] # "none" /\ q # child[p]
    BY <1>0 DEF Procs, Waits
  <2>2. pc[r] \notin {"none", "zombie"} /\ r # child[p]
    BY <1>1, <2>1 DEF Parents
  <2> QED BY <1>0, <2>1, <2>2 DEF Kids
<1>7. Budget'
  <2>1. ASSUME NEW i \in 1 .. Len(script)
        PROVE  Readers(i)' \subseteq Readers(i) /\ (Whole => Readers(i)' = Readers(i))
    <3>1. \A q \in Procs : pc'[q] \in Reading => pc[q] \in Reading
      BY <1>1 DEF Reading, Waits, Reap, ShellTypeOK
    <3>2. Whole => \A q \in Procs : pc[q] \in Reading => pc'[q] \in Reading
      BY <1>1 DEF Reading, Waits, Reap, ShellTypeOK, Whole
    <3> QED BY <3>1, <3>2 DEF Readers, Reap
  <2> QED BY <2>1, BudgetKept DEF Reap
<1> QED BY <1>2, <1>3, <1>4, <1>5, <1>6, <1>7

\* cd is done by the shell itself, which goes on reading.
LEMMA ChangeDirKeeps ==
  ASSUME ShellInv, NEW p \in Procs, ChangeDir(p)
  PROVE  ShellInv'
<1> USE DEF ShellInv
<1>1. ShellTypeOK' /\ Places'
  BY DEF ShellTypeOK, Places, ChangeDir, Labels, Reading, Waits, Execs
<1>2. Alone' /\ Parents'
  BY DEF ShellTypeOK, Alone, Foreground, Parents, ChangeDir, Waits
<1>3. Kids'
  BY DEF ShellTypeOK, Kids, ChangeDir, Waits
<1>4. Budget'
  <2>1. ASSUME NEW i \in 1 .. Len(script) PROVE Readers(i)' = Readers(i)
    BY DEF Readers, Reading, ChangeDir, ShellTypeOK
  <2> QED BY <2>1, BudgetKept DEF ChangeDir
<1> QED BY <1>1, <1>2, <1>3, <1>4

\* Whoever reads line i is no longer one of those that have it before them.
LEMMA ReadLineKeeps ==
  ASSUME ShellInv, NEW p \in Procs, ReadLine(p)
  PROVE  ShellInv'
<1> USE DEF ShellInv
<1>1. pos[p] + 1 \in 1 .. Len(script)
  BY ScriptType DEF ReadLine, ShellTypeOK
<1>2. ShellTypeOK' /\ Places'
  BY <1>1 DEF ShellTypeOK, Places, ReadLine, Labels, Reading, Waits, Execs
<1>3. Alone' /\ Parents'
  BY DEF ShellTypeOK, Alone, Foreground, Parents, ReadLine, Waits
<1>4. Kids'
  BY DEF ShellTypeOK, Kids, ReadLine, Waits
<1>5. Budget'
  <2> SUFFICES ASSUME NEW i \in 1 .. Len(script)
               PROVE  /\ ran'[i] + Cardinality(Readers(i)') <= 1 + SumOf(born, 1 .. i - 1)
                      /\ Whole => ran'[i] + Cardinality(Readers(i)') = 1 + SumOf(born, 1 .. i - 1)
    BY DEF Budget, Whole, ReadLine
  <2>1. /\ ran[i] + Cardinality(Readers(i)) <= 1 + SumOf(born, 1 .. i - 1)
        /\ Whole => ran[i] + Cardinality(Readers(i)) = 1 + SumOf(born, 1 .. i - 1)
    BY DEF Budget
  <2>2. \A q \in Procs : q # p => pc'[q] = pc[q] /\ pos'[q] = pos[q]
    BY DEF ReadLine, ShellTypeOK
  <2>3. pc[p] \in Reading /\ pc'[p] \in Reading /\ pos'[p] = pos[p] + 1
    BY DEF ReadLine, ShellTypeOK, Reading
  <2>4. CASE i = pos[p] + 1
    <3>1. p \in Readers(i) /\ Readers(i)' = Readers(i) \ {p}
      BY <2>2, <2>3, <2>4 DEF Readers, ShellTypeOK
    <3>2. Cardinality(Readers(i)') = Cardinality(Readers(i)) - 1
      BY <3>1, ReadersFinite, FS_RemoveElement
    <3>3. ran'[i] = ran[i] + 1 /\ ran[i] \in Nat /\ Cardinality(Readers(i)) \in Nat
      BY <2>4, ReadersFinite DEF ReadLine, ShellTypeOK
    <3> QED BY <2>1, <3>2, <3>3
  <2>5. CASE i # pos[p] + 1
    <3>1. Readers(i)' = Readers(i)
      BY <1>1, <2>2, <2>3, <2>5, ScriptType DEF Readers, ShellTypeOK
    <3>2. ran'[i] = ran[i]
      BY <2>5 DEF ReadLine, ShellTypeOK
    <3> QED BY <2>1, <3>1, <3>2
  <2> QED BY <2>4, <2>5
<1> QED BY <1>2, <1>3, <1>4, <1>5

\* A failed execvp makes a second shell: one more has every later line before it.
LEMMA ExecKeeps ==
  ASSUME ShellInv, NEW p \in Procs, Exec(p)
  PROVE  ShellInv'
<1> USE DEF ShellInv
<1>1. pc[p] \in Execs /\ pos[p] \in 1 .. Len(script)
  BY DEF Exec, Execs, Places
<1>2. CASE Found(p) /\ pc' = [pc EXCEPT ![p] = "program"]
           /\ UNCHANGED <<version, script, pos, parent, child, from, ran, born>>
  <2>1. ShellTypeOK' /\ Places'
    BY <1>1, <1>2 DEF ShellTypeOK, Places, Labels, Waits, Execs
  <2>2. Alone' /\ Parents'
    BY <1>1, <1>2 DEF ShellTypeOK, Alone, Foreground, Parents, Waits, Execs
  <2>3. Kids'
    BY <1>1, <1>2 DEF ShellTypeOK, Kids, Waits, Execs
  <2>4. Budget'
    <3>1. ASSUME NEW i \in 1 .. Len(script) PROVE Readers(i)' = Readers(i)
      BY <1>1, <1>2 DEF Readers, Reading, Waits, Execs, ShellTypeOK
    <3> QED BY <1>2, <3>1, BudgetKept
  <2> QED BY <2>1, <2>2, <2>3, <2>4
<1>3. CASE /\ pc' = [pc EXCEPT ![p] = IF version = "start" THEN "return" ELSE "read"]
           /\ pos' = [pos EXCEPT ![p] = IF Redirected(p) THEN Len(script) ELSE @]
           /\ born' = [born EXCEPT ![pos[p]] = @ + 1]
           /\ UNCHANGED <<version, script, parent, child, from, ran>>
  <2>0. /\ pc'[p] = IF version = "start" THEN "return" ELSE "read"
        /\ pos'[p] = IF Redirected(p) THEN Len(script) ELSE pos[p]
        /\ \A q \in Procs : q # p => pc'[q] = pc[q] /\ pos'[q] = pos[q]
        /\ script' = script /\ child' = child
    BY <1>3 DEF ShellTypeOK
  <2>1. ShellTypeOK'
    <3>1. Len(script) \in 0 .. Len(script) /\ born[pos[p]] + 1 \in Nat
      BY <1>1, ScriptType DEF ShellTypeOK
    <3>2. pc' \in [Procs -> Labels] /\ pos' \in [Procs -> 0 .. Len(script)]
      BY <1>3, <3>1 DEF ShellTypeOK, Labels, Reading
    <3>3. born' \in [1 .. Len(script) -> Nat]
      BY <1>1, <1>3, <3>1 DEF ShellTypeOK
    <3> QED BY <1>3, <3>2, <3>3 DEF ShellTypeOK
  <2>2. Places'
    BY <2>0, SMT DEF Places, Waits, Execs
  <2>3. Alone' /\ Parents'
    <3>1. pc[p] \notin {"none"} \cup Waits /\ pc'[p] \notin {"none", "zombie"} \cup Waits
      BY <1>1, <2>0 DEF Waits, Execs
    <3>2. /\ version' = version /\ parent' = parent
          /\ \A q \in Procs : pc'[q] = "none" <=> pc[q] = "none"
          /\ \A q \in Procs : pc'[q] \in Waits <=> pc[q] \in Waits
          /\ \A q \in Procs : pc'[q] = "zombie" => pc[q] = "zombie"
      BY <1>3, <2>0, <3>1
    <3>3. Alone'
      BY <2>0, <3>1, <3>2 DEF Alone, Foreground
    <3>4. \A q \in Procs : parent[q] # 0 => parent[q] \in Procs
      BY DEF ShellTypeOK
    <3>5. Parents'
      BY <3>2, <3>4 DEF Parents
    <3> QED BY <3>3, <3>5
  <2>4. Kids'
    BY <1>1, <1>3, <2>0 DEF ShellTypeOK, Kids, Waits, Execs
  <2>5. Budget'
    <3> SUFFICES ASSUME NEW i \in 1 .. Len(script)
                 PROVE  /\ ran[i] + Cardinality(Readers(i)') <= 1 + SumOf(born', 1 .. i - 1)
                        /\ Whole => ran[i] + Cardinality(Readers(i)') = 1 + SumOf(born', 1 .. i - 1)
      BY <1>3 DEF Budget, Whole
    <3>1. /\ ran[i] + Cardinality(Readers(i)) <= 1 + SumOf(born, 1 .. i - 1)
          /\ Whole => ran[i] + Cardinality(Readers(i)) = 1 + SumOf(born, 1 .. i - 1)
      BY DEF Budget
    <3>2. /\ ran[i] \in Nat /\ SumOf(born, 1 .. i - 1) \in Nat
          /\ Cardinality(Readers(i)) \in Nat
      BY SumType, ReadersFinite DEF ShellTypeOK
    <3>3. SumOf(born', 1 .. i - 1) = IF pos[p] \in 1 .. i - 1 THEN SumOf(born, 1 .. i - 1) + 1
                                                            ELSE SumOf(born, 1 .. i - 1)
      <4>1. i - 1 \in Int /\ 1 .. i - 1 \subseteq 1 .. Len(script)
        BY ScriptType
      <4>2. IsFiniteSet(1 .. i - 1)
        BY <4>1, FS_Interval
      <4>4. \A j \in 1 .. i - 1 : born[j] \in Nat
        BY <4>1 DEF ShellTypeOK
      <4>3. \A j \in 1 .. i - 1 : born'[j] = IF j = pos[p] THEN born[j] + 1 ELSE born[j]
        BY <1>3, <4>1 DEF ShellTypeOK
      <4> QED BY <4>2, <4>3, <4>4, SumOfMore
    <3>4. p \notin Readers(i)
      BY <1>1 DEF Readers, Reading, Waits, Execs
    <3>5. CASE pc'[p] = "read" /\ pos'[p] < i
      <4>1. Readers(i)' = Readers(i) \cup {p}
        BY <2>0, <3>5 DEF Readers, Reading
      <4>2. Cardinality(Readers(i)') = Cardinality(Readers(i)) + 1
        BY <3>4, <4>1, ReadersFinite, FS_AddElement
      <4>3. pos[p] \in 1 .. i - 1
        BY <1>1, <2>0, <3>5, ScriptType
      <4> QED BY <3>1, <3>2, <3>3, <4>2, <4>3
    <3>6. CASE ~(pc'[p] = "read" /\ pos'[p] < i)
      <4>1. Readers(i)' = Readers(i)
        BY <2>0, <3>4, <3>6 DEF Readers, Reading, Waits
      <4>2. Whole => pos[p] \notin 1 .. i - 1
        <5>1. Whole => pc'[p] = "read" /\ pos'[p] = pos[p]
          BY <2>0 DEF Whole, Redirected
        <5> QED BY <5>1, <3>6, ScriptType
      <4> QED BY <3>1, <3>2, <3>3, <4>1, <4>2
    <3> QED BY <3>5, <3>6
  <2> QED BY <2>1, <2>2, <2>3, <2>4, <2>5
<1> QED BY <1>2, <1>3 DEF Exec

\* Every step of a process keeps the invariant.
LEMMA StepKeeps ==
  ASSUME ShellInv, NEW p \in Procs, Step(p)
  PROVE  ShellInv'
<1>1. CASE EndOfFile(p)
  BY <1>1, OverKeeps DEF EndOfFile
<1>2. CASE ReadLine(p)
  BY <1>2, ReadLineKeeps
<1>3. CASE ChangeDir(p)
  BY <1>3, ChangeDirKeeps
<1>4. CASE Exit(p) \/ Crash(p)
  <2>1. pos[p] \in 1 .. Len(script) /\ line(p).first \in {"", "exit"} /\ pc[p] = "execute" /\ Over(p)
    BY <1>4 DEF ShellInv, Places, Exit, Crash
  <2>2. ~Whole
    BY <2>1 DEF Whole, line
  <2> QED BY <2>1, <2>2, OverKeeps
<1>5. CASE ForkFirst(p)
  <2> DEFINE then == IF oper(p) = "&" THEN "read" ELSE "wait1"
  <2>1. /\ then \in Waits \cup {"read"} /\ "exec1" \in Execs
        /\ then = "read" => version # "start" /\ line(p).oper = "&"
    BY DEF Waits, Execs, oper, strOper
  <2>2. /\ pc[p] \in {"execute", "fork2", "fork3"} /\ Fork(p, "exec1", then)
        /\ UNCHANGED <<version, script, ran, born>>
    BY <1>5 DEF ForkFirst
  <2> HIDE DEF then
  <2> QED BY <2>1, <2>2, ForkKeeps
<1>6. CASE ForkSecond(p)
  BY <1>6, ForkKeeps DEF ForkSecond, Waits, Execs
<1>7. CASE ForkThird(p)
  BY <1>7, ForkKeeps DEF ForkThird, Waits, Execs
<1>8. CASE WaitFirst(p)
  <2> DEFINE then == IF version = "start" THEN "return"
                     ELSE IF ~strOper(p) \/ Skips(p) THEN "read" ELSE "fork2"
  <2>1. /\ then \in {"read", "fork2", "fork3", "return"}
        /\ then = "return" => version = "start"
    OBVIOUS
  <2>2. pc[p] \in Waits /\ Reap(p, then)
    BY <1>8 DEF WaitFirst, Waits
  <2> HIDE DEF then
  <2> QED BY <2>1, <2>2, ReapKeeps
<1>9. CASE WaitSecond(p)
  <2> DEFINE then == IF oper(p) = ";" THEN "read" ELSE "fork3"
  <2>1. then \in {"read", "fork2", "fork3", "return"} /\ then # "return"
    OBVIOUS
  <2>2. pc[p] \in Waits /\ Reap(p, then)
    BY <1>9 DEF WaitSecond, Waits
  <2> HIDE DEF then
  <2> QED BY <2>1, <2>2, ReapKeeps
<1>10. CASE WaitThird(p)
  BY <1>10, ReapKeeps DEF WaitThird, Waits
<1>11. CASE Return(p) \/ Program(p)
  BY <1>11, OverKeeps DEF Return, Program
<1>12. CASE Exec(p)
  BY <1>12, ExecKeeps
<1> QED BY <1>1, <1>2, <1>3, <1>4, <1>5, <1>6, <1>7, <1>8, <1>9, <1>10, <1>11, <1>12
        DEF Step, execute

\* The shell keeps who waits for whom, and how often each line has been read (main, execute).
THEOREM ShellInvariant == Spec => []ShellInv
<1>1. ASSUME ShellInv, [Next]_vars PROVE ShellInv'
  <2>1. CASE \E p \in Procs : Step(p)
    BY <1>1, <2>1, StepKeeps
  <2>2. CASE UNCHANGED vars
    <3>1. ShellTypeOK' /\ Places' /\ Alone' /\ Parents' /\ Kids'
      BY <1>1, <2>2 DEF vars, ShellInv, ShellTypeOK, Places, Alone, Foreground, Parents, Kids
    <3>2. Budget'
      BY <1>1, <2>2, BudgetKept DEF vars, ShellInv, Readers
    <3> QED BY <3>1, <3>2 DEF ShellInv
  <2> QED BY <1>1, <2>1, <2>2 DEF Next
<1> QED BY ShellStart, <1>1, PTL DEF Spec

\* However many second shells there are, they take turns, because each is somebody's child in
\* the foreground (main and execute: waitpid follows every fork but that of an & line).
THEOREM ShellsTakeTurnsHolds == Spec => []ShellsTakeTurns
<1>1. ASSUME ShellInv PROVE ShellsTakeTurns
  <2> SUFFICES ASSUME Foreground PROVE Cardinality(Shells) <= 1
    BY DEF ShellsTakeTurns, Foreground
  <2>1. \A p, q \in Shells : p = q
    BY <1>1 DEF ShellInv, Alone, Shells, Waits
  <2>2. CASE Shells = {}
    BY <2>2, FS_EmptySet
  <2>3. CASE Shells # {}
    <3>1. PICK p : Shells = {p}
      BY <2>1, <2>3
    <3>2. Cardinality({p}) = 1
      BY FS_Singleton
    <3> QED BY <3>1, <3>2
  <2> QED BY <2>2, <2>3
<1> QED BY <1>1, ShellInvariant, PTL

\* A shell that reads the next line has waited for every child but those it put in the
\* background, and for the second shells that they have become (execute: waitpid).
THEOREM OnlyBackgroundUnreapedHolds == Spec => []OnlyBackgroundUnreaped
<1>1. ASSUME ShellInv PROVE OnlyBackgroundUnreaped
  BY <1>1 DEF ShellInv, Kids, OnlyBackgroundUnreaped, Waits
<1> QED BY <1>1, ShellInvariant, PTL

\* Each line is executed at most once by the shell and once by each second shell that a line
\* before it has made, and at the end exactly as often if no line ends a shell (main: each
\* child whose execvp fails goes on with the lines that its parent had still to read).
THEOREM RunsOncePerShellHolds == Spec => []RunsOncePerShell
<1>1. ASSUME ShellInv PROVE RunsOncePerShell
  <2>1. ASSUME NEW i \in 1 .. Len(script)
        PROVE  /\ ran[i] <= 1 + SumOf(born, 1 .. i - 1)
               /\ AllOver /\ Whole => ran[i] = 1 + SumOf(born, 1 .. i - 1)
    <3>1. /\ ran[i] + Cardinality(Readers(i)) <= 1 + SumOf(born, 1 .. i - 1)
          /\ Whole => ran[i] + Cardinality(Readers(i)) = 1 + SumOf(born, 1 .. i - 1)
      BY <1>1 DEF ShellInv, Budget
    <3>2. /\ ran[i] \in Nat /\ SumOf(born, 1 .. i - 1) \in Nat
          /\ Cardinality(Readers(i)) \in Nat
      BY <1>1, SumType, ReadersFinite DEF ShellInv, ShellTypeOK
    <3>3. AllOver => Readers(i) = {}
      BY DEF AllOver, Readers, Reading, Waits
    <3>4. AllOver => Cardinality(Readers(i)) = 0
      BY <3>3, FS_EmptySet
    <3> QED BY <3>1, <3>2, <3>4
  <2>2. \A i \in 1 .. Len(script) :
          /\ ran[i] <= 1 + MapThenSumSet(LAMBDA j : born[j], 1 .. i - 1)
          /\ AllOver /\ Whole => ran[i] = 1 + MapThenSumSet(LAMBDA j : born[j], 1 .. i - 1)
    BY <2>1, Zenon DEF SumOf
  <2> QED BY <2>2, Zenon DEF RunsOncePerShell, Whole
<1> QED BY <1>1, ShellInvariant, PTL

-----------------------------------------------------------------------------
(***************************************************************************)
(* The file system.                                                        *)
(***************************************************************************)
Formatting == {"super", "bitmaps", "dot", "dot_dot", "inode", "count", "type"}
Served     == step = "serving" /\ base # 0

ImageTypeOK ==
  /\ mem \in [Words -> Int]
  /\ step \in Formatting \cup {"off", "serving"}
  /\ base \in Bases \cup {0} /\ (step \in Formatting => base # 0)

\* How much of the image is formatted, the more the further the mount is.
Format_1 == step \in Formatting \ {"super"} \/ Served => mem[0] = 240 /\ mem[8] = 238
Format_2 == step \in {"dot_dot", "inode", "count", "type"} \/ Served => mem[dot + dirList_next] = 0
Format_3 == step \in {"inode", "count", "type"} \/ Served => mem[dot_dot + dirList_next] = base + dot
Format_4 == step \in {"count", "type"} \/ Served => mem[root_block] = base + dot_dot
Format_5 == Served => mem[root_fileType] = 0

ImageInv == ImageTypeOK /\ Format_1 /\ Format_2 /\ Format_3 /\ Format_4 /\ Format_5

StarterInv ==
  server = "starter" =>
    /\ base = 0 /\ step \in {"off", "serving"}
    /\ ~crashes /\ DOMAIN kind \subseteq DOMAIN file_table
    /\ \A p \in DOMAIN kind : kind[p] = file_table[p].kind

NufsInv == ImageInv /\ StarterInv

-----------------------------------------------------------------------------
\* The words of the image, as numbers.
LEMMA Addresses ==
  /\ root_block = 4352 /\ root_refCount = 4360 /\ root_fileType = 4364
  /\ dot = 77792 /\ dot_dot = 76768 /\ dirList_next = 24
BY DEF root_block, root_refCount, root_fileType, dot, dot_dot, dirList_next, dirList_size,
       get_inode, BLOCK_SIZE, sizeof_size, inode_size

\* The words that formatting writes, as they come about, are those that the model keeps.
LEMMA InWords ==
  {0, 8, root_block, root_refCount, root_fileType, dot + dirList_next, dot_dot + dirList_next}
    = Words /\ Words \subseteq Nat
BY Addresses DEF Words

\* The address of the mapping is a number.
LEMMA BaseType == ImageTypeOK => base \in Nat
BY StorageAssumption DEF ImageTypeOK

\* The products of neighbours leave out what lies between 15 * 16 and 16 * 17.
LEMMA Neighbours ==
  ASSUME NEW i \in Nat
  PROVE  i * (i + 1) \in Nat /\ (i * (i + 1) <= 240 \/ i * (i + 1) >= 272)
<1>1. CASE i <= 15
  <2>1. i \in 0 .. 15
    BY <1>1
  <2> QED BY <2>1
<1>2. CASE i >= 16
  <2>1. PICK d \in Nat : i = 16 + d
    BY <1>2
  <2>2. i * (i + 1) = 272 + 33 * d + d * d
    BY <2>1
  <2>3. d * d \in Nat
    BY <2>1
  <2> QED BY <2>1, <2>2, <2>3
<1> QED BY <1>1, <1>2

\* No store of a bitmap falls into the super block.
LEMMA BitmapsMiss ==
  ASSUME NEW b \in inode_bits \cup block_bits
  PROVE  ~(b < 4096)
<1>1. CASE b \in inode_bits
  <2>1. PICK i \in 0 .. 239 : b = BLOCK_SIZE + i * (i + 1)
    BY <1>1, Zenon DEF inode_bits
  <2>2. i \in Nat
    OBVIOUS
  <2> QED BY <2>1, <2>2, Neighbours DEF BLOCK_SIZE
<1>2. CASE b \in block_bits
  <2>1. PICK i \in 0 .. 237 : b = 2 * BLOCK_SIZE + i * (i + 1)
    BY <1>2, Zenon DEF block_bits
  <2>2. i \in Nat
    OBVIOUS
  <2> QED BY <2>1, <2>2, Neighbours DEF BLOCK_SIZE
<1> QED BY <1>1, <1>2

\* No bitmap that is cleared lies on the super block.
LEMMA ClearBitmapsKeeps ==
  ASSUME ClearBitmaps
  PROVE  /\ step = "bitmaps" /\ step' = "dot" /\ UNCHANGED base
         /\ mem \in [Words -> Int] => mem' \in [Words -> Int]
         /\ mem'[0] = mem[0] /\ mem'[8] = mem[8]
<1> DEFINE hit(w) == \E b \in inode_bits \cup block_bits : w <= b /\ b < w + width(w)
<1> DEFINE values == [w \in {a \in Words : hit(a)} |-> 0]
<1>1. Write("bitmaps", "dot", values)
  BY DEF ClearBitmaps
<1>2. ~hit(0) /\ ~hit(8)
  <2>1. width(0) = 4 /\ width(8) = 4
    BY Addresses DEF width, Pointers
  <2>2. \A b \in inode_bits \cup block_bits : b \in Nat
    <3>1. \A i \in Nat : i * (i + 1) \in Nat
      BY Neighbours
    <3> QED BY <3>1 DEF inode_bits, block_bits, BLOCK_SIZE
  <2> QED BY <2>1, <2>2, BitmapsMiss, Addresses
<1>3. DOMAIN values = {w \in Words : hit(w)} /\ \A w \in DOMAIN values : values[w] = 0
  OBVIOUS
<1> HIDE DEF values, hit
<1>4. \A w \in Words : mem'[w] = IF w \in DOMAIN values THEN values[w] ELSE mem[w]
  BY <1>1 DEF Write
<1>5. mem' = [w \in Words |-> IF w \in DOMAIN values THEN values[w] ELSE mem[w]]
  BY <1>1 DEF Write
<1>6. 0 \in Words /\ 8 \in Words
  BY DEF Words
<1>7. mem \in [Words -> Int] => mem' \in [Words -> Int]
  BY <1>3, <1>5
<1> QED BY <1>1, <1>2, <1>3, <1>4, <1>6, <1>7 DEF Write

\* One word or two are written and nothing else.
LEMMA WriteKeeps ==
  ASSUME NEW now, NEW then, NEW values, Write(now, then, values), mem \in [Words -> Int],
         DOMAIN values \subseteq Words, \A w \in DOMAIN values : values[w] \in Int
  PROVE  /\ mem' \in [Words -> Int]
         /\ \A w \in Words : mem'[w] = IF w \in DOMAIN values THEN values[w] ELSE mem[w]
         /\ step = now /\ step' = then /\ UNCHANGED base
BY DEF Write

\* Each step of formatting establishes its own part, and keeps the parts before it.
LEMMA FormatKeeps ==
  ASSUME ImageInv, init
  PROVE  ImageInv' /\ step \in Formatting /\ base # 0 /\ base' = base
<1> USE DEF ImageInv
<1>1. base \in Nat \ {0} /\ step \in Formatting
  BY BaseType DEF ImageTypeOK, init, Formatting, WriteSuper, ClearBitmaps, WriteDot, WriteDotDot,
       update_inode, StoreBlock, CountUp, StoreType, Write
<1>2. CASE WriteSuper
  <2> DEFINE values == [w \in {0, 8} |-> IF w = 0 THEN 240 ELSE 238]
  <2>1. /\ DOMAIN values = {0, 8} /\ values[0] = 240 /\ values[8] = 238
        /\ Write("super", "bitmaps", values)
    BY <1>2 DEF WriteSuper
  <2> HIDE DEF values
  <2>2. /\ mem' \in [Words -> Int]
        /\ \A w \in Words : mem'[w] = IF w \in DOMAIN values THEN values[w] ELSE mem[w]
        /\ step = "super" /\ step' = "bitmaps" /\ UNCHANGED base
    BY <2>1, WriteKeeps, InWords DEF ImageTypeOK
  <2> QED BY <1>1, <2>1, <2>2, InWords, Addresses
          DEF ImageTypeOK, Format_1, Format_2, Format_3, Format_4, Format_5, Served, Formatting
<1>3. CASE ClearBitmaps
  BY <1>1, <1>3, ClearBitmapsKeeps
  DEF ImageTypeOK, Format_1, Format_2, Format_3, Format_4, Format_5, Served, Formatting
<1>4. CASE WriteDot
  <2> DEFINE values == [w \in {dot + dirList_next} |-> 0]
  <2>1. /\ DOMAIN values = {dot + dirList_next} /\ values[dot + dirList_next] = 0
        /\ Write("dot", "dot_dot", values)
    BY <1>4 DEF WriteDot
  <2> HIDE DEF values
  <2>2. /\ mem' \in [Words -> Int]
        /\ \A w \in Words : mem'[w] = IF w \in DOMAIN values THEN values[w] ELSE mem[w]
        /\ step = "dot" /\ step' = "dot_dot" /\ UNCHANGED base
    BY <2>1, WriteKeeps, InWords DEF ImageTypeOK
  <2> QED BY <1>1, <2>1, <2>2, InWords, Addresses
          DEF ImageTypeOK, Format_1, Format_2, Format_3, Format_4, Format_5, Served, Formatting
<1>5. CASE WriteDotDot
  <2> DEFINE values == [w \in {dot_dot + dirList_next} |-> base + dot]
  <2>1. /\ DOMAIN values = {dot_dot + dirList_next} /\ values[dot_dot + dirList_next] = base + dot
        /\ Write("dot_dot", "inode", values)
    BY <1>5 DEF WriteDotDot
  <2> HIDE DEF values
  <2>2. /\ mem' \in [Words -> Int]
        /\ \A w \in Words : mem'[w] = IF w \in DOMAIN values THEN values[w] ELSE mem[w]
        /\ step = "dot_dot" /\ step' = "inode" /\ UNCHANGED base
    BY <1>1, <2>1, WriteKeeps, InWords, Addresses DEF ImageTypeOK
  <2> QED BY <1>1, <2>1, <2>2, InWords, Addresses
          DEF ImageTypeOK, Format_1, Format_2, Format_3, Format_4, Format_5, Served, Formatting
<1>6. CASE StoreBlock
  <2> DEFINE values == [w \in {root_block} |-> base + dot_dot]
  <2>1. /\ DOMAIN values = {root_block} /\ values[root_block] = base + dot_dot
        /\ Write("inode", "count", values)
    BY <1>6 DEF StoreBlock
  <2> HIDE DEF values
  <2>2. /\ mem' \in [Words -> Int]
        /\ \A w \in Words : mem'[w] = IF w \in DOMAIN values THEN values[w] ELSE mem[w]
        /\ step = "inode" /\ step' = "count" /\ UNCHANGED base
    BY <1>1, <2>1, WriteKeeps, InWords, Addresses DEF ImageTypeOK
  <2> QED BY <1>1, <2>1, <2>2, InWords, Addresses
          DEF ImageTypeOK, Format_1, Format_2, Format_3, Format_4, Format_5, Served, Formatting
<1>7. CASE CountUp
  <2> DEFINE values == [w \in {root_refCount} |-> mem[root_refCount] + 1]
  <2>1. /\ DOMAIN values = {root_refCount} /\ values[root_refCount] = mem[root_refCount] + 1
        /\ Write("count", "type", values)
    BY <1>7 DEF CountUp
  <2> HIDE DEF values
  <2>2. /\ mem' \in [Words -> Int]
        /\ \A w \in Words : mem'[w] = IF w \in DOMAIN values THEN values[w] ELSE mem[w]
        /\ step = "count" /\ step' = "type" /\ UNCHANGED base
    BY <1>1, <2>1, WriteKeeps, InWords, Addresses DEF ImageTypeOK
  <2> QED BY <1>1, <2>1, <2>2, InWords, Addresses
          DEF ImageTypeOK, Format_1, Format_2, Format_3, Format_4, Format_5, Served, Formatting
<1>8. CASE StoreType
  <2> DEFINE values == [w \in {root_fileType} |-> 0]
  <2>1. /\ DOMAIN values = {root_fileType} /\ values[root_fileType] = 0
        /\ Write("type", "serving", values)
    BY <1>8 DEF StoreType
  <2> HIDE DEF values
  <2>2. /\ mem' \in [Words -> Int]
        /\ \A w \in Words : mem'[w] = IF w \in DOMAIN values THEN values[w] ELSE mem[w]
        /\ step = "type" /\ step' = "serving" /\ UNCHANGED base
    BY <1>1, <2>1, WriteKeeps, InWords, Addresses DEF ImageTypeOK
  <2> QED BY <1>1, <2>1, <2>2, InWords, Addresses
          DEF ImageTypeOK, Format_1, Format_2, Format_3, Format_4, Format_5, Served, Formatting
<1> QED BY <1>1, <1>2, <1>3, <1>4, <1>5, <1>6, <1>7, <1>8
        DEF init, WriteSuper, ClearBitmaps, WriteDot, WriteDotDot, update_inode,
            StoreBlock, CountUp, StoreType, Write

\* A mount that ends leaves the image as it is.
LEMMA StopKeeps ==
  ASSUME ImageInv, Stop
  PROVE  ImageInv'
BY DEF ImageInv, ImageTypeOK, Format_1, Format_2, Format_3, Format_4, Format_5, Served, Formatting, Stop

\* What touches neither the image nor the mapping keeps the invariant of the image.
LEMMA StayKeeps ==
  ASSUME ImageInv, UNCHANGED <<mem, base, step>>
  PROVE  ImageInv'
BY DEF ImageInv, ImageTypeOK, Format_1, Format_2, Format_3, Format_4, Format_5, Served

\* What is not a mount leaves the image alone, or ends the process.
LEMMA CallbackKeeps ==
  ASSUME ImageInv, UNCHANGED <<mem, base, step>> \/ Fault
  PROVE  ImageInv'
BY StopKeeps, StayKeeps DEF Fault

\* At first nothing is mounted, and the starter has its two files.
LEMMA NufsStart == NInit => NufsInv
<1> SUFFICES ASSUME NInit PROVE NufsInv
  OBVIOUS
<1>1. ImageInv
  BY InWords DEF NInit, SInit, ImageInv, ImageTypeOK, Format_1, Format_2, Format_3, Format_4, Format_5, Served,
                 Formatting
<1>2. StarterInv
  BY DEF NInit, SInit, StarterInv, file_table
<1> QED BY <1>1, <1>2 DEF NufsInv

\* A callback that the kernel may make of any path keeps the starter running.
LEMMA CallbacksStarter ==
  ASSUME NufsInv, NEW path \in Paths,
         nufs_getattr(path) \/ nufs_getattr_starter(path) \/ nufs_open(path) \/ nufs_write(path)
  PROVE  NufsInv'
<1> USE DEF NufsInv
<1>1. CASE nufs_getattr(path)
  <2>1. server = "image" /\ server' = server
    BY <1>1 DEF nufs_getattr, storage_get_stat, Fault, Reply
  <2>2. UNCHANGED <<mem, base, step>> \/ Fault
    BY <1>1 DEF nufs_getattr, storage_get_stat, Reply
  <2> QED BY <2>1, <2>2, CallbackKeeps DEF StarterInv
<1>2. CASE nufs_getattr_starter(path)
  <2>1. server = "starter" /\ UNCHANGED <<mem, base, step, server, crashes>>
    BY <1>2 DEF nufs_getattr_starter, get_stat, Reply
  <2>2. \/ UNCHANGED kind
        \/ /\ path \in DOMAIN file_table
           /\ kind' = [p \in DOMAIN kind \cup {path} |->
                         IF p = path THEN file_table[p].kind ELSE kind[p]]
    BY <1>2 DEF nufs_getattr_starter, get_stat
  <2>3. DOMAIN kind' \subseteq DOMAIN file_table
        /\ \A p \in DOMAIN kind' : kind'[p] = file_table[p].kind
    BY <2>1, <2>2 DEF StarterInv
  <2> QED BY <2>1, <2>3, StayKeeps DEF StarterInv, file_table
<1>3. CASE nufs_open(path) \/ nufs_write(path)
  <2>1. UNCHANGED <<mem, base, step, server, crashes, kind>>
    BY <1>3 DEF nufs_open, nufs_write, Answer, Reply
  <2> QED BY <2>1, StayKeeps DEF StarterInv, file_table
<1> QED BY <1>1, <1>2, <1>3

\* The starter reads only what getattr has called a file, and that is no null pointer.
LEMMA ReadKeeps ==
  ASSUME NufsInv, NEW path \in Paths, NEW length \in ReadSizes, nufs_read(path, length)
  PROVE  NufsInv'
<1> USE DEF NufsInv
<1>1. CASE server = "image"
  <2>1. Fault
    BY <1>1 DEF nufs_read
  <2>2. server' = "image"
    BY <1>1, <2>1 DEF Fault
  <2> QED BY <2>1, <2>2, CallbackKeeps DEF StarterInv
<1>2. CASE server # "image" /\ file_table[path].data = "NULL"
  <2>1. path \in DOMAIN kind /\ kind[path] = "file" /\ Fault
    BY <1>2 DEF nufs_read
  <2>2. server # "starter"
    BY <1>2, <2>1 DEF StarterInv, file_table
  <2>3. server' # "starter"
    BY <2>1, <2>2 DEF Fault
  <2> QED BY <2>1, <2>3, CallbackKeeps DEF StarterInv
<1>3. CASE server # "image" /\ file_table[path].data # "NULL"
  <2>1. UNCHANGED <<mem, base, step, server, crashes, kind>>
    BY <1>3 DEF nufs_read, Reply
  <2> QED BY <2>1, StayKeeps DEF StarterInv, file_table
<1> QED BY <1>1, <1>2, <1>3

\* Every step keeps the invariant of both servers.
LEMMA NufsStep == NufsInv /\ [NNext]_nvars => NufsInv'
<1> SUFFICES ASSUME NufsInv, [NNext]_nvars PROVE NufsInv'
  OBVIOUS
<1> USE DEF NufsInv
<1>1. CASE main
  <2>1. server' = "image"
    BY <1>1 DEF main, Silently
  <2>2. ImageInv'
    BY <1>1, BaseType, StorageAssumption DEF main, storage_init, ImageInv, ImageTypeOK, Format_1, Format_2, Format_3,
         Format_4, Format_5, Served, Formatting
  <2> QED BY <2>1, <2>2 DEF StarterInv
<1>2. CASE main_starter
  <2>1. base = 0 /\ base' = 0 /\ UNCHANGED <<mem, server, kind, crashes>>
        /\ step' = "serving"
    BY <1>2 DEF main_starter, Silently, StarterInv
  <2>2. ImageInv'
    BY <2>1 DEF ImageInv, ImageTypeOK, Format_1, Format_2, Format_3, Format_4, Format_5, Served, Formatting
  <2> QED BY <2>1, <2>2 DEF StarterInv, file_table
<1>3. CASE Format
  <2>1. ImageInv' /\ base # 0 /\ base' = base /\ server' = server
    BY <1>3, FormatKeeps DEF Format, Silently
  <2> QED BY <2>1 DEF StarterInv
<1>4. CASE Unmount
  <2>1. ImageInv' /\ base' = 0 /\ step' = "off" /\ kind' = <<>>
        /\ UNCHANGED <<server, crashes>>
    BY <1>4, StopKeeps DEF Unmount, Stop, Forget
  <2> QED BY <2>1 DEF StarterInv, file_table
<1>5. CASE nufs_access \/ nufs_refused
  <2>1. UNCHANGED <<mem, base, step, server, crashes, kind>>
    BY <1>5 DEF nufs_access, nufs_refused, Answer, Reply
  <2> QED BY <2>1, StayKeeps DEF StarterInv, file_table
<1>6. CASE nufs_readdir
  <2>1. server = "image" /\ server' = server
    BY <1>6 DEF nufs_readdir, Fault, Reply
  <2>2. UNCHANGED <<mem, base, step>> \/ Fault
    BY <1>6 DEF nufs_readdir, Reply
  <2> QED BY <2>1, <2>2, CallbackKeeps DEF StarterInv
<1>7. CASE nufs_readdir_starter
  <2>1. UNCHANGED <<mem, base, step, server, crashes, kind>>
    BY <1>7 DEF nufs_readdir_starter, Reply
  <2> QED BY <2>1, StayKeeps DEF StarterInv, file_table
<1>8. CASE \E path \in Paths :
             nufs_getattr(path) \/ nufs_getattr_starter(path) \/ nufs_open(path) \/ nufs_write(path)
  BY <1>8, CallbacksStarter
<1>9. CASE \E path \in Paths, length \in ReadSizes : nufs_read(path, length)
  BY <1>9, ReadKeeps
<1>10. CASE UNCHANGED nvars
  BY <1>10, StayKeeps DEF nvars, StarterInv, file_table
<1> QED BY <1>1, <1>2, <1>3, <1>4, <1>5, <1>6, <1>7, <1>8, <1>9, <1>10 DEF NNext

\* How much of the image is formatted, and what it then holds, for every address and any number
\* of mounts (storage_init, main).
THEOREM NufsInvariant == NSpec => []NufsInv
BY NufsStart, NufsStep, PTL DEF NSpec

\* The walk over the root directory, written out.
LEMMA Walk ==
  /\ walk[0] = get_dir_list
  /\ \A n \in 1 .. 2 :
       walk[n] = IF walk[n - 1] \in {0, Lost} THEN walk[n - 1]
                 ELSE IF Mapped(walk[n - 1] + dirList_next) THEN load(walk[n - 1] + dirList_next)
                 ELSE Lost
<1> DEFINE after(entry) == IF entry \in {0, Lost} THEN entry
                           ELSE IF Mapped(entry + dirList_next) THEN load(entry + dirList_next)
                           ELSE Lost
<1> DEFINE Walks(w) == w = [n \in 0 .. 2 |-> IF n = 0 THEN get_dir_list ELSE after(w[n - 1])]
<1>1. \E w : Walks(w)
  <2> DEFINE w == [n \in 0 .. 2 |-> IF n = 0 THEN get_dir_list
                                    ELSE IF n = 1 THEN after(get_dir_list)
                                    ELSE after(after(get_dir_list))]
  <2> HIDE DEF after
  <2>1. w[0] = get_dir_list /\ w[1] = after(get_dir_list) /\ w[2] = after(after(get_dir_list))
    OBVIOUS
  <2>2. \A n \in 0 .. 2 : w[n] = IF n = 0 THEN get_dir_list ELSE after(w[n - 1])
    <3>1. \A n \in 0 .. 2 : n = 0 \/ n = 1 \/ n = 2
      OBVIOUS
    <3> QED BY <2>1, <3>1
  <2>3. Walks(w)
    BY <2>2
  <2> QED BY <2>3
<1>2. walk = CHOOSE w : Walks(w)
  BY Zenon DEF walk
<1>3. Walks(walk)
  <2> HIDE DEF Walks
  <2> QED BY <1>1, <1>2, Zenon
<1>4. walk[0] = get_dir_list /\ \A n \in 1 .. 2 : walk[n] = after(walk[n - 1])
  <2> HIDE DEF after
  <2> QED BY <1>3
<1> QED BY <1>4

\* Whatever the mounts before have left in the file, once the file system serves, the super block
\* is right, and the walk over its root stays in the present mapping and ends (storage_init, init,
\* update_inode, get_file_data).
THEOREM NoEarlierAddressFollowedHolds == NSpec => []NoEarlierAddressFollowed
<1>1. ASSUME NufsInv PROVE NoEarlierAddressFollowed
  <2> SUFFICES ASSUME step = "serving", base # 0
               PROVE  /\ mem[0] = 240 /\ mem[8] = 238 /\ mem[root_fileType] = 0
                      /\ \A n \in 0 .. 2 :
                           walk[n] = 0 \/ (base <= walk[n] /\ walk[n] + dirList_size <= base + MEM_SIZE)
                      /\ get_file_data = 0
    BY DEF NoEarlierAddressFollowed
  <2>1. base \in Nat \ {0}
    BY <1>1, BaseType DEF NufsInv, ImageInv
  <2>2. /\ mem[0] = 240 /\ mem[8] = 238 /\ mem[root_fileType] = 0
        /\ mem[dot + dirList_next] = 0 /\ mem[dot_dot + dirList_next] = base + dot
        /\ mem[root_block] = base + dot_dot
    BY <1>1 DEF NufsInv, ImageInv, Format_1, Format_2, Format_3, Format_4, Format_5, Served
  <2>3. walk[0] = base + dot_dot
    BY <2>2, Walk DEF get_dir_list
  <2>4. walk[1] = base + dot
    <3> DEFINE address == base + dot_dot + dirList_next
    <3>1. base + dot_dot \notin {0, Lost} /\ address - base = dot_dot + dirList_next
      BY <2>1, Addresses DEF Lost
    <3>2. Mapped(address) /\ load(address) = base + dot
      <4> HIDE DEF address
      <4> QED BY <2>2, <3>1, InWords DEF Mapped, load
    <3>3. walk[1] = IF walk[1 - 1] \in {0, Lost} THEN walk[1 - 1]
                    ELSE IF Mapped(walk[1 - 1] + dirList_next) THEN load(walk[1 - 1] + dirList_next)
                    ELSE Lost
      BY Walk
    <3> QED BY <2>3, <3>1, <3>2, <3>3
  <2>5. walk[2] = 0
    <3> DEFINE address == base + dot + dirList_next
    <3>1. base + dot \notin {0, Lost} /\ address - base = dot + dirList_next
      BY <2>1, Addresses DEF Lost
    <3>2. Mapped(address) /\ load(address) = 0
      <4> HIDE DEF address
      <4> QED BY <2>2, <3>1, InWords DEF Mapped, load
    <3>3. walk[2] = IF walk[2 - 1] \in {0, Lost} THEN walk[2 - 1]
                    ELSE IF Mapped(walk[2 - 1] + dirList_next) THEN load(walk[2 - 1] + dirList_next)
                    ELSE Lost
      BY Walk
    <3> QED BY <2>4, <3>1, <3>2, <3>3
  <2>6. \A n \in 0 .. 2 : n = 0 \/ n = 1 \/ n = 2
    OBVIOUS
  <2>7. \A n \in 0 .. 2 : walk[n] = base + dot_dot \/ walk[n] = base + dot \/ walk[n] = 0
    BY <2>3, <2>4, <2>5, <2>6, Zenon
  <2>8. \A n \in 0 .. 2 :
          walk[n] = 0 \/ (base <= walk[n] /\ walk[n] + dirList_size <= base + MEM_SIZE)
    BY <2>1, <2>7, Addresses DEF dirList_size, MEM_SIZE
  <2> QED BY <2>2, <2>5, <2>8 DEF get_file_data
<1> QED BY <1>1, NufsInvariant, PTL

\* No sequence of lookups, reads and listings makes the starter
\* read through the null data of its directory (nufs_read, get_data: the
\* kernel reads what getattr has called a regular file).
THEOREM StarterSurvivesHolds == NSpec => []StarterSurvives
<1>1. NufsInv => StarterSurvives
  BY DEF NufsInv, StarterInv, StarterSurvives
<1> QED BY <1>1, NufsInvariant, PTL

-----------------------------------------------------------------------------
(***************************************************************************)
(* The growing arrays.                                                     *)
(***************************************************************************)
VTypeOK ==
  /\ program \in {"hello", "hello2", "lab1", "lab1-22", "hw08", "hw11", "sort-strings"}
  /\ size \in Nat /\ count \in Nat /\ DOMAIN v = 0 .. size - 1
  /\ running \in BOOLEAN /\ below \in BOOLEAN /\ overrun \in BOOLEAN
  /\ (running => kept \in Seq(Int))

\* Only hello2 shrinks; sort-strings has room for one line more.
Rooms == (size = 0 => program = "hello2") /\ (program = "sort-strings" => count < size)

\* The array's first cells are what was asked for.
Holds == ~below /\ size > 0 =>
           /\ ~overrun /\ count <= size
           /\ kept = [i \in 1 .. count |-> v[i - 1]]

VInv == VTypeOK /\ Rooms /\ Holds

IsInsertion(t, s, k, e) ==
  /\ Len(t) = Len(s) + 1
  /\ \A i \in 1 .. Len(s) + 1 :
       t[i] = IF i < k THEN s[i] ELSE IF i = k THEN e ELSE s[i - 1]

\* What InsertAt of the library returns, index by index.
LEMMA Inserted ==
  ASSUME NEW S, NEW s \in Seq(S), NEW e \in S, NEW k \in 1 .. Len(s) + 1
  PROVE  InsertAt(s, k, e) \in Seq(S) /\ IsInsertion(InsertAt(s, k, e), s, k, e)
<1> DEFINE front == SubSeq(s, 1, k - 1)  back == SubSeq(s, k, Len(s))  mid == front \o <<e>>
<1>1. /\ front \in Seq(S) /\ Len(front) = k - 1
      /\ \A i \in 1 .. k - 1 : front[i] = s[i]
  <2>1. \A i \in 1 .. k - 1 : s[i] \in S
    OBVIOUS
  <2>2. k - 1 \in Int /\ k - 1 >= 0 /\ \A i \in 1 .. (k - 1) - 1 + 1 : i \in 1 .. k - 1
    OBVIOUS
  <2> QED BY <2>1, <2>2, SubSeqProperties
<1>2. /\ back \in Seq(S) /\ Len(back) = Len(s) - (k - 1)
      /\ \A i \in 1 .. Len(s) - (k - 1) : back[i] = s[i + (k - 1)]
  <2>1. \A i \in k .. Len(s) : s[i] \in S
    OBVIOUS
  <2>2. /\ back \in Seq(S)
        /\ Len(back) = IF k <= Len(s) THEN Len(s) - k + 1 ELSE 0
        /\ \A i \in 1 .. Len(s) - k + 1 : back[i] = s[k + i - 1]
    BY <2>1, SubSeqProperties
  <2>3. ASSUME NEW i \in 1 .. Len(s) - (k - 1) PROVE back[i] = s[i + (k - 1)]
    <3>1. k + i - 1 = i + (k - 1) /\ i \in 1 .. Len(s) - k + 1
      OBVIOUS
    <3> QED BY <2>2, <3>1
  <2> QED BY <2>2, <2>3
<1>3. InsertAt(s, k, e) = mid \o back
  BY DEF InsertAt
<1>4. Len(s) \in Nat
  OBVIOUS
<1> HIDE DEF front, back
<1>5. /\ mid \in Seq(S) /\ Len(mid) = k
      /\ \A i \in 1 .. k : mid[i] = IF i < k THEN s[i] ELSE e
  <2>1. <<e>> \in Seq(S) /\ Len(<<e>>) = 1 /\ <<e>>[1] = e
    OBVIOUS
  <2>2. /\ mid \in Seq(S) /\ Len(mid) = Len(front) + 1
        /\ \A i \in 1 .. Len(front) + 1 :
             mid[i] = IF i <= Len(front) THEN front[i] ELSE <<e>>[i - Len(front)]
    BY <1>1, <2>1, ConcatProperties
  <2>3. ASSUME NEW i \in 1 .. k PROVE mid[i] = IF i < k THEN s[i] ELSE e
    BY <1>1, <2>1, <2>2
  <2> QED BY <1>1, <2>2, <2>3
<1> HIDE DEF mid
<1>6. /\ mid \o back \in Seq(S) /\ Len(mid \o back) = Len(mid) + Len(back)
      /\ \A i \in 1 .. Len(mid) + Len(back) :
           (mid \o back)[i] = IF i <= Len(mid) THEN mid[i] ELSE back[i - Len(mid)]
  BY <1>5, <1>2, ConcatProperties
<1>8. Len(mid) + Len(back) = Len(s) + 1
  BY <1>5, <1>2, <1>4
<1>7. ASSUME NEW i \in 1 .. Len(s) + 1
      PROVE  (mid \o back)[i] = IF i < k THEN s[i] ELSE IF i = k THEN e ELSE s[i - 1]
  <2>1. CASE i <= k
    BY <1>5, <1>4, <1>6, <1>8, <2>1
  <2>2. CASE i > k
    <3>1. (mid \o back)[i] = back[i - k]
      BY <1>5, <1>4, <1>6, <1>8, <2>2
    <3>2. i - k \in 1 .. Len(s) - (k - 1)
      BY <1>4, <2>2
    <3>3. back[i - k] = s[(i - k) + (k - 1)]
      BY <1>2, <3>2
    <3>4. (i - k) + (k - 1) = i - 1
      OBVIOUS
    <3> QED BY <2>2, <3>1, <3>3, <3>4
  <2>3. i <= k \/ i > k
    <3>1. i \in Int /\ k \in Int
      OBVIOUS
    <3> QED BY <3>1
  <2> QED BY <2>1, <2>2, <2>3
<1> QED BY <1>3, <1>6, <1>7, <1>8 DEF IsInsertion

\* A copy has the new capacity, and what was there to be copied.
LEMMA Copied ==
  ASSUME NEW cells, NEW n, NEW capacity
  PROVE  /\ DOMAIN copied(cells, n, capacity) = 0 .. capacity - 1
         /\ \A i \in 0 .. capacity - 1 :
              copied(cells, n, capacity)[i] = IF i < n THEN cell(cells, i) ELSE Junk
BY DEF copied

\* A store changes what it may, and one outside of the array is remembered.
LEMMA Stored ==
  ASSUME NEW cells, NEW values, Store(cells, values), VTypeOK
  PROVE  /\ DOMAIN v' = DOMAIN cells
         /\ \A i \in DOMAIN cells : v'[i] = IF i \in DOMAIN values THEN values[i] ELSE cells[i]
         /\ overrun' \in BOOLEAN /\ running' \in BOOLEAN /\ (running' => running)
         /\ DOMAIN values \subseteq DOMAIN cells => overrun' = overrun
         /\ ~(DOMAIN values \subseteq DOMAIN cells) => overrun'
<1>1. v' = [i \in DOMAIN cells |-> IF i \in DOMAIN values THEN values[i] ELSE cells[i]]
  BY DEF Store
<1>2. \/ DOMAIN values \subseteq DOMAIN cells /\ overrun' = overrun /\ running' = running
      \/ /\ ~(DOMAIN values \subseteq DOMAIN cells) /\ overrun' = TRUE
         /\ (running' = running \/ running' = FALSE)
  BY DEF Store
<1>3. running \in BOOLEAN /\ overrun \in BOOLEAN
  BY DEF VTypeOK
<1>4. overrun' \in BOOLEAN
  <2>1. overrun' = overrun \/ overrun' = TRUE
    BY <1>2
  <2> QED BY <1>3, <2>1
<1>6. running' \in BOOLEAN /\ (running' => running)
  <2>1. running' = running \/ running' = FALSE
    BY <1>2
  <2>2. CASE running' = running
    <3>1. running' \in BOOLEAN
      BY <1>3, <2>2
    <3>2. running' => running
      BY <2>2
    <3> QED BY <3>1, <3>2
  <2>3. CASE running' = FALSE
    BY <2>3
  <2> QED BY <2>1, <2>2, <2>3
<1>5. \A i \in DOMAIN cells : v'[i] = IF i \in DOMAIN values THEN values[i] ELSE cells[i]
  BY <1>1
<1> QED BY <1>1, <1>2, <1>4, <1>5, <1>6

\* What has grown holds what it held, and room for one more, if it has any room.
LEMMA Room ==
  ASSUME VTypeOK, Rooms, program \in {"hello2", "lab1-22", "hw08", "hw11"}
  PROVE  /\ grown.size \in Nat /\ DOMAIN grown.v = 0 .. grown.size - 1
         /\ grown.size = 0 <=> size = 0
         /\ size > 0 /\ count <= size =>
              count < grown.size /\ \A i \in 0 .. count - 1 : grown.v[i] = v[i]
<1> USE DEF VTypeOK, Rooms
<1>1. \/ grown = Grow /\ (size > 0 /\ count <= size => count = size)
      \/ grown = Grow_22 /\ program = "lab1-22" /\ (size > 0 /\ count <= size => count = size)
      \/ grown = Same /\ (size > 0 /\ count <= size => count < size)
  BY DEF grown
<1>2. CASE grown = Grow /\ (size > 0 /\ count <= size => count = size)
  <2>1. grown.size = 2 * size /\ grown.v = copied(v, size, 2 * size)
    BY <1>2 DEF Grow
  <2>2. 2 * size \in Nat /\ 2 * size >= size /\ (2 * size = 0 <=> size = 0)
        /\ (size > 0 => 2 * size > size)
    OBVIOUS
  <2>3. \A i \in 0 .. size - 1 : i \in 0 .. 2 * size - 1 /\ i < size /\ i \in DOMAIN v
    BY <2>2
  <2>4. \A i \in 0 .. size - 1 : copied(v, size, 2 * size)[i] = v[i]
    BY <2>3, Copied DEF cell
  <2>5. DOMAIN copied(v, size, 2 * size) = 0 .. 2 * size - 1
    BY Copied
  <2> HIDE DEF VTypeOK, Rooms
  <2>6. size \in Nat /\ count \in Nat /\ (size > 0 /\ count <= size => count = size)
    BY <1>2 DEF VTypeOK
  <2> QED BY <2>1, <2>2, <2>4, <2>5, <2>6
<1>3. CASE grown = Grow_22 /\ program = "lab1-22" /\ (size > 0 /\ count <= size => count = size)
  <2>1. grown.size = size + 2 /\ grown.v = copied(v, count, size + 2)
    BY <1>3 DEF Grow_22
  <2>2. count <= size => \A i \in 0 .. count - 1 : copied(v, count, size + 2)[i] = v[i]
    BY Copied DEF cell
  <2>3. DOMAIN copied(v, count, size + 2) = 0 .. size + 2 - 1
    BY Copied
  <2> QED BY <1>3, <2>1, <2>2, <2>3
<1>4. CASE grown = Same /\ (size > 0 /\ count <= size => count < size)
  <2>1. grown.size = size /\ grown.v = v
    BY <1>4 DEF Same
  <2> QED BY <1>4, <2>1
<1> QED BY <1>1, <1>2, <1>3, <1>4

\* As long as no index was negative and there is capacity, the vector holds count elements.
LEMMA KeptLen ==
  ASSUME VInv, running, ~below, size > 0
  PROVE  Len(kept) = count /\ kept \in Seq(Int) /\ \A i \in 1 .. count : kept[i] = v[i - 1]
BY DEF VInv, VTypeOK, Holds

\* What the steps of the programs leave of what they are asked for.
LEMMA Asked ==
  ASSUME NEW sequence, Ask(sequence)
  PROVE  ~below' /\ ~overrun' => kept' = sequence
BY DEF Ask

\* Appending keeps what is held.
LEMMA AddElementKeeps ==
  ASSUME VInv, running, NEW data \in Data, AddElement(data),
         program \in {"hello2", "lab1-22", "hw08", "hw11"}
  PROVE  VInv'
<1> DEFINE values == [i \in {count} |-> data]
<1>1. Store(grown.v, values) /\ Ask(Append(kept, data))
      /\ size' = grown.size /\ count' = count + 1 /\ program' = program /\ below' = below
  BY DEF AddElement
<1>2. DOMAIN values = {count} /\ values[count] = data
  OBVIOUS
<1> HIDE DEF values
<1>3. data \in Int
  BY VectorsAssumption
<1>4. VTypeOK /\ Rooms /\ Holds
  BY DEF VInv
<1>5. /\ grown.size \in Nat /\ DOMAIN grown.v = 0 .. grown.size - 1
      /\ grown.size = 0 <=> size = 0
      /\ size > 0 /\ count <= size =>
           count < grown.size /\ \A i \in 0 .. count - 1 : grown.v[i] = v[i]
  BY <1>4, Room
<1>6. /\ DOMAIN v' = 0 .. size' - 1
      /\ \A i \in 0 .. size' - 1 : v'[i] = IF i \in {count} THEN data ELSE grown.v[i]
      /\ overrun' \in BOOLEAN /\ running' \in BOOLEAN
      /\ {count} \subseteq 0 .. size' - 1 => overrun' = overrun
  BY <1>1, <1>2, <1>4, <1>5, Stored
<1>7. ASSUME ~below', size' > 0
      PROVE  /\ ~overrun' /\ count' <= size'
             /\ kept' = Append(kept, data) /\ Len(kept) = count /\ kept \in Seq(Int)
             /\ kept' = [i \in 1 .. count' |-> v'[i - 1]]
  <2>1. ~below /\ size > 0 /\ ~overrun /\ count <= size /\ count \in Nat
    BY <1>1, <1>4, <1>5, <1>7 DEF VTypeOK, Holds
  <2>2. Len(kept) = count /\ kept \in Seq(Int) /\ \A i \in 1 .. count : kept[i] = v[i - 1]
    BY <2>1, KeptLen
  <2>3. count < size' /\ \A i \in 0 .. count - 1 : grown.v[i] = v[i]
    BY <1>1, <1>5, <2>1
  <2>4. ~overrun'
    BY <1>1, <1>5, <1>6, <2>1, <2>3
  <2>5. kept' = Append(kept, data)
    BY <1>1, <1>7, <2>4, Asked
  <2>6. /\ Append(kept, data) \in Seq(Int) /\ Len(Append(kept, data)) = count + 1
        /\ Append(kept, data)[count + 1] = data
        /\ \A i \in 1 .. count : Append(kept, data)[i] = kept[i]
    BY <1>3, <2>1, <2>2, AppendProperties
  <2>7. ASSUME NEW i \in 1 .. count + 1 PROVE kept'[i] = v'[i - 1]
    <3>1. CASE i = count + 1
      BY <1>1, <1>5, <1>6, <2>1, <2>3, <2>5, <2>6, <3>1
    <3>2. CASE i \in 1 .. count
      <4>1. i - 1 \in 0 .. count - 1 /\ i - 1 \in 0 .. size' - 1 /\ i - 1 # count
        BY <1>1, <1>5, <2>1, <2>3, <3>2
      <4> QED BY <1>6, <2>2, <2>3, <2>5, <2>6, <3>2, <4>1
    <3> QED BY <2>1, <3>1, <3>2
  <2>8. kept' = [i \in 1 .. count' |-> v'[i - 1]]
    <3>1. kept' \in Seq(Int) /\ Len(kept') = count + 1
      BY <2>5, <2>6
    <3>2. kept' = [i \in 1 .. count + 1 |-> kept'[i]]
      BY <3>1
    <3> QED BY <1>1, <2>7, <3>2
  <2> QED BY <1>1, <1>5, <2>1, <2>2, <2>3, <2>4, <2>5, <2>8
<1>8. Holds'
  BY <1>7 DEF Holds
<1>9. Rooms'
  BY <1>1, <1>4, <1>5 DEF Rooms
<1>10. running' => kept' \in Seq(Int)
  BY <1>1, <1>3, <1>4 DEF Ask, VTypeOK
<1>11. VTypeOK'
  BY <1>1, <1>4, <1>5, <1>6, <1>10 DEF VTypeOK
<1> QED BY <1>8, <1>9, <1>11 DEF VInv

\* Inserting keeps what is held, if hello2 has capacity and the index is in range.
LEMMA InsertBeforeKeeps ==
  ASSUME VInv, running, program = "hello2", NEW index \in Indexes, NEW data \in Data,
         InsertBefore(index, data)
  PROVE  VInv'
<1> DEFINE values == [i \in index .. count |-> IF i = index THEN data ELSE cell(grown.v, i - 1)]
<1>1. Store(grown.v, values) /\ Ask(InsertAt(kept, index + 1, data))
      /\ size' = grown.size /\ count' = count + 1 /\ program' = program
      /\ below' = (below \/ index < 0) /\ index < count
  BY DEF InsertBefore
<1>2. DOMAIN values = index .. count
      /\ \A i \in index .. count : values[i] = IF i = index THEN data ELSE cell(grown.v, i - 1)
  OBVIOUS
<1> HIDE DEF values
<1>3. data \in Int /\ index \in Int
  BY VectorsAssumption
<1>4. VTypeOK /\ Rooms /\ Holds
  BY DEF VInv
<1>5. /\ grown.size \in Nat /\ DOMAIN grown.v = 0 .. grown.size - 1
      /\ grown.size = 0 <=> size = 0
      /\ size > 0 /\ count <= size =>
           count < grown.size /\ \A i \in 0 .. count - 1 : grown.v[i] = v[i]
  BY <1>4, Room
<1>6. /\ DOMAIN v' = 0 .. size' - 1
      /\ \A i \in 0 .. grown.size - 1 :
           v'[i] = IF i \in index .. count THEN values[i] ELSE grown.v[i]
      /\ overrun' \in BOOLEAN /\ running' \in BOOLEAN
      /\ index .. count \subseteq 0 .. grown.size - 1 => overrun' = overrun
      /\ ~(index .. count \subseteq 0 .. grown.size - 1) => overrun'
  <2>1. /\ DOMAIN v' = DOMAIN grown.v
        /\ \A i \in DOMAIN grown.v :
             v'[i] = IF i \in DOMAIN values THEN values[i] ELSE grown.v[i]
        /\ overrun' \in BOOLEAN /\ running' \in BOOLEAN
        /\ DOMAIN values \subseteq DOMAIN grown.v => overrun' = overrun
        /\ ~(DOMAIN values \subseteq DOMAIN grown.v) => overrun'
    BY <1>1, <1>4, Stored
  <2> QED BY <1>1, <1>2, <1>5, <2>1, Zenon
<1>7. ASSUME ~below', size' > 0
      PROVE  /\ ~overrun' /\ count' <= size'
             /\ kept' \in Seq(Int)
             /\ kept' = [i \in 1 .. count' |-> v'[i - 1]]
  <2>0. ~below /\ index >= 0
    <3>1. ~(below \/ index < 0)
      BY <1>1, <1>7, Zenon
    <3>2. ~below /\ ~(index < 0)
      BY <3>1
    <3> QED BY <1>3, <3>2
  <2>1. ~below /\ size > 0 /\ ~overrun /\ count <= size /\ count \in Nat /\ index \in 0 .. count - 1
    BY <1>1, <1>3, <1>4, <1>5, <1>7, <2>0 DEF VTypeOK, Holds
  <2>2. Len(kept) = count /\ kept \in Seq(Int) /\ \A i \in 1 .. count : kept[i] = v[i - 1]
    BY <2>1, KeptLen
  <2>3. count < grown.size /\ \A i \in 0 .. count - 1 : grown.v[i] = v[i]
    BY <1>1, <1>5, <2>1
  <2>4. ~overrun'
    BY <1>1, <1>5, <1>6, <2>1, <2>3
  <2>5. kept' = InsertAt(kept, index + 1, data)
    BY <1>1, <1>7, <2>4, Asked
  <2>6. kept' \in Seq(Int) /\ IsInsertion(kept', kept, index + 1, data)
    <3>1. index + 1 \in 1 .. Len(kept) + 1
      BY <2>1, <2>2
    <3> QED BY <1>3, <2>2, <2>5, <3>1, Inserted
  <2>7. /\ Len(kept') = count + 1
        /\ \A i \in 1 .. count + 1 :
             kept'[i] = IF i < index + 1 THEN kept[i] ELSE IF i = index + 1 THEN data ELSE kept[i - 1]
    BY <2>2, <2>6 DEF IsInsertion
  <2>8. ASSUME NEW i \in 1 .. count + 1 PROVE kept'[i] = v'[i - 1]
    <3>0. i - 1 \in 0 .. grown.size - 1 /\ i \in Int /\ (i - 1) + 1 = i
      BY <1>1, <1>5, <2>1, <2>3
    <3>1. CASE i < index + 1
      <4>1. i - 1 \notin index .. count /\ i \in 1 .. count /\ i - 1 \in 0 .. count - 1
        BY <2>1, <3>0, <3>1
      <4> QED BY <1>6, <2>2, <2>3, <2>7, <3>0, <3>1, <4>1
    <3>2. CASE i = index + 1
      <4>1. i - 1 = index /\ index \in index .. count
        BY <2>1, <3>2
      <4>2. v'[i - 1] = data
        BY <1>2, <1>6, <3>0, <4>1
      <4>3. kept'[i] = data
        BY <2>7, <3>2, <1>3
      <4> QED BY <4>2, <4>3
    <3>3. CASE i > index + 1
      <4>1. /\ i - 1 \in index .. count /\ i - 1 # index /\ (i - 1) - 1 \in 0 .. count - 1
            /\ i - 1 \in 1 .. count /\ (i - 1) - 1 \in 0 .. grown.size - 1
        BY <1>1, <1>5, <2>1, <2>3, <3>0, <3>3
      <4>2. v'[i - 1] = grown.v[(i - 1) - 1]
        BY <1>2, <1>5, <1>6, <3>0, <4>1 DEF cell
      <4>3. kept'[i] = kept[i - 1]
        BY <1>3, <2>7, <3>0, <3>3
      <4> QED BY <2>2, <2>3, <4>1, <4>2, <4>3
    <3> QED BY <1>3, <3>0, <3>1, <3>2, <3>3
  <2>9. kept' = [i \in 1 .. count' |-> v'[i - 1]]
    <3>1. kept' = [i \in 1 .. count + 1 |-> kept'[i]]
      BY <2>6, <2>7
    <3> QED BY <1>1, <2>8, <3>1
  <2> QED BY <1>1, <1>5, <2>1, <2>3, <2>4, <2>6, <2>9
<1>8. Holds'
  BY <1>7 DEF Holds
<1>9. Rooms'
  BY <1>1, <1>4, <1>5 DEF Rooms
<1>10. kept' \in Seq(Int)
  <2>1. CASE below' \/ overrun'
    BY <1>1, <2>1 DEF Ask
  <2>2. CASE ~below' /\ ~overrun'
    <3>1. grown.size \in Nat /\ count \in Nat
      BY <1>4, <1>5 DEF VTypeOK
    <3>2. count \in index .. count
      BY <1>1, <1>3, <3>1
    <3>3. count \in 0 .. grown.size - 1
      BY <1>6, <2>2, <3>2, Zenon
    <3>4. size' > 0
      BY <1>1, <3>1, <3>3
    <3> QED BY <1>7, <2>2, <3>4, Zenon
  <2> QED BY <2>1, <2>2
<1>11. below' \in BOOLEAN
  BY <1>1
<1>12. VTypeOK'
  BY <1>1, <1>4, <1>5, <1>6, <1>10, <1>11 DEF VTypeOK
<1> QED BY <1>8, <1>9, <1>12 DEF VInv

\* All but the last of a sequence.
LEMMA Fronts ==
  ASSUME NEW seq \in Seq(Int)
  PROVE  /\ Front(seq) \in Seq(Int)
         /\ Len(seq) > 0 => Len(Front(seq)) = Len(seq) - 1
                            /\ \A i \in 1 .. Len(seq) - 1 : Front(seq)[i] = seq[i]
<1>1. Len(seq) \in Nat /\ \A i \in 1 .. Len(seq) : seq[i] \in Int
  OBVIOUS
<1>2. CASE Len(seq) = 0
  <2>1. Len(seq) - 1 < 1
    BY <1>2
  <2> QED BY <1>1, <1>2, <2>1, SubSeqProperties DEF Front
<1>3. CASE Len(seq) > 0
  <2> DEFINE n == Len(seq) - 1
  <2>1. n \in Nat /\ \A i \in 1 .. n : seq[i] \in Int
    BY <1>1, <1>3
  <2>2. /\ SubSeq(seq, 1, n) \in Seq(Int)
        /\ Len(SubSeq(seq, 1, n)) = IF 1 <= n THEN n - 1 + 1 ELSE 0
        /\ \A i \in 1 .. n - 1 + 1 : SubSeq(seq, 1, n)[i] = seq[1 + i - 1]
    <3> HIDE DEF n
    <3> QED BY <2>1, SubSeqProperties
  <2>3. n - 1 + 1 = n /\ \A i \in 1 .. n : 1 + i - 1 = i
    BY <2>1
  <2>4. Len(SubSeq(seq, 1, n)) = n
    <3>1. n \in Nat /\ Len(SubSeq(seq, 1, n)) = IF 1 <= n THEN n - 1 + 1 ELSE 0
      BY <2>1, <2>2
    <3> HIDE DEF n
    <3> QED BY <3>1
  <2>5. \A i \in 1 .. n : SubSeq(seq, 1, n)[i] = seq[i]
    BY <2>2, <2>3
  <2>6. Front(seq) = SubSeq(seq, 1, n)
    BY DEF Front
  <2> HIDE DEF n
  <2> QED BY <2>2, <2>4, <2>5, <2>6 DEF n
<1> QED BY <1>1, <1>2, <1>3

\* The cells in front of the last one are what is left.
LEMMA RemovedLast ==
  ASSUME VInv, running, ~below, size > 0, count > 0, kept' = Front(kept), count' = count - 1,
         \A i \in 0 .. count - 2 : v'[i] = v[i]
  PROVE  kept' = [i \in 1 .. count' |-> v'[i - 1]]
<1>1. Len(kept) = count /\ kept \in Seq(Int) /\ \A i \in 1 .. count : kept[i] = v[i - 1]
  BY KeptLen
<1>2. count \in Nat
  BY DEF VInv, VTypeOK
<1>3. /\ Front(kept) \in Seq(Int) /\ Len(Front(kept)) = count - 1
      /\ \A i \in 1 .. count - 1 : Front(kept)[i] = kept[i]
  BY <1>1, <1>2, Fronts
<1>4. \A i \in 1 .. count - 1 : i - 1 \in 0 .. count - 2 /\ i \in 1 .. count
  BY <1>2
<1>5. \A i \in 1 .. count - 1 : kept'[i] = v'[i - 1]
  BY <1>1, <1>3, <1>4
<1>6. kept' = [i \in 1 .. count - 1 |-> kept'[i]]
  BY <1>3
<1> QED BY <1>5, <1>6

\* Removing keeps what is held, with hello2 shrinking as it goes.
LEMMA RemoveElementKeeps ==
  ASSUME VInv, running, program = "hello2", RemoveElement
  PROVE  VInv'
<1>1. /\ count > 0 /\ count' = count - 1 /\ program' = program /\ below' = below
      /\ Ask(Front(kept))
  BY DEF RemoveElement
<1>2. VTypeOK /\ Rooms /\ Holds /\ kept \in Seq(Int)
  BY DEF VInv, VTypeOK
<1>0. count \in Nat /\ size \in Nat /\ count > 0 /\ count' = count - 1
  BY <1>1, <1>2 DEF VTypeOK
<1>3. running' => kept' \in Seq(Int)
  <2>1. kept' = <<>> \/ kept' = Front(kept)
    BY <1>1 DEF Ask
  <2>2. <<>> \in Seq(Int) /\ Front(kept) \in Seq(Int)
    BY <1>2, Fronts
  <2> QED BY <2>1, <2>2
<1>4. CASE size > 0 /\ 10 * count' < 3 * size /\ Shrink /\ UNCHANGED <<overrun, running>>
  <2>0. PICK half \in Nat : half = size \div 2 /\ 2 * half <= size /\ size <= 2 * half + 1
    BY <1>0
  <2>1. size' = half /\ v' = copied(v, count - 1, half)
    BY <1>0, <1>4, <2>0 DEF Shrink
  <2>2. 2 * half <= size /\ size <= 2 * half + 1 /\ 10 * (count - 1) < 3 * size
    BY <1>0, <1>4, <2>0
  <2>3. DOMAIN v' = 0 .. size' - 1
        /\ \A i \in 0 .. half - 1 : v'[i] = IF i < count - 1 THEN cell(v, i) ELSE Junk
    BY <2>1, Copied
  <2>4. VTypeOK' /\ Rooms'
    BY <1>1, <1>2, <1>3, <1>4, <2>1, <2>3 DEF VTypeOK, Rooms
  <2>5. ASSUME ~below', size' > 0
        PROVE  ~overrun' /\ count' <= size' /\ kept' = [i \in 1 .. count' |-> v'[i - 1]]
    <3>1. ~below /\ size > 0 /\ ~overrun' /\ ~overrun /\ count <= size
      BY <1>1, <1>2, <1>4, <2>5 DEF Holds
    <3>2. count - 1 <= half
      BY <1>0, <2>2
    <3>3. \A i \in 0 .. count - 2 : v'[i] = v[i]
      <4>1. ASSUME NEW i \in 0 .. count - 2
            PROVE  i \in 0 .. half - 1 /\ i < count - 1 /\ i \in 0 .. size - 1
        BY <1>0, <2>2, <3>1, <3>2
      <4> QED BY <1>2, <2>3, <4>1 DEF cell, VTypeOK
    <3>4. kept' = Front(kept)
      BY <1>1, <2>5, <3>1, Asked
    <3> QED BY <1>0, <2>1, <3>1, <3>2, <3>3, <3>4, RemovedLast
  <2>6. Holds'
    BY <2>5 DEF Holds
  <2> QED BY <2>4, <2>6 DEF VInv
<1>5. CASE UNCHANGED size /\ Store(v, [i \in {count - 1} |-> 0])
  <2> DEFINE values == [i \in {count - 1} |-> 0]
  <2>1. DOMAIN values = {count - 1} /\ Store(v, values)
    BY <1>5
  <2> HIDE DEF values
  <2>2. /\ DOMAIN v' = 0 .. size' - 1
        /\ \A i \in 0 .. size - 1 : v'[i] = IF i \in {count - 1} THEN values[i] ELSE v[i]
        /\ overrun' \in BOOLEAN /\ running' \in BOOLEAN
        /\ {count - 1} \subseteq 0 .. size - 1 => overrun' = overrun
    <3>1. DOMAIN v = 0 .. size - 1
      BY <1>2 DEF VTypeOK
    <3> QED BY <1>2, <1>5, <2>1, <3>1, Stored
  <2>3. VTypeOK' /\ Rooms'
    BY <1>1, <1>2, <1>3, <1>5, <2>2 DEF VTypeOK, Rooms
  <2>4. ASSUME ~below', size' > 0
        PROVE  ~overrun' /\ count' <= size' /\ kept' = [i \in 1 .. count' |-> v'[i - 1]]
    <3>1. ~below /\ size > 0 /\ ~overrun /\ count <= size
      BY <1>1, <1>2, <1>5, <2>4 DEF Holds
    <3>2. overrun' = overrun
      BY <1>0, <2>2, <3>1
    <3>3. \A i \in 0 .. count - 2 : v'[i] = v[i]
      BY <1>0, <2>2, <3>1
    <3>4. kept' = Front(kept)
      BY <1>1, <2>4, <3>1, <3>2, Asked
    <3>5. count' <= size'
      BY <1>0, <1>5, <3>1
    <3> QED BY <1>0, <3>1, <3>2, <3>3, <3>4, <3>5, RemovedLast
  <2>5. Holds'
    BY <2>4 DEF Holds
  <2> QED BY <2>3, <2>5 DEF VInv
<1> QED BY <1>4, <1>5 DEF RemoveElement

\* lab1-2 removes by copying all but the last.
LEMMA RemoveElement_22Keeps ==
  ASSUME VInv, running, program = "lab1-22", RemoveElement_22
  PROVE  VInv'
<1>1. /\ count > 0 /\ count' = count - 1 /\ kept' = Front(kept)
      /\ v' = copied(v, count - 1, size)
      /\ UNCHANGED <<program, size, running, below, overrun>>
  BY DEF RemoveElement_22
<1>2. VTypeOK /\ Rooms /\ Holds /\ kept \in Seq(Int)
  BY DEF VInv, VTypeOK
<1>0. count \in Nat /\ size \in Nat /\ DOMAIN v = 0 .. size - 1
  BY <1>2 DEF VTypeOK
<1>3. DOMAIN v' = 0 .. size - 1
      /\ \A i \in 0 .. size - 1 : v'[i] = IF i < count - 1 THEN cell(v, i) ELSE Junk
  BY <1>1, Copied
<1>4. VTypeOK' /\ Rooms'
  BY <1>0, <1>1, <1>2, <1>3, Fronts DEF VTypeOK, Rooms
<1>5. ASSUME ~below', size' > 0
      PROVE  ~overrun' /\ count' <= size' /\ kept' = [i \in 1 .. count' |-> v'[i - 1]]
  <2>1. ~below /\ size > 0 /\ ~overrun /\ count <= size
    BY <1>1, <1>2, <1>5 DEF Holds
  <2>2. count' <= size'
    BY <1>0, <1>1, <2>1
  <2>3. \A i \in 0 .. count - 2 : v'[i] = v[i]
    BY <1>0, <1>3, <2>1 DEF cell
  <2> QED BY <1>0, <1>1, <2>1, <2>2, <2>3, RemovedLast
<1>6. Holds'
  BY <1>5 DEF Holds
<1> QED BY <1>4, <1>6 DEF VInv

\* A copy of a vector holds what the vector holds.
LEMMA ivec_copyKeeps ==
  ASSUME VInv, running, ivec_copy
  PROVE  VInv'
<1>1. v' = copied(v, count, size) /\ UNCHANGED <<program, count, size, running, kept, below, overrun>>
  BY DEF ivec_copy
<1>2. VTypeOK /\ Rooms /\ Holds
  BY DEF VInv
<1>3. DOMAIN v' = 0 .. size - 1
      /\ \A i \in 0 .. size - 1 : v'[i] = IF i < count THEN cell(v, i) ELSE Junk
  BY <1>1, Copied
<1>4. VTypeOK' /\ Rooms'
  BY <1>1, <1>2, <1>3 DEF VTypeOK, Rooms
<1>5. ASSUME ~below, size > 0
      PROVE  ~overrun /\ count <= size /\ kept = [i \in 1 .. count |-> v'[i - 1]]
  <2>1. ~overrun /\ count <= size /\ kept = [i \in 1 .. count |-> v[i - 1]]
    BY <1>2, <1>5 DEF Holds
  <2>2. \A i \in 1 .. count : i - 1 \in 0 .. size - 1 /\ i - 1 < count
    BY <1>2, <2>1 DEF VTypeOK
  <2>3. \A i \in 1 .. count : v'[i - 1] = v[i - 1]
    BY <1>2, <1>3, <2>2 DEF cell, VTypeOK
  <2> QED BY <2>1, <2>3
<1>6. Holds'
  BY <1>1, <1>5 DEF Holds
<1> QED BY <1>4, <1>6 DEF VInv

\* sort-strings stores a line and then makes room for the next.
LEMMA fgets_lineKeeps ==
  ASSUME VInv, running, program = "sort-strings", NEW data \in Data, fgets_line(data)
  PROVE  VInv'
<1> DEFINE stored == [i \in DOMAIN v |-> IF i = count THEN data ELSE v[i]]
           more   == IF count = size - 1 THEN size + 1 ELSE size
<1>1. /\ size' = more /\ v' = copied(stored, size, more)
      /\ count' = count + 1 /\ kept' = Append(kept, data)
      /\ UNCHANGED <<program, running, below, overrun>>
  BY DEF fgets_line
<1>2. VTypeOK /\ Rooms /\ Holds /\ kept \in Seq(Int) /\ data \in Int
  BY VectorsAssumption DEF VInv, VTypeOK
<1>0. count \in Nat /\ size \in Nat /\ DOMAIN v = 0 .. size - 1 /\ count < size
  BY <1>2 DEF VTypeOK, Rooms
<1>3. more \in Nat /\ more > 0 /\ count + 1 < more /\ size <= more
  BY <1>0
<1>4. DOMAIN stored = 0 .. size - 1
      /\ \A i \in 0 .. size - 1 : stored[i] = IF i = count THEN data ELSE v[i]
  BY <1>0
<1> HIDE DEF stored, more
<1>5. DOMAIN v' = 0 .. more - 1
      /\ \A i \in 0 .. more - 1 : v'[i] = IF i < size THEN cell(stored, i) ELSE Junk
  BY <1>1, Copied
<1>6. \A i \in 0 .. count : v'[i] = IF i = count THEN data ELSE v[i]
  BY <1>0, <1>3, <1>4, <1>5 DEF cell
<1>7. /\ Append(kept, data) \in Seq(Int) /\ Len(Append(kept, data)) = Len(kept) + 1
      /\ Append(kept, data)[Len(kept) + 1] = data
      /\ \A i \in 1 .. Len(kept) : Append(kept, data)[i] = kept[i]
  BY <1>2, AppendProperties
<1>8. VTypeOK' /\ Rooms'
  BY <1>0, <1>1, <1>2, <1>3, <1>5, <1>7 DEF VTypeOK, Rooms
<1>9. ASSUME ~below, size' > 0
      PROVE  /\ ~overrun /\ count + 1 <= more
             /\ Append(kept, data) = [i \in 1 .. count + 1 |-> v'[i - 1]]
  <2>1. ~overrun
    BY <1>0, <1>2, <1>9 DEF Holds
  <2>2. Len(kept) = count /\ \A i \in 1 .. count : kept[i] = v[i - 1]
    BY <1>0, <1>9, KeptLen
  <2>3. ASSUME NEW i \in 1 .. count + 1 PROVE Append(kept, data)[i] = v'[i - 1]
    <3>1. i - 1 \in 0 .. count
      BY <1>0
    <3>2. CASE i = count + 1
      BY <1>0, <1>6, <1>7, <2>2, <3>1, <3>2
    <3>3. CASE i \in 1 .. count
      <4>1. i - 1 # count
        BY <1>0, <3>3
      <4> QED BY <1>6, <1>7, <2>2, <3>1, <3>3, <4>1
    <3> QED BY <1>0, <3>2, <3>3
  <2>4. Append(kept, data) = [i \in 1 .. count + 1 |-> Append(kept, data)[i]]
    <3> DEFINE appended == Append(kept, data)
    <3>1. appended \in Seq(Int) /\ Len(appended) = count + 1
      BY <1>7, <2>2
    <3> HIDE DEF appended
    <3>2. appended = [i \in 1 .. count + 1 |-> appended[i]]
      BY <3>1
    <3> QED BY <3>2 DEF appended
  <2> QED BY <1>0, <1>3, <2>1, <2>3, <2>4
<1>10. Holds'
  BY <1>1, <1>9 DEF Holds
<1> QED BY <1>8, <1>10 DEF VInv

\* Sorting puts each of the lines at one of their places.
LEMMA SortedDomain ==
  ASSUME NEW lines
  PROVE  \E order : sorted(lines) = [i \in DOMAIN lines |-> lines[order[i]]]
<1> DEFINE order == CHOOSE p \in Permutations(DOMAIN lines) :
                      \A i, j \in DOMAIN lines : i < j => lines[p[i]] <= lines[p[j]]
<1>1. sorted(lines) = [i \in DOMAIN lines |-> lines[order[i]]]
  BY Zenon DEF sorted
<1> HIDE DEF order
<1> QED BY <1>1

\* What the array holds is a sequence of count elements.
LEMMA Contents ==
  ASSUME VTypeOK, count <= size
  PROVE  contents = [i \in 1 .. count |-> v[i - 1]]
<1>1. \A i \in 1 .. count : i - 1 \in DOMAIN v
  BY DEF VTypeOK
<1> QED BY <1>1 DEF contents, cell

\* The lines and what was asked for are sorted alike.
LEMMA qsort_linesKeeps ==
  ASSUME VInv, running, program = "sort-strings", qsort_lines
  PROVE  VInv'
<1>1. /\ v' = [i \in DOMAIN v |-> IF i < count THEN sorted(contents)[i + 1] ELSE v[i]]
      /\ kept' = sorted(kept) /\ running' = FALSE
      /\ UNCHANGED <<program, count, size, below, overrun>>
  BY DEF qsort_lines
<1>2. VTypeOK /\ Rooms /\ Holds
  BY DEF VInv
<1>3. VTypeOK' /\ Rooms'
  BY <1>1, <1>2 DEF VTypeOK, Rooms
<1>4. ASSUME ~below, size > 0
      PROVE  ~overrun /\ count <= size /\ kept' = [i \in 1 .. count |-> v'[i - 1]]
  <2>1. ~overrun /\ count <= size /\ kept = [i \in 1 .. count |-> v[i - 1]]
    BY <1>2, <1>4 DEF Holds
  <2>2. contents = kept
    BY <1>2, <2>1, Contents
  <2>3. PICK order : sorted(kept) = [i \in DOMAIN kept |-> kept[order[i]]]
    BY SortedDomain
  <2>4. DOMAIN kept = 1 .. count
    BY <2>1
  <2>5. kept' = [i \in 1 .. count |-> sorted(kept)[i]]
    BY <1>1, <2>3, <2>4
  <2>6. ASSUME NEW i \in 1 .. count PROVE v'[i - 1] = sorted(kept)[i]
    <3>1. i - 1 \in DOMAIN v /\ i - 1 < count /\ (i - 1) + 1 = i
      BY <1>2, <2>1 DEF VTypeOK
    <3>2. v'[i - 1] = sorted(contents)[(i - 1) + 1]
      BY <1>1, <3>1
    <3> QED BY <2>2, <3>1, <3>2
  <2> QED BY <2>1, <2>5, <2>6
<1>5. Holds'
  BY <1>1, <1>4 DEF Holds
<1> QED BY <1>3, <1>5 DEF VInv

\* A program that ends changes nothing that it holds.
LEMMA LeaveKeeps ==
  ASSUME VInv, Leave \/ UNCHANGED vvars
  PROVE  VInv'
<1>1. UNCHANGED <<program, v, count, size, kept, below, overrun>>
  BY DEF Leave, vvars
<1>2. running' = FALSE \/ running' = running
  BY DEF Leave, vvars
<1>3. VTypeOK'
  <2>1. VTypeOK /\ running \in BOOLEAN
    BY DEF VInv, VTypeOK
  <2>2. CASE running' = running
    BY <1>1, <2>1, <2>2 DEF VTypeOK
  <2>3. CASE running' = FALSE
    BY <1>1, <2>1, <2>3 DEF VTypeOK
  <2> QED BY <1>2, <2>2, <2>3
<1>4. Rooms' /\ Holds'
  BY <1>1 DEF VInv, Rooms, Holds
<1> QED BY <1>3, <1>4 DEF VInv

\* Every program starts with an empty vector.
LEMMA VStart == VInit => VInv
<1> SUFFICES ASSUME VInit PROVE VInv
  OBVIOUS
<1>0. \/ /\ program \in {"hello", "hello2", "lab1", "lab1-22", "hw08", "sort-strings"}
         /\ size \in {2, 4} /\ (running \in BOOLEAN \/ running = TRUE)
      \/ program = "hw11" /\ size = Capacity0 /\ running = TRUE
  BY DEF VInit, Initialize, Initialize_menu, Initialize_22, make_ivec, make_ivec_11, malloc_lines
<1>1. /\ size \in Nat /\ size > 0 /\ running \in BOOLEAN
      /\ program \in {"hello", "hello2", "lab1", "lab1-22", "hw08", "hw11", "sort-strings"}
  <2>1. running \in BOOLEAN
    BY <1>0
  <2>2. size \in Nat /\ size > 0
    BY <1>0, VectorsAssumption
  <2>3. program \in {"hello", "hello2", "lab1", "lab1-22", "hw08", "hw11", "sort-strings"}
    BY <1>0
  <2> QED BY <2>1, <2>2, <2>3
<1>2. DOMAIN v = 0 .. size - 1 /\ count = 0 /\ kept = <<>> /\ below = FALSE /\ overrun = FALSE
  BY DEF VInit, new
<1>3. <<>> \in Seq(Int) /\ <<>> = [i \in 1 .. 0 |-> v[i - 1]]
  OBVIOUS
<1>4. VTypeOK
  BY <1>1, <1>2, <1>3 DEF VTypeOK
<1>5. Rooms /\ Holds
  BY <1>1, <1>2, <1>3 DEF Rooms, Holds
<1> QED BY <1>4, <1>5 DEF VInv

\* Every operation of every program keeps the invariant.
LEMMA VStep == VInv /\ [VNext]_vvars => VInv'
<1> SUFFICES ASSUME VInv, [VNext]_vvars PROVE VInv'
  OBVIOUS
<1>1. ASSUME running, program = "hello2", hello2 PROVE VInv'
  <2>1. CASE \E data \in Data : AddElement(data)
    BY <1>1, <2>1, AddElementKeeps
  <2>2. CASE RemoveElement
    BY <1>1, <2>2, RemoveElementKeeps
  <2>3. CASE \E index \in Indexes, data \in Data : InsertElement(index, data)
    BY <1>1, <2>3, AddElementKeeps, InsertBeforeKeeps DEF InsertElement
  <2>4. CASE Leave
    BY <2>4, LeaveKeeps
  <2> QED BY <1>1, <2>1, <2>2, <2>3, <2>4 DEF hello2
<1>2. ASSUME running, program = "lab1-22", lab1_22 PROVE VInv'
  BY <1>2, AddElementKeeps, RemoveElement_22Keeps, LeaveKeeps DEF lab1_22
<1>3. ASSUME running, program = "sort-strings", sort_strings PROVE VInv'
  BY <1>3, fgets_lineKeeps, qsort_linesKeeps DEF sort_strings
<1>4. ASSUME running, program \in {"hw08", "hw11"}, NEW xx \in Data, ivec_push(xx) PROVE VInv'
  BY <1>4, AddElementKeeps DEF ivec_push
<1>5. CASE Leave \/ UNCHANGED vvars
  BY <1>5, LeaveKeeps
<1>6. ASSUME running, ivec_copy PROVE VInv'
  BY <1>6, ivec_copyKeeps
<1> QED BY <1>1, <1>2, <1>3, <1>4, <1>5, <1>6 DEF VNext, menu, menu_once, Abort

\* The array has the length that the program remembers, and holds what was added (Grow, Shrink,
\* InsertElement, RemoveElement, ivec_push, main of sort-strings).
THEOREM VInvariant == VSpec => []VInv
BY VStart, VStep, PTL DEF VSpec

\* As long as no index was negative and hello2's capacity has not shrunk to nothing, the vector
\* holds what was appended, inserted and removed, and nothing was stored outside of it, whatever
\* the values and however long it gets; sort-strings has room for the entry that it prints
\* behind its lines (Grow, Shrink, InsertElement, RemoveElement, ivec_push, main).
THEOREM HoldsWhatWasAddedHolds == VSpec => []HoldsWhatWasAdded
<1>1. ASSUME VInv PROVE HoldsWhatWasAdded
  <2>1. VTypeOK /\ Rooms /\ Holds
    BY <1>1 DEF VInv
  <2>2. ASSUME ~below, size > 0
        PROVE  ~overrun /\ contents = kept /\ (count > 0 => ivec_last = Last(kept))
    <3>1. ~overrun /\ count <= size /\ kept = [i \in 1 .. count |-> v[i - 1]]
      BY <2>1, <2>2 DEF Holds
    <3>2. contents = kept
      BY <2>1, <3>1, Contents
    <3>3. count \in Nat
      BY <2>1 DEF VTypeOK
    <3>4. Len(kept) = count
      BY <3>1, <3>3
    <3>5. count > 0 => count - 1 \in DOMAIN v /\ kept[count] = v[count - 1]
      BY <2>1, <3>1, <3>3 DEF VTypeOK
    <3>6. count > 0 => ivec_last = Last(kept)
      BY <3>4, <3>5 DEF ivec_last, cell, Last
    <3> QED BY <3>1, <3>2, <3>6
  <2> QED BY <2>1, <2>2 DEF HoldsWhatWasAdded, Rooms
<1> QED BY <1>1, VInvariant, PTL

\* Only hello2 loses its whole capacity, and it never has any again: whatever is added from then
\* on is stored outside of the array (Shrink halves, Grow doubles).
THEOREM NothingForGoodHolds == VSpec => NothingForGood
<1>1. ASSUME VInv, [VNext]_vvars, size = 0
      PROVE  program = "hello2" /\ size' = 0 /\ (count' > count => overrun')
  <2>1. VTypeOK /\ Rooms /\ program = "hello2" /\ count \in Nat
    BY <1>1 DEF VInv, VTypeOK, Rooms
  <2>2. grown.size = 0 /\ DOMAIN grown.v = {}
    BY <1>1, <2>1, Room
  <2>3. ASSUME NEW data, AddElement(data) PROVE size' = 0 /\ overrun'
    <3> DEFINE values == [i \in {count} |-> data]
    <3>1. size' = grown.size /\ Store(grown.v, values)
      BY <2>3 DEF AddElement
    <3>2. ~(DOMAIN values \subseteq DOMAIN grown.v)
      BY <2>2
    <3> HIDE DEF values
    <3> QED BY <2>1, <2>2, <3>1, <3>2, Stored
  <2>4. ASSUME NEW index \in Indexes, NEW data, InsertBefore(index, data) PROVE size' = 0 /\ overrun'
    <3> DEFINE values == [i \in index .. count |-> IF i = index THEN data ELSE cell(grown.v, i - 1)]
    <3>1. size' = grown.size /\ Store(grown.v, values) /\ index < count
      BY <2>4 DEF InsertBefore
    <3>2. count \in DOMAIN values
      BY <2>1, <3>1, VectorsAssumption
    <3>3. ~(DOMAIN values \subseteq DOMAIN grown.v)
      BY <2>2, <3>2
    <3> HIDE DEF values
    <3> QED BY <2>1, <2>2, <3>1, <3>3, Stored
  <2>5. CASE RemoveElement
    BY <1>1, <2>1, <2>5 DEF RemoveElement
  <2>6. CASE Leave \/ UNCHANGED vvars
    BY <1>1, <2>1, <2>6 DEF Leave, vvars
  <2>7. CASE VNext
    <3>1. hello2 \/ ivec_copy \/ Abort
      BY <2>1, <2>7 DEF VNext
    <3>2. ~ivec_copy
      BY <2>1 DEF ivec_copy
    <3> QED BY <2>1, <2>3, <2>4, <2>5, <2>6, <3>1, <3>2 DEF hello2, Abort, InsertElement
  <2> QED BY <1>1, <2>1, <2>6, <2>7
<1>2. VInv /\ [VNext]_vvars =>
        [size = 0 => program = "hello2" /\ size' = 0 /\ (count' > count => overrun')]_vvars
  BY <1>1
<1> QED BY <1>2, VInvariant, PTL DEF VSpec, NothingForGood

=============================================================================
