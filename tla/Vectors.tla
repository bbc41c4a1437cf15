------------------------------- MODULE Vectors ------------------------------
(***************************************************************************)
(* The growing arrays of this repository, side by side: the menu programs  *)
(* of Robotics (hello.cc and lab1.cpp, which only have the menu,           *)
(* lab1-22.cpp, and hello2.cc, which also shrinks), the ivec of hw08 and   *)
(* of hw11, and the lines that sort-strings.c reads.  What the caller      *)
(* asked for is kept as a sequence beside them.  A cell that nothing has   *)
(* been stored into holds Junk, and so does what is read outside of the    *)
(* array; a store outside is remembered and may end the program then or    *)
(* later.                                                                  *)
(***************************************************************************)
EXTENDS Integers, SequencesExt

CONSTANTS
  Data,      \* what can be stored
  Indexes,   \* what can be given as an index
  Capacity0, \* what hw11's make_ivec is called with
  MaxCount   \* bound: so many elements are held at most

ASSUME VectorsAssumption ==
  Data \subseteq Nat \ {0} /\ Indexes \subseteq Int /\ Capacity0 \in Nat \ {0} /\ MaxCount \in Nat

Junk == -1

VARIABLES
  program, \* which of them it is
  v,       \* the array: a function on 0 .. size - 1
  count,   \* len in hw08, size in hw11
  size,    \* cap in hw08 and hw11
  running,
  kept,    \* history: the sequence that was asked for
  below,   \* history: a negative index was given
  overrun  \* history: something was stored outside of the array

vvars == <<program, v, count, size, running, kept, below, overrun>>

\* new double[n], malloc: storage that nothing has been stored into.
new(n) == [i \in 0 .. n - 1 |-> Junk]

\* The array's cells in range, and Junk elsewhere.
cell(cells, i) == IF i \in DOMAIN cells THEN cells[i] ELSE Junk

\* The first n cells in a new array of the given size.
copied(cells, n, capacity) == [i \in 0 .. capacity - 1 |-> IF i < n THEN cell(cells, i) ELSE Junk]

\* What a print of the vector shows.
contents == [i \in 1 .. count |-> cell(v, i - 1)]

Initialize == program = "hello2" /\ size = 2 /\ running \in BOOLEAN  \* choice is not initialised

\* hello.cc does not initialise choice either.
Initialize_menu ==
  \/ program = "hello" /\ size = 2 /\ running \in BOOLEAN
  \/ program = "lab1" /\ size = 2 /\ running = TRUE

Initialize_22 == program = "lab1-22" /\ size = 2 /\ running = TRUE

make_ivec == program = "hw08" /\ size = 4 /\ running = TRUE

make_ivec_11 == program = "hw11" /\ size = Capacity0 /\ running = TRUE

malloc_lines == program = "sort-strings" /\ size = 4 /\ running = TRUE

VInit ==
  /\ \/ Initialize \/ Initialize_menu \/ Initialize_22
     \/ make_ivec \/ make_ivec_11 \/ malloc_lines
  /\ v = new(size) /\ count = 0
  /\ kept = <<>> /\ below = FALSE /\ overrun = FALSE

\* The values are stored into cells; the program may not survive a store outside of them.
Store(cells, values) ==
  /\ v' = [i \in DOMAIN cells |-> IF i \in DOMAIN values THEN values[i] ELSE cells[i]]
  /\ \/ DOMAIN values \subseteq DOMAIN cells /\ UNCHANGED <<overrun, running>>
     \/ ~(DOMAIN values \subseteq DOMAIN cells) /\ overrun' = TRUE /\ running' \in {running, FALSE}

\* What is asked for, until an index is negative or a store goes astray.
Ask(sequence) == kept' = IF below' \/ overrun' THEN <<>> ELSE sequence

\* A variant for the checks: hello2 grows by two cells, like lab1-22.
GrowByTwo == [size |-> size + 2, v |-> copied(v, size, size + 2)]

\* The array doubled: the program copies as many cells as it had.
Grow == [size |-> 2 * size, v |-> copied(v, size, 2 * size)]

Grow_22 == [size |-> size + 2, v |-> copied(v, count, size + 2)]

Same == [size |-> size, v |-> v]

\* What the array is once there is room for one more.
grown ==
  CASE program = "hello2"           -> IF count = size THEN Grow ELSE Same
    [] program = "lab1-22"          -> IF count < size THEN Same ELSE Grow_22
    [] program \in {"hw08", "hw11"} -> IF count >= size THEN Grow ELSE Same

AddElement(data) ==
  /\ count < MaxCount
  /\ size' = grown.size
  /\ Store(grown.v, [i \in {count} |-> data])
  /\ count' = count + 1
  /\ UNCHANGED <<program, below>>
  /\ Ask(Append(kept, data))

\* A variant for the checks: the elements move up from the first to the last.
InsertShiftingUp(index, data) ==
  /\ index < count /\ count < MaxCount
  /\ size' = grown.size
  /\ Store(grown.v, [i \in index .. count |-> IF i = index THEN data ELSE cell(grown.v, index)])
  /\ count' = count + 1
  /\ below' = (below \/ index < 0)
  /\ Ask(InsertAt(kept, index + 1, data))
  /\ UNCHANGED program

\* The elements from the last to the one at index move up by one.
InsertBefore(index, data) ==
  /\ index < count /\ count < MaxCount
  /\ size' = grown.size
  /\ Store(grown.v, [i \in index .. count |-> IF i = index THEN data ELSE cell(grown.v, i - 1)])
  /\ count' = count + 1
  /\ below' = (below \/ index < 0)
  /\ Ask(InsertAt(kept, index + 1, data))
  /\ UNCHANGED program

InsertElement(index, data) == (index >= count /\ AddElement(data)) \/ InsertBefore(index, data)

\* Shrink: half the array, the elements copied.  A quotient by zero is infinite or no number.
Shrink ==
  /\ size' = size \div 2
  /\ v' = copied(v, count', size \div 2)

RemoveElement ==
  /\ count > 0
  /\ count' = count - 1
  /\ \/ size > 0 /\ 10 * count' < 3 * size /\ Shrink
        /\ UNCHANGED <<overrun, running>>
     \/ ~(size > 0 /\ 10 * count' < 3 * size) /\ UNCHANGED size
        /\ Store(v, [i \in {count - 1} |-> 0])
  /\ UNCHANGED <<program, below>>
  /\ Ask(Front(kept))

\* The others in a new array of the same size.
RemoveElement_22 ==
  /\ count > 0
  /\ count' = count - 1 /\ kept' = Front(kept)
  /\ v' = copied(v, count - 1, size)
  /\ UNCHANGED <<program, size, running, below, overrun>>

Leave == running' = FALSE /\ UNCHANGED <<program, v, count, size, kept, below, overrun>>

hello2 ==
  \/ \E data \in Data : AddElement(data)
  \/ RemoveElement
  \/ \E index \in Indexes, data \in Data : InsertElement(index, data)
  \/ Leave

\* The choice to append does nothing, and the one to insert appends.
lab1_22 == (\E data \in Data : AddElement(data)) \/ RemoveElement_22 \/ Leave

ivec_push(xx) == AddElement(xx)

ivec_last == cell(v, count - 1)

\* The copy grows as its elements are pushed onto it; its capacity is enough for all.
\* make_ivec takes it as an int, which is right for capacities below 2^31 (no bound of the model is near).
ivec_copy ==
  /\ program = "hw11"
  /\ v' = copied(v, count, size)
  /\ UNCHANGED <<program, count, size, running, kept, below, overrun>>

\* A line is stored and only then is there room made for the next.
fgets_line(line) ==
  /\ count < MaxCount
  /\ size' = IF count = size - 1 THEN size + 1 ELSE size
  /\ v' = copied([i \in DOMAIN v |-> IF i = count THEN line ELSE v[i]], size, size')
  /\ count' = count + 1 /\ kept' = Append(kept, line)
  /\ UNCHANGED <<program, running, below, overrun>>

\* qsort: the lines in order.
sorted(lines) ==
  LET order == CHOOSE p \in Permutations(DOMAIN lines) :
                 \A i, j \in DOMAIN lines : i < j => lines[p[i]] <= lines[p[j]] IN
  [i \in DOMAIN lines |-> lines[order[i]]]

\* The end of the input, from which the program prints what it has and ends.
qsort_lines ==
  /\ v' = [i \in DOMAIN v |-> IF i < count THEN sorted(contents)[i + 1] ELSE v[i]]
  /\ kept' = sorted(kept)
  /\ running' = FALSE
  /\ UNCHANGED <<program, count, size, below, overrun>>

sort_strings == (\E line \in Data : fgets_line(line)) \/ qsort_lines

\* Every choice of hello.cc but the last does nothing and asks again.
menu == Leave

\* lab1.cpp asks once: the loop under "default" asks again as long as the choice is valid,
\* and there it is not.
menu_once == Leave

\* A store outside of the array is found out by the allocator.
Abort == overrun /\ Leave

VNext ==
  /\ running
  /\ \/ program = "hello2" /\ hello2
     \/ program = "hello" /\ menu
     \/ program = "lab1" /\ menu_once
     \/ program = "lab1-22" /\ lab1_22
     \/ program = "sort-strings" /\ sort_strings
     \/ program \in {"hw08", "hw11"} /\ \E xx \in Data : ivec_push(xx)
     \/ ivec_copy
     \/ Abort

VSpec == VInit /\ [][VNext]_vvars

-----------------------------------------------------------------------------
\* As long as no index was negative and the capacity has not shrunk to nothing, whatever was
\* appended, inserted and removed, over every growth and shrinking, the vector holds exactly that,
\* and nothing was stored outside of it.  sort-strings, which prints one entry more than it has
\* lines, always has that entry.
HoldsWhatWasAdded ==
  /\ ~below /\ size > 0 => ~overrun /\ contents = kept /\ (count > 0 => ivec_last = Last(kept))
  /\ program = "sort-strings" => count < size

\* Only hello2 loses its whole capacity, by removing what it has, and it never has any again,
\* since twice nothing is nothing: every element added from then on is stored outside of the array.
NothingForGood ==
  [][size = 0 => program = "hello2" /\ size' = 0 /\ (count' > count => overrun')]_vvars

=============================================================================
