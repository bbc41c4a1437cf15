------------------------------ MODULE FreeList ------------------------------
(***************************************************************************)
(* The free list allocator of hw07 (hw06_mem.c).  The list of free cells   *)
(* is a sequence in list order; a cell is where it starts and how long it  *)
(* is.  Sizes and addresses are in units of the size field's 8 bytes or    *)
(* smaller.  The pages that mmap finds may lie anywhere, next to each      *)
(* other too.                                                              *)
(***************************************************************************)
EXTENDS Integers, SequencesExt

CONSTANTS
  HEADER,       \* sizeof(int64_t)
  CELL_SIZE,    \* sizeof(nu_free_cell)
  CHUNK_SIZE,   \* 65536
  PAGE,         \* where mmap may put a chunk: at the multiples of PAGE
  MaxPages      \* bound: pages of the address space

ASSUME FreeListAssumption ==
  /\ HEADER \in Nat \ {0} /\ CELL_SIZE \in Nat /\ HEADER < CELL_SIZE
  /\ PAGE \in Nat \ {0} /\ CHUNK_SIZE \in Nat
  /\ CELL_SIZE < CHUNK_SIZE /\ CHUNK_SIZE % PAGE = 0
  /\ MaxPages \in Nat

Address == 0 .. MaxPages * PAGE - 1
Bytes(at, size) == at .. at + size - 1
CellBytes(c)    == Bytes(c.at, c.size)

VARIABLES
  list,     \* nu_free_list
  live,     \* the size fields of the blocks handed out, by the blocks' addresses
  mapped,   \* the bytes that mmap has given and munmap not taken back
  lost      \* history: the remainders too small for a cell

fvars == <<list, live, mapped, lost>>

Init == list = <<>> /\ live = <<>> /\ mapped = {} /\ lost = {}

\* A variant for the checks: merge a cell with the next one wherever that is.
coalesce_all(cells) ==
  LET n == Len(cells)
      from[k \in 1 .. n + 1] ==
        IF k > n THEN <<>>
        ELSE IF k < n
        THEN <<[cells[k] EXCEPT !.size = @ + cells[k + 1].size]>> \o from[k + 2]
        ELSE <<cells[k]>> \o from[k + 1]
  IN  from[1]

\* One pass over the list that merges a cell with the next if they touch, and goes
\* on behind the two.
coalesce(cells) ==
  LET n == Len(cells)
      from[k \in 1 .. n + 1] ==
        IF k > n THEN <<>>
        ELSE IF k < n /\ cells[k].at + cells[k].size = cells[k + 1].at
        THEN <<[cells[k] EXCEPT !.size = @ + cells[k + 1].size]>> \o from[k + 2]
        ELSE <<cells[k]>> \o from[k + 1]
  IN  from[1]

\* A variant for the checks: put every cell at the head.
insert_first(cells, cell) == <<cell>> \o cells

\* A cell that goes to the head is not coalesced.
insert(cells, cell) ==
  IF cells = <<>> \/ cells[1].at > cell.at
  THEN <<cell>> \o cells
  ELSE LET ahead(c) == c.at >= cell.at
           pp == SelectInSubSeq(cells, 2, Len(cells), ahead)   \* 0 if there is none
       IN  coalesce(InsertAt(cells, IF pp = 0 THEN Len(cells) + 1 ELSE pp, cell))

\* Where mmap can put size bytes.
mmap(size) ==
  {at \in {PAGE * k : k \in 0 .. MaxPages - 1} :
     \A byte \in at .. at + size - 1 : byte \in Address \ mapped}

alloc_size(usize) ==
  IF usize + HEADER < CELL_SIZE THEN CELL_SIZE ELSE usize + HEADER

handed_out(at, size) == live' = [b \in DOMAIN live \cup {at} |->
                                   IF b = at THEN size ELSE live[b]]

\* Cut size bytes off cell, which is no longer in cells.
carve(cell, size, cells) ==
  LET rest == [at |-> cell.at + size, size |-> cell.size - size] IN
  /\ \/ rest.size >= CELL_SIZE /\ list' = insert(cells, rest) /\ UNCHANGED lost
     \/ rest.size < CELL_SIZE  /\ list' = cells /\ lost' = lost \cup CellBytes(rest)
  /\ handed_out(cell.at, size)

MallocLarge(size, at) ==
  /\ size > CHUNK_SIZE
  /\ at \in mmap(size)
  /\ mapped' = mapped \cup Bytes(at, size)
  /\ handed_out(at, size)
  /\ UNCHANGED <<list, lost>>

\* The first cell of the list that is large enough.
MallocFromList(size, at) ==
  LET fits(c) == c.size >= size
      k == SelectInSeq(list, fits)
  IN /\ size <= CHUNK_SIZE
     /\ k # 0
     /\ at = list[k].at
     /\ carve(list[k], size, RemoveAt(list, k))
     /\ UNCHANGED mapped

MallocFromChunk(size, at) ==
  /\ size <= CHUNK_SIZE
  /\ \A k \in 1 .. Len(list) : list[k].size < size
  /\ at \in mmap(CHUNK_SIZE)
  /\ mapped' = mapped \cup Bytes(at, CHUNK_SIZE)
  /\ carve([at |-> at, size |-> CHUNK_SIZE], size, list)

\* hw06_malloc(usize) returns the block at address at.
hw06_malloc(usize, at) ==
  LET size == alloc_size(usize) IN
  MallocLarge(size, at) \/ MallocFromList(size, at) \/ MallocFromChunk(size, at)

hw06_free(at) ==
  /\ live' = [b \in DOMAIN live \ {at} |-> live[b]]
  /\ \/ /\ live[at] > CHUNK_SIZE
        /\ mapped' = mapped \ Bytes(at, live[at])
        /\ UNCHANGED list
     \/ /\ live[at] <= CHUNK_SIZE
        /\ list' = insert(list, [at |-> at, size |-> live[at]])
        /\ UNCHANGED mapped
  /\ UNCHANGED lost

-----------------------------------------------------------------------------
\* The cells are in the order of their addresses, and no two overlap.
ListSorted ==
  \A k \in 1 .. Len(list) - 1 : list[k].at + list[k].size <= list[k + 1].at

Free == UNION {CellBytes(list[k]) : k \in 1 .. Len(list)}
Live == UNION {Bytes(at, live[at]) : at \in DOMAIN live}

\* Every byte obtained from mmap is in exactly one place after any sequence of
\* splits, merges and removals: in a block that was handed out, in a free cell, or
\* in a remainder that was given up.
MemoryAccounted ==
  /\ \A a, b \in DOMAIN live : a # b => Bytes(a, live[a]) \cap Bytes(b, live[b]) = {}
  /\ Live \cap Free = {} /\ Live \cap lost = {} /\ Free \cap lost = {}
  /\ mapped = Live \cup Free \cup lost

=============================================================================
