------------------------------- MODULE NuMem --------------------------------
(***************************************************************************)
(* The allocator of hw06 (nu_mem.c): a free list sorted by address, with a *)
(* counter beside it, over chunks and single blocks from mmap.  The state  *)
(* of the memory, its units and mmap are those of FreeList.  A search that *)
(* is not served by the first cell forgets the whole list and maps a new   *)
(* chunk; a block that is freed while the counter is high goes to munmap.  *)
(***************************************************************************)
EXTENDS BagsExt, Bags, FreeList

CONSTANTS
  Sizes,         \* what clients ask for
  INT32_SIGN,    \* 2^31
  FREE_LIMIT     \* 4: so many free blocks and nu_free starts to unmap

VARIABLES
  count,     \* nu_curr_free_blocks
  search,    \* the call of nu_malloc in find_memory: usize, or 0
  held,      \* the bag of the blocks that clients hold: the pointer, how much was asked for
  broken     \* a client has a block that is too short, memory in use was unmapped, or
             \* mmap has failed

nvars == <<list, live, mapped, lost, count, search, held, broken>>

NInit == Init /\ count = 0 /\ search = 0 /\ held = EmptyBag /\ broken = FALSE

\* The kernel maps and unmaps whole pages.
Pages(at, size) == Bytes(at, PAGE * ((size + PAGE - 1) \div PAGE))
Used(at)        == IF live[at] >= CHUNK_SIZE THEN Pages(at, live[at]) ELSE Bytes(at, live[at])

Touch(c, d) == c.at + c.size = d.at

\* coalesce(newCell): cell k takes in the next one, and is then taken in by the one
\* before it, where they touch.
merge_next(cells, k) ==
  IF k < Len(cells) /\ Touch(cells[k], cells[k + 1])
  THEN RemoveAt([cells EXCEPT ![k].size = @ + cells[k + 1].size], k + 1)
  ELSE cells

merge_both(cells, k) ==
  LET after == merge_next(cells, k) IN
  IF k > 1 /\ Touch(after[k - 1], after[k])
  THEN RemoveAt([after EXCEPT ![k - 1].size = @ + after[k].size], k)
  ELSE after

\* Put cell where its address belongs.  The counter goes up by one, and down by one for each merge.
add_to_free_list(cell) ==
  LET behind(c) == c.at > cell.at
      p == SelectInSeq(list, behind)                   \* 0 if there is none
      k == IF p = 0 THEN Len(list) + 1 ELSE p
  IN  /\ list' = merge_both(InsertAt(list, k, cell), k)
      /\ count' = count + Len(list') - Len(list)

idle == search = 0 /\ ~broken

\* What is kept of x in an int, as real_size is one.
int32(x) == ((x + INT32_SIGN) % (2 * INT32_SIGN)) - INT32_SIGN

with_header(usize) == int32(usize + HEADER)

real_size(usize) == IF with_header(usize) < CELL_SIZE THEN CELL_SIZE ELSE with_header(usize)

Available(size) == \E at \in mmap(size) : Pages(at, size) \cap mapped = {} /\ Pages(at, size) \subseteq Address
GetPages(at, size) ==
  /\ at \in mmap(size)
  /\ Pages(at, size) \cap mapped = {} /\ Pages(at, size) \subseteq Address
  /\ mapped' = mapped \cup Pages(at, size)

\* mmap's MAP_FAILED is used as an address.
MapFailed(size) ==
  /\ ~Available(size)
  /\ broken' = TRUE
  /\ UNCHANGED <<list, live, mapped, lost, count, search, held>>

\* A block of size bytes, header and all, for a client that asked for usize.
hand(at, usize, size) ==
  \/ /\ size >= usize + HEADER
     /\ held' = BagAdd(held, [at |-> at + HEADER, len |-> usize])
     /\ UNCHANGED broken
  \/ /\ size < usize + HEADER
     /\ broken' = TRUE
     /\ UNCHANGED held

MallocLarge64K(usize) ==
  LET size == with_header(usize) IN
  /\ size >= CHUNK_SIZE
  /\ \/ MapFailed(size)
     \/ \E at \in Address :
          /\ GetPages(at, size)
          /\ handed_out(at, size) /\ hand(at, usize, size)
          /\ UNCHANGED <<list, lost, count, search>>

nu_malloc(usize) ==
  /\ idle
  /\ \/ MallocLarge64K(usize)
     \/ /\ with_header(usize) < CHUNK_SIZE
        /\ search' = usize
        /\ UNCHANGED <<list, live, mapped, lost, count, held, broken>>

\* The list is empty: a chunk becomes the list, and is not counted.
add64K ==
  /\ search # 0 /\ ~broken
  /\ list = <<>>
  /\ \/ MapFailed(CHUNK_SIZE)
     \/ \E at \in Address :
          /\ GetPages(at, CHUNK_SIZE)
          /\ list' = <<[at |-> at, size |-> CHUNK_SIZE]>>
          /\ UNCHANGED <<live, lost, count, search, held, broken>>

Serves(cell, size) == cell.size - size > CELL_SIZE

\* A variant for the checks: call find_memory again with the list as it is.
forget_none ==
  /\ search # 0 /\ ~broken
  /\ list # <<>> /\ ~Serves(list[1], real_size(search))
  /\ UNCHANGED nvars

\* The first cell is too small: free_list = NULL, and find_memory calls itself.
forget_list ==
  /\ search # 0 /\ ~broken
  /\ list # <<>> /\ ~Serves(list[1], real_size(search))
  /\ list' = <<>>
  /\ lost' = lost \cup Free
  /\ UNCHANGED <<live, mapped, count, search, held, broken>>

\* The first cell is split: its rest takes its place in the list.
split_head ==
  LET size == real_size(search)  head == list[1] IN
  /\ search # 0 /\ ~broken
  /\ list # <<>> /\ Serves(head, size)
  /\ list' = [list EXCEPT ![1] = [at |-> head.at + size, size |-> head.size - size]]
  /\ handed_out(head.at, size) /\ hand(head.at, search, size)
  /\ search' = 0
  /\ UNCHANGED <<mapped, lost, count>>

\* munmap of a block: refused unless it starts a page, and then good for all of its pages.
munmap(at) ==
  LET pages  == Pages(at, live[at])
      others == Free \cup UNION {Used(a) : a \in DOMAIN live \ {at}}
  IN  \/ /\ at % PAGE # 0
         /\ lost' = lost \cup Bytes(at, live[at])
         /\ UNCHANGED <<mapped, broken>>
      \/ /\ at % PAGE = 0
         /\ mapped' = mapped \ pages /\ lost' = lost \ pages
         /\ broken' = (pages \cap others # {})

nu_free(b) ==
  LET at == b.at - HEADER IN
  /\ idle
  /\ held' = BagRemove(held, b)
  /\ live' = [a \in DOMAIN live \ {at} |-> live[a]]
  /\ \/ /\ live[at] >= CHUNK_SIZE \/ count > FREE_LIMIT
        /\ munmap(at)
        /\ UNCHANGED <<list, count>>
     \/ /\ live[at] < CHUNK_SIZE /\ count <= FREE_LIMIT
        /\ add_to_free_list([at |-> at, size |-> live[at]])
        /\ UNCHANGED <<mapped, lost, broken>>
  /\ UNCHANGED search

find_memory == add64K \/ forget_list \/ split_head

NNext == \/ \E usize \in Sizes : nu_malloc(usize)
         \/ find_memory
         \/ \E b \in BagToSet(held) : nu_free(b)

-----------------------------------------------------------------------------
\* add_to_free_list merges with both neighbours, so free cells that touch never stay apart.
ListCoalesced ==
  \A k \in 1 .. Len(list) - 1 : list[k].at + list[k].size < list[k + 1].at

\* Until the program has broken its memory, every mapped byte is in one place: with a
\* client, on the list, or forgotten by find_memory or by a munmap that was refused.
EveryByteInOnePlace ==
  LET InUse == UNION {Used(at) : at \in DOMAIN live} IN
  ~broken => /\ mapped = InUse \cup Free \cup lost
             /\ InUse \cap Free = {} /\ InUse \cap lost = {} /\ Free \cap lost = {}

\* The comment in nu_free: small blocks are freed by saving them for reuse, unless too many
\* full chunks have been freed.
SavesFreed ==
  LET FullChunks == {k \in DOMAIN list : list[k].size >= CHUNK_SIZE} IN
  \A at \in DOMAIN live \ DOMAIN live' :
    live[at] < CHUNK_SIZE /\ Cardinality(FullChunks) <= FREE_LIMIT
      => Bytes(at, live[at]) \subseteq Free'

\* find_memory, which calls itself for as long as the first cell does not do, ends.
SearchEnds == [](search # 0 => <>(search = 0 \/ broken))

=============================================================================
