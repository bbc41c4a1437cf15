-------------------------- MODULE AllocatorsProofs --------------------------
(***************************************************************************)
(* The allocators with one free list, for any sizes, pages and bounds: the *)
(* list stays in order, every byte is in one place, the layers of hw07     *)
(* know their blocks apart, and each of them is an allocator to its        *)
(* clients until the program breaks its memory.                            *)
(***************************************************************************)
EXTENDS Allocators, FunctionTheorems, SequenceTheorems, TLAPS

WF == INSTANCE WellFoundedInduction
FS == INSTANCE FiniteSetTheorems

-----------------------------------------------------------------------------
(***************************************************************************)
(* Lists of cells, and who has which bytes.                                *)
(***************************************************************************)
Cell == [at : Nat, size : Nat \ {0}]

\* Every cell ends before those that follow it begin.
Ordered(cells) ==
  \A j, k \in 1 .. Len(cells) : j < k => cells[j].at + cells[j].size <= cells[k].at

Good(cells)    == cells \in Seq(Cell) /\ Ordered(cells)
Covered(cells) == UNION {CellBytes(cells[k]) : k \in 1 .. Len(cells)}
Coalesced(cells) ==
  \A k \in 1 .. Len(cells) - 1 : cells[k].at + cells[k].size < cells[k + 1].at

\* real says how many bytes each block has, which need not be what its size field says.
Blocks(real) == UNION {Bytes(a, real[a]) : a \in DOMAIN real}

BlocksApart(real) ==
  /\ DOMAIN real \subseteq Nat
  /\ \A a \in DOMAIN real : real[a] \in Nat \ {0}
  /\ \A a, b \in DOMAIN real : a # b => Bytes(a, real[a]) \cap Bytes(b, real[b]) = {}

Disjoint(S, T) == S \cap T = {}

\* The mapped bytes are those of the free cells, of the blocks, those given up, and those
\* in hand.
Parted(cells, real, gone, hand_, map) ==
  /\ Good(cells)
  /\ BlocksApart(real)
  /\ Disjoint(Covered(cells), Blocks(real)) /\ Disjoint(Covered(cells), gone)
  /\ Disjoint(Blocks(real), gone)
  /\ Disjoint(hand_, Covered(cells)) /\ Disjoint(hand_, Blocks(real)) /\ Disjoint(hand_, gone)
  /\ map = Covered(cells) \cup Blocks(real) \cup gone \cup hand_

-----------------------------------------------------------------------------
(***************************************************************************)
(* The inductive invariant.                                                *)
(***************************************************************************)
\* The blocks of opt_alloc: those on the stack, and those that clients hold who asked for
\* no more than CELL_SIZE bytes.
Small == ToSet(stack) \cup {b.at - HEADER : b \in {c \in DOMAIN held : c.len <= CELL_SIZE}}

Layered == version \in {"opt_mem", "counted"}

\* Whole pages.
Ceiling(n) == PAGE * ((n + PAGE - 1) \div PAGE)

Paged(size) == IF size >= CHUNK_SIZE THEN Ceiling(size) ELSE size

Extent(a) ==
  CASE version = "nu_mem" -> Paged(live[a])
    [] Layered /\ a \in Small -> SMALL
    [] OTHER -> live[a]

Real == [a \in DOMAIN live |-> Extent(a)]

Shape ==
  /\ version \in {"opt_mem", "counted", "nu_malloc", "nu_mem"}
  /\ broken \in BOOLEAN
  /\ broken => moving = {} /\ version # "opt_mem"
  /\ version = "nu_mem" =>
       search = 0 \/ (search \in NuSizes /\ N!with_header(search) < CHUNK_SIZE)
  /\ version # "nu_mem" => search = 0
  /\ version # "nu_malloc" => moving = {}
  /\ ~Layered => stack = <<>>

InOrder == Good(list) /\ (version = "nu_mem" => Coalesced(list))

\* A size field counts at least the header, and only whole pages are as long as a chunk.
Headers ==
  /\ live = [a \in DOMAIN live |-> live[a]]
  /\ \A a \in DOMAIN live : live[a] \in Int
  /\ version \in {"nu_malloc", "nu_mem"} => \A a \in DOMAIN live : live[a] \in Nat \ {0}
  /\ version = "nu_mem" => \A a \in DOMAIN live : live[a] >= CHUNK_SIZE => a % PAGE = 0

\* Clients hold each block once, and a block is long enough for its header and for what
\* was asked for.
HeldOK ==
  /\ held = [b \in DOMAIN held |-> 1]
  /\ \A b \in DOMAIN held : b \in [at : Nat, len : Sizes \cup NuSizes]
  /\ \A b \in DOMAIN held :
       /\ b.at - HEADER \in DOMAIN live
       /\ Real[b.at - HEADER] >= b.len + HEADER
  /\ \A b, c \in DOMAIN held : b.at = c.at => b = c

\* What the layers above the free list know of their blocks.
Layers ==
  /\ \A b \in DOMAIN held : Layered /\ b.len > CELL_SIZE => live[b.at - HEADER] = b.len + HEADER
  /\ version = "opt_mem" => \A a \in Small : live[a] = SMALL

\* The block at the top of the counting stack counts the bytes on it.
Counted ==
  version = "counted" /\ stack # <<>> => live[Head(stack)] - Len(stack) * SMALL \in Garbage

Owned ==
  /\ stack \in Seq(Nat)
  /\ DOMAIN live = Held \cup ToSet(stack)
  /\ Held \cap ToSet(stack) = {}
  /\ \A j, k \in 1 .. Len(stack) : stack[j] = stack[k] => j = k

AllInv ==
  /\ Shape
  /\ InOrder
  /\ Counted
  /\ ~broken => /\ Headers /\ HeldOK /\ Layers /\ Owned
                /\ Parted(list, Real, lost, {}, mapped)

-----------------------------------------------------------------------------
(***************************************************************************)
(* Cells and lists.                                                        *)
(***************************************************************************)
LEMMA Constants ==
  /\ HEADER \in Nat \ {0} /\ CELL_SIZE \in Nat \ {0} /\ HEADER < CELL_SIZE
  /\ PAGE \in Nat \ {0} /\ CHUNK_SIZE \in Nat \ {0} /\ CELL_SIZE < CHUNK_SIZE
  /\ CHUNK_SIZE % PAGE = 0 /\ MaxPages \in Nat
  /\ Sizes \subseteq Nat \ {0} /\ NuSizes \subseteq Nat \ {0}
<1>1. HEADER \in Nat /\ CELL_SIZE \in Nat /\ CHUNK_SIZE \in Nat
  BY FreeListAssumption
<1> QED BY <1>1, FreeListAssumption, OptMemAssumption, AllocatorsAssumption

LEMMA InBytes ==
  ASSUME NEW a \in Nat, NEW m \in Nat
  PROVE  /\ \A x : x \in Bytes(a, m) <=> x \in Int /\ a <= x /\ x < a + m
         /\ m # 0 => a \in Bytes(a, m)
BY DEF Bytes

LEMMA Intervals ==
  ASSUME NEW a \in Nat, NEW m \in Nat \ {0}, NEW b \in Nat, NEW n \in Nat \ {0},
         Disjoint(Bytes(a, m), Bytes(b, n))
  PROVE  a + m <= b \/ b + n <= a
<1> SUFFICES ASSUME a + m > b, b + n > a PROVE FALSE
  OBVIOUS
<1>1. CASE a >= b
  <2>1. a \in Bytes(a, m) /\ a \in Bytes(b, n)
    BY <1>1 DEF Bytes
  <2> QED BY <2>1 DEF Disjoint
<1>2. CASE a < b
  <2>1. b \in Bytes(a, m) /\ b \in Bytes(b, n)
    BY <1>2 DEF Bytes
  <2> QED BY <2>1 DEF Disjoint
<1> QED BY <1>1, <1>2

LEMMA Outside ==
  ASSUME NEW a \in Nat, NEW m \in Nat, NEW b \in Nat, NEW n \in Nat,
         a + m <= b \/ b + n <= a
  PROVE  Disjoint(Bytes(a, m), Bytes(b, n))
<1>1. ASSUME NEW x \in Bytes(a, m), x \in Bytes(b, n) PROVE FALSE
  <2>1. x \in Int /\ a <= x /\ x < a + m /\ b <= x /\ x < b + n
    BY <1>1 DEF Bytes
  <2> QED BY <2>1
<1> QED BY <1>1 DEF Disjoint

LEMMA CellAt ==
  ASSUME NEW cells \in Seq(Cell), NEW k \in 1 .. Len(cells)
  PROVE  /\ cells[k] \in Cell /\ cells[k].at \in Nat /\ cells[k].size \in Nat \ {0}
         /\ cells[k] = [at |-> cells[k].at, size |-> cells[k].size]
<1>1. cells[k] \in Cell
  BY ElementOfSeq
<1> QED BY <1>1 DEF Cell

\* The first and the last byte of a cell show where it lies.
LEMMA CellOrder ==
  ASSUME NEW c \in Cell, NEW d \in Cell, Disjoint(CellBytes(c), CellBytes(d))
  PROVE  IF c.at < d.at THEN c.at + c.size <= d.at ELSE d.at + d.size <= c.at
BY Intervals DEF Cell, CellBytes

LEMMA CoveredBy ==
  ASSUME NEW cells, NEW x
  PROVE  x \in Covered(cells) <=> \E k \in 1 .. Len(cells) : x \in CellBytes(cells[k])
BY DEF Covered

LEMMA EmptyList == Good(<<>>) /\ Covered(<<>>) = {} /\ Coalesced(<<>>)
BY DEF Good, Ordered, Covered, Coalesced

LEMMA OneCell ==
  ASSUME NEW c \in Cell
  PROVE  Good(<<c>>) /\ Covered(<<c>>) = CellBytes(c) /\ Coalesced(<<c>>)
<1>1. <<c>> \in Seq(Cell) /\ Len(<<c>>) = 1 /\ <<c>>[1] = c
  OBVIOUS
<1> QED BY <1>1 DEF Good, Ordered, Covered, Coalesced

\* Two cells of a list share no byte.
LEMMA CellsApart ==
  ASSUME NEW cells, Good(cells), NEW j \in 1 .. Len(cells), NEW k \in 1 .. Len(cells), j # k
  PROVE  Disjoint(CellBytes(cells[j]), CellBytes(cells[k]))
<1>1. /\ cells[j].at \in Nat /\ cells[j].size \in Nat
      /\ cells[k].at \in Nat /\ cells[k].size \in Nat
  BY CellAt DEF Good
<1>2. cells[j].at + cells[j].size <= cells[k].at \/ cells[k].at + cells[k].size <= cells[j].at
  BY DEF Good, Ordered
<1> QED BY <1>1, <1>2, Outside DEF CellBytes

\* What t is when an element was taken out of s, or put in, element by element.
IsRemoval(t, s, k) ==
  /\ Len(t) = Len(s) - 1
  /\ \A i \in 1 .. Len(s) - 1 : t[i] = IF i < k THEN s[i] ELSE s[i + 1]

IsInsertion(t, s, k, e) ==
  /\ Len(t) = Len(s) + 1
  /\ \A i \in 1 .. Len(s) + 1 :
       t[i] = IF i < k THEN s[i] ELSE IF i = k THEN e ELSE s[i - 1]

LEMMA Removed ==
  ASSUME NEW S, NEW s \in Seq(S), NEW k \in 1 .. Len(s)
  PROVE  RemoveAt(s, k) \in Seq(S) /\ IsRemoval(RemoveAt(s, k), s, k)
<1> DEFINE front == SubSeq(s, 1, k - 1)  back == SubSeq(s, k + 1, Len(s))
<1>1. /\ front \in Seq(S) /\ Len(front) = k - 1
      /\ \A i \in 1 .. k - 1 : front[i] = s[i]
  <2>1. \A i \in 1 .. k - 1 : s[i] \in S
    OBVIOUS
  <2>2. k - 1 \in Int /\ k - 1 >= 0 /\ \A i \in 1 .. (k - 1) - 1 + 1 : i \in 1 .. k - 1
    OBVIOUS
  <2> QED BY <2>1, <2>2, SubSeqProperties
<1>2. /\ back \in Seq(S) /\ Len(back) = Len(s) - k
      /\ \A i \in 1 .. Len(s) - k : back[i] = s[i + k]
  <2>1. \A i \in k + 1 .. Len(s) : s[i] \in S
    OBVIOUS
  <2>2. /\ back \in Seq(S)
        /\ Len(back) = IF k + 1 <= Len(s) THEN Len(s) - (k + 1) + 1 ELSE 0
        /\ \A i \in 1 .. Len(s) - (k + 1) + 1 : back[i] = s[(k + 1) + i - 1]
    BY <2>1, SubSeqProperties
  <2>3. ASSUME NEW i \in 1 .. Len(s) - k PROVE back[i] = s[i + k]
    <3>1. (k + 1) + i - 1 = i + k /\ i \in 1 .. Len(s) - (k + 1) + 1
      OBVIOUS
    <3> QED BY <2>2, <3>1
  <2> QED BY <2>2, <2>3
<1>3. RemoveAt(s, k) = front \o back
  BY DEF RemoveAt
<1> HIDE DEF front, back
<1>4. Len(s) \in Nat
  OBVIOUS
<1>5. /\ front \o back \in Seq(S) /\ Len(front \o back) = Len(front) + Len(back)
      /\ \A i \in 1 .. Len(front) + Len(back) :
           (front \o back)[i] = IF i <= Len(front) THEN front[i] ELSE back[i - Len(front)]
  BY <1>1, <1>2, ConcatProperties
<1>7. Len(front) + Len(back) = Len(s) - 1
  BY <1>1, <1>2, <1>4
<1>6. ASSUME NEW i \in 1 .. Len(s) - 1
      PROVE  (front \o back)[i] = IF i < k THEN s[i] ELSE s[i + 1]
  <2>1. CASE i < k
    BY <1>1, <1>4, <1>5, <1>7, <2>1
  <2>2. CASE i >= k
    <3>1. (front \o back)[i] = back[i - (k - 1)]
      BY <1>1, <1>4, <1>5, <1>7, <2>2
    <3>2. i - (k - 1) \in 1 .. Len(s) - k
      BY <1>4, <2>2
    <3>3. back[i - (k - 1)] = s[(i - (k - 1)) + k]
      BY <1>2, <3>2
    <3>4. (i - (k - 1)) + k = i + 1
      OBVIOUS
    <3> QED BY <2>2, <3>1, <3>3, <3>4
  <2>3. i < k \/ i >= k
    <3>1. i \in Int /\ k \in Int
      OBVIOUS
    <3> QED BY <3>1
  <2> QED BY <2>1, <2>2, <2>3
<1> QED BY <1>3, <1>5, <1>6, <1>7 DEF IsRemoval

LEMMA Inserted ==
  ASSUME NEW S, NEW s \in Seq(S), NEW e \in S, NEW k \in 1 .. Len(s) + 1
  PROVE  InsertAt(s, k, e) \in Seq(S) /\ IsInsertion(InsertAt(s, k, e), s, k, e)
<1> DEFINE front == SubSeq(s, 1, k - 1)  back == SubSeq(s, k, Len(s))  mid == front \o <<e>>
<1>1. /\ front \in Seq(S) /\ Len(front) = k - 1
      /\ \A i \in 1 .. k - 1 : front[i] = s[i]
  <2>1. \A i \in 1 .. k - 1 : s[i] \in S
    OBVIOUS
  <2>2. k - 1 \in Int /\ k - 1 >= 0 /\ \A i \in 1 .. (k - 1) - 1 + 1 : i \in 1 .. k - 1
    OBVIOUS
  <2> QED BY <2>1, <2>2, SubSeqProperties
<1>2. /\ back \in Seq(S) /\ Len(back) = Len(s) - (k - 1)
      /\ \A i \in 1 .. Len(s) - (k - 1) : back[i] = s[i + (k - 1)]
  <2>1. \A i \in k .. Len(s) : s[i] \in S
    OBVIOUS
  <2>2. /\ back \in Seq(S)
        /\ Len(back) = IF k <= Len(s) THEN Len(s) - k + 1 ELSE 0
        /\ \A i \in 1 .. Len(s) - k + 1 : back[i] = s[k + i - 1]
    BY <2>1, SubSeqProperties
  <2>3. ASSUME NEW i \in 1 .. Len(s) - (k - 1) PROVE back[i] = s[i + (k - 1)]
    <3>1. k + i - 1 = i + (k - 1) /\ i \in 1 .. Len(s) - k + 1
      OBVIOUS
    <3> QED BY <2>2, <3>1
  <2> QED BY <2>2, <2>3
<1>3. InsertAt(s, k, e) = mid \o back
  BY DEF InsertAt
<1>4. Len(s) \in Nat
  OBVIOUS
<1> HIDE DEF front, back
<1>5. /\ mid \in Seq(S) /\ Len(mid) = k
      /\ \A i \in 1 .. k : mid[i] = IF i < k THEN s[i] ELSE e
  <2>1. <<e>> \in Seq(S) /\ Len(<<e>>) = 1 /\ <<e>>[1] = e
    OBVIOUS
  <2>2. /\ mid \in Seq(S) /\ Len(mid) = Len(front) + 1
        /\ \A i \in 1 .. Len(front) + 1 :
             mid[i] = IF i <= Len(front) THEN front[i] ELSE <<e>>[i - Len(front)]
    BY <1>1, <2>1, ConcatProperties
  <2>3. ASSUME NEW i \in 1 .. k PROVE mid[i] = IF i < k THEN s[i] ELSE e
    BY <1>1, <2>1, <2>2
  <2> QED BY <1>1, <2>2, <2>3
<1> HIDE DEF mid
<1>6. /\ mid \o back \in Seq(S) /\ Len(mid \o back) = Len(mid) + Len(back)
      /\ \A i \in 1 .. Len(mid) + Len(back) :
           (mid \o back)[i] = IF i <= Len(mid) THEN mid[i] ELSE back[i - Len(mid)]
  BY <1>5, <1>2, ConcatProperties
<1>8. Len(mid) + Len(back) = Len(s) + 1
  BY <1>5, <1>2, <1>4
<1>7. ASSUME NEW i \in 1 .. Len(s) + 1
      PROVE  (mid \o back)[i] = IF i < k THEN s[i] ELSE IF i = k THEN e ELSE s[i - 1]
  <2>1. CASE i <= k
    BY <1>5, <1>4, <1>6, <1>8, <2>1
  <2>2. CASE i > k
    <3>1. (mid \o back)[i] = back[i - k]
      BY <1>5, <1>4, <1>6, <1>8, <2>2
    <3>2. i - k \in 1 .. Len(s) - (k - 1)
      BY <1>4, <2>2
    <3>3. back[i - k] = s[(i - k) + (k - 1)]
      BY <1>2, <3>2
    <3>4. (i - k) + (k - 1) = i - 1
      OBVIOUS
    <3> QED BY <2>2, <3>1, <3>3, <3>4
  <2>3. i <= k \/ i > k
    <3>1. i \in Int /\ k \in Int
      OBVIOUS
    <3> QED BY <3>1
  <2> QED BY <2>1, <2>2, <2>3
<1> QED BY <1>3, <1>6, <1>7, <1>8 DEF IsInsertion

\* A list without one of its cells.
LEMMA Taken ==
  ASSUME NEW cells, Good(cells), NEW k \in 1 .. Len(cells)
  PROVE  /\ Good(RemoveAt(cells, k))
         /\ Covered(RemoveAt(cells, k)) = Covered(cells) \ CellBytes(cells[k])
<1>0. cells \in Seq(Cell) /\ Ordered(cells) /\ Len(cells) \in Nat
  BY DEF Good
<1> PICK rest : rest = RemoveAt(cells, k)
  OBVIOUS
<1>1. /\ rest \in Seq(Cell) /\ Len(rest) = Len(cells) - 1
      /\ \A i \in 1 .. Len(cells) - 1 : rest[i] = IF i < k THEN cells[i] ELSE cells[i + 1]
  <2>1. rest \in Seq(Cell) /\ IsRemoval(rest, cells, k)
    BY <1>0, Removed
  <2> QED BY <2>1 DEF IsRemoval
<1>2. ASSUME NEW i \in 1 .. Len(rest), NEW j \in 1 .. Len(rest), i < j
      PROVE  rest[i].at + rest[i].size <= rest[j].at
  <2> PICK p, q : p = (IF i < k THEN i ELSE i + 1) /\ q = (IF j < k THEN j ELSE j + 1)
    OBVIOUS
  <2>1. p \in 1 .. Len(cells) /\ q \in 1 .. Len(cells) /\ p < q
    BY <1>0, <1>1, <1>2
  <2>2. rest[i] = cells[p] /\ rest[j] = cells[q]
    BY <1>1
  <2> QED BY <1>0, <2>1, <2>2 DEF Ordered
<1>3. ASSUME NEW x \in CellBytes(cells[k]), NEW i \in 1 .. Len(rest)
      PROVE  x \notin CellBytes(rest[i])
  <2> PICK p : p = (IF i < k THEN i ELSE i + 1)
    OBVIOUS
  <2>1. p \in 1 .. Len(cells) /\ p # k /\ rest[i] = cells[p]
    BY <1>0, <1>1
  <2> QED BY <2>1, CellsApart DEF Disjoint
<1>4. ASSUME NEW i \in 1 .. Len(cells), i # k
      PROVE  \E j \in 1 .. Len(rest) : rest[j] = cells[i]
  <2> PICK j : j = IF i < k THEN i ELSE i - 1
    OBVIOUS
  <2>1. j \in 1 .. Len(rest) /\ rest[j] = cells[i]
    BY <1>0, <1>1, <1>4
  <2> QED BY <2>1
<1>5. ASSUME NEW i \in 1 .. Len(rest) PROVE \E j \in 1 .. Len(cells) : rest[i] = cells[j]
  BY <1>0, <1>1
<1>6. Covered(rest) = Covered(cells) \ CellBytes(cells[k])
  BY <1>3, <1>4, <1>5 DEF Covered
<1> QED BY <1>1, <1>2, <1>6 DEF Good, Ordered

\* A cell goes between those that lie before it and those that lie behind it.
LEMMA PutBetween ==
  ASSUME NEW cells, Good(cells), NEW c \in Cell, NEW k \in 1 .. Len(cells) + 1,
         \A i \in 1 .. Len(cells) : i < k => cells[i].at + cells[i].size <= c.at,
         \A i \in 1 .. Len(cells) : i >= k => c.at + c.size <= cells[i].at
  PROVE  /\ Good(InsertAt(cells, k, c))
         /\ Covered(InsertAt(cells, k, c)) = Covered(cells) \cup CellBytes(c)
<1>0. cells \in Seq(Cell) /\ Ordered(cells) /\ Len(cells) \in Nat
  BY DEF Good
<1> PICK more : more = InsertAt(cells, k, c)
  OBVIOUS
<1>1. /\ more \in Seq(Cell) /\ Len(more) = Len(cells) + 1
      /\ \A i \in 1 .. Len(cells) + 1 :
           more[i] = IF i < k THEN cells[i] ELSE IF i = k THEN c ELSE cells[i - 1]
  <2>1. more \in Seq(Cell) /\ IsInsertion(more, cells, k, c)
    BY <1>0, Inserted
  <2> QED BY <2>1 DEF IsInsertion
<1>2. ASSUME NEW i \in 1 .. Len(more), NEW j \in 1 .. Len(more), i < j
      PROVE  more[i].at + more[i].size <= more[j].at
  <2>1. CASE i = k
    <3>m. PICK m : m = j - 1
      OBVIOUS
    <3>1. m \in 1 .. Len(cells) /\ m >= k /\ more[i] = c /\ more[j] = cells[m]
      BY <1>0, <1>1, <1>2, <2>1, <3>m
    <3>2. c.at + c.size <= cells[m].at
      BY <3>1
    <3> QED BY <3>1, <3>2
  <2>2. CASE j = k
    <3>1. i \in 1 .. Len(cells) /\ i < k /\ more[j] = c /\ more[i] = cells[i]
      BY <1>0, <1>1, <1>2, <2>2
    <3> QED BY <3>1
  <2>3. CASE i # k /\ j # k
    <3> PICK p, q : p = (IF i < k THEN i ELSE i - 1) /\ q = (IF j < k THEN j ELSE j - 1)
      OBVIOUS
    <3>1. p \in 1 .. Len(cells) /\ q \in 1 .. Len(cells) /\ p < q
      BY <1>0, <1>1, <1>2, <2>3
    <3>2. more[i] = cells[p] /\ more[j] = cells[q]
      BY <1>1, <2>3
    <3> QED BY <1>0, <3>1, <3>2 DEF Ordered
  <2> QED BY <2>1, <2>2, <2>3
<1>3. ASSUME NEW i \in 1 .. Len(more)
      PROVE  more[i] = c \/ \E j \in 1 .. Len(cells) : more[i] = cells[j]
  <2>1. CASE i < k   BY <1>0, <1>1, <2>1
  <2>2. CASE i > k
    <3>1. i - 1 \in 1 .. Len(cells) /\ more[i] = cells[i - 1]
      BY <1>0, <1>1, <2>2
    <3> QED BY <3>1
  <2>3. CASE i = k   BY <1>0, <1>1, <2>3
  <2> QED BY <2>1, <2>2, <2>3, <1>0, <1>1
<1>4. ASSUME NEW i \in 1 .. Len(cells)
      PROVE  \E j \in 1 .. Len(more) : more[j] = cells[i]
  <2> PICK j : j = IF i < k THEN i ELSE i + 1
    OBVIOUS
  <2>1. j \in 1 .. Len(more) /\ more[j] = cells[i]
    BY <1>0, <1>1
  <2> QED BY <2>1
<1>5. k \in 1 .. Len(more) /\ more[k] = c
  BY <1>0, <1>1
<1>6. Covered(more) = Covered(cells) \cup CellBytes(c)
  BY <1>3, <1>4, <1>5 DEF Covered
<1> QED BY <1>1, <1>2, <1>6 DEF Good, Ordered

\* Two neighbours that touch become one cell.
Joined(cells, j) == RemoveAt([cells EXCEPT ![j].size = @ + cells[j + 1].size], j + 1)

LEMMA JoinedIs ==
  ASSUME NEW cells \in Seq(Cell), NEW j \in 1 .. Len(cells) - 1
  PROVE  /\ Joined(cells, j) \in Seq(Cell) /\ Len(Joined(cells, j)) = Len(cells) - 1
         /\ Joined(cells, j)[j] = [at |-> cells[j].at, size |-> cells[j].size + cells[j + 1].size]
         /\ \A i \in 1 .. Len(cells) - 1 :
              i # j => Joined(cells, j)[i] = IF i < j THEN cells[i] ELSE cells[i + 1]
<1>n. PICK n : n = Len(cells)
  OBVIOUS
<1>0. n \in Nat /\ j \in 1 .. n - 1 /\ j \in 1 .. n /\ j + 1 \in 1 .. n
  BY <1>n
<1>c. PICK c, d, e : c = cells[j] /\ d = cells[j + 1] /\ e = [c EXCEPT !.size = @ + d.size]
  OBVIOUS
<1>1. c \in Cell /\ d \in Cell
  BY <1>0, <1>n, <1>c, ElementOfSeq
<1>2. e \in Cell /\ e = [at |-> c.at, size |-> c.size + d.size]
  <2>1. ASSUME NEW a \in Nat, NEW m \in Nat \ {0}, NEW b \in Nat, NEW l \in Nat \ {0},
               c = [at |-> a, size |-> m], d = [at |-> b, size |-> l]
        PROVE  e \in Cell /\ e = [at |-> c.at, size |-> c.size + d.size]
    <3>1. c.at = a /\ c.size = m /\ d.size = l
      BY <2>1
    <3>2. e = [at |-> a, size |-> m + l]
      BY <2>1, <3>1, <1>c, Zenon
    <3>3. m + l \in Nat \ {0}
      OBVIOUS
    <3> QED BY <3>1, <3>2, <3>3 DEF Cell
  <2> QED BY <1>1, <2>1 DEF Cell
<1>s. PICK s : s = [cells EXCEPT ![j] = e]
  OBVIOUS
<1>3. s \in Seq(Cell) /\ Len(s) = n
      /\ \A i \in 1 .. n : s[i] = IF i = j THEN e ELSE cells[i]
  BY <1>0, <1>2, <1>n, <1>s, ExceptSeq
<1>4. Joined(cells, j) = RemoveAt(s, j + 1)
  BY <1>c, <1>s DEF Joined
<1>t. PICK t : t = RemoveAt(s, j + 1)
  OBVIOUS
<1>5. /\ t \in Seq(Cell) /\ Len(t) = n - 1
      /\ \A i \in 1 .. n - 1 : t[i] = IF i < j + 1 THEN s[i] ELSE s[i + 1]
  <2>1. j + 1 \in 1 .. Len(s)
    BY <1>0, <1>3
  <2>2. /\ t \in Seq(Cell) /\ Len(t) = Len(s) - 1
        /\ \A i \in 1 .. Len(s) - 1 : t[i] = IF i < j + 1 THEN s[i] ELSE s[i + 1]
    <3>1. s \in Seq(Cell)
      BY <1>3
    <3>2. t \in Seq(Cell) /\ IsRemoval(t, s, j + 1)
      BY <2>1, <3>1, <1>t, Removed
    <3> QED BY <3>2 DEF IsRemoval
  <2>3. Len(s) = n
    BY <1>3
  <2> QED BY <2>2, <2>3
<1>6. t[j] = e
  <2>1. j < j + 1
    BY <1>0
  <2>2. t[j] = s[j]
    BY <1>0, <1>5, <2>1
  <2>3. s[j] = e
    BY <1>0, <1>3
  <2> QED BY <2>2, <2>3
<1>7. ASSUME NEW i \in 1 .. n - 1, i # j
      PROVE  t[i] = IF i < j THEN cells[i] ELSE cells[i + 1]
  <2>0. i \in Int /\ j \in Int /\ i \in 1 .. n
    BY <1>0
  <2>1. CASE i < j
    <3>1. i < j + 1
      BY <2>0, <2>1
    <3>2. t[i] = s[i]
      BY <1>5, <3>1
    <3> QED BY <1>3, <1>7, <2>0, <2>1, <3>2
  <2>2. CASE i > j
    <3>1. i + 1 \in 1 .. n /\ ~(i < j + 1) /\ i + 1 # j
      BY <1>0, <2>2
    <3>2. t[i] = s[i + 1]
      BY <1>5, <3>1
    <3>3. s[i + 1] = cells[i + 1]
      BY <1>3, <3>1
    <3>4. ~(i < j)
      BY <2>0, <2>2
    <3> QED BY <3>2, <3>3, <3>4
  <2> QED BY <2>0, <2>1, <2>2, <1>7
<1> QED BY <1>n, <1>c, <1>t, <1>2, <1>4, <1>5, <1>6, <1>7

LEMMA JoinedKeeps ==
  ASSUME NEW cells, Good(cells), NEW j \in 1 .. Len(cells) - 1,
         cells[j].at + cells[j].size = cells[j + 1].at
  PROVE  Good(Joined(cells, j)) /\ Covered(Joined(cells, j)) = Covered(cells)
<1>0. cells \in Seq(Cell) /\ Ordered(cells) /\ Len(cells) \in Nat
  BY DEF Good
<1>t. PICK t : t = Joined(cells, j)
  OBVIOUS
<1>1. /\ t \in Seq(Cell) /\ Len(t) = Len(cells) - 1
      /\ t[j] = [at |-> cells[j].at, size |-> cells[j].size + cells[j + 1].size]
      /\ \A i \in 1 .. Len(cells) - 1 :
           i # j => t[i] = IF i < j THEN cells[i] ELSE cells[i + 1]
  BY <1>0, <1>t, JoinedIs
<1>2. /\ cells[j].at \in Nat /\ cells[j].size \in Nat /\ cells[j].size > 0
      /\ cells[j + 1].at \in Nat /\ cells[j + 1].size \in Nat
      /\ j \in 1 .. Len(cells) /\ j + 1 \in 1 .. Len(cells)
  <2>1. j \in 1 .. Len(cells) /\ j + 1 \in 1 .. Len(cells)
    BY <1>0
  <2>2. /\ cells[j].at \in Nat /\ cells[j].size \in Nat \ {0}
        /\ cells[j + 1].at \in Nat /\ cells[j + 1].size \in Nat \ {0}
    BY <2>1, <1>0, CellAt
  <2> QED BY <2>1, <2>2
<1>3. t[j].at = cells[j].at /\ t[j].at + t[j].size = cells[j + 1].at + cells[j + 1].size
  <2>1. t[j].at = cells[j].at /\ t[j].size = cells[j].size + cells[j + 1].size
    BY <1>1
  <2> QED BY <1>2, <2>1
<1>4. ASSUME NEW i \in 1 .. Len(t), NEW k \in 1 .. Len(t), i < k
      PROVE  t[i].at + t[i].size <= t[k].at
  <2>1. CASE i = j
    <3>1. k + 1 \in 1 .. Len(cells) /\ j + 1 < k + 1 /\ t[k] = cells[k + 1]
      BY <1>0, <1>1, <1>4, <2>1
    <3>2. cells[j + 1].at + cells[j + 1].size <= cells[k + 1].at
      BY <1>0, <1>2, <3>1 DEF Ordered
    <3> QED BY <1>3, <2>1, <3>1, <3>2
  <2>2. CASE k = j
    <3>1. i \in 1 .. Len(cells) /\ i < j /\ i \in 1 .. Len(cells) - 1 /\ i # j
      BY <1>0, <1>1, <1>4, <2>2
    <3>3. t[i] = cells[i]
      BY <1>1, <3>1
    <3>2. cells[i].at + cells[i].size <= cells[j].at
      BY <1>0, <1>2, <3>1 DEF Ordered
    <3> QED BY <1>3, <2>2, <3>1, <3>2, <3>3
  <2>3. CASE i # j /\ k # j
    <3> PICK p, q : p = (IF i < j THEN i ELSE i + 1) /\ q = (IF k < j THEN k ELSE k + 1)
      OBVIOUS
    <3>1. p \in 1 .. Len(cells) /\ q \in 1 .. Len(cells) /\ p < q
      BY <1>0, <1>1, <1>4, <2>3
    <3>2. t[i] = cells[p] /\ t[k] = cells[q]
      BY <1>1, <2>3
    <3> QED BY <1>0, <3>1, <3>2 DEF Ordered
  <2> QED BY <2>1, <2>2, <2>3
<1>5. CellBytes(t[j]) = CellBytes(cells[j]) \cup CellBytes(cells[j + 1])
  <2>1. CellBytes(t[j]) = Bytes(cells[j].at, cells[j].size + cells[j + 1].size)
    BY <1>1 DEF CellBytes
  <2>2. Bytes(cells[j].at, cells[j].size + cells[j + 1].size)
          = Bytes(cells[j].at, cells[j].size) \cup Bytes(cells[j + 1].at, cells[j + 1].size)
    <3>3. PICK a, m, b, l : /\ a = cells[j].at /\ m = cells[j].size
                          /\ b = cells[j + 1].at /\ l = cells[j + 1].size
      OBVIOUS
    <3>1. a \in Nat /\ m \in Nat /\ b \in Nat /\ l \in Nat /\ a + m = b
      BY <1>2, <3>3
    <3>y. PICK s : s = m + l /\ s \in Nat
      BY <3>1
    <3>2. Bytes(a, s) = Bytes(a, m) \cup Bytes(b, l)
      <4>1. \A x : x \in Bytes(a, s) <=> x \in Bytes(a, m) \cup Bytes(b, l)
        BY <3>1, <3>y DEF Bytes
      <4> QED BY <4>1
    <3>4. s = cells[j].size + cells[j + 1].size
      BY <3>3, <3>y
    <3> QED BY <3>2, <3>3, <3>4
  <2> QED BY <2>1, <2>2 DEF CellBytes
<1>6. ASSUME NEW i \in 1 .. Len(t), i # j
      PROVE  \E k \in 1 .. Len(cells) : t[i] = cells[k]
  <2> PICK k : k = IF i < j THEN i ELSE i + 1
    OBVIOUS
  <2>1. k \in 1 .. Len(cells)
    BY <1>0, <1>1
  <2>2. t[i] = cells[k]
    BY <1>1, <1>6
  <2> QED BY <2>1, <2>2
<1>7. ASSUME NEW i \in 1 .. Len(cells), i # j, i # j + 1
      PROVE  \E k \in 1 .. Len(t) : k # j /\ t[k] = cells[i]
  <2> PICK k : k = IF i < j THEN i ELSE i - 1
    OBVIOUS
  <2>1. k \in 1 .. Len(t) /\ k # j /\ t[k] = cells[i]
    BY <1>0, <1>1, <1>7
  <2> QED BY <2>1
<1>8. Covered(t) = Covered(cells)
  <2>1. ASSUME NEW x \in Covered(t) PROVE x \in Covered(cells)
    <3> PICK i \in 1 .. Len(t) : x \in CellBytes(t[i])
      BY CoveredBy
    <3>1. CASE i = j   BY <3>1, <1>2, <1>5, CoveredBy
    <3>2. CASE i # j   BY <3>2, <1>6, CoveredBy
    <3> QED BY <3>1, <3>2
  <2>2. ASSUME NEW x \in Covered(cells) PROVE x \in Covered(t)
    <3> PICK i \in 1 .. Len(cells) : x \in CellBytes(cells[i])
      BY CoveredBy
    <3>0. j \in 1 .. Len(t)
      BY <1>0, <1>1
    <3>1. CASE i = j \/ i = j + 1   BY <3>0, <3>1, <1>5, CoveredBy
    <3>2. CASE i # j /\ i # j + 1   BY <3>2, <1>7, CoveredBy
    <3> QED BY <3>1, <3>2
  <2> QED BY <2>1, <2>2
<1> QED BY <1>t, <1>1, <1>4, <1>8 DEF Good, Ordered

LEMMA Prepended ==
  ASSUME NEW s, Good(s), NEW c \in Cell,
         \A i \in 1 .. Len(s) : c.at + c.size <= s[i].at
  PROVE  /\ Good(<<c>> \o s) /\ Covered(<<c>> \o s) = Covered(s) \cup CellBytes(c)
         /\ <<c>> \o s = InsertAt(s, 1, c)
<1>0. s \in Seq(Cell) /\ Len(s) \in Nat
  BY DEF Good
<1>1. SubSeq(s, 1, 0) = <<>> /\ SubSeq(s, 1, Len(s)) = s
  BY <1>0, SubSeqEmpty, SubSeqFull
<1>2. <<>> \o <<c>> = <<c>>
  <2>1. <<c>> \in Seq(Cell)
    OBVIOUS
  <2> QED BY <2>1, ConcatEmptySeq
<1>3. <<c>> \o s = InsertAt(s, 1, c)
  BY <1>1, <1>2 DEF InsertAt
<1>4. 1 \in 1 .. Len(s) + 1 /\ \A i \in 1 .. Len(s) : ~(i < 1)
  BY <1>0
<1>5. Good(InsertAt(s, 1, c)) /\ Covered(InsertAt(s, 1, c)) = Covered(s) \cup CellBytes(c)
  BY <1>4, PutBetween
<1> QED BY <1>3, <1>5

-----------------------------------------------------------------------------
(***************************************************************************)
(* coalesce, the one recursive operator.                                   *)
(***************************************************************************)
LEMMA Least ==
  ASSUME NEW S \in SUBSET Nat, S # {}
  PROVE  \E n \in S : \A m \in S : ~(m < n)
<1> PICK n \in S : \A m \in S : <<m, n>> \notin WF!OpToRel(<, Nat)
  BY WF!NatLessThanWellFounded, WF!WFMin
<1>2. \A m \in S : ~(m < n)
  BY DEF WF!OpToRel
<1> QED BY <1>2

\* What coalesce makes of the cells from k on, if g is what it makes of those behind.
Pass(cells, g, k) ==
  IF k > Len(cells) THEN <<>>
  ELSE IF k < Len(cells) /\ cells[k].at + cells[k].size = cells[k + 1].at
  THEN <<[cells[k] EXCEPT !.size = @ + cells[k + 1].size]>> \o g[k + 2]
  ELSE <<cells[k]>> \o g[k + 1]

Passed(cells, g, m) == g = [k \in m .. Len(cells) + 1 |-> Pass(cells, g, k)]

LEMMA PassExists ==
  ASSUME NEW cells \in Seq(Cell)
  PROVE  \E g : Passed(cells, g, 1)
<1>n. PICK n : n = Len(cells)
  OBVIOUS
<1>0. n \in Nat
  BY <1>n
<1> DEFINE Bad == {i \in 0 .. n : ~ \E g : Passed(cells, g, n + 1 - i)}
<1>1. ASSUME Bad # {} PROVE FALSE
  <2>0. Bad \in SUBSET Nat
    BY <1>0
  <2>1. PICK i \in Bad : \A m \in Bad : ~(m < i)
    BY <1>1, <2>0, Least
  <2>m. PICK m : m = n + 1 - i
    OBVIOUS
  <2>2. i \in 0 .. n /\ m \in 1 .. n + 1 /\ ~ \E g : Passed(cells, g, m)
    BY <1>0, <2>m
  <2>3. CASE m = n + 1
    <3>g. PICK g : g = [k \in m .. n + 1 |-> <<>>]
      OBVIOUS
    <3>1. \A k \in m .. n + 1 : Pass(cells, g, k) = <<>>
      BY <1>0, <1>n, <2>3 DEF Pass
    <3>2. g = [k \in m .. n + 1 |-> Pass(cells, g, k)]
      BY <3>1, <3>g
    <3> QED BY <3>2, <2>2, <1>n DEF Passed
  <2>4. CASE m # n + 1
    <3>1. m \in 1 .. n /\ i - 1 \in 0 .. n /\ m + 1 = n + 1 - (i - 1) /\ i - 1 < i
      BY <1>0, <2>2, <2>4, <2>m
    <3>2. i - 1 \notin Bad
      BY <2>1, <3>1
    <3>3. PICK g : Passed(cells, g, m + 1)
      BY <3>1, <3>2
    <3>4. /\ DOMAIN g = m + 1 .. n + 1
          /\ \A k \in m + 1 .. n + 1 : g[k] = Pass(cells, g, k)
      BY <3>3, <1>n DEF Passed
    <3>h. PICK h : h = [k \in m .. n + 1 |-> IF k = m THEN Pass(cells, g, m) ELSE g[k]]
      OBVIOUS
    <3>5. /\ DOMAIN h = m .. n + 1 /\ h = [k \in m .. n + 1 |-> h[k]]
          /\ h[m] = Pass(cells, g, m) /\ \A k \in m + 1 .. n + 1 : h[k] = g[k]
      BY <3>h, <3>1, <1>0
    <3>6. ASSUME NEW k \in m .. n + 1 PROVE Pass(cells, h, k) = Pass(cells, g, k)
      <4>0. k \in Int /\ m \in Int
        BY <3>1, <1>0
      <4>1. k <= n => h[k + 1] = g[k + 1]
        <5>1. k <= n => k + 1 \in m + 1 .. n + 1
          BY <4>0, <1>0
        <5> QED BY <5>1, <3>5
      <4>2. k < n => h[k + 2] = g[k + 2]
        <5>1. k < n => k + 2 \in m + 1 .. n + 1
          BY <4>0, <1>0
        <5> QED BY <5>1, <3>5
      <4>3. CASE k > n
        BY <4>3, <1>n DEF Pass
      <4>4. CASE k <= n
        BY <4>0, <4>1, <4>2, <4>4, <1>0, <1>n DEF Pass
      <4> QED BY <4>0, <4>3, <4>4, <1>0
    <3>7. ASSUME NEW k \in m .. n + 1 PROVE h[k] = Pass(cells, g, k)
      <4>1. k = m \/ k \in m + 1 .. n + 1
        BY <3>1
      <4> QED BY <4>1, <3>4, <3>5
    <3>8. h = [k \in m .. n + 1 |-> Pass(cells, h, k)]
      BY <3>5, <3>6, <3>7
    <3> QED BY <3>8, <2>2, <1>n DEF Passed
  <2> QED BY <2>3, <2>4
<1>2. n \in 0 .. n /\ n + 1 - n = 1
  BY <1>0
<1> QED BY <1>1, <1>2

LEMMA CoalescePasses ==
  ASSUME NEW cells \in Seq(Cell)
  PROVE  \E g : Passed(cells, g, 1) /\ coalesce(cells) = g[1]
<1> DEFINE R(g) == g = [k \in 1 .. Len(cells) + 1 |->
                      IF k > Len(cells) THEN <<>>
                      ELSE IF k < Len(cells) /\ cells[k].at + cells[k].size = cells[k + 1].at
                      THEN <<[cells[k] EXCEPT !.size = @ + cells[k + 1].size]>> \o g[k + 2]
                      ELSE <<cells[k]>> \o g[k + 1]]
           from == CHOOSE g : R(g)
<1>1. coalesce(cells) = from[1]
  BY Zenon DEF coalesce
<1>2. \A g : R(g) <=> Passed(cells, g, 1)
  BY Zenon DEF Passed, Pass
<1>3. \E g : R(g)
  BY <1>2, PassExists, Zenon
<1> HIDE DEF R
<1>4. R(from)
  BY <1>3, Zenon
<1> QED BY <1>1, <1>2, <1>4

\* The bytes of the cells from k on.
CoveredFrom(cells, k) == UNION {CellBytes(cells[j]) : j \in k .. Len(cells)}

LEMMA CoalesceKeeps ==
  ASSUME NEW cells, Good(cells)
  PROVE  Good(coalesce(cells)) /\ Covered(coalesce(cells)) = Covered(cells)
<1>0. cells \in Seq(Cell) /\ Ordered(cells) /\ Len(cells) \in Nat
  BY DEF Good
<1>n. PICK n : n = Len(cells)
  OBVIOUS
<1>g. PICK g : Passed(cells, g, 1) /\ coalesce(cells) = g[1]
  BY <1>0, CoalescePasses
<1>1. \A k \in 1 .. n + 1 : g[k] = Pass(cells, g, k)
  BY <1>g, <1>n DEF Passed
<1> DEFINE Does(k) == Good(g[k]) /\ Covered(g[k]) = CoveredFrom(cells, k)
           Bad == {i \in 0 .. n : ~Does(n + 1 - i)}
<1>2. \* What lies behind a cell begins behind it.
      ASSUME NEW k \in 1 .. n, NEW m \in 1 .. n + 1, k < m, Does(m), NEW i \in 1 .. Len(g[m])
      PROVE  cells[k].at + cells[k].size <= g[m][i].at
  <2>1. g[m][i].at \in Nat /\ g[m][i].size \in Nat \ {0}
    BY <1>2, CellAt DEF Good
  <2>2. g[m][i].at \in CellBytes(g[m][i])
    BY <2>1, InBytes DEF CellBytes
  <2>3. g[m][i].at \in CoveredFrom(cells, m)
    BY <1>2, <2>2, CoveredBy
  <2>4. PICK j \in m .. n : g[m][i].at \in CellBytes(cells[j])
    BY <2>3, <1>n DEF CoveredFrom
  <2>5. j \in 1 .. n /\ k < j
    BY <1>0, <1>n, <1>2
  <2>6. cells[k].at + cells[k].size <= cells[j].at
    BY <1>0, <1>n, <2>5 DEF Ordered
  <2>7. cells[j].at \in Nat /\ cells[j].size \in Nat /\ cells[k].at \in Nat /\ cells[k].size \in Nat
    BY <1>0, <1>n, <2>5, CellAt
  <2>8. cells[j].at <= g[m][i].at
    BY <2>4, <2>7, InBytes DEF CellBytes
  <2>x. PICK a, b, c, d : /\ a = cells[k].at /\ b = cells[k].size
                          /\ c = cells[j].at /\ d = g[m][i].at
    OBVIOUS
  <2>9. a \in Nat /\ b \in Nat /\ c \in Nat /\ d \in Nat /\ a + b <= c /\ c <= d
    BY <2>1, <2>6, <2>7, <2>8, <2>x
  <2>10. a + b <= d
    BY <2>9
  <2> QED BY <2>10, <2>x
<1> HIDE DEF Does
<1>3. ASSUME Bad # {} PROVE FALSE
  <2>0. Bad \in SUBSET Nat
    BY <1>0, <1>n
  <2>1. PICK i \in Bad : \A m \in Bad : ~(m < i)
    BY <1>3, <2>0, Least
  <2>k. PICK k : k = n + 1 - i
    OBVIOUS
  <2>2. i \in 0 .. n /\ k \in 1 .. n + 1 /\ ~Does(k)
    BY <1>0, <1>n, <2>k
  <2>3. ASSUME NEW m \in 1 .. n + 1, m > k PROVE Does(m)
    <3>1. n + 1 - m \in 0 .. n /\ n + 1 - m < i /\ n + 1 - (n + 1 - m) = m
      BY <1>0, <1>n, <2>2, <2>3, <2>k
    <3>2. n + 1 - m \notin Bad
      BY <2>1, <3>1
    <3> QED BY <3>1, <3>2
  <2>4. CASE k > n
    <3>1. g[k] = <<>>
      BY <1>1, <1>n, <2>2, <2>4 DEF Pass
    <3>2. k .. n = {}
      BY <1>0, <1>n, <2>2, <2>4
    <3>3. CoveredFrom(cells, k) = {}
      BY <3>2, <1>n DEF CoveredFrom
    <3> QED BY <2>2, <3>1, <3>3, EmptyList DEF Does
  <2>5. CASE k <= n
    <3>0. k \in 1 .. n /\ k + 1 \in 1 .. n + 1 /\ k + 1 > k
      BY <1>0, <1>n, <2>2, <2>5
    <3>1. cells[k] \in Cell
      BY <3>0, <1>n, <1>0, CellAt
    <3>2. CASE k < n /\ cells[k].at + cells[k].size = cells[k + 1].at
      <4>0. k + 1 \in 1 .. n /\ k + 2 \in 1 .. n + 1 /\ k + 2 > k /\ k + 2 > k + 1
        BY <1>0, <1>n, <2>2, <3>2
      <4>c. PICK c : c = [cells[k] EXCEPT !.size = @ + cells[k + 1].size]
        OBVIOUS
      <4>1. /\ cells[k].at \in Nat /\ cells[k].size \in Nat \ {0}
            /\ cells[k + 1].at \in Nat /\ cells[k + 1].size \in Nat \ {0}
        BY <1>0, <1>n, <3>0, <4>0, CellAt
      <4>2. c = [at |-> cells[k].at, size |-> cells[k].size + cells[k + 1].size]
        <5>1. cells[k] = [at |-> cells[k].at, size |-> cells[k].size]
          BY <1>0, <1>n, <3>0, CellAt
        <5>2. ASSUME NEW r, NEW a, NEW m, NEW l, r = [at |-> a, size |-> m]
              PROVE  [r EXCEPT !.size = @ + l] = [at |-> a, size |-> m + l]
          BY <5>2
        <5> QED BY <4>c, <5>1, <5>2
      <4>3. c.at = cells[k].at /\ c.size = cells[k].size + cells[k + 1].size /\ c \in Cell
        <5>1. cells[k].size + cells[k + 1].size \in Nat \ {0}
          BY <4>1
        <5> QED BY <4>1, <4>2, <5>1 DEF Cell
      <4>4. c.at + c.size = cells[k + 1].at + cells[k + 1].size
        BY <3>2, <4>1, <4>3
      <4>5. Does(k + 2)
        BY <2>3, <4>0
      <4>6. \A j \in 1 .. Len(g[k + 2]) : c.at + c.size <= g[k + 2][j].at
        BY <1>2, <4>0, <4>4, <4>5
      <4>7. g[k] = <<c>> \o g[k + 2]
        <5>1. ~(k > Len(cells)) /\ k < Len(cells)
          BY <1>0, <1>n, <2>2, <3>2
        <5> QED BY <1>1, <2>2, <3>2, <4>c, <5>1 DEF Pass
      <4>8. Good(g[k]) /\ Covered(g[k]) = CoveredFrom(cells, k + 2) \cup CellBytes(c)
        BY <4>3, <4>5, <4>6, <4>7, Prepended DEF Does
      <4>9. CellBytes(c) = CellBytes(cells[k]) \cup CellBytes(cells[k + 1])
        <5>1. CellBytes(c) = Bytes(cells[k].at, cells[k].size + cells[k + 1].size)
          BY <4>3 DEF CellBytes
        <5>x. PICK a, m, b, l : /\ a = cells[k].at /\ m = cells[k].size
                                /\ b = cells[k + 1].at /\ l = cells[k + 1].size
          OBVIOUS
        <5>2. a \in Nat /\ m \in Nat /\ b \in Nat /\ l \in Nat /\ a + m = b
          BY <3>2, <4>1, <5>x
        <5>y. PICK s : s = m + l /\ s \in Nat
          BY <5>2
        <5>3. Bytes(a, s) = Bytes(a, m) \cup Bytes(b, l)
          <6>1. \A x : x \in Bytes(a, s) <=> x \in Bytes(a, m) \cup Bytes(b, l)
            BY <5>2, <5>y DEF Bytes
          <6> QED BY <6>1
        <5> QED BY <5>1, <5>3, <5>x, <5>y DEF CellBytes
      <4>10. \A j : j \in k .. n <=> j = k \/ j = k + 1 \/ j \in k + 2 .. n
        BY <1>0, <1>n, <2>2, <3>2
      <4>11. CoveredFrom(cells, k)
               = CoveredFrom(cells, k + 2) \cup CellBytes(cells[k]) \cup CellBytes(cells[k + 1])
        BY <4>10, <1>n DEF CoveredFrom
      <4> QED BY <2>2, <4>8, <4>9, <4>11 DEF Does
    <3>3. CASE ~(k < n /\ cells[k].at + cells[k].size = cells[k + 1].at)
      <4>1. Does(k + 1)
        BY <2>3, <3>0
      <4>2. \A j \in 1 .. Len(g[k + 1]) : cells[k].at + cells[k].size <= g[k + 1][j].at
        BY <1>2, <3>0, <4>1
      <4>3. g[k] = <<cells[k]>> \o g[k + 1]
        <5>1. ~(k > Len(cells))
          BY <1>0, <1>n, <3>0
        <5> QED BY <1>1, <1>n, <2>2, <3>3, <5>1 DEF Pass
      <4>4. Good(g[k]) /\ Covered(g[k]) = CoveredFrom(cells, k + 1) \cup CellBytes(cells[k])
        BY <3>1, <4>1, <4>2, <4>3, Prepended DEF Does
      <4>5. \A j : j \in k .. n <=> j = k \/ j \in k + 1 .. n
        BY <1>0, <1>n, <3>0
      <4>6. CoveredFrom(cells, k) = CoveredFrom(cells, k + 1) \cup CellBytes(cells[k])
        BY <4>5, <1>n DEF CoveredFrom
      <4> QED BY <2>2, <4>4, <4>6 DEF Does
    <3> QED BY <3>2, <3>3
  <2> QED BY <2>2, <2>4, <2>5, <1>0, <1>n
<1>4. Does(1)
  <2>1. n \in 0 .. n /\ n + 1 - n = 1
    BY <1>0, <1>n
  <2> QED BY <1>3, <2>1
<1> QED BY <1>4, <1>g DEF Does, CoveredFrom, Covered

-----------------------------------------------------------------------------
(***************************************************************************)
(* insert, and add_to_free_list of hw06.                                   *)
(***************************************************************************)
LEMMA MinIs ==
  ASSUME NEW S \in SUBSET Nat, S # {}
  PROVE  Min(S) \in S /\ \A m \in S : Min(S) <= m
<1>1. PICK n \in S : \A m \in S : ~(m < n)
  BY Least
<1>2. \E x \in S : \A y \in S : x <= y
  <2>1. \A y \in S : n <= y
    BY <1>1
  <2> QED BY <2>1
<1> QED BY <1>2 DEF Min

\* Cells that lie before another one end before it begins, if they share no byte.
LEMMA Placed ==
  ASSUME NEW cells, Good(cells), NEW c \in Cell, Disjoint(CellBytes(c), Covered(cells)),
         NEW k \in 1 .. Len(cells) + 1,
         \A i \in 1 .. Len(cells) : i < k => cells[i].at <= c.at,
         \A i \in 1 .. Len(cells) : i >= k => c.at <= cells[i].at
  PROVE  /\ Good(InsertAt(cells, k, c))
         /\ Covered(InsertAt(cells, k, c)) = Covered(cells) \cup CellBytes(c)
<1>0. cells \in Seq(Cell)
  BY DEF Good
<1>1. ASSUME NEW i \in 1 .. Len(cells)
      PROVE  IF c.at < cells[i].at THEN c.at + c.size <= cells[i].at
             ELSE cells[i].at + cells[i].size <= c.at
  <2>1. cells[i] \in Cell
    BY <1>0, CellAt
  <2>2. Disjoint(CellBytes(c), CellBytes(cells[i]))
    BY DEF Disjoint, Covered
  <2> QED BY <2>1, <2>2, CellOrder
<1>2. ASSUME NEW i \in 1 .. Len(cells)
      PROVE  /\ i < k  => cells[i].at + cells[i].size <= c.at
             /\ i >= k => c.at + c.size <= cells[i].at
  <2>1. /\ cells[i].at \in Nat /\ cells[i].size \in Nat \ {0}
        /\ c.at \in Nat /\ c.size \in Nat \ {0}
    BY <1>0, CellAt DEF Cell
  <2>2. ASSUME NEW a \in Nat, NEW m \in Nat \ {0}, NEW b \in Nat, NEW l \in Nat \ {0},
               IF a < b THEN a + m <= b ELSE b + l <= a
        PROVE  (b <= a => b + l <= a) /\ (a <= b => a + m <= b)
    <3>1. CASE a < b   BY <2>2, <3>1
    <3>2. CASE a > b   BY <2>2, <3>2
    <3>3. CASE a = b   BY <2>2, <3>3
    <3> QED BY <3>1, <3>2, <3>3
  <2> QED BY <1>1, <2>1, <2>2
<1> QED BY <1>2, PutBetween

LEMMA InsertKeeps ==
  ASSUME NEW cells, Good(cells), NEW c \in Cell, Disjoint(CellBytes(c), Covered(cells))
  PROVE  Good(insert(cells, c)) /\ Covered(insert(cells, c)) = Covered(cells) \cup CellBytes(c)
<1>0. cells \in Seq(Cell) /\ Ordered(cells) /\ Len(cells) \in Nat
  BY DEF Good
<1>1. ASSUME NEW i \in 1 .. Len(cells), NEW j \in 1 .. Len(cells), i <= j
      PROVE  cells[i].at <= cells[j].at
  <2>1. /\ cells[i].at \in Nat /\ cells[i].size \in Nat
        /\ cells[j].at \in Nat /\ cells[j].size \in Nat
    BY <1>0, CellAt
  <2>2. i < j => cells[i].at + cells[i].size <= cells[j].at
    BY <1>0 DEF Ordered
  <2>3. i < j \/ i = j
    BY <1>1
  <2> QED BY <2>1, <2>2, <2>3
<1>2. \A i \in 1 .. Len(cells) : cells[i].at \in Nat
  BY <1>0, CellAt
<1>3. c.at \in Nat
  BY DEF Cell
<1>4. CASE cells = <<>> \/ cells[1].at > c.at
  <2>1. insert(cells, c) = <<c>> \o cells
    BY <1>4 DEF insert
  <2>2. \A i \in 1 .. Len(cells) : c.at <= cells[i].at
    <3>1. ASSUME NEW i \in 1 .. Len(cells) PROVE c.at <= cells[i].at
      <4>1. 1 \in 1 .. Len(cells) /\ 1 <= i /\ cells # <<>>
        BY <1>0
      <4>2. cells[1].at <= cells[i].at /\ cells[1].at > c.at
        BY <1>1, <1>4, <4>1
      <4> QED BY <1>2, <1>3, <4>1, <4>2
    <3> QED BY <3>1
  <2>3. 1 \in 1 .. Len(cells) + 1 /\ \A i \in 1 .. Len(cells) : ~(i < 1)
    BY <1>0
  <2>4. /\ Good(InsertAt(cells, 1, c))
        /\ Covered(InsertAt(cells, 1, c)) = Covered(cells) \cup CellBytes(c)
    BY <2>2, <2>3, Placed
  <2>5. \A i \in 1 .. Len(cells) : c.at + c.size <= cells[i].at
    <3>1. ASSUME NEW i \in 1 .. Len(cells) PROVE c.at + c.size <= cells[i].at
      <4>1. cells[i] \in Cell /\ Disjoint(CellBytes(c), CellBytes(cells[i]))
        BY <1>0, CellAt DEF Disjoint, Covered
      <4>2. IF c.at < cells[i].at THEN c.at + c.size <= cells[i].at
            ELSE cells[i].at + cells[i].size <= c.at
        BY <4>1, CellOrder
      <4>3. c.at <= cells[i].at /\ cells[i].at \in Nat /\ cells[i].size \in Nat \ {0}
        BY <1>0, <2>2, CellAt
      <4> QED BY <1>3, <4>2, <4>3
    <3> QED BY <3>1
  <2> QED BY <2>1, <2>5, Prepended
<1>5. CASE ~(cells = <<>> \/ cells[1].at > c.at)
  <2> DEFINE I == {i \in 2 .. Len(cells) : cells[i].at >= c.at}
             pp == IF I # {} THEN Min(I) ELSE 0
             k  == IF pp = 0 THEN Len(cells) + 1 ELSE pp
  <2>1. insert(cells, c) = coalesce(InsertAt(cells, k, c))
    BY <1>5, Zenon DEF insert, SelectInSubSeq
  <2>0. I \in SUBSET Nat
    BY <1>0
  <2>2. /\ I = {} => k = Len(cells) + 1
        /\ I # {} => k \in I /\ \A i \in I : k <= i
    <3>1. ASSUME I # {} PROVE Min(I) \in I /\ \A i \in I : Min(I) <= i
      BY <2>0, <3>1, MinIs
    <3>2. 0 \notin I
      OBVIOUS
    <3> HIDE DEF I
    <3> QED BY <3>1, <3>2
  <2>k. PICK p : p = k
    OBVIOUS
  <2> HIDE DEF k, pp
  <2>3. p \in 1 .. Len(cells) + 1
    BY <1>0, <2>2, <2>k
  <2>4. 1 \in 1 .. Len(cells) /\ cells[1].at <= c.at
    <3>1. 1 \in 1 .. Len(cells)
      BY <1>0, <1>5
    <3> QED BY <1>2, <1>3, <1>5, <3>1
  <2>5. ASSUME NEW i \in 1 .. Len(cells), i < p PROVE cells[i].at <= c.at
    <3>1. CASE i = 1  BY <2>4, <3>1
    <3>2. CASE i # 1
      <4>1. i \in 2 .. Len(cells)
        BY <3>2
      <4>2. i \notin I
        BY <1>0, <2>0, <2>2, <2>5, <2>3, <2>k
      <4> QED BY <1>2, <1>3, <4>1, <4>2
    <3> QED BY <3>1, <3>2
  <2>6. ASSUME NEW i \in 1 .. Len(cells), i >= p PROVE c.at <= cells[i].at
    <3>1. I # {}
      BY <1>0, <2>2, <2>6, <2>k
    <3>2. p \in 1 .. Len(cells) /\ cells[p].at >= c.at
      BY <2>2, <2>k, <3>1
    <3>3. cells[p].at <= cells[i].at
      BY <1>1, <2>6, <3>2
    <3> QED BY <1>2, <1>3, <3>2, <3>3
  <2>7. /\ Good(InsertAt(cells, p, c))
        /\ Covered(InsertAt(cells, p, c)) = Covered(cells) \cup CellBytes(c)
    BY <2>3, <2>5, <2>6, Placed
  <2> QED BY <2>1, <2>7, <2>k, CoalesceKeeps
<1> QED BY <1>4, <1>5

\* Cell i does not touch the next.
Gap(cells, i) == cells[i].at + cells[i].size < cells[i + 1].at

LEMMA JoinedGaps ==
  ASSUME NEW cells \in Seq(Cell), NEW j \in 1 .. Len(cells) - 1,
         cells[j].at + cells[j].size = cells[j + 1].at,
         NEW i \in 1 .. Len(cells) - 2, Gap(cells, IF i < j THEN i ELSE i + 1)
  PROVE  Gap(Joined(cells, j), i)
<1>t. PICK t : t = Joined(cells, j)
  OBVIOUS
<1>n. PICK n : n = Len(cells) /\ n \in Nat
  OBVIOUS
<1>1. /\ t[j] = [at |-> cells[j].at, size |-> cells[j].size + cells[j + 1].size]
      /\ \A m \in 1 .. n - 1 : m # j => t[m] = IF m < j THEN cells[m] ELSE cells[m + 1]
  BY <1>t, <1>n, JoinedIs
<1>2. /\ cells[j].at \in Nat /\ cells[j].size \in Nat
      /\ cells[j + 1].at \in Nat /\ cells[j + 1].size \in Nat
  <2>1. j \in 1 .. n /\ j + 1 \in 1 .. n
    BY <1>n
  <2> QED BY <2>1, <1>n, CellAt
<1>3. t[j].at = cells[j].at /\ t[j].at + t[j].size = cells[j + 1].at + cells[j + 1].size
  <2>1. t[j].at = cells[j].at /\ t[j].size = cells[j].size + cells[j + 1].size
    BY <1>1
  <2> QED BY <1>2, <2>1
<1>4. i \in 1 .. n - 1 /\ i + 1 \in 1 .. n - 1 /\ i \in Int /\ j \in Int /\ (i + 1) + 1 = i + 2
  BY <1>n
<1>5. CASE i + 1 < j
  <2>1. i < j /\ i # j /\ i + 1 # j
    BY <1>4, <1>5
  <2>2. t[i] = cells[i] /\ t[i + 1] = cells[i + 1]
    BY <1>1, <1>4, <1>5, <2>1
  <2> QED BY <1>t, <2>1, <2>2 DEF Gap
<1>6. CASE i + 1 = j
  <2>1. i < j /\ i # j
    BY <1>4, <1>6
  <2>2. t[i] = cells[i] /\ t[i + 1].at = cells[i + 1].at
    BY <1>1, <1>3, <1>4, <1>6, <2>1
  <2> QED BY <1>t, <2>1, <2>2 DEF Gap
<1>7. CASE i = j
  <2>1. ~(i < j) /\ i + 1 # j /\ ~(i + 1 < j)
    BY <1>4, <1>7
  <2>2. t[i + 1] = cells[(i + 1) + 1]
    BY <1>1, <1>4, <2>1
  <2>3. t[i].at + t[i].size = cells[i + 1].at + cells[i + 1].size
    BY <1>3, <1>7
  <2> QED BY <1>t, <2>1, <2>2, <2>3 DEF Gap
<1>8. CASE i > j
  <2>1. ~(i < j) /\ i # j /\ i + 1 # j /\ ~(i + 1 < j)
    BY <1>4, <1>8
  <2>2. t[i] = cells[i + 1] /\ t[i + 1] = cells[(i + 1) + 1]
    BY <1>1, <1>4, <2>1
  <2> QED BY <1>t, <2>1, <2>2 DEF Gap
<1> QED BY <1>4, <1>5, <1>6, <1>7, <1>8

LEMMA MergeNextIs ==
  ASSUME NEW s, NEW k
  PROVE  N!merge_next(s, k) = IF k < Len(s) /\ s[k].at + s[k].size = s[k + 1].at
                              THEN Joined(s, k) ELSE s
BY DEF N!merge_next, N!Touch, N!RemoveAt, Joined, RemoveAt

LEMMA MergeBothIs ==
  ASSUME NEW s, NEW k \in Nat \ {0}, NEW after, after = N!merge_next(s, k)
  PROVE  N!merge_both(s, k) =
           IF k > 1 /\ after[k - 1].at + after[k - 1].size = after[k].at
           THEN Joined(after, k - 1) ELSE after
<1>1. (k - 1) + 1 = k
  OBVIOUS
<1> QED BY <1>1 DEF N!merge_both, N!Touch, N!RemoveAt, Joined, RemoveAt

\* merge_both closes the gaps on both sides of the cell at k.
LEMMA MergeBothKeeps ==
  ASSUME NEW s, Good(s), NEW k \in 1 .. Len(s),
         \A i \in 1 .. Len(s) - 1 : i # k - 1 /\ i # k => Gap(s, i)
  PROVE  /\ Good(N!merge_both(s, k)) /\ Covered(N!merge_both(s, k)) = Covered(s)
         /\ Coalesced(N!merge_both(s, k))
<1>0. s \in Seq(Cell) /\ Len(s) \in Nat /\ k \in Nat \ {0}
  BY DEF Good
<1>a. PICK after : after = N!merge_next(s, k)
  OBVIOUS
<1>g. ASSUME NEW c, Good(c), NEW i \in 1 .. Len(c) - 1, c[i].at + c[i].size # c[i + 1].at
      PROVE  Gap(c, i)
  <2>1. c \in Seq(Cell) /\ i \in 1 .. Len(c) /\ i + 1 \in 1 .. Len(c) /\ i < i + 1
    BY <1>g DEF Good
  <2>2. c[i].at + c[i].size <= c[i + 1].at
    BY <1>g, <2>1 DEF Good, Ordered
  <2>3. c[i].at \in Nat /\ c[i].size \in Nat /\ c[i + 1].at \in Nat
    BY <2>1, CellAt
  <2>a. PICK a, b, d : a = c[i].at /\ b = c[i].size /\ d = c[i + 1].at
    OBVIOUS
  <2>4. a \in Nat /\ b \in Nat /\ d \in Nat /\ a + b <= d /\ a + b # d
    BY <1>g, <2>2, <2>3, <2>a
  <2>5. a + b < d
    BY <2>4
  <2> QED BY <2>5, <2>a DEF Gap
<1>1. /\ Good(after) /\ Covered(after) = Covered(s) /\ k \in 1 .. Len(after)
      /\ \A i \in 1 .. Len(after) - 1 : i # k - 1 => Gap(after, i)
  <2>1. CASE k < Len(s) /\ s[k].at + s[k].size = s[k + 1].at
    <3>1. after = Joined(s, k) /\ k \in 1 .. Len(s) - 1
      BY <1>0, <1>a, <2>1, MergeNextIs
    <3>2. Good(after) /\ Covered(after) = Covered(s) /\ Len(after) = Len(s) - 1
      BY <1>0, <2>1, <3>1, JoinedKeeps, JoinedIs
    <3>3. ASSUME NEW i \in 1 .. Len(after) - 1, i # k - 1 PROVE Gap(after, i)
      <4>p. PICK p : p = IF i < k THEN i ELSE i + 1
        OBVIOUS
      <4>1. p \in 1 .. Len(s) - 1 /\ p # k - 1 /\ p # k /\ i \in 1 .. Len(s) - 2
        BY <1>0, <3>2, <3>3, <4>p
      <4>2. Gap(s, p)
        BY <4>1
      <4> QED BY <1>0, <2>1, <3>1, <4>1, <4>2, <4>p, JoinedGaps
    <3> QED BY <1>0, <3>1, <3>2, <3>3
  <2>2. CASE ~(k < Len(s) /\ s[k].at + s[k].size = s[k + 1].at)
    <3>1. after = s
      BY <1>a, <2>2, MergeNextIs
    <3>2. ASSUME NEW i \in 1 .. Len(s) - 1, i # k - 1 PROVE Gap(s, i)
      <4>1. CASE i # k  BY <3>2, <4>1
      <4>2. CASE i = k
        <5>1. s[k].at + s[k].size # s[k + 1].at
          BY <1>0, <2>2, <4>2
        <5> QED BY <1>g, <4>2, <5>1
      <4> QED BY <4>1, <4>2
    <3> QED BY <3>1, <3>2
  <2> QED BY <2>1, <2>2
<1>2. after \in Seq(Cell) /\ Len(after) \in Nat
  BY <1>1 DEF Good
<1>3. CASE k > 1 /\ after[k - 1].at + after[k - 1].size = after[k].at
  <2>1. N!merge_both(s, k) = Joined(after, k - 1)
    BY <1>0, <1>a, <1>3, MergeBothIs
  <2>j. PICK j : j = k - 1
    OBVIOUS
  <2>2. j \in 1 .. Len(after) - 1 /\ j + 1 = k
    BY <1>0, <1>1, <1>2, <1>3, <2>j
  <2>3. after[j].at + after[j].size = after[j + 1].at
    BY <1>3, <2>2, <2>j
  <2>4. /\ Good(Joined(after, j)) /\ Covered(Joined(after, j)) = Covered(after)
        /\ Len(Joined(after, j)) = Len(after) - 1
    BY <1>1, <1>2, <2>2, <2>3, JoinedKeeps, JoinedIs
  <2>5. ASSUME NEW i \in 1 .. Len(Joined(after, j)) - 1 PROVE Gap(Joined(after, j), i)
    <3>p. PICK p : p = IF i < j THEN i ELSE i + 1
      OBVIOUS
    <3>1. p \in 1 .. Len(after) - 1 /\ p # j /\ i \in 1 .. Len(after) - 2
      BY <1>2, <2>2, <2>4, <3>p
    <3>2. Gap(after, p)
      BY <1>1, <2>j, <3>1
    <3> QED BY <1>2, <2>2, <2>3, <3>1, <3>2, <3>p, JoinedGaps
  <2> QED BY <1>1, <2>1, <2>4, <2>5, <2>j DEF Coalesced, Gap
<1>4. CASE ~(k > 1 /\ after[k - 1].at + after[k - 1].size = after[k].at)
  <2>1. N!merge_both(s, k) = after
    BY <1>0, <1>a, <1>4, MergeBothIs
  <2>2. ASSUME NEW i \in 1 .. Len(after) - 1 PROVE Gap(after, i)
    <3>1. CASE i # k - 1  BY <1>1, <3>1
    <3>2. CASE i = k - 1
      <4>1. k > 1 /\ i + 1 = k
        BY <1>0, <3>2
      <4> QED BY <1>1, <1>4, <1>g, <3>2, <4>1
    <3> QED BY <3>1, <3>2
  <2> QED BY <1>1, <2>1, <2>2 DEF Coalesced, Gap
<1> QED BY <1>3, <1>4

LEMMA AddKeeps ==
  ASSUME Good(list), Coalesced(list), NEW c \in Cell, Disjoint(CellBytes(c), Covered(list)),
         N!add_to_free_list(c)
  PROVE  /\ Good(list') /\ Covered(list') = Covered(list) \cup CellBytes(c)
         /\ Coalesced(list')
<1> DEFINE I == {i \in 1 .. Len(list) : list[i].at > c.at}
           p == IF I # {} THEN Min(I) ELSE 0
           k == IF p = 0 THEN Len(list) + 1 ELSE p
<1>0. list \in Seq(Cell) /\ Ordered(list) /\ Len(list) \in Nat
  BY DEF Good
<1>1. list' = N!merge_both(InsertAt(list, k, c), k)
  BY Zenon DEF N!add_to_free_list, N!SelectInSeq, N!Min, N!InsertAt, Min, InsertAt
<1>2. I \in SUBSET Nat
  BY <1>0
<1>3. /\ I = {} => k = Len(list) + 1
      /\ I # {} => k \in I /\ \A i \in I : k <= i
  <2>1. ASSUME I # {} PROVE Min(I) \in I /\ \A i \in I : Min(I) <= i
    BY <1>2, <2>1, MinIs
  <2>2. 0 \notin I
    OBVIOUS
  <2> HIDE DEF I
  <2> QED BY <2>1, <2>2
<1>k. PICK q : q = k
  OBVIOUS
<1> HIDE DEF k, p
<1>4. q \in 1 .. Len(list) + 1
  BY <1>0, <1>3, <1>k
<1>5. \A i \in 1 .. Len(list) : list[i].at \in Nat /\ list[i].size \in Nat
  BY <1>0, CellAt
<1>6. c.at \in Nat
  BY DEF Cell
<1>7. ASSUME NEW i \in 1 .. Len(list), i < q PROVE list[i].at <= c.at
  <2>1. i \notin I
    BY <1>0, <1>2, <1>3, <1>4, <1>7, <1>k
  <2> QED BY <1>5, <1>6, <2>1
<1>8. ASSUME NEW i \in 1 .. Len(list), i >= q PROVE c.at <= list[i].at
  <2>1. I # {}
    BY <1>0, <1>3, <1>8, <1>k
  <2>2. q \in 1 .. Len(list) /\ list[q].at > c.at
    BY <1>3, <1>k, <2>1
  <2>3. q < i => list[q].at + list[q].size <= list[i].at
    BY <1>0, <2>2 DEF Ordered
  <2>4. q = i \/ q < i
    BY <1>8, <2>2
  <2> QED BY <1>5, <1>6, <2>2, <2>3, <2>4
<1>s. PICK s : s = InsertAt(list, q, c)
  OBVIOUS
<1>9. Good(s) /\ Covered(s) = Covered(list) \cup CellBytes(c)
  BY <1>4, <1>7, <1>8, <1>s, Placed
<1>10. /\ Len(s) = Len(list) + 1
       /\ \A i \in 1 .. Len(list) + 1 :
            s[i] = IF i < q THEN list[i] ELSE IF i = q THEN c ELSE list[i - 1]
  <2>1. IsInsertion(s, list, q, c)
    BY <1>0, <1>4, <1>s, Inserted
  <2> QED BY <2>1 DEF IsInsertion
<1>11. ASSUME NEW i \in 1 .. Len(s) - 1, i # q - 1, i # q PROVE Gap(s, i)
  <2>1. i \in 1 .. Len(list) + 1 /\ i + 1 \in 1 .. Len(list) + 1 /\ q \in Int
    BY <1>0, <1>4, <1>10
  <2>2. CASE i < q
    <3>1. i + 1 < q /\ i \in 1 .. Len(list) - 1
      BY <1>0, <1>4, <1>11, <2>1, <2>2
    <3>2. s[i] = list[i] /\ s[i + 1] = list[i + 1]
      BY <1>10, <2>1, <2>2, <3>1
    <3> QED BY <3>1, <3>2 DEF Coalesced, Gap
  <2>3. CASE i > q
    <3>m. PICK m : m = i - 1
      OBVIOUS
    <3>1. ~(i < q) /\ ~(i + 1 < q) /\ i + 1 # q /\ m \in 1 .. Len(list) - 1 /\ m + 1 = i
          /\ (i + 1) - 1 = i
      BY <1>0, <1>4, <1>10, <2>1, <2>3, <3>m
    <3>2. s[i] = list[m] /\ s[i + 1] = list[m + 1]
      BY <1>10, <1>11, <2>1, <3>1, <3>m
    <3> QED BY <3>1, <3>2 DEF Coalesced, Gap
  <2> QED BY <1>11, <2>1, <2>2, <2>3
<1>12. q \in 1 .. Len(s)
  BY <1>4, <1>10
<1> QED BY <1>1, <1>k, <1>s, <1>9, <1>11, <1>12, MergeBothKeeps

-----------------------------------------------------------------------------
(***************************************************************************)
(* What moves bytes from one place to another.                             *)
(***************************************************************************)
LEMMA Take ==
  ASSUME NEW cells, NEW real, NEW gone, NEW map, Parted(cells, real, gone, {}, map),
         NEW k \in 1 .. Len(cells)
  PROVE  Parted(RemoveAt(cells, k), real, gone, CellBytes(cells[k]), map)
<1>1. /\ Good(RemoveAt(cells, k))
      /\ Covered(RemoveAt(cells, k)) = Covered(cells) \ CellBytes(cells[k])
  BY Taken DEF Parted
<1>2. CellBytes(cells[k]) \subseteq Covered(cells)
  BY DEF Covered
<1> QED BY <1>1, <1>2 DEF Parted, Disjoint

LEMMA Put ==
  ASSUME NEW cells, NEW real, NEW gone, NEW more, NEW map, Parted(cells, real, gone, more, map),
         NEW after, Good(after), Covered(after) = Covered(cells) \cup more
  PROVE  Parted(after, real, gone, {}, map)
BY DEF Parted, Disjoint

LEMMA GetMapped ==
  ASSUME NEW cells, NEW real, NEW gone, NEW map, Parted(cells, real, gone, {}, map),
         NEW more, Disjoint(more, map)
  PROVE  Parted(cells, real, gone, more, map \cup more)
BY DEF Parted, Disjoint

LEMMA GetUnmapped ==
  ASSUME NEW cells, NEW real, NEW gone, NEW more, NEW map, Parted(cells, real, gone, more, map),
         NEW pages, more \subseteq pages,
         Disjoint(pages, Covered(cells)), Disjoint(pages, Blocks(real))
  PROVE  Parted(cells, real, gone \ pages, {}, map \ pages)
BY DEF Parted, Disjoint

LEMMA GiveUp ==
  ASSUME NEW cells, NEW real, NEW gone, NEW more, NEW map, Parted(cells, real, gone, more, map)
  PROVE  Parted(cells, real, gone \cup more, {}, map)
BY DEF Parted, Disjoint

LEMMA Forget ==
  ASSUME NEW cells, NEW real, NEW gone, NEW map, Parted(cells, real, gone, {}, map)
  PROVE  Parted(<<>>, real, gone \cup Covered(cells), {}, map)
BY EmptyList DEF Parted, Disjoint

\* The sizes with one more block.
With(real, at, size) == [b \in DOMAIN real \cup {at} |-> IF b = at THEN size ELSE real[b]]
Less(real, at)       == [b \in DOMAIN real \ {at} |-> real[b]]

LEMMA Hand ==
  ASSUME NEW cells, NEW real, NEW gone, NEW more, NEW map, Parted(cells, real, gone, more, map),
         NEW at \in Nat, NEW size \in Nat \ {0}, Bytes(at, size) \subseteq more
  PROVE  /\ at \notin DOMAIN real
         /\ Parted(cells, With(real, at, size), gone, more \ Bytes(at, size), map)
<1>1. at \in Bytes(at, size)
  BY InBytes
<1>2. at \notin DOMAIN real
  <2>1. ASSUME at \in DOMAIN real PROVE FALSE
    <3>1. at \in Bytes(at, real[at])
      BY <2>1, InBytes DEF Parted, BlocksApart
    <3>2. at \in Blocks(real)
      BY <2>1, <3>1 DEF Blocks
    <3> QED BY <1>1, <3>2 DEF Parted, Disjoint
  <2> QED BY <2>1
<1>r. PICK r : r = With(real, at, size)
  OBVIOUS
<1>3. /\ DOMAIN r = DOMAIN real \cup {at} /\ r[at] = size
      /\ \A b \in DOMAIN real : r[b] = real[b]
  BY <1>r, <1>2 DEF With
<1>4. Blocks(r) = Blocks(real) \cup Bytes(at, size)
  BY <1>3 DEF Blocks
<1>5. \A b \in DOMAIN real : Bytes(b, real[b]) \subseteq Blocks(real)
  BY DEF Blocks
<1>6. Disjoint(Bytes(at, size), Blocks(real))
  BY DEF Parted, Disjoint
<1>7. BlocksApart(r)
  <2>1. DOMAIN r \subseteq Nat /\ \A a \in DOMAIN r : r[a] \in Nat \ {0}
    BY <1>3 DEF Parted, BlocksApart
  <2>2. ASSUME NEW a \in DOMAIN r, NEW b \in DOMAIN r, a # b
        PROVE  Bytes(a, r[a]) \cap Bytes(b, r[b]) = {}
    <3>1. CASE a = at \/ b = at
      BY <1>3, <1>5, <1>6, <2>2, <3>1 DEF Disjoint
    <3>2. CASE a # at /\ b # at
      BY <1>3, <2>2, <3>2 DEF Parted, BlocksApart
    <3> QED BY <3>1, <3>2
  <2> QED BY <2>1, <2>2 DEF BlocksApart
<1> QED BY <1>2, <1>4, <1>7, <1>r DEF Parted, Disjoint

LEMMA Return ==
  ASSUME NEW cells, NEW real, NEW gone, NEW map, Parted(cells, real, gone, {}, map),
         NEW at \in DOMAIN real
  PROVE  Parted(cells, Less(real, at), gone, Bytes(at, real[at]), map)
<1>r. PICK r : r = Less(real, at)
  OBVIOUS
<1>1. DOMAIN r = DOMAIN real \ {at} /\ \A b \in DOMAIN r : r[b] = real[b]
  BY <1>r DEF Less
<1>2. \A a, b \in DOMAIN real : a # b => Bytes(a, real[a]) \cap Bytes(b, real[b]) = {}
  BY DEF Parted, BlocksApart
<1>3. Blocks(r) = Blocks(real) \ Bytes(at, real[at])
  BY <1>1, <1>2 DEF Blocks
<1>4. Bytes(at, real[at]) \subseteq Blocks(real)
  BY DEF Blocks
<1>5. BlocksApart(r)
  <2>1. DOMAIN real \subseteq Nat /\ \A a \in DOMAIN real : real[a] \in Nat \ {0}
    BY DEF Parted, BlocksApart
  <2>2. DOMAIN r \subseteq Nat /\ \A a \in DOMAIN r : r[a] \in Nat \ {0}
    BY <1>1, <2>1
  <2>3. \A a, b \in DOMAIN r : a # b => Bytes(a, r[a]) \cap Bytes(b, r[b]) = {}
    BY <1>1, <1>2
  <2> QED BY <2>2, <2>3 DEF BlocksApart
<1> QED BY <1>r, <1>3, <1>4, <1>5 DEF Parted, Disjoint

-----------------------------------------------------------------------------
(***************************************************************************)
(* The free list allocator: each call keeps every byte in one place,       *)
(* whatever the size fields of the blocks have come to say.                *)
(***************************************************************************)
LEMMA CarveKeeps ==
  ASSUME NEW cells, NEW real, NEW map, NEW cell \in Cell, NEW size \in Nat \ {0},
         Parted(cells, real, lost, CellBytes(cell), map),
         size <= cell.size, carve(cell, size, cells)
  PROVE  /\ cell.at \notin DOMAIN real
         /\ Parted(list', With(real, cell.at, size), lost', {}, map)
         /\ handed_out(cell.at, size)
<1>r. PICK rest : rest = [at |-> cell.at + size, size |-> cell.size - size]
  OBVIOUS
<1>c. cell.at \in Nat /\ cell.size \in Nat \ {0}
  BY DEF Cell
<1>1. /\ rest.at = cell.at + size /\ rest.size = cell.size - size
      /\ rest.at \in Nat /\ rest.size \in Nat
  <2>1. rest.at = cell.at + size /\ rest.size = cell.size - size
    BY <1>r
  <2> QED BY <1>c, <2>1
<1>2. CellBytes(cell) = Bytes(cell.at, size) \cup CellBytes(rest)
  <2>1. Bytes(cell.at, cell.size) = Bytes(cell.at, size) \cup Bytes(rest.at, rest.size)
    <3>a. PICK a, m, b, n : a = cell.at /\ m = cell.size /\ b = rest.at /\ n = rest.size
      OBVIOUS
    <3>1. a \in Nat /\ m \in Nat /\ b \in Nat /\ n \in Nat /\ a + size = b /\ size + n = m
      BY <1>c, <1>1, <3>a
    <3>4. size \in Nat
      OBVIOUS
    <3>2. Bytes(a, m) = Bytes(a, size) \cup Bytes(b, n)
      <4>1. ASSUME NEW x
            PROVE  x \in Bytes(a, m) <=> x \in Bytes(a, size) \/ x \in Bytes(b, n)
        <5>1. /\ x \in Bytes(a, m) <=> x \in Int /\ a <= x /\ x < a + m
              /\ x \in Bytes(a, size) <=> x \in Int /\ a <= x /\ x < a + size
              /\ x \in Bytes(b, n) <=> x \in Int /\ b <= x /\ x < b + n
          BY <3>1, <3>4, InBytes
        <5> QED BY <3>1, <3>4, <5>1
      <4> QED BY <4>1
    <3> QED BY <3>2, <3>a
  <2> QED BY <2>1 DEF CellBytes
<1>3. Disjoint(Bytes(cell.at, size), CellBytes(rest))
  <2>1. cell.at + size <= rest.at
    BY <1>1, <1>c
  <2> QED BY <1>1, <1>c, <2>1, Outside DEF CellBytes
<1>4. CellBytes(cell) \ Bytes(cell.at, size) = CellBytes(rest)
  BY <1>2, <1>3 DEF Disjoint
<1>5. /\ cell.at \notin DOMAIN real
      /\ Parted(cells, With(real, cell.at, size), lost, CellBytes(rest), map)
  BY <1>c, <1>2, <1>4, Hand
<1>6. CASE rest.size >= CELL_SIZE /\ list' = insert(cells, rest) /\ lost' = lost
  <2>1. rest \in Cell
    BY <1>1, <1>6, <1>r, Constants DEF Cell
  <2>2. Good(cells) /\ Disjoint(CellBytes(rest), Covered(cells))
    BY <1>5 DEF Parted
  <2>3. Good(list') /\ Covered(list') = Covered(cells) \cup CellBytes(rest)
    BY <1>6, <2>1, <2>2, InsertKeeps
  <2>4. Parted(list', With(real, cell.at, size), lost, {}, map)
    BY <1>5, <2>3, Put
  <2> QED BY <1>5, <1>6, <2>4 DEF carve
<1>7. CASE list' = cells /\ lost' = lost \cup CellBytes(rest)
  <2>1. Parted(cells, With(real, cell.at, size), lost \cup CellBytes(rest), {}, map)
    BY <1>5, GiveUp
  <2> QED BY <1>5, <1>7, <2>1 DEF carve
<1> QED BY <1>6, <1>7, <1>r DEF carve

LEMMA mmapIs ==
  ASSUME NEW size \in Nat \ {0}, NEW at \in mmap(size)
  PROVE  at \in Nat /\ at \in Address /\ Disjoint(Bytes(at, size), mapped)
<1>1. PICK k \in 0 .. MaxPages - 1 : at = PAGE * k
  BY DEF mmap
<1>2. at \in Nat
  BY <1>1, Constants
<1>3. Disjoint(Bytes(at, size), mapped)
  BY DEF mmap, Bytes, Disjoint
<1>4. at \in Address
  <2>1. at \in Bytes(at, size)
    BY <1>2, InBytes
  <2> QED BY <2>1 DEF mmap, Bytes
<1> QED BY <1>2, <1>3, <1>4

LEMMA AllocSize ==
  ASSUME NEW usize \in Nat \ {0}
  PROVE  alloc_size(usize) \in Nat \ {0} /\ alloc_size(usize) >= usize + HEADER
BY Constants DEF alloc_size

LEMMA MallocKeeps ==
  ASSUME NEW real, Parted(list, real, lost, {}, mapped),
         NEW usize \in Nat \ {0}, NEW at, hw06_malloc(usize, at)
  PROVE  /\ at \in Nat /\ at \notin DOMAIN real
         /\ Parted(list', With(real, at, alloc_size(usize)), lost', {}, mapped')
         /\ handed_out(at, alloc_size(usize))
<1>s. PICK size : size = alloc_size(usize)
  OBVIOUS
<1>0. size \in Nat \ {0}
  BY <1>s, AllocSize
<1>1. CASE MallocLarge(size, at)
  <2>1. /\ at \in mmap(size) /\ mapped' = mapped \cup Bytes(at, size) /\ handed_out(at, size)
        /\ list' = list /\ lost' = lost
    BY <1>1 DEF MallocLarge
  <2>2. at \in Nat /\ Disjoint(Bytes(at, size), mapped)
    BY <1>0, <2>1, mmapIs
  <2>3. Parted(list, real, lost, Bytes(at, size), mapped \cup Bytes(at, size))
    BY <2>2, GetMapped
  <2>4. /\ at \notin DOMAIN real
        /\ Parted(list, With(real, at, size), lost, Bytes(at, size) \ Bytes(at, size),
                  mapped \cup Bytes(at, size))
    BY <1>0, <2>2, <2>3, Hand
  <2>5. Bytes(at, size) \ Bytes(at, size) = {}
    OBVIOUS
  <2> QED BY <1>s, <2>1, <2>2, <2>4, <2>5
<1>2. CASE MallocFromList(size, at)
  <2> DEFINE I == {k \in 1 .. Len(list) : list[k].size >= size}
             k == IF I # {} THEN Min(I) ELSE 0
  <2>1. k # 0 /\ at = list[k].at /\ carve(list[k], size, RemoveAt(list, k)) /\ mapped' = mapped
    BY <1>2, Zenon DEF MallocFromList, SelectInSeq
  <2>2. list \in Seq(Cell)
    BY DEF Parted, Good
  <2>3. k \in 1 .. Len(list) /\ list[k].size >= size
    <3>1. I \in SUBSET Nat
      BY <2>2
    <3>2. I # {}
      BY <2>1
    <3> QED BY <3>1, <3>2, MinIs
  <2>k. PICK m : m = k
    OBVIOUS
  <2> HIDE DEF k
  <2>4. Parted(RemoveAt(list, m), real, lost, CellBytes(list[m]), mapped)
    BY <2>3, <2>k, Take
  <2>5. list[m] \in Cell /\ size <= list[m].size /\ at = list[m].at /\ at \in Nat
    <3>1. m \in 1 .. Len(list)
      BY <2>3, <2>k
    <3>2. list[m] \in Cell /\ list[m].at \in Nat /\ list[m].size \in Nat
      BY <2>2, <3>1, CellAt
    <3> QED BY <1>0, <2>1, <2>3, <2>k, <3>2
  <2>6. carve(list[m], size, RemoveAt(list, m))
    BY <2>1, <2>k
  <2>7. /\ at \notin DOMAIN real /\ Parted(list', With(real, at, size), lost', {}, mapped)
        /\ handed_out(at, size)
    BY <1>0, <2>4, <2>5, <2>6, CarveKeeps
  <2> QED BY <1>s, <2>1, <2>5, <2>7
<1>3. CASE MallocFromChunk(size, at)
  <2>c. PICK cell : cell = [at |-> at, size |-> CHUNK_SIZE]
    OBVIOUS
  <2>1. /\ size <= CHUNK_SIZE /\ at \in mmap(CHUNK_SIZE)
        /\ mapped' = mapped \cup Bytes(at, CHUNK_SIZE) /\ carve(cell, size, list)
    BY <1>3, <2>c DEF MallocFromChunk
  <2>2. at \in Nat /\ Disjoint(Bytes(at, CHUNK_SIZE), mapped)
    BY <2>1, mmapIs, Constants
  <2>3. cell \in Cell /\ cell.at = at /\ cell.size = CHUNK_SIZE
        /\ CellBytes(cell) = Bytes(at, CHUNK_SIZE)
    BY <2>2, <2>c, Constants DEF Cell, CellBytes
  <2>4. Parted(list, real, lost, CellBytes(cell), mapped')
    BY <2>1, <2>2, <2>3, GetMapped
  <2>5. /\ at \notin DOMAIN real /\ Parted(list', With(real, at, size), lost', {}, mapped')
        /\ handed_out(at, size)
    <3>1. size <= cell.size
      BY <2>1, <2>3
    <3>m. PICK map : map = mapped'
      OBVIOUS
    <3>2. Parted(list, real, lost, CellBytes(cell), map)
      BY <2>4, <3>m
    <3>3. /\ cell.at \notin DOMAIN real
          /\ Parted(list', With(real, cell.at, size), lost', {}, map)
          /\ handed_out(cell.at, size)
      BY <1>0, <2>1, <2>3, <3>1, <3>2, CarveKeeps
    <3> QED BY <2>3, <3>3, <3>m
  <2> QED BY <1>s, <2>2, <2>5
<1> QED BY <1>s, <1>1, <1>2, <1>3 DEF hw06_malloc

LEMMA FreeKeeps ==
  ASSUME NEW real, Parted(list, real, lost, {}, mapped),
         NEW at \in DOMAIN real, real[at] = live[at], hw06_free(at)
  PROVE  /\ Parted(list', Less(real, at), lost', {}, mapped')
         /\ live' = [b \in DOMAIN live \ {at} |-> live[b]]
<1>1. Parted(list, Less(real, at), lost, Bytes(at, live[at]), mapped)
  <2>1. Parted(list, Less(real, at), lost, Bytes(at, real[at]), mapped)
    BY Return
  <2> QED BY <2>1
<1>2. lost' = lost /\ live' = [b \in DOMAIN live \ {at} |-> live[b]]
  BY DEF hw06_free
<1>3. CASE mapped' = mapped \ Bytes(at, live[at]) /\ list' = list
  <2>1. /\ Disjoint(Bytes(at, live[at]), Covered(list))
        /\ Disjoint(Bytes(at, live[at]), Blocks(Less(real, at)))
        /\ Disjoint(Bytes(at, live[at]), lost)
    BY <1>1 DEF Parted
  <2>2. Parted(list, Less(real, at), lost \ Bytes(at, live[at]), {}, mapped \ Bytes(at, live[at]))
    BY <1>1, <2>1, GetUnmapped
  <2>3. lost \ Bytes(at, live[at]) = lost
    BY <2>1 DEF Disjoint
  <2> QED BY <1>2, <1>3, <2>2, <2>3
<1>4. CASE list' = insert(list, [at |-> at, size |-> live[at]]) /\ mapped' = mapped
  <2>c. PICK cell : cell = [at |-> at, size |-> live[at]]
    OBVIOUS
  <2>1. at \in Nat /\ live[at] \in Nat \ {0}
    BY DEF Parted, BlocksApart
  <2>2. cell \in Cell /\ CellBytes(cell) = Bytes(at, live[at])
    BY <2>1, <2>c DEF Cell, CellBytes
  <2>3. Good(list) /\ Disjoint(CellBytes(cell), Covered(list))
    BY <1>1, <2>2 DEF Parted
  <2>4. Good(list') /\ Covered(list') = Covered(list) \cup CellBytes(cell)
    BY <1>4, <2>2, <2>3, <2>c, InsertKeeps
  <2>5. Parted(list', Less(real, at), lost, {}, mapped)
    BY <1>1, <2>2, <2>4, Put
  <2> QED BY <1>2, <1>4, <2>5
<1> QED BY <1>3, <1>4 DEF hw06_free

-----------------------------------------------------------------------------
(***************************************************************************)
(* Blocks come to clients and go from them.                                *)
(***************************************************************************)
LEMMA BagFacts ==
  ASSUME NEW bag, bag = [e \in DOMAIN bag |-> 1], NEW r
  PROVE  /\ r \notin DOMAIN bag => BagAdd(bag, r) = [e \in DOMAIN bag \cup {r} |-> 1]
         /\ r \in DOMAIN bag => BagRemove(bag, r) = [e \in DOMAIN bag \ {r} |-> 1]
<1>0. \A e \in DOMAIN bag : bag[e] = 1
  OBVIOUS
<1>1. ASSUME r \notin DOMAIN bag PROVE BagAdd(bag, r) = [e \in DOMAIN bag \cup {r} |-> 1]
  <2>1. BagAdd(bag, r) = [e \in DOMAIN bag \cup {r} |-> IF e = r THEN 1 ELSE bag[e]]
    BY <1>1 DEF BagAdd
  <2> QED BY <1>0, <2>1
<1>2. ASSUME r \in DOMAIN bag PROVE BagRemove(bag, r) = [e \in DOMAIN bag \ {r} |-> 1]
  <2>1. BagRemove(bag, r) = [e \in DOMAIN bag \ {r} |-> bag[e]]
    BY <1>0, <1>2 DEF BagRemove
  <2> QED BY <1>0, <2>1
<1> QED BY <1>1, <1>2

\* What the invariant says of the blocks in the hands of clients.
LEMMA HeldFacts ==
  ASSUME AllInv, ~broken, NEW b \in DOMAIN held
  PROVE  /\ b \in [at : Nat, len : Sizes \cup NuSizes]
         /\ b.at \in Nat /\ b.len \in Nat \ {0} /\ b.len \in Sizes \cup NuSizes
         /\ b = [at |-> b.at, len |-> b.len]
         /\ b.at - HEADER \in DOMAIN live /\ b.at - HEADER \in Nat
         /\ Real[b.at - HEADER] \in Nat \ {0}
         /\ Real[b.at - HEADER] >= b.len + HEADER
         /\ b.at - HEADER \in Held /\ b.at - HEADER \notin ToSet(stack)
         /\ \A c \in DOMAIN held : b.at - HEADER = c.at - HEADER => b = c
<1>1. b \in [at : Nat, len : Sizes \cup NuSizes]
  BY DEF AllInv, HeldOK
<1>2. /\ b.at - HEADER \in DOMAIN live
      /\ Real[b.at - HEADER] >= b.len + HEADER
  BY DEF AllInv, HeldOK
<1>3. BlocksApart(Real) /\ DOMAIN Real = DOMAIN live
  BY DEF AllInv, Parted, Real
<1>4. b.at - HEADER \in Nat /\ Real[b.at - HEADER] \in Nat \ {0}
  BY <1>2, <1>3 DEF BlocksApart
<1>5. /\ b.at \in Nat /\ b.len \in Nat \ {0} /\ b.len \in Sizes \cup NuSizes
      /\ b = [at |-> b.at, len |-> b.len]
  BY <1>1, Constants
<1>6. b.at - HEADER \in Held /\ b.at - HEADER \notin ToSet(stack)
  <2>1. b.at - HEADER \in Held
    BY DEF Held, BagToSet
  <2> QED BY <2>1 DEF AllInv, Owned
<1>7. ASSUME NEW c \in DOMAIN held, b.at - HEADER = c.at - HEADER PROVE b = c
  <2>1. c.at \in Nat
    BY DEF AllInv, HeldOK
  <2>2. b.at = c.at
    BY <1>5, <1>7, <2>1, Constants
  <2> QED BY <2>2 DEF AllInv, HeldOK
<1> QED BY <1>1, <1>2, <1>4, <1>5, <1>6, <1>7

LEMMA Gained ==
  ASSUME AllInv, ~broken, NEW at \in Nat, at \notin DOMAIN live,
         NEW size \in Int, handed_out(at, size),
         NEW len \in Sizes \cup NuSizes, held' = BagAdd(held, [at |-> at + HEADER, len |-> len]),
         version' = version, stack' = stack
  PROVE  /\ Real' = With(Real, at, Extent(at)')
         /\ DOMAIN live' = DOMAIN live \cup {at} /\ live'[at] = size
         /\ Small' = Small \cup (IF len <= CELL_SIZE THEN {at} ELSE {})
         /\ Owned' /\ Counted'
         /\ Extent(at)' >= len + HEADER => HeldOK'
         /\ (version \in {"nu_malloc", "nu_mem"} => size \in Nat \ {0})
              /\ (version = "nu_mem" /\ size >= CHUNK_SIZE => at % PAGE = 0) => Headers'
         /\ (Layered /\ len > CELL_SIZE => size = len + HEADER)
              /\ (version = "opt_mem" /\ len <= CELL_SIZE => size = SMALL) => Layers'
<1>r. PICK r : r = [at |-> at + HEADER, len |-> len]
  OBVIOUS
<1>0. r.at = at + HEADER /\ r.len = len /\ r.at \in Nat /\ r.at - HEADER = at /\ len \in Nat
  <2>1. r.at = at + HEADER /\ r.len = len
    BY <1>r
  <2> QED BY <2>1, Constants
<1>1. r \notin DOMAIN held
  BY <1>0, HeldFacts
<1>2. held' = [e \in DOMAIN held \cup {r} |-> 1] /\ DOMAIN held' = DOMAIN held \cup {r}
  <2>1. held = [e \in DOMAIN held |-> 1]
    BY DEF AllInv, HeldOK
  <2>2. held' = [e \in DOMAIN held \cup {r} |-> 1]
    <3>1. BagAdd(held, r) = [e \in DOMAIN held \cup {r} |-> 1]
      BY <1>1, <2>1, BagFacts
    <3> QED BY <1>r, <3>1
  <2> QED BY <2>2
<1>3. /\ DOMAIN live' = DOMAIN live \cup {at} /\ live'[at] = size
      /\ \A a \in DOMAIN live : live'[a] = live[a] /\ a # at
      /\ live' = [a \in DOMAIN live' |-> live'[a]]
  BY DEF handed_out
<1>4. Small' = Small \cup (IF len <= CELL_SIZE THEN {at} ELSE {})
  BY <1>0, <1>2 DEF Small
<1>5. Layered' = Layered
  BY DEF Layered
<1>6. \A a \in DOMAIN live : Extent(a)' = Extent(a)
  <2>1. ASSUME NEW a \in DOMAIN live PROVE Extent(a)' = Extent(a)
    <3>1. a \in Small' <=> a \in Small
      BY <1>3, <1>4
    <3> QED BY <1>3, <1>5, <3>1 DEF Extent
  <2> QED BY <2>1
<1>7. Real' = With(Real, at, Extent(at)')
  <2>1. DOMAIN Real = DOMAIN live /\ \A a \in DOMAIN live : Real[a] = Extent(a)
    BY DEF Real
  <2>2. Real' = [a \in DOMAIN live' |-> Extent(a)']
    BY DEF Real
  <2>3. \A a \in DOMAIN live' : Extent(a)' = IF a = at THEN Extent(at)' ELSE Real[a]
    BY <1>3, <1>6, <2>1
  <2> QED BY <1>3, <2>1, <2>2, <2>3 DEF With
<1>8. Held' = Held \cup {at}
  BY <1>0, <1>2 DEF Held, BagToSet
<1>9. Owned'
  <2>1. ToSet(stack') = ToSet(stack) /\ ToSet(stack) \subseteq DOMAIN live
    BY DEF AllInv, Owned
  <2> QED BY <1>3, <1>8, <2>1 DEF AllInv, Owned
<1>10. Counted'
  <2>1. ASSUME stack # <<>> PROVE Head(stack) \in DOMAIN live
    <3>1. stack \in Seq(Nat)
      BY DEF AllInv, Owned
    <3>2. 1 \in DOMAIN stack /\ Head(stack) = stack[1]
      BY <2>1, <3>1
    <3>3. Head(stack) \in ToSet(stack)
      BY <3>2 DEF ToSet
    <3> QED BY <3>3 DEF AllInv, Owned
  <2>2. stack # <<>> => live'[Head(stack)] = live[Head(stack)]
    BY <1>3, <2>1
  <2> QED BY <2>2 DEF AllInv, Counted
<1>11. ASSUME Extent(at)' >= len + HEADER PROVE HeldOK'
  <2>1. held' = [b \in DOMAIN held' |-> 1]
    BY <1>2
  <2>2. ASSUME NEW b \in DOMAIN held' PROVE b \in [at : Nat, len : Sizes \cup NuSizes]
    BY <1>0, <1>2, <1>r, HeldFacts
  <2>3. ASSUME NEW b \in DOMAIN held'
        PROVE  b.at - HEADER \in DOMAIN live' /\ Real'[b.at - HEADER] >= b.len + HEADER
    <3>1. CASE b = r
      <4>1. Real'[at] = Extent(at)'
        BY <1>7 DEF With
      <4> QED BY <1>0, <1>3, <1>11, <3>1, <4>1
    <3>2. CASE b # r
      <4>1. b \in DOMAIN held
        BY <1>2, <3>2
      <4>2. b.at - HEADER \in DOMAIN live /\ Real[b.at - HEADER] >= b.len + HEADER
        BY <4>1, HeldFacts
      <4>3. Real'[b.at - HEADER] = Real[b.at - HEADER]
        <5>1. b.at - HEADER \in DOMAIN Real /\ b.at - HEADER # at
          BY <1>3, <4>2 DEF Real
        <5> QED BY <1>7, <5>1 DEF With
      <4> QED BY <1>3, <4>2, <4>3
    <3> QED BY <3>1, <3>2
  <2>4. ASSUME NEW b \in DOMAIN held', NEW c \in DOMAIN held', b.at = c.at PROVE b = c
    <3>1. CASE b = r /\ c = r  BY <3>1
    <3>2. CASE b # r /\ c # r
      BY <1>2, <2>4, <3>2 DEF AllInv, HeldOK
    <3>3. CASE b = r /\ c # r
      <4>1. c \in DOMAIN held /\ c.at - HEADER = at
        BY <1>0, <1>2, <2>4, <3>3
      <4> QED BY <4>1, HeldFacts
    <3>4. CASE b # r /\ c = r
      <4>1. b \in DOMAIN held /\ b.at - HEADER = at
        BY <1>0, <1>2, <2>4, <3>4
      <4> QED BY <4>1, HeldFacts
    <3> QED BY <3>1, <3>2, <3>3, <3>4
  <2> QED BY <2>1, <2>2, <2>3, <2>4 DEF HeldOK
<1>12. ASSUME version \in {"nu_malloc", "nu_mem"} => size \in Nat \ {0},
              version = "nu_mem" /\ size >= CHUNK_SIZE => at % PAGE = 0
       PROVE  Headers'
  <2>1. Headers
    BY DEF AllInv
  <2>2. \A a \in DOMAIN live' : live'[a] \in Int
    BY <1>3, <2>1 DEF Headers
  <2>3. version \in {"nu_malloc", "nu_mem"} => \A a \in DOMAIN live' : live'[a] \in Nat \ {0}
    BY <1>3, <1>12, <2>1 DEF Headers
  <2>4. version = "nu_mem" => \A a \in DOMAIN live' : live'[a] >= CHUNK_SIZE => a % PAGE = 0
    BY <1>3, <1>12, <2>1 DEF Headers
  <2> QED BY <1>3, <2>2, <2>3, <2>4 DEF Headers
<1>13. ASSUME Layered /\ len > CELL_SIZE => size = len + HEADER,
              version = "opt_mem" /\ len <= CELL_SIZE => size = SMALL
       PROVE  Layers'
  <2>1. ASSUME NEW b \in DOMAIN held', Layered, b.len > CELL_SIZE
        PROVE  live'[b.at - HEADER] = b.len + HEADER
    <3>1. CASE b = r
      BY <1>0, <1>3, <1>13, <2>1, <3>1
    <3>2. CASE b # r
      <4>1. b \in DOMAIN held
        BY <1>2, <3>2
      <4>2. live[b.at - HEADER] = b.len + HEADER /\ b.at - HEADER \in DOMAIN live
        BY <2>1, <4>1, HeldFacts DEF AllInv, Layers
      <4> QED BY <1>3, <4>2
    <3> QED BY <3>1, <3>2
  <2>2. ASSUME version = "opt_mem", NEW a \in Small' PROVE live'[a] = SMALL
    <3>1. CASE a = at /\ len <= CELL_SIZE
      BY <1>3, <1>13, <2>2, <3>1
    <3>2. CASE a \in Small
      <4>1. Small \subseteq DOMAIN live
        BY HeldFacts DEF Small, AllInv, Owned
      <4> QED BY <1>3, <2>2, <3>2, <4>1 DEF AllInv, Layers
    <3> QED BY <1>4, <3>1, <3>2
  <2>3. SMALL' = SMALL
    BY DEF SMALL
  <2> QED BY <1>5, <2>1, <2>2, <2>3 DEF Layers
<1> QED BY <1>3, <1>4, <1>7, <1>9, <1>10, <1>11, <1>12, <1>13

LEMMA Dropped ==
  ASSUME AllInv, ~broken, NEW b \in DOMAIN held, NEW at, at = b.at - HEADER,
         live' = [a \in DOMAIN live \ {at} |-> live[a]],
         held' = BagRemove(held, b), version' = version, stack' = stack
  PROVE  /\ Real' = Less(Real, at) /\ at \in DOMAIN Real
         /\ Headers' /\ HeldOK' /\ Layers' /\ Owned' /\ Counted'
<1>1. /\ at \in DOMAIN live /\ at \in Held /\ at \notin ToSet(stack)
      /\ \A c \in DOMAIN held : c.at - HEADER = at => c = b
  BY HeldFacts
<1>2. DOMAIN held' = DOMAIN held \ {b} /\ held' = [c \in DOMAIN held' |-> 1]
  <2>1. held = [c \in DOMAIN held |-> 1]
    BY DEF AllInv, HeldOK
  <2>2. BagRemove(held, b) = [c \in DOMAIN held \ {b} |-> 1]
    BY <2>1, BagFacts
  <2> QED BY <2>2
<1>3. /\ DOMAIN live' = DOMAIN live \ {at} /\ live' = [a \in DOMAIN live' |-> live'[a]]
      /\ \A a \in DOMAIN live' : live'[a] = live[a] /\ a # at
  OBVIOUS
<1>4. \A a \in DOMAIN live' : a \in Small' <=> a \in Small
  BY <1>1, <1>2, <1>3 DEF Small
<1>5. Layered' = Layered /\ SMALL' = SMALL
  BY DEF Layered, SMALL
<1>6. \A a \in DOMAIN live' : Extent(a)' = Extent(a)
  <2>1. ASSUME NEW a \in DOMAIN live' PROVE Extent(a)' = Extent(a)
    <3>1. (a \in Small)' <=> a \in Small
      BY <1>4
    <3>2. live'[a] = live[a]
      BY <1>3
    <3> QED BY <1>5, <3>1, <3>2 DEF Extent
  <2> QED BY <2>1
<1>7. DOMAIN Real = DOMAIN live /\ \A a \in DOMAIN live : Real[a] = Extent(a)
  BY DEF Real
<1>8. Real' = Less(Real, at)
  <2>1. Real' = [a \in DOMAIN live' |-> Extent(a)']
    BY DEF Real
  <2>2. \A a \in DOMAIN live' : Extent(a)' = Real[a]
    BY <1>3, <1>6, <1>7
  <2> QED BY <1>3, <1>7, <2>1, <2>2 DEF Less
<1>9. Headers'
  BY <1>3 DEF AllInv, Headers
<1>10. ASSUME NEW c \in DOMAIN held'
       PROVE  c \in DOMAIN held /\ c.at - HEADER \in DOMAIN live' /\ c.at - HEADER \in DOMAIN live
  BY <1>1, <1>2, <1>3, HeldFacts
<1>11. HeldOK'
  <2>1. ASSUME NEW c \in DOMAIN held' PROVE Real'[c.at - HEADER] >= c.len + HEADER
    <3>1. Real[c.at - HEADER] >= c.len + HEADER
      BY <1>10, HeldFacts
    <3>2. Real'[c.at - HEADER] = Real[c.at - HEADER]
      BY <1>3, <1>7, <1>8, <1>10 DEF Less
    <3> QED BY <3>1, <3>2
  <2>2. HeldOK
    BY DEF AllInv
  <2> QED BY <1>2, <1>10, <2>1, <2>2 DEF HeldOK
<1>12. Layers'
  <2>1. Layers
    BY DEF AllInv
  <2>2. Small' \subseteq DOMAIN live'
    <3>1. ToSet(stack) \subseteq DOMAIN live'
      BY <1>1, <1>3 DEF AllInv, Owned
    <3> QED BY <1>10, <3>1 DEF Small
  <2>3. \A a \in Small' : a \in Small /\ live'[a] = live[a]
    BY <1>3, <1>4, <2>2
  <2>4. \A c \in DOMAIN held' : live'[c.at - HEADER] = live[c.at - HEADER] /\ c \in DOMAIN held
    BY <1>3, <1>10
  <2> QED BY <1>5, <2>1, <2>3, <2>4 DEF Layers
<1>13. Held' = Held \ {at}
  BY <1>1, <1>2 DEF Held, BagToSet
<1>14. Owned'
  <2>1. Owned
    BY DEF AllInv
  <2>2. ToSet(stack') = ToSet(stack)
    OBVIOUS
  <2> QED BY <1>1, <1>3, <1>13, <2>1, <2>2 DEF Owned
<1>15. Counted'
  <2>1. ASSUME stack # <<>> PROVE Head(stack) \in DOMAIN live'
    <3>1. stack \in Seq(Nat)
      BY DEF AllInv, Owned
    <3>2. 1 \in DOMAIN stack /\ Head(stack) = stack[1]
      BY <2>1, <3>1
    <3>3. Head(stack) \in ToSet(stack)
      BY <3>2 DEF ToSet
    <3> QED BY <1>1, <1>3, <3>3 DEF AllInv, Owned
  <2>2. stack # <<>> => live'[Head(stack)] = live[Head(stack)]
    BY <1>3, <2>1
  <2> QED BY <2>2 DEF AllInv, Counted
<1> QED BY <1>1, <1>7, <1>8, <1>9, <1>11, <1>12, <1>14, <1>15

-----------------------------------------------------------------------------
(***************************************************************************)
(* NuMalloc (hw11), whose free list is that of hw07.                       *)
(***************************************************************************)
LEMMA SameInsert ==
  ASSUME NEW cells, NEW c
  PROVE  M!insert(cells, c) = insert(cells, c)
BY Zenon DEF M!insert, insert, M!coalesce, coalesce, M!SelectInSubSeq, SelectInSubSeq,
             M!InsertAt, InsertAt, M!Min, Min

LEMMA SameCarve ==
  ASSUME NEW cell, NEW size, NEW cells
  PROVE  /\ M!carve(cell, size, cells) <=> carve(cell, size, cells)
         /\ M!handed_out(cell.at, size) <=> handed_out(cell.at, size)
BY SameInsert, Zenon DEF M!carve, carve, M!handed_out, handed_out, M!CellBytes, CellBytes,
                         M!Bytes, Bytes

LEMMA SameMmap == \A size : M!mmap(size) = mmap(size)
BY DEF M!mmap, mmap, M!Address, Address

LEMMA SameMalloc ==
  ASSUME NEW usize, NEW at
  PROVE  M!hw06_malloc(usize, at) <=> hw06_malloc(usize, at)
<1>s. PICK size : size = alloc_size(usize)
  OBVIOUS
<1>1. M!alloc_size(usize) = size
  BY <1>s DEF M!alloc_size, alloc_size
<1>2. M!MallocLarge(size, at) <=> MallocLarge(size, at)
  BY SameMmap, Zenon DEF M!MallocLarge, MallocLarge, M!handed_out, handed_out, M!Bytes, Bytes
<1>3. M!MallocFromChunk(size, at) <=> MallocFromChunk(size, at)
  BY SameMmap, SameCarve, Zenon DEF M!MallocFromChunk, MallocFromChunk, M!Bytes, Bytes
<1>4. M!MallocFromList(size, at) <=> MallocFromList(size, at)
  <2> DEFINE I == {k \in 1 .. Len(list) : list[k].size >= size}
             k == IF I # {} THEN Min(I) ELSE 0
  <2>1. M!MallocFromList(size, at) <=>
          /\ size <= CHUNK_SIZE /\ k # 0 /\ at = list[k].at
          /\ M!carve(list[k], size, RemoveAt(list, k)) /\ UNCHANGED mapped
    BY Zenon DEF M!MallocFromList, M!SelectInSeq, M!Min, Min, M!RemoveAt, RemoveAt
  <2>2. MallocFromList(size, at) <=>
          /\ size <= CHUNK_SIZE /\ k # 0 /\ at = list[k].at
          /\ carve(list[k], size, RemoveAt(list, k)) /\ UNCHANGED mapped
    BY Zenon DEF MallocFromList, SelectInSeq
  <2> HIDE DEF k
  <2> QED BY <2>1, <2>2, SameCarve, Zenon
<1> QED BY <1>s, <1>1, <1>2, <1>3, <1>4, Zenon DEF M!hw06_malloc, hw06_malloc

LEMMA SameFree ==
  ASSUME NEW at
  PROVE  M!hw06_free(at) <=> hw06_free(at)
BY SameInsert, Zenon DEF M!hw06_free, hw06_free, M!Bytes, Bytes

\* malloc of NuMalloc, in xmalloc and in xrealloc.
LEMMA MMalloc ==
  ASSUME AllInv, ~broken, version = "nu_malloc", NEW size \in Sizes, M!malloc(size),
         version' = version, stack' = stack, broken' = broken, search' = search
  PROVE  AllInv'
<1>1. PICK at \in Address : hw06_malloc(size, at)
                            /\ held' = BagAdd(held, [at |-> at + HEADER, len |-> size])
  BY SameMalloc DEF M!malloc, M!Address, Address, M!BagAdd, BagAdd
<1>s. PICK n : n = alloc_size(size)
  OBVIOUS
<1>2. Parted(list, Real, lost, {}, mapped) /\ DOMAIN Real = DOMAIN live
  BY DEF AllInv, Real
<1>r. PICK real : real = Real
  OBVIOUS
<1>0. size \in Nat \ {0}
  BY Constants
<1>3. /\ at \in Nat /\ at \notin DOMAIN live
      /\ Parted(list', With(real, at, n), lost', {}, mapped') /\ handed_out(at, n)
  BY <1>0, <1>1, <1>2, <1>r, <1>s, MallocKeeps
<1>4. n \in Nat \ {0} /\ n >= size + HEADER /\ n \in Int
  BY <1>0, <1>s, AllocSize
<1>5. size \in Sizes \cup NuSizes /\ ~Layered
  BY DEF Layered
<1>6. /\ Real' = With(real, at, Extent(at)') /\ live'[at] = n
      /\ Owned' /\ Counted'
      /\ Extent(at)' >= size + HEADER => HeldOK'
      /\ (version \in {"nu_malloc", "nu_mem"} => n \in Nat \ {0})
           /\ (version = "nu_mem" /\ n >= CHUNK_SIZE => at % PAGE = 0) => Headers'
      /\ (Layered /\ size > CELL_SIZE => n = size + HEADER)
           /\ (version = "opt_mem" /\ size <= CELL_SIZE => n = SMALL) => Layers'
  BY <1>1, <1>3, <1>4, <1>5, <1>r, Gained
<1>7. Extent(at)' = n
  BY <1>6 DEF Extent, Layered
<1>8. Parted(list', Real', lost', {}, mapped')
  BY <1>3, <1>6, <1>7
<1>9. HeldOK' /\ Headers' /\ Layers'
  BY <1>4, <1>5, <1>6, <1>7
<1>10. InOrder'
  BY <1>3 DEF Parted, InOrder
<1>11. Shape'
  BY DEF AllInv, Shape, Layered
<1> QED BY <1>6, <1>8, <1>9, <1>10, <1>11 DEF AllInv

\* What is read of the list allocator, and of the blocks, when only these are left alone.
LEMMA SameShape ==
  ASSUME Shape, ~broken, version' = version, stack' = stack, search' = search,
         broken' \in BOOLEAN, broken' => moving' = {} /\ version # "opt_mem",
         version # "nu_malloc" => moving' = {}
  PROVE  Shape'
BY DEF Shape, Layered

LEMMA MFree ==
  ASSUME AllInv, ~broken, version = "nu_malloc", NEW b \in DOMAIN held, M!free(b),
         version' = version, stack' = stack, broken' = broken, search' = search
  PROVE  AllInv'
<1>at. PICK at : at = b.at - HEADER
  OBVIOUS
<1>1. hw06_free(at) /\ held' = BagRemove(held, b)
  BY <1>at, SameFree DEF M!free, M!BagRemove, BagRemove
<1>r. PICK real : real = Real
  OBVIOUS
<1>2. Parted(list, real, lost, {}, mapped) /\ DOMAIN real = DOMAIN live
  BY <1>r DEF AllInv, Real
<1>3. at \in DOMAIN live
  BY <1>at, HeldFacts
<1>4. real[at] = live[at]
  BY <1>3, <1>r DEF Real, Extent, Layered
<1>5. /\ Parted(list', Less(real, at), lost', {}, mapped')
      /\ live' = [a \in DOMAIN live \ {at} |-> live[a]]
  BY <1>1, <1>2, <1>3, <1>4, FreeKeeps
<1>6. Real' = Less(real, at) /\ Headers' /\ HeldOK' /\ Layers' /\ Owned' /\ Counted'
  BY <1>1, <1>5, <1>at, <1>r, Dropped
<1>7. InOrder'
  BY <1>5 DEF Parted, InOrder
<1>8. Shape'
  BY DEF AllInv, Shape, Layered
<1> QED BY <1>5, <1>6, <1>7, <1>8 DEF AllInv

\* A block stays where it is and counts as longer.
LEMMA MKeep ==
  ASSUME AllInv, ~broken, version = "nu_malloc", NEW b \in DOMAIN held, NEW size \in Sizes,
         size + HEADER <= live[b.at - HEADER],
         held' = BagAdd(BagRemove(held, b), [b EXCEPT !.len = size]),
         fvars' = fvars, moving' = moving,
         version' = version, stack' = stack, broken' = broken, search' = search
  PROVE  AllInv'
<1>r. PICK r : r = [b EXCEPT !.len = size]
  OBVIOUS
<1>0. /\ b \in [at : Nat, len : Sizes \cup NuSizes] /\ b.at - HEADER \in DOMAIN live
      /\ b.at \in Nat
  BY HeldFacts
<1>1. r.at = b.at /\ r.len = size /\ r \in [at : Nat, len : Sizes \cup NuSizes]
  BY <1>0, <1>r
<1>2. \A c \in DOMAIN held : c.at = b.at => c = b
  BY DEF AllInv, HeldOK
<1>3. held' = [c \in (DOMAIN held \ {b}) \cup {r} |-> 1]
  <2>1. held = [c \in DOMAIN held |-> 1]
    BY DEF AllInv, HeldOK
  <2>2. BagRemove(held, b) = [c \in DOMAIN held \ {b} |-> 1]
    BY <2>1, BagFacts
  <2>g. PICK bag : bag = BagRemove(held, b)
    OBVIOUS
  <2>3. DOMAIN bag = DOMAIN held \ {b} /\ bag = [c \in DOMAIN bag |-> 1]
    BY <2>2, <2>g
  <2>4. r \notin DOMAIN bag
    BY <1>1, <1>2, <2>3
  <2>5. BagAdd(bag, r) = [c \in DOMAIN bag \cup {r} |-> 1]
    BY <2>3, <2>4, BagFacts
  <2> QED BY <1>r, <2>3, <2>5, <2>g
<1>4. DOMAIN held' = (DOMAIN held \ {b}) \cup {r} /\ held' = [c \in DOMAIN held' |-> 1]
  BY <1>3
<1>5. live' = live /\ list' = list /\ lost' = lost /\ mapped' = mapped
  BY DEF fvars
<1>6. Real' = Real
  BY <1>5 DEF Real, Extent, Layered
<1>7. Held' = Held
  <2>1. Held' = {c.at - HEADER : c \in DOMAIN held'} /\ Held = {c.at - HEADER : c \in DOMAIN held}
    BY DEF Held, BagToSet
  <2> QED BY <1>1, <1>4, <2>1
<1>8. HeldOK'
  <2>1. ASSUME NEW c \in DOMAIN held'
        PROVE  /\ c \in [at : Nat, len : Sizes \cup NuSizes]
               /\ c.at - HEADER \in DOMAIN live' /\ Real'[c.at - HEADER] >= c.len + HEADER
    <3>1. CASE c = r
      <4>1. Real'[b.at - HEADER] = live[b.at - HEADER]
        BY <1>0, <1>6 DEF Real, Extent, Layered
      <4>2. live[b.at - HEADER] \in Int /\ size \in Int /\ HEADER \in Int
        BY <1>0, Constants DEF AllInv, Headers
      <4> QED BY <1>0, <1>1, <1>5, <3>1, <4>1, <4>2
    <3>2. CASE c # r
      BY <1>4, <1>5, <1>6, <3>2, HeldFacts
    <3> QED BY <3>1, <3>2
  <2>2. ASSUME NEW c \in DOMAIN held', NEW d \in DOMAIN held', c.at = d.at PROVE c = d
    <3>1. CASE c = r \/ d = r
      BY <1>1, <1>2, <1>4, <2>2, <3>1
    <3>2. CASE c # r /\ d # r
      BY <1>4, <2>2, <3>2 DEF AllInv, HeldOK
    <3> QED BY <3>1, <3>2
  <2> QED BY <1>4, <2>1, <2>2 DEF HeldOK
<1>9. Headers' /\ Layers' /\ Owned' /\ Counted' /\ InOrder'
  BY <1>5, <1>7 DEF AllInv, Headers, Layers, Layered, Owned, Counted, InOrder
<1>10. Parted(list', Real', lost', {}, mapped')
  BY <1>5, <1>6 DEF AllInv
<1>11. Shape'
  BY DEF AllInv, Shape, Layered
<1> QED BY <1>8, <1>9, <1>10, <1>11 DEF AllInv

LEMMA BreaksOnly ==
  ASSUME AllInv, ~broken, version # "opt_mem", broken' = TRUE, moving' = {},
         UNCHANGED <<list, version, stack, search>>, version = "counted" => live' = live
  PROVE  AllInv'
BY DEF AllInv, Shape, InOrder, Counted, Layered, SMALL, Garbage

LEMMA MStep ==
  ASSUME AllInv, version = "nu_malloc", M!MNext, UNCHANGED <<version, stack, nuvars>>
  PROVE  AllInv'
<1>0. version' = version /\ stack' = stack /\ search' = search
  BY DEF nuvars
<1>1. ASSUME NEW size \in Sizes, M!xmalloc(size) PROVE AllInv'
  BY <1>0, <1>1, MMalloc DEF M!xmalloc, M!unlocked
<1>2. ASSUME NEW b \in DOMAIN held, M!xfree(b) PROVE AllInv'
  BY <1>0, <1>2, MFree DEF M!xfree, M!unlocked
<1>3. ASSUME NEW b \in DOMAIN held, NEW size \in Sizes, M!KeepBlock(b, size) PROVE AllInv'
  <2>0. ~broken /\ moving = {} /\ fvars' = fvars /\ moving' = moving
    BY <1>3 DEF M!KeepBlock, M!unlocked, M!fvars, fvars
  <2>1. CASE /\ size + HEADER <= live[b.at - HEADER]
             /\ held' = BagAdd(BagRemove(held, b), [b EXCEPT !.len = size])
             /\ broken' = broken
    BY <1>0, <2>0, <2>1, MKeep
  <2>2. CASE broken' = TRUE /\ held' = held
    BY <1>0, <2>0, <2>2, BreaksOnly DEF fvars
  <2> QED BY <1>3, <2>1, <2>2 DEF M!KeepBlock, M!BagAdd, BagAdd, M!BagRemove, BagRemove
<1>4. ASSUME NEW b \in DOMAIN held, M!ReadBeforeChunk(b) PROVE AllInv'
  <2>0. ~broken /\ moving' = {} /\ list' = list /\ broken' = TRUE
    BY <1>4 DEF M!ReadBeforeChunk, M!unlocked, M!fvars
  <2> QED BY <1>0, <2>0, BreaksOnly
<1>5. ASSUME NEW b \in DOMAIN held, NEW size \in Sizes, M!MoveBlock(b, size) PROVE AllInv'
  BY <1>0, <1>5, MMalloc DEF M!MoveBlock, M!unlocked
<1>6. ASSUME NEW b \in DOMAIN held, M!FreeMoved(b) PROVE AllInv'
  <2>1. ~broken
    BY <1>6 DEF M!FreeMoved, AllInv, Shape
  <2> QED BY <1>0, <1>6, <2>1, MFree DEF M!FreeMoved
<1>7. M!BagToSet(held) = DOMAIN held
  BY DEF M!BagToSet
<1>8. ASSUME NEW b \in DOMAIN held, NEW size \in Sizes, M!xrealloc(b, size) PROVE AllInv'
  BY <1>3, <1>4, <1>5, <1>6, <1>8 DEF M!xrealloc
<1>9. \/ \E size \in Sizes : M!xmalloc(size)
      \/ \E b \in DOMAIN held : M!xfree(b)
      \/ \E b \in DOMAIN held : \E size \in Sizes : M!xrealloc(b, size)
  BY <1>7 DEF M!MNext
<1> QED BY <1>1, <1>2, <1>8, <1>9

-----------------------------------------------------------------------------
(***************************************************************************)
(* The stack above the list (hw07).                                        *)
(***************************************************************************)
Injective(s) == \A j, k \in 1 .. Len(s) : s[j] = s[k] => j = k

LEMMA Popping ==
  ASSUME NEW s \in Seq(Nat), s # <<>>, Injective(s)
  PROVE  /\ Tail(s) \in Seq(Nat) /\ Len(Tail(s)) = Len(s) - 1 /\ Injective(Tail(s))
         /\ Head(s) \in Nat /\ Head(s) \in ToSet(s)
         /\ ToSet(Tail(s)) = ToSet(s) \ {Head(s)}
         /\ Tail(s) # <<>> => Head(Tail(s)) \in ToSet(Tail(s))
<1>t. PICK t : t = Tail(s)
  OBVIOUS
<1>1. /\ t \in Seq(Nat) /\ Len(t) = Len(s) - 1 /\ Len(s) \in Nat \ {0}
      /\ \A i \in 1 .. Len(t) : t[i] = s[i + 1]
      /\ Head(s) = s[1]
  BY <1>t
<1>2. DOMAIN s = 1 .. Len(s) /\ DOMAIN t = 1 .. Len(t)
  BY <1>1
<1>3. ToSet(s) = {s[i] : i \in 1 .. Len(s)} /\ ToSet(t) = {t[i] : i \in 1 .. Len(t)}
  BY <1>2 DEF ToSet
<1>4. 1 \in 1 .. Len(s) /\ \A i \in 1 .. Len(t) : i + 1 \in 1 .. Len(s) /\ i + 1 # 1
  BY <1>1
<1>5. ASSUME NEW i \in 1 .. Len(s), i # 1 PROVE \E j \in 1 .. Len(t) : i = j + 1
  <2>1. i - 1 \in 1 .. Len(t) /\ i = (i - 1) + 1
    BY <1>1, <1>5
  <2> QED BY <2>1
<1>6. ToSet(t) = ToSet(s) \ {s[1]}
  <2>1. ASSUME NEW i \in 1 .. Len(t) PROVE t[i] \in ToSet(s) /\ t[i] # s[1]
    BY <1>1, <1>3, <1>4 DEF Injective
  <2>2. ASSUME NEW i \in 1 .. Len(s), s[i] # s[1] PROVE s[i] \in ToSet(t)
    <3>1. PICK j \in 1 .. Len(t) : i = j + 1
      BY <1>5, <2>2
    <3>2. s[i] = t[j]
      BY <1>1, <3>1
    <3> QED BY <1>3, <3>2
  <2> QED BY <1>3, <2>1, <2>2
<1>7. Injective(t)
  <2>1. ASSUME NEW j \in 1 .. Len(t), NEW k \in 1 .. Len(t), t[j] = t[k] PROVE j = k
    <3>1. j + 1 = k + 1
      BY <1>1, <1>4, <2>1 DEF Injective
    <3> QED BY <3>1
  <2> QED BY <2>1 DEF Injective
<1>8. t # <<>> => Head(t) \in ToSet(t)
  <2>1. t # <<>> => 1 \in 1 .. Len(t) /\ Head(t) = t[1]
    BY <1>1
  <2> QED BY <1>3, <2>1
<1>9. s[1] \in Nat /\ s[1] \in ToSet(s)
  BY <1>3, <1>4
<1> QED BY <1>t, <1>1, <1>6, <1>7, <1>8, <1>9

LEMMA Pushing ==
  ASSUME NEW s \in Seq(Nat), NEW at \in Nat, at \notin ToSet(s), Injective(s)
  PROVE  /\ <<at>> \o s \in Seq(Nat) /\ Len(<<at>> \o s) = Len(s) + 1
         /\ Injective(<<at>> \o s) /\ Head(<<at>> \o s) = at
         /\ ToSet(<<at>> \o s) = ToSet(s) \cup {at}
<1>t. PICK t : t = <<at>> \o s
  OBVIOUS
<1>1. /\ t \in Seq(Nat) /\ Len(t) = Len(s) + 1 /\ Len(s) \in Nat
      /\ \A i \in 1 .. Len(t) : t[i] = IF i = 1 THEN at ELSE s[i - 1]
      /\ Head(t) = t[1]
  <2>1. t \in Seq(Nat) /\ Len(t) = Len(s) + 1 /\ Len(s) \in Nat
    BY <1>t
  <2>2. \A i \in 1 .. Len(t) : t[i] = IF i = 1 THEN at ELSE s[i - 1]
    BY <1>t
  <2> QED BY <2>1, <2>2
<1>3. ToSet(s) = {s[i] : i \in 1 .. Len(s)} /\ ToSet(t) = {t[i] : i \in 1 .. Len(t)}
  <2>1. DOMAIN s = 1 .. Len(s) /\ DOMAIN t = 1 .. Len(t)
    BY <1>1
  <2> QED BY <2>1 DEF ToSet
<1>4. \A i \in 1 .. Len(t) : i # 1 => i - 1 \in 1 .. Len(s)
  BY <1>1
<1>5. t[1] = at /\ 1 \in 1 .. Len(t)
  BY <1>1
<1>6. ToSet(t) = ToSet(s) \cup {at}
  <2>1. ASSUME NEW i \in 1 .. Len(t) PROVE t[i] \in ToSet(s) \cup {at}
    BY <1>1, <1>3, <1>4
  <2>2. ASSUME NEW i \in 1 .. Len(s) PROVE s[i] \in ToSet(t)
    <3>1. i + 1 \in 1 .. Len(t) /\ i + 1 # 1 /\ (i + 1) - 1 = i
      BY <1>1
    <3>2. t[i + 1] = s[i]
      BY <1>1, <3>1
    <3> QED BY <1>3, <3>1, <3>2
  <2> QED BY <1>3, <1>5, <2>1, <2>2
<1>7. Injective(t)
  <2>1. ASSUME NEW j \in 1 .. Len(t), NEW k \in 1 .. Len(t), t[j] = t[k] PROVE j = k
    <3>1. CASE j = 1 /\ k # 1
      BY <1>1, <1>3, <1>4, <2>1, <3>1
    <3>2. CASE j # 1 /\ k = 1
      BY <1>1, <1>3, <1>4, <2>1, <3>2
    <3>3. CASE j # 1 /\ k # 1
      <4>m. PICK m : m = j - 1
        OBVIOUS
      <4>n. PICK n : n = k - 1
        OBVIOUS
      <4>1. t[j] = s[m] /\ t[k] = s[n] /\ m \in 1 .. Len(s) /\ n \in 1 .. Len(s)
        BY <1>1, <1>4, <3>3, <4>m, <4>n
      <4>2. m = n
        BY <2>1, <4>1 DEF Injective
      <4>3. j = m + 1 /\ k = n + 1
        BY <1>1, <4>m, <4>n
      <4> QED BY <4>2, <4>3
    <3> QED BY <3>1, <3>2, <3>3
  <2> QED BY <2>1 DEF Injective
<1> QED BY <1>t, <1>1, <1>5, <1>6, <1>7

\* A small block is as long as the client of a small block may ask for, whatever its size
\* field has come to say.
LEMMA SameReal ==
  ASSUME AllInv, ~broken, Layered, version' = version, Small' = Small,
         DOMAIN live' = DOMAIN live, \A a \in DOMAIN live : a \notin Small => live'[a] = live[a]
  PROVE  Real' = Real
<1>1. Layered' = Layered /\ SMALL' = SMALL /\ version # "nu_mem"
  BY DEF Layered, SMALL
<1>2. \A a \in DOMAIN live : Extent(a)' = Extent(a)
  BY <1>1 DEF Extent
<1> QED BY <1>2 DEF Real

LEMMA BigApart ==
  ASSUME AllInv, ~broken, NEW b \in DOMAIN held, b.len > CELL_SIZE
  PROVE  b.at - HEADER \notin Small
<1>1. b.at - HEADER \notin ToSet(stack) /\ b.len \in Nat
      /\ \A c \in DOMAIN held : b.at - HEADER = c.at - HEADER => b = c
  BY HeldFacts
<1> QED BY <1>1, Constants DEF Small

\* A block goes from the stack to a client.
LEMMA Popped ==
  ASSUME AllInv, ~broken, Layered, stack # <<>>, NEW len \in Sizes, len <= CELL_SIZE,
         hand(Head(stack), len), stack' = Tail(stack), version' = version,
         live' = [a \in DOMAIN live' |-> live'[a]], DOMAIN live' = DOMAIN live,
         \A a \in DOMAIN live : live'[a] \in Int /\ (a \notin Small => live'[a] = live[a]),
         version = "opt_mem" => live' = live
  PROVE  Real' = Real /\ Headers' /\ HeldOK' /\ Layers' /\ Owned'
<1>at. PICK at : at = Head(stack)
  OBVIOUS
<1>0. /\ stack' \in Seq(Nat) /\ Injective(stack')
      /\ at \in Nat /\ at \in ToSet(stack) /\ ToSet(stack') = ToSet(stack) \ {at}
  <2>1. stack \in Seq(Nat) /\ Injective(stack)
    BY DEF AllInv, Owned, Injective
  <2> QED BY <1>at, <2>1, Popping
<1>1. at \in DOMAIN live /\ at \notin Held /\ at \in Small
  BY <1>0 DEF AllInv, Owned, Small
<1>r. PICK r : r = [at |-> at + HEADER, len |-> len]
  OBVIOUS
<1>2. /\ r.at = at + HEADER /\ r.len = len /\ r.at \in Nat /\ r.at - HEADER = at /\ len \in Nat
      /\ r \in [at : Nat, len : Sizes \cup NuSizes]
  <2>1. r.at = at + HEADER /\ r.len = len
    BY <1>r
  <2>2. at + HEADER \in Nat /\ (at + HEADER) - HEADER = at /\ len \in Nat
    BY <1>0, Constants
  <2> QED BY <1>r, <2>1, <2>2
<1>3. \A b \in DOMAIN held : b.at - HEADER \in Held /\ b.at - HEADER # at
  BY <1>1, HeldFacts
<1>4. held' = [e \in DOMAIN held \cup {r} |-> 1] /\ DOMAIN held' = DOMAIN held \cup {r}
  <2>1. held = [e \in DOMAIN held |-> 1]
    BY DEF AllInv, HeldOK
  <2>2. r \notin DOMAIN held
    BY <1>2, <1>3
  <2>3. BagAdd(held, r) = [e \in DOMAIN held \cup {r} |-> 1]
    BY <2>1, <2>2, BagFacts
  <2> QED BY <1>at, <1>r, <2>3 DEF hand
<1>5. Held' = Held \cup {at}
  <2>1. Held' = {c.at - HEADER : c \in DOMAIN held'} /\ Held = {c.at - HEADER : c \in DOMAIN held}
    BY DEF Held, BagToSet
  <2> QED BY <1>2, <1>4, <2>1
<1>6. Small' = Small
  BY <1>0, <1>2, <1>4 DEF Small
<1>7. Real' = Real
  BY <1>6, SameReal
<1>8. Owned'
  <2>1. Owned
    BY DEF AllInv
  <2> QED BY <1>0, <1>1, <1>5, <2>1 DEF Owned, Injective
<1>9. Headers'
  BY DEF AllInv, Headers, Layered
<1>10. HeldOK'
  <2>1. Real[at] >= len + HEADER
    <3>1. Real[at] = SMALL
      BY <1>1 DEF Real, Extent, Layered
    <3> QED BY <1>2, <3>1, Constants DEF SMALL
  <2>2. ASSUME NEW c \in DOMAIN held'
        PROVE  /\ c \in [at : Nat, len : Sizes \cup NuSizes]
               /\ c.at - HEADER \in DOMAIN live' /\ Real'[c.at - HEADER] >= c.len + HEADER
    <3>1. CASE c = r
      BY <1>1, <1>2, <1>7, <2>1, <3>1
    <3>2. CASE c # r
      BY <1>4, <1>7, <3>2, HeldFacts
    <3> QED BY <3>1, <3>2
  <2>3. ASSUME NEW c \in DOMAIN held', NEW d \in DOMAIN held', c.at = d.at PROVE c = d
    <3>1. CASE c = r \/ d = r
      BY <1>2, <1>3, <1>4, <2>3, <3>1
    <3>2. CASE c # r /\ d # r
      BY <1>4, <2>3, <3>2 DEF AllInv, HeldOK
    <3> QED BY <3>1, <3>2
  <2> QED BY <1>4, <2>2, <2>3 DEF HeldOK
<1>11. Layers'
  <2>1. ASSUME NEW c \in DOMAIN held', c.len > CELL_SIZE
        PROVE  live'[c.at - HEADER] = c.len + HEADER
    <3>1. c \in DOMAIN held
      BY <1>2, <1>4, <2>1, Constants
    <3>2. live[c.at - HEADER] = c.len + HEADER /\ c.at - HEADER \in DOMAIN live
      BY <2>1, <3>1, HeldFacts DEF AllInv, Layers
    <3> QED BY <2>1, <3>1, <3>2, BigApart
  <2>2. version = "opt_mem" => \A a \in Small' : live'[a] = SMALL'
    BY <1>6 DEF AllInv, Layers, SMALL
  <2> QED BY <2>1, <2>2 DEF Layers
<1> QED BY <1>7, <1>8, <1>9, <1>10, <1>11

\* A block goes from a client to the stack.
LEMMA Pushed ==
  ASSUME AllInv, ~broken, Layered, NEW b \in DOMAIN held, b.len <= CELL_SIZE,
         NEW at, at = b.at - HEADER,
         held' = BagRemove(held, b), stack' = <<at>> \o stack, version' = version,
         live' = [a \in DOMAIN live' |-> live'[a]], DOMAIN live' = DOMAIN live,
         \A a \in DOMAIN live : live'[a] \in Int /\ (a \notin Small => live'[a] = live[a]),
         version = "opt_mem" => live' = live
  PROVE  Real' = Real /\ Headers' /\ HeldOK' /\ Layers' /\ Owned'
<1>1. /\ at \in DOMAIN live /\ at \in Held /\ at \notin ToSet(stack) /\ at \in Nat
      /\ \A c \in DOMAIN held : c.at - HEADER = at => c = b
  BY HeldFacts
<1>0. /\ stack' \in Seq(Nat) /\ Injective(stack') /\ ToSet(stack') = ToSet(stack) \cup {at}
  <2>1. stack \in Seq(Nat) /\ Injective(stack)
    BY DEF AllInv, Owned, Injective
  <2> QED BY <1>1, <2>1, Pushing
<1>2. DOMAIN held' = DOMAIN held \ {b} /\ held' = [c \in DOMAIN held' |-> 1]
  <2>1. held = [c \in DOMAIN held |-> 1]
    BY DEF AllInv, HeldOK
  <2>2. BagRemove(held, b) = [c \in DOMAIN held \ {b} |-> 1]
    BY <2>1, BagFacts
  <2> QED BY <2>2
<1>5. Held' = Held \ {at}
  <2>1. Held' = {c.at - HEADER : c \in DOMAIN held'} /\ Held = {c.at - HEADER : c \in DOMAIN held}
    BY DEF Held, BagToSet
  <2> QED BY <1>1, <1>2, <2>1
<1>6. Small' = Small
  BY <1>0, <1>1, <1>2 DEF Small
<1>7. Real' = Real
  BY <1>6, SameReal
<1>8. Owned'
  <2>1. Owned
    BY DEF AllInv
  <2> QED BY <1>0, <1>1, <1>5, <2>1 DEF Owned, Injective
<1>9. Headers'
  BY DEF AllInv, Headers, Layered
<1>10. HeldOK'
  <2>1. HeldOK
    BY DEF AllInv
  <2> QED BY <1>2, <1>7, <2>1 DEF HeldOK
<1>11. Layers'
  <2>1. ASSUME NEW c \in DOMAIN held', c.len > CELL_SIZE
        PROVE  live'[c.at - HEADER] = c.len + HEADER
    <3>1. c \in DOMAIN held
      BY <1>2
    <3>2. live[c.at - HEADER] = c.len + HEADER /\ c.at - HEADER \in DOMAIN live
      BY <2>1, <3>1, HeldFacts DEF AllInv, Layers
    <3> QED BY <2>1, <3>1, <3>2, BigApart
  <2>2. version = "opt_mem" => \A a \in Small' : live'[a] = SMALL'
    BY <1>6 DEF AllInv, Layers, SMALL
  <2> QED BY <2>1, <2>2 DEF Layers
<1> QED BY <1>7, <1>8, <1>9, <1>10, <1>11

LEMMA LayeredShape ==
  ASSUME AllInv, ~broken, Layered, version' = version, broken' = broken,
         UNCHANGED <<moving, search>>
  PROVE  Shape'
BY DEF AllInv, Shape, Layered

LEMMA OneLess ==
  ASSUME NEW n \in Int, NEW s \in Int
  PROVE  (n - 1) * s = n * s - s /\ (n + 1) * s = n * s + s /\ n * s \in Int
OBVIOUS

LEMMA OptMalloc ==
  ASSUME AllInv, Layered, NEW len \in Sizes, nu_malloc(len), UNCHANGED <<moving, search>>
  PROVE  AllInv'
<1>0. ~broken /\ version' = version /\ broken' = broken
  BY DEF nu_malloc
<1>s. SMALL \in Nat /\ SMALL = HEADER + CELL_SIZE /\ len \in Nat \ {0}
  BY Constants DEF SMALL
<1>h. /\ live = [a \in DOMAIN live |-> live[a]] /\ \A a \in DOMAIN live : live[a] \in Int
      /\ Parted(list, Real, lost, {}, mapped) /\ Good(list)
  BY <1>0 DEF AllInv, Headers, InOrder
<1>v. version # "nu_mem"
  BY DEF Layered
<1>1. CASE pop(len)
  <2>1. /\ version = "opt_mem" /\ len <= CELL_SIZE /\ stack # <<>> /\ hand(Head(stack), len)
        /\ stack' = Tail(stack) /\ list' = list /\ live' = live /\ mapped' = mapped
        /\ lost' = lost
    BY <1>1 DEF pop, fvars
  <2>2. Real' = Real /\ Headers' /\ HeldOK' /\ Layers' /\ Owned'
    BY <1>0, <1>h, <2>1, Popped
  <2>3. InOrder' /\ Counted'
    BY <1>0, <1>h, <1>v, <2>1 DEF InOrder, Counted
  <2>4. Shape'
    BY <1>0, LayeredShape
  <2>5. Parted(list', Real', lost', {}, mapped')
    BY <1>h, <2>1, <2>2
  <2> QED BY <2>2, <2>3, <2>4, <2>5 DEF AllInv
<1>2. CASE pop_counted(len)
  <2>1. /\ version = "counted" /\ len <= CELL_SIZE /\ stack # <<>> /\ hand(Head(stack), len)
        /\ stack' = Tail(stack) /\ list' = list /\ mapped' = mapped /\ lost' = lost
        /\ live' = IF stack' = <<>> THEN live
                   ELSE [live EXCEPT ![Head(stack')] = live[Head(stack)] - SMALL]
    BY <1>2 DEF pop_counted
  <2>2. stack \in Seq(Nat) /\ Injective(stack)
    BY <1>0 DEF AllInv, Owned, Injective
  <2>3. /\ Head(stack) \in ToSet(stack) /\ ToSet(stack') = ToSet(stack) \ {Head(stack)}
        /\ stack' # <<>> => Head(stack') \in ToSet(stack')
        /\ Len(stack') = Len(stack) - 1
    BY <2>1, <2>2, Popping
  <2>4. ToSet(stack) \subseteq DOMAIN live /\ ToSet(stack) \subseteq Small
    BY <1>0 DEF AllInv, Owned, Small
  <2>5. live[Head(stack)] \in Int
    BY <1>h, <2>3, <2>4
  <2>6. /\ live' = [a \in DOMAIN live' |-> live'[a]] /\ DOMAIN live' = DOMAIN live
        /\ \A a \in DOMAIN live : live'[a] \in Int /\ (a \notin Small => live'[a] = live[a])
    <3>1. CASE stack' = <<>>
      BY <1>h, <2>1, <3>1
    <3>2. CASE stack' # <<>>
      <4>t. PICK t : t = Head(stack')
        OBVIOUS
      <4>n. PICK n : n = live[Head(stack)] - SMALL
        OBVIOUS
      <4>1. n \in Int /\ t \in Small
        BY <1>s, <2>3, <2>4, <2>5, <3>2, <4>n, <4>t
      <4>2. live' = [live EXCEPT ![t] = n]
        BY <2>1, <3>2, <4>n, <4>t
      <4> QED BY <1>h, <4>1, <4>2
    <3> QED BY <3>1, <3>2
  <2>7. Real' = Real /\ Headers' /\ HeldOK' /\ Layers' /\ Owned'
    BY <1>0, <2>1, <2>6, Popped
  <2>8. Counted'
    <3>1. ASSUME stack' # <<>> PROVE live'[Head(stack')] - Len(stack') * SMALL \in Garbage
      <4>1. live'[Head(stack')] = live[Head(stack)] - SMALL
        BY <1>h, <2>1, <2>3, <2>4, <3>1
      <4>n. PICK n : n = Len(stack)
        OBVIOUS
      <4>2. n \in Int /\ Len(stack') = n - 1 /\ SMALL \in Int
        BY <1>s, <2>2, <2>3, <4>n
      <4>3. (n - 1) * SMALL = n * SMALL - SMALL /\ n * SMALL \in Int
        BY <4>2, OneLess
      <4>4. live[Head(stack)] - n * SMALL \in Garbage
        BY <2>1, <4>n DEF AllInv, Counted
      <4>p. PICK p : p = n * SMALL
        OBVIOUS
      <4>5. (live[Head(stack)] - SMALL) - (p - SMALL) = live[Head(stack)] - p
        BY <2>5, <4>2, <4>3, <4>p
      <4> QED BY <4>1, <4>2, <4>3, <4>4, <4>5, <4>p
    <3> QED BY <3>1 DEF Counted, SMALL, Garbage
  <2>9. InOrder'
    BY <1>0, <1>h, <1>v, <2>1 DEF InOrder
  <2>10. Shape'
    BY <1>0, LayeredShape
  <2>11. Parted(list', Real', lost', {}, mapped')
    BY <1>h, <2>1, <2>7
  <2> QED BY <2>7, <2>8, <2>9, <2>10, <2>11 DEF AllInv
<1>3. ASSUME len <= CELL_SIZE => stack = <<>>, stack' = stack,
             NEW at, hw06_malloc(IF len <= CELL_SIZE THEN CELL_SIZE ELSE len, at), hand(at, len)
      PROVE  AllInv'
  <2>u. PICK usize : usize = IF len <= CELL_SIZE THEN CELL_SIZE ELSE len
    OBVIOUS
  <2>n. PICK n : n = alloc_size(usize)
    OBVIOUS
  <2>r. PICK real : real = Real
    OBVIOUS
  <2>1. usize \in Nat \ {0} /\ usize >= len
    BY <1>s, <2>u, Constants
  <2>2. n \in Nat \ {0} /\ n \in Int /\ n >= len + HEADER
    <3>1. n \in Nat \ {0} /\ n >= usize + HEADER
      BY <2>1, <2>n, AllocSize
    <3> QED BY <1>s, <2>1, <3>1, Constants
  <2>3. /\ len > CELL_SIZE => n = len + HEADER
        /\ len <= CELL_SIZE => n = SMALL
    BY <1>s, <2>n, <2>u, Constants DEF alloc_size
  <2>4. DOMAIN real = DOMAIN live /\ Parted(list, real, lost, {}, mapped)
    BY <1>h, <2>r DEF Real
  <2>5. hw06_malloc(usize, at)
    BY <1>3, <2>u
  <2>6. /\ at \in Nat /\ at \notin DOMAIN live
        /\ Parted(list', With(real, at, n), lost', {}, mapped') /\ handed_out(at, n)
    BY <2>1, <2>4, <2>5, <2>n, MallocKeeps
  <2>7. len \in Sizes \cup NuSizes /\ held' = BagAdd(held, [at |-> at + HEADER, len |-> len])
    BY <1>3 DEF hand
  <2>8. /\ Real' = With(real, at, Extent(at)') /\ live'[at] = n
        /\ Small' = Small \cup (IF len <= CELL_SIZE THEN {at} ELSE {})
        /\ Owned' /\ Counted'
        /\ Extent(at)' >= len + HEADER => HeldOK'
        /\ (version \in {"nu_malloc", "nu_mem"} => n \in Nat \ {0})
             /\ (version = "nu_mem" /\ n >= CHUNK_SIZE => at % PAGE = 0) => Headers'
        /\ (Layered /\ len > CELL_SIZE => n = len + HEADER)
             /\ (version = "opt_mem" /\ len <= CELL_SIZE => n = SMALL) => Layers'
    BY <1>0, <1>3, <2>2, <2>6, <2>7, <2>r, Gained
  <2>9. Extent(at)' = n
    <3>1. Layered' /\ SMALL' = SMALL /\ version' # "nu_mem"
      BY <1>0, <1>v DEF Layered, SMALL
    <3>2. len > CELL_SIZE \/ len <= CELL_SIZE
      BY <1>s, Constants
    <3>3. CASE len <= CELL_SIZE
      <4>1. at \in Small'
        BY <2>8, <3>3
      <4> QED BY <2>3, <3>1, <3>3, <4>1 DEF Extent
    <3>4. CASE len > CELL_SIZE
      <4>1. at \in Small' => n = SMALL
        <5>1. ~(len <= CELL_SIZE)
          BY <1>s, <3>4, Constants
        <5>2. Small' = Small
          BY <2>8, <5>1
        <5>3. Small \subseteq DOMAIN live
          BY <1>0, HeldFacts DEF Small, AllInv, Owned
        <5> QED BY <2>6, <5>2, <5>3
      <4> QED BY <2>8, <3>1, <4>1 DEF Extent
    <3> QED BY <3>2, <3>3, <3>4
  <2>10. Parted(list', Real', lost', {}, mapped')
    BY <2>6, <2>8, <2>9
  <2>11. HeldOK' /\ Headers' /\ Layers'
    BY <1>v, <2>2, <2>3, <2>8, <2>9
  <2>12. InOrder'
    BY <1>0, <1>v, <2>6 DEF Parted, InOrder
  <2>13. Shape'
    BY <1>0, LayeredShape
  <2> QED BY <2>8, <2>10, <2>11, <2>12, <2>13 DEF AllInv
<1> QED BY <1>1, <1>2, <1>3 DEF nu_malloc

LEMMA OptFree ==
  ASSUME AllInv, Layered, NEW b \in DOMAIN held, nu_free(b), UNCHANGED <<moving, search>>
  PROVE  AllInv'
<1>at. PICK at : at = b.at - HEADER
  OBVIOUS
<1>0. ~broken /\ version' = version /\ broken' = broken /\ held' = BagRemove(held, b)
  BY DEF nu_free
<1>b. /\ at \in Nat /\ at \in DOMAIN live /\ at \in Held /\ at \notin ToSet(stack)
      /\ b.len \in Nat \ {0}
      /\ \A c \in DOMAIN held : at = c.at - HEADER => b = c
  BY <1>0, <1>at, HeldFacts
<1>s. SMALL \in Nat /\ SMALL = HEADER + CELL_SIZE
  BY Constants DEF SMALL
<1>h. /\ live = [a \in DOMAIN live |-> live[a]] /\ \A a \in DOMAIN live : live[a] \in Int
      /\ Parted(list, Real, lost, {}, mapped) /\ Good(list) /\ stack \in Seq(Nat)
  BY <1>0 DEF AllInv, Headers, InOrder, Owned
<1>v. version # "nu_mem"
  BY DEF Layered
<1>sh. Shape'
  BY <1>0, LayeredShape
<1>l. live[at] = SMALL => b.len <= CELL_SIZE
  <2>1. ASSUME ~(b.len <= CELL_SIZE) PROVE live[at] # SMALL
    <3>1. b.len > CELL_SIZE
      BY <1>b, <2>1, Constants
    <3>2. live[at] = b.len + HEADER
      BY <1>0, <1>at, <3>1 DEF AllInv, Layers
    <3> QED BY <1>b, <1>s, <3>1, <3>2, Constants
  <2> QED BY <2>1
<1>1. CASE live[at] = SMALL /\ push(at)
  <2>1. /\ version = "opt_mem" /\ stack' = <<at>> \o stack
        /\ list' = list /\ live' = live /\ mapped' = mapped /\ lost' = lost
    BY <1>1 DEF push, fvars
  <2>2. Real' = Real /\ Headers' /\ HeldOK' /\ Layers' /\ Owned'
    BY <1>0, <1>1, <1>at, <1>h, <1>l, <2>1, Pushed
  <2>3. InOrder' /\ Counted'
    BY <1>0, <1>h, <1>v, <2>1 DEF InOrder, Counted
  <2>4. Parted(list', Real', lost', {}, mapped')
    BY <1>h, <2>1, <2>2
  <2> QED BY <1>sh, <2>2, <2>3, <2>4 DEF AllInv
<1>2. CASE live[at] = SMALL /\ push_counted(at)
  <2>1. PICK size \in IF stack = <<>> THEN Garbage ELSE {live[Head(stack)]} :
          live' = [live EXCEPT ![at] = size + SMALL]
    BY <1>2 DEF push_counted
  <2>2. /\ version = "counted" /\ stack' = <<at>> \o stack
        /\ list' = list /\ mapped' = mapped /\ lost' = lost
    BY <1>2 DEF push_counted
  <2>3. stack # <<>> => Head(stack) \in DOMAIN live /\ size = live[Head(stack)]
    <3>1. ASSUME stack # <<>> PROVE Head(stack) \in ToSet(stack)
      BY <1>0, <3>1, Popping DEF AllInv, Owned, Injective
    <3> QED BY <1>0, <2>1, <3>1 DEF AllInv, Owned
  <2>4. size \in Int
    BY <1>h, <2>1, <2>3, Constants DEF Garbage
  <2>5. at \in Small
    BY <1>at, <1>l, <1>2 DEF Small
  <2>6. /\ live' = [a \in DOMAIN live' |-> live'[a]] /\ DOMAIN live' = DOMAIN live
        /\ \A a \in DOMAIN live : live'[a] \in Int /\ (a \notin Small => live'[a] = live[a])
        /\ live'[at] = size + SMALL
    <3>n. PICK n : n = size + SMALL
      OBVIOUS
    <3>1. n \in Int /\ live' = [live EXCEPT ![at] = n]
      BY <1>s, <2>1, <2>4, <3>n
    <3> QED BY <1>b, <1>h, <2>5, <3>1, <3>n
  <2>7. Real' = Real /\ Headers' /\ HeldOK' /\ Layers' /\ Owned'
    BY <1>0, <1>2, <1>at, <1>l, <2>2, <2>6, Pushed
  <2>8. Counted'
    <3>1. Head(stack') = at /\ Len(stack') = Len(stack) + 1
      BY <1>0, <1>b, <2>2, Pushing DEF AllInv, Owned, Injective
    <3>n. PICK n : n = Len(stack)
      OBVIOUS
    <3>2. n \in Int /\ SMALL \in Int
      BY <1>h, <1>s, <3>n
    <3>3. (n + 1) * SMALL = n * SMALL + SMALL /\ n * SMALL \in Int
      BY <3>2, OneLess
    <3>p. PICK p : p = n * SMALL
      OBVIOUS
    <3>4. size - p \in Garbage
      <4>1. CASE stack = <<>>
        <5>1. n = 0
          BY <3>n, <4>1
        <5>2. p = 0
          BY <1>s, <3>p, <5>1
        <5> QED BY <2>1, <2>4, <4>1, <5>2
      <4>2. CASE stack # <<>>
        BY <2>2, <2>3, <3>n, <3>p, <4>2 DEF AllInv, Counted
      <4> QED BY <4>1, <4>2
    <3>5. (size + SMALL) - (p + SMALL) = size - p
      BY <2>4, <3>2, <3>3, <3>p
    <3>6. live'[Head(stack')] - Len(stack') * SMALL \in Garbage
      BY <2>6, <3>1, <3>3, <3>4, <3>5, <3>n, <3>p
    <3> QED BY <3>6 DEF Counted, SMALL, Garbage
  <2>9. InOrder'
    BY <1>0, <1>h, <1>v, <2>2 DEF InOrder
  <2>10. Parted(list', Real', lost', {}, mapped')
    BY <1>h, <2>2, <2>7
  <2> QED BY <1>sh, <2>7, <2>8, <2>9, <2>10 DEF AllInv
<1>3. CASE b.len > CELL_SIZE /\ hw06_free(at) /\ stack' = stack
  <2>r. PICK real : real = Real
    OBVIOUS
  <2>1. Parted(list, real, lost, {}, mapped) /\ DOMAIN real = DOMAIN live
    BY <1>h, <2>r DEF Real
  <2>2. real[at] = live[at]
    <3>1. at \notin Small
      BY <1>0, <1>3, <1>at, BigApart
    <3> QED BY <1>b, <1>v, <2>r, <3>1 DEF Real, Extent
  <2>3. /\ Parted(list', Less(real, at), lost', {}, mapped')
        /\ live' = [a \in DOMAIN live \ {at} |-> live[a]]
    BY <1>3, <1>b, <2>1, <2>2, FreeKeeps
  <2>4. Real' = Less(real, at) /\ Headers' /\ HeldOK' /\ Layers' /\ Owned' /\ Counted'
    BY <1>0, <1>3, <1>at, <2>3, <2>r, Dropped
  <2>5. InOrder'
    BY <1>0, <1>v, <2>3 DEF Parted, InOrder
  <2> QED BY <1>sh, <2>3, <2>4, <2>5 DEF AllInv
<1> QED BY <1>1, <1>2, <1>3, <1>at DEF nu_free, opt_free

LEMMA OptStep ==
  ASSUME AllInv, Layered, Next, UNCHANGED <<moving, nuvars>>
  PROVE  AllInv'
<1>0. moving' = moving /\ search' = search
  BY DEF nuvars
<1>1. ASSUME NEW size \in Sizes, nu_malloc(size) PROVE AllInv'
  BY <1>0, <1>1, OptMalloc
<1>2. ASSUME NEW b \in DOMAIN held, nu_free(b) PROVE AllInv'
  BY <1>0, <1>2, OptFree
<1>3. ASSUME NEW b \in DOMAIN held, nu_free_counted(b) PROVE AllInv'
  <2>1. /\ ~broken /\ version = "counted" /\ broken' = TRUE
        /\ list' = list /\ live' = live /\ version' = version /\ stack' = stack
    BY <1>3 DEF nu_free_counted, fvars
  <2>2. moving' = {}
    BY <1>0, <2>1 DEF AllInv, Shape
  <2> QED BY <1>0, <2>1, <2>2, BreaksOnly
<1>4. BagToSet(held) = DOMAIN held
  BY DEF BagToSet
<1>5. \/ \E size \in Sizes : nu_malloc(size)
      \/ \E b \in DOMAIN held : nu_free(b)
      \/ \E b \in DOMAIN held : nu_free_counted(b)
  BY <1>4 DEF Next
<1> QED BY <1>1, <1>2, <1>3, <1>5

-----------------------------------------------------------------------------
(***************************************************************************)
(* The first allocator (hw06).                                             *)
(***************************************************************************)
LEMMA Division ==
  ASSUME NEW n \in Nat, NEW d \in Nat \ {0}
  PROVE  /\ n \div d \in Nat
         /\ d * (n \div d) \in Nat
         /\ d * (n \div d) <= n /\ n < d * (n \div d) + d
         /\ n % d = 0 => n = d * (n \div d)
OBVIOUS

LEMMA Multiples ==
  ASSUME NEW d \in Nat \ {0}, NEW p \in Nat, NEW q \in Nat
  PROVE  /\ d * p \in Nat
         /\ p < q => d * p + d <= d * q
         /\ (d * p) % d = 0
OBVIOUS

LEMMA CeilingIs ==
  ASSUME NEW n \in Nat \ {0}
  PROVE  Ceiling(n) \in Nat \ {0} /\ n <= Ceiling(n)
<1>m. PICK m : m = n + PAGE - 1
  OBVIOUS
<1>1. m \in Nat /\ PAGE \in Nat \ {0} /\ n = m - PAGE + 1
  BY <1>m, Constants
<1>q. PICK q : q = PAGE * (m \div PAGE)
  OBVIOUS
<1>2. q \in Nat /\ m < q + PAGE
  BY <1>1, <1>q, Division
<1>3. Ceiling(n) = q
  BY <1>m, <1>q DEF Ceiling
<1> QED BY <1>1, <1>2, <1>3

LEMMA CeilingExact ==
  Ceiling(CHUNK_SIZE) = CHUNK_SIZE
<1>n. PICK n : n = CHUNK_SIZE
  OBVIOUS
<1>m. PICK m : m = n + PAGE - 1
  OBVIOUS
<1>1. m \in Nat /\ PAGE \in Nat \ {0} /\ n = m - PAGE + 1 /\ n \in Nat \ {0} /\ n % PAGE = 0
  BY <1>m, <1>n, Constants
<1>a. PICK a : a = m \div PAGE
  OBVIOUS
<1>b. PICK b : b = n \div PAGE
  OBVIOUS
<1>q. PICK q : q = PAGE * a
  OBVIOUS
<1>2. a \in Nat /\ q \in Nat /\ q <= m /\ m < q + PAGE
  BY <1>1, <1>a, <1>q, Division
<1>3. b \in Nat /\ n = PAGE * b
  BY <1>1, <1>b, Division
<1>4. ~(b < a)
  <2>1. b < a => n + PAGE <= q
    BY <1>1, <1>2, <1>3, <1>q, Multiples
  <2> QED BY <1>1, <1>2, <2>1
<1>5. n <= q
  BY <1>1, <1>2
<1>6. ~(a < b)
  <2>1. a < b => q + PAGE <= n
    BY <1>1, <1>2, <1>3, <1>q, Multiples
  <2> QED BY <1>1, <1>2, <1>5, <2>1
<1>7. a = b
  BY <1>2, <1>3, <1>4, <1>6
<1> QED BY <1>3, <1>7, <1>a, <1>m, <1>n DEF Ceiling

\* Definitions that NuMem shares.
LEMMA NSame ==
  /\ \A at, size : N!Bytes(at, size) = Bytes(at, size)
  /\ \A c : N!CellBytes(c) = CellBytes(c)
  /\ \A size : N!mmap(size) = mmap(size)
  /\ \A at, size : N!handed_out(at, size) <=> handed_out(at, size)
  /\ N!Free = Covered(list)
  /\ \A at, size : N!Pages(at, size) = Bytes(at, Ceiling(size))
  /\ N!BagToSet(held) = DOMAIN held
  /\ \A bag, b : N!BagAdd(bag, b) = BagAdd(bag, b) /\ N!BagRemove(bag, b) = BagRemove(bag, b)
<1>1. \A at, size : N!Bytes(at, size) = Bytes(at, size)
  BY DEF N!Bytes, Bytes
<1>2. \A c : N!CellBytes(c) = CellBytes(c)
  BY DEF N!CellBytes, CellBytes, N!Bytes, Bytes
<1>3. \A size : N!mmap(size) = mmap(size)
  BY DEF N!mmap, mmap, N!Address, Address
<1>4. \A at, size : N!handed_out(at, size) <=> handed_out(at, size)
  BY DEF N!handed_out, handed_out
<1>5. N!Free = Covered(list)
  BY <1>2 DEF N!Free, Covered
<1>6. \A at, size : N!Pages(at, size) = Bytes(at, Ceiling(size))
  BY <1>1 DEF N!Pages, Ceiling
<1>7. N!BagToSet(held) = DOMAIN held
  BY DEF N!BagToSet
<1>8. \A bag, b : N!BagAdd(bag, b) = BagAdd(bag, b) /\ N!BagRemove(bag, b) = BagRemove(bag, b)
  BY Zenon DEF N!BagAdd, BagAdd, N!BagRemove, BagRemove
<1> QED BY <1>1, <1>2, <1>3, <1>4, <1>5, <1>6, <1>7, <1>8

LEMMA NShape ==
  ASSUME AllInv, version = "nu_mem", ~broken, UNCHANGED <<version, stack, moving>>,
         broken' \in BOOLEAN,
         \/ search' = 0
         \/ search' = search
         \/ (search' \in NuSizes /\ N!with_header(search') < CHUNK_SIZE)
  PROVE  Shape'
BY DEF AllInv, Shape, Layered, N!with_header, N!int32

\* What is kept of a size and its header is a number, which may be negative.
LEMMA Int32 ==
  ASSUME NEW usize \in Nat
  PROVE  N!with_header(usize) \in Int
<1>x. PICK x : x = usize + HEADER + INT32_SIGN
  OBVIOUS
<1>m. PICK m : m = 2 * INT32_SIGN
  OBVIOUS
<1>1. x \in Nat /\ m \in Nat \ {0} /\ INT32_SIGN \in Nat
  BY <1>x, <1>m, Constants, AllocatorsAssumption
<1>2. x % m \in Nat
  BY <1>1
<1>3. N!with_header(usize) = (x % m) - INT32_SIGN
  BY <1>x, <1>m DEF N!with_header, N!int32
<1>y. PICK y : y = x % m
  OBVIOUS
<1> QED BY <1>1, <1>2, <1>3, <1>y

LEMMA NBreaks ==
  ASSUME AllInv, version = "nu_mem", ~broken, UNCHANGED <<list, version, stack, moving, search>>,
         broken' = TRUE
  PROVE  AllInv'
<1>1. moving' = {}
  BY DEF AllInv, Shape
<1> QED BY <1>1, BreaksOnly

LEMMA NExtent ==
  version = "nu_mem" =>
    \A a : Extent(a) = Paged(live[a])
BY DEF Extent, Layered

\* A block comes to a client, of bytes that were in hand.
LEMMA NGained ==
  ASSUME AllInv, version = "nu_mem", ~broken, version' = version, stack' = stack, Shape',
         NEW cells, NEW gone, NEW more, NEW map, Parted(cells, Real, gone, more, map),
         NEW at \in Nat, NEW size \in Nat \ {0}, NEW n \in Nat \ {0},
         n = Paged(size), more = Bytes(at, n),
         size >= CHUNK_SIZE => at % PAGE = 0,
         NEW usize \in NuSizes, N!handed_out(at, size), N!hand(at, usize, size),
         list' = cells, lost' = gone, mapped' = map, Coalesced(cells)
  PROVE  AllInv'
<1>1. CASE size >= usize + HEADER /\ held' = BagAdd(held, [at |-> at + HEADER, len |-> usize])
  <2>r. PICK real : real = Real
    OBVIOUS
  <2>1. /\ at \notin DOMAIN real
        /\ Parted(cells, With(real, at, n), gone, more \ Bytes(at, n), map)
    <3>1. Bytes(at, n) \subseteq more
      OBVIOUS
    <3>2. Parted(cells, real, gone, more, map)
      BY <2>r
    <3> QED BY <3>1, <3>2, Hand
  <2>2. more \ Bytes(at, n) = {}
    OBVIOUS
  <2>3. at \notin DOMAIN live
    BY <2>1, <2>r DEF Real
  <2>4. handed_out(at, size) /\ held' = BagAdd(held, [at |-> at + HEADER, len |-> usize])
    BY <1>1, NSame
  <2>5. size \in Int /\ usize \in Sizes \cup NuSizes /\ ~Layered /\ usize \in Nat
    BY Constants DEF Layered
  <2>6. /\ Real' = With(real, at, Extent(at)') /\ live'[at] = size
        /\ Owned' /\ Counted'
        /\ Extent(at)' >= usize + HEADER => HeldOK'
        /\ (version \in {"nu_malloc", "nu_mem"} => size \in Nat \ {0})
             /\ (version = "nu_mem" /\ size >= CHUNK_SIZE => at % PAGE = 0) => Headers'
        /\ (Layered /\ usize > CELL_SIZE => size = usize + HEADER)
             /\ (version = "opt_mem" /\ usize <= CELL_SIZE => size = SMALL) => Layers'
    BY <2>3, <2>4, <2>5, <2>r, Gained
  <2>7. Extent(at)' = n
    <3>1. version' = "nu_mem"
      OBVIOUS
    <3>2. (version = "nu_mem" =>
             \A a : Extent(a) = Paged(live[a]))'
      BY NExtent, PTL
    <3>3. Extent(at)' = Paged(live'[at])
      BY <3>1, <3>2
    <3> QED BY <2>6, <3>3
  <2>8. n >= usize + HEADER
    <3>1. n >= size
      BY CeilingIs DEF Paged
    <3> QED BY <1>1, <2>5, <3>1, Constants
  <2>9. HeldOK' /\ Headers' /\ Layers'
    BY <2>5, <2>6, <2>7, <2>8
  <2>10. Parted(list', Real', lost', {}, mapped')
    BY <2>1, <2>2, <2>6, <2>7
  <2>11. InOrder'
    BY <2>10 DEF Parted, InOrder
  <2> QED BY <2>6, <2>9, <2>10, <2>11 DEF AllInv
<1>2. CASE broken' = TRUE
  <2>1. InOrder'
    BY DEF Parted, InOrder
  <2>2. Counted'
    BY DEF Counted
  <2> QED BY <1>2, <2>1, <2>2 DEF AllInv
<1> QED BY <1>1, <1>2, NSame DEF N!hand

\* Whole pages from mmap.
LEMMA NPages ==
  ASSUME AllInv, version = "nu_mem", ~broken, NEW size \in Nat \ {0}, NEW at,
         N!GetPages(at, size)
  PROVE  /\ at \in Nat /\ at % PAGE = 0
         /\ Disjoint(Bytes(at, Ceiling(size)), mapped)
         /\ mapped' = mapped \cup Bytes(at, Ceiling(size))
         /\ Parted(list, Real, lost, Bytes(at, Ceiling(size)), mapped')
<1>1. /\ at \in mmap(size)
      /\ Disjoint(Bytes(at, Ceiling(size)), mapped)
      /\ mapped' = mapped \cup Bytes(at, Ceiling(size))
  BY NSame DEF N!GetPages, Disjoint
<1>2. at \in Nat
  BY <1>1, mmapIs
<1>3. at % PAGE = 0
  <2>1. PICK k \in 0 .. MaxPages - 1 : at = PAGE * k
    BY <1>1 DEF mmap
  <2>2. k \in Nat
    BY <2>1
  <2> QED BY <2>1, <2>2, Constants, Multiples
<1>4. Parted(list, Real, lost, {}, mapped)
  BY DEF AllInv
<1>5. Parted(list, Real, lost, Bytes(at, Ceiling(size)), mapped \cup Bytes(at, Ceiling(size)))
  BY <1>1, <1>4, GetMapped
<1> QED BY <1>1, <1>2, <1>3, <1>5

LEMMA NMalloc ==
  ASSUME AllInv, version = "nu_mem", NEW usize \in NuSizes, N!nu_malloc(usize),
         UNCHANGED <<version, stack, moving>>
  PROVE  AllInv'
<1>0. ~broken /\ search = 0
  BY DEF N!nu_malloc, N!idle
<1>s. PICK size : size = N!with_header(usize)
  OBVIOUS
<1>n. usize \in Nat /\ size \in Int
  BY <1>s, Constants, Int32
<1>1. CASE N!MallocLarge64K(usize)
  <2>0. size >= CHUNK_SIZE /\ size \in Nat \ {0}
    <3>1. size >= CHUNK_SIZE
      BY <1>1, <1>s DEF N!MallocLarge64K
    <3> QED BY <1>n, <3>1, Constants
  <2>1. CASE N!MapFailed(size)
    BY <1>0, <2>1, NBreaks DEF N!MapFailed
  <2>2. ASSUME NEW at, N!GetPages(at, size), N!handed_out(at, size), N!hand(at, usize, size),
               UNCHANGED <<list, lost, count, search>>
        PROVE  AllInv'
    <3>n. PICK n : n = Ceiling(size)
      OBVIOUS
    <3>m. PICK map : map = mapped'
      OBVIOUS
    <3>1. /\ at \in Nat /\ at % PAGE = 0
          /\ Parted(list, Real, lost, Bytes(at, n), map)
      BY <1>0, <2>0, <2>2, <3>m, <3>n, NPages
    <3>2. n \in Nat \ {0} /\ n = Paged(size)
      BY <2>0, <3>n, CeilingIs DEF Paged
    <3>3. Coalesced(list)
      BY DEF AllInv, InOrder
    <3>4. Shape'
      BY <1>0, <2>2, NShape DEF AllInv, Shape, N!hand
    <3> QED BY <1>0, <1>n, <2>0, <2>2, <3>1, <3>2, <3>3, <3>4, <3>m, NGained
  <2> QED BY <1>1, <1>s, <2>1, <2>2 DEF N!MallocLarge64K
<1>2. CASE /\ N!with_header(usize) < CHUNK_SIZE
           /\ search' = usize
           /\ UNCHANGED <<list, live, mapped, lost, count, held, broken>>
  <2>1. Shape'
    BY <1>0, <1>2, NShape DEF AllInv, Shape
  <2>2. Real' = Real
    BY <1>2 DEF Real, Extent, Small, Layered, SMALL
  <2> QED BY <1>0, <1>2, <2>1, <2>2
          DEF AllInv, InOrder, Counted, Headers, HeldOK, Layers, Owned, Held, Small, Layered, SMALL,
              Garbage
<1> QED BY <1>1, <1>2 DEF N!nu_malloc

LEMMA NAdd64K ==
  ASSUME AllInv, version = "nu_mem", N!add64K, UNCHANGED <<version, stack, moving>>
  PROVE  AllInv'
<1>0. ~broken /\ list = <<>>
  BY DEF N!add64K
<1>1. CASE N!MapFailed(CHUNK_SIZE)
  BY <1>0, <1>1, NBreaks DEF N!MapFailed
<1>2. ASSUME NEW at, N!GetPages(at, CHUNK_SIZE),
             list' = <<[at |-> at, size |-> CHUNK_SIZE]>>,
             UNCHANGED <<live, lost, count, search, held, broken>>
      PROVE  AllInv'
  <2>c. PICK c : c = [at |-> at, size |-> CHUNK_SIZE]
    OBVIOUS
  <2>1. at \in Nat /\ Parted(list, Real, lost, Bytes(at, CHUNK_SIZE), mapped')
    BY <1>0, <1>2, Constants, CeilingExact, NPages
  <2>2. c \in Cell /\ CellBytes(c) = Bytes(at, CHUNK_SIZE)
    BY <2>1, <2>c, Constants DEF Cell, CellBytes
  <2>3. Good(<<c>>) /\ Covered(<<c>>) = CellBytes(c) /\ Coalesced(<<c>>)
    BY <2>2, OneCell
  <2>4. Covered(list) = {}
    BY <1>0, EmptyList
  <2>5. Parted(<<c>>, Real, lost, {}, mapped')
    BY <2>1, <2>2, <2>3, <2>4, Put
  <2>6. Real' = Real
    BY <1>2 DEF Real, Extent, Small, Layered, SMALL
  <2>7. InOrder' /\ Parted(list', Real', lost', {}, mapped')
    BY <1>2, <2>3, <2>5, <2>6, <2>c DEF InOrder
  <2>8. Shape'
    BY <1>0, <1>2, NShape DEF AllInv, Shape
  <2> QED BY <1>0, <1>2, <2>6, <2>7, <2>8
          DEF AllInv, Counted, Headers, HeldOK, Layers, Owned, Held, Small, Layered, SMALL, Garbage
<1> QED BY <1>1, <1>2 DEF N!add64K

LEMMA NForget ==
  ASSUME AllInv, version = "nu_mem", N!forget_list, UNCHANGED <<version, stack, moving>>
  PROVE  AllInv'
<1>0. /\ ~broken /\ list' = <<>> /\ lost' = lost \cup Covered(list)
      /\ UNCHANGED <<live, mapped, search, held, broken>>
  BY NSame DEF N!forget_list
<1>1. Real' = Real
  BY <1>0 DEF Real, Extent, Small, Layered, SMALL
<1>2. Parted(<<>>, Real, lost \cup Covered(list), {}, mapped)
  BY <1>0, Forget DEF AllInv
<1>3. Parted(list', Real', lost', {}, mapped')
  BY <1>0, <1>1, <1>2
<1>4. InOrder'
  BY <1>0, EmptyList DEF InOrder
<1>5. Shape'
  BY <1>0, NShape DEF AllInv, Shape
<1> QED BY <1>0, <1>1, <1>3, <1>4, <1>5
        DEF AllInv, Counted, Headers, HeldOK, Layers, Owned, Held, Small, Layered, SMALL, Garbage

\* The first cell loses its first bytes.
IsCut(cells, size, rest, after) ==
  /\ Good(cells) /\ cells # <<>> /\ size \in Nat \ {0} /\ size < cells[1].size
  /\ rest = [at |-> cells[1].at + size, size |-> cells[1].size - size]
  /\ after = [cells EXCEPT ![1] = rest]

LEMMA HeadCut ==
  ASSUME NEW cells, NEW size, NEW rest, NEW after, IsCut(cells, size, rest, after)
  PROVE  /\ Good(after)
         /\ Coalesced(cells) => Coalesced(after)
         /\ Covered(after) = Covered(cells) \ Bytes(cells[1].at, size)
         /\ Bytes(cells[1].at, size) \subseteq Covered(cells)
         /\ cells[1].at \in Nat
<1>i. /\ cells # <<>> /\ size \in Nat \ {0} /\ size < cells[1].size /\ Good(cells)
      /\ rest = [at |-> cells[1].at + size, size |-> cells[1].size - size]
      /\ after = [cells EXCEPT ![1] = rest]
  BY DEF IsCut
<1>0. cells \in Seq(Cell) /\ Ordered(cells) /\ Len(cells) \in Nat /\ 1 \in 1 .. Len(cells)
  BY <1>i DEF Good
<1>1. \A i \in 1 .. Len(cells) : cells[i] \in Cell /\ cells[i].at \in Nat /\ cells[i].size \in Nat \ {0}
  BY <1>0, CellAt
<1>h. PICK at : at = cells[1].at
  OBVIOUS
<1>z. PICK whole : whole = cells[1].size
  OBVIOUS
<1>2. at \in Nat /\ whole \in Nat \ {0} /\ size < whole
  BY <1>0, <1>1, <1>h, <1>i, <1>z
<1>3. /\ rest.at = at + size /\ rest.size = whole - size
      /\ rest.at \in Nat /\ rest.size \in Nat \ {0} /\ rest.at + rest.size = at + whole
  <2>1. rest.at = at + size /\ rest.size = whole - size
    BY <1>h, <1>i, <1>z
  <2> QED BY <1>2, <1>i, <2>1
<1>4. rest \in Cell
  <2>1. rest = [at |-> rest.at, size |-> rest.size]
    BY <1>3, <1>i
  <2> QED BY <1>3, <2>1 DEF Cell
<1>5. /\ after \in Seq(Cell) /\ Len(after) = Len(cells)
      /\ after[1] = rest /\ \A i \in 1 .. Len(cells) : i # 1 => after[i] = cells[i]
  BY <1>0, <1>4, <1>i
<1>6. \A i \in 1 .. Len(cells) : after[i].at + after[i].size = cells[i].at + cells[i].size
  BY <1>3, <1>5, <1>h, <1>z
<1>7. \A i \in 1 .. Len(cells) : i # 1 => after[i].at = cells[i].at
  BY <1>5
<1>8. Ordered(after)
  <2>1. ASSUME NEW j \in 1 .. Len(after), NEW k \in 1 .. Len(after), j < k
        PROVE  after[j].at + after[j].size <= after[k].at
    <3>1. k # 1 /\ j \in 1 .. Len(cells) /\ k \in 1 .. Len(cells)
      BY <1>5, <2>1
    <3>2. cells[j].at + cells[j].size <= cells[k].at
      BY <1>0, <2>1, <3>1 DEF Ordered
    <3> QED BY <1>6, <1>7, <3>1, <3>2
  <2> QED BY <2>1 DEF Ordered
<1>9. ASSUME Coalesced(cells) PROVE Coalesced(after)
  <2>1. ASSUME NEW k \in 1 .. Len(after) - 1
        PROVE  after[k].at + after[k].size < after[k + 1].at
    <3>1. k \in 1 .. Len(cells) - 1 /\ k \in 1 .. Len(cells) /\ k + 1 \in 1 .. Len(cells) /\ k + 1 # 1
      BY <1>0, <1>5, <2>1
    <3>2. cells[k].at + cells[k].size < cells[k + 1].at
      BY <1>9, <3>1 DEF Coalesced
    <3> QED BY <1>6, <1>7, <3>1, <3>2
  <2> QED BY <2>1 DEF Coalesced
<1>10. CellBytes(cells[1]) = Bytes(at, size) \cup CellBytes(rest)
  <2>1. Bytes(at, whole) = Bytes(at, size) \cup Bytes(rest.at, rest.size)
    <3>a. PICK a : a = rest.at
      OBVIOUS
    <3>b. PICK n : n = rest.size
      OBVIOUS
    <3>1. a = at + size /\ n = whole - size
      BY <1>3, <3>a, <3>b
    <3>2. ASSUME NEW x PROVE x \in Bytes(at, whole) <=> x \in Bytes(at, size) \cup Bytes(a, n)
      BY <1>2, <1>i, <3>1 DEF Bytes
    <3> QED BY <3>2, <3>a, <3>b
  <2> QED BY <1>h, <1>z, <2>1 DEF CellBytes
<1>11. Disjoint(Bytes(at, size), CellBytes(rest))
  <2>a. PICK a : a = rest.at
    OBVIOUS
  <2>b. PICK n : n = rest.size
    OBVIOUS
  <2>1. a \in Nat /\ n \in Nat /\ at \in Nat /\ size \in Nat /\ at + size <= a
    BY <1>2, <1>3, <1>i, <2>a, <2>b
  <2>2. Disjoint(Bytes(at, size), Bytes(a, n))
    BY <2>1, Outside
  <2> QED BY <2>2, <2>a, <2>b DEF CellBytes
<1>12. \A i \in 1 .. Len(cells) : i # 1 => Disjoint(CellBytes(cells[1]), CellBytes(cells[i]))
  BY <1>0, <1>i, CellsApart
<1>c. PICK cut : cut = Bytes(at, size)
  OBVIOUS
<1>13. Covered(after) = Covered(cells) \ cut
  <2>1. ASSUME NEW x \in Covered(after) PROVE x \in Covered(cells) /\ x \notin cut
    <3>1. PICK i \in 1 .. Len(cells) : x \in CellBytes(after[i])
      BY <1>5, CoveredBy
    <3>2. CASE i = 1
      <4>1. x \in CellBytes(rest)
        BY <1>5, <3>1, <3>2
      <4>2. x \in CellBytes(cells[1]) /\ x \notin cut
        BY <1>10, <1>11, <1>c, <4>1 DEF Disjoint
      <4> QED BY <1>0, <4>2, CoveredBy
    <3>3. CASE i # 1
      <4>1. x \in CellBytes(cells[i]) /\ x \notin CellBytes(cells[1])
        BY <1>5, <1>12, <3>1, <3>3 DEF Disjoint
      <4>2. x \notin cut
        BY <1>10, <1>c, <4>1
      <4> QED BY <3>1, <4>1, <4>2, CoveredBy
    <3> QED BY <3>2, <3>3
  <2>2. ASSUME NEW x \in Covered(cells), x \notin cut PROVE x \in Covered(after)
    <3>1. PICK i \in 1 .. Len(cells) : x \in CellBytes(cells[i])
      BY CoveredBy
    <3>2. x \in CellBytes(after[i])
      <4>1. CASE i = 1
        BY <1>5, <1>10, <1>c, <2>2, <3>1, <4>1
      <4>2. CASE i # 1
        BY <1>5, <3>1, <4>2
      <4> QED BY <4>1, <4>2
    <3> QED BY <1>5, <3>1, <3>2, CoveredBy
  <2> QED BY <2>1, <2>2
<1>14. cut \subseteq Covered(cells)
  BY <1>0, <1>10, <1>c, CoveredBy
<1> QED BY <1>2, <1>5, <1>8, <1>9, <1>13, <1>14, <1>c, <1>h DEF Good

LEMMA NSplit ==
  ASSUME AllInv, version = "nu_mem", N!split_head, UNCHANGED <<version, stack, moving>>
  PROVE  AllInv'
<1>s. PICK size : size = N!real_size(search)
  OBVIOUS
<1>at. PICK at : at = list[1].at
  OBVIOUS
<1>0. ~broken /\ search # 0 /\ list # <<>> /\ mapped' = mapped /\ lost' = lost /\ search' = 0
  BY DEF N!split_head
<1>r. PICK rest : rest = [at |-> list[1].at + size, size |-> list[1].size - size]
  OBVIOUS
<1>1. /\ list' = [list EXCEPT ![1] = rest]
      /\ N!handed_out(at, size) /\ N!hand(at, search, size)
      /\ N!Serves(list[1], size)
  BY <1>at, <1>r, <1>s, Zenon DEF N!split_head
<1>2. /\ search \in NuSizes /\ N!with_header(search) < CHUNK_SIZE
      /\ search \in Nat \ {0}
  BY <1>0, Constants DEF AllInv, Shape
<1>3. size \in Nat \ {0} /\ size < CHUNK_SIZE
  <2>n. PICK n : n = N!with_header(search)
    OBVIOUS
  <2>1. n \in Int /\ n < CHUNK_SIZE
    BY <1>2, <2>n, Int32
  <2>2. size = IF n < CELL_SIZE THEN CELL_SIZE ELSE n
    BY <1>s, <2>n DEF N!real_size
  <2> QED BY <2>1, <2>2, Constants
<1>4. Good(list) /\ Coalesced(list) /\ Parted(list, Real, lost, {}, mapped)
  BY <1>0 DEF AllInv, InOrder
<1>5. size < list[1].size
  <2>1. list[1].size \in Nat
    <3>1. list \in Seq(Cell) /\ 1 \in 1 .. Len(list)
      BY <1>0, <1>4 DEF Good
    <3> QED BY <3>1, CellAt
  <2>2. list[1].size - size > CELL_SIZE
    BY <1>1 DEF N!Serves
  <2>n. PICK n : n = list[1].size
    OBVIOUS
  <2> QED BY <1>3, <2>1, <2>2, <2>n, Constants
<1>c. PICK cells : cells = [list EXCEPT ![1] = rest]
  OBVIOUS
<1>6. /\ Good(cells) /\ Coalesced(cells) /\ at \in Nat
      /\ Covered(cells) = Covered(list) \ Bytes(at, size)
      /\ Bytes(at, size) \subseteq Covered(list)
  <2>1. /\ Good(cells)
        /\ Coalesced(list) => Coalesced(cells)
        /\ Covered(cells) = Covered(list) \ Bytes(list[1].at, size)
        /\ Bytes(list[1].at, size) \subseteq Covered(list)
        /\ list[1].at \in Nat
    <3>1. IsCut(list, size, rest, cells)
      BY <1>0, <1>3, <1>4, <1>5, <1>c, <1>r DEF IsCut
    <3> QED BY <3>1, HeadCut
  <2> QED BY <1>4, <1>at, <2>1
<1>7. Parted(cells, Real, lost, Bytes(at, size), mapped)
  BY <1>4, <1>6 DEF Parted, Disjoint
<1>8. Shape'
  BY <1>0, <1>1, NShape DEF AllInv, Shape, N!hand
<1>9. size = Paged(size) /\ (size >= CHUNK_SIZE => at % PAGE = 0)
  BY <1>3, Constants DEF Paged
<1> QED BY <1>0, <1>1, <1>2, <1>3, <1>6, <1>7, <1>8, <1>9, <1>c, NGained

LEMMA NFree ==
  ASSUME AllInv, version = "nu_mem", NEW b \in DOMAIN held, N!nu_free(b),
         UNCHANGED <<version, stack, moving>>
  PROVE  AllInv'
<1>at. PICK at : at = b.at - HEADER
  OBVIOUS
<1>n. PICK n : n = live[at]
  OBVIOUS
<1>r. PICK real : real = Real
  OBVIOUS
<1>0. ~broken /\ search' = search /\ version' = version /\ stack' = stack
  BY DEF N!nu_free, N!idle
<1>1. /\ held' = BagRemove(held, b)
      /\ live' = [a \in DOMAIN live \ {at} |-> live[a]]
      /\ \/ /\ n >= CHUNK_SIZE \/ count > FREE_LIMIT
            /\ N!munmap(at)
            /\ list' = list
         \/ /\ n < CHUNK_SIZE
            /\ N!add_to_free_list([at |-> at, size |-> n])
            /\ mapped' = mapped /\ lost' = lost /\ broken' = broken
  BY <1>at, <1>n, NSame, Zenon DEF N!nu_free
<1>2. at \in DOMAIN live /\ at \in Nat /\ Real[at] \in Nat \ {0}
  BY <1>0, <1>at, HeldFacts
<1>3. n \in Nat \ {0} /\ (n >= CHUNK_SIZE => at % PAGE = 0)
  BY <1>0, <1>2, <1>n DEF AllInv, Headers
<1>4. /\ Real' = Less(real, at)
      /\ Headers' /\ HeldOK' /\ Layers' /\ Owned' /\ Counted'
  BY <1>0, <1>1, <1>at, <1>r, Dropped
<1>5. DOMAIN real = DOMAIN live /\ \A a \in DOMAIN live : real[a] = Paged(live[a])
  BY <1>r, NExtent DEF Real
<1>6. Good(list) /\ Coalesced(list) /\ Parted(list, real, lost, {}, mapped)
  BY <1>0, <1>r DEF AllInv, InOrder
<1>7. Parted(list, Less(real, at), lost, Bytes(at, Paged(n)), mapped)
  BY <1>2, <1>5, <1>6, <1>n, Return
<1>8. broken' \in BOOLEAN => Shape'
  BY <1>0, NShape
<1>9. CASE /\ n < CHUNK_SIZE
           /\ N!add_to_free_list([at |-> at, size |-> n])
           /\ mapped' = mapped /\ lost' = lost /\ broken' = broken
  <2>c. PICK c : c = [at |-> at, size |-> n]
    OBVIOUS
  <2>1. Paged(n) = n
    BY <1>3, <1>9, Constants DEF Paged
  <2>2. c \in Cell /\ CellBytes(c) = Bytes(at, n)
    BY <1>2, <1>3, <2>c DEF Cell, CellBytes
  <2>3. Disjoint(CellBytes(c), Covered(list))
    BY <1>7, <2>1, <2>2 DEF Parted
  <2>4. Good(list') /\ Covered(list') = Covered(list) \cup CellBytes(c) /\ Coalesced(list')
    BY <1>6, <1>9, <2>2, <2>3, <2>c, AddKeeps
  <2>5. Parted(list', Less(real, at), lost, {}, mapped)
    BY <1>7, <2>1, <2>2, <2>4, Put
  <2>6. Parted(list', Real', lost', {}, mapped')
    BY <1>4, <1>9, <2>5
  <2>7. Shape'
    BY <1>8, <1>9 DEF AllInv, Shape
  <2> QED BY <1>4, <2>4, <2>6, <2>7 DEF AllInv, InOrder
<1>10. CASE N!munmap(at) /\ list' = list
  <2>p. PICK pages : pages = Bytes(at, Ceiling(n))
    OBVIOUS
  <2>o. PICK others : others = N!Free \cup UNION {N!Used(a) : a \in DOMAIN live \ {at}}
    OBVIOUS
  <2>1. \/ /\ at % PAGE # 0
           /\ lost' = lost \cup Bytes(at, n) /\ mapped' = mapped /\ broken' = broken
        \/ /\ mapped' = mapped \ pages /\ lost' = lost \ pages
           /\ broken' = (pages \cap others # {})
    BY <1>10, <1>n, <2>o, <2>p, NSame, Zenon DEF N!munmap
  <2>2. InOrder'
    BY <1>6, <1>10 DEF InOrder
  <2>3. Shape'
    <3>1. broken' \in BOOLEAN
      <4>1. broken \in BOOLEAN
        BY DEF AllInv, Shape
      <4>2. (pages \cap others # {}) \in BOOLEAN
        OBVIOUS
      <4> QED BY <2>1, <4>1, <4>2
    <3> QED BY <1>8, <3>1
  <2>4. CASE /\ at % PAGE # 0
             /\ lost' = lost \cup Bytes(at, n) /\ mapped' = mapped /\ broken' = broken
    <3>1. Paged(n) = n
      BY <1>3, <2>4 DEF Paged
    <3>2. Parted(list, Less(real, at), lost \cup Bytes(at, n), {}, mapped)
      BY <1>7, <3>1, GiveUp
    <3>3. Parted(list', Real', lost', {}, mapped')
      BY <1>4, <1>10, <2>4, <3>2
    <3> QED BY <1>4, <2>2, <2>3, <3>3 DEF AllInv
  <2>5. CASE /\ mapped' = mapped \ pages /\ lost' = lost \ pages
             /\ ~broken' /\ pages \cap others = {}
    <3>1. Covered(list) \subseteq others
      BY <2>o, NSame
    <3>2. \A a \in DOMAIN live : N!Used(a) = Bytes(a, real[a])
      BY <1>5, NSame DEF N!Used, Paged
    <3>3. Blocks(Less(real, at)) \subseteq others
      BY <1>5, <2>o, <3>2 DEF Blocks, Less
    <3>4. Disjoint(pages, Covered(list)) /\ Disjoint(pages, Blocks(Less(real, at)))
      BY <2>5, <3>1, <3>3 DEF Disjoint
    <3>5. Bytes(at, Paged(n)) \subseteq pages
      <4>1. n >= CHUNK_SIZE => Paged(n) = Ceiling(n)
        BY DEF Paged
      <4>2. ~(n >= CHUNK_SIZE) => Paged(n) = n
        BY DEF Paged
      <4>3. Bytes(at, n) \subseteq Bytes(at, Ceiling(n))
        <5>c. PICK m : m = Ceiling(n)
          OBVIOUS
        <5>1. m \in Nat /\ n <= m /\ n \in Nat
          BY <1>3, <5>c, CeilingIs
        <5>2. Bytes(at, n) \subseteq Bytes(at, m)
          BY <1>2, <5>1 DEF Bytes
        <5> QED BY <5>2, <5>c
      <4> QED BY <2>p, <4>1, <4>2, <4>3
    <3>6. Parted(list, Less(real, at), lost \ pages, {}, mapped \ pages)
      BY <1>7, <3>4, <3>5, GetUnmapped
    <3>7. Parted(list', Real', lost', {}, mapped')
      BY <1>4, <1>10, <2>5, <3>6
    <3> QED BY <1>4, <2>2, <2>3, <3>7 DEF AllInv
  <2>6. CASE broken'
    BY <1>4, <2>2, <2>3, <2>6 DEF AllInv
  <2> QED BY <2>1, <2>4, <2>5, <2>6
<1> QED BY <1>1, <1>9, <1>10

LEMMA NStep ==
  ASSUME AllInv, version = "nu_mem", N!NNext, UNCHANGED <<version, stack, moving>>
  PROVE  AllInv'
<1>1. ASSUME NEW usize \in NuSizes, N!nu_malloc(usize) PROVE AllInv'
  BY <1>1, NMalloc
<1>2. ASSUME NEW b \in DOMAIN held, N!nu_free(b) PROVE AllInv'
  BY <1>2, NFree
<1>3. ASSUME N!find_memory PROVE AllInv'
  BY <1>3, NAdd64K, NForget, NSplit DEF N!find_memory
<1>4. \/ \E usize \in NuSizes : N!nu_malloc(usize)
      \/ \E b \in DOMAIN held : N!nu_free(b)
      \/ N!find_memory
  BY NSame DEF N!NNext
<1> QED BY <1>1, <1>2, <1>3, <1>4

-----------------------------------------------------------------------------
(***************************************************************************)
(* The invariant.                                                          *)
(***************************************************************************)
LEMMA AInitInv == AInit => AllInv
<1> SUFFICES ASSUME AInit PROVE AllInv
  OBVIOUS
<1>1. /\ list = <<>> /\ live = <<>> /\ mapped = {} /\ lost = {} /\ DOMAIN held = {} /\ held = <<>>
      /\ moving = {} /\ broken = FALSE /\ stack = <<>> /\ search = 0
      /\ version \in {"opt_mem", "counted", "nu_malloc", "nu_mem"}
  <2>1. \A S : S = {} => SetToBag(S) = <<>> /\ M!SetToBag(S) = <<>> /\ N!SetToBag(S) = <<>>
    BY DEF SetToBag, M!SetToBag, N!SetToBag
  <2>2. EmptyBag = <<>> /\ M!EmptyBag = <<>> /\ N!EmptyBag = <<>>
    BY <2>1 DEF EmptyBag, M!EmptyBag, N!EmptyBag
  <2> QED BY <2>2 DEF AInit, OInit, Init, M!MInit, M!Init, N!NInit, N!Init
<1>2. Shape
  BY <1>1 DEF Shape
<1>3. InOrder /\ Counted
  BY <1>1, EmptyList DEF InOrder, Counted
<1>4. Headers /\ HeldOK /\ Layers /\ Owned
  <2>1. Small = {} /\ ToSet(stack) = {} /\ Held = {}
    BY <1>1 DEF Small, ToSet, Held, BagToSet
  <2> QED BY <1>1, <2>1 DEF Headers, HeldOK, Layers, Owned
<1>5. Parted(list, Real, lost, {}, mapped)
  <2>1. DOMAIN Real = {}
    BY <1>1 DEF Real
  <2>2. Blocks(Real) = {} /\ BlocksApart(Real)
    BY <2>1 DEF Blocks, BlocksApart
  <2> QED BY <1>1, <2>2, EmptyList DEF Parted, Disjoint
<1> QED BY <1>2, <1>3, <1>4, <1>5 DEF AllInv

LEMMA AStepInv == AllInv /\ [ANext]_avars => AllInv'
<1> SUFFICES ASSUME AllInv, [ANext]_avars PROVE AllInv'
  OBVIOUS
<1>1. CASE version \in {"opt_mem", "counted"} /\ Next /\ UNCHANGED <<moving, nuvars>>
  BY <1>1, OptStep DEF Layered
<1>2. CASE version = "nu_malloc" /\ M!MNext /\ UNCHANGED <<version, stack, nuvars>>
  BY <1>2, MStep
<1>3. CASE version = "nu_mem" /\ N!NNext /\ UNCHANGED <<version, stack, moving>>
  BY <1>3, NStep
<1>4. CASE UNCHANGED avars
  <2>1. /\ list' = list /\ live' = live /\ mapped' = mapped /\ lost' = lost
        /\ version' = version /\ stack' = stack /\ held' = held /\ broken' = broken
        /\ moving' = moving /\ count' = count /\ search' = search
    BY <1>4 DEF avars, fvars, ovars, nuvars
  <2>2. Real' = Real
    BY <2>1 DEF Real, Extent, Small, Layered, SMALL
  <2> QED BY <2>1, <2>2
          DEF AllInv, Shape, InOrder, Counted, Headers, HeldOK, Layers, Owned, Held, Small, Layered,
              SMALL, Garbage
<1> QED BY <1>1, <1>2, <1>3, <1>4 DEF ANext

LEMMA AInvariance == ASpec => []AllInv
BY AInitInv, AStepInv, PTL DEF ASpec

-----------------------------------------------------------------------------
(***************************************************************************)
(* The properties.                                                         *)
(***************************************************************************)
\* Each allocator's list stays in the order of the addresses, without overlaps (insert,
\* coalesce, carve), and that of hw06, which merges on both sides, without two cells that
\* touch.
THEOREM ListsStayInOrder == ASpec => []ListInOrder
<1>1. AllInv => ListInOrder
  <2> SUFFICES ASSUME AllInv PROVE ListInOrder
    OBVIOUS
  <2>1. Good(list) /\ (version = "nu_mem" => Coalesced(list))
    BY DEF AllInv, InOrder
  <2>2. ListSorted
    <3>1. Len(list) \in Nat /\ Ordered(list)
      BY <2>1 DEF Good
    <3>2. ASSUME NEW k \in 1 .. Len(list) - 1 PROVE list[k].at + list[k].size <= list[k + 1].at
      <4>1. k \in 1 .. Len(list) /\ k + 1 \in 1 .. Len(list) /\ k < k + 1
        BY <3>1
      <4> QED BY <3>1, <4>1 DEF Ordered
    <3> QED BY <3>2 DEF ListSorted
  <2>3. N!ListCoalesced <=> Coalesced(list)
    BY DEF N!ListCoalesced, Coalesced
  <2> QED BY <2>1, <2>2, <2>3 DEF ListInOrder
<1> QED BY <1>1, AInvariance, PTL

\* After any splits, merges, removals and moves, every byte obtained from mmap is in exactly
\* one place: with a client or on the stack, in a free cell, or given up.
THEOREM MemoryIsAccounted == ASpec => []EveryByteInOnePlace
<1>1. AllInv => EveryByteInOnePlace
  <2> SUFFICES ASSUME AllInv PROVE EveryByteInOnePlace
    OBVIOUS
  <2>1. ~broken => Parted(list, Real, lost, {}, mapped) /\ Headers /\ Layers
    BY DEF AllInv
  <2>2. CASE version = "nu_mem"
    <3>1. N!Free = Covered(list)
      BY NSame
    <3>2. \A a \in DOMAIN live : N!Used(a) = Bytes(a, Real[a])
      BY <2>2, NExtent, NSame DEF N!Used, Paged, Real
    <3>3. UNION {N!Used(a) : a \in DOMAIN live} = Blocks(Real)
      BY <3>2 DEF Blocks, Real
    <3>4. N!EveryByteInOnePlace
      BY <2>1, <3>1, <3>3 DEF N!EveryByteInOnePlace, Parted, Disjoint
    <3> QED BY <2>2, <3>4 DEF EveryByteInOnePlace
  <2>3. CASE version \in {"opt_mem", "nu_malloc"}
    <3>1. ASSUME ~broken PROVE MemoryAccounted
      <4>1. \A a \in DOMAIN live : Real[a] = live[a]
        BY <2>1, <2>3, <3>1 DEF Real, Extent, Layered, Layers
      <4>2. DOMAIN Real = DOMAIN live
        BY DEF Real
      <4>3. Live = Blocks(Real) /\ Free = Covered(list)
        BY <4>1, <4>2 DEF Live, Blocks, Free, Covered
      <4>4. \A a, b \in DOMAIN live : a # b => Bytes(a, live[a]) \cap Bytes(b, live[b]) = {}
        BY <2>1, <3>1, <4>1, <4>2 DEF Parted, BlocksApart
      <4> QED BY <2>1, <3>1, <4>3, <4>4 DEF MemoryAccounted, Parted, Disjoint
    <3> QED BY <2>3, <3>1 DEF EveryByteInOnePlace
  <2>4. CASE version = "counted"
    BY <2>4 DEF EveryByteInOnePlace
  <2> QED BY <2>2, <2>3, <2>4 DEF AllInv, Shape
<1> QED BY <1>1, AInvariance, PTL

\* Of the blocks that the list allocator of hw07 has handed out each is in one place above
\* it: with one client, or once on the stack.
THEOREM EachBlockInOneLayer == ASpec => []OwnedByOneLayer
<1>1. AllInv => OwnedByOneLayer
  <2> SUFFICES ASSUME AllInv, ~broken
               PROVE  /\ DOMAIN live = Held \cup ToSet(stack) /\ Held \cap ToSet(stack) = {}
                      /\ Len(stack) = Cardinality(ToSet(stack))
    BY DEF OwnedByOneLayer
  <2>1. Owned
    BY DEF AllInv
  <2>2. Len(stack) = Cardinality(ToSet(stack))
    <3>n. PICK n : n = Len(stack)
      OBVIOUS
    <3>s. PICK S : S = ToSet(stack)
      OBVIOUS
    <3>1. n \in Nat /\ DOMAIN stack = 1 .. n
      BY <2>1, <3>n DEF Owned
    <3>2. S = {stack[i] : i \in 1 .. n}
      BY <3>1, <3>s DEF ToSet
    <3>f. PICK f : f = [i \in 1 .. n |-> stack[i]]
      OBVIOUS
    <3>3. f \in [1 .. n -> S] /\ \A x \in S : \E i \in 1 .. n : f[i] = x
      BY <3>2, <3>f
    <3>4. \A i, j \in 1 .. n : f[i] = f[j] => i = j
      BY <2>1, <3>f, <3>n DEF Owned
    <3>5. f \in FS!Bijection(1 .. n, S)
      BY <3>3, <3>4 DEF FS!Bijection, FS!Injection, FS!IsInjective, FS!Surjection
    <3>6. FS!ExistsBijection(1 .. n, S)
      BY <3>5 DEF FS!ExistsBijection
    <3>7. FS!Cardinality(S) = n
      BY <3>1, <3>6, FS!FS_CountingElements
    <3>8. Cardinality(S) = FS!Cardinality(S)
      BY Zenon DEF Cardinality, FS!Cardinality
    <3> QED BY <3>7, <3>8, <3>n, <3>s
  <2> QED BY <2>1, <2>2 DEF Owned
<1> QED BY <1>1, AInvariance, PTL

\* In the final version of hw07 the size field tells the small blocks from the others, and
\* nothing is ever damaged; in the earlier one the block at the top of the stack counts the
\* bytes of the whole stack, and what opt_free's local variable held by accident.
THEOREM SizeFieldsTell == ASpec => []SizeFieldTells
<1>1. AllInv => SizeFieldTells
  <2> SUFFICES ASSUME AllInv PROVE SizeFieldTells
    OBVIOUS
  <2>1. CASE version = "opt_mem"
    <3>1. ~broken
      BY <2>1 DEF AllInv, Shape
    <3>2. Layers /\ Layered
      BY <2>1, <3>1 DEF AllInv, Layered
    <3>3. \A at \in ToSet(stack) : live[at] = SMALL
      BY <2>1, <3>2 DEF Layers, Small
    <3>4. ASSUME NEW b \in DOMAIN held PROVE live[b.at - HEADER] = SMALL <=> b.len <= CELL_SIZE
      <4>1. b.len <= CELL_SIZE => live[b.at - HEADER] = SMALL
        BY <2>1, <3>2 DEF Layers, Small
      <4>2. ~(b.len <= CELL_SIZE) => live[b.at - HEADER] # SMALL
        <5>1. b.len \in Nat
          BY <3>1, HeldFacts
        <5>2. ~(b.len <= CELL_SIZE) => b.len > CELL_SIZE
          BY <5>1, Constants
        <5>3. b.len > CELL_SIZE => live[b.at - HEADER] = b.len + HEADER
          BY <3>2 DEF Layers
        <5>4. b.len > CELL_SIZE => b.len + HEADER # SMALL
          BY <5>1, Constants DEF SMALL
        <5> QED BY <5>2, <5>3, <5>4
      <4> QED BY <4>1, <4>2
    <3>5. BagToSet(held) = DOMAIN held
      BY DEF BagToSet
    <3> QED BY <2>1, <3>1, <3>3, <3>4, <3>5 DEF SizeFieldTells
  <2>2. CASE version = "counted"
    BY <2>2 DEF AllInv, Counted, SizeFieldTells
  <2>3. CASE version \notin {"opt_mem", "counted"}
    BY <2>3 DEF SizeFieldTells
  <2> QED BY <2>1, <2>2, <2>3
<1> QED BY <1>1, AInvariance, PTL

\* The blocks of clients share no byte.
HeldApart ==
  \A b, c \in DOMAIN held : b # c => b.at + b.len <= c.at \/ c.at + c.len <= b.at

LEMMA HeldAreApart == AllInv /\ ~broken => HeldApart
<1> SUFFICES ASSUME AllInv, ~broken, NEW b \in DOMAIN held, NEW c \in DOMAIN held, b # c
             PROVE  b.at + b.len <= c.at \/ c.at + c.len <= b.at
  BY DEF HeldApart
<1>x. PICK x : x = b.at - HEADER
  OBVIOUS
<1>y. PICK y : y = c.at - HEADER
  OBVIOUS
<1>m. PICK m : m = Real[x]
  OBVIOUS
<1>n. PICK n : n = Real[y]
  OBVIOUS
<1>1. /\ x \in Nat /\ m \in Nat \ {0} /\ x \in DOMAIN live /\ m >= b.len + HEADER
      /\ b.at \in Nat /\ b.len \in Nat
  BY <1>x, <1>m, HeldFacts
<1>2. /\ y \in Nat /\ n \in Nat \ {0} /\ y \in DOMAIN live /\ n >= c.len + HEADER
      /\ c.at \in Nat /\ c.len \in Nat
  BY <1>y, <1>n, HeldFacts
<1>3. x # y
  BY <1>x, <1>y, HeldFacts
<1>4. Disjoint(Bytes(x, m), Bytes(y, n))
  <2>1. DOMAIN Real = DOMAIN live /\ BlocksApart(Real)
    BY DEF AllInv, Parted, Real
  <2> QED BY <1>1, <1>2, <1>3, <1>m, <1>n, <2>1 DEF BlocksApart, Disjoint
<1>5. x + m <= y \/ y + n <= x
  BY <1>1, <1>2, <1>4, Intervals
<1> QED BY <1>1, <1>2, <1>5, <1>x, <1>y, Constants

\* A client is given one block more than the rest, which the step does not touch.
LEMMA Gives ==
  ASSUME AllInv', ~broken', NEW rest, rest = [e \in DOMAIN rest |-> 1], NEW r,
         held' = BagAdd(rest, r)
  PROVE  H!Give(rest)
<1>0. /\ held' = [e \in DOMAIN held' |-> 1]
      /\ \A b \in DOMAIN held' : b \in [at : Nat, len : Sizes \cup NuSizes]
  BY DEF AllInv, HeldOK
<1>1. r \notin DOMAIN rest
  <2>1. ASSUME r \in DOMAIN rest PROVE FALSE
    <3>1. rest[r] = 1
      BY <2>1
    <3>2. r \in DOMAIN held' /\ held'[r] = 2
      BY <2>1, <3>1 DEF BagAdd
    <3> QED BY <1>0, <3>2
  <2> QED BY <2>1
<1>2. held' = [e \in DOMAIN rest \cup {r} |-> 1] /\ DOMAIN held' = DOMAIN rest \cup {r}
  <2>1. BagAdd(rest, r) = [e \in DOMAIN rest \cup {r} |-> 1]
    BY <1>1, BagFacts
  <2> QED BY <2>1
<1>3. H!BagToSet(held') = DOMAIN held' /\ H!BagToSet(rest) = DOMAIN rest
  BY DEF H!BagToSet
<1>4. H!BagAdd(rest, r) = held'
  BY DEF BagAdd, H!BagAdd
<1>5. r \in H!Block
  BY <1>0, <1>2 DEF H!Block
<1>6. \A c \in DOMAIN rest : H!Apart(r, c)
  <2>1. (AllInv /\ ~broken => HeldApart)'
    BY HeldAreApart, PTL
  <2>2. HeldApart'
    BY <2>1
  <2> QED BY <1>1, <1>2, <2>2 DEF HeldApart, H!Apart
<1> QED BY <1>2, <1>3, <1>4, <1>5, <1>6 DEF H!Give

\* What a step may do to the blocks of clients.
Given   == \E r : held' = BagAdd(held, r)
Freed   == \E b \in DOMAIN held : held' = BagRemove(held, b)
Changed == \E b \in DOMAIN held : \E r : held' = BagAdd(BagRemove(held, b), r)

LEMMA OptClients ==
  ASSUME Next
  PROVE  held' = held \/ Freed \/ (~broken /\ ~broken' /\ Given)
<1>1. ASSUME NEW size \in Sizes, nu_malloc(size) PROVE ~broken /\ ~broken' /\ Given
  BY <1>1 DEF nu_malloc, pop, pop_counted, hand, Given
<1>2. ASSUME NEW b \in DOMAIN held, nu_free(b) PROVE Freed
  BY <1>2 DEF nu_free, Freed
<1>3. ASSUME NEW b \in DOMAIN held, nu_free_counted(b) PROVE held' = held
  BY <1>3 DEF nu_free_counted
<1>4. BagToSet(held) = DOMAIN held
  BY DEF BagToSet
<1> QED BY <1>1, <1>2, <1>3, <1>4 DEF Next

LEMMA MClients ==
  ASSUME AllInv, M!MNext
  PROVE  held' = held \/ Freed \/ (~broken /\ ~broken' /\ (Given \/ Changed))
<1>0. \A bag, b : M!BagAdd(bag, b) = BagAdd(bag, b) /\ M!BagRemove(bag, b) = BagRemove(bag, b)
  BY Zenon DEF M!BagAdd, BagAdd, M!BagRemove, BagRemove
<1>1. ASSUME NEW size, M!malloc(size) PROVE Given
  BY <1>0, <1>1 DEF M!malloc, Given
<1>2. ASSUME NEW b \in DOMAIN held, M!free(b) PROVE Freed
  BY <1>0, <1>2 DEF M!free, Freed
<1>3. ASSUME NEW b \in DOMAIN held, NEW size \in Sizes, M!KeepBlock(b, size)
      PROVE  held' = held \/ (~broken /\ ~broken' /\ Changed)
  BY <1>0, <1>3 DEF M!KeepBlock, M!unlocked, Changed
<1>4. ASSUME NEW b \in DOMAIN held, NEW size \in Sizes, M!xrealloc(b, size)
      PROVE  held' = held \/ Freed \/ (~broken /\ ~broken' /\ (Given \/ Changed))
  BY <1>1, <1>2, <1>3, <1>4
     DEF M!xrealloc, M!ReadBeforeChunk, M!MoveBlock, M!FreeMoved, M!unlocked
<1>5. ASSUME NEW size \in Sizes, M!xmalloc(size) PROVE ~broken /\ ~broken' /\ Given
  BY <1>1, <1>5 DEF M!xmalloc, M!unlocked
<1>6. ASSUME NEW b \in DOMAIN held, M!xfree(b) PROVE Freed
  BY <1>2, <1>6 DEF M!xfree
<1>7. M!BagToSet(held) = DOMAIN held
  BY DEF M!BagToSet
<1>8. \/ \E size \in Sizes : M!xmalloc(size)
      \/ \E b \in DOMAIN held : M!xfree(b)
      \/ \E b \in DOMAIN held : \E size \in Sizes : M!xrealloc(b, size)
  BY <1>7 DEF M!MNext
<1> QED BY <1>4, <1>5, <1>6, <1>8

LEMMA NClients ==
  ASSUME N!NNext
  PROVE  held' = held \/ Freed \/ (~broken /\ ~broken' /\ Given)
<1>1. ASSUME NEW at, NEW usize, NEW size, ~broken, N!hand(at, usize, size)
      PROVE  held' = held \/ (~broken' /\ Given)
  BY <1>1, NSame DEF N!hand, Given
<1>2. ASSUME NEW usize, N!nu_malloc(usize) PROVE held' = held \/ (~broken /\ ~broken' /\ Given)
  BY <1>1, <1>2 DEF N!nu_malloc, N!idle, N!MallocLarge64K, N!MapFailed
<1>3. ASSUME N!find_memory PROVE held' = held \/ (~broken /\ ~broken' /\ Given)
  <2>1. N!add64K \/ N!forget_list => held' = held
    BY DEF N!add64K, N!forget_list, N!MapFailed
  <2>2. ASSUME N!split_head PROVE held' = held \/ (~broken /\ ~broken' /\ Given)
    BY <1>1, <2>2 DEF N!split_head
  <2> QED BY <1>3, <2>1, <2>2 DEF N!find_memory
<1>4. ASSUME NEW b \in DOMAIN held, N!nu_free(b) PROVE Freed
  BY <1>4, NSame DEF N!nu_free, Freed
<1> QED BY <1>2, <1>3, <1>4, NSame DEF N!NNext

\* Each of them is an allocator to its clients for as long as the program has not broken
\* its memory: a block is as long as was asked for, shares no byte with another, and stays
\* what it is until it is freed or exchanged.
THEOREM AllocatorsAreHeaps == ASpec => HeapSpec
<1>1. AInit => H!Init
  BY DEF AInit, OInit, M!MInit, N!NInit, H!Init, EmptyBag, H!EmptyBag, M!EmptyBag, N!EmptyBag,
         SetToBag, H!SetToBag, M!SetToBag, N!SetToBag
<1>2. AllInv /\ AllInv' /\ [ANext]_avars => [H!Malloc \/ H!Free \/ H!Realloc]_held
  <2> SUFFICES ASSUME AllInv, AllInv', [ANext]_avars
               PROVE  held' = held \/ H!Malloc \/ H!Free \/ H!Realloc
    OBVIOUS
  <2>1. held' = held \/ Freed \/ (~broken /\ ~broken' /\ (Given \/ Changed))
    <3>1. CASE UNCHANGED avars
      BY <3>1 DEF avars, ovars
    <3> QED BY <3>1, OptClients, MClients, NClients DEF ANext
  <2>2. ~broken => held = [e \in DOMAIN held |-> 1]
    BY DEF AllInv, HeldOK
  <2>3. H!BagToSet(held) = DOMAIN held
    BY DEF H!BagToSet
  <2>4. \A bag, b : H!BagRemove(bag, b) = BagRemove(bag, b)
    BY Zenon DEF BagRemove, H!BagRemove
  <2>5. Freed => H!Free
    BY <2>3, <2>4 DEF Freed, H!Free
  <2>6. ASSUME ~broken, ~broken', NEW r, held' = BagAdd(held, r) PROVE H!Malloc
    BY <2>2, <2>6, Gives DEF H!Malloc
  <2>7. ASSUME ~broken, ~broken', NEW b \in DOMAIN held, NEW r,
               held' = BagAdd(BagRemove(held, b), r)
        PROVE  H!Realloc
    <3>r. PICK rest : rest = BagRemove(held, b)
      OBVIOUS
    <3>1. rest = [e \in DOMAIN held \ {b} |-> 1]
      <4>1. BagRemove(held, b) = [e \in DOMAIN held \ {b} |-> 1]
        BY <2>2, <2>7, BagFacts
      <4> QED BY <3>r, <4>1
    <3>2. rest = [e \in DOMAIN rest |-> 1]
      BY <3>1
    <3>3. H!Give(rest)
      BY <2>7, <3>2, <3>r, Gives
    <3> QED BY <2>3, <2>4, <3>3, <3>r DEF H!Realloc
  <2> QED BY <2>1, <2>5, <2>6, <2>7 DEF Given, Changed
<1> QED BY <1>1, <1>2, AInvariance, PTL DEF ASpec, HeapSpec, H!Spec

=============================================================================
