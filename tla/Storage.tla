------------------------------ MODULE Storage -------------------------------
(***************************************************************************)
(* The image of the file system of hw12 (temp/hw12/storage.c): a file that *)
(* is mapped where mmap likes and formatted at every mount, in steps       *)
(* between which the process may be killed; what it has written stays in   *)
(* the file.  The addresses are those of the code, so that what overlaps   *)
(* there overlaps here; of the image the words that are ever written other *)
(* than to zero are kept.                                                  *)
(***************************************************************************)
EXTENDS Integers

CONSTANTS
  Bases,      \* the addresses mmap may return
  MaxMounts   \* bound: formatted so many times, the image is mounted no more

BLOCK_SIZE == 4096
MEM_SIZE   == 1048576

ASSUME StorageAssumption ==
  /\ \A b \in Bases : b \in Nat \ {0}
  /\ MaxMounts \in Nat

\* struct inode is a pointer and two ints; an inode number is scaled by sizeof(INODE_SIZE).
inode_size   == 16
sizeof_size  == 8
dirList_size == 32
dirList_next == 24

get_inode(num) == BLOCK_SIZE + num * sizeof_size * inode_size

root_block    == get_inode(2)
root_refCount == get_inode(2) + 8
root_fileType == get_inode(2) + 12

\* The entries . and .. of the root directory: temp - sizeof(dirList) counts in entries.
dot     == 19 * BLOCK_SIZE - dirList_size
dot_dot == dot - dirList_size * dirList_size

Words == {0, 8, root_block, root_refCount, root_fileType, dot + dirList_next, dot_dot + dirList_next}

Pointers == {root_block, dot + dirList_next, dot_dot + dirList_next}
width(w) == IF w \in Pointers THEN 8 ELSE 4

\* The two bitmaps are cleared 16 bits at a time, each i * 2 bytes behind the last.
inode_bits == {BLOCK_SIZE + i * (i + 1) : i \in 0 .. 239}
block_bits == {2 * BLOCK_SIZE + i * (i + 1) : i \in 0 .. 237}

VARIABLES
  mem,      \* the file: a number in each of Words; a pointer is a number too
  base,     \* mem_base
  step      \* how far the process is, "off" if there is none

\* A new file is all zero.
SInit == mem = [w \in Words |-> 0] /\ base = 0 /\ step = "off"

Write(now, then, values) ==
  /\ step = now /\ step' = then
  /\ mem' = [w \in Words |-> IF w \in DOMAIN values THEN values[w] ELSE mem[w]]
  /\ UNCHANGED base

\* storage_init: open, ftruncate, mmap.
storage_init ==
  /\ step = "off" /\ mem[root_refCount] < MaxMounts
  /\ base' \in Bases
  /\ step' = "super"
  /\ UNCHANGED mem

WriteSuper == Write("super", "bitmaps", [w \in {0, 8} |-> IF w = 0 THEN 240 ELSE 238])

\* A word that one of the 16 bit stores falls into loses it; none of them does.
ClearBitmaps ==
  LET hit(w) == \E b \in inode_bits \cup block_bits : w <= b /\ b < w + width(w) IN
  Write("bitmaps", "dot", [w \in {v \in Words : hit(v)} |-> 0])

WriteDot == Write("dot", "dot_dot", [w \in {dot + dirList_next} |-> 0])

\* A variant for the checks: the address in the file for the one in memory.
WriteDotDotOffset == Write("dot_dot", "inode", [w \in {dot_dot + dirList_next} |-> dot])

WriteDotDot == Write("dot_dot", "inode", [w \in {dot_dot + dirList_next} |-> base + dot])

\* update_inode(2, temp, 0): three stores to the file.
StoreBlock == Write("inode", "count", [w \in {root_block} |-> base + dot_dot])
CountUp    == Write("count", "type", [w \in {root_refCount} |-> mem[root_refCount] + 1])
StoreType  == Write("type", "serving", [w \in {root_fileType} |-> 0])

update_inode == StoreBlock \/ CountUp \/ StoreType

\* The process is unmounted or killed, or it crashes; the file is what was written.
Stop ==
  /\ step # "off" /\ step' = "off"
  /\ base' = 0
  /\ UNCHANGED mem

init == WriteSuper \/ ClearBitmaps \/ WriteDot \/ WriteDotDot \/ update_inode

\* The word at an address of the mapping; anything else cannot be read.
Mapped(address) == address - base \in Words
load(address)   == mem[address - base]

get_dir_list == mem[root_block]

\* Where a walk over the directory is after n entries: 0 at its end, Lost outside of the mapping.
Lost == -1
walk[n \in 0 .. 2] ==
  IF n = 0 THEN get_dir_list
  ELSE LET entry == walk[n - 1] IN
       IF entry \in {0, Lost} THEN entry
       ELSE IF Mapped(entry + dirList_next) THEN load(entry + dirList_next) ELSE Lost

\* get_file_data walks to the end; the comparison that would find something is commented out.
get_file_data == walk[2]

\* The file holds addresses of memory.  Whatever earlier mounts have left in it, finished or killed
\* at any store, at whatever addresses: once the file system serves, its super block is right, every
\* entry that a walk over the root directory comes to lies in the present mapping, and the walk ends.
NoEarlierAddressFollowed ==
  step = "serving" /\ base # 0 =>
    /\ mem[0] = 240 /\ mem[8] = 238 /\ mem[root_fileType] = 0
    /\ \A n \in 0 .. 2 : walk[n] = 0 \/ (base <= walk[n] /\ walk[n] + dirList_size <= base + MEM_SIZE)
    /\ get_file_data = 0

\* What storage.h says of refCount, "how many files have this inode": the root directory's two
\* entries have it, and the image keeps no other.  Every mount counts it up once more.
RefCountIsFiles == mem[root_refCount] <= 2

=============================================================================
