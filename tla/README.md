# Verification of oldLnxMachine

The repository is a collection of systems programs: two parallel factoring
programs, a parallel Collatz driver in two versions, several memory allocators, a shell, a small
file system and a number of growing arrays. They share no state with each other; each is
a system of its own. This directory holds TLA+ models of them, the TLC
configurations that check the models, and TLAPS proofs.

## The system's parts

| Part | Source | State | Operations | What makes it hard |
|---|---|---|---|---|
| interprocess queue | `Operating Systems/HW/hw09/queue.c` | ring of 16 jobs, tickets `qii`/`qjj`, semaphores `empty`/`full` | `make_queue`, `queue_put`, `queue_get`, `free_queue` | lock-free tickets between two semaphores, job copied outside any lock, tickets wrap |
| factoring with processes | `hw09/main.c`, `hw09/factor.c` | the forked workers and printer, two queues | `factor_init`, `submit_job`, `work_off_jobs`, `print_results`, `factor_wait_done`, `factor_cleanup` | shutdown by messages on the work queue, `waitpid`, two rings in series |
| queue between threads | `HW/hw08/hw08/hw08/queue.c` | doubly linked list, mutex, condition variable, flag `done` | `queue_put`, `queue_get`, `set_doneq`, `wake_up` | sleeping and waking, `done` written without the mutex |
| factoring with threads | `hw08/.../main.c`, `factor.c`, `int128.c` | two queues, the threads, the jobs | `run_jobs2`, main's loops, `factor` | who tells whom that there is nothing more |
| Collatz driver (vectors) | `hw11-1/ivec_main.c` (same in `hw11/`) | per task a vector, `steps`, `dibs`, a mutex | `scan_and_iterate`, `worker`, `main` | a mutex that protects a flag which protects the rest; frees of shared data; termination test over a moving target |
| Collatz driver (lists) | `hw11-1/list_main.c` | the same with cons lists | the same | the same |
| allocator with caches | `hw11-1/par_malloc*.c` | size classes, lists of cells, a mutex | `par_malloc`, `par_free`, `par_realloc` | test under a lock that is released before the use |
| locked allocator | `hw11-1/nu_malloc*.c` | a free list under one mutex | `xmalloc`, `xfree`, `xrealloc` | headers and sizes, a `realloc` that reads the wrong word |
| free list allocator | `HW/hw07/hw06_mem.c` | address-ordered list of cells | `hw06_malloc`, `hw06_free`, `insert`, `coalesce` | long sequences of splits and merges |
| caching layer | `HW/hw07/opt_mem.c` (earlier: `opt_mem.c`, `curr/opt_mem.c`) | stack of freed cells | `nu_malloc`, `nu_free`, `opt_alloc`, `opt_free` | which of two layers owns a block |
| first allocator | `HW/hw06/nu_mem.c`; draft in `Systems/hw06/` | free list over 64K chunks, a counter | `nu_malloc`, `find_memory`, `nu_free` | a list that is forgotten, `munmap` of shared pages |
| shell | `HW/hw05/nush.c` and two earlier versions | process tree | `execute`, `main` | `fork`, failing `exec`, unreaped children |
| file system | `HW/hw12/temp/hw12/storage.c`, `nufs.c`; starter in `hw12_/` | the image, the mapping | `storage_init`, the callbacks | image layout, kills, remounts at other addresses |
| growing arrays | `Robotics/`, `hw08/.../ivec.c`, `hw11-1/ivec.h`, `systesthw04x/sort-strings.c` | array, capacity, count | add, insert, remove, copy | capacity at its boundaries |

Interaction inside the programs: main of hw09 shares both rings with its children and
meets them again only through `waitpid`; main of hw08 shares both lists with its
threads and meets them through `pthread_join`; Collatz threads meet in the tasks; a shell
meets its children in `waitpid` and in the input they share; the mounts of a file system meet in
its image.

## Plan

1. *(done)* The four concurrent programs and the queues under them. Abstract specifications:
   `BoundedBuffer`, `ClosableFifo`. Proofs for the ring.
2. *(done)* The allocators; the abstract specification of all is `Heap`, disjoint blocks that
   are long enough. Proofs about the size classes.
3. *(done)* The sequential cores: the realloc of the locked allocator, the earlier versions of the caching
   layer, `NuMem`, `Nush`, `Storage` and `Nufs`, `Vectors`; `CollatzLists` as a second representation of the
   tasks' data; the arithmetic of hw08.
4. *(done)* Proofs: the ring, in one batch too, and both factoring programs over their queues, the Collatz driver,
   the linked list, all the allocators, the shell, the file system and the growing arrays; the arithmetic of hw08
   for every number.
5. *(done)* The widths of the integers that matter (hw06's sizes, hw08's factors, hw11's table), and the Collatz
   drivers over a heap of pointers.

## Modules

**BoundedBuffer** – abstract: a counter that puts raise to at most `Capacity` and gets
lower.

**SharedQueue** – `hw09/queue.c`. `pc[p]` says which statement of `queue_put` or
`queue_get` process `p` executes next; `idx[p]` is its local `ii` or `jj`; `buf[p]` the
job it passes in or assembles to return; `todo[p]` the words still to be copied. One
action per statement: `PutWait` (`sem_wait(&empty)`), `PutFetchAdd`, `PutStore` for
each word, `PutPost`; `GetWait`, `GetFetchAdd`, `GetPost`, `GetLoad` for each word,
`GetReturn`. A race between a store and a load of a slot is
the choice of an old or new value word by word. `make_queue` is `Init`: `mmap` clears the
page. `Buffer` is the refinement mapping to `BoundedBuffer`: what is held is the
distance of the tickets modulo the span of an unsigned int.

**QueueConstants** – the two constants that `SharedQueue` and the program over it have in common.

**OneBatch** – the use for which the ring is right: one putter, at most `QUEUE_SIZE`
puts in all, any number of getters. `sent` and `got` are histories. Main is such a
putter on `iqueue` when it factors no more numbers than there are slots.

**FactorProcesses** – `hw09/main.c` and `factor.c` over two instances of
`SharedQueue`. `at[p]` is where each process is outside the queues' code, `ii` main's
loop counter, `printed` what the printer wrote. A job on `iqueue` carries only its
number; the list of factors is one more word, equal to the number it factors. The numbers are
`Start` and those behind it, and positive: `main.c:21` takes anything from `atol`, but a negative number ends the worker
that takes it (`factor.c:32`), which is how main stops the workers, and the loop of `factor` never ends on 0 (`factor.c:168`).

**ClosableFifo** – abstract: a FIFO that can be closed; a getter is told "nothing"
only when it is empty and closed.

**ThreadQueue** – `hw08/queue.c`. The linked list is modelled pointer by pointer
(`head`, `tail`, `node[a].prev`, `node[a].next`, with `malloc` choosing any free address
and `free` removing it). A critical section is one action; `asleep` is the set of threads
inside `pthread_cond_wait`. `fifo` is a history used in the mapping to `ClosableFifo`.

**Factoring** – the arithmetic of hw08: the trial division of `factor.c` as a recursive function (`divisors`), the
vector of `int64_t` that its results are pushed on (`factor`, by `int64`; `INT64_SIGN` is 2^63), main's check
of the product, `atoh` and `print_int128` by digits. `IsFactorization` is the definition it is checked against; `Fits` says
that the prime factors of a number can be entries of the vector. The program takes numbers below 2^127. `isqrt` is the root
rounded up; the code computes it with doubles, which is exact enough for roots below 2^53, the only ones a search can get to.

**FactorThreads** – `hw08/main.c` and `factor.c` over two instances of `ThreadQueue`. A job is its address;
`factors` is the field that the threads fill in, `printed` what main has printed and freed.

**Collatz** – `hw11-1/ivec_main.c`. The vectors live in a heap: `ivecs` is every vector that was made, a pointer is a
place in it and never used again, `freed` the pointers given to `free_ivec`; `vals[k]` and the local `xs[t]` are
pointers. One action per access to a task: `TakeDibs`/`Skip` (the first critical section), `Load` (the pointer, and the
last number), `Iterate` (`ivec_copy` reads the shared vector through the pointer loaded before, `iterate` extends the
copy), `Free`, `Store`, `CountDone`, `DropDibs`, `EndScan`. `base` is any value `random() % data_top` can have.

**CollatzLists** – `hw11-1/list_main.c`, or `ivec_main.c`: `driver` says which. The list driver replaces the three
actions that look into a sequence by ones over `lists`, a heap of lists with the newest number first and the same
pointers, and keeps in `ivecs` what each list spells from its end, so that the same properties speak of both.

**Heap** – abstract: a bag of blocks in the hands of clients; what is given out is as long
as was asked for and overlaps nothing that is out.

**FreeList** – `HW/hw07/hw06_mem.c`, which `hw11-1/nu_malloc_help.c` repeats. `list` is the free list as a
sequence of cells, `live` the
size fields of the blocks handed out, `mapped` what came from `mmap`, `lost` a history of the
remainders that are too small for a cell. `hw06_malloc` is one of three actions: its own
mapping (`MallocLarge`), the first cell that fits (`MallocFromList`), a new chunk
(`MallocFromChunk`); the last two `carve` and insert the rest. `coalesce` is
the single pass of the code, which after merging two cells goes on behind them.

**OptMem** – `HW/hw07/opt_mem.c` over `FreeList`: `stack` holds the freed blocks of the one
size that `opt_alloc` returns; `held` is the bag of what clients hold. The version `"counted"` is that of
`src/opt_mem.c` and `src/curr/opt_mem.c`: `push_counted` adds to a local variable that nobody has set (any of
`Garbage`) and stores the sum in the size field by which `nu_free` tells the layers apart. When a small block is
then taken for one of the lower layer (`nu_free_counted`), the model stops: `broken`.

**NuMalloc** – `hw11-1/nu_malloc.c` and the `hw06_realloc` of `nu_malloc_help.c` over `FreeList`. A call holds the
mutex and is one step; `MoveBlock` and `FreeMoved` are the two halves of the one call that does two
things. The code reads the size 64 bytes (`BACK`) in front of the block: any word may be there (`KeepBlock`,
`MoveBlock`), or nothing that is mapped (`ReadBeforeChunk`).

**NuMem** – `HW/hw06/nu_mem.c`, with its own coalescing on both sides (`merge_both`) and its counter of free blocks
(`count`). A size with its header is an int (`with_header`, `int32`; `INT32_SIGN` is 2^31): a request whose sum is beyond
it gets a block of one cell, or of what is left of the sum, and `hand` sets `broken`. `search` is the call that is inside `find_memory`: `add64K` maps a chunk if the list is empty,
`forget_list` drops the list if its first cell is too small, `split_head` serves the call. `munmap` is the kernel's:
refused off a page boundary, and good for whole pages.

**Allocators** – the five allocators with one free list side by side, `version` says which the program is linked
with; they share the description of memory and the properties about it.

**SizeClasses** – the arithmetic of `par_malloc_help.c`, for `hw11` (`getClassChunkSize_11`) and `hw11-1`.

**ParMalloc** – `hw11-1/par_malloc_help.c` under `par_malloc.c`. `master` is the address and
count of the shared chunk, `cache[t][k]` the list of class `k` of thread `t` (a `__thread` array in the
code), `pc[t]` where `t` is in `par_malloc`: one action for each of the two critical
sections (`InitMaster`, `Refill`), one for each stretch without the lock
(`setUpCacheList`, `Take`, and the return, which in `par_realloc` frees the old block). The lists
are sequences of addresses; a next pointer whose low half, as an int, is below 10000 (`LowEnds`: its bit 31 is set, or the half is almost
zero) reads as the end of the list, as in line 174. The table `cacheList` has 377 entries, for the classes 0 to 376,
so requests are of at most 32760 bytes (`MAX_SIZE`), vectors of up to 2048 longs in the drivers, whose capacities are powers of two. A vector
of 4096 longs falls into class 377, behind the table, where the model does not follow. Nobody clears the table either; its
lists are empty since each thread's table is the first large block it takes from the system's `malloc`, in memory fresh
from the kernel.

**Nush** – `HW/hw05/nush.c`, its draft in `Operating Systems/hw05/` and the first version in `src/hw05/`. `pc[p]`
is what process `p` does, `pos[p]` how many lines its copy of stdin's buffer has given it, `parent` and `child` who
waits for whom. `Fork` makes a copy of the process; `Exec` either becomes the program or, if there is none, returns to
main's loop as a second shell. `Redirected` is the draft's `<`, which reads stdin to its end. `&&` and `||` look at the
command's name, not at its status (`Skips`). The first version, which looks for the first space only, has no operators and
reads one line; it does not ask whether there was one (`hw05/nush.c:62`), so that no script is empty.

**Storage** – `HW/hw12/temp/hw12/storage.c` at its real addresses: the image as the words that are ever
written (`Words`), `base` where `mmap` has put it, anywhere and over the place of earlier mounts too, `step` how far the
formatting is; the three stores of `update_inode` are steps of their own. The 16 bit stores of the
bitmaps are at the addresses that the code's scaled pointers give, which overlap neither each other's words nor the
root's; the entry `..` lies 32 entries before `.`, not one; an inode number is scaled by 128. The image that
the repository keeps, `temp/hw12/data.nufs`, agrees with the model: 240 and 238 in the words 0 and 8, the root
inode at 4352 with a reference count of 40 mounts, its entries at 76768 and 77792. `walk` follows the pointers of the
file in the present mapping.

**Nufs** – `nufs.c` of `temp/hw12` over `Storage`, and of the starter `hw12_` over its table of files. Callbacks are
actions; `kind` is what the kernel has learned from `getattr`, without which it neither opens nor reads. A callback
that reads through a bad pointer ends the process (`Fault`); the callbacks that only refuse are one action.

**Vectors** – seven programs' arrays, `program` says which: `hello2.cc` (doubles, halves), `lab1-22.cpp` (grows by two), the
menus `hello.cc` and `lab1.cpp`, the `ivec` of hw08 and of hw11, and the lines of `sort-strings.c`. `kept` is the
sequence that was asked for, `overrun` whether a store fell outside of the array, after which the program may end at any time.
`ivec_copy` of hw11 passes the capacity to `make_ivec` as an int, and would abort from 2^31 on; no bound is near.

**MCTools** – the last three groups, which are small, under one configuration: `tool` says which of them runs.

Operators under the comment "A variant for the checks" are deliberately wrong
alternatives of a definition below them. Nothing refers to them: substituting one for that
definition must make a property fail, which shows that the property depends on the code.

## Runs

| Run | Instance | Shows |
|---|---|---|
| `shared_queue` | 2 putters, 2 getters, 2 slots, tickets modulo 4 | `SpaceAccounted`, `TicketsAccounted`, refinement of `BoundedBuffer`; no deadlock |
| `one_batch` | 1 putter, 2 getters, 3 slots, 3 jobs of two words | `Faithful`, `AtMostOnce`, `EveryJobArrives` |
| `factor_processes` | 2 workers, 3 numbers, 2 slots | orderly shutdown, only submitted numbers are factored, queues empty when freed, the program ends and reaps every child |
| `factor_processes_lost` | 1 worker, 3 numbers, 2 slots | **violated**: a number is lost (`test.t:40`) |
| `factor_threads` | 2 threads, 3 jobs, first numbers 63 and 73, vector entries below 32 | lists implement `ClosableFifo`, jobs are conserved, results whose factors fit are prime factorizations before main can see them and the others fail main's check, main prints all but fewer jobs than threads and joins every thread once out of its loop |
| `factor_threads_stuck` | 2 threads, 2 jobs | **violated**: lost wake-up, main waits for ever (`main.c:98`) |
| `collatz` | both drivers, 2 threads, `TOP` = 4, chunks of 3 | mutual exclusion by `dibs`, no access through a freed pointer, correct and final steps, the maximum; every task is finished |
| `allocators` | five allocators; header 1, cells 2, pages of 4, chunks of 2 pages, 5 pages, ints below 16 | lists in order, every byte in one place, blocks in one layer, the size field tells which, hw06's search ends; refinement of `Heap` |
| `allocators_reuse` | the same | **violated**: hw06 unmaps a small block though no full chunk is free (`nu_mem.c:375`) |
| `par_malloc` | 2 threads, first requests of 4000 bytes that are doubled once, 2 chunks, 4 blocks | no byte is in two places, the chunk's count lies in the chunk; refinement of `Heap` |
| `tools` | the shell: three versions, every script of 2 lines of 14 kinds, and of 3 without `&`, 8 processes; the file system: 3 mounts at 2 addresses, a kill after any store, reads of 4 and 4096 bytes, 3 paths; the arrays: seven programs, 2 values, indexes -1 to 4, up to 6 elements | shells take turns, only background children are left unreaped, a line runs once per shell, all processes end; a mount follows no address that earlier ones left, the starter never crashes; arrays hold what was added, capacity 0 is for ever |
| `inode_count` | the same | **violated**: `refCount` counts mounts, not files (`storage.h:21`) |

Bounds. Two slots and four ticket values make the ring and the tickets wrap
independently; two putters and two getters give every overtaking on each side. Three
numbers exceed the slots, so that main, workers and printer block on full and empty rings. Words
of a job: two are enough to see a torn copy. The numbers of `factor_threads` are ones with a factor twice, a power of
two (whose list ends in 1), one with divisors on both sides of its root, and two with the primes 73 and 37, which do
not fit a vector of entries below 32 (`INT64_SIGN`). In `collatz` the sequence of 3 needs
several chunks of 3 numbers while those of 1 and 2 do not, so that tasks finish at different
times. In `allocators` the sizes (`Sizes`, `NuSizes`) are opt_alloc's, ones that are split off free cells, ones
above a chunk, and for hw06 one that no chunk can serve and one whose int (`INT32_SIGN` is 16) is negative; five pages (`MaxPages`) let two chunks meet, large
blocks come and go between them and `mmap` fail; the limit of the counter (`FREE_LIMIT`, 4 in the code) is 1. In
`par_malloc` the sizes are the real ones: blocks of 4000 bytes fall into the largest class that is cut up 16 at a time
and 8000 into one that is not; the chunk (`CHUNK_SIZE`) is shortened to one piece of 16 and one large
block, so that both threads run it out, one between the test and the cut of the other. `Slots` lets two
chunks be mapped, the second where `LowEnds` truncates lists; `MaxLive` bounds the blocks
taken. Three lines let a second shell make a third (`MaxProcs` is enough for
all of them and their children). Three mounts (`MaxMounts`) give an image that was written at another address, completely
and half. Six elements (`MaxCount`) take every array over its first growth and hello2's back down to nothing. The
runs that may stop legitimately (the program has exited, the batch is used up) switch
the deadlock check off; there a liveness property says that the system
stops only where it should.

Fairness. Weak fairness of each process or thread: the kernel schedules whoever can run.
The semaphores and mutexes of these programs are not assumed to be strongly fair. The ring on its
own (`SharedQueue`) has no fairness: nothing obliges a client to make a call. No fairness is put on spurious wake-ups. In
`Allocators` only `find_memory`, a loop inside one call, has to go on; in `Nush` the programs that are executed end (`ShellEnds`).
`Nufs` and `Vectors` have safety properties only: they wait for requests.

## What the checks found

Four statements of the repository are refuted by a run (`findings` in
`PROJECT.json`). A ring with two semaphores is safe for one
putter and one getter that copies *before* it posts `empty`. `queue_get` posts
first, so already one worker and one number more than slots lose a number. With several
workers, also fewer numbers can be lost on `oqueue`, since a worker may be overtaken between its
`atomic_fetch_add` and its `sem_post`; for the same reason `full` does not say "how much is written"
(`queue.c:25`). What does hold, with any number of processes,
is the accounting: slots and tickets are never lost, so the program always ends, even when what it prints
is wrong.

In hw08 the shutdown has two independent gaps: a lost wake-up
(`set_i_done` sets a flag but wakes nobody), and main's loop, which ends at the first of `threads`
null jobs, so that a job each of the other threads is still factoring is never printed, against `test.t:21`.
`MissesFewerThanThreads` says how much is missing at most. What does hold: no job is lost by a queue or seen by two
threads, and once main has left its loop, every thread is joined.

In hw06 `find_memory` forgets the whole list when its first cell is too small. The counter of free blocks is not
reset with it and counts every freed block that merges with no other, so once it has passed 4 no freed block is reused. Each goes
to `munmap`: refused, and so leaked, inside a page; good for the whole page, live neighbours included, at the start of one. The
comment in `nu_free` (lines 375 to 378) wants small blocks saved for reuse, unless too many *full chunks* are free; `SavedForReuse`
states that and is violated.

In hw12 (`temp/hw12`) every mount formats the image but for the inodes, and counts the root's `refCount` up once more; what
`storage.h` calls "how many files have this inode" is the number of mounts (`RefCountIsFiles`). The repository's `test.t:87-99`
goes further: it remounts and expects `one.txt` and `two.txt` in the directory still, with their data. This version cannot get
there: `nufs_mknod` refuses, so the files do not exist before the remount either, and the model has no file
that could be lost. `NoEarlierAddressFollowed` is not that claim; it says that a mount cannot be led astray by the addresses
of memory that earlier mounts have stored in the file.

Other behaviour that the models follow and their properties state or work around:

* hw06: a request for which no chunk is large enough, yet is below the limit for a mapping of its own, maps chunk
  after chunk until `mmap` fails (`SearchEnds` says that it ends, one way or the other). `int realSize` (line 329) makes a request
  near 2^31 negative, and one cell is handed out for it.
* hw08: a divisor of 2^63 or more loses its upper half in `ivec_push(ivec*, int64_t)`. The numbers of the Makefile's `time_big`
  include the prime 2^64 + 13, whose list of factors is 13; main then prints "Warning: bad factorization". The 2^66 of
  `test.t:20` has only small factors. `ResultsFactored` says that the check notices every such result.
* hw11: `par_malloc` has no class for a vector of 4096 longs and indexes behind its table.
* hw07's earlier copies: the stack's byte count starts at whatever a local variable held.
* hw11: `hw06_realloc` casts before it subtracts. If the word 64 bytes before a block equals
  the new size, the block is returned as it is, too short.
* nush: a command that is not found leaves a second shell that executes the rest of the script before the first
  goes on (`RunsOncePerShell`); an empty line ends the shell by a null pointer.
* hw12: looking up a path, the root too, finds nothing or crashes.
* hello2: a vector that has been emptied shrinks to capacity 0 and is never enlarged again (`NothingForGood`).
* sort-strings prints one entry behind its last line; the entry exists, what it points to nobody has written.

## Proofs

`SharedQueueProofs` (about any sets of putters and getters, any ring and any ticket
span that satisfy `SharedQueueAssumption`):

* `QueueTypeCorrect`: `Spec => []TypeOK`
* `SpaceIsAccounted`: `Spec => []SpaceAccounted`
* `TicketsAreAccounted`: `Spec => []TicketsAccounted`
* `QueueImplementsBuffer`: `Spec => BufferSpec`

The inductive invariant is `IInv == TypeOK /\ SpaceAccounted /\ TicketEquation`.
`TypeOK` alone is not inductive: that `empty` and `full` stay at most `QUEUE_SIZE` follows only
from the accounting of slots. `TicketEquation` says `TicketsAccounted` without the
modulo of a difference: `qii` is `qjj` plus `Outstanding`, less the span if that wraps. `CountMove` and
`CountSame` say how moving one process from one statement to another changes the counts. For the
refinement, the two tickets' `atomic_fetch_add` are the abstract put and get
(`ClaimPut`, `ClaimGet`), every other step is a stutter.

The assumption that `QUEUE_SIZE` divides the span holds for 16 and 2^32; without it the slot of a
ticket would jump when the ticket wraps.

`ParMallocProofs` begins with the size classes (about every size): `ClassHoldsSize`, the block of a size's class has room for it;
`ClassIsStable`, a block returns to the class it came from, which is what lets `par_free` read the
class off the size field; `DoublingIsNoticed`, `par_realloc`'s comparison of the size with
header and the new size without never finds them equal when a vector of more than one word is
doubled; `PieceFits`, a new master chunk has room for a piece of each of the classes 1 to 376 that the table has
(no request is of class 0), in both copies of the allocator. Each is by cases at the sizes where the formula changes.

`CollatzProofs` (about any threads, any `data_top` and any `CHUNK` that satisfy
`CollatzAssumption`) proves every safety property of the run `collatz`:
`CollatzTypeCorrect`, `DibsAreALock`, `NothingFreedIsUsed`, `SequencesAreCollatz`, `StepsStay`,
`ExitsWhenDone`, `PrintsTheMaximum`. The parts of the inductive invariant `IInv`:

* `Control` and `DibsExclusive`: a thread has dibs within a round only, and alone.
* `Pointers`: tasks never share a vector, the pointer that a thread copies through is still its task's, a copy that is
  not stored yet is nobody else's, and a freed vector belongs to a task whose thread is about to store another, so
  whoever else reads it would hold the same dibs. That the heap only grows (`HeapGrows`, `SequenceStays`) keeps what the
  other threads' pointers lead to.
* `Sequences`: what a thread with dibs knows of its task. It found the last number above
  1 or equal to 1, and that stays true until it drops dibs since nobody else stores there.
  Without this part `StepsAreFinal` is not inductive.
* `CountedAreDone`: if a thread has counted each of the tasks it has looked at in this scan,
  each is finished. Steps are never unset, so it does not matter that the tasks were seen at
  different times; skipping one makes the count too small for good.

`ScanVisitsAll` adds that the rotation reaches every task from every `base`, also
from `base = data_top - 1`. The results of the two loops, `iterate` and the maximum in main, are
recursive functions; `GrownExists` and `MaximaExist` show that they are defined and
`IterateClosed` and `MaxStepsIsMax` what they compute, each by taking the least number that is
a counterexample (`Least`, from the well-foundedness of the naturals).

The last part of `CollatzProofs` is about the driver over lists: `ListsImplementVectors` shows that each of its steps is
a step of `Collatz` on the sequences that the lists spell from their ends, and `BothDriversAreSafe` that it has all
these safety properties. `ListsAgree` is what is needed: at each pointer, `ivecs` holds what the list there spells, and
no list is empty. The lemmas are that `copy_list`, a fold, returns its list (`CopyIsList`) and that
`iterate_list` is `iterate` on what the list spells (`IterateListIsIterate`), again from the least counterexample.

`FactorProcessesProofs`, first part (about any number of workers, numbers and slots): `WorkersLeaveLast`,
`FactoredWasSubmitted`, `QueuesAreEmptyAtTheEnd`. The two rings bring their own invariant (`IP!IInv`, `OP!IInv`), proved
in `SharedQueueProofs` and instantiated. The rest of `FInv` is one balance over both of them: `Conserved` counts
where each job that main has begun to put is, in either ring, with a worker, with the printer or printed. Jobs can be
overwritten, so it counts jobs and does not follow them. `NoEarlyDone` (no -1 is anywhere before main has waited for
the printer) makes workers stay, `FirstRound` and `Written` keep a worker from reading a slot that nobody has
written while the ring is filled for the first time. `FactorProcessesAssumption` repeats what the rings assume.

`FactorProcessesProofs`, second part (about `OneBatch`: any getters, any ring and any batch that fits into it): `QueueIsFaithful` and
`QueueDeliversOnce`. `BInv` adds to the ring's invariant that the tickets count jobs (`NoWrap`), that the
putter's unfinished job is the last and announced slots hold what was sent (`PutterAtLast`, `SlotsWritten`), and that
a getter holds a ticket below `qjj`, alone, and has copied only from an announced slot (`GettersBehind`,
`TicketsOnce`). The last needs the accounting of slots: that a ticket below `qjj` was announced follows from `full`.

`ThreadQueueProofs` (about any threads, messages and qnodes): `ListImplementsFifo`. The history `fifo` is what
the pointers spell out: from `tail` along `prev` and from `head` along `next` (`Ends`, `Links`), no qnode twice. The
last part is what a put needs to know that the qnode it writes is not on the list.

`FactorThreadsProofs` (about any number of threads and jobs): `BothQueuesAreFifo`, `JobsAreConserved`,
`FewJobsAreMissed`, `ResultsAreFactored`. As above, the lists bring their invariant, `Counted` is the balance over both. Here jobs are
followed one by one as well (`Places`). `FewBehind` bounds what is put behind the first null job: a thread puts its null
job after its last job, so of the others each has one job at most; it needs that iqueue stays empty once a thread was told
so (`Drained`) and that a null job comes from a thread that goes on to end (`NullPut`).

The module begins with the arithmetic. `FactorIsRight`: of a number whose prime factors fit the vector, what `factor` returns are
the prime factors in ascending order, and a 1 behind a power of two. If one does not fit, the truncated entries cannot multiply to
the number by accident: what passes main's check is a factorization. First, for every number, `divisors` is shown to be one. The search of an odd divisor is a function of the number and the next
divisor that is defined by itself; `Recursion` says that such a function exists if its arguments have a rank that
falls (`OddRank`: the number first, then how far the divisor is from its bound), and `ByRank` is
induction over the rank. Along it: no smaller number divides what is left (`NoneBelow`), so that a divisor that is found is
prime (`LeastDivisor`) and comes behind smaller ones (`MorePrimes`), and a number without one up to its root is prime
(`NoneToRoot`); this is where the root rounded up matters. `PrintsAndReads`: the digits that `print_int128` prints read back as
the number. `product` and `atoh` are folds of the library; `PrefixFolds` unfolds them from their end. `ResInv` adds
that a job is complete from when its thread goes to put it; that main frees a job behind
nobody's back is `JobsAreConserved` (`OnlyOnOqueue`).

`ParMallocProofs` (about any threads, sizes, chunks and slots that satisfy `ParMallocAssumption`):
`MasterStaysInChunk`, `NoByteInTwoPlaces`, `CachesAreAHeap`. The central part of `PInv` is `SpotsApart`, which
says of everything that has bytes (`Spots`: positions of the caches, taken blocks, pieces being cut, the master chunk's
rest, slots not mapped yet) that no two share one. Each step renames spots or carves one into several: `Carved` says that
the spots stay apart when each new one lies within an old one and those within the same one are apart, so that an action
has to name the old spot of each new one only. `Working` says what a thread knows between its critical sections: the list it
is about to fill is empty, the block it is about to return is in no client's hands. `Headers` puts a size field of the
right class in front of every block of a client, from which `par_free` reads the class; `Exchanges` keeps a block that is being
doubled with its client; `MasterPlace` is `MasterInChunk` without the division. The test of `par_realloc` for a block that is
large enough never succeeds (`xreallocKeeps`, from `DoublingIsNoticed`). The assumptions are that clients ask for vectors of
longs with room for more than one (the drivers ask for 4) or for cells of lists, up to the largest class of the table (376, 32760
bytes), and that a chunk is larger than a piece of each class, which `PieceFits` shows of 4 * 65536.

`AllocatorsProofs` (about any sizes, pages, bounds and `FREE_LIMIT` that satisfy the assumptions of `FreeList`,
`OptMem`, `NuMalloc` and `NuMem`) proves every safety property of the run `allocators`: `ListsStayInOrder`,
`MemoryIsAccounted`, `EachBlockInOneLayer`, `SizeFieldsTell`, `AllocatorsAreHeaps`. The parts of the
inductive invariant `AllInv`:

* `Shape`: which of the variables each version uses; `InOrder`: the list is sorted, and hw06's has no neighbours that
  touch. A cell that `nu_free` puts back is merged on both sides at once, so that the gap needs no second pass.
* `Parted`: the mapped bytes are split up between the cells of the list, the blocks and what was given up. It speaks of
  how many bytes a block *has* (`Real`), which is not always what its size field says: hw06 maps whole pages
  for a large block, and the counting stack overwrites the field. `EveryByteInOnePlace` alone is therefore not inductive.
* `Headers`, `HeldOK`, `Layers`, `Owned`: what a size field may be, that clients hold each block once and that it is long
  enough, what hw07's layers know of their blocks (`Small` are those of `opt_alloc`, whatever the field says), and
  that a block is either with a client or on the stack. `Counted` is what remains of the size field in the
  earlier copies.
* All but the first two and `Counted` hold until the program has broken its memory (`broken`): a block that `realloc`
  kept too short, or that hw06's int made too short, a block taken for another layer's, live neighbours unmapped.

What one step does to memory is said once for all allocators (`Take`, `Put`, `GetMapped`, `GetUnmapped`, `GiveUp`,
`Hand`, `Return`); the actions are put together from these. `coalesce` is a recursive function: `PassExists`
shows that the pass is defined, by the last position at which it would not be, and `CoalesceKeeps` that
it keeps order and bytes. That a chunk is longer than a cell (`CELL_SIZE < CHUNK_SIZE`, 65536 bytes in the code) is
needed: `nu_free` of hw06 takes a block as long as a chunk for one that has pages of its own.

`ToolProofs`, about the smaller programs:

* The shell (any scripts, any number of processes, all three versions): `ShellsTakeTurnsHolds`,
  `OnlyBackgroundUnreapedHolds`, `RunsOncePerShellHolds`, from `ShellInvariant`. `Places` says that who waits has a
  live child to wait for, `Parents` that a child's parent is live, `Kids` that all children but the awaited one are in the
  background, `Alone` that without `&` at most one process is not waiting. `RunsOncePerShell` compares a count with a
  sum over earlier lines and is far from inductive; `Budget` counts ahead: those who have still to read a line
  (`Readers`) and those who have read it are together at most one more than the second shells that the lines before have made. A
  fork moves nobody, a line that is read moves one reader, a failed `exec` makes one for each later
  line. If no line ends a shell (`Whole`), the two sides are equal, and at the end nobody has anything to read.
* The file system (any addresses, any number of mounts killed at any step): `NoEarlierAddressFollowedHolds` and
  `StarterSurvivesHolds`, from `NufsInvariant`. The `Format_` predicates say what each store of the formatting has
  written, whatever was there before. That no 16 bit store of a bitmap falls onto it is arithmetic: the `i`-th store is at
  `i * (i + 1)`, which jumps over what matters (`Neighbours`, `BitmapsMiss`). `StarterInv`: the kernel has
  taken for a file only what has data.
* The growing arrays (any values, indexes and lengths): `HoldsWhatWasAddedHolds` and `NothingForGoodHolds`, from
  `VInvariant`. `Rooms` keeps one entry free in sort-strings, and says that only hello2 loses its whole capacity; `Holds` says
  that the first cells are what was asked for.

The shell's sums are folds over finite sets; `SumsOf` shows, by induction over the size of the set, that they obey the
recursion, `SumOfZero` and `SumOfMore` what a step does to them.

Each of these invariants was checked by TLC on the instance of the component's run before it was proved.

Every safety invariant that a run checks is so proved. Only model-checked, since it is out of the prover's reach, is what
needs fairness or `ENABLED`: that programs end and reap (`factor_processes`, `factor_threads`, `tools`), that every job of
a batch arrives, that every task is finished and that hw06's search ends (`SearchEnds`).

## Not modelled

See the components with status `not_modelled` or `partly` in `PROJECT.json`:

* the draft of the first allocator in `Systems/hw06`, whose `nu_malloc` scales its offsets by the size of a cell and leaves its
  mapping with the first request that is not tiny;
* what does not compile: the later file system in `src/hw12`, `Robotics/lab1-2.cpp`, and of `hints/` what no program uses;
* the allocators' statistics, what blocks of memory contain, and what a program does after it has damaged its memory;
* in the shell, how a line is split into words and what the programs print; scripts longer than one read of
  stdio, where second shells and the first share the file offset;
* wrappers of the C library, the programs that only exercise the allocators, HW0.

Failing `fork`, `malloc` and `pthread_create` are not modelled: the programs do not handle them. (A failing `mmap` is,
for hw06, where the code's own loop leads to it.) Integers have their width where it matters: the tickets
of hw09, the sizes of hw06, the factors of hw08; Collatz sequences stay below 2^63 for every start anyone can run, and are unbounded
in the model. Only the file system keeps anything over a crash; there the models kill it at any step.
