# CellulOS verification

Specifications in TLA+ of the kernel of CellulOS, with model-checking runs (TLC)
and proofs (TLAPS). Every definition is a translation of the source; comments in
the modules name the functions, and `PROJECT.json` the lines, that each stands for.

CellulOS is a kernel for one x86-64 processor. After start-up everything happens
in system calls and in the interrupt of one timer: there are no kernel threads.
What makes it hard is therefore not parallelism but

* structures with redundant, cached or lazily updated parts, used for months of
  calls in any order (page tree, buddy tree, heap lists, red-black tree);
* a scheduler whose arithmetic decides whether preemption goes on at all;
* the places where system calls *are* preempted, because somewhere below them
  interrupts are enabled, in code written as though they never were.

## 1. Inventory

| Part | State it keeps | Operations | Used by | What makes it correct |
|---|---|---|---|---|
| physical page allocator, `kernel/mem/phmem_allocator.hh` | bitmaps; per inner node one cached bit "some child has a free page" | `get_page`, `release_page`, `mark_used` | `get_phpage`, `release_phpage` (`kernel/kmmap.cc`), set up by `setup_heap` | caches exact; a page found while there is one; none handed out twice |
| virtual range allocator, `kernel/mem/vmem_allocator.hh` | binary tree of blocks, each with the order of the largest free block below, lazily propagated | `mmap`, `munmap`, `mark_used` | `kmmap`, `kmunmap` | ranges disjoint; the tree tells which pages are mapped; null never turned into an address |
| page tables, `kernel/mem/phmem_manager.cc` | four levels of tables in memory, reached through a window | `back_vmem`, `unback_vmem` | `kmmap`, `kmunmap`, ELF loader | a mapped page has a frame of its own; frames come back once |
| heap, `kstdlib/new.cc` | pages with a bitmap of slots; a doubly linked list for each size of largest hole | `new`, `delete` | everything | blocks disjoint; lists agree with bitmaps; pages go back |
| map, `kstdlib/map.hh` | red-black tree with parent pointers | `operator[]`, `erase`, `clear`, `contains` | scheduler | finds what was put in; balanced |
| scheduler, `kernel/proc/sched.cpp` | graph of processes (maps), ready queue, weights, balances, slices | `add_process`, `add_edge`, `next`, `exec_report` | `scheduler_main` | each process queued once and served for ever; slices fill a cycle; weight conserved |
| context switch, `kernel/proc/scheduler_main.cc`, `saveregs_hook.s`, gates in `kernel/kernel.cpp` | `current_process`, `registers`, a context and a kernel stack per process, timer and in-service bits | timer interrupt, yield (int 32), system call (int 33) | processes | own registers; always preemptible; calls return; charged for what was used |
| interrupt vectors, `kernel/interrupts.cc` | bitmap `isallocd` of vectors | `register_gate`, `register_interrupt_block` | drivers | no vector has two handlers |
| FAT file system, `drivers/fat/` | one file handle and one lock for all files; chains of clusters | `read`, `write`, `seek`, directory iterators, `acquire_lock` | virtual file system | the handle is where the operation put it; no process waits for itself; clusters belong to one chain |
| AHCI driver, `drivers/ahci/` | command slots and rings shared with the controller | `read`, `write`, `seek` of sectors | GPT, FAT | completions belong to commands; partial sectors keep the rest |
| virtual file system, `kernel/fs/` | a tree of mounts, a cursor with a depth in each | `mount`, `push`, `pop`, `open_file` | system calls | paths lead where they say, or nothing changes |
| loading of processes, `kernel/proc/proc.cc` | an address space and a first context per process | the constructor `proc` | kernel | segments backed, page tables of its own |
| GPT, PCI, terminals, C library, boot loader | little or none after start-up | | | |

How they interact: a process makes a system call (Dispatch), which walks paths in
the virtual file system, which calls the FAT driver, which takes the lock of the
file system (FatLock), moves the one handle that its files share (FatFile) and reads and writes bytes of the disk
(Disk). Anything may call `new` (Heap), which calls `kmmap` (KMem) for pages: a range of addresses
(Buddy), frames to put there (PhTree) and page tables, which come from `kmmap` again. The
loading of a process goes through the same tables, and drivers take frames for themselves. The
timer interrupts it all and asks the scheduler (Sched, over RBTree) what to run.

`PROJECT.json` lists the same parts with their files and status, and under
`hazards` forty places in the code that a test would hardly reach, each with the
properties that watch it, or the reason why none does.

## 2. Modules

| Module | What it models |
|---|---|
| `PageAllocator` | the abstract allocator of frames: a set; any free page may be handed out, null only when there is none |
| `PhTree` | the page tree of `phmem_allocator.hh` and its use by `setup_heap`; implements `PageAllocator` |
| `PhTreeProofs` | its proofs |
| `RangeAllocator` | the abstract allocator of ranges: disjoint, inside the space, given back from the front or whole |
| `Buddy`, `MCBuddy` | `BuddyAlloc` and `VirtualMemoryAllocator`; implements `RangeAllocator` |
| `BuddyProofs` | its proofs |
| `Heap` | `operator new` and `operator delete`; implements `RangeAllocator` in slots |
| `HeapProofs` | its proofs |
| `RBTree`, `RBMap` | the operations of `rb_tree`, and a map in use |
| `Sched` | `hl_sched` with its client `scheduler_main`, over `RBTree` |
| `Dispatch` | timer, gates, entry and exit code, system calls |
| `DispatchProofs` | its proofs, and those of `FatLock` on top of them |
| `FatLock` | `acquire_lock` and the operations of the FAT driver under it, composed with `Dispatch` |
| `FatFile`, `MCFatFile` | files of the FAT driver, one shared handle, the table of clusters |
| `FatDir` | the three searches of a FAT directory, as functions of its entries |
| `RootFs`, `MCRootFs` | paths: the iterator through mounts, FAT directories (`FatDir`) and devfs |
| `FatProofs` | the proofs of `FatFile`, and those of `FatDir` and `RootFs` |
| `Disk` | the disk as a file of bytes, over sector commands that complete in any order |
| `DiskProofs` | its proofs |
| `KMem`, `MCKMem` | `kmmap`, `kmunmap`, the crawl of page tables with the entry that it builds wrongly, the loading of processes, memory that runs out, over sets in place of the two allocators |
| `KMemProofs` | its proofs |
| `NatLemmas` | division, least and greatest numbers, induction over numbers: what the proofs above share |

How state and actions correspond to the code:

* **PhTree.** `used` is the set of bits set in the bitmaps, `free_cache` the field of
  that name, `ret` what the last `get_page` returned, `up` whether `setup_heap` is
  done (it calls only `mark_used`, and only it does). A node is named by its path
  from the root, whose elements are the digits that the code divides off an address.
  `GetPage` and `MarkUsed` change the bitmap and refresh the caches of all nodes on
  their way in one step, as the call does; `FullAfter` says in closed form what the
  recursion computes. Calls come one after the other: see "Sequential calls" below.
* **Buddy.** `root` is the tree with all its labels, the out-of-date ones included.
  The class is a template over its depth, with a specialisation for a page, and so each of its
  operations is a function of the depth (`MarkUsed[d]` is built from `MarkUsed[d - 1]`), then of the block and the
  arguments. Sums of addresses are modulo `Addresses`, since the code adds to `alloc_null`. `live` and `image` are
  what the callers hold; munmap is called for a mapping or its first part, as
  `operator delete` does for a block that shares its last page.
* **Heap.** `bitmap` and `lists` are the fields of the pages and `_head`, `mapped` the pages
  that came from `kmmap`, `live` the blocks the callers hold. `failed` and `stray` record
  that an assertion fired or that a pointer was written outside the table of lists;
  nothing is claimed after that. kmmap may return any unmapped pages, with any of
  the `Leftovers` in the bits that `new` does not write. When it has none it throws,
  and nothing changes.
* **RBTree, RBMap.** A tree is a record of the root and functions for children, parents
  and colours; a key is its node. `ok` is FALSE once a null pointer was followed.
* **Sched.** The record `s` has the members of `hl_sched`. `Tick(graceful)` is one call of
  `scheduler_main`: the report on the last command, and the next one. Processes and
  edges may come at any time, before the first command or later.
* **Dispatch.** A register's content is abstracted to whose it is. `Switch` is the whole
  path from the entry of an interrupt to `iretq`, which runs with interrupts disabled. It programs the timer with a slice of
  any length in `Slices`, cut down to the `Counts` values of the initial count (`InitialCount`); a count of zero stops the timer (`Restart`),
  and `apic.given` tells whether the last one was another. A system call need not return.
  `Enablers` are the processes whose system calls use a driver that calls
  `enable()`. `expired` and `report` are history variables.
* **FatLock.** `pc` is where each process is in an operation on a file. Begin to Leave are
  steps of a system call of the process that runs; `Machine` is the rest of `Dispatch`.
  From `disable()` to `enable()` is one step, everything else may be interrupted.
* **FatFile.** `handle` holds the members of each open `FAT_file`, `fh` where the handle of
  the partition is: a byte of the data region, or `Elsewhere`, in the table or a directory.
  `fat` is the table, whose copies are always written together; `dir` has first cluster
  and size of each directory entry. Chains are FAT16, as on the image that the `Makefile` builds.
  `damaged` records that file data went into the table or a directory, after which nothing is
  claimed. `owner` and `placed` are history: who has had `fh` to himself since he opened
  or positioned his file, and whether he did nothing since. Calls do not overlap (`FatLock` is
  about overlaps). A write that goes wrong half way ends in `damaged` or in the exception;
  `read` covers all three loops in closed form (`Hops`, `Reached`).
* **FatDir, RootFs.** A directory is a sequence of entries in clusters; a search goes through them with
  the local variables of the code in a record, one `Step` for each entry. The code has six copies of the loop (three
  functions, root directory or not); `Lax` and `Strict` are what they differ in. `cur` is the iterator that a
  process holds, one level for each file system it went into; the operations are the system calls 2 to 4
  and `mount`, with the exceptions that they turn into -1. A panic ends the run. The disk is as `TreesAssumption` says: the entries of each
  directory have room in its clusters, subdirectories are directories, and no two items in one have the same long name. What the entries themselves are
  (deleted ones, names in any number of pieces, items without one) is left open. `PushIn`, `OpenIn` and `ListIn` are what the searches answer in each directory. The names asked for
  are not empty: `operator<<` answers those at once.
* **Disk.** One `read()` or `write()` is cut into pieces as the code cuts it when it calls itself; `pc` follows one piece
  from command to command. `issued` is the command of each slot with its bit in `command_issue`, `awaited` the slots
  that the caller polls (`Poll`), `prdt` the descriptor in the command table of each slot, which a command for no sectors does not
  write: it keeps what is there, the descriptor of the command before in that slot or of a page given back (`Elsewhere`). `Complete` is the controller,
  `Overrun` the controller with a write of 0 sectors, which are 65536 to a disk: it gets as much as the descriptor gives it, or less, and the
  command ends or does not. A byte of the disk is the place it was
  written for and one of two versions, so that a byte at a wrong place shows. Calls do not overlap: the file system
  lock or the start-up is around them, as far as that goes (section 6).
* **KMem.** `mem` is the memory, a record, so that a call that changes it many times (a mapping that needs
  tables, which are mapped in turn) is a composition of functions on records. `Pte` reads the entries of the
  kernel's pages, `user` the address spaces. The two allocators are the sets that `PageAllocator` and
  `RangeAllocator` describe, with frames handed out in order of addresses, as `LowestPageFirst` proves. `dir` is the table in place of each large
  page, `tables` those of `kpt_repo` by their frame, `offset` how many were fetched. An entry between the ends of a range gets the address of the table
  made for it together with four bits of that of the last entry's (`Merged`), as `crawl_tables` puts it together; from the first time that these are not
  the same, `mixed` is set and the properties of frames say nothing more. `unback_vmem` clears the present bit and leaves the address (`Absent`).
  Memory that runs out is `Null` for whoever asks: an entry with no frame, a table at no frame (`state` "lost"), a fault in the
  constructor of `proc` ("fault"), a driver that goes on or faults (`TakeNone`); no address to map is an exception ("bad_alloc"), and a crawl
  that gets to memory which is no table of it is "astray". Nothing goes on after these four. The memory map has half
  pages, because the code rounds entries that begin or end inside of a page.

Sequential calls: in `PhTree`, `Buddy`, `Heap`, `KMem`, `FatFile` and `Disk` a call is made when the one before has returned. That is so as long
as interrupts are disabled, as they are in a system call, or not yet on. It ends where `acquire_lock` enables them
(`fat_fs.cc:294`): the rest of an operation on a file, with its `new` and `delete` and with the frames that the AHCI driver takes and
gives back (`interface.cc:12`, `22`, `31`, `56`), may be preempted by another process that makes the same calls. Such calls that are interrupted half way are not modelled,
and what is shown of these modules holds for sequential calls only.

Abstractions made everywhere: values in maps, names, contents of files and of
memory are left out; a single processor, so a step that runs with interrupts
disabled is atomic.

## 3. Runs

Deadlock is checked in `ph_tree`, `buddy` and `disk`. The machines of `RBMap`, `Sched`, `Heap`, `FatFile`, `Dispatch`,
`RootFs` and `KMem` stop after a fault (a null pointer, an assertion, a page fault, memory that ran out while a
process was loaded, a crawl that left its tables), and in `FatLock` two system calls may really wait for each other with
interrupts disabled (section 6).

| Run | Instance | What it shows |
|---|---|---|
| `ph_tree` | two levels of inner nodes, fan-out 2, 2 pages a bitmap (8 pages) | caches exact (`CachesTrue`; that a descent never fails, `DescentSucceeds`, is proved of it), first fit over all memory (`LowestPage`), the tree implements the set (`Implements`) |
| `buddy` | 8 pages of 2 bytes, 6-bit addresses, with and without a kernel image; sizes 1 to 8 pages, hints for up to 3 | the tree, read as the code reads it, calls exactly the unmapped pages free, though labels are propagated late (`TreeTellsTruth`); it never promises too much (`NeverOverclaims`); mappings are disjoint, partial unmapping frees nothing else (`Implements`) |
| `kmem` | 13 frames in a memory map with a hole, an overlap and an entry that is not usable, 8 kernel pages in 3 large pages, mappings of 5 pages and 1, 2 processes of up to 2 segments in 9 pages and 3 tables, a driver with a frame | no frame has two uses or is not memory (`OneUse`), exactly the live mappings are backed (`LiveBacked`), no frame is lost, not even when memory runs out (`NothingLost`), until an entry is given the address of another table, which takes a range over three large pages or tables (`MixedInBetween`) |
| `heap` | 3 pages of 3 slots, room of 3 slots for pointers and bitmap, slots of 2 bytes; lengths of 1, 2, 3 slots, an odd one, one that fills whole pages, one with a remainder; pages that come cleared, with one spare bit or with two | lists hold the pages they promise (`ListsTrue`), bitmaps the blocks in use (`BitmapTrue`), no page is lost (`NothingLeaks`), no assertion fails (`NoFailure`), blocks are disjoint (`Implements`) |
| `rb_map` | 8 keys | any sequence of insertions and erasures up to the first null pointer: keys found, parents right, red-black laws, and a null pointer is followed only when a childless black node goes (`CrashesOnlyOnBlackLeaf`) |
| `sched` | 3 processes, 2 weights, fixed or not, up to two edges, a cycle of 16, weights updated every 2 cycles | nobody is queued twice (`QueueDistinct`), slices add up to a cycle, weight conserved, balances in eight bits (`TypeOK`), no exception is ever thrown (`DiesOnlyOnRebuild`), round robin (`RoundRobin`, liveness) |
| `dispatch` | 3 processes, one of which enables interrupts in its calls; slices of 0, 3 and 4, four values of the timer's count, so that the last is cut down to 0 | own registers, preemptible unless the count is zero, calls return, charges follow use, everyone runs (`EveryProcessRuns`, liveness, with the exceptions it names) |
| `fat_lock` | 2 processes, all three kinds of operations | no process waits for a lock it holds itself (`NoSelfDeadlock`) |
| `fat_lock_dropped` | 2 processes, one kind of operation | violated: `PositionKept` |
| `fat_file` | 6 clusters of 2 bytes; a file of two clusters in a row, one of two that are apart, an empty one; two handles; reads and writes of 1, 2 and 4 bytes | a read right after opening or positioning gets the bytes at that position over any chain, and a write within a cluster goes there (`PlacedTransfers`); reading on in pieces up to a cluster works while the clusters follow each other and nobody interferes (`SequentialReads`); no cluster belongs to two files (`FilesDisjoint`) |
| `root_fs` | FAT trees with up to two items in each of three directories, one of them of two clusters of five entries each; long names of one or two pieces, without one, deleted; three mounts, one in another; stacks of two | an iterator is where its path says after any calls (`CursorTrue`); the searches find what a plain directory holds, and nothing else (`SearchesRight`); what is listed can be entered or opened, and the reverse (`ListedFound`) |
| `disk` | 3 sectors of 3 bytes, pages of 2 sectors, 2 slots | bytes get where they belong but for two cases that the property spells out (`TransfersRight`), no other byte of the disk changes, not even by a write of no sectors (`NeighboursKept`, proved), every call returns unless it waits for such a write (`CallsReturn`, liveness) |

Why the bounds are enough. Two levels of inner nodes are the least with a node
that is neither root nor above a bitmap, and have siblings at each level; the proofs
cover all others. In `buddy`, order 3 has blocks that straddle every midpoint, and all
ranges occur. In `kmem`, three pages share each large page but the last, so that replacing one maps its neighbours away, and a range of five
has a large page between its ends; the same holds for the segments of a process, which needs up to five tables. The last table of such a range can come before or after the
one between, with addresses that merging changes or leaves alone. Eight frames are left by the memory map: they run out at every point of a load, and so do the pages. In `heap`, three pages can be
three members of one list, so that the middle one is unlinked, and a large block of two pages shares its last with small
ones. Eight keys give trees of black height three, where every case of the fix-up after an insertion occurs on both
sides and erased keys have a successor near and far. That after an erasure gets a red node, which it blackens, or null: in a red-black tree
a black node that takes the place of a black one does not occur, so its cases for brothers and nephews, though translated, are never reached. Three processes
are what the kernel starts, with two edges, 0 to 1 and 1 to 2. Up to two edges give every such chain, cycles of two, shared sources and
targets, and edges to their own source, before the launch or after it; graphs of more edges are not checked. Cycle and weights are such that divisions have remainders and a slice of zero occurs.
Two handles suffice for `FatFile`: one that positions and one that interferes, on the same file or on
another; reads from the middle of a file go through each of the three parts of `read`, and the file
in two places tells the chain from the bytes that follow. Two processes suffice for the lock: one that holds
it, one that comes in between. In `root_fs`, a directory of two clusters cuts a long name at every place, both
stacks overflow, and mounts lie at the root, in a directory and below another mount. In `disk`, a transfer has up to
five places in its sectors and two pieces, and a write has a partial sector at one end, at both, or at none, also when
both ends are in one sector; there are writes of one byte that begins a sector, hence of no sectors, alone and as a second piece; two slots are all that a call uses.

What the violation run shows (`findings` in `PROJECT.json`): the token made in `acquire_lock` is destroyed when the
function returns its copy, and with it goes the lock; two processes move the shared handle under each other.

## 4. Fairness

* `Dispatch`: WF of `Expire` (a timer that counts gets to zero), SF of `Interrupt` (strong,
  because a process that makes calls in a loop disables interrupts again and again; the
  local APIC keeps the request and delivers it at the first boundary with
  IF set). Nothing is assumed of processes, which need never yield, nor of system calls, which need never return: one may spin with
  interrupts disabled for ever (`fat_fs.cc:290`). So `EveryProcessRuns` has three exceptions, in so many words: machines that
  fault, because a torn system call (section 6) does; machines in which interrupts stay disabled from some time on; and machines in which
  the timer's count is zero from some time on, because the process that was given it never yields.
* `Sched`: weak fairness of the tick that the timer makes, which is enabled only while the count
  programmed is not 0. Yields are not fair. `RoundRobin` is stated for executions in which the graph rests
  after the launch, since a rebuild stops the machine.
* `Disk`: weak fairness of the caller (its loop polls until the bit is clear) and of the completion of each slot (the
  controller completes what it can; a command beyond the end of the disk it cannot). A write of no sectors, `Overrun`, is not fair: it
  may never end, and `CallsReturn` excepts it. Nobody need make a call.
* The other modules have safety properties only: their operations are calls that
  return, made by whoever likes.

## 5. Proofs

Eight modules hold theorems (`theorems` in `PROJECT.json` lists them), for every value of the constants that satisfies
the named assumption next to them.

**NatLemmas** is about numbers only: division with a remainder, least and greatest members of a set, and induction,
stated for sets (`InductionUpTo`, `InductionFromTo`) and derived from the well-foundedness of `<`, since the provers cannot
apply the library's theorems to a predicate. `IterationExists` says that a function defined by what it is at the step before
exists; with it the functions that stand for loops (the crawl over a range, the lists, the chain of a file) can be reasoned about.
`RecursionExists` says the same where the set of values changes from step to step, as that of the blocks of a tree does with their order.

**PhTreeProofs** (any depth, fan-out and number of pages per bitmap that is not 0; `Null` is not a
page). `TypeCorrect`, then the inductive invariant `TypeOK /\ CachesTrue`. It needs no
strengthening because `CachesTrue` speaks of all inner nodes at once: a call changes one bitmap
and the caches on one path, and off the path nothing below changes. The lemmas
about paths (`NodeShape` to `BelowKid`) and about `FullAfter` (what `isfull` answers in the middle
of a call, in closed form, so that no induction over levels is needed) give
`RefreshSound`: refreshing a path from below makes exactly its caches true. From the
invariant follow `RootCorrect` (the root's bit), `DescentCorrect` (first fit
always finds a child), `LowestPageFirst` (lexicographic order of paths is the order of
addresses) and `TreeImplements`: each step is a step of `PageAllocator` or a stutter.

**BuddyProofs** (trees of any depth but 0, pages of any size, any sizes of whole pages up to that of the tree, a kernel image anywhere,
aligned or not). Assumed of the width of an address is that it can tell four times the managed space: the kernel asks with a
hint of twice the space and a size of up to all of it, and `alloc_null` plus any `mid_point` must stay outside. Blocks, calls and operations
are functions defined by recursion over the order of a block, so each of the lemmas about them is one induction over orders, with a step that
speaks of a block and its two children only. The invariant `Good` has four parts. The tree is `Sound`: a label d or -1 that was not computed
from those below it lies above labels that call everything free. (Hence the `d - 1` of a block given back whole, whose children keep
their labels, is the one that would be computed, and the block is found again, as two halves.) The bytes that it calls free are those that nobody holds. The bytes of each mapping are `Held`, that is, taken by blocks that `free_range`
reaches again by the same halving, which is what makes giving back a part safe. And mappings share no byte with each other or with
the image. `TreeTellsTruth` alone is not inductive, because it says nothing of the labels that will be looked at next. The operations are
then one lemma each: `TakesRange` (`mark_used` takes the range and nothing else, where labels are out of date too), `FreeIsUsable` (what `is_range_free` accepts is free),
`FindsRange` (what `get_range` returns is free, and the page that it marks early makes no difference to the `mark_used` that follows, `SameMark`),
`GivesRange` (`free_range`), and `SoundIsHonest` (no label promises more than there is). With them `TreeAlwaysTellsTruth`, `NeverOverclaimsAlways`
and `BuddyIsRangeAllocator`, in which each call is a step of `RangeAllocator`, the calls that fail included.

**HeapProofs** (any number of pages and of slots in one, of any width, any lengths but 0). `HeapStaysSafe` is the inductive
invariant: no assertion failed, and until a pointer is written outside the table of lists, `HeapInv`. That has three
parts. `BlocksInv`: blocks lie in mapped pages, in slots that no other one has, and the pages that a large block fills have no
bit set. `BitsInv`: the bits of each page are those of the blocks that end in it, its spare bits those it came with, but for the
mark. `ListsInv`: the lists are well formed and hold the pages with a bit set, each in the list of its largest
aperture. Well formed (`Linked`) speaks of single pointers and their inverses, and of a rank that rises along each list, so that
unlinking and linking one page disturb little (`UnlinkLinked`, `LinkLinked`) and no cycle can come about; what
`ListsTrue` says of whole lists follows from it once (`ListsStayTrue`). `AssertionsHold`, `BitmapStaysTrue` and `NothingIsLost`
follow likewise, and `HeapIsRangeAllocator`: each step is a step of `RangeAllocator` over slots, also one that goes astray.
Assumed of `kmmap` is that the bits that `new` does not write may be anything in `Leftovers`, cleared among others.

**KMemProofs** (any number of frames, pages, processes and frames of drivers, any number of entries of a table; any memory maps with
an entry that begins at 0). Until an entry is given the address of another table (`mixed`), which is where all three theorems stop as the
properties do, the tables in place of large pages are among the first `offset` ones of `kpt_repo`, each in one place, and the others are empty (`Own`). The invariant `IInv` says besides that the mappings have no page in common and are exactly
what has an entry (`Live`); that each frame that is used has one use, is not free and is one that
`setup_heap` left (`Apart`); that the pages of a process lie in its segments (`Loaded`, `Counted`), so that, if they have no
page in common, no entry with a frame is ever overwritten; and that no frame is missing (`Covered`), however memory ran out. What a crawl does is proved in three
steps: one page of any memory, a range by induction over its pages, then the actions. A crawl for a process may call `kmmap` in the
middle (`NewTable`), so each page of it may change mappings and entries of the kernel: `Grown` is what is known of the memory after any number of
pages, of which `Live` and `Apart` are a part. From the invariant follow `FramesHaveOneUse`, `MappingsAreBacked`
and `NoFrameIsLost`. `SetupLeavesMemory` is about the memory map: entries may come in any order and overlap, and a frame that
`setup_heap` leaves is in usable entries alone; but one entry must begin at 0, since what is before the first is not marked.

**DispatchProofs** (any number of processes, any set of enablers). The invariant `IInv` adds to
`TypeOK` that every saved context holds its owner's registers (`RegistersInv`); that nothing is in
service outside the switch and that interrupts are enabled wherever a process is in user mode, with the timer
counting or its interrupt pending unless the count it was given is zero (`TimerInv`); that a call made without
enabling has interrupts disabled and is therefore the one that runs
(`AtomicInv`); and what a pending interrupt says about the last report (`ChargeInv`). `OwnRegisters` alone is
not inductive: it says nothing of the contexts from which registers will be loaded.
From it follow `TypeCorrect`, `RegistersCorrect`, `PreemptionPossible`, `AtomicCallsReturn` and
the action property `ChargesBounded`.

The second part of the module is about `FatLock` (any number of processes). `NobodyWaitsForHimself` has an invariant of its own:
the lock is held only while some process is between the taking and the return of `acquire_lock`, so that who spins waits
for another one. `OperationsResume`: if all processes are enablers, each
step of an operation is a step of `Dispatch` or leaves its variables alone, so that the invariant of the switch holds
among operations on files too.

**FatProofs** is in two parts. The first is about `FatFile` (clusters of any number and size, any files and handles, transfers of any lengths). Assumed of the disk as
it is found is that no two of its entries, of directories or of the table, lead to one cluster. `FilesStayDisjoint` has the
invariant `TableInv`, which is about single entries: none leads to a free cluster, no two lead to the same one, and none to the first
cluster of a file; a first cluster that is allocated is free before and gets an entry that leads nowhere. That chains then have no
cluster in common is an induction along two chains. It is stated for the first clusters meant (`real`) so that the code's cutting of their
numbers does not break it. For the other two theorems, `PlaceInv` says where the shared handle is as long as one
file owns it: exactly at the position, with the right members, after opening and positioning (`Exact`, hence `TransfersArePlaced`), and as
far from the first cluster as the position while the clusters follow each other (`Onward`, hence `ReadsAreSequential`), where the member
that tells the cluster may be wrong. `PlacedTransfers` and `SequentialReads` alone are not inductive: they say nothing of the
members on which the next call relies.

The second part is about `RootFs` (any directories in clusters of any size, root directories of any size, any names, mounts, depths and
indirections, under `TreesAssumption`). The searches, blocks and paths are first shown to be what their recursive definitions say at each step (`ScanBlockIs`, `ScanIs`,
`ConcatenatedIs`, `FollowIs`), and what each search may return is typed (`PushAnswers`).

* `IteratorTrue`. `CursorTrue` is not inductive: a new iterator is compared with the old one after all steps, not at each. `PathInv` says
  that the iterator was reached by going down only: there is a trail of iterators from the root to it, each of
  which comes out of the one before by one name (`Descends`), and that name is the next of the path. Every call keeps a trail: one that goes down
  makes it longer (`TrailDown`), ".." leads to an iterator on it (`TrailUp`, which is where the first cluster that `pop` restores
  must be the right one), a mount added later changes none of the answers that led there, as the first of several
  mounts at one place counts (`MountKeeps`). Following the path then goes through the trail again (`TrailFollowed`).
* `ShownIsFound`. `list` and `push` have loops of their own, so the proof runs both over one directory: `Together`
  relates their variables after each entry until `push` has found its name or `list` has thrown. It holds at every entry (`TogetherStep`), in every block
  and over all blocks (`TogetherScan`), whatever the entries are, damaged names included; hence `ListPush`, and through `coh_dit` and the mounts the theorem.
* `SearchesTrue`. `DirectoryLaid` says at which entry each item begins. `Reading` says, after any number of entries of a plain directory,
  where a search is: between two items, inside the name of one, at the end, or at the item that it looks for, having gone by all those before (`Passed`).
  `ReadingStep` is one entry, `BlockBreak` the end of a cluster, which forgets the local variables but comes only between two items. So
  a search that ends has found the item (`NameFound`) or listed all of them (`AllListed`).

**DiskProofs** (sectors of two bytes or more, pages and disks of any number of sectors, two slots or more).
`NeighboursSafe` is the action property `NeighboursKept`. The invariant says what the buffer holds at each
moment or which command under way will put it there: while the page is prepared, each sector that is
to be kept in part is as on the disk, or its read is under way and is awaited (`PreparedInv`); once the
write is issued, what surrounds the bytes of the call is in the page as on the disk (`WrittenInv`).
`SlotsInv` says that nothing else is under way: without it a stray completion might overwrite the page. Of a write of no
sectors, `DescriptorInv` says what is in its slot: nothing, or the descriptor of one sector at the beginning of the page, which the read of the last sector
left there, that being also the one that the write begins at (`NoSectors`). So all that the disk can get is the sector with its byte (`SectorOverrun`), and
`NeighboursKept` needs no exception. The arithmetic of
a piece (`PieceShape`, `WrittenSectors`) is proved once, before. `TransfersCorrect` stands on it with a second invariant, `TInv`: pieces after the first
begin with a sector (`PlaceInv`), what was read so far is as on the disk (`ReadInv`), what was written so far is on it and
the bytes of the piece under way are in the page (`WriteInv`). The two exceptions of `TransfersRight` are not assumptions: they are where
these statements stop.

Only model-checked: when an entry gets the address of another table (`MixedInBetween`); liveness (`RoundRobin`, `EveryProcessRuns`, `CallsReturn` of `Disk`), which is beyond the prover;
`RBTree`, `RBMap` and `Sched`, whose recursive operators on trees (of keys, and of edges followed in depth) keep the prover out.

## 6. Observations without a run

Memory:

* The label of a block in the buddy tree is not always the order of the largest free block
  below it (`vmem_allocator.hh:11`): too low after `mark_used(alloc_null)` and after a block is given
  back whole. `TreeTellsTruth` and `NeverOverclaims` show that this does no harm but fragmentation.
* The first crawl into a large page puts an empty page table in its place, though the comment says that
  it is split (`phmem_manager.cc:13`, `49`): what the rest of it mapped is gone. `KMem` records which (`dir`).
* The entry of a page table, or of a directory, between the ends of a range is put together with the lower 16 bits of the last entry
  of the range (`phmem_manager.cc:76`, `table->entry[end_index].content & 0xffff`), not the 12 that are flags, and not of its own. When the last one
  has a table already, as after a mapping at its end, bits 12 to 15 of that table's address come with it, and the entry may lead to the table of another large page. It takes a
  mapping over three large pages of the kernel, more than 2 MiB, or a segment of that size. Line 92 has the same mask, with the index of the
  entry itself. From then on (`mixed`) nothing is claimed of frames; `MixedInBetween` says that it takes such a range.
* Nobody looks whether `get_phpage` found a page: `back_vmem` maps the null address, the constructor of `proc` faults, the AHCI driver
  (`interface.cc:12`, `31`) has its reads refused, and copies the data of a write of whole sectors to where no memory is.
* What lies before the first entry of the memory map is not marked by `setup_heap` (`kmmap.cc:76` begins with the second); harmless as long as
  an entry begins at 0, as in the maps of the boot loader, which `KMem` assumes.
* A size of 0 makes `back_vmem` end before it begins (`phmem_manager.cc:108`). Two segments that share a page get a frame
  each for it, and the first is lost (`proc.cc:55`); `NothingLost` excepts that. Headers of other types than
  LOAD are loaded as well (`proc.cc:45`). The memory of processes is never given back.
* `new` for a length whose remainder modulo 4096 takes 503 slots or more writes a pointer outside
  `_head.entry` (`new.cc:97`); pages come uncleared and spare bits can keep one mapped for ever.
* `erase_fixup` follows a null pointer when a black node without children is erased (`map.hh:207`).

Processes:

* `loadregs_hook` stores r8 to r15 where it should load them (`saveregs_hook.s:59`); `OwnRegisters` is about the others.
* A process that used up no slice gets balance 0, hence weight 0 at the next rebalancing, hence a slice of
  0 (`sched.cpp:114`), and 0 in the timer's initial count stops the timer (`scheduler_main.cc:50`). A slice of the whole
  cycle, 2^32, is cut down to 0 as well. If that process does
  not yield, no other ever runs. `Preemptible` and `EveryProcessRuns` except just this, and `RoundRobin` the slices that are zero.
* `~graphnode_list` and `delete_queue` free the old queue twice (`sched.cpp:10`, `162`): a change of the graph
  after the launch stops the machine if the queue had two nodes or more. `DiesOnlyOnRebuild`.
* The queue of an acyclic graph is in no topological order (`sched.hh:100` declares `topological_sort`).
  `dfs` over the tree of pids returns at a pid that an edge led to already, and so skips the
  subtree below it, whose processes are never scheduled (`sched.cpp:214`; four processes and one edge).
* The kernel stack of a process begins at its lower end, `&kernel_stack[0]`
  (`scheduler_main.cc:44`): frames of a system call lie in the member `context`, and a call that enables
  interrupts and is preempted has them overwritten (`stack = "torn"` in `Dispatch`).
* The system call `open` returns the address of a file handle that the local `smallptr` deletes on the way
  out (`scheduler_main.cc:81`, `kstdlib/memory.hh:22`).
* The mask for a block of vectors covers fewer bits than the block (`interrupts.cc:92`); harmless
  while gates are at the bottom of the first word, as they are.

Files:

* `acquire_lock` spins with interrupts disabled: if the holder was preempted between `enable()` and
  the destruction of the token, nobody else runs any more. Hence no deadlock check in `FatLock`.
* `FAT_file::write` never extends a chain: `LAST_CLUSTER` is larger than `number_of_clusters` and is
  refused before the branch that would allocate (`fat_file.cc:166`, `201`). If there is a next cluster,
  the handle is left in the table by `find_fat_entry` and the data is written there.
* After a write that grew a file the handle is left in its directory entry (`fat_file.cc:238`), and a
  second write without a seek in between goes on from there. Hence `PlacedTransfers` says nothing of it.
* `read` sets the position within the cluster to 0 after its first piece (`fat_file.cc:78`) and forgets the
  cluster it got to, so a sequential reader goes by luck: bytes come from where the handle is. `SequentialReads`
  states how far that carries, `PlacedTransfers` what a seek repairs (a seek to the remembered position repairs nothing).
* The first cluster is stored with eight bits (`fat_file.cc:140`); `FilesDisjoint` excepts what that
  cuts down. Two handles on one empty file allocate a cluster each, a write of no bytes too.
* The six copies of the search in a directory differ (`Lax`, `Strict` in `FatDir`): in the root directory `open_file` and
  `list` throw at an item without a long name. In all of them a long name that the end of a cluster cuts is
  lost or makes them throw (`fat_dir_iterator.cc:44`), and an item without one is compared with the name before
  (line 114): in one cluster after an item with a long name, it is listed under that name and found by it. `Plain` says where `SearchesRight` holds.
* `coh_dit::open_file` enters a directory of the name it was asked for before it throws (`templates.hh:85`); the iterator stays there, and
  `CursorTrue` holds all the same. The number at the end of the name of a port is not read (`devfs.cc`).
* A read of less than a page counts its sectors by its length alone (`interface.cc:16`), so bytes that straddle into one
  sector more come from an uncleared page; a write does not get a last byte to the disk that begins a sector
  (`interface.cc:51`), and when it is the only one the command is for no sectors, which a disk takes for 65536. No descriptor is written for it, and the one in its slot is that of the read of
  the same sector just before, so that the disk gets that sector with its byte, or nothing, and the command ends for want of data or never does. `NeighboursKept` holds
  all the same; `CallsReturn` excepts it, and `TransfersRight` says exactly which bytes are right.

## 7. Not modelled, and the plan

Not modelled, for good: PCI, terminals, interrupt vectors and the boot loader run once or keep no state that
others rely on; the kernel makes no use of the GPT driver; the C library is pure functions over
character arrays; user programs do anything at any time. Left out of parts that are modelled, because nothing calls it:
`remove_process` and `remove_edge` of the scheduler, `create_file` and `create_directory` of the FAT driver; because no
image or file system here has it: FAT32, links; because no property is about it: permissions of handles,
flags of page table entries, the contents of segments, errors that the AHCI driver prints and ignores. The TLB, which
`unback_vmem` does not flush, is not modelled either: the page a process unmapped is not reached again in any
module.

The order of the modules was: allocators first (all else stands on them), then the scheduler
with its map, then the switch, then what is preempted in it, the disk and the paths below the system calls, and the
memory that joins the allocators. What is left:

1. Proofs about the trees of `RBTree` (which `Sched` uses too) and the queue of `Sched`, once they are stated without recursive operators.
2. `Disk` under `FatFile` and `FatLock`: calls that overlap because the lock is dropped early.
3. `create_file` and `create_directory`, with the free entries of a directory and its chain, once something calls
   them; likewise `remove_process` and `remove_edge`.
