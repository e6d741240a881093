--------------------------------- MODULE Buddy ---------------------------------
(***************************************************************************)
(* The kernel's virtual address allocator (kernel/mem/vmem_allocator.hh):  *)
(* mem::BuddyAlloc<depth>, a binary tree of blocks, under                  *)
(* mem::VirtualMemoryAllocator, whose mmap() and munmap() kmmap() and      *)
(* kmunmap() call.                                                         *)
(*                                                                         *)
(* A block of order d is a value [max, kids]: its label maxdepth, and its  *)
(* two children of order d-1 (none for d = 0, a page).  The label is -1    *)
(* for a block with no free page and d for a block all free; in these two  *)
(* cases the labels below are not looked at, and may be out of date.       *)
(*                                                                         *)
(* BuddyAlloc is a template over its depth, with a specialisation for a    *)
(* page: so are the operations here, functions of the depth, then of the   *)
(* block and the arguments, which for a block are built from those of its  *)
(* children.                                                               *)
(*                                                                         *)
(* Calls come one after the other; those that a new or delete preempted in *)
(* a file operation would leave half done (module Heap) are not modelled.  *)
(***************************************************************************)
EXTENDS Integers, Sequences, FiniteSets

CONSTANTS
    Depth,      \* order of the root block: 18
    PageSize,   \* 2^log2_page_size: 4096
    Addresses,  \* how many addresses a linaddr can hold: 2^64
    Sizes,      \* the sizes asked for, in bytes: whole pages, as all callers do
    Hinted,     \* the sizes for which a caller names the address it wants
    Images      \* where the kernel image may lie, as pairs <<address, size>>

ASSUME DepthAssumption == Depth \in Nat \ {0} /\ PageSize \in Nat \ {0}

Orders == 0 .. Depth

\* total_size
TotalSize[d \in Orders] == IF d = 0 THEN PageSize ELSE 2 * TotalSize[d - 1]
Total     == TotalSize[Depth]
Mid(d)    == TotalSize[d - 1]            \* mid_point
AllocNull == Addresses - 1
Wrap(a)   == a % Addresses
Max2(a, b) == IF a > b THEN a ELSE b

Aligned(a) == a % PageSize = 0

ASSUME AddressesAssumption == Addresses \in Nat /\ 4 * Total <= Addresses
ASSUME SizesAssumption ==
    /\ Hinted \subseteq Sizes
    /\ Images \subseteq (0 .. Total - 1) \X Nat
    /\ \A size \in Sizes : size \in 1 .. Total /\ Aligned(size)

VARIABLES
    root,   \* the tree
    live,   \* the mappings the callers hold, as pairs <<address, size>>
    image   \* the kernel image, which is never given back

vars == <<root, live, image>>

--------------------------------------------------------------------------------
(* Blocks *)

Node(label, left, right) == [max |-> label, kids |-> <<left, right>>]
Relabel(t, label)        == [t EXCEPT !.max = label]

Block[d \in Orders] ==
    IF d = 0 THEN [max : {-1, 0}, kids : {<< >>}]
             ELSE [max : -1 .. d, kids : Block[d - 1] \X Block[d - 1]]

FreshBlock[d \in Orders] ==
    IF d = 0 THEN [max |-> 0, kids |-> << >>] ELSE Node(d, FreshBlock[d - 1], FreshBlock[d - 1])

\* A call on a block of order d: the block, an address relative to it, a size.
Calls(d) == Block[d] \X Nat \X Nat

\* "Propagate the condition to our children if need be": write a label to both
\* (in the variant, an occupied block is entered with its children as they are).
Push(t, label) == Node(t.max, Relabel(t.kids[1], label), Relabel(t.kids[2], label))
Split(t, d)  == IF t.max = d THEN Push(t, d - 1) ELSE t
OccupyNot(t) == t
Occupy(t)    == IF t.max = -1 THEN Push(t, -1) ELSE t

\* A block whose children are now l and r; after free_range() two free children
\* make a free block (in the variant, any two children with the same label do).
Refresh(l, r) == Node(Max2(l.max, r.max), l, r)

CoalesceEqual(l, r, d) ==
    IF l.max = r.max THEN Node(l.max + 1, l, r) ELSE Refresh(l, r)

Coalesce(l, r, d) ==
    IF l.max = d - 1 /\ r.max = d - 1 THEN Node(d, l, r) ELSE Refresh(l, r)

\* The part of [addr, addr + size) in each half: lower half or upper half alone,
\* or both (the last case of free_range, mark_used and is_range_free; in the
\* variant, the second of the two calls is missing).
Lower(d, addr, size) == IF addr >= Mid(d) THEN 0
                        ELSE IF addr + size <= Mid(d) THEN size
                        ELSE Mid(d) - addr
UpperForgotten(d, addr, size) == IF addr >= Mid(d) THEN size ELSE 0
Upper(d, addr, size) == size - Lower(d, addr, size)
UpperAt(d, addr)     == IF addr >= Mid(d) THEN addr - Mid(d) ELSE 0

--------------------------------------------------------------------------------
(* BuddyAlloc: the operations on a page, and on a block whose children's are given *)

PageMarkUsed(t, addr, size) ==
    IF size > 0 /\ addr < PageSize THEN Relabel(t, -1) ELSE t

BlockMarkUsed(d, mark, t, addr, size) ==
    IF t.max = -1 \/ size = 0 THEN t
    ELSE IF addr = 0 /\ size >= TotalSize[d] THEN Relabel(t, -1)
    ELSE LET s == Split(t, d)
         IN  Refresh(mark[<<s.kids[1], addr, Lower(d, addr, size)>>],
                     mark[<<s.kids[2], UpperAt(d, addr), Upper(d, addr, size)>>])

MarkUsed[d \in Orders] ==
    IF d = 0 THEN [c \in Calls(0) |-> PageMarkUsed(c[1], c[2], c[3])]
    ELSE [c \in Calls(d) |-> BlockMarkUsed(d, MarkUsed[d - 1], c[1], c[2], c[3])]

PageFreeRange(t, addr, size) ==
    IF addr < PageSize /\ size > 0 THEN Relabel(t, 0) ELSE t

\* A block given back whole is labelled d - 1, not d, and its children keep their
\* labels.
BlockFreeRange(d, free, t, addr, size) ==
    IF addr >= TotalSize[d] \/ size = 0 THEN t
    ELSE IF addr = 0 /\ size >= TotalSize[d] THEN Relabel(t, d - 1)
    ELSE LET s == Occupy(t)
         IN  Coalesce(free[<<s.kids[1], addr, Lower(d, addr, size)>>],
                      free[<<s.kids[2], UpperAt(d, addr), Upper(d, addr, size)>>], d)

FreeRange[d \in Orders] ==
    IF d = 0 THEN [c \in Calls(0) |-> PageFreeRange(c[1], c[2], c[3])]
    ELSE [c \in Calls(d) |-> BlockFreeRange(d, FreeRange[d - 1], c[1], c[2], c[3])]

PageIsFree(t, addr, size) == addr + size <= PageSize /\ t.max = 0

\* The test on the end of the range is >= for a block and > for a page.
BlockIsFree(d, isFree, t, addr, size) ==
    \/ size = 0
    \/ /\ t.max # -1 /\ addr + size < TotalSize[d]
       /\ \/ t.max = d
          \/ LET l == Lower(d, addr, size)
                 r == Upper(d, addr, size)
             IN  /\ l > 0 => isFree[<<t.kids[1], addr, l>>]
                 /\ r > 0 => isFree[<<t.kids[2], UpperAt(d, addr), r>>]

IsRangeFree[d \in Orders] ==
    IF d = 0 THEN [c \in Calls(0) |-> PageIsFree(c[1], c[2], c[3])]
    ELSE [c \in Calls(d) |-> BlockIsFree(d, IsRangeFree[d - 1], c[1], c[2], c[3])]

\* get_range(): where the range was found, and the tree afterwards.  A page is
\* taken at once; the labels above are left to mark_used().
PageGetRange(t, size) ==
    IF t.max = -1 \/ size > PageSize THEN [tree |-> t, at |-> AllocNull]
    ELSE [tree |-> Relabel(t, -1), at |-> 0]

\* The answer of the second child is not compared with alloc_null before mid_point
\* is added.
BlockGetRange(d, get, t, size) ==
    IF t.max = -1 \/ size > TotalSize[t.max] THEN [tree |-> t, at |-> AllocNull]
    ELSE IF size > Mid(d) THEN [tree |-> t, at |-> 0]
    ELSE LET s == Split(t, d)
             l == get[<<s.kids[1], size>>]
             r == get[<<s.kids[2], size>>]
         IN  IF l.at # AllocNull
             THEN [tree |-> Node(s.max, l.tree, s.kids[2]), at |-> l.at]
             ELSE [tree |-> Node(s.max, l.tree, r.tree), at |-> Wrap(Mid(d) + r.at)]

GetRange[d \in Orders] ==
    IF d = 0 THEN [c \in Block[0] \X Nat |-> PageGetRange(c[1], c[2])]
    ELSE [c \in Block[d] \X Nat |-> BlockGetRange(d, GetRange[d - 1], c[1], c[2])]

--------------------------------------------------------------------------------
(* VirtualMemoryAllocator *)

\* kmmap(NULL, size) asks for the address 2 GiB, twice the managed space.
NoHint == 2 * Total

\* mmap(): the mark_used() that follows get_range() is made for alloc_null too.
Mmap(addr, size) ==
    LET free  == IsRangeFree[Depth][<<root, addr, size>>]
        found == GetRange[Depth][<<root, size>>]
        at    == IF free THEN addr ELSE found.at
        tree  == IF free THEN root ELSE found.tree
    IN  /\ root' = MarkUsed[Depth][<<tree, at, size>>]
        /\ live' = IF at = AllocNull THEN live ELSE live \cup {<<at, size>>}
        /\ UNCHANGED image

\* munmap() of the first size bytes of a mapping.
Munmap(r, size) ==
    /\ root' = FreeRange[Depth][<<root, r[1], size>>]
    /\ live' = (live \ {r}) \cup
                  (IF size < r[2] THEN {<<r[1] + size, r[2] - size>>} ELSE {})
    /\ UNCHANGED image

\* setup_heap() marks the kernel image used before anything is mapped.
Init ==
    /\ image \in Images
    /\ root = MarkUsed[Depth][<<FreshBlock[Depth], image[1], image[2]>>]
    /\ live = {}

Next ==
    \/ \E size \in Sizes : Mmap(NoHint, size)
    \/ \E size \in Hinted : \E addr \in 0 .. Total - 1 : Aligned(addr) /\ Mmap(addr, size)
    \/ \E r \in live : \E size \in 1 .. r[2] : Aligned(size) /\ Munmap(r, size)

Spec == Init /\ [][Next]_vars

--------------------------------------------------------------------------------
(* Properties *)

\* The bytes of a block that its labels call free.
BlockFreeBytes(d, bytes, t) ==
    IF t.max = -1 THEN {}
    ELSE IF t.max = d THEN 0 .. TotalSize[d] - 1
    ELSE bytes[t.kids[1]] \cup {Mid(d) + b : b \in bytes[t.kids[2]]}

FreeBytes[d \in Orders] ==
    IF d = 0 THEN [t \in Block[0] |-> IF t.max = -1 THEN {} ELSE 0 .. PageSize - 1]
    ELSE [t \in Block[d] |-> BlockFreeBytes(d, FreeBytes[d - 1], t)]

\* The order of the largest block that is free as a whole.
BlockLargest(d, largest, t) ==
    IF FreeBytes[d][t] = {} THEN -1
    ELSE IF FreeBytes[d][t] = 0 .. TotalSize[d] - 1 THEN d
    ELSE Max2(largest[t.kids[1]], largest[t.kids[2]])

LargestFree[d \in Orders] ==
    IF d = 0 THEN [t \in Block[0] |-> t.max]
    ELSE [t \in Block[d] |-> BlockLargest(d, LargestFree[d - 1], t)]

\* The bytes that the kernel image takes from the space: all those of its pages.
ImageBytes == {b \in 0 .. Total - 1 :
                  \E c \in image[1] .. image[1] + image[2] - 1 : b \div PageSize = c \div PageSize}
LiveBytes  == ImageBytes \cup UNION {r[1] .. r[1] + r[2] - 1 : r \in live}

\* Lazy propagation and stale labels never show: the bytes the tree calls free,
\* read the way get_range() and is_range_free() read it, are exactly those that no
\* caller holds and the kernel does not fill, after any sequence of mmap() and
\* partial munmap().
TreeTellsTruth == FreeBytes[Depth][root] = (0 .. Total - 1) \ LiveBytes

\* get_range() adds mid_point to what its second child returns without looking:
\* a label that promised more than the block has would turn alloc_null into an
\* address inside somebody's mapping.  The root never promises too much.  (It may
\* promise less than there is, in spite of the comment at the head of the class:
\* mark_used(alloc_null) and the label of a block given back whole are too low.)
NeverOverclaims == root.max <= LargestFree[Depth][root]

\* Mappings handed out are disjoint and inside the managed space, giving back
\* part of one frees nothing else, and a page is found while there is one.
Mappings == INSTANCE RangeAllocator WITH Space <- Total, reserved <- ImageBytes
Implements == Mappings!Spec

================================================================================
