--------------------------------- MODULE PhTree ---------------------------------
(***************************************************************************)
(* The physical page allocator, mem::ph_tree_allocator<depth>              *)
(* (kernel/mem/phmem_allocator.hh): a tree of fan-out 4 whose leaves are   *)
(* 64-bit occupancy bitmaps and whose inner nodes each cache, in           *)
(* free_cache, whether some child still has a free page.  An allocation    *)
(* descends to the first child that is not full, level by level, and       *)
(* refreshes the caches on its way back.                                   *)
(*                                                                         *)
(* A node is named by the path from the root, the sequence of indices i of *)
(* the children[i] entered: << >> is the root, a sequence of length Depth  *)
(* is a bitmap.  A page is a bitmap and a bit of it.  These names are the  *)
(* digits that the code's p / child_size and p - k*child_size take off an  *)
(* address, and i*child_size puts back.                                    *)
(*                                                                         *)
(* Calls come one after the other.  They run with interrupts disabled, or  *)
(* before those are on, but for the frames that the AHCI driver takes and  *)
(* gives back once acquire_lock() has enabled interrupts (fat_fs.cc, line  *)
(* 294): calls that are preempted there are not modelled.                  *)
(*                                                                         *)
(* The real instance has Depth = 7, Fanout = 4, LeafPages = 64 (4 GiB).    *)
(***************************************************************************)
EXTENDS Naturals, Sequences

CONSTANTS
    Depth,       \* levels of inner nodes above the bitmaps
    Fanout,      \* children per inner node
    LeafPages,   \* pages per bitmap
    Null         \* phalloc_null: no address of a managed page

Child == 0 .. Fanout - 1
Bit   == 0 .. LeafPages - 1

Level(k) == [1 .. k -> Child]
Node  == UNION {Level(k) : k \in 0 .. Depth}
Inner == UNION {Level(k) : k \in 0 .. Depth - 1}
Leaf  == Level(Depth)
Root  == << >>
Page  == Leaf \X Bit

ASSUME DepthAssumption  == Depth \in Nat \ {0}
ASSUME FanoutAssumption == Fanout \in Nat \ {0}
ASSUME LeafAssumption   == LeafPages \in Nat \ {0}
ASSUME NullAssumption   == Null \notin Page

VARIABLES
    used,        \* the pages whose bit is set in its bitmap (x)
    free_cache,  \* free_cache of every inner node
    ret,         \* what the last call of get_page() returned
    up           \* setup_heap() is done

vars == <<used, free_cache, ret, up>>

--------------------------------------------------------------------------------
(* The shape of the tree *)

\* The ancestor of m at level k, "m is n or lies below n", and children[c].
Prefix(m, k) == [i \in 1 .. k |-> m[i]]
Below(m, n)  == Len(n) <= Len(m) /\ \A i \in 1 .. Len(n) : m[i] = n[i]
Kid(n, c)    == Append(n, c)

\* The nodes a call passes on its way to a bitmap.
PathTo(leaf) == {Prefix(leaf, k) : k \in 0 .. Depth}

\* Address order: the digits decide from the root downwards, the bit last.
NotAfter(p, q) ==
    \/ p[1] = q[1] /\ p[2] <= q[2]
    \/ \E k \in 1 .. Depth : /\ p[1][k] < q[1][k]
                             /\ \A i \in 1 .. k - 1 : p[1][i] = q[1][i]

--------------------------------------------------------------------------------
(* isfull(), and what it answers once the caches on the way are refreshed *)

BitmapFull(leaf, bits) == \A j \in Bit : <<leaf, j>> \in bits

IsFull(n) == IF n \in Leaf THEN BitmapFull(n, used) ELSE ~free_cache[n]

\* Every call that changes a bitmap recomputes, from the leaves upwards, the
\* cache of each inner node it came through (the set Visited); the answer of a
\* node it did not enter is read as it stands.
FullAfter(n, bits, Visited) ==
    \A m \in Node :
        /\ Below(m, n)
        /\ \A q \in Inner : Below(q, n) /\ Below(m, q) /\ q # m => q \in Visited
        /\ m \in Leaf \/ m \notin Visited
        => IF m \in Leaf THEN BitmapFull(m, bits) ELSE ~free_cache[m]

Refresh(Visited) ==
    free_cache' = [n \in Inner |-> IF n \in Visited
                                   THEN ~FullAfter(n, used', Visited)
                                   ELSE free_cache[n]]

--------------------------------------------------------------------------------
Init ==
    /\ used = {}
    /\ free_cache = [n \in Inner |-> TRUE]
    /\ ret = Null
    /\ up = FALSE

\* mark_used(p_beg, p_end): both ends included, the end clamped to the last
\* page.  It enters every node that overlaps the range.
Range(first, last) == {p \in Page : NotAfter(first, p) /\ NotAfter(p, last)}

MarkUsed(first, last) ==
    /\ ~up
    /\ used' = used \cup Range(first, last)
    /\ Refresh({n \in Node : \E p \in Range(first, last) : Below(p[1], n)})
    /\ UNCHANGED <<ret, up>>

FinishSetup ==
    /\ ~up
    /\ up' = TRUE
    /\ UNCHANGED <<used, free_cache, ret>>

\* The bitmap that get_page() ends in: at each level the first child whose own
\* get_page() does not answer phalloc_null (in the variant, any such child).
FirstFitAny(leaf) == \A k \in 1 .. Depth : ~IsFull(Prefix(leaf, k))

FirstFit(leaf) ==
    \A k \in 1 .. Depth :
        /\ ~IsFull(Prefix(leaf, k))
        /\ \A c \in Child : c < leaf[k] => IsFull(Kid(Prefix(leaf, k - 1), c))

\* The lowest clear bit of the bitmap (in the variant, the bit is not tested).
LowestBitBlind(leaf, j) == j = 0

LowestBit(leaf, j) ==
    /\ <<leaf, j>> \notin used
    /\ \A i \in Bit : i < j => <<leaf, i>> \in used

\* get_page(), at the root.
GetPage(leaf, j) ==
    /\ up
    /\ free_cache[Root]
    /\ FirstFit(leaf)
    /\ LowestBit(leaf, j)
    /\ used' = used \cup {<<leaf, j>>}
    /\ Refresh(PathTo(leaf))
    /\ ret' = <<leaf, j>>
    /\ UNCHANGED up

GetNull ==
    /\ up
    /\ ~free_cache[Root]
    /\ ret' = Null
    /\ UNCHANGED <<used, free_cache, up>>

\* After a bit is cleared its bitmap is not full, so that every ancestor's test
\* of the child it came from succeeds (in the variant, free_cache is forgotten).
ReleasePageNoCache(p) ==
    /\ up
    /\ used' = used \ {p}
    /\ UNCHANGED <<free_cache, ret, up>>

ReleasePage(p) ==
    /\ up
    /\ used' = used \ {p}
    /\ free_cache' = [n \in Inner |-> Below(p[1], n) \/ free_cache[n]]
    /\ UNCHANGED <<ret, up>>

\* k >= 4 at the root: an address outside the managed memory is ignored.
ReleaseOutside ==
    /\ up
    /\ UNCHANGED vars

Next ==
    \/ \E first, last \in Page : NotAfter(first, last) /\ MarkUsed(first, last)
    \/ FinishSetup
    \/ \E leaf \in Leaf, j \in Bit : GetPage(leaf, j)
    \/ GetNull
    \/ \E p \in Page : ReleasePage(p)
    \/ ReleaseOutside

Spec == Init /\ [][Next]_vars

--------------------------------------------------------------------------------
(* Properties *)

\* The variables hold values of the types of phmem_allocator.hh.
TypeOK ==
    /\ used \subseteq Page
    /\ free_cache \in [Inner -> BOOLEAN]
    /\ ret \in Page \cup {Null}
    /\ up \in BOOLEAN

\* No cache is stale: free_cache of a node says exactly whether one of its own
\* children is not full (the loop over children[j].isfull() that get_page() and
\* mark_used() run, and that release_page() cuts short).
CachesTrue ==
    \A n \in Inner : free_cache[n] <=> \E c \in Child : ~IsFull(Kid(n, c))

\* isfull() of the root, one cached bit, tells the truth about every bitmap of
\* the machine.
RootTellsTruth == free_cache[Root] <=> used # Page

\* Whenever get_page() enters the tree its loops find a child that is not full
\* at every level, down to a bitmap with a clear bit: the descent never runs off
\* the end of children[] and never adds i*child_size to phalloc_null.
DescentSucceeds ==
    free_cache[Root] =>
        \E leaf \in Leaf : FirstFit(leaf) /\ ~BitmapFull(leaf, used)

\* get_page() is first fit over the whole memory: the page it hands out is the
\* lowest free one, though it looked only at cached bits to choose its way.
LowestPage ==
    [][up /\ used \subseteq used' /\ used' # used =>
            \A p \in Page \ used : NotAfter(ret', p)]_vars

\* The tree implements the plain allocator over the set of pages.
Allocator == INSTANCE PageAllocator
Implements == Allocator!Spec

================================================================================
