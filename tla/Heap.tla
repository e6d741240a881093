---------------------------------- MODULE Heap ----------------------------------
(***************************************************************************)
(* The kernel's heap, operator new and operator delete (kstdlib/new.cc).   *)
(* Memory comes in pages from kmmap().  A page of the heap, _smallpage,    *)
(* holds Slots slots of Width bytes and, in the room of Rest more, two     *)
(* pointers and a bitmap with a bit for each slot and Rest spare ones.  It *)
(* is in the doubly linked list _head.entry[i], where i is the largest     *)
(* number of consecutive free slots in it.  Blocks of more than Slots      *)
(* slots have pages of their own, of which only the last is such a page;   *)
(* the last of its spare bits marks it.                                    *)
(*                                                                         *)
(* Calls come one after the other.  They run with interrupts disabled, or  *)
(* before those are on, but for those that a file operation makes once its *)
(* acquire_lock() has enabled interrupts (fat_fs.cc, line 294): calls that *)
(* are preempted there are not modelled.                                   *)
(*                                                                         *)
(* The real instance has Width = 8, Slots = 502 and Rest = 10.            *)
(***************************************************************************)
EXTENDS Integers, FiniteSets

CONSTANTS
    Width,      \* bytes per slot
    Slots,      \* slots per page
    Rest,       \* the room of the pointers and the bitmap, in slots
    Pages,      \* bound on the pages of the kernel's address space
    Lengths,    \* the lengths of the blocks asked for, in bytes
    Leftovers   \* the spare bits that may be set in a page fresh from kmmap()

PageSlots == Slots + Rest
PageBytes == Width * PageSlots
Page  == 0 .. Pages - 1
Nil   == -1                        \* nullptr
Slot  == 0 .. Slots - 1
Spare == Slots .. PageSlots - 1
Mark  == PageSlots - 1             \* the bit 63 of bitmap[7]

ASSUME HeapAssumption ==
    /\ Width \in Nat \ {0} /\ Slots \in Nat \ {0} /\ Rest \in Nat \ {0} /\ Pages \in Nat
    /\ Lengths \subseteq Nat \ {0}             \* 0 is undefined behaviour for new
    /\ Leftovers \subseteq SUBSET Spare
    /\ {} \in Leftovers                        \* it may as well be cleared

VARIABLES
    mapped,     \* the pages that came from kmmap()
    bitmap,     \* of each page: the bits that are set
    lists,      \* the heads _head.entry, and next and prev of each page
    live,       \* the blocks in use, as pairs <<address in slots, length in bytes>>
    failed,     \* an assertion failed, or a double delete was reported
    stray       \* a pointer was written outside _head.entry

vars == <<mapped, bitmap, lists, live, failed, stray>>

--------------------------------------------------------------------------------
(* A page *)

\* find_aperture(): the lowest place for n consecutive slots (in the variant,
\* the last of them is not looked at).
FitsButLast(n, bits) == {o \in 0 .. Slots - n : (o .. o + n - 2) \cap bits = {}}
Fits(n, bits)        == {o \in 0 .. Slots - n : (o .. o + n - 1) \cap bits = {}}
Aperture(n, bits)    == CHOOSE o \in Fits(n, bits) : \A q \in Fits(n, bits) : o <= q

\* find_max_apertsize() (in the variant, all free slots are counted).
AllFree(bits)     == Cardinality(Slot \ bits)
MaxAperture(bits) ==
    CHOOSE n \in 0 .. Slots : Fits(n, bits) # {} /\ \A k \in n + 1 .. Slots : Fits(k, bits) = {}

\* The slots of a block, the pages it gets when it has pages of its own, and the
\* slots it has in the last of them (in the variant, rounded down).
SlotLen(len)   == (len + Width - 1) \div Width
NumPages(len)  == (len + Width * Rest + PageBytes - 1) \div PageBytes
LastSlotsDown(len) == (len % PageBytes) \div Width
LastSlots(len) == ((len % PageBytes) + Width - 1) \div Width

--------------------------------------------------------------------------------
(* The lists *)

SetPrev(l, page, p) == IF page = Nil THEN l ELSE [l EXCEPT !.prev[page] = p]

\* new takes the first page out of a list.  delete takes out any page, the first one
\* if it has no predecessor.
UnlinkHead(l, page, i) == SetPrev([l EXCEPT !.head[i] = l.next[page]], l.next[page], Nil)
Unlink(l, page, i) ==
    IF l.prev[page] = Nil THEN UnlinkHead(l, page, i)
    ELSE SetPrev([l EXCEPT !.next[l.prev[page]] = l.next[page]], l.next[page], l.prev[page])

Gone(l, page) == [l EXCEPT !.next[page] = Nil, !.prev[page] = Nil]

Link(l, page, i) ==
    [SetPrev(l, l.head[i], page) EXCEPT !.head[i] = page, !.next[page] = l.head[i],
                                        !.prev[page] = Nil]

--------------------------------------------------------------------------------
(* operator new *)

\* The lists where a block of n slots is looked for: from n upwards, the first one
\* that is not empty.
Promising(n) == {i \in n .. Slots : lists.head[i] # Nil}
FirstList(n) == CHOOSE i \in Promising(n) : \A k \in Promising(n) : i <= k

NewInPage(len) ==
    LET n == SlotLen(len)
        i == FirstList(n)
        page == lists.head[i]
        o == Aperture(n, bitmap[page])
        bits == bitmap[page] \cup (o .. o + n - 1)
    IN  /\ Promising(n) # {}
        /\ IF Fits(n, bitmap[page]) = {}
           THEN failed' = TRUE /\ UNCHANGED <<bitmap, lists, live>>
           ELSE /\ bitmap' = [bitmap EXCEPT ![page] = bits]
                /\ lists' = Link(UnlinkHead(lists, page, i), page, MaxAperture(bits))
                /\ live' = live \cup {<<page * PageSlots + o, len>>}
                /\ UNCHANGED failed
        /\ UNCHANGED <<mapped, stray>>

\* kmmap() may return any pages that are not mapped (module Buddy), and does not
\* clear them: the spare bits of the bitmap are as they were.  Where the last page
\* is filled up to its pointers, there is no list for it.
NewPages(len, first, junk) ==
    LET last  == first + NumPages(len) - 1
        marks == IF NumPages(len) > 1 THEN {Mark} ELSE {}
        taken == 0 .. LastSlots(len) - 1
    IN  /\ Promising(SlotLen(len)) = {}
        /\ last \in Page /\ (first .. last) \cap mapped = {}
        /\ mapped' = mapped \cup (first .. last)
        /\ bitmap' = [bitmap EXCEPT ![last] = taken \cup junk \cup marks]
        /\ IF LastSlots(len) > Slots THEN stray' = TRUE /\ UNCHANGED lists
           ELSE lists' = Link(lists, last, Slots - LastSlots(len)) /\ UNCHANGED stray
        /\ live' = live \cup {<<first * PageSlots, len>>}
        /\ UNCHANGED failed

--------------------------------------------------------------------------------
(* operator delete *)

\* An address at the beginning of a page may be that of a block with pages of its
\* own: the length tells.
FirstPage(b) == b[1] \div PageSlots
Offset(b)    == b[1] % PageSlots
LastPage(b)  == IF Offset(b) = 0 THEN FirstPage(b) + NumPages(b[2]) - 1 ELSE FirstPage(b)
BitsOf(b)    == IF Offset(b) = 0 THEN 0 .. LastSlots(b[2]) - 1
                ELSE Offset(b) .. Offset(b) + SlotLen(b[2]) - 1
MarkOf(b)    == IF LastPage(b) > FirstPage(b) THEN {Mark} ELSE {}

\* The bits left when the block is gone (in the variant, the mark stays).
LeftMarked(b) == bitmap[LastPage(b)] \ BitsOf(b)
Left(b)       == bitmap[LastPage(b)] \ (BitsOf(b) \cup MarkOf(b))

\* The head pages of a large block go at once, the last page when no bit of it is
\* set any more, a spare one included.
Delete(b) ==
    LET page == LastPage(b)
        left == Left(b)
        rest == Unlink(lists, page, MaxAperture(bitmap[page]))
    IN  /\ live' = live \ {b}
        /\ IF ~(BitsOf(b) \subseteq bitmap[page])
           THEN failed' = TRUE /\ UNCHANGED <<mapped, bitmap, lists>>
           ELSE /\ mapped' = mapped \ (FirstPage(b) .. IF left = {} THEN page ELSE page - 1)
                /\ bitmap' = [bitmap EXCEPT ![page] = left]
                /\ lists' = IF left = {} THEN Gone(rest, page)
                            ELSE Link(rest, page, MaxAperture(left))
                /\ UNCHANGED failed
        /\ UNCHANGED stray

--------------------------------------------------------------------------------
Init ==
    /\ mapped = {}
    /\ bitmap = [p \in Page |-> {}]
    /\ lists = [head |-> [i \in 0 .. Slots |-> Nil],
                next |-> [p \in Page |-> Nil], prev |-> [p \in Page |-> Nil]]
    /\ live = {}
    /\ failed = FALSE /\ stray = FALSE

Next ==
    /\ ~failed /\ ~stray
    /\ \/ \E len \in Lengths : NewInPage(len)
       \/ \E len \in Lengths, first \in Page, junk \in Leftovers : NewPages(len, first, junk)
       \/ \E b \in live : Delete(b)

Spec == Init /\ [][Next]_vars

--------------------------------------------------------------------------------
(* Properties.  After a write outside _head.entry nothing is claimed. *)

\* The pages met by following next from the head of list i, Nil at the end.
Chain(i) == LET at[k \in 0 .. Pages] ==
                    IF k = 0 THEN lists.head[i]
                    ELSE IF at[k - 1] = Nil THEN Nil ELSE lists.next[at[k - 1]]
            IN  at

\* Every list ends, holds just the pages with a bit set whose largest aperture is its
\* number (new relies on the number, delete finds the list by it), and prev is the
\* inverse of next.
ListsTrue ==
    ~stray => \A i \in 0 .. Slots :
        LET at == Chain(i) IN
        /\ at[Pages] = Nil
        /\ {at[k] : k \in 0 .. Pages} \ {Nil} =
              {p \in Page : bitmap[p] # {} /\ MaxAperture(bitmap[p]) = i}
        /\ \A k \in 0 .. Pages :
              at[k] # Nil => lists.prev[at[k]] = IF k = 0 THEN Nil ELSE at[k - 1]

\* The bitmaps tell which slots are used: the bits of a page are those of the blocks
\* in it, as new placed them and as delete will look for them, and the mark is there
\* while the large block that ends there is; but for it the spare bits are as they came,
\* so that no block reaches into the room of the pointers.
BitmapTrue ==
    ~stray => \A p \in Page :
        LET here == {b \in live : LastPage(b) = p}
        IN  /\ bitmap[p] \cap Slot = UNION {BitsOf(b) : b \in here}
            /\ UNION {MarkOf(b) : b \in here} \subseteq bitmap[p]
            /\ (bitmap[p] \cap Spare) \ {Mark} \in {bits \ {Mark} : bits \in Leftovers}

\* Pages are not lost: one that belongs to no block stays mapped only for the spare
\* bits it came with, of which delete clears the mark with a large block.
NothingLeaks ==
    ~stray => \A p \in mapped :
        \/ \E b \in live : p \in FirstPage(b) .. LastPage(b)
        \/ bitmap[p] # {} /\ \E bits \in Leftovers : bitmap[p] \in {bits, bits \ {Mark}}

\* The assertions of new.cc never fail: a place promised by a list is found, and
\* delete never takes a block that is in use for one already given back.
NoFailure == ~failed

\* Seen from outside, the heap hands out ranges of slots nobody else holds.
Abstract == INSTANCE RangeAllocator WITH
    Space <- Pages * PageSlots, PageSize <- 0, Sizes <- {SlotLen(len) : len \in Lengths},
    live <- {<<b[1], SlotLen(b[2])>> : b \in live}, reserved <- {}
Implements == Abstract!Spec

================================================================================
