---------------------------------- MODULE KMem ----------------------------------
(***************************************************************************)
(* What backs virtual memory.  kmmap() and kmunmap() (kernel/kmmap.cc)     *)
(* take a range of kernel addresses from the range allocator (module       *)
(* Buddy, here by what RangeAllocator promises) and let                    *)
(* mem::phmem_manager (kernel/mem/phmem_manager.cc) crawl the page tables: *)
(* back_vmem() gives a page frame of the page allocator (module PhTree) to *)
(* every page, unback_vmem() takes it away.  A process is loaded by        *)
(* proc::proc() (kernel/proc/proc.cc), which backs its segments; the page  *)
(* tables of its address space come from kmmap() again, in the middle of   *)
(* the crawl.                                                              *)
(*                                                                         *)
(* Kernel addresses are first mapped by large pages, Radix small pages     *)
(* each and Radix of them under one directory.  The first crawl into one   *)
(* puts an empty page table of kpt_repo in its place; there is one for     *)
(* every large page.  The address space of a process has a page table for  *)
(* each <<lv, i>>: Radix^(lv-1) pages under one entry of level lv, 2 to 4. *)
(* A directory entry is the frame of its table, four bits of which may     *)
(* come from elsewhere (see Merged).                                       *)
(*                                                                         *)
(* Calls come one after the other here.  kmmap() and kmunmap() run with    *)
(* interrupts disabled as long as nobody enables them; the driver takes    *)
(* and gives back its frame, and new and delete run, with interrupts       *)
(* enabled once a file operation has acquired its lock (fat_fs.cc, line    *)
(* 294), and what happens to a call that is preempted there is not         *)
(* modelled.                                                               *)
(*                                                                         *)
(* Flags other than the present bit are left out, and so is the TLB.       *)
(***************************************************************************)
EXTENDS Integers, Sequences, FiniteSets

CONSTANTS
    Frames,     \* page frames below 4 GiB
    KPages,     \* pages of the address space of kmmap()
    UPages,     \* pages of a process
    Radix,      \* entries of a table, 512
    Image,      \* the pages of the kernel image: kernel_begin to kernel_end, one after
                \* the other
    KernelZero, \* the frame that page 0 is mapped to at first
    Repo,       \* the frame of the first table of kpt_repo
    Maps,       \* memory maps of the boot loader: sequences of [base, len, usable] in
                \* half pages, of which one begins at 0
    MaxProcs,   \* bound: processes loaded
    Ranges,     \* bound: the ranges that kmmap() may return to its callers, as pairs
                \* <<first page, pages>>
    Segments,   \* bound: the pages of a segment, of the same form
    MaxSegs,    \* bound: segments of a process
    MaxIo       \* bound: frames of drivers

ASSUME KMemAssumption ==
    /\ Frames \in Nat \ {0} /\ KPages \in Nat \ {0} /\ UPages \in Nat \ {0}
    /\ Radix \in Nat \ {0} /\ KernelZero \in Nat /\ Repo \in Nat
    /\ MaxProcs \in Nat /\ MaxSegs \in Nat /\ MaxIo \in Nat
    /\ Ranges \subseteq Nat \X (Nat \ {0}) /\ Segments \subseteq Nat \X (Nat \ {0})
    /\ Image \subseteq 0 .. KPages - 1
    /\ Maps \subseteq Seq([base : Nat, len : Nat \ {0}, usable : BOOLEAN])
    /\ \A m \in Maps : \E i \in DOMAIN m : m[i].base = 0

VARIABLES
    map,    \* the memory map
    mem,    \* the memory, a record:
            \*   free   the frames that can be handed out
            \*   live   mappings that kmmap() made, as pairs <<first page, pages>>
            \*   dir    the frame of the table put in place of each large page, or None
            \*   tables the tables of kpt_repo, by frame
            \*   offset how many of them were fetched
            \*   mixed  whether an entry was ever given the frame of another table than
            \*          the one made for it
            \*   user   address spaces of the processes: cr3, their page tables as
            \*          <<slot, page of the kernel, frame>>, and the frames of their pages
            \*   state  "ok", or why nothing is said of what follows: "bad_alloc" after
            \*          that exception, "lost" when a table came to lie at no frame,
            \*          "astray" when the crawl went on in memory that is no table of it,
            \*          "fault" after a page fault, which halts the machine
    io,     \* frames a driver holds for its transfers
    segs    \* segments loaded so far, for each process

vars == <<map, mem, io, segs>>

Frame == 0 .. Frames - 1
KPage == 0 .. KPages - 1
UPage == 0 .. UPages - 1
Large == {p \div Radix : p \in KPage}
Index == 0 .. Radix - 1
RepoFrame == {Repo + l : l \in Large}
None  == -1         \* not present
Null  == -2         \* phalloc_null, of which address_mask makes no frame of the machine

Least(S) == CHOOSE x \in S : \A y \in S : x <= y
Pages(r) == r[1] .. r[1] + r[2] - 1

--------------------------------------------------------------------------------
(* setup_heap() *)

HalfEnd(e) == e.base + e.len - 1
Top == 2 * Frames

\* mark_used(first, last), both in half pages.
Marked(first, last) == {f \in Frame : first \div 2 <= f /\ f <= last \div 2}

Lower(a, b)   == IF a < b THEN a ELSE b
Greater(a, b) == IF a < b THEN b ELSE a

\* The entries that are not usable, the holes between entries, and what is above the last.
Reserved(m) == UNION {Marked(m[i].base, HalfEnd(m[i])) : i \in {j \in DOMAIN m : ~m[j].usable}}
Holes(m) ==
    UNION {Marked(HalfEnd(m[i - 1]) + 1, m[i].base - 1) :
              i \in {j \in 2 .. Len(m) : HalfEnd(m[j - 1]) + 1 < m[j].base}}
Above(m) ==
    IF HalfEnd(m[Len(m)]) + 1 < Top THEN Marked(HalfEnd(m[Len(m)]) + 1, Top - 1) ELSE {}

KernelFrames == {KernelZero + p : p \in Image}
Setup(m)     == KernelFrames \cup Reserved(m) \cup Holes(m) \cup Above(m)

--------------------------------------------------------------------------------
(* get_phpage(), in address order *)

NextFrame(m)    == IF m.free = {} THEN Null ELSE Least(m.free)
Taken(m)        == [m EXCEPT !.free = @ \ {NextFrame(m)}]
Returned(m, f)  == [m EXCEPT !.free = @ \cup ({f} \cap Frame)]

--------------------------------------------------------------------------------
(* Directories *)

\* The pages of a range; in the variant, also the page at its end.
LastPageAfter(r) == r[1] + r[2]
LastPage(r) == r[1] + r[2] - 1

\* A range crawled at a level whose entries map so many pages each: its first and its last
\* entry in the table of entry i, and whether i is between them (in the variant, it may be the
\* first one).
Base(i) == (i \div Radix) * Radix
StartIndex(r, i, size) == Greater(r[1] \div size, Base(i))
EndIndex(r, i, size)   == Lower(LastPage(r) \div size, Base(i) + Radix - 1)
BetweenToo(r, i, size) == i < EndIndex(r, i, size)
Between(r, i, size)    == StartIndex(r, i, size) < i /\ i < EndIndex(r, i, size)

\* The entry in between is put together of the address of its table, f, and the lower 16
\* bits of the last entry: flags and, if that has a table, g, four bits of its address.
Bit(f, b)       == (f \div b) % 2
Gained(f, g, b) == b * Bit(g, b) * (1 - Bit(f, b))
Merged(f, g)    == f + Gained(f, g, 1) + Gained(f, g, 2) + Gained(f, g, 4) + Gained(f, g, 8)

--------------------------------------------------------------------------------
(* back_vmem() and unback_vmem() of kernel pages.  One page at a time, in the order of  *)
(* addresses: what is above it is made when it is reached.                              *)

\* The entry of page p, where a table is in place of its large page.
EntryAt(m, p)     == m.tables[m.dir[p \div Radix]][p % Radix]
SetEntry(m, p, e) == [m EXCEPT !.tables[m.dir[p \div Radix]][p % Radix] = e]

\* What a kernel page is backed by.
Pte(m, p) ==
    IF m.dir[p \div Radix] # None /\ EntryAt(m, p).present THEN EntryAt(m, p).frame ELSE None

\* The entry of large page l, when table f was fetched for it.
DirEntry(m, r, l, f) ==
    LET end == EndIndex(r, l, Radix)
    IN  IF Between(r, l, Radix) /\ m.dir[end] # None THEN Merged(f, m.dir[end]) ELSE f

PutRepoTable(m, l, t) ==
    IF t \in RepoFrame
    THEN [m EXCEPT !.dir[l] = t, !.offset = @ + 1, !.mixed = @ \/ t # Repo + m.offset]
    ELSE [m EXCEPT !.state = "astray", !.mixed = TRUE]

\* The memory once page p of range r has a table.
Reached(m, r, p) ==
    LET l == p \div Radix
    IN  IF m.state = "astray" \/ m.dir[l] # None THEN m
        ELSE PutRepoTable(m, l, DirEntry(m, r, l, Repo + m.offset))

BackEntry(m, p) ==
    IF m.state = "astray" THEN m
    ELSE SetEntry(Taken(m), p, [frame |-> NextFrame(m), present |-> TRUE])

BackPage(m, r, p) == BackEntry(Reached(m, r, p), p)

\* The address is kept.  (In the variants, so is the present bit, or the frame.)
Absent(m, p) == SetEntry(m, p, [EntryAt(m, p) EXCEPT !.present = FALSE])

UnbackEntryPresent(m, p) == IF m.state = "astray" THEN m ELSE Returned(m, EntryAt(m, p).frame)
UnbackEntryKept(m, p) == IF m.state = "astray" THEN m ELSE Absent(m, p)
UnbackEntry(m, p) ==
    IF m.state = "astray" THEN m ELSE Returned(Absent(m, p), EntryAt(m, p).frame)

UnbackPage(m, r, p) == UnbackEntry(Reached(m, r, p), p)

BackRange(m, r) ==
    LET upTo[p \in r[1] - 1 .. LastPage(r)] ==
            IF p < r[1] THEN m ELSE BackPage(upTo[p - 1], r, p)
    IN  upTo[LastPage(r)]

UnbackRange(m, r) ==
    LET upTo[p \in r[1] - 1 .. LastPage(r)] ==
            IF p < r[1] THEN m ELSE UnbackPage(upTo[p - 1], r, p)
    IN  upTo[LastPage(r)]

\* kmmap(hint, size), where the range allocator has found r.
Mapped(m, r) == BackRange([m EXCEPT !.live = @ \cup {r}], r)

Unmapped(m) == KPage \ (Image \cup UNION {Pages(r) : r \in m.live})

--------------------------------------------------------------------------------
(* back_vmem() of a page of the last process loaded *)

TablesAt(m, slot) == {t \in m.user[Len(m.user)].tables : t[1] = slot}

\* The entry of a slot, when the table made for it is at frame f.
UserEntry(m, r, slot, f) ==
    LET size == Radix^(slot[1] - 1)
        end  == TablesAt(m, <<slot[1], EndIndex(r, slot[2], size)>>)
    IN  IF Between(r, slot[2], size) /\ end # {} THEN Merged(f, (CHOOSE t \in end : TRUE)[3])
        ELSE f

PutTable(m, r, slot, page) ==
    IF m.state # "ok" THEN m
    ELSE IF Pte(m, page) = Null THEN [m EXCEPT !.state = "lost"]
    ELSE IF UserEntry(m, r, slot, Pte(m, page)) # Pte(m, page)
    THEN [m EXCEPT !.state = "astray", !.mixed = TRUE]
    ELSE [m EXCEPT !.user[Len(m.user)].tables = @ \cup {<<slot, page, Pte(m, page)>>}]

\* A table that is missing comes from kmmap(NULL, 4096), which finds the first page that is
\* not mapped.
NewTable(m, r, slot) ==
    IF Unmapped(m) = {} THEN [m EXCEPT !.state = "bad_alloc"]
    ELSE PutTable(Mapped(m, <<Least(Unmapped(m)), 1>>), r, slot, Least(Unmapped(m)))

Table(m, r, slot) ==
    IF m.state # "ok" \/ TablesAt(m, slot) # {} THEN m ELSE NewTable(m, r, slot)

\* The entry is written whatever it held.
PutUserPage(m, u) ==
    IF m.state # "ok" THEN m
    ELSE [Taken(m) EXCEPT !.user[Len(m.user)].pte[u] = NextFrame(m)]

Slot(lv, u) == <<lv, u \div Radix^(lv - 1)>>

BackUserPage(m, r, u) ==
    PutUserPage(Table(Table(Table(m, r, Slot(4, u)), r, Slot(3, u)), r, Slot(2, u)), u)

BackUser(m, r) ==
    LET upTo[u \in r[1] - 1 .. LastPage(r)] ==
            IF u < r[1] THEN m ELSE BackUserPage(upTo[u - 1], r, u)
    IN  upTo[LastPage(r)]

NewSpace(m) ==
    IF m.free = {} THEN [m EXCEPT !.state = "fault"]
    ELSE [Taken(m) EXCEPT !.user = Append(@, [cr3 |-> NextFrame(m), tables |-> {},
                                              pte |-> [u \in UPage |-> None]])]

--------------------------------------------------------------------------------
Init ==
    /\ map \in Maps
    /\ mem = [free |-> Frame \ Setup(map), live |-> {}, dir |-> [l \in Large |-> None],
              tables |-> [t \in RepoFrame |->
                            [i \in Index |-> [frame |-> 0, present |-> FALSE]]],
              offset |-> 0, mixed |-> FALSE, user |-> << >>, state |-> "ok"]
    /\ io = {}
    /\ segs = << >>

Kmmap(r) ==
    /\ Pages(r) \subseteq Unmapped(mem)
    /\ mem' = Mapped(mem, r)
    /\ UNCHANGED <<map, io, segs>>

\* kmunmap() of the first n pages of a mapping, by its owner.  Tables are never unmapped.
IsTable(r) == \E i \in DOMAIN mem.user : \E t \in mem.user[i].tables : t[2] \in Pages(r)

Kmunmap(r, n) ==
    /\ ~IsTable(r)
    /\ mem' = UnbackRange(
                 [mem EXCEPT !.live = (@ \ {r}) \cup
                                 (IF n < r[2] THEN {<<r[1] + n, r[2] - n>>} ELSE {})],
                 <<r[1], n>>)
    /\ UNCHANGED <<map, io, segs>>

\* A process begins with an empty address space ...
StartProcess ==
    /\ Len(mem.user) < MaxProcs
    /\ mem' = NewSpace(mem)
    /\ segs' = Append(segs, << >>)
    /\ UNCHANGED <<map, io>>

\* ... into which its segments are loaded, each of at least a page, in the order of the
\* file.
LoadSegment(r) ==
    /\ segs # << >>
    /\ mem' = BackUser(mem, r)
    /\ segs' = [segs EXCEPT ![Len(segs)] = Append(@, r)]
    /\ UNCHANGED <<map, io>>

\* A driver takes a frame for a transfer and gives it back.
TakeFrame ==
    /\ mem.free # {} /\ Cardinality(io) < MaxIo
    /\ mem' = Taken(mem)
    /\ io' = io \cup {NextFrame(mem)}
    /\ UNCHANGED <<map, segs>>

\* There is none, which the driver does not notice.  A transfer that reads sectors, be it
\* for the ends of a write, is refused by an exception, the address being odd; a write of
\* whole sectors copies its data to where no memory is.
TakeNone ==
    /\ mem.free = {} /\ Cardinality(io) < MaxIo
    /\ \E state \in {"ok", "fault"} : mem' = [mem EXCEPT !.state = state]
    /\ UNCHANGED <<map, io, segs>>

GiveFrame(f) ==
    /\ io' = io \ {f}
    /\ mem' = Returned(mem, f)
    /\ UNCHANGED <<map, segs>>

Next ==
    /\ mem.state = "ok"
    /\ \/ \E r \in Ranges : Kmmap(r)
       \/ \E r \in mem.live : \E n \in 1 .. r[2] : Kmunmap(r, n)
       \/ StartProcess
       \/ \E r \in Segments :
              /\ Pages(r) \subseteq UPage
              /\ segs # << >> /\ Len(segs[Len(segs)]) < MaxSegs
              /\ LoadSegment(r)
       \/ TakeFrame
       \/ TakeNone
       \/ \E f \in io : GiveFrame(f)

Spec == Init /\ [][Next]_vars

--------------------------------------------------------------------------------
(* Properties *)

\* Everything that a frame is used for.
Uses ==
    {<<"k", p>> : p \in {q \in KPage : Pte(mem, q) \in Frame}}
        \cup {<<"cr3", i>> : i \in DOMAIN mem.user}
        \cup {<<"u", x[1], x[2]>> : x \in {y \in (DOMAIN mem.user) \X UPage :
                                               mem.user[y[1]].pte[y[2]] \in Frame}}
        \cup {<<"io", f>> : f \in io}
FrameOf(use) ==
    CASE use[1] = "k"   -> Pte(mem, use[2])
      [] use[1] = "cr3" -> mem.user[use[2]].cr3
      [] use[1] = "u"   -> mem.user[use[2]].pte[use[3]]
      [] OTHER          -> use[2]

\* Memory that is there: whole frames inside usable entries and outside all others, and
\* not the kernel's.
RealFrames ==
    {f \in Frame :
        /\ f \notin KernelFrames
        /\ \A h \in {2 * f, 2 * f + 1} :
              /\ \E i \in DOMAIN map : h \in map[i].base .. HalfEnd(map[i])
              /\ \A i \in DOMAIN map : h \in map[i].base .. HalfEnd(map[i]) => map[i].usable}

\* A frame has one use: a page of the kernel, a page of one process, the top of an address
\* space, or a transfer; it is not free meanwhile; and it is memory, not a hole of the
\* memory map or the kernel image.  Except once an entry was given the frame of another
\* table than the one made for it (mixed).
OneUse ==
    ~mem.mixed =>
        /\ \A use, other \in Uses : FrameOf(use) = FrameOf(other) => use = other
        /\ \A use \in Uses : FrameOf(use) \notin mem.free
        /\ {FrameOf(use) : use \in Uses} \cup mem.free \subseteq RealFrames

\* Exactly the pages of live mappings have a present entry, whatever was unmapped before or
\* beside them, with the same exception.
LiveBacked ==
    ~mem.mixed =>
        \A p \in KPage : Pte(mem, p) # None <=> p \in UNION {Pages(r) : r \in mem.live}

\* Segments of a process that share a page.
Overlap(s) == \E i, j \in DOMAIN s : i < j /\ Pages(s[i]) \cap Pages(s[j]) # {}

\* Frames do not get lost, even when memory runs out in the middle of a call: what is not
\* in use is free.  Except when two segments of a process share a page, when a table came
\* to lie at no frame, and once an entry was given the frame of another table.
NothingLost ==
    (\A i \in DOMAIN segs : ~Overlap(segs[i])) /\ mem.state # "lost" /\ ~mem.mixed =>
        {FrameOf(use) : use \in Uses} \cup mem.free = Frame \ Setup(map)

\* An entry is given the address of another table only by a call over a range of three large
\* pages, or three tables of a process, or more: an entry at an end is put together from its
\* own, and one large page or two are always mapped as they should be.
Newest(s) == s[Len(s)]
ThreeEntries(r, size) == r[1] \div size + 2 <= LastPage(r) \div size

MixedInBetween ==
    [][~mem.mixed /\ mem'.mixed =>
          \/ \E r \in mem'.live \ mem.live : ThreeEntries(r, Radix)
          \/ /\ segs' # segs
             /\ \E lv \in 2 .. 4 : ThreeEntries(Newest(Newest(segs')), Radix^(lv - 1))]_vars

================================================================================
