------------------------------- MODULE KMemProofs -------------------------------
(***************************************************************************)
(* Proofs about module KMem, for any number of frames, pages, processes    *)
(* and drivers and any memory map: a frame has one use at a time and is    *)
(* memory, exactly the pages of live mappings are backed, and frames do    *)
(* not get lost; as long as no entry got the address of another table than *)
(* the one made for it (mem.mixed).                                        *)
(*                                                                         *)
(* A crawl takes its pages one by one and may call kmmap() in between.     *)
(* What each page does to the memory is stated about any memory (BackPage, *)
(* UnbackPage, Table, PutUserPage), then what a whole range does, by       *)
(* induction over its pages, and then what each action does (IInv).        *)
(***************************************************************************)
EXTENDS KMem, NatLemmas, SequenceTheorems

--------------------------------------------------------------------------------
(* The memory map *)

\* mark_used() takes every page that a half page of the range is in.
LEMMA MarkedPages ==
    ASSUME NEW first \in Nat, NEW last \in Nat, NEW f \in Frame, NEW h \in {2 * f, 2 * f + 1},
           h \in first .. last
    PROVE  f \in Marked(first, last)
<1>1. f \in Nat
  BY KMemAssumption DEF Frame
<1>2. PICK x, y : x = first \div 2 /\ y = last \div 2
  OBVIOUS
<1>3. x \in Nat /\ x * 2 <= first
  BY <1>2, DivMod
<1>4. y \in Nat /\ last <= y * 2 + 1
  BY <1>2, DivMod
<1>5. x <= f /\ f <= y
  BY <1>1, <1>3, <1>4
<1>6. QED BY <1>2, <1>5 DEF Marked

\* A frame that setup_heap() leaves free is memory: what is in no entry is before the next
\* one or after the last.
LEMMA SetupLeavesMemory ==
    ASSUME NEW m \in Maps, NEW f \in Frame, f \notin Setup(m)
    PROVE  /\ f \notin KernelFrames
           /\ \A h \in {2 * f, 2 * f + 1} :
                 /\ \E i \in DOMAIN m : h \in m[i].base .. HalfEnd(m[i])
                 /\ \A i \in DOMAIN m : h \in m[i].base .. HalfEnd(m[i]) => m[i].usable
<1>1. /\ f \notin KernelFrames
      /\ \A i \in DOMAIN m : ~m[i].usable => f \notin Marked(m[i].base, HalfEnd(m[i]))
      /\ \A i \in 2 .. Len(m) : HalfEnd(m[i - 1]) + 1 < m[i].base =>
             f \notin Marked(HalfEnd(m[i - 1]) + 1, m[i].base - 1)
      /\ HalfEnd(m[Len(m)]) + 1 < Top => f \notin Marked(HalfEnd(m[Len(m)]) + 1, Top - 1)
  <2>1. f \notin KernelFrames /\ f \notin Reserved(m) /\ f \notin Holes(m) /\ f \notin Above(m)
    BY DEF Setup
  <2>2. ASSUME NEW i \in DOMAIN m, ~m[i].usable
        PROVE  f \notin Marked(m[i].base, HalfEnd(m[i]))
    BY <2>1, <2>2 DEF Reserved
  <2>3. ASSUME NEW i \in 2 .. Len(m), HalfEnd(m[i - 1]) + 1 < m[i].base
        PROVE  f \notin Marked(HalfEnd(m[i - 1]) + 1, m[i].base - 1)
    BY <2>1, <2>3 DEF Holes
  <2>4. HalfEnd(m[Len(m)]) + 1 < Top => f \notin Marked(HalfEnd(m[Len(m)]) + 1, Top - 1)
    BY <2>1 DEF Above
  <2>5. QED BY <2>1, <2>2, <2>3, <2>4
<1>2. f \in Nat /\ f < Frames /\ Frames \in Nat /\ Top = 2 * Frames
  BY KMemAssumption DEF Frame, Top
<1>0. m \in Seq([base : Nat, len : Nat \ {0}, usable : BOOLEAN])
  BY KMemAssumption
<1>3. DOMAIN m = 1 .. Len(m) /\ Len(m) \in Nat
  BY <1>0, LenProperties
<1>4. \A i \in 1 .. Len(m) : /\ m[i].base \in Nat /\ HalfEnd(m[i]) \in Nat
                             /\ m[i].base <= HalfEnd(m[i])
  <2>1. ASSUME NEW i \in 1 .. Len(m)
        PROVE  m[i].base \in Nat /\ HalfEnd(m[i]) \in Nat /\ m[i].base <= HalfEnd(m[i])
    <3>1. m[i] \in [base : Nat, len : Nat \ {0}, usable : BOOLEAN]
      BY <1>0, ElementOfSeq
    <3>2. QED BY <3>1 DEF HalfEnd
  <2>2. QED BY <2>1
<1>5. ASSUME NEW h \in {2 * f, 2 * f + 1}
      PROVE  \E i \in DOMAIN m : h \in m[i].base .. HalfEnd(m[i])
  <2>1. h \in Nat /\ h < Top
    BY <1>2
  <2> DEFINE T == {i \in 1 .. Len(m) : m[i].base <= h}
  <2>2. PICK j \in T : \A i \in T : i <= j
    <3>1. T \in SUBSET (0 .. Len(m))
      BY <1>3
    <3>2. T # {}
      <4>1. PICK i \in DOMAIN m : m[i].base = 0
        BY KMemAssumption
      <4>2. QED BY <1>3, <2>1, <4>1
    <3> HIDE DEF T
    <3>3. QED BY <1>3, <3>1, <3>2, GreatestOfNat
  <2>3. j \in 1 .. Len(m) /\ m[j].base <= h
    OBVIOUS
  <2>4. PICK e : e = HalfEnd(m[j]) /\ e \in Nat
    BY <1>4, <2>3
  <2>5. CASE h <= e
    BY <1>3, <1>4, <2>1, <2>3, <2>4, <2>5
  <2>6. CASE e < h /\ j = Len(m)
    <3>1. h \in e + 1 .. Top - 1 /\ Top - 1 \in Nat /\ e + 1 \in Nat /\ e + 1 < Top
      BY <1>2, <2>1, <2>4, <2>6
    <3>2. f \in Marked(e + 1, Top - 1)
      BY <3>1, MarkedPages
    <3>3. QED BY <1>1, <2>4, <2>6, <3>1, <3>2
  <2>7. CASE e < h /\ j # Len(m)
    <3>1. j + 1 \in 2 .. Len(m) /\ (j + 1) - 1 = j /\ j + 1 \in 1 .. Len(m)
      <4>1. PICK n : n = Len(m)
        OBVIOUS
      <4>2. n \in Nat /\ j \in 1 .. n /\ j # n
        BY <1>3, <2>3, <2>7, <4>1
      <4>3. j + 1 \in 2 .. n /\ (j + 1) - 1 = j /\ j + 1 \in 1 .. n
        BY ONLY <4>2
      <4>4. QED BY <4>1, <4>3
    <3>2. h < m[j + 1].base
      <4>1. j \in Nat /\ ~(j + 1 <= j)
        BY <2>3
      <4>2. j + 1 \notin T
        BY <2>2, <4>1
      <4>3. ~(m[j + 1].base <= h)
        BY <3>1, <4>2
      <4>4. QED BY <1>4, <2>1, <3>1, <4>3
    <3>3. PICK b : b = m[j + 1].base /\ b \in Nat
      BY <1>4, <3>1
    <3>4. h \in e + 1 .. b - 1 /\ b - 1 \in Nat /\ e + 1 \in Nat /\ e + 1 < b
      BY <2>1, <2>4, <2>7, <3>2, <3>3
    <3>5. f \in Marked(e + 1, b - 1)
      BY <3>4, MarkedPages
    <3>6. QED BY <1>1, <2>4, <3>1, <3>3, <3>4, <3>5
  <2>8. QED BY <2>1, <2>4, <2>5, <2>6, <2>7
<1>6. ASSUME NEW h \in {2 * f, 2 * f + 1}, NEW i \in DOMAIN m, h \in m[i].base .. HalfEnd(m[i])
      PROVE  m[i].usable
  <2>1. PICK b, e : b = m[i].base /\ e = HalfEnd(m[i]) /\ b \in Nat /\ e \in Nat /\ h \in b .. e
    BY <1>3, <1>4, <1>6
  <2>2. f \in Marked(b, e)
    BY <2>1, MarkedPages
  <2>3. QED BY <1>1, <2>1, <2>2
<1>7. QED BY <1>1, <1>5, <1>6

--------------------------------------------------------------------------------
(* What a memory is, and what its frames are used for *)

PageEntry == Frame \cup {None, Null}
Entry     == [frame : PageEntry, present : BOOLEAN]
TableId   == {Slot(lv, u) : lv \in 2 .. 4, u \in UPage}
Space     == [cr3 : Frame, tables : SUBSET (TableId \X KPage \X PageEntry),
              pte : [UPage -> PageEntry]]
Mapping   == {r \in KPage \X (Nat \ {0}) : Pages(r) \subseteq KPage}
State     == {"ok", "bad_alloc", "lost", "astray", "fault"}
Memory    == [free : SUBSET Frame, live : SUBSET Mapping,
              dir : [Large -> RepoFrame \cup {None}],
              tables : [RepoFrame -> [Index -> Entry]], offset : Nat, mixed : BOOLEAN,
              user : Seq(Space), state : State]

KernelUse(p)  == <<"k", p>>
TopUse(i)     == <<"cr3", i>>
UserUse(i, v) == <<"u", i, v>>
DriverUse(f)  == <<"io", f>>

\* In the memory m, with the frames in d at drivers, x is a use of the frame f.
Has(m, d, x, f) ==
    /\ f \in Frame
    /\ \/ \E p \in KPage : x = KernelUse(p) /\ Pte(m, p) = f
       \/ \E i \in DOMAIN m.user : x = TopUse(i) /\ m.user[i].cr3 = f
       \/ \E i \in DOMAIN m.user : \E v \in UPage : x = UserUse(i, v) /\ m.user[i].pte[v] = f
       \/ x = DriverUse(f) /\ f \in d

\* Of the frames in G, those that are used have one use and are not free.
Apart(m, d, G) ==
    /\ m.free \subseteq G
    /\ \A x, f : Has(m, d, x, f) => f \in G /\ f \notin m.free
    /\ \A x, y, f : Has(m, d, x, f) /\ Has(m, d, y, f) => x = y

\* All frames in G are there.
Covered(m, d, G) == \A f \in G : f \in m.free \/ \E x : Has(m, d, x, f)

\* Uses of different kinds, and of different pages or processes, are different.
LEMMA UsesDiffer ==
    /\ \A p, q : KernelUse(p) = KernelUse(q) => p = q
    /\ \A i, j : TopUse(i) = TopUse(j) => i = j
    /\ \A i, j, v, w : UserUse(i, v) = UserUse(j, w) => i = j /\ v = w
    /\ \A f, g : DriverUse(f) = DriverUse(g) => f = g
    /\ \A p, i : KernelUse(p) # TopUse(i)
    /\ \A p, i, v : KernelUse(p) # UserUse(i, v)
    /\ \A p, f : KernelUse(p) # DriverUse(f)
    /\ \A i, j, v : TopUse(i) # UserUse(j, v)
    /\ \A i, f : TopUse(i) # DriverUse(f)
    /\ \A i, v, f : UserUse(i, v) # DriverUse(f)
<1>1. "k" # "cr3" /\ "k" # "u" /\ "k" # "io" /\ "cr3" # "u" /\ "cr3" # "io" /\ "u" # "io"
  OBVIOUS
<1>2. \A p : KernelUse(p)[1] = "k" /\ KernelUse(p)[2] = p
  BY DEF KernelUse
<1>3. \A i : TopUse(i)[1] = "cr3" /\ TopUse(i)[2] = i
  BY DEF TopUse
<1>4. \A i, v : UserUse(i, v)[1] = "u" /\ UserUse(i, v)[2] = i /\ UserUse(i, v)[3] = v
  BY DEF UserUse
<1>5. \A f : DriverUse(f)[1] = "io" /\ DriverUse(f)[2] = f
  BY DEF DriverUse
<1>6. \A p, q : KernelUse(p) = KernelUse(q) => p = q
  BY <1>2
<1>7. \A i, j : TopUse(i) = TopUse(j) => i = j
  BY <1>3
<1>8. \A i, j, v, w : UserUse(i, v) = UserUse(j, w) => i = j /\ v = w
  BY <1>4
<1>9. \A f, g : DriverUse(f) = DriverUse(g) => f = g
  BY <1>5
<1>10. \A p, i : KernelUse(p) # TopUse(i)
  BY <1>1, <1>2, <1>3
<1>11. \A p, i, v : KernelUse(p) # UserUse(i, v)
  BY <1>1, <1>2, <1>4
<1>12. \A p, f : KernelUse(p) # DriverUse(f)
  BY <1>1, <1>2, <1>5
<1>13. \A i, j, v : TopUse(i) # UserUse(j, v)
  BY <1>1, <1>3, <1>4
<1>14. \A i, f : TopUse(i) # DriverUse(f)
  BY <1>1, <1>3, <1>5
<1>15. \A i, v, f : UserUse(i, v) # DriverUse(f)
  BY <1>1, <1>4, <1>5
<1>16. QED BY <1>6, <1>7, <1>8, <1>9, <1>10, <1>11, <1>12, <1>13, <1>14, <1>15

\* A frame is given a use: get_phpage().
Takes(m, d, n, e, x, f) ==
    /\ f \in m.free /\ n.free = m.free \ {f}
    /\ \A y, g : Has(n, e, y, g) => Has(m, d, y, g) \/ (y = x /\ g = f)

\* Then the frames stay apart.
LEMMA TakeKeeps ==
    ASSUME NEW m, NEW n, NEW d, NEW e, NEW G, NEW f, NEW x,
           Apart(m, d, G), Takes(m, d, n, e, x, f)
    PROVE  Apart(n, e, G)
<1>1. n.free \subseteq G
  BY DEF Apart, Takes
<1>2. \A y, g : Has(n, e, y, g) => g \in G /\ g \notin n.free
  BY DEF Apart, Takes
<1>3. \A y, z, g : Has(n, e, y, g) /\ Has(n, e, z, g) => y = z
  BY DEF Apart, Takes
<1>4. QED BY <1>1, <1>2, <1>3 DEF Apart

\* A use of a frame ends: release_phpage().
LEMMA GiveKeeps ==
    ASSUME NEW m, NEW n, NEW d, NEW e, NEW G, NEW f, NEW x,
           Apart(m, d, G), Has(m, d, x, f), n.free = m.free \cup {f},
           \A y, g : Has(n, e, y, g) => Has(m, d, y, g) /\ y # x
    PROVE  Apart(n, e, G)
<1>1. n.free \subseteq G
  BY DEF Apart
<1>2. \A y, g : Has(n, e, y, g) => g \in G /\ g \notin n.free
  BY DEF Apart
<1>3. \A y, z, g : Has(n, e, y, g) /\ Has(n, e, z, g) => y = z
  BY DEF Apart
<1>4. QED BY <1>1, <1>2, <1>3 DEF Apart

\* No frame is taken or released.
LEMMA SameKeeps ==
    ASSUME NEW m, NEW n, NEW d, NEW e, NEW G,
           Apart(m, d, G), n.free = m.free,
           \A y, g : Has(n, e, y, g) => Has(m, d, y, g)
    PROVE  Apart(n, e, G)
BY DEF Apart

--------------------------------------------------------------------------------
(* The tables of the kernel *)

\* The frame that is handed out next is a free one, if there is one.
LEMMA NextFrameIs ==
    ASSUME NEW m \in Memory
    PROVE  /\ m.free = {} => NextFrame(m) = Null /\ m.free \ {NextFrame(m)} = m.free
           /\ m.free # {} => NextFrame(m) \in m.free /\ NextFrame(m) \in Frame
           /\ NextFrame(m) \in PageEntry
<1>1. m.free \in SUBSET Frame /\ Frame \subseteq Nat
  BY KMemAssumption DEF Memory, Frame
<1>2. ASSUME m.free # {}
      PROVE  NextFrame(m) \in m.free
  <2>1. \E x \in m.free : \A y \in m.free : x <= y
    BY <1>1, <1>2, LeastOfNat
  <2>2. Least(m.free) \in m.free
    BY <2>1, Zenon DEF Least
  <2>3. QED BY <1>2, <2>2 DEF NextFrame
<1>3. ASSUME m.free = {}
      PROVE  NextFrame(m) = Null /\ m.free \ {NextFrame(m)} = m.free
  BY <1>3 DEF NextFrame
<1>4. QED BY <1>1, <1>2, <1>3 DEF PageEntry

\* None and Null are no frames.
LEMMA NoFrames == None \notin Frame /\ Null \notin Frame /\ None # Null
BY DEF None, Null, Frame

\* What a memory is made of.
LEMMA MemoryShape ==
    ASSUME NEW m \in Memory
    PROVE  /\ m.free \in SUBSET Frame /\ m.live \in SUBSET Mapping
           /\ m.dir \in [Large -> RepoFrame \cup {None}]
           /\ m.tables \in [RepoFrame -> [Index -> Entry]]
           /\ m.offset \in Nat /\ m.mixed \in BOOLEAN
           /\ m.user \in Seq(Space) /\ m.state \in State
BY DEF Memory

\* Every page has one place, in the table of its large page.
LEMMA PlaceOf ==
    /\ \A p \in KPage : p \div Radix \in Large /\ p % Radix \in Index
    /\ \A p, q \in KPage : p \div Radix = q \div Radix /\ p % Radix = q % Radix => p = q
<1>1. KPage \subseteq Nat /\ Radix \in Nat \ {0}
  BY KMemAssumption DEF KPage
<1>2. ASSUME NEW p \in KPage
      PROVE  p \div Radix \in Large /\ p % Radix \in Index
  <2>1. p % Radix \in 0 .. Radix - 1
    BY <1>1, DivMod
  <2>2. QED BY <2>1 DEF Large, Index
<1>3. ASSUME NEW p \in KPage, NEW q \in KPage,
             p \div Radix = q \div Radix, p % Radix = q % Radix
      PROVE  p = q
  <2>1. /\ p = (p \div Radix) * Radix + (p % Radix)
        /\ q = (q \div Radix) * Radix + (q % Radix)
    BY <1>1, DivMod
  <2>2. QED BY <1>3, <2>1
<1>4. QED BY <1>2, <1>3

\* The frames of tables are numbers, and None is no such frame.
LEMMA RepoFrames == RepoFrame \subseteq Nat /\ None \notin RepoFrame
<1>1. Large \subseteq Nat
  <2>1. KPage \subseteq Nat /\ Radix \in Nat \ {0}
    BY KMemAssumption DEF KPage
  <2>2. \A p \in KPage : p \div Radix \in Nat
    BY <2>1, DivMod
  <2>3. QED BY <2>2 DEF Large
<1>2. \A l \in Large : Repo + l \in Nat
  BY <1>1, KMemAssumption
<1>3. RepoFrame \subseteq Nat
  BY <1>2 DEF RepoFrame
<1>4. QED BY <1>3 DEF None

\* The tables in place of large pages were fetched, each for one of them; the others are
\* empty.
Own(m) ==
    /\ m.state # "astray"
    /\ \A l \in Large : m.dir[l] # None => m.dir[l] < Repo + m.offset
    /\ \A l, k \in Large : m.dir[l] # None /\ m.dir[l] = m.dir[k] => l = k
    /\ \A t \in RepoFrame : Repo + m.offset <= t => \A i \in Index : ~m.tables[t][i].present

\* What a page is backed by depends on the tables alone.
LEMMA PteStays ==
    ASSUME NEW m, NEW n, n.dir = m.dir, n.tables = m.tables
    PROVE  /\ \A p \in KPage : Pte(n, p) = Pte(m, p)
           /\ n.offset = m.offset /\ n.state # "astray" /\ Own(m) => Own(n)
<1>1. \A p \in KPage : Pte(n, p) = Pte(m, p)
  BY DEF Pte, EntryAt
<1>2. ASSUME n.offset = m.offset, n.state # "astray", Own(m) PROVE Own(n)
  BY <1>2 DEF Own
<1>3. QED BY <1>1, <1>2

\* Where the large page l has the table t, which may be one of kpt_repo or not.
LEMMA PutRepoTableIs ==
    ASSUME NEW m \in Memory, NEW l \in Large, NEW t, NEW n, n = PutRepoTable(m, l, t)
    PROVE  /\ n \in Memory /\ n.free = m.free /\ n.live = m.live /\ n.user = m.user
           /\ n.tables = m.tables
           /\ m.mixed => n.mixed
           /\ n.state # "astray" => m.state # "astray" /\ n.dir[l] \in RepoFrame
           /\ ~n.mixed => /\ t = Repo + m.offset /\ t \in RepoFrame
                          /\ n.offset = m.offset + 1 /\ n.state = m.state
                          /\ n.dir[l] = t
                          /\ \A k \in Large : k # l => n.dir[k] = m.dir[k]
<1>1. CASE t \in RepoFrame
  <2>1. PICK d, o, x : /\ d = [m.dir EXCEPT ![l] = t] /\ o = m.offset + 1
                       /\ x = (m.mixed \/ t # Repo + m.offset)
    OBVIOUS
  <2>2. n = [m EXCEPT !.dir = d, !.offset = o, !.mixed = x]
    <3>1. n = [m EXCEPT !.dir[l] = t, !.offset = @ + 1, !.mixed = @ \/ t # Repo + m.offset]
      BY <1>1 DEF PutRepoTable
    <3>2. QED BY <2>1, <3>1
  <2>3. /\ d \in [Large -> RepoFrame \cup {None}] /\ o \in Nat /\ x \in BOOLEAN
        /\ d[l] = t /\ \A k \in Large : k # l => d[k] = m.dir[k]
    BY <1>1, <2>1, MemoryShape
  <2>4. /\ n \in Memory /\ n.free = m.free /\ n.live = m.live /\ n.user = m.user
        /\ n.tables = m.tables /\ n.state = m.state /\ n.dir = d /\ n.offset = o
        /\ n.mixed = x
    BY <2>2, <2>3 DEF Memory
  <2>5. QED BY <1>1, <2>1, <2>3, <2>4
<1>2. CASE t \notin RepoFrame
  <2>1. n = [m EXCEPT !.state = "astray", !.mixed = TRUE]
    BY <1>2 DEF PutRepoTable
  <2>2. /\ n \in Memory /\ n.free = m.free /\ n.live = m.live /\ n.user = m.user
        /\ n.tables = m.tables /\ n.state = "astray" /\ n.mixed = TRUE
    BY <2>1 DEF Memory, State
  <2>3. QED BY <2>2
<1>3. QED BY <1>1, <1>2

\* After the crawl has reached a page, that page has a table, or the crawl is astray.
LEMMA ReachedIs ==
    ASSUME NEW m \in Memory, NEW r, NEW p \in KPage, NEW n, n = Reached(m, r, p)
    PROVE  /\ n \in Memory /\ n.free = m.free /\ n.live = m.live /\ n.user = m.user
           /\ m.mixed => n.mixed
           /\ n.state # "astray" => n.dir[p \div Radix] \in RepoFrame
           /\ m.dir[p \div Radix] # None => n = m
<1>1. PICK l : l = p \div Radix /\ l \in Large
  BY PlaceOf
<1>2. PICK t : t = DirEntry(m, r, l, Repo + m.offset)
  OBVIOUS
<1>3. n = IF m.state = "astray" \/ m.dir[l] # None THEN m ELSE PutRepoTable(m, l, t)
  BY <1>1, <1>2 DEF Reached
<1>4. CASE m.state = "astray" \/ m.dir[l] # None
  <2>1. m.dir[l] \in RepoFrame \cup {None}
    BY <1>1, MemoryShape
  <2>2. QED BY <1>1, <1>3, <1>4, <2>1
<1>5. CASE ~(m.state = "astray" \/ m.dir[l] # None)
  <2>1. n = PutRepoTable(m, l, t)
    BY <1>3, <1>5
  <2>2. QED BY <1>1, <1>5, <2>1, PutRepoTableIs
<1>6. QED BY <1>4, <1>5

\* Unless tables were mixed up, a table that is fetched shows no page.
LEMMA ReachedKeeps ==
    ASSUME NEW m \in Memory, NEW r, NEW p \in KPage, NEW n, n = Reached(m, r, p),
           Own(m), ~n.mixed
    PROVE  Own(n) /\ n.state = m.state /\ \A q \in KPage : Pte(n, q) = Pte(m, q)
<1>1. PICK l, t : l = p \div Radix /\ t = DirEntry(m, r, l, Repo + m.offset)
  OBVIOUS
<1>2. l \in Large
  BY <1>1, PlaceOf
<1>3. CASE n = m
  BY <1>3
<1>4. CASE m.dir[l] = None /\ n = PutRepoTable(m, l, t)
  <2>1. /\ n \in Memory /\ n.tables = m.tables
        /\ t = Repo + m.offset /\ t \in RepoFrame /\ n.offset = m.offset + 1
        /\ n.state = m.state /\ n.dir[l] = t
        /\ \A k \in Large : k # l => n.dir[k] = m.dir[k]
    BY <1>2, <1>4, PutRepoTableIs
  <2>2. /\ t \in Nat /\ t # None /\ Repo \in Nat /\ m.offset \in Nat
        /\ \A k \in Large : m.dir[k] \in RepoFrame \cup {None}
        /\ \A f \in RepoFrame : f \in Nat
    BY <2>1, RepoFrames, MemoryShape, KMemAssumption
  <2>3. \A k \in Large : m.dir[k] # t
    <3>1. \A k \in Large : m.dir[k] # None => m.dir[k] < t
      BY <2>1 DEF Own
    <3>2. QED BY <2>2, <3>1
  <2>4. Own(n)
    <3>1. n.state # "astray"
      BY <2>1 DEF Own
    <3>2. ASSUME NEW k \in Large, n.dir[k] # None
          PROVE  n.dir[k] < Repo + n.offset
      <4>1. CASE k = l
        BY <2>1, <2>2, <4>1
      <4>2. CASE k # l
        <5>1. m.dir[k] < Repo + m.offset /\ m.dir[k] \in Nat
          BY <2>1, <2>2, <3>2, <4>2 DEF Own
        <5>2. QED BY <2>1, <2>2, <4>2, <5>1
      <4>3. QED BY <4>1, <4>2
    <3>3. ASSUME NEW k \in Large, NEW j \in Large, n.dir[k] # None, n.dir[k] = n.dir[j]
          PROVE  k = j
      BY <2>1, <2>3, <3>3 DEF Own
    <3>4. ASSUME NEW f \in RepoFrame, Repo + n.offset <= f, NEW i \in Index
          PROVE  ~n.tables[f][i].present
      <4>1. Repo + m.offset <= f
        BY <2>1, <2>2, <3>4
      <4>2. QED BY <2>1, <4>1 DEF Own
    <3>5. QED BY <3>1, <3>2, <3>3, <3>4 DEF Own
  <2>5. ASSUME NEW q \in KPage
        PROVE  Pte(n, q) = Pte(m, q)
    <3>1. PICK k, i : k = q \div Radix /\ i = q % Radix /\ k \in Large /\ i \in Index
      BY PlaceOf
    <3>2. CASE k # l
      BY <2>1, <3>1, <3>2 DEF Pte, EntryAt
    <3>3. CASE k = l
      <4>1. Pte(m, q) = None
        BY <1>4, <3>1, <3>3 DEF Pte
      <4>2. ~m.tables[t][i].present
        <5>1. Repo + m.offset <= t
          BY <2>1, <2>2
        <5>2. QED BY <2>1, <3>1, <5>1 DEF Own
      <4>3. n.dir[k] = t /\ ~n.tables[n.dir[k]][i].present
        BY <2>1, <3>3, <4>2
      <4>4. Pte(n, q) = None
        BY <3>1, <4>3 DEF Pte, EntryAt
      <4>5. QED BY <4>1, <4>4
    <3>4. QED BY <3>2, <3>3
  <2>6. QED BY <2>1, <2>4, <2>5
<1>5. QED BY <1>1, <1>3, <1>4 DEF Reached

\* An entry is written where the page has a table.
LEMMA SetEntryIs ==
    ASSUME NEW m \in Memory, NEW p \in KPage, m.dir[p \div Radix] \in RepoFrame,
           NEW e \in Entry, NEW n, n = SetEntry(m, p, e)
    PROVE  /\ n \in Memory /\ n.free = m.free /\ n.live = m.live /\ n.dir = m.dir
           /\ n.offset = m.offset /\ n.mixed = m.mixed /\ n.user = m.user
           /\ n.state = m.state
           /\ EntryAt(n, p) = e
           /\ \A f \in RepoFrame, i \in Index :
                 f # m.dir[p \div Radix] \/ i # p % Radix => n.tables[f][i] = m.tables[f][i]
<1>1. PICK f, i : f = m.dir[p \div Radix] /\ i = p % Radix
  OBVIOUS
<1>2. f \in RepoFrame /\ i \in Index
  BY <1>1, PlaceOf
<1>3. PICK t : t = [m.tables EXCEPT ![f] = [m.tables[f] EXCEPT ![i] = e]]
  OBVIOUS
<1>4. n = [m EXCEPT !.tables = t]
  <2>1. n = [m EXCEPT !.tables[f][i] = e]
    BY <1>1 DEF SetEntry
  <2>2. QED BY <1>3, <2>1
<1>5. /\ t \in [RepoFrame -> [Index -> Entry]] /\ t[f][i] = e
      /\ \A g \in RepoFrame, j \in Index : g # f \/ j # i => t[g][j] = m.tables[g][j]
  <2>1. m.tables \in [RepoFrame -> [Index -> Entry]]
    BY MemoryShape
  <2>2. m.tables[f] \in [Index -> Entry]
    BY <1>2, <2>1
  <2>3. PICK row : row = [m.tables[f] EXCEPT ![i] = e]
    OBVIOUS
  <2>4. /\ row \in [Index -> Entry] /\ row[i] = e
        /\ \A j \in Index : j # i => row[j] = m.tables[f][j]
    BY <1>2, <2>2, <2>3
  <2>5. t = [m.tables EXCEPT ![f] = row]
    BY <1>3, <2>3
  <2>6. /\ t \in [RepoFrame -> [Index -> Entry]] /\ t[f] = row
        /\ \A g \in RepoFrame : g # f => t[g] = m.tables[g]
    BY <1>2, <2>1, <2>4, <2>5
  <2>7. QED BY <2>4, <2>6
<1>6. /\ n \in Memory /\ n.free = m.free /\ n.live = m.live /\ n.dir = m.dir
      /\ n.offset = m.offset /\ n.mixed = m.mixed /\ n.user = m.user
      /\ n.state = m.state /\ n.tables = t
  BY <1>4, <1>5 DEF Memory
<1>7. EntryAt(n, p) = e
  BY <1>1, <1>5, <1>6 DEF EntryAt
<1>8. QED BY <1>1, <1>5, <1>6, <1>7

\* It changes what that page is backed by, and no other page.
LEMMA SetEntryKeeps ==
    ASSUME NEW m \in Memory, NEW p \in KPage, m.dir[p \div Radix] \in RepoFrame, Own(m),
           NEW e \in Entry, NEW n, n = SetEntry(m, p, e)
    PROVE  /\ Own(n)
           /\ e.present => Pte(n, p) = e.frame
           /\ ~e.present => Pte(n, p) = None
           /\ \A q \in KPage : q # p => Pte(n, q) = Pte(m, q)
<1>1. PICK l, f : l = p \div Radix /\ f = m.dir[l]
  OBVIOUS
<1>2. /\ n \in Memory /\ n.dir = m.dir /\ n.offset = m.offset /\ n.state = m.state
      /\ EntryAt(n, p) = e
      /\ \A g \in RepoFrame, i \in Index :
            g # f \/ i # p % Radix => n.tables[g][i] = m.tables[g][i]
  BY <1>1, SetEntryIs
<1>3. l \in Large /\ f \in RepoFrame /\ f # None
  BY <1>1, PlaceOf, RepoFrames
<1>4. Own(n)
  <2>1. /\ n.state # "astray"
        /\ \A k \in Large : n.dir[k] # None => n.dir[k] < Repo + n.offset
        /\ \A k, j \in Large : n.dir[k] # None /\ n.dir[k] = n.dir[j] => k = j
    BY <1>2 DEF Own
  <2>2. ASSUME NEW t \in RepoFrame, Repo + n.offset <= t, NEW i \in Index
        PROVE  ~n.tables[t][i].present
    <3>1. f < Repo + m.offset
      BY <1>1, <1>3 DEF Own
    <3>2. t \in Nat /\ f \in Nat /\ Repo \in Nat /\ m.offset \in Nat
      BY <1>3, RepoFrames, MemoryShape, KMemAssumption
    <3>3. t # f
      BY <1>2, <2>2, <3>1, <3>2
    <3>4. ~m.tables[t][i].present
      BY <1>2, <2>2 DEF Own
    <3>5. QED BY <1>2, <3>3, <3>4
  <2>3. QED BY <2>1, <2>2 DEF Own
<1>5. (e.present => Pte(n, p) = e.frame) /\ (~e.present => Pte(n, p) = None)
  BY <1>1, <1>2, <1>3 DEF Pte
<1>6. ASSUME NEW q \in KPage, q # p
      PROVE  Pte(n, q) = Pte(m, q)
  <2>1. PICK k, i : k = q \div Radix /\ i = q % Radix /\ k \in Large /\ i \in Index
    BY PlaceOf
  <2>2. CASE m.dir[k] = None
    BY <1>2, <2>1, <2>2 DEF Pte
  <2>3. CASE m.dir[k] # None
    <3>1. m.dir[k] \in RepoFrame
      BY <2>1, <2>3, MemoryShape
    <3>2. m.dir[k] # f \/ i # p % Radix
      <4>1. ASSUME m.dir[k] = f PROVE k = l
        BY <1>1, <1>3, <2>1, <2>3, <4>1 DEF Own
      <4>2. k = l => i # p % Radix
        BY <1>1, <1>6, <2>1, PlaceOf
      <4>3. QED BY <4>1, <4>2
    <3>3. n.tables[m.dir[k]][i] = m.tables[m.dir[k]][i]
      BY <1>2, <2>1, <3>1, <3>2
    <3>4. QED BY <1>2, <2>1, <3>3 DEF Pte, EntryAt
  <2>4. QED BY <2>2, <2>3
<1>7. QED BY <1>4, <1>5, <1>6

--------------------------------------------------------------------------------
(* A page of the kernel *)

\* A frame more, or one less, leaves the rest as it is.
LEMMA FreeIs ==
    ASSUME NEW m \in Memory, NEW free \in SUBSET Frame, NEW n, n = [m EXCEPT !.free = free]
    PROVE  /\ n \in Memory /\ n.free = free /\ n.live = m.live /\ n.user = m.user
           /\ n.dir = m.dir /\ n.tables = m.tables /\ n.offset = m.offset
           /\ n.mixed = m.mixed /\ n.state = m.state
BY DEF Memory

\* Backing a page of the kernel leaves the mappings and the address spaces alone.
LEMMA BackPageLeaves ==
    ASSUME NEW m \in Memory, NEW r, NEW p \in KPage, NEW n, n = BackPage(m, r, p)
    PROVE  n \in Memory /\ n.live = m.live /\ n.user = m.user /\ (m.mixed => n.mixed)
<1>1. PICK k : k = Reached(m, r, p)
  OBVIOUS
<1>2. /\ k \in Memory /\ k.live = m.live /\ k.user = m.user
      /\ m.mixed => k.mixed
      /\ k.state # "astray" => k.dir[p \div Radix] \in RepoFrame
  BY <1>1, ReachedIs
<1>3. n = BackEntry(k, p)
  BY <1>1 DEF BackPage
<1>4. CASE k.state = "astray"
  BY <1>2, <1>3, <1>4 DEF BackEntry
<1>5. CASE k.state # "astray"
  <2>1. PICK f, e, free, j : /\ f = NextFrame(k) /\ e = [frame |-> f, present |-> TRUE]
                             /\ free = k.free \ {f} /\ j = [k EXCEPT !.free = free]
    OBVIOUS
  <2>2. e \in Entry /\ free \in SUBSET Frame
    BY <1>2, <2>1, NextFrameIs, MemoryShape DEF Entry
  <2>3. /\ j \in Memory /\ j.live = k.live /\ j.user = k.user /\ j.mixed = k.mixed
        /\ j.dir = k.dir
    <3>1. j = [k EXCEPT !.free = free]
      BY <2>1
    <3>2. QED BY <1>2, <2>2, <3>1, FreeIs
  <2>4. n = SetEntry(j, p, e)
    <3>1. j = Taken(k)
      BY <2>1 DEF Taken
    <3>2. QED BY <1>3, <1>5, <2>1, <3>1 DEF BackEntry
  <2>5. n \in Memory /\ n.live = j.live /\ n.user = j.user /\ n.mixed = j.mixed
    BY <1>2, <1>5, <2>2, <2>3, <2>4, SetEntryIs
  <2>6. QED BY <1>2, <2>3, <2>5
<1>6. QED BY <1>4, <1>5

\* Unless tables were mixed up, it gives the page the frame that is next, and no other page
\* is changed.
LEMMA BackPageResult ==
    ASSUME NEW m \in Memory, NEW r, NEW p \in KPage, NEW n, n = BackPage(m, r, p),
           NEW f, f = NextFrame(m), Own(m), ~n.mixed
    PROVE  /\ Own(n) /\ n.state = m.state
           /\ n.free = m.free \ {f} /\ Pte(n, p) = f
           /\ \A q \in KPage : q # p => Pte(n, q) = Pte(m, q)
<1>1. PICK k : k = Reached(m, r, p)
  OBVIOUS
<1>2. /\ k \in Memory /\ k.free = m.free
      /\ k.state # "astray" => k.dir[p \div Radix] \in RepoFrame
  BY <1>1, ReachedIs
<1>3. n = BackEntry(k, p)
  BY <1>1 DEF BackPage
<1>4. k.state # "astray" => n.mixed = k.mixed
  <2> SUFFICES ASSUME k.state # "astray" PROVE n.mixed = k.mixed
    OBVIOUS
  <2>1. PICK g, e, free, j : /\ g = NextFrame(k) /\ e = [frame |-> g, present |-> TRUE]
                             /\ free = k.free \ {g} /\ j = [k EXCEPT !.free = free]
    OBVIOUS
  <2>2. e \in Entry /\ free \in SUBSET Frame
    BY <1>2, <2>1, NextFrameIs, MemoryShape DEF Entry
  <2>3. j \in Memory /\ j.mixed = k.mixed /\ j.dir = k.dir
    <3>1. j = [k EXCEPT !.free = free]
      BY <2>1
    <3>2. QED BY <1>2, <2>2, <3>1, FreeIs
  <2>4. n = SetEntry(j, p, e)
    <3>1. j = Taken(k)
      BY <2>1 DEF Taken
    <3>2. QED BY <1>3, <2>1, <3>1 DEF BackEntry
  <2>5. QED BY <1>2, <2>2, <2>3, <2>4, SetEntryIs
<1>5. ~k.mixed
  <2>1. k.state = "astray" => n = k
    BY <1>3 DEF BackEntry
  <2>2. QED BY <1>4, <2>1
<1>6. Own(k) /\ k.state = m.state /\ \A q \in KPage : Pte(k, q) = Pte(m, q)
  BY <1>1, <1>5, ReachedKeeps
<1>7. k.state # "astray" /\ k.dir[p \div Radix] \in RepoFrame
  BY <1>2, <1>6 DEF Own
<1>8. PICK e, free, j : /\ e = [frame |-> f, present |-> TRUE]
                        /\ free = k.free \ {f} /\ j = [k EXCEPT !.free = free]
  OBVIOUS
<1>9. f = NextFrame(k)
  BY <1>2 DEF NextFrame
<1>10. e \in Entry /\ e.frame = f /\ e.present /\ free \in SUBSET Frame
  BY <1>2, <1>8, <1>9, NextFrameIs, MemoryShape DEF Entry
<1>11. /\ j \in Memory /\ j.free = free /\ j.dir = k.dir /\ j.tables = k.tables
       /\ j.offset = k.offset /\ j.state = k.state
  BY <1>2, <1>8, <1>10, FreeIs
<1>12. Own(j) /\ \A q \in KPage : Pte(j, q) = Pte(k, q)
  BY <1>6, <1>7, <1>11, PteStays
<1>13. n = SetEntry(j, p, e)
  <2>1. j = Taken(k)
    BY <1>8, <1>9 DEF Taken
  <2>2. QED BY <1>3, <1>7, <1>8, <1>9, <2>1 DEF BackEntry
<1>14. n.free = j.free /\ n.state = j.state
  BY <1>7, <1>10, <1>11, <1>13, SetEntryIs
<1>15. Own(n) /\ Pte(n, p) = f /\ \A q \in KPage : q # p => Pte(n, q) = Pte(j, q)
  BY <1>7, <1>10, <1>11, <1>12, <1>13, SetEntryKeeps
<1>16. QED BY <1>2, <1>6, <1>8, <1>11, <1>12, <1>14, <1>15

\* Unbacking a page of the kernel leaves the mappings and the address spaces alone.
LEMMA UnbackPageLeaves ==
    ASSUME NEW m \in Memory, NEW r, NEW p \in KPage, NEW n, n = UnbackPage(m, r, p)
    PROVE  n \in Memory /\ n.live = m.live /\ n.user = m.user /\ (m.mixed => n.mixed)
<1>1. PICK k : k = Reached(m, r, p)
  OBVIOUS
<1>2. /\ k \in Memory /\ k.live = m.live /\ k.user = m.user
      /\ m.mixed => k.mixed
      /\ k.state # "astray" => k.dir[p \div Radix] \in RepoFrame
  BY <1>1, ReachedIs
<1>3. n = UnbackEntry(k, p)
  BY <1>1 DEF UnbackPage
<1>4. CASE k.state = "astray"
  BY <1>2, <1>3, <1>4 DEF UnbackEntry
<1>5. CASE k.state # "astray"
  <2>1. PICK f, e, j, free : /\ f = EntryAt(k, p).frame
                             /\ e = [EntryAt(k, p) EXCEPT !.present = FALSE]
                             /\ j = SetEntry(k, p, e) /\ free = j.free \cup ({f} \cap Frame)
    OBVIOUS
  <2>2. e \in Entry
    <3>1. EntryAt(k, p) \in Entry
      BY <1>2, <1>5, MemoryShape, PlaceOf DEF EntryAt
    <3>2. QED BY <2>1, <3>1 DEF Entry
  <2>3. j \in Memory /\ j.live = k.live /\ j.user = k.user /\ j.mixed = k.mixed
    BY <1>2, <1>5, <2>1, <2>2, SetEntryIs
  <2>4. free \in SUBSET Frame
    BY <2>1, <2>3, MemoryShape
  <2>5. n = [j EXCEPT !.free = free]
    BY <1>3, <1>5, <2>1 DEF UnbackEntry, Returned, Absent
  <2>6. n \in Memory /\ n.live = j.live /\ n.user = j.user /\ n.mixed = j.mixed
    BY <2>3, <2>4, <2>5, FreeIs
  <2>7. QED BY <1>2, <2>3, <2>6
<1>6. QED BY <1>4, <1>5

\* Where the page was backed, its entry is absent then, and the frame it held is free.
LEMMA UnbackPageResult ==
    ASSUME NEW m \in Memory, NEW r, NEW p \in KPage, NEW n, n = UnbackPage(m, r, p),
           NEW f, f = Pte(m, p), f # None, Own(m)
    PROVE  /\ Own(n) /\ n.state = m.state
           /\ n.free = m.free \cup ({f} \cap Frame) /\ Pte(n, p) = None
           /\ \A q \in KPage : q # p => Pte(n, q) = Pte(m, q)
<1>1. m.dir[p \div Radix] # None /\ EntryAt(m, p).frame = f
  BY DEF Pte
<1>2. m.dir[p \div Radix] \in RepoFrame
  BY <1>1, MemoryShape, PlaceOf
<1>3. m.state # "astray"
  BY DEF Own
<1>4. n = UnbackEntry(m, p)
  <2>1. Reached(m, r, p) = m
    BY <1>1, ReachedIs
  <2>2. QED BY <2>1 DEF UnbackPage
<1>5. PICK e, j, free : /\ e = [EntryAt(m, p) EXCEPT !.present = FALSE]
                        /\ j = SetEntry(m, p, e) /\ free = j.free \cup ({f} \cap Frame)
  OBVIOUS
<1>6. e \in Entry /\ ~e.present
  <2>1. EntryAt(m, p) \in Entry
    BY <1>2, MemoryShape, PlaceOf DEF EntryAt
  <2>2. QED BY <1>5, <2>1 DEF Entry
<1>7. j \in Memory /\ j.free = m.free /\ j.state = m.state
  BY <1>2, <1>5, <1>6, SetEntryIs
<1>8. Own(j) /\ Pte(j, p) = None /\ \A q \in KPage : q # p => Pte(j, q) = Pte(m, q)
  <2>1. j = SetEntry(m, p, e)
    BY <1>5
  <2>2. QED BY <1>2, <1>6, <2>1, SetEntryKeeps
<1>9. free \in SUBSET Frame
  BY <1>5, <1>7, MemoryShape
<1>10. n = [j EXCEPT !.free = free]
  BY <1>1, <1>3, <1>4, <1>5 DEF UnbackEntry, Returned, Absent
<1>11. /\ n.free = free /\ n.dir = j.dir /\ n.tables = j.tables /\ n.offset = j.offset
       /\ n.state = j.state
  BY <1>7, <1>9, <1>10, FreeIs
<1>12. Own(n) /\ \A q \in KPage : Pte(n, q) = Pte(j, q)
  BY <1>3, <1>7, <1>8, <1>11, PteStays
<1>13. QED BY <1>5, <1>7, <1>8, <1>11, <1>12

\* So backing a page keeps the frames apart, and all of them when the page was not backed.
LEMMA BackPageKeeps ==
    ASSUME NEW m \in Memory, NEW r, NEW p \in KPage, NEW n, n = BackPage(m, r, p),
           NEW d, NEW G, Apart(m, d, G), Own(m), ~n.mixed
    PROVE  /\ Own(n) /\ n.state = m.state
           /\ Pte(n, p) # None
           /\ \A q \in KPage : q # p => Pte(n, q) = Pte(m, q)
           /\ Apart(n, d, G)
           /\ Pte(m, p) = None /\ Covered(m, d, G) => Covered(n, d, G)
<1>1. PICK f : f = NextFrame(m)
  OBVIOUS
<1>2. n \in Memory /\ n.user = m.user
  BY BackPageLeaves
<1>3. /\ Own(n) /\ n.state = m.state
      /\ n.free = m.free \ {f} /\ Pte(n, p) = f
      /\ \A q \in KPage : q # p => Pte(n, q) = Pte(m, q)
  BY <1>1, BackPageResult
<1>4. m.free # {} => f \in m.free /\ f \in Frame
  BY <1>1, NextFrameIs
<1>5. m.free = {} => f = Null /\ n.free = m.free
  BY <1>1, <1>3, NextFrameIs
<1>6. f # None
  BY <1>4, <1>5, NoFrames
<1>7. ASSUME NEW y, NEW g, Has(n, d, y, g)
      PROVE  Has(m, d, y, g) \/ (y = KernelUse(p) /\ g = f /\ f \in Frame)
  BY <1>2, <1>3, <1>7 DEF Has
<1>8. ASSUME NEW y, NEW g, Has(m, d, y, g), Pte(m, p) = None
      PROVE  Has(n, d, y, g)
  BY <1>2, <1>3, <1>8, NoFrames DEF Has
<1>9. f \in Frame => Has(n, d, KernelUse(p), f)
  BY <1>3 DEF Has
<1>10. CASE m.free # {}
  <2>1. Apart(n, d, G)
    <3>1. PICK x : x = KernelUse(p)
      OBVIOUS
    <3>2. \A y, g : Has(n, d, y, g) => Has(m, d, y, g) \/ (y = x /\ g = f)
      BY <1>7, <3>1
    <3>3. Takes(m, d, n, d, x, f)
      BY <1>2, <1>3, <1>4, <1>10, <3>2 DEF Takes
    <3>4. QED BY <3>3, TakeKeeps
  <2>2. ASSUME Pte(m, p) = None, Covered(m, d, G) PROVE Covered(n, d, G)
    <3>1. \A y, g : Has(m, d, y, g) => Has(n, d, y, g)
      BY <1>8, <2>2
    <3>2. Has(n, d, KernelUse(p), f)
      BY <1>4, <1>9, <1>10
    <3>3. QED BY <1>3, <2>2, <3>1, <3>2 DEF Covered
  <2>3. QED BY <1>3, <1>6, <2>1, <2>2
<1>11. CASE m.free = {}
  <2>1. \A y, g : Has(n, d, y, g) => Has(m, d, y, g)
    BY <1>5, <1>7, <1>11, NoFrames
  <2>2. Apart(n, d, G)
    BY <1>5, <1>11, <2>1, SameKeeps
  <2>3. ASSUME Pte(m, p) = None, Covered(m, d, G) PROVE Covered(n, d, G)
    <3>1. \A y, g : Has(m, d, y, g) => Has(n, d, y, g)
      BY <1>8, <2>3
    <3>2. QED BY <1>5, <1>11, <2>3, <3>1 DEF Covered
  <2>4. QED BY <1>3, <1>6, <2>2, <2>3
<1>12. QED BY <1>10, <1>11

\* So unbacking a page that is backed keeps the frames apart, and all of them.
LEMMA UnbackPageKeeps ==
    ASSUME NEW m \in Memory, NEW r, NEW p \in KPage, NEW n, n = UnbackPage(m, r, p),
           NEW d, NEW G, Apart(m, d, G), Own(m), Pte(m, p) # None
    PROVE  /\ Own(n) /\ n.state = m.state
           /\ Pte(n, p) = None
           /\ \A q \in KPage : q # p => Pte(n, q) = Pte(m, q)
           /\ Apart(n, d, G)
           /\ Covered(m, d, G) => Covered(n, d, G)
<1>1. PICK f : f = Pte(m, p)
  OBVIOUS
<1>2. n \in Memory /\ n.user = m.user
  BY UnbackPageLeaves
<1>3. /\ Own(n) /\ n.state = m.state
      /\ n.free = m.free \cup ({f} \cap Frame) /\ Pte(n, p) = None
      /\ \A q \in KPage : q # p => Pte(n, q) = Pte(m, q)
  BY <1>1, UnbackPageResult
<1>4. ASSUME NEW y, NEW g, Has(n, d, y, g)
      PROVE  Has(m, d, y, g) /\ y # KernelUse(p)
  BY <1>2, <1>3, <1>4, NoFrames, UsesDiffer DEF Has
<1>5. ASSUME NEW y, NEW g, Has(m, d, y, g)
      PROVE  Has(n, d, y, g) \/ g = f
  BY <1>1, <1>2, <1>3, <1>5 DEF Has
<1>6. CASE f \in Frame
  <2>1. n.free = m.free \cup {f} /\ Has(m, d, KernelUse(p), f)
    BY <1>1, <1>2, <1>3, <1>6 DEF Has
  <2>2. Apart(n, d, G)
    BY <1>4, <2>1, GiveKeeps
  <2>3. ASSUME Covered(m, d, G) PROVE Covered(n, d, G)
    BY <1>5, <2>1, <2>3 DEF Covered
  <2>4. QED BY <1>3, <2>2, <2>3
<1>7. CASE f \notin Frame
  <2>1. n.free = m.free
    BY <1>2, <1>3, <1>7
  <2>2. Apart(n, d, G)
    BY <1>4, <2>1, SameKeeps
  <2>3. ASSUME Covered(m, d, G) PROVE Covered(n, d, G)
    <3>1. \A y, g : Has(m, d, y, g) => g \in Frame
      BY DEF Has
    <3>2. QED BY <1>5, <1>7, <2>1, <2>3, <3>1 DEF Covered
  <2>4. QED BY <1>3, <2>2, <2>3
<1>8. QED BY <1>6, <1>7

--------------------------------------------------------------------------------
(* A range of pages of the kernel *)

\* The pages of a mapping, one after the other.
LEMMA RangeShape ==
    ASSUME NEW r \in Mapping
    PROVE  /\ r[1] \in Nat /\ r[2] \in Nat \ {0} /\ LastPage(r) \in Int
           /\ r[1] - 1 \in Int /\ r[1] - 1 <= LastPage(r)
           /\ (r[1] - 1) + 1 = r[1]
           /\ Pages(r) = r[1] .. LastPage(r)
           /\ \A p \in r[1] .. LastPage(r) : p \in KPage /\ p - 1 \in r[1] - 1 .. LastPage(r)
<1>1. r[1] \in KPage /\ r[2] \in Nat \ {0} /\ Pages(r) \subseteq KPage
  BY DEF Mapping
<1>2. r[1] \in Nat
  BY <1>1, KMemAssumption DEF KPage
<1>3. QED BY <1>1, <1>2 DEF Pages, LastPage

\* back_vmem() goes through memories, one for each page.
LEMMA BackRangeSteps ==
    ASSUME NEW m \in Memory, NEW r \in Mapping
    PROVE  \E g \in [r[1] - 1 .. LastPage(r) -> Memory] :
              /\ g[r[1] - 1] = m
              /\ \A p \in r[1] .. LastPage(r) : g[p] = BackPage(g[p - 1], r, p)
              /\ BackRange(m, r) = g[LastPage(r)]
<1> DEFINE F == [z \in Int \X Memory |-> IF z[1] \in KPage THEN BackPage(z[2], r, z[1]) ELSE z[2]]
           Body(g) == [p \in r[1] - 1 .. LastPage(r) |->
                          IF p < r[1] THEN m ELSE BackPage(g[p - 1], r, p)]
           U == CHOOSE g : g = Body(g)
<1>1. PICK a, b : a = r[1] - 1 /\ b = LastPage(r)
  OBVIOUS
<1>2. /\ a \in Int /\ b \in Int /\ a <= b /\ r[1] = a + 1
      /\ \A p \in a + 1 .. b : p \in KPage /\ p - 1 \in a .. b /\ ~(p < a + 1)
      /\ \A p \in a .. b : p < a + 1 <=> p = a
  BY <1>1, RangeShape
<1>3. F \in [Int \X Memory -> Memory]
  <2>1. ASSUME NEW z \in Int \X Memory
        PROVE  (IF z[1] \in KPage THEN BackPage(z[2], r, z[1]) ELSE z[2]) \in Memory
    BY BackPageLeaves
  <2>2. QED BY <2>1
<1>4. PICK g \in [a .. b -> Memory] : g[a] = m /\ \A i \in a + 1 .. b : g[i] = F[<<i, g[i - 1]>>]
  <2> HIDE DEF F
  <2>1. Iterations(Memory, m, F, a, b) # {}
    BY <1>2, <1>3, IterationExists
  <2>2. QED BY <2>1 DEF Iterations
<1>5. \A i \in a + 1 .. b : g[i] = BackPage(g[i - 1], r, i)
  <2>1. ASSUME NEW i \in a + 1 .. b
        PROVE  g[i] = BackPage(g[i - 1], r, i)
    <3>1. i \in KPage /\ i - 1 \in a .. b /\ i \in Int
      BY <1>2
    <3>2. <<i, g[i - 1]>> \in Int \X Memory
      BY <3>1
    <3>3. QED BY <1>4, <3>1, <3>2
  <2>2. QED BY <2>1
<1>6. g = Body(g)
  <2>1. \A p \in a .. b : g[p] = IF p < a + 1 THEN m ELSE BackPage(g[p - 1], r, p)
    <3>1. ASSUME NEW p \in a .. b
          PROVE  g[p] = IF p < a + 1 THEN m ELSE BackPage(g[p - 1], r, p)
      <4>1. CASE p = a
        BY <1>2, <1>4, <4>1
      <4>2. CASE p # a
        <5>1. p \in a + 1 .. b
          BY <1>2, <4>2
        <5>2. QED BY <1>2, <1>5, <5>1
      <4>3. QED BY <4>1, <4>2
    <3>2. QED BY <3>1
  <2>2. QED BY <1>1, <1>2, <2>1
<1>7. BackRange(m, r) = U[b]
  BY <1>1 DEF BackRange
<1>8. U = Body(U)
  <2> HIDE DEF Body
  <2>1. QED BY <1>6, Zenon
<1> HIDE DEF U
<1>9. /\ U = [p \in a .. b |-> U[p]] /\ U[a] = m
      /\ \A p \in a + 1 .. b : U[p] = BackPage(U[p - 1], r, p)
  <2>1. U = [p \in a .. b |-> IF p < a + 1 THEN m ELSE BackPage(U[p - 1], r, p)]
    BY <1>1, <1>2, <1>8
  <2>2. U[a] = m
    BY <1>2, <2>1
  <2>3. ASSUME NEW p \in a + 1 .. b
        PROVE  U[p] = BackPage(U[p - 1], r, p)
    <3>1. p \in a .. b /\ ~(p < a + 1)
      BY <1>2
    <3>2. QED BY <2>1, <3>1
  <2>4. U = [p \in a .. b |-> U[p]]
    BY <2>1
  <2>5. QED BY <2>2, <2>3, <2>4
<1>10. \A p \in a .. b : U[p] \in Memory
  <2> DEFINE S == {p \in a .. b : U[p] \in Memory}
  <2>1. a \in S
    BY <1>2, <1>9
  <2>2. ASSUME NEW p \in a + 1 .. b, p - 1 \in S
        PROVE  p \in S
    <3>1. p \in KPage /\ U[p - 1] \in Memory /\ p \in a .. b
      BY <1>2, <2>2
    <3>2. BackPage(U[p - 1], r, p) \in Memory
      BY <3>1, BackPageLeaves
    <3>3. QED BY <1>9, <3>1, <3>2
  <2> HIDE DEF S
  <2>3. ASSUME NEW p \in a .. b
        PROVE  p \in S
    <3>1. p \in Int /\ a <= p /\ \A q \in a + 1 .. p : q \in a + 1 .. b
      BY <1>2
    <3>2. \A q \in a + 1 .. p : q - 1 \in S => q \in S
      BY <2>2, <3>1
    <3>3. QED BY <1>2, <2>1, <3>1, <3>2, InductionFromTo
  <2>4. QED BY <2>3 DEF S
<1>11. U \in [a .. b -> Memory]
  BY <1>9, <1>10
<1>12. QED BY <1>1, <1>2, <1>7, <1>9, <1>11

\* The pages of r up to p have been backed, if no table was mixed up.
Backs(m, n, r, p, d, G) ==
    /\ Own(n) /\ n.state = m.state
    /\ \A q \in KPage : /\ q \in r[1] .. p => Pte(n, q) # None
                        /\ q \notin r[1] .. p => Pte(n, q) = Pte(m, q)
    /\ Apart(n, d, G)
    /\ (\A q \in Pages(r) : Pte(m, q) = None) /\ Covered(m, d, G) => Covered(n, d, G)

\* The memory n follows from m by backing the pages of r up to p.
BackedTo(m, n, r, p, d, G) ==
    /\ n \in Memory /\ n.live = m.live /\ n.user = m.user
    /\ m.mixed => n.mixed
    /\ ~n.mixed => Backs(m, n, r, p, d, G)

\* The next page is backed.
LEMMA BackedOn ==
    ASSUME NEW m, NEW n, NEW k, NEW r \in Mapping, NEW p \in r[1] .. LastPage(r), NEW d, NEW G,
           BackedTo(m, n, r, p - 1, d, G), k = BackPage(n, r, p)
    PROVE  BackedTo(m, k, r, p, d, G)
<1>1. /\ r[1] \in Nat /\ p \in Int /\ r[1] <= p /\ p \in KPage /\ p \in Pages(r)
      /\ KPage \subseteq Nat
  <2>1. /\ r[1] \in Nat /\ LastPage(r) \in Int /\ Pages(r) = r[1] .. LastPage(r)
        /\ \A q \in r[1] .. LastPage(r) : q \in KPage
    BY RangeShape
  <2>2. KPage \subseteq Nat
    BY KMemAssumption DEF KPage
  <2>3. QED BY <2>1, <2>2
<1>2. n \in Memory /\ n.live = m.live /\ n.user = m.user /\ (m.mixed => n.mixed)
  BY DEF BackedTo
<1>3. k \in Memory /\ k.live = n.live /\ k.user = n.user /\ (n.mixed => k.mixed)
  BY <1>1, <1>2, BackPageLeaves
<1>4. ASSUME ~k.mixed PROVE Backs(m, k, r, p, d, G)
  <2>1. Backs(m, n, r, p - 1, d, G)
    BY <1>3, <1>4 DEF BackedTo
  <2>2. Own(n) /\ n.state = m.state /\ Apart(n, d, G)
    BY <2>1 DEF Backs
  <2>3. /\ Own(k) /\ k.state = n.state
        /\ Pte(k, p) # None
        /\ \A q \in KPage : q # p => Pte(k, q) = Pte(n, q)
        /\ Apart(k, d, G)
        /\ Pte(n, p) = None /\ Covered(n, d, G) => Covered(k, d, G)
    BY <1>1, <1>2, <1>4, <2>2, BackPageKeeps
  <2>4. ASSUME NEW q \in KPage
        PROVE  /\ q \in r[1] .. p => Pte(k, q) # None
               /\ q \notin r[1] .. p => Pte(k, q) = Pte(m, q)
    <3>1. q \in r[1] .. p <=> q = p \/ q \in r[1] .. p - 1
      BY <1>1
    <3>2. q = p => q \notin r[1] .. p - 1
      BY <1>1
    <3>3. /\ q \in r[1] .. p - 1 => Pte(n, q) # None
          /\ q \notin r[1] .. p - 1 => Pte(n, q) = Pte(m, q)
      BY <2>1 DEF Backs
    <3>4. QED BY <2>3, <3>1, <3>2, <3>3
  <2>5. ASSUME \A q \in Pages(r) : Pte(m, q) = None, Covered(m, d, G)
        PROVE  Covered(k, d, G)
    <3>1. p \notin r[1] .. p - 1
      BY <1>1
    <3>2. Pte(n, p) = Pte(m, p)
      BY <1>1, <2>1, <3>1 DEF Backs
    <3>3. Pte(n, p) = None
      BY <1>1, <2>5, <3>2
    <3>4. Covered(n, d, G)
      BY <2>1, <2>5 DEF Backs
    <3>5. QED BY <2>3, <3>3, <3>4
  <2>6. QED BY <2>2, <2>3, <2>4, <2>5 DEF Backs
<1>5. QED BY <1>2, <1>3, <1>4 DEF BackedTo

\* Backing a range gives every page of it an entry, and leaves the other pages alone.
LEMMA BackRangeKeeps ==
    ASSUME NEW m \in Memory, NEW r \in Mapping, NEW d, NEW G,
           ~m.mixed => Own(m) /\ Apart(m, d, G)
    PROVE  BackedTo(m, BackRange(m, r), r, LastPage(r), d, G)
<1>1. PICK g \in [r[1] - 1 .. LastPage(r) -> Memory] :
         /\ g[r[1] - 1] = m
         /\ \A p \in r[1] .. LastPage(r) : g[p] = BackPage(g[p - 1], r, p)
         /\ BackRange(m, r) = g[LastPage(r)]
  BY BackRangeSteps
<1>2. PICK a, b : a = r[1] - 1 /\ b = LastPage(r)
  OBVIOUS
<1>3. a \in Int /\ b \in Int /\ a <= b /\ r[1] = a + 1 /\ r[1] \in Nat
  BY <1>2, RangeShape
<1> DEFINE S == {p \in a .. b : BackedTo(m, g[p], r, p, d, G)}
<1>4. a \in S
  <2>1. r[1] .. a = {}
    BY <1>3
  <2>2. BackedTo(m, m, r, a, d, G)
    BY <2>1 DEF BackedTo, Backs
  <2>3. QED BY <1>1, <1>2, <1>3, <2>2
<1>5. ASSUME NEW p \in a + 1 .. b, p - 1 \in S
      PROVE  p \in S
  <2>1. p \in r[1] .. LastPage(r) /\ p \in a .. b
    BY <1>2, <1>3
  <2>2. BackedTo(m, g[p - 1], r, p - 1, d, G)
    BY <1>5
  <2>3. g[p] = BackPage(g[p - 1], r, p)
    BY <1>1, <2>1
  <2>4. BackedTo(m, g[p], r, p, d, G)
    BY <2>1, <2>2, <2>3, BackedOn
  <2>5. QED BY <2>1, <2>4
<1>6. b \in S
  <2> HIDE DEF S
  <2>1. QED BY <1>3, <1>4, <1>5, InductionFromTo
<1>7. QED BY <1>1, <1>2, <1>6

\* unback_vmem() goes through memories, one for each page.
LEMMA UnbackRangeSteps ==
    ASSUME NEW m \in Memory, NEW r \in Mapping
    PROVE  \E g \in [r[1] - 1 .. LastPage(r) -> Memory] :
              /\ g[r[1] - 1] = m
              /\ \A p \in r[1] .. LastPage(r) : g[p] = UnbackPage(g[p - 1], r, p)
              /\ UnbackRange(m, r) = g[LastPage(r)]
<1> DEFINE F == [z \in Int \X Memory |-> IF z[1] \in KPage THEN UnbackPage(z[2], r, z[1]) ELSE z[2]]
           Body(g) == [p \in r[1] - 1 .. LastPage(r) |->
                          IF p < r[1] THEN m ELSE UnbackPage(g[p - 1], r, p)]
           U == CHOOSE g : g = Body(g)
<1>1. PICK a, b : a = r[1] - 1 /\ b = LastPage(r)
  OBVIOUS
<1>2. /\ a \in Int /\ b \in Int /\ a <= b /\ r[1] = a + 1
      /\ \A p \in a + 1 .. b : p \in KPage /\ p - 1 \in a .. b /\ ~(p < a + 1)
      /\ \A p \in a .. b : p < a + 1 <=> p = a
  BY <1>1, RangeShape
<1>3. F \in [Int \X Memory -> Memory]
  <2>1. ASSUME NEW z \in Int \X Memory
        PROVE  (IF z[1] \in KPage THEN UnbackPage(z[2], r, z[1]) ELSE z[2]) \in Memory
    BY UnbackPageLeaves
  <2>2. QED BY <2>1
<1>4. PICK g \in [a .. b -> Memory] : g[a] = m /\ \A i \in a + 1 .. b : g[i] = F[<<i, g[i - 1]>>]
  <2> HIDE DEF F
  <2>1. Iterations(Memory, m, F, a, b) # {}
    BY <1>2, <1>3, IterationExists
  <2>2. QED BY <2>1 DEF Iterations
<1>5. \A i \in a + 1 .. b : g[i] = UnbackPage(g[i - 1], r, i)
  <2>1. ASSUME NEW i \in a + 1 .. b
        PROVE  g[i] = UnbackPage(g[i - 1], r, i)
    <3>1. i \in KPage /\ i - 1 \in a .. b /\ i \in Int
      BY <1>2
    <3>2. <<i, g[i - 1]>> \in Int \X Memory
      BY <3>1
    <3>3. QED BY <1>4, <3>1, <3>2
  <2>2. QED BY <2>1
<1>6. g = Body(g)
  <2>1. \A p \in a .. b : g[p] = IF p < a + 1 THEN m ELSE UnbackPage(g[p - 1], r, p)
    <3>1. ASSUME NEW p \in a .. b
          PROVE  g[p] = IF p < a + 1 THEN m ELSE UnbackPage(g[p - 1], r, p)
      <4>1. CASE p = a
        BY <1>2, <1>4, <4>1
      <4>2. CASE p # a
        <5>1. p \in a + 1 .. b
          BY <1>2, <4>2
        <5>2. QED BY <1>2, <1>5, <5>1
      <4>3. QED BY <4>1, <4>2
    <3>2. QED BY <3>1
  <2>2. QED BY <1>1, <1>2, <2>1
<1>7. UnbackRange(m, r) = U[b]
  BY <1>1 DEF UnbackRange
<1>8. U = Body(U)
  <2> HIDE DEF Body
  <2>1. QED BY <1>6, Zenon
<1> HIDE DEF U
<1>9. /\ U = [p \in a .. b |-> U[p]] /\ U[a] = m
      /\ \A p \in a + 1 .. b : U[p] = UnbackPage(U[p - 1], r, p)
  <2>1. U = [p \in a .. b |-> IF p < a + 1 THEN m ELSE UnbackPage(U[p - 1], r, p)]
    BY <1>1, <1>2, <1>8
  <2>2. U[a] = m
    BY <1>2, <2>1
  <2>3. ASSUME NEW p \in a + 1 .. b
        PROVE  U[p] = UnbackPage(U[p - 1], r, p)
    <3>1. p \in a .. b /\ ~(p < a + 1)
      BY <1>2
    <3>2. QED BY <2>1, <3>1
  <2>4. U = [p \in a .. b |-> U[p]]
    BY <2>1
  <2>5. QED BY <2>2, <2>3, <2>4
<1>10. \A p \in a .. b : U[p] \in Memory
  <2> DEFINE S == {p \in a .. b : U[p] \in Memory}
  <2>1. a \in S
    BY <1>2, <1>9
  <2>2. ASSUME NEW p \in a + 1 .. b, p - 1 \in S
        PROVE  p \in S
    <3>1. p \in KPage /\ U[p - 1] \in Memory /\ p \in a .. b
      BY <1>2, <2>2
    <3>2. UnbackPage(U[p - 1], r, p) \in Memory
      BY <3>1, UnbackPageLeaves
    <3>3. QED BY <1>9, <3>1, <3>2
  <2> HIDE DEF S
  <2>3. ASSUME NEW p \in a .. b
        PROVE  p \in S
    <3>1. p \in Int /\ a <= p /\ \A q \in a + 1 .. p : q \in a + 1 .. b
      BY <1>2
    <3>2. \A q \in a + 1 .. p : q - 1 \in S => q \in S
      BY <2>2, <3>1
    <3>3. QED BY <1>2, <2>1, <3>1, <3>2, InductionFromTo
  <2>4. QED BY <2>3 DEF S
<1>11. U \in [a .. b -> Memory]
  BY <1>9, <1>10
<1>12. QED BY <1>1, <1>2, <1>7, <1>9, <1>11

\* The pages of r up to p have been unbacked, if no table was mixed up.
Unbacks(m, n, r, p, d, G) ==
    /\ Own(n) /\ n.state = m.state
    /\ \A q \in KPage : /\ q \in r[1] .. p => Pte(n, q) = None
                        /\ q \notin r[1] .. p => Pte(n, q) = Pte(m, q)
    /\ Apart(n, d, G)
    /\ Covered(m, d, G) => Covered(n, d, G)

\* The memory n follows from m by unbacking the pages of r up to p.
UnbackedTo(m, n, r, p, d, G) ==
    /\ n \in Memory /\ n.live = m.live /\ n.user = m.user
    /\ m.mixed => n.mixed
    /\ ~n.mixed => Unbacks(m, n, r, p, d, G)

\* The next page is unbacked.
LEMMA UnbackedOn ==
    ASSUME NEW m, NEW n, NEW k, NEW r \in Mapping, NEW p \in r[1] .. LastPage(r), NEW d, NEW G,
           UnbackedTo(m, n, r, p - 1, d, G), k = UnbackPage(n, r, p),
           ~m.mixed => \A q \in Pages(r) : Pte(m, q) # None
    PROVE  UnbackedTo(m, k, r, p, d, G)
<1>1. /\ r[1] \in Nat /\ p \in Int /\ r[1] <= p /\ p \in KPage /\ p \in Pages(r)
      /\ KPage \subseteq Nat
  <2>1. /\ r[1] \in Nat /\ LastPage(r) \in Int /\ Pages(r) = r[1] .. LastPage(r)
        /\ \A q \in r[1] .. LastPage(r) : q \in KPage
    BY RangeShape
  <2>2. KPage \subseteq Nat
    BY KMemAssumption DEF KPage
  <2>3. QED BY <2>1, <2>2
<1>2. n \in Memory /\ n.live = m.live /\ n.user = m.user /\ (m.mixed => n.mixed)
  BY DEF UnbackedTo
<1>3. k \in Memory /\ k.live = n.live /\ k.user = n.user /\ (n.mixed => k.mixed)
  BY <1>1, <1>2, UnbackPageLeaves
<1>4. ASSUME ~k.mixed PROVE Unbacks(m, k, r, p, d, G)
  <2>1. Unbacks(m, n, r, p - 1, d, G) /\ ~m.mixed
    BY <1>2, <1>3, <1>4 DEF UnbackedTo
  <2>2. Own(n) /\ n.state = m.state /\ Apart(n, d, G)
    BY <2>1 DEF Unbacks
  <2>3. Pte(n, p) # None
    <3>1. p \notin r[1] .. p - 1
      BY <1>1
    <3>2. Pte(n, p) = Pte(m, p)
      BY <1>1, <2>1, <3>1 DEF Unbacks
    <3>3. QED BY <1>1, <2>1, <3>2
  <2>4. /\ Own(k) /\ k.state = n.state
        /\ Pte(k, p) = None
        /\ \A q \in KPage : q # p => Pte(k, q) = Pte(n, q)
        /\ Apart(k, d, G)
        /\ Covered(n, d, G) => Covered(k, d, G)
    BY <1>1, <1>2, <2>2, <2>3, UnbackPageKeeps
  <2>5. ASSUME NEW q \in KPage
        PROVE  /\ q \in r[1] .. p => Pte(k, q) = None
               /\ q \notin r[1] .. p => Pte(k, q) = Pte(m, q)
    <3>1. q \in r[1] .. p <=> q = p \/ q \in r[1] .. p - 1
      BY <1>1
    <3>2. q = p => q \notin r[1] .. p - 1
      BY <1>1
    <3>3. /\ q \in r[1] .. p - 1 => Pte(n, q) = None
          /\ q \notin r[1] .. p - 1 => Pte(n, q) = Pte(m, q)
      BY <2>1 DEF Unbacks
    <3>4. QED BY <2>4, <3>1, <3>2, <3>3
  <2>6. Covered(m, d, G) => Covered(k, d, G)
    BY <2>1, <2>4 DEF Unbacks
  <2>7. QED BY <2>2, <2>4, <2>5, <2>6 DEF Unbacks
<1>5. QED BY <1>2, <1>3, <1>4 DEF UnbackedTo

\* Unbacking a range takes the entries of its pages, and leaves the other pages alone.
LEMMA UnbackRangeKeeps ==
    ASSUME NEW m \in Memory, NEW r \in Mapping, NEW d, NEW G,
           ~m.mixed => /\ Own(m) /\ Apart(m, d, G)
                       /\ \A q \in Pages(r) : Pte(m, q) # None
    PROVE  UnbackedTo(m, UnbackRange(m, r), r, LastPage(r), d, G)
<1>1. PICK g \in [r[1] - 1 .. LastPage(r) -> Memory] :
         /\ g[r[1] - 1] = m
         /\ \A p \in r[1] .. LastPage(r) : g[p] = UnbackPage(g[p - 1], r, p)
         /\ UnbackRange(m, r) = g[LastPage(r)]
  BY UnbackRangeSteps
<1>2. PICK a, b : a = r[1] - 1 /\ b = LastPage(r)
  OBVIOUS
<1>3. a \in Int /\ b \in Int /\ a <= b /\ r[1] = a + 1 /\ r[1] \in Nat
  BY <1>2, RangeShape
<1> DEFINE S == {p \in a .. b : UnbackedTo(m, g[p], r, p, d, G)}
<1>4. a \in S
  <2>1. r[1] .. a = {}
    BY <1>3
  <2>2. UnbackedTo(m, m, r, a, d, G)
    BY <2>1 DEF UnbackedTo, Unbacks
  <2>3. QED BY <1>1, <1>2, <1>3, <2>2
<1>5. ASSUME NEW p \in a + 1 .. b, p - 1 \in S
      PROVE  p \in S
  <2>1. p \in r[1] .. LastPage(r) /\ p \in a .. b
    BY <1>2, <1>3
  <2>2. UnbackedTo(m, g[p - 1], r, p - 1, d, G)
    BY <1>5
  <2>3. g[p] = UnbackPage(g[p - 1], r, p)
    BY <1>1, <2>1
  <2>4. UnbackedTo(m, g[p], r, p, d, G)
    BY <2>1, <2>2, <2>3, UnbackedOn
  <2>5. QED BY <2>1, <2>4
<1>6. b \in S
  <2> HIDE DEF S
  <2>1. QED BY <1>3, <1>4, <1>5, InductionFromTo
<1>7. QED BY <1>1, <1>2, <1>6

--------------------------------------------------------------------------------
(* kmmap() *)

\* The mappings have no page in common, and their pages are those with an entry.
Live(m) ==
    /\ Own(m)
    /\ \A r, s \in m.live : r # s => Pages(r) \cap Pages(s) = {}
    /\ \A p \in KPage : Pte(m, p) # None <=> \E r \in m.live : p \in Pages(r)

\* What holds unless tables were mixed up.
Sound(m, d, G) == m \in Memory /\ (~m.mixed => Live(m) /\ Apart(m, d, G))

\* The frames are where they were while the free ones, the pages and the address spaces are.
LEMMA UsesStay ==
    ASSUME NEW m, NEW n, n.free = m.free, \A p \in KPage : Pte(n, p) = Pte(m, p),
           n.user = m.user, NEW d, NEW G
    PROVE  /\ Apart(m, d, G) => Apart(n, d, G)
           /\ Covered(m, d, G) => Covered(n, d, G)
<1>1. \A x, f : Has(n, d, x, f) <=> Has(m, d, x, f)
  BY DEF Has
<1>2. Apart(m, d, G) => Apart(n, d, G)
  BY <1>1 DEF Apart
<1>3. Covered(m, d, G) => Covered(n, d, G)
  BY <1>1 DEF Covered
<1>4. QED BY <1>2, <1>3

\* A mapping has a page.
LEMMA MappingHasPage ==
    ASSUME NEW r \in Mapping
    PROVE  r[1] \in Pages(r) /\ Pages(r) \subseteq KPage
<1>1. r[1] \in KPage /\ r[2] \in Nat \ {0} /\ Pages(r) \subseteq KPage
  BY DEF Mapping
<1>2. r[1] \in Nat
  BY <1>1, KMemAssumption DEF KPage
<1>3. QED BY <1>1, <1>2 DEF Pages

\* kmmap() of pages that are not mapped backs them.
LEMMA MappedKeeps ==
    ASSUME NEW m, NEW d, NEW G, Sound(m, d, G), NEW r \in Mapping, Pages(r) \subseteq Unmapped(m),
           NEW n, n = Mapped(m, r)
    PROVE  /\ Sound(n, d, G) /\ n.user = m.user /\ (m.mixed => n.mixed)
           /\ ~n.mixed => n.state = m.state /\ (Covered(m, d, G) => Covered(n, d, G))
<1>1. PICK k : k = [m EXCEPT !.live = @ \cup {r}]
  OBVIOUS
<1>2. m \in Memory
  BY DEF Sound
<1>3. /\ k \in Memory /\ k.free = m.free /\ k.dir = m.dir /\ k.tables = m.tables
      /\ k.offset = m.offset /\ k.mixed = m.mixed /\ k.user = m.user
      /\ k.state = m.state /\ k.live = m.live \cup {r}
  BY <1>1, <1>2 DEF Memory
<1>4. \A q \in KPage : Pte(k, q) = Pte(m, q)
  BY <1>3, PteStays
<1>5. ~m.mixed => Own(k) /\ Apart(k, d, G)
  <2>1. ASSUME ~m.mixed PROVE Own(k)
    <3>1. Own(m)
      BY <2>1 DEF Sound, Live
    <3>2. k.state # "astray"
      BY <1>3, <3>1 DEF Own
    <3>3. QED BY <1>3, <3>1, <3>2, PteStays
  <2>2. ~m.mixed => Apart(k, d, G)
    BY <1>3, <1>4, UsesStay DEF Sound
  <2>3. QED BY <2>1, <2>2
<1>6. n = BackRange(k, r)
  BY <1>1 DEF Mapped
<1>7. BackedTo(k, n, r, LastPage(r), d, G)
  BY <1>3, <1>5, <1>6, BackRangeKeeps
<1>8. n \in Memory /\ n.live = m.live \cup {r} /\ n.user = m.user /\ (m.mixed => n.mixed)
  BY <1>3, <1>7 DEF BackedTo
<1>9. ASSUME ~n.mixed
      PROVE  /\ Live(n) /\ Apart(n, d, G) /\ n.state = m.state
             /\ Covered(m, d, G) => Covered(n, d, G)
  <2>1. Live(m) /\ Apart(m, d, G) /\ Backs(k, n, r, LastPage(r), d, G)
    BY <1>7, <1>8, <1>9 DEF Sound, BackedTo
  <2>2. Pages(r) = r[1] .. LastPage(r)
    BY RangeShape
  <2>3. \A s \in m.live : Pages(r) \cap Pages(s) = {}
    BY DEF Unmapped
  <2>4. \A q \in Pages(r) : q \in KPage /\ Pte(m, q) = None
    BY <2>1, <2>3, MappingHasPage DEF Live
  <2>5. Live(n)
    <3>1. \A s, t \in n.live : s # t => Pages(s) \cap Pages(t) = {}
      BY <1>8, <2>1, <2>3 DEF Live
    <3>2. ASSUME NEW p \in KPage
          PROVE  Pte(n, p) # None <=> \E s \in n.live : p \in Pages(s)
      <4>1. CASE p \in Pages(r)
        BY <1>8, <2>1, <2>2, <4>1 DEF Backs
      <4>2. CASE p \notin Pages(r)
        <5>1. Pte(n, p) = Pte(m, p)
          BY <1>4, <2>1, <2>2, <4>2 DEF Backs
        <5>2. QED BY <1>8, <2>1, <4>2, <5>1 DEF Live
      <4>3. QED BY <4>1, <4>2
    <3>3. Own(n)
      BY <2>1 DEF Backs
    <3>4. QED BY <3>1, <3>2, <3>3 DEF Live
  <2>6. ASSUME Covered(m, d, G) PROVE Covered(n, d, G)
    <3>1. Covered(k, d, G)
      BY <1>3, <1>4, <2>6, UsesStay
    <3>2. \A q \in Pages(r) : Pte(k, q) = None
      BY <1>4, <2>4
    <3>3. QED BY <2>1, <3>1, <3>2 DEF Backs
  <2>7. QED BY <1>3, <2>1, <2>5, <2>6 DEF Backs
<1>10. QED BY <1>8, <1>9 DEF Sound

--------------------------------------------------------------------------------
(* A page of a process *)

\* Address spaces of which the last one changed.
LEMMA LastSpace ==
    ASSUME NEW s \in Seq(Space), s # << >>, NEW sp \in Space, NEW t,
           t = [s EXCEPT ![Len(s)] = sp]
    PROVE  /\ t \in Seq(Space) /\ Len(t) = Len(s) /\ t[Len(s)] = sp
           /\ \A i \in 1 .. Len(s) : i # Len(s) => t[i] = s[i]
           /\ Len(s) \in 1 .. Len(s) /\ s[Len(s)] \in Space
           /\ DOMAIN s = 1 .. Len(s) /\ DOMAIN t = 1 .. Len(s)
<1>1. Len(s) \in Nat /\ DOMAIN s = 1 .. Len(s) /\ Len(s) # 0
  BY EmptySeq, LenProperties
<1>2. Len(s) \in 1 .. Len(s)
  BY <1>1
<1>3. /\ t \in Seq(Space) /\ Len(t) = Len(s)
      /\ \A j \in 1 .. Len(s) : t[j] = IF j = Len(s) THEN sp ELSE s[j]
  BY <1>2, ExceptSeq
<1>4. s[Len(s)] \in Space /\ DOMAIN t = 1 .. Len(t)
  BY <1>2, <1>3, ElementOfSeq, LenProperties
<1>5. QED BY <1>1, <1>2, <1>3, <1>4

\* What a page is backed by.
LEMMA PteIs ==
    ASSUME NEW m \in Memory, NEW p \in KPage
    PROVE  Pte(m, p) \in PageEntry
<1>1. None \in PageEntry
  BY DEF PageEntry
<1>2. CASE m.dir[p \div Radix] # None
  <2>1. m.dir[p \div Radix] \in RepoFrame /\ p % Radix \in Index
    BY <1>2, PlaceOf, MemoryShape
  <2>2. EntryAt(m, p) \in Entry
    BY <2>1, MemoryShape DEF EntryAt
  <2>3. EntryAt(m, p).frame \in PageEntry
    BY <2>2 DEF Entry
  <2>4. QED BY <1>1, <2>3 DEF Pte
<1>3. CASE m.dir[p \div Radix] = None
  BY <1>1, <1>3 DEF Pte
<1>4. QED BY <1>2, <1>3

\* The mappings are what they were while the tables are.
LEMMA LiveStays ==
    ASSUME NEW m, NEW n, n.live = m.live, n.dir = m.dir, n.tables = m.tables,
           n.offset = m.offset, n.state # "astray", Live(m)
    PROVE  Live(n)
<1>1. Own(n) /\ \A p \in KPage : Pte(n, p) = Pte(m, p)
  BY PteStays DEF Live
<1>2. QED BY <1>1 DEF Live

\* The memory n follows from m by giving entries to the pages in X of the last process.
Grown(m, n, X, d, G) ==
    /\ Sound(n, d, G) /\ (m.mixed => n.mixed)
    /\ Len(n.user) = Len(m.user)
    /\ \A i \in 1 .. Len(m.user) : \A v \in UPage :
          i # Len(m.user) \/ v \notin X => n.user[i].pte[v] = m.user[i].pte[v]
    /\ ~n.mixed /\ (\A v \in X : m.user[Len(m.user)].pte[v] = None) /\ Covered(m, d, G) =>
          Covered(n, d, G)

\* A memory follows from itself.
LEMMA GrownNot ==
    ASSUME NEW m, NEW d, NEW G, Sound(m, d, G), NEW X
    PROVE  Grown(m, m, X, d, G)
BY DEF Grown

\* One such step and another one.
LEMMA GrownTwice ==
    ASSUME NEW m \in Memory, NEW n, NEW k, NEW X \in SUBSET UPage, NEW Y \in SUBSET UPage,
           X \cap Y = {}, NEW d, NEW G,
           m.user # << >>, Grown(m, n, X, d, G), Grown(n, k, Y, d, G)
    PROVE  Grown(m, k, X \cup Y, d, G)
<1>1. Len(k.user) = Len(m.user) /\ Sound(k, d, G) /\ (m.mixed => k.mixed)
  BY DEF Grown
<1>2. PICK l : l = Len(m.user) /\ l \in 1 .. l
  <2>1. m.user \in Seq(Space)
    BY MemoryShape
  <2>2. Len(m.user) \in Nat /\ Len(m.user) # 0
    BY <2>1, EmptySeq
  <2>3. QED BY <2>2
<1>3. ASSUME NEW i \in 1 .. l, NEW v \in UPage, i # l \/ v \notin X \cup Y
      PROVE  k.user[i].pte[v] = m.user[i].pte[v]
  <2>1. n.user[i].pte[v] = m.user[i].pte[v]
    BY <1>2, <1>3 DEF Grown
  <2>2. k.user[i].pte[v] = n.user[i].pte[v]
    BY <1>2, <1>3 DEF Grown
  <2>3. QED BY <2>1, <2>2
<1>4. ASSUME ~k.mixed, \A v \in X \cup Y : m.user[l].pte[v] = None, Covered(m, d, G)
      PROVE  Covered(k, d, G)
  <2>0. ~n.mixed
    BY <1>4 DEF Grown
  <2>1. Covered(n, d, G)
    BY <1>2, <1>4, <2>0 DEF Grown
  <2>2. \A v \in Y : n.user[l].pte[v] = None
    <3>1. \A v \in Y : v \in UPage /\ v \notin X
      OBVIOUS
    <3>2. \A v \in Y : n.user[l].pte[v] = m.user[l].pte[v]
      BY <1>2, <3>1 DEF Grown
    <3>3. QED BY <1>4, <3>2
  <2>3. Len(n.user) = l
    BY <1>2 DEF Grown
  <2>4. QED BY <1>4, <2>1, <2>2, <2>3 DEF Grown
<1>5. QED BY <1>1, <1>2, <1>3, <1>4 DEF Grown

\* The last address space.
LEMMA LastIs ==
    ASSUME NEW s \in Seq(Space), s # << >>
    PROVE  s[Len(s)] \in Space /\ Len(s) \in 1 .. Len(s)
<1>1. Len(s) \in Nat /\ Len(s) # 0
  BY EmptySeq
<1>2. Len(s) \in 1 .. Len(s)
  BY <1>1
<1>3. QED BY <1>2, ElementOfSeq

\* A memory of which the state changed, and be it that tables were mixed up.
LEMMA StateGrows ==
    ASSUME NEW m, NEW d, NEW G, Sound(m, d, G), NEW n,
           \/ n = [m EXCEPT !.state = "bad_alloc"]
           \/ n = [m EXCEPT !.state = "lost"]
           \/ n = [m EXCEPT !.state = "fault"]
           \/ n = [m EXCEPT !.state = "astray", !.mixed = TRUE]
    PROVE  /\ Grown(m, n, {}, d, G) /\ n.user = m.user
           /\ n.state # "ok"
<1>1. m \in Memory
  BY DEF Sound
<1>2. /\ n \in Memory /\ n.free = m.free /\ n.live = m.live /\ n.dir = m.dir
      /\ n.tables = m.tables /\ n.offset = m.offset /\ n.user = m.user
      /\ m.mixed => n.mixed
      /\ ~n.mixed => n.state # "astray"
      /\ n.state # "ok"
  <2>1. CASE n = [m EXCEPT !.state = "bad_alloc"]
    BY <1>1, <2>1 DEF Memory, State
  <2>2. CASE n = [m EXCEPT !.state = "lost"]
    BY <1>1, <2>2 DEF Memory, State
  <2>3. CASE n = [m EXCEPT !.state = "fault"]
    BY <1>1, <2>3 DEF Memory, State
  <2>4. CASE n = [m EXCEPT !.state = "astray", !.mixed = TRUE]
    BY <1>1, <2>4 DEF Memory, State
  <2>5. QED BY <2>1, <2>2, <2>3, <2>4
<1>3. \A p \in KPage : Pte(n, p) = Pte(m, p)
  BY <1>2, PteStays
<1>4. ASSUME ~n.mixed
      PROVE  Live(n) /\ Apart(n, d, G) /\ (Covered(m, d, G) => Covered(n, d, G))
  <2>1. Live(m) /\ Apart(m, d, G)
    BY <1>2, <1>4 DEF Sound
  <2>2. Live(n)
    BY <1>2, <1>4, <2>1, LiveStays
  <2>3. QED BY <1>2, <1>3, <2>1, <2>2, UsesStay
<1>5. QED BY <1>2, <1>4 DEF Grown, Sound

\* A table of the last process is noted where it lies, unless its entry is not its frame.
LEMMA PutTableGrows ==
    ASSUME NEW m, NEW d, NEW G, Sound(m, d, G), m.user # << >>, NEW r,
           NEW slot \in TableId, NEW page \in KPage, NEW n, n = PutTable(m, r, slot, page)
    PROVE  Grown(m, n, {}, d, G)
<1>1. CASE n = m
  BY <1>1, GrownNot
<1>2. CASE \/ n = [m EXCEPT !.state = "lost"]
           \/ n = [m EXCEPT !.state = "astray", !.mixed = TRUE]
  BY <1>2, StateGrows
<1>3. ASSUME m.state = "ok",
             n = [m EXCEPT !.user[Len(m.user)].tables = @ \cup {<<slot, page, Pte(m, page)>>}]
      PROVE  Grown(m, n, {}, d, G)
  <2>1. PICK s, l, x, sp : /\ s = m.user /\ l = Len(s) /\ x = <<slot, page, Pte(m, page)>>
                           /\ sp = [s[l] EXCEPT !.tables = @ \cup {x}]
    OBVIOUS
  <2>2. m \in Memory /\ s \in Seq(Space) /\ s # << >> /\ s[l] \in Space
    BY <2>1, MemoryShape, LastIs DEF Sound
  <2>3. x \in TableId \X KPage \X PageEntry
    BY <2>1, <2>2, PteIs
  <2>4. sp \in Space /\ sp.cr3 = s[l].cr3 /\ sp.pte = s[l].pte
    BY <2>1, <2>2, <2>3 DEF Space
  <2>5. PICK t : t = [s EXCEPT ![l] = sp]
    OBVIOUS
  <2>6. n = [m EXCEPT !.user = t]
    BY <1>3, <2>1, <2>5
  <2>7. /\ t \in Seq(Space) /\ Len(t) = l /\ t[l] = sp
        /\ \A i \in 1 .. l : i # l => t[i] = s[i]
        /\ DOMAIN s = 1 .. l /\ DOMAIN t = 1 .. l
    BY <2>1, <2>2, <2>4, <2>5, LastSpace
  <2>8. /\ n \in Memory /\ n.free = m.free /\ n.user = t /\ n.live = m.live
        /\ n.dir = m.dir /\ n.tables = m.tables /\ n.offset = m.offset
        /\ n.mixed = m.mixed /\ n.state = "ok"
    BY <1>3, <2>2, <2>6, <2>7 DEF Memory
  <2>9. \A i \in 1 .. l : t[i].cr3 = s[i].cr3 /\ t[i].pte = s[i].pte
    BY <2>4, <2>7
  <2>10. \A p \in KPage : Pte(n, p) = Pte(m, p)
    BY <2>8, PteStays
  <2>11. \A y, f : Has(n, d, y, f) <=> Has(m, d, y, f)
    BY <2>1, <2>7, <2>8, <2>9, <2>10 DEF Has
  <2>12. Live(m) => Live(n)
    BY <2>8, LiveStays
  <2>13. Sound(n, d, G)
    BY <2>8, <2>11, <2>12 DEF Sound, Apart
  <2>14. Covered(m, d, G) => Covered(n, d, G)
    BY <2>8, <2>11 DEF Covered
  <2>15. QED BY <2>1, <2>7, <2>8, <2>9, <2>13, <2>14 DEF Grown
<1>4. QED BY <1>1, <1>2, <1>3 DEF PutTable

\* A table that is missing comes from kmmap().
LEMMA TableGrows ==
    ASSUME NEW m, NEW d, NEW G, Sound(m, d, G), m.user # << >>, NEW r,
           NEW slot \in TableId, NEW n, n = Table(m, r, slot)
    PROVE  Grown(m, n, {}, d, G)
<1>1. CASE n = m
  BY <1>1, GrownNot
<1>2. CASE n = [m EXCEPT !.state = "bad_alloc"]
  BY <1>2, StateGrows
<1>3. ASSUME Unmapped(m) # {},
             n = PutTable(Mapped(m, <<Least(Unmapped(m)), 1>>), r, slot, Least(Unmapped(m)))
      PROVE  Grown(m, n, {}, d, G)
  <2>1. PICK page, one, k : /\ page = Least(Unmapped(m)) /\ one = <<page, 1>>
                            /\ k = Mapped(m, one)
    OBVIOUS
  <2>2. page \in Unmapped(m)
    <3>1. Unmapped(m) \in SUBSET Nat
      BY KMemAssumption DEF Unmapped, KPage
    <3>2. \E x \in Unmapped(m) : \A y \in Unmapped(m) : x <= y
      BY <1>3, <3>1, LeastOfNat
    <3>3. Least(Unmapped(m)) \in Unmapped(m)
      BY <3>2, Zenon DEF Least
    <3>4. QED BY <2>1, <3>3
  <2>3. page \in KPage /\ page \in Nat
    BY <2>2, KMemAssumption DEF Unmapped, KPage
  <2>4. one \in Mapping /\ Pages(one) \subseteq Unmapped(m)
    <3>1. one[1] = page /\ one[2] = 1 /\ one \in KPage \X (Nat \ {0})
      BY <2>1, <2>3
    <3>2. Pages(one) = {page}
      BY <2>3, <3>1 DEF Pages
    <3>3. QED BY <2>2, <2>3, <3>1, <3>2 DEF Mapping
  <2>5. /\ Sound(k, d, G) /\ k.user = m.user /\ (m.mixed => k.mixed)
        /\ ~k.mixed => (Covered(m, d, G) => Covered(k, d, G))
    BY <2>1, <2>4, MappedKeeps
  <2>6. n = PutTable(k, r, slot, page)
    BY <1>3, <2>1
  <2>7. Grown(k, n, {}, d, G)
    BY <2>3, <2>5, <2>6, PutTableGrows
  <2>8. QED BY <2>5, <2>7 DEF Grown
<1>4. QED BY <1>1, <1>2, <1>3 DEF Table, NewTable

\* The entry of a page is written, with a frame or none.
LEMMA PutUserPageGrows ==
    ASSUME NEW m, NEW d, NEW G, Sound(m, d, G), m.user # << >>,
           NEW u \in UPage, NEW n, n = PutUserPage(m, u)
    PROVE  Grown(m, n, {u}, d, G)
<1>0. m \in Memory
  BY DEF Sound
<1>1. CASE m.state # "ok"
  <2>1. n = m
    BY <1>1 DEF PutUserPage
  <2>2. QED BY <2>1, GrownNot
<1>2. CASE m.state = "ok"
  <2>1. PICK f, s, l, sp : /\ f = NextFrame(m) /\ s = m.user /\ l = Len(s)
                           /\ sp = [s[l] EXCEPT !.pte[u] = f]
    OBVIOUS
  <2>2. f \in PageEntry
    BY <1>0, <2>1, NextFrameIs
  <2>3. s \in Seq(Space) /\ s # << >> /\ s[l] \in Space /\ l \in 1 .. l
    BY <1>0, <2>1, MemoryShape, LastIs
  <2>4. /\ sp \in Space /\ sp.cr3 = s[l].cr3 /\ sp.pte[u] = f
        /\ \A v \in UPage : v # u => sp.pte[v] = s[l].pte[v]
    BY <2>1, <2>2, <2>3 DEF Space
  <2>5. PICK t : t = [s EXCEPT ![l] = sp]
    OBVIOUS
  <2>6. n = [[m EXCEPT !.free = @ \ {f}] EXCEPT !.user = t]
    BY <1>2, <2>1, <2>5 DEF PutUserPage, Taken
  <2>7. /\ t \in Seq(Space) /\ Len(t) = l /\ t[l] = sp
        /\ \A i \in 1 .. l : i # l => t[i] = s[i]
        /\ DOMAIN s = 1 .. l /\ DOMAIN t = 1 .. l
    BY <2>1, <2>3, <2>4, <2>5, LastSpace
  <2>8. /\ n \in Memory /\ n.free = m.free \ {f} /\ n.user = t /\ n.live = m.live
        /\ n.dir = m.dir /\ n.tables = m.tables /\ n.offset = m.offset
        /\ n.mixed = m.mixed /\ n.state = "ok"
    BY <1>0, <1>2, <2>6, <2>7 DEF Memory
  <2>9. \A i \in 1 .. l : /\ t[i].cr3 = s[i].cr3
                          /\ \A v \in UPage : i # l \/ v # u => t[i].pte[v] = s[i].pte[v]
    BY <2>4, <2>7
  <2>10. \A p \in KPage : Pte(n, p) = Pte(m, p)
    BY <2>8, PteStays
  <2>11. ASSUME NEW y, NEW g, Has(n, d, y, g)
         PROVE  Has(m, d, y, g) \/ (y = UserUse(l, u) /\ g = f /\ f \in Frame)
    <3>1. g \in Frame
      BY <2>11 DEF Has
    <3>2. CASE \E p \in KPage : y = KernelUse(p) /\ Pte(n, p) = g
      BY <2>10, <3>1, <3>2 DEF Has
    <3>3. CASE \E i \in DOMAIN n.user : y = TopUse(i) /\ n.user[i].cr3 = g
      BY <2>1, <2>7, <2>8, <2>9, <3>1, <3>3 DEF Has
    <3>4. ASSUME NEW i \in DOMAIN n.user, NEW v \in UPage,
                 y = UserUse(i, v), n.user[i].pte[v] = g
          PROVE  Has(m, d, y, g) \/ (y = UserUse(l, u) /\ g = f /\ f \in Frame)
      <4>1. i \in 1 .. l /\ i \in DOMAIN m.user
        BY <2>1, <2>7, <2>8
      <4>2. CASE i = l /\ v = u
        BY <2>4, <2>7, <2>8, <3>1, <3>4, <4>2
      <4>3. CASE i # l \/ v # u
        <5>1. m.user[i].pte[v] = g
          BY <2>1, <2>8, <2>9, <3>4, <4>1, <4>3
        <5>2. QED BY <3>1, <3>4, <4>1, <5>1 DEF Has
      <4>4. QED BY <4>2, <4>3
    <3>5. CASE y = DriverUse(g) /\ g \in d
      BY <3>1, <3>5 DEF Has
    <3>6. QED BY <2>11, <3>2, <3>3, <3>4, <3>5 DEF Has
  <2>12. ASSUME NEW y, NEW g, Has(m, d, y, g), s[l].pte[u] = None
         PROVE  Has(n, d, y, g)
    BY <2>1, <2>7, <2>8, <2>9, <2>12, <2>10, NoFrames DEF Has
  <2>13. f \in Frame => Has(n, d, UserUse(l, u), f)
    BY <2>3, <2>4, <2>7, <2>8 DEF Has
  <2>14. ASSUME ~m.mixed PROVE Live(n) /\ Apart(m, d, G)
    BY <2>8, <2>14, LiveStays DEF Sound
  <2>15. ASSUME ~m.mixed
         PROVE  Apart(n, d, G) /\ (s[l].pte[u] = None /\ Covered(m, d, G) => Covered(n, d, G))
    <3>0. Apart(m, d, G)
      BY <2>14, <2>15
    <3>1. CASE m.free # {}
      <4>1. f \in m.free /\ f \in Frame
        BY <1>0, <2>1, <3>1, NextFrameIs
      <4>2. PICK x : x = UserUse(l, u)
        OBVIOUS
      <4>3. \A y, g : Has(n, d, y, g) => Has(m, d, y, g) \/ (y = x /\ g = f)
        BY <2>11, <4>2
      <4>4. Takes(m, d, n, d, x, f)
        BY <2>8, <4>1, <4>3 DEF Takes
      <4>5. Apart(n, d, G)
        BY <3>0, <4>4, TakeKeeps
      <4>6. ASSUME s[l].pte[u] = None, Covered(m, d, G) PROVE Covered(n, d, G)
        <5>1. \A y, g : Has(m, d, y, g) => Has(n, d, y, g)
          BY <2>12, <4>6
        <5>2. Has(n, d, UserUse(l, u), f)
          BY <2>13, <4>1
        <5>3. QED BY <2>8, <4>6, <5>1, <5>2 DEF Covered
      <4>7. QED BY <4>5, <4>6
    <3>2. CASE m.free = {}
      <4>1. f = Null /\ n.free = m.free
        BY <1>0, <2>1, <2>8, <3>2, NextFrameIs
      <4>2. \A y, g : Has(n, d, y, g) => Has(m, d, y, g)
        BY <2>11, <4>1, NoFrames
      <4>3. Apart(n, d, G)
        BY <3>0, <4>1, <4>2, SameKeeps
      <4>4. ASSUME s[l].pte[u] = None, Covered(m, d, G) PROVE Covered(n, d, G)
        <5>1. \A y, g : Has(m, d, y, g) => Has(n, d, y, g)
          BY <2>12, <4>4
        <5>2. QED BY <4>1, <4>4, <5>1 DEF Covered
      <4>5. QED BY <4>3, <4>4
    <3>3. QED BY <3>1, <3>2
  <2>16. Sound(n, d, G)
    BY <2>8, <2>14, <2>15 DEF Sound
  <2>17. QED BY <2>1, <2>7, <2>8, <2>9, <2>15, <2>16 DEF Grown
<1>3. QED BY <1>1, <1>2

\* A memory that follows from one with a process has that process.
LEMMA GrownHas ==
    ASSUME NEW m, NEW d, NEW G, Sound(m, d, G), m.user # << >>, NEW n, NEW X,
           Grown(m, n, X, d, G)
    PROVE  Sound(n, d, G) /\ n.user # << >>
<1>1. m \in Memory /\ n \in Memory /\ Sound(n, d, G) /\ Len(n.user) = Len(m.user)
  BY DEF Grown, Sound
<1>2. m.user \in Seq(Space) /\ n.user \in Seq(Space)
  BY <1>1, MemoryShape
<1>3. Len(m.user) # 0
  BY <1>2, EmptySeq
<1>4. n.user # << >>
  BY <1>1, <1>2, <1>3, EmptySeq
<1>5. QED BY <1>1, <1>4

\* back_vmem() of one page: the tables that lead to it, and then its entry.
LEMMA BackUserPageGrows ==
    ASSUME NEW m, NEW d, NEW G, Sound(m, d, G), m.user # << >>, NEW r,
           NEW u \in UPage, NEW n, n = BackUserPage(m, r, u)
    PROVE  Grown(m, n, {u}, d, G)
<1>1. PICK a, b, c : /\ a = Table(m, r, Slot(4, u)) /\ b = Table(a, r, Slot(3, u))
                     /\ c = Table(b, r, Slot(2, u))
  OBVIOUS
<1>2. n = PutUserPage(c, u)
  BY <1>1 DEF BackUserPage
<1>3. Slot(4, u) \in TableId /\ Slot(3, u) \in TableId /\ Slot(2, u) \in TableId
  BY DEF TableId
<1>4. Grown(m, a, {}, d, G)
  BY <1>1, <1>3, TableGrows
<1>5. Sound(a, d, G) /\ a.user # << >>
  BY <1>4, GrownHas
<1>6. Grown(a, b, {}, d, G)
  BY <1>1, <1>3, <1>5, TableGrows
<1>7. Sound(b, d, G) /\ b.user # << >>
  BY <1>5, <1>6, GrownHas
<1>8. Grown(b, c, {}, d, G)
  BY <1>1, <1>3, <1>7, TableGrows
<1>9. Sound(c, d, G) /\ c.user # << >>
  BY <1>7, <1>8, GrownHas
<1>0. m \in Memory /\ a \in Memory /\ b \in Memory
  BY <1>5, <1>7 DEF Sound
<1>10. Grown(c, n, {u}, d, G)
  BY <1>2, <1>9, PutUserPageGrows
<1>11. PICK X, Y : X = {} /\ Y = {u}
  OBVIOUS
<1>12. /\ X \in SUBSET UPage /\ Y \in SUBSET UPage
       /\ X \cap X = {} /\ X \cap Y = {} /\ X \cup X = X /\ X \cup Y = Y
  BY <1>11
<1>13. Grown(b, n, Y, d, G)
  <2>1. Grown(b, n, X \cup Y, d, G)
    BY <1>7, <1>8, <1>10, <1>11, <1>12, <1>0, GrownTwice
  <2>2. QED BY <1>12, <2>1
<1>14. Grown(a, n, Y, d, G)
  <2>1. Grown(a, n, X \cup Y, d, G)
    BY <1>5, <1>6, <1>11, <1>12, <1>13, <1>0, GrownTwice
  <2>2. QED BY <1>12, <2>1
<1>15. Grown(m, n, Y, d, G)
  <2>1. Grown(m, n, X \cup Y, d, G)
    BY <1>4, <1>11, <1>12, <1>14, <1>0, GrownTwice
  <2>2. QED BY <1>12, <2>1
<1>16. QED BY <1>11, <1>15

\* The memories that a process is loaded in.
\* The memories that a process is loaded in.
Loading(d, G) == {m \in Memory : m.user # << >> /\ Sound(m, d, G)}

\* Segments, in pages of a process.
Segment == {r \in UPage \X (Nat \ {0}) : Pages(r) \subseteq UPage}

\* The pages of a segment, one after the other.
LEMMA SegmentShape ==
    ASSUME NEW r \in Segment
    PROVE  /\ r[1] \in Nat /\ r[2] \in Nat \ {0} /\ LastPage(r) \in Int
           /\ r[1] - 1 \in Int /\ r[1] - 1 <= LastPage(r)
           /\ (r[1] - 1) + 1 = r[1]
           /\ Pages(r) = r[1] .. LastPage(r)
           /\ \A p \in r[1] .. LastPage(r) : p \in UPage /\ p - 1 \in r[1] - 1 .. LastPage(r)
<1>1. r[1] \in UPage /\ r[2] \in Nat \ {0} /\ Pages(r) \subseteq UPage
  BY DEF Segment
<1>2. r[1] \in Nat
  BY <1>1, KMemAssumption DEF UPage
<1>3. QED BY <1>1, <1>2 DEF Pages, LastPage

\* Loading goes on with a memory that a process is loaded in.
LEMMA LoadingGoesOn ==
    ASSUME NEW d, NEW G, NEW m \in Loading(d, G), NEW r, NEW u \in UPage
    PROVE  /\ BackUserPage(m, r, u) \in Loading(d, G)
           /\ Grown(m, BackUserPage(m, r, u), {u}, d, G)
<1>1. m.user # << >> /\ Sound(m, d, G)
  BY DEF Loading
<1>2. PICK n : n = BackUserPage(m, r, u)
  OBVIOUS
<1>3. Grown(m, n, {u}, d, G)
  BY <1>1, <1>2, BackUserPageGrows
<1>4. Sound(n, d, G) /\ n.user # << >>
  BY <1>1, <1>3, GrownHas
<1>5. QED BY <1>2, <1>3, <1>4 DEF Loading, Sound

\* back_vmem() of a segment goes through memories, one for each page.
LEMMA BackUserSteps ==
    ASSUME NEW d, NEW G, NEW m \in Loading(d, G), NEW r \in Segment
    PROVE  \E g \in [r[1] - 1 .. LastPage(r) -> Loading(d, G)] :
              /\ g[r[1] - 1] = m
              /\ \A p \in r[1] .. LastPage(r) : g[p] = BackUserPage(g[p - 1], r, p)
              /\ BackUser(m, r) = g[LastPage(r)]
<1>0. PICK L : L = Loading(d, G)
  OBVIOUS
<1> DEFINE F == [z \in Int \X L |-> IF z[1] \in UPage THEN BackUserPage(z[2], r, z[1]) ELSE z[2]]
           Body(g) == [p \in r[1] - 1 .. LastPage(r) |->
                          IF p < r[1] THEN m ELSE BackUserPage(g[p - 1], r, p)]
           U == CHOOSE g : g = Body(g)
<1>1. PICK a, b : a = r[1] - 1 /\ b = LastPage(r)
  OBVIOUS
<1>2. /\ a \in Int /\ b \in Int /\ a <= b /\ r[1] = a + 1
      /\ \A p \in a + 1 .. b : p \in UPage /\ p - 1 \in a .. b /\ ~(p < a + 1)
      /\ \A p \in a .. b : p < a + 1 <=> p = a
  BY <1>1, SegmentShape
<1>3. F \in [Int \X L -> L]
  <2>1. ASSUME NEW z \in Int \X L
        PROVE  (IF z[1] \in UPage THEN BackUserPage(z[2], r, z[1]) ELSE z[2]) \in L
    BY <1>0, LoadingGoesOn
  <2>2. QED BY <2>1
<1>4. PICK g \in [a .. b -> L] : g[a] = m /\ \A i \in a + 1 .. b : g[i] = F[<<i, g[i - 1]>>]
  <2> HIDE DEF F
  <2>1. Iterations(L, m, F, a, b) # {}
    BY <1>0, <1>2, <1>3, IterationExists
  <2>2. QED BY <2>1 DEF Iterations
<1>5. \A i \in a + 1 .. b : g[i] = BackUserPage(g[i - 1], r, i)
  <2>1. ASSUME NEW i \in a + 1 .. b
        PROVE  g[i] = BackUserPage(g[i - 1], r, i)
    <3>1. i \in UPage /\ i - 1 \in a .. b /\ i \in Int
      BY <1>2
    <3>2. <<i, g[i - 1]>> \in Int \X L
      BY <3>1
    <3>3. QED BY <1>4, <3>1, <3>2
  <2>2. QED BY <2>1
<1>6. g = Body(g)
  <2>1. \A p \in a .. b : g[p] = IF p < a + 1 THEN m ELSE BackUserPage(g[p - 1], r, p)
    <3>1. ASSUME NEW p \in a .. b
          PROVE  g[p] = IF p < a + 1 THEN m ELSE BackUserPage(g[p - 1], r, p)
      <4>1. CASE p = a
        BY <1>2, <1>4, <4>1
      <4>2. CASE p # a
        <5>1. p \in a + 1 .. b
          BY <1>2, <4>2
        <5>2. QED BY <1>2, <1>5, <5>1
      <4>3. QED BY <4>1, <4>2
    <3>2. QED BY <3>1
  <2>2. QED BY <1>1, <1>2, <2>1
<1>7. BackUser(m, r) = U[b]
  BY <1>1 DEF BackUser
<1>8. U = Body(U)
  <2> HIDE DEF Body
  <2>1. QED BY <1>6, Zenon
<1> HIDE DEF U
<1>9. /\ U = [p \in a .. b |-> U[p]] /\ U[a] = m
      /\ \A p \in a + 1 .. b : U[p] = BackUserPage(U[p - 1], r, p)
  <2>1. U = [p \in a .. b |-> IF p < a + 1 THEN m ELSE BackUserPage(U[p - 1], r, p)]
    BY <1>1, <1>2, <1>8
  <2>2. U[a] = m
    BY <1>2, <2>1
  <2>3. ASSUME NEW p \in a + 1 .. b
        PROVE  U[p] = BackUserPage(U[p - 1], r, p)
    <3>1. p \in a .. b /\ ~(p < a + 1)
      BY <1>2
    <3>2. QED BY <2>1, <3>1
  <2>4. U = [p \in a .. b |-> U[p]]
    BY <2>1
  <2>5. QED BY <2>2, <2>3, <2>4
<1>10. \A p \in a .. b : U[p] \in L
  <2> DEFINE S == {p \in a .. b : U[p] \in L}
  <2>1. a \in S
    BY <1>0, <1>2, <1>9
  <2>2. ASSUME NEW p \in a + 1 .. b, p - 1 \in S
        PROVE  p \in S
    <3>1. p \in UPage /\ U[p - 1] \in L /\ p \in a .. b
      BY <1>2, <2>2
    <3>2. BackUserPage(U[p - 1], r, p) \in L
      BY <3>1, <1>0, LoadingGoesOn
    <3>3. QED BY <1>9, <3>1, <3>2
  <2> HIDE DEF S
  <2>3. ASSUME NEW p \in a .. b
        PROVE  p \in S
    <3>1. p \in Int /\ a <= p /\ \A q \in a + 1 .. p : q \in a + 1 .. b
      BY <1>2
    <3>2. \A q \in a + 1 .. p : q - 1 \in S => q \in S
      BY <2>2, <3>1
    <3>3. QED BY <1>2, <2>1, <3>1, <3>2, InductionFromTo
  <2>4. QED BY <2>3 DEF S
<1>11. U \in [a .. b -> L]
  BY <1>9, <1>10
<1>12. QED BY <1>0, <1>1, <1>2, <1>7, <1>9, <1>11

\* A segment is loaded by giving entries to its pages.
LEMMA BackUserGrows ==
    ASSUME NEW d, NEW G, NEW m \in Loading(d, G), NEW r \in Segment
    PROVE  Grown(m, BackUser(m, r), Pages(r), d, G)
<1>1. PICK g \in [r[1] - 1 .. LastPage(r) -> Loading(d, G)] :
         /\ g[r[1] - 1] = m
         /\ \A p \in r[1] .. LastPage(r) : g[p] = BackUserPage(g[p - 1], r, p)
         /\ BackUser(m, r) = g[LastPage(r)]
  BY BackUserSteps
<1>2. PICK a, b : a = r[1] - 1 /\ b = LastPage(r)
  OBVIOUS
<1>3. /\ a \in Int /\ b \in Int /\ a <= b /\ r[1] = a + 1 /\ Pages(r) = a + 1 .. b
      /\ \A p \in a + 1 .. b : p \in UPage /\ p - 1 \in a .. b
  BY <1>2, SegmentShape
<1>4. m \in Memory /\ m.user # << >> /\ Sound(m, d, G)
  BY DEF Loading
<1> DEFINE S == {p \in a .. b : Grown(m, g[p], a + 1 .. p, d, G)}
<1>5. a \in S
  <2>1. Grown(m, g[a], a + 1 .. a, d, G)
    BY <1>1, <1>2, <1>4, GrownNot
  <2>2. QED BY <1>3, <2>1
<1>6. ASSUME NEW p \in a + 1 .. b, p - 1 \in S
      PROVE  p \in S
  <2>1. /\ p \in UPage /\ p - 1 \in a .. b /\ p \in a .. b
        /\ p \in r[1] .. LastPage(r)
    BY <1>2, <1>3
  <2>2. g[p - 1] \in Loading(d, G) /\ g[p] = BackUserPage(g[p - 1], r, p)
    BY <1>1, <1>2, <2>1
  <2>3. Grown(g[p - 1], g[p], {p}, d, G)
    BY <2>1, <2>2, LoadingGoesOn
  <2>4. PICK X, Y : X = a + 1 .. p - 1 /\ Y = {p}
    OBVIOUS
  <2>5. Grown(m, g[p - 1], X, d, G)
    BY <1>6, <2>4
  <2>6. /\ X \in SUBSET UPage /\ Y \in SUBSET UPage /\ X \cap Y = {}
        /\ X \cup Y = a + 1 .. p
    <3>1. X \in SUBSET UPage
      <4>1. \A q \in X : q \in a + 1 .. b
        BY <1>3, <2>1, <2>4
      <4>2. QED BY <1>3, <4>1
    <3>2. X \cap Y = {} /\ X \cup Y = a + 1 .. p
      BY <1>3, <2>1, <2>4
    <3>3. QED BY <2>1, <2>4, <3>1, <3>2
  <2>7. Grown(m, g[p], X \cup Y, d, G)
    BY <1>4, <2>3, <2>4, <2>5, <2>6, GrownTwice
  <2>8. QED BY <2>1, <2>6, <2>7
<1>7. b \in S
  <2> HIDE DEF S
  <2>1. QED BY <1>3, <1>5, <1>6, InductionFromTo
<1>8. QED BY <1>1, <1>2, <1>3, <1>7

--------------------------------------------------------------------------------
(* The invariant *)

\* The frames that setup_heap() left.
Given == Frame \ Setup(map)

\* The pages of a process that have an entry are in its segments.
Loaded ==
    \A i \in 1 .. Len(mem.user) : \A v \in UPage :
        mem.user[i].pte[v] # None => \E j \in DOMAIN segs[i] : v \in Pages(segs[i][j])

\* Each process that was begun has an address space, unless there was no frame for it.
Counted ==
    /\ Len(mem.user) <= Len(segs)
    /\ mem.state = "ok" => Len(mem.user) = Len(segs)

\* No process has segments that share a page.
Disjoint == \A i \in DOMAIN segs : ~Overlap(segs[i])

TypeOK ==
    /\ map \in Maps /\ mem \in Memory /\ io \in SUBSET Frame /\ segs \in Seq(Seq(Segment))

IInv ==
    /\ TypeOK
    /\ Sound(mem, io, Given)
    /\ Loaded /\ Counted
    /\ ~mem.mixed /\ Disjoint => Covered(mem, io, Given)

\* It holds at first.
LEMMA InitIInv == Init => IInv
<1> SUFFICES ASSUME Init PROVE IInv
  OBVIOUS
<1>1. /\ map \in Maps /\ io = {} /\ segs = << >>
      /\ mem = [free |-> Frame \ Setup(map), live |-> {}, dir |-> [l \in Large |-> None],
                tables |-> [t \in RepoFrame |->
                              [i \in Index |-> [frame |-> 0, present |-> FALSE]]],
                offset |-> 0, mixed |-> FALSE, user |-> << >>, state |-> "ok"]
  BY DEF Init
<1>2. /\ mem.free = Given /\ mem.live = {} /\ mem.user = << >> /\ mem.state = "ok"
      /\ \A l \in Large : mem.dir[l] = None
      /\ \A t \in RepoFrame, i \in Index : ~mem.tables[t][i].present
  BY <1>1 DEF Given
<1>3. mem \in Memory
  <2>1. [frame |-> 0, present |-> FALSE] \in Entry
    BY KMemAssumption DEF Entry, PageEntry, Frame
  <2>2. << >> \in Seq(Space)
    BY EmptySeq
  <2>3. QED BY <1>1, <2>1, <2>2 DEF Memory, State
<1>4. segs \in Seq(Seq(Segment)) /\ Len(segs) = 0 /\ Len(mem.user) = 0
  BY <1>1, <1>2, EmptySeq
<1>5. DOMAIN mem.user = {}
  BY <1>2
<1>6. \A p \in KPage : Pte(mem, p) = None
  BY <1>2, PlaceOf DEF Pte
<1>7. \A x, f : ~Has(mem, io, x, f)
  BY <1>1, <1>2, <1>5, <1>6, NoFrames DEF Has
<1>8. Apart(mem, io, Given) /\ Covered(mem, io, Given)
  BY <1>2, <1>7 DEF Apart, Covered
<1>9. Live(mem)
  BY <1>2, <1>6 DEF Live, Own
<1>10. Loaded /\ Counted
  BY <1>4 DEF Loaded, Counted
<1>11. QED BY <1>1, <1>3, <1>4, <1>8, <1>9, <1>10 DEF IInv, TypeOK, Sound

\* What stays while the processes do.
LEMMA ProcessesStay ==
    ASSUME IInv, mem.state = "ok", map' = map, segs' = segs, mem'.user = mem.user,
           mem.mixed => mem'.mixed, io' \in SUBSET Frame, Sound(mem', io', Given),
           ~mem'.mixed /\ Covered(mem, io, Given) => Covered(mem', io', Given)
    PROVE  IInv'
<1>1. Given' = Given /\ Disjoint' = Disjoint
  BY DEF Given, Disjoint
<1>2. Loaded' /\ Counted'
  BY DEF IInv, Loaded, Counted
<1>3. TypeOK'
  BY DEF IInv, TypeOK, Sound
<1>4. Sound(mem, io, Given)'
  BY <1>1
<1>5. QED BY <1>1, <1>2, <1>3, <1>4 DEF IInv

\* kmmap() of a process or of the kernel itself.
LEMMA KmmapIInv ==
    ASSUME IInv, mem.state = "ok", NEW r \in Ranges, Kmmap(r)
    PROVE  IInv'
<1>1. /\ Pages(r) \subseteq Unmapped(mem) /\ mem' = Mapped(mem, r)
      /\ map' = map /\ io' = io /\ segs' = segs
  BY DEF Kmmap
<1>2. Sound(mem, io, Given) /\ io \in SUBSET Frame
  BY DEF IInv, TypeOK
<1>3. r \in Mapping
  <2>1. r \in Nat \X (Nat \ {0}) /\ Pages(r) \subseteq KPage
    BY <1>1, KMemAssumption DEF Unmapped
  <2>2. r[1] \in Pages(r)
    BY <2>1 DEF Pages
  <2>3. QED BY <2>1, <2>2 DEF Mapping
<1>4. PICK k, d : k = mem' /\ d = io
  OBVIOUS
<1>5. /\ Sound(k, d, Given) /\ k.user = mem.user /\ (mem.mixed => k.mixed)
      /\ ~k.mixed => (Covered(mem, d, Given) => Covered(k, d, Given))
  BY <1>1, <1>2, <1>3, <1>4, MappedKeeps
<1>6. QED BY <1>1, <1>2, <1>4, <1>5, ProcessesStay

\* kmunmap() of the first pages of a mapping.
LEMMA KmunmapIInv ==
    ASSUME IInv, mem.state = "ok", NEW r \in mem.live, NEW n \in 1 .. r[2], Kmunmap(r, n)
    PROVE  IInv'
<1>1. PICK k, l, rest : /\ rest = (IF n < r[2] THEN {<<r[1] + n, r[2] - n>>} ELSE {})
                        /\ k = [mem EXCEPT !.live = (@ \ {r}) \cup rest]
                        /\ l = UnbackRange(k, <<r[1], n>>)
  OBVIOUS
<1>2. mem' = l /\ map' = map /\ io' = io /\ segs' = segs
  BY <1>1 DEF Kmunmap
<1>3. /\ mem \in Memory /\ io \in SUBSET Frame /\ Sound(mem, io, Given)
      /\ r \in Mapping
  BY MemoryShape DEF IInv, TypeOK
<1>4. PICK b, e : b = r[1] /\ e = r[2]
  OBVIOUS
<1>5. /\ b \in Nat /\ b \in KPage /\ e \in Nat \ {0} /\ n \in Nat \ {0} /\ n <= e
      /\ Pages(r) = b .. b + e - 1 /\ Pages(r) \subseteq KPage
  BY <1>3, <1>4, RangeShape, MappingHasPage DEF Pages, Mapping
<1>6. PICK s : s = <<b, n>>
  OBVIOUS
<1>7. s \in Mapping /\ Pages(s) = b .. b + n - 1 /\ s[1] = b /\ LastPage(s) = b + n - 1
  <2>1. s[1] = b /\ s[2] = n /\ s \in KPage \X (Nat \ {0})
    BY <1>5, <1>6
  <2>2. Pages(s) = b .. b + n - 1 /\ LastPage(s) = b + n - 1
    BY <2>1 DEF Pages, LastPage
  <2>3. Pages(s) \subseteq Pages(r)
    BY <1>5, <2>2
  <2>4. QED BY <1>5, <2>1, <2>2, <2>3 DEF Mapping
<1>8. /\ rest \in SUBSET Mapping
      /\ \A q \in Pages(r) \ Pages(s) : \E t \in rest : q \in Pages(t)
      /\ \A t \in rest : Pages(t) \subseteq Pages(r) \ Pages(s)
      /\ \A t, v \in rest : t = v
  <2>1. CASE n < e
    <3>1. PICK t : t = <<b + n, e - n>>
      OBVIOUS
    <3>2. rest = {t}
      BY <1>1, <1>4, <2>1, <3>1
    <3>3. Pages(t) = b + n .. b + e - 1
      <4>1. t[1] = b + n /\ t[2] = e - n /\ (b + n) + (e - n) - 1 = b + e - 1
        BY <1>5, <3>1
      <4>2. QED BY <4>1 DEF Pages
    <3>4. Pages(t) = Pages(r) \ Pages(s)
      BY <1>5, <1>7, <2>1, <3>3
    <3>5. t \in Mapping
      <4>1. b + n \in Pages(r) /\ e - n \in Nat \ {0}
        BY <1>5, <2>1
      <4>2. t \in KPage \X (Nat \ {0})
        BY <1>5, <3>1, <4>1
      <4>3. QED BY <1>5, <3>4, <4>2 DEF Mapping
    <3>6. QED BY <3>2, <3>4, <3>5
  <2>2. CASE ~(n < e)
    <3>1. rest = {}
      BY <1>1, <1>4, <2>2
    <3>2. n = e
      BY <1>5, <2>2
    <3>3. Pages(r) \ Pages(s) = {}
      BY <1>5, <1>7, <3>2
    <3>4. QED BY <3>1, <3>3
  <2>3. QED BY <2>1, <2>2
<1>9. /\ k \in Memory /\ k.free = mem.free /\ k.dir = mem.dir /\ k.tables = mem.tables
      /\ k.offset = mem.offset /\ k.mixed = mem.mixed /\ k.user = mem.user
      /\ k.state = mem.state /\ k.live = (mem.live \ {r}) \cup rest
  <2>1. (mem.live \ {r}) \cup rest \in SUBSET Mapping
    BY <1>3, <1>8, MemoryShape
  <2>2. QED BY <1>1, <1>3, <2>1 DEF Memory
<1>10. PICK d : d = io
  OBVIOUS
<1>11. \A q \in KPage : Pte(k, q) = Pte(mem, q)
  BY <1>9, PteStays
<1>12. Pages(s) \subseteq Pages(r)
  BY <1>5, <1>7
<1>13. ~mem.mixed => Live(mem) /\ Apart(mem, d, Given)
  BY <1>3, <1>10 DEF Sound
<1>14. ~k.mixed => /\ Own(k) /\ Apart(k, d, Given)
                   /\ \A q \in Pages(s) : Pte(k, q) # None
  <2> SUFFICES ASSUME ~k.mixed
               PROVE  /\ Own(k) /\ Apart(k, d, Given)
                      /\ \A q \in Pages(s) : Pte(k, q) # None
    OBVIOUS
  <2>1. Live(mem) /\ Apart(mem, d, Given)
    BY <1>9, <1>13
  <2>2. Own(k)
    <3>1. Own(mem) /\ k.state # "astray"
      BY <1>9, <2>1 DEF Live, Own
    <3>2. QED BY <1>9, <3>1, PteStays
  <2>3. Apart(k, d, Given)
    BY <1>9, <1>11, <2>1, UsesStay
  <2>4. ASSUME NEW q \in Pages(s) PROVE Pte(k, q) # None
    BY <1>5, <1>11, <1>12, <2>1 DEF Live
  <2>5. QED BY <2>2, <2>3, <2>4
<1>15. UnbackedTo(k, l, s, LastPage(s), d, Given)
  <2>1. l = UnbackRange(k, s)
    BY <1>1, <1>4, <1>6
  <2>2. QED BY <1>7, <1>9, <1>14, <2>1, UnbackRangeKeeps
<1>16. l \in Memory /\ l.live = k.live /\ l.user = k.user /\ (k.mixed => l.mixed)
  BY <1>15 DEF UnbackedTo
<1>17. ASSUME ~l.mixed
       PROVE  /\ Live(l) /\ Apart(l, d, Given)
              /\ Covered(mem, d, Given) => Covered(l, d, Given)
  <2>1. Live(mem)
    BY <1>9, <1>13, <1>16, <1>17
  <2>2. /\ Own(l) /\ Apart(l, d, Given)
        /\ \A q \in KPage : /\ q \in Pages(s) => Pte(l, q) = None
                            /\ q \notin Pages(s) => Pte(l, q) = Pte(mem, q)
        /\ Covered(k, d, Given) => Covered(l, d, Given)
    BY <1>7, <1>11, <1>15, <1>17 DEF UnbackedTo, Unbacks
  <2>3. Covered(mem, d, Given) => Covered(k, d, Given)
    BY <1>9, <1>11, UsesStay
  <2>4. \A t \in mem.live \ {r} : Pages(t) \cap Pages(r) = {}
    BY <2>1 DEF Live
  <2>5. ASSUME NEW t \in l.live, NEW v \in l.live, t # v
        PROVE  Pages(t) \cap Pages(v) = {}
    <3>1. t \in mem.live \ {r} \/ t \in rest
      BY <1>9, <1>16
    <3>2. v \in mem.live \ {r} \/ v \in rest
      BY <1>9, <1>16
    <3>3. CASE t \in mem.live \ {r} /\ v \in mem.live \ {r}
      BY <2>1, <2>5, <3>3 DEF Live
    <3>4. CASE t \in rest /\ v \in rest
      BY <1>8, <2>5, <3>4
    <3>5. CASE t \in mem.live \ {r} /\ v \in rest
      BY <1>8, <2>4, <3>5
    <3>6. CASE t \in rest /\ v \in mem.live \ {r}
      BY <1>8, <2>4, <3>6
    <3>7. QED BY <3>1, <3>2, <3>3, <3>4, <3>5, <3>6
  <2>6. ASSUME NEW q \in KPage
        PROVE  Pte(l, q) # None <=> \E t \in l.live : q \in Pages(t)
    <3>1. CASE q \in Pages(s)
      <4>1. \A t \in l.live : q \notin Pages(t)
        BY <1>8, <1>9, <1>12, <1>16, <2>4, <3>1
      <4>2. QED BY <2>2, <3>1, <4>1
    <3>2. CASE q \in Pages(r) \ Pages(s)
      <4>1. Pte(l, q) = Pte(mem, q)
        BY <2>2, <3>2
      <4>2. Pte(mem, q) # None
        BY <2>1, <3>2 DEF Live
      <4>3. QED BY <1>8, <1>9, <1>16, <3>2, <4>1, <4>2
    <3>3. CASE q \notin Pages(r)
      <4>1. Pte(l, q) = Pte(mem, q)
        BY <1>12, <2>2, <3>3
      <4>2. Pte(mem, q) # None <=> \E t \in mem.live : q \in Pages(t)
        BY <2>1 DEF Live
      <4>3. \A t \in rest : q \notin Pages(t)
        BY <1>8, <3>3
      <4>4. QED BY <1>9, <1>16, <3>3, <4>1, <4>2, <4>3
    <3>4. QED BY <3>1, <3>2, <3>3
  <2>7. Live(l)
    BY <2>2, <2>5, <2>6 DEF Live
  <2>8. QED BY <2>2, <2>3, <2>7
<1>18. Sound(l, d, Given) /\ l.user = mem.user /\ (mem.mixed => l.mixed)
  BY <1>9, <1>16, <1>17 DEF Sound
<1>19. QED BY <1>2, <1>3, <1>10, <1>17, <1>18, ProcessesStay

\* A driver takes a frame.
LEMMA TakeFrameIInv ==
    ASSUME IInv, mem.state = "ok", TakeFrame
    PROVE  IInv'
<1>1. PICK f, n, d, e : f = NextFrame(mem) /\ n = mem' /\ d = io /\ e = io'
  OBVIOUS
<1>2. /\ mem.free # {} /\ n = [mem EXCEPT !.free = @ \ {f}] /\ e = d \cup {f}
      /\ map' = map /\ segs' = segs
  BY <1>1 DEF TakeFrame, Taken
<1>3. mem \in Memory /\ d \in SUBSET Frame /\ Sound(mem, d, Given)
  BY <1>1 DEF IInv, TypeOK
<1>4. f \in mem.free /\ f \in Frame
  BY <1>1, <1>2, <1>3, NextFrameIs
<1>5. /\ n \in Memory /\ n.free = mem.free \ {f} /\ n.live = mem.live
      /\ n.dir = mem.dir /\ n.tables = mem.tables /\ n.offset = mem.offset
      /\ n.mixed = mem.mixed /\ n.user = mem.user /\ n.state = mem.state
  BY <1>2, <1>3 DEF Memory
<1>6. \A p \in KPage : Pte(n, p) = Pte(mem, p)
  BY <1>5, PteStays
<1>7. PICK x : x = DriverUse(f)
  OBVIOUS
<1>8. \A y, g : Has(n, e, y, g) => Has(mem, d, y, g) \/ (y = x /\ g = f)
  BY <1>2, <1>5, <1>6, <1>7 DEF Has
<1>9. ASSUME ~n.mixed PROVE Live(n) /\ Apart(n, e, Given)
  <2>1. Live(mem) /\ Apart(mem, d, Given)
    BY <1>3, <1>5, <1>9 DEF Sound
  <2>2. n.state # "astray"
    BY <1>5
  <2>3. Live(n)
    BY <1>5, <2>1, <2>2, LiveStays
  <2>4. Takes(mem, d, n, e, x, f)
    BY <1>4, <1>5, <1>8 DEF Takes
  <2>5. QED BY <2>1, <2>3, <2>4, TakeKeeps
<1>10. ASSUME Covered(mem, d, Given) PROVE Covered(n, e, Given)
  <2>1. \A y, g : Has(mem, d, y, g) => Has(n, e, y, g)
    BY <1>2, <1>5, <1>6 DEF Has
  <2>2. Has(n, e, x, f)
    BY <1>2, <1>4, <1>7 DEF Has
  <2>3. QED BY <1>5, <1>10, <2>1, <2>2 DEF Covered
<1>11. e \in SUBSET Frame /\ Sound(n, e, Given)
  BY <1>2, <1>3, <1>4, <1>5, <1>9 DEF Sound
<1>12. QED BY <1>1, <1>2, <1>5, <1>10, <1>11, ProcessesStay

\* A driver goes on without one.
LEMMA TakeNoneIInv ==
    ASSUME IInv, mem.state = "ok", TakeNone
    PROVE  IInv'
<1>1. PICK n, d : n = mem' /\ d = io
  OBVIOUS
<1>2. /\ map' = map /\ io' = d /\ segs' = segs
      /\ n = [mem EXCEPT !.state = "ok"] \/ n = [mem EXCEPT !.state = "fault"]
  BY <1>1 DEF TakeNone
<1>3. Sound(mem, d, Given) /\ d \in SUBSET Frame
  BY <1>1 DEF IInv, TypeOK
<1>4. CASE n = [mem EXCEPT !.state = "ok"]
  <2>1. n = mem
    BY <1>3, <1>4 DEF Sound, Memory
  <2>2. QED BY <1>1, <1>2, <1>3, <2>1, ProcessesStay
<1>5. CASE n = [mem EXCEPT !.state = "fault"]
  <2>1. Grown(mem, n, {}, d, Given) /\ n.user = mem.user
    BY <1>3, <1>5, StateGrows
  <2>2. /\ Sound(n, d, Given) /\ (mem.mixed => n.mixed)
        /\ ~n.mixed /\ Covered(mem, d, Given) => Covered(n, d, Given)
    BY <2>1 DEF Grown
  <2>3. QED BY <1>1, <1>2, <1>3, <2>1, <2>2, ProcessesStay
<1>6. QED BY <1>2, <1>4, <1>5

\* A driver gives a frame back.
LEMMA GiveFrameIInv ==
    ASSUME IInv, mem.state = "ok", NEW f \in io, GiveFrame(f)
    PROVE  IInv'
<1>1. PICK n, d, e : n = mem' /\ d = io /\ e = io'
  OBVIOUS
<1>2. mem \in Memory /\ d \in SUBSET Frame /\ Sound(mem, d, Given) /\ f \in Frame
  BY <1>1 DEF IInv, TypeOK
<1>3. /\ n = [mem EXCEPT !.free = @ \cup {f}] /\ e = d \ {f}
      /\ map' = map /\ segs' = segs
  <2>1. {f} \cap Frame = {f}
    BY <1>2
  <2>2. QED BY <1>1, <2>1 DEF GiveFrame, Returned
<1>4. /\ n \in Memory /\ n.free = mem.free \cup {f} /\ n.live = mem.live
      /\ n.dir = mem.dir /\ n.tables = mem.tables /\ n.offset = mem.offset
      /\ n.mixed = mem.mixed /\ n.user = mem.user /\ n.state = mem.state
  BY <1>2, <1>3 DEF Memory
<1>5. \A p \in KPage : Pte(n, p) = Pte(mem, p)
  BY <1>4, PteStays
<1>6. PICK x : x = DriverUse(f)
  OBVIOUS
<1>7. Has(mem, d, x, f)
  BY <1>1, <1>2, <1>6 DEF Has
<1>8. \A y, g : Has(n, e, y, g) => Has(mem, d, y, g) /\ y # x
  <2>1. \A y, g : Has(n, e, y, g) => Has(mem, d, y, g)
    BY <1>3, <1>4, <1>5 DEF Has
  <2>2. \A g : ~Has(n, e, x, g)
    BY <1>3, <1>6, UsesDiffer DEF Has
  <2>3. QED BY <2>1, <2>2
<1>9. ASSUME ~n.mixed PROVE Live(n) /\ Apart(n, e, Given)
  <2>1. Live(mem) /\ Apart(mem, d, Given)
    BY <1>2, <1>4, <1>9 DEF Sound
  <2>2. n.state # "astray"
    BY <1>4
  <2>3. Live(n)
    BY <1>4, <2>1, <2>2, LiveStays
  <2>4. QED BY <1>4, <1>7, <1>8, <2>1, <2>3, GiveKeeps
<1>10. ASSUME Covered(mem, d, Given) PROVE Covered(n, e, Given)
  <2>1. \A y, g : Has(mem, d, y, g) => Has(n, e, y, g) \/ g = f
    BY <1>3, <1>4, <1>5 DEF Has
  <2>2. QED BY <1>4, <1>10, <2>1 DEF Covered
<1>11. e \in SUBSET Frame /\ Sound(n, e, Given)
  BY <1>2, <1>3, <1>4, <1>9 DEF Sound
<1>12. QED BY <1>1, <1>3, <1>4, <1>10, <1>11, ProcessesStay

\* A new address space is the last one, empty, and its top is a frame of its own.
LEMMA NewSpaceShape ==
    ASSUME NEW m \in Memory, m.free # {}, NEW f, f = NextFrame(m), NEW n, n = NewSpace(m)
    PROVE  /\ n \in Memory /\ n.free = m.free \ {f} /\ n.live = m.live
           /\ n.dir = m.dir /\ n.tables = m.tables /\ n.offset = m.offset
           /\ n.mixed = m.mixed /\ n.state = m.state
           /\ Len(n.user) = Len(m.user) + 1 /\ Len(m.user) \in Nat
           /\ DOMAIN n.user = 1 .. Len(m.user) + 1 /\ DOMAIN m.user = 1 .. Len(m.user)
           /\ \A i \in 1 .. Len(m.user) : n.user[i] = m.user[i]
           /\ n.user[Len(m.user) + 1].cr3 = f
           /\ \A v \in UPage : n.user[Len(m.user) + 1].pte[v] = None
<1>1. PICK s, sp : s = m.user /\ sp = [cr3 |-> f, tables |-> {}, pte |-> [u \in UPage |-> None]]
  OBVIOUS
<1>2. f \in Frame
  BY NextFrameIs
<1>3. sp \in Space /\ sp.cr3 = f /\ \A v \in UPage : sp.pte[v] = None
  <2>1. None \in PageEntry
    BY DEF PageEntry
  <2>2. QED BY <1>1, <1>2, <2>1 DEF Space
<1>4. PICK t : t = Append(s, sp)
  OBVIOUS
<1>5. s \in Seq(Space)
  BY <1>1, MemoryShape
<1>6. /\ t \in Seq(Space) /\ Len(t) = Len(s) + 1 /\ Len(s) \in Nat
      /\ DOMAIN s = 1 .. Len(s) /\ DOMAIN t = 1 .. Len(t)
      /\ \A i \in 1 .. Len(s) : t[i] = s[i]
      /\ t[Len(s) + 1] = sp
  <2>1. t \in Seq(Space) /\ Len(t) = Len(s) + 1
    BY <1>3, <1>4, <1>5
  <2>2. Len(s) \in Nat /\ DOMAIN s = 1 .. Len(s) /\ DOMAIN t = 1 .. Len(t)
    BY <1>5, <2>1, LenProperties
  <2>3. \A i \in 1 .. Len(s) : t[i] = s[i]
    BY <1>3, <1>4, <1>5
  <2>4. t[Len(s) + 1] = sp
    BY <1>3, <1>4, <1>5
  <2>5. QED BY <2>1, <2>2, <2>3, <2>4
<1>7. n = [[m EXCEPT !.free = @ \ {f}] EXCEPT !.user = t]
  BY <1>1, <1>4 DEF NewSpace, Taken
<1>8. /\ n \in Memory /\ n.free = m.free \ {f} /\ n.live = m.live /\ n.user = t
      /\ n.dir = m.dir /\ n.tables = m.tables /\ n.offset = m.offset
      /\ n.mixed = m.mixed /\ n.state = m.state
  BY <1>6, <1>7 DEF Memory
<1>9. QED BY <1>1, <1>3, <1>6, <1>8

\* A process without segments comes after the others.
LEMMA SegmentsBegin ==
    ASSUME NEW s \in Seq(Seq(Segment)), NEW t, t = Append(s, << >>)
    PROVE  /\ t \in Seq(Seq(Segment)) /\ Len(t) = Len(s) + 1 /\ Len(s) \in Nat
           /\ DOMAIN s = 1 .. Len(s) /\ DOMAIN t = 1 .. Len(s) + 1
           /\ \A i \in 1 .. Len(s) : t[i] = s[i]
           /\ t[Len(s) + 1] = << >>
<1>1. PICK S, e : S = Seq(Segment) /\ e = << >>
  OBVIOUS
<1>2. e \in S
  BY <1>1, EmptySeq
<1>3. s \in Seq(S) /\ t = Append(s, e)
  BY <1>1
<1>4. t \in Seq(S) /\ Len(t) = Len(s) + 1
  BY <1>2, <1>3
<1>5. Len(s) \in Nat /\ DOMAIN s = 1 .. Len(s) /\ DOMAIN t = 1 .. Len(t)
  BY <1>3, <1>4, LenProperties
<1>6. \A i \in 1 .. Len(s) : t[i] = s[i]
  BY <1>2, <1>3
<1>7. t[Len(s) + 1] = e
  BY <1>2, <1>3
<1>8. QED BY <1>1, <1>4, <1>5, <1>6, <1>7

\* A process begins.
LEMMA StartProcessIInv ==
    ASSUME IInv, mem.state = "ok", StartProcess
    PROVE  IInv'
<1>1. PICK n, d, l : n = mem' /\ d = io /\ l = Len(mem.user)
  OBVIOUS
<1>2. n = NewSpace(mem) /\ segs' = Append(segs, << >>) /\ map' = map /\ io' = d
  BY <1>1 DEF StartProcess
<1>3. /\ mem \in Memory /\ d \in SUBSET Frame /\ Sound(mem, d, Given)
      /\ Len(segs) = l /\ segs \in Seq(Seq(Segment))
  BY <1>1 DEF IInv, TypeOK, Counted
<1>4. /\ segs' \in Seq(Seq(Segment)) /\ Len(segs') = l + 1 /\ l \in Nat
      /\ DOMAIN segs = 1 .. l /\ DOMAIN segs' = 1 .. l + 1
      /\ \A i \in 1 .. l : segs'[i] = segs[i]
      /\ segs'[l + 1] = << >>
  <2>1. PICK s, t : s = segs /\ t = segs'
    OBVIOUS
  <2>2. s \in Seq(Seq(Segment)) /\ t = Append(s, << >>)
    BY <1>2, <1>3, <2>1
  <2>3. /\ t \in Seq(Seq(Segment)) /\ Len(t) = Len(s) + 1 /\ Len(s) \in Nat
        /\ DOMAIN s = 1 .. Len(s) /\ DOMAIN t = 1 .. Len(s) + 1
        /\ \A i \in 1 .. Len(s) : t[i] = s[i]
        /\ t[Len(s) + 1] = << >>
    BY <2>2, SegmentsBegin
  <2>4. QED BY <1>3, <2>1, <2>3
<1>5. Given' = Given
  BY <1>2 DEF Given
<1>6. Disjoint' => Disjoint
  <2>1. \A i \in 1 .. l : i \in 1 .. l + 1
    BY <1>4
  <2>2. QED BY <1>4, <2>1 DEF Disjoint
<1>7. CASE mem.free = {}
  <2>1. n = [mem EXCEPT !.state = "fault"]
    BY <1>2, <1>7 DEF NewSpace
  <2>2. Grown(mem, n, {}, d, Given) /\ n.user = mem.user /\ n.state # "ok"
    BY <1>3, <2>1, StateGrows
  <2>3. /\ Sound(n, d, Given) /\ (mem.mixed => n.mixed)
        /\ ~n.mixed /\ Covered(mem, d, Given) => Covered(n, d, Given)
    BY <2>2 DEF Grown
  <2>4. Loaded'
    BY <1>1, <1>4, <2>2 DEF IInv, Loaded
  <2>5. Counted'
    BY <1>1, <1>4, <2>2 DEF Counted
  <2>6. TypeOK'
    BY <1>1, <1>2, <1>3, <1>4, <2>3 DEF IInv, TypeOK, Sound
  <2>7. Sound(mem, io, Given)'
    BY <1>1, <1>2, <1>5, <2>3
  <2>8. ASSUME ~n.mixed, Disjoint' PROVE Covered(n, d, Given)
    BY <1>1, <1>6, <2>3, <2>8 DEF IInv
  <2>9. QED BY <1>1, <1>2, <1>5, <2>4, <2>5, <2>6, <2>7, <2>8 DEF IInv
<1>8. CASE mem.free # {}
  <2>1. PICK f : f = NextFrame(mem)
    OBVIOUS
  <2>2. /\ n \in Memory /\ n.free = mem.free \ {f} /\ n.live = mem.live
        /\ n.dir = mem.dir /\ n.tables = mem.tables /\ n.offset = mem.offset
        /\ n.mixed = mem.mixed /\ n.state = mem.state
        /\ Len(n.user) = l + 1 /\ DOMAIN n.user = 1 .. l + 1 /\ DOMAIN mem.user = 1 .. l
        /\ \A i \in 1 .. l : n.user[i] = mem.user[i]
        /\ n.user[l + 1].cr3 = f
        /\ \A v \in UPage : n.user[l + 1].pte[v] = None
    BY <1>1, <1>2, <1>3, <1>8, <2>1, NewSpaceShape
  <2>3. f \in mem.free /\ f \in Frame
    BY <1>3, <1>8, <2>1, NextFrameIs
  <2>4. PICK x : x = TopUse(l + 1)
    OBVIOUS
  <2>5. \A i \in 1 .. l + 1 : i \in 1 .. l \/ i = l + 1
    BY <1>4
  <2>6. \A p \in KPage : Pte(n, p) = Pte(mem, p)
    BY <2>2, PteStays
  <2>7. ASSUME NEW y, NEW g, Has(n, d, y, g)
        PROVE  Has(mem, d, y, g) \/ (y = x /\ g = f)
    <3>1. g \in Frame
      BY <2>7 DEF Has
    <3>2. CASE \E p \in KPage : y = KernelUse(p) /\ Pte(n, p) = g
      BY <2>6, <3>1, <3>2 DEF Has
    <3>3. CASE \E i \in DOMAIN n.user : y = TopUse(i) /\ n.user[i].cr3 = g
      BY <2>2, <2>4, <2>5, <3>1, <3>3 DEF Has
    <3>4. CASE \E i \in DOMAIN n.user : \E v \in UPage :
                  y = UserUse(i, v) /\ n.user[i].pte[v] = g
      BY <2>2, <2>5, <3>1, <3>4, NoFrames DEF Has
    <3>5. CASE y = DriverUse(g) /\ g \in d
      BY <3>1, <3>5 DEF Has
    <3>6. QED BY <2>7, <3>2, <3>3, <3>4, <3>5 DEF Has
  <2>8. ASSUME ~n.mixed PROVE Live(n) /\ Apart(n, d, Given)
    <3>1. Live(mem) /\ Apart(mem, d, Given)
      BY <1>3, <2>2, <2>8 DEF Sound
    <3>2. n.state # "astray"
      BY <2>2
    <3>3. Live(n)
      BY <2>2, <3>1, <3>2, LiveStays
    <3>4. Takes(mem, d, n, d, x, f)
      BY <2>2, <2>3, <2>7 DEF Takes
    <3>5. QED BY <3>1, <3>3, <3>4, TakeKeeps
  <2>9. ASSUME Covered(mem, d, Given) PROVE Covered(n, d, Given)
    <3>1. \A i \in 1 .. l : i \in 1 .. l + 1
      BY <1>4
    <3>2. \A y, g : Has(mem, d, y, g) => Has(n, d, y, g)
      BY <2>2, <2>6, <3>1 DEF Has
    <3>3. Has(n, d, x, f)
      <4>1. l + 1 \in 1 .. l + 1
        BY <1>4
      <4>2. QED BY <2>2, <2>3, <2>4, <4>1 DEF Has
    <3>4. QED BY <2>2, <2>9, <3>2, <3>3 DEF Covered
  <2>10. Loaded'
    <3>1. ASSUME NEW i \in 1 .. l + 1, NEW v \in UPage, n.user[i].pte[v] # None
          PROVE  \E j \in DOMAIN segs'[i] : v \in Pages(segs'[i][j])
      <4>1. i \in 1 .. l
        BY <2>2, <2>5, <3>1
      <4>2. mem.user[i].pte[v] # None
        BY <2>2, <3>1, <4>1
      <4>3. \E j \in DOMAIN segs[i] : v \in Pages(segs[i][j])
        BY <1>1, <4>1, <4>2 DEF IInv, Loaded
      <4>4. segs'[i] = segs[i]
        BY <1>4, <4>1
      <4>5. QED BY <4>3, <4>4
    <3>2. QED BY <1>1, <2>2, <3>1 DEF Loaded
  <2>11. Counted'
    BY <1>1, <1>4, <2>2 DEF Counted
  <2>12. TypeOK'
    BY <1>1, <1>2, <1>3, <1>4, <2>2 DEF IInv, TypeOK
  <2>13. Sound(mem, io, Given)'
    BY <1>1, <1>2, <1>5, <2>2, <2>8 DEF Sound
  <2>14. ASSUME ~n.mixed, Disjoint' PROVE Covered(n, d, Given)
    BY <1>1, <1>6, <2>2, <2>9, <2>14 DEF IInv
  <2>15. QED BY <1>1, <1>2, <1>5, <2>10, <2>11, <2>12, <2>13, <2>14 DEF IInv
<1>9. QED BY <1>7, <1>8

\* One more segment of the last process.
LEMMA SegmentAdded ==
    ASSUME NEW s \in Seq(Seq(Segment)), s # << >>, NEW r \in Segment,
           NEW t, t = [s EXCEPT ![Len(s)] = Append(@, r)],
           NEW k, k = Len(s[Len(s)])
    PROVE  /\ t \in Seq(Seq(Segment)) /\ Len(t) = Len(s) /\ Len(s) \in 1 .. Len(s)
           /\ DOMAIN s = 1 .. Len(s) /\ DOMAIN t = 1 .. Len(s)
           /\ \A i \in 1 .. Len(s) : i # Len(s) => t[i] = s[i]
           /\ k \in Nat /\ DOMAIN s[Len(s)] = 1 .. k /\ DOMAIN t[Len(s)] = 1 .. k + 1
           /\ \A j \in 1 .. k : t[Len(s)][j] = s[Len(s)][j]
           /\ t[Len(s)][k + 1] = r
<1>1. PICK S, l, a, b : /\ S = Seq(Segment) /\ l = Len(s) /\ a = s[l] /\ b = Append(a, r)
  OBVIOUS
<1>2. s \in Seq(S) /\ s # << >>
  BY <1>1
<1>3. l \in Nat /\ l # 0 /\ DOMAIN s = 1 .. l
  BY <1>1, <1>2, EmptySeq, LenProperties
<1>4. l \in 1 .. l
  BY <1>3
<1>5. a \in S
  BY <1>1, <1>2, <1>4, ElementOfSeq
<1>6. a \in Seq(Segment) /\ k = Len(a)
  BY <1>1, <1>5
<1>7. b \in Seq(Segment) /\ Len(b) = k + 1
  BY <1>1, <1>6
<1>8. k \in Nat /\ DOMAIN a = 1 .. k /\ DOMAIN b = 1 .. k + 1
  BY <1>6, <1>7, LenProperties
<1>9. (\A j \in 1 .. k : b[j] = a[j]) /\ b[k + 1] = r
  BY <1>1, <1>6
<1>10. b \in S /\ t = [s EXCEPT ![l] = b]
  BY <1>1, <1>7
<1>11. /\ t \in Seq(S) /\ Len(t) = l
       /\ \A j \in 1 .. l : t[j] = IF j = l THEN b ELSE s[j]
  BY <1>1, <1>2, <1>4, <1>10, ExceptSeq
<1>12. DOMAIN t = 1 .. l
  BY <1>11, LenProperties
<1>13. t[l] = b
  BY <1>4, <1>11
<1>14. QED BY <1>1, <1>3, <1>4, <1>8, <1>9, <1>11, <1>12, <1>13

\* A segment is loaded into the last process.
LEMMA LoadSegmentIInv ==
    ASSUME IInv, mem.state = "ok", segs # << >>, NEW r \in Segment, LoadSegment(r)
    PROVE  IInv'
<1>1. PICK n, d, l, k : n = mem' /\ d = io /\ l = Len(segs) /\ k = Len(segs[l])
  OBVIOUS
<1>2. /\ n = BackUser(mem, r) /\ segs' = [segs EXCEPT ![Len(segs)] = Append(@, r)]
      /\ map' = map /\ io' = d
  BY <1>1 DEF LoadSegment
<1>3. /\ mem \in Memory /\ d \in SUBSET Frame /\ Sound(mem, d, Given)
      /\ Len(mem.user) = l /\ segs \in Seq(Seq(Segment))
  BY <1>1 DEF IInv, TypeOK, Counted
<1>4. /\ segs' \in Seq(Seq(Segment)) /\ Len(segs') = l /\ l \in 1 .. l
      /\ DOMAIN segs = 1 .. l /\ DOMAIN segs' = 1 .. l
      /\ \A i \in 1 .. l : i # l => segs'[i] = segs[i]
      /\ k \in Nat /\ DOMAIN segs[l] = 1 .. k /\ DOMAIN segs'[l] = 1 .. k + 1
      /\ \A j \in 1 .. k : segs'[l][j] = segs[l][j]
      /\ segs'[l][k + 1] = r
  <2>1. PICK s, t : s = segs /\ t = segs'
    OBVIOUS
  <2>2. /\ s \in Seq(Seq(Segment)) /\ s # << >> /\ l = Len(s) /\ k = Len(s[Len(s)])
        /\ t = [s EXCEPT ![Len(s)] = Append(@, r)]
    BY <1>1, <1>2, <1>3, <2>1
  <2>3. /\ t \in Seq(Seq(Segment)) /\ Len(t) = Len(s) /\ Len(s) \in 1 .. Len(s)
        /\ DOMAIN s = 1 .. Len(s) /\ DOMAIN t = 1 .. Len(s)
        /\ \A i \in 1 .. Len(s) : i # Len(s) => t[i] = s[i]
        /\ k \in Nat /\ DOMAIN s[Len(s)] = 1 .. k /\ DOMAIN t[Len(s)] = 1 .. k + 1
        /\ \A j \in 1 .. k : t[Len(s)][j] = s[Len(s)][j]
        /\ t[Len(s)][k + 1] = r
    BY <2>2, SegmentAdded
  <2>4. QED BY <2>1, <2>2, <2>3
<1>5. mem \in Loading(d, Given)
  <2>1. mem.user \in Seq(Space) /\ Len(mem.user) # 0
    BY <1>3, <1>4, MemoryShape
  <2>2. mem.user # << >>
    BY <2>1, EmptySeq
  <2>3. QED BY <1>3, <2>2 DEF Loading
<1>6. Grown(mem, n, Pages(r), d, Given)
  BY <1>2, <1>5, BackUserGrows
<1>7. /\ n \in Memory /\ Sound(n, d, Given) /\ Len(n.user) = l
      /\ mem.mixed => n.mixed
      /\ \A i \in 1 .. l : \A v \in UPage :
            i # l \/ v \notin Pages(r) => n.user[i].pte[v] = mem.user[i].pte[v]
      /\ ~n.mixed /\ (\A v \in Pages(r) : mem.user[l].pte[v] = None)
             /\ Covered(mem, d, Given) => Covered(n, d, Given)
  BY <1>3, <1>6 DEF Grown, Sound
<1>8. Given' = Given
  BY <1>2 DEF Given
<1>9. Loaded'
  <2>1. ASSUME NEW i \in 1 .. l, NEW v \in UPage, n.user[i].pte[v] # None
        PROVE  \E j \in DOMAIN segs'[i] : v \in Pages(segs'[i][j])
    <3>1. CASE i = l /\ v \in Pages(r)
      <4>1. k + 1 \in 1 .. k + 1
        BY <1>4
      <4>2. QED BY <1>4, <3>1, <4>1
    <3>2. CASE i # l \/ v \notin Pages(r)
      <4>1. mem.user[i].pte[v] # None
        BY <1>7, <2>1, <3>2
      <4>2. PICK j \in DOMAIN segs[i] : v \in Pages(segs[i][j])
        BY <1>3, <4>1 DEF IInv, Loaded
      <4>3. CASE i # l
        BY <1>4, <4>2, <4>3
      <4>4. CASE i = l
        <5>1. j \in 1 .. k /\ j \in 1 .. k + 1
          BY <1>4, <4>2, <4>4
        <5>2. QED BY <1>4, <4>2, <4>4, <5>1
      <4>5. QED BY <4>3, <4>4
    <3>3. QED BY <3>1, <3>2
  <2>2. QED BY <1>1, <1>7, <2>1 DEF Loaded
<1>10. ASSUME ~n.mixed, Disjoint' PROVE Covered(n, d, Given)
  <2>1. \A i \in 1 .. l : \A a, b \in DOMAIN segs'[i] :
           a < b => Pages(segs'[i][a]) \cap Pages(segs'[i][b]) = {}
    BY <1>4, <1>10 DEF Disjoint, Overlap
  <2>2. Disjoint
    <3>1. ASSUME NEW i \in 1 .. l, NEW a \in DOMAIN segs[i], NEW b \in DOMAIN segs[i], a < b
          PROVE  Pages(segs[i][a]) \cap Pages(segs[i][b]) = {}
      <4>1. CASE i # l
        BY <1>4, <2>1, <3>1, <4>1
      <4>2. CASE i = l
        <5>1. a \in 1 .. k /\ b \in 1 .. k /\ a \in 1 .. k + 1 /\ b \in 1 .. k + 1
          BY <1>4, <4>2
        <5>2. QED BY <1>4, <2>1, <3>1, <4>2, <5>1
      <4>3. QED BY <4>1, <4>2
    <3>2. QED BY <1>4, <3>1 DEF Disjoint, Overlap
  <2>3. Covered(mem, d, Given)
    BY <1>1, <1>7, <1>10, <2>2 DEF IInv
  <2>4. ASSUME NEW v \in Pages(r) PROVE mem.user[l].pte[v] = None
    <3>1. SUFFICES ASSUME mem.user[l].pte[v] # None PROVE FALSE
      OBVIOUS
    <3>2. v \in UPage
      BY DEF Segment
    <3>3. PICK j \in 1 .. k : v \in Pages(segs[l][j])
      BY <1>3, <1>4, <3>1, <3>2 DEF IInv, Loaded
    <3>4. j \in 1 .. k + 1 /\ k + 1 \in 1 .. k + 1 /\ j < k + 1
      BY <1>4
    <3>5. Pages(segs'[l][j]) \cap Pages(segs'[l][k + 1]) = {}
      BY <1>4, <2>1, <3>4
    <3>6. QED BY <1>4, <3>3, <3>5
  <2>5. QED BY <1>7, <1>10, <2>3, <2>4
<1>11. Counted'
  BY <1>1, <1>4, <1>7 DEF Counted
<1>12. TypeOK'
  BY <1>1, <1>2, <1>3, <1>4, <1>7 DEF IInv, TypeOK
<1>13. Sound(mem, io, Given)'
  BY <1>1, <1>2, <1>7, <1>8
<1>14. QED BY <1>1, <1>2, <1>8, <1>9, <1>10, <1>11, <1>12, <1>13 DEF IInv

\* Every step keeps the invariant.
LEMMA NextIInv == IInv /\ [Next]_vars => IInv'
<1> SUFFICES ASSUME IInv, [Next]_vars PROVE IInv'
  OBVIOUS
<1>1. CASE UNCHANGED vars
  <2>1. map' = map /\ mem' = mem /\ io' = io /\ segs' = segs
    BY <1>1 DEF vars
  <2>2. Given' = Given /\ Disjoint' = Disjoint /\ Loaded' = Loaded /\ Counted' = Counted
    BY <2>1 DEF Given, Disjoint, Loaded, Counted
  <2>3. QED BY <2>1, <2>2 DEF IInv, TypeOK
<1>2. ASSUME mem.state = "ok", NEW r \in Ranges, Kmmap(r) PROVE IInv'
  BY <1>2, KmmapIInv
<1>3. ASSUME mem.state = "ok", NEW r \in mem.live, NEW n \in 1 .. r[2], Kmunmap(r, n)
      PROVE  IInv'
  BY <1>3, KmunmapIInv
<1>4. ASSUME mem.state = "ok", StartProcess PROVE IInv'
  BY <1>4, StartProcessIInv
<1>5. ASSUME mem.state = "ok", segs # << >>, NEW r \in Segments, Pages(r) \subseteq UPage,
             LoadSegment(r)
      PROVE  IInv'
  <2>1. r \in Segment
    <3>1. r \in Nat \X (Nat \ {0})
      BY KMemAssumption
    <3>2. r[1] \in Pages(r)
      BY <3>1 DEF Pages
    <3>3. QED BY <1>5, <3>1, <3>2 DEF Segment
  <2>2. QED BY <1>5, <2>1, LoadSegmentIInv
<1>6. ASSUME mem.state = "ok", TakeFrame PROVE IInv'
  BY <1>6, TakeFrameIInv
<1>7. ASSUME mem.state = "ok", TakeNone PROVE IInv'
  BY <1>7, TakeNoneIInv
<1>8. ASSUME mem.state = "ok", NEW f \in io, GiveFrame(f) PROVE IInv'
  BY <1>8, GiveFrameIInv
<1>9. QED BY <1>1, <1>2, <1>3, <1>4, <1>5, <1>6, <1>7, <1>8 DEF Next

\* So it always holds.
LEMMA IInvHolds == Spec => []IInv
<1>1. Init => IInv
  BY InitIInv
<1>2. IInv /\ [Next]_vars => IInv'
  BY NextIInv
<1>3. QED BY <1>1, <1>2, PTL DEF Spec

--------------------------------------------------------------------------------
(* What follows *)

\* The uses of the properties are those of the invariant.
LEMMA UsesAreHeld ==
    ASSUME IInv
    PROVE  /\ \A use \in Uses : Has(mem, io, use, FrameOf(use))
           /\ \A x, f : Has(mem, io, x, f) => x \in Uses /\ FrameOf(x) = f
<1>1. mem \in Memory /\ io \in SUBSET Frame
  BY DEF IInv, TypeOK
<1>2. \A i \in DOMAIN mem.user : mem.user[i].cr3 \in Frame
  <2>1. mem.user \in Seq(Space)
    BY <1>1, MemoryShape
  <2>2. ASSUME NEW i \in DOMAIN mem.user PROVE mem.user[i].cr3 \in Frame
    <3>1. mem.user[i] \in Space
      BY <2>1, LenProperties, ElementOfSeq
    <3>2. QED BY <3>1 DEF Space
  <2>3. QED BY <2>2
<1>3. \A p : FrameOf(KernelUse(p)) = Pte(mem, p)
  BY DEF FrameOf, KernelUse
<1>4. \A i : FrameOf(TopUse(i)) = mem.user[i].cr3
  BY DEF FrameOf, TopUse
<1>5. \A i, v : FrameOf(UserUse(i, v)) = mem.user[i].pte[v]
  BY DEF FrameOf, UserUse
<1>6. \A f : FrameOf(DriverUse(f)) = f
  BY DEF FrameOf, DriverUse
<1>7. \A x : x \in Uses <=>
          \/ \E p \in KPage : x = KernelUse(p) /\ Pte(mem, p) \in Frame
          \/ \E i \in DOMAIN mem.user : x = TopUse(i)
          \/ \E i \in DOMAIN mem.user : \E v \in UPage :
                x = UserUse(i, v) /\ mem.user[i].pte[v] \in Frame
          \/ \E f \in io : x = DriverUse(f)
  <2> DEFINE A == {<<"k", p>> : p \in {q \in KPage : Pte(mem, q) \in Frame}}
             B == {<<"cr3", i>> : i \in DOMAIN mem.user}
             P == {y \in (DOMAIN mem.user) \X UPage : mem.user[y[1]].pte[y[2]] \in Frame}
             C == {<<"u", y[1], y[2]>> : y \in P}
             D == {<<"io", f>> : f \in io}
  <2>1. ASSUME NEW x
        PROVE  x \in A <=> \E p \in KPage : x = KernelUse(p) /\ Pte(mem, p) \in Frame
    BY DEF KernelUse
  <2>2. ASSUME NEW x
        PROVE  x \in B <=> \E i \in DOMAIN mem.user : x = TopUse(i)
    BY DEF TopUse
  <2>3. ASSUME NEW x
        PROVE  x \in C <=> \E i \in DOMAIN mem.user : \E v \in UPage :
                   x = UserUse(i, v) /\ mem.user[i].pte[v] \in Frame
    <3>1. ASSUME NEW y \in P, x = <<"u", y[1], y[2]>>
          PROVE  \E i \in DOMAIN mem.user : \E v \in UPage :
                     x = UserUse(i, v) /\ mem.user[i].pte[v] \in Frame
      <4>1. y[1] \in DOMAIN mem.user /\ y[2] \in UPage
        OBVIOUS
      <4>2. x = UserUse(y[1], y[2]) /\ mem.user[y[1]].pte[y[2]] \in Frame
        BY <3>1 DEF UserUse
      <4>3. QED BY <4>1, <4>2
    <3>2. ASSUME NEW i \in DOMAIN mem.user, NEW v \in UPage,
                 x = UserUse(i, v), mem.user[i].pte[v] \in Frame
          PROVE  \E y \in P : x = <<"u", y[1], y[2]>>
      <4>1. PICK y : y = <<i, v>>
        OBVIOUS
      <4>2. y[1] = i /\ y[2] = v /\ y \in (DOMAIN mem.user) \X UPage
        BY <4>1
      <4>3. y \in P
        BY <3>2, <4>2
      <4>4. x = <<"u", y[1], y[2]>>
        BY <3>2, <4>2 DEF UserUse
      <4>5. QED BY <4>3, <4>4
    <3>3. x \in C <=> \E y \in P : x = <<"u", y[1], y[2]>>
      OBVIOUS
    <3> HIDE DEF P, C
    <3>4. QED BY <3>1, <3>2, <3>3
  <2>4. ASSUME NEW x
        PROVE  x \in D <=> \E f \in io : x = DriverUse(f)
    BY DEF DriverUse
  <2>5. Uses = A \cup B \cup C \cup D
    BY Zenon DEF Uses
  <2> HIDE DEF A, B, C, D
  <2>6. QED BY <2>1, <2>2, <2>3, <2>4, <2>5
<1>8. ASSUME NEW use \in Uses PROVE Has(mem, io, use, FrameOf(use))
  BY <1>1, <1>2, <1>3, <1>4, <1>5, <1>6, <1>7 DEF Has
<1>9. ASSUME NEW x, NEW f, Has(mem, io, x, f) PROVE x \in Uses /\ FrameOf(x) = f
  BY <1>3, <1>4, <1>5, <1>6, <1>7, <1>9 DEF Has
<1>10. QED BY <1>8, <1>9

\* A frame has one use: a page of the kernel, a page of one process, the top of an address
\* space or a transfer of a driver.  It is not free meanwhile, and it is memory: no hole of
\* the memory map and not the kernel's.  So back_vmem(), unback_vmem(), the loading of a
\* process and the drivers never hand out or release a frame that somebody else has, in
\* whatever order they call the page allocator one after the other and wherever memory runs
\* out.  Except once a range was crawled over a large page, or a table of a process, whose
\* entry got the address of another table (phmem_manager.cc, line 76): that takes a range of
\* three of them or more (MixedInBetween).
THEOREM FramesHaveOneUse == Spec => []OneUse
<1>1. IInv => OneUse
  <2> SUFFICES ASSUME IInv, ~mem.mixed
               PROVE  /\ \A use, other \in Uses : FrameOf(use) = FrameOf(other) => use = other
                      /\ \A use \in Uses : FrameOf(use) \notin mem.free
                      /\ {FrameOf(use) : use \in Uses} \cup mem.free \subseteq RealFrames
    BY DEF OneUse
  <2>1. Apart(mem, io, Given) /\ map \in Maps
    BY DEF IInv, TypeOK, Sound
  <2>2. \A use \in Uses : Has(mem, io, use, FrameOf(use))
    BY UsesAreHeld
  <2>3. ASSUME NEW use \in Uses, NEW other \in Uses, FrameOf(use) = FrameOf(other)
        PROVE  use = other
    BY <2>1, <2>2, <2>3 DEF Apart
  <2>4. ASSUME NEW use \in Uses
        PROVE  FrameOf(use) \notin mem.free /\ FrameOf(use) \in Given
    BY <2>1, <2>2 DEF Apart
  <2>5. mem.free \subseteq Given
    BY <2>1 DEF Apart
  <2>6. Given \subseteq RealFrames
    <3> SUFFICES ASSUME NEW f \in Frame, f \notin Setup(map) PROVE f \in RealFrames
      BY DEF Given
    <3>1. QED BY <2>1, SetupLeavesMemory DEF RealFrames
  <2>7. {FrameOf(use) : use \in Uses} \cup mem.free \subseteq RealFrames
    BY <2>4, <2>5, <2>6
  <2>8. QED BY <2>3, <2>4, <2>7
<1>2. QED BY <1>1, IInvHolds, PTL

\* A page of the kernel has an entry exactly while it belongs to a mapping that kmmap() made
\* and kmunmap() did not take back, whatever was mapped or unmapped before or beside it, and
\* also when the page tables of a process were mapped in the middle of another crawl; unless
\* an entry once got the address of another table.
THEOREM MappingsAreBacked == Spec => []LiveBacked
<1>1. IInv => LiveBacked
  <2> SUFFICES ASSUME IInv, ~mem.mixed, NEW p \in KPage
               PROVE  Pte(mem, p) # None <=> p \in UNION {Pages(r) : r \in mem.live}
    BY DEF LiveBacked
  <2>1. Live(mem)
    BY DEF IInv, Sound
  <2>2. QED BY <2>1 DEF Live
<1>2. QED BY <1>1, IInvHolds, PTL

\* Frames do not get lost: unless two segments of a process share a page, a table of a
\* process came to lie at no frame, or an entry got the address of another table, a frame
\* that setup_heap() left free is free or in use.
THEOREM NoFrameIsLost == Spec => []NothingLost
<1>1. IInv => NothingLost
  <2> SUFFICES ASSUME IInv, \A i \in DOMAIN segs : ~Overlap(segs[i]), mem.state # "lost",
                      ~mem.mixed
               PROVE  {FrameOf(use) : use \in Uses} \cup mem.free = Frame \ Setup(map)
    BY DEF NothingLost
  <2>1. Apart(mem, io, Given)
    BY DEF IInv, Sound
  <2>2. Covered(mem, io, Given)
    BY DEF IInv, Disjoint
  <2>3. /\ \A use \in Uses : Has(mem, io, use, FrameOf(use))
        /\ \A x, f : Has(mem, io, x, f) => x \in Uses /\ FrameOf(x) = f
    BY UsesAreHeld
  <2>4. ASSUME NEW use \in Uses PROVE FrameOf(use) \in Given
    BY <2>1, <2>3 DEF Apart
  <2>5. mem.free \subseteq Given
    BY <2>1 DEF Apart
  <2>6. ASSUME NEW f \in Given
        PROVE  f \in mem.free \/ \E use \in Uses : f = FrameOf(use)
    BY <2>2, <2>3 DEF Covered
  <2>7. {FrameOf(use) : use \in Uses} \cup mem.free = Given
    BY <2>4, <2>5, <2>6
  <2>8. QED BY <2>7 DEF Given
<1>2. QED BY <1>1, IInvHolds, PTL

================================================================================

