------------------------------ MODULE BuddyProofs ------------------------------
(***************************************************************************)
(* Proofs about module Buddy, for a tree of any depth, pages of any size   *)
(* and any number of addresses that fits.                                  *)
(***************************************************************************)
EXTENDS Buddy, NatLemmas

\* What the constants are, for the proofs that do not look into the sizes of blocks.
LEMMA Constants == /\ Depth \in Nat \ {0} /\ PageSize \in Nat \ {0}
                   /\ Orders = 0 .. Depth /\ 0 \in Orders /\ Depth \in Orders
                   /\ 1 .. Depth \subseteq Orders
                   /\ \A d \in Orders : d = 0 \/ d \in 1 .. Depth
                   /\ \A d \in 1 .. Depth : d # 0 /\ d - 1 \in Orders /\ d \in Orders /\ d \in Nat
BY DepthAssumption DEF Orders

\* Induction over the orders of blocks.
LEMMA OrderInduction ==
    ASSUME NEW S, 0 \in S, \A d \in 1 .. Depth : d - 1 \in S => d \in S
    PROVE  \A d \in Orders : d \in S
<1>1. ASSUME NEW n \in 0 .. Depth - 1, n \in S PROVE n + 1 \in S
  <2>1. n + 1 \in 1 .. Depth /\ (n + 1) - 1 = n
    BY Constants
  <2>2. QED BY <1>1, <2>1
<1>2. 0 .. Depth \subseteq S
  BY <1>1, Constants, InductionUpTo
<1>3. QED BY <1>2, Constants

--------------------------------------------------------------------------------
(* Sizes *)

\* A block is twice as large as the blocks it has for children.
LEMMA TotalSizeIs ==
    /\ \A d \in Orders : TotalSize[d] \in Nat \ {0}
    /\ TotalSize[0] = PageSize
    /\ \A d \in 1 .. Depth : TotalSize[d] = 2 * TotalSize[d - 1]
<1> DEFINE V == [d \in Orders |-> Nat \ {0}]
           F == [d \in 1 .. Depth |-> [v \in Nat \ {0} |-> 2 * v]]
           Body(g) == [d \in Orders |-> IF d = 0 THEN PageSize ELSE 2 * g[d - 1]]
           U == CHOOSE g : g = Body(g)
<1>1. PageSize \in V[0]
  BY Constants
<1>2. ASSUME NEW d \in 1 .. Depth, NEW v \in V[d - 1] PROVE F[d][v] \in V[d] /\ F[d][v] = 2 * v
  <2>1. v \in Nat \ {0} /\ 2 * v \in Nat \ {0}
    BY Constants
  <2>2. QED BY <2>1, Constants
<1>3. PICK g : GoesOn(g, Depth, V, PageSize, F)
  <2>1. DOMAIN F = 1 .. Depth /\ Depth \in Nat
    BY DepthAssumption
  <2> HIDE DEF V, F
  <2>2. QED BY <1>1, <1>2, <2>1, RecursionExists
<1>4. g = Body(g)
  <2> HIDE DEF V, F
  <2>1. \A d \in 1 .. Depth : g[d] = F[d][g[d - 1]] /\ g[d - 1] \in V[d - 1]
    BY <1>3, Constants DEF GoesOn
  <2>2. g[0] = PageSize /\ \A d \in 1 .. Depth : g[d] = 2 * g[d - 1]
    BY <1>2, <1>3, <2>1 DEF GoesOn
  <2>3. \A d \in Orders : g[d] = IF d = 0 THEN PageSize ELSE 2 * g[d - 1]
    BY <2>2, Constants
  <2>4. g = [d \in Orders |-> g[d]]
    BY <1>3, Constants DEF GoesOn
  <2>5. QED BY <2>3, <2>4
<1>5. TotalSize = U
  BY DEF TotalSize
<1>6. U = Body(U)
  <2> HIDE DEF Body
  <2>1. QED BY <1>4, Zenon
<1> HIDE DEF U
<1>7. TotalSize = [d \in Orders |-> IF d = 0 THEN PageSize ELSE 2 * TotalSize[d - 1]]
  BY <1>5, <1>6
<1>8. TotalSize[0] = PageSize /\ \A d \in 1 .. Depth : TotalSize[d] = 2 * TotalSize[d - 1]
  BY <1>7, Constants
<1>9. \A d \in Orders : TotalSize[d] \in Nat \ {0}
  <2> DEFINE S == {d \in Orders : TotalSize[d] \in Nat \ {0}}
  <2>1. 0 \in S
    BY <1>8, Constants
  <2>2. \A d \in 1 .. Depth : d - 1 \in S => d \in S
    BY <1>8, Constants
  <2>3. \A d \in Orders : d \in S
    <3> HIDE DEF S
    <3>1. QED BY <2>1, <2>2, OrderInduction
  <2>4. QED BY <2>3
<1>10. QED BY <1>8, <1>9

\* The two halves of a block.
LEMMA Halves ==
    ASSUME NEW d \in 1 .. Depth
    PROVE  /\ Mid(d) \in Nat \ {0} /\ Mid(d) = TotalSize[d - 1]
           /\ TotalSize[d] \in Nat \ {0} /\ TotalSize[d] = 2 * Mid(d)
BY TotalSizeIs, Constants DEF Mid

\* The space is the root, and there are addresses outside it: alloc_null is one.
LEMMA AddressSpace ==
    /\ Total \in Nat \ {0} /\ Addresses \in Nat \ {0} /\ 4 * Total <= Addresses
    /\ AllocNull \in Nat /\ 2 * Total < AllocNull
<1>1. Total \in Nat \ {0}
  BY TotalSizeIs, Constants DEF Total
<1>2. Addresses \in Nat /\ 4 * Total <= Addresses
  BY AddressesAssumption
<1>3. QED BY <1>1, <1>2 DEF AllocNull

--------------------------------------------------------------------------------
(* Blocks *)

\* What a block of each order is.
LEMMA BlockIs ==
    /\ Block[0] = [max : {-1, 0}, kids : {<< >>}]
    /\ \A d \in 1 .. Depth : Block[d] = [max : -1 .. d, kids : Block[d - 1] \X Block[d - 1]]
<1> DEFINE Page == [max : {-1, 0}, kids : {<< >>}]
           Larger(d, b) == [max : -1 .. d, kids : b \X b]
           Body(g) == [d \in Orders |-> IF d = 0 THEN Page ELSE Larger(d, g[d - 1])]
           U == CHOOSE g : g = Body(g)
           S == {n \in Nat : \E g : /\ g[0] = Page
                                    /\ \A d \in 1 .. n : g[d] = Larger(d, g[d - 1])}
<1> HIDE DEF Page, Larger
<1>1. 0 \in S
  <2> DEFINE h == [d \in 0 .. 0 |-> Page]
  <2>1. h[0] = Page /\ 1 .. 0 = {}
    OBVIOUS
  <2> HIDE DEF h
  <2>2. \A d \in 1 .. 0 : h[d] = Larger(d, h[d - 1])
    BY <2>1
  <2>3. QED BY <2>1, <2>2
<1>2. ASSUME NEW n \in 0 .. Depth - 1, n \in S PROVE n + 1 \in S
  <2>1. PICK g : g[0] = Page /\ \A d \in 1 .. n : g[d] = Larger(d, g[d - 1])
    BY <1>2
  <2> DEFINE y == Larger(n + 1, g[n])
             h == [d \in 0 .. n + 1 |-> IF d = n + 1 THEN y ELSE g[d]]
  <2>2. /\ h[n + 1] = y
        /\ \A d \in 0 .. n : h[d] = g[d]
        /\ \A d \in 1 .. n + 1 : (d \in 1 .. n /\ d \in 0 .. n /\ d - 1 \in 0 .. n) \/ d = n + 1
        /\ 0 \in 0 .. n /\ n \in 0 .. n /\ (n + 1) - 1 = n /\ n + 1 \in Nat
    OBVIOUS
  <2> HIDE DEF h
  <2>3. ASSUME NEW d \in 1 .. n + 1 PROVE h[d] = Larger(d, h[d - 1])
    <3>1. CASE d = n + 1
      BY <2>2, <3>1
    <3>2. CASE d # n + 1
      BY <2>1, <2>2, <3>2
    <3>3. QED BY <3>1, <3>2
  <2>4. h[0] = Page
    BY <2>1, <2>2
  <2>5. QED BY <2>2, <2>3, <2>4
<1>3. Depth \in S
  <2> HIDE DEF S
  <2>1. 0 .. Depth \subseteq S
    BY <1>1, <1>2, Constants, InductionUpTo
  <2>2. QED BY <2>1, Constants
<1>4. PICK g : g[0] = Page /\ \A d \in 1 .. Depth : g[d] = Larger(d, g[d - 1])
  BY <1>3
<1> DEFINE h == [d \in Orders |-> g[d]]
<1>5. h = Body(h)
  <2>1. \A d \in Orders : h[d] = g[d]
    OBVIOUS
  <2> HIDE DEF h
  <2>2. \A d \in Orders : g[d] = IF d = 0 THEN Page ELSE Larger(d, h[d - 1])
    BY <1>4, <2>1, Constants
  <2>3. QED BY <2>2 DEF h
<1>6. U = Body(U)
  <2> HIDE DEF Body
  <2>1. QED BY <1>5, Zenon
<1>7. Block = U
  BY DEF Block, Page, Larger
<1> HIDE DEF U
<1>8. Block = [d \in Orders |-> IF d = 0 THEN Page ELSE Larger(d, Block[d - 1])]
  BY <1>6, <1>7
<1>9. Block[0] = Page /\ \A d \in 1 .. Depth : Block[d] = Larger(d, Block[d - 1])
  BY <1>8, Constants
<1>10. QED BY <1>9 DEF Page, Larger

\* A node is a block, with the label and the children it is built from.
LEMMA NodeIs ==
    ASSUME NEW d \in 1 .. Depth, NEW l \in Block[d - 1], NEW r \in Block[d - 1], NEW m \in -1 .. d,
           NEW t, t = Node(m, l, r)
    PROVE  t \in Block[d] /\ t.max = m /\ t.kids[1] = l /\ t.kids[2] = r
<1>1. t = [max |-> m, kids |-> <<l, r>>]
  BY DEF Node
<1>2. <<l, r>> \in Block[d - 1] \X Block[d - 1]
  OBVIOUS
<1>3. Block[d] = [max : -1 .. d, kids : Block[d - 1] \X Block[d - 1]]
  BY BlockIs
<1>4. t \in Block[d]
  BY <1>1, <1>2, <1>3
<1>5. t.max = m /\ t.kids[1] = l /\ t.kids[2] = r
  BY <1>1
<1>6. QED BY <1>4, <1>5

\* Every block but a page is a node.
LEMMA BlockParts ==
    ASSUME NEW d \in 1 .. Depth, NEW t \in Block[d]
    PROVE  /\ t.max \in -1 .. d
           /\ t.kids[1] \in Block[d - 1] /\ t.kids[2] \in Block[d - 1]
           /\ t = Node(t.max, t.kids[1], t.kids[2])
<1>1. t \in [max : -1 .. d, kids : Block[d - 1] \X Block[d - 1]]
  BY BlockIs
<1>2. /\ t.max \in -1 .. d /\ t.kids \in Block[d - 1] \X Block[d - 1]
      /\ t = [max |-> t.max, kids |-> t.kids]
  BY <1>1
<1>3. /\ t.kids[1] \in Block[d - 1] /\ t.kids[2] \in Block[d - 1]
      /\ t.kids = <<t.kids[1], t.kids[2]>>
  BY <1>2
<1>4. QED BY <1>2, <1>3 DEF Node

\* Two blocks are the same when they have the same label and the same children.
LEMMA SameBlock ==
    ASSUME NEW d \in 1 .. Depth, NEW t \in Block[d], NEW u \in Block[d],
           t.max = u.max, t.kids[1] = u.kids[1], t.kids[2] = u.kids[2]
    PROVE  t = u
BY BlockParts

\* What changes when a label does.
LEMMA RelabelIs ==
    ASSUME NEW d \in Orders, NEW t \in Block[d], NEW m \in -1 .. d, NEW u, u = Relabel(t, m)
    PROVE  u \in Block[d] /\ u.max = m /\ u.kids = t.kids
<1>1. CASE d = 0
  <2>1. t \in [max : {-1, 0}, kids : {<< >>}] /\ m \in {-1, 0}
    BY <1>1, BlockIs
  <2>2. u = [max |-> m, kids |-> t.kids] /\ t.kids \in {<< >>}
    BY <2>1 DEF Relabel
  <2>3. u \in [max : {-1, 0}, kids : {<< >>}]
    BY <2>1, <2>2
  <2>4. QED BY <1>1, <2>2, <2>3, BlockIs
<1>2. CASE d # 0
  <2>1. PICK K : K = Block[d - 1] \X Block[d - 1]
    OBVIOUS
  <2>2. d \in 1 .. Depth
    BY <1>2, Constants
  <2>3. Block[d] = [max : -1 .. d, kids : K]
    BY <2>1, <2>2, BlockIs
  <2>4. u = [max |-> m, kids |-> t.kids] /\ t.kids \in K
    BY <2>3 DEF Relabel
  <2>5. QED BY <2>3, <2>4
<1>3. QED BY <1>1, <1>2

\* A new block is free and has new children.
LEMMA FreshIs ==
    /\ \A d \in Orders : FreshBlock[d] \in Block[d] /\ FreshBlock[d].max = d
    /\ FreshBlock[0] = [max |-> 0, kids |-> << >>]
    /\ \A d \in 1 .. Depth : FreshBlock[d] = Node(d, FreshBlock[d - 1], FreshBlock[d - 1])
<1> DEFINE x == [max |-> 0, kids |-> << >>]
           F == [d \in 1 .. Depth |-> [v \in Block[d - 1] |-> Node(d, v, v)]]
           Body(g) == [d \in Orders |-> IF d = 0 THEN x ELSE Node(d, g[d - 1], g[d - 1])]
           U == CHOOSE g : g = Body(g)
<1>1. x \in Block[0]
  BY BlockIs
<1>2. ASSUME NEW d \in 1 .. Depth, NEW v \in Block[d - 1]
      PROVE  F[d][v] \in Block[d] /\ F[d][v] = Node(d, v, v) /\ F[d][v].max = d
  <2>1. F[d][v] = Node(d, v, v) /\ d \in -1 .. d
    BY Constants
  <2>2. QED BY <2>1, NodeIs
<1>3. DOMAIN F = 1 .. Depth
  OBVIOUS
<1> HIDE DEF x, F
<1>4. PICK g : GoesOn(g, Depth, Block, x, F)
  BY <1>1, <1>2, <1>3, Constants, RecursionExists
<1>5. g = Body(g)
  <2>1. \A d \in Orders : g[d] = IF d = 0 THEN x ELSE Node(d, g[d - 1], g[d - 1])
    BY <1>2, <1>4, Constants DEF GoesOn
  <2>2. g = [d \in Orders |-> g[d]]
    BY <1>4, Constants DEF GoesOn
  <2>3. QED BY <2>1, <2>2
<1>6. FreshBlock = U
  BY DEF FreshBlock, x
<1>7. U = Body(U)
  <2> HIDE DEF Body
  <2>1. QED BY <1>5, Zenon
<1> HIDE DEF U
<1>8. FreshBlock = [d \in Orders |-> IF d = 0 THEN x
                                     ELSE Node(d, FreshBlock[d - 1], FreshBlock[d - 1])]
  BY <1>6, <1>7
<1>9. /\ FreshBlock[0] = x
      /\ \A d \in 1 .. Depth : FreshBlock[d] = Node(d, FreshBlock[d - 1], FreshBlock[d - 1])
  BY <1>8, Constants
<1>10. \A d \in Orders : FreshBlock[d] \in Block[d]
  <2> DEFINE S == {d \in Orders : FreshBlock[d] \in Block[d]}
  <2>1. 0 \in S /\ \A d \in 1 .. Depth : d - 1 \in S => d \in S
    BY <1>1, <1>2, <1>9, Constants
  <2> HIDE DEF S
  <2>2. \A d \in Orders : d \in S
    BY <2>1, OrderInduction
  <2>3. QED BY <2>2 DEF S
<1>11. \A d \in Orders : FreshBlock[d].max = d
  <2>1. FreshBlock[0].max = 0
    BY <1>9 DEF x
  <2>2. ASSUME NEW d \in 1 .. Depth PROVE FreshBlock[d].max = d
    BY <1>2, <1>9, <1>10, Constants
  <2>3. QED BY <2>1, <2>2, Constants
<1>12. QED BY <1>9, <1>10, <1>11 DEF x

\* Both children take a label.
LEMMA PushIs ==
    ASSUME NEW d \in 1 .. Depth, NEW t \in Block[d], NEW m \in -1 .. d - 1, NEW u, u = Push(t, m)
    PROVE  /\ u \in Block[d] /\ u.max = t.max
           /\ u.kids[1] = Relabel(t.kids[1], m) /\ u.kids[2] = Relabel(t.kids[2], m)
<1>1. t.max \in -1 .. d /\ t.kids[1] \in Block[d - 1] /\ t.kids[2] \in Block[d - 1]
  BY BlockParts
<1>2. PICK l, r : l = Relabel(t.kids[1], m) /\ r = Relabel(t.kids[2], m)
  OBVIOUS
<1>3. l \in Block[d - 1] /\ r \in Block[d - 1]
  BY <1>1, <1>2, RelabelIs, Constants
<1>4. u = Node(t.max, l, r)
  BY <1>2 DEF Push
<1>5. QED BY <1>1, <1>2, <1>3, <1>4, NodeIs

\* A block entered by mark_used() or get_range().
LEMMA SplitIs ==
    ASSUME NEW d \in 1 .. Depth, NEW t \in Block[d], NEW u, u = Split(t, d)
    PROVE  /\ u \in Block[d] /\ u.max = t.max
           /\ t.max = d => /\ u.kids[1] = Relabel(t.kids[1], d - 1)
                           /\ u.kids[2] = Relabel(t.kids[2], d - 1)
           /\ t.max # d => u = t
<1>1. d - 1 \in -1 .. d - 1
  BY Constants
<1>2. CASE t.max = d
  BY <1>1, <1>2, PushIs DEF Split
<1>3. CASE t.max # d
  BY <1>3 DEF Split
<1>4. QED BY <1>2, <1>3

\* A block entered by free_range().
LEMMA OccupyIs ==
    ASSUME NEW d \in 1 .. Depth, NEW t \in Block[d], NEW u, u = Occupy(t)
    PROVE  /\ u \in Block[d] /\ u.max = t.max
           /\ t.max = -1 => /\ u.kids[1] = Relabel(t.kids[1], -1)
                            /\ u.kids[2] = Relabel(t.kids[2], -1)
           /\ t.max # -1 => u = t
<1>1. -1 \in -1 .. d - 1
  BY Constants
<1>2. CASE t.max = -1
  BY <1>1, <1>2, PushIs DEF Occupy
<1>3. CASE t.max # -1
  BY <1>3 DEF Occupy
<1>4. QED BY <1>2, <1>3

\* A block whose label follows from those of its children.
LEMMA RefreshIs ==
    ASSUME NEW d \in 1 .. Depth, NEW l \in Block[d - 1], NEW r \in Block[d - 1],
           NEW u, u = Refresh(l, r)
    PROVE  /\ u \in Block[d] /\ u.max = Max2(l.max, r.max) /\ u.kids[1] = l /\ u.kids[2] = r
           /\ l.max \in -1 .. d - 1 /\ r.max \in -1 .. d - 1 /\ u.max \in -1 .. d - 1
<1>1. l.max \in -1 .. d - 1 /\ r.max \in -1 .. d - 1
  <2>1. CASE d - 1 = 0
    <3>1. Block[d - 1] = [max : {-1, 0}, kids : {<< >>}]
      BY <2>1, BlockIs
    <3>2. l.max \in {-1, 0} /\ r.max \in {-1, 0}
      BY <3>1
    <3>3. QED BY <2>1, <3>2
  <2>2. CASE d - 1 # 0
    BY <2>2, BlockParts, Constants
  <2>3. QED BY <2>1, <2>2
<1>2. PICK m : m = Max2(l.max, r.max)
  OBVIOUS
<1>3. m \in -1 .. d - 1 /\ m \in -1 .. d
  BY <1>1, <1>2, Constants DEF Max2
<1>4. u = Node(m, l, r)
  BY <1>2 DEF Refresh
<1>5. QED BY <1>1, <1>2, <1>3, <1>4, NodeIs

\* The same after free_range().
LEMMA CoalesceIs ==
    ASSUME NEW d \in 1 .. Depth, NEW l \in Block[d - 1], NEW r \in Block[d - 1],
           NEW u, u = Coalesce(l, r, d)
    PROVE  /\ u \in Block[d] /\ u.kids[1] = l /\ u.kids[2] = r
           /\ \/ u.max = d /\ l.max = d - 1 /\ r.max = d - 1
              \/ u.max = Max2(l.max, r.max) /\ u = Refresh(l, r)
<1>1. CASE l.max = d - 1 /\ r.max = d - 1
  <2>1. u = Node(d, l, r) /\ d \in -1 .. d
    BY <1>1, Constants DEF Coalesce
  <2>2. QED BY <1>1, <2>1, NodeIs
<1>2. CASE ~(l.max = d - 1 /\ r.max = d - 1)
  <2>1. u = Refresh(l, r)
    BY <1>2 DEF Coalesce
  <2>2. QED BY <2>1, RefreshIs
<1>3. QED BY <1>1, <1>2

--------------------------------------------------------------------------------
(* Ranges *)

\* The parts of a range in the two halves of a block.
LEMMA RangeParts ==
    ASSUME NEW d \in 1 .. Depth, NEW addr \in Nat, NEW size \in Nat
    PROVE  /\ Lower(d, addr, size) \in Nat /\ Upper(d, addr, size) \in Nat
           /\ UpperAt(d, addr) \in Nat
BY Halves DEF Lower, Upper, UpperAt

\* The calls made on the two children.
LEMMA CallsBelow ==
    ASSUME NEW d \in 1 .. Depth, NEW t \in Block[d], NEW addr \in Nat, NEW size \in Nat
    PROVE  /\ <<t.kids[1], addr, Lower(d, addr, size)>> \in Calls(d - 1)
           /\ <<t.kids[2], UpperAt(d, addr), Upper(d, addr, size)>> \in Calls(d - 1)
<1>1. /\ Lower(d, addr, size) \in Nat /\ Upper(d, addr, size) \in Nat
      /\ UpperAt(d, addr) \in Nat
  BY RangeParts
<1>2. t.kids[1] \in Block[d - 1] /\ t.kids[2] \in Block[d - 1]
  BY BlockParts
<1>3. QED BY <1>1, <1>2 DEF Calls

--------------------------------------------------------------------------------
(* The operations: the recursive definitions have a meaning, and their types *)

\* Marking a part of a block gives a block, when marking parts of its children does.
LEMMA BlockMarkUsedType ==
    ASSUME NEW d \in 1 .. Depth, NEW mark \in [Calls(d - 1) -> Block[d - 1]], NEW c \in Calls(d)
    PROVE  BlockMarkUsed(d, mark, c[1], c[2], c[3]) \in Block[d]
<1>1. PICK t, addr, size : t = c[1] /\ addr = c[2] /\ size = c[3]
  OBVIOUS
<1>2. t \in Block[d] /\ addr \in Nat /\ size \in Nat
  BY <1>1 DEF Calls
<1>3. PICK s : s = Split(t, d)
  OBVIOUS
<1>4. s \in Block[d]
  BY <1>2, <1>3, SplitIs
<1>5. PICK l, r : /\ l = mark[<<s.kids[1], addr, Lower(d, addr, size)>>]
                  /\ r = mark[<<s.kids[2], UpperAt(d, addr), Upper(d, addr, size)>>]
  OBVIOUS
<1>6. l \in Block[d - 1] /\ r \in Block[d - 1]
  BY <1>2, <1>4, <1>5, CallsBelow
<1>7. Refresh(l, r) \in Block[d]
  BY <1>6, RefreshIs
<1>8. Relabel(t, -1) \in Block[d]
  <2>1. d \in Orders /\ -1 \in -1 .. d
    BY Constants
  <2>2. QED BY <1>2, <2>1, RelabelIs
<1>9. BlockMarkUsed(d, mark, t, addr, size) \in {t, Relabel(t, -1), Refresh(l, r)}
  BY <1>3, <1>5 DEF BlockMarkUsed
<1>10. QED BY <1>1, <1>2, <1>7, <1>8, <1>9

\* mark_used().
LEMMA MarkUsedIs ==
    /\ \A d \in Orders : MarkUsed[d] \in [Calls(d) -> Block[d]]
    /\ \A c \in Calls(0) : MarkUsed[0][c] = PageMarkUsed(c[1], c[2], c[3])
    /\ \A d \in 1 .. Depth : \A c \in Calls(d) :
          MarkUsed[d][c] = BlockMarkUsed(d, MarkUsed[d - 1], c[1], c[2], c[3])
<1> DEFINE x == [c \in Calls(0) |-> PageMarkUsed(c[1], c[2], c[3])]
           Step(d, v) == [c \in Calls(d) |-> BlockMarkUsed(d, v, c[1], c[2], c[3])]
           V == [d \in Orders |-> [Calls(d) -> Block[d]]]
           F == [d \in 1 .. Depth |-> [v \in V[d - 1] |-> Step(d, v)]]
           Body(g) == [d \in Orders |-> IF d = 0 THEN x ELSE Step(d, g[d - 1])]
           U == CHOOSE g : g = Body(g)
<1>1. x \in V[0]
  <2>1. ASSUME NEW c \in Calls(0) PROVE PageMarkUsed(c[1], c[2], c[3]) \in Block[0]
    <3>1. c[1] \in Block[0] /\ -1 \in -1 .. 0
      BY DEF Calls
    <3>2. Relabel(c[1], -1) \in Block[0]
      BY <3>1, Constants, RelabelIs
    <3>3. QED BY <3>1, <3>2 DEF PageMarkUsed
  <2>2. QED BY <2>1, Constants
<1>2. ASSUME NEW d \in 1 .. Depth, NEW v \in V[d - 1]
      PROVE  F[d][v] \in V[d] /\ F[d][v] = Step(d, v)
  <2>1. v \in [Calls(d - 1) -> Block[d - 1]]
    BY Constants
  <2>2. Step(d, v) \in [Calls(d) -> Block[d]]
    BY <2>1, BlockMarkUsedType
  <2>3. QED BY <2>2, Constants
<1>3. DOMAIN F = 1 .. Depth /\ \A d \in Orders : V[d] = [Calls(d) -> Block[d]]
  OBVIOUS
<1> HIDE DEF x, V, F, Step
<1>4. PICK g : GoesOn(g, Depth, V, x, F)
  BY <1>1, <1>2, <1>3, Constants, RecursionExists
<1>5. g = Body(g)
  <2>1. \A d \in Orders : g[d] = IF d = 0 THEN x ELSE Step(d, g[d - 1])
    BY <1>2, <1>4, Constants DEF GoesOn
  <2>2. g = [d \in Orders |-> g[d]]
    BY <1>4, Constants DEF GoesOn
  <2>3. QED BY <2>1, <2>2
<1>6. MarkUsed = U
  BY DEF MarkUsed, x, Step
<1>7. U = Body(U)
  <2> HIDE DEF Body
  <2>1. QED BY <1>5, Zenon
<1> HIDE DEF U
<1>8. MarkUsed = [d \in Orders |-> IF d = 0 THEN x ELSE Step(d, MarkUsed[d - 1])]
  BY <1>6, <1>7
<1>9. MarkUsed[0] = x /\ \A d \in 1 .. Depth : MarkUsed[d] = Step(d, MarkUsed[d - 1])
  BY <1>8, Constants
<1>10. \A d \in Orders : MarkUsed[d] \in V[d]
  <2> DEFINE S == {d \in Orders : MarkUsed[d] \in V[d]}
  <2>1. 0 \in S /\ \A d \in 1 .. Depth : d - 1 \in S => d \in S
    BY <1>1, <1>2, <1>9, Constants
  <2> HIDE DEF S
  <2>2. \A d \in Orders : d \in S
    BY <2>1, OrderInduction
  <2>3. QED BY <2>2 DEF S
<1>11. \A d \in Orders : MarkUsed[d] \in [Calls(d) -> Block[d]]
  BY <1>3, <1>10
<1>12. \A c \in Calls(0) : MarkUsed[0][c] = PageMarkUsed(c[1], c[2], c[3])
  BY <1>9 DEF x
<1>13. ASSUME NEW d \in 1 .. Depth PROVE \A c \in Calls(d) :
          MarkUsed[d][c] = BlockMarkUsed(d, MarkUsed[d - 1], c[1], c[2], c[3])
  BY <1>9 DEF Step
<1>14. QED BY <1>11, <1>12, <1>13

\* Giving back a part of a block gives a block.
LEMMA BlockFreeRangeType ==
    ASSUME NEW d \in 1 .. Depth, NEW free \in [Calls(d - 1) -> Block[d - 1]], NEW c \in Calls(d)
    PROVE  BlockFreeRange(d, free, c[1], c[2], c[3]) \in Block[d]
<1>1. PICK t, addr, size : t = c[1] /\ addr = c[2] /\ size = c[3]
  OBVIOUS
<1>2. t \in Block[d] /\ addr \in Nat /\ size \in Nat
  BY <1>1 DEF Calls
<1>3. PICK s : s = Occupy(t)
  OBVIOUS
<1>4. s \in Block[d]
  BY <1>2, <1>3, OccupyIs
<1>5. PICK l, r : /\ l = free[<<s.kids[1], addr, Lower(d, addr, size)>>]
                  /\ r = free[<<s.kids[2], UpperAt(d, addr), Upper(d, addr, size)>>]
  OBVIOUS
<1>6. l \in Block[d - 1] /\ r \in Block[d - 1]
  BY <1>2, <1>4, <1>5, CallsBelow
<1>7. Coalesce(l, r, d) \in Block[d]
  BY <1>6, CoalesceIs
<1>8. Relabel(t, d - 1) \in Block[d]
  <2>1. d \in Orders /\ d - 1 \in -1 .. d
    BY Constants
  <2>2. QED BY <1>2, <2>1, RelabelIs
<1>9. BlockFreeRange(d, free, t, addr, size) \in {t, Relabel(t, d - 1), Coalesce(l, r, d)}
  BY <1>3, <1>5 DEF BlockFreeRange
<1>10. QED BY <1>1, <1>2, <1>7, <1>8, <1>9

\* free_range().
LEMMA FreeRangeIs ==
    /\ \A d \in Orders : FreeRange[d] \in [Calls(d) -> Block[d]]
    /\ \A c \in Calls(0) : FreeRange[0][c] = PageFreeRange(c[1], c[2], c[3])
    /\ \A d \in 1 .. Depth : \A c \in Calls(d) :
          FreeRange[d][c] = BlockFreeRange(d, FreeRange[d - 1], c[1], c[2], c[3])
<1> DEFINE x == [c \in Calls(0) |-> PageFreeRange(c[1], c[2], c[3])]
           Step(d, v) == [c \in Calls(d) |-> BlockFreeRange(d, v, c[1], c[2], c[3])]
           V == [d \in Orders |-> [Calls(d) -> Block[d]]]
           F == [d \in 1 .. Depth |-> [v \in V[d - 1] |-> Step(d, v)]]
           Body(g) == [d \in Orders |-> IF d = 0 THEN x ELSE Step(d, g[d - 1])]
           U == CHOOSE g : g = Body(g)
<1>1. x \in V[0]
  <2>1. ASSUME NEW c \in Calls(0) PROVE PageFreeRange(c[1], c[2], c[3]) \in Block[0]
    <3>1. c[1] \in Block[0] /\ 0 \in -1 .. 0
      BY DEF Calls
    <3>2. Relabel(c[1], 0) \in Block[0]
      BY <3>1, Constants, RelabelIs
    <3>3. QED BY <3>1, <3>2 DEF PageFreeRange
  <2>2. QED BY <2>1, Constants
<1>2. ASSUME NEW d \in 1 .. Depth, NEW v \in V[d - 1]
      PROVE  F[d][v] \in V[d] /\ F[d][v] = Step(d, v)
  <2>1. v \in [Calls(d - 1) -> Block[d - 1]]
    BY Constants
  <2>2. Step(d, v) \in [Calls(d) -> Block[d]]
    BY <2>1, BlockFreeRangeType
  <2>3. QED BY <2>2, Constants
<1>3. DOMAIN F = 1 .. Depth /\ \A d \in Orders : V[d] = [Calls(d) -> Block[d]]
  OBVIOUS
<1> HIDE DEF x, V, F, Step
<1>4. PICK g : GoesOn(g, Depth, V, x, F)
  BY <1>1, <1>2, <1>3, Constants, RecursionExists
<1>5. g = Body(g)
  <2>1. \A d \in Orders : g[d] = IF d = 0 THEN x ELSE Step(d, g[d - 1])
    BY <1>2, <1>4, Constants DEF GoesOn
  <2>2. g = [d \in Orders |-> g[d]]
    BY <1>4, Constants DEF GoesOn
  <2>3. QED BY <2>1, <2>2
<1>6. FreeRange = U
  BY DEF FreeRange, x, Step
<1>7. U = Body(U)
  <2> HIDE DEF Body
  <2>1. QED BY <1>5, Zenon
<1> HIDE DEF U
<1>8. FreeRange = [d \in Orders |-> IF d = 0 THEN x ELSE Step(d, FreeRange[d - 1])]
  BY <1>6, <1>7
<1>9. FreeRange[0] = x /\ \A d \in 1 .. Depth : FreeRange[d] = Step(d, FreeRange[d - 1])
  BY <1>8, Constants
<1>10. \A d \in Orders : FreeRange[d] \in V[d]
  <2> DEFINE S == {d \in Orders : FreeRange[d] \in V[d]}
  <2>1. 0 \in S /\ \A d \in 1 .. Depth : d - 1 \in S => d \in S
    BY <1>1, <1>2, <1>9, Constants
  <2> HIDE DEF S
  <2>2. \A d \in Orders : d \in S
    BY <2>1, OrderInduction
  <2>3. QED BY <2>2 DEF S
<1>11. \A d \in Orders : FreeRange[d] \in [Calls(d) -> Block[d]]
  BY <1>3, <1>10
<1>12. \A c \in Calls(0) : FreeRange[0][c] = PageFreeRange(c[1], c[2], c[3])
  BY <1>9 DEF x
<1>13. ASSUME NEW d \in 1 .. Depth PROVE \A c \in Calls(d) :
          FreeRange[d][c] = BlockFreeRange(d, FreeRange[d - 1], c[1], c[2], c[3])
  BY <1>9 DEF Step
<1>14. QED BY <1>11, <1>12, <1>13

\* is_range_free().
LEMMA IsRangeFreeIs ==
    /\ \A d \in Orders : IsRangeFree[d] \in [Calls(d) -> BOOLEAN]
    /\ \A c \in Calls(0) : IsRangeFree[0][c] = PageIsFree(c[1], c[2], c[3])
    /\ \A d \in 1 .. Depth : \A c \in Calls(d) :
          IsRangeFree[d][c] = BlockIsFree(d, IsRangeFree[d - 1], c[1], c[2], c[3])
<1> DEFINE x == [c \in Calls(0) |-> PageIsFree(c[1], c[2], c[3])]
           Step(d, v) == [c \in Calls(d) |-> BlockIsFree(d, v, c[1], c[2], c[3])]
           V == [d \in Orders |-> [Calls(d) -> BOOLEAN]]
           F == [d \in 1 .. Depth |-> [v \in V[d - 1] |-> Step(d, v)]]
           Body(g) == [d \in Orders |-> IF d = 0 THEN x ELSE Step(d, g[d - 1])]
           U == CHOOSE g : g = Body(g)
<1>1. x \in V[0]
  <2>1. ASSUME NEW c \in Calls(0) PROVE PageIsFree(c[1], c[2], c[3]) \in BOOLEAN
    BY DEF PageIsFree
  <2>2. QED BY <2>1, Constants
<1>2. ASSUME NEW d \in 1 .. Depth, NEW v \in V[d - 1]
      PROVE  F[d][v] \in V[d] /\ F[d][v] = Step(d, v)
  <2>1. v \in [Calls(d - 1) -> BOOLEAN]
    BY Constants
  <2>2. Step(d, v) \in [Calls(d) -> BOOLEAN]
    <3>1. ASSUME NEW c \in Calls(d) PROVE BlockIsFree(d, v, c[1], c[2], c[3]) \in BOOLEAN
      BY DEF BlockIsFree
    <3>2. QED BY <3>1
  <2>3. QED BY <2>2, Constants
<1>3. DOMAIN F = 1 .. Depth /\ \A d \in Orders : V[d] = [Calls(d) -> BOOLEAN]
  OBVIOUS
<1> HIDE DEF x, V, F, Step
<1>4. PICK g : GoesOn(g, Depth, V, x, F)
  BY <1>1, <1>2, <1>3, Constants, RecursionExists
<1>5. g = Body(g)
  <2>1. \A d \in Orders : g[d] = IF d = 0 THEN x ELSE Step(d, g[d - 1])
    BY <1>2, <1>4, Constants DEF GoesOn
  <2>2. g = [d \in Orders |-> g[d]]
    BY <1>4, Constants DEF GoesOn
  <2>3. QED BY <2>1, <2>2
<1>6. IsRangeFree = U
  BY DEF IsRangeFree, x, Step
<1>7. U = Body(U)
  <2> HIDE DEF Body
  <2>1. QED BY <1>5, Zenon
<1> HIDE DEF U
<1>8. IsRangeFree = [d \in Orders |-> IF d = 0 THEN x ELSE Step(d, IsRangeFree[d - 1])]
  BY <1>6, <1>7
<1>9. IsRangeFree[0] = x /\ \A d \in 1 .. Depth : IsRangeFree[d] = Step(d, IsRangeFree[d - 1])
  BY <1>8, Constants
<1>10. \A d \in Orders : IsRangeFree[d] \in V[d]
  <2> DEFINE S == {d \in Orders : IsRangeFree[d] \in V[d]}
  <2>1. 0 \in S /\ \A d \in 1 .. Depth : d - 1 \in S => d \in S
    BY <1>1, <1>2, <1>9, Constants
  <2> HIDE DEF S
  <2>2. \A d \in Orders : d \in S
    BY <2>1, OrderInduction
  <2>3. QED BY <2>2 DEF S
<1>11. \A d \in Orders : IsRangeFree[d] \in [Calls(d) -> BOOLEAN]
  BY <1>3, <1>10
<1>12. \A c \in Calls(0) : IsRangeFree[0][c] = PageIsFree(c[1], c[2], c[3])
  BY <1>9 DEF x
<1>13. ASSUME NEW d \in 1 .. Depth PROVE \A c \in Calls(d) :
          IsRangeFree[d][c] = BlockIsFree(d, IsRangeFree[d - 1], c[1], c[2], c[3])
  BY <1>9 DEF Step
<1>14. QED BY <1>11, <1>12, <1>13

\* What get_range() gives back.
Found(d) == [tree : Block[d], at : Nat]

\* Searching a block gives a block and an address.
LEMMA BlockGetRangeType ==
    ASSUME NEW d \in 1 .. Depth, NEW get \in [Block[d - 1] \X Nat -> Found(d - 1)],
           NEW c \in Block[d] \X Nat
    PROVE  BlockGetRange(d, get, c[1], c[2]) \in Found(d)
<1>1. PICK t, size : t = c[1] /\ size = c[2]
  OBVIOUS
<1>2. t \in Block[d] /\ size \in Nat
  BY <1>1
<1>3. PICK s : s = Split(t, d)
  OBVIOUS
<1>4. /\ s \in Block[d] /\ s.max \in -1 .. d
      /\ s.kids[1] \in Block[d - 1] /\ s.kids[2] \in Block[d - 1]
  BY <1>2, <1>3, SplitIs, BlockParts
<1>5. PICK l, r : l = get[<<s.kids[1], size>>] /\ r = get[<<s.kids[2], size>>]
  OBVIOUS
<1>6. l \in Found(d - 1) /\ r \in Found(d - 1)
  BY <1>2, <1>4, <1>5
<1>7. l.tree \in Block[d - 1] /\ l.at \in Nat /\ r.tree \in Block[d - 1] /\ r.at \in Nat
  BY <1>6 DEF Found
<1>8. AllocNull \in Nat /\ Wrap(Mid(d) + r.at) \in Nat
  <2>1. Addresses \in Nat \ {0} /\ Mid(d) \in Nat
    BY AddressSpace, Halves
  <2>2. QED BY <1>7, <2>1 DEF AllocNull, Wrap
<1>9. Node(s.max, l.tree, s.kids[2]) \in Block[d] /\ Node(s.max, l.tree, r.tree) \in Block[d]
  <2>1. \A x, y \in Block[d - 1], m \in -1 .. d : Node(m, x, y) \in Block[d]
    BY NodeIs
  <2>2. QED BY <1>4, <1>7, <2>1
<1>10. BlockGetRange(d, get, t, size) \in
          {[tree |-> t, at |-> AllocNull], [tree |-> t, at |-> 0],
           [tree |-> Node(s.max, l.tree, s.kids[2]), at |-> l.at],
           [tree |-> Node(s.max, l.tree, r.tree), at |-> Wrap(Mid(d) + r.at)]}
  BY <1>3, <1>5 DEF BlockGetRange
<1>11. QED BY <1>1, <1>2, <1>7, <1>8, <1>9, <1>10 DEF Found

\* get_range().
LEMMA GetRangeIs ==
    /\ \A d \in Orders : GetRange[d] \in [Block[d] \X Nat -> Found(d)]
    /\ \A c \in Block[0] \X Nat : GetRange[0][c] = PageGetRange(c[1], c[2])
    /\ \A d \in 1 .. Depth : \A c \in Block[d] \X Nat :
          GetRange[d][c] = BlockGetRange(d, GetRange[d - 1], c[1], c[2])
<1> DEFINE x == [c \in Block[0] \X Nat |-> PageGetRange(c[1], c[2])]
           Step(d, v) == [c \in Block[d] \X Nat |-> BlockGetRange(d, v, c[1], c[2])]
           V == [d \in Orders |-> [Block[d] \X Nat -> Found(d)]]
           F == [d \in 1 .. Depth |-> [v \in V[d - 1] |-> Step(d, v)]]
           Body(g) == [d \in Orders |-> IF d = 0 THEN x ELSE Step(d, g[d - 1])]
           U == CHOOSE g : g = Body(g)
<1>1. x \in V[0]
  <2>1. ASSUME NEW c \in Block[0] \X Nat PROVE PageGetRange(c[1], c[2]) \in Found(0)
    <3>1. c[1] \in Block[0] /\ -1 \in -1 .. 0 /\ AllocNull \in Nat
      BY AddressSpace
    <3>2. Relabel(c[1], -1) \in Block[0]
      BY <3>1, Constants, RelabelIs
    <3>3. QED BY <3>1, <3>2 DEF PageGetRange, Found
  <2>2. QED BY <2>1, Constants
<1>2. ASSUME NEW d \in 1 .. Depth, NEW v \in V[d - 1]
      PROVE  F[d][v] \in V[d] /\ F[d][v] = Step(d, v)
  <2>1. v \in [Block[d - 1] \X Nat -> Found(d - 1)]
    BY Constants
  <2>2. Step(d, v) \in [Block[d] \X Nat -> Found(d)]
    BY <2>1, BlockGetRangeType
  <2>3. QED BY <2>2, Constants
<1>3. DOMAIN F = 1 .. Depth /\ \A d \in Orders : V[d] = [Block[d] \X Nat -> Found(d)]
  OBVIOUS
<1> HIDE DEF x, V, F, Step
<1>4. PICK g : GoesOn(g, Depth, V, x, F)
  BY <1>1, <1>2, <1>3, Constants, RecursionExists
<1>5. g = Body(g)
  <2>1. \A d \in Orders : g[d] = IF d = 0 THEN x ELSE Step(d, g[d - 1])
    BY <1>2, <1>4, Constants DEF GoesOn
  <2>2. g = [d \in Orders |-> g[d]]
    BY <1>4, Constants DEF GoesOn
  <2>3. QED BY <2>1, <2>2
<1>6. GetRange = U
  BY DEF GetRange, x, Step
<1>7. U = Body(U)
  <2> HIDE DEF Body
  <2>1. QED BY <1>5, Zenon
<1> HIDE DEF U
<1>8. GetRange = [d \in Orders |-> IF d = 0 THEN x ELSE Step(d, GetRange[d - 1])]
  BY <1>6, <1>7
<1>9. GetRange[0] = x /\ \A d \in 1 .. Depth : GetRange[d] = Step(d, GetRange[d - 1])
  BY <1>8, Constants
<1>10. \A d \in Orders : GetRange[d] \in V[d]
  <2> DEFINE S == {d \in Orders : GetRange[d] \in V[d]}
  <2>1. 0 \in S /\ \A d \in 1 .. Depth : d - 1 \in S => d \in S
    BY <1>1, <1>2, <1>9, Constants
  <2> HIDE DEF S
  <2>2. \A d \in Orders : d \in S
    BY <2>1, OrderInduction
  <2>3. QED BY <2>2 DEF S
<1>11. \A d \in Orders : GetRange[d] \in [Block[d] \X Nat -> Found(d)]
  BY <1>3, <1>10
<1>12. \A c \in Block[0] \X Nat : GetRange[0][c] = PageGetRange(c[1], c[2])
  BY <1>9 DEF x
<1>13. ASSUME NEW d \in 1 .. Depth PROVE \A c \in Block[d] \X Nat :
          GetRange[d][c] = BlockGetRange(d, GetRange[d - 1], c[1], c[2])
  BY <1>9 DEF Step
<1>14. QED BY <1>11, <1>12, <1>13

--------------------------------------------------------------------------------
(* What the labels say *)

\* The bytes that a block calls free.
LEMMA FreeBytesIs ==
    /\ \A d \in Orders : FreeBytes[d] \in [Block[d] -> SUBSET Nat]
    /\ \A t \in Block[0] : FreeBytes[0][t] = IF t.max = -1 THEN {} ELSE 0 .. PageSize - 1
    /\ \A d \in 1 .. Depth : \A t \in Block[d] :
          FreeBytes[d][t] = BlockFreeBytes(d, FreeBytes[d - 1], t)
<1> DEFINE x == [t \in Block[0] |-> IF t.max = -1 THEN {} ELSE 0 .. PageSize - 1]
           Step(d, v) == [t \in Block[d] |-> BlockFreeBytes(d, v, t)]
           V == [d \in Orders |-> [Block[d] -> SUBSET Nat]]
           F == [d \in 1 .. Depth |-> [v \in V[d - 1] |-> Step(d, v)]]
           Body(g) == [d \in Orders |-> IF d = 0 THEN x ELSE Step(d, g[d - 1])]
           U == CHOOSE g : g = Body(g)
<1>1. x \in V[0]
  <2>1. {} \in SUBSET Nat /\ 0 .. PageSize - 1 \in SUBSET Nat
    BY Constants
  <2>2. QED BY <2>1, Constants
<1>2. ASSUME NEW d \in 1 .. Depth, NEW v \in V[d - 1]
      PROVE  F[d][v] \in V[d] /\ F[d][v] = Step(d, v)
  <2>1. v \in [Block[d - 1] -> SUBSET Nat]
    BY Constants
  <2>2. Step(d, v) \in [Block[d] -> SUBSET Nat]
    <3>1. ASSUME NEW t \in Block[d] PROVE BlockFreeBytes(d, v, t) \in SUBSET Nat
      <4>1. t.kids[1] \in Block[d - 1] /\ t.kids[2] \in Block[d - 1]
        BY BlockParts
      <4>2. v[t.kids[1]] \in SUBSET Nat /\ v[t.kids[2]] \in SUBSET Nat
        BY <2>1, <4>1
      <4>3. Mid(d) \in Nat /\ 0 .. TotalSize[d] - 1 \in SUBSET Nat
        BY Halves
      <4>4. QED BY <4>2, <4>3 DEF BlockFreeBytes
    <3>2. QED BY <3>1
  <2>3. QED BY <2>2, Constants
<1>3. DOMAIN F = 1 .. Depth /\ \A d \in Orders : V[d] = [Block[d] -> SUBSET Nat]
  OBVIOUS
<1> HIDE DEF x, V, F, Step
<1>4. PICK g : GoesOn(g, Depth, V, x, F)
  BY <1>1, <1>2, <1>3, Constants, RecursionExists
<1>5. g = Body(g)
  <2>1. \A d \in Orders : g[d] = IF d = 0 THEN x ELSE Step(d, g[d - 1])
    BY <1>2, <1>4, Constants DEF GoesOn
  <2>2. g = [d \in Orders |-> g[d]]
    BY <1>4, Constants DEF GoesOn
  <2>3. QED BY <2>1, <2>2
<1>6. FreeBytes = U
  BY DEF FreeBytes, x, Step
<1>7. U = Body(U)
  <2> HIDE DEF Body
  <2>1. QED BY <1>5, Zenon
<1> HIDE DEF U
<1>8. FreeBytes = [d \in Orders |-> IF d = 0 THEN x ELSE Step(d, FreeBytes[d - 1])]
  BY <1>6, <1>7
<1>9. FreeBytes[0] = x /\ \A d \in 1 .. Depth : FreeBytes[d] = Step(d, FreeBytes[d - 1])
  BY <1>8, Constants
<1>10. \A d \in Orders : FreeBytes[d] \in V[d]
  <2> DEFINE S == {d \in Orders : FreeBytes[d] \in V[d]}
  <2>1. 0 \in S /\ \A d \in 1 .. Depth : d - 1 \in S => d \in S
    BY <1>1, <1>2, <1>9, Constants
  <2> HIDE DEF S
  <2>2. \A d \in Orders : d \in S
    BY <2>1, OrderInduction
  <2>3. QED BY <2>2 DEF S
<1>11. \A d \in Orders : FreeBytes[d] \in [Block[d] -> SUBSET Nat]
  BY <1>3, <1>10
<1>12. \A t \in Block[0] : FreeBytes[0][t] = IF t.max = -1 THEN {} ELSE 0 .. PageSize - 1
  BY <1>9 DEF x
<1>13. ASSUME NEW d \in 1 .. Depth
       PROVE  \A t \in Block[d] : FreeBytes[d][t] = BlockFreeBytes(d, FreeBytes[d - 1], t)
  BY <1>9 DEF Step
<1>14. QED BY <1>11, <1>12, <1>13

\* The order of the largest block that is free as a whole.
LEMMA LargestFreeIs ==
    /\ \A d \in Orders : LargestFree[d] \in [Block[d] -> Int]
    /\ \A t \in Block[0] : LargestFree[0][t] = t.max
    /\ \A d \in 1 .. Depth : \A t \in Block[d] :
          LargestFree[d][t] = BlockLargest(d, LargestFree[d - 1], t)
<1> DEFINE x == [t \in Block[0] |-> t.max]
           Step(d, v) == [t \in Block[d] |-> BlockLargest(d, v, t)]
           V == [d \in Orders |-> [Block[d] -> Int]]
           F == [d \in 1 .. Depth |-> [v \in V[d - 1] |-> Step(d, v)]]
           Body(g) == [d \in Orders |-> IF d = 0 THEN x ELSE Step(d, g[d - 1])]
           U == CHOOSE g : g = Body(g)
<1>1. x \in V[0]
  <2>1. \A t \in Block[0] : t.max \in Int
    BY BlockIs
  <2>2. QED BY <2>1, Constants
<1>2. ASSUME NEW d \in 1 .. Depth, NEW v \in V[d - 1]
      PROVE  F[d][v] \in V[d] /\ F[d][v] = Step(d, v)
  <2>1. v \in [Block[d - 1] -> Int]
    BY Constants
  <2>2. Step(d, v) \in [Block[d] -> Int]
    <3>1. ASSUME NEW t \in Block[d] PROVE BlockLargest(d, v, t) \in Int
      <4>1. t.kids[1] \in Block[d - 1] /\ t.kids[2] \in Block[d - 1]
        BY BlockParts
      <4>2. v[t.kids[1]] \in Int /\ v[t.kids[2]] \in Int
        BY <2>1, <4>1
      <4>3. QED BY <4>2 DEF BlockLargest, Max2
    <3>2. QED BY <3>1
  <2>3. QED BY <2>2, Constants
<1>3. DOMAIN F = 1 .. Depth /\ \A d \in Orders : V[d] = [Block[d] -> Int]
  OBVIOUS
<1> HIDE DEF x, V, F, Step
<1>4. PICK g : GoesOn(g, Depth, V, x, F)
  BY <1>1, <1>2, <1>3, Constants, RecursionExists
<1>5. g = Body(g)
  <2>1. \A d \in Orders : g[d] = IF d = 0 THEN x ELSE Step(d, g[d - 1])
    BY <1>2, <1>4, Constants DEF GoesOn
  <2>2. g = [d \in Orders |-> g[d]]
    BY <1>4, Constants DEF GoesOn
  <2>3. QED BY <2>1, <2>2
<1>6. LargestFree = U
  BY DEF LargestFree, x, Step
<1>7. U = Body(U)
  <2> HIDE DEF Body
  <2>1. QED BY <1>5, Zenon
<1> HIDE DEF U
<1>8. LargestFree = [d \in Orders |-> IF d = 0 THEN x ELSE Step(d, LargestFree[d - 1])]
  BY <1>6, <1>7
<1>9. LargestFree[0] = x /\ \A d \in 1 .. Depth : LargestFree[d] = Step(d, LargestFree[d - 1])
  BY <1>8, Constants
<1>10. \A d \in Orders : LargestFree[d] \in V[d]
  <2> DEFINE S == {d \in Orders : LargestFree[d] \in V[d]}
  <2>1. 0 \in S /\ \A d \in 1 .. Depth : d - 1 \in S => d \in S
    BY <1>1, <1>2, <1>9, Constants
  <2> HIDE DEF S
  <2>2. \A d \in Orders : d \in S
    BY <2>1, OrderInduction
  <2>3. QED BY <2>2 DEF S
<1>11. \A d \in Orders : LargestFree[d] \in [Block[d] -> Int]
  BY <1>3, <1>10
<1>12. \A t \in Block[0] : LargestFree[0][t] = t.max
  BY <1>9 DEF x
<1>13. ASSUME NEW d \in 1 .. Depth
       PROVE  \A t \in Block[d] : LargestFree[d][t] = BlockLargest(d, LargestFree[d - 1], t)
  BY <1>9 DEF Step
<1>14. QED BY <1>11, <1>12, <1>13

--------------------------------------------------------------------------------
(* The blocks there are, and what is held in them *)

\* A block that was taken as a whole: the labels below still call everything free.
Stale(d) == Relabel(FreshBlock[d], -1)

\* The blocks that the operations leave behind.  A label d or -1 that is written to a
\* block, and not worked out from those of its children, lies above labels that call
\* everything free.
Sound[d \in Orders] ==
    IF d = 0 THEN Block[0]
    ELSE {FreshBlock[d], Stale(d)} \cup {Refresh(x[1], x[2]) : x \in Sound[d - 1] \X Sound[d - 1]}

\* The block taken as a whole.
LEMMA StaleIs ==
    /\ \A d \in Orders : Stale(d) \in Block[d] /\ Stale(d).max = -1
    /\ \A d \in 1 .. Depth :
          Stale(d).kids[1] = FreshBlock[d - 1] /\ Stale(d).kids[2] = FreshBlock[d - 1]
<1>1. ASSUME NEW d \in Orders
      PROVE  Stale(d) \in Block[d] /\ Stale(d).max = -1 /\ Stale(d).kids = FreshBlock[d].kids
  <2>1. FreshBlock[d] \in Block[d] /\ -1 \in -1 .. d
    BY FreshIs, Constants
  <2>2. QED BY <2>1, RelabelIs DEF Stale
<1>2. ASSUME NEW d \in 1 .. Depth
      PROVE  Stale(d).kids[1] = FreshBlock[d - 1] /\ Stale(d).kids[2] = FreshBlock[d - 1]
  <2>1. /\ FreshBlock[d] = Node(d, FreshBlock[d - 1], FreshBlock[d - 1])
        /\ FreshBlock[d - 1] \in Block[d - 1] /\ d \in -1 .. d
    BY FreshIs, Constants
  <2>2. FreshBlock[d].kids[1] = FreshBlock[d - 1] /\ FreshBlock[d].kids[2] = FreshBlock[d - 1]
    BY <2>1, NodeIs
  <2>3. QED BY <1>1, <2>2, Constants
<1>3. QED BY <1>1, <1>2

\* Which blocks are sound.
LEMMA SoundIs ==
    /\ \A d \in Orders : Sound[d] \in SUBSET Block[d]
    /\ Sound[0] = Block[0]
    /\ \A d \in 1 .. Depth : Sound[d] =
          {FreshBlock[d], Stale(d)} \cup {Refresh(y[1], y[2]) : y \in Sound[d - 1] \X Sound[d - 1]}
<1> DEFINE x == Block[0]
           Step(d, v) == {FreshBlock[d], Stale(d)} \cup {Refresh(y[1], y[2]) : y \in v \X v}
           V == [d \in Orders |-> SUBSET Block[d]]
           F == [d \in 1 .. Depth |-> [v \in V[d - 1] |-> Step(d, v)]]
           Body(g) == [d \in Orders |-> IF d = 0 THEN x ELSE Step(d, g[d - 1])]
           U == CHOOSE g : g = Body(g)
<1>1. x \in V[0]
  BY Constants
<1>2. ASSUME NEW d \in 1 .. Depth, NEW v \in V[d - 1]
      PROVE  F[d][v] \in V[d] /\ F[d][v] = Step(d, v)
  <2>1. v \in SUBSET Block[d - 1]
    BY Constants
  <2>2. Step(d, v) \in SUBSET Block[d]
    <3>1. FreshBlock[d] \in Block[d] /\ Stale(d) \in Block[d]
      BY FreshIs, StaleIs, Constants
    <3>2. \A y \in v \X v : Refresh(y[1], y[2]) \in Block[d]
      BY <2>1, RefreshIs
    <3>3. QED BY <3>1, <3>2
  <2>3. QED BY <2>2, Constants
<1>3. DOMAIN F = 1 .. Depth /\ \A d \in Orders : V[d] = SUBSET Block[d]
  OBVIOUS
<1> HIDE DEF x, V, F, Step
<1>4. PICK g : GoesOn(g, Depth, V, x, F)
  BY <1>1, <1>2, <1>3, Constants, RecursionExists
<1>5. g = Body(g)
  <2>1. \A d \in Orders : g[d] = IF d = 0 THEN x ELSE Step(d, g[d - 1])
    BY <1>2, <1>4, Constants DEF GoesOn
  <2>2. g = [d \in Orders |-> g[d]]
    BY <1>4, Constants DEF GoesOn
  <2>3. QED BY <2>1, <2>2
<1>6. Sound = U
  BY DEF Sound, x, Step
<1>7. U = Body(U)
  <2> HIDE DEF Body
  <2>1. QED BY <1>5, Zenon
<1> HIDE DEF U
<1>8. Sound = [d \in Orders |-> IF d = 0 THEN x ELSE Step(d, Sound[d - 1])]
  BY <1>6, <1>7
<1>9. Sound[0] = x /\ \A d \in 1 .. Depth : Sound[d] = Step(d, Sound[d - 1])
  BY <1>8, Constants
<1>10. \A d \in Orders : Sound[d] \in V[d]
  <2> DEFINE S == {d \in Orders : Sound[d] \in V[d]}
  <2>1. 0 \in S /\ \A d \in 1 .. Depth : d - 1 \in S => d \in S
    BY <1>1, <1>2, <1>9, Constants
  <2> HIDE DEF S
  <2>2. \A d \in Orders : d \in S
    BY <2>1, OrderInduction
  <2>3. QED BY <2>2 DEF S
<1>11. QED BY <1>3, <1>9, <1>10 DEF x, Step

\* The bytes of a block, and what a set of them is in each half.
Bytes(d) == 0 .. TotalSize[d] - 1
Lo(d, R) == {b \in Bytes(d - 1) : b \in R}
Hi(d, R) == {b \in Bytes(d - 1) : Mid(d) + b \in R}

\* The sets of bytes that a block holds for somebody: a free block only the empty set,
\* a block taken as a whole all of its bytes, and any other block what its children hold.
\* What is held was taken in blocks that can be given back as they are.
BlockHeld(d, held, t) ==
    {R \in SUBSET Bytes(d) :
        \/ R = {}
        \/ R = Bytes(d) /\ t = Stale(d)
        \/ /\ R # Bytes(d) /\ t # FreshBlock[d]
           /\ Lo(d, R) \in held[t.kids[1]] /\ Hi(d, R) \in held[t.kids[2]]}

Held[d \in Orders] ==
    IF d = 0 THEN [t \in Block[0] |-> IF t.max = -1 THEN {{}, Bytes(0)} ELSE {{}}]
    ELSE [t \in Block[d] |-> BlockHeld(d, Held[d - 1], t)]

\* Which sets are held.
LEMMA HeldIs ==
    /\ \A d \in Orders : Held[d] \in [Block[d] -> SUBSET SUBSET Bytes(d)]
    /\ \A t \in Block[0] : Held[0][t] = IF t.max = -1 THEN {{}, Bytes(0)} ELSE {{}}
    /\ \A d \in 1 .. Depth : \A t \in Block[d] : Held[d][t] = BlockHeld(d, Held[d - 1], t)
<1> DEFINE x == [t \in Block[0] |-> IF t.max = -1 THEN {{}, Bytes(0)} ELSE {{}}]
           Step(d, v) == [t \in Block[d] |-> BlockHeld(d, v, t)]
           V == [d \in Orders |-> [Block[d] -> SUBSET SUBSET Bytes(d)]]
           F == [d \in 1 .. Depth |-> [v \in V[d - 1] |-> Step(d, v)]]
           Body(g) == [d \in Orders |-> IF d = 0 THEN x ELSE Step(d, g[d - 1])]
           U == CHOOSE g : g = Body(g)
<1>1. x \in V[0]
  <2>1. {} \in SUBSET Bytes(0) /\ Bytes(0) \in SUBSET Bytes(0)
    OBVIOUS
  <2>2. QED BY <2>1, Constants
<1>2. ASSUME NEW d \in 1 .. Depth, NEW v \in V[d - 1]
      PROVE  F[d][v] \in V[d] /\ F[d][v] = Step(d, v)
  <2>1. v \in [Block[d - 1] -> SUBSET SUBSET Bytes(d - 1)]
    BY Constants
  <2>2. Step(d, v) \in [Block[d] -> SUBSET SUBSET Bytes(d)]
    <3>1. ASSUME NEW t \in Block[d] PROVE BlockHeld(d, v, t) \in SUBSET SUBSET Bytes(d)
      BY DEF BlockHeld
    <3>2. QED BY <3>1
  <2>3. QED BY <2>2, Constants
<1>3. DOMAIN F = 1 .. Depth /\ \A d \in Orders : V[d] = [Block[d] -> SUBSET SUBSET Bytes(d)]
  OBVIOUS
<1> HIDE DEF x, V, F, Step
<1>4. PICK g : GoesOn(g, Depth, V, x, F)
  BY <1>1, <1>2, <1>3, Constants, RecursionExists
<1>5. g = Body(g)
  <2>1. \A d \in Orders : g[d] = IF d = 0 THEN x ELSE Step(d, g[d - 1])
    BY <1>2, <1>4, Constants DEF GoesOn
  <2>2. g = [d \in Orders |-> g[d]]
    BY <1>4, Constants DEF GoesOn
  <2>3. QED BY <2>1, <2>2
<1>6. Held = U
  BY DEF Held, x, Step
<1>7. U = Body(U)
  <2> HIDE DEF Body
  <2>1. QED BY <1>5, Zenon
<1> HIDE DEF U
<1>8. Held = [d \in Orders |-> IF d = 0 THEN x ELSE Step(d, Held[d - 1])]
  BY <1>6, <1>7
<1>9. Held[0] = x /\ \A d \in 1 .. Depth : Held[d] = Step(d, Held[d - 1])
  BY <1>8, Constants
<1>10. \A d \in Orders : Held[d] \in V[d]
  <2> DEFINE S == {d \in Orders : Held[d] \in V[d]}
  <2>1. 0 \in S /\ \A d \in 1 .. Depth : d - 1 \in S => d \in S
    BY <1>1, <1>2, <1>9, Constants
  <2> HIDE DEF S
  <2>2. \A d \in Orders : d \in S
    BY <2>1, OrderInduction
  <2>3. QED BY <2>2 DEF S
<1>11. \A d \in Orders : Held[d] \in [Block[d] -> SUBSET SUBSET Bytes(d)]
  BY <1>3, <1>10
<1>12. \A t \in Block[0] : Held[0][t] = IF t.max = -1 THEN {{}, Bytes(0)} ELSE {{}}
  BY <1>9 DEF x
<1>13. ASSUME NEW d \in 1 .. Depth
       PROVE  \A t \in Block[d] : Held[d][t] = BlockHeld(d, Held[d - 1], t)
  BY <1>9 DEF Step
<1>14. QED BY <1>11, <1>12, <1>13

\* A page is labelled free or not.
LEMMA PageIs ==
    ASSUME NEW t \in Block[0]
    PROVE  /\ t \in Sound[0] /\ t.max \in {-1, 0}
           /\ t.max = 0 <=> t = FreshBlock[0]
           /\ t.max = -1 <=> t = Stale(0)
<1>1. /\ FreshBlock[0] \in Block[0] /\ FreshBlock[0].max = 0
      /\ Stale(0) \in Block[0] /\ Stale(0).max = -1
  BY FreshIs, StaleIs, Constants
<1>2. Block[0] = [max : {-1, 0}, kids : {<< >>}]
  BY BlockIs
<1>3. \A u \in Block[0] : u = [max |-> u.max, kids |-> << >>] /\ u.max \in {-1, 0}
  BY <1>2
<1>4. \A u \in Block[0] : u.max = t.max => u = t
  BY <1>3
<1>5. QED BY <1>1, <1>3, <1>4, SoundIs

\* The children of a sound block are sound.
LEMMA SoundParts ==
    ASSUME NEW d \in 1 .. Depth, NEW t \in Sound[d]
    PROVE  /\ t \in Block[d] /\ t.max \in -1 .. d
           /\ t.kids[1] \in Sound[d - 1] /\ t.kids[2] \in Sound[d - 1]
           /\ \/ t = FreshBlock[d] /\ t.kids[1] = FreshBlock[d - 1] /\ t.kids[2] = FreshBlock[d - 1]
              \/ t = Stale(d) /\ t.kids[1] = FreshBlock[d - 1] /\ t.kids[2] = FreshBlock[d - 1]
              \/ t = Refresh(t.kids[1], t.kids[2]) /\ t.max \in -1 .. d - 1
<1>1. Sound[d] \in SUBSET Block[d] /\ Sound[d - 1] \in SUBSET Block[d - 1]
  BY SoundIs, Constants
<1>2. t \in Block[d] /\ t.max \in -1 .. d
  BY <1>1, BlockParts
<1>3. FreshBlock[d - 1] \in Sound[d - 1]
  <2>1. CASE d - 1 = 0
    BY <2>1, FreshIs, SoundIs, Constants
  <2>2. CASE d - 1 # 0
    <3>1. d - 1 \in 1 .. Depth
      BY <2>2, Constants
    <3>2. QED BY <3>1, SoundIs
  <2>3. QED BY <2>1, <2>2
<1>4. CASE t = FreshBlock[d]
  <2>1. /\ t = Node(d, FreshBlock[d - 1], FreshBlock[d - 1]) /\ d \in -1 .. d
        /\ FreshBlock[d - 1] \in Block[d - 1]
    BY <1>4, FreshIs, Constants
  <2>2. t.kids[1] = FreshBlock[d - 1] /\ t.kids[2] = FreshBlock[d - 1]
    BY <2>1, NodeIs
  <2>3. QED BY <1>2, <1>3, <1>4, <2>2
<1>5. CASE t = Stale(d)
  BY <1>2, <1>3, <1>5, StaleIs
<1>6. CASE \E l, r \in Sound[d - 1] : t = Refresh(l, r)
  <2>1. PICK l \in Sound[d - 1], r \in Sound[d - 1] : t = Refresh(l, r)
    BY <1>6
  <2>2. t.kids[1] = l /\ t.kids[2] = r /\ t.max \in -1 .. d - 1
    BY <1>1, <2>1, RefreshIs
  <2>3. QED BY <1>2, <2>1, <2>2
<1>7. t \in {FreshBlock[d], Stale(d)}
              \cup {Refresh(y[1], y[2]) : y \in Sound[d - 1] \X Sound[d - 1]}
  BY SoundIs
<1>8. QED BY <1>4, <1>5, <1>6, <1>7

\* Blocks that were never touched, and blocks taken as a whole, are sound; so is a block
\* whose label follows from those of its children.
LEMMA SoundOnes ==
    /\ \A d \in Orders : FreshBlock[d] \in Sound[d] /\ Stale(d) \in Sound[d]
    /\ \A d \in 1 .. Depth : \A l, r \in Sound[d - 1] : Refresh(l, r) \in Sound[d]
    /\ \A d \in Orders : Sound[d] \in SUBSET Block[d]
<1>1. ASSUME NEW d \in Orders PROVE FreshBlock[d] \in Sound[d] /\ Stale(d) \in Sound[d]
  <2>1. CASE d = 0
    BY <2>1, FreshIs, StaleIs, SoundIs, Constants
  <2>2. CASE d # 0
    BY <2>2, SoundIs, Constants
  <2>3. QED BY <2>1, <2>2
<1>2. ASSUME NEW d \in 1 .. Depth, NEW l \in Sound[d - 1], NEW r \in Sound[d - 1]
      PROVE  Refresh(l, r) \in Sound[d]
  <2>1. <<l, r>> \in Sound[d - 1] \X Sound[d - 1]
    OBVIOUS
  <2>2. Refresh(<<l, r>>[1], <<l, r>>[2]) \in Sound[d]
    BY <2>1, SoundIs
  <2>3. QED BY <2>2
<1>3. QED BY <1>1, <1>2, SoundIs

\* A sound block that is labelled free was never touched, or it is as if it had not been.
LEMMA FreeIsFresh ==
    ASSUME NEW d \in Orders, NEW t \in Sound[d], t.max = d
    PROVE  t = FreshBlock[d]
<1>1. CASE d = 0
  BY <1>1, PageIs, SoundIs
<1>2. CASE d # 0
  <2>1. d \in 1 .. Depth /\ d \notin -1 .. d - 1 /\ d # -1
    BY <1>2, Constants
  <2>2. QED BY <2>1, SoundParts, StaleIs, Constants
<1>3. QED BY <1>1, <1>2

\* Labelling a block as it is labelled changes nothing.
LEMMA RelabelSame ==
    ASSUME NEW d \in Orders, NEW t \in Block[d]
    PROVE  Relabel(t, t.max) = t
<1>1. CASE d = 0
  <2>1. t \in [max : {-1, 0}, kids : {<< >>}]
    BY <1>1, BlockIs
  <2>2. QED BY <2>1 DEF Relabel
<1>2. CASE d # 0
  <2>1. PICK K : K = Block[d - 1] \X Block[d - 1]
    OBVIOUS
  <2>2. t \in [max : -1 .. d, kids : K]
    BY <1>2, <2>1, BlockIs, Constants
  <2>3. QED BY <2>2 DEF Relabel
<1>3. QED BY <1>1, <1>2

\* Bytes of the lower half and, moved up, of the upper half.
Up(d, R) == {Mid(d) + b : b \in R}

\* The bytes of a block are those of its halves.
LEMMA BytesOfHalves ==
    ASSUME NEW d \in 1 .. Depth
    PROVE  /\ Bytes(d) = Bytes(d - 1) \cup Up(d, Bytes(d - 1))
           /\ Bytes(d - 1) \subseteq Bytes(d)
           /\ \A b \in Bytes(d - 1) : b \in Nat /\ b < Mid(d) /\ Mid(d) + b \in Bytes(d)
           /\ Lo(d, Bytes(d)) = Bytes(d - 1) /\ Hi(d, Bytes(d)) = Bytes(d - 1)
           /\ Lo(d, {}) = {} /\ Hi(d, {}) = {}
           /\ Bytes(d) # {} /\ Bytes(d - 1) # {}
<1>1. PICK m : m = Mid(d)
  OBVIOUS
<1>2. m \in Nat \ {0} /\ Bytes(d) = 0 .. 2 * m - 1 /\ Bytes(d - 1) = 0 .. m - 1
  BY <1>1, Halves DEF Bytes
<1>3. \A b \in 0 .. m - 1 : b \in Nat /\ b < m /\ m + b \in 0 .. 2 * m - 1 /\ b \in 0 .. 2 * m - 1
  BY <1>2
<1>4. \A c \in 0 .. 2 * m - 1 : c \in 0 .. m - 1 \/ (c - m \in 0 .. m - 1 /\ c = m + (c - m))
  BY <1>2
<1>5. 0 \in 0 .. m - 1 /\ 0 \in 0 .. 2 * m - 1
  BY <1>2
<1>6. Up(d, Bytes(d - 1)) = {m + b : b \in 0 .. m - 1}
  BY <1>1, <1>2 DEF Up
<1>7. Bytes(d) = Bytes(d - 1) \cup Up(d, Bytes(d - 1))
  BY <1>2, <1>3, <1>4, <1>6
<1>8. Lo(d, Bytes(d)) = Bytes(d - 1) /\ Hi(d, Bytes(d)) = Bytes(d - 1)
  BY <1>1, <1>2, <1>3 DEF Lo, Hi
<1>9. Lo(d, {}) = {} /\ Hi(d, {}) = {}
  BY DEF Lo, Hi
<1>10. QED BY <1>1, <1>2, <1>3, <1>5, <1>7, <1>8, <1>9

\* What a block calls free is in the block.
LEMMA FreeInBlock ==
    \A d \in Orders : \A t \in Block[d] : FreeBytes[d][t] \in SUBSET Bytes(d)
<1> DEFINE S == {d \in Orders : \A t \in Block[d] : FreeBytes[d][t] \in SUBSET Bytes(d)}
<1>1. 0 \in S
  BY FreeBytesIs, TotalSizeIs, Constants DEF Bytes
<1>2. ASSUME NEW d \in 1 .. Depth, d - 1 \in S PROVE d \in S
  <2>1. ASSUME NEW t \in Block[d] PROVE FreeBytes[d][t] \in SUBSET Bytes(d)
    <3>1. PICK l, r : l = FreeBytes[d - 1][t.kids[1]] /\ r = FreeBytes[d - 1][t.kids[2]]
      OBVIOUS
    <3>2. l \in SUBSET Bytes(d - 1) /\ r \in SUBSET Bytes(d - 1)
      BY <1>2, <3>1, BlockParts
    <3>3. FreeBytes[d][t] \in {{}, Bytes(d), l \cup {Mid(d) + b : b \in r}}
      BY <3>1, FreeBytesIs DEF BlockFreeBytes, Bytes
    <3>4. l \cup {Mid(d) + b : b \in r} \in SUBSET Bytes(d)
      BY <3>2, BytesOfHalves
    <3>5. QED BY <3>3, <3>4
  <2>2. QED BY <2>1, Constants
<1>3. \A d \in Orders : d \in S
  <2> HIDE DEF S
  <2>1. QED BY <1>1, <1>2, OrderInduction
<1>4. QED BY <1>3

\* A block that was never touched is free; one labelled -1 has no free byte; for any other,
\* the labels of its children tell.
LEMMA FreeCases ==
    ASSUME NEW d \in Orders
    PROVE  /\ FreeBytes[d][FreshBlock[d]] = Bytes(d)
           /\ \A t \in Block[d] : t.max = -1 => FreeBytes[d][t] = {}
           /\ d # 0 => \A l, r \in Block[d - 1] :
                 FreeBytes[d][Refresh(l, r)] = FreeBytes[d - 1][l] \cup Up(d, FreeBytes[d - 1][r])
<1>1. ASSUME NEW e \in Orders, NEW t \in Block[e], t.max = -1 PROVE FreeBytes[e][t] = {}
  <2>1. CASE e = 0
    BY <1>1, <2>1, FreeBytesIs
  <2>2. CASE e # 0
    <3>1. e \in 1 .. Depth
      BY <2>2, Constants
    <3>2. FreeBytes[e][t] = BlockFreeBytes(e, FreeBytes[e - 1], t)
      BY <3>1, FreeBytesIs
    <3>3. QED BY <1>1, <3>2 DEF BlockFreeBytes
  <2>3. QED BY <2>1, <2>2
<1>2. FreeBytes[d][FreshBlock[d]] = Bytes(d)
  <2>1. FreshBlock[d] \in Block[d] /\ FreshBlock[d].max = d /\ d # -1
    BY FreshIs, Constants
  <2>2. CASE d = 0
    BY <2>1, <2>2, FreeBytesIs, TotalSizeIs DEF Bytes
  <2>3. CASE d # 0
    BY <2>1, <2>3, FreeBytesIs, Constants DEF BlockFreeBytes, Bytes
  <2>4. QED BY <2>2, <2>3
<1>3. ASSUME d # 0, NEW l \in Block[d - 1], NEW r \in Block[d - 1]
      PROVE  FreeBytes[d][Refresh(l, r)] = FreeBytes[d - 1][l] \cup Up(d, FreeBytes[d - 1][r])
  <2>1. PICK u : u = Refresh(l, r)
    OBVIOUS
  <2>2. d \in 1 .. Depth
    BY <1>3, Constants
  <2>3. /\ u \in Block[d] /\ u.max = Max2(l.max, r.max) /\ u.kids[1] = l /\ u.kids[2] = r
        /\ l.max \in -1 .. d - 1 /\ r.max \in -1 .. d - 1 /\ u.max \in -1 .. d - 1
    BY <2>1, <2>2, RefreshIs
  <2>4. CASE u.max = -1
    <3>1. l.max = -1 /\ r.max = -1
      BY <2>2, <2>3, <2>4 DEF Max2
    <3>2. FreeBytes[d][u] = {}
      BY <1>1, <2>3, <2>4
    <3>3. FreeBytes[d - 1][l] = {} /\ FreeBytes[d - 1][r] = {}
      BY <1>1, <2>2, <3>1, Constants
    <3>4. QED BY <2>1, <3>2, <3>3 DEF Up
  <2>5. CASE u.max # -1
    <3>1. u.max # d
      BY <2>2, <2>3
    <3>2. FreeBytes[d][u] = BlockFreeBytes(d, FreeBytes[d - 1], u)
      BY <2>2, <2>3, FreeBytesIs
    <3>3. QED BY <2>1, <2>3, <2>5, <3>1, <3>2 DEF BlockFreeBytes, Up
  <2>6. QED BY <2>4, <2>5
<1>4. QED BY <1>1, <1>2, <1>3

\* What is held in a block is a part of it; the empty set always is, a block taken as a
\* whole holds all its bytes, and a free block nothing else than the empty set.
LEMMA HeldCases ==
    ASSUME NEW d \in Orders, NEW t \in Block[d]
    PROVE  /\ Held[d][t] \in SUBSET SUBSET Bytes(d)
           /\ {} \in Held[d][t]
           /\ t = Stale(d) => Bytes(d) \in Held[d][t]
           /\ t = FreshBlock[d] => \A R \in Held[d][t] : R = {}
           /\ \A R \in Held[d][t] : R = Bytes(d) => t = Stale(d)
<1>1. /\ Stale(d) \in Block[d] /\ Stale(d).max = -1 /\ FreshBlock[d].max = d /\ d # -1
      /\ Held[d] \in [Block[d] -> SUBSET SUBSET Bytes(d)]
  BY StaleIs, FreshIs, HeldIs, Constants
<1>2. CASE d = 0
  <2>1. Held[0][t] = IF t.max = -1 THEN {{}, Bytes(0)} ELSE {{}}
    BY <1>2, HeldIs
  <2>2. Bytes(0) # {}
    <3>1. TotalSize[0] \in Nat \ {0}
      BY TotalSizeIs, Constants
    <3>2. 0 \in Bytes(0)
      BY <3>1 DEF Bytes
    <3>3. QED BY <3>2
  <2>3. t.max = -1 <=> t = Stale(0)
    BY <1>2, PageIs
  <2>4. QED BY <1>1, <1>2, <2>1, <2>2, <2>3
<1>3. CASE d # 0
  <2>1. d \in 1 .. Depth
    BY <1>3, Constants
  <2>2. Held[d][t] = BlockHeld(d, Held[d - 1], t)
    BY <2>1, HeldIs
  <2>3. Bytes(d) # {}
    BY <2>1, BytesOfHalves
  <2>4. t = FreshBlock[d] => t # Stale(d)
    BY <1>1
  <2>5. QED BY <1>1, <2>2, <2>3, <2>4 DEF BlockHeld
<1>4. QED BY <1>2, <1>3

\* A block holds what its children hold.
LEMMA HeldBelow ==
    ASSUME NEW d \in 1 .. Depth, NEW t \in Block[d], t # FreshBlock[d],
           NEW R \in SUBSET Bytes(d), R # Bytes(d),
           Lo(d, R) \in Held[d - 1][t.kids[1]], Hi(d, R) \in Held[d - 1][t.kids[2]]
    PROVE  R \in Held[d][t]
BY HeldIs DEF BlockHeld

\* Its children hold what a block holds, when it is not held as a whole.
LEMMA HeldAbove ==
    ASSUME NEW d \in 1 .. Depth, NEW t \in Block[d], NEW R \in Held[d][t], t # Stale(d)
    PROVE  /\ R # Bytes(d)
           /\ Lo(d, R) \in Held[d - 1][t.kids[1]] /\ Hi(d, R) \in Held[d - 1][t.kids[2]]
<1>1. R \in BlockHeld(d, Held[d - 1], t)
  BY HeldIs
<1>2. t.kids[1] \in Block[d - 1] /\ t.kids[2] \in Block[d - 1] /\ d - 1 \in Orders
  BY BlockParts, Constants
<1>3. {} \in Held[d - 1][t.kids[1]] /\ {} \in Held[d - 1][t.kids[2]]
  BY <1>2, HeldCases
<1>4. Lo(d, {}) = {} /\ Hi(d, {}) = {} /\ Bytes(d) # {}
  BY BytesOfHalves
<1>5. QED BY <1>1, <1>3, <1>4 DEF BlockHeld

\* The block t of order d has the children l and r, which tell what it has free and hold
\* what it holds.
Opened(d, t, l, r) ==
    /\ l \in Sound[d - 1] /\ r \in Sound[d - 1]
    /\ FreeBytes[d][t] = FreeBytes[d - 1][l] \cup Up(d, FreeBytes[d - 1][r])
    /\ \A R \in Held[d][t] : Lo(d, R) \in Held[d - 1][l] /\ Hi(d, R) \in Held[d - 1][r]

\* So it is with blocks whose label follows from those of their children.
LEMMA OpenRefreshed ==
    ASSUME NEW d \in 1 .. Depth, NEW t \in Sound[d], t = Refresh(t.kids[1], t.kids[2]),
           t # Stale(d)
    PROVE  Opened(d, t, t.kids[1], t.kids[2])
<1>1. t \in Block[d] /\ t.kids[1] \in Sound[d - 1] /\ t.kids[2] \in Sound[d - 1]
  BY SoundParts
<1>2. t.kids[1] \in Block[d - 1] /\ t.kids[2] \in Block[d - 1] /\ d \in Orders /\ d # 0
  BY <1>1, BlockParts, Constants
<1>3. FreeBytes[d][t] = FreeBytes[d - 1][t.kids[1]] \cup Up(d, FreeBytes[d - 1][t.kids[2]])
  BY <1>2, FreeCases
<1>4. \A R \in Held[d][t] : /\ Lo(d, R) \in Held[d - 1][t.kids[1]]
                            /\ Hi(d, R) \in Held[d - 1][t.kids[2]]
  BY <1>1, HeldAbove
<1>5. QED BY <1>1, <1>3, <1>4 DEF Opened

\* So it is with a block that was never touched.
LEMMA OpenFresh ==
    ASSUME NEW d \in 1 .. Depth
    PROVE  Opened(d, FreshBlock[d], FreshBlock[d - 1], FreshBlock[d - 1])
<1>1. /\ d \in Orders /\ d - 1 \in Orders /\ FreshBlock[d] \in Block[d]
      /\ FreshBlock[d - 1] \in Block[d - 1] /\ FreshBlock[d - 1] \in Sound[d - 1]
  BY FreshIs, SoundOnes, Constants
<1>2. FreeBytes[d][FreshBlock[d]] = Bytes(d) /\ FreeBytes[d - 1][FreshBlock[d - 1]] = Bytes(d - 1)
  BY <1>1, FreeCases
<1>3. Bytes(d) = Bytes(d - 1) \cup Up(d, Bytes(d - 1)) /\ Lo(d, {}) = {} /\ Hi(d, {}) = {}
  BY BytesOfHalves
<1>4. \A R \in Held[d][FreshBlock[d]] : R = {}
  BY <1>1, HeldCases
<1>5. {} \in Held[d - 1][FreshBlock[d - 1]]
  BY <1>1, HeldCases
<1>6. QED BY <1>1, <1>2, <1>3, <1>4, <1>5 DEF Opened

\* So it is with a block taken as a whole, once its children are labelled taken as well.
LEMMA OpenStale ==
    ASSUME NEW d \in 1 .. Depth
    PROVE  Opened(d, Stale(d), Stale(d - 1), Stale(d - 1))
<1>1. /\ d \in Orders /\ d - 1 \in Orders /\ Stale(d) \in Block[d] /\ Stale(d).max = -1
      /\ Stale(d - 1) \in Block[d - 1] /\ Stale(d - 1) \in Sound[d - 1] /\ Stale(d - 1).max = -1
  BY StaleIs, SoundOnes, Constants
<1>2. FreeBytes[d][Stale(d)] = {} /\ FreeBytes[d - 1][Stale(d - 1)] = {} /\ Up(d, {}) = {}
  BY <1>1, FreeCases DEF Up
<1>3. /\ Lo(d, {}) = {} /\ Hi(d, {}) = {}
      /\ Lo(d, Bytes(d)) = Bytes(d - 1) /\ Hi(d, Bytes(d)) = Bytes(d - 1)
  BY BytesOfHalves
<1>4. {} \in Held[d - 1][Stale(d - 1)] /\ Bytes(d - 1) \in Held[d - 1][Stale(d - 1)]
  BY <1>1, HeldCases
<1>5. ASSUME NEW R \in Held[d][Stale(d)] PROVE R = {} \/ R = Bytes(d)
  <2>1. R \in BlockHeld(d, Held[d - 1], Stale(d))
    BY <1>1, HeldIs
  <2>2. Stale(d).kids[1] = FreshBlock[d - 1] /\ Stale(d).kids[2] = FreshBlock[d - 1]
    BY StaleIs
  <2>3. \A Q \in Held[d - 1][FreshBlock[d - 1]] : Q = {}
    BY <1>1, FreshIs, HeldCases
  <2>4. R \in SUBSET Bytes(d) /\ (Lo(d, R) = {} /\ Hi(d, R) = {} => R = {})
    <3>1. R \in SUBSET Bytes(d)
      BY <2>1 DEF BlockHeld
    <3>2. Bytes(d) = Bytes(d - 1) \cup Up(d, Bytes(d - 1))
      BY BytesOfHalves
    <3>3. ASSUME NEW b \in R, Lo(d, R) = {}, Hi(d, R) = {} PROVE FALSE
      BY <3>1, <3>2, <3>3 DEF Lo, Hi, Up
    <3>4. QED BY <3>1, <3>3
  <2>5. QED BY <2>1, <2>2, <2>3, <2>4 DEF BlockHeld
<1>6. QED BY <1>1, <1>2, <1>3, <1>4, <1>5 DEF Opened

\* mark_used() and get_range() enter a block that is not taken, and free_range() any block,
\* and see in its children what it has.
LEMMA Open ==
    ASSUME NEW d \in 1 .. Depth, NEW t \in Sound[d], NEW s,
           (t.max # -1 /\ s = Split(t, d)) \/ s = Occupy(t)
    PROVE  s \in Block[d] /\ s.max = t.max /\ Opened(d, t, s.kids[1], s.kids[2])
<1>1. /\ t \in Block[d] /\ t.kids[1] \in Sound[d - 1] /\ t.kids[2] \in Sound[d - 1]
      /\ d # -1 /\ d - 1 # -1 /\ d - 1 \in Orders /\ d \in Orders
  BY SoundParts, Constants
<1>2. t.kids[1] \in Block[d - 1] /\ t.kids[2] \in Block[d - 1]
  BY <1>1, BlockParts
<1>3. s \in Block[d] /\ s.max = t.max
  BY <1>1, SplitIs, OccupyIs
<1>4. CASE t = FreshBlock[d]
  <2>1. /\ t.max = d /\ t.kids[1] = FreshBlock[d - 1] /\ t.kids[2] = FreshBlock[d - 1]
        /\ FreshBlock[d - 1].max = d - 1 /\ FreshBlock[d - 1] \in Block[d - 1]
    <3>1. t.kids[1] = FreshBlock[d - 1] /\ t.kids[2] = FreshBlock[d - 1]
      <4>1. /\ t = Node(d, FreshBlock[d - 1], FreshBlock[d - 1]) /\ d \in -1 .. d
            /\ FreshBlock[d - 1] \in Block[d - 1]
        BY <1>1, <1>4, FreshIs, Constants
      <4>2. QED BY <4>1, NodeIs
    <3>2. QED BY <1>1, <1>4, <3>1, FreshIs
  <2>2. Relabel(FreshBlock[d - 1], d - 1) = FreshBlock[d - 1]
    BY <1>1, <2>1, RelabelSame
  <2>3. s.kids[1] = FreshBlock[d - 1] /\ s.kids[2] = FreshBlock[d - 1]
    BY <1>1, <2>1, <2>2, SplitIs, OccupyIs
  <2>4. QED BY <1>3, <1>4, <2>3, OpenFresh
<1>5. CASE t = Stale(d)
  <2>1. t.max = -1 /\ t.kids[1] = FreshBlock[d - 1] /\ t.kids[2] = FreshBlock[d - 1]
    BY <1>1, <1>5, StaleIs
  <2>2. s.kids[1] = Stale(d - 1) /\ s.kids[2] = Stale(d - 1)
    BY <1>1, <2>1, OccupyIs DEF Stale
  <2>3. QED BY <1>3, <1>5, <2>2, OpenStale
<1>6. CASE t # Stale(d) /\ t = Refresh(t.kids[1], t.kids[2]) /\ t.max \in -1 .. d - 1
  <2>1. t.max # d
    BY <1>6, Constants
  <2>2. t.max = -1 => t.kids[1].max = -1 /\ t.kids[2].max = -1
    <3>1. /\ t.max = Max2(t.kids[1].max, t.kids[2].max)
          /\ t.kids[1].max \in -1 .. d - 1 /\ t.kids[2].max \in -1 .. d - 1
      BY <1>2, <1>6, RefreshIs
    <3>2. QED BY <3>1, Constants DEF Max2
  <2>3. s.kids[1] = t.kids[1] /\ s.kids[2] = t.kids[2]
    <3>1. t.max = -1 => /\ Relabel(t.kids[1], -1) = t.kids[1]
                        /\ Relabel(t.kids[2], -1) = t.kids[2]
      BY <1>1, <1>2, <2>2, RelabelSame
    <3>2. QED BY <1>1, <2>1, <3>1, SplitIs, OccupyIs
  <2>4. QED BY <1>3, <1>6, <2>3, OpenRefreshed
<1>7. QED BY <1>4, <1>5, <1>6, SoundParts

\* When the operation on the two children is over, the label is worked out again, by
\* mark_used() and get_range() or by free_range().
Joined(d, u, l, r) == u = Refresh(l, r) \/ u = Coalesce(l, r, d)

\* A block joined again tells what its children have free, and holds what they hold.
LEMMA Join ==
    ASSUME NEW d \in 1 .. Depth, NEW l \in Sound[d - 1], NEW r \in Sound[d - 1], NEW u,
           Joined(d, u, l, r)
    PROVE  /\ u \in Sound[d]
           /\ FreeBytes[d][u] = FreeBytes[d - 1][l] \cup Up(d, FreeBytes[d - 1][r])
           /\ \A R \in SUBSET Bytes(d) :
                 R # Bytes(d) /\ Lo(d, R) \in Held[d - 1][l] /\ Hi(d, R) \in Held[d - 1][r]
                    => R \in Held[d][u]
<1>1. /\ l \in Block[d - 1] /\ r \in Block[d - 1] /\ d \in Orders /\ d - 1 \in Orders /\ d # 0
      /\ FreshBlock[d - 1] \in Block[d - 1] /\ FreshBlock[d].max = d /\ d \notin -1 .. d - 1
  <2>1. d \in Orders /\ d - 1 \in Orders /\ d # 0 /\ d \notin -1 .. d - 1
    BY Constants
  <2>2. QED BY <2>1, SoundOnes, FreshIs
<1>2. CASE u = Refresh(l, r)
  <2>1. u \in Sound[d] /\ FreeBytes[d][u] = FreeBytes[d - 1][l] \cup Up(d, FreeBytes[d - 1][r])
    BY <1>1, <1>2, SoundOnes, FreeCases
  <2>2. u \in Block[d] /\ u.kids[1] = l /\ u.kids[2] = r /\ u # FreshBlock[d]
    BY <1>1, <1>2, RefreshIs
  <2>3. QED BY <2>1, <2>2, HeldBelow
<1>3. CASE u = Coalesce(l, r, d) /\ u # Refresh(l, r)
  <2>1. /\ u \in Block[d] /\ u.kids[1] = l /\ u.kids[2] = r
        /\ u.max = d /\ l.max = d - 1 /\ r.max = d - 1
    BY <1>1, <1>3, CoalesceIs
  <2>2. l = FreshBlock[d - 1] /\ r = FreshBlock[d - 1]
    BY <1>1, <2>1, FreeIsFresh
  <2>3. u = FreshBlock[d]
    <3>1. u = Node(d, l, r)
      BY <2>1, BlockParts
    <3>2. QED BY <2>2, <3>1, FreshIs
  <2>4. u \in Sound[d] /\ FreeBytes[d][u] = FreeBytes[d - 1][l] \cup Up(d, FreeBytes[d - 1][r])
    <3>1. Opened(d, u, l, r)
      BY <2>2, <2>3, OpenFresh
    <3>2. QED BY <1>1, <2>3, <3>1, SoundOnes DEF Opened
  <2>5. ASSUME NEW R \in SUBSET Bytes(d), Lo(d, R) \in Held[d - 1][l], Hi(d, R) \in Held[d - 1][r]
        PROVE  R \in Held[d][u]
    <3>1. Lo(d, R) = {} /\ Hi(d, R) = {}
      BY <1>1, <2>2, <2>5, HeldCases
    <3>2. R = {}
      BY <2>5, <3>1, BytesOfHalves DEF Lo, Hi, Up
    <3>3. QED BY <1>1, <2>1, <3>2, HeldCases
  <2>6. QED BY <2>4, <2>5
<1>4. QED BY <1>2, <1>3 DEF Joined

--------------------------------------------------------------------------------
(* mark_used() *)

\* The bytes of a block in a range.
Span(d, addr, size) == {b \in Bytes(d) : addr <= b /\ b < addr + size}

\* They are those of its halves in the two parts of the range.
LEMMA SpanOfHalves ==
    ASSUME NEW d \in 1 .. Depth, NEW addr \in Nat, NEW size \in Nat
    PROVE  /\ Lo(d, Span(d, addr, size)) = Span(d - 1, addr, Lower(d, addr, size))
           /\ Hi(d, Span(d, addr, size)) = Span(d - 1, UpperAt(d, addr), Upper(d, addr, size))
<1>1. PICK m : m = Mid(d)
  OBVIOUS
<1>2. m \in Nat \ {0} /\ Bytes(d) = 0 .. 2 * m - 1 /\ Bytes(d - 1) = 0 .. m - 1
  BY <1>1, Halves DEF Bytes
<1>3. PICK low, up, at : /\ low = Lower(d, addr, size) /\ up = Upper(d, addr, size)
                         /\ at = UpperAt(d, addr)
  OBVIOUS
<1>4. /\ low = IF addr >= m THEN 0 ELSE IF addr + size <= m THEN size ELSE m - addr
      /\ up = size - low /\ at = IF addr >= m THEN addr - m ELSE 0
  BY <1>1, <1>3 DEF Lower, Upper, UpperAt
<1>5. ASSUME NEW b \in 0 .. m - 1
      PROVE  /\ (addr <= b /\ b < addr + size) <=> (addr <= b /\ b < addr + low)
             /\ (addr <= m + b /\ m + b < addr + size) <=> (at <= b /\ b < at + up)
             /\ b \in 0 .. 2 * m - 1 /\ m + b \in 0 .. 2 * m - 1
  BY <1>2, <1>4
<1>6. Lo(d, Span(d, addr, size)) = Span(d - 1, addr, low)
  BY <1>2, <1>5 DEF Lo, Span
<1>7. Hi(d, Span(d, addr, size)) = Span(d - 1, at, up)
  BY <1>1, <1>2, <1>5 DEF Hi, Span
<1>8. QED BY <1>3, <1>6, <1>7

\* When a range is the whole of a block and when it is nothing of it.
LEMMA SpanCases ==
    ASSUME NEW d \in Orders, NEW addr \in Nat, NEW size \in Nat
    PROVE  /\ Span(d, addr, size) = Bytes(d) <=> addr = 0 /\ size >= TotalSize[d]
           /\ Span(d, addr, size) = {} <=> size = 0 \/ addr >= TotalSize[d]
<1>1. PICK n : n = TotalSize[d]
  OBVIOUS
<1>2. n \in Nat \ {0} /\ Bytes(d) = 0 .. n - 1 /\ 0 \in Bytes(d) /\ n - 1 \in Bytes(d)
  BY <1>1, TotalSizeIs DEF Bytes
<1>3. ASSUME Span(d, addr, size) = Bytes(d) PROVE addr = 0 /\ size >= n
  <2>1. 0 \in Span(d, addr, size) /\ n - 1 \in Span(d, addr, size)
    BY <1>2, <1>3
  <2>2. addr <= 0 /\ n - 1 < addr + size
    BY <2>1 DEF Span
  <2>3. QED BY <1>2, <2>2
<1>4. addr = 0 /\ size >= n => Span(d, addr, size) = Bytes(d)
  BY <1>2 DEF Span
<1>5. size = 0 \/ addr >= n => Span(d, addr, size) = {}
  BY <1>2 DEF Span
<1>6. size > 0 /\ addr < n => addr \in Span(d, addr, size)
  BY <1>2 DEF Span
<1>7. QED BY <1>1, <1>2, <1>3, <1>4, <1>5, <1>6

\* The block u is t after the bytes R have been taken.
Takes(d, t, u, R) ==
    /\ u \in Sound[d]
    /\ FreeBytes[d][u] = FreeBytes[d][t] \ R
    /\ R \in Held[d][u]
    /\ \A Q \in Held[d][t] : Q \in Held[d][u]

\* Taking bytes of both children takes them of a block.
LEMMA TakesBelow ==
    ASSUME NEW d \in 1 .. Depth, NEW t \in Sound[d], t.max # -1, NEW l, NEW r,
           Opened(d, t, l, r), NEW k, NEW h, NEW R \in SUBSET Bytes(d), R # Bytes(d),
           Takes(d - 1, l, k, Lo(d, R)), Takes(d - 1, r, h, Hi(d, R))
    PROVE  Takes(d, t, Refresh(k, h), R)
<1>1. PICK u : u = Refresh(k, h)
  OBVIOUS
<1>2. k \in Sound[d - 1] /\ h \in Sound[d - 1] /\ l \in Block[d - 1] /\ r \in Block[d - 1]
  BY SoundOnes, Constants DEF Takes, Opened
<1>3. /\ u \in Sound[d]
      /\ FreeBytes[d][u] = FreeBytes[d - 1][k] \cup Up(d, FreeBytes[d - 1][h])
      /\ \A Q \in SUBSET Bytes(d) :
            Q # Bytes(d) /\ Lo(d, Q) \in Held[d - 1][k] /\ Hi(d, Q) \in Held[d - 1][h]
               => Q \in Held[d][u]
  BY <1>1, <1>2, Join DEF Joined
<1>4. R \in Held[d][u]
  BY <1>3 DEF Takes
<1>5. ASSUME NEW Q \in Held[d][t] PROVE Q \in Held[d][u]
  <2>1. t \in Block[d] /\ t # Stale(d) /\ d \in Orders
    BY SoundOnes, StaleIs, Constants
  <2>2. Q \in SUBSET Bytes(d) /\ Q # Bytes(d)
    BY <2>1, HeldCases
  <2>3. Lo(d, Q) \in Held[d - 1][l] /\ Hi(d, Q) \in Held[d - 1][r]
    BY DEF Opened
  <2>4. QED BY <1>3, <2>2, <2>3 DEF Takes
<1>6. FreeBytes[d][u] = FreeBytes[d][t] \ R
  <2>1. PICK L, H : L = FreeBytes[d - 1][l] /\ H = FreeBytes[d - 1][r]
    OBVIOUS
  <2>2. L \in SUBSET Bytes(d - 1) /\ H \in SUBSET Bytes(d - 1)
    BY <1>2, <2>1, FreeInBlock, Constants
  <2>3. FreeBytes[d][u] = (L \ Lo(d, R)) \cup Up(d, H \ Hi(d, R))
    BY <1>3, <2>1 DEF Takes
  <2>4. FreeBytes[d][t] = L \cup Up(d, H)
    BY <2>1 DEF Opened
  <2>5. Up(d, H \ Hi(d, R)) = Up(d, H) \ R
    BY <2>2, BytesOfHalves, Halves DEF Up, Hi
  <2>6. L \ Lo(d, R) = L \ R
    BY <2>2 DEF Lo
  <2>7. QED BY <2>3, <2>4, <2>5, <2>6
<1>7. QED BY <1>1, <1>3, <1>4, <1>5, <1>6 DEF Takes

\* Whole pages are multiples of the size of one.
LEMMA AlignedIs ==
    ASSUME NEW a \in Nat
    PROVE  Aligned(a) <=> \E k \in Nat : a = k * PageSize
<1>1. PageSize \in Nat \ {0} /\ 0 \in 0 .. PageSize - 1
  BY Constants
<1>2. ASSUME Aligned(a) PROVE \E k \in Nat : a = k * PageSize
  <2>1. a \div PageSize \in Nat /\ a = (a \div PageSize) * PageSize + (a % PageSize)
    BY <1>1, DivMod
  <2>2. PICK k \in Nat : k = a \div PageSize
    BY <2>1
  <2>3. a = k * PageSize + 0 /\ k * PageSize \in Nat
    BY <1>1, <1>2, <2>1, <2>2 DEF Aligned
  <2>4. QED BY <2>3
<1>3. ASSUME NEW k \in Nat, a = k * PageSize PROVE Aligned(a)
  <2>1. (k * PageSize + 0) % PageSize = 0
    BY <1>1, DivUnique
  <2>2. k * PageSize + 0 = a
    BY <1>1, <1>3
  <2>3. QED BY <2>1, <2>2 DEF Aligned
<1>4. QED BY <1>2, <1>3

\* Sums and differences of whole pages are whole pages; the least is one.
LEMMA AlignedSums ==
    ASSUME NEW a \in Nat, Aligned(a), NEW b \in Nat, Aligned(b)
    PROVE  /\ Aligned(a + b)
           /\ b <= a => Aligned(a - b)
           /\ a < PageSize => a = 0
           /\ Aligned(0)
<1>1. PICK k \in Nat : a = k * PageSize
  BY AlignedIs
<1>2. PICK j \in Nat : b = j * PageSize
  BY AlignedIs
<1>3. PageSize \in Nat \ {0}
  BY Constants
<1>4. Aligned(a + b)
  <2>1. (k + j) * PageSize = a + b
    BY <1>1, <1>2, <1>3, Multiples
  <2>2. QED BY <2>1, AlignedIs
<1>5. ASSUME b <= a PROVE Aligned(a - b)
  <2>1. ~(a < b) => j <= k
    BY <1>1, <1>2, <1>3, Multiples
  <2>2. j <= k
    BY <1>5, <2>1
  <2>3. ((k - j) + j) * PageSize = (k - j) * PageSize + j * PageSize /\ k - j \in Nat
    BY <1>3, <2>2, Multiples
  <2>4. (k - j) * PageSize \in Int /\ (k - j) + j = k
    BY <1>3, <2>2
  <2>5. a - b = (k - j) * PageSize
    BY <1>1, <1>2, <2>3, <2>4
  <2>6. QED BY <1>5, <2>3, <2>5, AlignedIs
<1>6. ASSUME a < PageSize PROVE a = 0
  <2>1. 1 * PageSize = PageSize /\ 0 * PageSize = 0
    BY <1>3
  <2>2. k * PageSize < 1 * PageSize => k < 1
    BY <1>3, Multiples
  <2>3. k = 0
    BY <1>1, <1>6, <2>1, <2>2
  <2>4. QED BY <1>1, <2>1, <2>3
<1>7. 0 = 0 * PageSize
  BY <1>3
<1>8. Aligned(0)
  BY <1>7, AlignedIs
<1>9. QED BY <1>4, <1>5, <1>6, <1>8

\* All blocks are whole pages.
LEMMA BlocksAligned == \A d \in Orders : Aligned(TotalSize[d])
<1> DEFINE S == {d \in Orders : Aligned(TotalSize[d])}
<1>1. 0 \in S
  <2>1. TotalSize[0] = 1 * PageSize /\ TotalSize[0] \in Nat /\ 0 \in Orders
    BY TotalSizeIs, Constants
  <2>2. QED BY <2>1, AlignedIs
<1>2. ASSUME NEW d \in 1 .. Depth, d - 1 \in S PROVE d \in S
  <2>1. PICK n : n = TotalSize[d - 1]
    OBVIOUS
  <2>2. n \in Nat /\ Aligned(n) /\ TotalSize[d] = n + n /\ d \in Orders
    BY <1>2, <2>1, TotalSizeIs, Constants
  <2>3. Aligned(n + n)
    BY <2>2, AlignedSums
  <2>4. QED BY <2>2, <2>3
<1> HIDE DEF S
<1>3. \A d \in Orders : d \in S
  BY <1>1, <1>2, OrderInduction
<1>4. QED BY <1>3 DEF S

\* Halves cut ranges of whole pages into ranges of whole pages.
LEMMA PartsAligned ==
    ASSUME NEW d \in 1 .. Depth, NEW addr \in Nat, Aligned(addr), NEW size \in Nat, Aligned(size)
    PROVE  /\ Aligned(Lower(d, addr, size)) /\ Aligned(Upper(d, addr, size))
           /\ Aligned(UpperAt(d, addr))
<1>1. PICK m : m = Mid(d)
  OBVIOUS
<1>2. m \in Nat /\ Aligned(m)
  BY <1>1, Halves, BlocksAligned, Constants
<1>3. PICK low : low = Lower(d, addr, size)
  OBVIOUS
<1>4. low = IF addr >= m THEN 0 ELSE IF addr + size <= m THEN size ELSE m - addr
  BY <1>1, <1>3 DEF Lower
<1>5. low \in Nat /\ low <= size
  BY <1>2, <1>4
<1>6. Aligned(0) /\ (addr < m => Aligned(m - addr)) /\ (addr >= m => Aligned(addr - m))
  <2>1. Aligned(0) /\ (addr <= m => Aligned(m - addr))
    BY <1>2, AlignedSums
  <2>2. m <= addr => Aligned(addr - m)
    BY <1>2, AlignedSums
  <2>3. QED BY <1>2, <2>1, <2>2
<1>7. Aligned(low)
  BY <1>2, <1>4, <1>6
<1>8. Aligned(size - low)
  BY <1>5, <1>7, AlignedSums
<1>9. Aligned(UpperAt(d, addr))
  BY <1>1, <1>2, <1>6 DEF UpperAt
<1>10. QED BY <1>3, <1>7, <1>8, <1>9 DEF Upper

\* A block taken as a whole was free.
LEMMA TakesWhole ==
    ASSUME NEW d \in Orders
    PROVE  Takes(d, FreshBlock[d], Stale(d), Bytes(d))
<1>1. /\ Stale(d) \in Sound[d] /\ Stale(d) \in Block[d] /\ Stale(d).max = -1
      /\ FreshBlock[d] \in Block[d]
  BY StaleIs, SoundOnes, FreshIs
<1>2. FreeBytes[d][Stale(d)] = {} /\ FreeBytes[d][FreshBlock[d]] = Bytes(d)
  BY <1>1, FreeCases
<1>3. /\ {} \in Held[d][Stale(d)] /\ Bytes(d) \in Held[d][Stale(d)]
      /\ \A R \in Held[d][FreshBlock[d]] : R = {}
  BY <1>1, HeldCases
<1>4. QED BY <1>1, <1>2, <1>3 DEF Takes

\* Nothing is taken of a block that stays as it is.
LEMMA TakesNothing ==
    ASSUME NEW d \in Orders, NEW t \in Sound[d]
    PROVE  Takes(d, t, t, {})
<1>1. {} \in Held[d][t]
  BY SoundOnes, HeldCases
<1>2. QED BY <1>1 DEF Takes

\* mark_used() of whole pages of a free block takes them; of a range that lies above a
\* block, such as that at alloc_null, it takes nothing.
Takeable(d, t, addr, size) ==
    \/ t = FreshBlock[d] /\ Aligned(addr) /\ Aligned(size)
    \/ Span(d, addr, size) = {}

\* What mark_used() does then on the block t of order d.
MarkTakes(d, t, addr, size) ==
    Takes(d, t, MarkUsed[d][<<t, addr, size>>], Span(d, addr, size))

\* It does so on a page.
LEMMA PageTakes ==
    ASSUME NEW t \in Sound[0], NEW addr \in Nat, NEW size \in Nat, Takeable(0, t, addr, size)
    PROVE  MarkTakes(0, t, addr, size)
<1>1. /\ t \in Block[0] /\ <<t, addr, size>> \in Calls(0) /\ PageSize \in Nat \ {0}
      /\ TotalSize[0] = PageSize /\ 0 \in Orders
  BY SoundIs, TotalSizeIs, Constants DEF Calls
<1>2. MarkUsed[0][<<t, addr, size>>] = PageMarkUsed(t, addr, size)
  BY <1>1, MarkUsedIs
<1>3. CASE size > 0 /\ addr < PageSize
  <2>1. Span(0, addr, size) # {}
    BY <1>1, <1>3, SpanCases
  <2>2. t = FreshBlock[0] /\ Aligned(addr) /\ Aligned(size)
    BY <2>1 DEF Takeable
  <2>3. addr = 0 /\ size >= PageSize
    BY <1>1, <1>3, <2>2, AlignedSums
  <2>4. Span(0, addr, size) = Bytes(0)
    BY <1>1, <2>3, SpanCases
  <2>5. PageMarkUsed(t, addr, size) = Stale(0)
    BY <1>3, <2>2 DEF PageMarkUsed, Stale
  <2>6. QED BY <1>1, <1>2, <2>2, <2>4, <2>5, TakesWhole DEF MarkTakes
<1>4. CASE ~(size > 0 /\ addr < PageSize)
  <2>1. Span(0, addr, size) = {}
    BY <1>1, <1>4, SpanCases
  <2>2. PageMarkUsed(t, addr, size) = t
    BY <1>4 DEF PageMarkUsed
  <2>3. QED BY <1>1, <1>2, <2>1, <2>2, TakesNothing DEF MarkTakes
<1>5. QED BY <1>3, <1>4

\* Nothing is marked when there is nothing to mark.
LEMMA MarksNothing ==
    ASSUME NEW d \in Orders, NEW t \in Sound[d], NEW addr \in Nat
    PROVE  MarkTakes(d, t, addr, 0)
<1>1. t \in Block[d] /\ <<t, addr, 0>> \in Calls(d)
  BY SoundOnes DEF Calls
<1>2. MarkUsed[d][<<t, addr, 0>>] = t
  <2>1. CASE d = 0
    BY <1>1, <2>1, MarkUsedIs DEF PageMarkUsed
  <2>2. CASE d # 0
    <3>1. d \in 1 .. Depth
      BY <2>2, Constants
    <3>2. MarkUsed[d][<<t, addr, 0>>] = BlockMarkUsed(d, MarkUsed[d - 1], t, addr, 0)
      BY <1>1, <3>1, MarkUsedIs
    <3>3. QED BY <3>2 DEF BlockMarkUsed
  <2>3. QED BY <2>1, <2>2
<1>3. Span(d, addr, 0) = {}
  BY SpanCases
<1>4. QED BY <1>2, <1>3, TakesNothing DEF MarkTakes

\* How mark_used() enters a block.
LEMMA MarkEnters ==
    ASSUME NEW d \in 1 .. Depth, NEW t \in Block[d], t.max # -1, NEW addr \in Nat, NEW size \in Nat,
           size # 0, ~(addr = 0 /\ size >= TotalSize[d]), NEW s, s = Split(t, d)
    PROVE  MarkUsed[d][<<t, addr, size>>] =
              Refresh(MarkUsed[d - 1][<<s.kids[1], addr, Lower(d, addr, size)>>],
                      MarkUsed[d - 1][<<s.kids[2], UpperAt(d, addr), Upper(d, addr, size)>>])
<1>1. <<t, addr, size>> \in Calls(d)
  BY DEF Calls
<1>2. MarkUsed[d][<<t, addr, size>>] = BlockMarkUsed(d, MarkUsed[d - 1], t, addr, size)
  BY <1>1, MarkUsedIs
<1>3. QED BY <1>2 DEF BlockMarkUsed

\* A range is taken when each half takes its part.
LEMMA MarkTakesBelow ==
    ASSUME NEW d \in 1 .. Depth, NEW t \in Sound[d], t.max # -1, NEW addr \in Nat, NEW size \in Nat,
           size # 0, ~(addr = 0 /\ size >= TotalSize[d]), NEW s, s = Split(t, d),
           MarkTakes(d - 1, s.kids[1], addr, Lower(d, addr, size)),
           MarkTakes(d - 1, s.kids[2], UpperAt(d, addr), Upper(d, addr, size))
    PROVE  MarkTakes(d, t, addr, size)
<1>1. t \in Block[d] /\ d \in Orders
  BY SoundOnes, Constants
<1>2. PICK R : R = Span(d, addr, size)
  OBVIOUS
<1>3. R \in SUBSET Bytes(d) /\ R # Bytes(d)
  BY <1>1, <1>2, SpanCases DEF Span
<1>4. /\ Lo(d, R) = Span(d - 1, addr, Lower(d, addr, size))
      /\ Hi(d, R) = Span(d - 1, UpperAt(d, addr), Upper(d, addr, size))
  BY <1>2, SpanOfHalves
<1>5. PICK k, h : /\ k = MarkUsed[d - 1][<<s.kids[1], addr, Lower(d, addr, size)>>]
                  /\ h = MarkUsed[d - 1][<<s.kids[2], UpperAt(d, addr), Upper(d, addr, size)>>]
  OBVIOUS
<1>6. Opened(d, t, s.kids[1], s.kids[2])
  BY Open
<1>7. Takes(d - 1, s.kids[1], k, Lo(d, R)) /\ Takes(d - 1, s.kids[2], h, Hi(d, R))
  BY <1>4, <1>5 DEF MarkTakes
<1>8. Takes(d, t, Refresh(k, h), R)
  BY <1>3, <1>6, <1>7, TakesBelow
<1>9. MarkUsed[d][<<t, addr, size>>] = Refresh(k, h)
  BY <1>1, <1>5, MarkEnters
<1>10. QED BY <1>2, <1>8, <1>9 DEF MarkTakes

\* The children of a free block, once it has been entered, are free.
LEMMA FreshSplit ==
    ASSUME NEW d \in 1 .. Depth, NEW s, s = Split(FreshBlock[d], d)
    PROVE  s.kids[1] = FreshBlock[d - 1] /\ s.kids[2] = FreshBlock[d - 1]
<1>1. PICK f, g : f = FreshBlock[d] /\ g = FreshBlock[d - 1]
  OBVIOUS
<1>2. f \in Block[d] /\ g \in Block[d - 1] /\ f.max = d /\ g.max = d - 1 /\ f = Node(d, g, g)
  BY <1>1, FreshIs, Constants
<1>3. f.kids[1] = g /\ f.kids[2] = g
  BY <1>2, NodeIs
<1>4. Relabel(g, d - 1) = g
  BY <1>2, RelabelSame, Constants
<1>5. s.kids[1] = Relabel(g, d - 1) /\ s.kids[2] = Relabel(g, d - 1)
  BY <1>1, <1>2, <1>3, SplitIs
<1>6. QED BY <1>1, <1>4, <1>5

\* The parts of a range that can be taken can be taken of the halves.
LEMMA TakeableBelow ==
    ASSUME NEW d \in 1 .. Depth, NEW t \in Sound[d], NEW addr \in Nat, NEW size \in Nat,
           Takeable(d, t, addr, size), NEW s, s = Split(t, d)
    PROVE  /\ Takeable(d - 1, s.kids[1], addr, Lower(d, addr, size))
           /\ Takeable(d - 1, s.kids[2], UpperAt(d, addr), Upper(d, addr, size))
<1>1. CASE Span(d, addr, size) = {}
  <2>1. PICK R : R = Span(d, addr, size)
    OBVIOUS
  <2>2. /\ Lo(d, R) = Span(d - 1, addr, Lower(d, addr, size))
        /\ Hi(d, R) = Span(d - 1, UpperAt(d, addr), Upper(d, addr, size))
    BY <2>1, SpanOfHalves
  <2>3. R = {}
    BY <1>1, <2>1
  <2>4. Lo(d, R) = {} /\ Hi(d, R) = {}
    BY <2>3, BytesOfHalves
  <2>5. QED BY <2>2, <2>4 DEF Takeable
<1>2. CASE t = FreshBlock[d] /\ Aligned(addr) /\ Aligned(size)
  <2>1. s.kids[1] = FreshBlock[d - 1] /\ s.kids[2] = FreshBlock[d - 1]
    BY <1>2, FreshSplit
  <2>2. /\ Aligned(Lower(d, addr, size)) /\ Aligned(Upper(d, addr, size))
        /\ Aligned(UpperAt(d, addr))
    BY <1>2, PartsAligned
  <2>3. QED BY <1>2, <2>1, <2>2 DEF Takeable
<1>3. QED BY <1>1, <1>2 DEF Takeable

\* mark_used() of what can be taken takes it, in blocks of every order.
LEMMA TakesRange ==
    \A d \in Orders : \A t \in Sound[d], addr \in Nat, size \in Nat :
       Takeable(d, t, addr, size) => MarkTakes(d, t, addr, size)
<1> DEFINE S == {d \in Orders : \A t \in Sound[d], addr \in Nat, size \in Nat :
                                   Takeable(d, t, addr, size) => MarkTakes(d, t, addr, size)}
<1>1. 0 \in S
  BY PageTakes, Constants
<1>2. ASSUME NEW d \in 1 .. Depth, d - 1 \in S PROVE d \in S
  <2>1. ASSUME NEW t \in Sound[d], NEW addr \in Nat, NEW size \in Nat, Takeable(d, t, addr, size)
        PROVE  MarkTakes(d, t, addr, size)
    <3>1. t \in Block[d] /\ d \in Orders /\ <<t, addr, size>> \in Calls(d) /\ d # -1
      <4>1. d \in Orders /\ d \in Nat
        BY Constants
      <4>2. t \in Block[d]
        BY <4>1, SoundOnes
      <4>3. QED BY <4>1, <4>2 DEF Calls
    <3>2. MarkUsed[d][<<t, addr, size>>] = BlockMarkUsed(d, MarkUsed[d - 1], t, addr, size)
      BY <3>1, MarkUsedIs
    <3>3. CASE size = 0
      BY <3>1, <3>3, MarksNothing
    <3>4. CASE t.max = -1
      <4>1. t # FreshBlock[d]
        BY <3>1, <3>4, FreshIs
      <4>2. Span(d, addr, size) = {}
        BY <2>1, <4>1 DEF Takeable
      <4>3. MarkUsed[d][<<t, addr, size>>] = t
        BY <3>2, <3>4 DEF BlockMarkUsed
      <4>4. QED BY <3>1, <4>2, <4>3, TakesNothing DEF MarkTakes
    <3>5. CASE t.max # -1 /\ size # 0 /\ addr = 0 /\ size >= TotalSize[d]
      <4>1. Span(d, addr, size) = Bytes(d) /\ Bytes(d) # {}
        BY <3>1, <3>5, SpanCases, BytesOfHalves
      <4>2. t = FreshBlock[d]
        BY <2>1, <4>1 DEF Takeable
      <4>3. MarkUsed[d][<<t, addr, size>>] = Stale(d)
        BY <3>2, <3>5, <4>2 DEF BlockMarkUsed, Stale
      <4>4. QED BY <3>1, <4>1, <4>2, <4>3, TakesWhole DEF MarkTakes
    <3>6. CASE t.max # -1 /\ size # 0 /\ ~(addr = 0 /\ size >= TotalSize[d])
      <4>1. PICK s : s = Split(t, d)
        OBVIOUS
      <4>2. PICK low, up, at : /\ low = Lower(d, addr, size) /\ up = Upper(d, addr, size)
                               /\ at = UpperAt(d, addr)
        OBVIOUS
      <4>3. low \in Nat /\ up \in Nat /\ at \in Nat
        BY <4>2, RangeParts
      <4>4. Takeable(d - 1, s.kids[1], addr, low) /\ Takeable(d - 1, s.kids[2], at, up)
        BY <2>1, <4>1, <4>2, TakeableBelow
      <4>5. s.kids[1] \in Sound[d - 1] /\ s.kids[2] \in Sound[d - 1]
        BY <3>6, <4>1, Open DEF Opened
      <4>6. MarkTakes(d - 1, s.kids[1], addr, low) /\ MarkTakes(d - 1, s.kids[2], at, up)
        BY <1>2, <4>3, <4>4, <4>5
      <4>7. QED BY <3>6, <4>1, <4>2, <4>6, MarkTakesBelow
    <3>7. QED BY <3>3, <3>4, <3>5, <3>6
  <2>2. d \in Orders
    BY Constants
  <2>3. QED BY <2>1, <2>2
<1> HIDE DEF S
<1>3. \A d \in Orders : d \in S
  BY <1>1, <1>2, OrderInduction
<1>4. QED BY <1>3 DEF S

--------------------------------------------------------------------------------
(* is_range_free() *)

\* A range that lies in the block and is all free, and that mark_used() takes.
Usable(d, t, addr, size) ==
    /\ MarkTakes(d, t, addr, size)
    /\ Span(d, addr, size) \subseteq FreeBytes[d][t]
    /\ addr + size <= TotalSize[d]

\* A free block has all its ranges of whole pages to offer.
LEMMA UsableFresh ==
    ASSUME NEW d \in Orders, NEW addr \in Nat, Aligned(addr), NEW size \in Nat, Aligned(size),
           addr + size <= TotalSize[d]
    PROVE  Usable(d, FreshBlock[d], addr, size)
<1>1. FreshBlock[d] \in Sound[d] /\ Takeable(d, FreshBlock[d], addr, size)
  BY SoundOnes DEF Takeable
<1>2. MarkTakes(d, FreshBlock[d], addr, size)
  BY <1>1, TakesRange
<1>3. FreeBytes[d][FreshBlock[d]] = Bytes(d)
  BY FreeCases
<1>4. Span(d, addr, size) \subseteq FreeBytes[d][FreshBlock[d]]
  BY <1>3 DEF Span
<1>5. QED BY <1>2, <1>4 DEF Usable

\* Where a range ends in the halves.
LEMMA RangeEnds ==
    ASSUME NEW d \in 1 .. Depth, NEW addr \in Nat, NEW size \in Nat, addr + size <= TotalSize[d]
    PROVE  /\ Lower(d, addr, size) # 0 => addr + Lower(d, addr, size) <= TotalSize[d - 1]
           /\ UpperAt(d, addr) + Upper(d, addr, size) <= TotalSize[d - 1]
<1>1. PICK m : m = Mid(d)
  OBVIOUS
<1>2. m \in Nat \ {0} /\ TotalSize[d] = 2 * m /\ TotalSize[d - 1] = m
  BY <1>1, Halves
<1>3. PICK low, up, at : /\ low = Lower(d, addr, size) /\ up = Upper(d, addr, size)
                         /\ at = UpperAt(d, addr)
  OBVIOUS
<1>4. /\ low = IF addr >= m THEN 0 ELSE IF addr + size <= m THEN size ELSE m - addr
      /\ up = size - low /\ at = IF addr >= m THEN addr - m ELSE 0
  BY <1>1, <1>3 DEF Lower, Upper, UpperAt
<1>5. (low # 0 => addr + low <= m) /\ at + up <= m
  BY <1>2, <1>4
<1>6. QED BY <1>2, <1>3, <1>5

\* A range is usable when its part in each half is.
LEMMA UsableBelow ==
    ASSUME NEW d \in 1 .. Depth, NEW t \in Sound[d], t.max # -1, NEW addr \in Nat, NEW size \in Nat,
           size # 0, addr + size <= TotalSize[d], ~(addr = 0 /\ size >= TotalSize[d]),
           NEW s, s = Split(t, d),
           Lower(d, addr, size) # 0 => Usable(d - 1, s.kids[1], addr, Lower(d, addr, size)),
           Upper(d, addr, size) # 0
              => Usable(d - 1, s.kids[2], UpperAt(d, addr), Upper(d, addr, size))
    PROVE  Usable(d, t, addr, size)
<1>1. PICK low, up, at : /\ low = Lower(d, addr, size) /\ up = Upper(d, addr, size)
                         /\ at = UpperAt(d, addr)
  OBVIOUS
<1>2. low \in Nat /\ up \in Nat /\ at \in Nat /\ d - 1 \in Orders
  BY <1>1, RangeParts, Constants
<1>3. PICK l, r : l = s.kids[1] /\ r = s.kids[2]
  OBVIOUS
<1>4. Opened(d, t, l, r) /\ l \in Sound[d - 1] /\ r \in Sound[d - 1]
  BY <1>3, Open DEF Opened
<1>5. MarkTakes(d - 1, l, addr, low) /\ Span(d - 1, addr, low) \subseteq FreeBytes[d - 1][l]
  <2>1. CASE low = 0
    BY <1>2, <1>4, <2>1, MarksNothing, SpanCases
  <2>2. CASE low # 0
    BY <1>1, <1>3, <2>2 DEF Usable
  <2>3. QED BY <2>1, <2>2
<1>6. MarkTakes(d - 1, r, at, up) /\ Span(d - 1, at, up) \subseteq FreeBytes[d - 1][r]
  <2>1. CASE up = 0
    BY <1>2, <1>4, <2>1, MarksNothing, SpanCases
  <2>2. CASE up # 0
    BY <1>1, <1>3, <2>2 DEF Usable
  <2>3. QED BY <2>1, <2>2
<1>7. MarkTakes(d, t, addr, size)
  BY <1>1, <1>3, <1>5, <1>6, MarkTakesBelow
<1>8. Span(d, addr, size) \subseteq FreeBytes[d][t]
  <2>1. PICK R : R = Span(d, addr, size)
    OBVIOUS
  <2>2. Lo(d, R) = Span(d - 1, addr, low) /\ Hi(d, R) = Span(d - 1, at, up) /\ R \in SUBSET Bytes(d)
    BY <1>1, <2>1, SpanOfHalves DEF Span
  <2>3. R \subseteq Lo(d, R) \cup Up(d, Hi(d, R))
    BY <2>2, BytesOfHalves DEF Lo, Hi, Up
  <2>4. PICK L, H : L = FreeBytes[d - 1][l] /\ H = FreeBytes[d - 1][r]
    OBVIOUS
  <2>5. Lo(d, R) \subseteq L /\ Hi(d, R) \subseteq H
    BY <1>5, <1>6, <2>2, <2>4
  <2>6. FreeBytes[d][t] = L \cup Up(d, H)
    BY <1>4, <2>4 DEF Opened
  <2>7. Up(d, Hi(d, R)) \subseteq Up(d, H)
    BY <2>5 DEF Up
  <2>8. QED BY <2>1, <2>3, <2>5, <2>6, <2>7
<1>9. QED BY <1>7, <1>8 DEF Usable

\* What is_range_free() says of whole pages of a block is true.
LEMMA FreeIsUsable ==
    \A d \in Orders : \A t \in Sound[d], addr \in Nat, size \in Nat :
       Aligned(addr) /\ Aligned(size) /\ size # 0 /\ IsRangeFree[d][<<t, addr, size>>]
          => Usable(d, t, addr, size)
<1> DEFINE S == {d \in Orders : \A t \in Sound[d], addr \in Nat, size \in Nat :
              Aligned(addr) /\ Aligned(size) /\ size # 0 /\ IsRangeFree[d][<<t, addr, size>>]
                 => Usable(d, t, addr, size)}
<1>1. 0 \in S
  <2>1. ASSUME NEW t \in Sound[0], NEW addr \in Nat, NEW size \in Nat, Aligned(addr), Aligned(size),
               IsRangeFree[0][<<t, addr, size>>]
        PROVE  Usable(0, t, addr, size)
    <3>1. t \in Block[0] /\ 0 \in Orders /\ TotalSize[0] = PageSize
      BY SoundIs, Constants, TotalSizeIs
    <3>2. <<t, addr, size>> \in Calls(0)
      BY <3>1 DEF Calls
    <3>3. PageIsFree(t, addr, size)
      BY <2>1, <3>2, IsRangeFreeIs
    <3>4. t = FreshBlock[0] /\ addr + size <= TotalSize[0]
      BY <3>1, <3>3, PageIs DEF PageIsFree
    <3>5. QED BY <2>1, <3>1, <3>4, UsableFresh
  <2>2. QED BY <2>1, Constants
<1>2. ASSUME NEW d \in 1 .. Depth, d - 1 \in S PROVE d \in S
  <2>1. ASSUME NEW t \in Sound[d], NEW addr \in Nat, NEW size \in Nat, Aligned(addr), Aligned(size),
               size # 0, IsRangeFree[d][<<t, addr, size>>]
        PROVE  Usable(d, t, addr, size)
    <3>1. d \in Orders /\ d - 1 \in Orders /\ t \in Block[d]
      BY SoundOnes, Constants
    <3>2. <<t, addr, size>> \in Calls(d)
      BY <3>1 DEF Calls
    <3>3. BlockIsFree(d, IsRangeFree[d - 1], t, addr, size)
      BY <2>1, <3>2, IsRangeFreeIs
    <3>4. t.max # -1 /\ addr + size < TotalSize[d] /\ TotalSize[d] \in Nat
      BY <2>1, <3>1, <3>3, TotalSizeIs DEF BlockIsFree
    <3>5. CASE t.max = d
      BY <2>1, <3>1, <3>4, <3>5, FreeIsFresh, UsableFresh
    <3>6. CASE t.max # d
      <4>1. PICK low, up, at : /\ low = Lower(d, addr, size) /\ up = Upper(d, addr, size)
                               /\ at = UpperAt(d, addr)
        OBVIOUS
      <4>2. low \in Nat /\ up \in Nat /\ at \in Nat /\ Aligned(low) /\ Aligned(up) /\ Aligned(at)
        BY <2>1, <4>1, RangeParts, PartsAligned
      <4>3. PICK s : s = Split(t, d)
        OBVIOUS
      <4>4. s = t
        BY <3>1, <3>6, <4>3, SplitIs
      <4>5. t.kids[1] \in Sound[d - 1] /\ t.kids[2] \in Sound[d - 1]
        BY SoundParts
      <4>6. low # 0 => IsRangeFree[d - 1][<<t.kids[1], addr, low>>]
        BY <2>1, <3>3, <3>6, <4>1, <4>2 DEF BlockIsFree
      <4>7. up # 0 => IsRangeFree[d - 1][<<t.kids[2], at, up>>]
        BY <2>1, <3>3, <3>6, <4>1, <4>2 DEF BlockIsFree
      <4>8. /\ low # 0 => Usable(d - 1, s.kids[1], addr, low)
            /\ up # 0 => Usable(d - 1, s.kids[2], at, up)
        BY <1>2, <2>1, <4>2, <4>4, <4>5, <4>6, <4>7
      <4>9. addr + size <= TotalSize[d] /\ ~(addr = 0 /\ size >= TotalSize[d])
        BY <3>4
      <4>10. QED BY <2>1, <3>4, <4>1, <4>3, <4>8, <4>9, UsableBelow
    <3>7. QED BY <3>5, <3>6
  <2>2. d \in Orders
    BY Constants
  <2>3. QED BY <2>1, <2>2
<1> HIDE DEF S
<1>3. \A d \in Orders : d \in S
  BY <1>1, <1>2, OrderInduction
<1>4. QED BY <1>3 DEF S

--------------------------------------------------------------------------------
(* get_range() *)

\* To mark a range in u and in t comes to the same; so it does after the label of u was
\* written again by the block above, if that one was free and t with it.
SameMark(d, t, u, addr, size) ==
    /\ u \in Block[d]
    /\ MarkUsed[d][<<u, addr, size>>] = MarkUsed[d][<<t, addr, size>>]
    /\ t.max = d => MarkUsed[d][<<Relabel(u, d), addr, size>>] = MarkUsed[d][<<t, addr, size>>]

\* It does in a block and itself.
LEMMA SameMarkSelf ==
    ASSUME NEW d \in Orders, NEW t \in Block[d], NEW addr, NEW size
    PROVE  SameMark(d, t, t, addr, size)
<1>1. t.max = d => Relabel(t, d) = t
  BY RelabelSame
<1>2. QED BY <1>1 DEF SameMark

\* It does in a page and the same page taken.
LEMMA SameMarkPage ==
    ASSUME NEW size \in Nat \ {0}
    PROVE  SameMark(0, FreshBlock[0], Stale(0), 0, size)
<1>1. PICK f, s : f = FreshBlock[0] /\ s = Stale(0)
  OBVIOUS
<1>2. /\ f \in Block[0] /\ s \in Block[0] /\ s = Relabel(f, -1) /\ f.max = 0
      /\ PageSize \in Nat \ {0}
  BY <1>1, FreshIs, StaleIs, Constants DEF Stale
<1>3. Relabel(s, 0) = f
  <2>1. f = [max |-> 0, kids |-> << >>]
    BY <1>1, FreshIs
  <2>2. QED BY <1>2, <2>1 DEF Relabel
<1>4. Relabel(s, -1) = s
  BY <1>2, StaleIs, <1>1, RelabelSame, Constants
<1>5. <<f, 0, size>> \in Calls(0) /\ <<s, 0, size>> \in Calls(0)
  BY <1>2 DEF Calls
<1>6. /\ MarkUsed[0][<<f, 0, size>>] = PageMarkUsed(f, 0, size)
      /\ MarkUsed[0][<<s, 0, size>>] = PageMarkUsed(s, 0, size)
  BY <1>5, MarkUsedIs
<1>7. PageMarkUsed(f, 0, size) = s /\ PageMarkUsed(s, 0, size) = s
  BY <1>2, <1>4 DEF PageMarkUsed
<1>8. QED BY <1>1, <1>2, <1>3, <1>6, <1>7 DEF SameMark

\* It does in a block when it does in its children.
LEMMA SameMarkAbove ==
    ASSUME NEW d \in 1 .. Depth, NEW t \in Sound[d], t.max # -1, NEW addr \in Nat, NEW size \in Nat,
           size # 0, ~(addr = 0 /\ size >= TotalSize[d]),
           NEW s, s = Split(t, d), NEW k, NEW h, NEW u, u = Node(s.max, k, h),
           SameMark(d - 1, s.kids[1], k, addr, Lower(d, addr, size)),
           SameMark(d - 1, s.kids[2], h, UpperAt(d, addr), Upper(d, addr, size))
    PROVE  SameMark(d, t, u, addr, size)
<1>1. PICK low, up, at : /\ low = Lower(d, addr, size) /\ up = Upper(d, addr, size)
                         /\ at = UpperAt(d, addr)
  OBVIOUS
<1>2. t \in Block[d] /\ d \in Orders /\ d - 1 \in Orders
  BY SoundOnes, Constants
<1>3. s.max = t.max /\ t.max \in -1 .. d /\ k \in Block[d - 1] /\ h \in Block[d - 1]
  BY <1>2, SplitIs, BlockParts DEF SameMark
<1>4. u \in Block[d] /\ u.max = t.max /\ u.kids[1] = k /\ u.kids[2] = h
  BY <1>3, NodeIs
<1>5. PICK v : v = Split(u, d)
  OBVIOUS
<1>6. MarkUsed[d][<<t, addr, size>>] =
         Refresh(MarkUsed[d - 1][<<s.kids[1], addr, low>>], MarkUsed[d - 1][<<s.kids[2], at, up>>])
  BY <1>1, <1>2, MarkEnters
<1>7. MarkUsed[d][<<u, addr, size>>] =
         Refresh(MarkUsed[d - 1][<<v.kids[1], addr, low>>], MarkUsed[d - 1][<<v.kids[2], at, up>>])
  BY <1>1, <1>4, <1>5, MarkEnters
<1>8. /\ MarkUsed[d - 1][<<v.kids[1], addr, low>>] = MarkUsed[d - 1][<<s.kids[1], addr, low>>]
      /\ MarkUsed[d - 1][<<v.kids[2], at, up>>] = MarkUsed[d - 1][<<s.kids[2], at, up>>]
  <2>1. CASE t.max = d
    <3>1. t = FreshBlock[d]
      BY <1>2, <2>1, FreeIsFresh
    <3>2. /\ s.kids[1] = FreshBlock[d - 1] /\ s.kids[2] = FreshBlock[d - 1]
          /\ FreshBlock[d - 1].max = d - 1
      BY <1>2, <3>1, FreshSplit, FreshIs
    <3>3. v.kids[1] = Relabel(k, d - 1) /\ v.kids[2] = Relabel(h, d - 1)
      BY <1>4, <1>5, <2>1, SplitIs
    <3>4. QED BY <1>1, <3>2, <3>3 DEF SameMark
  <2>2. CASE t.max # d
    <3>1. v = u
      BY <1>4, <1>5, <2>2, SplitIs
    <3>2. QED BY <1>1, <1>4, <3>1 DEF SameMark
  <2>3. QED BY <2>1, <2>2
<1>9. MarkUsed[d][<<u, addr, size>>] = MarkUsed[d][<<t, addr, size>>]
  BY <1>6, <1>7, <1>8
<1>10. t.max = d => Relabel(u, d) = u
  BY <1>2, <1>4, RelabelSame
<1>11. QED BY <1>4, <1>9, <1>10 DEF SameMark

\* Larger blocks have more bytes.
LEMMA SizesGrow ==
    \A d \in Orders : \A m \in 0 .. d : m \in Orders /\ TotalSize[m] <= TotalSize[d]
<1> DEFINE S == {d \in Orders : \A m \in 0 .. d : m \in Orders /\ TotalSize[m] <= TotalSize[d]}
<1>1. 0 \in S
  BY TotalSizeIs, Constants
<1>2. ASSUME NEW d \in 1 .. Depth, d - 1 \in S PROVE d \in S
  <2>1. d \in Orders /\ d - 1 \in Orders /\ d \in Nat /\ d # 0
    BY Constants
  <2>2. TotalSize[d] \in Nat /\ TotalSize[d - 1] \in Nat /\ TotalSize[d] = 2 * TotalSize[d - 1]
    BY <2>1, TotalSizeIs
  <2>3. ASSUME NEW m \in 0 .. d PROVE m \in Orders /\ TotalSize[m] <= TotalSize[d]
    <3>1. CASE m = d
      BY <2>1, <2>2, <3>1
    <3>2. CASE m # d
      <4>1. m \in 0 .. d - 1
        BY <2>1, <3>2
      <4>2. m \in Orders /\ TotalSize[m] <= TotalSize[d - 1]
        BY <1>2, <4>1
      <4>3. TotalSize[m] \in Nat
        BY <4>2, TotalSizeIs
      <4>4. QED BY <2>2, <4>2, <4>3
    <3>3. QED BY <3>1, <3>2
  <2>4. QED BY <2>1, <2>3
<1> HIDE DEF S
<1>3. \A d \in Orders : d \in S
  BY <1>1, <1>2, OrderInduction
<1>4. QED BY <1>3 DEF S

\* get_range() finds a range when the label promises one, and the range is usable: what
\* mark_used() then does to the tree does not depend on the page already taken.
Offers(d, t, size) == t.max # -1 /\ size <= TotalSize[t.max]

Finds(d, t, size, g) ==
    /\ ~Offers(d, t, size) => g.tree = t /\ g.at = AllocNull
    /\ Offers(d, t, size) => /\ g.at \in Nat /\ Aligned(g.at)
                             /\ Usable(d, t, g.at, size)
                             /\ SameMark(d, t, g.tree, g.at, size)

\* No block has an address that is alloc_null or that wraps around.
LEMMA InSpace ==
    ASSUME NEW d \in Orders
    PROVE  /\ TotalSize[d] \in Nat \ {0} /\ TotalSize[d] <= Total
           /\ TotalSize[d] < AllocNull /\ TotalSize[d] < Addresses
           /\ AllocNull \in Nat
<1>1. Depth \in Orders /\ d \in 0 .. Depth
  BY Constants
<1>2. TotalSize[d] <= TotalSize[Depth] /\ TotalSize[d] \in Nat \ {0}
  BY <1>1, SizesGrow, TotalSizeIs
<1>3. Total = TotalSize[Depth] /\ Total \in Nat \ {0} /\ 2 * Total < AllocNull /\ AllocNull \in Nat
  BY AddressSpace DEF Total
<1>4. Addresses \in Nat /\ AllocNull = Addresses - 1
  BY AddressSpace DEF AllocNull
<1>5. QED BY <1>2, <1>3, <1>4

\* It does so on a page.
LEMMA PageFinds ==
    ASSUME NEW t \in Sound[0], NEW size \in Nat, Aligned(size), size # 0
    PROVE  Finds(0, t, size, GetRange[0][<<t, size>>])
<1>1. /\ t \in Block[0] /\ t.max \in {-1, 0} /\ 0 \in Orders
      /\ TotalSize[0] = PageSize /\ PageSize \in Nat
  BY SoundIs, Constants, TotalSizeIs, PageIs
<1>2. PICK g : g = GetRange[0][<<t, size>>]
  OBVIOUS
<1>3. g = PageGetRange(t, size)
  BY <1>1, <1>2, GetRangeIs
<1>4. CASE ~Offers(0, t, size)
  <2>1. t.max = -1 \/ size > PageSize
    BY <1>1, <1>4 DEF Offers
  <2>2. g = [tree |-> t, at |-> AllocNull]
    BY <1>3, <2>1 DEF PageGetRange
  <2>3. QED BY <1>2, <1>4, <2>2 DEF Finds
<1>5. CASE Offers(0, t, size)
  <2>1. t.max = 0 /\ size <= PageSize
    BY <1>1, <1>5 DEF Offers
  <2>2. t = FreshBlock[0]
    BY <1>1, <2>1, PageIs
  <2>3. g = [tree |-> Stale(0), at |-> 0]
    <3>1. ~(t.max = -1 \/ size > PageSize)
      BY <1>1, <2>1
    <3>2. g = [tree |-> Relabel(t, -1), at |-> 0]
      BY <1>3, <3>1 DEF PageGetRange
    <3>3. QED BY <2>2, <3>2 DEF Stale
  <2>4. Aligned(0)
    BY AlignedSums
  <2>5. Usable(0, t, 0, size)
    BY <1>1, <2>1, <2>2, <2>4, UsableFresh
  <2>6. SameMark(0, t, Stale(0), 0, size)
    BY <2>2, SameMarkPage
  <2>7. QED BY <1>2, <1>5, <2>3, <2>4, <2>5, <2>6 DEF Finds
<1>6. QED BY <1>4, <1>5

\* A larger block offers a range when one of its children does.
LEMMA OffersBelow ==
    ASSUME NEW d \in 1 .. Depth, NEW t \in Sound[d], NEW size \in Nat,
           Offers(d, t, size), size <= Mid(d), NEW s, s = Split(t, d)
    PROVE  Offers(d - 1, s.kids[1], size) \/ Offers(d - 1, s.kids[2], size)
<1>1. t.max # -1 /\ size <= TotalSize[t.max]
  BY DEF Offers
<1>2. d \in Orders /\ d - 1 \in Orders /\ d - 1 # -1 /\ d \in Nat
  BY Constants
<1>3. t \in Block[d] /\ t.max \in -1 .. d
  BY SoundParts
<1>4. CASE t.max = d
  <2>1. t = FreshBlock[d]
    BY <1>2, <1>4, FreeIsFresh
  <2>2. s.kids[1].max = d - 1
    BY <1>2, <2>1, FreshSplit, FreshIs
  <2>3. size <= TotalSize[d - 1]
    BY Halves
  <2>4. QED BY <1>2, <2>2, <2>3 DEF Offers
<1>5. CASE t.max # d
  <2>1. s = t
    BY <1>3, <1>5, SplitIs
  <2>2. t # FreshBlock[d] /\ t # Stale(d)
    BY <1>1, <1>2, <1>5, FreshIs, StaleIs
  <2>3. /\ t = Refresh(t.kids[1], t.kids[2])
        /\ t.kids[1] \in Block[d - 1] /\ t.kids[2] \in Block[d - 1]
    BY <1>2, <2>2, SoundParts, SoundOnes
  <2>4. t.max = Max2(t.kids[1].max, t.kids[2].max)
    BY <2>3, RefreshIs
  <2>5. t.max = t.kids[1].max \/ t.max = t.kids[2].max
    BY <2>4 DEF Max2
  <2>6. QED BY <1>1, <2>1, <2>5 DEF Offers
<1>6. QED BY <1>4, <1>5

\* A range that is found in a half is one of the block.
LEMMA FindsInHalf ==
    ASSUME NEW d \in 1 .. Depth, NEW t \in Sound[d], t.max # -1, NEW size \in Nat, Aligned(size),
           size # 0, size <= Mid(d), NEW s, s = Split(t, d), NEW at \in Nat, Aligned(at), NEW k
    PROVE  /\ Usable(d - 1, s.kids[1], at, size) /\ SameMark(d - 1, s.kids[1], k, at, size)
                 => /\ Usable(d, t, at, size)
                    /\ SameMark(d, t, Node(s.max, k, s.kids[2]), at, size)
           /\ Usable(d - 1, s.kids[2], at, size) /\ SameMark(d - 1, s.kids[2], k, at, size)
                 => /\ Mid(d) + at \in Nat /\ Aligned(Mid(d) + at)
                    /\ Wrap(Mid(d) + at) = Mid(d) + at
                    /\ Usable(d, t, Mid(d) + at, size)
                    /\ SameMark(d, t, Node(s.max, s.kids[1], k), Mid(d) + at, size)
<1>1. PICK m : m = Mid(d)
  OBVIOUS
<1>2. /\ m \in Nat \ {0} /\ TotalSize[d] = 2 * m /\ TotalSize[d - 1] = m /\ size <= m
      /\ d \in Orders /\ d - 1 \in Orders
  BY <1>1, Halves, Constants
<1>3. s.kids[1] \in Sound[d - 1] /\ s.kids[2] \in Sound[d - 1]
  BY Open DEF Opened
<1>4. s.kids[1] \in Block[d - 1] /\ s.kids[2] \in Block[d - 1]
  BY <1>2, <1>3, SoundOnes
<1>5. ASSUME Usable(d - 1, s.kids[1], at, size), SameMark(d - 1, s.kids[1], k, at, size)
      PROVE  Usable(d, t, at, size) /\ SameMark(d, t, Node(s.max, k, s.kids[2]), at, size)
  <2>1. at + size <= m
    BY <1>2, <1>5 DEF Usable
  <2>2. PICK low, up, b : low = Lower(d, at, size) /\ up = Upper(d, at, size) /\ b = UpperAt(d, at)
    OBVIOUS
  <2>3. low = size /\ up = 0
    BY <1>1, <1>2, <2>1, <2>2 DEF Lower, Upper
  <2>4. ~(at = 0 /\ size >= TotalSize[d]) /\ at + size <= TotalSize[d]
    BY <1>2, <2>1
  <2>5. Usable(d, t, at, size)
    <3>1. /\ Lower(d, at, size) # 0 => Usable(d - 1, s.kids[1], at, Lower(d, at, size))
          /\ Upper(d, at, size) # 0 => Usable(d - 1, s.kids[2], UpperAt(d, at), Upper(d, at, size))
      BY <1>5, <2>2, <2>3
    <3>2. QED BY ONLY <2>4, <3>1, d \in 1 .. Depth, t \in Sound[d], t.max # -1, at \in Nat,
                      size \in Nat, size # 0, s = Split(t, d), UsableBelow
  <2>6. SameMark(d - 1, s.kids[2], s.kids[2], b, up)
    BY <1>2, <1>4, SameMarkSelf
  <2>7. SameMark(d, t, Node(s.max, k, s.kids[2]), at, size)
    <3>1. /\ SameMark(d - 1, s.kids[1], k, at, Lower(d, at, size))
          /\ SameMark(d - 1, s.kids[2], s.kids[2], UpperAt(d, at), Upper(d, at, size))
      BY <1>5, <2>2, <2>3, <2>6
    <3>2. QED BY ONLY <2>4, <3>1, d \in 1 .. Depth, t \in Sound[d], t.max # -1, at \in Nat,
                      size \in Nat, size # 0, s = Split(t, d), SameMarkAbove
  <2>8. QED BY <2>5, <2>7
<1>6. ASSUME Usable(d - 1, s.kids[2], at, size), SameMark(d - 1, s.kids[2], k, at, size)
      PROVE  /\ Aligned(m + at) /\ m + at \in Nat /\ Wrap(m + at) = m + at
             /\ Usable(d, t, m + at, size)
             /\ SameMark(d, t, Node(s.max, s.kids[1], k), m + at, size)
  <2>1. at + size <= m
    BY <1>2, <1>6 DEF Usable
  <2>2. PICK a : a = m + at
    OBVIOUS
  <2>3. a \in Nat /\ a + size <= TotalSize[d] /\ ~(a = 0 /\ size >= TotalSize[d]) /\ a >= m
    BY <1>2, <2>1, <2>2
  <2>4. Aligned(a)
    <3>1. Aligned(m)
      BY <1>2, BlocksAligned
    <3>2. QED BY <1>2, <2>2, <3>1, AlignedSums
  <2>5. Wrap(a) = a
    <3>1. TotalSize[d] < Addresses /\ Addresses \in Nat
      BY <1>2, InSpace, AddressSpace
    <3>2. a < Addresses
      BY <1>2, <2>3, <3>1
    <3>3. QED BY <2>3, <3>1, <3>2 DEF Wrap
  <2>6. PICK low, up, b : low = Lower(d, a, size) /\ up = Upper(d, a, size) /\ b = UpperAt(d, a)
    OBVIOUS
  <2>7. low = 0 /\ up = size /\ b = at
    BY <1>1, <1>2, <2>2, <2>3, <2>6 DEF Lower, Upper, UpperAt
  <2>8. Usable(d, t, a, size)
    <3>1. /\ Lower(d, a, size) # 0 => Usable(d - 1, s.kids[1], a, Lower(d, a, size))
          /\ Upper(d, a, size) # 0 => Usable(d - 1, s.kids[2], UpperAt(d, a), Upper(d, a, size))
      BY <1>6, <2>6, <2>7
    <3>2. QED BY ONLY <2>3, <3>1, d \in 1 .. Depth, t \in Sound[d], t.max # -1,
                      size \in Nat, size # 0, s = Split(t, d), UsableBelow
  <2>9. SameMark(d - 1, s.kids[1], s.kids[1], a, low)
    BY <1>2, <1>4, SameMarkSelf
  <2>10. SameMark(d, t, Node(s.max, s.kids[1], k), a, size)
    <3>1. /\ SameMark(d - 1, s.kids[1], s.kids[1], a, Lower(d, a, size))
          /\ SameMark(d - 1, s.kids[2], k, UpperAt(d, a), Upper(d, a, size))
      BY <1>6, <2>6, <2>7, <2>9
    <3>2. QED BY ONLY <2>3, <3>1, d \in 1 .. Depth, t \in Sound[d], t.max # -1,
                      size \in Nat, size # 0, s = Split(t, d), SameMarkAbove
  <2>11. QED BY <2>2, <2>3, <2>4, <2>5, <2>8, <2>10
<1>7. QED BY <1>1, <1>5, <1>6

\* It does so on a block, when it does on its children.
LEMMA BlockFinds ==
    ASSUME NEW d \in 1 .. Depth, NEW t \in Sound[d], NEW size \in Nat, Aligned(size), size # 0,
           \A x \in Sound[d - 1] : Finds(d - 1, x, size, GetRange[d - 1][<<x, size>>])
    PROVE  Finds(d, t, size, GetRange[d][<<t, size>>])
<1>1. PICK g : g = GetRange[d][<<t, size>>]
  OBVIOUS
<1>2. d \in Orders /\ d - 1 \in Orders /\ t \in Block[d] /\ t.max \in -1 .. d /\ d \in Nat
  BY SoundParts, Constants
<1>3. g = BlockGetRange(d, GetRange[d - 1], t, size)
  BY <1>1, <1>2, GetRangeIs
<1>4. t.max # -1 => TotalSize[t.max] \in Nat
  BY <1>2, SizesGrow, TotalSizeIs
<1>5. CASE ~Offers(d, t, size)
  <2>1. t.max = -1 \/ size > TotalSize[t.max]
    BY <1>4, <1>5 DEF Offers
  <2>2. g = [tree |-> t, at |-> AllocNull]
    BY <1>3, <2>1 DEF BlockGetRange
  <2>3. QED BY <1>1, <1>5, <2>2 DEF Finds
<1>6. CASE Offers(d, t, size) /\ size > Mid(d)
  <2>1. t.max # -1 /\ ~(size > TotalSize[t.max]) /\ size <= TotalSize[t.max]
    BY <1>4, <1>6 DEF Offers
  <2>2. t.max = d
    <3>1. t.max \in 0 .. d - 1 => TotalSize[t.max] <= TotalSize[d - 1]
      BY <1>2, SizesGrow
    <3>2. Mid(d) \in Nat /\ Mid(d) = TotalSize[d - 1]
      BY Halves
    <3>3. QED BY <1>2, <1>4, <1>6, <2>1, <3>1, <3>2
  <2>3. t = FreshBlock[d] /\ Aligned(0)
    BY <1>2, <2>2, FreeIsFresh, AlignedSums
  <2>4. g = [tree |-> t, at |-> 0]
    BY <1>3, <1>6, <2>1 DEF BlockGetRange
  <2>5. Usable(d, t, 0, size)
    BY <1>2, <2>1, <2>2, <2>3, UsableFresh
  <2>6. SameMark(d, t, t, 0, size)
    BY <1>2, SameMarkSelf
  <2>7. QED BY <1>1, <1>6, <2>3, <2>4, <2>5, <2>6 DEF Finds
<1>7. CASE Offers(d, t, size) /\ ~(size > Mid(d))
  <2>1. t.max # -1 /\ ~(size > TotalSize[t.max]) /\ size <= Mid(d)
    BY <1>4, <1>7, Halves DEF Offers
  <2>2. PICK s : s = Split(t, d)
    OBVIOUS
  <2>3. PICK x, y : x = s.kids[1] /\ y = s.kids[2]
    OBVIOUS
  <2>4. x \in Sound[d - 1] /\ y \in Sound[d - 1]
    BY <2>1, <2>2, <2>3, Open DEF Opened
  <2>5. PICK l, r : l = GetRange[d - 1][<<x, size>>] /\ r = GetRange[d - 1][<<y, size>>]
    OBVIOUS
  <2>6. Finds(d - 1, x, size, l) /\ Finds(d - 1, y, size, r)
    BY <2>4, <2>5
  <2>7. Offers(d - 1, x, size) \/ Offers(d - 1, y, size)
    BY <1>7, <2>1, <2>2, <2>3, OffersBelow
  <2>8. g = IF l.at # AllocNull THEN [tree |-> Node(s.max, l.tree, y), at |-> l.at]
            ELSE [tree |-> Node(s.max, l.tree, r.tree), at |-> Wrap(Mid(d) + r.at)]
    BY <1>3, <1>7, <2>1, <2>2, <2>3, <2>5 DEF BlockGetRange
  <2>9. CASE Offers(d - 1, x, size)
    <3>1. /\ l.at \in Nat /\ Aligned(l.at) /\ Usable(d - 1, x, l.at, size)
          /\ SameMark(d - 1, x, l.tree, l.at, size)
      BY <2>6, <2>9 DEF Finds
    <3>2. l.at # AllocNull
      <4>1. l.at + size <= TotalSize[d - 1]
        BY <3>1 DEF Usable
      <4>2. QED BY <1>2, <3>1, <4>1, InSpace
    <3>3. g = [tree |-> Node(s.max, l.tree, y), at |-> l.at]
      BY <2>8, <3>2
    <3>4. Usable(d, t, l.at, size) /\ SameMark(d, t, Node(s.max, l.tree, y), l.at, size)
      BY <2>1, <2>2, <2>3, <3>1, FindsInHalf
    <3>5. QED BY <1>1, <1>7, <3>1, <3>3, <3>4 DEF Finds
  <2>10. CASE ~Offers(d - 1, x, size)
    <3>1. l.tree = x /\ l.at = AllocNull
      BY <2>6, <2>10 DEF Finds
    <3>2. /\ r.at \in Nat /\ Aligned(r.at) /\ Usable(d - 1, y, r.at, size)
          /\ SameMark(d - 1, y, r.tree, r.at, size)
      BY <2>6, <2>7, <2>10 DEF Finds
    <3>3. g = [tree |-> Node(s.max, x, r.tree), at |-> Wrap(Mid(d) + r.at)]
      BY <2>8, <3>1
    <3>4. PICK a : a = Mid(d) + r.at
      OBVIOUS
    <3>5. /\ Aligned(a) /\ a \in Nat /\ Wrap(a) = a /\ Usable(d, t, a, size)
          /\ SameMark(d, t, Node(s.max, x, r.tree), a, size)
      BY <2>1, <2>2, <2>3, <3>2, <3>4, FindsInHalf
    <3>6. g = [tree |-> Node(s.max, x, r.tree), at |-> a]
      BY <3>3, <3>4, <3>5
    <3>7. QED BY <1>1, <1>7, <3>5, <3>6 DEF Finds
  <2>11. QED BY <2>9, <2>10
<1>8. QED BY <1>5, <1>6, <1>7

\* It does so on blocks of every order.
LEMMA FindsRange ==
    \A d \in Orders : \A t \in Sound[d], size \in Nat :
       Aligned(size) /\ size # 0 => Finds(d, t, size, GetRange[d][<<t, size>>])
<1> DEFINE S == {d \in Orders : \A t \in Sound[d], size \in Nat :
                    Aligned(size) /\ size # 0 => Finds(d, t, size, GetRange[d][<<t, size>>])}
<1>1. 0 \in S
  BY PageFinds, Constants
<1>2. ASSUME NEW d \in 1 .. Depth, d - 1 \in S PROVE d \in S
  <2>1. ASSUME NEW t \in Sound[d], NEW size \in Nat, Aligned(size), size # 0
        PROVE  Finds(d, t, size, GetRange[d][<<t, size>>])
    <3>1. \A x \in Sound[d - 1] : Finds(d - 1, x, size, GetRange[d - 1][<<x, size>>])
      BY <1>2, <2>1
    <3>2. QED BY <2>1, <3>1, BlockFinds
  <2>2. d \in Orders
    BY Constants
  <2>3. QED BY <2>1, <2>2
<1> HIDE DEF S
<1>3. \A d \in Orders : d \in S
  BY <1>1, <1>2, OrderInduction
<1>4. QED BY <1>3 DEF S

--------------------------------------------------------------------------------
(* free_range() *)

\* The block u is t after the bytes R, a part of what was held together as H, have been
\* given back: the others of H are held, and everything else that was.
Gives(d, t, u, R, H) ==
    /\ u \in Sound[d]
    /\ FreeBytes[d][u] = FreeBytes[d][t] \cup R
    /\ H \ R \in Held[d][u]
    /\ \A Q \in Held[d][t] : Q \cap H = {} => Q \in Held[d][u]

\* What free_range() does on the block t of order d.
FreeGives(d, t, addr, size, H) ==
    Gives(d, t, FreeRange[d][<<t, addr, size>>], Span(d, addr, size), H)

\* Nothing is given back by a block that stays as it is.
LEMMA GivesNothing ==
    ASSUME NEW d \in Orders, NEW t \in Sound[d], NEW H \in Held[d][t]
    PROVE  Gives(d, t, t, {}, H)
<1>1. H \ {} = H /\ FreeBytes[d][t] = FreeBytes[d][t] \cup {}
  OBVIOUS
<1>2. QED BY <1>1 DEF Gives

\* A block given back whole is as good as new, up to its label; so is a page.
LEMMA GivesWhole ==
    ASSUME NEW d \in Orders, NEW u \in Sound[d], FreeBytes[d][u] = Bytes(d)
    PROVE  Gives(d, Stale(d), u, Bytes(d), Bytes(d))
<1>1. Stale(d) \in Block[d] /\ Stale(d).max = -1 /\ u \in Block[d]
  BY StaleIs, SoundOnes
<1>2. /\ FreeBytes[d][Stale(d)] = {} /\ {} \in Held[d][u]
      /\ Held[d][Stale(d)] \in SUBSET SUBSET Bytes(d)
  BY <1>1, FreeCases, HeldCases
<1>3. \A Q \in Held[d][Stale(d)] : Q \cap Bytes(d) = {} => Q = {}
  BY <1>2
<1>4. QED BY <1>2, <1>3 DEF Gives

\* Bytes given back by both children are given back by a block.
LEMMA GivesBelow ==
    ASSUME NEW d \in 1 .. Depth, NEW t \in Sound[d], NEW l, NEW r, Opened(d, t, l, r),
           NEW H \in Held[d][t], NEW R, R \subseteq H, R # {}, NEW k, NEW h,
           Gives(d - 1, l, k, Lo(d, R), Lo(d, H)), Gives(d - 1, r, h, Hi(d, R), Hi(d, H))
    PROVE  Gives(d, t, Coalesce(k, h, d), R, H)
<1>1. PICK u : u = Coalesce(k, h, d)
  OBVIOUS
<1>2. k \in Sound[d - 1] /\ h \in Sound[d - 1] /\ t \in Block[d] /\ d \in Orders
  BY SoundOnes, Constants DEF Gives
<1>3. /\ u \in Sound[d]
      /\ FreeBytes[d][u] = FreeBytes[d - 1][k] \cup Up(d, FreeBytes[d - 1][h])
      /\ \A Q \in SUBSET Bytes(d) :
            Q # Bytes(d) /\ Lo(d, Q) \in Held[d - 1][k] /\ Hi(d, Q) \in Held[d - 1][h]
               => Q \in Held[d][u]
  BY <1>1, <1>2, Join DEF Joined
<1>4. H \in SUBSET Bytes(d) /\ R \in SUBSET Bytes(d) /\ Held[d][t] \in SUBSET SUBSET Bytes(d)
  BY <1>2, HeldCases
<1>5. FreeBytes[d][u] = FreeBytes[d][t] \cup R
  <2>1. PICK L, M : L = FreeBytes[d - 1][l] /\ M = FreeBytes[d - 1][r]
    OBVIOUS
  <2>2. FreeBytes[d - 1][k] = L \cup Lo(d, R) /\ FreeBytes[d - 1][h] = M \cup Hi(d, R)
    BY <2>1 DEF Gives
  <2>3. FreeBytes[d][t] = L \cup Up(d, M)
    BY <2>1 DEF Opened
  <2>4. Up(d, M \cup Hi(d, R)) = Up(d, M) \cup Up(d, Hi(d, R))
    BY DEF Up
  <2>5. R = Lo(d, R) \cup Up(d, Hi(d, R))
    BY <1>4, BytesOfHalves DEF Lo, Hi, Up
  <2>6. QED BY <1>3, <2>2, <2>3, <2>4, <2>5
<1>6. H \ R \in Held[d][u]
  <2>1. Lo(d, H \ R) = Lo(d, H) \ Lo(d, R) /\ Hi(d, H \ R) = Hi(d, H) \ Hi(d, R)
    BY DEF Lo, Hi
  <2>2. Lo(d, H \ R) \in Held[d - 1][k] /\ Hi(d, H \ R) \in Held[d - 1][h]
    BY <2>1 DEF Gives
  <2>3. H \ R \in SUBSET Bytes(d) /\ H \ R # Bytes(d)
    BY <1>4
  <2>4. QED BY <1>3, <2>2, <2>3
<1>7. ASSUME NEW Q \in Held[d][t], Q \cap H = {} PROVE Q \in Held[d][u]
  <2>1. Q \in SUBSET Bytes(d) /\ Q # Bytes(d)
    BY <1>4, <1>7
  <2>2. Lo(d, Q) \in Held[d - 1][l] /\ Hi(d, Q) \in Held[d - 1][r]
    BY DEF Opened
  <2>3. Lo(d, Q) \cap Lo(d, H) = {} /\ Hi(d, Q) \cap Hi(d, H) = {}
    BY <1>7 DEF Lo, Hi
  <2>4. Lo(d, Q) \in Held[d - 1][k] /\ Hi(d, Q) \in Held[d - 1][h]
    BY <2>2, <2>3 DEF Gives
  <2>5. QED BY <1>3, <2>1, <2>4
<1>8. QED BY <1>1, <1>3, <1>5, <1>6, <1>7 DEF Gives

\* free_range() of whole pages that are held gives them back, on a page.
LEMMA PageGives ==
    ASSUME NEW t \in Sound[0], NEW addr \in Nat, NEW size \in Nat, Aligned(addr), Aligned(size),
           NEW H \in Held[0][t], Span(0, addr, size) \subseteq H
    PROVE  FreeGives(0, t, addr, size, H)
<1>1. t \in Block[0] /\ 0 \in Orders /\ TotalSize[0] = PageSize /\ PageSize \in Nat \ {0}
  BY SoundIs, Constants, TotalSizeIs
<1>2. <<t, addr, size>> \in Calls(0)
  BY <1>1 DEF Calls
<1>3. FreeRange[0][<<t, addr, size>>] = PageFreeRange(t, addr, size)
  BY <1>2, FreeRangeIs
<1>4. CASE addr < PageSize /\ size > 0
  <2>1. addr = 0 /\ size >= PageSize
    BY <1>1, <1>4, AlignedSums
  <2>2. Span(0, addr, size) = Bytes(0)
    BY <1>1, <2>1, SpanCases
  <2>3. H = Bytes(0) /\ t = Stale(0)
    <3>1. /\ Held[0][t] \in SUBSET SUBSET Bytes(0)
          /\ \A G \in Held[0][t] : G = Bytes(0) => t = Stale(0)
      BY <1>1, HeldCases
    <3>2. H \in SUBSET Bytes(0)
      BY <3>1
    <3>3. H = Bytes(0)
      BY <1>1, <2>2, <3>2
    <3>4. QED BY <3>1, <3>3
  <2>4. PICK u : u = Relabel(t, 0)
    OBVIOUS
  <2>5. u \in Block[0] /\ u.max = 0
    BY <1>1, <2>4, RelabelIs
  <2>6. u = FreshBlock[0]
    BY <2>5, PageIs
  <2>7. FreeBytes[0][u] = Bytes(0) /\ u \in Sound[0]
    BY <1>1, <2>6, FreeCases, SoundOnes
  <2>8. Gives(0, t, u, Bytes(0), H)
    BY <1>1, <2>3, <2>7, GivesWhole
  <2>9. PageFreeRange(t, addr, size) = u
    BY <1>4, <2>4 DEF PageFreeRange
  <2>10. QED BY <1>3, <2>2, <2>8, <2>9 DEF FreeGives
<1>5. CASE ~(addr < PageSize /\ size > 0)
  <2>1. Span(0, addr, size) = {}
    BY <1>1, <1>5, SpanCases
  <2>2. PageFreeRange(t, addr, size) = t
    BY <1>5 DEF PageFreeRange
  <2>3. QED BY <1>1, <1>3, <2>1, <2>2, GivesNothing DEF FreeGives
<1>6. QED BY <1>4, <1>5

\* It does so on a block, when it does on its children.
LEMMA BlockGives ==
    ASSUME NEW d \in 1 .. Depth, NEW t \in Sound[d], NEW addr \in Nat, NEW size \in Nat,
           Aligned(addr), Aligned(size), NEW H \in Held[d][t], Span(d, addr, size) \subseteq H,
           \A x \in Sound[d - 1], a \in Nat, n \in Nat : \A G \in Held[d - 1][x] :
              Aligned(a) /\ Aligned(n) /\ Span(d - 1, a, n) \subseteq G
                 => FreeGives(d - 1, x, a, n, G)
    PROVE  FreeGives(d, t, addr, size, H)
<1>1. d \in Orders /\ d - 1 \in Orders /\ t \in Block[d] /\ TotalSize[d] \in Nat
  BY SoundOnes, Constants, TotalSizeIs
<1>2. <<t, addr, size>> \in Calls(d)
  BY <1>1 DEF Calls
<1>3. FreeRange[d][<<t, addr, size>>] = BlockFreeRange(d, FreeRange[d - 1], t, addr, size)
  BY <1>2, FreeRangeIs
<1>4. PICK R : R = Span(d, addr, size)
  OBVIOUS
<1>5. CASE addr >= TotalSize[d] \/ size = 0
  <2>1. R = {}
    BY <1>1, <1>4, <1>5, SpanCases
  <2>2. FreeRange[d][<<t, addr, size>>] = t
    BY <1>3, <1>5 DEF BlockFreeRange
  <2>3. QED BY <1>1, <1>4, <2>1, <2>2, GivesNothing DEF FreeGives
<1>6. CASE ~(addr >= TotalSize[d] \/ size = 0) /\ addr = 0 /\ size >= TotalSize[d]
  <2>1. R = Bytes(d)
    BY <1>1, <1>4, <1>6, SpanCases
  <2>2. H = Bytes(d) /\ t = Stale(d)
    <3>1. /\ Held[d][t] \in SUBSET SUBSET Bytes(d)
          /\ \A G \in Held[d][t] : G = Bytes(d) => t = Stale(d)
      BY <1>1, HeldCases
    <3>2. H \in SUBSET Bytes(d)
      BY <3>1
    <3>3. H = Bytes(d)
      BY <1>1, <1>4, <2>1, <3>2
    <3>4. QED BY <3>1, <3>3
  <2>3. PICK f, u : f = FreshBlock[d - 1] /\ u = Relabel(t, d - 1)
    OBVIOUS
  <2>4. f \in Block[d - 1] /\ f.max = d - 1 /\ f \in Sound[d - 1]
    BY <1>1, <2>3, FreshIs, SoundOnes
  <2>5. t.kids[1] = f /\ t.kids[2] = f
    BY <2>2, <2>3, StaleIs
  <2>6. u \in Block[d] /\ u.max = d - 1 /\ u.kids[1] = f /\ u.kids[2] = f
    <3>1. d - 1 \in -1 .. d
      BY Constants
    <3>2. u \in Block[d] /\ u.max = d - 1 /\ u.kids = t.kids
      BY <1>1, <2>3, <3>1, RelabelIs
    <3>3. QED BY <2>5, <3>2
  <2>7. u = Refresh(f, f)
    <3>1. u = Node(d - 1, f, f)
      BY <2>6, BlockParts
    <3>2. QED BY <2>4, <3>1 DEF Refresh, Max2
  <2>8. u \in Sound[d] /\ FreeBytes[d][u] = Bytes(d)
    <3>1. u \in Sound[d]
      BY <2>4, <2>7, SoundOnes
    <3>2. FreeBytes[d][u] = FreeBytes[d - 1][f] \cup Up(d, FreeBytes[d - 1][f])
      BY <1>1, <2>4, <2>7, FreeCases, Constants
    <3>3. FreeBytes[d - 1][f] = Bytes(d - 1)
      BY <1>1, <2>3, FreeCases
    <3>4. QED BY <3>1, <3>2, <3>3, BytesOfHalves
  <2>9. Gives(d, t, u, R, H)
    BY <1>1, <2>1, <2>2, <2>8, GivesWhole
  <2>10. FreeRange[d][<<t, addr, size>>] = u
    BY <1>3, <1>6, <2>3 DEF BlockFreeRange
  <2>11. QED BY <1>4, <2>9, <2>10 DEF FreeGives
<1>7. CASE ~(addr >= TotalSize[d] \/ size = 0) /\ ~(addr = 0 /\ size >= TotalSize[d])
  <2>1. R # {} /\ R \subseteq H
    BY <1>1, <1>4, <1>7, SpanCases
  <2>2. PICK s : s = Occupy(t)
    OBVIOUS
  <2>3. PICK l, r : l = s.kids[1] /\ r = s.kids[2]
    OBVIOUS
  <2>4. Opened(d, t, l, r)
    BY <2>2, <2>3, Open
  <2>5. /\ l \in Sound[d - 1] /\ r \in Sound[d - 1]
        /\ Lo(d, H) \in Held[d - 1][l] /\ Hi(d, H) \in Held[d - 1][r]
    BY <2>4 DEF Opened
  <2>6. PICK low, up, at : /\ low = Lower(d, addr, size) /\ up = Upper(d, addr, size)
                           /\ at = UpperAt(d, addr)
    OBVIOUS
  <2>7. low \in Nat /\ up \in Nat /\ at \in Nat /\ Aligned(low) /\ Aligned(up) /\ Aligned(at)
    BY <2>6, RangeParts, PartsAligned
  <2>8. Lo(d, R) = Span(d - 1, addr, low) /\ Hi(d, R) = Span(d - 1, at, up)
    BY <1>4, <2>6, SpanOfHalves
  <2>9. Lo(d, R) \subseteq Lo(d, H) /\ Hi(d, R) \subseteq Hi(d, H)
    BY <2>1 DEF Lo, Hi
  <2>10. PICK k, h : /\ k = FreeRange[d - 1][<<l, addr, low>>]
                     /\ h = FreeRange[d - 1][<<r, at, up>>]
    OBVIOUS
  <2>11. Gives(d - 1, l, k, Lo(d, R), Lo(d, H))
    <3>1. FreeGives(d - 1, l, addr, low, Lo(d, H))
      BY <2>5, <2>7, <2>8, <2>9
    <3>2. QED BY <2>8, <2>10, <3>1 DEF FreeGives
  <2>12. Gives(d - 1, r, h, Hi(d, R), Hi(d, H))
    <3>1. FreeGives(d - 1, r, at, up, Hi(d, H))
      BY <2>5, <2>7, <2>8, <2>9
    <3>2. QED BY <2>8, <2>10, <3>1 DEF FreeGives
  <2>13. Gives(d, t, Coalesce(k, h, d), R, H)
    BY <2>1, <2>4, <2>11, <2>12, GivesBelow
  <2>14. FreeRange[d][<<t, addr, size>>] = Coalesce(k, h, d)
    BY <1>3, <1>7, <2>2, <2>3, <2>6, <2>10 DEF BlockFreeRange
  <2>15. QED BY <1>4, <2>13, <2>14 DEF FreeGives
<1>8. QED BY <1>5, <1>6, <1>7

\* It does so on blocks of every order.
LEMMA GivesRange ==
    \A d \in Orders : \A t \in Sound[d], addr \in Nat, size \in Nat : \A H \in Held[d][t] :
       Aligned(addr) /\ Aligned(size) /\ Span(d, addr, size) \subseteq H
          => FreeGives(d, t, addr, size, H)
<1> DEFINE S == {d \in Orders : \A t \in Sound[d], addr \in Nat, size \in Nat :
              \A H \in Held[d][t] :
                 Aligned(addr) /\ Aligned(size) /\ Span(d, addr, size) \subseteq H
                    => FreeGives(d, t, addr, size, H)}
<1>1. 0 \in S
  BY PageGives, Constants
<1>2. ASSUME NEW d \in 1 .. Depth, d - 1 \in S PROVE d \in S
  <2>1. \A x \in Sound[d - 1], a \in Nat, n \in Nat : \A G \in Held[d - 1][x] :
           Aligned(a) /\ Aligned(n) /\ Span(d - 1, a, n) \subseteq G => FreeGives(d - 1, x, a, n, G)
    BY <1>2
  <2>2. ASSUME NEW t \in Sound[d], NEW addr \in Nat, NEW size \in Nat, NEW H \in Held[d][t],
               Aligned(addr), Aligned(size), Span(d, addr, size) \subseteq H
        PROVE  FreeGives(d, t, addr, size, H)
    BY <2>1, <2>2, BlockGives
  <2>3. d \in Orders
    BY Constants
  <2>4. QED BY <2>2, <2>3
<1> HIDE DEF S
<1>3. \A d \in Orders : d \in S
  BY <1>1, <1>2, OrderInduction
<1>4. QED BY <1>3 DEF S

--------------------------------------------------------------------------------
(* The kernel image, which need not be whole pages *)

\* The bytes of a block that are in a page of the range.
Touched(d, addr, size) ==
    {b \in Bytes(d) : \E c \in addr .. addr + size - 1 : b \div PageSize = c \div PageSize}

\* Two addresses a number of whole pages further are in the same page if they were; the
\* whole pages below them are in none of theirs.
LEMMA PageShift ==
    ASSUME NEW m \in Nat, Aligned(m), NEW b \in Nat, NEW c \in Nat
    PROVE  /\ (m + b) \div PageSize = (m + c) \div PageSize <=> b \div PageSize = c \div PageSize
           /\ b < m /\ b \div PageSize = c \div PageSize => c < m
<1>1. PICK P : P = PageSize
  OBVIOUS
<1>2. P \in Nat \ {0}
  BY <1>1, Constants
<1>3. PICK j \in Nat : m = j * P
  BY <1>1, AlignedIs
<1>4. ASSUME NEW a \in Nat PROVE (m + a) \div P = j + (a \div P)
  <2>1. PICK q, r : q = a \div P /\ r = a % P
    OBVIOUS
  <2>2. q \in Nat /\ r \in 0 .. P - 1 /\ a = q * P + r
    BY <1>2, <2>1, DivMod
  <2>3. (j + q) * P = j * P + q * P /\ j * P \in Int /\ q * P \in Int
    BY <1>2, <2>2, Multiples
  <2>4. (j + q) * P + r = m + a
    BY <1>3, <2>2, <2>3
  <2>5. ((j + q) * P + r) \div P = j + q
    BY <1>2, <2>2, DivUnique
  <2>6. QED BY <2>1, <2>4, <2>5
<1>5. (m + b) \div P = j + (b \div P) /\ (m + c) \div P = j + (c \div P)
  BY <1>4
<1>6. b \div P \in Nat /\ c \div P \in Nat
  BY <1>2, DivMod
<1>7. (m + b) \div P = (m + c) \div P <=> b \div P = c \div P
  BY <1>5, <1>6
<1>8. ASSUME b < m, b \div P = c \div P PROVE c < m
  <2>1. SUFFICES ASSUME ~(c < m) PROVE FALSE
    OBVIOUS
  <2>2. c - m \in Nat /\ m + (c - m) = c
    BY <2>1
  <2>3. c \div P = j + ((c - m) \div P) /\ (c - m) \div P \in Nat
    BY <1>2, <1>4, <2>2, DivMod
  <2>4. PICK q : q = b \div P
    OBVIOUS
  <2>5. q \in Nat /\ j <= q
    BY <1>6, <1>8, <2>3, <2>4
  <2>6. q * P <= b
    <3>1. b = q * P + (b % P) /\ b % P \in 0 .. P - 1
      BY <1>2, <2>4, DivMod
    <3>2. q * P \in Int
      BY <1>2, <2>5, Multiples
    <3>3. QED BY <1>2, <3>1, <3>2
  <2>7. j * P <= q * P /\ j * P \in Int /\ q * P \in Int
    BY <1>2, <2>5, Multiples
  <2>8. QED BY <1>3, <1>8, <2>6, <2>7
<1>9. QED BY <1>1, <1>7, <1>8

\* The bytes in the pages of a range are those in the pages of its parts.
LEMMA TouchedHalves ==
    ASSUME NEW d \in 1 .. Depth, NEW addr \in Nat, NEW size \in Nat
    PROVE  Touched(d, addr, size) =
              Touched(d - 1, addr, Lower(d, addr, size))
                 \cup Up(d, Touched(d - 1, UpperAt(d, addr), Upper(d, addr, size)))
<1>1. PICK m : m = Mid(d)
  OBVIOUS
<1>2. m \in Nat \ {0} /\ Bytes(d) = 0 .. 2 * m - 1 /\ Bytes(d - 1) = 0 .. m - 1 /\ Aligned(m)
  BY <1>1, Halves, BlocksAligned, Constants DEF Bytes
<1>3. PICK low, up, at : /\ low = Lower(d, addr, size) /\ up = Upper(d, addr, size)
                         /\ at = UpperAt(d, addr)
  OBVIOUS
<1>4. /\ low = IF addr >= m THEN 0 ELSE IF addr + size <= m THEN size ELSE m - addr
      /\ up = size - low /\ at = IF addr >= m THEN addr - m ELSE 0
  BY <1>1, <1>3 DEF Lower, Upper, UpperAt
<1>5. /\ \A c \in 0 .. m - 1 : c \in addr .. addr + size - 1 <=> c \in addr .. addr + low - 1
      /\ \A c \in Nat : m + c \in addr .. addr + size - 1 <=> c \in at .. at + up - 1
      /\ addr .. addr + low - 1 \subseteq 0 .. m - 1 /\ low \in Nat /\ up \in Nat /\ at \in Nat
  BY <1>2, <1>4
<1>6. ASSUME NEW b \in 0 .. m - 1
      PROVE  b \in Touched(d, addr, size) <=> b \in Touched(d - 1, addr, low)
  <2>1. ASSUME NEW c \in addr .. addr + size - 1, b \div PageSize = c \div PageSize
        PROVE  c \in addr .. addr + low - 1
    <3>1. c \in Nat /\ c < m
      <4>1. c \in Nat /\ b \in Nat /\ b < m
        BY <1>2
      <4>2. QED BY <1>2, <2>1, <4>1, PageShift
    <3>2. c \in 0 .. m - 1
      BY <1>2, <3>1
    <3>3. \A e \in 0 .. m - 1 : e \in addr .. addr + size - 1 <=> e \in addr .. addr + low - 1
      BY <1>5
    <3>4. c \in addr .. addr + size - 1
      BY <2>1
    <3>5. QED BY ONLY <3>2, <3>3, <3>4
  <2>2. \A c \in addr .. addr + low - 1 : c \in addr .. addr + size - 1
    BY <1>5
  <2>3. b \in Bytes(d) /\ b \in Bytes(d - 1)
    BY <1>2
  <2>4. QED BY <2>1, <2>2, <2>3 DEF Touched
<1>7. ASSUME NEW b \in 0 .. m - 1
      PROVE  m + b \in Touched(d, addr, size) <=> b \in Touched(d - 1, at, up)
  <2>1. \A c \in Nat : (m + b) \div PageSize = (m + c) \div PageSize
                          <=> b \div PageSize = c \div PageSize
    BY <1>2, PageShift
  <2>2. ASSUME NEW c \in addr .. addr + size - 1, (m + b) \div PageSize = c \div PageSize
        PROVE  \E e \in at .. at + up - 1 : b \div PageSize = e \div PageSize
    <3>1. c >= m
      <4>1. SUFFICES ASSUME ~(c >= m) PROVE FALSE
        OBVIOUS
      <4>2. c \in Nat /\ m + b \in Nat /\ c < m
        BY <1>2, <4>1
      <4>3. m + b < m
        BY <1>2, <2>2, <4>2, PageShift
      <4>4. QED BY <1>2, <4>3
    <3>2. PICK e : e = c - m
      OBVIOUS
    <3>3. e \in Nat /\ m + e = c
      BY <1>2, <3>1, <3>2
    <3>4. e \in at .. at + up - 1
      BY <1>5, <3>3
    <3>5. b \div PageSize = e \div PageSize
      BY <2>1, <2>2, <3>3
    <3>6. QED BY <3>4, <3>5
  <2>3. ASSUME NEW e \in at .. at + up - 1, b \div PageSize = e \div PageSize
        PROVE  \E c \in addr .. addr + size - 1 : (m + b) \div PageSize = c \div PageSize
    <3>1. e \in Nat
      BY <1>5
    <3>2. m + e \in addr .. addr + size - 1
      BY <1>5, <3>1
    <3>3. (m + b) \div PageSize = (m + e) \div PageSize
      BY <2>1, <2>3, <3>1
    <3>4. QED BY <3>2, <3>3
  <2>4. m + b \in Bytes(d) /\ b \in Bytes(d - 1)
    BY <1>2
  <2>5. QED BY <2>2, <2>3, <2>4 DEF Touched
<1>8. PICK T, L, H : /\ T = Touched(d, addr, size) /\ L = Touched(d - 1, addr, low)
                     /\ H = Touched(d - 1, at, up)
  OBVIOUS
<1>9. T \in SUBSET (0 .. 2 * m - 1) /\ L \in SUBSET (0 .. m - 1) /\ H \in SUBSET (0 .. m - 1)
  BY <1>2, <1>8 DEF Touched
<1>10. \A b \in 0 .. m - 1 : (b \in T <=> b \in L) /\ (m + b \in T <=> b \in H)
  BY <1>6, <1>7, <1>8
<1>11. T = L \cup {m + b : b \in H}
  <2>1. ASSUME NEW b \in T PROVE b \in L \cup {m + e : e \in H}
    <3>1. CASE b < m
      BY <1>2, <1>9, <1>10, <3>1
    <3>2. CASE ~(b < m)
      <4>1. b - m \in 0 .. m - 1 /\ m + (b - m) = b
        BY <1>2, <1>9, <3>2
      <4>2. b - m \in H
        BY <1>10, <4>1
      <4>3. QED BY <4>1, <4>2
    <3>3. QED BY <3>1, <3>2
  <2>2. \A b \in L : b \in T
    BY <1>9, <1>10
  <2>3. \A b \in H : m + b \in T
    BY <1>9, <1>10
  <2>4. QED BY <2>1, <2>2, <2>3
<1>12. QED BY <1>1, <1>3, <1>8, <1>11 DEF Up

\* Marking any range of a new block takes all its pages.
TakesPages(d, addr, size) ==
    LET u == MarkUsed[d][<<FreshBlock[d], addr, size>>]
    IN  u \in Sound[d] /\ FreeBytes[d][u] = Bytes(d) \ Touched(d, addr, size)

\* It does so in blocks of every order.
LEMMA ImageTaken ==
    \A d \in Orders : \A addr \in Nat, size \in Nat : TakesPages(d, addr, size)
<1> DEFINE S == {d \in Orders : \A addr \in Nat, size \in Nat : TakesPages(d, addr, size)}
<1>1. 0 \in S
  <2>1. PICK f : f = FreshBlock[0]
    OBVIOUS
  <2>2. /\ f \in Block[0] /\ 0 \in Orders /\ TotalSize[0] = PageSize /\ PageSize \in Nat \ {0}
        /\ f \in Sound[0] /\ Stale(0) \in Sound[0] /\ Stale(0) \in Block[0] /\ Stale(0).max = -1
    BY <2>1, FreshIs, StaleIs, SoundOnes, TotalSizeIs, Constants
  <2>3. Bytes(0) = 0 .. PageSize - 1 /\ \A b \in Bytes(0) : b \div PageSize = 0
    <3>1. Bytes(0) = 0 .. PageSize - 1
      BY <2>2 DEF Bytes
    <3>2. ASSUME NEW b \in 0 .. PageSize - 1 PROVE b \div PageSize = 0
      <4>1. (0 * PageSize + b) \div PageSize = 0
        BY <2>2, DivUnique
      <4>2. 0 * PageSize + b = b
        BY <2>2
      <4>3. QED BY <4>1, <4>2
    <3>3. QED BY <3>1, <3>2
  <2>4. ASSUME NEW addr \in Nat, NEW size \in Nat PROVE TakesPages(0, addr, size)
    <3>1. <<f, addr, size>> \in Calls(0)
      BY <2>2 DEF Calls
    <3>2. MarkUsed[0][<<f, addr, size>>] = PageMarkUsed(f, addr, size)
      BY <3>1, MarkUsedIs
    <3>3. CASE size > 0 /\ addr < PageSize
      <4>1. PageMarkUsed(f, addr, size) = Stale(0)
        BY <2>1, <3>3 DEF PageMarkUsed, Stale
      <4>2. FreeBytes[0][Stale(0)] = {}
        BY <2>2, FreeCases
      <4>3. addr \in addr .. addr + size - 1 /\ addr \in Bytes(0)
        BY <2>2, <2>3, <3>3
      <4>4. Touched(0, addr, size) = Bytes(0)
        BY <2>3, <4>3 DEF Touched
      <4>5. QED BY <2>1, <2>2, <3>2, <4>1, <4>2, <4>4 DEF TakesPages
    <3>4. CASE ~(size > 0 /\ addr < PageSize)
      <4>1. PageMarkUsed(f, addr, size) = f
        BY <3>4 DEF PageMarkUsed
      <4>2. FreeBytes[0][f] = Bytes(0)
        BY <2>1, <2>2, FreeCases
      <4>3. \A b \in Bytes(0), c \in addr .. addr + size - 1 : b \div PageSize # c \div PageSize
        <5>1. ASSUME NEW b \in Bytes(0), NEW c \in addr .. addr + size - 1,
                     b \div PageSize = c \div PageSize
              PROVE  FALSE
          <6>1. c \in Nat /\ b \in Nat /\ b < PageSize /\ ~(c < PageSize)
            BY <2>2, <2>3, <3>4
          <6>2. PageSize \in Nat /\ Aligned(PageSize)
            BY <2>2, BlocksAligned
          <6>3. c < PageSize
            BY <5>1, <6>1, <6>2, PageShift
          <6>4. QED BY <6>1, <6>3
        <5>2. QED BY <5>1
      <4>4. Touched(0, addr, size) = {}
        BY <4>3 DEF Touched
      <4>5. QED BY <2>1, <2>2, <3>2, <4>1, <4>2, <4>4 DEF TakesPages
    <3>5. QED BY <3>3, <3>4
  <2>5. QED BY <2>2, <2>4
<1>2. ASSUME NEW d \in 1 .. Depth, d - 1 \in S PROVE d \in S
  <2>1. PICK f, g : f = FreshBlock[d] /\ g = FreshBlock[d - 1]
    OBVIOUS
  <2>2. /\ f \in Block[d] /\ d \in Orders /\ d - 1 \in Orders /\ f \in Sound[d] /\ f.max = d
        /\ d # -1 /\ Stale(d) \in Sound[d] /\ TotalSize[d] \in Nat
    BY <2>1, FreshIs, StaleIs, SoundOnes, TotalSizeIs, Constants
  <2>3. FreeBytes[d][f] = Bytes(d) /\ FreeBytes[d][Stale(d)] = {}
    BY <2>1, <2>2, StaleIs, FreeCases
  <2>4. ASSUME NEW addr \in Nat, NEW size \in Nat PROVE TakesPages(d, addr, size)
    <3>1. <<f, addr, size>> \in Calls(d)
      BY <2>2 DEF Calls
    <3>2. MarkUsed[d][<<f, addr, size>>] = BlockMarkUsed(d, MarkUsed[d - 1], f, addr, size)
      BY <3>1, MarkUsedIs
    <3>3. CASE size = 0
      <4>1. MarkUsed[d][<<f, addr, size>>] = f
        BY <3>2, <3>3 DEF BlockMarkUsed
      <4>2. Touched(d, addr, size) = {}
        BY <3>3 DEF Touched
      <4>3. QED BY <2>1, <2>2, <2>3, <4>1, <4>2 DEF TakesPages
    <3>4. CASE size # 0 /\ addr = 0 /\ size >= TotalSize[d]
      <4>1. MarkUsed[d][<<f, addr, size>>] = Stale(d)
        BY <2>1, <2>2, <3>2, <3>4 DEF BlockMarkUsed, Stale
      <4>2. \A b \in Bytes(d) : b \in addr .. addr + size - 1
        BY <2>2, <3>4 DEF Bytes
      <4>3. Touched(d, addr, size) = Bytes(d)
        BY <4>2 DEF Touched
      <4>4. QED BY <2>1, <2>2, <2>3, <4>1, <4>3 DEF TakesPages
    <3>5. CASE size # 0 /\ ~(addr = 0 /\ size >= TotalSize[d])
      <4>1. PICK s : s = Split(f, d)
        OBVIOUS
      <4>2. PICK low, up, at : /\ low = Lower(d, addr, size) /\ up = Upper(d, addr, size)
                               /\ at = UpperAt(d, addr)
        OBVIOUS
      <4>3. low \in Nat /\ up \in Nat /\ at \in Nat
        BY <4>2, RangeParts
      <4>4. s.kids[1] = g /\ s.kids[2] = g
        BY <2>1, <4>1, FreshSplit
      <4>5. PICK k, h : k = MarkUsed[d - 1][<<g, addr, low>>] /\ h = MarkUsed[d - 1][<<g, at, up>>]
        OBVIOUS
      <4>6. MarkUsed[d][<<f, addr, size>>] = Refresh(k, h)
        BY <2>2, <3>5, <4>1, <4>2, <4>4, <4>5, MarkEnters
      <4>7. TakesPages(d - 1, addr, low) /\ TakesPages(d - 1, at, up)
        BY <1>2, <4>3
      <4>8. PICK T, H : T = Touched(d - 1, addr, low) /\ H = Touched(d - 1, at, up)
        OBVIOUS
      <4>9. /\ k \in Sound[d - 1] /\ FreeBytes[d - 1][k] = Bytes(d - 1) \ T
            /\ h \in Sound[d - 1] /\ FreeBytes[d - 1][h] = Bytes(d - 1) \ H
        BY <2>1, <4>5, <4>7, <4>8 DEF TakesPages
      <4>10. PICK u : u = Refresh(k, h)
        OBVIOUS
      <4>11. u \in Sound[d] /\ FreeBytes[d][u] = FreeBytes[d - 1][k] \cup Up(d, FreeBytes[d - 1][h])
        <5>1. Joined(d, u, k, h)
          BY <4>10 DEF Joined
        <5>2. k \in Sound[d - 1] /\ h \in Sound[d - 1]
          BY <4>9
        <5>3. QED BY ONLY d \in 1 .. Depth, <5>1, <5>2, Join
      <4>12. FreeBytes[d][u] = Bytes(d) \ (T \cup Up(d, H))
        <5>1. /\ Bytes(d) = Bytes(d - 1) \cup Up(d, Bytes(d - 1)) /\ Mid(d) \in Nat
              /\ \A b \in Bytes(d - 1) : b \in Nat /\ b < Mid(d)
          BY BytesOfHalves, Halves
        <5>2. T \in SUBSET Bytes(d - 1) /\ H \in SUBSET Bytes(d - 1)
          BY <4>8 DEF Touched
        <5>3. Up(d, Bytes(d - 1) \ H) = Up(d, Bytes(d - 1)) \ Up(d, H)
          BY <5>1, <5>2 DEF Up
        <5>4. Bytes(d - 1) \cap Up(d, H) = {} /\ T \cap Up(d, Bytes(d - 1)) = {}
          BY <5>1, <5>2 DEF Up
        <5>5. QED BY <4>9, <4>11, <5>1, <5>2, <5>3, <5>4
      <4>13. Touched(d, addr, size) = T \cup Up(d, H)
        BY <4>2, <4>8, TouchedHalves
      <4>14. QED BY <2>1, <4>6, <4>10, <4>11, <4>12, <4>13 DEF TakesPages
    <3>6. QED BY <3>3, <3>4, <3>5
  <2>5. QED BY <2>2, <2>4
<1> HIDE DEF S
<1>3. \A d \in Orders : d \in S
  BY <1>1, <1>2, OrderInduction
<1>4. QED BY <1>3 DEF S

--------------------------------------------------------------------------------
(* Labels never promise too much *)

\* A block whose label promises pages has some; the label is at most the order of the
\* largest block that is free as a whole.
Honest(d, t) ==
    /\ t.max # -1 => FreeBytes[d][t] # {}
    /\ t.max <= LargestFree[d][t]

\* So it is with sound blocks.
LEMMA SoundIsHonest == \A d \in Orders : \A t \in Sound[d] : Honest(d, t)
<1> DEFINE S == {d \in Orders : \A t \in Sound[d] : Honest(d, t)}
<1>1. 0 \in S
  <2>1. ASSUME NEW t \in Sound[0] PROVE Honest(0, t)
    <3>1. t \in Block[0] /\ t.max \in {-1, 0} /\ 0 \in Orders
      BY SoundIs, PageIs, Constants
    <3>2. LargestFree[0][t] = t.max
      BY <3>1, LargestFreeIs
    <3>3. t.max # -1 => t = FreshBlock[0]
      BY <3>1, PageIs
    <3>4. FreeBytes[0][FreshBlock[0]] = Bytes(0) /\ 0 \in Bytes(0)
      BY <3>1, FreeCases, TotalSizeIs, Constants DEF Bytes
    <3>5. QED BY <3>1, <3>2, <3>3, <3>4 DEF Honest
  <2>2. QED BY <2>1, Constants
<1>2. ASSUME NEW d \in 1 .. Depth, d - 1 \in S PROVE d \in S
  <2>1. ASSUME NEW t \in Sound[d] PROVE Honest(d, t)
    <3>1. /\ t \in Block[d] /\ d \in Orders /\ d - 1 \in Orders /\ d \in Nat /\ t.max \in -1 .. d
          /\ t.kids[1] \in Sound[d - 1] /\ t.kids[2] \in Sound[d - 1]
      BY SoundParts, Constants
    <3>2. t.kids[1] \in Block[d - 1] /\ t.kids[2] \in Block[d - 1]
      BY <3>1, SoundOnes
    <3>3. PICK F, n : F = FreeBytes[d][t] /\ n = LargestFree[d][t]
      OBVIOUS
    <3>4. /\ F = {} => n = -1
          /\ F = Bytes(d) /\ F # {} => n = d
          /\ F # Bytes(d) /\ F # {} =>
                n = Max2(LargestFree[d - 1][t.kids[1]], LargestFree[d - 1][t.kids[2]])
      <4>1. n = BlockLargest(d, LargestFree[d - 1], t)
        BY <3>1, <3>3, LargestFreeIs
      <4>2. QED BY <3>3, <4>1 DEF BlockLargest, Bytes
    <3>5. CASE t = FreshBlock[d]
      <4>1. F = Bytes(d) /\ Bytes(d) # {}
        BY <3>1, <3>3, <3>5, FreeCases, BytesOfHalves
      <4>2. QED BY <3>1, <3>3, <3>4, <4>1 DEF Honest
    <3>6. CASE t.max = -1
      <4>1. F = {}
        BY <3>1, <3>3, <3>6, FreeCases
      <4>2. QED BY <3>3, <3>4, <3>6, <4>1 DEF Honest
    <3>7. CASE t # FreshBlock[d] /\ t.max # -1
      <4>1. PICK l, r : l = t.kids[1] /\ r = t.kids[2]
        OBVIOUS
      <4>2. t = Refresh(l, r)
        <5>1. t # Stale(d)
          BY <3>1, <3>7, StaleIs
        <5>2. QED BY <3>7, <4>1, <5>1, SoundParts
      <4>3. /\ t.max = Max2(l.max, r.max)
            /\ l.max \in -1 .. d - 1 /\ r.max \in -1 .. d - 1
        <5>1. l \in Block[d - 1] /\ r \in Block[d - 1]
          BY <3>2, <4>1
        <5>2. QED BY ONLY d \in 1 .. Depth, <4>2, <5>1, RefreshIs
      <4>4. Honest(d - 1, l) /\ Honest(d - 1, r)
        BY <1>2, <3>1, <4>1
      <4>5. LargestFree[d - 1][l] \in Int /\ LargestFree[d - 1][r] \in Int
        BY <3>1, <3>2, <4>1, LargestFreeIs
      <4>6. F = FreeBytes[d - 1][l] \cup Up(d, FreeBytes[d - 1][r])
        <5>1. d # 0 /\ l \in Block[d - 1] /\ r \in Block[d - 1]
          BY <3>2, <4>1, Constants
        <5>2. FreeBytes[d][Refresh(l, r)] = FreeBytes[d - 1][l] \cup Up(d, FreeBytes[d - 1][r])
          BY <3>1, <5>1, FreeCases
        <5>3. QED BY <3>3, <4>2, <5>2
      <4>7. F # {}
        <5>1. l.max # -1 \/ r.max # -1
          BY <3>7, <4>3 DEF Max2
        <5>2. FreeBytes[d - 1][l] # {} \/ FreeBytes[d - 1][r] # {}
          BY <4>4, <5>1 DEF Honest
        <5>3. QED BY <4>6, <5>2 DEF Up
      <4>8. F # Bytes(d) => t.max <= n
        <5>1. l.max <= LargestFree[d - 1][l] /\ r.max <= LargestFree[d - 1][r]
          BY <4>4 DEF Honest
        <5>2. QED BY <3>4, <4>1, <4>3, <4>5, <4>7, <5>1 DEF Max2
      <4>9. F = Bytes(d) => t.max <= n
        BY <3>1, <3>4, <4>7
      <4>10. QED BY <3>3, <4>7, <4>8, <4>9 DEF Honest
    <3>8. QED BY <3>5, <3>6, <3>7
  <2>2. d \in Orders
    BY Constants
  <2>3. QED BY <2>1, <2>2
<1> HIDE DEF S
<1>3. \A d \in Orders : d \in S
  BY <1>1, <1>2, OrderInduction
<1>4. QED BY <1>3 DEF S

--------------------------------------------------------------------------------
(* The inductive invariant *)

\* The bytes of a mapping, what a mapping is, the bytes of the image's pages, and all the
\* bytes that are taken when L are the mappings and i is the image.
RangeOf(r)   == r[1] .. r[1] + r[2] - 1
IsMapping(r) == /\ r \in Nat \X Nat /\ Aligned(r[1]) /\ Aligned(r[2])
                /\ r[2] # 0 /\ r[1] + r[2] <= Total
ImageOf(i)   == Touched(Depth, i[1], i[2])
Taken(L, i)  == ImageOf(i) \cup UNION {RangeOf(r) : r \in L}

\* The tree t is sound and tells what is taken; it holds every mapping as a whole, so that
\* free_range() gets back to the blocks that were taken for it; and no two mappings have a
\* byte in common.
Good(t, L, i) ==
    /\ t \in Sound[Depth]
    /\ FreeBytes[Depth][t] = Bytes(Depth) \ Taken(L, i)
    /\ \A r \in L : IsMapping(r) /\ RangeOf(r) \in Held[Depth][t] /\ RangeOf(r) \cap ImageOf(i) = {}
    /\ \A r, q \in L : r = q \/ RangeOf(r) \cap RangeOf(q) = {}

\* The invariant that every step keeps.
IInv == image \in Images /\ Good(root, live, image)

\* A mapping is a range of the root's bytes.
LEMMA MappingSpan ==
    ASSUME NEW r, IsMapping(r)
    PROVE  /\ RangeOf(r) = Span(Depth, r[1], r[2])
           /\ RangeOf(r) \in SUBSET Bytes(Depth) /\ RangeOf(r) # {}
           /\ r[1] \in Nat /\ r[2] \in Nat
<1>1. r[1] \in Nat /\ r[2] \in Nat /\ r[2] # 0 /\ r[1] + r[2] <= Total
  BY DEF IsMapping
<1>2. Bytes(Depth) = 0 .. Total - 1 /\ Total \in Nat
  BY AddressSpace DEF Bytes, Total
<1>3. RangeOf(r) \in SUBSET Bytes(Depth) /\ r[1] \in RangeOf(r)
  BY <1>1, <1>2 DEF RangeOf
<1>4. RangeOf(r) = Span(Depth, r[1], r[2])
  BY <1>1, <1>2, <1>3 DEF RangeOf, Span
<1>5. QED BY <1>1, <1>3, <1>4

\* A mapping made in a range that can be used.
LEMMA GoodMapped ==
    ASSUME NEW t, NEW L, NEW i, Good(t, L, i), NEW at \in Nat, Aligned(at),
           NEW size \in Nat, Aligned(size), size # 0, Usable(Depth, t, at, size)
    PROVE  /\ Good(MarkUsed[Depth][<<t, at, size>>], L \cup {<<at, size>>}, i)
           /\ IsMapping(<<at, size>>)
           /\ RangeOf(<<at, size>>) \subseteq Bytes(Depth) \ Taken(L, i)
<1>1. PICK u, q, R : u = MarkUsed[Depth][<<t, at, size>>] /\ q = <<at, size>> /\ R = RangeOf(q)
  OBVIOUS
<1>2. Total = TotalSize[Depth] /\ Depth \in Orders /\ t \in Sound[Depth]
  BY Constants DEF Total, Good
<1>3. IsMapping(q)
  BY <1>1, <1>2 DEF IsMapping, Usable
<1>4. R = Span(Depth, at, size) /\ R \in SUBSET Bytes(Depth) /\ R # {}
  BY <1>1, <1>3, MappingSpan
<1>5. Takes(Depth, t, u, R) /\ R \subseteq FreeBytes[Depth][t]
  BY <1>1, <1>4 DEF Usable, MarkTakes
<1>6. R \subseteq Bytes(Depth) \ Taken(L, i)
  BY <1>5 DEF Good
<1>7. u \in Sound[Depth] /\ R \in Held[Depth][u] /\ \A Q \in Held[Depth][t] : Q \in Held[Depth][u]
  BY <1>5 DEF Takes
<1>8. Taken(L \cup {q}, i) = Taken(L, i) \cup R
  BY <1>1 DEF Taken
<1>9. FreeBytes[Depth][u] = Bytes(Depth) \ Taken(L \cup {q}, i)
  BY <1>5, <1>8 DEF Takes, Good
<1>10. \A r \in L : RangeOf(r) \cap R = {}
  BY <1>6 DEF Taken
<1>11. R \cap ImageOf(i) = {}
  BY <1>6 DEF Taken
<1>12. ASSUME NEW r \in L \cup {q}
       PROVE  IsMapping(r) /\ RangeOf(r) \in Held[Depth][u] /\ RangeOf(r) \cap ImageOf(i) = {}
  <2>1. CASE r \in L
    BY <1>7, <2>1 DEF Good
  <2>2. CASE r = q
    BY <1>1, <1>3, <1>7, <1>11, <2>2
  <2>3. QED BY <2>1, <2>2
<1>13. \A r, s \in L \cup {q} : r = s \/ RangeOf(r) \cap RangeOf(s) = {}
  BY <1>1, <1>10 DEF Good
<1>14. Good(u, L \cup {q}, i)
  BY <1>7, <1>9, <1>12, <1>13 DEF Good
<1>15. QED BY <1>1, <1>3, <1>6, <1>14

\* A mapping that could not be made: alloc_null is above every block.
LEMMA GoodFails ==
    ASSUME NEW t, NEW L, NEW i, Good(t, L, i), NEW size \in Nat
    PROVE  Good(MarkUsed[Depth][<<t, AllocNull, size>>], L, i)
<1>1. PICK u : u = MarkUsed[Depth][<<t, AllocNull, size>>]
  OBVIOUS
<1>2. t \in Sound[Depth] /\ Depth \in Orders /\ AllocNull \in Nat /\ AllocNull >= TotalSize[Depth]
  BY Constants, InSpace DEF Good
<1>3. Span(Depth, AllocNull, size) = {}
  BY <1>2, SpanCases
<1>4. Takes(Depth, t, u, {})
  <2>1. MarkTakes(Depth, t, AllocNull, size)
    BY <1>2, <1>3, TakesRange DEF Takeable
  <2>2. QED BY <1>1, <1>3, <2>1 DEF MarkTakes
<1>5. QED BY <1>1, <1>4 DEF Good, Takes

\* Giving back the first bytes of a mapping.
LEMMA GoodUnmapped ==
    ASSUME NEW t, NEW L, NEW i, Good(t, L, i), NEW r \in L, NEW size \in 1 .. r[2], Aligned(size),
           NEW M, M = (L \ {r}) \cup (IF size < r[2] THEN {<<r[1] + size, r[2] - size>>} ELSE {})
    PROVE  Good(FreeRange[Depth][<<t, r[1], size>>], M, i)
<1>1. PICK u, H, R : /\ u = FreeRange[Depth][<<t, r[1], size>>] /\ H = RangeOf(r)
                     /\ R = Span(Depth, r[1], size)
  OBVIOUS
<1>2. IsMapping(r) /\ H \in Held[Depth][t] /\ t \in Sound[Depth] /\ Depth \in Orders
  BY <1>1, Constants DEF Good
<1>3. PICK a, n : a = r[1] /\ n = r[2]
  OBVIOUS
<1>4. /\ a \in Nat /\ n \in Nat /\ Aligned(a) /\ Aligned(n) /\ a + n <= Total
      /\ size \in Nat /\ size # 0 /\ size <= n
  BY <1>2, <1>3, MappingSpan DEF IsMapping
<1>5. H = a .. a + n - 1 /\ H \in SUBSET Bytes(Depth)
  BY <1>1, <1>2, <1>3, MappingSpan DEF RangeOf
<1>6. R = a .. a + size - 1 /\ R \subseteq H
  <2>1. H = Span(Depth, a, n)
    BY <1>1, <1>2, <1>3, MappingSpan
  <2>2. R \subseteq H
    BY <1>1, <1>3, <1>4, <2>1 DEF Span, Bytes
  <2>3. a .. a + size - 1 \subseteq H
    BY <1>4, <1>5
  <2>4. a .. a + size - 1 \subseteq R
    BY <1>1, <1>3, <1>4, <1>5, <2>3 DEF Span
  <2>5. R \subseteq a .. a + size - 1
    BY <1>1, <1>3, <1>4 DEF Span, Bytes
  <2>6. QED BY <2>2, <2>4, <2>5
<1>7. Gives(Depth, t, u, R, H)
  <2>1. FreeGives(Depth, t, a, size, H)
    BY <1>1, <1>2, <1>3, <1>4, <1>6, GivesRange
  <2>2. QED BY <1>1, <1>3, <2>1 DEF FreeGives
<1>8. /\ u \in Sound[Depth] /\ FreeBytes[Depth][u] = FreeBytes[Depth][t] \cup R
      /\ H \ R \in Held[Depth][u]
      /\ \A Q \in Held[Depth][t] : Q \cap H = {} => Q \in Held[Depth][u]
  BY <1>7 DEF Gives
<1>9. \A x \in L \ {r} : RangeOf(x) \cap H = {} /\ IsMapping(x) /\ RangeOf(x) \in Held[Depth][t]
                         /\ RangeOf(x) \cap ImageOf(i) = {}
  BY <1>1 DEF Good
<1>10. H \cap ImageOf(i) = {}
  BY <1>1 DEF Good
<1>11. PICK q : q = <<a + size, n - size>>
  OBVIOUS
<1>12. M = IF size < n THEN (L \ {r}) \cup {q} ELSE L \ {r}
  BY <1>3, <1>11
<1>13. size < n => RangeOf(q) = H \ R /\ IsMapping(q)
  <2>1. ASSUME size < n PROVE RangeOf(q) = H \ R
    <3>1. q[1] = a + size /\ q[2] = n - size
      BY <1>11
    <3>2. RangeOf(q) = (a + size) .. (a + size) + (n - size) - 1
      BY <3>1 DEF RangeOf
    <3>3. QED BY <1>4, <1>5, <1>6, <3>2
  <2>2. ASSUME size < n PROVE IsMapping(q)
    <3>1. Aligned(a + size) /\ Aligned(n - size)
      BY <1>4, AlignedSums
    <3>2. QED BY <1>4, <1>11, <2>2, <3>1 DEF IsMapping
  <2>3. QED BY <2>1, <2>2
<1>14. ~(size < n) => H \ R = {}
  BY <1>4, <1>5, <1>6
<1>15. ASSUME NEW x \in M
       PROVE  IsMapping(x) /\ RangeOf(x) \in Held[Depth][u] /\ RangeOf(x) \cap ImageOf(i) = {}
  <2>1. CASE x \in L \ {r}
    BY <1>8, <1>9, <2>1
  <2>2. CASE size < n /\ x = q
    <3>1. RangeOf(x) = H \ R /\ IsMapping(x)
      BY <1>13, <2>2
    <3>2. QED BY <1>8, <1>10, <3>1
  <2>3. QED BY <1>12, <2>1, <2>2
<1>16. ASSUME NEW x \in M, NEW y \in M, x # y PROVE RangeOf(x) \cap RangeOf(y) = {}
  <2>1. CASE x \in L \ {r} /\ y \in L \ {r}
    BY <1>16, <2>1 DEF Good
  <2>2. CASE size < n /\ x = q /\ y \in L \ {r}
    BY <1>9, <1>13, <2>2
  <2>3. CASE size < n /\ y = q /\ x \in L \ {r}
    BY <1>9, <1>13, <2>3
  <2>4. QED BY <1>12, <1>16, <2>1, <2>2, <2>3
<1>17. Taken(M, i) = Taken(L, i) \ R
  <2>1. PICK I, V : I = ImageOf(i) /\ V = UNION {RangeOf(x) : x \in L \ {r}}
    OBVIOUS
  <2>2. Taken(L, i) = I \cup V \cup H
    BY <1>1, <2>1 DEF Taken
  <2>3. Taken(M, i) = I \cup V \cup (H \ R)
    <3>1. CASE size < n
      BY <1>12, <1>13, <2>1, <3>1 DEF Taken
    <3>2. CASE ~(size < n)
      BY <1>12, <1>14, <2>1, <3>2 DEF Taken
    <3>3. QED BY <3>1, <3>2
  <2>4. I \cap H = {} /\ V \cap H = {}
    BY <1>9, <1>10, <2>1
  <2>5. QED BY <1>6, <2>2, <2>3, <2>4
<1>18. FreeBytes[Depth][u] = Bytes(Depth) \ Taken(M, i)
  <2>1. FreeBytes[Depth][t] = Bytes(Depth) \ Taken(L, i)
    BY DEF Good
  <2>2. R \in SUBSET Bytes(Depth)
    BY <1>5, <1>6
  <2>3. QED BY <1>8, <1>17, <2>1, <2>2
<1>19. \A x, y \in M : x = y \/ RangeOf(x) \cap RangeOf(y) = {}
  BY <1>16
<1>20. Good(u, M, i)
  BY <1>8, <1>15, <1>18, <1>19 DEF Good
<1>21. QED BY <1>1, <1>20

\* Where mmap() maps: at the address asked for when that is free, where get_range() says
\* when it finds a range, and nowhere when the label promises none.
LEMMA MmapWhere ==
    ASSUME NEW t \in Sound[Depth], NEW addr \in Nat, Aligned(addr),
           NEW size \in Nat, Aligned(size), size # 0, NEW found, NEW at, NEW tree,
           found = GetRange[Depth][<<t, size>>],
           at = IF IsRangeFree[Depth][<<t, addr, size>>] THEN addr ELSE found.at,
           tree = IF IsRangeFree[Depth][<<t, addr, size>>] THEN t ELSE found.tree
    PROVE  /\ MarkUsed[Depth][<<tree, at, size>>] = MarkUsed[Depth][<<t, at, size>>]
           /\ \/ at # AllocNull /\ at \in Nat /\ Aligned(at) /\ Usable(Depth, t, at, size)
              \/ at = AllocNull /\ ~Offers(Depth, t, size)
<1>1. Depth \in Orders
  BY Constants
<1>2. \A a \in Nat : Usable(Depth, t, a, size) => a # AllocNull
  BY <1>1, InSpace DEF Usable
<1>3. CASE IsRangeFree[Depth][<<t, addr, size>>]
  <2>1. Usable(Depth, t, addr, size)
    BY <1>1, <1>3, FreeIsUsable
  <2>2. at = addr /\ tree = t
    BY <1>3
  <2>3. QED BY <1>2, <2>1, <2>2
<1>4. CASE ~IsRangeFree[Depth][<<t, addr, size>>]
  <2>1. Finds(Depth, t, size, found)
    BY <1>1, FindsRange
  <2>2. at = found.at /\ tree = found.tree
    BY <1>4
  <2>3. CASE Offers(Depth, t, size)
    <3>1. /\ found.at \in Nat /\ Aligned(found.at) /\ Usable(Depth, t, found.at, size)
          /\ SameMark(Depth, t, found.tree, found.at, size)
      BY <2>1, <2>3 DEF Finds
    <3>2. QED BY <1>2, <2>2, <3>1 DEF SameMark
  <2>4. CASE ~Offers(Depth, t, size)
    BY <2>1, <2>2, <2>4 DEF Finds
  <2>5. QED BY <2>3, <2>4
<1>5. QED BY <1>3, <1>4

\* The tree setup_heap() leaves.
LEMMA GoodInit ==
    ASSUME NEW i \in Images
    PROVE  Good(MarkUsed[Depth][<<FreshBlock[Depth], i[1], i[2]>>], {}, i)
<1>1. PICK u : u = MarkUsed[Depth][<<FreshBlock[Depth], i[1], i[2]>>]
  OBVIOUS
<1>2. i[1] \in Nat /\ i[2] \in Nat
  BY SizesAssumption, AddressSpace
<1>3. TakesPages(Depth, i[1], i[2])
  BY <1>2, ImageTaken, Constants
<1>4. u \in Sound[Depth] /\ FreeBytes[Depth][u] = Bytes(Depth) \ ImageOf(i)
  BY <1>1, <1>3 DEF TakesPages, ImageOf
<1>5. Taken({}, i) = ImageOf(i)
  BY DEF Taken
<1>6. QED BY <1>1, <1>4, <1>5 DEF Good

\* The sizes asked for are whole pages, and one at least.
LEMMA SizesAre ==
    ASSUME NEW size \in Sizes
    PROVE  size \in Nat /\ Aligned(size) /\ size # 0 /\ size >= PageSize
<1>1. size \in Nat /\ Aligned(size) /\ size # 0
  BY SizesAssumption, AddressSpace
<1>2. size < PageSize => size = 0
  BY <1>1, AlignedSums
<1>3. QED BY <1>1, <1>2, Constants

\* mmap() keeps the invariant; it maps a range nobody has, or it leaves things as they are,
\* and then the root's label promises no such range.
LEMMA MmapStep ==
    ASSUME IInv, NEW addr \in Nat, Aligned(addr), NEW size \in Sizes, Mmap(addr, size)
    PROVE  /\ IInv' /\ image' = image
           /\ \/ \E at \in Nat : /\ IsMapping(<<at, size>>)
                                 /\ RangeOf(<<at, size>>)
                                       \subseteq Bytes(Depth) \ Taken(live, image)
                                 /\ live' = live \cup {<<at, size>>}
              \/ live' = live /\ ~Offers(Depth, root, size)
<1>1. PICK t, L, i : t = root /\ L = live /\ i = image
  OBVIOUS
<1>2. PICK found : found = GetRange[Depth][<<t, size>>]
  OBVIOUS
<1>3. PICK at, tree :
         /\ at = (IF IsRangeFree[Depth][<<t, addr, size>>] THEN addr ELSE found.at)
         /\ tree = (IF IsRangeFree[Depth][<<t, addr, size>>] THEN t ELSE found.tree)
  OBVIOUS
<1>4. /\ root' = MarkUsed[Depth][<<tree, at, size>>]
      /\ live' = IF at = AllocNull THEN L ELSE L \cup {<<at, size>>}
      /\ image' = i
  BY <1>1, <1>2, <1>3 DEF Mmap
<1>5. Good(t, L, i) /\ i \in Images /\ t \in Sound[Depth]
  BY <1>1 DEF IInv, Good
<1>6. size \in Nat /\ Aligned(size) /\ size # 0
  BY SizesAre
<1>7. /\ root' = MarkUsed[Depth][<<t, at, size>>]
      /\ \/ at # AllocNull /\ at \in Nat /\ Aligned(at) /\ Usable(Depth, t, at, size)
         \/ at = AllocNull /\ ~Offers(Depth, t, size)
  <2>1. /\ MarkUsed[Depth][<<tree, at, size>>] = MarkUsed[Depth][<<t, at, size>>]
        /\ \/ at # AllocNull /\ at \in Nat /\ Aligned(at) /\ Usable(Depth, t, at, size)
           \/ at = AllocNull /\ ~Offers(Depth, t, size)
    <3>1. t \in Sound[Depth]
      BY <1>5
    <3>2. QED BY ONLY <1>2, <1>3, <1>6, <3>1, addr \in Nat, Aligned(addr), MmapWhere
  <2>2. QED BY <1>4, <2>1
<1>8. CASE at # AllocNull /\ at \in Nat /\ Aligned(at) /\ Usable(Depth, t, at, size)
  <2>1. live' = L \cup {<<at, size>>}
    BY <1>4, <1>8
  <2>2. /\ Good(root', L \cup {<<at, size>>}, i) /\ IsMapping(<<at, size>>)
        /\ RangeOf(<<at, size>>) \subseteq Bytes(Depth) \ Taken(L, i)
    BY <1>5, <1>6, <1>7, <1>8, GoodMapped
  <2>3. Good(root', live', image')
    BY <1>4, <2>1, <2>2
  <2>4. IInv'
    BY <1>4, <1>5, <2>3 DEF IInv
  <2>5. QED BY <1>1, <1>4, <1>8, <2>1, <2>2, <2>4
<1>9. CASE at = AllocNull /\ ~Offers(Depth, t, size)
  <2>1. live' = L
    BY <1>4, <1>9
  <2>2. Good(root', L, i)
    BY <1>5, <1>6, <1>7, <1>9, GoodFails
  <2>3. Good(root', live', image')
    BY <1>4, <2>1, <2>2
  <2>4. IInv'
    BY <1>4, <1>5, <2>3 DEF IInv
  <2>5. QED BY <1>1, <1>4, <1>9, <2>1, <2>4
<1>10. QED BY <1>7, <1>8, <1>9

\* munmap() keeps the invariant.
LEMMA MunmapStep ==
    ASSUME IInv, NEW r \in live, NEW size \in 1 .. r[2], Aligned(size), Munmap(r, size)
    PROVE  IInv'
<1>1. PICK t, L, i : t = root /\ L = live /\ i = image
  OBVIOUS
<1>2. PICK M : M = (L \ {r}) \cup (IF size < r[2] THEN {<<r[1] + size, r[2] - size>>} ELSE {})
  OBVIOUS
<1>3. root' = FreeRange[Depth][<<t, r[1], size>>] /\ live' = M /\ image' = i
  BY <1>1, <1>2 DEF Munmap
<1>4. Good(t, L, i) /\ i \in Images /\ r \in L
  BY <1>1 DEF IInv
<1>5. Good(root', M, i)
  BY <1>2, <1>3, <1>4, GoodUnmapped
<1>6. Good(root', live', image')
  BY <1>3, <1>5
<1>7. QED BY <1>3, <1>4, <1>6 DEF IInv

\* The steps of the allocator, one by one.
LEMMA Steps ==
    ASSUME IInv, [Next]_vars
    PROVE  \/ \E addr \in Nat : \E size \in Sizes : Aligned(addr) /\ Mmap(addr, size)
           \/ \E r \in live : \E size \in 1 .. r[2] : Aligned(size) /\ Munmap(r, size)
           \/ UNCHANGED vars
<1>1. ASSUME NEW size \in Sizes, Mmap(NoHint, size)
      PROVE  \E addr \in Nat : \E n \in Sizes : Aligned(addr) /\ Mmap(addr, n)
  <2>1. Total \in Nat /\ Aligned(Total)
    BY AddressSpace, BlocksAligned, Constants DEF Total
  <2>2. NoHint \in Nat /\ NoHint = Total + Total
    BY <2>1 DEF NoHint
  <2>3. Aligned(NoHint)
    BY <2>1, <2>2, AlignedSums
  <2>4. QED BY <1>1, <2>2, <2>3
<1>2. ASSUME NEW size \in Hinted, NEW addr \in 0 .. Total - 1, Aligned(addr), Mmap(addr, size)
      PROVE  \E a \in Nat : \E n \in Sizes : Aligned(a) /\ Mmap(a, n)
  <2>1. addr \in Nat /\ size \in Sizes
    BY SizesAssumption, AddressSpace
  <2>2. QED BY <1>2, <2>1
<1>3. QED BY <1>1, <1>2 DEF Next

--------------------------------------------------------------------------------
(* Theorems *)

\* The invariant holds of the tree that setup_heap() leaves, and every step keeps it.
LEMMA Safe == Spec => []IInv
<1>1. Init => IInv
  <2> SUFFICES ASSUME Init PROVE IInv
    OBVIOUS
  <2>1. PICK i : i = image
    OBVIOUS
  <2>2. i \in Images /\ root = MarkUsed[Depth][<<FreshBlock[Depth], i[1], i[2]>>] /\ live = {}
    BY <2>1 DEF Init
  <2>3. Good(MarkUsed[Depth][<<FreshBlock[Depth], i[1], i[2]>>], {}, i)
    BY <2>2, GoodInit
  <2>4. QED BY <2>1, <2>2, <2>3 DEF IInv
<1>2. IInv /\ [Next]_vars => IInv'
  <2> SUFFICES ASSUME IInv, [Next]_vars PROVE IInv'
    OBVIOUS
  <2>1. ASSUME NEW addr \in Nat, NEW size \in Sizes, Aligned(addr), Mmap(addr, size) PROVE IInv'
    BY <2>1, MmapStep
  <2>2. ASSUME NEW r \in live, NEW size \in 1 .. r[2], Aligned(size), Munmap(r, size) PROVE IInv'
    BY <2>2, MunmapStep
  <2>3. CASE UNCHANGED vars
    BY <2>3 DEF IInv, vars
  <2>4. QED BY <2>1, <2>2, <2>3, Steps
<1>3. QED BY <1>1, <1>2, PTL DEF Spec

\* The bytes of the image's pages, and all bytes taken, as module Buddy has them.
LEMMA TakenIs == ImageBytes = ImageOf(image) /\ LiveBytes = Taken(live, image)
<1>1. Bytes(Depth) = 0 .. Total - 1
  BY DEF Bytes, Total
<1>2. ImageBytes = ImageOf(image)
  BY <1>1 DEF ImageBytes, ImageOf, Touched
<1>3. QED BY <1>2 DEF LiveBytes, Taken, RangeOf

\* The bytes the tree calls free are those nobody holds, after any calls of mmap() and
\* munmap(): stale labels below a block that is free or taken as a whole never show.
THEOREM TreeAlwaysTellsTruth == Spec => []TreeTellsTruth
<1>1. IInv => TreeTellsTruth
  <2> SUFFICES ASSUME IInv PROVE TreeTellsTruth
    OBVIOUS
  <2>1. FreeBytes[Depth][root] = Bytes(Depth) \ Taken(live, image)
    BY DEF IInv, Good
  <2>2. QED BY <2>1, TakenIs DEF TreeTellsTruth, Bytes, Total
<1>2. QED BY <1>1, Safe, PTL

\* The label of the root never promises a larger block than there is, so that get_range()
\* never adds mid_point to alloc_null.
THEOREM NeverOverclaimsAlways == Spec => []NeverOverclaims
<1>1. IInv => NeverOverclaims
  <2> SUFFICES ASSUME IInv PROVE NeverOverclaims
    OBVIOUS
  <2>1. root \in Sound[Depth]
    BY DEF IInv, Good
  <2>2. QED BY <2>1, SoundIsHonest, Constants DEF Honest, NeverOverclaims
<1>2. QED BY <1>1, Safe, PTL

\* What the range allocator says of the bytes that are held.
LEMMA MappingsHeld ==
    ASSUME IInv
    PROVE  /\ Mappings!Held = Taken(live, image)
           /\ Taken(live, image) \subseteq 0 .. Total - 1
<1>1. Bytes(Depth) = 0 .. Total - 1
  BY DEF Bytes, Total
<1>2. Mappings!Held = Taken(live, image)
  BY TakenIs DEF Mappings!Held, Mappings!Bytes, Taken, RangeOf
<1>3. ImageOf(image) \subseteq Bytes(Depth)
  BY DEF ImageOf, Touched
<1>4. \A r \in live : RangeOf(r) \in SUBSET Bytes(Depth)
  BY MappingSpan DEF IInv, Good
<1>5. QED BY <1>1, <1>2, <1>3, <1>4 DEF Taken

\* A root that promises no page of the smallest size has none.
LEMMA NothingOffered ==
    ASSUME IInv, NEW size \in Nat, size <= PageSize, ~Offers(Depth, root, size)
    PROVE  Taken(live, image) = 0 .. Total - 1
<1>1. PICK t : t = root
  OBVIOUS
<1>2. /\ t \in Sound[Depth] /\ Depth \in Orders /\ Depth \in 1 .. Depth
      /\ FreeBytes[Depth][t] = Bytes(Depth) \ Taken(live, image)
  BY <1>1, Constants DEF IInv, Good
<1>3. t \in Block[Depth] /\ t.max \in -1 .. Depth
  BY <1>2, SoundParts
<1>4. t.max = -1
  <2>1. SUFFICES ASSUME t.max # -1 PROVE FALSE
    OBVIOUS
  <2>2. t.max \in 0 .. Depth /\ 0 \in 0 .. t.max
    BY <1>3, <2>1
  <2>3. t.max \in Orders
    BY <1>2, <2>2, SizesGrow
  <2>4. TotalSize[0] <= TotalSize[t.max] /\ TotalSize[0] = PageSize /\ TotalSize[t.max] \in Nat
    BY <2>2, <2>3, SizesGrow, TotalSizeIs
  <2>5. size <= TotalSize[t.max]
    BY <2>4, Constants
  <2>6. QED BY <1>1, <2>1, <2>5 DEF Offers
<1>5. Bytes(Depth) \ Taken(live, image) = {}
  BY <1>2, <1>3, <1>4, FreeCases
<1>6. Taken(live, image) \subseteq 0 .. Total - 1 /\ Bytes(Depth) = 0 .. Total - 1
  BY MappingsHeld DEF Bytes, Total
<1>7. QED BY <1>5, <1>6

\* Every step is one of the range allocator, or changes nothing of it.
LEMMA StepImplements ==
    ASSUME IInv, [Next]_vars
    PROVE  [Mappings!Next]_<<live, ImageBytes>>
<1>1. ASSUME NEW addr \in Nat, NEW size \in Sizes, Aligned(addr), Mmap(addr, size)
      PROVE  Mappings!Next
  <2>1. image' = image
    BY <1>1, MmapStep
  <2>2. ImageBytes' = ImageBytes
    BY <2>1 DEF ImageBytes
  <2>3. Mappings!Held = Taken(live, image)
    BY MappingsHeld
  <2>4. ASSUME NEW at \in Nat, IsMapping(<<at, size>>),
               RangeOf(<<at, size>>) \subseteq Bytes(Depth) \ Taken(live, image),
               live' = live \cup {<<at, size>>}
        PROVE  Mappings!Next
    <3>1. PICK r : r = <<at, size>>
      OBVIOUS
    <3>2. r[2] \in Sizes
      BY <3>1
    <3>3. Mappings!Bytes(r) \subseteq (0 .. Total - 1) \ Mappings!Held
      BY <2>3, <2>4, <3>1 DEF Mappings!Bytes, RangeOf, Bytes, Total
    <3>4. Mappings!Map(r)
      BY <2>2, <2>4, <3>1, <3>2, <3>3 DEF Mappings!Map
    <3>5. at \in 0 .. Total - 1
      <4>1. size \in Nat /\ size # 0 /\ at + size <= Total
        BY <2>4, SizesAre DEF IsMapping
      <4>2. QED BY <4>1, AddressSpace
    <3>6. QED BY <3>1, <3>4, <3>5 DEF Mappings!Next
  <2>5. ASSUME live' = live, ~Offers(Depth, root, size) PROVE Mappings!Next
    <3>1. size <= PageSize => Mappings!Held = 0 .. Total - 1
      BY <2>3, <2>5, SizesAre, NothingOffered
    <3>2. Mappings!MapFails(size)
      BY <2>2, <2>5, <3>1 DEF Mappings!MapFails
    <3>3. QED BY <3>2 DEF Mappings!Next
  <2>6. QED BY <1>1, <2>4, <2>5, MmapStep
<1>2. ASSUME NEW r \in live, NEW size \in 1 .. r[2], Aligned(size), Munmap(r, size)
      PROVE  Mappings!Next
  <2>1. /\ live' = (live \ {r}) \cup
                       (IF size < r[2] THEN {<<r[1] + size, r[2] - size>>} ELSE {})
        /\ image' = image
    BY <1>2 DEF Munmap
  <2>2. ImageBytes' = ImageBytes
    BY <2>1 DEF ImageBytes
  <2>3. Mappings!Unmap(r, size)
    BY <2>1, <2>2 DEF Mappings!Unmap
  <2>4. QED BY <2>3 DEF Mappings!Next
<1>3. ASSUME UNCHANGED vars PROVE UNCHANGED <<live, ImageBytes>>
  BY <1>3 DEF vars, ImageBytes
<1>4. QED BY <1>1, <1>2, <1>3, Steps

\* The allocator implements a range allocator: mmap() gives whole pages of the space that
\* nobody holds and fails for a page only when there is none, and munmap() of the first
\* bytes of a mapping frees these and nothing else.
THEOREM BuddyIsRangeAllocator == Spec => Implements
<1>1. Init => Mappings!Init
  <2>1. ImageBytes \subseteq 0 .. Total - 1
    BY DEF ImageBytes
  <2>2. QED BY <2>1 DEF Init, Mappings!Init
<1>2. IInv /\ [Next]_vars => [Mappings!Next]_<<live, ImageBytes>>
  BY StepImplements
<1>3. QED BY <1>1, <1>2, Safe, PTL DEF Spec, Implements, Mappings!Spec

================================================================================
