------------------------------ MODULE PhTreeProofs ------------------------------
(***************************************************************************)
(* Proofs about the physical page allocator (module PhTree), for trees of  *)
(* every depth, fan-out and bitmap size.                                   *)
(***************************************************************************)
EXTENDS PhTree, WellFoundedInduction, TLAPS

--------------------------------------------------------------------------------
(* Paths in the tree *)

\* A node is a sequence of child indices; a bitmap is one of length Depth and
\* an inner node a shorter one.
LEMMA NodeShape ==
    ASSUME NEW n \in Node
    PROVE  /\ Len(n) \in 0 .. Depth
           /\ DOMAIN n = 1 .. Len(n)
           /\ n \in Level(Len(n))
           /\ \A i \in 1 .. Len(n) : n[i] \in Child
           /\ n \in Leaf <=> Len(n) = Depth
           /\ n \in Inner <=> Len(n) < Depth
<1>1. PICK k \in 0 .. Depth : n \in [1 .. k -> Child]
  BY DEF Node, Level
<1>2. Len(n) = k /\ DOMAIN n = 1 .. k
  BY <1>1, DepthAssumption
<1>3. \A l \in 0 .. Depth : n \in [1 .. l -> Child] => l = k
  <2>1. SUFFICES ASSUME NEW l \in 0 .. Depth, n \in [1 .. l -> Child]
                 PROVE  l = k
    OBVIOUS
  <2>2. DOMAIN n = 1 .. l
    BY <2>1
  <2>3. Len(n) = l
    BY <2>1, DepthAssumption
  <2>4. QED BY <2>3, <1>2
<1>4. n \in Leaf <=> k = Depth
  BY <1>1, <1>3, DepthAssumption DEF Leaf, Level
<1>5. n \in Inner <=> k < Depth
  BY <1>1, <1>3, DepthAssumption DEF Inner, Level
<1>6. QED BY <1>1, <1>2, <1>4, <1>5 DEF Level

\* Bitmaps and inner nodes are the nodes, and no node is both.
LEMMA NodeKinds == /\ Node = Leaf \cup Inner
                   /\ Leaf \cap Inner = {}
<1>1. Leaf \subseteq Node /\ Inner \subseteq Node
  BY DepthAssumption DEF Leaf, Inner, Node
<1>2. QED BY <1>1, NodeShape, DepthAssumption

\* The root is a node, and an inner one, as there is at least one level.
LEMMA RootShape == /\ Root \in Inner
                   /\ Root \in Node
                   /\ Len(Root) = 0
<1>1. Root \in [1 .. 0 -> Child]
  BY DEF Root
<1>2. Root \in Level(0) /\ 0 \in 0 .. Depth - 1
  BY <1>1, DepthAssumption DEF Level
<1>3. Root \in Inner
  BY <1>2 DEF Inner
<1>4. QED BY <1>3, NodeKinds DEF Root

\* A child is one level further down and below its parent.
LEMMA KidShape ==
    ASSUME NEW n \in Inner, NEW c \in Child
    PROVE  /\ Kid(n, c) \in Node
           /\ Len(Kid(n, c)) = Len(n) + 1
           /\ Kid(n, c)[Len(n) + 1] = c
           /\ \A i \in 1 .. Len(n) : Kid(n, c)[i] = n[i]
           /\ Below(Kid(n, c), n)
<1>1. n \in Node /\ Len(n) < Depth /\ Len(n) \in Nat /\ n \in [1 .. Len(n) -> Child]
  BY NodeKinds, NodeShape, DepthAssumption DEF Level
<1>2. n \in Seq(Child)
  BY <1>1
<1>3. Kid(n, c) \in Seq(Child) /\ Len(Kid(n, c)) = Len(n) + 1
      /\ Kid(n, c)[Len(n) + 1] = c
      /\ \A i \in 1 .. Len(n) : Kid(n, c)[i] = n[i]
  BY <1>2 DEF Kid
<1>4. Kid(n, c) \in [1 .. Len(n) + 1 -> Child]
  BY <1>3
<1>5. Kid(n, c) \in Node
  <2>1. Len(n) + 1 \in 0 .. Depth
    BY <1>1, DepthAssumption
  <2>2. Kid(n, c) \in Level(Len(n) + 1)
    BY <1>4 DEF Level
  <2>3. QED BY <2>1, <2>2 DEF Node
<1>6. QED BY <1>1, <1>3, <1>5 DEF Below

\* Two nodes with the same digits are the same node.
LEMMA SamePath ==
    ASSUME NEW m \in Node, NEW n \in Node, Len(m) = Len(n),
           \A i \in 1 .. Len(n) : m[i] = n[i]
    PROVE  m = n
<1>1. m \in [1 .. Len(n) -> Child] /\ n \in [1 .. Len(n) -> Child]
  BY NodeShape DEF Level
<1>2. QED BY <1>1

\* "Below" orders the nodes, and the nodes above a given one form a chain.
LEMMA BelowOrder ==
    ASSUME NEW m \in Node, NEW n \in Node
    PROVE  /\ Below(n, n)
           /\ Below(m, n) /\ Len(m) = Len(n) => m = n
           /\ Below(m, n) /\ Below(n, m) => m = n
           /\ \A q \in Node : Below(m, n) /\ Below(n, q) => Below(m, q)
           /\ \A q \in Node : Below(m, n) /\ Below(m, q) /\ Len(q) >= Len(n) => Below(q, n)
<1>1. Len(m) \in Nat /\ Len(n) \in Nat /\ \A q \in Node : Len(q) \in Nat
  BY NodeShape, DepthAssumption
<1>2. QED BY <1>1, SamePath DEF Below

\* What lies strictly below an inner node lies below one of its children, and
\* whatever lies below that child lies below the node.
LEMMA BelowKid ==
    ASSUME NEW n \in Inner
    PROVE  /\ \A m \in Node : Below(m, n) /\ m # n =>
                  m[Len(n) + 1] \in Child /\ Below(m, Kid(n, m[Len(n) + 1]))
           /\ \A m \in Node, c \in Child : Below(m, Kid(n, c)) => Below(m, n) /\ m # n
<1>1. n \in Node /\ Len(n) \in Nat /\ Len(n) < Depth
  BY NodeKinds, NodeShape, DepthAssumption
<1>2. ASSUME NEW m \in Node, Below(m, n), m # n
      PROVE  m[Len(n) + 1] \in Child /\ Below(m, Kid(n, m[Len(n) + 1]))
  <2>1. Len(m) > Len(n) /\ Len(m) \in Nat
    BY <1>1, <1>2, SamePath, NodeShape, DepthAssumption DEF Below
  <2>2. m[Len(n) + 1] \in Child
    BY <1>1, <2>1, NodeShape
  <2>3. QED BY <1>1, <1>2, <2>1, <2>2, KidShape DEF Below
<1>3. ASSUME NEW m \in Node, NEW c \in Child, Below(m, Kid(n, c))
      PROVE  Below(m, n) /\ m # n
  <2>1. Len(m) \in Nat
    BY NodeShape, DepthAssumption
  <2>2. QED BY <1>1, <1>3, <2>1, KidShape DEF Below
<1>4. QED BY <1>2, <1>3

--------------------------------------------------------------------------------
(* What the caches answer after a refresh *)

\* A bitmap answers for itself.
LEMMA FullAfterLeaf ==
    ASSUME NEW n \in Leaf, NEW bits, NEW V
    PROVE  FullAfter(n, bits, V) <=> BitmapFull(n, bits)
<1>1. n \in Node /\ Len(n) = Depth /\ Depth \in Nat
  BY NodeKinds, NodeShape, DepthAssumption
<1>2. \A m \in Node : Below(m, n) => m = n
  BY <1>1, NodeShape, BelowOrder DEF Below
<1>3. \A q \in Inner : Below(q, n) /\ Below(n, q) => q = n
  BY <1>1, NodeKinds, BelowOrder
<1>4. Below(n, n)
  BY <1>1, BelowOrder
<1>5. QED BY <1>1, <1>2, <1>3, <1>4 DEF FullAfter

\* A node that was not entered answers with its cache as it stands.
LEMMA FullAfterUnvisited ==
    ASSUME NEW n \in Inner, NEW bits, NEW V, n \notin V
    PROVE  FullAfter(n, bits, V) <=> ~free_cache[n]
<1>1. n \in Node /\ n \notin Leaf /\ Below(n, n)
  BY NodeKinds, BelowOrder
<1>2. \A q \in Inner : Below(q, n) /\ Below(n, q) => q = n
  BY <1>1, NodeKinds, BelowOrder
<1>3. \A m \in Node : Below(m, n) /\ m # n =>
          ~ \A q \in Inner : Below(q, n) /\ Below(m, q) /\ q # m => q \in V
  BY <1>1
<1>4. QED BY <1>1, <1>2, <1>3 DEF FullAfter

\* A node that was entered is full exactly when every child answers "full".
LEMMA FullAfterVisited ==
    ASSUME NEW n \in Inner, NEW bits, NEW V, n \in V
    PROVE  FullAfter(n, bits, V) <=> \A c \in Child : FullAfter(Kid(n, c), bits, V)
<1> DEFINE Clear(m, top) == \A q \in Inner : Below(q, top) /\ Below(m, q) /\ q # m => q \in V
           Read(m) == IF m \in Leaf THEN BitmapFull(m, bits) ELSE ~free_cache[m]
           Stop(m) == m \in Leaf \/ m \notin V
<1>1. n \in Node /\ n \notin Leaf /\ Inner \subseteq Node
  BY NodeKinds
<1>2. \A top : FullAfter(top, bits, V) <=>
          \A m \in Node : Below(m, top) /\ Clear(m, top) /\ Stop(m) => Read(m)
  BY DEF FullAfter
<1>3. ASSUME NEW m \in Node, NEW c \in Child, Below(m, Kid(n, c))
      PROVE  Clear(m, n) <=> Clear(m, Kid(n, c))
  <2>1. Kid(n, c) \in Node /\ Below(Kid(n, c), n) /\ Len(Kid(n, c)) = Len(n) + 1
    BY KidShape
  <2>2. ASSUME NEW q \in Inner, Below(q, n), Below(m, q), q # n
        PROVE  Below(q, Kid(n, c))
    <3>1. Len(q) \in Nat /\ Len(n) \in Nat /\ q \in Node
      BY <1>1, NodeShape, DepthAssumption
    <3>2. Len(q) > Len(n)
      BY <1>1, <2>2, <3>1, BelowOrder DEF Below
    <3>3. Len(q) >= Len(Kid(n, c))
      BY <2>1, <3>1, <3>2
    <3>4. QED BY <1>3, <2>1, <2>2, <3>1, <3>3, BelowOrder
  <2>3. \A q \in Inner : Below(q, Kid(n, c)) => Below(q, n)
    BY <1>1, BelowKid
  <2>4. QED BY <2>2, <2>3
<1>4. ASSUME FullAfter(n, bits, V), NEW c \in Child
      PROVE  FullAfter(Kid(n, c), bits, V)
  <2>1. SUFFICES ASSUME NEW m \in Node, Below(m, Kid(n, c)), Clear(m, Kid(n, c)), Stop(m)
                 PROVE  Read(m)
    BY <1>2
  <2>2. Below(m, n)
    BY <2>1, BelowKid
  <2>3. Clear(m, n)
    BY <1>3, <2>1
  <2> HIDE DEF Clear, Read, Stop
  <2>4. QED BY <1>2, <1>4, <2>1, <2>2, <2>3
<1>5. ASSUME \A c \in Child : FullAfter(Kid(n, c), bits, V)
      PROVE  FullAfter(n, bits, V)
  <2>1. SUFFICES ASSUME NEW m \in Node, Below(m, n), Clear(m, n), Stop(m)
                 PROVE  Read(m)
    BY <1>2
  <2>2. m # n
    BY <1>1, <2>1
  <2>3. PICK c \in Child : Below(m, Kid(n, c))
    BY <2>1, <2>2, BelowKid
  <2>4. Clear(m, Kid(n, c))
    BY <1>3, <2>1, <2>3
  <2> HIDE DEF Clear, Read, Stop
  <2>5. QED BY <1>2, <1>5, <2>1, <2>3, <2>4
<1>6. QED BY <1>4, <1>5

--------------------------------------------------------------------------------
(* Type correctness *)

\* A refresh leaves a cache per inner node.
LEMMA RefreshType ==
    ASSUME NEW V, free_cache \in [Inner -> BOOLEAN], Refresh(V)
    PROVE  free_cache' \in [Inner -> BOOLEAN]
<1>1. \A n, bits : (~FullAfter(n, bits, V)) \in BOOLEAN
  OBVIOUS
<1> DEFINE f == [n \in Inner |-> IF n \in V THEN ~FullAfter(n, used', V) ELSE free_cache[n]]
<1>2. free_cache' = f
  BY DEF Refresh
<1>3. \A n \in Inner : f[n] \in BOOLEAN
  BY <1>1
<1>4. QED BY <1>2, <1>3

\* TypeOK is inductive.
LEMMA TypeStep == TypeOK /\ [Next]_vars => TypeOK'
<1> SUFFICES ASSUME TypeOK, [Next]_vars
             PROVE  TypeOK'
  OBVIOUS
<1> USE DEF TypeOK
<1>1. ASSUME NEW first \in Page, NEW last \in Page, MarkUsed(first, last)
      PROVE  TypeOK'
  BY <1>1, RefreshType DEF MarkUsed, Range
<1>2. CASE FinishSetup
  BY <1>2 DEF FinishSetup
<1>3. ASSUME NEW leaf \in Leaf, NEW j \in Bit, GetPage(leaf, j)
      PROVE  TypeOK'
  BY <1>3, RefreshType DEF GetPage, Page
<1>4. CASE GetNull
  BY <1>4 DEF GetNull
<1>5. ASSUME NEW p \in Page, ReleasePage(p)
      PROVE  TypeOK'
  <2>1. \A n \in Inner : (Below(p[1], n) \/ free_cache[n]) \in BOOLEAN
    OBVIOUS
  <2>2. free_cache' \in [Inner -> BOOLEAN]
    BY <1>5, <2>1 DEF ReleasePage
  <2>3. QED BY <1>5, <2>2 DEF ReleasePage
<1>6. CASE UNCHANGED vars
  BY <1>6 DEF vars
<1>7. QED
  BY <1>1, <1>2, <1>3, <1>4, <1>5, <1>6 DEF Next, ReleaseOutside

\* Before anything is marked, all variables have their types.
LEMMA TypeInit == Init => TypeOK
  BY DEF Init, TypeOK

\* The variables keep the types of phmem_allocator.hh.
THEOREM TypeCorrect == Spec => []TypeOK
<1>1. QED BY TypeInit, TypeStep, PTL DEF Spec

--------------------------------------------------------------------------------
(* No cache is ever stale *)

\* Refreshing the nodes of a set V that contains every ancestor of its members
\* makes all caches right again, if the bitmaps outside V did not change.
LEMMA RefreshSound ==
    ASSUME TypeOK, CachesTrue,
           NEW V, Refresh(V),
           \A m \in V \cap Node, n \in Inner : Below(m, n) => n \in V,
           \A m \in Leaf : m \notin V => (BitmapFull(m, used') <=> BitmapFull(m, used))
    PROVE  CachesTrue'
<1>1. ASSUME NEW m \in Node
      PROVE  IsFull(m)' <=> FullAfter(m, used', V)
  <2>1. CASE m \in Leaf
    BY <2>1, FullAfterLeaf DEF IsFull
  <2>2. CASE m \in Inner
    <3>1. m \notin Leaf
      BY <2>2, NodeKinds
    <3>2. IsFull(m)' <=> ~free_cache'[m]
      BY <3>1 DEF IsFull
    <3>3. CASE m \in V
      <4>1. free_cache'[m] = ~FullAfter(m, used', V)
        BY <2>2, <3>3 DEF Refresh
      <4>2. QED BY <3>2, <4>1
    <3>4. CASE m \notin V
      <4>1. free_cache'[m] = free_cache[m]
        BY <2>2, <3>4 DEF Refresh
      <4>2. QED BY <3>2, <3>4, <4>1, <2>2, FullAfterUnvisited
    <3>5. QED BY <3>3, <3>4
  <2>3. QED BY <2>1, <2>2, NodeKinds
<1>2. SUFFICES ASSUME NEW n \in Inner
               PROVE  free_cache'[n] <=> \E c \in Child : ~IsFull(Kid(n, c))'
  BY DEF CachesTrue
<1>3. \A c \in Child : Kid(n, c) \in Node /\ Below(Kid(n, c), n)
  BY KidShape
<1>4. CASE n \in V
  <2>1. free_cache'[n] = ~FullAfter(n, used', V)
    BY <1>4 DEF Refresh
  <2>2. FullAfter(n, used', V) <=> \A c \in Child : FullAfter(Kid(n, c), used', V)
    BY <1>4, FullAfterVisited
  <2>3. \A c \in Child : IsFull(Kid(n, c))' <=> FullAfter(Kid(n, c), used', V)
    BY <1>1, <1>3
  <2>4. QED BY <2>1, <2>2, <2>3
<1>5. CASE n \notin V
  <2>1. free_cache'[n] = free_cache[n]
    BY <1>5 DEF Refresh
  <2>2. ASSUME NEW c \in Child
        PROVE  IsFull(Kid(n, c))' <=> IsFull(Kid(n, c))
    <3>1. Kid(n, c) \notin V
      BY <1>3, <1>5
    <3>2. CASE Kid(n, c) \in Leaf
      BY <3>1, <3>2 DEF IsFull
    <3>3. CASE Kid(n, c) \in Inner
      <4>1. Kid(n, c) \notin Leaf
        BY <3>3, NodeKinds
      <4>2. free_cache'[Kid(n, c)] = free_cache[Kid(n, c)]
        BY <3>1, <3>3 DEF Refresh
      <4>3. QED BY <4>1, <4>2 DEF IsFull
    <3>4. QED BY <1>3, <3>2, <3>3, NodeKinds
  <2>3. free_cache[n] <=> \E c \in Child : ~IsFull(Kid(n, c))
    BY DEF CachesTrue
  <2>4. QED BY <2>1, <2>2, <2>3
<1>6. QED BY <1>4, <1>5

\* mark_used(): the nodes entered are those with a page of the range below.
LEMMA MarkUsedKeepsCaches ==
    ASSUME TypeOK, CachesTrue, NEW first \in Page, NEW last \in Page, MarkUsed(first, last)
    PROVE  CachesTrue'
<1> DEFINE V == {n \in Node : \E p \in Range(first, last) : Below(p[1], n)}
<1>1. Refresh(V)
  BY DEF MarkUsed
<1>2. \A p \in Range(first, last) : p[1] \in Leaf /\ p[1] \in Node
  BY NodeKinds DEF Range, Page
<1>3. ASSUME NEW m \in V \cap Node, NEW n \in Inner, Below(m, n)
      PROVE  n \in V
  BY <1>2, <1>3, NodeKinds, BelowOrder
<1>4. ASSUME NEW m \in Leaf, m \notin V
      PROVE  BitmapFull(m, used') <=> BitmapFull(m, used)
  <2>1. m \in Node /\ Below(m, m)
    BY NodeKinds, BelowOrder
  <2>2. \A j \in Bit : <<m, j>> \notin Range(first, last)
    BY <1>4, <2>1
  <2>3. used' = used \cup Range(first, last)
    BY DEF MarkUsed
  <2>4. QED BY <2>2, <2>3 DEF BitmapFull
<1> HIDE DEF V
<1>5. QED BY <1>1, <1>3, <1>4, RefreshSound

\* The path to a bitmap consists of the nodes above it.
LEMMA PathIsAncestors ==
    ASSUME NEW leaf \in Leaf
    PROVE  /\ PathTo(leaf) \subseteq Node
           /\ \A n \in Node : n \in PathTo(leaf) <=> Below(leaf, n)
           /\ \A k \in 0 .. Depth : /\ Prefix(leaf, k) \in Node
                                    /\ Len(Prefix(leaf, k)) = k
                                    /\ Below(leaf, Prefix(leaf, k))
<1>1. leaf \in Node /\ Len(leaf) = Depth /\ Depth \in Nat
  BY NodeKinds, NodeShape, DepthAssumption
<1>2. ASSUME NEW k \in 0 .. Depth
      PROVE  /\ Prefix(leaf, k) \in Node
             /\ Len(Prefix(leaf, k)) = k
             /\ Below(leaf, Prefix(leaf, k))
  <2>1. Prefix(leaf, k) \in [1 .. k -> Child]
    BY <1>1, NodeShape DEF Prefix
  <2>2. Prefix(leaf, k) \in Node
    BY <2>1 DEF Node, Level
  <2>3. Len(Prefix(leaf, k)) = k
    BY <2>1, <1>1
  <2>4. \A i \in 1 .. k : Prefix(leaf, k)[i] = leaf[i]
    BY DEF Prefix
  <2>5. QED BY <1>1, <2>2, <2>3, <2>4 DEF Below
<1>3. ASSUME NEW n \in Node, Below(leaf, n)
      PROVE  n \in PathTo(leaf)
  <2>1. Len(n) \in 0 .. Depth
    BY NodeShape
  <2>2. \A i \in 1 .. Len(n) : Prefix(leaf, Len(n))[i] = n[i]
    BY <1>3 DEF Prefix, Below
  <2>3. n = Prefix(leaf, Len(n))
    BY <1>2, <2>1, <2>2, SamePath
  <2>4. QED BY <2>1, <2>3 DEF PathTo
<1>4. QED BY <1>2, <1>3 DEF PathTo

\* get_page(): the nodes refreshed are those above the page.
LEMMA GetPageKeepsCaches ==
    ASSUME TypeOK, CachesTrue, NEW leaf \in Leaf, NEW j \in Bit, GetPage(leaf, j)
    PROVE  CachesTrue'
<1>1. Refresh(PathTo(leaf)) /\ used' = used \cup {<<leaf, j>>}
  BY DEF GetPage
<1>2. leaf \in Node /\ Below(leaf, leaf)
  BY NodeKinds, BelowOrder
<1>3. ASSUME NEW m \in PathTo(leaf) \cap Node, NEW n \in Inner, Below(m, n)
      PROVE  n \in PathTo(leaf)
  BY <1>2, <1>3, PathIsAncestors, NodeKinds, BelowOrder
<1>4. ASSUME NEW m \in Leaf, m \notin PathTo(leaf)
      PROVE  BitmapFull(m, used') <=> BitmapFull(m, used)
  <2>1. m # leaf
    BY <1>2, <1>4, PathIsAncestors
  <2>2. QED BY <1>1, <2>1 DEF BitmapFull
<1>5. QED BY <1>1, <1>3, <1>4, RefreshSound

\* release_page(): the nodes above the page become "not full", which is the
\* truth; no other node changes.
LEMMA ReleaseKeepsCaches ==
    ASSUME TypeOK, CachesTrue, NEW p \in Page, ReleasePage(p)
    PROVE  CachesTrue'
<1>1. p[1] \in Leaf /\ p[1] \in Node /\ p[2] \in Bit /\ p = <<p[1], p[2]>>
  BY NodeKinds DEF Page
<1>2. /\ used' = used \ {p}
      /\ \A n \in Inner : free_cache'[n] <=> Below(p[1], n) \/ free_cache[n]
  BY DEF ReleasePage, TypeOK
<1>3. SUFFICES ASSUME NEW n \in Inner
               PROVE  free_cache'[n] <=> \E c \in Child : ~IsFull(Kid(n, c))'
  BY DEF CachesTrue
<1>4. n \in Node /\ \A c \in Child : Kid(n, c) \in Node
  BY KidShape, NodeKinds
<1>5. CASE Below(p[1], n)
  <2>1. p[1] # n
    BY <1>1, NodeKinds
  <2>2. PICK c \in Child : Below(p[1], Kid(n, c))
    BY <1>1, <1>5, <2>1, BelowKid
  <2>3. CASE Kid(n, c) \in Leaf
    <3>1. Kid(n, c) = p[1]
      BY <1>1, <1>4, <2>2, <2>3, NodeShape, BelowOrder
    <3>2. ~BitmapFull(Kid(n, c), used')
      BY <1>1, <1>2, <3>1 DEF BitmapFull
    <3>3. QED BY <1>2, <1>5, <2>3, <3>2 DEF IsFull
  <2>4. CASE Kid(n, c) \in Inner
    <3>1. free_cache'[Kid(n, c)]
      BY <1>2, <2>2, <2>4
    <3>2. Kid(n, c) \notin Leaf
      BY <2>4, NodeKinds
    <3>3. QED BY <1>2, <1>5, <3>1, <3>2 DEF IsFull
  <2>5. QED BY <1>4, <2>3, <2>4, NodeKinds
<1>6. CASE ~Below(p[1], n)
  <2>1. free_cache'[n] <=> free_cache[n]
    BY <1>2, <1>6
  <2>2. ASSUME NEW c \in Child
        PROVE  IsFull(Kid(n, c))' <=> IsFull(Kid(n, c))
    <3>1. ~Below(p[1], Kid(n, c))
      BY <1>1, <1>6, BelowKid
    <3>2. CASE Kid(n, c) \in Leaf
      <4>1. Kid(n, c) # p[1]
        BY <1>1, <3>1, BelowOrder
      <4>2. BitmapFull(Kid(n, c), used') <=> BitmapFull(Kid(n, c), used)
        BY <1>1, <1>2, <4>1 DEF BitmapFull
      <4>3. QED BY <3>2, <4>2 DEF IsFull
    <3>3. CASE Kid(n, c) \in Inner
      <4>1. Kid(n, c) \notin Leaf
        BY <3>3, NodeKinds
      <4>2. free_cache'[Kid(n, c)] <=> free_cache[Kid(n, c)]
        BY <1>2, <3>1, <3>3
      <4>3. QED BY <4>1, <4>2 DEF IsFull
    <3>4. QED BY <1>4, <3>2, <3>3, NodeKinds
  <2>3. free_cache[n] <=> \E c \in Child : ~IsFull(Kid(n, c))
    BY DEF CachesTrue
  <2>4. QED BY <2>1, <2>2, <2>3
<1>7. QED BY <1>5, <1>6

\* At the start every bitmap is clear and every cache says so.
LEMMA CachesInit == Init => CachesTrue
<1> SUFFICES ASSUME Init, NEW n \in Inner
             PROVE  free_cache[n] <=> \E c \in Child : ~IsFull(Kid(n, c))
  BY DEF CachesTrue
<1>1. 0 \in Child /\ 0 \in Bit
  BY FanoutAssumption, LeafAssumption DEF Child, Bit
<1>2. Kid(n, 0) \in Node
  BY <1>1, KidShape
<1>3. ~IsFull(Kid(n, 0))
  BY <1>1, <1>2, NodeKinds DEF Init, IsFull, BitmapFull
<1>4. QED BY <1>1, <1>3 DEF Init

\* Every operation of the allocator leaves all caches right.
LEMMA CachesStep == TypeOK /\ CachesTrue /\ [Next]_vars => CachesTrue'
<1> SUFFICES ASSUME TypeOK, CachesTrue, [Next]_vars
             PROVE  CachesTrue'
  OBVIOUS
<1>1. ASSUME NEW first \in Page, NEW last \in Page, MarkUsed(first, last)
      PROVE  CachesTrue'
  BY <1>1, MarkUsedKeepsCaches
<1>2. ASSUME NEW leaf \in Leaf, NEW j \in Bit, GetPage(leaf, j)
      PROVE  CachesTrue'
  BY <1>2, GetPageKeepsCaches
<1>3. ASSUME NEW p \in Page, ReleasePage(p)
      PROVE  CachesTrue'
  BY <1>3, ReleaseKeepsCaches
<1>4. CASE UNCHANGED <<used, free_cache>>
  BY <1>4 DEF CachesTrue, IsFull
<1>5. QED
  BY <1>1, <1>2, <1>3, <1>4 DEF Next, FinishSetup, GetNull, ReleaseOutside, vars

\* In every reachable state each cached bit says whether a child is not full.
THEOREM CachesCorrect == Spec => []CachesTrue
<1>1. Init => TypeOK /\ CachesTrue
  BY TypeInit, CachesInit
<1>2. TypeOK /\ CachesTrue /\ [Next]_vars => (TypeOK /\ CachesTrue)'
  BY TypeStep, CachesStep
<1>3. QED BY <1>1, <1>2, PTL DEF Spec

--------------------------------------------------------------------------------
(* What the cached bits say about the bitmaps *)

\* A set of natural numbers that is not empty has a least element.
LEMMA LeastNumber ==
    ASSUME NEW T \in SUBSET Nat, T # {}
    PROVE  \E x \in T : \A y \in T : x <= y
<1>1. \E x \in T : \A y \in T : ~(<<y, x>> \in OpToRel(<, Nat))
  BY NatLessThanWellFounded, WFMin
<1>2. \A x, y \in T : <<y, x>> \in OpToRel(<, Nat) <=> y < x
  BY DEF OpToRel
<1>3. \E x \in T : \A y \in T : ~(y < x)
  BY <1>1, <1>2, Zenon
<1>4. QED BY ONLY <1>3, T \subseteq Nat

\* isfull() of any node, one bit, says that every bitmap below it is full.
LEMMA FullMeansFull ==
    ASSUME TypeOK, CachesTrue, NEW top \in Node
    PROVE  IsFull(top) <=> \A leaf \in Leaf : Below(leaf, top) => BitmapFull(leaf, used)
<1> DEFINE Says(n) == IsFull(n) <=> \A leaf \in Leaf : Below(leaf, n) => BitmapFull(leaf, used)
           Wrong == {d \in 0 .. Depth : \E n \in Node : Len(n) = Depth - d /\ ~Says(n)}
<1>1. SUFFICES ASSUME ~Says(top)
               PROVE  FALSE
  OBVIOUS
<1>2. Wrong # {}
  <2>1. Len(top) \in 0 .. Depth /\ Depth - Len(top) \in 0 .. Depth
        /\ Len(top) = Depth - (Depth - Len(top))
    BY NodeShape, DepthAssumption
  <2> HIDE DEF Says
  <2>2. QED BY <1>1, <2>1
<1>3. PICK d \in Wrong : \A e \in Wrong : d <= e
  <2>1. Wrong \in SUBSET Nat
    BY DepthAssumption
  <2> HIDE DEF Wrong
  <2>2. QED BY <1>2, <2>1, LeastNumber
<1>4. PICK n \in Node : Len(n) = Depth - d /\ ~Says(n)
  BY <1>3
<1>5. d \in 0 .. Depth
  BY <1>3
<1>6. CASE d = 0
  <2>1. n \in Leaf
    BY <1>4, <1>6, NodeShape, DepthAssumption
  <2>2. \A leaf \in Leaf : Below(leaf, n) <=> leaf = n
    BY <2>1, NodeKinds, NodeShape, BelowOrder
  <2>3. IsFull(n) <=> BitmapFull(n, used)
    BY <2>1 DEF IsFull
  <2>4. QED BY <1>4, <2>1, <2>2, <2>3
<1>7. CASE d > 0
  <2>1. n \in Inner /\ n \notin Leaf
    BY <1>4, <1>5, <1>7, NodeShape, DepthAssumption
  <2>2. ASSUME NEW c \in Child
        PROVE  Says(Kid(n, c))
    <3>1. Kid(n, c) \in Node /\ Len(Kid(n, c)) = Depth - (d - 1)
      BY <1>4, <1>5, <2>1, KidShape, DepthAssumption
    <3>2. d - 1 \in 0 .. Depth /\ ~(d <= d - 1)
      BY <1>5, <1>7, DepthAssumption
    <3>3. d - 1 \notin Wrong
      BY <1>3, <3>2
    <3> HIDE DEF Says
    <3>4. QED BY <3>1, <3>2, <3>3
  <2>3. IsFull(n) <=> \A c \in Child : IsFull(Kid(n, c))
    BY <2>1 DEF IsFull, CachesTrue
  <2>4. \A leaf \in Leaf : Below(leaf, n) <=> \E c \in Child : Below(leaf, Kid(n, c))
    <3>1. \A leaf \in Leaf : leaf \in Node /\ leaf # n
      BY <2>1, NodeKinds
    <3>2. QED BY <2>1, <3>1, BelowKid
  <2>5. Says(n)
    BY <2>2, <2>3, <2>4
  <2>6. QED BY <1>4, <2>5
<1>8. QED BY <1>5, <1>6, <1>7

\* The one bit at the root answers for the whole memory.
LEMMA RootStep == TypeOK /\ CachesTrue => RootTellsTruth
<1> SUFFICES ASSUME TypeOK, CachesTrue
             PROVE  RootTellsTruth
  OBVIOUS
<1>1. IsFull(Root) <=> ~free_cache[Root]
  BY RootShape, NodeKinds DEF IsFull
<1>2. \A leaf \in Leaf : Below(leaf, Root)
  BY RootShape, NodeKinds, NodeShape, DepthAssumption DEF Below
<1>3. IsFull(Root) <=> \A leaf \in Leaf : BitmapFull(leaf, used)
  BY <1>2, RootShape, FullMeansFull
<1>4. (\A leaf \in Leaf : BitmapFull(leaf, used)) <=> Page \subseteq used
  BY DEF BitmapFull, Page
<1>5. used \subseteq Page
  BY DEF TypeOK
<1>6. QED BY <1>1, <1>3, <1>4, <1>5 DEF RootTellsTruth

\* get_page() answers phalloc_null if and only if no page is free.
THEOREM RootCorrect == Spec => []RootTellsTruth
<1>1. Init => TypeOK /\ CachesTrue
  BY TypeInit, CachesInit
<1>2. TypeOK /\ CachesTrue /\ [Next]_vars => (TypeOK /\ CachesTrue)'
  BY TypeStep, CachesStep
<1>3. QED BY <1>1, <1>2, RootStep, PTL DEF Spec

--------------------------------------------------------------------------------
(* The descent of get_page() *)

\* The ancestor of n at level k.
LEMMA PrefixShape ==
    ASSUME NEW n \in Node, NEW k \in 0 .. Len(n)
    PROVE  /\ Prefix(n, k) \in Node
           /\ Len(Prefix(n, k)) = k
           /\ \A i \in 1 .. k : Prefix(n, k)[i] = n[i]
           /\ Below(n, Prefix(n, k))
<1>1. Len(n) \in 0 .. Depth /\ k \in 0 .. Depth /\ k <= Len(n)
  BY NodeShape, DepthAssumption
<1>2. Prefix(n, k) \in [1 .. k -> Child]
  BY <1>1, NodeShape DEF Prefix
<1>3. Prefix(n, k) \in Node
  BY <1>1, <1>2 DEF Node, Level
<1>4. Len(Prefix(n, k)) = k
  BY <1>2
<1>5. \A i \in 1 .. k : Prefix(n, k)[i] = n[i]
  BY DEF Prefix
<1>6. QED BY <1>1, <1>3, <1>4, <1>5 DEF Below

\* The ancestors of a child are the child and the ancestors of its parent.
LEMMA PrefixKid ==
    ASSUME NEW n \in Inner, NEW c \in Child
    PROVE  /\ Prefix(Kid(n, c), Len(n) + 1) = Kid(n, c)
           /\ \A k \in 0 .. Len(n) : Prefix(Kid(n, c), k) = Prefix(n, k)
           /\ Prefix(n, Len(n)) = n
<1>1. n \in Node /\ Len(n) \in Nat
  BY NodeKinds, NodeShape, DepthAssumption
<1>2. Kid(n, c) \in Node /\ Len(Kid(n, c)) = Len(n) + 1
      /\ \A i \in 1 .. Len(n) : Kid(n, c)[i] = n[i]
  BY KidShape
<1>3. Prefix(Kid(n, c), Len(n) + 1) = Kid(n, c)
  BY <1>1, <1>2, PrefixShape, SamePath
<1>4. ASSUME NEW k \in 0 .. Len(n)
      PROVE  Prefix(Kid(n, c), k) = Prefix(n, k)
  BY <1>1, <1>2 DEF Prefix
<1>5. Prefix(n, Len(n)) = n
  BY <1>1, PrefixShape, SamePath
<1>6. QED BY <1>3, <1>4, <1>5

\* The loops of get_page() find a way down to a bitmap with a clear bit.
LEMMA DescentStep == TypeOK /\ CachesTrue => DescentSucceeds
<1> SUFFICES ASSUME TypeOK, CachesTrue, free_cache[Root]
             PROVE  \E leaf \in Leaf : FirstFit(leaf) /\ ~BitmapFull(leaf, used)
  BY DEF DescentSucceeds
<1> DEFINE Chosen(n, k) == /\ ~IsFull(Prefix(n, k))
                           /\ \A c \in Child : c < n[k] => IsFull(Kid(Prefix(n, k - 1), c))
           OnWay(n) == ~IsFull(n) /\ \A k \in 1 .. Len(n) : Chosen(n, k)
           Reached == {d \in 0 .. Depth : \E n \in Node : Len(n) = Depth - d /\ OnWay(n)}
<1>1. Depth \in Reached
  <2>1. Root \in Node /\ Len(Root) = Depth - Depth /\ Depth \in 0 .. Depth
    BY RootShape, DepthAssumption
  <2>2. OnWay(Root)
    BY RootShape, NodeKinds DEF IsFull
  <2> HIDE DEF OnWay
  <2>3. QED BY <2>1, <2>2
<1>2. PICK d \in Reached : \A e \in Reached : d <= e
  <2>1. Reached \in SUBSET Nat
    BY DepthAssumption
  <2> HIDE DEF Reached
  <2>2. QED BY <1>1, <2>1, LeastNumber
<1>3. PICK n \in Node : Len(n) = Depth - d /\ OnWay(n)
  BY <1>2
<1>4. d \in 0 .. Depth
  BY <1>2
<1>5. d = 0
  <2>1. SUFFICES ASSUME d > 0
                 PROVE  FALSE
    BY <1>4
  <2>2. n \in Inner /\ n \notin Leaf /\ Len(n) \in Nat
    BY <1>3, <1>4, <2>1, NodeShape, DepthAssumption
  <2> DEFINE Open == {c \in Child : ~IsFull(Kid(n, c))}
  <2>3. Open # {}
    BY <1>3, <2>2 DEF IsFull, CachesTrue
  <2>4. PICK c \in Open : \A b \in Open : c <= b
    <3>1. Open \in SUBSET Nat
      BY FanoutAssumption DEF Child
    <3> HIDE DEF Open
    <3>2. QED BY <2>3, <3>1, LeastNumber
  <2>5. c \in Child /\ ~IsFull(Kid(n, c))
    BY <2>4
  <2>6. \A b \in Child : b < c => IsFull(Kid(n, b))
    <3>1. \A b \in Child : b < c => ~(c <= b)
      BY <2>5, FanoutAssumption DEF Child
    <3>2. QED BY <2>4, <3>1
  <2>7. Kid(n, c) \in Node /\ Len(Kid(n, c)) = Len(n) + 1 /\ Kid(n, c)[Len(n) + 1] = c
        /\ \A i \in 1 .. Len(n) : Kid(n, c)[i] = n[i]
    BY <2>2, <2>5, KidShape
  <2>8. Chosen(Kid(n, c), Len(n) + 1)
    <3>1. Prefix(Kid(n, c), Len(n) + 1) = Kid(n, c)
      BY <2>2, <2>5, PrefixKid
    <3>2. Prefix(Kid(n, c), (Len(n) + 1) - 1) = n
      BY <2>2, <2>5, PrefixKid
    <3>3. QED BY <2>5, <2>6, <2>7, <3>1, <3>2
  <2>9. ASSUME NEW k \in 1 .. Len(n)
        PROVE  Chosen(Kid(n, c), k)
    <3>1. Prefix(Kid(n, c), k) = Prefix(n, k) /\ Prefix(Kid(n, c), k - 1) = Prefix(n, k - 1)
      BY <2>2, <2>5, PrefixKid
    <3>2. Chosen(n, k)
      BY <1>3
    <3>3. Kid(n, c)[k] = n[k]
      BY <2>7
    <3>4. QED BY <3>1, <3>2, <3>3
  <2> HIDE DEF Chosen
  <2>10. OnWay(Kid(n, c))
    <3>1. \A k \in 1 .. Len(Kid(n, c)) : k = Len(n) + 1 \/ k \in 1 .. Len(n)
      BY <2>2, <2>7
    <3>2. QED BY <2>5, <2>8, <2>9, <3>1
  <2> HIDE DEF OnWay
  <2>11. d - 1 \in 0 .. Depth /\ Len(Kid(n, c)) = Depth - (d - 1) /\ ~(d <= d - 1)
    BY <1>3, <1>4, <2>1, <2>7, DepthAssumption
  <2>12. d - 1 \in Reached
    BY <2>7, <2>10, <2>11
  <2>13. QED BY <1>2, <2>11, <2>12
<1>6. n \in Leaf /\ Len(n) = Depth
  BY <1>3, <1>5, NodeShape, DepthAssumption
<1>7. FirstFit(n) /\ ~IsFull(n)
  BY <1>3, <1>6 DEF FirstFit
<1>8. QED BY <1>6, <1>7 DEF IsFull

\* get_page() never runs off the end of children[]: in every reachable state
\* whose root is not full, the descent ends in a bitmap with a clear bit.
THEOREM DescentCorrect == Spec => []DescentSucceeds
<1>1. Init => TypeOK /\ CachesTrue
  BY TypeInit, CachesInit
<1>2. TypeOK /\ CachesTrue /\ [Next]_vars => (TypeOK /\ CachesTrue)'
  BY TypeStep, CachesStep
<1>3. QED BY <1>1, <1>2, DescentStep, PTL DEF Spec

--------------------------------------------------------------------------------
(* First fit, and the allocator the kernel sees *)

\* A page of the bitmap the descent chose and below no free page: the lowest.
LEMMA ChosenIsLowest ==
    ASSUME TypeOK, CachesTrue, NEW leaf \in Leaf, NEW j \in Bit, NEW p \in Page \ used,
           FirstFit(leaf), LowestBit(leaf, j)
    PROVE  NotAfter(<<leaf, j>>, p)
<1>1. leaf \in Node /\ Len(leaf) = Depth /\ Depth \in Nat
      /\ \A i \in 1 .. Depth : leaf[i] \in Child
  BY NodeKinds, NodeShape, DepthAssumption
<1>2. p[1] \in Leaf /\ p[1] \in Node /\ Len(p[1]) = Depth /\ p[2] \in Bit
      /\ p = <<p[1], p[2]>> /\ \A i \in 1 .. Depth : p[1][i] \in Child
  BY NodeKinds, NodeShape DEF Page
<1>3. CASE p[1] = leaf
  <2>1. ~(p[2] < j)
    BY <1>2, <1>3 DEF LowestBit
  <2>2. QED BY <1>2, <1>3, <2>1, LeafAssumption DEF NotAfter, Bit
<1>4. CASE p[1] # leaf
  <2> DEFINE Differ == {k \in 1 .. Depth : p[1][k] # leaf[k]}
  <2>1. Differ # {}
    BY <1>1, <1>2, <1>4, SamePath
  <2>2. PICK k \in Differ : \A i \in Differ : k <= i
    <3>1. Differ \in SUBSET Nat
      BY DepthAssumption
    <3> HIDE DEF Differ
    <3>2. QED BY <2>1, <3>1, LeastNumber
  <2>3. k \in 1 .. Depth /\ p[1][k] # leaf[k]
    BY <2>2
  <2>4. \A i \in 1 .. k - 1 : p[1][i] = leaf[i]
    <3>1. \A i \in 1 .. k - 1 : i \in 1 .. Depth /\ ~(k <= i)
      BY <1>1, <2>3
    <3>2. QED BY <2>2, <3>1
  <2>5. ~(p[1][k] < leaf[k])
    <3>1. SUFFICES ASSUME p[1][k] < leaf[k]
                   PROVE  FALSE
      OBVIOUS
    <3> DEFINE n == Prefix(leaf, k - 1)
               c == p[1][k]
    <3>2. n \in Node /\ Len(n) = k - 1 /\ \A i \in 1 .. k - 1 : n[i] = leaf[i]
      <4>1. k - 1 \in 0 .. Len(leaf)
        BY <1>1, <2>3
      <4>2. QED BY <1>1, <4>1, PrefixShape
    <3>3. n \in Inner /\ c \in Child
      BY <1>1, <1>2, <2>3, <3>2, NodeShape
    <3>4. IsFull(Kid(n, c))
      BY <2>3, <3>1, <3>3 DEF FirstFit
    <3> HIDE DEF n, c
    <3>5. Kid(n, c) \in Node /\ Len(Kid(n, c)) = k /\ Kid(n, c)[k] = c
          /\ \A i \in 1 .. k - 1 : Kid(n, c)[i] = leaf[i]
      BY <2>3, <1>1, <3>2, <3>3, KidShape
    <3>6. \A i \in 1 .. k : p[1][i] = Kid(n, c)[i]
      <4>1. \A i \in 1 .. k : i = k \/ i \in 1 .. k - 1
        BY <1>1, <2>3
      <4>2. QED BY <4>1, <2>4, <3>5 DEF c
    <3>7. Below(p[1], Kid(n, c))
      BY <1>1, <1>2, <2>3, <3>5, <3>6 DEF Below
    <3>8. BitmapFull(p[1], used)
      BY <1>2, <3>4, <3>5, <3>7, FullMeansFull
    <3>9. QED BY <1>2, <3>8 DEF BitmapFull
  <2>6. leaf[k] < p[1][k]
    BY <1>1, <1>2, <2>3, <2>5, FanoutAssumption DEF Child
  <2>7. QED BY <2>3, <2>4, <2>6 DEF NotAfter
<1>5. QED BY <1>3, <1>4

\* get_page() hands out the lowest free page of the machine.
THEOREM LowestPageFirst == Spec => LowestPage
<1> DEFINE Lowest == up /\ used \subseteq used' /\ used' # used =>
                         \A p \in Page \ used : NotAfter(ret', p)
<1>1. Init => TypeOK /\ CachesTrue
  BY TypeInit, CachesInit
<1>2. TypeOK /\ CachesTrue /\ [Next]_vars => (TypeOK /\ CachesTrue)'
  BY TypeStep, CachesStep
<1>3. TypeOK /\ CachesTrue /\ [Next]_vars => [Lowest]_vars
  <2>1. SUFFICES ASSUME TypeOK, CachesTrue, Next, up, used \subseteq used', used' # used,
                        NEW p \in Page \ used
                 PROVE  NotAfter(ret', p)
    BY DEF vars
  <2>2. PICK leaf \in Leaf, j \in Bit : GetPage(leaf, j)
    BY <2>1 DEF Next, MarkUsed, FinishSetup, GetNull, ReleasePage, ReleaseOutside, vars
  <2>3. QED BY <2>1, <2>2, ChosenIsLowest DEF GetPage
<1>4. QED BY <1>1, <1>2, <1>3, PTL DEF Spec, LowestPage

\* Each step of the tree is a step of the plain allocator.
LEMMA AllocatorStep ==
    TypeOK /\ CachesTrue /\ [Next]_vars => [Allocator!Next]_(Allocator!vars)
<1> SUFFICES ASSUME TypeOK, CachesTrue, [Next]_vars
             PROVE  [Allocator!Next]_(Allocator!vars)
  OBVIOUS
<1> USE DEF Allocator!Next
<1>1. ASSUME NEW first \in Page, NEW last \in Page, MarkUsed(first, last)
      PROVE  Allocator!Next
  <2>1. Range(first, last) \in SUBSET Page
    BY DEF Range
  <2>2. Allocator!Reserve(Range(first, last))
    BY <1>1 DEF MarkUsed, Allocator!Reserve
  <2>3. QED BY <2>1, <2>2
<1>2. CASE FinishSetup
  BY <1>2 DEF FinishSetup, Allocator!FinishSetup
<1>3. ASSUME NEW leaf \in Leaf, NEW j \in Bit, GetPage(leaf, j)
      PROVE  Allocator!Next
  <2>1. <<leaf, j>> \in Page
    BY DEF Page
  <2>2. Allocator!Get(<<leaf, j>>)
    BY <1>3 DEF GetPage, LowestBit, Allocator!Get
  <2>3. QED BY <2>1, <2>2
<1>4. CASE GetNull
  BY <1>4, RootStep DEF GetNull, RootTellsTruth, Allocator!GetNone
<1>5. ASSUME NEW p \in Page, ReleasePage(p)
      PROVE  Allocator!Next
  <2>1. Allocator!Release(p)
    BY <1>5 DEF ReleasePage, Allocator!Release
  <2>2. QED BY <2>1
<1>6. CASE UNCHANGED vars
  BY <1>6 DEF vars, Allocator!vars
<1>7. QED
  BY <1>1, <1>2, <1>3, <1>4, <1>5, <1>6 DEF Next, ReleaseOutside

\* The tree of cached bits is an implementation of the plain allocator: no page
\* is handed out twice, and null is the answer only when the memory is used up.
THEOREM TreeImplements == Spec => Implements
<1>1. Init => TypeOK /\ CachesTrue /\ Allocator!Init
  BY TypeInit, CachesInit DEF Init, Allocator!Init
<1>2. TypeOK /\ CachesTrue /\ [Next]_vars => (TypeOK /\ CachesTrue)'
  BY TypeStep, CachesStep
<1>3. QED BY <1>1, <1>2, AllocatorStep, PTL DEF Spec, Implements, Allocator!Spec

================================================================================
