--------------------------------- MODULE RBMap ---------------------------------
(***************************************************************************)
(* A map<K, V> in use (kstdlib/map.hh): operator[] inserts the keys it     *)
(* does not find, erase() takes them out, clear() takes all.  The values   *)
(* play no part in the shape of the tree and are left out.                 *)
(***************************************************************************)
EXTENDS RBTree, FiniteSets

VARIABLES
    tree,   \* the tree of the map
    keys    \* the keys its user put in and did not take out

vars == <<tree, keys>>

Init ==
    /\ tree = EmptyTree
    /\ keys = {}

\* operator[](k)
At(k) ==
    /\ tree' = IF Contains(tree, k) THEN tree ELSE Insert(tree, k)
    /\ keys' = keys \cup {k}

\* erase(k); after a null pointer was followed the kernel is in its page fault
\* handler, which does not return.
EraseKey(k) ==
    /\ tree' = Erase(tree, k)
    /\ keys' = keys \ {k}

Clear ==
    /\ tree' = EmptyTree
    /\ keys' = {}

Next ==
    /\ tree.ok
    /\ \/ \E k \in Key : At(k)
       \/ \E k \in Key : EraseKey(k)
       \/ Clear

Spec == Init /\ [][Next]_vars

--------------------------------------------------------------------------------
(* Properties *)

\* Every key that was put in and not taken out is found, and no other: contains()
\* goes down one path only, so this needs the order of the whole tree.
FindsKeys == tree.ok => {k \in Key : Contains(tree, k)} = keys /\ KeysOf(tree) = keys

\* Parent pointers, by which the fix-ups climb, are the inverse of child pointers, and
\* the red-black laws hold: a black root, no red child of a red node, and as many
\* black nodes on each way down; so a search takes at most 2 log2(n + 1) steps.
RedBlack ==
    tree.ok =>
        /\ tree.root # Nil => IsBlack(tree, tree.root) /\ tree.up[tree.root] = Nil
        /\ \A k \in keys, s \in Side : tree.kid[s][k] # Nil => tree.up[tree.kid[s][k]] = k
        /\ \A k \in keys : tree.red[k] /\ tree.up[k] # Nil => IsBlack(tree, tree.up[k])
        /\ Cardinality(BlackHeights(tree, tree.root)) = 1

\* erase() follows a null pointer only where the place that is vacated was that
\* of a black node with no child at all; in every other case its fix-up starts from
\* a node, a red one, which it blackens.
CrashesOnlyOnBlackLeaf ==
    [][tree.ok /\ ~tree'.ok =>
          \E k \in keys \ keys' : Unlink(tree, k).wasBlack /\ Unlink(tree, k).x = Nil]_vars

================================================================================
