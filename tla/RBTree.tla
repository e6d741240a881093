--------------------------------- MODULE RBTree --------------------------------
(***************************************************************************)
(* The red-black tree under map<K, V> (kstdlib/map.hh): insert() and       *)
(* erase() with their fix-ups, pointer by pointer.  A node is named by its *)
(* key, since operator[] never inserts a key twice; a tree is a record     *)
(*   root        the key at the root, or Nil                               *)
(*   kid         kid["left"], kid["right"] : the children of each key      *)
(*   up          the parent of each key                                    *)
(*   red         its colour                                                *)
(*   ok          FALSE once a null pointer was followed                    *)
(* The two halves of each fix-up are mirror images in the code; here a     *)
(* side s stands for the half.                                             *)
(***************************************************************************)
EXTENDS Integers

CONSTANT Key       \* the keys (uint16_t pids)

ASSUME KeyAssumption == Key \subseteq Nat

Nil  == -1         \* nullptr
Side == {"left", "right"}
Other(s) == IF s = "left" THEN "right" ELSE "left"

EmptyTree ==
    [root |-> Nil, kid |-> [s \in Side |-> [k \in Key |-> Nil]],
     up |-> [k \in Key |-> Nil], red |-> [k \in Key |-> FALSE], ok |-> TRUE]

\* Which child of its parent n is.
SideOf(t, n) == IF t.kid["left"][t.up[n]] = n THEN "left" ELSE "right"

\* The pointer that points to u, the root or a child pointer, now points to v.
Redirect(t, u, v) ==
    IF t.up[u] = Nil THEN [t EXCEPT !.root = v]
    ELSE [t EXCEPT !.kid[SideOf(t, u)][t.up[u]] = v]

SetUp(t, n, p) == IF n = Nil THEN t ELSE [t EXCEPT !.up[n] = p]

\* transplant(u, v)
Transplant(t, u, v) == SetUp(Redirect(t, u, v), v, t.up[u])

\* rotate_left(n) for s = "left", rotate_right(n) for s = "right".

Rotate(t, n, s) ==
    LET y == t.kid[Other(s)][n]
        moved == t.kid[s][y]
        hung == [Redirect(t, n, y) EXCEPT !.up[y] = t.up[n]]
    IN  SetUp([hung EXCEPT !.kid[Other(s)][n] = moved, !.kid[s][y] = n, !.up[n] = y],
              moved, n)

--------------------------------------------------------------------------------
(* insert() *)

Blacken(t, n) == [t EXCEPT !.red[n] = FALSE]

\* One turn of insert_fixup(): n and its parent are red.  The uncle is red: both
\* go black and the grandparent is next; otherwise n is brought to the outside
\* and the grandparent is rotated away.
RECURSIVE InsertFixup(_, _)
InsertFixup(t, n) ==
    IF t.up[n] = Nil \/ ~t.red[t.up[n]] THEN Blacken(t, t.root)
    ELSE LET p == t.up[n]
             g == t.up[p]
             s == SideOf(t, p)
             uncle == t.kid[Other(s)][g]
             inner == n = t.kid[Other(s)][p]
             t1 == IF inner THEN Rotate(t, p, s) ELSE t
             n1 == IF inner THEN p ELSE n
         IN  IF uncle # Nil /\ t.red[uncle]
             THEN InsertFixup([t EXCEPT !.red[p] = FALSE, !.red[uncle] = FALSE,
                                        !.red[g] = TRUE], g)
             ELSE InsertFixup(Rotate([t1 EXCEPT !.red[t1.up[n1]] = FALSE, !.red[g] = TRUE],
                                     g, Other(s)),
                              n1)

\* The last node on the way to where k belongs.
RECURSIVE Bottom(_, _, _)
Bottom(t, n, k) ==
    LET next == t.kid[IF k < n THEN "left" ELSE "right"][n]
    IN  IF next = Nil THEN n ELSE Bottom(t, next, k)

\* insert() (in the variant, the new node is black).
InsertBlack(t, k) ==
    IF t.root = Nil THEN [t EXCEPT !.root = k]
    ELSE LET y == Bottom(t, t.root, k)
         IN  [t EXCEPT !.up[k] = y, !.kid[IF k < y THEN "left" ELSE "right"][y] = k]

Insert(t, k) ==
    IF t.root = Nil THEN InsertFixup([t EXCEPT !.root = k, !.red[k] = TRUE], k)
    ELSE LET y == Bottom(t, t.root, k)
         IN  InsertFixup([t EXCEPT !.up[k] = y, !.red[k] = TRUE,
                                   !.kid[IF k < y THEN "left" ELSE "right"][y] = k],
                         k)

\* find_node(), and contains()
RECURSIVE FindFrom(_, _, _)
FindFrom(t, n, k) ==
    CASE n = Nil -> FALSE
      [] n = k   -> TRUE
      [] OTHER   -> FindFrom(t, t.kid[IF k < n THEN "left" ELSE "right"][n], k)
Contains(t, k) == FindFrom(t, t.root, k)

--------------------------------------------------------------------------------
(* erase() *)

Crash(t) == [t EXCEPT !.ok = FALSE]
IsBlack(t, n) == ~t.red[n]

\* erase_fixup(n): n and its brother w are followed without a test for null, as
\* are the children of w.  In a red-black tree n is red or null, since its former
\* parent was black and had no other child, so that the brother is never looked at.
RECURSIVE EraseFixup(_, _)
EraseFixup(t, n) ==
    IF n = Nil THEN Crash(t)
    ELSE IF n = t.root \/ t.red[n] THEN Blacken(t, n)
    ELSE LET p  == t.up[n]
             s  == SideOf(t, n)
             o  == Other(s)
             w0 == t.kid[o][p]
             redBrother == w0 # Nil /\ t.red[w0]
             t1 == IF redBrother
                   THEN Rotate([t EXCEPT !.red[w0] = FALSE, !.red[p] = TRUE], p, s) ELSE t
             w  == t1.kid[o][p]
         IN  IF w0 = Nil \/ w = Nil THEN Crash(t1)
             ELSE IF Nil \in {t1.kid[s][w], t1.kid[o][w]} THEN Crash(t1)
             ELSE IF IsBlack(t1, t1.kid[s][w]) /\ IsBlack(t1, t1.kid[o][w])
             THEN EraseFixup([t1 EXCEPT !.red[w] = TRUE], p)
             ELSE LET t2 == IF IsBlack(t1, t1.kid[o][w])
                            THEN Rotate([t1 EXCEPT !.red[t1.kid[s][w]] = FALSE,
                                                   !.red[w] = TRUE], w, o)
                            ELSE t1
                      w2 == t2.kid[o][p]
                      t3 == Rotate([t2 EXCEPT !.red[w2] = t2.red[p], !.red[p] = FALSE,
                                              !.red[t2.kid[o][w2]] = FALSE], p, s)
                  IN  EraseFixup(t3, t3.root)

\* The successor of a key, in its right subtree (in the variant, the loop that
\* goes down to the left is missing).
LeftmostNot(t, n) == n

RECURSIVE Leftmost(_, _)
Leftmost(t, n) == IF t.kid["left"][n] = Nil THEN n ELSE Leftmost(t, t.kid["left"][n])

\* delete n: nothing points to it any more.
Drop(t, n) ==
    [t EXCEPT !.kid["left"][n] = Nil, !.kid["right"][n] = Nil, !.up[n] = Nil, !.red[n] = FALSE]

\* erase() of a key with both children: its successor y takes its place.
Unlink2(t, n) ==
    LET y  == Leftmost(t, t.kid["right"][n])
        x  == t.kid["right"][y]
        t1 == IF t.up[y] = n THEN SetUp(t, x, y)
              ELSE LET a == Transplant(t, y, x)
                       b == [a EXCEPT !.kid["right"][y] = a.kid["right"][n]]
                   IN  SetUp(b, b.kid["right"][y], y)
        t2 == Transplant(t1, n, y)
        t3 == [t2 EXCEPT !.kid["left"][y] = t2.kid["left"][n], !.red[y] = t2.red[n]]
    IN  [tree |-> SetUp(t3, t3.kid["left"][y], y), x |-> x, wasBlack |-> IsBlack(t, y)]

Unlink(t, n) ==
    IF t.kid["left"][n] # Nil /\ t.kid["right"][n] # Nil THEN Unlink2(t, n)
    ELSE LET x == t.kid[IF t.kid["left"][n] = Nil THEN "right" ELSE "left"][n]
         IN  [tree |-> Transplant(t, n, x), x |-> x, wasBlack |-> IsBlack(t, n)]

\* (In the variant, erase() forgets the fix-up.)
EraseNoFixup(t, k) == IF Contains(t, k) THEN Drop(Unlink(t, k).tree, k) ELSE t

Erase(t, k) ==
    IF ~Contains(t, k) THEN t
    ELSE LET u == Unlink(t, k)
         IN  Drop(IF u.wasBlack THEN EraseFixup(u.tree, u.x) ELSE u.tree, k)

--------------------------------------------------------------------------------
(* What a tree is *)

RECURSIVE KeysBelow(_, _)
KeysBelow(t, n) ==
    IF n = Nil THEN {}
    ELSE {n} \cup KeysBelow(t, t.kid["left"][n]) \cup KeysBelow(t, t.kid["right"][n])
KeysOf(t) == KeysBelow(t, t.root)

RECURSIVE BlackHeights(_, _)
BlackHeights(t, n) ==
    IF n = Nil THEN {0}
    ELSE {h + (IF t.red[n] THEN 0 ELSE 1) :
            h \in BlackHeights(t, t.kid["left"][n]) \cup BlackHeights(t, t.kid["right"][n])}

================================================================================
