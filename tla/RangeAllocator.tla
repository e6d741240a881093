---------------------------- MODULE RangeAllocator -----------------------------
(***************************************************************************)
(* What the kernel expects of its virtual address allocator, whatever the  *)
(* structure behind it: the interface of kmmap() and kmunmap().  A mapping *)
(* is a range of pages nobody else holds, wholly inside the managed space; *)
(* its owner gives it back whole, or its first pages before the others.    *)
(***************************************************************************)
EXTENDS Naturals

CONSTANTS
    Space,      \* size of the managed address space, in bytes
    PageSize,   \* bytes per page
    Sizes       \* the sizes callers ask for

VARIABLES
    live,       \* the mappings held, as pairs <<address, size>>
    reserved    \* the bytes that were never anybody's to map

\* The bytes of a mapping.
Bytes(r) == r[1] .. r[1] + r[2] - 1
Held == reserved \cup UNION {Bytes(r) : r \in live}

Init ==
    /\ live = {}
    /\ reserved \subseteq 0 .. Space - 1

Map(r) ==
    /\ r[2] \in Sizes
    /\ Bytes(r) \subseteq (0 .. Space - 1) \ Held
    /\ live' = live \cup {r}
    /\ UNCHANGED reserved

\* A request can fail for want of a contiguous range, but one for a single page
\* fails only when there is none.
MapFails(size) ==
    /\ size <= PageSize => Held = 0 .. Space - 1
    /\ UNCHANGED <<live, reserved>>

Unmap(r, size) ==
    /\ r \in live
    /\ live' = (live \ {r}) \cup
                  (IF size < r[2] THEN {<<r[1] + size, r[2] - size>>} ELSE {})
    /\ UNCHANGED reserved

Next ==
    \/ \E addr \in 0 .. Space - 1, size \in Sizes : Map(<<addr, size>>)
    \/ \E size \in Sizes : MapFails(size)
    \/ \E r \in live : \E size \in 1 .. r[2] : Unmap(r, size)

Spec == Init /\ [][Next]_<<live, reserved>>

================================================================================
