----------------------------- MODULE PageAllocator -----------------------------
(***************************************************************************)
(* What the kernel expects of its physical page allocator, whatever the    *)
(* structure behind it: the interface that get_phpage() and                *)
(* release_phpage() (kernel/kmmap.cc) offer to the rest of the kernel.     *)
(* While the heap is set up, setup_heap() withdraws the ranges that are    *)
(* not usable memory; from then on pages are handed out and given back.    *)
(***************************************************************************)

CONSTANTS
    Page,      \* the page frames of the machine
    Null       \* phalloc_null, and any address outside the managed memory

VARIABLES
    used,      \* the frames that may not be handed out
    ret,       \* what the last call of get_phpage() returned
    up         \* setup_heap() has returned

vars == <<used, ret, up>>

Init ==
    /\ used = {}
    /\ ret = Null
    /\ up = FALSE

Reserve(range) ==
    /\ ~up
    /\ used' = used \cup range
    /\ UNCHANGED <<ret, up>>

FinishSetup ==
    /\ ~up
    /\ up' = TRUE
    /\ UNCHANGED <<used, ret>>

\* A frame nobody holds changes hands ...
Get(p) ==
    /\ up
    /\ p \notin used
    /\ used' = used \cup {p}
    /\ ret' = p
    /\ UNCHANGED up

\* ... and the null address is an answer only when there is none left.
GetNone ==
    /\ up
    /\ used = Page
    /\ ret' = Null
    /\ UNCHANGED <<used, up>>

Release(p) ==
    /\ up
    /\ used' = used \ {p}
    /\ UNCHANGED <<ret, up>>

Next ==
    \/ \E range \in SUBSET Page : Reserve(range)
    \/ FinishSetup
    \/ \E p \in Page : Get(p)
    \/ GetNone
    \/ \E p \in Page \cup {Null} : Release(p)

Spec == Init /\ [][Next]_vars

================================================================================
