-------------------------------- MODULE MCBuddy --------------------------------
(***************************************************************************)
(* Buddy for TLC: eight pages of two bytes.  The kernel image fills part   *)
(* of the second page, below which a hole is left as it is by the linker   *)
(* script, or nothing at all, which leaves the whole space to be mapped.   *)
(***************************************************************************)
EXTENDS Buddy

MCImages == {<<2, 1>>, <<0, 0>>}

================================================================================
