-------------------------------- MODULE MCKMem ---------------------------------
(***************************************************************************)
(* KMem for TLC: eight pages of kernel addresses in three large pages of   *)
(* one directory, so that a range of five pages has one between its ends;  *)
(* nine pages of a process, three under each page table, for which the     *)
(* same holds.  The memory map has a hole that begins and ends inside of a *)
(* page, entries that overlap and one that is not usable.  Two processes   *)
(* and a driver.                                                           *)
(***************************************************************************)
EXTENDS KMem

Entry(base, len, usable) == [base |-> base, len |-> len, usable |-> usable]

MCMaps ==
    {<<Entry(0, 4, TRUE), Entry(7, 3, TRUE), Entry(9, 1, FALSE), Entry(10, 2 * Frames - 12, TRUE),
       Entry(2 * Frames - 2, 2, FALSE)>>}

MCRanges   == {<<2, 5>>, <<6, 1>>}
MCSegments == {<<7, 1>>, <<5, 2>>, <<2, 5>>}

================================================================================
