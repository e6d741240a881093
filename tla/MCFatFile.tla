------------------------------- MODULE MCFatFile -------------------------------
(***************************************************************************)
(* FatFile for TLC: of six clusters of two bytes, one file has two that    *)
(* follow each other, another one has two that do not, and a third file is *)
(* empty.  The number of the last free cluster is cut down.                *)
(***************************************************************************)
EXTENDS FatFile, TLC

MCChains == [f \in File |-> CASE f = "row" -> <<2, 3>> [] f = "split" -> <<4, 6>> [] OTHER -> << >>]
MCSizes  == [f \in File |-> CASE f = "row" -> 4 [] f = "split" -> 3 [] OTHER -> 0]

MCSymmetry == Permutations(Handle)

================================================================================
