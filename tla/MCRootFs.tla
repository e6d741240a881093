-------------------------------- MODULE MCRootFs --------------------------------
(***************************************************************************)
(* RootFs for TLC: a root directory of five entries, a directory of two    *)
(* clusters of five entries each, of which two are "." and "..", and one   *)
(* below it of one cluster.  Each holds up to two items of several kinds.  *)
(***************************************************************************)
EXTENDS RootFs, TLC

Item(name, pieces, dir, first, erased, sum) ==
    [name |-> name, pieces |-> pieces, dir |-> dir, first |-> first, erased |-> erased, sum |-> sum]

Below(first) ==
    {Item("a", 1, TRUE, first, FALSE, 1), Item("a", 2, FALSE, 0, FALSE, 2)}
Others ==
    {Item("b", 1, FALSE, 0, FALSE, 3), Item("b", 2, FALSE, 0, FALSE, 4),
     Item("SHORT", 0, FALSE, 0, FALSE, 5), Item("b", 1, FALSE, 0, TRUE, 3),
     Item("SHORT", 0, FALSE, 0, TRUE, 5)}

Contents(S, T) ==
    {<<x>> : x \in S} \cup {<<x, y>> : x \in S, y \in T} \cup {<<y, x>> : x \in S, y \in T}

MCTrees ==
    {(0 :> root) @@ (2 :> sub) @@ (3 :> <<Item("b", 1, FALSE, 0, FALSE, 3)>>) :
        root \in Contents({Item("a", 1, TRUE, 2, FALSE, 1)}, Others),
        sub \in Contents(Below(3), Others)}

MCClusters == (2 :> 2) @@ (3 :> 1)

MCMountable == {<<"fat", <<"h">>>>, <<"dev", <<"h", "m">>>>, <<"fat", <<"h", "m", "m">>>>}

================================================================================
