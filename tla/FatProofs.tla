------------------------------- MODULE FatProofs -------------------------------
(***************************************************************************)
(* Proofs about the files and directories of a FAT file system.            *)
(*                                                                         *)
(* First about module FatFile, for any number and size of clusters, any    *)
(* files and any handles: no two files come to share a cluster, as long as *)
(* the numbers of first clusters fit in their entry (TableInv); what is    *)
(* read or written right after a file was opened or positioned is at that  *)
(* position; and a file whose clusters follow each other is read right to  *)
(* its end, although most reads do not look at the table (PlaceInv).       *)
(*                                                                         *)
(* Then about module RootFs, for any directories in clusters of any size,  *)
(* any names and mounts: the iterator is where its path says, as it leaves *)
(* a trail of the steps that lead there (PathInv); what list() shows is    *)
(* what push() finds, as the two searches go through the same entries      *)
(* together (Together); and in plain directories all three searches find   *)
(* the items that are there (Reading).                                     *)
(***************************************************************************)
EXTENDS FatFile, RootFs, NatLemmas

--------------------------------------------------------------------------------
(* Chains *)

\* A chain begins with its first cluster and goes on by the table.
LEMMA ChainShape ==
    ASSUME fat \in [Cluster -> Entry], NEW c \in Nat
    PROVE  /\ Chain(c) \in [0 .. Clusters -> Nat]
           /\ Chain(c)[0] = c
           /\ \A i \in 1 .. Clusters :
                 Chain(c)[i] = IF Chain(c)[i - 1] \in Cluster THEN fat[Chain(c)[i - 1]] ELSE 0
<1> DEFINE F == [p \in Int \X Nat |-> IF p[2] \in Cluster THEN fat[p[2]] ELSE 0]
           Body(hop) == [i \in 0 .. Clusters |->
                            IF i = 0 THEN c
                            ELSE IF hop[i - 1] \in Cluster THEN fat[hop[i - 1]] ELSE 0]
<1>1. Clusters \in Nat
  BY FatAssumption
<1>0. Entry \subseteq Nat
  BY <1>1 DEF Entry, Cluster, Last
<1>2. F \in [Int \X Nat -> Nat]
  <2>1. \A p \in Int \X Nat : (IF p[2] \in Cluster THEN fat[p[2]] ELSE 0) \in Nat
    BY <1>0
  <2>2. QED BY <2>1
<1>3. PICK g \in [0 .. Clusters -> Nat] :
          g[0] = c /\ \A i \in 0 + 1 .. Clusters : g[i] = F[<<i, g[i - 1]>>]
  <2> HIDE DEF F
  <2>1. 0 \in Int /\ Clusters \in Int /\ 0 <= Clusters
    BY <1>1
  <2>2. Iterations(Nat, c, F, 0, Clusters) # {}
    BY <1>2, <2>1, IterationExists
  <2>3. QED BY <2>2 DEF Iterations
<1>4. \A i \in 1 .. Clusters : g[i] = IF g[i - 1] \in Cluster THEN fat[g[i - 1]] ELSE 0
  <2>1. ASSUME NEW i \in 1 .. Clusters
        PROVE  g[i] = IF g[i - 1] \in Cluster THEN fat[g[i - 1]] ELSE 0
    <3>1. i \in 0 + 1 .. Clusters /\ i - 1 \in 0 .. Clusters
      BY <1>1
    <3>2. <<i, g[i - 1]>> \in Int \X Nat
      BY <3>1
    <3>3. QED BY <1>3, <3>1, <3>2
  <2>2. QED BY <2>1
<1>5. g = Body(g)
  <2>1. \A i \in 0 .. Clusters : g[i] = Body(g)[i]
    BY <1>1, <1>3, <1>4
  <2>2. QED BY <2>1
<1>6. Chain(c) = CHOOSE hop : hop = Body(hop)
  BY DEF Chain
<1> HIDE DEF Body
<1>7. Chain(c) = Body(Chain(c))
  BY <1>5, <1>6, Zenon
<1> DEFINE hop == Chain(c)
<1>8. hop = [i \in 0 .. Clusters |->
                IF i = 0 THEN c
                ELSE IF hop[i - 1] \in Cluster THEN fat[hop[i - 1]] ELSE 0]
  BY <1>7 DEF Body
<1> HIDE DEF hop
<1>9. /\ hop[0] = c
      /\ \A i \in 1 .. Clusters :
            hop[i] = IF hop[i - 1] \in Cluster THEN fat[hop[i - 1]] ELSE 0
  BY <1>1, <1>8
<1>10. \A i \in 0 .. Clusters : hop[i] \in Nat
  <2>1. ASSUME NEW i \in 1 .. Clusters PROVE hop[i] \in Nat
    <3>1. hop[i] = IF hop[i - 1] \in Cluster THEN fat[hop[i - 1]] ELSE 0
      BY <1>9
    <3>2. hop[i - 1] \in Cluster => fat[hop[i - 1]] \in Nat
      BY <1>0
    <3>3. QED BY <3>1, <3>2
  <2>2. QED BY <1>1, <1>9, <2>1
<1>11. hop \in [0 .. Clusters -> Nat]
  BY <1>8, <1>10
<1>12. QED BY <1>9, <1>11 DEF hop

\* The chain that begins at a place of another chain is the rest of it.
LEMMA ChainFrom ==
    ASSUME fat \in [Cluster -> Entry], NEW c \in Nat, NEW q \in 0 .. Clusters
    PROVE  \A i \in 0 .. Clusters - q : Chain(Chain(c)[q])[i] = Chain(c)[q + i]
<1> DEFINE S == {i \in 0 .. Clusters - q : Chain(Chain(c)[q])[i] = Chain(c)[q + i]}
<1>1. Clusters \in Nat /\ Clusters - q \in Nat
  BY FatAssumption
<1>2. PICK d : d = Chain(c)[q]
  OBVIOUS
<1>3. d \in Nat
  <2>1. Chain(c) \in [0 .. Clusters -> Nat]
    BY ChainShape
  <2>2. QED BY <1>2, <2>1
<1>4. /\ Chain(d)[0] = d
      /\ \A i \in 1 .. Clusters :
            Chain(d)[i] = IF Chain(d)[i - 1] \in Cluster THEN fat[Chain(d)[i - 1]] ELSE 0
  BY <1>3, ChainShape
<1>5. 0 \in S
  BY <1>1, <1>2, <1>4
<1>6. ASSUME NEW i \in 0 .. Clusters - q - 1, i \in S PROVE i + 1 \in S
  <2>1. i + 1 \in 1 .. Clusters /\ q + (i + 1) \in 1 .. Clusters
        /\ (i + 1) - 1 = i /\ (q + (i + 1)) - 1 = q + i /\ i + 1 \in 0 .. Clusters - q
    BY <1>1
  <2>2. Chain(d)[i] = Chain(c)[q + i]
    BY <1>2, <1>6
  <2>3. Chain(c)[q + (i + 1)]
            = IF Chain(c)[q + i] \in Cluster THEN fat[Chain(c)[q + i]] ELSE 0
    BY <2>1, ChainShape
  <2>4. Chain(d)[i + 1] = IF Chain(d)[i] \in Cluster THEN fat[Chain(d)[i]] ELSE 0
    BY <2>1, <1>4
  <2>5. Chain(d)[i + 1] = Chain(c)[q + (i + 1)]
    BY <2>2, <2>3, <2>4
  <2>6. QED BY <1>2, <2>1, <2>5
<1> HIDE DEF S
<1>7. 0 .. Clusters - q \subseteq S
  BY <1>1, <1>5, <1>6, InductionUpTo
<1>8. QED BY <1>7 DEF S

\* Reading goes on as far as it has to, or to the end of the chain.
LEMMA ReachedShape ==
    ASSUME fat \in [Cluster -> Entry], NEW c \in Nat, NEW n \in Nat
    PROVE  /\ Reached(c, n) \in 0 .. n /\ Reached(c, n) <= Clusters
           /\ \A i \in 1 .. Reached(c, n) : Chain(c)[i] \in Cluster
           /\ \/ Reached(c, n) = n \/ Reached(c, n) = Clusters
              \/ Chain(c)[Reached(c, n) + 1] \notin Cluster
<1> DEFINE M == Min2(n, Clusters)
           Good(k) == /\ \A i \in 1 .. k : Chain(c)[i] \in Cluster
                      /\ k = n \/ k = Clusters \/ Chain(c)[k + 1] \notin Cluster
           T == {m \in 0 .. M : \A i \in 1 .. M - m : Chain(c)[i] \in Cluster}
<1>1. Clusters \in Nat
  BY FatAssumption
<1>2. M \in Nat /\ M <= n /\ M <= Clusters /\ (M = n \/ M = Clusters)
  BY <1>1 DEF Min2
<1> HIDE DEF M
<1>3. T \in SUBSET Nat /\ M \in T
  BY <1>2
<1>4. PICK m \in T : \A l \in T : m <= l
  <2> HIDE DEF T
  <2>1. T \in SUBSET Nat /\ T # {}
    BY <1>3
  <2>2. QED BY ONLY <2>1, LeastOfNat
<1>5. M - m \in 0 .. M /\ Good(M - m)
  <2>1. M - m \in 0 .. M /\ \A i \in 1 .. M - m : Chain(c)[i] \in Cluster
    BY <1>2, <1>4
  <2>2. CASE m = 0
    BY <2>1, <2>2, <1>2
  <2>3. CASE m # 0
    <3>1. m - 1 \in 0 .. M /\ m - 1 \notin T
      BY <1>2, <1>4, <2>3
    <3>2. PICK i \in 1 .. M - (m - 1) : Chain(c)[i] \notin Cluster
      BY <3>1
    <3>3. i = M - m + 1
      BY <1>2, <1>4, <2>1, <3>2
    <3>4. QED BY <2>1, <3>2, <3>3
  <2>4. QED BY <2>2, <2>3
<1>6. Reached(c, n) = CHOOSE k \in 0 .. M : Good(k)
  BY DEF Reached, M
<1>7. Reached(c, n) \in 0 .. M /\ Good(Reached(c, n))
  <2> HIDE DEF Good
  <2>1. \E k \in 0 .. M : Good(k)
    BY <1>5
  <2>2. QED BY <1>6, <2>1, Zenon
<1>8. QED BY <1>1, <1>2, <1>7

\* Where the table leads on that far, all of it is reached.
LEMMA ReachedAll ==
    ASSUME fat \in [Cluster -> Entry], NEW c \in Nat, NEW n \in 0 .. Clusters,
           \A i \in 1 .. n : Chain(c)[i] \in Cluster
    PROVE  Reached(c, n) = n
<1>1. Clusters \in Nat /\ n \in Nat
  BY FatAssumption
<1>2. PICK k : k = Reached(c, n)
  OBVIOUS
<1>3. /\ k \in 0 .. n /\ k <= Clusters
      /\ k = n \/ k = Clusters \/ Chain(c)[k + 1] \notin Cluster
  BY <1>1, <1>2, ReachedShape
<1>4. k # n => k + 1 \in 1 .. n /\ k # Clusters
  BY <1>1, <1>3
<1>5. QED BY <1>2, <1>3, <1>4

\* What is found there is a number, of a cluster or not.
LEMMA ReachedEntry ==
    ASSUME fat \in [Cluster -> Entry], NEW c \in Nat, NEW n \in Nat
    PROVE  Reached(c, n) \in Nat /\ Chain(c)[Reached(c, n)] \in Nat
<1>1. PICK k : k = Reached(c, n)
  OBVIOUS
<1>2. k \in 0 .. n /\ k <= Clusters
  BY <1>1, ReachedShape
<1>3. k \in 0 .. Clusters
  BY <1>2
<1>4. Chain(c) \in [0 .. Clusters -> Nat]
  BY ChainShape
<1>5. Chain(c)[k] \in Nat
  BY <1>3, <1>4
<1>6. QED BY <1>1, <1>2, <1>5

--------------------------------------------------------------------------------
(* Types *)

FileOpen == [open : {TRUE}, file : File, pos : Nat, within : 0 .. ClusterSize - 1,
             cluster : Nat, first : Nat, size : 0 .. MaxSize]

TypeOK ==
    /\ fat \in [Cluster -> Entry]
    /\ dir \in [File -> [first : Nat, real : {0} \cup Cluster, size : 0 .. MaxSize]]
    /\ handle \in [Handle -> {Closed} \cup FileOpen]
    /\ owner \in Handle \cup {None} /\ placed \in BOOLEAN

\* What is known of the parameters.
LEMMA Parameters ==
    /\ ClusterSize \in Nat \ {0} /\ Clusters \in Nat \ {0} /\ HalfWord \in Nat \ {0}
    /\ Word \in Nat \ {0} /\ MaxSize \in Nat /\ MaxSize < Word
    /\ Entry \subseteq Nat /\ Cluster \subseteq Nat /\ 0 \notin Cluster /\ Last \notin Cluster
    /\ Counts \subseteq Nat /\ None \notin Handle
BY FatAssumption DEF Entry, Cluster, Last

\* An open handle is that of an open file.
LEMMA OpenHandle ==
    ASSUME TypeOK, NEW h \in Handle, handle[h].open
    PROVE  handle[h] \in FileOpen
BY DEF TypeOK, Closed

\* The cluster a file is given is a free one.
LEMMA FirstFreeShape ==
    ASSUME Free # {}
    PROVE  FirstFree \in Free /\ FirstFree \in Cluster /\ fat[FirstFree] = 0
<1>1. Free \in SUBSET Nat
  BY Parameters DEF Free
<1>2. \E c \in Free : \A d \in Free : c <= d
  <2>1. Free # {}
    OBVIOUS
  <2>2. QED BY ONLY <1>1, <2>1, LeastOfNat
<1>3. FirstFree \in Free
  BY <1>2, Zenon DEF FirstFree
<1>4. QED BY <1>3 DEF Free

\* The parts of a call, of whatever file.
LEMMA PartsShape ==
    ASSUME NEW file \in FileOpen, NEW n \in Nat
    PROVE  /\ FirstPart(file, n) \in 0 .. n /\ FirstPart(file, n) <= ClusterSize - file.within
           /\ n < ClusterSize - file.within => FirstPart(file, n) = n
           /\ n >= ClusterSize - file.within => FirstPart(file, n) = ClusterSize - file.within
           /\ Hops(file, n) \in Nat
           /\ \A k \in Nat : Hops(file, n) <= k
                 <=> n - FirstPart(file, n) <= k * ClusterSize
<1>1. ClusterSize \in Nat \ {0} /\ file.within \in 0 .. ClusterSize - 1
  BY Parameters DEF FileOpen
<1>2. /\ FirstPart(file, n) \in 0 .. n /\ FirstPart(file, n) <= ClusterSize - file.within
      /\ n < ClusterSize - file.within => FirstPart(file, n) = n
      /\ n >= ClusterSize - file.within => FirstPart(file, n) = ClusterSize - file.within
  BY <1>1 DEF FirstPart, Min2
<1>3. PICK a \in Nat : a = n - FirstPart(file, n)
  BY <1>2
<1>4. /\ (a + ClusterSize - 1) \div ClusterSize \in Nat
      /\ \A k \in Nat : (a + ClusterSize - 1) \div ClusterSize <= k <=> a <= k * ClusterSize
  BY <1>1, RoundUp
<1>5. Hops(file, n) = (a + ClusterSize - 1) \div ClusterSize
  BY <1>3 DEF Hops
<1>6. QED BY <1>2, <1>3, <1>4, <1>5

\* How many bytes a call reads.
LEMMA LengthShape ==
    ASSUME NEW file \in FileOpen, NEW n \in Nat
    PROVE  /\ Length(file, n) \in Nat
           /\ file.pos <= file.size =>
                 /\ Length(file, n) <= n
                 /\ file.pos + Length(file, n) <= file.size
<1>1. file.pos \in Nat /\ file.size \in Nat /\ file.size < Word
  BY Parameters DEF FileOpen
<1>2. Word \in Nat \ {0}
  BY Parameters
<1>3. (file.size - file.pos) % Word \in Nat
  BY <1>1, <1>2
<1>4. ASSUME file.pos <= file.size PROVE (file.size - file.pos) % Word = file.size - file.pos
  BY <1>1, <1>2, <1>4
<1>5. QED BY <1>1, <1>3, <1>4 DEF Length

--------------------------------------------------------------------------------

\* The types hold initially.
LEMMA InitTypeOK == Init => TypeOK
<1> SUFFICES ASSUME Init PROVE TypeOK
  OBVIOUS
<1>1. \A f \in File : Chains[f] \in Seq(Cluster)
  BY FatAssumption
<1>2. fat \in [Cluster -> Entry]
  <2> DEFINE In(c, f) == \E i \in DOMAIN Chains[f] : Chains[f][i] = c
             The(c) == CHOOSE f \in File : In(c, f)
             Idx(c) == CHOOSE i \in DOMAIN Chains[The(c)] : Chains[The(c)][i] = c
             Ent(c) == IF \E f \in File : In(c, f)
                       THEN IF Idx(c) + 1 \in DOMAIN Chains[The(c)]
                            THEN Chains[The(c)][Idx(c) + 1] ELSE Last
                       ELSE 0
  <2>1. fat = [c \in Cluster |-> Ent(c)]
    BY DEF Init
  <2>2. ASSUME NEW c \in Cluster PROVE Ent(c) \in Entry
    <3>1. CASE \E f \in File : In(c, f)
      <4>1. The(c) \in File
        BY <3>1, Zenon
      <4> HIDE DEF The, Idx
      <4>2. Idx(c) + 1 \in DOMAIN Chains[The(c)] => Chains[The(c)][Idx(c) + 1] \in Cluster
        BY <1>1, <4>1
      <4>3. QED BY <3>1, <4>2 DEF Entry
    <3>2. CASE ~\E f \in File : In(c, f)
      BY <3>2 DEF Entry
    <3>3. QED BY <3>1, <3>2
  <2> HIDE DEF Ent
  <2>3. QED BY <2>1, <2>2
<1>3. dir \in [File -> [first : Nat, real : {0} \cup Cluster, size : 0 .. MaxSize]]
  <2> DEFINE C(f) == IF DOMAIN Chains[f] = {} THEN 0 ELSE Chains[f][1]
  <2>1. dir = [f \in File |-> [first |-> C(f), real |-> C(f), size |-> Sizes[f]]]
    BY DEF Init
  <2>2. ASSUME NEW f \in File
        PROVE  C(f) \in Nat /\ C(f) \in {0} \cup Cluster /\ Sizes[f] \in 0 .. MaxSize
    <3>1. DOMAIN Chains[f] # {} => Chains[f][1] \in Cluster
      BY <1>1
    <3>2. Sizes[f] \in 0 .. MaxSize
      BY FatAssumption
    <3>3. QED BY <3>1, <3>2, Parameters
  <2> HIDE DEF C
  <2>3. QED BY <2>1, <2>2
<1>4. handle \in [Handle -> {Closed} \cup FileOpen]
  BY DEF Init
<1>5. owner \in Handle \cup {None} /\ placed \in BOOLEAN
  BY DEF Init
<1>6. QED BY <1>2, <1>3, <1>4, <1>5 DEF TypeOK

\* Reading and positioning change one handle only, to a value of its type.
LEMMA OneHandle ==
    ASSUME TypeOK, NEW h \in Handle, NEW new \in {Closed} \cup FileOpen,
           handle' = [handle EXCEPT ![h] = new],
           owner' \in Handle \cup {None}, placed' \in BOOLEAN,
           UNCHANGED <<fat, dir>>
    PROVE  TypeOK'
BY DEF TypeOK, Closed, FileOpen

\* Every step preserves the types.
LEMMA NextTypeOK == TypeOK /\ [Next]_vars => TypeOK'
<1> SUFFICES ASSUME TypeOK, [Next]_vars PROVE TypeOK'
  OBVIOUS
<1>1. CASE UNCHANGED vars
  BY <1>1 DEF vars, TypeOK, Closed, FileOpen
<1>2. ASSUME NEW h \in Handle, NEW f \in File, Open(h, f) PROVE TypeOK'
  <2>1. Opened(f) \in FileOpen
    BY Parameters DEF TypeOK, Opened, FileOpen
  <2>2. handle[h] \in {Closed} \cup FileOpen
    BY DEF TypeOK
  <2>3. QED BY <1>2, <2>1, <2>2, OneHandle DEF Open, Owns
<1>3. ASSUME WalkDirectory PROVE TypeOK'
  BY <1>3 DEF WalkDirectory, Owns, TypeOK, Closed, FileOpen
<1>4. ASSUME NEW h \in Handle, NEW p \in 0 .. MaxSize, Seek(h, p) PROVE TypeOK'
  <2> DEFINE file == handle[h]
             hops == p \div ClusterSize
             c == Chain(file.first)[Reached(file.first, hops)]
  <2>1. file.open /\ file \in FileOpen /\ p \in Nat
    BY <1>4, OpenHandle, Parameters DEF Seek
  <2>2. hops \in Nat /\ Within(p) \in 0 .. ClusterSize - 1
    BY <2>1, Parameters, DivMod DEF Within
  <2>3. c \in Nat
    <3>1. fat \in [Cluster -> Entry] /\ file.first \in Nat
      BY <2>1 DEF TypeOK, FileOpen
    <3>2. PICK d \in Nat : d = file.first
      BY <3>1
    <3>3. Chain(d)[Reached(d, hops)] \in Nat
      BY <2>2, <3>1, ReachedEntry
    <3>4. QED BY <3>2, <3>3
  <2>4. \/ UNCHANGED <<handle, owner, placed>>
        \/ handle' = [handle EXCEPT ![h].pos = p] /\ Owns(None, FALSE)
        \/ /\ handle' = [handle EXCEPT ![h].pos = p, ![h].within = Within(p), ![h].cluster = c]
           /\ Owns(h, TRUE)
    BY <1>4 DEF Seek
  <2>5. UNCHANGED <<fat, dir>>
    BY <1>4 DEF Seek
  <2> HIDE DEF c, hops
  <2>6. CASE UNCHANGED <<handle, owner, placed>>
    BY <2>5, <2>6 DEF TypeOK, Closed, FileOpen
  <2>7. CASE handle' = [handle EXCEPT ![h].pos = p] /\ Owns(None, FALSE)
    <3>1. [file EXCEPT !.pos = p] \in FileOpen
      BY <2>1 DEF FileOpen
    <3>2. handle' = [handle EXCEPT ![h] = [file EXCEPT !.pos = p]]
      BY <2>7
    <3>3. QED BY <2>5, <2>7, <3>1, <3>2, OneHandle DEF Owns
  <2>8. CASE /\ handle' = [handle EXCEPT ![h].pos = p, ![h].within = Within(p),
                                         ![h].cluster = c]
             /\ Owns(h, TRUE)
    <3> DEFINE new == [file EXCEPT !.pos = p, !.within = Within(p), !.cluster = c]
    <3>1. new \in FileOpen
      BY <2>1, <2>2, <2>3 DEF FileOpen
    <3>2. handle' = [handle EXCEPT ![h] = new]
      BY <2>8
    <3>3. QED BY <2>5, <2>8, <3>1, <3>2, OneHandle DEF Owns
  <2>9. QED BY <2>4, <2>6, <2>7, <2>8
<1>5. ASSUME NEW h \in Handle, NEW n \in Counts, Read(h, n) PROVE TypeOK'
  <2> DEFINE file  == handle[h]
             len   == Length(file, n)
             part  == FirstPart(file, len)
             hops  == Hops(file, len)
             found == Reached(file.cluster, hops)
             c     == Chain(file.cluster)[found]
             piece == len - part - (hops - 1) * ClusterSize
             after == [file EXCEPT !.cluster = c, !.within = 0]
             short == [after EXCEPT !.pos = @ + part + found * ClusterSize]
             full  == [after EXCEPT !.pos = @ + len,
                                    !.within = IF hops = 0 THEN 0 ELSE piece % ClusterSize]
  <2>1. file \in FileOpen /\ n \in Nat /\ ClusterSize \in Nat \ {0}
    BY <1>5, OpenHandle, Parameters DEF Read
  <2>2. len \in Nat
    BY <2>1, LengthShape
  <2>3. part \in 0 .. len /\ hops \in Nat
    <3> HIDE DEF file, len
    <3>1. QED BY <2>1, <2>2, PartsShape
  <2>4. found \in Nat /\ c \in Nat
    <3> HIDE DEF hops
    <3>1. PICK d \in Nat : d = file.cluster
      BY <2>1 DEF FileOpen
    <3>2. fat \in [Cluster -> Entry]
      BY DEF TypeOK
    <3>3. Reached(d, hops) \in Nat /\ Chain(d)[Reached(d, hops)] \in Nat
      BY <2>3, <3>2, ReachedEntry
    <3>4. QED BY <3>1, <3>3
  <2>5. /\ handle' = [handle EXCEPT ![h] = IF found < hops THEN short ELSE full]
        /\ UNCHANGED <<fat, dir>>
    BY <1>5 DEF Read
  <2>6. owner' \in Handle \cup {None} /\ placed' \in BOOLEAN
    BY <1>5 DEF Read, Owns
  <2> HIDE DEF c, found, hops, part, len
  <2>7. piece % ClusterSize \in 0 .. ClusterSize - 1
    <3>1. (hops - 1) * ClusterSize \in Int
      BY <2>1, <2>3
    <3>2. piece \in Int
      BY <2>2, <2>3, <3>1
    <3> HIDE DEF piece
    <3>3. QED BY <2>1, <3>2
  <2> HIDE DEF piece
  <2>8. short \in FileOpen /\ full \in FileOpen
    <3>1. found * ClusterSize \in Nat
      BY <2>1, <2>4
    <3> HIDE DEF file
    <3>2. file.pos + part + found * ClusterSize \in Nat /\ file.pos + len \in Nat
      <4>1. file.pos \in Nat
        BY <2>1 DEF FileOpen
      <4>2. QED BY <2>2, <2>3, <3>1, <4>1
    <3>3. 0 \in 0 .. ClusterSize - 1
      BY <2>1
    <3>4. QED BY <2>1, <2>4, <2>7, <3>2, <3>3 DEF FileOpen
  <2> HIDE DEF short, full
  <2>9. QED BY <2>5, <2>6, <2>8, OneHandle
<1>6. ASSUME NEW h \in Handle, NEW n \in Counts, Write(h, n) PROVE TypeOK'
  <2> DEFINE file == handle[h]
             part == FirstPart(file, n)
             c    == FirstCluster(file)
             new  == [file EXCEPT !.pos = @ + part, !.within = 0, !.cluster = c,
                                  !.first = IF file.size = 0 THEN c ELSE @]
             grown == n = part /\ new.pos > file.size
             big  == [new EXCEPT !.size = new.pos]
             entry == [first |-> IF file.size = 0 THEN c % HalfWord ELSE dir[file.file].first,
                       real  |-> IF file.size = 0 THEN c ELSE dir[file.file].real,
                       size  |-> IF grown THEN new.pos ELSE dir[file.file].size]
  <2>1. file \in FileOpen /\ n \in Nat /\ ClusterSize \in Nat \ {0}
    BY <1>6, OpenHandle, Parameters DEF Write
  <2>2. part \in 0 .. n
    BY <2>1, PartsShape
  <2>3. c \in Nat /\ (file.size = 0 => c \in Cluster)
    BY <1>6, <2>1, FirstFreeShape, Parameters DEF Write, FirstCluster, FileOpen
  <2>4. file.pos + n <= MaxSize
    BY <1>6 DEF Write
  <2>5. /\ handle' = [handle EXCEPT ![h] = IF grown THEN big ELSE new]
        /\ fat' = IF file.size = 0 THEN WriteEntry(c, Last) ELSE fat
        /\ dir' = [dir EXCEPT ![file.file] = entry]
        /\ owner' = None /\ placed' = FALSE
    BY <1>6 DEF Write, Owns
  <2> HIDE DEF c, part
  <2>6. new \in FileOpen /\ new.pos = file.pos + part
    <3> HIDE DEF file
    <3>1. file.pos \in Nat
      BY <2>1 DEF FileOpen
    <3>2. file.pos + part \in Nat /\ 0 \in 0 .. ClusterSize - 1
      BY <2>1, <2>2, <3>1
    <3>3. QED BY <2>1, <2>3, <3>2 DEF FileOpen
  <2>7. grown => new.pos \in 0 .. MaxSize
    <3> HIDE DEF file, new
    <3>1. file.pos \in Nat
      BY <2>1 DEF FileOpen
    <3>2. QED BY <2>1, <2>2, <2>4, <2>6, <3>1, Parameters
  <2> HIDE DEF new
  <2>8. grown => big \in FileOpen
    BY <2>6, <2>7 DEF FileOpen
  <2>9. entry \in [first : Nat, real : {0} \cup Cluster, size : 0 .. MaxSize]
    <3>1. dir[file.file] \in [first : Nat, real : {0} \cup Cluster, size : 0 .. MaxSize]
      BY <2>1 DEF TypeOK, FileOpen
    <3>2. c % HalfWord \in Nat
      BY <2>3, Parameters
    <3> HIDE DEF file, grown
    <3>3. QED BY <2>3, <2>7, <3>1, <3>2
  <2> HIDE DEF entry, big, grown
  <2>10. fat' \in [Cluster -> Entry]
    BY <2>5 DEF TypeOK, WriteEntry, Entry
  <2>11. dir' \in [File -> [first : Nat, real : {0} \cup Cluster, size : 0 .. MaxSize]]
    BY <2>5, <2>9 DEF TypeOK
  <2>12. handle' \in [Handle -> {Closed} \cup FileOpen]
    BY <2>5, <2>6, <2>8 DEF TypeOK
  <2>13. owner' \in Handle \cup {None} /\ placed' \in BOOLEAN
    BY <2>5
  <2>14. QED BY <2>10, <2>11, <2>12, <2>13 DEF TypeOK, Closed, FileOpen
<1>7. ASSUME NEW h \in Handle, WriteFails(h) PROVE TypeOK'
  <2>1. handle[h].open /\ handle[h] \in FileOpen
    BY <1>7, OpenHandle DEF WriteFails
  <2>2. [handle[h] EXCEPT !.first = 0] \in FileOpen
    BY <2>1 DEF FileOpen
  <2>3. handle' = [handle EXCEPT ![h] = [handle[h] EXCEPT !.first = 0]]
    BY <1>7 DEF WriteFails
  <2>4. QED BY <1>7, <2>2, <2>3, OneHandle DEF WriteFails, Owns
<1>8. QED BY <1>1, <1>2, <1>3, <1>4, <1>5, <1>6, <1>7 DEF Next

--------------------------------------------------------------------------------
(* The table.  An entry that leads to a cluster leads to one in use, and to that one    *)
(* alone; the first cluster of a file is in use, and neither another one nor another    *)
(* file leads to it.                                                                    *)

TableInv ==
    /\ \A c \in Cluster : fat[c] \in Cluster => fat[fat[c]] # 0
    /\ \A c, d \in Cluster : fat[c] = fat[d] /\ fat[c] \in Cluster => c = d
    /\ \A f \in File : dir[f].real \in Cluster =>
          fat[dir[f].real] # 0 /\ \A c \in Cluster : fat[c] # dir[f].real
    /\ \A f, g \in File : dir[f].real = dir[g].real /\ dir[f].real \in Cluster => f = g

\* The table of the disk as it is found: the entries are those of the chains.
LEMMA InitTable ==
    ASSUME Init
    PROVE  /\ \A f \in File : \A i \in DOMAIN Chains[f] :
                 /\ Chains[f][i] \in Cluster
                 /\ fat[Chains[f][i]] =
                       IF i + 1 \in DOMAIN Chains[f] THEN Chains[f][i + 1] ELSE Last
           /\ \A c \in Cluster : fat[c] # 0 =>
                 \E f \in File : \E i \in DOMAIN Chains[f] : Chains[f][i] = c
<1> DEFINE In(c, f) == \E i \in DOMAIN Chains[f] : Chains[f][i] = c
           The(c) == CHOOSE f \in File : In(c, f)
           Idx(c) == CHOOSE i \in DOMAIN Chains[The(c)] : Chains[The(c)][i] = c
           Ent(c) == IF \E f \in File : In(c, f)
                     THEN IF Idx(c) + 1 \in DOMAIN Chains[The(c)]
                          THEN Chains[The(c)][Idx(c) + 1] ELSE Last
                     ELSE 0
<1>1. fat = [c \in Cluster |-> Ent(c)]
  BY DEF Init
<1>2. \A f \in File : Chains[f] \in Seq(Cluster)
  BY FatAssumption
<1>3. ASSUME NEW f \in File, NEW i \in DOMAIN Chains[f]
      PROVE  /\ Chains[f][i] \in Cluster
             /\ fat[Chains[f][i]] = IF i + 1 \in DOMAIN Chains[f] THEN Chains[f][i + 1] ELSE Last
  <2> DEFINE c == Chains[f][i]
  <2>1. c \in Cluster
    BY <1>2
  <2> HIDE DEF c
  <2>2. In(c, f)
    BY DEF c
  <2>3. The(c) \in File /\ In(c, The(c))
    BY <2>2, Zenon
  <2>4. Idx(c) \in DOMAIN Chains[The(c)] /\ Chains[The(c)][Idx(c)] = c
    <3> HIDE DEF The
    <3>1. QED BY <2>3, Zenon
  <2>5. The(c) = f /\ Idx(c) = i
    <3> HIDE DEF The, Idx
    <3>1. Chains[The(c)][Idx(c)] = Chains[f][i]
      BY <2>4 DEF c
    <3>2. \A f1, g1 \in File : \A i1 \in DOMAIN Chains[f1], j1 \in DOMAIN Chains[g1] :
              Chains[f1][i1] = Chains[g1][j1] => f1 = g1 /\ i1 = j1
      BY FatAssumption
    <3>3. QED BY <2>3, <2>4, <3>1, <3>2
  <2> HIDE DEF The, Idx
  <2>6. Ent(c) = IF i + 1 \in DOMAIN Chains[f] THEN Chains[f][i + 1] ELSE Last
    BY <2>2, <2>5
  <2>7. fat[c] = Ent(c)
    <3> HIDE DEF Ent
    <3>1. QED BY <1>1, <2>1
  <2>8. QED BY <2>1, <2>6, <2>7 DEF c
<1>4. ASSUME NEW c \in Cluster, fat[c] # 0
      PROVE  \E f \in File : \E i \in DOMAIN Chains[f] : Chains[f][i] = c
  <2>1. fat[c] = Ent(c)
    <3> HIDE DEF Ent
    <3>1. QED BY <1>1
  <2>2. \E f \in File : In(c, f)
    BY <1>4, <2>1
  <2>3. QED BY <2>2
<1>5. QED BY <1>3, <1>4

\* It holds initially.
LEMMA InitTableInv == Init => TableInv
<1> SUFFICES ASSUME Init PROVE TableInv
  OBVIOUS
<1>1. \A f \in File : Chains[f] \in Seq(Cluster)
  BY FatAssumption
<1>2. \A f, g \in File : \A i \in DOMAIN Chains[f], j \in DOMAIN Chains[g] :
          Chains[f][i] = Chains[g][j] => f = g /\ i = j
  BY FatAssumption
<1>3. \A f \in File : \A i \in DOMAIN Chains[f] :
          /\ Chains[f][i] \in Cluster
          /\ fat[Chains[f][i]] = IF i + 1 \in DOMAIN Chains[f] THEN Chains[f][i + 1] ELSE Last
  BY InitTable
<1>4. ASSUME NEW f \in File, NEW i \in DOMAIN Chains[f] PROVE fat[Chains[f][i]] # 0
  <2>1. i + 1 \in DOMAIN Chains[f] => Chains[f][i + 1] \in Cluster
    BY <1>3
  <2>2. Last # 0
    BY Parameters DEF Last
  <2>3. QED BY <1>3, <2>1, <2>2, Parameters
<1>5. ASSUME NEW c \in Cluster, fat[c] \in Cluster
      PROVE  \E f \in File : \E i \in DOMAIN Chains[f] :
                 /\ i + 1 \in DOMAIN Chains[f]
                 /\ c = Chains[f][i] /\ fat[c] = Chains[f][i + 1]
  <2>1. fat[c] # 0 /\ fat[c] # Last
    BY <1>5, Parameters
  <2>2. PICK f \in File : \E i \in DOMAIN Chains[f] : Chains[f][i] = c
    BY <2>1, InitTable
  <2>3. PICK i \in DOMAIN Chains[f] : Chains[f][i] = c
    BY <2>2
  <2>4. QED BY <1>3, <2>1, <2>3
<1>6. ASSUME NEW f \in File, dir[f].real \in Cluster
      PROVE  1 \in DOMAIN Chains[f] /\ dir[f].real = Chains[f][1]
  <2> DEFINE C == IF DOMAIN Chains[f] = {} THEN 0 ELSE Chains[f][1]
  <2>1. dir[f].real = C
    BY DEF Init
  <2>2. DOMAIN Chains[f] # {}
    BY <1>6, <2>1, Parameters
  <2>3. QED BY <1>1, <2>1, <2>2
<1>7. ASSUME NEW c \in Cluster, fat[c] \in Cluster PROVE fat[fat[c]] # 0
  BY <1>4, <1>5, <1>7
<1>8. ASSUME NEW c \in Cluster, NEW d \in Cluster, fat[c] = fat[d], fat[c] \in Cluster
      PROVE  c = d
  <2>1. PICK f \in File : \E i \in DOMAIN Chains[f] :
            i + 1 \in DOMAIN Chains[f] /\ c = Chains[f][i] /\ fat[c] = Chains[f][i + 1]
    BY <1>5, <1>8
  <2>2. PICK g \in File : \E j \in DOMAIN Chains[g] :
            j + 1 \in DOMAIN Chains[g] /\ d = Chains[g][j] /\ fat[d] = Chains[g][j + 1]
    BY <1>5, <1>8
  <2>3. PICK i \in DOMAIN Chains[f] :
            i + 1 \in DOMAIN Chains[f] /\ c = Chains[f][i] /\ fat[c] = Chains[f][i + 1]
    BY <2>1
  <2>4. PICK j \in DOMAIN Chains[g] :
            j + 1 \in DOMAIN Chains[g] /\ d = Chains[g][j] /\ fat[d] = Chains[g][j + 1]
    BY <2>2
  <2>5. f = g /\ i + 1 = j + 1
    BY <1>2, <1>8, <2>3, <2>4
  <2>6. i \in Nat /\ j \in Nat
    BY <1>1
  <2>7. i = j
    BY <2>5, <2>6
  <2>8. QED BY <2>3, <2>4, <2>5, <2>7
<1>9. ASSUME NEW f \in File, dir[f].real \in Cluster
      PROVE  fat[dir[f].real] # 0 /\ \A c \in Cluster : fat[c] # dir[f].real
  <2>1. 1 \in DOMAIN Chains[f] /\ dir[f].real = Chains[f][1]
    BY <1>6, <1>9
  <2>2. fat[dir[f].real] # 0
    BY <1>4, <2>1
  <2>3. ASSUME NEW c \in Cluster, fat[c] = dir[f].real PROVE FALSE
    <3>1. PICK g \in File : \E j \in DOMAIN Chains[g] :
              j + 1 \in DOMAIN Chains[g] /\ c = Chains[g][j] /\ fat[c] = Chains[g][j + 1]
      BY <1>5, <1>9, <2>3
    <3>2. PICK j \in DOMAIN Chains[g] :
              j + 1 \in DOMAIN Chains[g] /\ c = Chains[g][j] /\ fat[c] = Chains[g][j + 1]
      BY <3>1
    <3>3. f = g /\ 1 = j + 1
      BY <1>2, <2>1, <2>3, <3>2
    <3>4. j \in Nat \ {0}
      BY <1>1
    <3>5. QED BY <3>3, <3>4
  <2>4. QED BY <2>2, <2>3
<1>10. ASSUME NEW f \in File, NEW g \in File, dir[f].real = dir[g].real, dir[f].real \in Cluster
       PROVE  f = g
  BY <1>2, <1>6, <1>10
<1>11. QED BY <1>7, <1>8, <1>9, <1>10 DEF TableInv

\* Every step preserves it: only a free cluster is ever put to use.
LEMMA NextTableInv == TypeOK /\ TableInv /\ [Next]_vars => TableInv'
<1> SUFFICES ASSUME TypeOK, TableInv, [Next]_vars PROVE TableInv'
  OBVIOUS
<1>1. CASE UNCHANGED <<fat, dir>>
  BY <1>1 DEF TableInv
<1>2. ASSUME NEW h \in Handle, NEW n \in Counts, Write(h, n) PROVE TableInv'
  <2> DEFINE file == handle[h]
             c    == FirstCluster(file)
  <2>1. file \in FileOpen /\ file.file \in File
    BY <1>2, OpenHandle DEF Write, FileOpen
  <2>2. /\ dir' \in [File -> [first : Nat, real : {0} \cup Cluster, size : 0 .. MaxSize]]
        /\ fat' \in [Cluster -> Entry]
    BY NextTypeOK DEF TypeOK
  <2>3. CASE file.size # 0
    <3>1. fat' = fat /\ \A f \in File : dir'[f].real = dir[f].real
      BY <1>2, <2>1, <2>3 DEF Write, TypeOK
    <3>2. QED BY <3>1 DEF TableInv
  <2>4. CASE file.size = 0
    <3>1. c \in Cluster /\ fat[c] = 0
      BY <1>2, <2>4, FirstFreeShape DEF Write, FirstCluster
    <3>2. fat' = [fat EXCEPT ![c] = Last]
      BY <1>2, <2>4 DEF Write, WriteEntry
    <3>3. \A f \in File : dir'[f].real = IF f = file.file THEN c ELSE dir[f].real
      BY <1>2, <2>1, <2>4 DEF Write, TypeOK
    <3>4. Last \notin Cluster /\ Last # 0 /\ 0 \notin Cluster
      BY Parameters DEF Last
    <3> HIDE DEF file, c
    <3>5. \A d \in Cluster : fat'[d] = IF d = c THEN Last ELSE fat[d]
      BY <3>1, <3>2 DEF TypeOK
    <3>6. \A d \in Cluster : fat[d] # c
      BY <3>1, <3>4 DEF TableInv
    <3>7. \A f \in File : dir[f].real # c
      BY <3>1 DEF TableInv
    <3>8. \A d \in Cluster : fat'[d] \in Cluster => fat'[fat'[d]] # 0
      BY <3>1, <3>4, <3>5 DEF TableInv
    <3>9. \A d, e \in Cluster : fat'[d] = fat'[e] /\ fat'[d] \in Cluster => d = e
      BY <3>4, <3>5 DEF TableInv
    <3>10. \A f \in File : dir'[f].real \in Cluster =>
              fat'[dir'[f].real] # 0 /\ \A d \in Cluster : fat'[d] # dir'[f].real
      BY <3>1, <3>3, <3>4, <3>5, <3>6 DEF TableInv
    <3>11. \A f, g \in File : dir'[f].real = dir'[g].real /\ dir'[f].real \in Cluster => f = g
      BY <3>3, <3>7 DEF TableInv
    <3>12. QED BY <3>8, <3>9, <3>10, <3>11 DEF TableInv
  <2>5. QED BY <2>3, <2>4
<1>3. QED
  <2>1. CASE UNCHANGED vars
    BY <1>1, <2>1 DEF vars
  <2>2. CASE Next
    <3>1. ASSUME NEW h \in Handle, NEW f \in File, Open(h, f) PROVE UNCHANGED <<fat, dir>>
      BY <3>1 DEF Open
    <3>2. CASE WalkDirectory
      BY <1>1, <3>2 DEF WalkDirectory
    <3>3. ASSUME NEW h \in Handle, NEW n, Seek(h, n) \/ Read(h, n) \/ WriteFails(h)
          PROVE  UNCHANGED <<fat, dir>>
      BY <3>3 DEF Seek, Read, WriteFails
    <3>4. CASE \E h \in Handle, f \in File : Open(h, f)
      BY <1>1, <3>1, <3>4
    <3>5. CASE \E h \in Handle, n \in 0 .. MaxSize : Seek(h, n)
      BY <1>1, <3>3, <3>5
    <3>6. CASE \E h \in Handle, n \in Counts : Read(h, n)
      BY <1>1, <3>3, <3>6
    <3>7. CASE \E h \in Handle, n \in Counts : Write(h, n)
      BY <1>2, <3>7
    <3>8. CASE \E h \in Handle : WriteFails(h)
      BY <1>1, <3>3, <3>8
    <3>9. QED BY <2>2, <3>2, <3>4, <3>5, <3>6, <3>7, <3>8 DEF Next
  <2>3. QED BY <2>1, <2>2

\* Chains that begin at different clusters to which no entry leads never meet.
LEMMA ChainsApart ==
    ASSUME TypeOK, TableInv, NEW c \in Nat, NEW d \in Nat,
           c \in Cluster => c # d /\ \A x \in Cluster : fat[x] # c,
           d \in Cluster => \A x \in Cluster : fat[x] # d
    PROVE  \A i, j \in 0 .. Clusters :
              Chain(c)[i] \in Cluster => Chain(c)[i] # Chain(d)[j]
<1> DEFINE C == Chain(c)
           D == Chain(d)
           S == {i \in 0 .. Clusters :
                    \A j \in 0 .. Clusters : C[i] \in Cluster => C[i] # D[j]}
<1>1. Clusters \in Nat /\ fat \in [Cluster -> Entry] /\ 0 \notin Cluster
  BY Parameters DEF TypeOK
<1>2. /\ C[0] = c
      /\ \A i \in 1 .. Clusters : C[i] = IF C[i - 1] \in Cluster THEN fat[C[i - 1]] ELSE 0
  BY <1>1, ChainShape
<1>3. /\ D[0] = d
      /\ \A j \in 1 .. Clusters : D[j] = IF D[j - 1] \in Cluster THEN fat[D[j - 1]] ELSE 0
  BY <1>1, ChainShape
<1> HIDE DEF C, D
<1>4. ASSUME NEW j \in 0 .. Clusters, j # 0, D[j] \in Cluster
      PROVE  j - 1 \in 0 .. Clusters /\ D[j - 1] \in Cluster /\ D[j] = fat[D[j - 1]]
  <2>1. j \in 1 .. Clusters /\ j - 1 \in 0 .. Clusters
    BY <1>1, <1>4
  <2>2. D[j] = IF D[j - 1] \in Cluster THEN fat[D[j - 1]] ELSE 0
    BY <1>3, <2>1
  <2>3. QED BY <1>1, <1>4, <2>1, <2>2
<1>5. 0 \in S
  <2>1. ASSUME NEW j \in 0 .. Clusters, C[0] \in Cluster, C[0] = D[j] PROVE FALSE
    <3>1. c \in Cluster /\ D[j] = c
      BY <1>2, <2>1
    <3>2. j # 0
      BY <1>3, <3>1
    <3>3. D[j - 1] \in Cluster /\ D[j] = fat[D[j - 1]]
      BY <1>4, <3>1, <3>2
    <3>4. QED BY <3>1, <3>3
  <2>2. QED BY <1>1, <2>1
<1>6. ASSUME NEW i \in 0 .. Clusters - 1, i \in S PROVE i + 1 \in S
  <2>1. i + 1 \in 1 .. Clusters /\ i + 1 \in 0 .. Clusters /\ (i + 1) - 1 = i
        /\ i \in 0 .. Clusters
    BY <1>1
  <2>2. C[i + 1] = IF C[i] \in Cluster THEN fat[C[i]] ELSE 0
    BY <1>2, <2>1
  <2>3. ASSUME NEW j \in 0 .. Clusters, C[i + 1] \in Cluster, C[i + 1] = D[j] PROVE FALSE
    <3>1. C[i] \in Cluster /\ C[i + 1] = fat[C[i]]
      BY <1>1, <2>2, <2>3
    <3>2. j # 0
      BY <1>3, <2>3, <3>1
    <3>3. j - 1 \in 0 .. Clusters /\ D[j - 1] \in Cluster /\ D[j] = fat[D[j - 1]]
      BY <1>4, <2>3, <3>2
    <3>4. C[i] = D[j - 1]
      BY <2>3, <3>1, <3>3 DEF TableInv
    <3>5. QED BY <1>6, <3>1, <3>3, <3>4
  <2>4. QED BY <2>1, <2>3
<1> HIDE DEF S
<1>7. 0 .. Clusters \subseteq S
  BY <1>1, <1>5, <1>6, InductionUpTo
<1>8. QED BY <1>7 DEF S, C, D

\* So files whose first clusters are the ones their entries hold have nothing in common.
LEMMA DisjointFiles == TypeOK /\ TableInv => FilesDisjoint
<1> SUFFICES ASSUME TypeOK, TableInv, \A f \in File : dir[f].first = dir[f].real,
                    NEW f \in File, NEW g \in File, f # g
             PROVE  Owned(f) \cap Owned(g) = {}
  BY DEF FilesDisjoint
<1>1. PICK c \in Nat : c = dir[f].first /\ c = dir[f].real
  BY DEF TypeOK
<1>2. PICK d \in Nat : d = dir[g].first /\ d = dir[g].real
  BY DEF TypeOK
<1>3. /\ c \in Cluster => c # d /\ \A x \in Cluster : fat[x] # c
      /\ d \in Cluster => \A x \in Cluster : fat[x] # d
  BY <1>1, <1>2 DEF TableInv
<1>4. \A i, j \in 0 .. Clusters : Chain(c)[i] \in Cluster => Chain(c)[i] # Chain(d)[j]
  BY <1>3, ChainsApart
<1>5. Owned(f) = {e \in Cluster : \E i \in 0 .. Clusters : Chain(c)[i] = e}
      /\ Owned(g) = {e \in Cluster : \E i \in 0 .. Clusters : Chain(d)[i] = e}
  BY <1>1, <1>2 DEF Owned
<1>6. QED BY <1>4, <1>5

\* No two files of a disk share a cluster, whatever files are written, in whatever order
\* and whichever are short of clusters, as long as the numbers of first clusters fit in
\* what update_entry() keeps of them.
THEOREM FilesStayDisjoint == Spec => []FilesDisjoint
<1>1. Init => TypeOK /\ TableInv
  BY InitTypeOK, InitTableInv
<1>2. TypeOK /\ TableInv /\ [Next]_vars => TypeOK' /\ TableInv'
  BY NextTypeOK, NextTableInv
<1>3. TypeOK /\ TableInv => FilesDisjoint
  BY DisjointFiles
<1>4. QED BY <1>1, <1>2, <1>3, PTL DEF Spec

--------------------------------------------------------------------------------
(* Places.  The handle that has fh to itself is where its members say: always, right    *)
(* after it was opened or positioned (Exact); and as long as it is read from there on,  *)
(* if the clusters of the file follow each other (Onward), where however the members    *)
(* that tell the cluster and the place in it are true only after a read that ended      *)
(* within a cluster.                                                                    *)

At(file) ==
    /\ file.pos \div ClusterSize <= Clusters
    /\ file.cluster = Chain(file.first)[file.pos \div ClusterSize]
    /\ file.within = file.pos % ClusterSize

Exact(file, at) ==
    /\ file.pos = 0 \/ file.pos < file.size
    /\ At(file)
    /\ at = Address(file.cluster) + file.within

Onward(file, at) ==
    Whole(file) /\ Contiguous(file) =>
        /\ at = Address(file.first) + file.pos
        /\ file.within # 0 => At(file)

Positioned(file, at, exactly) ==
    /\ file.open /\ file.pos <= file.size /\ file.first >= 2
    /\ exactly => Exact(file, at)
    /\ Onward(file, at)

PlaceInv == owner # None => Positioned(handle[owner], fh, placed)

\* Clusters that follow each other are that far apart.
LEMMA Addresses ==
    ASSUME NEW c \in Nat, NEW q \in Nat
    PROVE  /\ Address(c) \in Int
           /\ c >= 2 => Address(c) >= 0
           /\ Address(c + q) = Address(c) + q * ClusterSize
<1>1. ClusterSize \in Nat \ {0}
  BY Parameters
<1>2. (c - 2) * ClusterSize \in Int
  BY <1>1
<1>3. c >= 2 => (c - 2) * ClusterSize >= 0
  <2>1. 0 * ClusterSize = 0
    BY <1>1
  <2>2. c >= 2 => 0 * ClusterSize <= (c - 2) * ClusterSize
    BY <1>1, Multiples
  <2>3. QED BY <2>1, <2>2
<1>4. ((c - 2) + q) * ClusterSize = (c - 2) * ClusterSize + q * ClusterSize
  BY <1>1, Multiples
<1>5. (c + q) - 2 = (c - 2) + q
  OBVIOUS
<1>6. QED BY <1>2, <1>3, <1>4, <1>5 DEF Address

\* A file needs the clusters that begin below its size.
LEMMA NeededShape ==
    ASSUME NEW file \in FileOpen, NEW q \in Nat
    PROVE  Needed(file) \in Nat /\ (q \in 0 .. Needed(file) - 1 <=> q * ClusterSize < file.size)
<1>1. ClusterSize \in Nat \ {0} /\ file.size \in Nat
  BY Parameters DEF FileOpen
<1>2. /\ Needed(file) \in Nat
      /\ \A k \in Nat : Needed(file) <= k <=> file.size <= k * ClusterSize
  <2>1. PICK a \in Nat : a = file.size
    BY <1>1
  <2>2. /\ (a + ClusterSize - 1) \div ClusterSize \in Nat
        /\ \A k \in Nat : (a + ClusterSize - 1) \div ClusterSize <= k <=> a <= k * ClusterSize
    BY <1>1, RoundUp
  <2>3. Needed(file) = (a + ClusterSize - 1) \div ClusterSize
    BY <2>1 DEF Needed
  <2>4. QED BY <2>1, <2>2, <2>3
<1>3. q * ClusterSize \in Nat
  BY <1>1
<1>4. QED BY <1>1, <1>2, <1>3

\* What the members of an open file are.
LEMMA OpenFields ==
    ASSUME NEW file \in FileOpen
    PROVE  /\ file.open /\ file.pos \in Nat /\ file.within \in 0 .. ClusterSize - 1
           /\ file.cluster \in Nat /\ file.first \in Nat /\ file.size \in Nat
           /\ file.pos \div ClusterSize \in Nat
           /\ file.pos % ClusterSize \in 0 .. ClusterSize - 1
           /\ file.pos = (file.pos \div ClusterSize) * ClusterSize + (file.pos % ClusterSize)
<1>1. file.pos \in Nat /\ ClusterSize \in Nat \ {0}
  BY Parameters DEF FileOpen
<1>2. PICK p \in Nat : p = file.pos
  BY <1>1
<1>3. /\ p \div ClusterSize \in Nat /\ p % ClusterSize \in 0 .. ClusterSize - 1
      /\ p = (p \div ClusterSize) * ClusterSize + (p % ClusterSize)
  BY <1>1, DivMod
<1>4. file.within \in 0 .. ClusterSize - 1 /\ file.cluster \in Nat /\ file.first \in Nat
  BY DEF FileOpen
<1>5. file.size \in 0 .. MaxSize
  BY DEF FileOpen
<1>6. file.size \in Nat
  BY <1>5, Parameters
<1>7. file.open
  BY DEF FileOpen
<1>8. QED BY <1>1, <1>2, <1>3, <1>4, <1>6, <1>7

\* A position in a file is in one of its clusters, which the table leads to.
LEMMA PositionInFile ==
    ASSUME NEW file \in FileOpen, Whole(file), file.pos < file.size
    PROVE  file.pos \div ClusterSize \in 0 .. Needed(file) - 1
<1> DEFINE q == file.pos \div ClusterSize
<1>1. /\ q \in Nat /\ file.pos \in Nat /\ file.size \in Nat
      /\ file.pos = q * ClusterSize + (file.pos % ClusterSize)
      /\ file.pos % ClusterSize \in Nat
  <2>1. ClusterSize \in Nat \ {0}
    BY Parameters
  <2>2. QED BY <2>1, OpenFields
<1> HIDE DEF q
<1>2. q * ClusterSize \in Int
  BY <1>1, Parameters
<1>3. q * ClusterSize < file.size
  BY <1>1, <1>2
<1>4. q \in 0 .. Needed(file) - 1
  BY <1>1, <1>3, NeededShape
<1>5. QED BY <1>4 DEF q

\* A handle just positioned may be read on from there.
LEMMA ExactOnward ==
    ASSUME fat \in [Cluster -> Entry], NEW file \in FileOpen, NEW at, Exact(file, at)
    PROVE  Onward(file, at)
<1> SUFFICES ASSUME Whole(file), Contiguous(file)
             PROVE  at = Address(file.first) + file.pos
  BY DEF Onward, Exact
<1> DEFINE q == file.pos \div ClusterSize
           r == file.pos % ClusterSize
<1>1. q \in Nat /\ r \in Nat /\ file.pos = q * ClusterSize + r /\ file.first \in Nat
  <2>1. ClusterSize \in Nat \ {0}
    BY Parameters
  <2>2. QED BY <2>1, OpenFields
<1>2. at = Address(file.cluster) + r /\ file.cluster = Chain(file.first)[q]
  BY DEF Exact, At
<1>3. Chain(file.first)[q] = file.first + q
  <2>1. CASE file.pos = 0
    <3>1. q = 0
      BY <2>1, Parameters
    <3>2. PICK c \in Nat : c = file.first
      BY <1>1
    <3>3. Chain(c)[0] = c
      BY ChainShape
    <3>4. QED BY <3>1, <3>2, <3>3
  <2>2. CASE file.pos < file.size
    BY <2>2, PositionInFile DEF Contiguous
  <2>3. QED BY <2>1, <2>2 DEF Exact
<1> HIDE DEF q, r
<1>4. PICK c \in Nat : c = file.first
  BY <1>1
<1>5. Address(c + q) = Address(c) + q * ClusterSize /\ Address(c) \in Int
  BY <1>1, Addresses
<1>6. q * ClusterSize \in Int
  BY <1>1, Parameters
<1>7. QED BY <1>1, <1>2, <1>3, <1>4, <1>5, <1>6

\* From the cluster of the position on, the table leads to the clusters a read needs, and
\* they are those of the file that come next.
LEMMA PiecesReached ==
    ASSUME fat \in [Cluster -> Entry], NEW file \in FileOpen, Whole(file), At(file),
           NEW len \in Nat, file.pos + len <= file.size
    PROVE  LET q    == file.pos \div ClusterSize
               hops == Hops(file, len)
           IN  /\ hops # 0 => q + hops \in 0 .. Needed(file) - 1
                              /\ FirstPart(file, len) = ClusterSize - file.within
               /\ \A i \in 0 .. hops :
                     q + i <= Clusters /\ Chain(file.cluster)[i] = Chain(file.first)[q + i]
               /\ Reached(file.cluster, hops) = hops
<1> DEFINE q    == file.pos \div ClusterSize
           r    == file.pos % ClusterSize
           part == FirstPart(file, len)
           hops == Hops(file, len)
           need == Needed(file)
<1>1. ClusterSize \in Nat \ {0} /\ Clusters \in Nat \ {0}
  BY Parameters
<1>2. /\ q \in Nat /\ r \in 0 .. ClusterSize - 1 /\ file.pos = q * ClusterSize + r
      /\ file.size \in Nat /\ file.first \in Nat /\ file.pos \in Nat
  BY OpenFields
<1>3. file.within = r /\ q <= Clusters /\ file.cluster = Chain(file.first)[q]
  BY DEF At
<1>4. /\ part \in 0 .. len
      /\ len >= ClusterSize - file.within => part = ClusterSize - file.within
      /\ len < ClusterSize - file.within => part = len
      /\ hops \in Nat
      /\ \A k \in Nat : hops <= k <=> len - part <= k * ClusterSize
  BY PartsShape
<1>5. need \in Nat /\ need <= Clusters /\ \A i \in 0 .. need - 1 : Chain(file.first)[i] \in Cluster
  BY NeededShape, 0 \in Nat DEF Whole
<1>6. \A k \in Nat : k \in 0 .. need - 1 <=> k * ClusterSize < file.size
  BY NeededShape
<1> HIDE DEF q, r, part, hops, need
<1>7. ASSUME hops # 0 PROVE q + hops \in 0 .. need - 1 /\ part = ClusterSize - file.within
  <2>1. hops - 1 \in Nat /\ ~(hops <= hops - 1) /\ ~(hops <= 0)
    BY <1>4, <1>7
  <2>2. ~(len - part <= (hops - 1) * ClusterSize)
    BY <1>4, <2>1
  <2>3. ~(len - part <= 0 * ClusterSize) /\ 0 * ClusterSize = 0
    BY <1>1, <1>4, <2>1
  <2>4. part = ClusterSize - file.within
    BY <1>1, <1>2, <1>3, <1>4, <2>3
  <2>5. (q + hops) * ClusterSize = q * ClusterSize + hops * ClusterSize
    BY <1>1, <1>2, <1>4, Multiples
  <2>6. (hops - 1) * ClusterSize = hops * ClusterSize - ClusterSize
    BY <1>1, <1>4, Multiples
  <2>7. q * ClusterSize \in Int /\ hops * ClusterSize \in Int
    BY <1>1, <1>2, <1>4
  <2>8. (q + hops) * ClusterSize < file.size
    BY <1>1, <1>2, <1>3, <1>4, <2>2, <2>4, <2>5, <2>6, <2>7
  <2>9. q + hops \in Nat
    BY <1>2, <1>4
  <2>10. QED BY <1>6, <2>4, <2>8, <2>9
<1>8. q + hops <= Clusters
  <2>1. CASE hops = 0
    BY <1>1, <1>2, <1>3, <2>1
  <2>2. CASE hops # 0
    BY <1>1, <1>2, <1>4, <1>5, <1>7, <2>2
  <2>3. QED BY <2>1, <2>2
<1>9. PICK c \in Nat : c = file.first
  BY <1>2
<1>10. PICK d \in Nat : d = file.cluster
  BY OpenFields
<1>11. \A i \in 0 .. Clusters - q : Chain(d)[i] = Chain(c)[q + i]
  <2>1. q \in 0 .. Clusters
    BY <1>1, <1>2, <1>3
  <2>2. \A i \in 0 .. Clusters - q : Chain(Chain(c)[q])[i] = Chain(c)[q + i]
    BY <2>1, ChainFrom
  <2>3. QED BY <2>2, <1>3, <1>9, <1>10
<1>12. \A i \in 0 .. hops : q + i <= Clusters /\ Chain(d)[i] = Chain(c)[q + i]
  <2>1. \A i \in 0 .. hops : i \in 0 .. Clusters - q
    BY <1>1, <1>2, <1>4, <1>8
  <2>2. QED BY <2>1, <1>1, <1>2, <1>4, <1>8, <1>11
<1>13. Reached(d, hops) = hops
  <2>1. hops \in 0 .. Clusters
    BY <1>1, <1>2, <1>4, <1>8
  <2>2. ASSUME NEW i \in 1 .. hops PROVE Chain(d)[i] \in Cluster
    <3>1. hops # 0 /\ i \in 0 .. hops /\ q + i \in 0 .. q + hops
      BY <1>2, <1>4
    <3>2. q + i \in 0 .. need - 1
      BY <1>2, <1>4, <1>5, <1>7, <3>1
    <3>3. QED BY <1>5, <1>9, <1>12, <3>1, <3>2
  <2>3. QED BY <2>1, <2>2, ReachedAll
<1>14. QED BY <1>7, <1>9, <1>10, <1>12, <1>13 DEF q, hops, part, need

\* Up to the end of the cluster it is in, the bytes from there on are those of the file.
LEMMA PlaceWithin ==
    ASSUME NEW file \in FileOpen, At(file), NEW j \in 0 .. ClusterSize - file.within - 1
    PROVE  Address(file.cluster) + file.within + j = Place(file, file.pos + j)
<1> DEFINE q == file.pos \div ClusterSize
           r == file.pos % ClusterSize
<1>1. ClusterSize \in Nat \ {0}
  BY Parameters
<1>2. q \in Nat /\ r \in 0 .. ClusterSize - 1 /\ file.pos = q * ClusterSize + r
      /\ file.pos \in Nat /\ file.cluster \in Nat
  BY OpenFields
<1>3. file.within = r /\ file.cluster = Chain(file.first)[q]
  BY DEF At
<1> HIDE DEF q, r
<1>4. r + j \in 0 .. ClusterSize - 1 /\ j \in Nat
  BY <1>1, <1>2, <1>3
<1>5. PICK s \in 0 .. ClusterSize - 1 : s = r + j
  BY <1>4
<1>6. (q * ClusterSize + s) \div ClusterSize = q /\ (q * ClusterSize + s) % ClusterSize = s
  BY <1>1, <1>2, DivUnique
<1>7. q * ClusterSize \in Int
  BY <1>1, <1>2
<1>8. file.pos + j = q * ClusterSize + s
  BY <1>1, <1>2, <1>4, <1>5, <1>7
<1>9. Place(file, file.pos + j) = Address(file.cluster) + s
  BY <1>3, <1>6, <1>8 DEF Place
<1>10. Address(file.cluster) \in Int
  BY <1>2, Addresses, 0 \in Nat
<1>11. QED BY <1>1, <1>2, <1>3, <1>4, <1>5, <1>9, <1>10

\* A read of a handle that is where its members say gets the bytes of its position.
LEMMA ExactReads ==
    ASSUME fat \in [Cluster -> Entry], NEW file \in FileOpen, Whole(file), At(file),
           fh = Address(file.cluster) + file.within,
           NEW len \in Nat, file.pos + len <= file.size
    PROVE  /\ Reached(file.cluster, Hops(file, len)) = Hops(file, len)
           /\ \A j \in 0 .. len - 1 : ReadFrom(file, len, j) = Place(file, file.pos + j)
<1> DEFINE q    == file.pos \div ClusterSize
           r    == file.pos % ClusterSize
           part == FirstPart(file, len)
           hops == Hops(file, len)
<1>1. ClusterSize \in Nat \ {0}
  BY Parameters
<1>2. q \in Nat /\ r \in 0 .. ClusterSize - 1 /\ file.pos = q * ClusterSize + r
      /\ file.pos \in Nat /\ file.cluster \in Nat
  BY OpenFields
<1>3. file.within = r
  BY DEF At
<1>4. /\ part \in 0 .. len /\ part <= ClusterSize - file.within
      /\ hops \in Nat
      /\ \A k \in Nat : hops <= k <=> len - part <= k * ClusterSize
  BY PartsShape
<1>5. /\ hops # 0 => part = ClusterSize - file.within
      /\ \A i \in 0 .. hops : Chain(file.cluster)[i] = Chain(file.first)[q + i]
      /\ Reached(file.cluster, hops) = hops
  BY PiecesReached
<1>6. ASSUME NEW j \in 0 .. len - 1 PROVE ReadFrom(file, len, j) = Place(file, file.pos + j)
  <2> DEFINE k == j - part
  <2>1. ReadFrom(file, len, j)
            = IF k < 0 THEN fh + j
              ELSE Address(Chain(file.cluster)[1 + k \div ClusterSize]) + (k % ClusterSize)
    BY DEF ReadFrom
  <2> HIDE DEF q, r, part, hops
  <2>2. CASE k < 0
    <3>1. j \in 0 .. ClusterSize - file.within - 1
      BY <1>1, <1>2, <1>3, <1>4, <2>2
    <3>2. QED BY <2>1, <2>2, <3>1, PlaceWithin
  <2>3. CASE ~(k < 0)
    <3>1. k \in Nat /\ j = part + k
      BY <1>4, <2>3
    <3> HIDE DEF k
    <3> DEFINE d == k \div ClusterSize
               m == k % ClusterSize
    <3>2. d \in Nat /\ m \in 0 .. ClusterSize - 1 /\ k = d * ClusterSize + m
      BY <1>1, <3>1, DivMod
    <3> HIDE DEF d, m
    <3>3. d * ClusterSize \in Nat
      BY <1>1, <3>2
    <3>4. len - part > d * ClusterSize
      BY <1>1, <1>4, <3>1, <3>2, <3>3
    <3>5. d < hops
      BY <1>4, <3>2, <3>3, <3>4
    <3>6. part = ClusterSize - file.within
      BY <1>4, <1>5, <3>2, <3>5
    <3>7. 1 + d \in 0 .. hops
      BY <1>4, <3>2, <3>5
    <3>8. Chain(file.cluster)[1 + d] = Chain(file.first)[q + (1 + d)]
      BY <1>5, <3>7
    <3>9. PICK e \in Nat : e = q + (1 + d)
      BY <1>2, <3>2
    <3>10. e * ClusterSize = q * ClusterSize + (ClusterSize + d * ClusterSize)
      <4>1. (q + (1 + d)) * ClusterSize = q * ClusterSize + (1 + d) * ClusterSize
        BY <1>1, <1>2, <3>2, Multiples
      <4>2. (1 + d) * ClusterSize = ClusterSize + d * ClusterSize
        BY <1>1, <3>2
      <4>3. QED BY <3>9, <4>1, <4>2
    <3>11. q * ClusterSize \in Int /\ e * ClusterSize \in Int
      BY <1>1, <1>2, <3>9
    <3>12. file.pos + j = e * ClusterSize + m
      BY <1>1, <1>2, <1>3, <3>1, <3>2, <3>3, <3>6, <3>10, <3>11
    <3>13. (e * ClusterSize + m) \div ClusterSize = e /\ (e * ClusterSize + m) % ClusterSize = m
      BY <1>1, <3>2, <3>9, DivUnique
    <3>14. Place(file, file.pos + j) = Address(Chain(file.first)[e]) + m
      BY <3>12, <3>13 DEF Place
    <3>15. ReadFrom(file, len, j) = Address(Chain(file.cluster)[1 + d]) + m
      BY <2>1, <2>3 DEF d, m
    <3>16. QED BY <3>8, <3>9, <3>14, <3>15
  <2>4. QED BY <2>2, <2>3
<1>7. QED BY <1>5, <1>6

\* What was opened or positioned is transferred right.
LEMMA TransfersPlaced == TypeOK /\ PlaceInv => PlacedTransfers
<1> SUFFICES ASSUME TypeOK, PlaceInv, owner # None, placed
             PROVE  LET file == handle[owner]
                    IN  /\ Whole(file) => \A n \in Counts : ReadsRight(file, n)
                        /\ file.size > 0 =>
                               \A j \in 0 .. ClusterSize - file.within - 1 :
                                   Start(file) + j = Place(file, file.pos + j)
  BY DEF PlacedTransfers
<1>1. owner \in Handle /\ handle[owner].open
  BY DEF TypeOK, PlaceInv, Positioned
<1>2. PICK file \in FileOpen : file = handle[owner]
  BY <1>1, OpenHandle
<1>3. At(file) /\ fh = Address(file.cluster) + file.within /\ file.pos <= file.size
  BY <1>2 DEF PlaceInv, Positioned, Exact
<1>4. ASSUME Whole(file), NEW n \in Counts PROVE ReadsRight(file, n)
  <2>1. n \in Nat
    BY Parameters
  <2>2. PICK len \in Nat : len = Length(file, n) /\ file.pos + len <= file.size
    BY <1>3, <2>1, LengthShape
  <2>3. /\ Reached(file.cluster, Hops(file, len)) = Hops(file, len)
        /\ \A j \in 0 .. len - 1 : ReadFrom(file, len, j) = Place(file, file.pos + j)
    BY <1>3, <1>4, <2>2, ExactReads DEF TypeOK
  <2>4. QED BY <2>2, <2>3 DEF ReadsRight
<1>5. ASSUME file.size > 0, NEW j \in 0 .. ClusterSize - file.within - 1
      PROVE  Start(file) + j = Place(file, file.pos + j)
  <2>1. file.size # 0
    BY <1>5, OpenFields
  <2>2. Start(file) = fh
    BY <2>1 DEF Start
  <2>3. Address(file.cluster) + file.within + j = Place(file, file.pos + j)
    BY <1>3, PlaceWithin
  <2>4. QED BY <1>3, <2>2, <2>3
<1>6. QED BY <1>2, <1>4, <1>5

\* Where the clusters follow each other, so do the bytes.
LEMMA PlaceInRow ==
    ASSUME NEW file \in FileOpen, Whole(file), Contiguous(file),
           NEW p \in Nat, p < file.size
    PROVE  Place(file, p) = Address(file.first) + p
<1>1. ClusterSize \in Nat \ {0}
  BY Parameters
<1>2. PICK q \in Nat, r \in Nat :
          q = p \div ClusterSize /\ r = p % ClusterSize /\ p = q * ClusterSize + r
  <2>1. /\ p \div ClusterSize \in Nat /\ p % ClusterSize \in 0 .. ClusterSize - 1
        /\ p = (p \div ClusterSize) * ClusterSize + (p % ClusterSize)
    BY <1>1, DivMod
  <2>2. p % ClusterSize \in Nat
    BY <1>1, <2>1
  <2>3. QED BY <2>1, <2>2
<1>3. q * ClusterSize \in Int
  BY <1>1
<1>4. file.size \in Nat /\ file.first \in Nat
  BY OpenFields
<1>5. q * ClusterSize < file.size
  BY <1>2, <1>3, <1>4
<1>6. Chain(file.first)[q] = file.first + q
  BY <1>5, NeededShape DEF Contiguous
<1>7. Address(file.first + q) = Address(file.first) + q * ClusterSize
      /\ Address(file.first) \in Int
  BY <1>4, Addresses
<1>8. Place(file, p) = Address(file.first + q) + r
  BY <1>2, <1>6 DEF Place
<1>9. QED BY <1>2, <1>3, <1>7, <1>8

\* A file whose clusters follow each other is read right from where fh was left.
LEMMA ReadsInRow == TypeOK /\ PlaceInv => SequentialReads
<1> SUFFICES ASSUME TypeOK, PlaceInv, owner # None,
                    Whole(handle[owner]), Contiguous(handle[owner]),
                    NEW n \in Counts, n <= ClusterSize
             PROVE  ReadsRight(handle[owner], n)
  BY DEF SequentialReads
<1>1. owner \in Handle /\ handle[owner].open
  BY DEF TypeOK, PlaceInv, Positioned
<1>2. PICK file \in FileOpen : file = handle[owner]
  BY <1>1, OpenHandle
<1>3. /\ Whole(file) /\ Contiguous(file) /\ file.pos <= file.size /\ file.first >= 2
      /\ fh = Address(file.first) + file.pos
      /\ file.within # 0 => At(file)
  BY <1>2 DEF PlaceInv, Positioned, Onward
<1>4. PICK len \in Nat : len = Length(file, n) /\ len <= n /\ file.pos + len <= file.size
  BY <1>3, LengthShape, Parameters
<1>5. ClusterSize \in Nat \ {0} /\ n \in Nat /\ Clusters \in Nat
  BY Parameters
<1>6. /\ file.pos \in Nat /\ file.size \in Nat /\ file.first \in Nat /\ file.cluster \in Nat
      /\ file.within \in 0 .. ClusterSize - 1
  BY OpenFields
<1>7. CASE file.within = 0
  <2>1. /\ FirstPart(file, len) \in 0 .. len
        /\ len < ClusterSize - file.within => FirstPart(file, len) = len
        /\ len >= ClusterSize - file.within => FirstPart(file, len) = ClusterSize - file.within
        /\ Hops(file, len) \in Nat
        /\ Hops(file, len) <= 0 <=> len - FirstPart(file, len) <= 0 * ClusterSize
    BY PartsShape, 0 \in Nat
  <2>2. FirstPart(file, len) = len /\ 0 * ClusterSize = 0
    BY <1>4, <1>5, <1>7, <2>1
  <2>3. Hops(file, len) = 0
    BY <1>4, <2>1, <2>2
  <2>4. Reached(file.cluster, 0) = 0
    <3>1. PICK d \in Nat : d = file.cluster
      BY <1>6
    <3>2. Reached(d, 0) \in 0 .. 0
      BY <3>1, ReachedShape, 0 \in Nat DEF TypeOK
    <3>3. QED BY <3>1, <3>2
  <2>5. ASSUME NEW j \in 0 .. len - 1 PROVE ReadFrom(file, len, j) = Place(file, file.pos + j)
    <3>1. j - len < 0 /\ file.pos + j \in Nat /\ file.pos + j < file.size
      BY <1>4, <1>6
    <3>2. ReadFrom(file, len, j) = fh + j
      BY <2>2, <3>1 DEF ReadFrom
    <3>3. Place(file, file.pos + j) = Address(file.first) + (file.pos + j)
      BY <1>3, <3>1, PlaceInRow
    <3>4. Address(file.first) \in Int
      BY <1>6, Addresses, 0 \in Nat
    <3>5. QED BY <1>3, <1>4, <1>6, <3>2, <3>3, <3>4
  <2>6. QED BY <1>2, <1>4, <2>3, <2>4, <2>5 DEF ReadsRight
<1>8. CASE file.within # 0
  <2>1. At(file)
    BY <1>3, <1>8
  <2>2. fh = Address(file.cluster) + file.within
    <3>1. PICK q \in Nat, r \in 0 .. ClusterSize - 1 :
              /\ q = file.pos \div ClusterSize /\ r = file.pos % ClusterSize
              /\ file.pos = q * ClusterSize + r
      BY OpenFields
    <3>2. file.pos = 0 => r = 0
      <4>1. file.pos = 0 => file.pos % ClusterSize = 0
        BY <1>5
      <4>2. QED BY <3>1, <4>1
    <3>3. file.within = r /\ file.cluster = Chain(file.first)[q] /\ q <= Clusters
      BY <2>1, <3>1 DEF At
    <3>4. q * ClusterSize < file.size
      <4>1. q * ClusterSize \in Nat
        BY <1>5
      <4>2. file.pos = q * ClusterSize + r
        BY <3>1
      <4>3. file.pos <= file.size /\ r > 0
        BY <1>3, <1>5, <1>8, <3>3
      <4>4. QED BY <1>6, <4>1, <4>2, <4>3
    <3>5. Chain(file.first)[q] = file.first + q
      BY <1>3, <3>4, NeededShape DEF Contiguous
    <3>6. Address(file.first + q) = Address(file.first) + q * ClusterSize
          /\ Address(file.first) \in Int
      BY <1>6, Addresses
    <3>7. q * ClusterSize \in Int
      BY <1>5
    <3>8. fh = Address(file.first) + (q * ClusterSize + r)
      <4>1. file.pos = q * ClusterSize + r
        BY <3>1
      <4>2. QED BY <1>3, <4>1
    <3>9. Address(file.cluster) = Address(file.first) + q * ClusterSize
      BY <3>3, <3>5, <3>6
    <3>10. QED BY <3>3, <3>6, <3>7, <3>8, <3>9
  <2>3. /\ Reached(file.cluster, Hops(file, len)) = Hops(file, len)
        /\ \A j \in 0 .. len - 1 : ReadFrom(file, len, j) = Place(file, file.pos + j)
    BY <1>3, <1>4, <2>1, <2>2, ExactReads DEF TypeOK
  <2>4. QED BY <1>2, <1>4, <2>3 DEF ReadsRight
<1>9. QED BY <1>7, <1>8

--------------------------------------------------------------------------------

\* A read of at most a cluster leaves the handle where it may be read on.
LEMMA ReadOn ==
    ASSUME TypeOK, NEW file \in FileOpen, NEW exactly, Positioned(file, fh, exactly),
           NEW len \in Nat, file.pos + len <= file.size, len <= ClusterSize,
           NEW new \in FileOpen, NEW at,
           new.first = file.first, new.size = file.size, new.pos = file.pos + len,
           LET part  == FirstPart(file, len)
               hops  == Hops(file, len)
               piece == len - part - (hops - 1) * ClusterSize
           IN  /\ hops = 0 => new.within = 0 /\ at = Advance(fh, part)
               /\ hops # 0 => /\ new.within = piece % ClusterSize
                              /\ new.cluster = Chain(file.cluster)[hops]
                              /\ at = Address(new.cluster) + piece
    PROVE  Positioned(new, at, FALSE)
<1> DEFINE part == FirstPart(file, len)
           hops == Hops(file, len)
<1>1. ClusterSize \in Nat \ {0} /\ Clusters \in Nat
  BY Parameters
<1>2. /\ new.open /\ new.pos <= new.size /\ new.first >= 2
      /\ file.pos \in Nat /\ file.size \in Nat /\ file.first \in Nat
      /\ file.within \in 0 .. ClusterSize - 1
  BY OpenFields DEF Positioned
<1>3. /\ part \in 0 .. len
      /\ len < ClusterSize - file.within => part = len
      /\ len >= ClusterSize - file.within => part = ClusterSize - file.within
      /\ hops \in Nat
      /\ \A k \in Nat : hops <= k <=> len - part <= k * ClusterSize
  BY PartsShape
<1>4. SUFFICES ASSUME Whole(new), Contiguous(new)
               PROVE  at = Address(new.first) + new.pos /\ (new.within # 0 => At(new))
  BY <1>2 DEF Positioned, Onward
<1>5. Whole(file) /\ Contiguous(file)
  BY <1>4 DEF Whole, Contiguous, Needed
<1>6. fh = Address(file.first) + file.pos /\ (file.within # 0 => At(file))
  BY <1>5 DEF Positioned, Onward
<1>7. /\ hops = 0 => new.within = 0 /\ at = Advance(fh, part)
      /\ hops # 0 => /\ new.within = (len - part - (hops - 1) * ClusterSize) % ClusterSize
                     /\ new.cluster = Chain(file.cluster)[hops]
                     /\ at = Address(new.cluster) + (len - part - (hops - 1) * ClusterSize)
  OBVIOUS
<1>8. Address(file.first) \in Int /\ Address(file.first) >= 0
  BY <1>2, Addresses, 0 \in Nat
<1> HIDE DEF part, hops
<1>9. CASE hops = 0
  <2>1. hops <= 0 /\ 0 * ClusterSize = 0
    BY <1>1, <1>9
  <2>2. len - part <= 0
    BY <1>3, <2>1
  <2>3. part = len
    BY <1>3, <2>2
  <2>4. at = fh + len
    BY <1>2, <1>6, <1>7, <1>8, <1>9, <2>3 DEF Advance, Elsewhere
  <2>5. QED BY <1>2, <1>6, <1>7, <1>8, <1>9, <2>4
<1>10. CASE hops # 0
  <2> DEFINE piece == len - part
  <2>1. hops <= 1 /\ ~(hops <= 0)
    <3>1. 1 * ClusterSize = ClusterSize /\ len - part <= ClusterSize
      BY <1>1, <1>3
    <3>2. hops <= 1
      BY <1>3, <3>1
    <3>3. QED BY <1>3, <1>10, <3>2
  <2>2. hops = 1
    BY <1>3, <2>1
  <2>3. ~(len - part <= 0)
    <3>1. 0 * ClusterSize = 0
      BY <1>1
    <3>2. QED BY <1>3, <2>1, <3>1
  <2>4. part = ClusterSize - file.within /\ file.within # 0
    BY <1>1, <1>2, <1>3, <2>3
  <2>5. At(file)
    BY <1>6, <2>4
  <2>6. piece \in 1 .. ClusterSize - 1
    BY <1>1, <1>2, <1>3, <2>3, <2>4
  <2>7. len - part - (hops - 1) * ClusterSize = piece
    <3>1. (1 - 1) * ClusterSize = 0
      BY <1>1
    <3>2. QED BY <1>3, <2>2, <3>1
  <2> HIDE DEF piece
  <2>8. PICK p \in 1 .. ClusterSize - 1 : p = piece /\ file.pos + len = file.pos + part + p
    BY <1>2, <1>3, <2>6 DEF piece
  <2>9. p % ClusterSize = p
    BY <1>1
  <2>10. new.within = p /\ new.cluster = Chain(file.cluster)[1] /\ at = Address(new.cluster) + p
    BY <1>7, <1>10, <2>2, <2>7, <2>8, <2>9
  <2>11. PICK q \in Nat, r \in 0 .. ClusterSize - 1 :
              /\ q = file.pos \div ClusterSize /\ r = file.pos % ClusterSize
              /\ file.pos = q * ClusterSize + r
    BY OpenFields
  <2>12. /\ q + 1 \in 0 .. Needed(file) - 1 /\ q + 1 <= Clusters
         /\ Chain(file.cluster)[1] = Chain(file.first)[q + 1]
    <3>1. 1 \in 0 .. hops /\ hops = 1
      BY <2>2
    <3>2. LET e == file.pos \div ClusterSize
          IN  /\ hops # 0 => e + hops \in 0 .. Needed(file) - 1
              /\ \A i \in 0 .. hops :
                    e + i <= Clusters /\ Chain(file.cluster)[i] = Chain(file.first)[e + i]
      BY <1>5, <2>5, PiecesReached DEF hops, TypeOK
    <3>3. QED BY <2>11, <3>1, <3>2
  <2>13. Chain(file.first)[q + 1] = file.first + (q + 1)
    BY <1>5, <2>12 DEF Contiguous
  <2>14. PICK e \in Nat : e = q + 1
    OBVIOUS
  <2>15. e * ClusterSize = q * ClusterSize + ClusterSize
    BY <1>1, <2>14, Multiples
  <2>16. q * ClusterSize \in Int /\ e * ClusterSize \in Int
    BY <1>1
  <2>17. new.pos = e * ClusterSize + p
    <3>1. file.within = r /\ file.pos = q * ClusterSize + r
      BY <2>5, <2>11 DEF At
    <3>2. QED BY <1>1, <1>2, <2>4, <2>8, <2>15, <2>16, <3>1
  <2>18. (e * ClusterSize + p) \div ClusterSize = e /\ (e * ClusterSize + p) % ClusterSize = p
    BY <1>1, DivUnique
  <2>19. At(new)
    BY <2>10, <2>12, <2>14, <2>17, <2>18 DEF At
  <2>20. Address(file.first + e) = Address(file.first) + e * ClusterSize
    BY <1>2, Addresses
  <2>21. at = Address(new.first) + new.pos
    <3>1. at = Address(file.first + e) + p
      BY <2>10, <2>12, <2>13, <2>14
    <3>2. QED BY <1>8, <2>16, <2>17, <2>20, <3>1
  <2>22. QED BY <2>19, <2>21
<1>11. QED BY <1>9, <1>10

\* Places depend on the table and on the handle only.
LEMMA SamePlace ==
    ASSUME fat' = fat, NEW file, NEW at, NEW exactly, Positioned(file, at, exactly)
    PROVE  Positioned(file, at, exactly)'
<1>1. \A c : Chain(c)' = Chain(c)
  BY DEF Chain
<1>2. QED
  BY <1>1 DEF Positioned, Exact, Onward, At, Whole, Contiguous, Needed, Address

\* Initially no handle has fh to itself.
LEMMA InitPlaceInv == Init => PlaceInv
BY DEF Init, PlaceInv

\* Every step preserves it.
LEMMA NextPlaceInv == TypeOK /\ PlaceInv /\ [Next]_vars => PlaceInv'
<1> SUFFICES ASSUME TypeOK, PlaceInv, [Next]_vars PROVE PlaceInv'
  OBVIOUS
<1>1. ClusterSize \in Nat \ {0} /\ Clusters \in Nat \ {0} /\ None \notin Handle
  BY Parameters
<1>2. ASSUME fat' = fat, NEW file, NEW h \in Handle, NEW at, NEW e,
             owner' = h, handle'[h] = file, fh' = at, placed' = e, Positioned(file, at, e)
      PROVE  PlaceInv'
  <2>1. Positioned(file, at, e)'
    BY <1>2, SamePlace
  <2>2. PICK h1, f1, at1, e1 : h1 = owner' /\ f1 = handle'[h1] /\ at1 = fh' /\ e1 = placed'
    OBVIOUS
  <2>3. h1 = h /\ f1 = file /\ at1 = at /\ e1 = e
    BY <1>2, <2>2
  <2>4. Positioned(handle[owner], fh, placed)'
    BY <1>2, <2>1 DEF Positioned, Exact, Onward, At, Whole, Contiguous, Needed
  <2>5. QED BY <2>4 DEF PlaceInv
<1>3. CASE UNCHANGED <<fat, handle, fh, owner, placed>>
  <2>1. CASE owner = None
    BY <1>3, <2>1 DEF PlaceInv
  <2>2. CASE owner # None
    <3>1. PICK h, file, at, e :
              h = owner /\ file = handle[h] /\ at = fh /\ e = placed
      OBVIOUS
    <3>2. h \in Handle /\ Positioned(file, at, e)
      BY <2>2, <3>1 DEF PlaceInv, TypeOK
    <3>3. QED BY <1>2, <1>3, <3>1, <3>2
  <2>3. QED BY <2>1, <2>2
<1>4. ASSUME owner' = None PROVE PlaceInv'
  BY <1>4 DEF PlaceInv
<1>5. ASSUME NEW h \in Handle, NEW f \in File, Open(h, f) PROVE PlaceInv'
  <2>1. CASE dir[f].first < 2
    BY <1>4, <1>5, <2>1 DEF Open, Owns
  <2>2. CASE ~(dir[f].first < 2)
    <3>0. PICK c \in Nat : c = dir[f].first
      BY DEF TypeOK
    <3>1. PICK new : new = Opened(f) /\ c = dir[f].first
      BY <3>0
    <3>2. c >= 2 /\ c # 1
      BY <2>2, <3>1
    <3>3. /\ fat' = fat /\ owner' = h /\ placed' = TRUE /\ fh' = Address(c)
          /\ handle'[h] = new
      BY <1>5, <2>2, <3>1, <3>2 DEF Open, Owns, TypeOK
    <3>4. new \in FileOpen
      BY <1>1, <3>1 DEF Opened, FileOpen, TypeOK
    <3>5. /\ new.pos = 0 /\ new.within = 0 /\ new.first = c /\ new.cluster = c
      BY <3>1 DEF Opened
    <3>6. Chain(c)[0] = c
      BY ChainShape DEF TypeOK
    <3>7. 0 \div ClusterSize = 0 /\ 0 % ClusterSize = 0
      BY <1>1
    <3>8. Address(c) \in Int
      BY Addresses, 0 \in Nat
    <3>9. Exact(new, Address(c))
      BY <1>1, <3>5, <3>6, <3>7, <3>8 DEF Exact, At
    <3>10. Positioned(new, Address(c), TRUE)
      <4>1. new.open /\ new.size >= 0
        BY <3>4, OpenFields
      <4>2. Onward(new, Address(c))
        BY <3>4, <3>9, ExactOnward DEF TypeOK
      <4>3. QED BY <3>2, <3>5, <3>9, <4>1, <4>2 DEF Positioned
    <3>11. PICK at : at = Address(c)
      OBVIOUS
    <3>12. QED BY <1>2, <3>3, <3>10, <3>11
  <2>3. QED BY <2>1, <2>2
<1>6. ASSUME NEW h \in Handle, NEW p \in 0 .. MaxSize, Seek(h, p) PROVE PlaceInv'
  <2>1. handle[h].open
    BY <1>6 DEF Seek
  <2>2. PICK file \in FileOpen : file = handle[h]
    BY <2>1, OpenHandle
  <2>3. PICK first \in Nat, hops \in Nat : first = file.first /\ hops = p \div ClusterSize
    <3>1. p \in Nat
      BY Parameters
    <3>2. p \div ClusterSize \in Nat
      BY <1>1, <3>1, DivMod
    <3>3. file.first \in Nat
      BY OpenFields
    <3>4. QED BY <3>2, <3>3
  <2>4. PICK k, c : k = Reached(first, hops) /\ c = Chain(first)[k]
    OBVIOUS
  <2>5. c \in Nat /\ k \in 0 .. hops /\ k <= Clusters
    BY <2>4, ReachedEntry, ReachedShape DEF TypeOK
  <2>6. CASE p = file.pos \/ (p > 0 /\ p >= file.size)
    BY <1>3, <1>6, <2>2, <2>6 DEF Seek
  <2>7. CASE ~(p = file.pos \/ (p > 0 /\ p >= file.size)) /\ (k < hops \/ c < 2)
    BY <1>4, <1>6, <2>2, <2>3, <2>4, <2>7 DEF Seek, Owns
  <2>8. CASE ~(p = file.pos \/ (p > 0 /\ p >= file.size)) /\ ~(k < hops \/ c < 2)
    <3>1. PICK new, at : /\ new = [file EXCEPT !.pos = p, !.within = Within(p), !.cluster = c]
                         /\ at = Address(c) + Within(p)
      OBVIOUS
    <3>2. /\ fat' = fat /\ owner' = h /\ placed' = TRUE /\ fh' = at
          /\ handle'[h] = new
      BY <1>6, <2>2, <2>3, <2>4, <2>8, <3>1 DEF Seek, Owns, TypeOK
    <3>3. p \in Nat /\ Within(p) = p % ClusterSize /\ Within(p) \in 0 .. ClusterSize - 1
      BY <1>1, Parameters DEF Within
    <3>4. new \in FileOpen
      BY <2>5, <3>1, <3>3 DEF FileOpen
    <3>5. /\ new.pos = p /\ new.within = Within(p) /\ new.first = first /\ new.cluster = c
          /\ new.size = file.size
      BY <2>3, <3>1 DEF FileOpen
    <3>6. p = 0 \/ p < file.size
      BY <2>8, <3>3, OpenFields
    <3>7. k = hops
      BY <2>5, <2>8
    <3>8. Exact(new, at)
      BY <2>3, <2>4, <2>5, <3>1, <3>3, <3>5, <3>6, <3>7 DEF Exact, At
    <3>9. first >= 2
      <4>1. CASE hops = 0
        <5>1. Chain(first)[0] = first
          BY ChainShape DEF TypeOK
        <5>2. QED BY <2>4, <2>5, <2>8, <3>7, <4>1, <5>1
      <4>2. CASE hops # 0
        <5>1. Chain(first)[1] \in Cluster
          <6>1. \A i \in 1 .. k : Chain(first)[i] \in Cluster
            BY <2>4, ReachedShape DEF TypeOK
          <6>2. QED BY <3>7, <4>2, <6>1
        <5>2. Chain(first)[1] = IF Chain(first)[0] \in Cluster THEN fat[Chain(first)[0]] ELSE 0
          <6>1. 1 \in 1 .. Clusters /\ 1 - 1 = 0
            BY <1>1
          <6>2. QED BY <6>1, ChainShape DEF TypeOK
        <5>3. Chain(first)[0] = first
          BY ChainShape DEF TypeOK
        <5>4. first \in Cluster
          BY <5>1, <5>2, <5>3, Parameters
        <5>5. QED BY <5>4 DEF Cluster
      <4>3. QED BY <4>1, <4>2
    <3>10. Positioned(new, at, TRUE)
      <4>1. new.open /\ new.pos <= new.size
        BY <3>3, <3>4, <3>5, <3>6, OpenFields
      <4>2. Onward(new, at)
        BY <3>4, <3>8, ExactOnward DEF TypeOK
      <4>3. QED BY <3>5, <3>8, <3>9, <4>1, <4>2 DEF Positioned
    <3>11. QED BY <1>2, <3>2, <3>10
  <2>9. QED BY <2>6, <2>7, <2>8
<1>7. ASSUME NEW h \in Handle, NEW n \in Counts, Read(h, n) PROVE PlaceInv'
  <2>1. handle[h].open
    BY <1>7 DEF Read
  <2>2. PICK file \in FileOpen : file = handle[h]
    BY <2>1, OpenHandle
  <2>3. PICK len \in Nat : len = Length(file, n)
    BY LengthShape, Parameters
  <2>4. PICK part, hops, found, c :
            /\ part = FirstPart(file, len) /\ hops = Hops(file, len)
            /\ found = Reached(file.cluster, hops) /\ c = Chain(file.cluster)[found]
    OBVIOUS
  <2>5. CASE ~(owner = h /\ found = hops /\ len <= ClusterSize)
    BY <1>4, <1>7, <2>2, <2>3, <2>4, <2>5 DEF Read, Owns
  <2>6. CASE owner = h /\ found = hops /\ len <= ClusterSize
    <3> DEFINE piece == len - part - (hops - 1) * ClusterSize
               after == [file EXCEPT !.cluster = c, !.within = 0]
    <3>1. PICK new, at :
              /\ new = [after EXCEPT !.pos = @ + len,
                                     !.within = IF hops = 0 THEN 0 ELSE piece % ClusterSize]
              /\ at = IF hops = 0 THEN Advance(fh, part) ELSE Address(c) + piece
      OBVIOUS
    <3>2. hops \in Nat /\ part \in Nat
      BY <2>4, PartsShape
    <3>3. ~(found < hops)
      BY <2>6, <3>2
    <3>4. /\ fat' = fat /\ owner' = h /\ placed' = FALSE /\ fh' = at
          /\ handle'[h] = new
      BY <1>7, <2>2, <2>3, <2>4, <2>6, <3>1, <3>3 DEF Read, Owns, TypeOK
    <3>5. Positioned(file, fh, placed)
      BY <2>2, <2>6, <1>1 DEF PlaceInv
    <3>6. file.pos + len <= file.size
      BY <2>3, <3>5, LengthShape, Parameters DEF Positioned
    <3>7. /\ new.first = file.first /\ new.size = file.size /\ new.pos = file.pos + len
          /\ new.cluster = c
          /\ new.within = IF hops = 0 THEN 0 ELSE piece % ClusterSize
      BY <3>1 DEF FileOpen
    <3>8. new \in FileOpen
      <4>1. handle' \in [Handle -> {Closed} \cup FileOpen]
        BY NextTypeOK DEF TypeOK, Closed, FileOpen
      <4>2. new.open
        BY <3>1 DEF FileOpen
      <4>3. QED BY <3>4, <4>1, <4>2 DEF Closed
    <3>9. Positioned(new, at, FALSE)
      <4>1. /\ hops = 0 => new.within = 0 /\ at = Advance(fh, part)
            /\ hops # 0 => /\ new.within = piece % ClusterSize
                           /\ new.cluster = Chain(file.cluster)[hops]
                           /\ at = Address(new.cluster) + piece
        BY <2>4, <2>6, <3>1, <3>7
      <4>2. QED BY <2>4, <2>6, <3>5, <3>6, <3>7, <3>8, <4>1, ReadOn
    <3>10. QED BY <1>2, <3>4, <3>9
  <2>7. QED BY <2>5, <2>6
<1>8. ASSUME NEW h \in Handle, NEW n \in Counts, Write(h, n) PROVE PlaceInv'
  BY <1>4, <1>8 DEF Write, Owns
<1>9. CASE UNCHANGED vars
  BY <1>3, <1>9 DEF vars
<1>10. ASSUME WalkDirectory PROVE PlaceInv'
  BY <1>4, <1>10 DEF WalkDirectory, Owns
<1>11. ASSUME NEW h \in Handle, WriteFails(h) PROVE PlaceInv'
  BY <1>4, <1>11 DEF WriteFails, Owns
<1>12. QED BY <1>5, <1>6, <1>7, <1>8, <1>9, <1>10, <1>11 DEF Next

\* A transfer that follows upon the opening or positioning of its file, with nothing in
\* between, is made at that position: a read of any length over any chain of clusters, and
\* a write up to the end of the cluster.
THEOREM TransfersArePlaced == Spec => []PlacedTransfers
<1>1. Init => TypeOK /\ PlaceInv
  BY InitTypeOK, InitPlaceInv
<1>2. TypeOK /\ PlaceInv /\ [Next]_vars => TypeOK' /\ PlaceInv'
  BY NextTypeOK, NextPlaceInv
<1>3. TypeOK /\ PlaceInv => PlacedTransfers
  BY TransfersPlaced
<1>4. QED BY <1>1, <1>2, <1>3, PTL DEF Spec

\* A file whose clusters follow each other, read in pieces of at most a cluster from where
\* it was opened or positioned, is read right to its end, if nobody else uses the handle of
\* the partition meanwhile.
THEOREM ReadsAreSequential == Spec => []SequentialReads
<1>1. Init => TypeOK /\ PlaceInv
  BY InitTypeOK, InitPlaceInv
<1>2. TypeOK /\ PlaceInv /\ [Next]_vars => TypeOK' /\ PlaceInv'
  BY NextTypeOK, NextPlaceInv
<1>3. TypeOK /\ PlaceInv => SequentialReads
  BY ReadsInRow
<1>4. QED BY <1>1, <1>2, <1>3, PTL DEF Spec

--------------------------------------------------------------------------------
(* Searches, entry by entry and block by block *)

\* A search of a block goes through its entries.
ScansBlock(f, search, block, listed) ==
    /\ f[0] = Begin(listed)
    /\ \A i \in 1 .. Len(block) : f[i] = Step(search, f[i - 1], block[i])
    /\ ScanBlock(search, block, listed) = f[Len(block)]

\* The states of a search in a block follow from each other.
LEMMA ScanBlockIs ==
    ASSUME NEW search, NEW block, NEW listed, Len(block) \in Nat
    PROVE  \E f : ScansBlock(f, search, block, listed)
<1> DEFINE N == Len(block)
           Body(g) == [i \in 0 .. N |->
                          IF i = 0 THEN Begin(listed)
                          ELSE Step(search, g[i - 1], block[i])]
           Ok(g, n) == /\ g[0] = Begin(listed)
                       /\ \A i \in 1 .. n : g[i] = Step(search, g[i - 1], block[i])
           T == {n \in 0 .. N : \E g : Ok(g, n)}
<1>1. 0 \in T
  <2> DEFINE g == [i \in 0 .. 0 |-> Begin(listed)]
  <2>1. g[0] = Begin(listed)
    OBVIOUS
  <2> HIDE DEF g
  <2>2. QED BY <2>1
<1>2. ASSUME NEW n \in 1 .. N, n - 1 \in T PROVE n \in T
  <2>1. PICK g : Ok(g, n - 1)
    BY <1>2
  <2> DEFINE h == [i \in 0 .. n |-> IF i = n THEN Step(search, g[n - 1], block[n]) ELSE g[i]]
  <2>2. (\A i \in 0 .. n - 1 : h[i] = g[i]) /\ h[n] = Step(search, g[n - 1], block[n])
    OBVIOUS
  <2> HIDE DEF h
  <2>3. \A i \in 1 .. n : h[i] = Step(search, h[i - 1], block[i])
    <3>1. ASSUME NEW i \in 1 .. n - 1 PROVE h[i] = Step(search, h[i - 1], block[i])
      <4>1. i \in 0 .. n - 1 /\ i - 1 \in 0 .. n - 1
        OBVIOUS
      <4>2. QED BY <2>1, <2>2, <4>1
    <3>2. h[n] = Step(search, h[n - 1], block[n])
      BY <2>2
    <3>3. QED BY <3>1, <3>2
  <2>4. Ok(h, n)
    BY <2>1, <2>2, <2>3
  <2>5. QED BY <2>4
<1>3. PICK g : Ok(g, N)
  <2> HIDE DEF T
  <2>1. N \in T
    BY <1>1, <1>2, InductionFromTo
  <2>2. QED BY <2>1 DEF T
<1>4. PICK f : f = Body(f)
  <2> DEFINE h == [i \in 0 .. N |-> g[i]]
  <2>1. ASSUME NEW i \in 1 .. N PROVE g[i] = Step(search, h[i - 1], block[i])
    <3>1. i - 1 \in 0 .. N
      OBVIOUS
    <3>2. h[i - 1] = g[i - 1]
      BY <3>1
    <3>3. QED BY <1>3, <3>2
  <2>2. \A i \in 0 .. N : h[i] = Body(h)[i]
    BY <1>3, <2>1
  <2>3. QED BY <2>2
<1> DEFINE U == CHOOSE scan : scan = Body(scan)
<1>5. ScanBlock(search, block, listed) = U[N]
  BY DEF ScanBlock
<1>6. U = Body(U)
  <2> HIDE DEF Body
  <2>1. QED BY <1>4, Zenon
<1> HIDE DEF U
<1>7. U[0] = Begin(listed) /\ \A i \in 1 .. N : U[i] = Step(search, U[i - 1], block[i])
  <2>1. U = [i \in 0 .. N |-> IF i = 0 THEN Begin(listed) ELSE Step(search, U[i - 1], block[i])]
    BY <1>6
  <2> HIDE DEF Body
  <2>2. QED BY <2>1
<1>8. QED BY <1>5, <1>7 DEF ScansBlock

\* What the search of a block leads to after that of the one before.
ScanNext(search, s, block) ==
    IF Finished(s) THEN s ELSE ScanBlock(search, block, s.listed)

\* A search goes through the blocks, until one finds what is looked for.
LEMMA ScanIs ==
    ASSUME NEW search, NEW blocks, Len(blocks) \in Nat \ {0}
    PROVE  \E f : /\ f[1] = ScanBlock(search, blocks[1], << >>)
                  /\ \A i \in 2 .. Len(blocks) :
                        f[i] = ScanNext(search, f[i - 1], blocks[i])
                  /\ Scan(search, blocks) = f[Len(blocks)]
<1> DEFINE N == Len(blocks)
           Body(g) == [i \in 1 .. N |->
                          IF i = 1 THEN ScanBlock(search, blocks[1], << >>)
                          ELSE IF Finished(g[i - 1]) THEN g[i - 1]
                          ELSE ScanBlock(search, blocks[i], g[i - 1].listed)]
           Ok(g, n) == /\ g[1] = ScanBlock(search, blocks[1], << >>)
                       /\ \A i \in 2 .. n : g[i] = ScanNext(search, g[i - 1], blocks[i])
           T == {n \in 1 .. N : \E g : Ok(g, n)}
<1>1. 1 \in T
  <2> DEFINE g == [i \in 1 .. 1 |-> ScanBlock(search, blocks[1], << >>)]
  <2>1. g[1] = ScanBlock(search, blocks[1], << >>)
    OBVIOUS
  <2> HIDE DEF g
  <2>2. QED BY <2>1
<1>2. ASSUME NEW n \in 2 .. N, n - 1 \in T PROVE n \in T
  <2>1. PICK g : Ok(g, n - 1)
    BY <1>2
  <2> DEFINE h == [i \in 1 .. n |-> IF i = n THEN ScanNext(search, g[n - 1], blocks[n]) ELSE g[i]]
  <2>2. (\A i \in 1 .. n - 1 : h[i] = g[i]) /\ h[n] = ScanNext(search, g[n - 1], blocks[n])
    OBVIOUS
  <2> HIDE DEF h
  <2>3. \A i \in 2 .. n : h[i] = ScanNext(search, h[i - 1], blocks[i])
    <3>1. ASSUME NEW i \in 2 .. n - 1 PROVE h[i] = ScanNext(search, h[i - 1], blocks[i])
      <4>1. i \in 1 .. n - 1 /\ i - 1 \in 1 .. n - 1
        OBVIOUS
      <4>2. QED BY <2>1, <2>2, <4>1
    <3>2. h[n] = ScanNext(search, h[n - 1], blocks[n])
      BY <2>2
    <3>3. QED BY <3>1, <3>2
  <2>4. Ok(h, n)
    BY <2>1, <2>2, <2>3
  <2>5. QED BY <2>4
<1>3. PICK g : Ok(g, N)
  <2> HIDE DEF T
  <2>1. N \in T
    BY <1>1, <1>2, InductionFromTo
  <2>2. QED BY <2>1 DEF T
<1>4. PICK f : f = Body(f)
  <2> DEFINE h == [i \in 1 .. N |-> g[i]]
  <2>1. ASSUME NEW i \in 2 .. N PROVE g[i] = ScanNext(search, h[i - 1], blocks[i])
    <3>1. i - 1 \in 1 .. N
      OBVIOUS
    <3>2. h[i - 1] = g[i - 1]
      BY <3>1
    <3>3. QED BY <1>3, <3>2
  <2> DEFINE B == Body(h)
  <2>2. \A i \in 1 .. N : h[i] = B[i]
    BY <1>3, <2>1 DEF ScanNext
  <2>3. h = [i \in 1 .. N |-> h[i]] /\ B = [i \in 1 .. N |-> B[i]]
    OBVIOUS
  <2>4. h = B
    <3> HIDE DEF h, B
    <3>1. QED BY <2>2, <2>3
  <2>5. QED BY <2>4
<1> DEFINE U == CHOOSE scan : scan = Body(scan)
<1>5. Scan(search, blocks) = U[N]
  BY DEF Scan
<1>6. U = Body(U)
  <2> HIDE DEF Body
  <2>1. QED BY <1>4, Zenon
<1> HIDE DEF U
<1>7. /\ U[1] = ScanBlock(search, blocks[1], << >>)
      /\ \A i \in 2 .. N : U[i] = ScanNext(search, U[i - 1], blocks[i])
  <2>1. U = [i \in 1 .. N |-> IF i = 1 THEN ScanBlock(search, blocks[1], << >>)
                             ELSE ScanNext(search, U[i - 1], blocks[i])]
    BY <1>6 DEF ScanNext
  <2> HIDE DEF Body
  <2>2. QED BY <2>1
<1>8. QED BY <1>5, <1>7

\* The entries of a directory up to an item, from those before it.
ConcatNext(entries, item) == entries \o ItemEntries(item)

\* The entries of the items of a directory follow each other.
LEMMA ConcatenatedIs ==
    ASSUME NEW items, Len(items) \in Nat
    PROVE  \E f : /\ f[0] = << >>
                  /\ \A i \in 1 .. Len(items) :
                        f[i] = ConcatNext(f[i - 1], items[i])
                  /\ Concatenated(items) = f[Len(items)]
<1> DEFINE N == Len(items)
           Body(g) == [i \in 0 .. N |->
                          IF i = 0 THEN << >>
                          ELSE ConcatNext(g[i - 1], items[i])]
           Ok(g, n) == /\ g[0] = << >>
                       /\ \A i \in 1 .. n : g[i] = ConcatNext(g[i - 1], items[i])
           T == {n \in 0 .. N : \E g : Ok(g, n)}
<1>1. 0 \in T
  <2> DEFINE g == [i \in 0 .. 0 |-> << >>]
  <2>1. g[0] = << >>
    OBVIOUS
  <2> HIDE DEF g
  <2>2. QED BY <2>1
<1>2. ASSUME NEW n \in 1 .. N, n - 1 \in T PROVE n \in T
  <2>1. PICK g : Ok(g, n - 1)
    BY <1>2
  <2> DEFINE h == [i \in 0 .. n |-> IF i = n THEN ConcatNext(g[n - 1], items[n]) ELSE g[i]]
  <2>2. (\A i \in 0 .. n - 1 : h[i] = g[i]) /\ h[n] = ConcatNext(g[n - 1], items[n])
    OBVIOUS
  <2> HIDE DEF h
  <2>3. \A i \in 1 .. n : h[i] = ConcatNext(h[i - 1], items[i])
    <3>1. ASSUME NEW i \in 1 .. n - 1 PROVE h[i] = ConcatNext(h[i - 1], items[i])
      <4>1. i \in 0 .. n - 1 /\ i - 1 \in 0 .. n - 1
        OBVIOUS
      <4>2. QED BY <2>1, <2>2, <4>1
    <3>2. h[n] = ConcatNext(h[n - 1], items[n])
      BY <2>2
    <3>3. QED BY <3>1, <3>2
  <2>4. Ok(h, n)
    BY <2>1, <2>2, <2>3
  <2>5. QED BY <2>4
<1>3. PICK g : Ok(g, N)
  <2> HIDE DEF T
  <2>1. N \in T
    BY <1>1, <1>2, InductionFromTo
  <2>2. QED BY <2>1 DEF T
<1>4. PICK f : f = Body(f)
  <2> DEFINE h == [i \in 0 .. N |-> g[i]]
  <2>1. ASSUME NEW i \in 1 .. N PROVE g[i] = ConcatNext(h[i - 1], items[i])
    <3>1. i - 1 \in 0 .. N
      OBVIOUS
    <3>2. h[i - 1] = g[i - 1]
      BY <3>1
    <3>3. QED BY <1>3, <3>2
  <2>2. \A i \in 0 .. N : h[i] = Body(h)[i]
    BY <1>3, <2>1
  <2>3. QED BY <2>2
<1> DEFINE U == CHOOSE upTo : upTo = Body(upTo)
<1>5. Concatenated(items) = U[N]
  BY DEF Concatenated, ConcatNext
<1>6. U = Body(U)
  <2> HIDE DEF Body
  <2>1. QED BY <1>4, Zenon
<1> HIDE DEF U
<1>7. U[0] = << >> /\ \A i \in 1 .. N : U[i] = ConcatNext(U[i - 1], items[i])
  <2>1. U = [i \in 0 .. N |-> IF i = 0 THEN << >> ELSE ConcatNext(U[i - 1], items[i])]
    BY <1>6
  <2> HIDE DEF Body
  <2>2. QED BY <2>1
<1>8. QED BY <1>5, <1>7

--------------------------------------------------------------------------------
(* Paths *)

\* An iterator follows a path name by name.
LEMMA FollowIs ==
    ASSUME NEW path, Len(path) \in Nat
    PROVE  \E f : /\ f[0] = << >>
                  /\ \A i \in 1 .. Len(path) :
                        f[i] = Walk(f[i - 1], path[i]).levels
                  /\ Follow(path) = f[Len(path)]
<1> DEFINE N == Len(path)
           Body(g) == [i \in 0 .. N |->
                          IF i = 0 THEN << >>
                          ELSE Walk(g[i - 1], path[i]).levels]
           Ok(g, n) == /\ g[0] = << >>
                       /\ \A i \in 1 .. n : g[i] = Walk(g[i - 1], path[i]).levels
           T == {n \in 0 .. N : \E g : Ok(g, n)}
<1>1. 0 \in T
  <2> DEFINE g == [i \in 0 .. 0 |-> << >>]
  <2>1. g[0] = << >>
    OBVIOUS
  <2> HIDE DEF g
  <2>2. QED BY <2>1
<1>2. ASSUME NEW n \in 1 .. N, n - 1 \in T PROVE n \in T
  <2>1. PICK g : Ok(g, n - 1)
    BY <1>2
  <2> DEFINE h == [i \in 0 .. n |-> IF i = n THEN Walk(g[n - 1], path[n]).levels ELSE g[i]]
  <2>2. (\A i \in 0 .. n - 1 : h[i] = g[i]) /\ h[n] = Walk(g[n - 1], path[n]).levels
    OBVIOUS
  <2> HIDE DEF h
  <2>3. \A i \in 1 .. n : h[i] = Walk(h[i - 1], path[i]).levels
    <3>1. ASSUME NEW i \in 1 .. n - 1 PROVE h[i] = Walk(h[i - 1], path[i]).levels
      <4>1. i \in 0 .. n - 1 /\ i - 1 \in 0 .. n - 1
        OBVIOUS
      <4>2. QED BY <2>1, <2>2, <4>1
    <3>2. h[n] = Walk(h[n - 1], path[n]).levels
      BY <2>2
    <3>3. QED BY <3>1, <3>2
  <2>4. Ok(h, n)
    BY <2>1, <2>2, <2>3
  <2>5. QED BY <2>4
<1>3. PICK g : Ok(g, N)
  <2> HIDE DEF T
  <2>1. N \in T
    BY <1>1, <1>2, InductionFromTo
  <2>2. QED BY <2>1 DEF T
<1>4. PICK f : f = Body(f)
  <2> DEFINE h == [i \in 0 .. N |-> g[i]]
  <2>1. ASSUME NEW i \in 1 .. N PROVE g[i] = Walk(h[i - 1], path[i]).levels
    <3>1. i - 1 \in 0 .. N
      OBVIOUS
    <3>2. h[i - 1] = g[i - 1]
      BY <3>1
    <3>3. QED BY <1>3, <3>2
  <2>2. \A i \in 0 .. N : h[i] = Body(h)[i]
    BY <1>3, <2>1
  <2>3. QED BY <2>2
<1> DEFINE U == CHOOSE upTo : upTo = Body(upTo)
<1>5. Follow(path) = U[N]
  BY DEF Follow
<1>6. U = Body(U)
  <2> HIDE DEF Body
  <2>1. QED BY <1>4, Zenon
<1> HIDE DEF U
<1>7. U[0] = << >> /\ \A i \in 1 .. N : U[i] = Walk(U[i - 1], path[i]).levels
  <2>1. U = [i \in 0 .. N |-> IF i = 0 THEN << >> ELSE Walk(U[i - 1], path[i]).levels]
    BY <1>6
  <2> HIDE DEF Body
  <2>2. QED BY <2>1
<1>8. QED BY <1>5, <1>7

--------------------------------------------------------------------------------
(* Entries, and the states of a search *)

\* The entries that may be in a directory, where directories lead to those of firsts.
Entries(firsts) ==
    [kind : {"long"}, name : STRING \ Hidden, ord : Int, last : BOOLEAN, sum : Int]
        \cup {e \in [kind : {"short"}, sum : Int, dir : BOOLEAN, first : Nat] :
                 e.dir => e.first \in firsts}
        \cup {Erased, End}

Found == (STRING \ Hidden) \cup {NoName}
Lists == Seq([name : Found, dir : BOOLEAN])

SearchState(firsts) ==
    [n : Int, sum : Int, long : BOOLEAN, found : Found, listed : Lists,
     at : {"scan", "match", "end", "thrown"}, entry : Entries(firsts)]

\* Where a search has a match, it has the name that is looked for.
Matched(search, s) ==
    s.at = "match" => s.entry.kind = "short" /\ s.found = search.wanted

\* A search begins in one of its states.
LEMMA BeginTyped ==
    ASSUME NEW firsts, NEW listed \in Lists, NEW search
    PROVE  Begin(listed) \in SearchState(firsts) /\ Matched(search, Begin(listed))
<1>1. End \in Entries(firsts)
  BY DEF Entries
<1>2. NoSum \in Int /\ NoName \in Found
  BY DEF NoSum, Found
<1>3. QED BY <1>1, <1>2 DEF Begin, SearchState, Matched

\* An entry takes it to another.
LEMMA StepTyped ==
    ASSUME NEW firsts, NEW search, NEW s \in SearchState(firsts), Matched(search, s),
           NEW e \in Entries(firsts)
    PROVE  /\ Step(search, s, e) \in SearchState(firsts)
           /\ Matched(search, Step(search, s, e))
<1> DEFINE S == SearchState(firsts)
           Good(u) == u \in S /\ Matched(search, u)
<1>1. ASSUME NEW u \in S, NEW how \in {"scan", "end", "thrown"} PROVE Good(Leave(u, how))
  <2>1. Leave(u, how) \in S
    BY <1>1 DEF Leave, SearchState
  <2>2. Leave(u, how).at = how
    BY <1>1 DEF Leave, SearchState
  <2>3. how # "match"
    BY <1>1
  <2>4. QED BY <2>1, <2>2, <2>3 DEF Matched
<1>2. CASE e.kind = "long"
  <2>1. e \in [kind : {"long"}, name : STRING \ Hidden, ord : Int, last : BOOLEAN, sum : Int]
    BY <1>2 DEF Entries, Erased, End
  <2>2. CASE s.at = "scan"
    <3> DEFINE n == (IF s.n = -1 THEN e.ord ELSE s.n) - 1
               sum == IF s.n = -1 THEN e.sum ELSE s.sum
               u == [s EXCEPT !.n = n, !.sum = sum, !.long = TRUE, !.found = e.name]
    <3>1. Good(u)
      <4>1. n \in Int /\ sum \in Int /\ e.name \in Found
        BY <2>1 DEF SearchState, Found
      <4> HIDE DEF n, sum
      <4>2. u \in S
        BY <4>1 DEF SearchState
      <4>3. u.at = "scan"
        BY <2>2 DEF SearchState
      <4>4. QED BY <4>2, <4>3 DEF Matched
    <3>2. ReadPiece(search, s, e) \in {u, Leave(s, "thrown")}
      BY DEF ReadPiece, SearchState
    <3>3. Step(search, s, e) \in {Leave(s, "thrown"), ReadPiece(search, s, e)}
      BY <1>2, <2>2 DEF Step
    <3> HIDE DEF u, Good
    <3>4. QED BY <1>1, <3>1, <3>2, <3>3 DEF Good
  <2>3. CASE s.at # "scan"
    BY <2>3 DEF Step
  <2>4. QED BY <2>2, <2>3
<1>3. CASE e.kind # "long" /\ s.at = "scan"
  <2> DEFINE reset == [s EXCEPT !.n = -1]
             u == [reset EXCEPT !.long = FALSE]
  <2>1. Good(reset) /\ Good(u) /\ u.at = "scan"
    <3>1. reset \in S /\ reset.at = "scan"
      BY <1>3 DEF SearchState
    <3> HIDE DEF reset
    <3>2. u \in S /\ u.at = "scan"
      BY <3>1 DEF SearchState
    <3>3. QED BY <3>1, <3>2 DEF Matched
  <2>2. e.kind \notin {"erased", "end"} => e.kind = "short"
    BY <1>3 DEF Entries, Erased, End
  <2>3. ASSUME e.kind = "short" PROVE Good(TakeEntry(search, u, e))
    <3>1. e \in [kind : {"short"}, sum : Int, dir : BOOLEAN, first : Nat]
      BY <2>3 DEF Entries, Erased, End
    <3> DEFINE v == [u EXCEPT !.listed = Append(@, [name |-> u.found, dir |-> e.dir])]
               w == [Leave(u, "match") EXCEPT !.entry = e]
    <3> HIDE DEF u
    <3>2. \/ TakeEntry(search, u, e) \in {u, v}
          \/ u.found = search.wanted /\ TakeEntry(search, u, e) = w
      BY DEF TakeEntry
    <3>3. Good(v)
      <4>1. [name |-> u.found, dir |-> e.dir] \in [name : Found, dir : BOOLEAN]
        BY <2>1, <3>1 DEF SearchState
      <4>2. u.listed \in Lists
        BY <2>1 DEF SearchState
      <4>3. Append(u.listed, [name |-> u.found, dir |-> e.dir]) \in Lists
        BY <4>1, <4>2 DEF Lists
      <4>4. QED BY <2>1, <4>3 DEF SearchState, Matched
    <3>4. u.found = search.wanted => Good(w)
      BY <2>1, <2>3 DEF SearchState, Matched, Leave
    <3> HIDE DEF v, w, Good
    <3>5. QED BY <2>1, <3>2, <3>3, <3>4
  <2>4. ReadEntry(search, s, e)
           \in {reset, Leave(reset, "end"), Leave(reset, "thrown"), TakeEntry(search, u, e)}
    BY DEF ReadEntry
  <2>5. ReadEntry(search, s, e) = TakeEntry(search, u, e) =>
           e.kind = "short" \/ Good(ReadEntry(search, s, e))
    <3>1. e.kind \in {"erased", "end"} =>
             ReadEntry(search, s, e) \in {reset, Leave(reset, "end")}
      BY DEF ReadEntry
    <3> HIDE DEF reset
    <3>2. Good(Leave(reset, "end"))
      BY <1>1, <2>1
    <3> HIDE DEF Good, u
    <3>3. QED BY <2>1, <2>2, <3>1, <3>2
  <2>6. Step(search, s, e) \in {Leave(s, "thrown"), ReadEntry(search, s, e)}
    BY <1>3 DEF Step
  <2>7. Good(Leave(reset, "end")) /\ Good(Leave(reset, "thrown")) /\ Good(Leave(s, "thrown"))
    <3> HIDE DEF reset
    <3>1. QED BY <1>1, <2>1
  <2> HIDE DEF reset, u, Good
  <2>8. Good(ReadEntry(search, s, e))
    BY <2>1, <2>3, <2>4, <2>5, <2>7
  <2>9. Good(Step(search, s, e))
    BY <2>6, <2>7, <2>8
  <2>10. QED BY <2>9 DEF Good
<1>4. CASE s.at # "scan"
  BY <1>4 DEF Step
<1>5. QED BY <1>2, <1>3, <1>4

--------------------------------------------------------------------------------
(* Directories *)

\* What the directories of the trees are like.
LEMMA Directories ==
    ASSUME NEW t \in Trees, NEW d \in DOMAIN t
    PROVE  /\ 0 \in DOMAIN t /\ d \in Nat
           /\ t[d] \in Seq(DirItem)
           /\ BlockCount(d) \in Nat \ {0} /\ BlockSize(d) \in Nat \ {0}
           /\ Len(DirEntries(t, d)) <= BlockCount(d) * BlockSize(d)
           /\ \A k \in DOMAIN t[d] : t[d][k].dir => t[d][k].first \in DOMAIN t \ {0}
           /\ \A j, k \in DOMAIN t[d] :
                 /\ t[d][j].pieces > 0 /\ t[d][k].pieces > 0 /\ t[d][j].name = t[d][k].name
                 => j = k
<1>1. Directory(t, d) /\ 0 \in DOMAIN t /\ d \in Nat
  BY TreesAssumption
<1>2. BlockSize(d) \in Nat \ {0}
  BY RootFsAssumption DEF BlockSize
<1>3. QED BY <1>1, <1>2 DEF Directory

\* The entries of an item.
LEMMA ItemEntriesAre ==
    ASSUME NEW item \in DirItem
    PROVE  /\ Len(ItemEntries(item)) = item.pieces + 1 /\ item.pieces \in Nat
           /\ \A i \in 1 .. item.pieces + 1 :
                 ItemEntries(item)[i] =
                    IF i <= item.pieces
                    THEN IF item.erased THEN Piece(item.name, 5, TRUE, item.sum)
                         ELSE Piece(item.name, item.pieces + 1 - i, i = 1, item.sum)
                    ELSE IF item.erased THEN Erased ELSE Short(item.sum, item.dir, item.first)
<1>1. item.pieces \in Nat
  BY DEF DirItem
<1> DEFINE F == [i \in 1 .. item.pieces + 1 |->
        IF i <= item.pieces
        THEN IF item.erased THEN Piece(item.name, 5, TRUE, item.sum)
             ELSE Piece(item.name, item.pieces + 1 - i, i = 1, item.sum)
        ELSE IF item.erased THEN Erased ELSE Short(item.sum, item.dir, item.first)]
<1>2. ItemEntries(item) = F
  BY DEF ItemEntries
<1>3. Len(F) = item.pieces + 1
  <2>0. item.pieces + 1 \in Nat
    BY <1>1
  <2>1. F = [i \in 1 .. item.pieces + 1 |-> F[i]]
    OBVIOUS
  <2> HIDE DEF F
  <2> DEFINE R == {F[i] : i \in 1 .. item.pieces + 1}
  <2>2. F \in [1 .. item.pieces + 1 -> R]
    BY <2>1
  <2> HIDE DEF R
  <2>3. F \in Seq(R)
    BY <2>0, <2>2
  <2>4. QED BY <2>0, <2>2, <2>3
<1>4. QED BY <1>1, <1>2, <1>3

\* They are entries.
LEMMA ItemEntriesTyped ==
    ASSUME NEW firsts, NEW item \in DirItem, item.dir => item.first \in firsts
    PROVE  ItemEntries(item) \in Seq(Entries(firsts))
<1>1. /\ item.name \in STRING \ Hidden /\ item.pieces \in Nat
      /\ item.dir \in BOOLEAN /\ item.first \in Nat
      /\ item.erased \in BOOLEAN /\ item.sum \in Int
  BY DEF DirItem
<1>2. ASSUME NEW n \in Int, NEW last \in BOOLEAN
      PROVE  Piece(item.name, n, last, item.sum) \in Entries(firsts)
  BY <1>1 DEF Piece, Entries
<1>3. Short(item.sum, item.dir, item.first) \in Entries(firsts)
  BY <1>1 DEF Short, Entries
<1>4. Erased \in Entries(firsts)
  BY DEF Entries
<1>5. ASSUME NEW i \in 1 .. item.pieces + 1 PROVE ItemEntries(item)[i] \in Entries(firsts)
  <2>1. item.pieces + 1 - i \in Int /\ (i = 1) \in BOOLEAN /\ 5 \in Int
    BY <1>1
  <2>2. /\ Piece(item.name, 5, TRUE, item.sum) \in Entries(firsts)
        /\ Piece(item.name, item.pieces + 1 - i, i = 1, item.sum) \in Entries(firsts)
    BY <1>2, <2>1
  <2>3. QED BY <1>3, <1>4, <2>2, ItemEntriesAre
<1>6. QED
  <2> DEFINE F == ItemEntries(item)
  <2>1. F = [i \in 1 .. item.pieces + 1 |-> F[i]]
    BY DEF ItemEntries
  <2>2. F \in [1 .. item.pieces + 1 -> Entries(firsts)]
    <3> HIDE DEF F
    <3>1. \A i \in 1 .. item.pieces + 1 : F[i] \in Entries(firsts)
      BY <1>5 DEF F
    <3>2. QED BY <2>1, <3>1
  <2> HIDE DEF F
  <2>3. item.pieces + 1 \in Nat
    BY <1>1
  <2>4. F \in Seq(Entries(firsts))
    BY <2>2, <2>3
  <2>5. QED BY <2>4 DEF F

\* The entries of the first items are the entries of all of them up to there.
LEMMA Concatenations ==
    ASSUME NEW firsts, NEW items \in Seq(DirItem),
           \A k \in DOMAIN items : items[k].dir => items[k].first \in firsts
    PROVE  \E f : /\ f \in [0 .. Len(items) -> Seq(Entries(firsts))]
                  /\ f[0] = << >> /\ f[Len(items)] = Concatenated(items)
                  /\ \A k \in 1 .. Len(items) : f[k] = f[k - 1] \o ItemEntries(items[k])
                  /\ \A k \in 0 .. Len(items) : Concatenated(SubSeq(items, 1, k)) = f[k]
<1> DEFINE N == Len(items)
           Step1(g, n) == /\ g[0] = << >>
                          /\ \A k \in 1 .. n : g[k] = ConcatNext(g[k - 1], items[k])
<1>1. N \in Nat /\ DOMAIN items = 1 .. N /\ \A k \in 1 .. N : items[k] \in DirItem
  OBVIOUS
<1>2. PICK g : Step1(g, N) /\ Concatenated(items) = g[N]
  BY <1>1, ConcatenatedIs
<1> HIDE DEF N
<1>3. \A k \in 0 .. N : g[k] \in Seq(Entries(firsts))
  <2> DEFINE T == {k \in 0 .. N : g[k] \in Seq(Entries(firsts))}
  <2>1. 0 \in T
    <3>1. << >> \in Seq(Entries(firsts)) /\ 0 \in 0 .. N
      BY <1>1
    <3>2. QED BY <1>2, <3>1
  <2>2. ASSUME NEW k \in 0 .. N - 1, k \in T PROVE k + 1 \in T
    <3>1. k + 1 \in 1 .. N /\ (k + 1) - 1 = k
      BY <1>1
    <3>2. g[k + 1] = ConcatNext(g[k], items[k + 1])
      BY <1>2, <3>1
    <3>3. ItemEntries(items[k + 1]) \in Seq(Entries(firsts))
      BY <1>1, <3>1, ItemEntriesTyped
    <3>4. ConcatNext(g[k], items[k + 1]) \in Seq(Entries(firsts))
      BY <2>2, <3>3 DEF ConcatNext
    <3>5. QED BY <3>1, <3>2, <3>4
  <2> HIDE DEF T
  <2>3. 0 .. N \subseteq T
    BY <1>1, <2>1, <2>2, InductionUpTo
  <2>4. QED BY <2>3 DEF T
<1>4. ASSUME NEW n \in 0 .. N PROVE Concatenated(SubSeq(items, 1, n)) = g[n]
  <2> DEFINE part == SubSeq(items, 1, n)
  <2>1. Len(part) = n /\ \A k \in 1 .. n : part[k] = items[k]
    BY <1>1 DEF N
  <2> HIDE DEF part
  <2>2. PICK h : /\ h[0] = << >>
                 /\ \A k \in 1 .. n : h[k] = ConcatNext(h[k - 1], part[k])
                 /\ Concatenated(part) = h[n]
    <3>1. Len(part) \in Nat
      BY <2>1
    <3>2. QED BY <2>1, <3>1, ConcatenatedIs
  <2> DEFINE T == {k \in 0 .. n : h[k] = g[k]}
  <2>3. 0 \in T
    BY <1>2, <2>2
  <2>4. ASSUME NEW k \in 0 .. n - 1, k \in T PROVE k + 1 \in T
    <3>1. k + 1 \in 1 .. n /\ (k + 1) - 1 = k /\ k + 1 \in 1 .. N
      BY <1>1
    <3>2. QED BY <1>2, <2>1, <2>2, <2>4, <3>1
  <2> HIDE DEF T
  <2>5. 0 .. n \subseteq T
    <3>1. n \in Nat
      BY <1>1
    <3>2. QED BY <2>3, <2>4, <3>1, InductionUpTo
  <2>6. h[n] = g[n]
    <3>1. n \in 0 .. n
      BY <1>1
    <3>2. n \in T
      BY <2>5, <3>1
    <3>3. QED BY <3>2 DEF T
  <2>7. QED BY <2>2, <2>6 DEF part
<1> DEFINE f == [k \in 0 .. N |-> g[k]]
<1>5. f \in [0 .. N -> Seq(Entries(firsts))] /\ \A k \in 0 .. N : f[k] = g[k]
  BY <1>3
<1> HIDE DEF f
<1>6. ASSUME NEW k \in 1 .. N PROVE f[k] = f[k - 1] \o ItemEntries(items[k])
  <2>1. k \in 0 .. N /\ k - 1 \in 0 .. N
    BY <1>1
  <2>2. QED BY <1>2, <1>5, <2>1 DEF ConcatNext
<1>7. 0 \in 0 .. N /\ N \in 0 .. N
  BY <1>1
<1>8. QED BY <1>2, <1>4, <1>5, <1>6, <1>7 DEF N

\* The entries of a directory are entries, and so are those of each of its blocks.
LEMMA DirEntriesTyped ==
    ASSUME NEW t \in Trees, NEW d \in DOMAIN t
    PROVE  DirEntries(t, d) \in Seq(Entries(DOMAIN t))
<1> DEFINE E == Entries(DOMAIN t)
<1>1. /\ 0 \in DOMAIN t /\ d \in Nat /\ t[d] \in Seq(DirItem)
      /\ \A k \in DOMAIN t[d] : t[d][k].dir => t[d][k].first \in DOMAIN t
  BY Directories
<1>2. Concatenated(t[d]) \in Seq(E)
  <2>1. PICK f : /\ f \in [0 .. Len(t[d]) -> Seq(E)]
                 /\ f[Len(t[d])] = Concatenated(t[d])
    BY <1>1, Concatenations
  <2>2. Len(t[d]) \in 0 .. Len(t[d])
    BY <1>1
  <2>3. QED BY <2>1, <2>2
<1>3. Dots(d) \in Seq(E)
  <2>1. Short(-2, TRUE, d) \in E /\ Short(-3, TRUE, 0) \in E
    BY <1>1 DEF Short, Entries
  <2> HIDE DEF E
  <2>2. \A a, b \in E : <<a, b>> \in Seq(E)
    OBVIOUS
  <2>3. QED BY <2>1, <2>2 DEF Dots
<1> HIDE DEF E
<1>4. Dots(d) \o Concatenated(t[d]) \in Seq(E)
  BY <1>2, <1>3
<1>5. DirEntries(t, d) \in Seq(E)
  BY <1>2, <1>4 DEF DirEntries
<1>6. QED BY <1>5 DEF E

\* The blocks of a directory are its entries, one after the other.
LEMMA BlocksAre ==
    ASSUME NEW t \in Trees, NEW d \in DOMAIN t
    PROVE  /\ Len(DirBlocks(t, d)) = BlockCount(d)
           /\ \A k \in 1 .. BlockCount(d) :
                 /\ Len(DirBlocks(t, d)[k]) = BlockSize(d)
                 /\ \A i \in 1 .. BlockSize(d) :
                       /\ DirBlocks(t, d)[k][i] =
                             IF (k - 1) * BlockSize(d) + i <= Len(DirEntries(t, d))
                             THEN DirEntries(t, d)[(k - 1) * BlockSize(d) + i] ELSE End
                       /\ DirBlocks(t, d)[k][i] \in Entries(DOMAIN t)
<1> DEFINE E == Entries(DOMAIN t)
           entries == DirEntries(t, d)
           n == BlockCount(d)
           m == BlockSize(d)
           EntryOf(k, i) ==
               IF (k - 1) * m + i <= Len(entries) THEN entries[(k - 1) * m + i] ELSE End
           B == DirBlocks(t, d)
<1>1. n \in Nat \ {0} /\ m \in Nat \ {0}
  BY Directories
<1>2. entries \in Seq(E)
  BY DirEntriesTyped
<1>3. End \in E
  BY DEF Entries
<1> HIDE DEF entries, n, m, E
<1>4. ASSUME NEW k \in 1 .. n, NEW i \in 1 .. m PROVE EntryOf(k, i) \in E
  <2>1. (k - 1) * m \in Nat
    <3>1. k - 1 \in Nat /\ m \in Nat
      BY <1>1
    <3>2. QED BY <3>1, Multiples
  <2> DEFINE j == (k - 1) * m
  <2> HIDE DEF j
  <2>2. j \in Nat
    BY <2>1 DEF j
  <2>3. j + i \in Nat \ {0}
    BY <1>1, <2>2
  <2>4. (IF j + i <= Len(entries) THEN entries[j + i] ELSE End) \in E
    BY <1>2, <1>3, <2>3
  <2>5. QED BY <2>4 DEF j
<1>5. B = [k \in 1 .. n |-> [i \in 1 .. m |-> EntryOf(k, i)]]
  BY DEF DirBlocks, Blocks, entries, n, m
<1> HIDE DEF EntryOf, B
<1>6. ASSUME NEW k \in 1 .. n PROVE B[k] \in [1 .. m -> E] /\ Len(B[k]) = m
  <2>1. B[k] \in [1 .. m -> E]
    BY <1>4, <1>5
  <2>2. B[k] \in Seq(E)
    BY <1>1, <2>1
  <2>3. QED BY <1>1, <2>1, <2>2
<1>7. B \in [1 .. n -> Seq(E)] /\ Len(B) = n
  <2>1. ASSUME NEW k \in 1 .. n PROVE B[k] \in Seq(E)
    BY <1>1, <1>6
  <2>2. B = [k \in 1 .. n |-> B[k]]
    BY <1>5
  <2>3. B \in [1 .. n -> Seq(E)]
    BY <2>1, <2>2
  <2>4. B \in Seq(Seq(E))
    BY <1>1, <2>3
  <2>5. QED BY <1>1, <2>3, <2>4
<1>8. \A k \in 1 .. n, i \in 1 .. m : B[k][i] = EntryOf(k, i)
  BY <1>5
<1>9. QED BY <1>4, <1>6, <1>7, <1>8 DEF B, n, m, E, EntryOf, entries

\* A search of a block ends in one of its states.
LEMMA BlockTyped ==
    ASSUME NEW t \in Trees, NEW d \in DOMAIN t, NEW search, NEW k \in 1 .. BlockCount(d),
           NEW listed \in Lists
    PROVE  /\ ScanBlock(search, DirBlocks(t, d)[k], listed) \in SearchState(DOMAIN t)
           /\ Matched(search, ScanBlock(search, DirBlocks(t, d)[k], listed))
<1> DEFINE S == SearchState(DOMAIN t)
           block == DirBlocks(t, d)[k]
           m == BlockSize(d)
           Good(u) == u \in S /\ Matched(search, u)
<1>1. m \in Nat \ {0}
  BY Directories
<1>2. Len(block) = m /\ \A i \in 1 .. m : block[i] \in Entries(DOMAIN t)
  BY BlocksAre
<1> HIDE DEF block, m
<1>3. PICK f : /\ f[0] = Begin(listed)
               /\ \A i \in 1 .. m : f[i] = Step(search, f[i - 1], block[i])
               /\ ScanBlock(search, block, listed) = f[m]
  BY <1>1, <1>2, ScanBlockIs DEF ScansBlock
<1> DEFINE T == {i \in 0 .. m : Good(f[i])}
<1>4. 0 \in T
  <2>1. Good(Begin(listed))
    BY BeginTyped
  <2>2. 0 \in 0 .. m
    BY <1>1
  <2> HIDE DEF Good
  <2>3. QED BY <1>3, <2>1, <2>2
<1>5. ASSUME NEW i \in 0 .. m - 1, i \in T PROVE i + 1 \in T
  <2>1. i + 1 \in 1 .. m /\ (i + 1) - 1 = i /\ i + 1 \in 0 .. m
    BY <1>1
  <2>2. f[i + 1] = Step(search, f[i], block[i + 1])
    BY <1>3, <2>1
  <2>3. Good(Step(search, f[i], block[i + 1]))
    BY <1>2, <1>5, <2>1, StepTyped
  <2> HIDE DEF Good
  <2>4. QED BY <2>1, <2>2, <2>3
<1> HIDE DEF T, Good
<1>6. m \in T
  <2>1. 0 .. m \subseteq T
    BY <1>1, <1>4, <1>5, InductionUpTo
  <2>2. QED BY <1>1, <2>1
<1>7. Good(ScanBlock(search, block, listed))
  BY <1>3, <1>6 DEF T
<1>8. QED BY <1>7 DEF Good, block, S

\* A search of a directory ends in one of its states.
LEMMA ScanTyped ==
    ASSUME NEW t \in Trees, NEW d \in DOMAIN t, NEW search
    PROVE  /\ Scan(search, DirBlocks(t, d)) \in SearchState(DOMAIN t)
           /\ Matched(search, Scan(search, DirBlocks(t, d)))
<1> DEFINE S == SearchState(DOMAIN t)
           B == DirBlocks(t, d)
           n == BlockCount(d)
           m == BlockSize(d)
           Good(u) == u \in S /\ Matched(search, u)
<1>1. n \in Nat \ {0} /\ m \in Nat \ {0}
  BY Directories
<1>2. /\ Len(B) = n
      /\ \A k \in 1 .. n : /\ Len(B[k]) = m
                           /\ \A i \in 1 .. m : B[k][i] \in Entries(DOMAIN t)
  BY BlocksAre
<1> HIDE DEF B, n, m
<1>3. ASSUME NEW k \in 1 .. n, NEW listed \in Lists PROVE Good(ScanBlock(search, B[k], listed))
  BY BlockTyped DEF B, n
<1>4. PICK g : /\ g[1] = ScanBlock(search, B[1], << >>)
               /\ \A k \in 2 .. n : g[k] = ScanNext(search, g[k - 1], B[k])
               /\ Scan(search, B) = g[n]
  <2>1. Len(B) = n /\ Len(B) \in Nat \ {0}
    BY <1>1, <1>2
  <2>2. PICK g : /\ g[1] = ScanBlock(search, B[1], << >>)
                 /\ \A k \in 2 .. Len(B) : g[k] = ScanNext(search, g[k - 1], B[k])
                 /\ Scan(search, B) = g[Len(B)]
    BY <2>1, ScanIs
  <2>3. QED BY <2>1, <2>2
<1> DEFINE T == {k \in 1 .. n : Good(g[k])}
<1>5. 1 \in T
  <2>1. << >> \in Lists
    BY DEF Lists
  <2>2. 1 \in 1 .. n
    BY <1>1
  <2> HIDE DEF Good
  <2>3. QED BY <1>3, <1>4, <2>1, <2>2
<1>6. ASSUME NEW k \in 2 .. n, k - 1 \in T PROVE k \in T
  <2>1. k \in 1 .. n
    BY <1>1
  <2>2. g[k] = ScanNext(search, g[k - 1], B[k])
    BY <1>4
  <2>3. Good(g[k - 1]) /\ g[k - 1].listed \in Lists
    BY <1>6 DEF SearchState
  <2>4. Good(ScanBlock(search, B[k], g[k - 1].listed))
    BY <1>3, <2>1, <2>3
  <2> HIDE DEF Good
  <2>5. QED BY <2>1, <2>2, <2>3, <2>4 DEF ScanNext
<1> HIDE DEF T, Good
<1>7. n \in T
  BY <1>1, <1>5, <1>6, InductionFromTo
<1>8. Good(Scan(search, B))
  BY <1>4, <1>7 DEF T
<1>9. QED BY <1>8 DEF Good, B, S

\* What push() may answer: a directory that it enters is one of the tree, and has a name
\* like any other.
LEMMA PushAnswers ==
    ASSUME NEW t \in Trees, NEW d \in DOMAIN t, NEW name \in Asked
    PROVE  LET p == PushIn[t][d][name]
           IN  /\ p.status \in {"thrown", "NP", "DIR_ENTRY", "FILE_ENTRY"}
               /\ p.status = "DIR_ENTRY" => p.first \in DOMAIN t /\ name \in Name
<1> DEFINE search == Search("push", d = 0, name)
           s == Scan(search, DirBlocks(t, d))
           p == PushIn[t][d][name]
<1>1. s \in SearchState(DOMAIN t) /\ Matched(search, s)
  BY ScanTyped
<1>2. p = Push(d = 0, DirBlocks(t, d), name)
  BY DEF PushIn
<1>3. p = IF s.at = "thrown" THEN [status |-> "thrown"]
          ELSE IF s.at # "match" THEN [status |-> "NP"]
          ELSE IF s.entry.dir THEN [status |-> "DIR_ENTRY", first |-> s.entry.first]
          ELSE [status |-> "FILE_ENTRY"]
  BY <1>2 DEF Push
<1>4. s.at = "match" /\ s.entry.dir => s.entry.first \in DOMAIN t
  <2>1. s.entry \in Entries(DOMAIN t)
    BY <1>1 DEF SearchState
  <2>2. s.at = "match" => s.entry.kind = "short"
    BY <1>1 DEF Matched
  <2> HIDE DEF s
  <2>3. QED BY <2>1, <2>2 DEF Entries, Erased, End
<1>5. s.at = "match" => name \in Name
  <2>1. s.found \in Found
    BY <1>1 DEF SearchState
  <2>2. s.at = "match" => s.found = name
    BY <1>1 DEF Matched, Search
  <2> HIDE DEF s
  <2>3. name \in {".", ".."} => name \notin Found
    BY DEF Found, Hidden, NoName
  <2>4. QED BY <2>1, <2>2, <2>3 DEF Asked
<1> HIDE DEF s, p
<1>6. p.status \in {"thrown", "NP", "DIR_ENTRY", "FILE_ENTRY"}
  BY <1>3
<1>7. p.status = "DIR_ENTRY" => p.first \in DOMAIN t /\ name \in Name
  BY <1>3, <1>4, <1>5
<1>8. QED BY <1>6, <1>7 DEF p

--------------------------------------------------------------------------------
(* Where the iterator may be *)

Steps(t)  == [name : Name, first : DOMAIN t]
Stacks(t) == Seq(Steps(t))

\* The first cluster of the directory at the top of a stack.
FirstOf(stack) == IF stack = << >> THEN 0 ELSE Top(stack).first

\* The levels of an iterator when n file systems are mounted.
LevelOf(t, n) ==
    {l \in [mnt : 1 .. n, kind : {"fat", "dev"}, stack : Stacks(t), first : DOMAIN t] :
        l.first = FirstOf(l.stack)}
Cursors(t, n) == Seq(LevelOf(t, n))

MountPlace == [kind : {"fat", "dev"}, path : Seq(Name)]
MountsTyped == mnts \in Seq(MountPlace)

\* A name leads from p to c: to a directory of the file system, or of a mount.
Entering(p, name, c) ==
    /\ p # << >> /\ Top(p).kind = "fat"
    /\ FatPush(Top(p), name).status = "DIR_ENTRY"
    /\ c = Replace(p, FatPush(Top(p), name).level)

Mounting(p, name, c) ==
    /\ p = << >> \/ RawPush(Top(p), name).status = "NP"
    /\ Len(p) # Indirections
    /\ LookupMnt(Append(CanonicalPath(p), name)) # 0
    /\ c = Enter(p, LookupMnt(Append(CanonicalPath(p), name)))

Descends(p, name, c) == name \in Name /\ (Entering(p, name, c) \/ Mounting(p, name, c))

\* The iterators on the way from the root to c.
Trail(W, n, c) ==
    /\ n \in Nat
    /\ W \in [0 .. n -> Cursors(tree, Len(mnts))]
    /\ W[0] = << >> /\ W[n] = c
    /\ \A i \in 1 .. n : \E name \in Name : Descends(W[i - 1], name, W[i])

\* The inductive invariant: the iterator was reached by going down only.
PathInv == tree \in Trees /\ MountsTyped /\ \E n, W : Trail(W, n, cur)

\* A sequence with another last element.
LEMMA Replaced ==
    ASSUME NEW S, NEW q \in Seq(S), q # << >>, NEW x \in S
    PROVE  /\ Top(q) \in S
           /\ Replace(q, x) \in Seq(S) /\ Replace(q, x) # << >>
           /\ Len(Replace(q, x)) = Len(q)
           /\ Top(Replace(q, x)) = x
           /\ Replace(Replace(q, x), Top(q)) = q
           /\ Replace(q, Top(q)) = q
<1> DEFINE N == Len(q)
           r == Replace(q, x)
<1>1. N \in Nat \ {0} /\ N \in 1 .. N /\ q \in [1 .. N -> S]
  OBVIOUS
<1>2. Top(q) \in S
  BY <1>1 DEF Top
<1>3. r \in [1 .. N -> S] /\ r[N] = x /\ \A i \in 1 .. N : i # N => r[i] = q[i]
  <2> HIDE DEF N
  <2>1. QED BY <1>1 DEF Replace, N
<1> HIDE DEF r
<1>4. r \in Seq(S) /\ Len(r) = N /\ r # << >>
  <2> HIDE DEF N
  <2>1. r \in Seq(S)
    BY <1>1, <1>3
  <2>2. Len(r) = N
    BY <1>1, <1>3, <2>1
  <2>3. QED BY <1>1, <2>1, <2>2
<1>5. Top(r) = x
  BY <1>3, <1>4 DEF Top
<1>6. Replace(r, Top(q)) = q
  <2>1. Replace(r, Top(q)) = [r EXCEPT ![N] = q[N]]
    BY <1>4 DEF Replace, Top
  <2> DEFINE a == [r EXCEPT ![N] = q[N]]
  <2> HIDE DEF N
  <2>2. a \in [1 .. N -> S] /\ \A i \in 1 .. N : a[i] = q[i]
    BY <1>1, <1>3
  <2> HIDE DEF a
  <2>3. a = q
    BY <1>1, <2>2
  <2>4. QED BY <2>1, <2>3 DEF a
<1>7. Replace(q, Top(q)) = q
  <2> HIDE DEF N
  <2>1. QED BY <1>1 DEF Replace, Top, N
<1>8. QED BY <1>2, <1>4, <1>5, <1>6, <1>7 DEF r

\* A sequence without the last element that was appended.
LEMMA FrontOfAppended ==
    ASSUME NEW S, NEW q \in Seq(S), NEW x \in S
    PROVE  /\ Front1(Append(q, x)) = q /\ Top(Append(q, x)) = x
           /\ Append(q, x) # << >> /\ Append(q, x) \in Seq(S)
           /\ Len(Append(q, x)) = Len(q) + 1
<1>1. Len(q) \in Nat /\ q = [i \in 1 .. Len(q) |-> q[i]]
  OBVIOUS
<1> DEFINE r == Append(q, x)
<1>2. Len(r) = Len(q) + 1 /\ r \in Seq(S) /\ r[Len(q) + 1] = x
      /\ \A i \in 1 .. Len(q) : r[i] = q[i]
  OBVIOUS
<1> HIDE DEF r
<1>3. Front1(r) = SubSeq(r, 1, Len(q))
  BY <1>1, <1>2 DEF Front1
<1>4. SubSeq(r, 1, Len(q)) = q
  <2>1. /\ SubSeq(r, 1, Len(q)) \in Seq(S) /\ Len(SubSeq(r, 1, Len(q))) = Len(q)
        /\ \A i \in 1 .. Len(q) : SubSeq(r, 1, Len(q))[i] = r[i]
    BY <1>1, <1>2
  <2>2. QED BY <1>2, <2>1
<1>5. r # << >>
  BY <1>1, <1>2
<1>6. QED BY <1>2, <1>3, <1>4, <1>5 DEF r, Top

\* What lookup_mnt() finds in a sequence of mounts.
FirstAt(mounts, path) ==
    LET found == {i \in DOMAIN mounts : mounts[i].path = path}
    IN  IF found = {} THEN 0 ELSE CHOOSE i \in found : \A j \in found : i <= j

\* It is the first of those at the place.
LEMMA FirstAtIs ==
    ASSUME NEW S, NEW mounts \in Seq(S), NEW path
    PROVE  /\ FirstAt(mounts, path) \in 0 .. Len(mounts)
           /\ FirstAt(mounts, path) # 0 =>
                 /\ mounts[FirstAt(mounts, path)].path = path
                 /\ \A j \in 1 .. Len(mounts) :
                       mounts[j].path = path => FirstAt(mounts, path) <= j
           /\ FirstAt(mounts, path) = 0 => \A j \in 1 .. Len(mounts) : mounts[j].path # path
<1> DEFINE found == {i \in DOMAIN mounts : mounts[i].path = path}
           i == CHOOSE i \in found : \A j \in found : i <= j
<1>1. DOMAIN mounts = 1 .. Len(mounts) /\ Len(mounts) \in Nat
  OBVIOUS
<1>2. CASE found = {}
  <2>1. FirstAt(mounts, path) = 0
    BY <1>2 DEF FirstAt
  <2>2. QED BY <1>1, <1>2, <2>1
<1>3. CASE found # {}
  <2>1. found \in SUBSET Nat
    BY <1>1
  <2>2. \E n \in found : \A m \in found : n <= m
    <3> HIDE DEF found
    <3>1. QED BY <1>3, <2>1, LeastOfNat
  <2>3. i \in found /\ \A j \in found : i <= j
    <3> HIDE DEF found
    <3>1. QED BY <2>2
  <2>4. FirstAt(mounts, path) = i
    BY <1>3 DEF FirstAt
  <2> HIDE DEF i
  <2>5. QED BY <1>1, <2>3, <2>4
<1>4. QED BY <1>2, <1>3

\* The mount that is found at a place is there.
LEMMA LookupIs ==
    ASSUME MountsTyped, NEW path
    PROVE  /\ LookupMnt(path) \in 0 .. Len(mnts)
           /\ LookupMnt(path) # 0 => mnts[LookupMnt(path)].path = path
<1>1. LookupMnt(path) = FirstAt(mnts, path)
  BY DEF LookupMnt, FirstAt
<1>2. QED BY <1>1, FirstAtIs DEF MountsTyped

\* The canonical path of an iterator is one, of names.
LEMMA PathTyped ==
    ASSUME MountsTyped, NEW t, NEW q \in Cursors(t, Len(mnts))
    PROVE  CanonicalPath(q) \in Seq(Name)
<1>1. CASE q = << >>
  BY <1>1 DEF CanonicalPath
<1>2. CASE q # << >>
  <2> DEFINE l == Top(q)
             names == [i \in DOMAIN l.stack |-> l.stack[i].name]
  <2>1. l \in LevelOf(t, Len(mnts))
    BY <1>2 DEF Cursors, Top
  <2>2. l.mnt \in 1 .. Len(mnts) /\ l.stack \in Stacks(t)
    BY <2>1 DEF LevelOf
  <2>3. names \in Seq(Name)
    <3> DEFINE stack == l.stack
    <3> HIDE DEF l
    <3>1. stack \in Seq(Steps(t)) /\ DOMAIN stack = 1 .. Len(stack) /\ Len(stack) \in Nat
      BY <2>2 DEF Stacks
    <3>2. ASSUME NEW i \in 1 .. Len(stack) PROVE stack[i].name \in Name
      <4>1. stack[i] \in Steps(t)
        BY <3>1, <3>2
      <4>2. QED BY <4>1 DEF Steps
    <3>3. names = [i \in 1 .. Len(stack) |-> stack[i].name]
      BY <3>1
    <3> HIDE DEF stack, names
    <3>4. QED BY <3>1, <3>2, <3>3
  <2>4. mnts[l.mnt].path \in Seq(Name)
    <3>1. mnts[l.mnt] \in MountPlace
      BY <2>2 DEF MountsTyped
    <3>2. QED BY <3>1 DEF MountPlace
  <2>5. CanonicalPath(q) = mnts[l.mnt].path \o names
    BY <1>2 DEF CanonicalPath, LevelPath
  <2> HIDE DEF names, l
  <2>6. QED BY <2>3, <2>4, <2>5
<1>3. QED BY <1>1, <1>2

\* The level that is one step down from another.
Lower(l, name, first) ==
    [l EXCEPT !.stack = Append(@, [name |-> name, first |-> first]), !.first = first]

\* Where a raw push() enters a directory, the level goes down by one step, to a directory
\* of the tree; otherwise it stays the same.
LEMMA RawPushIs ==
    ASSUME tree \in Trees, NEW n \in Nat, NEW l \in LevelOf(tree, n), NEW name \in Asked
    PROVE  LET p == RawPush(l, name)
           IN  /\ p.status \in {"thrown", "NP", "DIR_ENTRY", "FILE_ENTRY"}
               /\ p.status # "DIR_ENTRY" => p.level = l
               /\ p.status = "DIR_ENTRY" =>
                     /\ l.kind = "fat" /\ name \in Name
                     /\ \E first \in DOMAIN tree : p.level = Lower(l, name, first)
<1> DEFINE d == DirOf(l)
           a == PushIn[tree][d][name]
           p == RawPush(l, name)
<1>1. d \in DOMAIN tree
  <2>1. l.first \in DOMAIN tree
    BY DEF LevelOf
  <2>2. 0 \in DOMAIN tree
    BY TreesAssumption
  <2>3. QED BY <2>1, <2>2 DEF DirOf
<1>2. /\ a.status \in {"thrown", "NP", "DIR_ENTRY", "FILE_ENTRY"}
      /\ a.status = "DIR_ENTRY" => a.first \in DOMAIN tree /\ name \in Name
  <2> HIDE DEF d
  <2>1. QED BY <1>1, PushAnswers
<1> HIDE DEF d, a
<1>3. CASE l.kind = "fat"
  <2>1. p = IF Len(l.stack) = Depth THEN [status |-> "thrown", level |-> l]
            ELSE Entered(l, name, a)
    BY <1>3 DEF RawPush, FatPush, a, d
  <2>2. CASE Len(l.stack) = Depth
    <3>1. p = [status |-> "thrown", level |-> l]
      BY <2>1, <2>2
    <3> HIDE DEF p
    <3>2. p.status = "thrown" /\ p.level = l
      BY <3>1
    <3>3. QED BY <3>2 DEF p
  <2>3. CASE Len(l.stack) # Depth
    <3> DEFINE down == Lower(l, name, a.first)
    <3>1. p = [status |-> a.status, level |-> IF a.status # "DIR_ENTRY" THEN l ELSE down]
      BY <2>1, <2>3 DEF Entered, Lower
    <3> HIDE DEF p, down
    <3>2. p.status = a.status /\ p.level = IF a.status # "DIR_ENTRY" THEN l ELSE down
      BY <3>1
    <3>3. QED BY <1>2, <1>3, <3>2 DEF p, down
  <2>4. QED BY <2>2, <2>3
<1>4. CASE l.kind # "fat"
  <2>1. p = [status |-> IF name \in DevFiles THEN "FILE_ENTRY" ELSE "NP", level |-> l]
    BY <1>4 DEF RawPush, DevPush
  <2> HIDE DEF p
  <2>2. p.status \in {"FILE_ENTRY", "NP"} /\ p.level = l
    BY <2>1
  <2>3. QED BY <2>2 DEF p
<1>5. QED BY <1>3, <1>4

\* One step down the stack of a level, and up again.
LEMMA StackDown ==
    ASSUME tree \in Trees, MountsTyped, NEW n, n = Len(mnts), NEW l \in LevelOf(tree, n),
           NEW name \in Name, NEW first \in DOMAIN tree,
           NEW m, m = Lower(l, name, first)
    PROVE  /\ m \in LevelOf(tree, n) /\ m.stack # << >> /\ FatPop(m) = l
           /\ m.mnt = l.mnt /\ m.kind = l.kind
           /\ LevelPath(m) = Append(LevelPath(l), name)
<1> DEFINE step == [name |-> name, first |-> first]
<1>1. /\ l = [mnt |-> l.mnt, kind |-> l.kind, stack |-> l.stack, first |-> l.first]
      /\ l.mnt \in 1 .. n /\ l.kind \in {"fat", "dev"} /\ l.stack \in Stacks(tree)
      /\ l.first \in DOMAIN tree /\ l.first = FirstOf(l.stack)
  BY DEF LevelOf
<1>2. step \in Steps(tree)
  BY DEF Steps
<1> DEFINE stack == l.stack
<1>0. stack = l.stack
  OBVIOUS
<1> HIDE DEF step, stack
<1>3. /\ Front1(Append(stack, step)) = stack /\ Top(Append(stack, step)) = step
      /\ Append(stack, step) # << >> /\ Append(stack, step) \in Stacks(tree)
      /\ Len(Append(stack, step)) = Len(stack) + 1
  BY <1>0, <1>1, <1>2, FrontOfAppended DEF Stacks
<1>4. m = [mnt |-> l.mnt, kind |-> l.kind, stack |-> Append(stack, step), first |-> first]
  BY <1>1 DEF step, stack, Lower
<1>5. step.first = first /\ step.name = name
  BY DEF step
<1>6. m \in LevelOf(tree, n)
  <2> DEFINE firsts == DOMAIN tree
             s == Append(stack, step)
  <2>1. FirstOf(s) = first
    BY <1>3, <1>5 DEF FirstOf
  <2>2. s \in Stacks(tree) /\ first \in firsts
    BY <1>3
  <2> HIDE DEF s, firsts
  <2>3. m \in [mnt : 1 .. n, kind : {"fat", "dev"}, stack : Stacks(tree), first : firsts]
    BY <1>1, <1>4, <2>2 DEF s
  <2>4. m.first = FirstOf(m.stack)
    BY <1>4, <2>1 DEF s
  <2>5. QED BY <2>3, <2>4 DEF LevelOf, firsts
<1>7. FatPop(m) = l
  <2> DEFINE s == Append(stack, step)
  <2>1. FatPop(m) = [mnt |-> l.mnt, kind |-> l.kind, stack |-> Front1(s),
                     first |-> IF Len(s) = 1 THEN 0 ELSE s[Len(s) - 1].first]
    <3> HIDE DEF s
    <3>1. m = [mnt |-> l.mnt, kind |-> l.kind, stack |-> s, first |-> first]
      BY <1>4 DEF s
    <3>2. m.stack = s
      BY <3>1
    <3> DEFINE f == IF Len(s) = 1 THEN 0 ELSE s[Len(s) - 1].first
               front == Front1(s)
    <3>3. FatPop(m) = [m EXCEPT !.stack = front, !.first = f]
      BY <3>2 DEF FatPop
    <3> HIDE DEF f, front
    <3>4. FatPop(m) = [mnt |-> l.mnt, kind |-> l.kind, stack |-> front, first |-> f]
      <4> DEFINE m1 == [m EXCEPT !.stack = front]
      <4>1. FatPop(m) = [m1 EXCEPT !.first = f]
        BY <3>3
      <4>2. m1 = [mnt |-> l.mnt, kind |-> l.kind, stack |-> front, first |-> first]
        BY ONLY <3>1
      <4> HIDE DEF m1
      <4>3. [m1 EXCEPT !.first = f]
               = [mnt |-> l.mnt, kind |-> l.kind, stack |-> front, first |-> f]
        BY ONLY <4>2
      <4>4. QED BY <4>1, <4>3
    <3>5. QED BY <3>4 DEF f, front
  <2>2. Len(stack) \in Nat
    BY <1>0, <1>1 DEF Stacks
  <2>3. Len(s) = 1 <=> stack = << >>
    BY <1>0, <1>1, <1>3, <2>2 DEF Stacks
  <2>4. stack # << >> => s[Len(s) - 1] = Top(stack)
    <3>1. stack # << >> => Len(stack) \in 1 .. Len(stack)
      BY <1>0, <1>1 DEF Stacks
    <3>2. \A i \in 1 .. Len(stack) : Append(stack, step)[i] = stack[i]
      BY <1>0, <1>1, <1>2 DEF Stacks
    <3>3. QED BY <1>3, <2>2, <3>1, <3>2 DEF Top
  <2>5. (IF Len(s) = 1 THEN 0 ELSE s[Len(s) - 1].first) = l.first
    BY <1>0, <1>1, <2>3, <2>4 DEF FirstOf
  <2>6. QED BY <1>0, <1>1, <1>3, <2>1, <2>2, <2>5
<1>8. LevelPath(m) = Append(LevelPath(l), name)
  <2> DEFINE names(s) == [i \in DOMAIN s |-> s[i].name]
             base == mnts[l.mnt].path
             s == Append(stack, step)
  <2>1. LevelPath(m) = base \o names(s) /\ LevelPath(l) = base \o names(stack)
    <3> HIDE DEF s
    <3>1. m.mnt = l.mnt /\ m.stack = s
      BY <1>4 DEF s
    <3>2. QED BY <1>0, <3>1 DEF LevelPath
  <2>2. base \in Seq(Name)
    <3>1. mnts[l.mnt] \in MountPlace
      BY <1>1 DEF MountsTyped
    <3>2. QED BY <3>1 DEF MountPlace
  <2>3. stack \in Seq(Steps(tree)) /\ DOMAIN stack = 1 .. Len(stack) /\ Len(stack) \in Nat
    BY <1>0, <1>1 DEF Stacks
  <2>4. /\ DOMAIN s = 1 .. Len(stack) + 1 /\ s[Len(stack) + 1] = step
        /\ \A i \in 1 .. Len(stack) : s[i] = stack[i]
    BY <1>2, <2>3
  <2> HIDE DEF s, base
  <2>5. names(stack) \in Seq(Name) /\ Len(names(stack)) = Len(stack)
    <3>1. ASSUME NEW i \in 1 .. Len(stack) PROVE stack[i].name \in Name
      <4>1. stack[i] \in Steps(tree)
        BY <2>3, <3>1
      <4>2. QED BY <4>1 DEF Steps
    <3>2. names(stack) = [i \in 1 .. Len(stack) |-> stack[i].name]
      BY <2>3
    <3>3. names(stack) \in [1 .. Len(stack) -> Name]
      BY <3>1, <3>2
    <3> HIDE DEF names
    <3>4. names(stack) \in Seq(Name)
      BY <2>3, <3>3
    <3>5. QED BY <2>3, <3>3, <3>4
  <2>6. names(s) = Append(names(stack), name)
    <3>1. names(s) = [i \in 1 .. Len(stack) + 1 |-> s[i].name]
      BY <2>4
    <3>2. s[Len(stack) + 1].name = name
      BY <1>5, <2>4
    <3>3. \A i \in 1 .. Len(stack) : s[i].name = names(stack)[i]
      BY <2>3, <2>4
    <3> DEFINE a == names(stack)
               N == Len(stack)
    <3>4. a \in Seq(Name) /\ Len(a) = N /\ N \in Nat
      BY <2>3, <2>5
    <3> HIDE DEF a, N
    <3>5. Append(a, name) = [i \in 1 .. N + 1 |-> IF i = N + 1 THEN name ELSE a[i]]
      <4> DEFINE b == [i \in 1 .. N + 1 |-> IF i = N + 1 THEN name ELSE a[i]]
                 c == Append(a, name)
      <4>1. c \in Seq(Name) /\ Len(c) = N + 1 /\ c[N + 1] = name
            /\ \A i \in 1 .. N : c[i] = a[i]
        BY <3>4
      <4>2. c = [i \in 1 .. N + 1 |-> c[i]]
        <5>1. N + 1 \in Nat
          BY <3>4
        <5> HIDE DEF c
        <5>2. QED BY <4>1, <5>1
      <4> HIDE DEF c
      <4>3. \A i \in 1 .. N + 1 : c[i] = IF i = N + 1 THEN name ELSE a[i]
        BY <3>4, <4>1
      <4>4. c = b
        BY <4>2, <4>3
      <4>5. QED BY <4>4 DEF c
    <3>6. \A i \in 1 .. N + 1 : s[i].name = IF i = N + 1 THEN name ELSE a[i]
      <4>1. s[N + 1].name = name /\ \A i \in 1 .. N : s[i].name = a[i]
        BY <3>2, <3>3 DEF a, N
      <4>2. \A i \in 1 .. N + 1 : i \in 1 .. N \/ i = N + 1
        BY <3>4
      <4>3. N + 1 \notin 1 .. N
        BY <3>4
      <4>4. QED BY <4>1, <4>2, <4>3
    <3>7. names(s) = [i \in 1 .. N + 1 |-> s[i].name]
      BY <3>1 DEF N
    <3> HIDE DEF names
    <3>8. QED BY <3>5, <3>6, <3>7 DEF a
  <2> HIDE DEF names
  <2>7. base \o Append(names(stack), name) = Append(base \o names(stack), name)
    BY <2>2, <2>5
  <2>8. QED BY <2>1, <2>6, <2>7
<1>9. m.stack = Append(stack, step) /\ m.mnt = l.mnt /\ m.kind = l.kind
  BY <1>4
<1>10. QED BY <1>3, <1>6, <1>7, <1>8, <1>9

\* One step up.
Up(c) == IF Top(c).stack # << >> THEN Replace(c, FatPop(Top(c))) ELSE Front1(c)

\* The names that are asked for are not "." and "..".
LEMMA Names == Name \subseteq Asked /\ \A name \in Name : name \notin {".", ".."}
BY RootFsAssumption DEF Asked, Hidden

\* The step that a name leads down is the one that operator<< takes; it makes the canonical
\* path longer by the name, and a step up leads back.
LEMMA DescentIs ==
    ASSUME tree \in Trees, MountsTyped, NEW p \in Cursors(tree, Len(mnts)), NEW name,
           NEW c, Descends(p, name, c)
    PROVE  /\ c \in Cursors(tree, Len(mnts)) /\ c # << >>
           /\ Walk(p, name).levels = c
           /\ CanonicalPath(c) = Append(CanonicalPath(p), name)
           /\ Up(c) = p
<1> DEFINE n == Len(mnts)
           L == LevelOf(tree, n)
           path == Append(CanonicalPath(p), name)
           l == Top(p)
<1>1. name \in Name /\ name \in Asked /\ name \notin {".", ".."}
  BY Names DEF Descends
<1>2. n \in Nat /\ p \in Seq(L)
  BY DEF MountsTyped, Cursors
<1>3. p # << >> => l \in L
  BY <1>2, Replaced DEF Top
<1>4. 0 \in DOMAIN tree
  BY TreesAssumption
<1> HIDE DEF n, L
<1>5. CASE Entering(p, name, c)
  <2> DEFINE r == RawPush(l, name)
             m == r.level
  <2>1. p # << >> /\ l.kind = "fat" /\ r = FatPush(l, name) /\ r.status = "DIR_ENTRY"
        /\ c = Replace(p, m)
    BY <1>5 DEF Entering, RawPush
  <2>2. PICK first \in DOMAIN tree : m = Lower(l, name, first)
    <3> HIDE DEF l, r, m
    <3>1. RawPush(l, name).status = "DIR_ENTRY" =>
             \E first \in DOMAIN tree : RawPush(l, name).level = Lower(l, name, first)
      BY <1>1, <1>2, <1>3, <2>1, RawPushIs DEF L
    <3>2. QED BY <2>1, <3>1 DEF r, m
  <2> HIDE DEF r, m, l
  <2>3. /\ m \in L /\ m.stack # << >> /\ FatPop(m) = l /\ m.mnt = l.mnt /\ m.kind = l.kind
        /\ LevelPath(m) = Append(LevelPath(l), name)
    BY <1>1, <1>3, <2>1, <2>2, StackDown DEF L, n
  <2>4. /\ c \in Seq(L) /\ c # << >> /\ Top(c) = m /\ Replace(c, l) = p
    BY <1>2, <2>1, <2>3, Replaced DEF l
  <2>5. CanonicalPath(c) = path
    BY <2>1, <2>3, <2>4 DEF CanonicalPath, l
  <2>6. Up(c) = p
    BY <2>3, <2>4 DEF Up
  <2>7. Walk(p, name).levels = c
    <3>1. CohPush(l, name) = r
      BY <1>1 DEF CohPush, r
    <3>2. Walk(p, name) = AfterPush(p, name, r)
      BY <2>1, <3>1 DEF Walk, l
    <3>3. AfterPush(p, name, r) = [status |-> r.status, levels |-> Replace(p, m)]
      BY <2>1 DEF AfterPush, m
    <3>4. QED BY <2>1, <3>2, <3>3
  <2>8. QED BY <2>4, <2>5, <2>6, <2>7 DEF Cursors, L, n
<1>6. CASE Mounting(p, name, c)
  <2> DEFINE i == LookupMnt(path)
             e == [mnt |-> i, kind |-> mnts[i].kind, stack |-> << >>, first |-> 0]
  <2>1. /\ p = << >> \/ RawPush(l, name).status = "NP"
        /\ Len(p) # Indirections /\ i # 0 /\ c = Append(p, e)
    BY <1>6 DEF Mounting, Enter
  <2>2. i \in 1 .. n /\ mnts[i].path = path
    <3> HIDE DEF path
    <3>1. i \in 0 .. Len(mnts) /\ (i # 0 => mnts[i].path = path)
      BY LookupIs
    <3> HIDE DEF i
    <3>2. QED BY <1>2, <2>1, <3>1 DEF n
  <2>3. mnts[i].kind \in {"fat", "dev"} /\ mnts[i].path \in Seq(Name)
    <3> HIDE DEF i
    <3>1. mnts[i] \in MountPlace
      BY <2>2 DEF MountsTyped, n
    <3>2. QED BY <3>1 DEF MountPlace
  <2>4. e \in L /\ e.stack = << >> /\ e.mnt = i
    <3> DEFINE kind == mnts[i].kind
    <3> HIDE DEF i, kind
    <3>1. << >> \in Stacks(tree)
      BY DEF Stacks
    <3>2. FirstOf(<< >>) = 0
      BY DEF FirstOf
    <3>3. kind \in {"fat", "dev"}
      BY <2>3 DEF kind
    <3>4. e.first = FirstOf(e.stack) /\ e.stack = << >> /\ e.mnt = i
      BY <3>2 DEF kind
    <3> DEFINE firsts == DOMAIN tree
    <3>5. 0 \in firsts
      BY <1>4
    <3> HIDE DEF firsts
    <3>6. e \in [mnt : 1 .. n, kind : {"fat", "dev"}, stack : Stacks(tree), first : firsts]
      BY <2>2, <3>1, <3>3, <3>5 DEF kind
    <3> HIDE DEF e
    <3>7. e \in LevelOf(tree, n)
      BY <3>4, <3>6 DEF LevelOf, firsts
    <3>8. QED BY <3>4, <3>7 DEF L
  <2> HIDE DEF e
  <2>5. c \in Seq(L) /\ c # << >> /\ Top(c) = e /\ Front1(c) = p
    BY <1>2, <2>1, <2>4, FrontOfAppended
  <2>6. CanonicalPath(c) = path
    <3> DEFINE place == mnts[i].path
               names == [k \in DOMAIN e.stack |-> e.stack[k].name]
    <3>1. CanonicalPath(c) = place \o names
      BY <2>4, <2>5 DEF CanonicalPath, LevelPath
    <3>2. names = << >>
      <4>1. DOMAIN e.stack = {}
        BY <2>4
      <4>2. names = [k \in {} |-> e.stack[k].name]
        BY <4>1
      <4> HIDE DEF e
      <4>3. QED BY <4>2
    <3> HIDE DEF names
    <3>3. place \in Seq(Name) /\ place = path
      BY <2>2, <2>3
    <3> HIDE DEF place
    <3>4. QED BY <3>1, <3>2, <3>3
  <2>7. Up(c) = p
    BY <2>4, <2>5 DEF Up
  <2>8. Walk(p, name).levels = c
    <3>1. EnterMount(p, i) = [status |-> "DIR_ENTRY", levels |-> c]
      BY <2>1 DEF EnterMount, Enter, e
    <3>2. TryMount(p, name) = EnterMount(p, i)
      BY DEF TryMount
    <3>3. CASE p = << >>
      BY <1>1, <3>1, <3>2, <3>3 DEF Walk
    <3>4. CASE p # << >>
      <4> DEFINE r == RawPush(l, name)
      <4>1. CohPush(l, name) = r /\ r.status = "NP"
        BY <1>1, <2>1, <3>4 DEF CohPush
      <4> HIDE DEF r
      <4>2. Walk(p, name) = AfterPush(p, name, r)
        BY <3>4, <4>1 DEF Walk
      <4>3. AfterPush(p, name, r) = TryMount(p, name)
        BY <4>1 DEF AfterPush
      <4>4. QED BY <3>1, <3>2, <4>2, <4>3
    <3>5. QED BY <3>3, <3>4
  <2>9. QED BY <2>5, <2>6, <2>7, <2>8 DEF Cursors, L, n
<1>7. QED BY <1>5, <1>6 DEF Descends

\* Where a mount point is tried, the iterator stays or goes down.
LEMMA TryMountTo ==
    ASSUME NEW p, NEW name \in Name, p = << >> \/ RawPush(Top(p), name).status = "NP"
    PROVE  TryMount(p, name).levels = p \/ Descends(p, name, TryMount(p, name).levels)
<1> DEFINE i == LookupMnt(Append(CanonicalPath(p), name))
           t == TryMount(p, name)
<1>1. t = EnterMount(p, i)
  BY DEF TryMount
<1>2. \/ t = [status |-> "NP", levels |-> p]
      \/ t = [status |-> "panic", levels |-> p]
      \/ i # 0 /\ Len(p) # Indirections /\ t = [status |-> "DIR_ENTRY", levels |-> Enter(p, i)]
  BY <1>1 DEF EnterMount
<1> HIDE DEF t
<1>3. t.levels = p \/ (i # 0 /\ Len(p) # Indirections /\ t.levels = Enter(p, i))
  BY <1>2
<1>4. QED BY <1>3 DEF Descends, Mounting, t

\* The levels after a raw push(): the same, or one step further down.
LEMMA PushTo ==
    ASSUME tree \in Trees, MountsTyped, NEW p \in Cursors(tree, Len(mnts)), p # << >>,
           NEW name \in Asked
    PROVE  LET r == RawPush(Top(p), name)
           IN  /\ Replace(p, r.level) = p \/ Descends(p, name, Replace(p, r.level))
               /\ r.status # "UNDERRUN"
               /\ r.status = "NP" => r.level = Top(p)
<1> DEFINE l == Top(p)
           r == RawPush(l, name)
           n == Len(mnts)
<1>1. n \in Nat /\ p \in Seq(LevelOf(tree, n))
  BY DEF MountsTyped, Cursors
<1>2. l \in LevelOf(tree, n) /\ Replace(p, l) = p
  BY <1>1, Replaced
<1> HIDE DEF l, n
<1>3. /\ r.status \in {"thrown", "NP", "DIR_ENTRY", "FILE_ENTRY"}
      /\ r.status # "DIR_ENTRY" => r.level = l
      /\ r.status = "DIR_ENTRY" => l.kind = "fat" /\ name \in Name
  BY <1>1, <1>2, RawPushIs
<1>4. r.status = "DIR_ENTRY" => Descends(p, name, Replace(p, r.level))
  BY <1>3 DEF Descends, Entering, RawPush, l
<1> HIDE DEF r
<1>5. /\ Replace(p, r.level) = p \/ Descends(p, name, Replace(p, r.level))
      /\ r.status # "UNDERRUN"
      /\ r.status = "NP" => r.level = l
  BY <1>2, <1>3, <1>4
<1>6. QED BY <1>5 DEF r, l

\* operator<< leaves the iterator where it is, or leads it a step down, or a step up.
LEMMA WalkTo ==
    ASSUME tree \in Trees, MountsTyped, NEW p \in Cursors(tree, Len(mnts)), NEW name \in Asked
    PROVE  \/ Walk(p, name).levels = p
           \/ Descends(p, name, Walk(p, name).levels)
           \/ p # << >> /\ Walk(p, name).levels = Up(p)
<1> DEFINE l == Top(p)
           w == Walk(p, name)
<1>1. name \in {".", ".."} \/ name \in Name
  BY DEF Asked
<1>2. CASE p = << >>
  <2>1. CASE name \in {".", ".."}
    <3>1. w = [status |-> "DIR_ENTRY", levels |-> p]
      BY <1>2, <2>1 DEF Walk
    <3>2. w.levels = p
      BY <3>1
    <3>3. QED BY <3>2
  <2>2. CASE name \notin {".", ".."}
    <3>1. w = TryMount(p, name)
      BY <1>2, <2>2 DEF Walk
    <3>2. QED BY <1>1, <1>2, <2>2, <3>1, TryMountTo
  <2>3. QED BY <2>1, <2>2
<1>3. CASE p # << >>
  <2> DEFINE r == CohPush(l, name)
  <2>1. w = AfterPush(p, name, r)
    BY <1>3 DEF Walk
  <2>2. CASE name = ".."
    <3>1. CASE l.stack # << >>
      <4>1. r = [status |-> "DIR_ENTRY", level |-> FatPop(l)]
        BY <2>2, <3>1 DEF CohPush
      <4>2. w = [status |-> "DIR_ENTRY", levels |-> Replace(p, FatPop(l))]
        <5> HIDE DEF r, w
        <5>1. r.status = "DIR_ENTRY" /\ r.level = FatPop(l)
          BY <4>1
        <5>2. QED BY <2>1, <5>1 DEF AfterPush
      <4> HIDE DEF w
      <4>3. w.levels = Replace(p, FatPop(l))
        BY <4>2
      <4>4. QED BY <1>3, <3>1, <4>3 DEF Up, w
    <3>2. CASE l.stack = << >>
      <4>1. r = [status |-> "UNDERRUN", level |-> l]
        BY <2>2, <3>2 DEF CohPush
      <4>2. w = [status |-> "DIR_ENTRY", levels |-> Front1(p)]
        <5> HIDE DEF r, w
        <5>1. r.status = "UNDERRUN"
          BY <4>1
        <5>2. QED BY <2>1, <5>1 DEF AfterPush
      <4> HIDE DEF w
      <4>3. w.levels = Front1(p)
        BY <4>2
      <4>4. QED BY <1>3, <3>2, <4>3 DEF Up, w
    <3>3. QED BY <3>1, <3>2
  <2>3. CASE name = "."
    <3>1. r = [status |-> "DIR_ENTRY", level |-> l]
      BY <2>3 DEF CohPush
    <3>2. w = [status |-> "DIR_ENTRY", levels |-> Replace(p, l)]
      <4> HIDE DEF r, w
      <4>1. r.status = "DIR_ENTRY" /\ r.level = l
        BY <3>1
      <4>2. QED BY <2>1, <4>1 DEF AfterPush
    <3>3. Replace(p, l) = p
      BY <1>3, Replaced DEF Cursors
    <3> HIDE DEF w
    <3>4. w.levels = p
      BY <3>2, <3>3
    <3>5. QED BY <3>4 DEF w
  <2>4. CASE name \notin {".", ".."}
    <3>1. r = RawPush(l, name)
      BY <2>4 DEF CohPush
    <3>2. /\ Replace(p, r.level) = p \/ Descends(p, name, Replace(p, r.level))
          /\ r.status # "UNDERRUN"
      BY <1>3, <3>1, PushTo
    <3> HIDE DEF r
    <3>3. CASE r.status = "NP"
      <4>1. w = TryMount(p, name)
        BY <2>1, <3>3 DEF AfterPush
      <4>2. RawPush(Top(p), name).status = "NP"
        BY <3>1, <3>3
      <4>3. QED BY <1>1, <2>4, <4>1, <4>2, TryMountTo
    <3>4. CASE r.status # "NP"
      <4>1. w = [status |-> r.status, levels |-> Replace(p, r.level)]
        BY <2>1, <3>2, <3>4 DEF AfterPush
      <4> HIDE DEF w
      <4>2. w.levels = Replace(p, r.level)
        BY <4>1
      <4>3. QED BY <3>2, <4>2 DEF w
    <3>5. QED BY <3>3, <3>4
  <2>5. QED BY <2>2, <2>3, <2>4
<1>4. QED BY <1>2, <1>3

\* open_file() leaves the iterator where it is, or leads it a step down.
LEMMA OpenTo ==
    ASSUME tree \in Trees, MountsTyped, NEW p \in Cursors(tree, Len(mnts)), NEW name \in Asked
    PROVE  OpenAt(p, name).levels = p \/ Descends(p, name, OpenAt(p, name).levels)
<1> DEFINE l == Top(p)
           r == RawPush(l, name)
           o == CohOpen(l, name)
           a == OpenAt(p, name)
<1>1. CASE p = << >>
  <2>1. a = [status |-> "null", levels |-> p]
    BY <1>1 DEF OpenAt
  <2> HIDE DEF a
  <2>2. a.levels = p
    BY <2>1
  <2>3. QED BY <2>2 DEF a
<1>2. CASE p # << >>
  <2>1. o.level = r.level
    BY DEF CohOpen, OpenPushed
  <2>2. a = [status |-> o.status, levels |-> Replace(p, o.level)]
    BY <1>2 DEF OpenAt, AfterOpen
  <2>3. Replace(p, r.level) = p \/ Descends(p, name, Replace(p, r.level))
    BY <1>2, PushTo
  <2> HIDE DEF a, o, r
  <2>4. a.levels = Replace(p, r.level)
    BY <2>1, <2>2
  <2>5. QED BY <2>3, <2>4 DEF a
<1>3. QED BY <1>1, <1>2

--------------------------------------------------------------------------------
(* The iterator is where its canonical path says *)

\* A path with one more name is followed by one more step.
LEMMA FollowStep ==
    ASSUME NEW path \in Seq(Name), NEW name \in Name
    PROVE  Follow(Append(path, name)) = Walk(Follow(path), name).levels
<1> DEFINE N == Len(path)
           longer == Append(path, name)
<1>1. /\ N \in Nat /\ Len(longer) = N + 1 /\ longer[N + 1] = name
      /\ \A i \in 1 .. N : longer[i] = path[i]
  OBVIOUS
<1> HIDE DEF longer
<1>2. PICK f : /\ f[0] = << >>
               /\ \A i \in 1 .. N : f[i] = Walk(f[i - 1], path[i]).levels
               /\ Follow(path) = f[N]
  BY FollowIs
<1> HIDE DEF N
<1>3. PICK g : /\ g[0] = << >>
               /\ \A i \in 1 .. Len(longer) : g[i] = Walk(g[i - 1], longer[i]).levels
               /\ Follow(longer) = g[Len(longer)]
  <2>1. Len(longer) \in Nat
    BY <1>1
  <2>2. QED BY <2>1, FollowIs
<1> DEFINE T == {k \in 0 .. N : f[k] = g[k]}
<1>4. 0 \in T
  BY <1>1, <1>2, <1>3
<1>5. ASSUME NEW k \in 0 .. N - 1, k \in T PROVE k + 1 \in T
  <2>1. k + 1 \in 1 .. N /\ k + 1 \in 1 .. Len(longer) /\ (k + 1) - 1 = k /\ k + 1 \in 0 .. N
    BY <1>1
  <2>2. f[k + 1] = Walk(f[k], path[k + 1]).levels /\ g[k + 1] = Walk(g[k], longer[k + 1]).levels
    BY <1>2, <1>3, <2>1
  <2>3. QED BY <1>1, <1>5, <2>1, <2>2
<1> HIDE DEF T
<1>6. N \in T
  <2>1. 0 .. N \subseteq T
    BY <1>1, <1>4, <1>5, InductionUpTo
  <2>2. QED BY <1>1, <2>1
<1>7. f[N] = g[N]
  BY <1>6 DEF T
<1>8. g[N + 1] = Walk(g[N], name).levels
  <2>1. N + 1 \in 1 .. Len(longer) /\ (N + 1) - 1 = N
    BY <1>1
  <2>2. QED BY <1>1, <1>3, <2>1
<1>9. QED BY <1>1, <1>2, <1>3, <1>7, <1>8 DEF longer

\* Every iterator of a trail is found again by its canonical path.
LEMMA TrailFollowed ==
    ASSUME tree \in Trees, MountsTyped, NEW n, NEW W, NEW c, Trail(W, n, c)
    PROVE  Follow(CanonicalPath(c)) = c
<1> DEFINE C == Cursors(tree, Len(mnts))
           T == {k \in 0 .. n : Follow(CanonicalPath(W[k])) = W[k]}
<1>1. /\ n \in Nat /\ W \in [0 .. n -> C] /\ W[0] = << >> /\ W[n] = c
      /\ \A i \in 1 .. n : \E name \in Name : Descends(W[i - 1], name, W[i])
  BY DEF Trail
<1> HIDE DEF C
<1>2. 0 \in T
  <2>1. CanonicalPath(<< >>) = << >>
    BY DEF CanonicalPath
  <2>2. Follow(<< >>) = << >>
    <3>1. PICK f : f[0] = << >> /\ Follow(<< >>) = f[Len(<< >>)]
      <4>1. Len(<< >>) \in Nat
        OBVIOUS
      <4>2. QED BY <4>1, FollowIs
    <3>2. Len(<< >>) = 0
      OBVIOUS
    <3>3. QED BY <3>1, <3>2
  <2>3. QED BY <1>1, <2>1, <2>2
<1>3. ASSUME NEW k \in 0 .. n - 1, k \in T PROVE k + 1 \in T
  <2>1. k + 1 \in 1 .. n /\ (k + 1) - 1 = k /\ k + 1 \in 0 .. n /\ k \in 0 .. n
    BY <1>1
  <2>2. PICK name \in Name : Descends(W[k], name, W[k + 1])
    BY <1>1, <2>1
  <2>3. W[k] \in C
    BY <1>1, <2>1
  <2>4. /\ Walk(W[k], name).levels = W[k + 1]
        /\ CanonicalPath(W[k + 1]) = Append(CanonicalPath(W[k]), name)
    BY <2>2, <2>3, DescentIs DEF C
  <2>5. CanonicalPath(W[k]) \in Seq(Name)
    BY <2>3, PathTyped DEF C
  <2>6. Follow(CanonicalPath(W[k + 1])) = Walk(Follow(CanonicalPath(W[k])), name).levels
    BY <2>4, <2>5, FollowStep
  <2>7. QED BY <1>3, <2>1, <2>4, <2>6
<1> HIDE DEF T
<1>4. 0 .. n \subseteq T
  BY <1>1, <1>2, <1>3, InductionUpTo
<1>5. n \in T
  BY <1>1, <1>4
<1>6. QED BY <1>1, <1>5 DEF T

\* A trail goes on by a step down.
LEMMA TrailDown ==
    ASSUME tree \in Trees, MountsTyped, NEW n, NEW W, NEW c, Trail(W, n, c), NEW name,
           NEW d, Descends(c, name, d)
    PROVE  \E V : Trail(V, n + 1, d)
<1> DEFINE C == Cursors(tree, Len(mnts))
           V == [i \in 0 .. n + 1 |-> IF i = n + 1 THEN d ELSE W[i]]
<1>1. /\ n \in Nat /\ W \in [0 .. n -> C] /\ W[0] = << >> /\ W[n] = c
      /\ \A i \in 1 .. n : \E nm \in Name : Descends(W[i - 1], nm, W[i])
  BY DEF Trail
<1>2. c \in C /\ d \in C /\ name \in Name
  <2>1. c \in C
    BY <1>1
  <2>2. d \in C
    BY <2>1, DescentIs
  <2>3. QED BY <2>1, <2>2 DEF Descends
<1> HIDE DEF C
<1>3. V \in [0 .. n + 1 -> C] /\ V[n + 1] = d /\ \A i \in 0 .. n : V[i] = W[i]
  BY <1>1, <1>2
<1> HIDE DEF V
<1>4. ASSUME NEW i \in 1 .. n + 1 PROVE \E nm \in Name : Descends(V[i - 1], nm, V[i])
  <2>1. CASE i = n + 1
    <3>1. i - 1 = n /\ n \in 0 .. n
      BY <1>1, <2>1
    <3>2. V[i - 1] = c /\ V[i] = d
      BY <1>1, <1>3, <2>1, <3>1
    <3>3. QED BY <1>2, <3>2
  <2>2. CASE i # n + 1
    <3>1. i \in 1 .. n /\ i - 1 \in 0 .. n /\ i \in 0 .. n
      BY <1>1, <2>2
    <3>2. QED BY <1>1, <1>3, <3>1
  <2>3. QED BY <2>1, <2>2
<1>5. V[0] = << >> /\ n + 1 \in Nat
  <2>1. 0 \in 0 .. n
    BY <1>1
  <2>2. QED BY <1>1, <1>3, <2>1
<1>6. Trail(V, n + 1, d)
  BY <1>3, <1>4, <1>5 DEF Trail, C
<1>7. QED BY <1>6

\* A trail without its last step leads to where a step up does.
LEMMA TrailUp ==
    ASSUME tree \in Trees, MountsTyped, NEW n, NEW W, NEW c, Trail(W, n, c), c # << >>
    PROVE  \E V : Trail(V, n - 1, Up(c))
<1> DEFINE C == Cursors(tree, Len(mnts))
           V == [i \in 0 .. n - 1 |-> W[i]]
<1>1. /\ n \in Nat /\ W \in [0 .. n -> C] /\ W[0] = << >> /\ W[n] = c
      /\ \A i \in 1 .. n : \E name \in Name : Descends(W[i - 1], name, W[i])
  BY DEF Trail
<1>2. n # 0
  BY <1>1
<1>3. PICK name \in Name : Descends(W[n - 1], name, W[n])
  BY <1>1, <1>2
<1>4. Up(c) = W[n - 1]
  <2>1. W[n - 1] \in C
    BY <1>1, <1>2
  <2>2. Descends(W[n - 1], name, c)
    BY <1>1, <1>3
  <2>3. QED BY <2>1, <2>2, DescentIs
<1> HIDE DEF C
<1>5. V \in [0 .. n - 1 -> C] /\ \A i \in 0 .. n - 1 : V[i] = W[i]
  BY <1>1
<1> HIDE DEF V
<1>6. n - 1 \in Nat /\ V[0] = << >> /\ V[n - 1] = Up(c)
  <2>1. n - 1 \in Nat /\ 0 \in 0 .. n - 1 /\ n - 1 \in 0 .. n - 1
    BY <1>1, <1>2
  <2>2. QED BY <1>1, <1>4, <1>5, <2>1
<1>7. \A i \in 1 .. n - 1 : \E nm \in Name : Descends(V[i - 1], nm, V[i])
  <2>1. \A i \in 1 .. n - 1 : i \in 0 .. n - 1 /\ i - 1 \in 0 .. n - 1 /\ i \in 1 .. n
    BY <1>1
  <2>2. QED BY <1>1, <1>5, <2>1
<1>8. Trail(V, n - 1, Up(c))
  BY <1>5, <1>6, <1>7 DEF Trail, C
<1>9. QED BY <1>8

\* A mount leaves what the iterator has gone down to as it is: the mounts that are there
\* keep their numbers, and the first one at a place is the one that counts.
LEMMA MountKeeps ==
    ASSUME PathInv, NEW m \in Mountable, Mount(m[1], m[2])
    PROVE  PathInv'
<1> DEFINE n == Len(mnts)
           new == [kind |-> m[1], path |-> m[2]]
           C == Cursors(tree, n)
           D == Cursors(tree, n + 1)
<1>1. tree \in Trees /\ mnts \in Seq(MountPlace) /\ MountsTyped /\ n \in Nat
  BY DEF PathInv, MountsTyped
<1>2. new \in MountPlace
  BY RootFsAssumption DEF MountPlace
<1>3. mnts' = Append(mnts, new) /\ UNCHANGED <<tree, cur>>
  BY DEF Mount
<1> HIDE DEF new
<1>4. /\ mnts' \in Seq(MountPlace) /\ Len(mnts') = n + 1 /\ mnts'[n + 1] = new
      /\ \A i \in 1 .. n : mnts'[i] = mnts[i]
  BY <1>1, <1>2, <1>3
<1>5. MountsTyped'
  BY <1>4 DEF MountsTyped
<1> HIDE DEF n
<1>6. ASSUME NEW path, LookupMnt(path) # 0
      PROVE  LookupMnt(path)' = LookupMnt(path) /\ LookupMnt(path) \in 1 .. n
  <2> DEFINE i == FirstAt(mnts, path)
             j == FirstAt(mnts', path)
  <2>1. LookupMnt(path) = i /\ LookupMnt(path)' = j
    BY DEF LookupMnt, FirstAt
  <2>2. /\ i \in 0 .. n /\ i # 0 /\ mnts[i].path = path
        /\ \A k \in 1 .. n : mnts[k].path = path => i <= k
    BY <1>1, <1>6, <2>1, FirstAtIs DEF n
  <2>3. /\ j \in 0 .. n + 1
        /\ j # 0 => /\ mnts'[j].path = path
                    /\ \A k \in 1 .. n + 1 : mnts'[k].path = path => j <= k
        /\ j = 0 => \A k \in 1 .. n + 1 : mnts'[k].path # path
    BY <1>4, FirstAtIs
  <2> HIDE DEF i, j
  <2>4. i \in 1 .. n /\ i \in 1 .. n + 1 /\ mnts'[i].path = path
    BY <1>1, <1>4, <2>2
  <2>5. j # 0
    BY <2>3, <2>4
  <2>6. j <= i /\ j \in 1 .. n
    BY <1>1, <2>3, <2>4, <2>5
  <2>7. mnts[j].path = path
    BY <1>4, <2>3, <2>5, <2>6
  <2>8. i <= j
    BY <2>2, <2>6, <2>7
  <2>9. i = j
    BY <2>4, <2>6, <2>8
  <2>10. QED BY <2>1, <2>4, <2>9
<1>7. C \subseteq D
  <2>1. 1 .. n \subseteq 1 .. n + 1
    BY <1>1
  <2>2. LevelOf(tree, n) \subseteq LevelOf(tree, n + 1)
    <3> DEFINE firsts == DOMAIN tree
    <3> HIDE DEF firsts
    <3>1. [mnt : 1 .. n, kind : {"fat", "dev"}, stack : Stacks(tree), first : firsts]
             \subseteq [mnt : 1 .. n + 1, kind : {"fat", "dev"}, stack : Stacks(tree),
                        first : firsts]
      BY <2>1
    <3>2. QED BY <3>1 DEF LevelOf, firsts
  <2> DEFINE A == LevelOf(tree, n)
             B == LevelOf(tree, n + 1)
  <2> HIDE DEF A, B
  <2>3. A \subseteq B => Seq(A) \subseteq Seq(B)
    OBVIOUS
  <2>4. QED BY <2>2, <2>3 DEF A, B, Cursors
<1>8. ASSUME NEW p \in C PROVE CanonicalPath(p)' = CanonicalPath(p)
  <2>1. CASE p = << >>
    BY <2>1 DEF CanonicalPath
  <2>2. CASE p # << >>
    <3> DEFINE l == Top(p)
    <3>1. l \in LevelOf(tree, n)
      BY <2>2, Replaced DEF Cursors
    <3>2. l.mnt \in 1 .. n
      BY <3>1 DEF LevelOf
    <3>3. mnts'[l.mnt] = mnts[l.mnt]
      BY <1>4, <3>2
    <3>4. LevelPath(l)' = LevelPath(l)
      BY <3>3 DEF LevelPath
    <3>5. QED BY <2>2, <3>4 DEF CanonicalPath
  <2>3. QED BY <2>1, <2>2
<1>9. ASSUME NEW p \in C, NEW name, NEW c, Descends(p, name, c)
      PROVE  Descends(p, name, c)'
  <2>1. CASE Entering(p, name, c)
    <3>1. Entering(p, name, c)'
      BY <1>3, <2>1 DEF Entering, FatPush
    <3>2. QED BY <1>9, <3>1 DEF Descends
  <2>2. CASE Mounting(p, name, c)
    <3> DEFINE path == Append(CanonicalPath(p), name)
               i == LookupMnt(path)
    <3>1. RawPush(Top(p), name)' = RawPush(Top(p), name)
      BY <1>3 DEF RawPush, FatPush, DevPush
    <3>2. Append(CanonicalPath(p), name)' = path
      BY <1>8
    <3>3. /\ p = << >> \/ RawPush(Top(p), name).status = "NP"
          /\ Len(p) # Indirections /\ i # 0 /\ c = Enter(p, i)
      BY <2>2 DEF Mounting
    <3>4. LookupMnt(Append(CanonicalPath(p), name))' = i /\ i \in 1 .. n
      <4>1. PICK x : x = path
        OBVIOUS
      <4>2. LookupMnt(x) # 0
        BY <3>3, <4>1
      <4>3. LookupMnt(x)' = LookupMnt(x) /\ LookupMnt(x) \in 1 .. n
        BY <1>6, <4>2
      <4>4. Append(CanonicalPath(p), name)' = x
        BY <3>2, <4>1
      <4>5. LookupMnt(Append(CanonicalPath(p), name))' = LookupMnt(x)'
        BY <4>4 DEF LookupMnt
      <4>6. QED BY <4>1, <4>3, <4>5
    <3>5. c = Enter(p, i)'
      BY <1>4, <3>3, <3>4 DEF Enter
    <3>6. Mounting(p, name, c)'
      BY <3>1, <3>3, <3>4, <3>5 DEF Mounting
    <3>7. QED BY <1>9, <3>6 DEF Descends
  <2>3. QED BY <1>9, <2>1, <2>2 DEF Descends
<1>10. PICK k, W : Trail(W, k, cur)
  BY DEF PathInv
<1>11. Trail(W, k, cur)'
  <2>1. /\ k \in Nat /\ W \in [0 .. k -> C] /\ W[0] = << >> /\ W[k] = cur
        /\ \A i \in 1 .. k : \E name \in Name : Descends(W[i - 1], name, W[i])
    BY <1>10 DEF Trail, n
  <2>2. W \in [0 .. k -> D]
    BY <1>7, <2>1
  <2>3. ASSUME NEW i \in 1 .. k PROVE \E name \in Name : Descends(W[i - 1], name, W[i])'
    <3>1. W[i - 1] \in C
      BY <2>1
    <3>2. QED BY <1>9, <2>1, <3>1
  <2>4. D = Cursors(tree, Len(mnts))'
    BY <1>3, <1>4
  <2>5. QED BY <1>3, <2>1, <2>2, <2>3, <2>4 DEF Trail
<1>12. QED BY <1>1, <1>3, <1>5, <1>11 DEF PathInv

\* At first the iterator has no levels, and its trail is the empty one.
LEMMA InitPathInv == PathInit => PathInv
<1> SUFFICES ASSUME PathInit PROVE PathInv
  OBVIOUS
<1>1. tree \in Trees /\ mnts = << >> /\ cur = << >>
  BY DEF PathInit
<1>2. MountsTyped
  BY <1>1 DEF MountsTyped
<1> DEFINE W == [i \in 0 .. 0 |-> << >>]
<1>3. W \in [0 .. 0 -> Cursors(tree, Len(mnts))] /\ W[0] = << >>
  <2>1. << >> \in Cursors(tree, Len(mnts))
    BY DEF Cursors
  <2>2. QED BY <2>1
<1> HIDE DEF W
<1>4. Trail(W, 0, cur)
  BY <1>1, <1>3 DEF Trail
<1>5. QED BY <1>1, <1>2, <1>4 DEF PathInv

\* Every step keeps the invariant.
LEMMA NextPathInv == PathInv /\ [PathNext]_pathVars => PathInv'
<1> SUFFICES ASSUME PathInv, [PathNext]_pathVars PROVE PathInv'
  OBVIOUS
<1>1. tree \in Trees /\ MountsTyped /\ \E n, W : Trail(W, n, cur)
  BY DEF PathInv
<1>2. PICK n, W : Trail(W, n, cur)
  BY <1>1
<1>3. cur \in Cursors(tree, Len(mnts))
  BY <1>2 DEF Trail
<1>4. ASSUME UNCHANGED <<tree, mnts>>, \E k, V : Trail(V, k, cur') PROVE PathInv'
  <2>1. PICK k, V : Trail(V, k, cur')
    BY <1>4
  <2>2. Trail(V, k, cur)'
    <3>1. ASSUME NEW p, NEW name, NEW c, Descends(p, name, c) PROVE Descends(p, name, c)'
      <4>1. Entering(p, name, c)' <=> Entering(p, name, c)
        BY <1>4 DEF Entering, FatPush
      <4>2. RawPush(Top(p), name)' = RawPush(Top(p), name)
        BY <1>4 DEF RawPush, FatPush, DevPush
      <4>3. CanonicalPath(p)' = CanonicalPath(p)
        BY <1>4 DEF CanonicalPath, LevelPath
      <4>4. LookupMnt(Append(CanonicalPath(p), name))' = LookupMnt(Append(CanonicalPath(p), name))
        BY <1>4, <4>3 DEF LookupMnt
      <4>5. Mounting(p, name, c)' <=> Mounting(p, name, c)
        BY <1>4, <4>2, <4>4 DEF Mounting, Enter
      <4>6. QED BY <3>1, <4>1, <4>5 DEF Descends
    <3>2. \A i \in 1 .. k : \E name \in Name : Descends(V[i - 1], name, V[i])
      BY <2>1 DEF Trail
    <3>3. \A i \in 1 .. k : \E name \in Name : Descends(V[i - 1], name, V[i])'
      BY <3>1, <3>2
    <3>4. QED BY <1>4, <2>1, <3>3 DEF Trail
  <2>3. QED BY <1>1, <1>4, <2>2 DEF PathInv, MountsTyped
<1>5. ASSUME NEW m \in Mountable, Mount(m[1], m[2]) PROVE PathInv'
  BY <1>5, MountKeeps
<1>6. CASE GetIterator
  <2> DEFINE V == [i \in 0 .. 0 |-> << >>]
  <2>2. V \in [0 .. 0 -> Cursors(tree, Len(mnts))] /\ V[0] = << >>
    <3>1. << >> \in Cursors(tree, Len(mnts))
      BY DEF Cursors
    <3>2. QED BY <3>1
  <2> HIDE DEF V
  <2>3. Trail(V, 0, cur')
    BY <1>6, <2>2 DEF Trail, GetIterator
  <2>4. QED BY <1>4, <1>6, <2>3 DEF GetIterator
<1>7. ASSUME NEW name \in Asked, Traverse(name) PROVE PathInv'
  <2>1. cur' = Walk(cur, name).levels /\ UNCHANGED <<tree, mnts>>
    BY <1>7 DEF Traverse, Returns
  <2>2. \E k, V : Trail(V, k, cur')
    <3>1. CASE Walk(cur, name).levels = cur
      BY <1>2, <2>1, <3>1
    <3>2. CASE Descends(cur, name, Walk(cur, name).levels)
      BY <1>1, <1>2, <2>1, <3>2, TrailDown
    <3>3. CASE cur # << >> /\ Walk(cur, name).levels = Up(cur)
      BY <1>1, <1>2, <2>1, <3>3, TrailUp
    <3>4. QED BY <1>1, <1>3, <3>1, <3>2, <3>3, WalkTo
  <2>3. QED BY <1>4, <2>1, <2>2
<1>8. ASSUME NEW name \in Asked, OpenName(name) PROVE PathInv'
  <2>1. cur' = OpenAt(cur, name).levels /\ UNCHANGED <<tree, mnts>>
    BY <1>8 DEF OpenName, Returns
  <2>2. \E k, V : Trail(V, k, cur')
    <3>1. CASE OpenAt(cur, name).levels = cur
      BY <1>2, <2>1, <3>1
    <3>2. CASE Descends(cur, name, OpenAt(cur, name).levels)
      BY <1>1, <1>2, <2>1, <3>2, TrailDown
    <3>3. QED BY <1>1, <1>3, <3>1, <3>2, OpenTo
  <2>3. QED BY <1>4, <2>1, <2>2
<1>9. CASE UNCHANGED pathVars
  BY <1>2, <1>4, <1>9 DEF pathVars
<1>10. QED BY <1>5, <1>6, <1>7, <1>8, <1>9 DEF PathNext

\* The iterator is always where its canonical path says.
THEOREM IteratorTrue == PathSpec => []CursorTrue
<1>1. PathInv => CursorTrue
  <2> SUFFICES ASSUME PathInv PROVE CursorTrue
    OBVIOUS
  <2>1. PICK n, W : Trail(W, n, cur)
    BY DEF PathInv
  <2>2. tree \in Trees /\ MountsTyped
    BY DEF PathInv
  <2>3. QED BY <2>1, <2>2, TrailFollowed DEF CursorTrue
<1>2. QED BY <1>1, InitPathInv, NextPathInv, PTL DEF PathSpec

--------------------------------------------------------------------------------
(* What list() shows, push() finds *)

Shown(listed, name) == \E i \in DOMAIN listed : listed[i].name = name

\* A search by list() and one by push(), of the same entries: as long as the former throws
\* no exception, the latter has found what is shown and nothing else.
Alike(l, p) ==
    p.at = l.at /\ p.n = l.n /\ p.sum = l.sum /\ p.long = l.long /\ p.found = l.found

Together(l, p, name) ==
    \/ l.at = "thrown"
    \/ l.at \in {"scan", "end"} /\ p.at = "match" /\ Shown(l.listed, name)
    \/ l.at \in {"scan", "end"} /\ Alike(l, p) /\ ~Shown(l.listed, name)

\* What is shown after one more entry.
LEMMA ShownAppended ==
    ASSUME NEW S, NEW listed \in Seq(S), NEW x \in S, NEW name
    PROVE  Shown(Append(listed, x), name) <=> Shown(listed, name) \/ x.name = name
<1> DEFINE n == Len(listed)
           longer == Append(listed, x)
<1>1. /\ n \in Nat /\ DOMAIN listed = 1 .. n /\ DOMAIN longer = 1 .. n + 1
      /\ longer[n + 1] = x /\ \A i \in 1 .. n : longer[i] = listed[i]
  OBVIOUS
<1> HIDE DEF n, longer
<1>2. \A i \in 1 .. n + 1 : i \in 1 .. n \/ i = n + 1
  BY <1>1
<1>3. n + 1 \in 1 .. n + 1 /\ 1 .. n \subseteq 1 .. n + 1
  BY <1>1
<1>4. QED BY <1>1, <1>2, <1>3 DEF Shown, longer

\* What a piece of a long name does to a search.
PieceEffect(search, s, e, u) ==
    LET starts == s.n = -1
    IN  /\ u.at \in {"scan", "thrown"} /\ u.listed = s.listed
        /\ u.at = "scan" <=>
              /\ s.n # 0
              /\ IF starts THEN e.last \/ Lax(search)
                 ELSE ~e.last /\ e.ord = s.n /\ e.sum = s.sum
        /\ u.at = "scan" => /\ u.n = (IF starts THEN e.ord ELSE s.n) - 1
                            /\ u.sum = (IF starts THEN e.sum ELSE s.sum)
                            /\ u.long = TRUE /\ u.found = e.name

\* Reading a piece has this effect.
LEMMA PieceRead ==
    ASSUME NEW firsts, NEW search, NEW s \in SearchState(firsts), s.at = "scan", NEW e,
           e.kind = "long"
    PROVE  PieceEffect(search, s, e, Step(search, s, e))
<1> DEFINE u == Step(search, s, e)
           starts == s.n = -1
           fits == IF starts THEN e.last \/ Lax(search)
                   ELSE ~e.last /\ e.ord = s.n /\ e.sum = s.sum
           n == (IF starts THEN e.ord ELSE s.n) - 1
           sum == IF starts THEN e.sum ELSE s.sum
           v == [s EXCEPT !.n = n, !.sum = sum, !.long = TRUE, !.found = e.name]
           t == [s EXCEPT !.at = "thrown"]
<1>1. u = IF s.n = 0 \/ ~fits THEN t ELSE v
  BY DEF Step, ReadPiece, Leave
<1>2. t.at = "thrown" /\ t.listed = s.listed
  BY DEF SearchState
<1>3. /\ v.at = "scan" /\ v.listed = s.listed /\ v.n = n /\ v.sum = sum /\ v.long = TRUE
      /\ v.found = e.name
  <2> HIDE DEF n, sum
  <2>1. QED BY DEF SearchState
<1> HIDE DEF v, t, u, fits, n, sum
<1>4. CASE s.n = 0 \/ ~fits
  <2>1. u.at = "thrown" /\ u.listed = s.listed
    BY <1>1, <1>2, <1>4
  <2>2. QED BY <1>4, <2>1 DEF u, fits, PieceEffect
<1>5. CASE s.n # 0 /\ fits
  <2>1. /\ u.at = "scan" /\ u.listed = s.listed /\ u.n = n /\ u.sum = sum /\ u.long = TRUE
        /\ u.found = e.name
    BY <1>1, <1>3, <1>5
  <2>2. QED BY <1>5, <2>1 DEF u, fits, n, sum, PieceEffect
<1>6. QED BY <1>4, <1>5

\* What an erased entry or the end does.
OtherEffect(s, e, u) ==
    /\ u.listed = s.listed
    /\ u.at = IF s.n > 0 THEN "thrown" ELSE IF e.kind = "end" THEN "end" ELSE "scan"
    /\ u.at # "thrown" =>
          u.n = -1 /\ u.sum = s.sum /\ u.long = s.long /\ u.found = s.found

\* Reading such an entry has this effect.
LEMMA OtherRead ==
    ASSUME NEW firsts, NEW search, NEW s \in SearchState(firsts), s.at = "scan", NEW e,
           e.kind \in {"erased", "end"}
    PROVE  OtherEffect(s, e, Step(search, s, e))
<1> DEFINE u == Step(search, s, e)
           reset == [s EXCEPT !.n = -1]
<1>1. u = IF s.n > 0 THEN [s EXCEPT !.at = "thrown"]
          ELSE IF e.kind = "end" THEN [reset EXCEPT !.at = "end"] ELSE reset
  BY DEF Step, ReadEntry, Leave
<1>2. /\ reset \in SearchState(firsts) /\ reset.at = "scan" /\ reset.n = -1
      /\ reset.sum = s.sum /\ reset.long = s.long /\ reset.found = s.found
      /\ reset.listed = s.listed
  BY DEF SearchState
<1> HIDE DEF u, reset
<1>3. CASE s.n > 0
  <2>1. u = [s EXCEPT !.at = "thrown"]
    BY <1>1, <1>3
  <2>2. u.at = "thrown" /\ u.listed = s.listed
    BY <2>1 DEF SearchState
  <2>3. QED BY <1>3, <2>2 DEF u, OtherEffect
<1>4. CASE ~(s.n > 0) /\ e.kind = "end"
  <2>1. u = [reset EXCEPT !.at = "end"]
    BY <1>1, <1>4
  <2>2. /\ u.at = "end" /\ u.n = -1 /\ u.sum = s.sum /\ u.long = s.long /\ u.found = s.found
        /\ u.listed = s.listed
    BY <1>2, <2>1 DEF SearchState
  <2>3. QED BY <1>4, <2>2 DEF u, OtherEffect
<1>5. CASE ~(s.n > 0) /\ e.kind # "end"
  <2>1. u = reset
    BY <1>1, <1>5
  <2>2. QED BY <1>2, <1>5, <2>1 DEF u, OtherEffect
<1>6. QED BY <1>3, <1>4, <1>5

\* What the entry of an item does.
ShortFails(search, s, e) == s.n > 0 \/ ((s.long \/ Strict(search)) /\ e.sum # s.sum)

ShortEffect(search, s, e, u) ==
    LET fails == ShortFails(search, s, e)
        lists == search.op = "list"
    IN  /\ u.at = "thrown" <=> fails
        /\ u.at = "match" <=> ~fails /\ ~lists /\ s.found = search.wanted
        /\ u.at \in {"scan", "match", "thrown"}
        /\ u.at = "match" => u.entry = e
        /\ u.at # "thrown" => /\ u.n = -1 /\ u.sum = s.sum /\ u.long = FALSE
                              /\ u.found = s.found
        /\ u.listed = IF ~fails /\ lists /\ s.found \notin Hidden
                      THEN Append(s.listed, [name |-> s.found, dir |-> e.dir])
                      ELSE s.listed

\* Reading it has this effect.
LEMMA ShortRead ==
    ASSUME NEW firsts, NEW search, NEW s \in SearchState(firsts), s.at = "scan", NEW e,
           e.kind = "short"
    PROVE  ShortEffect(search, s, e, Step(search, s, e))
<1> DEFINE u == Step(search, s, e)
           fails == s.n > 0 \/ ((s.long \/ Strict(search)) /\ e.sum # s.sum)
           lists == search.op = "list"
           reset == [s EXCEPT !.n = -1]
           v == [reset EXCEPT !.long = FALSE]
           more == Append(s.listed, [name |-> s.found, dir |-> e.dir])
           a == [v EXCEPT !.listed = more]
           m1 == [v EXCEPT !.at = "match"]
           m == [m1 EXCEPT !.entry = e]
<1>1. u = IF s.n > 0 THEN [s EXCEPT !.at = "thrown"]
          ELSE IF (s.long \/ Strict(search)) /\ e.sum # s.sum THEN [reset EXCEPT !.at = "thrown"]
          ELSE TakeEntry(search, v, e)
  BY DEF Step, ReadEntry, Leave
<1>2. /\ reset.at = "scan" /\ reset.listed = s.listed /\ reset \in SearchState(firsts)
      /\ reset.n = -1 /\ reset.sum = s.sum /\ reset.found = s.found
  BY DEF SearchState
<1> HIDE DEF reset
<1>3. /\ v.at = "scan" /\ v.n = -1 /\ v.sum = s.sum /\ v.long = FALSE /\ v.found = s.found
      /\ v.listed = s.listed /\ v \in SearchState(firsts)
  BY <1>2 DEF SearchState
<1> HIDE DEF v, more
<1>4. /\ a.at = "scan" /\ a.n = -1 /\ a.sum = s.sum /\ a.long = FALSE /\ a.found = s.found
      /\ a.listed = more
  BY <1>3 DEF SearchState
<1>5. /\ m1.at = "match" /\ m1.n = -1 /\ m1.sum = s.sum /\ m1.long = FALSE
      /\ m1.found = s.found /\ m1.listed = s.listed /\ m1 \in SearchState(firsts)
  BY <1>3 DEF SearchState
<1> HIDE DEF m1
<1>6. /\ m.at = "match" /\ m.n = -1 /\ m.sum = s.sum /\ m.long = FALSE
      /\ m.found = s.found /\ m.listed = s.listed /\ m.entry = e
  BY <1>5 DEF SearchState
<1>7. TakeEntry(search, v, e) =
         IF lists THEN IF s.found \in Hidden THEN v ELSE a
         ELSE IF s.found = search.wanted THEN m ELSE v
  BY <1>3 DEF TakeEntry, Leave, m1, more
<1> HIDE DEF a, m, u
<1>8. CASE fails
  <2>1. u = [s EXCEPT !.at = "thrown"] \/ u = [reset EXCEPT !.at = "thrown"]
    BY <1>1, <1>8
  <2>2. u.at = "thrown" /\ u.listed = s.listed
    BY <1>2, <2>1 DEF SearchState
  <2>3. QED BY <1>8, <2>2 DEF u, ShortEffect, ShortFails
<1>9. CASE ~fails
  <2>1. u = TakeEntry(search, v, e)
    BY <1>1, <1>9
  <2> DEFINE hidden == s.found \in Hidden
             same == s.found = search.wanted
  <2>2. u = IF lists THEN IF hidden THEN v ELSE a ELSE IF same THEN m ELSE v
    BY <1>7, <2>1
  <2> HIDE DEF fails, lists, hidden, same
  <2>3. /\ u.at = IF ~lists /\ same THEN "match" ELSE "scan"
        /\ u.n = -1 /\ u.sum = s.sum /\ u.long = FALSE /\ u.found = s.found
        /\ u.at = "match" => u.entry = e
        /\ u.listed = IF lists /\ ~hidden THEN more ELSE s.listed
    BY <1>3, <1>4, <1>6, <2>2
  <2>4. QED BY <1>9, <2>3 DEF u, fails, lists, hidden, same, more, ShortEffect,
     ShortFails
<1>10. QED BY <1>8, <1>9

\* They stay together with every entry.
LEMMA TogetherStep ==
    ASSUME NEW firsts, NEW root, NEW name, name \notin Hidden,
           NEW l \in SearchState(firsts), NEW p \in SearchState(firsts), Together(l, p, name),
           NEW e \in Entries(firsts)
    PROVE  Together(Step(Search("list", root, NoName), l, e),
                    Step(Search("push", root, name), p, e), name)
<1> DEFINE ls == Search("list", root, NoName)
           ps == Search("push", root, name)
           l1 == Step(ls, l, e)
           p1 == Step(ps, p, e)
<1>1. ls.op = "list" /\ ps.op = "push" /\ ps.wanted = name
  BY DEF Search
<1>2. /\ ~Lax(ls) /\ ~Strict(ps)
  BY <1>1 DEF Lax, Strict
<1> HIDE DEF ls, ps
<1>3. CASE l.at # "scan"
  <2>1. l1 = l
    BY <1>3 DEF Step
  <2>2. p.at # "scan" => p1 = p
    BY DEF Step
  <2> HIDE DEF l1, p1
  <2>3. CASE l.at = "thrown"
    BY <2>1, <2>3 DEF Together, l1, ls
  <2>4. CASE l.at # "thrown"
    <3>1. p.at # "scan"
      BY <1>3, <2>4 DEF Together, Alike
    <3>2. QED BY <2>1, <2>2, <3>1 DEF l1, p1, ls, ps
  <2>5. QED BY <2>3, <2>4
<1>4. CASE l.at = "scan"
  <2>1. e.kind \in {"long", "short", "erased", "end"}
    BY DEF Entries, Erased, End
  <2>2. \/ l1.at = "thrown"
        \/ /\ l1.at \in {"scan", "end"}
           /\ \/ l1.listed = l.listed
              \/ /\ e.kind = "short" /\ l.found \notin Hidden
                 /\ l1.listed = Append(l.listed, [name |-> l.found, dir |-> e.dir])
    <3>1. CASE e.kind = "long"
      <4>1. PieceEffect(ls, l, e, l1)
        BY <1>4, <3>1, PieceRead
      <4> HIDE DEF l1
      <4>2. QED BY <4>1 DEF PieceEffect
    <3>2. CASE e.kind = "short"
      <4>1. /\ l1.at \in {"scan", "match", "thrown"} /\ l1.at # "match"
            /\ \/ l1.listed = l.listed
               \/ /\ l.found \notin Hidden
                  /\ l1.listed = Append(l.listed, [name |-> l.found, dir |-> e.dir])
        <5>1. ShortEffect(ls, l, e, l1)
          BY <1>4, <3>2, ShortRead
        <5> HIDE DEF l1
        <5>2. QED BY <1>1, <5>1 DEF ShortEffect
      <4>2. QED BY <3>2, <4>1
    <3>3. CASE e.kind \in {"erased", "end"}
      <4>1. l1.listed = l.listed /\ l1.at \in {"thrown", "end", "scan"}
        <5>1. OtherEffect(l, e, l1)
          BY <1>4, <3>3, OtherRead
        <5> HIDE DEF l1
        <5>2. QED BY <5>1 DEF OtherEffect
      <4>2. QED BY <4>1
    <3>4. QED BY <2>1, <3>1, <3>2, <3>3
  <2>3. ASSUME e.kind = "short"
        PROVE  /\ l.listed \in Lists
               /\ [name |-> l.found, dir |-> e.dir] \in [name : Found, dir : BOOLEAN]
    <3>1. e.dir \in BOOLEAN
      BY <2>3 DEF Entries, Erased, End
    <3>2. QED BY <3>1 DEF SearchState
  <2>4. e.kind = "short" =>
           \A nm : Shown(Append(l.listed, [name |-> l.found, dir |-> e.dir]), nm)
                      <=> Shown(l.listed, nm) \/ l.found = nm
    <3> DEFINE item == [name |-> l.found, dir |-> e.dir]
    <3>1. item.name = l.found
      OBVIOUS
    <3> HIDE DEF item
    <3>2. ASSUME e.kind = "short", NEW nm
          PROVE  Shown(Append(l.listed, item), nm) <=> Shown(l.listed, nm) \/ item.name = nm
      <4> DEFINE I == [name : Found, dir : BOOLEAN]
      <4>1. item \in I
        BY <2>3, <3>2 DEF item
      <4>2. l.listed \in Seq(I)
        BY <2>3, <3>2 DEF Lists
      <4> HIDE DEF I
      <4>3. QED BY <4>1, <4>2, ShownAppended
    <3>3. QED BY <3>1, <3>2 DEF item
  <2> HIDE DEF l1, p1
  <2>5. CASE p.at = "match" /\ Shown(l.listed, name)
    <3>1. p1 = p
      BY <2>5 DEF Step, p1
    <3>2. l1.at = "thrown" \/ Shown(l1.listed, name)
      BY <2>2, <2>4, <2>5
    <3>3. QED BY <2>2, <2>5, <3>1, <3>2 DEF Together, l1, p1, ls, ps
  <2>6. CASE Alike(l, p) /\ ~Shown(l.listed, name)
    <3>1. p.at = "scan" /\ p.n = l.n /\ p.sum = l.sum /\ p.long = l.long /\ p.found = l.found
      BY <1>4, <2>6 DEF Alike
    <3>2. CASE e.kind = "long"
      <4>1. /\ l1.at \in {"scan", "thrown"} /\ l1.listed = l.listed
            /\ l1.at = "scan" =>
                  /\ l.n # 0
                  /\ IF l.n = -1 THEN e.last ELSE ~e.last /\ e.ord = l.n /\ e.sum = l.sum
                  /\ l1.n = (IF l.n = -1 THEN e.ord ELSE l.n) - 1
                  /\ l1.sum = (IF l.n = -1 THEN e.sum ELSE l.sum)
                  /\ l1.long = TRUE /\ l1.found = e.name
        <5>1. PieceEffect(ls, l, e, l1)
          BY <1>4, <3>2, PieceRead DEF l1
        <5>2. QED BY <1>2, <5>1 DEF PieceEffect
      <4>2. /\ p1.at \in {"scan", "thrown"}
            /\ p.n # 0 /\ (IF p.n = -1 THEN e.last \/ Lax(ps)
                           ELSE ~e.last /\ e.ord = p.n /\ e.sum = p.sum)
                  => p1.at = "scan"
            /\ p1.at = "scan" => /\ p1.n = (IF p.n = -1 THEN e.ord ELSE p.n) - 1
                                 /\ p1.sum = (IF p.n = -1 THEN e.sum ELSE p.sum)
                                 /\ p1.long = TRUE /\ p1.found = e.name
        <5>1. PieceEffect(ps, p, e, p1)
          BY <3>1, <3>2, PieceRead DEF p1
        <5>2. QED BY <5>1 DEF PieceEffect
      <4>3. l1.at = "scan" => Alike(l1, p1)
        BY <3>1, <4>1, <4>2 DEF Alike
      <4>4. QED BY <2>6, <4>1, <4>3 DEF Together, l1, p1, ls, ps
    <3>3. CASE e.kind \in {"erased", "end"}
      <4>1. /\ l1.listed = l.listed
            /\ l1.at = IF l.n > 0 THEN "thrown" ELSE IF e.kind = "end" THEN "end" ELSE "scan"
            /\ l1.at # "thrown" =>
                  l1.n = -1 /\ l1.sum = l.sum /\ l1.long = l.long /\ l1.found = l.found
        <5>1. OtherEffect(l, e, l1)
          BY <1>4, <3>3, OtherRead DEF l1
        <5>2. QED BY <5>1 DEF OtherEffect
      <4>2. /\ p1.at = IF p.n > 0 THEN "thrown" ELSE IF e.kind = "end" THEN "end" ELSE "scan"
            /\ p1.at # "thrown" =>
                  p1.n = -1 /\ p1.sum = p.sum /\ p1.long = p.long /\ p1.found = p.found
        <5>1. OtherEffect(p, e, p1)
          BY <3>1, <3>3, OtherRead DEF p1
        <5>2. QED BY <5>1 DEF OtherEffect
      <4>3. l1.at \in {"thrown", "end", "scan"} /\ (l1.at # "thrown" => Alike(l1, p1))
        BY <3>1, <4>1, <4>2 DEF Alike
      <4>4. QED BY <2>6, <4>1, <4>3 DEF Together, l1, p1, ls, ps
    <3>4. CASE e.kind = "short"
      <4> DEFINE item == [name |-> l.found, dir |-> e.dir]
                 lfails == ShortFails(ls, l, e)
                 pfails == ShortFails(ps, p, e)
      <4>1. /\ l1.at = "thrown" <=> lfails
            /\ l1.at \in {"scan", "match", "thrown"} /\ l1.at # "match"
            /\ l1.at # "thrown" =>
                  l1.n = -1 /\ l1.sum = l.sum /\ l1.long = FALSE /\ l1.found = l.found
            /\ l1.listed = IF ~lfails /\ l.found \notin Hidden THEN Append(l.listed, item)
                           ELSE l.listed
        <5>1. ShortEffect(ls, l, e, l1)
          BY <1>4, <3>4, ShortRead DEF l1
        <5>2. QED BY <1>1, <5>1 DEF ShortEffect
      <4>2. /\ p1.at = "thrown" <=> pfails
            /\ p1.at = "match" <=> ~pfails /\ p.found = name
            /\ p1.at \in {"scan", "match", "thrown"}
            /\ p1.at # "thrown" =>
                  p1.n = -1 /\ p1.sum = p.sum /\ p1.long = FALSE /\ p1.found = p.found
        <5>1. ShortEffect(ps, p, e, p1)
          BY <3>1, <3>4, ShortRead DEF p1
        <5>2. QED BY <1>1, <5>1 DEF ShortEffect
      <4>3. pfails => lfails
        BY <1>2, <3>1 DEF ShortFails
      <4>4. Shown(Append(l.listed, item), name) <=> l.found = name
        BY <2>4, <2>6, <3>4
      <4> HIDE DEF lfails, pfails, item
      <4>5. CASE lfails
        BY <4>1, <4>5 DEF Together, l1, ls
      <4>6. CASE ~lfails
        <5>1. l1.at = "scan" /\ ~pfails
          BY <4>1, <4>3, <4>6
        <5>2. CASE l.found = name
          <6>1. p1.at = "match"
            BY <3>1, <4>2, <5>1, <5>2
          <6>2. l1.listed = Append(l.listed, item)
            BY <4>1, <4>6, <5>2
          <6>3. QED BY <4>4, <5>1, <5>2, <6>1, <6>2 DEF Together, l1, p1, ls, ps
        <5>3. CASE l.found # name
          <6>1. p1.at = "scan"
            BY <3>1, <4>2, <5>1, <5>3
          <6>2. ~Shown(l1.listed, name)
            BY <2>6, <4>1, <4>4, <5>3
          <6>3. Alike(l1, p1)
            BY <3>1, <4>1, <4>2, <5>1, <6>1 DEF Alike
          <6>4. QED BY <5>1, <6>2, <6>3 DEF Together, l1, p1, ls, ps
        <5>4. QED BY <5>2, <5>3
      <4>7. QED BY <4>5, <4>6
    <3>5. QED BY <2>1, <3>2, <3>3, <3>4
  <2>7. QED BY <1>4, <2>5, <2>6 DEF Together
<1>5. QED BY <1>3, <1>4

\* They stay together through a block, when they begin it together.
LEMMA TogetherBlock ==
    ASSUME NEW firsts, NEW root, NEW name, name \notin Hidden,
           NEW block, Len(block) \in Nat,
           \A i \in 1 .. Len(block) : block[i] \in Entries(firsts),
           NEW f, NEW g,
           f[0] \in SearchState(firsts), g[0] \in SearchState(firsts),
           Matched(Search("list", root, NoName), f[0]), Matched(Search("push", root, name), g[0]),
           Together(f[0], g[0], name),
           \A i \in 1 .. Len(block) :
              /\ f[i] = Step(Search("list", root, NoName), f[i - 1], block[i])
              /\ g[i] = Step(Search("push", root, name), g[i - 1], block[i])
    PROVE  Together(f[Len(block)], g[Len(block)], name)
<1> DEFINE m == Len(block)
           S == SearchState(firsts)
           ls == Search("list", root, NoName)
           ps == Search("push", root, name)
           Good(i) == /\ f[i] \in S /\ g[i] \in S /\ Matched(ls, f[i]) /\ Matched(ps, g[i])
                      /\ Together(f[i], g[i], name)
           T == {i \in 0 .. m : Good(i)}
<1>1. 0 \in T
  OBVIOUS
<1>2. ASSUME NEW i \in 0 .. m - 1, i \in T PROVE i + 1 \in T
  <2>1. i + 1 \in 1 .. m /\ i + 1 \in 0 .. m /\ (i + 1) - 1 = i
    OBVIOUS
  <2>2. f[i + 1] = Step(ls, f[i], block[i + 1]) /\ g[i + 1] = Step(ps, g[i], block[i + 1])
    BY <2>1
  <2>3. block[i + 1] \in Entries(firsts)
    BY <2>1
  <2>4. Good(i)
    BY <1>2
  <2> HIDE DEF m, ls, ps, S
  <2>5. /\ Step(ls, f[i], block[i + 1]) \in S /\ Matched(ls, Step(ls, f[i], block[i + 1]))
        /\ Step(ps, g[i], block[i + 1]) \in S /\ Matched(ps, Step(ps, g[i], block[i + 1]))
    BY <2>3, <2>4, StepTyped DEF S
  <2>6. Together(Step(ls, f[i], block[i + 1]), Step(ps, g[i], block[i + 1]), name)
    BY <2>3, <2>4, TogetherStep DEF S, ls, ps
  <2>7. Good(i + 1)
    BY <2>2, <2>5, <2>6
  <2>8. QED BY <2>1, <2>7
<1> HIDE DEF T, Good
<1>3. 0 .. m \subseteq T
  <2>1. m \in Nat
    OBVIOUS
  <2> HIDE DEF m
  <2>2. QED BY <1>1, <1>2, <2>1, InductionUpTo
<1>4. m \in T
  BY <1>3
<1>5. QED BY <1>4 DEF T, Good

\* They come out of a directory together.
LEMMA TogetherScan ==
    ASSUME NEW t \in Trees, NEW d \in DOMAIN t, NEW root, NEW name, name \notin Hidden
    PROVE  Together(Scan(Search("list", root, NoName), DirBlocks(t, d)),
                    Scan(Search("push", root, name), DirBlocks(t, d)), name)
<1> DEFINE S == SearchState(DOMAIN t)
           B == DirBlocks(t, d)
           n == BlockCount(d)
           m == BlockSize(d)
           ls == Search("list", root, NoName)
           ps == Search("push", root, name)
           Lg(u) == u \in S /\ Matched(ls, u)
           Pg(u) == u \in S /\ Matched(ps, u)
<1>1. n \in Nat \ {0} /\ m \in Nat \ {0}
  BY Directories
<1>2. /\ Len(B) = n
      /\ \A k \in 1 .. n : /\ Len(B[k]) = m
                           /\ \A i \in 1 .. m : B[k][i] \in Entries(DOMAIN t)
  BY BlocksAre
<1> HIDE DEF B, n, m, ls, ps
<1>3. ASSUME NEW k \in 1 .. n, NEW listed \in Lists, NEW more \in Lists
      PROVE  /\ Lg(ScanBlock(ls, B[k], listed)) /\ Pg(ScanBlock(ps, B[k], more))
             /\ ~Shown(listed, name) =>
                   Together(ScanBlock(ls, B[k], listed), ScanBlock(ps, B[k], more), name)
             /\ \A p \in S : Pg(p) /\ p.at = "match" /\ Shown(listed, name) =>
                   Together(ScanBlock(ls, B[k], listed), p, name)
  <2> DEFINE block == B[k]
  <2>1. Len(block) = m /\ Len(block) \in Nat /\ \A i \in 1 .. m : block[i] \in Entries(DOMAIN t)
    BY <1>1, <1>2
  <2> HIDE DEF block
  <2>f. PICK f : ScansBlock(f, ls, block, listed)
    BY <2>1, ScanBlockIs
  <2>g. PICK g : ScansBlock(g, ps, block, more)
    BY <2>1, ScanBlockIs
  <2>2. /\ f[0] = Begin(listed)
        /\ \A i \in 1 .. Len(block) : f[i] = Step(ls, f[i - 1], block[i])
        /\ ScanBlock(ls, block, listed) = f[Len(block)]
    BY <2>f DEF ScansBlock
  <2>3. /\ g[0] = Begin(more)
        /\ \A i \in 1 .. Len(block) : g[i] = Step(ps, g[i - 1], block[i])
        /\ ScanBlock(ps, block, more) = g[Len(block)]
    BY <2>g DEF ScansBlock
  <2>4. Lg(ScanBlock(ls, block, listed)) /\ Pg(ScanBlock(ps, block, more))
    <3>1. block = DirBlocks(t, d)[k] /\ k \in 1 .. BlockCount(d)
      BY DEF block, B, n
    <3>2. Lg(ScanBlock(ls, block, listed))
      BY <3>1, BlockTyped
    <3>3. Pg(ScanBlock(ps, block, more))
      BY <3>1, BlockTyped
    <3>4. QED BY <3>2, <3>3
  <2>5. Lg(f[0]) /\ Pg(g[0])
    BY <1>3, <2>2, <2>3, BeginTyped
  <2>6. ~Shown(listed, name) => Together(f[0], g[0], name)
    BY <2>2, <2>3 DEF Together, Alike, Begin
  <2>7. ~Shown(listed, name) => Together(f[Len(block)], g[Len(block)], name)
    BY <2>1, <2>2, <2>3, <2>5, <2>6, TogetherBlock DEF ls, ps, S
  <2>8. ASSUME NEW p \in S, Pg(p), p.at = "match", Shown(listed, name)
        PROVE  Together(f[Len(block)], p, name)
    <3> DEFINE h == [i \in 0 .. Len(block) |-> p]
    <3>1. \A i \in 0 .. Len(block) : h[i] = p
      OBVIOUS
    <3> HIDE DEF h
    <3>2. 0 \in 0 .. Len(block) /\ Len(block) \in 0 .. Len(block)
      BY <2>1
    <3>3. \A i \in 1 .. Len(block) : h[i] = Step(ps, h[i - 1], block[i])
      <4>1. \A i \in 1 .. Len(block) : i \in 0 .. Len(block) /\ i - 1 \in 0 .. Len(block)
        BY <2>1
      <4>2. \A e : Step(ps, p, e) = p
        BY <2>8 DEF Step
      <4>3. QED BY <3>1, <4>1, <4>2
    <3>4. Pg(h[0]) /\ Together(f[0], h[0], name)
      <4>1. f[0].at = "scan" /\ f[0].listed = listed
        BY <2>2 DEF Begin
      <4>2. h[0] = p
        BY <3>1, <3>2
      <4>3. QED BY <2>8, <4>1, <4>2 DEF Together
    <3>5. Together(f[Len(block)], h[Len(block)], name)
      BY <2>1, <2>2, <2>5, <3>3, <3>4, TogetherBlock DEF ls, ps, S
    <3>6. QED BY <3>1, <3>2, <3>5
  <2> HIDE DEF Lg, Pg
  <2>9. /\ Lg(ScanBlock(ls, block, listed)) /\ Pg(ScanBlock(ps, block, more))
        /\ ~Shown(listed, name) =>
              Together(ScanBlock(ls, block, listed), ScanBlock(ps, block, more), name)
        /\ \A p \in S : Pg(p) /\ p.at = "match" /\ Shown(listed, name) =>
              Together(ScanBlock(ls, block, listed), p, name)
    BY <2>2, <2>3, <2>4, <2>7, <2>8
  <2>10. QED BY <2>9 DEF block
<1>4. PICK f : /\ f[1] = ScanBlock(ls, B[1], << >>)
               /\ \A k \in 2 .. n : f[k] = ScanNext(ls, f[k - 1], B[k])
               /\ Scan(ls, B) = f[n]
  BY <1>1, <1>2, ScanIs
<1>5. PICK g : /\ g[1] = ScanBlock(ps, B[1], << >>)
               /\ \A k \in 2 .. n : g[k] = ScanNext(ps, g[k - 1], B[k])
               /\ Scan(ps, B) = g[n]
  BY <1>1, <1>2, ScanIs
<1> DEFINE Good(k) == Lg(f[k]) /\ Pg(g[k]) /\ Together(f[k], g[k], name)
           T == {k \in 1 .. n : Good(k)}
<1> HIDE DEF Lg, Pg
<1>6. \A u : (Lg(u) => u \in S /\ u.listed \in Lists) /\ (Pg(u) => u \in S /\ u.listed \in Lists)
  BY DEF Lg, Pg, SearchState
<1> HIDE DEF S
<1>7. 1 \in T
  <2>1. << >> \in Lists /\ ~Shown(<< >>, name) /\ 1 \in 1 .. n
    BY <1>1 DEF Lists, Shown
  <2>2. QED BY <1>3, <1>4, <1>5, <2>1
<1>8. ASSUME NEW k \in 2 .. n, k - 1 \in T PROVE k \in T
  <2> DEFINE l == f[k - 1]
             p == g[k - 1]
  <2>1. /\ Lg(l) /\ Pg(p) /\ Together(l, p, name) /\ k \in 1 .. n
        /\ f[k] = ScanNext(ls, l, B[k]) /\ g[k] = ScanNext(ps, p, B[k])
    BY <1>1, <1>4, <1>5, <1>8
  <2> HIDE DEF l, p
  <2>2. l.listed \in Lists /\ p.listed \in Lists /\ p \in S
    BY <1>6, <2>1
  <2>3. /\ Lg(ScanBlock(ls, B[k], l.listed)) /\ Pg(ScanBlock(ps, B[k], p.listed))
        /\ ~Shown(l.listed, name) =>
              Together(ScanBlock(ls, B[k], l.listed), ScanBlock(ps, B[k], p.listed), name)
        /\ p.at = "match" /\ Shown(l.listed, name) =>
              Together(ScanBlock(ls, B[k], l.listed), p, name)
    BY <1>3, <2>1, <2>2
  <2>4. Lg(f[k]) /\ Pg(g[k])
    BY <2>1, <2>3 DEF ScanNext
  <2>5. Together(f[k], g[k], name)
    <3>1. CASE l.at = "thrown"
      <4>1. f[k] = l
        BY <2>1, <3>1 DEF ScanNext, Finished
      <4>2. QED BY <3>1, <4>1 DEF Together
    <3>2. CASE l.at \in {"scan", "end"} /\ p.at = "match" /\ Shown(l.listed, name)
      <4>1. g[k] = p /\ f[k] = ScanBlock(ls, B[k], l.listed)
        BY <2>1, <3>2 DEF ScanNext, Finished
      <4>2. QED BY <2>3, <3>2, <4>1
    <3>3. CASE l.at \in {"scan", "end"} /\ Alike(l, p) /\ ~Shown(l.listed, name)
      <4>1. g[k] = ScanBlock(ps, B[k], p.listed) /\ f[k] = ScanBlock(ls, B[k], l.listed)
        BY <2>1, <3>3 DEF ScanNext, Finished, Alike
      <4>2. QED BY <2>3, <3>3, <4>1
    <3>4. QED BY <2>1, <3>1, <3>2, <3>3 DEF Together
  <2>6. QED BY <2>1, <2>4, <2>5
<1> HIDE DEF T, Good
<1>9. n \in T
  BY <1>1, <1>7, <1>8, InductionFromTo
<1>10. Together(Scan(ls, B), Scan(ps, B), name)
  BY <1>4, <1>5, <1>9 DEF T, Good
<1>11. QED BY <1>10 DEF ls, ps, B

\* Where list() throws no exception, push() enters or opens what it shows, and nothing
\* else.
LEMMA ListPush ==
    ASSUME NEW t \in Trees, NEW d \in DOMAIN t, NEW name \in Name,
           ListIn[t][d].status = "listed"
    PROVE  LET p == PushIn[t][d][name]
               shown == Shown(ListIn[t][d].names, name)
           IN  /\ shown => p.status \in {"DIR_ENTRY", "FILE_ENTRY"}
               /\ ~shown => p.status = "NP"
<1> DEFINE l == Scan(Search("list", d = 0, NoName), DirBlocks(t, d))
           p == Scan(Search("push", d = 0, name), DirBlocks(t, d))
           r == ListIn[t][d]
           a == PushIn[t][d][name]
<1>1. name \in Asked /\ name \notin Hidden
  BY RootFsAssumption DEF Asked
<1>2. Together(l, p, name)
  BY <1>1, TogetherScan
<1>3. r = List(d = 0, DirBlocks(t, d)) /\ a = Push(d = 0, DirBlocks(t, d), name)
  BY <1>1 DEF ListIn, PushIn
<1> HIDE DEF r, a
<1>4. r = IF l.at = "thrown" THEN [status |-> "thrown"]
          ELSE [status |-> "listed", names |-> l.listed]
  BY <1>3 DEF List
<1>5. a = IF p.at = "thrown" THEN [status |-> "thrown"]
          ELSE IF p.at # "match" THEN [status |-> "NP"]
          ELSE IF p.entry.dir THEN [status |-> "DIR_ENTRY", first |-> p.entry.first]
          ELSE [status |-> "FILE_ENTRY"]
  BY <1>3 DEF Push
<1> HIDE DEF l, p
<1>6. l.at # "thrown" /\ r.names = l.listed
  <2>1. r.status = "listed"
    BY DEF r
  <2>2. l.at = "thrown" => r.status = "thrown"
    BY <1>4
  <2>3. l.at # "thrown" => r.names = l.listed
    BY <1>4
  <2>4. QED BY <2>1, <2>2, <2>3
<1>7. Shown(r.names, name) => p.at = "match"
  BY <1>2, <1>6 DEF Together
<1>8. ~Shown(r.names, name) => p.at \in {"scan", "end"}
  BY <1>2, <1>6 DEF Together, Alike
<1>9. p.at = "match" => a.status \in {"DIR_ENTRY", "FILE_ENTRY"}
  BY <1>5
<1>10. p.at \in {"scan", "end"} => a.status = "NP"
  BY <1>5
<1>11. QED BY <1>7, <1>8, <1>9, <1>10 DEF r, a

\* What a name that no file system knows leads to.
LEMMA TryMountAnswers ==
    ASSUME NEW p, NEW name
    PROVE  TryMount(p, name).status \in {"DIR_ENTRY", "FILE_ENTRY", "panic"}
              <=> LookupMnt(Append(CanonicalPath(p), name)) # 0
<1> DEFINE i == LookupMnt(Append(CanonicalPath(p), name))
           t == TryMount(p, name)
<1>1. t = EnterMount(p, i)
  BY DEF TryMount
<1>2. t = IF i = 0 THEN [status |-> "NP", levels |-> p]
          ELSE IF Len(p) = Indirections THEN [status |-> "panic", levels |-> p]
          ELSE [status |-> "DIR_ENTRY", levels |-> Enter(p, i)]
  BY <1>1 DEF EnterMount
<1> HIDE DEF t, i
<1>3. t.status = IF i = 0 THEN "NP" ELSE IF Len(p) = Indirections THEN "panic" ELSE "DIR_ENTRY"
  BY <1>2
<1>4. QED BY <1>3 DEF t, i

\* What a name leads to in a file system.
LEMMA WalkAnswers ==
    ASSUME NEW p, p # << >>, NEW name \in Name, NEW r, r = RawPush(Top(p), name),
           r.status \in {"NP", "DIR_ENTRY", "FILE_ENTRY"}
    PROVE  Walk(p, name).status \in {"DIR_ENTRY", "FILE_ENTRY", "panic"}
              <=> r.status # "NP" \/ LookupMnt(Append(CanonicalPath(p), name)) # 0
<1> DEFINE w == Walk(p, name)
<1>1. name \notin {".", ".."}
  BY Names
<1>2. w = AfterPush(p, name, r)
  BY <1>1 DEF Walk, CohPush
<1>3. CASE r.status = "NP"
  <2>1. w = TryMount(p, name)
    BY <1>2, <1>3 DEF AfterPush
  <2>2. QED BY <1>3, <2>1, TryMountAnswers
<1>4. CASE r.status # "NP"
  <2>1. w = [status |-> r.status, levels |-> Replace(p, r.level)]
    BY <1>2, <1>4 DEF AfterPush
  <2> HIDE DEF w
  <2>2. w.status = r.status
    BY <2>1
  <2>3. QED BY <1>4, <2>2 DEF w
<1>5. QED BY <1>3, <1>4

\* Where list() succeeds, a name can be entered or opened exactly if it is shown, apart
\* from mount points and the ports of other numbers.
THEOREM ShownIsFound == PathSpec => []ListedFound
<1>1. PathInv => ListedFound
  <2> SUFFICES ASSUME PathInv, ~(InFat /\ Len(Top(cur).stack) = Depth), NEW list,
                      list = ListAt(cur), list.status = "listed", NEW name \in Name
               PROVE  (Walk(cur, name).status \in {"DIR_ENTRY", "FILE_ENTRY", "panic"}) =
                      (\/ \E i \in DOMAIN list.names : list.names[i].name = name
                       \/ LookupMnt(Append(CanonicalPath(cur), name)) # 0
                       \/ cur # << >> /\ Top(cur).kind = "dev" /\ name = "ser1")
    BY DEF ListedFound
  <2> DEFINE found == Walk(cur, name).status \in {"DIR_ENTRY", "FILE_ENTRY", "panic"}
             mounted == LookupMnt(Append(CanonicalPath(cur), name)) # 0
             shown == \E i \in DOMAIN list.names : list.names[i].name = name
             port == cur # << >> /\ Top(cur).kind = "dev" /\ name = "ser1"
             l == Top(cur)
  <2>0. shown <=> Shown(list.names, name)
    BY DEF Shown
  <2>1. /\ tree \in Trees /\ MountsTyped /\ cur \in Cursors(tree, Len(mnts))
        /\ cur # << >> => l \in LevelOf(tree, Len(mnts))
    <3>1. PICK n, W : Trail(W, n, cur)
      BY DEF PathInv
    <3>2. cur \in Cursors(tree, Len(mnts))
      BY <3>1 DEF Trail
    <3>3. QED BY <3>2, Replaced DEF Cursors, PathInv
  <2>2. name \in Asked /\ name \notin {".", ".."}
    BY Names
  <2> DEFINE rhs == shown \/ mounted \/ port
  <2>3. ASSUME cur = << >> PROVE found <=> rhs
    <3>1. found <=> mounted
      <4>1. Walk(cur, name) = TryMount(cur, name)
        BY <2>2, <2>3 DEF Walk
      <4>2. QED BY <4>1, TryMountAnswers
    <3>2. ASSUME shown PROVE mounted
      <4>0. PICK i \in DOMAIN list.names : list.names[i].name = name
        BY <3>2
      <4> DEFINE below == {j \in DOMAIN mnts : Len(mnts[j].path) = 1}
                 names == [j \in below |-> [name |-> mnts[j].path[1], dir |-> TRUE]]
      <4>1. list = [status |-> "listed", names |-> names]
        BY <2>3 DEF ListAt
      <4>2. list.names = names
        BY <4>1
      <4>3. i \in below /\ mnts[i].path[1] = name
        BY <4>0, <4>2
      <4>4. i \in 1 .. Len(mnts) /\ mnts[i] \in MountPlace
        BY <2>1, <4>3 DEF MountsTyped
      <4>5. mnts[i].path \in Seq(Name) /\ Len(mnts[i].path) = 1
        BY <4>3, <4>4 DEF MountPlace
      <4>6. mnts[i].path = <<name>>
        <5> DEFINE path == mnts[i].path
        <5> HIDE DEF path
        <5>1. path \in Seq(Name) /\ Len(path) = 1 /\ path[1] = name
          BY <4>3, <4>5 DEF path
        <5>2. path = <<name>>
          BY <5>1
        <5>3. QED BY <5>2 DEF path
      <4>7. Append(CanonicalPath(cur), name) = <<name>>
        BY <2>3 DEF CanonicalPath
      <4>8. FirstAt(mnts, <<name>>) # 0
        <5> DEFINE path == <<name>>
        <5> HIDE DEF path
        <5>1. mnts[i].path = path
          BY <4>6 DEF path
        <5>2. FirstAt(mnts, path) = 0 => \A j \in 1 .. Len(mnts) : mnts[j].path # path
          BY <2>1, FirstAtIs DEF MountsTyped
        <5>3. QED BY <4>4, <5>1, <5>2 DEF path
      <4>9. LookupMnt(<<name>>) # 0
        BY <4>8 DEF LookupMnt, FirstAt
      <4>10. QED BY <4>7, <4>9
    <3>3. QED BY <2>3, <3>1, <3>2
  <2>4. ASSUME cur # << >>, l.kind = "fat" PROVE found <=> rhs
    <3> DEFINE d == DirOf(l)
               r == RawPush(l, name)
               p == PushIn[tree][d][name]
    <3>1. d \in DOMAIN tree
      <4>1. l.first \in DOMAIN tree
        BY <2>1, <2>4 DEF LevelOf
      <4>2. 0 \in DOMAIN tree
        BY <2>1, TreesAssumption
      <4>3. QED BY <4>1, <4>2 DEF DirOf
    <3>2. list = ListIn[tree][d]
      BY <2>4 DEF ListAt, CohList
    <3>3. /\ Shown(list.names, name) => p.status \in {"DIR_ENTRY", "FILE_ENTRY"}
          /\ ~Shown(list.names, name) => p.status = "NP"
      <4> HIDE DEF d
      <4>1. QED BY <2>1, <3>1, <3>2, ListPush
    <3>4. r = Entered(l, name, p)
      BY <2>4 DEF RawPush, FatPush, InFat
    <3> HIDE DEF p
    <3>5. r.status = p.status
      <4> HIDE DEF r
      <4>1. QED BY <3>4 DEF Entered
    <3>6. found <=> r.status # "NP" \/ mounted
      <4>1. r.status \in {"NP", "DIR_ENTRY", "FILE_ENTRY"}
        BY <3>3, <3>5
      <4>2. PICK x : x = r
        OBVIOUS
      <4>3. QED BY <2>4, <4>1, <4>2, WalkAnswers
    <3>7. found <=> Shown(list.names, name) \/ mounted
      BY <3>3, <3>5, <3>6
    <3>8. l.kind # "dev"
      BY <2>4
    <3>9. QED BY <2>0, <3>7, <3>8
  <2>5. ASSUME cur # << >>, l.kind = "dev" PROVE found <=> rhs
    <3> DEFINE r == RawPush(l, name)
    <3>1. list.names = DevListed
      <4>1. list = [status |-> "listed", names |-> DevListed]
        BY <2>5 DEF ListAt, CohList
      <4>2. QED BY <4>1
    <3>2. Shown(list.names, name) <=> name \in {"ser0", "tty0"}
      <4> DEFINE a == [name |-> "ser0", dir |-> FALSE]
                 b == [name |-> "tty0", dir |-> FALSE]
      <4>1. DevListed = <<a, b>>
        BY DEF DevListed
      <4>2. a.name = "ser0" /\ b.name = "tty0"
        OBVIOUS
      <4> HIDE DEF a, b
      <4>3. DOMAIN <<a, b>> = {1, 2} /\ <<a, b>>[1] = a /\ <<a, b>>[2] = b
        OBVIOUS
      <4>4. QED BY <3>1, <4>1, <4>2, <4>3 DEF Shown
    <3>3. r.status = IF name \in DevFiles THEN "FILE_ENTRY" ELSE "NP"
      <4>1. r = [status |-> IF name \in DevFiles THEN "FILE_ENTRY" ELSE "NP", level |-> l]
        BY <2>5 DEF RawPush, DevPush
      <4> HIDE DEF r
      <4>2. QED BY <4>1
    <3>4. found <=> r.status # "NP" \/ mounted
      <4>1. r.status \in {"NP", "DIR_ENTRY", "FILE_ENTRY"}
        BY <3>3
      <4>2. PICK x : x = r
        OBVIOUS
      <4>3. QED BY <2>5, <4>1, <4>2, WalkAnswers
    <3>5. r.status # "NP" <=> name \in {"ser0", "ser1", "tty0"}
      BY <3>3 DEF DevFiles
    <3>6. found <=> Shown(list.names, name) \/ mounted \/ name = "ser1"
      BY <3>2, <3>4, <3>5
    <3>7. QED BY <2>0, <2>5, <3>6
  <2>6. cur # << >> => l.kind \in {"fat", "dev"}
    BY <2>1 DEF LevelOf
  <2>7. found \in BOOLEAN /\ rhs \in BOOLEAN
    OBVIOUS
  <2> HIDE DEF found, rhs
  <2>8. found <=> rhs
    BY <2>3, <2>4, <2>5, <2>6
  <2>9. found = rhs
    BY <2>7, <2>8
  <2>10. QED BY <2>9 DEF found, rhs
<1>2. QED BY <1>1, InitPathInv, NextPathInv, PTL DEF PathSpec

--------------------------------------------------------------------------------
(* Where the items of a directory are *)

\* The entries of each item of a directory, from off[k] on, which is where the next item
\* of the last is.
Laid(off, t, d) ==
    /\ off \in [1 .. Len(t[d]) + 1 -> Nat]
    /\ off[1] = (IF d = 0 THEN 0 ELSE 2)
    /\ off[Len(t[d]) + 1] = Len(DirEntries(t, d))
    /\ \A k \in 1 .. Len(t[d]) :
          /\ off[k] = Offset(d, t[d], k)
          /\ off[k + 1] = off[k] + t[d][k].pieces + 1
          /\ off[k + 1] <= Len(DirEntries(t, d))
          /\ \A i \in 1 .. t[d][k].pieces + 1 :
                DirEntries(t, d)[off[k] + i] = ItemEntries(t[d][k])[i]

\* A sequence after another one.
LEMMA Joined ==
    ASSUME NEW S, NEW a \in Seq(S), NEW b \in Seq(S)
    PROVE  /\ a \o b \in Seq(S)
           /\ Len(a) \in Nat /\ Len(b) \in Nat
           /\ Len(a \o b) = Len(a) + Len(b)
           /\ \A i \in 1 .. Len(a) : (a \o b)[i] = a[i]
           /\ \A i \in 1 .. Len(b) : (a \o b)[Len(a) + i] = b[i]
OBVIOUS

\* The entries of the first items of a directory, for every number of them, are put one
\* after the other ...
PutInRow(items, E, f) ==
    /\ f \in [0 .. Len(items) -> Seq(E)]
    /\ \A k \in 1 .. Len(items) : /\ ItemEntries(items[k]) \in Seq(E)
                                  /\ f[k] = f[k - 1] \o ItemEntries(items[k])

\* ... so those of each are found behind those of the ones before.
FoundInRow(items, f) ==
    \A k \in 1 .. Len(items) :
       /\ Len(f[k]) = Len(f[k - 1]) + items[k].pieces + 1
       /\ Len(f[k]) <= Len(f[Len(items)])
       /\ \A i \in 1 .. items[k].pieces + 1 :
             f[Len(items)][Len(f[k - 1]) + i] = ItemEntries(items[k])[i]

\* The entries before an item are those of the items before it, whatever comes after.
LEMMA ItemsLaid ==
    ASSUME NEW items \in Seq(DirItem), NEW E, NEW f, PutInRow(items, E, f)
    PROVE  FoundInRow(items, f)
<1> DEFINE N == Len(items)
           Same(j, k) == /\ Len(f[j]) <= Len(f[k])
                         /\ \A i \in 1 .. items[j].pieces + 1 :
                               f[k][Len(f[j - 1]) + i] = ItemEntries(items[j])[i]
           T == {k \in 0 .. N : \A j \in 1 .. k : Same(j, k)}
<1>1. N \in Nat /\ \A k \in 1 .. N : items[k] \in DirItem
  OBVIOUS
<1>0. /\ f \in [0 .. N -> Seq(E)]
      /\ \A k \in 1 .. N : /\ ItemEntries(items[k]) \in Seq(E)
                           /\ f[k] = f[k - 1] \o ItemEntries(items[k])
  BY DEF PutInRow
<1> HIDE DEF N
<1>2. \A k \in 0 .. N : f[k] \in Seq(E) /\ Len(f[k]) \in Nat
  BY <1>0
<1>3. ASSUME NEW k \in 1 .. N
      PROVE  /\ items[k].pieces \in Nat
             /\ Len(f[k]) = Len(f[k - 1]) + items[k].pieces + 1
             /\ \A i \in 1 .. Len(f[k - 1]) : f[k][i] = f[k - 1][i]
             /\ \A i \in 1 .. items[k].pieces + 1 :
                   f[k][Len(f[k - 1]) + i] = ItemEntries(items[k])[i]
  <2> DEFINE a == f[k - 1]
             b == ItemEntries(items[k])
             p == items[k].pieces
  <2>1. a \in Seq(E) /\ b \in Seq(E) /\ f[k] = a \o b
    <3>1. k - 1 \in 0 .. N
      BY <1>1
    <3>2. QED BY <1>0, <1>2, <3>1
  <2>2. Len(b) = p + 1 /\ p \in Nat
    BY <1>1, ItemEntriesAre
  <2> HIDE DEF a, b, p
  <2>3. /\ Len(a \o b) = Len(a) + Len(b)
        /\ \A i \in 1 .. Len(a) : (a \o b)[i] = a[i]
        /\ \A i \in 1 .. Len(b) : (a \o b)[Len(a) + i] = b[i]
    BY <2>1, Joined
  <2>4. /\ p \in Nat
        /\ Len(f[k]) = Len(a) + p + 1
        /\ \A i \in 1 .. Len(a) : f[k][i] = a[i]
        /\ \A i \in 1 .. p + 1 : f[k][Len(a) + i] = b[i]
    <3>1. Len(a) \in Nat
      BY <2>1
    <3>2. QED BY <2>1, <2>2, <2>3, <3>1
  <2>5. QED BY <2>4 DEF a, b, p
<1>4. 0 \in T
  BY <1>1
<1>5. ASSUME NEW k \in 0 .. N - 1, k \in T PROVE k + 1 \in T
  <2>1. k + 1 \in 1 .. N /\ (k + 1) - 1 = k /\ k + 1 \in 0 .. N /\ k \in 0 .. N
    BY <1>1
  <2>2. ASSUME NEW j \in 1 .. k + 1 PROVE Same(j, k + 1)
    <3>1. CASE j = k + 1
      <4>1. Len(f[j]) <= Len(f[k + 1])
        BY <1>2, <2>1, <3>1
      <4>2. j \in 1 .. N
        BY <2>1, <3>1
      <4>3. \A i \in 1 .. items[j].pieces + 1 :
               f[j][Len(f[j - 1]) + i] = ItemEntries(items[j])[i]
        BY <1>3, <4>2
      <4>4. QED BY <3>1, <4>1, <4>3
    <3>2. CASE j # k + 1
      <4>1. j \in 1 .. k /\ j \in 1 .. N /\ j - 1 \in 0 .. N /\ j \in 0 .. N
        BY <1>1, <3>2
      <4>2. Same(j, k)
        BY <1>5, <4>1
      <4>3. Len(f[k]) <= Len(f[k + 1])
        <5>1. Len(f[k + 1]) = Len(f[k]) + items[k + 1].pieces + 1 /\ items[k + 1].pieces \in Nat
          <6>1. PICK q \in 1 .. N : q = k + 1 /\ q - 1 = k
            BY <2>1
          <6>2. Len(f[q]) = Len(f[q - 1]) + items[q].pieces + 1 /\ items[q].pieces \in Nat
            BY <1>3
          <6>3. QED BY <6>1, <6>2
        <5>2. Len(f[k]) \in Nat
          BY <1>2, <2>1
        <5>3. QED BY <5>1, <5>2
      <4>4. ASSUME NEW i \in 1 .. items[j].pieces + 1
            PROVE  f[k + 1][Len(f[j - 1]) + i] = ItemEntries(items[j])[i]
        <5>1. Len(f[j - 1]) + i \in 1 .. Len(f[j])
          <6>1. Len(f[j]) = Len(f[j - 1]) + items[j].pieces + 1 /\ items[j].pieces \in Nat
            <7>1. j \in 1 .. N
              BY <4>1
            <7>2. QED BY <1>3, <7>1
          <6>2. Len(f[j]) \in Nat /\ Len(f[j - 1]) \in Nat
            BY <1>2, <4>1
          <6>3. QED BY <6>1, <6>2
        <5>2. Len(f[j - 1]) + i \in 1 .. Len(f[k])
          <6>1. Len(f[j]) <= Len(f[k])
            BY <4>2
          <6>2. QED BY <1>2, <2>1, <4>1, <5>1, <6>1
        <5>3. f[k + 1][Len(f[j - 1]) + i] = f[k][Len(f[j - 1]) + i]
          BY <1>3, <2>1, <5>2
        <5>4. QED BY <4>2, <5>3
      <4>5. Len(f[j]) <= Len(f[k + 1])
        BY <1>2, <2>1, <4>1, <4>2, <4>3
      <4>6. QED BY <4>4, <4>5
    <3>3. QED BY <3>1, <3>2
  <2> HIDE DEF Same
  <2>3. QED BY <2>1, <2>2
<1> HIDE DEF T
<1>6. 0 .. N \subseteq T
  BY <1>1, <1>4, <1>5, InductionUpTo
<1>7. \A j \in 1 .. N : Same(j, N)
  <2>1. N \in T
    BY <1>1, <1>6
  <2>2. QED BY <2>1 DEF T
<1>8. QED BY <1>3, <1>7 DEF FoundInRow, N

\* The items of a directory are laid out one after the other.
LEMMA DirectoryLaid ==
    ASSUME NEW t \in Trees, NEW d \in DOMAIN t
    PROVE  \E off : Laid(off, t, d)
<1> DEFINE items == t[d]
           N == Len(items)
           E == Entries(DOMAIN t)
           base == IF d = 0 THEN 0 ELSE 2
           entries == DirEntries(t, d)
<1>1. /\ d \in Nat /\ items \in Seq(DirItem)
      /\ \A k \in DOMAIN items : items[k].dir => items[k].first \in DOMAIN t
  BY Directories
<1>2. N \in Nat /\ DOMAIN items = 1 .. N /\ \A k \in 1 .. N : items[k] \in DirItem
  BY <1>1
<1>3. PICK f : /\ f \in [0 .. N -> Seq(E)]
               /\ f[0] = << >> /\ f[N] = Concatenated(items)
               /\ \A k \in 1 .. N : f[k] = f[k - 1] \o ItemEntries(items[k])
               /\ \A k \in 0 .. N : Concatenated(SubSeq(items, 1, k)) = f[k]
  BY <1>1, Concatenations
<1>4. \A k \in 1 .. N : ItemEntries(items[k]) \in Seq(E)
  BY <1>1, <1>2, ItemEntriesTyped
<1> HIDE DEF E
<1>5. \A k \in 1 .. N :
         /\ Len(f[k]) = Len(f[k - 1]) + items[k].pieces + 1
         /\ Len(f[k]) <= Len(f[N])
         /\ \A i \in 1 .. items[k].pieces + 1 :
               f[N][Len(f[k - 1]) + i] = ItemEntries(items[k])[i]
  <2>1. PutInRow(items, E, f)
    BY <1>3, <1>4 DEF PutInRow
  <2> HIDE DEF items
  <2>2. FoundInRow(items, f)
    BY <1>1, <2>1, ItemsLaid
  <2>3. QED BY <2>2 DEF FoundInRow
<1> HIDE DEF items, N
<1>6. \A k \in 0 .. N : f[k] \in Seq(E) /\ Len(f[k]) \in Nat
  BY <1>3
<1>7. Len(Dots(d)) = 2
  BY DEF Dots
<1>8. /\ Len(entries) = base + Len(f[N])
      /\ \A i \in 1 .. Len(f[N]) : entries[base + i] = f[N][i]
  <2> DEFINE all == f[N]
  <2>1. all \in Seq(E)
    BY <1>2, <1>6
  <2> HIDE DEF all
  <2>2. CASE d = 0
    <3>1. entries = all
      <4>1. entries = Concatenated(t[0])
        BY <2>2 DEF DirEntries
      <4>2. QED BY <1>3, <2>2, <4>1 DEF all, items
    <3> HIDE DEF entries
    <3>2. QED BY <2>1, <2>2, <3>1 DEF all
  <2>3. CASE d # 0
    <3> DEFINE dots == Dots(d)
    <3>1. entries = dots \o all
      BY <1>3, <2>3 DEF DirEntries, all, items
    <3>2. dots \in Seq(E)
      <4> DEFINE x == Short(-2, TRUE, d)
                 y == Short(-3, TRUE, 0)
      <4>1. x \in E /\ y \in E
        <5>1. 0 \in DOMAIN t
          BY Directories
        <5>2. QED BY <1>1, <5>1 DEF Short, Entries, E
      <4>2. dots = <<x, y>>
        BY DEF Dots
      <4> HIDE DEF x, y
      <4>3. QED BY <4>1, <4>2
    <3> HIDE DEF dots, entries
    <3>3. Len(dots) = 2
      BY <1>7 DEF dots
    <3>4. /\ Len(dots \o all) = Len(dots) + Len(all)
          /\ \A i \in 1 .. Len(all) : (dots \o all)[Len(dots) + i] = all[i]
      BY <2>1, <3>2, Joined
    <3>5. QED BY <2>3, <3>1, <3>3, <3>4 DEF all
  <2>4. QED BY <2>2, <2>3
<1>9. base \in Nat
  OBVIOUS
<1> HIDE DEF entries, base
<1>10. PICK len : len \in [0 .. N -> Nat] /\ \A k \in 0 .. N : len[k] = Len(f[k])
  <2> DEFINE g == [k \in 0 .. N |-> Len(f[k])]
  <2>1. g \in [0 .. N -> Nat] /\ \A k \in 0 .. N : g[k] = Len(f[k])
    BY <1>6
  <2>2. QED BY <2>1
<1>11. ASSUME NEW k \in 1 .. N
       PROVE  /\ k - 1 \in 0 .. N /\ k \in 0 .. N /\ N \in 0 .. N
              /\ len[k] = len[k - 1] + items[k].pieces + 1
              /\ len[k] <= len[N]
              /\ len[k - 1] = Len(f[k - 1])
              /\ items[k].pieces \in Nat
              /\ \A i \in 1 .. items[k].pieces + 1 :
                    f[N][len[k - 1] + i] = ItemEntries(items[k])[i]
  <2>1. k - 1 \in 0 .. N /\ k \in 0 .. N /\ N \in 0 .. N
    BY <1>2
  <2>2. len[k] = Len(f[k]) /\ len[k - 1] = Len(f[k - 1]) /\ len[N] = Len(f[N])
    BY <1>10, <2>1
  <2>3. items[k].pieces \in Nat
    BY <1>2 DEF DirItem
  <2>4. QED BY <1>5, <2>1, <2>2, <2>3
<1>12. /\ len[0] = 0 /\ len[N] = Len(f[N])
       /\ Len(entries) = base + len[N]
       /\ \A i \in 1 .. len[N] : entries[base + i] = f[N][i]
  <2>1. 0 \in 0 .. N /\ N \in 0 .. N
    BY <1>2
  <2>2. len[0] = Len(f[0]) /\ len[N] = Len(f[N])
    BY <1>10, <2>1
  <2>3. Len(f[0]) = 0
    BY <1>3
  <2>4. QED BY <1>8, <2>2, <2>3
<1> DEFINE off == [k \in 1 .. N + 1 |-> base + len[k - 1]]
<1>13. /\ off \in [1 .. N + 1 -> Nat]
       /\ \A k \in 1 .. N + 1 : off[k] = base + len[k - 1]
  <2>1. \A k \in 1 .. N + 1 : k - 1 \in 0 .. N
    BY <1>2
  <2>2. QED BY <1>9, <1>10, <2>1
<1> HIDE DEF off
<1>14. off[1] = base /\ off[N + 1] = Len(entries)
  <2>1. 1 \in 1 .. N + 1 /\ N + 1 \in 1 .. N + 1 /\ 1 - 1 = 0 /\ (N + 1) - 1 = N
    BY <1>2
  <2>2. off[1] = base + len[0] /\ off[N + 1] = base + len[N]
    BY <1>13, <2>1
  <2>3. QED BY <1>9, <1>12, <2>2
<1>15. ASSUME NEW k \in 1 .. N
       PROVE  /\ off[k] = Offset(d, items, k)
              /\ off[k + 1] = off[k] + items[k].pieces + 1
              /\ off[k + 1] <= Len(entries)
              /\ \A i \in 1 .. items[k].pieces + 1 :
                    entries[off[k] + i] = ItemEntries(items[k])[i]
  <2>1. k \in 1 .. N + 1 /\ k + 1 \in 1 .. N + 1 /\ (k + 1) - 1 = k
    BY <1>2
  <2>2. off[k] = base + len[k - 1] /\ off[k + 1] = base + len[k]
    BY <1>13, <2>1
  <2>3. /\ len[k - 1] \in Nat /\ len[k] \in Nat /\ len[N] \in Nat
        /\ items[k].pieces \in Nat
        /\ len[k] = len[k - 1] + items[k].pieces + 1 /\ len[k] <= len[N]
    BY <1>10, <1>11
  <2>4. off[k] = Offset(d, items, k)
    <3>1. Len(Concatenated(SubSeq(items, 1, k - 1))) = len[k - 1]
      BY <1>3, <1>11
    <3>2. (IF d = 0 THEN 0 ELSE Len(Dots(d))) = base
      BY <1>7 DEF base
    <3>3. Offset(d, items, k) = len[k - 1] + base
      BY <3>1, <3>2 DEF Offset
    <3>4. QED BY <1>9, <2>2, <2>3, <3>3
  <2>5. off[k + 1] = off[k] + items[k].pieces + 1
    BY <1>9, <2>2, <2>3
  <2>6. off[k + 1] <= Len(entries)
    BY <1>9, <1>12, <2>2, <2>3
  <2>7. ASSUME NEW i \in 1 .. items[k].pieces + 1
        PROVE  entries[off[k] + i] = ItemEntries(items[k])[i]
    <3>1. len[k - 1] + i \in 1 .. len[N]
      BY <2>3
    <3>2. off[k] + i = base + (len[k - 1] + i)
      BY <1>9, <2>2, <2>3
    <3>3. f[N][len[k - 1] + i] = ItemEntries(items[k])[i]
      BY <1>11
    <3>4. QED BY <1>12, <3>1, <3>2, <3>3
  <2>8. QED BY <2>4, <2>5, <2>6, <2>7
<1>16. Laid(off, t, d)
  BY <1>13, <1>14, <1>15 DEF Laid, items, N, entries, base
<1>17. QED BY <1>16

\* The items before another end where that begins or before.
LEMMA LaidInOrder ==
    ASSUME NEW t \in Trees, NEW d \in DOMAIN t, NEW off, Laid(off, t, d)
    PROVE  \A k \in 1 .. Len(t[d]) : off[k] < off[k + 1] /\ off[k] < off[Len(t[d]) + 1]
<1> DEFINE N == Len(t[d])
<1>1. N \in Nat /\ \A k \in 1 .. N : t[d][k] \in DirItem
  BY Directories
<1>2. \A k \in 1 .. N : t[d][k].pieces \in Nat
  BY <1>1 DEF DirItem
<1>3. ASSUME NEW k \in 1 .. N PROVE off[k] < off[k + 1] /\ off[k] < off[N + 1]
  <2>1. k \in 1 .. N + 1 /\ k + 1 \in 1 .. N + 1 /\ N + 1 \in 1 .. N + 1
    BY <1>1
  <2>2. off[k] \in Nat /\ off[k + 1] \in Nat /\ off[N + 1] \in Nat
    BY <2>1 DEF Laid
  <2>3. off[k + 1] = off[k] + t[d][k].pieces + 1 /\ off[k + 1] <= off[N + 1]
    BY DEF Laid
  <2>4. QED BY <1>2, <2>2, <2>3
<1>4. QED BY <1>3

--------------------------------------------------------------------------------
(* A search of a plain directory, item by item *)

\* The items of a plain directory, with their places: size entries are read as one.
PlainDir(items, off, size, root) ==
    LET N == Len(items)
    IN  /\ items \in Seq(DirItem) /\ size \in Nat \ {0} /\ root \in BOOLEAN
        /\ off \in [1 .. N + 1 -> Nat]
        /\ \A k \in 1 .. N :
              /\ off[k + 1] = off[k] + items[k].pieces + 1 /\ off[k] < off[N + 1]
              /\ items[k].pieces > 0 =>
                    ~items[k].erased /\ off[k] \div size = (off[k] + items[k].pieces) \div size
              /\ items[k].pieces = 0 /\ ~items[k].erased =>
                    /\ ~root
                    /\ \A j \in 1 .. k - 1 :
                          items[j].pieces > 0 => off[j] \div size # off[k] \div size

\* The entry of the directory after g others.
EntryAt(items, off, root, g, e) ==
    /\ g < off[1] => e.kind = "short" /\ ~root
    /\ g >= off[Len(items) + 1] => e = End
    /\ \A k \in 1 .. Len(items) :
          off[k] <= g /\ g < off[k + 1] => e = ItemEntries(items[k])[g - off[k] + 1]

Elements(listed) == {listed[i] : i \in DOMAIN listed}

Shows(item) == [name |-> item.name, dir |-> item.dir]

\* What the items before the k-th one are listed as.
ShownTo(items, k) == {Shows(items[j]) : j \in {i \in 1 .. k - 1 : items[i].pieces > 0}}

\* A search has gone by the items before the k-th one.
Passed(search, items, k, listed) ==
    IF search.op = "list" THEN Elements(listed) = ShownTo(items, k)
    ELSE \A j \in 1 .. k - 1 : items[j].pieces > 0 => items[j].name # search.wanted

\* It is between two items, and may have the name of one before in the same block ...
Named(items, off, size, k, block, found) ==
    \/ found = NoName
    \/ \E j \in 1 .. k - 1 :
          items[j].pieces > 0 /\ items[j].name = found /\ off[j] \div size = block

Between(search, items, off, size, s, g, block) ==
    \E k \in 1 .. Len(items) + 1 :
       /\ g = off[k] \/ (k = 1 /\ g < off[1]) \/ (k = Len(items) + 1 /\ g >= off[k])
       /\ s.at = "scan" /\ s.n = -1 /\ s.long = FALSE
       /\ Named(items, off, size, k, block, s.found)
       /\ Passed(search, items, k, s.listed)

\* ... or it has read pieces of a name, and has the others to come ...
Inside(search, items, off, size, s, g, block) ==
    \E k \in 1 .. Len(items) :
       /\ off[k] < g /\ g <= off[k] + items[k].pieces /\ off[k] \div size = block
       /\ s.at = "scan" /\ s.long = TRUE
       /\ s.n = off[k] + items[k].pieces - g
       /\ s.sum = items[k].sum /\ s.found = items[k].name
       /\ Passed(search, items, k, s.listed)

\* ... or it is at the end, or has found what it looks for.
Ended(search, items, off, s, g) ==
    /\ s.at = "end" /\ g >= off[Len(items) + 1]
    /\ Passed(search, items, Len(items) + 1, s.listed)

Hit(search, items, s) ==
    /\ s.at = "match" /\ search.op # "list"
    /\ \E k \in 1 .. Len(items) :
          /\ items[k].pieces > 0 /\ items[k].name = search.wanted
          /\ s.entry = Short(items[k].sum, items[k].dir, items[k].first)

Reading(search, items, off, size, s, g, block) ==
    \/ Between(search, items, off, size, s, g, block)
    \/ Inside(search, items, off, size, s, g, block)
    \/ Ended(search, items, off, s, g)
    \/ Hit(search, items, s)

\* A search that asks for a name asks for one that an item may have.
Sensible(search, root) ==
    /\ search.root = root /\ search.op \in {"push", "open", "list"}
    /\ search.op # "list" => search.wanted \notin Hidden

\* What is listed after one more.
LEMMA ElementsAppended ==
    ASSUME NEW S, NEW listed \in Seq(S), NEW x \in S
    PROVE  Elements(Append(listed, x)) = Elements(listed) \cup {x}
<1> DEFINE n == Len(listed)
           longer == Append(listed, x)
<1>1. /\ n \in Nat /\ DOMAIN listed = 1 .. n /\ DOMAIN longer = 1 .. n + 1
      /\ longer[n + 1] = x /\ \A i \in 1 .. n : longer[i] = listed[i]
  OBVIOUS
<1> HIDE DEF n, longer
<1>2. 1 .. n + 1 = (1 .. n) \cup {n + 1}
  BY <1>1
<1>3. {longer[i] : i \in 1 .. n + 1} = {listed[i] : i \in 1 .. n} \cup {x}
  BY <1>1, <1>2
<1>4. QED BY <1>1, <1>3 DEF Elements, longer

\* An item without a long name is passed by, one with another name too, and in a list each
\* is added.
LEMMA PassedOn ==
    ASSUME NEW search, NEW items, NEW N \in Nat, NEW k \in 1 .. N, NEW listed \in Lists,
           Passed(search, items, k, listed)
    PROVE  /\ ~(items[k].pieces > 0) => Passed(search, items, k + 1, listed)
           /\ /\ items[k].pieces > 0 /\ search.op = "list"
              /\ Shows(items[k]) \in [name : Found, dir : BOOLEAN]
              => Passed(search, items, k + 1, Append(listed, Shows(items[k])))
           /\ search.op # "list" /\ items[k].name # search.wanted
                => Passed(search, items, k + 1, listed)
           /\ search.op # "list" => \A more : Passed(search, items, k, more)
<1> DEFINE J(n) == {i \in 1 .. n - 1 : items[i].pieces > 0}
<1>1. J(k + 1) = J(k) \cup (IF items[k].pieces > 0 THEN {k} ELSE {})
  <2>1. 1 .. (k + 1) - 1 = (1 .. k - 1) \cup {k}
    OBVIOUS
  <2>2. QED BY <2>1
<1>2. \A n : ShownTo(items, n) = {Shows(items[j]) : j \in J(n)}
  BY DEF ShownTo
<1>3. \A n, more : search.op # "list" =>
         (Passed(search, items, n, more) <=> \A j \in J(n) : items[j].name # search.wanted)
  BY DEF Passed
<1>4. \A n, more : search.op = "list" =>
         (Passed(search, items, n, more) <=> Elements(more) = ShownTo(items, n))
  BY DEF Passed
<1> HIDE DEF J
<1>5. ShownTo(items, k + 1) =
         ShownTo(items, k) \cup (IF items[k].pieces > 0 THEN {Shows(items[k])} ELSE {})
  BY <1>1, <1>2
<1>6. ~(items[k].pieces > 0) => Passed(search, items, k + 1, listed)
  <2>1. CASE search.op = "list"
    BY <1>4, <1>5, <2>1
  <2>2. CASE search.op # "list"
    BY <1>1, <1>3, <2>2
  <2>3. QED BY <2>1, <2>2
<1>7. ASSUME items[k].pieces > 0, search.op = "list",
             Shows(items[k]) \in [name : Found, dir : BOOLEAN]
      PROVE  Passed(search, items, k + 1, Append(listed, Shows(items[k])))
  <2> DEFINE x == Shows(items[k])
  <2>1. Elements(Append(listed, x)) = Elements(listed) \cup {x}
    <3> DEFINE I == [name : Found, dir : BOOLEAN]
    <3>1. x \in I /\ listed \in Seq(I)
      BY <1>7 DEF Lists
    <3> HIDE DEF I, x
    <3>2. QED BY <3>1, ElementsAppended
  <2>2. Elements(listed) = ShownTo(items, k)
    BY <1>4, <1>7
  <2>3. ShownTo(items, k + 1) = ShownTo(items, k) \cup {x}
    BY <1>5, <1>7
  <2>4. Elements(Append(listed, x)) = ShownTo(items, k + 1)
    BY <2>1, <2>2, <2>3
  <2>5. QED BY <1>4, <1>7, <2>4
<1>8. search.op # "list" /\ items[k].name # search.wanted
         => Passed(search, items, k + 1, listed)
  BY <1>1, <1>3
<1>9. search.op # "list" => \A more : Passed(search, items, k, more)
  BY <1>3
<1>10. QED BY <1>6, <1>7, <1>8, <1>9

\* What is known of an item.
LEMMA ItemOfPlain ==
    ASSUME NEW items, NEW off, NEW size, NEW root, PlainDir(items, off, size, root),
           NEW k \in 1 .. Len(items)
    PROVE  /\ items[k] \in DirItem /\ items[k].pieces \in Nat /\ items[k].sum \in Int
           /\ items[k].name \in Found \ Hidden /\ items[k].dir \in BOOLEAN
           /\ items[k].erased \in BOOLEAN
           /\ Shows(items[k]) \in [name : Found, dir : BOOLEAN]
           /\ off[k] \in Nat /\ off[k + 1] = off[k] + items[k].pieces + 1
           /\ off[Len(items) + 1] \in Nat /\ off[k] < off[Len(items) + 1]
           /\ k + 1 \in 1 .. Len(items) + 1 /\ Len(items) \in Nat
<1> DEFINE x == items[k]
           N == Len(items)
<1>1. /\ items \in Seq(DirItem) /\ off \in [1 .. N + 1 -> Nat]
      /\ off[k + 1] = off[k] + x.pieces + 1 /\ off[k] < off[N + 1]
  BY DEF PlainDir
<1>2. N \in Nat /\ x \in DirItem
  BY <1>1
<1> HIDE DEF N
<1>3. k + 1 \in 1 .. N + 1 /\ N + 1 \in 1 .. N + 1 /\ k \in 1 .. N + 1
  BY <1>2 DEF N
<1>4. off[k] \in Nat /\ off[N + 1] \in Nat
  BY <1>1, <1>3
<1> HIDE DEF x
<1>5. /\ x.pieces \in Nat /\ x.sum \in Int /\ x.name \in Found \ Hidden /\ x.dir \in BOOLEAN
      /\ x.erased \in BOOLEAN
  <2>1. /\ x.pieces \in Nat /\ x.sum \in 0 .. 255 /\ x.name \in STRING \ Hidden
        /\ x.dir \in BOOLEAN /\ x.erased \in BOOLEAN
    BY <1>2 DEF DirItem
  <2>2. x.sum \in Int
    <3>1. \A n \in 0 .. 255 : n \in Int
      OBVIOUS
    <3>2. QED BY <2>1, <3>1
  <2>3. QED BY <2>1, <2>2 DEF Found
<1>6. Shows(x) \in [name : Found, dir : BOOLEAN]
  BY <1>5 DEF Shows
<1>7. QED BY <1>1, <1>2, <1>3, <1>4, <1>5, <1>6 DEF x, N

GoneBy(s, u) ==
    u.at = "scan" /\ u.n = -1 /\ u.long = FALSE /\ u.found = s.found /\ u.listed = s.listed

\* An entry without a long name that neither belongs to a name nor has one before it in its
\* block is passed by.
LEMMA NamelessRead ==
    ASSUME NEW firsts, NEW search, ~Strict(search),
           search.op # "list" => search.wanted \notin Hidden,
           NEW s \in SearchState(firsts), s.at = "scan", s.n = -1, s.long = FALSE,
           s.found = NoName, NEW e, e.kind = "short"
    PROVE  GoneBy(s, Step(search, s, e))
<1> DEFINE u == Step(search, s, e)
<1>1. ShortEffect(search, s, e, u)
  BY ShortRead
<1> HIDE DEF u
<1>2. ~ShortFails(search, s, e)
  BY DEF ShortFails
<1>3. NoName \in Hidden
  BY DEF Hidden
<1>4. search.op # "list" => s.found # search.wanted
  BY <1>3
<1>5. /\ u.at \notin {"thrown", "match"} /\ u.at \in {"scan", "match", "thrown"}
      /\ u.at # "thrown" => u.n = -1 /\ u.long = FALSE /\ u.found = s.found
      /\ u.listed = s.listed
  BY <1>1, <1>2, <1>3, <1>4 DEF ShortEffect
<1>6. QED BY <1>5 DEF u, GoneBy

\* From between two items an entry leads into the next one, or past it.
LEMMA BetweenStep ==
    ASSUME NEW items, NEW off, NEW size, NEW root, PlainDir(items, off, size, root),
           NEW search, Sensible(search, root), NEW firsts, NEW s \in SearchState(firsts),
           NEW e, NEW g \in Nat, EntryAt(items, off, root, g, e),
           NEW block, block = g \div size,
           Between(search, items, off, size, s, g, block)
    PROVE  Reading(search, items, off, size, Step(search, s, e), g + 1, block)
<1> DEFINE N == Len(items)
           u == Step(search, s, e)
<1>1. PICK k \in 1 .. N + 1 :
         /\ g = off[k] \/ (k = 1 /\ g < off[1]) \/ (k = N + 1 /\ g >= off[k])
         /\ s.at = "scan" /\ s.n = -1 /\ s.long = FALSE
         /\ Named(items, off, size, k, block, s.found)
         /\ Passed(search, items, k, s.listed)
  BY DEF Between
<1>2. N \in Nat /\ off \in [1 .. N + 1 -> Nat] /\ s.listed \in Lists
  BY DEF PlainDir, SearchState
<1> HIDE DEF u
<1>s. /\ ~root => ~Strict(search)
      /\ search.op # "list" => search.wanted \notin Hidden
  BY DEF Sensible, Strict
<1>3. CASE g >= off[N + 1]
  <2>1. e.kind = "end"
    BY <1>3 DEF EntryAt, End
  <2>2. OtherEffect(s, e, u)
    BY <1>1, <2>1, OtherRead DEF u
  <2>3. u.at = "end" /\ u.listed = s.listed
    BY <1>1, <2>1, <2>2 DEF OtherEffect
  <2>4. k = N + 1
    <3>1. CASE k \in 1 .. N
      <4>1. /\ off[k] < off[N + 1] /\ off[k] \in Nat /\ off[N + 1] \in Nat
            /\ k = 1 => off[1] < off[N + 1]
        BY <3>1, ItemOfPlain
      <4>2. off[1] \in Nat
        BY <1>2
      <4>3. QED BY <1>1, <1>2, <1>3, <3>1, <4>1, <4>2
    <3>2. QED BY <1>2, <3>1
  <2>5. g + 1 >= off[N + 1]
    <3>1. off[N + 1] \in Nat
      BY <1>2
    <3>2. QED BY <1>3, <3>1
  <2>6. Ended(search, items, off, u, g + 1)
    BY <1>1, <2>3, <2>4, <2>5 DEF Ended
  <2>7. QED BY <2>6 DEF Reading, u
<1>4. CASE k = 1 /\ g < off[1]
  <2>1. e.kind = "short" /\ ~root
    BY <1>4 DEF EntryAt
  <2>2. s.found = NoName
    BY <1>1, <1>4 DEF Named
  <2>3. /\ u.at = "scan" /\ u.n = -1 /\ u.long = FALSE /\ u.found = NoName
        /\ u.listed = s.listed
    <3>1. GoneBy(s, u)
      BY <1>1, <1>s, <2>1, <2>2, NamelessRead DEF u
    <3>2. QED BY <2>2, <3>1 DEF GoneBy
  <2>4. g + 1 = off[1] \/ g + 1 < off[1]
    <3>1. off[1] \in Nat
      BY <1>2
    <3>2. QED BY <1>4, <3>1
  <2>5. Between(search, items, off, size, u, g + 1, block)
    <3>1. Named(items, off, size, 1, block, u.found) /\ 1 \in 1 .. N + 1
      BY <1>2, <2>3 DEF Named
    <3>2. Passed(search, items, 1, u.listed)
      BY <1>1, <1>4, <2>3
    <3>3. QED BY <2>3, <2>4, <3>1, <3>2 DEF Between
  <2>6. QED BY <2>5 DEF Reading, u
<1>5. CASE k \in 1 .. N /\ g = off[k]
  <2>x. PICK x : x = items[k]
    OBVIOUS
  <2>p. PICK p : p = x.pieces
    OBVIOUS
  <2>0. /\ items[k] \in DirItem /\ items[k].pieces \in Nat /\ items[k].erased \in BOOLEAN
        /\ off[k] \in Nat /\ off[k + 1] = off[k] + items[k].pieces + 1 /\ k + 1 \in 1 .. N + 1
    <3>1. k \in 1 .. Len(items)
      BY <1>5
    <3>2. QED BY <3>1, ItemOfPlain
  <2>1. /\ x \in DirItem /\ p \in Nat /\ x.erased \in BOOLEAN
        /\ off[k] \in Nat /\ off[k + 1] = off[k] + p + 1 /\ k + 1 \in 1 .. N + 1
        /\ \A i \in 1 .. p + 1 :
              ItemEntries(x)[i] =
                 IF i <= p
                 THEN IF x.erased THEN Piece(x.name, 5, TRUE, x.sum)
                      ELSE Piece(x.name, p + 1 - i, i = 1, x.sum)
                 ELSE IF x.erased THEN Erased ELSE Short(x.sum, x.dir, x.first)
    <3>1. x \in DirItem
      BY <2>0, <2>x
    <3>2. /\ x.pieces \in Nat /\ x.erased \in BOOLEAN
          /\ off[k] \in Nat /\ off[k + 1] = off[k] + x.pieces + 1 /\ k + 1 \in 1 .. N + 1
      BY <2>0, <2>x
    <3>3. \A i \in 1 .. x.pieces + 1 :
              ItemEntries(x)[i] =
                 IF i <= x.pieces
                 THEN IF x.erased THEN Piece(x.name, 5, TRUE, x.sum)
                      ELSE Piece(x.name, x.pieces + 1 - i, i = 1, x.sum)
                 ELSE IF x.erased THEN Erased ELSE Short(x.sum, x.dir, x.first)
      BY <3>1, ItemEntriesAre
    <3>4. QED BY <2>p, <3>1, <3>2, <3>3
  <2>2. e = ItemEntries(x)[1]
    <3>1. off[k] <= g /\ g < off[k + 1] /\ g - off[k] + 1 = 1
      BY <1>5, <2>1
    <3>2. QED BY <1>5, <2>x, <3>1 DEF EntryAt
  <2>3. e = IF 1 <= p
            THEN IF x.erased THEN Piece(x.name, 5, TRUE, x.sum)
                 ELSE Piece(x.name, p, TRUE, x.sum)
            ELSE IF x.erased THEN Erased ELSE Short(x.sum, x.dir, x.first)
    <3>1. 1 \in 1 .. p + 1 /\ p + 1 - 1 = p
      BY <2>1
    <3>2. QED BY <2>1, <2>2, <3>1
  <2>4. /\ p > 0 => ~x.erased
        /\ p = 0 /\ ~x.erased =>
              /\ ~root
              /\ \A j \in 1 .. k - 1 : items[j].pieces > 0 => off[j] \div size # off[k] \div size
    BY <1>5, <2>x, <2>p DEF PlainDir
  <2>5. CASE p = 0
    <3>1. k + 1 \in 1 .. N + 1 /\ g + 1 = off[k + 1]
      BY <1>5, <2>1, <2>5
    <3>2. Passed(search, items, k + 1, s.listed)
      <4>1. ~(items[k].pieces > 0)
        BY <2>5, <2>p, <2>x
      <4>2. QED BY <1>1, <1>2, <1>5, <4>1, PassedOn
    <3>3. /\ u.at = "scan" /\ u.n = -1 /\ u.long = FALSE /\ u.found = s.found
          /\ u.listed = s.listed
      <4>1. CASE x.erased
        <5>1. e.kind = "erased"
          BY <2>3, <2>5, <4>1 DEF Erased
        <5>2. OtherEffect(s, e, u)
          BY <1>1, <5>1, OtherRead DEF u
        <5>3. QED BY <1>1, <5>1, <5>2 DEF OtherEffect
      <4>2. CASE ~x.erased
        <5>1. e.kind = "short"
          BY <2>3, <2>5, <4>2 DEF Short
        <5>2. ~root
          BY <2>4, <2>5, <4>2
        <5>3. s.found = NoName
          BY <1>1, <1>5, <2>4, <2>5, <4>2 DEF Named
        <5>4. GoneBy(s, u)
          BY <1>1, <1>s, <5>1, <5>2, <5>3, NamelessRead DEF u
        <5>5. QED BY <5>4 DEF GoneBy
      <4>3. QED BY <4>1, <4>2
    <3>4. Named(items, off, size, k + 1, block, u.found)
      <4>1. \A j \in 1 .. k - 1 : j \in 1 .. (k + 1) - 1
        BY <1>2
      <4>2. QED BY <1>1, <3>3, <4>1 DEF Named
    <3>5. Between(search, items, off, size, u, g + 1, block)
      BY <3>1, <3>2, <3>3, <3>4 DEF Between
    <3>6. QED BY <3>5 DEF Reading, u
  <2>6. CASE p # 0
    <3>1. p > 0 /\ 1 <= p /\ ~x.erased
      BY <2>1, <2>4, <2>6
    <3>2. e = Piece(x.name, p, TRUE, x.sum)
      BY <2>3, <3>1
    <3>3. e.kind = "long" /\ e.name = x.name /\ e.ord = p /\ e.last = TRUE /\ e.sum = x.sum
      BY <3>2 DEF Piece
    <3>4. PieceEffect(search, s, e, u)
      BY <1>1, <3>3, PieceRead DEF u
    <3>5. /\ u.at = "scan" /\ u.n = p - 1 /\ u.sum = x.sum /\ u.long = TRUE
          /\ u.found = x.name /\ u.listed = s.listed
      BY <1>1, <3>3, <3>4 DEF PieceEffect
    <3>6. /\ off[k] < g + 1 /\ g + 1 <= off[k] + p /\ off[k] \div size = block
          /\ u.n = off[k] + p - (g + 1)
      BY <1>5, <2>1, <3>1, <3>5
    <3>7. Inside(search, items, off, size, u, g + 1, block)
      BY <1>1, <1>5, <2>x, <2>p, <3>5, <3>6 DEF Inside
    <3>8. QED BY <3>7 DEF Reading, u
  <2>7. QED BY <2>5, <2>6
<1>6. QED BY <1>1, <1>2, <1>3, <1>4, <1>5

\* Inside an item, an entry leads to the next piece of its name, or out of it.
LEMMA InsideStep ==
    ASSUME NEW items, NEW off, NEW size, NEW root, PlainDir(items, off, size, root),
           NEW search, Sensible(search, root), NEW firsts, NEW s \in SearchState(firsts),
           NEW e, NEW g \in Nat, EntryAt(items, off, root, g, e), NEW block,
           Inside(search, items, off, size, s, g, block)
    PROVE  Reading(search, items, off, size, Step(search, s, e), g + 1, block)
<1> DEFINE N == Len(items)
           u == Step(search, s, e)
<1>1. PICK k \in 1 .. N :
         /\ off[k] < g /\ g <= off[k] + items[k].pieces /\ off[k] \div size = block
         /\ s.at = "scan" /\ s.long = TRUE
         /\ s.n = off[k] + items[k].pieces - g
         /\ s.sum = items[k].sum /\ s.found = items[k].name
         /\ Passed(search, items, k, s.listed)
  BY DEF Inside
<1>x. PICK x : x = items[k]
  OBVIOUS
<1>p. PICK p : p = x.pieces
  OBVIOUS
<1>2. /\ items[k] \in DirItem /\ items[k].pieces \in Nat /\ items[k].name \in Found \ Hidden
      /\ Shows(items[k]) \in [name : Found, dir : BOOLEAN]
      /\ off[k] \in Nat /\ off[k + 1] = off[k] + items[k].pieces + 1
      /\ k + 1 \in 1 .. N + 1 /\ N \in Nat
  BY ItemOfPlain
<1>3. /\ x \in DirItem /\ p \in Nat /\ x.name \notin Hidden
      /\ off[k] \in Nat /\ off[k + 1] = off[k] + p + 1
      /\ off[k] < g /\ g <= off[k] + p /\ s.n = off[k] + p - g
      /\ s.sum = x.sum /\ s.found = x.name
  BY <1>1, <1>2, <1>x, <1>p
<1>4. \A i \in 1 .. p + 1 :
         ItemEntries(x)[i] =
            IF i <= p
            THEN IF x.erased THEN Piece(x.name, 5, TRUE, x.sum)
                 ELSE Piece(x.name, p + 1 - i, i = 1, x.sum)
            ELSE IF x.erased THEN Erased ELSE Short(x.sum, x.dir, x.first)
  BY <1>3, <1>p, ItemEntriesAre
<1>5. p > 0 /\ ~x.erased
  <2>1. p > 0
    BY <1>3
  <2>2. items[k].pieces > 0 => ~items[k].erased
    BY DEF PlainDir
  <2>3. QED BY <2>1, <2>2, <1>x, <1>p
<1> DEFINE i == g - off[k] + 1
<1>6. i \in 1 .. p + 1 /\ i # 1 /\ e = ItemEntries(x)[i]
  <2>1. i \in 1 .. p + 1 /\ i # 1 /\ off[k] <= g /\ g < off[k + 1]
    BY <1>3
  <2>2. QED BY <2>1, <1>x DEF EntryAt
<1> HIDE DEF u
<1>7. CASE g < off[k] + p
  <2>1. i <= p /\ (i = 1) = FALSE /\ p + 1 - i = s.n /\ s.n # 0 /\ s.n # -1
    <3>1. PICK a : a = off[k]
      OBVIOUS
    <3>2. a \in Nat /\ p \in Nat /\ a < g /\ g < a + p /\ s.n = a + p - g
      BY <1>3, <1>7, <3>1
    <3>3. PICK n : n = g - a + 1
      OBVIOUS
    <3>4. n <= p /\ (n = 1) = FALSE /\ p + 1 - n = s.n /\ s.n # 0 /\ s.n # -1
      BY <3>2, <3>3
    <3>5. QED BY <3>1, <3>3, <3>4
  <2> HIDE DEF i
  <2>2. e = Piece(x.name, s.n, FALSE, x.sum)
    <3>1. e = Piece(x.name, p + 1 - i, i = 1, x.sum)
      BY <1>4, <1>5, <1>6, <2>1
    <3>2. QED BY <2>1, <3>1
  <2>3. e.kind = "long" /\ e.name = x.name /\ e.ord = s.n /\ e.last = FALSE /\ e.sum = x.sum
    BY <2>2 DEF Piece
  <2>4. PieceEffect(search, s, e, u)
    BY <1>1, <2>3, PieceRead DEF u
  <2>5. /\ u.at = "scan" /\ u.n = s.n - 1 /\ u.sum = x.sum /\ u.long = TRUE
        /\ u.found = x.name /\ u.listed = s.listed
    BY <1>1, <1>3, <2>1, <2>3, <2>4 DEF PieceEffect
  <2>6. off[k] < g + 1 /\ g + 1 <= off[k] + p /\ u.n = off[k] + p - (g + 1)
    BY <1>3, <1>7, <2>5
  <2>7. Inside(search, items, off, size, u, g + 1, block)
    BY <1>1, <1>x, <1>p, <2>5, <2>6 DEF Inside
  <2>8. QED BY <2>7 DEF Reading, u
<1>8. CASE g = off[k] + p
  <2>1. i = p + 1 /\ ~(i <= p) /\ s.n = 0 /\ g + 1 = off[k + 1]
    <3>1. PICK a : a = off[k]
      OBVIOUS
    <3>2. a \in Nat /\ p \in Nat /\ g = a + p /\ s.n = a + p - g /\ off[k + 1] = a + p + 1
      BY <1>3, <1>8, <3>1
    <3>3. PICK n : n = g - a + 1
      OBVIOUS
    <3>4. n = p + 1 /\ ~(n <= p) /\ s.n = 0 /\ g + 1 = off[k + 1]
      BY <3>2, <3>3
    <3>5. QED BY <3>1, <3>3, <3>4
  <2> HIDE DEF i
  <2>2. e = Short(x.sum, x.dir, x.first)
    BY <1>4, <1>5, <1>6, <2>1
  <2>3. e.kind = "short" /\ e.sum = s.sum /\ e.dir = x.dir
    BY <1>3, <2>2 DEF Short
  <2>4. ShortEffect(search, s, e, u)
    BY <1>1, <2>3, ShortRead DEF u
  <2>5. ~ShortFails(search, s, e)
    BY <2>1, <2>3 DEF ShortFails
  <2>6. s.listed \in Lists /\ k + 1 \in 1 .. N + 1
    BY <1>2 DEF SearchState
  <2>7. Named(items, off, size, k + 1, block, s.found)
    <3>1. k \in 1 .. (k + 1) - 1
      BY <1>2
    <3>2. QED BY <1>1, <1>5, <1>x, <1>p, <3>1 DEF Named
  <2>8. CASE search.op = "list"
    <3>1. /\ u.at \notin {"thrown", "match"} /\ u.at \in {"scan", "match", "thrown"}
          /\ u.at # "thrown" => u.n = -1 /\ u.long = FALSE /\ u.found = s.found
          /\ u.listed = Append(s.listed, [name |-> s.found, dir |-> e.dir])
      BY <1>3, <2>4, <2>5, <2>8 DEF ShortEffect
    <3>2. u.listed = Append(s.listed, Shows(items[k]))
      BY <1>3, <1>x, <2>3, <3>1 DEF Shows
    <3>3. Passed(search, items, k + 1, u.listed)
      <4>1. items[k].pieces > 0
        BY <1>5, <1>x, <1>p
      <4>2. QED BY <1>1, <1>2, <2>6, <2>8, <3>2, <4>1, PassedOn
    <3>4. Between(search, items, off, size, u, g + 1, block)
      BY <2>1, <2>6, <2>7, <3>1, <3>3 DEF Between
    <3>5. QED BY <3>4 DEF Reading, u
  <2>9. CASE search.op # "list" /\ x.name = search.wanted
    <3>1. u.at = "match" /\ u.entry = e
      BY <1>3, <2>4, <2>5, <2>9 DEF ShortEffect
    <3>2. Hit(search, items, u)
      BY <1>5, <1>x, <1>p, <2>2, <2>9, <3>1 DEF Hit
    <3>3. QED BY <3>2 DEF Reading, u
  <2>10. CASE search.op # "list" /\ x.name # search.wanted
    <3>1. /\ u.at \notin {"thrown", "match"} /\ u.at \in {"scan", "match", "thrown"}
          /\ u.at # "thrown" => u.n = -1 /\ u.long = FALSE /\ u.found = s.found
          /\ u.listed = s.listed
      BY <1>3, <2>4, <2>5, <2>10 DEF ShortEffect
    <3>2. Passed(search, items, k + 1, u.listed)
      BY <1>1, <1>2, <1>x, <2>6, <2>10, <3>1, PassedOn
    <3>3. Between(search, items, off, size, u, g + 1, block)
      BY <2>1, <2>6, <2>7, <3>1, <3>2 DEF Between
    <3>4. QED BY <3>3 DEF Reading, u
  <2>11. QED BY <2>8, <2>9, <2>10
<1>9. QED BY <1>3, <1>7, <1>8

\* With every entry a search stays where it should be.
LEMMA ReadingStep ==
    ASSUME NEW items, NEW off, NEW size, NEW root, PlainDir(items, off, size, root),
           NEW search, Sensible(search, root), NEW firsts, NEW s \in SearchState(firsts),
           NEW e, NEW g \in Nat, EntryAt(items, off, root, g, e),
           NEW block, block = g \div size,
           Reading(search, items, off, size, s, g, block)
    PROVE  Reading(search, items, off, size, Step(search, s, e), g + 1, block)
<1>1. CASE Between(search, items, off, size, s, g, block)
  BY <1>1, BetweenStep
<1>2. CASE Inside(search, items, off, size, s, g, block)
  BY <1>2, InsideStep
<1>3. CASE Ended(search, items, off, s, g)
  <2>1. Step(search, s, e) = s
    BY <1>3 DEF Ended, Step
  <2>2. g + 1 >= off[Len(items) + 1]
    <3>1. off[Len(items) + 1] \in Nat
      BY DEF PlainDir
    <3>2. QED BY <1>3, <3>1 DEF Ended
  <2>3. QED BY <1>3, <2>1, <2>2 DEF Ended, Reading
<1>4. CASE Hit(search, items, s)
  <2>1. Step(search, s, e) = s
    BY <1>4 DEF Hit, Step
  <2>2. QED BY <1>4, <2>1 DEF Reading
<1>5. QED BY <1>1, <1>2, <1>3, <1>4 DEF Reading

--------------------------------------------------------------------------------
(* ... and block by block *)

\* The items of a plain directory are where they should be.
LEMMA PlainIs ==
    ASSUME NEW t \in Trees, NEW d \in DOMAIN t, NEW off, Laid(off, t, d), Plain(d, t[d])
    PROVE  PlainDir(t[d], off, BlockSize(d), d = 0)
<1> DEFINE items == t[d]
           N == Len(items)
           m == BlockSize(d)
<1>1. /\ items \in Seq(DirItem) /\ m \in Nat \ {0} /\ N \in Nat /\ DOMAIN items = 1 .. N
  BY Directories
<1>2. /\ off \in [1 .. N + 1 -> Nat]
      /\ \A k \in 1 .. N : /\ off[k] = Offset(d, items, k)
                           /\ off[k + 1] = off[k] + items[k].pieces + 1
                           /\ off[k] < off[N + 1]
  BY LaidInOrder DEF Laid
<1>3. \A k \in 1 .. N : PlainItem(d, items, k)
  BY <1>1 DEF Plain
<1> HIDE DEF items, N, m
<1>4. ASSUME NEW k \in 1 .. N
      PROVE  /\ items[k].pieces > 0 =>
                   ~items[k].erased /\ off[k] \div m = (off[k] + items[k].pieces) \div m
             /\ items[k].pieces = 0 /\ ~items[k].erased =>
                   /\ ~(d = 0)
                   /\ \A j \in 1 .. k - 1 :
                         items[j].pieces > 0 => off[j] \div m # off[k] \div m
  <2>1. /\ items[k].pieces > 0 =>
              ~items[k].erased /\ BlockOf(d, off[k]) = BlockOf(d, off[k] + items[k].pieces)
        /\ items[k].pieces = 0 /\ ~items[k].erased =>
              /\ d # 0
              /\ \A j \in 1 .. k - 1 : items[j].pieces > 0 =>
                    BlockOf(d, Offset(d, items, j)) # BlockOf(d, off[k])
    BY <1>2, <1>3 DEF PlainItem
  <2>2. \A j \in 1 .. k - 1 : Offset(d, items, j) = off[j]
    <3>1. \A j \in 1 .. k - 1 : j \in 1 .. N
      BY <1>1
    <3>2. QED BY <1>2, <3>1
  <2>3. \A a : BlockOf(d, a) = a \div m
    BY DEF BlockOf, m
  <2>4. QED BY <2>1, <2>2, <2>3
<1>5. (d = 0) \in BOOLEAN
  OBVIOUS
<1>6. PlainDir(items, off, m, d = 0)
  BY <1>1, <1>2, <1>4, <1>5 DEF PlainDir, N
<1>7. QED BY <1>6 DEF items, m

\* The entries that come before the items of a directory are those of "." and "..".
LEMMA DotsFirst ==
    ASSUME NEW t \in Trees, NEW d \in DOMAIN t, d # 0, NEW i \in 1 .. 2
    PROVE  i <= Len(DirEntries(t, d)) /\ DirEntries(t, d)[i].kind = "short"
<1> DEFINE E == Entries(DOMAIN t)
           x == Short(-2, TRUE, d)
           y == Short(-3, TRUE, 0)
           rest == Concatenated(t[d])
<1>1. /\ 0 \in DOMAIN t /\ d \in Nat /\ t[d] \in Seq(DirItem)
      /\ \A k \in DOMAIN t[d] : t[d][k].dir => t[d][k].first \in DOMAIN t
  BY Directories
<1>2. x \in E /\ y \in E /\ x.kind = "short" /\ y.kind = "short"
  BY <1>1 DEF Short, Entries
<1>3. rest \in Seq(E)
  <2>1. PICK f : /\ f \in [0 .. Len(t[d]) -> Seq(E)] /\ f[Len(t[d])] = rest
    BY <1>1, Concatenations
  <2>2. Len(t[d]) \in 0 .. Len(t[d])
    BY <1>1
  <2>3. QED BY <2>1, <2>2
<1>4. DirEntries(t, d) = <<x, y>> \o rest
  BY DEF DirEntries, Dots
<1> HIDE DEF E, x, y, rest
<1>5. /\ <<x, y>> \in Seq(E) /\ Len(<<x, y>>) = 2
      /\ <<x, y>>[1] = x /\ <<x, y>>[2] = y
  BY <1>2
<1>6. /\ Len(<<x, y>> \o rest) = Len(<<x, y>>) + Len(rest) /\ Len(rest) \in Nat
      /\ \A j \in 1 .. Len(<<x, y>>) : (<<x, y>> \o rest)[j] = <<x, y>>[j]
  BY <1>3, <1>5, Joined
<1>7. i \in {1, 2}
  OBVIOUS
<1>8. <<x, y>>[i].kind = "short"
  BY <1>2, <1>5, <1>7
<1>9. QED BY <1>4, <1>5, <1>6, <1>8

\* Which entries are where in a directory.
LEMMA EntriesAt ==
    ASSUME NEW t \in Trees, NEW d \in DOMAIN t, NEW off, Laid(off, t, d), NEW g \in Nat, NEW e,
           e = IF g + 1 <= Len(DirEntries(t, d)) THEN DirEntries(t, d)[g + 1] ELSE End
    PROVE  EntryAt(t[d], off, d = 0, g, e)
<1> DEFINE N == Len(t[d])
           L == Len(DirEntries(t, d))
<1>1. N \in Nat /\ \A k \in 1 .. N : t[d][k] \in DirItem
  BY Directories
<1>2. /\ off \in [1 .. N + 1 -> Nat] /\ off[1] = (IF d = 0 THEN 0 ELSE 2) /\ off[N + 1] = L
      /\ \A k \in 1 .. N :
            /\ off[k + 1] = off[k] + t[d][k].pieces + 1 /\ off[k + 1] <= L
            /\ \A i \in 1 .. t[d][k].pieces + 1 :
                  DirEntries(t, d)[off[k] + i] = ItemEntries(t[d][k])[i]
  BY DEF Laid
<1> HIDE DEF N, L
<1>3. L \in Nat
  <2>1. N + 1 \in 1 .. N + 1
    BY <1>1
  <2>2. QED BY <1>2, <2>1
<1>4. ASSUME g < off[1] PROVE e.kind = "short" /\ ~(d = 0)
  <2>1. d # 0 /\ g + 1 \in 1 .. 2
    BY <1>2, <1>4
  <2>2. QED BY <2>1, DotsFirst
<1>5. ASSUME g >= off[N + 1] PROVE e = End
  <2>1. ~(g + 1 <= L)
    BY <1>2, <1>3, <1>5
  <2>2. QED BY <2>1 DEF L
<1>6. ASSUME NEW k \in 1 .. N, off[k] <= g, g < off[k + 1]
      PROVE  e = ItemEntries(t[d][k])[g - off[k] + 1]
  <2>1. k \in 1 .. N + 1 /\ k + 1 \in 1 .. N + 1
    BY <1>1
  <2>2. off[k] \in Nat /\ t[d][k].pieces \in Nat
    BY <1>1, <1>2, <2>1 DEF DirItem
  <2>3. off[k + 1] = off[k] + t[d][k].pieces + 1 /\ off[k + 1] <= L
    BY <1>2
  <2> DEFINE i == g - off[k] + 1
  <2>4. i \in 1 .. t[d][k].pieces + 1 /\ off[k] + i = g + 1 /\ g + 1 <= L
    <3>1. PICK a, b, p : a = off[k] /\ b = off[k + 1] /\ p = t[d][k].pieces
      OBVIOUS
    <3>2. a \in Nat /\ p \in Nat /\ b = a + p + 1 /\ b <= L /\ a <= g /\ g < b
      BY <1>6, <2>2, <2>3, <3>1
    <3>3. g - a + 1 \in 1 .. p + 1 /\ a + (g - a + 1) = g + 1 /\ g + 1 <= L
      BY <1>3, <3>2
    <3>4. QED BY <3>1, <3>3
  <2> HIDE DEF i
  <2>5. e = DirEntries(t, d)[g + 1]
    BY <2>4 DEF L
  <2>6. DirEntries(t, d)[off[k] + i] = ItemEntries(t[d][k])[i]
    BY <1>2, <2>4
  <2>7. QED BY <2>4, <2>5, <2>6 DEF i
<1>7. QED BY <1>4, <1>5, <1>6 DEF EntryAt, N

\* A search stays where it should be through a block.
LEMMA ReadingBlock ==
    ASSUME NEW t \in Trees, NEW d \in DOMAIN t, NEW off, Laid(off, t, d),
           PlainDir(t[d], off, BlockSize(d), d = 0),
           NEW search, Sensible(search, d = 0),
           NEW b \in 1 .. BlockCount(d), NEW listed \in Lists,
           Between(search, t[d], off, BlockSize(d), Begin(listed),
                   (b - 1) * BlockSize(d), b - 1)
    PROVE  Reading(search, t[d], off, BlockSize(d), ScanBlock(search, DirBlocks(t, d)[b], listed),
                   b * BlockSize(d), b - 1)
<1> DEFINE items == t[d]
           m == BlockSize(d)
           n == BlockCount(d)
           S == SearchState(DOMAIN t)
           block == DirBlocks(t, d)[b]
           first == (b - 1) * m
           Good(s, i) == /\ s \in S /\ Matched(search, s)
                         /\ Reading(search, items, off, m, s, first + i, b - 1)
<1>1. m \in Nat \ {0} /\ n \in Nat \ {0}
  BY Directories
<1>2. /\ Len(block) = m
      /\ \A i \in 1 .. m :
            /\ block[i] = IF first + i <= Len(DirEntries(t, d))
                          THEN DirEntries(t, d)[first + i] ELSE End
            /\ block[i] \in Entries(DOMAIN t)
  BY BlocksAre
<1> HIDE DEF m, n, block
<1>3. first \in Nat /\ b - 1 \in Nat /\ b * m = first + m
  <2>1. b - 1 \in Nat /\ b \in Int /\ m \in Nat \ {0}
    BY <1>1
  <2>2. (b - 1) * m \in Nat
    BY <2>1, Multiples
  <2>3. (b - 1) * m = b * m - m /\ b * m \in Int /\ (b - 1) * m \in Int
    BY <2>1, Multiples
  <2>4. QED BY <2>1, <2>2, <2>3
<1>4. \A i \in 0 .. m - 1 : (first + i) \div m = b - 1
  BY <1>1, <1>3, DivUnique
<1> HIDE DEF first
<1>5. PICK f : /\ f[0] = Begin(listed)
               /\ \A i \in 1 .. m : f[i] = Step(search, f[i - 1], block[i])
               /\ ScanBlock(search, block, listed) = f[m]
  BY <1>1, <1>2, ScanBlockIs DEF ScansBlock
<1> DEFINE T == {i \in 0 .. m : Good(f[i], i)}
<1>6. 0 \in T
  <2>1. Begin(listed) \in S /\ Matched(search, Begin(listed))
    BY BeginTyped
  <2>2. Reading(search, items, off, m, Begin(listed), first + 0, b - 1)
    <3>1. Between(search, items, off, m, Begin(listed), first, b - 1)
      BY DEF m, first
    <3>2. first + 0 = first
      BY <1>3
    <3>3. QED BY <3>1, <3>2 DEF Reading
  <2>3. 0 \in 0 .. m
    BY <1>1
  <2>4. Good(f[0], 0)
    BY <1>5, <2>1, <2>2
  <2> HIDE DEF Good
  <2>5. QED BY <2>3, <2>4
<1>7. ASSUME NEW i \in 0 .. m - 1, i \in T PROVE i + 1 \in T
  <2>1. i + 1 \in 1 .. m /\ (i + 1) - 1 = i /\ i + 1 \in 0 .. m
    BY <1>1
  <2> DEFINE s == f[i]
             e == block[i + 1]
             g == first + i
  <2>2. f[i + 1] = Step(search, s, e)
    BY <1>5, <2>1
  <2>3. /\ s \in S /\ Matched(search, s) /\ Reading(search, items, off, m, s, g, b - 1)
    BY <1>7
  <2>4. g \in Nat /\ b - 1 = g \div m /\ first + (i + 1) = g + 1
    BY <1>1, <1>3, <1>4
  <2>5. e \in Entries(DOMAIN t)
    BY <1>2, <2>1
  <2>6. EntryAt(items, off, d = 0, g, e)
    <3>1. e = IF g + 1 <= Len(DirEntries(t, d)) THEN DirEntries(t, d)[g + 1] ELSE End
      BY <1>2, <2>1, <2>4
    <3> HIDE DEF e, g
    <3>2. QED BY <2>4, <3>1, EntriesAt
  <2> HIDE DEF s, e, g
  <2>7. Step(search, s, e) \in S /\ Matched(search, Step(search, s, e))
    BY <2>3, <2>5, StepTyped
  <2>8. PlainDir(items, off, m, d = 0)
    BY DEF m
  <2> HIDE DEF items
  <2>9. Reading(search, items, off, m, Step(search, s, e), g + 1, b - 1)
    BY <2>3, <2>4, <2>6, <2>8, ReadingStep DEF S
  <2>10. Good(f[i + 1], i + 1)
    BY <2>2, <2>4, <2>7, <2>9
  <2> HIDE DEF Good
  <2>11. QED BY <2>1, <2>10
<1> HIDE DEF T, Good
<1>8. m \in T
  <2>1. 0 .. m \subseteq T
    BY <1>1, <1>6, <1>7, InductionUpTo
  <2>2. QED BY <1>1, <2>1
<1>9. Reading(search, items, off, m, f[m], first + m, b - 1)
  BY <1>8 DEF T, Good
<1>10. Reading(search, items, off, m, ScanBlock(search, block, listed), b * m, b - 1)
  BY <1>3, <1>5, <1>9
<1>11. QED BY <1>10 DEF items, m, block

\* No item with a long name is cut: between two blocks a search is between two items, and
\* begins anew.
LEMMA BlockBreak ==
    ASSUME NEW items, NEW off, NEW size, NEW root, PlainDir(items, off, size, root),
           NEW search, NEW s, NEW b \in Nat \ {0},
           Reading(search, items, off, size, s, b * size, b - 1), ~Finished(s)
    PROVE  Between(search, items, off, size, Begin(s.listed), b * size, b)
<1> DEFINE N == Len(items)
           new == Begin(s.listed)
           g == b * size
<1>1. /\ N \in Nat /\ off \in [1 .. N + 1 -> Nat] /\ size \in Nat \ {0}
  BY DEF PlainDir
<1>2. /\ new.at = "scan" /\ new.n = -1 /\ new.long = FALSE /\ new.listed = s.listed
      /\ new.found = NoName
  BY DEF Begin
<1> HIDE DEF new, N
<1>3. \A k : Named(items, off, size, k, b, new.found)
  BY <1>2 DEF Named
<1>4. ~Hit(search, items, s)
  BY DEF Finished, Hit
<1>5. ~Inside(search, items, off, size, s, g, b - 1)
  <2> SUFFICES ASSUME Inside(search, items, off, size, s, g, b - 1) PROVE FALSE
    OBVIOUS
  <2>1. PICK k \in 1 .. N :
           off[k] < g /\ g <= off[k] + items[k].pieces /\ off[k] \div size = b - 1
    BY DEF Inside, N
  <2>2. PICK p : p = off[k] + items[k].pieces
    OBVIOUS
  <2>3. items[k].pieces \in Nat /\ off[k] \in Nat
    BY <2>1, ItemOfPlain DEF N
  <2>4. p \in Nat /\ items[k].pieces > 0
    BY <1>1, <2>1, <2>2, <2>3
  <2>5. p \div size = b - 1
    BY <2>1, <2>2, <2>4 DEF PlainDir, N
  <2>6. p = (b - 1) * size + (p % size) /\ p % size \in 0 .. size - 1
    <3>1. p = (p \div size) * size + (p % size) /\ p % size \in 0 .. size - 1
      BY <1>1, <2>4, DivMod
    <3>2. QED BY <2>5, <3>1
  <2>7. (b - 1) * size = b * size - size /\ b * size \in Int
    <3>1. b \in Int
      OBVIOUS
    <3>2. QED BY <1>1, <3>1, Multiples
  <2>8. g <= p
    BY <2>1, <2>2
  <2>9. QED
    <3>1. PICK x, y : x = b * size /\ y = p % size
      OBVIOUS
    <3>2. p = x - size + y /\ x <= p /\ x \in Int /\ y \in 0 .. size - 1
      BY <2>6, <2>7, <2>8, <3>1
    <3>3. QED BY <1>1, <2>4, <3>2
<1> HIDE DEF g
<1>6. CASE Between(search, items, off, size, s, g, b - 1)
  <2>1. PICK k \in 1 .. N + 1 :
           /\ g = off[k] \/ (k = 1 /\ g < off[1]) \/ (k = N + 1 /\ g >= off[k])
           /\ Passed(search, items, k, s.listed)
    BY <1>6 DEF Between, N
  <2>2. Between(search, items, off, size, new, g, b)
    BY <1>2, <1>3, <2>1 DEF Between, N
  <2>3. QED BY <2>2 DEF new, g
<1>7. CASE Ended(search, items, off, s, g)
  <2>1. g >= off[N + 1] /\ Passed(search, items, N + 1, s.listed) /\ N + 1 \in 1 .. N + 1
    BY <1>1, <1>7 DEF Ended, N
  <2>2. Between(search, items, off, size, new, g, b)
    BY <1>2, <1>3, <2>1 DEF Between, N
  <2>3. QED BY <2>2 DEF new, g
<1>8. QED BY <1>4, <1>5, <1>6, <1>7 DEF Reading, g

\* A search of a plain directory ends with an item that has the name, or has gone by all.
LEMMA SearchEnds ==
    ASSUME NEW t \in Trees, NEW d \in DOMAIN t, Plain(d, t[d]),
           NEW search, Sensible(search, d = 0), NEW s, s = Scan(search, DirBlocks(t, d))
    PROVE  \/ Hit(search, t[d], s)
           \/ s.at \in {"scan", "end"} /\ Passed(search, t[d], Len(t[d]) + 1, s.listed)
<1> DEFINE items == t[d]
           N == Len(items)
           m == BlockSize(d)
           n == BlockCount(d)
           B == DirBlocks(t, d)
<1>1. PICK off : Laid(off, t, d)
  BY DirectoryLaid
<1>2. PlainDir(items, off, m, d = 0)
  BY <1>1, PlainIs
<1>3. /\ m \in Nat \ {0} /\ n \in Nat \ {0} /\ N \in Nat
      /\ Len(DirEntries(t, d)) <= n * m
  BY Directories
<1>4. Len(B) = n
  BY BlocksAre
<1>5. /\ off \in [1 .. N + 1 -> Nat] /\ off[N + 1] <= n * m
  <2>1. off[N + 1] = Len(DirEntries(t, d))
    BY <1>1 DEF Laid
  <2>2. off \in [1 .. N + 1 -> Nat]
    BY <1>2 DEF PlainDir
  <2>3. QED BY <1>3, <2>1, <2>2
<1>6. ASSUME NEW b \in 1 .. n, NEW listed \in Lists,
             Between(search, items, off, m, Begin(listed), (b - 1) * m, b - 1)
      PROVE  /\ Reading(search, items, off, m, ScanBlock(search, B[b], listed), b * m, b - 1)
             /\ ScanBlock(search, B[b], listed).listed \in Lists
  <2>1. ScanBlock(search, B[b], listed) \in SearchState(DOMAIN t)
    BY BlockTyped
  <2>2. Reading(search, items, off, m, ScanBlock(search, B[b], listed), b * m, b - 1)
    BY <1>1, <1>2, <1>6, ReadingBlock
  <2>3. QED BY <2>1, <2>2 DEF SearchState
<1> HIDE DEF items, m, n, B, N
<1>7. PICK f : /\ f[1] = ScanBlock(search, B[1], << >>)
               /\ \A b \in 2 .. n : f[b] = ScanNext(search, f[b - 1], B[b])
               /\ Scan(search, B) = f[n]
  BY <1>3, <1>4, ScanIs
<1> DEFINE Good(b) == /\ Reading(search, items, off, m, f[b], b * m, b - 1)
                      /\ f[b].listed \in Lists
           T == {b \in 1 .. n : Good(b)}
<1>8. 1 \in T
  <2>1. << >> \in Lists /\ 1 \in 1 .. n
    BY <1>3 DEF Lists
  <2>2. Between(search, items, off, m, Begin(<< >>), (1 - 1) * m, 1 - 1)
    <3> DEFINE s0 == Begin(<< >>)
    <3>1. /\ s0.at = "scan" /\ s0.n = -1 /\ s0.long = FALSE /\ s0.listed = << >>
          /\ s0.found = NoName
      BY DEF Begin
    <3> HIDE DEF s0
    <3>2. Named(items, off, m, 1, 0, s0.found)
      BY <3>1 DEF Named
    <3>3. Passed(search, items, 1, s0.listed)
      <4>1. {i \in 1 .. 1 - 1 : items[i].pieces > 0} = {}
        OBVIOUS
      <4>2. ShownTo(items, 1) = {}
        BY <4>1 DEF ShownTo
      <4>e. Elements(<< >>) = {}
        <5>1. DOMAIN << >> = {}
          OBVIOUS
        <5>2. QED BY <5>1 DEF Elements
      <4>3. Elements(s0.listed) = ShownTo(items, 1)
        BY <3>1, <4>2, <4>e
      <4>4. \A j \in 1 .. 1 - 1 : FALSE
        OBVIOUS
      <4>5. QED BY <4>3, <4>4 DEF Passed
    <3>4. (1 - 1) * m = 0 /\ 1 - 1 = 0
      <4>1. 1 - 1 = 0 /\ 0 * m = 0
        BY <1>3
      <4>2. QED BY <4>1
    <3>5. 1 \in 1 .. N + 1 /\ (0 = off[1] \/ 0 < off[1])
      <4>1. 1 \in 1 .. N + 1
        BY <1>3
      <4>2. off[1] \in Nat
        BY <1>5, <4>1
      <4>3. QED BY <4>1, <4>2
    <3>6. Between(search, items, off, m, s0, 0, 0)
      BY <3>1, <3>2, <3>3, <3>5 DEF Between, N
    <3>7. QED BY <3>4, <3>6 DEF s0
  <2>3. Good(1)
    BY <1>6, <1>7, <2>1, <2>2
  <2> HIDE DEF Good
  <2>4. QED BY <2>1, <2>3
<1>9. ASSUME NEW b \in 2 .. n, b - 1 \in T PROVE b \in T
  <2>1. PICK c : c = b - 1
    OBVIOUS
  <2>2. c \in Nat \ {0} /\ c \in 1 .. n /\ b \in 1 .. n /\ b - 1 = c
    BY <1>3, <2>1
  <2> DEFINE v == f[c]
  <2>3. Reading(search, items, off, m, v, c * m, c - 1) /\ v.listed \in Lists
    BY <1>9, <2>1
  <2>4. f[b] = ScanNext(search, v, B[b])
    BY <1>7, <2>1
  <2> HIDE DEF v
  <2>5. CASE Finished(v)
    <3>1. f[b] = v
      BY <2>4, <2>5 DEF ScanNext
    <3>2. Hit(search, items, v)
      BY <2>3, <2>5 DEF Reading, Between, Inside, Ended, Finished
    <3>3. Good(b)
      BY <2>3, <3>1, <3>2 DEF Reading
    <3> HIDE DEF Good
    <3>4. QED BY <2>2, <3>3
  <2>6. CASE ~Finished(v)
    <3>1. Between(search, items, off, m, Begin(v.listed), c * m, c)
      BY <1>2, <2>2, <2>3, <2>6, BlockBreak
    <3>2. /\ Reading(search, items, off, m, ScanBlock(search, B[b], v.listed), b * m, b - 1)
          /\ ScanBlock(search, B[b], v.listed).listed \in Lists
      BY <1>6, <2>2, <2>3, <3>1
    <3>3. f[b] = ScanBlock(search, B[b], v.listed)
      BY <2>4, <2>6 DEF ScanNext
    <3>4. Good(b)
      BY <3>2, <3>3
    <3> HIDE DEF Good
    <3>5. QED BY <2>2, <3>4
  <2>7. QED BY <2>5, <2>6
<1> HIDE DEF T
<1>10. n \in T
  BY <1>3, <1>8, <1>9, InductionFromTo
<1>11. Reading(search, items, off, m, s, n * m, n - 1)
  BY <1>7, <1>10 DEF T, B
<1> DEFINE g == n * m
<1>12. g \in Nat
  BY <1>3
<1> HIDE DEF g
<1>13. off[N + 1] <= g /\ off[N + 1] \in Nat
  <2>1. N + 1 \in 1 .. N + 1
    BY <1>3
  <2>2. QED BY <1>5, <2>1 DEF g
<1>14. ASSUME NEW k \in 1 .. N PROVE off[k] < off[N + 1] /\ off[k + 1] <= off[N + 1]
  <2>1. off[k + 1] <= Len(DirEntries(t, d)) /\ off[N + 1] = Len(DirEntries(t, d))
    BY <1>1 DEF Laid, N, items
  <2>2. off[k] < off[N + 1]
    BY <1>2 DEF PlainDir, N
  <2>3. QED BY <2>1, <2>2
<1>15. CASE Between(search, items, off, m, s, g, n - 1)
  <2>1. PICK k \in 1 .. N + 1 :
           /\ g = off[k] \/ (k = 1 /\ g < off[1]) \/ (k = N + 1 /\ g >= off[k])
           /\ s.at = "scan" /\ Passed(search, items, k, s.listed)
    BY <1>15 DEF Between, N
  <2>2. k = N + 1
    <3>1. ASSUME k \in 1 .. N PROVE FALSE
      <4>1. off[k] < off[N + 1] /\ off[k] \in Nat /\ 1 \in 1 .. N + 1 /\ off[1] \in Nat
        BY <1>3, <1>5, <1>14, <3>1
      <4>2. k # N + 1
        BY <1>3, <3>1
      <4>3. QED BY <1>12, <1>13, <2>1, <4>1, <4>2
    <3>2. QED BY <1>3, <3>1
  <2>3. QED BY <2>1, <2>2 DEF N, items
<1>16. CASE Inside(search, items, off, m, s, g, n - 1)
  <2>1. PICK k \in 1 .. N : g <= off[k] + items[k].pieces
    BY <1>16 DEF Inside, N
  <2>2. /\ items[k].pieces \in Nat /\ off[k] \in Nat
        /\ off[k + 1] = off[k] + items[k].pieces + 1
    BY <1>2, <2>1, ItemOfPlain DEF N
  <2>3. off[k + 1] <= off[N + 1]
    BY <1>14
  <2>4. PICK x, p : x = off[k] /\ p = items[k].pieces
    OBVIOUS
  <2>5. x \in Nat /\ p \in Nat /\ g <= x + p /\ x + p + 1 <= off[N + 1]
    BY <2>1, <2>2, <2>3, <2>4
  <2>6. FALSE
    BY <1>12, <1>13, <2>5
  <2>7. QED BY <2>6
<1>17. CASE Ended(search, items, off, s, g)
  BY <1>17 DEF Ended, items
<1>18. CASE Hit(search, items, s)
  BY <1>18 DEF items
<1>19. QED BY <1>11, <1>15, <1>16, <1>17, <1>18 DEF Reading, g

\* Who looks for a name in a plain directory finds the item that has it, with its kind and
\* first cluster, and nothing if there is none.
LEMMA NameFound ==
    ASSUME NEW t \in Trees, NEW d \in DOMAIN t, Plain(d, t[d]), NEW name \in Name,
           NEW op \in {"push", "open"}, NEW s,
           s = Scan(Search(op, d = 0, name), DirBlocks(t, d))
    PROVE  /\ \A k \in 1 .. Len(t[d]) : t[d][k].pieces > 0 /\ t[d][k].name = name =>
                 /\ s.at = "match" /\ s.entry.dir = t[d][k].dir
                 /\ s.entry.first = t[d][k].first
           /\ (\A k \in 1 .. Len(t[d]) : t[d][k].pieces > 0 => t[d][k].name # name) =>
                 s.at \in {"scan", "end"}
<1> DEFINE items == t[d]
           N == Len(items)
           search == Search(op, d = 0, name)
<1>1. search.op = op /\ search.wanted = name /\ search.root = (d = 0)
  BY DEF Search
<1>2. Sensible(search, d = 0)
  <2>1. name \notin Hidden
    BY RootFsAssumption
  <2>2. QED BY <1>1, <2>1 DEF Sensible
<1>3. \/ Hit(search, items, s)
      \/ s.at \in {"scan", "end"} /\ Passed(search, items, N + 1, s.listed)
  BY <1>2, SearchEnds
<1>4. N \in Nat /\ \A j, k \in 1 .. N :
         items[j].pieces > 0 /\ items[k].pieces > 0 /\ items[j].name = items[k].name => j = k
  <2>1. items \in Seq(DirItem)
    BY Directories
  <2>2. N \in Nat /\ DOMAIN items = 1 .. N
    BY <2>1
  <2>3. QED BY <2>2, Directories
<1> HIDE DEF search, items, N
<1>5. CASE Hit(search, items, s)
  <2>1. PICK j \in 1 .. N :
           /\ items[j].pieces > 0 /\ items[j].name = name
           /\ s.entry = Short(items[j].sum, items[j].dir, items[j].first)
    BY <1>1, <1>5 DEF Hit, N
  <2>2. s.at = "match" /\ s.entry.dir = items[j].dir /\ s.entry.first = items[j].first
    BY <1>5, <2>1 DEF Hit, Short
  <2>3. \A k \in 1 .. N : items[k].pieces > 0 /\ items[k].name = name => k = j
    BY <1>4, <2>1
  <2>4. QED BY <2>1, <2>2, <2>3 DEF N, items
<1>6. CASE s.at \in {"scan", "end"} /\ Passed(search, items, N + 1, s.listed)
  <2>1. \A j \in 1 .. (N + 1) - 1 : items[j].pieces > 0 => items[j].name # name
    BY <1>1, <1>6 DEF Passed
  <2>2. (N + 1) - 1 = N
    BY <1>4
  <2>3. QED BY <1>6, <2>1, <2>2 DEF N, items
<1>7. QED BY <1>3, <1>5, <1>6

\* list() shows the items that have long names.
LEMMA AllListed ==
    ASSUME NEW t \in Trees, NEW d \in DOMAIN t, Plain(d, t[d])
    PROVE  /\ ListIn[t][d].status = "listed"
           /\ Elements(ListIn[t][d].names) = Reference(t[d])
<1> DEFINE items == t[d]
           N == Len(items)
           search == Search("list", d = 0, NoName)
           s == Scan(search, DirBlocks(t, d))
           r == ListIn[t][d]
<1>1. search.op = "list" /\ search.root = (d = 0)
  BY DEF Search
<1>2. Sensible(search, d = 0)
  BY <1>1 DEF Sensible
<1>3. \/ Hit(search, items, s)
      \/ s.at \in {"scan", "end"} /\ Passed(search, items, N + 1, s.listed)
  BY <1>2, SearchEnds
<1>4. N \in Nat /\ DOMAIN items = 1 .. N
  <2>1. items \in Seq(DirItem)
    BY Directories
  <2>2. QED BY <2>1
<1>5. r = List(d = 0, DirBlocks(t, d))
  BY DEF ListIn
<1> HIDE DEF r
<1>6. r = IF s.at = "thrown" THEN [status |-> "thrown"]
          ELSE [status |-> "listed", names |-> s.listed]
  BY <1>5 DEF List
<1> HIDE DEF search, s, items, N
<1>7. s.at \in {"scan", "end"} /\ Elements(s.listed) = ShownTo(items, N + 1)
  BY <1>1, <1>3 DEF Hit, Passed
<1>8. r = [status |-> "listed", names |-> s.listed]
  BY <1>6, <1>7
<1>9. ShownTo(items, N + 1) = Reference(items)
  <2>1. (N + 1) - 1 = N
    BY <1>4
  <2>2. QED BY <1>4, <2>1 DEF ShownTo, Reference, Shows
<1>10. r.status = "listed" /\ r.names = s.listed
  BY <1>8
<1>11. QED BY <1>7, <1>9, <1>10 DEF r, items

\* In a plain directory push(), open_file() and list() find what is there and nothing else.
THEOREM SearchesTrue == PathSpec => []SearchesRight
<1>1. PathInv => SearchesRight
  <2> SUFFICES ASSUME PathInv, InFat, NEW d, d = DirOf(Top(cur)), Plain(d, tree[d])
               PROVE  /\ \A k \in DOMAIN tree[d] :
                            tree[d][k].pieces > 0 /\ tree[d][k].name \in Name =>
                               FoundAs(tree[d][k], PushIn[tree][d][tree[d][k].name],
                                       OpenIn[tree][d][tree[d][k].name])
                      /\ \A name \in Name : (\A r \in Reference(tree[d]) : r.name # name) =>
                             PushIn[tree][d][name].status = "NP"
                      /\ ListIn[tree][d].status = "listed"
                      /\ {ListIn[tree][d].names[i] : i \in DOMAIN ListIn[tree][d].names}
                            = Reference(tree[d])
    BY DEF SearchesRight
  <2> DEFINE items == tree[d]
             N == Len(items)
  <2>1. tree \in Trees /\ d \in DOMAIN tree
    <3>1. PICK n, W : Trail(W, n, cur)
      BY DEF PathInv
    <3>2. tree \in Trees /\ MountsTyped /\ cur \in Cursors(tree, Len(mnts)) /\ cur # << >>
      BY <3>1 DEF PathInv, Trail, InFat
    <3>3. Top(cur) \in LevelOf(tree, Len(mnts))
      BY <3>2 DEF Cursors, Top
    <3>4. DirOf(Top(cur)) \in DOMAIN tree
      <4>1. 0 \in DOMAIN tree
        BY <3>2, TreesAssumption
      <4>2. Top(cur).first \in DOMAIN tree
        BY <3>3 DEF LevelOf
      <4>3. QED BY <4>1, <4>2 DEF DirOf
    <3>5. QED BY <3>2, <3>4
  <2>2. N \in Nat /\ DOMAIN items = 1 .. N
    <3>1. items \in Seq(DirItem)
      BY <2>1, Directories
    <3>2. QED BY <3>1
  <2>3. ASSUME NEW name \in Name, NEW op \in {"push", "open"}, NEW s,
               s = Scan(Search(op, d = 0, name), DirBlocks(tree, d))
        PROVE  /\ \A k \in 1 .. N : items[k].pieces > 0 /\ items[k].name = name =>
                     /\ s.at = "match" /\ s.entry.dir = items[k].dir
                     /\ s.entry.first = items[k].first
               /\ (\A k \in 1 .. N : items[k].pieces > 0 => items[k].name # name) =>
                     s.at \in {"scan", "end"}
    BY <2>1, <2>3, NameFound
  <2>4. ASSUME NEW name \in Name
        PROVE  /\ PushIn[tree][d][name] = Push(d = 0, DirBlocks(tree, d), name)
               /\ OpenIn[tree][d][name] = OpenFile(d = 0, DirBlocks(tree, d), name)
    BY <2>1 DEF PushIn, OpenIn, Asked
  <2> HIDE DEF N
  <2>5. ASSUME NEW k \in 1 .. N, items[k].pieces > 0, items[k].name \in Name
        PROVE  FoundAs(items[k], PushIn[tree][d][items[k].name], OpenIn[tree][d][items[k].name])
    <3> DEFINE name == items[k].name
               p == Scan(Search("push", d = 0, name), DirBlocks(tree, d))
               o == Scan(Search("open", d = 0, name), DirBlocks(tree, d))
               pushed == PushIn[tree][d][name]
               opened == OpenIn[tree][d][name]
    <3>1. /\ p.at = "match" /\ p.entry.dir = items[k].dir /\ p.entry.first = items[k].first
          /\ o.at = "match" /\ o.entry.dir = items[k].dir /\ o.entry.first = items[k].first
      BY <2>3, <2>5
    <3>2. /\ pushed = Push(d = 0, DirBlocks(tree, d), name)
          /\ opened = OpenFile(d = 0, DirBlocks(tree, d), name)
      BY <2>4, <2>5
    <3> HIDE DEF pushed, opened
    <3>3. /\ pushed = IF p.at = "thrown" THEN [status |-> "thrown"]
                      ELSE IF p.at # "match" THEN [status |-> "NP"]
                      ELSE IF p.entry.dir THEN [status |-> "DIR_ENTRY", first |-> p.entry.first]
                      ELSE [status |-> "FILE_ENTRY"]
          /\ opened = IF o.at = "match" /\ ~o.entry.dir
                      THEN [status |-> "opened", first |-> o.entry.first]
                      ELSE [status |-> "thrown"]
      BY <3>2 DEF Push, OpenFile
    <3> HIDE DEF p, o
    <3>4. FoundAs(items[k], pushed, opened)
      <4>1. PICK x : x = items[k]
        OBVIOUS
      <4>2. CASE x.dir
        <5>1. pushed = [status |-> "DIR_ENTRY", first |-> x.first]
          BY <3>1, <3>3, <4>1, <4>2
        <5>2. opened = [status |-> "thrown"]
          BY <3>1, <3>3, <4>1, <4>2
        <5>3. opened.status = "thrown"
          BY <5>2
        <5>4. QED BY <4>1, <4>2, <5>1, <5>3 DEF FoundAs
      <4>3. CASE ~x.dir
        <5>1. pushed = [status |-> "FILE_ENTRY"]
          BY <3>1, <3>3, <4>1, <4>3
        <5>2. opened = [status |-> "opened", first |-> x.first]
          BY <3>1, <3>3, <4>1, <4>3
        <5>3. pushed.status = "FILE_ENTRY"
          BY <5>1
        <5>4. QED BY <4>1, <4>3, <5>2, <5>3 DEF FoundAs
      <4>4. QED BY <4>2, <4>3
    <3>5. QED BY <3>4 DEF pushed, opened
  <2>6. ASSUME NEW name \in Name, \A r \in Reference(items) : r.name # name
        PROVE  PushIn[tree][d][name].status = "NP"
    <3> DEFINE p == Scan(Search("push", d = 0, name), DirBlocks(tree, d))
               pushed == PushIn[tree][d][name]
    <3>1. \A k \in 1 .. N : items[k].pieces > 0 => items[k].name # name
      <4>1. ASSUME NEW k \in 1 .. N, items[k].pieces > 0 PROVE items[k].name # name
        <5> DEFINE r == [name |-> items[k].name, dir |-> items[k].dir]
        <5>1. r \in Reference(items)
          BY <2>2, <4>1 DEF Reference
        <5>2. r.name = items[k].name
          OBVIOUS
        <5> HIDE DEF r
        <5>3. QED BY <2>6, <5>1, <5>2
      <4>2. QED BY <4>1
    <3>2. p.at \in {"scan", "end"}
      BY <2>3, <3>1
    <3>3. pushed = Push(d = 0, DirBlocks(tree, d), name)
      BY <2>4
    <3> HIDE DEF pushed
    <3>4. pushed = IF p.at = "thrown" THEN [status |-> "thrown"]
                   ELSE IF p.at # "match" THEN [status |-> "NP"]
                   ELSE IF p.entry.dir THEN [status |-> "DIR_ENTRY", first |-> p.entry.first]
                   ELSE [status |-> "FILE_ENTRY"]
      BY <3>3 DEF Push
    <3> HIDE DEF p
    <3>5. pushed = [status |-> "NP"]
      BY <3>2, <3>4
    <3>6. pushed.status = "NP"
      BY <3>5
    <3>7. QED BY <3>6 DEF pushed
  <2>7. ListIn[tree][d].status = "listed" /\ Elements(ListIn[tree][d].names) = Reference(items)
    BY <2>1, AllListed
  <2>8. QED BY <2>2, <2>5, <2>6, <2>7 DEF Elements
<1>2. QED BY <1>1, InitPathInv, NextPathInv, PTL DEF PathSpec

================================================================================
