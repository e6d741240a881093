-------------------------------- MODULE FatFile --------------------------------
(***************************************************************************)
(* Files of the FAT driver (drivers/fat/fat_file.cc) and the table of      *)
(* clusters (drivers/fat/fat_fs.cc), FAT16 as on the disk image that the   *)
(* Makefile builds.  All files of a file system read and write through     *)
(* one handle fh of the partition, and each FAT_file remembers where in    *)
(* the file and on the disk it believes that to be.                        *)
(*                                                                         *)
(* Calls do not overlap here (module FatLock is about that): read, write   *)
(* and seek of a file, opening a file, and walks through directories, of   *)
(* any handles in any order.  The data region is counted in bytes from     *)
(* its first cluster, number 2; contents are left out, what counts is      *)
(* which bytes a call reads or writes.  The copies of the table are always *)
(* written together and are one here.                                      *)
(***************************************************************************)
EXTENDS Integers, Sequences

CONSTANTS
    ClusterSize,    \* cluster_size, in bytes
    Clusters,       \* how many clusters the data region has
    Searched,       \* number_of_FAT_entries, where find_free_cluster() ends
    HalfWord,       \* 2^8: what "& 0xFF" keeps of the number of a cluster
    Word,           \* 2^64: size_t
    File,           \* the directory entries
    Handle,         \* the files open at a time
    None,           \* no handle
    Chains,         \* the clusters that each file has at first, a sequence
    Sizes,          \* and the sizes
    Counts,         \* how many bytes are read or written at a time
    MaxSize         \* bound on the positions and sizes of files

Cluster   == 2 .. Clusters + 1
Last      == Clusters + 2       \* LAST_CLUSTER: above any number_of_clusters
Elsewhere == -1                 \* fh is in the table or in a directory
Entry     == {0, Last} \cup Cluster

ASSUME FatAssumption ==
    /\ ClusterSize \in Nat \ {0} /\ Clusters \in Nat \ {0} /\ Searched \in Nat
    /\ HalfWord \in Nat \ {0} /\ Word \in Nat \ {0} /\ MaxSize \in 0 .. Word - 1
    /\ None \notin Handle /\ Counts \subseteq 0 .. MaxSize
    /\ Sizes \in [File -> 0 .. MaxSize]
    /\ Chains \in [File -> Seq(Cluster)]       \* on the disk no two entries lead to one cluster
    /\ \A f, g \in File : \A i \in DOMAIN Chains[f], j \in DOMAIN Chains[g] :
          Chains[f][i] = Chains[g][j] => f = g /\ i = j

VARIABLES
    fat,        \* the table
    dir,        \* first cluster and size in each directory entry, and the cluster
                \* whose number was to be written there (history)
    handle,     \* the members of each FAT_file, or that it is not open
    fh,         \* where the shared handle is
    damaged,    \* file data was written over the table, a directory or beyond
    owner,      \* history: the handle that has fh to itself since it was opened or
    placed      \* positioned, and whether it did nothing since

vars == <<fat, dir, handle, fh, damaged, owner, placed>>

Min2(a, b) == IF a < b THEN a ELSE b

--------------------------------------------------------------------------------
(* The table *)

Address(c) == (c - 2) * ClusterSize

\* The entries met from c on.  Reading goes on only from a cluster that is one.
Chain(c) ==
    LET hop[i \in 0 .. Clusters] ==
            IF i = 0 THEN c ELSE IF hop[i - 1] \in Cluster THEN fat[hop[i - 1]] ELSE 0
    IN  hop

\* How many of the next n clusters there are.
Reached(c, n) ==
    CHOOSE k \in 0 .. Min2(n, Clusters) :
        /\ \A i \in 1 .. k : Chain(c)[i] \in Cluster
        /\ k = n \/ k = Clusters \/ Chain(c)[k + 1] \notin Cluster

\* find_free_cluster(): the first entry that is zero (in the variant, whatever it is).
FreeAny == {c \in Cluster : c < Searched}
Free    == {c \in Cluster : c < Searched /\ fat[c] = 0}
FirstFree == CHOOSE c \in Free : \A d \in Free : c <= d

\* write_fat_entry(), in all copies of the table.
WriteEntry(c, entry) == [fat EXCEPT ![c] = entry]

\* After find_fat_entry(c) fh is in the table, unless c is no number of a cluster.
AfterLookup(c, at) == IF c < 2 THEN at ELSE Elsewhere

--------------------------------------------------------------------------------
(* Opening and positioning *)

Closed == [open |-> FALSE]

Opened(f) == [open |-> TRUE, file |-> f, pos |-> 0, within |-> 0, cluster |-> dir[f].first,
              first |-> dir[f].first, size |-> dir[f].size]

\* The history: h has fh to itself now; or somebody else used it.
Owns(h, exactly) == owner' = h /\ placed' = exactly

\* open_file() finds the entry, and the constructor goes to the first cluster; it
\* throws when the entry holds the number 1.
Open(h, f) ==
    /\ handle' = [handle EXCEPT ![h] = IF dir[f].first = 1 THEN @ ELSE Opened(f)]
    /\ IF dir[f].first < 2 THEN fh' = Elsewhere /\ Owns(None, FALSE)
       ELSE fh' = Address(dir[f].first) /\ Owns(h, TRUE)
    /\ UNCHANGED <<fat, dir, damaged>>

\* push(), pop(), list(), and open_file() when there is no such file.
WalkDirectory ==
    /\ fh' = Elsewhere
    /\ Owns(None, FALSE)
    /\ UNCHANGED <<fat, dir, handle, damaged>>

\* The place within a cluster (in the variant, its beginning).
WithinStart(p) == 0
Within(p)      == p % ClusterSize

\* set_position(): nothing is done for the position it is at, or one out of the file
\* (the end included); the position is noted before its cluster is looked up.
Seek(h, p) ==
    LET file == handle[h]
        hops == p \div ClusterSize
        c    == Chain(file.first)[Reached(file.first, hops)]
    IN  /\ file.open
        /\ IF p = file.pos \/ (p > 0 /\ p >= file.size)
           THEN UNCHANGED <<handle, fh, owner, placed>>
           ELSE IF Reached(file.first, hops) < hops \/ c < 2
           THEN /\ handle' = [handle EXCEPT ![h].pos = p]
                /\ fh' = IF hops = 0 THEN fh ELSE AfterLookup(file.first, fh)
                /\ Owns(None, FALSE)
           ELSE /\ handle' = [handle EXCEPT ![h].pos = p, ![h].within = Within(p), ![h].cluster = c]
                /\ fh' = Address(c) + Within(p)
                /\ Owns(h, TRUE)
        /\ UNCHANGED <<fat, dir, damaged>>

--------------------------------------------------------------------------------
(* Reading *)

\* A call for n bytes reads what is left of the file (which wraps around where the
\* position is beyond the size), first in the cluster it is in, then in the next ones
\* (in the variant, it goes on at the end of one with nothing left to read).
Length(file, n)     == IF file.pos + n > file.size THEN (file.size - file.pos) % Word ELSE n
FirstPart(file, n)  == Min2(ClusterSize - file.within, n)
HopsBeyond(file, n) == (n - FirstPart(file, n) + ClusterSize) \div ClusterSize
Hops(file, n)       == (n - FirstPart(file, n) + ClusterSize - 1) \div ClusterSize

Advance(at, n) == IF at = Elsewhere THEN Elsewhere ELSE at + n

\* Only the last piece, if it is not a whole cluster, notes the place in its cluster;
\* any other leaves the beginning of the cluster it began in.
Read(h, n) ==
    LET file  == handle[h]
        len   == Length(file, n)
        part  == FirstPart(file, len)
        hops  == Hops(file, len)
        found == Reached(file.cluster, hops)
        c     == Chain(file.cluster)[found]
        piece == len - part - (hops - 1) * ClusterSize      \* the last one
        after == [file EXCEPT !.cluster = c, !.within = 0]
    IN  /\ file.open
        /\ IF found < hops
           THEN /\ handle' = [handle EXCEPT ![h] =
                                 [after EXCEPT !.pos = @ + part + found * ClusterSize]]
                /\ fh' = AfterLookup(c, Advance(fh, part))
           ELSE /\ handle' = [handle EXCEPT ![h] =
                             [after EXCEPT !.pos = @ + len,
                                           !.within = IF hops = 0 THEN 0 ELSE piece % ClusterSize]]
                /\ fh' = IF hops = 0 THEN Advance(fh, part) ELSE Address(c) + piece
        /\ Owns(IF owner = h /\ found = hops /\ len <= ClusterSize THEN h ELSE None, FALSE)
        /\ UNCHANGED <<fat, dir, damaged>>

--------------------------------------------------------------------------------
(* Writing *)

InData(at, n) == n = 0 \/ at \in 0 .. Clusters * ClusterSize - n

\* An empty file gets a cluster, whose number goes into the directory entry, cut down
\* to eight bits; fh goes there.  Any other file is written where fh is.
FirstCluster(file) == IF file.size = 0 THEN FirstFree ELSE file.cluster
Start(file) == IF file.size = 0 THEN Address(FirstFree) ELSE fh

\* When a piece remains the entry of the next cluster is looked up.  A number that is
\* none throws, and so does LAST_CLUSTER, larger than any: a file never grows beyond
\* its clusters.  If there is a next one, fh is left in the table and written to.
Write(h, n) ==
    LET file == handle[h]
        part == FirstPart(file, n)
        c    == FirstCluster(file)
        new  == [file EXCEPT !.pos = @ + part, !.within = 0, !.cluster = c,
                             !.first = IF file.size = 0 THEN c ELSE @]
        grown == n = part /\ new.pos > file.size
    IN  /\ file.open
        /\ file.pos + n <= MaxSize
        /\ file.size = 0 => Free # {}
        /\ handle' = [handle EXCEPT ![h] = IF grown THEN [new EXCEPT !.size = new.pos] ELSE new]
        /\ fat' = IF file.size = 0 THEN WriteEntry(c, Last) ELSE fat
        /\ dir' = [dir EXCEPT ![file.file] =
                      [first |-> IF file.size = 0 THEN c % HalfWord ELSE @.first,
                       real  |-> IF file.size = 0 THEN c ELSE @.real,
                       size  |-> IF grown THEN new.pos ELSE @.size]]
        /\ fh' = IF grown THEN Elsewhere
                 ELSE IF n = part THEN Advance(Start(file), part)
                 ELSE AfterLookup(c, Advance(Start(file), part))
        /\ damaged' = \/ ~InData(Start(file), part)
                      \/ (n > part /\ Chain(c)[1] \in Cluster)
        /\ Owns(None, FALSE)

\* No free cluster is left for an empty file.
WriteFails(h) ==
    /\ handle[h].open
    /\ handle[h].size = 0 /\ Free = {}
    /\ handle' = [handle EXCEPT ![h].first = 0]
    /\ fh' = Elsewhere
    /\ Owns(None, FALSE)
    /\ UNCHANGED <<fat, dir, damaged>>

--------------------------------------------------------------------------------
Init ==
    /\ fat = [c \in Cluster |->
                 IF \E f \in File : \E i \in DOMAIN Chains[f] : Chains[f][i] = c
                 THEN LET f == CHOOSE f \in File : \E i \in DOMAIN Chains[f] : Chains[f][i] = c
                          i == CHOOSE i \in DOMAIN Chains[f] : Chains[f][i] = c
                      IN  IF i + 1 \in DOMAIN Chains[f] THEN Chains[f][i + 1] ELSE Last
                 ELSE 0]
    /\ dir = [f \in File |->
                 LET c == IF DOMAIN Chains[f] = {} THEN 0 ELSE Chains[f][1]
                 IN  [first |-> c, real |-> c, size |-> Sizes[f]]]
    /\ handle = [h \in Handle |-> Closed]
    /\ fh = Elsewhere
    /\ damaged = FALSE
    /\ owner = None /\ placed = FALSE

Next ==
    /\ ~damaged
    /\ \/ \E h \in Handle, f \in File : Open(h, f)
       \/ WalkDirectory
       \/ \E h \in Handle, p \in 0 .. MaxSize : Seek(h, p)
       \/ \E h \in Handle, n \in Counts : Read(h, n) \/ Write(h, n)
       \/ \E h \in Handle : WriteFails(h)

Spec == Init /\ [][Next]_vars

--------------------------------------------------------------------------------
(* Properties.  Nothing is claimed once data was written over the table. *)

\* Where the byte at position p of a file is, from its first cluster on.
Place(file, p) == Address(Chain(file.first)[p \div ClusterSize]) + (p % ClusterSize)

\* The table leads to every byte of the file; its clusters follow each other on disk.
Needed(file)     == (file.size + ClusterSize - 1) \div ClusterSize
Whole(file)      ==
    /\ Needed(file) <= Clusters
    /\ \A i \in 0 .. Needed(file) - 1 : Chain(file.first)[i] \in Cluster
Contiguous(file) == \A i \in 0 .. Needed(file) - 1 : Chain(file.first)[i] = file.first + i

\* Where read() takes the byte number j of its buffer from.
ReadFrom(file, len, j) ==
    LET k == j - FirstPart(file, len)
    IN  IF k < 0 THEN fh + j
        ELSE Address(Chain(file.cluster)[1 + k \div ClusterSize]) + (k % ClusterSize)

ReadsRight(file, n) ==
    LET len == Length(file, n)
    IN  /\ Reached(file.cluster, Hops(file, len)) = Hops(file, len)
        /\ \A j \in 0 .. len - 1 : ReadFrom(file, len, j) = Place(file, file.pos + j)

\* A read that follows upon the opening or positioning of its file, with nothing in
\* between, gets the bytes at that position, any number, over any chain of clusters;
\* and a write there, to a file that is not empty, is made to the bytes at that position,
\* up to the end of the cluster.
PlacedTransfers ==
    ~damaged /\ owner # None /\ placed =>
        LET file == handle[owner]
        IN  /\ Whole(file) => \A n \in Counts : ReadsRight(file, n)
            /\ file.size > 0 =>
                   \A j \in 0 .. ClusterSize - file.within - 1 :
                       Start(file) + j = Place(file, file.pos + j)

\* A file that is read from where it was opened or positioned, in pieces of at most a
\* cluster, is read right to its end, if nobody else uses fh and if the clusters of
\* the file follow each other: most such reads do not look at the table.
SequentialReads ==
    ~damaged /\ owner # None /\ Whole(handle[owner]) /\ Contiguous(handle[owner]) =>
        \A n \in Counts : n <= ClusterSize => ReadsRight(handle[owner], n)

\* The bytes that the directory entry of a file leads to are those of no other file, as
\* long as the numbers of all first clusters fit in the bits that are kept of them.
Owned(f) == {c \in Cluster : \E i \in 0 .. Clusters : Chain(dir[f].first)[i] = c}
FilesDisjoint ==
    (\A f \in File : dir[f].first = dir[f].real) =>
        \A f, g \in File : f # g => Owned(f) \cap Owned(g) = {}

================================================================================
