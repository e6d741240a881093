--------------------------------- MODULE RootFs ---------------------------------
(***************************************************************************)
(* Paths.  A process walks the tree of files with an iterator rootfs_dit   *)
(* (kernel/fs/rootfs.cc), name by name: it is a stack of the iterators of  *)
(* the file systems it went into at their mount points.  The iterator of a *)
(* FAT file system keeps a stack of directories (FAT_dir_iterator, module  *)
(* FatDir) under coh_dit (kernel/fs/templates.hh), which takes care of "." *)
(* and ".."; that of devfs knows no directories.                           *)
(*                                                                         *)
(* The iterator is the sequence cur of levels, empty for stk_top = -1.  A  *)
(* level has the number of its mount, the stack of a FAT iterator (names   *)
(* and first clusters), and first_cluster_of_current_directory.            *)
(***************************************************************************)
EXTENDS FatDir, FiniteSets

CONSTANTS
    Name,           \* names that are asked for, besides "." and ".."
    Mountable,      \* the file systems to mount and where, as pairs <<kind, path>>
    Mounts,         \* how many file systems can be mounted, 256
    Depth,          \* stack_size of a FAT iterator, 32
    Indirections,   \* the levels of a rootfs_dit, 32
    RootEntries,    \* BPB_RootEntCnt
    PerCluster,     \* number_of_entries_per_cluster
    Trees,          \* contents of the FAT file system: for each directory, by its
                    \* first cluster (0 is the root directory), the items in it
    DirClusters     \* and for each directory the number of clusters that it has

ASSUME RootFsAssumption ==
    /\ Mounts \in Nat /\ Depth \in Nat /\ Indirections \in Nat
    /\ RootEntries \in Nat \ {0} /\ PerCluster \in Nat \ {0}
    /\ Name \subseteq STRING \ Hidden
    /\ Mountable \subseteq {"fat", "dev"} \X Seq(Name)

VARIABLES
    tree,       \* what is on the disk
    mnts,       \* the mounts, in order
    cur,        \* the iterator
    answer,     \* what the last call returned
    alive       \* FALSE after a failed assertion

pathVars == <<tree, mnts, cur, answer, alive>>

Top(levels)   == levels[Len(levels)]
Front1(seq)   == SubSeq(seq, 1, Len(seq) - 1)

--------------------------------------------------------------------------------
(* The iterator of a FAT file system *)

\* The two entries a directory other than the root directory begins with.
Dots(first) == <<Short(-2, TRUE, first), Short(-3, TRUE, 0)>>

DirEntries(t, first) ==
    IF first = 0 THEN Concatenated(t[0]) ELSE Dots(first) \o Concatenated(t[first])

\* The entries that are read as one: a cluster, or the whole root directory.
BlockSize(first)  == IF first = 0 THEN RootEntries ELSE PerCluster
BlockCount(first) == IF first = 0 THEN 1 ELSE DirClusters[first]

DirBlocks(t, first) == Blocks(DirEntries(t, first), BlockCount(first), BlockSize(first))

\* The directories of a tree: each has room for its entries, no two items in one have the
\* same long name, and directories lead to directories.
DirItem == [name : STRING \ Hidden, pieces : Nat, dir : BOOLEAN, first : Nat,
            erased : BOOLEAN, sum : 0 .. 255]

Directory(t, first) ==
    /\ t[first] \in Seq(DirItem)
    /\ BlockCount(first) \in Nat \ {0}
    /\ Len(DirEntries(t, first)) <= BlockCount(first) * BlockSize(first)
    /\ \A k \in DOMAIN t[first] : t[first][k].dir => t[first][k].first \in DOMAIN t \ {0}
    /\ \A j, k \in DOMAIN t[first] :
          /\ t[first][j].pieces > 0 /\ t[first][k].pieces > 0
          /\ t[first][j].name = t[first][k].name
          => j = k

ASSUME TreesAssumption ==
    \A t \in Trees : /\ 0 \in DOMAIN t /\ DOMAIN t \subseteq Nat
                     /\ \A first \in DOMAIN t : Directory(t, first)

Asked == Name \cup {".", ".."}

\* What push(), open_file() and list() return in each directory of each tree.
PushIn ==
    [t \in Trees |-> [first \in DOMAIN t |->
        [name \in Asked |-> Push(first = 0, DirBlocks(t, first), name)]]]
OpenIn ==
    [t \in Trees |-> [first \in DOMAIN t |->
        [name \in Asked |-> OpenFile(first = 0, DirBlocks(t, first), name)]]]
ListIn ==
    [t \in Trees |-> [first \in DOMAIN t |-> List(first = 0, DirBlocks(t, first))]]

\* The search is one of the root directory when the stack is empty, whatever the cluster.
DirOf(level) == IF level.stack = << >> THEN 0 ELSE level.first

Entered(level, name, p) ==
    [status |-> p.status,
     level  |-> IF p.status # "DIR_ENTRY" THEN level
                ELSE [level EXCEPT !.stack = Append(@, [name |-> name, first |-> p.first]),
                                   !.first = p.first]]

\* push(), which throws before it looks when the stack is full.
FatPush(level, name) ==
    IF Len(level.stack) = Depth THEN [status |-> "thrown", level |-> level]
    ELSE Entered(level, name, PushIn[tree][DirOf(level)][name])

\* pop() (in the variant, the first cluster is that of the directory that is left).
FatPopLate(level) ==
    [level EXCEPT !.stack = Front1(@), !.first = IF Len(level.stack) = 1 THEN 0 ELSE @]
FatPop(level) ==
    [level EXCEPT !.stack = Front1(@),
                  !.first = IF Len(level.stack) = 1 THEN 0
                            ELSE level.stack[Len(level.stack) - 1].first]

--------------------------------------------------------------------------------
(* The iterator of devfs: one serial port and one terminal are attached.  The number at  *)
(* the end of the name of a port is not read: any is the first one.                      *)

DevFiles == {"ser0", "ser1", "tty0"}
DevListed == <<[name |-> "ser0", dir |-> FALSE], [name |-> "tty0", dir |-> FALSE]>>

DevPush(level, name) ==
    [status |-> IF name \in DevFiles THEN "FILE_ENTRY" ELSE "NP", level |-> level]

--------------------------------------------------------------------------------
(* coh_dit *)

RawPush(level, name) ==
    IF level.kind = "fat" THEN FatPush(level, name) ELSE DevPush(level, name)

CohPush(level, name) ==
    IF name = ".." /\ level.stack # << >> THEN [status |-> "DIR_ENTRY", level |-> FatPop(level)]
    ELSE IF name = ".." THEN [status |-> "UNDERRUN", level |-> level]
    ELSE IF name = "." THEN [status |-> "DIR_ENTRY", level |-> level]
    ELSE RawPush(level, name)

\* open_file() goes by the raw push(), which may have entered a directory.
OpenPushed(level, name, p) ==
    [status |-> IF p.status # "FILE_ENTRY" THEN "thrown"
                ELSE IF level.kind = "fat" THEN OpenIn[tree][DirOf(level)][name].status
                ELSE "opened",
     level  |-> p.level]

CohOpen(level, name) == OpenPushed(level, name, RawPush(level, name))

CohList(level) ==
    IF level.kind = "fat" THEN ListIn[tree][DirOf(level)]
    ELSE [status |-> "listed", names |-> DevListed]

--------------------------------------------------------------------------------
(* rootfs_dit *)

\* lookup_mnt(): the first of several mounts at a place counts; 0 if there is none.
LookupMnt(path) ==
    LET found == {i \in DOMAIN mnts : mnts[i].path = path}
    IN  IF found = {} THEN 0 ELSE CHOOSE i \in found : \A j \in found : i <= j

\* get_canonical_path(): that of the mount and of the iterator in it.
LevelPath(level) ==
    mnts[level.mnt].path \o [i \in DOMAIN level.stack |-> level.stack[i].name]
CanonicalPath(levels) == IF levels = << >> THEN << >> ELSE LevelPath(Top(levels))

Enter(levels, i) ==
    Append(levels, [mnt |-> i, kind |-> mnts[i].kind, stack |-> << >>, first |-> 0])

Replace(levels, level) == [levels EXCEPT ![Len(levels)] = level]

\* A name that is nowhere in the file system may be a mount point.
EnterMount(levels, i) ==
    IF i = 0 THEN [status |-> "NP", levels |-> levels]
    ELSE IF Len(levels) = Indirections THEN [status |-> "panic", levels |-> levels]
    ELSE [status |-> "DIR_ENTRY", levels |-> Enter(levels, i)]

TryMount(levels, name) == EnterMount(levels, LookupMnt(Append(CanonicalPath(levels), name)))

AfterPush(levels, name, p) ==
    CASE p.status = "UNDERRUN" -> [status |-> "DIR_ENTRY", levels |-> Front1(levels)]
      [] p.status = "NP"       -> TryMount(levels, name)
      [] OTHER -> [status |-> p.status, levels |-> Replace(levels, p.level)]

\* operator<<
Walk(levels, name) ==
    IF levels # << >> THEN AfterPush(levels, name, CohPush(Top(levels), name))
    ELSE IF name \in {".", ".."} THEN [status |-> "DIR_ENTRY", levels |-> levels]
    ELSE TryMount(levels, name)

AfterOpen(levels, o) == [status |-> o.status, levels |-> Replace(levels, o.level)]

OpenAt(levels, name) ==
    IF levels = << >> THEN [status |-> "null", levels |-> levels]
    ELSE AfterOpen(levels, CohOpen(Top(levels), name))

\* list(), without "." and "..": the root shows the mounts right below it (in the variant,
\* the first part of the place of every one).
ListAtAll(levels) ==
    IF levels # << >> THEN CohList(Top(levels))
    ELSE [status |-> "listed",
          names |-> [i \in DOMAIN mnts |-> [name |-> mnts[i].path[1], dir |-> TRUE]]]
ListAt(levels) ==
    IF levels # << >> THEN CohList(Top(levels))
    ELSE [status |-> "listed",
          names |-> [i \in {j \in DOMAIN mnts : Len(mnts[j].path) = 1} |->
                        [name |-> mnts[i].path[1], dir |-> TRUE]]]

--------------------------------------------------------------------------------
PathInit ==
    /\ tree \in Trees
    /\ mnts = << >>
    /\ cur = << >>
    /\ answer = "none"
    /\ alive = TRUE

\* mount() does not look whether there is one at that place.
Mount(kind, path) ==
    /\ Len(mnts) < Mounts
    /\ mnts' = Append(mnts, [kind |-> kind, path |-> path])
    /\ UNCHANGED <<tree, cur, answer, alive>>

\* The system calls 4, 3 and 2; an exception is answered by -1.
GetIterator ==
    /\ cur' = << >>
    /\ answer' = "none"
    /\ UNCHANGED <<tree, mnts, alive>>

Returns(r) ==
    /\ cur' = r.levels
    /\ answer' = r.status
    /\ alive' = (r.status # "panic")
    /\ UNCHANGED <<tree, mnts>>

Traverse(name) == \E r \in {Walk(cur, name)} : Returns(r)
OpenName(name) == \E r \in {OpenAt(cur, name)} : Returns(r)

PathNext ==
    /\ alive
    /\ \/ \E m \in Mountable : Mount(m[1], m[2])
       \/ GetIterator
       \/ \E name \in Asked : Traverse(name) \/ OpenName(name)

PathSpec == PathInit /\ [][PathNext]_pathVars

--------------------------------------------------------------------------------
(* Properties *)

\* The iterator that follows the names of a path from the root.
Follow(path) ==
    LET upTo[k \in 0 .. Len(path)] ==
            IF k = 0 THEN << >> ELSE Walk(upTo[k - 1], path[k]).levels
    IN  upTo[Len(path)]

\* Whatever calls were made, with their failures, ways up and mounts in between, the
\* iterator is where its canonical path says: a new one that follows the path is the same,
\* with all its levels, stacks and clusters.
CursorTrue == Follow(CanonicalPath(cur)) = cur

\* A directory is plain if no long name is cut by the end of a cluster and none was deleted,
\* and if an item without one comes before all with one in its cluster, and never in the
\* root directory.
Offset(first, items, k) ==
    Len(Concatenated(SubSeq(items, 1, k - 1))) + (IF first = 0 THEN 0 ELSE Len(Dots(first)))
BlockOf(first, offset) == offset \div BlockSize(first)

PlainItem(first, items, k) ==
    LET here == Offset(first, items, k)
    IN  /\ items[k].pieces > 0 =>
             ~items[k].erased /\ BlockOf(first, here) = BlockOf(first, here + items[k].pieces)
        /\ items[k].pieces = 0 /\ ~items[k].erased =>
             /\ first # 0
             /\ \A j \in 1 .. k - 1 : items[j].pieces > 0 =>
                   BlockOf(first, Offset(first, items, j)) # BlockOf(first, here)

Plain(first, items) == \A k \in DOMAIN items : PlainItem(first, items, k)

Reference(items) ==
    {[name |-> items[k].name, dir |-> items[k].dir] :
        k \in {i \in DOMAIN items : items[i].pieces > 0}}

FoundAs(item, pushed, opened) ==
    IF item.dir
    THEN pushed = [status |-> "DIR_ENTRY", first |-> item.first] /\ opened.status = "thrown"
    ELSE pushed.status = "FILE_ENTRY" /\ opened = [status |-> "opened", first |-> item.first]

InFat == cur # << >> /\ Top(cur).kind = "fat"

\* In a plain directory, be it of several clusters, all three searches find what is there
\* and nothing else: push() every directory and file, with its kind and first cluster,
\* open_file() every file, list() each of them.
SearchesRight ==
    InFat => \A dir \in {DirOf(Top(cur))} : Plain(dir, tree[dir]) =>
        /\ \A k \in DOMAIN tree[dir] : tree[dir][k].pieces > 0 /\ tree[dir][k].name \in Name =>
               FoundAs(tree[dir][k], PushIn[tree][dir][tree[dir][k].name],
                       OpenIn[tree][dir][tree[dir][k].name])
        /\ \A name \in Name : (\A r \in Reference(tree[dir]) : r.name # name) =>
               PushIn[tree][dir][name].status = "NP"
        /\ ListIn[tree][dir].status = "listed"
        /\ {ListIn[tree][dir].names[i] : i \in DOMAIN ListIn[tree][dir].names}
              = Reference(tree[dir])

\* Where list() succeeds, in any directory, what it shows is what there is: a name can be
\* entered or opened (or is a mount too deep) exactly if it is shown, unless it is a mount
\* point, the port of another number, or the iterator is as deep as it can be.
ListedFound ==
    alive /\ ~(InFat /\ Len(Top(cur).stack) = Depth) =>
        \A list \in {ListAt(cur)} : list.status = "listed" =>
            \A name \in Name :
                (Walk(cur, name).status \in {"DIR_ENTRY", "FILE_ENTRY", "panic"}) =
                (\/ \E i \in DOMAIN list.names : list.names[i].name = name
                 \/ LookupMnt(Append(CanonicalPath(cur), name)) # 0
                 \/ cur # << >> /\ Top(cur).kind = "dev" /\ name = "ser1")

================================================================================
