--------------------------------- MODULE FatDir ---------------------------------
(***************************************************************************)
(* Directories of a FAT16 file system and the three searches that          *)
(* FAT_dir_iterator makes in them (drivers/fat/fat_dir_iterator.cc):       *)
(* push(), open_file() and list(), each written out twice, for the root    *)
(* directory and for the others, with small differences.                   *)
(*                                                                         *)
(* A directory is read entry by entry.  The pieces of a long name come     *)
(* before the entry they belong to, the last piece first, numbered         *)
(* downwards, each with the checksum of that entry.  The state of a search *)
(* is a record:                                                            *)
(*   n        number_of_LFN_entries, the pieces still to come, or -1       *)
(*   sum      current_checksum                                             *)
(*   long     there_is_long_name                                           *)
(*   found    found_directory_Name                                         *)
(*   listed   the list so far, of names with is_directory (the code's is   *)
(*            in the opposite order)                                       *)
(*   at       "scan", or how the loop was left                             *)
(*   entry    the entry that matched                                       *)
(* Names are model values; that of a piece is the whole name.  Names of a  *)
(* multiple of 13 characters, which end without a zero, are left out.      *)
(***************************************************************************)
EXTENDS Integers, Sequences

NoName == ""            \* the empty string, in the buffer at first
NoSum  == -1

Piece(name, ord, last, sum) ==
    [kind |-> "long", name |-> name, ord |-> ord, last |-> last, sum |-> sum]
Short(sum, dir, first) == [kind |-> "short", sum |-> sum, dir |-> dir, first |-> first]
Erased == [kind |-> "erased"]       \* the name begins with 0xE5
End    == [kind |-> "end"]          \* with 0x00

\* A search: which function, in which directory, and what for.
Search(op, root, wanted) == [op |-> op, root |-> root, wanted |-> wanted]

Begin(listed) ==
    [n |-> -1, sum |-> NoSum, long |-> FALSE, found |-> NoName, listed |-> listed,
     at |-> "scan", entry |-> End]

Leave(s, how) == [s EXCEPT !.at = how]

--------------------------------------------------------------------------------
(* One entry *)

\* push() in the root directory does not look whether the first piece is marked as the
\* last one.
Lax(search) == search.op = "push" /\ search.root

\* open_file() and list() compare every entry of the root directory with the last
\* checksum, also one without a long name.
Strict(search) == search.op # "push" /\ search.root

ReadPiece(search, s, e) ==
    LET starts == s.n = -1
        fits   == IF starts THEN e.last \/ Lax(search)
                  ELSE ~e.last /\ e.ord = s.n /\ e.sum = s.sum
    IN  IF ~fits THEN Leave(s, "thrown")
        ELSE [s EXCEPT !.n = (IF starts THEN e.ord ELSE @) - 1,
                       !.sum = IF starts THEN e.sum ELSE @,
                       !.long = TRUE,
                       !.found = e.name]

Hidden == {NoName, ".", ".."}

\* The entry, after its checksum was compared: listed, or compared with the name that is
\* looked for, which without a long name of its own is the one before.
TakeEntry(search, s, e) ==
    IF search.op = "list"
    THEN IF s.found \in Hidden THEN s
         ELSE [s EXCEPT !.listed = Append(@, [name |-> s.found, dir |-> e.dir])]
    ELSE IF s.found = search.wanted THEN [Leave(s, "match") EXCEPT !.entry = e]
    ELSE s

\* (In the variant, the pieces still to come are not forgotten.)
ReadEntryCounting(search, s, e) ==
    IF e.kind = "erased" THEN s
    ELSE IF e.kind = "end" THEN Leave(s, "end")
    ELSE IF (s.long \/ Strict(search)) /\ e.sum # s.sum THEN Leave(s, "thrown")
    ELSE TakeEntry(search, [s EXCEPT !.long = FALSE], e)

ReadEntry(search, s, e) ==
    LET reset == [s EXCEPT !.n = -1]
    IN  IF e.kind = "erased" THEN reset
        ELSE IF e.kind = "end" THEN Leave(reset, "end")
        ELSE IF (s.long \/ Strict(search)) /\ e.sum # s.sum THEN Leave(reset, "thrown")
        ELSE TakeEntry(search, [reset EXCEPT !.long = FALSE], e)

Step(search, s, e) ==
    IF s.at # "scan" THEN s
    ELSE IF (s.n > 0 /\ e.kind # "long") \/ (e.kind = "long" /\ s.n = 0) THEN Leave(s, "thrown")
    ELSE IF e.kind = "long" THEN ReadPiece(search, s, e)
    ELSE ReadEntry(search, s, e)

--------------------------------------------------------------------------------
(* A directory: its clusters, or for the root directory its one table *)

ScanBlock(search, block, listed) ==
    LET scan[i \in 0 .. Len(block)] ==
            IF i = 0 THEN Begin(listed) ELSE Step(search, scan[i - 1], block[i])
    IN  scan[Len(block)]

Finished(s) == s.at \in {"match", "thrown"}

\* Each function calls itself for the next cluster, with nothing of its own but the list.
Scan(search, blocks) ==
    LET scan[k \in 1 .. Len(blocks)] ==
            IF k = 1 THEN ScanBlock(search, blocks[1], << >>)
            ELSE IF Finished(scan[k - 1]) THEN scan[k - 1]
            ELSE ScanBlock(search, blocks[k], scan[k - 1].listed)
    IN  scan[Len(blocks)]

\* What push(), open_file() and list() return; "thrown" is an exception.
Push(root, blocks, name) ==
    LET s == Scan(Search("push", root, name), blocks)
    IN  IF s.at = "thrown" THEN [status |-> "thrown"]
        ELSE IF s.at # "match" THEN [status |-> "NP"]
        ELSE IF s.entry.dir THEN [status |-> "DIR_ENTRY", first |-> s.entry.first]
        ELSE [status |-> "FILE_ENTRY"]

OpenFile(root, blocks, name) ==
    LET s == Scan(Search("open", root, name), blocks)
    IN  IF s.at = "match" /\ ~s.entry.dir THEN [status |-> "opened", first |-> s.entry.first]
        ELSE [status |-> "thrown"]

List(root, blocks) ==
    LET s == Scan(Search("list", root, NoName), blocks)
    IN  IF s.at = "thrown" THEN [status |-> "thrown"] ELSE [status |-> "listed", names |-> s.listed]

--------------------------------------------------------------------------------
(* Directories as they are written to a disk image, by other systems.  An item is a     *)
(* file or directory, with as many pieces of its long name as it has; one that was      *)
(* deleted keeps its place, and every piece of it then begins with 0xE5, which is read  *)
(* as a last piece with the number 5.                                                   *)

ItemEntries(item) ==
    [i \in 1 .. item.pieces + 1 |->
        IF i <= item.pieces
        THEN IF item.erased THEN Piece(item.name, 5, TRUE, item.sum)
             ELSE Piece(item.name, item.pieces + 1 - i, i = 1, item.sum)
        ELSE IF item.erased THEN Erased ELSE Short(item.sum, item.dir, item.first)]

Concatenated(items) ==
    LET upTo[k \in 0 .. Len(items)] ==
            IF k = 0 THEN << >> ELSE upTo[k - 1] \o ItemEntries(items[k])
    IN  upTo[Len(items)]

\* The entries of the items, in blocks of size entries, and an end in all that is left.
Blocks(entries, number, size) ==
    [k \in 1 .. number |->
        [i \in 1 .. size |->
            IF (k - 1) * size + i <= Len(entries) THEN entries[(k - 1) * size + i] ELSE End]]

================================================================================
