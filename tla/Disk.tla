--------------------------------- MODULE Disk ---------------------------------
(***************************************************************************)
(* The disk as a file of bytes, class f_pdrv_naive                         *)
(* (drivers/ahci/interface.cc), made of commands for whole sectors that    *)
(* start_read(), start_write() and check_on_read() (drivers/ahci/ahci.cc)  *)
(* put into the slots of a port.  The controller completes the commands    *)
(* issued in any order, one page is the buffer, and the caller polls.      *)
(*                                                                         *)
(* read() and write() call themselves for what is left after a page: a     *)
(* piece is what one such call transfers.  Calls do not overlap.  A byte   *)
(* is a pair, the place it was written for and one of two versions, so     *)
(* that a byte at a wrong place shows.                                     *)
(***************************************************************************)
EXTENDS Integers, Sequences

CONSTANTS
    SectorSize,     \* 512
    PageSectors,    \* the sectors in a page, 8
    Sectors,        \* total_size
    Slots           \* the number of command slots of the controller

PageSize == PageSectors * SectorSize
Size     == Sectors * SectorSize
Slot     == 0 .. Slots - 1

ASSUME DiskAssumption ==
    /\ SectorSize \in Nat \ {0, 1} /\ PageSectors \in Nat \ {0} /\ Sectors \in Nat \ {0}
    /\ Slots \in Nat \ {0, 1}      \* two reads may be under way (a third is never)

VARIABLES
    disk,       \* what is on the disk
    pos,        \* the member pos
    call,       \* the call being made
    pc,         \* where in it the caller is
    page,       \* the page got for the piece
    got,        \* the buffer filled by read()
    issued,     \* the command of each slot whose bit is set in command_issue
    prdt,       \* the first descriptor in the command table of each slot
    awaited     \* the slots c1 and c2, or c, or c3

vars == <<disk, pos, call, pc, page, got, issued, prdt, awaited>>

Byte    == 0 .. Size - 1
Version == {0, 1}
Idle    == [kind |-> "idle"]
Fresh   == [i \in 0 .. PageSize - 1 |-> <<-1, 0>>]  \* a frame, with whatever it held

\* A descriptor says how many sectors are at which byte of the page: one of a page that
\* was given back, or of none yet, says nothing of this one.
Elsewhere == [at |-> -1, count |-> PageSectors]

--------------------------------------------------------------------------------
(* A piece: what the code computes from pos and the bytes left *)

Lba         == pos \div SectorSize
Within      == pos % SectorSize
Min2(a, b)  == IF a < b THEN a ELSE b

\* iter_size, or payload, and last_offset.
Payload    == Min2(call.left, PageSize - Within)
LastOffset == Payload - 1 + Within

\* to_rd, and the count that start_write() is given.
SectorsToRead  == IF call.left < PageSize THEN (call.left + SectorSize - 1) \div SectorSize
                  ELSE PageSectors
SectorsToWrite == (LastOffset + SectorSize - 1) \div SectorSize

\* What is left for the call that read() or write() makes of itself (in the variant,
\* it is asked for everything again).
LeftAgain == IF Payload = call.left THEN 0 ELSE call.left
Left      == call.left - Payload

--------------------------------------------------------------------------------
(* Commands *)

LowestFree == CHOOSE s \in Slot : issued[s] = Idle /\ \A t \in 0 .. s - 1 : issued[t] # Idle

\* start_read() and start_write(): count sectors from lba, to or from the page at the
\* byte at.  For no sectors no descriptor is written, and the one that is there is used.
\* awaited keeps the slot that is returned (in the variant, only the last one).
AwaitOnly(s) == awaited' = {s}
Await(s)     == awaited' = awaited \cup {s}

Start(kind, lba, count, at) ==
    /\ issued' = [issued EXCEPT ![LowestFree] =
                     [kind |-> kind, lba |-> lba, count |-> count, at |-> at]]
    /\ prdt' = IF count = 0 THEN prdt
               ELSE [prdt EXCEPT ![LowestFree] = [at |-> at, count |-> count]]
    /\ Await(LowestFree)

\* check_on_read() of everything that is waited for.
Completed == \A s \in awaited : issued[s] = Idle

\* To the disk a write of no sectors is one of 65536.
Endless(c) == c.kind = "write" /\ c.count = 0

\* The controller: a command beyond the end of the disk is never completed.
Complete(s) ==
    LET c == issued[s]
        first == c.lba * SectorSize
        length == c.count * SectorSize
    IN  /\ c # Idle /\ ~Endless(c)
        /\ c.lba + c.count <= Sectors
        /\ issued' = [issued EXCEPT ![s] = Idle]
        /\ IF c.kind = "read"
           THEN /\ page' = [i \in DOMAIN page |->
                               IF i \in c.at .. c.at + length - 1 THEN disk[first + i - c.at]
                               ELSE page[i]]
                /\ UNCHANGED disk
           ELSE /\ disk' = [b \in Byte |->
                               IF b \in first .. first + length - 1 THEN page[c.at + b - first]
                               ELSE disk[b]]
                /\ UNCHANGED page
        /\ UNCHANGED <<pos, call, pc, got, prdt, awaited>>

\* A write of 65536 sectors has no more to send than the descriptor gives it: that much
\* of it, or less, gets to the disk, and it ends for want of more, or never.
Overrun(s) ==
    LET c == issued[s]
        first == c.lba * SectorSize
        Sent(i) == IF prdt[s] = Elsewhere THEN <<-1, 0>> ELSE page[prdt[s].at + i]
    IN  /\ Endless(c)
        /\ \E n \in 0 .. prdt[s].count :
              /\ c.lba + n <= Sectors
              /\ disk' = [b \in Byte |->
                             IF b \in first .. first + n * SectorSize - 1 THEN Sent(b - first)
                             ELSE disk[b]]
        /\ UNCHANGED issued \/ issued' = [issued EXCEPT ![s] = Idle]
        /\ UNCHANGED <<pos, call, pc, page, got, prdt, awaited>>

--------------------------------------------------------------------------------
(* The caller *)

Goto(from, to) == pc = from /\ pc' = to

\* seek(), which throws and leaves pos alone when the target is not on the disk.
Target(off, whence) ==
    CASE whence = "SET" -> off [] whence = "CUR" -> pos + off [] whence = "END" -> Size - off

Seek(off, whence) ==
    /\ Goto("idle", "idle")
    /\ pos' = IF Target(off, whence) \in 0 .. Size THEN Target(off, whence) ELSE pos
    /\ UNCHANGED <<disk, call, page, got, issued, prdt, awaited>>

NewPage == page' = Fresh /\ prdt' = [s \in Slot |-> Elsewhere]

\* A call for n bytes, all on the disk, with a page got for its first piece.
Call(op, n, version) ==
    /\ Goto("idle", op)
    /\ n > 0 /\ pos + n <= Size
    /\ call' = [op |-> op, start |-> pos, asked |-> n, left |-> n, version |-> version]
    /\ NewPage
    /\ got' = << >>
    /\ UNCHANGED <<disk, pos, issued, awaited>>

\* The end of a piece: the page is given back, and another one got for the next piece.
Finish ==
    /\ pos' = pos + Payload
    /\ call' = [call EXCEPT !.left = Left]
    /\ NewPage
    /\ awaited' = {}
    /\ pc' = IF Payload = call.left THEN "returned" ELSE call.op

StartRead ==
    /\ Goto("read", "reading")
    /\ Start("read", Lba, SectorsToRead, 0)
    /\ UNCHANGED <<disk, pos, call, page, got>>

CopyOut ==
    /\ pc = "reading" /\ Completed
    /\ got' = got \o [i \in 1 .. Payload |-> page[Within + i - 1]]
    /\ Finish
    /\ UNCHANGED <<disk, issued>>

\* The first sector is read when its beginning is to be kept, and the last one when its
\* end is (in the variant, that is forgotten unless it is all but a byte).
KeepLastNot == LastOffset % SectorSize = 0
KeepLast    == LastOffset % SectorSize # SectorSize - 1
KeepFirst   == Within # 0

StartFirst ==
    /\ Goto("write", "first")
    /\ IF KeepFirst THEN Start("read", Lba, 1, 0) ELSE UNCHANGED <<issued, prdt, awaited>>
    /\ UNCHANGED <<disk, pos, call, page, got>>

StartLast ==
    /\ Goto("first", "preparing")
    /\ IF KeepLast
       THEN LET sector == LastOffset \div SectorSize
            IN  Start("read", Lba + sector, 1, sector * SectorSize)
       ELSE UNCHANGED <<issued, prdt, awaited>>
    /\ UNCHANGED <<disk, pos, call, page, got>>

\* The bytes are copied into the page once both reads are through, and the write is
\* issued, even one for no sectors: of a last byte that begins a sector.
CopyIn ==
    /\ Goto("preparing", "writing") /\ Completed
    /\ page' = [i \in DOMAIN page |->
                   IF i \in Within .. LastOffset THEN <<Lba * SectorSize + i, call.version>>
                   ELSE page[i]]
    /\ Start("write", Lba, SectorsToWrite, 0)
    /\ UNCHANGED <<disk, pos, call, got>>

EndWrite ==
    /\ pc = "writing" /\ Completed
    /\ Finish
    /\ UNCHANGED <<disk, got, issued>>

\* check_on_read() says that one is not completed yet, and is asked again.
Poll ==
    /\ pc \in {"reading", "preparing", "writing"} /\ ~Completed
    /\ UNCHANGED vars

Return ==
    /\ Goto("returned", "idle")
    /\ call' = Idle
    /\ got' = << >>
    /\ UNCHANGED <<disk, pos, page, issued, prdt, awaited>>

Caller == StartRead \/ CopyOut \/ StartFirst \/ StartLast \/ CopyIn \/ EndWrite \/ Return

Init ==
    /\ disk = [b \in Byte |-> <<b, 0>>]
    /\ pos = 0
    /\ call = Idle
    /\ pc = "idle"
    /\ page = Fresh
    /\ got = << >>
    /\ issued = [s \in Slot |-> Idle]
    /\ prdt = [s \in Slot |-> Elsewhere]
    /\ awaited = {}

Next ==
    \/ \E off \in -1 .. Size + 1, whence \in {"SET", "CUR", "END"} : Seek(off, whence)
    \/ \E n \in 1 .. Size, v \in Version : Call("write", n, v)
    \/ \E n \in 1 .. Size : Call("read", n, 0)
    \/ Caller \/ Poll
    \/ \E s \in Slot : Complete(s) \/ Overrun(s)

\* The caller goes on, and the controller completes what it can: a write of no sectors it
\* may never end.
Fairness == WF_vars(Caller) /\ \A s \in Slot : WF_vars(Complete(s))

Spec == Init /\ [][Next]_vars /\ Fairness

--------------------------------------------------------------------------------
(* Properties *)

CallRange == call.start .. call.start + call.asked - 1

\* How many bytes a read gets for certain: all of them if it takes a page or more, and
\* else those in as many sectors as its length fills, counted from the first one it is in.
SurelyRead ==
    IF call.asked >= PageSize THEN call.asked
    ELSE Min2(call.asked, ((call.asked + SectorSize - 1) \div SectorSize) * SectorSize
                             - (call.start % SectorSize))

\* The byte that a write does not get to the disk: its last one, if it is the first of a
\* sector.
Unwritten == {b \in CallRange : b = call.start + call.asked - 1 /\ b % SectorSize = 0}

\* A read returns the bytes on the disk from where pos was, across pages, up to those
\* that straddle into one sector more than the length fills; and after a write all its
\* bytes are on the disk, but for a last one that begins a sector.  Either way pos ends
\* right after the bytes.
TransfersRight ==
    pc = "returned" =>
        /\ pos = call.start + call.asked
        /\ call.op = "read" =>
               /\ Len(got) = call.asked
               /\ \A i \in 1 .. SurelyRead : got[i] = disk[call.start + i - 1]
        /\ call.op = "write" =>
               \A b \in CallRange \ Unwritten : disk[b] = <<b, call.version>>

\* No byte of the disk changes that the write being made was not asked to write: what
\* shares a sector with the first and the last byte was read before, both of them, and
\* is written back as it was, in whatever order the controller completed the reads.  So it
\* is for a write of no sectors too: the descriptor that it finds in its slot is that of the
\* read of the sector it begins at, and all the disk can get is that sector with its byte.
NeighboursKept ==
    [][\A b \in Byte : disk'[b] # disk[b] => call.op = "write" /\ b \in CallRange]_vars

\* Every call returns, however many pieces it is made of, unless it comes to wait for a
\* write of no sectors; the slot it waits for is one it issued a command in.
Stray       == \E s \in Slot : Endless(issued[s])
CallsReturn == (call # Idle) ~> (call = Idle \/ Stray)

================================================================================
