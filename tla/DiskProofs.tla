------------------------------- MODULE DiskProofs -------------------------------
(***************************************************************************)
(* Proofs about module Disk, for any size of sectors, pages and disk and   *)
(* any number of slots: a write changes no byte that it was not asked to   *)
(* write, although whole sectors are written, and a call that returns has  *)
(* read or written the right bytes, in whatever order the controller       *)
(* completes the commands.                                                 *)
(*                                                                         *)
(* The first invariant (IInv) says of each moment what the page holds, or  *)
(* which command under way will put it there: while the page is prepared,  *)
(* the sectors of which something is to be kept (PreparedInv); while it is *)
(* written, what surrounds the bytes of the call (WrittenInv).  The second *)
(* one (TInv) adds the bytes of the call itself: those read so far are as  *)
(* on the disk (ReadInv), those written so far are on it (WriteInv).       *)
(***************************************************************************)
EXTENDS Disk, NatLemmas

--------------------------------------------------------------------------------
(* Arithmetic.  What follows from it is stated once, and the operators of a piece need  *)
(* not be expanded in the rest.                                                         *)

\* The sectors of a sum are those of its parts.
LEMMA Distribute ==
    ASSUME NEW a \in Nat, NEW b \in Nat, NEW d \in Nat
    PROVE  (a + b) * d = a * d + b * d
OBVIOUS

\* A sector that begins below the end of the page lies in it.
LEMMA SectorInPage ==
    ASSUME NEW k \in Nat, k * SectorSize < PageSize
    PROVE  k * SectorSize + SectorSize <= PageSize
<1>1. SectorSize \in Nat \ {0} /\ PageSectors \in Nat
  BY DiskAssumption
<1>2. k < PageSectors
  BY <1>1 DEF PageSize
<1>3. (k + 1) * SectorSize <= PageSectors * SectorSize
  BY <1>1, <1>2
<1>4. QED BY <1>1, <1>3 DEF PageSize

\* The sector of the last byte of the piece, counted from its first one.
LastSector == LastOffset \div SectorSize

\* What holds of every piece: its place in its sectors, in the page, and on the disk.
LEMMA PieceShape ==
    ASSUME pos \in Nat, call.left \in Nat \ {0}
    PROVE  /\ Lba \in Nat /\ Within \in 0 .. SectorSize - 1
           /\ pos = Lba * SectorSize + Within
           /\ Payload \in 1 .. call.left /\ Payload <= PageSize - Within
           /\ LastOffset \in Within .. PageSize - 1
           /\ Lba * SectorSize + LastOffset = pos + Payload - 1
<1>1. SectorSize \in Nat \ {0} /\ PageSectors \in Nat \ {0}
  BY DiskAssumption
<1>2. Lba \in Nat /\ Within \in 0 .. SectorSize - 1 /\ pos = Lba * SectorSize + Within
  BY <1>1, DivMod DEF Lba, Within
<1>3. PageSize \in Nat /\ SectorSize <= PageSize
  BY <1>1 DEF PageSize
<1>4. Payload \in 1 .. call.left /\ Payload <= PageSize - Within
  BY <1>1, <1>2, <1>3 DEF Payload, Min2
<1>5. LastOffset = Payload - 1 + Within
  BY DEF LastOffset
<1>6. Lba * SectorSize \in Nat
  BY <1>1, <1>2
<1>7. QED BY <1>1, <1>2, <1>3, <1>4, <1>5, <1>6

\* The sectors that are written end with that of the last byte, or before.
LEMMA WrittenSectors ==
    ASSUME pos \in Nat, call.left \in Nat \ {0}
    PROVE  /\ LastSector \in Nat /\ LastSector * SectorSize <= LastOffset
           /\ LastOffset < LastSector * SectorSize + SectorSize
           /\ LastSector * SectorSize + SectorSize <= PageSize
           /\ SectorsToWrite \in Nat
           /\ SectorsToWrite * SectorSize <= LastSector * SectorSize + SectorSize
           /\ ~KeepLast => LastOffset = LastSector * SectorSize + SectorSize - 1
<1>1. SectorSize \in Nat \ {0, 1} /\ PageSectors \in Nat \ {0} /\ LastOffset \in Nat
  BY DiskAssumption, PieceShape
<1>2. /\ LastSector \in Nat /\ LastOffset % SectorSize \in 0 .. SectorSize - 1
      /\ LastOffset = LastSector * SectorSize + (LastOffset % SectorSize)
  BY <1>1, DivMod DEF LastSector
<1>3. LastSector * SectorSize \in Nat /\ PageSize \in Nat
  BY <1>1, <1>2 DEF PageSize
<1>4. LastSector * SectorSize + SectorSize <= PageSize
  <2>1. LastOffset < PageSize
    BY <1>3, PieceShape
  <2>2. LastSector * SectorSize < PageSize
    BY <1>1, <1>2, <1>3, <2>1
  <2>3. QED BY <1>2, <2>2, SectorInPage
<1>5. /\ SectorsToWrite \in Nat
      /\ SectorsToWrite * SectorSize <= LastSector * SectorSize + SectorSize
  <2>1. SectorsToWrite = (LastOffset + SectorSize - 1) \div SectorSize
    BY DEF SectorsToWrite
  <2> DEFINE end == LastOffset + SectorSize - 1
  <2>2. end \in Nat /\ end < LastSector * SectorSize + 2 * SectorSize
    BY <1>1, <1>2, <1>3
  <2> HIDE DEF end
  <2>3. SectorsToWrite \in Nat /\ SectorsToWrite * SectorSize <= end
    <3>1. SectorsToWrite = end \div SectorSize
      BY <2>1 DEF end
    <3>2. /\ end \div SectorSize \in Nat /\ end % SectorSize \in 0 .. SectorSize - 1
          /\ end = (end \div SectorSize) * SectorSize + (end % SectorSize)
      BY <1>1, <2>2, DivMod
    <3>3. SectorsToWrite \in Nat /\ end = SectorsToWrite * SectorSize + (end % SectorSize)
      BY <3>1, <3>2
    <3>4. QED BY <1>1, <2>2, <3>2, <3>3
  <2>4. SectorsToWrite * SectorSize < (LastSector + 2) * SectorSize
    BY <1>1, <1>2, <1>3, <2>2, <2>3
  <2>5. SectorsToWrite <= LastSector + 1
    BY <1>1, <1>2, <2>3, <2>4
  <2>6. SectorsToWrite * SectorSize <= (LastSector + 1) * SectorSize
    BY <1>1, <1>2, <2>3, <2>5
  <2>7. QED BY <1>1, <1>2, <2>3, <2>6
<1>6. QED BY <1>1, <1>2, <1>3, <1>4, <1>5 DEF KeepLast

--------------------------------------------------------------------------------
(* The invariant *)

Command    == [kind : {"read", "write"}, lba : Nat, count : Nat, at : Nat]
FirstRead  == [kind |-> "read", lba |-> Lba, count |-> 1, at |-> 0]
LastRead   == [kind |-> "read", lba |-> Lba + LastSector, count |-> 1,
               at |-> LastSector * SectorSize]
PieceWrite == [kind |-> "write", lba |-> Lba, count |-> SectorsToWrite, at |-> 0]

Resting == {"idle", "read", "write", "returned"}
AtWork  == {"read", "reading", "write", "first", "preparing", "writing"}

\* What is left of a call are the bytes from pos to its end.
CallInv ==
    /\ pos \in Nat
    /\ pc \in AtWork \cup {"idle", "returned"}
    /\ pc \in AtWork =>
          /\ call.left \in Nat \ {0} /\ call.start \in Nat /\ call.asked \in Nat
          /\ call.start <= pos /\ pos + call.left = call.start + call.asked
          /\ call.op = IF pc \in {"read", "reading"} THEN "read" ELSE "write"

\* Every command under way is awaited, and is one that belongs to what the caller does.
SlotsInv ==
    /\ awaited \subseteq Slot
    /\ issued \in [Slot -> Command \cup {Idle}]
    /\ \A s \in Slot \ awaited : issued[s] = Idle
    /\ pc \in Resting => awaited = {}
    /\ pc = "first" => \A s \in Slot \ {0} : issued[s] = Idle
    /\ \A s \in Slot :
          CASE pc = "reading"                -> issued[s].kind # "write"
            [] pc \in {"first", "preparing"} -> issued[s] \in {Idle, FirstRead, LastRead}
            [] pc = "writing"                -> issued[s] \in {Idle, PieceWrite}
            [] OTHER                         -> issued[s] = Idle

\* A sector of the page is as it is on the disk.
AsOnDisk(k) ==
    \A i \in k * SectorSize .. k * SectorSize + SectorSize - 1 :
        page[i] = disk[Lba * SectorSize + i]

\* While the page is prepared, the first and the last sector are in it as they are on the
\* disk, if a part of them is to be kept, or on their way there.
PreparedInv ==
    /\ DOMAIN page = 0 .. PageSize - 1
    /\ pc \in {"first", "preparing"} /\ KeepFirst =>
          AsOnDisk(0) \/ \E s \in Slot : issued[s] = FirstRead
    /\ pc = "preparing" /\ KeepLast =>
          AsOnDisk(LastSector) \/ \E s \in Slot : issued[s] = LastRead

\* While the page is written, all of it up to the end of the last sector that is not of
\* the call is as on the disk.
WrittenInv ==
    pc = "writing" /\ (\E s \in Slot : issued[s] = PieceWrite) =>
        \A i \in 0 .. LastSector * SectorSize + SectorSize - 1 :
            \/ i \in Within .. LastOffset
            \/ Lba * SectorSize + i \notin Byte
            \/ page[i] = disk[Lba * SectorSize + i]

\* A write of no sectors finds the descriptor of the only read before it, which was of the
\* sector it begins at, in the same slot.
OneSector == [at |-> 0, count |-> 1]

DescriptorInv ==
    /\ DOMAIN prdt = Slot
    /\ pc = "first" /\ ~KeepFirst => \A s \in Slot : issued[s] = Idle
    /\ pc \in {"preparing", "writing"} /\ SectorsToWrite = 0 => prdt[0] = OneSector
    /\ pc = "writing" /\ SectorsToWrite = 0 => \A s \in Slot \ {0} : issued[s] = Idle

IInv == CallInv /\ SlotsInv /\ PreparedInv /\ WrittenInv /\ DescriptorInv

--------------------------------------------------------------------------------
(* Slots *)

\* A piece stays what it is while pos and the bytes left do.
LEMMA PieceStays ==
    ASSUME pos' = pos, call' = call
    PROVE  /\ Lba' = Lba /\ Within' = Within /\ LastOffset' = LastOffset
           /\ LastSector' = LastSector /\ SectorsToWrite' = SectorsToWrite
           /\ FirstRead' = FirstRead /\ LastRead' = LastRead /\ PieceWrite' = PieceWrite
           /\ KeepFirst' = KeepFirst /\ KeepLast' = KeepLast
BY DEF Lba, Within, LastOffset, LastSector, SectorsToWrite, Payload, FirstRead, LastRead,
       PieceWrite, KeepFirst, KeepLast

\* A slot is found while all but the first are free.
LEMMA FreeSlot ==
    ASSUME \A s \in Slot \ {0} : issued[s] = Idle
    PROVE  /\ LowestFree \in Slot /\ issued[LowestFree] = Idle
           /\ issued[0] = Idle => LowestFree = 0
<1>1. 0 \in Slot /\ 1 \in Slot
  BY DiskAssumption DEF Slot
<1> DEFINE Lowest(s) == issued[s] = Idle /\ \A t \in 0 .. s - 1 : issued[t] # Idle
<1>2. \E s \in Slot : Lowest(s)
  <2>1. CASE issued[0] = Idle
    BY <1>1, <2>1
  <2>2. CASE issued[0] # Idle
    <3>1. Lowest(1)
      BY <1>1, <2>2
    <3>2. QED BY <1>1, <3>1
  <2>3. QED BY <2>1, <2>2
<1>3. LowestFree \in Slot /\ Lowest(LowestFree)
  BY <1>2 DEF LowestFree
<1>4. issued[0] = Idle => LowestFree = 0
  <2>1. SUFFICES ASSUME issued[0] = Idle, LowestFree # 0 PROVE FALSE
    OBVIOUS
  <2>2. 0 \in 0 .. LowestFree - 1
    BY <1>3, <2>1 DEF Slot
  <2>3. QED BY <1>3, <2>1, <2>2
<1>5. QED BY <1>3, <1>4

\* When everything that was awaited is completed, no command is under way.
LEMMA AllIdle ==
    ASSUME SlotsInv, Completed
    PROVE  \A s \in Slot : issued[s] = Idle
BY DEF SlotsInv, Completed

\* The machine starts in a state of the invariant.
LEMMA InitIInv == Init => IInv
<1> SUFFICES ASSUME Init PROVE IInv
  OBVIOUS
<1>1. CallInv
  BY DEF Init, CallInv, AtWork
<1>2. SlotsInv
  BY DEF Init, SlotsInv, Resting
<1>3. PreparedInv /\ WrittenInv
  BY DEF Init, PreparedInv, WrittenInv, Fresh
<1>4. DescriptorInv
  BY DEF Init, DescriptorInv
<1>5. QED BY <1>1, <1>2, <1>3, <1>4 DEF IInv

--------------------------------------------------------------------------------
(* The steps *)

\* seek() and the beginning of a call.
LEMMA BeginIInv ==
    ASSUME IInv,
           \/ \E off \in -1 .. Size + 1, whence \in {"SET", "CUR", "END"} : Seek(off, whence)
           \/ \E n \in 1 .. Size, v \in Version : Call("write", n, v)
           \/ \E n \in 1 .. Size : Call("read", n, 0)
    PROVE  IInv'
<1>1. Size \in Nat
  BY DiskAssumption DEF Size
<1>2. pc = "idle" /\ pc' \in {"idle", "read", "write"} /\ issued' = issued /\ awaited' = awaited
  BY DEF Seek, Call, Goto
<1>3. CallInv'
  <2>1. ASSUME NEW off, NEW whence, Seek(off, whence) PROVE CallInv'
    BY <1>1, <2>1 DEF Seek, Goto, IInv, CallInv, AtWork
  <2>2. ASSUME NEW op \in {"read", "write"}, NEW n \in 1 .. Size, NEW v, Call(op, n, v)
        PROVE  CallInv'
    BY <1>1, <2>2 DEF Call, Goto, IInv, CallInv, AtWork
  <2>3. QED BY <2>1, <2>2
<1>4. SlotsInv'
  BY <1>2 DEF IInv, SlotsInv, Resting
<1>5. PreparedInv' /\ WrittenInv'
  BY <1>2 DEF IInv, PreparedInv, WrittenInv, Seek, Call, Goto, NewPage, Fresh
<1>6. DescriptorInv'
  BY <1>2 DEF IInv, DescriptorInv, Seek, Call, NewPage
<1>7. QED BY <1>3, <1>4, <1>5, <1>6 DEF IInv

\* The end of a piece leaves nothing under way, and pos where the next one begins.
LEMMA FinishIInv ==
    ASSUME IInv, pc \in {"reading", "writing"}, Completed, Finish, UNCHANGED <<disk, issued>>
    PROVE  IInv'
<1>1. pos \in Nat /\ call.left \in Nat \ {0} /\ Payload \in 1 .. call.left
  BY PieceShape DEF IInv, CallInv, AtWork
<1>2. call' = [call EXCEPT !.left = call.left - Payload] /\ pos' = pos + Payload
  BY DEF Finish, Left
<1>3. /\ pc' \in {"returned", "read", "write"}
      /\ pc' # "returned" => pc' = call.op /\ Payload # call.left
  BY DEF Finish, IInv, CallInv, AtWork
<1>4. CallInv'
  <2>1. /\ call.start \in Nat /\ call.asked \in Nat /\ call.start <= pos
        /\ pos + call.left = call.start + call.asked
        /\ call.op = IF pc = "reading" THEN "read" ELSE "write"
    BY DEF IInv, CallInv, AtWork
  <2>2. CASE pc' = "returned"
    BY <1>1, <1>2, <2>2 DEF CallInv, AtWork
  <2>3. CASE pc' # "returned"
    <3>1. pc' = call.op /\ Payload # call.left
      BY <1>3, <2>3
    <3>2. /\ call'.start = call.start /\ call'.asked = call.asked /\ call'.op = call.op
          /\ call'.left = call.left - Payload
      BY <1>2
    <3>3. call'.left \in Nat \ {0} /\ pos' + call'.left = call.start + call.asked
      BY <1>1, <1>2, <2>1, <3>1, <3>2
    <3>4. QED BY <1>1, <1>2, <2>1, <3>1, <3>2, <3>3 DEF CallInv, AtWork
  <2>4. QED BY <2>2, <2>3
<1>5. SlotsInv'
  BY <1>3, AllIdle DEF IInv, SlotsInv, Resting, Finish
<1>6. PreparedInv' /\ WrittenInv'
  BY <1>3 DEF PreparedInv, WrittenInv, Finish, NewPage, Fresh
<1>7. DescriptorInv'
  BY <1>3 DEF DescriptorInv, Finish, NewPage
<1>8. QED BY <1>4, <1>5, <1>6, <1>7 DEF IInv

\* A read of whole sectors is issued when nothing is under way.
LEMMA StartReadIInv ==
    ASSUME IInv, StartRead
    PROVE  IInv'
<1>1. /\ pc = "read" /\ pc' = "reading" /\ pos' = pos /\ call' = call /\ page' = page
      /\ disk' = disk
  BY DEF StartRead, Goto
<1>2. \A s \in Slot : issued[s] = Idle
  BY <1>1 DEF IInv, SlotsInv, Resting
<1>3. LowestFree \in Slot
  BY <1>2, FreeSlot
<1>4. pos \in Nat /\ call.left \in Nat \ {0}
  BY <1>1 DEF IInv, CallInv, AtWork
<1>5. Lba \in Nat /\ SectorsToRead \in Nat
  <2>1. SectorSize \in Nat \ {0, 1} /\ PageSectors \in Nat
    BY DiskAssumption
  <2> DEFINE filled == call.left + SectorSize - 1
  <2>2. filled \in Nat
    BY <1>4, <2>1
  <2> HIDE DEF filled
  <2>3. filled \div SectorSize \in Nat
    BY <2>1, <2>2, DivMod
  <2>4. QED BY <1>4, <2>1, <2>3, PieceShape DEF SectorsToRead, filled
<1> DEFINE c == [kind |-> "read", lba |-> Lba, count |-> SectorsToRead, at |-> 0]
<1>6. c \in Command /\ c.kind = "read"
  BY <1>5 DEF Command
<1>7. issued' = [issued EXCEPT ![LowestFree] = c] /\ awaited' = awaited \cup {LowestFree}
  BY DEF StartRead, Start, Await
<1> HIDE DEF c
<1>8. CallInv'
  BY <1>1 DEF IInv, CallInv, AtWork
<1>9. SlotsInv'
  <2>1. \A s \in Slot : issued'[s] \in {c, Idle} /\ (s # LowestFree => issued'[s] = Idle)
    BY <1>2, <1>7 DEF IInv, SlotsInv
  <2>2. issued' \in [Slot -> Command \cup {Idle}]
    BY <1>3, <1>6, <1>7 DEF IInv, SlotsInv
  <2>3. \A s \in Slot : issued'[s].kind # "write"
    BY <1>6, <2>1 DEF Idle
  <2>4. QED BY <1>1, <1>3, <1>7, <2>1, <2>2, <2>3 DEF IInv, SlotsInv, Resting
<1>10. PreparedInv' /\ WrittenInv'
  BY <1>1 DEF IInv, PreparedInv, WrittenInv
<1>11. DescriptorInv'
  BY <1>1 DEF IInv, DescriptorInv, StartRead, Start
<1>12. QED BY <1>8, <1>9, <1>10, <1>11 DEF IInv

\* A write of no sectors is one of a single byte, the first of a sector, which is read.
LEMMA NoSectors ==
    ASSUME pos \in Nat, call.left \in Nat \ {0}, SectorsToWrite = 0
    PROVE  LastSector = 0 /\ ~KeepFirst /\ KeepLast
<1>1. PICK ss, n, w : ss = SectorSize /\ n = LastOffset /\ w = Within
  OBVIOUS
<1>2. ss \in Nat \ {0, 1} /\ n \in Nat /\ w \in Nat /\ w <= n
  <2>1. PageSize \in Nat
    BY DiskAssumption DEF PageSize
  <2>2. QED BY <1>1, <2>1, DiskAssumption, PieceShape
<1>3. n <= 0 * ss
  <2>1. (n + ss - 1) \div ss = 0
    BY <1>1 DEF SectorsToWrite
  <2>2. QED BY <1>2, <2>1, RoundUp
<1>4. n = 0 /\ w = 0
  BY <1>2, <1>3
<1>5. 0 \div ss = 0 /\ 0 % ss = 0
  <2>1. 0 = 0 * ss + 0
    BY <1>2
  <2>2. QED BY <1>2, <2>1, DivUnique
<1>6. QED BY <1>1, <1>2, <1>4, <1>5 DEF LastSector, KeepFirst, KeepLast

\* The commands of a piece are commands, and none of them is the mark of a free slot.
LEMMA PieceCommands ==
    ASSUME pos \in Nat, call.left \in Nat \ {0}
    PROVE  /\ FirstRead \in Command /\ LastRead \in Command /\ PieceWrite \in Command
           /\ FirstRead.kind = "read" /\ LastRead.kind = "read" /\ PieceWrite.kind = "write"
           /\ FirstRead # Idle /\ LastRead # Idle /\ PieceWrite # Idle
           /\ Idle.kind = "idle"
<1>1. Lba \in Nat /\ LastSector \in Nat /\ SectorsToWrite \in Nat /\ SectorSize \in Nat
  BY PieceShape, WrittenSectors, DiskAssumption
<1>2. FirstRead \in Command
  BY <1>1 DEF Command, FirstRead
<1>3. LastRead \in Command
  BY <1>1 DEF Command, LastRead
<1>4. PieceWrite \in Command
  BY <1>1 DEF Command, PieceWrite
<1>5. /\ FirstRead.kind = "read" /\ LastRead.kind = "read" /\ PieceWrite.kind = "write"
      /\ Idle.kind = "idle"
  BY DEF FirstRead, LastRead, PieceWrite, Idle
<1>6. QED BY <1>2, <1>3, <1>4, <1>5

\* The read of the first sector is put into slot 0, if there is one.
LEMMA StartFirstIInv ==
    ASSUME IInv, StartFirst
    PROVE  IInv'
<1>1. /\ pc = "write" /\ pc' = "first" /\ pos' = pos /\ call' = call /\ page' = page
      /\ disk' = disk
  BY DEF StartFirst, Goto
<1>2. \A s \in Slot : issued[s] = Idle
  BY <1>1 DEF IInv, SlotsInv, Resting
<1>3. 0 \in Slot
  BY DiskAssumption DEF Slot
<1>4. LowestFree = 0
  BY <1>2, <1>3, FreeSlot
<1>5. pos \in Nat /\ call.left \in Nat \ {0}
  BY <1>1 DEF IInv, CallInv, AtWork
<1>6. FirstRead' = FirstRead /\ LastRead' = LastRead /\ KeepFirst' = KeepFirst
  BY <1>1, PieceStays
<1>7. IF KeepFirst THEN /\ issued' = [issued EXCEPT ![0] = FirstRead]
                        /\ awaited' = awaited \cup {0}
      ELSE issued' = issued /\ awaited' = awaited
  BY <1>4 DEF StartFirst, Start, Await, FirstRead
<1>8. CallInv'
  BY <1>1 DEF IInv, CallInv, AtWork
<1>9. SlotsInv'
  <2>1. FirstRead \in Command
    BY <1>5, PieceCommands
  <2>2. /\ issued' \in [Slot -> Command \cup {Idle}]
        /\ \A s \in Slot : issued'[s] \in {Idle, FirstRead}
        /\ \A s \in Slot \ {0} : issued'[s] = Idle
        /\ \A s \in Slot \ awaited' : issued'[s] = Idle
        /\ awaited' \subseteq Slot
    BY <1>2, <1>3, <1>7, <2>1 DEF IInv, SlotsInv
  <2>3. QED BY <1>1, <1>6, <2>2 DEF SlotsInv, Resting
<1>10. PreparedInv'
  <2>1. KeepFirst => issued'[0] = FirstRead
    BY <1>3, <1>7 DEF IInv, SlotsInv
  <2>2. QED BY <1>1, <1>3, <1>6, <2>1 DEF IInv, PreparedInv
<1>11. WrittenInv'
  BY <1>1 DEF WrittenInv
<1>12. DescriptorInv'
  <2>1. DOMAIN prdt' = Slot
    BY DEF IInv, DescriptorInv, StartFirst, Start
  <2>2. ~KeepFirst' => \A s \in Slot : issued'[s] = Idle
    BY <1>2, <1>6, <1>7
  <2>3. QED BY <1>1, <2>1, <2>2 DEF DescriptorInv
<1>13. QED BY <1>8, <1>9, <1>10, <1>11, <1>12 DEF IInv

\* The read of the last sector is put into another slot than that of the first.
LEMMA StartLastIInv ==
    ASSUME IInv, StartLast
    PROVE  IInv'
<1>1. /\ pc = "first" /\ pc' = "preparing" /\ pos' = pos /\ call' = call /\ page' = page
      /\ disk' = disk
  BY DEF StartLast, Goto
<1>2. \A s \in Slot \ {0} : issued[s] = Idle
  BY <1>1 DEF IInv, SlotsInv
<1>3. LowestFree \in Slot /\ issued[LowestFree] = Idle
  BY <1>2, FreeSlot
<1>4. pos \in Nat /\ call.left \in Nat \ {0}
  BY <1>1 DEF IInv, CallInv, AtWork
<1>5. /\ FirstRead' = FirstRead /\ LastRead' = LastRead /\ KeepFirst' = KeepFirst
      /\ KeepLast' = KeepLast /\ Lba' = Lba
  BY <1>1, PieceStays
<1>6. IF KeepLast THEN /\ issued' = [issued EXCEPT ![LowestFree] = LastRead]
                       /\ awaited' = awaited \cup {LowestFree}
      ELSE issued' = issued /\ awaited' = awaited
  BY DEF StartLast, Start, Await, LastRead, LastSector
<1>7. CallInv'
  BY <1>1 DEF IInv, CallInv, AtWork
<1>8. SlotsInv'
  <2>1. LastRead \in Command
    BY <1>4, PieceCommands
  <2>2. \A s \in Slot : issued[s] \in {Idle, FirstRead, LastRead}
    BY <1>1 DEF IInv, SlotsInv
  <2>3. /\ issued' \in [Slot -> Command \cup {Idle}]
        /\ \A s \in Slot : issued'[s] \in {Idle, FirstRead, LastRead}
        /\ \A s \in Slot \ awaited' : issued'[s] = Idle
        /\ awaited' \subseteq Slot
    BY <1>3, <1>6, <2>1, <2>2 DEF IInv, SlotsInv
  <2>4. QED BY <1>1, <1>5, <2>3 DEF SlotsInv, Resting
<1>9. PreparedInv'
  <2>1. KeepLast => issued'[LowestFree] = LastRead
    BY <1>3, <1>6 DEF IInv, SlotsInv
  <2>2. \A s \in Slot : issued[s] = FirstRead => issued'[s] = FirstRead
    <3>1. FirstRead # Idle
      BY <1>4, PieceCommands
    <3>2. \A s \in Slot : issued[s] # Idle => issued'[s] = issued[s]
      BY <1>3, <1>6 DEF IInv, SlotsInv
    <3>3. QED BY <3>1, <3>2
  <2>3. AsOnDisk(0) => AsOnDisk(0)'
    BY <1>1, <1>5 DEF AsOnDisk
  <2>4. DOMAIN page' = 0 .. PageSize - 1
    BY <1>1 DEF IInv, PreparedInv
  <2>5. KeepFirst => AsOnDisk(0) \/ \E s \in Slot : issued[s] = FirstRead
    BY <1>1 DEF IInv, PreparedInv
  <2>6. KeepFirst' => AsOnDisk(0)' \/ \E s \in Slot : issued'[s] = FirstRead'
    BY <1>5, <2>2, <2>3, <2>5
  <2>7. KeepLast' => \E s \in Slot : issued'[s] = LastRead'
    BY <1>3, <1>5, <2>1
  <2>8. QED BY <2>4, <2>6, <2>7 DEF PreparedInv
<1>10. WrittenInv'
  BY <1>1 DEF WrittenInv
<1>11. DescriptorInv'
  <2>1. DOMAIN prdt' = Slot
    BY DEF IInv, DescriptorInv, StartLast, Start
  <2>2. ASSUME SectorsToWrite = 0 PROVE prdt'[0] = OneSector
    <3>1. LastSector = 0 /\ ~KeepFirst /\ KeepLast
      BY <1>4, <2>2, NoSectors
    <3>2. LowestFree = 0 /\ 0 \in Slot
      <4>1. \A s \in Slot : issued[s] = Idle
        BY <1>1, <3>1 DEF IInv, DescriptorInv
      <4>2. 0 \in Slot
        BY DiskAssumption DEF Slot
      <4>3. QED BY <4>1, <4>2, FreeSlot
    <3>3. prdt' = [prdt EXCEPT ![0] = [at |-> 0 * SectorSize, count |-> 1]]
      BY <3>1, <3>2 DEF StartLast, Start, LastSector
    <3>4. 0 * SectorSize = 0
      BY DiskAssumption
    <3>5. QED BY <3>2, <3>3, <3>4 DEF IInv, DescriptorInv, OneSector
  <2>3. SectorsToWrite' = SectorsToWrite
    BY <1>1, PieceStays
  <2>4. QED BY <1>1, <2>1, <2>2, <2>3 DEF DescriptorInv
<1>12. QED BY <1>7, <1>8, <1>9, <1>10, <1>11 DEF IInv

\* The bytes are copied over a page that is as on the disk wherever it is kept.
LEMMA CopyInIInv ==
    ASSUME IInv, CopyIn
    PROVE  IInv'
<1>1. /\ pc = "preparing" /\ Completed /\ pc' = "writing"
      /\ pos' = pos /\ call' = call /\ disk' = disk
      /\ DOMAIN page' = DOMAIN page
      /\ \A i \in DOMAIN page : i \in Within .. LastOffset \/ page'[i] = page[i]
  BY DEF CopyIn, Goto
<1>2. \A s \in Slot : issued[s] = Idle
  BY <1>1, AllIdle DEF IInv
<1>3. LowestFree \in Slot
  BY <1>2, FreeSlot
<1>4. pos \in Nat /\ call.left \in Nat \ {0}
  BY <1>1 DEF IInv, CallInv, AtWork
<1>5. /\ PieceWrite' = PieceWrite /\ SectorsToWrite' = SectorsToWrite /\ Lba' = Lba
      /\ Within' = Within /\ LastOffset' = LastOffset /\ LastSector' = LastSector
  BY <1>1, PieceStays
<1>6. /\ issued' = [issued EXCEPT ![LowestFree] = PieceWrite]
      /\ awaited' = awaited \cup {LowestFree}
  BY DEF CopyIn, Start, Await, PieceWrite
<1>7. CallInv'
  BY <1>1 DEF IInv, CallInv, AtWork
<1>8. SlotsInv'
  <2>1. PieceWrite \in Command
    BY <1>4, PieceCommands
  <2>2. /\ issued' \in [Slot -> Command \cup {Idle}]
        /\ \A s \in Slot : issued'[s] \in {Idle, PieceWrite}
        /\ \A s \in Slot \ awaited' : issued'[s] = Idle
        /\ awaited' \subseteq Slot
    BY <1>2, <1>3, <1>6, <2>1 DEF IInv, SlotsInv
  <2>3. QED BY <1>1, <1>5, <2>2 DEF SlotsInv, Resting
<1>9. PreparedInv'
  BY <1>1 DEF IInv, PreparedInv
<1>10. WrittenInv'
  <2>1. SUFFICES ASSUME NEW i \in 0 .. LastSector * SectorSize + SectorSize - 1,
                        i \notin Within .. LastOffset
                 PROVE  page'[i] = disk[Lba * SectorSize + i]
    BY <1>1, <1>5 DEF WrittenInv
  <2>2. /\ KeepFirst => AsOnDisk(0)
        /\ KeepLast => AsOnDisk(LastSector)
    <3>1. FirstRead # Idle /\ LastRead # Idle
      BY <1>4, PieceCommands
    <3>2. QED BY <1>1, <1>2, <3>1 DEF IInv, PreparedInv
  <2>3. /\ LastSector * SectorSize \in Nat /\ SectorSize \in Nat \ {0} /\ LastOffset \in Nat
        /\ Within \in 0 .. SectorSize - 1
    BY <1>4, PieceShape, WrittenSectors, DiskAssumption
  <2>4. i < LastSector * SectorSize + SectorSize /\ i < PageSize
    <3>1. PageSize \in Nat
      BY DiskAssumption DEF PageSize
    <3>2. LastSector * SectorSize + SectorSize <= PageSize
      BY <1>4, WrittenSectors
    <3>3. QED BY <2>3, <3>1, <3>2
  <2>5. page'[i] = page[i]
    <3>1. i \in DOMAIN page
      <4>1. PageSize \in Nat
        BY DiskAssumption DEF PageSize
      <4>2. i \in 0 .. PageSize - 1
        BY <2>3, <2>4, <4>1
      <4>3. QED BY <4>2 DEF IInv, PreparedInv
    <3>2. QED BY <1>1, <2>1, <3>1
  <2>6. CASE i < Within
    <3>1. KeepFirst
      BY <2>3, <2>6 DEF KeepFirst
    <3>2. i \in 0 * SectorSize .. 0 * SectorSize + SectorSize - 1
      BY <2>3, <2>6
    <3>3. QED BY <2>2, <2>5, <3>1, <3>2 DEF AsOnDisk
  <2>7. CASE LastOffset < i
    <3>1. KeepLast /\ LastSector * SectorSize <= LastOffset
      BY <1>4, <2>3, <2>4, <2>7, WrittenSectors
    <3>2. i \in LastSector * SectorSize .. LastSector * SectorSize + SectorSize - 1
      BY <2>3, <2>4, <2>7, <3>1
    <3>3. QED BY <2>2, <2>5, <3>1, <3>2 DEF AsOnDisk
  <2>8. QED BY <2>1, <2>3, <2>6, <2>7
<1>11. DescriptorInv'
  <2>1. DOMAIN prdt' = Slot
    BY DEF IInv, DescriptorInv, CopyIn, Start
  <2>2. ASSUME SectorsToWrite = 0
        PROVE  prdt'[0] = OneSector /\ \A s \in Slot \ {0} : issued'[s] = Idle
    <3>1. LowestFree = 0
      <4>1. 0 \in Slot
        BY DiskAssumption DEF Slot
      <4>2. QED BY <1>2, <4>1, FreeSlot
    <3>2. prdt' = prdt
      BY <2>2 DEF CopyIn, Start
    <3>3. QED BY <1>1, <1>2, <1>6, <2>2, <3>1, <3>2 DEF IInv, DescriptorInv, SlotsInv
  <2>3. QED BY <1>1, <1>5, <2>1, <2>2 DEF DescriptorInv
<1>12. QED BY <1>7, <1>8, <1>9, <1>10, <1>11 DEF IInv

\* The caller returns with nothing under way.
LEMMA ReturnIInv ==
    ASSUME IInv, Return
    PROVE  IInv'
<1>1. /\ pc = "returned" /\ pc' = "idle" /\ pos' = pos /\ page' = page
      /\ issued' = issued /\ awaited' = awaited
  BY DEF Return, Goto
<1>2. CallInv'
  BY <1>1 DEF IInv, CallInv, AtWork
<1>3. SlotsInv'
  BY <1>1 DEF IInv, SlotsInv, Resting
<1>4. PreparedInv' /\ WrittenInv'
  BY <1>1 DEF IInv, PreparedInv, WrittenInv
<1>5. DescriptorInv'
  BY <1>1 DEF IInv, DescriptorInv, Return
<1>6. QED BY <1>2, <1>3, <1>4, <1>5 DEF IInv

--------------------------------------------------------------------------------
(* The controller *)

\* What a completed read of one of the kept sectors does to the page.
LEMMA SectorRead ==
    ASSUME IInv, NEW s \in Slot, Complete(s), NEW k \in {0, LastSector},
           pc \in {"first", "preparing"},
           issued[s] = [kind |-> "read", lba |-> Lba + k, count |-> 1, at |-> k * SectorSize]
    PROVE  /\ DOMAIN page' = DOMAIN page
           /\ \A i \in DOMAIN page : page'[i] \in {page[i], disk[Lba * SectorSize + i]}
           /\ \A i \in k * SectorSize .. k * SectorSize + SectorSize - 1 :
                 page'[i] = disk[Lba * SectorSize + i]
<1>1. pos \in Nat /\ call.left \in Nat \ {0}
  BY DEF IInv, CallInv, AtWork
<1>2. /\ Lba \in Nat /\ k \in Nat /\ LastSector \in Nat /\ SectorSize \in Nat \ {0}
      /\ k * SectorSize \in Nat /\ Lba * SectorSize \in Nat /\ PageSize \in Nat
  <2>1. Lba \in Nat /\ LastSector \in Nat /\ SectorSize \in Nat \ {0} /\ PageSectors \in Nat
    BY <1>1, PieceShape, WrittenSectors, DiskAssumption
  <2>2. QED BY <2>1 DEF PageSize
<1>3. (Lba + k) * SectorSize = Lba * SectorSize + k * SectorSize /\ 1 * SectorSize = SectorSize
  <2>1. Lba \in Nat /\ k \in Nat /\ SectorSize \in Nat
    BY <1>2
  <2>2. (Lba + k) * SectorSize = Lba * SectorSize + k * SectorSize
    BY ONLY <2>1, Distribute
  <2>3. 1 * SectorSize = SectorSize
    BY ONLY <2>1
  <2>4. QED BY <2>2, <2>3
<1>4. /\ DOMAIN page' = DOMAIN page
      /\ \A i \in DOMAIN page :
            page'[i] = IF i \in k * SectorSize .. k * SectorSize + SectorSize - 1
                       THEN disk[Lba * SectorSize + k * SectorSize + i - k * SectorSize]
                       ELSE page[i]
  BY <1>3 DEF Complete
<1>5. DOMAIN page = 0 .. PageSize - 1
  BY DEF IInv, PreparedInv
<1>6. \A i \in DOMAIN page :
         Lba * SectorSize + k * SectorSize + i - k * SectorSize = Lba * SectorSize + i
  BY <1>2, <1>5
<1>7. k * SectorSize + SectorSize <= PageSize
  <2>1. PICK ss, last : ss = SectorSize /\ last = LastSector
    OBVIOUS
  <2>2. last * ss + ss <= PageSize /\ last * ss \in Nat
    BY <1>1, <1>2, <2>1, WrittenSectors
  <2>3. CASE k = 0
    BY <1>2, <2>1, <2>2, <2>3
  <2>4. CASE k = last
    BY <2>1, <2>2, <2>4
  <2>5. QED BY <2>1, <2>3, <2>4
<1>8. \A i \in k * SectorSize .. k * SectorSize + SectorSize - 1 : i \in DOMAIN page
  BY <1>2, <1>5, <1>7
<1>9. QED BY <1>4, <1>6, <1>8

\* While the page is prepared, a completed read keeps the invariant.
LEMMA PreparingIInv ==
    ASSUME IInv, NEW s \in Slot, Complete(s), pc \in {"first", "preparing"}
    PROVE  PreparedInv'
<1>1. pos \in Nat /\ call.left \in Nat \ {0}
  BY DEF IInv, CallInv, AtWork
<1>2. /\ Lba \in Nat /\ LastSector \in Nat /\ SectorSize \in Nat \ {0} /\ PageSize \in Nat
      /\ LastSector * SectorSize \in Nat /\ SectorSize <= PageSize
      /\ LastSector * SectorSize + SectorSize <= PageSize
  <2>1. Lba \in Nat /\ LastSector \in Nat /\ SectorSize \in Nat \ {0} /\ PageSectors \in Nat
    BY <1>1, PieceShape, WrittenSectors, DiskAssumption
  <2>2. LastSector * SectorSize + SectorSize <= PageSize
    BY <1>1, WrittenSectors
  <2>3. PageSize \in Nat /\ LastSector * SectorSize \in Nat
    BY <2>1 DEF PageSize
  <2>4. QED BY <2>1, <2>2, <2>3
<1>3. /\ pc' = pc /\ pos' = pos /\ call' = call /\ issued' = [issued EXCEPT ![s] = Idle]
      /\ issued[s] # Idle
  BY DEF Complete
<1>4. /\ FirstRead' = FirstRead /\ LastRead' = LastRead /\ KeepFirst' = KeepFirst
      /\ KeepLast' = KeepLast /\ Lba' = Lba /\ LastSector' = LastSector
  BY <1>3, PieceStays
<1>5. issued[s] \in {FirstRead, LastRead}
  BY <1>3 DEF IInv, SlotsInv
<1>6. disk' = disk
  <2>1. issued[s].kind = "read"
    BY <1>1, <1>5, PieceCommands
  <2>2. QED BY <2>1 DEF Complete
<1>7. PICK k \in {0, LastSector} :
         issued[s] = [kind |-> "read", lba |-> Lba + k, count |-> 1, at |-> k * SectorSize]
  <2>1. FirstRead = [kind |-> "read", lba |-> Lba + 0, count |-> 1, at |-> 0 * SectorSize]
    BY <1>2 DEF FirstRead
  <2>2. QED BY <1>5, <2>1 DEF LastRead
<1>8. /\ DOMAIN page' = DOMAIN page
      /\ \A i \in DOMAIN page : page'[i] \in {page[i], disk[Lba * SectorSize + i]}
      /\ \A i \in k * SectorSize .. k * SectorSize + SectorSize - 1 :
            page'[i] = disk[Lba * SectorSize + i]
  BY <1>7, SectorRead
<1>9. ASSUME NEW j \in {0, LastSector}, AsOnDisk(j)
      PROVE  AsOnDisk(j)'
  <2>1. j * SectorSize \in Nat /\ j * SectorSize + SectorSize <= PageSize
    BY <1>2
  <2>2. \A i \in j * SectorSize .. j * SectorSize + SectorSize - 1 : i \in DOMAIN page
    BY <1>2, <2>1 DEF IInv, PreparedInv
  <2>3. QED BY <1>4, <1>6, <1>8, <1>9, <2>2 DEF AsOnDisk
<1>10. AsOnDisk(k)'
  BY <1>4, <1>6, <1>8 DEF AsOnDisk
<1>11. ASSUME NEW c, NEW j \in {0, LastSector},
              c = [kind |-> "read", lba |-> Lba + j, count |-> 1, at |-> j * SectorSize],
              AsOnDisk(j) \/ \E t \in Slot : issued[t] = c
       PROVE  AsOnDisk(j)' \/ \E t \in Slot : issued'[t] = c
  <2>1. CASE AsOnDisk(j)
    BY <1>9, <2>1
  <2>2. CASE issued[s] = c
    <3>1. Lba + k = Lba + j
      BY <1>7, <1>11, <2>2
    <3>2. k = j
      BY <1>2, <3>1
    <3>3. QED BY <1>10, <3>2
  <2>3. CASE \E t \in Slot \ {s} : issued[t] = c
    BY <1>3, <2>3 DEF IInv, SlotsInv
  <2>4. QED BY <1>11, <2>1, <2>2, <2>3
<1>12. KeepFirst => AsOnDisk(0)' \/ \E t \in Slot : issued'[t] = FirstRead
  <2>1. FirstRead = [kind |-> "read", lba |-> Lba + 0, count |-> 1, at |-> 0 * SectorSize]
    BY <1>2 DEF FirstRead
  <2>2. QED BY <1>11, <2>1 DEF IInv, PreparedInv
<1>13. PICK last \in {0, LastSector} : last = LastSector
  OBVIOUS
<1>14. pc = "preparing" /\ KeepLast =>
          AsOnDisk(last)' \/ \E t \in Slot : issued'[t] = LastRead
  <2>1. LastRead = [kind |-> "read", lba |-> Lba + last, count |-> 1, at |-> last * SectorSize]
    BY <1>13 DEF LastRead
  <2>2. pc = "preparing" /\ KeepLast =>
           AsOnDisk(last) \/ \E t \in Slot : issued[t] = LastRead
    BY <1>13 DEF IInv, PreparedInv
  <2>3. QED BY <1>11, <2>1, <2>2
<1>15. AsOnDisk(last)' => AsOnDisk(LastSector)'
  BY <1>4, <1>13 DEF AsOnDisk
<1>16. DOMAIN page' = 0 .. PageSize - 1
  BY <1>8 DEF IInv, PreparedInv
<1>17. QED BY <1>3, <1>4, <1>12, <1>14, <1>15, <1>16 DEF PreparedInv

\* Sectors of the page that get to the disk change bytes of the piece only: the others are
\* in the page as they are on the disk.
LEMMA SectorsWritten ==
    ASSUME IInv, pc = "writing", \E s \in Slot : issued[s] = PieceWrite,
           NEW n \in Nat, n * SectorSize <= LastSector * SectorSize + SectorSize,
           NEW b \in Byte, disk'[b] # disk[b],
           b \in Lba * SectorSize .. Lba * SectorSize + n * SectorSize - 1,
           disk'[b] = page[b - Lba * SectorSize]
    PROVE  b \in Lba * SectorSize + Within .. Lba * SectorSize + LastOffset
<1>1. pos \in Nat /\ call.left \in Nat \ {0}
  BY DEF IInv, CallInv, AtWork
<1>2. PICK base, length, top, i : /\ base = Lba * SectorSize /\ length = n * SectorSize
                                  /\ top = LastSector * SectorSize + SectorSize
                                  /\ i = b - base
  OBVIOUS
<1>3. /\ base \in Nat /\ length \in Nat /\ top \in Nat /\ b \in Nat
      /\ Within \in Nat /\ LastOffset \in Nat
  <2>1. Lba \in Nat /\ LastSector \in Nat /\ SectorSize \in Nat /\ Within \in Nat
    BY <1>1, PieceShape, WrittenSectors, DiskAssumption
  <2>2. PageSize \in Nat
    BY DiskAssumption DEF PageSize
  <2>3. LastOffset \in Nat
    BY <1>1, <2>1, <2>2, PieceShape
  <2>4. b \in Nat
    BY DEF Byte
  <2>5. QED BY <1>2, <2>1, <2>3, <2>4
<1>4. length <= top /\ b \in base .. base + length - 1 /\ disk'[b] = page[i]
  BY <1>2
<1>5. i \in 0 .. top - 1 /\ base + i = b
  BY <1>2, <1>3, <1>4
<1>6. i \in Within .. LastOffset \/ page[i] = disk[base + i]
  <2>1. i \in 0 .. LastSector * SectorSize + SectorSize - 1 /\ Lba * SectorSize + i = b
    <3>1. LastSector \in Nat /\ SectorSize \in Nat
      BY <1>1, WrittenSectors, DiskAssumption
    <3>2. QED BY <1>2, <1>5, <3>1
  <2>2. \/ i \in Within .. LastOffset
        \/ Lba * SectorSize + i \notin Byte
        \/ page[i] = disk[Lba * SectorSize + i]
    BY <2>1 DEF IInv, WrittenInv
  <2>3. QED BY <1>2, <2>1, <2>2
<1>7. i \in Within .. LastOffset
  BY <1>4, <1>5, <1>6
<1>8. QED BY <1>2, <1>3, <1>5, <1>7

\* So does a write that is completed.
LEMMA PieceWritten ==
    ASSUME IInv, NEW s \in Slot, Complete(s), pc = "writing", NEW b \in Byte,
           disk'[b] # disk[b]
    PROVE  b \in Lba * SectorSize + Within .. Lba * SectorSize + LastOffset
<1>1. pos \in Nat /\ call.left \in Nat \ {0}
  BY DEF IInv, CallInv, AtWork
<1>2. issued[s] = PieceWrite
  BY DEF IInv, SlotsInv, Complete
<1>3. disk'[b] = IF b \in Lba * SectorSize .. Lba * SectorSize + SectorsToWrite * SectorSize - 1
                 THEN page[0 + b - Lba * SectorSize] ELSE disk[b]
  BY <1>2 DEF Complete, PieceWrite
<1>4. 0 + b - Lba * SectorSize = b - Lba * SectorSize
  <2>1. Lba * SectorSize \in Nat /\ b \in Nat
    BY <1>1, PieceShape, DiskAssumption DEF Byte
  <2>2. QED BY <2>1
<1>5. /\ b \in Lba * SectorSize .. Lba * SectorSize + SectorsToWrite * SectorSize - 1
      /\ disk'[b] = page[b - Lba * SectorSize]
  BY <1>3, <1>4
<1>6. SectorsToWrite \in Nat
      /\ SectorsToWrite * SectorSize <= LastSector * SectorSize + SectorSize
  BY <1>1, WrittenSectors
<1>7. QED BY <1>2, <1>5, <1>6, SectorsWritten

\* A write of no sectors gets a sector of the page to the disk at most.
LEMMA OverrunShape ==
    ASSUME IInv, NEW s \in Slot, Overrun(s)
    PROVE  /\ pc = "writing" /\ issued[s] = PieceWrite /\ SectorsToWrite = 0
           /\ UNCHANGED <<pos, call, pc, page, got, prdt, awaited>>
           /\ issued' = issued \/ issued' = [issued EXCEPT ![s] = Idle]
           /\ \E n \in {0, 1} :
                 disk' = [b \in Byte |->
                            IF b \in Lba * SectorSize .. Lba * SectorSize + n * SectorSize - 1
                            THEN page[0 + (b - Lba * SectorSize)] ELSE disk[b]]
<1>1. issued[s].kind = "write" /\ issued[s].count = 0
  BY DEF Overrun, Endless
<1>2. issued[s] # Idle
  BY <1>1 DEF Idle
<1>3. pc \in {"first", "preparing", "writing"}
  BY <1>1, <1>2 DEF IInv, SlotsInv, CallInv, AtWork
<1>4. pos \in Nat /\ call.left \in Nat \ {0}
  BY <1>3 DEF IInv, CallInv, AtWork
<1>5. pc = "writing"
  <2>1. ASSUME pc \in {"first", "preparing"} PROVE FALSE
    BY <1>1, <1>2, <1>4, <2>1, PieceCommands DEF IInv, SlotsInv
  <2>2. QED BY <1>3, <2>1
<1>6. issued[s] = PieceWrite
  BY <1>2, <1>5 DEF IInv, SlotsInv
<1>7. SectorsToWrite = 0
  BY <1>1, <1>6 DEF PieceWrite
<1>8. prdt[s] = OneSector
  BY <1>2, <1>5, <1>7 DEF IInv, DescriptorInv
<1>9. prdt[s] # Elsewhere /\ prdt[s].at = 0 /\ prdt[s].count = 1 /\ issued[s].lba = Lba
  BY <1>6, <1>8 DEF OneSector, Elsewhere, PieceWrite
<1>10. 0 .. 1 = {0, 1}
  OBVIOUS
<1>11. \E n \in {0, 1} :
          disk' = [b \in Byte |->
                     IF b \in Lba * SectorSize .. Lba * SectorSize + n * SectorSize - 1
                     THEN page[0 + (b - Lba * SectorSize)] ELSE disk[b]]
  BY <1>9, <1>10 DEF Overrun
<1>12. QED BY <1>5, <1>6, <1>7, <1>11 DEF Overrun

\* That changes bytes of the piece only, too.
LEMMA SectorOverrun ==
    ASSUME IInv, NEW s \in Slot, Overrun(s), NEW b \in Byte, disk'[b] # disk[b]
    PROVE  b \in Lba * SectorSize + Within .. Lba * SectorSize + LastOffset
<1>1. pc = "writing" /\ issued[s] = PieceWrite
  BY OverrunShape
<1>2. pos \in Nat /\ call.left \in Nat \ {0}
  BY <1>1 DEF IInv, CallInv, AtWork
<1>3. PICK n \in {0, 1} :
         disk' = [c \in Byte |->
                    IF c \in Lba * SectorSize .. Lba * SectorSize + n * SectorSize - 1
                    THEN page[0 + (c - Lba * SectorSize)] ELSE disk[c]]
  BY OverrunShape
<1>4. n \in Nat /\ n * SectorSize <= LastSector * SectorSize + SectorSize
  <2>1. LastSector * SectorSize \in Nat /\ SectorSize \in Nat
    BY <1>2, WrittenSectors, DiskAssumption
  <2>2. n * SectorSize \in {0, SectorSize}
    BY <2>1
  <2>3. QED BY <2>1, <2>2
<1>5. 0 + (b - Lba * SectorSize) = b - Lba * SectorSize
  <2>1. Lba * SectorSize \in Nat /\ b \in Nat
    BY <1>2, PieceShape, DiskAssumption DEF Byte
  <2>2. QED BY <2>1
<1>6. /\ b \in Lba * SectorSize .. Lba * SectorSize + n * SectorSize - 1
      /\ disk'[b] = page[b - Lba * SectorSize]
  BY <1>3, <1>5
<1>7. QED BY <1>1, <1>4, <1>6, SectorsWritten

\* What is in the page and not of the call stays as on the disk.
LEMMA WrittenStays ==
    ASSUME IInv, pc = "writing", \E s \in Slot : issued[s] = PieceWrite,
           UNCHANGED <<pos, call, pc, page>>,
           \A b \in Byte : disk'[b] # disk[b] =>
              b \in Lba * SectorSize + Within .. Lba * SectorSize + LastOffset
    PROVE  WrittenInv'
<1>1. pos \in Nat /\ call.left \in Nat \ {0}
  BY DEF IInv, CallInv, AtWork
<1>2. PICK base, top : /\ base = Lba * SectorSize
                       /\ top = LastSector * SectorSize + SectorSize - 1
  OBVIOUS
<1>3. base \in Nat /\ top \in Int /\ Within \in Nat /\ LastOffset \in Int
  <2>1. Lba \in Nat /\ LastSector \in Nat /\ SectorSize \in Nat /\ PageSize \in Nat
    BY <1>1, PieceShape, WrittenSectors, DiskAssumption DEF PageSize
  <2>2. QED BY <1>1, <1>2, <2>1, PieceShape
<1>4. SUFFICES ASSUME NEW i \in 0 .. top, i \notin Within .. LastOffset, base + i \in Byte
               PROVE  page[i] = disk'[base + i]
  BY <1>2, PieceStays DEF WrittenInv
<1>5. page[i] = disk[base + i]
  BY <1>2, <1>4 DEF IInv, WrittenInv
<1>6. base + i \notin base + Within .. base + LastOffset
  BY <1>3, <1>4
<1>7. QED BY <1>2, <1>4, <1>5, <1>6

\* A completed command keeps the invariant: one that reads what is to be kept brings it
\* into the page, and one that writes changes nothing but bytes of the piece.
LEMMA CompleteIInv ==
    ASSUME IInv, NEW s \in Slot, Complete(s)
    PROVE  IInv'
<1>1. /\ pc' = pc /\ pos' = pos /\ call' = call /\ awaited' = awaited
      /\ issued' = [issued EXCEPT ![s] = Idle] /\ issued[s] # Idle
  BY DEF Complete
<1>2. /\ FirstRead' = FirstRead /\ LastRead' = LastRead /\ PieceWrite' = PieceWrite
      /\ SectorsToWrite' = SectorsToWrite /\ Lba' = Lba /\ Within' = Within
      /\ LastOffset' = LastOffset
  BY <1>1, PieceStays
<1>3. pc \in {"reading", "first", "preparing", "writing"}
  BY <1>1 DEF IInv, SlotsInv, CallInv, AtWork
<1>4. pos \in Nat /\ call.left \in Nat \ {0}
  BY <1>3 DEF IInv, CallInv, AtWork
<1>5. CallInv'
  BY <1>1 DEF IInv, CallInv
<1>6. SlotsInv'
  <2>1. /\ issued' \in [Slot -> Command \cup {Idle}]
        /\ \A t \in Slot : issued'[t] \in {Idle, issued[t]}
    BY <1>1 DEF IInv, SlotsInv
  <2>2. Idle.kind # "write"
    BY DEF Idle
  <2>3. QED BY <1>1, <1>2, <2>1, <2>2 DEF IInv, SlotsInv
<1>7. PreparedInv'
  <2>1. CASE pc \in {"first", "preparing"}
    BY <2>1, PreparingIInv
  <2>2. CASE pc \in {"reading", "writing"}
    <3>1. DOMAIN page' = DOMAIN page
      BY DEF Complete
    <3>2. QED BY <1>1, <2>2, <3>1 DEF IInv, PreparedInv
  <2>3. QED BY <1>3, <2>1, <2>2
<1>8. WrittenInv'
  <2>1. CASE pc # "writing"
    BY <1>1, <2>1 DEF WrittenInv
  <2>2. CASE pc = "writing"
    <3>1. issued[s] = PieceWrite
      BY <1>1, <2>2 DEF IInv, SlotsInv
    <3>2. page' = page
      <4>1. PieceWrite.kind # "read"
        BY DEF PieceWrite
      <4>2. QED BY <3>1, <4>1 DEF Complete
    <3>3. \A b \in Byte : disk'[b] # disk[b] =>
             b \in Lba * SectorSize + Within .. Lba * SectorSize + LastOffset
      BY <2>2, PieceWritten
    <3>4. QED BY <1>1, <2>2, <3>1, <3>2, <3>3, WrittenStays
  <2>3. QED BY <2>1, <2>2
<1>9. DescriptorInv'
  <2>1. prdt' = prdt /\ KeepFirst' = KeepFirst
    BY <1>1, PieceStays DEF Complete
  <2>2. \A t \in Slot : issued[t] = Idle => issued'[t] = Idle
    BY <1>1 DEF IInv, SlotsInv
  <2>3. QED BY <1>1, <1>2, <2>1, <2>2 DEF IInv, DescriptorInv
<1>10. QED BY <1>5, <1>6, <1>7, <1>8, <1>9 DEF IInv

\* A write of no sectors keeps the invariant, whether it ends or not.
LEMMA OverrunIInv ==
    ASSUME IInv, NEW s \in Slot, Overrun(s)
    PROVE  IInv'
<1>1. /\ pc = "writing" /\ issued[s] = PieceWrite
      /\ UNCHANGED <<pos, call, pc, page, prdt, awaited>>
      /\ issued' = issued \/ issued' = [issued EXCEPT ![s] = Idle]
  BY OverrunShape
<1>2. PieceWrite' = PieceWrite /\ SectorsToWrite' = SectorsToWrite
  BY <1>1, PieceStays
<1>3. CallInv'
  BY <1>1 DEF IInv, CallInv
<1>4. /\ issued' \in [Slot -> Command \cup {Idle}]
      /\ \A t \in Slot : issued'[t] \in {Idle, issued[t]}
  BY <1>1 DEF IInv, SlotsInv
<1>5. SlotsInv'
  BY <1>1, <1>2, <1>4 DEF IInv, SlotsInv, Resting
<1>6. PreparedInv'
  BY <1>1 DEF IInv, PreparedInv
<1>7. WrittenInv'
  BY <1>1, SectorOverrun, WrittenStays
<1>8. DescriptorInv'
  BY <1>1, <1>2, <1>4 DEF IInv, DescriptorInv
<1>9. QED BY <1>3, <1>5, <1>6, <1>7, <1>8 DEF IInv

--------------------------------------------------------------------------------
(* The theorem *)

\* Every step, and every stutter, keeps the invariant.
LEMMA NextIInv == IInv /\ [Next]_vars => IInv'
<1> SUFFICES ASSUME IInv, [Next]_vars PROVE IInv'
  OBVIOUS
<1>1. CASE UNCHANGED vars
  <2>1. UNCHANGED <<disk, pos, call, pc, page, issued, prdt, awaited>>
    BY <1>1 DEF vars
  <2>2. UNCHANGED <<CallInv, SlotsInv, PreparedInv, WrittenInv, DescriptorInv>>
    BY <2>1, PieceStays
    DEF CallInv, SlotsInv, PreparedInv, WrittenInv, DescriptorInv, AsOnDisk
  <2>3. QED BY <2>2 DEF IInv
<1>2. ASSUME \/ \E off \in -1 .. Size + 1, whence \in {"SET", "CUR", "END"} : Seek(off, whence)
             \/ \E n \in 1 .. Size, v \in Version : Call("write", n, v)
             \/ \E n \in 1 .. Size : Call("read", n, 0)
      PROVE  IInv'
  BY <1>2, BeginIInv
<1>3. CASE StartRead
  BY <1>3, StartReadIInv
<1>4. CASE CopyOut
  BY <1>4, FinishIInv DEF CopyOut
<1>5. CASE StartFirst
  BY <1>5, StartFirstIInv
<1>6. CASE StartLast
  BY <1>6, StartLastIInv
<1>7. CASE CopyIn
  BY <1>7, CopyInIInv
<1>8. CASE EndWrite
  BY <1>8, FinishIInv DEF EndWrite
<1>9. CASE Return
  BY <1>9, ReturnIInv
<1>10. ASSUME NEW s \in Slot, Complete(s) PROVE IInv'
  BY <1>10, CompleteIInv
<1>11. ASSUME NEW s \in Slot, Overrun(s) PROVE IInv'
  BY <1>11, OverrunIInv
<1>12. QED
  BY <1>1, <1>2, <1>3, <1>4, <1>5, <1>6, <1>7, <1>8, <1>9, <1>10, <1>11
  DEF Next, Caller, Poll

\* A step that changes a byte of the disk is one of a write that was asked to write it.
LEMMA ChangedAsAsked ==
    ASSUME IInv, Next, NEW b \in Byte, disk'[b] # disk[b]
    PROVE  call.op = "write" /\ b \in CallRange
<1>1. PICK s \in Slot : Complete(s) \/ Overrun(s)
  BY DEF Next, Seek, Call, Caller, Poll, vars, StartRead, CopyOut, StartFirst, StartLast, CopyIn,
         EndWrite, Return
<1>2. pc \in {"reading", "first", "preparing", "writing"}
  BY <1>1, OverrunShape DEF IInv, SlotsInv, CallInv, AtWork, Complete
<1>3. pos \in Nat /\ call.left \in Nat \ {0}
  BY <1>2 DEF IInv, CallInv, AtWork
<1>4. Complete(s) => issued[s].kind # "read"
  BY DEF Complete
<1>5. pc = "writing"
  <2>1. CASE Overrun(s)
    BY <2>1, OverrunShape
  <2>2. CASE Complete(s)
    <3>1. issued[s] \in Command /\ issued[s].kind = "write"
      BY <1>4, <2>2 DEF IInv, SlotsInv, Command, Complete
    <3>2. pc # "reading"
      BY <3>1 DEF IInv, SlotsInv
    <3>3. pc \notin {"first", "preparing"}
      <4>1. SUFFICES ASSUME pc \in {"first", "preparing"}
                     PROVE  issued[s] \in {FirstRead, LastRead}
        BY <1>3, <3>1, PieceCommands
      <4>2. QED BY <2>2, <4>1 DEF IInv, SlotsInv, Complete
    <3>4. QED BY <1>2, <3>2, <3>3
  <2>3. QED BY <1>1, <2>1, <2>2
<1>6. b \in Lba * SectorSize + Within .. Lba * SectorSize + LastOffset
  BY <1>1, <1>5, PieceWritten, SectorOverrun
<1>7. /\ pos = Lba * SectorSize + Within /\ Payload \in 1 .. call.left
      /\ Lba * SectorSize + LastOffset = pos + Payload - 1
  BY <1>3, PieceShape
<1>8. /\ call.start \in Nat /\ call.asked \in Nat /\ call.start <= pos
      /\ pos + call.left = call.start + call.asked /\ call.op = "write"
  BY <1>5 DEF IInv, CallInv, AtWork
<1>9. b \in pos .. pos + Payload - 1
  BY <1>6, <1>7
<1>10. b \in CallRange
  BY <1>3, <1>7, <1>8, <1>9 DEF CallRange
<1>11. QED BY <1>8, <1>10

\* A write changes no byte of the disk but those it was asked to write, for any geometry of
\* the disk and whatever order the controller completes the commands in; nor does a write
\* of no sectors, if it sends no more than the descriptor of its slot gives it.
THEOREM NeighboursSafe == Spec => NeighboursKept
<1>1. Init => IInv
  BY InitIInv
<1>2. IInv /\ [Next]_vars => IInv'
  BY NextIInv
<1>3. IInv /\ [Next]_vars =>
         [\A b \in Byte : disk'[b] # disk[b] => call.op = "write" /\ b \in CallRange]_vars
  BY ChangedAsAsked
<1>4. QED BY <1>1, <1>2, <1>3, PTL DEF Spec, NeighboursKept

--------------------------------------------------------------------------------
(* What a piece transfers *)

\* The sizes are numbers.
LEMMA Geometry ==
    /\ SectorSize \in Nat \ {0, 1} /\ PageSectors \in Nat \ {0} /\ Sectors \in Nat \ {0}
    /\ PageSize \in Nat \ {0} /\ PageSize = PageSectors * SectorSize
    /\ Size \in Nat \ {0} /\ Size = Sectors * SectorSize
<1>1. SectorSize \in Nat \ {0, 1} /\ PageSectors \in Nat \ {0} /\ Sectors \in Nat \ {0}
  BY DiskAssumption
<1>2. \A a, b \in Nat \ {0} : a * b \in Nat \ {0}
  OBVIOUS
<1>3. QED BY <1>1, <1>2 DEF PageSize, Size

\* A piece after which bytes are left ends with the page, and so with a sector.
LEMMA PieceEnds ==
    ASSUME pos \in Nat, call.left \in Nat \ {0}, Payload # call.left
    PROVE  /\ Payload = PageSize - Within /\ LastOffset = PageSize - 1
           /\ (pos + Payload) % SectorSize = 0
<1>1. PICK ss, ps, lba, w : ss = SectorSize /\ ps = PageSectors /\ lba = Lba /\ w = Within
  OBVIOUS
<1>2. /\ ss \in Nat \ {0} /\ ps \in Nat \ {0} /\ lba \in Nat /\ w \in 0 .. ss - 1
      /\ pos = lba * ss + w
  BY <1>1, Geometry, PieceShape
<1>3. Payload = PageSize - w /\ PageSize \in Nat
  BY <1>1, Geometry DEF Payload, Min2
<1>4. LastOffset = PageSize - 1
  BY <1>1, <1>2, <1>3 DEF LastOffset
<1>5. lba * ss \in Int /\ PageSize = ps * ss
  BY <1>1, <1>2, Geometry
<1>6. pos + Payload = lba * ss + ps * ss
  BY <1>2, <1>3, <1>5
<1>7. pos + Payload = (lba + ps) * ss + 0
  <2>1. (lba + ps) * ss = lba * ss + ps * ss /\ (lba + ps) * ss \in Int
    BY <1>2, Multiples
  <2>2. QED BY <1>6, <2>1
<1>8. ((lba + ps) * ss + 0) % ss = 0
  <2>1. lba + ps \in Nat /\ 0 \in 0 .. ss - 1
    BY <1>2
  <2>2. QED BY <1>2, <2>1, DivUnique
<1>9. QED BY <1>1, <1>3, <1>4, <1>7, <1>8

\* Every byte of a piece is in the sectors that are written, but for the last byte of the
\* call if it is the first of a sector.
LEMMA PieceCovered ==
    ASSUME pos \in Nat, call.left \in Nat \ {0}, NEW i \in Within .. LastOffset
    PROVE  \/ i < SectorsToWrite * SectorSize
           \/ /\ i = LastOffset /\ Payload = call.left
              /\ (Lba * SectorSize + i) % SectorSize = 0
<1>1. PICK ss, lba, k, n : /\ ss = SectorSize /\ lba = Lba /\ k = SectorsToWrite /\ n = LastOffset
  OBVIOUS
<1>2. /\ ss \in Nat \ {0, 1} /\ lba \in Nat /\ n \in Nat /\ i \in Nat /\ i <= n
  BY <1>1, Geometry, PieceShape
<1>3. k = (n + ss - 1) \div ss
  BY <1>1 DEF SectorsToWrite
<1>4. k \in Nat /\ n <= k * ss
  BY <1>2, <1>3, RoundUp
<1>5. k * ss \in Int
  BY <1>2, <1>4, Multiples
<1>6. SUFFICES ASSUME ~(i < k * ss)
               PROVE  i = n /\ Payload = call.left /\ (lba * ss + i) % ss = 0
  BY <1>1
<1>7. i = n /\ n = k * ss
  BY <1>2, <1>4, <1>5, <1>6
<1>8. (lba * ss + i) % ss = 0
  <2>1. (lba + k) * ss = lba * ss + k * ss /\ (lba + k) * ss \in Int /\ lba * ss \in Int
    BY <1>2, <1>4, Multiples
  <2>2. lba * ss + i = (lba + k) * ss + 0
    BY <1>5, <1>7, <2>1
  <2>3. lba + k \in Nat /\ 0 \in 0 .. ss - 1
    BY <1>2, <1>4
  <2>4. ((lba + k) * ss + 0) % ss = 0
    BY <1>2, <2>3, DivUnique
  <2>5. QED BY <2>2, <2>4
<1>9. Payload = call.left
  <2>1. SUFFICES ASSUME Payload # call.left PROVE FALSE
    OBVIOUS
  <2>2. PICK ps : ps = PageSectors /\ ps \in Nat
    BY Geometry
  <2>3. n = ps * ss - 1 /\ ps * ss \in Int
    BY <1>1, <1>2, <2>1, <2>2, PieceEnds, Geometry
  <2>4. k * ss < ps * ss
    BY <1>5, <1>7, <2>3
  <2>5. k < ps
    BY <1>2, <1>4, <2>2, <2>4, Multiples
  <2>6. k * ss + ss <= ps * ss
    BY <1>2, <1>4, <2>2, <2>5, Multiples
  <2>7. QED BY <1>2, <1>5, <1>7, <2>3, <2>6
<1>10. QED BY <1>7, <1>8, <1>9

\* The bytes of a piece that a read surely gets are in the sectors that are read, which
\* are those of a page at most.
LEMMA PieceRetrieved ==
    ASSUME pos \in Nat, call.left \in Nat \ {0}, call.start \in Nat, call.asked \in Nat,
           call.start <= pos, pos + call.left = call.start + call.asked,
           pos = call.start \/ Within = 0
    PROVE  /\ SectorsToRead \in Nat /\ SectorsToRead * SectorSize <= PageSize
           /\ \A i \in 1 .. Payload :
                 pos - call.start + i <= SurelyRead => Within + i - 1 < SectorsToRead * SectorSize
<1>1. PICK ss, ps, w, k, left, n : /\ ss = SectorSize /\ ps = PageSectors /\ w = Within
                                   /\ k = SectorsToRead /\ left = call.left /\ n = Payload
  OBVIOUS
<1>2. /\ ss \in Nat \ {0} /\ ps \in Nat \ {0} /\ w \in 0 .. ss - 1 /\ left \in Nat \ {0}
      /\ n \in 1 .. left /\ n <= PageSize - w /\ PageSize \in Nat
  BY <1>1, Geometry, PieceShape
<1>3. PageSize = ps * ss
  BY <1>1, Geometry
<1>4. CASE left >= PageSize
  <2>1. k = ps
    BY <1>1, <1>2, <1>4 DEF SectorsToRead
  <2>2. \A i \in 1 .. n : w + i - 1 < PageSize
    BY <1>2
  <2>3. QED BY <1>1, <1>2, <1>3, <2>1, <2>2
<1>5. CASE left < PageSize
  <2>1. k = (left + ss - 1) \div ss
    BY <1>1, <1>2, <1>5 DEF SectorsToRead
  <2>2. k \in Nat /\ left <= k * ss /\ \A j \in Nat : k <= j <=> left <= j * ss
    BY <1>2, <2>1, RoundUp
  <2>3. k * ss \in Int
    BY <1>2, <2>2, Multiples
  <2>4. k * ss <= ps * ss
    <3>1. left <= ps * ss /\ ps \in Nat
      BY <1>2, <1>3, <1>5
    <3>2. k <= ps
      BY <2>2, <3>1
    <3>3. QED BY <1>2, <2>2, <3>2, Multiples
  <2>5. SUFFICES ASSUME NEW i \in 1 .. n, pos - call.start + i <= SurelyRead
                 PROVE  w + i - 1 < k * ss
    BY <1>1, <1>3, <2>2, <2>4
  <2>6. CASE w = 0
    BY <1>2, <2>2, <2>3, <2>6
  <2>7. CASE w # 0
    <3>1. pos = call.start /\ call.asked = left
      BY <1>1, <1>2, <2>7
    <3>2. w = call.start % ss
      BY <1>1, <3>1 DEF Within
    <3>3. SurelyRead = Min2(left, k * ss - w)
      <4>1. ~(call.asked >= PageSize)
        BY <1>2, <1>5, <3>1
      <4>2. SurelyRead = Min2(call.asked, ((call.asked + ss - 1) \div ss) * ss
                                             - (call.start % ss))
        BY <1>1, <4>1 DEF SurelyRead
      <4>3. QED BY <2>1, <3>1, <3>2, <4>2
    <3>4. i <= k * ss - w
      <4>1. SurelyRead <= k * ss - w
        BY <1>2, <2>3, <3>3 DEF Min2
      <4>2. SurelyRead \in Int
        BY <1>2, <2>3, <3>3 DEF Min2
      <4>3. i <= SurelyRead
        BY <2>5, <3>1
      <4>4. QED BY <1>2, <2>3, <4>1, <4>2, <4>3
    <3>5. QED BY <1>2, <2>3, <3>4
  <2>8. QED BY <2>6, <2>7
<1>6. QED BY <1>2, <1>4, <1>5

--------------------------------------------------------------------------------
(* The invariant of what is transferred *)

PieceRead == [kind |-> "read", lba |-> Lba, count |-> SectorsToRead, at |-> 0]
Called    == AtWork \cup {"returned"}
Value     == Int \X Version

Typed ==
    /\ disk \in [Byte -> Value] /\ page \in [0 .. PageSize - 1 -> Value]
    /\ got \in Seq(Value)
    /\ pc \in Called => call.version \in Version

\* The bytes of a call are on the disk, and its pieces but the first begin with a sector.
PlaceInv ==
    /\ pc \in Called =>
          /\ call.start \in Nat /\ call.asked \in Nat \ {0} /\ call.start + call.asked <= Size
          /\ call.op \in {"read", "write"}
    /\ pc \in AtWork => pos = call.start \/ Within = 0
    /\ pc = "returned" => pos = call.start + call.asked

\* What was read so far is as on the disk, and so is what was read into the page.
ReadInv ==
    /\ pc \in Called /\ call.op = "read" =>
          /\ Len(got) = pos - call.start
          /\ \A i \in 1 .. Len(got) : i <= SurelyRead => got[i] = disk[call.start + i - 1]
    /\ pc = "reading" =>
          /\ \A s \in Slot : issued[s] \in {Idle, PieceRead}
          /\ \/ \E s \in Slot : issued[s] # Idle
             \/ \A i \in 0 .. SectorsToRead * SectorSize - 1 :
                   page[i] = disk[Lba * SectorSize + i]

\* What was written so far is on the disk; the bytes of the piece being written are in the
\* page, and either its command is under way or they are on the disk, too.
OnDisk(first, last) == \A b \in first .. last : b \in Unwritten \/ disk[b] = <<b, call.version>>
WriteInv ==
    /\ pc \in Called /\ call.op = "write" => OnDisk(call.start, pos - 1)
    /\ pc = "writing" =>
          /\ \A i \in Within .. LastOffset : page[i] = <<Lba * SectorSize + i, call.version>>
          /\ (\E s \in Slot : issued[s] = PieceWrite) \/ OnDisk(pos, pos + Payload - 1)

TInv == Typed /\ PlaceInv /\ ReadInv /\ WriteInv

\* A call stays what it is while its length and beginning do.
LEMMA CallStays ==
    ASSUME pos' = pos, call' = call
    PROVE  /\ Payload' = Payload /\ SectorsToRead' = SectorsToRead /\ PieceRead' = PieceRead
           /\ SurelyRead' = SurelyRead /\ Unwritten' = Unwritten
BY PieceStays DEF Payload, SectorsToRead, PieceRead, SurelyRead, Unwritten, CallRange

\* A new page has the type of one.
LEMMA FreshTyped == Fresh \in [0 .. PageSize - 1 -> Value]
BY DEF Fresh, Value, Version

\* Nothing is called at first.
LEMMA InitTInv == Init => TInv
<1> SUFFICES ASSUME Init PROVE TInv
  OBVIOUS
<1>1. pc = "idle" /\ page = Fresh /\ got = << >> /\ disk = [b \in Byte |-> <<b, 0>>]
  BY DEF Init
<1>2. Typed
  BY <1>1, FreshTyped DEF Typed, Value, Version, Byte, Called, AtWork
<1>3. PlaceInv /\ ReadInv /\ WriteInv
  BY <1>1 DEF PlaceInv, ReadInv, WriteInv, Called, AtWork
<1>4. QED BY <1>2, <1>3 DEF TInv

\* A call begins with nothing transferred.
LEMMA BeginTInv ==
    ASSUME IInv, TInv,
           \/ \E off \in -1 .. Size + 1, whence \in {"SET", "CUR", "END"} : Seek(off, whence)
           \/ \E n \in 1 .. Size, v \in Version : Call("write", n, v)
           \/ \E n \in 1 .. Size : Call("read", n, 0)
    PROVE  TInv'
<1>1. ASSUME NEW off, NEW whence, Seek(off, whence) PROVE TInv'
  <2>1. pc' = "idle" /\ UNCHANGED <<disk, page, got>>
    BY <1>1 DEF Seek, Goto
  <2>2. Typed' /\ PlaceInv' /\ ReadInv' /\ WriteInv'
    BY <2>1 DEF TInv, Typed, PlaceInv, ReadInv, WriteInv, Called, AtWork
  <2>3. QED BY <2>2 DEF TInv
<1>2. ASSUME NEW op \in {"read", "write"}, NEW n \in 1 .. Size, NEW v \in Version, Call(op, n, v)
      PROVE  TInv'
  <2>1. /\ pc' = op /\ pos' = pos /\ got' = << >> /\ page' = Fresh /\ disk' = disk
        /\ pos + n <= Size
        /\ call' = [op |-> op, start |-> pos, asked |-> n, left |-> n, version |-> v]
    BY <1>2 DEF Call, Goto, NewPage
  <2>2. /\ call'.op = op /\ call'.start = pos /\ call'.asked = n /\ call'.version = v
    BY <2>1
  <2>3. pos \in Nat /\ Size \in Nat /\ n \in Nat \ {0}
    BY Geometry DEF IInv, CallInv
  <2>4. Typed'
    BY <2>1, <2>2, FreshTyped DEF TInv, Typed
  <2>5. PlaceInv'
    BY <2>1, <2>2, <2>3 DEF PlaceInv, Called, AtWork
  <2>6. ReadInv'
    BY <2>1, <2>2, <2>3 DEF ReadInv
  <2>7. WriteInv'
    BY <2>1, <2>2, <2>3 DEF WriteInv, OnDisk
  <2>8. QED BY <2>4, <2>5, <2>6, <2>7 DEF TInv
<1>3. 0 \in Version
  BY DEF Version
<1>4. QED BY <1>1, <1>2, <1>3

\* A read of whole sectors is issued.
LEMMA StartReadTInv ==
    ASSUME IInv, TInv, StartRead
    PROVE  TInv'
<1>1. /\ pc = "read" /\ pc' = "reading"
      /\ UNCHANGED <<disk, pos, call, page, got>>
      /\ issued' = [issued EXCEPT ![LowestFree] = PieceRead]
  BY DEF StartRead, Goto, Start, PieceRead
<1>2. \A s \in Slot : issued[s] = Idle
  BY <1>1 DEF IInv, SlotsInv, Resting
<1>3. LowestFree \in Slot
  BY <1>2, FreeSlot
<1>4. PieceRead' = PieceRead /\ SurelyRead' = SurelyRead /\ Within' = Within
  BY <1>1, CallStays, PieceStays
<1>5. /\ \A s \in Slot : issued'[s] \in {Idle, PieceRead}
      /\ issued'[LowestFree] = PieceRead /\ PieceRead # Idle
  BY <1>1, <1>2, <1>3 DEF IInv, SlotsInv, PieceRead, Idle
<1>6. Typed' /\ PlaceInv'
  BY <1>1, <1>4 DEF TInv, Typed, PlaceInv, Called, AtWork
<1>7. ReadInv'
  <2>1. Len(got) = pos - call.start
        /\ \A i \in 1 .. Len(got) : i <= SurelyRead => got[i] = disk[call.start + i - 1]
    BY <1>1 DEF TInv, ReadInv, Called, AtWork, IInv, CallInv
  <2>2. QED BY <1>1, <1>3, <1>4, <1>5, <2>1 DEF ReadInv
<1>8. WriteInv'
  <2>1. call.op = "read"
    BY <1>1 DEF IInv, CallInv, AtWork
  <2>2. QED BY <1>1, <2>1 DEF WriteInv
<1>9. QED BY <1>6, <1>7, <1>8 DEF TInv

\* Preparing a page for a write leaves the disk alone.
LEMMA StartWriteTInv ==
    ASSUME IInv, TInv, StartFirst \/ StartLast
    PROVE  TInv'
<1>1. /\ pc \in {"write", "first"} /\ pc' \in {"first", "preparing"}
      /\ UNCHANGED <<disk, pos, call, page, got>>
  BY DEF StartFirst, StartLast, Goto
<1>2. SurelyRead' = SurelyRead /\ Unwritten' = Unwritten /\ Within' = Within
  BY <1>1, CallStays, PieceStays
<1>3. call.op = "write"
  BY <1>1 DEF IInv, CallInv, AtWork
<1>4. Typed' /\ PlaceInv'
  BY <1>1, <1>2 DEF TInv, Typed, PlaceInv, Called, AtWork
<1>5. ReadInv'
  BY <1>1, <1>3 DEF ReadInv
<1>6. WriteInv'
  BY <1>1, <1>2 DEF TInv, WriteInv, OnDisk, Called, AtWork
<1>7. QED BY <1>4, <1>5, <1>6 DEF TInv

\* The bytes of the piece are put into the page, at their places.
LEMMA CopyInTInv ==
    ASSUME IInv, TInv, CopyIn
    PROVE  TInv'
<1>1. /\ pc = "preparing" /\ Completed /\ pc' = "writing"
      /\ UNCHANGED <<disk, pos, call, got>>
      /\ page' = [i \in DOMAIN page |->
                     IF i \in Within .. LastOffset THEN <<Lba * SectorSize + i, call.version>>
                     ELSE page[i]]
      /\ issued' = [issued EXCEPT ![LowestFree] = PieceWrite]
  BY DEF CopyIn, Goto, Start, PieceWrite
<1>2. /\ SurelyRead' = SurelyRead /\ Unwritten' = Unwritten /\ Within' = Within
      /\ LastOffset' = LastOffset /\ Lba' = Lba /\ PieceWrite' = PieceWrite
  BY <1>1, CallStays, PieceStays
<1>3. call.op = "write" /\ pos \in Nat /\ call.left \in Nat \ {0}
  BY <1>1 DEF IInv, CallInv, AtWork
<1>4. DOMAIN page = 0 .. PageSize - 1
  BY DEF TInv, Typed
<1>5. /\ Lba * SectorSize \in Int /\ Within \in Nat /\ LastOffset \in Within .. PageSize - 1
      /\ PageSize \in Nat
  <2>1. Lba \in Nat /\ SectorSize \in Nat
    BY <1>3, PieceShape, Geometry
  <2>2. Lba * SectorSize \in Int
    BY <2>1
  <2>3. QED BY <1>3, <2>2, PieceShape, Geometry
<1>6. Typed'
  <2>1. call.version \in Version
    BY <1>1 DEF TInv, Typed, Called, AtWork
  <2>2. \A i \in 0 .. PageSize - 1 : page'[i] \in Value
    <3> TAKE i \in 0 .. PageSize - 1
    <3>1. page[i] \in Value
      BY DEF TInv, Typed
    <3>2. <<Lba * SectorSize + i, call.version>> \in Value
      BY <1>5, <2>1 DEF Value
    <3>3. QED BY <1>1, <1>4, <3>1, <3>2
  <2>3. page' \in [0 .. PageSize - 1 -> Value]
    BY <1>1, <1>4, <2>2
  <2>4. QED BY <1>1, <2>1, <2>3 DEF TInv, Typed
<1>7. PlaceInv'
  BY <1>1, <1>2 DEF TInv, PlaceInv, Called, AtWork
<1>8. ReadInv'
  BY <1>1, <1>3 DEF ReadInv
<1>9. WriteInv'
  <2>1. pc' \in Called /\ call.op = "write" => OnDisk(call.start, pos - 1)'
    BY <1>1, <1>2 DEF TInv, WriteInv, OnDisk, Called, AtWork
  <2>2. \A i \in Within .. LastOffset : page'[i] = <<Lba * SectorSize + i, call.version>>
    BY <1>1, <1>4, <1>5
  <2>3. \E s \in Slot : issued'[s] = PieceWrite
    <3>1. \A s \in Slot : issued[s] = Idle
      BY <1>1, AllIdle DEF IInv
    <3>2. LowestFree \in Slot
      BY <3>1, FreeSlot
    <3>3. QED BY <1>1, <3>2 DEF IInv, SlotsInv
  <2>4. QED BY <1>1, <1>2, <2>1, <2>2, <2>3 DEF WriteInv
<1>10. QED BY <1>6, <1>7, <1>8, <1>9 DEF TInv

\* The call is over.
LEMMA ReturnTInv ==
    ASSUME TInv, Return
    PROVE  TInv'
<1>1. pc' = "idle" /\ UNCHANGED <<disk, page>> /\ got' = << >>
  BY DEF Return, Goto
<1>2. Typed' /\ PlaceInv' /\ ReadInv' /\ WriteInv'
  BY <1>1 DEF TInv, Typed, PlaceInv, ReadInv, WriteInv, Called, AtWork
<1>3. QED BY <1>2 DEF TInv

--------------------------------------------------------------------------------
(* The controller, once more *)

\* The bytes of a command that is completed are on the disk.
LEMMA CommandOnDisk ==
    ASSUME NEW lba \in Nat, NEW count \in Nat, lba + count <= Sectors
    PROVE  /\ lba * SectorSize \in Nat /\ count * SectorSize \in Nat
           /\ \A x \in 0 .. count * SectorSize - 1 : lba * SectorSize + x \in Byte
<1>1. PICK ss, n : ss = SectorSize /\ n = Sectors /\ ss \in Nat \ {0} /\ n \in Nat
  BY Geometry
<1>2. lba * ss \in Nat /\ count * ss \in Nat
  BY <1>1
<1>3. (lba + count) * ss = lba * ss + count * ss
  BY <1>1, Multiples
<1>4. (lba + count) * ss <= n * ss
  BY <1>1, Multiples
<1>5. Size = n * ss /\ Size \in Nat
  BY <1>1, Geometry
<1>6. \A x \in 0 .. count * ss - 1 : lba * ss + x \in 0 .. Size - 1
  BY <1>2, <1>3, <1>4, <1>5
<1>7. QED BY <1>1, <1>2, <1>6 DEF Byte

\* What is read into the page are bytes.
LEMMA ReadTyped ==
    ASSUME Typed, NEW s \in Slot, Complete(s), issued[s] \in Command, issued[s].kind = "read"
    PROVE  Typed'
<1>1. PICK lba, count, at : /\ lba = issued[s].lba /\ count = issued[s].count
                            /\ at = issued[s].at
  OBVIOUS
<1>2. lba \in Nat /\ count \in Nat /\ at \in Nat /\ lba + count <= Sectors
  BY <1>1 DEF Command, Complete
<1>3. PICK first, length : first = lba * SectorSize /\ length = count * SectorSize
  OBVIOUS
<1>4. first \in Nat /\ length \in Nat /\ \A x \in 0 .. length - 1 : first + x \in Byte
  BY <1>2, <1>3, CommandOnDisk
<1>5. /\ UNCHANGED <<disk, pc, call, got>>
      /\ page' = [i \in DOMAIN page |->
                     IF i \in at .. at + length - 1 THEN disk[first + i - at] ELSE page[i]]
  BY <1>1, <1>3 DEF Complete
<1>6. DOMAIN page = 0 .. PageSize - 1 /\ PageSize \in Nat
  BY Geometry DEF Typed
<1>7. \A i \in 0 .. PageSize - 1 : page'[i] \in Value
  <2> TAKE i \in 0 .. PageSize - 1
  <2>1. CASE i \in at .. at + length - 1
    <3>1. i - at \in 0 .. length - 1 /\ first + i - at = first + (i - at)
      BY <1>2, <1>4, <2>1
    <3>2. first + i - at \in Byte
      BY <1>4, <3>1
    <3>3. QED BY <1>5, <1>6, <2>1, <3>2 DEF Typed
  <2>2. CASE i \notin at .. at + length - 1
    BY <1>5, <1>6, <2>2 DEF Typed
  <2>3. QED BY <2>1, <2>2
<1>8. page' \in [0 .. PageSize - 1 -> Value]
  BY <1>5, <1>6, <1>7
<1>9. QED BY <1>5, <1>8 DEF Typed

\* The write of a piece puts the sectors of the page on the disk.
LEMMA PieceToDisk ==
    ASSUME IInv, Typed, NEW s \in Slot, Complete(s), issued[s] = PieceWrite, pc = "writing"
    PROVE  /\ disk' \in [Byte -> Value] /\ page' = page
           /\ \A x \in 0 .. SectorsToWrite * SectorSize - 1 :
                 Lba * SectorSize + x \in Byte /\ disk'[Lba * SectorSize + x] = page[x]
<1>1. pos \in Nat /\ call.left \in Nat \ {0}
  BY DEF IInv, CallInv, AtWork
<1>2. PICK lba, count : lba = Lba /\ count = SectorsToWrite
  OBVIOUS
<1>3. lba \in Nat /\ count \in Nat /\ lba + count <= Sectors
  BY <1>1, <1>2, PieceShape, WrittenSectors DEF Complete, PieceWrite
<1>4. PICK first, length : first = lba * SectorSize /\ length = count * SectorSize
  OBVIOUS
<1>5. first \in Nat /\ length \in Nat /\ \A x \in 0 .. length - 1 : first + x \in Byte
  BY <1>3, <1>4, CommandOnDisk
<1>6. length <= PageSize /\ PageSize \in Nat
  <2>1. PICK top : top = LastSector * SectorSize + SectorSize
    OBVIOUS
  <2>2. length <= top /\ top <= PageSize
    BY <1>1, <1>2, <1>4, <2>1, WrittenSectors
  <2>3. top \in Int
    BY <1>1, <2>1, WrittenSectors, Geometry
  <2>4. QED BY <1>5, <2>2, <2>3, Geometry
<1>7. /\ disk' = [b \in Byte |-> IF b \in first .. first + length - 1
                                 THEN page[0 + b - first] ELSE disk[b]]
      /\ page' = page
  BY <1>2, <1>4 DEF Complete, PieceWrite
<1>8. \A b \in Byte : b \in Int
  BY DEF Byte
<1>9. \A b \in Byte : disk'[b] \in Value
  <2> TAKE b \in Byte
  <2>1. CASE b \in first .. first + length - 1
    <3>1. 0 + b - first \in 0 .. PageSize - 1
      BY <1>5, <1>6, <1>8, <2>1
    <3>2. QED BY <1>7, <2>1, <3>1 DEF Typed
  <2>2. CASE b \notin first .. first + length - 1
    BY <1>7, <2>2 DEF Typed
  <2>3. QED BY <2>1, <2>2
<1>10. disk' \in [Byte -> Value]
  BY <1>7, <1>9
<1>11. \A x \in 0 .. length - 1 : first + x \in Byte /\ disk'[first + x] = page[x]
  <2> TAKE x \in 0 .. length - 1
  <2>1. first + x \in Byte /\ first + x \in first .. first + length - 1
    BY <1>5
  <2>2. 0 + (first + x) - first = x
    BY <1>5
  <2>3. QED BY <1>7, <2>1, <2>2
<1>12. QED BY <1>2, <1>4, <1>7, <1>10, <1>11

\* The read of a piece brings its sectors into the page.
LEMMA PieceToPage ==
    ASSUME IInv, TInv, NEW s \in Slot, Complete(s), issued[s] = PieceRead, pc = "reading"
    PROVE  \A x \in 0 .. SectorsToRead * SectorSize - 1 : page'[x] = disk[Lba * SectorSize + x]
<1>1. pos \in Nat /\ call.left \in Nat \ {0}
  BY DEF IInv, CallInv, AtWork
<1>2. PICK lba, count : lba = Lba /\ count = SectorsToRead
  OBVIOUS
<1>3. count \in Nat /\ count * SectorSize <= PageSize
  <2>1. /\ call.start \in Nat /\ call.asked \in Nat /\ call.start <= pos
        /\ pos + call.left = call.start + call.asked
    BY DEF IInv, CallInv, AtWork
  <2>2. pos = call.start \/ Within = 0
    BY DEF TInv, PlaceInv, AtWork
  <2>3. QED BY <1>1, <1>2, <2>1, <2>2, PieceRetrieved
<1>4. lba \in Nat /\ lba + count <= Sectors
  BY <1>1, <1>2, PieceShape DEF Complete, PieceRead
<1>5. PICK first, length : first = lba * SectorSize /\ length = count * SectorSize
  OBVIOUS
<1>6. first \in Nat /\ length \in Nat /\ length <= PageSize /\ PageSize \in Nat
  BY <1>3, <1>4, <1>5, CommandOnDisk, Geometry
<1>7. page' = [i \in DOMAIN page |->
                  IF i \in 0 .. 0 + length - 1 THEN disk[first + i - 0] ELSE page[i]]
  BY <1>2, <1>5 DEF Complete, PieceRead
<1>8. DOMAIN page = 0 .. PageSize - 1
  BY DEF TInv, Typed
<1>9. \A x \in 0 .. length - 1 : page'[x] = disk[first + x]
  <2> TAKE x \in 0 .. length - 1
  <2>1. x \in DOMAIN page /\ x \in 0 .. 0 + length - 1 /\ first + x - 0 = first + x
    BY <1>6, <1>8
  <2>2. QED BY <1>7, <2>1
<1>10. QED BY <1>2, <1>5, <1>9

\* The sectors written hold the bytes of the piece, but for one that nothing is claimed of.
LEMMA PieceLands ==
    ASSUME IInv, TInv, pc = "writing", UNCHANGED <<pos, call>>,
           \A x \in 0 .. SectorsToWrite * SectorSize - 1 :
              disk'[Lba * SectorSize + x] = page[x]
    PROVE  OnDisk(pos, pos + Payload - 1)'
<1>1. /\ pos \in Nat /\ call.left \in Nat \ {0} /\ call.start \in Nat /\ call.asked \in Nat
      /\ call.start <= pos /\ pos + call.left = call.start + call.asked
  BY DEF IInv, CallInv, AtWork
<1>2. Unwritten' = Unwritten /\ Payload' = Payload
  BY CallStays
<1>3. PICK base, top : base = Lba * SectorSize /\ top = SectorsToWrite * SectorSize
  OBVIOUS
<1>4. /\ base \in Nat /\ pos = base + Within /\ base + LastOffset = pos + Payload - 1
      /\ Within \in Nat /\ LastOffset \in Nat /\ Payload \in 1 .. call.left /\ top \in Int
  <2>1. Lba \in Nat /\ SectorSize \in Nat /\ PageSize \in Nat
    BY <1>1, PieceShape, Geometry
  <2>2. base \in Nat /\ top \in Int
    BY <1>1, <1>3, <2>1, WrittenSectors
  <2>3. Within \in Nat /\ LastOffset \in Within .. PageSize - 1
    BY <1>1, PieceShape, Geometry
  <2>4. QED BY <1>1, <1>3, <2>1, <2>2, <2>3, PieceShape
<1>5. SUFFICES ASSUME NEW b \in pos .. pos + Payload - 1, b \notin Unwritten
               PROVE  disk'[b] = <<b, call.version>>
  BY <1>2 DEF OnDisk
<1>6. PICK i : i = b - base
  OBVIOUS
<1>7. i \in Within .. LastOffset /\ b = base + i
  BY <1>1, <1>4, <1>6
<1>8. CASE i < top
  <2>1. i \in 0 .. top - 1
    BY <1>4, <1>7, <1>8
  <2>2. disk'[base + i] = page[i]
    BY <1>3, <2>1
  <2>3. page[i] = <<base + i, call.version>>
    BY <1>3, <1>7 DEF TInv, WriteInv
  <2>4. QED BY <1>7, <2>2, <2>3
<1>9. CASE i = LastOffset /\ Payload = call.left /\ (base + i) % SectorSize = 0
  <2>1. b = call.start + call.asked - 1
    BY <1>1, <1>4, <1>7, <1>9
  <2>2. b \in CallRange
    BY <1>1, <1>4, <1>5, <2>1 DEF CallRange
  <2>3. b \in Unwritten
    BY <1>7, <1>9, <2>1, <2>2 DEF Unwritten
  <2>4. QED BY <1>5, <2>3
<1>10. QED BY <1>1, <1>3, <1>7, <1>8, <1>9, PieceCovered

\* Those of the pieces before stay on the disk.
LEMMA EarlierKept ==
    ASSUME IInv, TInv, pc = "writing", UNCHANGED <<pos, call>>,
           \A b \in Byte : disk'[b] # disk[b] =>
              b \in Lba * SectorSize + Within .. Lba * SectorSize + LastOffset
    PROVE  OnDisk(call.start, pos - 1)'
<1>1. /\ pos \in Nat /\ call.left \in Nat \ {0} /\ call.start \in Nat /\ call.asked \in Nat
      /\ call.start <= pos /\ pos + call.left = call.start + call.asked /\ call.op = "write"
  BY DEF IInv, CallInv, AtWork
<1>2. Unwritten' = Unwritten
  BY CallStays
<1>3. SUFFICES ASSUME NEW b \in call.start .. pos - 1, b \notin Unwritten
               PROVE  disk'[b] = <<b, call.version>>
  BY <1>2 DEF OnDisk
<1>4. disk[b] = <<b, call.version>>
  BY <1>1, <1>3 DEF TInv, WriteInv, OnDisk, Called, AtWork
<1>5. b \in Byte
  <2>1. call.start + call.asked <= Size
    BY DEF TInv, PlaceInv, Called, AtWork
  <2>2. b \in 0 .. Size - 1
    BY <1>1, <1>3, <2>1, Geometry
  <2>3. QED BY <2>2 DEF Byte
<1>6. PICK base : base = Lba * SectorSize
  OBVIOUS
<1>7. pos = base + Within /\ base \in Nat /\ Within \in Nat /\ LastOffset \in Int
  <2>1. Lba \in Nat /\ SectorSize \in Nat /\ PageSize \in Nat
    BY <1>1, PieceShape, Geometry
  <2>2. QED BY <1>1, <1>6, <2>1, PieceShape, Geometry
<1>8. b \notin base + Within .. base + LastOffset
  BY <1>1, <1>3, <1>7
<1>9. QED BY <1>4, <1>5, <1>6, <1>8

\* A completed command keeps the invariant.
LEMMA CompleteTInv ==
    ASSUME IInv, TInv, NEW s \in Slot, Complete(s)
    PROVE  TInv'
<1>1. /\ UNCHANGED <<pos, call, pc, got>>
      /\ issued' = [issued EXCEPT ![s] = Idle] /\ issued[s] # Idle
  BY DEF Complete
<1>2. pc \in {"reading", "first", "preparing", "writing"}
  BY <1>1 DEF IInv, SlotsInv, CallInv, AtWork
<1>3. /\ pos \in Nat /\ call.left \in Nat \ {0} /\ call.start \in Nat /\ call.asked \in Nat
      /\ call.start <= pos /\ pos + call.left = call.start + call.asked
      /\ call.op = IF pc = "reading" THEN "read" ELSE "write"
  BY <1>2 DEF IInv, CallInv, AtWork
<1>4. /\ SurelyRead' = SurelyRead /\ Unwritten' = Unwritten /\ Within' = Within
      /\ LastOffset' = LastOffset /\ Lba' = Lba /\ PieceWrite' = PieceWrite
      /\ PieceRead' = PieceRead /\ SectorsToRead' = SectorsToRead /\ Payload' = Payload
  BY <1>1, CallStays, PieceStays
<1>5. PlaceInv'
  BY <1>1, <1>4 DEF TInv, PlaceInv
<1>6. issued[s] \in Command /\ issued \in [Slot -> Command \cup {Idle}]
  BY <1>1 DEF IInv, SlotsInv
<1>7. CASE pc = "reading"
  <2>1. issued[s] = PieceRead
    BY <1>1, <1>7 DEF TInv, ReadInv
  <2>2. issued[s].kind = "read"
    BY <2>1 DEF PieceRead
  <2>3. Typed' /\ disk' = disk
    BY <1>6, <2>2, ReadTyped DEF TInv, Complete
  <2>4. \A i \in 0 .. SectorsToRead * SectorSize - 1 : page'[i] = disk[Lba * SectorSize + i]
    BY <1>7, <2>1, PieceToPage
  <2>5. \A t \in Slot : issued'[t] \in {Idle, PieceRead}
    BY <1>1, <1>6, <1>7 DEF TInv, ReadInv
  <2>6. Len(got) = pos - call.start
        /\ \A i \in 1 .. Len(got) : i <= SurelyRead => got[i] = disk[call.start + i - 1]
    BY <1>3, <1>7 DEF TInv, ReadInv, Called, AtWork
  <2>7. ReadInv'
    BY <1>1, <1>4, <2>3, <2>4, <2>5, <2>6 DEF ReadInv
  <2>8. WriteInv'
    BY <1>1, <1>3, <1>7 DEF WriteInv
  <2>9. QED BY <1>5, <2>3, <2>7, <2>8 DEF TInv
<1>8. CASE pc \in {"first", "preparing"}
  <2>1. issued[s].kind = "read"
    BY <1>1, <1>3, <1>8, PieceCommands DEF IInv, SlotsInv
  <2>2. Typed' /\ disk' = disk
    BY <1>6, <2>1, ReadTyped DEF TInv, Complete
  <2>3. ReadInv'
    BY <1>1, <1>3, <1>8 DEF ReadInv
  <2>4. WriteInv'
    BY <1>1, <1>4, <1>8, <2>2 DEF TInv, WriteInv, OnDisk
  <2>5. QED BY <1>5, <2>2, <2>3, <2>4 DEF TInv
<1>9. CASE pc = "writing"
  <2>1. issued[s] = PieceWrite
    BY <1>1, <1>9 DEF IInv, SlotsInv
  <2>2. /\ disk' \in [Byte -> Value] /\ page' = page
        /\ \A x \in 0 .. SectorsToWrite * SectorSize - 1 :
              Lba * SectorSize + x \in Byte /\ disk'[Lba * SectorSize + x] = page[x]
    BY <1>9, <2>1, PieceToDisk DEF TInv
  <2>3. Typed'
    BY <1>1, <2>2 DEF TInv, Typed
  <2>4. ReadInv'
    BY <1>1, <1>3, <1>9 DEF ReadInv
  <2>5. OnDisk(pos, pos + Payload - 1)'
    BY <1>1, <1>9, <2>2, PieceLands
  <2>6. OnDisk(call.start, pos - 1)'
    BY <1>1, <1>9, PieceWritten, EarlierKept
  <2>7. \A i \in Within .. LastOffset : page'[i] = <<Lba * SectorSize + i, call.version>>
    BY <1>9, <2>2 DEF TInv, WriteInv
  <2>8. WriteInv'
    BY <1>1, <1>4, <2>5, <2>6, <2>7 DEF WriteInv
  <2>9. QED BY <1>5, <2>3, <2>4, <2>8 DEF TInv
<1>10. QED BY <1>2, <1>7, <1>8, <1>9

\* A write of no sectors keeps it, too: the byte that it may not get to the disk is the one
\* that nothing is claimed of.
LEMMA OverrunTInv ==
    ASSUME IInv, TInv, NEW s \in Slot, Overrun(s)
    PROVE  TInv'
<1>1. /\ pc = "writing" /\ issued[s] = PieceWrite /\ SectorsToWrite = 0
      /\ UNCHANGED <<pos, call, pc, page, got, prdt, awaited>>
      /\ issued' = issued \/ issued' = [issued EXCEPT ![s] = Idle]
  BY OverrunShape
<1>2. pos \in Nat /\ call.left \in Nat \ {0} /\ call.op = "write"
  BY <1>1 DEF IInv, CallInv, AtWork
<1>3. /\ SurelyRead' = SurelyRead /\ Unwritten' = Unwritten /\ Within' = Within
      /\ LastOffset' = LastOffset /\ Lba' = Lba /\ PieceWrite' = PieceWrite
      /\ Payload' = Payload
  BY <1>1, CallStays, PieceStays
<1>4. Typed'
  <2> DEFINE base == Lba * SectorSize
  <2>1. PICK n \in {0, 1} :
           disk' = [b \in Byte |-> IF b \in base .. base + n * SectorSize - 1
                                   THEN page[0 + (b - base)] ELSE disk[b]]
    BY OverrunShape
  <2>2. PICK ss : ss = SectorSize /\ ss \in Nat
    BY Geometry
  <2>3. base \in Nat /\ n * ss <= PageSize /\ n * ss \in Nat /\ PageSize \in Nat
    <3>1. Lba \in Nat
      BY <1>2, PieceShape
    <3>2. ss <= PageSize /\ PageSize \in Nat
      BY <2>2, Geometry, Multiples
    <3>3. n * ss \in {0, ss}
      BY <2>1, <2>2
    <3>4. QED BY <2>2, <3>1, <3>2, <3>3
  <2> HIDE DEF base
  <2>4. \A b \in Byte : disk'[b] \in Value
    <3> TAKE b \in Byte
    <3>1. CASE b \in base .. base + n * ss - 1
      <4>1. 0 + (b - base) \in 0 .. PageSize - 1
        BY <2>3, <3>1
      <4>2. QED BY <2>1, <2>2, <3>1, <4>1 DEF TInv, Typed
    <3>2. CASE b \notin base .. base + n * ss - 1
      BY <2>1, <2>2, <3>2 DEF TInv, Typed
    <3>3. QED BY <3>1, <3>2
  <2>5. disk' \in [Byte -> Value]
    BY <2>1, <2>4
  <2>6. QED BY <1>1, <2>5 DEF TInv, Typed
<1>5. PlaceInv'
  BY <1>1, <1>3 DEF TInv, PlaceInv
<1>6. ReadInv'
  BY <1>1, <1>2 DEF ReadInv
<1>7. OnDisk(pos, pos + Payload - 1)'
  <2>1. 0 .. SectorsToWrite * SectorSize - 1 = {}
    BY <1>1, Geometry
  <2>2. QED BY <1>1, <2>1, PieceLands
<1>8. OnDisk(call.start, pos - 1)'
  BY <1>1, SectorOverrun, EarlierKept
<1>9. \A i \in Within .. LastOffset : page'[i] = <<Lba * SectorSize + i, call.version>>
  BY <1>1 DEF TInv, WriteInv
<1>10. WriteInv'
  BY <1>1, <1>3, <1>7, <1>8, <1>9 DEF WriteInv
<1>11. QED BY <1>4, <1>5, <1>6, <1>10 DEF TInv

--------------------------------------------------------------------------------
(* The end of a piece *)

\* What the end of a piece does to the place, and where the next one begins.
LEMMA FinishPlace ==
    ASSUME IInv, TInv, pc \in {"reading", "writing"}, Finish
    PROVE  /\ PlaceInv'
           /\ pc' \in {"returned", "read", "write"}
           /\ pos' = pos + Payload /\ page' = Fresh
           /\ call'.op = call.op /\ call'.start = call.start /\ call'.asked = call.asked
           /\ call'.version = call.version
           /\ SurelyRead' = SurelyRead /\ Unwritten' = Unwritten
<1>1. /\ pos \in Nat /\ call.left \in Nat \ {0} /\ call.start \in Nat /\ call.asked \in Nat
      /\ call.start <= pos /\ pos + call.left = call.start + call.asked
      /\ call.op = IF pc = "reading" THEN "read" ELSE "write"
  BY DEF IInv, CallInv, AtWork
<1>2. Payload \in 1 .. call.left
  BY <1>1, PieceShape
<1>3. /\ pos' = pos + Payload /\ page' = Fresh
      /\ call' = [call EXCEPT !.left = call.left - Payload]
      /\ pc' = IF Payload = call.left THEN "returned" ELSE call.op
  BY DEF Finish, NewPage, Left
<1>4. /\ call'.op = call.op /\ call'.start = call.start /\ call'.asked = call.asked
      /\ call'.version = call.version
  BY <1>3
<1>5. SurelyRead' = SurelyRead /\ Unwritten' = Unwritten
  BY <1>4 DEF SurelyRead, Unwritten, CallRange
<1>6. PlaceInv'
  <2>1. /\ call.start \in Nat /\ call.asked \in Nat \ {0} /\ call.start + call.asked <= Size
        /\ call.op \in {"read", "write"}
    BY DEF TInv, PlaceInv, Called, AtWork
  <2>2. CASE Payload = call.left
    <3>1. pc' = "returned" /\ pos' = call.start + call.asked
      BY <1>1, <1>3, <2>2
    <3>2. QED BY <1>4, <2>1, <3>1 DEF PlaceInv, Called, AtWork
  <2>3. CASE Payload # call.left
    <3>1. pc' \in {"read", "write"}
      BY <1>3, <2>1, <2>3
    <3>2. Within' = 0
      BY <1>1, <1>3, <2>3, PieceEnds DEF Within
    <3>3. QED BY <1>4, <2>1, <3>1, <3>2 DEF PlaceInv, Called, AtWork
  <2>4. QED BY <2>2, <2>3
<1>7. pc' \in {"returned", "read", "write"}
  BY <1>1, <1>3
<1>8. QED BY <1>3, <1>4, <1>5, <1>6, <1>7

\* The bytes copied out of the page are those that follow on the disk.
LEMMA CopyOutTInv ==
    ASSUME IInv, TInv, CopyOut
    PROVE  TInv'
<1>1. /\ pc = "reading" /\ Completed /\ Finish /\ disk' = disk
      /\ got' = got \o [i \in 1 .. Payload |-> page[Within + i - 1]]
  BY DEF CopyOut
<1>2. /\ PlaceInv'
      /\ pc' \in {"returned", "read", "write"}
      /\ pos' = pos + Payload /\ page' = Fresh
      /\ call'.op = call.op /\ call'.start = call.start /\ call'.asked = call.asked
      /\ call'.version = call.version
      /\ SurelyRead' = SurelyRead
  BY <1>1, FinishPlace
<1>3. /\ pos \in Nat /\ call.left \in Nat \ {0} /\ call.start \in Nat /\ call.asked \in Nat
      /\ call.start <= pos /\ pos + call.left = call.start + call.asked /\ call.op = "read"
  BY <1>1 DEF IInv, CallInv, AtWork
<1>4. PICK base, w, n : base = Lba * SectorSize /\ w = Within /\ n = Payload
  OBVIOUS
<1>5. /\ base \in Nat /\ w \in Nat /\ n \in Nat \ {0} /\ pos = base + w
      /\ n <= PageSize - w /\ PageSize \in Nat
  <2>1. Lba \in Nat /\ SectorSize \in Nat
    BY <1>3, PieceShape, Geometry
  <2>2. base \in Nat
    BY <1>4, <2>1
  <2>3. QED BY <1>3, <1>4, <2>2, PieceShape, Geometry
<1>6. PICK more : more = [i \in 1 .. n |-> page[w + i - 1]]
  OBVIOUS
<1>7. \A i \in 1 .. n : w + i - 1 \in 0 .. PageSize - 1
  BY <1>5
<1>8. more \in Seq(Value) /\ Len(more) = n /\ \A i \in 1 .. n : more[i] = page[w + i - 1]
  <2>1. \A i \in 1 .. n : page[w + i - 1] \in Value
    BY <1>7 DEF TInv, Typed
  <2>2. QED BY <1>5, <1>6, <2>1
<1>9. got \in Seq(Value) /\ got' = got \o more
  BY <1>1, <1>4, <1>6 DEF TInv, Typed
<1>10. /\ got' \in Seq(Value) /\ Len(got') = Len(got) + n
       /\ \A j \in 1 .. Len(got) : got'[j] = got[j]
       /\ \A i \in 1 .. n : got'[Len(got) + i] = more[i]
  <2>1. PICK V, s, u : V = Value /\ s = got /\ u = got'
    OBVIOUS
  <2>2. /\ s \in Seq(V) /\ more \in Seq(V)
        /\ Len(more) = n /\ u = s \o more
    BY <1>8, <1>9, <2>1
  <2>3. s \o more \in Seq(V) /\ Len(s \o more) = Len(s) + Len(more)
    <3>1. s \in Seq(V) /\ more \in Seq(V)
      BY <2>2
    <3>2. s \o more \in Seq(V)
      BY ONLY <3>1
    <3>3. Len(s \o more) = Len(s) + Len(more)
      BY ONLY <3>1
    <3>4. QED BY <3>2, <3>3
  <2>4. \A j \in 1 .. Len(s) : (s \o more)[j] = s[j]
    BY ONLY <2>2
  <2>5. \A i \in 1 .. Len(more) : (s \o more)[Len(s) + i] = more[i]
    BY ONLY <2>2
  <2>6. QED BY <2>1, <2>2, <2>3, <2>4, <2>5
<1>11. /\ Len(got) = pos - call.start
       /\ \A i \in 1 .. Len(got) : i <= SurelyRead => got[i] = disk[call.start + i - 1]
  BY <1>1, <1>3 DEF TInv, ReadInv, Called, AtWork
<1>12. \A i \in 1 .. n :
          Len(got) + i <= SurelyRead => more[i] = disk[call.start + (Len(got) + i) - 1]
  <2> SUFFICES ASSUME NEW i \in 1 .. n, Len(got) + i <= SurelyRead
               PROVE  more[i] = disk[call.start + (Len(got) + i) - 1]
    OBVIOUS
  <2>1. PICK top : top = SectorsToRead * SectorSize
    OBVIOUS
  <2>2. pos = call.start \/ Within = 0
    BY <1>1 DEF TInv, PlaceInv, AtWork
  <2>3. w + i - 1 < top /\ top \in Int
    <3>1. pos - call.start + i <= SurelyRead
      BY <1>11
    <3>2. w + i - 1 < top /\ SectorsToRead \in Nat
      BY <1>3, <1>4, <2>1, <2>2, <3>1, PieceRetrieved
    <3>3. QED BY <2>1, <3>2, Geometry
  <2>4. \A x \in 0 .. top - 1 : page[x] = disk[base + x]
    <3>1. \A s \in Slot : issued[s] = Idle
      BY <1>1, AllIdle DEF IInv
    <3>2. QED BY <1>1, <1>4, <2>1, <3>1 DEF TInv, ReadInv
  <2>5. w + i - 1 \in 0 .. top - 1
    BY <1>5, <2>3
  <2>6. more[i] = disk[base + (w + i - 1)]
    BY <1>8, <2>4, <2>5
  <2>7. base + (w + i - 1) = call.start + (Len(got) + i) - 1
    <3>1. PICK l, p, c : l = Len(got) /\ p = pos /\ c = call.start
      OBVIOUS
    <3>2. l = p - c /\ p = base + w /\ base \in Nat /\ w \in Nat /\ c \in Nat /\ i \in Nat
      BY <1>3, <1>5, <1>11, <3>1
    <3>3. base + (w + i - 1) = c + (l + i) - 1
      BY ONLY <3>2
    <3>4. QED BY <3>1, <3>3
  <2>8. QED BY <2>6, <2>7
<1>13. ReadInv'
  <2>1. Len(got') = pos' - call'.start
    <3>1. PICK l, p, c : l = Len(got) /\ p = pos /\ c = call.start
      OBVIOUS
    <3>2. Len(got') = l + n /\ pos' = p + n /\ call'.start = c
      BY <1>2, <1>4, <1>10, <3>1
    <3>3. l = p - c /\ p \in Nat /\ c \in Nat /\ n \in Nat
      BY <1>3, <1>5, <1>11, <3>1
    <3>4. l + n = (p + n) - c
      BY ONLY <3>3
    <3>5. QED BY <3>2, <3>4
  <2>2. \A j \in 1 .. Len(got') : j <= SurelyRead => got'[j] = disk[call.start + j - 1]
    <3> SUFFICES ASSUME NEW j \in 1 .. Len(got'), j <= SurelyRead
                 PROVE  got'[j] = disk[call.start + j - 1]
      OBVIOUS
    <3>1. CASE j <= Len(got)
      BY <1>10, <1>11, <3>1
    <3>2. CASE ~(j <= Len(got))
      <4>1. Len(got) \in Nat
        BY <1>9
      <4>2. PICK i : i = j - Len(got)
        OBVIOUS
      <4>3. i \in 1 .. n /\ j = Len(got) + i
        BY <1>5, <1>10, <3>2, <4>1, <4>2
      <4>4. QED BY <1>10, <1>12, <4>3
    <3>3. QED BY <3>1, <3>2
  <2>3. pc' # "reading"
    BY <1>2
  <2>4. QED BY <1>1, <1>2, <2>1, <2>2, <2>3 DEF ReadInv
<1>14. Typed'
  <2>1. call.version \in Version
    BY <1>1 DEF TInv, Typed, Called, AtWork
  <2>2. QED BY <1>1, <1>2, <1>10, <2>1, FreshTyped DEF TInv, Typed
<1>15. WriteInv'
  BY <1>2, <1>3 DEF WriteInv
<1>16. QED BY <1>2, <1>13, <1>14, <1>15 DEF TInv

\* When the write of a piece is through, the disk has the bytes up to the next piece.
LEMMA EndWriteTInv ==
    ASSUME IInv, TInv, EndWrite
    PROVE  TInv'
<1>1. pc = "writing" /\ Completed /\ Finish /\ disk' = disk /\ got' = got
  BY DEF EndWrite
<1>2. /\ PlaceInv'
      /\ pc' \in {"returned", "read", "write"}
      /\ pos' = pos + Payload /\ page' = Fresh
      /\ call'.op = call.op /\ call'.start = call.start /\ call'.asked = call.asked
      /\ call'.version = call.version
      /\ Unwritten' = Unwritten
  BY <1>1, FinishPlace
<1>3. /\ pos \in Nat /\ call.left \in Nat \ {0} /\ call.start \in Nat /\ call.op = "write"
      /\ call.start <= pos
  BY <1>1 DEF IInv, CallInv, AtWork
<1>4. Payload \in Nat
  BY <1>3, PieceShape
<1>5. OnDisk(pos, pos + Payload - 1) /\ OnDisk(call.start, pos - 1)
  <2>1. \A s \in Slot : issued[s] = Idle
    BY <1>1, AllIdle DEF IInv
  <2>2. PieceWrite # Idle
    BY <1>3, PieceCommands
  <2>3. QED BY <1>1, <1>3, <2>1, <2>2 DEF TInv, WriteInv, Called, AtWork
<1>6. OnDisk(call.start, pos + Payload - 1)
  <2>1. \A b \in call.start .. pos + Payload - 1 :
           b \in call.start .. pos - 1 \/ b \in pos .. pos + Payload - 1
    BY <1>3, <1>4
  <2>2. QED BY <1>5, <2>1 DEF OnDisk
<1>7. WriteInv'
  <2>1. ASSUME NEW b \in call'.start .. pos' - 1, b \notin Unwritten'
        PROVE  disk'[b] = <<b, call'.version>>
    <3>1. b \in call.start .. pos + Payload - 1
      <4>1. PICK low, high : low = call'.start /\ high = pos' - 1
        OBVIOUS
      <4>2. low = call.start /\ high = pos + Payload - 1
        BY <1>2, <1>3, <1>4, <4>1
      <4>3. b \in low .. high
        BY <2>1, <4>1
      <4>4. QED BY <4>2, <4>3
    <3> b \notin Unwritten
      <4>1. Unwritten' = Unwritten
        BY <1>2
      <4>2. QED BY <2>1, <4>1, Zenon
    <3>2. disk[b] = <<b, call.version>>
      BY <1>6, <3>1 DEF OnDisk
    <3>3. QED BY <1>1, <1>2, <3>2
  <2>2. OnDisk(call.start, pos - 1)'
    BY <2>1 DEF OnDisk
  <2>3. QED BY <1>2, <2>2 DEF WriteInv
<1>8. Typed'
  <2>1. call.version \in Version
    BY <1>1 DEF TInv, Typed, Called, AtWork
  <2>2. QED BY <1>1, <1>2, <2>1, FreshTyped DEF TInv, Typed
<1>9. ReadInv'
  BY <1>2, <1>3 DEF ReadInv
<1>10. QED BY <1>2, <1>7, <1>8, <1>9 DEF TInv

\* Every step keeps the invariant.
LEMMA NextTInv == IInv /\ TInv /\ [Next]_vars => TInv'
<1> SUFFICES ASSUME IInv, TInv, [Next]_vars PROVE TInv'
  OBVIOUS
<1>1. CASE UNCHANGED vars
  <2>1. UNCHANGED <<disk, pos, call, pc, page, got, issued>>
    BY <1>1 DEF vars
  <2>2. Typed' /\ PlaceInv'
    BY <2>1, PieceStays DEF TInv, Typed, PlaceInv
  <2>3. ReadInv' /\ WriteInv'
    BY <2>1, PieceStays, CallStays DEF TInv, ReadInv, WriteInv, OnDisk
  <2>4. QED BY <2>2, <2>3 DEF TInv
<1>2. ASSUME \/ \E off \in -1 .. Size + 1, whence \in {"SET", "CUR", "END"} : Seek(off, whence)
             \/ \E n \in 1 .. Size, v \in Version : Call("write", n, v)
             \/ \E n \in 1 .. Size : Call("read", n, 0)
      PROVE  TInv'
  BY <1>2, BeginTInv
<1>3. CASE StartRead
  BY <1>3, StartReadTInv
<1>4. CASE CopyOut
  BY <1>4, CopyOutTInv
<1>5. CASE StartFirst \/ StartLast
  BY <1>5, StartWriteTInv
<1>6. CASE CopyIn
  BY <1>6, CopyInTInv
<1>7. CASE EndWrite
  BY <1>7, EndWriteTInv
<1>8. CASE Return
  BY <1>8, ReturnTInv
<1>9. ASSUME NEW s \in Slot, Complete(s) PROVE TInv'
  BY <1>9, CompleteTInv
<1>10. ASSUME NEW s \in Slot, Overrun(s) PROVE TInv'
  BY <1>10, OverrunTInv
<1>11. QED
  BY <1>1, <1>2, <1>3, <1>4, <1>5, <1>6, <1>7, <1>8, <1>9, <1>10 DEF Next, Caller, Poll

\* A call that returns has moved pos past its bytes; a read got what is on the disk there,
\* as far as the sectors its length fills go, and a write put its bytes there, all but a
\* last one that begins a sector.  So it is for any geometry of the disk, any number of
\* pieces, and whatever order the controller completes the commands in.
THEOREM TransfersCorrect == Spec => []TransfersRight
<1>1. Init => IInv /\ TInv
  BY InitIInv, InitTInv
<1>2. IInv /\ TInv /\ [Next]_vars => (IInv /\ TInv)'
  BY NextIInv, NextTInv
<1>3. IInv /\ TInv => TransfersRight
  <2> SUFFICES ASSUME TInv, pc = "returned"
               PROVE  /\ pos = call.start + call.asked
                      /\ call.op = "read" =>
                            /\ Len(got) = call.asked
                            /\ \A i \in 1 .. SurelyRead : got[i] = disk[call.start + i - 1]
                      /\ call.op = "write" =>
                            \A b \in CallRange \ Unwritten : disk[b] = <<b, call.version>>
    BY DEF TransfersRight
  <2>1. pos = call.start + call.asked /\ call.start \in Nat /\ call.asked \in Nat
    BY DEF TInv, PlaceInv, Called
  <2>2. ASSUME call.op = "read"
        PROVE  Len(got) = call.asked
               /\ \A i \in 1 .. SurelyRead : got[i] = disk[call.start + i - 1]
    <3>1. /\ Len(got) = pos - call.start
          /\ \A i \in 1 .. Len(got) : i <= SurelyRead => got[i] = disk[call.start + i - 1]
      BY <2>2 DEF TInv, ReadInv, Called
    <3>2. Len(got) = call.asked
      BY <2>1, <3>1
    <3>3. SurelyRead \in Int /\ SurelyRead <= call.asked
      <4>1. PICK k, w : /\ k = ((call.asked + SectorSize - 1) \div SectorSize) * SectorSize
                        /\ w = call.start % SectorSize
        OBVIOUS
      <4>2. k \in Int
        <5>1. (call.asked + SectorSize - 1) \div SectorSize \in Nat
          BY <2>1, Geometry, RoundUp
        <5>2. QED BY <4>1, <5>1, Geometry
      <4>3. w \in Int
        BY <2>1, <4>1, Geometry, DivMod
      <4>4. SurelyRead = IF call.asked >= PageSize THEN call.asked
                         ELSE IF call.asked < k - w THEN call.asked ELSE k - w
        BY <4>1 DEF SurelyRead, Min2
      <4>5. QED BY <2>1, <4>2, <4>3, <4>4
    <3>4. QED BY <2>1, <3>1, <3>2, <3>3
  <2>3. ASSUME call.op = "write"
        PROVE  \A b \in CallRange \ Unwritten : disk[b] = <<b, call.version>>
    <3>1. OnDisk(call.start, pos - 1)
      BY <2>3 DEF TInv, WriteInv, Called
    <3>2. QED BY <2>1, <3>1 DEF OnDisk, CallRange
  <2>4. QED BY <2>1, <2>2, <2>3
<1>4. QED BY <1>1, <1>2, <1>3, PTL DEF Spec

================================================================================
