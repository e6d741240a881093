-------------------------------- MODULE FatLock --------------------------------
(***************************************************************************)
(* The lock of a mounted FAT file system (drivers/fat/fat_fs.cc) among     *)
(* system calls that are preempted (module Dispatch): acquire_lock(), the  *)
(* token it returns, whose destructor gives the lock back                  *)
(* (drivers/fat/fat.hh), and three kinds of operations made under it, on   *)
(* the one file handle fh that all files and iterators of the file system  *)
(* share:                                                                  *)
(*   walk    FAT_file's seek and write: the lock is taken once, and fh is  *)
(*           positioned and then read or written, more than once perhaps   *)
(*   read    FAT_file::read, which first calls seek(0, CUR), which takes   *)
(*           the lock too and has nothing to do                            *)
(*   search  FAT_dir_iterator's push, open_file and list, which call       *)
(*           themselves for the next cluster of a directory                *)
(* A system call may make several of them, one for each part of a path.    *)
(*                                                                         *)
(* A system call comes in with interrupts disabled, and acquire_lock()     *)
(* leaves them enabled: that is where preemption of system calls begins.   *)
(***************************************************************************)
EXTENDS Dispatch, FiniteSets

CONSTANT
    Operations  \* the operations made

ASSUME LockAssumption == Operations \subseteq {"walk", "read", "search"}

VARIABLES
    lock,       \* the member lock
    pc,         \* where each process is in an operation
    operation,  \* which operation that is
    nested,     \* it is in an operation called by the one it made
    head        \* the process that positioned fh last

lockVars == <<lock, pc, operation, nested, head>>

--------------------------------------------------------------------------------
(* acquire_lock() *)

At(place)   == InKernel /\ pc[current] = place
Goto(place) == pc' = [pc EXCEPT ![current] = place]

LockInit ==
    /\ Init
    /\ lock = FALSE
    /\ pc = [p \in Proc |-> "idle"]
    /\ operation = [p \in Proc |-> "walk"]
    /\ nested = [p \in Proc |-> FALSE]
    /\ head = Boot

Begin(o) ==
    /\ At("idle")
    /\ Goto("spin")
    /\ operation' = [operation EXCEPT ![current] = o]
    /\ UNCHANGED <<vars, lock, nested, head>>

\* while(lock) {}
Spin ==
    /\ At("spin") /\ ~lock
    /\ Goto("take")
    /\ UNCHANGED <<vars, lock, operation, nested, head>>

\* From disable() to enable() nothing comes between.
Take ==
    /\ At("take")
    /\ Goto(IF lock THEN "spin" ELSE "taken")
    /\ lock' = TRUE
    /\ cpu' = [cpu EXCEPT !.if = TRUE]
    /\ UNCHANGED <<current, context, stack, apic, halted, expired, report>>
    /\ UNCHANGED <<operation, nested, head>>

\* return retval: acquire_lock() has a second return statement, and retval is local
\* to a block, so that the compiler does not construct it in its caller's place.
\* The local token is destroyed after it was copied, which gives the lock back (in
\* the variant, the token is handed over as it is).
LockAfterReturnKept == lock
LockAfterReturn     == FALSE

Nest(yes) == nested' = [nested EXCEPT ![current] = yes]

GetToken ==
    /\ At("taken")
    /\ CASE operation[current] = "read" /\ ~nested[current] -> Goto("spin") /\ Nest(TRUE)
         [] operation[current] = "read" /\ nested[current] -> Goto("done") /\ UNCHANGED nested
         [] OTHER -> Goto("locked") /\ UNCHANGED nested
    /\ lock' = LockAfterReturn
    /\ UNCHANGED <<vars, operation, head>>

--------------------------------------------------------------------------------
(* Under the lock *)

Position ==
    /\ At("locked")
    /\ Goto("positioned")
    /\ head' = current
    /\ UNCHANGED <<vars, lock, operation, nested>>

Transfer ==
    /\ At("positioned")
    /\ \/ Goto("locked") /\ UNCHANGED nested
       \/ Goto("done") /\ UNCHANGED nested
       \/ /\ operation[current] = "search"
          /\ Goto("spin") /\ Nest(TRUE)
    /\ UNCHANGED <<vars, lock, operation, head>>

\* ~locktoken(), of the inner operation and then of the outer one, whatever the
\* lock is then.
Leave ==
    /\ At("done")
    /\ lock' = FALSE
    /\ Nest(FALSE)
    /\ Goto(CASE ~nested[current] -> "idle"
              [] nested[current] /\ operation[current] = "read" -> "locked"
              [] OTHER -> "done")
    /\ UNCHANGED <<vars, operation, head>>

Machine ==
    /\ \/ Compute \/ Expire \/ Interrupt \/ Yield \/ Syscall
       \/ At("idle") /\ Return
    /\ UNCHANGED lockVars

LockNext ==
    \/ \E o \in Operations : Begin(o)
    \/ Spin \/ Take \/ GetToken \/ Position \/ Transfer \/ Leave
    \/ Machine

LockSpec == LockInit /\ [][LockNext]_<<vars, lockVars>>

--------------------------------------------------------------------------------
(* Properties *)

\* No process waits for a lock that it holds itself: when one spins, the lock is in
\* the hands of another one that is just leaving acquire_lock().  The operations
\* that take the lock twice rely on that.
NoSelfDeadlock ==
    \A p \in Proc : lock /\ pc[p] = "spin" => \E q \in Proc \ {p} : pc[q] = "taken"

\* "We failed due to a race condition" (the comment in acquire_lock()): of two that
\* race for the lock one fails, so that fh is where an operation put it until
\* the operation used it.
PositionKept == \A p \in Proc : pc[p] = "positioned" => head = p

================================================================================
