---------------------------- MODULE DispatchProofs ----------------------------
(***************************************************************************)
(* Proofs about module Dispatch and about module FatLock, which extends    *)
(* it, for any number of processes.  Those about Dispatch rest on one      *)
(* inductive invariant, IInv: contexts are always complete and fit to be   *)
(* resumed, also those of the processes that do not run, and the timer is  *)
(* dead only while the process that runs was given a count of zero.        *)
(*                                                                         *)
(* That nobody waits for himself in FatLock rests on where the lock can be *)
(* while it is held (HolderInv): only between the taking and the return of *)
(* acquire_lock().  That preempted operations resume as they were left     *)
(* comes from the proofs about Dispatch, of whose machine FatLock is a     *)
(* part.                                                                   *)
(***************************************************************************)
EXTENDS FatLock, TLAPS

\* Every context holds the registers of its own process, and so does the processor.
RegistersInv ==
    /\ \A p \in Proc : context[p].low = p
    /\ current # Boot => cpu.low = current

\* Whatever is in user mode, running or not, has interrupts enabled, and the timer
\* counts or has its interrupt pending, unless its count is zero, with none in service.
TimerInv ==
    /\ current = Boot => cpu.mode = "kernel"
    /\ \A p \in Proc : context[p].mode = "user" => context[p].if
    /\ cpu.mode = "user" => cpu.if
    /\ ~apic.isr
    /\ apic.given => apic.running \/ apic.irr

\* System calls that leave interrupts disabled are never preempted.
AtomicInv ==
    /\ \A p \in Proc \ Enablers : stack[p] # "torn" /\ context[p].mode = "user"
    /\ cpu.mode = "kernel" /\ current \in Proc \ Enablers => ~cpu.if

\* An interrupt is pending from an earlier slice only if that slice ended with a
\* yield; before the first process runs, none was charged.
ChargeInv ==
    /\ apic.irr /\ ~expired => ~report.charged
    /\ current = Boot => ~report.charged

IInv == TypeOK /\ RegistersInv /\ TimerInv /\ AtomicInv /\ ChargeInv

--------------------------------------------------------------------------------
\* The command that follows any other is for one of the processes.
LEMMA NextIsProcess ==
    ASSUME NEW p \in Proc \cup {Boot}
    PROVE  NextToRun(p) \in Proc
BY DispatchAssumption, BootAssumption DEF NextToRun, Proc

\* The machine starts in a state of the invariant.
LEMMA InitIInv == Init => IInv
<1>1. SUFFICES ASSUME Init PROVE IInv
  OBVIOUS
<1>2. TypeOK
  <2>1. cpu \in Registers /\ context \in [Proc -> Registers]
    BY <1>1 DEF Init, Registers
  <2>2. \A p \in Proc : ModeOf(p) = "user" /\ stack[p] = "none"
    BY <1>1, BootAssumption DEF Init, ModeOf
  <2>3. QED BY <1>1, <2>1, <2>2 DEF Init, TypeOK
<1>3. RegistersInv
  BY <1>1 DEF Init, RegistersInv
<1>4. TimerInv
  BY <1>1 DEF Init, TimerInv
<1>5. AtomicInv
  BY <1>1, BootAssumption DEF Init, AtomicInv
<1>6. ChargeInv
  BY <1>1 DEF Init, ChargeInv
<1>7. QED BY <1>2, <1>3, <1>4, <1>5, <1>6 DEF IInv

--------------------------------------------------------------------------------
(* The context switch *)

\* Contexts stay complete, and each process keeps its own, through a switch.
LEMMA SwitchContexts ==
    ASSUME IInv, NEW byTimer \in BOOLEAN, Switch(byTimer)
    PROVE  /\ current' \in Proc
           /\ context' \in [Proc -> Registers]
           /\ cpu' \in Registers
           /\ cpu'.low = current'
           /\ cpu'.mode = context'[current'].mode
           /\ cpu'.if = context'[current'].if
           /\ \A p \in Proc : context'[p] = IF p = current THEN cpu ELSE context[p]
           /\ \A p \in Proc : context'[p].low = p
<1>1. current \in Proc \cup {Boot} /\ cpu \in Registers /\ context \in [Proc -> Registers]
  BY DEF IInv, TypeOK
<1>2. current' = NextToRun(current) /\ current' \in Proc
  BY <1>1, NextIsProcess DEF Switch
<1>3. /\ context' \in [Proc -> Registers]
      /\ \A p \in Proc : context'[p] = IF p = current THEN cpu ELSE context[p]
  <2>1. CASE current = Boot
    BY <2>1, <1>1, BootAssumption DEF Switch, Saved
  <2>2. CASE current # Boot
    BY <2>2, <1>1 DEF Switch, Saved
  <2>3. QED BY <2>1, <2>2
<1>4. \A p \in Proc : context'[p].low = p
  BY <1>3, BootAssumption DEF IInv, RegistersInv
<1>5. cpu' = [context'[current'] EXCEPT !.high = cpu.high]
  BY <1>2 DEF Switch, Loaded
<1>6. context'[current'] \in Registers
  BY <1>2, <1>3
<1>7. /\ cpu' \in Registers
      /\ cpu'.low = context'[current'].low
      /\ cpu'.mode = context'[current'].mode
      /\ cpu'.if = context'[current'].if
  BY <1>1, <1>5, <1>6 DEF Registers
<1>8. QED BY <1>2, <1>3, <1>4, <1>7

\* A switch leaves nothing in service and the timer running, unless by a count of zero.
LEMMA SwitchTimer ==
    ASSUME IInv, NEW byTimer \in BOOLEAN, Switch(byTimer)
    PROVE  /\ apic' \in [running : BOOLEAN, given : BOOLEAN, irr : BOOLEAN, isr : BOOLEAN]
           /\ apic'.given => apic'.running
           /\ apic'.isr = FALSE
           /\ apic'.irr = (apic.irr /\ ~byTimer)
<1>1. PICK slice \in Slices :
         apic' = [running |-> Restart(apic.running, slice),
                  given |-> InitialCount(slice) # 0,
                  irr |-> apic.irr /\ ~byTimer,
                  isr |-> Eoi(apic.isr \/ byTimer)]
  BY DEF Switch
<1>2. QED BY <1>1 DEF Restart, Eoi

\* What is on the stacks after a switch.
LEMMA SwitchStacks ==
    ASSUME IInv, NEW byTimer \in BOOLEAN, Switch(byTimer)
    PROVE  /\ stack' \in [Proc -> {"none", "frame", "torn"}]
           /\ \A p \in Proc : stack'[p] = IF p = current /\ cpu.mode # "user"
                                         THEN "torn" ELSE stack[p]
<1>1. stack \in [Proc -> {"none", "frame", "torn"}] /\ current \in Proc \cup {Boot}
  BY DEF IInv, TypeOK
<1>2. CASE current = Boot \/ cpu.mode = "user"
  BY <1>1, <1>2, BootAssumption DEF Switch, Torn
<1>3. CASE current # Boot /\ cpu.mode # "user"
  BY <1>1, <1>3 DEF Switch, Torn
<1>4. QED BY <1>2, <1>3

\* A switch keeps the invariant, provided that it is the timer that ends the
\* kernel's own thread, and that a preempted system call had enabled interrupts.
LEMMA SwitchIInv ==
    ASSUME IInv, NEW byTimer \in BOOLEAN, Switch(byTimer),
           ~byTimer => current # Boot,
           cpu.mode = "kernel" => cpu.if
    PROVE  IInv'
<1>1. TypeOK'
  <2>1. \A p \in Proc : stack'[p] = "none" <=> ModeOf(p)' = "user"
    <3>1. SUFFICES ASSUME NEW p \in Proc
                   PROVE  stack'[p] = "none" <=> ModeOf(p)' = "user"
      OBVIOUS
    <3>2. stack[p] = "none" <=> ModeOf(p) = "user"
      BY DEF IInv, TypeOK
    <3>3. stack'[p] = "none" <=> ModeOf(p) = "user"
      BY <3>2, SwitchStacks DEF ModeOf
    <3>4. context'[p].mode = ModeOf(p)
      BY SwitchContexts DEF ModeOf
    <3>5. ModeOf(p)' = context'[p].mode
      BY SwitchContexts DEF ModeOf
    <3>6. QED BY <3>3, <3>4, <3>5
  <2>2. /\ report' \in [charged : BOOLEAN, expired : BOOLEAN]
        /\ halted' \in BOOLEAN /\ expired' \in BOOLEAN
    BY DEF Switch, Interrupted, IInv, TypeOK
  <2>3. QED BY <2>1, <2>2, SwitchContexts, SwitchTimer, SwitchStacks DEF TypeOK
<1>2. RegistersInv'
  BY SwitchContexts DEF RegistersInv
<1>3. TimerInv'
  <2>1. current' # Boot
    BY SwitchContexts, BootAssumption
  <2>2. \A p \in Proc : context'[p].mode = "user" => context'[p].if
    BY SwitchContexts DEF IInv, TimerInv
  <2>3. cpu'.mode = "user" => cpu'.if
    BY <2>2, SwitchContexts
  <2>4. QED BY <2>1, <2>2, <2>3, SwitchTimer DEF TimerInv
<1>4. AtomicInv'
  <2>1. current \in Proc \ Enablers => cpu.mode = "user"
    BY DEF IInv, AtomicInv, TypeOK, Registers
  <2>2. \A p \in Proc \ Enablers : stack'[p] # "torn"
    BY <2>1, SwitchStacks DEF IInv, AtomicInv
  <2>3. \A p \in Proc \ Enablers : context'[p].mode = "user"
    BY <2>1, SwitchContexts DEF IInv, AtomicInv
  <2>4. current' \in Proc \ Enablers => cpu'.mode = "user"
    BY <2>3, SwitchContexts
  <2>5. QED BY <2>2, <2>3, <2>4 DEF AtomicInv
<1>5. ChargeInv'
  <2>0. current' # Boot
    BY SwitchContexts, BootAssumption
  <2>1. CASE byTimer
    BY <2>0, <2>1, SwitchTimer DEF ChargeInv
  <2>2. CASE ~byTimer
    <3>1. report'.charged = FALSE
      BY <2>2 DEF Switch, Interrupted
    <3>2. QED BY <2>0, <3>1 DEF ChargeInv
  <2>3. QED BY <2>1, <2>2
<1>6. QED BY <1>1, <1>2, <1>3, <1>4, <1>5 DEF IInv

--------------------------------------------------------------------------------
(* The other steps *)

\* A step that leaves contexts, timer and history alone, and the mode of every
\* process in agreement with its stack, keeps the invariant.
LEMMA ComputeIInv == IInv /\ Compute => IInv'
<1>1. SUFFICES ASSUME IInv, Compute PROVE IInv'
  OBVIOUS
<1>2. cpu.mode = "user" /\ current \in Proc /\ cpu \in Registers
  BY <1>1 DEF Compute, InUser, IInv, TimerInv, TypeOK
<1>3. /\ cpu' \in Registers
      /\ cpu'.low = current
      /\ cpu'.mode = cpu.mode
      /\ cpu'.if = cpu.if
  BY <1>1, <1>2 DEF Compute, Registers
<1>4. TypeOK'
  <2>1. \A p \in Proc : ModeOf(p)' = ModeOf(p)
    BY <1>1, <1>3 DEF Compute, ModeOf
  <2>2. QED BY <1>1, <1>3, <2>1 DEF Compute, IInv, TypeOK
<1>5. RegistersInv' /\ TimerInv' /\ AtomicInv' /\ ChargeInv'
  BY <1>1, <1>3 DEF Compute, IInv, RegistersInv, TimerInv, AtomicInv, ChargeInv
<1>6. QED BY <1>4, <1>5 DEF IInv

\* When the timer has counted down, its interrupt is pending, and of this slice.
LEMMA ExpireIInv == IInv /\ Expire => IInv'
<1>1. SUFFICES ASSUME IInv, Expire PROVE IInv'
  OBVIOUS
<1>2. /\ apic' \in [running : BOOLEAN, given : BOOLEAN, irr : BOOLEAN, isr : BOOLEAN]
      /\ apic'.irr = TRUE
      /\ apic'.isr = apic.isr
  BY <1>1 DEF Expire, IInv, TypeOK
<1>3. TypeOK'
  <2>1. \A p \in Proc : ModeOf(p)' = ModeOf(p)
    BY <1>1 DEF Expire, ModeOf
  <2>2. QED BY <1>1, <1>2, <2>1 DEF Expire, IInv, TypeOK
<1>4. RegistersInv' /\ TimerInv' /\ AtomicInv' /\ ChargeInv'
  BY <1>1, <1>2 DEF Expire, IInv, RegistersInv, TimerInv, AtomicInv, ChargeInv
<1>5. QED BY <1>3, <1>4 DEF IInv

\* The timer interrupt is taken only where interrupts are enabled.
LEMMA InterruptIInv == IInv /\ Interrupt => IInv'
BY SwitchIInv DEF Interrupt

\* Only a process in user mode yields.
LEMMA YieldIInv == IInv /\ Yield => IInv'
<1>1. SUFFICES ASSUME IInv, Yield PROVE IInv'
  OBVIOUS
<1>2. cpu.mode = "user" /\ current # Boot /\ Switch(FALSE)
  BY <1>1 DEF Yield, InUser, IInv, TimerInv
<1>3. QED BY <1>1, <1>2, SwitchIInv

\* A system call puts its frame on the stack of its process, with interrupts
\* disabled.
LEMMA SyscallIInv == IInv /\ Syscall => IInv'
<1>1. SUFFICES ASSUME IInv, Syscall PROVE IInv'
  OBVIOUS
<1>2. cpu.mode = "user" /\ current \in Proc /\ cpu \in Registers
  BY <1>1 DEF Syscall, InUser, IInv, TimerInv, TypeOK
<1>3. /\ cpu' \in Registers
      /\ cpu'.low = cpu.low
      /\ cpu'.mode = "kernel"
      /\ cpu'.if = FALSE
  BY <1>1, <1>2 DEF Syscall, GateFlag, Registers
<1>4. /\ stack' \in [Proc -> {"none", "frame", "torn"}]
      /\ \A p \in Proc : stack'[p] = IF p = current THEN "frame" ELSE stack[p]
  BY <1>1, <1>2 DEF Syscall, IInv, TypeOK
<1>5. TypeOK'
  <2>1. \A p \in Proc : ModeOf(p)' = IF p = current THEN "kernel" ELSE ModeOf(p)
    BY <1>1, <1>3 DEF Syscall, ModeOf
  <2>2. \A p \in Proc : stack'[p] = "none" <=> ModeOf(p)' = "user"
    BY <1>1, <1>4, <2>1 DEF IInv, TypeOK
  <2>3. QED BY <1>1, <1>3, <1>4, <2>2 DEF Syscall, IInv, TypeOK
<1>6. RegistersInv' /\ TimerInv' /\ AtomicInv' /\ ChargeInv'
  BY <1>1, <1>3, <1>4 DEF Syscall, IInv, RegistersInv, TimerInv, AtomicInv, ChargeInv
<1>7. QED BY <1>5, <1>6 DEF IInv

\* Interrupts are enabled within a system call only where some system call does so.
LEMMA EnableIInv == IInv /\ Enable => IInv'
<1>1. SUFFICES ASSUME IInv, Enable PROVE IInv'
  OBVIOUS
<1>2. /\ cpu' \in Registers
      /\ cpu'.low = cpu.low
      /\ cpu'.mode = cpu.mode
      /\ cpu'.if = TRUE
  BY <1>1 DEF Enable, IInv, TypeOK, Registers
<1>3. TypeOK'
  <2>1. \A p \in Proc : ModeOf(p)' = ModeOf(p)
    BY <1>1, <1>2 DEF Enable, ModeOf
  <2>2. QED BY <1>1, <1>2, <2>1 DEF Enable, IInv, TypeOK
<1>4. RegistersInv' /\ TimerInv' /\ AtomicInv' /\ ChargeInv'
  BY <1>1, <1>2 DEF Enable, IInv, RegistersInv, TimerInv, AtomicInv, ChargeInv
<1>5. QED BY <1>3, <1>4 DEF IInv

\* A system call that returns takes its frame from the stack, or faults.
LEMMA ReturnIInv == IInv /\ Return => IInv'
<1>1. SUFFICES ASSUME IInv, Return PROVE IInv'
  OBVIOUS
<1>2. current \in Proc /\ cpu \in Registers
  BY <1>1 DEF Return, InKernel, IInv, TypeOK
<1>3. CASE stack[current] = "frame"
  <2>1. /\ cpu' \in Registers
        /\ cpu'.low = cpu.low
        /\ cpu'.mode = "user"
        /\ cpu'.if = TRUE
    BY <1>1, <1>2, <1>3 DEF Return, Registers
  <2>2. /\ stack' \in [Proc -> {"none", "frame", "torn"}]
        /\ \A p \in Proc : stack'[p] = IF p = current THEN "none" ELSE stack[p]
    BY <1>1, <1>2, <1>3 DEF Return, IInv, TypeOK
  <2>3. TypeOK'
    <3>1. \A p \in Proc : ModeOf(p)' = IF p = current THEN "user" ELSE ModeOf(p)
      BY <1>1, <2>1 DEF Return, ModeOf
    <3>2. \A p \in Proc : stack'[p] = "none" <=> ModeOf(p)' = "user"
      BY <1>1, <2>2, <3>1 DEF IInv, TypeOK
    <3>3. QED BY <1>1, <1>3, <2>1, <2>2, <3>2 DEF Return, IInv, TypeOK
  <2>4. RegistersInv' /\ TimerInv' /\ AtomicInv' /\ ChargeInv'
    BY <1>1, <1>2, <1>3, <2>1, <2>2, BootAssumption
    DEF Return, IInv, RegistersInv, TimerInv, AtomicInv, ChargeInv
  <2>5. QED BY <2>3, <2>4 DEF IInv
<1>4. CASE stack[current] # "frame"
  <2>1. TypeOK'
    <3>1. \A p \in Proc : ModeOf(p)' = ModeOf(p)
      BY <1>1, <1>4 DEF Return, ModeOf
    <3>2. QED BY <1>1, <1>4, <3>1 DEF Return, IInv, TypeOK
  <2>2. RegistersInv' /\ TimerInv' /\ AtomicInv' /\ ChargeInv'
    BY <1>1, <1>4 DEF Return, IInv, RegistersInv, TimerInv, AtomicInv, ChargeInv
  <2>3. QED BY <2>1, <2>2 DEF IInv
<1>5. QED BY <1>3, <1>4

\* Stuttering keeps the invariant.
LEMMA StutterIInv == IInv /\ UNCHANGED vars => IInv'
<1>1. SUFFICES ASSUME IInv, UNCHANGED vars PROVE IInv'
  OBVIOUS
<1>2. TypeOK'
  <2>1. \A p \in Proc : ModeOf(p)' = ModeOf(p)
    BY <1>1 DEF vars, ModeOf
  <2>2. QED BY <1>1, <2>1 DEF vars, IInv, TypeOK
<1>3. RegistersInv' /\ TimerInv' /\ AtomicInv' /\ ChargeInv'
  BY <1>1 DEF vars, IInv, RegistersInv, TimerInv, AtomicInv, ChargeInv
<1>4. QED BY <1>2, <1>3 DEF IInv

\* IInv is inductive.
LEMMA NextIInv == IInv /\ [Next]_vars => IInv'
BY ComputeIInv, ExpireIInv, InterruptIInv, YieldIInv, SyscallIInv, EnableIInv,
   ReturnIInv, StutterIInv DEF Next

--------------------------------------------------------------------------------
(* The theorems *)

\* IInv holds in every state.
LEMMA Invariance == Spec => []IInv
BY InitIInv, NextIInv, PTL DEF Spec

\* The variables have their types, and a process has something on its stack exactly
\* while it is in a system call, whether it runs or was preempted there.
THEOREM TypeCorrect == Spec => []TypeOK
<1>1. IInv => TypeOK
  BY DEF IInv
<1>2. QED BY <1>1, Invariance, PTL

\* Any number of processes may be preempted, yield and call in any order, nested
\* preemption of system calls included: each resumes with the registers it left.
THEOREM RegistersCorrect == Spec => []OwnRegisters
<1>1. IInv => OwnRegisters
  BY DEF IInv, RegistersInv, OwnRegisters
<1>2. QED BY <1>1, Invariance, PTL

\* What a process in user mode can do does not keep it on the processor: the timer counts
\* or has its interrupt pending, enabled and not blocked by a missing EOI, whatever was
\* preempted before, unless the length of the slice itself stopped the timer.
THEOREM PreemptionPossible == Spec => []Preemptible
<1>1. IInv => Preemptible
  BY DEF IInv, TimerInv, Preemptible, InUser
<1>2. QED BY <1>1, Invariance, PTL

\* A system call that leaves interrupts disabled finds its frames when it returns,
\* though others may be preempted.
THEOREM AtomicCallsReturn == Spec => []CallsReturn
<1>1. IInv => CallsReturn
  BY DEF IInv, AtomicInv, CallsReturn
<1>2. QED BY <1>1, Invariance, PTL

\* Charges for slices not used up never follow each other directly, so they never
\* outnumber the slices that were.
THEOREM ChargesBounded == Spec => StaleChargeFollowsYield
<1>1. IInv /\ [Next]_vars =>
        [(Interrupt \/ Yield) /\ report'.charged /\ ~report'.expired => ~report.charged]_vars
  <2>1. SUFFICES ASSUME IInv, Interrupt \/ Yield, report'.charged, ~report'.expired
                 PROVE  ~report.charged
    OBVIOUS
  <2>2. CASE Interrupt
    <3>1. CASE current = Boot
      BY <2>1, <2>2, <3>1 DEF Interrupt, Switch, IInv, ChargeInv
    <3>2. CASE current # Boot
      <4>1. apic.irr /\ ~expired
        BY <2>1, <2>2, <3>2 DEF Interrupt, Switch
      <4>2. QED BY <4>1, <2>1 DEF IInv, ChargeInv
    <3>3. QED BY <3>1, <3>2
  <2>3. CASE Yield
    BY <2>1, <2>3 DEF Yield, Switch, Interrupted, InUser, IInv, TimerInv
  <2>4. QED BY <2>1, <2>2, <2>3
<1>2. QED BY <1>1, Invariance, PTL DEF Spec, StaleChargeFollowsYield

--------------------------------------------------------------------------------
(* FatLock *)

\* The places an operation can be at.
Place == {"idle", "spin", "take", "taken", "locked", "positioned", "done"}

\* While the lock is held, some process has taken it and has not yet returned from
\* acquire_lock().
HolderInv ==
    /\ current \in Proc \cup {Boot}
    /\ pc \in [Proc -> Place]
    /\ lock => \E q \in Proc : pc[q] = "taken"

--------------------------------------------------------------------------------
\* A step from a place other than "taken" that leaves the lock alone keeps the holder.
LEMMA HolderStays ==
    ASSUME HolderInv, NEW from \in Place \ {"taken"}, NEW to \in Place,
           At(from), Goto(to), current' = current, lock' = lock
    PROVE  HolderInv'
<1>1. current \in Proc /\ pc[current] = from
  BY DEF At, InKernel, HolderInv
<1>2. pc' \in [Proc -> Place]
  BY <1>1 DEF Goto, HolderInv
<1>3. ASSUME NEW q \in Proc, pc[q] = "taken" PROVE pc'[q] = "taken"
  BY <1>1, <1>3 DEF Goto, HolderInv
<1>4. QED BY <1>2, <1>3 DEF HolderInv

\* A step that gives the lock back, wherever it goes.
LEMMA HolderGone ==
    ASSUME HolderInv, NEW to \in Place, Goto(to), current' = current, lock' = FALSE
    PROVE  HolderInv'
BY DEF Goto, HolderInv

\* The taking of the lock, by one of several that saw it free.
LEMMA HolderNew == HolderInv /\ Take => HolderInv'
<1> SUFFICES ASSUME HolderInv, Take PROVE HolderInv'
  OBVIOUS
<1>1. current \in Proc /\ pc[current] = "take" /\ current' = current
  BY DEF Take, At, InKernel, HolderInv
<1>2. CASE lock
  BY <1>1, <1>2, HolderStays DEF Take, Place
<1>3. CASE ~lock
  <2>1. pc' = [pc EXCEPT ![current] = "taken"]
    BY <1>3 DEF Take, Goto
  <2>2. pc' \in [Proc -> Place] /\ pc'[current] = "taken"
    BY <1>1, <2>1 DEF HolderInv, Place
  <2>3. QED BY <1>1, <2>2 DEF HolderInv
<1>4. QED BY <1>2, <1>3

\* The machine, whatever it does, leaves all processes where they are in their
\* operations.
LEMMA HolderMachine == HolderInv /\ Machine => HolderInv'
<1> SUFFICES ASSUME HolderInv, Machine PROVE HolderInv'
  OBVIOUS
<1>1. pc' = pc /\ lock' = lock
  BY DEF Machine, lockVars
<1>2. current' \in Proc \cup {Boot}
  <2>1. CASE Interrupt \/ Yield
    BY <2>1, NextIsProcess DEF Interrupt, Yield, Switch, HolderInv
  <2>2. CASE Compute \/ Expire \/ Syscall \/ Return
    BY <2>2 DEF Compute, Expire, Syscall, Return, HolderInv
  <2>3. QED BY <2>1, <2>2 DEF Machine
<1>3. QED BY <1>1, <1>2 DEF HolderInv

\* HolderInv is inductive.
LEMMA HolderStep == HolderInv /\ [LockNext]_<<vars, lockVars>> => HolderInv'
<1> SUFFICES ASSUME HolderInv, [LockNext]_<<vars, lockVars>>
             PROVE  HolderInv'
  OBVIOUS
<1>1. ASSUME NEW o \in Operations, Begin(o) PROVE HolderInv'
  BY <1>1, HolderStays DEF Begin, vars, Place
<1>2. CASE Spin
  BY <1>2, HolderStays DEF Spin, vars, Place
<1>3. CASE Take
  BY <1>3, HolderNew
<1>4. CASE GetToken
  BY <1>4, HolderGone DEF GetToken, LockAfterReturn, vars, Place
<1>5. CASE Position
  BY <1>5, HolderStays DEF Position, vars, Place
<1>6. CASE Transfer
  BY <1>6, HolderStays DEF Transfer, vars, Place
<1>7. CASE Leave
  BY <1>7, HolderGone DEF Leave, vars, Place
<1>8. CASE Machine
  BY <1>8, HolderMachine
<1>9. CASE UNCHANGED <<vars, lockVars>>
  BY <1>9 DEF vars, lockVars, HolderInv
<1>10. QED BY <1>1, <1>2, <1>3, <1>4, <1>5, <1>6, <1>7, <1>8, <1>9 DEF LockNext

\* Operations that take the lock while they have it, as read() and the searches of a
\* directory do, never wait for themselves: who holds the lock is not spinning.
THEOREM NobodyWaitsForHimself == LockSpec => []NoSelfDeadlock
<1>1. LockInit => HolderInv
  BY DEF LockInit, Init, HolderInv, Place
<1>2. HolderInv => NoSelfDeadlock
  BY DEF HolderInv, NoSelfDeadlock
<1>3. QED BY <1>1, <1>2, HolderStep, PTL DEF LockSpec

--------------------------------------------------------------------------------
\* Where every process may make operations on files, a step of one of them is a step of
\* the machine of Dispatch or none: the taking of the lock is the enabling of interrupts.
LEMMA LockStepIsMachineStep ==
    ASSUME Enablers = Proc, current \in Proc \cup {Boot}, [LockNext]_<<vars, lockVars>>
    PROVE  [Next]_vars
<1>1. CASE Take
  BY <1>1 DEF Take, At, Enable, InKernel, Next
<1>2. CASE Machine
  BY <1>2 DEF Machine, Next
<1>3. CASE \/ \E o \in Operations : Begin(o)
           \/ Spin \/ GetToken \/ Position \/ Transfer \/ Leave
  BY <1>3 DEF Begin, Spin, GetToken, Position, Transfer, Leave
<1>4. QED BY <1>1, <1>2, <1>3 DEF LockNext

\* So what is proved of Dispatch holds in the middle of operations on files: one that is
\* preempted under the lock goes on with the registers it had, among any others, and the
\* timer is in order, unless the process was given a count of zero.
THEOREM OperationsResume ==
    ASSUME Enablers = Proc
    PROVE  LockSpec => [](OwnRegisters /\ Preemptible)
<1>1. LockInit => IInv
  BY InitIInv DEF LockInit
<1>2. IInv /\ [LockNext]_<<vars, lockVars>> => IInv'
  <2>1. IInv => current \in Proc \cup {Boot}
    BY DEF IInv, TypeOK
  <2>2. QED BY <2>1, LockStepIsMachineStep, NextIInv
<1>3. IInv => OwnRegisters /\ Preemptible
  BY DEF IInv, RegistersInv, TimerInv, OwnRegisters, Preemptible, InUser
<1>4. QED BY <1>1, <1>2, <1>3, PTL DEF LockSpec

================================================================================
