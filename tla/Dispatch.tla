------------------------------- MODULE Dispatch -------------------------------
(***************************************************************************)
(* How the processor passes from one process to the next: the timer of the *)
(* local APIC (vector 34), the gate by which a process yields (int 32) and *)
(* the one by which it makes a system call (int 33), set up in             *)
(* kernel/kernel.cpp; the entry and exit code of the first two             *)
(* (kernel/proc/saveregs_hook.s) and scheduler_main() between them         *)
(* (kernel/proc/scheduler_main.cc); and the system calls, which run on a   *)
(* stack of their process.                                                 *)
(*                                                                         *)
(* What hl_sched decides is the subject of module Sched: here its commands *)
(* follow each other round robin, with slices of any lengths.              *)
(*                                                                         *)
(* A register's content matters only by whose it is.  The registers that   *)
(* loadregs_hook loads (rax .. rbp, rip, rsp, rflags) are the component    *)
(* low of the processor's state, r8 .. r15 the component high.             *)
(***************************************************************************)
EXTENDS Naturals

CONSTANTS
    N,          \* the number of processes, three in the code
    Boot,       \* the kernel's own thread, that starts the first process
    Enablers,   \* the processes whose system calls may enable interrupts
    Slices,     \* the lengths of slices, 0 to 2^32 in the code
    Counts      \* the number of values of the timer's initial count, 2^32

ASSUME DispatchAssumption ==
    N \in Nat \ {0} /\ Slices \subseteq Nat /\ Counts \in Nat \ {0}

Proc == 0 .. N - 1

ASSUME BootAssumption == Boot \notin Proc /\ Enablers \subseteq Proc

VARIABLES
    current,    \* current_process
    cpu,        \* the processor: whose registers, in which mode, the flag IF
    context,    \* the member context of each process
    stack,      \* the words below kernel_stack of each process: the frame of a
                \* system call under way, or what is left of it, or nothing
    apic,       \* whether the timer counts, whether it was last given a count that is not
                \* zero, and the bits of its vector in IRR and ISR
    halted,     \* the machine met a fault
    expired,    \* history: the slice of the process that runs was used up
    report      \* history: the last exec_report() and whether its slice was

vars == <<current, cpu, context, stack, apic, halted, expired, report>>

Registers ==
    [low : Proc \cup {Boot}, high : Proc \cup {Boot}, mode : {"user", "kernel"}, if : BOOLEAN]

InUser   == ~halted /\ cpu.mode = "user"
InKernel == ~halted /\ cpu.mode = "kernel" /\ current # Boot

--------------------------------------------------------------------------------
(* The context switch *)

\* The command that follows the one for p.
NextToRun(p) == IF p = Boot THEN 0 ELSE (p + 1) % N

\* loadregs_hook: the registers of process p come from its context, except r8 ..
\* r15, where each mov has its operands in the wrong order: the memory is written
\* and the registers keep what they held.
Loaded(p, contexts) == [contexts[p] EXCEPT !.high = cpu.high]

\* scheduler_main() saves the context of the process that ran before it chooses
\* the next one (in the variant, after).
SavedLate(from, to) == [context EXCEPT ![to] = cpu]
Saved(from, to)     == IF from = Boot THEN context ELSE [context EXCEPT ![from] = cpu]

\* The context of a process lies just below its kernel stack, whose lower end,
\* &kernel_stack[0], is where its system calls start pushing: to save the context
\* of a process is to write over the frames of its system call.
Torn(p) == IF p = Boot \/ cpu.mode = "user" THEN stack ELSE [stack EXCEPT ![p] = "torn"]

\* Was it the timer?  The bit of vector 34 in ISR tells, and is cleared by an
\* EOI only if it is set (in the variants: every switch counts as the timer's,
\* and no EOI is sent).
InterruptedAlways(byTimer) == TRUE
Interrupted(byTimer)       == byTimer
EoiNever(inService) == inService
Eoi(inService)      == FALSE

\* The one-shot timer is started for the next slice, cut down to the width of the
\* initial count, of which zero stops it; an interrupt of the last slice that is still
\* pending remains so (in the variant, the timer is left as it was).
InitialCount(slice)      == slice % Counts
RestartNot(timer, slice) == timer
Restart(timer, slice)    == InitialCount(slice) # 0

Switch(byTimer) ==
    LET to == NextToRun(current)
        inService == apic.isr \/ byTimer
    IN  /\ context' = Saved(current, to)
        /\ stack' = Torn(current)
        /\ current' = to
        /\ cpu' = Loaded(to, context')
        /\ \E slice \in Slices :
              apic' = [running |-> Restart(apic.running, slice),
                       given |-> InitialCount(slice) # 0,
                       irr |-> apic.irr /\ ~byTimer,
                       isr |-> Eoi(inService)]
        /\ expired' = FALSE
        /\ report' = IF current = Boot THEN report
                     ELSE [charged |-> Interrupted(byTimer), expired |-> expired]
        /\ UNCHANGED halted

--------------------------------------------------------------------------------
(* The steps of the machine *)

Init ==
    /\ current = Boot
    /\ cpu = [low |-> Boot, high |-> Boot, mode |-> "kernel", if |-> TRUE]
    /\ context = [p \in Proc |-> [low |-> p, high |-> p, mode |-> "user", if |-> TRUE]]
    /\ stack = [p \in Proc |-> "none"]
    /\ apic = [running |-> TRUE, given |-> TRUE, irr |-> FALSE, isr |-> FALSE]
    /\ halted = FALSE
    /\ expired = FALSE
    /\ report = [charged |-> FALSE, expired |-> FALSE]

\* A process computes: all the general registers hold values of its own.
Compute ==
    /\ InUser
    /\ cpu' = [cpu EXCEPT !.low = current, !.high = current]
    /\ UNCHANGED <<current, context, stack, apic, halted, expired, report>>

\* The timer counts down to zero.
Expire ==
    /\ ~halted /\ apic.running
    /\ apic' = [apic EXCEPT !.running = FALSE, !.irr = TRUE]
    /\ expired' = TRUE
    /\ UNCHANGED <<current, cpu, context, stack, halted, report>>

Interrupt ==
    /\ ~halted /\ cpu.if /\ apic.irr /\ ~apic.isr
    /\ Switch(TRUE)

Yield ==
    /\ InUser
    /\ Switch(FALSE)

\* int 33: an interrupt gate, with IST entry 3 (in the variant, a trap gate, which
\* leaves IF alone).
GateFlagTrap(if) == if
GateFlag(if)     == FALSE

Syscall ==
    /\ InUser
    /\ cpu' = [cpu EXCEPT !.mode = "kernel", !.if = GateFlag(@)]
    /\ stack' = [stack EXCEPT ![current] = "frame"]
    /\ UNCHANGED <<current, context, apic, halted, expired, report>>

\* interrupt_manager::enable(), that some drivers call.
Enable ==
    /\ InKernel
    /\ current \in Enablers
    /\ cpu' = [cpu EXCEPT !.if = TRUE]
    /\ UNCHANGED <<current, context, stack, apic, halted, expired, report>>

\* iretq at the end of syscall_hook: what it pops must still be there.
Return ==
    /\ InKernel
    /\ IF stack[current] = "frame"
       THEN /\ cpu' = [cpu EXCEPT !.mode = "user", !.if = TRUE]
            /\ stack' = [stack EXCEPT ![current] = "none"]
            /\ UNCHANGED halted
       ELSE /\ halted' = TRUE
            /\ UNCHANGED <<cpu, stack>>
    /\ UNCHANGED <<current, context, apic, expired, report>>

Next == Compute \/ Expire \/ Interrupt \/ Yield \/ Syscall \/ Enable \/ Return

\* The hardware counts, and does not pass over a pending interrupt for ever if
\* it is enabled again and again (by the returns of system calls made in a loop).
\* A process need not yield or call, and a system call need not return.
Spec == Init /\ [][Next]_vars /\ WF_vars(Expire) /\ SF_vars(Interrupt)

--------------------------------------------------------------------------------
(* Properties *)

ModeOf(p) == IF p = current THEN cpu.mode ELSE context[p].mode

\* Of a process in a system call, and of no other, something is on the stack.
TypeOK ==
    /\ current \in Proc \cup {Boot}
    /\ cpu \in Registers
    /\ context \in [Proc -> Registers]
    /\ stack \in [Proc -> {"none", "frame", "torn"}]
    /\ apic \in [running : BOOLEAN, given : BOOLEAN, irr : BOOLEAN, isr : BOOLEAN]
    /\ halted \in BOOLEAN /\ expired \in BOOLEAN
    /\ report \in [charged : BOOLEAN, expired : BOOLEAN]
    /\ \A p \in Proc : stack[p] = "none" <=> ModeOf(p) = "user"

\* A process goes on with the registers it had when it was left, as far as
\* loadregs_hook loads them; so does a system call that was preempted.
OwnRegisters == current # Boot => cpu.low = current

\* Whatever happened on the way there, a process that runs can be taken off the
\* processor: interrupts are enabled, none is in service, and the timer either
\* counts or has its interrupt pending, unless its count is zero: a slice of 0, or one
\* of a whole cycle, leaves the timer stopped, and the process runs until it yields.
Preemptible ==
    InUser => cpu.if /\ ~apic.isr /\ (apic.given => apic.running \/ apic.irr)

\* The frames of a system call that does not enable interrupts itself are found as
\* they were left when it returns, whatever the calls of other processes do.
CallsReturn == \A p \in Proc \ Enablers : stack[p] # "torn"

\* A timer interrupt that comes in at the time of a yield is taken by the next
\* process, which is charged with a slice it did not use.  That takes a yield: two
\* processes in a row are never charged without having used up their slices, so
\* in all there are no more charges than slices used up.
StaleChargeFollowsYield ==
    [][(Interrupt \/ Yield) /\ report'.charged /\ ~report'.expired => ~report.charged]_vars

\* Preemption: every process gets the processor again and again, though none need ever
\* yield.  Except where a system call faults on its way back; where a process that was
\* given a count of zero never yields; and where a system call stays for ever with
\* interrupts disabled, as one that spins on the lock of a file system does.
EveryProcessRuns ==
    [](~halted) /\ []<>apic.given /\ []<>cpu.if => \A p \in Proc : []<>(current = p)

================================================================================
