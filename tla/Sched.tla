--------------------------------- MODULE Sched ---------------------------------
(***************************************************************************)
(* The scheduler's logic, class hl_sched (kernel/proc/sched.hh,            *)
(* kernel/proc/sched.cpp), with its client scheduler_main()                *)
(* (kernel/proc/scheduler_main.cc), which alternates exec_report() and     *)
(* next().  Processes and edges are added; a depth-first walk over the     *)
(* red-black tree of pids turns the graph into a queue; the queue is run   *)
(* round after round, in slices whose lengths follow the weights; and the  *)
(* weights follow the number of slices each process used up (balance).     *)
(*                                                                         *)
(* The state of the class is one record s, with the names of its members:  *)
(*   tree        the red-black tree of pid_to_node_pointer                 *)
(*   fwd         the red-black tree of forward_edges of each process       *)
(*   weight, how_long, balance, fixed, fresh (new_process) of each process *)
(*   queue, at   the ready queue and ready_queue_iterator (0 = nullptr)    *)
(*   cycles      cycle_counter                                             *)
(*   graphOk, weightsOk, waiting, current                                  *)
(*   alive       FALSE once an exception was caught, which halts the       *)
(*               machine, or memory was freed twice, which does as well    *)
(***************************************************************************)
EXTENDS RBTree, Sequences, FiniteSets, FiniteSetsExt

CONSTANTS
    Weights,      \* the weights a process is added with
    Period,       \* number_of_cycles_per_update
    Cycle,        \* the length of a cycle, 2^32 in the code
    MaxEdges      \* bound on the edges of the graph

ASSUME SchedAssumption ==
    /\ Weights \subseteq Nat \ {0}
    /\ Period \in 1 .. 255
    /\ Cycle \in Nat \ {0}
    /\ MaxEdges \in Nat

VARIABLES
    s,          \* the scheduler
    launched,   \* scheduler_main() was called for the first time
    edges,      \* the edges its user added, as pairs of pids
    slices      \* the number, modulo 2, of the slices that the timer ended

vars == <<s, launched, edges, slices>>

InitSched ==
    [tree |-> EmptyTree, fwd |-> [p \in Key |-> EmptyTree],
     weight |-> [p \in Key |-> 0], how_long |-> [p \in Key |-> 0],
     balance |-> [p \in Key |-> 0], fixed |-> [p \in Key |-> FALSE],
     fresh |-> [p \in Key |-> TRUE],
     queue |-> << >>, at |-> 0, cycles |-> 0,
     graphOk |-> TRUE, weightsOk |-> TRUE, waiting |-> FALSE, current |-> Nil,
     alive |-> TRUE]

Die(t) == [t EXCEPT !.alive = FALSE]

InQueue(t) == {t.queue[i] : i \in 1 .. Len(t.queue)}
Added(t)   == KeysOf(t.tree)

--------------------------------------------------------------------------------
(* Building the ready queue *)

\* dfs(n) over the pids, and dfs_over_forward_edges(n) over the targets of one
\* process.  The walk is a record of the pids visited and the queue so far; both
\* walks mark a pid visited and put it at the front of the queue, so that when
\* dfs_over_forward_edges() calls dfs() for its target, dfs() returns at once.
\* The test on in_recursion_stack comes after the one on visited, which is always
\* true then; no exception is ever thrown.
PushFront(walk, p) == [walk EXCEPT !.queue = <<p>> \o @]
Visit(walk, p)     == [walk EXCEPT !.visited = @ \cup {p}]
Mark(walk, p)      == PushFront(Visit(walk, p), p)

Walks == [visited : SUBSET Key, queue : Seq(Key)]

\* One process of a walk through a tree is marked by mark, and its subtrees follow;
\* a process visited before ends the walk there.
WalkTree(tree, mark(_, _)) ==
    LET walkFrom[n \in Key \cup {Nil}, walk \in Walks] ==
            IF n = Nil \/ n \in walk.visited THEN walk
            ELSE walkFrom[tree.kid["right"][n],
                          walkFrom[tree.kid["left"][n], mark(walk, n)]]
    IN  walkFrom

\* (In the variant, the inner walk forgets to mark what it put in the queue.)
DfsForwardUnmarked(t, walk, n) == WalkTree(t.fwd[n], PushFront)[t.fwd[n].root, walk]
DfsForward(t, walk, n)         == WalkTree(t.fwd[n], Mark)[t.fwd[n].root, walk]

Dfs(t, walk, n) == PushFront(DfsForward(t, Visit(walk, n), n), n)

ReadyQueue(t) ==
    WalkTree(t.tree, LAMBDA walk, n : Dfs(t, walk, n))
        [t.tree.root, [visited |-> {}, queue |-> << >>]].queue

\* delete_queue(): the destructor of a list node destroys and deletes the next
\* one, and the loop deletes it once more; only a queue of one node survives.
DeleteQueue(t) ==
    IF Len(t.queue) > 1 THEN Die(t) ELSE [t EXCEPT !.queue = << >>, !.at = 0]

--------------------------------------------------------------------------------
(* update_weights() *)

\* isqrt(), bit by bit: the power of four to start with, which is shifted out
\* altogether for 0, and the loop over the ones below it.
PowerBelow[one \in Nat, op \in Nat] == IF one > op THEN PowerBelow[one \div 4, op] ELSE one

IsqrtFrom[one \in Nat, op \in Nat, res \in Nat] ==
    IF one = 0 THEN res
    ELSE IF op >= res + one
         THEN IsqrtFrom[one \div 4, op - (res + one), (res + 2 * one) \div 2]
         ELSE IsqrtFrom[one \div 4, op, res \div 2]

Isqrt(x) == IsqrtFrom[PowerBelow[2^10, x], x, 0]

\* It is the root rounded down, for every value of a balance.
ASSUME IsqrtExact ==
    \A x \in 0 .. 255 : Isqrt(x) * Isqrt(x) <= x /\ x < (Isqrt(x) + 1) * (Isqrt(x) + 1)

Sum(f, S) == MapThenSumSet(LAMBDA p : f[p], S)

Movable(t) == {p \in InQueue(t) : ~t.fixed[p]}

\* The last process of the queue whose weight is not fixed.
LastMovable(t) ==
    LET i == CHOOSE i \in 1 .. Len(t.queue) :
                 /\ ~t.fixed[t.queue[i]]
                 /\ \A j \in i + 1 .. Len(t.queue) : t.fixed[t.queue[j]]
    IN  t.queue[i]

\* total, divided among the processes of S in the proportion of f; the others keep
\* what they have.
Proportion(f, S, total, kept) ==
    LET all == Sum(f, S)
    IN  [p \in Key |-> IF p \in S THEN (f[p] * total) \div all ELSE kept[p]]

\* What is left over by the rounding goes to the last one (in the variant of
\* the two uses, it is dropped).
GiveRest(part, S, total, last) == [part EXCEPT ![last] = @ + (total - Sum(part, S))]

\* The balances that count: the square root of what was charged, or of half the
\* cycle counter for a process that is new.
Balances(t) ==
    [p \in Key |-> IF p \in Movable(t)
                   THEN Isqrt((IF t.fresh[p] THEN t.cycles \div 2 ELSE t.balance[p]) % 256)
                   ELSE t.balance[p]]

\* The weights that are not fixed, shared out anew in the proportion of the
\* balances.
ShareAmong(t, bal, S, total) ==
    IF \A p \in S : bal[p] = 0 THEN t.weight
    ELSE GiveRest(Proportion(bal, S, total, t.weight), S, total, LastMovable(t))
ShareDroppingAmong(t, bal, S, total) ==
    IF \A p \in S : bal[p] = 0 THEN t.weight ELSE Proportion(bal, S, total, t.weight)

ShareDropping(t) == ShareDroppingAmong(t, Balances(t), Movable(t), Sum(t.weight, Movable(t)))
Share(t)         == ShareAmong(t, Balances(t), Movable(t), Sum(t.weight, Movable(t)))

\* how_long: the cycle divided in the proportion of the weights.
SlicesShort(t, weight) == Proportion(weight, InQueue(t), Cycle, t.how_long)
Slices(t, weight) ==
    GiveRest(Proportion(weight, InQueue(t), Cycle, t.how_long),
             InQueue(t), Cycle, t.queue[Len(t.queue)])

\* The balances are consumed (in the variant, they go on counting).
BalancesKept(t) == t.balance
BalancesConsumed(t) == [p \in Key |-> IF p \in InQueue(t) THEN 0 ELSE t.balance[p]]

Reweighted(t, weight) ==
    [t EXCEPT !.weight = weight,
              !.how_long = Slices(t, weight),
              !.balance = BalancesConsumed(t),
              !.fresh = [p \in Key |-> @[p] /\ p \notin Movable(t)],
              !.cycles = 0,
              !.weightsOk = TRUE]

UpdateWeights(t) ==
    IF t.weightsOk THEN [t EXCEPT !.cycles = 0]
    ELSE IF t.queue = << >> THEN Die(t)
    ELSE Reweighted(t, Share(t))

--------------------------------------------------------------------------------
(* next() and exec_report() *)

\* The graph changed: the queue is built again, at the start of a cycle.
Rebuild(t) ==
    IF DeleteQueue(t).alive
    THEN [DeleteQueue(t) EXCEPT !.queue = ReadyQueue(t), !.graphOk = TRUE]
    ELSE Die(t)

\* update_weights() is called for a new queue, and after so many cycles (the first
\* call sets the counter to zero).
Rebalance(t, rebuilt) ==
    IF t.alive /\ (rebuilt \/ t.cycles >= Period) THEN UpdateWeights(t) ELSE t

Restart(t) == [t EXCEPT !.at = IF t.queue = << >> THEN 0 ELSE 1]

StartCycle(t) == Restart(Rebalance(IF t.graphOk THEN t ELSE Rebuild(t), ~t.graphOk))

\* The queue node after the i-th (in the variant, the last one is left out).
AfterTooSoon(t, i) == IF i >= Len(t.queue) - 1 THEN 0 ELSE i + 1
After(t, i)        == IF i = Len(t.queue) THEN 0 ELSE i + 1

Issue(t) ==
    IF ~t.alive THEN t
    ELSE IF t.waiting \/ t.at = 0 THEN Die(t)
    ELSE [t EXCEPT !.current = t.queue[t.at],
                   !.at = After(t, @),
                   !.cycles = IF After(t, t.at) = 0 THEN @ + 1 ELSE @,
                   !.waiting = TRUE]

NextCommand(t) == Issue(IF t.at = 0 THEN StartCycle(t) ELSE t)

\* (In the variant, waiting_for_report is left as it is when there was no charge.)
ExecReportKept(t, graceful) ==
    IF ~t.waiting THEN Die(t)
    ELSE LET charged == ~graceful /\ ~t.fixed[t.current]
         IN  [t EXCEPT !.balance[t.current] = IF charged THEN (@ + 1) % 256 ELSE @,
                       !.weightsOk = @ /\ ~charged,
                       !.waiting = ~charged]

ExecReport(t, graceful) ==
    IF ~t.waiting THEN Die(t)
    ELSE LET charged == ~graceful /\ ~t.fixed[t.current]
         IN  [t EXCEPT !.balance[t.current] = IF charged THEN (@ + 1) % 256 ELSE @,
                       !.weightsOk = @ /\ ~charged,
                       !.waiting = FALSE]

--------------------------------------------------------------------------------
Init ==
    /\ s = InitSched
    /\ launched = FALSE
    /\ edges = {}
    /\ slices = 0

\* add_process(): pids are numbered as processes are loaded.
AddProcess(w, f) ==
    LET p == Cardinality(Added(s))
    IN  /\ p \in Key
        /\ s' = [s EXCEPT !.tree = Insert(@, p), !.weight[p] = w, !.fixed[p] = f,
                          !.graphOk = FALSE, !.weightsOk = FALSE]
        /\ UNCHANGED <<launched, edges, slices>>

AddEdge(p, q) ==
    /\ <<p, q>> \notin edges
    /\ Cardinality(edges) < MaxEdges
    /\ s' = [s EXCEPT !.fwd[p] = Insert(@, q), !.graphOk = FALSE]
    /\ edges' = edges \cup {<<p, q>>}
    /\ UNCHANGED <<launched, slices>>

\* scheduler_main(): the first call only asks for a command, each later one
\* reports first how the command ended.
Launch ==
    /\ ~launched
    /\ Added(s) # {}
    /\ s' = NextCommand(s)
    /\ launched' = TRUE
    /\ UNCHANGED <<edges, slices>>

Tick(graceful) ==
    /\ launched
    /\ s' = NextCommand(ExecReport(s, graceful))
    /\ slices' = IF graceful THEN slices ELSE 1 - slices
    /\ UNCHANGED <<launched, edges>>

Next ==
    /\ s.alive
    /\ \/ \E w \in Weights, f \in BOOLEAN : AddProcess(w, f)
       \/ \E p, q \in Added(s) : AddEdge(p, q)
       \/ Launch
       \/ \E graceful \in BOOLEAN : Tick(graceful)

\* The initial count written into the timer of the local APIC, an unsigned int;
\* zero stops the timer.
TimerCount == s.how_long[s.current] % Cycle

\* A process may yield, and need not.  Only a timer that was started ends a slice
\* for certain.
TimerRuns == launched /\ s.alive /\ TimerCount # 0
TimerEnds == TimerRuns /\ slices' = 1 - slices

Spec == Init /\ [][Next]_vars /\ WF_slices(TimerEnds)

--------------------------------------------------------------------------------
(* Properties *)

\* Only processes that were added are in the queue or run, how_long is within a
\* cycle, and the eight bits of balance suffice: a process is charged at most once
\* in a cycle and the balances are consumed every Period cycles.
TypeOK ==
    /\ Added(s) \subseteq Key
    /\ InQueue(s) \subseteq Added(s)
    /\ s.at \in 0 .. Len(s.queue)
    /\ s.current \in Added(s) \cup {Nil}
    /\ \A p \in Key : /\ s.balance[p] \in 0 .. Period
                      /\ s.weight[p] \in Nat
                      /\ s.how_long[p] \in 0 .. Cycle
    /\ edges \subseteq Key \X Key

\* A process is in the ready queue at most once: in spite of its two walks that
\* mark and push independently, the sort never lists a process twice.
QueueDistinct == Cardinality(InQueue(s)) = Len(s.queue)

\* Whenever the slices have been computed from the present queue they add up to
\* one cycle exactly, whatever the weights and however they were rounded.
SlicesFillCycle ==
    s.alive /\ s.waiting /\ s.graphOk => Sum(s.how_long, InQueue(s)) = Cycle

\* Rebalancing moves weight between the processes that allow it and neither
\* makes nor loses any, and a fixed weight stays as it was given.
WeightConserved ==
    [][Added(s') = Added(s) =>
          /\ Sum(s'.weight, {p \in Added(s) : ~s.fixed[p]}) =
                Sum(s.weight, {p \in Added(s) : ~s.fixed[p]})
          /\ \A p \in Added(s) : s.fixed[p] => s'.weight[p] = s.weight[p]]_vars

\* Of the exceptions that next(), exec_report() and update_weights() may throw none
\* ever is: the machine stops only when a queue of two processes or more is to be
\* replaced, whose nodes are then deleted twice.
DiesOnlyOnRebuild ==
    [][s.alive /\ ~s'.alive =>
          launched /\ ~s.graphOk /\ s.at = 0 /\ Len(s.queue) > 1]_vars

\* Every process of the queue gets to run, again and again, while nobody changes
\* the graph.
Undisturbed == [](launched => s.alive /\ s.graphOk)
ServedAgain == \A p \in Key : (p \in InQueue(s)) ~> (s.current = p)

\* Round robin: all are served for ever, even if no process ever yields, as long as no slice
\* is cut down to a count of zero.
RoundRobin == Undisturbed /\ [](launched => TimerCount # 0) => ServedAgain

================================================================================
