----------------------------- MODULE EventLoop ------------------------------
(***************************************************************************)
(* dagr::detail::Event_Loop: the poll - dispatch - complete cycle over the *)
(* task graph.  The loop is single-threaded; the tasks it dispatched run   *)
(* elsewhere and finish at any moment (TaskFinish), and what they report   *)
(* is what the completion callback returns.  One loop iteration of the     *)
(* code is one step.                                                       *)
(***************************************************************************)
EXTENDS RankPool, Sequences

CONSTANTS
    NumTasks,        \* nodes_.size()
    Edges,           \* Pipeline_Config::edges, by identity: duplicates count
    Producer,        \* edge -> producer_id
    Consumer,        \* edge -> consumer_id
    Required,        \* node -> required_ranks
    MaxConcurrency,  \* Config::max_concurrency
    DeadlockTimeout  \* Config::deadlock_timeout_s, in ticks

ASSUME GraphAssumption ==
    /\ NumTasks \in Nat
    /\ Nodes = 0 .. NumTasks - 1
    /\ IsFiniteSet(Edges)
    /\ Producer \in [Edges -> Nodes]
    /\ Consumer \in [Edges -> Nodes]
    /\ Required \in [Nodes -> Nat \ {0}]
    /\ MaxConcurrency \in 1 .. 1024
    /\ DeadlockTimeout \in 1 .. 3600

VARIABLES
    status,           \* TaskNode::status
    pending_deps,     \* TaskNode::pending_deps
    ready_queue,      \* ready_queue_
    in_flight,        \* in_flight_
    phase,            \* where the loop is
    cursor,           \* index of poll_ready_nodes' loop
    calling,          \* the node whose dispatch callback runs, if one does
    finished,         \* what the tasks reported since the last callback
    batch,            \* what the callback returned and is still to be applied
    elapsed,          \* ticks since last_progress_time_, capped at the timeout
    deadlock_warned   \* deadlock_warned_

taskVars == <<status, pending_deps, ready_queue, in_flight>>
timeVars == <<elapsed, deadlock_warned>>
loopVars == <<phase, cursor, batch, calling>>
vars == <<taskVars, timeVars, loopVars, finished, pool, free, held>>

Status == {"pending", "ready", "running", "completed", "failed", "cancelled"}
Report == {"none", "ok", "error"}
Quiet  == [n \in Nodes |-> "none"]

IsTerminal(s) == s \in {"completed", "failed", "cancelled"}

AllComplete == \A n \in Nodes : IsTerminal(status[n])

EdgesInto(n) == {e \in Edges : Consumer[e] = n}

EdgesBetween(p, n) == {e \in EdgesInto(n) : Producer[e] = p}

\* GraphOrchestrator::Impl::populate_nodes fills the nodes, the constructors
\* of Event_Loop and Rank_Pool the rest.
Init == /\ PoolInit
        /\ status = [n \in Nodes |-> "pending"]
        /\ pending_deps = [n \in Nodes |-> Cardinality(EdgesInto(n))]
        /\ ready_queue = <<>>
        /\ in_flight = 0
        /\ phase = "idle"
        /\ cursor = 0
        /\ calling = {}
        /\ finished = Quiet
        /\ batch = Quiet
        /\ elapsed = 0
        /\ deadlock_warned = FALSE

RecordProgress == elapsed' = 0 /\ deadlock_warned' = FALSE

-----------------------------------------------------------------------------
(* Failure: the breadth-first search of propagate_failure, as the least   *)
(* set it closes.  It stops at terminal and at running nodes.             *)

\* Mutant of Cancellable: only nodes already queued are cancelled.
CancellableQueued(st, m) == st[m] = "ready"

Cancellable(st, m) == st[m] \in {"pending", "ready"}

ClosedUnder(S, f, st) ==
    \A e \in Edges : Producer[e] \in S \cup {f} /\ Cancellable(st, Consumer[e])
                        => Consumer[e] \in S

\* Mutant of Cascade: the direct dependents only.
DirectDependents(f, st) ==
    {m \in Nodes : Cancellable(st, m) /\ EdgesBetween(f, m) # {}}

Cascade(f, st) ==
    {m \in Nodes : /\ Cancellable(st, m)
                   /\ \A S \in SUBSET Nodes : ClosedUnder(S, f, st) => m \in S}

\* status after propagate_failure(f)
FailedStatus(f) ==
    LET st == [status EXCEPT ![f] = "failed"]
        cs == Cascade(f, st)
    IN  [m \in Nodes |-> IF m \in cs THEN "cancelled" ELSE st[m]]

-----------------------------------------------------------------------------
\* cycle() is entered: poll_ready_nodes starts at the first node.
StartCycle ==
    /\ phase = "idle"
    /\ phase' = "poll"
    /\ cursor' = 0
    /\ UNCHANGED <<taskVars, timeVars, batch, calling, finished, poolVars>>

\* Mutant of BecomesReady: one dependency short.
BecomesReadyEarly(n) == status[n] = "pending" /\ pending_deps[n] <= 1

BecomesReady(n) == status[n] = "pending" /\ pending_deps[n] = 0

\* One node of poll_ready_nodes.
PollNode ==
    /\ phase = "poll"
    /\ cursor < NumTasks
    /\ IF BecomesReady(cursor)
         THEN /\ status' = [status EXCEPT ![cursor] = "ready"]
              /\ ready_queue' = Append(ready_queue, cursor)
         ELSE UNCHANGED <<status, ready_queue>>
    /\ cursor' = cursor + 1
    /\ UNCHANGED <<pending_deps, in_flight, phase, batch, calling, finished,
                   timeVars, poolVars>>

PollEnd ==
    /\ phase = "poll"
    /\ cursor = NumTasks
    /\ phase' = "dispatch"
    /\ UNCHANGED <<taskVars, timeVars, cursor, batch, calling, finished, poolVars>>

HasSlot == in_flight < MaxConcurrency

\* The head of the queue may be handed to the ranks it needs.
CanDispatch ==
    /\ ready_queue # <<>>
    /\ HasSlot
    /\ status[Head(ready_queue)] = "ready" => ~Insufficient(Required[Head(ready_queue)])

\* The head is given its ranks, runs and is handed to the dispatch callback;
\* an entry that is no longer ready is dropped.
Dispatch ==
    /\ phase = "dispatch" /\ calling = {}
    /\ CanDispatch
    /\ ready_queue' = Tail(ready_queue)
    /\ LET n == Head(ready_queue) IN
         IF status[n] # "ready"
           THEN UNCHANGED <<status, in_flight, calling, timeVars, poolVars>>
           ELSE /\ TryAllocate(n, Required[n])
                /\ status' = [status EXCEPT ![n] = "running"]
                /\ in_flight' = in_flight + 1
                /\ calling' = {n}
                /\ RecordProgress
    /\ UNCHANGED <<pending_deps, phase, cursor, batch, finished>>

\* The callback returns true, or there is none.
DispatchAccepted ==
    /\ phase = "dispatch" /\ calling # {}
    /\ calling' = {}
    /\ UNCHANGED <<taskVars, timeVars, phase, cursor, batch, finished, poolVars>>

\* propagate_failure
PropagateFailure(n) ==
    /\ status' = FailedStatus(n)
    /\ ReleaseOf({n})
    /\ in_flight' = IF in_flight > 0 THEN in_flight - 1 ELSE 0
    /\ RecordProgress

\* The callback returns false or throws.
DispatchFails(n) ==
    /\ phase = "dispatch" /\ n \in calling
    /\ calling' = {}
    /\ PropagateFailure(n)
    /\ UNCHANGED <<pending_deps, ready_queue, phase, cursor, batch, finished>>

\* dispatch_ready_nodes returns, and process_completions asks its callback.
DispatchEnd ==
    /\ phase = "dispatch" /\ calling = {}
    /\ ~CanDispatch
    /\ phase' = "complete"
    /\ batch' = finished
    /\ finished' = Quiet
    /\ UNCHANGED <<taskVars, timeVars, cursor, calling, poolVars>>

\* "Only process running nodes"
Accepts(n) == status[n] = "running"

\* Mutant of Countdown: a consumer is counted down once however many edges.
CountdownPerConsumer(n) ==
    [m \in Nodes |-> IF EdgesBetween(n, m) = {} THEN pending_deps[m]
                                               ELSE pending_deps[m] - 1]

\* pending_deps after n's dependents, one per edge, have been counted down.
Countdown(n) ==
    [m \in Nodes |-> pending_deps[m] - Cardinality(EdgesBetween(n, m))]

\* One entry of the completion vector, for a node that is not running any
\* more: it is ignored.
CompletionIgnored(n) ==
    /\ phase = "complete"
    /\ batch[n] # "none"
    /\ ~Accepts(n)
    /\ batch' = [batch EXCEPT ![n] = "none"]
    /\ UNCHANGED <<taskVars, timeVars, phase, cursor, calling, finished, poolVars>>

CompletionSucceeds(n) ==
    /\ phase = "complete"
    /\ batch[n] = "ok"
    /\ Accepts(n)
    /\ batch' = [batch EXCEPT ![n] = "none"]
    /\ status' = [status EXCEPT ![n] = "completed"]
    /\ ReleaseOf({n})
    /\ in_flight' = in_flight - 1
    /\ pending_deps' = Countdown(n)
    /\ RecordProgress
    /\ UNCHANGED <<ready_queue, phase, cursor, calling, finished>>

CompletionFails(n) ==
    /\ phase = "complete"
    /\ batch[n] = "error"
    /\ Accepts(n)
    /\ batch' = [batch EXCEPT ![n] = "none"]
    /\ PropagateFailure(n)
    /\ UNCHANGED <<pending_deps, ready_queue, phase, cursor, calling, finished>>

\* check_deadlock's early returns: something is in flight or queued, and not
\* every node is done.
Outstanding == (in_flight > 0 \/ ready_queue # <<>>) /\ ~AllComplete

\* The vector is used up; check_deadlock runs and cycle() returns.
EndCycle ==
    /\ phase = "complete"
    /\ batch = Quiet
    /\ phase' = "idle"
    /\ deadlock_warned' = (deadlock_warned \/ (Outstanding /\ elapsed >= DeadlockTimeout))
    /\ UNCHANGED <<taskVars, elapsed, cursor, batch, calling, finished, poolVars>>

Loop == \/ StartCycle \/ PollNode \/ PollEnd
        \/ Dispatch \/ DispatchAccepted \/ DispatchEnd
        \/ \E n \in Nodes : \/ DispatchFails(n)
                            \/ CompletionIgnored(n)
                            \/ CompletionSucceeds(n)
                            \/ CompletionFails(n)
        \/ EndCycle

\* A dispatched task reports its result; a task may report again, or after
\* the loop has given it up.
TaskFinish(n, r) ==
    /\ status[n] \in {"running", "completed", "failed"}
    /\ finished[n] = "none"
    /\ finished' = [finished EXCEPT ![n] = r]
    /\ UNCHANGED <<taskVars, timeVars, loopVars, poolVars>>

\* Time passes between two cycles.
Tick ==
    /\ elapsed < DeadlockTimeout
    /\ elapsed' = elapsed + 1
    /\ UNCHANGED <<taskVars, deadlock_warned, loopVars, finished, poolVars>>

Next == \/ Loop
        \/ \E n \in Nodes, r \in {"ok", "error"} : TaskFinish(n, r)
        \/ Tick

Spec == Init /\ [][Next]_vars

-----------------------------------------------------------------------------
TypeOK ==
    /\ PoolTypeOK
    /\ status \in [Nodes -> Status]
    /\ pending_deps \in [Nodes -> Nat]
    /\ ready_queue \in Seq(Nodes)
    /\ in_flight \in Nat
    /\ phase \in {"idle", "poll", "dispatch", "complete"}
    /\ cursor \in 0 .. NumTasks
    /\ calling \in SUBSET Nodes
    /\ finished \in [Nodes -> Report]
    /\ batch \in [Nodes -> Report]
    /\ elapsed \in 0 .. DeadlockTimeout
    /\ deadlock_warned \in BOOLEAN

Running == {n \in Nodes : status[n] = "running"}

Incomplete(n) == {e \in EdgesInto(n) : status[Producer[e]] # "completed"}

(***************************************************************************)
(* A node that was ever marked ready has every producer completed: the     *)
(* in-degree countdown of process_completions never lets a consumer start  *)
(* early, whatever the order of completions and duplicate edges.           *)
(***************************************************************************)
DependenciesHonoured ==
    \A e \in Edges :
        status[Consumer[e]] \in {"ready", "running", "completed", "failed"}
            => status[Producer[e]] = "completed"

(***************************************************************************)
(* The countdown is exact: pending_deps is the number of in-edges whose    *)
(* producer has not completed, so it never wraps below zero and a late or  *)
(* repeated report never counts twice.                                     *)
(***************************************************************************)
PendingDepsExact ==
    \A n \in Nodes : pending_deps[n] = Cardinality(Incomplete(n))

(***************************************************************************)
(* in_flight_ counts the running nodes exactly, over dispatch failures,    *)
(* failed and ignored completions, and never exceeds max_concurrency.      *)
(***************************************************************************)
InFlightExact ==
    /\ in_flight = Cardinality(Running)
    /\ in_flight <= MaxConcurrency

(***************************************************************************)
(* A task holds ranks exactly while it runs, and as many as it requires.   *)
(***************************************************************************)
RanksFollowTasks ==
    \A n \in Nodes : IF status[n] = "running"
                       THEN Cardinality(held[n]) = Required[n]
                       ELSE held[n] = {}

(***************************************************************************)
(* ready_queue_ holds every ready node once and nothing else: the branch   *)
(* of dispatch_ready_nodes that skips nodes cancelled between ready and    *)
(* dispatch has nothing to skip, and no ready node is ever lost.           *)
(***************************************************************************)
ReadyQueueExact ==
    /\ \A i \in 1 .. Len(ready_queue) : status[ready_queue[i]] = "ready"
    /\ \A i, j \in 1 .. Len(ready_queue) : ready_queue[i] = ready_queue[j] => i = j
    /\ \A n \in Nodes : status[n] = "ready"
                            => \E i \in 1 .. Len(ready_queue) : ready_queue[i] = n

(***************************************************************************)
(* The loop's bookkeeping agrees with the statuses after every step, so    *)
(* poll_ready_nodes, dispatch_ready_nodes and check_deadlock, which read   *)
(* only the bookkeeping, decide on the true state of the graph.            *)
(***************************************************************************)
BookkeepingExact == PendingDepsExact /\ InFlightExact /\ ReadyQueueExact

\* The nodes that a path of edges leads to from f.
Descendants(f) ==
    {m \in Nodes : \A S \in SUBSET Nodes :
        (\A e \in Edges : Producer[e] \in S \cup {f} => Consumer[e] \in S) => m \in S}

(***************************************************************************)
(* Every descendant of a failed node is cancelled: propagate_failure, in   *)
(* one search, reaches them all, also when failures, completions and late  *)
(* reports of other nodes came between.                                    *)
(***************************************************************************)
FailureCascades ==
    \A f \in Nodes : status[f] = "failed" => \A m \in Descendants(f) : status[m] = "cancelled"

(***************************************************************************)
(* When a cycle gets to dispatch with nodes left, something is running or  *)
(* queued: check_deadlock's early return on an idle loop never hides a     *)
(* graph that can make no progress.                                        *)
(***************************************************************************)
NoSilentStall ==
    phase = "dispatch" /\ ~AllComplete => in_flight > 0 \/ ready_queue # <<>>

(***************************************************************************)
(* If every dispatched task finishes, the loop brings every node to a      *)
(* terminal state, whatever fails: no node waits for a rank, a queue slot  *)
(* or a dependency for ever.                                               *)
(***************************************************************************)
TasksFinish ==
    \A n \in Nodes : WF_vars(status[n] = "running" /\ \E r \in {"ok", "error"} : TaskFinish(n, r))

EventuallyAllComplete == TasksFinish => <>AllComplete

(***************************************************************************)
(* If from some moment on nothing makes progress and nodes are left, the   *)
(* deadlock warning is raised, and stays raised.                           *)
(***************************************************************************)
StallIsReported ==
    <>[](elapsed = DeadlockTimeout /\ ~AllComplete) => <>[]deadlock_warned
=============================================================================
