---------------------------- MODULE ValidateDag -----------------------------
(***************************************************************************)
(* GraphOrchestrator::Impl::validate_dag: reject dangling task references, *)
(* then Kahn's algorithm.  parse_pipeline runs the same algorithm on the   *)
(* graph it has just read.  The graph is an input: every one is initial.   *)
(***************************************************************************)
EXTENDS Naturals, FiniteSets, Sequences

CONSTANTS
    NumTasks,    \* config.task_names.size()
    Edges,       \* config.edges, by identity
    DanglingId   \* a task id out of range, for edges that name no task

Tasks == 0 .. NumTasks - 1

ASSUME DagAssumption == /\ NumTasks \in Nat
                        /\ IsFiniteSet(Edges)
                        /\ DanglingId \in Nat
                        /\ DanglingId >= NumTasks

VARIABLES
    producer,      \* edge -> producer_id
    consumer,      \* edge -> consumer_id
    in_degree,     \* the working copy Kahn's algorithm counts down
    queue,         \* nodes whose in-degree has reached zero
    sorted,        \* the nodes taken from the queue; sorted_count is their number
    sorted_count,
    verdict        \* "running", then what the call ended with

graph == <<producer, consumer>>
vars == <<graph, in_degree, queue, sorted, sorted_count, verdict>>

EdgesInto(n) == {e \in Edges : consumer[e] = n}

Dangling == \E e \in Edges : producer[e] \notin Tasks \/ consumer[e] \notin Tasks

\* The graph as configured, and the working copy of the in-degrees.
Init == /\ producer \in [Edges -> Tasks \cup {DanglingId}]
        /\ consumer \in [Edges -> Tasks \cup {DanglingId}]
        /\ in_degree = [n \in Tasks |-> Cardinality(EdgesInto(n))]
        /\ queue = {}
        /\ sorted = {}
        /\ sorted_count = 0
        /\ verdict = "start"

\* An edge with an id out of range throws before anything else is looked at.
RejectDangling ==
    /\ verdict = "start"
    /\ Dangling
    /\ verdict' = "dangling"
    /\ UNCHANGED <<graph, in_degree, queue, sorted, sorted_count>>

\* The nodes without producers are queued.
Seed == /\ verdict = "start"
        /\ ~Dangling
        /\ verdict' = "running"
        /\ queue' = {n \in Tasks : in_degree[n] = 0}
        /\ UNCHANGED <<graph, in_degree, sorted, sorted_count>>

\* Mutant of CountDown: duplicate edges are counted down once.
CountDownOnce(n) ==
    [m \in Tasks |-> IF \E e \in EdgesInto(m) : producer[e] = n
                       THEN in_degree[m] - 1 ELSE in_degree[m]]

\* in_degree after one decrement for every edge out of n
CountDown(n) ==
    [m \in Tasks |-> in_degree[m] - Cardinality({e \in EdgesInto(m) : producer[e] = n})]

\* The nodes whose in-degree the visit of n brings to zero
Freed(n) == {m \in Tasks : in_degree[m] # 0 /\ CountDown(n)[m] = 0}

\* One turn of the loop.  The order in which the deque yields its nodes makes
\* no difference to the verdict, so any queued node may be next.
Visit(n) ==
    /\ verdict = "running"
    /\ n \in queue
    /\ in_degree' = CountDown(n)
    /\ queue' = (queue \ {n}) \cup Freed(n)
    /\ sorted' = sorted \cup {n}
    /\ sorted_count' = sorted_count + 1
    /\ UNCHANGED <<graph, verdict>>

Accepted == sorted_count = NumTasks

Finish == /\ verdict = "running"
          /\ queue = {}
          /\ verdict' = IF Accepted THEN "acyclic" ELSE "cycle"
          /\ UNCHANGED <<graph, in_degree, queue, sorted, sorted_count>>

Next == RejectDangling \/ Seed \/ (\E n \in Tasks : Visit(n)) \/ Finish

Spec == Init /\ [][Next]_vars /\ WF_vars(Next)

-----------------------------------------------------------------------------
TypeOK == /\ producer \in [Edges -> Tasks \cup {DanglingId}]
          /\ consumer \in [Edges -> Tasks \cup {DanglingId}]
          /\ in_degree \in [Tasks -> Nat]
          /\ queue \in SUBSET Tasks
          /\ sorted \in SUBSET Tasks
          /\ sorted_count \in Nat
          /\ verdict \in {"start", "running", "dangling", "acyclic", "cycle"}

\* The reference: every nonempty set of tasks has one with no producer in it.
Acyclic ==
    \A S \in SUBSET Tasks : S # {} =>
        \E n \in S : \A e \in EdgesInto(n) : producer[e] \notin S

(***************************************************************************)
(* The verdict is right: a graph is accepted only if it has no cycle, and  *)
(* refused as cyclic only if it has one, duplicate edges and self-loops    *)
(* included.                                                               *)
(***************************************************************************)
VerdictCorrect ==
    /\ verdict = "acyclic" => ~Dangling /\ Acyclic
    /\ verdict = "cycle" => ~Dangling /\ ~Acyclic

=============================================================================
