------------------------ MODULE MCGraphOrchestrator -------------------------
(***************************************************************************)
(* The event loop with tasks that end and fail, and the public calls, over *)
(* one graph: 0 -> {2, 3}, 1 -> 2 declared twice, 2 -> 3.  The pool is     *)
(* built from two of three ranks, and node 0 needs both.                   *)
(***************************************************************************)
EXTENDS GraphOrchestrator

CONSTANTS r0, r1, r2

VARIABLE part   \* who drives the loop: a thread calling cycle(), or the calls

MCNodes == 0 .. 3
MCRanks == {r0, r1, r2}
MCInitial == {r0, r1}
MCEdges == 1 .. 5
MCProducer == <<0, 0, 1, 1, 2>>
MCConsumer == <<2, 3, 2, 2, 3>>
MCRequired == [n \in MCNodes |-> IF n = 0 THEN 2 ELSE 1]

MCInit == part \in {"loop", "calls"} /\ OrchInit

MCNext ==
    \/ part = "loop" /\ Next /\ UNCHANGED <<part, orchVars>>
    \/ part = "calls" /\ OrchNext /\ UNCHANGED part

\* The thread that calls cycle() keeps calling it, and the clock runs.  A
\* public call in progress keeps running, and the drain timeout expires.
MCFairness ==
    /\ WF_vars(part = "loop" /\ Loop)
    /\ WF_vars(part = "loop" /\ Tick)
    /\ WF_allVars(part = "calls" /\ Working)
    /\ SF_allVars(part = "calls" /\ ShutdownForced)

MCSpec == MCInit /\ [][MCNext]_<<allVars, part>> /\ MCFairness

(***************************************************************************)
(* The loop, driven by a thread that keeps calling cycle(), brings every   *)
(* node to a terminal state if the dispatched tasks finish, and if nothing *)
(* progresses any more it raises the deadlock warning for good, over every *)
(* order of failures, completions and late reports.                        *)
(***************************************************************************)
LoopEnds == part = "loop" => EventuallyAllComplete /\ StallIsReported
=============================================================================
