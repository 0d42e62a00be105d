------------------------- MODULE GraphOrchestrator --------------------------
(***************************************************************************)
(* dagr::GraphOrchestrator: the public calls that drive the event loop,    *)
(* and the ranks a model yields to it and takes back.  Calls come one at a *)
(* time.  The dispatch callback run() installs always accepts and the      *)
(* completion callback it installs returns an empty vector; without run()  *)
(* there are no callbacks, which comes to the same.                        *)
(***************************************************************************)
EXTENDS EventLoop

VARIABLES
    call,      \* the public call in progress
    stage,     \* inside it: before a cycle, or before the reclamation
    shut_down, \* Impl::shut_down
    deferred,  \* Impl::deferred_reclaim
    wanted     \* per rank, the caller's last request: a history variable

callVars == <<call, stage, shut_down>>
orchVars == <<callVars, deferred, wanted>>
allVars == <<vars, orchVars>>

OrchInit == /\ Init
            /\ call = "none"
            /\ stage = "loop"
            /\ shut_down = FALSE
            /\ deferred = {}
            /\ wanted = [r \in Ranks |-> IF r \in Initial THEN "yield" ELSE "never"]

CanCall == call = "none" /\ ~shut_down

Enter(c) == /\ CanCall
            /\ call' = c
            /\ stage' = "loop"
            /\ UNCHANGED <<vars, shut_down, deferred, wanted>>

Run         == Enter("run")
AdvanceStep == Enter("advance_step")
Shutdown    == Enter("shutdown")

\* cycle() is called: by shutdown() while tasks are in flight, once by
\* advance_step(), and by run() until every node is terminal.
BeginCycle ==
    /\ StartCycle
    /\ stage' = "reclaim"
    /\ UNCHANGED <<call, shut_down, deferred, wanted>>

CycleOnce ==
    /\ stage = "loop"
    /\ call = "advance_step" \/ (call = "shutdown" /\ in_flight > 0)
    /\ BeginCycle

\* The test of run()'s loop.  When run() leaves it with a failed node it
\* throws, which changes nothing.
RunLoop ==
    /\ stage = "loop"
    /\ call = "run"
    /\ IF AllComplete
         THEN call' = "none" /\ UNCHANGED <<vars, stage, shut_down, deferred, wanted>>
         ELSE BeginCycle

InCycle == /\ PollNode \/ PollEnd \/ Dispatch \/ DispatchAccepted \/ DispatchEnd \/ EndCycle
           /\ UNCHANGED orchVars

\* process_deferred_reclamation, which follows every cycle; advance_step()
\* returns after it.
ProcessDeferred ==
    /\ stage = "reclaim"
    /\ phase = "idle"
    /\ RemoveAvailable(deferred)
    /\ deferred' = deferred \ Removed(deferred)
    /\ stage' = "loop"
    /\ call' = IF call = "advance_step" THEN "none" ELSE call
    /\ UNCHANGED <<taskVars, timeVars, loopVars, finished, shut_down, wanted>>

\* Mutant of CancelRunning: the nodes are marked and keep their ranks.
CancelRunningKeepsRanks ==
    /\ status' = [n \in Nodes |-> IF n \in Running THEN "cancelled" ELSE status[n]]
    /\ in_flight' = 0
    /\ UNCHANGED poolVars

\* Event_Loop::force_cancel_in_flight
CancelRunning ==
    /\ status' = [n \in Nodes |-> IF n \in Running THEN "cancelled" ELSE status[n]]
    /\ ReleaseOf(Running)
    /\ in_flight' = 0

\* shutdown(): the drain timeout expires with tasks in flight.
ShutdownForced ==
    /\ call = "shutdown" /\ stage = "loop"
    /\ in_flight > 0
    /\ CancelRunning
    /\ RecordProgress
    /\ call' = "none"
    /\ shut_down' = TRUE
    /\ UNCHANGED <<pending_deps, ready_queue, loopVars, finished, stage, deferred, wanted>>

\* Mutant of ShutdownDrained: shutdown() waits for the queue as well.
ShutdownWhenQueueEmpty ==
    /\ call = "shutdown" /\ stage = "loop"
    /\ in_flight = 0 /\ ready_queue = <<>>
    /\ call' = "none"
    /\ shut_down' = TRUE
    /\ UNCHANGED <<vars, stage, deferred, wanted>>

ShutdownDrained ==
    /\ call = "shutdown" /\ stage = "loop"
    /\ in_flight = 0
    /\ call' = "none"
    /\ shut_down' = TRUE
    /\ UNCHANGED <<vars, stage, deferred, wanted>>

YieldRanks(rs) ==
    /\ CanCall
    /\ AddRanks(rs)
    /\ wanted' = [r \in Ranks |-> IF r \in rs THEN "yield" ELSE wanted[r]]
    /\ UNCHANGED <<taskVars, timeVars, loopVars, finished, callVars, deferred>>

\* Mutant of TakeBack: only the deferred list is updated.
TakeBackLater(rs) == UNCHANGED poolVars

\* reclaim_ranks takes the free ranks out at once.
TakeBack(rs) == RemoveAvailable(rs)

\* "Reclaim previously yielded ranks": rs names ranks the pool has had.
ReclaimRanks(rs) ==
    /\ CanCall
    /\ \A r \in rs : wanted[r] # "never"
    /\ TakeBack(rs)
    /\ deferred' = deferred \cup (rs \ Removed(rs))
    /\ wanted' = [r \in Ranks |-> IF r \in rs THEN "reclaim" ELSE wanted[r]]
    /\ UNCHANGED <<taskVars, timeVars, loopVars, finished, callVars>>

Working == \/ CycleOnce \/ RunLoop \/ InCycle \/ ProcessDeferred
           \/ ShutdownForced \/ ShutdownDrained

Calling == \/ Run \/ AdvanceStep \/ Shutdown
           \/ \E rs \in SUBSET Ranks \ {{}} : YieldRanks(rs) \/ ReclaimRanks(rs)

OrchNext == \/ Working
            \/ Calling
            \/ Tick /\ call # "none" /\ UNCHANGED orchVars

OrchSpec == OrchInit /\ [][OrchNext]_allVars

-----------------------------------------------------------------------------
(***************************************************************************)
(* After shutdown() no task runs and every rank of the pool is free again, *)
(* whether it drained or gave up waiting: force_cancel_in_flight returns   *)
(* what the tasks held.                                                    *)
(***************************************************************************)
ShutdownReleasesRanks ==
    shut_down => Running = {} /\ in_flight = 0 /\ free = pool

Used == UNION {held[n] : n \in Nodes}

(***************************************************************************)
(* A rank the caller has reclaimed is not given to a task again until it   *)
(* is yielded again, although a rank in use is reclaimed only later.       *)
(***************************************************************************)
ReclaimedNotGiven ==
    [][\A r \in Ranks : wanted[r] = "reclaim" /\ r \notin Used => r \notin Used']_allVars

(***************************************************************************)
(* shutdown() returns, whatever is in flight when it is called.            *)
(***************************************************************************)
ShutdownReturns == call = "shutdown" ~> shut_down

(***************************************************************************)
(* dagr.hpp: run() is to "enter the event loop and process all tasks to    *)
(* completion", so a call of run() returns.                                *)
(***************************************************************************)
RunProcessesAllTasks == call = "run" ~> call # "run"
=============================================================================
