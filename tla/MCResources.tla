---------------------------- MODULE MCResources ----------------------------
(***************************************************************************)
(* What is handed out and comes back, each table by itself: staging        *)
(* buffers, handles, ranks, prefetched buffers, and the objects behind the *)
(* C interfaces.                                                           *)
(***************************************************************************)
EXTENDS StagingPool, HandleTable, RankPoolVec, Bindings, PrefetchQueue

CONSTANTS r1, r2, b1, b2, f1, f2

VARIABLE part   \* the table in use; the others stay as they are built

Symmetry == Permutations({r1, r2}) \cup Permutations({b1, b2}) \cup Permutations({f1, f2})

RInit == /\ part \in {"staging", "handles", "ranks", "bindings", "prefetch"}
         /\ SPInit /\ HTInit /\ RPInit /\ BInit /\ Init

RNext ==
    \/ part = "staging" /\ SPNext /\ UNCHANGED <<part, htVars, rpVars, bvars, vars>>
    \/ part = "handles" /\ HTNext /\ UNCHANGED <<part, spVars, rpVars, bvars, vars>>
    \/ part = "ranks" /\ RPNext /\ UNCHANGED <<part, spVars, htVars, bvars, vars>>
    \/ part = "bindings" /\ BNext /\ UNCHANGED <<part, spVars, htVars, rpVars, vars>>
    \/ part = "prefetch" /\ Next /\ UNCHANGED <<part, spVars, htVars, rpVars, bvars>>

RSpec == RInit /\ [][RNext]_<<part, spVars, htVars, rpVars, bvars, vars>>
=============================================================================
