------------------------------ MODULE RankPool ------------------------------
(***************************************************************************)
(* What dagr::detail::Rank_Pool promises its callers: a set of MPI ranks,  *)
(* each either free or held by exactly one task.  Every operation takes    *)
(* structural_mutex_, so an operation is one step here.  The vectors, the  *)
(* counters and the lock-free accessors behind it are in RankPoolVec.      *)
(***************************************************************************)
EXTENDS Naturals, FiniteSets

CONSTANTS
    Ranks,      \* every MPI rank a caller may name
    Nodes,      \* the task nodes that hold ranks
    Initial     \* the ranks the pool is built from

ASSUME RankAssumption == /\ IsFiniteSet(Ranks)
                         /\ IsFiniteSet(Nodes)
                         /\ Initial \subseteq Ranks

VARIABLES
    pool,       \* the ranks in rank_ids_
    free,       \* those whose bit in bitset_ is set
    held        \* Event_Loop::allocated_ranks_: what each task was given

poolVars == <<pool, free, held>>

PoolInit == /\ pool = Initial
            /\ free = Initial
            /\ held = [n \in Nodes |-> {}]

\* try_allocate: `count` free ranks, or nothing at all.
TryAllocate(n, count) ==
    \E got \in SUBSET free :
        /\ Cardinality(got) = count
        /\ free' = free \ got
        /\ held' = [held EXCEPT ![n] = got]
        /\ pool' = pool

\* try_allocate finds too few available ranks and returns the empty set.
Insufficient(count) == Cardinality(free) < count

\* Mutants of ReleaseOf: the clear() is missing; the bits are not set again.
ReleaseWithoutClear(S) ==
    /\ free' = free \cup ((UNION {held[n] : n \in S}) \cap pool)
    /\ UNCHANGED <<pool, held>>
ReleaseLosesRanks(S) ==
    /\ held' = [n \in Nodes |-> IF n \in S THEN {} ELSE held[n]]
    /\ UNCHANGED <<pool, free>>

\* release of what a task holds, and the clear() that follows every release.
ReleaseOf(S) ==
    /\ free' = free \cup ((UNION {held[n] : n \in S}) \cap pool)
    /\ held' = [n \in Nodes |-> IF n \in S THEN {} ELSE held[n]]
    /\ pool' = pool

\* add_ranks ignores the ranks the pool already manages.
AddRanks(rs) ==
    /\ pool' = pool \cup rs
    /\ free' = free \cup (rs \ pool)
    /\ held' = held

\* remove_available takes out the free ranks among rs, and only those.
Removed(rs) == rs \cap free

RemoveAvailable(rs) ==
    /\ pool' = pool \ Removed(rs)
    /\ free' = free \ Removed(rs)
    /\ held' = held

PoolNext ==
    \/ \E n \in Nodes, k \in 1 .. Cardinality(Ranks) :
           held[n] = {} /\ TryAllocate(n, k)
    \/ \E n \in Nodes : held[n] # {} /\ ReleaseOf({n})
    \/ \E rs \in SUBSET Ranks : AddRanks(rs) \/ RemoveAvailable(rs)

PoolSpec == PoolInit /\ [][PoolNext]_poolVars

-----------------------------------------------------------------------------
PoolTypeOK == /\ pool \in SUBSET Ranks
              /\ free \in SUBSET Ranks
              /\ held \in [Nodes -> SUBSET Ranks]

(***************************************************************************)
(* Conservation: every rank of the pool is free or held by exactly one     *)
(* task, and no task holds a rank that left the pool.  Allocation,         *)
(* completion, failure, forced cancellation and reclamation all move ranks *)
(* between these sets.                                                     *)
(***************************************************************************)
RanksConserved ==
    /\ free \subseteq pool
    /\ pool = free \cup UNION {held[n] : n \in Nodes}
    /\ \A n \in Nodes : held[n] \cap free = {}
    /\ \A m, n \in Nodes : m # n => held[m] \cap held[n] = {}
=============================================================================
