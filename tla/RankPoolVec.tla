---------------------------- MODULE RankPoolVec -----------------------------
(***************************************************************************)
(* dagr::detail::Rank_Pool as it is stored: the parallel vectors rank_ids_ *)
(* and bitset_, and the counters total_ and available_.  An operation      *)
(* changes the vectors and then, still under structural_mutex_, updates    *)
(* the counters one atomic at a time; the accessors read the counters      *)
(* without the mutex.                                                      *)
(***************************************************************************)
EXTENDS Integers, Sequences, FiniteSets, SequencesExt, FiniteSetsExt

CONSTANTS
    Ranks,          \* every MPI rank a caller may name, integers
    PoolThreads,        \* the callers
    Initial,        \* the ranks of the constructor
    CounterModulus  \* the counters are std::uint32_t: 2^32, here smaller

ASSUME VecAssumption == /\ Ranks \subseteq Nat
                        /\ IsFiniteSet(Ranks)
                        /\ Initial \subseteq Ranks
                        /\ "none" \notin PoolThreads
                        /\ CounterModulus \in Nat
                        /\ CounterModulus > 2 * Cardinality(Ranks)

VARIABLES
    rank_ids, bitset,  \* the vectors
    total, available,  \* the atomics
    owner,             \* the thread inside structural_mutex_, or "none"
    updates,           \* the counter updates the owner still has to make
    held,              \* the ranks each thread was given and not yet returned
    reading,           \* per thread: the total_ that allocated_ranks() has
                       \* loaded, or -1
    observed           \* per thread: what allocated_ranks() last returned

vecVars == <<rank_ids, bitset>>
readVars == <<reading, observed>>
rpVars == <<vecVars, total, available, owner, updates, held, readVars>>

\* The members of S in the order in which a std::set<int> is iterated.
Ascending(S) ==
    CHOOSE s \in [1 .. Cardinality(S) -> S] :
        \A i, j \in 1 .. Cardinality(S) : i < j => s[i] < s[j]

RPInit == /\ rank_ids = Ascending(Initial)
        /\ bitset = [i \in 1 .. Cardinality(Initial) |-> TRUE]
        /\ total = Cardinality(Initial)
        /\ available = Cardinality(Initial)
        /\ owner = "none"
        /\ updates = <<>>
        /\ held = [t \in PoolThreads |-> {}]
        /\ reading = [t \in PoolThreads |-> -1]
        /\ observed = [t \in PoolThreads |-> 0]

InPool == ToSet(rank_ids)
Free   == {rank_ids[i] : i \in {j \in 1 .. Len(bitset) : bitset[j]}}

\* Thread t takes the mutex, and leaves `us` to be done before it gives it up.
Enter(t, us) == /\ owner = "none"
                /\ reading[t] = -1
                /\ owner' = t
                /\ updates' = us

\* The loop of try_allocate: the first `count` slots whose bit is set.
FirstFit(count) ==
    {i \in 1 .. Len(bitset) :
        bitset[i] /\ Cardinality({j \in 1 .. i : bitset[j]}) <= count}

\* try_allocate, where the available counter promises enough; the bits are
\* rolled back if the loop finds too few.
TryAllocate(t, count) ==
    /\ held[t] = {}
    /\ available >= count
    /\ LET slots == FirstFit(count) IN
         IF Cardinality(slots) < count
           THEN /\ Enter(t, <<>>)
                /\ UNCHANGED <<bitset, held>>
           ELSE /\ Enter(t, << <<"available", -count>> >>)
                /\ bitset' = [i \in DOMAIN bitset |-> bitset[i] /\ i \notin slots]
                /\ held' = [held EXCEPT ![t] = {rank_ids[i] : i \in slots}]
    /\ UNCHANGED <<rank_ids, total, available, readVars>>

\* release: only bits that were cleared count.
RPRelease(t) ==
    /\ held[t] # {}
    /\ LET slots == {i \in DOMAIN rank_ids : rank_ids[i] \in held[t] /\ ~bitset[i]} IN
         /\ Enter(t, IF slots = {} THEN <<>> ELSE << <<"available", Cardinality(slots)>> >>)
         /\ bitset' = [i \in DOMAIN bitset |-> bitset[i] \/ i \in slots]
    /\ held' = [held EXCEPT ![t] = {}]
    /\ UNCHANGED <<rank_ids, total, available, readVars>>

\* Mutant of NewRanks: a rank the pool has already is added again.
NewRanksAll(rs) == rs

NewRanks(rs) == rs \ InPool

\* add_ranks: for each rank the pool does not manage yet, in ascending order,
\* a new slot, then total_, then available_.
AddRanks(t, rs) ==
    LET new == Ascending(NewRanks(rs))
    IN  /\ Enter(t, [i \in 1 .. 2 * Len(new) |->
                        IF i % 2 = 1 THEN <<"total", 1>> ELSE <<"available", 1>>])
        /\ rank_ids' = rank_ids \o new
        /\ bitset' = bitset \o [i \in DOMAIN new |-> TRUE]
        /\ UNCHANGED <<total, available, held, readVars>>

\* Swap with the last slot and pop.
DropSlot(v, i) == Front([v EXCEPT ![i] = Last(v)])

\* Mutant of DoomedSlots: allocated ranks are removed too.
DoomedSlotsHeldToo(rs) ==
    Reverse(Ascending({i \in DOMAIN rank_ids : rank_ids[i] \in rs}))

\* The slots of the free ranks among rs, highest index first.
DoomedSlots(rs) ==
    Reverse(Ascending({i \in DOMAIN rank_ids : rank_ids[i] \in rs /\ bitset[i]}))

\* The loop over the doomed slots: what it leaves of the vector v.
Compacted(v, doomed) ==
    LET d[k \in 0 .. Len(doomed)] ==
            IF k = 0 THEN v ELSE DropSlot(d[k - 1], doomed[k])
    IN  d[Len(doomed)]

RemoveAvailable(t, rs) ==
    LET doomed == DoomedSlots(rs)
        k == Len(doomed)
    IN  /\ Enter(t, IF k = 0 THEN <<>> ELSE << <<"total", -k>>, <<"available", -k>> >>)
        /\ rank_ids' = Compacted(rank_ids, doomed)
        /\ bitset' = Compacted(bitset, doomed)
        /\ UNCHANGED <<total, available, held, readVars>>

\* The next fetch_add or fetch_sub of the operation in progress.
UpdateCounter ==
    /\ updates # <<>>
    /\ LET u == Head(updates) IN
         /\ total' = (IF u[1] = "total" THEN total + u[2] ELSE total) % CounterModulus
         /\ available' = (IF u[1] = "available" THEN available + u[2] ELSE available)
                            % CounterModulus
    /\ updates' = Tail(updates)
    /\ UNCHANGED <<vecVars, owner, held, readVars>>

Leave ==
    /\ owner # "none"
    /\ updates = <<>>
    /\ owner' = "none"
    /\ UNCHANGED <<vecVars, total, available, updates, held, readVars>>

\* allocated_ranks(): total_ is loaded, then available_, with no lock held.
LoadTotal(t) ==
    /\ owner # t
    /\ reading[t] = -1
    /\ reading' = [reading EXCEPT ![t] = total]
    /\ UNCHANGED <<vecVars, total, available, owner, updates, held, observed>>

Allocated(tot) == (tot - available) % CounterModulus

LoadAvailable(t) ==
    /\ reading[t] # -1
    /\ observed' = [observed EXCEPT ![t] = Allocated(reading[t])]
    /\ reading' = [reading EXCEPT ![t] = -1]
    /\ UNCHANGED <<vecVars, total, available, owner, updates, held>>

RPNext == \/ \E t \in PoolThreads :
             \/ \E k \in 1 .. Cardinality(Ranks) : TryAllocate(t, k)
             \/ RPRelease(t)
             \/ \E rs \in SUBSET Ranks \ {{}} : AddRanks(t, rs) \/ RemoveAvailable(t, rs)
             \/ LoadTotal(t)
             \/ LoadAvailable(t)
        \/ UpdateCounter
        \/ Leave

RPSpec == RPInit /\ [][RPNext]_rpVars

-----------------------------------------------------------------------------
RPTypeOK == /\ rank_ids \in Seq(Ranks)
          /\ bitset \in Seq(BOOLEAN)
          /\ total \in 0 .. CounterModulus - 1
          /\ available \in 0 .. CounterModulus - 1
          /\ owner \in PoolThreads \cup {"none"}
          /\ held \in [PoolThreads -> SUBSET Ranks]
          /\ reading \in [PoolThreads -> -1 .. CounterModulus - 1]
          /\ observed \in [PoolThreads -> 0 .. CounterModulus - 1]

(***************************************************************************)
(* Whenever the mutex is free the counters are the vectors' own counts,    *)
(* the vectors are parallel and name no rank twice: try_allocate's quick   *)
(* check on available_ is exact, and its roll-back is never needed.        *)
(***************************************************************************)
CountersSettled ==
    owner = "none" =>
        /\ Len(rank_ids) = Len(bitset)
        /\ Cardinality(InPool) = Len(rank_ids)
        /\ total = Len(rank_ids)
        /\ available = Cardinality(Free)

(***************************************************************************)
(* The vectors and the counters hold what their types say at every moment, *)
(* between two updates of the counters too, and agree whenever the mutex   *)
(* is free.                                                                *)
(***************************************************************************)
VectorsExact == RPTypeOK /\ CountersSettled

Abstract == INSTANCE RankPool WITH Nodes <- PoolThreads, pool <- InPool, free <- Free
(***************************************************************************)
(* The vectors implement the pool of sets: whatever is swapped, popped,    *)
(* flipped or appended, a caller sees ranks that are free or held by one   *)
(* task.                                                                   *)
(***************************************************************************)
ImplementsRankPool == Abstract!PoolSpec

=============================================================================
