-------------------------- MODULE ReplicatedGather --------------------------
(***************************************************************************)
(* halo::Replicated_Gather_Plan and halo::gather_replicated: every rank    *)
(* contributes a band of every level, and one MPI_Allgatherv with resized  *)
(* column datatypes gives every rank the whole field.  A collective ends   *)
(* for a rank when all ranks have entered it.                              *)
(***************************************************************************)
EXTENDS Integers, Sequences, SequencesExt, FiniteSets, TLC

CONSTANTS
    GSize,       \* the communicator's size
    GBands,      \* the local_band_count arguments
    GLevels,     \* the num_levels arguments
    GMaxRounds   \* bound on the gathers of a plan

GRanks == 0 .. GSize - 1

ASSUME GatherConstants ==
    /\ GSize \in Nat \ {0} /\ GMaxRounds \in Nat
    /\ GBands \subseteq Int /\ GLevels \subseteq Int

VARIABLES
    gband,      \* each rank's local_band_count
    glevels,    \* num_levels, the same on all ranks
    gmultiple,  \* MPI_THREAD_MULTIPLE was granted
    gstaged,    \* the views are on a device and MPI is not GPU-aware
    gpolicy,    \* Environment::error_policy
    gpc,        \* where each rank is
    gentered,   \* the collectives it has entered
    gcounts,    \* its plan's band_counts_, or <<>> before there is a plan
    glocked,    \* it holds serialization_mutex_
    ground,     \* the gathers it has completed
    gmirror,    \* the host receive mirror
    gdest,      \* the destination view
    gfault      \* an MPI call has failed

gvars == <<gband, glevels, gmultiple, gstaged, gpolicy, gpc, gentered, gcounts, glocked, ground, gmirror, gdest, gfault>>
gchosen == <<gband, glevels, gmultiple, gstaged, gpolicy>>

-----------------------------------------------------------------------------
(* Displacements and datatypes; ranks, levels and elements count from 0 *)

\* displacements[r]: the elements of the ranks below r.
prefix_sum(counts) ==
    LET displacements[r \in DOMAIN counts] == IF r = 0 THEN 0 ELSE displacements[r - 1] + counts[r - 1]
    IN displacements

per_level_total(counts) == prefix_sum(counts)[GSize - 1] + counts[GSize - 1]

\* The offsets that the first n instances of a column type cover, in the order
\* MPI walks them: one column of glevels blocks, then the next element's.
make_resized_column(stride, n) ==
    [i \in 1 .. n * glevels |-> ((i - 1) \div glevels) + ((i - 1) % glevels) * stride]

\* Rank r's source, contiguous in [level][band] order, in its n-th gather.
Source(r, n) == [i \in 0 .. glevels * gband[r] - 1 |-> <<r, i \div gband[r], i % gband[r], n>>]

\* Mutant of send_type: the levels are not interleaved by the column type.
send_type_dense(r) == [i \in 1 .. glevels * gband[r] |-> i - 1]
send_type(r) == make_resized_column(IF gband[r] > 0 THEN gband[r] ELSE 1, gband[r])
recv_type(counts, r) == make_resized_column(per_level_total(counts), counts[r])

\* What MPI_Allgatherv leaves in a receive buffer of rank r: the i-th element
\* of each rank's stream goes to the i-th offset of its receive columns.
Gathered(r, buf) ==
    LET counts == gcounts[r]
        n == ground[r] + 1
        At(o) == {x \in GRanks \X (1 .. Cardinality(DOMAIN buf)) :
                     /\ x[2] <= Len(send_type(x[1]))
                     /\ prefix_sum(counts)[x[1]] + recv_type(counts, x[1])[x[2]] = o}
    IN [o \in DOMAIN buf |-> IF At(o) = {} THEN buf[o]
                             ELSE LET x == CHOOSE y \in At(o) : TRUE IN Source(x[1], n)[send_type(x[1])[x[2]]]]

Blank(counts) == [o \in 0 .. glevels * per_level_total(counts) - 1 |-> <<"old">>]

-----------------------------------------------------------------------------

GInit ==
    /\ gband \in [GRanks -> GBands] /\ glevels \in GLevels
    /\ gmultiple \in BOOLEAN /\ gstaged \in BOOLEAN
    /\ gpolicy \in {"throw_on_error", "abort_with_diagnostics"}
    /\ gpc = [r \in GRanks |-> "plan"]
    /\ gentered = [r \in GRanks |-> 0]
    /\ gcounts = [r \in GRanks |-> <<>>]
    /\ glocked = [r \in GRanks |-> FALSE]
    /\ ground = [r \in GRanks |-> 0]
    /\ gmirror = [r \in GRanks |-> <<>>]
    /\ gdest = [r \in GRanks |-> <<>>]
    /\ gfault = FALSE

Goto(r, pc) == gpc' = [gpc EXCEPT ![r] = pc]

\* Serialized_MPI_Guard: serialization_mutex_ is not recursive.
GLock(r) == IF gmultiple THEN UNCHANGED glocked ELSE ~glocked[r] /\ glocked' = [glocked EXCEPT ![r] = TRUE]
GUnlock(r) == glocked' = [glocked EXCEPT ![r] = FALSE]

Enter(r) == gentered' = [gentered EXCEPT ![r] = @ + 1]
AllEntered(r) == \A q \in GRanks : gentered[q] >= gentered[r]

\* The exception leaves the call, or the job aborts.
handle_mpi_error(r) ==
    IF gpolicy = "throw_on_error" THEN Goto(r, "threw") ELSE gpc' = [q \in GRanks |-> "aborted"]

\* The constructor refuses its arguments before any MPI call, or enters allgather.
PlanRefused(r) ==
    /\ gpc[r] = "plan" /\ (glevels = 0 \/ gband[r] < 0)
    /\ Goto(r, "refused")
    /\ UNCHANGED <<gentered, gcounts, glocked, ground, gmirror, gdest, gfault, gchosen>>

allgather(r) ==
    /\ gpc[r] = "plan" /\ glevels # 0 /\ gband[r] >= 0
    /\ Goto(r, "allgather") /\ Enter(r)
    /\ UNCHANGED <<gcounts, glocked, ground, gmirror, gdest, gfault, gchosen>>

\* Band counts, displacements and datatypes; MPI_Type_vector refuses a
\* negative number of levels, which the constructor does not test for.
PlanBuilt(r) ==
    /\ gpc[r] = "allgather" /\ AllEntered(r)
    /\ IF glevels < 0
       THEN handle_mpi_error(r) /\ gfault' = TRUE /\ UNCHANGED <<gcounts, gdest>>
       ELSE /\ Goto(r, "idle") /\ UNCHANGED gfault
            /\ gcounts' = [gcounts EXCEPT ![r] = gband]
            /\ gdest' = [gdest EXCEPT ![r] = Blank(gband)]
    /\ UNCHANGED <<gentered, glocked, ground, gmirror, gchosen>>

gather_replicated(r) ==
    /\ gpc[r] = "idle" /\ ground[r] < GMaxRounds
    /\ GLock(r) /\ Goto(r, "ready")
    /\ UNCHANGED <<gentered, gcounts, ground, gmirror, gdest, gfault, gchosen>>

\* The readiness and status gates call allreduce, which takes the guard again.
allreduce(r, from, to) ==
    /\ gpc[r] = from /\ (gmultiple \/ ~glocked[r])
    /\ Goto(r, to) /\ Enter(r)
    /\ UNCHANGED <<gcounts, glocked, ground, gmirror, gdest, gfault, gchosen>>

\* prepare: a host mirror for a staged gather; then MPI_Allgatherv is entered.
prepare(r) ==
    /\ gpc[r] = "in_ready" /\ AllEntered(r)
    /\ gmirror' = [gmirror EXCEPT ![r] = IF gstaged THEN Blank(gcounts[r]) ELSE <<>>]
    /\ Goto(r, "gather") /\ Enter(r)
    /\ UNCHANGED <<gcounts, glocked, ground, gdest, gfault, gchosen>>

\* stage_recv copies the mirror to the device; otherwise MPI wrote into dest.
finalize(r, got) == gdest' = [gdest EXCEPT ![r] = got]

Allgatherv(r) ==
    /\ gpc[r] = "gather" /\ AllEntered(r)
    /\ finalize(r, Gathered(r, IF gstaged THEN gmirror[r] ELSE gdest[r]))
    /\ Goto(r, "status")
    /\ UNCHANGED <<gentered, gcounts, glocked, ground, gmirror, gfault, gchosen>>

\* The exception skips the status gate.
AllgathervFails(r) ==
    /\ gpc[r] = "gather" /\ AllEntered(r) /\ ~gfault
    /\ gfault' = TRUE /\ GUnlock(r) /\ handle_mpi_error(r)
    /\ UNCHANGED <<gentered, gcounts, ground, gmirror, gdest, gchosen>>

GReturn(r) ==
    /\ gpc[r] = "in_status" /\ AllEntered(r)
    /\ Goto(r, "idle") /\ GUnlock(r)
    /\ ground' = [ground EXCEPT ![r] = @ + 1]
    /\ UNCHANGED <<gentered, gcounts, gmirror, gdest, gfault, gchosen>>

GStep(r) ==
    \/ PlanRefused(r) \/ allgather(r) \/ PlanBuilt(r)
    \/ gather_replicated(r) \/ allreduce(r, "ready", "in_ready") \/ prepare(r)
    \/ Allgatherv(r) \/ allreduce(r, "status", "in_status") \/ GReturn(r)

GNext == \E r \in GRanks : GStep(r) \/ AllgathervFails(r)

GSpec == GInit /\ [][GNext]_gvars

-----------------------------------------------------------------------------
(* Properties *)

\* When gather_replicated returns, the destination of every rank holds, at
\* [level][displacement + j], element j of that level of the rank it came
\* from, and of this gather: the send and receive columns undo each other.
GatherPlaced ==
    \A r \in GRanks : gpc[r] = "idle" /\ ground[r] > 0 =>
        \A q \in GRanks : \A l \in 0 .. glevels - 1 : \A j \in 0 .. gband[q] - 1 :
            gdest[r][l * per_level_total(gband) + prefix_sum(gband)[q] + j] = <<q, l, j, ground[r]>>

\* With MPI_THREAD_MULTIPLE, arguments that every rank's plan accepts and no
\* failing MPI call, all ranks finish their gathers.
GatherReturns ==
    (/\ gmultiple /\ glevels > 0 /\ \A r \in GRanks : gband[r] >= 0)
        ~> (gfault \/ \A r \in GRanks : ground[r] = GMaxRounds)

=============================================================================
