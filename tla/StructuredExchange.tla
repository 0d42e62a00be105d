------------------------- MODULE StructuredExchange -------------------------
(***************************************************************************)
(* halo::Structured_Halo_Plan and the face exchanges over it:              *)
(* exchange_structured_blocking, exchange_structured_async and             *)
(* exchange_neighbor_collective.  Every rank owns a block of a Cartesian   *)
(* grid with a ghost zone on each face; face 2d is the low side of         *)
(* dimension d, 2d + 1 the high side (dimensions and indices from 0).      *)
(***************************************************************************)
EXTENDS Integers, Sequences, SequencesExt, FiniteSetsExt

CONSTANTS
    Layouts,     \* [extents, widths, neighbors]: a decomposition of the grid
    SMaxRounds   \* bound on the exchanges of a rank

VARIABLES
    layout,   \* the decomposition in use
    sroute,   \* "faces": blocking and asynchronous calls; "collective"
    spc,      \* where each rank is
    sround,   \* the exchanges it has completed
    field,    \* its view: index -> value
    packed,   \* per pair of ranks, the packed faces on their way, in order
    awaited,  \* per pair of ranks, the faces to receive into, in order
    landed,   \* the receive buffers of a rank that are filled: face -> values
    topo      \* the ranks that entered MPI_Dist_graph_create_adjacent

svars == <<layout, sroute, spc, sround, field, packed, awaited, landed, topo>>

Blocks == DOMAIN layout.neighbors
Pairs == Blocks \X Blocks
Dims == 1 .. Len(layout.extents)
Faces == 0 .. 2 * Len(layout.extents) - 1
DimOf(f) == f \div 2 + 1

-----------------------------------------------------------------------------
(* Structured_Halo_Plan *)

validate_extents == \A d \in Dims : layout.extents[d] >= 2 * layout.widths[d]

has_neighbor(r, f) == layout.neighbors[r][f] >= 0
Active(r) == SelectSeq([i \in 1 .. 2 * Len(layout.extents) |-> i - 1], LAMBDA f : has_neighbor(r, f))

\* Ghost zones included.
Cells == {c \in [Dims -> 0 .. Max(Range(layout.extents)) - 1] : \A d \in Dims : c[d] < layout.extents[d]}
Interior(c) == \A d \in Dims : c[d] >= layout.widths[d] /\ c[d] < layout.extents[d] - layout.widths[d]

\* In the face's dimension the h cells inside the ghost zone are sent and the
\* ghost zone is received; in the others the slab spans the whole extent.
Slab(f, lo, hi) == {c \in Cells : c[DimOf(f)] >= lo /\ c[DimOf(f)] < hi}

\* Mutant of send_region: on the high side the ghost cells are sent.
send_region_outer(f) ==
    LET h == layout.widths[DimOf(f)]
        n == layout.extents[DimOf(f)]
    IN IF f % 2 = 0 THEN Slab(f, h, 2 * h) ELSE Slab(f, n - h, n)

send_region(f) ==
    LET h == layout.widths[DimOf(f)]
        n == layout.extents[DimOf(f)]
    IN IF f % 2 = 0 THEN Slab(f, h, 2 * h) ELSE Slab(f, n - 2 * h, n - h)

recv_region(f) ==
    LET h == layout.widths[DimOf(f)]
        n == layout.extents[DimOf(f)]
    IN IF f % 2 = 0 THEN Slab(f, 0, h) ELSE Slab(f, n - h, n)

-----------------------------------------------------------------------------
(* Pack and unpack: the k-th cell of a region, the last dimension fastest. *)

RowMajor(region) ==
    SetToSortSeq(region, LAMBDA a, b : \E d \in Dims : a[d] < b[d] /\ \A e \in 1 .. d - 1 : a[e] = b[e])

pack(v, region) == LET s == RowMajor(region) IN [k \in 1 .. Len(s) |-> v[s[k]]]

unpack(v, region, buf) ==
    LET s == RowMajor(region)
    IN [c \in DOMAIN v |-> IF c \in region THEN buf[CHOOSE k \in 1 .. Len(s) : s[k] = c] ELSE v[c]]

SInit ==
    /\ layout \in Layouts
    /\ sroute \in {"faces", "collective"}
    /\ spc = [r \in Blocks |-> IF validate_extents THEN "idle" ELSE "refused"]
    /\ sround = [r \in Blocks |-> 0]
    /\ field = [r \in Blocks |-> [c \in Cells |-> IF Interior(c) THEN <<r, c, 1>> ELSE <<"ghost">>]]
    /\ packed = [p \in Pairs |-> <<>>]
    /\ awaited = [p \in Pairs |-> <<>>]
    /\ landed = [r \in Blocks |-> [f \in Faces |-> <<>>]]
    /\ topo = {}

-----------------------------------------------------------------------------
(* The exchange *)

\* The faces with a neighbour are packed, then every receive is posted, then
\* every send, both in face order; so is the neighbour list of a collective.
PostFaces(r) ==
    LET For(n) == SelectSeq(Active(r), LAMBDA f : layout.neighbors[r][f] = n)
    IN /\ packed' = [p \in Pairs |-> IF p[1] = r
                       THEN packed[p] \o [i \in 1 .. Len(For(p[2])) |-> pack(field[r], send_region(For(p[2])[i]))]
                       ELSE packed[p]]
       /\ awaited' = [p \in Pairs |-> IF p[2] = r THEN awaited[p] \o For(p[1]) ELSE awaited[p]]

SReturn(r, v) ==
    /\ spc' = [spc EXCEPT ![r] = "idle"]
    /\ sround' = [sround EXCEPT ![r] = @ + 1]
    /\ field' = [field EXCEPT ![r] = [c \in Cells |-> IF Interior(c) THEN <<r, c, sround[r] + 2>> ELSE v[c]]]
    /\ landed' = [landed EXCEPT ![r] = [f \in Faces |-> <<>>]]

\* Nothing to do without neighbours, not even for the collective.
NoFaces(r) ==
    /\ spc[r] = "idle" /\ sround[r] < SMaxRounds /\ Active(r) = <<>>
    /\ SReturn(r, field[r]) /\ UNCHANGED <<layout, sroute, packed, awaited, topo>>

ExchangeFaces(r) ==
    /\ spc[r] = "idle" /\ sround[r] < SMaxRounds /\ Active(r) # <<>> /\ sroute = "faces"
    /\ PostFaces(r)
    /\ spc' = [spc EXCEPT ![r] = "waiting"]
    /\ UNCHANGED <<layout, sroute, sround, field, landed, topo>>

\* topology_comm creates its communicator once, a collective call of all ranks.
EnterCollective(r) ==
    /\ spc[r] = "idle" /\ sround[r] < SMaxRounds /\ Active(r) # <<>> /\ sroute = "collective"
    /\ topo' = topo \cup {r}
    /\ spc' = [spc EXCEPT ![r] = "topology"]
    /\ UNCHANGED <<layout, sroute, sround, field, packed, awaited, landed>>

Neighbor_alltoallv(r) ==
    /\ spc[r] = "topology" /\ topo = Blocks
    /\ PostFaces(r)
    /\ spc' = [spc EXCEPT ![r] = "waiting"]
    /\ UNCHANGED <<layout, sroute, sround, field, landed, topo>>

\* One tag per pair of ranks: the messages of a pair match in order.
Deliver(p) ==
    /\ packed[p] # <<>> /\ awaited[p] # <<>>
    /\ landed' = [landed EXCEPT ![p[2]][Head(awaited[p])] = Head(packed[p])]
    /\ packed' = [packed EXCEPT ![p] = Tail(@)]
    /\ awaited' = [awaited EXCEPT ![p] = Tail(@)]
    /\ UNCHANGED <<layout, sroute, spc, sround, field, topo>>

\* All requests complete: the receive buffers are unpacked face after face.
UnpackFaces(r) ==
    /\ spc[r] = "waiting" /\ \A i \in 1 .. Len(Active(r)) : landed[r][Active(r)[i]] # <<>>
    /\ SReturn(r, FoldLeft(LAMBDA v, f : unpack(v, recv_region(f), landed[r][f]), field[r], Active(r)))
    /\ UNCHANGED <<layout, sroute, packed, awaited, topo>>

SStep(r) == NoFaces(r) \/ ExchangeFaces(r) \/ EnterCollective(r) \/ Neighbor_alltoallv(r) \/ UnpackFaces(r)

SNext == (\E r \in Blocks : SStep(r)) \/ (\E p \in Pairs : Deliver(p))

-----------------------------------------------------------------------------
(* Properties *)

\* The cell of the neighbour across face f that ghost cell c stands for.
Across(c, f) ==
    LET d == DimOf(f)
        shift == layout.extents[d] - 2 * layout.widths[d]
    IN [c EXCEPT ![d] = IF f % 2 = 0 THEN @ + shift ELSE @ - shift]

\* The ghost cells of face f of rank r, after the last exchange of the rank.
FaceMatches(r, f) ==
    \A c \in recv_region(f) : Interior(Across(c, f)) =>
        field[r][c] = <<layout.neighbors[r][f], Across(c, f), sround[r]>>

Exchanged(r) == spc[r] = "idle" /\ sround[r] > 0

\* The neighbour across f is met on no other face.
SoleFace(r, f) == \A g \in Faces \ {f} : layout.neighbors[r][g] # layout.neighbors[r][f]

\* After an exchange every ghost cell beside the interior holds the value
\* that its own cell of the neighbouring block had when the neighbour packed
\* for the same exchange, whichever route the exchange took -- on every face
\* whose neighbour is met on that face only.
GhostsMatch ==
    \A r \in Blocks : Exchanged(r) => \A f \in Faces : has_neighbor(r, f) /\ SoleFace(r, f) => FaceMatches(r, f)

\* exchange_structured.hpp:51-54: face exchanges with one tag per pair of ranks
\* match, as "MPI's FIFO ordering guarantee ensures correct matching when
\* Irecvs and Isends are posted in the same face order on both sides", also
\* for two ranks that meet on two faces.
FaceOrderMatches ==
    \A r \in Blocks : Exchanged(r) => \A f \in Faces : has_neighbor(r, f) => FaceMatches(r, f)
=============================================================================
