----------------------------- MODULE Regridding -----------------------------
(***************************************************************************)
(* A regridding session: a source and a destination mesh are built from    *)
(* descriptors, weights are generated, and the matrix is then applied,     *)
(* converted, cached and distributed in any order the caller likes.        *)
(***************************************************************************)
EXTENDS SparseMatrix

CONSTANTS Descriptors,   \* the grid descriptors a caller may bring
          Configs,       \* the RegridConfigs in use
          Owners,        \* an owning rank for a cell, for the distributed forms
          Past,          \* what may lie in memory behind a vector of centres
          Dialects,      \* the byte orders a blob may have been written in
          CallCells      \* bound: calls are explored on matrices up to n_src * n_dst

VARIABLES desc,          \* the destination's descriptor
          src, dst,      \* the meshes, NoMesh until they are built
          cfg,           \* the configuration weights were generated with
          weights,       \* what WeightGenerator::generate returned
          matrix,        \* the adopted matrix
          csr, kk,       \* its CSR arrays and the cached KokkosSparse operator
          field,         \* the destination field
          blob,          \* the last blob serialized
          last           \* the last call: what it was given and what was there
vars == <<desc, src, dst, cfg, weights, matrix, csr, kk, field, blob, last>>

NoMesh == [mesh |-> FALSE]
NoMatrix == [matrix |-> FALSE]
NoBlob == [blob |-> FALSE]
Quiet == [op |-> "none"]

(* The test fields: distinct values, so that a misplaced one shows. *)
Ramp(n) == [c \in 0..n - 1 |-> <<c * c + 1, 1>>]
Stale(n) == [j \in 0..n - 1 |-> <<-7, 1>>]

Init ==
    /\ desc = NoMesh /\ src = NoMesh /\ dst = NoMesh
    /\ cfg = NoMatrix /\ weights = NoMatrix /\ matrix = NoMatrix
    /\ csr = NoCsr /\ kk = NoCsr /\ field = <<>> /\ blob = NoBlob /\ last = Quiet

BuildSource(d) ==
    /\ src = NoMesh
    /\ src' = FromDescriptor(d)
    /\ UNCHANGED <<desc, dst, cfg, weights, matrix, csr, kk, field, blob, last>>

BuildDestination(d) ==
    /\ src \notin {NoMesh, Refused} /\ dst = NoMesh
    /\ dst' = FromDescriptor(d) /\ desc' = d
    /\ UNCHANGED <<src, cfg, weights, matrix, csr, kk, field, blob, last>>

(* compute_areas on a plane source, before weights are generated. *)
ComputeSourceAreas ==
    /\ src \notin {NoMesh, Refused} /\ src.sys = "plane" /\ dst = NoMesh /\ src.areas = <<>>
    /\ src' = ComputeAreas(src)
    /\ UNCHANGED <<desc, dst, cfg, weights, matrix, csr, kk, field, blob, last>>

(* Over a source with a single column or row the bilinear path for irregular
   meshes reads one centre that is not there. *)
StencilDefined(m) == AxisCells(m.xs) >= 2 /\ AxisCells(m.ys) >= 2

GenerateWeights(c) ==
    /\ dst \notin {NoMesh, Refused} /\ weights = NoMatrix
    /\ cfg' = c
    /\ \E m \in {GenerateOver(src, dst, c, past) : past \in IF StencilDefined(src) THEN {0} ELSE Past} :
           /\ weights' = m
           /\ matrix' = IF IsMatrix(m) THEN InterpolationMatrix(m) ELSE NoMatrix
           /\ field' = IF IsMatrix(m) THEN Stale(m.n_dst) ELSE field
    /\ UNCHANGED <<desc, src, dst, csr, kk, blob, last>>

(* A column the source does not have would be read behind the field: such a
   matrix is not applied. *)
Callable == /\ matrix # NoMatrix /\ matrix.n_src * matrix.n_dst <= CallCells
            /\ \A k \in DOMAIN matrix.coo : matrix.coo[k].col < matrix.n_src

Session == <<desc, src, dst, cfg, weights>>

ToCsrCall ==
    /\ Callable /\ ~csr.built
    /\ csr' = ToCsr(matrix)
    /\ UNCHANGED <<Session, matrix, kk, field, blob, last>>

(* What dst held matters to the calls that leave some of it. *)
Called(op, x, extra) ==
    [op |-> op, x |-> x, extra |-> extra,
     before |-> IF op \in {"masked", "refused"} THEN field ELSE <<>>]

(* A field of another extent is refused before dst is touched. *)
ApplyCall(x) ==
    /\ Callable
    /\ LET ok == ApplyAccepts(matrix, x, field)
       IN  /\ field' = IF ok THEN Apply(matrix, csr, kk, x, field) ELSE field
           /\ kk' = IF ok /\ csr.built THEN KkCrsMatrix(csr, kk) ELSE kk
           /\ last' = Called(IF ok THEN "apply" ELSE "refused", x, <<>>)
    /\ UNCHANGED <<Session, matrix, csr, blob>>

MaskedApplyCall(x, mask) ==
    /\ Callable
    /\ LET ok == ApplyAccepts(matrix, x, field)
       IN  /\ field' = IF ok THEN MaskedApply(matrix, csr, x, field, mask) ELSE field
           /\ last' = Called(IF ok THEN "masked" ELSE "refused", x, mask)
    /\ UNCHANGED <<Session, matrix, csr, kk, blob>>

(* Two variables; the second result is what the session goes on with. *)
BatchApplyCall(x, z) ==
    /\ Callable
    /\ LET ok == BatchAccepts(matrix, <<x, z>>, <<field, field>>)
           out == BatchApply(matrix, csr, kk, <<x, z>>, <<field, field>>)
       IN  /\ field' = IF ok THEN out[2] ELSE field
           /\ kk' = IF ok /\ csr.built THEN KkCrsMatrix(csr, kk) ELSE kk
           /\ last' = Called(IF ok THEN "apply" ELSE "refused", z, <<>>)
    /\ UNCHANGED <<Session, matrix, csr, blob>>

(* Refused without CSR arrays.  Everything valid and half the row required. *)
NanApplyCall(x) ==
    /\ Callable
    /\ LET ok == ApplyAccepts(matrix, x, field) /\ csr.built
       IN  /\ field' = IF ok THEN NanBatchApply(csr, <<x>>, <<field>>, <<1, 2>>)[1] ELSE field
           /\ last' = Called(IF ok THEN "nan" ELSE "refused", x, <<>>)
    /\ UNCHANGED <<Session, matrix, csr, kk, blob>>

(* One rank's view: cells other ranks own hold stale values locally and come
   through the gather the published pattern asks for. *)
DistributedApplyCall(x, owner) ==
    /\ Callable
    /\ Extent(x) = matrix.n_src
    /\ LET f == DistributedForm(matrix, owner)
           local == [c \in DOMAIN x |-> IF owner[c] = owner[0] THEN x[c] ELSE <<-9, 1>>]
           halo == Gather(f.pattern, x)
           ok == DistributedAccepts(f, local, halo, field)
       IN  /\ field' = IF ok THEN DistributedApply(f, local, halo, field) ELSE field
           /\ last' = Called(IF ok THEN "apply" ELSE "refused", x, <<>>)
    /\ UNCHANGED <<Session, matrix, csr, kk, blob>>

AdjustCall ==
    /\ Callable /\ last.op = "apply"
    /\ field' = AdjustByFraction(matrix, field)
    /\ last' = Called("adjust", last.x, <<>>)
    /\ UNCHANGED <<Session, matrix, csr, kk, blob>>

(* Into a buffer of the size asked for, or one byte short of it. *)
SerializeCall(short, dialect) ==
    /\ Callable /\ blob = NoBlob
    /\ blob' = Serialize(matrix, ComputeBlobSize(matrix.n_src, matrix.n_dst, Len(matrix.coo)) - short,
                         dialect)
    /\ UNCHANGED <<Session, matrix, csr, kk, field, last>>

(* A matrix read back starts without CSR arrays. *)
DeserializeCall ==
    /\ blob \notin {NoBlob, Refused} /\ last.op # "loaded"
    /\ LET m == Deserialize(blob, "little")
       IN  /\ matrix' = IF m = Refused THEN matrix ELSE m
           /\ csr' = IF m = Refused THEN csr ELSE NoCsr
           /\ kk' = IF m = Refused THEN kk ELSE NoCsr
           /\ last' = Called(IF m = Refused THEN "unread" ELSE "loaded", <<>>, <<>>)
    /\ UNCHANGED <<Session, field, blob>>

Fields(n) == {Ramp(n), Ramp(n + 1)}

(* Out of descriptors, or with nothing but an exception to show for the
   weights, the session is over; so is one whose matrix came back. *)
Ended ==
    /\ \/ Refused \in {src, dst}
       \/ weights # NoMatrix /\ ~Callable
    /\ UNCHANGED vars

Next ==
    \/ \E d \in Descriptors : BuildSource(d) \/ BuildDestination(d)
    \/ ComputeSourceAreas
    \/ \E c \in Configs : GenerateWeights(c)
    \/ ToCsrCall \/ AdjustCall \/ DeserializeCall \/ Ended
    \/ /\ Callable
       /\ \/ \E x \in Fields(matrix.n_src) : ApplyCall(x)
          \/ \E extent \in {matrix.n_dst, matrix.n_dst + 1} :
                MaskedApplyCall(Ramp(matrix.n_src), [j \in 1..extent |-> j % 2])
          \/ BatchApplyCall(Ramp(matrix.n_src), [Ramp(matrix.n_src) EXCEPT ![0] = <<-3, 1>>])
          \/ \E x \in {Ramp(matrix.n_src), [Ramp(matrix.n_src) EXCEPT ![0] = NaN]} : NanApplyCall(x)
          \/ \E step \in Owners :
                DistributedApplyCall(Ramp(matrix.n_src),
                                     [c \in 0..matrix.n_src - 1 |-> ((c * step) % 3)])
          \/ \E dialect \in Dialects : SerializeCall(0, dialect)
          \/ SerializeCall(1, "little")

Spec == Init /\ [][Next]_vars
-----------------------------------------------------------------------------
(***************************************************************************)
(* What the conservative weights should be, from the geometry alone.       *)
(***************************************************************************)

(* The cells as the detector numbers them, from the lowest longitude and
   latitude (regular_grid_detector.hpp:98-141), whichever way the axes of the
   mesh run. *)
CellBox(m, c) == SortedBox([lons |-> Ascending(m.xs), lats |-> Ascending(m.ys)], c)

Turned(b, t) == Box(b.x0 + 360 * t, b.x1 + 360 * t, b.y0, b.y1)

(* Whole turns of a geographic source are the same place. *)
Turns(sys) == IF sys = "deg" THEN -2..2 ELSE {0}

TrueOverlap(s, d, c, r) ==
    SumOf(Turns(s.sys), LAMBDA t : RectOverlap(s.sys, Turned(CellBox(s, c), t), CellBox(d, r)))

Dense(m, r, c) == RatioSum({e \in m.entries : e.row = r /\ e.col = c}, LAMBDA e : e.w)

Ascends(axis) == \A k \in 2..Len(axis) : axis[k - 1] < axis[k]
Width(m) == Max(Range(m.xs)) - Min(Range(m.xs))

(* The meshes the analytic paths are right for.  Outside it they are not:
   - a source is taken for one round the globe from 350 degrees (6 in the
     plane) of width on, and its columns then wrap although it has a gap;
   - a source short of that is not turned: where only a whole turn of it
     meets the destination, nothing is found;
   - of an irregular source round the globe two columns at most are found past
     the seam, since the search ends behind its last edge
     (weight_generator_conservative_rect_nonuniform.cpp:138-151), while
     weight_generator.cpp:3283 calls the path exact.
   Longitudes ascend. *)
Suited(s, d) ==
    /\ Ascends(s.xs) /\ Ascends(d.xs)
    /\ IF s.sys = "plane" THEN Width(s) <= 6 ELSE Width(s) = 360 \/ Width(s) <= 350
    /\ Width(s) <= 350 =>
         \A c \in Cells(s), r \in Cells(d) :
            TrueOverlap(s, d, c, r) = RectOverlap(s.sys, CellBox(s, c), CellBox(d, r))
    /\ (Width(s) = 360 /\ ~(DetectRegular(s).is /\ DetectRegular(d).is)) =>
         /\ Len(s.xs) >= 3
         /\ \A r \in Cells(d) :
               LET b == CellBox(d, r) IN b.x1 - TurnShift(b.x0, s.xs[1]) <= s.xs[3] + 360

(* Weights do not change once generated: they are looked at before any call. *)
Fresh == weights # NoMatrix /\ IsMatrix(weights) /\ last = Quiet /\ ~csr.built /\ blob = NoBlob

Conservative == weights # NoMatrix /\ IsMatrix(weights) /\ cfg.method = "Conservative"

(* A conservative weight is the share of the destination cell that the source
   cell covers on the globe, seam and poles included; under FracArea, or when
   the source has a mask, its share of what unmasked cells cover.  Cells are
   numbered as the detector numbers them: where rows run from north to south
   those are not the mesh's own numbers, and the weight is put on another cell
   than the one it was computed for. *)
OverlapsExact ==
    (Fresh /\ Conservative /\ Suited(src, dst)) =>
        \A r \in {q \in Cells(dst) : ~Masked(dst, q)} :
            LET ov == [c \in Cells(src) |-> IF Masked(src, c) THEN 0 ELSE TrueOverlap(src, dst, c, r)]
                b == CellBox(dst, r)
                whole == IF cfg.norm = "FracArea" \/ src.mask # <<>> THEN SumOf(Cells(src), LAMBDA c : ov[c])
                         ELSE BoxArea(dst.sys, b.x0, b.x1, b.y0, b.y1)
            IN  whole > 0 => \A c \in Cells(src) : Dense(weights, r, c) = Ratio(ov[c], whole)

(* The bilinear path did not read behind its centres: the one for regular
   meshes never does. *)
StencilInside == \/ cfg.method # "Bilinear" \/ StencilDefined(src)
                 \/ DetectRegular(src).is /\ DetectRegular(dst).is

(* The weights of every method are a mean of unmasked source cells: columns
   exist, no weight is negative, none comes from a masked cell, and a row that
   has a weight above zero sums to one unless it is a plain area fraction
   below one.  Of the nearest method nothing more is said: NearestIsNearest
   is false.  Out of a source with one row or column the bilinear path for
   irregular meshes takes weights from what lies behind its centres and puts
   them on cells the source does not have, although its clamp is commented
   'Safety for ni == 1' (weight_generator_bilinear_rect_nonuniform.cpp:84). *)
RowsNormalised ==
    (Fresh /\ Suited(src, dst) /\ StencilInside) =>
        /\ \A e \in weights.entries : /\ e.col \in Cells(src) /\ e.row \in Cells(dst)
                                      /\ e.w[1] >= 0
                                      /\ ~Masked(src, e.col)
        /\ \A r \in Cells(dst) :
             LET row == {e \in weights.entries : e.row = r}
                 sum == RatioSum(row, LAMBDA e : e.w)
             IN  sum # Zero => IF cfg.method = "Conservative" /\ cfg.norm = "DstArea" /\ src.mask = <<>>
                             THEN ~RatioLess(<<1, 1>>, sum) ELSE sum = <<1, 1>>

(* Bilinear weights of an unmasked source reproduce a field that is linear in
   the coordinates at every destination point between the source's centres,
   numbered as the detector numbers them.  Between the last and the first
   centre of a source round the globe they do not: there the index has wrapped
   and the fraction is clamped to 0 or 1
   (weight_generator_bilinear_rect.cpp:121-131). *)
LinearExact ==
    (Fresh /\ cfg.method = "Bilinear" /\ Suited(src, dst) /\ StencilInside /\ src.mask = <<>>) =>
        LET cx == Centres2(Ascending(src.xs))
            cy == Centres2(Ascending(src.ys))
            ni == AxisCells(src.xs)
            in(v, s) == s[1] <= v /\ v <= s[Len(s)]
        IN  \A r \in Cells(dst) :
              LET p == Point2(dst, r)
                  row == {e \in weights.entries : e.row = r}
              IN  (in(p[1], cx) /\ in(p[2], cy)) =>
                    /\ RatioSum(row, LAMBDA e : RatioTimes(e.w, <<cx[(e.col % ni) + 1], 1>>)) = <<p[1], 1>>
                    /\ RatioSum(row, LAMBDA e : RatioTimes(e.w, <<cy[(e.col \div ni) + 1], 1>>)) = <<p[2], 1>>

BandMesh(d, j0, j1) == ToUnstructured(d.sys, SynthesizeBandCorners(d, j0, j1))
(* A destination cut into bands of rows, each regridded on its own rank from
   corners synthesized for the band, gets the rows of the whole matrix, also
   where a band is regular and the whole is not, and so takes the other
   analytic path. *)
BandsAgree ==
    (Fresh /\ Conservative /\ Suited(src, dst) /\ desc.kind = "CF" /\ desc.bn = 0) =>
        \A j \in 1..desc.nj - 1 :
            LET bands == <<BandMesh(desc, 0, j), BandMesh(desc, j, desc.nj)>>
                rows == UNION {RankRows(src, bands, cfg, q) : q \in 1..2}
            IN  (cfg.unmapped = "Ignore" \/ \A q \in 1..2 : IsMatrix(Generate(src, bands[q], cfg))) =>
                    \A r \in Cells(dst), c \in Cells(src) :
                        Dense([entries |-> rows], r, c) = Dense(weights, r, c)

(* The product the weights define, row by column. *)
Product(x, r) == RatioSum(Cells(src), LAMBDA c : RatioTimes(Dense(weights, r, c), x[c]))

(* Every way of applying the matrix gives the same field: scatter-add or CSR,
   cached operator or not, alone or in a batch, from the local cells or through
   a gathered halo, before or after a trip through the cache; a masked row
   keeps its old value and a refused call keeps them all. *)
AppliesAgree ==
    /\ last.op = "apply" => \A r \in DOMAIN field : field[r] = Product(last.x, r)
    /\ last.op = "masked" =>
         \A r \in DOMAIN field :
            field[r] = IF Len(last.extra) = Extent(field) /\ last.extra[r + 1] = 0
                       THEN last.before[r] ELSE Product(last.x, r)
    /\ (last.op = "nan" /\ NaN \notin Range(last.x)) =>
         \A r \in DOMAIN field :
            LET sum == RatioSum({e \in weights.entries : e.row = r}, LAMBDA e : e.w)
            IN  field[r] = IF sum = Zero THEN NaN ELSE RatioOver(Product(last.x, r), sum)
    /\ last.op = "refused" => field = last.before

(* A conservative apply preserves the integral the report compares: source
   values over covered area equal destination values over covered area, for
   an unmasked source on a mesh whose axes ascend. *)
IntegralConserved ==
    (Conservative /\ Suited(src, dst) /\ Ascends(src.ys) /\ src.mask = <<>> /\ last.op = "apply") =>
        LET report == CheckConservation(matrix, last.x, field, cfg.norm)
        IN  report.src = report.dst

(* A matrix read back from a blob has the weights, fractions and areas it was
   written with, and a blob of another byte order is not taken for one. *)
CacheRoundTrips ==
    (last.op \in {"loaded", "unread"}) =>
        /\ last.op = "loaded" <=> blob.header.endian = "little"
        /\ matrix.n_src = weights.n_src /\ matrix.n_dst = weights.n_dst
        /\ matrix.frac_a = weights.frac_a /\ matrix.frac_b = weights.frac_b
        /\ matrix.area_a = weights.area_a /\ matrix.area_b = weights.area_b
        /\ \A r \in Cells(dst), c \in Cells(src) :
             RatioSum({k \in DOMAIN matrix.coo : matrix.coo[k].row = r /\ matrix.coo[k].col = c},
                      LAMBDA k : matrix.coo[k].w) = Dense(weights, r, c)

(* Each destination point takes the source cell whose centre is nearest. *)
NearestIsNearest ==
    (Fresh /\ cfg.method = "Nearest" /\ src.sys = "plane") =>
        \A e \in weights.entries : \A c \in Cells(src) :
            Distance2(Point2(src, e.col), Point2(dst, e.row)) <= Distance2(Point2(src, c), Point2(dst, e.row))

(* The weights are the ones geometry gives: conservative ones under any mask,
   bilinear ones of unmasked sources inside the hull of the centres, and of
   the nearest method only that each row is one weight on an unmasked cell;
   on Suited meshes, by the detector's numbering of the cells. *)
WeightsExact == OverlapsExact /\ RowsNormalised /\ LinearExact

(* A generated matrix means one product, however it is stored and applied. *)
ProductsExact == AppliesAgree /\ IntegralConserved /\ CacheRoundTrips
=============================================================================
