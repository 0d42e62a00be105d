----------------------------- MODULE AxisGrids -----------------------------
(***************************************************************************)
(* The front half of AXIS: a grid descriptor becomes an unstructured mesh  *)
(* (mesh_factory.cpp, structured_grid.cpp, projection_builder.cpp) and the *)
(* weight generators recognise the meshes that are rectilinear             *)
(* (regular_grid_detector.hpp).                                            *)
(*                                                                         *)
(* Grids here are tensor products of two axes, so an array of ni*nj values *)
(* is described by the axis it repeats and by its extent, and a mesh by    *)
(* its corner axes in the order of its cells: cell i + j*ni has the        *)
(* corners xs[i+1], xs[i+2] and ys[j+1], ys[j+2].  Curvilinear grids are   *)
(* not rectilinear and take the search-tree path, which is left out.       *)
(* Coordinates are degrees (system "deg") or plane units ("plane").        *)
(***************************************************************************)
EXTENDS Integers, Sequences, FiniteSets, TLC

(* Where a descriptor is refused the factory throws invalid_argument. *)
Refused == [refused |-> TRUE]

(* A mesh; an empty mask or areas sequence means the mesh carries none. *)
Mesh(sys, xs, ys, areas, mask) ==
    [sys |-> sys, xs |-> xs, ys |-> ys, areas |-> areas, mask |-> mask]

AxisCells(axis) == IF axis = <<>> THEN 0 ELSE Len(axis) - 1

CellCount(m) == AxisCells(m.xs) * AxisCells(m.ys)

(***************************************************************************)
(* Descriptor validation.  cn is the extent of the centre arrays, bn that  *)
(* of the corner arrays; 0 stands for a null or empty buffer.              *)
(***************************************************************************)
ValidateCf(d) == d.ni > 0 /\ d.nj > 0 /\ d.cn > 0 /\ d.cn = d.ni * d.nj

ValidateUgrid(d) == d.xs # <<>> /\ d.ys # <<>> /\ d.ndim >= 2

ValidateGrib(d) == d.name # "" /\ d.ni > 0 /\ d.nj > 0 /\ d.cn > 0 /\ d.cn = d.ni * d.nj

ValidateProjected(d) == d.name # "" /\ d.ni > 0 /\ d.nj > 0 /\ d.cn > 0 /\ d.cn = d.ni * d.nj

(***************************************************************************)
(* Structured grids.                                                       *)
(***************************************************************************)

(* The constructor refuses empty grids and arrays of another extent. *)
GridAccepts(d) == d.ni > 0 /\ d.nj > 0 /\ d.cn = d.ni * d.nj

SetCornersAccepts(d) == d.bn = (d.ni + 1) * (d.nj + 1)

Magnitude(v) == IF v < 0 THEN -v ELSE v

DetectPeriodicLon(centres) ==
    LET span == Len(centres) * Magnitude(centres[2] - centres[1])
    IN  Len(centres) > 1 /\ span > 350 /\ span < 370

(* The centre one step to the left (i = 0) or right (i = n + 1) of the row
   when it wraps round the globe. *)
WrappedCentre(c, i) == IF i = 0 THEN c[Len(c)] - 360
                       ELSE IF i = Len(c) + 1 THEN c[1] + 360 ELSE c[i]

(* The corner rows: each corner is the mean of the centres around it, one
   sided at the rim.  Over a tensor product the mean of the 2 x 2 block
   separates into a mean per axis. *)
SynthesizeAxis(c, periodic) ==
    [k \in 1..Len(c) + 1 |->
        IF periodic THEN (WrappedCentre(c, k - 1) + WrappedCentre(c, k)) \div 2
        ELSE IF k = 1 THEN c[1]
        ELSE IF k = Len(c) + 1 THEN c[Len(c)] ELSE (c[k - 1] + c[k]) \div 2]

(* Whether the longitudes wrap is decided by the whole row of centres. *)
SynthesizeCorners(d) ==
    [xs |-> SynthesizeAxis(d.cxs, DetectPeriodicLon(d.cxs)),
     ys |-> SynthesizeAxis(d.cys, FALSE)]

\* Mutant of SynthesizeBandCorners: from the band's own centres only, its outer
\* edges become one sided.
SynthesizeBandCornersAlone(d, j0, j1) ==
    IF d.ni = 0 \/ j1 < j0 \/ j1 > d.nj \/ d.cn # d.ni * d.nj THEN Refused
    ELSE [xs |-> SynthesizeAxis(d.cxs, DetectPeriodicLon(d.cxs)),
          ys |-> SynthesizeAxis(SubSeq(d.cys, j0 + 1, j1), FALSE)]

(* A band of cell rows [j0, j1] takes its corner rows from the same kernel:
   the rows it shares with the whole grid are the same rows. *)
SynthesizeBandCorners(d, j0, j1) ==
    IF d.ni = 0 \/ j1 < j0 \/ j1 > d.nj \/ d.cn # d.ni * d.nj THEN Refused
    ELSE [xs |-> SynthesizeAxis(d.cxs, DetectPeriodicLon(d.cxs)),
          ys |-> SubSeq(SynthesizeAxis(d.cys, FALSE), j0 + 1, j1 + 1)]

(* to_unstructured: one quadrilateral per cell over the corner axes; no
   areas and no mask. *)
ToUnstructured(sys, corners) == Mesh(sys, corners.xs, corners.ys, <<>>, <<>>)

(* CF: centres, and the corners when the descriptor brings them. *)
BuildFromCf(d) ==
    IF ~GridAccepts(d) \/ (d.bn > 0 /\ ~SetCornersAccepts(d)) THEN Refused
    ELSE ToUnstructured(d.sys, IF d.bn > 0 THEN [xs |-> d.xs, ys |-> d.ys]
                               ELSE SynthesizeCorners(d))

BuildFromGrib(d) ==
    IF ~GridAccepts(d) \/ (d.bn > 0 /\ ~SetCornersAccepts(d)) THEN Refused
    ELSE ToUnstructured(d.sys, IF d.bn > 0 THEN [xs |-> d.xs, ys |-> d.ys]
                               ELSE SynthesizeCorners(d))

(* UGRID: nodes and connectivity are taken as they are, with the optional
   areas and mask. *)
BuildFromUgrid(d) == Mesh(d.sys, d.xs, d.ys, d.areas, d.mask)

(* PROJ: thirty degrees per projected unit, undefined beyond the globe. *)
ProjTrans(v) == 30 * v
ProjFails(d) == \E i \in DOMAIN d.cxs : Magnitude(ProjTrans(d.cxs[i])) > 720

(* ProjectionBuilder transforms the centres, drops any corners and declares
   the result geographic. *)
ProjectionBuild(d) ==
    IF d.name = "" \/ ~GridAccepts(d) \/ ProjFails(d) THEN Refused
    ELSE [d EXCEPT !.sys = "deg", !.bn = 0,
                   !.cxs = [i \in DOMAIN d.cxs |-> ProjTrans(d.cxs[i])],
                   !.cys = [j \in DOMAIN d.cys |-> ProjTrans(d.cys[j])]]

BuildFromProjected(d) ==
    LET g == ProjectionBuild(d)
    IN  IF g = Refused THEN Refused ELSE ToUnstructured(g.sys, SynthesizeCorners(g))

(* MeshFactory::from_descriptor validates and dispatches on the kind once.
   Named and rule grids are made by generators outside this model. *)
FromDescriptor(d) ==
    CASE d.kind = "CF"        -> IF ValidateCf(d) THEN BuildFromCf(d) ELSE Refused
      [] d.kind = "UGRID"     -> IF ValidateUgrid(d) THEN BuildFromUgrid(d) ELSE Refused
      [] d.kind = "GRIB"      -> IF ValidateGrib(d) THEN BuildFromGrib(d) ELSE Refused
      [] d.kind = "Projected" -> IF ValidateProjected(d) THEN BuildFromProjected(d) ELSE Refused

(***************************************************************************)
(* Areas and recognition.                                                  *)
(***************************************************************************)

(* The measure of latitude: twice its sine, exact at the latitudes used. *)
SinTable == (-90 :> -2) @@ (-30 :> -1) @@ (0 :> 0) @@ (30 :> 1) @@ (90 :> 2)
Measure(sys, y) == IF sys = "deg" THEN SinTable[y] ELSE y

(* The area of a box, in degrees of longitude times half units of the sine
   of latitude, or in square plane units. *)
BoxArea(sys, x0, x1, y0, y1) == (x1 - x0) * (Measure(sys, y1) - Measure(sys, y0))

(* compute_areas on a plane mesh: the cross products of a quadrilateral's
   edges sum to twice its area, whatever its orientation. *)
PlaneArea(m, c) ==
    LET ni == AxisCells(m.xs)
        i == (c % ni) + 1
        j == (c \div ni) + 1
    IN  Magnitude((m.xs[i + 1] - m.xs[i]) * (m.ys[j + 1] - m.ys[j]))

ComputeAreas(m) ==
    IF m.sys = "plane" /\ CellCount(m) > 0
    THEN [m EXCEPT !.areas = [k \in 1..CellCount(m) |-> PlaneArea(m, k - 1)]] ELSE m

(* The distinct values of an axis in ascending order. *)
Ascending(axis) ==
    LET vals == {axis[k] : k \in DOMAIN axis}
    IN  [k \in 1..Cardinality(vals) |->
            CHOOSE v \in vals : Cardinality({u \in vals : u < v}) = k - 1]

(* detect_rectilinear_grid: as many boxes between the distinct coordinates
   as the mesh has cells.  The order of the cells is not looked at. *)
DetectRectilinear(m) ==
    LET lons == Ascending(m.xs)
        lats == Ascending(m.ys)
    IN  [is |-> /\ CellCount(m) > 0
                /\ Len(lons) >= 2 /\ Len(lats) >= 2
                /\ (Len(lons) - 1) * (Len(lats) - 1) = CellCount(m),
         lons |-> lons, lats |-> lats]

Uniform(axis) ==
    \A k \in 2..Len(axis) - 1 : axis[k + 1] - axis[k] = axis[2] - axis[1]

(* detect_regular_grid: a rectilinear mesh with equal spacing. *)
DetectRegular(m) ==
    LET r == DetectRectilinear(m)
    IN  [is |-> r.is /\ Uniform(r.lons) /\ Uniform(r.lats),
         lons |-> r.lons, lats |-> r.lats]
=============================================================================
