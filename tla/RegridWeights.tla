--------------------------- MODULE RegridWeights ---------------------------
(***************************************************************************)
(* AXIS weight generation over rectilinear meshes: the analytic paths of   *)
(* the conservative, bilinear and nearest methods, the dispatch of         *)
(* WeightGenerator::generate and the coastal renormalisation behind it.    *)
(*                                                                         *)
(* Doubles are exact rationals (see Ratio).  An entry of the matrix is a  *)
(* record with its row, its column, its weight and k, which tells apart    *)
(* the entries pushed for the same row and column.                         *)
(* A mesh pair that no analytic path accepts goes to the search-tree path, *)
(* whose polygon clipping is not modelled: the result is SearchTree.       *)
(***************************************************************************)
EXTENDS AxisGrids, FiniteSetsExt

-----------------------------------------------------------------------------
(***************************************************************************)
(* Exact fractions <<numerator, denominator>>, in lowest terms and with a  *)
(* positive denominator, standing for the doubles of the AXIS solver.      *)
(***************************************************************************)
LOCAL Gcd[a \in Nat, b \in Nat] == IF b = 0 THEN a ELSE Gcd[b, a % b]

Ratio(n, d) ==
    LET m == IF n < 0 THEN -n ELSE n
        g == Gcd[m, d]
    IN  <<IF n < 0 THEN -(m \div g) ELSE m \div g, d \div g>>

RatioPlus(p, q) == Ratio(p[1] * q[2] + q[1] * p[2], p[2] * q[2])
RatioMinus(p, q) == Ratio(p[1] * q[2] - q[1] * p[2], p[2] * q[2])
RatioTimes(p, q) == Ratio(p[1] * q[1], p[2] * q[2])

(* Division by a positive fraction. *)
RatioOver(p, q) == Ratio(p[1] * q[2], p[2] * q[1])

RatioLess(p, q) == p[1] * q[2] < q[1] * p[2]

-----------------------------------------------------------------------------

SearchTree == [outcome |-> "search tree"]
Declined == [outcome |-> "declined"]
Threw == [outcome |-> "thrown"]

IsMatrix(m) == m \notin {SearchTree, Declined, Threw}

WrapThreshold(sys) == IF sys = "deg" THEN 350 ELSE 6

Masked(m, c) == Len(m.mask) = CellCount(m) /\ m.mask[c + 1] = 0

Smaller(a, b) == IF a < b THEN a ELSE b
Larger(a, b) == IF a > b THEN a ELSE b

(* rect_overlap and rect_overlap_spherical. *)
RectOverlap(sys, s, d) ==
    LET dx == Smaller(s.x1, d.x1) - Larger(s.x0, d.x0)
        lo == Larger(s.y0, d.y0)
        hi == Smaller(s.y1, d.y1)
    IN  IF dx <= 0 \/ hi <= lo THEN 0 ELSE BoxArea(sys, 0, dx, lo, hi)

Box(x0, x1, y0, y1) == [x0 |-> x0, x1 |-> x1, y0 |-> y0, y1 |-> y1]

(* The box of cell c as the analytic paths see it: cells numbered from the
   lowest longitude and latitude. *)
SortedBox(g, c) ==
    LET ni == AxisCells(g.lons)
        i == (c % ni) + 1
        j == (c \div ni) + 1
    IN  Box(g.lons[i], g.lons[i + 1], g.lats[j], g.lats[j + 1])

SortedArea(sys, g, c) ==
    LET b == SortedBox(g, c) IN BoxArea(sys, b.x0, b.x1, b.y0, b.y1)

CellArea(m, g, c) == IF Len(m.areas) = CellCount(m) THEN m.areas[c + 1]
                     ELSE SortedArea(m.sys, g, c)

Cells(m) == 0..CellCount(m) - 1

(* A full turn to the left until the box starts in the source's first turn. *)
TurnShift(x0, smin) == 360 * ((x0 - smin) \div 360)

Entry(r, c, k, w) == [row |-> r, col |-> c, k |-> k, w |-> w]

SumOf(S, f(_)) == MapThenFoldSet(+, 0, f, LAMBDA T : CHOOSE t \in T : TRUE, S)
RatioSum(S, f(_)) == MapThenFoldSet(RatioPlus, <<0, 1>>, f, LAMBDA T : CHOOSE t \in T : TRUE, S)

(***************************************************************************)
(* Conservative, both grids regular (weight_generator_conservative_rect).  *)
(***************************************************************************)

(* Neither grid is global and the destination sticks out of the source by
   more than half a cell: the fast path declines. *)
RectDeclines(sys, sg, dg) ==
    LET sd == sg.lons[2] - sg.lons[1]
        dd == dg.lons[2] - dg.lons[1]
        smax == sg.lons[Len(sg.lons)]
        dmax == dg.lons[Len(dg.lons)]
    IN  /\ AxisCells(sg.lons) * sd <= WrapThreshold(sys)
        /\ AxisCells(dg.lons) * dd <= WrapThreshold(sys)
        /\ \/ 2 * dg.lons[1] < 2 * sg.lons[1] - sd
           \/ 2 * dmax > 2 * smax + sd

\* Mutant of RectReach: it stops at the last column wholly covered.
RectReachShort(global, sg, d) ==
    LET sd == sg.lons[2] - sg.lons[1]
        td == sg.lats[2] - sg.lats[1]
        ilo == (d.x0 - sg.lons[1]) \div sd
        ihi == ((d.x1 - sg.lons[1]) \div sd) - 1
        jlo == (d.y0 - sg.lats[1]) \div td
        jhi == (d.y1 - sg.lats[1]) \div td
    IN  [cols |-> IF global THEN ilo..ihi
                  ELSE Larger(0, ilo)..Smaller(AxisCells(sg.lons) - 1, ihi),
         rows |-> Larger(0, jlo)..Smaller(AxisCells(sg.lats) - 1, jhi)]

(* The source columns and rows a destination box may touch, by arithmetic
   on the spacing; a global source is indexed past its end. *)
RectReach(global, sg, d) ==
    LET sd == sg.lons[2] - sg.lons[1]
        td == sg.lats[2] - sg.lats[1]
        ilo == (d.x0 - sg.lons[1]) \div sd
        ihi == (d.x1 - sg.lons[1]) \div sd
        jlo == (d.y0 - sg.lats[1]) \div td
        jhi == (d.y1 - sg.lats[1]) \div td
    IN  [cols |-> IF global THEN ilo..ihi
                  ELSE Larger(0, ilo)..Smaller(AxisCells(sg.lons) - 1, ihi),
         rows |-> Larger(0, jlo)..Smaller(AxisCells(sg.lats) - 1, jhi)]

RectOverlaps(src, dst, sg, dg, r) ==
    LET sys == src.sys
        ni == AxisCells(sg.lons)
        sd == sg.lons[2] - sg.lons[1]
        global == ni * sd > WrapThreshold(sys)
        box == SortedBox(dg, r)
        shift == IF global THEN TurnShift(box.x0, sg.lons[1]) ELSE 0
        d == Box(box.x0 - shift, box.x1 - shift, box.y0, box.y1)
        reach == RectReach(global, sg, d)
        from(is, js) == [col |-> js * ni + (IF global THEN is % ni ELSE is),
                         k |-> is,
                         ov |-> RectOverlap(sys, Box(sg.lons[1] + is * sd, sg.lons[1] + (is + 1) * sd,
                                                     sg.lats[js + 1], sg.lats[js + 2]), d)]
    IN  IF Masked(dst, r) \/ CellArea(dst, dg, r) <= 0 THEN {}
        ELSE {o \in {from(is, js) : is \in reach.cols, js \in reach.rows} :
                o.ov > 0 /\ ~Masked(src, o.col) /\ CellArea(src, sg, o.col) > 0}

(***************************************************************************)
(* Conservative, rectilinear (weight_generator_conservative_rect_          *)
(* nonuniform): the reach comes from two binary searches.                  *)
(***************************************************************************)
LowerBound(axis, v) == Cardinality({k \in DOMAIN axis : axis[k] < v})
UpperBound(axis, v) == Cardinality({k \in DOMAIN axis : axis[k] <= v})

NonuniformOverlaps(src, dst, sg, dg, r) ==
    LET sys == src.sys
        ni == AxisCells(sg.lons)
        nj == AxisCells(sg.lats)
        smax == sg.lons[ni + 1]
        global == smax - sg.lons[1] > WrapThreshold(sys)
        box == SortedBox(dg, r)
        shift == IF global THEN TurnShift(box.x0, sg.lons[1]) ELSE 0
        d == Box(box.x0 - shift, box.x1 - shift, box.y0, box.y1)
        ilo == Larger(0, LowerBound(sg.lons, d.x0) - 1)
        iup == UpperBound(sg.lons, d.x1)
        ihi == IF global /\ d.x1 > smax THEN iup ELSE Smaller(ni - 1, iup)
        jlo == Larger(0, LowerBound(sg.lats, d.y0) - 1)
        jhi == Smaller(nj - 1, UpperBound(sg.lats, d.y1))
        from(is, js) ==
            LET a == IF global THEN is % ni ELSE is
                turn == IF global /\ is >= ni THEN 360 ELSE 0
            IN  [col |-> a + js * ni, k |-> is,
                 ov |-> RectOverlap(sys, Box(sg.lons[a + 1] + turn, sg.lons[a + 2] + turn,
                                             sg.lats[js + 1], sg.lats[js + 2]), d)]
    IN  IF Masked(dst, r) \/ CellArea(dst, dg, r) <= 0 THEN {}
        ELSE {o \in {from(is, js) : is \in ilo..ihi, js \in jlo..jhi} :
                o.ov > 0 /\ ~Masked(src, o.col) /\ CellArea(src, sg, o.col) > 0}

(***************************************************************************)
(* Packing: weights over the destination area, fractions of both sides,    *)
(* FracArea normalisation by the fraction before it is clamped to one.     *)
(***************************************************************************)
AtMostOne(q) == IF q[1] > q[2] THEN <<1, 1>> ELSE q

FracB(dst, dg, found, r) == Ratio(SumOf(found[r], LAMBDA o : o.ov), CellArea(dst, dg, r))

ConservativeWeight(norm, area, frac, ov) ==
    IF norm = "FracArea" /\ frac[1] > 0 THEN RatioOver(Ratio(ov, area), frac)
    ELSE Ratio(ov, area)

PackConservative(src, dst, sg, dg, norm, found) ==
    LET fracB == [r \in Cells(dst) |-> IF found[r] = {} THEN <<0, 1>> ELSE FracB(dst, dg, found, r)]
        hits(c) == {<<r, o>> \in UNION {{<<q, p>> : p \in found[q]} : q \in Cells(dst)} : o.col = c}
    IN  [n_src |-> CellCount(src), n_dst |-> CellCount(dst),
         entries |-> UNION {{Entry(r, o.col, o.k,
                                   ConservativeWeight(norm, CellArea(dst, dg, r), fracB[r], o.ov))
                               : o \in found[r]} : r \in Cells(dst)},
         frac_a |-> [c \in Cells(src) |->
                        IF CellArea(src, sg, c) <= 0 THEN <<0, 1>>
                        ELSE AtMostOne(Ratio(SumOf(hits(c), LAMBDA h : h[2].ov), CellArea(src, sg, c)))],
         frac_b |-> [r \in Cells(dst) |-> AtMostOne(fracB[r])],
         area_a |-> [c \in Cells(src) |-> CellArea(src, sg, c)],
         area_b |-> [r \in Cells(dst) |-> CellArea(dst, dg, r)]]

ConservativeRect(src, dst, sg, dg, norm) ==
    IF RectDeclines(src.sys, sg, dg) THEN Declined
    ELSE PackConservative(src, dst, sg, dg, norm,
                          [r \in Cells(dst) |-> RectOverlaps(src, dst, sg, dg, r)])

ConservativeNonuniform(src, dst, sg, dg, norm) ==
    PackConservative(src, dst, sg, dg, norm,
                     [r \in Cells(dst) |-> NonuniformOverlaps(src, dst, sg, dg, r)])

(* A matrix with no entry is accepted unless unmapped cells are errors: then
   the search tree gets to diagnose them. *)
Accepts(m, cfg) == IsMatrix(m) /\ m.n_dst > 0 /\ (cfg.unmapped # "Error" \/ m.entries # {})

FirstAccepted(m, cfg, otherwise) == IF Accepts(m, cfg) THEN m ELSE otherwise

(* sr and dr are what DetectRegular says of the two meshes. *)
ConservativePaths(src, dst, sr, dr, cfg) ==
    FirstAccepted(IF sr.is /\ dr.is THEN ConservativeRect(src, dst, sr, dr, cfg.norm) ELSE Declined, cfg,
        FirstAccepted(IF DetectRectilinear(src).is /\ DetectRectilinear(dst).is
                        THEN ConservativeNonuniform(src, dst, sr, dr, cfg.norm) ELSE Declined, cfg,
            SearchTree))

GenerateConservative(src, dst, cfg) ==
    ConservativePaths(src, dst, DetectRegular(src), DetectRegular(dst), cfg)

(***************************************************************************)
(* Bilinear.  The destination point is the mean of the cell's corners, so  *)
(* lon2 and lat2 are twice its coordinates.                                *)
(***************************************************************************)
Point2(m, c) ==
    LET ni == AxisCells(m.xs)
        i == (c % ni) + 1
        j == (c \div ni) + 1
    IN  <<m.xs[i] + m.xs[i + 1], m.ys[j] + m.ys[j + 1]>>

UnitClamp(q) == IF q[1] < 0 THEN <<0, 1>> ELSE AtMostOne(q)

(* The left one of the two neighbours, kept inside the grid. *)
ClampIndex(i, n) == Larger(0, Smaller(i, n - 2))

Stencil(r, ni, i, i1, j, j1, tx, ty) ==
    LET sx == RatioMinus(<<1, 1>>, tx)
        sy == RatioMinus(<<1, 1>>, ty)
    IN  {Entry(r, j * ni + i, 0, RatioTimes(sx, sy)), Entry(r, j * ni + i1, 1, RatioTimes(tx, sy)),
         Entry(r, j1 * ni + i, 2, RatioTimes(sx, ty)), Entry(r, j1 * ni + i1, 3, RatioTimes(tx, ty))}

(* The continuous index of a point among the centres of a regular axis. *)
CentreIndex(p2, lo, d) == Ratio(p2 - 2 * lo - d, 2 * d)

BilinearOutside(periodic, fi, fj, ni, nj) ==
    \/ ~periodic /\ (2 * fi[1] < -fi[2] \/ 2 * fi[1] > (2 * ni - 1) * fi[2])
    \/ 2 * fj[1] < -fj[2] \/ 2 * fj[1] > (2 * nj - 1) * fj[2]

(* BilinearRectKernel::compute_weights; {} when the point is outside. *)
BilinearStencil(sg, r, p) ==
    LET ni == AxisCells(sg.lons)
        nj == AxisCells(sg.lats)
        sd == sg.lons[2] - sg.lons[1]
        td == sg.lats[2] - sg.lats[1]
        periodic == sg.lons[ni + 1] - sg.lons[1] = 360
        lon2 == IF periodic THEN 2 * sg.lons[1] + ((p[1] - 2 * sg.lons[1]) % 720) ELSE p[1]
        fi == CentreIndex(lon2, sg.lons[1], sd)
        fj == CentreIndex(p[2], sg.lats[1], td)
        i == IF periodic THEN (fi[1] \div fi[2]) % ni ELSE ClampIndex(fi[1] \div fi[2], ni)
        j == ClampIndex(fj[1] \div fj[2], nj)
        i1 == IF i + 1 < ni THEN i + 1 ELSE IF periodic THEN 0 ELSE ni - 1
        j1 == Smaller(j + 1, nj - 1)
    IN  IF BilinearOutside(periodic, fi, fj, ni, nj) THEN {}
        ELSE Stencil(r, ni, i, i1, j, j1, UnitClamp(RatioMinus(fi, <<i, 1>>)),
                     UnitClamp(RatioMinus(fj, <<j, 1>>)))

(* The point methods carry no areas. *)
PointMatrix(src, dst, rows, fracA, fracB) ==
    [n_src |-> CellCount(src), n_dst |-> CellCount(dst),
     entries |-> UNION {rows[r] : r \in Cells(dst)},
     frac_a |-> [c \in Cells(src) |-> fracA],
     frac_b |-> fracB,
     area_a |-> [c \in Cells(src) |-> 0], area_b |-> [r \in Cells(dst) |-> 0]]

PackBilinear(src, dst, rows, unmapped) ==
    IF unmapped = "Error" /\ (\E r \in Cells(dst) : rows[r] = {}) THEN Threw
    ELSE PointMatrix(src, dst, rows, <<1, 1>>,
                     [r \in Cells(dst) |-> IF rows[r] = {} THEN <<0, 1>> ELSE <<1, 1>>])

BilinearRect(src, dst, sg, unmapped) ==
    PackBilinear(src, dst, [r \in Cells(dst) |-> BilinearStencil(sg, r, Point2(dst, r))], unmapped)

(* Centres doubled, like the point. *)
Centres2(axis) == [k \in 1..AxisCells(axis) |-> axis[k] + axis[k + 1]]

(* The centre after the last one is not there: past is what lies behind. *)
CentreAt(c, k, past) == IF k \in DOMAIN c THEN c[k] ELSE past

(* Where v is between two centres, clamped. *)
Position(v, a, b) == IF a = b THEN IF v < a THEN <<0, 1>> ELSE <<1, 1>>
                     ELSE UnitClamp(IF a < b THEN Ratio(v - a, b - a) ELSE Ratio(a - v, a - b))

NonuniformStencil(sg, r, p, past) ==
    LET cx == Centres2(sg.lons)
        cy == Centres2(sg.lats)
        i == ClampIndex(UpperBound(cx, p[1]) - 1, Len(cx))
        j == ClampIndex(UpperBound(cy, p[2]) - 1, Len(cy))
        tx == Position(p[1], cx[i + 1], CentreAt(cx, i + 2, past))
        ty == Position(p[2], cy[j + 1], CentreAt(cy, j + 2, past))
    IN  Stencil(r, Len(cx), i, i + 1, j, j + 1, tx, ty)

BilinearNonuniform(src, dst, sg, past) ==
    PointMatrix(src, dst, [r \in Cells(dst) |-> NonuniformStencil(sg, r, Point2(dst, r), past)],
                <<1, 1>>, [r \in Cells(dst) |-> <<1, 1>>])

GenerateBilinear(src, dst, cfg, past) ==
    LET sr == DetectRegular(src)
    IN  IF sr.is /\ DetectRegular(dst).is THEN BilinearRect(src, dst, sr, cfg.unmapped)
        ELSE IF DetectRectilinear(src).is THEN BilinearNonuniform(src, dst, sr, past)
        ELSE SearchTree

(***************************************************************************)
(* Nearest, both grids regular: lower left corners are matched, columns    *)
(* wrap, rows are clamped; masks and the unmapped policy are not consulted.*)
(***************************************************************************)
Round(a, b) == IF a >= 0 THEN (2 * a + b) \div (2 * b) ELSE -((-2 * a + b) \div (2 * b))

NearestRect(src, dst, sg, dg) ==
    LET ni == AxisCells(sg.lons)
        nj == AxisCells(sg.lats)
        sd == sg.lons[2] - sg.lons[1]
        td == sg.lats[2] - sg.lats[1]
        col(r) == LET b == SortedBox(dg, r)
                      i == Round(b.x0 - sg.lons[1], sd) % ni
                      j == Larger(0, Smaller(nj - 1, Round(b.y0 - sg.lats[1], td)))
                  IN  j * ni + i
    IN  PointMatrix(src, dst, [r \in Cells(dst) |-> {Entry(r, col(r), 0, <<1, 1>>)}],
                    <<0, 1>>, [r \in Cells(dst) |-> <<0, 1>>])

Distance2(p, q) == (p[1] - q[1]) * (p[1] - q[1]) + (p[2] - q[2]) * (p[2] - q[2])

(* ArborX: of the source cells C the one whose centre is closest to a
   destination's; of several, any (here the first). *)
ClosestCell(src, dst, r, C) ==
    Min({c \in C : \A o \in C : Distance2(Point2(src, c), Point2(dst, r))
                                    <= Distance2(Point2(src, o), Point2(dst, r))})

(* get_cell_areas: the mesh's own areas, or the shoelace formula. *)
GetCellArea(m, c) == IF Len(m.areas) = CellCount(m) THEN m.areas[c + 1] ELSE PlaneArea(m, c)

(* generate_nearest_impl on plane meshes: one nearest query per destination
   cell, masks not consulted, fractions one, areas of the cells. *)
NearestTree(src, dst) ==
    LET m == PointMatrix(src, dst,
                [r \in Cells(dst) |-> {Entry(r, ClosestCell(src, dst, r, Cells(src)), 0, <<1, 1>>)}],
                <<1, 1>>, [r \in Cells(dst) |-> <<1, 1>>])
    IN  [m EXCEPT !.area_a = [c \in Cells(src) |-> GetCellArea(src, c)],
                  !.area_b = [r \in Cells(dst) |-> GetCellArea(dst, r)]]

GenerateNearest(src, dst, cfg) ==
    LET sr == DetectRegular(src)
        dr == DetectRegular(dst)
    IN  IF sr.is /\ dr.is THEN NearestRect(src, dst, sr, dr)
        ELSE IF src.sys = "plane" THEN NearestTree(src, dst) ELSE SearchTree

(***************************************************************************)
(* The dispatch, and the coastal step behind every method.                 *)
(***************************************************************************)
Wet(src, c) == src.mask[c + 1] > 0

(* The wet cells the extrapolation searches. *)
WetCells(src) == {c \in Cells(src) : src.mask[c + 1] # 0}

(* Entries of dry sources go; a row whose wet weights sum to less than one
   is scaled up to one. *)
Renormalised(src, m) ==
    LET wet == {e \in m.entries : Wet(src, e.col)}
        sum(r) == RatioSum({e \in wet : e.row = r}, LAMBDA e : e.w)
    IN  {LET s == sum(e.row) IN
            IF s[1] > 0 /\ s[1] < s[2] THEN [e EXCEPT !.w = RatioOver(e.w, s)] ELSE e : e \in wet}

(* Rows without any entry take the nearest wet source when asked to, the
   rows of masked destinations included.  The fractions are not revised.
   Over the globe the search compares centroids averaged in three
   dimensions, which is left to the search tree. *)
Coastal(src, dst, m, extrap) ==
    LET kept == Renormalised(src, m)
        dry == {r \in Cells(dst) : \A e \in kept : e.row # r}
        filled == IF extrap = "NearestWet" /\ WetCells(src) # {} THEN dry ELSE {}
    IN  IF ~IsMatrix(m) \/ Len(src.mask) = 0 THEN m
        ELSE IF filled # {} /\ src.sys = "deg" THEN SearchTree
        ELSE [m EXCEPT !.entries = kept \cup
                {Entry(r, ClosestCell(src, dst, r, WetCells(src)), 0, <<1, 1>>) : r \in filled}]

(* Centre longitudes that do not meet but would after some full turns: only
   the analytic paths of the bilinear method cope with that. *)
LonRange(m) == LET cx == Centres2(m.xs) IN
    [lo |-> Min({cx[k] : k \in DOMAIN cx}), hi |-> Max({cx[k] : k \in DOMAIN cx})]

DisjointButShifted(src, dst) ==
    LET s == LonRange(src)
        d == LonRange(dst)
        shift == 720 * Round((s.lo + s.hi) - (d.lo + d.hi), 1440)
    IN  /\ src.sys = "deg"
        /\ s.hi < d.lo \/ d.hi < s.lo
        /\ ~(s.hi < d.lo + shift \/ d.hi + shift < s.lo)

(* past is what the bilinear method reads behind the centres of a source with
   a single row or column. *)
GenerateOver(src, dst, cfg, past) ==
    IF src.sys # dst.sys THEN Threw
    ELSE IF DisjointButShifted(src, dst)
            /\ ~(cfg.method = "Bilinear" /\ DetectRectilinear(src).is) THEN Threw
    ELSE Coastal(src, dst,
                 CASE cfg.method = "Bilinear"     -> GenerateBilinear(src, dst, cfg, past)
                   [] cfg.method = "Nearest"      -> GenerateNearest(src, dst, cfg)
                   [] cfg.method = "Conservative" -> GenerateConservative(src, dst, cfg),
                 cfg.extrap)

Generate(src, dst, cfg) == GenerateOver(src, dst, cfg, 0)
=============================================================================
