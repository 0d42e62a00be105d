------------------------------ MODULE MCFields ------------------------------
(***************************************************************************)
(* Fields in time and space: TICK's calendars, aliasing and clock, the     *)
(* transform that blends two snapshots, SPAN's buffers and views, and a    *)
(* regridding session of AXIS.  Each part runs by itself.                  *)
(***************************************************************************)
EXTENDS AliasingEngine, TickClock, SpanFields, TransformNode, Regridding

VARIABLE part   \* the part that runs; the others stay where they start

MCYears == (1895 .. 2105) \cup (-8 .. 30)
MCAnchors == {2026, 26}

Jan(c, y) == to_time_point(c, DateTime(y, 1, 1, 0, 0, 0, 0))
Span(a, b) == [start |-> a, end |-> b]
MCCoverages ==
    [c \in Cals |-> {Span(Jan(c, 2027), Jan(c, 2029)), Span(Jan(c, 2024), Jan(c, 2025)),
                     Span(Jan(c, 2027) + 96 * nanos_per_day, Jan(c, 2028) + 96 * nanos_per_day)}]
MCIntervals == {0} \cup {n * nanos_per_day : n \in {1, 5, 17, 61, 73}}
MCSimDates ==
    {DateTime(y, md[1], md[2], h, 0, 0, 1) : y \in {2023, 2024, 2027, 2028, 2029}, h \in {0, 1},
       md \in {<<1, 1>>, <<2, 28>>, <<2, 29>>, <<2, 30>>, <<3, 1>>, <<6, 15>>, <<12, 30>>, <<12, 31>>}}

MCStepLists == {<<>>, <<3, 0>>, <<6>>, <<4, 6>>, <<6, 10, 15>>, <<8, 12>>, <<9973, 9967>>, <<9973, 9967, 9949>>}
MCBases == {-31, 0, 7}

MCWeights == {[num |-> 0, den |-> 4], [num |-> 1, den |-> 4]}

-----------------------------------------------------------------------------
(* The regridding session runs over small grids: global and regional,      *)
(* regular and not, given by centres, by corners or through a projection,  *)
(* with and without masks, on the globe and in the plane, and descriptors  *)
(* the factory refuses.                                                    *)

Grid(kind, sys, cxs, cys, xs, ys, mask) ==
    LET ni == IF cxs # <<>> THEN Len(cxs) ELSE Len(xs) - 1
        nj == IF cys # <<>> THEN Len(cys) ELSE Len(ys) - 1
    IN  [kind |-> kind, sys |-> sys, ni |-> ni, nj |-> nj, cn |-> ni * nj, cxs |-> cxs, cys |-> cys,
         bn |-> IF xs = <<>> THEN 0 ELSE (ni + 1) * (nj + 1), xs |-> xs, ys |-> ys,
         ndim |-> 2, name |-> "grid", areas |-> <<>>, mask |-> mask]

Quarters == Grid("CF", "deg", <<45, 135, 225, 315>>, <<-30, 30>>, <<>>, <<>>, <<>>)
Thirds == Grid("GRIB", "deg", <<>>, <<>>, <<-180, -60, 60, 180>>, <<-90, -30, 30, 90>>, <<>>)
Uneven == Grid("UGRID", "deg", <<>>, <<>>, <<0, 60, 180, 360>>, <<-90, 30, 90>>, <<1, 0, 1, 1, 1, 0>>)
Regional == Grid("CF", "deg", <<>>, <<>>, <<90, 180, 270>>, <<-30, 0, 30>>, <<>>)
Turned90 == Grid("UGRID", "deg", <<>>, <<>>, <<-90, 0, 270>>, <<-30, 0, 90>>, <<1, 1, 0, 1>>)
Local == Grid("Projected", "plane", <<1, 3>>, <<-1, 1>>, <<>>, <<>>, <<>>)
Plate == Grid("CF", "plane", <<0, 2, 4>>, <<0, 2, 4, 6>>, <<>>, <<>>, <<>>)
Fine == Grid("UGRID", "plane", <<>>, <<>>, <<0, 1, 2, 3, 4>>, <<0, 2, 4>>, <<>>)
Coarse == Grid("CF", "plane", <<0, 4>>, <<0, 2>>, <<0, 2, 4>>, <<0, 2, 4>>, <<>>)
Shore == Grid("UGRID", "plane", <<>>, <<>>, <<0, 1, 4>>, <<0, 2, 4, 6>>, <<0, 1, 0, 0, 1, 1>>)
Unnamed == [Thirds EXCEPT !.name = ""]
BadCorners == [Coarse EXCEPT !.bn = 8]
Ladder == Grid("CF", "plane", <<0, 2>>, <<0, 2, 4, 6>>, <<>>, <<>>, <<>>)
Southward == Grid("UGRID", "plane", <<>>, <<>>, <<0, 2, 4>>, <<4, 2, 0>>, <<1, 1, 1, 0>>)
Column == Grid("UGRID", "plane", <<>>, <<>>, <<0, 4>>, <<4, 1, 0>>, <<>>)
Stripe == Grid("UGRID", "deg", <<>>, <<>>, <<-90, 0, 90, 180>>, <<-30, 30>>, <<>>)

MCDescriptors == {Quarters, Thirds, Uneven, Regional, Turned90, Local, Plate, Fine, Coarse, Shore, Stripe,
                  Ladder, Southward, Column,
                  BadCorners, Unnamed, [Quarters EXCEPT !.cn = 6]}

Config(method, norm, unmapped, extrap) ==
    [method |-> method, norm |-> norm, unmapped |-> unmapped, extrap |-> extrap]

MCConfigs == {Config("Conservative", "FracArea", "Ignore", "NearestWet"),
              Config("Conservative", "DstArea", "Ignore", "None"),
              Config("Conservative", "FracArea", "Error", "None"),
              Config("Bilinear", "FracArea", "Ignore", "NearestWet"),
              Config("Bilinear", "FracArea", "Error", "None"),
              Config("Nearest", "FracArea", "Ignore", "None")}

MCOwners == {0, 2}
MCPast == {-1000, 0, 1000}
MCDialects == {"little", "big"}

-----------------------------------------------------------------------------

FInit ==
    /\ part \in {"walk", "alias", "clock", "arith", "bookend", "buffer", "view", "regrid"}
    /\ WInit /\ (part # "walk" => walker = [cal |-> "gregorian", year |-> 2026, month |-> 1])
    /\ EInit
    /\ CInit /\ (part # "clock" => steps = <<>> /\ base = 0)
    /\ SpInit /\ (part # "view" => host = 0 /\ device = 0)
    /\ TnInit
    /\ AInit
    /\ Init

FNext ==
    \/ part = "walk" /\ WNext /\ UNCHANGED <<part, evars, cvars, avars, spvars, tvars, vars>>
    \/ part = "alias" /\ ENext /\ UNCHANGED <<part, wvars, cvars, avars, spvars, tvars, vars>>
    \/ part = "clock" /\ CNext /\ UNCHANGED <<part, wvars, evars, avars, spvars, tvars, vars>>
    \/ part = "arith" /\ ANext /\ UNCHANGED <<part, wvars, evars, cvars, spvars, tvars, vars>>
    \/ part = "bookend" /\ TnNext /\ UNCHANGED <<part, wvars, evars, cvars, avars, spvars, vars>>
    \/ part = "buffer" /\ BufferNext /\ UNCHANGED <<part, wvars, evars, cvars, avars, tvars, vars>>
    \/ part = "view" /\ ViewNext /\ UNCHANGED <<part, wvars, evars, cvars, avars, tvars, vars>>
    \/ part = "regrid" /\ Next /\ UNCHANGED <<part, wvars, evars, cvars, avars, spvars, tvars>>

FSpec == FInit /\ [][FNext]_<<part, wvars, evars, cvars, avars, spvars, tvars, vars>>

\* Dates and months are exact where the walk is, checked arithmetic is exact
\* or throws, and a clock misses no ring.
TimeExact == /\ part = "walk" => CalendarExact /\ MonthsAdded
             /\ ArithmeticExact
             /\ RingsMet
=============================================================================
