--------------------------- MODULE AliasingEngine ---------------------------
(***************************************************************************)
(* tick::Aliasing_Engine: finds, for a simulation time, the two snapshots  *)
(* of a dataset that enclose it and the weight between them, by one of     *)
(* four policies when the dataset does not cover the time.  Simulation and *)
(* dataset may use different calendars; their Time_Points are compared as  *)
(* numbers.                                                                *)
(***************************************************************************)
EXTENDS Calendars, TLC

CONSTANTS
    Coverages,   \* dataset calendar -> the windows a dataset may cover
    Intervals,   \* snapshot intervals
    ClimYears,   \* climatological years
    SimDates     \* dates a simulation asks for, where its calendar has them

VARIABLES
    engine,   \* the engine built, or the exception of its constructor
    answer    \* the last time asked for, and what resolve gave or threw

evars == <<engine, answer>>

Policies == {"clamp_to_edge", "cycle_last_year", "pure_climatology", "leap_hold"}

-----------------------------------------------------------------------------
Thrown(what) == [status |-> what, start |-> 0, end |-> 0, num |-> 0]

\* calculate_weight: the weight is num over the length of the window.
Weighted(t, w) ==
    IF t < w.start \/ t >= w.end THEN Thrown("out_of_range")
    ELSE [status |-> "ok", start |-> w.start, end |-> w.end, num |-> t - w.start]

Frozen(a, b) == [status |-> "ok", start |-> a, end |-> b, num |-> 0]

\* The offset is rounded towards zero: for a time before the start, the
\* window after it.
enclosing_window(t, start, iv) ==
    LET floor_start == start + TruncDiv(t - start, iv) * iv
    IN [start |-> floor_start, end |-> floor_start + iv]

resolve_in_bounds(e, t) == Weighted(t, enclosing_window(t, e.start, e.interval))

resolve_clamp(e, t) ==
    IF t >= e.end THEN Frozen(e.end - e.interval, e.end)
    ELSE IF t < e.start THEN Frozen(e.start, e.start + e.interval)
    ELSE resolve_in_bounds(e, t)

NewYear(e, year) == to_time_point(e.ds, DateTime(year, 1, 1, 0, 0, 0, 0))

\* Mutant of InYear: the time since the beginning of the year is kept instead.
InYearByOffset(e, t, year) ==
    NewYear(e, year) + t - to_time_point(e.sim, DateTime(to_date_time(e.sim, t).year, 1, 1, 0, 0, 0, 0))

\* The simulation date moved to another year; the dataset's month may be shorter.
InYear(e, t, year) ==
    LET dt == to_date_time(e.sim, t)
    IN to_time_point(e.ds, Clamped(e.ds, dt, [year |-> year, month |-> dt.month]))

resolve_cycle(e, t) ==
    LET year == IF t >= e.end THEN to_date_time(e.ds, e.end - 1).year ELSE to_date_time(e.ds, e.start).year
    IN resolve_in_bounds(e, InYear(e, t, year))

\* A window that ends in the next year is the one that ends with the year.
resolve_climatology(e, t) ==
    LET tp == InYear(e, t, e.clim)
        w  == enclosing_window(tp, NewYear(e, e.clim), e.interval)
        t_right == NewYear(e, e.clim + 1)
    IN Weighted(tp, IF to_date_time(e.ds, w.end).year > e.clim
                      THEN [start |-> t_right - e.interval, end |-> t_right] ELSE w)

is_feb29(dt) == dt.month = 2 /\ dt.day = 29

LeapDay(e, t) == e.sim = "gregorian" /\ e.ds = "noleap" /\ is_feb29(to_date_time(e.sim, t))

\* The day has no counterpart: hold its eve.
Hold(e, t) ==
    LET year == to_date_time(e.sim, t).year
    IN Frozen(to_time_point(e.ds, DateTime(year, 2, 28, 0, 0, 0, 0)),
              to_time_point(e.ds, DateTime(year, 3, 1, 0, 0, 0, 0)))

resolve_leap_hold(e, t) ==
    IF LeapDay(e, t) THEN Hold(e, t)
    ELSE IF t >= e.end \/ t < e.start THEN resolve_clamp(e, t)
    ELSE resolve_in_bounds(e, t)

resolve(e, t) ==
    CASE e.policy = "pure_climatology" -> resolve_climatology(e, t)
      [] e.policy = "leap_hold" /\ LeapDay(e, t) -> Hold(e, t)
      [] e.policy # "pure_climatology" /\ ~(e.policy = "leap_hold" /\ LeapDay(e, t)) ->
           IF t >= e.start /\ t < e.end THEN resolve_in_bounds(e, t)
           ELSE CASE e.policy = "clamp_to_edge" -> resolve_clamp(e, t)
                  [] e.policy = "cycle_last_year" -> resolve_cycle(e, t)
                  [] e.policy = "leap_hold" -> resolve_leap_hold(e, t)

-----------------------------------------------------------------------------
NoEngine == [status |-> "none"]

EInit == engine = NoEngine /\ answer = Thrown("none")

\* The constructor's checks.
Accepted(e) ==
    /\ e.interval > 0
    /\ (e.end - e.start) % e.interval = 0
    /\ e.policy = "pure_climatology" =>
         e.clim >= to_date_time(e.ds, e.start).year /\ e.clim <= to_date_time(e.ds, e.end - 1).year

Construct(sim, ds, w, iv, policy, clim) ==
    LET e == [status |-> "built", sim |-> sim, ds |-> ds, start |-> w.start, end |-> w.end,
              interval |-> iv, policy |-> policy, clim |-> clim]
    IN /\ engine' = IF Accepted(e) THEN e ELSE [status |-> "invalid_argument"]
       /\ UNCHANGED answer

Resolve(d) ==
    /\ validate(engine.sim, d)
    /\ LET t == to_time_point(engine.sim, d) IN answer' = [t |-> t] @@ resolve(engine, t)
    /\ UNCHANGED engine

\* resolve is const: one call of an engine stands for any of its calls.
ENext ==
    \/ engine = NoEngine /\ \E sim \in Cals, ds \in Cals, iv \in Intervals, p \in Policies, y \in ClimYears :
         \E w \in Coverages[ds] : Construct(sim, ds, w, iv, p, y)
    \/ engine.status = "built" /\ answer.status = "none" /\ \E d \in SimDates : Resolve(d)

-----------------------------------------------------------------------------
Answered == engine.status = "built" /\ answer.status # "none"

YearStart(c, t) == LET dt == to_date_time(c, t) IN t = to_time_point(c, DateTime(dt.year, 1, 1, 0, 0, 0, 0))
WholeYears(e) == YearStart(e.ds, e.start) /\ YearStart(e.ds, e.end)

\* Climatology windows are counted from 1 January of the climatological year,
\* not from the first snapshot, and the last one ends with that year.
ClimatologyWindow(e, a) ==
    /\ (a.start - NewYear(e, e.clim)) % e.interval = 0 \/ a.end = NewYear(e, e.clim + 1)
    /\ to_date_time(e.ds, a.end - 1).year = e.clim

(***************************************************************************)
(* An engine over whole years answers every time, with a window one        *)
(* interval long inside the coverage, and a weight of less than 1: no      *)
(* exception in the middle of a run.  clamp_to_edge, cycle_last_year and   *)
(* leap_hold answer with two consecutive snapshots, except that leap_hold  *)
(* holds a 29 February the dataset does not have in the window from        *)
(* 28 February to 1 March, whatever the interval and the coverage.         *)
(* pure_climatology answers with a window inside the climatological year,  *)
(* counted from its 1 January or ending with it; its ends are snapshots    *)
(* only when the interval divides the distance from the start of the       *)
(* coverage to that day, which the engine does not ask for                 *)
(* (aliasing_engine.hpp:205-217).                                          *)
(***************************************************************************)
WindowOfDataset ==
    Answered /\ WholeYears(engine) =>
        /\ answer.status = "ok"
        /\ answer.num >= 0 /\ answer.num < answer.end - answer.start
        /\ ~(LeapDay(engine, answer.t) /\ engine.policy = "leap_hold") =>
             /\ answer.end = answer.start + engine.interval
             /\ answer.start >= engine.start /\ answer.end <= engine.end
             /\ IF engine.policy = "pure_climatology" THEN ClimatologyWindow(engine, answer)
                ELSE (answer.start - engine.start) % engine.interval = 0

(***************************************************************************)
(* A time the policy moves to another year keeps its season: the moment    *)
(* that is interpolated has the month, the time of day and, up to the      *)
(* length of the dataset's month, the day of the simulation's date.        *)
(***************************************************************************)
SeasonKept ==
    LET moved == \/ engine.policy = "pure_climatology"
                 \/ engine.policy = "cycle_last_year" /\ ~(answer.t >= engine.start /\ answer.t < engine.end)
    IN Answered /\ answer.status = "ok" /\ moved =>
         LET dt == to_date_time(engine.sim, answer.t)
             at == to_date_time(engine.ds, answer.start + answer.num)
             last == RuleLength(engine.ds, at.year, at.month)
         IN /\ at.month = dt.month
            /\ at.day = IF dt.day > last THEN last ELSE dt.day
            /\ SubDay(at) = SubDay(dt)

(***************************************************************************)
(* What an engine answers lies in the dataset's coverage, in windows of    *)
(* the dataset or, for pure_climatology, of the climatological year, and   *)
(* is of the right season.                                                 *)
(***************************************************************************)
AliasedInSeason == WindowOfDataset /\ SeasonKept
=============================================================================
