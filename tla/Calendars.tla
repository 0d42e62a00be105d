----------------------------- MODULE Calendars ------------------------------
(***************************************************************************)
(* TICK's calendars: Gregorian_Calendar, NoLeap_Calendar and               *)
(* Cal360_Calendar convert between a Time_Point (ticks since 2026-01-01)   *)
(* and a Date_Time, and add months.  The units below a day are parameters, *)
(* so that TLC's integers hold centuries of ticks.  A walk from month to   *)
(* month, forwards and backwards, compares them with the calendar's rule.  *)
(***************************************************************************)
EXTENDS Integers, Sequences, FiniteSetsExt

CONSTANTS
    nanos_per_second, SecondsPerMinute, MinutesPerHour, HoursPerDay,
    MaxNanos,   \* the largest Time_Point; the smallest is -MaxNanos - 1
    WalkYears,  \* the years the walk visits
    Anchors     \* the years it starts in, whole 400-year cycles from 2026

nanos_per_minute == SecondsPerMinute * nanos_per_second
nanos_per_hour == MinutesPerHour * nanos_per_minute
nanos_per_day == HoursPerDay * nanos_per_hour

Cals == {"gregorian", "noleap", "cal360"}

\* Division and remainder as C++ has them: towards zero (divisors
\* are positive here).
TruncDiv(a, b) == IF a >= 0 THEN a \div b ELSE -((-a) \div b)
TruncMod(a, b) == a - b * TruncDiv(a, b)

\* Signed 64-bit arithmetic that is not checked wraps in the build.
Wrap(n) == ((n + MaxNanos + 1) % (2 * MaxNanos + 2)) - MaxNanos - 1

\* checked_add, checked_sub and checked_mul throw overflow_error.
Overflows(n) == n > MaxNanos \/ n < -MaxNanos - 1

\* Mutant of floor_div: the correction for negative numbers is forgotten.
floor_div_truncating(a, b) == TruncDiv(a, b)

floor_div(a, b) == TruncDiv(a, b) - (IF TruncMod(a, b) # 0 /\ (a < 0) # (b < 0) THEN 1 ELSE 0)

-----------------------------------------------------------------------------
(* Date_Time *)

DateTime(y, m, d, h, mi, s, n) ==
    [year |-> y, month |-> m, day |-> d, hour |-> h, minute |-> mi, second |-> s, nanosecond |-> n]

\* The fields below the day, from the ticks of a day, and back.
Decompose(y, m, d, sub) ==
    DateTime(y, m, d, sub \div nanos_per_hour, (sub % nanos_per_hour) \div nanos_per_minute,
             (sub % nanos_per_minute) \div nanos_per_second, sub % nanos_per_second)

SubDay(dt) == dt.hour * nanos_per_hour + dt.minute * nanos_per_minute + dt.second * nanos_per_second + dt.nanosecond

-----------------------------------------------------------------------------
(* Gregorian_Calendar *)

is_leap_year(y) == (y % 4 = 0 /\ y % 100 # 0) \/ y % 400 = 0

MonthLengths == <<31, 28, 31, 30, 31, 30, 31, 31, 30, 31, 30, 31>>
DaysBeforeCommon == <<0, 31, 59, 90, 120, 151, 181, 212, 243, 273, 304, 334>>
DaysBeforeLeap == <<0, 31, 60, 91, 121, 152, 182, 213, 244, 274, 305, 335>>

\* Hinnant's civil_from_days: eras of 400 years that begin in March.
days_to_civil(z0) ==
    LET z   == z0 + 719468
        era == TruncDiv(IF z >= 0 THEN z ELSE z - 146096, 146097)
        doe == z - era * 146097
        yoe == (doe - doe \div 1460 + doe \div 36524 - doe \div 146096) \div 365
        doy == doe - (365 * yoe + yoe \div 4 - yoe \div 100)
        mp  == (5 * doy + 2) \div 153
        m   == mp + (IF mp < 10 THEN 3 ELSE -9)
    IN [year |-> yoe + era * 400 + (IF m <= 2 THEN 1 ELSE 0), month |-> m,
        day |-> doy - (153 * mp + 2) \div 5 + 1]

civil_to_days(y, m, d) ==
    LET yr  == y - (IF m <= 2 THEN 1 ELSE 0)
        era == TruncDiv(IF yr >= 0 THEN yr ELSE yr - 399, 400)
        yoe == yr - era * 400
        doy == (153 * (m + (IF m > 2 THEN -3 ELSE 9)) + 2) \div 5 + d - 1
    IN era * 146097 + yoe * 365 + yoe \div 4 - yoe \div 100 + doy - 719468

epoch_day_offset == civil_to_days(2026, 1, 1)

GregorianToTimePoint(dt) ==
    Wrap((civil_to_days(dt.year, dt.month, dt.day) - epoch_day_offset) * nanos_per_day + SubDay(dt))

GregorianToDateTime(tp) ==
    LET day == floor_div(tp, nanos_per_day)
        c   == days_to_civil(day + epoch_day_offset)
    IN Decompose(c.year, c.month, c.day, tp - day * nanos_per_day)

day_of_week(dt) == LET w == TruncMod(civil_to_days(dt.year, dt.month, dt.day) + 3, 7)
                   IN (IF w < 0 THEN w + 7 ELSE w) + 1

day_of_year(dt) == (IF is_leap_year(dt.year) THEN DaysBeforeLeap ELSE DaysBeforeCommon)[dt.month] + dt.day

GregorianShift(dt, months) ==
    LET total == dt.year * 12 + (dt.month - 1) + months
        y     == floor_div(total, 12)
    IN [year |-> y, month |-> total - y * 12 + 1]

-----------------------------------------------------------------------------
(* NoLeap_Calendar *)

NoLeapToDateTime(tp) ==
    LET quot == TruncDiv(tp, nanos_per_day)
        rem  == TruncMod(tp, nanos_per_day)
        day  == IF rem < 0 THEN quot - 1 ELSE quot
        sub  == IF rem < 0 THEN rem + nanos_per_day ELSE rem
        year == IF day >= 0 THEN day \div 365 ELSE TruncDiv(day + 1, 365) - 1
        doy  == day - year * 365
        m    == CHOOSE i \in 1 .. 12 : /\ DaysBeforeCommon[i] <= doy
                                       /\ \A j \in i + 1 .. 12 : DaysBeforeCommon[j] > doy
    IN Decompose(year + 2026, m, doy - DaysBeforeCommon[m] + 1, sub)

NoLeapToTimePoint(dt) ==
    Wrap(((dt.year - 2026) * 365 + DaysBeforeCommon[dt.month] + dt.day - 1) * nanos_per_day + SubDay(dt))

NoLeapShift(dt, months) ==
    LET total == (dt.year - 1) * 12 + (dt.month - 1) + months
        y     == IF total >= 0 THEN total \div 12 + 1 ELSE TruncDiv(total - 11, 12) + 1
    IN [year |-> y, month |-> IF total >= 0 THEN (total % 12) + 1 ELSE total - (y - 1) * 12 + 1]

-----------------------------------------------------------------------------
(* Cal360_Calendar *)

Cal360ToDateTime(tp) ==
    LET day  == floor_div(tp, nanos_per_day)
        year == floor_div(day, 360)
        doy  == day - year * 360
    IN Decompose(2026 + year, doy \div 30 + 1, (doy % 30) + 1, tp - day * nanos_per_day)

Cal360ToTimePoint(dt) ==
    Wrap(((dt.year - 2026) * 360 + (dt.month - 1) * 30 + dt.day - 1) * nanos_per_day + SubDay(dt))

Cal360AddMonths(tp, months) == Wrap(tp + months * 30 * nanos_per_day)

-----------------------------------------------------------------------------
(* The operations of a calendar, chosen as the C functions choose it *)

\* A month out of range throws.
GregorianDaysInMonth(y, m) == IF m = 2 /\ is_leap_year(y) THEN 29 ELSE MonthLengths[m]
NoLeapDaysInMonth(m) == MonthLengths[m]
Cal360DaysInMonth == 30

days_in_month(c, y, m) ==
    CASE c = "gregorian" -> GregorianDaysInMonth(y, m)
      [] c = "noleap" -> NoLeapDaysInMonth(m)
      [] c = "cal360" -> Cal360DaysInMonth

days_in_year(c, y) ==
    CASE c = "gregorian" -> IF is_leap_year(y) THEN 366 ELSE 365
      [] c = "noleap" -> 365
      [] c = "cal360" -> 360

TimeValid(dt) ==
    /\ dt.hour \in 0 .. HoursPerDay - 1
    /\ dt.minute \in 0 .. MinutesPerHour - 1
    /\ dt.second \in 0 .. SecondsPerMinute - 1
    /\ dt.nanosecond \in 0 .. nanos_per_second - 1

GregorianValid(dt) ==
    dt.month \in 1 .. 12 /\ dt.day \in 1 .. GregorianDaysInMonth(dt.year, dt.month) /\ TimeValid(dt)

NoLeapValid(dt) ==
    /\ dt.month \in 1 .. 12
    /\ ~(dt.month = 2 /\ dt.day = 29)
    /\ dt.day \in 1 .. NoLeapDaysInMonth(dt.month)
    /\ TimeValid(dt)

Cal360Valid(dt) == dt.month \in 1 .. 12 /\ dt.day \in 1 .. 30 /\ TimeValid(dt)

validate(c, dt) ==
    CASE c = "gregorian" -> GregorianValid(dt)
      [] c = "noleap" -> NoLeapValid(dt)
      [] c = "cal360" -> Cal360Valid(dt)

to_date_time(c, tp) ==
    CASE c = "gregorian" -> GregorianToDateTime(tp)
      [] c = "noleap" -> NoLeapToDateTime(tp)
      [] c = "cal360" -> Cal360ToDateTime(tp)

\* For a date that validate accepts; any other throws invalid_argument.
to_time_point(c, dt) ==
    CASE c = "gregorian" -> GregorianToTimePoint(dt)
      [] c = "noleap" -> NoLeapToTimePoint(dt)
      [] c = "cal360" -> Cal360ToTimePoint(dt)

tick_to_time_point(c, dt) ==
    CASE c \notin Cals -> "TICK_ERR_INVALID_CALENDAR"
      [] c \in Cals /\ ~validate(c, dt) -> "TICK_ERR_INVALID_DATE"
      [] OTHER -> "TICK_OK"

\* The day is clamped to the last of the target month.
Clamped(c, dt, ym) ==
    [dt EXCEPT !.year = ym.year, !.month = ym.month,
               !.day = IF dt.day > days_in_month(c, ym.year, ym.month)
                         THEN days_in_month(c, ym.year, ym.month) ELSE dt.day]

add_months(c, tp, months) ==
    LET dt == to_date_time(c, tp)
    IN CASE c = "gregorian" -> to_time_point(c, Clamped(c, dt, GregorianShift(dt, months)))
         [] c = "noleap" -> to_time_point(c, Clamped(c, dt, NoLeapShift(dt, months)))
         [] c = "cal360" -> Cal360AddMonths(tp, months)

add_years(c, tp, years) ==
    IF c = "cal360" THEN Wrap(tp + years * 360 * nanos_per_day) ELSE add_months(c, tp, years * 12)

-----------------------------------------------------------------------------
(* The walk *)

VARIABLES
    walker,  \* the calendar that is walked through, and the year and month
    first    \* the first tick of that month, counted from 2026 by the rule

wvars == <<walker, first>>

\* The length of a month by the rule of the calendar.
RuleLength(c, y, m) ==
    CASE c = "cal360" -> 30
      [] m \in {4, 6, 9, 11} /\ c # "cal360" -> 30
      [] m = 2 /\ c # "cal360" -> IF c = "gregorian" /\ (IF y % 100 = 0 THEN y % 400 = 0 ELSE y % 4 = 0) THEN 29 ELSE 28
      [] OTHER -> 31

CycleDays(c) == CASE c = "gregorian" -> 146097 [] c = "noleap" -> 146000 [] c = "cal360" -> 144000

WInit == /\ walker \in [cal : Cals, year : Anchors, month : {1}]
         /\ first = ((walker.year - 2026) \div 400) * CycleDays(walker.cal) * nanos_per_day

After(w) == IF w.month = 12 THEN [w EXCEPT !.year = @ + 1, !.month = 1] ELSE [w EXCEPT !.month = @ + 1]
Before(w) == IF w.month = 1 THEN [w EXCEPT !.year = @ - 1, !.month = 12] ELSE [w EXCEPT !.month = @ - 1]
Length(w) == RuleLength(w.cal, w.year, w.month) * nanos_per_day

WalkOn == /\ walker' = After(walker)
          /\ walker'.year \in WalkYears
          /\ first' = first + Length(walker)

WalkBack == /\ walker' = Before(walker)
            /\ walker'.year \in WalkYears
            /\ first' = first - Length(Before(walker))

WNext == WalkOn \/ WalkBack

(***************************************************************************)
(* Every tick of every month is the date the calendar's rule says, and     *)
(* that date is that tick: no day is skipped or counted twice, before the  *)
(* epoch as after it, at the turn of a century and in the years before 1.  *)
(* A day beyond the month's last one is refused, and the weekday and the   *)
(* day of the year follow.                                                 *)
(***************************************************************************)
CalendarExact ==
    LET c == walker.cal
        y == walker.year
        m == walker.month
        len == RuleLength(c, y, m)
    IN /\ days_in_month(c, y, m) = len
       /\ \A d \in {0, len + 1, 32} : tick_to_time_point(c, Decompose(y, m, d, 0)) = "TICK_ERR_INVALID_DATE"
       /\ \A d \in 1 .. len, sub \in {0, nanos_per_hour + 1, nanos_per_day - 1} :
            LET dt == Decompose(y, m, d, sub)
                tp == first + (d - 1) * nanos_per_day + sub
            IN /\ to_time_point(c, dt) = tp
               /\ to_date_time(c, tp) = dt
       /\ m = 1 => first + days_in_year(c, y) * nanos_per_day = to_time_point(c, Decompose(y + 1, 1, 1, 0))
       /\ c = "gregorian" =>
            /\ day_of_week(Decompose(y, m, len, 0)) = ((first \div nanos_per_day + len - 1 + 3) % 7) + 1
            /\ day_of_year(Decompose(y, m, 1, 0)) * nanos_per_day = first - to_time_point(c, Decompose(y, 1, 1, 0)) + nanos_per_day

(***************************************************************************)
(* Adding months lands in the month that many steps away, at the same time *)
(* of the same day or on the month's last day; adding the months of whole  *)
(* years is adding the years.                                              *)
(***************************************************************************)
MonthsAdded ==
    LET c == walker.cal
        to == After(walker)
        from == Before(walker)
        Day(w, d) == IF d > RuleLength(c, w.year, w.month) THEN RuleLength(c, w.year, w.month) ELSE d
    IN \A d \in {1, 15, RuleLength(c, walker.year, walker.month)} :
         LET tp == first + (d - 1) * nanos_per_day + 1
         IN /\ add_months(c, tp, 1) = first + Length(walker) + (Day(to, d) - 1) * nanos_per_day + 1
            /\ add_months(c, tp, -1) = first - Length(from) + (Day(from, d) - 1) * nanos_per_day + 1
            /\ add_years(c, tp, -1) = add_months(c, tp, -12)
            /\ to_date_time(c, add_months(c, tp, 13)).month = to.month
=============================================================================
