------------------------------ MODULE TickClock -----------------------------
(***************************************************************************)
(* The clock of a coupled run, built from TICK: compute_heartbeat gives    *)
(* the step of the clock, an Interval_Alarm per model its time steps,      *)
(* compute_sync_period the period at which they meet, an Absolute_Alarm    *)
(* the end, and compute_window the accumulation window.  At the end of the *)
(* module, the checked arithmetic all of TICK computes with.               *)
(***************************************************************************)
EXTENDS Calendars, SequencesExt

CONSTANTS
    StepLists,   \* the models' time steps, in ticks
    Bases,       \* the time the run starts at
    RunTicks     \* bound on the length of a run

VARIABLES
    steps,   \* the time steps given
    base,    \* the reference of the alarms
    now,     \* the clock
    status   \* "running", or what the C function returned instead

cvars == <<steps, base, now, status>>

-----------------------------------------------------------------------------
\* std::gcd, of positive numbers and of 0 and a positive number.
Gcd(a, b) == IF a = 0 THEN b ELSE Max({d \in 1 .. b : a % d = 0 /\ b % d = 0})

\* Both functions throw invalid_argument on these.
Rejected(s) == s = <<>> \/ \E i \in DOMAIN s : s[i] <= 0

compute_heartbeat(s) == FoldLeft(LAMBDA g, x : Gcd(g, x), 0, s)

\* One step of the least common multiple; -1 stands for overflow_error, which
\* is looked for before the multiplication.
LcmStep(acc, x) ==
    IF acc = -1 \/ acc \div Gcd(acc, x) > MaxNanos \div x THEN -1 ELSE (acc \div Gcd(acc, x)) * x

compute_sync_period(s) == FoldLeft(LcmStep, 1, s)

is_ringing(iv, t) == t >= base /\ (t - base) % iv = 0

next_ring_at(iv, t) == IF t < base THEN base ELSE base + ((t - base) \div iv + 1) * iv

is_phase_aligned(t, iv) == t >= base /\ (t - base) % iv = 0

is_on_boundary(t, iv) == TruncMod(t, iv) = 0

compute_window(t, iv) ==
    LET floor == IF t >= 0 THEN TruncDiv(t, iv) * iv ELSE TruncDiv(t - iv + 1, iv) * iv
    IN [start |-> floor, end |-> floor + iv]

AlarmRings(trigger, t) == t = trigger
HasPassed(trigger, t) == t > trigger

-----------------------------------------------------------------------------
CInit == /\ steps \in StepLists
         /\ base \in Bases
         /\ now = base - 1
         /\ status = "new"

\* TICK_C_TRY: what an exception becomes.
Start ==
    /\ status = "new"
    /\ status' = IF Rejected(steps) THEN "TICK_ERR_INVALID_ARG"
                 ELSE IF compute_sync_period(steps) = -1 THEN "TICK_ERR_OVERFLOW"
                 ELSE "running"
    /\ now' = IF status' = "running" THEN base ELSE now
    /\ UNCHANGED <<steps, base>>

\* Time_Point::operator+ is checked.
Advance ==
    /\ status = "running"
    /\ ~HasPassed(base + RunTicks, now)
    /\ LET next == now + compute_heartbeat(steps)
       IN IF Overflows(next) THEN status' = "TICK_ERR_OVERFLOW" /\ now' = now
          ELSE now' = next /\ status' = status
    /\ UNCHANGED <<steps, base>>

CNext == Start \/ Advance

-----------------------------------------------------------------------------
(***************************************************************************)
(* A clock that steps by the heartbeat meets every ring of every model: it *)
(* never stands between two rings with the next one nearer than a step,    *)
(* and next_ring_at is the first ring after now; an absolute alarm set to  *)
(* a ring has not passed without ringing.  All models meet exactly         *)
(* at the multiples of the sync period, which is reported rather than      *)
(* computed wrongly when it does not fit; the accumulation windows tile    *)
(* time, before the epoch too.                                             *)
(***************************************************************************)
RingsMet ==
    status = "running" =>
        /\ \A i \in DOMAIN steps :
             LET next == next_ring_at(steps[i], now)
             IN /\ now + compute_heartbeat(steps) <= next
                /\ is_ringing(steps[i], next)
                /\ \A t \in now + 1 .. next - 1 : ~is_ringing(steps[i], t)
                /\ \A t \in base .. now : is_ringing(steps[i], t) /\ HasPassed(t, now) =>
                     \E k \in 1 .. now - base : AlarmRings(t, now - k * compute_heartbeat(steps))
        /\ (\A i \in DOMAIN steps : is_ringing(steps[i], now)) <=> is_phase_aligned(now, compute_sync_period(steps))
        /\ \A i \in DOMAIN steps :
             LET w == compute_window(now, steps[i])
             IN /\ w.start <= now /\ now < w.end
                /\ is_on_boundary(now, steps[i]) <=> w.start = now
                /\ compute_window(w.end, steps[i]).start = w.end
-----------------------------------------------------------------------------
(***************************************************************************)
(* tick::detail's checked arithmetic and what Duration, Time_Point and the *)
(* C functions make of it.  Each checked function has two bodies: limit    *)
(* tests before the operation when the compiler evaluates it, the          *)
(* compiler's overflow builtins at run time.                               *)
(***************************************************************************)
CONSTANTS
    MaxInt,    \* the largest integer of the type
    Unit       \* nanoseconds of the unit a factory function is for

\* int64_t has a limit, and the units' factors fit.
ASSUME ArithAssumption == MaxInt \in Nat \ {0} /\ Unit \in 1 .. MaxInt

VARIABLES
    operands,  \* the function called and its arguments
    constant,  \* its result when it is evaluated by the compiler
    runtime    \* its result at run time

avars == <<operands, constant, runtime>>

MinInt == -MaxInt - 1
Ints == MinInt .. MaxInt

Exact(n) == [status |-> "ok", value |-> n]
overflow_error == [status |-> "overflow", value |-> 0]
invalid_argument == [status |-> "invalid", value |-> 0]

Quotient(a, b) == LET q == (IF a < 0 THEN -a ELSE a) \div (IF b < 0 THEN -b ELSE b)
                  IN IF (a < 0) = (b < 0) THEN q ELSE -q

\* __builtin_add_overflow and its siblings
Builtin(n) == IF n \in Ints THEN Exact(n) ELSE overflow_error

checked_add(a, b) ==
    IF (b > 0 /\ a > MaxInt - b) \/ (b < 0 /\ a < MinInt - b) THEN overflow_error ELSE Exact(a + b)

checked_sub(a, b) ==
    IF (b < 0 /\ a > MaxInt + b) \/ (b > 0 /\ a < MinInt + b) THEN overflow_error ELSE Exact(a - b)

\* The divisors are never 0 or -1 where the limits are divided.
checked_mul(a, b) ==
    CASE a = 0 \/ b = 0 -> Exact(0)
      [] a = -1 /\ b # 0 -> IF b = MinInt THEN overflow_error ELSE Exact(-b)
      [] b = -1 /\ a \notin {0, -1} -> IF a = MinInt THEN overflow_error ELSE Exact(-a)
      [] OTHER ->
           IF \/ a > 0 /\ b > 0 /\ a > Quotient(MaxInt, b)
              \/ a > 0 /\ b < 0 /\ b < Quotient(MinInt, a)
              \/ a < 0 /\ b > 0 /\ a < Quotient(MinInt, b)
              \/ a < 0 /\ b < 0 /\ a < Quotient(MaxInt, b)
             THEN overflow_error ELSE Exact(a * b)

\* Duration::operator/ checks for zero only; MinInt / -1 is undefined.
Divide(a, b) == IF b = 0 THEN invalid_argument ELSE Exact(Quotient(a, b))

\* The C factory functions multiply with a check; those of duration.hpp do not.
FromUnits(n) == checked_mul(n, Unit)

Ops == {"add", "sub", "mul", "div", "units"}

ByCompiler(op, a, b) ==
    CASE op = "add" -> checked_add(a, b)
      [] op = "sub" -> checked_sub(a, b)
      [] op = "mul" -> checked_mul(a, b)
      [] op = "div" -> Divide(a, b)
      [] op = "units" -> FromUnits(a)

AtRunTime(op, a, b) ==
    CASE op = "add" -> Builtin(a + b)
      [] op = "sub" -> Builtin(a - b)
      [] op = "mul" -> Builtin(a * b)
      [] op = "div" -> Divide(a, b)
      [] op = "units" -> Builtin(a * Unit)

Uncalled == [op |-> "none", a |-> 0, b |-> 0]

AInit == operands = Uncalled /\ constant = Exact(0) /\ runtime = Exact(0)

Compute(op, a, b) ==
    /\ operands' = [op |-> op, a |-> a, b |-> b]
    /\ constant' = ByCompiler(op, a, b)
    /\ runtime' = AtRunTime(op, a, b)

ANext == operands = Uncalled /\ \E op \in Ops, a, b \in Ints : Compute(op, a, b)

ASpec == AInit /\ [][ANext]_avars

(***************************************************************************)
(* The limit tests of the compile-time bodies agree with the builtins on   *)
(* every pair of operands: a result is the exact one or overflow_error is  *)
(* thrown, and it is thrown only when the exact result does not fit.       *)
(***************************************************************************)
ArithmeticExact == constant = runtime
=============================================================================
