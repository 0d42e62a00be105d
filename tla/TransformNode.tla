---------------------------- MODULE TransformNode ---------------------------
(***************************************************************************)
(* dagr::detail::dispatch_temporal_bookend: fetch the two snapshots that   *)
(* enclose a time from AMIO, blend them with the weight TICK has given,    *)
(* return.  A view is a pointer into a staging slot of AMIO's core, which  *)
(* other readers of the core use too and which stays taken until the view  *)
(* is released; this code releases none.  BLEND's kernels are modelled on  *)
(* integers, scaled by the weight's denominator.                           *)
(***************************************************************************)
EXTENDS Integers, FiniteSets

CONSTANTS
    Slots,        \* staging slots of the dataset's core
    ViewSize,     \* elements of a fetched view
    OutSizes,     \* element counts of output buffers
    TSteps,       \* time steps of the dataset
    Weights,      \* [num, den]: alpha = num / den
    Memory,       \* values the memory behind a view may hold
    MaxDispatches \* bound on the calls

\* AliasedWindow: "interpolation weight in [0.0, 1.0]".
ASSUME TnAssumption ==
    /\ Slots \in Nat
    /\ ViewSize \in Nat
    /\ Memory \subseteq Int
    /\ OutSizes \subseteq Nat
    /\ TSteps \subseteq Int
    /\ Weights \subseteq [num : Nat, den : Nat]
    /\ \A a \in Weights : a.den > 0 /\ a.num <= a.den

VARIABLES
    task,    \* the arguments of the call in progress
    tpc,     \* where it is, or how it ended
    staged,  \* the time step each staging slot holds
    pinned,  \* the slots of views that have been read and not released
    left, right,  \* the slots the call's views point to
    output,  \* the output buffer
    written, \* the elements of it the call has written
    calls,   \* how many calls there have been
    finished \* how many of them have returned

tvars == <<task, tpc, staged, pinned, left, right, output, written, calls, finished>>

SlotIds == 1 .. Slots
Free == SlotIds \ pinned

Sample(s, i) == 10 * s + i * i

\* What reading n elements through a view of step s may give: behind the view
\* lies memory of others.
Reads(s, n) ==
    {[i \in 1 .. n |-> IF i <= ViewSize THEN Sample(s, i) ELSE m[i]] : m \in [ViewSize + 1 .. n -> Memory]}

-----------------------------------------------------------------------------
(* BLEND *)

\* Mutant of LinearBlend: the weights are exchanged.
LinearBlendSwapped(l, r, a) == l * a.num + r * (a.den - a.num)

LinearBlend(l, r, a) == l * (a.den - a.num) + r * a.num

StepBlend(l, r, a) == (IF 2 * a.num >= a.den THEN r ELSE l) * a.den

to_blend_profile_tag(p) == CASE p = "linear" -> 0 [] p = "step" -> 1

\* The kernels' extents are all the count that is passed, so that their
\* check of the extents never fails here.
execute_blend(l, r, n, a, tag) ==
    [i \in 1 .. n |-> IF tag = 0 THEN LinearBlend(l[i], r[i], a) ELSE StepBlend(l[i], r[i], a)]

-----------------------------------------------------------------------------
NoTask == [l |-> 0, r |-> 0, alpha |-> [num |-> 0, den |-> 1], profile |-> "linear", count |-> 0]

TnInit ==
    /\ task = NoTask /\ tpc = "idle"
    /\ staged = [s \in SlotIds |-> 0] /\ pinned = {}
    /\ left = 0 /\ right = 0
    /\ output = [i \in {} |-> 0] /\ written = {}
    /\ calls = 0 /\ finished = 0

Dispatch(l, r, a, p, n) ==
    /\ tpc \in {"idle", "completed", "failed"}
    /\ calls < MaxDispatches
    /\ calls' = calls + 1
    /\ task' = [l |-> l, r |-> r, alpha |-> a, profile |-> p, count |-> n]
    /\ output' = [i \in 1 .. n |-> 0] /\ written' = {}
    /\ tpc' = "fetch_left"
    /\ UNCHANGED <<staged, pinned, left, right, finished>>

\* amio_fetch_field: read, then view_data.  A failure of either throws, and a
\* view that has been read keeps its slot.
NotRead == tpc' = "failed" /\ UNCHANGED <<staged, pinned, left, right>>

Pin(s, step, next) ==
    /\ staged' = [staged EXCEPT ![s] = step]
    /\ pinned' = pinned \cup {s}
    /\ tpc' \in {next, "failed"}

FetchLeft ==
    /\ tpc = "fetch_left"
    /\ NotRead \/ \E s \in Free : Pin(s, task.l, "fetch_right") /\ left' = s /\ UNCHANGED right
    /\ UNCHANGED <<task, output, written, calls, finished>>

FetchRight ==
    /\ tpc = "fetch_right"
    /\ NotRead \/ \E s \in Free : Pin(s, task.r, "blend") /\ right' = s /\ UNCHANGED left
    /\ UNCHANGED <<task, output, written, calls, finished>>

\* dispatch_blend gets the two pointers and output_count, not the views'
\* sizes.  It may throw, with any elements written; the token is passed on,
\* not signalled, here.
Blend ==
    /\ tpc = "blend"
    /\ \E l \in Reads(staged[left], task.count), r \in Reads(staged[right], task.count) :
         LET b == execute_blend(l, r, task.count, task.alpha, to_blend_profile_tag(task.profile))
         IN \/ /\ output' = b /\ written' = 1 .. task.count
               /\ tpc' = "completed" /\ finished' = finished + 1
            \/ /\ written' \in SUBSET (1 .. task.count)
               /\ output' = [i \in 1 .. task.count |-> IF i \in written' THEN b[i] ELSE output[i]]
               /\ tpc' = "failed" /\ UNCHANGED finished
    /\ UNCHANGED <<task, staged, pinned, left, right, calls>>

\* Another reader of the core takes a slot, and has given it back.
OtherRead(s, step) ==
    /\ s \in Free
    /\ staged' = [staged EXCEPT ![s] = step]
    /\ UNCHANGED <<task, tpc, pinned, left, right, output, written, calls, finished>>

TnNext ==
    \/ \E l, r \in TSteps, a \in Weights, p \in {"linear", "step"}, n \in OutSizes : Dispatch(l, r, a, p, n)
    \/ FetchLeft \/ FetchRight \/ Blend
    \/ \E s \in SlotIds, step \in TSteps : OtherRead(s, step)

TnSpec == TnInit /\ [][TnNext]_tvars

-----------------------------------------------------------------------------
\* Element i of the output lies between the two samples, at the distance of
\* the weight, or is one of them under the step profile.
ElementExact(i) ==
    LET l == Sample(task.l, i) * task.alpha.den
        r == Sample(task.r, i) * task.alpha.den
    IN /\ IF l <= r THEN l <= output[i] /\ output[i] <= r ELSE r <= output[i] /\ output[i] <= l
       /\ (task.alpha.num = 0 => output[i] = l)
       /\ (task.profile = "step" => output[i] \in {l, r})
       /\ (task.profile = "linear" => (output[i] - l) * task.alpha.den = (r - l) * task.alpha.num)

(***************************************************************************)
(* Every element that a call has written, and a call that returns has      *)
(* written all, is blended from the two steps the call was given, though   *)
(* other readers and earlier calls use the same staging slots meanwhile -  *)
(* as far as the views reach: an output of more elements than the views,   *)
(* which the call's precondition allows (transform_node.cpp:172-173), is   *)
(* filled up from the memory behind them (line 247), and nothing is said   *)
(* of those elements.  The views are not given back: each call that has    *)
(* returned keeps two slots for good, so that no more than half as many    *)
(* calls as there are slots ever return (transform_node.cpp:216-222).      *)
(***************************************************************************)
BookendExact ==
    /\ tpc = "completed" => written = 1 .. task.count
    /\ \A i \in written : i <= ViewSize => ElementExact(i)
    /\ 2 * finished <= Cardinality(pinned)
    /\ 2 * finished <= Slots

=============================================================================
