------------------------- MODULE PrefetchQueueProofs ------------------------
(***************************************************************************)
(* Proofs about PrefetchQueue, for any number of readers, steps,           *)
(* selections, buffers and tasks and any look-ahead depth.                 *)
(*                                                                         *)
(* That a reader is given its own selection rests on Labels: what          *)
(* fetched_bbox_ notes of a step is what its buffer holds. Labels rests on *)
(* Fetches: while a step has a task nothing is completed for it, so a      *)
(* second task never overwrites the outcome of a first. Fetches must allow *)
(* for cancel_pending, which empties pending_ under tasks that still run.  *)
(* HeldOnce accounts for the buffers, as four sets of holders of which one *)
(* is a singleton.                                                         *)
(***************************************************************************)
EXTENDS PrefetchQueue, FiniteSetTheorems, TLAPS

Running(f) == fetch[f] # Idle

\* A step has at most one task.  A pending step has one, and until the queue
\* is cancelled every task's step is pending; after that tasks still run.
\* A step with a task has no outcome yet, and a failed one no buffer.
Fetches ==
    /\ \A f, g \in Tasks : Running(f) /\ Running(g) /\ fetch[f].ts = fetch[g].ts => f = g
    /\ \A t \in pending : \E f \in Tasks : Running(f) /\ fetch[f].ts = t
    /\ ~cancelled => \A f \in Tasks : Running(f) => fetch[f].ts \in pending
    /\ \A f \in Tasks : Running(f) => fetch[f].ts \notin failed /\ completed[fetch[f].ts] = None
    /\ \A t \in failed : completed[t] = None

\* A completed buffer holds its step, and the selection noted beside it.
Labels ==
    \A t \in Steps : completed[t] # None =>
        completed[t].ts = t /\ completed[t].sel = fetched_bbox[t]

\* The holders of a buffer of each sort.
InFree(b) == IF b \in free THEN {"free"} ELSE {}
InFetch(b) == {g \in Tasks : fetch[g].at = "read" /\ fetch[g].buf = b}
InCompleted(b) == {u \in Steps : completed[u] # None /\ completed[u].buf = b}
InReader(b) == {q \in Readers : reader[q].at \in {"got", "view"} /\ reader[q].data.buf = b}

\* A buffer has one holder.
One(A, B, C, D) == (\E x \in A : A = {x}) /\ B = {} /\ C = {} /\ D = {}

Held(b) == \/ One(InFree(b), InFetch(b), InCompleted(b), InReader(b))
           \/ One(InFetch(b), InFree(b), InCompleted(b), InReader(b))
           \/ One(InCompleted(b), InFree(b), InFetch(b), InReader(b))
           \/ One(InReader(b), InFree(b), InFetch(b), InCompleted(b))

HeldOnce == \A b \in Buffers : Held(b)

IInv == TypeOK /\ Fetches /\ Labels /\ HeldOnce /\ InTimeReadsMatch /\ CancelWakesReaders

-----------------------------------------------------------------------------
(* The shapes of the records.                                             *)

Asking == {"check", "schedule", "refetch", "loop", "tail", "asleep", "woken"}
AskState == [at : Asking, ts : Steps, sel : Selections]
HoldState == [at : {"got", "view"}, ts : Steps, sel : Selections, data : FilledBuffer, late : BOOLEAN]
OpenState == [at : {"open"}, ts : Steps, sel : Selections, next : 0 .. NumSteps, end : 0 .. NumSteps]
WarmState == [at : {"warm"}, next : 0 .. NumSteps, end : 0 .. NumSteps]

LEMMA ReaderShapes ==
    /\ Out \in ReaderState /\ Out.at = "out"
    /\ AskState \subseteq ReaderState /\ HoldState \subseteq ReaderState
    /\ OpenState \subseteq ReaderState /\ WarmState \subseteq ReaderState
    /\ \A x \in ReaderState :
        /\ x.at \in Asking => x \in AskState /\ x.ts \in Steps /\ x.sel \in Selections
        /\ x.at \in {"got", "view"} => /\ x \in HoldState /\ x.data \in FilledBuffer /\ x.data.buf \in Buffers
                                       /\ x.ts \in Steps
        /\ x.at = "open" => x \in OpenState /\ x.ts \in Steps /\ x.sel \in Selections
        /\ x.at = "warm" => x \in WarmState
        /\ x.at \in {"open", "warm"} => x.next \in 0 .. NumSteps /\ x.end \in 0 .. NumSteps
BY DEF ReaderState, Out, AskState, HoldState, OpenState, WarmState, Asking, FilledBuffer

LEMMA AskChanges ==
    \A x \in AskState, p \in Asking : LET y == [x EXCEPT !.at = p]
                                       IN  y \in AskState /\ y.at = p /\ y.ts = x.ts /\ y.sel = x.sel
BY DEF AskState

LEMMA HoldChanges ==
    \A x \in HoldState : LET y == [x EXCEPT !.at = "view"]
                         IN  /\ y \in HoldState /\ y.at = "view" /\ y.ts = x.ts /\ y.sel = x.sel
                             /\ y.data = x.data /\ y.late = x.late
BY DEF HoldState

LEMMA FetchShapes ==
    /\ Idle \in FetchState /\ Idle.at = "idle"
    /\ \A x \in FetchState :
        /\ x = Idle <=> x.at = "idle"
        /\ x # Idle => x.ts \in Steps /\ x.sel \in Selections /\ x.at \in {"queued", "acquire", "read"}
        /\ x.at = "read" => x.buf \in Buffers
        /\ x.at = "queued" => LET y == [x EXCEPT !.at = "acquire"]
                              IN  y \in FetchState /\ y # Idle /\ y.at = "acquire" /\ y.ts = x.ts
    /\ \A t \in Steps, s \in Selections : LET y == [at |-> "queued", ts |-> t, sel |-> s]
                                          IN  y \in FetchState /\ y # Idle /\ y.at = "queued" /\ y.ts = t
    /\ \A t \in Steps, s \in Selections, b \in Buffers :
          LET y == [at |-> "read", ts |-> t, sel |-> s, buf |-> b]
          IN  y \in FetchState /\ y # Idle /\ y.at = "read" /\ y.ts = t /\ y.buf = b
BY DEF FetchState, Idle

LEMMA FilledShapes ==
    \A b \in Buffers, t \in Steps, s \in Selections :
       LET y == [buf |-> b, ts |-> t, sel |-> s]
       IN  y \in FilledBuffer /\ y # None /\ y.buf = b /\ y.ts = t /\ y.sel = s
BY QueueAssumption DEF FilledBuffer

LEMMA CompletedShapes == \A x \in FilledBuffer \cup {None} : x # None => x \in FilledBuffer /\ x.buf \in Buffers
BY DEF FilledBuffer

LEMMA WindowEndType == \A t \in Steps : WindowEnd(t) \in 0 .. NumSteps /\ t \in 0 .. NumSteps
BY QueueAssumption DEF WindowEnd, Steps

\* What the types say of one reader, task or step.
LEMMA Typed ==
    ASSUME TypeOK
    PROVE  /\ \A r \in Readers : reader[r] \in ReaderState
           /\ \A f \in Tasks : /\ fetch[f] \in FetchState
                               /\ Running(f) => fetch[f].ts \in Steps /\ fetch[f].sel \in Selections
                               /\ Running(f) <=> fetch[f].at # "idle"
                               /\ fetch[f].at = "read" => fetch[f].buf \in Buffers
           /\ \A t \in Steps : completed[t] # None => completed[t] \in FilledBuffer /\ completed[t].buf \in Buffers
<1>1. \A r \in Readers : reader[r] \in ReaderState
    BY DEF TypeOK
<1>2. \A f \in Tasks : fetch[f] \in FetchState
    BY DEF TypeOK
<1>3. \A t \in Steps : completed[t] \in FilledBuffer \cup {None}
    BY DEF TypeOK
<1> QED BY <1>1, <1>2, <1>3, FetchShapes, CompletedShapes DEF Running

-----------------------------------------------------------------------------
(* The parts of a step.                                                   *)

\* A buffer whose holders stay the same is still held once.
LEMMA HeldFrame ==
    ASSUME HeldOnce,
           \A b \in Buffers : /\ InFree(b)' = InFree(b) /\ InFetch(b)' = InFetch(b)
                              /\ InCompleted(b)' = InCompleted(b) /\ InReader(b)' = InReader(b)
    PROVE  HeldOnce'
<1> SUFFICES ASSUME NEW b \in Buffers PROVE Held(b)'
    BY DEF HeldOnce
<1> QED BY DEF HeldOnce, Held, One

\* A held buffer has no other holder.
LEMMA HeldElim ==
    ASSUME HeldOnce, NEW b \in Buffers
    PROVE  /\ b \in free => InFetch(b) = {} /\ InCompleted(b) = {} /\ InReader(b) = {}
           /\ \A f \in InFetch(b) : /\ b \notin free /\ InFetch(b) = {f}
                                    /\ InCompleted(b) = {} /\ InReader(b) = {}
           /\ \A t \in InCompleted(b) : /\ b \notin free /\ InFetch(b) = {}
                                        /\ InCompleted(b) = {t} /\ InReader(b) = {}
           /\ \A r \in InReader(b) : /\ b \notin free /\ InFetch(b) = {}
                                     /\ InCompleted(b) = {} /\ InReader(b) = {r}
<1>1. Held(b)
    BY DEF HeldOnce
<1>2. (b \in free <=> InFree(b) # {}) /\ (b \notin free <=> InFree(b) = {})
    BY DEF InFree
<1> HIDE DEF InFree
<1> QED BY <1>1, <1>2 DEF Held, One

LEMMA ReaderMoves ==
    ASSUME TypeOK, NEW r \in Readers, NEW s \in ReaderState, Goto(r, s)
    PROVE  /\ reader' \in [Readers -> ReaderState]
           /\ \A q \in Readers : reader'[q] = IF q = r THEN s ELSE reader[q]
BY DEF TypeOK, Goto

LEMMA QuietReader ==
    ASSUME IInv, NEW r \in Readers, NEW s \in ReaderState, Goto(r, s),
           reader[r].at \notin {"got", "view"}, s.at \notin {"got", "view"},
           s.at = "asleep" => ~cancelled, cancelled' = cancelled
    PROVE  /\ reader' \in [Readers -> ReaderState]
           /\ InTimeReadsMatch' /\ CancelWakesReaders'
           /\ \A b \in Buffers : InReader(b)' = InReader(b)
<1>1. /\ reader' \in [Readers -> ReaderState]
      /\ \A q \in Readers : reader'[q] = IF q = r THEN s ELSE reader[q]
    BY ReaderMoves DEF IInv
<1>2. InTimeReadsMatch'
    BY <1>1 DEF IInv, InTimeReadsMatch, Holding, Matching
<1>3. CancelWakesReaders'
    BY <1>1 DEF IInv, CancelWakesReaders
<1>4. ASSUME NEW b \in Buffers PROVE InReader(b)' = InReader(b)
    BY <1>1 DEF InReader
<1> QED BY <1>1, <1>2, <1>3, <1>4

\* notify_all leaves nobody asleep, and what readers hold alone.
LEMMA NotifyMoves ==
    ASSUME IInv, Notify
    PROVE  /\ reader' \in [Readers -> ReaderState]
           /\ InTimeReadsMatch' /\ CancelWakesReaders'
           /\ \A b \in Buffers : InReader(b)' = InReader(b)
<1>1. \A q \in Readers : reader'[q] = IF reader[q].at = "asleep" THEN At(q, "woken") ELSE reader[q]
    BY DEF Notify
<1>2. \A q \in Readers : reader[q] \in ReaderState
    BY Typed DEF IInv
<1>3. \A q \in Readers : reader[q].at = "asleep" => At(q, "woken") \in ReaderState /\ At(q, "woken").at = "woken"
    BY <1>2, ReaderShapes, AskChanges DEF At, Asking
<1>4. reader' \in [Readers -> ReaderState]
    BY <1>1, <1>2, <1>3 DEF Notify
<1> HIDE DEF At
<1>5. InTimeReadsMatch'
    BY <1>1, <1>3 DEF IInv, InTimeReadsMatch, Holding, Matching
<1>6. CancelWakesReaders'
    BY <1>1, <1>3 DEF CancelWakesReaders
<1>7. ASSUME NEW b \in Buffers PROVE InReader(b)' = InReader(b)
    BY <1>1, <1>3 DEF InReader
<1> QED BY <1>4, <1>5, <1>6, <1>7

\* schedule_fetch starts a task for a step that has none.
LEMMA Scheduling ==
    ASSUME IInv, NEW t \in Steps, ScheduleFetch(t),
           UNCHANGED <<completed, failed, cancelled>>
    PROVE  /\ pending' \in SUBSET Steps /\ fetch' \in [Tasks -> FetchState]
           /\ Fetches'
           /\ \A b \in Buffers : InFetch(b)' = InFetch(b)
<1>1. CASE cancelled \/ Tracked(t)
    <2>1. pending' = pending /\ fetch' = fetch
        BY <1>1 DEF ScheduleFetch
    <2> QED BY <2>1 DEF IInv, TypeOK, Fetches, Running, InFetch
<1>2. CASE ~(cancelled \/ Tracked(t))
    <2>1. PICK f \in Tasks : /\ pending' = pending \cup {t}
                             /\ fetch[f] = Idle
                             /\ fetch' = [fetch EXCEPT ![f] = [at |-> "queued", ts |-> t, sel |-> latched]]
        BY <1>2 DEF ScheduleFetch
    <2> DEFINE y == [at |-> "queued", ts |-> t, sel |-> latched]
    <2>2. y \in FetchState /\ y # Idle /\ y.at = "queued" /\ y.ts = t
        BY FetchShapes DEF IInv, TypeOK
    <2>3. \A g \in Tasks : fetch'[g] = IF g = f THEN y ELSE fetch[g]
        BY <2>1 DEF IInv, TypeOK
    <2>4. pending' \in SUBSET Steps /\ fetch' \in [Tasks -> FetchState]
        BY <2>1, <2>2 DEF IInv, TypeOK
    <2> HIDE DEF y
    <2>5. ~cancelled /\ t \notin pending /\ completed[t] = None /\ t \notin failed
        BY <1>2 DEF Tracked
    <2>6. \A g \in Tasks : Running(g) => fetch[g].ts # t
        BY <2>5 DEF IInv, Fetches
    <2>7. \A g \in Tasks : Running(g)' <=> g = f \/ Running(g)
        BY <2>2, <2>3 DEF Running
    <2>8. \A g \in Tasks : g # f => fetch'[g] = fetch[g]
        BY <2>3
    <2>9. fetch'[f].ts = t /\ ~Running(f)
        BY <2>1, <2>2, <2>3 DEF Running
    <2>10. Fetches'
        BY <2>1, <2>5, <2>6, <2>7, <2>8, <2>9 DEF IInv, Fetches
    <2>11. ASSUME NEW b \in Buffers PROVE InFetch(b)' = InFetch(b)
        BY <2>1, <2>2, <2>3, FetchShapes DEF InFetch
    <2> QED BY <2>4, <2>10, <2>11
<1> QED BY <1>1, <1>2

-----------------------------------------------------------------------------
(* The readers' steps.                                                    *)

\* A step of a reader that holds nothing and leaves the maps and tasks alone.
LEMMA QuietStep ==
    ASSUME IInv, NEW r \in Readers, NEW s \in ReaderState, Goto(r, s),
           reader[r].at \notin {"got", "view"}, s.at \notin {"got", "view"},
           s.at = "asleep" => ~cancelled,
           UNCHANGED <<mapVars, cancelled, free, fetch>>,
           latched' \in Selections, kicked_off' \in BOOLEAN
    PROVE  IInv'
<1>1. /\ reader' \in [Readers -> ReaderState]
      /\ InTimeReadsMatch' /\ CancelWakesReaders'
      /\ \A b \in Buffers : InReader(b)' = InReader(b)
    BY QuietReader
<1>2. TypeOK'
    BY <1>1 DEF IInv, TypeOK, mapVars
<1>3. Fetches' /\ Labels'
    BY DEF IInv, Fetches, Labels, Running, mapVars
<1>4. \A b \in Buffers : /\ InFree(b)' = InFree(b) /\ InFetch(b)' = InFetch(b)
                         /\ InCompleted(b)' = InCompleted(b)
    BY DEF InFree, InFetch, InCompleted, mapVars
<1>5. HeldOnce'
    BY <1>1, <1>4, HeldFrame DEF IInv
<1> QED BY <1>1, <1>2, <1>3, <1>5 DEF IInv

\* The same with one fetch scheduled.
LEMMA SchedulingStep ==
    ASSUME IInv, NEW r \in Readers, NEW s \in ReaderState, Goto(r, s),
           reader[r].at \notin {"got", "view"}, s.at \notin {"got", "view", "asleep"},
           NEW t \in Steps, ScheduleFetch(t),
           UNCHANGED <<completed, fetched_bbox, failed, flagVars, free>>
    PROVE  IInv'
<1>1. /\ reader' \in [Readers -> ReaderState]
      /\ InTimeReadsMatch' /\ CancelWakesReaders'
      /\ \A b \in Buffers : InReader(b)' = InReader(b)
    BY QuietReader DEF flagVars
<1>2. /\ pending' \in SUBSET Steps /\ fetch' \in [Tasks -> FetchState]
      /\ Fetches'
      /\ \A b \in Buffers : InFetch(b)' = InFetch(b)
    BY Scheduling DEF flagVars
<1>3. TypeOK' /\ Labels'
    BY <1>1, <1>2 DEF IInv, TypeOK, Labels, flagVars
<1>4. \A b \in Buffers : InFree(b)' = InFree(b) /\ InCompleted(b)' = InCompleted(b)
    BY DEF InFree, InCompleted
<1>5. HeldOnce'
    BY <1>1, <1>2, <1>4, HeldFrame DEF IInv
<1> QED BY <1>1, <1>2, <1>3, <1>5 DEF IInv

\* Dropping outcomes leaves the fetches as they were.
LEMMA FetchesShrink ==
    ASSUME Fetches, UNCHANGED <<pending, cancelled, fetch>>,
           failed' \subseteq failed,
           TypeOK,
           \A t \in Steps : completed'[t] = completed[t] \/ completed'[t] = None
    PROVE  Fetches'
<1>1. \A f \in Tasks : (Running(f)' <=> Running(f)) /\ (Running(f) => fetch[f].ts \in Steps)
    BY Typed DEF Running
<1>2. failed \subseteq Steps
    BY DEF TypeOK
<1> QED BY <1>1, <1>2 DEF Fetches

\* The failure of the step is reported.
LEMMA ReportStep ==
    ASSUME IInv, NEW r \in Readers, reader[r].at \in Asking, ReportFailure(r),
           UNCHANGED <<flagVars, fetch>>
    PROVE  IInv'
<1>1. /\ reader' \in [Readers -> ReaderState]
      /\ InTimeReadsMatch' /\ CancelWakesReaders'
      /\ \A b \in Buffers : InReader(b)' = InReader(b)
    BY QuietReader, ReaderShapes DEF ReportFailure, flagVars, Asking
<1>2. TypeOK' /\ Labels'
    BY <1>1 DEF ReportFailure, flagVars, IInv, TypeOK, Labels
<1>3. Fetches'
    BY FetchesShrink DEF ReportFailure, flagVars, IInv
<1>4. \A b \in Buffers : /\ InFree(b)' = InFree(b) /\ InFetch(b)' = InFetch(b)
                         /\ InCompleted(b)' = InCompleted(b)
    BY DEF ReportFailure, InFree, InFetch, InCompleted
<1>5. HeldOnce'
    BY <1>1, <1>4, HeldFrame DEF IInv
<1> QED BY <1>1, <1>2, <1>3, <1>5 DEF IInv

\* A completed buffer goes to the reader, in time or late; in time it is the
\* one asked for.
LEMMA DeliverStep ==
    ASSUME IInv, NEW r \in Readers, reader[r].at \in Asking, NEW late \in BOOLEAN,
           completed[reader[r].ts] # None, ~late => Matches(r),
           completed' = [completed EXCEPT ![reader[r].ts] = None],
           fetched_bbox' = fetched_bbox \/ fetched_bbox' = [fetched_bbox EXCEPT ![reader[r].ts] = Full],
           Goto(r, Delivered(r, late)),
           UNCHANGED <<pending, failed, free, flagVars, fetch>>
    PROVE  IInv'
<1>0. PICK t \in Steps : t = reader[r].ts
    BY Typed, ReaderShapes DEF IInv
<1> DEFINE y == Delivered(r, late)
<1>1. completed[t] \in FilledBuffer /\ completed[t].buf \in Buffers
    BY <1>0, Typed DEF IInv
<1>2. completed[t].ts = t /\ completed[t].sel = fetched_bbox[t]
    BY <1>0 DEF IInv, Labels
<1>3. /\ y \in HoldState /\ y.at = "got" /\ y.ts = t /\ y.sel = reader[r].sel
      /\ y.data = completed[t] /\ y.late = late
    BY <1>0, <1>1, Typed, ReaderShapes DEF HoldState, Delivered, IInv
<1>4. y \in ReaderState
    BY <1>3, ReaderShapes
<1> HIDE DEF y
<1>5. /\ reader' \in [Readers -> ReaderState]
      /\ \A q \in Readers : reader'[q] = IF q = r THEN y ELSE reader[q]
    BY <1>4, ReaderMoves DEF IInv, y
<1>6. /\ completed' \in [Steps -> FilledBuffer \cup {None}]
      /\ \A u \in Steps : completed'[u] = IF u = t THEN None ELSE completed[u]
      /\ fetched_bbox' \in [Steps -> Selections]
      /\ \A u \in Steps : u # t => fetched_bbox'[u] = fetched_bbox[u]
    BY <1>0, QueueAssumption DEF IInv, TypeOK
<1>7. TypeOK'
    BY <1>5, <1>6 DEF IInv, TypeOK, flagVars
<1>8. Fetches'
    BY <1>6, FetchesShrink DEF IInv, flagVars
<1>9. Labels'
    BY <1>6 DEF IInv, Labels
<1>10. InTimeReadsMatch'
    <2>1. ~late => completed[t].sel = reader[r].sel
        BY <1>0, <1>2 DEF Matches
    <2> QED BY <1>2, <1>3, <1>5, <2>1 DEF IInv, InTimeReadsMatch, Holding, Matching
<1>11. CancelWakesReaders'
    BY <1>3, <1>5 DEF IInv, CancelWakesReaders, flagVars
<1>12. HeldOnce'
    <2> SUFFICES ASSUME NEW b \in Buffers PROVE Held(b)'
        BY DEF HeldOnce
    <2>1. InFree(b)' = InFree(b) /\ InFetch(b)' = InFetch(b)
        BY DEF InFree, InFetch
    <2>2. CASE b = completed[t].buf
        <3>1. t \in InCompleted(b)
            BY <2>2, <1>0 DEF InCompleted
        <3>2. InFree(b) = {} /\ InFetch(b) = {} /\ InCompleted(b) = {t} /\ InReader(b) = {}
            BY <3>1, HeldElim DEF IInv, InFree
        <3>3. InCompleted(b)' = {}
            BY <3>2, <1>6 DEF InCompleted
        <3>4. InReader(b)' = {r}
            BY <3>2, <2>2, <1>3, <1>5 DEF InReader
        <3> QED BY <2>1, <3>2, <3>3, <3>4 DEF Held, One
    <2>3. CASE b # completed[t].buf
        <3>1. InCompleted(b)' = InCompleted(b)
            BY <2>3, <1>6 DEF InCompleted
        <3>2. InReader(b)' = InReader(b)
            BY <2>3, <1>3, <1>5 DEF InReader, Asking
        <3> QED BY <2>1, <3>1, <3>2 DEF IInv, HeldOnce, Held, One
    <2> QED BY <2>2, <2>3
<1> QED BY <1>7, <1>8, <1>9, <1>10, <1>11, <1>12 DEF IInv

\* A buffer of another selection goes back to the pool.
LEMMA DropStep ==
    ASSUME IInv, NEW r \in Readers, NEW s \in ReaderState, Goto(r, s),
           reader[r].at \notin {"got", "view"}, s.at \notin {"got", "view"},
           s.at = "asleep" => ~cancelled,
           NEW t \in Steps, completed[t] # None, DropStale(t),
           UNCHANGED <<pending, failed, flagVars, fetch>>
    PROVE  IInv'
<1>1. /\ reader' \in [Readers -> ReaderState]
      /\ InTimeReadsMatch' /\ CancelWakesReaders'
      /\ \A b \in Buffers : InReader(b)' = InReader(b)
    BY QuietReader DEF flagVars
<1>2. completed[t].buf \in Buffers
    BY Typed DEF IInv
<1>3. /\ completed' \in [Steps -> FilledBuffer \cup {None}]
      /\ \A u \in Steps : completed'[u] = IF u = t THEN None ELSE completed[u]
      /\ fetched_bbox' \in [Steps -> Selections]
      /\ \A u \in Steps : u # t => fetched_bbox'[u] = fetched_bbox[u]
      /\ free' = free \cup {completed[t].buf}
    BY QueueAssumption DEF IInv, TypeOK, DropStale, Forget
<1>4. TypeOK'
    BY <1>1, <1>2, <1>3 DEF IInv, TypeOK, flagVars
<1>5. Fetches'
    BY <1>3, FetchesShrink DEF IInv, flagVars
<1>6. Labels'
    BY <1>3 DEF IInv, Labels
<1>7. HeldOnce'
    <2> SUFFICES ASSUME NEW b \in Buffers PROVE Held(b)'
        BY DEF HeldOnce
    <2>1. InReader(b)' = InReader(b) /\ InFetch(b)' = InFetch(b)
        BY <1>1 DEF InFetch
    <2>2. CASE b = completed[t].buf
        <3>1. t \in InCompleted(b)
            BY <2>2 DEF InCompleted
        <3>2. InFree(b) = {} /\ InFetch(b) = {} /\ InCompleted(b) = {t} /\ InReader(b) = {}
            BY <3>1, HeldElim DEF IInv, InFree
        <3>3. InCompleted(b)' = {}
            BY <3>2, <1>3 DEF InCompleted
        <3>4. InFree(b)' = {"free"}
            BY <2>2, <1>3 DEF InFree
        <3> QED BY <2>1, <3>2, <3>3, <3>4 DEF Held, One
    <2>3. CASE b # completed[t].buf
        <3>1. InCompleted(b)' = InCompleted(b)
            BY <2>3, <1>3 DEF InCompleted
        <3>2. InFree(b)' = InFree(b)
            BY <2>3, <1>3 DEF InFree
        <3> QED BY <2>1, <3>1, <3>2 DEF IInv, HeldOnce, Held, One
    <2> QED BY <2>2, <2>3
<1> QED BY <1>1, <1>4, <1>5, <1>6, <1>7 DEF IInv

\* Where a reader that finds nothing goes.
LEMMA WaitState ==
    ASSUME IInv, NEW r \in Readers, reader[r].at \in Asking
    PROVE  /\ Wait(r) \in ReaderState /\ Wait(r).at \notin {"got", "view"}
           /\ Wait(r).at = "asleep" => ~cancelled
           /\ \A p \in Asking : At(r, p) \in ReaderState /\ At(r, p).at = p
           /\ reader[r].ts \in Steps
<1>1. reader[r] \in AskState /\ reader[r].ts \in Steps
    BY Typed, ReaderShapes DEF IInv
<1>2. \A p \in Asking : At(r, p) \in ReaderState /\ At(r, p).at = p
    BY <1>1, AskChanges, ReaderShapes DEF At
<1> HIDE DEF At
<1> QED BY <1>1, <1>2, ReaderShapes DEF Wait, Asking

\* Going to sleep, or out.
LEMMA WaitStep ==
    ASSUME IInv, NEW r \in Readers, reader[r].at \in Asking, Goto(r, Wait(r)) \/ Goto(r, Out),
           UNCHANGED <<mapVars, flagVars, free, fetch>>
    PROVE  IInv'
<1>1. latched' \in Selections /\ kicked_off' \in BOOLEAN /\ cancelled' = cancelled
    BY DEF IInv, TypeOK, flagVars
<1>2. reader[r].at \notin {"got", "view"}
    BY DEF Asking
<1>3. CASE Goto(r, Wait(r))
    <2> DEFINE s == Wait(r)
    <2>1. s \in ReaderState /\ s.at \notin {"got", "view"} /\ (s.at = "asleep" => ~cancelled)
        BY WaitState
    <2>2. Goto(r, s)
        BY <1>3
    <2> HIDE DEF s
    <2> QED BY <1>1, <1>2, <2>1, <2>2, QuietStep
<1>4. CASE Goto(r, Out)
    BY <1>1, <1>2, <1>4, QuietStep, ReaderShapes
<1> QED BY <1>3, <1>4

LEMMA EndOfBodyStep ==
    ASSUME IInv, NEW r \in Readers, reader[r].at \in Asking, EndOfBody(r),
           UNCHANGED <<flagVars, fetch>>
    PROVE  IInv'
BY ReportStep, WaitStep DEF EndOfBody

LEMMA CheckStep ==
    ASSUME IInv, NEW r \in Readers, Check(r)
    PROVE  IInv'
<1>1. reader[r].at \in Asking /\ reader[r].at \notin {"got", "view"} /\ cancelled' = cancelled
    BY DEF Check, Asking, flagVars
<1>2. CASE ReportFailure(r)
    BY <1>1, <1>2, ReportStep DEF Check
<1>3. CASE Deliver(r)
    <2>1. /\ completed[reader[r].ts] # None /\ Matches(r)
          /\ completed' = [completed EXCEPT ![reader[r].ts] = None]
          /\ fetched_bbox' = [fetched_bbox EXCEPT ![reader[r].ts] = Full]
          /\ Goto(r, Delivered(r, FALSE))
          /\ UNCHANGED <<pending, failed, free, flagVars, fetch>>
        BY <1>3 DEF Deliver, Forget, Check
    <2> QED BY <1>1, <2>1, DeliverStep
<1>4. CASE ~ReportFailure(r) /\ ~Deliver(r)
    <2> DEFINE s == IF reader[r].ts \in pending THEN Wait(r) ELSE At(r, "schedule")
    <2>1. /\ IF completed[reader[r].ts] = None
               THEN UNCHANGED <<completed, fetched_bbox, free>>
               ELSE DropStale(reader[r].ts)
          /\ Goto(r, s)
          /\ UNCHANGED <<pending, failed, flagVars, fetch>>
        BY <1>4 DEF Check
    <2>2. s \in ReaderState /\ s.at \notin {"got", "view"} /\ (s.at = "asleep" => ~cancelled)
        BY <1>1, WaitState DEF Asking
    <2> HIDE DEF s
    <2>3. CASE completed[reader[r].ts] = None
        <3>1. /\ UNCHANGED <<mapVars, cancelled, free, fetch>>
              /\ latched' \in Selections /\ kicked_off' \in BOOLEAN
            BY <2>1, <2>3 DEF mapVars, flagVars, IInv, TypeOK
        <3> QED BY <1>1, <2>1, <2>2, <3>1, QuietStep
    <2>4. CASE completed[reader[r].ts] # None
        BY <1>1, <2>1, <2>2, <2>4, DropStep, WaitState
    <2> QED BY <2>3, <2>4
<1> QED BY <1>2, <1>3, <1>4

LEMMA LoopStep ==
    ASSUME IInv, NEW r \in Readers, Loop(r) \/ AfterRefetch(r)
    PROVE  IInv'
<1>1. /\ reader[r].at \in Asking /\ reader[r].at \notin {"got", "view"}
      /\ UNCHANGED <<flagVars, fetch>>
    BY DEF Loop, AfterRefetch, Asking
<1>2. CASE EndOfBody(r)
    BY <1>1, <1>2, EndOfBodyStep
<1>3. CASE Deliver(r)
    <2>1. /\ completed[reader[r].ts] # None /\ Matches(r)
          /\ completed' = [completed EXCEPT ![reader[r].ts] = None]
          /\ fetched_bbox' = [fetched_bbox EXCEPT ![reader[r].ts] = Full]
          /\ Goto(r, Delivered(r, FALSE))
          /\ UNCHANGED <<pending, failed, free, flagVars, fetch>>
        BY <1>1, <1>3 DEF Deliver, Forget
    <2> QED BY <1>1, <2>1, DeliverStep
<1>4. CASE /\ completed[reader[r].ts] # None /\ ~Matches(r)
           /\ DropStale(reader[r].ts)
           /\ Goto(r, At(r, "refetch"))
           /\ UNCHANGED <<pending, failed>>
    <2> DEFINE s == At(r, "refetch")
    <2>1. s \in ReaderState /\ s.at = "refetch" /\ reader[r].ts \in Steps
        BY <1>1, WaitState DEF Asking
    <2>2. Goto(r, s)
        BY <1>4
    <2> HIDE DEF s
    <2> QED BY <1>1, <1>4, <2>1, <2>2, DropStep
<1> QED BY <1>2, <1>3, <1>4 DEF Loop, AfterRefetch

LEMMA TimeoutStep ==
    ASSUME IInv, NEW r \in Readers, Timeout(r)
    PROVE  IInv'
<1>1. /\ reader[r].at \in Asking
      /\ UNCHANGED <<flagVars, fetch>>
    BY DEF Timeout, Asking
<1>2. CASE LastLook(reader[r].ts)
    <2>1. /\ completed[reader[r].ts] # None
          /\ completed' = [completed EXCEPT ![reader[r].ts] = None]
          /\ Goto(r, Delivered(r, TRUE))
          /\ UNCHANGED <<pending, fetched_bbox, failed, free>>
        BY <1>2 DEF Timeout, LastLook
    <2> QED BY <1>1, <2>1, DeliverStep
<1>3. CASE ReportFailure(r)
    BY <1>1, <1>3, ReportStep
<1>4. CASE ~LastLook(reader[r].ts) /\ ~ReportFailure(r)
    BY <1>1, <1>4, WaitStep DEF Timeout
<1> QED BY <1>2, <1>3, <1>4

LEMMA StartStep ==
    ASSUME IInv, NEW r \in Readers, ScheduleInitial(r) \/ \E t \in Steps, s \in Selections : GetBuffer(r, t, s)
    PROVE  IInv'
<1>1. reader[r] = Out /\ reader[r].at \notin {"got", "view"}
    BY ReaderShapes DEF ScheduleInitial, GetBuffer
<1>2. CASE ScheduleInitial(r)
    <2> DEFINE s == [at |-> "warm", next |-> 0, end |-> WindowEnd(0)]
    <2>1. 0 \in Steps
        BY QueueAssumption DEF Steps
    <2>2. s \in WarmState /\ s.at = "warm"
        BY <2>1, WindowEndType DEF WarmState
    <2>3. /\ Goto(r, s) /\ UNCHANGED <<mapVars, cancelled, free, fetch>>
          /\ latched' \in Selections /\ kicked_off' \in BOOLEAN
        BY <1>2 DEF ScheduleInitial, IInv, TypeOK
    <2> HIDE DEF s
    <2> QED BY <1>1, <2>2, <2>3, QuietStep, ReaderShapes
<1>3. ASSUME NEW t \in Steps, NEW x \in Selections, GetBuffer(r, t, x) PROVE IInv'
    <2> DEFINE s == IF kicked_off
                      THEN [at |-> "check", ts |-> t, sel |-> x]
                      ELSE [at |-> "open", ts |-> t, sel |-> x, next |-> t, end |-> WindowEnd(t)]
    <2>2. s \in AskState \cup OpenState /\ s.at \in {"check", "open"}
        BY WindowEndType DEF AskState, OpenState, Asking
    <2>3. /\ Goto(r, s) /\ UNCHANGED <<mapVars, cancelled, free, fetch>>
          /\ latched' \in Selections /\ kicked_off' \in BOOLEAN
        BY <1>3 DEF GetBuffer
    <2> HIDE DEF s
    <2>4. s \in ReaderState
        BY <2>2, ReaderShapes
    <2> QED BY <1>1, <2>2, <2>3, <2>4, QuietStep
<1> QED BY <1>2, <1>3

LEMMA WindowStep ==
    ASSUME IInv, NEW r \in Readers, ScheduleWindow(r) \/ EndWindow(r)
    PROVE  IInv'
<1>1. /\ reader[r].at \notin {"got", "view"} /\ reader[r].at \in {"warm", "open"}
      /\ reader[r] \in ReaderState
    BY Typed DEF ScheduleWindow, EndWindow, IInv
<1>2. CASE ScheduleWindow(r)
    <2> DEFINE s == [reader[r] EXCEPT !.next = @ + 1]
    <2>1. reader[r].next \in Steps
        BY <1>1, <1>2, ReaderShapes, QueueAssumption DEF ScheduleWindow, Steps
    <2>2. reader[r].next + 1 \in 0 .. NumSteps
        BY <2>1, QueueAssumption DEF Steps
    <2>3. CASE reader[r].at = "warm"
        <3>1. reader[r] \in WarmState
            BY <1>1, <2>3, ReaderShapes
        <3>2. s \in WarmState /\ s.at = "warm"
            BY <3>1, <2>2, <2>3 DEF WarmState
        <3> QED BY <3>2, <1>1, <1>2, <2>1, ReaderShapes, SchedulingStep DEF ScheduleWindow
    <2>4. CASE reader[r].at = "open"
        <3>1. reader[r] \in OpenState
            BY <1>1, <2>4, ReaderShapes
        <3>2. s \in OpenState /\ s.at = "open"
            BY <3>1, <2>2, <2>4 DEF OpenState
        <3> QED BY <3>2, <1>1, <1>2, <2>1, ReaderShapes, SchedulingStep DEF ScheduleWindow
    <2> QED BY <1>1, <2>3, <2>4
<1>3. CASE EndWindow(r)
    <2> DEFINE s == IF reader[r].at = "warm"
                      THEN Out ELSE [at |-> "check", ts |-> reader[r].ts, sel |-> reader[r].sel]
    <2>1. s \in AskState \cup {Out} /\ s.at \in {"check", "out"}
        BY <1>1, ReaderShapes DEF AskState, Asking
    <2>2. /\ Goto(r, s) /\ UNCHANGED <<mapVars, cancelled, free, fetch>>
          /\ latched' \in Selections /\ kicked_off' \in BOOLEAN
        BY <1>3 DEF EndWindow, IInv, TypeOK, flagVars
    <2> HIDE DEF s
    <2>3. s \in ReaderState
        BY <2>1, ReaderShapes
    <2> QED BY <1>1, <2>1, <2>2, <2>3, QuietStep
<1> QED BY <1>2, <1>3

LEMMA ScheduleStep ==
    ASSUME IInv, NEW r \in Readers, Schedule(r)
    PROVE  IInv'
<1> DEFINE p == IF reader[r].at = "schedule" THEN "loop" ELSE "tail"
           s == At(r, p)
<1>1. reader[r].at \in Asking /\ reader[r].at \notin {"got", "view"} /\ p \in Asking
    BY DEF Schedule, Asking
<1>2. s \in ReaderState /\ s.at = p /\ reader[r].ts \in Steps
    BY <1>1, WaitState
<1>3. s.at \notin {"got", "view", "asleep"}
    BY <1>2
<1>4. Goto(r, s)
    BY DEF Schedule
<1> HIDE DEF s
<1> QED BY <1>1, <1>2, <1>3, <1>4, SchedulingStep DEF Schedule

LEMMA ScheduleNextStep ==
    ASSUME IInv, NEW r \in Readers, ScheduleNext(r)
    PROVE  IInv'
<1> DEFINE s == At(r, "view")
<1>1. reader[r] \in HoldState /\ reader[r].at = "got" /\ reader[r].ts \in Steps
    BY Typed, ReaderShapes DEF ScheduleNext, IInv
<1>2. /\ s \in HoldState /\ s.at = "view" /\ s.ts = reader[r].ts /\ s.sel = reader[r].sel
      /\ s.data = reader[r].data /\ s.late = reader[r].late
    BY <1>1, HoldChanges DEF At
<1>3. Goto(r, s) /\ s \in ReaderState
    BY <1>2, ReaderShapes DEF ScheduleNext
<1> HIDE DEF s
<1>4. /\ reader' \in [Readers -> ReaderState]
      /\ \A q \in Readers : reader'[q] = IF q = r THEN s ELSE reader[q]
    BY <1>3, ReaderMoves DEF IInv
<1>5. /\ pending' \in SUBSET Steps /\ fetch' \in [Tasks -> FetchState]
      /\ Fetches'
      /\ \A b \in Buffers : InFetch(b)' = InFetch(b)
    <2>1. CASE reader[r].ts + Depth < NumSteps
        <3>1. reader[r].ts + Depth \in Steps
            BY <1>1, <2>1, QueueAssumption DEF Steps
        <3> QED BY <2>1, <3>1, Scheduling DEF ScheduleNext, flagVars
    <2>2. CASE ~(reader[r].ts + Depth < NumSteps)
        BY <2>2 DEF ScheduleNext, flagVars, IInv, TypeOK, Fetches, Running, InFetch
    <2> QED BY <2>1, <2>2
<1>6. TypeOK' /\ Labels'
    BY <1>4, <1>5 DEF ScheduleNext, IInv, TypeOK, Labels, flagVars
<1>7. \A b \in Buffers : InFree(b)' = InFree(b) /\ InCompleted(b)' = InCompleted(b)
    BY DEF ScheduleNext, InFree, InCompleted
<1>8. ASSUME NEW b \in Buffers PROVE InReader(b)' = InReader(b)
    BY <1>1, <1>2, <1>4 DEF InReader
<1>9. HeldOnce'
    BY <1>5, <1>7, <1>8, HeldFrame DEF IInv
<1>10. InTimeReadsMatch'
    BY <1>1, <1>2, <1>4 DEF IInv, InTimeReadsMatch, Holding, Matching
<1>11. CancelWakesReaders'
    BY <1>2, <1>4 DEF ScheduleNext, IInv, CancelWakesReaders, flagVars
<1> QED BY <1>5, <1>6, <1>9, <1>10, <1>11 DEF IInv

LEMMA ReleaseViewStep ==
    ASSUME IInv, NEW r \in Readers, ReleaseView(r)
    PROVE  IInv'
<1>1. reader[r].at = "view" /\ reader[r].data.buf \in Buffers
    BY Typed, ReaderShapes DEF ReleaseView, IInv
<1>2. /\ reader' \in [Readers -> ReaderState]
      /\ \A q \in Readers : reader'[q] = IF q = r THEN Out ELSE reader[q]
    BY ReaderMoves, ReaderShapes DEF ReleaseView, IInv
<1>3. free' = free \cup {reader[r].data.buf} /\ UNCHANGED <<mapVars, flagVars, fetch>>
    BY DEF ReleaseView
<1>4. TypeOK'
    BY <1>1, <1>2, <1>3 DEF IInv, TypeOK, mapVars, flagVars
<1>5. Fetches' /\ Labels'
    BY <1>3 DEF IInv, Fetches, Labels, Running, mapVars, flagVars
<1>6. InTimeReadsMatch' /\ CancelWakesReaders'
    BY <1>2, <1>3, ReaderShapes DEF IInv, InTimeReadsMatch, Holding, Matching, CancelWakesReaders, flagVars
<1>7. HeldOnce'
    <2> SUFFICES ASSUME NEW b \in Buffers PROVE Held(b)'
        BY DEF HeldOnce
    <2>1. InFetch(b)' = InFetch(b) /\ InCompleted(b)' = InCompleted(b)
        BY <1>3 DEF InFetch, InCompleted, mapVars
    <2>2. CASE b = reader[r].data.buf
        <3>1. r \in InReader(b)
            BY <1>1, <2>2 DEF InReader
        <3>2. InFree(b) = {} /\ InFetch(b) = {} /\ InCompleted(b) = {} /\ InReader(b) = {r}
            BY <3>1, HeldElim DEF IInv, InFree
        <3>3. InReader(b)' = {}
            BY <3>2, <1>2, ReaderShapes DEF InReader
        <3>4. InFree(b)' = {"free"}
            BY <2>2, <1>3 DEF InFree
        <3> QED BY <2>1, <3>2, <3>3, <3>4 DEF Held, One
    <2>3. CASE b # reader[r].data.buf
        <3>1. InReader(b)' = InReader(b)
            BY <2>3, <1>1, <1>2, ReaderShapes DEF InReader
        <3>2. InFree(b)' = InFree(b)
            BY <2>3, <1>3 DEF InFree
        <3> QED BY <2>1, <3>1, <3>2 DEF IInv, HeldOnce, Held, One
    <2> QED BY <2>2, <2>3
<1> QED BY <1>4, <1>5, <1>6, <1>7 DEF IInv

-----------------------------------------------------------------------------
(* The fetches' steps.                                                    *)

LEMMA TaskMoves ==
    ASSUME TypeOK, NEW f \in Tasks, NEW s \in FetchState, Become(f, s)
    PROVE  /\ fetch' \in [Tasks -> FetchState]
           /\ \A g \in Tasks : fetch'[g] = IF g = f THEN s ELSE fetch[g]
BY DEF TypeOK, Become

\* A task that goes on keeps its step.
LEMMA FetchesGoOn ==
    ASSUME IInv, NEW f \in Tasks, NEW s \in FetchState, Become(f, s), Running(f),
           s # Idle, s.ts = fetch[f].ts,
           UNCHANGED <<pending, completed, failed, cancelled>>
    PROVE  Fetches'
<1>1. \A g \in Tasks : fetch'[g] = IF g = f THEN s ELSE fetch[g]
    BY TaskMoves DEF IInv
<1>2. \A g \in Tasks : (Running(g)' <=> Running(g)) /\ (Running(g) => fetch'[g].ts = fetch[g].ts)
    BY <1>1 DEF Running
<1> QED BY <1>2 DEF IInv, Fetches

\* A task that ends takes its step out of pending_; the step may now have an
\* outcome, but one only.
LEMMA FetchesEnd ==
    ASSUME IInv, NEW f \in Tasks, Become(f, Idle), Running(f),
           pending' = pending \ {fetch[f].ts}, cancelled' = cancelled,
           \A t \in Steps : t # fetch[f].ts => completed'[t] = completed[t] /\ (t \in failed' <=> t \in failed),
           failed' \subseteq Steps,
           fetch[f].ts \in failed' => completed'[fetch[f].ts] = None
    PROVE  Fetches'
<1>0. PICK t \in Steps : t = fetch[f].ts
    BY Typed DEF IInv
<1>1. \A g \in Tasks : fetch'[g] = IF g = f THEN Idle ELSE fetch[g]
    BY TaskMoves, FetchShapes DEF IInv
<1>2. \A g \in Tasks : Running(g)' <=> Running(g) /\ g # f
    BY <1>1 DEF Running
<1>3. \A g \in Tasks : Running(g) /\ g # f => fetch'[g].ts = fetch[g].ts /\ fetch[g].ts # t /\ fetch[g].ts \in Steps
    BY <1>0, <1>1, Typed DEF IInv, Fetches
<1>4. \A u \in pending' : u # t /\ \E g \in Tasks : Running(g) /\ fetch[g].ts = u
    BY <1>0 DEF IInv, Fetches
<1>5. \A u \in pending' : \E g \in Tasks : Running(g)' /\ fetch'[g].ts = u
    BY <1>0, <1>2, <1>3, <1>4
<1>6. \A u \in failed' : completed'[u] = None
    BY <1>0 DEF IInv, Fetches
<1>7. \A g, h \in Tasks : Running(g)' /\ Running(h)' /\ fetch'[g].ts = fetch'[h].ts => g = h
    BY <1>2, <1>3 DEF IInv, Fetches
<1>8. ~cancelled' => \A g \in Tasks : Running(g)' => fetch'[g].ts \in pending'
    BY <1>0, <1>2, <1>3 DEF IInv, Fetches
<1>9. \A g \in Tasks : Running(g)' => fetch'[g].ts \notin failed' /\ completed'[fetch'[g].ts] = None
    BY <1>0, <1>2, <1>3 DEF IInv, Fetches
<1> QED BY <1>5, <1>6, <1>7, <1>8, <1>9 DEF Fetches

LEMMA FetchStartStep ==
    ASSUME IInv, NEW f \in Tasks, FetchStart(f)
    PROVE  IInv'
<1>1. /\ fetch[f] \in FetchState /\ Running(f) /\ fetch[f].at = "queued" /\ fetch[f].ts \in Steps
      /\ failed \subseteq Steps
    BY Typed DEF FetchStart, IInv, TypeOK
<1>2. UNCHANGED <<completed, fetched_bbox, failed, flagVars, free, reader>>
    BY DEF FetchStart
<1> DEFINE y == [fetch[f] EXCEPT !.at = "acquire"]
<1>3. y \in FetchState /\ y # Idle /\ y.at = "acquire" /\ y.ts = fetch[f].ts
    BY <1>1, FetchShapes
<1>4. \/ cancelled /\ pending' = pending \ {fetch[f].ts} /\ Become(f, Idle)
      \/ Become(f, y) /\ pending' = pending
    BY DEF FetchStart
<1> HIDE DEF y
<1>5. PICK s \in {Idle, y} : Become(f, s)
    BY <1>4
<1>6. s \in FetchState /\ s.at # "read"
    BY <1>3, FetchShapes
<1>7. /\ fetch' \in [Tasks -> FetchState]
      /\ \A g \in Tasks : fetch'[g] = IF g = f THEN s ELSE fetch[g]
    BY <1>5, <1>6, TaskMoves DEF IInv
<1>8. Fetches'
    <2>1. CASE pending' = pending \ {fetch[f].ts} /\ Become(f, Idle)
        BY <1>1, <1>2, <2>1, FetchesEnd DEF IInv, Fetches, flagVars
    <2>2. CASE Become(f, y) /\ pending' = pending
        BY <1>1, <1>2, <1>3, <2>2, FetchesGoOn DEF flagVars
    <2> QED BY <1>4, <2>1, <2>2
<1>9. TypeOK' /\ Labels'
    BY <1>2, <1>4, <1>7 DEF IInv, TypeOK, Labels, flagVars
<1>10. \A b \in Buffers : InFree(b)' = InFree(b) /\ InCompleted(b)' = InCompleted(b) /\ InReader(b)' = InReader(b)
    BY <1>2 DEF InFree, InCompleted, InReader
<1>11. ASSUME NEW b \in Buffers PROVE InFetch(b)' = InFetch(b)
    BY <1>1, <1>6, <1>7 DEF InFetch
<1>12. HeldOnce'
    BY <1>10, <1>11, HeldFrame DEF IInv
<1>13. InTimeReadsMatch' /\ CancelWakesReaders'
    BY <1>2 DEF IInv, InTimeReadsMatch, Holding, Matching, CancelWakesReaders, flagVars
<1> QED BY <1>8, <1>9, <1>12, <1>13 DEF IInv

LEMMA FetchAcquireStep ==
    ASSUME IInv, NEW f \in Tasks, NEW b \in Buffers, FetchAcquire(f, b)
    PROVE  IInv'
<1>1. /\ fetch[f] \in FetchState /\ Running(f) /\ fetch[f].at = "acquire"
      /\ fetch[f].ts \in Steps /\ fetch[f].sel \in Selections
    BY Typed DEF FetchAcquire, IInv
<1> DEFINE y == [at |-> "read", ts |-> fetch[f].ts, sel |-> fetch[f].sel, buf |-> b]
<1>2. y \in FetchState /\ y # Idle /\ y.at = "read" /\ y.ts = fetch[f].ts /\ y.buf = b
    BY <1>1, FetchShapes
<1>3. /\ b \in free /\ free' = free \ {b} /\ Become(f, y)
      /\ UNCHANGED <<mapVars, flagVars, reader>>
    BY DEF FetchAcquire
<1> HIDE DEF y
<1>4. /\ fetch' \in [Tasks -> FetchState]
      /\ \A g \in Tasks : fetch'[g] = IF g = f THEN y ELSE fetch[g]
    BY <1>2, <1>3, TaskMoves DEF IInv
<1>5. Fetches'
    BY <1>1, <1>2, <1>3, FetchesGoOn DEF mapVars, flagVars
<1>6. TypeOK' /\ Labels'
    BY <1>3, <1>4 DEF IInv, TypeOK, Labels, mapVars, flagVars
<1>7. InTimeReadsMatch' /\ CancelWakesReaders'
    BY <1>3 DEF IInv, InTimeReadsMatch, Holding, Matching, CancelWakesReaders, flagVars
<1>8. HeldOnce'
    <2> SUFFICES ASSUME NEW c \in Buffers PROVE Held(c)'
        BY DEF HeldOnce
    <2>1. InReader(c)' = InReader(c) /\ InCompleted(c)' = InCompleted(c)
        BY <1>3 DEF InReader, InCompleted, mapVars
    <2>2. CASE c = b
        <3>1. InFetch(c) = {} /\ InCompleted(c) = {} /\ InReader(c) = {}
            BY <1>3, <2>2, HeldElim DEF IInv
        <3>2. InFetch(c)' = {f}
            BY <3>1, <2>2, <1>2, <1>4 DEF InFetch
        <3>3. InFree(c)' = {}
            BY <2>2, <1>3 DEF InFree
        <3> QED BY <2>1, <3>1, <3>2, <3>3 DEF Held, One
    <2>3. CASE c # b
        <3>1. InFetch(c)' = InFetch(c)
            BY <2>3, <1>1, <1>2, <1>4 DEF InFetch
        <3>2. InFree(c)' = InFree(c)
            BY <2>3, <1>3 DEF InFree
        <3> QED BY <2>1, <3>1, <3>2 DEF IInv, HeldOnce, Held, One
    <2> QED BY <2>2, <2>3
<1> QED BY <1>5, <1>6, <1>7, <1>8 DEF IInv

\* The fetch fails: without a buffer, or giving its buffer back.
LEMMA FetchFailsStep ==
    ASSUME IInv, NEW f \in Tasks, FetchStarved(f) \/ FetchThrows(f)
    PROVE  IInv'
<1>0. PICK t \in Steps : t = fetch[f].ts
    BY Typed DEF FetchStarved, FetchThrows, IInv
<1>1. /\ Running(f) /\ UNCHANGED <<flagVars, completed, fetched_bbox>>
      /\ pending' = pending \ {t} /\ failed' = failed \cup {t}
      /\ Become(f, Idle) /\ Notify
    BY <1>0, Typed DEF FetchStarved, FetchThrows, MarkFailed, IInv
<1>2. /\ reader' \in [Readers -> ReaderState]
      /\ InTimeReadsMatch' /\ CancelWakesReaders'
      /\ \A b \in Buffers : InReader(b)' = InReader(b)
    BY <1>1, NotifyMoves
<1>3. /\ fetch' \in [Tasks -> FetchState]
      /\ \A g \in Tasks : fetch'[g] = IF g = f THEN Idle ELSE fetch[g]
    BY <1>1, TaskMoves, FetchShapes DEF IInv
<1>4. completed[t] = None /\ failed \subseteq Steps
    BY <1>0, <1>1 DEF IInv, Fetches, TypeOK
<1>5. Fetches'
    <2>1. \A u \in Steps : u # fetch[f].ts => completed'[u] = completed[u] /\ (u \in failed' <=> u \in failed)
        BY <1>0, <1>1
    <2>2. failed' \subseteq Steps /\ completed'[fetch[f].ts] = None
        BY <1>0, <1>1, <1>4
    <2>3. pending' = pending \ {fetch[f].ts} /\ cancelled' = cancelled
        BY <1>0, <1>1 DEF flagVars
    <2> QED BY <1>1, <2>1, <2>2, <2>3, FetchesEnd
<1>6. Labels'
    BY <1>1 DEF IInv, Labels
<1>7. free' \in SUBSET Buffers
    BY Typed DEF FetchStarved, FetchThrows, IInv, TypeOK
<1>8. TypeOK'
    BY <1>1, <1>2, <1>3, <1>4, <1>7 DEF IInv, TypeOK, flagVars
<1>9. HeldOnce'
    <2> SUFFICES ASSUME NEW b \in Buffers PROVE Held(b)'
        BY DEF HeldOnce
    <2>1. InReader(b)' = InReader(b) /\ InCompleted(b)' = InCompleted(b)
        BY <1>1, <1>2 DEF InCompleted
    <2>2. CASE fetch[f].at = "read" /\ b = fetch[f].buf
        <3>1. f \in InFetch(b)
            BY <2>2 DEF InFetch
        <3>2. InFetch(b) = {f} /\ InCompleted(b) = {} /\ InReader(b) = {}
            BY <3>1, HeldElim DEF IInv
        <3>3. InFetch(b)' = {}
            BY <3>2, <1>3, FetchShapes DEF InFetch
        <3>4. InFree(b)' = {"free"}
            BY <2>2 DEF InFree, FetchStarved, FetchThrows
        <3> QED BY <2>1, <3>2, <3>3, <3>4 DEF Held, One
    <2>3. CASE ~(fetch[f].at = "read" /\ b = fetch[f].buf)
        <3>1. InFetch(b)' = InFetch(b)
            BY <2>3, <1>3, FetchShapes DEF InFetch
        <3>2. InFree(b)' = InFree(b)
            BY <2>3 DEF InFree, FetchStarved, FetchThrows
        <3> QED BY <2>1, <3>1, <3>2 DEF IInv, HeldOnce, Held, One
    <2> QED BY <2>2, <2>3
<1> QED BY <1>2, <1>5, <1>6, <1>8, <1>9 DEF IInv

LEMMA FetchDoneStep ==
    ASSUME IInv, NEW f \in Tasks, FetchDone(f)
    PROVE  IInv'
<1>0. PICK t \in Steps : t = fetch[f].ts
    BY Typed DEF FetchDone, IInv
<1> DEFINE y == Filled(f)
<1>1. /\ Running(f) /\ fetch[f].at = "read" /\ fetch[f].buf \in Buffers /\ fetch[f].sel \in Selections
      /\ UNCHANGED <<failed, flagVars, free>>
      /\ pending' = pending \ {t} /\ completed' = [completed EXCEPT ![t] = y]
      /\ fetched_bbox' = [fetched_bbox EXCEPT ![t] = fetch[f].sel]
      /\ Become(f, Idle) /\ Notify
    BY <1>0, Typed DEF FetchDone, IInv
<1>2. y \in FilledBuffer /\ y # None /\ y.buf = fetch[f].buf /\ y.ts = t /\ y.sel = fetch[f].sel
    BY <1>0, <1>1, FilledShapes DEF Filled
<1> HIDE DEF y
<1>3. /\ reader' \in [Readers -> ReaderState]
      /\ InTimeReadsMatch' /\ CancelWakesReaders'
      /\ \A b \in Buffers : InReader(b)' = InReader(b)
    BY <1>1, NotifyMoves
<1>4. /\ fetch' \in [Tasks -> FetchState]
      /\ \A g \in Tasks : fetch'[g] = IF g = f THEN Idle ELSE fetch[g]
    BY <1>1, TaskMoves, FetchShapes DEF IInv
<1>5. /\ completed' \in [Steps -> FilledBuffer \cup {None}]
      /\ \A u \in Steps : completed'[u] = IF u = t THEN y ELSE completed[u]
      /\ fetched_bbox' \in [Steps -> Selections]
      /\ \A u \in Steps : fetched_bbox'[u] = IF u = t THEN fetch[f].sel ELSE fetched_bbox[u]
    BY <1>1, <1>2 DEF IInv, TypeOK
<1>6. t \notin failed /\ completed[t] = None /\ failed \subseteq Steps
    BY <1>0, <1>1 DEF IInv, Fetches, TypeOK
<1>7. Fetches'
    <2>1. \A u \in Steps : u # fetch[f].ts => completed'[u] = completed[u] /\ (u \in failed' <=> u \in failed)
        BY <1>0, <1>1, <1>5
    <2>2. failed' \subseteq Steps /\ fetch[f].ts \notin failed'
        BY <1>0, <1>1, <1>6
    <2>3. pending' = pending \ {fetch[f].ts} /\ cancelled' = cancelled
        BY <1>0, <1>1 DEF flagVars
    <2> QED BY <1>1, <2>1, <2>2, <2>3, FetchesEnd
<1>8. Labels'
    BY <1>2, <1>5 DEF IInv, Labels
<1>9. TypeOK'
    BY <1>1, <1>3, <1>4, <1>5 DEF IInv, TypeOK, flagVars
<1>10. HeldOnce'
    <2> SUFFICES ASSUME NEW b \in Buffers PROVE Held(b)'
        BY DEF HeldOnce
    <2>1. InReader(b)' = InReader(b) /\ InFree(b)' = InFree(b)
        BY <1>1, <1>3 DEF InFree
    <2>2. CASE b = fetch[f].buf
        <3>1. f \in InFetch(b)
            BY <1>1, <2>2 DEF InFetch
        <3>2. InFree(b) = {} /\ InFetch(b) = {f} /\ InCompleted(b) = {} /\ InReader(b) = {}
            BY <3>1, HeldElim DEF IInv, InFree
        <3>3. InFetch(b)' = {}
            BY <3>2, <1>4, FetchShapes DEF InFetch
        <3>4. InCompleted(b)' = {t}
            BY <3>2, <2>2, <1>2, <1>5 DEF InCompleted
        <3> QED BY <2>1, <3>2, <3>3, <3>4 DEF Held, One
    <2>3. CASE b # fetch[f].buf
        <3>1. InFetch(b)' = InFetch(b)
            BY <2>3, <1>4, FetchShapes DEF InFetch
        <3>2. InCompleted(b)' = InCompleted(b)
            BY <2>3, <1>2, <1>5, <1>6 DEF InCompleted
        <3> QED BY <2>1, <3>1, <3>2 DEF IInv, HeldOnce, Held, One
    <2> QED BY <2>2, <2>3
<1> QED BY <1>3, <1>7, <1>8, <1>9, <1>10 DEF IInv

\* cancel_pending gives every completed buffer back; tasks keep theirs.
LEMMA CancelStep ==
    ASSUME IInv, CancelPending
    PROVE  IInv'
<1>1. /\ reader' \in [Readers -> ReaderState]
      /\ InTimeReadsMatch' /\ CancelWakesReaders'
      /\ \A b \in Buffers : InReader(b)' = InReader(b)
    BY NotifyMoves DEF CancelPending
<1>2. /\ completed' \in [Steps -> FilledBuffer \cup {None}]
      /\ \A t \in Steps : completed'[t] = None
      /\ fetched_bbox' \in [Steps -> Selections]
    BY QueueAssumption DEF CancelPending
<1>3. \A b \in Buffers : b \in free' <=> b \in free \/ \E t \in Steps : completed[t] # None /\ completed[t].buf = b
    BY DEF CancelPending
<1>4. free' \in SUBSET Buffers
    BY Typed DEF CancelPending, IInv, TypeOK
<1>5. TypeOK'
    BY <1>1, <1>2, <1>4 DEF CancelPending, IInv, TypeOK
<1>6. Labels'
    BY <1>2 DEF Labels
<1>7. Fetches'
    <2>1. \A f \in Tasks : (Running(f)' <=> Running(f)) /\ fetch'[f] = fetch[f] /\ (Running(f) => fetch[f].ts \in Steps)
        BY Typed DEF CancelPending, Running, IInv
    <2> QED BY <1>2, <2>1 DEF CancelPending, IInv, Fetches
<1>8. HeldOnce'
    <2> SUFFICES ASSUME NEW b \in Buffers PROVE Held(b)'
        BY DEF HeldOnce
    <2>1. InReader(b)' = InReader(b) /\ InFetch(b)' = InFetch(b)
        BY <1>1 DEF CancelPending, InFetch
    <2>2. InCompleted(b)' = {}
        BY <1>2 DEF InCompleted
    <2>3. InFree(b)' = IF b \in free \/ InCompleted(b) # {} THEN {"free"} ELSE {}
        BY <1>3 DEF InFree, InCompleted
    <2>4. CASE b \in free \/ InCompleted(b) # {}
        <3>1. InFetch(b) = {} /\ InReader(b) = {}
            BY <2>4, HeldElim DEF IInv
        <3> QED BY <2>1, <2>2, <2>3, <2>4, <3>1 DEF Held, One
    <2>5. CASE b \notin free /\ InCompleted(b) = {}
        <3>1. InFree(b) = {}
            BY <2>5 DEF InFree
        <3>2. InFree(b)' = InFree(b) /\ InCompleted(b)' = InCompleted(b)
            BY <2>2, <2>3, <2>5, <3>1
        <3> QED BY <2>1, <3>2 DEF IInv, HeldOnce, Held, One
    <2> QED BY <2>4, <2>5
<1> QED BY <1>1, <1>5, <1>6, <1>7, <1>8 DEF IInv

-----------------------------------------------------------------------------
LEMMA Start == Init => IInv
<1> SUFFICES ASSUME Init PROVE IInv
    OBVIOUS
<1>1. TypeOK
    BY QueueAssumption, FetchShapes, ReaderShapes DEF Init, TypeOK
<1>2. Fetches
    BY FetchShapes DEF Init, Fetches, Running
<1>3. Labels
    BY DEF Init, Labels
<1>4. InTimeReadsMatch /\ CancelWakesReaders
    BY ReaderShapes DEF Init, InTimeReadsMatch, Holding, CancelWakesReaders
<1>5. HeldOnce
    <2> SUFFICES ASSUME NEW b \in Buffers PROVE Held(b)
        BY DEF HeldOnce
    <2>1. InFree(b) = {"free"}
        BY DEF Init, InFree
    <2>2. InFetch(b) = {} /\ InCompleted(b) = {} /\ InReader(b) = {}
        BY FetchShapes, ReaderShapes DEF Init, InFetch, InCompleted, InReader
    <2> QED BY <2>1, <2>2 DEF Held, One
<1> QED BY <1>1, <1>2, <1>3, <1>4, <1>5 DEF IInv

LEMMA Step == IInv /\ [Next]_vars => IInv'
<1> SUFFICES ASSUME IInv, [Next]_vars PROVE IInv'
    OBVIOUS
<1>1. ASSUME NEW r \in Readers, ReaderStep(r) PROVE IInv'
    BY <1>1, WindowStep, CheckStep, ScheduleStep, LoopStep, ScheduleNextStep, ReleaseViewStep DEF ReaderStep
<1>2. ASSUME NEW f \in Tasks, FetchStep(f) PROVE IInv'
    BY <1>2, FetchStartStep, FetchFailsStep, FetchDoneStep, FetchAcquireStep DEF FetchStep
<1>3. CASE UNCHANGED vars
    BY <1>3 DEF vars, mapVars, flagVars, IInv, TypeOK, Fetches, Running, Labels, HeldOnce, Held, One,
                InFree, InFetch, InCompleted, InReader, InTimeReadsMatch, Holding, Matching, CancelWakesReaders
<1> QED BY <1>1, <1>2, <1>3, TimeoutStep, StartStep, CancelStep DEF Next

LEMMA Invariance == Spec => []IInv
BY Start, Step, PTL DEF Spec

\* The holders of a buffer are its places.
LEMMA OnePlaceEach ==
    ASSUME NEW b, Held(b)
    PROVE  \E p : Places(b) = {p}
<1> DEFINE P == {<<"fetch", f>> : f \in InFetch(b)}
           Q == {<<"completed", t>> : t \in InCompleted(b)}
           R == {<<"reader", r>> : r \in InReader(b)}
<1>1. Places(b) = (IF b \in free THEN {<<"free">>} ELSE {}) \cup P \cup Q \cup R
    BY DEF Places, InFetch, InCompleted, InReader
<1>2. CASE One(InFree(b), InFetch(b), InCompleted(b), InReader(b))
    <2>1. Places(b) = {<<"free">>}
        BY <1>1, <1>2 DEF One, InFree
    <2> QED BY <2>1
<1>3. CASE One(InFetch(b), InFree(b), InCompleted(b), InReader(b))
    <2>1. PICK f : InFetch(b) = {f}
        BY <1>3 DEF One
    <2>2. Places(b) = {<<"fetch", f>>}
        BY <1>1, <1>3, <2>1 DEF One, InFree
    <2> QED BY <2>2
<1>4. CASE One(InCompleted(b), InFree(b), InFetch(b), InReader(b))
    <2>1. PICK t : InCompleted(b) = {t}
        BY <1>4 DEF One
    <2>2. Places(b) = {<<"completed", t>>}
        BY <1>1, <1>4, <2>1 DEF One, InFree
    <2> QED BY <2>2
<1>5. CASE One(InReader(b), InFree(b), InFetch(b), InCompleted(b))
    <2>1. PICK r : InReader(b) = {r}
        BY <1>5 DEF One
    <2>2. Places(b) = {<<"reader", r>>}
        BY <1>1, <1>5, <2>1 DEF One, InFree
    <2> QED BY <2>2
<1> QED BY <1>2, <1>3, <1>4, <1>5 DEF Held

(***************************************************************************)
(* Whichever way readers, fetches on the worker pool and cancel_pending    *)
(* interleave: a step is fetched by one task at a time and pending_ says   *)
(* which, it has one outcome in the maps, and every staging buffer is in   *)
(* one place, none lost or handed out twice.                               *)
(***************************************************************************)
THEOREM FetchesStayExact == Spec => []FetchesExact
<1>1. IInv => FetchesExact
    <2> SUFFICES ASSUME IInv PROVE FetchesExact
        OBVIOUS
    <2>1. OneFetchPerStep
        <3> SUFFICES ASSUME NEW t \in Steps
                     PROVE  /\ Cardinality(Fetching(t)) <= 1
                            /\ ~cancelled => (t \in pending <=> Fetching(t) # {})
            BY DEF OneFetchPerStep
        <3>1. \A f, g \in Fetching(t) : f = g
            BY DEF Fetching, IInv, Fetches, Running
        <3>2. Cardinality(Fetching(t)) <= 1
            <4>1. CASE Fetching(t) = {}
                <5>1. Cardinality(Fetching(t)) = 0
                    BY <4>1, FS_EmptySet
                <5> QED BY <5>1
            <4>2. ASSUME NEW f \in Fetching(t) PROVE Cardinality(Fetching(t)) <= 1
                <5>1. Fetching(t) = {f}
                    BY <3>1, <4>2
                <5>2. Cardinality(Fetching(t)) = 1
                    BY <5>1, FS_Singleton
                <5> QED BY <5>2
            <4> QED BY <4>1, <4>2
        <3>3. ~cancelled => (t \in pending <=> Fetching(t) # {})
            BY DEF Fetching, IInv, Fetches, Running
        <3> QED BY <3>2, <3>3
    <2>2. OneOutcomePerStep
        BY DEF OneOutcomePerStep, IInv, Fetches
    <2>3. BufferInOnePlace
        <3> SUFFICES ASSUME NEW b \in Buffers PROVE Cardinality(Places(b)) = 1
            BY DEF BufferInOnePlace
        <3>1. PICK p : Places(b) = {p}
            BY OnePlaceEach DEF IInv, HeldOnce
        <3> QED BY <3>1, FS_Singleton
    <2> QED BY <2>1, <2>2, <2>3 DEF FetchesExact, IInv
<1> QED BY <1>1, Invariance, PTL

(***************************************************************************)
(* A read that ends before its deadline returns the step and the selection *)
(* it asked for, whatever other readers latch meanwhile, and after         *)
(* cancel_pending nobody is left asleep.                                   *)
(***************************************************************************)
THEOREM ReadersAreServed == Spec => []ReadersServed
<1>1. IInv => ReadersServed
    BY DEF IInv, ReadersServed
<1> QED BY <1>1, Invariance, PTL
=============================================================================
