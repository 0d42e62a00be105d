--------------------------- MODULE PrefetchQueue ----------------------------
(***************************************************************************)
(* amio::detail::PrefetchQueue: the look-ahead window of one variable.     *)
(* Readers ask for (timestep, selection) pairs; fetches run on the worker  *)
(* pool, in any order, and fill staging buffers.  Every step is one        *)
(* critical section of mu_, or one thing done with mu_ released.  A wait   *)
(* with a deadline may reach it at any time.                               *)
(***************************************************************************)
EXTENDS Naturals, FiniteSets

CONSTANTS
    Readers,     \* threads inside amio_read, one outstanding view each
    NumSteps,    \* total_timesteps_
    Depth,       \* depth_
    Selections,  \* the bounding boxes asked for
    Full,        \* nullopt: the full record
    Buffers,     \* the staging pool's buffers
    Tasks,       \* identities for the prefetch tasks outstanding at one time
    None         \* no buffer

Steps == 0 .. NumSteps - 1

ASSUME QueueAssumption ==
    /\ NumSteps \in Nat \ {0}
    /\ Depth \in 1 .. 1024
    /\ Full \in Selections
    /\ IsFiniteSet(Buffers)
    /\ None \notin [buf : Buffers, ts : Steps, sel : Selections]

VARIABLES
    pending,      \* pending_
    completed,    \* completed_: step -> buffer and what is in it, or None
    fetched_bbox, \* fetched_bbox_: step -> selection, Full when absent
    failed,       \* failed_
    latched,      \* latched_bbox_
    kicked_off,   \* kicked_off_
    cancelled,    \* cancelled_
    free,         \* the buffers in the staging pool's free list
    fetch,        \* per task, where sync_fetch is
    reader        \* per reader, where get_buffer is

mapVars   == <<pending, completed, fetched_bbox, failed>>
flagVars  == <<latched, kicked_off, cancelled>>
vars == <<mapVars, flagVars, free, fetch, reader>>

Idle == [at |-> "idle"]
Out  == [at |-> "out"]

Init == /\ pending = {}
        /\ completed = [t \in Steps |-> None]
        /\ fetched_bbox = [t \in Steps |-> Full]
        /\ failed = {}
        /\ latched = Full
        /\ kicked_off = FALSE
        /\ cancelled = FALSE
        /\ free = Buffers
        /\ fetch = [f \in Tasks |-> Idle]
        /\ reader = [r \in Readers |-> Out]

-----------------------------------------------------------------------------
(* Scheduling.                                                            *)

Tracked(t) == t \in pending \/ completed[t] # None \/ t \in failed

\* schedule_fetch: the step is marked pending with the selection latched at
\* that moment, and handed to the worker pool.
ScheduleFetch(t) ==
    IF cancelled \/ Tracked(t)
      THEN UNCHANGED <<pending, fetch>>
      ELSE /\ pending' = pending \cup {t}
           /\ \E f \in Tasks :
                 /\ fetch[f] = Idle
                 /\ fetch' = [fetch EXCEPT ![f] = [at |-> "queued", ts |-> t, sel |-> latched]]

\* The first step after the look-ahead window that opens at t.
WindowEnd(t) == IF Depth < NumSteps - t THEN t + Depth ELSE NumSteps

Goto(r, s) == reader' = [reader EXCEPT ![r] = s]

At(r, place) == [reader[r] EXCEPT !.at = place]

\* schedule_initial, which a caller may use to warm the window up.
ScheduleInitial(r) ==
    /\ reader[r] = Out
    /\ kicked_off' = TRUE
    /\ Goto(r, [at |-> "warm", next |-> 0, end |-> WindowEnd(0)])
    /\ UNCHANGED <<mapVars, latched, cancelled, free, fetch>>

\* One fetch of the window of schedule_initial or of the first get_buffer.
ScheduleWindow(r) ==
    /\ reader[r].at \in {"warm", "open"}
    /\ reader[r].next < reader[r].end
    /\ ScheduleFetch(reader[r].next)
    /\ Goto(r, [reader[r] EXCEPT !.next = @ + 1])
    /\ UNCHANGED <<completed, fetched_bbox, failed, flagVars, free>>

EndWindow(r) ==
    /\ reader[r].at \in {"warm", "open"}
    /\ reader[r].next = reader[r].end
    /\ Goto(r, IF reader[r].at = "warm"
                 THEN Out
                 ELSE [at |-> "check", ts |-> reader[r].ts, sel |-> reader[r].sel])
    /\ UNCHANGED <<mapVars, flagVars, free, fetch>>

-----------------------------------------------------------------------------
(* get_buffer.                                                            *)

\* The selection is latched; the first call opens the look-ahead window.
GetBuffer(r, t, s) ==
    /\ reader[r] = Out
    /\ latched' = s
    /\ kicked_off' = TRUE
    /\ Goto(r, IF kicked_off
                 THEN [at |-> "check", ts |-> t, sel |-> s]
                 ELSE [at |-> "open", ts |-> t, sel |-> s, next |-> t, end |-> WindowEnd(t)])
    /\ UNCHANGED <<mapVars, cancelled, free, fetch>>

Delivered(r, late) ==
    [at |-> "got", ts |-> reader[r].ts, sel |-> reader[r].sel,
     data |-> completed[reader[r].ts], late |-> late]

\* Mutant of Matches: any completed buffer will do.
MatchesAny(r) == TRUE

\* bbox_same
Matches(r) == fetched_bbox[reader[r].ts] = reader[r].sel

\* The completed buffer is taken out of the maps.
Forget(t) == /\ completed' = [completed EXCEPT ![t] = None]
             /\ fetched_bbox' = [fetched_bbox EXCEPT ![t] = Full]

\* The reader is handed the buffer.
Deliver(r) ==
    /\ completed[reader[r].ts] # None /\ Matches(r)
    /\ Forget(reader[r].ts)
    /\ Goto(r, Delivered(r, FALSE))
    /\ UNCHANGED <<pending, failed, free>>

\* Mutant of DropStale: the buffer is not given back.
DropStaleKeeps(t) == Forget(t) /\ UNCHANGED free

\* A buffer filled with another selection is released.
DropStale(t) == Forget(t) /\ free' = free \cup {completed[t].buf}

\* A reader that finds nothing returns when the queue is cancelled, or waits.
Wait(r) == IF cancelled THEN Out ELSE At(r, "asleep")

\* The failure of the fetch is reported, once.
ReportFailure(r) ==
    /\ reader[r].ts \in failed
    /\ failed' = failed \ {reader[r].ts}
    /\ Goto(r, Out)
    /\ UNCHANGED <<pending, completed, fetched_bbox, free>>

\* The first look at the maps.  Unless the step is pending it is scheduled,
\* with mu_ released.
Check(r) ==
    /\ reader[r].at = "check"
    /\ \/ ReportFailure(r)
       \/ reader[r].ts \notin failed /\ Deliver(r)
       \/ /\ reader[r].ts \notin failed
          /\ IF completed[reader[r].ts] = None
               THEN UNCHANGED <<completed, fetched_bbox, free>>
               ELSE ~Matches(r) /\ DropStale(reader[r].ts)
          /\ Goto(r, IF reader[r].ts \in pending THEN Wait(r) ELSE At(r, "schedule"))
          /\ UNCHANGED <<pending, failed>>
    /\ UNCHANGED <<flagVars, fetch>>

\* schedule_fetch from get_buffer; the fetch may end before mu_ is held again.
Schedule(r) ==
    /\ reader[r].at \in {"schedule", "refetch"}
    /\ ScheduleFetch(reader[r].ts)
    /\ Goto(r, At(r, IF reader[r].at = "schedule" THEN "loop" ELSE "tail"))
    /\ UNCHANGED <<completed, fetched_bbox, failed, flagVars, free>>

\* The end of the wait loop's body: a failure, the cancellation, or the wait.
EndOfBody(r) ==
    \/ ReportFailure(r)
    \/ /\ reader[r].ts \notin failed
       /\ Goto(r, Wait(r))
       /\ UNCHANGED <<mapVars, free>>

\* The wait loop's body, from its start.
Loop(r) ==
    /\ reader[r].at \in {"loop", "woken"}
    /\ \/ Deliver(r)
       \/ /\ completed[reader[r].ts] # None /\ ~Matches(r)
          /\ DropStale(reader[r].ts)
          /\ Goto(r, At(r, "refetch"))
          /\ UNCHANGED <<pending, failed>>
       \/ completed[reader[r].ts] = None /\ EndOfBody(r)
    /\ UNCHANGED <<flagVars, fetch>>

\* The rest of the body, once the stale buffer's step is scheduled again.
AfterRefetch(r) ==
    /\ reader[r].at = "tail"
    /\ EndOfBody(r)
    /\ UNCHANGED <<flagVars, fetch>>

\* "Check one more time before returning timeout."
LastLook(t) == completed[t] # None

\* wait_until reports a timeout, be it of a sleeper or of a thread that was
\* notified and comes back after the deadline.
Timeout(r) ==
    /\ reader[r].at \in {"asleep", "woken"}
    /\ \/ /\ LastLook(reader[r].ts)
          /\ completed' = [completed EXCEPT ![reader[r].ts] = None]
          /\ Goto(r, Delivered(r, TRUE))
          /\ UNCHANGED <<pending, fetched_bbox, failed, free>>
       \/ ~LastLook(reader[r].ts) /\ ReportFailure(r)
       \/ /\ ~LastLook(reader[r].ts) /\ reader[r].ts \notin failed
          /\ Goto(r, Out)
          /\ UNCHANGED <<mapVars, free>>
    /\ UNCHANGED <<flagVars, fetch>>

\* schedule_next, after a read that succeeded.
ScheduleNext(r) ==
    /\ reader[r].at = "got"
    /\ IF reader[r].ts + Depth < NumSteps
         THEN ScheduleFetch(reader[r].ts + Depth)
         ELSE UNCHANGED <<pending, fetch>>
    /\ Goto(r, At(r, "view"))
    /\ UNCHANGED <<completed, fetched_bbox, failed, flagVars, free>>

\* amio_release_view
ReleaseView(r) ==
    /\ reader[r].at = "view"
    /\ free' = free \cup {reader[r].data.buf}
    /\ Goto(r, Out)
    /\ UNCHANGED <<mapVars, flagVars, fetch>>

-----------------------------------------------------------------------------
(* sync_fetch on a worker thread.                                         *)

Become(f, s) == fetch' = [fetch EXCEPT ![f] = s]

\* cv_.notify_all
Notify == reader' = [r \in Readers |-> IF reader[r].at = "asleep" THEN At(r, "woken")
                                                               ELSE reader[r]]

\* The task starts, unless the queue is cancelled.
FetchStart(f) ==
    /\ fetch[f].at = "queued"
    /\ IF cancelled
         THEN pending' = pending \ {fetch[f].ts} /\ Become(f, Idle)
         ELSE Become(f, [fetch[f] EXCEPT !.at = "acquire"]) /\ UNCHANGED pending
    /\ UNCHANGED <<completed, fetched_bbox, failed, flagVars, free, reader>>

FetchAcquire(f, b) ==
    /\ fetch[f].at = "acquire"
    /\ b \in free
    /\ free' = free \ {b}
    /\ Become(f, [at |-> "read", ts |-> fetch[f].ts, sel |-> fetch[f].sel, buf |-> b])
    /\ UNCHANGED <<mapVars, flagVars, reader>>

\* mark_failed
MarkFailed(f) ==
    /\ pending' = pending \ {fetch[f].ts}
    /\ failed' = failed \cup {fetch[f].ts}
    /\ Become(f, Idle)
    /\ Notify
    /\ UNCHANGED <<completed, fetched_bbox>>

\* No buffer came free within the staging timeout.
FetchStarved(f) ==
    /\ fetch[f].at = "acquire"
    /\ free = {}
    /\ MarkFailed(f)
    /\ UNCHANGED <<flagVars, free>>

\* The task's buffer with what the driver has read into it.
Filled(f) == [buf |-> fetch[f].buf, ts |-> fetch[f].ts, sel |-> fetch[f].sel]

\* The driver has filled the buffer: mark_complete.
FetchDone(f) ==
    /\ fetch[f].at = "read"
    /\ pending' = pending \ {fetch[f].ts}
    /\ completed' = [completed EXCEPT ![fetch[f].ts] = Filled(f)]
    /\ fetched_bbox' = [fetched_bbox EXCEPT ![fetch[f].ts] = fetch[f].sel]
    /\ Become(f, Idle)
    /\ Notify
    /\ UNCHANGED <<failed, flagVars, free>>

\* The driver throws, or reports more bytes than the buffer holds.
FetchThrows(f) ==
    /\ fetch[f].at = "read"
    /\ free' = free \cup {fetch[f].buf}
    /\ MarkFailed(f)
    /\ UNCHANGED flagVars

-----------------------------------------------------------------------------
\* cancel_pending: at the close of the dataset, and again in the destructor.
CancelPending ==
    /\ cancelled' = TRUE
    /\ pending' = {}
    /\ free' = free \cup {completed[t].buf : t \in {u \in Steps : completed[u] # None}}
    /\ completed' = [t \in Steps |-> None]
    /\ fetched_bbox' = [t \in Steps |-> Full]
    /\ failed' = {}
    /\ Notify
    /\ UNCHANGED <<latched, kicked_off, fetch>>

ReaderStep(r) == \/ ScheduleWindow(r) \/ EndWindow(r)
                 \/ Check(r) \/ Schedule(r) \/ Loop(r) \/ AfterRefetch(r)
                 \/ ScheduleNext(r) \/ ReleaseView(r)

FetchStep(f) == \/ FetchStart(f) \/ FetchStarved(f) \/ FetchDone(f) \/ FetchThrows(f)
                \/ \E b \in Buffers : FetchAcquire(f, b)

Next == \/ \E r \in Readers : \/ ReaderStep(r) \/ Timeout(r) \/ ScheduleInitial(r)
                              \/ \E t \in Steps, s \in Selections : GetBuffer(r, t, s)
        \/ \E f \in Tasks : FetchStep(f)
        \/ CancelPending

Spec == Init /\ [][Next]_vars

-----------------------------------------------------------------------------
FilledBuffer == [buf : Buffers, ts : Steps, sel : Selections]

ReaderState == {Out}
    \cup [at : {"warm"}, next : 0 .. NumSteps, end : 0 .. NumSteps]
    \cup [at : {"open"}, ts : Steps, sel : Selections, next : 0 .. NumSteps, end : 0 .. NumSteps]
    \cup [at : {"check", "schedule", "refetch", "loop", "tail", "asleep", "woken"},
          ts : Steps, sel : Selections]
    \cup [at : {"got", "view"}, ts : Steps, sel : Selections,
          data : FilledBuffer, late : BOOLEAN]

FetchState == {Idle}
    \cup [at : {"queued", "acquire"}, ts : Steps, sel : Selections]
    \cup [at : {"read"}, ts : Steps, sel : Selections, buf : Buffers]

TypeOK == /\ pending \in SUBSET Steps
          /\ completed \in [Steps -> FilledBuffer \cup {None}]
          /\ fetched_bbox \in [Steps -> Selections]
          /\ failed \in SUBSET Steps
          /\ latched \in Selections
          /\ kicked_off \in BOOLEAN
          /\ cancelled \in BOOLEAN
          /\ free \in SUBSET Buffers
          /\ fetch \in [Tasks -> FetchState]
          /\ reader \in [Readers -> ReaderState]

Fetching(t) == {f \in Tasks : fetch[f] # Idle /\ fetch[f].ts = t}

(***************************************************************************)
(* A step is fetched by at most one task at a time, also across the        *)
(* cancellation, and until then pending_ is exactly the steps being        *)
(* fetched: two windows that overlap never fetch a step twice.             *)
(***************************************************************************)
OneFetchPerStep ==
    \A t \in Steps : /\ Cardinality(Fetching(t)) <= 1
                     /\ ~cancelled => (t \in pending <=> Fetching(t) # {})

(***************************************************************************)
(* A step is pending, completed or failed, never two of them, whichever    *)
(* way scheduling, completion and the readers interleave.                  *)
(***************************************************************************)
OneOutcomePerStep ==
    /\ pending \cap failed = {}
    /\ \A t \in pending \cup failed : completed[t] = None

(***************************************************************************)
(* Every staging buffer is in one place: free, being filled, completed, or *)
(* with one reader.  None is leaked by an overwritten, stale, cancelled or *)
(* failed fetch and none is handed out twice.                              *)
(***************************************************************************)
Places(b) ==
    (IF b \in free THEN {<<"free">>} ELSE {})
      \cup {<<"fetch", f>> : f \in {g \in Tasks : fetch[g].at = "read" /\ fetch[g].buf = b}}
      \cup {<<"completed", t>> : t \in {u \in Steps : completed[u] # None /\ completed[u].buf = b}}
      \cup {<<"reader", r>> : r \in {q \in Readers : reader[q].at \in {"got", "view"}
                                                   /\ reader[q].data.buf = b}}

BufferInOnePlace == \A b \in Buffers : Cardinality(Places(b)) = 1

Matching(r) == reader[r].data.sel = reader[r].sel

Holding(r) == reader[r].at \in {"got", "view"}

(***************************************************************************)
(* prefetch_queue.hpp: "The returned buffer ALWAYS matches `bbox` exactly":*)
(* what a reader holds is the step and the selection it asked for.         *)
(***************************************************************************)
SelectionHonoured == \A r \in Readers : Holding(r) => Matching(r)

(***************************************************************************)
(* A read that does not end at its deadline returns the selection it asked *)
(* for, though other readers latch other selections meanwhile; one that    *)
(* does at least returns its step.                                         *)
(***************************************************************************)
InTimeReadsMatch ==
    \A r \in Readers : Holding(r) => /\ reader[r].data.ts = reader[r].ts
                                     /\ ~reader[r].late => Matching(r)

(***************************************************************************)
(* After cancel_pending no reader sleeps until its deadline: none goes to  *)
(* sleep between the flag and the last notification.                       *)
(***************************************************************************)
CancelWakesReaders == cancelled => \A r \in Readers : reader[r].at # "asleep"

(***************************************************************************)
(* A step has one fetch and one outcome, and a buffer one place, whichever *)
(* way readers, fetches and the cancellation interleave.                   *)
(***************************************************************************)
FetchesExact == TypeOK /\ OneFetchPerStep /\ OneOutcomePerStep /\ BufferInOnePlace

(***************************************************************************)
(* A reader gets what it asked for, and is let go when the dataset closes. *)
(***************************************************************************)
ReadersServed == InTimeReadsMatch /\ CancelWakesReaders
=============================================================================
