------------------------------ MODULE AmioCore ------------------------------
(***************************************************************************)
(* amio::detail, amio_core.cpp: the calls behind the C API and how they    *)
(* use the handle table, the staging pool, the worker pool and the         *)
(* prefetch queues, each taken here by what it promises.  A call is cut    *)
(* where another thread can see it half done.  A call refused before it    *)
(* has done anything is a stuttering step.                                 *)
(*                                                                         *)
(* The host keeps to docs/site/user-guide/model-integration.md: it flushes *)
(* and closes a dataset from the thread that opened it, finalizes from one *)
(* thread, and destroys nothing another of its threads is using.           *)
(***************************************************************************)
EXTENDS Integers, Sequences, FiniteSets

CONSTANTS
    Hosts,      \* threads of the host application
    Datasets,   \* dataset ids, each opened at most once
    Modes,      \* the modes datasets are opened in: AMIO_MODE_READ, AMIO_MODE_WRITE
    Vars,       \* variables
    Ios,        \* identities of the writes
    Views,      \* identities of the views
    Buffers,    \* the staging pool's buffers
    QueueCap,   \* queue_capacity of the worker pool, no backpressure configured
    MaxFetches  \* bound on the fetch tasks of a dataset that have not ended

ASSUME CoreAssumption ==
    /\ QueueCap \in Nat \ {0}
    /\ MaxFetches \in Nat
    /\ IsFiniteSet(Buffers) /\ IsFiniteSet(Ios) /\ IsFiniteSet(Views)
    /\ Modes \subseteq {"read", "write"}

VARIABLES
    core,      \* the core handle: "none", "up", "down"
    ds,        \* DatasetRecords
    io,        \* IoRecords, with the write task of each
    queue,     \* the write tasks queued on the worker pool
    view,      \* ViewRecords of the live view handles
    free,      \* the staging pool's free buffers
    ahead,     \* per dataset, buffers completed and not yet read
    fetching,  \* per dataset, buffers a prefetch task is filling
    tasks,     \* per dataset, fetch tasks without a buffer: on the worker pool's
               \* queue, or past their test of cancelled_
    host       \* per host thread, the call it is in

vars == <<core, ds, io, queue, view, free, ahead, fetching, tasks, host>>

readVars == <<view, ahead, fetching, tasks>>

NoDataset == [at |-> "none"]
NoIo      == [at |-> "none"]
NoView    == [at |-> "none"]
Idle      == [at |-> "idle"]

Init == /\ core = "none"
        /\ ds = [d \in Datasets |-> NoDataset]
        /\ io = [i \in Ios |-> NoIo]
        /\ queue = <<>>
        /\ view = [v \in Views |-> NoView]
        /\ free = Buffers
        /\ ahead = [d \in Datasets |-> {}]
        /\ fetching = [d \in Datasets |-> {}]
        /\ tasks = [d \in Datasets |-> [scheduled |-> 0, started |-> 0]]
        /\ host = [h \in Hosts |-> Idle]

Goto(h, s) == host' = [host EXCEPT ![h] = s]

\* The dataset handle is in the handle table: kind_dispatch lets the call in.
Live(d) == ds[d].at = "open"

\* A host thread inside a call on dataset d.
Inside(h, d) == /\ host[h] # Idle
                /\ \/ "ds" \in DOMAIN host[h] /\ host[h].ds = d
                   \/ "io" \in DOMAIN host[h] /\ io[host[h].io].ds = d

\* The thread may begin a call: the core is not being finalized.
Ready(h) == host[h] = Idle /\ core = "up" /\ \A g \in Hosts : host[g].at # "join"

\* It may begin one on dataset d, which is not being closed.
MayCall(h, d) == /\ Ready(h) /\ Live(d)
                 /\ \A g \in Hosts : Inside(g, d) => host[g].at # "drain"

\* No other thread is inside a call on d.
AloneOn(h, d) == \A g \in Hosts \ {h} : ~Inside(g, d)

-----------------------------------------------------------------------------
(* amio_init, amio_open_dataset.                                          *)

\* The manifest is good and the pools are built; otherwise no handle is
\* minted and nothing changes.
InitCore(h) == /\ core = "none" /\ host[h] = Idle
               /\ core' = "up"
               /\ UNCHANGED <<ds, io, queue, readVars, free, host>>

Opened(h, m) == [at |-> "open", by |-> h, mode |-> m, pending |-> 0,
                 failed |-> FALSE, views |-> 0, cancelled |-> FALSE, gaveUp |-> FALSE]

\* open_dataset: the driver is built and opens; no handle otherwise.
OpenDataset(h, d, m) == /\ Ready(h)
                        /\ ds[d] = NoDataset
                        /\ ds' = [ds EXCEPT ![d] = Opened(h, m)]
                        /\ UNCHANGED <<core, io, queue, readVars, free, host>>

-----------------------------------------------------------------------------
(* amio_write and the callback it hands to the worker pool.               *)

\* A staging buffer is acquired and the payload copied into it; the io
\* handle is inserted.  The mode of the dataset is not looked at.
Write(h, d, x, i, b) ==
    /\ MayCall(h, d)
    /\ io[i] = NoIo /\ b \in free
    /\ free' = free \ {b}
    /\ io' = [io EXCEPT ![i] = [at |-> "staged", ds |-> d, var |-> x, buf |-> b,
                                completed |-> FALSE, failed |-> FALSE]]
    /\ Goto(h, [at |-> "submit", io |-> i])
    /\ UNCHANGED <<core, ds, queue, readVars>>

\* submit_write.  At capacity it returns 0 and drops the task; write does not
\* look at what it returns.
Submit(h) ==
    /\ host[h].at = "submit"
    /\ LET i    == host[h].io
           fits == Len(queue) < QueueCap
       IN  /\ queue' = IF fits THEN Append(queue, i) ELSE queue
           /\ io' = [io EXCEPT ![i].at = IF fits THEN "queued" ELSE "dropped"]
           /\ Goto(h, [at |-> "count", io |-> i])
    /\ UNCHANGED <<core, ds, readVars, free>>

\* Mutant of Count: the pending write is not counted.
CountForgotten(h) ==
    /\ host[h].at = "count"
    /\ Goto(h, Idle)
    /\ UNCHANGED <<core, ds, io, queue, readVars, free>>

\* pending_writes is incremented last, and write returns AMIO_OK.
Count(h) ==
    /\ host[h].at = "count"
    /\ ds' = [ds EXCEPT ![io[host[h].io].ds].pending = @ + 1]
    /\ Goto(h, Idle)
    /\ UNCHANGED <<core, io, queue, readVars, free>>

SameKey(i, j) == io[i].ds = io[j].ds /\ io[i].var = io[j].var

\* The worker pool runs the writes of one variable one at a time, in order.
MayRun(n) ==
    /\ \A m \in 1 .. n - 1 : ~SameKey(queue[m], queue[n])
    /\ \A j \in Ios : io[j].at \in {"running", "ending"} => ~SameKey(queue[n], j)

RunWrite(n) ==
    /\ n \in 1 .. Len(queue) /\ MayRun(n)
    /\ io' = [io EXCEPT ![queue[n]].at = "running"]
    /\ queue' = SubSeq(queue, 1, n - 1) \o SubSeq(queue, n + 1, Len(queue))
    /\ UNCHANGED <<core, ds, readVars, free, host>>

\* driver->write returns.
DriverWrites(i) ==
    /\ io[i].at = "running"
    /\ Live(io[i].ds) /\ ds[io[i].ds].mode = "write"
    /\ io' = [io EXCEPT ![i].at = "ending", ![i].completed = TRUE]
    /\ UNCHANGED <<core, ds, queue, readVars, free, host>>

\* driver->write throws, as it does on a driver that is closed or reading.
DriverThrows(i) ==
    /\ io[i].at = "running"
    /\ io' = [io EXCEPT ![i].at = "ending", ![i].failed = TRUE]
    /\ ds' = [ds EXCEPT ![io[i].ds].failed = TRUE]
    /\ UNCHANGED <<core, queue, readVars, free, host>>

\* Mutant of EndWrite: only a write that succeeded gives its buffer back.
EndWriteLeaks(i) ==
    /\ io[i].at = "ending"
    /\ free' = IF io[i].failed THEN free ELSE free \cup {io[i].buf}
    /\ io' = [io EXCEPT ![i].at = "ended"]
    /\ ds' = [ds EXCEPT ![io[i].ds].pending = @ - 1]
    /\ UNCHANGED <<core, queue, readVars, host>>

\* Mutant of EndWrite: a failed write is not counted off.
EndWriteUncounted(i) ==
    /\ io[i].at = "ending"
    /\ free' = free \cup {io[i].buf}
    /\ io' = [io EXCEPT ![i].at = "ended"]
    /\ ds' = [ds EXCEPT ![io[i].ds].pending = IF io[i].failed THEN @ ELSE @ - 1]
    /\ UNCHANGED <<core, queue, readVars, host>>

\* The rest of the callback: the buffer goes back, the write is counted off.
EndWrite(i) ==
    /\ io[i].at = "ending"
    /\ free' = free \cup {io[i].buf}
    /\ io' = [io EXCEPT ![i].at = "ended"]
    /\ ds' = [ds EXCEPT ![io[i].ds].pending = @ - 1]
    /\ UNCHANGED <<core, queue, readVars, host>>

-----------------------------------------------------------------------------
(* amio_wait, amio_flush.                                                 *)

\* The write's call has returned its io handle to the host.
Returned(i) == io[i] # NoIo /\ \A h \in Hosts : host[h] # Idle =>
                                  ~("io" \in DOMAIN host[h] /\ host[h].io = i
                                      /\ host[h].at \in {"submit", "count"})

Wait(h, i) == /\ Ready(h) /\ Returned(i)
              /\ Goto(h, [at |-> "wait", io |-> i])
              /\ UNCHANGED <<core, ds, io, queue, readVars, free>>

\* wait polls completed, and only completed.
WaitReturn(h) == /\ host[h].at = "wait" /\ io[host[h].io].completed
                 /\ Goto(h, Idle)
                 /\ UNCHANGED <<core, ds, io, queue, readVars, free>>

Flush(h, d) == /\ MayCall(h, d) /\ ds[d].by = h
               /\ Goto(h, [at |-> "flush", ds |-> d])
               /\ UNCHANGED <<core, ds, io, queue, readVars, free>>

\* Mutant of Drained: a write in hand is taken for done.
DrainedEarly(d) == ds[d].pending <= 1

\* pending_writes is unsigned: below zero it is a large number.
Drained(d) == ds[d].pending = 0

FlushReturn(h) == /\ host[h].at = "flush" /\ Drained(host[h].ds)
                  /\ Goto(h, Idle)
                  /\ UNCHANGED <<core, ds, io, queue, readVars, free>>

\* AMIO_ERR_TIMEOUT from wait or flush.
Timeout(h) == /\ host[h].at \in {"wait", "flush"}
              /\ Goto(h, Idle)
              /\ UNCHANGED <<core, ds, io, queue, readVars, free>>

-----------------------------------------------------------------------------
(* amio_read and the look-ahead of the dataset's prefetch queue.          *)

\* The arguments are valid and the variable is resolved: its prefetch queue
\* exists from here on.
Read(h, d) == /\ MayCall(h, d) /\ ds[d].mode = "read"
              /\ Goto(h, [at |-> "get", ds |-> d])
              /\ UNCHANGED <<core, ds, io, queue, readVars, free>>

\* schedule_fetch, for the step asked for or ahead of it: refused once the
\* queue is cancelled.  The task waits its turn on the worker pool, which
\* amio_init has always built.
ScheduleFetch(h) ==
    /\ host[h].at \in {"get", "mint"}
    /\ LET d == host[h].ds
       IN /\ ~ds[d].cancelled
          /\ tasks[d].scheduled + tasks[d].started + Cardinality(fetching[d]) < MaxFetches
          /\ tasks' = [tasks EXCEPT ![d].scheduled = @ + 1]
    /\ UNCHANGED <<core, ds, io, queue, view, ahead, fetching, free, host>>

\* A worker takes the task, whether or not a reader is left; cancelled_ ends it.
FetchStart(d) ==
    /\ tasks[d].scheduled > 0
    /\ tasks' = [tasks EXCEPT ![d].scheduled = @ - 1,
                              ![d].started = IF ds[d].cancelled THEN @ ELSE @ + 1]
    /\ UNCHANGED <<core, ds, io, queue, view, ahead, fetching, free, host>>

\* It acquires a buffer: the queue may have been cancelled, and the dataset
\* closed, since its test.
FetchBegin(d, b) ==
    /\ tasks[d].started > 0 /\ b \in free
    /\ free' = free \ {b}
    /\ fetching' = [fetching EXCEPT ![d] = @ \cup {b}]
    /\ tasks' = [tasks EXCEPT ![d].started = @ - 1]
    /\ UNCHANGED <<core, ds, io, queue, view, ahead, host>>

\* No buffer within the pool's timeout: mark_failed.
FetchStarved(d) ==
    /\ tasks[d].started > 0
    /\ tasks' = [tasks EXCEPT ![d].started = @ - 1]
    /\ UNCHANGED <<core, ds, io, queue, view, ahead, fetching, free, host>>

\* mark_complete; it does not ask whether the queue has been cancelled.
FetchEnd(d, b) ==
    /\ b \in fetching[d]
    /\ fetching' = [fetching EXCEPT ![d] = @ \ {b}]
    /\ \/ ahead' = [ahead EXCEPT ![d] = @ \cup {b}] /\ UNCHANGED free
       \/ free' = free \cup {b} /\ UNCHANGED ahead
    /\ UNCHANGED <<core, ds, io, queue, view, tasks, host>>

\* get_buffer
GetBuffer(h, b) ==
    /\ host[h].at = "get" /\ b \in ahead[host[h].ds]
    /\ ahead' = [ahead EXCEPT ![host[h].ds] = @ \ {b}]
    /\ Goto(h, [at |-> "mint", ds |-> host[h].ds, buf |-> b])
    /\ UNCHANGED <<core, ds, io, queue, view, free, fetching, tasks>>

\* get_buffer times out, or the fetch failed.
ReadFails(h) == /\ host[h].at = "get"
                /\ Goto(h, Idle)
                /\ UNCHANGED <<core, ds, io, queue, readVars, free>>

\* The view record and handle; the dataset's view is counted.
MintView(h, v) ==
    /\ host[h].at = "mint" /\ view[v] = NoView
    /\ view' = [view EXCEPT ![v] = [at |-> "live", ds |-> host[h].ds, buf |-> host[h].buf]]
    /\ ds' = [ds EXCEPT ![host[h].ds].views = @ + 1]
    /\ Goto(h, Idle)
    /\ UNCHANGED <<core, io, queue, ahead, fetching, tasks, free>>

ReleaseView(h, v) ==
    /\ Ready(h) /\ view[v] # NoView
    /\ free' = free \cup {view[v].buf}
    /\ ds' = [ds EXCEPT ![view[v].ds].views = @ - 1]
    /\ view' = [view EXCEPT ![v] = NoView]
    /\ UNCHANGED <<core, io, queue, ahead, fetching, tasks, host>>

-----------------------------------------------------------------------------
(* amio_close, amio_finalize.                                             *)

\* The guard against outstanding views.
MayClose(d) == ds[d].views = 0

\* The prefetch queues are cancelled: what they have completed goes back.
Close(h, d) ==
    /\ MayCall(h, d) /\ ds[d].by = h /\ AloneOn(h, d)
    /\ MayClose(d)
    /\ ds' = [ds EXCEPT ![d].cancelled = TRUE]
    /\ free' = free \cup ahead[d]
    /\ ahead' = [ahead EXCEPT ![d] = {}]
    /\ Goto(h, [at |-> "drain", ds |-> d])
    /\ UNCHANGED <<core, io, queue, view, fetching, tasks>>

\* The writes are drained or thirty seconds have passed; the driver is
\* flushed and closed and the handle released.  The record stays in the
\* core's map.
CloseDriver(h) ==
    /\ host[h].at = "drain"
    /\ \E late \in {FALSE, ~Drained(host[h].ds)} :
          /\ Drained(host[h].ds) \/ late
          /\ ds' = [ds EXCEPT ![host[h].ds].at = "closed", ![host[h].ds].gaveUp = late]
    /\ Goto(h, Idle)
    /\ UNCHANGED <<core, io, queue, readVars, free>>

\* finalize: the worker pool is drained and joined.
Finalize(h) == /\ core = "up" /\ \A g \in Hosts : host[g] = Idle
               /\ Goto(h, [at |-> "join"])
               /\ UNCHANGED <<core, ds, io, queue, readVars, free>>

Joined == /\ queue = <<>>
          /\ \A i \in Ios : io[i].at \notin {"running", "ending"}
          /\ \A d \in Datasets : fetching[d] = {} /\ tasks[d] = [scheduled |-> 0, started |-> 0]

\* Every dataset is flushed, closed and destroyed, with its prefetch queues;
\* then the core is.  The views are not looked at.
TearDown(h) ==
    /\ host[h].at = "join" /\ Joined
    /\ core' = "down"
    /\ ds' = [d \in Datasets |-> IF ds[d] = NoDataset THEN NoDataset
                                 ELSE [ds[d] EXCEPT !.at = "closed"]]
    /\ free' = free \cup UNION {ahead[d] : d \in Datasets}
    /\ ahead' = [d \in Datasets |-> {}]
    /\ Goto(h, Idle)
    /\ UNCHANGED <<io, queue, view, fetching, tasks>>

-----------------------------------------------------------------------------
TakeWrite == \E n \in 1 .. Len(queue) : RunWrite(n)

CallbackStep(i) == DriverWrites(i) \/ DriverThrows(i) \/ EndWrite(i)

\* What a thread inside a call does next, deadlines aside.
CallStep(h) == \/ Submit(h) \/ Count(h) \/ WaitReturn(h) \/ FlushReturn(h)
               \/ \E b \in Buffers : GetBuffer(h, b)
               \/ ReadFails(h)
               \/ \E v \in Views : MintView(h, v)
               \/ CloseDriver(h) \/ TearDown(h)

FetchStep(d) == \/ FetchStart(d) \/ FetchStarved(d)
                \/ \E b \in Buffers : FetchBegin(d, b) \/ FetchEnd(d, b)

CallBegin(h) ==
    \/ InitCore(h) \/ Finalize(h)
    \/ \E d \in Datasets, m \in Modes : OpenDataset(h, d, m)
    \/ \E d \in Datasets, x \in Vars, i \in Ios, b \in Buffers : Write(h, d, x, i, b)
    \/ \E i \in Ios : Wait(h, i)
    \/ \E d \in Datasets : Flush(h, d) \/ Read(h, d) \/ Close(h, d)
    \/ \E v \in Views : ReleaseView(h, v)

Next == \/ TakeWrite
        \/ \E i \in Ios : CallbackStep(i)
        \/ \E d \in Datasets : FetchStep(d)
        \/ \E h \in Hosts : CallBegin(h) \/ CallStep(h) \/ ScheduleFetch(h) \/ Timeout(h)

\* The workers and the threads inside a call go on.
Fairness == /\ WF_vars(TakeWrite)
            /\ \A i \in Ios : WF_vars(CallbackStep(i))
            /\ \A d \in Datasets : WF_vars(FetchStep(d))
            /\ \A h \in Hosts : WF_vars(CallStep(h))

Spec == Init /\ [][Next]_vars /\ Fairness

-----------------------------------------------------------------------------
Unfinished(i) == io[i].at \in {"queued", "running", "ending"}

\* Where a staging buffer is.
Places(b) ==
    (IF b \in free THEN {<<"free">>} ELSE {})
      \cup {<<"io", i>> : i \in {j \in Ios : /\ io[j].at \notin {"none", "ended", "dropped"}
                                             /\ io[j].buf = b}}
      \cup {<<"ahead", d>> : d \in {e \in Datasets : b \in ahead[e]}}
      \cup {<<"fetching", d>> : d \in {e \in Datasets : b \in fetching[e]}}
      \cup {<<"read", h>> : h \in {g \in Hosts : host[g].at = "mint" /\ host[g].buf = b}}
      \cup {<<"view", v>> : v \in {w \in Views : view[w] # NoView /\ view[w].buf = b}}

\* The buffers of writes that submit_write dropped.
Leaked == {io[i].buf : i \in {j \in Ios : io[j].at = "dropped"}}

(***************************************************************************)
(* Every staging buffer is in one place: free, with a write, being filled, *)
(* completed ahead, in the hands of a read, or under a view - but for the  *)
(* buffer of a write the full queue has dropped, which is in no place ever *)
(* after: write does not look at what submit_write returns                 *)
(* (amio_core.cpp:783), reports success and keeps the buffer, where        *)
(* amio.h:206 promises AMIO_ERR_QUEUE_FULL.  That is the only leak:        *)
(* failures, cancellation, close and finalize neither lose a buffer nor    *)
(* free one twice.                                                         *)
(***************************************************************************)
BuffersAccounted == \A b \in Buffers : Cardinality(Places(b)) = IF b \in Leaked THEN 0 ELSE 1

(***************************************************************************)
(* pending_writes settles: whenever no write call is under way on a        *)
(* dataset, it counts exactly the writes submitted and not yet finished,   *)
(* and the ones the full queue has dropped, however the workers overtook   *)
(* the increments.                                                         *)
(***************************************************************************)
PendingSettles ==
    \A d \in Datasets :
        /\ ds[d] # NoDataset
        /\ \A h \in Hosts : Inside(h, d) => host[h].at \notin {"submit", "count"}
        => ds[d].pending = Cardinality({i \in Ios : /\ io[i] # NoIo /\ io[i].ds = d
                                                    /\ Unfinished(i) \/ io[i].at = "dropped"})

(***************************************************************************)
(* No write reaches a driver that has been closed, unless close gave up    *)
(* after its thirty seconds: close and finalize drain the writes first.    *)
(***************************************************************************)
NoWriteAfterClose ==
    \A i \in Ios : Unfinished(i) /\ ds[io[i].ds].at = "closed" => ds[io[i].ds].gaveUp

(***************************************************************************)
(* A dataset is open, and its driver and pool with it, as long as one of   *)
(* its views is live and the core is up: the host's pointer into the       *)
(* staging buffer stays good.                                              *)
(***************************************************************************)
ViewsPinDataset ==
    \A v \in Views : view[v] # NoView /\ core = "up" => ds[view[v].ds].at = "open"

Dropped(d) == \E i \in Ios : io[i].at = "dropped" /\ io[i].ds = d

(***************************************************************************)
(* A flush returns without its timeout once the workers have caught up,    *)
(* unless the queue has dropped one of the dataset's writes.               *)
(***************************************************************************)
FlushReturns ==
    \A h \in Hosts, d \in Datasets :
        host[h].at = "flush" /\ host[h].ds = d ~> host[h].at # "flush" \/ Dropped(d)

(***************************************************************************)
(* A dataset closes under no write of its own and under no live view.      *)
(***************************************************************************)
CloseIsSafe == NoWriteAfterClose /\ ViewsPinDataset
=============================================================================
