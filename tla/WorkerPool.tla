----------------------------- MODULE WorkerPool -----------------------------
(***************************************************************************)
(* amio::detail::WorkerPool: threads that serve a FIFO of writes, ordered  *)
(* per (dataset, variable) key, and a queue of prefetches.  Every step     *)
(* here is one critical section of mu_, or one access outside it.  Waits   *)
(* with a timeout (wait_for) may end at any time: the 50 ms poll of the    *)
(* workers, the 1 s of a writer under backpressure, the 5 s of drain().    *)
(***************************************************************************)
EXTENDS Integers, Sequences, FiniteSets

CONSTANTS
    Workers,       \* the worker threads
    Clients,       \* the threads that call the pool
    Keys,          \* (dataset, variable) pairs
    MaxWrites,     \* bound: writes submitted per key
    Prefetches,    \* bound: the distances of the prefetches ever submitted
    Low, High,     \* the watermarks
    Capacity       \* queue_capacity

ASSUME PoolAssumption ==
    /\ IsFiniteSet(Workers) /\ Workers # {}
    /\ IsFiniteSet(Keys) /\ IsFiniteSet(Prefetches) /\ Prefetches \subseteq Nat
    /\ MaxWrites \in Nat
    /\ Low \in Nat /\ High \in Nat /\ Capacity \in Nat
    /\ Low < High /\ High <= Capacity

VARIABLES
    write_queue,     \* write_queue_: <<key, dv_seq>>, a FIFO
    prefetch_queue,  \* prefetch_queue_: the distances queued
    next_seq,        \* DvOrderState::next_seq
    exec_seq,        \* DvOrderState::exec_seq
    backpressure,    \* BackpressureConfig::enabled, fixed at construction
    in_flight,       \* in_flight_
    shutdown,        \* shutdown_
    worker,          \* per worker, where it is and what it runs
    client,          \* per client, the call it is in
    executed,        \* per key, the dv_seqs whose callback has run, in order
    prefetched       \* the distances whose callback has run

\* What only the end of a callback changes, and the configuration.
quietVars == <<backpressure, executed, prefetched>>
vars == <<write_queue, prefetch_queue, next_seq, exec_seq, in_flight, shutdown,
          worker, client, quietVars>>

Idle   == [at |-> "idle"]
Exited == [at |-> "exited"]
Writing(k, s)  == [at |-> "write", key |-> k, seq |-> s]
Prefetching(d) == [at |-> "prefetch", dist |-> d]
Finishing      == [at |-> "finish"]

Out == [in |-> "none"]

Init == /\ write_queue = <<>>
        /\ prefetch_queue = {}
        /\ next_seq = [k \in Keys |-> 0]
        /\ exec_seq = [k \in Keys |-> 0]
        /\ in_flight = 0
        /\ shutdown = FALSE
        /\ backpressure \in BOOLEAN
        /\ worker = [w \in Workers |-> Idle]
        /\ client = [c \in Clients |-> Out]
        /\ executed = [k \in Keys |-> <<>>]
        /\ prefetched = {}

-----------------------------------------------------------------------------
(* Submission.                                                            *)

Call(c, r) == client' = [client EXCEPT ![c] = r]

Submitting(k) == {c \in Clients : client[c].in \in {"submit", "blocked"} /\ client[c].key = k}

\* submit_write is entered and finds shutdown_ unset; mu_ is not held yet.
\* Once it is set the call returns at once.
SubmitWrite(c, k) ==
    /\ client[c] = Out
    /\ ~shutdown
    /\ next_seq[k] + Cardinality(Submitting(k)) < MaxWrites
    /\ Call(c, [in |-> "submit", key |-> k])
    /\ UNCHANGED <<write_queue, prefetch_queue, next_seq, exec_seq, in_flight,
                   shutdown, worker, quietVars>>

\* The task gets the next sequence number of its key and the call returns.
Push(c, k) ==
    /\ write_queue' = Append(write_queue, <<k, next_seq[k]>>)
    /\ next_seq' = [next_seq EXCEPT ![k] = @ + 1]
    /\ Call(c, Out)

Refuse(c) == Call(c, Out) /\ UNCHANGED <<write_queue, next_seq>>

\* submit_write holds mu_ without backpressure: the queue is full or not.
Admit(c) ==
    /\ client[c].in = "submit"
    /\ ~backpressure
    /\ IF Len(write_queue) >= Capacity THEN Refuse(c) ELSE Push(c, client[c].key)
    /\ UNCHANGED <<prefetch_queue, exec_seq, in_flight, shutdown, worker, quietVars>>

\* submit_write holds mu_ with backpressure: it waits above the high mark.
Throttle(c) ==
    /\ client[c].in = "submit"
    /\ backpressure
    /\ IF Len(write_queue) >= High
         THEN /\ Call(c, [in |-> "blocked", key |-> client[c].key])
              /\ UNCHANGED <<write_queue, next_seq>>
         ELSE IF shutdown THEN Refuse(c) ELSE Push(c, client[c].key)
    /\ UNCHANGED <<prefetch_queue, exec_seq, in_flight, shutdown, worker, quietVars>>

\* The wait below the low mark ends: the predicate holds, or its second is over.
Unblock(c) ==
    /\ client[c].in = "blocked"
    /\ IF shutdown THEN Refuse(c) ELSE Push(c, client[c].key)
    /\ UNCHANGED <<prefetch_queue, exec_seq, in_flight, shutdown, worker, quietVars>>

\* submit_prefetch finds shutdown_ unset, and takes mu_ later.
SubmitPrefetch(c, d) ==
    /\ client[c] = Out
    /\ ~shutdown
    /\ d \notin prefetch_queue \cup prefetched
    /\ \A w \in Workers : worker[w] # Prefetching(d)
    /\ \A o \in Clients : client[o] # [in |-> "prefetch", dist |-> d]
    /\ Call(c, [in |-> "prefetch", dist |-> d])
    /\ UNCHANGED <<write_queue, prefetch_queue, next_seq, exec_seq, in_flight,
                   shutdown, worker, quietVars>>

AdmitPrefetch(c) ==
    /\ client[c].in = "prefetch"
    /\ prefetch_queue' = prefetch_queue \cup {client[c].dist}
    /\ Call(c, Out)
    /\ UNCHANGED <<write_queue, next_seq, exec_seq, in_flight, shutdown, worker, quietVars>>

-----------------------------------------------------------------------------
(* The worker loop: try_execute_one under mu_, the callback outside it.   *)

\* Mutant of Ready: a write runs whatever its number.
ReadyAny(task) == TRUE

Ready(task) == task[2] = exec_seq[task[1]]

\* A write at the head whose turn it is.
TakeWrite(w) ==
    /\ worker[w] = Idle
    /\ write_queue # <<>>
    /\ Ready(Head(write_queue))
    /\ write_queue' = Tail(write_queue)
    /\ worker' = [worker EXCEPT ![w] = Writing(Head(write_queue)[1], Head(write_queue)[2])]
    /\ in_flight' = in_flight + 1
    /\ UNCHANGED <<prefetch_queue, next_seq, exec_seq, shutdown, client, quietVars>>

\* The head goes to the back when it has to wait for its predecessor.
Requeued == Append(Tail(write_queue), Head(write_queue))

\* The prefetch with the smallest distance.
TakePrefetch(w) ==
    \E d \in prefetch_queue :
        /\ \A e \in prefetch_queue : d <= e
        /\ prefetch_queue' = prefetch_queue \ {d}
        /\ worker' = [worker EXCEPT ![w] = Prefetching(d)]
        /\ in_flight' = in_flight + 1

\* The head of the writes is not ready: it is requeued, and a prefetch is
\* tried instead.
Rotate(w) ==
    /\ worker[w] = Idle
    /\ write_queue # <<>>
    /\ ~Ready(Head(write_queue))
    /\ write_queue' = Requeued
    /\ IF prefetch_queue # {}
         THEN TakePrefetch(w)
         ELSE UNCHANGED <<prefetch_queue, worker, in_flight>>
    /\ UNCHANGED <<next_seq, exec_seq, shutdown, client, quietVars>>

\* No writes are queued: the prefetches' turn.
ServePrefetch(w) ==
    /\ worker[w] = Idle
    /\ write_queue = <<>>
    /\ prefetch_queue # {}
    /\ TakePrefetch(w)
    /\ UNCHANGED <<write_queue, next_seq, exec_seq, shutdown, client, quietVars>>

\* Mutant of EndWrite: an exception skips the advance of exec_seq.
EndWriteThrown(w) ==
    /\ worker[w].at = "write"
    /\ worker' = [worker EXCEPT ![w] = Finishing]
    /\ UNCHANGED <<write_queue, prefetch_queue, next_seq, exec_seq, in_flight, shutdown,
                   client, quietVars>>

\* The write callback returns or throws (the exception cordon catches it),
\* and exec_seq advances, with the key's own mutex held and mu_ not.
EndWrite(w) ==
    /\ worker[w].at = "write"
    /\ executed' = [executed EXCEPT ![worker[w].key] = Append(@, worker[w].seq)]
    /\ exec_seq' = [exec_seq EXCEPT ![worker[w].key] = @ + 1]
    /\ worker' = [worker EXCEPT ![w] = Finishing]
    /\ UNCHANGED <<write_queue, prefetch_queue, next_seq, in_flight, shutdown,
                   client, backpressure, prefetched>>

EndPrefetch(w) ==
    /\ worker[w].at = "prefetch"
    /\ prefetched' = prefetched \cup {worker[w].dist}
    /\ worker' = [worker EXCEPT ![w] = Finishing]
    /\ UNCHANGED <<write_queue, prefetch_queue, next_seq, exec_seq, in_flight, shutdown,
                   client, backpressure, executed>>

\* in_flight_ is counted down and the waiters are notified.
Finish(w) ==
    /\ worker[w] = Finishing
    /\ in_flight' = in_flight - 1
    /\ worker' = [worker EXCEPT ![w] = Idle]
    /\ UNCHANGED <<write_queue, prefetch_queue, next_seq, exec_seq, shutdown,
                   client, quietVars>>

MayExit == shutdown /\ write_queue = <<>> /\ prefetch_queue = {}

Exit(w) ==
    /\ worker[w] = Idle
    /\ MayExit
    /\ worker' = [worker EXCEPT ![w] = Exited]
    /\ UNCHANGED <<write_queue, prefetch_queue, next_seq, exec_seq, in_flight,
                   shutdown, client, quietVars>>

-----------------------------------------------------------------------------
(* drain() and shutdown().                                                *)

\* What the pool has accepted: every sequence number handed out, every
\* prefetch queued, running or done.
Accepted == [writes |-> next_seq,
             prefetches |-> prefetch_queue \cup prefetched \cup
                 {d \in Prefetches : \E w \in Workers : worker[w] = Prefetching(d)}]

StartDrain(c) ==
    /\ client[c] = Out
    /\ Call(c, [in |-> "drain", seen |-> Accepted])
    /\ UNCHANGED <<write_queue, prefetch_queue, next_seq, exec_seq, in_flight,
                   shutdown, worker, quietVars>>

\* Mutant of Drained: the tasks in flight are forgotten.
DrainedQueuesOnly == write_queue = <<>> /\ prefetch_queue = {}

Drained == write_queue = <<>> /\ prefetch_queue = {} /\ in_flight = 0

\* drain() sees its predicate hold.
EndDrain(c) ==
    /\ client[c].in = "drain"
    /\ Drained
    /\ Call(c, [in |-> "drained", seen |-> client[c].seen])
    /\ UNCHANGED <<write_queue, prefetch_queue, next_seq, exec_seq, in_flight,
                   shutdown, worker, quietVars>>

\* drain()'s five seconds are over.
DrainTimeout(c) ==
    /\ client[c].in = "drain"
    /\ Call(c, [in |-> "timed_out", seen |-> client[c].seen])
    /\ UNCHANGED <<write_queue, prefetch_queue, next_seq, exec_seq, in_flight,
                   shutdown, worker, quietVars>>

\* The caller goes on.
AfterDrain(c) ==
    /\ client[c].in \in {"drained", "timed_out"}
    /\ Call(c, Out)
    /\ UNCHANGED <<write_queue, prefetch_queue, next_seq, exec_seq, in_flight,
                   shutdown, worker, quietVars>>

\* shutdown() sets the flag, without mu_, and joins the workers.  Calls of it
\* do not overlap: a thread is joined once.
StartShutdown(c) ==
    /\ client[c] = Out
    /\ \A o \in Clients : client[o].in # "join"
    /\ shutdown' = TRUE
    /\ Call(c, [in |-> "join"])
    /\ UNCHANGED <<write_queue, prefetch_queue, next_seq, exec_seq, in_flight,
                   worker, quietVars>>

EndShutdown(c) ==
    /\ client[c].in = "join"
    /\ \A w \in Workers : worker[w] = Exited
    /\ Call(c, [in |-> "joined"])
    /\ UNCHANGED <<write_queue, prefetch_queue, next_seq, exec_seq, in_flight,
                   shutdown, worker, quietVars>>

-----------------------------------------------------------------------------
WorkerStep(w) == \/ TakeWrite(w) \/ Rotate(w) \/ ServePrefetch(w)
                 \/ EndWrite(w) \/ EndPrefetch(w) \/ Finish(w) \/ Exit(w)

\* Inside a call; a drain also ends by itself.
CallStep(c) == \/ Admit(c) \/ Throttle(c) \/ Unblock(c) \/ AdmitPrefetch(c)
               \/ EndDrain(c) \/ AfterDrain(c) \/ EndShutdown(c)

NewCall(c) == \/ \E k \in Keys : SubmitWrite(c, k)
              \/ \E d \in Prefetches : SubmitPrefetch(c, d)
              \/ StartDrain(c) \/ StartShutdown(c) \/ DrainTimeout(c)

Next == \/ \E w \in Workers : WorkerStep(w)
        \/ \E c \in Clients : CallStep(c) \/ NewCall(c)

Spec == Init /\ [][Next]_vars

\* Every worker is a running thread whose callbacks end, and a call goes on.
FairSpec == /\ Spec
            /\ \A w \in Workers : WF_vars(WorkerStep(w))
            /\ \A c \in Clients : WF_vars(CallStep(c))

-----------------------------------------------------------------------------
Tasks == Keys \X Nat

WorkerState == {Idle, Finishing, Exited}
                 \cup [at : {"write"}, key : Keys, seq : Nat]
                 \cup [at : {"prefetch"}, dist : Prefetches]

Snapshot == [writes : [Keys -> Nat], prefetches : SUBSET Prefetches]

ClientState == [in : {"none", "join", "joined"}]
                 \cup [in : {"submit", "blocked"}, key : Keys]
                 \cup [in : {"prefetch"}, dist : Prefetches]
                 \cup [in : {"drain", "drained", "timed_out"}, seen : Snapshot]

TypeOK ==
    /\ write_queue \in Seq(Tasks)
    /\ prefetch_queue \in SUBSET Prefetches
    /\ next_seq \in [Keys -> Nat]
    /\ exec_seq \in [Keys -> Nat]
    /\ in_flight \in Nat
    /\ shutdown \in BOOLEAN
    /\ backpressure \in BOOLEAN
    /\ worker \in [Workers -> WorkerState]
    /\ client \in [Clients -> ClientState]
    /\ executed \in [Keys -> Seq(Nat)]
    /\ prefetched \in SUBSET Prefetches

(***************************************************************************)
(* The writes of one (dataset, variable) run in submission order, each     *)
(* once and none skipped, however many workers pull them from the one      *)
(* queue and however often they are requeued.                              *)
(***************************************************************************)
SubmissionOrder ==
    \A k \in Keys : \A i \in 1 .. Len(executed[k]) : executed[k][i] = i - 1

(***************************************************************************)
(* No two workers are in a write callback of the same key.                 *)
(***************************************************************************)
OneWriterPerKey ==
    \A v, w \in Workers :
        worker[v].at = "write" /\ worker[w].at = "write" /\ worker[v].key = worker[w].key
            => v = w

(***************************************************************************)
(* No accepted write is lost or duplicated by the pops and requeues: each  *)
(* number handed out is in the queue once, or with one worker, or done.    *)
(***************************************************************************)
Places(k, s) ==
    {<<"queue", i>> : i \in {j \in 1 .. Len(write_queue) : write_queue[j] = <<k, s>>}}
      \cup {<<"worker", w>> : w \in {v \in Workers : worker[v] = Writing(k, s)}}
      \cup {<<"done", i>> : i \in {j \in 1 .. Len(executed[k]) : executed[k][j] = s}}

EveryWriteSomewhere ==
    \A k \in Keys : \A s \in 0 .. next_seq[k] - 1 : Cardinality(Places(k, s)) = 1

(***************************************************************************)
(* A drain() that saw its predicate hold has waited for everything that    *)
(* was accepted when it was called: no task slips between the queue and    *)
(* in_flight_.                                                             *)
(***************************************************************************)
Covers(seen) ==
    /\ \A k \in Keys : Len(executed[k]) >= seen.writes[k]
    /\ seen.prefetches \subseteq prefetched

DrainCompletes == \A c \in Clients : client[c].in = "drained" => Covers(client[c].seen)

(***************************************************************************)
(* worker_pool.hpp: after shutdown(), submit_write is a no-op, and the     *)
(* workers stop only after draining: once the workers are joined nothing   *)
(* is left in a queue that nobody serves.                                  *)
(***************************************************************************)
NothingLeftBehind ==
    (\A w \in Workers : worker[w] = Exited) => write_queue = <<>>

(***************************************************************************)
(* With backpressure submit_write tests shutdown_ again under mu_: it      *)
(* never accepts a write after the workers have gone.                      *)
(***************************************************************************)
ThrottledNotLeftBehind == backpressure => NothingLeftBehind

(***************************************************************************)
(* While a worker is alive a queued write does not stay in the queue: in   *)
(* the end everything that was accepted has been executed, whatever else   *)
(* is submitted, rotated or shut down meanwhile.                           *)
(***************************************************************************)
Backlog == \E k \in Keys : Len(executed[k]) < next_seq[k]

BacklogClears == (Backlog /\ \E w \in Workers : worker[w] # Exited) ~> ~Backlog

(***************************************************************************)
(* shutdown() returns: every worker finds both queues empty in the end.    *)
(***************************************************************************)
ShutdownReturns ==
    (\E c \in Clients : client[c].in = "join") ~> (\E c \in Clients : client[c].in = "joined")

(***************************************************************************)
(* Every accepted write is accounted for: in the queue, with a worker or   *)
(* done; covered by a drain that returned; and not stranded by shutdown    *)
(* under backpressure.                                                     *)
(***************************************************************************)
WritesAccounted == EveryWriteSomewhere /\ DrainCompletes /\ ThrottledNotLeftBehind

(***************************************************************************)
(* Neither a write nor the caller of shutdown() waits for ever.            *)
(***************************************************************************)
NobodyWaitsForEver == BacklogClears /\ ShutdownReturns
=============================================================================
