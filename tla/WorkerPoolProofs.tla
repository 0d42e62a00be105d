-------------------------- MODULE WorkerPoolProofs --------------------------
(***************************************************************************)
(* Proofs about WorkerPool, for any number of workers, callers, keys and   *)
(* writes, with and without backpressure.                                  *)
(*                                                                         *)
(* SubmissionOrder is not inductive.  What makes it so is that a worker in *)
(* a write callback holds the number exec_seq of its key, and that a       *)
(* number is in one place only: a queued task differs from every other     *)
(* queued task and from every running one.                                 *)
(*                                                                         *)
(* WritesAccounted has an invariant of its own, Accounting, on top of it.  *)
(***************************************************************************)
EXTENDS WorkerPool, FiniteSetTheorems, TLAPS

\* Everything but what the callers are doing.
Types ==
    /\ write_queue \in Seq(Tasks)
    /\ prefetch_queue \in SUBSET Prefetches
    /\ next_seq \in [Keys -> Nat]
    /\ exec_seq \in [Keys -> Nat]
    /\ worker \in [Workers -> WorkerState]
    /\ client \in [Clients -> ClientState]
    /\ executed \in [Keys -> Seq(Nat)]

\* The callbacks run are exactly the numbers below exec_seq, in order.
History ==
    \A k \in Keys : /\ Len(executed[k]) = exec_seq[k]
                    /\ exec_seq[k] <= next_seq[k]
                    /\ \A i \in 1 .. Len(executed[k]) : executed[k][i] = i - 1

\* A worker in a write callback holds its key's turn.
HoldsTurn ==
    \A w \in Workers : worker[w].at = "write" =>
        /\ worker[w].seq = exec_seq[worker[w].key]
        /\ worker[w].seq < next_seq[worker[w].key]

\* A number is queued at most once, ...
QueuedOnce ==
    \A i, j \in 1 .. Len(write_queue) : write_queue[i] = write_queue[j] => i = j

\* ... is neither done nor still to be handed out, ...
QueuedInRange ==
    \A i \in 1 .. Len(write_queue) :
        /\ exec_seq[write_queue[i][1]] <= write_queue[i][2]
        /\ write_queue[i][2] < next_seq[write_queue[i][1]]

\* ... and is not running.
QueuedNotRunning ==
    \A i \in 1 .. Len(write_queue) : \A w \in Workers :
        worker[w].at = "write" => write_queue[i] # <<worker[w].key, worker[w].seq>>

IInv == /\ Types
        /\ History
        /\ HoldsTurn
        /\ QueuedOnce
        /\ QueuedInRange
        /\ QueuedNotRunning
        /\ OneWriterPerKey

-----------------------------------------------------------------------------
(* The shapes of the states.                                              *)

LEMMA WorkerShapes ==
    /\ Idle.at = "idle" /\ Finishing.at = "finish" /\ Exited.at = "exited"
    /\ \A k, s : /\ Writing(k, s).at = "write"
                 /\ Writing(k, s).key = k
                 /\ Writing(k, s).seq = s
    /\ \A d : Prefetching(d).at = "prefetch"
    /\ Idle \in WorkerState /\ Finishing \in WorkerState /\ Exited \in WorkerState
    /\ \A k \in Keys, s \in Nat : Writing(k, s) \in WorkerState
    /\ \A d \in Prefetches : Prefetching(d) \in WorkerState
BY DEF Idle, Finishing, Exited, Writing, Prefetching, WorkerState

LEMMA WritingTyped ==
    ASSUME NEW x \in WorkerState, x.at = "write"
    PROVE  x.key \in Keys /\ x.seq \in Nat
BY DEF WorkerState, Idle, Finishing, Exited

LEMMA PrefetchingTyped ==
    ASSUME NEW x \in WorkerState, x.at = "prefetch"
    PROVE  x.dist \in Prefetches
BY DEF WorkerState, Idle, Finishing, Exited

LEMMA SubmittingTyped ==
    ASSUME NEW x \in ClientState, x.in \in {"submit", "blocked"}
    PROVE  x.key \in Keys
BY DEF ClientState

LEMMA SnapshotTyped ==
    ASSUME Types, prefetched \in SUBSET Prefetches
    PROVE  Accepted \in Snapshot
BY DEF Accepted, Snapshot, Types

-----------------------------------------------------------------------------
(* What the invariant needs of a step.                                    *)

\* Nothing is queued, taken or finished, and no worker enters a callback.
LEMMA Frame ==
    ASSUME IInv, Types',
           UNCHANGED <<write_queue, next_seq, exec_seq, executed>>,
           \A w \in Workers : worker'[w].at = "write" => worker'[w] = worker[w]
    PROVE  IInv'
BY DEF IInv, History, HoldsTurn, QueuedOnce, QueuedInRange, QueuedNotRunning, OneWriterPerKey

\* A write is accepted: its number is new.
LEMMA PushStep ==
    ASSUME IInv, NEW c \in Clients, NEW k \in Keys, Push(c, k),
           UNCHANGED <<prefetch_queue, exec_seq, worker, executed>>
    PROVE  IInv'
<1> USE DEF IInv
<1> <<k, next_seq[k]>> \in Tasks
    BY DEF Types, Tasks
<1>1. Types'
  <2>1. client' \in [Clients -> ClientState]
        BY DEF Push, Call, Types, Out, ClientState
  <2> QED BY <2>1 DEF Push, Types, Tasks
<1>2. /\ Len(write_queue') = Len(write_queue) + 1
      /\ \A i \in 1 .. Len(write_queue) : write_queue'[i] = write_queue[i]
      /\ write_queue'[Len(write_queue) + 1] = <<k, next_seq[k]>>
      /\ Len(write_queue) \in Nat
    BY DEF Push, Types
<1>3. /\ \A j \in Keys : /\ next_seq[j] \in Nat /\ exec_seq[j] \in Nat
                        /\ next_seq'[j] \in Nat /\ next_seq[j] <= next_seq'[j]
      /\ next_seq'[k] = next_seq[k] + 1
  <2>1. \A j \in Keys : next_seq[j] \in Nat /\ exec_seq[j] \in Nat
      BY DEF Types
  <2>2. \A j \in Keys : next_seq'[j] = IF j = k THEN next_seq[j] + 1 ELSE next_seq[j]
      BY DEF Push, Types
  <2> QED BY <2>1, <2>2
<1>4. \A i \in 1 .. Len(write_queue) :
         write_queue[i] \in Tasks /\ write_queue[i] # <<k, next_seq[k]>>
  <2> SUFFICES ASSUME NEW i \in 1 .. Len(write_queue)
               PROVE  write_queue[i] \in Tasks /\ write_queue[i] # <<k, next_seq[k]>>
      OBVIOUS
  <2>1. write_queue[i] \in Tasks
      BY DEF Types
  <2>2. write_queue[i][2] < next_seq[write_queue[i][1]]
      BY DEF QueuedInRange
  <2>3. ASSUME write_queue[i] = <<k, next_seq[k]>> PROVE FALSE
    <3>1. next_seq[k] < next_seq[k]
        BY <2>2, <2>3
    <3> QED BY <3>1, <1>3
  <2> QED BY <2>1, <2>3
<1>5. History'
  <2> SUFFICES ASSUME NEW j \in Keys
               PROVE  /\ Len(executed[j]) = exec_seq[j]
                      /\ exec_seq[j] <= next_seq'[j]
                      /\ \A i \in 1 .. Len(executed[j]) : executed[j][i] = i - 1
      BY DEF History
  <2> QED BY <1>3 DEF History
<1>6. \A w \in Workers : worker[w].at = "write" =>
          worker[w].key \in Keys /\ worker[w].seq \in Nat
    BY WritingTyped DEF Types
<1>7. HoldsTurn'
  <2> SUFFICES ASSUME NEW w \in Workers, worker'[w].at = "write"
               PROVE  /\ worker'[w].seq = exec_seq'[worker'[w].key]
                      /\ worker'[w].seq < next_seq'[worker'[w].key]
      BY DEF HoldsTurn
  <2>1. /\ worker[w].key \in Keys
        /\ worker[w].seq = exec_seq[worker[w].key]
        /\ worker[w].seq < next_seq[worker[w].key]
      BY <1>6 DEF HoldsTurn
  <2> QED BY <2>1, <1>3
<1>8. QueuedOnce'
    BY <1>2, <1>4 DEF QueuedOnce
<1>9. QueuedInRange'
  <2> SUFFICES ASSUME NEW i \in 1 .. Len(write_queue')
               PROVE  /\ exec_seq'[write_queue'[i][1]] <= write_queue'[i][2]
                      /\ write_queue'[i][2] < next_seq'[write_queue'[i][1]]
      BY DEF QueuedInRange
  <2>1. CASE i \in 1 .. Len(write_queue)
    <3>1. /\ write_queue'[i] = write_queue[i]
          /\ write_queue[i][1] \in Keys /\ write_queue[i][2] \in Nat
          /\ exec_seq[write_queue[i][1]] <= write_queue[i][2]
          /\ write_queue[i][2] < next_seq[write_queue[i][1]]
        BY <2>1, <1>2, <1>4 DEF QueuedInRange, Tasks
    <3> QED BY <3>1, <1>3
  <2>2. CASE i = Len(write_queue) + 1
    <3>1. exec_seq[k] <= next_seq[k]
        BY DEF History
    <3> QED BY <3>1, <2>2, <1>2, <1>3 DEF Types
  <2> QED BY <2>1, <2>2, <1>2
<1>10. QueuedNotRunning'
  <2> SUFFICES ASSUME NEW i \in 1 .. Len(write_queue'), NEW w \in Workers,
                      worker[w].at = "write"
               PROVE  write_queue'[i] # <<worker[w].key, worker[w].seq>>
      BY DEF QueuedNotRunning
  <2>1. CASE i \in 1 .. Len(write_queue)
      BY <2>1, <1>2 DEF QueuedNotRunning
  <2>2. CASE i = Len(write_queue) + 1
    <3>1. worker[w].seq < next_seq[worker[w].key] /\ worker[w].seq \in Nat
        BY <1>6 DEF HoldsTurn
    <3> QED BY <3>1, <2>2, <1>2 DEF Types
  <2> QED BY <2>1, <2>2, <1>2
<1>11. OneWriterPerKey'
    BY DEF OneWriterPerKey
<1> QED BY <1>1, <1>5, <1>7, <1>8, <1>9, <1>10, <1>11

\* A write starts: nobody else has its key's turn.
LEMMA TakeWriteStep ==
    ASSUME IInv, NEW w \in Workers, TakeWrite(w)
    PROVE  IInv'
<1> USE DEF IInv
<1> DEFINE t == Head(write_queue)
<1>1. /\ Len(write_queue) \in Nat \ {0}
      /\ t = write_queue[1] /\ t \in Tasks /\ t = <<t[1], t[2]>>
      /\ t[1] \in Keys /\ t[2] \in Nat
      /\ t[2] = exec_seq[t[1]] /\ t[2] < next_seq[t[1]]
  <2>1. /\ Len(write_queue) \in Nat \ {0}
        /\ t = write_queue[1] /\ t \in Tasks
      BY DEF TakeWrite, Types
  <2>2. t = <<t[1], t[2]>> /\ t[1] \in Keys /\ t[2] \in Nat
      BY <2>1 DEF Tasks
  <2>3. t[2] = exec_seq[t[1]]
      BY DEF TakeWrite, Ready
  <2>4. write_queue[1][2] < next_seq[write_queue[1][1]]
      BY <2>1 DEF QueuedInRange
  <2> QED BY <2>1, <2>2, <2>3, <2>4
<1>2. /\ Len(write_queue') = Len(write_queue) - 1
      /\ \A i \in 1 .. Len(write_queue') : write_queue'[i] = write_queue[i + 1]
    BY <1>1 DEF TakeWrite, Types
<1>3. /\ worker'[w].at = "write" /\ worker'[w].key = t[1] /\ worker'[w].seq = t[2]
      /\ \A v \in Workers : v # w => worker'[v] = worker[v]
    BY WorkerShapes DEF TakeWrite, Types
<1>4. UNCHANGED <<prefetch_queue, next_seq, exec_seq, client, executed>>
    BY DEF TakeWrite, quietVars
<1>5. Types'
  <2>1. Writing(t[1], t[2]) \in WorkerState
      BY <1>1, WorkerShapes
  <2>2. worker' \in [Workers -> WorkerState]
      BY <2>1 DEF TakeWrite, Types
  <2>3. write_queue' \in Seq(Tasks)
      BY <1>1 DEF TakeWrite, Types
  <2> QED BY <2>2, <2>3, <1>4 DEF Types
<1>6. History'
    BY <1>4 DEF History
<1>7. HoldsTurn'
    BY <1>1, <1>3, <1>4 DEF HoldsTurn
<1>8. QueuedOnce'
  <2> SUFFICES ASSUME NEW i \in 1 .. Len(write_queue'), NEW j \in 1 .. Len(write_queue'),
                      write_queue'[i] = write_queue'[j]
               PROVE  i = j
      BY DEF QueuedOnce
  <2>1. /\ i + 1 \in 1 .. Len(write_queue) /\ j + 1 \in 1 .. Len(write_queue)
        /\ write_queue[i + 1] = write_queue[j + 1]
      BY <1>1, <1>2
  <2> QED BY <2>1, <1>2 DEF QueuedOnce
<1>9. QueuedInRange'
  <2> SUFFICES ASSUME NEW i \in 1 .. Len(write_queue')
               PROVE  /\ exec_seq'[write_queue'[i][1]] <= write_queue'[i][2]
                      /\ write_queue'[i][2] < next_seq'[write_queue'[i][1]]
      BY DEF QueuedInRange
  <2>1. i + 1 \in 1 .. Len(write_queue) /\ write_queue'[i] = write_queue[i + 1]
      BY <1>1, <1>2
  <2> QED BY <2>1, <1>4 DEF QueuedInRange
<1>10. QueuedNotRunning'
  <2> SUFFICES ASSUME NEW i \in 1 .. Len(write_queue'), NEW v \in Workers,
                      worker'[v].at = "write"
               PROVE  write_queue'[i] # <<worker'[v].key, worker'[v].seq>>
      BY DEF QueuedNotRunning
  <2>1. /\ i + 1 \in 1 .. Len(write_queue) /\ i + 1 # 1 /\ 1 \in 1 .. Len(write_queue)
        /\ write_queue'[i] = write_queue[i + 1]
      BY <1>1, <1>2
  <2>2. CASE v = w
      BY <2>1, <2>2, <1>1, <1>3 DEF QueuedOnce
  <2>3. CASE v # w
      BY <2>1, <2>3, <1>3 DEF QueuedNotRunning
  <2> QED BY <2>2, <2>3
<1>11. OneWriterPerKey'
  <2>1. \A v \in Workers : worker[v].at = "write" => worker[v].key # t[1]
      BY <1>1 DEF QueuedNotRunning, HoldsTurn
  <2> QED BY <2>1, <1>3 DEF OneWriterPerKey
<1> QED BY <1>5, <1>6, <1>7, <1>8, <1>9, <1>10, <1>11

\* A write waits for its predecessor: the queue is only rotated.
LEMMA RotateStep ==
    ASSUME IInv, NEW w \in Workers, Rotate(w)
    PROVE  IInv'
<1> USE DEF IInv
<1> DEFINE n == Len(write_queue)
<1> DEFINE from(i) == IF i = n THEN 1 ELSE i + 1
<1>1. /\ n \in Nat \ {0} /\ Len(write_queue') = n
      /\ write_queue' \in Seq(Tasks)
      /\ \A i \in 1 .. n : write_queue'[i] = write_queue[from(i)]
  <2>1. /\ Tail(write_queue) \in Seq(Tasks) /\ Head(write_queue) \in Tasks
        /\ Head(write_queue) = write_queue[1]
        /\ n \in Nat \ {0} /\ Len(Tail(write_queue)) = n - 1
        /\ \A i \in 1 .. n - 1 : Tail(write_queue)[i] = write_queue[i + 1]
      BY DEF Rotate, Types
  <2>2. write_queue' = Append(Tail(write_queue), Head(write_queue))
      BY DEF Rotate, Requeued
  <2> HIDE DEF n
  <2> QED BY <2>1, <2>2
<1>2. /\ \A i \in 1 .. n : from(i) \in 1 .. n
      /\ \A i, j \in 1 .. n : from(i) = from(j) => i = j
    BY <1>1
<1>3. /\ prefetch_queue' \in SUBSET Prefetches
      /\ worker' \in [Workers -> WorkerState]
      /\ \A v \in Workers : worker'[v].at = "write" => worker'[v] = worker[v]
  <2>1. CASE prefetch_queue = {}
    <3>1. UNCHANGED <<prefetch_queue, worker>>
        BY <2>1 DEF Rotate
    <3> QED BY <3>1 DEF Types
  <2>2. CASE prefetch_queue # {}
    <3>1. PICK d \in prefetch_queue : /\ prefetch_queue' = prefetch_queue \ {d}
                                      /\ worker' = [worker EXCEPT ![w] = Prefetching(d)]
        BY <2>2 DEF Rotate, TakePrefetch
    <3>2. /\ worker \in [Workers -> WorkerState]
          /\ prefetch_queue \in SUBSET Prefetches
          /\ Prefetching(d) \in WorkerState /\ Prefetching(d).at = "prefetch"
        BY WorkerShapes DEF Types
    <3> QED BY <3>1, <3>2
  <2> QED BY <2>1, <2>2
<1>4. UNCHANGED <<next_seq, exec_seq, client, executed>>
    BY DEF Rotate, quietVars
<1>5. Types'
    BY <1>1, <1>3, <1>4 DEF Types
<1> HIDE DEF n, from
<1>6. History' /\ HoldsTurn' /\ OneWriterPerKey'
    BY <1>3, <1>4 DEF History, HoldsTurn, OneWriterPerKey
<1>7. QueuedOnce'
    BY <1>1, <1>2 DEF QueuedOnce, n
<1>8. QueuedInRange'
    BY <1>1, <1>2, <1>4 DEF QueuedInRange, n
<1>9. QueuedNotRunning'
  <2> SUFFICES ASSUME NEW i \in 1 .. n, NEW v \in Workers, worker'[v].at = "write"
               PROVE  write_queue'[i] # <<worker'[v].key, worker'[v].seq>>
      BY <1>1 DEF QueuedNotRunning
  <2>1. worker'[v] = worker[v]
      BY <1>3
  <2>2. write_queue'[i] = write_queue[from(i)] /\ from(i) \in 1 .. Len(write_queue)
      BY <1>1, <1>2 DEF n
  <2> QED BY <2>1, <2>2 DEF QueuedNotRunning
<1> QED BY <1>5, <1>6, <1>7, <1>8, <1>9

\* A write ends: exec_seq moves to a number nobody runs and the queue keeps.
LEMMA EndWriteStep ==
    ASSUME IInv, NEW w \in Workers, EndWrite(w)
    PROVE  IInv'
<1> USE DEF IInv
<1> DEFINE k == worker[w].key
<1>1. /\ worker[w].at = "write" /\ k \in Keys /\ worker[w].seq \in Nat
      /\ worker[w].seq = exec_seq[k] /\ exec_seq[k] < next_seq[k]
    BY WritingTyped DEF EndWrite, Types, HoldsTurn
<1>2. /\ exec_seq' = [exec_seq EXCEPT ![k] = @ + 1]
      /\ executed' = [executed EXCEPT ![k] = Append(@, worker[w].seq)]
      /\ UNCHANGED <<write_queue, prefetch_queue, next_seq, client>>
    BY DEF EndWrite
<1>3. /\ worker'[w].at = "finish"
      /\ \A v \in Workers : v # w => worker'[v] = worker[v]
    BY WorkerShapes DEF EndWrite, Types
<1>4. Types'
  <2>1. worker' \in [Workers -> WorkerState]
      BY WorkerShapes DEF EndWrite, Types
  <2>2. exec_seq' \in [Keys -> Nat] /\ executed' \in [Keys -> Seq(Nat)]
      BY <1>1, <1>2 DEF Types
  <2> QED BY <2>1, <2>2, <1>2 DEF Types
<1>5. /\ \A j \in Keys : exec_seq[j] \in Nat /\ next_seq[j] \in Nat
      /\ exec_seq'[k] = exec_seq[k] + 1
      /\ \A j \in Keys : j # k => exec_seq'[j] = exec_seq[j]
    BY <1>1, <1>2 DEF Types
<1> HIDE DEF k
<1>6. History'
  <2> SUFFICES ASSUME NEW j \in Keys
               PROVE  /\ Len(executed'[j]) = exec_seq'[j]
                      /\ exec_seq'[j] <= next_seq'[j]
                      /\ \A i \in 1 .. Len(executed'[j]) : executed'[j][i] = i - 1
      BY DEF History
  <2>1. CASE j # k
    <3>1. executed'[j] = executed[j] /\ exec_seq'[j] = exec_seq[j]
        BY <2>1, <1>2, <1>5 DEF Types
    <3> QED BY <3>1, <1>2 DEF History
  <2>2. CASE j = k
    <3>1. /\ executed[k] \in Seq(Nat)
          /\ executed'[k] = Append(executed[k], exec_seq[k])
          /\ Len(executed[k]) = exec_seq[k]
          /\ \A i \in 1 .. Len(executed[k]) : executed[k][i] = i - 1
        BY <1>1, <1>2 DEF Types, History
    <3> QED BY <3>1, <2>2, <1>1, <1>2, <1>5
  <2> QED BY <2>1, <2>2
<1>7. \A v \in Workers : worker'[v].at = "write" =>
          v # w /\ worker'[v] = worker[v] /\ worker[v].key # k /\ worker[v].key \in Keys
  <2>1. \A v \in Workers : worker[v].at = "write" /\ worker[v].key = k => v = w
      BY <1>1 DEF OneWriterPerKey, k
  <2> QED BY <2>1, <1>3, WritingTyped DEF Types
<1>8. HoldsTurn'
    BY <1>2, <1>5, <1>7 DEF HoldsTurn
<1>9. QueuedOnce'
    BY <1>2 DEF QueuedOnce
<1>10. QueuedInRange'
  <2> SUFFICES ASSUME NEW i \in 1 .. Len(write_queue)
               PROVE  /\ exec_seq'[write_queue[i][1]] <= write_queue[i][2]
                      /\ write_queue[i][2] < next_seq[write_queue[i][1]]
      BY <1>2 DEF QueuedInRange
  <2>1. /\ write_queue[i] \in Tasks
        /\ exec_seq[write_queue[i][1]] <= write_queue[i][2]
        /\ write_queue[i][2] < next_seq[write_queue[i][1]]
        /\ write_queue[i] # <<k, exec_seq[k]>>
    <3>1. write_queue[i] \in Tasks
        BY DEF Types
    <3>2. write_queue[i] # <<k, exec_seq[k]>>
        BY <1>1 DEF QueuedNotRunning, k
    <3> QED BY <3>1, <3>2 DEF QueuedInRange
  <2>2. /\ write_queue[i][1] \in Keys /\ write_queue[i][2] \in Nat
        /\ write_queue[i][1] = k => write_queue[i][2] # exec_seq[k]
      BY <2>1 DEF Tasks
  <2> QED BY <2>1, <2>2, <1>5
<1>11. QueuedNotRunning'
    BY <1>2, <1>7 DEF QueuedNotRunning
<1>12. OneWriterPerKey'
    BY <1>7 DEF OneWriterPerKey
<1> QED BY <1>4, <1>6, <1>8, <1>9, <1>10, <1>11, <1>12

-----------------------------------------------------------------------------
LEMMA InitIInv == Init => IInv
<1> SUFFICES ASSUME Init PROVE IInv
    OBVIOUS
<1>1. Types
    BY WorkerShapes DEF Init, Types, Out, ClientState
<1>2. \A w \in Workers : worker[w].at # "write"
    BY WorkerShapes DEF Init
<1>3. History
    BY DEF Init, History
<1> QED BY <1>1, <1>2, <1>3 DEF Init, IInv, HoldsTurn, QueuedOnce, QueuedInRange,
           QueuedNotRunning, OneWriterPerKey

\* prefetched has its type, which the snapshots of drain() rest on.
PrefetchTypes == prefetched \in SUBSET Prefetches

LEMMA NextIInv ==
    ASSUME IInv, PrefetchTypes, [Next]_vars
    PROVE  IInv'
<1> USE DEF IInv, quietVars
<1>1. ASSUME NEW w \in Workers, WorkerStep(w)
      PROVE  IInv'
  <2>1. CASE TakeWrite(w)
      BY <2>1, TakeWriteStep
  <2>2. CASE Rotate(w)
      BY <2>2, RotateStep
  <2>3. CASE ServePrefetch(w)
    <3>1. /\ Types'
          /\ \A v \in Workers : worker'[v].at = "write" => worker'[v] = worker[v]
        BY <2>3, WorkerShapes DEF ServePrefetch, TakePrefetch, Types
    <3> QED BY <3>1, <2>3, Frame DEF ServePrefetch
  <2>4. CASE EndWrite(w)
      BY <2>4, EndWriteStep
  <2>5. CASE EndPrefetch(w)
    <3>1. /\ Types'
          /\ \A v \in Workers : worker'[v].at = "write" => worker'[v] = worker[v]
        BY <2>5, WorkerShapes DEF EndPrefetch, Types
    <3> QED BY <3>1, <2>5, Frame DEF EndPrefetch
  <2>6. CASE Finish(w)
    <3>1. /\ Types'
          /\ \A v \in Workers : worker'[v].at = "write" => worker'[v] = worker[v]
        BY <2>6, WorkerShapes DEF Finish, Types
    <3> QED BY <3>1, <2>6, Frame DEF Finish
  <2>7. CASE Exit(w)
    <3>1. /\ Types'
          /\ \A v \in Workers : worker'[v].at = "write" => worker'[v] = worker[v]
        BY <2>7, WorkerShapes DEF Exit, Types
    <3> QED BY <3>1, <2>7, Frame DEF Exit
  <2> QED BY <1>1, <2>1, <2>2, <2>3, <2>4, <2>5, <2>6, <2>7 DEF WorkerStep
\* A call changes only the caller, unless it pushes.
<1>2. ASSUME NEW c \in Clients, NEW r \in ClientState, Call(c, r),
             UNCHANGED <<write_queue, prefetch_queue, next_seq, exec_seq, worker, quietVars>>
      PROVE  IInv'
  <2>1. Types'
      BY <1>2 DEF Call, Types
  <2> QED BY <2>1, <1>2, Frame
<1>3. \A x \in {"none", "join", "joined"} : [in |-> x] \in ClientState
    BY DEF ClientState
<1>4. ASSUME NEW c \in Clients, client[c].in \in {"submit", "blocked"},
             Push(c, client[c].key) \/ Refuse(c),
             UNCHANGED <<prefetch_queue, exec_seq, worker, quietVars>>
      PROVE  IInv'
  <2>1. client[c].key \in Keys
      BY <1>4, SubmittingTyped DEF Types
  <2>2. CASE Push(c, client[c].key)
      BY <2>1, <2>2, <1>4, PushStep
  <2>3. CASE Refuse(c)
      BY <2>3, <1>2, <1>3, <1>4 DEF Refuse, Out
  <2> QED BY <1>4, <2>2, <2>3
<1>5. ASSUME NEW c \in Clients, CallStep(c)
      PROVE  IInv'
  <2>1. CASE Admit(c)
      BY <2>1, <1>4 DEF Admit
  <2>2. CASE Throttle(c)
    <3>1. CASE Len(write_queue) >= High
      <4>1. [in |-> "blocked", key |-> client[c].key] \in ClientState
          BY <2>2, SubmittingTyped DEF Throttle, Types, ClientState
      <4> QED BY <4>1, <3>1, <2>2, <1>2 DEF Throttle
    <3>2. CASE ~(Len(write_queue) >= High)
        BY <3>2, <2>2, <1>4 DEF Throttle
    <3> QED BY <3>1, <3>2
  <2>3. CASE Unblock(c)
      BY <2>3, <1>4 DEF Unblock
  <2>4. CASE AdmitPrefetch(c)
    <3>1. client[c].dist \in Prefetches
        BY <2>4 DEF AdmitPrefetch, Types, ClientState
    <3>2. Types'
        BY <3>1, <2>4, <1>3 DEF AdmitPrefetch, Call, Types, Out
    <3> QED BY <3>2, <2>4, Frame DEF AdmitPrefetch
  <2>5. CASE EndDrain(c)
    <3>1. [in |-> "drained", seen |-> client[c].seen] \in ClientState
        BY <2>5 DEF EndDrain, Types, ClientState
    <3> QED BY <3>1, <2>5, <1>2 DEF EndDrain
  <2>6. CASE AfterDrain(c)
      BY <2>6, <1>2, <1>3 DEF AfterDrain, Out
  <2>7. CASE EndShutdown(c)
      BY <2>7, <1>2, <1>3 DEF EndShutdown
  <2> QED BY <1>5, <2>1, <2>2, <2>3, <2>4, <2>5, <2>6, <2>7 DEF CallStep
<1>6. ASSUME NEW c \in Clients, NewCall(c)
      PROVE  IInv'
  <2>1. ASSUME NEW k \in Keys, SubmitWrite(c, k)
        PROVE  IInv'
    <3>1. [in |-> "submit", key |-> k] \in ClientState
        BY DEF ClientState
    <3> QED BY <3>1, <2>1, <1>2 DEF SubmitWrite
  <2>2. ASSUME NEW d \in Prefetches, SubmitPrefetch(c, d)
        PROVE  IInv'
    <3>1. [in |-> "prefetch", dist |-> d] \in ClientState
        BY DEF ClientState
    <3> QED BY <3>1, <2>2, <1>2 DEF SubmitPrefetch
  <2>3. CASE StartDrain(c)
    <3>1. [in |-> "drain", seen |-> Accepted] \in ClientState
        BY SnapshotTyped DEF ClientState, PrefetchTypes
    <3> QED BY <3>1, <2>3, <1>2 DEF StartDrain
  <2>4. CASE StartShutdown(c)
      BY <2>4, <1>2, <1>3 DEF StartShutdown
  <2>5. CASE DrainTimeout(c)
    <3>1. [in |-> "timed_out", seen |-> client[c].seen] \in ClientState
        BY <2>5 DEF DrainTimeout, Types, ClientState
    <3> QED BY <3>1, <2>5, <1>2 DEF DrainTimeout
  <2> QED BY <1>6, <2>1, <2>2, <2>3, <2>4, <2>5 DEF NewCall
<1>7. CASE UNCHANGED vars
  <2>1. Types'
      BY <1>7 DEF vars, Types
  <2> QED BY <2>1, <1>7, Frame DEF vars
<1> QED BY <1>1, <1>5, <1>6, <1>7 DEF Next

LEMMA NextPrefetchTypes ==
    ASSUME IInv, PrefetchTypes, [Next]_vars
    PROVE  PrefetchTypes'
<1>1. ASSUME NEW w \in Workers, EndPrefetch(w)
      PROVE  PrefetchTypes'
    BY <1>1, PrefetchingTyped DEF EndPrefetch, PrefetchTypes, IInv, Types
<1> QED
    BY <1>1 DEF Next, WorkerStep, CallStep, NewCall, TakeWrite, Rotate, ServePrefetch,
       EndWrite, Finish, Exit, Admit, Throttle, Unblock, AdmitPrefetch, EndDrain,
       AfterDrain, EndShutdown, SubmitWrite, SubmitPrefetch, StartDrain, StartShutdown,
       DrainTimeout, quietVars, vars, PrefetchTypes

LEMMA Invariance == Spec => [](IInv /\ PrefetchTypes)
<1>1. Init => IInv /\ PrefetchTypes
    BY InitIInv DEF Init, PrefetchTypes
<1>2. IInv /\ PrefetchTypes /\ [Next]_vars => (IInv /\ PrefetchTypes)'
    BY NextIInv, NextPrefetchTypes
<1> QED BY <1>1, <1>2, PTL DEF Spec

(***************************************************************************)
(* For any number of workers, callers and keys, the writes of a (dataset,  *)
(* variable) pair run in submission order, none twice and none skipped.    *)
(***************************************************************************)
THEOREM WritesInOrder == Spec => []SubmissionOrder
<1>1. IInv => SubmissionOrder
    BY DEF IInv, History, SubmissionOrder
<1> QED BY <1>1, Invariance, PTL

(***************************************************************************)
(* No two workers are ever in a write callback of the same key: the order  *)
(* of exec_seq alone excludes it, the key's own mutex is never contended.  *)
(***************************************************************************)
THEOREM WritersExcluded == Spec => []OneWriterPerKey
<1>1. IInv => OneWriterPerKey
    BY DEF IInv
<1> QED BY <1>1, Invariance, PTL

-----------------------------------------------------------------------------
(* Every write and every drain is accounted for.  The numbers between      *)
(* exec_seq and next_seq are queued or running, in_flight_ counts the      *)
(* workers inside a task, what a drain saw only grows, and a worker that   *)
(* has gone left the queue empty for good when submitters test shutdown_   *)
(* under the lock.                                                         *)

NothingLost ==
    \A k \in Keys : \A s \in exec_seq[k] .. next_seq[k] - 1 :
        \/ \E i \in 1 .. Len(write_queue) : write_queue[i] = <<k, s>>
        \/ \E w \in Workers : worker[w] = Writing(k, s)

Busy == {w \in Workers : worker[w].at \in {"write", "prefetch", "finish"}}

InFlightExact == in_flight = Cardinality(Busy)

KnownPrefetches == Accepted.prefetches

DrainsSee ==
    \A c \in Clients :
        /\ client[c].in = "drain" =>
              /\ \A k \in Keys : client[c].seen.writes[k] <= next_seq[k]
              /\ client[c].seen.prefetches \subseteq KnownPrefetches
        /\ client[c].in = "drained" => Covers(client[c].seen)

GoneForGood ==
    \A w \in Workers : worker[w].at = "exited" => shutdown /\ (backpressure => write_queue = <<>>)

Accounting == PrefetchTypes /\ NothingLost /\ InFlightExact /\ DrainsSee /\ GoneForGood

LEMMA WorkerStates ==
    ASSUME NEW x \in WorkerState
    PROVE  /\ x.at = "idle" <=> x = Idle
           /\ x.at = "finish" <=> x = Finishing
           /\ x.at = "exited" <=> x = Exited
           /\ x.at = "write" => x = Writing(x.key, x.seq)
           /\ x.at = "prefetch" => x = Prefetching(x.dist) /\ x.dist \in Prefetches
           /\ x.at \in {"idle", "finish", "exited", "write", "prefetch"}
BY DEF WorkerState, Idle, Finishing, Exited, Writing, Prefetching

LEMMA Distances == \A d, e : Prefetching(d) = Prefetching(e) => d = e
<1> SUFFICES ASSUME NEW d, NEW e, Prefetching(d) = Prefetching(e) PROVE d = e
    OBVIOUS
<1>1. Prefetching(d).dist = d /\ Prefetching(e).dist = e
    BY DEF Prefetching
<1> QED BY <1>1

LEMMA KnownMeans ==
    KnownPrefetches = prefetch_queue \cup prefetched \cup
                          {d \in Prefetches : \E w \in Workers : worker[w] = Prefetching(d)}
BY DEF KnownPrefetches, Accepted

\* What a thread that calls the pool may change: it queues at most one write,
\* and after shutdown_ none under backpressure; a drain remembers what was
\* accepted when it started, and ends when its predicate holds.
Accepts(k) == /\ write_queue' = Append(write_queue, <<k, next_seq[k]>>)
              /\ next_seq' = [next_seq EXCEPT ![k] = @ + 1]
              /\ backpressure => ~shutdown

CallerEffect ==
    /\ UNCHANGED <<worker, in_flight, exec_seq, quietVars>>
    /\ shutdown => shutdown'
    /\ prefetch_queue \subseteq prefetch_queue'
    /\ UNCHANGED <<write_queue, next_seq>> \/ \E k \in Keys : Accepts(k)
    /\ \A o \in Clients :
         /\ client'[o].in = "drain" => client'[o] = client[o] \/ client'[o].seen = Accepted
         /\ client'[o].in = "drained" => \/ client'[o] = client[o]
                                         \/ /\ client[o].in = "drain" /\ Drained
                                            /\ client'[o].seen = client[o].seen
                                            /\ UNCHANGED <<write_queue, next_seq>>

LEMMA CallerSteps ==
    ASSUME IInv, NEW c \in Clients, CallStep(c) \/ NewCall(c)
    PROVE  CallerEffect
<1> USE DEF quietVars
<1>1. client \in [Clients -> ClientState]
    BY DEF IInv, Types
<1>2. \A r : Call(c, r) => \A o \in Clients : client'[o] = IF o = c THEN r ELSE client[o]
    BY <1>1 DEF Call
<1>3. Out.in = "none"
    BY DEF Out
<1>4. ASSUME client[c].in \in {"submit", "blocked"}, Push(c, client[c].key), backpressure => ~shutdown,
             UNCHANGED <<prefetch_queue, exec_seq, in_flight, shutdown, worker, quietVars>>
      PROVE  CallerEffect
  <2>1. client[c].key \in Keys
      BY <1>1, <1>4, SubmittingTyped
  <2>2. Accepts(client[c].key)
      BY <1>4 DEF Push, Accepts
  <2>3. \A o \in Clients : client'[o] = IF o = c THEN Out ELSE client[o]
      BY <1>2, <1>4 DEF Push
  <2> QED BY <2>1, <2>2, <2>3, <1>3, <1>4 DEF CallerEffect
\* The caller moves on, and is not in drain().
<1> DEFINE Moves(r) == /\ Call(c, r)
                       /\ r.in \notin {"drain", "drained"}
                       /\ UNCHANGED <<write_queue, next_seq, worker, in_flight, exec_seq, quietVars>>
                       /\ prefetch_queue \subseteq prefetch_queue' /\ (shutdown => shutdown')
<1>5. ASSUME NEW r, Moves(r) PROVE CallerEffect
  <2>1. \A o \in Clients : client'[o] = IF o = c THEN r ELSE client[o]
      BY <1>2, <1>5
  <2> QED BY <2>1, <1>5 DEF CallerEffect
<1>6. CASE Admit(c)
  <2>1. CASE Refuse(c)
    <3>1. Moves(Out)
        BY <2>1, <1>3, <1>6 DEF Admit, Refuse
    <3> QED BY <3>1, <1>5
  <2> QED BY <2>1, <1>4, <1>6 DEF Admit
<1>7. CASE Throttle(c)
  <2>1. CASE Refuse(c)
    <3>1. Moves(Out)
        BY <2>1, <1>3, <1>7 DEF Throttle, Refuse
    <3> QED BY <3>1, <1>5
  <2>2. CASE Len(write_queue) >= High
    <3>1. Moves([in |-> "blocked", key |-> client[c].key])
        BY <2>2, <1>7 DEF Throttle
    <3> QED BY <3>1, <1>5
  <2> QED BY <2>1, <2>2, <1>4, <1>7 DEF Throttle
<1>8. CASE Unblock(c)
  <2>1. CASE Refuse(c)
    <3>1. Moves(Out)
        BY <2>1, <1>3, <1>8 DEF Unblock, Refuse
    <3> QED BY <3>1, <1>5
  <2> QED BY <2>1, <1>4, <1>8 DEF Unblock
<1>9. CASE AdmitPrefetch(c) \/ AfterDrain(c)
  <2>1. Moves(Out)
      BY <1>3, <1>9 DEF AdmitPrefetch, AfterDrain
  <2> QED BY <2>1, <1>5
<1>10. CASE EndDrain(c)
  <2> DEFINE r == [in |-> "drained", seen |-> client[c].seen]
  <2>1. r.in = "drained" /\ r.seen = client[c].seen
      OBVIOUS
  <2>2. Call(c, r)
      BY <1>10 DEF EndDrain
  <2> HIDE DEF r
  <2>3. \A o \in Clients : client'[o] = IF o = c THEN r ELSE client[o]
      BY <1>2, <2>2
  <2> QED BY <2>1, <2>3, <1>10 DEF EndDrain, CallerEffect
<1>11. CASE EndShutdown(c)
  <2>1. Moves([in |-> "joined"])
      BY <1>11 DEF EndShutdown
  <2> QED BY <2>1, <1>5
<1>12. ASSUME NEW k \in Keys, SubmitWrite(c, k) PROVE CallerEffect
  <2>1. Moves([in |-> "submit", key |-> k])
      BY <1>12 DEF SubmitWrite
  <2> QED BY <2>1, <1>5
<1>13. ASSUME NEW d \in Prefetches, SubmitPrefetch(c, d) PROVE CallerEffect
  <2>1. Moves([in |-> "prefetch", dist |-> d])
      BY <1>13 DEF SubmitPrefetch
  <2> QED BY <2>1, <1>5
<1>14. CASE StartDrain(c)
  <2> DEFINE r == [in |-> "drain", seen |-> Accepted]
  <2>1. r.in = "drain" /\ r.seen = Accepted
      OBVIOUS
  <2>2. Call(c, r)
      BY <1>14 DEF StartDrain
  <2> HIDE DEF r
  <2>3. \A o \in Clients : client'[o] = IF o = c THEN r ELSE client[o]
      BY <1>2, <2>2
  <2> QED BY <2>1, <2>3, <1>14 DEF StartDrain, CallerEffect
<1>15. CASE StartShutdown(c)
  <2>1. Moves([in |-> "join"])
      BY <1>15 DEF StartShutdown
  <2> QED BY <2>1, <1>5
<1>16. CASE DrainTimeout(c)
  <2>1. Moves([in |-> "timed_out", seen |-> client[c].seen])
      BY <1>16 DEF DrainTimeout
  <2> QED BY <2>1, <1>5
<1> QED BY <1>6, <1>7, <1>8, <1>9, <1>10, <1>11, <1>12, <1>13, <1>14, <1>15, <1>16
        DEF CallStep, NewCall

LEMMA CallerAccounts ==
    ASSUME IInv, Accounting, CallerEffect
    PROVE  Accounting'
<1> USE DEF quietVars
<1>1. /\ write_queue \in Seq(Tasks)
      /\ \A k \in Keys : next_seq[k] \in Nat /\ exec_seq[k] \in Nat /\ exec_seq[k] <= next_seq[k]
                         /\ Len(executed[k]) = exec_seq[k]
      /\ \A w \in Workers : worker[w] \in WorkerState
    BY DEF IInv, Types, History
<1>2. UNCHANGED <<worker, in_flight, exec_seq, executed, prefetched, backpressure>>
    BY DEF CallerEffect
<1>3. \A k \in Keys : next_seq[k] <= next_seq'[k]
  <2>1. CASE next_seq' = next_seq
      BY <2>1, <1>1
  <2>2. ASSUME NEW j \in Keys, Accepts(j) PROVE \A k \in Keys : next_seq[k] <= next_seq'[k]
    <3>1. \A k \in Keys : next_seq'[k] = IF k = j THEN next_seq[k] + 1 ELSE next_seq[k]
        BY <2>2 DEF Accepts, IInv, Types
    <3> QED BY <3>1, <1>1
  <2> QED BY <2>1, <2>2 DEF CallerEffect
<1>4. KnownPrefetches \subseteq KnownPrefetches'
    BY <1>2 DEF CallerEffect, KnownPrefetches, Accepted
<1>5. PrefetchTypes' /\ InFlightExact'
    BY <1>2 DEF Accounting, PrefetchTypes, InFlightExact, Busy
<1>6. NothingLost'
  <2>1. CASE UNCHANGED <<write_queue, next_seq>>
      BY <2>1, <1>2 DEF Accounting, NothingLost
  <2>2. ASSUME NEW j \in Keys, Accepts(j) PROVE NothingLost'
    <3>0. <<j, next_seq[j]>> \in Tasks
        BY <1>1 DEF Tasks
    <3>1. /\ Len(write_queue') = Len(write_queue) + 1
          /\ \A i \in 1 .. Len(write_queue) : write_queue'[i] = write_queue[i]
          /\ write_queue'[Len(write_queue) + 1] = <<j, next_seq[j]>>
          /\ Len(write_queue) \in Nat
        BY <3>0, <2>2, <1>1 DEF Accepts
    <3>2. \A k \in Keys : next_seq'[k] = IF k = j THEN next_seq[k] + 1 ELSE next_seq[k]
        BY <2>2 DEF Accepts, IInv, Types
    <3> SUFFICES ASSUME NEW k \in Keys, NEW s \in exec_seq'[k] .. next_seq'[k] - 1
                 PROVE  \/ \E i \in 1 .. Len(write_queue') : write_queue'[i] = <<k, s>>
                        \/ \E w \in Workers : worker'[w] = Writing(k, s)
        BY DEF NothingLost
    <3>3. CASE k = j /\ s = next_seq[j]
        BY <3>1, <3>3
    <3>4. CASE ~(k = j /\ s = next_seq[j])
      <4>1. s \in exec_seq[k] .. next_seq[k] - 1
          BY <3>2, <3>4, <1>1, <1>2
      <4>2. \/ \E i \in 1 .. Len(write_queue) : write_queue[i] = <<k, s>>
            \/ \E w \in Workers : worker[w] = Writing(k, s)
          BY <4>1 DEF Accounting, NothingLost
      <4> QED BY <4>2, <3>1, <1>2
    <3> QED BY <3>3, <3>4
  <2> QED BY <2>1, <2>2 DEF CallerEffect
<1>7. DrainsSee'
  <2> SUFFICES ASSUME NEW c \in Clients
               PROVE  /\ client'[c].in = "drain" =>
                            /\ \A k \in Keys : client'[c].seen.writes[k] <= next_seq'[k]
                            /\ client'[c].seen.prefetches \subseteq KnownPrefetches'
                      /\ client'[c].in = "drained" => Covers(client[c].seen)'
      BY DEF DrainsSee
  <2>1. client[c] \in ClientState /\ client'[c].seen = client'[c].seen
      BY DEF IInv, Types
  <2>2. ASSUME client'[c].in = "drain"
        PROVE  /\ \A k \in Keys : client'[c].seen.writes[k] <= next_seq'[k]
               /\ client'[c].seen.prefetches \subseteq KnownPrefetches'
    <3>1. CASE client'[c] = client[c]
      <4>1. /\ \A k \in Keys : client[c].seen.writes[k] <= next_seq[k]
            /\ client[c].seen.prefetches \subseteq KnownPrefetches
          BY <2>2, <3>1 DEF Accounting, DrainsSee
      <4>2. \A k \in Keys : client[c].seen.writes[k] \in Nat
          BY <2>1, <2>2, <3>1 DEF ClientState, Snapshot
      <4>3. \A k \in Keys : next_seq'[k] \in Nat
        <5>1. CASE next_seq' = next_seq
            BY <5>1, <1>1
        <5>2. ASSUME NEW j \in Keys, Accepts(j) PROVE \A k \in Keys : next_seq'[k] \in Nat
            BY <5>2 DEF Accepts, IInv, Types
        <5> QED BY <5>1, <5>2 DEF CallerEffect
      <4>4. \A k \in Keys : client[c].seen.writes[k] <= next_seq'[k]
          BY <4>1, <4>2, <4>3, <1>1, <1>3
      <4> QED BY <4>1, <4>4, <3>1, <1>4
    <3>2. CASE client'[c].seen = Accepted
      <4>1. Accepted.writes = next_seq /\ Accepted.prefetches = KnownPrefetches
          BY DEF Accepted, KnownPrefetches
      <4> QED BY <4>1, <3>2, <1>3, <1>4
    <3> QED BY <2>2, <3>1, <3>2 DEF CallerEffect
  <2>3. ASSUME client'[c].in = "drained" PROVE Covers(client[c].seen)'
    <3>1. CASE client'[c] = client[c]
        BY <2>3, <3>1, <1>2 DEF Accounting, DrainsSee, Covers
    <3>2. CASE /\ client[c].in = "drain" /\ Drained /\ client'[c].seen = client[c].seen
               /\ UNCHANGED <<write_queue, next_seq>>
      <4>1. /\ \A k \in Keys : client[c].seen.writes[k] <= next_seq[k] /\ client[c].seen.writes[k] \in Nat
            /\ client[c].seen.prefetches \subseteq KnownPrefetches
          BY <2>1, <3>2 DEF Accounting, DrainsSee, ClientState, Snapshot
      <4>2. Busy = {}
        <5>1. IsFiniteSet(Busy)
            BY PoolAssumption, FS_Subset DEF Busy
        <5>2. Cardinality(Busy) = 0
            BY <3>2 DEF Drained, Accounting, InFlightExact
        <5> QED BY <5>1, <5>2, FS_EmptySet
      <4>3. \A w \in Workers : worker[w].at \notin {"write", "prefetch"}
          BY <4>2 DEF Busy
      <4>4. \A k, s : \A w \in Workers : worker[w] # Writing(k, s) /\ worker[w] # Prefetching(s)
          BY <4>3, WorkerShapes
      <4>5. \A k \in Keys : next_seq[k] = exec_seq[k]
        <5> SUFFICES ASSUME NEW k \in Keys, next_seq[k] # exec_seq[k] PROVE FALSE
            OBVIOUS
        <5>1. exec_seq[k] \in exec_seq[k] .. next_seq[k] - 1
            BY <1>1
        <5>2. Len(write_queue) = 0
            BY <3>2 DEF Drained
        <5> QED BY <5>1, <5>2, <4>4 DEF Accounting, NothingLost
      <4>6. KnownPrefetches \subseteq prefetched
          BY <4>4, <3>2, KnownMeans DEF Drained
      <4>7. Covers(client[c].seen)
          BY <4>1, <4>5, <4>6, <1>1 DEF Covers
      <4> QED BY <4>7, <3>2, <1>2 DEF Covers
    <3> QED BY <2>3, <3>1, <3>2 DEF CallerEffect
  <2> QED BY <2>2, <2>3
<1>8. GoneForGood'
  <2> SUFFICES ASSUME NEW w \in Workers, worker[w].at = "exited"
               PROVE  shutdown' /\ (backpressure => write_queue' = <<>>)
      BY <1>2 DEF GoneForGood
  <2>1. shutdown /\ (backpressure => write_queue = <<>>)
      BY DEF Accounting, GoneForGood
  <2>2. backpressure => UNCHANGED write_queue
      BY <2>1 DEF CallerEffect, Accepts
  <2> QED BY <2>1, <2>2 DEF CallerEffect
<1> QED BY <1>5, <1>6, <1>7, <1>8 DEF Accounting

\* in_flight_ over a worker that starts or ends a task, or neither.
LEMMA InFlightStep ==
    ASSUME IInv, InFlightExact, NEW w \in Workers, NEW x \in WorkerState,
           worker' = [worker EXCEPT ![w] = x],
           \/ w \notin Busy /\ x.at \in {"write", "prefetch"} /\ in_flight' = in_flight + 1
           \/ w \in Busy /\ x.at = "finish" /\ in_flight' = in_flight
           \/ w \in Busy /\ x.at = "idle" /\ in_flight' = in_flight - 1
           \/ w \notin Busy /\ x.at = "exited" /\ in_flight' = in_flight
    PROVE  InFlightExact'
<1>1. \A v \in Workers : worker'[v] = IF v = w THEN x ELSE worker[v]
    BY DEF IInv, Types
<1>2. IsFiniteSet(Busy)
    BY PoolAssumption, FS_Subset DEF Busy
<1>3. Cardinality(Busy) \in Nat
    BY <1>2, FS_CardinalityType
<1>4. CASE w \notin Busy /\ x.at \in {"write", "prefetch"} /\ in_flight' = in_flight + 1
  <2>1. Busy' = Busy \cup {w}
      BY <1>1, <1>4 DEF Busy
  <2> QED BY <2>1, <1>2, <1>3, <1>4, FS_AddElement DEF InFlightExact
<1>5. CASE w \in Busy /\ x.at = "idle" /\ in_flight' = in_flight - 1
  <2>1. Busy' = Busy \ {w}
      BY <1>1, <1>5 DEF Busy
  <2> QED BY <2>1, <1>2, <1>3, <1>5, FS_RemoveElement DEF InFlightExact
<1>6. CASE \/ w \in Busy /\ x.at = "finish" /\ in_flight' = in_flight
           \/ w \notin Busy /\ x.at = "exited" /\ in_flight' = in_flight
  <2>1. Busy' = Busy
      BY <1>1, <1>6 DEF Busy
  <2> QED BY <2>1, <1>6 DEF InFlightExact
<1> QED BY <1>4, <1>5, <1>6

\* What a drain has seen stays covered while workers only add to what is done.
LEMMA DrainsFrame ==
    ASSUME IInv, DrainsSee, UNCHANGED <<client, next_seq>>,
           KnownPrefetches \subseteq KnownPrefetches', prefetched \subseteq prefetched',
           \A k \in Keys : Len(executed'[k]) \in Nat /\ Len(executed[k]) <= Len(executed'[k])
    PROVE  DrainsSee'
<1>1. \A k \in Keys : Len(executed[k]) \in Nat
    BY DEF IInv, Types
<1>2. \A c \in Clients : client[c].in = "drained" => \A k \in Keys : client[c].seen.writes[k] \in Nat
    BY DEF IInv, Types, ClientState, Snapshot
<1>3. ASSUME NEW c \in Clients, client[c].in = "drained" PROVE Covers(client[c].seen)'
    BY <1>1, <1>2, <1>3 DEF DrainsSee, Covers
<1> QED BY <1>3 DEF DrainsSee

LEMMA TakesPrefetch ==
    ASSUME IInv, Accounting, NEW w \in Workers, worker[w] = Idle, prefetch_queue # {}, TakePrefetch(w),
           UNCHANGED prefetched
    PROVE  /\ KnownPrefetches \subseteq KnownPrefetches'
           /\ InFlightExact'
           /\ \A v \in Workers : worker'[v] = worker[v] \/ (worker[v] = Idle /\ worker'[v].at = "prefetch")
<1>1. PICK d \in prefetch_queue : /\ prefetch_queue' = prefetch_queue \ {d}
                                  /\ worker' = [worker EXCEPT ![w] = Prefetching(d)]
                                  /\ in_flight' = in_flight + 1
    BY DEF TakePrefetch
<1>2. d \in Prefetches /\ Prefetching(d) \in WorkerState /\ Prefetching(d).at = "prefetch" /\ Idle.at = "idle"
    BY WorkerShapes DEF IInv, Types
<1>3. \A v \in Workers : worker'[v] = IF v = w THEN Prefetching(d) ELSE worker[v]
    BY <1>1 DEF IInv, Types
<1>4. \A e : Idle # Prefetching(e)
    BY WorkerShapes
<1>5. KnownPrefetches \subseteq KnownPrefetches'
  <2> SUFFICES ASSUME NEW e \in KnownPrefetches PROVE e \in KnownPrefetches'
      OBVIOUS
  <2>1. CASE e \in prefetch_queue \cup prefetched
      BY <2>1, <1>1, <1>2, <1>3 DEF KnownPrefetches, Accepted
  <2>2. CASE e \in Prefetches /\ \E v \in Workers : worker[v] = Prefetching(e)
      BY <2>2, <1>3, <1>4 DEF KnownPrefetches, Accepted
  <2> QED BY <2>1, <2>2, KnownMeans
<1>6. w \notin Busy
    BY <1>2 DEF Busy
<1>7. InFlightExact'
    BY <1>1, <1>2, <1>6, InFlightStep DEF Accounting
<1> QED BY <1>2, <1>3, <1>5, <1>7

LEMMA TakeWriteAccounts ==
    ASSUME IInv, Accounting, NEW w \in Workers, TakeWrite(w)
    PROVE  Accounting'
<1> USE DEF quietVars
<1> DEFINE h == Head(write_queue)
<1>1. /\ write_queue \in Seq(Tasks) /\ Len(write_queue) \in Nat \ {0}
      /\ h = write_queue[1] /\ h \in Tasks
    BY DEF TakeWrite, IInv, Types
<1>2. h = <<h[1], h[2]>> /\ h[1] \in Keys /\ h[2] \in Nat
    BY <1>1 DEF Tasks
<1>3. /\ Len(write_queue') = Len(write_queue) - 1
      /\ \A i \in 1 .. Len(write_queue') : write_queue'[i] = write_queue[i + 1]
    BY <1>1 DEF TakeWrite
<1> HIDE DEF h
<1>4. /\ worker[w] = Idle /\ worker' = [worker EXCEPT ![w] = Writing(h[1], h[2])]
      /\ in_flight' = in_flight + 1
      /\ UNCHANGED <<prefetch_queue, next_seq, exec_seq, shutdown, client, backpressure, executed, prefetched>>
    BY DEF TakeWrite, h
<1>5. \A v \in Workers : worker'[v] = IF v = w THEN Writing(h[1], h[2]) ELSE worker[v]
    BY <1>4 DEF IInv, Types
<1>6. /\ Writing(h[1], h[2]) \in WorkerState /\ Writing(h[1], h[2]).at = "write"
      /\ Idle.at = "idle" /\ w \notin Busy
      /\ \A k, s : Idle # Writing(k, s) /\ Idle # Prefetching(s)
    BY <1>2, <1>4, WorkerShapes DEF Busy
<1>7. InFlightExact'
    BY <1>4, <1>6, InFlightStep DEF Accounting
<1>8. NothingLost'
  <2> SUFFICES ASSUME NEW k \in Keys, NEW s \in exec_seq[k] .. next_seq[k] - 1
               PROVE  \/ \E i \in 1 .. Len(write_queue') : write_queue'[i] = <<k, s>>
                      \/ \E v \in Workers : worker'[v] = Writing(k, s)
      BY <1>4 DEF NothingLost
  <2>1. CASE \E i \in 1 .. Len(write_queue) : write_queue[i] = <<k, s>>
    <3>1. PICK i \in 1 .. Len(write_queue) : write_queue[i] = <<k, s>>
        BY <2>1
    <3>2. CASE i = 1
      <4>1. h[1] = k /\ h[2] = s
          BY <3>1, <3>2, <1>1
      <4> QED BY <4>1, <1>5
    <3>3. CASE i # 1
      <4>1. i - 1 \in 1 .. Len(write_queue') /\ write_queue'[i - 1] = write_queue[i]
          BY <3>3, <1>1, <1>3
      <4> QED BY <4>1, <3>1
    <3> QED BY <3>2, <3>3
  <2>2. CASE \E v \in Workers : worker[v] = Writing(k, s)
      BY <2>2, <1>4, <1>5, <1>6
  <2> QED BY <2>1, <2>2 DEF Accounting, NothingLost
<1>9. KnownPrefetches \subseteq KnownPrefetches'
    BY <1>4, <1>5, <1>6 DEF KnownPrefetches, Accepted
<1>10. DrainsSee'
    BY <1>4, <1>9, DrainsFrame DEF Accounting, IInv, Types
<1>11. GoneForGood'
    BY <1>1, <1>4, <1>5, <1>6 DEF Accounting, GoneForGood, TakeWrite
<1> QED BY <1>4, <1>7, <1>8, <1>10, <1>11 DEF Accounting, PrefetchTypes

LEMMA RotateAccounts ==
    ASSUME IInv, Accounting, NEW w \in Workers, Rotate(w) \/ ServePrefetch(w)
    PROVE  Accounting'
<1> USE DEF quietVars
<1>1. /\ worker[w] = Idle
      /\ UNCHANGED <<next_seq, exec_seq, shutdown, client, backpressure, executed, prefetched>>
    BY DEF Rotate, ServePrefetch
<1>2. /\ KnownPrefetches \subseteq KnownPrefetches'
      /\ InFlightExact'
      /\ \A v \in Workers : worker'[v] = worker[v] \/ (worker[v] = Idle /\ worker'[v].at = "prefetch")
  <2>1. CASE prefetch_queue # {} /\ TakePrefetch(w)
      BY <2>1, <1>1, TakesPrefetch
  <2>2. CASE UNCHANGED <<prefetch_queue, worker, in_flight>>
      BY <2>2, <1>1 DEF KnownPrefetches, Accepted, Accounting, InFlightExact, Busy
  <2> QED BY <2>1, <2>2 DEF Rotate, ServePrefetch
<1>3. \A k, s : \A v \in Workers : worker[v] = Writing(k, s) => worker'[v] = Writing(k, s)
    BY <1>2, WorkerShapes
<1>4. /\ write_queue = <<>> <=> write_queue' = <<>>
      /\ \A i \in 1 .. Len(write_queue) : \E j \in 1 .. Len(write_queue') : write_queue'[j] = write_queue[i]
  <2>1. CASE write_queue' = write_queue
      BY <2>1
  <2>2. CASE Rotate(w)
    <3>1. /\ Tail(write_queue) \in Seq(Tasks) /\ Head(write_queue) \in Tasks
          /\ Head(write_queue) = write_queue[1] /\ write_queue # <<>>
          /\ Len(write_queue) \in Nat \ {0} /\ Len(Tail(write_queue)) = Len(write_queue) - 1
          /\ \A i \in 1 .. Len(write_queue) - 1 : Tail(write_queue)[i] = write_queue[i + 1]
        BY <2>2 DEF Rotate, IInv, Types
    <3>2. write_queue' = Append(Tail(write_queue), Head(write_queue))
        BY <2>2 DEF Rotate, Requeued
    <3>3. /\ Len(write_queue') = Len(write_queue)
          /\ write_queue'[Len(write_queue)] = write_queue[1]
          /\ \A i \in 1 .. Len(write_queue) - 1 : write_queue'[i] = write_queue[i + 1]
        BY <3>1, <3>2
    <3>4. ASSUME NEW i \in 1 .. Len(write_queue)
          PROVE  \E j \in 1 .. Len(write_queue') : write_queue'[j] = write_queue[i]
      <4>1. CASE i = 1
          BY <4>1, <3>1, <3>3
      <4>2. CASE i # 1
        <5>1. i - 1 \in 1 .. Len(write_queue) - 1 /\ write_queue'[i - 1] = write_queue[i]
            BY <4>2, <3>1, <3>3
        <5> QED BY <5>1, <3>1, <3>3
      <4> QED BY <4>1, <4>2
    <3>5. write_queue' # <<>>
        BY <3>1, <3>3
    <3> QED BY <3>1, <3>4, <3>5
  <2> QED BY <2>1, <2>2 DEF ServePrefetch
<1>5. NothingLost'
  <2> SUFFICES ASSUME NEW k \in Keys, NEW s \in exec_seq[k] .. next_seq[k] - 1
               PROVE  \/ \E i \in 1 .. Len(write_queue') : write_queue'[i] = <<k, s>>
                      \/ \E v \in Workers : worker'[v] = Writing(k, s)
      BY <1>1 DEF NothingLost
  <2>1. \/ \E i \in 1 .. Len(write_queue) : write_queue[i] = <<k, s>>
        \/ \E v \in Workers : worker[v] = Writing(k, s)
      BY DEF Accounting, NothingLost
  <2> QED BY <2>1, <1>3, <1>4
<1>6. DrainsSee'
    BY <1>1, <1>2, DrainsFrame DEF Accounting, IInv, Types
<1>7. GoneForGood'
    BY <1>1, <1>2, <1>4, WorkerShapes DEF Accounting, GoneForGood
<1> QED BY <1>1, <1>2, <1>5, <1>6, <1>7 DEF Accounting, PrefetchTypes

LEMMA EndWriteAccounts ==
    ASSUME IInv, Accounting, NEW w \in Workers, EndWrite(w)
    PROVE  Accounting'
<1> USE DEF quietVars
<1>0. PICK j \in Keys : j = worker[w].key
    BY WritingTyped DEF EndWrite, IInv, Types
<1>1. /\ worker[w].at = "write" /\ worker[w].seq = exec_seq[j] /\ worker[w].seq \in Nat
      /\ worker[w] \in WorkerState
    BY <1>0, WritingTyped DEF EndWrite, IInv, Types, HoldsTurn
<1>2. /\ worker' = [worker EXCEPT ![w] = Finishing]
      /\ UNCHANGED <<write_queue, prefetch_queue, next_seq, in_flight, shutdown, client, backpressure, prefetched>>
    BY DEF EndWrite
<1>3. \A k \in Keys : /\ exec_seq[k] \in Nat /\ next_seq[k] \in Nat
                      /\ exec_seq'[k] = IF k = j THEN exec_seq[k] + 1 ELSE exec_seq[k]
    BY <1>0 DEF EndWrite, IInv, Types
<1>4. \A k \in Keys : Len(executed'[k]) \in Nat /\ Len(executed[k]) <= Len(executed'[k])
  <2> SUFFICES ASSUME NEW k \in Keys PROVE Len(executed'[k]) \in Nat /\ Len(executed[k]) <= Len(executed'[k])
      OBVIOUS
  <2>1. executed[k] \in Seq(Nat) /\ executed'[k] = IF k = j THEN Append(executed[k], worker[w].seq) ELSE executed[k]
      BY <1>0 DEF EndWrite, IInv, Types
  <2>2. CASE k # j
      BY <2>1, <2>2
  <2>3. CASE k = j
      BY <2>1, <2>3, <1>1
  <2> QED BY <2>2, <2>3
<1>5. \A v \in Workers : worker'[v] = IF v = w THEN Finishing ELSE worker[v]
    BY <1>2 DEF IInv, Types
<1>6. InFlightExact'
  <2>1. w \in Busy /\ Finishing \in WorkerState /\ Finishing.at = "finish"
      BY <1>1, WorkerShapes DEF Busy
  <2> QED BY <2>1, <1>2, InFlightStep DEF Accounting
<1>7. NothingLost'
  <2> SUFFICES ASSUME NEW k \in Keys, NEW s \in exec_seq'[k] .. next_seq[k] - 1
               PROVE  \/ \E i \in 1 .. Len(write_queue) : write_queue[i] = <<k, s>>
                      \/ \E v \in Workers : worker'[v] = Writing(k, s)
      BY <1>2 DEF NothingLost
  <2>1. s \in exec_seq[k] .. next_seq[k] - 1 /\ (k = j => s # exec_seq[k])
      BY <1>3
  <2>2. CASE \E v \in Workers : worker[v] = Writing(k, s)
    <3>1. PICK v \in Workers : worker[v] = Writing(k, s)
        BY <2>2
    <3>2. v # w
        BY <3>1, <2>1, <1>0, <1>1, WorkerShapes
    <3> QED BY <3>1, <3>2, <1>5
  <2> QED BY <2>1, <2>2 DEF Accounting, NothingLost
<1>8. KnownPrefetches \subseteq KnownPrefetches'
  <2>1. \A d : worker[w] # Prefetching(d)
      BY <1>1, WorkerShapes
  <2> QED BY <2>1, <1>2, <1>5 DEF KnownPrefetches, Accepted
<1>9. DrainsSee'
    BY <1>2, <1>4, <1>8, DrainsFrame DEF Accounting
<1>10. GoneForGood'
    BY <1>2, <1>5, WorkerShapes DEF Accounting, GoneForGood
<1> QED BY <1>2, <1>6, <1>7, <1>9, <1>10 DEF Accounting, PrefetchTypes

\* A prefetch ends, a worker comes back for more, or leaves.
LEMMA OtherAccounts ==
    ASSUME IInv, Accounting, NEW w \in Workers, EndPrefetch(w) \/ Finish(w) \/ Exit(w)
    PROVE  Accounting'
<1> USE DEF quietVars
<1>1. UNCHANGED <<write_queue, prefetch_queue, next_seq, exec_seq, shutdown, client, backpressure, executed>>
    BY DEF EndPrefetch, Finish, Exit
<1>2. PICK x \in {Idle, Finishing, Exited} : worker' = [worker EXCEPT ![w] = x]
    BY DEF EndPrefetch, Finish, Exit
<1>3. \A v \in Workers : worker'[v] = IF v = w THEN x ELSE worker[v]
    BY <1>2 DEF IInv, Types
<1>4. worker[w] \in WorkerState /\ worker[w].at # "write"
    BY WorkerShapes DEF EndPrefetch, Finish, Exit, IInv, Types
<1>5. InFlightExact'
  <2>1. CASE EndPrefetch(w)
    <3>1. w \in Busy /\ Finishing \in WorkerState /\ Finishing.at = "finish"
        BY <2>1, WorkerShapes DEF EndPrefetch, Busy
    <3> QED BY <3>1, <2>1, InFlightStep DEF Accounting, EndPrefetch
  <2>2. CASE Finish(w)
    <3>1. w \in Busy /\ Idle \in WorkerState /\ Idle.at = "idle"
        BY <2>2, WorkerShapes DEF Finish, Busy
    <3> QED BY <3>1, <2>2, InFlightStep DEF Accounting, Finish
  <2>3. CASE Exit(w)
    <3>1. w \notin Busy /\ Exited \in WorkerState /\ Exited.at = "exited"
        BY <2>3, WorkerShapes DEF Exit, Busy
    <3> QED BY <3>1, <2>3, InFlightStep DEF Accounting, Exit
  <2> QED BY <2>1, <2>2, <2>3
<1>6. NothingLost'
  <2>1. \A k, s : worker[w] # Writing(k, s)
      BY <1>4, WorkerShapes
  <2> SUFFICES ASSUME NEW k \in Keys, NEW s \in exec_seq[k] .. next_seq[k] - 1
               PROVE  \/ \E i \in 1 .. Len(write_queue) : write_queue[i] = <<k, s>>
                      \/ \E v \in Workers : worker'[v] = Writing(k, s)
      BY <1>1 DEF NothingLost
  <2>2. \/ \E i \in 1 .. Len(write_queue) : write_queue[i] = <<k, s>>
        \/ \E v \in Workers : worker[v] = Writing(k, s)
      BY DEF Accounting, NothingLost
  <2> QED BY <2>1, <2>2, <1>3
<1>7. PrefetchTypes' /\ prefetched \subseteq prefetched' /\ KnownPrefetches \subseteq KnownPrefetches'
  <2>1. CASE EndPrefetch(w)
    <3>1. worker[w] = Prefetching(worker[w].dist) /\ worker[w].dist \in Prefetches
        BY <2>1, <1>4, WorkerStates DEF EndPrefetch
    <3>2. prefetched' = prefetched \cup {worker[w].dist}
        BY <2>1 DEF EndPrefetch
    <3>3. \A d : worker[w] = Prefetching(d) => d = worker[w].dist
        BY <3>1, Distances
    <3>4. KnownPrefetches \subseteq KnownPrefetches'
        BY <3>2, <3>3, <1>1, <1>3 DEF KnownPrefetches, Accepted
    <3> QED BY <3>1, <3>2, <3>4 DEF Accounting, PrefetchTypes
  <2>2. CASE Finish(w) \/ Exit(w)
    <3>1. prefetched' = prefetched
        BY <2>2 DEF Finish, Exit
    <3>2. \A d : worker[w] # Prefetching(d)
        BY <2>2, WorkerShapes DEF Finish, Exit
    <3>3. KnownPrefetches \subseteq KnownPrefetches'
        BY <3>1, <3>2, <1>1, <1>3 DEF KnownPrefetches, Accepted
    <3> QED BY <3>1, <3>3 DEF Accounting, PrefetchTypes
  <2> QED BY <2>1, <2>2
<1>8. DrainsSee'
    BY <1>1, <1>7, DrainsFrame DEF Accounting, IInv, Types
<1>9. GoneForGood'
  <2>1. x = Exited => shutdown /\ write_queue = <<>>
    <3>1. CASE Exit(w)
        BY <3>1 DEF Exit, MayExit
    <3>2. CASE EndPrefetch(w) \/ Finish(w)
      <4>1. worker'[w] # Exited
          BY <3>2, WorkerShapes DEF EndPrefetch, Finish, IInv, Types
      <4> QED BY <4>1, <1>3
    <3> QED BY <3>1, <3>2
  <2>2. x.at = "exited" => x = Exited
      BY <1>2, WorkerShapes
  <2> QED BY <2>1, <2>2, <1>1, <1>3 DEF Accounting, GoneForGood
<1> QED BY <1>5, <1>6, <1>7, <1>8, <1>9 DEF Accounting

LEMMA AccountingInvariant == Spec => [](IInv /\ Accounting)
<1>1. Init => IInv /\ Accounting
  <2> SUFFICES ASSUME Init PROVE Accounting
      BY InitIInv
  <2>1. Busy = {}
      BY WorkerShapes DEF Init, Busy
  <2>2. InFlightExact
      BY <2>1, FS_EmptySet DEF Init, InFlightExact
  <2>3. NothingLost /\ PrefetchTypes /\ DrainsSee /\ GoneForGood
      BY WorkerShapes DEF Init, NothingLost, PrefetchTypes, DrainsSee, GoneForGood, Out
  <2> QED BY <2>2, <2>3 DEF Accounting
<1>2. IInv /\ Accounting /\ [Next]_vars => (IInv /\ Accounting)'
  <2> SUFFICES ASSUME IInv, Accounting, [Next]_vars PROVE IInv' /\ Accounting'
      OBVIOUS
  <2>1. IInv'
      BY NextIInv DEF Accounting
  <2>2. ASSUME NEW w \in Workers, WorkerStep(w) PROVE Accounting'
      BY <2>2, TakeWriteAccounts, RotateAccounts, EndWriteAccounts, OtherAccounts DEF WorkerStep
  <2>3. ASSUME NEW c \in Clients, CallStep(c) \/ NewCall(c) PROVE Accounting'
      BY <2>3, CallerSteps, CallerAccounts
  <2>4. CASE UNCHANGED vars
      BY <2>1, <2>4 DEF vars, quietVars, Accounting, PrefetchTypes, NothingLost, InFlightExact, Busy, DrainsSee,
                  Covers, KnownPrefetches, Accepted, GoneForGood
  <2>5. CASE Next
      BY <2>1, <2>2, <2>3, <2>5 DEF Next
  <2> QED BY <2>1, <2>4, <2>5
<1> QED BY <1>1, <1>2, PTL DEF Spec

\* A number handed out is in one place.
LEMMA OnePlaceEach ==
    ASSUME IInv, NothingLost, NEW k \in Keys, NEW s \in 0 .. next_seq[k] - 1
    PROVE  \E p : Places(k, s) = {p}
<1> DEFINE Q == {i \in 1 .. Len(write_queue) : write_queue[i] = <<k, s>>}
           W == {w \in Workers : worker[w] = Writing(k, s)}
           D == {i \in 1 .. Len(executed[k]) : executed[k][i] = s}
<1>1. /\ exec_seq[k] \in Nat /\ next_seq[k] \in Nat /\ s \in Nat
      /\ Len(executed[k]) = exec_seq[k]
      /\ \A i \in 1 .. Len(executed[k]) : executed[k][i] = i - 1
    BY DEF IInv, Types, History
<1>2. Places(k, s) = {<<"queue", i>> : i \in Q} \cup {<<"worker", w>> : w \in W} \cup {<<"done", i>> : i \in D}
    BY DEF Places
<1>3. \A i \in Q : exec_seq[k] <= s /\ Q = {i} /\ W = {}
  <2> SUFFICES ASSUME NEW i \in Q PROVE exec_seq[k] <= s /\ Q = {i} /\ W = {}
      OBVIOUS
  <2>1. exec_seq[k] <= s
    <3>1. exec_seq[write_queue[i][1]] <= write_queue[i][2]
        BY DEF IInv, QueuedInRange
    <3>2. write_queue[i][1] = k /\ write_queue[i][2] = s
        OBVIOUS
    <3> QED BY <3>1, <3>2
  <2>2. Q = {i}
      BY DEF IInv, QueuedOnce
  <2>3. W = {}
      BY WorkerShapes DEF IInv, QueuedNotRunning
  <2> QED BY <2>1, <2>2, <2>3
<1>4. \A w \in W : s = exec_seq[k] /\ W = {w}
  <2> SUFFICES ASSUME NEW w \in W PROVE s = exec_seq[k] /\ W = {w}
      OBVIOUS
  <2>1. worker[w].at = "write" /\ worker[w].key = k /\ worker[w].seq = s
      BY WorkerShapes
  <2>2. \A v \in W : worker[v].at = "write" /\ worker[v].key = k
      BY WorkerShapes
  <2> QED BY <2>1, <2>2 DEF IInv, HoldsTurn, OneWriterPerKey
<1>5. IF s < exec_seq[k] THEN D = {s + 1} ELSE D = {}
    BY <1>1
<1>6. s < exec_seq[k] \/ Q # {} \/ W # {}
  <2> SUFFICES ASSUME ~(s < exec_seq[k]) PROVE Q # {} \/ W # {}
      OBVIOUS
  <2>1. s \in exec_seq[k] .. next_seq[k] - 1
      BY <1>1
  <2>2. \/ \E i \in 1 .. Len(write_queue) : write_queue[i] = <<k, s>>
        \/ \E w \in Workers : worker[w] = Writing(k, s)
      BY <2>1 DEF NothingLost
  <2> QED BY <2>2
<1> HIDE DEF Q, W, D
<1>7. CASE s < exec_seq[k]
  <2>1. D = {s + 1} /\ Q = {} /\ W = {}
      BY <1>1, <1>3, <1>4, <1>5, <1>7
  <2>2. Places(k, s) = {<<"done", s + 1>>}
      BY <2>1, <1>2
  <2> QED BY <2>2
<1>8. CASE ~(s < exec_seq[k])
  <2>1. D = {}
      BY <1>5, <1>8
  <2>2. ASSUME NEW i \in Q PROVE \E p : Places(k, s) = {p}
    <3>1. Places(k, s) = {<<"queue", i>>}
        BY <2>1, <2>2, <1>2, <1>3
    <3> QED BY <3>1
  <2>3. ASSUME Q = {}, NEW w \in W PROVE \E p : Places(k, s) = {p}
    <3>1. W = {w}
        BY <2>3, <1>4
    <3>2. Places(k, s) = {<<"worker", w>>}
        BY <2>1, <2>3, <3>1, <1>2
    <3> QED BY <3>2
  <2> QED BY <2>2, <2>3, <1>6, <1>8
<1> QED BY <1>7, <1>8

(***************************************************************************)
(* Every write that submit_write accepted is queued once, with one worker  *)
(* or done, however often it is requeued; a drain() that returned has      *)
(* waited for all that was accepted before it; and under backpressure      *)
(* shutdown() leaves no write behind.                                      *)
(***************************************************************************)
THEOREM WritesStayAccounted == Spec => []WritesAccounted
<1>1. IInv /\ Accounting => WritesAccounted
  <2> SUFFICES ASSUME IInv, Accounting PROVE WritesAccounted
      OBVIOUS
  <2>1. EveryWriteSomewhere
    <3> SUFFICES ASSUME NEW k \in Keys, NEW s \in 0 .. next_seq[k] - 1 PROVE Cardinality(Places(k, s)) = 1
        BY DEF EveryWriteSomewhere
    <3>1. PICK p : Places(k, s) = {p}
        BY OnePlaceEach DEF Accounting
    <3> QED BY <3>1, FS_Singleton
  <2>2. DrainCompletes
      BY DEF Accounting, DrainsSee, DrainCompletes
  <2>3. ThrottledNotLeftBehind
    <3> SUFFICES ASSUME backpressure, \A w \in Workers : worker[w] = Exited PROVE write_queue = <<>>
        BY DEF ThrottledNotLeftBehind, NothingLeftBehind
    <3>1. PICK w \in Workers : worker[w].at = "exited"
        BY PoolAssumption, WorkerShapes
    <3> QED BY <3>1 DEF Accounting, GoneForGood
  <2> QED BY <2>1, <2>2, <2>3 DEF WritesAccounted
<1> QED BY <1>1, AccountingInvariant, PTL
=============================================================================
