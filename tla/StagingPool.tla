---------------------------- MODULE StagingPool -----------------------------
(***************************************************************************)
(* amio::detail::StagingPool: reference-counted buffers with lazily        *)
(* committed storage, handed out best fit first.  Every step is one        *)
(* critical section of mu_; cv_ is the set of the threads asleep on it.    *)
(* A buffer's seq, which nothing reads, is left out.                       *)
(***************************************************************************)
EXTENDS Naturals, Sequences, FiniteSets, SequencesExt

CONSTANTS
    Users,        \* the threads that use the pool
    Sizes,          \* the byte counts they ask for
    Nominal,        \* buffer_capacity_
    BufferCount,    \* buffer_count_
    MaxBufferCount, \* max_buffer_count, ignored in Bounded mode
    Grow            \* grow_mode_ == GrowMode::Grow

ASSUME PoolAssumption ==
    /\ IsFiniteSet(Users)
    /\ Sizes \subseteq Nat \ {0}
    /\ Nominal \in Nat \ {0}
    /\ BufferCount \in Nat \ {0} /\ MaxBufferCount \in Nat
    /\ BufferCount <= MaxBufferCount
    /\ Grow \in BOOLEAN

Ceiling == IF Grow THEN MaxBufferCount ELSE BufferCount

VARIABLES
    buffers,    \* buffers_.size()
    capacity,   \* slot -> capacity_bytes; 0 while data is null
    ref_count,  \* slot -> ref_count
    sp_free,    \* free_list_: buffers, by ascending capacity
    thread      \* per thread, where it is in the pool and what it holds

spVars == <<buffers, capacity, ref_count, sp_free, thread>>

Slots == 1 .. Ceiling

SPOut       == [at |-> "out"]
Refused     == [at |-> "refused"]
Asleep(n)   == [at |-> "asleep", need |-> n]
Woken(n)    == [at |-> "woken", need |-> n]
Holds(b, n) == [at |-> "holds", buf |-> b, need |-> n]

SPInit == /\ buffers = BufferCount
        /\ capacity = [b \in Slots |-> 0]
        /\ ref_count = [b \in Slots |-> 0]
        /\ sp_free = [i \in 1 .. BufferCount |-> i]
        /\ thread = [t \in Users |-> SPOut]

-----------------------------------------------------------------------------
\* find_best_fit on a nonempty list: a committed buffer that is large enough,
\* else one without storage, else the last one.
BestFit(list, n) ==
    LET Fits(b) == capacity[b] >= n
        Fresh(b) == capacity[b] = 0
    IN  IF \E b \in Range(list) : Fits(b) THEN SelectInSeq(list, Fits)
        ELSE IF \E b \in Range(list) : Fresh(b) THEN SelectInSeq(list, Fresh)
        ELSE Len(list)

Target(n) == IF n > Nominal THEN n ELSE Nominal

EnsureStorage(b, n) == capacity' = [capacity EXCEPT ![b] = IF @ >= Target(n) THEN @ ELSE Target(n)]

\* remove_from_free_list
RemoveFromFreeList(list, i) == RemoveAt(list, i)

\* The success path of acquire, with the free list it found or has just grown.
Take(t, n, list) ==
    LET i == BestFit(list, n) IN
    /\ EnsureStorage(list[i], n)
    /\ sp_free' = RemoveFromFreeList(list, i)
    /\ ref_count' = [ref_count EXCEPT ![list[i]] = 1]
    /\ thread' = [thread EXCEPT ![t] = Holds(list[i], n)]

\* One turn of acquire's loop: take a buffer, append a slot and take it, or
\* go to sleep.
Attempt(t, n) ==
    \/ /\ sp_free # <<>>
       /\ Take(t, n, sp_free)
       /\ UNCHANGED buffers
    \/ /\ sp_free = <<>>
       /\ buffers < Ceiling
       /\ buffers' = buffers + 1
       /\ Take(t, n, <<buffers + 1>>)
    \/ /\ sp_free = <<>>
       /\ buffers = Ceiling
       /\ thread' = [thread EXCEPT ![t] = Asleep(n)]
       /\ UNCHANGED <<buffers, capacity, ref_count, sp_free>>

Acquire(t, n) == /\ thread[t] \in {SPOut, Refused}
                 /\ Attempt(t, n)

\* A woken thread has the mutex again and goes round the loop.
Retry(t) == /\ thread[t].at = "woken"
            /\ Attempt(t, thread[t].need)

\* The wait's deadline passes: one last look at the free list.
SPTimeout(t) ==
    /\ thread[t].at \in {"asleep", "woken"}
    /\ IF sp_free # <<>>
         THEN Take(t, thread[t].need, sp_free) /\ UNCHANGED buffers
         ELSE /\ thread' = [thread EXCEPT ![t] = Refused]
              /\ UNCHANGED <<buffers, capacity, ref_count, sp_free>>

Sleepers == {t \in Users : thread[t].at = "asleep"}

\* Mutant of PlaceFor: the slot is appended.
PlaceForLast(b) == Len(sp_free) + 1

\* std::lower_bound: before the first slot that is not smaller.
PlaceFor(b) ==
    1 + Cardinality({i \in 1 .. Len(sp_free) : capacity[sp_free[i]] < capacity[b]})

\* Mutant of NotifyOne: nobody is woken.
NotifyOneNot(after) == thread' = after

\* cv_.notify_one(): some sleeping thread wakes, if there is one.
NotifyOne(after) ==
    IF Sleepers = {}
      THEN thread' = after
      ELSE \E s \in Sleepers : thread' = [after EXCEPT ![s] = Woken(after[s].need)]

LastReference(b) == ref_count[b] = 1

SPRelease(t) ==
    /\ thread[t].at = "holds"
    /\ LET b == thread[t].buf
           after == [thread EXCEPT ![t] = SPOut]
       IN  /\ ref_count' = [ref_count EXCEPT ![b] = @ - 1]
           /\ IF LastReference(b)
                THEN /\ sp_free' = InsertAt(sp_free, PlaceFor(b), b)
                     /\ NotifyOne(after)
                ELSE thread' = after /\ UNCHANGED sp_free
    /\ UNCHANGED <<buffers, capacity>>

\* A thread that holds a buffer makes a second view of it, for another one.
AddRef(t, u) ==
    /\ thread[t].at = "holds"
    /\ thread[u] \in {SPOut, Refused}
    /\ ref_count' = [ref_count EXCEPT ![thread[t].buf] = @ + 1]
    /\ thread' = [thread EXCEPT ![u] = thread[t]]
    /\ UNCHANGED <<buffers, capacity, sp_free>>

SPNext == \E t \in Users : \/ \E n \in Sizes : Acquire(t, n)
                           \/ Retry(t) \/ SPTimeout(t) \/ SPRelease(t)
                           \/ \E u \in Users : AddRef(t, u)

SPSpec == SPInit /\ [][SPNext]_spVars

-----------------------------------------------------------------------------
Holders(b) == {t \in Users : thread[t].at = "holds" /\ thread[t].buf = b}

SPTypeOK ==
    /\ buffers \in BufferCount .. Ceiling
    /\ capacity \in [Slots -> Nat]
    /\ ref_count \in [Slots -> Nat]
    /\ sp_free \in Seq(Slots)
    /\ \A t \in Users :
          \/ thread[t] \in {SPOut, Refused}
          \/ \E n \in Sizes : thread[t] \in {Asleep(n), Woken(n)}
          \/ \E n \in Sizes, b \in Slots : thread[t] = Holds(b, n)

(***************************************************************************)
(* A slot is on the free list, once, exactly while nobody holds it, and    *)
(* its reference count is the number of its holders: no buffer is leaked   *)
(* or freed under a view.  The list stays sorted by capacity, which best   *)
(* fit and the choice of the buffer to grow rest on, although storage      *)
(* grows between a buffer's removal and its return.  Whoever holds a       *)
(* buffer holds one with room for what it asked for.                       *)
(***************************************************************************)
FreeListExact ==
    /\ SPTypeOK
    /\ \A b \in Slots : ref_count[b] = Cardinality(Holders(b))
    /\ \A b \in 1 .. buffers :
          Cardinality({i \in 1 .. Len(sp_free) : sp_free[i] = b})
              = IF Holders(b) = {} THEN 1 ELSE 0
    /\ \A i, j \in 1 .. Len(sp_free) :
          i < j => capacity[sp_free[i]] <= capacity[sp_free[j]]
    /\ \A t \in Users : thread[t].at = "holds" => capacity[thread[t].buf] >= thread[t].need

(***************************************************************************)
(* No lost wakeup: notify_one wakes one thread per released buffer, so     *)
(* while a thread sleeps there is no free buffer without a woken thread    *)
(* that is about to look for it.                                           *)
(***************************************************************************)
NoLostWakeup ==
    Sleepers # {} =>
        Len(sp_free) <= Cardinality({t \in Users : thread[t].at = "woken"})

=============================================================================
