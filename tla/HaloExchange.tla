---------------------------- MODULE HaloExchange ----------------------------
(***************************************************************************)
(* halo::exchange_blocking, halo::exchange_async with its Halo_Handle, and *)
(* Persistent_Halo_Handle, called by the threads of every rank on one      *)
(* Halo_Plan per rank.  A view holds the elements to send, neighbour after *)
(* neighbour, and behind them the elements to receive.  MPI matches the    *)
(* messages of one source and tag in the order they were posted.           *)
(***************************************************************************)
EXTENDS Integers, Sequences, SequencesExt, FiniteSets, TLC

CONSTANTS
    HSize,       \* the communicator's size
    HThreads,    \* the threads of each rank that exchange, one view each
    HTagUB,      \* MPI_TAG_UB
    HPrograms    \* what the ranks may run: plans, communicators, bounds on exchanges and faults

HRanks == 0 .. HSize - 1
Callers == HRanks \X HThreads

ASSUME HaloConstants ==
    /\ HSize \in Nat \ {0} /\ HTagUB \in Nat \ {0}
    /\ \A p \in HPrograms : \A t \in HThreads : p.rounds[t] \in Nat /\ p.faults \in Nat

VARIABLES
    hprogram, \* the program that runs
    hmultiple, \* MPI_THREAD_MULTIPLE was granted
    hpc,      \* where each caller is
    how,      \* the call it makes: "blocking", "async" or "persistent"
    hround,   \* the exchanges it has completed
    hview,    \* its view
    hstage,   \* the host receive buffers of a staged exchange
    hposted,  \* the MPI calls of the running exchange that were made
    hpend,    \* the requests of it that are not complete
    inbox,    \* the receives posted on a rank, in order
    wire,     \* the messages sent to a rank and not received, in order
    hlock,    \* serialization_mutex_: the caller's thread, or "free"
    staged,   \* the views are on a device and MPI is not GPU-aware
    eager,    \* sends complete without a matching receive
    faults    \* the MPI calls that failed

hconf == <<hprogram, hmultiple, staged, eager>>
hvars == <<hconf, hpc, how, hround, hview, hstage, hposted, hpend, inbox, wire, hlock, faults>>

-----------------------------------------------------------------------------
(* Plans and views *)

HSends == hprogram.sends    \* HSends[r]: the send neighbours [rank, count] of rank r's plan
HRecvs == hprogram.recvs    \* HRecvs[r]: its receive neighbours
HComm == hprogram.comm      \* HComm[t]: the communicator of thread t's plan
HRounds == hprogram.rounds  \* HRounds[t]: the exchanges thread t makes on every rank

\* Every neighbour is a rank of the communicator and none is named twice.
validate_neighbors(s) ==
    /\ \A i \in 1 .. Len(s) : s[i].rank \in HRanks
    /\ \A i, j \in 1 .. Len(s) : i # j => s[i].rank # s[j].rank

sum_counts(s) == FoldLeft(LAMBDA n, x : n + x.count, 0, s)

\* The elements before neighbour i's.
Before(s, i) == sum_counts(SubSeq(s, 1, i - 1))

compute_tag(from, to) == (from * HSize + to) % HTagUB

Requests(r) == Len(HRecvs[r]) + Len(HSends[r])
IsRecv(r, k) == k <= Len(HRecvs[r])
RecvOffset(r, k) == sum_counts(HSends[r]) + Before(HRecvs[r], k)

\* What the model computes for the next exchange: new values in the send part.
Produced(r, t, n) == [i \in 1 .. sum_counts(HSends[r]) |-> <<r, t, n, i>>]

SendSlice(v, r, j) == LET o == Before(HSends[r], j) IN SubSeq(v, o + 1, o + HSends[r][j].count)

stage_recv(v, o, data) ==
    [i \in 1 .. Len(v) |-> IF i \in o + 1 .. o + Len(data) THEN data[i - o] ELSE v[i]]

\* All host buffers, copied behind the send part.
Unstaged(r, v, bufs) ==
    FoldLeft(LAMBDA w, k : stage_recv(w, RecvOffset(r, k), bufs[k]), v, [k \in 1 .. Len(HRecvs[r]) |-> k])

HInit ==
    /\ hprogram \in HPrograms /\ hmultiple \in BOOLEAN
    /\ \A r \in HRanks : validate_neighbors(HSends[r]) /\ validate_neighbors(HRecvs[r])
    /\ hpc = [c \in Callers |-> "idle"]
    /\ how = [c \in Callers |-> "none"]
    /\ hround = [c \in Callers |-> 0]
    /\ hview = [c \in Callers |-> Produced(c[1], c[2], 1) \o
                                  [i \in 1 .. sum_counts(HRecvs[c[1]]) |-> <<"old">>]]
    /\ hstage = [c \in Callers |-> [k \in 1 .. Len(HRecvs[c[1]]) |-> <<>>]]
    /\ hposted = [c \in Callers |-> 0]
    /\ hpend = [c \in Callers |-> {}]
    /\ inbox = [r \in HRanks |-> <<>>]
    /\ wire = [r \in HRanks |-> <<>>]
    /\ hlock = [r \in HRanks |-> "free"]
    /\ staged \in BOOLEAN /\ eager \in BOOLEAN
    /\ faults = 0

-----------------------------------------------------------------------------
(* Serialized_MPI_Guard *)

Serialized_MPI_Guard(r, t) ==
    IF hmultiple THEN UNCHANGED hlock
    ELSE hlock[r] = "free" /\ hlock' = [hlock EXCEPT ![r] = t]

Unguard(r) == hlock' = [hlock EXCEPT ![r] = "free"]

-----------------------------------------------------------------------------
(* The calls into MPI *)

\* Receive and send number k of caller <<r, t>>: the arguments of MPI_Irecv and
\* MPI_Isend, or those a Persistent_Halo_Handle gave MPI_Recv_init and MPI_Send_init.
RecvCall(r, t, k) == [src |-> HRecvs[r][k].rank, tag |-> compute_tag(HRecvs[r][k].rank, r), comm |-> HComm[t], thread |-> t, req |-> k]
SendCall(r, t, k) ==
    LET j == k - Len(HRecvs[r])
    IN [src |-> r, tag |-> compute_tag(r, HSends[r][j].rank), comm |-> HComm[t], thread |-> t, req |-> k,
        data |-> SendSlice(hview[<<r, t>>], r, j)]

\* The calls number a to b, or MPI_Startall of all.
Post(r, t, a, b) ==
    LET calls == [i \in 1 .. b - a + 1 |-> a + i - 1]
        To(d) == SelectSeq(calls, LAMBDA k : ~IsRecv(r, k) /\ HSends[r][k - Len(HRecvs[r])].rank = d)
        Recvs == SelectSeq(calls, LAMBDA k : IsRecv(r, k))
    IN /\ inbox' = [inbox EXCEPT ![r] = @ \o [i \in 1 .. Len(Recvs) |-> RecvCall(r, t, Recvs[i])]]
       /\ wire' = [d \in HRanks |-> wire[d] \o [i \in 1 .. Len(To(d)) |-> SendCall(r, t, To(d)[i])]]
       /\ hpend' = [hpend EXCEPT ![<<r, t>>] = @ \cup {k \in a .. b : IsRecv(r, k) \/ ~eager}]
       /\ hposted' = [hposted EXCEPT ![<<r, t>>] = b]

\* MPI pairs the oldest receive and the oldest message of one source, tag and
\* communicator, whichever threads made the calls.
\* The data lands in the view, or in the host buffer of a staged exchange.
Match(r) ==
    \E i \in 1 .. Len(inbox[r]), j \in 1 .. Len(wire[r]) :
        LET x == inbox[r][i]
            m == wire[r][j]
            Same(y) == y.src = x.src /\ y.tag = x.tag /\ y.comm = x.comm
            c == <<r, x.thread>>
        IN /\ Same(m)
           /\ \A k \in 1 .. i - 1 : ~Same(inbox[r][k])
           /\ \A k \in 1 .. j - 1 : ~Same(wire[r][k])
           /\ inbox' = [inbox EXCEPT ![r] = RemoveAt(@, i)]
           /\ wire' = [wire EXCEPT ![r] = RemoveAt(@, j)]
           /\ hpend' = [d \in Callers |-> hpend[d] \ ((IF d = c THEN {x.req} ELSE {})
                                                     \cup (IF d = <<m.src, m.thread>> THEN {m.req} ELSE {}))]
           /\ IF staged
              THEN hstage' = [hstage EXCEPT ![c][x.req] = m.data] /\ UNCHANGED hview
              ELSE hview' = [hview EXCEPT ![c] = stage_recv(@, RecvOffset(r, x.req), m.data)] /\ UNCHANGED hstage
           /\ UNCHANGED <<hpc, how, hround, hposted, hlock, hconf, faults>>

-----------------------------------------------------------------------------
(* One exchange of a caller *)

\* The call returns, or the handle reports completion: a staged exchange is
\* copied to the view, and the model computes its next values.
CopiedBack(c) == IF staged THEN Unstaged(c[1], hview[c], hstage[c]) ELSE hview[c]

Finish(c) ==
    LET v == CopiedBack(c)
        n == hround[c] + 1
    IN /\ hpc' = [hpc EXCEPT ![c] = "idle"]
       /\ hround' = [hround EXCEPT ![c] = n]
       /\ hview' = [hview EXCEPT ![c] = Produced(c[1], c[2], n + 1) \o
                                        SubSeq(v, sum_counts(HSends[c[1]]) + 1, Len(v))]
       /\ hposted' = [hposted EXCEPT ![c] = 0]
       /\ UNCHANGED <<how, hstage, hpend, inbox, wire, hconf, faults>>

\* exchange_blocking and exchange_async return at once on a plan without
\* neighbours and take the guard otherwise.
Exchange(c, call) ==
    /\ hpc[c] = "idle" /\ hround[c] < HRounds[c[2]]
    /\ call \in {"blocking", "async"}
    /\ IF Requests(c[1]) = 0 THEN Finish(c) /\ UNCHANGED hlock
       ELSE /\ Serialized_MPI_Guard(c[1], c[2])
            /\ hpc' = [hpc EXCEPT ![c] = "posting"]
            /\ how' = [how EXCEPT ![c] = call]
            /\ UNCHANGED <<hround, hview, hstage, hposted, hpend, inbox, wire, hconf, faults>>

\* All receives before any send.
PostNext(c) ==
    /\ hpc[c] = "posting" /\ hposted[c] < Requests(c[1])
    /\ Post(c[1], c[2], hposted[c] + 1, hposted[c] + 1)
    /\ UNCHANGED <<hpc, how, hround, hview, hstage, hlock, hconf, faults>>

\* exchange_blocking waits with the guard held; exchange_async returns a handle.
Posted(c) ==
    /\ hpc[c] = "posting" /\ hposted[c] = Requests(c[1])
    /\ hpc' = [hpc EXCEPT ![c] = IF how[c] = "blocking" THEN "waitall" ELSE "handle"]
    /\ IF how[c] = "blocking" \/ hmultiple THEN UNCHANGED hlock ELSE Unguard(c[1])
    /\ UNCHANGED <<how, hround, hview, hstage, hposted, hpend, inbox, wire, hconf, faults>>

\* MPI_Waitall of a blocking exchange or of Persistent_Halo_Handle::wait.
Waitall(c) ==
    /\ hpc[c] = "waitall" /\ hpend[c] = {}
    /\ IF hmultiple THEN UNCHANGED hlock ELSE Unguard(c[1])
    /\ Finish(c)

\* Halo_Handle::wait, test that finds every request complete, the destructor
\* and a move assignment onto the handle; none of them takes the guard.
HandleDone(c) == hpc[c] = "handle" /\ hpend[c] = {} /\ Finish(c) /\ UNCHANGED hlock

\* An MPI_Irecv or MPI_Isend fails.  The exception leaves the requests of a
\* blocking exchange behind; in exchange_async it destroys the local handle,
\* whose destructor waits for the requests made so far, guard still held.
MpiFails(c) ==
    /\ hpc[c] = "posting" /\ hposted[c] < Requests(c[1]) /\ faults < hprogram.faults
    /\ faults' = faults + 1
    /\ IF how[c] = "blocking"
       THEN hpc' = [hpc EXCEPT ![c] = "failed"] /\ (IF hmultiple THEN UNCHANGED hlock ELSE Unguard(c[1]))
       ELSE hpc' = [hpc EXCEPT ![c] = "unwinding"] /\ UNCHANGED hlock
    /\ UNCHANGED <<how, hround, hview, hstage, hposted, hpend, inbox, wire, hconf>>

Unwound(c) ==
    /\ hpc[c] = "unwinding" /\ hpend[c] = {}
    /\ hpc' = [hpc EXCEPT ![c] = "failed"]
    /\ IF hmultiple THEN UNCHANGED hlock ELSE Unguard(c[1])
    /\ UNCHANGED <<how, hround, hview, hstage, hposted, hpend, inbox, wire, hconf, faults>>

\* The persistent requests exist from the constructor on; start packs and
\* starts them all under the guard.
Start(c) ==
    /\ hpc[c] = "idle" /\ hround[c] < HRounds[c[2]] /\ Requests(c[1]) > 0
    /\ hmultiple \/ hlock[c[1]] = "free"
    /\ Post(c[1], c[2], 1, Requests(c[1]))
    /\ hpc' = [hpc EXCEPT ![c] = "started"]
    /\ how' = [how EXCEPT ![c] = "persistent"]
    /\ UNCHANGED <<hround, hview, hstage, hlock, hconf, faults>>

\* Persistent_Halo_Handle::wait holds the guard while it blocks.
PersistentWait(c) ==
    /\ hpc[c] = "started" /\ Serialized_MPI_Guard(c[1], c[2])
    /\ hpc' = [hpc EXCEPT ![c] = "waitall"]
    /\ UNCHANGED <<how, hround, hview, hstage, hposted, hpend, inbox, wire, hconf, faults>>

PersistentTest(c) ==
    /\ hpc[c] = "started" /\ hpend[c] = {} /\ (hmultiple \/ hlock[c[1]] = "free")
    /\ Finish(c) /\ UNCHANGED hlock

HStep(c) ==
    \/ \E call \in {"blocking", "async"} : Exchange(c, call)
    \/ PostNext(c) \/ Posted(c) \/ Waitall(c) \/ HandleDone(c) \/ Unwound(c)
    \/ Start(c) \/ PersistentWait(c) \/ PersistentTest(c)

HNext == (\E c \in Callers : HStep(c) \/ MpiFails(c)) \/ (\E r \in HRanks : Match(r))

-----------------------------------------------------------------------------
(* Properties *)

\* No two threads use plans on one communicator.  The tag is that of the two
\* ranks alone, so on one communicator the messages of two threads that
\* exchange at once are taken one for the other.
OwnCommunicators == \A t, u \in HThreads : t # u => HComm[t] # HComm[u]

\* After every completed exchange, on every path, the receive part of the
\* view holds what each neighbour sent to this rank in the same exchange of
\* the same thread: no message is taken for another call's, at a wrong
\* offset, or left in a host buffer -- provided that threads which exchange at
\* once do so on communicators of their own.
HaloFresh ==
    OwnCommunicators =>
    \A c \in Callers : hpc[c] = "idle" /\ hround[c] > 0 =>
        \A k \in 1 .. Len(HRecvs[c[1]]) :
            LET p == HRecvs[c[1]][k].rank
                j == CHOOSE i \in 1 .. Len(HSends[p]) : HSends[p][i].rank = c[1]
            IN SubSeq(hview[c], RecvOffset(c[1], k) + 1, RecvOffset(c[1], k) + HRecvs[c[1]][k].count)
                 = SendSlice(Produced(p, c[2], hround[c]), p, j)

\* No call can go on: each waits for a message or for serialization_mutex_.
\* A call takes each of its steps once, so every execution comes to such a
\* state if its threads run and MPI delivers.
Stuck == ~ENABLED ((\E c \in Callers : HStep(c)) \/ (\E r \in HRanks : Match(r)))
AllExchanged == \A c \in Callers : hround[c] = HRounds[c[2]]

\* Below MPI_THREAD_MULTIPLE, a thread waits for its messages with
\* serialization_mutex_ held, and keeps another thread of its rank, which has
\* not done, from MPI.
GuardHeldWaiting ==
    \E r \in HRanks : \E t, u \in HThreads :
        /\ ~hmultiple /\ t # u /\ hlock[r] = t /\ hpc[<<r, t>>] \in {"waitall", "unwinding"}
        /\ hpc[<<r, u>>] \in {"idle", "started"} /\ hround[<<r, u>>] < HRounds[u]

\* Whatever mix of blocking, asynchronous and persistent calls the threads
\* make, and whether or not sends wait for their receives, the exchanges come
\* to no standstill before every thread of every rank has completed all of
\* its own -- unless an MPI call has failed, or the guard is what they stand
\* at: two threads of a rank exchange below MPI_THREAD_MULTIPLE, and one waits
\* for its messages with the guard held.
ExchangesComplete == Stuck => AllExchanged \/ faults > 0 \/ GuardHeldWaiting
=============================================================================
