--------------------------- MODULE AmioCoreProofs ---------------------------
(***************************************************************************)
(* Proofs about AmioCore, for any number of host threads, datasets,        *)
(* writes, views and buffers.                                              *)
(*                                                                         *)
(* The invariant has four layers. Control says where the calls are: a      *)
(* thread inside a call works on something that exists and is open, a      *)
(* staged write has exactly one thread about to submit it, the queue holds *)
(* the queued writes once, and close and finalize are alone with what they *)
(* tear down. Over it, Counters gives pending_writes and the outstanding   *)
(* views their exact value also while a call is under way, when the late   *)
(* increment of amio_write has yet to come. HeldOnce says who holds a      *)
(* buffer as six sets of which one is a singleton and the others are       *)
(* empty, which is what the steps of the proof preserve; that its places   *)
(* are one follows, and none when the holder is a dropped write. The last  *)
(* layer is that close leaves no write and no view behind, which rests on  *)
(* all the others.                                                         *)
(***************************************************************************)
EXTENDS AmioCore, FiniteSetTheorems, SequenceTheorems, TLAPS

IoRecord == [at : {"staged", "queued", "dropped", "running", "ending", "ended"},
             ds : Datasets, var : Vars, buf : Buffers,
             completed : BOOLEAN, failed : BOOLEAN]

DatasetRecord == [at : {"open", "closed"}, by : Hosts, mode : Modes, pending : Int,
                  failed : BOOLEAN, views : Int, cancelled : BOOLEAN, gaveUp : BOOLEAN]

ViewRecord == [at : {"live"}, ds : Datasets, buf : Buffers]

OnIo == [at : {"submit", "count", "wait"}, io : Ios]
OnDataset == [at : {"flush", "get", "drain"}, ds : Datasets]
Minting == [at : {"mint"}, ds : Datasets, buf : Buffers]
Joining == [at : {"join"}]

HostState == {Idle} \cup OnIo \cup OnDataset \cup Minting \cup Joining

\* What the variables hold.
Types ==
    /\ core \in {"none", "up", "down"}
    /\ ds \in [Datasets -> DatasetRecord \cup {NoDataset}]
    /\ io \in [Ios -> IoRecord \cup {NoIo}]
    /\ queue \in Seq(Ios)
    /\ view \in [Views -> ViewRecord \cup {NoView}]
    /\ free \in SUBSET Buffers
    /\ ahead \in [Datasets -> SUBSET Buffers]
    /\ fetching \in [Datasets -> SUBSET Buffers]
    /\ host \in [Hosts -> HostState]

\* The thread is in a write that is not counted yet; in another call on a
\* dataset.
InWrite(h) == host[h].at \in {"submit", "count"}
InDataset(h) == host[h].at \in {"flush", "get", "drain", "mint"}

\* A thread in a call is in one that has got past its checks: the write it
\* waits for exists, and the dataset it works on has been opened.
Calls ==
    \A h \in Hosts :
        /\ InWrite(h) \/ host[h].at = "wait" => io[host[h].io] # NoIo
        /\ InDataset(h) => ds[host[h].ds].at = "open"
        /\ InWrite(h) => ds[io[host[h].io].ds].at = "open"

\* A write's call has not submitted it exactly while it is staged.
Staging ==
    /\ \A h \in Hosts : host[h].at = "submit" => io[host[h].io].at = "staged"
    /\ \A h \in Hosts : host[h].at = "count" => io[host[h].io].at # "staged"
    /\ \A i \in Ios : io[i].at = "staged" => \E h \in Hosts : host[h].at = "submit" /\ host[h].io = i
    /\ \A g, h \in Hosts : InWrite(g) /\ InWrite(h) /\ host[g].io = host[h].io => g = h

\* The queue holds the queued writes, each once.
Queued ==
    /\ \A n \in 1 .. Len(queue) : io[queue[n]].at = "queued"
    /\ \A m, n \in 1 .. Len(queue) : queue[m] = queue[n] => m = n
    /\ \A i \in Ios : io[i].at = "queued" => \E n \in 1 .. Len(queue) : queue[n] = i

\* A write, a view and what is ahead belong to a dataset that was opened.
Opens ==
    /\ \A i \in Ios : io[i] # NoIo => ds[io[i].ds] # NoDataset
    /\ \A v \in Views : view[v] # NoView => ds[view[v].ds] # NoDataset
    /\ core = "none" => \A d \in Datasets : ds[d] = NoDataset

\* While close drains, no other thread writes, reads or flushes the dataset,
\* and no view of it is left.
On(h, d) == \/ InDataset(h) /\ host[h].ds = d
            \/ InWrite(h) /\ io[host[h].io].ds = d

Draining ==
    \A h \in Hosts : host[h].at = "drain" =>
        /\ \A g \in Hosts : On(g, host[h].ds) => g = h
        /\ \A v \in Views : view[v] # NoView => view[v].ds # host[h].ds

\* While finalize joins the workers, no other thread is in a call.
JoiningAlone ==
    /\ \A h \in Hosts : host[h].at = "join" => core = "up" /\ \A g \in Hosts \ {h} : host[g] = Idle
    /\ core # "up" => \A h \in Hosts : host[h] = Idle

\* pending_writes and outstanding views, as they stand at any moment.
Uncounted(i) == \E h \in Hosts : InWrite(h) /\ host[h].io = i
Counted(d) == {i \in Ios : io[i] # NoIo /\ io[i].ds = d /\ ~Uncounted(i)}
Ended(d) == {i \in Ios : io[i].at = "ended" /\ io[i].ds = d}
ViewsOf(d) == {v \in Views : view[v] # NoView /\ view[v].ds = d}

Counters ==
    \A d \in Datasets : ds[d] # NoDataset =>
        /\ ds[d].pending = Cardinality(Counted(d)) - Cardinality(Ended(d))
        /\ ds[d].views = Cardinality(ViewsOf(d))

\* The holders of a buffer of each sort.
InFree(b) == IF b \in free THEN {"free"} ELSE {}
InIo(b) == {j \in Ios : io[j].at \notin {"none", "ended"} /\ io[j].buf = b}
InAhead(b) == {e \in Datasets : b \in ahead[e]}
InFetching(b) == {e \in Datasets : b \in fetching[e]}
InRead(b) == {g \in Hosts : host[g].at = "mint" /\ host[g].buf = b}
InView(b) == {w \in Views : view[w] # NoView /\ view[w].buf = b}

\* A buffer has one holder.
One(A, B, C, D, E, F) == /\ \E x \in A : A = {x}
                         /\ B = {} /\ C = {} /\ D = {} /\ E = {} /\ F = {}

Held(b) == LET f == InFree(b) i == InIo(b) a == InAhead(b)
               g == InFetching(b) r == InRead(b) v == InView(b)
           IN  \/ One(f, i, a, g, r, v)
               \/ One(i, f, a, g, r, v)
               \/ One(a, f, i, g, r, v)
               \/ One(g, f, i, a, r, v)
               \/ One(r, f, i, a, g, v)
               \/ One(v, f, i, a, g, r)

HeldOnce == \A b \in Buffers : Held(b)

\* Until finalize has torn the core down, a live view's dataset is open.
ViewsPinned == \A v \in Views : view[v] # NoView /\ core # "down" => ds[view[v].ds].at = "open"

Control == Types /\ Calls /\ Staging /\ Queued /\ Opens /\ Draining /\ JoiningAlone

IInv == /\ Control
        /\ Counters
        /\ HeldOnce
        /\ NoWriteAfterClose
        /\ ViewsPinned

-----------------------------------------------------------------------------
(* The shapes of the records.                                             *)

LEMMA IoShapes ==
    /\ NoIo.at = "none"
    /\ \A x \in IoRecord \cup {NoIo} : x # NoIo => x \in IoRecord /\ x.at # "none"
    /\ \A x \in IoRecord : /\ x # NoIo
                           /\ x.at \in {"staged", "queued", "dropped", "running", "ending", "ended"}
                           /\ x.ds \in Datasets /\ x.buf \in Buffers
BY DEF IoRecord, NoIo

LEMMA DatasetShapes ==
    /\ NoDataset.at = "none"
    /\ \A x \in DatasetRecord \cup {NoDataset} : x # NoDataset => x \in DatasetRecord /\ x.at # "none"
    /\ \A x \in DatasetRecord : /\ x # NoDataset /\ x.at \in {"open", "closed"}
                                /\ x.by \in Hosts /\ x.pending \in Int /\ x.views \in Int
BY DEF DatasetRecord, NoDataset

LEMMA ViewShapes ==
    \A x \in ViewRecord \cup {NoView} : x # NoView => x \in ViewRecord /\ x.ds \in Datasets /\ x.buf \in Buffers
BY DEF ViewRecord, NoView

LEMMA HostShapes ==
    /\ Idle \in HostState
    /\ \A x \in HostState :
        /\ x = Idle <=> x.at = "idle"
        /\ x.at \in {"idle", "submit", "count", "wait", "flush", "get", "drain", "mint", "join"}
        /\ x.at \in {"submit", "count", "wait"} => x \in OnIo /\ x.io \in Ios /\ DOMAIN x = {"at", "io"}
        /\ x.at \in {"flush", "get", "drain"} => x \in OnDataset /\ DOMAIN x = {"at", "ds"}
        /\ x.at = "mint" => x \in Minting /\ x.buf \in Buffers /\ DOMAIN x = {"at", "ds", "buf"}
        /\ x.at \in {"flush", "get", "drain", "mint"} => x.ds \in Datasets
        /\ x.at = "join" => DOMAIN x = {"at"}
    /\ \A a \in {"submit", "count", "wait"}, i \in Ios : [at |-> a, io |-> i] \in HostState
    /\ \A a \in {"flush", "get", "drain"}, d \in Datasets : [at |-> a, ds |-> d] \in HostState
    /\ \A d \in Datasets, b \in Buffers : [at |-> "mint", ds |-> d, buf |-> b] \in HostState
    /\ [at |-> "join"] \in HostState
BY DEF HostState, Idle, OnIo, OnDataset, Minting, Joining

\* What the types say of one write, dataset, view or thread.
LEMMA Typed ==
    ASSUME Types
    PROVE  /\ \A i \in Ios : /\ io[i] # NoIo <=> io[i].at # "none"
                             /\ io[i] # NoIo => /\ io[i] \in IoRecord
                                                /\ io[i].ds \in Datasets /\ io[i].buf \in Buffers
           /\ \A d \in Datasets : /\ ds[d].at \in {"none", "open", "closed"}
                                  /\ ds[d] # NoDataset <=> ds[d].at # "none"
                                  /\ ds[d] # NoDataset => /\ ds[d] \in DatasetRecord
                                                          /\ ds[d].pending \in Int /\ ds[d].views \in Int
           /\ \A v \in Views : view[v] # NoView => view[v].ds \in Datasets /\ view[v].buf \in Buffers
           /\ \A h \in Hosts :
                /\ host[h] = Idle <=> host[h].at = "idle"
                /\ InWrite(h) \/ host[h].at = "wait" => host[h].io \in Ios
                /\ InDataset(h) => host[h].ds \in Datasets
                /\ host[h].at = "mint" => host[h].buf \in Buffers
<1>1. \A i \in Ios : io[i] \in IoRecord \cup {NoIo}
    BY DEF Types
<1>2. \A d \in Datasets : ds[d] \in DatasetRecord \cup {NoDataset}
    BY DEF Types
<1>3. \A v \in Views : view[v] \in ViewRecord \cup {NoView}
    BY DEF Types
<1>4. \A h \in Hosts : host[h] \in HostState
    BY DEF Types
<1> QED BY <1>1, <1>2, <1>3, <1>4, IoShapes, DatasetShapes, ViewShapes, HostShapes DEF InWrite, InDataset

\* A thread inside a call on d, as the code sees it.
LEMMA InsideMeans ==
    ASSUME Types, NEW h \in Hosts, NEW d \in Datasets
    PROVE  Inside(h, d) <=> \/ InDataset(h) /\ host[h].ds = d
                            \/ (InWrite(h) \/ host[h].at = "wait") /\ io[host[h].io].ds = d
BY HostShapes DEF Types, Inside, InDataset, InWrite, Idle

-----------------------------------------------------------------------------
(* The control of the calls.                                              *)

LEMMA ControlInit == Init => Control
<1> SUFFICES ASSUME Init PROVE Control
    OBVIOUS
<1>1. Types
    BY HostShapes DEF Init, Types
<1>2. /\ \A h \in Hosts : host[h] = Idle /\ host[h].at = "idle"
      /\ \A i \in Ios : io[i] = NoIo /\ io[i].at = "none"
      /\ Len(queue) = 0
    BY DEF Init, Idle, NoIo
<1>3. Calls /\ Staging /\ Draining /\ JoiningAlone
    BY <1>2 DEF Calls, Staging, Draining, JoiningAlone, InWrite, InDataset
<1>4. Queued /\ Opens
    BY <1>2 DEF Init, Queued, Opens
<1> QED BY <1>1, <1>3, <1>4 DEF Control

\* The core handle is made.
LEMMA InitCoreControl ==
    ASSUME Control, NEW h \in Hosts, InitCore(h)
    PROVE  Control'
BY HostShapes DEF InitCore, readVars, Control, Types, Calls, Staging, Queued, Opens, Draining, JoiningAlone,
    InWrite, InDataset, On

LEMMA OpenControl ==
    ASSUME Control, NEW h \in Hosts, NEW d \in Datasets, NEW m \in Modes, OpenDataset(h, d, m)
    PROVE  Control'
<1> USE DEF Control
<1>1. Opened(h, m) \in DatasetRecord /\ Opened(h, m).at = "open"
    BY DEF Opened, DatasetRecord
<1>2. Types'
    BY <1>1 DEF OpenDataset, readVars, Types
<1>3. \A e \in Datasets : ds'[e] = IF e = d THEN Opened(h, m) ELSE ds[e]
    BY DEF OpenDataset, Types
<1>4. /\ ds[d] = NoDataset /\ core = "up"
      /\ UNCHANGED <<core, io, queue, view, host>>
    BY DEF OpenDataset, readVars, Ready
<1>5. Calls'
    BY <1>1, <1>3, <1>4, Typed DEF Calls, InWrite, InDataset
<1>5a. Opens'
    BY <1>1, <1>3, <1>4, Typed, DatasetShapes DEF Opens
<1>6. Staging' /\ Queued' /\ Draining' /\ JoiningAlone'
    BY <1>4 DEF Staging, Queued, Draining, JoiningAlone, InWrite, InDataset, On
<1> QED BY <1>2, <1>5, <1>5a, <1>6

LEMMA WriteControl ==
    ASSUME Control, NEW h \in Hosts, NEW d \in Datasets, NEW x \in Vars, NEW i \in Ios, NEW b \in Buffers,
           Write(h, d, x, i, b)
    PROVE  Control'
<1> USE DEF Control
<1> DEFINE r == [at |-> "staged", ds |-> d, var |-> x, buf |-> b, completed |-> FALSE, failed |-> FALSE]
           s == [at |-> "submit", io |-> i]
<1>1. r \in IoRecord /\ r.at = "staged" /\ r.ds = d /\ r # NoIo
    BY DEF IoRecord, NoIo
<1>2. s \in HostState /\ s.at = "submit" /\ s.io = i
    BY HostShapes
<1>3. /\ Types'
      /\ \A j \in Ios : io'[j] = IF j = i THEN r ELSE io[j]
      /\ \A g \in Hosts : host'[g] = IF g = h THEN s ELSE host[g]
    BY <1>1, <1>2 DEF Write, Goto, readVars, Types
<1>4. /\ io[i] = NoIo /\ host[h] = Idle /\ core = "up" /\ Live(d)
      /\ \A g \in Hosts : Inside(g, d) => host[g].at # "drain"
      /\ \A g \in Hosts : host[g].at # "join"
      /\ UNCHANGED <<core, ds, queue, view>>
    BY DEF Write, MayCall, Ready, readVars
<1> HIDE DEF r, s
<1>5. Calls'
    BY <1>1, <1>2, <1>3, <1>4, HostShapes DEF Types, Calls, InWrite, InDataset, Live
<1>6. Staging'
  <2>1. \A g \in Hosts : InWrite(g)' => IF g = h THEN host'[g].io = i /\ host'[g].at = "submit"
                                        ELSE InWrite(g) /\ host'[g] = host[g] /\ host[g].io # i /\ host[g].io \in Ios
      BY <1>1, <1>2, <1>3, <1>4, HostShapes DEF Types, Calls, InWrite
  <2>2. \A j \in Ios : io'[j].at = "staged" => \E g \in Hosts : host'[g].at = "submit" /\ host'[g].io = j
      BY <1>2, <1>3, <1>4, HostShapes DEF Types, Staging
  <2> QED BY <1>1, <1>3, <2>1, <2>2 DEF Staging, InWrite
<1>7. Queued'
  <2>1. \A n \in 1 .. Len(queue) : queue[n] \in Ios
      BY DEF Types
  <2> QED BY <1>1, <1>3, <1>4, <2>1, IoShapes DEF Queued
<1>7a. Opens'
    BY <1>1, <1>3, <1>4, Typed DEF Opens, Live
<1>8. Draining'
    BY <1>1, <1>2, <1>3, <1>4, HostShapes, InsideMeans DEF Types, Calls, Draining, InWrite, InDataset, On
<1>9. JoiningAlone'
    BY <1>2, <1>3, <1>4 DEF JoiningAlone
<1> QED BY <1>3, <1>5, <1>6, <1>7, <1>7a, <1>8, <1>9

\* A step that leaves writes, views and the core alone and closes no dataset.
\* The thread may go to s.
LEMMA HostStep ==
    ASSUME Control, Types', NEW h \in Hosts, NEW s \in HostState,
           host' = [host EXCEPT ![h] = s],
           UNCHANGED <<core, io, queue, view>>,
           \A d \in Datasets : ds'[d].at = ds[d].at,
           host[h].at # "submit" /\ s.at \notin {"submit", "count"},
           s.at = "wait" => io[s.io] # NoIo,
           s.at \in {"flush", "get", "drain", "mint"} =>
               /\ ds[s.ds].at = "open"
               /\ \A g \in Hosts \ {h} : ~(host[g].at = "drain" /\ host[g].ds = s.ds),
           s.at = "drain" =>
               /\ \A g \in Hosts \ {h} : ~On(g, s.ds)
               /\ \A v \in Views : view[v] # NoView => view[v].ds # s.ds,
           s.at = "join" => \A g \in Hosts \ {h} : host[g] = Idle,
           s # Idle => core = "up" /\ \A g \in Hosts \ {h} : host[g].at # "join"
    PROVE  Control'
<1> USE DEF Control
<1>1. \A g \in Hosts : host'[g] = IF g = h THEN s ELSE host[g]
    BY DEF Types
<1>2. /\ s = Idle <=> s.at = "idle"
      /\ s.at = "wait" => s.io \in Ios
      /\ s.at \in {"flush", "get", "drain", "mint"} => s.ds \in Datasets
    BY HostShapes
<1>3. Calls'
    BY <1>1, <1>2, Typed DEF Calls, InWrite, InDataset
<1>4. Staging'
    BY <1>1 DEF Staging, InWrite
<1>5. Queued'
    BY DEF Queued
<1>6. Opens'
  <2>1. \A d \in Datasets : ds'[d] = NoDataset <=> ds[d] = NoDataset
    <3>1. \A d \in Datasets : ds'[d] \in DatasetRecord \cup {NoDataset} /\ ds[d] \in DatasetRecord \cup {NoDataset}
        BY DEF Types
    <3> QED BY <3>1, DatasetShapes
  <2> QED BY <2>1, Typed DEF Opens
<1>7. Draining'
    BY <1>1, <1>2, Typed DEF Draining, On, InWrite, InDataset
<1>8. JoiningAlone'
  <2>1. ASSUME NEW g \in Hosts, host'[g].at = "join"
        PROVE  core' = "up" /\ \A k \in Hosts \ {g} : host'[k] = Idle
      BY <1>1, <1>2, <2>1, Typed DEF JoiningAlone
  <2>2. core' # "up" => \A g \in Hosts : host'[g] = Idle
      BY <1>1 DEF JoiningAlone
  <2> QED BY <2>1, <2>2 DEF JoiningAlone
<1> QED BY <1>3, <1>4, <1>5, <1>6, <1>7, <1>8

\* A write that has been submitted moves on.
LEMMA IoStep ==
    ASSUME Control, Types', Queued', NEW i \in Ios,
           io[i].at \notin {"none", "staged"},
           io'[i].at \notin {"none", "staged"} /\ io'[i].ds = io[i].ds,
           \A j \in Ios \ {i} : io'[j] = io[j],
           \A d \in Datasets : ds'[d].at = ds[d].at,
           UNCHANGED <<core, view, host>>
    PROVE  Control'
<1> USE DEF Control
<1>1. \A j \in Ios : /\ io'[j].ds = io[j].ds
                     /\ io'[j] = NoIo <=> io[j] = NoIo
                     /\ io'[j].at = "staged" <=> io[j].at = "staged"
  <2>1. \A j \in Ios : io'[j] \in IoRecord \cup {NoIo} /\ io[j] \in IoRecord \cup {NoIo}
      BY DEF Types
  <2> QED BY <2>1, IoShapes
<1>2. \A d \in Datasets : ds'[d] = NoDataset <=> ds[d] = NoDataset
  <2>1. \A d \in Datasets : ds'[d] \in DatasetRecord \cup {NoDataset} /\ ds[d] \in DatasetRecord \cup {NoDataset}
      BY DEF Types
  <2> QED BY <2>1, DatasetShapes
<1>3. Calls'
    BY <1>1, Typed DEF Calls, InWrite, InDataset
<1>4. Staging'
    BY <1>1, Typed DEF Staging, InWrite
<1>5. Opens'
    BY <1>1, <1>2, Typed DEF Opens
<1>6. Draining'
    BY <1>1, Typed DEF Draining, On, InWrite, InDataset
<1>7. JoiningAlone'
    BY DEF JoiningAlone
<1> QED BY <1>3, <1>4, <1>5, <1>6, <1>7

\* Removal of one element, as the worker pool takes a task.
LEMMA Removal ==
    ASSUME NEW S, NEW q \in Seq(S), NEW n \in 1 .. Len(q),
           NEW r, r = SubSeq(q, 1, n - 1) \o SubSeq(q, n + 1, Len(q))
    PROVE  /\ r \in Seq(S)
           /\ Len(r) = Len(q) - 1
           /\ \A k \in 1 .. Len(r) : r[k] = IF k < n THEN q[k] ELSE q[k + 1]
<1> DEFINE a == SubSeq(q, 1, n - 1)
           c == SubSeq(q, n + 1, Len(q))
<1>0. n \in Nat /\ n >= 1 /\ n <= Len(q) /\ Len(q) \in Nat
    BY LenProperties
<1>1. /\ a \in Seq(S) /\ Len(a) = n - 1
      /\ \A k \in 1 .. n - 1 : a[k] = q[k]
  <2>1. \A k \in 1 .. n - 1 : q[k] \in S
      BY <1>0, ElementOfSeq
  <2> QED BY <1>0, <2>1, SubSeqProperties
<1>2. /\ c \in Seq(S) /\ Len(c) = Len(q) - n
      /\ \A k \in 1 .. Len(q) - n : c[k] = q[n + k]
  <2>1. \A k \in n + 1 .. Len(q) : q[k] \in S
      BY <1>0, ElementOfSeq
  <2>2. /\ c \in Seq(S)
        /\ Len(c) = IF n + 1 <= Len(q) THEN Len(q) - (n + 1) + 1 ELSE 0
        /\ \A k \in 1 .. Len(q) - (n + 1) + 1 : c[k] = q[n + 1 + k - 1]
      BY <1>0, <2>1, SubSeqProperties
  <2> HIDE DEF c
  <2>3. Len(c) = Len(q) - n
      BY <1>0, <2>2
  <2>4. ASSUME NEW k \in 1 .. Len(q) - n PROVE c[k] = q[n + k]
    <3>1. k \in 1 .. Len(q) - (n + 1) + 1 /\ n + 1 + k - 1 = n + k
        BY <1>0
    <3> QED BY <2>2, <3>1
  <2> QED BY <2>2, <2>3, <2>4
<1> HIDE DEF a, c
<1>3. /\ a \o c \in Seq(S)
      /\ Len(a \o c) = Len(a) + Len(c)
      /\ \A k \in 1 .. Len(a) + Len(c) : (a \o c)[k] = IF k <= Len(a) THEN a[k] ELSE c[k - Len(a)]
    BY <1>1, <1>2, ConcatProperties
<1>4. \A k \in 1 .. Len(a \o c) : (a \o c)[k] = IF k < n THEN q[k] ELSE q[k + 1]
    BY <1>0, <1>1, <1>2, <1>3
<1>5. a \o c \in Seq(S) /\ Len(a \o c) = Len(q) - 1
    BY <1>0, <1>1, <1>2, <1>3
<1> QED BY <1>4, <1>5, Zenon DEF a, c

\* The task is queued, or dropped by a full queue.
LEMMA SubmitControl ==
    ASSUME Control, NEW h \in Hosts, Submit(h)
    PROVE  Control'
<1> USE DEF Control
<1> DEFINE i == host[h].io
           fits == Len(queue) < QueueCap
           a == IF fits THEN "queued" ELSE "dropped"
           s == [at |-> "count", io |-> i]
<1>1. /\ host[h].at = "submit" /\ i \in Ios /\ io[i] # NoIo /\ io[i] \in IoRecord /\ io[i].at = "staged"
      /\ io[i].ds \in Datasets /\ ds[io[i].ds].at = "open"
    BY Typed DEF Submit, Calls, Staging, InWrite
<1>2. s \in HostState /\ s.at = "count" /\ s.io = i
    BY <1>1, HostShapes
<1> DEFINE r == [io[i] EXCEPT !.at = a]
<1>3. r \in IoRecord /\ r.at = a /\ r.ds = io[i].ds /\ a \in {"queued", "dropped"}
  <2>1. a \in {"queued", "dropped"}
      OBVIOUS
  <2> HIDE DEF a
  <2> QED BY <1>1, <2>1 DEF IoRecord
<1>4. /\ io' = [io EXCEPT ![i] = r]
      /\ queue' = IF fits THEN Append(queue, i) ELSE queue
      /\ host' = [host EXCEPT ![h] = s]
      /\ UNCHANGED <<core, ds, view, free, ahead, fetching>>
    BY DEF Submit, Goto, readVars
<1>5. Types'
    BY <1>1, <1>2, <1>3, <1>4 DEF Types
<1>6. /\ \A g \in Hosts : host'[g] = IF g = h THEN s ELSE host[g]
      /\ \A j \in Ios : io'[j] = IF j = i THEN r ELSE io[j]
    BY <1>1, <1>2, <1>4 DEF Types
<1> HIDE DEF s, a, r
<1>7. \A j \in Ios : /\ io'[j].ds = io[j].ds
                     /\ io'[j] = NoIo <=> io[j] = NoIo
                     /\ io'[j].at = "staged" => j # i /\ io[j].at = "staged"
    BY <1>1, <1>3, <1>6, IoShapes
<1>8. Calls'
    BY <1>1, <1>2, <1>4, <1>6, <1>7, Typed DEF Calls, InWrite, InDataset
<1>9. Staging'
  <2>1. \A g \in Hosts \ {h} : InWrite(g) => host[g].io # i
      BY <1>1 DEF Staging, InWrite
  <2>2. \A g \in Hosts : host'[g].at = "submit" => g # h /\ host[g].at = "submit" /\ io'[host'[g].io].at = "staged"
      BY <1>2, <1>6, <2>1, Typed DEF Staging, InWrite
  <2>3. \A g \in Hosts : host'[g].at = "count" => io'[host'[g].io].at # "staged"
      BY <1>1, <1>2, <1>6, <1>7, <2>1, Typed DEF Staging, InWrite
  <2>4. \A j \in Ios : io'[j].at = "staged" => \E g \in Hosts : host'[g].at = "submit" /\ host'[g].io = j
      BY <1>1, <1>6, <1>7 DEF Staging
  <2>5. \A g, k \in Hosts : InWrite(g)' /\ InWrite(k)' /\ host'[g].io = host'[k].io => g = k
      BY <1>2, <1>6, <2>1 DEF Staging, InWrite
  <2> QED BY <2>2, <2>3, <2>4, <2>5 DEF Staging
<1>10. Queued'
  <2>1. Len(queue) \in Nat /\ \A n \in 1 .. Len(queue) : queue[n] \in Ios /\ queue[n] # i
      BY <1>1 DEF Types, Queued
  <2>2. CASE fits
    <3>1. /\ Len(queue') = Len(queue) + 1
          /\ \A n \in 1 .. Len(queue) : queue'[n] = queue[n]
          /\ queue'[Len(queue) + 1] = i
        BY <1>1, <1>4, <2>2 DEF Types
    <3>2. io'[i].at = "queued"
        BY <1>1, <1>3, <1>6, <2>2 DEF a
    <3> QED BY <1>1, <1>6, <2>1, <3>1, <3>2 DEF Queued
  <2>3. CASE ~fits
      BY <1>1, <1>3, <1>4, <1>6, <2>1, <2>3 DEF Queued, a
  <2> QED BY <2>2, <2>3
<1>11. Opens'
    BY <1>4, <1>7, Typed DEF Opens
<1>12. Draining'
    BY <1>1, <1>2, <1>4, <1>6, <1>7, Typed DEF Draining, On, InWrite, InDataset
<1>13. JoiningAlone'
    BY <1>1, <1>2, <1>4, <1>6, Typed DEF JoiningAlone
<1> QED BY <1>5, <1>8, <1>9, <1>10, <1>11, <1>12, <1>13

LEMMA CountControl ==
    ASSUME Control, NEW h \in Hosts, Count(h)
    PROVE  Control'
<1> USE DEF Control
<1> DEFINE e == io[host[h].io].ds
<1>1. host[h].at = "count" /\ e \in Datasets /\ ds[e] \in DatasetRecord
    BY Typed DEF Count, Calls, InWrite
<1>2. [ds[e] EXCEPT !.pending = @ + 1] \in DatasetRecord /\ [ds[e] EXCEPT !.pending = @ + 1].at = ds[e].at
    BY <1>1 DEF DatasetRecord
<1>3. /\ ds' = [ds EXCEPT ![e] = [ds[e] EXCEPT !.pending = @ + 1]]
      /\ host' = [host EXCEPT ![h] = Idle]
      /\ UNCHANGED <<core, io, queue, view, free, ahead, fetching>>
    BY DEF Count, Goto, readVars
<1>4. Types' /\ \A d \in Datasets : ds'[d].at = ds[d].at
    BY <1>1, <1>2, <1>3, HostShapes DEF Types
<1> QED BY <1>1, <1>3, <1>4, HostStep, HostShapes

\* A write is taken off the queue; its driver call ends; its callback ends.
LEMMA RunWriteControl ==
    ASSUME Control, NEW n \in 1 .. Len(queue), RunWrite(n)
    PROVE  Control'
<1> USE DEF Control
<1> DEFINE i == queue[n]
           r == [io[i] EXCEPT !.at = "running"]
<1>1. i \in Ios /\ io[i].at = "queued" /\ io[i] \in IoRecord
  <2>1. i \in Ios /\ io[i].at = "queued"
      BY DEF Types, Queued
  <2> QED BY <2>1, Typed
<1>2. r \in IoRecord /\ r.at = "running" /\ r.ds = io[i].ds
    BY <1>1 DEF IoRecord
<1>3. /\ io' = [io EXCEPT ![i] = r]
      /\ queue' = SubSeq(queue, 1, n - 1) \o SubSeq(queue, n + 1, Len(queue))
      /\ UNCHANGED <<core, ds, view, free, ahead, fetching, host>>
    BY DEF RunWrite, readVars
<1>4. /\ queue' \in Seq(Ios) /\ Len(queue') = Len(queue) - 1
      /\ \A k \in 1 .. Len(queue') : queue'[k] = IF k < n THEN queue[k] ELSE queue[k + 1]
      /\ Len(queue) \in Nat
  <2>1. queue \in Seq(Ios) /\ Len(queue) \in Nat
      BY DEF Types
  <2> QED BY <1>3, <2>1, Removal
<1>5. Types' /\ \A j \in Ios : io'[j] = IF j = i THEN r ELSE io[j]
    BY <1>1, <1>2, <1>3, <1>4 DEF Types
<1> HIDE DEF r
<1>6. Queued'
  <2>1. ASSUME NEW k \in 1 .. Len(queue')
        PROVE  queue'[k] \in Ios /\ queue'[k] # i /\ io[queue'[k]].at = "queued"
    <3>1. k \in 1 .. Len(queue) /\ k + 1 \in 1 .. Len(queue)
        BY <1>4
    <3>2. PICK m \in 1 .. Len(queue) : queue'[k] = queue[m] /\ m # n
        BY <1>4, <3>1
    <3>3. queue[m] \in Ios
        BY DEF Types
    <3> QED BY <3>2, <3>3 DEF Queued
  <2>2. ASSUME NEW k \in 1 .. Len(queue'), NEW m \in 1 .. Len(queue'), queue'[k] = queue'[m] PROVE k = m
    <3> DEFINE from(x) == IF x < n THEN x ELSE x + 1
    <3>1. \A x \in 1 .. Len(queue') : from(x) \in 1 .. Len(queue) /\ queue'[x] = queue[from(x)]
        BY <1>4
    <3>2. from(k) = from(m)
        BY <2>2, <3>1 DEF Queued
    <3> QED BY <3>2
  <2>3. ASSUME NEW j \in Ios, io'[j].at = "queued"
        PROVE  \E k \in 1 .. Len(queue') : queue'[k] = j
    <3>1. j # i /\ io[j].at = "queued"
        BY <1>2, <1>5, <2>3
    <3>2. PICK m \in 1 .. Len(queue) : queue[m] = j
        BY <3>1 DEF Queued
    <3>3. CASE m < n
        BY <1>4, <3>2, <3>3
    <3>4. CASE m > n
      <4>1. m - 1 \in 1 .. Len(queue') /\ ~(m - 1 < n) /\ (m - 1) + 1 = m
          BY <1>4, <3>4
      <4> QED BY <1>4, <3>2, <4>1
    <3> QED BY <3>1, <3>2, <3>3, <3>4
  <2> QED BY <1>5, <2>1, <2>2, <2>3 DEF Queued
<1> QED BY <1>1, <1>2, <1>3, <1>5, <1>6, IoStep

\* Queued is kept when a write that is not queued changes to another such.
LEMMA QueuedKept ==
    ASSUME Types, Queued, NEW i \in Ios, io[i].at # "queued", io'[i].at # "queued",
           \A j \in Ios \ {i} : io'[j] = io[j], UNCHANGED queue
    PROVE  Queued'
<1>1. \A n \in 1 .. Len(queue) : queue[n] \in Ios
    BY DEF Types
<1> QED BY <1>1 DEF Queued

LEMMA CallbackControl ==
    ASSUME Control, NEW i \in Ios, CallbackStep(i)
    PROVE  /\ Control'
           /\ io[i] \in IoRecord /\ io'[i] \in IoRecord
           /\ io'[i].ds = io[i].ds /\ io'[i].buf = io[i].buf
           /\ io'[i].at \in {"ending", "ended"}
           /\ \A j \in Ios \ {i} : io'[j] = io[j]
           /\ \A d \in Datasets : ds'[d].at = ds[d].at
<1> USE DEF Control
<1> DEFINE d == io[i].ds
<1>1. io[i].at \in {"running", "ending"} /\ io[i] \in IoRecord /\ d \in Datasets /\ ds[d] \in DatasetRecord
    BY Typed DEF CallbackStep, DriverWrites, DriverThrows, EndWrite, Opens
<1>2. CASE DriverWrites(i)
  <2> DEFINE r == [io[i] EXCEPT !.at = "ending", !.completed = TRUE]
  <2>1. r \in IoRecord /\ r.at = "ending" /\ r.ds = io[i].ds /\ r.buf = io[i].buf
      BY <1>1 DEF IoRecord
  <2>2. /\ io' = [io EXCEPT ![i] = r]
        /\ UNCHANGED <<core, ds, queue, view, free, ahead, fetching, host>>
      BY <1>1, <1>2 DEF DriverWrites, readVars, Types
  <2>3. Types' /\ \A j \in Ios : io'[j] = IF j = i THEN r ELSE io[j]
      BY <2>1, <2>2 DEF Types
  <2> HIDE DEF r
  <2>4. Queued'
      BY <1>2, <2>1, <2>2, <2>3, QueuedKept DEF DriverWrites
  <2> QED BY <1>1, <2>1, <2>2, <2>3, <2>4, IoStep
<1>3. CASE DriverThrows(i)
  <2> DEFINE r == [io[i] EXCEPT !.at = "ending", !.failed = TRUE]
             x == [ds[d] EXCEPT !.failed = TRUE]
  <2>1. r \in IoRecord /\ r.at = "ending" /\ r.ds = io[i].ds /\ r.buf = io[i].buf
      BY <1>1 DEF IoRecord
  <2>2. x \in DatasetRecord /\ x.at = ds[d].at
      BY <1>1 DEF DatasetRecord
  <2>3. /\ io' = [io EXCEPT ![i] = r] /\ ds' = [ds EXCEPT ![d] = x]
        /\ UNCHANGED <<core, queue, view, free, ahead, fetching, host>>
      BY <1>1, <1>3 DEF DriverThrows, readVars, Types
  <2>4. /\ Types' /\ \A j \in Ios : io'[j] = IF j = i THEN r ELSE io[j]
        /\ \A e \in Datasets : ds'[e] = IF e = d THEN x ELSE ds[e]
      BY <1>1, <2>1, <2>2, <2>3 DEF Types
  <2> HIDE DEF r, x
  <2>5. Queued'
      BY <1>3, <2>1, <2>3, <2>4, QueuedKept DEF DriverThrows
  <2> QED BY <1>1, <2>1, <2>2, <2>3, <2>4, <2>5, IoStep
<1>4. CASE EndWrite(i)
  <2> DEFINE r == [io[i] EXCEPT !.at = "ended"]
             x == [ds[d] EXCEPT !.pending = @ - 1]
  <2>1. r \in IoRecord /\ r.at = "ended" /\ r.ds = io[i].ds /\ r.buf = io[i].buf
      BY <1>1 DEF IoRecord
  <2>2. x \in DatasetRecord /\ x.at = ds[d].at
      BY <1>1 DEF DatasetRecord
  <2>3. /\ io' = [io EXCEPT ![i] = r] /\ ds' = [ds EXCEPT ![d] = x]
        /\ free' = free \cup {io[i].buf}
        /\ UNCHANGED <<core, queue, view, ahead, fetching, host>>
      BY <1>1, <1>4 DEF EndWrite, readVars, Types
  <2>4. /\ Types' /\ \A j \in Ios : io'[j] = IF j = i THEN r ELSE io[j]
        /\ \A e \in Datasets : ds'[e] = IF e = d THEN x ELSE ds[e]
      BY <1>1, <2>1, <2>2, <2>3, Typed DEF Types
  <2> HIDE DEF r, x
  <2>5. Queued'
      BY <1>4, <2>1, <2>3, <2>4, QueuedKept DEF EndWrite
  <2> QED BY <1>1, <2>1, <2>2, <2>3, <2>4, <2>5, IoStep
<1> QED BY <1>2, <1>3, <1>4 DEF CallbackStep

\* A step is a fetch that comes and goes without a buffer, or one of these.
Rest == <<core, ds, io, queue, view, free, ahead, fetching, host>>

LEMMA StepIsOne ==
    ASSUME [Next]_vars
    PROVE  \/ UNCHANGED Rest
           \/ TakeWrite
           \/ \E i \in Ios : CallbackStep(i)
           \/ \E d \in Datasets, b \in Buffers : FetchBegin(d, b) \/ FetchEnd(d, b)
           \/ \E h \in Hosts : CallBegin(h) \/ CallStep(h) \/ Timeout(h)
<1>1. \A h \in Hosts : ScheduleFetch(h) => UNCHANGED Rest
    BY DEF ScheduleFetch, Rest
<1>2. \A d \in Datasets : FetchStart(d) \/ FetchStarved(d) => UNCHANGED Rest
    BY DEF FetchStart, FetchStarved, Rest
<1>3. UNCHANGED vars => UNCHANGED Rest
    BY DEF vars, Rest
<1> QED BY <1>1, <1>2, <1>3, Zenon DEF Next, FetchStep

\* Prefetching moves buffers only.
LEMMA FetchControl ==
    ASSUME Control, NEW d \in Datasets, NEW b \in Buffers, FetchBegin(d, b) \/ FetchEnd(d, b)
    PROVE  Control'
<1>1. UNCHANGED <<core, ds, io, queue, view, host>>
    BY DEF FetchBegin, FetchEnd
<1>2. free' \in SUBSET Buffers /\ ahead' \in [Datasets -> SUBSET Buffers] /\ fetching' \in [Datasets -> SUBSET Buffers]
    BY DEF Control, Types, FetchBegin, FetchEnd
<1>3. Types' /\ Queued' /\ Opens' /\ JoiningAlone'
    BY <1>1, <1>2 DEF Control, Types, Queued, Opens, JoiningAlone
<1>4. Calls' /\ Staging' /\ Draining'
    BY <1>1 DEF Control, Calls, Staging, Draining, On, InWrite, InDataset
<1> QED BY <1>3, <1>4 DEF Control

\* Calls that begin or return, and change nothing but where the thread is.
LEMMA EnterControl ==
    ASSUME Control, NEW h \in Hosts,
           \/ Finalize(h)
           \/ \E i \in Ios : Wait(h, i)
           \/ \E d \in Datasets : Flush(h, d) \/ Read(h, d)
    PROVE  Control'
<1> USE DEF Control
<1>1. CASE Finalize(h)
  <2>1. Types'
      BY <1>1, HostShapes DEF Types, Finalize, Goto, readVars
  <2> QED BY <1>1, <2>1, HostStep, HostShapes DEF Finalize, Goto, readVars, Idle
<1>2. ASSUME NEW i \in Ios, Wait(h, i) PROVE Control'
  <2>1. Types'
      BY <1>2, HostShapes DEF Types, Wait, Goto, readVars
  <2>2. /\ [at |-> "wait", io |-> i] \in HostState
        /\ host' = [host EXCEPT ![h] = [at |-> "wait", io |-> i]]
        /\ host[h] = Idle /\ core = "up" /\ \A g \in Hosts : host[g].at # "join"
        /\ io[i] # NoIo
        /\ UNCHANGED <<core, ds, io, queue, view>>
      BY <1>2, HostShapes DEF Wait, Goto, readVars, Ready, Returned
  <2> QED BY <2>1, <2>2, HostStep, HostShapes
<1>3. ASSUME NEW d \in Datasets, NEW a \in {"flush", "get"}, MayCall(h, d),
             Goto(h, [at |-> a, ds |-> d]), UNCHANGED <<core, ds, io, queue, readVars, free>>
      PROVE  Control'
  <2> DEFINE s == [at |-> a, ds |-> d]
  <2>1. s \in HostState /\ s.at = a /\ s.ds = d
      BY HostShapes
  <2>2. Types' /\ host' = [host EXCEPT ![h] = s]
      BY <1>3, <2>1 DEF Types, Goto, readVars
  <2>3. /\ host[h] = Idle /\ core = "up" /\ \A g \in Hosts : host[g].at # "join"
        /\ ds[d].at = "open"
        /\ \A g \in Hosts : ~(host[g].at = "drain" /\ host[g].ds = d)
      BY <1>3, InsideMeans DEF MayCall, Ready, Live, InDataset
  <2> HIDE DEF s
  <2> QED BY <1>3, <2>1, <2>2, <2>3, HostStep, HostShapes DEF readVars
<1>4. ASSUME NEW d \in Datasets, Flush(h, d) \/ Read(h, d) PROVE Control'
    BY <1>3, <1>4 DEF Flush, Read
<1> QED BY <1>1, <1>2, <1>4

LEMMA ReturnControl ==
    ASSUME Control, NEW h \in Hosts,
           WaitReturn(h) \/ FlushReturn(h) \/ Timeout(h) \/ ReadFails(h)
    PROVE  Control'
<1> USE DEF Control
<1>1. /\ host' = [host EXCEPT ![h] = Idle] /\ host[h].at \in {"wait", "flush", "get"}
      /\ UNCHANGED <<core, ds, io, queue, view, free, ahead, fetching>>
    BY DEF WaitReturn, FlushReturn, Timeout, ReadFails, Goto, readVars
<1>2. Types'
    BY <1>1, HostShapes DEF Types
<1> QED BY <1>1, <1>2, HostStep, HostShapes

LEMMA GetBufferControl ==
    ASSUME Control, NEW h \in Hosts, NEW b \in Buffers, GetBuffer(h, b)
    PROVE  Control'
<1> USE DEF Control
<1> DEFINE d == host[h].ds
           s == [at |-> "mint", ds |-> d, buf |-> b]
<1>1. host[h].at = "get" /\ d \in Datasets /\ ds[d].at = "open"
    BY Typed DEF GetBuffer, Calls, InDataset
<1>2. s \in HostState /\ s.at = "mint" /\ s.ds = d
    BY <1>1, HostShapes
<1>3. /\ host' = [host EXCEPT ![h] = s]
      /\ ahead' = [ahead EXCEPT ![d] = @ \ {b}]
      /\ UNCHANGED <<core, ds, io, queue, view, free, fetching>>
    BY DEF GetBuffer, Goto
<1>4. Types'
    BY <1>1, <1>2, <1>3 DEF Types
<1>5. \A g \in Hosts \ {h} : ~(host[g].at = "drain" /\ host[g].ds = d)
    BY <1>1 DEF Draining, On, InDataset
<1>6. core = "up" /\ \A g \in Hosts \ {h} : host[g].at # "join"
    BY <1>1, Typed DEF JoiningAlone
<1> HIDE DEF s
<1> QED BY <1>1, <1>2, <1>3, <1>4, <1>5, <1>6, HostStep, HostShapes

LEMMA CloseControl ==
    ASSUME Control, Counters, NEW h \in Hosts, NEW d \in Datasets, Close(h, d)
    PROVE  Control'
<1> USE DEF Control
<1> DEFINE s == [at |-> "drain", ds |-> d]
           x == [ds[d] EXCEPT !.cancelled = TRUE]
<1>1. /\ host[h] = Idle /\ core = "up" /\ \A g \in Hosts : host[g].at # "join"
      /\ ds[d].at = "open" /\ ds[d] # NoDataset /\ ds[d] \in DatasetRecord
      /\ \A g \in Hosts \ {h} : ~On(g, d)
      /\ ds[d].views = 0
  <2>1. \A g \in Hosts \ {h} : ~On(g, d)
      BY InsideMeans DEF Close, AloneOn, On
  <2> QED BY <2>1, Typed DEF Close, MayCall, Ready, Live, MayClose
<1>2. \A v \in Views : view[v] # NoView => view[v].ds # d
  <2>1. IsFiniteSet(ViewsOf(d)) /\ Cardinality(ViewsOf(d)) = 0
      BY <1>1, CoreAssumption, FS_Subset DEF ViewsOf, Counters
  <2>2. ViewsOf(d) = {}
      BY <2>1, FS_EmptySet
  <2> QED BY <2>2 DEF ViewsOf
<1>3. s \in HostState /\ s.at = "drain" /\ s.ds = d
    BY HostShapes
<1>4. x \in DatasetRecord /\ x.at = ds[d].at
    BY <1>1 DEF DatasetRecord
<1>5. /\ host' = [host EXCEPT ![h] = s] /\ ds' = [ds EXCEPT ![d] = x]
      /\ free' = free \cup ahead[d] /\ ahead' = [ahead EXCEPT ![d] = {}]
      /\ UNCHANGED <<core, io, queue, view, fetching>>
    BY DEF Close, Goto
<1>6. Types' /\ \A e \in Datasets : ds'[e].at = ds[e].at
    BY <1>3, <1>4, <1>5 DEF Types
<1>7. \A g \in Hosts \ {h} : ~(host[g].at = "drain" /\ host[g].ds = d)
    BY <1>1 DEF On, InDataset
<1> HIDE DEF s
<1> QED BY <1>1, <1>2, <1>3, <1>5, <1>6, <1>7, HostStep, HostShapes

\* The views and their count change together.
LEMMA MintControl ==
    ASSUME Control, NEW h \in Hosts, NEW v \in Views, MintView(h, v)
    PROVE  Control'
<1> USE DEF Control
<1> DEFINE d == host[h].ds
           r == [at |-> "live", ds |-> d, buf |-> host[h].buf]
           x == [ds[d] EXCEPT !.views = @ + 1]
<1>1. /\ host[h].at = "mint" /\ d \in Datasets /\ host[h].buf \in Buffers
      /\ ds[d].at = "open" /\ ds[d] \in DatasetRecord
    BY Typed DEF MintView, Calls, InDataset
<1>2. r \in ViewRecord /\ r.ds = d
    BY <1>1 DEF ViewRecord
<1>3. x \in DatasetRecord /\ x.at = ds[d].at
    BY <1>1 DEF DatasetRecord
<1>4. /\ view' = [view EXCEPT ![v] = r] /\ ds' = [ds EXCEPT ![d] = x]
      /\ host' = [host EXCEPT ![h] = Idle]
      /\ UNCHANGED <<core, io, queue, ahead, fetching, free>>
    BY DEF MintView, Goto
<1>5. /\ Types'
      /\ \A e \in Datasets : ds'[e].at = ds[e].at
      /\ \A w \in Views : view'[w] = IF w = v THEN r ELSE view[w]
      /\ \A g \in Hosts : host'[g] = IF g = h THEN Idle ELSE host[g]
    BY <1>1, <1>2, <1>3, <1>4, HostShapes DEF Types
<1>6. \A e \in Datasets : ds'[e] = NoDataset <=> ds[e] = NoDataset
  <2>1. \A e \in Datasets : ds'[e] \in DatasetRecord \cup {NoDataset} /\ ds[e] \in DatasetRecord \cup {NoDataset}
      BY <1>5 DEF Types
  <2> QED BY <1>5, <2>1, DatasetShapes
<1> HIDE DEF r, x
<1>7. Calls' /\ Staging'
    BY <1>1, <1>4, <1>5, Typed, HostShapes DEF Calls, Staging, InWrite, InDataset
<1>8. Queued' /\ JoiningAlone'
    BY <1>4, <1>5, HostShapes DEF Queued, JoiningAlone
<1>9. Opens'
    BY <1>1, <1>2, <1>4, <1>5, <1>6, Typed DEF Opens
<1>10. Draining'
  <2>1. \A g \in Hosts : ~(host[g].at = "drain" /\ host[g].ds = d)
      BY <1>1 DEF Draining, On, InDataset
  <2> QED BY <1>2, <1>4, <1>5, <2>1, HostShapes DEF Draining, On, InDataset, InWrite
<1> QED BY <1>5, <1>7, <1>8, <1>9, <1>10

LEMMA ReleaseControl ==
    ASSUME Control, NEW h \in Hosts, NEW v \in Views, ReleaseView(h, v)
    PROVE  Control'
<1> USE DEF Control
<1> DEFINE d == view[v].ds
           x == [ds[d] EXCEPT !.views = @ - 1]
<1>1. view[v] # NoView /\ d \in Datasets /\ view[v].buf \in Buffers /\ ds[d] \in DatasetRecord
    BY Typed DEF ReleaseView, Opens
<1>2. x \in DatasetRecord /\ x.at = ds[d].at
    BY <1>1 DEF DatasetRecord
<1>3. /\ view' = [view EXCEPT ![v] = NoView] /\ ds' = [ds EXCEPT ![d] = x]
      /\ free' = free \cup {view[v].buf}
      /\ UNCHANGED <<core, io, queue, ahead, fetching, host>>
    BY DEF ReleaseView
<1>4. /\ Types'
      /\ \A e \in Datasets : ds'[e].at = ds[e].at
      /\ \A w \in Views : view'[w] = IF w = v THEN NoView ELSE view[w]
    BY <1>1, <1>2, <1>3 DEF Types
<1>5. \A e \in Datasets : ds'[e] = NoDataset <=> ds[e] = NoDataset
  <2>1. \A e \in Datasets : ds'[e] \in DatasetRecord \cup {NoDataset} /\ ds[e] \in DatasetRecord \cup {NoDataset}
      BY <1>4 DEF Types
  <2> QED BY <1>4, <2>1, DatasetShapes
<1> HIDE DEF x
<1>6. Calls' /\ Staging'
    BY <1>3, <1>4, Typed DEF Calls, Staging, InWrite, InDataset
<1>7. Queued' /\ JoiningAlone'
    BY <1>3 DEF Queued, JoiningAlone
<1>8. Opens'
    BY <1>3, <1>4, <1>5, Typed DEF Opens
<1>9. Draining'
    BY <1>3, <1>4 DEF Draining, On, InDataset, InWrite
<1> QED BY <1>4, <1>6, <1>7, <1>8, <1>9

\* The driver is closed: nobody is left on the dataset.
LEMMA CloseDriverControl ==
    ASSUME Control, NEW h \in Hosts, CloseDriver(h)
    PROVE  Control'
<1> USE DEF Control
<1> DEFINE d == host[h].ds
<1>1. host[h].at = "drain" /\ d \in Datasets /\ ds[d].at = "open" /\ ds[d] \in DatasetRecord
    BY Typed DEF CloseDriver, Calls, InDataset
<1>2. PICK late \in BOOLEAN : ds' = [ds EXCEPT ![d].at = "closed", ![d].gaveUp = late]
    BY DEF CloseDriver
<1> DEFINE x == [ds[d] EXCEPT !.at = "closed", !.gaveUp = late]
<1>3. x \in DatasetRecord /\ x.at = "closed"
    BY <1>1 DEF DatasetRecord
<1>4. /\ ds' = [ds EXCEPT ![d] = x] /\ host' = [host EXCEPT ![h] = Idle]
      /\ UNCHANGED <<core, io, queue, view, ahead, fetching, free>>
    BY <1>1, <1>2 DEF CloseDriver, Goto, readVars, Types
<1>5. /\ Types'
      /\ \A e \in Datasets : ds'[e] = IF e = d THEN x ELSE ds[e]
      /\ \A g \in Hosts : host'[g] = IF g = h THEN Idle ELSE host[g]
    BY <1>1, <1>3, <1>4, HostShapes DEF Types
<1> HIDE DEF x
<1>6. Calls'
    BY <1>1, <1>4, <1>5, Typed, HostShapes DEF Calls, Draining, On, InWrite, InDataset
<1>7. Staging' /\ Draining'
    BY <1>1, <1>4, <1>5, HostShapes DEF Staging, Draining, On, InWrite, InDataset
<1>8. Queued' /\ JoiningAlone'
    BY <1>4, <1>5, HostShapes DEF Queued, JoiningAlone
<1>9. Opens'
    BY <1>1, <1>3, <1>4, <1>5, Typed, DatasetShapes DEF Opens
<1> QED BY <1>5, <1>6, <1>7, <1>8, <1>9

LEMMA TearDownControl ==
    ASSUME Control, NEW h \in Hosts, TearDown(h)
    PROVE  Control'
<1> USE DEF Control
<1>1. /\ host[h].at = "join" /\ core = "up" /\ core' = "down"
      /\ \A g \in Hosts \ {h} : host[g] = Idle
      /\ UNCHANGED <<io, queue, view, fetching>>
    BY DEF TearDown, JoiningAlone
<1>2. \A g \in Hosts : host'[g] = Idle /\ host'[g].at = "idle"
    BY <1>1, HostShapes DEF TearDown, Goto, Types
<1>3. \A d \in Datasets : /\ ds'[d] \in DatasetRecord \cup {NoDataset}
                          /\ ds'[d] = NoDataset <=> ds[d] = NoDataset
  <2> SUFFICES ASSUME NEW d \in Datasets
               PROVE  /\ ds'[d] \in DatasetRecord \cup {NoDataset}
                      /\ ds'[d] = NoDataset <=> ds[d] = NoDataset
      OBVIOUS
  <2>1. ds'[d] = IF ds[d] = NoDataset THEN NoDataset ELSE [ds[d] EXCEPT !.at = "closed"]
      BY DEF TearDown
  <2>2. ds[d] # NoDataset => /\ [ds[d] EXCEPT !.at = "closed"] \in DatasetRecord
                             /\ [ds[d] EXCEPT !.at = "closed"] # NoDataset
    <3>1. ds[d] # NoDataset => ds[d] \in DatasetRecord
        BY Typed
    <3>2. ds[d] # NoDataset => [ds[d] EXCEPT !.at = "closed"] \in DatasetRecord
        BY <3>1 DEF DatasetRecord
    <3> QED BY <3>2, DatasetShapes
  <2> QED BY <2>1, <2>2
<1>4. Types'
  <2>1. ds' \in [Datasets -> DatasetRecord \cup {NoDataset}]
      BY <1>3 DEF TearDown
  <2>2. free' \in SUBSET Buffers /\ ahead' \in [Datasets -> SUBSET Buffers]
      BY DEF TearDown, Types
  <2>3. host' \in [Hosts -> HostState]
      BY HostShapes DEF TearDown, Goto, Types
  <2> QED BY <1>1, <2>1, <2>2, <2>3 DEF Types
<1>5. \A i \in Ios : io[i].at # "staged"
    BY <1>1, HostShapes DEF Staging
<1>6. Calls' /\ Staging' /\ Draining' /\ JoiningAlone'
    BY <1>1, <1>2, <1>5 DEF Calls, Staging, Draining, JoiningAlone, InWrite, InDataset
<1>7. Queued' /\ Opens'
    BY <1>1, <1>3, Typed DEF Queued, Opens
<1> QED BY <1>4, <1>6, <1>7

\* Every step keeps the control; close rests on the count of the views.
LEMMA ControlStep ==
    ASSUME Control, Counters, [Next]_vars
    PROVE  Control'
<1>1. CASE UNCHANGED Rest
    BY <1>1 DEF Rest, Control, Types, Calls, Staging, Queued, Opens, Draining, JoiningAlone, On, InWrite, InDataset
<1>2. CASE TakeWrite
    BY <1>2, RunWriteControl DEF TakeWrite
<1>3. ASSUME NEW i \in Ios, CallbackStep(i) PROVE Control'
    BY <1>3, CallbackControl
<1>4. ASSUME NEW d \in Datasets, NEW b \in Buffers, FetchBegin(d, b) \/ FetchEnd(d, b) PROVE Control'
    BY <1>4, FetchControl
<1>5. ASSUME NEW h \in Hosts, CallBegin(h) PROVE Control'
    BY <1>5, InitCoreControl, OpenControl, WriteControl, EnterControl, CloseControl, ReleaseControl DEF CallBegin
<1>6. ASSUME NEW h \in Hosts, CallStep(h) PROVE Control'
    BY <1>6, SubmitControl, CountControl, ReturnControl, GetBufferControl, MintControl, CloseDriverControl,
       TearDownControl DEF CallStep
<1>7. ASSUME NEW h \in Hosts, Timeout(h) PROVE Control'
    BY <1>7, ReturnControl
<1> QED BY <1>1, <1>2, <1>3, <1>4, <1>5, <1>6, <1>7, StepIsOne

-----------------------------------------------------------------------------
(* Buffers.                                                               *)

\* A buffer is where Held says, and so in one place, or in none when what
\* holds it is a dropped write.
LEMMA HeldIsOnePlace ==
    ASSUME NEW b \in Buffers, Held(b)
    PROVE  Cardinality(Places(b)) = IF b \in Leaked THEN 0 ELSE 1
<1>0. b \in Leaked <=> \E j \in InIo(b) : io[j].at = "dropped"
    BY DEF Leaked, InIo
<1>1. \A p : p \in Places(b) <=>
          \/ p = <<"free">> /\ InFree(b) # {}
          \/ \E j \in InIo(b) : io[j].at # "dropped" /\ p = <<"io", j>>
          \/ \E e \in InAhead(b) : p = <<"ahead", e>>
          \/ \E e \in InFetching(b) : p = <<"fetching", e>>
          \/ \E g \in InRead(b) : p = <<"read", g>>
          \/ \E w \in InView(b) : p = <<"view", w>>
    BY DEF Places, InFree, InIo, InAhead, InFetching, InRead, InView
<1>2. IF b \in Leaked THEN Places(b) = {} ELSE \E p : Places(b) = {p}
  <2>1. CASE One(InFree(b), InIo(b), InAhead(b), InFetching(b), InRead(b), InView(b))
    <3>1. \A p : p \in Places(b) <=> p = <<"free">>
        BY <1>1, <2>1, Zenon DEF One
    <3>2. Places(b) = {<<"free">>}
        BY <3>1
    <3>3. b \notin Leaked
        BY <1>0, <2>1, Zenon DEF One
    <3> QED BY <3>2, <3>3, Zenon
  <2>2. CASE One(InIo(b), InFree(b), InAhead(b), InFetching(b), InRead(b), InView(b))
    <3>1. PICK x : InIo(b) = {x}
        BY <2>2 DEF One
    <3>2. \A p : p \in Places(b) <=> io[x].at # "dropped" /\ p = <<"io", x>>
        BY <1>1, <2>2, <3>1 DEF One
    <3>3. b \in Leaked <=> io[x].at = "dropped"
        BY <1>0, <3>1
    <3>4. Places(b) = IF b \in Leaked THEN {} ELSE {<<"io", x>>}
        BY <3>2, <3>3
    <3> QED BY <3>4, Zenon
  <2>3. CASE One(InAhead(b), InFree(b), InIo(b), InFetching(b), InRead(b), InView(b))
    <3>1. PICK x : InAhead(b) = {x}
        BY <2>3 DEF One
    <3>2. \A p : p \in Places(b) <=> p = <<"ahead", x>>
        BY <1>1, <2>3, <3>1 DEF One
    <3>3. Places(b) = {<<"ahead", x>>}
        BY <3>2
    <3>4. b \notin Leaked
        BY <1>0, <2>3, Zenon DEF One
    <3> QED BY <3>3, <3>4, Zenon
  <2>4. CASE One(InFetching(b), InFree(b), InIo(b), InAhead(b), InRead(b), InView(b))
    <3>1. PICK x : InFetching(b) = {x}
        BY <2>4 DEF One
    <3>2. \A p : p \in Places(b) <=> p = <<"fetching", x>>
        BY <1>1, <2>4, <3>1 DEF One
    <3>3. Places(b) = {<<"fetching", x>>}
        BY <3>2
    <3>4. b \notin Leaked
        BY <1>0, <2>4, Zenon DEF One
    <3> QED BY <3>3, <3>4, Zenon
  <2>5. CASE One(InRead(b), InFree(b), InIo(b), InAhead(b), InFetching(b), InView(b))
    <3>1. PICK x : InRead(b) = {x}
        BY <2>5 DEF One
    <3>2. \A p : p \in Places(b) <=> p = <<"read", x>>
        BY <1>1, <2>5, <3>1 DEF One
    <3>3. Places(b) = {<<"read", x>>}
        BY <3>2
    <3>4. b \notin Leaked
        BY <1>0, <2>5, Zenon DEF One
    <3> QED BY <3>3, <3>4, Zenon
  <2>6. CASE One(InView(b), InFree(b), InIo(b), InAhead(b), InFetching(b), InRead(b))
    <3>1. PICK x : InView(b) = {x}
        BY <2>6 DEF One
    <3>2. \A p : p \in Places(b) <=> p = <<"view", x>>
        BY <1>1, <2>6, <3>1 DEF One
    <3>3. Places(b) = {<<"view", x>>}
        BY <3>2
    <3>4. b \notin Leaked
        BY <1>0, <2>6, Zenon DEF One
    <3> QED BY <3>3, <3>4, Zenon
  <2> QED BY <2>1, <2>2, <2>3, <2>4, <2>5, <2>6, Zenon DEF Held
<1> QED BY <1>2, FS_Singleton, FS_EmptySet

LEMMA HeldInit == Init => HeldOnce
<1> SUFFICES ASSUME Init, NEW b \in Buffers PROVE Held(b)
    BY DEF HeldOnce
<1>1. InFree(b) = {"free"} /\ InIo(b) = {} /\ InAhead(b) = {} /\ InFetching(b) = {} /\ InRead(b) = {} /\ InView(b) = {}
    BY DEF Init, InFree, InIo, InAhead, InFetching, InRead, InView, NoIo, NoView, Idle
<1> QED BY <1>1 DEF Held, One

\* No buffer moves.
LEMMA HeldFrame ==
    ASSUME HeldOnce,
           \A b \in Buffers : /\ InFree(b)' = InFree(b) /\ InIo(b)' = InIo(b)
                              /\ InAhead(b)' = InAhead(b) /\ InFetching(b)' = InFetching(b)
                              /\ InRead(b)' = InRead(b) /\ InView(b)' = InView(b)
    PROVE  HeldOnce'
BY DEF HeldOnce, Held

\* A thread that is not minting goes where it does not mint.
LEMMA ReadKept ==
    ASSUME Types, NEW h \in Hosts, NEW s, host' = [host EXCEPT ![h] = s],
           host[h].at # "mint", s.at # "mint"
    PROVE  \A b \in Buffers : InRead(b)' = InRead(b)
BY DEF Types, InRead

LEMMA WriteHeld ==
    ASSUME Control, HeldOnce, NEW h \in Hosts, NEW d \in Datasets, NEW x \in Vars, NEW i \in Ios, NEW b \in Buffers,
           Write(h, d, x, i, b)
    PROVE  HeldOnce'
<1> DEFINE r == [at |-> "staged", ds |-> d, var |-> x, buf |-> b, completed |-> FALSE, failed |-> FALSE]
<1>1. /\ \A j \in Ios : io'[j] = IF j = i THEN r ELSE io[j]
      /\ io[i] = NoIo /\ r.at = "staged" /\ r.buf = b
      /\ b \in free /\ free' = free \ {b} /\ UNCHANGED <<ahead, fetching, view>>
    BY DEF Write, readVars, Control, Types
<1>2. \A c \in Buffers : InRead(c)' = InRead(c)
  <2>1. /\ host' = [host EXCEPT ![h] = [at |-> "submit", io |-> i]]
        /\ host[h].at # "mint" /\ [at |-> "submit", io |-> i].at # "mint"
      BY DEF Write, Goto, MayCall, Ready, Idle
  <2> QED BY <2>1, ReadKept DEF Control
<1> HIDE DEF r
<1>3. \A c \in Buffers : /\ InFree(c)' = IF c = b THEN {} ELSE InFree(c)
                         /\ InFree(b) = {"free"}
                         /\ InAhead(c)' = InAhead(c) /\ InFetching(c)' = InFetching(c) /\ InView(c)' = InView(c)
    BY <1>1 DEF InFree, InAhead, InFetching, InView
<1>4. \A c \in Buffers : InIo(c)' = IF c = b THEN InIo(c) \cup {i} ELSE InIo(c)
    BY <1>1 DEF InIo, NoIo
<1> QED BY <1>2, <1>3, <1>4 DEF HeldOnce, Held, One

LEMMA EndWriteHeld ==
    ASSUME Control, Control', HeldOnce, NEW i \in Ios, EndWrite(i)
    PROVE  HeldOnce'
<1> DEFINE m == io[i].buf
<1>1. /\ io[i].at = "ending" /\ io'[i].at = "ended" /\ m \in Buffers
      /\ \A j \in Ios \ {i} : io'[j] = io[j]
      /\ free' = free \cup {m} /\ UNCHANGED <<ahead, fetching, view, host>>
  <2>1. io[i].at = "ending" /\ io[i] \in IoRecord /\ m \in Buffers
      BY Typed DEF Control, EndWrite
  <2>2. [io[i] EXCEPT !.at = "ended"].at = "ended"
      BY <2>1 DEF IoRecord
  <2> QED BY <2>1, <2>2 DEF EndWrite, readVars, Control, Types
<1>2. \A c \in Buffers : /\ InFree(c)' = IF c = m THEN {"free"} ELSE InFree(c)
                         /\ InAhead(c)' = InAhead(c) /\ InFetching(c)' = InFetching(c)
                         /\ InRead(c)' = InRead(c) /\ InView(c)' = InView(c)
    BY <1>1 DEF InFree, InAhead, InFetching, InRead, InView
<1>3. \A c \in Buffers : InIo(c)' = InIo(c) \ {i}
    BY <1>1 DEF InIo
<1>4. i \in InIo(m) /\ \A c \in Buffers : i \in InIo(c) => c = m
    BY <1>1 DEF InIo
<1> QED BY <1>1, <1>2, <1>3, <1>4 DEF HeldOnce, Held, One

LEMMA FetchHeld ==
    ASSUME Control, HeldOnce, NEW d \in Datasets, NEW b \in Buffers, FetchBegin(d, b) \/ FetchEnd(d, b)
    PROVE  HeldOnce'
<1>1. UNCHANGED <<io, view, host>>
    BY DEF FetchBegin, FetchEnd
<1>2. \A c \in Buffers : InIo(c)' = InIo(c) /\ InRead(c)' = InRead(c) /\ InView(c)' = InView(c)
    BY <1>1 DEF InIo, InRead, InView
<1>3. CASE FetchBegin(d, b)
  <2>1. /\ b \in free /\ free' = free \ {b} /\ UNCHANGED ahead
        /\ \A e \in Datasets : fetching'[e] = IF e = d THEN fetching[e] \cup {b} ELSE fetching[e]
      BY <1>3 DEF FetchBegin, Control, Types
  <2>2. \A c \in Buffers : /\ InFree(c)' = IF c = b THEN {} ELSE InFree(c)
                           /\ InFree(b) = {"free"}
                           /\ InAhead(c)' = InAhead(c)
                           /\ InFetching(c)' = IF c = b THEN InFetching(c) \cup {d} ELSE InFetching(c)
      BY <2>1 DEF InFree, InAhead, InFetching
  <2> QED BY <1>2, <2>2 DEF HeldOnce, Held, One
<1>4. CASE FetchEnd(d, b)
  <2>1. /\ b \in fetching[d]
        /\ \A e \in Datasets : fetching'[e] = IF e = d THEN fetching[e] \ {b} ELSE fetching[e]
      BY <1>4 DEF FetchEnd, Control, Types
  <2>2. /\ d \in InFetching(b)
        /\ \A c \in Buffers : InFetching(c)' = IF c = b THEN InFetching(c) \ {d} ELSE InFetching(c)
      BY <2>1 DEF InFetching
  <2>3. CASE ahead' = [ahead EXCEPT ![d] = @ \cup {b}] /\ UNCHANGED free
    <3>1. \A e \in Datasets : ahead'[e] = IF e = d THEN ahead[e] \cup {b} ELSE ahead[e]
        BY <2>3 DEF Control, Types
    <3>2. \A c \in Buffers : /\ InFree(c)' = InFree(c)
                             /\ InAhead(c)' = IF c = b THEN InAhead(c) \cup {d} ELSE InAhead(c)
        BY <2>3, <3>1 DEF InFree, InAhead
    <3> QED BY <1>2, <2>2, <3>2 DEF HeldOnce, Held, One
  <2>4. CASE free' = free \cup {b} /\ UNCHANGED ahead
    <3>1. \A c \in Buffers : /\ InFree(c)' = IF c = b THEN {"free"} ELSE InFree(c)
                             /\ InAhead(c)' = InAhead(c)
        BY <2>4 DEF InFree, InAhead
    <3> QED BY <1>2, <2>2, <3>1 DEF HeldOnce, Held, One
  <2> QED BY <1>4, <2>3, <2>4 DEF FetchEnd
<1> QED BY <1>3, <1>4

LEMMA GetBufferHeld ==
    ASSUME Control, HeldOnce, NEW h \in Hosts, NEW b \in Buffers, GetBuffer(h, b)
    PROVE  HeldOnce'
<1> DEFINE d == host[h].ds
           s == [at |-> "mint", ds |-> d, buf |-> b]
<1>1. /\ host[h].at = "get" /\ d \in Datasets /\ b \in ahead[d]
      /\ s.at = "mint" /\ s.buf = b
      /\ \A e \in Datasets : ahead'[e] = IF e = d THEN ahead[e] \ {b} ELSE ahead[e]
      /\ \A g \in Hosts : host'[g] = IF g = h THEN s ELSE host[g]
      /\ UNCHANGED <<io, view, free, fetching>>
    BY Typed DEF GetBuffer, Goto, Control, Types, InDataset
<1> HIDE DEF s
<1>2. \A c \in Buffers : /\ InFree(c)' = InFree(c) /\ InIo(c)' = InIo(c)
                         /\ InFetching(c)' = InFetching(c) /\ InView(c)' = InView(c)
    BY <1>1 DEF InFree, InIo, InFetching, InView
<1>3. /\ d \in InAhead(b)
      /\ \A c \in Buffers : InAhead(c)' = IF c = b THEN InAhead(c) \ {d} ELSE InAhead(c)
    BY <1>1 DEF InAhead
<1>4. \A c \in Buffers : InRead(c)' = IF c = b THEN InRead(c) \cup {h} ELSE InRead(c)
    BY <1>1 DEF InRead
<1> QED BY <1>2, <1>3, <1>4 DEF HeldOnce, Held, One

LEMMA MintHeld ==
    ASSUME Control, HeldOnce, NEW h \in Hosts, NEW v \in Views, MintView(h, v)
    PROVE  HeldOnce'
<1> DEFINE b == host[h].buf
           r == [at |-> "live", ds |-> host[h].ds, buf |-> b]
<1>1. /\ host[h].at = "mint" /\ b \in Buffers /\ view[v] = NoView
      /\ r # NoView /\ r.buf = b
      /\ \A w \in Views : view'[w] = IF w = v THEN r ELSE view[w]
      /\ \A g \in Hosts : host'[g] = IF g = h THEN Idle ELSE host[g]
      /\ UNCHANGED <<io, free, ahead, fetching>>
    BY Typed DEF MintView, Goto, Control, Types, NoView
<1> HIDE DEF r
<1>2. \A c \in Buffers : /\ InFree(c)' = InFree(c) /\ InIo(c)' = InIo(c)
                         /\ InAhead(c)' = InAhead(c) /\ InFetching(c)' = InFetching(c)
    BY <1>1 DEF InFree, InIo, InAhead, InFetching
<1>3. /\ h \in InRead(b)
      /\ \A c \in Buffers : InRead(c)' = IF c = b THEN InRead(c) \ {h} ELSE InRead(c)
    BY <1>1 DEF InRead, Idle
<1>4. \A c \in Buffers : InView(c)' = IF c = b THEN InView(c) \cup {v} ELSE InView(c)
    BY <1>1 DEF InView
<1> QED BY <1>1, <1>2, <1>3, <1>4 DEF HeldOnce, Held, One

LEMMA ReleaseHeld ==
    ASSUME Control, HeldOnce, NEW h \in Hosts, NEW v \in Views, ReleaseView(h, v)
    PROVE  HeldOnce'
<1> DEFINE b == view[v].buf
<1>1. /\ view[v] # NoView /\ b \in Buffers
      /\ \A w \in Views : view'[w] = IF w = v THEN NoView ELSE view[w]
      /\ free' = free \cup {b}
      /\ UNCHANGED <<io, ahead, fetching, host>>
    BY Typed DEF ReleaseView, Control, Types
<1>2. \A c \in Buffers : /\ InIo(c)' = InIo(c) /\ InAhead(c)' = InAhead(c)
                         /\ InFetching(c)' = InFetching(c) /\ InRead(c)' = InRead(c)
                         /\ InFree(c)' = IF c = b THEN {"free"} ELSE InFree(c)
    BY <1>1 DEF InFree, InIo, InAhead, InFetching, InRead
<1>3. /\ v \in InView(b)
      /\ \A c \in Buffers : InView(c)' = IF c = b THEN InView(c) \ {v} ELSE InView(c)
    BY <1>1 DEF InView
<1> QED BY <1>1, <1>2, <1>3 DEF HeldOnce, Held, One

\* What is ahead in some datasets, all or one, goes back.
LEMMA GiveBackHeld ==
    ASSUME Control, HeldOnce, NEW D \in SUBSET Datasets,
           free' = free \cup UNION {ahead[d] : d \in D},
           \A d \in Datasets : ahead'[d] = IF d \in D THEN {} ELSE ahead[d],
           \A b \in Buffers : InRead(b)' = InRead(b),
           UNCHANGED <<io, view, fetching>>
    PROVE  HeldOnce'
<1>1. \A c \in Buffers : /\ InIo(c)' = InIo(c) /\ InFetching(c)' = InFetching(c) /\ InView(c)' = InView(c)
                         /\ InFree(c)' = IF InAhead(c) \cap D = {} THEN InFree(c) ELSE {"free"}
                         /\ InAhead(c)' = InAhead(c) \ D
    BY DEF InFree, InIo, InAhead, InFetching, InView
<1> SUFFICES ASSUME NEW c \in Buffers PROVE Held(c)'
    BY DEF HeldOnce
<1>2. CASE InAhead(c) \cap D = {}
  <2>1. InAhead(c)' = InAhead(c)
      BY <1>1, <1>2
  <2> QED BY <1>1, <1>2, <2>1 DEF HeldOnce, Held
<1>3. CASE InAhead(c) \cap D # {}
  <2>1. /\ InAhead(c) # {} /\ InFree(c) = {} /\ InIo(c) = {} /\ InFetching(c) = {} /\ InRead(c) = {} /\ InView(c) = {}
        /\ \E e : InAhead(c) = {e}
      BY <1>3 DEF HeldOnce, Held, One
  <2>2. InAhead(c)' = {}
      BY <1>1, <1>3, <2>1
  <2> QED BY <1>1, <1>3, <2>1, <2>2 DEF Held, One
<1> QED BY <1>2, <1>3

\* The thread moves, and no buffer does.
LEMMA HostHeld ==
    ASSUME Control, HeldOnce, NEW h \in Hosts, NEW s, host' = [host EXCEPT ![h] = s],
           host[h].at # "mint", s.at # "mint", UNCHANGED <<io, view, free, ahead, fetching>>
    PROVE  HeldOnce'
<1>1. \A b \in Buffers : InRead(b)' = InRead(b)
    BY ReadKept DEF Control
<1>2. \A b \in Buffers : /\ InFree(b)' = InFree(b) /\ InIo(b)' = InIo(b)
                         /\ InAhead(b)' = InAhead(b) /\ InFetching(b)' = InFetching(b) /\ InView(b)' = InView(b)
    BY DEF InFree, InIo, InAhead, InFetching, InView
<1> QED BY <1>1, <1>2, HeldFrame

\* A write moves on, with its buffer.
LEMMA IoHeld ==
    ASSUME Control, HeldOnce, NEW i \in Ios,
           io[i].at \notin {"none", "ended"}, io'[i].at \notin {"none", "ended"}, io'[i].buf = io[i].buf,
           \A j \in Ios \ {i} : io'[j] = io[j],
           \A b \in Buffers : InRead(b)' = InRead(b),
           UNCHANGED <<view, free, ahead, fetching>>
    PROVE  HeldOnce'
<1>1. \A b \in Buffers : InIo(b)' = InIo(b)
    BY DEF InIo
<1>2. \A b \in Buffers : /\ InFree(b)' = InFree(b) /\ InView(b)' = InView(b)
                         /\ InAhead(b)' = InAhead(b) /\ InFetching(b)' = InFetching(b)
    BY DEF InFree, InAhead, InFetching, InView
<1> QED BY <1>1, <1>2, HeldFrame

LEMMA SubmitHeld ==
    ASSUME Control, HeldOnce, NEW h \in Hosts, Submit(h)
    PROVE  HeldOnce'
<1> DEFINE i == host[h].io
           a == IF Len(queue) < QueueCap THEN "queued" ELSE "dropped"
           r == [io[i] EXCEPT !.at = a]
<1>1. host[h].at = "submit" /\ i \in Ios /\ io[i] \in IoRecord /\ io[i].at = "staged"
    BY Typed DEF Control, Submit, Calls, Staging, InWrite
<1>2. r.at \in {"queued", "dropped"} /\ r.buf = io[i].buf
    BY <1>1 DEF IoRecord
<1>3. /\ \A j \in Ios : io'[j] = IF j = i THEN r ELSE io[j]
      /\ host' = [host EXCEPT ![h] = [at |-> "count", io |-> i]]
      /\ UNCHANGED <<view, free, ahead, fetching>>
    BY DEF Submit, Goto, readVars, Control, Types
<1>4. \A b \in Buffers : InRead(b)' = InRead(b)
  <2>1. [at |-> "count", io |-> i].at # "mint"
      OBVIOUS
  <2> QED BY <1>1, <1>3, <2>1, ReadKept DEF Control
<1> HIDE DEF r
<1> QED BY <1>1, <1>2, <1>3, <1>4, IoHeld

LEMMA RunWriteHeld ==
    ASSUME Control, HeldOnce, NEW n \in 1 .. Len(queue), RunWrite(n)
    PROVE  HeldOnce'
<1> DEFINE i == queue[n]
           r == [io[i] EXCEPT !.at = "running"]
<1>1. i \in Ios /\ io[i].at = "queued" /\ io[i] \in IoRecord
  <2>1. i \in Ios /\ io[i].at = "queued"
      BY DEF Control, Types, Queued
  <2> QED BY <2>1, Typed DEF Control
<1>2. r.at = "running" /\ r.buf = io[i].buf
    BY <1>1 DEF IoRecord
<1>3. /\ \A j \in Ios : io'[j] = IF j = i THEN r ELSE io[j]
      /\ UNCHANGED <<view, free, ahead, fetching, host>>
    BY DEF RunWrite, readVars, Control, Types
<1>4. \A b \in Buffers : InRead(b)' = InRead(b)
    BY <1>3 DEF InRead
<1> HIDE DEF r
<1> QED BY <1>1, <1>2, <1>3, <1>4, IoHeld

LEMMA CallbackHeld ==
    ASSUME Control, HeldOnce, NEW i \in Ios, CallbackStep(i)
    PROVE  HeldOnce'
<1>1. CASE EndWrite(i)
    BY <1>1, EndWriteHeld, CallbackControl
<1>2. CASE DriverWrites(i) \/ DriverThrows(i)
  <2>1. io[i].at = "running" /\ io[i] \in IoRecord
      BY <1>2, Typed DEF DriverWrites, DriverThrows, Control
  <2>2. /\ [io[i] EXCEPT !.at = "ending", !.completed = TRUE].at = "ending"
        /\ [io[i] EXCEPT !.at = "ending", !.failed = TRUE].at = "ending"
      BY <2>1 DEF IoRecord
  <2>3. io' = [io EXCEPT ![i] = [io[i] EXCEPT !.at = "ending", !.completed = TRUE]]
            \/ io' = [io EXCEPT ![i] = [io[i] EXCEPT !.at = "ending", !.failed = TRUE]]
      BY <1>2 DEF DriverWrites, DriverThrows, Control, Types
  <2>4. io'[i].at = "ending" /\ UNCHANGED <<view, free, ahead, fetching, host>>
      BY <1>2, <2>2, <2>3 DEF DriverWrites, DriverThrows, readVars, Control, Types
  <2>5. \A b \in Buffers : InRead(b)' = InRead(b)
      BY <2>4 DEF InRead
  <2>6. io'[i].buf = io[i].buf /\ \A j \in Ios \ {i} : io'[j] = io[j]
      BY CallbackControl
  <2> QED BY <2>1, <2>4, <2>5, <2>6, IoHeld
<1> QED BY <1>1, <1>2 DEF CallbackStep

LEMMA EnterHeld ==
    ASSUME Control, HeldOnce, NEW h \in Hosts,
           \/ Finalize(h)
           \/ \E i \in Ios : Wait(h, i)
           \/ \E d \in Datasets : Flush(h, d) \/ Read(h, d)
    PROVE  HeldOnce'
<1>1. /\ host[h].at = "idle" /\ UNCHANGED <<io, view, free, ahead, fetching>>
      /\ \/ host' = [host EXCEPT ![h] = [at |-> "join"]]
         \/ \E i \in Ios : host' = [host EXCEPT ![h] = [at |-> "wait", io |-> i]]
         \/ \E d \in Datasets, a \in {"flush", "get"} : host' = [host EXCEPT ![h] = [at |-> a, ds |-> d]]
    BY DEF Finalize, Wait, Flush, Read, MayCall, Ready, Goto, readVars, Idle
<1>2. CASE host' = [host EXCEPT ![h] = [at |-> "join"]]
    BY <1>1, <1>2, HostHeld
<1>3. ASSUME NEW i \in Ios, host' = [host EXCEPT ![h] = [at |-> "wait", io |-> i]] PROVE HeldOnce'
    BY <1>1, <1>3, HostHeld
<1>4. ASSUME NEW d \in Datasets, NEW a \in {"flush", "get"}, host' = [host EXCEPT ![h] = [at |-> a, ds |-> d]]
      PROVE  HeldOnce'
    BY <1>1, <1>4, HostHeld
<1> QED BY <1>1, <1>2, <1>3, <1>4

LEMMA ReturnHeld ==
    ASSUME Control, HeldOnce, NEW h \in Hosts,
           WaitReturn(h) \/ FlushReturn(h) \/ Timeout(h) \/ ReadFails(h) \/ Count(h) \/ CloseDriver(h)
    PROVE  HeldOnce'
<1>1. /\ host' = [host EXCEPT ![h] = Idle] /\ host[h].at # "mint" /\ Idle.at # "mint"
      /\ UNCHANGED <<io, view, free, ahead, fetching>>
    BY DEF WaitReturn, FlushReturn, Timeout, ReadFails, Count, CloseDriver, Goto, readVars, Idle
<1> QED BY <1>1, HostHeld

LEMMA CloseHeld ==
    ASSUME Control, HeldOnce, NEW h \in Hosts, NEW d \in Datasets, Close(h, d)
    PROVE  HeldOnce'
<1>1. /\ host' = [host EXCEPT ![h] = [at |-> "drain", ds |-> d]]
      /\ host[h].at # "mint" /\ [at |-> "drain", ds |-> d].at # "mint"
      /\ free' = free \cup UNION {ahead[e] : e \in {d}}
      /\ \A e \in Datasets : ahead'[e] = IF e \in {d} THEN {} ELSE ahead[e]
      /\ UNCHANGED <<io, view, fetching>>
    BY DEF Close, MayCall, Ready, Goto, Control, Types, Idle
<1>2. \A b \in Buffers : InRead(b)' = InRead(b)
    BY <1>1, ReadKept DEF Control
<1> QED BY <1>1, <1>2, GiveBackHeld

LEMMA TearDownHeld ==
    ASSUME Control, HeldOnce, NEW h \in Hosts, TearDown(h)
    PROVE  HeldOnce'
<1>1. /\ host' = [host EXCEPT ![h] = Idle] /\ host[h].at # "mint" /\ Idle.at # "mint"
      /\ free' = free \cup UNION {ahead[e] : e \in Datasets}
      /\ \A e \in Datasets : ahead'[e] = IF e \in Datasets THEN {} ELSE ahead[e]
      /\ UNCHANGED <<io, view, fetching>>
    BY DEF TearDown, Goto, Idle
<1>2. \A b \in Buffers : InRead(b)' = InRead(b)
    BY <1>1, ReadKept DEF Control
<1> QED BY <1>1, <1>2, GiveBackHeld

LEMMA HeldStep ==
    ASSUME Control, HeldOnce, [Next]_vars
    PROVE  HeldOnce'
<1>1. CASE UNCHANGED Rest
    BY <1>1 DEF Rest, HeldOnce, Held, InFree, InIo, InAhead, InFetching, InRead, InView
<1>2. CASE TakeWrite
    BY <1>2, RunWriteHeld DEF TakeWrite
<1>3. ASSUME NEW i \in Ios, CallbackStep(i) PROVE HeldOnce'
    BY <1>3, CallbackHeld
<1>4. ASSUME NEW d \in Datasets, NEW b \in Buffers, FetchBegin(d, b) \/ FetchEnd(d, b) PROVE HeldOnce'
    BY <1>4, FetchHeld
<1>5. ASSUME NEW h \in Hosts, InitCore(h) \/ \E d \in Datasets, m \in Modes : OpenDataset(h, d, m) PROVE HeldOnce'
  <2>1. UNCHANGED <<io, view, free, ahead, fetching, host>>
      BY <1>5 DEF InitCore, OpenDataset, readVars
  <2> QED BY <2>1 DEF HeldOnce, Held, InFree, InIo, InAhead, InFetching, InRead, InView
<1>6. ASSUME NEW h \in Hosts, CallBegin(h) PROVE HeldOnce'
    BY <1>5, <1>6, WriteHeld, EnterHeld, CloseHeld, ReleaseHeld DEF CallBegin
<1>7. ASSUME NEW h \in Hosts, CallStep(h) PROVE HeldOnce'
    BY <1>7, SubmitHeld, ReturnHeld, GetBufferHeld, MintHeld, TearDownHeld DEF CallStep
<1>8. ASSUME NEW h \in Hosts, Timeout(h) PROVE HeldOnce'
    BY <1>8, ReturnHeld
<1> QED BY <1>1, <1>2, <1>3, <1>4, <1>6, <1>7, <1>8, StepIsOne

-----------------------------------------------------------------------------
(* The counters of a dataset.                                             *)

LEMMA CountersInit == Init => Counters
BY DEF Init, Counters

\* The counted sets are finite.
LEMMA CountedFinite ==
    ASSUME NEW d
    PROVE  /\ IsFiniteSet(Counted(d)) /\ Cardinality(Counted(d)) \in Nat
           /\ IsFiniteSet(Ended(d)) /\ Cardinality(Ended(d)) \in Nat
           /\ IsFiniteSet(ViewsOf(d)) /\ Cardinality(ViewsOf(d)) \in Nat
<1>1. Counted(d) \in SUBSET Ios /\ Ended(d) \in SUBSET Ios /\ ViewsOf(d) \in SUBSET Views
    BY DEF Counted, Ended, ViewsOf
<1>2. IsFiniteSet(Counted(d)) /\ IsFiniteSet(Ended(d)) /\ IsFiniteSet(ViewsOf(d))
    BY <1>1, CoreAssumption, FS_Subset
<1> QED BY <1>2, FS_CardinalityType

\* A thread moves and is neither before nor after in an uncounted write.
LEMMA UncountedKept ==
    ASSUME Types, NEW h \in Hosts, NEW s, host' = [host EXCEPT ![h] = s],
           ~InWrite(h), s.at \notin {"submit", "count"}
    PROVE  \A i \in Ios : Uncounted(i)' = Uncounted(i)
<1>1. \A g \in Hosts : host'[g] = IF g = h THEN s ELSE host[g]
    BY DEF Types
<1> QED BY <1>1 DEF Uncounted, InWrite

\* Writes keep their dataset and none ends.
LEMMA CountersFrame ==
    ASSUME Control, Counters,
           \A i \in Ios : /\ Uncounted(i)' = Uncounted(i)
                          /\ io'[i] = NoIo <=> io[i] = NoIo
                          /\ io'[i].ds = io[i].ds
                          /\ io'[i].at = "ended" <=> io[i].at = "ended",
           UNCHANGED view,
           \A d \in Datasets : ds'[d] # NoDataset =>
               ds[d] # NoDataset /\ ds'[d].pending = ds[d].pending /\ ds'[d].views = ds[d].views
    PROVE  Counters'
<1>1. \A d \in Datasets : Counted(d)' = Counted(d) /\ Ended(d)' = Ended(d) /\ ViewsOf(d)' = ViewsOf(d)
    BY DEF Counted, Ended, ViewsOf
<1> QED BY <1>1 DEF Counters

\* The thread moves; writes and views stay, and the counts of every dataset.
LEMMA HostCounters ==
    ASSUME Control, Counters, NEW h \in Hosts, NEW s, host' = [host EXCEPT ![h] = s],
           ~InWrite(h), s.at \notin {"submit", "count"}, UNCHANGED <<io, view>>,
           \A d \in Datasets : ds'[d] # NoDataset =>
               ds[d] # NoDataset /\ ds'[d].pending = ds[d].pending /\ ds'[d].views = ds[d].views
    PROVE  Counters'
<1>1. \A i \in Ios : Uncounted(i)' = Uncounted(i)
    BY UncountedKept DEF Control
<1> QED BY <1>1, CountersFrame

LEMMA EnterCounters ==
    ASSUME Control, Counters, NEW h \in Hosts,
           \/ Finalize(h)
           \/ \E i \in Ios : Wait(h, i)
           \/ \E d \in Datasets : Flush(h, d) \/ Read(h, d)
    PROVE  Counters'
<1>1. /\ host[h].at = "idle" /\ UNCHANGED <<io, view, ds>>
      /\ \/ host' = [host EXCEPT ![h] = [at |-> "join"]]
         \/ \E i \in Ios : host' = [host EXCEPT ![h] = [at |-> "wait", io |-> i]]
         \/ \E d \in Datasets, a \in {"flush", "get"} : host' = [host EXCEPT ![h] = [at |-> a, ds |-> d]]
    BY DEF Finalize, Wait, Flush, Read, MayCall, Ready, Goto, readVars, Idle
<1>2. CASE host' = [host EXCEPT ![h] = [at |-> "join"]]
    BY <1>1, <1>2, HostCounters DEF InWrite
<1>3. ASSUME NEW i \in Ios, host' = [host EXCEPT ![h] = [at |-> "wait", io |-> i]] PROVE Counters'
    BY <1>1, <1>3, HostCounters DEF InWrite
<1>4. ASSUME NEW d \in Datasets, NEW a \in {"flush", "get"}, host' = [host EXCEPT ![h] = [at |-> a, ds |-> d]]
      PROVE  Counters'
    BY <1>1, <1>4, HostCounters DEF InWrite
<1> QED BY <1>1, <1>2, <1>3, <1>4

LEMMA ReturnCounters ==
    ASSUME Control, Counters, NEW h \in Hosts,
           \/ WaitReturn(h) \/ FlushReturn(h) \/ Timeout(h) \/ ReadFails(h)
           \/ \E b \in Buffers : GetBuffer(h, b)
    PROVE  Counters'
<1>1. CASE WaitReturn(h) \/ FlushReturn(h) \/ Timeout(h) \/ ReadFails(h)
  <2>1. /\ host' = [host EXCEPT ![h] = Idle] /\ ~InWrite(h) /\ Idle.at = "idle" /\ UNCHANGED <<io, view, ds>>
      BY <1>1 DEF WaitReturn, FlushReturn, Timeout, ReadFails, Goto, readVars, InWrite, Idle
  <2> QED BY <2>1, HostCounters
<1>2. ASSUME NEW b \in Buffers, GetBuffer(h, b) PROVE Counters'
  <2>1. /\ host' = [host EXCEPT ![h] = [at |-> "mint", ds |-> host[h].ds, buf |-> b]]
        /\ ~InWrite(h) /\ UNCHANGED <<io, view, ds>>
      BY <1>2 DEF GetBuffer, Goto, InWrite
  <2> QED BY <2>1, HostCounters
<1> QED BY <1>1, <1>2

\* close and finalize change where a dataset is and not its counts.
LEMMA CloseCounters ==
    ASSUME Control, Counters, NEW h \in Hosts,
           (\E d \in Datasets : Close(h, d)) \/ CloseDriver(h) \/ TearDown(h)
    PROVE  Counters'
<1>1. ASSUME NEW d \in Datasets, Close(h, d) PROVE Counters'
  <2>1. ds[d] \in DatasetRecord /\ ds[d] # NoDataset
      BY <1>1, Typed DEF Control, Close, MayCall, Live
  <2> DEFINE x == [ds[d] EXCEPT !.cancelled = TRUE]
  <2>2. x.pending = ds[d].pending /\ x.views = ds[d].views
      BY <2>1 DEF DatasetRecord
  <2>3. /\ \A e \in Datasets : ds'[e] = IF e = d THEN x ELSE ds[e]
        /\ host' = [host EXCEPT ![h] = [at |-> "drain", ds |-> d]]
        /\ host[h].at = "idle" /\ UNCHANGED <<io, view>>
      BY <1>1 DEF Close, MayCall, Ready, Goto, Control, Types, Idle
  <2> HIDE DEF x
  <2>4. \A e \in Datasets : ds'[e] # NoDataset =>
            ds[e] # NoDataset /\ ds'[e].pending = ds[e].pending /\ ds'[e].views = ds[e].views
      BY <2>1, <2>2, <2>3
  <2> QED BY <2>3, <2>4, HostCounters DEF InWrite
<1>2. CASE CloseDriver(h)
  <2> DEFINE d == host[h].ds
  <2>1. host[h].at = "drain" /\ d \in Datasets /\ ds[d] \in DatasetRecord /\ ds[d] # NoDataset
      BY <1>2, Typed DEF Control, CloseDriver, Calls, InDataset
  <2>2. PICK late \in BOOLEAN : ds' = [ds EXCEPT ![d].at = "closed", ![d].gaveUp = late]
      BY <1>2 DEF CloseDriver
  <2> DEFINE x == [ds[d] EXCEPT !.at = "closed", !.gaveUp = late]
  <2>3. x.pending = ds[d].pending /\ x.views = ds[d].views
      BY <2>1 DEF DatasetRecord
  <2>4. /\ \A e \in Datasets : ds'[e] = IF e = d THEN x ELSE ds[e]
        /\ host' = [host EXCEPT ![h] = Idle] /\ UNCHANGED <<io, view>>
      BY <1>2, <2>1, <2>2 DEF CloseDriver, Goto, readVars, Control, Types
  <2> HIDE DEF x
  <2>5. \A e \in Datasets : ds'[e] # NoDataset =>
            ds[e] # NoDataset /\ ds'[e].pending = ds[e].pending /\ ds'[e].views = ds[e].views
      BY <2>1, <2>3, <2>4
  <2> QED BY <2>1, <2>4, <2>5, HostCounters DEF InWrite, Idle
<1>3. CASE TearDown(h)
  <2>1. ASSUME NEW d \in Datasets, ds'[d] # NoDataset
        PROVE  ds[d] # NoDataset /\ ds'[d].pending = ds[d].pending /\ ds'[d].views = ds[d].views
    <3>1. ds[d] # NoDataset /\ ds'[d] = [ds[d] EXCEPT !.at = "closed"]
        BY <1>3, <2>1 DEF TearDown
    <3>2. ds[d] \in DatasetRecord
        BY <3>1, Typed DEF Control
    <3> QED BY <3>1, <3>2 DEF DatasetRecord
  <2>2. host[h].at = "join" /\ host' = [host EXCEPT ![h] = Idle] /\ UNCHANGED <<io, view>>
      BY <1>3 DEF TearDown, Goto
  <2> QED BY <2>1, <2>2, HostCounters DEF InWrite, Idle
<1> QED BY <1>1, <1>2, <1>3

\* A new dataset has no write and no view.
LEMMA OpenCounters ==
    ASSUME Control, Counters, NEW h \in Hosts, NEW d \in Datasets, NEW m \in Modes, OpenDataset(h, d, m)
    PROVE  Counters'
<1>1. /\ \A e \in Datasets : ds'[e] = IF e = d THEN Opened(h, m) ELSE ds[e]
      /\ ds[d] = NoDataset /\ UNCHANGED <<io, view, host>>
    BY DEF OpenDataset, readVars, Control, Types
<1>2. \A e : Counted(e)' = Counted(e) /\ Ended(e)' = Ended(e) /\ ViewsOf(e)' = ViewsOf(e)
    BY <1>1 DEF Counted, Ended, ViewsOf, Uncounted, InWrite
<1>3. Counted(d) = {} /\ Ended(d) = {} /\ ViewsOf(d) = {}
    BY <1>1, IoShapes DEF Control, Opens, Counted, Ended, ViewsOf
<1>4. Opened(h, m).pending = 0 /\ Opened(h, m).views = 0
    BY DEF Opened
<1>5. Cardinality(Counted(d)) = 0 /\ Cardinality(Ended(d)) = 0 /\ Cardinality(ViewsOf(d)) = 0
    BY <1>3, FS_EmptySet
<1>6. /\ ds'[d].pending = Cardinality(Counted(d)') - Cardinality(Ended(d)')
      /\ ds'[d].views = Cardinality(ViewsOf(d)')
    BY <1>1, <1>2, <1>4, <1>5
<1> QED BY <1>1, <1>2, <1>6 DEF Counters

\* A write is not counted while its call is under way.
LEMMA WriteCounters ==
    ASSUME Control, Counters, NEW h \in Hosts, NEW d \in Datasets, NEW x \in Vars, NEW i \in Ios, NEW b \in Buffers,
           Write(h, d, x, i, b)
    PROVE  Counters'
<1> DEFINE r == [at |-> "staged", ds |-> d, var |-> x, buf |-> b, completed |-> FALSE, failed |-> FALSE]
           s == [at |-> "submit", io |-> i]
<1>1. /\ \A j \in Ios : io'[j] = IF j = i THEN r ELSE io[j]
      /\ \A g \in Hosts : host'[g] = IF g = h THEN s ELSE host[g]
      /\ io[i] = NoIo /\ host[h].at = "idle" /\ r.at = "staged" /\ s.at = "submit" /\ s.io = i
      /\ UNCHANGED <<ds, view>>
    BY DEF Write, MayCall, Ready, Goto, readVars, Control, Types, Idle
<1> HIDE DEF r, s
<1>2. Uncounted(i)' /\ \A j \in Ios \ {i} : Uncounted(j)' = Uncounted(j)
    BY <1>1 DEF Uncounted, InWrite
<1>3. \A e \in Datasets : Counted(e)' = Counted(e) /\ Ended(e)' = Ended(e) /\ ViewsOf(e)' = ViewsOf(e)
    BY <1>1, <1>2, IoShapes DEF Counted, Ended, ViewsOf
<1> QED BY <1>1, <1>3 DEF Counters

LEMMA SubmitCounters ==
    ASSUME Control, Counters, NEW h \in Hosts, Submit(h)
    PROVE  Counters'
<1> DEFINE i == host[h].io
           a == IF Len(queue) < QueueCap THEN "queued" ELSE "dropped"
           r == [io[i] EXCEPT !.at = a]
           s == [at |-> "count", io |-> i]
<1>1. host[h].at = "submit" /\ i \in Ios /\ io[i] \in IoRecord /\ io[i].at = "staged"
    BY Typed DEF Control, Submit, Calls, Staging, InWrite
<1>2. r \in IoRecord /\ r.at \in {"queued", "dropped"} /\ r.ds = io[i].ds
    BY <1>1 DEF IoRecord
<1>3. /\ \A j \in Ios : io'[j] = IF j = i THEN r ELSE io[j]
      /\ \A g \in Hosts : host'[g] = IF g = h THEN s ELSE host[g]
      /\ s.at = "count" /\ s.io = i
      /\ UNCHANGED <<ds, view>>
    BY DEF Submit, Goto, readVars, Control, Types
<1> HIDE DEF r, s
<1>4. \A j \in Ios : Uncounted(j)' = Uncounted(j)
    BY <1>1, <1>3 DEF Uncounted, InWrite
<1>5. \A j \in Ios : /\ io'[j] = NoIo <=> io[j] = NoIo
                     /\ io'[j].ds = io[j].ds
                     /\ io'[j].at = "ended" <=> io[j].at = "ended"
    BY <1>1, <1>2, <1>3, IoShapes
<1> QED BY <1>3, <1>4, <1>5, CountersFrame

\* pending_writes and the counted writes grow together.
LEMMA CountCounters ==
    ASSUME Control, Counters, NEW h \in Hosts, Count(h)
    PROVE  Counters'
<1>0. PICK i \in Ios : i = host[h].io
    BY Typed DEF Control, Count, InWrite
<1>0a. PICK d \in Datasets : d = io[i].ds
    BY <1>0, Typed DEF Control, Count, Calls, InWrite
<1> DEFINE x == [ds[d] EXCEPT !.pending = @ + 1]
<1>1. /\ host[h].at = "count" /\ host[h].io = i /\ io[i].ds = d
      /\ io[i] # NoIo /\ ds[d] \in DatasetRecord /\ ds[d] # NoDataset
    BY <1>0, <1>0a, Typed DEF Control, Count, Calls, InWrite
<1>2. x.pending = ds[d].pending + 1 /\ x.views = ds[d].views /\ ds[d].pending \in Int
    BY <1>1 DEF DatasetRecord
<1>3. /\ \A e \in Datasets : ds'[e] = IF e = d THEN x ELSE ds[e]
      /\ \A g \in Hosts : host'[g] = IF g = h THEN Idle ELSE host[g]
      /\ UNCHANGED <<io, view>>
    BY <1>1 DEF Count, Goto, readVars, Control, Types
<1> HIDE DEF x
<1>4. Uncounted(i) /\ ~Uncounted(i)' /\ \A j \in Ios \ {i} : Uncounted(j)' = Uncounted(j)
  <2>1. \A g \in Hosts \ {h} : InWrite(g) => host[g].io # i
      BY <1>1 DEF Control, Staging, InWrite
  <2> QED BY <1>1, <1>3, <2>1, HostShapes DEF Uncounted, InWrite
<1>5. /\ i \notin Counted(d) /\ Counted(d)' = Counted(d) \cup {i}
      /\ \A e \in Datasets \ {d} : Counted(e)' = Counted(e)
      /\ \A e \in Datasets : Ended(e)' = Ended(e) /\ ViewsOf(e)' = ViewsOf(e)
    BY <1>1, <1>3, <1>4 DEF Counted, Ended, ViewsOf
<1>6. Cardinality(Counted(d)') = Cardinality(Counted(d)) + 1
    BY <1>5, CountedFinite, FS_AddElement
<1>7. ds'[d].pending = Cardinality(Counted(d)') - Cardinality(Ended(d)')
    BY <1>1, <1>2, <1>3, <1>5, <1>6, CountedFinite DEF Counters
<1>8. ds'[d].views = Cardinality(ViewsOf(d)')
    BY <1>1, <1>2, <1>3, <1>5 DEF Counters
<1>9. ASSUME NEW e \in Datasets \ {d}, ds'[e] # NoDataset
      PROVE  /\ ds'[e].pending = Cardinality(Counted(e)') - Cardinality(Ended(e)')
             /\ ds'[e].views = Cardinality(ViewsOf(e)')
    BY <1>3, <1>5, <1>9 DEF Counters
<1> QED BY <1>7, <1>8, <1>9 DEF Counters

LEMMA RunWriteCounters ==
    ASSUME Control, Counters, NEW n \in 1 .. Len(queue), RunWrite(n)
    PROVE  Counters'
<1> DEFINE i == queue[n]
           r == [io[i] EXCEPT !.at = "running"]
<1>1. i \in Ios /\ io[i].at = "queued" /\ io[i] \in IoRecord
  <2>1. i \in Ios /\ io[i].at = "queued"
      BY DEF Control, Types, Queued
  <2> QED BY <2>1, Typed DEF Control
<1>2. r \in IoRecord /\ r.at = "running" /\ r.ds = io[i].ds
    BY <1>1 DEF IoRecord
<1>3. /\ \A j \in Ios : io'[j] = IF j = i THEN r ELSE io[j]
      /\ UNCHANGED <<ds, view, host>>
    BY DEF RunWrite, readVars, Control, Types
<1> HIDE DEF r
<1>4. \A j \in Ios : /\ Uncounted(j)' = Uncounted(j)
                     /\ io'[j] = NoIo <=> io[j] = NoIo
                     /\ io'[j].ds = io[j].ds
                     /\ io'[j].at = "ended" <=> io[j].at = "ended"
    BY <1>1, <1>2, <1>3, IoShapes DEF Uncounted, InWrite
<1> QED BY <1>3, <1>4, CountersFrame

\* A write that ends is counted off.
LEMMA CallbackCounters ==
    ASSUME Control, Counters, NEW i \in Ios, CallbackStep(i)
    PROVE  Counters'
<1>0. PICK d \in Datasets : d = io[i].ds
    BY CallbackControl DEF IoRecord
<1>1. /\ io[i] \in IoRecord /\ io'[i] \in IoRecord /\ io[i].ds = d /\ io'[i].ds = d
      /\ \A j \in Ios \ {i} : io'[j] = io[j]
      /\ io[i] # NoIo /\ io'[i] # NoIo
    BY <1>0, CallbackControl, IoShapes
<1>2. UNCHANGED <<host, view>>
    BY DEF CallbackStep, DriverWrites, DriverThrows, EndWrite, readVars
<1>3. ds[d] # NoDataset /\ ds[d] \in DatasetRecord
    BY <1>1, Typed DEF Control, Opens
<1>4. \A j \in Ios : Uncounted(j)' = Uncounted(j)
    BY <1>2 DEF Uncounted, InWrite
<1>5. CASE DriverWrites(i) \/ DriverThrows(i)
  <2>1. io[i].at # "ended" /\ io'[i].at # "ended"
    <3>1. io[i].at = "running"
        BY <1>5 DEF DriverWrites, DriverThrows
    <3>2. /\ [io[i] EXCEPT !.at = "ending", !.completed = TRUE].at = "ending"
          /\ [io[i] EXCEPT !.at = "ending", !.failed = TRUE].at = "ending"
        BY <1>1 DEF IoRecord
    <3>3. io' = [io EXCEPT ![i] = [io[i] EXCEPT !.at = "ending", !.completed = TRUE]]
              \/ io' = [io EXCEPT ![i] = [io[i] EXCEPT !.at = "ending", !.failed = TRUE]]
        BY <1>5 DEF DriverWrites, DriverThrows, Control, Types
    <3> QED BY <3>1, <3>2, <3>3 DEF Control, Types
  <2>2. \A e \in Datasets : ds'[e] # NoDataset =>
            ds[e] # NoDataset /\ ds'[e].pending = ds[e].pending /\ ds'[e].views = ds[e].views
    <3>1. /\ [ds[d] EXCEPT !.failed = TRUE].pending = ds[d].pending
          /\ [ds[d] EXCEPT !.failed = TRUE].views = ds[d].views
        BY <1>3 DEF DatasetRecord
    <3>2. UNCHANGED ds \/ ds' = [ds EXCEPT ![d] = [ds[d] EXCEPT !.failed = TRUE]]
        BY <1>1, <1>3, <1>5 DEF DriverWrites, DriverThrows, Control, Types
    <3> QED BY <1>3, <3>1, <3>2 DEF Control, Types
  <2> QED BY <1>1, <1>2, <1>4, <2>1, <2>2, CountersFrame
<1>6. CASE EndWrite(i)
  <2> DEFINE x == [ds[d] EXCEPT !.pending = @ - 1]
  <2>1. io[i].at = "ending" /\ io'[i].at = "ended"
    <3>1. [io[i] EXCEPT !.at = "ended"].at = "ended"
        BY <1>1 DEF IoRecord
    <3> QED BY <1>6, <3>1 DEF EndWrite, Control, Types
  <2>2. x.pending = ds[d].pending - 1 /\ x.views = ds[d].views /\ ds[d].pending \in Int
      BY <1>3 DEF DatasetRecord
  <2>3. \A e \in Datasets : ds'[e] = IF e = d THEN x ELSE ds[e]
      BY <1>1, <1>3, <1>6 DEF EndWrite, Control, Types
  <2> HIDE DEF x
  <2>4. /\ i \notin Ended(d) /\ Ended(d)' = Ended(d) \cup {i}
        /\ \A e \in Datasets \ {d} : Ended(e)' = Ended(e)
        /\ \A e \in Datasets : Counted(e)' = Counted(e) /\ ViewsOf(e)' = ViewsOf(e)
      BY <1>1, <1>2, <1>4, <2>1 DEF Counted, Ended, ViewsOf
  <2>5. Cardinality(Ended(d)') = Cardinality(Ended(d)) + 1
      BY <2>4, CountedFinite, FS_AddElement
  <2>6. ds'[d].pending = Cardinality(Counted(d)') - Cardinality(Ended(d)')
      BY <1>3, <2>2, <2>3, <2>4, <2>5, CountedFinite DEF Counters
  <2> QED BY <1>3, <2>2, <2>3, <2>4, <2>6 DEF Counters
<1> QED BY <1>5, <1>6 DEF CallbackStep

LEMMA MintCounters ==
    ASSUME Control, Counters, NEW h \in Hosts, NEW v \in Views, MintView(h, v)
    PROVE  Counters'
<1>0. PICK d \in Datasets : d = host[h].ds
    BY Typed DEF Control, MintView, InDataset
<1> DEFINE r == [at |-> "live", ds |-> d, buf |-> host[h].buf]
           x == [ds[d] EXCEPT !.views = @ + 1]
<1>1. host[h].at = "mint" /\ host[h].ds = d /\ ds[d] \in DatasetRecord /\ ds[d] # NoDataset
    BY <1>0, Typed DEF Control, MintView, Calls, InDataset
<1>2. x.pending = ds[d].pending /\ x.views = ds[d].views + 1 /\ ds[d].views \in Int
    BY <1>1 DEF DatasetRecord
<1>3. /\ \A e \in Datasets : ds'[e] = IF e = d THEN x ELSE ds[e]
      /\ \A w \in Views : view'[w] = IF w = v THEN r ELSE view[w]
      /\ r # NoView /\ r.ds = d /\ view[v] = NoView
      /\ host' = [host EXCEPT ![h] = Idle] /\ Idle.at = "idle"
      /\ UNCHANGED io
    BY <1>1 DEF MintView, Goto, Control, Types, Idle, NoView
<1> HIDE DEF x, r
<1>4. \A j \in Ios : Uncounted(j)' = Uncounted(j)
    BY <1>1, <1>3, UncountedKept DEF Control, InWrite
<1>5. /\ v \notin ViewsOf(d) /\ ViewsOf(d)' = ViewsOf(d) \cup {v}
      /\ \A e \in Datasets \ {d} : ViewsOf(e)' = ViewsOf(e)
      /\ \A e \in Datasets : Counted(e)' = Counted(e) /\ Ended(e)' = Ended(e)
    BY <1>3, <1>4 DEF Counted, Ended, ViewsOf
<1>6. Cardinality(ViewsOf(d)') = Cardinality(ViewsOf(d)) + 1
    BY <1>5, CountedFinite, FS_AddElement
<1>7. /\ ds'[d].views = Cardinality(ViewsOf(d)')
      /\ ds'[d].pending = Cardinality(Counted(d)') - Cardinality(Ended(d)')
    BY <1>1, <1>2, <1>3, <1>5, <1>6, CountedFinite DEF Counters
<1>8. ASSUME NEW e \in Datasets \ {d}, ds'[e] # NoDataset
      PROVE  /\ ds'[e].pending = Cardinality(Counted(e)') - Cardinality(Ended(e)')
             /\ ds'[e].views = Cardinality(ViewsOf(e)')
    BY <1>3, <1>5, <1>8 DEF Counters
<1> QED BY <1>7, <1>8 DEF Counters

LEMMA ReleaseCounters ==
    ASSUME Control, Counters, NEW h \in Hosts, NEW v \in Views, ReleaseView(h, v)
    PROVE  Counters'
<1>0. PICK d \in Datasets : d = view[v].ds
    BY Typed DEF Control, ReleaseView
<1> DEFINE x == [ds[d] EXCEPT !.views = @ - 1]
<1>1. view[v] # NoView /\ view[v].ds = d /\ ds[d] \in DatasetRecord /\ ds[d] # NoDataset
    BY <1>0, Typed DEF Control, ReleaseView, Opens
<1>2. x.pending = ds[d].pending /\ x.views = ds[d].views - 1 /\ ds[d].views \in Int
    BY <1>1 DEF DatasetRecord
<1>3. /\ \A e \in Datasets : ds'[e] = IF e = d THEN x ELSE ds[e]
      /\ \A w \in Views : view'[w] = IF w = v THEN NoView ELSE view[w]
      /\ UNCHANGED <<io, host>>
    BY <1>1 DEF ReleaseView, Control, Types
<1> HIDE DEF x
<1>4. \A j \in Ios : Uncounted(j)' = Uncounted(j)
    BY <1>3 DEF Uncounted, InWrite
<1>5. /\ v \in ViewsOf(d) /\ ViewsOf(d)' = ViewsOf(d) \ {v}
      /\ \A e \in Datasets \ {d} : ViewsOf(e)' = ViewsOf(e)
      /\ \A e \in Datasets : Counted(e)' = Counted(e) /\ Ended(e)' = Ended(e)
    BY <1>1, <1>3, <1>4 DEF Counted, Ended, ViewsOf
<1>6. Cardinality(ViewsOf(d)') = Cardinality(ViewsOf(d)) - 1
    BY <1>5, CountedFinite, FS_RemoveElement
<1>7. /\ ds'[d].views = Cardinality(ViewsOf(d)')
      /\ ds'[d].pending = Cardinality(Counted(d)') - Cardinality(Ended(d)')
    BY <1>1, <1>2, <1>3, <1>5, <1>6, CountedFinite DEF Counters
<1>8. ASSUME NEW e \in Datasets \ {d}, ds'[e] # NoDataset
      PROVE  /\ ds'[e].pending = Cardinality(Counted(e)') - Cardinality(Ended(e)')
             /\ ds'[e].views = Cardinality(ViewsOf(e)')
    BY <1>3, <1>5, <1>8 DEF Counters
<1> QED BY <1>7, <1>8 DEF Counters

LEMMA CountersStep ==
    ASSUME Control, Counters, [Next]_vars
    PROVE  Counters'
<1>0. ASSUME UNCHANGED <<io, host, view, ds>> PROVE Counters'
    BY <1>0 DEF Counters, Counted, Ended, ViewsOf, Uncounted, InWrite
<1>1. CASE UNCHANGED Rest
    BY <1>0, <1>1 DEF Rest
<1>2. CASE TakeWrite
    BY <1>2, RunWriteCounters DEF TakeWrite
<1>3. ASSUME NEW i \in Ios, CallbackStep(i) PROVE Counters'
    BY <1>3, CallbackCounters
<1>4. ASSUME NEW d \in Datasets, NEW b \in Buffers, FetchBegin(d, b) \/ FetchEnd(d, b) PROVE Counters'
    BY <1>0, <1>4 DEF FetchBegin, FetchEnd
<1>5. ASSUME NEW h \in Hosts, InitCore(h) PROVE Counters'
    BY <1>0, <1>5 DEF InitCore, readVars
<1>6. ASSUME NEW h \in Hosts, CallBegin(h) PROVE Counters'
    BY <1>5, <1>6, OpenCounters, WriteCounters, EnterCounters, CloseCounters, ReleaseCounters DEF CallBegin
<1>7. ASSUME NEW h \in Hosts, CallStep(h) PROVE Counters'
    BY <1>7, SubmitCounters, CountCounters, ReturnCounters, MintCounters, CloseCounters DEF CallStep
<1>8. ASSUME NEW h \in Hosts, Timeout(h) PROVE Counters'
    BY <1>8, ReturnCounters
<1> QED BY <1>1, <1>2, <1>3, <1>4, <1>6, <1>7, <1>8, StepIsOne

\* The counts of a dataset on which no write call is under way.
LEMMA CountersSettle ==
    ASSUME Control, Counters
    PROVE  PendingSettles
<1> SUFFICES ASSUME NEW d \in Datasets, ds[d] # NoDataset,
                    \A h \in Hosts : Inside(h, d) => ~InWrite(h)
             PROVE  ds[d].pending = Cardinality({i \in Ios : /\ io[i] # NoIo /\ io[i].ds = d
                                                             /\ Unfinished(i) \/ io[i].at = "dropped"})
    BY DEF PendingSettles, InWrite
<1> DEFINE S == {i \in Ios : /\ io[i] # NoIo /\ io[i].ds = d
                             /\ Unfinished(i) \/ io[i].at = "dropped"}
<1>1. \A i \in Ios : io[i] # NoIo /\ io[i].ds = d => ~Uncounted(i)
    BY InsideMeans DEF Control, Uncounted
<1>2. \A i \in Ios : io[i] # NoIo /\ io[i].ds = d => io[i].at # "staged"
    BY <1>1 DEF Control, Staging, Uncounted, InWrite
<1>3. \A i \in Ios : io[i] # NoIo => io[i].at \in {"staged", "queued", "dropped", "running", "ending", "ended"}
    BY Typed, IoShapes DEF Control
<1>4. Counted(d) = S \cup Ended(d) /\ S \cap Ended(d) = {}
    BY <1>1, <1>2, <1>3, IoShapes DEF Counted, Ended, Unfinished
<1>5. IsFiniteSet(S)
    BY CoreAssumption, FS_Subset
<1>6. Cardinality(S) \in Nat
    BY <1>5, FS_CardinalityType
<1> HIDE DEF S
<1>7. Cardinality(S \cup Ended(d)) = Cardinality(S) + Cardinality(Ended(d)) - Cardinality(S \cap Ended(d))
    BY <1>5, CountedFinite, FS_Union
<1>8. Cardinality(Counted(d)) = Cardinality(S) + Cardinality(Ended(d))
  <2>1. Cardinality(S \cap Ended(d)) = 0
      BY <1>4, FS_EmptySet
  <2>2. Cardinality(Ended(d)) \in Nat
      BY CountedFinite
  <2>3. Cardinality(Counted(d)) = Cardinality(S \cup Ended(d))
      BY <1>4
  <2> QED BY <1>6, <1>7, <2>1, <2>2, <2>3
<1>9. ds[d].pending = Cardinality(S)
    BY <1>6, <1>8, CountedFinite DEF Counters
<1> QED BY <1>9 DEF S

-----------------------------------------------------------------------------
(* Closing.                                                               *)

\* No dataset is closed, and no write becomes one that is to be done.
LEMMA SafeFrame ==
    ASSUME Control, NoWriteAfterClose,
           \A i \in Ios : Unfinished(i)' => Unfinished(i) /\ io'[i].ds = io[i].ds,
           \A d \in Datasets : ds[d] # NoDataset => ds'[d].at = ds[d].at /\ ds'[d].gaveUp = ds[d].gaveUp
    PROVE  NoWriteAfterClose'
<1>1. \A i \in Ios : Unfinished(i) => io[i].ds \in Datasets /\ ds[io[i].ds] # NoDataset
    BY Typed DEF Control, Opens, Unfinished
<1> QED BY <1>1 DEF NoWriteAfterClose

\* A dataset record with another count, or another flag, is where it was.
LEMMA SameDriver ==
    \A x \in DatasetRecord : \A n :
        /\ [x EXCEPT !.pending = n].at = x.at /\ [x EXCEPT !.pending = n].gaveUp = x.gaveUp
        /\ [x EXCEPT !.views = n].at = x.at /\ [x EXCEPT !.views = n].gaveUp = x.gaveUp
        /\ [x EXCEPT !.failed = n].at = x.at /\ [x EXCEPT !.failed = n].gaveUp = x.gaveUp
        /\ [x EXCEPT !.cancelled = n].at = x.at /\ [x EXCEPT !.cancelled = n].gaveUp = x.gaveUp
BY DEF DatasetRecord

\* Only close and finalize close a driver.
LEMMA DriversKept ==
    ASSUME Control, [Next]_vars, \A h \in Hosts : ~CloseDriver(h) /\ ~TearDown(h),
           NEW d \in Datasets, ds[d] # NoDataset
    PROVE  ds'[d].at = ds[d].at /\ ds'[d].gaveUp = ds[d].gaveUp
<1> DEFINE Same == ds'[d].at = ds[d].at /\ ds'[d].gaveUp = ds[d].gaveUp
<1>0. ds[d] \in DatasetRecord
    BY Typed DEF Control
<1>1. CASE UNCHANGED ds
    BY <1>1
<1>2. ASSUME NEW i \in Ios, CallbackStep(i) PROVE Same
  <2>1. \/ UNCHANGED ds
        \/ \E n : ds' = [ds EXCEPT ![io[i].ds] = [ds[io[i].ds] EXCEPT !.failed = n]]
        \/ \E n : ds' = [ds EXCEPT ![io[i].ds] = [ds[io[i].ds] EXCEPT !.pending = n]]
      BY <1>2, Zenon DEF CallbackStep, DriverWrites, DriverThrows, EndWrite
  <2>2. ASSUME NEW n, ds' = [ds EXCEPT ![io[i].ds] = [ds[io[i].ds] EXCEPT !.failed = n]] PROVE Same
      BY <1>0, <2>2, SameDriver DEF Control, Types
  <2>3. ASSUME NEW n, ds' = [ds EXCEPT ![io[i].ds] = [ds[io[i].ds] EXCEPT !.pending = n]] PROVE Same
      BY <1>0, <2>3, SameDriver DEF Control, Types
  <2> QED BY <1>1, <2>1, <2>2, <2>3
<1>3. ASSUME NEW h \in Hosts, NEW e \in Datasets, NEW m \in Modes, OpenDataset(h, e, m) PROVE Same
    BY <1>3 DEF OpenDataset, Control, Types
<1>4. ASSUME NEW h \in Hosts, NEW e \in Datasets, Close(h, e) PROVE Same
  <2>1. ds' = [ds EXCEPT ![e] = [ds[e] EXCEPT !.cancelled = TRUE]]
      BY <1>4 DEF Close
  <2> QED BY <1>0, <2>1, SameDriver DEF Control, Types
<1>5. ASSUME NEW h \in Hosts, Count(h) PROVE Same
  <2>1. \E n : ds' = [ds EXCEPT ![io[host[h].io].ds] = [ds[io[host[h].io].ds] EXCEPT !.pending = n]]
      BY <1>5 DEF Count
  <2> QED BY <1>0, <2>1, SameDriver DEF Control, Types
<1>6. ASSUME NEW h \in Hosts, NEW v \in Views, MintView(h, v) \/ ReleaseView(h, v) PROVE Same
  <2>1. \E e, n : ds' = [ds EXCEPT ![e] = [ds[e] EXCEPT !.views = n]]
      BY <1>6, Zenon DEF MintView, ReleaseView
  <2> QED BY <1>0, <2>1, SameDriver DEF Control, Types
<1>7. CASE TakeWrite
    BY <1>1, <1>7 DEF TakeWrite, RunWrite
<1>8. ASSUME NEW e \in Datasets, NEW b \in Buffers, FetchBegin(e, b) \/ FetchEnd(e, b) PROVE Same
    BY <1>1, <1>8 DEF FetchBegin, FetchEnd
<1>9. ASSUME NEW h \in Hosts, CallBegin(h) PROVE Same
  <2>1. CASE \/ InitCore(h) \/ Finalize(h)
             \/ \E e \in Datasets, x \in Vars, i \in Ios, b \in Buffers : Write(h, e, x, i, b)
             \/ \E i \in Ios : Wait(h, i)
             \/ \E e \in Datasets : Flush(h, e) \/ Read(h, e)
      BY <1>1, <2>1 DEF InitCore, Finalize, Write, Wait, Flush, Read
  <2> QED BY <1>3, <1>4, <1>6, <1>9, <2>1 DEF CallBegin
<1>10. ASSUME NEW h \in Hosts, CallStep(h) \/ Timeout(h) PROVE Same
  <2>1. CASE \/ Submit(h) \/ WaitReturn(h) \/ FlushReturn(h) \/ ReadFails(h) \/ Timeout(h)
             \/ \E b \in Buffers : GetBuffer(h, b)
      BY <1>1, <2>1 DEF Submit, WaitReturn, FlushReturn, ReadFails, Timeout, GetBuffer
  <2> QED BY <1>5, <1>6, <1>10, <2>1 DEF CallStep
<1>11. CASE UNCHANGED Rest
    BY <1>1, <1>11 DEF Rest
<1> QED BY <1>2, <1>7, <1>8, <1>9, <1>10, <1>11, StepIsOne

\* Only submit makes a write one that a worker has still to do.
LEMMA UnfinishedKept ==
    ASSUME Control, [Next]_vars, \A h \in Hosts : ~Submit(h),
           NEW i \in Ios, Unfinished(i)'
    PROVE  Unfinished(i) /\ io'[i].ds = io[i].ds
<1> DEFINE Was == Unfinished(i) /\ io'[i].ds = io[i].ds
<1>0. CASE UNCHANGED io
    BY <1>0 DEF Unfinished
<1>1. CASE UNCHANGED Rest
    BY <1>0, <1>1 DEF Rest
<1>2. ASSUME NEW n \in 1 .. Len(queue), RunWrite(n) PROVE Was
  <2>1. queue[n] \in Ios /\ io[queue[n]].at = "queued"
      BY DEF Control, Types, Queued
  <2>2. io[queue[n]] \in IoRecord
      BY <2>1, Typed DEF Control
  <2>3. [io[queue[n]] EXCEPT !.at = "running"].ds = io[queue[n]].ds
      BY <2>2 DEF IoRecord
  <2>4. io' = [io EXCEPT ![queue[n]] = [io[queue[n]] EXCEPT !.at = "running"]]
      BY <1>2 DEF RunWrite
  <2> QED BY <2>1, <2>3, <2>4 DEF Unfinished, Control, Types
<1>3. ASSUME NEW j \in Ios, CallbackStep(j) PROVE Was
  <2>1. Unfinished(j)
      BY <1>3 DEF CallbackStep, DriverWrites, DriverThrows, EndWrite, Unfinished
  <2> QED BY <1>3, <2>1, CallbackControl DEF Unfinished
<1>4. ASSUME NEW h \in Hosts, NEW d \in Datasets, NEW x \in Vars, NEW j \in Ios, NEW b \in Buffers,
             Write(h, d, x, j, b)
      PROVE  Was
  <2>1. \A k \in Ios : io'[k] = IF k = j THEN [at |-> "staged", ds |-> d, var |-> x, buf |-> b,
                                               completed |-> FALSE, failed |-> FALSE] ELSE io[k]
      BY <1>4 DEF Write, Control, Types
  <2>2. i # j
      BY <2>1 DEF Unfinished
  <2> QED BY <2>1, <2>2 DEF Unfinished
<1>5. ASSUME NEW d \in Datasets, NEW b \in Buffers, FetchBegin(d, b) \/ FetchEnd(d, b) PROVE Was
    BY <1>0, <1>5 DEF FetchBegin, FetchEnd
<1>6. ASSUME NEW h \in Hosts, CallBegin(h) PROVE Was
  <2>1. CASE \/ InitCore(h) \/ Finalize(h)
             \/ \E e \in Datasets, m \in Modes : OpenDataset(h, e, m)
             \/ \E j \in Ios : Wait(h, j)
             \/ \E e \in Datasets : Flush(h, e) \/ Read(h, e) \/ Close(h, e)
             \/ \E v \in Views : ReleaseView(h, v)
      BY <1>0, <2>1 DEF InitCore, Finalize, OpenDataset, Wait, Flush, Read, Close, ReleaseView
  <2> QED BY <1>4, <1>6, <2>1 DEF CallBegin
<1>7. ASSUME NEW h \in Hosts, CallStep(h) \/ Timeout(h) PROVE Was
  <2>1. UNCHANGED io
      BY <1>7 DEF CallStep, Count, WaitReturn, FlushReturn, ReadFails, Timeout, GetBuffer, MintView, CloseDriver, TearDown
  <2> QED BY <1>0, <2>1
<1> QED BY <1>1, <1>2, <1>3, <1>5, <1>6, <1>7, StepIsOne DEF TakeWrite

\* Only a read that mints makes a view.
LEMMA ViewsKept ==
    ASSUME [Next]_vars, Control, \A h \in Hosts, v \in Views : ~MintView(h, v),
           NEW v \in Views, view'[v] # NoView
    PROVE  view'[v] = view[v]
<1>0. CASE UNCHANGED view
    BY <1>0
<1>1. CASE UNCHANGED Rest \/ TakeWrite \/ \E i \in Ios : CallbackStep(i)
    BY <1>0, <1>1 DEF Rest, TakeWrite, RunWrite, CallbackStep, DriverWrites, DriverThrows, EndWrite, readVars
<1>2. CASE \E d \in Datasets, b \in Buffers : FetchBegin(d, b) \/ FetchEnd(d, b)
    BY <1>0, <1>2 DEF FetchBegin, FetchEnd
<1>3. ASSUME NEW h \in Hosts, NEW w \in Views, ReleaseView(h, w) PROVE view'[v] = view[v]
    BY <1>3 DEF ReleaseView, Control, Types
<1>4. ASSUME NEW h \in Hosts, CallBegin(h) PROVE view'[v] = view[v]
  <2>1. CASE \/ InitCore(h) \/ Finalize(h)
             \/ \E d \in Datasets, m \in Modes : OpenDataset(h, d, m)
             \/ \E d \in Datasets, x \in Vars, i \in Ios, b \in Buffers : Write(h, d, x, i, b)
             \/ \E j \in Ios : Wait(h, j)
             \/ \E d \in Datasets : Flush(h, d) \/ Read(h, d) \/ Close(h, d)
      BY <1>0, <2>1 DEF InitCore, Finalize, OpenDataset, Write, Wait, Flush, Read, Close, readVars
  <2> QED BY <1>3, <1>4, <2>1 DEF CallBegin
<1>5. ASSUME NEW h \in Hosts, CallStep(h) \/ Timeout(h) PROVE view'[v] = view[v]
  <2>1. UNCHANGED view
      BY <1>5 DEF CallStep, Submit, Count, WaitReturn, FlushReturn, ReadFails, Timeout, GetBuffer, CloseDriver,
         TearDown, readVars
  <2> QED BY <1>0, <2>1
<1> QED BY <1>1, <1>2, <1>4, <1>5, StepIsOne

\* A drained dataset has no write left to do.
LEMMA DrainedIsDone ==
    ASSUME Control, Counters, NEW h \in Hosts, host[h].at = "drain", Drained(host[h].ds)
    PROVE  \A i \in Ios : Unfinished(i) => io[i].ds # host[h].ds
<1> DEFINE d == host[h].ds
           S == {i \in Ios : /\ io[i] # NoIo /\ io[i].ds = d
                             /\ Unfinished(i) \/ io[i].at = "dropped"}
<1>1. d \in Datasets /\ ds[d] # NoDataset
    BY Typed DEF Control, Calls, InDataset
<1>2. \A g \in Hosts : Inside(g, d) => ~InWrite(g)
  <2>1. \A g \in Hosts : InWrite(g) => ~(io[host[g].io].ds = d)
      BY DEF Control, Draining, On, InWrite
  <2> QED BY <1>1, <2>1, InsideMeans DEF Control, InWrite, InDataset
<1>3. Cardinality(S) = 0
    BY <1>1, <1>2, CountersSettle DEF PendingSettles, Drained, InWrite
<1>4. IsFiniteSet(S)
    BY CoreAssumption, FS_Subset
<1>5. S = {}
    BY <1>3, <1>4, FS_EmptySet
<1> QED BY <1>5, Typed DEF Control, Unfinished

\* Close and finalize leave no write behind, short of the thirty seconds.
LEMMA SafeStep ==
    ASSUME Control, Counters, NoWriteAfterClose, ViewsPinned, [Next]_vars
    PROVE  NoWriteAfterClose' /\ ViewsPinned'
<1>1. ASSUME NEW h \in Hosts, Submit(h) PROVE NoWriteAfterClose' /\ ViewsPinned'
  <2> DEFINE i == host[h].io
             a == IF Len(queue) < QueueCap THEN "queued" ELSE "dropped"
             r == [io[i] EXCEPT !.at = a]
  <2>1. i \in Ios /\ io[i] \in IoRecord /\ ds[io[i].ds].at = "open"
      BY <1>1, Typed DEF Control, Submit, Calls, InWrite
  <2>2. r.ds = io[i].ds
      BY <2>1 DEF IoRecord
  <2>3. /\ \A j \in Ios : io'[j] = IF j = i THEN r ELSE io[j]
        /\ UNCHANGED <<ds, view, core>>
      BY <1>1 DEF Submit, readVars, Control, Types
  <2> HIDE DEF r
  <2> QED BY <2>1, <2>2, <2>3 DEF NoWriteAfterClose, ViewsPinned, Unfinished
<1>2. ASSUME NEW h \in Hosts, NEW v \in Views, MintView(h, v) PROVE NoWriteAfterClose' /\ ViewsPinned'
  <2>1. \A d \in Datasets : ds[d] # NoDataset => ds'[d].at = ds[d].at /\ ds'[d].gaveUp = ds[d].gaveUp
    <3>1. \A g \in Hosts : ~CloseDriver(g) /\ ~TearDown(g)
      <4>1. host[h].at = "mint" /\ host' = [host EXCEPT ![h] = Idle]
          BY <1>2 DEF MintView, Goto
      <4>2. ASSUME NEW g \in Hosts, CloseDriver(g) \/ TearDown(g) PROVE FALSE
        <5>1. host[g].at \in {"drain", "join"} /\ host' = [host EXCEPT ![g] = Idle]
            BY <4>2 DEF CloseDriver, TearDown, Goto
        <5> QED BY <4>1, <5>1 DEF Control, Types, Idle
      <4> QED BY <4>2
    <3> QED BY <3>1, DriversKept
  <2>2. /\ host[h].ds \in Datasets /\ ds[host[h].ds].at = "open" /\ ds[host[h].ds] # NoDataset
        /\ \A w \in Views : view'[w] = IF w = v THEN [at |-> "live", ds |-> host[h].ds, buf |-> host[h].buf] ELSE view[w]
        /\ UNCHANGED <<core, io>>
      BY <1>2, Typed DEF MintView, Control, Types, Calls, InDataset
  <2>3. \A w \in Views : view[w] # NoView => view[w].ds \in Datasets /\ ds[view[w].ds] # NoDataset
      BY Typed DEF Control, Opens
  <2>4. ViewsPinned'
      BY <2>1, <2>2, <2>3 DEF ViewsPinned
  <2>5. NoWriteAfterClose'
      BY <2>1, <2>2, SafeFrame DEF Unfinished
  <2> QED BY <2>4, <2>5
<1>3. ASSUME NEW h \in Hosts, CloseDriver(h) PROVE NoWriteAfterClose' /\ ViewsPinned'
  <2> DEFINE d == host[h].ds
  <2>1. host[h].at = "drain" /\ d \in Datasets /\ ds[d] \in DatasetRecord
      BY <1>3, Typed DEF CloseDriver, Control, Calls, InDataset
  <2>2. PICK late \in BOOLEAN : /\ Drained(d) \/ late
                                /\ ds' = [ds EXCEPT ![d].at = "closed", ![d].gaveUp = late]
      BY <1>3 DEF CloseDriver
  <2> DEFINE x == [ds[d] EXCEPT !.at = "closed", !.gaveUp = late]
  <2>3. x.at = "closed" /\ x.gaveUp = late
      BY <2>1 DEF DatasetRecord
  <2>4. /\ \A e \in Datasets : ds'[e] = IF e = d THEN x ELSE ds[e]
        /\ UNCHANGED <<core, io, view>>
      BY <1>3, <2>1, <2>2 DEF CloseDriver, readVars, Control, Types
  <2> HIDE DEF x
  <2>5. ASSUME NEW i \in Ios, Unfinished(i)', ds'[io'[i].ds].at = "closed" PROVE ds'[io'[i].ds].gaveUp
    <3>1. Unfinished(i) /\ io'[i].ds = io[i].ds /\ io[i].ds \in Datasets
        BY <2>4, <2>5, Typed DEF Unfinished, Control
    <3>2. CASE io[i].ds = d
        BY <2>1, <2>2, <2>3, <2>4, <3>1, <3>2, DrainedIsDone
    <3>3. CASE io[i].ds # d
        BY <2>4, <2>5, <3>1, <3>3 DEF NoWriteAfterClose
    <3> QED BY <3>2, <3>3
  <2>6. NoWriteAfterClose'
      BY <2>5 DEF NoWriteAfterClose
  <2>7. ViewsPinned'
      BY <2>1, <2>4, Typed DEF ViewsPinned, Control, Draining
  <2> QED BY <2>6, <2>7
<1>4. ASSUME NEW h \in Hosts, TearDown(h) PROVE NoWriteAfterClose' /\ ViewsPinned'
  <2>1. core' = "down" /\ io' = io /\ \A i \in Ios : ~Unfinished(i)
    <3>1. Len(queue) = 0 /\ \A i \in Ios : io[i].at \notin {"running", "ending"}
        BY <1>4 DEF TearDown, Joined
    <3> QED BY <1>4, <3>1 DEF TearDown, Control, Queued, Unfinished
  <2> QED BY <2>1 DEF NoWriteAfterClose, ViewsPinned, Unfinished
<1>5. CASE /\ \A h \in Hosts : ~Submit(h) /\ ~CloseDriver(h) /\ ~TearDown(h)
           /\ \A h \in Hosts, v \in Views : ~MintView(h, v)
  <2>1. NoWriteAfterClose'
      BY <1>5, UnfinishedKept, DriversKept, SafeFrame
  <2>2. ASSUME NEW v \in Views, view'[v] # NoView, core' # "down" PROVE ds'[view'[v].ds].at = "open"
    <3>1. view'[v] = view[v]
        BY <1>5, <2>2, ViewsKept
    <3>2. core # "down"
      <4>1. core = "down" => core' = "down"
          BY <1>5, StepIsOne DEF Rest, TakeWrite, RunWrite, CallbackStep, DriverWrites, DriverThrows, EndWrite, FetchBegin,
             FetchEnd, CallBegin, InitCore, Finalize, OpenDataset, Write, Wait, Flush, Read, Close, ReleaseView,
             CallStep, Count, WaitReturn, FlushReturn, ReadFails, Timeout, GetBuffer
      <4> QED BY <2>2, <4>1
    <3>3. view[v].ds \in Datasets /\ ds[view[v].ds] # NoDataset
        BY <2>2, <3>1, Typed DEF Control, Opens
    <3>4. ds'[view[v].ds].at = ds[view[v].ds].at
        BY <1>5, <3>3, DriversKept
    <3> QED BY <2>2, <3>1, <3>2, <3>4 DEF ViewsPinned
  <2> QED BY <2>1, <2>2 DEF ViewsPinned
<1> QED BY <1>1, <1>2, <1>3, <1>4, <1>5

-----------------------------------------------------------------------------
LEMMA InvInit == Init => IInv
<1> SUFFICES ASSUME Init PROVE IInv
    OBVIOUS
<1>1. NoWriteAfterClose /\ ViewsPinned
    BY DEF Init, NoWriteAfterClose, ViewsPinned, Unfinished, NoIo
<1> QED BY <1>1, ControlInit, CountersInit, HeldInit DEF IInv

LEMMA InvStep == IInv /\ [Next]_vars => IInv'
BY ControlStep, CountersStep, HeldStep, SafeStep DEF IInv

LEMMA Invariance == Spec => []IInv
BY InvInit, InvStep, PTL DEF Spec

\* Every staging buffer is in one place at every moment, whatever fails, is
\* cancelled, closed or finalized, and none is freed twice; the buffer of a
\* write the full queue dropped, and no other, is in none and is never back.
THEOREM BuffersNeverLost == Spec => []BuffersAccounted
<1>1. IInv => BuffersAccounted
    BY HeldIsOnePlace DEF IInv, HeldOnce, BuffersAccounted
<1> QED BY <1>1, Invariance, PTL

\* When no write call is under way on a dataset, pending_writes is the number
\* of its writes not finished, the dropped ones included.
THEOREM PendingWritesExact == Spec => []PendingSettles
<1>1. IInv => PendingSettles
    BY CountersSettle DEF IInv
<1> QED BY <1>1, Invariance, PTL

\* close and finalize leave no write for a closed driver, short of the thirty
\* seconds, and close no dataset under a live view.
THEOREM ClosesSafely == Spec => []CloseIsSafe
<1>1. IInv => CloseIsSafe
    BY DEF IInv, CloseIsSafe, ViewsPinned, ViewsPinDataset
<1> QED BY <1>1, Invariance, PTL
=============================================================================
