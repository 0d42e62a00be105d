------------------------- MODULE OrchestratorProofs -------------------------
(***************************************************************************)
(* The safety invariants of the event loop, for every task graph, rank     *)
(* pool and concurrency limit, and what the public calls of                *)
(* dagr::GraphOrchestrator do to the ranks, for every sequence of calls.   *)
(***************************************************************************)
EXTENDS GraphOrchestrator, FiniteSetTheorems, TLAPS

-----------------------------------------------------------------------------
(* The event loop.  None of its invariants is inductive alone: the exact   *)
(* countdown needs completed to be reached from running only, dispatching  *)
(* in order needs the countdown, the cascade needs the dispatch order, and *)
(* the ready queue needs both.                                             *)

\* The consumers of a failed or cancelled node are cancelled.
ConsumersCancelled ==
    \A e \in Edges : status[Producer[e]] \in {"failed", "cancelled"}
                        => status[Consumer[e]] = "cancelled"

\* The dispatch callback runs during the dispatch only, for a running node.
CallingRuns == (\A n \in calling : status[n] = "running") /\ (calling # {} => phase = "dispatch")

IInv == /\ TypeOK
        /\ RanksConserved
        /\ DependenciesHonoured
        /\ PendingDepsExact
        /\ InFlightExact
        /\ RanksFollowTasks
        /\ ReadyQueueExact
        /\ ConsumersCancelled
        /\ CallingRuns

core == <<status, pending_deps, ready_queue, in_flight, pool, free, held>>

\* The nodes are finitely many, and so are the edges into one of them.
LEMMA FiniteParts ==
    /\ IsFiniteSet(Nodes)
    /\ \A n \in Nodes : /\ IsFiniteSet(EdgesInto(n))
                        /\ IsFiniteSet(Incomplete(n))
                        /\ \A p \in Nodes : IsFiniteSet(EdgesBetween(p, n))
    /\ IsFiniteSet(Running)
<1>1. IsFiniteSet(Nodes)
  BY RankAssumption
<1>2. \A n : /\ EdgesInto(n) \in SUBSET Edges
             /\ Incomplete(n) \in SUBSET Edges
             /\ \A p : EdgesBetween(p, n) \in SUBSET Edges
  BY DEF EdgesInto, Incomplete, EdgesBetween
<1>3. Running \in SUBSET Nodes
  BY DEF Running
<1>4. IsFiniteSet(Edges)
  BY GraphAssumption
<1> QED
  BY <1>1, <1>2, <1>3, <1>4, FS_Subset

\* A cascade is closed: no cancellable consumer of a member is left out.
LEMMA CascadeClosed ==
    ASSUME NEW f \in Nodes, NEW st \in [Nodes -> Status], NEW e \in Edges,
           Producer[e] \in Cascade(f, st) \cup {f},
           Cancellable(st, Consumer[e])
    PROVE  Consumer[e] \in Cascade(f, st)
<1>1. Consumer[e] \in Nodes
  BY GraphAssumption
<1>2. ASSUME NEW S \in SUBSET Nodes, ClosedUnder(S, f, st)
      PROVE  Consumer[e] \in S
  <2>1. Producer[e] \in S \cup {f}
    BY <1>2 DEF Cascade
  <2> QED
    BY <1>2, <2>1 DEF ClosedUnder
<1> QED
  BY <1>1, <1>2 DEF Cascade

\* Every member of a cascade is a consumer of a member or of the failed node.
LEMMA CascadeReached ==
    ASSUME NEW f \in Nodes, NEW st \in [Nodes -> Status], NEW m \in Cascade(f, st)
    PROVE  /\ m \in Nodes
           /\ Cancellable(st, m)
           /\ \E e \in Edges : Consumer[e] = m /\ Producer[e] \in Cascade(f, st) \cup {f}
<1> DEFINE C == Cascade(f, st)
           S == {x \in C : \E e \in Edges : Consumer[e] = x /\ Producer[e] \in C \cup {f}}
<1>1. S \in SUBSET Nodes
  BY DEF Cascade
<1>2. ClosedUnder(S, f, st)
  <2> SUFFICES ASSUME NEW e \in Edges, Producer[e] \in S \cup {f},
                      Cancellable(st, Consumer[e])
               PROVE  Consumer[e] \in S
    BY DEF ClosedUnder
  <2>1. Producer[e] \in C \cup {f}
    OBVIOUS
  <2>2. Consumer[e] \in C
    BY <2>1, CascadeClosed
  <2> QED
    BY <2>1, <2>2
<1>3. m \in S
  BY <1>1, <1>2 DEF Cascade
<1> QED
  BY <1>3 DEF Cascade

\* What a failure does to the statuses when the failed node was ready or
\* running: it fails, and only pending nodes are cancelled.
LEMMA FailureEffect ==
    ASSUME IInv, NEW f \in Nodes, status[f] \in {"ready", "running"}
    PROVE  LET fs == FailedStatus(f) IN
           /\ fs \in [Nodes -> Status]
           /\ fs[f] = "failed"
           /\ \A m \in Nodes \ {f} :
                 \/ fs[m] = status[m]
                 \/ status[m] = "pending" /\ fs[m] = "cancelled"
           /\ \A e \in Edges : fs[Producer[e]] \in {"failed", "cancelled"}
                                  => fs[Consumer[e]] = "cancelled"
<1> DEFINE st == [status EXCEPT ![f] = "failed"]
           C  == Cascade(f, st)
           fs == [m \in Nodes |-> IF m \in C THEN "cancelled" ELSE st[m]]
<1>1. fs = FailedStatus(f)
  BY DEF FailedStatus
<1>2. status \in [Nodes -> Status] /\ st \in [Nodes -> Status]
  BY DEF IInv, TypeOK, Status
<1>3. \A m \in C : m \in Nodes /\ Cancellable(st, m)
                   /\ \E e \in Edges : Consumer[e] = m /\ Producer[e] \in C \cup {f}
  <2> HIDE DEF st
  <2> QED
    BY <1>2, CascadeReached
<1>4. f \notin C
  BY <1>2, <1>3 DEF Cancellable
<1>5. \A m \in C : status[m] = "pending"
  <2>0. ASSUME NEW m \in C PROVE status[m] \in {"pending", "ready"}
    <3>1. m \in Nodes /\ m # f /\ st[m] \in {"pending", "ready"}
      BY <1>3, <1>4, <2>0 DEF Cancellable
    <3> QED
      BY <1>2, <3>1
  <2> SUFFICES ASSUME NEW m \in C, status[m] = "ready" PROVE FALSE
    BY <2>0
  <2>1. PICK e \in Edges : Consumer[e] = m /\ Producer[e] \in C \cup {f}
    BY <1>3
  <2>2. status[Producer[e]] = "completed"
    BY <2>1 DEF IInv, DependenciesHonoured
  <2> QED
    BY <1>2, <1>3, <1>4, <2>1, <2>2 DEF Cancellable
<1>6. fs \in [Nodes -> Status]
  BY <1>2 DEF Status
<1>7. ASSUME NEW e \in Edges, fs[Producer[e]] \in {"failed", "cancelled"}
      PROVE  fs[Consumer[e]] = "cancelled"
  <2>1. Producer[e] \in Nodes /\ Consumer[e] \in Nodes
    BY GraphAssumption
  <2>2. CASE Producer[e] \in C \cup {f}
    <3>1. status[Producer[e]] # "completed"
      BY <2>2, <1>5
    <3>2. status[Consumer[e]] \notin {"ready", "running", "completed", "failed"}
      BY <3>1 DEF IInv, DependenciesHonoured
    <3>3. Consumer[e] # f
      BY <3>2
    <3>4. CASE status[Consumer[e]] = "pending"
      <4>1. Cancellable(st, Consumer[e])
        BY <1>2, <2>1, <3>3, <3>4 DEF Cancellable
      <4> QED
        BY <1>2, <2>1, <2>2, <4>1, CascadeClosed
    <3>5. CASE status[Consumer[e]] = "cancelled"
      BY <1>2, <2>1, <3>3, <3>5
    <3> QED
      BY <1>2, <2>1, <3>2, <3>4, <3>5 DEF Status
  <2>3. CASE Producer[e] \notin C \cup {f}
    <3>1. status[Producer[e]] \in {"failed", "cancelled"}
      BY <1>2, <1>7, <2>1, <2>3
    <3>2. status[Consumer[e]] = "cancelled"
      BY <3>1 DEF IInv, ConsumersCancelled
    <3> QED
      BY <1>2, <2>1, <3>2
  <2> QED
    BY <2>2, <2>3
<1>8. \A m \in Nodes \ {f} : \/ fs[m] = status[m]
                             \/ status[m] = "pending" /\ fs[m] = "cancelled"
  BY <1>2, <1>5
<1>9. fs[f] = "failed"
  BY <1>2, <1>4
<1> HIDE DEF fs
<1> QED
  BY <1>1, <1>6, <1>7, <1>8, <1>9

-----------------------------------------------------------------------------
LEMMA InitIInv == Init => IInv
<1> SUFFICES ASSUME Init PROVE IInv
  OBVIOUS
<1> USE DEF Init, PoolInit
<1>1. \A n \in Nodes : Cardinality(EdgesInto(n)) \in Nat
  BY FiniteParts, FS_CardinalityType
<1>2. TypeOK
  <2>1. PoolTypeOK
    BY RankAssumption DEF PoolTypeOK
  <2>2. /\ status \in [Nodes -> Status] /\ pending_deps \in [Nodes -> Nat]
        /\ ready_queue \in Seq(Nodes) /\ in_flight \in Nat
    BY <1>1 DEF Status
  <2>3. finished \in [Nodes -> Report] /\ batch \in [Nodes -> Report]
    BY DEF Quiet, Report
  <2>4. calling \in SUBSET Nodes /\ cursor \in 0 .. NumTasks /\ elapsed \in 0 .. DeadlockTimeout
    BY GraphAssumption
  <2> QED
    BY <2>1, <2>2, <2>3, <2>4 DEF TypeOK
<1>3. RanksConserved
  BY DEF RanksConserved
<1>4. PendingDepsExact
  <2> SUFFICES ASSUME NEW n \in Nodes
               PROVE  pending_deps[n] = Cardinality(Incomplete(n))
    BY DEF PendingDepsExact
  <2>1. Incomplete(n) = EdgesInto(n)
    BY GraphAssumption DEF Incomplete, EdgesInto
  <2> QED
    BY <2>1
<1>5. InFlightExact
  <2>1. Running = {}
    BY DEF Running
  <2> QED
    BY <2>1, FS_EmptySet, GraphAssumption DEF InFlightExact
<1>6. RanksFollowTasks /\ DependenciesHonoured /\ ConsumersCancelled /\ CallingRuns
  BY GraphAssumption DEF RanksFollowTasks, DependenciesHonoured, ConsumersCancelled, CallingRuns
<1>7. ReadyQueueExact
  BY DEF ReadyQueueExact
<1> QED
  BY <1>2, <1>3, <1>4, <1>5, <1>6, <1>7 DEF IInv

\* The steps that touch neither the nodes nor the pool, and the others.
LEMMA StepCases ==
    ASSUME IInv, Next
    PROVE  \/ UNCHANGED core
           \/ PollNode
           \/ Dispatch /\ ready_queue # <<>> /\ status[Head(ready_queue)] = "ready"
           \/ \E n \in Nodes : DispatchFails(n) \/ CompletionSucceeds(n) \/ CompletionFails(n)
<1>1. CASE Dispatch
  <2>1. ready_queue # <<>> /\ ready_queue \in Seq(Nodes)
    BY <1>1 DEF Dispatch, CanDispatch, IInv, TypeOK
  <2>2. Head(ready_queue) = ready_queue[1] /\ 1 \in 1 .. Len(ready_queue)
    BY <2>1
  <2> QED
    BY <1>1, <2>1, <2>2 DEF IInv, ReadyQueueExact
<1>2. CASE StartCycle \/ PollEnd \/ DispatchAccepted \/ DispatchEnd \/ EndCycle \/ Tick
  BY <1>2 DEF StartCycle, PollEnd, DispatchAccepted, DispatchEnd, EndCycle, Tick, core, taskVars, poolVars
<1>3. CASE \E n \in Nodes : CompletionIgnored(n)
  BY <1>3 DEF CompletionIgnored, core, taskVars, poolVars
<1>4. CASE \E n \in Nodes, r \in {"ok", "error"} : TaskFinish(n, r)
  BY <1>4 DEF TaskFinish, core, taskVars, poolVars
<1> QED
  BY <1>1, <1>2, <1>3, <1>4 DEF Next, Loop

\* The head of the ready queue is a ready node, and popping it leaves the
\* other ready nodes queued.
LEMMA PopReady ==
    ASSUME IInv, ready_queue # <<>>
    PROVE  /\ Head(ready_queue) \in Nodes
           /\ status[Head(ready_queue)] = "ready"
           /\ Tail(ready_queue) \in Seq(Nodes)
           /\ \A i \in 1 .. Len(Tail(ready_queue)) :
                 /\ Tail(ready_queue)[i] \in Nodes \ {Head(ready_queue)}
                 /\ status[Tail(ready_queue)[i]] = "ready"
           /\ \A i, j \in 1 .. Len(Tail(ready_queue)) :
                 Tail(ready_queue)[i] = Tail(ready_queue)[j] => i = j
           /\ \A n \in Nodes \ {Head(ready_queue)} : status[n] = "ready"
                 => \E i \in 1 .. Len(Tail(ready_queue)) : Tail(ready_queue)[i] = n
<1> DEFINE q == ready_queue
           t == Tail(ready_queue)
<1>1. q \in Seq(Nodes) /\ Len(q) \in Nat \ {0}
  BY DEF IInv, TypeOK
<1>2. /\ Head(q) = q[1]
      /\ t \in Seq(Nodes)
      /\ Len(t) = Len(q) - 1
      /\ \A i \in 1 .. Len(t) : t[i] = q[i+1]
  BY <1>1
<1>3. \A i \in 1 .. Len(q) : q[i] \in Nodes /\ status[q[i]] = "ready"
  BY <1>1 DEF IInv, ReadyQueueExact
<1>4. \A i, j \in 1 .. Len(q) : q[i] = q[j] => i = j
  BY DEF IInv, ReadyQueueExact
<1>5. \A i \in 1 .. Len(t) : i + 1 \in 1 .. Len(q) /\ i + 1 # 1
  BY <1>1, <1>2
<1>6. 1 \in 1 .. Len(q)
  BY <1>1
<1>7. \A i \in 1 .. Len(t) : t[i] \in Nodes \ {Head(q)} /\ status[t[i]] = "ready"
  BY <1>2, <1>3, <1>4, <1>5, <1>6
<1>8. \A i, j \in 1 .. Len(t) : t[i] = t[j] => i = j
  <2> SUFFICES ASSUME NEW i \in 1 .. Len(t), NEW j \in 1 .. Len(t), t[i] = t[j]
               PROVE  i = j
    OBVIOUS
  <2>1. i + 1 = j + 1
    BY <1>2, <1>4, <1>5
  <2> QED
    BY <2>1, <1>1, <1>2
<1>9. ASSUME NEW n \in Nodes \ {Head(q)}, status[n] = "ready"
      PROVE  \E i \in 1 .. Len(t) : t[i] = n
  <2>1. PICK k \in 1 .. Len(q) : q[k] = n
    BY <1>9 DEF IInv, ReadyQueueExact
  <2>2. k # 1
    BY <1>2, <1>9, <2>1
  <2>3. k - 1 \in 1 .. Len(t)
    BY <1>1, <1>2, <2>2
  <2>4. t[k - 1] = q[(k - 1) + 1] /\ (k - 1) + 1 = k
    BY <1>2, <2>3
  <2> QED
    BY <2>1, <2>3, <2>4
<1> QED
  <2>1. Head(q) \in Nodes /\ status[Head(q)] = "ready"
    BY <1>2, <1>3, <1>6
  <2> HIDE DEF q, t
  <2>2. \A n \in Nodes \ {Head(q)} : status[n] = "ready" => \E i \in 1 .. Len(t) : t[i] = n
    BY <1>9
  <2> QED
    BY <1>2, <1>7, <1>8, <2>1, <2>2 DEF q, t

-----------------------------------------------------------------------------
(* The rank pool.                                                         *)

LEMMA AllocateConserves ==
    ASSUME PoolTypeOK, RanksConserved, NEW n \in Nodes, NEW k \in Nat,
           held[n] = {}, TryAllocate(n, k)
    PROVE  /\ PoolTypeOK' /\ RanksConserved'
           /\ Cardinality(held'[n]) = k
           /\ \A m \in Nodes \ {n} : held'[m] = held[m]
<1>1. PICK got \in SUBSET free :
        /\ Cardinality(got) = k
        /\ free' = free \ got
        /\ held' = [held EXCEPT ![n] = got]
        /\ pool' = pool
  BY DEF TryAllocate
<1>2. held \in [Nodes -> SUBSET Ranks] /\ held' \in [Nodes -> SUBSET Ranks]
  BY <1>1 DEF PoolTypeOK
<1>3. held'[n] = got /\ \A m \in Nodes \ {n} : held'[m] = held[m]
  BY <1>1, <1>2
<1>4. PoolTypeOK'
  BY <1>1, <1>2 DEF PoolTypeOK
<1>5. pool' = free' \cup UNION {held'[m] : m \in Nodes}
  <2>1. pool = free \cup UNION {held[m] : m \in Nodes}
    BY DEF RanksConserved
  <2>2. ASSUME NEW r PROVE r \in UNION {held'[m] : m \in Nodes}
                            <=> r \in got \/ r \in UNION {held[m] : m \in Nodes}
    BY <1>3
  <2> QED
    BY <1>1, <2>1, <2>2
<1>6. RanksConserved'
  BY <1>1, <1>3, <1>5 DEF RanksConserved
<1> QED
  BY <1>1, <1>3, <1>4, <1>6

LEMMA ReleaseConserves ==
    ASSUME PoolTypeOK, RanksConserved, NEW n \in Nodes, ReleaseOf({n})
    PROVE  /\ PoolTypeOK' /\ RanksConserved'
           /\ held'[n] = {}
           /\ \A m \in Nodes \ {n} : held'[m] = held[m]
<1>1. UNION {held[m] : m \in {n}} = held[n]
  BY SMT
<1>2. held[n] \subseteq pool
  BY DEF RanksConserved
<1>3. free' = free \cup held[n] /\ pool' = pool
  <2>1. free' = free \cup ((UNION {held[m] : m \in {n}}) \cap pool) /\ pool' = pool
    BY Zenon DEF ReleaseOf
  <2>2. \A r : r \in (UNION {held[m] : m \in {n}}) \cap pool <=> r \in held[n]
    BY <1>1, <1>2
  <2> QED
    BY <2>1, <2>2, SMT
<1>4. held'[n] = {} /\ \A m \in Nodes \ {n} : held'[m] = held[m]
  BY DEF ReleaseOf
<1>5. PoolTypeOK'
  BY <1>2, <1>3 DEF PoolTypeOK, ReleaseOf
<1>6. pool' = free' \cup UNION {held'[m] : m \in Nodes}
  <2>1. pool = free \cup UNION {held[m] : m \in Nodes}
    BY DEF RanksConserved
  <2>2. ASSUME NEW r PROVE r \in UNION {held[m] : m \in Nodes}
                            <=> r \in held[n] \/ r \in UNION {held'[m] : m \in Nodes}
    BY <1>4
  <2> QED
    BY <1>3, <2>1, <2>2
<1>7. RanksConserved'
  BY <1>3, <1>4, <1>6 DEF RanksConserved
<1> QED
  BY <1>4, <1>5, <1>7


-----------------------------------------------------------------------------
(* One lemma per kind of step.                                            *)

\* The part of TypeOK that is about the loop itself.
LoopTypeOK ==
    /\ phase \in {"idle", "poll", "dispatch", "complete"}
    /\ cursor \in 0 .. NumTasks
    /\ calling \in SUBSET Nodes
    /\ finished \in [Nodes -> Report]
    /\ batch \in [Nodes -> Report]
    /\ elapsed \in 0 .. DeadlockTimeout
    /\ deadlock_warned \in BOOLEAN

\* Every step keeps the loop's own variables typed.
LEMMA LoopTypes == ASSUME TypeOK, Next PROVE LoopTypeOK'
<1> USE DEF LoopTypeOK, TypeOK
<1>0. Quiet \in [Nodes -> Report] /\ NumTasks \in Nat /\ DeadlockTimeout \in Nat
  BY GraphAssumption DEF Quiet, Report
<1>1. CASE StartCycle
  BY <1>0, <1>1 DEF StartCycle, timeVars
<1>2. CASE PollNode
  BY <1>0, <1>2 DEF PollNode, timeVars
<1>3. CASE PollEnd
  BY <1>0, <1>3 DEF PollEnd, timeVars
<1> DEFINE Timed == elapsed' \in 0 .. DeadlockTimeout /\ deadlock_warned' \in BOOLEAN
<1>T. ASSUME RecordProgress \/ UNCHANGED timeVars PROVE Timed
  <2>1. CASE RecordProgress
    <3>1. elapsed' \in 0 .. DeadlockTimeout
      BY <1>0, <2>1 DEF RecordProgress
    <3>2. deadlock_warned' \in BOOLEAN
      BY <2>1 DEF RecordProgress
    <3> QED BY <3>1, <3>2
  <2>2. CASE UNCHANGED timeVars
    BY <2>2 DEF timeVars
  <2> QED BY <1>T, <2>1, <2>2
<1> HIDE DEF Timed
<1>4. CASE Dispatch
  <2>1. Timed
    BY <1>4, <1>T DEF Dispatch
  <2>2. calling' \in SUBSET Nodes
    <3>1. ready_queue # <<>> BY <1>4 DEF Dispatch, CanDispatch
    <3>2. Head(ready_queue) \in Nodes BY <3>1
    <3> QED BY <1>4, <3>2 DEF Dispatch
  <2> QED
    BY <1>4, <2>1, <2>2 DEF Dispatch, Timed
<1>5. ASSUME NEW n \in Nodes, DispatchFails(n) PROVE LoopTypeOK'
  <2>1. Timed
    BY <1>5, <1>T DEF DispatchFails, PropagateFailure
  <2> QED
    BY <1>5, <2>1 DEF DispatchFails, Timed
<1>12. CASE DispatchAccepted
  BY <1>12 DEF DispatchAccepted, timeVars
<1>6. CASE DispatchEnd
  BY <1>0, <1>6 DEF DispatchEnd, timeVars
<1>7. ASSUME NEW n \in Nodes, CompletionIgnored(n) PROVE LoopTypeOK'
  <2>1. batch' \in [Nodes -> Report]
    BY <1>7 DEF CompletionIgnored, Report
  <2> QED
    BY <1>7, <2>1 DEF CompletionIgnored, timeVars
<1>8. ASSUME NEW n \in Nodes, CompletionSucceeds(n) \/ CompletionFails(n)
      PROVE  LoopTypeOK'
  <2>1. batch' \in [Nodes -> Report]
    BY <1>8 DEF CompletionSucceeds, CompletionFails, Report
  <2>2. Timed
    BY <1>8, <1>T DEF CompletionSucceeds, CompletionFails, PropagateFailure
  <2> QED
    BY <1>8, <2>1, <2>2 DEF CompletionSucceeds, CompletionFails, Timed
<1>9. CASE EndCycle
  <2>1. deadlock_warned' \in BOOLEAN
    BY <1>9 DEF EndCycle
  <2> QED
    BY <1>9, <2>1 DEF EndCycle
<1>10. ASSUME NEW n \in Nodes, NEW r \in {"ok", "error"}, TaskFinish(n, r)
       PROVE  LoopTypeOK'
  <2>1. finished' \in [Nodes -> Report]
    BY <1>10 DEF TaskFinish, Report
  <2> QED
    BY <1>10, <2>1 DEF TaskFinish, timeVars, loopVars
<1>11. CASE Tick
  <2>1. elapsed' \in 0 .. DeadlockTimeout
    BY <1>0, <1>11 DEF Tick
  <2> QED
    BY <1>11, <2>1 DEF Tick, loopVars
<1> QED
  BY <1>1, <1>2, <1>3, <1>4, <1>5, <1>6, <1>7, <1>8, <1>9, <1>10, <1>11, <1>12
     DEF Next, Loop

\* Every step keeps the callback's node running: a completion is applied only
\* after the dispatch.
LEMMA CallingStep == ASSUME IInv, Next PROVE CallingRuns'
<1> USE DEF CallingRuns
<1>1. CallingRuns /\ status \in [Nodes -> Status] /\ calling \in SUBSET Nodes
  BY DEF IInv, TypeOK
<1>2. CASE Dispatch
  <2>1. ready_queue # <<>> /\ phase = "dispatch" /\ phase' = phase BY <1>2 DEF Dispatch, CanDispatch
  <2>2. Head(ready_queue) \in Nodes BY <2>1 DEF IInv, TypeOK
  <2>3. CASE status[Head(ready_queue)] # "ready"
    BY <1>1, <1>2, <2>1, <2>3 DEF Dispatch
  <2>4. CASE status[Head(ready_queue)] = "ready"
    BY <1>1, <1>2, <2>1, <2>2, <2>4 DEF Dispatch
  <2> QED BY <2>3, <2>4
<1>3. ASSUME NEW n \in Nodes, DispatchFails(n) PROVE CallingRuns'
  BY <1>3 DEF DispatchFails
<1>4. CASE DispatchAccepted
  BY <1>4 DEF DispatchAccepted
<1>5. CASE calling = {} /\ calling' = {}
  BY <1>5
<1>6. CASE StartCycle \/ PollNode \/ PollEnd \/ DispatchEnd \/ EndCycle
           \/ \E n \in Nodes : CompletionIgnored(n) \/ CompletionSucceeds(n) \/ CompletionFails(n)
  <2>1. calling = {} BY <1>1, <1>6 DEF StartCycle, PollNode, PollEnd, DispatchEnd, EndCycle, CompletionIgnored,
                                     CompletionSucceeds, CompletionFails
  <2>2. calling' = calling BY <1>6 DEF StartCycle, PollNode, PollEnd, DispatchEnd, EndCycle, CompletionIgnored,
                                     CompletionSucceeds, CompletionFails
  <2> QED BY <1>5, <2>1, <2>2
<1>7. CASE Tick \/ \E n \in Nodes, r \in {"ok", "error"} : TaskFinish(n, r)
  BY <1>1, <1>7 DEF Tick, TaskFinish, taskVars, loopVars
<1> QED
  BY <1>2, <1>3, <1>4, <1>6, <1>7 DEF Next, Loop

LEMMA QuietStep ==
    ASSUME IInv, LoopTypeOK', CallingRuns', UNCHANGED core
    PROVE  IInv'
<1> USE DEF core
<1>1. TypeOK'
  BY DEF IInv, TypeOK, LoopTypeOK, PoolTypeOK
<1>2. RanksConserved' /\ RanksFollowTasks' /\ DependenciesHonoured' /\ ConsumersCancelled'
  BY DEF IInv, RanksConserved, RanksFollowTasks, DependenciesHonoured, ConsumersCancelled
<1>3. PendingDepsExact' /\ InFlightExact'
  BY DEF IInv, PendingDepsExact, InFlightExact, Incomplete, Running
<1>4. ReadyQueueExact'
  BY DEF IInv, ReadyQueueExact
<1> QED
  BY <1>1, <1>2, <1>3, <1>4 DEF IInv

\* Whether a step leaves the set of completed nodes alone, and so the count.
LEMMA SameCountdown ==
    ASSUME IInv, pending_deps' = pending_deps,
           \A n \in Nodes : status'[n] = "completed" <=> status[n] = "completed"
    PROVE  PendingDepsExact'
<1> SUFFICES ASSUME NEW n \in Nodes
             PROVE  pending_deps'[n] = Cardinality(Incomplete(n)')
  BY DEF PendingDepsExact
<1>1. Incomplete(n)' = Incomplete(n)
  BY GraphAssumption DEF Incomplete, EdgesInto
<1> QED
  BY <1>1 DEF IInv, PendingDepsExact

LEMMA PollStep ==
    ASSUME IInv, LoopTypeOK', CallingRuns', PollNode
    PROVE  IInv'
<1>1. CASE ~BecomesReady(cursor)
  BY <1>1, QuietStep DEF PollNode, core, poolVars
<1>2. CASE BecomesReady(cursor)
  <2> DEFINE n == cursor
  <2>1. /\ n \in Nodes /\ status[n] = "pending" /\ pending_deps[n] = 0
        /\ status' = [status EXCEPT ![n] = "ready"]
        /\ ready_queue' = Append(ready_queue, n)
        /\ UNCHANGED <<pending_deps, in_flight, pool, free, held>>
    <3>1. cursor \in 0 .. NumTasks BY DEF IInv, TypeOK
    <3>2. n \in Nodes BY <3>1, GraphAssumption DEF PollNode
    <3> QED BY <1>2, <3>2 DEF PollNode, BecomesReady, poolVars
  <2>2. status \in [Nodes -> Status] /\ ready_queue \in Seq(Nodes)
    BY DEF IInv, TypeOK
  <2>3. status'[n] = "ready" /\ \A m \in Nodes \ {n} : status'[m] = status[m]
    BY <2>1, <2>2
  <2>4. TypeOK'
    <3>1. status' \in [Nodes -> Status] /\ ready_queue' \in Seq(Nodes)
      BY <2>1, <2>2 DEF Status
    <3> QED
      BY <2>1, <3>1 DEF IInv, TypeOK, LoopTypeOK, PoolTypeOK
  <2>5. RanksConserved' /\ RanksFollowTasks'
    BY <2>1, <2>3 DEF IInv, RanksConserved, RanksFollowTasks
  <2>6. PendingDepsExact'
    BY <2>1, <2>3, SameCountdown
  <2>7. Incomplete(n) = {}
    BY <2>1, FiniteParts, FS_EmptySet DEF IInv, PendingDepsExact
  <2>8. DependenciesHonoured'
    <3> SUFFICES ASSUME NEW e \in Edges,
                        status'[Consumer[e]] \in {"ready", "running", "completed", "failed"}
                 PROVE  status'[Producer[e]] = "completed"
      BY DEF DependenciesHonoured
    <3>1. Producer[e] \in Nodes /\ Consumer[e] \in Nodes
      BY GraphAssumption
    <3>2. status[Producer[e]] = "completed"
      <4>1. CASE Consumer[e] = n
        BY <2>7, <4>1 DEF Incomplete, EdgesInto
      <4>2. CASE Consumer[e] # n
        BY <2>3, <3>1, <4>2 DEF IInv, DependenciesHonoured
      <4> QED BY <4>1, <4>2
    <3> QED
      BY <2>1, <2>3, <3>1, <3>2
  <2>9. InFlightExact'
    <3>1. Running' = Running
      BY <2>1, <2>3 DEF Running
    <3> QED
      BY <2>1, <3>1 DEF IInv, InFlightExact
  <2>10. ConsumersCancelled'
    <3> SUFFICES ASSUME NEW e \in Edges, status'[Producer[e]] \in {"failed", "cancelled"}
                 PROVE  status'[Consumer[e]] = "cancelled"
      BY DEF ConsumersCancelled
    <3>1. Producer[e] \in Nodes /\ Consumer[e] \in Nodes
      BY GraphAssumption
    <3>2. status[Producer[e]] \in {"failed", "cancelled"}
      BY <2>3, <3>1
    <3>3. status[Consumer[e]] = "cancelled"
      BY <3>2 DEF IInv, ConsumersCancelled
    <3> QED
      BY <2>1, <2>3, <3>1, <3>3
  <2>11. ReadyQueueExact'
    <3> DEFINE q == ready_queue
    <3>1. /\ Len(ready_queue') = Len(q) + 1 /\ Len(q) \in Nat
          /\ ready_queue'[Len(q) + 1] = n
          /\ \A i \in 1 .. Len(q) : ready_queue'[i] = q[i]
      BY <2>1, <2>2
    <3>2. \A i \in 1 .. Len(q) : q[i] \in Nodes /\ status[q[i]] = "ready"
      BY <2>2 DEF IInv, ReadyQueueExact
    <3>3. \A i \in 1 .. Len(q) : q[i] # n
      BY <2>1, <3>2
    <3>4. \A i \in 1 .. Len(ready_queue') : i \in 1 .. Len(q) \/ i = Len(q) + 1
      BY <3>1
    <3>5. \A i \in 1 .. Len(ready_queue') : status'[ready_queue'[i]] = "ready"
      BY <2>3, <3>1, <3>2, <3>3, <3>4
    <3>6. \A i, j \in 1 .. Len(ready_queue') : ready_queue'[i] = ready_queue'[j] => i = j
      BY <3>1, <3>3, <3>4 DEF IInv, ReadyQueueExact
    <3>7. ASSUME NEW m \in Nodes, status'[m] = "ready"
          PROVE  \E i \in 1 .. Len(ready_queue') : ready_queue'[i] = m
      <4>1. CASE m = n
        BY <3>1, <4>1
      <4>2. CASE m # n
        <5>1. PICK i \in 1 .. Len(q) : q[i] = m
          BY <2>3, <3>7, <4>2 DEF IInv, ReadyQueueExact
        <5>2. i \in 1 .. Len(ready_queue')
          BY <3>1
        <5> QED
          BY <3>1, <5>1, <5>2
      <4> QED BY <4>1, <4>2
    <3> QED
      BY <3>5, <3>6, <3>7 DEF ReadyQueueExact
  <2> QED
    BY <2>4, <2>5, <2>6, <2>8, <2>9, <2>10, <2>11 DEF IInv
<1> QED
  BY <1>1, <1>2


LEMMA DispatchStep ==
    ASSUME IInv, LoopTypeOK', CallingRuns', Dispatch, ready_queue # <<>>,
           status[Head(ready_queue)] = "ready"
    PROVE  IInv'
<1> DEFINE n == Head(ready_queue)
           t == Tail(ready_queue)
<1>1. /\ ready_queue' = t /\ in_flight < MaxConcurrency
      /\ TryAllocate(n, Required[n])
      /\ status' = [status EXCEPT ![n] = "running"]
      /\ in_flight' = in_flight + 1
      /\ pending_deps' = pending_deps
  BY DEF Dispatch, CanDispatch, HasSlot
<1>2. /\ n \in Nodes /\ status[n] = "ready" /\ t \in Seq(Nodes)
      /\ \A i \in 1 .. Len(t) : t[i] \in Nodes \ {n} /\ status[t[i]] = "ready"
      /\ \A i, j \in 1 .. Len(t) : t[i] = t[j] => i = j
      /\ \A m \in Nodes \ {n} : status[m] = "ready" => \E i \in 1 .. Len(t) : t[i] = m
  BY PopReady
<1> HIDE DEF n, t
<1>3. status \in [Nodes -> Status] /\ in_flight \in Nat
  BY DEF IInv, TypeOK
<1>4. status'[n] = "running" /\ \A m \in Nodes \ {n} : status'[m] = status[m]
  BY <1>1, <1>2, <1>3
<1>5. /\ PoolTypeOK' /\ RanksConserved'
      /\ Cardinality(held'[n]) = Required[n]
      /\ \A m \in Nodes \ {n} : held'[m] = held[m]
  <2>1. held[n] = {}
    BY <1>2 DEF IInv, RanksFollowTasks
  <2>2. Required[n] \in Nat
    BY <1>2, GraphAssumption
  <2> QED
    BY <1>1, <1>2, <2>1, <2>2, AllocateConserves DEF IInv, TypeOK
<1>6. TypeOK'
  <2>1. status' \in [Nodes -> Status] /\ in_flight' \in Nat
    BY <1>1, <1>2, <1>3 DEF Status
  <2> QED
    BY <1>1, <1>2, <1>5, <2>1 DEF IInv, TypeOK, LoopTypeOK
<1>7. RanksFollowTasks'
  BY <1>4, <1>5 DEF IInv, RanksFollowTasks
<1>8. PendingDepsExact'
  BY <1>1, <1>2, <1>4, SameCountdown
<1>9. DependenciesHonoured'
  <2> SUFFICES ASSUME NEW e \in Edges,
                      status'[Consumer[e]] \in {"ready", "running", "completed", "failed"}
               PROVE  status'[Producer[e]] = "completed"
    BY DEF DependenciesHonoured
  <2>1. Producer[e] \in Nodes /\ Consumer[e] \in Nodes
    BY GraphAssumption
  <2>2. status[Consumer[e]] \in {"ready", "running", "completed", "failed"}
    BY <1>2, <1>4, <2>1
  <2>3. status[Producer[e]] = "completed"
    BY <2>2 DEF IInv, DependenciesHonoured
  <2> QED
    BY <1>2, <1>4, <2>1, <2>3
<1>10. InFlightExact'
  <2>1. Running' = Running \cup {n} /\ n \notin Running
    BY <1>2, <1>4 DEF Running
  <2>2. Cardinality(Running') = Cardinality(Running) + 1
    BY <2>1, FiniteParts, FS_AddElement
  <2>3. MaxConcurrency \in Nat
    BY GraphAssumption
  <2> QED
    BY <1>1, <1>3, <2>2, <2>3 DEF IInv, InFlightExact
<1>11. ConsumersCancelled'
  <2> SUFFICES ASSUME NEW e \in Edges, status'[Producer[e]] \in {"failed", "cancelled"}
               PROVE  status'[Consumer[e]] = "cancelled"
    BY DEF ConsumersCancelled
  <2>1. Producer[e] \in Nodes /\ Consumer[e] \in Nodes
    BY GraphAssumption
  <2>2. status[Producer[e]] \in {"failed", "cancelled"}
    BY <1>4, <2>1
  <2>3. status[Consumer[e]] = "cancelled"
    BY <2>2 DEF IInv, ConsumersCancelled
  <2> QED
    BY <1>2, <1>4, <2>1, <2>3
<1>12. ReadyQueueExact'
  BY <1>1, <1>2, <1>4 DEF ReadyQueueExact
<1> QED
  BY <1>5, <1>6, <1>7, <1>8, <1>9, <1>10, <1>11, <1>12 DEF IInv

\* What a failure does to the statuses: f fails and its cascade with it.
LEMMA FailureStep ==
    ASSUME IInv, NEW f \in Nodes, status[f] \in {"ready", "running"},
           status' = FailedStatus(f), pending_deps' = pending_deps
    PROVE  /\ status' \in [Nodes -> Status]
           /\ status'[f] = "failed"
           /\ \A m \in Nodes : status'[m] = "ready" <=> status[m] = "ready" /\ m # f
           /\ Running' = Running \ {f}
           /\ PendingDepsExact' /\ DependenciesHonoured' /\ ConsumersCancelled'
<1>1. /\ status' \in [Nodes -> Status]
      /\ status'[f] = "failed"
      /\ \A m \in Nodes \ {f} : \/ status'[m] = status[m]
                                \/ status[m] = "pending" /\ status'[m] = "cancelled"
      /\ \A e \in Edges : status'[Producer[e]] \in {"failed", "cancelled"}
                             => status'[Consumer[e]] = "cancelled"
  BY FailureEffect
<1>2. \A m \in Nodes : status'[m] = "ready" <=> status[m] = "ready" /\ m # f
  BY <1>1
<1>3. Running' = Running \ {f}
  BY <1>1 DEF Running
<1>4. PendingDepsExact'
  <2>1. \A m \in Nodes : status'[m] = "completed" <=> status[m] = "completed"
    BY <1>1
  <2> QED
    BY <2>1, SameCountdown
<1>5. DependenciesHonoured'
  <2> SUFFICES ASSUME NEW e \in Edges,
                      status'[Consumer[e]] \in {"ready", "running", "completed", "failed"}
               PROVE  status'[Producer[e]] = "completed"
    BY DEF DependenciesHonoured
  <2>1. Producer[e] \in Nodes /\ Consumer[e] \in Nodes
    BY GraphAssumption
  <2>2. status[Consumer[e]] \in {"ready", "running", "completed", "failed"}
    BY <1>1, <2>1
  <2>3. status[Producer[e]] = "completed"
    BY <2>2 DEF IInv, DependenciesHonoured
  <2> QED
    BY <1>1, <2>1, <2>3
<1>6. ConsumersCancelled'
  BY <1>1 DEF ConsumersCancelled
<1> QED
  BY <1>1, <1>2, <1>3, <1>4, <1>5, <1>6

\* propagate_failure, called after the dispatch callback or for a completion.
LEMMA FailsStep ==
    ASSUME IInv, LoopTypeOK', CallingRuns', NEW n \in Nodes, DispatchFails(n) \/ CompletionFails(n)
    PROVE  IInv'
<1>1. /\ status[n] = "running" /\ status' = FailedStatus(n) /\ ReleaseOf({n})
      /\ in_flight' = IF in_flight > 0 THEN in_flight - 1 ELSE 0
      /\ UNCHANGED <<pending_deps, ready_queue>>
  BY DEF DispatchFails, CompletionFails, PropagateFailure, Accepts, IInv, CallingRuns
<1>2. /\ status' \in [Nodes -> Status]
      /\ status'[n] = "failed"
      /\ \A m \in Nodes : status'[m] = "ready" <=> status[m] = "ready" /\ m # n
      /\ Running' = Running \ {n}
      /\ PendingDepsExact' /\ DependenciesHonoured' /\ ConsumersCancelled'
  BY <1>1, FailureStep
<1>3. /\ PoolTypeOK' /\ RanksConserved' /\ held'[n] = {}
      /\ \A m \in Nodes \ {n} : held'[m] = held[m]
  BY <1>1, ReleaseConserves DEF IInv, TypeOK
<1>4. in_flight \in Nat /\ in_flight' \in Nat
  BY <1>1 DEF IInv, TypeOK
<1>5. TypeOK'
  BY <1>1, <1>2, <1>3, <1>4 DEF IInv, TypeOK, LoopTypeOK
<1>6. RanksFollowTasks'
  <2>1. \A m \in Nodes \ {n} : status'[m] = "running" <=> status[m] = "running"
    BY <1>2 DEF Running
  <2> QED
    BY <1>2, <1>3, <2>1 DEF IInv, RanksFollowTasks
<1>7. InFlightExact'
  <2>1. n \in Running
    BY <1>1 DEF Running
  <2>2. /\ Cardinality(Running') = Cardinality(Running) - 1
        /\ Cardinality(Running) \in Nat /\ Cardinality(Running') \in Nat
    BY <1>2, <2>1, FiniteParts, FS_RemoveElement, FS_CardinalityType
  <2>3. MaxConcurrency \in Nat
    BY GraphAssumption
  <2> QED
    BY <1>1, <1>4, <2>2, <2>3 DEF IInv, InFlightExact
<1>8. ReadyQueueExact'
  <2>1. \A m \in Nodes : status'[m] = "ready" <=> status[m] = "ready"
    BY <1>1, <1>2
  <2>2. ready_queue \in Seq(Nodes)
    BY DEF IInv, TypeOK
  <2> QED
    BY <1>1, <2>1, <2>2 DEF IInv, ReadyQueueExact
<1> QED
  BY <1>2, <1>3, <1>5, <1>6, <1>7, <1>8 DEF IInv

LEMMA CompletionSucceedsStep ==
    ASSUME IInv, LoopTypeOK', CallingRuns', NEW n \in Nodes, CompletionSucceeds(n)
    PROVE  IInv'
<1>1. /\ status[n] = "running" /\ ReleaseOf({n})
      /\ status' = [status EXCEPT ![n] = "completed"]
      /\ in_flight' = in_flight - 1
      /\ pending_deps' = Countdown(n)
      /\ ready_queue' = ready_queue
  BY DEF CompletionSucceeds, Accepts
<1>2. /\ status \in [Nodes -> Status] /\ in_flight \in Nat
      /\ ready_queue \in Seq(Nodes) /\ pending_deps \in [Nodes -> Nat]
  BY DEF IInv, TypeOK
<1>3. status'[n] = "completed" /\ \A m \in Nodes \ {n} : status'[m] = status[m]
  BY <1>1, <1>2
<1>4. /\ PoolTypeOK' /\ RanksConserved' /\ held'[n] = {}
      /\ \A m \in Nodes \ {n} : held'[m] = held[m]
  BY <1>1, ReleaseConserves DEF IInv, TypeOK
<1>5. ASSUME NEW m \in Nodes
      PROVE  /\ pending_deps'[m] = Cardinality(Incomplete(m)')
             /\ pending_deps'[m] \in Nat
  <2>1. EdgesBetween(n, m) \subseteq Incomplete(m)
    BY <1>1 DEF EdgesBetween, Incomplete
  <2>2. Incomplete(m)' = Incomplete(m) \ EdgesBetween(n, m)
    BY <1>3, GraphAssumption DEF Incomplete, EdgesBetween, EdgesInto
  <2>3. Incomplete(m) \cap EdgesBetween(n, m) = EdgesBetween(n, m)
    BY <2>1
  <2>4. /\ Cardinality(Incomplete(m)') = Cardinality(Incomplete(m)) - Cardinality(EdgesBetween(n, m))
        /\ Cardinality(Incomplete(m)') \in Nat
    BY <2>2, <2>3, FiniteParts, FS_Difference, FS_CardinalityType
  <2>5. pending_deps'[m] = pending_deps[m] - Cardinality(EdgesBetween(n, m))
    BY <1>1 DEF Countdown
  <2> QED
    BY <2>4, <2>5 DEF IInv, PendingDepsExact
<1>6. PendingDepsExact'
  BY <1>5 DEF PendingDepsExact
<1>7. InFlightExact' /\ in_flight' \in Nat
  <2>1. n \in Running /\ Running' = Running \ {n}
    BY <1>1, <1>3 DEF Running
  <2>2. /\ Cardinality(Running') = Cardinality(Running) - 1
        /\ Cardinality(Running') \in Nat
    BY <2>1, FiniteParts, FS_RemoveElement, FS_CardinalityType
  <2>3. MaxConcurrency \in Nat
    BY GraphAssumption
  <2> QED
    BY <1>1, <1>2, <2>2, <2>3 DEF IInv, InFlightExact
<1>8. TypeOK'
  <2>1. status' \in [Nodes -> Status]
    BY <1>1, <1>2 DEF Status
  <2>2. pending_deps' \in [Nodes -> Nat]
    BY <1>1, <1>5 DEF Countdown
  <2> QED
    BY <1>1, <1>2, <1>4, <1>7, <2>1, <2>2 DEF TypeOK, LoopTypeOK
<1>9. RanksFollowTasks'
  BY <1>3, <1>4 DEF IInv, RanksFollowTasks
<1>10. DependenciesHonoured'
  <2> SUFFICES ASSUME NEW e \in Edges,
                      status'[Consumer[e]] \in {"ready", "running", "completed", "failed"}
               PROVE  status'[Producer[e]] = "completed"
    BY DEF DependenciesHonoured
  <2>1. Producer[e] \in Nodes /\ Consumer[e] \in Nodes
    BY GraphAssumption
  <2>2. status[Consumer[e]] \in {"ready", "running", "completed", "failed"}
    BY <1>1, <1>3, <2>1
  <2>3. status[Producer[e]] = "completed"
    BY <2>2 DEF IInv, DependenciesHonoured
  <2> QED
    BY <1>3, <2>1, <2>3
<1>11. ConsumersCancelled'
  <2> SUFFICES ASSUME NEW e \in Edges, status'[Producer[e]] \in {"failed", "cancelled"}
               PROVE  status'[Consumer[e]] = "cancelled"
    BY DEF ConsumersCancelled
  <2>1. Producer[e] \in Nodes /\ Consumer[e] \in Nodes
    BY GraphAssumption
  <2>2. status[Producer[e]] \in {"failed", "cancelled"}
    BY <1>3, <2>1
  <2>3. status[Consumer[e]] = "cancelled"
    BY <2>2 DEF IInv, ConsumersCancelled
  <2> QED
    BY <1>1, <1>3, <2>1, <2>3
<1>12. ReadyQueueExact'
  <2>1. \A m \in Nodes : status'[m] = "ready" <=> status[m] = "ready"
    BY <1>1, <1>3
  <2> QED
    BY <1>1, <1>2, <2>1 DEF IInv, ReadyQueueExact
<1> QED
  BY <1>4, <1>6, <1>7, <1>8, <1>9, <1>10, <1>11, <1>12 DEF IInv

-----------------------------------------------------------------------------
LEMMA NextIInv == IInv /\ [Next]_vars => IInv'
<1>1. ASSUME IInv, Next PROVE IInv'
  <2>1. LoopTypeOK' /\ CallingRuns'
    BY <1>1, LoopTypes, CallingStep DEF IInv
  <2>2. CASE UNCHANGED core
    BY <1>1, <2>1, <2>2, QuietStep
  <2>3. CASE PollNode
    BY <1>1, <2>1, <2>3, PollStep
  <2>4. CASE Dispatch /\ ready_queue # <<>> /\ status[Head(ready_queue)] = "ready"
    BY <1>1, <2>1, <2>4, DispatchStep
  <2>5. CASE \E n \in Nodes : DispatchFails(n) \/ CompletionSucceeds(n) \/ CompletionFails(n)
    BY <1>1, <2>1, <2>5, CompletionSucceedsStep, FailsStep
  <2> QED
    BY <1>1, <2>2, <2>3, <2>4, <2>5, StepCases
<1>2. ASSUME IInv, UNCHANGED vars PROVE IInv'
  <2>1. LoopTypeOK' /\ CallingRuns' /\ UNCHANGED core
    BY <1>2 DEF IInv, TypeOK, LoopTypeOK, CallingRuns, vars, taskVars, timeVars, loopVars, core
  <2> QED
    BY <1>2, <2>1, QuietStep
<1> QED
  BY <1>1, <1>2

\* Type correctness of the event loop: in particular pending_deps and
\* in_flight_, unsigned in the code, never go below zero.
THEOREM TypeCorrect == Spec => []TypeOK
<1>1. Spec => []IInv
  BY InitIInv, NextIInv, PTL DEF Spec
<1>2. IInv => TypeOK
  BY DEF IInv
<1> QED
  BY <1>1, <1>2, PTL

\* process_completions and poll_ready_nodes together never start a node
\* before all its producers completed, for every graph.
THEOREM TopologicalOrder == Spec => []DependenciesHonoured
<1>1. Spec => []IInv
  BY InitIInv, NextIInv, PTL DEF Spec
<1>2. IInv => DependenciesHonoured
  BY DEF IInv
<1> QED
  BY <1>1, <1>2, PTL

\* propagate_failure cancels every descendant of a failed node, for every
\* graph: the cancelled nodes are closed under the edges from it.
THEOREM FailureReachesDescendants == Spec => []FailureCascades
<1>1. Spec => []IInv
  BY InitIInv, NextIInv, PTL DEF Spec
<1>2. IInv => FailureCascades
  <2> SUFFICES ASSUME IInv, NEW f \in Nodes, status[f] = "failed", NEW m \in Descendants(f)
               PROVE  status[m] = "cancelled"
    BY DEF FailureCascades
  <2> DEFINE S == {x \in Nodes : status[x] = "cancelled"}
  <2>1. ASSUME NEW e \in Edges, Producer[e] \in S \cup {f} PROVE Consumer[e] \in S
    <3>1. status[Producer[e]] \in {"failed", "cancelled"} /\ Consumer[e] \in Nodes
      BY <2>1, GraphAssumption
    <3> QED
      BY <3>1 DEF IInv, ConsumersCancelled
  <2>2. S \in SUBSET Nodes
    OBVIOUS
  <2> HIDE DEF S
  <2>3. m \in S
    BY <2>1, <2>2 DEF Descendants
  <2> QED
    BY <2>3 DEF S
<1> QED
  BY <1>1, <1>2, PTL

\* The ranks of the pool are free or held by exactly one running task, and
\* a running task holds as many as it asked for.
THEOREM RankConservation == Spec => [](RanksConserved /\ RanksFollowTasks)
<1>1. Spec => []IInv
  BY InitIInv, NextIInv, PTL DEF Spec
<1>2. IInv => RanksConserved /\ RanksFollowTasks
  BY DEF IInv
<1> QED
  BY <1>1, <1>2, PTL

\* in_flight_ is exact and within max_concurrency, the in-degree countdown
\* is exact, and the ready queue holds the ready nodes, each once.
THEOREM CountersExact == Spec => []BookkeepingExact
<1>1. Spec => []IInv
  BY InitIInv, NextIInv, PTL DEF Spec
<1>2. IInv => BookkeepingExact
  BY DEF IInv, BookkeepingExact
<1> QED
  BY <1>1, <1>2, PTL

-----------------------------------------------------------------------------
(* An idle loop is a finished one.                                        *)

\* What validate_dag has made sure of before the loop is built: every
\* nonempty set of nodes has one with no producer in it.
Acyclic ==
    \A S \in SUBSET Nodes : S # {} =>
        \E n \in S : \A e \in EdgesInto(n) : Producer[e] \notin S

\* What poll_ready_nodes has passed has been marked if it could run.
Polled == /\ phase = "poll" => \A n \in Nodes : n < cursor => ~BecomesReady(n)
          /\ phase = "dispatch" => \A n \in Nodes : ~BecomesReady(n)

LEMMA PolledStep == ASSUME IInv, Polled, Next PROVE Polled'
<1>1. /\ status \in [Nodes -> Status] /\ cursor \in 0 .. NumTasks
      /\ NumTasks \in Nat /\ Nodes = 0 .. NumTasks - 1
  BY GraphAssumption DEF IInv, TypeOK
<1>2. CASE StartCycle
  BY <1>1, <1>2 DEF StartCycle, Polled
<1>3. CASE PollNode
  <2>1. /\ phase = "poll" /\ phase' = "poll" /\ cursor' = cursor + 1 /\ cursor \in Nodes
        /\ pending_deps' = pending_deps
    BY <1>1, <1>3 DEF PollNode
  <2> SUFFICES ASSUME NEW n \in Nodes, n < cursor + 1 PROVE ~BecomesReady(n)'
    BY <2>1 DEF Polled
  <2>2. CASE n = cursor
    BY <1>1, <1>3, <2>1, <2>2 DEF PollNode, BecomesReady
  <2>3. CASE n # cursor
    <3>1. n < cursor
      BY <1>1, <2>1, <2>3
    <3>2. ~BecomesReady(n)
      BY <2>1, <3>1 DEF Polled
    <3>3. status'[n] = status[n]
      BY <1>1, <1>3, <2>1, <2>3 DEF PollNode
    <3> QED
      BY <2>1, <3>2, <3>3 DEF BecomesReady
  <2> QED
    BY <2>2, <2>3
<1>4. CASE PollEnd
  <2>1. phase = "poll" /\ cursor = NumTasks /\ phase' = "dispatch" /\ UNCHANGED <<status, pending_deps>>
    BY <1>4 DEF PollEnd, taskVars
  <2> QED
    BY <1>1, <2>1 DEF Polled, BecomesReady
\* A dispatch makes no node pending and counts nothing down.
<1>5. ASSUME phase = "dispatch", phase' = phase, pending_deps' = pending_deps,
             \A n \in Nodes : status'[n] = "pending" => status[n] = "pending"
      PROVE  Polled'
  BY <1>5 DEF Polled, BecomesReady
<1>6. CASE Dispatch
  <2>1. ready_queue # <<>> => Head(ready_queue) \in Nodes
    BY DEF IInv, TypeOK
  <2>2. phase = "dispatch" /\ phase' = phase /\ pending_deps' = pending_deps /\ ready_queue # <<>>
    BY <1>6 DEF Dispatch, CanDispatch
  <2>3. \/ status' = status
        \/ status' = [status EXCEPT ![Head(ready_queue)] = "running"]
    BY <1>6 DEF Dispatch
  <2>4. \A n \in Nodes : status'[n] = "pending" => status[n] = "pending"
    BY <1>1, <2>1, <2>2, <2>3
  <2> QED
    BY <1>5, <2>2, <2>4
<1>7. ASSUME NEW f \in Nodes, DispatchFails(f) PROVE Polled'
  <2>1. /\ phase = "dispatch" /\ phase' = phase /\ pending_deps' = pending_deps
        /\ status[f] = "running" /\ status' = FailedStatus(f)
    BY <1>7 DEF DispatchFails, PropagateFailure, IInv, CallingRuns
  <2>2. \A n \in Nodes : status'[n] = "pending" => status[n] = "pending"
    BY <2>1, FailureEffect
  <2> QED
    BY <1>5, <2>1, <2>2
<1>11. CASE DispatchAccepted
  BY <1>11 DEF DispatchAccepted, taskVars, Polled, BecomesReady
<1>8. CASE phase' \in {"complete", "idle"}
  BY <1>8 DEF Polled
<1>9. CASE DispatchEnd \/ EndCycle \/ \E n \in Nodes : \/ CompletionIgnored(n)
                                                      \/ CompletionSucceeds(n) \/ CompletionFails(n)
  BY <1>8, <1>9 DEF DispatchEnd, EndCycle, CompletionIgnored, CompletionSucceeds, CompletionFails
<1>10. CASE Tick \/ \E n \in Nodes, r \in {"ok", "error"} : TaskFinish(n, r)
  BY <1>10 DEF Tick, TaskFinish, taskVars, loopVars, Polled, BecomesReady
<1> QED
  BY <1>2, <1>3, <1>4, <1>6, <1>7, <1>9, <1>10, <1>11 DEF Next, Loop

(***************************************************************************)
(* In an acyclic graph, the only kind validate_dag lets through, the loop  *)
(* never gets to dispatch with unfinished nodes and nothing running or     *)
(* queued: the silent early return of check_deadlock hides no stall.       *)
(***************************************************************************)
THEOREM IdleLoopIsDone ==
    ASSUME Acyclic
    PROVE  Spec => []NoSilentStall
<1>1. Init => IInv /\ Polled
  BY InitIInv DEF Init, Polled
<1>2. IInv /\ Polled /\ [Next]_vars => (IInv /\ Polled)'
  <2>1. ASSUME IInv, Polled, UNCHANGED vars PROVE Polled'
    BY <2>1 DEF vars, taskVars, loopVars, Polled, BecomesReady
  <2> QED
    BY <2>1, PolledStep, NextIInv
<1>3. IInv /\ Polled => NoSilentStall
  <2> SUFFICES ASSUME IInv, Polled, phase = "dispatch", ~AllComplete,
                      ~(in_flight > 0), ready_queue = <<>>
               PROVE  FALSE
    BY DEF NoSilentStall
  <2> DEFINE S == {n \in Nodes : ~IsTerminal(status[n])}
  <2>1. \A n \in Nodes : status[n] # "running"
    <3>1. Cardinality(Running) = 0 /\ IsFiniteSet(Running)
      BY FiniteParts DEF IInv, TypeOK, InFlightExact
    <3>2. Running = {}
      BY <3>1, FS_EmptySet
    <3> QED
      BY <3>2 DEF Running
  <2>2. \A n \in Nodes : status[n] # "ready"
    BY DEF IInv, ReadyQueueExact
  <2>3. \A n \in S : status[n] = "pending"
    BY <2>1, <2>2 DEF IInv, TypeOK, Status, IsTerminal
  <2>4. PICK n \in S : \A e \in EdgesInto(n) : Producer[e] \notin S
    <3>1. S \in SUBSET Nodes /\ S # {}
      BY DEF AllComplete
    <3> QED
      BY <3>1 DEF Acyclic
  <2>5. \A e \in EdgesInto(n) : status[Producer[e]] = "completed"
    <3> SUFFICES ASSUME NEW e \in EdgesInto(n) PROVE status[Producer[e]] = "completed"
      OBVIOUS
    <3>1. e \in Edges /\ Consumer[e] = n /\ Producer[e] \in Nodes
      BY GraphAssumption DEF EdgesInto
    <3>2. IsTerminal(status[Producer[e]])
      BY <2>4, <3>1
    <3>3. status[n] = "pending"
      BY <2>3, <2>4
    <3>4. status[Producer[e]] \notin {"failed", "cancelled"}
      BY <3>1, <3>3 DEF IInv, ConsumersCancelled
    <3> QED
      BY <3>2, <3>4 DEF IsTerminal
  <2>6. Incomplete(n) = {}
    BY <2>5 DEF Incomplete
  <2>7. pending_deps[n] = 0
    BY <2>6, FS_EmptySet DEF IInv, PendingDepsExact
  <2> QED
    BY <2>3, <2>4, <2>7 DEF Polled, BecomesReady
<1> QED
  BY <1>1, <1>2, <1>3, PTL DEF Spec

-----------------------------------------------------------------------------
(* The orchestrator.  The event loop's invariant is kept by every call up  *)
(* to the end of shutdown(), where force_cancel_in_flight cancels running  *)
(* nodes without a cascade; from there on nothing moves, which needs that  *)
(* a call is over only when its cycle is.  A reclaimed rank stays out of   *)
(* the free set, since the callbacks run() installs report no completion   *)
(* that would free it.                                                     *)

AtRest == call = "none" /\ stage = "loop" /\ phase = "idle"

OrchTypes ==
    /\ stage \in {"loop", "reclaim"}
    /\ shut_down \in BOOLEAN
    /\ stage = "loop" => phase = "idle"
    /\ stage = "reclaim" => call # "none"
    /\ wanted \in [Ranks -> {"yield", "reclaim", "never"}]

ReclaimedOut == \A r \in Ranks : wanted[r] = "reclaim" => r \notin free

OrchInv ==
    /\ OrchTypes
    /\ ~shut_down => IInv /\ ReclaimedOut
    /\ shut_down => AtRest
    /\ ShutdownReleasesRanks

\* Ranks come into the pool free and leave it only when free.
LEMMA PoolCallKeeps ==
    ASSUME IInv, NEW rs,
           (AddRanks(rs) /\ rs \subseteq Ranks) \/ RemoveAvailable(rs),
           UNCHANGED <<taskVars, timeVars, loopVars, finished>>
    PROVE  IInv'
<1>1. held' = held BY DEF AddRanks, RemoveAvailable
<1>2. PoolTypeOK'
  BY <1>1 DEF IInv, TypeOK, PoolTypeOK, AddRanks, RemoveAvailable, Removed
<1>3. PICK U : U = UNION {held[n] : n \in Nodes} OBVIOUS
<1>4. free \subseteq pool /\ pool = free \cup U BY <1>3 DEF IInv, RanksConserved
<1>5. \A n \in Nodes : held[n] \cap free = {} BY DEF IInv, RanksConserved
<1>6. \A n \in Nodes : held[n] \subseteq U BY <1>3
<1>7. U \cap free = {} BY <1>3, <1>5
<1>8. /\ free' \subseteq pool' /\ pool' = free' \cup U /\ U \cap free' = {}
  BY <1>4, <1>7 DEF AddRanks, RemoveAvailable, Removed
<1>9. \A n \in Nodes : held'[n] \cap free' = {} BY <1>1, <1>6, <1>8
<1>10. RanksConserved'
  BY <1>1, <1>3, <1>8, <1>9 DEF IInv, RanksConserved
<1>11. TypeOK' BY <1>2 DEF IInv, TypeOK, taskVars, timeVars, loopVars
<1>12. DependenciesHonoured' /\ ConsumersCancelled' /\ CallingRuns'
  BY DEF IInv, DependenciesHonoured, ConsumersCancelled, CallingRuns, taskVars, loopVars
<1>13. PendingDepsExact'
  BY DEF IInv, PendingDepsExact, Incomplete, EdgesInto, taskVars
<1>14. InFlightExact' BY DEF IInv, InFlightExact, Running, taskVars
<1>15. RanksFollowTasks' BY <1>1 DEF IInv, RanksFollowTasks, taskVars
<1>16. ReadyQueueExact' BY DEF IInv, ReadyQueueExact, taskVars
<1> QED BY <1>10, <1>11, <1>12, <1>13, <1>14, <1>15, <1>16 DEF IInv

\* With nothing running, nothing is held.
LEMMA NothingHeld ==
    ASSUME IInv, in_flight = 0
    PROVE  Running = {} /\ free = pool
<1>1. Running = {}
  <2>1. Cardinality(Running) = 0 BY DEF IInv, InFlightExact
  <2> QED BY <2>1, FiniteParts, FS_EmptySet
<1>2. \A n \in Nodes : held[n] = {} BY <1>1 DEF IInv, RanksFollowTasks, Running
<1>3. UNION {held[n] : n \in Nodes} = {} BY <1>2
<1> QED BY <1>1, <1>3 DEF IInv, RanksConserved

\* A step of the event loop inside a call: its own invariant holds on, and it
\* gives tasks only free ranks.
LEMMA LoopStepKeeps ==
    ASSUME OrchInv, ~shut_down,
           StartCycle \/ PollNode \/ PollEnd \/ Dispatch \/ DispatchAccepted \/ DispatchEnd \/ EndCycle \/ Tick
    PROVE  /\ IInv' /\ free' \subseteq free
           /\ \A r \in Used' : r \in Used \/ r \in free
<1>1. IInv BY DEF OrchInv
<1>2. Next BY DEF Next, Loop
<1>3. IInv' BY <1>1, <1>2, NextIInv
<1>4. CASE UNCHANGED <<free, held>> BY <1>3, <1>4 DEF Used
<1>5. CASE ~(UNCHANGED <<free, held>>)
  <2>1. Dispatch BY <1>5 DEF StartCycle, PollNode, PollEnd, DispatchAccepted, DispatchEnd, EndCycle, Tick, poolVars
  <2>2. PICK n \in Nodes : \E k : TryAllocate(n, k)
    <3>1. Head(ready_queue) \in Nodes
      BY <1>1, <2>1 DEF IInv, TypeOK, Dispatch, CanDispatch
    <3> QED BY <1>5, <2>1, <3>1 DEF Dispatch, poolVars
  <2>3. PICK got \in SUBSET free : free' = free \ got /\ held' = [held EXCEPT ![n] = got]
    BY <2>2 DEF TryAllocate
  <2>4. held \in [Nodes -> SUBSET Ranks] BY <1>1 DEF IInv, TypeOK, PoolTypeOK
  <2>5. \A m \in Nodes : held'[m] = held[m] \/ held'[m] = got BY <2>3, <2>4
  <2>6. ASSUME NEW r \in Used' PROVE r \in Used \/ r \in free
    <3>1. PICK m \in Nodes : r \in held'[m] BY DEF Used
    <3> QED BY <2>3, <2>5, <3>1 DEF Used
  <2> QED BY <1>3, <2>3, <2>6
<1> QED BY <1>4, <1>5

\* No action but a dispatch gives a rank to a task.
LEMMA ReclaimedStep == OrchInv /\ OrchNext => OrchInv'
                           /\ \A r \in Ranks : wanted[r] = "reclaim" /\ r \notin Used => r \notin Used'
<1> DEFINE Goal == OrchInv' /\ \A r \in Ranks : wanted[r] = "reclaim" /\ r \notin Used => r \notin Used'
<1> SUFFICES ASSUME OrchInv, OrchNext PROVE Goal
  OBVIOUS
<1>1. ~shut_down
  BY DEF OrchInv, AtRest, OrchNext, Working, Calling, CycleOnce, RunLoop, InCycle, ProcessDeferred, ShutdownForced,
         ShutdownDrained, Run, AdvanceStep, Shutdown, Enter, YieldRanks, ReclaimRanks, CanCall,
         PollNode, PollEnd, Dispatch, DispatchAccepted, DispatchEnd, EndCycle
<1>2. IInv /\ ReclaimedOut /\ OrchTypes BY <1>1 DEF OrchInv
<1>3. ASSUME StartCycle \/ PollNode \/ PollEnd \/ Dispatch \/ DispatchAccepted \/ DispatchEnd \/ EndCycle \/ Tick,
             UNCHANGED <<shut_down, wanted>>, OrchTypes'
      PROVE  Goal
  <2>1. IInv' /\ free' \subseteq free /\ \A r \in Used' : r \in Used \/ r \in free
    BY <1>1, <1>3, LoopStepKeeps
  <2>2. ReclaimedOut' BY <1>2, <1>3, <2>1 DEF ReclaimedOut
  <2>3. OrchInv' BY <1>1, <1>3, <2>1, <2>2 DEF OrchInv, ShutdownReleasesRanks
  <2> QED BY <1>2, <2>1, <2>3 DEF ReclaimedOut
<1>4. CASE CycleOnce \/ (RunLoop /\ ~AllComplete)
  <2>1. BeginCycle /\ call # "none" BY <1>4 DEF CycleOnce, RunLoop
  <2>2. OrchTypes' BY <1>2, <2>1 DEF OrchTypes, BeginCycle
  <2> QED BY <1>3, <2>1, <2>2 DEF BeginCycle
<1>5. CASE RunLoop /\ AllComplete
  <2>1. UNCHANGED <<vars, stage, shut_down, wanted>> /\ stage = "loop" BY <1>5 DEF RunLoop
  <2>2. OrchTypes' BY <1>2, <2>1 DEF OrchTypes, vars, loopVars
  <2>3. IInv' BY <1>2, <2>1, NextIInv
  <2>4. ReclaimedOut' BY <1>2, <2>1 DEF ReclaimedOut, vars
  <2>5. Used' = Used BY <2>1 DEF Used, vars
  <2> QED BY <1>1, <2>1, <2>2, <2>3, <2>4, <2>5 DEF OrchInv, ShutdownReleasesRanks
<1>6. CASE InCycle \/ (Tick /\ call # "none" /\ UNCHANGED orchVars)
  <2>1. UNCHANGED <<call, stage, shut_down, wanted>> BY <1>6 DEF InCycle, orchVars, callVars
  <2>2. stage' = "loop" => phase' = "idle"
    BY <1>2, <1>6, <2>1 DEF OrchTypes, InCycle, PollNode, PollEnd, Dispatch, DispatchAccepted, DispatchEnd, EndCycle, Tick, loopVars
  <2>3. OrchTypes' BY <1>2, <2>1, <2>2 DEF OrchTypes
  <2> QED BY <1>3, <1>6, <2>1, <2>3 DEF InCycle
<1>7. CASE ProcessDeferred
  <2>1. /\ RemoveAvailable(deferred) /\ UNCHANGED <<taskVars, timeVars, loopVars, finished>>
        /\ stage' = "loop" /\ phase' = "idle" /\ UNCHANGED <<shut_down, wanted>>
    BY <1>7 DEF ProcessDeferred, loopVars
  <2>2. IInv' BY <1>2, <2>1, PoolCallKeeps
  <2>3. free' \subseteq free /\ Used' = Used BY <2>1 DEF RemoveAvailable, Used
  <2>4. ReclaimedOut' BY <1>2, <2>1, <2>3 DEF ReclaimedOut
  <2>5. OrchTypes' BY <1>2, <2>1 DEF OrchTypes
  <2> QED BY <1>1, <2>1, <2>2, <2>3, <2>4, <2>5 DEF OrchInv, ShutdownReleasesRanks
<1>8. CASE ShutdownForced
  <2>1. /\ CancelRunning /\ call' = "none" /\ stage' = "loop" /\ phase' = "idle" /\ shut_down' = TRUE
        /\ wanted' = wanted
    BY <1>2, <1>8 DEF ShutdownForced, OrchTypes, loopVars
  <2>2. \A n \in Nodes : status'[n] # "running"
    BY <2>1 DEF CancelRunning, Running
  <2>3. Running' = {} BY <2>2 DEF Running
  <2>4. PICK U, R : U = UNION {held[n] : n \in Nodes} /\ R = UNION {held[n] : n \in Running} OBVIOUS
  <2>5. \A n \in Nodes : n \notin Running => held[n] = {} BY <1>2 DEF IInv, RanksFollowTasks, Running
  <2>6. U = R
    <3>1. \A x \in U : \E n \in Nodes : x \in held[n] BY <2>4
    <3>2. \A x \in U : \E n \in Running : x \in held[n] BY <2>5, <3>1
    <3>3. \A x \in R : \E n \in Nodes : x \in held[n] BY <2>4 DEF Running
    <3> QED BY <2>4, <3>2, <3>3
  <2>7. pool = free \cup U /\ free' = free \cup (R \cap pool) /\ pool' = pool
    BY <1>2, <2>1, <2>4 DEF IInv, RanksConserved, CancelRunning, ReleaseOf
  <2>8. free' = pool' BY <2>6, <2>7
  <2>9. ShutdownReleasesRanks' BY <2>1, <2>3, <2>8 DEF ShutdownReleasesRanks, CancelRunning
  <2>10. OrchTypes' BY <1>2, <2>1 DEF OrchTypes
  <2>11. AtRest' BY <2>1 DEF AtRest
  <2>12. \A r \in Used' : r \in Used
    <3>1. held' = [n \in Nodes |-> IF n \in Running THEN {} ELSE held[n]] BY <2>1 DEF CancelRunning, ReleaseOf
    <3> QED BY <3>1 DEF Used
  <2> QED BY <2>1, <2>9, <2>10, <2>11, <2>12 DEF OrchInv
<1>9. CASE ShutdownDrained
  <2>1. /\ call' = "none" /\ stage' = "loop" /\ phase' = "idle" /\ shut_down' = TRUE /\ in_flight = 0
        /\ UNCHANGED <<vars, wanted>>
    BY <1>2, <1>9 DEF ShutdownDrained, OrchTypes, vars, loopVars
  <2>2. Running = {} /\ free = pool BY <1>2, <2>1, NothingHeld
  <2>3. ShutdownReleasesRanks'
    BY <2>1, <2>2 DEF ShutdownReleasesRanks, Running, vars, taskVars
  <2>4. OrchTypes' BY <1>2, <2>1 DEF OrchTypes
  <2>5. AtRest' BY <2>1 DEF AtRest
  <2>6. Used' = Used BY <2>1 DEF Used, vars
  <2> QED BY <2>1, <2>3, <2>4, <2>5, <2>6 DEF OrchInv
<1>10. CASE Run \/ AdvanceStep \/ Shutdown
  <2>1. UNCHANGED <<vars, shut_down, wanted>> /\ stage' = "loop" /\ call = "none"
    BY <1>10 DEF Run, AdvanceStep, Shutdown, Enter, CanCall
  <2>2. phase' = "idle" BY <1>2, <2>1 DEF OrchTypes, vars, loopVars
  <2>3. OrchTypes' BY <1>2, <2>1, <2>2 DEF OrchTypes
  <2>4. IInv' BY <1>2, <2>1, NextIInv
  <2>5. ReclaimedOut' BY <1>2, <2>1 DEF ReclaimedOut, vars
  <2>6. Used' = Used BY <2>1 DEF Used, vars
  <2> QED BY <1>1, <2>1, <2>3, <2>4, <2>5, <2>6 DEF OrchInv, ShutdownReleasesRanks
<1>11. ASSUME NEW rs \in SUBSET Ranks, YieldRanks(rs) PROVE Goal
  <2>1. /\ AddRanks(rs) /\ UNCHANGED <<taskVars, timeVars, loopVars, finished>>
        /\ UNCHANGED <<call, stage, shut_down, phase>>
        /\ wanted' = [r \in Ranks |-> IF r \in rs THEN "yield" ELSE wanted[r]]
    BY <1>11 DEF YieldRanks, callVars, loopVars
  <2>2. IInv' BY <1>2, <2>1, PoolCallKeeps
  <2>3. Used' = Used BY <2>1 DEF AddRanks, Used
  <2>4. ReclaimedOut' BY <1>2, <2>1 DEF ReclaimedOut, AddRanks
  <2>5. OrchTypes' BY <1>2, <2>1 DEF OrchTypes
  <2> QED BY <1>1, <2>1, <2>2, <2>3, <2>4, <2>5 DEF OrchInv, ShutdownReleasesRanks
<1>12. ASSUME NEW rs \in SUBSET Ranks, ReclaimRanks(rs) PROVE Goal
  <2>1. /\ RemoveAvailable(rs) /\ UNCHANGED <<taskVars, timeVars, loopVars, finished>>
        /\ UNCHANGED <<call, stage, shut_down, phase>>
        /\ wanted' = [r \in Ranks |-> IF r \in rs THEN "reclaim" ELSE wanted[r]]
    BY <1>12 DEF ReclaimRanks, TakeBack, callVars, loopVars
  <2>2. IInv' BY <1>2, <2>1, PoolCallKeeps
  <2>3. Used' = Used BY <2>1 DEF RemoveAvailable, Used
  <2>4. ReclaimedOut' BY <1>2, <2>1 DEF ReclaimedOut, RemoveAvailable, Removed
  <2>5. OrchTypes' BY <1>2, <2>1 DEF OrchTypes
  <2> QED BY <1>1, <2>1, <2>2, <2>3, <2>4, <2>5 DEF OrchInv, ShutdownReleasesRanks
<1> HIDE DEF Goal
<1> QED
  BY <1>4, <1>5, <1>6, <1>7, <1>8, <1>9, <1>10, <1>11, <1>12 DEF OrchNext, Working, Calling

LEMMA OrchStart == OrchInit => OrchInv
<1> SUFFICES ASSUME OrchInit PROVE OrchInv
  OBVIOUS
<1>1. IInv BY InitIInv DEF OrchInit
<1>2. OrchTypes BY DEF OrchInit, OrchTypes, Init
<1>3. ReclaimedOut BY DEF OrchInit, ReclaimedOut
<1> QED BY <1>1, <1>2, <1>3 DEF OrchInv, OrchInit, ShutdownReleasesRanks

LEMMA OrchRest == OrchInv /\ UNCHANGED allVars => OrchInv'
<1> SUFFICES ASSUME OrchInv, UNCHANGED allVars PROVE OrchInv'
  OBVIOUS
<1>1. UNCHANGED <<vars, call, stage, shut_down, wanted>> BY DEF allVars, orchVars, callVars
<1>2. OrchTypes' BY <1>1 DEF OrchInv, OrchTypes, vars, loopVars
<1>3. ~shut_down' => IInv' BY <1>1, NextIInv DEF OrchInv
<1>4. ~shut_down' => ReclaimedOut' BY <1>1 DEF OrchInv, ReclaimedOut, vars
<1>5. shut_down' => AtRest' BY <1>1 DEF OrchInv, AtRest, vars, loopVars
<1>6. ShutdownReleasesRanks'
  BY <1>1 DEF OrchInv, ShutdownReleasesRanks, Running, vars, taskVars
<1> QED BY <1>2, <1>3, <1>4, <1>5, <1>6 DEF OrchInv

(***************************************************************************)
(* After shutdown() no task runs and every rank of the pool is free,       *)
(* whether the loop drained or force_cancel_in_flight gave up on the       *)
(* tasks, for every graph, pool and history of yields and reclaims.        *)
(***************************************************************************)
THEOREM ShutdownFreesRanks == OrchSpec => []ShutdownReleasesRanks
<1>1. OrchInv /\ [OrchNext]_allVars => OrchInv' BY ReclaimedStep, OrchRest
<1>2. OrchInv => ShutdownReleasesRanks BY DEF OrchInv
<1> QED BY <1>1, <1>2, OrchStart, PTL DEF OrchSpec

(***************************************************************************)
(* A rank that reclaim_ranks was given is not allocated to a task again    *)
(* before yield_ranks brings it back, in every step of every call.         *)
(***************************************************************************)
THEOREM ReclaimedStayOut == OrchSpec => ReclaimedNotGiven
<1>1. OrchInv /\ [OrchNext]_allVars => OrchInv' BY ReclaimedStep, OrchRest
<1>2. OrchInv /\ [OrchNext]_allVars
        => [\A r \in Ranks : wanted[r] = "reclaim" /\ r \notin Used => r \notin Used']_allVars
  BY ReclaimedStep
<1> QED BY <1>1, <1>2, OrchStart, PTL DEF OrchSpec, ReclaimedNotGiven
=============================================================================
