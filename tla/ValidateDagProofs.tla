------------------------- MODULE ValidateDagProofs --------------------------
(***************************************************************************)
(* Kahn's algorithm, as validate_dag and parse_pipeline run it, decides    *)
(* acyclicity of every graph.  The visited nodes are closed under taking   *)
(* producers and contain no cycle; when the queue runs dry, every node     *)
(* that was not visited still has a producer that was not visited.         *)
(***************************************************************************)
EXTENDS ValidateDag, FiniteSetTheorems, TLAPS

\* The edges into n whose producer is not visited yet
Open(n) == {e \in EdgesInto(n) : producer[e] \notin sorted}

SortedClosed == \A n \in sorted : \A e \in EdgesInto(n) : producer[e] \in sorted

SortedAcyclic ==
    \A S \in SUBSET sorted : S # {} =>
        \E n \in S : \A e \in EdgesInto(n) : producer[e] \notin S

QueueExact ==
    verdict # "start" /\ verdict # "dangling"
        => queue = {n \in Tasks \ sorted : in_degree[n] = 0}

IInv == /\ TypeOK
        /\ verdict \in {"running", "acyclic", "cycle"} => ~Dangling
        /\ verdict = "start" => sorted = {}
        /\ \A n \in Tasks : in_degree[n] = Cardinality(Open(n))
        /\ sorted_count = Cardinality(sorted)
        /\ SortedClosed
        /\ SortedAcyclic
        /\ QueueExact
        /\ VerdictCorrect

LEMMA Finite == /\ IsFiniteSet(Tasks) /\ Cardinality(Tasks) = NumTasks
                /\ \A S \in SUBSET Tasks : IsFiniteSet(S)
                /\ \A n : IsFiniteSet(EdgesInto(n)) /\ IsFiniteSet(Open(n))
<1>1. IsFiniteSet(Tasks) /\ Cardinality(Tasks) = NumTasks
  BY FS_Interval, DagAssumption DEF Tasks
<1>2. \A n : EdgesInto(n) \in SUBSET Edges /\ Open(n) \in SUBSET Edges
  BY DEF EdgesInto, Open
<1> QED
  BY <1>1, <1>2, FS_Subset, DagAssumption

LEMMA InitIInv == Init => IInv
<1> SUFFICES ASSUME Init PROVE IInv
  OBVIOUS
<1> USE DEF Init
<1>1. \A n \in Tasks : Open(n) = EdgesInto(n)
  BY DEF Open
<1>2. \A n \in Tasks : Cardinality(EdgesInto(n)) \in Nat
  BY Finite, FS_CardinalityType
<1>3. TypeOK
  BY <1>2 DEF TypeOK
<1>4. \A n \in Tasks : in_degree[n] = Cardinality(Open(n))
  BY <1>1
<1>5. sorted_count = Cardinality(sorted)
  BY FS_EmptySet
<1>6. SortedClosed /\ SortedAcyclic /\ QueueExact /\ VerdictCorrect
  BY DEF SortedClosed, SortedAcyclic, QueueExact, VerdictCorrect
<1> QED
  BY <1>3, <1>4, <1>5, <1>6 DEF IInv

\* Without dangling edges every producer is a task.
LEMMA ProducersAreTasks ==
    ASSUME TypeOK, ~Dangling, NEW e \in Edges
    PROVE  producer[e] \in Tasks /\ consumer[e] \in Tasks
  BY DEF Dangling, TypeOK

LEMMA VisitStep == ASSUME IInv, NEW n \in Tasks, Visit(n) PROVE IInv'
<1>1. /\ verdict = "running" /\ n \in queue /\ in_degree' = CountDown(n)
      /\ queue' = (queue \ {n}) \cup Freed(n)
      /\ sorted' = sorted \cup {n} /\ sorted_count' = sorted_count + 1
      /\ producer' = producer /\ consumer' = consumer /\ verdict' = verdict
  BY DEF Visit, graph
<1>2. TypeOK /\ ~Dangling
  BY <1>1 DEF IInv
<1>3. queue = {m \in Tasks \ sorted : in_degree[m] = 0}
  BY <1>1 DEF IInv, QueueExact
<1>4. n \notin sorted /\ in_degree[n] = 0
  BY <1>1, <1>3
<1>5. \A m : EdgesInto(m)' = EdgesInto(m)
  BY <1>1 DEF EdgesInto
<1>6. \A e \in EdgesInto(n) : producer[e] \in sorted
  <2>1. Open(n) = {}
    BY <1>4, Finite, FS_EmptySet DEF IInv
  <2> QED
    BY <2>1 DEF Open
<1>7. ASSUME NEW m \in Tasks
      PROVE  /\ CountDown(n)[m] = Cardinality(Open(m)')
             /\ CountDown(n)[m] \in Nat
  <2> DEFINE N == {e \in EdgesInto(m) : producer[e] = n}
  <2>1. Open(m)' = Open(m) \ N
    BY <1>1, <1>5 DEF Open
  <2>2. Open(m) \cap N = N
    BY <1>4 DEF Open
  <2>3. /\ Cardinality(Open(m)') = Cardinality(Open(m)) - Cardinality(N)
        /\ Cardinality(Open(m)') \in Nat
    BY <2>1, <2>2, Finite, FS_Difference, FS_CardinalityType
  <2>4. CountDown(n)[m] = in_degree[m] - Cardinality(N)
    BY DEF CountDown
  <2> QED
    BY <2>3, <2>4 DEF IInv
<1>8. \A m \in Tasks : in_degree'[m] = Cardinality(Open(m)')
  BY <1>1, <1>7
<1>9. TypeOK'
  <2>1. in_degree' \in [Tasks -> Nat]
    BY <1>1, <1>7 DEF CountDown
  <2>2. queue' \in SUBSET Tasks
    BY <1>1, <1>2 DEF Freed, TypeOK
  <2> QED
    BY <1>1, <1>2, <2>1, <2>2 DEF TypeOK
<1>10. sorted_count' = Cardinality(sorted')
  <2>1. Cardinality(sorted') = Cardinality(sorted) + 1
    BY <1>1, <1>2, <1>4, Finite, FS_AddElement DEF TypeOK
  <2> QED
    BY <1>1, <2>1 DEF IInv
<1>11. SortedClosed'
  BY <1>1, <1>5, <1>6 DEF IInv, SortedClosed
<1>12. SortedAcyclic'
  <2> SUFFICES ASSUME NEW S \in SUBSET sorted', S # {}
               PROVE  \E m \in S : \A e \in EdgesInto(m) : producer[e] \notin S
    BY <1>1, <1>5 DEF SortedAcyclic
  <2>1. CASE S = {n}
    BY <1>4, <1>6, <2>1
  <2>2. CASE S # {n}
    <3>1. S \ {n} \in SUBSET sorted /\ S \ {n} # {}
      BY <1>1, <2>2
    <3>2. PICK m \in S \ {n} : \A e \in EdgesInto(m) : producer[e] \notin S \ {n}
      BY <3>1 DEF IInv, SortedAcyclic
    <3>3. \A e \in EdgesInto(m) : producer[e] \in sorted
      BY <3>1, <3>2 DEF IInv, SortedClosed
    <3> QED
      BY <1>4, <3>2, <3>3
  <2> QED
    BY <2>1, <2>2
<1>13. queue' = {m \in Tasks \ sorted' : in_degree'[m] = 0}
  <2>1. ASSUME NEW m \in Tasks, m \in sorted \cup {n} PROVE m \notin queue'
    <3>1. m \notin queue \ {n}
      BY <1>3, <2>1
    <3>2. in_degree[m] = 0
      <4>1. CASE m = n
        BY <1>4, <4>1
      <4>2. CASE m \in sorted
        <5>1. Open(m) = {}
          BY <4>2 DEF IInv, SortedClosed, Open
        <5> QED
          BY <5>1, FS_EmptySet DEF IInv
      <4> QED
        BY <2>1, <4>1, <4>2
    <3> QED
      BY <1>1, <3>1, <3>2 DEF Freed
  <2>2. ASSUME NEW m \in Tasks, m \notin sorted \cup {n}
        PROVE  m \in queue' <=> in_degree'[m] = 0
    <3>1. m \in queue' <=> in_degree[m] = 0 \/ (in_degree[m] # 0 /\ CountDown(n)[m] = 0)
      BY <1>1, <1>3, <2>2 DEF Freed
    <3>2. ASSUME in_degree[m] = 0 PROVE in_degree'[m] = 0
      <4>1. Open(m) = {}
        BY <3>2, Finite, FS_EmptySet DEF IInv
      <4>2. Open(m)' = {}
        BY <1>1, <1>5, <4>1 DEF Open
      <4> QED
        BY <1>8, <4>2, FS_EmptySet
    <3> QED
      BY <1>1, <3>1, <3>2
  <2>3. queue' \in SUBSET Tasks
    BY <1>9 DEF TypeOK
  <2> QED
    BY <1>1, <2>1, <2>2, <2>3
<1>14. QueueExact' /\ VerdictCorrect' /\ ~Dangling'
  BY <1>1, <1>2, <1>13 DEF QueueExact, VerdictCorrect, Dangling
<1> QED
  BY <1>1, <1>8, <1>9, <1>10, <1>11, <1>12, <1>14 DEF IInv

LEMMA FinishStep == ASSUME IInv, Finish PROVE IInv'
<1>1. /\ verdict = "running" /\ queue = {}
      /\ verdict' = IF Accepted THEN "acyclic" ELSE "cycle"
      /\ UNCHANGED <<producer, consumer, in_degree, queue, sorted, sorted_count>>
  BY DEF Finish, graph
<1>2. TypeOK /\ ~Dangling /\ sorted \in SUBSET Tasks
  BY <1>1 DEF IInv, TypeOK
<1>3. ASSUME Accepted PROVE Acyclic
  <2>1. sorted = Tasks
    BY <1>2, <1>3, Finite, FS_Subset DEF IInv, Accepted
  <2> QED
    BY <2>1 DEF IInv, SortedAcyclic, Acyclic
<1>4. ASSUME ~Accepted PROVE ~Acyclic
  <2> DEFINE R == Tasks \ sorted
  <2>1. R # {}
    <3>1. sorted # Tasks
      BY <1>4, Finite DEF IInv, Accepted
    <3> QED
      BY <1>2, <3>1
  <2>2. ASSUME NEW n \in R PROVE \E e \in EdgesInto(n) : producer[e] \in R
    <3>1. in_degree[n] # 0
      BY <1>1, <2>2 DEF IInv, QueueExact
    <3>2. Open(n) # {}
      BY <3>1, <2>2, FS_EmptySet DEF IInv
    <3>3. PICK e \in EdgesInto(n) : producer[e] \notin sorted
      BY <3>2 DEF Open
    <3>4. producer[e] \in Tasks
      BY <1>2, <3>3, ProducersAreTasks DEF EdgesInto
    <3> QED
      BY <3>3, <3>4
  <2> QED
    BY <2>1, <2>2 DEF Acyclic
<1>5. VerdictCorrect'
  <2>1. Acyclic' = Acyclic /\ Dangling' = Dangling
    BY <1>1 DEF Acyclic, Dangling, EdgesInto
  <2> QED
    BY <1>1, <1>2, <1>3, <1>4, <2>1 DEF VerdictCorrect
<1>6. TypeOK' /\ verdict' \notin {"start", "dangling"} /\ ~Dangling'
  BY <1>1, <1>2 DEF TypeOK, Dangling
<1>7. QueueExact'
  BY <1>1 DEF IInv, QueueExact
<1>8. SortedClosed' /\ SortedAcyclic'
  BY <1>1 DEF IInv, SortedClosed, SortedAcyclic, EdgesInto
<1>9. \A n \in Tasks : in_degree'[n] = Cardinality(Open(n)')
  <2>1. \A n \in Tasks : Open(n)' = Open(n)
    BY <1>1 DEF Open, EdgesInto
  <2> QED
    BY <1>1, <2>1 DEF IInv
<1> QED
  BY <1>1, <1>5, <1>6, <1>7, <1>8, <1>9 DEF IInv

\* The steps that leave the graph and the visited nodes alone.
LEMMA OtherSteps == ASSUME IInv, RejectDangling \/ Seed \/ UNCHANGED vars PROVE IInv'
<1>1. UNCHANGED <<producer, consumer, in_degree, sorted, sorted_count>>
  BY DEF RejectDangling, Seed, vars, graph
<1>2. \A n \in Tasks : Open(n)' = Open(n) /\ EdgesInto(n)' = EdgesInto(n)
  BY <1>1 DEF Open, EdgesInto
<1>3. /\ \A n \in Tasks : in_degree'[n] = Cardinality(Open(n)')
      /\ sorted_count' = Cardinality(sorted')
  BY <1>1, <1>2 DEF IInv
<1>4. SortedClosed' /\ SortedAcyclic'
  BY <1>1 DEF IInv, SortedClosed, SortedAcyclic, EdgesInto
<1>5. Dangling' = Dangling /\ Acyclic' = Acyclic
  BY <1>1 DEF Dangling, Acyclic, EdgesInto
<1>6. CASE RejectDangling
  BY <1>1, <1>3, <1>4, <1>6 DEF RejectDangling, IInv, TypeOK, QueueExact, VerdictCorrect
<1>7. CASE Seed
  <2>1. sorted = {}
    BY <1>7 DEF Seed, IInv
  <2>2. QueueExact' /\ TypeOK' /\ VerdictCorrect' /\ ~Dangling' /\ verdict' = "running"
    BY <1>1, <1>5, <1>7, <2>1 DEF Seed, IInv, TypeOK, QueueExact, VerdictCorrect
  <2> QED
    BY <1>3, <1>4, <2>2 DEF IInv
<1>8. CASE UNCHANGED vars
  BY <1>1, <1>3, <1>4, <1>5, <1>8 DEF vars, IInv, TypeOK, QueueExact, VerdictCorrect
<1> QED
  BY <1>6, <1>7, <1>8

\* validate_dag's verdict is right for every graph: accepted exactly when no
\* set of tasks depends on itself.
THEOREM KahnDecidesAcyclicity == Spec => []VerdictCorrect
<1>1. IInv /\ [Next]_vars => IInv'
  BY VisitStep, FinishStep, OtherSteps DEF Next
<1>2. IInv => VerdictCorrect
  BY DEF IInv
<1> QED
  BY InitIInv, <1>1, <1>2, PTL DEF Spec
=============================================================================
