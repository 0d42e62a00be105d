--------------------------- MODULE ResourceProofs ---------------------------
(***************************************************************************)
(* Proofs about what is handed out and comes back: the staging pool's      *)
(* buffers, the tokens of the C interfaces, and the ranks of the pool.     *)
(***************************************************************************)
EXTENDS StagingPool, HandleTable, Bindings, RankPoolVec, FiniteSetTheorems,
        SequenceTheorems, WellFoundedInduction, TLAPS

-----------------------------------------------------------------------------
(***************************************************************************)
(* Proofs about StagingPool, for any number of threads, slots and sizes,   *)
(* in both grow modes.                                                     *)
(*                                                                         *)
(* The invariant PoolExact speaks of positions where FreeListExact speaks  *)
(* of the set of the list's members: a removal in the middle and an        *)
(* insertion at the place lower_bound returns are then arithmetic on       *)
(* positions. The order of the list is needed for the insertion to keep it *)
(* sorted, since the place is found by counting smaller capacities.        *)
(* NoLostWakeup is inductive with it: release wakes a sleeper for each     *)
(* slot it puts back, and a thread that is woken finds a slot or goes to   *)
(* sleep with none left.                                                   *)
(***************************************************************************)
(***************************************************************************)
(* Facts about the operators of the model.                                 *)
(***************************************************************************)

\* A nonempty set of naturals has a least element: what find_best_fit's search
\* from the front of the list returns.
LEMMA LeastNatural ==
    ASSUME NEW T \in SUBSET Nat, T # {}
    PROVE  \E x \in T : \A y \in T : x <= y
<1>1. \E x \in T : \A y \in T : ~(<<y, x>> \in OpToRel(<, Nat))
  BY NatLessThanWellFounded, WFMin
<1>2. \A x, y \in T : <<y, x>> \notin OpToRel(<, Nat) => x <= y
  BY DEF OpToRel
<1> QED BY <1>1, <1>2

\* Induction, for a set of naturals rather than a predicate.
LEMMA SetInduction ==
    ASSUME NEW T, 0 \in T, \A n \in Nat : n \in T => n + 1 \in T
    PROVE  Nat \subseteq T
<1> DEFINE C == {n \in Nat : n \notin T}
<1>1. SUFFICES ASSUME C # {} PROVE FALSE OBVIOUS
<1>2. PICK m \in C : \A y \in C : m <= y BY <1>1, LeastNatural
<1>3. m # 0 BY <1>2
<1>4. m - 1 \in Nat /\ m - 1 \notin C BY <1>2, <1>3
<1>5. m - 1 + 1 \in T BY <1>4
<1> QED BY <1>2, <1>5

\* A function defined from its value one place before.
Recurs(f, a, g, n) == f[0] = a /\ \A k \in 1 .. n : f[k] = g[k][f[k - 1]]

LEMMA RecursionExists ==
    ASSUME NEW S, NEW a \in S, NEW g \in [Nat -> [S -> S]], NEW n \in Nat
    PROVE  \E f \in [0 .. n -> S] : Recurs(f, a, g, n)
<1> DEFINE T == {m \in Nat : \E f \in [0 .. m -> S] :
                    f[0] = a /\ \A k \in 1 .. m : f[k] = g[k][f[k - 1]]}
<1>1. 0 \in T
  <2> DEFINE f == [k \in 0 .. 0 |-> a]
  <2>1. f \in [0 .. 0 -> S] /\ f[0] = a /\ \A k \in 1 .. 0 : f[k] = g[k][f[k - 1]] OBVIOUS
  <2> QED BY <2>1
<1>2. ASSUME NEW m \in Nat, m \in T PROVE m + 1 \in T
  <2>1. PICK f \in [0 .. m -> S] : f[0] = a /\ \A k \in 1 .. m : f[k] = g[k][f[k - 1]]
    BY <1>2
  <2> DEFINE h == [k \in 0 .. m + 1 |-> IF k <= m THEN f[k] ELSE g[m + 1][f[m]]]
  <2>2. f[m] \in S /\ m + 1 \in Nat BY <2>1
  <2>3. g[m + 1][f[m]] \in S BY <2>2
  <2>4. h \in [0 .. m + 1 -> S] /\ h[0] = a BY <2>1, <2>3
  <2>5. ASSUME NEW k \in 1 .. m + 1 PROVE h[k] = g[k][h[k - 1]]
    <3>1. CASE k <= m BY <2>1, <3>1
    <3>2. CASE k = m + 1 BY <3>2
    <3> QED BY <3>1, <3>2
  <2> HIDE DEF h
  <2> QED BY <2>4, <2>5
<1> HIDE DEF T
<1>3. Nat \subseteq T BY <1>1, <1>2, SetInduction
<1> QED BY <1>3 DEF T, Recurs

\* Removing the element at i keeps the others in their order.
LEMMA RemoveAtSeq ==
    ASSUME NEW S, NEW s \in Seq(S), NEW i \in 1 .. Len(s)
    PROVE  /\ RemoveAt(s, i) \in Seq(S)
           /\ Len(RemoveAt(s, i)) = Len(s) - 1
           /\ \A j \in 1 .. Len(s) - 1 : RemoveAt(s, i)[j] = IF j < i THEN s[j] ELSE s[j + 1]
<1> DEFINE a == SubSeq(s, 1, i - 1)
           z == SubSeq(s, i + 1, Len(s))
<1>1. /\ a \in Seq(S) /\ Len(a) = i - 1 /\ \A j \in 1 .. i - 1 : a[j] = s[j]
  BY SMT
<1>2. /\ z \in Seq(S) /\ Len(z) = Len(s) - i
      /\ \A j \in 1 .. Len(s) - i : z[j] = s[i + j]
  BY SMT
<1>3. RemoveAt(s, i) = a \o z BY DEF RemoveAt
<1> HIDE DEF a, z
<1>4. /\ a \o z \in Seq(S) /\ Len(a \o z) = Len(a) + Len(z)
      /\ \A j \in 1 .. Len(a) + Len(z) :
            (a \o z)[j] = IF j <= Len(a) THEN a[j] ELSE z[j - Len(a)]
  BY <1>1, <1>2, ConcatProperties, Zenon
<1> QED BY <1>1, <1>2, <1>3, <1>4

\* Inserting e at i shifts what follows by one.
LEMMA InsertAtSeq ==
    ASSUME NEW S, NEW s \in Seq(S), NEW i \in 1 .. Len(s) + 1, NEW e \in S
    PROVE  /\ InsertAt(s, i, e) \in Seq(S)
           /\ Len(InsertAt(s, i, e)) = Len(s) + 1
           /\ \A j \in 1 .. Len(s) + 1 :
                 InsertAt(s, i, e)[j] = IF j < i THEN s[j] ELSE IF j = i THEN e ELSE s[j - 1]
<1> DEFINE a == SubSeq(s, 1, i - 1)
           z == SubSeq(s, i, Len(s))
<1>1. /\ a \in Seq(S) /\ Len(a) = i - 1 /\ \A j \in 1 .. i - 1 : a[j] = s[j]
  BY SMT
<1>2. /\ z \in Seq(S) /\ Len(z) = Len(s) - i + 1
      /\ \A j \in 1 .. Len(s) - i + 1 : z[j] = s[i + j - 1]
  BY SMT
<1>3. InsertAt(s, i, e) = (a \o <<e>>) \o z BY DEF InsertAt
<1> HIDE DEF a, z
<1>4. <<e>> \in Seq(S) /\ Len(<<e>>) = 1 /\ <<e>>[1] = e BY SMT
<1>5. PICK m : m = a \o <<e>> OBVIOUS
<1>6. /\ m \in Seq(S) /\ Len(m) = i
      /\ \A j \in 1 .. i : m[j] = IF j < i THEN s[j] ELSE e
  <2>1. /\ a \o <<e>> \in Seq(S) /\ Len(a \o <<e>>) = Len(a) + Len(<<e>>)
        /\ \A j \in 1 .. Len(a) + Len(<<e>>) :
              (a \o <<e>>)[j] = IF j <= Len(a) THEN a[j] ELSE <<e>>[j - Len(a)]
    BY <1>1, <1>4, ConcatProperties, Zenon
  <2> QED BY <1>1, <1>4, <1>5, <2>1
<1>7. /\ m \o z \in Seq(S) /\ Len(m \o z) = Len(m) + Len(z)
      /\ \A j \in 1 .. Len(m) + Len(z) :
            (m \o z)[j] = IF j <= Len(m) THEN m[j] ELSE z[j - Len(m)]
  BY <1>2, <1>6, ConcatProperties, Zenon
<1>8. Len(m \o z) = Len(s) + 1 BY <1>2, <1>6, <1>7
<1>9. ASSUME NEW j \in 1 .. Len(s) + 1
      PROVE  (m \o z)[j] = IF j < i THEN s[j] ELSE IF j = i THEN e ELSE s[j - 1]
  <2>1. CASE j <= i BY <1>2, <1>6, <1>7, <2>1
  <2>2. CASE j > i
    <3>1. (m \o z)[j] = z[j - i] BY <1>2, <1>6, <1>7, <2>2
    <3>2. j - i \in 1 .. Len(s) - i + 1 /\ i + (j - i) - 1 = j - 1 BY <2>2
    <3>3. z[j - i] = s[i + (j - i) - 1] BY <1>2, <3>2
    <3>4. (m \o z)[j] = s[j - 1] BY <3>1, <3>2, <3>3, Zenon
    <3>5. ~(j < i) /\ j # i BY <2>2
    <3> QED BY <3>4, <3>5, Zenon
  <2>3. j <= i \/ j > i OBVIOUS
  <2> QED BY <2>1, <2>2, <2>3
<1> QED BY <1>3, <1>5, <1>7, <1>8, <1>9

\* Counting the elements before a boundary finds the boundary: what makes
\* PlaceFor std::lower_bound.
LEMMA PrefixCount ==
    ASSUME NEW n \in Nat, NEW D \in SUBSET (1 .. n),
           \A i \in D : \A j \in 1 .. i : j \in D
    PROVE  Cardinality(D) \in 0 .. n /\ \A j \in 1 .. n : j \in D <=> j <= Cardinality(D)
<1> DEFINE C == {i \in 1 .. n + 1 : i \notin D}
<1>1. n + 1 \in C BY SMT
<1>2. PICK m \in C : \A y \in C : m <= y
  <2>1. C \in SUBSET Nat BY SMT
  <2> HIDE DEF C
  <2> QED BY <1>1, <2>1, LeastNatural
<1>3. D = 1 .. m - 1
  <2>1. ASSUME NEW i \in D PROVE i \in 1 .. m - 1
    <3>1. i \in 1 .. n /\ m \in 1 .. n + 1 /\ m \notin D BY <1>2
    <3>2. i >= m => m \in D BY <3>1
    <3> QED BY <3>1, <3>2
  <2>2. ASSUME NEW j \in 1 .. m - 1 PROVE j \in D
    <3>1. j \in 1 .. n + 1 /\ ~(m <= j) BY <1>2
    <3> QED BY <1>2, <3>1
  <2> QED BY <2>1, <2>2
<1>4. Cardinality(1 .. m - 1) = IF 1 > m - 1 THEN 0 ELSE m - 1 - 1 + 1
  <2>1. m - 1 \in Int /\ 1 \in Int BY <1>2
  <2> QED BY <2>1, FS_Interval
<1>5. Cardinality(D) = m - 1
  BY <1>2, <1>3, <1>4
<1> QED BY <1>2, <1>3, <1>5

-----------------------------------------------------------------------------
(***************************************************************************)
(* The inductive invariant.                                                *)
(***************************************************************************)
ThreadState ==
    {SPOut, Refused} \cup {Asleep(n) : n \in Sizes} \cup {Woken(n) : n \in Sizes}
        \cup {Holds(x[1], x[2]) : x \in Slots \X Sizes}

PoolTypes ==
    /\ buffers \in BufferCount .. Ceiling
    /\ capacity \in [Slots -> Nat]
    /\ ref_count \in [Slots -> Nat]
    /\ sp_free \in Seq(Slots)
    /\ thread \in [Users -> ThreadState]

Listed(list, b) == \E i \in 1 .. Len(list) : list[i] = b

Injective(list) == \A i, j \in 1 .. Len(list) : list[i] = list[j] => i = j

BySize(list) ==
    \A i, j \in 1 .. Len(list) : i < j => capacity[list[i]] <= capacity[list[j]]

\* The free list holds each slot at most once, and those without a holder.
FreeSlots ==
    /\ Injective(sp_free)
    /\ \A b \in Slots : Listed(sp_free, b) <=> b <= buffers /\ Holders(b) = {}

References ==
    /\ \A t \in Users : thread[t].at = "holds" => thread[t].buf <= buffers
    /\ \A b \in Slots : ref_count[b] = Cardinality(Holders(b))

Room == \A t \in Users : thread[t].at = "holds" => capacity[thread[t].buf] >= thread[t].need

PoolExact == PoolTypes /\ FreeSlots /\ References /\ BySize(sp_free) /\ Room

Awake == {t \in Users : thread[t].at = "woken"}

-----------------------------------------------------------------------------
LEMMA CeilingNat ==
    /\ Ceiling \in Nat /\ BufferCount \in Nat /\ 1 <= BufferCount /\ BufferCount <= Ceiling
    /\ Nominal \in Nat /\ IsFiniteSet(Users)
    /\ \A n \in Sizes : n \in Nat /\ n > 0
    /\ \A n \in Sizes : Target(n) \in Nat /\ Target(n) >= n
BY PoolAssumption DEF Ceiling, Target

LEMMA ThreadShapes ==
    /\ SPOut \in ThreadState /\ SPOut.at = "out"
    /\ Refused \in ThreadState /\ Refused.at = "refused"
    /\ \A n \in Sizes : /\ Asleep(n) \in ThreadState /\ Asleep(n).at = "asleep" /\ Asleep(n).need = n
                        /\ Woken(n) \in ThreadState /\ Woken(n).at = "woken" /\ Woken(n).need = n
    /\ \A b \in Slots, n \in Sizes :
          Holds(b, n) \in ThreadState /\ Holds(b, n).at = "holds" /\ Holds(b, n).buf = b /\ Holds(b, n).need = n
<1>1. \A n \in Sizes : Asleep(n) \in ThreadState /\ Woken(n) \in ThreadState
  BY DEF ThreadState
<1>2. ASSUME NEW b \in Slots, NEW n \in Sizes PROVE Holds(b, n) \in ThreadState
  <2>1. <<b, n>> \in Slots \X Sizes /\ Holds(b, n) = Holds(<<b, n>>[1], <<b, n>>[2]) BY SMT
  <2> QED BY <2>1 DEF ThreadState
<1>3. SPOut \in ThreadState /\ Refused \in ThreadState BY DEF ThreadState
<1> QED BY <1>1, <1>2, <1>3 DEF SPOut, Refused, Asleep, Woken, Holds

LEMMA ThreadStates ==
    ASSUME NEW s \in ThreadState
    PROVE  /\ s.at = "out" => s = SPOut
           /\ s.at = "refused" => s = Refused
           /\ s.at = "asleep" => s.need \in Sizes /\ s = Asleep(s.need)
           /\ s.at = "woken" => s.need \in Sizes /\ s = Woken(s.need)
           /\ s.at = "holds" => s.buf \in Slots /\ s.need \in Sizes /\ s = Holds(s.buf, s.need)
           /\ s.at \in {"out", "refused", "asleep", "woken", "holds"}
<1>1. CASE s \in {SPOut, Refused} BY <1>1 DEF SPOut, Refused
<1>2. CASE s \in {Asleep(n) : n \in Sizes} BY <1>2 DEF Asleep
<1>3. CASE s \in {Woken(n) : n \in Sizes} BY <1>3 DEF Woken
<1>4. CASE s \in {Holds(x[1], x[2]) : x \in Slots \X Sizes} BY <1>4 DEF Holds
<1> QED BY <1>1, <1>2, <1>3, <1>4 DEF ThreadState

LEMMA HoldersFinite ==
    ASSUME NEW b PROVE IsFiniteSet(Holders(b)) /\ Holders(b) \subseteq Users
BY CeilingNat, FS_Subset DEF Holders

\* find_best_fit picks a position of the list it searches.
LEMMA BestFitListed ==
    ASSUME PoolTypes, NEW list \in Seq(Slots), list # <<>>, NEW n \in Sizes
    PROVE  BestFit(list, n) \in 1 .. Len(list)
<1> DEFINE Fits(b) == capacity[b] >= n
           Fresh(b) == capacity[b] = 0
<1>1. Len(list) \in Nat /\ Len(list) >= 1 /\ DOMAIN list = 1 .. Len(list)
  BY SMT
<1>2. (\E b \in Range(list) : Fits(b)) => SelectInSeq(list, Fits) \in 1 .. Len(list)
  <2> DEFINE I == {i \in 1 .. Len(list) : Fits(list[i])}
  <2>1. SUFFICES ASSUME \E b \in Range(list) : Fits(b) PROVE SelectInSeq(list, Fits) \in 1 .. Len(list)
    OBVIOUS
  <2>2. I # {} BY <1>1, <2>1 DEF Range
  <2>3. I \in SUBSET Nat /\ I \subseteq 1 .. Len(list) BY SMT
  <2>4. SelectInSeq(list, Fits) = Min(I) BY <2>2 DEF SelectInSeq
  <2> HIDE DEF I
  <2>5. \E x \in I : \A y \in I : x =< y BY <2>2, <2>3, LeastNatural
  <2>6. Min(I) \in I BY <2>5 DEF Min
  <2> QED BY <2>3, <2>4, <2>6
<1>3. (\E b \in Range(list) : Fresh(b)) => SelectInSeq(list, Fresh) \in 1 .. Len(list)
  <2> DEFINE I == {i \in 1 .. Len(list) : Fresh(list[i])}
  <2>1. SUFFICES ASSUME \E b \in Range(list) : Fresh(b) PROVE SelectInSeq(list, Fresh) \in 1 .. Len(list)
    OBVIOUS
  <2>2. I # {} BY <1>1, <2>1 DEF Range
  <2>3. I \in SUBSET Nat /\ I \subseteq 1 .. Len(list) BY SMT
  <2>4. SelectInSeq(list, Fresh) = Min(I) BY <2>2 DEF SelectInSeq
  <2> HIDE DEF I
  <2>5. \E x \in I : \A y \in I : x =< y BY <2>2, <2>3, LeastNatural
  <2>6. Min(I) \in I BY <2>5 DEF Min
  <2> QED BY <2>3, <2>4, <2>6
<1>4. BestFit(list, n) = IF \E b \in Range(list) : Fits(b) THEN SelectInSeq(list, Fits)
                         ELSE IF \E b \in Range(list) : Fresh(b) THEN SelectInSeq(list, Fresh)
                         ELSE Len(list)
  BY DEF BestFit
<1>5. Len(list) \in 1 .. Len(list) BY <1>1
<1> HIDE DEF Fits, Fresh
<1> QED BY <1>2, <1>3, <1>4, <1>5, Zenon

\* The success path of acquire, on the list it found or has just grown: the
\* slots nobody holds are on that list, and now all but one of them.
LEMMA TakeKeeps ==
    ASSUME PoolExact, NEW t \in Users, thread[t].at # "holds", NEW n \in Sizes,
           NEW list \in Seq(Slots), list # <<>>, Injective(list), BySize(list),
           buffers' \in buffers .. Ceiling,
           \A b \in Slots : Listed(list, b) <=> b <= buffers' /\ Holders(b) = {},
           Take(t, n, list)
    PROVE  /\ PoolExact'
           /\ Len(sp_free') = Len(list) - 1
           /\ \A u \in Users : u # t => thread'[u] = thread[u]
           /\ thread'[t].at = "holds"
<1>1. PICK i : i = BestFit(list, n) OBVIOUS
<1>2. i \in 1 .. Len(list) BY <1>1, BestFitListed DEF PoolExact
<1>3. PICK b : b = list[i] OBVIOUS
<1>4. b \in Slots /\ Listed(list, b) BY <1>2, <1>3 DEF Listed
<1>5. b <= buffers' /\ Holders(b) = {} BY <1>4
<1>6. /\ EnsureStorage(b, n)
      /\ sp_free' = RemoveAt(list, i)
      /\ ref_count' = [ref_count EXCEPT ![b] = 1]
      /\ thread' = [thread EXCEPT ![t] = Holds(b, n)]
  BY <1>1, <1>3 DEF Take, RemoveFromFreeList
<1>7. /\ capacity' \in [Slots -> Nat] /\ capacity'[b] >= n
      /\ \A c \in Slots : c # b => capacity'[c] = capacity[c]
  <2>1. Target(n) \in Nat /\ Target(n) >= n /\ n \in Nat BY CeilingNat
  <2>2. capacity \in [Slots -> Nat] BY DEF PoolExact, PoolTypes
  <2> QED BY <1>4, <1>6, <2>1, <2>2 DEF EnsureStorage
<1>8. /\ sp_free' \in Seq(Slots) /\ Len(sp_free') = Len(list) - 1 /\ Len(list) \in Nat
      /\ \A j \in 1 .. Len(list) - 1 : sp_free'[j] = IF j < i THEN list[j] ELSE list[j + 1]
  <2>1. /\ RemoveAt(list, i) \in Seq(Slots)
        /\ Len(RemoveAt(list, i)) = Len(list) - 1
        /\ \A j \in 1 .. Len(list) - 1 : RemoveAt(list, i)[j] = IF j < i THEN list[j] ELSE list[j + 1]
    BY <1>2, RemoveAtSeq, Zenon
  <2>2. Len(list) \in Nat OBVIOUS
  <2>3. sp_free' = RemoveAt(list, i) BY <1>6
  <2> QED BY <2>1, <2>2, <2>3, Zenon
<1>9. /\ thread' \in [Users -> ThreadState]
      /\ thread'[t] = Holds(b, n) /\ \A u \in Users : u # t => thread'[u] = thread[u]
  BY <1>4, <1>6, ThreadShapes DEF PoolExact, PoolTypes
<1>10. /\ thread'[t].at = "holds" /\ thread'[t].buf = b /\ thread'[t].need = n
  BY <1>4, <1>9, ThreadShapes
<1>11. Holders(b)' = {t}
  BY <1>5, <1>9, <1>10 DEF Holders
<1>12. \A c \in Slots : c # b => Holders(c)' = Holders(c)
  BY <1>9, <1>10 DEF Holders
<1>13. PoolTypes'
  <2>1. ref_count' \in [Slots -> Nat] BY <1>6 DEF PoolExact, PoolTypes
  <2>2. buffers' \in BufferCount .. Ceiling
    <3>1. buffers \in BufferCount .. Ceiling BY DEF PoolExact, PoolTypes
    <3> QED BY <3>1, CeilingNat
  <2>3. Slots' = Slots /\ ThreadState' = ThreadState /\ Users' = Users
    BY DEF Slots, ThreadState, Ceiling, SPOut, Refused, Asleep, Woken, Holds
  <2> QED BY <1>7, <1>8, <1>9, <2>1, <2>2, <2>3 DEF PoolTypes
<1>14. \A j \in 1 .. Len(list) - 1 : \E k \in 1 .. Len(list) : k # i /\ sp_free'[j] = list[k]
                                     /\ k = IF j < i THEN j ELSE j + 1
  BY <1>2, <1>8
<1>15. \A k \in 1 .. Len(list) : k # i => \E j \in 1 .. Len(list) - 1 : sp_free'[j] = list[k]
  <2> TAKE k \in 1 .. Len(list)
  <2> HAVE k # i
  <2>1. CASE k < i BY <1>2, <1>8, <2>1
  <2>2. CASE k > i
    <3>1. k - 1 \in 1 .. Len(list) - 1 /\ ~(k - 1 < i) /\ (k - 1) + 1 = k BY <1>2, <1>8, <2>2
    <3>2. sp_free'[k - 1] = list[k] BY <1>8, <3>1
    <3> QED BY <3>1, <3>2
  <2> QED BY <1>2, <2>1, <2>2
<1>16. \A k \in 1 .. Len(list) : k # i => list[k] # b
  BY <1>2, <1>3 DEF Injective
<1>17. FreeSlots'
  <2>1. Injective(sp_free)'
    <3> SUFFICES ASSUME NEW j \in 1 .. Len(list) - 1, NEW l \in 1 .. Len(list) - 1, sp_free'[j] = sp_free'[l]
                 PROVE  j = l
      BY <1>8 DEF Injective
    <3>1. PICK k \in 1 .. Len(list) : sp_free'[j] = list[k] /\ k = IF j < i THEN j ELSE j + 1 BY <1>14
    <3>2. PICK m \in 1 .. Len(list) : sp_free'[l] = list[m] /\ m = IF l < i THEN l ELSE l + 1 BY <1>14
    <3>3. k = m BY <3>1, <3>2 DEF Injective
    <3> QED BY <1>2, <3>1, <3>2, <3>3
  <2>2. ASSUME NEW c \in Slots
        PROVE  (\E j \in 1 .. Len(list) - 1 : sp_free'[j] = c) <=> c <= buffers' /\ Holders(c)' = {}
    <3>1. CASE c = b BY <1>11, <1>14, <1>16, <3>1
    <3>2. CASE c # b
      <4>1. (\E j \in 1 .. Len(list) - 1 : sp_free'[j] = c) <=> Listed(list, c)
        BY <1>3, <1>14, <1>15, <3>2 DEF Listed
      <4> QED BY <1>12, <3>2, <4>1
    <3> QED BY <3>1, <3>2
  <2>3. Slots' = Slots BY DEF Slots, Ceiling
  <2> QED BY <1>8, <2>1, <2>2, <2>3 DEF FreeSlots, Listed
<1>18. References'
  <2>1. \A u \in Users : thread'[u].at = "holds" => thread'[u].buf <= buffers'
    <3>1. \A u \in Users : thread[u].at = "holds" => thread[u].buf \in Slots /\ thread[u].buf <= buffers
      BY ThreadStates DEF PoolExact, References, PoolTypes
    <3>2. buffers \in Nat /\ buffers <= buffers' /\ buffers' \in Nat
      BY CeilingNat DEF PoolExact, PoolTypes
    <3>3. ASSUME NEW u \in Users, u # t, thread[u].at = "holds" PROVE thread[u].buf <= buffers'
      <4>1. thread[u].buf \in Nat BY <3>1, <3>3 DEF Slots
      <4> QED BY <3>1, <3>2, <3>3, <4>1
    <3> QED BY <1>5, <1>9, <1>10, <3>3
  <2>2. ASSUME NEW c \in Slots PROVE ref_count'[c] = Cardinality(Holders(c)')
    <3>1. CASE c = b
      <4>1. ref_count'[c] = 1 BY <1>6, <3>1 DEF PoolExact, PoolTypes
      <4> QED BY <1>11, <3>1, <4>1, FS_Singleton
    <3>2. CASE c # b
      <4>1. ref_count'[c] = ref_count[c] BY <1>6, <3>2 DEF PoolExact, PoolTypes
      <4> QED BY <1>12, <3>2, <4>1 DEF PoolExact, References
    <3> QED BY <3>1, <3>2
  <2>3. Slots' = Slots BY DEF Slots, Ceiling
  <2> QED BY <2>1, <2>2, <2>3 DEF References
<1>19. BySize(sp_free)'
  <2> SUFFICES ASSUME NEW j \in 1 .. Len(list) - 1, NEW l \in 1 .. Len(list) - 1, j < l
               PROVE  capacity'[sp_free'[j]] <= capacity'[sp_free'[l]]
    BY <1>8 DEF BySize
  <2>1. PICK k \in 1 .. Len(list) : k # i /\ sp_free'[j] = list[k] /\ k = IF j < i THEN j ELSE j + 1 BY <1>14
  <2>2. PICK m \in 1 .. Len(list) : m # i /\ sp_free'[l] = list[m] /\ m = IF l < i THEN l ELSE l + 1 BY <1>14
  <2>3. k < m BY <1>2, <2>1, <2>2
  <2>4. list[k] # b /\ list[m] # b BY <1>16, <2>1, <2>2
  <2>5. list[k] \in Slots /\ list[m] \in Slots BY ElementOfSeq
  <2>6. capacity'[list[k]] = capacity[list[k]] /\ capacity'[list[m]] = capacity[list[m]]
    BY <1>7, <2>4, <2>5
  <2> QED BY <2>1, <2>2, <2>3, <2>6 DEF BySize
<1>20. Room'
  <2> SUFFICES ASSUME NEW u \in Users, thread'[u].at = "holds"
               PROVE  capacity'[thread'[u].buf] >= thread'[u].need
    BY DEF Room
  <2>1. CASE u = t BY <1>7, <1>10, <2>1
  <2>2. CASE u # t
    <3>1. thread'[u] = thread[u] BY <1>9, <2>2
    <3>2. thread[u].buf \in Slots BY <3>1, ThreadStates DEF PoolExact, PoolTypes
    <3>3. thread[u].buf # b BY <1>5, <3>1 DEF Holders
    <3> QED BY <1>7, <3>1, <3>2, <3>3 DEF PoolExact, Room
  <2> QED BY <2>1, <2>2
<1> QED BY <1>8, <1>9, <1>10, <1>13, <1>17, <1>18, <1>19, <1>20 DEF PoolExact

LEMMA AwakeFinite == IsFiniteSet(Awake) /\ Cardinality(Awake) \in Nat
BY CeilingNat, FS_Subset, FS_CardinalityType DEF Awake

\* A thread that takes a buffer takes at most one wakeup with it.
LEMMA TakeWakes ==
    ASSUME PoolExact, NoLostWakeup, NEW t \in Users,
           \A u \in Users : u # t => thread'[u] = thread[u],
           thread'[t].at = "holds",
           sp_free' \in Seq(Slots),
           Len(sp_free') = 0 \/ Len(sp_free') = Len(sp_free) - 1
    PROVE  NoLostWakeup'
<1>1. Awake' = Awake \ {t} BY DEF Awake
<1>2. Sleepers' \subseteq Sleepers BY DEF Sleepers
<1>3. Cardinality(Awake \ {t}) \in Nat /\ Cardinality(Awake \ {t}) >= Cardinality(Awake) - 1
  <2>1. Cardinality(Awake \ {t}) = IF t \in Awake THEN Cardinality(Awake) - 1 ELSE Cardinality(Awake)
    BY AwakeFinite, FS_RemoveElement
  <2>2. Cardinality(Awake \ {t}) \in Nat BY AwakeFinite, FS_RemoveElement, FS_CardinalityType
  <2> QED BY <2>1, <2>2, AwakeFinite
<1>4. Len(sp_free) \in Nat /\ Len(sp_free') \in Nat BY DEF PoolExact, PoolTypes
<1>5. Sleepers # {} => Len(sp_free) <= Cardinality(Awake) BY DEF NoLostWakeup, Awake
<1>6. Sleepers' # {} => Len(sp_free') <= Cardinality(Awake \ {t})
  BY <1>2, <1>3, <1>4, <1>5, AwakeFinite
<1>7. Awake' = {u \in Users : thread'[u].at = "woken"} BY DEF Awake
<1> QED BY <1>1, <1>6, <1>7 DEF NoLostWakeup

\* A thread that holds nothing before and after leaves the buffers alone.
LEMMA WaitsKeep ==
    ASSUME PoolExact, NEW t \in Users, thread[t].at # "holds",
           NEW s \in ThreadState, s.at # "holds",
           thread' = [thread EXCEPT ![t] = s],
           UNCHANGED <<buffers, capacity, ref_count, sp_free>>
    PROVE  PoolExact'
<1>1. /\ thread' \in [Users -> ThreadState] /\ thread'[t] = s
      /\ \A u \in Users : u # t => thread'[u] = thread[u]
  BY DEF PoolExact, PoolTypes
<1>2. \A b \in Slots : Holders(b)' = Holders(b)
  BY <1>1 DEF Holders
<1>3. Slots' = Slots /\ ThreadState' = ThreadState
  BY DEF Slots, ThreadState, Ceiling, SPOut, Refused, Asleep, Woken, Holds
<1>4. PoolTypes' BY <1>1, <1>3 DEF PoolExact, PoolTypes
<1>5. FreeSlots' BY <1>2, <1>3 DEF PoolExact, FreeSlots, Listed, Injective
<1>6. References' BY <1>1, <1>2, <1>3 DEF PoolExact, References
<1>7. BySize(sp_free)' BY DEF PoolExact, BySize
<1>8. Room' BY <1>1 DEF PoolExact, Room
<1> QED BY <1>4, <1>5, <1>6, <1>7, <1>8 DEF PoolExact

\* A buffer is taken from the list as it stands.
LEMMA TakeListed ==
    ASSUME PoolExact, NoLostWakeup, NEW t \in Users, thread[t].at # "holds", NEW n \in Sizes,
           sp_free # <<>>, Take(t, n, sp_free), UNCHANGED buffers
    PROVE  PoolExact' /\ NoLostWakeup'
<1>1. buffers' \in buffers .. Ceiling
  BY CeilingNat DEF PoolExact, PoolTypes
<1>2. \A b \in Slots : Listed(sp_free, b) <=> b <= buffers' /\ Holders(b) = {}
  BY DEF PoolExact, FreeSlots
<1>3. /\ PoolExact'
      /\ Len(sp_free') = Len(sp_free) - 1
      /\ \A u \in Users : u # t => thread'[u] = thread[u]
      /\ thread'[t].at = "holds"
  <2>1. sp_free \in Seq(Slots) /\ Injective(sp_free) /\ BySize(sp_free)
    BY DEF PoolExact, PoolTypes, FreeSlots
  <2> QED BY <1>1, <1>2, <2>1, TakeKeeps
<1>4. sp_free' \in Seq(Slots) BY <1>3 DEF PoolExact, PoolTypes, Slots, Ceiling
<1> QED BY <1>3, <1>4, TakeWakes

\* One turn of acquire's loop.
LEMMA AttemptKeeps ==
    ASSUME PoolExact, NoLostWakeup, NEW t \in Users, thread[t].at # "holds", NEW n \in Sizes,
           Attempt(t, n)
    PROVE  PoolExact' /\ NoLostWakeup'
<1>1. CASE sp_free # <<>> /\ Take(t, n, sp_free) /\ UNCHANGED buffers
  BY <1>1, TakeListed
<1>2. CASE /\ sp_free = <<>> /\ buffers < Ceiling /\ buffers' = buffers + 1
           /\ Take(t, n, <<buffers + 1>>)
  <2>1. PICK b : b = buffers + 1 OBVIOUS
  <2>2. PICK list : list = <<b>> OBVIOUS
  <2>3. b \in Slots /\ b \in Nat /\ buffers \in Nat
    BY <1>2, <2>1, CeilingNat DEF PoolExact, PoolTypes, Slots
  <2>4. list \in Seq(Slots) /\ list # <<>> /\ Len(list) = 1 /\ list[1] = b
    BY <2>2, <2>3
  <2>5. Injective(list) /\ BySize(list) BY <2>4 DEF Injective, BySize
  <2>6. buffers' \in buffers .. Ceiling BY <1>2, <2>1, <2>3, CeilingNat
  <2>7. \A c \in Slots : Listed(sp_free, c) <=> c <= buffers /\ Holders(c) = {}
    BY DEF PoolExact, FreeSlots
  <2>8. \A c \in Slots : c <= buffers => Holders(c) # {}
    BY <1>2, <2>7 DEF Listed
  <2>9. Holders(b) = {}
    BY <2>1, <2>3, CeilingNat DEF PoolExact, References, Holders
  <2>10. \A c \in Slots : Listed(list, c) <=> c <= buffers' /\ Holders(c) = {}
    <3> TAKE c \in Slots
    <3>1. Listed(list, c) <=> c = b BY <2>4 DEF Listed
    <3>2. c \in Nat BY DEF Slots
    <3>3. c <= buffers' <=> c <= buffers \/ c = b BY <1>2, <2>1, <2>3, <3>2
    <3> QED BY <2>3, <2>8, <2>9, <3>1, <3>3
  <2>11. Take(t, n, list) BY <1>2, <2>1, <2>2
  <2>12. /\ PoolExact'
         /\ Len(sp_free') = Len(list) - 1
         /\ \A u \in Users : u # t => thread'[u] = thread[u]
         /\ thread'[t].at = "holds"
    BY <2>4, <2>5, <2>6, <2>10, <2>11, TakeKeeps
  <2>13. sp_free' \in Seq(Slots) BY <2>12 DEF PoolExact, PoolTypes, Slots, Ceiling
  <2>14. Len(sp_free') = 0 BY <2>4, <2>12
  <2> QED BY <2>12, <2>13, <2>14, TakeWakes
<1>3. CASE /\ sp_free = <<>> /\ thread' = [thread EXCEPT ![t] = Asleep(n)]
           /\ UNCHANGED <<buffers, capacity, ref_count, sp_free>>
  <2>1. PoolExact' BY <1>3, WaitsKeep, ThreadShapes
  <2>2. Awake' = {u \in Users : thread'[u].at = "woken"} BY DEF Awake
  <2>3. Awake' \subseteq Users BY <2>2
  <2>4. Cardinality(Awake') \in Nat BY <2>3, CeilingNat, FS_Subset, FS_CardinalityType
  <2>5. Len(sp_free') = 0 BY <1>3
  <2> QED BY <2>1, <2>2, <2>4, <2>5 DEF NoLostWakeup
<1> QED BY <1>1, <1>2, <1>3 DEF Attempt

LEMMA TimeoutKeeps ==
    ASSUME PoolExact, NoLostWakeup, NEW t \in Users, SPTimeout(t)
    PROVE  PoolExact' /\ NoLostWakeup'
<1>1. thread[t] \in ThreadState /\ thread[t].at # "holds" /\ thread[t].need \in Sizes
  BY ThreadStates DEF SPTimeout, PoolExact, PoolTypes
<1>2. CASE sp_free # <<>>
  <2>1. Take(t, thread[t].need, sp_free) /\ UNCHANGED buffers BY <1>2 DEF SPTimeout
  <2> QED BY <1>1, <1>2, <2>1, TakeListed
<1>3. CASE sp_free = <<>>
  <2>1. thread' = [thread EXCEPT ![t] = Refused] /\ UNCHANGED <<buffers, capacity, ref_count, sp_free>>
    BY <1>3 DEF SPTimeout
  <2>2. PoolExact' BY <1>1, <2>1, WaitsKeep, ThreadShapes
  <2>3. Awake' = {u \in Users : thread'[u].at = "woken"} BY DEF Awake
  <2>4. Cardinality(Awake') \in Nat BY <2>3, CeilingNat, FS_Subset, FS_CardinalityType
  <2>5. Len(sp_free') = 0 BY <1>3, <2>1
  <2> QED BY <2>2, <2>3, <2>4, <2>5 DEF NoLostWakeup
<1> QED BY <1>2, <1>3

\* A second view of a held buffer.
LEMMA AddRefKeeps ==
    ASSUME PoolExact, NoLostWakeup, NEW t \in Users, NEW u \in Users, AddRef(t, u)
    PROVE  PoolExact' /\ NoLostWakeup'
<1>1. PICK b : b = thread[t].buf OBVIOUS
<1>2. /\ thread \in [Users -> ThreadState] /\ thread[t].at = "holds" /\ b \in Slots
      /\ b <= buffers /\ capacity[b] >= thread[t].need
      /\ thread[u].at \in {"out", "refused"}
  BY <1>1, ThreadStates, ThreadShapes DEF AddRef, PoolExact, PoolTypes, References, Room
<1>3. /\ thread' \in [Users -> ThreadState] /\ thread'[u] = thread[t]
      /\ \A v \in Users : v # u => thread'[v] = thread[v]
  BY <1>2 DEF AddRef
<1>4. Holders(b)' = Holders(b) \cup {u} /\ u \notin Holders(b) /\ t \in Holders(b)
  BY <1>1, <1>2, <1>3 DEF Holders
<1>5. \A c \in Slots : c # b => Holders(c)' = Holders(c)
  BY <1>1, <1>2, <1>3 DEF Holders
<1>6. Slots' = Slots /\ ThreadState' = ThreadState
  BY DEF Slots, ThreadState, Ceiling, SPOut, Refused, Asleep, Woken, Holds
<1>7. /\ ref_count' \in [Slots -> Nat] /\ ref_count'[b] = ref_count[b] + 1
      /\ \A c \in Slots : c # b => ref_count'[c] = ref_count[c]
  BY <1>1, <1>2 DEF AddRef, PoolExact, PoolTypes
<1>8. PoolTypes' BY <1>3, <1>6, <1>7 DEF PoolExact, PoolTypes, AddRef
<1>9. FreeSlots'
  <2>1. \A c \in Slots : Holders(c)' = {} <=> Holders(c) = {} BY <1>4, <1>5
  <2> QED BY <1>6, <2>1 DEF PoolExact, FreeSlots, Listed, Injective, AddRef
<1>10. References'
  <2>1. \A v \in Users : thread'[v].at = "holds" => thread'[v].buf <= buffers'
    BY <1>1, <1>2, <1>3 DEF AddRef, PoolExact, References
  <2>2. Cardinality(Holders(b)') = Cardinality(Holders(b)) + 1
    BY <1>4, HoldersFinite, FS_AddElement
  <2>3. \A c \in Slots : ref_count'[c] = Cardinality(Holders(c)')
    BY <1>2, <1>5, <1>7, <2>2 DEF PoolExact, References
  <2> QED BY <1>6, <2>1, <2>3 DEF References
<1>11. BySize(sp_free)' BY DEF PoolExact, BySize, AddRef
<1>12. Room' BY <1>1, <1>2, <1>3 DEF AddRef, PoolExact, Room
<1>13. NoLostWakeup'
  <2>1. Awake' = Awake BY <1>2, <1>3 DEF Awake
  <2>2. Sleepers' = Sleepers BY <1>2, <1>3 DEF Sleepers
  <2>3. sp_free' = sp_free BY DEF AddRef
  <2>4. Sleepers' # {} => Len(sp_free') <= Cardinality(Awake')
    BY <2>1, <2>2, <2>3 DEF NoLostWakeup, Awake
  <2> QED BY <2>4 DEF NoLostWakeup, Awake
<1> QED BY <1>8, <1>9, <1>10, <1>11, <1>12, <1>13 DEF PoolExact

\* lower_bound on a sorted list: what is before the place is smaller.
LEMMA PlaceForSorted ==
    ASSUME PoolTypes, BySize(sp_free), NEW b \in Slots
    PROVE  /\ PlaceFor(b) \in 1 .. Len(sp_free) + 1
           /\ \A i \in 1 .. Len(sp_free) : i < PlaceFor(b) <=> capacity[sp_free[i]] < capacity[b]
<1> DEFINE D == {i \in 1 .. Len(sp_free) : capacity[sp_free[i]] < capacity[b]}
<1>1. /\ Len(sp_free) \in Nat /\ sp_free \in Seq(Slots) /\ capacity \in [Slots -> Nat]
      /\ \A i \in 1 .. Len(sp_free) : sp_free[i] \in Slots
  BY ElementOfSeq DEF PoolTypes
<1>2. D \in SUBSET (1 .. Len(sp_free)) OBVIOUS
<1>3. ASSUME NEW i \in D, NEW j \in 1 .. i PROVE j \in D
  <2>1. j \in 1 .. Len(sp_free) /\ i \in 1 .. Len(sp_free) /\ (j < i \/ j = i) BY <1>1
  <2>2. capacity[sp_free[j]] <= capacity[sp_free[i]] BY <1>1, <2>1 DEF BySize
  <2>3. /\ capacity[sp_free[j]] \in Nat /\ capacity[sp_free[i]] \in Nat /\ capacity[b] \in Nat
        /\ capacity[sp_free[i]] < capacity[b]
    BY <1>1, <2>1
  <2> QED BY <2>1, <2>2, <2>3
<1>4. PlaceFor(b) = 1 + Cardinality(D) BY DEF PlaceFor
<1>5. \A i \in 1 .. Len(sp_free) : i \in D <=> capacity[sp_free[i]] < capacity[b] OBVIOUS
<1> HIDE DEF D
<1>6. Cardinality(D) \in 0 .. Len(sp_free) /\ \A j \in 1 .. Len(sp_free) : j \in D <=> j <= Cardinality(D)
  BY <1>1, <1>2, <1>3, PrefixCount
<1> QED BY <1>1, <1>4, <1>5, <1>6

\* Who runs when a buffer is given back: the thread that did it, and at most
\* one sleeper that wakes.
LEMMA ReleaseThreads ==
    ASSUME PoolTypes, NEW t \in Users, SPRelease(t)
    PROVE  /\ thread' \in [Users -> ThreadState] /\ thread'[t] = SPOut
           /\ \A u \in Users : u # t => \/ thread'[u] = thread[u]
                                        \/ thread[u].at = "asleep" /\ thread'[u].at = "woken"
           /\ LastReference(thread[t].buf) /\ Sleepers # {} =>
                 \E s \in Users : /\ thread[s].at = "asleep" /\ thread'[s].at = "woken" /\ s # t
                                  /\ \A u \in Users : u # t /\ u # s => thread'[u] = thread[u]
           /\ ~(LastReference(thread[t].buf) /\ Sleepers # {}) =>
                 \A u \in Users : u # t => thread'[u] = thread[u]
<1>1. PICK after : after = [thread EXCEPT ![t] = SPOut] OBVIOUS
<1>2. /\ thread \in [Users -> ThreadState] /\ after \in [Users -> ThreadState] /\ after[t] = SPOut
      /\ \A u \in Users : u # t => after[u] = thread[u]
  BY <1>1, ThreadShapes DEF PoolTypes
<1>3. thread[t].at = "holds" BY DEF SPRelease
<1>4. CASE LastReference(thread[t].buf) /\ Sleepers # {}
  <2>1. NotifyOne(after) BY <1>1, <1>4 DEF SPRelease
  <2>2. PICK s \in Sleepers : thread' = [after EXCEPT ![s] = Woken(after[s].need)]
    BY <1>4, <2>1 DEF NotifyOne
  <2>3. s \in Users /\ thread[s].at = "asleep" /\ s # t BY <1>3 DEF Sleepers
  <2>4. after[s].need \in Sizes BY <1>2, <2>3, ThreadStates
  <2>5. thread' \in [Users -> ThreadState] /\ thread'[s].at = "woken"
    BY <1>2, <2>2, <2>3, <2>4, ThreadShapes
  <2>6. \A u \in Users : u # s => thread'[u] = after[u] BY <1>2, <2>2, <2>3
  <2> QED BY <1>2, <1>4, <2>3, <2>5, <2>6
<1>5. CASE ~(LastReference(thread[t].buf) /\ Sleepers # {})
  <2>1. thread' = after BY <1>1, <1>5 DEF SPRelease, NotifyOne
  <2> QED BY <1>2, <1>5, <2>1
<1> QED BY <1>4, <1>5

\* A view is given back; the last one returns its buffer to its place in the
\* list and passes the wakeup on.
LEMMA ReleaseKeeps ==
    ASSUME PoolExact, NoLostWakeup, NEW t \in Users, SPRelease(t)
    PROVE  PoolExact' /\ NoLostWakeup'
<1>1. PICK b : b = thread[t].buf OBVIOUS
<1>2. /\ thread \in [Users -> ThreadState] /\ thread[t].at = "holds" /\ b \in Slots
      /\ b <= buffers /\ buffers' = buffers /\ capacity' = capacity
  BY <1>1, ThreadStates DEF SPRelease, PoolExact, PoolTypes, References
<1>3. /\ thread' \in [Users -> ThreadState] /\ thread'[t] = SPOut /\ thread'[t].at = "out"
      /\ \A u \in Users : u # t => \/ thread'[u] = thread[u]
                                   \/ thread[u].at = "asleep" /\ thread'[u].at = "woken"
  BY ReleaseThreads, ThreadShapes DEF PoolExact
<1>4. Holders(b)' = Holders(b) \ {t} /\ t \in Holders(b)
  BY <1>1, <1>2, <1>3 DEF Holders
<1>5. \A c \in Slots : c # b => Holders(c)' = Holders(c)
  BY <1>1, <1>2, <1>3 DEF Holders
<1>6. Slots' = Slots /\ ThreadState' = ThreadState
  BY DEF Slots, ThreadState, Ceiling, SPOut, Refused, Asleep, Woken, Holds
<1>7. Cardinality(Holders(b)) = ref_count[b] /\ ref_count[b] \in Nat
  BY <1>2 DEF PoolExact, PoolTypes, References
<1>8. Cardinality(Holders(b)') = ref_count[b] - 1 /\ Cardinality(Holders(b)') \in Nat
      /\ IsFiniteSet(Holders(b)')
  <2>1. IsFiniteSet(Holders(b) \ {t}) /\ Cardinality(Holders(b) \ {t}) = Cardinality(Holders(b)) - 1
    BY <1>4, HoldersFinite, FS_RemoveElement
  <2>2. Cardinality(Holders(b) \ {t}) \in Nat BY <2>1, FS_CardinalityType
  <2> QED BY <1>4, <1>7, <2>1, <2>2
<1>9. Holders(b)' = {} <=> LastReference(b)
  <2>1. Holders(b)' = {} <=> Cardinality(Holders(b)') = 0 BY <1>8, FS_EmptySet
  <2> QED BY <1>7, <1>8, <2>1 DEF LastReference
<1>10. /\ ref_count' \in [Slots -> Nat]
       /\ \A c \in Slots : ref_count'[c] = Cardinality(Holders(c)')
  <2>1. ref_count' = [ref_count EXCEPT ![b] = @ - 1] BY <1>1 DEF SPRelease
  <2>2. ref_count \in [Slots -> Nat] BY DEF PoolExact, PoolTypes
  <2>3. ref_count[b] - 1 \in Nat BY <1>8
  <2>4. ref_count' \in [Slots -> Nat] BY <2>1, <2>2, <2>3
  <2>5. ref_count'[b] = ref_count[b] - 1 /\ \A c \in Slots : c # b => ref_count'[c] = ref_count[c]
    BY <1>2, <2>1, <2>2
  <2> QED BY <1>5, <1>8, <2>4, <2>5 DEF PoolExact, References
<1>11. References'
  <2>1. \A u \in Users : thread'[u].at = "holds" => thread'[u].buf <= buffers'
    BY <1>2, <1>3 DEF PoolExact, References
  <2> QED BY <1>6, <1>10, <2>1 DEF References
<1>12. Room' BY <1>2, <1>3 DEF PoolExact, Room
<1>13. /\ sp_free \in Seq(Slots) /\ Len(sp_free) \in Nat
       /\ \A i \in 1 .. Len(sp_free) : sp_free[i] \in Slots
  BY ElementOfSeq DEF PoolExact, PoolTypes
<1>14. CASE ~LastReference(b)
  <2>1. sp_free' = sp_free BY <1>1, <1>14 DEF SPRelease
  <2>2. PoolTypes' BY <1>2, <1>3, <1>6, <1>10, <2>1 DEF PoolExact, PoolTypes
  <2>3. FreeSlots'
    <3>1. \A c \in Slots : Holders(c)' = {} <=> Holders(c) = {} BY <1>4, <1>5, <1>9, <1>14
    <3> QED BY <1>2, <1>6, <2>1, <3>1 DEF PoolExact, FreeSlots, Listed, Injective
  <2>4. BySize(sp_free)' BY <1>2, <2>1 DEF PoolExact, BySize
  <2>5. \A u \in Users : u # t => thread'[u] = thread[u] BY <1>1, <1>14, ReleaseThreads DEF PoolExact
  <2>6. Sleepers' = Sleepers /\ Awake' = Awake BY <1>2, <1>3, <2>5 DEF Sleepers, Awake
  <2>7. Sleepers' # {} => Len(sp_free') <= Cardinality(Awake')
    BY <2>1, <2>6 DEF NoLostWakeup, Awake
  <2>8. NoLostWakeup' BY <2>7 DEF NoLostWakeup, Awake
  <2> QED BY <1>11, <1>12, <2>2, <2>3, <2>4, <2>8 DEF PoolExact
<1>15. CASE LastReference(b)
  <2>1. PICK p : p = PlaceFor(b) OBVIOUS
  <2>2. sp_free' = InsertAt(sp_free, p, b) BY <1>1, <1>15, <2>1 DEF SPRelease
  <2>3. /\ p \in 1 .. Len(sp_free) + 1
        /\ \A i \in 1 .. Len(sp_free) : i < p <=> capacity[sp_free[i]] < capacity[b]
    BY <1>2, <2>1, PlaceForSorted DEF PoolExact
  <2>4. /\ sp_free' \in Seq(Slots) /\ Len(sp_free') = Len(sp_free) + 1
        /\ \A j \in 1 .. Len(sp_free) + 1 :
              sp_free'[j] = IF j < p THEN sp_free[j] ELSE IF j = p THEN b ELSE sp_free[j - 1]
    <3>1. /\ InsertAt(sp_free, p, b) \in Seq(Slots)
          /\ Len(InsertAt(sp_free, p, b)) = Len(sp_free) + 1
          /\ \A j \in 1 .. Len(sp_free) + 1 :
                InsertAt(sp_free, p, b)[j] = IF j < p THEN sp_free[j] ELSE IF j = p THEN b ELSE sp_free[j - 1]
      <4>1. sp_free \in Seq(Slots) BY <1>13
      <4>2. b \in Slots BY <1>2
      <4>3. p \in 1 .. Len(sp_free) + 1 BY <2>3
      <4> QED BY <4>1, <4>2, <4>3, InsertAtSeq
    <3> QED BY <2>2, <3>1, Zenon
  <2>5. PoolTypes' BY <1>2, <1>3, <1>6, <1>10, <2>4 DEF PoolExact, PoolTypes
  <2>6. \A i \in 1 .. Len(sp_free) : sp_free[i] # b
    BY <1>2, <1>4 DEF PoolExact, FreeSlots, Listed
  <2>7. \A j \in 1 .. Len(sp_free) + 1 :
            \/ j = p /\ sp_free'[j] = b
            \/ \E k \in 1 .. Len(sp_free) : /\ sp_free'[j] = sp_free[k] /\ j # p
                                            /\ k = IF j < p THEN j ELSE j - 1
    BY <1>13, <2>3, <2>4
  <2>8. \A k \in 1 .. Len(sp_free) : \E j \in 1 .. Len(sp_free) + 1 : sp_free'[j] = sp_free[k]
    <3> TAKE k \in 1 .. Len(sp_free)
    <3>1. CASE k < p BY <1>13, <2>3, <2>4, <3>1
    <3>2. CASE k >= p
      <4>1. k + 1 \in 1 .. Len(sp_free) + 1 /\ ~(k + 1 < p) /\ k + 1 # p /\ (k + 1) - 1 = k
        BY <1>13, <2>3, <3>2
      <4>2. sp_free'[k + 1] = sp_free[k] BY <2>4, <4>1
      <4> QED BY <4>1, <4>2
    <3> QED BY <2>3, <3>1, <3>2
  <2>9. Injective(sp_free)'
    <3> SUFFICES ASSUME NEW i \in 1 .. Len(sp_free) + 1, NEW j \in 1 .. Len(sp_free) + 1,
                        sp_free'[i] = sp_free'[j]
                 PROVE  i = j
      BY <2>4 DEF Injective
    <3>1. CASE i = p \/ j = p BY <2>6, <2>7, <3>1
    <3>2. CASE i # p /\ j # p
      <4>1. PICK k \in 1 .. Len(sp_free) : sp_free'[i] = sp_free[k] /\ k = IF i < p THEN i ELSE i - 1
        BY <2>7, <3>2
      <4>2. PICK m \in 1 .. Len(sp_free) : sp_free'[j] = sp_free[m] /\ m = IF j < p THEN j ELSE j - 1
        BY <2>7, <3>2
      <4>3. k = m BY <4>1, <4>2 DEF PoolExact, FreeSlots, Injective
      <4> QED BY <2>3, <3>2, <4>1, <4>2, <4>3
    <3> QED BY <3>1, <3>2
  <2>10. ASSUME NEW c \in Slots
         PROVE  (\E j \in 1 .. Len(sp_free) + 1 : sp_free'[j] = c) <=> c <= buffers' /\ Holders(c)' = {}
    <3>1. CASE c = b BY <1>2, <1>9, <1>15, <2>3, <2>7, <3>1
    <3>2. CASE c # b
      <4>1. (\E j \in 1 .. Len(sp_free) + 1 : sp_free'[j] = c) <=> Listed(sp_free, c)
        BY <2>7, <2>8, <3>2 DEF Listed
      <4> QED BY <1>2, <1>5, <3>2, <4>1 DEF PoolExact, FreeSlots
    <3> QED BY <3>1, <3>2
  <2>11. FreeSlots' BY <1>6, <2>4, <2>9, <2>10 DEF FreeSlots, Listed
  <2>12. BySize(sp_free)'
    <3> SUFFICES ASSUME NEW i \in 1 .. Len(sp_free) + 1, NEW j \in 1 .. Len(sp_free) + 1, i < j
                 PROVE  capacity[sp_free'[i]] <= capacity[sp_free'[j]]
      BY <1>2, <2>4 DEF BySize
    <3>1. capacity[b] \in Nat /\ \A k \in 1 .. Len(sp_free) : capacity[sp_free[k]] \in Nat
      BY <1>2, <1>13 DEF PoolExact, PoolTypes
    <3>2. CASE i = p
      <4>1. PICK k \in 1 .. Len(sp_free) : sp_free'[j] = sp_free[k] /\ k = IF j < p THEN j ELSE j - 1
        BY <2>7, <3>2
      <4>2. ~(k < p) BY <2>3, <3>2, <4>1
      <4> QED BY <2>3, <2>4, <3>1, <3>2, <4>1, <4>2
    <3>3. CASE j = p
      <4>1. PICK k \in 1 .. Len(sp_free) : sp_free'[i] = sp_free[k] /\ k = IF i < p THEN i ELSE i - 1
        BY <2>7, <3>3
      <4>2. k < p BY <2>3, <3>3, <4>1
      <4> QED BY <2>3, <2>4, <3>1, <3>3, <4>1, <4>2
    <3>4. CASE i # p /\ j # p
      <4>1. PICK k \in 1 .. Len(sp_free) : sp_free'[i] = sp_free[k] /\ k = IF i < p THEN i ELSE i - 1
        BY <2>7, <3>4
      <4>2. PICK m \in 1 .. Len(sp_free) : sp_free'[j] = sp_free[m] /\ m = IF j < p THEN j ELSE j - 1
        BY <2>7, <3>4
      <4>3. k < m BY <2>3, <3>4, <4>1, <4>2
      <4> QED BY <4>1, <4>2, <4>3 DEF PoolExact, BySize
    <3> QED BY <3>2, <3>3, <3>4
  <2>13. NoLostWakeup'
    <3>1. CASE Sleepers = {}
      <4>1. \A u \in Users : u # t => thread'[u] = thread[u]
        BY <1>1, <3>1, ReleaseThreads DEF PoolExact
      <4>2. Sleepers' = {} BY <1>3, <3>1, <4>1 DEF Sleepers
      <4> QED BY <4>2 DEF NoLostWakeup
    <3>2. CASE Sleepers # {}
      <4>1. PICK s \in Users : /\ thread[s].at = "asleep" /\ thread'[s].at = "woken" /\ s # t
                               /\ \A u \in Users : u # t /\ u # s => thread'[u] = thread[u]
        BY <1>1, <1>15, <3>2, ReleaseThreads DEF PoolExact
      <4>2. Awake' = Awake \cup {s} /\ s \notin Awake BY <1>2, <1>3, <4>1 DEF Awake
      <4>3. Cardinality(Awake') = Cardinality(Awake) + 1 BY <4>2, AwakeFinite, FS_AddElement
      <4>4. Len(sp_free) <= Cardinality(Awake) BY <3>2 DEF NoLostWakeup, Awake
      <4>5. Len(sp_free') <= Cardinality(Awake') BY <1>13, <2>4, <4>3, <4>4, AwakeFinite
      <4> QED BY <4>5 DEF NoLostWakeup, Awake
    <3> QED BY <3>1, <3>2
  <2> QED BY <1>11, <1>12, <2>5, <2>11, <2>12, <2>13 DEF PoolExact
<1> QED BY <1>14, <1>15

LEMMA PoolStep == PoolExact /\ NoLostWakeup /\ [SPNext]_spVars => PoolExact' /\ NoLostWakeup'
<1> SUFFICES ASSUME PoolExact, NoLostWakeup, [SPNext]_spVars PROVE PoolExact' /\ NoLostWakeup'
  OBVIOUS
<1>1. ASSUME NEW t \in Users, NEW n \in Sizes, Acquire(t, n) PROVE PoolExact' /\ NoLostWakeup'
  <2>1. thread[t].at # "holds" BY <1>1, ThreadShapes DEF Acquire
  <2> QED BY <1>1, <2>1, AttemptKeeps DEF Acquire
<1>2. ASSUME NEW t \in Users, Retry(t) PROVE PoolExact' /\ NoLostWakeup'
  <2>1. thread[t].at # "holds" /\ thread[t].need \in Sizes
    BY <1>2, ThreadStates DEF Retry, PoolExact, PoolTypes
  <2> QED BY <1>2, <2>1, AttemptKeeps DEF Retry
<1>3. ASSUME NEW t \in Users, SPTimeout(t) PROVE PoolExact' /\ NoLostWakeup'
  BY <1>3, TimeoutKeeps
<1>4. ASSUME NEW t \in Users, SPRelease(t) PROVE PoolExact' /\ NoLostWakeup'
  BY <1>4, ReleaseKeeps
<1>5. ASSUME NEW t \in Users, NEW u \in Users, AddRef(t, u) PROVE PoolExact' /\ NoLostWakeup'
  BY <1>5, AddRefKeeps
<1>6. CASE UNCHANGED spVars
  <2>1. Slots' = Slots /\ ThreadState' = ThreadState
    BY DEF Slots, ThreadState, Ceiling, SPOut, Refused, Asleep, Woken, Holds
  <2>2. \A b \in Slots : Holders(b)' = Holders(b) BY <1>6 DEF spVars, Holders
  <2>3. PoolExact'
    BY <1>6, <2>1, <2>2 DEF spVars, PoolExact, PoolTypes, FreeSlots, Listed, Injective, References,
                            BySize, Room
  <2> QED BY <1>6, <2>3 DEF spVars, NoLostWakeup, Sleepers
<1> QED BY <1>1, <1>2, <1>3, <1>4, <1>5, <1>6 DEF SPNext

LEMMA PoolInit == SPInit => PoolExact /\ NoLostWakeup
<1> SUFFICES ASSUME SPInit PROVE PoolExact /\ NoLostWakeup
  OBVIOUS
<1>1. /\ BufferCount \in Nat /\ Ceiling \in Nat /\ 1 <= BufferCount /\ BufferCount <= Ceiling
      /\ 1 .. BufferCount \subseteq Slots
  BY CeilingNat DEF Slots
<1>2. \A t \in Users : thread[t] = SPOut /\ thread[t].at = "out" BY ThreadShapes DEF SPInit
<1>3. \A b \in Slots : Holders(b) = {} /\ Cardinality(Holders(b)) = 0
  BY <1>2, FS_EmptySet DEF Holders
<1>4. sp_free \in Seq(Slots) /\ Len(sp_free) = BufferCount /\ \A i \in 1 .. BufferCount : sp_free[i] = i
  BY <1>1 DEF SPInit
<1>5. PoolTypes BY <1>1, <1>4, ThreadShapes DEF SPInit, PoolTypes
<1>6. FreeSlots
  <2>1. \A b \in Slots : b <= BufferCount <=> b \in 1 .. BufferCount BY <1>1 DEF Slots
  <2>2. Injective(sp_free) BY <1>4 DEF Injective
  <2>3. ASSUME NEW b \in Slots PROVE Listed(sp_free, b) <=> b <= buffers /\ Holders(b) = {}
    BY <1>3, <1>4, <2>1 DEF SPInit, Listed
  <2> QED BY <2>2, <2>3 DEF FreeSlots
<1>7. References BY <1>2, <1>3 DEF References, SPInit
<1>8. BySize(sp_free) BY <1>1, <1>4 DEF BySize, SPInit
<1>9. Room BY <1>2 DEF Room
<1>10. NoLostWakeup BY <1>2 DEF NoLostWakeup, Sleepers
<1> QED BY <1>5, <1>6, <1>7, <1>8, <1>9, <1>10 DEF PoolExact

\* What the invariant says of the positions of a slot, in numbers.
LEMMA PoolMeansExact == PoolExact => FreeListExact
<1> SUFFICES ASSUME PoolExact PROVE FreeListExact
  OBVIOUS
<1>1. ASSUME NEW b \in 1 .. buffers
      PROVE  Cardinality({i \in 1 .. Len(sp_free) : sp_free[i] = b}) = IF Holders(b) = {} THEN 1 ELSE 0
  <2> DEFINE I == {i \in 1 .. Len(sp_free) : sp_free[i] = b}
  <2>1. b \in Slots /\ b <= buffers BY CeilingNat DEF PoolExact, PoolTypes, Slots
  <2>2. (\E i \in 1 .. Len(sp_free) : sp_free[i] = b) <=> Holders(b) = {}
    BY <2>1 DEF PoolExact, FreeSlots, Listed
  <2>3. CASE Holders(b) = {}
    <3>1. PICK i \in 1 .. Len(sp_free) : sp_free[i] = b BY <2>2, <2>3
    <3>2. I = {i} BY <3>1 DEF PoolExact, FreeSlots, Injective
    <3> QED BY <2>3, <3>2, FS_Singleton
  <2>4. CASE Holders(b) # {}
    <3>1. I = {} BY <2>2, <2>4
    <3> QED BY <2>4, <3>1, FS_EmptySet
  <2> QED BY <2>3, <2>4
<1>2. SPTypeOK
  <2>1. ASSUME NEW t \in Users
        PROVE  \/ thread[t] \in {SPOut, Refused}
               \/ \E n \in Sizes : thread[t] \in {Asleep(n), Woken(n)}
               \/ \E n \in Sizes, b \in Slots : thread[t] = Holds(b, n)
    <3>1. thread[t] \in ThreadState BY DEF PoolExact, PoolTypes
    <3>2. \A x \in Slots \X Sizes : x[1] \in Slots /\ x[2] \in Sizes OBVIOUS
    <3> QED BY <3>1, <3>2, Zenon DEF ThreadState
  <2> QED BY <2>1 DEF PoolExact, PoolTypes, SPTypeOK
<1> QED BY <1>1, <1>2 DEF PoolExact, FreeListExact, References, BySize, Room

(***************************************************************************)
(* For any number of threads, buffers and sizes, in both grow modes: the   *)
(* free list of staging_pool.cpp holds exactly the buffers nobody holds,   *)
(* once and by ascending capacity, reference counts count the holders and  *)
(* every holder's buffer has the room it asked for.                        *)
(***************************************************************************)
THEOREM FreeListStaysExact == SPSpec => []FreeListExact
<1>1. SPInit => PoolExact /\ NoLostWakeup BY PoolInit
<1>2. PoolExact /\ NoLostWakeup /\ [SPNext]_spVars => (PoolExact /\ NoLostWakeup)' BY PoolStep
<1>3. PoolExact => FreeListExact BY PoolMeansExact
<1> QED BY <1>1, <1>2, <1>3, PTL DEF SPSpec

(***************************************************************************)
(* notify_one in StagingPool::release is enough: while a thread sleeps in  *)
(* acquire, no buffer is free that no woken thread is about to look for.   *)
(***************************************************************************)
THEOREM WakeupsNotLost == SPSpec => []NoLostWakeup
<1>1. SPInit => PoolExact /\ NoLostWakeup BY PoolInit
<1>2. PoolExact /\ NoLostWakeup /\ [SPNext]_spVars => (PoolExact /\ NoLostWakeup)' BY PoolStep
<1> QED BY <1>1, <1>2, PTL DEF SPSpec

-----------------------------------------------------------------------------
(***************************************************************************)
(* Proofs about the tokens that cross the C interfaces: AMIO's handle      *)
(* table and the registries of HALO, CONF, AXIS and SPAN, for any number   *)
(* of slots, generations, threads, tokens and objects.                     *)
(*                                                                         *)
(* AMIO recycles slots and tells handles apart by generation, which wraps  *)
(* past zero to one. That two handles of a slot differ is not inductive by *)
(* itself: the invariant Series gives the distance of any two generations  *)
(* in the slot's history, and the distance of the slot's own generation    *)
(* from each, so that the next one issued continues the series. The        *)
(* registries count tokens up instead; there the invariant is that every   *)
(* token known is below the counter.                                       *)
(***************************************************************************)
-----------------------------------------------------------------------------
(***************************************************************************)
(* The handle table of AMIO.                                               *)
(***************************************************************************)
Handles == [generation : 1 .. GenModulus - 1, live : BOOLEAN, kind : Kinds,
            payload : Payloads \cup {NoPayload}]

TableTypes ==
    /\ slots \in Seq(Handles)
    /\ history \in Seq(Seq(Handles))
    /\ Len(history) = Len(slots)
    /\ free_list \in Seq(1 .. Len(slots))

\* The generation a slot has got to after d more of its handles.
Later(g, d, h) == h = g + d \/ h = g + d - (GenModulus - 1)

\* Handles of a slot that are closer together than there are generations have
\* different ones, and the slot's own generation continues the series.
Series(s) ==
    \A i \in 1 .. Len(history[s]) :
        /\ \A j \in i .. Len(history[s]) :
              j - i < GenModulus - 1 => Later(history[s][i].generation, j - i, history[s][j].generation)
        /\ LET n == Len(history[s])
               d == IF slots[s].live THEN n - i ELSE n + 1 - i
           IN  d < GenModulus - 1 => Later(history[s][i].generation, d, slots[s].generation)

\* A live slot is as its last handle left it.
Latest(s) == slots[s].live => Len(history[s]) > 0 /\ slots[s] = history[s][Len(history[s])]

FreeAreDead == \A i \in 1 .. Len(free_list) : ~slots[free_list[i]].live

FreeOnce == \A i, j \in 1 .. Len(free_list) : free_list[i] = free_list[j] => i = j

TableExact ==
    /\ TableTypes
    /\ FreeAreDead /\ FreeOnce
    /\ \A s \in 1 .. Len(slots) : Series(s) /\ Latest(s)

LEMMA Generations ==
    /\ GenModulus \in Nat /\ GenModulus > 2
    /\ \A g \in 1 .. GenModulus - 1 :
          NextGeneration(g) = IF g = GenModulus - 1 THEN 1 ELSE g + 1
<1>1. GenModulus \in Nat /\ GenModulus > 2 BY TableAssumption
<1>2. ASSUME NEW g \in 1 .. GenModulus - 1 PROVE (g + 1) % GenModulus = 0 <=> g = GenModulus - 1
  <2>1. g + 1 \in 1 .. GenModulus BY <1>1
  <2>2. \A x \in 0 .. GenModulus - 1 : x % GenModulus = x BY <1>1
  <2>3. GenModulus % GenModulus = 0 BY <1>1
  <2> QED BY <1>1, <2>1, <2>2, <2>3
<1> QED BY <1>1, <1>2 DEF NextGeneration

\* The series goes on past a release, round to 1 where it must.
LEMMA LaterNext ==
    ASSUME NEW g \in 1 .. GenModulus - 1, NEW h \in 1 .. GenModulus - 1, NEW d \in Nat,
           d + 1 < GenModulus - 1, Later(g, d, h)
    PROVE  NextGeneration(h) \in 1 .. GenModulus - 1 /\ Later(g, d + 1, NextGeneration(h))
BY Generations DEF Later

LEMMA NextInRange ==
    ASSUME NEW h \in 1 .. GenModulus - 1 PROVE NextGeneration(h) \in 1 .. GenModulus - 1
BY Generations

LEMMA HandleShapes ==
    /\ \A h \in Handles : /\ h.generation \in 1 .. GenModulus - 1 /\ h.live \in BOOLEAN
                          /\ h.kind \in Kinds /\ h.payload \in Payloads \cup {NoPayload}
    /\ \A g \in 1 .. GenModulus - 1, k \in Kinds, p \in Payloads :
          /\ Issued(g, k, p) \in Handles /\ Issued(g, k, p).generation = g /\ Issued(g, k, p).live
          /\ Issued(g, k, p).kind = k /\ Issued(g, k, p).payload = p
BY DEF Handles, Issued

LEMMA TableFacts ==
    ASSUME TableTypes
    PROVE  /\ Len(slots) \in Nat /\ Len(free_list) \in Nat /\ Len(history) = Len(slots)
           /\ \A s \in 1 .. Len(slots) : /\ slots[s] \in Handles /\ history[s] \in Seq(Handles)
                                         /\ Len(history[s]) \in Nat
                                         /\ \A i \in 1 .. Len(history[s]) : history[s][i] \in Handles
           /\ \A i \in 1 .. Len(free_list) : free_list[i] \in 1 .. Len(slots)
<1>1. Len(slots) \in Nat /\ Len(free_list) \in Nat /\ Len(history) = Len(slots) BY DEF TableTypes
<1>2. \A i \in 1 .. Len(free_list) : free_list[i] \in 1 .. Len(slots)
  BY ElementOfSeq DEF TableTypes
<1>3. ASSUME NEW s \in 1 .. Len(slots) PROVE slots[s] \in Handles /\ history[s] \in Seq(Handles)
  BY ElementOfSeq DEF TableTypes
<1>4. \A s \in 1 .. Len(slots) : Len(history[s]) \in Nat
                                 /\ \A i \in 1 .. Len(history[s]) : history[s][i] \in Handles
  BY <1>3, ElementOfSeq, LenProperties
<1> QED BY <1>1, <1>2, <1>3, <1>4

\* A slot nobody touched keeps its series.
LEMMA SlotKept ==
    ASSUME NEW s, Series(s), Latest(s), slots'[s] = slots[s], history'[s] = history[s]
    PROVE  Series(s)' /\ Latest(s)'
BY DEF Series, Latest, Later

\* A new slot starts the series with generation 1.
LEMMA InsertNewKeeps ==
    ASSUME TableExact, NEW k \in Kinds, NEW p \in Payloads, InsertNew(k, p)
    PROVE  TableExact'
<1>1. PICK h : h = Issued(1, k, p) OBVIOUS
<1>2. 1 \in 1 .. GenModulus - 1 BY Generations
<1>3. h \in Handles /\ h.generation = 1 /\ h.live BY <1>1, <1>2, HandleShapes
<1>4. /\ Len(slots) \in Nat /\ slots \in Seq(Handles) /\ history \in Seq(Seq(Handles)) /\ Len(history) = Len(slots)
  BY DEF TableExact, TableTypes
<1>5. slots' = Append(slots, h) /\ history' = Append(history, <<h>>) /\ free_list' = <<>>
  BY <1>1 DEF InsertNew
<1>6. /\ slots' \in Seq(Handles) /\ Len(slots') = Len(slots) + 1 /\ slots'[Len(slots) + 1] = h
      /\ \A s \in 1 .. Len(slots) : slots'[s] = slots[s]
  BY <1>3, <1>4, <1>5
<1>7. <<h>> \in Seq(Handles) /\ Len(<<h>>) = 1 /\ <<h>>[1] = h BY <1>3
<1>8. PICK hs : hs = <<h>> OBVIOUS
<1>9. /\ history' \in Seq(Seq(Handles)) /\ Len(history') = Len(slots) + 1 /\ history'[Len(slots) + 1] = hs
      /\ \A s \in 1 .. Len(slots) : history'[s] = history[s]
  BY <1>4, <1>5, <1>7, <1>8
<1>10. TableTypes'
  <2>1. free_list' \in Seq(1 .. Len(slots)') BY <1>5
  <2>2. Handles' = Handles BY DEF Handles, NoPayload
  <2> QED BY <1>6, <1>9, <2>1, <2>2 DEF TableTypes
<1>11. FreeAreDead' /\ FreeOnce' BY <1>5 DEF FreeAreDead, FreeOnce
<1>12. ASSUME NEW s \in 1 .. Len(slots) + 1 PROVE Series(s)' /\ Latest(s)'
  <2>1. CASE s \in 1 .. Len(slots)
    <3>1. Series(s) /\ Latest(s) BY <2>1 DEF TableExact
    <3> QED BY <1>6, <1>9, <2>1, <3>1, SlotKept
  <2>2. CASE s = Len(slots) + 1
    <3>1. slots'[s] = h /\ history'[s] = hs /\ Len(hs) = 1 /\ hs[1] = h BY <1>6, <1>7, <1>8, <1>9, <2>2
    <3>2. Later(h.generation, 0, h.generation) BY <1>3 DEF Later
    <3>3. Latest(s)' BY <3>1 DEF Latest
    <3>4. Series(s)' BY <1>3, <3>1, <3>2, Generations DEF Series, Later
    <3> QED BY <3>3, <3>4
  <2> QED BY <1>4, <2>1, <2>2
<1> QED BY <1>6, <1>10, <1>11, <1>12 DEF TableExact

\* A recycled slot goes on with the generation release left it.
LEMMA InsertRecycledKeeps ==
    ASSUME TableExact, NEW k \in Kinds, NEW p \in Payloads, InsertRecycled(k, p)
    PROVE  TableExact'
<1> DEFINE n == Len(free_list)
<1>1. free_list \in Seq(1 .. Len(slots)) /\ free_list # <<>> /\ n \in Nat /\ n >= 1
  BY DEF InsertRecycled, TableExact, TableTypes
<1>2. PICK s : s = free_list[n] OBVIOUS
<1>3. s \in 1 .. Len(slots) /\ ~slots[s].live BY <1>1, <1>2, TableFacts DEF TableExact, FreeAreDead
<1>4. PICK h : h = Issued(slots[s].generation, k, p) OBVIOUS
<1>5. /\ slots \in Seq(Handles) /\ history \in Seq(Seq(Handles)) /\ Len(history) = Len(slots) /\ Len(slots) \in Nat
      /\ slots[s] \in Handles /\ history[s] \in Seq(Handles) /\ Len(history[s]) \in Nat
  BY <1>3, TableFacts DEF TableExact, TableTypes
<1>6. h \in Handles /\ h.generation = slots[s].generation /\ h.live
  BY <1>4, <1>5, HandleShapes
<1>7. /\ slots' = [slots EXCEPT ![s] = h] /\ history' = [history EXCEPT ![s] = Append(@, h)]
      /\ free_list' = SubSeq(free_list, 1, n - 1)
  BY <1>2, <1>4 DEF InsertRecycled
<1>8. /\ slots' \in Seq(Handles) /\ Len(slots') = Len(slots) /\ slots'[s] = h
      /\ \A r \in 1 .. Len(slots) : r # s => slots'[r] = slots[r]
  BY <1>3, <1>5, <1>6, <1>7
<1>9. PICK hs : hs = Append(history[s], h) OBVIOUS
<1>10. /\ hs \in Seq(Handles) /\ Len(hs) = Len(history[s]) + 1 /\ hs[Len(hs)] = h
       /\ \A i \in 1 .. Len(history[s]) : hs[i] = history[s][i]
  BY <1>5, <1>6, <1>9
<1>11. /\ history' \in Seq(Seq(Handles)) /\ Len(history') = Len(slots) /\ history'[s] = hs
       /\ \A r \in 1 .. Len(slots) : r # s => history'[r] = history[r]
  BY <1>3, <1>5, <1>7, <1>9, <1>10
<1>12. /\ free_list' \in Seq(1 .. Len(slots)) /\ Len(free_list') = n - 1
       /\ \A i \in 1 .. n - 1 : free_list'[i] = free_list[i]
  <2>1. PICK S : S = 1 .. Len(slots) OBVIOUS
  <2>2. PICK f : f = free_list OBVIOUS
  <2>3. f \in Seq(S) /\ Len(f) = n /\ n \in 1 .. Len(f) BY <1>1, <2>1, <2>2
  <2>4. /\ SubSeq(f, 1, n - 1) \in Seq(S) /\ Len(SubSeq(f, 1, n - 1)) = n - 1
        /\ \A i \in 1 .. n - 1 : SubSeq(f, 1, n - 1)[i] = f[i]
    <3> HIDE DEF n
    <3> QED BY <2>3
  <2> QED BY <1>7, <2>1, <2>2, <2>4, Zenon
<1>13. TableTypes'
  <2>1. Handles' = Handles BY DEF Handles, NoPayload
  <2> QED BY <1>8, <1>11, <1>12, <2>1 DEF TableTypes
<1>14. FreeAreDead'
  <2>1. ASSUME NEW i \in 1 .. n - 1 PROVE ~slots'[free_list'[i]].live
    <3>1. i \in 1 .. n /\ n \in 1 .. n /\ i # n BY <1>1
    <3>2. free_list[i] \in 1 .. Len(slots) /\ ~slots[free_list[i]].live
      BY <3>1, TableFacts DEF TableExact, FreeAreDead
    <3>3. free_list[i] # s BY <1>2, <3>1 DEF TableExact, FreeOnce
    <3> QED BY <1>8, <1>12, <3>2, <3>3
  <2> QED BY <1>12, <2>1 DEF FreeAreDead
<1>15. FreeOnce'
  <2>1. \A i \in 1 .. n - 1 : i \in 1 .. n BY <1>1
  <2>2. \A i, j \in 1 .. n - 1 : free_list'[i] = free_list'[j] => i = j
    BY <1>12, <2>1 DEF FreeOnce, TableExact
  <2> QED BY <1>12, <2>2 DEF FreeOnce
<1>16. ASSUME NEW r \in 1 .. Len(slots), r # s PROVE Series(r)' /\ Latest(r)'
  <2>1. Series(r) /\ Latest(r) BY DEF TableExact
  <2> QED BY <1>8, <1>11, <1>16, <2>1, SlotKept
<1>17. Latest(s)' BY <1>5, <1>8, <1>10, <1>11 DEF Latest
<1>18. Series(s)'
  <2>1. ASSUME NEW i \in 1 .. Len(hs), NEW j \in i .. Len(hs), j - i < GenModulus - 1
        PROVE  Later(hs[i].generation, j - i, hs[j].generation)
    <3>1. hs[i].generation \in 1 .. GenModulus - 1 BY <1>10, ElementOfSeq, HandleShapes
    <3>2. CASE i = Len(hs)
      <4>1. i = j /\ j - i = 0 BY <1>5, <1>10, <3>2
      <4> QED BY <3>1, <4>1, Generations DEF Later
    <3>3. CASE i # Len(hs) /\ j = Len(hs)
      <4>1. i \in 1 .. Len(history[s]) /\ j - i = Len(history[s]) + 1 - i BY <1>5, <1>10, <3>3
      <4>2. Later(history[s][i].generation, Len(history[s]) + 1 - i, slots[s].generation)
        BY <1>3, <2>1, <4>1 DEF TableExact, Series
      <4> QED BY <1>6, <1>10, <3>3, <4>1, <4>2
    <3>4. CASE i # Len(hs) /\ j # Len(hs)
      <4>1. i \in 1 .. Len(history[s]) /\ j \in i .. Len(history[s]) /\ j \in 1 .. Len(history[s])
        BY <1>5, <1>10, <3>4
      <4>2. Later(history[s][i].generation, j - i, history[s][j].generation)
        BY <1>3, <2>1, <4>1 DEF TableExact, Series
      <4> QED BY <1>10, <4>1, <4>2
    <3> QED BY <3>2, <3>3, <3>4
  <2>2. ASSUME NEW i \in 1 .. Len(hs), Len(hs) - i < GenModulus - 1
        PROVE  Later(hs[i].generation, Len(hs) - i, h.generation)
    <3>1. Len(hs) \in i .. Len(hs) BY <1>5, <1>10
    <3> QED BY <1>10, <2>1, <2>2, <3>1
  <2> QED BY <1>6, <1>8, <1>11, <2>1, <2>2 DEF Series, Later
<1> QED BY <1>8, <1>13, <1>14, <1>15, <1>16, <1>17, <1>18 DEF TableExact

\* A released slot is dead, and its generation one further in the series.
LEMMA HTReleaseKeeps ==
    ASSUME TableExact, NEW tok, NEW k \in Kinds, HTRelease(tok, k)
    PROVE  TableExact'
<1>1. PICK s : s = tok[1] OBVIOUS
<1>2. s \in 1 .. Len(slots) /\ slots[s].live BY <1>1 DEF HTRelease, Valid
<1>3. /\ slots \in Seq(Handles) /\ history \in Seq(Seq(Handles)) /\ Len(history) = Len(slots) /\ Len(slots) \in Nat
      /\ slots[s] \in Handles /\ history[s] \in Seq(Handles) /\ Len(history[s]) \in Nat
      /\ \A i \in 1 .. Len(history[s]) : history[s][i] \in Handles
      /\ free_list \in Seq(1 .. Len(slots)) /\ Len(free_list) \in Nat
  BY <1>2, TableFacts DEF TableExact, TableTypes
<1>4. PICK d : d = [slots[s] EXCEPT !.live = FALSE, !.payload = NoPayload, !.generation = NextGeneration(@)]
  OBVIOUS
<1>5. slots[s].generation \in 1 .. GenModulus - 1 /\ NextGeneration(slots[s].generation) \in 1 .. GenModulus - 1
  BY <1>3, HandleShapes, NextInRange
<1>6. d \in Handles /\ ~d.live /\ d.generation = NextGeneration(slots[s].generation)
  BY <1>3, <1>4, <1>5 DEF Handles
<1>7. slots' = [slots EXCEPT ![s] = d]
  <2>1. slots' = [slots EXCEPT ![s].live = FALSE, ![s].payload = NoPayload, ![s].generation = NextGeneration(@)]
    BY <1>1 DEF HTRelease
  <2> QED BY <1>2, <1>3, <1>4, <2>1 DEF Handles
<1>8. free_list' = Append(free_list, s) /\ history' = history BY <1>1 DEF HTRelease
<1>9. /\ slots' \in Seq(Handles) /\ Len(slots') = Len(slots) /\ slots'[s] = d
      /\ \A r \in 1 .. Len(slots) : r # s => slots'[r] = slots[r]
  BY <1>2, <1>3, <1>6, <1>7
<1>10. PICK n : n = Len(free_list) OBVIOUS
<1>11. /\ free_list' \in Seq(1 .. Len(slots)) /\ Len(free_list') = n + 1 /\ free_list'[n + 1] = s
       /\ \A i \in 1 .. n : free_list'[i] = free_list[i]
  <2>1. PICK S : S = 1 .. Len(slots) OBVIOUS
  <2>2. PICK f : f = free_list OBVIOUS
  <2>3. f \in Seq(S) /\ s \in S /\ Len(f) = n BY <1>2, <1>3, <1>10, <2>1, <2>2
  <2>4. /\ Append(f, s) \in Seq(S) /\ Len(Append(f, s)) = n + 1 /\ Append(f, s)[n + 1] = s
        /\ \A i \in 1 .. n : Append(f, s)[i] = f[i]
    BY <2>3
  <2> QED BY <1>8, <2>1, <2>2, <2>4, Zenon
<1>12. TableTypes'
  <2>1. Handles' = Handles BY DEF Handles, NoPayload
  <2> QED BY <1>3, <1>8, <1>9, <1>11, <2>1 DEF TableTypes
<1>13. \A i \in 1 .. n : free_list[i] \in 1 .. Len(slots) /\ ~slots[free_list[i]].live /\ free_list[i] # s
  BY <1>2, <1>10, TableFacts DEF TableExact, FreeAreDead
<1>14. n \in Nat /\ \A i \in 1 .. n + 1 : i \in 1 .. n \/ i = n + 1 BY <1>3, <1>10
<1>15. FreeAreDead'
  <2>1. ASSUME NEW i \in 1 .. n + 1 PROVE ~slots'[free_list'[i]].live
    <3>1. CASE i = n + 1 BY <1>6, <1>9, <1>11, <3>1
    <3>2. CASE i \in 1 .. n BY <1>9, <1>11, <1>13, <3>2
    <3> QED BY <1>14, <3>1, <3>2
  <2> QED BY <1>11, <2>1 DEF FreeAreDead
<1>16. FreeOnce'
  <2>1. \A i, j \in 1 .. n : free_list[i] = free_list[j] => i = j BY <1>10 DEF TableExact, FreeOnce
  <2>2. \A i, j \in 1 .. n + 1 : free_list'[i] = free_list'[j] => i = j
    BY <1>11, <1>13, <1>14, <2>1
  <2> QED BY <1>11, <2>2 DEF FreeOnce
<1>17. ASSUME NEW r \in 1 .. Len(slots), r # s PROVE Series(r)' /\ Latest(r)'
  <2>1. Series(r) /\ Latest(r) BY DEF TableExact
  <2> QED BY <1>8, <1>9, <1>17, <2>1, SlotKept
<1>18. Latest(s)' BY <1>6, <1>9 DEF Latest
<1>19. Series(s)'
  <2>1. ASSUME NEW i \in 1 .. Len(history[s]), NEW j \in i .. Len(history[s]), j - i < GenModulus - 1
        PROVE  Later(history[s][i].generation, j - i, history[s][j].generation)
    BY <1>2, <2>1 DEF TableExact, Series
  <2>2. ASSUME NEW i \in 1 .. Len(history[s]), Len(history[s]) + 1 - i < GenModulus - 1
        PROVE  Later(history[s][i].generation, Len(history[s]) + 1 - i, d.generation)
    <3>1. PICK e : e = Len(history[s]) - i OBVIOUS
    <3>2. e \in Nat /\ e + 1 = Len(history[s]) + 1 - i /\ e + 1 < GenModulus - 1 /\ e < GenModulus - 1
      BY <1>3, <2>2, <3>1, Generations
    <3>3. Later(history[s][i].generation, e, slots[s].generation)
      BY <1>2, <3>1, <3>2 DEF TableExact, Series
    <3>4. history[s][i].generation \in 1 .. GenModulus - 1 BY <1>3, HandleShapes
    <3>5. Later(history[s][i].generation, e + 1, NextGeneration(slots[s].generation))
      BY <1>5, <3>2, <3>3, <3>4, LaterNext
    <3> QED BY <1>6, <3>2, <3>5
  <2> QED BY <1>6, <1>8, <1>9, <2>1, <2>2 DEF Series, Later
<1> QED BY <1>9, <1>12, <1>15, <1>16, <1>17, <1>18, <1>19 DEF TableExact

LEMMA TableStep == TableExact /\ [HTNext]_htVars => TableExact'
<1> SUFFICES ASSUME TableExact, [HTNext]_htVars PROVE TableExact'
  OBVIOUS
<1>1. ASSUME NEW k \in Kinds, NEW p \in Payloads, InsertNew(k, p) PROVE TableExact'
  BY <1>1, InsertNewKeeps
<1>2. ASSUME NEW k \in Kinds, NEW p \in Payloads, InsertRecycled(k, p) PROVE TableExact'
  BY <1>2, InsertRecycledKeeps
<1>3. ASSUME NEW tok \in Known, NEW k \in Kinds, HTRelease(tok, k) PROVE TableExact'
  BY <1>3, HTReleaseKeeps
<1>4. CASE UNCHANGED htVars
  BY <1>4 DEF htVars, TableExact, TableTypes, FreeAreDead, FreeOnce, Series, Latest, Later, Handles, NoPayload
<1> QED BY <1>1, <1>2, <1>3, <1>4 DEF HTNext

LEMMA TableMeansRefused == TableExact => StaleTokensRefused
<1>0. TableExact => HTTypeOK
  BY TableFacts, HandleShapes DEF TableExact, TableTypes, HTTypeOK
<1> SUFFICES ASSUME TableExact, NEW s \in 1 .. Len(slots), NEW i \in 1 .. Len(history[s]), NEW k \in Kinds,
                    Valid(pack(s, history[s][i].generation), k), Len(history[s]) - i < GenModulus - 1
             PROVE  /\ i = Len(history[s]) /\ slots[s].live
                    /\ k = history[s][i].kind /\ slots[s].payload = history[s][i].payload
  BY <1>0 DEF StaleTokensRefused
<1>1. slots[s].live /\ slots[s].generation = history[s][i].generation /\ slots[s].kind = k
  BY DEF Valid, pack
<1>2. Len(history[s]) \in Nat /\ history[s][i].generation \in 1 .. GenModulus - 1
  BY TableFacts, HandleShapes DEF TableExact
<1>3. Later(history[s][i].generation, Len(history[s]) - i, slots[s].generation)
  BY <1>1 DEF TableExact, Series
<1>4. i = Len(history[s])
  <2>1. PICK g, n : g = history[s][i].generation /\ n = Len(history[s]) OBVIOUS
  <2>2. /\ n \in Nat /\ i \in 1 .. n /\ n - i < GenModulus - 1 /\ g \in 1 .. GenModulus - 1
        /\ Later(g, n - i, g)
    BY <1>1, <1>2, <1>3, <2>1
  <2>3. GenModulus \in Nat BY Generations
  <2>4. i = n BY <2>2, <2>3 DEF Later
  <2> QED BY <2>1, <2>4
<1>5. slots[s] = history[s][i] BY <1>1, <1>4 DEF TableExact, Latest
<1> QED BY <1>1, <1>4, <1>5

(***************************************************************************)
(* HandleTable::lookup and release refuse the token of an earlier handle   *)
(* of a slot, for every number of slots and generations, as long as the    *)
(* slot has not been issued once for every generation since; a token they  *)
(* accept yields the payload and the kind it was issued for.               *)
(***************************************************************************)
THEOREM StaleTokensStayRefused == HTSpec => []StaleTokensRefused
<1>1. HTInit => TableExact
  <2> SUFFICES ASSUME HTInit PROVE TableExact OBVIOUS
  <2>1. slots = <<>> /\ history = <<>> /\ free_list = <<>> /\ Len(slots) = 0 /\ Len(history) = 0 /\ Len(free_list) = 0
    BY DEF HTInit
  <2>2. TableTypes BY <2>1 DEF TableTypes
  <2> QED BY <2>1, <2>2 DEF TableExact, FreeAreDead, FreeOnce
<1>2. TableExact /\ [HTNext]_htVars => TableExact' BY TableStep
<1>3. TableExact => StaleTokensRefused BY TableMeansRefused
<1> QED BY <1>1, <1>2, <1>3, PTL DEF HTSpec

-----------------------------------------------------------------------------
(***************************************************************************)
(* The registries of HALO, CONF, AXIS and SPAN.                            *)
(***************************************************************************)
Registry == UNION {[D -> Nat] : D \in SUBSET Nat}

ObjectKinds == {"comm", "plan", "handle", "config", "mesh", "matrix", "view"}

Objects == [lib : Libs, kind : ObjectKinds, uses : SUBSET Nat]

BindingTypes ==
    /\ handles \in [Libs -> Registry]
    /\ next_token \in [Libs -> Nat] /\ \A l \in Libs : next_token[l] >= 1
    /\ released \in Seq(Nat)
    /\ objects \in Seq(Objects)
    /\ deleted \subseteq 1 .. Len(objects)
    /\ using \in [BThreads -> SUBSET (1 .. Len(objects))]
    /\ issued \subseteq Libs \X Nat \X Nat

\* What a registry holds was made by its library, and a shared pointer of a
\* registry keeps its object alive.
RegisteredAlive ==
    \A l \in Libs : \A k \in DOMAIN handles[l] :
        /\ handles[l][k] \in 1 .. Len(objects)
        /\ objects[handles[l][k]].lib = l
        /\ l \in Shared => handles[l][k] \notin deleted

\* Only HALO's objects are pointed to from others.
UsesPlain ==
    \A o \in 1 .. Len(objects) : \A u \in objects[o].uses :
        u \in 1 .. Len(objects) /\ objects[u].lib = "halo"

\* A registry that never recycles has only tokens it has issued, each for the
\* object it was issued for.
TokensFresh ==
    /\ \A l \in Libs : l # "span" => \A k \in DOMAIN handles[l] : k < next_token[l]
    /\ \A i \in issued : i[1] # "span" =>
          /\ i[2] < next_token[i[1]]
          /\ i[2] \in DOMAIN handles[i[1]] => handles[i[1]][i[2]] = i[3]

BindingsExact == BindingTypes /\ RegisteredAlive /\ UsesPlain /\ TokensFresh /\ BorrowedAlive

LEMMA RegistryFacts ==
    /\ \A f \in Registry : /\ DOMAIN f \subseteq Nat /\ f = [x \in DOMAIN f |-> f[x]]
                           /\ \A x \in DOMAIN f : f[x] \in Nat
    /\ <<>> \in Registry /\ DOMAIN <<>> = {}
<1>1. ASSUME NEW f \in Registry
      PROVE  /\ DOMAIN f \subseteq Nat /\ f = [x \in DOMAIN f |-> f[x]] /\ \A x \in DOMAIN f : f[x] \in Nat
  <2>1. PICK D \in SUBSET Nat : f \in [D -> Nat] BY DEF Registry
  <2> QED BY <2>1
<1>2. <<>> \in [{} -> Nat] /\ DOMAIN <<>> = {} BY SMT
<1> QED BY <1>1, <1>2 DEF Registry

LEMMA Extended ==
    ASSUME NEW f \in Registry, NEW k \in Nat, NEW o \in Nat
    PROVE  /\ Bound(f, k, o) \in Registry /\ DOMAIN Bound(f, k, o) = DOMAIN f \cup {k}
           /\ Bound(f, k, o)[k] = o
           /\ \A x \in DOMAIN f : x # k => Bound(f, k, o)[x] = f[x]
<1> DEFINE g == [x \in DOMAIN f \cup {k} |-> IF x = k THEN o ELSE f[x]]
<1>1. Bound(f, k, o) = g BY DEF Bound
<1>2. g \in [DOMAIN f \cup {k} -> Nat] /\ DOMAIN f \cup {k} \in SUBSET Nat BY RegistryFacts
<1>3. g \in Registry BY <1>2 DEF Registry
<1> QED BY <1>1, <1>2, <1>3

LEMMA Shrunk ==
    ASSUME NEW f \in Registry, NEW k, NEW g, g = [x \in DOMAIN f \ {k} |-> f[x]]
    PROVE  /\ g \in Registry /\ DOMAIN g = DOMAIN f \ {k}
           /\ \A x \in DOMAIN g : x \in DOMAIN f /\ g[x] = f[x]
<1>1. g \in [DOMAIN f \ {k} -> Nat] /\ DOMAIN f \ {k} \in SUBSET Nat BY RegistryFacts
<1>2. g \in Registry BY <1>1 DEF Registry
<1> QED BY <1>1, <1>2

LEMMA ReferencedFacts ==
    ASSUME NEW hs, NEW us
    PROVE  /\ \A t \in BThreads : \A o \in us[t] : o \in Referenced(hs, us)
           /\ \A l \in Shared : \A k \in DOMAIN hs[l] : hs[l][k] \in Referenced(hs, us)
<1>1. ASSUME NEW t \in BThreads, NEW o \in us[t] PROVE o \in UNION {us[s] : s \in BThreads}
  OBVIOUS
<1>2. ASSUME NEW l \in Shared, NEW k \in DOMAIN hs[l]
      PROVE  hs[l][k] \in UNION {{hs[m][x] : x \in DOMAIN hs[m]} : m \in Shared}
  <2>1. hs[l][k] \in {hs[l][x] : x \in DOMAIN hs[l]} OBVIOUS
  <2> QED BY <2>1
<1>3. PICK A, B : /\ A = UNION {{hs[l][k] : k \in DOMAIN hs[l]} : l \in Shared}
                  /\ B = UNION {us[t] : t \in BThreads}
  OBVIOUS
<1>4. Referenced(hs, us) = A \cup B BY <1>3, Zenon DEF Referenced
<1>5. \A t \in BThreads : \A o \in us[t] : o \in B BY <1>1, <1>3, Zenon
<1>6. \A l \in Shared : \A k \in DOMAIN hs[l] : hs[l][k] \in A BY <1>2, <1>3, Zenon
<1> QED BY <1>4, <1>5, <1>6, Zenon

LEMMA LibFacts ==
    /\ {"halo", "conf", "axis", "span"} = Libs /\ Shared \subseteq Libs /\ "halo" \notin Shared /\ "span" \in Shared
    /\ BMaxToken \in Nat /\ BMaxToken >= 1 /\ INVALID = 0
BY BindingsConstants DEF Libs, Shared, INVALID

\* A registry only grows by fresh tokens where it does not recycle, and an
\* object is registered once it exists and before it can be deleted.
LEMMA MakeKeeps ==
    ASSUME BindingsExact, NEW t \in BThreads, NEW lib \in Libs, NEW kind \in ObjectKinds,
           NEW uses \in SUBSET Nat,
           \A u \in uses : u \in 1 .. Len(objects) /\ objects[u].lib = "halo",
           MakeObject(t, lib, kind, uses)
    PROVE  BindingsExact'
<1>1. PICK n : n = Len(objects) OBVIOUS
<1>2. PICK r : r = [lib |-> lib, kind |-> kind, uses |-> uses] OBVIOUS
<1>3. n \in Nat /\ objects \in Seq(Objects) BY <1>1 DEF BindingsExact, BindingTypes
<1>4. r \in Objects /\ r.lib = lib /\ r.uses = uses BY <1>2 DEF Objects
<1>5. /\ objects' = Append(objects, r) /\ register_handle(lib, n + 1) /\ using' = using
      /\ deleted' = IF NewToken(lib) = INVALID /\ lib = "span" THEN deleted \cup {n + 1} ELSE deleted
  BY <1>1, <1>2 DEF MakeObject
<1>6. /\ objects' \in Seq(Objects) /\ Len(objects') = n + 1 /\ objects'[n + 1] = r
      /\ \A o \in 1 .. n : objects'[o] = objects[o]
  BY <1>1, <1>3, <1>4, <1>5
<1>7. \A o \in 1 .. n + 1 : o \in 1 .. n \/ o = n + 1 BY <1>3
<1>8. \A o \in 1 .. n : o \in 1 .. n + 1 /\ o # n + 1 BY <1>3
<1>9. deleted' \subseteq 1 .. n + 1 /\ \A o \in 1 .. n : o \in deleted' => o \in deleted
  <2>1. deleted \subseteq 1 .. n BY <1>1 DEF BindingsExact, BindingTypes
  <2>2. n + 1 \in 1 .. n + 1 BY <1>3
  <2>3. deleted' = deleted \/ deleted' = deleted \cup {n + 1} BY <1>5
  <2> QED BY <1>8, <2>1, <2>2, <2>3, Zenon
<1>10. using' \in [BThreads -> SUBSET (1 .. n + 1)]
  BY <1>1, <1>3, <1>5 DEF BindingsExact, BindingTypes
<1>11. UsesPlain'
  <2>1. ASSUME NEW o \in 1 .. n + 1, NEW u \in objects'[o].uses
        PROVE  u \in 1 .. n + 1 /\ objects'[u].lib = "halo"
    <3>1. u \in 1 .. n /\ objects[u].lib = "halo"
      <4>1. CASE o \in 1 .. n
        <5>1. u \in objects[o].uses BY <1>6, <2>1, <4>1
        <5> QED BY <1>1, <4>1, <5>1 DEF BindingsExact, UsesPlain
      <4>2. CASE o = n + 1 BY <1>1, <1>4, <1>6, <2>1, <4>2
      <4> QED BY <1>7, <4>1, <4>2
    <3> QED BY <1>6, <1>8, <3>1
  <2> QED BY <1>6, <2>1 DEF UsesPlain
<1>12. BorrowedAlive'
  <2>1. ASSUME NEW s \in BThreads, NEW o \in using[s], objects'[o].lib \in Shared PROVE o \notin deleted'
    <3>1. o \in 1 .. n BY <1>1 DEF BindingsExact, BindingTypes
    <3>2. o \notin deleted BY <1>6, <2>1, <3>1 DEF BindingsExact, BorrowedAlive
    <3> QED BY <1>9, <3>1, <3>2
  <2> QED BY <1>5, <2>1 DEF BorrowedAlive, Shared
<1>13. /\ handles \in [Libs -> Registry] /\ next_token \in [Libs -> Nat] /\ released \in Seq(Nat)
       /\ issued \subseteq Libs \X Nat \X Nat /\ next_token[lib] >= 1
  BY DEF BindingsExact, BindingTypes
<1>14. ASSUME NEW l \in Libs, NEW k \in DOMAIN handles[l]
       PROVE  /\ handles[l][k] \in 1 .. n + 1 /\ objects'[handles[l][k]].lib = l
              /\ l \in Shared => handles[l][k] \notin deleted'
  <2>1. /\ handles[l][k] \in 1 .. n /\ objects[handles[l][k]].lib = l
        /\ l \in Shared => handles[l][k] \notin deleted
    BY <1>1 DEF BindingsExact, RegisteredAlive
  <2> QED BY <1>6, <1>8, <1>9, <2>1
<1>15. CASE NewToken(lib) = INVALID
  <2>1. UNCHANGED <<handles, next_token, released, issued>> BY <1>5, <1>15 DEF register_handle
  <2>2. BindingTypes'
    BY <1>6, <1>9, <1>10, <2>1 DEF BindingsExact, BindingTypes, Registry, Objects, ObjectKinds, Libs
  <2>3. RegisteredAlive' BY <1>6, <1>14, <2>1 DEF RegisteredAlive, Libs, Shared
  <2>4. TokensFresh' BY <2>1 DEF BindingsExact, TokensFresh, Libs
  <2> QED BY <1>11, <1>12, <2>2, <2>3, <2>4 DEF BindingsExact
<1>16. CASE NewToken(lib) # INVALID
  <2>1. PICK k : k = NewToken(lib) OBVIOUS
  <2>2. PICK rec : rec = (lib = "span" /\ released # <<>>) OBVIOUS
  <2>3. k \in Nat /\ (~rec => k = next_token[lib]) /\ (lib # "span" => ~rec)
    <3>1. released # <<>> => Head(released) \in Nat BY <1>13
    <3> QED BY <1>13, <1>16, <2>1, <2>2, <3>1, LibFacts DEF NewToken
  <2>4. /\ handles' = [handles EXCEPT ![lib] = Bound(@, k, n + 1)]
        /\ next_token' = IF rec THEN next_token ELSE [next_token EXCEPT ![lib] = @ + 1]
        /\ released' = IF rec THEN Tail(released) ELSE released
        /\ issued' = issued \cup {<<lib, k, n + 1>>}
    BY <1>5, <1>16, <2>1, <2>2 DEF register_handle
  <2>5. n + 1 \in Nat /\ n + 1 \in 1 .. n + 1 BY <1>3
  <2>6. PICK g : g = Bound(handles[lib], k, n + 1) OBVIOUS
  <2>7. /\ g \in Registry /\ DOMAIN g = DOMAIN handles[lib] \cup {k} /\ g[k] = n + 1
        /\ \A x \in DOMAIN handles[lib] : x # k => g[x] = handles[lib][x]
    <3>1. handles[lib] \in Registry BY <1>13
    <3>2. k \in Nat /\ n + 1 \in Nat BY <2>3, <2>5
    <3>3. PICK f, o : f = handles[lib] /\ o = n + 1 OBVIOUS
    <3>4. f \in Registry /\ o \in Nat BY <3>1, <3>2, <3>3
    <3>5. /\ Bound(f, k, o) \in Registry /\ DOMAIN Bound(f, k, o) = DOMAIN f \cup {k}
          /\ Bound(f, k, o)[k] = o
          /\ \A x \in DOMAIN f : x # k => Bound(f, k, o)[x] = f[x]
      BY <3>2, <3>4, Extended
    <3> QED BY <2>6, <3>3, <3>5, Zenon
  <2>8. /\ handles' \in [Libs -> Registry] /\ handles'[lib] = g
        /\ \A l \in Libs : l # lib => handles'[l] = handles[l]
    BY <1>13, <2>4, <2>6, <2>7
  <2>9. /\ next_token' \in [Libs -> Nat]
        /\ \A l \in Libs : next_token'[l] >= next_token[l]
        /\ ~rec => next_token'[lib] = next_token[lib] + 1
    BY <1>13, <2>4
  <2>10. BindingTypes'
    <3>1. released' \in Seq(Nat)
      <4>1. released # <<>> => Tail(released) \in Seq(Nat) BY <1>13
      <4> QED BY <1>13, <2>2, <2>4, <4>1, Zenon
    <3>2. issued' \subseteq Libs \X Nat \X Nat BY <1>13, <2>3, <2>4, <2>5
    <3>3. \A l \in Libs : next_token'[l] >= 1
      BY <1>13, <2>9 DEF BindingsExact, BindingTypes
    <3> QED BY <1>6, <1>9, <1>10, <2>8, <2>9, <3>1, <3>2, <3>3
            DEF BindingTypes, Registry, Objects, ObjectKinds, Libs
  <2>11. RegisteredAlive'
    <3>1. ASSUME NEW l \in Libs, NEW x \in DOMAIN handles'[l]
          PROVE  /\ handles'[l][x] \in 1 .. n + 1 /\ objects'[handles'[l][x]].lib = l
                 /\ l \in Shared => handles'[l][x] \notin deleted'
      <4>1. CASE l = lib /\ x = k
        <5>1. handles'[l][x] = n + 1 BY <2>7, <2>8, <4>1
        <5>2. deleted' = deleted /\ n + 1 \notin deleted
          BY <1>1, <1>3, <1>5, <1>16 DEF BindingsExact, BindingTypes
        <5> QED BY <1>4, <1>6, <2>5, <4>1, <5>1, <5>2
      <4>2. CASE ~(l = lib /\ x = k)
        <5>1. x \in DOMAIN handles[l] /\ handles'[l][x] = handles[l][x] BY <2>7, <2>8, <3>1, <4>2
        <5> QED BY <1>14, <5>1
      <4> QED BY <4>1, <4>2
    <3> QED BY <1>6, <3>1 DEF RegisteredAlive, Libs, Shared
  <2>12. TokensFresh'
    <3>1. ASSUME NEW l \in Libs, l # "span", NEW x \in DOMAIN handles'[l] PROVE x < next_token'[l]
      <4>1. CASE l = lib /\ x = k BY <1>13, <2>3, <2>9, <3>1, <4>1
      <4>2. CASE ~(l = lib /\ x = k)
        <5>1. x \in DOMAIN handles[l] BY <2>7, <2>8, <3>1, <4>2
        <5>2. x \in Nat BY <1>13, <5>1, RegistryFacts
        <5>3. x < next_token[l] BY <3>1, <5>1 DEF BindingsExact, TokensFresh
        <5> QED BY <1>13, <2>9, <5>2, <5>3
      <4> QED BY <4>1, <4>2
    <3>2. ASSUME NEW i \in issued', i[1] # "span"
          PROVE  /\ i[2] < next_token'[i[1]]
                 /\ i[2] \in DOMAIN handles'[i[1]] => handles'[i[1]][i[2]] = i[3]
      <4>1. CASE i = <<lib, k, n + 1>>
        <5>1. i[1] = lib /\ i[2] = k /\ i[3] = n + 1 BY <4>1
        <5>2. k < next_token'[lib] BY <1>13, <2>3, <2>9, <3>2, <5>1
        <5> QED BY <2>7, <2>8, <5>1, <5>2
      <4>2. CASE i \in issued
        <5>1. i[1] \in Libs /\ i[2] \in Nat BY <1>13, <4>2
        <5>2. /\ i[2] < next_token[i[1]]
              /\ i[2] \in DOMAIN handles[i[1]] => handles[i[1]][i[2]] = i[3]
          BY <3>2, <4>2 DEF BindingsExact, TokensFresh
        <5>3. i[2] < next_token'[i[1]] BY <1>13, <2>9, <5>1, <5>2
        <5>4. i[1] = lib => i[2] # k BY <1>13, <2>3, <3>2, <5>1, <5>2
        <5> QED BY <2>7, <2>8, <5>1, <5>2, <5>3, <5>4
      <4> QED BY <2>4, <3>2, <4>1, <4>2
    <3> QED BY <3>1, <3>2 DEF TokensFresh, Libs
  <2> QED BY <1>11, <1>12, <2>10, <2>11, <2>12 DEF BindingsExact
<1> QED BY <1>15, <1>16

\* What a token leads to exists, belongs to the library and is in its place.
LEMMA RegisteredFacts ==
    ASSUME BindingsExact, NEW lib \in Libs, NEW kind, NEW o \in Registered(lib, kind)
    PROVE  /\ o \in 1 .. Len(objects) /\ o \in Nat /\ objects[o].lib = lib
           /\ lib \in Shared => o \notin deleted
           /\ \A u \in objects[o].uses : u \in 1 .. Len(objects) /\ objects[u].lib = "halo"
<1>1. PICK k \in DOMAIN handles[lib] : o = handles[lib][k] BY DEF Registered
<1>2. /\ o \in 1 .. Len(objects) /\ objects[o].lib = lib /\ (lib \in Shared => o \notin deleted)
  BY <1>1 DEF BindingsExact, RegisteredAlive
<1> QED BY <1>2 DEF BindingsExact, UsesPlain

\* A call works on what its token leads to: alive when the pointer is shared.
LEMMA CallBeginKeeps ==
    ASSUME BindingsExact, NEW t \in BThreads, NEW lib \in Libs, NEW kind, CallBegin(t, lib, kind)
    PROVE  BindingsExact'
<1>1. PICK o \in Registered(lib, kind) : using' = [using EXCEPT ![t] = {o} \cup objects[o].uses]
  BY DEF CallBegin
<1>2. /\ o \in 1 .. Len(objects) /\ objects[o].lib = lib /\ (lib \in Shared => o \notin deleted)
      /\ \A u \in objects[o].uses : u \in 1 .. Len(objects) /\ objects[u].lib = "halo"
  BY RegisteredFacts
<1>3. UNCHANGED <<handles, next_token, released, objects, deleted, issued>> BY DEF CallBegin
<1>4. /\ using' \in [BThreads -> SUBSET (1 .. Len(objects))] /\ using'[t] = {o} \cup objects[o].uses
      /\ \A s \in BThreads : s # t => using'[s] = using[s]
  <2>1. PICK W : W = {o} \cup objects[o].uses OBVIOUS
  <2>2. W \in SUBSET (1 .. Len(objects)) BY <1>2, <2>1
  <2>3. using \in [BThreads -> SUBSET (1 .. Len(objects))] BY DEF BindingsExact, BindingTypes
  <2> QED BY <1>1, <2>1, <2>2, <2>3
<1>5. BindingTypes' BY <1>3, <1>4 DEF BindingsExact, BindingTypes, Registry, Objects, ObjectKinds, Libs
<1>6. BorrowedAlive'
  <2>1. ASSUME NEW s \in BThreads, NEW u \in using'[s], objects[u].lib \in Shared PROVE u \notin deleted
    <3>1. CASE s = t BY <1>2, <1>4, <2>1, <3>1, LibFacts
    <3>2. CASE s # t BY <1>4, <2>1, <3>2 DEF BindingsExact, BorrowedAlive
    <3> QED BY <3>1, <3>2
  <2> QED BY <1>3, <2>1 DEF BorrowedAlive, Shared
<1>7. RegisteredAlive' BY <1>3 DEF BindingsExact, RegisteredAlive, Libs, Shared
<1>8. UsesPlain' BY <1>3 DEF BindingsExact, UsesPlain
<1>9. TokensFresh' BY <1>3 DEF BindingsExact, TokensFresh, Libs
<1> QED BY <1>5, <1>6, <1>7, <1>8, <1>9 DEF BindingsExact

\* The end of a call deletes only what neither a registry nor a call refers to.
LEMMA CallEndKeeps ==
    ASSUME BindingsExact, NEW t \in BThreads, CallEnd(t)
    PROVE  BindingsExact'
<1>1. /\ using' = [using EXCEPT ![t] = {}]
      /\ deleted' = deleted \cup {o \in using[t] : objects[o].lib \in Shared /\ o \notin Referenced(handles, using')}
      /\ UNCHANGED <<handles, next_token, released, objects, issued>>
  BY DEF CallEnd
<1>2. /\ using \in [BThreads -> SUBSET (1 .. Len(objects))] /\ deleted \subseteq 1 .. Len(objects)
  BY DEF BindingsExact, BindingTypes
<1>3. /\ using' \in [BThreads -> SUBSET (1 .. Len(objects))] /\ using'[t] = {}
      /\ \A s \in BThreads : s # t => using'[s] = using[s]
  BY <1>1, <1>2
<1>4. deleted' \subseteq 1 .. Len(objects) BY <1>1, <1>2
<1>5. \A o \in deleted' : o \in deleted \/ o \notin Referenced(handles, using') BY <1>1
<1>6. \A s \in BThreads : \A o \in using'[s] : o \in Referenced(handles, using')
  BY ReferencedFacts
<1>7. \A l \in Shared : \A k \in DOMAIN handles[l] : handles[l][k] \in Referenced(handles, using')
  BY ReferencedFacts
<1>8. BindingTypes' BY <1>1, <1>3, <1>4 DEF BindingsExact, BindingTypes, Registry, Objects, ObjectKinds, Libs
<1>9. BorrowedAlive'
  <2>1. ASSUME NEW s \in BThreads, NEW o \in using'[s], objects[o].lib \in Shared PROVE o \notin deleted'
    <3>1. s # t BY <1>3
    <3>2. o \notin deleted BY <1>3, <2>1, <3>1 DEF BindingsExact, BorrowedAlive
    <3> QED BY <1>5, <1>6, <3>2
  <2> QED BY <1>1, <2>1 DEF BorrowedAlive, Shared
<1>10. RegisteredAlive'
  <2>1. ASSUME NEW l \in Libs, NEW k \in DOMAIN handles[l], l \in Shared PROVE handles[l][k] \notin deleted'
    <3>1. handles[l][k] \notin deleted BY <2>1 DEF BindingsExact, RegisteredAlive
    <3> QED BY <1>5, <1>7, <2>1, <3>1
  <2> QED BY <1>1, <2>1 DEF BindingsExact, RegisteredAlive, Libs, Shared
<1>11. UsesPlain' BY <1>1 DEF BindingsExact, UsesPlain
<1>12. TokensFresh' BY <1>1 DEF BindingsExact, TokensFresh, Libs
<1> QED BY <1>8, <1>9, <1>10, <1>11, <1>12 DEF BindingsExact

\* A token is forgotten; a shared object that a call still uses stays.
LEMMA DestroyKeeps ==
    ASSUME BindingsExact, NEW t \in BThreads, NEW lib \in Libs, NEW kind, Destroy(t, lib, kind)
    PROVE  BindingsExact'
<1>1. PICK k \in DOMAIN handles[lib] :
         /\ unregister(lib, k)
         /\ deleted' = IF lib \in Shared /\ handles[lib][k] \in Referenced(handles', using)
                         THEN deleted ELSE deleted \cup {handles[lib][k]}
  BY DEF Destroy
<1>2. UNCHANGED <<objects, using, issued, next_token>> BY <1>1 DEF Destroy, unregister
<1>3. PICK o : o = handles[lib][k] OBVIOUS
<1>4. o \in 1 .. Len(objects) /\ objects[o].lib = lib BY <1>3 DEF BindingsExact, RegisteredAlive
<1>5. /\ handles \in [Libs -> Registry] /\ released \in Seq(Nat) /\ deleted \subseteq 1 .. Len(objects)
      /\ handles[lib] \in Registry /\ k \in Nat
  BY RegistryFacts DEF BindingsExact, BindingTypes
<1>6. PICK g : g = [x \in DOMAIN handles[lib] \ {k} |-> handles[lib][x]] OBVIOUS
<1>7. g \in Registry /\ \A x \in DOMAIN g : x \in DOMAIN handles[lib] /\ g[x] = handles[lib][x]
  BY <1>5, <1>6, Shrunk, Zenon
<1>8. /\ handles' \in [Libs -> Registry] /\ handles'[lib] = g
      /\ \A l \in Libs : l # lib => handles'[l] = handles[l]
  <2>1. handles' = [handles EXCEPT ![lib] = g] BY <1>1, <1>5, <1>6 DEF unregister
  <2> QED BY <1>5, <1>7, <2>1
<1>9. \A l \in Libs : \A x \in DOMAIN handles'[l] : x \in DOMAIN handles[l] /\ handles'[l][x] = handles[l][x]
  BY <1>7, <1>8
<1>10. \A d \in deleted' : \/ d \in deleted
                           \/ d = o /\ (lib \in Shared => o \notin Referenced(handles', using))
  BY <1>1, <1>3
<1>11. deleted' \subseteq 1 .. Len(objects) BY <1>4, <1>5, <1>10
<1>12. released' \in Seq(Nat)
  <2>1. Append(released, k) \in Seq(Nat) BY <1>5
  <2> QED BY <1>1, <1>5, <2>1 DEF unregister
<1>13. BindingTypes'
  BY <1>2, <1>8, <1>11, <1>12 DEF BindingsExact, BindingTypes, Registry, Objects, ObjectKinds, Libs
<1>14. BorrowedAlive'
  <2>1. ASSUME NEW s \in BThreads, NEW u \in using[s], objects[u].lib \in Shared PROVE u \notin deleted'
    <3>1. u \notin deleted BY <2>1 DEF BindingsExact, BorrowedAlive
    <3>2. u \in Referenced(handles', using) BY ReferencedFacts
    <3> QED BY <1>4, <1>10, <2>1, <3>1, <3>2
  <2> QED BY <1>2, <2>1 DEF BorrowedAlive, Shared
<1>15. RegisteredAlive'
  <2>1. ASSUME NEW l \in Libs, NEW x \in DOMAIN handles'[l]
        PROVE  /\ handles'[l][x] \in 1 .. Len(objects) /\ objects[handles'[l][x]].lib = l
               /\ l \in Shared => handles'[l][x] \notin deleted'
    <3>1. /\ handles'[l][x] \in 1 .. Len(objects) /\ objects[handles'[l][x]].lib = l
          /\ l \in Shared => handles'[l][x] \notin deleted
      BY <1>9 DEF BindingsExact, RegisteredAlive
    <3>2. l \in Shared => handles'[l][x] \in Referenced(handles', using) BY ReferencedFacts
    <3> QED BY <1>4, <1>10, <3>1, <3>2
  <2> QED BY <1>2, <2>1 DEF RegisteredAlive, Libs, Shared
<1>16. UsesPlain' BY <1>2 DEF BindingsExact, UsesPlain
<1>17. TokensFresh'
  <2>1. \A l \in Libs : l # "span" => \A x \in DOMAIN handles'[l] : x < next_token'[l]
    BY <1>2, <1>9 DEF BindingsExact, TokensFresh
  <2>2. ASSUME NEW i \in issued, i[1] # "span"
        PROVE  /\ i[2] < next_token'[i[1]]
               /\ i[2] \in DOMAIN handles'[i[1]] => handles'[i[1]][i[2]] = i[3]
    <3>1. i[1] \in Libs BY DEF BindingsExact, BindingTypes
    <3> QED BY <1>2, <1>9, <2>2, <3>1 DEF BindingsExact, TokensFresh
  <2> QED BY <1>2, <2>1, <2>2 DEF TokensFresh, Libs
<1> QED BY <1>13, <1>14, <1>15, <1>16, <1>17 DEF BindingsExact

LEMMA BindingsStep == BindingsExact /\ [BNext]_bvars => BindingsExact'
<1> SUFFICES ASSUME BindingsExact, [BNext]_bvars PROVE BindingsExact'
  OBVIOUS
<1>1. "halo" \in Libs /\ "conf" \in Libs /\ "axis" \in Libs /\ "span" \in Libs
      /\ \A x \in {"comm", "plan", "handle", "config", "mesh", "matrix", "view"} : x \in ObjectKinds
  BY DEF Libs, ObjectKinds
<1>2. CASE UNCHANGED bvars
  <2>1. UNCHANGED <<handles, next_token, released, objects, deleted, using, issued>> BY <1>2 DEF bvars
  <2>2. BindingTypes' BY <2>1 DEF BindingsExact, BindingTypes, Registry, Objects, ObjectKinds, Libs
  <2>3. RegisteredAlive' BY <2>1 DEF BindingsExact, RegisteredAlive, Libs, Shared
  <2>4. UsesPlain' BY <2>1 DEF BindingsExact, UsesPlain
  <2>5. TokensFresh' BY <2>1 DEF BindingsExact, TokensFresh, Libs
  <2>6. BorrowedAlive' BY <2>1 DEF BindingsExact, BorrowedAlive, Shared
  <2> QED BY <2>2, <2>3, <2>4, <2>5, <2>6 DEF BindingsExact
<1>3. ASSUME NEW t \in BThreads, NEW lib \in Libs, NEW kind \in ObjectKinds, MakeObject(t, lib, kind, {})
      PROVE  BindingsExact'
  <2>1. {} \in SUBSET Nat /\ \A u \in {} : u \in 1 .. Len(objects) /\ objects[u].lib = "halo" OBVIOUS
  <2> QED BY <1>3, <2>1, MakeKeeps
<1>4. ASSUME NEW t \in BThreads, halo_plan_create_c(t) PROVE BindingsExact'
  <2>1. PICK comm \in Registered("halo", "comm") : MakeObject(t, "halo", "plan", {comm})
    BY <1>4 DEF halo_plan_create_c
  <2>2. comm \in 1 .. Len(objects) /\ comm \in Nat /\ objects[comm].lib = "halo" BY <1>1, RegisteredFacts
  <2>3. {comm} \in SUBSET Nat /\ \A u \in {comm} : u \in 1 .. Len(objects) /\ objects[u].lib = "halo" BY <2>2
  <2> QED BY <1>1, <2>1, <2>3, MakeKeeps
<1>5. ASSUME NEW t \in BThreads,
             \/ halo_init_c(t) \/ halo_exchange_async_c(t) \/ conf_load_c(t)
             \/ axis_mesh_from_named_c(t) \/ axis_generate_weights_c(t) \/ helm_span_register_legacy_ptr(t)
      PROVE  BindingsExact'
  <2>1. \E lib \in Libs, kind \in ObjectKinds : MakeObject(t, lib, kind, {})
    BY <1>1, <1>5 DEF halo_init_c, halo_exchange_async_c, conf_load_c, axis_mesh_from_named_c,
                      axis_generate_weights_c, helm_span_register_legacy_ptr
  <2> QED BY <1>3, <2>1
<1>6. ASSUME NEW t \in BThreads,
             \/ halo_exchange_blocking_c(t) \/ halo_wait_c(t) \/ conf_get_c(t) \/ axis_apply_c(t)
             \/ helm_span_get_view(t)
      PROVE  BindingsExact'
  <2>1. \E lib \in Libs, kind \in ObjectKinds : CallBegin(t, lib, kind)
    BY <1>1, <1>6 DEF halo_exchange_blocking_c, halo_wait_c, conf_get_c, axis_apply_c, helm_span_get_view
  <2> QED BY <2>1, CallBeginKeeps
<1>7. ASSUME NEW t \in BThreads,
             halo_destroy_c(t) \/ conf_close_c(t) \/ axis_destroy_c(t) \/ helm_span_unregister(t)
      PROVE  BindingsExact'
  <2>1. \E lib \in Libs, kind \in ObjectKinds : Destroy(t, lib, kind)
    BY <1>1, <1>7 DEF halo_destroy_c, conf_close_c, axis_destroy_c, helm_span_unregister
  <2> QED BY <2>1, DestroyKeeps
<1>8. ASSUME NEW t \in BThreads, CallEnd(t) PROVE BindingsExact'
  BY <1>8, CallEndKeeps
<1> QED BY <1>2, <1>4, <1>5, <1>6, <1>7, <1>8 DEF BNext

LEMMA BindingsStart == BInit => BindingsExact
<1> SUFFICES ASSUME BInit PROVE BindingsExact
  OBVIOUS
<1>1. handles \in [Libs -> Registry] /\ \A l \in Libs : DOMAIN handles[l] = {}
  BY RegistryFacts DEF BInit
<1>2. objects \in Seq(Objects) /\ Len(objects) = 0 /\ released \in Seq(Nat) BY DEF BInit
<1>3. /\ next_token \in [Libs -> Nat] /\ \A l \in Libs : next_token[l] >= 1
  BY DEF BInit
<1>4. deleted = {} /\ issued = {} /\ using = [t \in BThreads |-> {}] BY DEF BInit
<1> QED BY <1>1, <1>2, <1>3, <1>4 DEF BindingsExact, BindingTypes, RegisteredAlive, UsesPlain, TokensFresh, BorrowedAlive

(***************************************************************************)
(* A token that HALO, CONF or AXIS gave out means the object it was given  *)
(* for or nothing, whatever was created and destroyed since; and the       *)
(* shared pointers of AXIS and SPAN keep an object alive for the calls     *)
(* that work on it, whatever the other threads destroy meanwhile.          *)
(***************************************************************************)
THEOREM RegistriesStaySound == BSpec => []RegistriesSound
<1>1. BInit => BindingsExact BY BindingsStart
<1>2. BindingsExact /\ [BNext]_bvars => BindingsExact' BY BindingsStep
<1>3. BindingsExact => TokensKeepMeaning
  BY DEF BindingsExact, TokensFresh, TokensKeepMeaning, lookup
<1>4. BindingsExact => RegistriesSound BY <1>3 DEF BindingsExact, RegistriesSound
<1> QED BY <1>1, <1>2, <1>4, PTL DEF BSpec

-----------------------------------------------------------------------------
(***************************************************************************)
(* Proofs about RankPoolVec, for any set of ranks and of threads.          *)
(*                                                                         *)
(* The vectors are parallel and hold a rank once; with that the pool and   *)
(* its free ranks are images of sets of slots, and an operation on slots   *)
(* is an operation on sets. remove_available is a loop that moves slots    *)
(* while it runs: DropsFollow follows every slot through it, by induction  *)
(* on the slots dropped, and needs that they are dropped from the highest  *)
(* down, so that a slot still to be dropped has not moved. Settling says   *)
(* what the counters still owe while an operation updates them, and that   *)
(* nothing is owed when the mutex is free.                                 *)
(***************************************************************************)
\* Dropping slot i moves the last element there and shortens the vector by one.
LEMMA DropSlotSeq ==
    ASSUME NEW S, NEW v \in Seq(S), NEW i \in 1 .. Len(v)
    PROVE  /\ DropSlot(v, i) \in Seq(S)
           /\ Len(DropSlot(v, i)) = Len(v) - 1
           /\ \A j \in 1 .. Len(v) - 1 : DropSlot(v, i)[j] = IF j = i THEN v[Len(v)] ELSE v[j]
<1> DEFINE e == [v EXCEPT ![i] = v[Len(v)]]
<1>1. v[Len(v)] \in S BY LenProperties
<1>2. /\ e \in Seq(S) /\ Len(e) = Len(v)
      /\ \A j \in 1 .. Len(v) : e[j] = IF j = i THEN v[Len(v)] ELSE v[j]
  <2>1. Len(v) \in Nat /\ v \in [1 .. Len(v) -> S] /\ DOMAIN v = 1 .. Len(v) BY LenProperties
  <2>2. e = [j \in 1 .. Len(v) |-> IF j = i THEN v[Len(v)] ELSE v[j]] BY <2>1
  <2>3. \A j \in 1 .. Len(v) : (IF j = i THEN v[Len(v)] ELSE v[j]) \in S BY <1>1, <2>1
  <2> HIDE DEF e
  <2> QED BY <2>1, <2>2, <2>3
<1>3. DropSlot(v, i) = SubSeq(e, 1, Len(e) - 1) BY DEF DropSlot, Front, Last
<1> HIDE DEF e
<1>4. /\ SubSeq(e, 1, Len(e) - 1) \in Seq(S) /\ Len(SubSeq(e, 1, Len(e) - 1)) = Len(e) - 1
      /\ \A j \in 1 .. Len(e) - 1 : SubSeq(e, 1, Len(e) - 1)[j] = e[j]
  BY <1>2
<1> QED BY <1>2, <1>3, <1>4

\* A descending sequence of chosen, and what the first k drops leave: `from` says
\* where the chosen that are left came from.
Descending(doomed, n) ==
    /\ doomed \in Seq(1 .. n)
    /\ \A i, j \in 1 .. Len(doomed) : i < j => doomed[j] < doomed[i]

Dropped(doomed, k) == {doomed[i] : i \in 1 .. k}

Moved(from, doomed, k, n) ==
    /\ k <= n
    /\ from \in [1 .. n - k -> 1 .. n]
    /\ \A i, j \in 1 .. n - k : from[i] = from[j] => i = j
    /\ \A x \in 1 .. n : (\E j \in 1 .. n - k : from[j] = x) <=> x \notin Dropped(doomed, k)
    /\ k > 0 => /\ doomed[k] <= n - k + 1
                /\ \A j \in 1 .. n - k : j < doomed[k] => from[j] = j
    /\ k = 0 => \A j \in 1 .. n : from[j] = j

Drops(f, v, doomed) ==
    /\ f[0] = v
    /\ \A k \in 1 .. Len(doomed) :
          doomed[k] \in 1 .. Len(f[k - 1]) => f[k] = DropSlot(f[k - 1], doomed[k])

Follows(v, from, k, s, S) ==
    /\ s \in Seq(S)
    /\ Len(s) = Len(v) - k
    /\ \A j \in 1 .. Len(v) - k : s[j] = v[from[j]]

\* One more drop: a slot still to be dropped is where it was.
LEMMA MovedStep ==
    ASSUME NEW n \in Nat, NEW doomed, Descending(doomed, n),
           NEW k \in 0 .. Len(doomed) - 1, NEW from, Moved(from, doomed, k, n)
    PROVE  /\ doomed[k + 1] \in 1 .. n - k
           /\ Moved([j \in 1 .. n - (k + 1) |-> IF j = doomed[k + 1] THEN from[n - k] ELSE from[j]],
                    doomed, k + 1, n)
<1> DEFINE d == doomed[k + 1]
           to == [j \in 1 .. n - (k + 1) |-> IF j = d THEN from[n - k] ELSE from[j]]
<1>1. Len(doomed) \in Nat /\ k \in Nat /\ k + 1 \in 1 .. Len(doomed) /\ d \in 1 .. n
  BY DEF Descending
<1>2. k > 0 => d < doomed[k] /\ doomed[k] \in 1 .. n
  BY <1>1 DEF Descending
<1>3. d \in 1 .. n - k BY <1>1, <1>2 DEF Moved
<1>4. from[d] = d BY <1>1, <1>2, <1>3 DEF Moved
<1>5. to \in [1 .. n - (k + 1) -> 1 .. n] BY <1>1, <1>3 DEF Moved
<1>6. ASSUME NEW i \in 1 .. n - (k + 1), NEW j \in 1 .. n - (k + 1), to[i] = to[j] PROVE i = j
  <2>1. i \in 1 .. n - k /\ j \in 1 .. n - k /\ n - k \in 1 .. n - k BY <1>1
  <2>2. \A x, y \in 1 .. n - k : from[x] = from[y] => x = y BY DEF Moved
  <2> QED BY <1>6, <2>1, <2>2
<1>7. Dropped(doomed, k + 1) = Dropped(doomed, k) \cup {d}
  BY <1>1 DEF Dropped
<1>8. ASSUME NEW x \in 1 .. n
      PROVE  (\E j \in 1 .. n - (k + 1) : to[j] = x) <=> x \notin Dropped(doomed, k + 1)
  <2>1. ASSUME NEW j \in 1 .. n - (k + 1), to[j] = x PROVE x \notin Dropped(doomed, k + 1)
    <3>1. PICK i \in 1 .. n - k : from[i] = x /\ i # d
      <4>1. CASE j = d BY <1>1, <1>3, <2>1, <4>1
      <4>2. CASE j # d BY <1>1, <2>1, <4>2
      <4> QED BY <4>1, <4>2
    <3>2. x # d BY <1>3, <1>4, <3>1 DEF Moved
    <3>3. x \notin Dropped(doomed, k) BY <3>1 DEF Moved
    <3> QED BY <1>7, <3>2, <3>3
  <2>2. ASSUME x \notin Dropped(doomed, k + 1) PROVE \E j \in 1 .. n - (k + 1) : to[j] = x
    <3>1. x # d /\ x \notin Dropped(doomed, k) BY <1>7, <2>2
    <3>2. PICK i \in 1 .. n - k : from[i] = x BY <3>1 DEF Moved
    <3>3. i # d BY <1>4, <3>1, <3>2
    <3>4. CASE i = n - k
      <4>1. d \in 1 .. n - (k + 1) BY <1>1, <1>3, <3>3, <3>4
      <4>2. to[d] = x BY <3>2, <3>4, <4>1
      <4> QED BY <4>1, <4>2
    <3>5. CASE i # n - k
      <4>1. i \in 1 .. n - (k + 1) BY <1>1, <3>5
      <4>2. to[i] = x BY <3>2, <3>3, <4>1
      <4> QED BY <4>1, <4>2
    <3> QED BY <3>4, <3>5
  <2> QED BY <2>1, <2>2
<1>9. d <= n - (k + 1) + 1 /\ \A j \in 1 .. n - (k + 1) : j < d => to[j] = j
  <2>1. ASSUME NEW j \in 1 .. n - (k + 1), j < d PROVE to[j] = j
    <3>1. j \in 1 .. n - k /\ j \in 1 .. n BY <1>1
    <3>2. k > 0 => j < doomed[k] BY <1>1, <1>2, <2>1
    <3>3. from[j] = j BY <1>1, <3>1, <3>2 DEF Moved
    <3> QED BY <2>1, <3>3
  <2> QED BY <1>1, <1>3, <2>1
<1>10. k + 1 <= n /\ k + 1 > 0 /\ k + 1 # 0 BY <1>1, <1>3
<1> HIDE DEF to
<1>11. Moved(to, doomed, k + 1, n) BY <1>5, <1>6, <1>8, <1>9, <1>10 DEF Moved
<1> QED BY <1>3, <1>11 DEF to

\* The vector after one more drop.
LEMMA FollowsStep ==
    ASSUME NEW S, NEW v \in Seq(S), NEW doomed, Descending(doomed, Len(v)),
           NEW f, Drops(f, v, doomed),
           NEW k \in 0 .. Len(doomed) - 1, NEW from, Moved(from, doomed, k, Len(v)),
           Follows(v, from, k, f[k], S), doomed[k + 1] \in 1 .. Len(v) - k
    PROVE  Follows(v, [j \in 1 .. Len(v) - (k + 1) |->
                          IF j = doomed[k + 1] THEN from[Len(v) - k] ELSE from[j]],
                   k + 1, f[k + 1], S)
<1> DEFINE d == doomed[k + 1]
           n == Len(v)
           to == [j \in 1 .. n - (k + 1) |-> IF j = d THEN from[n - k] ELSE from[j]]
<1>1. Len(doomed) \in Nat /\ k \in Nat /\ k + 1 \in 1 .. Len(doomed) /\ n \in Nat
  BY LenProperties DEF Descending
<1>2. f[k] \in Seq(S) /\ Len(f[k]) = n - k /\ d \in 1 .. n - k BY DEF Follows
<1>4. f[k + 1] = DropSlot(f[k], d)
  <2>1. k + 1 - 1 = k BY <1>1
  <2>2. doomed[k + 1] \in 1 .. Len(f[k + 1 - 1]) => f[k + 1] = DropSlot(f[k + 1 - 1], doomed[k + 1])
    BY <1>1 DEF Drops
  <2> QED BY <1>2, <2>1, <2>2
<1>5. /\ f[k + 1] \in Seq(S) /\ Len(f[k + 1]) = Len(f[k]) - 1
      /\ \A j \in 1 .. Len(f[k]) - 1 : f[k + 1][j] = IF j = d THEN f[k][Len(f[k])] ELSE f[k][j]
  <2>1. d \in 1 .. Len(f[k]) BY <1>2
  <2>2. PICK w \in Seq(S) : w = f[k] BY <1>2
  <2>3. d \in 1 .. Len(w) /\ f[k + 1] = DropSlot(w, d) BY <1>4, <2>1, <2>2
  <2> HIDE DEF d
  <2>4. /\ f[k + 1] \in Seq(S) /\ Len(f[k + 1]) = Len(w) - 1
        /\ \A j \in 1 .. Len(w) - 1 : f[k + 1][j] = IF j = d THEN w[Len(w)] ELSE w[j]
    BY <2>3, DropSlotSeq
  <2> QED BY <2>2, <2>4, Zenon
<1>6. n - (k + 1) = n - k - 1 /\ n - k \in 1 .. n - k BY <1>1, <1>2
<1>7. ASSUME NEW j \in 1 .. n - (k + 1) PROVE f[k + 1][j] = v[to[j]]
  <2>1. j \in 1 .. n - k BY <1>1
  <2>2. f[k][j] = v[from[j]] /\ f[k][n - k] = v[from[n - k]] BY <1>6, <2>1 DEF Follows
  <2> QED BY <1>2, <1>5, <1>6, <2>2
<1>8. Len(f[k + 1]) = n - (k + 1) BY <1>2, <1>5, <1>6
<1> HIDE DEF to
<1>9. Follows(v, to, k + 1, f[k + 1], S) BY <1>5, <1>7, <1>8 DEF Follows
<1> QED BY <1>9 DEF to

\* Two vectors from which the same slots are dropped stay parallel.
LEMMA DropsFollow ==
    ASSUME NEW S, NEW v \in Seq(S), NEW R, NEW w \in Seq(R), Len(w) = Len(v),
           NEW doomed, Descending(doomed, Len(v)),
           NEW f, Drops(f, v, doomed), NEW g, Drops(g, w, doomed)
    PROVE  \A k \in 0 .. Len(doomed) :
              \E from : /\ Moved(from, doomed, k, Len(v))
                        /\ Follows(v, from, k, f[k], S)
                        /\ Follows(w, from, k, g[k], R)
<1> DEFINE P(k) == \E from : /\ Moved(from, doomed, k, Len(v))
                             /\ Follows(v, from, k, f[k], S)
                             /\ Follows(w, from, k, g[k], R)
           T == {k \in Nat : k <= Len(doomed) => P(k)}
<1>0. Len(v) \in Nat /\ Len(doomed) \in Nat BY LenProperties DEF Descending
<1>1. P(0)
  <2> DEFINE id == [j \in 1 .. Len(v) |-> j]
  <2>1. Len(v) - 0 = Len(v) BY <1>0
  <2>2. Dropped(doomed, 0) = {} BY DEF Dropped
  <2>3. Moved(id, doomed, 0, Len(v)) BY <1>0, <2>1, <2>2 DEF Moved
  <2>4. f[0] = v /\ g[0] = w BY DEF Drops
  <2>5. Follows(v, id, 0, f[0], S) /\ Follows(w, id, 0, g[0], R) BY <2>1, <2>4 DEF Follows
  <2> QED BY <2>3, <2>5, Zenon
<1>2. ASSUME NEW k \in Nat, k \in T PROVE k + 1 \in T
  <2>1. SUFFICES ASSUME k + 1 <= Len(doomed) PROVE P(k + 1) OBVIOUS
  <2>2. k \in 0 .. Len(doomed) - 1 /\ k <= Len(doomed) BY <1>0, <2>1
  <2>3. PICK from : /\ Moved(from, doomed, k, Len(v))
                    /\ Follows(v, from, k, f[k], S)
                    /\ Follows(w, from, k, g[k], R)
    BY <1>2, <2>2
  <2> DEFINE to == [j \in 1 .. Len(v) - (k + 1) |->
                       IF j = doomed[k + 1] THEN from[Len(v) - k] ELSE from[j]]
  <2>4. doomed[k + 1] \in 1 .. Len(v) - k /\ Moved(to, doomed, k + 1, Len(v))
    BY <1>0, <2>2, <2>3, MovedStep, Zenon
  <2>5. Follows(v, to, k + 1, f[k + 1], S)
    BY <1>0, <2>2, <2>3, <2>4, FollowsStep, Zenon
  <2>6. Follows(w, to, k + 1, g[k + 1], R)
    <3> DEFINE tw == [j \in 1 .. Len(w) - (k + 1) |->
                         IF j = doomed[k + 1] THEN from[Len(w) - k] ELSE from[j]]
    <3>1. tw = to BY Zenon
    <3>2. /\ Descending(doomed, Len(w)) /\ Moved(from, doomed, k, Len(w))
          /\ doomed[k + 1] \in 1 .. Len(w) - k
      BY <2>3, <2>4, Zenon
    <3>3. Follows(w, tw, k + 1, g[k + 1], R)
      BY <1>0, <2>2, <2>3, <3>2, FollowsStep, Zenon
    <3> QED BY <3>1, <3>3, Zenon
  <2> HIDE DEF to
  <2> QED BY <2>4, <2>5, <2>6, Zenon
<1> HIDE DEF P
<1>3. 0 \in T BY <1>1
<1> HIDE DEF T
<1>4. Nat \subseteq T BY <1>2, <1>3, SetInduction
<1>5. ASSUME NEW k \in 0 .. Len(doomed) PROVE P(k)
  BY <1>0, <1>4 DEF T
<1> QED BY <1>5 DEF P

\* The recursive function of Compacted exists.
LEMMA CompactedIsDrops ==
    ASSUME NEW S, NEW v \in Seq(S), NEW doomed, Descending(doomed, Len(v))
    PROVE  \E f : Drops(f, v, doomed) /\ Compacted(v, doomed) = f[Len(doomed)]
<1> DEFINE n == Len(doomed)
           g == [k \in Nat |-> [s \in Seq(S) |->
                    IF k \in 1 .. n /\ doomed[k] \in 1 .. Len(s)
                      THEN DropSlot(s, doomed[k]) ELSE s]]
<1>0. n \in Nat /\ Len(v) \in Nat BY LenProperties DEF Descending
<1>1. g \in [Nat -> [Seq(S) -> Seq(S)]]
  <2>1. ASSUME NEW k \in Nat, NEW s \in Seq(S)
        PROVE  (IF k \in 1 .. n /\ doomed[k] \in 1 .. Len(s)
                  THEN DropSlot(s, doomed[k]) ELSE s) \in Seq(S)
    <3>1. doomed[k] \in 1 .. Len(s) => DropSlot(s, doomed[k]) \in Seq(S) BY DropSlotSeq
    <3> QED BY <3>1, Zenon
  <2> QED BY <2>1, Zenon
<1>2. PICK f \in [0 .. n -> Seq(S)] : f[0] = v /\ \A k \in 1 .. n : f[k] = g[k][f[k - 1]]
  <2> HIDE DEF g, n
  <2>1. \E f \in [0 .. n -> Seq(S)] : Recurs(f, v, g, n)
    BY <1>0, <1>1, RecursionExists, Zenon
  <2> QED BY <2>1, Zenon DEF Recurs
<1>3. ASSUME NEW k \in 1 .. n, doomed[k] \in 1 .. Len(f[k - 1])
      PROVE  f[k] = DropSlot(f[k - 1], doomed[k])
  <2>1. k - 1 \in 0 .. n /\ k \in Nat BY <1>0
  <2>2. f[k - 1] \in Seq(S) BY <1>2, <2>1
  <2>3. f[k] = g[k][f[k - 1]] BY <1>2
  <2>4. g[k][f[k - 1]] = DropSlot(f[k - 1], doomed[k]) BY <1>3, <2>1, <2>2, Zenon
  <2> QED BY <2>3, <2>4, Zenon
<1>4. Drops(f, v, doomed) BY <1>2, <1>3, Zenon DEF Drops
<1>5. ASSUME NEW k \in 1 .. n PROVE f[k] = DropSlot(f[k - 1], doomed[k])
  <2>1. k - 1 \in 0 .. n /\ k - 1 + 1 = k /\ k - 1 \in 0 .. n - 1 BY <1>0
  <2>2. PICK from : /\ Moved(from, doomed, k - 1, Len(v)) /\ Follows(v, from, k - 1, f[k - 1], S)
    BY <1>4, <2>1, DropsFollow, Zenon
  <2>3. doomed[k] \in 1 .. Len(v) - (k - 1) BY <1>0, <2>1, <2>2, MovedStep
  <2>4. Len(f[k - 1]) = Len(v) - (k - 1) BY <2>2 DEF Follows
  <2> QED BY <1>3, <2>3, <2>4
<1> DEFINE Eq(h) == h = [k \in 0 .. n |-> IF k = 0 THEN v ELSE DropSlot(h[k - 1], doomed[k])]
<1>6. Eq(f)
  <2>1. ASSUME NEW k \in 0 .. n PROVE f[k] = IF k = 0 THEN v ELSE DropSlot(f[k - 1], doomed[k])
    <3>1. k # 0 => k \in 1 .. n BY <1>0
    <3> QED BY <1>2, <1>5, <3>1, Zenon
  <2> QED BY <1>2, <2>1, Zenon
<1>7. PICK h : h = (CHOOSE x : Eq(x)) OBVIOUS
<1>8. Eq(h) BY <1>6, <1>7, Zenon
<1>9. Compacted(v, doomed) = h[n] BY <1>7 DEF Compacted
<1>10. h[0] = v /\ \A k \in 1 .. n : h[k] = DropSlot(h[k - 1], doomed[k])
  <2>1. \A k \in 0 .. n : h[k] = IF k = 0 THEN v ELSE DropSlot(h[k - 1], doomed[k])
    BY <1>8, Zenon
  <2>2. 0 \in 0 .. n /\ \A k \in 1 .. n : k \in 0 .. n /\ k # 0 BY <1>0
  <2> QED BY <2>1, <2>2, Zenon
<1>11. Drops(h, v, doomed) BY <1>10, Zenon DEF Drops
<1> QED BY <1>9, <1>11

\* A finite set of naturals can be written down in ascending order.
Increasing(s, n) == \A i, j \in 1 .. n : i < j => s[i] < s[j]

LEMMA AscendingExists ==
    ASSUME NEW S \in SUBSET Nat, IsFiniteSet(S)
    PROVE  \E s \in [1 .. Cardinality(S) -> S] : Increasing(s, Cardinality(S))
<1> DEFINE Good(R) == \E s \in [1 .. Cardinality(R) -> R] : Increasing(s, Cardinality(R))
           T == {n \in Nat : \A R \in SUBSET Nat : IsFiniteSet(R) /\ Cardinality(R) = n => Good(R)}
<1>1. 0 \in T
  <2>1. ASSUME NEW R \in SUBSET Nat, IsFiniteSet(R), Cardinality(R) = 0 PROVE Good(R)
    <3> DEFINE s == [i \in 1 .. 0 |-> 0]
    <3>1. s \in [1 .. 0 -> R] /\ Increasing(s, 0) BY DEF Increasing
    <3> QED BY <2>1, <3>1, Zenon
  <2> HIDE DEF Good
  <2> QED BY <2>1
<1>2. ASSUME NEW n \in Nat, n \in T PROVE n + 1 \in T
  <2>1. ASSUME NEW R \in SUBSET Nat, IsFiniteSet(R), Cardinality(R) = n + 1 PROVE Good(R)
    <3>1. R # {} BY <2>1, FS_EmptySet
    <3>2. PICK m \in R : \A y \in R : m <= y BY <3>1, LeastNatural
    <3> DEFINE Q == R \ {m}
    <3>3. IsFiniteSet(Q) /\ Cardinality(Q) = n /\ Q \in SUBSET Nat
      <4>1. IsFiniteSet(Q) /\ Cardinality(Q) = IF m \in R THEN Cardinality(R) - 1 ELSE Cardinality(R)
        BY <2>1, FS_RemoveElement
      <4>2. Q \in SUBSET Nat OBVIOUS
      <4> HIDE DEF Q
      <4> QED BY <2>1, <4>1, <4>2
    <3>4. Good(Q) BY <1>2, <3>3, Zenon
    <3>5. PICK q \in [1 .. n -> Q] : Increasing(q, n) BY <3>3, <3>4, Zenon
    <3> DEFINE s == [i \in 1 .. n + 1 |-> IF i = 1 THEN m ELSE q[i - 1]]
    <3>6. ASSUME NEW i \in 1 .. n + 1, i # 1 PROVE q[i - 1] \in R /\ q[i - 1] > m
      <4>1. i - 1 \in 1 .. n BY <3>6
      <4>2. q[i - 1] \in Q BY <3>5, <4>1
      <4>3. q[i - 1] \in R /\ q[i - 1] # m BY <4>2, Zenon
      <4>4. m <= q[i - 1] /\ m \in Nat /\ q[i - 1] \in Nat BY <3>2, <4>3
      <4> QED BY <4>3, <4>4
    <3>7. s \in [1 .. n + 1 -> R] BY <3>6
    <3>8. Increasing(s, n + 1)
      <4> SUFFICES ASSUME NEW i \in 1 .. n + 1, NEW j \in 1 .. n + 1, i < j PROVE s[i] < s[j]
        BY DEF Increasing
      <4>1. j # 1 BY SMT
      <4>2. q[j - 1] > m /\ q[j - 1] \in Nat /\ m \in Nat BY <3>6, <4>1
      <4>3. CASE i = 1 BY <4>1, <4>2, <4>3
      <4>4. CASE i # 1
        <5>1. i - 1 \in 1 .. n /\ j - 1 \in 1 .. n /\ i - 1 < j - 1 BY <4>4
        <5>2. q[i - 1] < q[j - 1] BY <3>5, <5>1 DEF Increasing
        <5> QED BY <4>1, <4>4, <5>2
      <4> QED BY <4>3, <4>4
    <3> HIDE DEF s
    <3> QED BY <2>1, <3>7, <3>8, Zenon
  <2> HIDE DEF Good
  <2> QED BY <2>1
<1> HIDE DEF Good, T
<1>3. Nat \subseteq T BY <1>1, <1>2, SetInduction
<1>4. Cardinality(S) \in Nat BY FS_CardinalityType
<1>5. Good(S) BY <1>3, <1>4 DEF T
<1> QED BY <1>5 DEF Good

\* What Ascending is: every member of S, once.
LEMMA AscendingSeq ==
    ASSUME NEW S \in SUBSET Nat, IsFiniteSet(S)
    PROVE  /\ Cardinality(S) \in Nat
           /\ Ascending(S) \in Seq(S) /\ Len(Ascending(S)) = Cardinality(S)
           /\ \A i, j \in 1 .. Cardinality(S) : i < j => Ascending(S)[i] < Ascending(S)[j]
           /\ \A i \in 1 .. Cardinality(S) : Ascending(S)[i] \in S
           /\ \A x \in S : \E i \in 1 .. Cardinality(S) : Ascending(S)[i] = x
<1> DEFINE n == Cardinality(S)
<1>1. PICK a : a = Ascending(S) OBVIOUS
<1>2. n \in Nat BY FS_CardinalityType
<1>3. a \in [1 .. n -> S] /\ Increasing(a, n)
  <2>1. a = CHOOSE s \in [1 .. n -> S] : \A i, j \in 1 .. n : i < j => s[i] < s[j]
    BY <1>1 DEF Ascending
  <2>2. \E s \in [1 .. n -> S] : \A i, j \in 1 .. n : i < j => s[i] < s[j]
    BY AscendingExists, Zenon DEF Increasing
  <2>3. a \in [1 .. n -> S] /\ \A i, j \in 1 .. n : i < j => a[i] < a[j]
    BY <2>1, <2>2, Zenon
  <2> QED BY <2>3 DEF Increasing
<1> HIDE DEF n
<1>4. a \in Seq(S) /\ Len(a) = n BY <1>2, <1>3
<1>5. a \in Injection(1 .. n, S)
  <2>1. ASSUME NEW i \in 1 .. n, NEW j \in 1 .. n, a[i] = a[j] PROVE i = j
    <3>1. a[i] \in Nat /\ a[j] \in Nat BY <1>3
    <3>2. i < j => a[i] < a[j] BY <1>3 DEF Increasing
    <3>3. j < i => a[j] < a[i] BY <1>3 DEF Increasing
    <3> QED BY <1>2, <2>1, <3>1, <3>2, <3>3
  <2> QED BY <1>3, <2>1 DEF Injection, IsInjective
<1>6. a \in Surjection(1 .. n, S)
  <2>1. Cardinality(1 .. n) = n /\ IsFiniteSet(1 .. n)
    <3>1. 1 \in Int /\ n \in Int BY <1>2
    <3> QED BY <1>2, <3>1, FS_Interval
  <2>2. Cardinality(1 .. n) = Cardinality(S) BY <2>1 DEF n
  <2> QED BY <1>5, <2>2, FS_Injection
<1>7. \A x \in S : \E i \in 1 .. n : a[i] = x BY <1>6 DEF Surjection
<1> QED BY <1>1, <1>2, <1>3, <1>4, <1>7 DEF n, Increasing

-----------------------------------------------------------------------------
Parallel ==
    /\ rank_ids \in Seq(Ranks)
    /\ bitset \in Seq(BOOLEAN)
    /\ Len(bitset) = Len(rank_ids)
    /\ \A i, j \in 1 .. Len(rank_ids) : rank_ids[i] = rank_ids[j] => i = j

RanksAt(chosen) == {rank_ids[i] : i \in chosen}

\* Distinct chosen hold distinct ranks.
LEMMA RanksAtCount ==
    ASSUME Parallel, NEW chosen \in SUBSET (1 .. Len(rank_ids))
    PROVE  /\ IsFiniteSet(chosen) /\ Cardinality(chosen) \in Nat
           /\ IsFiniteSet(RanksAt(chosen)) /\ Cardinality(RanksAt(chosen)) = Cardinality(chosen)
<1>1. Len(rank_ids) \in Nat BY LenProperties DEF Parallel
<1>2. IsFiniteSet(1 .. Len(rank_ids))
  <2>1. 1 \in Int /\ Len(rank_ids) \in Int BY <1>1
  <2> QED BY <2>1, FS_Interval
<1>3. IsFiniteSet(chosen) BY <1>2, FS_Subset
<1> DEFINE b == [i \in chosen |-> rank_ids[i]]
<1>4. b \in Bijection(chosen, RanksAt(chosen))
  <2>1. b \in [chosen -> RanksAt(chosen)] BY DEF RanksAt
  <2>2. \A i, j \in chosen : b[i] = b[j] => i = j BY DEF Parallel
  <2>3. \A x \in RanksAt(chosen) : \E i \in chosen : b[i] = x BY DEF RanksAt
  <2> HIDE DEF b
  <2> QED BY <2>1, <2>2, <2>3 DEF Bijection, Injection, Surjection, IsInjective
<1>5. ExistsBijection(chosen, RanksAt(chosen)) BY <1>4 DEF ExistsBijection
<1> QED BY <1>3, <1>5, FS_Bijection, FS_CardinalityType

\* The pool and its free ranks, by the chosen they are in.
SetSlots == {i \in 1 .. Len(bitset) : bitset[i]}

LEMMA PoolSets ==
    ASSUME Parallel
    PROVE  /\ Len(rank_ids) \in Nat
           /\ InPool = RanksAt(1 .. Len(rank_ids)) /\ Free = RanksAt(SetSlots)
           /\ InPool \in SUBSET Ranks /\ Free \in SUBSET InPool
           /\ IsFiniteSet(InPool) /\ Cardinality(InPool) = Len(rank_ids)
           /\ IsFiniteSet(Free) /\ Cardinality(Free) \in Nat
           /\ Cardinality(Free) = Cardinality(SetSlots)
           /\ Cardinality(Free) <= Len(rank_ids) /\ Len(rank_ids) <= Cardinality(Ranks)
<1>1. Len(rank_ids) \in Nat /\ rank_ids \in [1 .. Len(rank_ids) -> Ranks] /\ DOMAIN rank_ids = 1 .. Len(rank_ids)
  BY LenProperties, Zenon DEF Parallel
<1>2. InPool = RanksAt(1 .. Len(rank_ids)) BY <1>1, Zenon DEF InPool, ToSet, RanksAt
<1>3. Free = RanksAt(SetSlots) BY Zenon DEF Free, SetSlots, RanksAt
<1>4. SetSlots \in SUBSET (1 .. Len(rank_ids)) BY Zenon DEF SetSlots, Parallel
<1>5. InPool \in SUBSET Ranks /\ Free \in SUBSET InPool
  BY <1>1, <1>2, <1>3, <1>4 DEF RanksAt
<1>6. IsFiniteSet(InPool) /\ Cardinality(InPool) = Cardinality(1 .. Len(rank_ids))
  BY <1>2, RanksAtCount
<1>7. Cardinality(1 .. Len(rank_ids)) = Len(rank_ids)
  <2>1. 1 \in Int /\ Len(rank_ids) \in Int BY <1>1
  <2> QED BY <1>1, <2>1, FS_Interval
<1>8. IsFiniteSet(Free) /\ Cardinality(Free) = Cardinality(SetSlots) /\ Cardinality(SetSlots) \in Nat
  BY <1>3, <1>4, RanksAtCount
<1>9. Cardinality(Free) <= Cardinality(InPool) BY <1>5, <1>6, FS_Subset
<1>10. Cardinality(InPool) <= Cardinality(Ranks) BY <1>5, VecAssumption, FS_Subset
<1> QED BY <1>1, <1>2, <1>3, <1>5, <1>6, <1>7, <1>8, <1>9, <1>10

\* Clearing the bits of some slots takes their ranks from the free ones.
LEMMA BitsCleared ==
    ASSUME Parallel, rank_ids' = rank_ids, NEW chosen \in SUBSET (1 .. Len(rank_ids)),
           bitset' = [i \in DOMAIN bitset |-> bitset[i] /\ i \notin chosen]
    PROVE  Parallel' /\ InPool' = InPool /\ Free' = Free \ RanksAt(chosen)
<1>1. Len(rank_ids) \in Nat /\ DOMAIN bitset = 1 .. Len(rank_ids) BY LenProperties DEF Parallel
<1>2. bitset' \in [1 .. Len(rank_ids) -> BOOLEAN] BY <1>1
<1>3. bitset' \in Seq(BOOLEAN) /\ Len(bitset') = Len(rank_ids) BY <1>1, <1>2
<1>4. Parallel' BY <1>3 DEF Parallel
<1>5. \A i \in 1 .. Len(rank_ids) : bitset'[i] <=> (bitset[i] /\ i \notin chosen) BY <1>1, Zenon
<1>6. SetSlots' = SetSlots \ chosen
  <2>1. SetSlots' = {i \in 1 .. Len(rank_ids) : bitset'[i]} BY <1>3 DEF SetSlots
  <2>2. SetSlots = {i \in 1 .. Len(rank_ids) : bitset[i]} BY DEF SetSlots, Parallel
  <2> QED BY <1>5, <2>1, <2>2, Zenon
<1>7. Free' = RanksAt(SetSlots \ chosen)
  <2>1. Free' = {rank_ids'[i] : i \in SetSlots'} BY Zenon DEF Free, SetSlots
  <2> QED BY <1>6, <2>1, Zenon DEF RanksAt
<1>8. SetSlots \in SUBSET (1 .. Len(rank_ids)) BY DEF SetSlots, Parallel
<1>9. RanksAt(SetSlots \ chosen) = RanksAt(SetSlots) \ RanksAt(chosen)
  BY <1>8 DEF RanksAt, Parallel
<1>10. Free = RanksAt(SetSlots) BY PoolSets
<1> QED BY <1>4, <1>7, <1>9, <1>10 DEF InPool

\* Setting them gives the ranks back.
LEMMA BitsRaised ==
    ASSUME Parallel, rank_ids' = rank_ids, NEW chosen \in SUBSET (1 .. Len(rank_ids)),
           bitset' = [i \in DOMAIN bitset |-> bitset[i] \/ i \in chosen]
    PROVE  Parallel' /\ InPool' = InPool /\ Free' = Free \cup RanksAt(chosen)
<1>1. Len(rank_ids) \in Nat /\ DOMAIN bitset = 1 .. Len(rank_ids) BY LenProperties DEF Parallel
<1>2. bitset' \in [1 .. Len(rank_ids) -> BOOLEAN] BY <1>1
<1>3. bitset' \in Seq(BOOLEAN) /\ Len(bitset') = Len(rank_ids) BY <1>1, <1>2
<1>4. Parallel' BY <1>3 DEF Parallel
<1>5. \A i \in 1 .. Len(rank_ids) : bitset'[i] <=> (bitset[i] \/ i \in chosen) BY <1>1, Zenon
<1>6. SetSlots' = SetSlots \cup chosen
  <2>1. SetSlots' = {i \in 1 .. Len(rank_ids) : bitset'[i]} BY <1>3 DEF SetSlots
  <2>2. SetSlots = {i \in 1 .. Len(rank_ids) : bitset[i]} BY DEF SetSlots, Parallel
  <2> QED BY <1>5, <2>1, <2>2, Zenon
<1>7. Free' = RanksAt(SetSlots \cup chosen)
  <2>1. Free' = {rank_ids'[i] : i \in SetSlots'} BY Zenon DEF Free, SetSlots
  <2> QED BY <1>6, <2>1, Zenon DEF RanksAt
<1>9. RanksAt(SetSlots \cup chosen) = RanksAt(SetSlots) \cup RanksAt(chosen)
  BY DEF RanksAt
<1>10. Free = RanksAt(SetSlots) BY PoolSets
<1> QED BY <1>4, <1>7, <1>9, <1>10 DEF InPool

\* first_fit finds no more than it was asked for.
LEMMA FirstFitBound ==
    ASSUME Parallel, NEW count \in Nat
    PROVE  /\ FirstFit(count) \in SUBSET SetSlots
           /\ IsFiniteSet(FirstFit(count)) /\ Cardinality(FirstFit(count)) \in Nat
           /\ Cardinality(FirstFit(count)) <= count
<1> DEFINE F == FirstFit(count)
           n == Len(rank_ids)
<1>1. n \in Nat /\ SetSlots \in SUBSET (1 .. n) BY PoolSets DEF SetSlots, Parallel
<1>2. F \in SUBSET SetSlots BY DEF FirstFit, SetSlots
<1>3. IsFiniteSet(F) /\ Cardinality(F) \in Nat BY <1>1, <1>2, RanksAtCount
<1>4. CASE F = {} BY <1>2, <1>3, <1>4, FS_EmptySet
<1>5. CASE F # {}
  <2> DEFINE D == {k \in Nat : n - k \in F}
  <2>1. D # {} /\ D \in SUBSET Nat
    <3>1. PICK i \in F : TRUE BY <1>5
    <3>0. i \in 1 .. n BY <1>1, <1>2
    <3>2. n - i \in Nat /\ n - (n - i) = i BY <1>1, <3>0
    <3>3. n - i \in D BY <3>1, <3>2
    <3> QED BY <3>3
  <2>2. PICK k \in D : \A y \in D : k <= y BY <2>1, LeastNatural
  <2>3. PICK m \in F : m = n - k BY <2>2
  <2>4. \A i \in F : i <= m
    <3> SUFFICES ASSUME NEW i \in F PROVE i <= m OBVIOUS
    <3>1. i \in 1 .. n BY <1>1, <1>2
    <3>2. n - i \in Nat /\ n - (n - i) = i BY <1>1, <3>1
    <3>3. n - i \in D BY <3>2
    <3>4. k <= n - i BY <2>2, <3>3
    <3> QED BY <1>1, <2>2, <2>3, <3>1, <3>4
  <2> DEFINE U == {j \in 1 .. m : bitset[j]}
  <2>5. m \in 1 .. n BY <1>1, <1>2
  <2>6. F \in SUBSET U
    <3>1. \A i \in F : i \in 1 .. m /\ bitset[i] BY <1>1, <1>2, <2>4, <2>5 DEF SetSlots
    <3> QED BY <3>1
  <2>7. Cardinality(U) <= count BY DEF FirstFit
  <2>8. IsFiniteSet(U) /\ Cardinality(U) \in Nat
    <3>1. U \in SUBSET (1 .. n) BY <1>1, <2>5
    <3> HIDE DEF U
    <3> QED BY <3>1, RanksAtCount
  <2>9. Cardinality(F) <= Cardinality(U) BY <2>6, <2>8, FS_Subset
  <2> HIDE DEF F, U
  <2>10. Cardinality(F) <= count BY <1>3, <2>7, <2>8, <2>9
  <2> QED BY <1>2, <1>3, <2>10 DEF F
<1> QED BY <1>4, <1>5

-----------------------------------------------------------------------------
\* What is left of add_ranks' updates: total_ and available_ in turn, ending
\* with available_.
Adds(us, tot, av, n, m) ==
    /\ us = [i \in 1 .. Len(us) |-> IF (Len(us) - i) % 2 = 1 THEN <<"total", 1>> ELSE <<"available", 1>>]
    /\ Len(us) \in Nat
    /\ tot = n - Len(us) \div 2
    /\ av = m - (Len(us) + 1) \div 2

Settling ==
    \/ Adds(updates, total, available, Len(rank_ids), Cardinality(Free))
    \/ \E k \in Int : /\ updates = << <<"available", k>> >>
                      /\ total = Len(rank_ids)
                      /\ available + k = Cardinality(Free)
    \/ \E k \in Int : /\ updates = << <<"total", k>>, <<"available", k>> >>
                      /\ total + k = Len(rank_ids)
                      /\ available + k = Cardinality(Free)

RankInv == RPTypeOK /\ Parallel /\ Settling /\ (owner = "none" => updates = <<>>)

\* With no update left the counters are exact.
LEMMA AddsNothing ==
    ASSUME NEW n \in Nat, NEW m \in Nat, NEW tot, NEW av
    PROVE  Adds(<<>>, tot, av, n, m) <=> tot = n /\ av = m
<1>1. Len(<<>>) = 0 BY EmptySeq
<1>2. 0 \div 2 = 0 /\ (0 + 1) \div 2 = 0 OBVIOUS
<1>3. <<>> = [i \in 1 .. 0 |-> IF (0 - i) % 2 = 1 THEN <<"total", 1>> ELSE <<"available", 1>>]
  OBVIOUS
<1> QED BY <1>1, <1>2, <1>3 DEF Adds

LEMMA Quiet ==
    ASSUME RankInv, updates = <<>>
    PROVE  total = Len(rank_ids) /\ available = Cardinality(Free)
<1>2. Adds(<<>>, total, available, Len(rank_ids), Cardinality(Free))
  <2>1. \A x : <<x>> # <<>> OBVIOUS
  <2>2. \A x, y : <<x, y>> # <<>> OBVIOUS
  <2> QED BY <2>1, <2>2 DEF RankInv, Settling
<1>4. Len(rank_ids) \in Nat /\ Cardinality(Free) \in Nat BY PoolSets DEF RankInv
<1> QED BY <1>2, <1>4, AddsNothing

\* An update of a counter pays what is owed and never wraps.
LEMMA CounterSteps ==
    ASSUME RankInv, UpdateCounter
    PROVE  Settling' /\ total' \in 0 .. CounterModulus - 1 /\ available' \in 0 .. CounterModulus - 1
<1> DEFINE n == Len(rank_ids)
           m == Cardinality(Free)
<1>1. /\ n \in Nat /\ m \in Nat /\ n < CounterModulus /\ m < CounterModulus
      /\ CounterModulus \in Nat /\ CounterModulus > 0
  <2>1. n \in Nat /\ m \in Nat /\ m <= n /\ n <= Cardinality(Ranks) BY PoolSets DEF RankInv
  <2>2. Cardinality(Ranks) \in Nat BY VecAssumption, FS_CardinalityType
  <2> HIDE DEF n, m
  <2> QED BY <2>1, <2>2, VecAssumption
<1>2. Len(rank_ids)' = n /\ Cardinality(Free)' = m BY DEF UpdateCounter, vecVars, Free
<1>3. total \in 0 .. CounterModulus - 1 /\ available \in 0 .. CounterModulus - 1
  BY DEF RankInv, RPTypeOK
<1>4. \A x \in 0 .. CounterModulus - 1 : x % CounterModulus = x BY <1>1
<1> HIDE DEF n, m
<1>5. CASE Adds(updates, total, available, n, m)
  <2>1. PICK l \in Nat : l = Len(updates) BY <1>5 DEF Adds
  <2>2. updates = [i \in 1 .. l |-> IF (l - i) % 2 = 1 THEN <<"total", 1>> ELSE <<"available", 1>>]
    BY <1>5, <2>1, Zenon DEF Adds
  <2>3. total = n - l \div 2 /\ available = m - (l + 1) \div 2
    BY <1>5, <2>1 DEF Adds
  <2>4. l > 0
    <3>1. updates # <<>> BY DEF UpdateCounter
    <3>2. l = 0 => updates = <<>> BY <2>2
    <3> QED BY <2>1, <3>1, <3>2
  <2> DEFINE E(j) == IF j % 2 = 1 THEN <<"total", 1>> ELSE <<"available", 1>>
             Us == {<<"total", 1>>, <<"available", 1>>}
  <2>5. updates \in Seq(Us) BY <2>2
  <2>6. Head(updates) = E(l - 1) BY <2>1, <2>2, <2>4
  <2>7. /\ Len(updates') = l - 1 /\ updates' \in Seq(Us)
        /\ \A i \in 1 .. l - 1 : updates'[i] = updates[i + 1]
    BY <2>1, <2>4, <2>5 DEF UpdateCounter
  <2>8. \A i \in 1 .. l - 1 : updates'[i] = E(l - 1 - i)
    <3> SUFFICES ASSUME NEW i \in 1 .. l - 1 PROVE updates'[i] = E(l - 1 - i) OBVIOUS
    <3>1. i + 1 \in 1 .. l /\ l - (i + 1) = l - 1 - i BY <2>4
    <3>2. updates[i + 1] = E(l - (i + 1)) BY <2>2, <3>1
    <3> QED BY <2>7, <3>1, <3>2
  <2>9. updates' = [i \in 1 .. Len(updates') |-> IF (Len(updates') - i) % 2 = 1 THEN <<"total", 1>> ELSE <<"available", 1>>]
    <3>1. DOMAIN updates' = 1 .. l - 1 /\ updates' = [i \in DOMAIN updates' |-> updates'[i]]
      BY <2>4, <2>7
    <3> QED BY <2>7, <2>8, <3>1
  <2>10. CASE (l - 1) % 2 = 1
    <3>1. Head(updates) = <<"total", 1>> BY <2>6, <2>10
    <3>2. l \div 2 = (l - 1) \div 2 + 1 /\ (l + 1) \div 2 = (l - 1 + 1) \div 2 /\ (l - 1) \div 2 \in Nat BY <2>4, <2>10
    <3>3. total' = (total + 1) % CounterModulus /\ available' = available % CounterModulus
      BY <3>1 DEF UpdateCounter
    <3>4. total + 1 = n - (l - 1) \div 2 /\ total + 1 \in 0 .. CounterModulus - 1
      BY <1>1, <1>3, <2>3, <3>2
    <3>5. total' = n - (l - 1) \div 2 /\ available' = m - (l - 1 + 1) \div 2
      BY <1>3, <1>4, <2>3, <3>2, <3>3, <3>4
    <3>6. Adds(updates, total, available, Len(rank_ids), Cardinality(Free))'
      BY <1>2, <2>4, <2>7, <2>9, <3>5 DEF Adds
    <3> QED BY <1>3, <1>4, <3>3, <3>4, <3>6 DEF Settling
  <2>11. CASE (l - 1) % 2 # 1
    <3>1. Head(updates) = <<"available", 1>> BY <2>6, <2>11
    <3>2. l \div 2 = (l - 1) \div 2 /\ (l + 1) \div 2 = (l - 1 + 1) \div 2 + 1 /\ (l - 1 + 1) \div 2 \in Nat BY <2>4, <2>11
    <3>3. total' = total % CounterModulus /\ available' = (available + 1) % CounterModulus
      BY <3>1 DEF UpdateCounter
    <3>4. available + 1 = m - (l - 1 + 1) \div 2 /\ available + 1 \in 0 .. CounterModulus - 1
      BY <1>1, <1>3, <2>3, <3>2
    <3>5. total' = n - (l - 1) \div 2 /\ available' = m - (l - 1 + 1) \div 2
      BY <1>3, <1>4, <2>3, <3>2, <3>3, <3>4
    <3>6. Adds(updates, total, available, Len(rank_ids), Cardinality(Free))'
      BY <1>2, <2>4, <2>7, <2>9, <3>5 DEF Adds
    <3> QED BY <1>3, <1>4, <3>3, <3>4, <3>6 DEF Settling
  <2> QED BY <2>10, <2>11
<1>6. ASSUME NEW k \in Int, updates = << <<"available", k>> >>, total = n, available + k = m
      PROVE  Settling' /\ total' \in 0 .. CounterModulus - 1 /\ available' \in 0 .. CounterModulus - 1
  <2>1. Head(updates) = <<"available", k>> /\ Tail(updates) = <<>> BY <1>6
  <2>2. updates' = <<>> /\ total' = total % CounterModulus /\ available' = (available + k) % CounterModulus
    BY <2>1 DEF UpdateCounter
  <2>3. total' = n /\ available' = m /\ m \in 0 .. CounterModulus - 1 BY <1>1, <1>3, <1>4, <1>6, <2>2
  <2>4. Adds(<<>>, total', available', n, m) BY <1>1, <2>3, AddsNothing
  <2>5. Adds(updates, total, available, Len(rank_ids), Cardinality(Free))' BY <1>2, <2>2, <2>4, Zenon
  <2> QED BY <1>3, <1>6, <2>3, <2>5 DEF Settling
<1>7. ASSUME NEW k \in Int, updates = << <<"total", k>>, <<"available", k>> >>, total + k = n, available + k = m
      PROVE  Settling' /\ total' \in 0 .. CounterModulus - 1 /\ available' \in 0 .. CounterModulus - 1
  <2>1. Head(updates) = <<"total", k>> /\ Tail(updates) = << <<"available", k>> >> BY <1>7
  <2>2. updates' = << <<"available", k>> >> /\ total' = (total + k) % CounterModulus /\ available' = available % CounterModulus
    BY <2>1 DEF UpdateCounter
  <2>3. total' = n /\ available' = available /\ n \in 0 .. CounterModulus - 1 BY <1>1, <1>3, <1>4, <1>7, <2>2
  <2>4. total' = Len(rank_ids)' /\ available' + k = Cardinality(Free)' BY <1>2, <1>7, <2>3
  <2> QED BY <1>3, <2>2, <2>3, <2>4 DEF Settling
<1> QED BY <1>5, <1>6, <1>7 DEF RankInv, Settling, n, m

LEMMA VecFacts ==
    ASSUME RankInv
    PROVE  /\ Parallel
           /\ Len(rank_ids) \in Nat /\ Cardinality(Free) \in Nat /\ Cardinality(Ranks) \in Nat
           /\ total \in 0 .. CounterModulus - 1 /\ available \in 0 .. CounterModulus - 1
           /\ held \in [PoolThreads -> SUBSET Ranks]
           /\ InPool \in SUBSET Ranks /\ Free \in SUBSET InPool /\ IsFiniteSet(InPool) /\ IsFiniteSet(Free)
           /\ Cardinality(InPool) = Len(rank_ids)
BY PoolSets, VecAssumption, FS_CardinalityType DEF RankInv, RPTypeOK

\* The abstract pool's Cardinality is this one.
LEMMA SameCardinality == \A S : Abstract!Cardinality(S) = Cardinality(S)
BY Zenon DEF Abstract!Cardinality, Cardinality

\* try_allocate: first fit takes exactly `count` free ranks, or nothing.
LEMMA AllocateKeeps ==
    ASSUME RankInv, NEW t \in PoolThreads, NEW k \in 1 .. Cardinality(Ranks), TryAllocate(t, k)
    PROVE  RankInv' /\ [Abstract!PoolNext]_(Abstract!poolVars)
<1> USE VecFacts
<1> DEFINE chosen == FirstFit(k)
           got == RanksAt(chosen)
<1>1. k \in Nat BY VecFacts
<1>2. chosen \in SUBSET SetSlots /\ Cardinality(chosen) \in Nat /\ Cardinality(chosen) <= k /\ IsFiniteSet(chosen)
  BY <1>1, FirstFitBound
<1>3. chosen \in SUBSET (1 .. Len(rank_ids)) BY <1>2 DEF SetSlots, Parallel
<1>4. /\ owner = "none" /\ owner' = t /\ updates = <<>>
      /\ rank_ids' = rank_ids /\ total' = total /\ available' = available
      /\ reading' = reading /\ observed' = observed /\ held[t] = {}
  BY DEF TryAllocate, Enter, readVars, RankInv
<1>5. total = Len(rank_ids) /\ available = Cardinality(Free) BY <1>4, Quiet
<1>6. t # "none" BY VecAssumption
<1>7. CASE Cardinality(chosen) < k
  <2>1. updates' = <<>> /\ bitset' = bitset /\ held' = held
    BY <1>7 DEF TryAllocate, Enter
  <2>2. Free' = Free /\ InPool' = InPool /\ Settling' = Settling /\ Parallel' = Parallel
    BY <1>4, <2>1 DEF Free, InPool, Settling, Parallel
  <2>3. RPTypeOK' BY <1>4, <2>1 DEF RankInv, RPTypeOK
  <2>4. RankInv' BY <1>4, <2>1, <2>2, <2>3 DEF RankInv
  <2> QED BY <2>1, <2>2, <2>4 DEF Abstract!poolVars
<1>8. CASE ~(Cardinality(chosen) < k)
  <2>1. Cardinality(chosen) = k BY <1>1, <1>2, <1>8
  <2>2. /\ updates' = << <<"available", -k>> >>
        /\ bitset' = [i \in DOMAIN bitset |-> bitset[i] /\ i \notin chosen]
        /\ held' = [held EXCEPT ![t] = got]
    BY <1>8 DEF TryAllocate, Enter, RanksAt
  <2>3. Parallel' /\ InPool' = InPool /\ Free' = Free \ got
    BY <1>3, <1>4, <2>2, BitsCleared
  <2>4. got \in SUBSET Free /\ Cardinality(got) = k
    <3>1. Free = RanksAt(SetSlots) BY PoolSets
    <3>2. got \in SUBSET Free BY <1>2, <3>1 DEF RanksAt
    <3> HIDE DEF chosen
    <3> QED BY <1>3, <2>1, <3>2, RanksAtCount
  <2>5. Cardinality(Free') = Cardinality(Free) - k
    <3>1. Free \cap got = got BY <2>4
    <3>2. Cardinality(Free \ got) = Cardinality(Free) - Cardinality(Free \cap got)
      BY FS_Difference
    <3> QED BY <2>3, <2>4, <3>1, <3>2, Zenon
  <2>6. Settling'
    <3>1. /\ -k \in Int /\ total' = Len(rank_ids') /\ available' + (-k) = Cardinality(Free')
      BY <1>1, <1>4, <1>5, <2>5
    <3> QED BY <2>2, <3>1 DEF Settling
  <2>7. RPTypeOK'
    <3>1. held' \in [PoolThreads -> SUBSET Ranks] BY <2>2, <2>4
    <3> QED BY <1>4, <2>3, <3>1 DEF RankInv, RPTypeOK, Parallel
  <2>8. Abstract!TryAllocate(t, k)
    <3> HIDE DEF got
    <3> QED BY <2>2, <2>3, <2>4, SameCardinality, Zenon DEF Abstract!TryAllocate
  <2>9. Abstract!PoolNext
    <3>1. k \in 1 .. Abstract!Cardinality(Ranks) BY SameCardinality
    <3> QED BY <1>4, <2>8, <3>1, Zenon DEF Abstract!PoolNext
  <2> QED BY <1>4, <1>6, <2>3, <2>6, <2>7, <2>9 DEF RankInv
<1> QED BY <1>7, <1>8

\* release.
LEMMA RPReleaseKeeps ==
    ASSUME RankInv, NEW t \in PoolThreads, RPRelease(t)
    PROVE  RankInv' /\ [Abstract!PoolNext]_(Abstract!poolVars)
<1> USE VecFacts
<1> DEFINE chosen == {i \in DOMAIN rank_ids : rank_ids[i] \in held[t] /\ ~bitset[i]}
           back == RanksAt(chosen)
<1>1. /\ owner = "none" /\ owner' = t /\ updates = <<>>
      /\ rank_ids' = rank_ids /\ total' = total /\ available' = available
      /\ reading' = reading /\ observed' = observed /\ held[t] # {}
      /\ updates' = IF chosen = {} THEN <<>> ELSE << <<"available", Cardinality(chosen)>> >>
      /\ bitset' = [i \in DOMAIN bitset |-> bitset[i] \/ i \in chosen]
      /\ held' = [held EXCEPT ![t] = {}]
  BY DEF RPRelease, Enter, readVars, RankInv
<1>2. total = Len(rank_ids) /\ available = Cardinality(Free) BY <1>1, Quiet
<1>3. t # "none" BY VecAssumption
<1>4. DOMAIN rank_ids = 1 .. Len(rank_ids) BY LenProperties DEF Parallel
<1>5. chosen \in SUBSET (1 .. Len(rank_ids)) BY <1>4
<1>6. Parallel' /\ InPool' = InPool /\ Free' = Free \cup back
  <2> HIDE DEF chosen
  <2> QED BY <1>1, <1>5, BitsRaised
<1>7. IsFiniteSet(back) /\ Cardinality(back) = Cardinality(chosen) /\ Cardinality(chosen) \in Nat /\ IsFiniteSet(chosen)
  <2> HIDE DEF chosen
  <2> QED BY <1>5, RanksAtCount
<1>8. Free \cap back = {}
  <2> SUFFICES ASSUME NEW x \in Free, x \in back PROVE FALSE OBVIOUS
  <2>1. PICK i \in chosen : x = rank_ids[i] BY DEF RanksAt
  <2>2. PICK j \in SetSlots : x = rank_ids[j] BY PoolSets DEF RanksAt
  <2>3. j \in 1 .. Len(rank_ids) /\ bitset[j] BY DEF SetSlots, Parallel
  <2>4. i = j BY <1>5, <2>1, <2>2, <2>3 DEF Parallel
  <2> QED BY <2>3, <2>4
<1>9. back \cup Free = (held[t] \cap InPool) \cup Free
  <2>1. ASSUME NEW x \in back PROVE x \in held[t] \cap InPool
    <3>1. PICK i \in chosen : x = rank_ids[i] BY DEF RanksAt
    <3>2. InPool = RanksAt(1 .. Len(rank_ids)) BY PoolSets
    <3> QED BY <1>4, <3>1, <3>2 DEF RanksAt
  <2>2. ASSUME NEW x \in held[t] \cap InPool PROVE x \in back \cup Free
    <3>1. InPool = RanksAt(1 .. Len(rank_ids)) /\ Free = RanksAt(SetSlots) BY PoolSets
    <3>2. PICK i \in 1 .. Len(rank_ids) : x = rank_ids[i] BY <3>1 DEF RanksAt
    <3>3. CASE bitset[i]
      <4>1. i \in SetSlots BY <3>3 DEF SetSlots, Parallel
      <4> QED BY <3>1, <3>2, <4>1 DEF RanksAt
    <3>4. CASE ~bitset[i]
      <4>1. i \in chosen BY <1>4, <3>2, <3>4
      <4> QED BY <3>2, <4>1 DEF RanksAt
    <3> QED BY <3>3, <3>4
  <2> QED BY <2>1, <2>2
<1>10. Cardinality(Free') = Cardinality(Free) + Cardinality(chosen)
  <2>1. Cardinality(Free \cup back) = Cardinality(Free) + Cardinality(back) - Cardinality(Free \cap back)
    BY <1>7, FS_Union
  <2>2. Cardinality(Free \cap back) = 0 BY <1>8, FS_EmptySet
  <2> HIDE DEF back, chosen
  <2> QED BY <1>6, <1>7, <2>1, <2>2
<1>11. Settling'
  <2>1. CASE chosen = {}
    <3>1. Cardinality(chosen) = 0 BY <2>1, FS_EmptySet
    <3>2. updates' = <<>> /\ total' = Len(rank_ids') /\ available' = Cardinality(Free')
      BY <1>1, <1>2, <1>10, <2>1, <3>1
    <3>3. Adds(<<>>, total', available', Len(rank_ids'), Cardinality(Free'))
      BY <1>1, <1>10, <3>1, <3>2, AddsNothing
    <3> QED BY <3>2, <3>3 DEF Settling
  <2>2. CASE chosen # {}
    <3>1. updates' = << <<"available", Cardinality(chosen)>> >> BY <1>1, <2>2
    <3>2. Cardinality(chosen) \in Int /\ total' = Len(rank_ids') /\ available' + Cardinality(chosen) = Cardinality(Free')
      BY <1>1, <1>2, <1>7, <1>10
    <3> HIDE DEF chosen
    <3> QED BY <3>1, <3>2 DEF Settling
  <2> QED BY <2>1, <2>2
<1>12. RPTypeOK'
  <2>1. held' \in [PoolThreads -> SUBSET Ranks] BY <1>1
  <2> QED BY <1>1, <1>6, <2>1 DEF RankInv, RPTypeOK, Parallel
<1>13. Abstract!ReleaseOf({t})
  <2>1. UNION {held[n] : n \in {t}} = held[t] OBVIOUS
  <2>2. held' = [n \in PoolThreads |-> IF n \in {t} THEN {} ELSE held[n]] BY <1>1
  <2>3. Free' = Free \cup (held[t] \cap InPool) BY <1>6, <1>9
  <2> QED BY <1>6, <2>1, <2>2, <2>3 DEF Abstract!ReleaseOf
<1>14. Abstract!PoolNext BY <1>1, <1>13 DEF Abstract!PoolNext
<1> QED BY <1>1, <1>3, <1>6, <1>11, <1>12, <1>14 DEF RankInv

\* add_ranks.
LEMMA AddKeeps ==
    ASSUME RankInv, NEW t \in PoolThreads, NEW rs \in SUBSET Ranks, AddRanks(t, rs)
    PROVE  RankInv' /\ [Abstract!PoolNext]_(Abstract!poolVars)
<1> USE VecFacts
<1> DEFINE N == rs \ InPool
           k == Cardinality(N)
           n == Len(rank_ids)
<1>1. N \in SUBSET Nat /\ N \in SUBSET Ranks /\ IsFiniteSet(N)
  <2>1. N \in SUBSET Ranks OBVIOUS
  <2> HIDE DEF N
  <2> QED BY <2>1, VecAssumption, FS_Subset
<1>2. PICK new : new = Ascending(N) OBVIOUS
<1>3. /\ k \in Nat /\ new \in Seq(N) /\ Len(new) = k
      /\ \A i, j \in 1 .. k : i < j => new[i] < new[j]
      /\ \A i \in 1 .. k : new[i] \in N
      /\ \A x \in N : \E i \in 1 .. k : new[i] = x
  <2> HIDE DEF N
  <2> QED BY <1>1, <1>2, AscendingSeq
<1>4. /\ owner = "none" /\ owner' = t /\ updates = <<>> /\ total' = total /\ available' = available
      /\ reading' = reading /\ observed' = observed /\ held' = held
      /\ rank_ids' = rank_ids \o new
      /\ bitset' = bitset \o [i \in DOMAIN new |-> TRUE]
      /\ updates' = [i \in 1 .. 2 * k |-> IF i % 2 = 1 THEN <<"total", 1>> ELSE <<"available", 1>>]
  BY <1>2, <1>3 DEF AddRanks, NewRanks, Enter, readVars, RankInv
<1>5. total = n /\ available = Cardinality(Free) BY <1>4, Quiet
<1>6. t # "none" /\ n \in Nat BY VecAssumption
<1> HIDE DEF k
<1>7. /\ rank_ids' \in Seq(Ranks) /\ Len(rank_ids') = n + k
      /\ \A i \in 1 .. n + k : rank_ids'[i] = IF i <= n THEN rank_ids[i] ELSE new[i - n]
  <2>1. rank_ids \in Seq(Ranks) /\ new \in Seq(Ranks)
    <3> HIDE DEF N
    <3> QED BY <1>1, <1>3, SeqMonotonic DEF Parallel
  <2>2. /\ rank_ids \o new \in Seq(Ranks) /\ Len(rank_ids \o new) = Len(rank_ids) + Len(new)
        /\ \A i \in 1 .. Len(rank_ids) + Len(new) :
              (rank_ids \o new)[i] = IF i <= Len(rank_ids) THEN rank_ids[i] ELSE new[i - Len(rank_ids)]
    BY <2>1, ConcatProperties, Zenon
  <2> QED BY <1>3, <1>4, <2>2, Zenon
<1>8. /\ bitset' \in Seq(BOOLEAN) /\ Len(bitset') = n + k
      /\ \A i \in 1 .. n + k : bitset'[i] = IF i <= n THEN bitset[i] ELSE TRUE
  <2> DEFINE ones == [i \in DOMAIN new |-> TRUE]
  <2>1. ones \in Seq(BOOLEAN) /\ Len(ones) = k /\ \A i \in 1 .. k : ones[i] = TRUE
    <3>1. DOMAIN new = 1 .. k BY <1>3, LenProperties
    <3>2. ones = [i \in 1 .. k |-> TRUE] BY <3>1
    <3> HIDE DEF ones
    <3>3. \A i \in 1 .. k : ones[i] = TRUE BY <3>2, Zenon
    <3>4. ones \in [1 .. k -> BOOLEAN] BY <3>2
    <3>5. ones \in Seq(BOOLEAN) /\ Len(ones) = k BY <1>3, <3>4
    <3> QED BY <3>3, <3>5
  <2>2. bitset \in Seq(BOOLEAN) /\ Len(bitset) = n BY DEF Parallel
  <2> HIDE DEF ones
  <2>3. /\ bitset \o ones \in Seq(BOOLEAN) /\ Len(bitset \o ones) = Len(bitset) + Len(ones)
        /\ \A i \in 1 .. Len(bitset) + Len(ones) :
              (bitset \o ones)[i] = IF i <= Len(bitset) THEN bitset[i] ELSE ones[i - Len(bitset)]
    BY <2>1, <2>2, ConcatProperties, Zenon
  <2>4. bitset' = bitset \o ones BY <1>4 DEF ones
  <2>5. \A i \in 1 .. n + k : ~(i <= n) => i - n \in 1 .. k BY <1>3
  <2> QED BY <2>1, <2>2, <2>3, <2>4, <2>5, Zenon
<1>9. /\ \A i \in 1 .. n : i \in 1 .. n + k /\ i <= n
      /\ \A i \in 1 .. k : n + i \in 1 .. n + k /\ ~(n + i <= n) /\ n + i - n = i
      /\ \A i \in 1 .. n + k : i \in 1 .. n \/ \E j \in 1 .. k : i = n + j
  <2> HIDE DEF n
  <2>1. \A i \in 1 .. n + k : i \in 1 .. n \/ (i - n \in 1 .. k /\ i = n + (i - n)) BY <1>3, <1>6
  <2>2. \A i \in 1 .. n + k : i \in 1 .. n \/ \E j \in 1 .. k : i = n + j BY <2>1
  <2>3. \A i \in 1 .. n : i \in 1 .. n + k /\ i <= n BY <1>3, <1>6
  <2>4. \A i \in 1 .. k : n + i \in 1 .. n + k /\ ~(n + i <= n) /\ n + i - n = i BY <1>3, <1>6
  <2> QED BY <2>2, <2>3, <2>4
<1>10. /\ \A i \in 1 .. n : rank_ids'[i] = rank_ids[i] /\ (bitset'[i] <=> bitset[i])
       /\ \A i \in 1 .. k : rank_ids'[n + i] = new[i] /\ bitset'[n + i]
  <2>1. ASSUME NEW i \in 1 .. n PROVE rank_ids'[i] = rank_ids[i] /\ (bitset'[i] <=> bitset[i])
    <3>1. i \in 1 .. n + k /\ i <= n BY <1>9
    <3> QED BY <1>7, <1>8, <3>1, Zenon
  <2>2. ASSUME NEW i \in 1 .. k PROVE rank_ids'[n + i] = new[i] /\ bitset'[n + i]
    <3>1. n + i \in 1 .. n + k /\ ~(n + i <= n) /\ n + i - n = i BY <1>9
    <3>2. PICK j : j = n + i OBVIOUS
    <3>3. j \in 1 .. n + k /\ ~(j <= n) /\ j - n = i BY <3>1, <3>2
    <3>4. rank_ids'[j] = new[j - n] /\ bitset'[j] = TRUE BY <1>7, <1>8, <3>3, Zenon
    <3> QED BY <3>2, <3>3, <3>4, Zenon
  <2> QED BY <2>1, <2>2
<1>11. /\ \A i \in 1 .. n : rank_ids[i] \in InPool
       /\ \A x \in InPool : \E i \in 1 .. n : rank_ids[i] = x
  BY PoolSets DEF RanksAt
<1>12. \A i, j \in 1 .. n + k : rank_ids'[i] = rank_ids'[j] => i = j
  <2>1. ASSUME NEW i \in 1 .. n, NEW j \in 1 .. n, rank_ids'[i] = rank_ids'[j] PROVE i = j
    BY <1>10, <2>1 DEF Parallel
  <2>2. ASSUME NEW i \in 1 .. n, NEW j \in 1 .. k PROVE rank_ids'[i] # rank_ids'[n + j]
    <3>1. rank_ids[i] \in InPool /\ new[j] \notin InPool BY <1>3, <1>11
    <3> QED BY <1>10, <3>1
  <2>3. ASSUME NEW i \in 1 .. k, NEW j \in 1 .. k, rank_ids'[n + i] = rank_ids'[n + j] PROVE i = j
    <3>1. new[i] = new[j] BY <1>10, <2>3
    <3>2. new[i] \in Nat /\ new[j] \in Nat BY <1>1, <1>3
    <3>3. (i < j => new[i] < new[j]) /\ (j < i => new[j] < new[i]) BY <1>3
    <3>4. ~(i < j) /\ ~(j < i) BY <3>1, <3>2, <3>3
    <3> QED BY <1>3, <3>4
  <2>4. ASSUME NEW i \in 1 .. n + k, NEW j \in 1 .. n + k, rank_ids'[i] = rank_ids'[j] PROVE i = j
    <3>1. i \in 1 .. n \/ \E a \in 1 .. k : i = n + a BY <1>9
    <3>2. j \in 1 .. n \/ \E a \in 1 .. k : j = n + a BY <1>9
    <3> HIDE DEF n
    <3> QED BY <2>1, <2>2, <2>3, <2>4, <3>1, <3>2, Zenon
  <2> QED BY <2>4
<1>13. Parallel' BY <1>7, <1>8, <1>12 DEF Parallel
<1>14. InPool' = InPool \cup rs
  <2>1. DOMAIN rank_ids' = 1 .. n + k BY <1>7, LenProperties
  <2>2. \A x : x \in InPool' <=> \E i \in 1 .. n + k : rank_ids'[i] = x BY <2>1, Zenon DEF InPool, ToSet
  <2>3. ASSUME NEW x, x \in InPool' PROVE x \in InPool \cup rs
    <3>1. PICK i \in 1 .. n + k : rank_ids'[i] = x BY <2>2, <2>3
    <3>2. CASE i \in 1 .. n BY <1>10, <1>11, <3>1, <3>2
    <3>3. CASE \E j \in 1 .. k : i = n + j BY <1>3, <1>10, <3>1, <3>3
    <3> QED BY <1>9, <3>2, <3>3
  <2>4. ASSUME NEW x \in InPool PROVE x \in InPool' BY <1>9, <1>10, <1>11, <2>2
  <2>5. ASSUME NEW x \in rs, x \notin InPool PROVE x \in InPool'
    <3>1. PICK i \in 1 .. k : new[i] = x BY <1>3, <2>5
    <3> QED BY <1>9, <1>10, <2>2, <3>1
  <2> QED BY <2>3, <2>4, <2>5
<1>15. Free' = Free \cup N
  <2>1. \A x : x \in Free' <=> \E i \in 1 .. n + k : bitset'[i] /\ rank_ids'[i] = x
    BY <1>8, Zenon DEF Free
  <2>2. \A x : x \in Free <=> \E i \in 1 .. n : bitset[i] /\ rank_ids[i] = x
    BY Zenon DEF Free, Parallel
  <2>3. ASSUME NEW x, x \in Free' PROVE x \in Free \cup N
    <3>1. PICK i \in 1 .. n + k : bitset'[i] /\ rank_ids'[i] = x BY <2>1, <2>3
    <3>2. CASE i \in 1 .. n
      <4>1. bitset[i] /\ rank_ids[i] = x BY <1>10, <3>1, <3>2, Zenon
      <4> QED BY <2>2, <3>2, <4>1, Zenon
    <3>3. CASE \E j \in 1 .. k : i = n + j BY <1>3, <1>10, <3>1, <3>3
    <3> QED BY <1>9, <3>2, <3>3
  <2>4. ASSUME NEW x \in Free PROVE x \in Free'
    <3>1. PICK i \in 1 .. n : bitset[i] /\ rank_ids[i] = x BY <2>2, Zenon
    <3> QED BY <1>9, <1>10, <2>1, <3>1, Zenon
  <2>5. ASSUME NEW x \in N PROVE x \in Free'
    <3>1. PICK i \in 1 .. k : new[i] = x BY <1>3, <2>5
    <3> QED BY <1>9, <1>10, <2>1, <3>1, Zenon
  <2> QED BY <2>3, <2>4, <2>5
<1>16. Cardinality(Free') = Cardinality(Free) + k
  <2>1. Free \cap N = {} OBVIOUS
  <2>2. Cardinality(Free \cup N) = Cardinality(Free) + Cardinality(N) - Cardinality(Free \cap N)
    <3> HIDE DEF N
    <3> QED BY <1>1, FS_Union
  <2>3. Cardinality(Free \cap N) = 0 BY <2>1, FS_EmptySet
  <2> HIDE DEF N
  <2> QED BY <1>3, <1>15, <2>2, <2>3 DEF k
<1>17. Settling'
  <2>1. Len(updates') = 2 * k /\ Len(updates') \in Nat
    BY <1>3, <1>4
  <2>2. \A i \in 1 .. 2 * k : (2 * k - i) % 2 = i % 2 BY <1>3
  <2>3. updates' = [i \in 1 .. Len(updates') |->
                      IF (Len(updates') - i) % 2 = 1 THEN <<"total", 1>> ELSE <<"available", 1>>]
    BY <1>4, <2>1, <2>2
  <2>4. (2 * k) \div 2 = k /\ (2 * k + 1) \div 2 = k BY <1>3
  <2>5. total' = Len(rank_ids') - Len(updates') \div 2 /\ available' = Cardinality(Free') - (Len(updates') + 1) \div 2
    <3>1. Cardinality(Free) \in Nat OBVIOUS
    <3>2. Len(updates') \div 2 = k /\ (Len(updates') + 1) \div 2 = k BY <2>1, <2>4, Zenon
    <3>4. Len(rank_ids') = n + k /\ Cardinality(Free') = Cardinality(Free) + k BY <1>7, <1>16
    <3>5. PICK u, z, c, l : u = Len(updates') \div 2 /\ z = (Len(updates') + 1) \div 2
                         /\ c = Cardinality(Free') /\ l = Len(rank_ids')
      OBVIOUS
    <3>6. u = k /\ z = k /\ l = n + k /\ c = Cardinality(Free) + k BY <3>2, <3>4, <3>5, Zenon
    <3>7. total' = l - u /\ available' = c - z
      <4>1. PICK e \in Nat : e = Cardinality(Free) BY <3>1
      <4>2. PICK b \in Nat : b = n BY <1>6
      <4>3. u = k /\ z = k /\ l = b + k /\ c = e + k /\ k \in Nat BY <1>3, <3>6, <4>1, <4>2
      <4>4. l - u = b /\ c - z = e BY <4>3
      <4>5. total' = b /\ available' = e BY <1>4, <1>5, <4>1, <4>2
      <4> QED BY <4>4, <4>5
    <3> QED BY <3>5, <3>7, Zenon
  <2>6. Adds(updates, total, available, Len(rank_ids), Cardinality(Free))'
    BY <2>1, <2>3, <2>5 DEF Adds
  <2> QED BY <2>6 DEF Settling
<1>18. RPTypeOK' BY <1>4, <1>13 DEF RankInv, RPTypeOK, Parallel
<1>19. Abstract!AddRanks(rs) BY <1>4, <1>14, <1>15 DEF Abstract!AddRanks
<1>20. Abstract!PoolNext BY <1>19, Zenon DEF Abstract!PoolNext
<1> QED BY <1>4, <1>6, <1>13, <1>17, <1>18, <1>20 DEF RankInv

\* The doomed chosen, highest first: each of them once.
LEMMA DoomedDescending ==
    ASSUME NEW n \in Nat, NEW D \in SUBSET (1 .. n)
    PROVE  /\ Descending(Reverse(Ascending(D)), n)
           /\ Len(Reverse(Ascending(D))) = Cardinality(D)
           /\ Dropped(Reverse(Ascending(D)), Cardinality(D)) = D
           /\ Cardinality(D) \in Nat
<1>1. D \in SUBSET Nat /\ IsFiniteSet(D)
  <2>1. D \in SUBSET Nat OBVIOUS
  <2>2. IsFiniteSet(1 .. n)
    <3>1. 1 \in Int /\ n \in Int OBVIOUS
    <3> QED BY <3>1, FS_Interval
  <2> QED BY <2>1, <2>2, FS_Subset
<1>2. PICK a, k : a = Ascending(D) /\ k = Cardinality(D) OBVIOUS
<1>3. /\ k \in Nat /\ a \in Seq(D) /\ Len(a) = k
      /\ \A i, j \in 1 .. k : i < j => a[i] < a[j]
      /\ \A i \in 1 .. k : a[i] \in D
      /\ \A x \in D : \E i \in 1 .. k : a[i] = x
  BY <1>1, <1>2, AscendingSeq
<1>4. PICK d : d = Reverse(a) OBVIOUS
<1>5. d = [i \in 1 .. k |-> a[k - i + 1]] BY <1>3, <1>4 DEF Reverse
<1>6. \A i \in 1 .. k : k - i + 1 \in 1 .. k /\ k - (k - i + 1) + 1 = i BY <1>3
<1>7. \A i \in 1 .. k : d[i] = a[k - i + 1] /\ d[i] \in D /\ d[i] \in 1 .. n BY <1>3, <1>5, <1>6
<1>8. d \in Seq(1 .. n) /\ Len(d) = k BY <1>3, <1>5, <1>7
<1>9. ASSUME NEW i \in 1 .. k, NEW j \in 1 .. k, i < j PROVE d[j] < d[i]
  <2>1. k - j + 1 < k - i + 1 BY <1>3, <1>9
  <2> QED BY <1>3, <1>6, <1>7, <2>1
<1>10. Descending(d, n) BY <1>8, <1>9 DEF Descending
<1>11. Dropped(d, k) = D
  <2>1. \A x \in D : \E i \in 1 .. k : d[i] = x
    <3> SUFFICES ASSUME NEW x \in D PROVE \E i \in 1 .. k : d[i] = x OBVIOUS
    <3>1. PICK i \in 1 .. k : a[i] = x BY <1>3
    <3>2. PICK j : j = k - i + 1 OBVIOUS
    <3>3. j \in 1 .. k /\ k - j + 1 = i BY <1>6, <3>2
    <3>4. d[j] = a[k - j + 1] BY <1>7, <3>3
    <3>5. d[j] = x BY <3>1, <3>3, <3>4, Zenon
    <3> QED BY <3>3, <3>5
  <2> QED BY <1>7, <2>1 DEF Dropped
<1> QED BY <1>2, <1>3, <1>4, <1>8, <1>10, <1>11

\* remove_available.
LEMMA RemoveKeeps ==
    ASSUME RankInv, NEW t \in PoolThreads, NEW rs \in SUBSET Ranks, RemoveAvailable(t, rs)
    PROVE  RankInv' /\ [Abstract!PoolNext]_(Abstract!poolVars)
<1> USE VecFacts
<1> DEFINE D == {i \in DOMAIN rank_ids : rank_ids[i] \in rs /\ bitset[i]}
           n == Len(rank_ids)
<1>1. DOMAIN rank_ids = 1 .. n /\ n \in Nat /\ Len(bitset) = n BY LenProperties DEF Parallel
<1>2. D \in SUBSET (1 .. n) BY <1>1
<1>3. PICK doomed, k : doomed = Reverse(Ascending(D)) /\ k = Cardinality(D) OBVIOUS
<1>4. Descending(doomed, n) /\ Len(doomed) = k /\ Dropped(doomed, k) = D /\ k \in Nat
  <2> HIDE DEF D, n
  <2> QED BY <1>1, <1>2, <1>3, DoomedDescending
<1>5. doomed = DoomedSlots(rs) BY <1>3 DEF DoomedSlots
<1>6. /\ owner = "none" /\ owner' = t /\ updates = <<>> /\ total' = total /\ available' = available
      /\ reading' = reading /\ observed' = observed /\ held' = held
      /\ rank_ids' = Compacted(rank_ids, doomed)
      /\ bitset' = Compacted(bitset, doomed)
      /\ updates' = IF k = 0 THEN <<>> ELSE << <<"total", -k>>, <<"available", -k>> >>
  BY <1>4, <1>5 DEF RemoveAvailable, Enter, readVars, RankInv
<1>7. total = n /\ available = Cardinality(Free) BY <1>6, Quiet
<1>8. t # "none" BY VecAssumption
<1> HIDE DEF D
<1>9. PICK f : Drops(f, rank_ids, doomed) /\ rank_ids' = f[k]
  BY <1>4, <1>6, CompactedIsDrops DEF Parallel
<1>10. PICK g : Drops(g, bitset, doomed) /\ bitset' = g[k]
  BY <1>1, <1>4, <1>6, CompactedIsDrops DEF Parallel
<1>11. PICK from : /\ Moved(from, doomed, k, n)
                   /\ Follows(rank_ids, from, k, rank_ids', Ranks)
                   /\ Follows(bitset, from, k, bitset', BOOLEAN)
  <2>1. k \in 0 .. Len(doomed) BY <1>4
  <2>2. rank_ids \in Seq(Ranks) /\ bitset \in Seq(BOOLEAN) BY DEF Parallel
  <2>3. \E from : /\ Moved(from, doomed, k, Len(rank_ids))
                  /\ Follows(rank_ids, from, k, f[k], Ranks)
                  /\ Follows(bitset, from, k, g[k], BOOLEAN)
    BY <1>1, <1>4, <1>9, <1>10, <2>1, <2>2, DropsFollow, Zenon
  <2> QED BY <1>9, <1>10, <2>3, Zenon
<1>12. PICK m \in Nat : m = n - k
  <2>1. k <= n BY <1>11 DEF Moved
  <2> HIDE DEF n
  <2>2. n - k \in Nat BY <1>1, <1>4, <2>1
  <2> QED BY <2>2
<1>13. /\ from \in [1 .. m -> 1 .. n]
       /\ \A i, j \in 1 .. m : from[i] = from[j] => i = j
       /\ \A x \in 1 .. n : (\E j \in 1 .. m : from[j] = x) <=> x \notin D
  BY <1>4, <1>11, <1>12 DEF Moved
<1>14. /\ rank_ids' \in Seq(Ranks) /\ Len(rank_ids') = m
       /\ bitset' \in Seq(BOOLEAN) /\ Len(bitset') = m
       /\ \A j \in 1 .. m : rank_ids'[j] = rank_ids[from[j]] /\ bitset'[j] = bitset[from[j]]
  BY <1>1, <1>11, <1>12, Zenon DEF Follows
<1>15. Parallel'
  <2>1. ASSUME NEW i \in 1 .. m, NEW j \in 1 .. m, rank_ids'[i] = rank_ids'[j] PROVE i = j
    <3>1. rank_ids[from[i]] = rank_ids[from[j]] /\ from[i] \in 1 .. n /\ from[j] \in 1 .. n
      BY <1>13, <1>14, <2>1
    <3>2. from[i] = from[j] BY <3>1 DEF Parallel
    <3> QED BY <1>13, <3>2
  <2> QED BY <1>14, <2>1 DEF Parallel
<1>16. RanksAt(D) = rs \cap Free
  <2>1. Free = RanksAt(SetSlots) BY PoolSets
  <2>2. D = {i \in SetSlots : rank_ids[i] \in rs}
    BY <1>1, Zenon DEF D, SetSlots
  <2> QED BY <2>1, <2>2 DEF RanksAt
<1>17. InPool' = InPool \ RanksAt(D)
  <2>1. DOMAIN rank_ids' = 1 .. m BY <1>14, LenProperties
  <2>2. \A x : x \in InPool' <=> \E i \in 1 .. m : rank_ids'[i] = x BY <2>1, Zenon DEF InPool, ToSet
  <2>3. \A x : x \in InPool <=> \E i \in 1 .. n : rank_ids[i] = x BY <1>1, Zenon DEF InPool, ToSet
  <2>4. \A x : x \in RanksAt(D) <=> \E i \in D : rank_ids[i] = x BY Zenon DEF RanksAt
  <2>5. ASSUME NEW x, x \in InPool' PROVE x \in InPool /\ x \notin RanksAt(D)
    <3>1. PICK i \in 1 .. m : rank_ids'[i] = x BY <2>2, <2>5
    <3>2. rank_ids[from[i]] = x /\ from[i] \in 1 .. n /\ from[i] \notin D BY <1>13, <1>14, <3>1
    <3>3. \A j \in D : rank_ids[j] # x BY <1>2, <3>2 DEF Parallel
    <3> QED BY <2>3, <2>4, <3>2, <3>3
  <2>6. ASSUME NEW x \in InPool, x \notin RanksAt(D) PROVE x \in InPool'
    <3>1. PICK i \in 1 .. n : rank_ids[i] = x BY <2>3
    <3>2. i \notin D BY <2>4, <2>6, <3>1
    <3>3. PICK j \in 1 .. m : from[j] = i BY <1>13, <3>2
    <3> QED BY <1>14, <2>2, <3>1, <3>3
  <2> QED BY <2>5, <2>6
<1>18. Free' = Free \ RanksAt(D)
  <2>1. \A x : x \in Free' <=> \E i \in 1 .. m : bitset'[i] /\ rank_ids'[i] = x
    BY <1>14, Zenon DEF Free
  <2>2. \A x : x \in Free <=> \E i \in 1 .. n : bitset[i] /\ rank_ids[i] = x
    BY <1>1, Zenon DEF Free
  <2>4. \A x : x \in RanksAt(D) <=> \E i \in D : rank_ids[i] = x BY Zenon DEF RanksAt
  <2>5. ASSUME NEW x, x \in Free' PROVE x \in Free /\ x \notin RanksAt(D)
    <3>1. PICK i \in 1 .. m : bitset'[i] /\ rank_ids'[i] = x BY <2>1, <2>5
    <3>2. from[i] \in 1 .. n /\ from[i] \notin D BY <1>13
    <3>3. rank_ids[from[i]] = x /\ bitset[from[i]] BY <1>14, <3>1, Zenon
    <3>4. \A j \in D : rank_ids[j] # x BY <1>2, <3>2, <3>3 DEF Parallel
    <3> QED BY <2>2, <2>4, <3>2, <3>3, <3>4, Zenon
  <2>6. ASSUME NEW x \in Free, x \notin RanksAt(D) PROVE x \in Free'
    <3>1. PICK i \in 1 .. n : bitset[i] /\ rank_ids[i] = x BY <2>2, Zenon
    <3>2. i \notin D BY <2>4, <2>6, <3>1
    <3>3. PICK j \in 1 .. m : from[j] = i BY <1>13, <3>2
    <3> QED BY <1>14, <2>1, <3>1, <3>3, Zenon
  <2> QED BY <2>5, <2>6
<1>19. Cardinality(Free') = Cardinality(Free) - k
  <2>1. Cardinality(RanksAt(D)) = k BY <1>2, <1>3, RanksAtCount
  <2>2. Free \cap RanksAt(D) = RanksAt(D) BY <1>16
  <2>3. Cardinality(Free \ RanksAt(D)) = Cardinality(Free) - Cardinality(Free \cap RanksAt(D))
    BY FS_Difference
  <2> QED BY <1>18, <2>1, <2>2, <2>3, Zenon
<1>20. Settling'
  <2>1. CASE k = 0
    <3>1. updates' = <<>> /\ total' = Len(rank_ids') /\ available' = Cardinality(Free') /\ Len(rank_ids') \in Nat /\ Cardinality(Free') \in Nat
      BY <1>1, <1>6, <1>7, <1>12, <1>14, <1>19, <2>1
    <3>2. Adds(<<>>, total', available', Len(rank_ids'), Cardinality(Free'))
      BY <3>1, AddsNothing
    <3> QED BY <3>1, <3>2 DEF Settling
  <2>2. CASE k # 0
    <3>1. updates' = << <<"total", -k>>, <<"available", -k>> >> BY <1>6, <2>2
    <3>2. -k \in Int /\ total' + (-k) = Len(rank_ids') /\ available' + (-k) = Cardinality(Free')
      BY <1>1, <1>4, <1>6, <1>7, <1>12, <1>14, <1>19
    <3> QED BY <3>1, <3>2 DEF Settling
  <2> QED BY <2>1, <2>2
<1>21. RPTypeOK' BY <1>6, <1>15 DEF RankInv, RPTypeOK, Parallel
<1>22. Abstract!RemoveAvailable(rs)
  BY <1>6, <1>16, <1>17, <1>18 DEF Abstract!RemoveAvailable, Abstract!Removed
<1>23. Abstract!PoolNext BY <1>22, Zenon DEF Abstract!PoolNext
<1> QED BY <1>6, <1>8, <1>15, <1>20, <1>21, <1>23 DEF RankInv

-----------------------------------------------------------------------------
\* The steps that leave the vectors alone.
LEMMA CounterKeeps ==
    ASSUME RankInv, UpdateCounter
    PROVE  RankInv' /\ [Abstract!PoolNext]_(Abstract!poolVars)
<1>1. /\ rank_ids' = rank_ids /\ bitset' = bitset /\ owner' = owner /\ held' = held
      /\ reading' = reading /\ observed' = observed /\ updates # <<>>
  BY DEF UpdateCounter, vecVars, readVars
<1>2. Free' = Free /\ InPool' = InPool /\ Parallel' = Parallel BY <1>1 DEF Free, InPool, Parallel
<1>3. Settling' /\ total' \in 0 .. CounterModulus - 1 /\ available' \in 0 .. CounterModulus - 1
  BY CounterSteps
<1>4. RPTypeOK' BY <1>1, <1>3 DEF RankInv, RPTypeOK
<1> QED BY <1>1, <1>2, <1>3, <1>4 DEF RankInv, Abstract!poolVars

LEMMA OthersKeep ==
    ASSUME RankInv,
           \/ Leave \/ UNCHANGED rpVars
           \/ \E t \in PoolThreads : LoadTotal(t) \/ LoadAvailable(t)
    PROVE  RankInv' /\ [Abstract!PoolNext]_(Abstract!poolVars)
<1>1. /\ rank_ids' = rank_ids /\ bitset' = bitset /\ held' = held /\ updates' = updates
      /\ total' = total /\ available' = available
  BY DEF Leave, rpVars, LoadTotal, LoadAvailable, vecVars, readVars
<1>2. Free' = Free /\ InPool' = InPool /\ Parallel' = Parallel /\ Settling' = Settling
  BY <1>1 DEF Free, InPool, Parallel, Settling
<1>3. /\ reading \in [PoolThreads -> -1 .. CounterModulus - 1]
      /\ observed \in [PoolThreads -> 0 .. CounterModulus - 1]
      /\ total \in 0 .. CounterModulus - 1 /\ available \in 0 .. CounterModulus - 1
      /\ owner \in PoolThreads \cup {"none"}
  BY DEF RankInv, RPTypeOK
<1>4. CounterModulus \in Nat /\ CounterModulus > 0
  <2>1. Cardinality(Ranks) \in Nat BY VecAssumption, FS_CardinalityType
  <2> QED BY <2>1, VecAssumption
<1>5. /\ reading' \in [PoolThreads -> -1 .. CounterModulus - 1]
      /\ observed' \in [PoolThreads -> 0 .. CounterModulus - 1]
      /\ owner' \in PoolThreads \cup {"none"}
      /\ owner' = "none" => updates' = <<>>
  <2>0. owner = "none" => updates = <<>> BY DEF RankInv
  <2>1. CASE Leave BY <1>3, <2>1 DEF Leave, readVars
  <2>2. CASE UNCHANGED rpVars BY <1>3, <2>0, <2>2 DEF rpVars, readVars
  <2>3. ASSUME NEW t \in PoolThreads, LoadTotal(t)
        PROVE  /\ reading' \in [PoolThreads -> -1 .. CounterModulus - 1]
               /\ observed' = observed /\ owner' = owner
    <3>1. total \in -1 .. CounterModulus - 1 BY <1>3, <1>4
    <3> QED BY <1>3, <2>3, <3>1 DEF LoadTotal
  <2>4. ASSUME NEW t \in PoolThreads, LoadAvailable(t)
        PROVE  /\ reading' \in [PoolThreads -> -1 .. CounterModulus - 1]
               /\ observed' \in [PoolThreads -> 0 .. CounterModulus - 1] /\ owner' = owner
    <3>1. reading[t] \in Int /\ available \in Int BY <1>3, <1>4
    <3>2. \A x \in Int : x % CounterModulus \in 0 .. CounterModulus - 1 BY <1>4
    <3>3. Allocated(reading[t]) \in 0 .. CounterModulus - 1 BY <3>1, <3>2 DEF Allocated
    <3>4. -1 \in -1 .. CounterModulus - 1 BY <1>4
    <3> QED BY <1>3, <2>4, <3>3, <3>4 DEF LoadAvailable
  <2> QED BY <1>1, <1>3, <2>0, <2>1, <2>2, <2>3, <2>4
<1>6. RPTypeOK' BY <1>1, <1>5 DEF RankInv, RPTypeOK
<1> QED BY <1>1, <1>2, <1>5, <1>6 DEF RankInv, Abstract!poolVars

LEMMA RankStep ==
    ASSUME RankInv, [RPNext]_rpVars
    PROVE  RankInv' /\ [Abstract!PoolNext]_(Abstract!poolVars)
BY AllocateKeeps, RPReleaseKeeps, AddKeeps, RemoveKeeps, CounterKeeps, OthersKeep DEF RPNext

LEMMA RankStart == ASSUME RPInit PROVE RankInv /\ Abstract!PoolInit
<1> DEFINE n == Cardinality(Initial)
<1>1. Initial \in SUBSET Nat /\ IsFiniteSet(Initial) BY VecAssumption, FS_Subset
<1>2. /\ n \in Nat /\ rank_ids \in Seq(Initial) /\ Len(rank_ids) = n
      /\ \A i, j \in 1 .. n : i < j => rank_ids[i] < rank_ids[j]
      /\ \A i \in 1 .. n : rank_ids[i] \in Initial
      /\ \A x \in Initial : \E i \in 1 .. n : rank_ids[i] = x
  BY <1>1, AscendingSeq DEF RPInit
<1> HIDE DEF n
<1>3. bitset = [i \in 1 .. n |-> TRUE] BY DEF RPInit, n
<1>4. bitset \in Seq(BOOLEAN) /\ Len(bitset) = n BY <1>2, <1>3
<1>5. Parallel
  <2>1. rank_ids \in Seq(Ranks) BY <1>2, VecAssumption, SeqMonotonic
  <2>2. ASSUME NEW i \in 1 .. n, NEW j \in 1 .. n, rank_ids[i] = rank_ids[j] PROVE i = j
    <3>1. rank_ids[i] \in Nat /\ rank_ids[j] \in Nat BY <1>1, <1>2
    <3>2. (i < j => rank_ids[i] < rank_ids[j]) /\ (j < i => rank_ids[j] < rank_ids[i]) BY <1>2
    <3>3. ~(i < j) /\ ~(j < i) BY <2>2, <3>1, <3>2
    <3> QED BY <1>2, <3>3
  <2> QED BY <1>2, <1>4, <2>1, <2>2 DEF Parallel
<1>6. SetSlots = 1 .. n BY <1>3, <1>4, Zenon DEF SetSlots
<1>7. InPool = Initial /\ Free = Initial
  <2>1. InPool = RanksAt(1 .. n) /\ Free = RanksAt(1 .. n) BY <1>2, <1>5, <1>6, PoolSets
  <2> QED BY <1>2, <2>1 DEF RanksAt
<1>8. n <= Cardinality(Ranks) /\ Cardinality(Ranks) \in Nat
  <2>1. Cardinality(Ranks) \in Nat BY VecAssumption, FS_CardinalityType
  <2>2. n <= Cardinality(Ranks) BY VecAssumption, FS_Subset DEF n
  <2> QED BY <2>1, <2>2
<1>9. total = n /\ available = n /\ updates = <<>> /\ n \in 0 .. CounterModulus - 1
  <2>1. total = n /\ available = n /\ updates = <<>> BY DEF RPInit, n
  <2> QED BY <1>2, <1>8, <2>1, VecAssumption
<1>10. Settling
  <2>1. Cardinality(Free) = n BY <1>7 DEF n
  <2>2. Adds(<<>>, total, available, n, n) BY <1>2, <1>9, AddsNothing
  <2> QED BY <1>2, <1>9, <2>1, <2>2 DEF Settling
<1>11. RPTypeOK
  <2>1. CounterModulus \in Nat /\ CounterModulus > 0 BY <1>8, VecAssumption
  <2>2. held \in [PoolThreads -> SUBSET Ranks] BY DEF RPInit
  <2>3. reading \in [PoolThreads -> -1 .. CounterModulus - 1] BY <2>1 DEF RPInit
  <2>4. observed \in [PoolThreads -> 0 .. CounterModulus - 1] BY <2>1 DEF RPInit
  <2>5. owner \in PoolThreads \cup {"none"} BY DEF RPInit
  <2> QED BY <1>5, <1>9, <2>2, <2>3, <2>4, <2>5 DEF RPTypeOK, Parallel
<1>12. RankInv BY <1>5, <1>9, <1>10, <1>11 DEF RankInv
<1>13. Abstract!PoolInit BY <1>7 DEF Abstract!PoolInit, RPInit
<1> QED BY <1>12, <1>13

LEMMA RankMeansExact == ASSUME RankInv PROVE VectorsExact
<1>1. ASSUME owner = "none" PROVE total = Len(rank_ids) /\ available = Cardinality(Free)
  BY <1>1, Quiet DEF RankInv
<1>2. Len(rank_ids) = Len(bitset) /\ Cardinality(InPool) = Len(rank_ids)
  BY PoolSets DEF RankInv, Parallel
<1> QED BY <1>1, <1>2 DEF RankInv, VectorsExact, CountersSettled

(***************************************************************************)
(* For any ranks and threads, whichever way try_allocate, release,         *)
(* add_ranks, remove_available and the lock-free accessors interleave:     *)
(* whenever structural_mutex_ is free the vectors are parallel, name a     *)
(* rank once, and total_ and available_ are their own counts; no counter   *)
(* ever wraps.                                                             *)
(***************************************************************************)
THEOREM VectorsStayExact == RPSpec => []VectorsExact
<1>1. RPInit => RankInv BY RankStart
<1>2. RankInv /\ [RPNext]_rpVars => RankInv' BY RankStep
<1>3. RankInv => VectorsExact BY RankMeansExact
<1> QED BY <1>1, <1>2, <1>3, PTL DEF RPSpec

(***************************************************************************)
(* The vectors of rank_pool.cpp implement the pool of sets that the event  *)
(* loop relies on: first fit hands out exactly the number of free ranks    *)
(* asked for, and swapping and popping slots removes exactly the free      *)
(* ranks named.                                                            *)
(***************************************************************************)
THEOREM VectorsImplementPool == RPSpec => ImplementsRankPool
<1>1. RPInit => RankInv /\ Abstract!PoolInit BY RankStart
<1>2. RankInv /\ [RPNext]_rpVars => RankInv' /\ [Abstract!PoolNext]_(Abstract!poolVars) BY RankStep
<1> QED BY <1>1, <1>2, PTL DEF RPSpec, ImplementsRankPool, Abstract!PoolSpec
=============================================================================
