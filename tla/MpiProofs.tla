------------------------------ MODULE MpiProofs -----------------------------
(***************************************************************************)
(* Proofs about what runs over MPI: HALO's replicated gather and LOGS'     *)
(* consolidation.                                                          *)
(***************************************************************************)
EXTENDS ReplicatedGather, Logger, FiniteSetTheorems, SequenceTheorems, NaturalsInduction,
        WellFoundedInduction, TLAPS

-----------------------------------------------------------------------------
(* Natural numbers *)

\* A set of naturals that is not empty has a least member.
LEMMA LeastNatural ==
    ASSUME NEW T \in SUBSET Nat, T # {}
    PROVE  \E x \in T : \A y \in T : x <= y
<1>1. \E x \in T : \A y \in T : ~(<<y, x>> \in OpToRel(<, Nat))
  BY NatLessThanWellFounded, WFMin
<1>2. \A x, y \in T : <<y, x>> \notin OpToRel(<, Nat) => x <= y
  BY DEF OpToRel
<1> QED BY <1>1, <1>2

\* Induction, as a property of the set of numbers that have it.
LEMMA SetInduction ==
    ASSUME NEW T, 0 \in T, \A n \in Nat : n \in T => n + 1 \in T
    PROVE  Nat \subseteq T
<1> DEFINE C == {n \in Nat : n \notin T}
<1>1. SUFFICES ASSUME C # {} PROVE FALSE OBVIOUS
<1>2. PICK m \in C : \A y \in C : m <= y BY <1>1, LeastNatural
<1>3. m # 0 BY <1>2
<1>4. m - 1 \in Nat /\ m - 1 \notin C BY <1>2, <1>3
<1>5. m - 1 + 1 \in T BY <1>4
<1> QED BY <1>2, <1>5

\* A product is monotonic in a factor that is not negative.
LEMMA Scaled ==
    ASSUME NEW x \in Int, NEW y \in Int, NEW z \in Nat, x <= y
    PROVE  x * z <= y * z
<1>1. (y - x) * z >= 0 OBVIOUS
<1>2. (y - x) * z = y * z - x * z OBVIOUS
<1> QED BY <1>1, <1>2

\* A sum regrouped, for goals whose context is not linear.
LEMMA Regrouped == \A u, v, w \in Int : u + (v + w) = w + (u + v)
OBVIOUS

\* Rows of n elements: a position names its row and column.
LEMMA RowColumn ==
    ASSUME NEW n \in Nat, n > 0, NEW a \in Nat, NEW b \in Nat, NEW x \in 0 .. n - 1, NEW y \in 0 .. n - 1,
           a * n + x = b * n + y
    PROVE  a = b /\ x = y
<1>1. ASSUME a < b PROVE FALSE
  <2>1. (a + 1) * n <= b * n BY <1>1, Scaled
  <2>2. (a + 1) * n = a * n + n OBVIOUS
  <2>3. a * n \in Int /\ b * n \in Int OBVIOUS
  <2> QED BY <2>1, <2>2, <2>3
<1>2. ASSUME b < a PROVE FALSE
  <2>1. (b + 1) * n <= a * n BY <1>2, Scaled
  <2>2. (b + 1) * n = b * n + n OBVIOUS
  <2>3. a * n \in Int /\ b * n \in Int OBVIOUS
  <2> QED BY <2>1, <2>2, <2>3
<1>3. a = b BY <1>1, <1>2
<1>4. a * n \in Int OBVIOUS
<1> QED BY <1>3, <1>4

\* Every position has a row and a column.
LEMMA RowColumnOf ==
    ASSUME NEW n \in Nat, n > 0, NEW i \in Nat
    PROVE  i \div n \in Nat /\ i % n \in 0 .. n - 1 /\ i = (i \div n) * n + (i % n)
OBVIOUS

\* Row and column are the quotient and the remainder.
LEMMA AtRowColumn ==
    ASSUME NEW n \in Nat, n > 0, NEW a \in Nat, NEW x \in 0 .. n - 1
    PROVE  (a * n + x) \div n = a /\ (a * n + x) % n = x
<1>1. PICK i \in Nat : i = a * n + x OBVIOUS
<1>2. i \div n \in Nat /\ i % n \in 0 .. n - 1 /\ i = (i \div n) * n + (i % n) BY RowColumnOf
<1>3. i \div n = a /\ i % n = x BY <1>1, <1>2, RowColumn
<1> QED BY <1>1, <1>3

-----------------------------------------------------------------------------
(* Displacements *)

\* The displacements of counts c: each band begins where the one before ends.
Displaced(d, c) ==
    d \in [GRanks -> Nat] /\ d[0] = 0 /\ \A k \in GRanks \ {0} : d[k] = d[k - 1] + c[k - 1]

\* What prefix_sum returns.
LEMMA PrefixSum ==
    ASSUME NEW c \in [GRanks -> Nat]
    PROVE  Displaced(prefix_sum(c), c)
<1> DEFINE Upto(f, m) == f \in [0 .. m -> Nat] /\ f[0] = 0 /\ \A k \in 1 .. m : f[k] = f[k - 1] + c[k - 1]
           T == {m \in Nat : m < GSize => \E f : Upto(f, m)}
<1>0. GSize \in Nat /\ GSize > 0 BY GatherConstants
<1>1. 0 \in T
  <2>1. Upto([k \in 0 .. 0 |-> 0], 0) OBVIOUS
  <2> QED BY <2>1
<1>2. ASSUME NEW m \in Nat, m \in T PROVE m + 1 \in T
  <2> SUFFICES ASSUME m + 1 < GSize PROVE \E f : Upto(f, m + 1)
    <3> HIDE DEF Upto
    <3> QED OBVIOUS
  <2>1. PICK f : Upto(f, m)
    <3> HIDE DEF Upto
    <3> QED BY <1>0, <1>2
  <2> DEFINE h == [k \in 0 .. m + 1 |-> IF k <= m THEN f[k] ELSE f[m] + c[m]]
  <2>2. m \in GRanks BY <1>0 DEF GRanks
  <2>3. f[m] + c[m] \in Nat BY <2>1, <2>2
  <2>4. h \in [0 .. m + 1 -> Nat] /\ h[0] = 0 BY <2>1, <2>3
  <2>5. ASSUME NEW k \in 1 .. m + 1 PROVE h[k] = h[k - 1] + c[k - 1]
    <3>1. CASE k <= m BY <2>1, <3>1
    <3>2. CASE k = m + 1 BY <3>2
    <3> QED BY <3>1, <3>2
  <2> HIDE DEF h
  <2>6. Upto(h, m + 1) BY <2>4, <2>5
  <2> QED BY <2>6
<1>3. Nat \subseteq T
  <2> HIDE DEF T
  <2> QED BY <1>1, <1>2, SetInduction
<1>4. PICK f : Upto(f, GSize - 1)
  <2>1. GSize - 1 \in Nat /\ GSize - 1 < GSize BY <1>0
  <2>2. GSize - 1 \in T BY <1>3, <2>1
  <2> HIDE DEF Upto
  <2> QED BY <2>1, <2>2
<1> DEFINE Eq(h) == h = [r \in GRanks |-> IF r = 0 THEN 0 ELSE h[r - 1] + c[r - 1]]
<1>5. Eq(f)
  <2>1. \A r \in GRanks : r # 0 => r \in 1 .. GSize - 1 BY <1>0 DEF GRanks
  <2>2. \A r \in GRanks : f[r] = IF r = 0 THEN 0 ELSE f[r - 1] + c[r - 1] BY <1>4, <2>1
  <2>3. f \in [GRanks -> Nat] BY <1>4 DEF GRanks
  <2> QED BY <2>2, <2>3
<1>6. PICK h : h = (CHOOSE x : Eq(x)) OBVIOUS
<1>7. Eq(h) BY <1>5, <1>6, Zenon
<1>8. prefix_sum(c) = h
  <2>1. DOMAIN c = GRanks OBVIOUS
  <2> QED BY <1>6, <2>1, Zenon DEF prefix_sum
<1>9. h = f
  <2> DEFINE S == {m \in Nat : m \in GRanks => h[m] = f[m]}
  <2>1. \A r \in GRanks : h[r] = IF r = 0 THEN 0 ELSE h[r - 1] + c[r - 1] BY <1>7, Zenon
  <2>2. \A r \in GRanks : f[r] = IF r = 0 THEN 0 ELSE f[r - 1] + c[r - 1] BY <1>5, Zenon
  <2>3. 0 \in S BY <2>1, <2>2
  <2>4. ASSUME NEW n \in Nat, n \in S PROVE n + 1 \in S
    <3>1. n + 1 \in GRanks => n \in GRanks /\ n + 1 # 0 /\ n + 1 - 1 = n BY <1>0 DEF GRanks
    <3> QED BY <2>1, <2>2, <2>4, <3>1
  <2>5. Nat \subseteq S
    <3> HIDE DEF S
    <3> QED BY <2>3, <2>4, SetInduction
  <2>6. \A r \in GRanks : r \in Nat /\ h[r] = f[r] BY <1>0, <2>5 DEF GRanks
  <2>7. f \in [GRanks -> Nat] BY <1>4 DEF GRanks
  <2>8. h = [r \in GRanks |-> h[r]] BY <1>7, Zenon
  <2> QED BY <2>6, <2>7, <2>8
<1>10. f \in [GRanks -> Nat] BY <1>4 DEF GRanks
<1>11. ASSUME NEW k \in GRanks \ {0} PROVE f[k] = f[k - 1] + c[k - 1]
  <2>1. k \in 1 .. GSize - 1 BY <1>0 DEF GRanks
  <2> QED BY <1>4, <2>1
<1> QED BY <1>4, <1>8, <1>9, <1>10, <1>11 DEF Displaced

\* The bands of two ranks do not meet.
LEMMA BandsOrdered ==
    ASSUME NEW c \in [GRanks -> Nat], NEW d, Displaced(d, c), NEW p \in GRanks, NEW q \in GRanks, p < q
    PROVE  d[p] + c[p] <= d[q]
<1> DEFINE T == {n \in Nat : n \in GRanks /\ p < n => d[p] + c[p] <= d[n]}
<1>0. GSize \in Nat /\ GSize > 0 /\ p \in Nat /\ q \in Nat BY GatherConstants DEF GRanks
<1>1. 0 \in T BY <1>0
<1>2. ASSUME NEW n \in Nat, n \in T PROVE n + 1 \in T
  <2> SUFFICES ASSUME n + 1 \in GRanks, p < n + 1 PROVE d[p] + c[p] <= d[n + 1] OBVIOUS
  <2>1. n \in GRanks /\ n + 1 \in GRanks \ {0} /\ n + 1 - 1 = n BY <1>0 DEF GRanks
  <2>2. d[n + 1] = d[n] + c[n] BY <2>1 DEF Displaced
  <2>3. d[n] \in Nat /\ c[n] \in Nat /\ d[p] \in Nat /\ c[p] \in Nat BY <2>1 DEF Displaced
  <2>4. CASE p = n BY <2>2, <2>3, <2>4
  <2>5. CASE p < n BY <1>2, <2>1, <2>2, <2>3, <2>5
  <2> QED BY <1>0, <2>4, <2>5
<1>3. Nat \subseteq T
  <2> HIDE DEF T
  <2> QED BY <1>1, <1>2, SetInduction
<1> QED BY <1>0, <1>3

\* No element belongs to the bands of two ranks.
Disjoint(d, c) ==
    \A p, q \in GRanks : \A i \in 0 .. c[p] - 1, j \in 0 .. c[q] - 1 : d[p] + i = d[q] + j => p = q /\ i = j

\* The bands that prefix_sum lays out are disjoint.
LEMMA BandsDisjoint ==
    ASSUME NEW c \in [GRanks -> Nat], NEW d, Displaced(d, c)
    PROVE  Disjoint(d, c)
<1> SUFFICES ASSUME NEW p \in GRanks, NEW q \in GRanks,
                    NEW i \in 0 .. c[p] - 1, NEW j \in 0 .. c[q] - 1, d[p] + i = d[q] + j
             PROVE  p = q /\ i = j
  BY DEF Disjoint
<1>0. GSize \in Nat /\ p \in Int /\ q \in Int BY GatherConstants DEF GRanks
<1>1. d[p] \in Nat /\ d[q] \in Nat /\ c[p] \in Nat /\ c[q] \in Nat BY DEF Displaced
<1>2. p < q => d[p] + c[p] <= d[q] BY BandsOrdered
<1>3. q < p => d[q] + c[q] <= d[p] BY BandsOrdered
<1> QED BY <1>0, <1>1, <1>2, <1>3

\* They lie within a level.
LEMMA BandsWithin ==
    ASSUME NEW c \in [GRanks -> Nat]
    PROVE  /\ per_level_total(c) \in Nat
           /\ \A q \in GRanks : prefix_sum(c)[q] \in Nat /\ prefix_sum(c)[q] + c[q] <= per_level_total(c)
<1>0. GSize \in Nat /\ GSize > 0 BY GatherConstants
<1>1. PICK d : d = prefix_sum(c) OBVIOUS
<1>2. Displaced(d, c) BY <1>1, PrefixSum
<1>3. GSize - 1 \in GRanks BY <1>0 DEF GRanks
<1>4. per_level_total(c) = d[GSize - 1] + c[GSize - 1] BY <1>1 DEF per_level_total
<1>5. ASSUME NEW q \in GRanks PROVE d[q] + c[q] <= d[GSize - 1] + c[GSize - 1]
  <2>1. d[q] \in Nat /\ c[q] \in Nat /\ d[GSize - 1] \in Nat /\ c[GSize - 1] \in Nat BY <1>2, <1>3 DEF Displaced
  <2>2. q = GSize - 1 \/ q < GSize - 1 BY <1>0 DEF GRanks
  <2>3. q < GSize - 1 => d[q] + c[q] <= d[GSize - 1] BY <1>2, <1>3, BandsOrdered
  <2> QED BY <2>1, <2>2, <2>3
<1>6. \A q \in GRanks : d[q] \in Nat BY <1>2 DEF Displaced
<1> QED BY <1>1, <1>3, <1>4, <1>5, <1>6

-----------------------------------------------------------------------------
(* One gather *)

\* Every rank's elements of gather n are where its band is, on every level.
PlacedIn(dest, band, levels, n) ==
    \A q \in GRanks : \A l \in 0 .. levels - 1 : \A j \in 0 .. band[q] - 1 :
        dest[l * per_level_total(band) + prefix_sum(band)[q] + j] = <<q, l, j, n>>

\* The elements of a destination.
Window(band, levels) == 0 .. levels * per_level_total(band) - 1

\* What a datatype of columns covers.
LEMMA ColumnAt ==
    ASSUME NEW stride \in Nat, NEW n \in Nat, glevels \in Nat, glevels > 0,
           NEW i \in 1 .. n * glevels
    PROVE  /\ (i - 1) \div glevels \in 0 .. n - 1 /\ (i - 1) % glevels \in 0 .. glevels - 1
           /\ i = ((i - 1) \div glevels) * glevels + ((i - 1) % glevels) + 1
           /\ make_resized_column(stride, n)[i] = ((i - 1) \div glevels) + ((i - 1) % glevels) * stride
           /\ Len(make_resized_column(stride, n)) = n * glevels
<1>1. n * glevels \in Nat /\ i - 1 \in Nat OBVIOUS
<1>2. PICK k \in Nat : k = i - 1 BY <1>1
<1>3. PICK a \in Nat, x \in 0 .. glevels - 1 : a = k \div glevels /\ x = k % glevels /\ k = a * glevels + x
  BY <1>2, RowColumnOf
<1>4. a < n
  <2>1. SUFFICES ASSUME n <= a PROVE FALSE BY <1>3
  <2>2. n * glevels <= a * glevels BY <2>1, Scaled
  <2>3. a * glevels \in Int BY <1>3
  <2> QED BY <1>1, <1>2, <1>3, <2>2, <2>3
<1>5. make_resized_column(stride, n)[i] = ((i - 1) \div glevels) + ((i - 1) % glevels) * stride
  BY <1>1 DEF make_resized_column
<1>6. Len(make_resized_column(stride, n)) = n * glevels BY <1>1 DEF make_resized_column
<1>7. a \in 0 .. n - 1 /\ i = a * glevels + x + 1
  <2>1. a * glevels \in Int BY <1>3
  <2> QED BY <1>1, <1>2, <1>3, <1>4, <2>1
<1> QED BY <1>2, <1>3, <1>5, <1>6, <1>7

\* The place that a rank's receive datatype gives an element of its band.
LEMMA ColumnPlace ==
    ASSUME NEW n \in Nat, glevels \in Nat, glevels > 0, NEW j \in 0 .. n - 1, NEW l \in 0 .. glevels - 1
    PROVE  /\ j * glevels + l + 1 \in 1 .. n * glevels
           /\ (j * glevels + l + 1 - 1) \div glevels = j /\ (j * glevels + l + 1 - 1) % glevels = l
<1>1. (j + 1) * glevels <= n * glevels BY Scaled
<1>2. (j + 1) * glevels = j * glevels + glevels OBVIOUS
<1>3. j * glevels \in Nat /\ n * glevels \in Nat OBVIOUS
<1>4. (j * glevels + l) \div glevels = j /\ (j * glevels + l) % glevels = l BY AtRowColumn
<1>5. j * glevels + l + 1 - 1 = j * glevels + l BY <1>3
<1> QED BY <1>1, <1>2, <1>3, <1>4, <1>5

\* One MPI_Allgatherv with the plan's datatypes places every element.
LEMMA GatherPlaces ==
    ASSUME NEW r \in GRanks, NEW buf, gcounts[r] = gband, gband \in [GRanks -> Nat],
           glevels \in Nat, glevels > 0, DOMAIN buf = Window(gband, glevels)
    PROVE  /\ DOMAIN Gathered(r, buf) = Window(gband, glevels)
           /\ PlacedIn(Gathered(r, buf), gband, glevels, ground[r] + 1)
<1> DEFINE n == ground[r] + 1
           Hits(o) == {x \in GRanks \X (1 .. Cardinality(DOMAIN buf)) :
                        /\ x[2] <= Len(send_type(x[1]))
                        /\ prefix_sum(gband)[x[1]] + recv_type(gband, x[1])[x[2]] = o}
           Value(o) == IF Hits(o) = {} THEN buf[o]
                       ELSE LET x == CHOOSE y \in Hits(o) : TRUE IN Source(x[1], n)[send_type(x[1])[x[2]]]
<1>1. Gathered(r, buf) = [o \in DOMAIN buf |-> Value(o)] BY DEF Gathered
<1>2. PICK T, D : T = per_level_total(gband) /\ D = prefix_sum(gband) OBVIOUS
<1>3. T \in Nat /\ Displaced(D, gband) /\ \A q \in GRanks : D[q] \in Nat /\ D[q] + gband[q] <= T
  BY <1>2, BandsWithin, PrefixSum
<1>4. glevels * T \in Nat BY <1>3
<1>5. Cardinality(DOMAIN buf) = glevels * T
  <2>1. DOMAIN buf = 0 .. glevels * T - 1 BY <1>2 DEF Window
  <2>2. PICK e \in Int : e = glevels * T - 1 BY <1>4
  <2>3. Cardinality(0 .. e) = IF 0 > e THEN 0 ELSE e - 0 + 1 BY FS_Interval
  <2> QED BY <1>4, <2>1, <2>2, <2>3
<1>6. ASSUME NEW q \in GRanks, NEW l \in 0 .. glevels - 1, NEW j \in 0 .. gband[q] - 1
      PROVE  /\ l * T + D[q] + j \in DOMAIN buf
             /\ Value(l * T + D[q] + j) = <<q, l, j, n>>
  <2>1. PICK c \in Nat : c = gband[q] OBVIOUS
  <2>2. c > 0 /\ j \in 0 .. c - 1 /\ D[q] \in Nat /\ D[q] + c <= T BY <1>3, <2>1
  <2>3. PICK x \in 0 .. T - 1 : x = D[q] + j BY <1>3, <2>2
  <2>4. PICK o : o = l * T + D[q] + j OBVIOUS
  <2>5. o = l * T + x BY <1>3, <2>2, <2>3, <2>4
  <2>6. o \in DOMAIN buf
    <3>0. l + 1 \in Int /\ glevels \in Int /\ T \in Nat /\ l + 1 <= glevels BY <1>3
    <3>1. (l + 1) * T <= glevels * T BY <3>0, Scaled, Zenon
    <3>2. (l + 1) * T = l * T + T BY <1>3
    <3>3. l * T \in Nat BY <1>3
    <3>4. PICK lT \in Nat, gT \in Nat : lT = l * T /\ gT = glevels * T BY <1>4, <3>3
    <3>5. lT + T <= gT BY <3>1, <3>2, <3>4
    <3>6. o = lT + x BY <2>5, <3>4
    <3>7. o \in 0 .. gT - 1 BY <1>3, <2>3, <3>5, <3>6
    <3> QED BY <1>2, <3>4, <3>7 DEF Window
  <2>7. ASSUME NEW p \in GRanks, NEW i \in 1 .. gband[p] * glevels
        PROVE  recv_type(gband, p)[i] = ((i - 1) \div glevels) + ((i - 1) % glevels) * T
    <3>1. gband[p] \in Nat OBVIOUS
    <3> QED BY <1>2, <1>3, <2>7, <3>1, ColumnAt DEF recv_type
  <2>8. ASSUME NEW p \in GRanks, NEW i \in Nat
        PROVE  i <= Len(send_type(p)) <=> i <= gband[p] * glevels
    <3>1. gband[p] \in Nat /\ gband[p] * glevels \in Nat OBVIOUS
    <3>2. Len(send_type(p)) = gband[p] * glevels BY <3>1 DEF send_type, make_resized_column
    <3> QED BY <3>2
  <2>9. PICK i \in 1 .. c * glevels : i = j * glevels + l + 1 /\ (i - 1) \div glevels = j /\ (i - 1) % glevels = l
    <3>1. PICK k : k = j * glevels + l + 1 OBVIOUS
    <3>2. k \in 1 .. c * glevels /\ (k - 1) \div glevels = j /\ (k - 1) % glevels = l
      BY <2>2, <3>1, ColumnPlace
    <3> QED BY <3>1, <3>2
  <2>10. <<q, i>> \in Hits(o)
    <3>1. c * glevels <= T * glevels /\ T * glevels = glevels * T BY <1>3, <2>2, Scaled
    <3>2. i \in 1 .. glevels * T BY <1>4, <3>1
    <3>3. i <= Len(send_type(q)) BY <2>1, <2>8
    <3>4. recv_type(gband, q)[i] = j + l * T BY <2>1, <2>7, <2>9
    <3>5. prefix_sum(gband)[q] + recv_type(gband, q)[i] = o
      <4>1. l * T \in Nat BY <1>3
      <4> QED BY <1>2, <2>2, <2>4, <3>4, <4>1
    <3> QED BY <1>5, <3>2, <3>3, <3>5
  <2>11. ASSUME NEW y \in Hits(o) PROVE y = <<q, i>>
    <3>1. PICK p \in GRanks, k \in 1 .. glevels * T : y = <<p, k>> BY <1>5
    <3>2. k <= Len(send_type(p)) /\ prefix_sum(gband)[p] + recv_type(gband, p)[k] = o
      BY <3>1
    <3>3. k \in 1 .. gband[p] * glevels
      <4>1. k \in Nat /\ k >= 1 /\ gband[p] * glevels \in Nat BY <1>4
      <4> QED BY <2>8, <3>2, <4>1
    <3>4. PICK a \in 0 .. gband[p] - 1, b \in 0 .. glevels - 1 :
             a = (k - 1) \div glevels /\ b = (k - 1) % glevels /\ k = a * glevels + b + 1
      <4>1. PICK m \in Nat : m = gband[p] OBVIOUS
      <4>2. k \in 1 .. m * glevels BY <3>3, <4>1
      <4>3. /\ (k - 1) \div glevels \in 0 .. m - 1 /\ (k - 1) % glevels \in 0 .. glevels - 1
            /\ k = ((k - 1) \div glevels) * glevels + ((k - 1) % glevels) + 1
        BY <4>2, ColumnAt, 0 \in Nat
      <4> QED BY <4>1, <4>3
    <3>5. recv_type(gband, p)[k] = a + b * T BY <2>7, <3>3, <3>4
    <3>6. D[p] + a \in 0 .. T - 1
      <4>1. D[p] \in Nat /\ gband[p] \in Nat /\ D[p] + gband[p] <= T BY <1>3
      <4>2. PICK dp \in Nat, m \in Nat : dp = D[p] /\ m = gband[p] BY <4>1
      <4>3. a \in 0 .. m - 1 /\ dp + m <= T BY <3>4, <4>1, <4>2
      <4>4. dp + a \in 0 .. T - 1 BY <1>3, <4>3
      <4> QED BY <4>2, <4>4
    <3>7. b * T + (D[p] + a) = l * T + x
      <4>0. D[p] \in Nat BY <1>3
      <4>1. PICK bT \in Int, dp \in Int : bT = b * T /\ dp = D[p] BY <1>3, <3>4, <4>0
      <4>2. dp + (a + bT) = o BY <1>2, <3>2, <3>5, <4>1
      <4>5. a \in Int BY <3>4
      <4>7. dp + (a + bT) = bT + (dp + a) BY <4>1, <4>5, Regrouped, Zenon
      <4>3. bT + (dp + a) = o BY <4>2, <4>7, Zenon
      <4> QED BY <2>5, <4>1, <4>3
    <3>8. b = l /\ D[p] + a = x
      <4>1. T > 0 BY <1>3, <2>3
      <4>2. b \in Nat /\ l \in Nat OBVIOUS
      <4>3. PICK z \in 0 .. T - 1 : z = D[p] + a BY <3>6
      <4>4. b * T + z = l * T + x BY <3>7, <4>3
      <4>5. T \in Nat /\ x \in 0 .. T - 1 BY <1>3
      <4>6. (b * T + z) \div T = b /\ (b * T + z) % T = z BY <4>1, <4>2, <4>3, <4>5, AtRowColumn
      <4>7. (l * T + x) \div T = l /\ (l * T + x) % T = x BY <4>1, <4>2, <4>5, AtRowColumn
      <4>8. b = l /\ z = x BY <4>4, <4>6, <4>7
      <4> QED BY <4>3, <4>8
    <3>9. p = q /\ a = j
      <4>1. D[p] + a = D[q] + j BY <2>3, <3>8
      <4>2. j \in 0 .. gband[q] - 1 BY <2>1, <2>2
      <4>3. a \in 0 .. gband[p] - 1 BY <3>4
      <4>4. Disjoint(D, gband) BY <1>3, BandsDisjoint
      <4> QED BY <4>1, <4>2, <4>3, <4>4 DEF Disjoint
    <3> QED BY <2>9, <3>1, <3>4, <3>8, <3>9
  <2>12. (CHOOSE y \in Hits(o) : TRUE) = <<q, i>>
    <3> HIDE DEF Hits
    <3> QED BY <2>10, <2>11
  <2>13. Value(o) = Source(q, n)[send_type(q)[i]]
    <3>1. Hits(o) # {} BY <2>10
    <3> HIDE DEF Hits
    <3>2. Value(o) = LET y == CHOOSE y \in Hits(o) : TRUE IN Source(y[1], n)[send_type(y[1])[y[2]]] BY <3>1
    <3>3. PICK y : y = CHOOSE z \in Hits(o) : TRUE OBVIOUS
    <3>4. Value(o) = Source(y[1], n)[send_type(y[1])[y[2]]] BY <3>2, <3>3, Zenon
    <3>5. y = <<q, i>> BY <2>12, <3>3, Zenon
    <3>6. y[1] = q /\ y[2] = i BY <3>5
    <3> QED BY <3>4, <3>6, Zenon
  <2>14. send_type(q)[i] = l * c + j
    <3>1. send_type(q) = make_resized_column(c, c) BY <2>1, <2>2 DEF send_type
    <3>2. make_resized_column(c, c)[i] = ((i - 1) \div glevels) + ((i - 1) % glevels) * c BY ColumnAt
    <3>4. make_resized_column(c, c)[i] = j + l * c BY <2>9, <3>2
    <3>3. PICK lc \in Int : lc = l * c OBVIOUS
    <3> QED BY <3>1, <3>3, <3>4
  <2>15. (l * c + j) \div c = l /\ (l * c + j) % c = j
    <3>1. c \in Nat /\ c > 0 /\ l \in Nat /\ j \in 0 .. c - 1 BY <2>1, <2>2
    <3> QED BY <3>1, AtRowColumn, Zenon
  <2>16. l * c + j \in 0 .. glevels * c - 1
    <3>1. (l + 1) * c <= glevels * c BY Scaled
    <3>2. (l + 1) * c = l * c + c OBVIOUS
    <3>3. l * c \in Nat /\ glevels * c \in Nat OBVIOUS
    <3> QED BY <2>2, <3>1, <3>2, <3>3
  <2>17. Source(q, n)[l * c + j] = <<q, l, j, n>> BY <2>1, <2>15, <2>16 DEF Source
  <2> HIDE DEF Value, n
  <2> QED BY <2>4, <2>6, <2>13, <2>14, <2>17
<1>7. DOMAIN Gathered(r, buf) = Window(gband, glevels) BY <1>1
<1>8. ASSUME NEW q \in GRanks, NEW l \in 0 .. glevels - 1, NEW j \in 0 .. gband[q] - 1
      PROVE  Gathered(r, buf)[l * per_level_total(gband) + prefix_sum(gband)[q] + j] = <<q, l, j, n>>
  <2> HIDE DEF Value, n
  <2>1. PICK o : o = l * T + D[q] + j OBVIOUS
  <2>2. o \in DOMAIN buf /\ Value(o) = <<q, l, j, n>> BY <1>6, <2>1
  <2>3. o = l * per_level_total(gband) + prefix_sum(gband)[q] + j BY <1>2, <2>1
  <2> QED BY <1>1, <2>2, <2>3
<1> QED BY <1>7, <1>8 DEF PlacedIn

-----------------------------------------------------------------------------
(* Every step *)

Places == {"plan", "refused", "allgather", "idle", "ready", "in_ready", "gather", "status", "in_status",
           "threw", "aborted"}

\* A rank that has built its plan and is not stopped.
Planned(pc) == pc \in {"idle", "ready", "in_ready", "gather", "status", "in_status"}

\* The types that the argument needs.
GTypes ==
    /\ gband \in [GRanks -> Int] /\ glevels \in Int
    /\ gpc \in [GRanks -> Places]
    /\ gentered \in [GRanks -> Nat] /\ ground \in [GRanks -> Nat]
    /\ DOMAIN gcounts = GRanks /\ DOMAIN gmirror = GRanks /\ DOMAIN gdest = GRanks

\* A rank enters a collective only with arguments that its plan accepts.
Admitted(r) ==
    /\ gentered[r] > 0 => glevels # 0 /\ gband[r] >= 0
    /\ gpc[r] = "allgather" => gentered[r] > 0

\* A plan holds the band counts of all ranks, and sizes the buffers.
PlanExact(r) ==
    Planned(gpc[r]) =>
        /\ glevels > 0 /\ gband \in [GRanks -> Nat] /\ gcounts[r] = gband
        /\ DOMAIN gdest[r] = Window(gband, glevels)
        /\ gpc[r] = "gather" /\ gstaged => DOMAIN gmirror[r] = Window(gband, glevels)

\* What a rank has received is placed, until it is handed out.
Delivered(r) ==
    /\ gpc[r] \in {"plan", "allgather"} => ground[r] = 0
    /\ gpc[r] \in {"status", "in_status"} => PlacedIn(gdest[r], gband, glevels, ground[r] + 1)
    /\ gpc[r] = "idle" /\ ground[r] > 0 => PlacedIn(gdest[r], gband, glevels, ground[r])

GatherExact == GTypes /\ \A r \in GRanks : Admitted(r) /\ PlanExact(r) /\ Delivered(r)

\* What a step of rank r leaves to the others, unless it aborts the job.
Undisturbed(r) ==
    \A q \in GRanks \ {r} :
        /\ gpc'[q] = gpc[q] \/ gpc'[q] = "aborted"
        /\ gentered'[q] = gentered[q] /\ ground'[q] = ground[q]
        /\ gcounts'[q] = gcounts[q] /\ gmirror'[q] = gmirror[q] /\ gdest'[q] = gdest[q]

\* A step of one rank keeps what holds of the others.
LEMMA OtherRanks ==
    ASSUME GatherExact, NEW r \in GRanks, gchosen' = gchosen,
           Undisturbed(r),
           GTypes', Admitted(r)', PlanExact(r)', Delivered(r)'
    PROVE  GatherExact'
<1>1. ASSUME NEW q \in GRanks, q # r PROVE Admitted(q)' /\ PlanExact(q)' /\ Delivered(q)'
  <2>1. gband' = gband /\ glevels' = glevels /\ gstaged' = gstaged BY DEF gchosen
  <2>2. /\ gpc'[q] = gpc[q] \/ gpc'[q] = "aborted"
        /\ gentered'[q] = gentered[q] /\ ground'[q] = ground[q]
        /\ gcounts'[q] = gcounts[q] /\ gmirror'[q] = gmirror[q] /\ gdest'[q] = gdest[q]
    BY <1>1 DEF Undisturbed
  <2>3. Admitted(q) /\ PlanExact(q) /\ Delivered(q) BY DEF GatherExact
  <2>4. Admitted(q)' BY <2>1, <2>2, <2>3 DEF Admitted
  <2>5. PlanExact(q)' BY <2>1, <2>2, <2>3 DEF PlanExact, Planned
  <2>6. Delivered(q)' BY <2>1, <2>2, <2>3 DEF Delivered
  <2> QED BY <2>4, <2>5, <2>6
<1> QED BY <1>1 DEF GatherExact

\* The inductive invariant holds at first.
LEMMA GatherStart == GInit => GatherExact
<1> SUFFICES ASSUME GInit PROVE GatherExact OBVIOUS
<1>1. gband \in [GRanks -> Int] /\ glevels \in Int BY GatherConstants DEF GInit
<1>2. GTypes BY <1>1 DEF GInit, GTypes, Places
<1>3. \A r \in GRanks : Admitted(r) /\ PlanExact(r) /\ Delivered(r)
  BY DEF GInit, Admitted, PlanExact, Planned, Delivered
<1> QED BY <1>2, <1>3 DEF GatherExact

\* Every step of every rank keeps it.
LEMMA GatherStep == GatherExact /\ [GNext]_gvars => GatherExact'
<1> SUFFICES ASSUME GatherExact, [GNext]_gvars PROVE GatherExact' OBVIOUS
<1>0. GTypes /\ \A r \in GRanks : Admitted(r) /\ PlanExact(r) /\ Delivered(r) BY DEF GatherExact
<1>1. CASE UNCHANGED gvars
  <2>1. GTypes' BY <1>0, <1>1 DEF GTypes, gvars
  <2>2. ASSUME NEW r \in GRanks PROVE Admitted(r)' /\ PlanExact(r)' /\ Delivered(r)'
    BY <1>0, <1>1 DEF gvars, Admitted, PlanExact, Delivered
  <2> QED BY <2>1, <2>2 DEF GatherExact
<1>2. ASSUME NEW r \in GRanks, PlanRefused(r) PROVE GatherExact'
  <2>1. GTypes' BY <1>0, <1>2 DEF GTypes, PlanRefused, Goto, gchosen, Places
  <2>2. Admitted(r)' /\ PlanExact(r)' /\ Delivered(r)'
    BY <1>0, <1>2 DEF GTypes, PlanRefused, Goto, gchosen, Admitted, PlanExact, Planned, Delivered
  <2>3. gchosen' = gchosen BY <1>2 DEF PlanRefused
  <2>4. Undisturbed(r)
    BY <1>0, <1>2 DEF Undisturbed, GTypes, PlanRefused, Goto
  <2> QED BY <2>1, <2>2, <2>3, <2>4, OtherRanks
<1>3. ASSUME NEW r \in GRanks, allgather(r) PROVE GatherExact'
  <2>1. GTypes' BY <1>0, <1>3 DEF GTypes, allgather, Goto, Enter, gchosen, Places
  <2>2. Admitted(r)' /\ PlanExact(r)' /\ Delivered(r)'
    BY <1>0, <1>3 DEF GTypes, allgather, Goto, Enter, gchosen, Admitted, PlanExact, Planned, Delivered
  <2>3. gchosen' = gchosen BY <1>3 DEF allgather
  <2>4. Undisturbed(r)
    BY <1>0, <1>3 DEF Undisturbed, GTypes, allgather, Goto, Enter
  <2> QED BY <2>1, <2>2, <2>3, <2>4, OtherRanks
<1>4. ASSUME NEW r \in GRanks, PlanBuilt(r) PROVE GatherExact'
  <2>3. gchosen' = gchosen BY <1>4 DEF PlanBuilt
  <2>4. Undisturbed(r)
    BY <1>0, <1>4 DEF Undisturbed, GTypes, PlanBuilt, Goto, handle_mpi_error
  <2>5. gband' = gband /\ glevels' = glevels /\ gstaged' = gstaged BY <2>3 DEF gchosen
  <2>1. GTypes' BY <1>0, <1>4, <2>5 DEF GTypes, PlanBuilt, Goto, handle_mpi_error, Places
  <2>6. gentered'[r] = gentered[r] /\ ground'[r] = ground[r] BY <1>4 DEF PlanBuilt
  <2>2. Admitted(r)' /\ PlanExact(r)' /\ Delivered(r)'
    <3>1. CASE glevels < 0
      <4>1. gpc'[r] \in {"threw", "aborted"} BY <1>0, <1>4, <3>1 DEF GTypes, PlanBuilt, Goto, handle_mpi_error
      <4> QED BY <1>0, <2>5, <2>6, <4>1 DEF Admitted, PlanExact, Planned, Delivered
    <3>2. CASE ~(glevels < 0)
      <4>1. /\ gpc'[r] = "idle" /\ gcounts'[r] = gband /\ gdest'[r] = Blank(gband) /\ gpc[r] = "allgather"
            /\ AllEntered(r)
        BY <1>0, <1>4, <3>2 DEF GTypes, PlanBuilt, Goto
      <4>2. gband \in [GRanks -> Nat] /\ glevels > 0
        <5>1. gentered[r] > 0 BY <1>0, <4>1 DEF Admitted
        <5>2. \A q \in GRanks : gentered[q] > 0 BY <1>0, <4>1, <5>1 DEF AllEntered, GTypes
        <5>3. \A q \in GRanks : gband[q] >= 0 BY <1>0, <5>2 DEF Admitted
        <5>4. glevels # 0 BY <1>0, <5>1 DEF Admitted
        <5> QED BY <1>0, <3>2, <5>3, <5>4 DEF GTypes
      <4>3. DOMAIN Blank(gband) = Window(gband, glevels) BY DEF Blank, Window
      <4>4. ground[r] = 0 BY <1>0, <4>1 DEF Delivered
      <4> QED BY <1>0, <2>5, <2>6, <4>1, <4>2, <4>3, <4>4 DEF Admitted, PlanExact, Planned, Delivered, Window
    <3> QED BY <3>1, <3>2
  <2> QED BY <2>1, <2>2, <2>3, <2>4, OtherRanks
<1>5. ASSUME NEW r \in GRanks, gather_replicated(r) PROVE GatherExact'
  <2>1. GTypes' BY <1>0, <1>5 DEF GTypes, gather_replicated, Goto, gchosen, Places
  <2>2. Admitted(r)' /\ PlanExact(r)' /\ Delivered(r)'
    BY <1>0, <1>5 DEF GTypes, gather_replicated, Goto, gchosen, Admitted, PlanExact, Planned, Delivered
  <2>3. gchosen' = gchosen BY <1>5 DEF gather_replicated
  <2>4. Undisturbed(r) BY <1>0, <1>5 DEF Undisturbed, GTypes, gather_replicated, Goto
  <2> QED BY <2>1, <2>2, <2>3, <2>4, OtherRanks
<1>6. ASSUME NEW r \in GRanks, allreduce(r, "ready", "in_ready") \/ allreduce(r, "status", "in_status")
      PROVE  GatherExact'
  <2>1. GTypes' BY <1>0, <1>6 DEF GTypes, allreduce, Goto, Enter, gchosen, Places
  <2>3. gchosen' = gchosen BY <1>6 DEF allreduce
  <2>4. Undisturbed(r) BY <1>0, <1>6 DEF Undisturbed, GTypes, allreduce, Goto, Enter
  <2>5. /\ gband' = gband /\ glevels' = glevels /\ gstaged' = gstaged /\ gcounts' = gcounts
        /\ gdest' = gdest /\ gmirror' = gmirror /\ ground' = ground
        /\ gentered[r] \in Nat /\ gentered'[r] = gentered[r] + 1
    BY <1>0, <1>6 DEF GTypes, allreduce, Enter, gchosen
  <2>6. (gpc[r] = "ready" /\ gpc'[r] = "in_ready") \/ (gpc[r] = "status" /\ gpc'[r] = "in_status")
    BY <1>0, <1>6 DEF GTypes, allreduce, Goto
  <2>2. Admitted(r)' /\ PlanExact(r)' /\ Delivered(r)'
    <3>1. glevels > 0 /\ gband \in [GRanks -> Nat] BY <1>0, <2>6 DEF PlanExact, Planned
    <3>2. gband[r] >= 0 /\ glevels # 0 BY <1>0, <3>1 DEF GTypes
    <3> QED BY <1>0, <2>5, <2>6, <3>2 DEF Admitted, PlanExact, Planned, Delivered
  <2> QED BY <2>1, <2>2, <2>3, <2>4, OtherRanks
<1>7. ASSUME NEW r \in GRanks, prepare(r) PROVE GatherExact'
  <2>1. GTypes' BY <1>0, <1>7 DEF GTypes, prepare, Goto, Enter, gchosen, Places
  <2>3. gchosen' = gchosen BY <1>7 DEF prepare
  <2>4. Undisturbed(r) BY <1>0, <1>7 DEF Undisturbed, GTypes, prepare, Goto, Enter
  <2>5. /\ gband' = gband /\ glevels' = glevels /\ gstaged' = gstaged /\ gcounts' = gcounts
        /\ gdest' = gdest /\ ground' = ground /\ gentered[r] \in Nat /\ gentered'[r] = gentered[r] + 1
        /\ gpc[r] = "in_ready" /\ gpc'[r] = "gather"
        /\ gstaged => gmirror'[r] = Blank(gcounts[r])
    BY <1>0, <1>7 DEF GTypes, prepare, Goto, Enter, gchosen
  <2>2. Admitted(r)' /\ PlanExact(r)' /\ Delivered(r)'
    <3>1. glevels > 0 /\ gband \in [GRanks -> Nat] /\ gcounts[r] = gband BY <1>0, <2>5 DEF PlanExact, Planned
    <3>2. gband[r] >= 0 /\ glevels # 0 BY <1>0, <3>1 DEF GTypes
    <3>3. gstaged => DOMAIN gmirror'[r] = Window(gband, glevels) BY <2>5, <3>1 DEF Blank, Window
    <3> QED BY <1>0, <2>5, <3>1, <3>2, <3>3 DEF Admitted, PlanExact, Planned, Delivered
  <2> QED BY <2>1, <2>2, <2>3, <2>4, OtherRanks
<1>8. ASSUME NEW r \in GRanks, Allgatherv(r) PROVE GatherExact'
  <2>1. GTypes' BY <1>0, <1>8 DEF GTypes, Allgatherv, finalize, Goto, gchosen, Places
  <2>3. gchosen' = gchosen BY <1>8 DEF Allgatherv
  <2>4. Undisturbed(r) BY <1>0, <1>8 DEF Undisturbed, GTypes, Allgatherv, finalize, Goto
  <2>5. PICK buf : buf = IF gstaged THEN gmirror[r] ELSE gdest[r] OBVIOUS
  <2>6. /\ gband' = gband /\ glevels' = glevels /\ gstaged' = gstaged /\ gcounts' = gcounts
        /\ ground' = ground /\ gentered' = gentered /\ gpc[r] = "gather" /\ gpc'[r] = "status"
        /\ gdest'[r] = Gathered(r, buf)
    BY <1>0, <1>8, <2>5 DEF GTypes, Allgatherv, finalize, Goto, gchosen
  <2>7. /\ glevels > 0 /\ glevels \in Nat /\ gband \in [GRanks -> Nat] /\ gcounts[r] = gband
        /\ DOMAIN buf = Window(gband, glevels)
    BY <1>0, <2>5, <2>6 DEF PlanExact, Planned, GTypes
  <2>8. /\ DOMAIN gdest'[r] = Window(gband, glevels)
        /\ PlacedIn(gdest'[r], gband, glevels, ground[r] + 1)
    BY <2>6, <2>7, GatherPlaces
  <2>2. Admitted(r)' /\ PlanExact(r)' /\ Delivered(r)'
    BY <1>0, <2>6, <2>7, <2>8 DEF Admitted, PlanExact, Planned, Delivered
  <2> QED BY <2>1, <2>2, <2>3, <2>4, OtherRanks
<1>9. ASSUME NEW r \in GRanks, AllgathervFails(r) PROVE GatherExact'
  <2>1. GTypes' BY <1>0, <1>9 DEF GTypes, AllgathervFails, handle_mpi_error, Goto, gchosen, Places
  <2>3. gchosen' = gchosen BY <1>9 DEF AllgathervFails
  <2>4. Undisturbed(r) BY <1>0, <1>9 DEF Undisturbed, GTypes, AllgathervFails, handle_mpi_error, Goto
  <2>5. /\ gpc'[r] \in {"threw", "aborted"} /\ gentered' = gentered /\ gband' = gband /\ glevels' = glevels
    BY <1>0, <1>9 DEF GTypes, AllgathervFails, handle_mpi_error, Goto, gchosen
  <2>2. Admitted(r)' /\ PlanExact(r)' /\ Delivered(r)'
    BY <1>0, <2>5 DEF Admitted, PlanExact, Planned, Delivered
  <2> QED BY <2>1, <2>2, <2>3, <2>4, OtherRanks
<1>10. ASSUME NEW r \in GRanks, GReturn(r) PROVE GatherExact'
  <2>1. GTypes' BY <1>0, <1>10 DEF GTypes, GReturn, Goto, gchosen, Places
  <2>3. gchosen' = gchosen BY <1>10 DEF GReturn
  <2>4. Undisturbed(r) BY <1>0, <1>10 DEF Undisturbed, GTypes, GReturn, Goto
  <2>5. /\ gband' = gband /\ glevels' = glevels /\ gstaged' = gstaged /\ gcounts' = gcounts
        /\ gdest' = gdest /\ gmirror' = gmirror /\ gentered' = gentered
        /\ ground[r] \in Nat /\ ground'[r] = ground[r] + 1
        /\ gpc[r] = "in_status" /\ gpc'[r] = "idle"
    BY <1>0, <1>10 DEF GTypes, GReturn, Goto, gchosen
  <2>2. Admitted(r)' /\ PlanExact(r)' /\ Delivered(r)'
    BY <1>0, <2>5 DEF Admitted, PlanExact, Planned, Delivered
  <2> QED BY <2>1, <2>2, <2>3, <2>4, OtherRanks
<1> QED BY <1>1, <1>2, <1>3, <1>4, <1>5, <1>6, <1>7, <1>8, <1>9, <1>10 DEF GNext, GStep

(***************************************************************************)
(* The replicated gather (halo/gather_replicated.hpp): for any number of   *)
(* ranks, any band of each, any number of levels and of gathers, with or   *)
(* without staging, a destination that gather_replicated returns holds at  *)
(* [level][displacement + j] element j of that level of the rank it came   *)
(* from, of this gather.                                                   *)
(***************************************************************************)
THEOREM GathersStayPlaced == GSpec => []GatherPlaced
<1>1. GatherExact => GatherPlaced BY DEF GatherExact, Delivered, PlacedIn, GatherPlaced
<1> QED BY <1>1, GatherStart, GatherStep, PTL DEF GSpec

-----------------------------------------------------------------------------
(* LOGS: ranks in ascending order *)

\* An ascending enumeration.
Increasing(s, n) == \A i, j \in 1 .. n : i < j => s[i] < s[j]

\* A finite set of naturals can be enumerated in ascending order.
LEMMA AscendingExists ==
    ASSUME NEW S \in SUBSET Nat, IsFiniteSet(S)
    PROVE  \E s \in [1 .. Cardinality(S) -> S] : Increasing(s, Cardinality(S))
<1> DEFINE Good(R) == \E s \in [1 .. Cardinality(R) -> R] : Increasing(s, Cardinality(R))
           T == {n \in Nat : \A R \in SUBSET Nat : IsFiniteSet(R) /\ Cardinality(R) = n => Good(R)}
<1>1. 0 \in T
  <2>1. ASSUME NEW R \in SUBSET Nat, IsFiniteSet(R), Cardinality(R) = 0 PROVE Good(R)
    <3> DEFINE s == [i \in 1 .. 0 |-> 0]
    <3>1. s \in [1 .. 0 -> R] /\ Increasing(s, 0) BY DEF Increasing
    <3> QED BY <2>1, <3>1, Zenon
  <2> HIDE DEF Good
  <2> QED BY <2>1
<1>2. ASSUME NEW n \in Nat, n \in T PROVE n + 1 \in T
  <2>1. ASSUME NEW R \in SUBSET Nat, IsFiniteSet(R), Cardinality(R) = n + 1 PROVE Good(R)
    <3>1. R # {} BY <2>1, FS_EmptySet
    <3>2. PICK m \in R : \A y \in R : m <= y BY <3>1, LeastNatural
    <3> DEFINE Q == R \ {m}
    <3>3. IsFiniteSet(Q) /\ Cardinality(Q) = n /\ Q \in SUBSET Nat
      <4>1. IsFiniteSet(Q) /\ Cardinality(Q) = IF m \in R THEN Cardinality(R) - 1 ELSE Cardinality(R)
        BY <2>1, FS_RemoveElement
      <4>2. Q \in SUBSET Nat OBVIOUS
      <4> HIDE DEF Q
      <4> QED BY <2>1, <4>1, <4>2
    <3>4. Good(Q) BY <1>2, <3>3, Zenon
    <3>5. PICK q \in [1 .. n -> Q] : Increasing(q, n) BY <3>3, <3>4, Zenon
    <3> DEFINE s == [i \in 1 .. n + 1 |-> IF i = 1 THEN m ELSE q[i - 1]]
    <3>6. ASSUME NEW i \in 1 .. n + 1, i # 1 PROVE q[i - 1] \in R /\ q[i - 1] > m
      <4>1. i - 1 \in 1 .. n BY <3>6
      <4>2. q[i - 1] \in Q BY <3>5, <4>1
      <4>3. q[i - 1] \in R /\ q[i - 1] # m BY <4>2, Zenon
      <4>4. m <= q[i - 1] /\ m \in Nat /\ q[i - 1] \in Nat BY <3>2, <4>3
      <4> QED BY <4>3, <4>4
    <3>7. s \in [1 .. n + 1 -> R] BY <3>6
    <3>8. Increasing(s, n + 1)
      <4> SUFFICES ASSUME NEW i \in 1 .. n + 1, NEW j \in 1 .. n + 1, i < j PROVE s[i] < s[j]
        BY DEF Increasing
      <4>1. j # 1 BY SMT
      <4>2. q[j - 1] > m /\ q[j - 1] \in Nat /\ m \in Nat BY <3>6, <4>1
      <4>3. CASE i = 1 BY <4>1, <4>2, <4>3
      <4>4. CASE i # 1
        <5>1. i - 1 \in 1 .. n /\ j - 1 \in 1 .. n /\ i - 1 < j - 1 BY <4>4
        <5>2. q[i - 1] < q[j - 1] BY <3>5, <5>1 DEF Increasing
        <5> QED BY <4>1, <4>4, <5>2
      <4> QED BY <4>3, <4>4
    <3> HIDE DEF s
    <3> QED BY <2>1, <3>7, <3>8, Zenon
  <2> HIDE DEF Good
  <2> QED BY <2>1
<1> HIDE DEF Good, T
<1>3. Nat \subseteq T BY <1>1, <1>2, SetInduction
<1>4. Cardinality(S) \in Nat BY FS_CardinalityType
<1>5. Good(S) BY <1>3, <1>4 DEF T
<1> QED BY <1>5 DEF Good

\* What Ascending is: every member of S, once.
LEMMA AscendingSeq ==
    ASSUME NEW S \in SUBSET Nat, IsFiniteSet(S)
    PROVE  /\ Cardinality(S) \in Nat
           /\ Ascending(S) \in Seq(S) /\ Len(Ascending(S)) = Cardinality(S)
           /\ \A i, j \in 1 .. Cardinality(S) : i < j => Ascending(S)[i] < Ascending(S)[j]
           /\ \A i \in 1 .. Cardinality(S) : Ascending(S)[i] \in S
           /\ \A x \in S : \E i \in 1 .. Cardinality(S) : Ascending(S)[i] = x
<1> DEFINE n == Cardinality(S)
<1>1. PICK a : a = Ascending(S) OBVIOUS
<1>2. n \in Nat BY FS_CardinalityType
<1>3. a \in [1 .. n -> S] /\ Increasing(a, n)
  <2>1. a = CHOOSE s \in [1 .. n -> S] : \A i, j \in 1 .. n : i < j => s[i] < s[j]
    BY <1>1 DEF Ascending
  <2>2. \E s \in [1 .. n -> S] : \A i, j \in 1 .. n : i < j => s[i] < s[j]
    BY AscendingExists, Zenon DEF Increasing
  <2>3. a \in [1 .. n -> S] /\ \A i, j \in 1 .. n : i < j => a[i] < a[j]
    BY <2>1, <2>2, Zenon
  <2> QED BY <2>3 DEF Increasing
<1> HIDE DEF n
<1>4. a \in Seq(S) /\ Len(a) = n BY <1>2, <1>3
<1>5. a \in Injection(1 .. n, S)
  <2>1. ASSUME NEW i \in 1 .. n, NEW j \in 1 .. n, a[i] = a[j] PROVE i = j
    <3>1. a[i] \in Nat /\ a[j] \in Nat BY <1>3
    <3>2. i < j => a[i] < a[j] BY <1>3 DEF Increasing
    <3>3. j < i => a[j] < a[i] BY <1>3 DEF Increasing
    <3> QED BY <1>2, <2>1, <3>1, <3>2, <3>3
  <2> QED BY <1>3, <2>1 DEF Injection, IsInjective
<1>6. a \in Surjection(1 .. n, S)
  <2>1. Cardinality(1 .. n) = n /\ IsFiniteSet(1 .. n)
    <3>1. 1 \in Int /\ n \in Int BY <1>2
    <3> QED BY <1>2, <3>1, FS_Interval
  <2>2. Cardinality(1 .. n) = Cardinality(S) BY <2>1 DEF n
  <2> QED BY <1>5, <2>2, FS_Injection
<1>7. \A x \in S : \E i \in 1 .. n : a[i] = x BY <1>6 DEF Surjection
<1> QED BY <1>1, <1>2, <1>3, <1>4, <1>7 DEF n, Increasing

-----------------------------------------------------------------------------
(* The ranges of a set of ranks *)

RankRange == [first : Int, last : Int]

\* The ranks that ranges cover.
Covers(out, x) == \E m \in 1 .. Len(out) : out[m].first <= x /\ x <= out[m].last

\* The partial sums of the lengths of ranges.
Counted(c, out) ==
    /\ c \in [0 .. Len(out) -> Int] /\ c[0] = 0
    /\ \A m \in 1 .. Len(out) : c[m] = c[m - 1] + (out[m].last - out[m].first + 1)

\* The ranges of the first n ranks of s.
Scanned(out, s, n) ==
    /\ out \in Seq(RankRange)
    /\ n = 0 <=> out = <<>>
    /\ n > 0 => out[Len(out)].last = s[n]
    /\ \A m \in 1 .. Len(out) : out[m].first <= out[m].last
    /\ \A x \in Int : Covers(out, x) <=> \E i \in 1 .. n : x = s[i]
    /\ \E c : Counted(c, out) /\ c[Len(out)] = n

\* The last range lengthened, the others kept.
LEMMA LengthenedSeq ==
    ASSUME NEW out \in Seq(RankRange), out # <<>>, NEW x \in Int
    PROVE  /\ Lengthened(out, x) \in Seq(RankRange)
           /\ Len(Lengthened(out, x)) = Len(out) /\ Len(out) \in Nat \ {0}
           /\ \A m \in 1 .. Len(out) - 1 : Lengthened(out, x)[m] = out[m]
           /\ Lengthened(out, x)[Len(out)] = [first |-> out[Len(out)].first, last |-> x]
<1>1. PICK n \in Nat : n = Len(out) OBVIOUS
<1>2. n # 0
  <2>1. SUFFICES ASSUME n = 0 PROVE FALSE OBVIOUS
  <2> QED BY <1>1, <2>1, EmptySeq
<1>3. DOMAIN out = 1 .. n BY <1>1
<1>4. \A m \in 1 .. n : out[m] \in RankRange BY <1>1
<1>5. out[n].first \in Int BY <1>2, <1>4 DEF RankRange
<1>6. [first |-> out[n].first, last |-> x] \in RankRange BY <1>5 DEF RankRange
<1>7. Lengthened(out, x) = [i \in 1 .. n |-> IF i = n THEN [first |-> out[i].first, last |-> x] ELSE out[i]]
  BY <1>1, <1>3 DEF Lengthened
<1>8. Lengthened(out, x) \in [1 .. n -> RankRange]
  <2>1. \A i \in 1 .. n : (IF i = n THEN [first |-> out[i].first, last |-> x] ELSE out[i]) \in RankRange
    BY <1>4, <1>6, Zenon
  <2> QED BY <1>7, <2>1
<1>9. Lengthened(out, x) \in Seq(RankRange) /\ Len(Lengthened(out, x)) = n BY <1>8
<1>10. n \in 1 .. n /\ \A m \in 1 .. n - 1 : m \in 1 .. n /\ m # n BY <1>2
<1> QED BY <1>1, <1>2, <1>7, <1>9, <1>10

\* One range more, the others kept.
LEMMA AppendedSeq ==
    ASSUME NEW out \in Seq(RankRange), NEW x \in Int
    PROVE  /\ Append(out, NewRange(x)) \in Seq(RankRange)
           /\ Len(Append(out, NewRange(x))) = Len(out) + 1 /\ Len(out) \in Nat
           /\ \A m \in 1 .. Len(out) : Append(out, NewRange(x))[m] = out[m]
           /\ Append(out, NewRange(x))[Len(out) + 1] = [first |-> x, last |-> x]
<1>1. NewRange(x) \in RankRange /\ NewRange(x) = [first |-> x, last |-> x] BY DEF NewRange, RankRange
<1> QED BY <1>1

\* Ranges that agree but for the last, which grows by one, or that have one
\* more of length one, count one more.
LEMMA CountsOn ==
    ASSUME NEW out \in Seq(RankRange), NEW new \in Seq(RankRange), NEW c, Counted(c, out),
           NEW e \in Nat, e + 1 = Len(new), \A m \in 1 .. e : m <= Len(out) /\ new[m] = out[m],
           e <= Len(out)
    PROVE  \E d : /\ Counted(d, new)
                  /\ d[Len(new)] = c[e] + (new[e + 1].last - new[e + 1].first + 1)
<1> DEFINE d == [k \in 0 .. e + 1 |-> IF k <= e THEN c[k] ELSE c[e] + (new[e + 1].last - new[e + 1].first + 1)]
<1>1. Len(out) \in Nat /\ c \in [0 .. Len(out) -> Int] BY DEF Counted
<1>2. new[e + 1] \in RankRange BY SMT
<1>3. new[e + 1].last \in Int /\ new[e + 1].first \in Int BY <1>2 DEF RankRange
<1>4. c[e] \in Int /\ \A k \in 0 .. e : c[k] \in Int BY <1>1
<1>5. d \in [0 .. e + 1 -> Int] /\ d[0] = c[0] BY <1>3, <1>4
<1>6. ASSUME NEW m \in 1 .. e + 1 PROVE d[m] = d[m - 1] + (new[m].last - new[m].first + 1)
  <2>1. CASE m <= e
    <3>1. m \in 1 .. Len(out) /\ m \in 1 .. e /\ new[m] = out[m] BY <1>1, <2>1
    <3>2. c[m] = c[m - 1] + (out[m].last - out[m].first + 1) BY <3>1 DEF Counted
    <3>3. d[m] = c[m] /\ d[m - 1] = c[m - 1] BY <2>1
    <3> QED BY <3>1, <3>2, <3>3
  <2>2. CASE m = e + 1
    <3>1. d[m] = c[e] + (new[e + 1].last - new[e + 1].first + 1) /\ d[m - 1] = c[e] BY <2>2
    <3> QED BY <2>2, <3>1
  <2> QED BY <2>1, <2>2
<1>7. d[e + 1] = c[e] + (new[e + 1].last - new[e + 1].first + 1) OBVIOUS
<1>8. c[0] = 0 BY DEF Counted
<1> HIDE DEF d
<1>9. Counted(d, new) BY <1>5, <1>6, <1>8 DEF Counted
<1> QED BY <1>7, <1>9

\* One more rank.
LEMMA ScanStep ==
    ASSUME NEW n \in Nat, NEW s, \A i \in 1 .. n + 1 : s[i] \in Int, NEW out, Scanned(out, s, n)
    PROVE  Scanned(WithRank(out, s[n + 1]), s, n + 1)
<1>0. out \in Seq(RankRange) /\ Len(out) \in Nat BY DEF Scanned
<1>1. PICK x \in Int : x = s[n + 1] BY SMT
<1>2. PICK new : new = WithRank(out, x) OBVIOUS
<1>3. PICK c : Counted(c, out) /\ c[Len(out)] = n BY DEF Scanned
<1>4. \A m \in 1 .. Len(out) : out[m] \in RankRange /\ out[m].first \in Int /\ out[m].last \in Int
  <2>1. \A m \in 1 .. Len(out) : out[m] \in RankRange BY <1>0
  <2> QED BY <2>1 DEF RankRange
<1>5. CASE out # <<>> /\ x = Last(out).last + 1
  <2>1. PICK e \in Nat : e + 1 = Len(out) BY <1>0, <1>5, LengthenedSeq
  <2>2. n # 0 /\ out[e + 1].last = s[n] /\ out[e + 1].last + 1 = x BY <1>5, <2>1 DEF Scanned, Last
  <2>3. new = Lengthened(out, x) BY <1>2, <1>5 DEF WithRank
  <2>4. /\ new \in Seq(RankRange) /\ Len(new) = e + 1
        /\ \A m \in 1 .. e : new[m] = out[m]
        /\ new[e + 1] = [first |-> out[e + 1].first, last |-> x]
    BY <1>0, <1>5, <2>1, <2>3, LengthenedSeq
  <2>5. PICK f \in Int, l \in Int : f = out[e + 1].first /\ l = out[e + 1].last /\ f <= l
    <3>1. e + 1 \in 1 .. Len(out) BY <2>1
    <3> QED BY <1>4, <3>1 DEF Scanned
  <2>6. new[e + 1].first = f /\ new[e + 1].last = x /\ x = l + 1 BY <2>2, <2>4, <2>5
  <2>7. ASSUME NEW m \in 1 .. e + 1 PROVE new[m].first <= new[m].last
    <3>1. CASE m = e + 1 BY <2>5, <2>6, <3>1
    <3>2. CASE m # e + 1
      <4>1. m \in 1 .. e /\ m \in 1 .. Len(out) BY <2>1, <3>2
      <4> QED BY <2>4, <4>1 DEF Scanned
    <3> QED BY <3>1, <3>2
  <2>8. ASSUME NEW y \in Int PROVE Covers(new, y) <=> Covers(out, y) \/ y = x
    <3>1. Covers(out, y) <=> (\E m \in 1 .. e : out[m].first <= y /\ y <= out[m].last) \/ (f <= y /\ y <= l)
      <4>1. 1 .. Len(out) = 1 .. e \cup {e + 1} BY <2>1
      <4> QED BY <2>5, <4>1 DEF Covers
    <3>2. Covers(new, y) <=> (\E m \in 1 .. e : out[m].first <= y /\ y <= out[m].last) \/ (f <= y /\ y <= x)
      <4>1. 1 .. Len(new) = 1 .. e \cup {e + 1} BY <2>4
      <4>2. \A m \in 1 .. e : new[m] = out[m] BY <2>4
      <4> QED BY <2>6, <4>1, <4>2 DEF Covers
    <3>3. (f <= y /\ y <= x) <=> (f <= y /\ y <= l) \/ y = x BY <2>5, <2>6
    <3> QED BY <3>1, <3>2, <3>3
  <2>9. \E d : Counted(d, new) /\ d[Len(new)] = n + 1
    <3>1. \A m \in 1 .. e : m <= Len(out) /\ new[m] = out[m] BY <2>1, <2>4
    <3>2. PICK d : Counted(d, new) /\ d[Len(new)] = c[e] + (new[e + 1].last - new[e + 1].first + 1)
      <4>1. e <= Len(out) /\ e + 1 = Len(new) BY <2>1, <2>4
      <4> QED BY <1>0, <1>3, <2>4, <3>1, <4>1, CountsOn
    <3>3. c[e + 1] = c[e] + (l - f + 1) /\ c[e] \in Int /\ c[e + 1] = n
      <4>1. e + 1 \in 1 .. Len(out) /\ e + 1 - 1 = e /\ e \in 0 .. Len(out) BY <2>1
      <4>2. c[e + 1] = c[e + 1 - 1] + (out[e + 1].last - out[e + 1].first + 1) /\ c[e] \in Int
        BY <1>3, <4>1 DEF Counted
      <4> QED BY <1>3, <2>1, <2>5, <4>1, <4>2
    <3>4. d[Len(new)] = n + 1
      <4>1. PICK ce \in Int : ce = c[e] BY <3>3
      <4>2. d[Len(new)] = ce + (x - f + 1) BY <2>6, <3>2, <4>1
      <4>3. n = ce + (l - f + 1) BY <3>3, <4>1
      <4>4. x = l + 1 BY <2>6
      <4>5. ce + (x - f + 1) = n + 1 BY <2>5, <4>1, <4>3, <4>4
      <4> QED BY <4>2, <4>5
    <3> QED BY <3>2, <3>4
  <2>10. \A y \in Int : Covers(new, y) <=> \E i \in 1 .. n + 1 : y = s[i]
    <3>1. 1 .. n + 1 = 1 .. n \cup {n + 1} OBVIOUS
    <3> QED BY <1>1, <2>8, <3>1 DEF Scanned
  <2>11. new # <<>> /\ new[Len(new)].last = s[n + 1] BY <1>1, <2>4, <2>6
  <2>12. Scanned(new, s, n + 1) BY <2>4, <2>7, <2>9, <2>10, <2>11 DEF Scanned
  <2> QED BY <1>1, <1>2, <2>12
<1>6. CASE ~(out # <<>> /\ x = Last(out).last + 1)
  <2>1. PICK e \in Nat : e = Len(out) BY <1>0
  <2>2. new = Append(out, NewRange(x)) BY <1>2, <1>6 DEF WithRank
  <2>3. /\ new \in Seq(RankRange) /\ Len(new) = e + 1
        /\ \A m \in 1 .. e : new[m] = out[m]
        /\ new[e + 1] = [first |-> x, last |-> x]
    BY <1>0, <2>1, <2>2, AppendedSeq
  <2>4. new[e + 1].first = x /\ new[e + 1].last = x BY <2>3
  <2>5. ASSUME NEW m \in 1 .. e + 1 PROVE new[m].first <= new[m].last
    <3>1. CASE m = e + 1 BY <2>4, <3>1
    <3>2. CASE m # e + 1
      <4>1. m \in 1 .. e /\ m \in 1 .. Len(out) BY <2>1, <3>2
      <4> QED BY <2>3, <4>1 DEF Scanned
    <3> QED BY <3>1, <3>2
  <2>6. ASSUME NEW y \in Int PROVE Covers(new, y) <=> Covers(out, y) \/ y = x
    <3>1. 1 .. Len(new) = 1 .. e \cup {e + 1} BY <2>3
    <3>2. \A m \in 1 .. e : new[m] = out[m] BY <2>3
    <3>3. (x <= y /\ y <= x) <=> y = x OBVIOUS
    <3> QED BY <2>1, <2>4, <3>1, <3>2, <3>3 DEF Covers
  <2>7. \E d : Counted(d, new) /\ d[Len(new)] = n + 1
    <3>1. \A m \in 1 .. e : m <= Len(out) /\ new[m] = out[m] BY <2>1, <2>3
    <3>2. PICK d : Counted(d, new) /\ d[Len(new)] = c[e] + (new[e + 1].last - new[e + 1].first + 1)
      BY <1>0, <1>3, <2>1, <2>3, <3>1, CountsOn
    <3>3. d[Len(new)] = n + 1 BY <1>3, <2>1, <2>4, <3>2
    <3> QED BY <3>2, <3>3
  <2>8. \A y \in Int : Covers(new, y) <=> \E i \in 1 .. n + 1 : y = s[i]
    <3>1. 1 .. n + 1 = 1 .. n \cup {n + 1} OBVIOUS
    <3> QED BY <1>1, <2>6, <3>1 DEF Scanned
  <2>9. new # <<>> /\ new[Len(new)].last = s[n + 1] BY <1>1, <2>3, <2>4
  <2>10. Scanned(new, s, n + 1) BY <2>3, <2>5, <2>7, <2>8, <2>9 DEF Scanned
  <2> QED BY <1>1, <1>2, <2>10
<1> QED BY <1>5, <1>6

\* RangesCount is the last partial sum.
LEMMA CountOf ==
    ASSUME NEW out \in Seq(RankRange), NEW c, Counted(c, out)
    PROVE  RangesCount(out) = c[Len(out)]
<1> DEFINE n == Len(out)
           Eq(h) == h = [i \in 0 .. n |-> IF i = 0 THEN 0 ELSE h[i - 1] + (out[i].last - out[i].first + 1)]
<1>0. n \in Nat OBVIOUS
<1>1. Eq(c)
  <2>1. \A i \in 0 .. n : i # 0 => i \in 1 .. n BY <1>0
  <2>2. \A i \in 0 .. n : c[i] = IF i = 0 THEN 0 ELSE c[i - 1] + (out[i].last - out[i].first + 1)
    BY <2>1 DEF Counted
  <2>3. c \in [0 .. n -> Int] BY DEF Counted
  <2> QED BY <2>2, <2>3
<1>2. PICK h : h = (CHOOSE x : Eq(x)) OBVIOUS
<1>3. Eq(h) BY <1>1, <1>2, Zenon
<1>4. RangesCount(out) = h[n] BY <1>2 DEF RangesCount
<1>5. \A i \in 0 .. n : h[i] = IF i = 0 THEN 0 ELSE h[i - 1] + (out[i].last - out[i].first + 1)
  BY <1>3, Zenon
<1>6. \A i \in 0 .. n : c[i] = IF i = 0 THEN 0 ELSE c[i - 1] + (out[i].last - out[i].first + 1)
  BY <1>1, Zenon
<1> DEFINE T == {m \in Nat : m <= n => h[m] = c[m]}
<1> HIDE DEF n
<1>7. 0 \in T BY <1>0, <1>5, <1>6
<1>8. ASSUME NEW m \in Nat, m \in T PROVE m + 1 \in T
  <2>1. m + 1 <= n => m + 1 \in 0 .. n /\ m + 1 # 0 /\ m + 1 - 1 = m /\ m <= n BY <1>0
  <2> QED BY <1>5, <1>6, <1>8, <2>1
<1>9. Nat \subseteq T
  <2> HIDE DEF T
  <2> QED BY <1>7, <1>8, SetInduction
<1>10. h[n] = c[n] BY <1>0, <1>9
<1> QED BY <1>4, <1>10 DEF n

\* WithRank returns a sequence of ranges.
LEMMA WithRankSeq ==
    ASSUME NEW out \in Seq(RankRange), NEW x \in Int
    PROVE  WithRank(out, x) \in Seq(RankRange)
BY LengthenedSeq, AppendedSeq DEF WithRank

\* compact_ranges covers the ranks and no others, and counts them.
LEMMA CompactExact ==
    ASSUME NEW S \in SUBSET Nat, IsFiniteSet(S)
    PROVE  /\ compact_ranges(S) \in Seq(RankRange)
           /\ RangesCount(compact_ranges(S)) = Cardinality(S)
           /\ \A x \in Int : Covers(compact_ranges(S), x) <=> x \in S
<1>1. PICK s, n : s = Ascending(S) /\ n = Cardinality(S) OBVIOUS
<1>2. /\ n \in Nat
      /\ \A i \in 1 .. n : s[i] \in S
      /\ \A x \in S : \E i \in 1 .. n : s[i] = x
  BY <1>1, AscendingSeq
<1>3. ASSUME NEW i \in 1 .. n PROVE s[i] \in Int
  <2>1. PICK x : x = s[i] OBVIOUS
  <2>2. x \in S BY <1>2, <2>1
  <2>3. x \in Nat BY <2>2, Zenon
  <2> QED BY <2>1, <2>3
<1> DEFINE Upto(f, m) == /\ f \in [0 .. m -> Seq(RankRange)] /\ f[0] = <<>>
                         /\ \A k \in 1 .. m : f[k] = WithRank(f[k - 1], s[k])
           T == {m \in Nat : m <= n => \E f : Upto(f, m)}
<1>4. 0 \in T
  <2> DEFINE f == [k \in 0 .. 0 |-> <<>>]
  <2>1. <<>> \in Seq(RankRange) BY EmptySeq
  <2>2. Upto(f, 0) BY <2>1
  <2> HIDE DEF Upto
  <2> QED BY <2>2
<1>5. ASSUME NEW m \in Nat, m \in T PROVE m + 1 \in T
  <2> HIDE DEF Upto
  <2> SUFFICES ASSUME m + 1 <= n PROVE \E f : Upto(f, m + 1) OBVIOUS
  <2>1. PICK f : Upto(f, m) BY <1>2, <1>5
  <2> USE DEF Upto
  <2> DEFINE h == [k \in 0 .. m + 1 |-> IF k <= m THEN f[k] ELSE WithRank(f[m], s[m + 1])]
  <2>2. f[m] \in Seq(RankRange) /\ s[m + 1] \in Int BY <1>2, <1>3, <2>1
  <2>3. WithRank(f[m], s[m + 1]) \in Seq(RankRange) BY <2>2, WithRankSeq
  <2>4. h \in [0 .. m + 1 -> Seq(RankRange)] /\ h[0] = <<>> BY <2>1, <2>3
  <2>5. ASSUME NEW k \in 1 .. m + 1 PROVE h[k] = WithRank(h[k - 1], s[k])
    <3>1. CASE k <= m
      <4>1. k \in 1 .. m /\ k - 1 <= m /\ k \in 0 .. m + 1 /\ k - 1 \in 0 .. m + 1 BY <3>1
      <4>2. h[k] = f[k] /\ h[k - 1] = f[k - 1] BY <4>1
      <4> QED BY <2>1, <4>1, <4>2
    <3>2. CASE k = m + 1
      <4>1. h[m + 1] = WithRank(f[m], s[m + 1]) /\ h[m] = f[m] BY SMT
      <4>2. k - 1 = m BY <3>2
      <4> QED BY <3>2, <4>1, <4>2
    <3> QED BY <3>1, <3>2
  <2> HIDE DEF h
  <2>6. Upto(h, m + 1) BY <2>4, <2>5
  <2> HIDE DEF Upto
  <2> QED BY <2>6
<1>6. Nat \subseteq T
  <2> HIDE DEF T
  <2> QED BY <1>4, <1>5, SetInduction
<1>7. PICK f : Upto(f, n)
  <2>1. n \in T BY <1>2, <1>6
  <2> HIDE DEF Upto
  <2> QED BY <1>2, <2>1
<1> DEFINE Eq(h) == h = [i \in 0 .. n |-> IF i = 0 THEN <<>> ELSE WithRank(h[i - 1], s[i])]
<1>8. Eq(f)
  <2>1. \A i \in 0 .. n : i # 0 => i \in 1 .. n BY <1>2
  <2>2. \A i \in 0 .. n : f[i] = IF i = 0 THEN <<>> ELSE WithRank(f[i - 1], s[i]) BY <1>7, <2>1, Zenon
  <2>3. f \in [0 .. n -> Seq(RankRange)] BY <1>7
  <2> QED BY <2>2, <2>3, Zenon
<1>9. PICK h : h = (CHOOSE x : Eq(x)) OBVIOUS
<1>10. Eq(h) BY <1>8, <1>9, Zenon
<1>11. compact_ranges(S) = h[n] BY <1>1, <1>9, Zenon DEF compact_ranges
<1>12. \A i \in 0 .. n : h[i] = IF i = 0 THEN <<>> ELSE WithRank(h[i - 1], s[i]) BY <1>10, Zenon
<1> DEFINE U == {m \in Nat : m <= n => Scanned(h[m], s, m)}
<1>13. 0 \in U
  <2>1. h[0] = <<>> BY <1>2, <1>12
  <2>2. <<>> \in Seq(RankRange) /\ Len(<<>>) = 0 BY EmptySeq
  <2>3. Counted([k \in 0 .. 0 |-> 0], <<>>) BY <2>2 DEF Counted
  <2>4. Scanned(<<>>, s, 0) BY <2>2, <2>3 DEF Scanned, Covers
  <2> QED BY <2>1, <2>4
<1>14. ASSUME NEW m \in Nat, m \in U PROVE m + 1 \in U
  <2> SUFFICES ASSUME m + 1 <= n PROVE Scanned(h[m + 1], s, m + 1) OBVIOUS
  <2>1. m + 1 \in 0 .. n /\ m + 1 # 0 /\ m + 1 - 1 = m /\ m <= n BY <1>2
  <2>2. h[m + 1] = WithRank(h[m], s[m + 1]) BY <1>12, <2>1
  <2>3. Scanned(h[m], s, m) BY <1>14, <2>1
  <2>4. \A i \in 1 .. m + 1 : s[i] \in Int BY <1>2, <1>3
  <2> QED BY <2>2, <2>3, <2>4, ScanStep
<1>15. Nat \subseteq U
  <2> HIDE DEF U
  <2> QED BY <1>13, <1>14, SetInduction
<1>16. Scanned(h[n], s, n) BY <1>2, <1>15
<1>17. h[n] \in Seq(RankRange) BY <1>16 DEF Scanned
<1>18. RangesCount(h[n]) = n
  <2>1. PICK c : Counted(c, h[n]) /\ c[Len(h[n])] = n BY <1>16 DEF Scanned
  <2> QED BY <1>17, <2>1, CountOf
<1>19. \A x \in Int : Covers(h[n], x) <=> x \in S
  <2>1. \A x \in Int : Covers(h[n], x) <=> \E i \in 1 .. n : x = s[i] BY <1>16 DEF Scanned
  <2> QED BY <1>2, <2>1
<1> QED BY <1>1, <1>11, <1>17, <1>18, <1>19

-----------------------------------------------------------------------------
(* A consolidation *)

Representative == [key : Keys, count : Int, ranges : Seq(RankRange)]

\* What reps must say of the records that the ranks contributed.
Names(reps, bufs) ==
    LET Had(k) == {q \in LRanks : k \in Range(bufs[q])}
    IN /\ {p.key : p \in reps} = {k \in Keys : Had(k) # {}}
       /\ \A p \in reps :
            /\ p.count = Cardinality(Had(p.key))
            /\ UNION {g.first .. g.last : g \in Range(p.ranges)} = Had(p.key)

\* The union of the intervals is what the ranges cover.
LEMMA RangesUnion ==
    ASSUME NEW out \in Seq(RankRange), NEW S \in SUBSET Nat, \A x \in Int : Covers(out, x) <=> x \in S
    PROVE  UNION {g.first .. g.last : g \in Range(out)} = S
<1>1. DOMAIN out = 1 .. Len(out) /\ \A m \in 1 .. Len(out) : out[m] \in RankRange OBVIOUS
<1>2. \A m \in 1 .. Len(out) : out[m].first \in Int /\ out[m].last \in Int BY <1>1 DEF RankRange
<1>3. ASSUME NEW x PROVE x \in UNION {g.first .. g.last : g \in Range(out)} <=> x \in Int /\ Covers(out, x)
  <2>1. x \in UNION {g.first .. g.last : g \in Range(out)} <=> \E m \in 1 .. Len(out) : x \in out[m].first .. out[m].last
    BY <1>1, Zenon DEF Range
  <2>2. \A m \in 1 .. Len(out) : x \in out[m].first .. out[m].last <=> x \in Int /\ out[m].first <= x /\ x <= out[m].last
    BY <1>2
  <2> QED BY <2>1, <2>2, Zenon DEF Covers
<1>4. \A x \in S : x \in Int OBVIOUS
<1> QED BY <1>3, <1>4, Zenon

\* What rank 0 prints for bufs names exactly the ranks that had each record.
LEMMA ConsolidationExact ==
    ASSUME NEW bufs \in [LRanks -> Seq(Keys)]
    PROVE  /\ consolidate_collective(bufs) \in SUBSET Representative
           /\ Names(consolidate_collective(bufs), bufs)
<1> DEFINE Had(k) == {q \in LRanks : k \in Range(bufs[q])}
           K == UNION {Range(bufs[q]) : q \in LRanks}
           Rep(k) == [key |-> k, count |-> RangesCount(compact_ranges(Had(k))), ranges |-> compact_ranges(Had(k))]
<1>0. DOMAIN bufs = LRanks /\ \A q \in LRanks : bufs[q] \in Seq(Keys) OBVIOUS
<1>1. consolidate_collective(bufs) = {Rep(k) : k \in K}
  <2>1. deserialize_records(bufs) = [k \in K |-> Had(k)] BY <1>0, Zenon DEF deserialize_records
  <2> HIDE DEF Had, K
  <2>2. DOMAIN [k \in K |-> Had(k)] = K /\ \A k \in K : [k1 \in K |-> Had(k1)][k] = Had(k) BY Zenon
  <2>3. PICK g : g = deserialize_records(bufs) OBVIOUS
  <2>4. consolidate_collective(bufs) =
          {[key |-> k, count |-> RangesCount(compact_ranges(g[k])), ranges |-> compact_ranges(g[k])] : k \in DOMAIN g}
    BY <2>3 DEF consolidate_collective
  <2>5. DOMAIN g = K /\ \A k \in K : g[k] = Had(k) BY <2>1, <2>2, <2>3, Zenon
  <2> QED BY <2>4, <2>5
<1>2. ASSUME NEW q \in LRanks PROVE Range(bufs[q]) \subseteq Keys
  <2>1. bufs[q] \in Seq(Keys) BY <1>0
  <2> QED BY <2>1 DEF Range
<1>3. K = {k \in Keys : Had(k) # {}} BY <1>2, Zenon
<1>4. ASSUME NEW k \in Keys
      PROVE  /\ Rep(k) \in Representative /\ Rep(k).key = k
             /\ Rep(k).count = Cardinality(Had(k))
             /\ UNION {g.first .. g.last : g \in Range(Rep(k).ranges)} = Had(k)
  <2>1. PICK S : S = Had(k) OBVIOUS
  <2>2. S \in SUBSET LRanks BY <2>1, Zenon
  <2>3. IsFiniteSet(LRanks) /\ LRanks \subseteq Nat BY LoggerConstants
  <2>4. IsFiniteSet(S) /\ S \in SUBSET Nat
    <3>1. IsFiniteSet(S) BY <2>2, <2>3, FS_Subset
    <3> QED BY <2>2, <2>3, <3>1
  <2>5. PICK out : out = compact_ranges(S) OBVIOUS
  <2>6. /\ out \in Seq(RankRange) /\ RangesCount(out) = Cardinality(S)
        /\ \A x \in Int : Covers(out, x) <=> x \in S
    BY <2>4, <2>5, CompactExact
  <2>7. UNION {g.first .. g.last : g \in Range(out)} = S BY <2>4, <2>6, RangesUnion
  <2>8. Rep(k) = [key |-> k, count |-> Cardinality(S), ranges |-> out] BY <2>1, <2>5, <2>6, Zenon
  <2>9. Cardinality(S) \in Int
    <3>1. Cardinality(S) \in Nat BY <2>4, FS_CardinalityType
    <3> QED BY <3>1
  <2>10. Rep(k) \in Representative BY <2>6, <2>8, <2>9 DEF Representative
  <2> HIDE DEF Rep, Had
  <2> QED BY <2>1, <2>7, <2>8, <2>10
<1>5. {Rep(k) : k \in K} \in SUBSET Representative
  <2>1. \A k \in K : Rep(k) \in Representative
    <3>1. K \subseteq Keys BY <1>3, Zenon
    <3> HIDE DEF K, Rep, Had
    <3> QED BY <1>4, <3>1
  <2> HIDE DEF K, Rep
  <2> QED BY <2>1
<1>6. Names({Rep(k) : k \in K}, bufs)
  <2>1. K \subseteq Keys BY <1>3, Zenon
  <2>2. {p.key : p \in {Rep(k) : k \in K}} = K
    <3> HIDE DEF K, Rep, Had
    <3> QED BY <1>4, <2>1
  <2>3. ASSUME NEW p \in {Rep(k) : k \in K}
        PROVE  p.count = Cardinality(Had(p.key)) /\ UNION {g.first .. g.last : g \in Range(p.ranges)} = Had(p.key)
    <3> HIDE DEF K, Rep, Had
    <3>1. PICK k \in K : p = Rep(k) BY <2>3
    <3>2. k \in Keys BY <2>1, <3>1
    <3>3. p.key = k BY <1>4, <3>1, <3>2
    <3>4. p.count = Cardinality(Had(k)) /\ UNION {g.first .. g.last : g \in Range(p.ranges)} = Had(k)
      BY <1>4, <3>1, <3>2
    <3> QED BY <3>3, <3>4
  <2> HIDE DEF Rep
  <2> QED BY <1>3, <2>2, <2>3 DEF Names
<1> QED BY <1>1, <1>5, <1>6

-----------------------------------------------------------------------------
(* Every step *)

Report == [of : Nat, reps : SUBSET Representative]

LPlaces == {"idle", "dispatch", "latch", "spin", "abort", "aborted", "gather"}

\* The types; a contribution is a consolidation of its rank.
LTypes ==
    /\ lpc \in [LCallers -> LPlaces]
    /\ lbuf \in [LRanks -> Seq(Keys)]
    /\ swapped \in [LRanks -> Seq(Seq(Keys))]
    /\ given \in [LRanks -> Seq(Nat)]
    /\ \A q \in LRanks : \A n \in 1 .. Len(given[q]) : given[q][n] \in 1 .. Len(swapped[q])
    /\ DOMAIN reports = LRanks

\* Without a skipped consolidation a rank's contributions are numbered like
\* its consolidations.
InStep == \A q \in LRanks : Len(given[q]) = Len(swapped[q]) /\ \A n \in 1 .. Len(given[q]) : given[q][n] = n

\* A report of the n-th consolidation of every rank.
Reported(e) ==
    /\ e.of \in Nat \ {0} /\ \A q \in LRanks : e.of <= Len(swapped[q])
    /\ e.reps = consolidate_collective([q \in LRanks |-> swapped[q][e.of]])

\* With a communicator: what the gathers have reported.
Collective ==
    has_communicator =>
        /\ \A c \in LCallers : lpc[c] = "gather" => given[0] # <<>>
        /\ reports[0] \in Seq(Report)
        /\ NoneSkipped => InStep /\ \A i \in 1 .. Len(reports[0]) : Reported(reports[0][i])

LogExact == LTypes /\ Collective

\* A step that takes no buffer and adds no report.
LEMMA LogOnly ==
    ASSUME LogExact, UNCHANGED <<has_communicator, swapped, given, reports>>,
           lpc' \in [LCallers -> LPlaces], lbuf' \in [LRanks -> Seq(Keys)],
           \A c \in LCallers : lpc'[c] = "gather" => lpc[c] = "gather"
    PROVE  LogExact'
<1>1. LTypes' BY DEF LogExact, LTypes
<1>2. NoneSkipped' = NoneSkipped BY DEF NoneSkipped
<1>3. InStep' = InStep BY DEF InStep
<1>4. ASSUME NEW e PROVE Reported(e)' <=> Reported(e)
  BY DEF Reported, consolidate_collective, deserialize_records, compact_ranges, RangesCount, WithRank, Lengthened, NewRange, Ascending
<1>5. Collective' BY <1>2, <1>3, <1>4 DEF LogExact, Collective
<1> QED BY <1>1, <1>5 DEF LogExact

\* The inductive invariant holds at first.
LEMMA LogStart == LInit => LogExact
<1> SUFFICES ASSUME LInit PROVE LogExact OBVIOUS
<1>1. 0 \in LRanks BY LoggerConstants
<1>2. Len(<<>>) = 0 /\ <<>> \in Seq(Keys) /\ <<>> \in Seq(Nat) /\ <<>> \in Seq(Seq(Keys)) /\ <<>> \in Seq(Report)
  BY EmptySeq
<1>3. LTypes BY <1>2 DEF LInit, LTypes, LPlaces
<1>4. given[0] = <<>> /\ reports[0] = <<>> BY <1>1 DEF LInit
<1>5. InStep BY <1>2 DEF LInit, InStep
<1>6. \A c \in LCallers : lpc[c] # "gather" BY DEF LInit
<1>7. Collective
  <2>1. \A i \in 1 .. Len(reports[0]) : Reported(reports[0][i]) BY <1>2, <1>4
  <2> QED BY <1>2, <1>4, <1>5, <1>6, <2>1 DEF Collective
<1> QED BY <1>3, <1>7 DEF LogExact

\* consolidate takes the buffer of rank r.
LEMMA TakesBuffer ==
    ASSUME LogExact, NEW c \in LCallers, consolidate(c)
    PROVE  LogExact'
<1> DEFINE r == c[1]
<1>0. 0 \in LRanks /\ r \in LRanks BY LoggerConstants DEF LRanks
<1> HIDE DEF r
<1>1. LTypes /\ Collective BY DEF LogExact
<1>2. /\ swapped' = [swapped EXCEPT ![r] = Append(@, lbuf[r])]
      /\ lbuf' = [lbuf EXCEPT ![r] = <<>>] /\ has_communicator' = has_communicator
  BY DEF consolidate, r
<1>3. PICK b \in Seq(Keys) : b = lbuf[r] BY <1>0, <1>1 DEF LTypes
<1>4. PICK sr \in Seq(Seq(Keys)) : sr = swapped[r] BY <1>0, <1>1 DEF LTypes
<1>5. PICK m \in Nat : m = Len(sr) BY <1>4
<1>6. /\ Append(sr, b) \in Seq(Seq(Keys)) /\ Len(Append(sr, b)) = m + 1
      /\ \A n \in 1 .. m : Append(sr, b)[n] = sr[n]
      /\ Append(sr, b)[m + 1] = b
  BY <1>3, <1>4, <1>5
<1>7. swapped'[r] = Append(sr, b) /\ \A q \in LRanks \ {r} : swapped'[q] = swapped[q]
  BY <1>0, <1>1, <1>2, <1>3, <1>4 DEF LTypes
<1>8. swapped' \in [LRanks -> Seq(Seq(Keys))] /\ lbuf' \in [LRanks -> Seq(Keys)]
  <2>1. <<>> \in Seq(Keys) BY EmptySeq
  <2> QED BY <1>0, <1>1, <1>2, <1>3, <1>4, <1>6, <2>1 DEF LTypes
<1>9. ASSUME NEW q \in LRanks
      PROVE  /\ Len(swapped[q]) \in Nat /\ Len(swapped'[q]) = IF q = r THEN m + 1 ELSE Len(swapped[q])
             /\ \A n \in 1 .. Len(swapped[q]) : swapped'[q][n] = swapped[q][n]
  <2>1. CASE q = r BY <1>4, <1>5, <1>6, <1>7, <2>1
  <2>2. CASE q # r BY <1>1, <1>7, <2>2 DEF LTypes
  <2> QED BY <2>1, <2>2
<1>15. ASSUME NEW q \in LRanks
       PROVE  Len(swapped[q]) \in Nat /\ Len(swapped'[q]) \in Nat /\ Len(swapped[q]) <= Len(swapped'[q])
  <2>1. CASE q = r
    <3>1. Len(swapped[q]) = m BY <1>4, <1>5, <2>1
    <3>2. Len(swapped'[q]) = m + 1 BY <1>9, <2>1
    <3> QED BY <1>5, <3>1, <3>2
  <2>2. CASE q # r
    <3>1. Len(swapped'[q]) = Len(swapped[q]) /\ Len(swapped[q]) \in Nat BY <1>9, <2>2
    <3> QED BY <3>1
  <2> QED BY <2>1, <2>2
<1>10. NoneSkipped' => NoneSkipped /\ b # <<>>
  <2> SUFFICES ASSUME NoneSkipped' PROVE NoneSkipped /\ b # <<>> OBVIOUS
  <2>1. \A q \in LRanks : \A n \in 1 .. Len(swapped'[q]) : swapped'[q][n] # <<>> BY DEF NoneSkipped
  <2>2. ASSUME NEW q \in LRanks, NEW n \in 1 .. Len(swapped[q]) PROVE swapped[q][n] # <<>>
    <3>1. n \in 1 .. Len(swapped'[q]) BY <1>4, <1>5, <1>9
    <3> QED BY <1>9, <2>1, <3>1
  <2>3. m + 1 \in 1 .. Len(swapped'[r]) BY <1>0, <1>9
  <2>4. b # <<>> BY <1>0, <1>6, <1>7, <2>1, <2>3
  <2> QED BY <2>2, <2>4 DEF NoneSkipped
<1>11. ASSUME NEW e, Reported(e) PROVE Reported(e)'
  <2>1. e.of \in Nat \ {0} /\ \A q \in LRanks : e.of <= Len(swapped[q]) BY <1>11 DEF Reported
  <2>2. \A q \in LRanks : e.of <= Len(swapped'[q])
    <3>1. ASSUME NEW q \in LRanks PROVE e.of <= Len(swapped'[q])
      <4>1. PICK k \in Nat : k = e.of BY <2>1
      <4>2. k <= Len(swapped[q]) BY <2>1, <4>1
      <4>3. PICK a \in Nat, z \in Nat : a = Len(swapped[q]) /\ z = Len(swapped'[q]) /\ a <= z BY <1>15
      <4>4. k <= z BY <4>2, <4>3
      <4> QED BY <4>1, <4>3, <4>4
    <3> QED BY <3>1
  <2>3. \A q \in LRanks : swapped'[q][e.of] = swapped[q][e.of]
    <3>1. ASSUME NEW q \in LRanks PROVE swapped'[q][e.of] = swapped[q][e.of]
      <4>1. e.of \in 1 .. Len(swapped[q]) BY <1>9, <2>1
      <4> QED BY <1>9, <4>1
    <3> QED BY <3>1
  <2>4. [q \in LRanks |-> swapped'[q][e.of]] = [q \in LRanks |-> swapped[q][e.of]] BY <2>3
  <2>5. e.reps = consolidate_collective([q \in LRanks |-> swapped[q][e.of]]) BY <1>11 DEF Reported
  <2> QED BY <2>1, <2>2, <2>4, <2>5 DEF Reported
<1>12. CASE ~has_communicator
  <2>1. UNCHANGED <<lpc, given>> BY <1>12 DEF consolidate
  <2>2. DOMAIN reports' = LRanks BY <1>1 DEF consolidate, LTypes
  <2>3. \A q \in LRanks : \A n \in 1 .. Len(given[q]) : given[q][n] \in 1 .. Len(swapped'[q])
    <3>1. ASSUME NEW q \in LRanks, NEW n \in 1 .. Len(given[q]) PROVE given[q][n] \in 1 .. Len(swapped'[q])
      <4>1. given[q][n] \in 1 .. Len(swapped[q]) BY <1>1 DEF LTypes
      <4>2. PICK a \in Nat, z \in Nat : a = Len(swapped[q]) /\ z = Len(swapped'[q]) /\ a <= z BY <1>15
      <4>3. given[q][n] \in 1 .. z BY <4>1, <4>2
      <4> QED BY <4>2, <4>3
    <3> QED BY <3>1
  <2>4. LTypes' BY <1>1, <1>8, <2>1, <2>2, <2>3 DEF LTypes
  <2>5. Collective' BY <1>2, <1>12 DEF Collective
  <2> QED BY <2>4, <2>5 DEF LogExact
<1>13. CASE has_communicator /\ b = <<>>
  <2>1. UNCHANGED <<lpc, given, reports>> BY <1>3, <1>13 DEF consolidate, r
  <2>3. \A q \in LRanks : \A n \in 1 .. Len(given[q]) : given[q][n] \in 1 .. Len(swapped'[q])
    <3>1. ASSUME NEW q \in LRanks, NEW n \in 1 .. Len(given[q]) PROVE given[q][n] \in 1 .. Len(swapped'[q])
      <4>1. given[q][n] \in 1 .. Len(swapped[q]) BY <1>1 DEF LTypes
      <4>2. PICK a \in Nat, z \in Nat : a = Len(swapped[q]) /\ z = Len(swapped'[q]) /\ a <= z BY <1>15
      <4>3. given[q][n] \in 1 .. z BY <4>1, <4>2
      <4> QED BY <4>2, <4>3
    <3> QED BY <3>1
  <2>4. LTypes' BY <1>1, <1>8, <2>1, <2>3 DEF LTypes
  <2>5. ~NoneSkipped' BY <1>10, <1>13
  <2>6. Collective' BY <1>1, <1>2, <2>1, <2>5 DEF Collective
  <2> QED BY <2>4, <2>6 DEF LogExact
<1>14. CASE has_communicator /\ b # <<>>
  <2>1. /\ reports' = reports
        /\ given' = [given EXCEPT ![r] = Append(@, Len(swapped[r]) + 1)]
        /\ lpc' = lpc \/ (r = 0 /\ lpc' = [lpc EXCEPT ![c] = "gather"])
    BY <1>3, <1>14 DEF consolidate, r, LGoto
  <2>2. PICK gr \in Seq(Nat) : gr = given[r] BY <1>0, <1>1 DEF LTypes
  <2>3. PICK w \in Nat : w = Len(gr) BY <2>2
  <2>4. /\ Append(gr, m + 1) \in Seq(Nat) /\ Len(Append(gr, m + 1)) = w + 1
        /\ \A n \in 1 .. w : Append(gr, m + 1)[n] = gr[n]
        /\ Append(gr, m + 1)[w + 1] = m + 1
    BY <1>5, <2>2, <2>3
  <2>5. /\ given'[r] = Append(gr, m + 1) /\ \A q \in LRanks \ {r} : given'[q] = given[q]
        /\ given' \in [LRanks -> Seq(Nat)]
    BY <1>0, <1>1, <1>4, <1>5, <2>1, <2>2, <2>4 DEF LTypes
  <2>6. ASSUME NEW q \in LRanks, NEW n \in 1 .. Len(given'[q]) PROVE given'[q][n] \in 1 .. Len(swapped'[q])
    <3>1. CASE q = r /\ n = w + 1 BY <1>9, <2>4, <2>5, <3>1
    <3>2. CASE q = r /\ n # w + 1
      <4>1. n \in 1 .. w BY <2>3, <2>4, <2>5, <3>2
      <4>2. given'[r][n] = gr[n] BY <2>4, <2>5, <4>1
      <4>3. gr[n] \in 1 .. m BY <1>0, <1>1, <1>4, <1>5, <2>2, <2>3, <4>1 DEF LTypes
      <4> QED BY <1>9, <3>2, <4>2, <4>3
    <3>3. CASE q # r
      <4>1. given'[q] = given[q] /\ Len(swapped'[q]) = Len(swapped[q]) BY <1>9, <2>5, <3>3
      <4> QED BY <1>1, <4>1 DEF LTypes
    <3> QED BY <3>1, <3>2, <3>3
  <2>7. lpc' \in [LCallers -> LPlaces] BY <1>1, <2>1 DEF LTypes, LPlaces
  <2>8. LTypes' BY <1>1, <1>8, <2>1, <2>5, <2>6, <2>7 DEF LTypes
  <2>9. ASSUME NEW d \in LCallers, lpc'[d] = "gather" PROVE given'[0] # <<>>
    <3>1. CASE r = 0
      <4>1. Len(given'[0]) = w + 1 BY <2>4, <2>5, <3>1
      <4> QED BY <2>3, <4>1, EmptySeq
    <3>2. CASE r # 0
      <4>1. given'[0] = given[0] /\ lpc' = lpc BY <1>0, <2>1, <2>5, <3>2
      <4> QED BY <1>1, <1>14, <2>9, <4>1 DEF Collective
    <3> QED BY <3>1, <3>2
  <2>10. ASSUME NoneSkipped' PROVE InStep' /\ \A i \in 1 .. Len(reports'[0]) : Reported(reports[0][i])'
    <3>1. InStep /\ \A i \in 1 .. Len(reports[0]) : Reported(reports[0][i])
      BY <1>1, <1>10, <1>14, <2>10 DEF Collective
    <3>2. w = m BY <1>0, <1>4, <1>5, <2>2, <2>3, <3>1 DEF InStep
    <3>3. ASSUME NEW q \in LRanks
          PROVE  Len(given'[q]) = Len(swapped'[q]) /\ \A n \in 1 .. Len(given'[q]) : given'[q][n] = n
      <4>1. CASE q = r
        <5>1. Len(given'[q]) = m + 1 /\ Len(swapped'[q]) = m + 1 BY <1>9, <2>4, <2>5, <3>2, <4>1
        <5>2. ASSUME NEW n \in 1 .. m + 1 PROVE given'[r][n] = n
          <6>1. CASE n = m + 1 BY <2>4, <2>5, <3>2, <6>1
          <6>2. CASE n # m + 1
            <7>1. n \in 1 .. w BY <3>2, <6>2
            <7>2. gr[n] = n BY <1>0, <2>2, <2>3, <3>1, <7>1 DEF InStep
            <7> QED BY <2>4, <2>5, <7>1, <7>2
          <6> QED BY <6>1, <6>2
        <5> QED BY <4>1, <5>1, <5>2
      <4>2. CASE q # r
        <5>1. given'[q] = given[q] /\ Len(swapped'[q]) = Len(swapped[q]) BY <1>9, <2>5, <4>2
        <5> QED BY <3>1, <5>1 DEF InStep
      <4> QED BY <4>1, <4>2
    <3>4. InStep' BY <3>3 DEF InStep
    <3>5. ASSUME NEW i \in 1 .. Len(reports'[0]) PROVE Reported(reports[0][i])'
      <4>1. PICK e : e = reports[0][i] OBVIOUS
      <4>2. Reported(e) BY <2>1, <3>1, <4>1
      <4>3. Reported(e)' BY <1>11, <4>2
      <4>4. reports'[0][i] = e BY <2>1, <4>1
      <4> QED BY <4>3, <4>4
    <3> QED BY <3>4, <3>5
  <2>11. Collective' BY <1>1, <1>14, <2>1, <2>9, <2>10 DEF Collective
  <2> QED BY <2>8, <2>11 DEF LogExact
<1> QED BY <1>12, <1>13, <1>14

\* The gather reports the consolidation of the buffers that were contributed.
LEMMA Reports ==
    ASSUME LogExact, NEW c \in LCallers, Gatherv(c)
    PROVE  LogExact'
<1>0. 0 \in LRanks BY LoggerConstants
<1>1. LTypes /\ Collective BY DEF LogExact
<1> DEFINE bufs == [q \in LRanks |-> swapped[q][given[q][Len(given[0])]]]
           new == [of |-> given[0][Len(given[0])], reps |-> consolidate_collective(bufs)]
<1>2. /\ lpc[c] = "gather" /\ lpc' = [lpc EXCEPT ![c] = "idle"]
      /\ \A q \in LRanks : Len(given[q]) >= Len(given[0])
      /\ reports' = [reports EXCEPT ![0] = Append(@, new)]
      /\ UNCHANGED <<has_communicator, lbuf, swapped, given>>
  BY DEF Gatherv, At, LGoto
<1> HIDE DEF bufs, new
<1>3. LTypes'
  <2>1. lpc' \in [LCallers -> LPlaces] BY <1>1, <1>2 DEF LTypes, LPlaces
  <2>2. DOMAIN reports' = LRanks BY <1>1, <1>2 DEF LTypes
  <2> QED BY <1>1, <1>2, <2>1, <2>2 DEF LTypes
<1>4. Collective'
  <2> SUFFICES ASSUME has_communicator PROVE Collective' BY <1>2 DEF Collective
  <2>1. PICK n \in Nat : n = Len(given[0]) BY <1>0, <1>1 DEF LTypes
  <2>2. n # 0
    <3>1. given[0] # <<>> /\ given[0] \in Seq(Nat) BY <1>0, <1>1, <1>2 DEF Collective, LTypes
    <3> QED BY <2>1, <3>1, EmptySeq
  <2>3. ASSUME NEW q \in LRanks PROVE n \in 1 .. Len(given[q]) /\ given[q][n] \in 1 .. Len(swapped[q])
    <3>1. Len(given[q]) \in Nat /\ Len(given[q]) >= n BY <1>1, <1>2, <2>1 DEF LTypes
    <3>2. n \in 1 .. Len(given[q]) BY <2>2, <3>1
    <3> QED BY <1>1, <3>2 DEF LTypes
  <2>4. bufs = [q \in LRanks |-> swapped[q][given[q][n]]] BY <2>1 DEF bufs
  <2>5. bufs \in [LRanks -> Seq(Keys)]
    <3>1. ASSUME NEW q \in LRanks PROVE swapped[q][given[q][n]] \in Seq(Keys)
      <4>1. PICK sq \in Seq(Seq(Keys)) : sq = swapped[q] BY <1>1 DEF LTypes
      <4>2. PICK k : k = given[q][n] OBVIOUS
      <4>3. k \in 1 .. Len(sq) BY <2>3, <4>1, <4>2
      <4>4. sq[k] \in Seq(Keys) BY <4>1, <4>3, ElementOfSeq
      <4> QED BY <4>1, <4>2, <4>4
    <3> QED BY <2>4, <3>1
  <2>6. new \in Report
    <3>1. consolidate_collective(bufs) \in SUBSET Representative BY <2>5, ConsolidationExact
    <3>2. given[0][n] \in Nat
      <4>1. given[0][n] \in 1 .. Len(swapped[0]) /\ Len(swapped[0]) \in Nat BY <1>0, <1>1, <2>3 DEF LTypes
      <4> QED BY <4>1
    <3>3. new = [of |-> given[0][n], reps |-> consolidate_collective(bufs)] BY <2>1 DEF new
    <3> QED BY <3>1, <3>2, <3>3 DEF Report
  <2>7. PICK rs \in Seq(Report) : rs = reports[0] BY <1>1 DEF Collective
  <2>8. PICK m \in Nat : m = Len(rs) BY <2>7
  <2>9. /\ Append(rs, new) \in Seq(Report) /\ Len(Append(rs, new)) = m + 1
        /\ \A i \in 1 .. m : Append(rs, new)[i] = rs[i]
        /\ Append(rs, new)[m + 1] = new
    BY <2>6, <2>7, <2>8
  <2>10. reports'[0] = Append(rs, new) BY <1>0, <1>1, <1>2, <2>7 DEF LTypes
  <2>11. ASSUME NEW d \in LCallers, lpc'[d] = "gather" PROVE given'[0] # <<>>
    <3>1. lpc[d] = "gather" BY <1>1, <1>2, <2>11 DEF LTypes
    <3> QED BY <1>1, <1>2, <3>1 DEF Collective
  <2>12. ASSUME NoneSkipped' PROVE InStep' /\ \A i \in 1 .. Len(reports'[0]) : Reported(reports[0][i])'
    <3>1. NoneSkipped BY <1>2, <2>12 DEF NoneSkipped
    <3>2. InStep /\ \A i \in 1 .. m : Reported(rs[i]) BY <1>1, <2>7, <2>8, <3>1 DEF Collective
    <3>3. InStep' BY <1>2, <3>2 DEF InStep
    <3>4. ASSUME NEW e PROVE Reported(e)' <=> Reported(e)
      BY <1>2 DEF Reported, consolidate_collective, deserialize_records, compact_ranges, RangesCount, WithRank, Lengthened, NewRange, Ascending
    <3>5. \A q \in LRanks : given[q][n] = n /\ n <= Len(swapped[q]) BY <2>3, <3>2 DEF InStep
    <3>6. new.of = n /\ new.reps = consolidate_collective(bufs) BY <1>0, <2>1, <3>5 DEF new
    <3>7. bufs = [q \in LRanks |-> swapped[q][n]] BY <2>4, <3>5
    <3>8. Reported(new) BY <2>2, <3>5, <3>6, <3>7 DEF Reported
    <3>9. ASSUME NEW i \in 1 .. m + 1 PROVE Reported(Append(rs, new)[i])
      <4>1. CASE i = m + 1 BY <2>9, <3>8, <4>1
      <4>2. CASE i # m + 1
        <5>1. i \in 1 .. m BY <4>2
        <5> QED BY <2>9, <3>2, <5>1
      <4> QED BY <4>1, <4>2
    <3>10. ASSUME NEW i \in 1 .. Len(reports'[0]) PROVE Reported(reports[0][i])'
      <4>1. i \in 1 .. m + 1 BY <2>9, <2>10
      <4>2. PICK e : e = Append(rs, new)[i] OBVIOUS
      <4>3. Reported(e)' BY <3>4, <3>9, <4>1, <4>2
      <4>4. reports'[0][i] = e BY <2>10, <4>2
      <4> QED BY <4>3, <4>4
    <3> QED BY <3>3, <3>10
  <2> QED BY <2>9, <2>10, <2>11, <2>12 DEF Collective
<1> QED BY <1>3, <1>4 DEF LogExact

\* Every step of the logger keeps the inductive invariant.
LEMMA LogStep == LogExact /\ [LNext]_lvars => LogExact'
<1> SUFFICES ASSUME LogExact, [LNext]_lvars PROVE LogExact' OBVIOUS
<1>1. LTypes BY DEF LogExact
<1>2. ASSUME NEW c \in LCallers, NEW k \in Keys, NEW call, log(c, k, call) PROVE LogExact'
  <2>1. c[1] \in LRanks BY DEF LRanks
  <2>2. lbuf' = lbuf \/ lbuf' = [lbuf EXCEPT ![c[1]] = Append(@, k)] BY <1>2 DEF log
  <2>3. lbuf' \in [LRanks -> Seq(Keys)]
    <3>1. lbuf[c[1]] \in Seq(Keys) BY <1>1, <2>1 DEF LTypes
    <3>2. Append(lbuf[c[1]], k) \in Seq(Keys) BY <3>1
    <3> QED BY <1>1, <2>2, <3>2 DEF LTypes
  <2>4. lpc' = lpc \/ lpc' = [lpc EXCEPT ![c] = "dispatch"] BY <1>2 DEF log, LGoto
  <2>5. lpc' \in [LCallers -> LPlaces] /\ \A d \in LCallers : lpc'[d] = "gather" => lpc[d] = "gather"
    BY <1>1, <2>4 DEF LTypes, LPlaces
  <2>6. UNCHANGED <<has_communicator, swapped, given, reports>> BY <1>2 DEF log
  <2> QED BY <2>3, <2>5, <2>6, LogOnly
<1>3. ASSUME NEW c \in LCallers, dispatch_to_sinks(c) \/ LogThrows(c) \/ try_acquire(c) \/ Abort(c) PROVE LogExact'
  <2>1. \E p \in {"latch", "idle", "spin", "abort", "aborted"} : lpc' = [lpc EXCEPT ![c] = p]
    <3>1. CASE dispatch_to_sinks(c) BY <3>1 DEF dispatch_to_sinks, LGoto
    <3>2. CASE LogThrows(c)
      <4>1. CASE lcall[c] = "fatal" BY <3>2, <4>1 DEF LogThrows, LGoto
      <4>2. CASE lcall[c] # "fatal" BY <3>2, <4>2 DEF LogThrows, LGoto
      <4> QED BY <4>1, <4>2
    <3>3. CASE try_acquire(c) BY <3>3 DEF try_acquire, LGoto
    <3>4. CASE Abort(c) BY <3>4 DEF Abort, LGoto
    <3> QED BY <1>3, <3>1, <3>2, <3>3, <3>4
  <2>2. PICK p \in {"latch", "idle", "spin", "abort", "aborted"} : lpc' = [lpc EXCEPT ![c] = p] BY <2>1
  <2>3. lpc' \in [LCallers -> LPlaces] /\ \A d \in LCallers : lpc'[d] = "gather" => lpc[d] = "gather"
    BY <1>1, <2>2 DEF LTypes, LPlaces
  <2>4. UNCHANGED <<has_communicator, swapped, given, reports, lbuf>>
    BY <1>3 DEF dispatch_to_sinks, LogThrows, try_acquire, Abort
  <2>5. lbuf' \in [LRanks -> Seq(Keys)] BY <1>1, <2>4 DEF LTypes
  <2> QED BY <2>3, <2>4, <2>5, LogOnly
<1>4. CASE UNCHANGED lvars
  <2>1. UNCHANGED <<has_communicator, lpc, lbuf, swapped, given, reports>> BY <1>4 DEF lvars
  <2>2. lpc' \in [LCallers -> LPlaces] /\ lbuf' \in [LRanks -> Seq(Keys)] BY <1>1, <2>1 DEF LTypes
  <2> QED BY <2>1, <2>2, LogOnly
<1>5. CASE LNext
  <2>1. PICK c \in LCallers :
          \/ \E k \in Keys, call \in {"log", "fatal"} : log(c, k, call)
          \/ LStep(c) \/ LogThrows(c) \/ consolidate(c)
    BY <1>5 DEF LNext
  <2>2. CASE \E k \in Keys, call \in {"log", "fatal"} : log(c, k, call) BY <1>2, <2>2
  <2>3. CASE dispatch_to_sinks(c) \/ LogThrows(c) \/ try_acquire(c) \/ Abort(c) BY <1>3, <2>3
  <2>4. CASE Gatherv(c) BY <2>4, Reports
  <2>5. CASE consolidate(c) BY <2>5, TakesBuffer
  <2> QED BY <2>1, <2>2, <2>3, <2>4, <2>5 DEF LStep
<1> QED BY <1>4, <1>5

\* The inductive invariant implies the property.
LEMMA LogExactNames == LogExact => ConsolidatedExact
<1> SUFFICES ASSUME LogExact, has_communicator, NoneSkipped, NEW i \in 1 .. Len(reports[0])
             PROVE  LET Had(k) == {q \in LRanks : k \in Range(swapped[q][reports[0][i].of])}
                    IN /\ \A q \in LRanks : Len(swapped[q]) >= reports[0][i].of
                       /\ {p.key : p \in reports[0][i].reps} = {k \in Keys : Had(k) # {}}
                       /\ \A p \in reports[0][i].reps :
                            /\ p.count = Cardinality(Had(p.key))
                            /\ UNION {g.first .. g.last : g \in Range(p.ranges)} = Had(p.key)
  BY DEF ConsolidatedExact
<1>1. PICK e : e = reports[0][i] OBVIOUS
<1>2. Reported(e) BY <1>1 DEF LogExact, Collective
<1>3. PICK n \in Nat : n = e.of /\ n # 0 BY <1>2 DEF Reported
<1>4. PICK bufs : bufs = [q \in LRanks |-> swapped[q][n]] OBVIOUS
<1>5. ASSUME NEW q \in LRanks PROVE n \in 1 .. Len(swapped[q]) /\ swapped[q] \in Seq(Seq(Keys)) /\ Len(swapped[q]) >= n
  <2>1. swapped[q] \in Seq(Seq(Keys)) BY DEF LogExact, LTypes
  <2>2. n <= Len(swapped[q]) BY <1>2, <1>3 DEF Reported
  <2> QED BY <1>3, <2>1, <2>2
<1>6. bufs \in [LRanks -> Seq(Keys)]
  <2>1. \A q \in LRanks : swapped[q][n] \in Seq(Keys) BY <1>5, ElementOfSeq
  <2> QED BY <1>4, <2>1
<1>7. e.reps = consolidate_collective(bufs) BY <1>2, <1>3, <1>4 DEF Reported
<1>8. Names(e.reps, bufs) BY <1>6, <1>7, ConsolidationExact
<1>9. \A q \in LRanks : bufs[q] = swapped[q][reports[0][i].of] BY <1>1, <1>3, <1>4
<1> DEFINE Had(k) == {q \in LRanks : k \in Range(swapped[q][reports[0][i].of])}
<1>10. ASSUME NEW k PROVE {q \in LRanks : k \in Range(bufs[q])} = Had(k) BY <1>9
<1>11. {p.key : p \in e.reps} = {k \in Keys : Had(k) # {}} BY <1>8, <1>10, Zenon DEF Names
<1>12. ASSUME NEW p \in e.reps
       PROVE  p.count = Cardinality(Had(p.key)) /\ UNION {g.first .. g.last : g \in Range(p.ranges)} = Had(p.key)
  <2>1. {q \in LRanks : p.key \in Range(bufs[q])} = Had(p.key) BY <1>10
  <2> QED BY <1>8, <2>1, Zenon DEF Names
<1>13. \A q \in LRanks : Len(swapped[q]) >= reports[0][i].of BY <1>1, <1>3, <1>5
<1> QED BY <1>1, <1>11, <1>12, <1>13, Zenon

\* With any ranks, records and interleaving of the threads: what rank 0
\* prints for a consolidation (Logger::consolidate) names exactly the ranks
\* that had each record, as long as none came with an empty buffer.
THEOREM ConsolidationsStayExact == LSpec => []ConsolidatedExact
<1>1. LogExact => ConsolidatedExact BY LogExactNames
<1> QED BY LogStart, LogStep, <1>1, PTL DEF LSpec
=============================================================================
