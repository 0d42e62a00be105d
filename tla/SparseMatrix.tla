---------------------------- MODULE SparseMatrix ----------------------------
(***************************************************************************)
(* The AXIS interpolation matrix once its weights are generated: the two   *)
(* storage formats (interpolation_matrix.hpp), the ways of applying it     *)
(* (apply.hpp), the binary cache (weight_cache.hpp), the conservation      *)
(* report (conservation.cpp) and the distributed forms                     *)
(* (weight_generator.cpp, distributed_weight_generator.cpp).               *)
(*                                                                         *)
(* A field is a function from cells 0..n-1 to exact fractions.  A matrix   *)
(* is [n_src, n_dst, coo, frac_a, frac_b, area_a, area_b] with coo the     *)
(* sequence of its entries; its CSR arrays are kept apart and are the      *)
(* empty record NoCsr until to_csr builds them.                            *)
(***************************************************************************)
EXTENDS RegridWeights, SequencesExt

Zero == <<0, 1>>
NaN == <<0, 0>>

(* The constructor adopts the arrays; entries pushed in any order. *)
Earlier(e, f) == \/ e.row < f.row
                 \/ e.row = f.row /\ e.col < f.col
                 \/ e.row = f.row /\ e.col = f.col /\ e.k < f.k
Listed(S) == [n \in 1..Cardinality(S) |->
                CHOOSE e \in S : Cardinality({f \in S : Earlier(f, e)}) = n - 1]
InterpolationMatrix(m) ==
    [n_src |-> m.n_src, n_dst |-> m.n_dst, coo |-> Reverse(Listed(m.entries)),
     frac_a |-> m.frac_a, frac_b |-> m.frac_b, area_a |-> m.area_a, area_b |-> m.area_b]

NoCsr == [built |-> FALSE]

(* Entries per row counted one place up, then summed in place. *)
RowPtr(coo, n) == [j \in 1..n + 1 |-> Cardinality({k \in DOMAIN coo : coo[k].row <= j - 2})]

(* The permutation that sorts the entries by row and column. *)
Sorted(coo) ==
    LET before(a, b) == \/ coo[a].row < coo[b].row
                        \/ coo[a].row = coo[b].row /\ coo[a].col < coo[b].col
                        \/ coo[a].row = coo[b].row /\ coo[a].col = coo[b].col /\ a < b
    IN  [n \in DOMAIN coo |-> CHOOSE a \in DOMAIN coo :
                                Cardinality({b \in DOMAIN coo : before(b, a)}) = n - 1]

ToCsr(m) == LET perm == Sorted(m.coo) IN
    [built |-> TRUE, row_ptr |-> RowPtr(m.coo, m.n_dst),
     col_idx |-> [k \in DOMAIN m.coo |-> m.coo[perm[k]].col],
     vals |-> [k \in DOMAIN m.coo |-> m.coo[perm[k]].w]]

(* The KokkosSparse operator: a copy of the CSR arrays, made at first use and
   kept.  NoCsr until then. *)
KkCrsMatrix(csr, kk) == IF kk.built THEN kk ELSE csr

(***************************************************************************)
(* Applying.                                                               *)
(***************************************************************************)
RowRange(csr, j) == csr.row_ptr[j + 1] + 1..csr.row_ptr[j + 2]

(* Row-parallel product: every row sums its own range. *)
CsrRow(csr, j, x) == RatioSum(RowRange(csr, j), LAMBDA k : RatioTimes(csr.vals[k], x[csr.col_idx[k]]))

(* Scatter-add of the entries kept by the mask into a field y that holds
   zeros where rows are kept. *)
ScatterAdd(coo, x, keep, y) ==
    FoldLeft(LAMBDA acc, e : IF e.row \in keep
                             THEN [acc EXCEPT ![e.row] = RatioPlus(@, RatioTimes(e.w, x[e.col]))]
                             ELSE acc,
             y, coo)

Extent(f) == Cardinality(DOMAIN f)

(* Whether the extents let an apply run at all. *)
ApplyAccepts(m, x, y) == Extent(x) = m.n_src /\ Extent(y) = m.n_dst

(* apply: CSR by the cached operator, else COO over a zeroed field. *)
Apply(m, csr, kk, x, y) ==
    IF csr.built THEN [j \in DOMAIN y |-> CsrRow(KkCrsMatrix(csr, kk), j, x)]
    ELSE ScatterAdd(m.coo, x, DOMAIN y, [j \in DOMAIN y |-> Zero])

(* apply with a destination mask: masked rows keep what dst held. *)
MaskedApply(m, csr, x, y, mask) ==
    LET keep == {j \in DOMAIN y : Len(mask) = m.n_dst => mask[j + 1] # 0}
    IN  IF csr.built THEN [j \in DOMAIN y |-> IF j \in keep THEN CsrRow(csr, j, x) ELSE y[j]]
        ELSE ScatterAdd(m.coo, x, keep, [j \in DOMAIN y |-> IF j \in keep THEN Zero ELSE y[j]])

(* batch_apply: every variable of xs by the same operator; as many variables
   in as out. *)
BatchAccepts(m, xs, ys) ==
    /\ Len(xs) = Len(ys)
    /\ \A v \in DOMAIN xs : ApplyAccepts(m, xs[v], ys[v])

BatchApply(m, csr, kk, xs, ys) ==
    [v \in DOMAIN ys |->
        IF csr.built THEN [j \in DOMAIN ys[v] |-> CsrRow(KkCrsMatrix(csr, kk), j, xs[v])]
        ELSE ScatterAdd(m.coo, xs[v], DOMAIN ys[v], [j \in DOMAIN ys[v] |-> Zero])]

(* nan_batch_apply, CSR only: rows are renormalised over their valid sources
   and NaN when too little of the row is valid (thres a fraction). *)
NanRow(csr, j, x, thres) ==
    LET range == RowRange(csr, j)
        valid == {k \in range : x[csr.col_idx[k]] # NaN}
        total == RatioSum(range, LAMBDA k : csr.vals[k])
        good == RatioSum(valid, LAMBDA k : csr.vals[k])
        dot == RatioSum(valid, LAMBDA k : RatioTimes(csr.vals[k], x[csr.col_idx[k]]))
    IN  IF good[1] = 0 \/ total[1] = 0 THEN NaN
        ELSE IF RatioLess(RatioOver(good, total), RatioMinus(<<1, 1>>, thres)) THEN NaN
        ELSE RatioOver(dot, good)

NanBatchApply(csr, xs, ys, thres) ==
    [v \in DOMAIN ys |-> [j \in DOMAIN ys[v] |-> NanRow(csr, j, xs[v], thres)]]

(***************************************************************************)
(* The weight cache.  A blob is its header, its body as one sequence of    *)
(* words and the size of the buffer that holds it, in bytes.               *)
(***************************************************************************)
Magic == "AXWC"
FormatVersion == 1
HeaderSize == 40

(* Weights, 64-bit indices, fractions and areas are all 8 bytes. *)
ComputeBlobSize(nSrc, nDst, nnz) == HeaderSize + nnz * 24 + nSrc * 16 + nDst * 16

WriteHeader(nSrc, nDst, nnz, endian) ==
    [magic |-> Magic, version |-> FormatVersion, endian |-> endian,
     n_src |-> nSrc, n_dst |-> nDst, nnz |-> nnz]

Cells0(f) == [i \in 1..Extent(f) |-> f[i - 1]]

(* serialize; a null buffer only asks for the size, a short one is refused. *)
Serialize(m, bufSize, endian) ==
    IF bufSize < ComputeBlobSize(m.n_src, m.n_dst, Len(m.coo)) THEN Refused
    ELSE [header |-> WriteHeader(m.n_src, m.n_dst, Len(m.coo), endian),
          size |-> bufSize,
          list |-> [k \in DOMAIN m.coo |-> m.coo[k].w],
          index |-> [k \in DOMAIN m.coo |-> m.coo[k].row] \o [k \in DOMAIN m.coo |-> m.coo[k].col],
          tail |-> Cells0(m.frac_a) \o Cells0(m.frac_b),
          areas |-> Cells0(m.area_a) \o Cells0(m.area_b)]

(* The body is cut by the extents of the header, in the order written. *)
Cut(s, from, n) == [i \in 0..n - 1 |-> s[from + i + 1]]

BlobAccepted(b, endian) ==
    /\ b.size >= HeaderSize
    /\ b.header.magic = Magic /\ b.header.version = FormatVersion /\ b.header.endian = endian
    /\ b.size >= ComputeBlobSize(b.header.n_src, b.header.n_dst, b.header.nnz)

Deserialize(b, endian) ==
    IF ~BlobAccepted(b, endian) THEN Refused
    ELSE [n_src |-> b.header.n_src, n_dst |-> b.header.n_dst,
          coo |-> [k \in 1..b.header.nnz |-> Entry(b.index[k], b.index[b.header.nnz + k], 0, b.list[k])],
          frac_a |-> Cut(b.tail, 0, b.header.n_src),
          frac_b |-> Cut(b.tail, b.header.n_src, b.header.n_dst),
          area_a |-> Cut(b.areas, 0, b.header.n_src),
          area_b |-> Cut(b.areas, b.header.n_src, b.header.n_dst)]

(***************************************************************************)
(* Conservation accounting.                                                *)
(***************************************************************************)
SourceIntegral(m, x) ==
    RatioSum(DOMAIN x, LAMBDA c : RatioTimes(RatioTimes(x[c], m.frac_a[c]), <<m.area_a[c], 1>>))

DestinationIntegral(m, y, norm) ==
    IF norm = "DstArea"
    THEN RatioSum({j \in DOMAIN y : m.frac_b[j][1] # 0}, LAMBDA j : RatioTimes(y[j], <<m.area_b[j], 1>>))
    ELSE RatioSum(DOMAIN y, LAMBDA j : RatioTimes(RatioTimes(y[j], m.frac_b[j]), <<m.area_b[j], 1>>))

CheckConservation(m, x, y, norm) ==
    [src |-> SourceIntegral(m, x), dst |-> DestinationIntegral(m, y, norm)]

AdjustByFraction(m, y) ==
    [j \in DOMAIN y |-> IF m.frac_b[j][1] # 0 THEN RatioOver(y[j], m.frac_b[j]) ELSE y[j]]

(***************************************************************************)
(* Distributed forms.                                                      *)
(***************************************************************************)

(* The columns owned by another rank, grouped by owner; the local rank is
   taken from the owner of the mesh's first cell. *)
OffRank(m, owner) == {c \in {m.coo[k].col : k \in DOMAIN m.coo} : owner[c] # owner[0]}

OffRankOrder(m, owner) ==
    LET cols == OffRank(m, owner)
        before(a, b) == owner[a] < owner[b] \/ (owner[a] = owner[b] /\ a < b)
    IN  [n \in 1..Cardinality(cols) |-> CHOOSE c \in cols :
            Cardinality({b \in cols : before(b, c)}) = n - 1]

(* The published pattern: neighbour ranks, where each one's ids start, and
   the ids in gather order.  Cells are their own global ids. *)
MakeHaloPattern(order, owner) ==
    LET starts == {n \in DOMAIN order : n = 1 \/ owner[order[n]] # owner[order[n - 1]]}
        nth(i) == CHOOSE n \in starts : Cardinality({p \in starts : p < n}) = i - 1
    IN  [source_ranks |-> [i \in 1..Cardinality(starts) |-> owner[order[nth(i)]]],
         rank_offsets |-> [i \in 1..Cardinality(starts) |-> nth(i) - 1] \o <<Len(order)>>,
         needed |-> order]

\* Mutant of Remapped: in the order of the cells, not in gather order.
RemappedUnsorted(m, order) ==
    LET slot(c) == m.n_src + Cardinality({d \in Range(order) : d < c})
    IN  [k \in DOMAIN m.coo |-> IF m.coo[k].col \in Range(order)
                                THEN [m.coo[k] EXCEPT !.col = slot(@)] ELSE m.coo[k]]

(* Off-rank columns point past the local cells, into the gathered buffer. *)
Remapped(m, order) ==
    LET slot(c) == m.n_src + (CHOOSE n \in DOMAIN order : order[n] = c) - 1
    IN  [k \in DOMAIN m.coo |-> IF m.coo[k].col \in Range(order)
                                THEN [m.coo[k] EXCEPT !.col = slot(@)] ELSE m.coo[k]]

DistributedForm(m, owner) ==
    LET order == OffRankOrder(m, owner)
    IN  [matrix |-> [m EXCEPT !.n_src = m.n_src + Len(order), !.coo = Remapped(m, order)],
         pattern |-> MakeHaloPattern(order, owner)]

(* The distributed apply: a column below the local extent reads local_src,
   the rest the gathered buffer. *)
DistributedAccepts(f, local, halo, y) ==
    /\ Extent(y) = f.matrix.n_dst /\ Len(halo) = Len(f.pattern.needed)
    /\ Extent(local) + Len(f.pattern.needed) = f.matrix.n_src

DistributedApply(f, local, halo, y) ==
    LET n == Extent(local)
        value == [c \in 0..f.matrix.n_src - 1 |-> IF c < n THEN local[c] ELSE halo[c - n + 1]]
    IN  ScatterAdd(f.matrix.coo, value, DOMAIN y, [j \in DOMAIN y |-> Zero])

(* HALO's part: the values by rank and id, in gather order. *)
Gather(pattern, x) == [n \in DOMAIN pattern.needed |-> x[pattern.needed[n]]]

(* DistributedWeightGenerator: each rank generates for its own meshes and
   moves its rows past those of the ranks before it. *)
RankOffset(counts, r) == SumOf(1..r - 1, LAMBDA q : counts[q])

MovedRows(m, off) == IF IsMatrix(m) THEN {[e EXCEPT !.row = @ + off] : e \in m.entries} ELSE {}

RankRows(src, dsts, cfg, r) ==
    MovedRows(Generate(src, dsts[r], cfg), RankOffset([q \in DOMAIN dsts |-> CellCount(dsts[q])], r))
=============================================================================
