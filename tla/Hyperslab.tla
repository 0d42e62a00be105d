----------------------------- MODULE Hyperslab -----------------------------
(***************************************************************************)
(* Shapes, strides and bounding boxes as AMIO's drivers compute with them: *)
(* a shape is a sequence of extents, a payload the sequence of its         *)
(* elements in row-major order, coordinates count from zero.               *)
(***************************************************************************)
EXTENDS Integers, Sequences, FiniteSets

LOCAL INSTANCE SequencesExt

\* total_elements, for a shape whose extents are positive.
total_elements(shape) == FoldLeft(LAMBDA n, e : n * e, 1, shape)

\* The distance in elements between neighbours along dimension d.
RowMajorStride(shape, d) == total_elements(SubSeq(shape, d + 1, Len(shape)))

\* The odometer of the gather loops: the coordinates it shows at its e-th
\* turn, the last dimension turning fastest.
Odometer(shape, e) ==
    [d \in DOMAIN shape |-> (e \div RowMajorStride(shape, d)) % shape[d]]

Dot(a, b) == FoldLeft(LAMBDA s, d : s + a[d] * b[d], 0, [d \in DOMAIN a |-> d])

\* The turns of the odometer of a shape.
Turns(shape) == [e \in 1 .. total_elements(shape) |-> Odometer(shape, e - 1)]

-----------------------------------------------------------------------------
(* Bounding boxes: [offsets, extents, strides], one entry per dimension.  *)

LastAt(b, d) == b.offsets[d] + (b.extents[d] - 1) * b.strides[d]

\* amio_core's check of a box against the shape the driver described.
validate_bbox(b, shape) ==
    /\ Len(b.offsets) = Len(shape)
    /\ \A d \in DOMAIN shape :
          b.strides[d] >= 1 /\ b.offsets[d] >= 0 /\ b.extents[d] >= 1 /\ LastAt(b, d) < shape[d]

\* The box that selects a whole shape.
Whole(shape) == [offsets |-> [d \in DOMAIN shape |-> 0], extents |-> shape,
                 strides |-> [d \in DOMAIN shape |-> 1]]

\* The coordinates a box selects at each turn of its odometer.
Selected(b) == [e \in 1 .. total_elements(b.extents) |->
                  [d \in DOMAIN b.extents |->
                     b.offsets[d] + Odometer(b.extents, e - 1)[d] * b.strides[d]]]

\* GRIB2's decode-then-subset: a box gathered from a row-major grid.
GatherAt(extents, b) ==
    [e \in DOMAIN Selected(b) |->
       1 + Dot(Selected(b)[e], [d \in DOMAIN extents |-> RowMajorStride(extents, d)])]

\* What a box means, whatever computes it: the elements of the payload whose
\* coordinates lie on the box's lattice, in their order.
InBox(b, c) == \A d \in DOMAIN c : /\ c[d] >= b.offsets[d]
                                   /\ c[d] <= LastAt(b, d)
                                   /\ (c[d] - b.offsets[d]) % b.strides[d] = 0

Boxed(payload, shape, b) ==
    LET at == SelectSeq([e \in DOMAIN payload |-> e], LAMBDA e : InBox(b, Turns(shape)[e]))
    IN  [k \in DOMAIN at |-> payload[at[k]]]

-----------------------------------------------------------------------------
(* Strided host memory, strides in elements, zero for "derive it".        *)

is_contiguous_row_major(shape, strides) ==
    \A d \in DOMAIN shape : strides[d] \in {0, RowMajorStride(shape, d)}

ActualStrides(shape, strides) ==
    [d \in DOMAIN shape |-> IF strides[d] = 0 THEN RowMajorStride(shape, d) ELSE strides[d]]

\* The element of the source each element of the packed payload comes from.
pack_row_major(shape, strides) ==
    [e \in 1 .. total_elements(shape) |->
       1 + Dot(Odometer(shape, e - 1), ActualStrides(shape, strides))]
=============================================================================
