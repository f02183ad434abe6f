------------------------------ MODULE Buffers -------------------------------
(***************************************************************************)
(* LMFlowBuffer, the strided buffer that crosses the C ABI: what the       *)
(* engine accepts of a host's descriptor (validate_buffer_descriptor), how *)
(* it lays out its own buffers (BufferData::checked_layout), and the three *)
(* loops that copy a strided buffer to a row-major one (two in             *)
(* lmflow_packet_from_buffer, one in ExternalBuffer::copy_to_owned).       *)
(*                                                                         *)
(* A copy is modelled by its effect: the sequence that has, for every byte *)
(* of the destination, the offset from `data` of the byte it is read from. *)
(* A descriptor has the first ndim entries of shape and strides, the       *)
(* address of its data (0: null), the size of an element (0: dtype         *)
(* unknown), whether it is READONLY, and `plain`: device, flags, reserved  *)
(* fields and entries after ndim are what they must be.                    *)
(***************************************************************************)
EXTENDS Integers, Sequences
LOCAL INSTANCE SequencesExt

CONSTANTS MaxDims,   \* packet::MAX_DIMS
          I64Max     \* the largest i64 and isize

UsizeMax == 2 * I64Max + 1

Product(s) == FoldLeft(LAMBDA a, b : a * b, 1, s)
Total(s) == FoldLeft(LAMBDA a, b : a + b, 0, s)

\* Multiplied from the left, no intermediate product exceeds the limit.
Multiplies(s, limit) == \A i \in DOMAIN s : Product(SubSeq(s, 1, i)) <= limit
\* The product of the axes from i on.
Inner(shape, i) == Product(SubSeq(shape, i, Len(shape)))

Count(d) == Product(d.shape)
Size(d) == Count(d) * d.element

---------------------------------------------------------------------------
(* What the engine accepts.                                                *)

\* checked_layout: the strides grow from the last axis, each checked.
LaysOut(shape, element) ==
    /\ Len(shape) \in 1 .. MaxDims /\ element > 0
    /\ \A i \in DOMAIN shape : shape[i] >= 0
    /\ Multiplies(shape, I64Max)
    /\ Product(shape) * element <= UsizeMax
    /\ \A i \in DOMAIN shape : Inner(shape, i) * element <= I64Max
RowMajorStrides(shape, element) == [i \in DOMAIN shape |-> Inner(shape, i + 1) * element]

\* The offsets a descriptor spans; an empty axis counts as one of length 1.
Extents(d) == [i \in DOMAIN d.shape |-> (IF d.shape[i] = 0 THEN 0 ELSE d.shape[i] - 1) * d.strides[i]]
FirstByte(d) == Total(SelectSeq(Extents(d), LAMBDA x : x < 0))
LastByte(d) == Total(SelectSeq(Extents(d), LAMBDA x : x >= 0)) + d.element - 1

Accepted(d) ==
    /\ Len(d.shape) \in 1 .. MaxDims /\ d.plain /\ d.element > 0
    /\ \A i \in DOMAIN d.shape : d.shape[i] >= 0
    /\ Multiplies(d.shape, UsizeMax)
    /\ FirstByte(d) >= -I64Max - 1 /\ LastByte(d) <= I64Max
    /\ Count(d) > 0 =>
          d.data # 0 /\ d.data + FirstByte(d) >= 0 /\ d.data + LastByte(d) <= UsizeMax
    /\ Size(d) <= UsizeMax

---------------------------------------------------------------------------
(* The loops.                                                              *)

\* n bytes in a row.
Bytes(offset, n) == [k \in 1 .. n |-> offset + k - 1]

\* The odometer: the last axis that has not come to its end goes on, the
\* ones after it start again.
Tick(index, dims) ==
    LET running == {i \in DOMAIN dims : index[i] + 1 < dims[i]}
    IN  [i \in DOMAIN dims |->
           CASE \E j \in running : j > i -> index[i]
             [] i \in running /\ \A j \in running : j <= i -> index[i] + 1
             [] OTHER -> 0]
\* The index the odometer shows at the start of round r, for r up to n.
Rounds(dims, n) ==
    LET at[r \in 0 .. n] == IF r = 0 THEN [i \in DOMAIN dims |-> 0] ELSE Tick(at[r - 1], dims)
    IN  at
OffsetOf(d, index) == Total([i \in DOMAIN index |-> index[i] * d.strides[i]])

\* copy_to_owned: element by element.
CopyElements(d) ==
    LET at == Rounds(d.shape, Count(d))
    IN  FlattenSeq([e \in 1 .. Count(d) |-> Bytes(OffsetOf(d, at[e - 1]), d.element)])

\* A mutant: strides that look packed on the last axis alone.
PackedLoosely(d) == d.strides[Len(d.shape)] = d.element

\* lmflow_packet_from_buffer: all at once if the descriptor is row-major,
\* else row by row, the elements of a row one by one if they are apart.
Packed(d) == d.strides = RowMajorStrides(d.shape, d.element)
CopyRows(d) ==
    LET last == d.shape[Len(d.shape)]
        step == d.strides[Len(d.shape)]
        rows == Count(d) \div last
        at == Rounds(Front(d.shape), rows)
        Row(offset) == IF step = d.element
                         THEN Bytes(offset, last * d.element)
                         ELSE FlattenSeq([k \in 1 .. last |-> Bytes(offset + (k - 1) * step, d.element)])
    IN  FlattenSeq([r \in 1 .. rows |-> Row(OffsetOf(d, at[r - 1]))])
CopyIn(d) == IF Count(d) = 0 THEN <<>> ELSE IF Packed(d) THEN Bytes(0, Size(d)) ELSE CopyRows(d)

---------------------------------------------------------------------------
(* What they are for: the bytes of the elements in row-major order, found  *)
(* without a loop.                                                         *)
RowMajor(d) ==
    [k \in 1 .. Size(d) |->
       LET e == (k - 1) \div d.element
           index == [i \in DOMAIN d.shape |-> (e \div Inner(d.shape, i + 1)) % d.shape[i]]
       IN  OffsetOf(d, index) + ((k - 1) % d.element)]

(***************************************************************************)
(* Whatever strides a host's buffer has (transposed, sliced, reversed,     *)
(* repeated), both copies have its elements in row-major order and read    *)
(* only bytes between the ends that were checked against the address       *)
(* space. An accepted buffer may be refused a copy only if it is empty, or *)
(* repeats elements (stride 0) to more bytes than can be allocated.        *)
(***************************************************************************)
CopiesExactly(d) ==
    Accepted(d) =>
        /\ LaysOut(d.shape, d.element) \/ Count(d) = 0 \/ Size(d) > I64Max
        /\ LaysOut(d.shape, d.element) => CopyIn(d) = RowMajor(d) /\ CopyElements(d) = RowMajor(d)
        /\ \A k \in 1 .. Size(d) : RowMajor(d)[k] \in FirstByte(d) .. LastByte(d)
=============================================================================
