---------------------------- MODULE TensorLayout ----------------------------
(***************************************************************************)
(* Where the elements of a tensor are: the types of TensorIR.cpp, the      *)
(* shape rules of GraphAnalyzer.cpp, the index expressions that            *)
(* GraphMetalEmitter.cpp and FusionMetalEmitter.cpp write into kernels,    *)
(* and the indices of the reference evaluation (GraphReference.cpp).       *)
(*                                                                         *)
(* Axes are numbered from 1 here; the signed axes of node attributes are   *)
(* those of the code and start at 0.  Linear indices and offsets start at  *)
(* 0.  Dimensions are positive and everything fits its integer type.       *)
(***************************************************************************)
EXTENDS Integers, SequencesExt, FiniteSetsExt

----------------------------------------------------------------------------
(* Types *)

Size(shape) == FoldLeft(LAMBDA n, d : n * d, 1, shape)

ContiguousStrides(shape) ==
  [i \in DOMAIN shape |-> Size(SubSeq(shape, i + 1, Len(shape)))]

Contiguous(shape, dtype) ==
  [shape |-> shape, dtype |-> dtype, layout |-> "contiguous", explicitStrides |-> <<>>]
Strided(shape, dtype, strides) ==
  [shape |-> shape, dtype |-> dtype, layout |-> "strided", explicitStrides |-> strides]

Strides(type) ==
  IF type.layout = "contiguous" THEN ContiguousStrides(type.shape)
                                ELSE type.explicitStrides

IsContiguous(type) ==
  type.layout = "contiguous" \/ type.explicitStrides = ContiguousStrides(type.shape)

----------------------------------------------------------------------------
(* Shape rules *)

\* Dimension i of a shape aligned at the right of one of this rank.
Dimension(shape, rank, i) ==
  IF i > rank - Len(shape) THEN shape[i - (rank - Len(shape))] ELSE 1

Rank(a, b) == Max({Len(a), Len(b)})
Broadcastable(a, b) ==
  \A i \in 1 .. Rank(a, b) :
    LET x == Dimension(a, Rank(a, b), i)
        y == Dimension(b, Rank(a, b), i)
    IN  x = y \/ x = 1 \/ y = 1
BroadcastShape(a, b) ==
  [i \in 1 .. Rank(a, b) |->
     Max({Dimension(a, Rank(a, b), i), Dimension(b, Rank(a, b), i)})]

\* The axis of a signed one; in range if it is one of 1 .. rank.
NormalizeAxis(axis, rank) == 1 + (IF axis < 0 THEN axis + rank ELSE axis)
AxisInRange(axis, rank) == NormalizeAxis(axis, rank) \in 1 .. rank

AxesOf(axes, rank) == {NormalizeAxis(axes[k], rank) : k \in DOMAIN axes}
AxesAccepted(axes, rank) ==
  /\ axes # <<>> /\ \A k \in DOMAIN axes : AxisInRange(axes[k], rank)
  /\ Cardinality(AxesOf(axes, rank)) = Len(axes)

BatchShape(shape) == SubSeq(shape, 1, Len(shape) - 2)

----------------------------------------------------------------------------
(* The kernels' indices: a coordinate is (linear / stride) % dimension.      *)

\* Coordinate i of the element at a linear index of this shape.
Coordinate(linear, strides, shape, i) == (linear \div strides[i]) % shape[i]

\* Mutant: the operand is taken for a contiguous one.
DenseIndex(type, shape, linear) ==
  LET out == ContiguousStrides(shape)
      own == ContiguousStrides(type.shape)
      leading == Len(shape) - Len(type.shape)
  IN  MapThenSumSet(LAMBDA i : ((linear \div out[leading + i]) % type.shape[i]) * own[i],
                    {i \in DOMAIN type.shape : type.shape[i] # 1})

\* logicalIndex: where an operand holds what is broadcast to this element.
LogicalIndex(type, shape, linear) ==
  LET out == ContiguousStrides(shape)
      own == Strides(type)
      leading == Len(shape) - Len(type.shape)
  IN  MapThenSumSet(LAMBDA i : ((linear \div out[leading + i]) % type.shape[i]) * own[i],
                    {i \in DOMAIN type.shape : type.shape[i] # 1})

\* batchBase: the offset of the matrix that an operand has for a batch.
BatchBase(type, outShape, batch) ==
  LET out == ContiguousStrides(BatchShape(outShape))
      own == Strides(type)
      leading == Len(outShape) - Len(type.shape)
  IN  MapThenSumSet(LAMBDA i : ((batch \div out[leading + i]) % type.shape[i]) * own[i],
                    {i \in DOMAIN BatchShape(type.shape) : type.shape[i] # 1})

\* axisIndex: this element with another coordinate on one axis.
AxisIndex(type, outShape, axis, linear, coordinate) ==
  LET out == ContiguousStrides(outShape)
      own == Strides(type)
  IN  MapThenSumSet(
        LAMBDA i : (IF i = axis THEN coordinate ELSE Coordinate(linear, out, outShape, i)) * own[i],
        DOMAIN type.shape)

\* reductionIndex: the reduced axes count through `reduce', the others through
\* the output's axes, of which the kept ones of size 1 are skipped.
ReductionIndex(type, outShape, axes, keep, gid, reduce) ==
  LET out == ContiguousStrides(outShape)
      own == Strides(type)
      reduced == [i \in DOMAIN type.shape |-> IF i \in axes THEN type.shape[i] ELSE 1]
      inner == ContiguousStrides(reduced)
      OutAxis(i) == IF keep THEN i ELSE Cardinality({j \in 1 .. i : j \notin axes})
  IN  MapThenSumSet(
        LAMBDA i : (IF i \in axes THEN Coordinate(reduce, inner, reduced, i)
                                  ELSE Coordinate(gid, out, outShape, OutAxis(i))) * own[i],
        DOMAIN type.shape)

\* sliceIndex
SliceIndex(type, outShape, slice, gid) ==
  LET out == ContiguousStrides(outShape)
      own == Strides(type)
  IN  MapThenSumSet(
        LAMBDA i : (slice.starts[i] + Coordinate(gid, out, outShape, i) * slice.steps[i]) * own[i],
        DOMAIN type.shape)

\* The operands of Gather: the axes of the indices replace one axis of the data.
GatherIndex(type, outShape, axis, gid) ==
  LET out == ContiguousStrides(outShape)
      own == Strides(type)
  IN  MapThenSumSet(LAMBDA i : Coordinate(gid, out, outShape, axis + i - 1) * own[i],
                    DOMAIN type.shape)
GatheredIndex(type, indexRank, outShape, axis, gid, selected) ==
  LET out == ContiguousStrides(outShape)
      own == Strides(type)
      OutAxis(i) == IF i < axis THEN i ELSE i + indexRank - 1
  IN  MapThenSumSet(
        LAMBDA i : (IF i = axis THEN selected ELSE Coordinate(gid, out, outShape, OutAxis(i)))
                     * own[i],
        DOMAIN type.shape)

----------------------------------------------------------------------------
(* The reference's indices: its values are dense, in the order of the        *)
(* coordinates.                                                              *)

CoordinatesAt(linear, shape) ==
  LET strides == ContiguousStrides(shape)
  IN  [i \in DOMAIN shape |-> Coordinate(linear, strides, shape, i)]
LinearOf(coordinates, shape) ==
  LET strides == ContiguousStrides(shape)
  IN  MapThenSumSet(LAMBDA i : coordinates[i] * strides[i], DOMAIN shape)

InputIndex(linear, outShape, shape) ==
  LET at == CoordinatesAt(linear, outShape)
      leading == Len(outShape) - Len(shape)
  IN  LinearOf([i \in DOMAIN shape |-> IF shape[i] = 1 THEN 0 ELSE at[leading + i]], shape)

ReplaceAxisIndex(linear, shape, axis, coordinate) ==
  LinearOf([CoordinatesAt(linear, shape) EXCEPT ![axis] = coordinate], shape)

Swapped(s, first, second) == [s EXCEPT ![first] = s[second], ![second] = s[first]]

\* The output element that an input element is reduced into.
ReducedIndex(linear, shape, outShape, axes, keep) ==
  LET at == CoordinatesAt(linear, shape)
      kept == SetToSortSeq(DOMAIN shape \ axes, <)
  IN  LinearOf(IF keep THEN [i \in DOMAIN shape |-> IF i \in axes THEN 0 ELSE at[i]]
                       ELSE [j \in DOMAIN kept |-> at[kept[j]]], outShape)
=============================================================================
