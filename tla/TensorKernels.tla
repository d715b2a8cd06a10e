--------------------------- MODULE TensorKernels ----------------------------
(***************************************************************************)
(* What a tensor graph computes, element by element: the results that      *)
(* infer accepts (GraphAnalyzer.cpp), the kernels that emitKernel, the     *)
(* RMSNorm emitters and emitFusion write for them, and the reference       *)
(* evaluation that compileGraph compares them with (GraphReference.cpp).   *)
(* A graph here is some views and then one node or pattern that runs a     *)
(* kernel, each on any of the tensors there are: what a kernel writes is   *)
(* dense, as a graph's input is, so nothing new can follow it.             *)
(*                                                                         *)
(* An element is a term: where it comes from and what was done to it.      *)
(* Sums are bags and products are sets of their operands, as their order   *)
(* is within the tolerance of the comparison.                              *)
(***************************************************************************)
EXTENDS TensorLayout

CONSTANTS
  Graphs,          \* the graphs' inputs: sequences of [shape, dtype, indices]
  Targets,         \* shapes to reshape to
  Ranges,          \* slice attributes: [starts, sizes, steps]
  AxisAttributes,  \* signed axes
  AxisLists,       \* lists of them
  LogThreads,      \* the binary logarithms of the thread counts tried
  LogDefaultThreads,
  MaxViews

VARIABLES
  tensors,  \* the values: [type, memory, expected], inputs first
  views,    \* how many of them are views
  phase,    \* "views" or "done"
  region    \* what the numerical validation of the pattern showed

vars == <<tensors, views, phase, region>>

NoRegion == [pattern |-> FALSE]
Cells(n) == 0 .. n - 1

External(t, input) ==
  LET values == [i \in Cells(Size(input.shape)) |->
                   IF input.dtype = "int" THEN <<"int", input.indices[i + 1]>> ELSE <<"x", t, i>>]
  IN  [type |-> Contiguous(input.shape, input.dtype), memory |-> values, expected |-> values]

Init ==
  /\ \E inputs \in Graphs : tensors = [t \in DOMAIN inputs |-> External(t, inputs[t])]
  /\ views = 0 /\ phase = "views" /\ region = NoRegion

----------------------------------------------------------------------------
(* Elements *)

\* What a kernel reads at an index of a buffer.
Read(t, index) == IF index \in DOMAIN t.memory THEN t.memory[index] ELSE <<"outside">>

\* The row that an index element selects.
Selected(element) == IF element[1] = "int" THEN element[2] ELSE -1

Apply(op, x) == IF op = "Contiguous" THEN x ELSE <<op, x>>
Combine(op, x, y) == <<op, {x, y}>>
BagOf(f) == [x \in {f[i] : i \in DOMAIN f} |-> Cardinality({i \in DOMAIN f : f[i] = x})]
Sum(f) == <<"sum", BagOf(f)>>
\* The epsilon and the division by the row's length are the same everywhere.
Normalized(x, row, weight, bias) == <<"norm", x, row, weight, bias>>
\* even * c - odd * s, and even * s + odd * c
Rotated(second, even, odd, c, s) == <<"rotated", second, even, odd, c, s>>
Masked(mask, x) == <<"masked", mask, x>>

----------------------------------------------------------------------------
(* infer: which operands an operation accepts, and the shape of its result. *)

Shape(t) == t.type.shape
Columns(t) == Shape(t)[Len(Shape(t))]
IsFloat(t) == t.type.dtype = "float"
IsIndex(t) == t.type.dtype = "int"
FloatMatch(a, b) == IsFloat(a) /\ IsFloat(b)

Elementwise == {"ReLU", "SiLU", "Contiguous"}
BinaryAccepted(a, b) == FloatMatch(a, b) /\ Broadcastable(Shape(a), Shape(b))
MaskedFillAccepted(a, mask) == IsFloat(a) /\ Broadcastable(Shape(a), Shape(mask))

Rows(a) == Shape(a)[Len(Shape(a)) - 1]
MatMulAccepted(a, b) ==
  /\ FloatMatch(a, b) /\ Len(Shape(a)) >= 2 /\ Len(Shape(b)) >= 2
  /\ Columns(a) = Rows(b)
  /\ Broadcastable(BatchShape(Shape(a)), BatchShape(Shape(b)))
ProductShape(a, b) ==
  BroadcastShape(BatchShape(Shape(a)), BatchShape(Shape(b))) \o <<Rows(a), Columns(b)>>

RMSNormAccepted(a, weight, axis) ==
  /\ Shape(a) # <<>> /\ NormalizeAxis(axis, Len(Shape(a))) = Len(Shape(a))
  /\ FloatMatch(a, weight) /\ IsContiguous(a.type) /\ IsContiguous(weight.type)
  /\ Shape(weight) = <<Columns(a)>>
LayerNormAccepted(a, weight, bias, axes) ==
  LET rank == Len(Shape(a))
  IN  /\ AxesAccepted(axes, rank) /\ IsContiguous(a.type)
      /\ AxesOf(axes, rank) = rank - Len(axes) + 1 .. rank
      /\ \A p \in {weight, bias} :
           /\ FloatMatch(a, p) /\ IsContiguous(p.type)
           /\ Shape(p) = SubSeq(Shape(a), rank - Len(axes) + 1, rank)

SoftmaxAccepted(a, axis) == IsFloat(a) /\ AxisInRange(axis, Len(Shape(a)))

PairShape(a) == [Shape(a) EXCEPT ![Len(Shape(a))] = @ \div 2]
RoPEAccepted(a, cos, sin) ==
  /\ IsFloat(a) /\ Shape(a) # <<>> /\ Columns(a) % 2 = 0
  /\ \A p \in {cos, sin} :
       /\ FloatMatch(a, p) /\ Broadcastable(PairShape(a), Shape(p))
       /\ BroadcastShape(PairShape(a), Shape(p)) = PairShape(a)

ReduceAccepted(a, axes) == IsFloat(a) /\ AxesAccepted(axes, Len(Shape(a)))
ReducedShape(a, axes, keep) ==
  IF keep THEN [i \in DOMAIN Shape(a) |-> IF i \in axes THEN 1 ELSE Shape(a)[i]]
          ELSE LET kept == SetToSortSeq(DOMAIN Shape(a) \ axes, <)
               IN  [j \in DOMAIN kept |-> Shape(a)[kept[j]]]

ReshapeAccepted(a, target) == IsContiguous(a.type) /\ Size(target) = Size(Shape(a))
TransposeAccepted(a, first, second) ==
  AxisInRange(first, Len(Shape(a))) /\ AxisInRange(second, Len(Shape(a)))
SliceAccepted(a, slice) ==
  /\ DOMAIN slice.sizes = DOMAIN Shape(a)
  /\ \A i \in DOMAIN Shape(a) :
       slice.starts[i] + (slice.sizes[i] - 1) * slice.steps[i] < Shape(a)[i]

EmbeddingAccepted(table, indices) ==
  Len(Shape(table)) = 2 /\ IsContiguous(table.type) /\ IsFloat(table) /\ IsIndex(indices)
GatherAccepted(a, indices, axis) == IsIndex(indices) /\ AxisInRange(axis, Len(Shape(a)))
GatheredShape(a, indices, axis) ==
  SubSeq(Shape(a), 1, axis - 1) \o Shape(indices) \o SubSeq(Shape(a), axis + 1, Len(Shape(a)))

----------------------------------------------------------------------------
(* emitKernel: what the threads of a node's kernel write. *)

PointwiseKernel(op, a) ==
  [g \in Cells(Size(Shape(a))) |-> Apply(op, Read(a, LogicalIndex(a.type, Shape(a), g)))]

BinaryKernel(op, a, b, shape) ==
  [g \in Cells(Size(shape)) |-> Combine(op, Read(a, LogicalIndex(a.type, shape, g)),
                                            Read(b, LogicalIndex(b.type, shape, g)))]

MaskedFillKernel(a, mask, shape) ==
  [g \in Cells(Size(shape)) |-> Masked(Read(mask, LogicalIndex(mask.type, shape, g)),
                                       Read(a, LogicalIndex(a.type, shape, g)))]

\* One element of the product of a's and b's matrices for its batch.
ProductAt(a, b, outShape, g) ==
  LET m == Rows(a)
      n == Columns(b)
      A == BatchBase(a.type, outShape, g \div (m * n))
      B == BatchBase(b.type, outShape, g \div (m * n))
      strideA(i) == Strides(a.type)[Len(Shape(a)) - i]
      strideB(i) == Strides(b.type)[Len(Shape(b)) - i]
  IN  Sum([inner \in Cells(Columns(a)) |->
             Combine("Mul",
               Read(a, A + ((g \div n) % m) * strideA(1) + inner * strideA(0)),
               Read(b, B + inner * strideB(1) + (g % n) * strideB(0)))])
MatMulKernel(a, b) ==
  [g \in Cells(Size(ProductShape(a, b))) |-> ProductAt(a, b, ProductShape(a, b), g)]

\* The sum over a threadgroup: every thread sums its share, then the shares are
\* added in halves.
Halved(partial, stride) ==
  [tid \in DOMAIN partial |-> IF tid < stride THEN partial[tid] (+) partial[tid + stride]
                                              ELSE partial[tid]]
ThreadgroupSum(row, log) ==
  LET Mine(tid) == {i \in DOMAIN row : i % 2^log = tid}
  IN  FoldLeft(Halved, [tid \in Cells(2^log) |-> BagOf([i \in Mine(tid) |-> row[i]])],
               [k \in 1 .. log |-> 2^(log - k)])[0]

\* One threadgroup normalizes each stretch of as many elements as the weight has;
\* there is one bias, or none.
BiasAt(biases, i) == [k \in DOMAIN biases |-> Read(biases[k], i)]
LayerNormKernel(a, weight, biases, log) ==
  LET width == Size(Shape(weight))
      totals == [r \in Cells(Size(Shape(a)) \div width) |->
                   ThreadgroupSum([i \in Cells(width) |-> Read(a, r * width + i)], log)]
  IN  [g \in Cells(Size(Shape(a))) |->
         Normalized(Read(a, g), totals[g \div width],
                    Read(weight, g % width), BiasAt(biases, g % width))]
RMSNormKernel(a, weight, log) == LayerNormKernel(a, weight, <<>>, log)
RMSNormBaseline(a, weight) == LayerNormKernel(a, weight, <<>>, LogDefaultThreads)

SoftmaxKernel(a, axis) ==
  LET At(g, i) == Read(a, AxisIndex(a.type, Shape(a), axis, g, i))
      own == ContiguousStrides(Shape(a))
  IN  [g \in Cells(Size(Shape(a))) |->
         <<"softmax", At(g, Coordinate(g, own, Shape(a), axis)),
                      BagOf([i \in Cells(Shape(a)[axis]) |-> At(g, i)])>>]

RoPEKernel(a, cos, sin) ==
  [g \in Cells(Size(Shape(a))) |->
     Rotated(g % 2 = 1,
       Read(a, LogicalIndex(a.type, Shape(a), 2 * (g \div 2))),
       Read(a, LogicalIndex(a.type, Shape(a), 2 * (g \div 2) + 1)),
       Read(cos, LogicalIndex(cos.type, PairShape(a), g \div 2)),
       Read(sin, LogicalIndex(sin.type, PairShape(a), g \div 2)))]

ReduceKernel(a, axes, keep, shape) ==
  LET count == Size(Shape(a)) \div Size(shape)
  IN  [g \in Cells(Size(shape)) |->
         Sum([r \in Cells(count) |-> Read(a, ReductionIndex(a.type, shape, axes, keep, g, r))])]

SliceKernel(a, slice) ==
  [g \in Cells(Size(slice.sizes)) |-> Read(a, SliceIndex(a.type, slice.sizes, slice, g))]

EmbeddingKernel(table, indices) ==
  LET width == Columns(table)
      Row(g) == Selected(Read(indices, LogicalIndex(indices.type, Shape(indices), g \div width)))
  IN  [g \in Cells(Size(Shape(indices)) * width) |->
         Read(table, Row(g) * width + (g % width))]

GatherKernel(a, indices, axis, shape) ==
  LET Pick(g) == Selected(Read(indices, GatherIndex(indices.type, shape, axis, g)))
  IN  [g \in Cells(Size(shape)) |->
         Read(a, GatheredIndex(a.type, Len(Shape(indices)), shape, axis, g, Pick(g)))]

----------------------------------------------------------------------------
(* evaluateGraph: the same nodes on the host, from the dense reference values. *)

PointwiseReference(op, a) == [i \in DOMAIN a.expected |-> Apply(op, a.expected[i])]

Broadcasted(t, shape, i) == t.expected[InputIndex(i, shape, Shape(t))]
BinaryReference(op, a, b, shape) ==
  [i \in Cells(Size(shape)) |-> Combine(op, Broadcasted(a, shape, i), Broadcasted(b, shape, i))]
MaskedFillReference(a, mask, shape) ==
  [i \in Cells(Size(shape)) |-> Masked(Broadcasted(mask, shape, i), Broadcasted(a, shape, i))]

MatMulReference(a, b) ==
  LET m == Rows(a)
      k == Columns(a)
      n == Columns(b)
      batches == BatchShape(ProductShape(a, b))
      Base(t, i) == InputIndex(i \div (m * n), batches, BatchShape(Shape(t))) * Rows(t) * Columns(t)
  IN  [i \in Cells(Size(ProductShape(a, b))) |->
         Sum([inner \in Cells(k) |->
                Combine("Mul", a.expected[Base(a, i) + ((i \div n) % m) * k + inner],
                               b.expected[Base(b, i) + inner * n + (i % n)])])]

ReferenceBiasAt(biases, i) == [k \in DOMAIN biases |-> biases[k].expected[i]]
LayerNormReference(a, weight, biases) ==
  LET width == Size(Shape(weight))
      Row(i) == [j \in Cells(width) |-> a.expected[(i \div width) * width + j]]
  IN  [i \in DOMAIN a.expected |->
         Normalized(a.expected[i], BagOf(Row(i)),
                    weight.expected[i % width], ReferenceBiasAt(biases, i % width))]
RMSNormReference(a, weight) == LayerNormReference(a, weight, <<>>)

SoftmaxReference(a, axis) ==
  LET At(i, j) == a.expected[ReplaceAxisIndex(i, Shape(a), axis, j)]
  IN  [i \in DOMAIN a.expected |->
         <<"softmax", a.expected[i], BagOf([j \in Cells(Shape(a)[axis]) |-> At(i, j)])>>]

RoPEReference(a, cos, sin) ==
  [i \in DOMAIN a.expected |->
     Rotated(i % 2 = 1, a.expected[2 * (i \div 2)], a.expected[2 * (i \div 2) + 1],
             Broadcasted(cos, PairShape(a), i \div 2), Broadcasted(sin, PairShape(a), i \div 2))]

ReduceReference(a, axes, keep, shape) ==
  LET Into(o) == {i \in DOMAIN a.expected : ReducedIndex(i, Shape(a), shape, axes, keep) = o}
  IN  [o \in Cells(Size(shape)) |-> Sum([i \in Into(o) |-> a.expected[i]])]

TransposeReference(a, first, second) ==
  LET At(i) == CoordinatesAt(i, Swapped(Shape(a), first, second))
  IN  [i \in DOMAIN a.expected |->
         a.expected[LinearOf(Swapped(At(i), first, second), Shape(a))]]

SliceReference(a, slice) ==
  LET At(i) == CoordinatesAt(i, slice.sizes)
  IN  [i \in Cells(Size(slice.sizes)) |->
         a.expected[LinearOf([axis \in DOMAIN Shape(a) |->
           slice.starts[axis] + At(i)[axis] * slice.steps[axis]], Shape(a))]]

\* It throws for an index out of range, before any kernel runs.
InRange(indices, n) == \A i \in DOMAIN indices.expected : Selected(indices.expected[i]) \in Cells(n)

EmbeddingReference(table, indices) ==
  LET width == Columns(table)
  IN  [i \in Cells(Size(Shape(indices)) * width) |->
         table.expected[Selected(indices.expected[i \div width]) * width + (i % width)]]

GatherReference(a, indices, axis, shape) ==
  LET rank == Len(Shape(indices))
      At(i) == CoordinatesAt(i, shape)
      Pick(i) ==
        Selected(indices.expected[LinearOf(SubSeq(At(i), axis, axis + rank - 1), Shape(indices))])
  IN  [i \in Cells(Size(shape)) |->
         a.expected[LinearOf(SubSeq(At(i), 1, axis - 1) \o <<Pick(i)>>
                               \o SubSeq(At(i), axis + rank, Len(shape)), Shape(a))]]

----------------------------------------------------------------------------
(* The results of nodes. A kernel's output buffer is dense; a view shares    *)
(* its operand's.                                                            *)

Computed(a, shape, memory, expected) ==
  [type |-> Contiguous(shape, a.type.dtype), memory |-> memory, expected |-> expected]
ViewOf(a, type, expected) == [type |-> type, memory |-> a.memory, expected |-> expected]

PointwiseOf(op, a) == Computed(a, Shape(a), PointwiseKernel(op, a), PointwiseReference(op, a))
BinaryOf(op, a, b) ==
  LET shape == BroadcastShape(Shape(a), Shape(b))
  IN  Computed(a, shape, BinaryKernel(op, a, b, shape), BinaryReference(op, a, b, shape))
MaskedFillOf(a, mask) ==
  LET shape == BroadcastShape(Shape(a), Shape(mask))
  IN  Computed(a, shape, MaskedFillKernel(a, mask, shape), MaskedFillReference(a, mask, shape))
MatMulOf(a, b) == Computed(a, ProductShape(a, b), MatMulKernel(a, b), MatMulReference(a, b))
RMSNormOf(a, weight, kernel) == Computed(a, Shape(a), kernel, RMSNormReference(a, weight))
LayerNormOf(a, weight, bias) ==
  Computed(a, Shape(a), LayerNormKernel(a, weight, <<bias>>, LogDefaultThreads),
           LayerNormReference(a, weight, <<bias>>))
SoftmaxOf(a, axis) == Computed(a, Shape(a), SoftmaxKernel(a, axis), SoftmaxReference(a, axis))
RoPEOf(a, cos, sin) == Computed(a, Shape(a), RoPEKernel(a, cos, sin), RoPEReference(a, cos, sin))
ReduceOf(a, axes, keep) ==
  LET shape == ReducedShape(a, axes, keep)
  IN  Computed(a, shape, ReduceKernel(a, axes, keep, shape), ReduceReference(a, axes, keep, shape))
ReshapeOf(a, target) == ViewOf(a, Contiguous(target, a.type.dtype), a.expected)
TransposeOf(a, first, second) ==
  ViewOf(a, Strided(Swapped(Shape(a), first, second), a.type.dtype,
                    Swapped(Strides(a.type), first, second)),
         TransposeReference(a, first, second))
SliceOf(a, slice) == Computed(a, slice.sizes, SliceKernel(a, slice), SliceReference(a, slice))
EmbeddingOf(table, indices) ==
  Computed(table, Append(Shape(indices), Columns(table)), EmbeddingKernel(table, indices),
           EmbeddingReference(table, indices))
GatherOf(a, indices, axis) ==
  LET shape == GatheredShape(a, indices, axis)
  IN  Computed(a, shape, GatherKernel(a, indices, axis, shape),
               GatherReference(a, indices, axis, shape))

----------------------------------------------------------------------------
(* The patterns: one kernel for several nodes. *)

FusedSiLUMul(x, other) ==
  LET shape == BroadcastShape(Shape(x), Shape(other))
  IN  [g \in Cells(Size(shape)) |->
         Combine("Mul", Apply("SiLU", Read(x, LogicalIndex(x.type, shape, g))),
                        Read(other, LogicalIndex(other.type, shape, g)))]

FusedLinearReLU(a, b, bias) ==
  LET shape == BroadcastShape(ProductShape(a, b), Shape(bias))
  IN  [g \in Cells(Size(shape)) |->
         Apply("ReLU", Combine("Add", ProductAt(a, b, shape, g),
                                      Read(bias, LogicalIndex(bias.type, shape, g))))]

FusedAddNorm(x, y, weight, bias, log) ==
  LET shape == BroadcastShape(Shape(x), Shape(y))
      width == Size(Shape(weight))
      Added(g) == Combine("Add", Read(x, LogicalIndex(x.type, shape, g)),
                                 Read(y, LogicalIndex(y.type, shape, g)))
      totals == [r \in Cells(Size(shape) \div width) |->
                   ThreadgroupSum([i \in Cells(width) |-> Added(r * width + i)], log)]
  IN  [g \in Cells(Size(shape)) |->
         Normalized(Added(g), totals[g \div width],
                    Read(weight, g % width), BiasAt(bias, g % width))]

\* The bias has more rows or columns than the product, whose size the kernel
\* takes its rows and columns from.
Widens(a, b, bias) ==
  LET shape == BroadcastShape(ProductShape(a, b), Shape(bias))
      rank == Len(shape)
  IN  <<shape[rank - 1], shape[rank]>> # <<Rows(a), Columns(b)>>

----------------------------------------------------------------------------
(* compileGraph *)

LogicalRead(t) ==
  LET strides == Strides(t.type)
      Offset(at) == MapThenSumSet(LAMBDA axis : at[axis] * strides[axis], DOMAIN Shape(t))
  IN  [i \in Cells(Size(Shape(t))) |-> Read(t, Offset(CoordinatesAt(i, Shape(t))))]
Right(t) == LogicalRead(t) = t.expected

Tensors == DOMAIN tensors
Axis(a, signed) == NormalizeAxis(signed, Len(Shape(tensors[a])))

Compiling == phase = "views"

\* infer and the reference accept the node, and its kernel runs.
Node(accepted, result) ==
  /\ accepted
  /\ tensors' = Append(tensors, result)
  /\ phase' = "done"
  /\ UNCHANGED <<views, region>>

\* A view runs nothing.
View(accepted, result) ==
  /\ views < MaxViews /\ accepted
  /\ tensors' = Append(tensors, result) /\ views' = views + 1
  /\ UNCHANGED <<phase, region>>

\* Mutant: the operands' layout is not looked at.
FusibleAnyhow(operands) == TRUE

Fusible(operands) == \A t \in operands : IsContiguous(tensors[t].type)

\* A region's operands hold the reference's values when it is tuned.
Filled(t) == [tensors[t] EXCEPT !.memory = tensors[t].expected]

\* tuneRegion: the unfused kernels must give the reference's values, and the
\* fused one is admitted only if it does (and is fast enough).
Region(tested, real, widened) ==
  /\ region' = [pattern |-> TRUE, unfused |-> Right(tested.unfused),
                fused |-> tested.fused = tested.unfused.expected, widened |-> widened]
  /\ IF Right(tested.unfused)
       THEN \E memory \in {real.unfused.memory}
                            \cup (IF region'.fused THEN {real.fused} ELSE {}) :
              tensors' = Append(tensors, [real.unfused EXCEPT !.memory = memory])
       ELSE UNCHANGED tensors
  /\ phase' = "done" /\ UNCHANGED views

PointwiseNode ==
  Compiling /\ \E op \in Elementwise, a \in Tensors :
    Node(IsFloat(tensors[a]), PointwiseOf(op, tensors[a]))

BinaryNode ==
  Compiling /\ \E op \in {"Add", "Mul"}, a, b \in Tensors :
    Node(BinaryAccepted(tensors[a], tensors[b]), BinaryOf(op, tensors[a], tensors[b]))

MaskedFill ==
  Compiling /\ \E a, mask \in Tensors :
    Node(MaskedFillAccepted(tensors[a], tensors[mask]), MaskedFillOf(tensors[a], tensors[mask]))

MatMul ==
  Compiling /\ \E a, b \in Tensors :
    Node(MatMulAccepted(tensors[a], tensors[b]), MatMulOf(tensors[a], tensors[b]))

RMSNorm ==
  Compiling /\ \E a, weight \in Tensors, axis \in AxisAttributes :
    /\ RMSNormAccepted(tensors[a], tensors[weight], axis)
    /\ \E kernel \in {RMSNormBaseline(tensors[a], tensors[weight])}
                       \cup {RMSNormKernel(tensors[a], tensors[weight], log) : log \in LogThreads} :
         Node(TRUE, RMSNormOf(tensors[a], tensors[weight], kernel))

LayerNorm ==
  Compiling /\ \E a, weight, bias \in Tensors, axes \in AxisLists :
    Node(LayerNormAccepted(tensors[a], tensors[weight], tensors[bias], axes),
         LayerNormOf(tensors[a], tensors[weight], tensors[bias]))

Softmax ==
  Compiling /\ \E a \in Tensors, axis \in AxisAttributes :
    Node(SoftmaxAccepted(tensors[a], axis), SoftmaxOf(tensors[a], Axis(a, axis)))

RoPE ==
  Compiling /\ \E a, cos, sin \in Tensors :
    Node(RoPEAccepted(tensors[a], tensors[cos], tensors[sin]),
         RoPEOf(tensors[a], tensors[cos], tensors[sin]))

Reduce ==
  Compiling /\ \E a \in Tensors, axes \in AxisLists, keep \in BOOLEAN :
    Node(ReduceAccepted(tensors[a], axes),
         ReduceOf(tensors[a], AxesOf(axes, Len(Shape(tensors[a]))), keep))

Reshape ==
  Compiling /\ \E a \in Tensors, target \in Targets :
    View(ReshapeAccepted(tensors[a], target), ReshapeOf(tensors[a], target))

Transpose ==
  Compiling /\ \E a \in Tensors, first, second \in AxisAttributes :
    View(TransposeAccepted(tensors[a], first, second), TransposeOf(tensors[a], Axis(a, first), Axis(a, second)))

Slice ==
  Compiling /\ \E a \in Tensors, slice \in Ranges :
    Node(SliceAccepted(tensors[a], slice), SliceOf(tensors[a], slice))

Embedding ==
  Compiling /\ \E table, indices \in Tensors :
    Node(/\ EmbeddingAccepted(tensors[table], tensors[indices])
         /\ InRange(tensors[indices], Shape(tensors[table])[1]),
         EmbeddingOf(tensors[table], tensors[indices]))

Gather ==
  Compiling /\ \E a, indices \in Tensors, axis \in AxisAttributes :
    Node(/\ GatherAccepted(tensors[a], tensors[indices], axis)
         /\ InRange(tensors[indices], Shape(tensors[a])[Axis(a, axis)]),
         GatherOf(tensors[a], tensors[indices], Axis(a, axis)))

SiLUMul ==
  Compiling /\ \E x, other \in Tensors :
    LET Kernels(a, b) == [unfused |-> BinaryOf("Mul", PointwiseOf("SiLU", a), b),
                          fused |-> FusedSiLUMul(a, b)]
    IN  /\ BinaryAccepted(tensors[x], tensors[other]) /\ Fusible({x, other})
        /\ Region(Kernels(Filled(x), Filled(other)), Kernels(tensors[x], tensors[other]), FALSE)

LinearReLU ==
  Compiling /\ \E a, b, bias \in Tensors :
    LET Kernels(x, y, z) ==
          [unfused |-> PointwiseOf("ReLU", BinaryOf("Add", MatMulOf(x, y), z)),
           fused |-> FusedLinearReLU(x, y, z)]
    IN  /\ MatMulAccepted(tensors[a], tensors[b]) /\ Fusible({a, b, bias})
        /\ BinaryAccepted(MatMulOf(tensors[a], tensors[b]), tensors[bias])
        /\ Region(Kernels(Filled(a), Filled(b), Filled(bias)),
                  Kernels(tensors[a], tensors[b], tensors[bias]),
                  Widens(tensors[a], tensors[b], tensors[bias]))

AddRMSNorm ==
  Compiling /\ \E x, y, weight \in Tensors, log \in LogThreads :
    LET Kernels(a, b, w) ==
          [unfused |-> RMSNormOf(BinaryOf("Add", a, b), w,
                                 RMSNormBaseline(BinaryOf("Add", a, b), w)),
           fused |-> FusedAddNorm(a, b, w, <<>>, log)]
    IN  /\ BinaryAccepted(tensors[x], tensors[y]) /\ Fusible({x, y, weight})
        /\ RMSNormAccepted(BinaryOf("Add", tensors[x], tensors[y]), tensors[weight], -1)
        /\ Region(Kernels(Filled(x), Filled(y), Filled(weight)),
                  Kernels(tensors[x], tensors[y], tensors[weight]), FALSE)

AddLayerNorm ==
  Compiling /\ \E x, y, weight, bias \in Tensors, axes \in AxisLists, log \in LogThreads :
    LET Kernels(a, b, w, z) ==
          [unfused |-> LayerNormOf(BinaryOf("Add", a, b), w, z),
           fused |-> FusedAddNorm(a, b, w, <<z>>, log)]
    IN  /\ BinaryAccepted(tensors[x], tensors[y]) /\ Fusible({x, y, weight, bias})
        /\ LayerNormAccepted(BinaryOf("Add", tensors[x], tensors[y]), tensors[weight],
                             tensors[bias], axes)
        /\ Region(Kernels(Filled(x), Filled(y), Filled(weight), Filled(bias)),
                  Kernels(tensors[x], tensors[y], tensors[weight], tensors[bias]), FALSE)

Next ==
  \/ PointwiseNode \/ BinaryNode \/ MaskedFill \/ MatMul \/ RMSNorm \/ LayerNorm \/ Softmax
  \/ RoPE \/ Reduce \/ Reshape \/ Transpose \/ Slice \/ Embedding \/ Gather
  \/ SiLUMul \/ LinearReLU \/ AddRMSNorm \/ AddLayerNorm

Spec == Init /\ [][Next]_vars

----------------------------------------------------------------------------
(* Properties. *)

\* Whatever views its operands are made of, and however their shapes broadcast,
\* the kernel of a node computes what the reference evaluation of the node does,
\* reading inside its operands' buffers only; so does the kernel chosen for a
\* pattern (GraphExecutor.cpp 36-54 reads the result the same way).
KernelsMatchReference == \A t \in Tensors : Right(tensors[t])

\* Tuning never fails on a right region, and turns down a right fusion for its
\* numbers never: only a bias that widens the product makes a fused kernel wrong
\* (FusionMetalEmitter.cpp 131-141, GraphExecutor.cpp 200-262).
RegionsValidate ==
  region.pattern => region.unfused /\ (region.fused \/ region.widened)
=============================================================================
