--------------------------- MODULE GraphCompiler ---------------------------
(***************************************************************************)
(* The tensor-graph compiler from a TensorGraph to the run of the compiled *)
(* one: analyze (GraphAnalyzer.cpp) orders the nodes and infers types,     *)
(* formRegions (PatternAnalyzer.cpp) groups them into regions that one     *)
(* kernel may serve, compileGraph (GraphExecutor.cpp) picks the fused or   *)
(* the unfused kernels of each region and allocates the buffers, and run   *)
(* executes the regions one after the other.                               *)
(*                                                                         *)
(* Tensors are [D, D] matrices and [D] vectors with D > 1 of one floating  *)
(* type.  Values are numbered with the graph inputs first, then the result *)
(* of each node: the nodes' own order is free, so they may be listed in    *)
(* any order and refer to each other in a cycle, as in a manifest.         *)
(***************************************************************************)
EXTENDS Integers, FiniteSets, SequencesExt

CONSTANTS
  InputTypes,  \* the types of the graph inputs, one after the other
  Graphs,      \* the graphs the compiler is given
  MaxRuns      \* how often the compiled graph is run

Binary == {"Add", "Mul", "MatMul", "Norm"}   \* Norm is RMSNorm(x, weight)
Unary == {"SiLU", "ReLU", "Contiguous", "Reshape", "Transpose"}
Views == {"Reshape", "Transpose"}

InputCount == Len(InputTypes)
ShapeType == [rank : {1, 2}, contiguous : BOOLEAN]

\* Every value that a graph names is one of its own (analyze checks that before
\* it starts), and a node has as many inputs as its operation (infer).
ASSUME GraphAssumption ==
  /\ InputTypes \in Seq(ShapeType)
  /\ Graphs \subseteq [nodes : Seq([op : Binary \union Unary, inputs : Seq(Nat)]),
                      outputs : SUBSET Nat]
  /\ \A g \in Graphs :
       /\ g.outputs \subseteq 1 .. InputCount + Len(g.nodes)
       /\ \A i \in DOMAIN g.nodes :
            /\ ToSet(g.nodes[i].inputs) \subseteq 1 .. InputCount + Len(g.nodes)
            /\ Len(g.nodes[i].inputs) = IF g.nodes[i].op \in Binary THEN 2 ELSE 1
  /\ MaxRuns \in Nat \ {0}

VARIABLES
  graph,     \* nodes: a sequence of [op, inputs]; outputs: declared values
  phase,     \* the call under way, "done", or why it threw
  types,     \* types[v]: the inferred type of v, for the values reached
  indegree, ready, order,  \* the locals of analyze's traversal
  regions,   \* the nodes of each region, in region order
  fused,     \* fused[i]: region i runs as one kernel
  right,     \* the buffers that hold the value the reference gives
  pc,        \* the execution unit the run has reached
  runs

vars == <<graph, phase, types, indegree, ready, order, regions, fused, right,
          pc, runs>>
analysis == <<types, indegree, ready, order>>

Nodes == DOMAIN graph.nodes
Values == 1 .. InputCount + Len(graph.nodes)
Op(i) == graph.nodes[i].op
Inputs(i) == graph.nodes[i].inputs
Out(i) == InputCount + i
IsInput(v) == v <= InputCount
Producer(v) == v - InputCount
\* consumers[v]: a node that reads v twice is there twice.
Uses(v) ==
  {u \in Nodes \X (1 .. 2) : u[2] \in DOMAIN Inputs(u[1]) /\ Inputs(u[1])[u[2]] = v}
UsesBy(v, i) == {u \in Uses(v) : u[1] = i}

----------------------------------------------------------------------------
(* analyze *)

\* The elements of a set of numbers, the least first.
InOrder(S) ==
  CHOOSE s \in [1 .. Cardinality(S) -> S] : \A i, j \in DOMAIN s : i < j => s[i] < s[j]

Dense(rank) == [rank |-> rank, contiguous |-> TRUE]
RankOf(v) == types[v].rank
IsContiguous(v) == types[v].contiguous

\* The shape a node asks of its inputs; where it is not met infer throws.
WellShaped(i) ==
  CASE Op(i) = "MatMul"    -> RankOf(Inputs(i)[1]) = 2 /\ RankOf(Inputs(i)[2]) = 2
    [] Op(i) = "Norm"      -> /\ RankOf(Inputs(i)[2]) = 1
                              /\ \A v \in ToSet(Inputs(i)) : IsContiguous(v)
    [] Op(i) = "Reshape"   -> IsContiguous(Inputs(i)[1])
    [] Op(i) = "Transpose" -> RankOf(Inputs(i)[1]) = 2
    [] OTHER               -> TRUE

\* Add and Mul broadcast a vector to a matrix; two swaps of the axes restore
\* the contiguous strides.
Infer(i) ==
  CASE Op(i) \in {"Add", "Mul"} ->
         Dense(IF \E v \in ToSet(Inputs(i)) : RankOf(v) = 2 THEN 2 ELSE 1)
    [] Op(i) = "Transpose" -> [rank |-> 2, contiguous |-> ~IsContiguous(Inputs(i)[1])]
    [] OTHER -> Dense(RankOf(Inputs(i)[1]))

\* The checks that come before the traversal hold of every graph that is
\* numbered as above.
Init ==
  /\ graph \in Graphs
  /\ phase = "analyze"
  /\ types = InputTypes
  /\ indegree = [i \in Nodes |-> Cardinality({a \in DOMAIN Inputs(i) : ~IsInput(Inputs(i)[a])})]
  /\ ready = InOrder({i \in Nodes : indegree[i] = 0})
  /\ order = <<>> /\ regions = <<>> /\ fused = <<>>
  /\ right = {} /\ pc = 1 /\ runs = 0

\* A mutant: consumers without repetition.
LeftOncePerNode(i) ==
  [k \in Nodes |-> indegree[k] - IF UsesBy(Out(i), k) = {} THEN 0 ELSE 1]
\* What the nodes still wait for once i has run, and the nodes that wait no more.
LeftAfter(i) == [k \in Nodes |-> indegree[k] - Cardinality(UsesBy(Out(i), k))]
Released(i) == {k \in Nodes : indegree[k] > 0 /\ LeftAfter(i)[k] = 0}

\* while (!ready.empty()): the front node gets its type and releases the nodes
\* that waited for it.
Visit ==
  /\ phase = "analyze" /\ ready # <<>>
  /\ LET i == Head(ready)
     IN  \/ /\ WellShaped(i)
            /\ types' = [v \in DOMAIN types \union {Out(i)} |->
                           IF v = Out(i) THEN Infer(i) ELSE types[v]]
            /\ indegree' = LeftAfter(i)
            /\ ready' = Tail(ready) \o InOrder(Released(i))
            /\ order' = Append(order, i)
            /\ UNCHANGED phase
         \/ /\ ~WellShaped(i)
            /\ phase' = "ill-typed"
            /\ UNCHANGED analysis
  /\ UNCHANGED <<graph, regions, fused, right, pc, runs>>

EndAnalyze ==
  /\ phase = "analyze" /\ ready = <<>>
  /\ phase' = IF Len(order) = Len(graph.nodes) THEN "form" ELSE "cyclic"
  /\ UNCHANGED <<graph, analysis, regions, fused, right, pc, runs>>

----------------------------------------------------------------------------
(* formRegions *)

Assigned == UNION {ToSet(regions[i]) : i \in DOMAIN regions}

\* Mutants of the edge: without the check of the graph outputs, and with one
\* reading node instead of one reading.
EdgeMayBeOutput(f, i) ==
  Cardinality(Uses(Out(f))) = 1 /\ UsesBy(Out(f), i) # {} /\ Op(f) \notin Views
EdgeToOneNode(f, i) ==
  {u[1] : u \in Uses(Out(f))} = {i} /\ Out(f) \notin graph.outputs /\ Op(f) \notin Views

\* Node i is the only reader of node f's result, which may stay in a register.
ExclusiveEdge(f, i) ==
  /\ Cardinality(Uses(Out(f))) = 1 /\ UsesBy(Out(f), i) # {}
  /\ Out(f) \notin graph.outputs
  /\ Op(f) \notin Views

LinearReLU(f) ==
  {s \in {f} \X Nodes \X Nodes :
     /\ Op(f) = "MatMul" /\ Op(s[2]) = "Add" /\ Op(s[3]) = "ReLU"
     /\ ExclusiveEdge(f, s[2]) /\ ExclusiveEdge(s[2], s[3])}
AddNorm(f) ==
  {s \in {f} \X Nodes :
     /\ Op(f) = "Add" /\ Op(s[2]) = "Norm"
     /\ ExclusiveEdge(f, s[2]) /\ Inputs(s[2])[1] = Out(f)}
SiLUMul(f) ==
  {s \in {f} \X Nodes :
     Op(f) = "SiLU" /\ Op(s[2]) = "Mul" /\ ExclusiveEdge(f, s[2])}

\* A mutant: nodes that a region has taken are not left out.
FusibleAgain(f) ==
  {s \in LinearReLU(f) \union AddNorm(f) \union SiLUMul(f) :
     \A k \in ToSet(s) : \A v \in ToSet(Inputs(k)) : IsContiguous(v)}

Fusible(f) ==
  {s \in LinearReLU(f) \union AddNorm(f) \union SiLUMul(f) :
     /\ ToSet(s) \intersect Assigned = {}
     /\ \A k \in ToSet(s) : \A v \in ToSet(Inputs(k)) : IsContiguous(v)}

\* What the nodes of a region read from outside it, and what others read of it.
RegionInputs(region) ==
  {v \in UNION {ToSet(Inputs(k)) : k \in ToSet(region)} :
     IsInput(v) \/ Producer(v) \notin ToSet(region)}
Escaping(region) ==
  {v \in {Out(k) : k \in ToSet(region)} :
     v \in graph.outputs \/ \E u \in Uses(v) : u[1] \notin ToSet(region)}
RegionOutputs(region) ==
  IF Escaping(region) = {} THEN {Out(Last(region))} ELSE Escaping(region)

\* A mutant: Contiguous is taken for a view and gets no kernel.
WriterHasKernel(k) == Op(k) \notin Views \union {"Contiguous"}
\* planRegions gives a region one kernel for each node that is not a view.
HasKernel(k) == Op(k) \notin Views
IsFusion(region) == Len(region) > 1
Malformed(region) ==
  /\ IsFusion(region)
  /\ Cardinality(RegionOutputs(region)) # 1 \/ \E k \in ToSet(region) : ~HasKernel(k)

NextNode == order[SelectInSeq(order, LAMBDA k : k \notin Assigned)]

FormRegion ==
  /\ phase = "form" /\ ToSet(order) # Assigned
  /\ LET f == NextNode
         region == IF Fusible(f) = {} THEN <<f>> ELSE CHOOSE s \in Fusible(f) : TRUE
     IN  /\ regions' = Append(regions, region)
         /\ phase' = IF Malformed(region) THEN "malformed" ELSE phase
  /\ UNCHANGED <<graph, analysis, fused, right, pc, runs>>

EndForm ==
  /\ phase = "form" /\ ToSet(order) = Assigned
  /\ phase' = "tune"
  /\ UNCHANGED <<graph, analysis, regions, fused, right, pc, runs>>

----------------------------------------------------------------------------
(* compileGraph *)

\* The operands a fused kernel takes from outside: of a later node with two, the
\* one that is not the result of the node before, and the weight of a norm.
OtherOperand(region, k) ==
  LET inputs == Inputs(region[k])
  IN  IF Op(region[k]) = "Norm" \/ inputs[1] = Out(region[k - 1])
      THEN inputs[2] ELSE inputs[1]
Operands(region) ==
  ToSet(Inputs(region[1])) \union
    {OtherOperand(region, k) :
       k \in {j \in 2 .. Len(region) : Len(Inputs(region[j])) = 2}}

\* tuneRegion measures the region alone on the reference values of its inputs,
\* and the measurements decide.  emitFusion throws where an operand is no input
\* of the region.
Tune ==
  /\ phase = "tune" /\ Len(fused) < Len(regions)
  /\ LET region == regions[Len(fused) + 1]
     IN  \E choice \in BOOLEAN :
           /\ choice => IsFusion(region)
           /\ fused' = Append(fused, choice)
           /\ phase' = IF choice /\ ~(Operands(region) \subseteq RegionInputs(region))
                       THEN "malformed" ELSE phase
  /\ UNCHANGED <<graph, analysis, regions, right, pc, runs>>

\* The buffer a value's bytes are in: that of the value it is a view of.
ViewOf(v) == ~IsInput(v) /\ Op(Producer(v)) \in Views
Base[v \in Values] == IF ViewOf(v) THEN Base[Inputs(Producer(v))[1]] ELSE v

\* allocateGraphBuffers: aliases are resolved in the order of the values, so a
\* view of a view needs its base to come first.
Allocate ==
  /\ phase = "tune" /\ Len(fused) = Len(regions)
  /\ IF \E v \in Values : /\ ViewOf(v) /\ ViewOf(Inputs(Producer(v))[1])
                          /\ Inputs(Producer(v))[1] > v
     THEN phase' = "no alias base" /\ UNCHANGED right
     ELSE phase' = "run" /\ right' = {v \in Values : IsInput(v)}
  /\ UNCHANGED <<graph, analysis, regions, fused, pc, runs>>

\* A kernel gives the right value from the right ones; from others it may not.
Compute(buffers, reads, result) ==
  IF {Base[v] : v \in reads} \subseteq buffers
  THEN buffers \union {result} ELSE buffers \ {result}

ExecuteNode(buffers, k) ==
  IF HasKernel(k) THEN Compute(buffers, ToSet(Inputs(k)), Out(k)) ELSE buffers

ExecuteNodes(buffers, nodes) ==
  LET after[j \in 0 .. Len(nodes)] ==
        IF j = 0 THEN buffers ELSE ExecuteNode(after[j - 1], nodes[j])
  IN  after[Len(nodes)]

\* A mutant: the fused kernel writes the result of the first node.
ExecuteToFirst(buffers, region, asOne) ==
  IF asOne
  THEN Compute(buffers, RegionInputs(region), Out(region[1]))
  ELSE ExecuteNodes(buffers, region)

Execute(buffers, region, asOne) ==
  IF asOne
  THEN Compute(buffers, RegionInputs(region), CHOOSE v \in RegionOutputs(region) : TRUE)
  ELSE ExecuteNodes(buffers, region)

----------------------------------------------------------------------------
(* CompiledGraph::run *)

\* A region of views only has no unit.
RunUnit ==
  /\ phase = "run" /\ pc <= Len(regions)
  /\ right' = Execute(right, regions[pc], fused[pc])
  /\ pc' = pc + 1
  /\ UNCHANGED <<graph, phase, analysis, regions, fused, runs>>

\* The command buffer of a unit fails, with some of its kernels executed.
UnitFails ==
  /\ phase = "run" /\ pc <= Len(regions) /\ runs < MaxRuns - 1
  /\ LET region == regions[pc]
     IN  /\ \E k \in ToSet(region) : HasKernel(k)
         /\ right' \in IF fused[pc] THEN {right, Execute(right, region, TRUE)}
                       ELSE {ExecuteNodes(right, SubSeq(region, 1, j)) : j \in 0 .. Len(region)}
  /\ runs' = runs + 1 /\ pc' = 1
  /\ UNCHANGED <<graph, phase, analysis, regions, fused>>

EndRun ==
  /\ phase = "run" /\ pc > Len(regions)
  /\ runs' = runs + 1
  /\ phase' = "done"
  /\ UNCHANGED <<graph, analysis, regions, fused, right, pc>>

\* The caller runs the compiled graph once more, over the same buffers.
RunAgain ==
  /\ phase = "done" /\ runs < MaxRuns
  /\ phase' = "run" /\ pc' = 1
  /\ UNCHANGED <<graph, analysis, regions, fused, right, runs>>

Done ==
  /\ \/ phase \in {"ill-typed", "cyclic", "malformed", "no alias base"}
     \/ phase = "done" /\ runs = MaxRuns
  /\ UNCHANGED vars

Next ==
  \/ Visit \/ EndAnalyze \/ FormRegion \/ EndForm \/ Tune \/ Allocate
  \/ RunUnit \/ UnitFails \/ EndRun \/ RunAgain \/ Done

Spec == Init /\ [][Next]_vars

----------------------------------------------------------------------------
(* Properties *)

\* The variables have their types, and no node is visited or grouped twice.
TypeInvariant ==
  /\ graph \in Graphs
  /\ phase \in {"analyze", "form", "tune", "run", "done",
                "ill-typed", "cyclic", "malformed", "no alias base"}
  /\ DOMAIN types \subseteq Values /\ \A v \in DOMAIN types : types[v] \in ShapeType
  /\ indegree \in [Nodes -> Nat]
  /\ IsInjective(order \o ready) /\ ToSet(order \o ready) \subseteq Nodes
  /\ \A i \in DOMAIN regions : regions[i] \in Seq(Nodes) \ {<<>>}
  /\ fused \in Seq(BOOLEAN) /\ Len(fused) <= Len(regions)
  /\ right \subseteq Values
  /\ pc \in 1 .. Len(regions) + 1 /\ runs \in 0 .. MaxRuns

Accepted == phase \notin {"analyze", "ill-typed", "cyclic"}
Formed == phase \in {"tune", "no alias base", "run", "done"}
ReadsOf(i) == {Producer(v) : v \in {u \in ToSet(Inputs(i)) : ~IsInput(u)}}

\* The traversal of analyze visits a node after every node it reads, however
\* often it reads it, and turns away exactly the graphs that have a cycle.
OrderIsTopological ==
  /\ \A k \in DOMAIN order : ReadsOf(order[k]) \subseteq ToSet(SubSeq(order, 1, k - 1))
  /\ Accepted => ToSet(order) = Nodes
  /\ phase = "cyclic" =>
       \A depth \in [Nodes -> Nodes] :
         \E i \in Nodes : \E k \in ReadsOf(i) : depth[k] >= depth[i]

\* Every node runs in exactly one region: none is lost, none is computed twice.
RegionsPartitionTheNodes ==
  /\ \A i, j \in DOMAIN regions : \A a \in DOMAIN regions[i], b \in DOMAIN regions[j] :
       regions[i][a] = regions[j][b] => i = j /\ a = b
  /\ Formed => Assigned = Nodes

\* What a fused kernel keeps in registers is read by nobody else and is not
\* asked for by the caller: only the last node of a region is seen outside.
IntermediatesStayInside ==
  \A i \in DOMAIN regions :
    Escaping(regions[i]) \subseteq {Out(Last(regions[i]))}

\* The throws of formRegions, planRegions and emitFusion on a region they do
\* not accept are never reached: every region that is formed can be emitted.
RegionsAreWellFormed == phase # "malformed"

\* Operands that a region reads although a later region produces them.
LateOperands(i) ==
  {v \in RegionInputs(regions[i]) :
     ~IsInput(v) /\ \E j \in i + 1 .. Len(regions) : Producer(v) \in ToSet(regions[j])}

\* Where no region has a late operand, a run gives the value of every declared
\* output, whichever regions are fused and after whatever runs that failed.
RightUnlessLate ==
  phase = "done" /\ (\A i \in DOMAIN regions : LateOperands(i) = {})
    => {Base[v] : v \in graph.outputs} \subseteq right

\* The buffers after a run of the first n regions without a fused kernel.
UnfusedRun(n) ==
  LET after[i \in 0 .. n] ==
        IF i = 0 THEN {v \in Values : IsInput(v)} ELSE ExecuteNodes(after[i - 1], regions[i])
  IN  after[n]

\* Fusing a region, admitted on timings, does not change what a first run gives
\* for the declared outputs.
FusionKeepsOutputs ==
  phase = "done" /\ runs = 1 =>
    \A v \in graph.outputs : Base[v] \in right <=> Base[v] \in UnfusedRun(Len(regions))

\* A run of the compiled graph gives the value of every declared output.
ExecutesTheGraph ==
  phase = "done" => {Base[v] : v \in graph.outputs} \subseteq right
=============================================================================
