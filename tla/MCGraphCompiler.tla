-------------------------- MODULE MCGraphCompiler --------------------------
(* Every wiring of some lists of operations over a matrix x and a vector w:  *)
(* three nodes that read any value, their own and later ones included, and   *)
(* four nodes that read the values before them.                              *)
EXTENDS GraphCompiler

MCInputTypes == <<Dense(2), Dense(1)>>

Reads(op, last) ==
  IF op \in Binary THEN (1 .. last) \X (1 .. last) ELSE {<<v>> : v \in 1 .. last}
NodesOver(op, last) == {[op |-> op, inputs |-> c] : c \in Reads(op, last)}
Shuffled(ops) == {<<ops[p[1]], ops[p[2]], ops[p[3]]>> : p \in Permutations(1 .. 3)}

AnyThree ==
  UNION {NodesOver(ops[1], 5) \X NodesOver(ops[2], 5) \X NodesOver(ops[3], 5) :
         ops \in UNION {Shuffled(s) :
           s \in {<<"SiLU", "ReLU", "Mul">>, <<"Add", "Norm", "Transpose">>,
                  <<"Reshape", "Reshape", "SiLU">>}}}
ForwardFour ==
  UNION {NodesOver(ops[1], 2) \X NodesOver(ops[2], 3)
           \X NodesOver(ops[3], 4) \X NodesOver(ops[4], 5) :
         ops \in {<<"MatMul", "MatMul", "Add", "ReLU">>,
                  <<"MatMul", "Contiguous", "Add", "ReLU">>,
                  <<"SiLU", "SiLU", "Mul", "Mul">>}}

\* One or two declared outputs.
MCGraphs ==
  {g \in [nodes : AnyThree \union ForwardFour, outputs : {{3}, {3, 4}, {5}, {4, 5}, {6}}] :
     \A v \in g.outputs : v <= 2 + Len(g.nodes)}
=============================================================================
