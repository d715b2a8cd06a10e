-------------------------- MODULE MCTensorKernels ---------------------------
(* Small graphs' inputs that every operation accepts some of: matrices with  *)
(* rows, columns and batches that broadcast, and indices in and out of range. *)
EXTENDS TensorKernels

Data(shape) == [shape |-> shape, dtype |-> "float", indices |-> <<>>]
Indices(shape, indices) == [shape |-> shape, dtype |-> "int", indices |-> indices]

MCGraphs ==
  { <<Data(<<2, 3>>), Data(<<3>>), Indices(<<2>>, <<1, 0>>)>>,
    <<Data(<<2, 1, 2>>), Data(<<2, 2>>), Indices(<<2, 2>>, <<0, 1, 0, 0>>)>>,
    <<Data(<<2, 4>>), Data(<<2, 2>>)>>,
    <<Data(<<2, 2, 1>>), Data(<<1, 2>>), Indices(<<2>>, <<0, 2>>)>> }
MCTargets == {<<6>>, <<2, 2>>, <<4, 1>>}
MCRanges ==
  { [starts |-> <<0, 1>>, sizes |-> <<2, 1>>, steps |-> <<1, 1>>],
    [starts |-> <<1, 0>>, sizes |-> <<1, 2>>, steps |-> <<1, 2>>] }
MCAxes == -1 .. 1
MCAxisLists == {<<-1>>, <<0>>, <<1, 0>>, <<0, 2>>}
=============================================================================
