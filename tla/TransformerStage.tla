-------------------------- MODULE TransformerStage --------------------------
(***************************************************************************)
(* The steps that the two executors without pages compile for a stage of   *)
(* `n` tokens, buildStage of src/src/runtime/TransformerDecodeExecutor.cpp *)
(* and of StatefulExecutor.cpp, and what their kernels compute             *)
(* (src/src/backend/metal/).  A buffer of a stage holds a row for every    *)
(* token of every sequence of the batch, a cache a row for every position, *)
(* and a row is the term of the computation that produced it.              *)
(***************************************************************************)
EXTENDS Integers, Sequences

CONSTANTS LayerCount, Batch, Capacity

Layers == 1 .. LayerCount
Batches == 0 .. Batch - 1
Cells == Batches \X (0 .. Capacity - 1)

Step(kernel, in, out) == [kernel |-> kernel, in |-> in, out |-> out]

\* Buffers of a layer, and of the executor or the stage.
Own(name, l) == <<name, l>>
Common(name) == <<name, 0>>

Rows(n) == 1 .. Batch * n
BatchOf(row, n) == (row - 1) \div n
TokenOf(row, n) == (row - 1) % n

----------------------------------------------------------------------------
(* Terms.                                                                  *)

Embedded(id, position) == <<"embedded", id, position>>
Linear(x, weight, bias) == <<"linear", x, weight, bias>>
Relu(x) == <<"relu", x>>
Attended(query, keys, values) == <<"attended", query, keys, values>>
Normalized(residual, update, gamma, beta) == <<"normalized", residual, update, gamma, beta>>
Largest(logits) == <<"largest", logits>>
NoBias == <<"none">>

----------------------------------------------------------------------------
(* The kernels, on the contents a of their inputs, those of the output     *)
(* before, and the tokens of the stage.                                    *)

\* The tokens are in the vocabulary.
emitTokenEmbedding(a, n) ==
  [row \in Rows(n) |-> Embedded(a[1][row], a[4] - n + TokenOf(row, n))]

emitBiasedLinear(a, relu) ==
  [row \in DOMAIN a[1] |->
     IF relu THEN Relu(Linear(a[1][row], a[2], a[3])) ELSE Linear(a[1][row], a[2], a[3])]

emitKVQueryProjection(a) == [row \in DOMAIN a[1] |-> Linear(a[1][row], a[2], NoBias)]

emitKVOutputProjection(a) == [row \in DOMAIN a[1] |-> Linear(a[1][row], a[2], NoBias)]

\* Mutant: the tokens are stored behind the valid length.
AppendBehind(a, old, n) ==
  [cell \in Cells |->
     LET token == cell[2] - a[3]
     IN  IF token \in 0 .. n - 1 THEN Linear(a[1][cell[1] * n + token + 1], a[2], NoBias)
         ELSE old[cell]]

\* Nothing is stored for a length that does not hold the tokens.
emitKVCacheProjection(a, old, n) ==
  [cell \in Cells |->
     LET token == cell[2] - (a[3] - n)
     IN  IF a[3] \in n .. Capacity /\ token \in 0 .. n - 1
         THEN Linear(a[1][cell[1] * n + token + 1], a[2], NoBias)
         ELSE old[cell]]

\* A decoder's token sees those before it; the attention alone sees all.
emitAttention(a, old, n, causal) ==
  IF a[4] \notin n .. Capacity THEN old
  ELSE [row \in Rows(n) |->
          LET seen == IF causal THEN a[4] - n + TokenOf(row, n) + 1 ELSE a[4]
              Of(cache) == [q \in 0 .. seen - 1 |-> cache[<<BatchOf(row, n), q>>]]
          IN  Attended(a[1][row], Of(a[2]), Of(a[3]))]

\* The encoder's memory of a sequence stands for all its positions.
emitCrossAttention(a, n) ==
  [row \in Rows(n) |-> Attended(a[1][row], a[2][BatchOf(row, n) + 1], a[3][BatchOf(row, n) + 1])]

emitResidualLayerNorm(a) ==
  [row \in DOMAIN a[1] |-> Normalized(a[1][row], a[2][row], a[3], a[4])]

emitArgmax(a) == [row \in DOMAIN a[1] |-> Largest(a[1][row])]

Result(kernel, a, old, n) ==
  CASE kernel = "embedding"        -> emitTokenEmbedding(a, n)
    [] kernel = "linear"           -> emitBiasedLinear(a, FALSE)
    [] kernel = "linearRelu"      -> emitBiasedLinear(a, TRUE)
    [] kernel = "query"            -> emitKVQueryProjection(a)
    [] kernel = "cache"            -> emitKVCacheProjection(a, old, n)
    [] kernel = "causalAttention" -> emitAttention(a, old, n, TRUE)
    [] kernel = "attention"        -> emitAttention(a, old, n, FALSE)
    [] kernel = "output"           -> emitKVOutputProjection(a)
    [] kernel = "crossAttention"  -> emitCrossAttention(a, n)
    [] kernel = "residualNorm"    -> emitResidualLayerNorm(a)
    [] kernel = "argmax"           -> emitArgmax(a)

\* A sequence runs its steps in order; a buffer that is not in the memory is
\* a weight, which is known by its name.
Content(memory, buffer) == IF buffer \in DOMAIN memory THEN memory[buffer] ELSE buffer

Stepped(memory, step, n) ==
  [memory EXCEPT ![step.out] =
     Result(step.kernel, [i \in DOMAIN step.in |-> Content(memory, step.in[i])], @, n)]

\* After the first `count` steps.
Execute(memory, steps, count, n) ==
  LET after[i \in 0 .. Len(steps)] ==
        IF i = 0 THEN memory ELSE Stepped(after[i - 1], steps[i], n)
  IN  after[count]

----------------------------------------------------------------------------
(* The transformer decoder.                                                *)

Intermediates == {"query", "selfContext", "selfOutput", "selfNormalized", "crossQuery",
                  "crossContext", "crossOutput", "crossNormalized", "feedForwardHidden",
                  "feedForwardOutput", "hidden"}

\* The keys and the values of the encoder's memory, layer after layer, computed once.
MemoryStep(name, weight, bias, l) ==
  Step("linear", <<Common("memory"), Own(weight, l), Own(bias, l)>>, Own(name, l))

Setup ==
  [i \in 1 .. 2 * LayerCount |->
     LET l == (i + 1) \div 2
     IN  IF i % 2 = 1 THEN MemoryStep("memoryKeys", "crossKeyWeight", "crossKeyBias", l)
                      ELSE MemoryStep("memoryValues", "crossValueWeight", "crossValueBias", l)]

\* The position of a token is that of the front layer.
Embedding ==
  <<Step("embedding",
         <<Common("tokens"), Common("embeddingWeight"), Common("positionTable"),
           Own("length", 1)>>,
         Own("hidden", 0))>>

SelfAttention(l) ==
  LET current == Own("hidden", l - 1) IN
  <<Step("query", <<current, Own("selfQueryWeight", l)>>, Own("query", l)),
    Step("cache", <<current, Own("selfKeyWeight", l), Own("length", l)>>, Own("keys", l)),
    Step("cache", <<current, Own("selfValueWeight", l), Own("length", l)>>, Own("values", l)),
    Step("causalAttention",
         <<Own("query", l), Own("keys", l), Own("values", l), Own("length", l)>>,
         Own("selfContext", l)),
    Step("output", <<Own("selfContext", l), Own("selfOutputWeight", l)>>, Own("selfOutput", l)),
    Step("residualNorm",
         <<current, Own("selfOutput", l), Own("selfNormWeight", l), Own("selfNormBias", l)>>,
         Own("selfNormalized", l))>>

CrossAttention(l) ==
  <<Step("linear", <<Own("selfNormalized", l), Own("crossQueryWeight", l),
                     Own("crossQueryBias", l)>>, Own("crossQuery", l)),
    Step("crossAttention", <<Own("crossQuery", l), Own("memoryKeys", l), Own("memoryValues", l)>>,
         Own("crossContext", l)),
    Step("linear", <<Own("crossContext", l), Own("crossOutputWeight", l),
                     Own("crossOutputBias", l)>>, Own("crossOutput", l)),
    Step("residualNorm",
         <<Own("selfNormalized", l), Own("crossOutput", l), Own("crossNormWeight", l),
           Own("crossNormBias", l)>>,
         Own("crossNormalized", l))>>

FeedForward(l) ==
  <<Step("linearRelu", <<Own("crossNormalized", l), Own("feedForwardInputWeight", l),
                          Own("feedForwardInputBias", l)>>, Own("feedForwardHidden", l)),
    Step("linear", <<Own("feedForwardHidden", l), Own("feedForwardOutputWeight", l),
                     Own("feedForwardOutputBias", l)>>, Own("feedForwardOutput", l)),
    Step("residualNorm",
         <<Own("crossNormalized", l), Own("feedForwardOutput", l),
           Own("feedForwardNormWeight", l), Own("feedForwardNormBias", l)>>,
         Own("hidden", l))>>

LanguageModelHead ==
  <<Step("linear", <<Own("hidden", LayerCount), Common("languageModelHeadWeight"),
                     Common("languageModelHeadBias")>>, Common("logits")),
    Step("argmax", <<Common("logits")>>, Common("nextTokens"))>>

LayerSteps(l) == SelfAttention(l) \o CrossAttention(l) \o FeedForward(l)

\* One layer after the other, each with as many steps as the first.
DecoderSteps ==
  LET each == Len(LayerSteps(1)) IN
  Embedding
    \o [i \in 1 .. LayerCount * each |->
          LayerSteps(1 + (i - 1) \div each)[1 + ((i - 1) % each)]]
    \o LanguageModelHead

----------------------------------------------------------------------------
(* The attention on its own, with one layer.                               *)

AttentionSteps ==
  <<Step("query", <<Common("queryInput"), Own("queryWeight", 1)>>, Own("query", 1)),
    Step("cache", <<Common("keyInput"), Own("keyWeight", 1), Own("length", 1)>>, Own("keys", 1)),
    Step("cache", <<Common("valueInput"), Own("valueWeight", 1), Own("length", 1)>>,
         Own("values", 1)),
    Step("attention", <<Own("query", 1), Own("keys", 1), Own("values", 1), Own("length", 1)>>,
         Own("selfContext", 1)),
    Step("output", <<Own("selfContext", 1), Own("outputWeight", 1)>>, Common("output"))>>
=============================================================================
