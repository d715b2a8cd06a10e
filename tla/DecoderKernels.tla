--------------------------- MODULE DecoderKernels ---------------------------
(***************************************************************************)
(* What the kernels of a decoder stage compute                             *)
(* (src/src/backend/metal/): each overwrites its output buffers with a     *)
(* function of its input buffers.  The content of a buffer is the term of  *)
(* the computation that produced it, so two contents are equal exactly     *)
(* when they are the same computation of the same data.  An emitter has    *)
(* the contents a of its inputs, in the order in which they are bound,     *)
(* and returns those of its outputs; a kernel that returns early for some  *)
(* length or table leaves the contents `old`.                              *)
(***************************************************************************)
EXTENDS Integers

CONSTANT Capacity

Embedding(tokens, weight) == <<"embedding", tokens, weight>>
Norm(x, weight) == <<"norm", x, weight>>
Product(x, weight) == <<"product", x, weight>>
Rotated(x, length) == <<"rotated", x, length>>
Appended(cache, x, length, table) == <<"appended", cache, x, length, table>>
Attended(query, keys, values, length, table) ==
  <<"attended", query, keys, values, length, table>>
Added(residual, update) == <<"added", residual, update>>
Gated(gate, up) == <<"gated", gate, up>>
Largest(logits) == <<"largest", logits>>

Length(n) == <<"length", n>>
NoPages == <<"table", FALSE>>     \* every entry is -1
SomePages == <<"table", TRUE>>    \* an entry for every position in use
NoTable == <<"unpaged">>

\* The kernels for `rows` tokens look only at staged lengths that hold them.
Valid(length, rows) == length[2] \in rows .. Capacity
Reachable(length, table, rows) == Valid(length, rows) /\ table # NoPages

\* The callers' tokens are in the vocabulary.
emitDecoderEmbedding(a) == <<Embedding(a[1], a[2])>>

emitDecoderRMSNorm(a) == <<Norm(a[1], a[2])>>

\* emitLinearBaseline, emitDecodeGEMV and emitTiledGEMM.
emitLinear(a) == <<Product(a[1], a[2])>>

emitDecoderRoPE(a, old, rows) == IF Valid(a[2], rows) THEN <<Rotated(a[1], a[2])>> ELSE old

\* What does not look at the length reads anything beyond the tables.
Turned(x, length, rows) == IF Valid(length, rows) THEN Rotated(x, length) ELSE <<"undefined">>

\* The generated kernel of the pattern decoder_rope rotates both at once; its
\* contract has no case without a valid length.
QueryKeyRoPE(a, rows) == <<Turned(a[1], a[3], rows), Turned(a[2], a[3], rows)>>

emitDecoderCacheAppend(a, old, rows) ==
  IF Reachable(a[2], a[3], rows) THEN <<Appended(old[1], a[1], a[2], a[3])>> ELSE old

emitKVAttention(a, old, rows) ==
  IF Reachable(a[4], a[5], rows) THEN <<Attended(a[1], a[2], a[3], a[4], a[5])>> ELSE old

emitDecoderAdd(a) == <<Added(a[1], a[2])>>

emitDecoderSiLUMul(a) == <<Gated(a[1], a[2])>>

emitDecoderResidualRMSNorm(a) ==
  LET total == Added(a[1], a[2]) IN <<total, Norm(total, a[3])>>

emitDecoderGatedMLP(a) == <<Gated(Product(a[1], a[2]), Product(a[1], a[3]))>>

NormQKV(a) ==
  LET x == Norm(a[1], a[5]) IN <<Product(x, a[2]), Product(x, a[3]), Product(x, a[4])>>

QKVRoPE(a, rows) ==
  <<Turned(Product(a[1], a[2]), a[5], rows), Turned(Product(a[1], a[3]), a[5], rows),
    Product(a[1], a[4])>>

\* Mutant: the input is bound as the residual; the tests write the same to both.
LinearOfInput(a) == <<Added(a[1], Product(a[1], a[2]))>>

emitLinearResidual(a) == <<Added(a[3], Product(a[1], a[2]))>>

emitPagedAttentionOutputProjection(a, old, rows) ==
  IF Reachable(a[4], a[5], rows)
    THEN <<Product(Attended(a[1], a[2], a[3], a[4], a[5]), a[6])>>
    ELSE old

emitTokenArgmax(a) == <<Largest(a[1])>>

\* The largest logit and its token of every chunk of the vocabulary.
emitLMHeadPartialArgmax(a) ==
  LET logits == Product(a[1], a[2]) IN <<<<"values", logits>>, <<"tokens", logits>>>>

\* Only values and tokens of the same logits make the largest of them.
emitLMHeadFinalArgmax(a) ==
  IF a[1][2] = a[2][2] THEN <<Largest(a[1][2])>> ELSE <<<<"undefined">>>>

\* A step's outputs, from the contents of its inputs and outputs.
Results(kernel, a, old, rows) ==
  CASE kernel = "embedding"        -> emitDecoderEmbedding(a)
    [] kernel = "norm"             -> emitDecoderRMSNorm(a)
    [] kernel = "linear"           -> emitLinear(a)
    [] kernel = "rope"             -> emitDecoderRoPE(a, old, rows)
    [] kernel = "query key rope"   -> QueryKeyRoPE(a, rows)
    [] kernel = "append"           -> emitDecoderCacheAppend(a, old, rows)
    [] kernel = "attention"        -> emitKVAttention(a, old, rows)
    [] kernel = "add"              -> emitDecoderAdd(a)
    [] kernel = "silu mul"         -> emitDecoderSiLUMul(a)
    [] kernel = "residual norm"    -> emitDecoderResidualRMSNorm(a)
    [] kernel = "gated mlp"        -> emitDecoderGatedMLP(a)
    [] kernel = "norm qkv"         -> NormQKV(a)
    [] kernel = "qkv rope"         -> QKVRoPE(a, rows)
    [] kernel = "linear residual"  -> emitLinearResidual(a)
    [] kernel = "attention output" -> emitPagedAttentionOutputProjection(a, old, rows)
    [] kernel = "argmax"           -> emitTokenArgmax(a)
    [] kernel = "partial argmax"   -> emitLMHeadPartialArgmax(a)
    [] kernel = "final argmax"     -> emitLMHeadFinalArgmax(a)
=============================================================================
