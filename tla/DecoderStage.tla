---------------------------- MODULE DecoderStage ----------------------------
(***************************************************************************)
(* The compiler of the decoder's stages                                    *)
(* (src/src/runtime/DecoderLLMExecutor.cpp): buildStage appends the steps  *)
(* of every layer to one sequence over a few buffers that the layers       *)
(* share, replaces regions at its end by generated kernels or by fusions   *)
(* that admitFusion has compared and measured, and keeps beside it the     *)
(* uses that the audit of the kernels counts.                              *)
(***************************************************************************)
EXTENDS DecoderKernels, Sequences, FiniteSets, TLC

CONSTANTS
  LayerCount,
  Configurations,  \* options of the compilation, device and kernel library
  Compilations,    \* sequences of the stages' lengths
  MaxFailures      \* bound on the kernels that fail to be prepared

\* KVCachePlan::validate and the bound on a chunk of compileDecoderLLM.
ASSUME DecoderStageAssumption ==
  /\ LayerCount \in Nat \ {0} /\ Capacity \in Nat
  /\ \A c \in Compilations : c \in Seq(1 .. Capacity) /\ c # <<>>

Seqs == INSTANCE SequencesExt

VARIABLES
  options,   \* fusion, paged, single precision, filtered fusions, registry
  lengths,   \* of the stages that are compiled
  stage, layer, pc,
  steps,     \* of the sequence so far
  uses,      \* stage.uses: what each tracked node runs
  marks,     \* where the regions that a fusion may replace begin
  pagedAttentionOutputAdmitted,
  decisions, \* fusionDecisions
  device,    \* length and block table of the layer's cache state
  previous,  \* what a test restores them to
  failures,
  built      \* the two sequences of the stage and their uses
vars == <<options, lengths, stage, layer, pc, steps, uses, marks, pagedAttentionOutputAdmitted,
          decisions, device, previous, failures, built>>

Layers == 1 .. LayerCount
GEMVs == {"gemv_hidden_hidden", "gemv_intermediate_hidden", "gemv_hidden_vocabulary"}
Fusions == {"rmsnorm_qkv", "qkv_rope", "paged_attention_output_projection",
            "output_projection_residual", "down_projection_residual"}
Nothing == [sequence |-> <<>>, tokenSequence |-> <<>>, uses |-> <<>>, tokenUses |-> <<>>]

----------------------------------------------------------------------------
(* Buffers: the layers share one arena, two of them take turns as the      *)
(* residual stream, and weights and caches are the layers' own.            *)

Shared(name) == <<name, 0>>
Own(name) == <<name, layer>>
Hidden(l) == <<"hidden", l % 2>>
current == Hidden(layer - 1)
layerOutput == Hidden(layer)

Arena == {"tokens", "normalized", "query", "key", "value", "rotatedQuery", "rotatedKey",
          "context", "attentionOutput", "afterAttention", "postAttentionNormalized", "gated",
          "mlpOutput", "logits", "partialValues", "partialTokens", "nextTokens"}
Weights == {"inputNorm", "queryWeight", "keyWeight", "valueWeight", "outputWeight",
            "postNorm", "gateWeight", "upWeight", "downWeight"}
Buffers ==
  ((Arena \cup {"embedding", "finalNorm", "languageModelHead"}) \X {0})
    \cup ({"hidden"} \X {0, 1})
    \cup ((Weights \cup {"keys", "values", "length", "table", "gate", "up"}) \X Layers)

Rows == lengths[stage]
decodeStage == Rows = 1

----------------------------------------------------------------------------
(* Steps and the nodes that are tracked for them.                          *)

Step(kernel, in, out) == [kernel |-> kernel, in |-> in, out |-> out]

\* A node's steps, what made their kernels and how many the audit counts.
Node(implementation, dispatches, new) ==
  [steps |-> [i \in DOMAIN new |-> [step |-> new[i], made |-> implementation]],
   use |-> [implementation |-> implementation, dispatches |-> dispatches]]

Template(dispatches, new) == Node("template", dispatches, new)

StepsOf(nodes) == Seqs!FlattenSeq([i \in DOMAIN nodes |-> nodes[i].steps])
UsesOf(nodes) == [i \in DOMAIN nodes |-> nodes[i].use]

Push(nodes) ==
  /\ steps' = steps \o StepsOf(nodes)
  /\ uses' = uses \o UsesOf(nodes)

\* A kernel of the library is looked up in the decode stage only.
Registered(pattern) ==
  /\ decodeStage
  /\ options.fusion \/ pattern \in GEMVs
  /\ pattern \in options.registry

\* The lambda `generated`: a kernel that cannot be prepared leaves the template.
Generated(pattern) == IF Registered(pattern) THEN {"generated", "template"} ELSE {"template"}
FallsBack(pattern, implementation) ==
  IF Registered(pattern) /\ implementation = "template" THEN 1 ELSE 0
Failed(n) ==
  /\ failures + n <= MaxFailures
  /\ failures' = failures + n

Linear(implementation, input, weight, output) ==
  Node(implementation, 1, <<Step("linear", <<input, weight>>, <<output>>)>>)

length == Own("length")
table == Own("table")

RoPE(x, rotated) == Step("rope", <<x, length>>, <<rotated>>)

Begin == [steps |-> Len(steps), uses |-> Len(uses)]

----------------------------------------------------------------------------
(* The device: every step overwrites its outputs.                          *)

Junk(marker) == [b \in Buffers |-> <<"junk", marker, b>>]

Stepped(memory, s, rows) ==
  LET results == Results(s.kernel, [i \in DOMAIN s.in |-> memory[s.in[i]]],
                         [i \in DOMAIN s.out |-> memory[s.out[i]]], rows)
  IN  [b \in Buffers |->
        IF \E i \in DOMAIN s.out : s.out[i] = b
          THEN results[CHOOSE i \in DOMAIN s.out : s.out[i] = b]
          ELSE memory[b]]

Execute(memory, new, rows) ==
  LET after[i \in 0 .. Len(new)] ==
        IF i = 0 THEN memory ELSE Stepped(after[i - 1], new[i].step, rows)
  IN  after[Len(new)]

\* What persists from call to call, and what a call or a test wrote before.
WithCache(memory, cache) ==
  [b \in Buffers |->
    CASE b[1] = "length" -> cache.length
      [] b[1] = "table" -> cache.table
      [] b[1] \in Weights \cup {"embedding", "finalNorm", "languageModelHead", "keys", "values"} ->
           <<"kept", b>>
      [] OTHER -> memory[b]]
WithInputs(memory, inputs) ==
  [b \in Buffers |-> IF b \in inputs THEN <<"test data">> ELSE memory[b]]
TestMemory(marker, inputs) == WithInputs(WithCache(Junk(marker), device), inputs)
Contents(memory, outputs) == [b \in outputs |-> memory[b]]

----------------------------------------------------------------------------
(* The fusions: the steps that may replace the region from `begin` on,     *)
(* what the test writes and compares, and what the audit would count.      *)

Fusion(pattern) ==
  CASE pattern = "rmsnorm_qkv" ->
         [begin |-> marks.qkv,
          candidate |->
            Template(3, <<Step("norm qkv",
                               <<current, Own("queryWeight"), Own("keyWeight"),
                                 Own("valueWeight"), Own("inputNorm")>>,
                               <<Shared("query"), Shared("key"), Shared("value")>>),
                          RoPE(Shared("query"), Shared("rotatedQuery")),
                          RoPE(Shared("key"), Shared("rotatedKey"))>>),
          inputs |-> {current},
          outputs |-> {Shared("rotatedQuery"), Shared("rotatedKey"), Shared("value")}]
    [] pattern = "qkv_rope" ->
         [begin |-> marks.qkv,
          candidate |->
            Template(2, <<Step("norm", <<current, Own("inputNorm")>>, <<Shared("normalized")>>),
                          Step("qkv rope",
                               <<Shared("normalized"), Own("queryWeight"), Own("keyWeight"),
                                 Own("valueWeight"), length>>,
                               <<Shared("rotatedQuery"), Shared("rotatedKey"), Shared("value")>>)>>),
          inputs |-> {current},
          outputs |-> {Shared("rotatedQuery"), Shared("rotatedKey"), Shared("value")}]
    [] pattern = "paged_attention_output_projection" ->
         [begin |-> marks.attention,
          candidate |->
            Template(1, <<Step("attention output",
                               <<Shared("rotatedQuery"), Own("keys"), Own("values"), length, table,
                                 Own("outputWeight")>>,
                               <<Shared("attentionOutput")>>)>>),
          inputs |-> {Shared("rotatedQuery"), Own("keys"), Own("values")},
          outputs |-> {Shared("attentionOutput")}]
    [] pattern = "output_projection_residual" ->
         [begin |-> marks.output,
          candidate |->
            Template(2, <<Step("linear residual",
                               <<Shared("context"), Own("outputWeight"), current>>,
                               <<Shared("afterAttention")>>),
                          Step("norm", <<Shared("afterAttention"), Own("postNorm")>>,
                               <<Shared("postAttentionNormalized")>>)>>),
          inputs |-> {Shared("context"), current},
          outputs |-> {Shared("afterAttention"), Shared("postAttentionNormalized")}]
    [] pattern = "down_projection_residual" ->
         [begin |-> marks.down,
          candidate |->
            Template(1, <<Step("linear residual",
                               <<Shared("gated"), Own("downWeight"), Shared("afterAttention")>>,
                               <<layerOutput>>)>>),
          inputs |-> {Shared("gated"), Shared("afterAttention")},
          outputs |-> {layerOutput}]

Key(pattern) == <<pattern, Rows>>
Decide(pattern, admitted) == decisions' = (Key(pattern) :> admitted) @@ decisions
Known(pattern) == Key(pattern) \in DOMAIN decisions

Kept == UNCHANGED <<steps, uses>>

\* Mutant: the uses of the replaced steps stay.
ReplaceSteps(pattern) ==
  /\ steps' = SubSeq(steps, 1, Fusion(pattern).begin.steps) \o Fusion(pattern).candidate.steps
  /\ uses' = Append(uses, Fusion(pattern).candidate.use)

Replace(pattern) ==
  LET f == Fusion(pattern) IN
  /\ steps' = SubSeq(steps, 1, f.begin.steps) \o f.candidate.steps
  /\ uses' = Append(SubSeq(uses, 1, f.begin.uses), f.candidate.use)

Region(pattern) == SubSeq(steps, Fusion(pattern).begin.steps + 1, Len(steps))

\* The candidate runs over what the region's steps left in the outputs.
Agrees(pattern) ==
  LET f == Fusion(pattern)
      baseline == Execute(TestMemory(1, f.inputs), Region(pattern), Rows)
      candidate == Execute(baseline, f.candidate.steps, Rows)
  IN  Contents(candidate, f.outputs) = Contents(baseline, f.outputs)

\* Only a candidate that agrees is admitted, and then only when it measures
\* faster; an error of a test or of a cached admission decides against it.
Admits(pattern) ==
  \/ Known(pattern) /\ decisions[Key(pattern)] /\ UNCHANGED <<decisions, failures>>
  \/ ~Known(pattern) /\ Agrees(pattern) /\ Decide(pattern, TRUE) /\ UNCHANGED failures

FallsBackOn(pattern) ==
  \/ Known(pattern) /\ ~decisions[Key(pattern)] /\ UNCHANGED <<decisions, failures>>
  \/ Known(pattern) /\ decisions[Key(pattern)] /\ Decide(pattern, FALSE) /\ Failed(1)
  \/ ~Known(pattern) /\ Decide(pattern, FALSE) /\ UNCHANGED failures

admitFusion(pattern) ==
  \/ Admits(pattern) /\ Replace(pattern)
  \/ FallsBackOn(pattern) /\ Kept

\* A fusion that needs more threadgroup memory than there is is not tried.
Filtered == Kept /\ UNCHANGED <<decisions, failures>>

----------------------------------------------------------------------------
(* buildStage.                                                             *)

EmptyCache == [length |-> Length(0), table |-> IF options.paged THEN NoPages ELSE NoTable]

Fixed == UNCHANGED <<options, lengths>>

Init ==
  /\ options \in Configurations /\ lengths \in Compilations
  /\ stage = 1 /\ layer = 1 /\ pc = "embedding"
  /\ steps = <<>> /\ uses = <<>> /\ built = Nothing
  /\ marks = [region \in {"qkv", "attention", "output", "down"} |-> Begin]
  /\ pagedAttentionOutputAdmitted = FALSE
  /\ decisions = <<>> /\ device = EmptyCache /\ previous = EmptyCache
  /\ failures = 0

Embed ==
  /\ pc = "embedding" /\ pc' = "project"
  /\ Push(<<Template(1, <<Step("embedding", <<Shared("tokens"), Shared("embedding")>>,
                                <<Hidden(0)>>)>>)>>)
  /\ UNCHANGED <<stage, layer, marks, pagedAttentionOutputAdmitted, decisions, device, previous,
                 failures, built>>
  /\ Fixed

\* Mutant: the length is left as it is.
Unstaged == device

\* A rotation without a length that holds the rows does nothing.
ForTest == [device EXCEPT !.length = Length(Rows)]

\* Norm, projections and rotation; before the fusions' tests a length is staged.
Project ==
  /\ pc = "project"
  /\ \E q, k, v \in Generated("gemv_hidden_hidden"), rope \in Generated("decoder_rope") :
       LET x == Shared("normalized")
           projections == <<Linear(q, x, Own("queryWeight"), Shared("query")),
                            Linear(k, x, Own("keyWeight"), Shared("key")),
                            Linear(v, x, Own("valueWeight"), Shared("value"))>>
           rotation ==
             IF rope = "generated"
               THEN Node("generated", 1,
                         <<Step("query key rope", <<Shared("query"), Shared("key"), length>>,
                                <<Shared("rotatedQuery"), Shared("rotatedKey")>>)>>)
               ELSE Template(2, <<RoPE(Shared("query"), Shared("rotatedQuery")),
                                  RoPE(Shared("key"), Shared("rotatedKey"))>>)
       IN  /\ Failed(FallsBack("gemv_hidden_hidden", q) + FallsBack("gemv_hidden_hidden", k)
                       + FallsBack("gemv_hidden_hidden", v) + FallsBack("decoder_rope", rope))
           /\ Push(<<Template(1, <<Step("norm", <<current, Own("inputNorm")>>, <<x>>)>>)>>
                     \o Append(projections, rotation))
  /\ marks' = [marks EXCEPT !.qkv = Begin]
  /\ previous' = device
  /\ IF options.fusion
       THEN pc' = "rmsnorm_qkv" /\ device' = ForTest
       ELSE pc' = "attend" /\ UNCHANGED device
  /\ UNCHANGED <<stage, layer, pagedAttentionOutputAdmitted, decisions, built>>
  /\ Fixed

FuseNormQKV ==
  /\ pc = "rmsnorm_qkv" /\ pc' = "qkv_rope"
  /\ IF pc \in options.filtered THEN Filtered ELSE admitFusion(pc)
  /\ UNCHANGED <<stage, layer, marks, pagedAttentionOutputAdmitted, device, previous, built>>
  /\ Fixed

FuseQKVRoPE ==
  /\ pc = "qkv_rope" /\ pc' = "attend"
  /\ admitFusion(pc)
  /\ device' = previous
  /\ UNCHANGED <<stage, layer, marks, pagedAttentionOutputAdmitted, previous, built>>
  /\ Fixed

\* Cache append, attention and its projection; before the test of their
\* fusion the length and a table of all pages are staged.
Attend ==
  /\ pc = "attend"
  /\ \E o \in Generated("gemv_hidden_hidden") :
       LET append(x, cache) == Step("append", <<Shared(x), length, table>>, <<Own(cache)>>) IN
       /\ Failed(FallsBack("gemv_hidden_hidden", o))
       /\ Push(<<Template(2, <<append("rotatedKey", "keys"), append("value", "values")>>),
                 Template(1, <<Step("attention",
                                    <<Shared("rotatedQuery"), Own("keys"), Own("values"), length,
                                      table>>,
                                    <<Shared("context")>>)>>),
                 Linear(o, Shared("context"), Own("outputWeight"), Shared("attentionOutput"))>>)
  /\ marks' = [marks EXCEPT !.attention = [steps |-> Begin.steps + 2, uses |-> Begin.uses + 1],
                            !.output = [steps |-> Begin.steps + 3, uses |-> Begin.uses + 2]]
  /\ pagedAttentionOutputAdmitted' = FALSE
  /\ previous' = device
  /\ IF /\ options.fusion /\ options.paged
        /\ "paged_attention_output_projection" \notin options.filtered
       THEN /\ pc' = "paged_attention_output_projection"
            /\ device' = [ForTest EXCEPT !.table = SomePages]
       ELSE pc' = "residual" /\ UNCHANGED device
  /\ UNCHANGED <<stage, layer, decisions, built>>
  /\ Fixed

FusePagedAttention ==
  /\ pc = "paged_attention_output_projection" /\ pc' = "residual"
  /\ \/ Admits(pc) /\ Replace(pc) /\ pagedAttentionOutputAdmitted' = TRUE
     \/ FallsBackOn(pc) /\ Kept /\ pagedAttentionOutputAdmitted' = FALSE
  /\ device' = previous
  /\ UNCHANGED <<stage, layer, marks, previous, built>>
  /\ Fixed

\* Where the projection has become part of the attention there is no context
\* to project.
MayFuseOutput == options.fusion /\ ~pagedAttentionOutputAdmitted

\* The residual sum and its norm.
Residual ==
  /\ pc = "residual"
  /\ pc' = IF MayFuseOutput THEN "output_projection_residual" ELSE "mlp"
  /\ \E r \in Generated("decoder_residual_rmsnorm") :
       LET sum == Shared("afterAttention")
           normalized == Shared("postAttentionNormalized")
           update == Shared("attentionOutput")
       IN  /\ Failed(FallsBack("decoder_residual_rmsnorm", r))
           /\ Push(<<IF r = "generated" \/ options.fusion
                       THEN Node(r, 1, <<Step("residual norm", <<current, update, Own("postNorm")>>,
                                              <<sum, normalized>>)>>)
                       ELSE Template(2, <<Step("add", <<current, update>>, <<sum>>),
                                          Step("norm", <<sum, Own("postNorm")>>, <<normalized>>)>>)>>)
  /\ UNCHANGED <<stage, layer, marks, pagedAttentionOutputAdmitted, decisions, device, previous,
                 built>>
  /\ Fixed

FuseOutputProjection ==
  /\ pc = "output_projection_residual" /\ pc' = "mlp"
  /\ admitFusion(pc)
  /\ UNCHANGED <<stage, layer, marks, pagedAttentionOutputAdmitted, device, previous, built>>
  /\ Fixed

MLP ==
  /\ pc = "mlp" /\ pc' = "down"
  /\ \E g \in Generated("decoder_gated_mlp") :
       LET x == Shared("postAttentionNormalized") IN
       /\ Failed(FallsBack("decoder_gated_mlp", g))
       /\ Push(<<IF g = "generated" \/ options.fusion
                   THEN Node(g, 1, <<Step("gated mlp", <<x, Own("gateWeight"), Own("upWeight")>>,
                                          <<Shared("gated")>>)>>)
                   ELSE Template(3, <<Step("linear", <<x, Own("gateWeight")>>, <<Own("gate")>>),
                                      Step("linear", <<x, Own("upWeight")>>, <<Own("up")>>),
                                      Step("silu mul", <<Own("gate"), Own("up")>>,
                                           <<Shared("gated")>>)>>)>>)
  /\ UNCHANGED <<stage, layer, marks, pagedAttentionOutputAdmitted, decisions, device, previous,
                 built>>
  /\ Fixed

\* The layer's output becomes the next one's input.
NextLayer ==
  IF layer < LayerCount
    THEN layer' = layer + 1 /\ pc' = "project"
    ELSE UNCHANGED layer /\ pc' = "head"

Down ==
  /\ pc = "down"
  /\ \E d \in Generated("gemv_intermediate_hidden") :
       /\ Failed(FallsBack("gemv_intermediate_hidden", d))
       /\ Push(<<Linear(d, Shared("gated"), Own("downWeight"), Shared("mlpOutput")),
                 Template(1, <<Step("add", <<Shared("afterAttention"), Shared("mlpOutput")>>,
                                    <<layerOutput>>)>>)>>)
  /\ marks' = [marks EXCEPT !.down = Begin]
  /\ IF options.fusion
       THEN pc' = "down_projection_residual" /\ UNCHANGED layer
       ELSE NextLayer
  /\ UNCHANGED <<stage, pagedAttentionOutputAdmitted, decisions, device, previous, built>>
  /\ Fixed

FuseDownProjection ==
  /\ pc = "down_projection_residual"
  /\ admitFusion(pc)
  /\ NextLayer
  /\ UNCHANGED <<stage, marks, pagedAttentionOutputAdmitted, device, previous, built>>
  /\ Fixed

\* The head: one sequence computes the logits, the other only their largest.
LanguageModelHead ==
  /\ pc = "head" /\ pc' = "built"
  /\ \E h \in IF options.single THEN Generated("gemv_hidden_vocabulary") ELSE {"template"} :
       LET normalized == Shared("normalized")
           head == Shared("languageModelHead")
           finalNorm == Template(1, <<Step("norm", <<Hidden(LayerCount), Shared("finalNorm")>>,
                                           <<normalized>>)>>)
           withLogits ==
             <<Linear(h, normalized, head, Shared("logits")),
               Template(1, <<Step("argmax", <<Shared("logits")>>, <<Shared("nextTokens")>>)>>)>>
           tokenOnly ==
             <<Template(2, <<Step("partial argmax", <<normalized, head>>,
                                  <<Shared("partialValues"), Shared("partialTokens")>>),
                             Step("final argmax",
                                  <<Shared("partialValues"), Shared("partialTokens")>>,
                                  <<Shared("nextTokens")>>)>>)>>
           trunk == steps \o finalNorm.steps
           trunkUses == Append(uses, finalNorm.use)
       IN  /\ Failed(IF options.single THEN FallsBack("gemv_hidden_vocabulary", h) ELSE 0)
           /\ built' = [sequence |-> trunk \o StepsOf(withLogits),
                        uses |-> trunkUses \o UsesOf(withLogits),
                        tokenSequence |-> trunk \o StepsOf(tokenOnly),
                        tokenUses |-> trunkUses \o UsesOf(tokenOnly)]
  /\ steps' = <<>> /\ uses' = <<>>
  /\ UNCHANGED <<stage, layer, marks, pagedAttentionOutputAdmitted, decisions, device, previous>>
  /\ Fixed

NextStage ==
  /\ pc = "built" /\ stage < Len(lengths)
  /\ pc' = "embedding" /\ stage' = stage + 1 /\ layer' = 1 /\ built' = Nothing
  /\ UNCHANGED <<steps, uses, marks, pagedAttentionOutputAdmitted, decisions, device, previous,
                 failures>>
  /\ Fixed

\* A kernel outside the lambda and the tests that cannot be prepared, or a
\* length or table that cannot be written, ends the compilation.
Fail ==
  /\ pc \notin {"built", "failed"} /\ pc' = "failed"
  /\ steps' = <<>> /\ uses' = <<>>
  /\ Failed(1)
  /\ UNCHANGED <<stage, layer, marks, pagedAttentionOutputAdmitted, decisions, device, previous,
                 built>>
  /\ Fixed

Next ==
  \/ Embed \/ Project \/ FuseNormQKV \/ FuseQKVRoPE \/ Attend \/ FusePagedAttention
  \/ Residual \/ FuseOutputProjection \/ MLP \/ Down \/ FuseDownProjection
  \/ LanguageModelHead
  \/ NextStage \/ Fail

Spec == Init /\ [][Next]_vars

----------------------------------------------------------------------------
(* Properties.                                                             *)

\* A decoder of `rows` new tokens over memory m, without buffers in between:
\* layer l turns x, and appends, attends to and feeds forward what it makes of it.
TurnedAt(m, x, l) == Rotated(x, m[<<"length", l>>])
AppendedAt(m, cache, x, l) ==
  Appended(m[<<cache, l>>], x, m[<<"length", l>>], m[<<"table", l>>])
PromisedKeys(m, x, l) ==
  AppendedAt(m, "keys", TurnedAt(m, Product(x, m[<<"keyWeight", l>>]), l), l)
PromisedValues(m, x, l) == AppendedAt(m, "values", Product(x, m[<<"valueWeight", l>>]), l)
PromisedAttention(m, x, l) ==
  Product(Attended(TurnedAt(m, Product(x, m[<<"queryWeight", l>>]), l), PromisedKeys(m, x, l),
                   PromisedValues(m, x, l), m[<<"length", l>>], m[<<"table", l>>]),
          m[<<"outputWeight", l>>])
PromisedFeed(m, x, l) ==
  Product(Gated(Product(x, m[<<"gateWeight", l>>]), Product(x, m[<<"upWeight", l>>])),
          m[<<"downWeight", l>>])

NormedAt(m, x, l) == Norm(x, m[<<"inputNorm", l>>])
SumAt(m, x, l) == Added(x, PromisedAttention(m, NormedAt(m, x, l), l))
LayerAt(m, x, l) ==
  Added(SumAt(m, x, l), PromisedFeed(m, Norm(SumAt(m, x, l), m[<<"postNorm", l>>]), l))

PromisedHidden(m) ==
  LET hidden[l \in 0 .. LayerCount] ==
        IF l = 0 THEN Embedding(m[<<"tokens", 0>>], m[<<"embedding", 0>>])
        ELSE LayerAt(m, hidden[l - 1], l)
  IN  hidden

PromisedLogits(m) ==
  Product(Norm(PromisedHidden(m)[LayerCount], m[<<"finalNorm", 0>>]),
          m[<<"languageModelHead", 0>>])

Promised(m) ==
  LET x == [l \in Layers |-> NormedAt(m, PromisedHidden(m)[l - 1], l)]
  IN  [logits |-> PromisedLogits(m), nextTokens |-> Largest(PromisedLogits(m)),
       keys |-> [l \in Layers |-> PromisedKeys(m, x[l], l)],
       values |-> [l \in Layers |-> PromisedValues(m, x[l], l)]]

\* The memory of a call for which a length of n is staged.
Staged(n) ==
  WithCache(Junk(1), [length |-> Length(n), table |-> IF options.paged THEN SomePages ELSE NoTable])

\* Whatever was replaced, whatever the buffers held before and whatever was
\* staged, both sequences compute the decoder's next tokens from its tokens
\* and append its keys and values, and the first one its logits.
ComputesDecoder ==
  pc = "built" =>
    \A n \in Rows .. Capacity :
      LET promised == Promised(Staged(n))
          Computes(sequence) ==
            LET after == Execute(Staged(n), sequence, Rows) IN
            /\ after[Shared("nextTokens")] = promised.nextTokens
            /\ \A l \in Layers : /\ after[<<"keys", l>>] = promised.keys[l]
                                 /\ after[<<"values", l>>] = promised.values[l]
      IN  /\ Computes(built.sequence)
          /\ Computes(built.tokenSequence)
          /\ Execute(Staged(n), built.sequence, Rows)[Shared("logits")] = promised.logits

\* What a test compares is decided by the data it wrote: neither the region
\* nor its candidate leaves or reads in it anything that was there before,
\* although nothing is cleared between the two.
TestsAreDecisive ==
  (pc \in Fusions /\ pc \notin options.filtered /\ ~Known(pc)) =>
    LET f == Fusion(pc)
        Outputs(marker, sequence) ==
          Contents(Execute(TestMemory(marker, f.inputs), sequence, Rows), f.outputs)
    IN  /\ Outputs(1, Region(pc)) = Outputs(2, Region(pc))
        /\ Outputs(1, f.candidate.steps) = Outputs(2, f.candidate.steps)

\* The uses of each sequence count the dispatches that it makes, in order and
\* by who made the kernel, whatever was replaced after it was tracked.
AuditMatchesSteps ==
  LET Counted(tracked) ==
        Seqs!FlattenSeq([i \in DOMAIN tracked |->
                          [d \in 1 .. tracked[i].dispatches |-> tracked[i].implementation]])
      Dispatched(sequence) == [i \in DOMAIN sequence |-> sequence[i].made]
  IN  /\ Counted(uses) = Dispatched(steps)
      /\ Counted(built.uses) = Dispatched(built.sequence)
      /\ Counted(built.tokenUses) = Dispatched(built.tokenSequence)
=============================================================================
