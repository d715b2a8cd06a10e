--------------------------- MODULE UnpagedDecoder ---------------------------
(***************************************************************************)
(* The executors whose caches have no pages: CompiledTransformerDecoder    *)
(* (src/src/runtime/TransformerDecodeExecutor.cpp) and                     *)
(* CompiledKVCacheAttention (StatefulExecutor.cpp).  A call stages the     *)
(* length of every layer, runs the steps of its stage and commits every    *)
(* layer.  Any write and any run may fail; a call that fails while it      *)
(* stages undoes nothing, and a failed run has made any number of its      *)
(* steps.  The callers are sequential.                                     *)
(***************************************************************************)
EXTENDS TransformerStage

CONSTANTS
  PrefillLength,
  Token,          \* the tokens a caller feeds to every sequence of the batch
  MaxFailures     \* bound on the runs that fail after some of their steps

\* TransformerDecodePlan::validate.
ASSUME UnpagedDecoderAssumption ==
  /\ LayerCount \in Nat \ {0}
  /\ Batch \in Nat \ {0} /\ Capacity \in Nat \ {0}
  /\ PrefillLength \in 1 .. Capacity

VARIABLES
  executor,   \* "transformer" or "attention", which has one layer
  length,     \* currentLength_ of every layer
  devLength,  \* what its length buffer holds
  caches,     \* its key and value buffers
  memory,     \* every layer's keys and values of the encoder's memory
  phase,      \* "compiling", "idle" or "staged"
  call,       \* the run under way
  answer,     \* what the last call returned: the tokens it was computed from
  failures    \* runs that have failed

vars == <<executor, length, devLength, caches, memory, phase, call, answer, failures>>

Used == IF executor = "transformer" THEN Layers ELSE {1}
Last == IF executor = "transformer" THEN LayerCount ELSE 1

CurrentLength == length[1]

Said(word) == [said |-> word, on |-> <<>>]

NoRow == <<"none">>

Init ==
  /\ executor \in {"transformer", "attention"}
  /\ length = [l \in Used |-> 0] /\ devLength = length
  /\ caches = [b \in {"keys", "values"} \X Used |-> [cell \in Cells |-> NoRow]]
  /\ memory = <<>> /\ phase = "compiling"
  /\ call = [tokens |-> <<>>, previous |-> 0] /\ answer = Said("nothing")
  /\ failures = 0

----------------------------------------------------------------------------
(* The device.                                                             *)

\* What was in a buffer that a run has not written.
Stale == [row \in Rows(Capacity) |-> NoRow]

\* Rows are in the order of the sequences, and every sequence has its tokens.
Fed(name, tokens) ==
  [row \in Rows(Len(tokens)) |->
     <<name, tokens[TokenOf(row, Len(tokens)) + 1], BatchOf(row, Len(tokens))>>]

\* A compilation that fails leaves nothing behind.
Compile ==
  /\ phase = "compiling" /\ phase' = "idle"
  /\ LET before == [b \in ({"memoryKeys", "memoryValues"} \X Used) \union {Common("memory")} |->
                      [row \in Rows(1) |-> <<"memory", row - 1>>]]
         steps == IF executor = "transformer" THEN Setup ELSE <<>>
         after == Execute(before, steps, Len(steps), 1)
     IN  memory' = [b \in {"memoryKeys", "memoryValues"} \X Used |-> after[b]]
  /\ UNCHANGED <<length, devLength, caches, call, answer, failures, executor>>

Inputs == {"queryInput", "keyInput", "valueInput"}
Outputs == {"logits", "nextTokens", "output"}

Steps == IF executor = "transformer" THEN DecoderSteps ELSE AttentionSteps

\* What the buffers hold after the first `count` steps of the run under way.
After(count) ==
  LET before ==
        [b \in (({"keys", "values", "memoryKeys", "memoryValues", "length"} \union Intermediates)
                  \X Used)
               \union ((Inputs \union Outputs \union {"tokens"}) \X {0}) \union {Own("hidden", 0)} |->
           CASE b \in DOMAIN caches -> caches[b]
             [] b \in DOMAIN memory -> memory[b]
             [] b[1] = "length" -> devLength[b[2]]
             [] b[1] \in Inputs \union {"tokens"} -> Fed(b[1], call.tokens)
             [] OTHER -> Stale]
  IN  Execute(before, Steps, count, Len(call.tokens))

Caches(after) == [b \in DOMAIN caches |-> after[b]]

\* Mutant: the first token's row of every sequence.
FirstRows(tokens, n) == [batch \in Batches |-> tokens[batch * n + 1]]

\* The last token's row of every sequence.
NextTokens(tokens, n) == [batch \in Batches |-> tokens[batch * n + n]]

Returned(after, n) ==
  IF executor = "transformer"
    THEN [rows |-> after[Common("logits")], next |-> NextTokens(after[Common("nextTokens")], n)]
    ELSE [rows |-> after[Common("output")], next |-> <<>>]

----------------------------------------------------------------------------
(* The model that the steps implement: what the caches hold and what is    *)
(* returned for a context, without buffers, stages and lengths.            *)

Projected(x, weight, l) == Linear(x, Own(weight, l), NoBias)
Affine(x, weight, bias, l) == Linear(x, Own(weight, l), Own(bias, l))
Norm(residual, update, gamma, beta, l) ==
  Normalized(residual, update, Own(gamma, l), Own(beta, l))

\* A decoder layer over the row x, for the keys and values it sees.
DecoderLayer(x, keys, values, batch, l) ==
  LET memoryOf(weight, bias) == Affine(<<"memory", batch>>, weight, bias, l)
      self == Norm(x, Projected(Attended(Projected(x, "selfQueryWeight", l), keys, values),
                                "selfOutputWeight", l), "selfNormWeight", "selfNormBias", l)
      crossed == Attended(Affine(self, "crossQueryWeight", "crossQueryBias", l),
                          memoryOf("crossKeyWeight", "crossKeyBias"),
                          memoryOf("crossValueWeight", "crossValueBias"))
      cross == Norm(self, Affine(crossed, "crossOutputWeight", "crossOutputBias", l),
                    "crossNormWeight", "crossNormBias", l)
      fed == Relu(Affine(cross, "feedForwardInputWeight", "feedForwardInputBias", l))
  IN  Norm(cross, Affine(fed, "feedForwardOutputWeight", "feedForwardOutputBias", l),
           "feedForwardNormWeight", "feedForwardNormBias", l)

\* A row for every position of a context in every sequence of the batch.
ContextCells(context) == Batches \X (0 .. Len(context) - 1)

FedOf(name, context) ==
  [cell \in ContextCells(context) |-> <<name, context[cell[2] + 1], cell[1]>>]
ProjectedOf(rows, weight, l) == [cell \in DOMAIN rows |-> Projected(rows[cell], weight, l)]
Before(rows, batch, q) == [p \in 0 .. q |-> rows[<<batch, p>>]]

EmbeddedOf(context) ==
  [cell \in ContextCells(context) |-> Embedded(FedOf("tokens", context)[cell], cell[2])]

LayerOf(rows, l) ==
  LET keys == ProjectedOf(rows, "selfKeyWeight", l)
      values == ProjectedOf(rows, "selfValueWeight", l)
  IN  [cell \in DOMAIN rows |->
         DecoderLayer(rows[cell], Before(keys, cell[1], cell[2]), Before(values, cell[1], cell[2]),
                      cell[1], l)]

HiddenOf(context) ==
  LET hidden[l \in 0 .. LayerCount] ==
        IF l = 0 THEN EmbeddedOf(context) ELSE LayerOf(hidden[l - 1], l)
  IN  hidden

LogitsOf(rows) ==
  [cell \in DOMAIN rows |-> Linear(rows[cell], Common("languageModelHeadWeight"),
                                   Common("languageModelHeadBias"))]

TransformerOf(context) ==
  LET hidden == HiddenOf(context)
  IN  [keys |-> [l \in Layers |-> ProjectedOf(hidden[l - 1], "selfKeyWeight", l)],
       values |-> [l \in Layers |-> ProjectedOf(hidden[l - 1], "selfValueWeight", l)],
       rows |-> LogitsOf(hidden[LayerCount])]

\* Every token of a context sees all of it.
AttentionOf(context) ==
  LET queries == ProjectedOf(FedOf("queryInput", context), "queryWeight", 1)
      keys == ProjectedOf(FedOf("keyInput", context), "keyWeight", 1)
      values == ProjectedOf(FedOf("valueInput", context), "valueWeight", 1)
      last == Len(context) - 1
  IN  [keys |-> <<keys>>, values |-> <<values>>,
       rows |-> [cell \in ContextCells(context) |->
                   Projected(Attended(queries[cell], Before(keys, cell[1], last),
                                      Before(values, cell[1], last)), "outputWeight", 1)]]

Contexts(n) == [1 .. n -> Token]
Model ==
  [context \in UNION {Contexts(n) : n \in 0 .. Capacity} |->
     [transformer |-> TransformerOf(context), attention |-> AttentionOf(context)]]

Garbage == <<"garbage">>
One(contexts) == IF contexts = {} THEN Garbage ELSE CHOOSE c \in contexts : TRUE

\* The context of n tokens whose rows the caches of all layers hold.
Held(n) ==
  One({c \in Contexts(n) :
         \A l \in Used, cell \in Batches \X (0 .. n - 1) :
           /\ caches[Own("keys", l)][cell] = Model[c][executor].keys[l][cell]
           /\ caches[Own("values", l)][cell] = Model[c][executor].values[l][cell]})

\* The context of `size` tokens for whose last n what was returned is computed.
ContextOf(size, returned, n) ==
  One({c \in Contexts(size) :
         returned =
           [rows |-> [row \in Rows(n) |->
                        Model[c][executor].rows[<<BatchOf(row, n), size - n + TokenOf(row, n)>>]],
            next |-> IF executor = "transformer"
                       THEN [b \in Batches |-> Largest(Model[c][executor].rows[<<b, size - 1>>])]
                       ELSE <<>>]})

----------------------------------------------------------------------------
(* One call after the other.                                               *)

\* The tokens do not fit the compiled stage, the caches or the state of the
\* session, or one of the inputs cannot be written.
Fail ==
  /\ phase = "idle" /\ answer' = Said("error")
  /\ UNCHANGED <<length, devLength, caches, memory, phase, call, failures, executor>>

\* stageLength of every layer up to the one that fails, which is behind the
\* last one when none does.
Staged(next, failing) == [l \in Used |-> IF l < failing THEN next ELSE devLength[l]]

StagingFails(next) ==
  /\ next <= Capacity
  /\ \E failing \in Used : devLength' = Staged(next, failing)
  /\ answer' = Said("error")
  /\ UNCHANGED <<length, caches, memory, phase, call, failures, executor>>

Stage(next, inputs) ==
  /\ next <= Capacity
  /\ devLength' = Staged(next, Last + 1)
  /\ \E tokens \in inputs : call' = [tokens |-> tokens, previous |-> CurrentLength]
  /\ phase' = "staged"
  /\ UNCHANGED <<length, caches, memory, answer, failures, executor>>

Run(next, inputs) == StagingFails(next) \/ Stage(next, inputs)

Prefill ==
  /\ phase = "idle" /\ CurrentLength = 0
  /\ Run(PrefillLength, [1 .. PrefillLength -> Token])

Decode ==
  /\ phase = "idle" /\ CurrentLength \in 1 .. Capacity - 1
  /\ Run(CurrentLength + 1, [1 .. 1 -> Token])

Execution ==
  /\ phase = "staged"
  /\ LET n == Len(call.tokens)
         after == After(Len(Steps))
     IN  /\ caches' = Caches(after)
         /\ length' = [l \in Used |-> call.previous + n]
         /\ answer' = [said |-> "passed",
                       on |-> ContextOf(call.previous + n, Returned(after, n), n)]
  /\ phase' = "idle"
  /\ UNCHANGED <<devLength, memory, call, failures, executor>>

\* What the run has done, but for the caches, the next one does anew.
Stops == {0} \union {i \in DOMAIN Steps : Steps[i].kernel = "cache"}

\* The lengths are written back, whichever of these writes fail.
ExecutionFails ==
  /\ phase = "staged" /\ failures < MaxFailures /\ failures' = failures + 1
  /\ \E count \in Stops : caches' = Caches(After(count))
  /\ \E written \in SUBSET Used :
       devLength' = [l \in Used |-> IF l \in written THEN call.previous ELSE devLength[l]]
  /\ answer' = Said("error") /\ phase' = "idle"
  /\ UNCHANGED <<length, memory, call, executor>>

\* Mutant: the last layer is reset first.
ResetFromTheBack(failing) ==
  /\ length' = [l \in Used |-> IF Last + 1 - l < failing THEN 0 ELSE length[l]]
  /\ devLength' = [l \in Used |-> IF Last + 1 - l < failing THEN 0 ELSE devLength[l]]

\* The first layer whose length cannot be written ends the reset.
ResetUpTo(failing) ==
  /\ length' = [l \in Used |-> IF l < failing THEN 0 ELSE length[l]]
  /\ devLength' = [l \in Used |-> IF l < failing THEN 0 ELSE devLength[l]]

Reset ==
  /\ phase = "idle"
  /\ \/ ResetUpTo(Last + 1) /\ answer' = Said("done")
     \/ answer' = Said("error") /\ \E failing \in Used : ResetUpTo(failing)
  /\ UNCHANGED <<caches, memory, phase, call, failures, executor>>

Next ==
  \/ Compile \/ Fail \/ Prefill \/ Decode \/ Execution \/ ExecutionFails \/ Reset

Spec == Init /\ [][Next]_vars

----------------------------------------------------------------------------
(* Properties.                                                             *)

TypeInvariant ==
  /\ length \in [Used -> 0 .. Capacity] /\ devLength \in [Used -> 0 .. Capacity]
  /\ phase \in {"compiling", "idle", "staged"}
  /\ Len(call.tokens) \in {0, 1, PrefillLength} /\ call.previous \in 0 .. Capacity

\* Whatever was reset or staged half way: where the layers' lengths are not the
\* same, the one that the executor asks is 0, and the only call it takes is a
\* prefill, which begins all of them anew.
LayersAgreeOrAreEmpty ==
  \A l \in Used : length[l] = CurrentLength \/ CurrentLength = 0

\* Every answer is that of the model for exactly the tokens that were accepted,
\* the caches of all layers hold the rows of these, and a call that fails at
\* any write or step leaves the session as it was.
Session == INSTANCE DecoderSession WITH
  context <- Held(CurrentLength),
  lost <- \E l \in Used : length[l] # CurrentLength,
  input <- call.tokens,
  copy <- <<>>

ImplementsSession == Session!Spec
=============================================================================
