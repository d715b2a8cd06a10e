--------------------------- MODULE PagedDecoder ---------------------------
(***************************************************************************)
(* CompiledDecoderLLM of src/src/runtime/DecoderLLMExecutor.cpp with its   *)
(* own pages: a KVCacheState and a page pool per layer, and calls that     *)
(* stage every layer, run the GPU over all of them and commit every layer. *)
(* Any device write of any layer and any GPU run may fail, the first write *)
(* to fail ending the loop it is in.  The callers are sequential.          *)
(***************************************************************************)
EXTENDS PagedKV, FiniteSets

CONSTANTS
  LayerCount,
  PrefillLength,
  ChunkSize,    \* prefillChunkSize, 0 where chunked prefill is not compiled
  Token,        \* the tokens a caller feeds
  Calls,        \* the calls the caller makes
  MaxFailures   \* bound on the calls that fail after their first write

\* KVCachePlan::validate and compileDecoderLLM; createKVCacheState makes a pool
\* of just the pages of one full request.
ASSUME PagedDecoderAssumption ==
  /\ LayerCount \in Nat \ {0}
  /\ PrefillLength \in 1 .. Capacity
  /\ ChunkSize \in 0 .. PrefillLength - 1
  /\ PoolPages = PagesFor(Capacity)
  /\ Calls \subseteq {"prefill", "prefillChunked", "prefill without logits",
                     "decode", "decode without logits", "reset", "snapshot"}

Layers == 1 .. LayerCount

VARIABLES
  pools,     \* pools[l]: the page pool of layer l
  kv,        \* kv[l]: its KVCacheState
  cells,     \* cells[l][slot]: its key and value rows
  phase,     \* "idle", "chunking" between two chunks, "staged" or "admitted"
  call,      \* the run under way
  checked,   \* the stages whose token-only kernels were measured
  answer,    \* what the last call returned: the tokens it was computed from
  copy,      \* the caller's DecoderKVSnapshot
  resetDue,  \* whether the last reset or restore failed
  failures   \* calls that have failed after their first write

vars == <<pools, kv, cells, phase, call, checked, answer, copy,
          resetDue, failures>>
cache == <<pools, kv, cells>>

\* A row is the layer, the token and the position it was computed from.
NoRow == <<>>
Rows == (Layers \X Token \X (0 .. Capacity - 1)) \union {NoRow}

Stages == {"prefill", "chunk", "decode"}
NoCall == [stage |-> "decode", tokens |-> <<>>, previous |-> 0, rest |-> <<>>, logits |-> TRUE]

Said(word) == [said |-> word, on |-> <<>>]

CurrentLength == kv[1].length

Init ==
  /\ pools = [l \in Layers |-> NewPool]
  /\ kv = [l \in Layers |-> NewState]
  /\ cells = [l \in Layers |-> [slot \in Slots |-> NoRow]]
  /\ phase = "idle" /\ call = NoCall /\ checked = {}
  /\ answer = Said("nothing") /\ copy = [length |-> 0, rows |-> [l \in Layers |-> <<>>]]
  /\ resetDue = FALSE /\ failures = 0

----------------------------------------------------------------------------
(* One operation on the state of every layer, front to back.               *)

StageFaults == {{}, {"table"}, {"length"}, {"length", "rewrite"}}
WriteFaults == {{}, {"table"}, {"length"}}

Become(outcomes) ==
  /\ pools' = [l \in Layers |-> outcomes[l].pool]
  /\ kv' = [l \in Layers |-> outcomes[l].state]

\* The layers before "failing" pass, the failing one has the faults, and the
\* layers behind it are not reached; failing is LayerCount + 1 when all pass.
UpTo(failing, faults, Operation(_, _, _)) ==
  [l \in Layers |->
     IF l < failing THEN Operation(pools[l], kv[l], {})
     ELSE IF l = failing THEN Operation(pools[l], kv[l], faults)
     ELSE Outcome(pools[l], kv[l], TRUE)]

AllPass(outcomes) == \A l \in Layers : outcomes[l].ok

\* Mutant: only the layer that failed is rolled back.
RolledBackFailed(outcomes, length, faults) ==
  [l \in Layers |-> IF outcomes[l].ok THEN outcomes[l]
                    ELSE RollbackLength(outcomes[l].pool, outcomes[l].state, length, faults[l])]

\* rollbackLength of every layer, whichever of them fail.
RolledBack(outcomes, length, faults) ==
  [l \in Layers |-> RollbackLength(outcomes[l].pool, outcomes[l].state, length, faults[l])]

\* A write or a run of the GPU fails.
DeviceFails == failures < MaxFailures /\ failures' = failures + 1

----------------------------------------------------------------------------
(* run: the token write, the stage of every layer, the GPU, the commits.   *)

\* The tokens do not fit the compiled stage, or the first write fails.
Fail ==
  /\ phase' = "idle" /\ answer' = Said("error")
  /\ UNCHANGED <<cache, call, checked, copy, resetDue, failures>>

\* Mutant: only the front layer is staged.
StagingFront(length, failing, faults) ==
  [l \in Layers |-> IF l = 1 /\ failing > 1 THEN StageLength(pools[l], kv[l], length, {})
                    ELSE Outcome(pools[l], kv[l], l # failing)]

StagingTo(length, failing, faults) ==
  LET Staging(pool, state, f) == StageLength(pool, state, length, f)
  IN  UpTo(failing, faults, Staging)

StagingFails(length) ==
  /\ DeviceFails
  /\ LET staged == {StagingTo(length, failing, faults) : failing \in Layers, faults \in StageFaults}
     IN  \E after \in {RolledBack(outcomes, CurrentLength, undo) :
                         outcomes \in {o \in staged : ~AllPass(o)}, undo \in [Layers -> WriteFaults]} :
           Become(after)
  /\ phase' = "idle" /\ answer' = Said("error")
  /\ UNCHANGED <<cells, call, checked, copy, resetDue>>

Stage(stage, count, inputs) ==
  /\ LET staged == StagingTo(CurrentLength + count, LayerCount + 1, {})
     IN  AllPass(staged) /\ Become(staged)
  /\ phase' = "staged"
  /\ \E input \in inputs :
       call' = [stage |-> stage, tokens |-> input.tokens, previous |-> CurrentLength,
                rest |-> input.rest, logits |-> input.logits]
  /\ UNCHANGED <<cells, checked, answer, copy, resetDue, failures>>

\* One of the inputs, of "count" tokens, which fit the cache.
Run(stage, count, inputs) ==
  Fail \/ StagingFails(CurrentLength + count) \/ Stage(stage, count, inputs)

Chunk(tokens, count) ==
  [tokens |-> SubSeq(tokens, 1, count),
   rest   |-> SubSeq(tokens, count + 1, Len(tokens)),
   logits |-> TRUE]

\* The logits are read back, or not, where a caller makes calls of that kind.
Inputs(count, without) ==
  [tokens : [1 .. count -> Token], rest : {<<>>},
   logits : IF without \in Calls THEN BOOLEAN ELSE {TRUE}]

Prefill ==
  /\ "prefill" \in Calls /\ phase = "idle" /\ CurrentLength = 0
  /\ Run("prefill", PrefillLength, Inputs(PrefillLength, "prefill without logits"))

PrefillChunked ==
  /\ "prefillChunked" \in Calls /\ phase = "idle" /\ CurrentLength = 0 /\ ChunkSize # 0
  /\ Run("chunk", ChunkSize,
         {Chunk(tokens, ChunkSize) : tokens \in [1 .. PrefillLength -> Token]})

\* The last chunk has what is left.
NextChunk ==
  LET count == IF ChunkSize < Len(call.rest) THEN ChunkSize ELSE Len(call.rest)
  IN  phase = "chunking" /\ Run("chunk", count, {Chunk(call.rest, count)})

Decode ==
  /\ "decode" \in Calls /\ phase = "idle"
  /\ CurrentLength \in 1 .. Capacity - 1
  /\ Run("decode", 1, Inputs(1, "decode without logits"))

\* A prefill of a cache that is not empty, a decode of one that is or is full.
Refuse == phase = "idle" /\ Fail

\* The layers and positions that the append kernels store, by each layer's
\* device length, and the rows after a run that stored those in "done".
Appended ==
  {cell \in Layers \X (0 .. Capacity - 1) :
     LET end == kv[cell[1]].devLength IN cell[2] \in end - Len(call.tokens) .. end - 1}
Stored(done) ==
  [l \in Layers |->
     LET positions == {q \in 0 .. Capacity - 1 : <<l, q>> \in done}
         first == kv[l].devLength - Len(call.tokens)
     IN  Store(cells[l], kv[l].devTable, positions,
               [q \in positions |-> <<l, call.tokens[q - first + 1], q>>])]

\* What the first n positions of a table hold, as the kernels and readPrefix
\* see them.
RowsOf(stored, table, n) ==
  [q \in 0 .. n - 1 |-> IF Mapped(table, q) THEN stored[SlotOf(table, q)] ELSE NoRow]

\* The n tokens that the rows of every layer stand for, if they are the same.
Context(n, rows) ==
  IF \A l \in Layers, q \in 0 .. n - 1 :
       rows[l][q] # NoRow /\ rows[l][q] = <<l, rows[1][q][2], q>>
  THEN [i \in 1 .. n |-> rows[1][i - 1][2]]
  ELSE <<"garbage">>

\* Both sequences run at the staged length, a number of times, before the
\* choice between them: all of them store the same rows.
AdmitTokenOnly ==
  /\ phase = "staged" /\ ~call.logits /\ call.stage \notin checked
  /\ checked' = checked \union {call.stage}
  /\ \E done \in SUBSET Appended : cells' = Stored(done)
  /\ phase' = "admitted"
  /\ UNCHANGED <<pools, kv, call, answer, copy, resetDue, failures>>

MayExecute ==
  \/ phase = "admitted"
  \/ phase = "staged" /\ (call.logits \/ call.stage \in checked)

\* Mutant: the run that was measured last is taken for the one that counts.
ExecuteMeasured ==
  /\ MayExecute
  /\ LET n == call.previous + Len(call.tokens)
     IN  /\ cells' = IF phase = "admitted" THEN cells ELSE Stored(Appended)
         /\ kv' = [l \in Layers |-> CommitLength(kv[l], n)]
         /\ answer' = [said |-> "passed",
                       on |-> Context(n, [l \in Layers |->
                                RowsOf(cells'[l], kv[l].devTable, kv[l].devLength)])]
  /\ phase' = IF call.rest = <<>> THEN "idle" ELSE "chunking"
  /\ resetDue' = (resetDue /\ call.stage = "decode")
  /\ UNCHANGED <<pools, call, checked, copy, failures>>

Execute ==
  /\ MayExecute
  /\ LET n == call.previous + Len(call.tokens)
     IN  /\ cells' = Stored(Appended)
         /\ kv' = [l \in Layers |-> CommitLength(kv[l], n)]
         /\ answer' = [said |-> "passed",
                       on |-> Context(n, [l \in Layers |->
                                RowsOf(cells'[l], kv[l].devTable, kv[l].devLength)])]
  /\ phase' = IF call.rest = <<>> THEN "idle" ELSE "chunking"
  /\ resetDue' = (resetDue /\ call.stage = "decode")
  /\ UNCHANGED <<pools, call, checked, copy, failures>>

ExecuteFails ==
  /\ DeviceFails
  /\ MayExecute
  /\ LET staged == [l \in Layers |-> Outcome(pools[l], kv[l], TRUE)]
         undone == {RolledBack(staged, call.previous, undo) : undo \in [Layers -> WriteFaults]}
         stored == {Stored(done) : done \in SUBSET Appended}
     IN  \E outcomes \in undone, rows \in stored : Become(outcomes) /\ cells' = rows
  /\ phase' = "idle" /\ answer' = Said("error")
  /\ UNCHANGED <<call, checked, copy, resetDue>>

----------------------------------------------------------------------------
(* reset, snapshotKVCache, restoreKVCache.                                 *)

ResetCache ==
  /\ "reset" \in Calls /\ phase = "idle"
  /\ \/ Become(UpTo(LayerCount + 1, {}, Reset)) /\ answer' = Said("done") /\ resetDue' = FALSE
        /\ UNCHANGED failures
     \/ \E failing \in Layers, faults \in WriteFaults \ {{}} :
          Become(UpTo(failing, faults, Reset)) /\ answer' = Said("error") /\ resetDue' = TRUE /\ DeviceFails
  /\ UNCHANGED <<cells, phase, call, checked, copy>>

\* Every layer's prefix of its own length, through the host's table.
Snapshot ==
  /\ "snapshot" \in Calls /\ phase = "idle" /\ CurrentLength # 0 /\ ~resetDue
  /\ copy' = [length |-> CurrentLength,
              rows |-> [l \in Layers |-> RowsOf(cells[l], kv[l].table, kv[l].length)]]
  /\ answer' = Said("done")
  /\ UNCHANGED <<cache, phase, call, checked, resetDue, failures>>

\* The layers are restored one after the other.  The first failure, with the
\* first "written" rows of its layer stored, resets all of them, and whether
\* these resets fail is not looked at.
RestoredTo(failing, faults, undo) ==
  LET Restoring(pool, state, f) == Restore(pool, state, copy.length, f, undo)
  IN  UpTo(failing, faults, Restoring)

\* Mutant: every layer is restored from the front layer's prefix.
RowsWrittenOfFront(failing, written) ==
  [l \in Layers |->
     Store(cells[l], StageLength(pools[l], kv[l], copy.length, {}).state.table,
           IF l < failing THEN 0 .. copy.length - 1
           ELSE IF l = failing THEN 0 .. written - 1 ELSE {},
           copy.rows[1])]

RowsWritten(failing, written) ==
  [l \in Layers |->
     Store(cells[l], StageLength(pools[l], kv[l], copy.length, {}).state.table,
           IF l < failing THEN 0 .. copy.length - 1
           ELSE IF l = failing THEN 0 .. written - 1 ELSE {},
           copy.rows[l])]

\* How many rows of its prefix the failing layer may have stored.
Written(failing, faults) ==
  IF faults = {"prefix"} /\ kv[failing].length = 0 THEN 0 .. copy.length ELSE {0}

\* What the resets leave, whichever of these and of the rollback's writes fail.
ResetAfter(failing, faults) ==
  {[l \in Layers |-> Reset(after[l].pool, after[l].state, resets[l])] :
     after \in {RestoredTo(failing, faults, undo) : undo \in WriteFaults},
     resets \in [Layers -> WriteFaults]}

RestoreCache ==
  /\ phase = "idle" /\ copy.length # 0 /\ CurrentLength = 0
  /\ LET all == RestoredTo(LayerCount + 1, {}, {})
     IN  \/ /\ AllPass(all) /\ Become(all) /\ cells' = RowsWritten(LayerCount + 1, 0)
            /\ answer' = Said("done") /\ resetDue' = FALSE
            /\ UNCHANGED failures
         \/ /\ \E failing \in Layers,
                  faults \in {{"table"}, {"length"}, {"length", "rewrite"}, {"prefix"}} :
                 LET left == ResetAfter(failing, faults)
                     stored == {RowsWritten(failing, written) : written \in Written(failing, faults)}
                 IN  /\ \A l \in Layers : RestoredTo(failing, faults, {})[l].ok <=> l # failing
                     /\ \E outcomes \in left, rows \in stored : Become(outcomes) /\ cells' = rows
            /\ answer' = Said("error") /\ resetDue' = TRUE /\ DeviceFails
  /\ UNCHANGED <<phase, call, checked, copy>>

Next ==
  \/ Prefill \/ PrefillChunked \/ NextChunk \/ Decode \/ Refuse
  \/ AdmitTokenOnly \/ Execute \/ ExecuteFails
  \/ ResetCache \/ Snapshot \/ RestoreCache

Spec == Init /\ [][Next]_vars

----------------------------------------------------------------------------
(* Properties *)

TypeInvariant ==
  /\ \A l \in Layers :
       /\ PagesHeldOnce(pools[l], <<kv[l].table>>)
       /\ kv[l].length \in 0 .. Capacity /\ kv[l].devLength \in 0 .. Capacity
       /\ cells[l] \in [Slots -> Rows]
  /\ phase \in {"idle", "chunking", "staged", "admitted"}
  /\ call.stage \in Stages /\ checked \subseteq Stages \ {"chunk"}
  /\ copy.length \in 0 .. Capacity /\ resetDue \in BOOLEAN

\* The executor asks only the front layer for the length.  It speaks for all:
\* between calls, whatever failed, every layer has committed the same length
\* and holds the pages of just that length.
FrontLayerSpeaksForAll ==
  phase \in {"idle", "chunking"} /\ ~resetDue =>
    \A l \in Layers : /\ kv[l].length = CurrentLength
                       /\ Len(kv[l].table) = PagesFor(CurrentLength)

\* When the GPU runs, every layer's kernels have the table and the length the
\* host staged, though rollbacks that failed left older ones on the device.
DeviceReady ==
  phase \in {"staged", "admitted"} =>
    \A l \in Layers : /\ kv[l].devTable = kv[l].table
                       /\ kv[l].devLength = call.previous + Len(call.tokens)

\* Every answer is computed from exactly the tokens that were accepted, and a
\* call that fails, in any layer and at any write, leaves these as they were.
Session == INSTANCE DecoderSession WITH
  context <- IF resetDue THEN <<>>
             ELSE Context(CurrentLength, [l \in Layers |->
                            RowsOf(cells[l], kv[l].table, kv[l].length)]),
  lost <- resetDue,
  input <- call.tokens,
  copy <- Context(copy.length, copy.rows)

ImplementsSession == Session!Spec

\* A decode extends a prompt whose prefill was completed.
DecodeNeedsPrefill ==
  phase = "staged" /\ call.stage = "decode" => call.previous >= PrefillLength
=============================================================================
