------------------------------ MODULE Serving ------------------------------
(***************************************************************************)
(* runContinuousBatch of src/src/runtime/ServingRuntime.cpp: one thread    *)
(* that serves a fixed list of requests over one page pool per decoder     *)
(* layer.  A tick resumes preempted requests, prefills arrived ones chunk  *)
(* by chunk, preempts until one more token of every active request fits,   *)
(* stages and decodes them in one batch, and commits row by row.           *)
(*                                                                         *)
(* A call to the device may fail.  The loop then throws, and what it rolls *)
(* back first is destroyed with the requests and the pools, so "failed" is *)
(* reached at once and the other variables keep values nobody reads; what  *)
(* the failing calls do to a pool is the subject of SharedPagePool.        *)
(***************************************************************************)
EXTENDS PagedKV, FiniteSets, FiniteSetsExt

CONSTANTS
  N,            \* number of requests
  LayerCount,   \* decoder layers, each with its own pool
  ChunkSize,    \* config.prefillChunkSize
  TickLimit,    \* the scheduler's progress limit, 10000 in the code
  RequestSpecs  \* the request specifications the runs start from

Requests == 1 .. N
Layers == 1 .. LayerCount

Total(spec) == spec.prompt + spec.decode

\* What runContinuousBatch and createKVCacheState check before the loop; the
\* chunk size of a request is min(ChunkSize, prompt - 1).
ASSUME ServingAssumption ==
  /\ N \in Nat \ {0} /\ LayerCount \in Nat \ {0}
  /\ ChunkSize \in Nat \ {0} /\ TickLimit \in Nat
  /\ PagesFor(Capacity) <= PoolPages
  /\ RequestSpecs \subseteq [prompt : 2 .. Capacity - 1, decode : Nat, arrival : Nat]
  /\ \A spec \in RequestSpecs :
       Total(spec) <= Capacity /\ PagesFor(Total(spec)) <= PoolPages

VARIABLES
  specs,       \* specs[r]: prompt and decode lengths and arrival step
  pools,       \* pools[l]: the page pool of layer l
  kv,          \* kv[r][l]: the KVCacheState of request r in layer l
  cells,       \* cells[l][slot]: the key and value rows of layer l
  state,       \* state[r]: RequestState
  snapshot,    \* snapshot[r]: DecoderKVSnapshot, length 0 when there is none
  generated,   \* generated[r]: generatedTokenIds, the last one nextTokenIds
  batch,       \* the rows of the decode batch and the next token of each
  tick,
  progress,    \* whether the tick has done something
  pc,          \* the pass of the tick, or "passed" or "failed"
  cursor,      \* the request the pass has reached
  cause,       \* why the loop has thrown
  metrics      \* preemptionCount, resumeCount, maximumActiveBatchSize

vars == <<specs, pools, kv, cells, state, snapshot, generated, batch, tick,
          progress, pc, cursor, cause, metrics>>
cache == <<pools, kv, cells>>

\* A row is the token it was computed from; NoRow fills a fresh buffer, and
\* Garbage is what is sampled after reading anything but one request's rows.
Token(r, n) == <<r, n>>
NoRow == <<0, 0>>
Garbage == <<0, 1>>
Tokens == {Token(r, n) : r \in Requests, n \in 0 .. Capacity} \cup {Garbage}

\* The batch holds the requests that were active when it was packed, in order;
\* that of request r is row Row(active, r), and next[row] the row's next token.
NoBatch == [active |-> {}, next |-> <<>>]

NoSnapshot == [length |-> 0, rows |-> [l \in Layers |-> [q \in 0 .. -1 |-> NoRow]]]

Length(r) == kv[r][1].length

Available == Min({AvailablePages(pools[l]) : l \in Layers})

Active == {r \in Requests : state[r] = "Decode"}

Init ==
  /\ specs \in [Requests -> RequestSpecs]
  /\ pools = [l \in Layers |-> NewPool]
  /\ kv = [r \in Requests |-> [l \in Layers |-> NewState]]
  /\ cells = [l \in Layers |-> [slot \in Slots |-> NoRow]]
  /\ state = [r \in Requests |-> "Waiting"]
  /\ snapshot = [r \in Requests |-> NoSnapshot]
  /\ generated = [r \in Requests |-> <<>>]
  /\ batch = NoBatch
  /\ tick = 0
  /\ progress = FALSE
  /\ pc = "resume"
  /\ cursor = 1
  /\ cause = "none"
  /\ metrics = [preemptions |-> 0, resumes |-> 0, batch |-> 0]

----------------------------------------------------------------------------
(* One request's calls on all its layers.                                  *)

Outcomes(r, op(_, _)) == [l \in Layers |-> op(pools[l], kv[r][l])]

Succeeds(outcomes) == \A l \in Layers : outcomes[l].ok

Become(r, outcomes) ==
  /\ pools' = [l \in Layers |-> outcomes[l].pool]
  /\ kv' = [kv EXCEPT ![r] = [l \in Layers |-> outcomes[l].state]]

Staged(r, n) == Outcomes(r, LAMBDA pool, kvs : StageLength(pool, kvs, n, {}))

Released(r) == Outcomes(r, LAMBDA pool, kvs : Reset(pool, kvs, {}))

Throw(why) ==
  /\ pc' = "failed"
  /\ cause' = why
  /\ UNCHANGED <<specs, cache, state, snapshot, generated, batch, tick,
                 progress, cursor, metrics>>

\* A buffer write or a command buffer fails in the step that is under way.
DeviceFails ==
  /\ pc \in {"resume", "prefill", "chunk", "preempt", "stage", "decode", "commit"}
  /\ Throw("device")

\* The token that follows the first n positions, read in every layer l
\* through the table tables[l] after the rows were stored.
NextToken(stored, tables, n) ==
  LET owners ==
        {r \in Requests : \A l \in Layers, q \in 0 .. n - 1 :
           Mapped(tables[l], q) /\ stored[l][SlotOf(tables[l], q)] = Token(r, q)}
  IN  IF owners = {} THEN Garbage ELSE Token(Min(owners), n)

----------------------------------------------------------------------------
(* Passes over the requests, in order.  A request that a pass skips is     *)
(* left as it is, so a step goes to the next one that qualifies.           *)

Reaches(r, Qualifies(_)) ==
  /\ cursor <= r /\ Qualifies(r)
  /\ \A k \in cursor .. r - 1 : ~Qualifies(k)

Ends(Qualifies(_)) == \A k \in cursor .. N : ~Qualifies(k)

MayResume(r) ==
  /\ state[r] = "Preempted"
  /\ Available >= PagesFor(snapshot[r].length)

\* restoreKVCache: stage, write the saved rows and commit, layer by layer.
Resume(r) ==
  LET n        == snapshot[r].length
      restored == Outcomes(r, LAMBDA pool, kvs : Restore(pool, kvs, n, {}, {}))
  IN  /\ pc = "resume"
      /\ Reaches(r, MayResume)
      /\ IF Succeeds(restored)
         THEN /\ Become(r, restored)
              /\ cells' = [l \in Layers |->
                             Store(cells[l], restored[l].state.table, 0 .. n - 1,
                                   snapshot[r].rows[l])]
              /\ state' = [state EXCEPT ![r] = "Decode"]
              /\ snapshot' = [snapshot EXCEPT ![r] = NoSnapshot]
              /\ metrics' = [metrics EXCEPT !.resumes = @ + 1]
              /\ progress' = TRUE
              /\ cursor' = r + 1
              /\ UNCHANGED <<specs, generated, batch, tick, pc, cause>>
         ELSE Throw("resume")

EndResume ==
  /\ pc = "resume"
  /\ Ends(MayResume)
  /\ pc' = "prefill"
  /\ cursor' = 1
  /\ UNCHANGED <<specs, cache, state, snapshot, generated, batch, tick,
                 progress, cause, metrics>>

MayPrefill(r) ==
  /\ state[r] = "Waiting"
  /\ specs[r].arrival <= tick
  /\ Available >= PagesFor(specs[r].prompt)

\* min(configuredChunkSize, remaining tokens)
ChunkLength(r) ==
  Min({ChunkSize, specs[r].prompt - 1, specs[r].prompt - Length(r)})

\* One run of prefillChunked: stage, store the chunk's rows, attend to them
\* and commit.  The last chunk yields the first token; a request that wants
\* no more gives its pages back at once.
PrefillChunk(r) ==
  LET n      == Length(r) + ChunkLength(r)
      staged == Staged(r, n)
      tables == [l \in Layers |-> staged[l].state.devTable]
      rows   == [q \in 0 .. n - 1 |-> Token(r, q)]
      ran    == [l \in Layers |-> [staged[l] EXCEPT !.state = CommitLength(@, n)]]
      last   == n = specs[r].prompt
      done   == last /\ specs[r].decode = 0
      emptied == [l \in Layers |-> Reset(ran[l].pool, ran[l].state, {})]
  IN  /\ \/ pc = "prefill" /\ Reaches(r, MayPrefill)
         \/ pc = "chunk" /\ cursor = r
      /\ IF Succeeds(staged)
         THEN /\ Become(r, IF done THEN emptied ELSE ran)
              /\ cells' = [l \in Layers |->
                             Store(cells[l], tables[l], Length(r) .. n - 1, rows)]
              /\ generated' = [generated EXCEPT ![r] =
                                 IF last THEN <<NextToken(cells', tables, n)>>
                                 ELSE @]
              /\ state' = [state EXCEPT ![r] = IF done THEN "Finished"
                                               ELSE IF last THEN "Decode" ELSE @]
              /\ progress' = (progress \/ last)
              /\ pc' = IF last THEN "prefill" ELSE "chunk"
              /\ cursor' = IF last THEN r + 1 ELSE r
              /\ UNCHANGED <<specs, snapshot, batch, tick, cause, metrics>>
         ELSE Throw("prefill")

EndPrefill ==
  /\ pc = "prefill"
  /\ Ends(MayPrefill)
  /\ pc' = "preempt"
  /\ cursor' = 1
  /\ UNCHANGED <<specs, cache, state, snapshot, generated, batch, tick,
                 progress, cause, metrics>>

----------------------------------------------------------------------------
(* The decode batch.                                                       *)

\* Mutant: the page that the request's last token needed, not its next one.
PagesOfLastToken(r) == PagesFor(Length(r)) - PagesFor(Length(r) - 1)

\* Mutant: the pages that the request already holds are counted again.
PagesInAll(r) == PagesFor(Length(r) + 1)

AdditionalPages(r) == PagesFor(Length(r) + 1) - PagesFor(Length(r))

\* additionalPagesForNextToken
RequiredPages == SumFunctionOnSet([r \in Requests |-> AdditionalPages(r)], Active)

BatchFits == Available >= RequiredPages

HeldPages(r) == Len(kv[r][1].table)

\* The first of the active requests that hold the most pages of layer 0.
SelectPreemptionVictim ==
  Min({r \in Active : \A k \in Active : HeldPages(k) <= HeldPages(r)})

\* Mutant: the cache is released before it is copied.
PreemptReleasesFirst ==
  LET r        == SelectPreemptionVictim
      released == Released(r)
      n        == released[1].state.length
  IN  /\ pc = "preempt"
      /\ Active # {} /\ ~BatchFits
      /\ snapshot' = [snapshot EXCEPT ![r] =
                        [length |-> n,
                         rows   |-> [l \in Layers |->
                                       ReadPrefix(cells[l], released[l].state.table, n)]]]
      /\ Become(r, released)
      /\ state' = [state EXCEPT ![r] = "Preempted"]
      /\ metrics' = [metrics EXCEPT !.preemptions = @ + 1]
      /\ progress' = TRUE
      /\ UNCHANGED <<specs, cells, generated, batch, tick, pc, cursor, cause>>

\* snapshotKVCache and releaseKVCache.
Preempt ==
  LET r        == SelectPreemptionVictim
      n        == Length(r)
      released == Released(r)
  IN  /\ pc = "preempt"
      /\ Active # {} /\ ~BatchFits
      /\ snapshot' = [snapshot EXCEPT ![r] =
                        [length |-> n,
                         rows   |-> [l \in Layers |->
                                       ReadPrefix(cells[l], kv[r][l].table, n)]]]
      /\ Become(r, released)
      /\ state' = [state EXCEPT ![r] = "Preempted"]
      /\ metrics' = [metrics EXCEPT !.preemptions = @ + 1]
      /\ progress' = TRUE
      /\ UNCHANGED <<specs, cells, generated, batch, tick, pc, cursor, cause>>

EndPreempt ==
  /\ pc = "preempt"
  /\ Active = {} \/ BatchFits
  /\ pc' = IF Active = {} THEN "audit" ELSE "stage"
  /\ cursor' = 1
  /\ UNCHANGED <<specs, cache, state, snapshot, generated, batch, tick,
                 progress, cause, metrics>>

Stage(r) ==
  LET staged == Staged(r, Length(r) + 1)
  IN  /\ pc = "stage"
      /\ Reaches(r, LAMBDA k : k \in Active)
      /\ IF Succeeds(staged)
         THEN /\ Become(r, staged)
              /\ cursor' = r + 1
              /\ UNCHANGED <<specs, cells, state, snapshot, generated, batch,
                             tick, progress, pc, cause, metrics>>
         ELSE Throw("stage")

EndStage ==
  /\ pc = "stage"
  /\ Ends(LAMBDA k : k \in Active)
  /\ pc' = "decode"
  /\ cursor' = 1
  /\ UNCHANGED <<specs, cache, state, snapshot, generated, batch, tick,
                 progress, cause, metrics>>

Last(r) == generated[r][Len(generated[r])]

\* Mutant: the row among the requests that are still active.
RowAmongActive(active, r) == Cardinality({k \in Active : k <= r})

\* The row of a request, and the request of a row (active[row]).
Row(active, r) == Cardinality({k \in active : k <= r})

RequestAt(active, row) == CHOOSE r \in active : Row(active, r) = row

Rows(active) == 1 .. Cardinality(active)

\* What the host packs for each row: its token, its length with that token,
\* and the host's table of each layer.
Packed ==
  [row \in Rows(Active) |->
     LET r == RequestAt(Active, row)
     IN  [token  |-> Last(r),
          valid  |-> Length(r) + 1,
          tables |-> [l \in Layers |-> kv[r][l].table]]]

\* In every layer each row stores its token at its last valid position, then
\* attends to all its positions.
DecodeBatch ==
  LET packed == Packed
      storesTo(l, slot, row) ==
        LET table == packed[row].tables[l]
            last  == packed[row].valid - 1
        IN  Mapped(table, last) /\ SlotOf(table, last) = slot
  IN  /\ pc = "decode"
      /\ cells' = [l \in Layers |-> [slot \in Slots |->
                     IF \E row \in Rows(Active) : storesTo(l, slot, row)
                     THEN packed[CHOOSE row \in Rows(Active) :
                                   storesTo(l, slot, row)].token
                     ELSE cells[l][slot]]]
      /\ batch' = [active |-> Active,
                    next   |-> [row \in Rows(Active) |->
                      NextToken(cells', packed[row].tables, packed[row].valid)]]
      /\ metrics' = [metrics EXCEPT !.batch = MaxOf(@, Cardinality(Active))]
      /\ pc' = "commit"
      /\ cursor' = 1
      /\ UNCHANGED <<specs, pools, kv, state, snapshot, generated, tick,
                     progress, cause>>

\* A row that the pass over the rows has still to reach.
Pending(r) == pc = "commit" /\ r \in batch.active /\ cursor <= r

Sampled(r) == batch.next[Row(batch.active, r)]

\* Mutant: a finished request keeps its pages.
CommitKeepsPages(r) ==
  LET committed == [l \in Layers |-> CommitLength(kv[r][l], Length(r) + 1)]
      output    == Append(generated[r], Sampled(r))
      done      == Len(output) = specs[r].decode + 1
  IN  /\ pc = "commit"
      /\ Reaches(r, Pending)
      /\ kv' = [kv EXCEPT ![r] = committed]
      /\ generated' = [generated EXCEPT ![r] = output]
      /\ state' = [state EXCEPT ![r] = IF done THEN "Finished" ELSE @]
      /\ progress' = TRUE
      /\ cursor' = r + 1
      /\ UNCHANGED <<specs, pools, cells, snapshot, batch, tick, pc, cause, metrics>>

\* A request that has all its tokens gives its pages back.
Commit(r) ==
  LET committed == [l \in Layers |-> CommitLength(kv[r][l], Length(r) + 1)]
      output    == Append(generated[r], Sampled(r))
      done      == Len(output) = specs[r].decode + 1
      emptied   == [l \in Layers |-> Reset(pools[l], committed[l], {})]
  IN  /\ pc = "commit"
      /\ Reaches(r, Pending)
      /\ IF done THEN Become(r, emptied)
                 ELSE pools' = pools /\ kv' = [kv EXCEPT ![r] = committed]
      /\ generated' = [generated EXCEPT ![r] = output]
      /\ state' = [state EXCEPT ![r] = IF done THEN "Finished" ELSE @]
      /\ progress' = TRUE
      /\ cursor' = r + 1
      /\ UNCHANGED <<specs, cells, snapshot, batch, tick, pc, cause, metrics>>

EndCommit ==
  /\ pc = "commit"
  /\ Ends(Pending)
  /\ pc' = "audit"
  /\ cursor' = 1
  /\ batch' = NoBatch
  /\ UNCHANGED <<specs, cache, state, snapshot, generated, tick,
                 progress, cause, metrics>>

----------------------------------------------------------------------------
(* The end of a tick.                                                      *)

\* auditPageIsolation
Isolated ==
  \A l \in Layers : \A a, b \in Active :
    \A i \in DOMAIN kv[a][l].table, j \in DOMAIN kv[b][l].table :
      kv[a][l].table[i] = kv[b][l].table[j] => a = b /\ i = j

FutureArrival == \E r \in Requests : state[r] = "Waiting" /\ specs[r].arrival > tick

Completed == {r \in Requests : state[r] = "Finished"}

\* usedPages and the lifecycle counters of every pool when the loop ends.
PoolsSettled ==
  /\ \A l \in Layers : UsedPages(pools[l]) = 0
  /\ \A l \in Layers : /\ pools[l].allocations = pools[1].allocations
                       /\ pools[l].releases = pools[1].releases

\* Mutant: the tick is not counted.
NextTickStalls ==
  /\ pc' = "resume"
  /\ progress' = FALSE
  /\ cursor' = 1
  /\ UNCHANGED <<specs, cache, state, snapshot, generated, batch, tick, cause,
                 metrics>>

\* Mutant: a tick starts with the arrivals.
NextTickAdmitsFirst ==
  /\ pc' = "prefill"
  /\ tick' = tick + 1
  /\ progress' = FALSE
  /\ cursor' = 1
  /\ UNCHANGED <<specs, cache, state, snapshot, generated, batch, cause, metrics>>

NextTick ==
  /\ pc' = "resume"
  /\ tick' = tick + 1
  /\ progress' = FALSE
  /\ cursor' = 1
  /\ UNCHANGED <<specs, cache, state, snapshot, generated, batch, cause, metrics>>

Pass ==
  /\ pc' = "passed"
  /\ UNCHANGED <<specs, cache, state, snapshot, generated, batch, tick,
                 progress, cursor, cause, metrics>>

EndTick ==
  /\ pc = "audit"
  /\ IF ~Isolated THEN Throw("isolation")
     ELSE IF ~progress /\ ~FutureArrival THEN Throw("no progress")
     ELSE IF Completed # Requests
     THEN IF tick >= TickLimit THEN Throw("tick limit") ELSE NextTick
     ELSE IF PoolsSettled THEN Pass ELSE Throw("unsettled pools")

Ended == pc \in {"passed", "failed"}

\* The call has returned.
Done == Ended /\ UNCHANGED vars

Next ==
  \/ \E r \in Requests : Resume(r) \/ PrefillChunk(r) \/ Stage(r) \/ Commit(r)
  \/ EndResume \/ EndPrefill \/ EndPreempt \/ EndStage \/ EndCommit
  \/ Preempt
  \/ DecodeBatch
  \/ EndTick
  \/ DeviceFails
  \/ Done

\* The loop is one thread that never waits for anything but the device.
Spec == Init /\ [][Next]_vars /\ WF_vars(Next)
----------------------------------------------------------------------------

Tables(l) == [r \in Requests |-> kv[r][l].table]

TypeInvariant ==
  /\ specs \in [Requests -> RequestSpecs]
  /\ \A l \in Layers :
       /\ pools[l].free \in Seq(Pages) /\ pools[l].allocated \subseteq Pages
       /\ \A r \in Requests :
            /\ kv[r][l].table \in Seq(Pages) /\ kv[r][l].length \in 0 .. Capacity
            /\ kv[r][l].devTable \in Seq(Pages)
            /\ kv[r][l].devLength \in 0 .. Capacity
       /\ \A slot \in Slots : cells[l][slot] \in Tokens \cup {NoRow}
  /\ state \in [Requests -> {"Waiting", "Decode", "Preempted", "Finished"}]
  /\ \A r \in Requests : snapshot[r].length \in 0 .. Capacity
  /\ generated \in [Requests -> Seq(Tokens)]
  /\ batch.active \subseteq Requests
  /\ \A row \in Rows(batch.active) : batch.next[row] \in Tokens
  /\ tick \in 0 .. TickLimit /\ progress \in BOOLEAN
  /\ pc \in {"resume", "prefill", "chunk", "preempt", "stage", "decode",
            "commit", "audit", "passed", "failed"}
  /\ cursor \in 1 .. N + 1
  /\ metrics.preemptions \in Nat /\ metrics.resumes \in Nat
  /\ metrics.batch \in 0 .. N

LatestArrival == Max({specs[r].arrival : r \in Requests})
DecodeTotal == SumFunctionOnSet([r \in Requests |-> specs[r].decode], Requests)

\* Every error that is not the device's is unreachable: what the passes count
\* as available is enough for what they then stage, a batch can always be made
\* to fit without emptying it, no tick is idle unless a request is still to
\* arrive, and all pools end settled with equal counts.  The progress limit
\* ends a call only when it is below the ticks that the work itself may take.
OnlyTheDeviceFails ==
  \/ cause \in {"none", "device"}
  \/ cause = "tick limit" /\ TickLimit < LatestArrival + DecodeTotal

\* The scheduler never idles: from the last arrival on every tick delivers a
\* token, so preempting and resuming the same requests cannot go on for long.
ProgressBound == tick <= LatestArrival + DecodeTotal

\* Pages follow the requests: in every layer, a request that waits, is
\* preempted or has finished holds none, an active one holds those of its
\* length (of one token more once staged), and no page is lost or shared.
PagesFollowRequests ==
  pc # "failed" => \A l \in Layers :
    /\ PagesHeldOnce(pools[l], Tables(l))
    /\ CountsBalance(pools[l])
    /\ \A r \in Requests :
         LET staged == \/ pc = "stage" /\ r < cursor
                       \/ pc = "decode" \/ Pending(r)
         IN  Len(kv[r][l].table) =
               CASE r \in Active -> PagesFor(Length(r) + IF staged THEN 1 ELSE 0)
                 [] pc = "chunk" /\ r = cursor -> PagesFor(Length(r))
                 [] OTHER -> 0

\* The host copy of a preempted request is all that is left of it, and is
\* complete: the rows of its prompt and of every token generated but the last,
\* in every layer.
SnapshotComplete ==
  \A r \in Requests : state[r] = "Preempted" =>
    /\ snapshot[r].length = specs[r].prompt + Len(generated[r]) - 1
    /\ \A l \in Layers :
         snapshot[r].rows[l] = [q \in 0 .. snapshot[r].length - 1 |-> Token(r, q)]

\* Preempted requests go first: no prefill starts while one of them would fit,
\* though prefills of requests that decode nothing give pages back meanwhile.
ResumeBeforePrefill ==
  [][\A r \in Requests :
       pc = "prefill" /\ Length(r) = 0 /\ kv'[r] # kv[r]
       => \A k \in Requests : ~MayResume(k)]_vars

Service == INSTANCE TokenService WITH
  output <- generated,
  status <- IF Ended THEN pc ELSE "running"

\* Batching, preemption and shared pages are invisible: each request gets, in
\* order, the tokens it would get alone, all of them if the call passes.
ServesEachAsIfAlone == Service!Safety

\* The same, and the call always returns.
ImplementsTokenService == Service!Spec

=============================================================================
