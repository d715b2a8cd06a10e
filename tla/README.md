# Verification of AICompiler: KV caches, decoders, serving scheduler, graph compiler and its
kernels, tuning, generated kernels

This directory holds TLA+ specifications of the program in the repository, TLC configurations
that check them on small instances, and proofs checked by TLAPS. `PROJECT.json` lists
components, runs, mutants, the map from definitions to source lines, hazards and theorems.

## The system

The program compiles tensor graphs and decoder models into Metal kernels and runs them. Its
parts, with the state each keeps and how they call each other:

| Component (under `src/src/` unless said) | State | Operations | Hard behaviour |
|---|---|---|---|
| Page pool and cache state, `runtime/KVCacheState.cpp` | free list, allocated flags, counters; per request and layer a block table, a committed length and their device copies | allocate, release, stage, commit, roll back, reset, restore, read | several requests share a pool; a device write can fail between any two updates |
| Decoder executor, `runtime/DecoderLLMExecutor.cpp` | one cache state per layer, compiled stages, per-stage admission of token-only kernels | prefill, chunked prefill, decode, snapshot, release, restore | all layers must move together; kernels are replayed at an uncommitted length |
| Serving scheduler, `runtime/ServingRuntime.cpp` | per request a state, a snapshot, tokens; one pool per layer; tick | resume, prefill, preempt, stage, decode, commit, audit | page pressure, preemption, completion in the middle of a batch, progress |
| Stateful and transformer executors, `runtime/StatefulExecutor.cpp`, `TransformerDecodeExecutor.cpp` | a cache without pages per layer, stages for prefill and decode | compile, prefill, decode, reset | nothing is put back when a layer fails to stage or to reset; a batch of sequences in one buffer |
| Graph executor, `runtime/GraphExecutor.cpp` | buffers, execution units | compile (tune, admit, prepare), run | admission of fused kernels, order of units |
| Analyzer and planners, `analyzer/`, `planner/` | none between calls | topological order, regions, kernel plans, tuners | order and aliasing, measured candidates with fallback |
| Generated kernels, `runtime/GeneratedKernelAdmission.cpp`, `runtime/KernelRegistry.mm`, `llm/`, `src/tools/llm_kernel_generator.py` | artifact and feedback files, kernel registry | generate, validate, measure, admit, load | retries, two files that must agree, an older artifact to preserve |
| Metal runtime, `backend/metal/MetalRuntime.mm` | GPU buffers, pipelines | create, write, execute | external device that fails |
| Tensor IR, emitters, validation, `tensor/`, `backend/metal/*Emitter.cpp`, `validation/` | none between calls | shapes and strides, kernels' index expressions, reference evaluation | strided and broadcast operands, fused patterns |
| Tuners and advisor, `planner/*Tuner.cpp`, `llm/AdvisorProtocol.cpp`, `src/tools/llm_advisor.py`, `benchmark/` | the advice file; a tuner's winner so far | export, advise, load, measure, choose, fall back | a file that is torn or about another program; measurements that come out either way |
| Importers, kernel contracts | none between calls | parsing, JSON | none that a state machine shows |
| Kaleidoscope front end, `lexer.cpp` to `TopLevel.cpp` | token stream, prototypes, JIT module | lex, parse, generate, evaluate | sequential |

Everything is single threaded on the host: the applications call an executor, the executor
stages lengths in the cache states, submits a Metal sequence and waits, and commits or rolls
back. Concurrency is the interleaving of several requests' calls on shared pools. Nothing is
persisted but the generated-kernel files and the advice file, and only there do processes meet:
the Python tools, the compiler that one of them starts, and later compilations and decoders.

What makes each part correct: a page belongs to one request or to the free list; a committed
prefix holds the request's own rows until it is released; the device reads the table and length
the host has; a failed call changes nothing that a later call reads; a batch returns, with the
tokens that sequential execution would yield; a unit of a compiled graph reads only what an
earlier unit has produced; only measured and validated candidates replace a baseline; every
kernel computes what the reference does.

## Modules

| Module | What it is |
|---|---|
| `PagedKV` | `KVCacheState.cpp` as operators on a pool and a request's state, with the device writes that fail as a parameter |
| `SharedPagePool` | the machine: any requests, calls interleaved in any order the callers can make them, all failures |
| `PagedKVProofs`, `SharedPagePoolProofs` | lemmas and theorems about the two |
| `TokenService` | what serving promises, without pages: tokens in order, then an end |
| `Serving`, `ServingProofs` | `runContinuousBatch`, pass by pass, over one pool per layer; refines `TokenService` |
| `DecoderSession` | what a stateful decoder promises: a context that a call extends or leaves alone, or loses when a reset fails |
| `PagedDecoder`, `PagedDecoderProofs` | `CompiledDecoderLLM` over every layer's own pages, built from `PagedKV`; refines `DecoderSession` |
| `TransformerStage` | the steps of a stage of the two executors without pages and what their kernels compute |
| `UnpagedDecoder` | the two executors, call by call, over those stages; refines `DecoderSession` too; its theorems are in the second half of `PagedDecoderProofs` |
| `DecoderKernels`, `DecoderStage`, `DecoderStageProofs` | what each decoder kernel computes, and the compiler that puts them in sequence, fuses, tests and counts them |
| `GraphCompiler`, `GraphCompilerProofs` | a graph from `analyze` through the regions and their choice of kernels to two runs |
| `TensorLayout`, `TensorKernels` | where a tensor's elements are, and what each kernel of a graph and its reference compute from them |
| `AdvisorProtocol` | the advice file, and what a compilation takes from it |
| `GuidedTuning`, `GuidedTuningProofs` | the tuners over the candidates that the advice leaves; composed with `AdvisorProtocol` |
| `KernelGeneration`, `KernelGenerationProofs` | one directory of generated kernels: sessions of the generator, their compiler processes, the decoders that load |
| `MC...` | instances for TLC of the module of that name |

### The page pool

`pool` is a `KVPagePool`: `free` is the stack `freePages_`, `allocated` the set of pages whose
flag is true, and three counters. `kv[r]` is a `KVCacheState`: `table` is the nonnegative prefix
of `logicalToPhysical_`, `length` is `currentLength_`, and `devTable`, `devLength` are what the
two device buffers hold. A device write either takes effect or leaves the buffer alone
(`MetalRuntime::writeBuffer` checks before it copies). The argument `faults` of an operation
names the writes that fail in that call: `table`, `length`, `rewrite` for the second table write
of a stage whose length write failed, `prefix` for the rows of a restore.

`cells` is the content of the pool's key and value buffers: a slot is a page and an offset, and
its content is the pair of the request and the position the row was computed for. Kernels store
through the device's table, `readPrefix` reads through the host's. `phase[r]` records where the
callers are: the protocol stage, run (once or more, since `DecoderLLMExecutor.cpp` 907-928
replays the kernels at the staged length), commit or roll back. A run that fails may have stored
any of its rows. A failed reset leads to `broken`, from which callers only reset again or
destroy.

### Serving

One action per step of the loop: `Resume`, `PrefillChunk`, `Preempt`, `Stage`, `DecodeBatch`,
`Commit` for a request, `End...` when a pass has no more request to handle, `EndTick` for the
audit, the progress check, the loop condition and the final checks. `pc` is the pass and
`cursor` the next request. A pass that skips a request leaves everything as it is, so a step
goes straight to the next one that qualifies. `DeviceFails` is an exception out of any device
call; what the loop rolls back before it rethrows is destroyed at once with the requests, so
nothing is kept of it.

A batch is packed by row, as in the code: `Packed[row]` is what the host hands to the device for
the request `RequestAt(Active, row)`, the device computes `next[row]` from that alone, and
`batch.active` is the list of requests that the commit pass goes through, looking up the row of
each (`Row`). Requests that finish during the pass stay in that list, so a row that is looked up
among those still active gives a request the token of another.

Tokens: the row a kernel stores is the token it was computed from, and a decode yields the
request's next token only if, in every layer, all the positions it reads hold one request's rows
in order; otherwise it yields `Garbage`, which no correct output contains. So a wrong page,
length, row order or restored prefix shows in the output.

### The decoder

`PagedDecoder` has a pool, a state and the stored rows per layer. A call is split where the
device can fail: `Run` is the token write and the stages of all layers (`Fail`, `StagingFails`
with the roll back of every layer, `Stage`), `AdmitTokenOnly` the measurement of the token-only
sequence, which runs the append kernels at the staged length, `Execute` the run, the commits and
the answer, `ExecuteFails` the run that stores any part of its rows and is rolled back. A
failing operation is described by the layer that fails and its faults: the layers before it have
passed, those behind it were not reached. The roll backs and resets that the code does not look
at may fail in any combination.

A row is a layer, a token and a position. `Context` reads the rows of all layers through the
tables: the tokens they stand for, or `garbage` if two layers or a position disagree. The
refinement mapping is that reading at the committed length, so `ImplementsSession` says that
every answer is computed from the accepted tokens and nothing else, and that a failed call
leaves them. `resetDue` records that the last reset or restore failed. `reset` stops at the
first layer that fails, which may have released its pages and kept its length, so a decode that
follows may be accepted and read pages that are no longer there: the model makes that call too,
and the abstract session is `lost` until a prefill, a restore or a reset passes. Its answers
until then are any; that the calls afterwards are right again is what the refinement shows. Only
a snapshot of a lost session is left out: it would read the table at an entry that has no page,
and no caller takes one there.

### The executors without pages

`UnpagedDecoder` is both `CompiledTransformerDecoder` and `CompiledKVCacheAttention`, told apart
by the variable `executor`: the second has one layer, attention only, and no embedding. A cache
without pages has a row per sequence of the batch and position. `Compile` runs the
cross-attention set up; `Prefill` and `Decode` stage the length of every layer (`Stage`), or of
those before one that fails (`StagingFails`), which nothing undoes; `Execution` runs all steps
of the stage and commits; `ExecutionFails` stops after any step, writes the old lengths back,
any of which may fail; `Reset` ends at the first layer whose length cannot be written.

The steps are those of `buildStage` (`TransformerStage`), over named buffers of rows, a row
being the term of the computation that produced it: the row's token and position, the weights by
name, the keys and values attended to. `TransformerOf` and `AttentionOf` are the two models
written without buffers, stages, batches in one buffer or lengths. `Held` is the context whose
rows all caches hold and `ContextOf` the one whose answer was returned, and these are the
refinement mapping to `DecoderSession`, so `ImplementsSession` speaks of every answer's every
term.

### The stages of the decoder

`PagedDecoder` takes a stage's kernels as one execution; `DecoderStage` is the compiler that
builds it (`buildStage`, `admitFusion`). Its state is the sequence of steps so far with the uses
tracked beside it, the marks where replaceable regions begin, the cached decisions and the
length and table that a test stages on the device. There is an action per section of a layer and
per fusion: `Project`, `FuseNormQKV`, `FuseQKVRoPE`, `Attend`, `FusePagedAttention`, `Residual`,
`FuseOutputProjection`, `MLP`, `Down`, `FuseDownProjection`, and `LanguageModelHead` for both
sequences. A test's measurements are a choice: a candidate that agrees is admitted or not, one
that disagrees never.

A buffer holds the term of the computation that produced it (`DecoderKernels`). A test therefore
really executes the region and then, over the same memory, its candidate, on data that is the
same in every input as in the code; `ComputesDecoder` executes the finished sequences from junk
and compares with `Promised`, the decoder written without buffers. Kernels that return early for
a length or table leave what was there.

### The graph compiler

`Init` takes any wiring of a short list of operations, cyclic and ill-typed ones included.
`Visit` is one iteration of the worklist of `analyze` with shape and contiguity inference,
`FormRegion` one iteration of `formRegions` at the next unassigned node with the four patterns
in the order the code tries them, `Tune` the choice of fused or unfused kernels of a region,
`Allocate` the buffers and their aliases, `RunUnit` the execution of one region and `RunAgain` a
second run over the buffers of the first. Values are terms: the operation and what its operands
held, so that reading a buffer too early, or of the run before, shows in the outputs.

`FusionKeepsOutputs` says that replacing a region by its unfused nodes changes no output,
`RightUnlessLate` that the compiled graph computes the outputs of the graph unless some region
has a late operand: one that a later region produces. The run `graph_outputs` shows that late
operands exist: a fused pattern takes the place of its first node, before an operand of its last
node is computed. `silu(x) * relu(y)` with `relu` listed after `silu` is the smallest graph.

### The kernels of a graph

`GraphCompiler` takes a kernel for granted and looks at order; `TensorKernels` takes order for
granted and looks at a kernel's elements. A tensor has a type (shape, data type, layout,
strides), the memory behind it and the elements that the reference evaluation expects. A
behaviour makes up to `MaxViews` views (reshape, transpose, slice) of a graph's inputs and of
each other, then runs one kernel, fused or not, on any of the tensors. That is general: what a
kernel writes is dense and new, as an input is, so what can follow it is again a behaviour of
the model. Each operation is the rules of `infer`, the index expressions that the emitters write
into the kernel (`TensorLayout`), the threads' partial sums where the kernel reduces, and the
reference's own loops.

An element is a term. Sums are bags and commutative operations take sets, because the order of
operands is within the tolerance of the comparison. The data types are `float` and `int`;
epsilon, rounding and overflow of index arithmetic are left out. `Region` does what tuning does:
the unfused and the fused kernels run on the validation inputs and then on the graph's. One
fused kernel is wrong in the code: `LinearReLU` with a bias that broadcasts the product to a
larger shape. It takes the rows and batches of an element from the product's dimensions instead
of the result's, and only the numerical validation turns it down, which is why `RegionsValidate`
asks for exactly that exception.

### Advice and tuning

`file` is the advisor's file: absent, torn, or an answer, which may be about any program since
nothing in it names the one it was made for. `Export` and `Advise` are the tools; `LoadAdvice`
to `Guided` is `guidance`, a recommendation at a time (`Fits`, `Take`), and leaves every tuner
the compiler's own candidates or a ranking of some of them. `GuidedTuning` then tunes every
RMSNorm of the program and after them every fusible region, and on its own a matrix product of
the decoder: `BaselineReady`, for each candidate `Reject` or `Admit` with the two rounds'
speedups, the selection with the last executions of RMSNorm and its fall back on the baseline
when the winner then runs wrong (`rejected`), and `Assemble`. Every build, execution and
measurement may come out either way; a failing baseline or a thrown error abandons the
compilation. The limits of RMSNorm's filter on the sizes of its tensors are left out: they are
the same for every candidate and the baseline, which they refuse first. `fused[r].beat` keeps
the kernels that the fused one was timed against.

### Generated kernels

`candidate`, `feedback` and `artifact` are the three files; a file being written is `Torn`, and
the artifact is replaced by a rename. `generator[s]` is the Python process of session `s` with
its attempt, last response and history; `compiler[s]` is the process it waits for, with `pc` the
gate it is at: baselines, load, inspect, check of all cases, timing and recheck of each case,
decide, save, report. `tested[s]` records what that process has seen the candidate do, so that
what the artifact claims can be compared with what happened; the artifact carries that record.
Every gate may refuse (`retry`), throw (`fatal`) or die (`Crash`), the feedback may stay as it
was or be cut short, and `Interrupt` ends a session with its compiler anywhere. `Collect` is all
the generator does after the compiler has exited. `target` is the contract that the installed
compiler makes on this device; `Rebuild` changes it while no session runs, `LoadRegistry` is a
decoder's check of what it finds. `Concurrent` allows sessions in one directory at a time, which
nothing in the generator prevents. The interleavings of two are too many for the bounds of
`generation_sessions`, so it has them one after the other; sessions at a time are covered by the
theorems `Admission`, `Fitting` and `Worsts`, which assume nothing of `Concurrent`. Feedback and
outcomes can be told only of sessions that run alone.

The run `generation_failure` shows that a session may fail and yet have replaced the artifact:
`admitGeneratedKernel` writes the artifact first and the feedback second.

## Runs

| Run | Instance | Shows |
|---|---|---|
| `shared_page_pool` | 2 requests, 3 pages of 2 tokens, capacity 3, up to 3 allocations when a call starts | isolation, accounting, coverage, device agreement, integrity and stability of slots under all interleavings and failures |
| `serving` | every list of 3 requests with prompts of 2-4 tokens, 0, 1 or 3 decoded, arrival 0-1, capacity 5; 2 layers of 3 pages of 3 tokens; chunks of 2 | no failure of the scheduler's own, progress, page accounting, snapshots, priority of resumption, exact tokens, and that it returns |
| `decoder_calls` | 2 layers, capacity 3, pages of 2 tokens, a prompt of 2 at once or in chunks of 1, decodes with and without logits, resets, snapshots, restores, 2 tokens, 2 failing calls | the layers move together, the device has what was staged, the decoder refines `DecoderSession`, replays of the token-only admission included |
| `decoder_prompt` | as `decoder_calls` | finding: decode is accepted after a chunked prefill that failed half way |
| `unpaged_calls` | both executors, up to 2 layers, batch of 2, capacity 3, prompt of 2, 2 tokens, 1 failing run, any failing writes | every answer is the model's for the accepted tokens; layers whose lengths differ are never decoded from |
| `decoder_stages` | prompts of 2 tokens and of 1 with the decode stage, 2 layers, capacity 3, 3 kernel libraries, one failure | both sequences compute the decoder under every outcome of every test, tests are decided by their own data, the audit matches the steps |
| `graph_compiler` | 122,700 graphs of three or four operations | order, partition, region shape, buffers, outputs |
| `graph_outputs` | the same | finding: a region reads an operand that a later region produces |
| `tensor_kernels` | 4 sets of inputs, up to 2 views of any shape, axis and range listed, then any kernel or pattern | every kernel computes the reference's elements from inside its operands; only a widening bias makes a fused kernel wrong |
| `guided_tuning` | 2 programs, 2 devices, advice files with up to 3 of 5 recommendations, products with 5 decode and 2 prefill kernels, 3 durations | advice only narrows, the fastest confirmed candidate is chosen, it ran right, a fusion beat what it replaces |
| `generation_sessions` | 2 sessions in turn, 3 contracts of which one is not served, 2 attempts, 2 cases of 2 rounds, 3 speeds | what is admitted passed all of it, the worst round decides, stale artifacts, feedback and contracts are not mistaken for new ones, every session ends |
| `generation_failure` | 2 sessions in turn | finding: a failed session may have replaced the artifact |

Bounds. In `shared_page_pool` three pages let one request hold two of them while the other needs
more than is left, so growth fails halfway, pages change hands, and a table spans two pages;
`MaxAllocations` bounds the only unbounded counter. In `serving` the three pages hold a batch of
all three requests while none is longer than a page, and one request of full length beside a
short one, so batches of every size decode, requests finish in the middle of one, and growth
past the page preempts one or two of them, which compete with arrivals for what is given back.
`TickLimit` stands for the code's 10000 and is never reached (`ProgressBound`). Prompts of 3
and 4 tokens take two chunks, the second of them shorter for 3.

`Calls` says which calls a caller of `PagedDecoder` makes; `decoder_calls` has all but prefills
without logits, which differ from decodes without logits in nothing the model shows.
`MaxFailures` is 2, so that a second call fails on what a first has left; for `UnpagedDecoder`
it bounds failing runs only, at 1, while writes fail without bound: a run that fails leaves rows
behind the committed length, and a second one would only add to these. Two layers are enough to
tell a layer before, at and behind the failing one; two tokens and the layer and position in a
row tell stale rows from fresh ones. The tokens are symmetric. `graph_compiler` takes every
wiring of three operations, cycles included, which holds the activation and the normalisation
patterns in any order, and every forward wiring of four, which holds two products that feed one
addition and ReLU, and two multiplications that compete for the same activations.

In `decoder_stages` the second layer meets the decisions of the first and the other half of the
two hidden buffers, and a prompt of one token shares its decisions with the decode stage.
`MaxFailures` bounds kernels that cannot be prepared, at one; a fusion that cannot be prepared
for its test falls back like one that is slow, and needs no bound.

The inputs of `tensor_kernels` are chosen so that every operation has operands that it accepts,
contiguous and strided, with a batch of one and of two and with rows and columns that broadcast,
and indices in and out of range; two views compose every pair of view operations. A tensor's
dimensions are at most 4, so two threads per group (`LogThreads`) already have rows that are
longer, equal and shorter than the group. That run does not check deadlock, since a graph is
finished after its kernel, and neither does `decoder_stages`, where a compilation ends.

In `guided_tuning` a budget of 2 with answers of 3 recommendations cuts a list short, repeats
one, and mixes kinds and regions; id 512 is no candidate of the compiler, and the smaller device
refuses the largest AddLayerNorm kernel. Medians of three samples of three durations put
speedups on either side of 105. The decode products have 5 of the code's 8 configurations.

Some runs have a VIEW. `MCPagedDecoder` drops the counters of allocations and peaks, which no
action reads; `MCUnpagedDecoder` what the last call was given and returned once it has returned,
which the property has looked at in the step that made it; `MCGuidedTuning` the file while it
cannot be read (every content of it is an initial one as well); `MCKernelGeneration` the records
of sessions that have ended and of timings beyond what the properties tell apart.

A generation session has two attempts and two cases of two rounds: the second case and round
show what a gate that stops early would miss, and speeds 1 to 3 lie below, at and above the
minimum of 2.

Fairness. `KernelGeneration` assumes weak fairness of each session's generator and of its
compiler: two ordinary processes, the second waiting only for the device; the endpoint ends its
stream in time, since `REQUEST_TIMEOUT_SECONDS` bounds each read. Neither interruption nor crash
is assumed to happen. `Serving` assumes weak fairness of its next-state relation: the loop is
one thread that waits for nothing but command buffers, which return with success or an error.
`TokenService` states termination directly. The other specifications state safety only: their
callers decide when to call, and a call is a bounded number of steps.

## Proofs

`SharedPagePoolProofs` proves every property of `SharedPagePool` for all values of the constants
(`PagedKVAssumption`: positive page size, capacity and pool, page size at most the capacity).
The inductive invariant `IInv` is `TypeInvariant`, the partition of pages and the balance of the
counters (`Sound`), and for each request `RequestInv`: the table covers the committed or staged
length, the device agrees once a stage has succeeded, and the valid prefix and the snapshot hold
the request's own rows. The properties alone are not inductive: that a request's prefix survives
another's stores needs that no page is shared (`SlotsDistinct`), that the stores land in the
writer's own pages needs that the device's table is the host's, and that a stage keeps the
prefix needs that resizing leaves the kept entries in place (`ResizeSound`). There is a lemma
per action (`CreateKeeps` to `RestoreKeeps`); `NextIInv` puts them together. `Stability` is an
action property and follows from the invariant in the states before a step.

`ServingProofs` proves, for every number of requests and layers, page size, pool, capacity and
chunk size (`ServingAssumption`), all that the run `serving` checks but termination.
There are two invariants. `IInv` says of each request where it stands: what its
state and `pc` tell about its length, its tokens, its snapshot and the rows behind its tables
(`RequestInv`), and that each layer's pool is sound. From it come `PagesFollowRequests`,
`SnapshotComplete` and, one lemma per step, the refinement of the safety part of `TokenService`:
a step delivers the request's next token, ends the call or changes nothing that the service
shows. `SInv` adds the schedule. The pools of all layers count alike (`Alike`), the free pages
and the held ones add up to the pool (`Balanced`, a sum over requests), and the passes hand each
other facts: a preempted request that was passed over does not fit what is free
(`InResume`, `InPrefill`), a chunk fits what its own preparation gave back (`InChunk`, `Spare`),
what is left to stage fits what is free (`InBatch`), and a tick that has decoded nothing was
`Quiet` (`InAudit`). Then every exception of the loop's own contradicts one of them:
`OnlyTheDeviceFails`, `ProgressBound` (the tick never passes the last arrival plus the tokens
decoded) and the action property `ResumeBeforePrefill`.

`KernelGenerationProofs` proves every safety property of the run `generation_sessions` for any
set of sessions, contracts and kernels and every number of cases, rounds, speeds and attempts
(`GenerationAssumption`). `Progress` says what the gates
behind a compiler have established: at case `c` of the recheck, say, the cases before `c` are
timed in every round and rechecked; if no round was slow so far, all timings reach the minimum.
`Bound` says that a compiler runs only while its session waits, on the contract in force, which
is why `Rebuild` cannot put an artifact under the wrong one. `Kept` and `Reported` follow the two
minima from the timings into the report (`ReportsTheWorst`). These hold for sessions in any
number at a time. `AloneInv`, for sessions one at a time, ties the three files to the session's
attempt: `FeedbackIsOfThisAttempt` and the action property `OutcomeIsTrue` rest on it, and their
theorems say so by the hypothesis that the properties themselves have.

`GraphCompilerProofs` proves every property of `GraphCompiler` for all graphs of the operations
modelled and any number of runs. `Visits` says that `indegree` counts the places at which a node
still waits, so that the order extends what is read; a graph turned away as cyclic really has no
order, since among the nodes left one of least depth would wait for nothing. A region is a chain
along edges that nothing else reads, or a single node (`IsRegion`), and its fused operands are
inputs of the region because the order has no cycle. `RunInv` says that the buffers of what the
regions before `pc` produced hold right values, whatever the runs before left, as long as no
region has a late operand. `FusionKeepsOutputs` compares a first run with one without any fused
kernel, step by step: they agree on every value but those that a fused kernel keeps in
registers (`Internal`), late operands or not.

`PagedDecoderProofs` proves `FrontLayerSpeaksForAll`, `DeviceReady` and the refinement
`ImplementsSession` for any number of layers, page size, capacity, prompt and chunk size. First,
for one layer, what each operation of `PagedKV` returns whatever the state's length and table are
(`ResizeKept`, `StageFits` to `RestoreFits`), since after a failed reset these need not fit each
other: a stage that passes has the pages and the device has the table of just its length, a stage
that fails has as many pages as before, and a roll back that needs no more pages than there are
always has exactly its length's. The invariant `DecoderInv` adds to the first two properties that
a staged run's layers all continue from the call's previous length, and the types. These
properties are conditional on `~resetDue`, so the invariant also carries what holds without it.

For the refinement `SessionInv` adds the rows: each layer owns its pages, even after a failed
reset (`ResizeOwns` to `RestoreOwns`), and unless a reset is due there are tokens, the same ones
for every layer, whose rows are where each layer's table says (`Committed`), as there are for the
caller's copy (`Copied`). What a run stores is beyond these (`StoredBeyond`) because the layer's
positions have slots of their own, a roll back keeps the pages of the committed length
(`RolledBackOwns`), and a committed run makes it the tokens before and the call's (`ExecuteCommits`).
Reading the rows back yields those tokens (`HeldIs`, `KeptIs`), so each action is a step of
`DecoderSession` or a stutter (`NextSteps`): `Stage` is `Ask`, every failing call `Fail`, a reset
`Clear`, and a decode after a failed reset `Stray`.

The second half of the module is about `UnpagedDecoder` (`U`, an instance), for either executor,
any number of layers, batch, capacity, prompt and tokens. `LayersAgreeOrAreEmpty` and
`RunsAreStagedTogether` are about the lengths: the run finds its length on the device in every
layer, and every layer continues from where the run does. They need that a failed call changes
no committed length and that resets go front to back, so that whatever they leave, the length
that is asked for is 0.

`UnpagedKeepsSession` is the refinement, down to the rows. Each step of a stage writes a buffer
of its own and reads only buffers that no step writes or that an earlier one has written
(`Ordered`), so the memory a run leaves satisfies one equation for every step
(`StepsAreEquations`), and what each buffer of a layer holds may be read off it (`LayerEquations`,
`EndEquations`, `AttentionEquations`). From these, layer after layer, the rows of the hidden
state, the keys and the values are the model's for the context that the run extends
(`LayerComputes`, `LayersCompute`), provided the cells before the run's are those of the context
before it; and these are the same in both because a token's row depends on no later token
(`HiddenAgree`). `RunComputes` is the sum of it. That `Held` and `ContextOf` find just that
context needs that different contexts have different rows (`HeldUnique`, `RowUnique`): from the
front layer's keys, or from the last token's row through the residual path of all layers, the
tokens can be read back (`HiddenDetermines`). `UnpagedSessionInv` says that all layers hold some
context of the front length, that the encoder's memory is there once compiled, that empty
layers come first (`EmptyFirst`), and that a staged run's lengths are on the device. A failed
run has written only cells that no committed length covers (`RowsBeforeAreKept`), and a reset
that fails is a `Fail` of the session if it changed no length, and otherwise a `Clear` that
loses it (`ResetIsSession`).

`DecoderStageProofs` proves all that the run `decoder_stages` checks, for any number of layers and
any lengths, options, kernel library and outcomes of tests and preparations. `AuditInv` is about
counting: the uses `Tracks` the steps, and so do their beginnings up to each mark of a region that
a fusion may yet replace, which is why cutting both back keeps them together. What the steps
compute is stated twice. `Performs` says what a stretch of steps makes of any memory: those of a
region, by whatever makers, and the candidate that may replace them do the same with what lasts
(`Lasting`) and leave the region's results; the buffers in between differ. `Reaches` says what a
call's memory holds after the steps so far, in the terms of `PromisedHidden`: ready for the
layer, turned, cached, seen, attended, summed, gated, done. `Leads` ties the two together, a
region that does what it is for takes a layer from one place to the next (`LeadsOn`), and an open
region `Cuts` the steps in two, those that reached its place and those that perform it, so a
replacement reaches the same place (`CutsReplaced`). `Along` says where `buildStage` is in these
terms; that an admitted paged fusion leaves no context behind is why it says so of the output
region only where `MayFuseOutput`. At the end both sequences answer (`StagesCompute`),
whatever the tests have admitted. For `TestsDecide` the invariant adds the cache
state that a test stages (`ReadyToTest`): a length that holds the rows and, for the attention, a
table with pages, without which a kernel returns early and leaves its outputs.

`GuidedTuningProofs` proves the run's four properties for all programs, devices, answers,
budgets, durations and minima (`TuningAssumption`). The advice is filtered by `hardwareAllows`
and the tuners filter by their own rule; `FiltersAgree` says that the first implies the second
for every candidate, and everything ranked is in `seen`, which is why nothing is ranked twice.
For the choice, `WinnerInv` says that the winner so far is a fastest of those admitted, and
`ScheduleInv` that every RMSNorm of the program has a task or has been tuned, and that these
tasks come before the fusions, so that the kernels a fused one was timed against are final.

The library's induction theorems take a predicate as a parameter and cannot be used here. Where
a proof needs induction on numbers it takes the least number for which a fact fails
(`LeastNumber`, from `WFMin`), with the fact written out as a set; in this way sums over finite
sets, the flattening of sequences and recursive functions (not operators) are reasoned about.

Only model-checked: `TensorKernels`, which walks a graph's values with recursive operators and
compares, over data, what each kernel computes with its reference (`KernelsMatchReference`,
`RegionsValidate`); and liveness, that is `SessionsEnd` and the termination in
`ImplementsTokenService`, which is out of the prover's reach. The type invariants of `SharedPagePool` and `KernelGeneration` are proved as
such; for the other modules under a proof the inductive invariant has the types that it needs.

## Not modelled

Floating-point arithmetic, kernel text, logging, the wording of JSON and messages, and timings
other than as outcomes. Further:

- the Kaleidoscope front end (`lexer.cpp` to `TopLevel.cpp`): one thread reads one token at a
  time and hands each definition to LLVM, and shares no state with the rest;
- importers, the contracts' text, plans: checks of fields and dimensions, whose results are the
  assumptions on the constants here;
- the Metal runtime, external: a write or a run succeeds or fails, in `UnpagedDecoder` after any
  step;
- the cache without pages of the decoder executor (page size 0): its calls are those of
  `PagedDecoder` with lengths as in `UnpagedDecoder`;
- the filters of the matrix product tuner on the sizes of buffers, and the linear kernels that
  the decoder's stage compiler chooses among by time;
- the applications and the Python exporters, which keep no state.

`GraphExecutor.cpp` 139 is a hazard that no property is about: a view of a view that comes later
in the list of values has no base when aliases are resolved, so a graph that `analyze` accepts
is refused by the compiler. `GraphCompiler` has that outcome; no document says that such graphs
compile.

## Plan

1. Done: page pool with proofs; serving with its refinement; the paged decoder with its
   refinement and proofs; the compiler of its stages; the executors without pages with
   refinement and proofs; the graph compiler and its kernels; tuning and advice with proofs;
   generated kernels with proofs.
2. Proofs. Done: every safety property of the runs on the page pool, serving, the decoders with
   and without pages, the decoder's stage compiler, the graph compiler, tuning and generated
   kernels. Left: the bounds of the tensor kernels' regions, which need their recursive
   operators rewritten as functions.
3. Pure algorithms against reference definitions: percentile, operator precedence.
