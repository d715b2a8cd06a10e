------------------------- MODULE PagedDecoderProofs -------------------------
(***************************************************************************)
(* The decoder's layers stay together, for any number of layers, any page  *)
(* size and capacity and any prompt: proofs that the front layer's length  *)
(* is every layer's between calls, that the GPU runs on the tables and     *)
(* lengths that the host staged, whatever has failed before, and that the  *)
(* decoder implements DecoderSession: its rows always stand for just the   *)
(* tokens that were accepted.  The second half is about the executors      *)
(* without pages, an instance U of UnpagedDecoder: their lengths, and that *)
(* they implement DecoderSession down to the rows of every cache.          *)
(***************************************************************************)
EXTENDS PagedDecoder, PagedKVProofs, SequenceTheorems, WellFoundedInduction

\* A pool whose parts have their types; where its pages are does not matter here.
PoolShape ==
  [free : Seq(Pages), allocated : SUBSET Pages, allocations : Int, releases : Int, peak : Int]

\* A pool built from parts of the right types.
LEMMA PoolOfParts ==
  ASSUME NEW free \in Seq(Pages), NEW allocated \in SUBSET Pages,
         NEW allocations \in Int, NEW releases \in Int, NEW peak \in Int
  PROVE  [free |-> free, allocated |-> allocated, allocations |-> allocations,
          releases |-> releases, peak |-> peak] \in PoolShape
BY DEF PoolShape

LEMMA ResizeKept ==
  ASSUME NEW pool \in PoolShape, NEW table \in Seq(Pages), NEW n \in Nat,
         NEW out, out = ResizePageAllocation(pool, table, n)
  PROVE  /\ out.pool \in PoolShape
         /\ out.ok \in BOOLEAN
         /\ out.table \in Seq(Pages)
         /\ out.ok => Len(out.table) = n
         /\ ~out.ok => out.table = table
         /\ n <= Len(table) => out.ok
<1> DEFINE free == pool.free
           grow == n - Len(table)
<1>1. /\ free \in Seq(Pages) /\ Len(free) \in Nat /\ Len(table) \in Nat
      /\ grow \in Int /\ PoolPages \in Int
      /\ pool.allocations \in Int /\ pool.releases \in Int /\ pool.peak \in Int
      /\ pool.allocated \subseteq Pages
  BY PagedKVAssumption DEF PoolShape
<1>2. CASE grow > Len(free)
  <2>1. /\ out.table = table /\ out.ok = FALSE
        /\ out.pool = [pool EXCEPT !.allocations = @ + Len(free),
                                   !.releases = @ + Len(free),
                                   !.peak = MaxOf(@, PoolPages)]
    BY <1>2 DEF ResizePageAllocation
  <2>2. MaxOf(pool.peak, PoolPages) \in Int
    BY <1>1 DEF MaxOf
  <2>3. pool.allocations + Len(free) \in Int /\ pool.releases + Len(free) \in Int
    BY <1>1
  <2>4. out.pool = [free |-> free, allocated |-> pool.allocated,
                    allocations |-> pool.allocations + Len(free),
                    releases |-> pool.releases + Len(free),
                    peak |-> MaxOf(pool.peak, PoolPages)]
    BY <2>1 DEF PoolShape
  <2>5. out.pool \in PoolShape
    <3>1. /\ free \in Seq(Pages) /\ pool.allocated \in SUBSET Pages
          /\ pool.allocations + Len(free) \in Int /\ pool.releases + Len(free) \in Int
      BY <1>1
    <3> HIDE DEF free
    <3> QED
      BY ZenonT(60), <2>2, <3>1, <2>4, PoolOfParts
  <2>6. ~(n <= Len(table))
    BY <1>1, <1>2
  <2> QED
    BY <1>1, <1>2, <2>1, <2>5, <2>6
<1>3. CASE grow <= Len(free) /\ grow > 0
  <2>1. /\ out.table = Transferred(free, table, grow) /\ out.ok = TRUE
        /\ out.pool = AllocatePages(pool, grow)
    BY <1>1, <1>3 DEF ResizePageAllocation
  <2>2. grow \in 0 .. Len(free)
    BY <1>1, <1>3
  <2>3. /\ out.table \in Seq(Pages) /\ Len(out.table) = n
    <3> HIDE DEF free
    <3>1. /\ Transferred(free, table, grow) \in Seq(Pages)
          /\ Len(Transferred(free, table, grow)) = Len(table) + grow
      BY <1>1, <2>2, TransferredProperties
    <3>2. Len(table) + grow = n
      BY <1>1
    <3> QED
      BY <2>1, <3>1, <3>2
  <2>4. Dropped(free, grow) \in Seq(Pages) /\ Top(free, grow) \subseteq Pages
    <3>1. Dropped(free, grow) \in Seq(Pages)
      BY <1>1, <2>2, DroppedProperties
    <3>2. Top(free, grow) \subseteq Pages
      BY <1>1, <2>2 DEF Top
    <3> QED
      BY <3>1, <3>2
  <2>5. MaxOf(pool.peak, UsedPages(pool) + grow) \in Int
    <3>1. UsedPages(pool) + grow \in Int
      BY <1>1 DEF UsedPages
    <3> QED
      BY <1>1, <3>1 DEF MaxOf
  <2>6. pool.allocated \cup Top(free, grow) \in SUBSET Pages /\ pool.allocations + grow \in Int
    BY <1>1, <2>4
  <2>7. out.pool \in PoolShape
    <3> HIDE DEF free, grow
    <3>1. out.pool = [free |-> Dropped(free, grow), allocated |-> pool.allocated \cup Top(free, grow),
                      allocations |-> pool.allocations + grow, releases |-> pool.releases,
                      peak |-> MaxOf(pool.peak, UsedPages(pool) + grow)]
      BY <2>1 DEF AllocatePages, free
    <3>2. /\ Dropped(free, grow) \in Seq(Pages)
          /\ pool.allocated \cup Top(free, grow) \in SUBSET Pages
          /\ pool.allocations + grow \in Int
          /\ pool.releases \in Int
          /\ MaxOf(pool.peak, UsedPages(pool) + grow) \in Int
      BY <1>1, <2>4, <2>5, <2>6
    <3> QED
      BY ZenonT(60), <3>1, <3>2, PoolOfParts
  <2>8. ~(n <= Len(table))
    BY <1>1, <1>3
  <2> QED
    BY <1>1, <1>3, <2>1, <2>3, <2>7, <2>8
<1>4. CASE grow <= 0
  <2>1. /\ out.table = Dropped(table, -grow) /\ out.ok = TRUE
        /\ out.pool = ReleasePages(pool, table, -grow)
    BY <1>1, <1>4 DEF ResizePageAllocation
  <2>2. -grow \in 0 .. Len(table)
    BY <1>1, <1>4
  <2>3. out.table \in Seq(Pages) /\ Len(out.table) = n
    <3>1. /\ Dropped(table, -grow) \in Seq(Pages)
          /\ Len(Dropped(table, -grow)) = Len(table) - (-grow)
      BY <2>2, DroppedProperties
    <3>2. Len(table) - (-grow) = n
      BY <1>1
    <3> QED
      BY <2>1, <3>1, <3>2
  <2>4. Transferred(table, free, -grow) \in Seq(Pages)
    <3> HIDE DEF free
    <3> QED
      BY <1>1, <2>2, TransferredProperties
  <2>5. out.pool \in [free : {Transferred(table, free, -grow)},
                      allocated : {pool.allocated \ Top(table, -grow)},
                      allocations : {pool.allocations},
                      releases : {pool.releases + -grow}, peak : {pool.peak}]
    BY <2>1 DEF ReleasePages, PoolShape
  <2>6. out.pool \in PoolShape
    BY <1>1, <2>4, <2>5 DEF PoolShape
  <2> QED
    BY <2>1, <2>3, <2>6
<1> QED
  BY <1>1, <1>2, <1>3, <1>4

----------------------------------------------------------------------------
(* The operations on a state whatever its length and table are: after a    *)
(* reset that failed these need not fit each other.                        *)

Fit(pool, state) == pool \in PoolShape /\ state \in StateType

LEMMA NewFits == Fit(NewPool, NewState)
<1>1. PoolPages \in Nat /\ Capacity \in Nat
  BY PagedKVAssumption
<1>2. NewPool.free \in Seq(Pages)
  BY <1>1 DEF NewPool, Pages
<1>3. NewPool \in PoolShape
  BY <1>2 DEF NewPool, PoolShape
<1>4. NewState \in StateType
  BY <1>1 DEF NewState, StateType
<1> QED
  BY <1>3, <1>4 DEF Fit

\* stageLength: it passes with the table, on the device too, of just the new
\* length, or gives back what it took.
LEMMA StageFits ==
  ASSUME NEW pool, NEW state, Fit(pool, state), NEW n \in Nat, NEW faults,
         NEW out, out = StageLength(pool, state, n, faults)
  PROVE  /\ Fit(out.pool, out.state)
         /\ out.ok \in BOOLEAN
         /\ out.state.length = state.length
         /\ out.ok => /\ n \in 1 .. Capacity
                      /\ Len(out.state.table) = PagesFor(n)
                      /\ out.state.devTable = out.state.table
                      /\ out.state.devLength = n
         /\ ~out.ok /\ Len(state.table) <= PagesFor(n)
              => Len(out.state.table) = Len(state.table)
<1> DEFINE grown  == ResizePageAllocation(pool, state.table, PagesFor(n))
           undone == ResizePageAllocation(grown.pool, grown.table, Len(state.table))
           seen   == IF "table" \in faults THEN state.devTable
                     ELSE IF "rewrite" \in faults THEN grown.table
                     ELSE undone.table
<1>1. /\ state.table \in Seq(Pages) /\ state.devTable \in Seq(Pages)
      /\ PagesFor(n) \in Nat /\ Len(state.table) \in Nat /\ Capacity \in Nat
      /\ pool \in PoolShape
  BY PagesForIsMonotone, PagedKVAssumption DEF Fit, StateType
<1>2. /\ grown.pool \in PoolShape
      /\ grown.table \in Seq(Pages)
      /\ grown.ok \in BOOLEAN
      /\ grown.ok => Len(grown.table) = PagesFor(n)
      /\ ~grown.ok => grown.table = state.table
  BY <1>1, ResizeKept
<1>3. /\ undone.pool \in PoolShape /\ undone.table \in Seq(Pages)
      /\ undone.ok => Len(undone.table) = Len(state.table)
      /\ Len(state.table) <= Len(grown.table) => undone.ok
  <2> HIDE DEF grown
  <2> QED
    BY <1>1, <1>2, ResizeKept
<1>4. seen \in Seq(Pages)
  BY <1>1, <1>2, <1>3
<1> HIDE DEF grown, undone, seen
<1>5. CASE n = 0 \/ n > Capacity \/ ~grown.ok
  <2>1. /\ out.pool \in {pool, grown.pool}
        /\ out.ok = FALSE
        /\ out.state = state
    BY <1>5 DEF StageLength, Outcome, grown
  <2> QED
    BY <1>1, <1>2, <2>1 DEF Fit
<1>6. CASE ~(n = 0 \/ n > Capacity \/ ~grown.ok) /\ faults \cap {"table", "length"} # {}
  <2>1. out = Outcome(undone.pool, [state EXCEPT !.table = undone.table, !.devTable = seen], FALSE)
    BY <1>6, Zenon DEF StageLength, grown, undone, seen
  <2>2. /\ out.pool = undone.pool /\ out.ok = FALSE
        /\ out.state = [state EXCEPT !.table = undone.table, !.devTable = seen]
    BY <2>1 DEF Outcome
  <2>3. out.state \in StateType /\ out.state.table = undone.table /\ out.state.length = state.length
    BY <1>3, <1>4, <2>2 DEF Fit, StateType
  <2>4. Len(state.table) <= PagesFor(n) => Len(out.state.table) = Len(state.table)
    BY <1>2, <1>3, <1>6, <2>3
  <2> QED
    BY <1>3, <2>2, <2>3, <2>4 DEF Fit
<1>7. CASE ~(n = 0 \/ n > Capacity \/ ~grown.ok) /\ faults \cap {"table", "length"} = {}
  <2>1. /\ out.pool = grown.pool /\ out.ok = TRUE
        /\ out.state = [state EXCEPT !.table = grown.table, !.devTable = grown.table, !.devLength = n]
    BY <1>7 DEF StageLength, Outcome, grown
  <2>2. n \in 1 .. Capacity /\ n \in 0 .. Capacity /\ grown.ok
    BY <1>1, <1>2, <1>7
  <2>3. /\ out.state \in StateType /\ out.state.table = grown.table
        /\ out.state.length = state.length
        /\ out.state.devTable = grown.table /\ out.state.devLength = n
    BY <1>2, <2>1, <2>2 DEF Fit, StateType
  <2> QED
    BY <1>2, <2>1, <2>2, <2>3 DEF Fit
<1> QED
  BY <1>5, <1>6, <1>7

\* rollbackLength to a length that needs no more pages than there are.
LEMMA RollbackFits ==
  ASSUME NEW pool, NEW state, Fit(pool, state), NEW n \in 0 .. Capacity, NEW faults,
         NEW out, out = RollbackLength(pool, state, n, faults)
  PROVE  /\ Fit(out.pool, out.state)
         /\ out.state.length = state.length
         /\ PagesFor(n) <= Len(state.table) => Len(out.state.table) = PagesFor(n)
<1> DEFINE resized == ResizePageAllocation(pool, state.table, PagesFor(n))
           tabled  == [state EXCEPT !.table = resized.table, !.devTable = resized.table]
<1>1. /\ n \in Nat /\ ~(n > Capacity) /\ PagesFor(n) \in Nat
      /\ pool \in PoolShape /\ state.table \in Seq(Pages)
  BY PagedKVAssumption, PagesForIsMonotone DEF Fit, StateType
<1>2. /\ resized.pool \in PoolShape
      /\ resized.table \in Seq(Pages)
      /\ resized.ok \in BOOLEAN
      /\ resized.ok => Len(resized.table) = PagesFor(n)
      /\ ~resized.ok => resized.table = state.table
      /\ PagesFor(n) <= Len(state.table) => resized.ok
  BY <1>1, ResizeKept
<1> HIDE DEF resized
<1>3. CASE ~resized.ok
  <2>1. out.pool = resized.pool /\ out.state = state
    BY <1>1, <1>3 DEF RollbackLength, Outcome, resized
  <2> QED
    BY <1>2, <1>3, <2>1 DEF Fit
<1>4. CASE resized.ok
  <2>1. /\ out.pool = resized.pool
        /\ out.state \in {[state EXCEPT !.table = resized.table], tabled,
                          [tabled EXCEPT !.devLength = n]}
    BY <1>1, <1>4 DEF RollbackLength, Outcome, resized
  <2>2. out.state \in StateType /\ out.state.table = resized.table /\ out.state.length = state.length
    BY <1>2, <2>1 DEF Fit, StateType
  <2> QED
    BY <1>2, <1>4, <2>1, <2>2 DEF Fit
<1> QED
  BY <1>2, <1>3, <1>4

LEMMA ResetFits ==
  ASSUME NEW pool, NEW state, Fit(pool, state), NEW faults,
         NEW out, out = Reset(pool, state, faults)
  PROVE  /\ Fit(out.pool, out.state)
         /\ faults = {} => out.state = NewState
<1> DEFINE emptied == ResizePageAllocation(pool, state.table, 0)
<1>1. pool \in PoolShape /\ state.table \in Seq(Pages) /\ Capacity \in Nat
  BY PagedKVAssumption DEF Fit, StateType
<1>2. emptied.pool \in PoolShape /\ emptied.table \in Seq(Pages)
  BY <1>1, ResizeKept
<1> HIDE DEF emptied
<1>3. NewState \in StateType
  BY NewFits DEF Fit
<1>4. \/ out.pool = pool /\ out.state = state
      \/ /\ out.pool = emptied.pool
         /\ out.state = [state EXCEPT !.table = emptied.table, !.devLength = 0]
      \/ out.pool = emptied.pool /\ out.state = NewState
  BY DEF Reset, Outcome, emptied
<1>5. [state EXCEPT !.table = emptied.table, !.devLength = 0] \in StateType
  <2>1. 0 \in 0 .. Capacity
    BY <1>1
  <2> QED
    BY <1>2, <2>1 DEF Fit, StateType
<1>6. faults = {} => out.state = NewState
  BY DEF Reset, Outcome
<1> QED
  BY <1>2, <1>3, <1>4, <1>5, <1>6 DEF Fit

LEMMA RestoreFits ==
  ASSUME NEW pool, NEW state, Fit(pool, state), NEW n \in Nat, NEW faults, NEW undo,
         NEW out, out = Restore(pool, state, n, faults, undo)
  PROVE  /\ Fit(out.pool, out.state)
         /\ out.ok \in BOOLEAN
         /\ out.ok => out.state.length = n /\ Len(out.state.table) = PagesFor(n)
<1> DEFINE staged == StageLength(pool, state, n, faults)
           rolled == RollbackLength(staged.pool, staged.state, 0, undo)
<1>1. /\ Fit(staged.pool, staged.state)
      /\ staged.ok \in BOOLEAN
      /\ staged.ok => n \in 1 .. Capacity /\ Len(staged.state.table) = PagesFor(n)
  BY StageFits
<1>2. Fit(rolled.pool, rolled.state)
  <2> HIDE DEF staged
  <2>1. 0 \in 0 .. Capacity
    BY PagedKVAssumption
  <2> QED
    BY <1>1, <2>1, RollbackFits
<1> HIDE DEF staged, rolled
<1>3. CASE state.length # 0 \/ n = 0 \/ n > Capacity
  <2>1. out = Outcome(pool, state, FALSE)
    BY <1>3, Zenon DEF Restore
  <2>2. out.pool = pool /\ out.ok = FALSE /\ out.state = state
    BY <2>1 DEF Outcome
  <2> QED
    BY <2>2
<1>4. CASE ~(state.length # 0 \/ n = 0 \/ n > Capacity) /\ staged.ok /\ "prefix" \notin faults
  <2>1. out = Outcome(staged.pool, CommitLength(staged.state, n), TRUE)
    BY <1>4, Zenon DEF Restore, staged
  <2>2. out.pool = staged.pool /\ out.ok = TRUE /\ out.state = [staged.state EXCEPT !.length = n]
    BY <2>1 DEF Outcome, CommitLength
  <2>3. n \in 0 .. Capacity
    BY <1>1, <1>4
  <2>4. out.state \in StateType /\ out.state.length = n /\ out.state.table = staged.state.table
    BY <1>1, <2>2, <2>3 DEF Fit, StateType
  <2> QED
    BY <1>1, <1>4, <2>2, <2>4 DEF Fit
<1>5. CASE ~(state.length # 0 \/ n = 0 \/ n > Capacity) /\ ~(staged.ok /\ "prefix" \notin faults)
  <2>1. out = Outcome(rolled.pool, rolled.state, FALSE)
    BY <1>5, Zenon DEF Restore, staged, rolled
  <2>2. out.pool = rolled.pool /\ out.ok = FALSE /\ out.state = rolled.state
    BY <2>1 DEF Outcome
  <2> QED
    BY <1>2, <2>2
<1> QED
  BY <1>3, <1>4, <1>5

----------------------------------------------------------------------------
(* The calls.                                                              *)

Running == phase \in {"staged", "admitted"}
Target == call.previous + Len(call.tokens)

\* What the host and the device of a layer have while a run is under way.
StagedLayer(l) ==
  /\ kv[l].devTable = kv[l].table
  /\ kv[l].devLength = Target
  /\ Len(kv[l].table) = PagesFor(Target)

DecoderInv ==
  /\ \A l \in Layers : Fit(pools[l], kv[l])
  /\ call.tokens \in Seq(Token) /\ call.rest \in Seq(Token)
  /\ call.previous \in 0 .. Capacity /\ copy.length \in 0 .. Capacity
  /\ FrontLayerSpeaksForAll
  /\ Running => Target \in 1 .. Capacity /\ \A l \in Layers : StagedLayer(l)
  /\ Running /\ ~resetDue => \A l \in Layers : kv[l].length = call.previous

LEMMA FrontLayer ==
  /\ 1 \in Layers
  /\ \A l \in Layers : l < LayerCount + 1
<1>1. LayerCount \in Nat \ {0}
  BY PagedDecoderAssumption, Zenon
<1> QED
  BY <1>1 DEF Layers

\* What a call leaves that has ended, whatever it has done to the rows.
LEMMA EndedCall ==
  ASSUME phase' = "idle", resetDue' = resetDue, call' = call, copy' = copy,
         call.tokens \in Seq(Token) /\ call.rest \in Seq(Token),
         call.previous \in 0 .. Capacity /\ copy.length \in 0 .. Capacity,
         \A l \in Layers : Fit(pools'[l], kv'[l]),
         NEW length,
         ~resetDue => \A l \in Layers : /\ kv'[l].length = length
                                        /\ Len(kv'[l].table) = PagesFor(length)
  PROVE  DecoderInv'
<1>1. 1 \in Layers
  BY FrontLayer
<1>2. FrontLayerSpeaksForAll'
  BY <1>1 DEF FrontLayerSpeaksForAll, CurrentLength
<1>3. ~Running'
  BY DEF Running
<1> QED
  BY <1>2, <1>3 DEF DecoderInv

LEMMA InitFits == Init => DecoderInv
<1> SUFFICES ASSUME Init  PROVE  DecoderInv
  OBVIOUS
<1>1. \A l \in Layers : pools[l] = NewPool /\ kv[l] = NewState
  BY DEF Init
<1>2. \A l \in Layers : Fit(pools[l], kv[l])
  BY <1>1, NewFits
<1>3. NewState.length = 0 /\ Len(NewState.table) = 0
  BY DEF NewState
<1>4. PagesFor(0) = 0 /\ 0 \in 0 .. Capacity
  BY PagesForIsMonotone, PagedKVAssumption
<1>5. 1 \in Layers
  BY FrontLayer
<1>6. FrontLayerSpeaksForAll
  BY <1>1, <1>3, <1>4, <1>5 DEF FrontLayerSpeaksForAll, CurrentLength
<1>7. ~Running
  BY DEF Init, Running
<1>8. /\ call.tokens = <<>> /\ call.rest = <<>> /\ call.previous = 0 /\ copy.length = 0
  BY DEF Init, NoCall
<1> QED
  BY <1>2, <1>4, <1>6, <1>7, <1>8 DEF DecoderInv

LEMMA StutterKeeps ==
  ASSUME DecoderInv, UNCHANGED vars
  PROVE  DecoderInv'
BY DEF vars, DecoderInv, FrontLayerSpeaksForAll, CurrentLength, Running, Target, StagedLayer

\* What staging every layer up to a failing one leaves in each.
LEMMA StagingFits ==
  ASSUME DecoderInv, NEW n \in Nat, NEW failing, NEW faults, NEW l \in Layers,
         NEW out, out = StagingTo(n, failing, faults)[l]
  PROVE  /\ Fit(out.pool, out.state)
         /\ out.state.length = kv[l].length
         /\ Len(kv[l].table) <= PagesFor(n) =>
              Len(out.state.table) \in {Len(kv[l].table), PagesFor(n)}
<1>1. Fit(pools[l], kv[l])
  BY DEF DecoderInv
<1>2. \/ out = StageLength(pools[l], kv[l], n, {})
      \/ out = StageLength(pools[l], kv[l], n, faults)
      \/ out = Outcome(pools[l], kv[l], TRUE)
  BY DEF StagingTo, UpTo
<1>3. CASE \E f \in {{}, faults} : out = StageLength(pools[l], kv[l], n, f)
  BY <1>1, <1>3, StageFits
<1>4. CASE out = Outcome(pools[l], kv[l], TRUE)
  BY <1>1, <1>4 DEF Outcome
<1> QED
  BY <1>2, <1>3, <1>4

LEMMA RolledBackFits ==
  ASSUME NEW outcomes, NEW length \in 0 .. Capacity, NEW undo, NEW l \in Layers,
         Fit(outcomes[l].pool, outcomes[l].state),
         NEW out, out = RolledBack(outcomes, length, undo)[l]
  PROVE  /\ Fit(out.pool, out.state)
         /\ out.state.length = outcomes[l].state.length
         /\ PagesFor(length) <= Len(outcomes[l].state.table)
              => Len(out.state.table) = PagesFor(length)
<1>1. out = RollbackLength(outcomes[l].pool, outcomes[l].state, length, undo[l])
  BY DEF RolledBack
<1> QED
  BY <1>1, RollbackFits

\* Between calls every layer has the length that the front layer says.
LEMMA BetweenCalls ==
  ASSUME DecoderInv, phase \in {"idle", "chunking"}
  PROVE  /\ CurrentLength \in 0 .. Capacity /\ CurrentLength \in Nat
         /\ ~resetDue => \A l \in Layers : /\ kv[l].length = CurrentLength
                                           /\ Len(kv[l].table) = PagesFor(CurrentLength)
<1>1. kv[1] \in StateType
  BY FrontLayer DEF DecoderInv, Fit
<1>2. CurrentLength \in 0 .. Capacity
  BY <1>1 DEF StateType, CurrentLength
<1> QED
  BY <1>2, PagedKVAssumption DEF DecoderInv, FrontLayerSpeaksForAll

\* A rollback of every layer to the front layer's length gives back what the
\* layers before the failing one took.
LEMMA StagingFailsKeeps ==
  ASSUME DecoderInv, phase \in {"idle", "chunking"},
         NEW n \in Nat, CurrentLength <= n, StagingFails(n)
  PROVE  DecoderInv'
<1> DEFINE staged == {StagingTo(n, failing, faults) : failing \in Layers, faults \in StageFaults}
<1>1. PICK outcomes \in staged, undo \in [Layers -> WriteFaults] :
        Become(RolledBack(outcomes, CurrentLength, undo))
  BY DEF StagingFails
<1>2. PICK failing \in Layers, faults \in StageFaults : outcomes = StagingTo(n, failing, faults)
  BY <1>1
<1>3. CurrentLength \in 0 .. Capacity /\ CurrentLength \in Nat
  BY BetweenCalls
<1>4. PagesFor(CurrentLength) <= PagesFor(n)
  BY <1>3, PagesForIsMonotone
<1> HIDE DEF staged
<1>5. ASSUME NEW l \in Layers
      PROVE  /\ Fit(pools'[l], kv'[l])
             /\ ~resetDue => /\ kv'[l].length = CurrentLength
                             /\ Len(kv'[l].table) = PagesFor(CurrentLength)
  <2> DEFINE mid == outcomes[l]
             out == RolledBack(outcomes, CurrentLength, undo)[l]
  <2>1. /\ Fit(mid.pool, mid.state)
        /\ mid.state.length = kv[l].length
        /\ Len(kv[l].table) <= PagesFor(n) =>
             Len(mid.state.table) \in {Len(kv[l].table), PagesFor(n)}
    BY <1>2, StagingFits
  <2>2. /\ Fit(out.pool, out.state)
        /\ out.state.length = mid.state.length
        /\ PagesFor(CurrentLength) <= Len(mid.state.table)
             => Len(out.state.table) = PagesFor(CurrentLength)
    BY <1>3, <2>1, RolledBackFits
  <2>3. pools'[l] = out.pool /\ kv'[l] = out.state
    BY <1>1 DEF Become
  <2> HIDE DEF mid, out
  <2>4. ASSUME ~resetDue
        PROVE  kv'[l].length = CurrentLength /\ Len(kv'[l].table) = PagesFor(CurrentLength)
    <3>1. kv[l].length = CurrentLength /\ Len(kv[l].table) = PagesFor(CurrentLength)
      BY <2>4, BetweenCalls
    <3>2. PagesFor(CurrentLength) \in Nat /\ PagesFor(n) \in Nat
      BY <1>3, PagesForIsMonotone
    <3>3. PagesFor(CurrentLength) <= Len(mid.state.table)
      BY <1>4, <2>1, <3>1, <3>2
    <3> QED
      BY <2>1, <2>2, <2>3, <3>1, <3>3
  <2> QED
    BY <2>2, <2>3, <2>4
<1>6. phase' = "idle" /\ call' = call /\ copy' = copy /\ resetDue' = resetDue
  BY DEF StagingFails
<1>7. /\ call.tokens \in Seq(Token) /\ call.rest \in Seq(Token)
      /\ call.previous \in 0 .. Capacity /\ copy.length \in 0 .. Capacity
  BY DEF DecoderInv
<1> QED
  BY <1>5, <1>6, <1>7, EndedCall

LEMMA FailKeeps ==
  ASSUME DecoderInv, phase \in {"idle", "chunking"}, Fail
  PROVE  DecoderInv'
<1>1. /\ phase' = "idle" /\ call' = call /\ copy' = copy /\ resetDue' = resetDue
      /\ pools' = pools /\ kv' = kv
  BY DEF Fail, cache
<1>2. /\ call.tokens \in Seq(Token) /\ call.rest \in Seq(Token)
      /\ call.previous \in 0 .. Capacity /\ copy.length \in 0 .. Capacity
      /\ \A l \in Layers : Fit(pools'[l], kv'[l])
  BY <1>1 DEF DecoderInv
<1>3. ~resetDue => \A l \in Layers : /\ kv'[l].length = CurrentLength
                                     /\ Len(kv'[l].table) = PagesFor(CurrentLength)
  BY <1>1, BetweenCalls
<1> QED
  BY <1>1, <1>2, <1>3, EndedCall

\* Inputs of the number of tokens that the stage takes.
Fed(inputs, count) ==
  \A input \in inputs : /\ input.tokens \in Seq(Token) /\ Len(input.tokens) = count
                        /\ input.rest \in Seq(Token)

LEMMA StageKeeps ==
  ASSUME DecoderInv, phase \in {"idle", "chunking"},
         NEW stage, NEW count \in Nat, NEW inputs, Fed(inputs, count), Stage(stage, count, inputs)
  PROVE  DecoderInv'
<1> DEFINE n == CurrentLength + count
           staged == StagingTo(n, LayerCount + 1, {})
<1>1. CurrentLength \in 0 .. Capacity /\ CurrentLength \in Nat /\ n \in Nat
  BY BetweenCalls
<1>2. AllPass(staged) /\ Become(staged)
  BY DEF Stage
<1>3. PICK input \in inputs :
        call' = [stage |-> stage, tokens |-> input.tokens, previous |-> CurrentLength,
                 rest |-> input.rest, logits |-> input.logits]
  BY DEF Stage
<1>4. /\ call'.tokens \in Seq(Token) /\ call'.rest \in Seq(Token)
      /\ call'.previous = CurrentLength /\ Target' = n
  BY <1>3 DEF Fed, Target
<1>5. /\ phase' = "staged" /\ copy' = copy /\ resetDue' = resetDue
  BY DEF Stage
<1> HIDE DEF n
<1>6. ASSUME NEW l \in Layers
      PROVE  /\ Fit(pools'[l], kv'[l])
             /\ kv'[l].length = kv[l].length
             /\ n \in 1 .. Capacity
             /\ Len(kv'[l].table) = PagesFor(n)
             /\ kv'[l].devTable = kv'[l].table
             /\ kv'[l].devLength = n
  <2> DEFINE out == staged[l]
  <2>1. out = StageLength(pools[l], kv[l], n, {})
    <3>1. l < LayerCount + 1
      BY FrontLayer
    <3> QED
      BY <3>1 DEF StagingTo, UpTo
  <2>2. out.ok /\ pools'[l] = out.pool /\ kv'[l] = out.state
    BY <1>2 DEF AllPass, Become
  <2>3. Fit(pools[l], kv[l])
    BY DEF DecoderInv
  <2> HIDE DEF out, staged
  <2> QED
    BY <1>1, <2>1, <2>2, <2>3, StageFits
<1>7. n \in 1 .. Capacity
  BY <1>6, FrontLayer
<1>8. \A l \in Layers : StagedLayer(l)'
  BY <1>4, <1>6 DEF StagedLayer
<1>9. ~FrontLayerSpeaksForAll' => FALSE
  BY <1>5 DEF FrontLayerSpeaksForAll
<1>10. ASSUME ~resetDue'  PROVE  \A l \in Layers : kv'[l].length = call'.previous
  <2>1. ~resetDue
    BY <1>5, <1>10
  <2> QED
    BY <1>4, <1>6, <2>1, BetweenCalls
<1>11. copy'.length \in 0 .. Capacity
  BY <1>5 DEF DecoderInv
<1> QED
  BY <1>1, <1>4, <1>6, <1>7, <1>8, <1>9, <1>10, <1>11 DEF DecoderInv

LEMMA RunKeeps ==
  ASSUME DecoderInv, phase \in {"idle", "chunking"},
         NEW stage, NEW count \in Nat, NEW inputs, Fed(inputs, count), Run(stage, count, inputs)
  PROVE  DecoderInv'
<1>1. CurrentLength \in Nat
  BY BetweenCalls
<1>2. CurrentLength + count \in Nat /\ CurrentLength <= CurrentLength + count
  BY <1>1
<1>3. CASE Fail
  BY <1>3, FailKeeps
<1>4. CASE StagingFails(CurrentLength + count)
  BY <1>2, <1>4, StagingFailsKeeps
<1>5. CASE Stage(stage, count, inputs)
  BY <1>5, StageKeeps
<1> QED
  BY <1>3, <1>4, <1>5 DEF Run

LEMMA Sizes == PrefillLength \in Nat /\ ChunkSize \in Nat /\ ChunkSize <= PrefillLength
<1>1. PrefillLength \in 1 .. Capacity /\ ChunkSize \in 0 .. PrefillLength - 1
  BY PagedDecoderAssumption, Zenon
<1>2. Capacity \in Nat
  BY PagedKVAssumption
<1> QED
  BY <1>1, <1>2

LEMMA InputsAreFed ==
  ASSUME NEW count \in Nat, NEW without
  PROVE  Fed(Inputs(count, without), count)
<1>1. \A tokens \in [1 .. count -> Token] : tokens \in Seq(Token) /\ Len(tokens) = count
  OBVIOUS
<1>2. ASSUME NEW input \in Inputs(count, without)
      PROVE  /\ input.tokens \in Seq(Token) /\ Len(input.tokens) = count
             /\ input.rest \in Seq(Token)
  <2>1. input.tokens \in [1 .. count -> Token] /\ input.rest = <<>>
    BY DEF Inputs
  <2> QED
    BY <1>1, <2>1
<1> QED
  BY <1>2 DEF Fed

LEMMA PrefillKeeps ==
  ASSUME DecoderInv, Prefill
  PROVE  DecoderInv'
BY Sizes, InputsAreFed, RunKeeps DEF Prefill

LEMMA ChunkIsFed ==
  ASSUME NEW tokens \in Seq(Token), NEW count \in 0 .. Len(tokens)
  PROVE  Fed({Chunk(tokens, count)}, count)
<1>1. /\ SubSeq(tokens, 1, count) \in Seq(Token) /\ Len(SubSeq(tokens, 1, count)) = count
      /\ SubSeq(tokens, count + 1, Len(tokens)) \in Seq(Token)
  OBVIOUS
<1>2. /\ Chunk(tokens, count).tokens = SubSeq(tokens, 1, count)
      /\ Chunk(tokens, count).rest = SubSeq(tokens, count + 1, Len(tokens))
  BY DEF Chunk
<1> QED
  BY <1>1, <1>2 DEF Fed

LEMMA PrefillChunkedKeeps ==
  ASSUME DecoderInv, PrefillChunked
  PROVE  DecoderInv'
<1> DEFINE inputs == {Chunk(tokens, ChunkSize) : tokens \in [1 .. PrefillLength -> Token]}
<1>1. PrefillLength \in Nat /\ ChunkSize \in Nat /\ ChunkSize <= PrefillLength
  BY Sizes
<1>2. ASSUME NEW tokens \in [1 .. PrefillLength -> Token]
      PROVE  Fed({Chunk(tokens, ChunkSize)}, ChunkSize)
  <2>1. tokens \in Seq(Token) /\ Len(tokens) = PrefillLength
    BY <1>1
  <2>2. ChunkSize \in 0 .. Len(tokens)
    BY <1>1, <2>1
  <2> QED
    BY <2>1, <2>2, ChunkIsFed
<1>3. Fed(inputs, ChunkSize)
  BY <1>2 DEF Fed
<1>4. Run("chunk", ChunkSize, inputs) /\ phase = "idle"
  BY DEF PrefillChunked
<1> HIDE DEF inputs
<1> QED
  BY <1>1, <1>3, <1>4, RunKeeps

LEMMA NextChunkKeeps ==
  ASSUME DecoderInv, NextChunk
  PROVE  DecoderInv'
<1> DEFINE count == IF ChunkSize < Len(call.rest) THEN ChunkSize ELSE Len(call.rest)
           inputs == {Chunk(call.rest, count)}
<1>1. call.rest \in Seq(Token) /\ Len(call.rest) \in Nat
  BY DEF DecoderInv
<1>2. ChunkSize \in Nat
  BY Sizes
<1>3. count \in 0 .. Len(call.rest) /\ count \in Nat
  BY <1>1, <1>2
<1>4. Run("chunk", count, inputs) /\ phase = "chunking"
  BY DEF NextChunk
<1> HIDE DEF count
<1>5. Fed(inputs, count)
  BY <1>1, <1>3, ChunkIsFed
<1> HIDE DEF inputs
<1> QED
  BY <1>3, <1>4, <1>5, RunKeeps

LEMMA DecodeKeeps ==
  ASSUME DecoderInv, Decode
  PROVE  DecoderInv'
BY InputsAreFed, RunKeeps DEF Decode

LEMMA RefuseKeeps ==
  ASSUME DecoderInv, Refuse
  PROVE  DecoderInv'
BY FailKeeps DEF Refuse

\* The kernels write rows, never a table or a length.
LEMMA AdmitKeeps ==
  ASSUME DecoderInv, AdmitTokenOnly
  PROVE  DecoderInv'
<1>1. /\ pools' = pools /\ kv' = kv /\ call' = call /\ copy' = copy /\ resetDue' = resetDue
      /\ Running /\ phase' = "admitted"
  BY DEF AdmitTokenOnly, Running
<1>2. \A l \in Layers : StagedLayer(l)' <=> StagedLayer(l)
  BY <1>1 DEF StagedLayer, Target
<1>3. FrontLayerSpeaksForAll'
  BY <1>1 DEF FrontLayerSpeaksForAll
<1> QED
  BY <1>1, <1>2, <1>3 DEF DecoderInv, Target

\* Every layer commits the length that it was staged for.
LEMMA ExecuteKeeps ==
  ASSUME DecoderInv, Execute
  PROVE  DecoderInv'
<1>1. Running
  BY DEF Execute, MayExecute, Running
<1>2. /\ pools' = pools /\ call' = call /\ copy' = copy
      /\ kv' = [l \in Layers |-> CommitLength(kv[l], Target)]
      /\ phase' \in {"idle", "chunking"}
  BY DEF Execute, Target
<1>3. Target \in 1 .. Capacity /\ Target \in 0 .. Capacity
      /\ \A l \in Layers : Len(kv[l].table) = PagesFor(Target)
  BY <1>1, PagedKVAssumption DEF DecoderInv, StagedLayer
<1>4. ASSUME NEW l \in Layers
      PROVE  /\ Fit(pools'[l], kv'[l])
             /\ kv'[l].length = Target /\ Len(kv'[l].table) = PagesFor(Target)
  <2>1. Fit(pools[l], kv[l])
    BY DEF DecoderInv
  <2>2. kv'[l] = [kv[l] EXCEPT !.length = Target]
    BY <1>2 DEF CommitLength
  <2>3. kv'[l] \in StateType /\ kv'[l].length = Target /\ kv'[l].table = kv[l].table
    BY <1>3, <2>1, <2>2 DEF Fit, StateType
  <2> QED
    BY <1>2, <1>3, <2>1, <2>3 DEF Fit
<1>5. FrontLayerSpeaksForAll'
  BY <1>4, FrontLayer DEF FrontLayerSpeaksForAll, CurrentLength
<1>6. ~Running'
  BY <1>2 DEF Running
<1> QED
  BY <1>2, <1>4, <1>5, <1>6 DEF DecoderInv

\* The rollback of every layer gives back what the run took.
LEMMA ExecuteFailsKeeps ==
  ASSUME DecoderInv, ExecuteFails
  PROVE  DecoderInv'
<1> DEFINE staged == [l \in Layers |-> Outcome(pools[l], kv[l], TRUE)]
<1>1. PICK undo \in [Layers -> WriteFaults] : Become(RolledBack(staged, call.previous, undo))
  BY DEF ExecuteFails
<1>2. Running
  BY DEF ExecuteFails, MayExecute, Running
<1>3. /\ call.previous \in 0 .. Capacity /\ call.previous \in Nat /\ Target \in Nat
      /\ call.previous <= Target
  <2>1. call.previous \in 0 .. Capacity /\ Len(call.tokens) \in Nat
    BY DEF DecoderInv
  <2> QED
    BY <2>1, PagedKVAssumption DEF Target
<1>4. PagesFor(call.previous) <= PagesFor(Target)
  BY <1>3, PagesForIsMonotone
<1>5. ASSUME NEW l \in Layers
      PROVE  /\ Fit(pools'[l], kv'[l])
             /\ kv'[l].length = kv[l].length
             /\ Len(kv'[l].table) = PagesFor(call.previous)
  <2> DEFINE out == RolledBack(staged, call.previous, undo)[l]
  <2>1. staged[l].pool = pools[l] /\ staged[l].state = kv[l]
    BY DEF Outcome
  <2>2. Fit(pools[l], kv[l]) /\ Len(kv[l].table) = PagesFor(Target)
    BY <1>2 DEF DecoderInv, StagedLayer
  <2>3. pools'[l] = out.pool /\ kv'[l] = out.state
    BY <1>1 DEF Become
  <2> HIDE DEF staged
  <2>4. /\ Fit(out.pool, out.state)
        /\ out.state.length = kv[l].length
        /\ PagesFor(call.previous) <= Len(kv[l].table)
             => Len(out.state.table) = PagesFor(call.previous)
    BY SMTT(40), <1>3, <2>1, <2>2, RolledBackFits
  <2> HIDE DEF out
  <2> QED
    BY <1>4, <2>2, <2>3, <2>4
<1>6. phase' = "idle" /\ call' = call /\ copy' = copy /\ resetDue' = resetDue
  BY DEF ExecuteFails
<1>7. /\ call.tokens \in Seq(Token) /\ call.rest \in Seq(Token)
      /\ call.previous \in 0 .. Capacity /\ copy.length \in 0 .. Capacity
      /\ ~resetDue => \A l \in Layers : kv[l].length = call.previous
  BY <1>2 DEF DecoderInv
<1>8. ~resetDue => \A l \in Layers : /\ kv'[l].length = call.previous
                                     /\ Len(kv'[l].table) = PagesFor(call.previous)
  BY <1>5, <1>7
<1> QED
  BY <1>5, <1>6, <1>7, <1>8, EndedCall

LEMMA UpToReset ==
  ASSUME DecoderInv, NEW failing, NEW faults, NEW l \in Layers,
         NEW out, out = UpTo(failing, faults, Reset)[l]
  PROVE  Fit(out.pool, out.state)
<1>1. Fit(pools[l], kv[l])
  BY DEF DecoderInv
<1>2. \/ out = Reset(pools[l], kv[l], {})
      \/ out = Reset(pools[l], kv[l], faults)
      \/ out = Outcome(pools[l], kv[l], TRUE)
  BY DEF UpTo
<1>3. CASE \E f \in {{}, faults} : out = Reset(pools[l], kv[l], f)
  BY <1>1, <1>3, ResetFits
<1>4. CASE out = Outcome(pools[l], kv[l], TRUE)
  BY <1>1, <1>4 DEF Outcome
<1> QED
  BY <1>2, <1>3, <1>4

\* A reset that passes empties every layer, one that fails asks for another.
LEMMA ResetKeeps ==
  ASSUME DecoderInv, ResetCache
  PROVE  DecoderInv'
<1>1. /\ phase = "idle" /\ phase' = "idle" /\ call' = call /\ copy' = copy
  BY DEF ResetCache
<1>2. ~Running'
  BY <1>1 DEF Running
<1>3. CASE Become(UpTo(LayerCount + 1, {}, Reset)) /\ resetDue' = FALSE
  <2>1. ASSUME NEW l \in Layers
        PROVE  Fit(pools'[l], kv'[l]) /\ kv'[l].length = 0 /\ Len(kv'[l].table) = 0
    <3> DEFINE out == UpTo(LayerCount + 1, {}, Reset)[l]
    <3>1. out = Reset(pools[l], kv[l], {})
      BY FrontLayer DEF UpTo
    <3>2. pools'[l] = out.pool /\ kv'[l] = out.state
      BY <1>3 DEF Become
    <3>3. Fit(pools[l], kv[l])
      BY DEF DecoderInv
    <3> HIDE DEF out
    <3>4. Fit(out.pool, out.state) /\ out.state = NewState
      BY <3>1, <3>3, ResetFits
    <3> QED
      BY <3>2, <3>4 DEF NewState
  <2>2. PagesFor(0) = 0
    BY PagesForIsMonotone
  <2>3. FrontLayerSpeaksForAll'
    BY <2>1, <2>2, FrontLayer DEF FrontLayerSpeaksForAll, CurrentLength
  <2> QED
    BY <1>1, <1>2, <2>1, <2>3 DEF DecoderInv
<1>4. CASE \E failing \in Layers, faults \in WriteFaults \ {{}} :
             Become(UpTo(failing, faults, Reset)) /\ resetDue' = TRUE
  <2>1. PICK failing \in Layers, faults \in WriteFaults \ {{}} :
          Become(UpTo(failing, faults, Reset)) /\ resetDue' = TRUE
    BY <1>4
  <2>2. \A l \in Layers : Fit(pools'[l], kv'[l])
    <3> TAKE l \in Layers
    <3>1. /\ pools'[l] = UpTo(failing, faults, Reset)[l].pool
          /\ kv'[l] = UpTo(failing, faults, Reset)[l].state
      BY <2>1 DEF Become
    <3> QED
      BY <3>1, UpToReset
  <2>3. FrontLayerSpeaksForAll'
    BY <2>1 DEF FrontLayerSpeaksForAll
  <2> QED
    BY <1>1, <1>2, <2>2, <2>3 DEF DecoderInv
<1> QED
  BY <1>3, <1>4 DEF ResetCache

LEMMA SnapshotKeeps ==
  ASSUME DecoderInv, Snapshot
  PROVE  DecoderInv'
<1>1. /\ pools' = pools /\ kv' = kv /\ phase' = phase /\ call' = call /\ resetDue' = resetDue
      /\ phase = "idle" /\ copy'.length = CurrentLength
  BY DEF Snapshot, cache
<1>2. copy'.length \in 0 .. Capacity
  BY <1>1, BetweenCalls
<1>3. FrontLayerSpeaksForAll'
  BY <1>1 DEF FrontLayerSpeaksForAll, CurrentLength, DecoderInv
<1>4. ~Running'
  BY <1>1 DEF Running
<1> QED
  BY <1>1, <1>2, <1>3, <1>4 DEF DecoderInv

\* What restoring every layer up to a failing one leaves in each.
LEMMA RestoringFits ==
  ASSUME DecoderInv, NEW failing, NEW faults, NEW undo, NEW l \in Layers,
         NEW out, out = RestoredTo(failing, faults, undo)[l]
  PROVE  /\ Fit(out.pool, out.state)
         /\ l < failing /\ out.ok
              => out.state.length = copy.length /\ Len(out.state.table) = PagesFor(copy.length)
<1>1. Fit(pools[l], kv[l]) /\ copy.length \in Nat
  BY PagedKVAssumption DEF DecoderInv
<1>2. /\ l < failing => out = Restore(pools[l], kv[l], copy.length, {}, undo)
      /\ \/ out = Restore(pools[l], kv[l], copy.length, {}, undo)
         \/ out = Restore(pools[l], kv[l], copy.length, faults, undo)
         \/ out = Outcome(pools[l], kv[l], TRUE)
  BY DEF RestoredTo, UpTo
<1>3. CASE \E f \in {{}, faults} : out = Restore(pools[l], kv[l], copy.length, f, undo)
  BY <1>1, <1>3, RestoreFits
<1>4. CASE out = Outcome(pools[l], kv[l], TRUE) /\ ~(l < failing)
  BY <1>1, <1>4 DEF Outcome
<1> QED
  BY <1>2, <1>3, <1>4

\* A restore that passes gives every layer the copy's length; one that fails
\* resets every layer, passing or not, and asks for a reset.
LEMMA RestoreKeeps ==
  ASSUME DecoderInv, RestoreCache
  PROVE  DecoderInv'
<1> DEFINE all == RestoredTo(LayerCount + 1, {}, {})
<1>1. /\ phase' = "idle" /\ call' = call /\ copy' = copy
  BY DEF RestoreCache
<1>2. ~Running'
  BY <1>1 DEF Running
<1>3. CASE AllPass(all) /\ Become(all) /\ resetDue' = FALSE
  <2>1. ASSUME NEW l \in Layers
        PROVE  /\ Fit(pools'[l], kv'[l]) /\ kv'[l].length = copy.length
               /\ Len(kv'[l].table) = PagesFor(copy.length)
    <3> DEFINE out == all[l]
    <3>1. out.ok /\ pools'[l] = out.pool /\ kv'[l] = out.state
      BY <1>3 DEF AllPass, Become
    <3>2. out = RestoredTo(LayerCount + 1, {}, {})[l] /\ l < LayerCount + 1
      BY FrontLayer
    <3> HIDE DEF out
    <3> QED
      BY <3>1, <3>2, RestoringFits
  <2>2. FrontLayerSpeaksForAll'
    BY <2>1, FrontLayer DEF FrontLayerSpeaksForAll, CurrentLength
  <2> QED
    BY <1>1, <1>2, <2>1, <2>2 DEF DecoderInv
<1>4. CASE resetDue' = TRUE /\ \E failing \in Layers,
             faults \in {{"table"}, {"length"}, {"length", "rewrite"}, {"prefix"}} :
             \E outcomes \in ResetAfter(failing, faults) : Become(outcomes)
  <2>1. PICK failing \in Layers,
             faults \in {{"table"}, {"length"}, {"length", "rewrite"}, {"prefix"}} :
             \E outcomes \in ResetAfter(failing, faults) : Become(outcomes)
    BY <1>4
  <2>2. PICK outcomes \in ResetAfter(failing, faults) : Become(outcomes)
    BY <2>1
  <2>3. PICK after \in {RestoredTo(failing, faults, undo) : undo \in WriteFaults},
             resets \in [Layers -> WriteFaults] :
          outcomes = [l \in Layers |-> Reset(after[l].pool, after[l].state, resets[l])]
    BY <2>2 DEF ResetAfter
  <2>4. PICK undo \in WriteFaults : after = RestoredTo(failing, faults, undo)
    BY <2>3
  <2>5. ASSUME NEW l \in Layers  PROVE  Fit(pools'[l], kv'[l])
    <3>1. Fit(after[l].pool, after[l].state)
      BY <2>4, RestoringFits
    <3>2. outcomes[l] = Reset(after[l].pool, after[l].state, resets[l])
      BY <2>3
    <3>3. Fit(outcomes[l].pool, outcomes[l].state)
      BY <3>1, <3>2, ResetFits
    <3>4. pools'[l] = outcomes[l].pool /\ kv'[l] = outcomes[l].state
      BY <2>2 DEF Become
    <3> QED
      BY <3>3, <3>4
  <2>6. FrontLayerSpeaksForAll'
    BY <1>4 DEF FrontLayerSpeaksForAll
  <2> QED
    BY <1>1, <1>2, <2>5, <2>6 DEF DecoderInv
<1> QED
  BY <1>3, <1>4 DEF RestoreCache

LEMMA NextKeeps ==
  ASSUME DecoderInv, [Next]_vars
  PROVE  DecoderInv'
<1>1. CASE Prefill
  BY <1>1, PrefillKeeps
<1>2. CASE PrefillChunked
  BY <1>2, PrefillChunkedKeeps
<1>3. CASE NextChunk
  BY <1>3, NextChunkKeeps
<1>4. CASE Decode
  BY <1>4, DecodeKeeps
<1>5. CASE Refuse
  BY <1>5, RefuseKeeps
<1>6. CASE AdmitTokenOnly
  BY <1>6, AdmitKeeps
<1>7. CASE Execute
  BY <1>7, ExecuteKeeps
<1>8. CASE ExecuteFails
  BY <1>8, ExecuteFailsKeeps
<1>9. CASE ResetCache
  BY <1>9, ResetKeeps
<1>10. CASE Snapshot
  BY <1>10, SnapshotKeeps
<1>11. CASE RestoreCache
  BY <1>11, RestoreKeeps
<1>12. CASE UNCHANGED vars
  BY <1>12, StutterKeeps
<1> QED
  BY <1>1, <1>2, <1>3, <1>4, <1>5, <1>6, <1>7, <1>8, <1>9, <1>10, <1>11, <1>12 DEF Next

\* The executor may ask only the front layer for the length: between calls of
\* CompiledDecoderLLM, whichever writes and runs of the GPU have failed, every
\* layer has that length and the pages of just that length.
THEOREM LayersSpeakAsOne == Spec => []FrontLayerSpeaksForAll
<1>1. DecoderInv => FrontLayerSpeaksForAll
  BY DEF DecoderInv
<1> QED
  BY <1>1, InitFits, NextKeeps, PTL DEF Spec

\* The kernels of every layer run on the table and the length that the host
\* staged in this call, whatever earlier rollbacks left on the device.
THEOREM DeviceIsReady == Spec => []DeviceReady
<1>1. DecoderInv => DeviceReady
  BY DEF DecoderInv, DeviceReady, Running, StagedLayer, Target
<1> QED
  BY <1>1, InitFits, NextKeeps, PTL DEF Spec

----------------------------------------------------------------------------
(* The rows.  A layer has its pool to itself, whatever has failed.         *)

Alone(table) == [r \in {1} |-> table]
Owned(pool, table) == Sound(pool, Alone(table), {1})

LEMMA ResizeOwns ==
  ASSUME NEW pool, NEW table \in Seq(Pages), Owned(pool, table), NEW n \in Nat,
         NEW out, out = ResizePageAllocation(pool, table, n)
  PROVE  /\ Owned(out.pool, out.table)
         /\ out.ok \in BOOLEAN
         /\ out.table \in Seq(Pages)
         /\ out.ok => Len(out.table) = n
         /\ ~out.ok => out.table = table
         /\ n <= Len(table) => out.ok
         /\ \A i \in 1 .. Len(table) : i <= n => out.table[i] = table[i]
<1> DEFINE T == Alone(table)
<1>1. /\ T[1] = table
      /\ [T EXCEPT ![1] = out.table] = Alone(out.table)
  BY DEF Alone
<1>2. Sound(pool, T, {1})
  BY DEF Owned
<1> HIDE DEF T
<1>3. out = ResizePageAllocation(pool, T[1], n)
  BY <1>1
<1> QED
  BY <1>1, <1>2, <1>3, ResizeSound DEF Owned

\* A stage of no less than the table covers leaves the pages it had in place.
LEMMA StageOwns ==
  ASSUME NEW pool, NEW state \in StateType, Owned(pool, state.table), NEW n \in Nat, NEW faults,
         NEW out, out = StageLength(pool, state, n, faults)
  PROVE  /\ Owned(out.pool, out.state.table)
         /\ Len(state.table) <= PagesFor(n) =>
              \A i \in 1 .. Len(state.table) : out.state.table[i] = state.table[i]
<1>a. PICK grown : grown = ResizePageAllocation(pool, state.table, PagesFor(n))
  OBVIOUS
<1>b. PICK undone : undone = ResizePageAllocation(grown.pool, grown.table, Len(state.table))
  OBVIOUS
<1> DEFINE seen   == IF "table" \in faults THEN state.devTable
                     ELSE IF "rewrite" \in faults THEN grown.table
                     ELSE undone.table
<1>1. /\ state.table \in Seq(Pages) /\ Len(state.table) \in Nat
      /\ PagesFor(n) \in Nat
  BY PagesForIsMonotone DEF StateType
<1>2. /\ Owned(grown.pool, grown.table)
      /\ grown.ok \in BOOLEAN
      /\ grown.table \in Seq(Pages)
      /\ grown.ok => Len(grown.table) = PagesFor(n)
      /\ \A i \in 1 .. Len(state.table) : i <= PagesFor(n) => grown.table[i] = state.table[i]
      /\ ~grown.ok => grown.table = state.table
  <2>1. /\ Owned(grown.pool, grown.table)
        /\ grown.ok \in BOOLEAN
        /\ grown.table \in Seq(Pages)
        /\ grown.ok => Len(grown.table) = PagesFor(n)
    BY <1>a, <1>1, ResizeOwns
  <2>2. /\ \A i \in 1 .. Len(state.table) : i <= PagesFor(n) => grown.table[i] = state.table[i]
        /\ ~grown.ok => grown.table = state.table
    BY <1>a, <1>1, ResizeOwns
  <2> QED
    BY <2>1, <2>2
<1>3. /\ Owned(undone.pool, undone.table)
      /\ \A i \in 1 .. Len(grown.table) : i <= Len(state.table) => undone.table[i] = grown.table[i]
  BY <1>b, <1>1, <1>2, ResizeOwns
<1> HIDE DEF seen
<1>4. CASE n = 0 \/ n > Capacity \/ ~grown.ok
  <2>1. \/ out.pool = pool /\ out.state = state
        \/ out.pool = grown.pool /\ out.state = state /\ ~grown.ok
    BY <1>a, <1>4 DEF StageLength, Outcome
  <2> QED
    BY <1>2, <2>1
<1>5. CASE ~(n = 0 \/ n > Capacity \/ ~grown.ok) /\ faults \cap {"table", "length"} # {}
  <2>1. out = Outcome(undone.pool, [state EXCEPT !.table = undone.table, !.devTable = seen], FALSE)
    BY <1>a, <1>b, <1>5, Zenon DEF StageLength, seen
  <2>2. out.pool = undone.pool /\ out.state = [state EXCEPT !.table = undone.table, !.devTable = seen]
    BY <2>1 DEF Outcome
  <2>3. out.state.table = undone.table
    BY <2>2 DEF StateType
  <2>4. ASSUME Len(state.table) <= PagesFor(n), NEW i \in 1 .. Len(state.table)
        PROVE  undone.table[i] = state.table[i]
    BY <1>1, <1>2, <1>3, <1>5, <2>4
  <2> QED
    BY <1>3, <2>2, <2>3, <2>4
<1>6. CASE ~(n = 0 \/ n > Capacity \/ ~grown.ok) /\ faults \cap {"table", "length"} = {}
  <2>1. /\ out.pool = grown.pool
        /\ out.state = [state EXCEPT !.table = grown.table, !.devTable = grown.table, !.devLength = n]
    BY <1>a, <1>6 DEF StageLength, Outcome
  <2>2. out.state.table = grown.table
    BY <2>1 DEF StateType
  <2> QED
    BY <1>1, <1>2, <2>1, <2>2
<1> QED
  BY <1>4, <1>5, <1>6

\* A rollback leaves the pages of the length it rolls back to in place.
LEMMA RollbackOwns ==
  ASSUME NEW pool, NEW state \in StateType, Owned(pool, state.table),
         NEW n \in 0 .. Capacity, NEW faults,
         NEW out, out = RollbackLength(pool, state, n, faults)
  PROVE  /\ Owned(out.pool, out.state.table)
         /\ \A i \in 1 .. Len(state.table) : i <= PagesFor(n) => out.state.table[i] = state.table[i]
<1>a. PICK resized : resized = ResizePageAllocation(pool, state.table, PagesFor(n))
  OBVIOUS
<1> DEFINE tabled == [state EXCEPT !.table = resized.table, !.devTable = resized.table]
<1>1. n \in Nat /\ ~(n > Capacity) /\ PagesFor(n) \in Nat /\ state.table \in Seq(Pages)
  BY PagedKVAssumption, PagesForIsMonotone DEF StateType
<1>2. /\ Owned(resized.pool, resized.table)
      /\ resized.ok \in BOOLEAN
      /\ ~resized.ok => resized.table = state.table
      /\ \A i \in 1 .. Len(state.table) : i <= PagesFor(n) => resized.table[i] = state.table[i]
  BY <1>a, <1>1, ResizeOwns
<1>3. out.pool = resized.pool /\ out.state.table = resized.table
  <2>1. CASE ~resized.ok
    BY <1>a, <1>1, <1>2, <2>1 DEF RollbackLength, Outcome
  <2>2. CASE resized.ok
    <3>1. /\ out.pool = resized.pool
          /\ out.state \in {[state EXCEPT !.table = resized.table], tabled,
                            [tabled EXCEPT !.devLength = n]}
      BY <1>a, <1>1, <2>2 DEF RollbackLength, Outcome
    <3> QED
      BY <3>1 DEF StateType
  <2> QED
    BY <1>2, <2>1, <2>2
<1> QED
  BY <1>2, <1>3

LEMMA ResetOwns ==
  ASSUME NEW pool, NEW state \in StateType, Owned(pool, state.table), NEW faults,
         NEW out, out = Reset(pool, state, faults)
  PROVE  Owned(out.pool, out.state.table)
<1> DEFINE emptied == ResizePageAllocation(pool, state.table, 0)
<1>1. /\ Owned(emptied.pool, emptied.table)
      /\ emptied.table \in Seq(Pages) /\ Len(emptied.table) = 0
  <2>1. state.table \in Seq(Pages) /\ 0 <= Len(state.table) /\ 0 \in Nat
    BY DEF StateType
  <2> QED
    BY <2>1, ResizeOwns
<1> HIDE DEF emptied
<1>2. emptied.table = <<>>
  BY <1>1
<1>3. \/ out.pool = pool /\ out.state = state
      \/ /\ out.pool = emptied.pool
         /\ out.state = [state EXCEPT !.table = emptied.table, !.devLength = 0]
      \/ out.pool = emptied.pool /\ out.state = NewState
  BY DEF Reset, Outcome, emptied
<1>4. [state EXCEPT !.table = emptied.table, !.devLength = 0].table = emptied.table
  BY DEF StateType
<1>5. NewState.table = <<>>
  BY DEF NewState
<1> QED
  BY <1>1, <1>2, <1>3, <1>4, <1>5

\* A restore that passes has the pages of its stage.
LEMMA RestoreOwns ==
  ASSUME NEW pool, NEW state, Fit(pool, state), Owned(pool, state.table),
         NEW n \in Nat, NEW faults, NEW undo,
         NEW out, out = Restore(pool, state, n, faults, undo)
  PROVE  /\ Owned(out.pool, out.state.table)
         /\ out.ok => /\ n \in 1 .. Capacity
                      /\ out.state.table = StageLength(pool, state, n, faults).state.table
<1> DEFINE staged == StageLength(pool, state, n, faults)
           rolled == RollbackLength(staged.pool, staged.state, 0, undo)
<1>1. state \in StateType
  BY DEF Fit
<1>2. /\ Fit(staged.pool, staged.state)
      /\ staged.ok => n \in 1 .. Capacity
      /\ Owned(staged.pool, staged.state.table)
  BY <1>1, StageFits, StageOwns
<1>3. Owned(rolled.pool, rolled.state.table)
  <2> HIDE DEF staged
  <2>1. 0 \in 0 .. Capacity
    BY PagedKVAssumption
  <2> QED
    BY <1>2, <2>1, RollbackOwns DEF Fit
<1> HIDE DEF rolled
<1>4. CASE state.length # 0 \/ n = 0 \/ n > Capacity
  <2>1. out = Outcome(pool, state, FALSE)
    BY <1>4, Zenon DEF Restore
  <2> QED
    BY <2>1 DEF Outcome
<1>5. CASE ~(state.length # 0 \/ n = 0 \/ n > Capacity) /\ staged.ok /\ "prefix" \notin faults
  <2>1. out = Outcome(staged.pool, CommitLength(staged.state, n), TRUE)
    BY <1>5, Zenon DEF Restore, staged
  <2> HIDE DEF staged
  <2>2. out.pool = staged.pool /\ out.ok = TRUE /\ out.state = [staged.state EXCEPT !.length = n]
    BY <2>1 DEF Outcome, CommitLength
  <2>3. out.state.table = staged.state.table
    BY <1>2, <2>2 DEF Fit, StateType
  <2> QED
    BY <1>2, <1>5, <2>2, <2>3 DEF staged
<1>6. CASE ~(state.length # 0 \/ n = 0 \/ n > Capacity) /\ ~(staged.ok /\ "prefix" \notin faults)
  <2>1. out = Outcome(rolled.pool, rolled.state, FALSE)
    BY <1>6, Zenon DEF Restore, staged, rolled
  <2>2. out.pool = rolled.pool /\ out.ok = FALSE /\ out.state = rolled.state
    BY <2>1 DEF Outcome
  <2> QED
    BY <1>3, <2>2
<1> QED
  BY <1>4, <1>5, <1>6

----------------------------------------------------------------------------
(* What a layer holds of a context.                                        *)

\* The layer's rows of the tokens t are where its table says.
Holds(l, stored, table, t) ==
  \A q \in 0 .. Len(t) - 1 : stored[SlotOf(table, q)] = <<l, t[q + 1], q>>

\* Every layer has committed the tokens t.
Committed(t) ==
  \A l \in Layers : kv[l].length = Len(t) /\ Holds(l, cells[l], kv[l].table, t)

\* The caller's copy is of the tokens t.
Copied(t) ==
  /\ copy.length = Len(t)
  /\ \A l \in Layers, q \in 0 .. Len(t) - 1 : copy.rows[l][q] = <<l, t[q + 1], q>>

\* The context of the session, empty when a reset is due, and the caller's copy.
Held ==
  IF resetDue THEN <<>>
  ELSE Context(CurrentLength, [l \in Layers |-> RowsOf(cells[l], kv[l].table, kv[l].length)])
Kept == Context(copy.length, copy.rows)

SessionInv ==
  /\ phase \in {"idle", "chunking", "staged", "admitted"}
  /\ \A l \in Layers : Owned(pools[l], kv[l].table)
  /\ ~resetDue => \E t \in Seq(Token) : Committed(t)
  /\ \E t \in Seq(Token) : Copied(t)
  /\ phase = "chunking" => ~resetDue /\ call.rest # <<>>
  /\ call.rest # <<>> => ChunkSize # 0
  /\ Running => /\ call.tokens # <<>>
                /\ call.stage = "decode" => call.rest = <<>>
                /\ resetDue /\ call.stage # "decode" => call.previous = 0

\* The page of a position is among those of any length beyond it.
LEMMA PageOfPosition ==
  ASSUME NEW n \in Nat, NEW q \in 0 .. n - 1
  PROVE  q \in Nat /\ q \div PageSize + 1 \in 1 .. PagesFor(n)
<1>1. PageSize \in Nat \ {0}
  BY PagedKVAssumption
<1>2. q \div PageSize < PagesFor(n) /\ q \div PageSize \in Nat
  BY <1>1 DEF PagesFor
<1>3. PagesFor(n) \in Nat
  BY PagesForIsMonotone
<1> QED
  BY <1>2, <1>3

\* Rows stay where they are when a table keeps its pages.
LEMMA HoldsStays ==
  ASSUME NEW l, NEW t \in Seq(Token), NEW table \in Seq(Pages), NEW kept \in Seq(Pages),
         \A i \in 1 .. PagesFor(Len(t)) : kept[i] = table[i],
         NEW stored, Holds(l, stored, table, t)
  PROVE  Holds(l, stored, kept, t)
<1> SUFFICES ASSUME NEW q \in 0 .. Len(t) - 1
             PROVE  stored[SlotOf(kept, q)] = <<l, t[q + 1], q>>
  BY DEF Holds
<1>1. q \div PageSize + 1 \in 1 .. PagesFor(Len(t))
  BY PageOfPosition
<1>2. SlotOf(kept, q) = SlotOf(table, q)
  BY <1>1 DEF SlotOf
<1> QED
  BY <1>2 DEF Holds

\* A store through a layer's table, read through it.
LEMMA StoreOwned ==
  ASSUME NEW pool, NEW table \in Seq(Pages), Owned(pool, table),
         NEW positions \in SUBSET Nat, NEW content, NEW stored,
         NEW q \in Nat, Mapped(table, q)
  PROVE  Store(stored, table, positions, content)[SlotOf(table, q)]
           = IF q \in positions THEN content[q] ELSE stored[SlotOf(table, q)]
<1> DEFINE T == Alone(table)
<1>1. PICK r, R : r = 1 /\ R = {1}
  OBVIOUS
<1>2. T[r] = table /\ Sound(pool, T, R) /\ r \in R /\ T \in [R -> Seq(Pages)]
  BY <1>1 DEF Alone, Owned
<1> HIDE DEF T
<1>3. ASSUME NEW p \in positions, Mapped(table, p), SlotOf(table, p) = SlotOf(table, q)
      PROVE  p = q
  <2>1. p \in Nat /\ Mapped(T[r], p) /\ Mapped(T[r], q) /\ SlotOf(T[r], p) = SlotOf(T[r], q)
    BY <1>2, <1>3
  <2> QED
    BY <1>2, <2>1, SlotsDistinct
<1>4. SlotOf(table, q) \in Slots
  <2>1. /\ PageSize \in Nat \ {0} /\ q \div PageSize \in Nat
        /\ q % PageSize \in 0 .. PageSize - 1
    BY PagedKVAssumption, Division
  <2>2. q \div PageSize + 1 \in 1 .. Len(table)
    BY <2>1 DEF Mapped
  <2>3. table[q \div PageSize + 1] \in Pages
    BY <2>2
  <2> QED
    BY <2>1, <2>3 DEF SlotOf, Slots
<1>5. CASE q \in positions
  <2>1. (CHOOSE p \in positions : Mapped(table, p) /\ SlotOf(table, p) = SlotOf(table, q)) = q
    BY <1>3, <1>5
  <2> QED
    BY <1>4, <1>5, <2>1 DEF Store
<1>6. CASE q \notin positions
  <2>1. ~ \E p \in positions : Mapped(table, p) /\ SlotOf(table, p) = SlotOf(table, q)
    BY <1>3, <1>6
  <2> QED
    BY <1>4, <1>6, <2>1 DEF Store
<1> QED
  BY <1>5, <1>6

\* A store beyond the committed positions leaves their rows.
LEMMA StoreBeyond ==
  ASSUME NEW pool, NEW table \in Seq(Pages), Owned(pool, table),
         NEW positions \in SUBSET Nat, NEW content, NEW stored,
         NEW l, NEW t \in Seq(Token), PagesFor(Len(t)) <= Len(table),
         \A q \in positions : q >= Len(t), Holds(l, stored, table, t)
  PROVE  Holds(l, Store(stored, table, positions, content), table, t)
<1> SUFFICES ASSUME NEW q \in 0 .. Len(t) - 1
             PROVE  Store(stored, table, positions, content)[SlotOf(table, q)] = <<l, t[q + 1], q>>
  BY DEF Holds
<1>1. q \in Nat /\ q \notin positions /\ Len(t) \in Nat /\ q < Len(t)
  OBVIOUS
<1>2. Mapped(table, q)
  BY <1>1, CoveredIsMapped
<1>3. Store(stored, table, positions, content)[SlotOf(table, q)] = stored[SlotOf(table, q)]
  BY <1>1, <1>2, StoreOwned
<1> QED
  BY <1>3 DEF Holds

\* A context is read back from the rows of all layers.
LEMMA ContextOfRows ==
  ASSUME NEW t \in Seq(Token), NEW rows,
         \A l \in Layers, q \in 0 .. Len(t) - 1 : rows[l][q] = <<l, t[q + 1], q>>
  PROVE  Context(Len(t), rows) = t
<1>1. 1 \in Layers
  BY FrontLayer
<1>2. Len(t) \in Nat /\ t = [i \in 1 .. Len(t) |-> t[i]]
  OBVIOUS
<1>3. ASSUME NEW q \in 0 .. Len(t) - 1
      PROVE  rows[1][q][2] = t[q + 1]
  BY <1>1
<1>4. ASSUME NEW l \in Layers, NEW q \in 0 .. Len(t) - 1
      PROVE  rows[l][q] # NoRow /\ rows[l][q] = <<l, rows[1][q][2], q>>
  <2>1. rows[l][q] = <<l, t[q + 1], q>>
    OBVIOUS
  <2>2. <<l, t[q + 1], q>> # <<>>
    OBVIOUS
  <2> QED
    BY <1>3, <2>1, <2>2 DEF NoRow
<1>5. [i \in 1 .. Len(t) |-> rows[1][i - 1][2]] = [i \in 1 .. Len(t) |-> t[i]]
  <2>1. ASSUME NEW i \in 1 .. Len(t)
        PROVE  rows[1][i - 1][2] = t[i]
    <3>1. i - 1 \in 0 .. Len(t) - 1 /\ (i - 1) + 1 = i
      BY <1>2
    <3> QED
      BY <1>3, <3>1
  <2> QED
    BY <2>1
<1> QED
  BY <1>2, <1>4, <1>5 DEF Context

LEMMA RowsRead ==
  ASSUME NEW l, NEW t \in Seq(Token), NEW table \in Seq(Pages), PagesFor(Len(t)) <= Len(table),
         NEW stored, Holds(l, stored, table, t), NEW q \in 0 .. Len(t) - 1
  PROVE  RowsOf(stored, table, Len(t))[q] = <<l, t[q + 1], q>>
<1>1. Len(t) \in Nat
  OBVIOUS
<1>2. Mapped(table, q)
  BY <1>1, CoveredIsMapped
<1> QED
  BY <1>2 DEF RowsOf, Holds

\* The context that the rows behind the tables of all layers stand for.
LEMMA ContextHeld ==
  ASSUME NEW t \in Seq(Token), NEW rows,
         \A l \in Layers : \E stored, table :
           /\ table \in Seq(Pages) /\ PagesFor(Len(t)) <= Len(table)
           /\ Holds(l, stored, table, t)
           /\ rows[l] = RowsOf(stored, table, Len(t))
  PROVE  Context(Len(t), rows) = t
<1>1. ASSUME NEW l \in Layers, NEW q \in 0 .. Len(t) - 1
      PROVE  rows[l][q] = <<l, t[q + 1], q>>
  <2>1. PICK stored, table :
          /\ table \in Seq(Pages) /\ PagesFor(Len(t)) <= Len(table)
          /\ Holds(l, stored, table, t)
          /\ rows[l] = RowsOf(stored, table, Len(t))
    OBVIOUS
  <2>2. RowsOf(stored, table, Len(t))[q] = <<l, t[q + 1], q>>
    BY ZenonT(60), <2>1, RowsRead
  <2> QED
    BY <2>1, <2>2
<1> QED
  BY <1>1, ContextOfRows

\* Every layer has the front layer's length, and the pages for it.
LEMMA Covered ==
  DecoderInv /\ SessionInv /\ ~resetDue =>
    /\ CurrentLength \in 0 .. Capacity
    /\ \A l \in Layers : /\ kv[l].length = CurrentLength
                         /\ kv[l].table \in Seq(Pages)
                         /\ PagesFor(CurrentLength) <= Len(kv[l].table)
<1> SUFFICES ASSUME DecoderInv, SessionInv, ~resetDue
             PROVE  /\ CurrentLength \in 0 .. Capacity
                    /\ \A l \in Layers : /\ kv[l].length = CurrentLength
                                         /\ kv[l].table \in Seq(Pages)
                                         /\ PagesFor(CurrentLength) <= Len(kv[l].table)
  OBVIOUS
<1>1. 1 \in Layers
  BY FrontLayer
<1>2. \A l \in Layers : kv[l] \in StateType
  BY DEF DecoderInv, Fit
<1>3. /\ CurrentLength \in 0 .. Capacity /\ CurrentLength \in Nat
      /\ \A l \in Layers : kv[l].table \in Seq(Pages)
  BY <1>1, <1>2, PagedKVAssumption DEF StateType, CurrentLength
<1>4. PagesFor(CurrentLength) \in Nat
  BY <1>3, PagesForIsMonotone
<1>5. CASE phase \in {"idle", "chunking"}
  BY <1>3, <1>4, <1>5, BetweenCalls
<1>6. CASE Running
  <2>1. \A l \in Layers : kv[l].length = call.previous /\ Len(kv[l].table) = PagesFor(Target)
    BY <1>6 DEF DecoderInv, StagedLayer
  <2>2. CurrentLength = call.previous
    BY <1>1, <2>1 DEF CurrentLength
  <2>3. Target \in Nat /\ CurrentLength <= Target
    <3>1. Len(call.tokens) \in Nat
      BY DEF DecoderInv
    <3> QED
      BY <1>3, <2>2, <3>1 DEF Target
  <2>4. PagesFor(CurrentLength) <= PagesFor(Target)
    BY <1>3, <2>3, PagesForIsMonotone
  <2> QED
    BY <1>3, <2>1, <2>2, <2>4
<1> QED
  BY <1>5, <1>6 DEF SessionInv, Running

HeldRight ==
  ~resetDue => \A t \in Seq(Token) : Committed(t) => Held = t /\ Len(t) = CurrentLength

LEMMA HeldIs == DecoderInv /\ SessionInv => HeldRight
<1> SUFFICES ASSUME DecoderInv, SessionInv, ~resetDue, NEW t \in Seq(Token), Committed(t)
             PROVE  Held = t /\ Len(t) = CurrentLength
  BY DEF HeldRight
<1>1. Len(t) = CurrentLength
  BY FrontLayer DEF Committed, CurrentLength
<1> DEFINE rows == [l \in Layers |-> RowsOf(cells[l], kv[l].table, kv[l].length)]
<1>2. ASSUME NEW l \in Layers
      PROVE  /\ kv[l].table \in Seq(Pages) /\ PagesFor(Len(t)) <= Len(kv[l].table)
             /\ Holds(l, cells[l], kv[l].table, t)
             /\ rows[l] = RowsOf(cells[l], kv[l].table, Len(t))
  BY <1>1, Covered DEF Committed
<1> HIDE DEF rows
<1>3. Context(Len(t), rows) = t
  BY <1>2, ContextHeld
<1> QED
  BY <1>1, <1>3 DEF Held, rows

KeptRight == \A t \in Seq(Token) : Copied(t) => Kept = t

LEMMA KeptIs == KeptRight
<1> SUFFICES ASSUME NEW t \in Seq(Token), Copied(t)
             PROVE  Kept = t
  BY DEF KeptRight
<1>1. copy.length = Len(t) /\ \A l \in Layers, q \in 0 .. Len(t) - 1 : copy.rows[l][q] = <<l, t[q + 1], q>>
  BY DEF Copied
<1> QED
  BY <1>1, ContextOfRows DEF Kept

\* The context is as before a step after which every layer holds what it held.
LEMMA HeldStays ==
  ASSUME DecoderInv, SessionInv, DecoderInv', SessionInv', resetDue' = resetDue,
         ~resetDue => \A t \in Seq(Token) : Committed(t) => Committed(t)'
  PROVE  Held' = Held
<1>1. CASE resetDue
  BY <1>1 DEF Held
<1>2. CASE ~resetDue
  <2>1. PICK t \in Seq(Token) : Committed(t)
    BY <1>2 DEF SessionInv
  <2>2. Committed(t)'
    BY <1>2, <2>1
  <2>3. Held = t
    BY <1>2, <2>1, HeldIs DEF HeldRight
  <2>4. HeldRight'
    BY HeldIs, PTL
  <2>5. Held' = t
    BY <1>2, <2>2, <2>4 DEF HeldRight
  <2> QED
    BY <2>3, <2>5
<1> QED
  BY <1>1, <1>2

\* What a call leaves that has failed, whatever it was.
LEMMA EndedSession ==
  ASSUME SessionInv, phase' = "idle", call' = call, copy' = copy, resetDue' = resetDue,
         \A l \in Layers : Owned(pools'[l], kv'[l].table),
         ~resetDue => \A t \in Seq(Token) : Committed(t) => Committed(t)'
  PROVE  SessionInv'
<1>1. \A t : Copied(t)' <=> Copied(t)
  BY DEF Copied
<1>2. (\E t \in Seq(Token) : Copied(t))'
  BY <1>1 DEF SessionInv
<1>3. ~resetDue' => (\E t \in Seq(Token) : Committed(t))'
  BY DEF SessionInv
<1>4. ~Running' /\ phase' # "chunking"
  BY DEF Running
<1> QED
  BY <1>2, <1>3, <1>4 DEF SessionInv

\* Rows that are where they were, behind tables that keep their pages.
LEMMA CommittedStays ==
  ASSUME DecoderInv, SessionInv, DecoderInv', ~resetDue,
         \A l \in Layers : kv'[l].length = kv[l].length,
         \A l \in Layers, i \in 1 .. PagesFor(CurrentLength) : kv'[l].table[i] = kv[l].table[i],
         NEW t \in Seq(Token), Committed(t),
         \A l \in Layers : Holds(l, cells'[l], kv[l].table, t)
  PROVE  Committed(t)'
<1>1. Len(t) = CurrentLength
  BY FrontLayer DEF Committed, CurrentLength
<1>2. ASSUME NEW l \in Layers
      PROVE  kv'[l].length = Len(t) /\ Holds(l, cells'[l], kv'[l].table, t)
  <2>1. kv[l].table \in Seq(Pages)
    BY Covered
  <2>2. kv'[l].table \in Seq(Pages)
    BY DEF DecoderInv, Fit, StateType
  <2>3. \A i \in 1 .. PagesFor(Len(t)) : kv'[l].table[i] = kv[l].table[i]
    BY <1>1
  <2>4. Holds(l, cells'[l], kv'[l].table, t)
    BY <2>1, <2>2, <2>3, HoldsStays
  <2> QED
    BY <2>4 DEF Committed
<1> QED
  BY <1>2 DEF Committed

----------------------------------------------------------------------------
(* The calls, once more: what they do to the pages and the rows.           *)

\* What staging every layer up to a failing one leaves of the pages.
LEMMA StagingOwns ==
  ASSUME DecoderInv, SessionInv, NEW n \in Nat, NEW failing, NEW faults, NEW l \in Layers,
         NEW out, out = StagingTo(n, failing, faults)[l]
  PROVE  /\ Owned(out.pool, out.state.table)
         /\ Len(kv[l].table) <= PagesFor(n) =>
              \A i \in 1 .. Len(kv[l].table) : out.state.table[i] = kv[l].table[i]
<1>1. Fit(pools[l], kv[l]) /\ kv[l] \in StateType /\ Owned(pools[l], kv[l].table)
  BY DEF DecoderInv, SessionInv, Fit
<1>2. \/ out = StageLength(pools[l], kv[l], n, {})
      \/ out = StageLength(pools[l], kv[l], n, faults)
      \/ out = Outcome(pools[l], kv[l], TRUE)
  BY DEF StagingTo, UpTo
<1>3. CASE \E f \in {{}, faults} : out = StageLength(pools[l], kv[l], n, f)
  BY <1>1, <1>3, StageOwns
<1>4. CASE out = Outcome(pools[l], kv[l], TRUE)
  BY <1>1, <1>4 DEF Outcome
<1> QED
  BY <1>2, <1>3, <1>4

LEMMA RolledBackOwns ==
  ASSUME NEW outcomes, NEW length \in 0 .. Capacity, NEW undo, NEW l \in Layers,
         Fit(outcomes[l].pool, outcomes[l].state), Owned(outcomes[l].pool, outcomes[l].state.table),
         NEW out, out = RolledBack(outcomes, length, undo)[l]
  PROVE  /\ Owned(out.pool, out.state.table)
         /\ \A i \in 1 .. Len(outcomes[l].state.table) :
              i <= PagesFor(length) => out.state.table[i] = outcomes[l].state.table[i]
<1>1. out = RollbackLength(outcomes[l].pool, outcomes[l].state, length, undo[l])
  BY DEF RolledBack
<1>2. outcomes[l].state \in StateType
  BY DEF Fit
<1> QED
  BY <1>1, <1>2, RollbackOwns

LEMMA FailSession ==
  ASSUME DecoderInv, SessionInv, Fail
  PROVE  SessionInv'
<1>1. /\ phase' = "idle" /\ call' = call /\ copy' = copy /\ resetDue' = resetDue
      /\ pools' = pools /\ kv' = kv /\ cells' = cells
  BY DEF Fail, cache
<1>2. \A t : Committed(t)' <=> Committed(t)
  BY <1>1 DEF Committed
<1>3. \A l \in Layers : Owned(pools'[l], kv'[l].table)
  BY <1>1 DEF SessionInv
<1> QED
  BY <1>1, <1>2, <1>3, EndedSession

\* The pages that a stage took in vain are given back, and no others.
LEMMA StagingFailsSession ==
  ASSUME DecoderInv, SessionInv, DecoderInv', phase \in {"idle", "chunking"},
         NEW n \in Nat, CurrentLength <= n, StagingFails(n)
  PROVE  SessionInv' /\ Held' = Held
<1> DEFINE staged == {StagingTo(n, failing, faults) : failing \in Layers, faults \in StageFaults}
<1>1. PICK outcomes \in staged, undo \in [Layers -> WriteFaults] :
        Become(RolledBack(outcomes, CurrentLength, undo))
  BY DEF StagingFails
<1>2. PICK failing \in Layers, faults \in StageFaults : outcomes = StagingTo(n, failing, faults)
  BY <1>1
<1>3. /\ CurrentLength \in 0 .. Capacity /\ CurrentLength \in Nat
      /\ PagesFor(CurrentLength) \in Nat /\ PagesFor(n) \in Nat
      /\ PagesFor(CurrentLength) <= PagesFor(n)
  BY BetweenCalls, PagesForIsMonotone
<1> HIDE DEF staged
<1>4. ASSUME NEW l \in Layers
      PROVE  /\ Owned(pools'[l], kv'[l].table)
             /\ ~resetDue => /\ kv'[l].length = kv[l].length
                             /\ \A i \in 1 .. PagesFor(CurrentLength) :
                                  kv'[l].table[i] = kv[l].table[i]
  <2>1. PICK mid, out : mid = outcomes[l] /\ out = RolledBack(outcomes, CurrentLength, undo)[l]
    OBVIOUS
  <2>2. mid = StagingTo(n, failing, faults)[l]
    BY <1>2, <2>1
  <2>3. /\ Fit(mid.pool, mid.state)
        /\ Len(kv[l].table) <= PagesFor(n) =>
             Len(mid.state.table) \in {Len(kv[l].table), PagesFor(n)}
    BY <2>2, StagingFits
  <2>4. /\ Owned(mid.pool, mid.state.table)
        /\ Len(kv[l].table) <= PagesFor(n) =>
             \A i \in 1 .. Len(kv[l].table) : mid.state.table[i] = kv[l].table[i]
    BY <2>2, StagingOwns
  <2>5. /\ Owned(out.pool, out.state.table)
        /\ \A i \in 1 .. Len(mid.state.table) :
             i <= PagesFor(CurrentLength) => out.state.table[i] = mid.state.table[i]
    BY <1>3, <2>1, <2>3, <2>4, RolledBackOwns
  <2>6. pools'[l] = out.pool /\ kv'[l] = out.state
    BY <1>1, <2>1 DEF Become
  <2>7. ASSUME ~resetDue
        PROVE  /\ kv'[l].length = kv[l].length
               /\ \A i \in 1 .. PagesFor(CurrentLength) : kv'[l].table[i] = kv[l].table[i]
    <3>1. kv[l].length = CurrentLength /\ Len(kv[l].table) = PagesFor(CurrentLength)
      BY <2>7, BetweenCalls
    <3>2. PagesFor(CurrentLength) <= Len(mid.state.table) /\ Len(mid.state.table) \in Nat
      BY <1>3, <2>3, <3>1
    <3>3. kv'[l].length = kv[l].length
      <4>1. mid.state.length = kv[l].length
        BY <2>2, StagingFits
      <4>2. out.state.length = mid.state.length
        BY <1>3, <2>1, <2>3, RolledBackFits
      <4> QED
        BY <2>6, <4>1, <4>2
    <3>4. ASSUME NEW i \in 1 .. PagesFor(CurrentLength)
          PROVE  kv'[l].table[i] = kv[l].table[i]
      <4>1. i \in 1 .. Len(kv[l].table) /\ i \in 1 .. Len(mid.state.table) /\ i <= PagesFor(CurrentLength)
        BY <1>3, <3>1, <3>2
      <4>2. out.state.table[i] = mid.state.table[i]
        BY <2>5, <4>1
      <4>3. mid.state.table[i] = kv[l].table[i]
        BY <1>3, <2>4, <3>1, <4>1
      <4> QED
        BY <2>6, <4>2, <4>3
    <3> QED
      BY <3>3, <3>4
  <2> QED
    BY <2>5, <2>6, <2>7
<1>5. phase' = "idle" /\ call' = call /\ copy' = copy /\ resetDue' = resetDue /\ cells' = cells
  BY DEF StagingFails
<1>6. ASSUME ~resetDue, NEW t \in Seq(Token), Committed(t)
      PROVE  Committed(t)'
  <2>1. \A l \in Layers : Holds(l, cells'[l], kv[l].table, t)
    BY <1>5, <1>6 DEF Committed
  <2> QED
    BY <1>4, <1>6, <2>1, CommittedStays
<1>7. SessionInv'
  BY <1>4, <1>5, <1>6, EndedSession
<1> QED
  BY <1>5, <1>6, <1>7, HeldStays

\* What the inputs of a stage must be for the calls that follow.
Proper(stage, count, inputs) ==
  /\ Fed(inputs, count) /\ count # 0
  /\ \A input \in inputs : /\ input.rest # <<>> => ChunkSize # 0
                           /\ stage = "decode" => input.rest = <<>>
  /\ resetDue /\ stage # "decode" => CurrentLength = 0

\* A stage that passes adds pages behind those there are.
LEMMA StageSession ==
  ASSUME DecoderInv, SessionInv, DecoderInv', phase \in {"idle", "chunking"},
         NEW stage, NEW count \in Nat, NEW inputs, Proper(stage, count, inputs),
         Stage(stage, count, inputs)
  PROVE  SessionInv' /\ Held' = Held
<1> DEFINE n == CurrentLength + count
           staged == StagingTo(n, LayerCount + 1, {})
<1>1. /\ CurrentLength \in 0 .. Capacity /\ CurrentLength \in Nat /\ n \in Nat
      /\ PagesFor(CurrentLength) \in Nat /\ PagesFor(n) \in Nat
      /\ PagesFor(CurrentLength) <= PagesFor(n)
  <2>1. CurrentLength \in 0 .. Capacity /\ CurrentLength \in Nat /\ n \in Nat /\ CurrentLength <= n
    BY BetweenCalls
  <2> HIDE DEF n
  <2> QED
    BY <2>1, PagesForIsMonotone
<1>2. AllPass(staged) /\ Become(staged)
  BY DEF Stage
<1>3. PICK input \in inputs :
        call' = [stage |-> stage, tokens |-> input.tokens, previous |-> CurrentLength,
                 rest |-> input.rest, logits |-> input.logits]
  BY DEF Stage
<1>4. /\ phase' = "staged" /\ copy' = copy /\ resetDue' = resetDue /\ cells' = cells
  BY DEF Stage
<1> HIDE DEF n
<1>5. ASSUME NEW l \in Layers
      PROVE  /\ Owned(pools'[l], kv'[l].table)
             /\ ~resetDue => /\ kv'[l].length = kv[l].length
                             /\ \A i \in 1 .. PagesFor(CurrentLength) :
                                  kv'[l].table[i] = kv[l].table[i]
  <2>1. PICK out : out = staged[l]
    OBVIOUS
  <2>2. pools'[l] = out.pool /\ kv'[l] = out.state
    BY <1>2, <2>1 DEF Become
  <2> HIDE DEF staged
  <2>3. out = StagingTo(n, LayerCount + 1, {})[l]
    BY <2>1 DEF staged
  <2>4. out.state.length = kv[l].length
    BY <1>1, <2>3, StagingFits
  <2>5. /\ Owned(out.pool, out.state.table)
        /\ Len(kv[l].table) <= PagesFor(n) =>
             \A i \in 1 .. Len(kv[l].table) : out.state.table[i] = kv[l].table[i]
    BY <1>1, <2>3, StagingOwns
  <2>6. ~resetDue => Len(kv[l].table) = PagesFor(CurrentLength)
    BY BetweenCalls
  <2> QED
    BY <1>1, <2>2, <2>4, <2>5, <2>6
<1>6. ASSUME ~resetDue, NEW t \in Seq(Token), Committed(t)
      PROVE  Committed(t)'
  <2>1. \A l \in Layers : Holds(l, cells'[l], kv[l].table, t)
    BY <1>4, <1>6 DEF Committed
  <2> QED
    BY <1>5, <1>6, <2>1, CommittedStays
<1>7. ~resetDue' => (\E t \in Seq(Token) : Committed(t))'
  BY <1>4, <1>6 DEF SessionInv
<1>8. (\E t \in Seq(Token) : Copied(t))'
  BY <1>4 DEF SessionInv, Copied
<1>9. /\ call'.tokens # <<>>
      /\ call'.stage = "decode" => call'.rest = <<>>
      /\ resetDue' /\ call'.stage # "decode" => call'.previous = 0
      /\ call'.rest # <<>> => ChunkSize # 0
  <2>1. /\ call'.stage = stage /\ call'.tokens = input.tokens /\ call'.rest = input.rest
        /\ call'.previous = CurrentLength
    BY <1>3
  <2>2. Len(input.tokens) = count /\ count # 0
    BY DEF Proper, Fed
  <2>3. input.tokens # <<>>
    BY <2>2
  <2> QED
    BY <1>4, <2>1, <2>3 DEF Proper
<1>10. SessionInv'
  BY <1>4, <1>5, <1>7, <1>8, <1>9 DEF SessionInv
<1> QED
  BY <1>4, <1>6, <1>10, HeldStays

\* The rows that a run stores, of which any may be missing, are beyond those of
\* the context.
LEMMA StoredBeyond ==
  ASSUME DecoderInv, SessionInv, Running, NEW done \in SUBSET Appended,
         NEW t \in Seq(Token), Committed(t), ~resetDue
  PROVE  \A l \in Layers : Holds(l, Stored(done)[l], kv[l].table, t)
<1> SUFFICES ASSUME NEW l \in Layers
             PROVE  Holds(l, Stored(done)[l], kv[l].table, t)
  OBVIOUS
<1>1. /\ Len(t) = CurrentLength /\ Len(t) = call.previous
      /\ kv[l].table \in Seq(Pages) /\ PagesFor(Len(t)) <= Len(kv[l].table)
  <2>1. Len(t) = kv[l].length /\ kv[l].length = call.previous
    BY DEF Committed, DecoderInv
  <2> QED
    BY <2>1, Covered
<1>2. kv[l].devTable = kv[l].table /\ kv[l].devLength = Target
  BY DEF DecoderInv, StagedLayer
<1> DEFINE positions == {q \in 0 .. Capacity - 1 : <<l, q>> \in done}
           first == kv[l].devLength - Len(call.tokens)
           content == [q \in positions |-> <<l, call.tokens[q - first + 1], q>>]
<1>3. Stored(done)[l] = Store(cells[l], kv[l].table, positions, content)
  BY <1>2 DEF Stored
<1>4. ASSUME NEW q \in positions
      PROVE  q \in Nat /\ q >= Len(t)
  <2>1. /\ Capacity \in Nat /\ call.previous \in Nat /\ Len(call.tokens) \in Nat
    BY PagedKVAssumption DEF DecoderInv
  <2>2. <<l, q>> \in Appended /\ q \in Nat
    BY <2>1
  <2>3. q >= kv[l].devLength - Len(call.tokens)
    BY <2>1, <2>2 DEF Appended
  <2> QED
    BY <1>1, <1>2, <2>1, <2>2, <2>3 DEF Target
<1>5. positions \in SUBSET Nat
  BY <1>4
<1> HIDE DEF positions, content
<1>6. Owned(pools[l], kv[l].table) /\ Holds(l, cells[l], kv[l].table, t)
  BY DEF SessionInv, Committed
<1> QED
  BY <1>1, <1>3, <1>4, <1>5, <1>6, StoreBeyond

LEMMA AdmitSession ==
  ASSUME DecoderInv, SessionInv, DecoderInv', AdmitTokenOnly
  PROVE  SessionInv' /\ Held' = Held
<1>1. /\ phase' = "admitted" /\ Running
      /\ pools' = pools /\ kv' = kv /\ call' = call /\ copy' = copy /\ resetDue' = resetDue
  BY DEF AdmitTokenOnly, Running
<1>2. PICK done \in SUBSET Appended : cells' = Stored(done)
  BY DEF AdmitTokenOnly
<1>3. ASSUME ~resetDue, NEW t \in Seq(Token), Committed(t)
      PROVE  Committed(t)'
  <2>1. \A l \in Layers : Holds(l, cells'[l], kv[l].table, t)
    BY <1>1, <1>2, <1>3, StoredBeyond
  <2> QED
    BY <1>1, <1>3, <2>1, CommittedStays
<1>4. ~resetDue' => (\E t \in Seq(Token) : Committed(t))'
  BY <1>1, <1>3 DEF SessionInv
<1>5. (\E t \in Seq(Token) : Copied(t))'
  BY <1>1 DEF SessionInv, Copied
<1>6. SessionInv'
  BY <1>1, <1>4, <1>5 DEF SessionInv, Running
<1> QED
  BY <1>1, <1>3, <1>6, HeldStays

\* A run that stores all its rows adds its tokens to what every layer holds.
LEMMA StoredAll ==
  ASSUME DecoderInv, SessionInv, Running,
         NEW t \in Seq(Token), Len(t) = call.previous,
         \A l \in Layers : Holds(l, cells[l], kv[l].table, t)
  PROVE  /\ t \o call.tokens \in Seq(Token) /\ Len(t \o call.tokens) = Target
         /\ \A l \in Layers : Holds(l, Stored(Appended)[l], kv[l].table, t \o call.tokens)
<1> DEFINE u == t \o call.tokens
<1>1. /\ call.tokens \in Seq(Token) /\ Len(call.tokens) \in Nat /\ call.previous \in Nat
      /\ Target \in 1 .. Capacity /\ Capacity \in Nat /\ Target \in Nat
  BY PagedKVAssumption DEF DecoderInv
<1>2. /\ u \in Seq(Token) /\ Len(u) = Target
      /\ \A i \in 1 .. Len(t) : u[i] = t[i]
      /\ \A i \in 1 .. Len(call.tokens) : u[Len(t) + i] = call.tokens[i]
  BY SMTT(40), <1>1 DEF Target
<1>3. ASSUME NEW l \in Layers
      PROVE  Holds(l, Stored(Appended)[l], kv[l].table, u)
  <2> DEFINE positions == {q \in 0 .. Capacity - 1 : <<l, q>> \in Appended}
             first == kv[l].devLength - Len(call.tokens)
             content == [q \in positions |-> <<l, call.tokens[q - first + 1], q>>]
  <2>1. /\ kv[l].devTable = kv[l].table /\ kv[l].devLength = Target
        /\ Len(kv[l].table) = PagesFor(Target) /\ kv[l].table \in Seq(Pages)
        /\ Owned(pools[l], kv[l].table)
    BY DEF DecoderInv, StagedLayer, SessionInv, Fit, StateType
  <2>2. Stored(Appended)[l] = Store(cells[l], kv[l].table, positions, content)
    BY <2>1 DEF Stored
  <2>3. first = call.previous
    BY <1>1, <2>1 DEF Target
  <2>4. \A q \in Nat : q \in positions <=> q >= call.previous /\ q < Target
    BY SMTT(40), <1>1, <2>1, <2>3 DEF Appended
  <2>5. positions \in SUBSET Nat
    BY <1>1
  <2>6. ASSUME NEW q \in positions
        PROVE  content[q] = <<l, call.tokens[q - call.previous + 1], q>>
    BY <2>3
  <2> HIDE DEF positions, content, u
  <2>7. ASSUME NEW q \in 0 .. Len(u) - 1
        PROVE  Store(cells[l], kv[l].table, positions, content)[SlotOf(kv[l].table, q)] = <<l, u[q + 1], q>>
    <3>1. q \in Nat /\ q < Target /\ q \in 0 .. Target - 1
      BY <1>1, <1>2
    <3>2. Mapped(kv[l].table, q)
      BY <1>1, <2>1, <3>1, CoveredIsMapped
    <3>3. Store(cells[l], kv[l].table, positions, content)[SlotOf(kv[l].table, q)]
            = IF q \in positions THEN content[q] ELSE cells[l][SlotOf(kv[l].table, q)]
      BY <2>1, <2>5, <3>1, <3>2, StoreOwned
    <3>4. CASE q >= call.previous
      <4>1. PICK i : i = q - call.previous + 1
        OBVIOUS
      <4>2. i \in 1 .. Len(call.tokens) /\ q + 1 = Len(t) + i
        BY SMTT(40), <1>1, <3>1, <3>4, <4>1 DEF Target
      <4>3. u[q + 1] = call.tokens[q - call.previous + 1]
        <5>1. u[Len(t) + i] = call.tokens[i]
          BY <1>2, <4>2
        <5> QED
          BY <4>1, <4>2, <5>1
      <4>4. q \in positions
        BY <2>4, <3>1, <3>4
      <4> QED
        BY <2>6, <3>3, <4>3, <4>4
    <3>5. CASE ~(q >= call.previous)
      <4>1. q \in 0 .. Len(t) - 1 /\ q + 1 \in 1 .. Len(t)
        BY <1>1, <3>1, <3>5
      <4>2. q \notin positions
        BY <2>4, <3>1, <3>5
      <4>3. cells[l][SlotOf(kv[l].table, q)] = <<l, t[q + 1], q>>
        BY <4>1 DEF Holds
      <4> QED
        BY <1>2, <3>3, <4>1, <4>2, <4>3
    <3> QED
      BY <3>4, <3>5
  <2> QED
    BY <2>2, <2>7 DEF Holds
<1> QED
  BY <1>2, <1>3

\* What a run that is committed makes of the context: no reset was due, or it
\* began at an empty cache.
LEMMA ExecuteCommits ==
  ASSUME DecoderInv, SessionInv, Execute, ~(resetDue /\ call.stage = "decode")
  PROVE  \E t, u \in Seq(Token) :
           /\ IF resetDue THEN t = <<>> ELSE Committed(t)
           /\ u = t \o call.tokens /\ Len(u) = Target
           /\ Committed(u)'
           /\ answer' = [said |-> "passed", on |-> u]
<1>1. Running
  BY DEF Execute, MayExecute, Running
<1>2. PICK t \in Seq(Token) :
        /\ IF resetDue THEN t = <<>> ELSE Committed(t)
        /\ Len(t) = call.previous
        /\ \A l \in Layers : Holds(l, cells[l], kv[l].table, t)
  <2>1. CASE resetDue
    <3>1. call.previous = 0
      BY <1>1, <2>1 DEF SessionInv
    <3>2. <<>> \in Seq(Token) /\ Len(<<>>) = 0
      OBVIOUS
    <3>3. \A l \in Layers : Holds(l, cells[l], kv[l].table, <<>>)
      BY DEF Holds
    <3> QED
      BY <2>1, <3>1, <3>2, <3>3
  <2>2. CASE ~resetDue
    <3>1. PICK t \in Seq(Token) : Committed(t)
      BY <2>2 DEF SessionInv
    <3>2. Len(t) = call.previous
      BY <1>1, <2>2, <3>1, FrontLayer DEF Committed, DecoderInv
    <3> QED
      BY <2>2, <3>1, <3>2 DEF Committed
  <2> QED
    BY <2>1, <2>2
<1>3. PICK u : u = t \o call.tokens
  OBVIOUS
<1>4. /\ u \in Seq(Token) /\ Len(u) = Target
      /\ \A l \in Layers : Holds(l, Stored(Appended)[l], kv[l].table, u)
  BY <1>1, <1>2, <1>3, StoredAll
<1> DEFINE rows == [l \in Layers |-> RowsOf(cells'[l], kv[l].devTable, kv[l].devLength)]
<1>5. /\ cells' = Stored(Appended)
      /\ kv' = [l \in Layers |-> CommitLength(kv[l], Target)]
      /\ answer' = [said |-> "passed", on |-> Context(Target, rows)]
  BY DEF Execute, Target
<1>6. ASSUME NEW l \in Layers
      PROVE  kv'[l].length = Len(u) /\ kv'[l].table = kv[l].table
  <2>1. kv[l] \in StateType
    BY DEF DecoderInv, Fit
  <2>2. kv'[l] = [kv[l] EXCEPT !.length = Target]
    BY <1>5 DEF CommitLength
  <2> QED
    BY <1>4, <2>1, <2>2 DEF StateType
<1>7. Committed(u)'
  BY <1>4, <1>5, <1>6 DEF Committed
<1>8. Context(Len(u), rows) = u
  <2>1. ASSUME NEW l \in Layers
        PROVE  /\ kv[l].table \in Seq(Pages) /\ PagesFor(Len(u)) <= Len(kv[l].table)
               /\ Holds(l, cells'[l], kv[l].table, u)
               /\ rows[l] = RowsOf(cells'[l], kv[l].table, Len(u))
    <3>1. /\ kv[l].devTable = kv[l].table /\ kv[l].devLength = Target
          /\ Len(kv[l].table) = PagesFor(Target) /\ kv[l].table \in Seq(Pages)
      BY <1>1 DEF DecoderInv, StagedLayer, Fit, StateType
    <3>2. PagesFor(Target) \in Nat
      <4>1. Target \in Nat
        BY <1>4
      <4> QED
        BY <4>1, PagesForIsMonotone
    <3> QED
      BY <1>4, <1>5, <3>1, <3>2
  <2> HIDE DEF rows
  <2> QED
    BY <1>4, <2>1, ContextHeld
<1>9. answer' = [said |-> "passed", on |-> u]
  BY <1>4, <1>5, <1>8
<1> QED
  BY <1>2, <1>3, <1>4, <1>7, <1>9

LEMMA ExecuteSession ==
  ASSUME DecoderInv, SessionInv, Execute
  PROVE  SessionInv'
<1>1. /\ pools' = pools /\ call' = call /\ copy' = copy
      /\ kv' = [l \in Layers |-> CommitLength(kv[l], Target)]
      /\ phase' = IF call.rest = <<>> THEN "idle" ELSE "chunking"
      /\ resetDue' = (resetDue /\ call.stage = "decode")
      /\ Running
  BY DEF Execute, Target, MayExecute, Running
<1>2. ASSUME NEW l \in Layers
      PROVE  kv'[l].table = kv[l].table
  <2>1. kv[l] \in StateType
    BY DEF DecoderInv, Fit
  <2>2. kv'[l] = [kv[l] EXCEPT !.length = Target]
    BY <1>1 DEF CommitLength
  <2> QED
    BY <2>1, <2>2 DEF StateType
<1>3. \A l \in Layers : Owned(pools'[l], kv'[l].table)
  BY <1>1, <1>2 DEF SessionInv
<1>4. (\E t \in Seq(Token) : Copied(t))'
  BY <1>1 DEF SessionInv, Copied
<1>5. ~resetDue' => (\E t \in Seq(Token) : Committed(t))'
  BY <1>1, ExecuteCommits
<1>6. phase' = "chunking" => ~resetDue' /\ call'.rest # <<>>
  BY <1>1 DEF SessionInv
<1>7. ~Running' /\ phase' \in {"idle", "chunking", "staged", "admitted"}
  BY <1>1 DEF Running
<1>8. call'.rest # <<>> => ChunkSize # 0
  BY <1>1 DEF SessionInv
<1> QED
  BY <1>3, <1>4, <1>5, <1>6, <1>7, <1>8 DEF SessionInv

\* A run that fails has stored rows beyond the context, and its roll back keeps
\* the pages of the context.
LEMMA ExecuteFailsSession ==
  ASSUME DecoderInv, SessionInv, DecoderInv', ExecuteFails
  PROVE  SessionInv' /\ Held' = Held
<1>1. PICK staged : staged = [l \in Layers |-> Outcome(pools[l], kv[l], TRUE)]
  OBVIOUS
<1>2. /\ \E undo \in [Layers -> WriteFaults] : Become(RolledBack(staged, call.previous, undo))
      /\ \E done \in SUBSET Appended : cells' = Stored(done)
  BY <1>1 DEF ExecuteFails
<1>3. PICK undo \in [Layers -> WriteFaults] : Become(RolledBack(staged, call.previous, undo))
  BY <1>2
<1>4. PICK done \in SUBSET Appended : cells' = Stored(done)
  BY <1>2
<1>5. Running
  BY DEF ExecuteFails, MayExecute, Running
<1>6. /\ call.previous \in 0 .. Capacity /\ call.previous \in Nat /\ Target \in Nat
      /\ call.previous <= Target
  <2>1. call.previous \in 0 .. Capacity /\ Len(call.tokens) \in Nat
    BY DEF DecoderInv
  <2> QED
    BY <2>1, PagedKVAssumption DEF Target
<1>7. PagesFor(call.previous) \in Nat /\ PagesFor(Target) \in Nat /\ PagesFor(call.previous) <= PagesFor(Target)
  BY <1>6, PagesForIsMonotone
<1>8. ASSUME NEW l \in Layers
      PROVE  /\ Owned(pools'[l], kv'[l].table)
             /\ kv'[l].length = kv[l].length
             /\ \A i \in 1 .. PagesFor(call.previous) : kv'[l].table[i] = kv[l].table[i]
  <2>1. PICK out : out = RolledBack(staged, call.previous, undo)[l]
    OBVIOUS
  <2>2. staged[l].pool = pools[l] /\ staged[l].state = kv[l]
    BY <1>1 DEF Outcome
  <2>3. /\ Fit(staged[l].pool, staged[l].state) /\ Owned(staged[l].pool, staged[l].state.table)
        /\ Len(kv[l].table) = PagesFor(Target)
    BY <1>5, <2>2 DEF DecoderInv, StagedLayer, SessionInv
  <2>4. pools'[l] = out.pool /\ kv'[l] = out.state
    BY <1>3, <2>1 DEF Become
  <2>5. out.state.length = kv[l].length
    <3>1. call.previous \in 0 .. Capacity /\ Fit(staged[l].pool, staged[l].state)
      BY <1>6, <2>3
    <3>2. out.state.length = staged[l].state.length
      BY <2>1, <3>1, RolledBackFits
    <3> QED
      BY <2>2, <3>2
  <2>6. /\ Owned(out.pool, out.state.table)
        /\ \A i \in 1 .. Len(staged[l].state.table) :
              i <= PagesFor(call.previous) => out.state.table[i] = staged[l].state.table[i]
    BY SMTT(40), <1>6, <2>1, <2>3, RolledBackOwns
  <2> QED
    BY <1>7, <2>2, <2>3, <2>4, <2>5, <2>6
<1>9. phase' = "idle" /\ call' = call /\ copy' = copy /\ resetDue' = resetDue
  BY DEF ExecuteFails
<1>10. ASSUME ~resetDue, NEW t \in Seq(Token), Committed(t)
       PROVE  Committed(t)'
  <2>1. \A l \in Layers : Holds(l, cells'[l], kv[l].table, t)
    BY <1>4, <1>5, <1>10, StoredBeyond
  <2>2. CurrentLength = call.previous
    BY <1>5, <1>10, FrontLayer DEF DecoderInv, CurrentLength
  <2>3. \A l \in Layers, i \in 1 .. PagesFor(CurrentLength) : kv'[l].table[i] = kv[l].table[i]
    BY <1>8, <2>2
  <2> QED
    BY <1>8, <1>10, <2>1, <2>3, CommittedStays
<1>11. SessionInv'
  BY <1>8, <1>9, <1>10, EndedSession
<1> QED
  BY <1>9, <1>10, <1>11, HeldStays

LEMMA UpToResetOwns ==
  ASSUME DecoderInv, SessionInv, NEW failing, NEW faults, NEW l \in Layers,
         NEW out, out = UpTo(failing, faults, Reset)[l]
  PROVE  Owned(out.pool, out.state.table)
<1>1. Owned(pools[l], kv[l].table) /\ kv[l] \in StateType
  BY DEF DecoderInv, SessionInv, Fit
<1>2. \/ out = Reset(pools[l], kv[l], {})
      \/ out = Reset(pools[l], kv[l], faults)
      \/ out = Outcome(pools[l], kv[l], TRUE)
  BY DEF UpTo
<1>3. CASE \E f \in {{}, faults} : out = Reset(pools[l], kv[l], f)
  BY <1>1, <1>3, ResetOwns
<1>4. CASE out = Outcome(pools[l], kv[l], TRUE)
  BY <1>1, <1>4 DEF Outcome
<1> QED
  BY <1>2, <1>3, <1>4

\* No row is left of a context of which there is none.
LEMMA CommittedNothing ==
  ASSUME \A l \in Layers : kv'[l].length = 0
  PROVE  Committed(<<>>)' /\ <<>> \in Seq(Token)
BY DEF Committed, Holds

LEMMA ResetSession ==
  ASSUME DecoderInv, SessionInv, DecoderInv', ResetCache
  PROVE  SessionInv' /\ Held' = <<>>
<1>1. /\ phase = "idle" /\ phase' = "idle" /\ call' = call /\ copy' = copy
  BY DEF ResetCache
<1>2. PICK failing, faults :
        /\ Become(UpTo(failing, faults, Reset))
        /\ \/ failing = LayerCount + 1 /\ faults = {} /\ resetDue' = FALSE
           \/ resetDue' = TRUE
  BY DEF ResetCache
<1>3. \A l \in Layers : Owned(pools'[l], kv'[l].table)
  <2> TAKE l \in Layers
  <2>1. PICK out : out = UpTo(failing, faults, Reset)[l]
    OBVIOUS
  <2>2. pools'[l] = out.pool /\ kv'[l] = out.state
    BY <1>2, <2>1 DEF Become
  <2> QED
    BY <2>1, <2>2, UpToResetOwns
<1>4. ASSUME resetDue' = FALSE
      PROVE  Committed(<<>>)' /\ <<>> \in Seq(Token)
  <2>1. ASSUME NEW l \in Layers  PROVE  kv'[l].length = 0
    <3>1. PICK out : out = UpTo(failing, faults, Reset)[l]
      OBVIOUS
    <3>2. out = Reset(pools[l], kv[l], {})
      BY <1>2, <1>4, <3>1, FrontLayer DEF UpTo
    <3>3. kv'[l] = out.state
      BY <1>2, <3>1 DEF Become
    <3>4. Fit(pools[l], kv[l])
      BY DEF DecoderInv
    <3>5. out.state = NewState
      BY <3>2, <3>4, ResetFits
    <3> QED
      BY <3>3, <3>5 DEF NewState
  <2> QED
    BY <2>1, CommittedNothing
<1>5. (\E t \in Seq(Token) : Copied(t))'
  BY <1>1 DEF SessionInv, Copied
<1>6. ~Running' /\ phase' # "chunking" /\ (call'.rest # <<>> => ChunkSize # 0)
  BY <1>1 DEF Running, SessionInv
<1>7. resetDue' \in BOOLEAN
  BY <1>2
<1>8. SessionInv'
  <2>1. ~resetDue' => (\E t \in Seq(Token) : Committed(t))'
    BY <1>4, <1>7
  <2> QED
    BY <1>1, <1>3, <1>5, <1>6, <2>1 DEF SessionInv
<1>9. HeldRight'
  BY <1>8, HeldIs, PTL
<1>10. CASE resetDue' = TRUE
  BY <1>8, <1>10 DEF Held
<1>11. CASE resetDue' = FALSE
  BY <1>4, <1>8, <1>9, <1>11 DEF HeldRight
<1> QED
  BY <1>7, <1>8, <1>10, <1>11

\* The copy that a caller takes is of the context.
LEMMA SnapshotSession ==
  ASSUME DecoderInv, SessionInv, DecoderInv', Snapshot
  PROVE  SessionInv' /\ Held' = Held /\ Held # <<>> /\ Kept' = Held
<1>1. /\ pools' = pools /\ kv' = kv /\ cells' = cells /\ phase' = phase /\ call' = call
      /\ resetDue' = resetDue /\ phase = "idle" /\ ~resetDue /\ CurrentLength # 0
  BY DEF Snapshot, cache
<1>2. PICK t \in Seq(Token) : Committed(t)
  BY <1>1 DEF SessionInv
<1>3. Held = t /\ Len(t) = CurrentLength
  BY <1>1, <1>2, HeldIs DEF HeldRight
<1>4. Copied(t)'
  <2> DEFINE rows == [l \in Layers |-> RowsOf(cells[l], kv[l].table, kv[l].length)]
  <2>1. copy' = [length |-> CurrentLength, rows |-> rows]
    BY DEF Snapshot
  <2>2. ASSUME NEW l \in Layers, NEW q \in 0 .. Len(t) - 1
        PROVE  rows[l][q] = <<l, t[q + 1], q>>
    <3>1. /\ kv[l].table \in Seq(Pages) /\ PagesFor(Len(t)) <= Len(kv[l].table)
          /\ Holds(l, cells[l], kv[l].table, t) /\ kv[l].length = Len(t)
      BY <1>1, <1>2, <1>3, Covered DEF Committed
    <3>2. RowsOf(cells[l], kv[l].table, Len(t))[q] = <<l, t[q + 1], q>>
      BY <3>1, RowsRead
    <3> QED
      BY <3>1, <3>2
  <2> HIDE DEF rows
  <2>3. copy'.length = Len(t) /\ copy'.rows = rows
    BY <1>3, <2>1
  <2> QED
    BY <2>2, <2>3 DEF Copied
<1>5. Committed(t)'
  BY <1>1, <1>2 DEF Committed
<1>6. SessionInv'
  <2>1. (\E s \in Seq(Token) : Copied(s))' /\ (\E s \in Seq(Token) : Committed(s))'
    BY <1>4, <1>5
  <2>2. ~Running'
    BY <1>1 DEF Running
  <2> QED
    BY <1>1, <2>1, <2>2 DEF SessionInv
<1>7. HeldRight'
  BY <1>6, HeldIs, PTL
<1>8. Held' = t
  BY <1>1, <1>5, <1>7 DEF HeldRight
<1>9. Kept' = t
  <2>1. KeptRight'
    BY KeptIs, PTL
  <2> QED
    BY <1>4, <2>1 DEF KeptRight
<1>10. t # <<>>
  BY <1>1, <1>3
<1> QED
  BY <1>3, <1>6, <1>8, <1>9, <1>10

LEMMA RestoringOwns ==
  ASSUME DecoderInv, SessionInv, NEW failing, NEW faults, NEW undo, NEW l \in Layers,
         NEW out, out = RestoredTo(failing, faults, undo)[l]
  PROVE  Owned(out.pool, out.state.table)
<1>1. Fit(pools[l], kv[l]) /\ Owned(pools[l], kv[l].table) /\ copy.length \in Nat
  BY PagedKVAssumption DEF DecoderInv, SessionInv
<1>2. \/ out = Restore(pools[l], kv[l], copy.length, {}, undo)
      \/ out = Restore(pools[l], kv[l], copy.length, faults, undo)
      \/ out = Outcome(pools[l], kv[l], TRUE)
  BY DEF RestoredTo, UpTo
<1>3. CASE \E f \in {{}, faults} : out = Restore(pools[l], kv[l], copy.length, f, undo)
  BY <1>1, <1>3, RestoreOwns
<1>4. CASE out = Outcome(pools[l], kv[l], TRUE)
  BY <1>1, <1>4 DEF Outcome
<1> QED
  BY <1>2, <1>3, <1>4

\* The rows of a prefix, stored through the table that was staged for it.
LEMMA PrefixHeld ==
  ASSUME NEW pool, NEW table \in Seq(Pages), Owned(pool, table),
         NEW l, NEW t \in Seq(Token), PagesFor(Len(t)) <= Len(table),
         NEW content, \A q \in 0 .. Len(t) - 1 : content[q] = <<l, t[q + 1], q>>, NEW stored
  PROVE  Holds(l, Store(stored, table, 0 .. Len(t) - 1, content), table, t)
<1> SUFFICES ASSUME NEW q \in 0 .. Len(t) - 1
             PROVE  Store(stored, table, 0 .. Len(t) - 1, content)[SlotOf(table, q)]
                      = <<l, t[q + 1], q>>
  BY DEF Holds
<1>1. q \in Nat /\ Len(t) \in Nat /\ q < Len(t) /\ 0 .. Len(t) - 1 \in SUBSET Nat
  OBVIOUS
<1>2. Mapped(table, q)
  BY <1>1, CoveredIsMapped
<1>3. Store(stored, table, 0 .. Len(t) - 1, content)[SlotOf(table, q)]
        = IF q \in 0 .. Len(t) - 1 THEN content[q] ELSE stored[SlotOf(table, q)]
  BY <1>1, <1>2, StoreOwned
<1> QED
  BY <1>3

\* What every layer holds after a restore that passes is the copy.
LEMMA RestoredCommits ==
  ASSUME DecoderInv, SessionInv, NEW t \in Seq(Token), Copied(t),
         NEW all, all = RestoredTo(LayerCount + 1, {}, {}), AllPass(all), Become(all),
         cells' = RowsWritten(LayerCount + 1, 0)
  PROVE  Committed(t)'
<1>1. copy.length = Len(t) /\ copy.length \in Nat
  BY PagedKVAssumption DEF Copied, DecoderInv
<1>2. ASSUME NEW l \in Layers
      PROVE  kv'[l].length = Len(t) /\ Holds(l, cells'[l], kv'[l].table, t)
  <2>1. PICK out, staged :
          /\ out = all[l]
          /\ staged = StageLength(pools[l], kv[l], copy.length, {}).state.table
    OBVIOUS
  <2>2. l < LayerCount + 1
    BY FrontLayer
  <2>3. /\ out = Restore(pools[l], kv[l], copy.length, {}, {})
        /\ out.ok /\ kv'[l] = out.state
    BY <2>1, <2>2 DEF RestoredTo, UpTo, AllPass, Become
  <2>4. Fit(pools[l], kv[l]) /\ Owned(pools[l], kv[l].table)
    BY DEF DecoderInv, SessionInv
  <2>5. Owned(out.pool, out.state.table) /\ out.state.table = staged
    BY <1>1, <2>1, <2>3, <2>4, RestoreOwns
  <2>6. /\ Fit(out.pool, out.state) /\ out.state.length = Len(t)
        /\ Len(out.state.table) = PagesFor(Len(t))
    BY <1>1, <2>3, <2>4, RestoreFits
  <2>7. out.state.table \in Seq(Pages) /\ PagesFor(Len(t)) <= Len(out.state.table)
    BY <1>1, <2>6, PagesForIsMonotone DEF Fit, StateType
  <2>8. cells'[l] = Store(cells[l], out.state.table, 0 .. Len(t) - 1, copy.rows[l])
    BY <1>1, <2>1, <2>2, <2>5 DEF RowsWritten
  <2>9. \A q \in 0 .. Len(t) - 1 : copy.rows[l][q] = <<l, t[q + 1], q>>
    BY DEF Copied
  <2>10. PICK table \in Seq(Pages) : table = out.state.table
    BY <2>7
  <2>11. Holds(l, cells'[l], table, t)
    BY <2>5, <2>7, <2>8, <2>9, <2>10, PrefixHeld
  <2> QED
    BY <2>3, <2>6, <2>10, <2>11
<1> QED
  BY <1>2 DEF Committed

\* A restore brings the copy back or leaves a reset due.
LEMMA RestoreSession ==
  ASSUME DecoderInv, SessionInv, DecoderInv', RestoreCache
  PROVE  /\ SessionInv'
         /\ \/ answer' = Said("done") /\ resetDue' = FALSE /\ Held = <<>> /\ Kept # <<>> /\ Held' = Kept
            \/ answer' = Said("error") /\ resetDue' = TRUE /\ Held' = <<>>
<1>1. /\ phase = "idle" /\ phase' = "idle" /\ call' = call /\ copy' = copy
      /\ copy.length # 0 /\ CurrentLength = 0
  BY DEF RestoreCache
<1>2. (\E t \in Seq(Token) : Copied(t))'
  BY <1>1 DEF SessionInv, Copied
<1>3. ~Running' /\ phase' # "chunking" /\ (call'.rest # <<>> => ChunkSize # 0)
  BY <1>1 DEF Running, SessionInv
<1>4. PICK t \in Seq(Token) : Copied(t)
  BY DEF SessionInv
<1>5. Kept = t /\ Kept # <<>>
  <2>1. Kept = t
    BY <1>4, KeptIs DEF KeptRight
  <2>2. Len(t) # 0
    BY <1>1, <1>4 DEF Copied
  <2> QED
    BY <2>1, <2>2
<1>6. Held = <<>>
  <2>1. CASE resetDue
    BY <2>1 DEF Held
  <2>2. CASE ~resetDue
    <3>1. PICK s \in Seq(Token) : Committed(s)
      BY <2>2 DEF SessionInv
    <3>2. Held = s /\ Len(s) = 0
      BY <1>1, <2>2, <3>1, HeldIs DEF HeldRight
    <3> QED
      BY <3>2
  <2> QED
    BY <2>1, <2>2
<1>7. PICK all : all = RestoredTo(LayerCount + 1, {}, {})
  OBVIOUS
<1>8. CASE /\ AllPass(all) /\ Become(all) /\ cells' = RowsWritten(LayerCount + 1, 0)
           /\ answer' = Said("done") /\ resetDue' = FALSE
  <2>1. Committed(t)'
    BY <1>4, <1>7, <1>8, RestoredCommits
  <2>2. \A l \in Layers : Owned(pools'[l], kv'[l].table)
    <3> TAKE l \in Layers
    <3>1. PICK out : out = all[l]
      OBVIOUS
    <3>2. Owned(out.pool, out.state.table)
      BY <1>7, <3>1, RestoringOwns
    <3> QED
      BY <1>8, <3>1, <3>2 DEF Become
  <2>3. SessionInv'
    BY <1>1, <1>2, <1>3, <2>1, <2>2 DEF SessionInv
  <2>4. HeldRight'
    BY <2>3, HeldIs, PTL
  <2>5. Held' = t
    BY <1>8, <2>1, <2>4 DEF HeldRight
  <2> QED
    BY <1>5, <1>6, <1>8, <2>3, <2>5
<1>9. CASE /\ answer' = Said("error") /\ resetDue' = TRUE
           /\ \E failing \in Layers,
                 faults \in {{"table"}, {"length"}, {"length", "rewrite"}, {"prefix"}} :
                 \E outcomes \in ResetAfter(failing, faults) : Become(outcomes)
  <2>1. PICK failing \in Layers,
             faults \in {{"table"}, {"length"}, {"length", "rewrite"}, {"prefix"}} :
             \E outcomes \in ResetAfter(failing, faults) : Become(outcomes)
    BY <1>9
  <2>2. PICK outcomes \in ResetAfter(failing, faults) : Become(outcomes)
    BY <2>1
  <2>3. PICK after \in {RestoredTo(failing, faults, undo) : undo \in WriteFaults},
             resets \in [Layers -> WriteFaults] :
          outcomes = [l \in Layers |-> Reset(after[l].pool, after[l].state, resets[l])]
    BY <2>2 DEF ResetAfter
  <2>4. PICK undo \in WriteFaults : after = RestoredTo(failing, faults, undo)
    BY <2>3
  <2>5. ASSUME NEW l \in Layers  PROVE  Owned(pools'[l], kv'[l].table)
    <3>1. PICK mid, out : mid = after[l] /\ out = outcomes[l]
      OBVIOUS
    <3>2. Fit(mid.pool, mid.state) /\ Owned(mid.pool, mid.state.table)
      BY <2>4, <3>1, RestoringFits, RestoringOwns
    <3>3. out = Reset(mid.pool, mid.state, resets[l])
      BY <2>3, <3>1
    <3>4. Owned(out.pool, out.state.table)
      BY <3>2, <3>3, ResetOwns DEF Fit
    <3> QED
      BY <2>2, <3>1, <3>4 DEF Become
  <2>6. SessionInv'
    BY <1>1, <1>2, <1>3, <1>9, <2>5 DEF SessionInv
  <2> QED
    BY <1>9, <2>6 DEF Held
<1> QED
  BY <1>7, <1>8, <1>9 DEF RestoreCache

LEMMA StutterSession ==
  ASSUME SessionInv, UNCHANGED vars
  PROVE  /\ SessionInv'
         /\ Held' = Held /\ Kept' = Kept /\ call'.tokens = call.tokens
         /\ answer' = answer /\ resetDue' = resetDue
<1>1. /\ pools' = pools /\ kv' = kv /\ cells' = cells /\ phase' = phase /\ call' = call
      /\ answer' = answer /\ copy' = copy /\ resetDue' = resetDue
  BY DEF vars
<1>2. \A t : (Committed(t)' <=> Committed(t)) /\ (Copied(t)' <=> Copied(t))
  BY <1>1 DEF Committed, Copied
<1>3. SessionInv'
  BY <1>1, <1>2 DEF SessionInv, Running
<1> QED
  BY <1>1, <1>3 DEF Held, Kept, CurrentLength

LEMMA InitSession ==
  ASSUME Init
  PROVE  /\ DecoderInv /\ SessionInv
         /\ Held = <<>> /\ Kept = <<>> /\ call.tokens = <<>>
         /\ answer = Said("nothing") /\ resetDue = FALSE
<1>1. /\ \A l \in Layers : pools[l] = NewPool /\ kv[l] = NewState
      /\ phase = "idle" /\ call.tokens = <<>> /\ call.rest = <<>>
      /\ copy.length = 0 /\ answer = Said("nothing") /\ resetDue = FALSE
  BY DEF Init, NoCall
<1>2. NewState.table = <<>> /\ NewState.length = 0
  BY DEF NewState
<1>3. Owned(NewPool, <<>>)
  BY NewPoolSound DEF Owned, Alone
<1>4. Committed(<<>>) /\ Copied(<<>>) /\ <<>> \in Seq(Token)
  BY <1>1, <1>2 DEF Committed, Copied, Holds
<1>5. DecoderInv /\ SessionInv
  <2>1. DecoderInv
    BY InitFits
  <2>2. SessionInv
    BY <1>1, <1>2, <1>3, <1>4 DEF SessionInv, Running
  <2> QED
    BY <2>1, <2>2
<1>6. Held = <<>> /\ Kept = <<>>
  <2>1. HeldRight
    BY <1>5, HeldIs
  <2> QED
    BY <1>1, <1>4, <2>1, KeptIs DEF HeldRight, KeptRight
<1> QED
  BY <1>1, <1>5, <1>6

----------------------------------------------------------------------------
(* Every step is one of the session's.                                     *)

SessionStep ==
  \/ Session!Next
  \/ Held' = Held /\ resetDue' = resetDue /\ call'.tokens = call.tokens
     /\ answer' = answer /\ Kept' = Kept

LEMMA KeptStays ==
  ASSUME copy' = copy
  PROVE  Kept' = Kept
BY DEF Kept

LEMMA SessionFails ==
  ASSUME Held' = Held, resetDue' = resetDue, call' = call, copy' = copy, answer' = Said("error")
  PROVE  Session!Fail
<1>1. Kept' = Kept
  BY KeptStays
<1> QED
  BY <1>1 DEF Session!Fail, Session!Said, Said, Held, Kept

\* The tokens of a run are one of the session's contexts.
LEMMA RunIsAContext ==
  DecoderInv /\ Running => call.tokens \in Session!Contexts
<1> SUFFICES ASSUME DecoderInv, Running
             PROVE  call.tokens \in Session!Contexts
  OBVIOUS
<1>1. /\ call.tokens \in Seq(Token) /\ Len(call.tokens) \in Nat
      /\ call.previous \in Nat /\ Target \in 1 .. Capacity /\ Capacity \in Nat
  BY PagedKVAssumption DEF DecoderInv
<1>2. Len(call.tokens) \in 0 .. Capacity
  BY <1>1 DEF Target
<1>3. call.tokens \in [1 .. Len(call.tokens) -> Token]
  BY <1>1
<1> QED
  BY <1>2, <1>3 DEF Session!Contexts

LEMMA RunSteps ==
  ASSUME DecoderInv, SessionInv, DecoderInv', phase \in {"idle", "chunking"},
         NEW stage, NEW count \in Nat, NEW inputs, Proper(stage, count, inputs),
         Run(stage, count, inputs)
  PROVE  SessionInv' /\ SessionStep
<1>1. CurrentLength \in Nat /\ CurrentLength + count \in Nat /\ CurrentLength <= CurrentLength + count
  BY BetweenCalls
<1>2. CASE Fail
  <2>1. SessionInv'
    BY <1>2, FailSession
  <2>2. /\ resetDue' = resetDue /\ call' = call /\ copy' = copy /\ answer' = Said("error")
        /\ kv' = kv /\ cells' = cells
    BY <1>2 DEF Fail, cache
  <2>3. Held' = Held
    BY <2>2 DEF Held, CurrentLength
  <2> QED
    BY <2>1, <2>2, <2>3, SessionFails DEF SessionStep, Session!Next
<1>3. CASE StagingFails(CurrentLength + count)
  <2>1. SessionInv' /\ Held' = Held
    BY <1>1, <1>3, StagingFailsSession
  <2>2. resetDue' = resetDue /\ call' = call /\ copy' = copy /\ answer' = Said("error")
    BY <1>3 DEF StagingFails
  <2> QED
    BY <2>1, <2>2, SessionFails DEF SessionStep, Session!Next
<1>4. CASE Stage(stage, count, inputs)
  <2>1. SessionInv' /\ Held' = Held
    BY <1>4, StageSession
  <2>2. resetDue' = resetDue /\ copy' = copy /\ answer' = answer /\ Running'
    BY <1>4 DEF Stage, Running
  <2>3. Kept' = Kept
    BY <2>2, KeptStays
  <2>4. (call.tokens \in Session!Contexts)'
    <3>1. (DecoderInv /\ Running => call.tokens \in Session!Contexts)'
      BY RunIsAContext, PTL
    <3> QED
      BY <2>2, <3>1
  <2>5. Session!Ask
    BY <2>1, <2>2, <2>3, <2>4 DEF Session!Ask, Session!Contexts, Held, Kept
  <2> QED
    BY <2>1, <2>5 DEF SessionStep, Session!Next
<1> QED
  BY <1>2, <1>3, <1>4 DEF Run

\* A call that takes its inputs whole leaves no chunk for later.
LEMMA InputsAreProper ==
  ASSUME NEW stage, NEW count \in Nat, count # 0, NEW without,
         stage = "decode" \/ CurrentLength = 0
  PROVE  Proper(stage, count, Inputs(count, without))
<1>1. \A input \in Inputs(count, without) : input.rest = <<>>
  BY DEF Inputs
<1> QED
  BY <1>1, InputsAreFed DEF Proper

LEMMA PrefillSteps ==
  ASSUME DecoderInv, SessionInv, DecoderInv', Prefill
  PROVE  SessionInv' /\ SessionStep
<1>1. PrefillLength \in Nat /\ PrefillLength # 0
  <2>1. PrefillLength \in 1 .. Capacity
    BY PagedDecoderAssumption, Zenon
  <2> QED
    BY <2>1, Sizes
<1>2. /\ phase = "idle" /\ CurrentLength = 0
      /\ Run("prefill", PrefillLength, Inputs(PrefillLength, "prefill without logits"))
  BY DEF Prefill
<1>3. Proper("prefill", PrefillLength, Inputs(PrefillLength, "prefill without logits"))
  BY <1>1, <1>2, InputsAreProper
<1> QED
  BY <1>1, <1>2, <1>3, RunSteps

LEMMA DecodeSteps ==
  ASSUME DecoderInv, SessionInv, DecoderInv', Decode
  PROVE  SessionInv' /\ SessionStep
<1>1. phase = "idle" /\ Run("decode", 1, Inputs(1, "decode without logits"))
  BY DEF Decode
<1>2. Proper("decode", 1, Inputs(1, "decode without logits"))
  <2>1. PICK one : one = 1
    OBVIOUS
  <2>2. one \in Nat /\ one # 0
    BY <2>1
  <2>3. Proper("decode", one, Inputs(one, "decode without logits"))
    BY <2>2, InputsAreProper
  <2> QED
    BY <2>1, <2>3
<1> QED
  BY <1>1, <1>2, RunSteps

LEMMA PrefillChunkedSteps ==
  ASSUME DecoderInv, SessionInv, DecoderInv', PrefillChunked
  PROVE  SessionInv' /\ SessionStep
<1> DEFINE inputs == {Chunk(tokens, ChunkSize) : tokens \in [1 .. PrefillLength -> Token]}
<1>1. PrefillLength \in Nat /\ ChunkSize \in Nat /\ ChunkSize <= PrefillLength
  BY Sizes
<1>2. ASSUME NEW tokens \in [1 .. PrefillLength -> Token]
      PROVE  Fed({Chunk(tokens, ChunkSize)}, ChunkSize)
  <2>1. tokens \in Seq(Token) /\ Len(tokens) = PrefillLength
    BY <1>1
  <2>2. ChunkSize \in 0 .. Len(tokens)
    BY <1>1, <2>1
  <2> QED
    BY <2>1, <2>2, ChunkIsFed
<1>3. Fed(inputs, ChunkSize)
  BY <1>2 DEF Fed
<1>4. /\ phase = "idle" /\ CurrentLength = 0 /\ ChunkSize # 0
      /\ Run("chunk", ChunkSize, inputs)
  BY DEF PrefillChunked
<1> HIDE DEF inputs
<1>5. Proper("chunk", ChunkSize, inputs)
  BY <1>3, <1>4 DEF Proper
<1> QED
  BY <1>1, <1>4, <1>5, RunSteps

\* No chunk is left to run after a reset that failed.
LEMMA NextChunkSteps ==
  ASSUME DecoderInv, SessionInv, DecoderInv', NextChunk
  PROVE  SessionInv' /\ SessionStep
<1> DEFINE count == IF ChunkSize < Len(call.rest) THEN ChunkSize ELSE Len(call.rest)
           inputs == {Chunk(call.rest, count)}
<1>1. call.rest \in Seq(Token) /\ Len(call.rest) \in Nat
  BY DEF DecoderInv
<1>2. ChunkSize \in Nat
  BY Sizes
<1>3. Run("chunk", count, inputs) /\ phase = "chunking"
  BY DEF NextChunk
<1>4. ~resetDue /\ call.rest # <<>> /\ ChunkSize # 0
  BY <1>3 DEF SessionInv
<1>5. count \in 0 .. Len(call.rest) /\ count \in Nat /\ count # 0
  BY <1>1, <1>2, <1>4
<1> HIDE DEF count
<1>6. Fed(inputs, count)
  BY <1>1, <1>5, ChunkIsFed
<1> HIDE DEF inputs
<1>7. Proper("chunk", count, inputs)
  BY <1>4, <1>5, <1>6 DEF Proper
<1> QED
  BY <1>3, <1>5, <1>7, RunSteps

\* A run that is committed extends the context by its tokens, unless it is a
\* decode after a reset that failed.
LEMMA ExecuteSteps ==
  ASSUME DecoderInv, SessionInv, DecoderInv', Execute
  PROVE  SessionInv' /\ SessionStep
<1>1. SessionInv'
  BY ExecuteSession
<1>2. /\ Running /\ call' = call /\ copy' = copy
      /\ resetDue' = (resetDue /\ call.stage = "decode")
      /\ answer'.said = "passed"
  BY DEF Execute, MayExecute, Running
<1>3. Kept' = Kept
  BY <1>2, KeptStays
<1>4. CASE resetDue /\ call.stage = "decode"
  <2>1. Held = <<>> /\ Held' = <<>> /\ resetDue' = TRUE
    BY <1>2, <1>4 DEF Held
  <2>2. Session!Stray
    BY <1>2, <1>3, <1>4, <2>1 DEF Session!Stray, Held, Kept
  <2> QED
    BY <1>1, <2>2 DEF SessionStep, Session!Next
<1>5. CASE ~(resetDue /\ call.stage = "decode")
  <2>1. PICK t, u \in Seq(Token) :
           /\ IF resetDue THEN t = <<>> ELSE Committed(t)
           /\ u = t \o call.tokens /\ Len(u) = Target
           /\ Committed(u)'
           /\ answer' = [said |-> "passed", on |-> u]
    BY <1>5, ExecuteCommits
  <2>2. resetDue' = FALSE
    BY <1>2, <1>5
  <2>3. t = IF resetDue THEN <<>> ELSE Held
    BY <2>1, HeldIs DEF HeldRight
  <2>4. HeldRight'
    BY <1>1, HeldIs, PTL
  <2>5. Held' = u
    BY <2>1, <2>2, <2>4 DEF HeldRight
  <2>6. u \in Session!Contexts
    <3>1. Target \in 1 .. Capacity /\ Capacity \in Nat
      BY <1>2, PagedKVAssumption DEF DecoderInv
    <3>2. Len(u) \in 0 .. Capacity
      BY <2>1, <3>1
    <3>3. u \in [1 .. Len(u) -> Token]
      OBVIOUS
    <3> QED
      BY <3>2, <3>3 DEF Session!Contexts
  <2>7. call.tokens # <<>>
    BY <1>2 DEF SessionInv
  <2>8. answer'.on = u
    BY <2>1
  <2>9. Held' = (IF resetDue THEN <<>> ELSE Held) \o call.tokens
    BY <2>1, <2>3, <2>5
  <2>10. Held' \in Session!Contexts /\ answer'.on = Held'
    BY <2>5, <2>6, <2>8
  <2>11. Session!Extend
    BY <1>2, <1>3, <2>2, <2>7, <2>9, <2>10 DEF Session!Extend, Session!Contexts, Held, Kept
  <2> QED
    BY <1>1, <2>11 DEF SessionStep, Session!Next
<1> QED
  BY <1>4, <1>5

LEMMA NextSteps ==
  ASSUME DecoderInv, SessionInv, DecoderInv', [Next]_vars
  PROVE  SessionInv' /\ SessionStep
<1>1. CASE Prefill
  BY <1>1, PrefillSteps
<1>2. CASE PrefillChunked
  BY <1>2, PrefillChunkedSteps
<1>3. CASE NextChunk
  BY <1>3, NextChunkSteps
<1>4. CASE Decode
  BY <1>4, DecodeSteps
<1>5. CASE Refuse
  <2>1. Fail
    BY <1>5 DEF Refuse
  <2>2. SessionInv'
    BY <2>1, FailSession
  <2>3. /\ resetDue' = resetDue /\ call' = call /\ copy' = copy /\ answer' = Said("error")
        /\ kv' = kv /\ cells' = cells
    BY <2>1 DEF Fail, cache
  <2>4. Held' = Held
    BY <2>3 DEF Held, CurrentLength
  <2> QED
    BY <2>2, <2>3, <2>4, SessionFails DEF SessionStep, Session!Next
<1>6. CASE AdmitTokenOnly
  <2>1. SessionInv' /\ Held' = Held
    BY <1>6, AdmitSession
  <2>2. resetDue' = resetDue /\ call' = call /\ copy' = copy /\ answer' = answer
    BY <1>6 DEF AdmitTokenOnly
  <2> QED
    BY <2>1, <2>2, KeptStays DEF SessionStep
<1>7. CASE Execute
  BY <1>7, ExecuteSteps
<1>8. CASE ExecuteFails
  <2>1. SessionInv' /\ Held' = Held
    BY <1>8, ExecuteFailsSession
  <2>2. resetDue' = resetDue /\ call' = call /\ copy' = copy /\ answer' = Said("error")
    BY <1>8 DEF ExecuteFails
  <2> QED
    BY <2>1, <2>2, SessionFails DEF SessionStep, Session!Next
<1>9. CASE ResetCache
  <2>1. SessionInv' /\ Held' = <<>>
    BY <1>9, ResetSession
  <2>2. /\ call' = call /\ copy' = copy
        /\ \/ answer' = Said("done") /\ resetDue' = FALSE
           \/ answer' = Said("error") /\ resetDue' = TRUE
    BY <1>9 DEF ResetCache
  <2>3. Kept' = Kept
    BY <2>2, KeptStays
  <2>4. Session!Clear
    BY <2>1, <2>2, <2>3 DEF Session!Clear, Session!Said, Said, Held, Kept
  <2> QED
    BY <2>1, <2>4 DEF SessionStep, Session!Next
<1>10. CASE Snapshot
  <2>1. SessionInv' /\ Held' = Held /\ Held # <<>> /\ Kept' = Held
    BY <1>10, SnapshotSession
  <2>2. answer' = Said("done") /\ ~resetDue /\ resetDue' = resetDue /\ call' = call
    BY <1>10 DEF Snapshot
  <2>3. Session!Save
    BY <2>1, <2>2 DEF Session!Save, Session!Said, Said, Held, Kept
  <2> QED
    BY <2>1, <2>3 DEF SessionStep, Session!Next
<1>11. CASE RestoreCache
  <2>1. /\ SessionInv'
        /\ \/ answer' = Said("done") /\ resetDue' = FALSE /\ Held = <<>> /\ Kept # <<>> /\ Held' = Kept
           \/ answer' = Said("error") /\ resetDue' = TRUE /\ Held' = <<>>
    BY <1>11, RestoreSession
  <2>2. call' = call /\ copy' = copy
    BY <1>11 DEF RestoreCache
  <2>3. Kept' = Kept
    BY <2>2, KeptStays
  <2>4. Session!Restore \/ Session!Clear
    BY <2>1, <2>2, <2>3
    DEF Session!Restore, Session!Clear, Session!Said, Said, Held, Kept
  <2> QED
    BY <2>1, <2>4 DEF SessionStep, Session!Next
<1>12. CASE UNCHANGED vars
  BY <1>12, StutterSession DEF SessionStep
<1> QED
  BY <1>1, <1>2, <1>3, <1>4, <1>5, <1>6, <1>7, <1>8, <1>9, <1>10, <1>11, <1>12 DEF Next

\* Whatever fails, of the writes and the runs of CompiledDecoderLLM, and in
\* whichever layer: the cache is a session's.  A call extends the accepted
\* tokens by its own, and answers from exactly those, or leaves them as they
\* were; a copy is of all of them and comes back whole; only a reset that has
\* failed leaves the answers of decodes open, until a prefill, a reset or a
\* restore passes.
THEOREM KeepsSession == Spec => ImplementsSession
<1>1. Init => DecoderInv /\ SessionInv /\ Session!Init
  <2> SUFFICES ASSUME Init  PROVE DecoderInv /\ SessionInv /\ Session!Init
    OBVIOUS
  <2>1. /\ DecoderInv /\ SessionInv
        /\ Held = <<>> /\ Kept = <<>> /\ call.tokens = <<>>
        /\ answer = Said("nothing") /\ resetDue = FALSE
    BY InitSession
  <2> QED
    BY <2>1 DEF Session!Init, Session!Said, Said, Held, Kept
<1>2. DecoderInv /\ SessionInv /\ [Next]_vars => DecoderInv' /\ SessionInv' /\ SessionStep
  BY NextKeeps, NextSteps
<1>3. SessionStep => [Session!Next]_<<Held, resetDue, call.tokens, answer, Kept>>
  BY DEF SessionStep
<1> QED
  BY <1>1, <1>2, <1>3, PTL DEF Spec, ImplementsSession, Session!Spec, Held, Kept

----------------------------------------------------------------------------
(* The lengths of the executors without pages, for any number of layers,   *)
(* any batch and any capacity: whatever fails, the layers are at one       *)
(* length or at the front layer's 0, and when the steps of a run read the  *)
(* device's lengths these are those of the run.  Their variables are       *)
(* others than the paged decoder's, the sizes may be any.                  *)

CONSTANT Batch
VARIABLES executor, unpagedLength, unpagedDevLength, caches, memory, unpagedPhase, run,
          unpagedAnswer, unpagedFailures

U == INSTANCE UnpagedDecoder WITH
  length <- unpagedLength, devLength <- unpagedDevLength, phase <- unpagedPhase, call <- run,
  answer <- unpagedAnswer, failures <- unpagedFailures

\* What TransformerDecodePlan::validate admits.
UnpagedSetting == U!UnpagedDecoderAssumption

\* While a run is under way the device has its length in every layer, and every
\* layer continues from where the run does, or the run begins them all anew.
UnpagedStagedTogether ==
  unpagedPhase = "staged" =>
    \A l \in U!Used :
      /\ unpagedDevLength[l] = run.previous + Len(run.tokens)
      /\ unpagedLength[l] = run.previous \/ run.previous = 0

UnpagedTyped ==
  /\ executor \in {"transformer", "attention"}
  /\ unpagedLength \in [U!Used -> Nat] /\ unpagedDevLength \in [U!Used -> Nat]
  /\ run.previous \in Nat

UnpagedIInv == UnpagedTyped /\ U!LayersAgreeOrAreEmpty /\ UnpagedStagedTogether

\* The front layer is one of the layers in use, the last of which is `Last'.
LEMMA UnpagedUsedLayers ==
  ASSUME UnpagedSetting, executor \in {"transformer", "attention"}
  PROVE  U!Last \in Nat \ {0} /\ U!Used = 1 .. U!Last
<1>1. CASE executor = "transformer"
  BY <1>1 DEF UnpagedSetting, U!UnpagedDecoderAssumption, U!Last, U!Used,
      U!Layers
<1>2. CASE executor = "attention"
  <2>1. {1} = 1 .. 1
    OBVIOUS
  <2>2. U!Last = 1 /\ U!Used = {1}
    BY <1>2 DEF U!Last, U!Used
  <2> QED
    BY <2>1, <2>2
<1> QED
  BY <1>1, <1>2

LEMMA UnpagedInitEstablishes ==
  ASSUME UnpagedSetting, U!Init
  PROVE  UnpagedIInv
<1>1. U!Used = 1 .. U!Last /\ U!Last \in Nat \ {0}
  BY UnpagedUsedLayers DEF U!Init
<1> QED
  BY <1>1 DEF U!Init, UnpagedIInv, UnpagedTyped, U!LayersAgreeOrAreEmpty,
      UnpagedStagedTogether, U!CurrentLength

\* A compilation and a call that is refused leave lengths and run alone.
LEMMA UnpagedIdleKeeps ==
  ASSUME UnpagedSetting, UnpagedIInv, \/ UNCHANGED U!vars \/ U!Compile \/ U!Fail
  PROVE  UnpagedIInv'
BY DEF UnpagedIInv, UnpagedTyped, U!LayersAgreeOrAreEmpty, UnpagedStagedTogether,
    U!CurrentLength, U!Used, U!vars, U!Compile, U!Fail

\* Staging touches the device only, up to the layer that fails.
LEMMA UnpagedRunKeeps ==
  ASSUME UnpagedSetting, UnpagedIInv, unpagedPhase = "idle", NEW next \in Nat, NEW inputs,
         \A tokens \in inputs : next = U!CurrentLength + Len(tokens),
         U!Run(next, inputs)
  PROVE  UnpagedIInv'
<1>1. U!Last \in Nat \ {0} /\ U!Used = 1 .. U!Last
  BY UnpagedUsedLayers DEF UnpagedIInv, UnpagedTyped
<1>2. U!CurrentLength \in Nat
  BY <1>1 DEF UnpagedIInv, UnpagedTyped, U!CurrentLength
<1>3. UnpagedTyped' /\ U!LayersAgreeOrAreEmpty'
  BY SMTT(40), <1>1, <1>2
  DEF UnpagedIInv, UnpagedTyped, U!LayersAgreeOrAreEmpty, U!CurrentLength,
      U!Used, U!Run, U!Stage, U!StagingFails, U!Staged
<1>4. UnpagedStagedTogether'
  <2>1. CASE U!StagingFails(next)
    BY <2>1 DEF U!StagingFails, UnpagedStagedTogether
  <2>2. CASE U!Stage(next, inputs)
    <3>1. U!Used' = U!Used /\ unpagedLength' = unpagedLength
      BY <2>2 DEF U!Stage, U!Used
    <3>2. PICK tokens \in inputs : run' = [tokens |-> tokens, previous |-> U!CurrentLength]
      BY <2>2 DEF U!Stage
    <3>3. \A l \in U!Used : unpagedDevLength'[l] = next
      BY <2>2, <1>1 DEF U!Stage, U!Staged
    <3>4. \A l \in U!Used : unpagedLength[l] = U!CurrentLength \/ U!CurrentLength = 0
      BY DEF UnpagedIInv, U!LayersAgreeOrAreEmpty
    <3> QED
      BY <3>1, <3>2, <3>3, <3>4 DEF UnpagedStagedTogether
  <2> QED
    BY <2>1, <2>2 DEF U!Run
<1> QED
  BY <1>3, <1>4 DEF UnpagedIInv

LEMMA UnpagedPrefillKeeps ==
  ASSUME UnpagedSetting, UnpagedIInv, U!Prefill
  PROVE  UnpagedIInv'
<1>1. \A tokens \in [1 .. PrefillLength -> Token] : PrefillLength = U!CurrentLength + Len(tokens)
  BY DEF UnpagedSetting, U!UnpagedDecoderAssumption, U!Prefill
<1> QED
  BY <1>1, UnpagedRunKeeps DEF UnpagedSetting, U!UnpagedDecoderAssumption, U!Prefill

LEMMA UnpagedDecodeKeeps ==
  ASSUME UnpagedSetting, UnpagedIInv, U!Decode
  PROVE  UnpagedIInv'
<1>1. U!CurrentLength \in Nat
  BY DEF UnpagedSetting, U!UnpagedDecoderAssumption, U!Decode
<1>2. \A tokens \in [1 .. 1 -> Token] : U!CurrentLength + 1 = U!CurrentLength + Len(tokens)
  <2>1. ASSUME NEW tokens \in [1 .. 1 -> Token] PROVE Len(tokens) = 1
    OBVIOUS
  <2> QED
    BY <2>1
<1>3. U!CurrentLength + 1 \in Nat
  BY <1>1
<1> HIDE DEF U!CurrentLength
<1> QED
  BY <1>2, <1>3, UnpagedRunKeeps DEF U!Decode

\* Every layer is committed to the length of the run.
LEMMA UnpagedExecutionKeeps ==
  ASSUME UnpagedSetting, UnpagedIInv, U!Execution
  PROVE  UnpagedIInv'
<1>1. U!Last \in Nat \ {0} /\ U!Used = 1 .. U!Last /\ U!Used' = U!Used
  BY UnpagedUsedLayers DEF UnpagedIInv, UnpagedTyped, U!Execution, U!Used
<1>2. /\ unpagedLength' = [l \in U!Used |-> run.previous + Len(run.tokens)]
      /\ unpagedDevLength' = unpagedDevLength
  BY DEF U!Execution
<1>3. unpagedDevLength[1] = run.previous + Len(run.tokens)
  BY <1>1 DEF UnpagedIInv, UnpagedStagedTogether, U!Execution
<1>4. run.previous + Len(run.tokens) \in Nat
  BY <1>1, <1>3 DEF UnpagedIInv, UnpagedTyped
<1>5. UnpagedTyped'
  BY <1>1, <1>2, <1>4 DEF UnpagedIInv, UnpagedTyped, U!Execution
<1>6. U!LayersAgreeOrAreEmpty' /\ UnpagedStagedTogether'
  BY <1>1, <1>2 DEF U!LayersAgreeOrAreEmpty, UnpagedStagedTogether, U!CurrentLength,
      U!Execution
<1> QED
  BY <1>5, <1>6 DEF UnpagedIInv

\* Only lengths on the device are written back.
LEMMA UnpagedExecutionFailsKeeps ==
  ASSUME UnpagedSetting, UnpagedIInv, U!ExecutionFails
  PROVE  UnpagedIInv'
<1>1. /\ U!Used' = U!Used /\ unpagedLength' = unpagedLength /\ executor' = executor
      /\ run' = run /\ unpagedPhase' = "idle"
  BY DEF U!ExecutionFails, U!Used
<1>2. PICK written \in SUBSET U!Used :
        unpagedDevLength' = [l \in U!Used |->
                              IF l \in written THEN run.previous ELSE unpagedDevLength[l]]
  BY DEF U!ExecutionFails
<1>3. unpagedDevLength' \in [U!Used -> Nat]
  BY <1>2 DEF UnpagedIInv, UnpagedTyped
<1> QED
  BY <1>1, <1>3 DEF UnpagedIInv, UnpagedTyped, U!LayersAgreeOrAreEmpty,
      UnpagedStagedTogether, U!CurrentLength

\* The front layer is the first to become empty.
LEMMA UnpagedResetUpToKeeps ==
  ASSUME UnpagedSetting, UnpagedIInv, U!Reset, NEW failing \in Nat \ {0},
         U!ResetUpTo(failing)
  PROVE  UnpagedIInv'
<1>1. U!Last \in Nat \ {0} /\ U!Used = 1 .. U!Last /\ U!Used' = U!Used
  BY UnpagedUsedLayers DEF UnpagedIInv, UnpagedTyped, U!Reset, U!Used
<1>2. UnpagedTyped' /\ UnpagedStagedTogether'
  BY <1>1 DEF UnpagedIInv, UnpagedTyped, UnpagedStagedTogether, U!Reset, U!ResetUpTo
<1>3. U!LayersAgreeOrAreEmpty'
  <2>1. CASE failing = 1
    BY <1>1, <2>1 DEF UnpagedIInv, UnpagedTyped, U!LayersAgreeOrAreEmpty,
        U!CurrentLength, U!ResetUpTo
  <2>2. CASE failing > 1
    BY <1>1, <2>2 DEF U!LayersAgreeOrAreEmpty, U!CurrentLength, U!ResetUpTo
  <2> QED
    BY <2>1, <2>2
<1> QED
  BY <1>2, <1>3 DEF UnpagedIInv

LEMMA UnpagedResetKeeps ==
  ASSUME UnpagedSetting, UnpagedIInv, U!Reset
  PROVE  UnpagedIInv'
<1>1. U!Last \in Nat \ {0} /\ U!Used = 1 .. U!Last
  BY UnpagedUsedLayers DEF UnpagedIInv, UnpagedTyped
<1>2. \/ U!ResetUpTo(U!Last + 1)
      \/ \E failing \in U!Used : U!ResetUpTo(failing)
  BY DEF U!Reset
<1>3. \E failing \in Nat \ {0} : U!ResetUpTo(failing)
  BY <1>1, <1>2
<1> QED
  BY <1>3, UnpagedResetUpToKeeps

LEMMA UnpagedNextKeeps ==
  ASSUME UnpagedSetting, UnpagedIInv, [U!Next]_U!vars
  PROVE  UnpagedIInv'
BY UnpagedIdleKeeps, UnpagedPrefillKeeps, UnpagedDecodeKeeps, UnpagedExecutionKeeps,
    UnpagedExecutionFailsKeeps, UnpagedResetKeeps
DEF U!Next

\* Whatever was staged, run or reset half way (TransformerDecodeExecutor.cpp
\* 337-395), the layers are at the same length or the front one is at 0.
THEOREM LayersAgree == UnpagedSetting => (U!Spec => []U!LayersAgreeOrAreEmpty)
<1> SUFFICES ASSUME UnpagedSetting PROVE U!Spec => []U!LayersAgreeOrAreEmpty
  OBVIOUS
<1>1. U!Init => UnpagedIInv
  BY UnpagedInitEstablishes
<1>2. UnpagedIInv /\ [U!Next]_U!vars => UnpagedIInv'
  BY UnpagedNextKeeps
<1>3. UnpagedIInv => U!LayersAgreeOrAreEmpty
  BY DEF UnpagedIInv
<1> QED
  BY <1>1, <1>2, <1>3, PTL DEF U!Spec

\* The steps of a run find its length on the device in every layer, whatever the
\* calls that failed before it have left there, and continue every layer from
\* where the run does (TransformerDecodeExecutor.cpp 349-378).
THEOREM RunsAreStagedTogether == UnpagedSetting => (U!Spec => []UnpagedStagedTogether)
<1> SUFFICES ASSUME UnpagedSetting PROVE U!Spec => []UnpagedStagedTogether
  OBVIOUS
<1>1. U!Init => UnpagedIInv
  BY UnpagedInitEstablishes
<1>2. UnpagedIInv /\ [U!Next]_U!vars => UnpagedIInv'
  BY UnpagedNextKeeps
<1>3. UnpagedIInv => UnpagedStagedTogether
  BY DEF UnpagedIInv
<1> QED
  BY <1>1, <1>2, <1>3, PTL DEF U!Spec

----------------------------------------------------------------------------
(* The executors without pages implement DecoderSession, down to the rows  *)
(* in the caches and in the answer.  A run's steps write a buffer each and *)
(* read only what is written before, so the memory they leave satisfies an *)
(* equation for every step (StepsAreEquations).  These equations, layer    *)
(* after layer (LayerComputes), make the caches and what is returned those *)
(* of the model for the context that the run extends (RunComputes), and a  *)
(* context is determined by either (HeldUnique, AnswerIsOf).               *)

\* A set of numbers that is not empty has a least one.
LEMMA LeastNumber ==
  ASSUME NEW T, T \subseteq Nat, T # {}
  PROVE  \E x \in T : \A y \in T : x <= y
<1> DEFINE L == OpToRel(<, Nat)
<1>1. IsWellFoundedOn(L, Nat)
  BY NatLessThanWellFounded
<1>2. \A x, y \in Nat : x < y => <<x, y>> \in L
  BY DEF OpToRel
<1> HIDE DEF L
<1>3. PICK x \in T : \A y \in T : ~(<<y, x>> \in L)
  BY <1>1, WFMin
<1>4. \A y \in T : ~(y < x)
  BY <1>2, <1>3
<1> QED BY <1>4

\* A set of numbers with 0 and the successor of each of its members is Nat.
LEMMA Induction ==
  ASSUME NEW S \in SUBSET Nat, 0 \in S, \A n \in S : n + 1 \in S
  PROVE  S = Nat
<1> SUFFICES ASSUME S # Nat
             PROVE  FALSE
  OBVIOUS
<1>1. PICK x \in Nat \ S : \A y \in Nat \ S : x <= y
  <2>1. Nat \ S # {}
    OBVIOUS
  <2> QED BY <2>1, LeastNumber
<1>2. x # 0 /\ x - 1 \in Nat
  OBVIOUS
<1>3. x - 1 \in S
  BY <1>1, <1>2
<1> QED BY <1>2, <1>3

----------------------------------------------------------------------------
(* A run of steps. *)

\* f[i] is the memory after the first i of k steps.
Runs(f, m, steps, k, n) ==
  f = [i \in 0 .. k |-> IF i = 0 THEN m ELSE U!Stepped(f[i - 1], steps[i], n)]

\* The memories along a run of steps exist.
LEMMA RunExists ==
  ASSUME NEW m, NEW steps, NEW n, NEW k \in Nat
  PROVE  \E f : Runs(f, m, steps, k, n)
<1> DEFINE I == {j \in Nat : \E f : Runs(f, m, steps, j, n)}
           Next1(h, i) == IF i = 0 THEN m ELSE U!Stepped(h[i - 1], steps[i], n)
<1>1. 0 \in I
  <2> DEFINE f == [i \in 0 .. 0 |-> m]
  <2>1. f = [i \in 0 .. 0 |-> Next1(f, i)]
    OBVIOUS
  <2> HIDE DEF f
  <2> QED BY <2>1 DEF Runs
<1>2. ASSUME NEW j \in I PROVE j + 1 \in I
  <2>1. PICK f : Runs(f, m, steps, j, n)
    OBVIOUS
  <2> DEFINE g == [i \in 0 .. j + 1 |-> Next1(f, i)]
  <2>2. \A i \in 0 .. j : f[i] = Next1(f, i)
    BY <2>1 DEF Runs
  <2>3. j \in Nat /\ \A i \in 0 .. j + 1 : i # 0 => i - 1 \in 0 .. j
    OBVIOUS
  <2>4. \A i \in 0 .. j : g[i] = f[i]
    <3> HIDE DEF Next1
    <3> QED BY <2>2, <2>3
  <2>5. \A i \in 0 .. j + 1 : Next1(g, i) = Next1(f, i)
    <3> HIDE DEF g
    <3> QED BY <2>3, <2>4
  <2>6. g = [i \in 0 .. j + 1 |-> Next1(g, i)]
    <3>1. \A i \in 0 .. j + 1 : g[i] = Next1(f, i)
      <4> HIDE DEF Next1
      <4> QED OBVIOUS
    <3>2. g = [i \in 0 .. j + 1 |-> g[i]]
      OBVIOUS
    <3> HIDE DEF g, Next1
    <3> QED BY <2>5, <3>1, <3>2
  <2> HIDE DEF g
  <2>7. Runs(g, m, steps, j + 1, n)
    BY <2>6 DEF Runs
  <2> QED BY <2>3, <2>7
<1>3. I = Nat
  <2> HIDE DEF I
  <2> SUFFICES I \in SUBSET Nat
    BY <1>1, <1>2, Induction
  <2> QED BY DEF I
<1> QED BY <1>3

\* No two steps write the same buffer, and every step reads buffers that no
\* step writes or that one before it has written.
Ordered(steps, N) ==
  /\ \A i, j \in 1 .. N : steps[i].out = steps[j].out => i = j
  /\ \A i, j \in 1 .. N : \A k \in DOMAIN steps[i].in : steps[j].out = steps[i].in[k] => j < i

\* What step i makes of the memory a, with `old' in its output.
Made(a, step, old, n) ==
  U!Result(step.kernel, [k \in DOMAIN step.in |-> U!Content(a, step.in[k])], old, n)

\* What the first `count' steps write in a is what they make of it, and all else
\* is as in m.
Equations(a, m, steps, count, n) ==
  /\ DOMAIN a = DOMAIN m
  /\ \A i \in 1 .. count : a[steps[i].out] = Made(a, steps[i], m[steps[i].out], n)
  /\ \A b \in DOMAIN m : (\A i \in 1 .. count : steps[i].out # b) => a[b] = m[b]

\* Such steps may be read as equations about the memory that they leave.
LEMMA StepsAreEquations ==
  ASSUME NEW m, NEW steps, NEW n, Len(steps) \in Nat, Ordered(steps, Len(steps)),
         \A i \in 1 .. Len(steps) : steps[i].out \in DOMAIN m,
         NEW count \in 0 .. Len(steps), NEW a, a = U!Execute(m, steps, count, n)
  PROVE  Equations(a, m, steps, count, n)
<1> DEFINE N == Len(steps)
           f == CHOOSE h : Runs(h, m, steps, N, n)
<1>1. a = f[count]
  BY DEF U!Execute, Runs
<1>2. Runs(f, m, steps, N, n)
  <2> QED BY RunExists
<1> HIDE DEF f
<1>3. f[0] = m /\ \A i \in 1 .. N : f[i] = U!Stepped(f[i - 1], steps[i], n)
  <2>1. \A i \in 0 .. N : f[i] = IF i = 0 THEN m ELSE U!Stepped(f[i - 1], steps[i], n)
    BY <1>2 DEF Runs
  <2> QED BY <2>1
<1> DEFINE Good(c) ==
      /\ DOMAIN f[c] = DOMAIN m
      /\ \A i \in 1 .. c : f[c][steps[i].out] = Made(f[c], steps[i], m[steps[i].out], n)
      /\ \A b \in DOMAIN m : (\A i \in 1 .. c : steps[i].out # b) => f[c][b] = m[b]
           J == {c \in Nat : c <= N => Good(c)}
<1>4. 0 \in J
  BY <1>3
<1>5. ASSUME NEW c \in J PROVE c + 1 \in J
  <2> SUFFICES ASSUME c + 1 <= N PROVE Good(c + 1)
    OBVIOUS
  <2> DEFINE s == steps[c + 1]
             g == f[c]
             h == f[c + 1]
  <2>1. c \in Nat /\ Good(c) /\ c + 1 \in 1 .. N /\ (c + 1) - 1 = c
    OBVIOUS
  <2>2. h = U!Stepped(g, s, n)
    BY <1>3, <2>1
  <2> HIDE DEF Good, s, g, h
  <2>3. DOMAIN g = DOMAIN m /\ s.out \in DOMAIN m
    BY <2>1 DEF Good, s, g
  <2>4. /\ DOMAIN h = DOMAIN m /\ h[s.out] = Made(g, s, g[s.out], n)
        /\ \A b \in DOMAIN m : b # s.out => h[b] = g[b]
    BY <2>2, <2>3 DEF U!Stepped, Made
  <2>5. g[s.out] = m[s.out]
    <3>1. \A i \in 1 .. c : steps[i].out # s.out
      BY <2>1 DEF Ordered, s
    <3> QED BY <2>1, <2>3, <3>1 DEF Good, g
  <2>6. ASSUME NEW i \in 1 .. c + 1 PROVE Made(h, steps[i], m[steps[i].out], n)
                                         = Made(g, steps[i], m[steps[i].out], n)
    <3>1. i \in 1 .. N
      BY <2>1
    <3>2. ASSUME NEW k \in DOMAIN steps[i].in PROVE U!Content(h, steps[i].in[k]) = U!Content(g, steps[i].in[k])
      <4>1. steps[i].in[k] # s.out
        <5>1. c + 1 \in 1 .. N /\ ~(c + 1 < i)
          BY <2>1
        <5> QED BY <3>1, <5>1 DEF Ordered, s
      <4> QED BY <2>3, <2>4, <4>1 DEF U!Content
    <3>3. [k \in DOMAIN steps[i].in |-> U!Content(h, steps[i].in[k])]
            = [k \in DOMAIN steps[i].in |-> U!Content(g, steps[i].in[k])]
      BY <3>2
    <3> QED BY <3>3 DEF Made
  <2>7. ASSUME NEW i \in 1 .. c + 1 PROVE h[steps[i].out] = Made(h, steps[i], m[steps[i].out], n)
    <3>1. CASE i = c + 1
      BY <3>1, <2>4, <2>5, <2>6 DEF s
    <3>2. CASE i # c + 1
      <4>1. i \in 1 .. c /\ i \in 1 .. N
        BY <2>1, <3>2
      <4>2. steps[i].out # s.out
        BY <4>1, <3>2, <2>1 DEF Ordered, s
      <4>3. h[steps[i].out] = g[steps[i].out]
        BY <2>4, <4>1, <4>2
      <4>4. g[steps[i].out] = Made(g, steps[i], m[steps[i].out], n)
        BY <2>1, <4>1 DEF Good, g
      <4> QED BY <4>3, <4>4, <2>6
    <3> QED BY <3>1, <3>2
  <2>8. ASSUME NEW b \in DOMAIN m, \A i \in 1 .. c + 1 : steps[i].out # b PROVE h[b] = m[b]
    <3>1. b # s.out /\ \A i \in 1 .. c : steps[i].out # b
      <4>1. c + 1 \in 1 .. c + 1 /\ \A i \in 1 .. c : i \in 1 .. c + 1
        BY <2>1
      <4> QED BY <2>8, <4>1 DEF s
    <3>2. g[b] = m[b]
      BY <2>1, <3>1 DEF Good, g
    <3> QED BY <2>4, <3>1, <3>2
  <2> QED BY <2>4, <2>7, <2>8 DEF Good, h
<1>6. J = Nat
  <2> HIDE DEF J
  <2> SUFFICES J \in SUBSET Nat
    BY <1>4, <1>5, Induction
  <2> QED BY DEF J
<1>7. count \in J /\ count <= N
  BY <1>6
<1>8. Good(count)
  BY <1>7
<1> QED BY <1>1, <1>8 DEF Equations

----------------------------------------------------------------------------
(* Rows and cells. *)

\* Quotient and remainder are unique.
LEMMA DivModIs ==
  ASSUME NEW n \in Nat, n > 0, NEW b \in Int, NEW t \in 0 .. n - 1, NEW x, x = b * n + t
  PROVE  x \div n = b /\ x % n = t
<1>1. x \in Int
  OBVIOUS
<1>2. x = n * (x \div n) + (x % n) /\ x % n \in 0 .. n - 1 /\ x \div n \in Int
  BY <1>1
<1>3. n * (b - (x \div n)) = (x % n) - t
  BY <1>1, <1>2
<1> DEFINE d == b - (x \div n)
<1>4. d \in Int /\ n * d < n /\ n * d > -n
  BY <1>2, <1>3
<1>5. d = 0
  <2>1. d >= 1 => n * d >= n
    BY <1>4
  <2>2. d <= -1 => n * d <= -n
    BY <1>4
  <2> QED BY <1>4, <2>1, <2>2
<1>6. x \div n = b
  BY <1>2, <1>5
<1> QED BY <1>2, <1>6

\* Every token of a sequence of the batch has its row.
LEMMA RowOfCell ==
  ASSUME Batch \in Nat, NEW n \in Nat, n > 0, NEW b \in U!Batches, NEW t \in 0 .. n - 1
  PROVE  /\ b * n + t + 1 \in U!Rows(n)
         /\ U!BatchOf(b * n + t + 1, n) = b /\ U!TokenOf(b * n + t + 1, n) = t
<1>1. b \in Nat /\ b + 1 <= Batch
  BY DEF U!Batches
<1>2. (b * n + t + 1) - 1 = b * n + t
  BY <1>1
<1>3. b * n + t + 1 <= Batch * n
  <2>1. (b + 1) * n <= Batch * n
    BY <1>1
  <2>2. (b + 1) * n = b * n + n
    BY <1>1
  <2>3. b * n \in Nat /\ Batch * n \in Nat
    BY <1>1
  <2> QED BY <2>1, <2>2, <2>3
<1>4. b * n \in Nat
  BY <1>1
<1>5. (b * n + t) \div n = b /\ (b * n + t) % n = t
  BY <1>1, DivModIs
<1> QED BY <1>2, <1>3, <1>4, <1>5 DEF U!Rows, U!BatchOf, U!TokenOf

\* Every row is that of a token of a sequence.
LEMMA CellOfRow ==
  ASSUME Batch \in Nat, NEW n \in Nat, n > 0, NEW row \in U!Rows(n)
  PROVE  /\ U!BatchOf(row, n) \in U!Batches /\ U!TokenOf(row, n) \in 0 .. n - 1
         /\ row = U!BatchOf(row, n) * n + U!TokenOf(row, n) + 1
<1> DEFINE x == row - 1
           b == x \div n
           t == x % n
<1>1. x \in Nat /\ x < Batch * n /\ row = x + 1
  BY DEF U!Rows
<1> HIDE DEF x
<1>2. x = n * b + t /\ t \in 0 .. n - 1 /\ b \in Int
  BY <1>1
<1> HIDE DEF b, t
<1>3. b >= 0
  <2>1. b <= -1 => n * b <= -n
    BY <1>2
  <2> QED BY <1>1, <1>2, <2>1
<1>4. b < Batch
  <2>1. b >= Batch => n * b >= n * Batch
    BY <1>2
  <2>2. n * Batch = Batch * n /\ n * b \in Int
    BY <1>2
  <2> QED BY <1>1, <1>2, <2>1, <2>2
<1>5. b \in U!Batches /\ row = b * n + t + 1
  <2>1. n * b = b * n
    BY <1>2
  <2> QED BY <1>1, <1>2, <1>3, <1>4, <2>1 DEF U!Batches
<1>6. U!BatchOf(row, n) = b /\ U!TokenOf(row, n) = t
  BY DEF U!BatchOf, U!TokenOf, b, t, x
<1> QED BY <1>2, <1>5, <1>6

----------------------------------------------------------------------------
(* The steps of a stage. *)

\* The place of the step that writes buffer b; of no step, 0.
Place(b) ==
  CASE b[1] = "query" -> 13 * b[2] - 11
    [] b[1] = "keys" -> 13 * b[2] - 10
    [] b[1] = "values" -> 13 * b[2] - 9
    [] b[1] = "selfContext" -> 13 * b[2] - 8
    [] b[1] = "selfOutput" -> 13 * b[2] - 7
    [] b[1] = "selfNormalized" -> 13 * b[2] - 6
    [] b[1] = "crossQuery" -> 13 * b[2] - 5
    [] b[1] = "crossContext" -> 13 * b[2] - 4
    [] b[1] = "crossOutput" -> 13 * b[2] - 3
    [] b[1] = "crossNormalized" -> 13 * b[2] - 2
    [] b[1] = "feedForwardHidden" -> 13 * b[2] - 1
    [] b[1] = "feedForwardOutput" -> 13 * b[2] 
    [] b[1] = "hidden" -> 13 * b[2] + 1
    [] b[1] = "logits" -> 13 * LayerCount + 2
    [] b[1] = "nextTokens" -> 13 * LayerCount + 3
    [] OTHER -> 0

\* Step s writes a buffer whose place is i, and reads those of smaller ones.
PlacedAt(s, i) == Place(s.out) = i /\ \A k \in DOMAIN s.in : Place(s.in[k]) < i

LEMMA OfTwo ==
  ASSUME NEW a, NEW b, NEW c, NEW kernel, NEW i, Place(c) = i, Place(a) < i, Place(b) < i
  PROVE  PlacedAt(U!Step(kernel, <<a, b>>, c), i)
BY DEF PlacedAt, U!Step

LEMMA OfThree ==
  ASSUME NEW a, NEW b, NEW d, NEW c, NEW kernel, NEW i, Place(c) = i, Place(a) < i, Place(b) < i,
         Place(d) < i
  PROVE  PlacedAt(U!Step(kernel, <<a, b, d>>, c), i)
BY DEF PlacedAt, U!Step

LEMMA OfFour ==
  ASSUME NEW a, NEW b, NEW d, NEW e, NEW c, NEW kernel, NEW i, Place(c) = i, Place(a) < i,
         Place(b) < i, Place(d) < i, Place(e) < i
  PROVE  PlacedAt(U!Step(kernel, <<a, b, d, e>>, c), i)
BY DEF PlacedAt, U!Step

\* The places of what a layer writes.
LEMMA PlacesOfLayer ==
  ASSUME NEW l
  PROVE  /\ Place(U!Own("query", l)) = 13 * l - 11
         /\ Place(U!Own("keys", l)) = 13 * l - 10
         /\ Place(U!Own("values", l)) = 13 * l - 9
         /\ Place(U!Own("selfContext", l)) = 13 * l - 8
         /\ Place(U!Own("selfOutput", l)) = 13 * l - 7
         /\ Place(U!Own("selfNormalized", l)) = 13 * l - 6
         /\ Place(U!Own("crossQuery", l)) = 13 * l - 5
         /\ Place(U!Own("crossContext", l)) = 13 * l - 4
         /\ Place(U!Own("crossOutput", l)) = 13 * l - 3
         /\ Place(U!Own("crossNormalized", l)) = 13 * l - 2
         /\ Place(U!Own("feedForwardHidden", l)) = 13 * l - 1
         /\ Place(U!Own("feedForwardOutput", l)) = 13 * l 
         /\ Place(U!Own("hidden", l)) = 13 * l + 1
BY DEF Place, U!Own

\* No step writes these.
LEMMA PlacesOfWeights ==
  ASSUME NEW l
  PROVE  /\ Place(U!Own("crossNormBias", l)) = 0
         /\ Place(U!Own("crossNormWeight", l)) = 0
         /\ Place(U!Own("crossOutputBias", l)) = 0
         /\ Place(U!Own("crossOutputWeight", l)) = 0
         /\ Place(U!Own("crossQueryBias", l)) = 0
         /\ Place(U!Own("crossQueryWeight", l)) = 0
         /\ Place(U!Own("feedForwardInputBias", l)) = 0
         /\ Place(U!Own("feedForwardInputWeight", l)) = 0
         /\ Place(U!Own("feedForwardNormBias", l)) = 0
         /\ Place(U!Own("feedForwardNormWeight", l)) = 0
         /\ Place(U!Own("feedForwardOutputBias", l)) = 0
         /\ Place(U!Own("feedForwardOutputWeight", l)) = 0
         /\ Place(U!Own("length", l)) = 0
         /\ Place(U!Own("memoryKeys", l)) = 0
         /\ Place(U!Own("memoryValues", l)) = 0
         /\ Place(U!Own("selfKeyWeight", l)) = 0
         /\ Place(U!Own("selfNormBias", l)) = 0
         /\ Place(U!Own("selfNormWeight", l)) = 0
         /\ Place(U!Own("selfOutputWeight", l)) = 0
         /\ Place(U!Own("selfQueryWeight", l)) = 0
         /\ Place(U!Own("selfValueWeight", l)) = 0
BY DEF Place, U!Own

LEMMA Sequences6 ==
  ASSUME NEW a, NEW b, NEW c, NEW d, NEW e, NEW f
  PROVE  LET s == <<a, b, c, d, e, f>> IN Len(s) = 6 /\ s \in Seq({a, b, c, d, e, f})
OBVIOUS

LEMMA Sequences4 ==
  ASSUME NEW a, NEW b, NEW c, NEW d
  PROVE  LET s == <<a, b, c, d>> IN Len(s) = 4 /\ s \in Seq({a, b, c, d})
OBVIOUS

LEMMA Sequences2 ==
  ASSUME NEW a, NEW b
  PROVE  LET s == <<a, b>> IN Len(s) = 2 /\ s \in Seq({a, b})
OBVIOUS

LEMMA Sequences1 ==
  ASSUME NEW a
  PROVE  LET s == <<a>> IN Len(s) = 1 /\ s \in Seq({a})
OBVIOUS

LEMMA Sequences3 ==
  ASSUME NEW a, NEW b, NEW c
  PROVE  LET s == <<a, b, c>> IN Len(s) = 3 /\ s \in Seq({a, b, c})
OBVIOUS

\* A layer has 13 steps.
LEMMA LayerStepsAre ==
  ASSUME NEW l
  PROVE  /\ Len(U!LayerSteps(l)) = 13
         /\ \A j \in 1 .. 6 : U!LayerSteps(l)[j] = U!SelfAttention(l)[j]
         /\ \A j \in 1 .. 4 : U!LayerSteps(l)[j + 6] = U!CrossAttention(l)[j]
         /\ \A j \in 1 .. 3 : U!LayerSteps(l)[j + 10] = U!FeedForward(l)[j]
<1>1. PICK S : U!SelfAttention(l) \in Seq(S) /\ Len(U!SelfAttention(l)) = 6
  BY Sequences6, Zenon DEF U!SelfAttention
<1>2. PICK T : U!CrossAttention(l) \in Seq(T) /\ Len(U!CrossAttention(l)) = 4
  BY Sequences4, Zenon DEF U!CrossAttention
<1>3. PICK R : U!FeedForward(l) \in Seq(R) /\ Len(U!FeedForward(l)) = 3
  BY Sequences3, Zenon DEF U!FeedForward
<1>4. U!LayerSteps(l) = U!SelfAttention(l) \o U!CrossAttention(l) \o U!FeedForward(l)
  BY DEF U!LayerSteps
<1> DEFINE s == U!SelfAttention(l)
           t == U!CrossAttention(l)
           u == U!FeedForward(l)
<1>5. s \in Seq(S) /\ t \in Seq(T) /\ u \in Seq(R) /\ Len(s) = 6 /\ Len(t) = 4 /\ Len(u) = 3
  BY <1>1, <1>2, <1>3
<1>6. U!LayerSteps(l) = s \o t \o u
  BY <1>4
<1> HIDE DEF s, t, u
<1> DEFINE V == S \union T \union R
<1>11. s \in Seq(V) /\ t \in Seq(V) /\ u \in Seq(V)
  BY <1>5
<1> HIDE DEF V
<1> DEFINE w == s \o t
<1>12. w \in Seq(V) /\ Len(w) = 10 /\ \A j \in 1 .. 10 : w[j] = IF j <= 6 THEN s[j] ELSE t[j - 6]
  <2>1. w \in Seq(V) /\ Len(w) = Len(s) + Len(t)
           /\ \A i \in 1 .. Len(s) + Len(t) : w[i] = IF i <= Len(s) THEN s[i] ELSE t[i - Len(s)]
    BY <1>11, ConcatProperties, Zenon
  <2> HIDE DEF w
  <2> QED BY <2>1, <1>5
<1> HIDE DEF w
<1> DEFINE x == w \o u
<1>13. Len(x) = 13 /\ \A j \in 1 .. 13 : x[j] = IF j <= 10 THEN w[j] ELSE u[j - 10]
  <2>1. Len(x) = Len(w) + Len(u)
           /\ \A i \in 1 .. Len(w) + Len(u) : x[i] = IF i <= Len(w) THEN w[i] ELSE u[i - Len(w)]
    BY <1>11, <1>12, ConcatProperties, Zenon
  <2> HIDE DEF x
  <2> QED BY <2>1, <1>5, <1>12
<1> HIDE DEF x
<1>14. \A j \in 1 .. 3 : x[j + 10] = u[j]
  BY <1>5, <1>13
<1>15. \A j \in 1 .. 4 : x[j + 6] = t[j]
  BY <1>12, <1>13
<1>16. \A j \in 1 .. 6 : x[j] = s[j]
  BY <1>12, <1>13
<1>7. U!LayerSteps(l) = x
  BY <1>6 DEF x, w
<1> QED BY <1>7, <1>13, <1>14, <1>15, <1>16, Zenon DEF s, t, u

\* Its steps, one by one.
LEMMA StepsOfLayer ==
  ASSUME NEW l
  PROVE  /\ U!LayerSteps(l)[1]
              = U!Step("query",
                       <<U!Own("hidden", l - 1), U!Own("selfQueryWeight", l)>>,
                       U!Own("query", l))
         /\ U!LayerSteps(l)[2]
              = U!Step("cache",
                       <<U!Own("hidden", l - 1), U!Own("selfKeyWeight", l), U!Own("length", l)>>,
                       U!Own("keys", l))
         /\ U!LayerSteps(l)[3]
              = U!Step("cache",
                       <<U!Own("hidden", l - 1), U!Own("selfValueWeight", l), U!Own("length", l)>>,
                       U!Own("values", l))
         /\ U!LayerSteps(l)[4]
              = U!Step("causalAttention",
                       <<U!Own("query", l), U!Own("keys", l), U!Own("values", l), U!Own("length", l)>>,
                       U!Own("selfContext", l))
         /\ U!LayerSteps(l)[5]
              = U!Step("output",
                       <<U!Own("selfContext", l), U!Own("selfOutputWeight", l)>>,
                       U!Own("selfOutput", l))
         /\ U!LayerSteps(l)[6]
              = U!Step("residualNorm",
                       <<U!Own("hidden", l - 1), U!Own("selfOutput", l), U!Own("selfNormWeight", l),
                         U!Own("selfNormBias", l)>>,
                       U!Own("selfNormalized", l))
         /\ U!LayerSteps(l)[7]
              = U!Step("linear",
                       <<U!Own("selfNormalized", l), U!Own("crossQueryWeight", l), U!Own("crossQueryBias", l)>>,
                       U!Own("crossQuery", l))
         /\ U!LayerSteps(l)[8]
              = U!Step("crossAttention",
                       <<U!Own("crossQuery", l), U!Own("memoryKeys", l), U!Own("memoryValues", l)>>,
                       U!Own("crossContext", l))
         /\ U!LayerSteps(l)[9]
              = U!Step("linear",
                       <<U!Own("crossContext", l), U!Own("crossOutputWeight", l), U!Own("crossOutputBias", l)>>,
                       U!Own("crossOutput", l))
         /\ U!LayerSteps(l)[10]
              = U!Step("residualNorm",
                       <<U!Own("selfNormalized", l), U!Own("crossOutput", l), U!Own("crossNormWeight", l),
                         U!Own("crossNormBias", l)>>,
                       U!Own("crossNormalized", l))
         /\ U!LayerSteps(l)[11]
              = U!Step("linearRelu",
                       <<U!Own("crossNormalized", l), U!Own("feedForwardInputWeight", l),
                         U!Own("feedForwardInputBias", l)>>,
                       U!Own("feedForwardHidden", l))
         /\ U!LayerSteps(l)[12]
              = U!Step("linear",
                       <<U!Own("feedForwardHidden", l), U!Own("feedForwardOutputWeight", l),
                         U!Own("feedForwardOutputBias", l)>>,
                       U!Own("feedForwardOutput", l))
         /\ U!LayerSteps(l)[13]
              = U!Step("residualNorm",
                       <<U!Own("crossNormalized", l), U!Own("feedForwardOutput", l),
                         U!Own("feedForwardNormWeight", l), U!Own("feedForwardNormBias", l)>>,
                       U!Own("hidden", l))
<1>1. /\ U!LayerSteps(l)[1] = U!SelfAttention(l)[1]
      /\ U!LayerSteps(l)[2] = U!SelfAttention(l)[2]
      /\ U!LayerSteps(l)[3] = U!SelfAttention(l)[3]
      /\ U!LayerSteps(l)[4] = U!SelfAttention(l)[4]
      /\ U!LayerSteps(l)[5] = U!SelfAttention(l)[5]
      /\ U!LayerSteps(l)[6] = U!SelfAttention(l)[6]
      /\ U!LayerSteps(l)[7] = U!CrossAttention(l)[1]
      /\ U!LayerSteps(l)[8] = U!CrossAttention(l)[2]
      /\ U!LayerSteps(l)[9] = U!CrossAttention(l)[3]
      /\ U!LayerSteps(l)[10] = U!CrossAttention(l)[4]
      /\ U!LayerSteps(l)[11] = U!FeedForward(l)[1]
      /\ U!LayerSteps(l)[12] = U!FeedForward(l)[2]
      /\ U!LayerSteps(l)[13] = U!FeedForward(l)[3]
  BY LayerStepsAre
<1> QED BY <1>1 DEF U!SelfAttention, U!CrossAttention, U!FeedForward

\* What they write and read stands in the order of the steps.
LEMMA LayerStepsArePlaced ==
  ASSUME LayerCount \in Nat, NEW l \in U!Layers, NEW j \in 1 .. 13
  PROVE  PlacedAt(U!LayerSteps(l)[j], 13 * (l - 1) + j + 1)
<1>0. l \in Nat /\ 1 <= l /\ l - 1 \in Nat
  BY DEF U!Layers
<1>1. CASE j = 1
  <2>1. U!LayerSteps(l)[1]
          = U!Step("query", <<U!Own("hidden", l - 1), U!Own("selfQueryWeight", l)>>,
                   U!Own("query", l))
    BY StepsOfLayer
  <2>2. Place(U!Own("query", l)) = 13 * (l - 1) + 1 + 1
    BY <1>0, PlacesOfLayer
  <2>3. /\ Place(U!Own("hidden", l - 1)) < 13 * (l - 1) + 1 + 1
        /\ Place(U!Own("selfQueryWeight", l)) < 13 * (l - 1) + 1 + 1
    BY <1>0, PlacesOfLayer, PlacesOfWeights
  <2> QED BY <1>1, <2>1, <2>2, <2>3, OfTwo
<1>2. CASE j = 2
  <2>1. U!LayerSteps(l)[2]
          = U!Step("cache", <<U!Own("hidden", l - 1), U!Own("selfKeyWeight", l), U!Own("length", l)>>,
                   U!Own("keys", l))
    BY StepsOfLayer
  <2>2. Place(U!Own("keys", l)) = 13 * (l - 1) + 2 + 1
    BY <1>0, PlacesOfLayer
  <2>3. /\ Place(U!Own("hidden", l - 1)) < 13 * (l - 1) + 2 + 1
        /\ Place(U!Own("selfKeyWeight", l)) < 13 * (l - 1) + 2 + 1
        /\ Place(U!Own("length", l)) < 13 * (l - 1) + 2 + 1
    BY <1>0, PlacesOfLayer, PlacesOfWeights
  <2> QED BY <1>2, <2>1, <2>2, <2>3, OfThree
<1>3. CASE j = 3
  <2>1. U!LayerSteps(l)[3]
          = U!Step("cache", <<U!Own("hidden", l - 1), U!Own("selfValueWeight", l), U!Own("length", l)>>,
                   U!Own("values", l))
    BY StepsOfLayer
  <2>2. Place(U!Own("values", l)) = 13 * (l - 1) + 3 + 1
    BY <1>0, PlacesOfLayer
  <2>3. /\ Place(U!Own("hidden", l - 1)) < 13 * (l - 1) + 3 + 1
        /\ Place(U!Own("selfValueWeight", l)) < 13 * (l - 1) + 3 + 1
        /\ Place(U!Own("length", l)) < 13 * (l - 1) + 3 + 1
    BY <1>0, PlacesOfLayer, PlacesOfWeights
  <2> QED BY <1>3, <2>1, <2>2, <2>3, OfThree
<1>4. CASE j = 4
  <2>1. U!LayerSteps(l)[4]
          = U!Step("causalAttention",
                   <<U!Own("query", l), U!Own("keys", l), U!Own("values", l), U!Own("length", l)>>,
                   U!Own("selfContext", l))
    BY StepsOfLayer
  <2>2. Place(U!Own("selfContext", l)) = 13 * (l - 1) + 4 + 1
    BY <1>0, PlacesOfLayer
  <2>3. /\ Place(U!Own("query", l)) < 13 * (l - 1) + 4 + 1
        /\ Place(U!Own("keys", l)) < 13 * (l - 1) + 4 + 1
        /\ Place(U!Own("values", l)) < 13 * (l - 1) + 4 + 1
        /\ Place(U!Own("length", l)) < 13 * (l - 1) + 4 + 1
    BY <1>0, PlacesOfLayer, PlacesOfWeights
  <2> QED BY <1>4, <2>1, <2>2, <2>3, OfFour
<1>5. CASE j = 5
  <2>1. U!LayerSteps(l)[5]
          = U!Step("output", <<U!Own("selfContext", l), U!Own("selfOutputWeight", l)>>,
                   U!Own("selfOutput", l))
    BY StepsOfLayer
  <2>2. Place(U!Own("selfOutput", l)) = 13 * (l - 1) + 5 + 1
    BY <1>0, PlacesOfLayer
  <2>3. /\ Place(U!Own("selfContext", l)) < 13 * (l - 1) + 5 + 1
        /\ Place(U!Own("selfOutputWeight", l)) < 13 * (l - 1) + 5 + 1
    BY <1>0, PlacesOfLayer, PlacesOfWeights
  <2> QED BY <1>5, <2>1, <2>2, <2>3, OfTwo
<1>6. CASE j = 6
  <2>1. U!LayerSteps(l)[6]
          = U!Step("residualNorm",
                   <<U!Own("hidden", l - 1), U!Own("selfOutput", l), U!Own("selfNormWeight", l),
                     U!Own("selfNormBias", l)>>,
                   U!Own("selfNormalized", l))
    BY StepsOfLayer
  <2>2. Place(U!Own("selfNormalized", l)) = 13 * (l - 1) + 6 + 1
    BY <1>0, PlacesOfLayer
  <2>3. /\ Place(U!Own("hidden", l - 1)) < 13 * (l - 1) + 6 + 1
        /\ Place(U!Own("selfOutput", l)) < 13 * (l - 1) + 6 + 1
        /\ Place(U!Own("selfNormWeight", l)) < 13 * (l - 1) + 6 + 1
        /\ Place(U!Own("selfNormBias", l)) < 13 * (l - 1) + 6 + 1
    BY <1>0, PlacesOfLayer, PlacesOfWeights
  <2> QED BY <1>6, <2>1, <2>2, <2>3, OfFour
<1>7. CASE j = 7
  <2>1. U!LayerSteps(l)[7]
          = U!Step("linear", <<U!Own("selfNormalized", l), U!Own("crossQueryWeight", l),
                               U!Own("crossQueryBias", l)>>,
                   U!Own("crossQuery", l))
    BY StepsOfLayer
  <2>2. Place(U!Own("crossQuery", l)) = 13 * (l - 1) + 7 + 1
    BY <1>0, PlacesOfLayer
  <2>3. /\ Place(U!Own("selfNormalized", l)) < 13 * (l - 1) + 7 + 1
        /\ Place(U!Own("crossQueryWeight", l)) < 13 * (l - 1) + 7 + 1
        /\ Place(U!Own("crossQueryBias", l)) < 13 * (l - 1) + 7 + 1
    BY <1>0, PlacesOfLayer, PlacesOfWeights
  <2> QED BY <1>7, <2>1, <2>2, <2>3, OfThree
<1>8. CASE j = 8
  <2>1. U!LayerSteps(l)[8]
          = U!Step("crossAttention",
                   <<U!Own("crossQuery", l), U!Own("memoryKeys", l), U!Own("memoryValues", l)>>,
                   U!Own("crossContext", l))
    BY StepsOfLayer
  <2>2. Place(U!Own("crossContext", l)) = 13 * (l - 1) + 8 + 1
    BY <1>0, PlacesOfLayer
  <2>3. /\ Place(U!Own("crossQuery", l)) < 13 * (l - 1) + 8 + 1
        /\ Place(U!Own("memoryKeys", l)) < 13 * (l - 1) + 8 + 1
        /\ Place(U!Own("memoryValues", l)) < 13 * (l - 1) + 8 + 1
    BY <1>0, PlacesOfLayer, PlacesOfWeights
  <2> QED BY <1>8, <2>1, <2>2, <2>3, OfThree
<1>9. CASE j = 9
  <2>1. U!LayerSteps(l)[9]
          = U!Step("linear", <<U!Own("crossContext", l), U!Own("crossOutputWeight", l),
                               U!Own("crossOutputBias", l)>>,
                   U!Own("crossOutput", l))
    BY StepsOfLayer
  <2>2. Place(U!Own("crossOutput", l)) = 13 * (l - 1) + 9 + 1
    BY <1>0, PlacesOfLayer
  <2>3. /\ Place(U!Own("crossContext", l)) < 13 * (l - 1) + 9 + 1
        /\ Place(U!Own("crossOutputWeight", l)) < 13 * (l - 1) + 9 + 1
        /\ Place(U!Own("crossOutputBias", l)) < 13 * (l - 1) + 9 + 1
    BY <1>0, PlacesOfLayer, PlacesOfWeights
  <2> QED BY <1>9, <2>1, <2>2, <2>3, OfThree
<1>10. CASE j = 10
  <2>1. U!LayerSteps(l)[10]
          = U!Step("residualNorm",
                   <<U!Own("selfNormalized", l), U!Own("crossOutput", l), U!Own("crossNormWeight", l),
                     U!Own("crossNormBias", l)>>,
                   U!Own("crossNormalized", l))
    BY StepsOfLayer
  <2>2. Place(U!Own("crossNormalized", l)) = 13 * (l - 1) + 10 + 1
    BY <1>0, PlacesOfLayer
  <2>3. /\ Place(U!Own("selfNormalized", l)) < 13 * (l - 1) + 10 + 1
        /\ Place(U!Own("crossOutput", l)) < 13 * (l - 1) + 10 + 1
        /\ Place(U!Own("crossNormWeight", l)) < 13 * (l - 1) + 10 + 1
        /\ Place(U!Own("crossNormBias", l)) < 13 * (l - 1) + 10 + 1
    BY <1>0, PlacesOfLayer, PlacesOfWeights
  <2> QED BY <1>10, <2>1, <2>2, <2>3, OfFour
<1>11. CASE j = 11
  <2>1. U!LayerSteps(l)[11]
          = U!Step("linearRelu",
                   <<U!Own("crossNormalized", l), U!Own("feedForwardInputWeight", l),
                     U!Own("feedForwardInputBias", l)>>,
                   U!Own("feedForwardHidden", l))
    BY StepsOfLayer
  <2>2. Place(U!Own("feedForwardHidden", l)) = 13 * (l - 1) + 11 + 1
    BY <1>0, PlacesOfLayer
  <2>3. /\ Place(U!Own("crossNormalized", l)) < 13 * (l - 1) + 11 + 1
        /\ Place(U!Own("feedForwardInputWeight", l)) < 13 * (l - 1) + 11 + 1
        /\ Place(U!Own("feedForwardInputBias", l)) < 13 * (l - 1) + 11 + 1
    BY <1>0, PlacesOfLayer, PlacesOfWeights
  <2> QED BY <1>11, <2>1, <2>2, <2>3, OfThree
<1>12. CASE j = 12
  <2>1. U!LayerSteps(l)[12]
          = U!Step("linear", <<U!Own("feedForwardHidden", l), U!Own("feedForwardOutputWeight", l),
                               U!Own("feedForwardOutputBias", l)>>,
                   U!Own("feedForwardOutput", l))
    BY StepsOfLayer
  <2>2. Place(U!Own("feedForwardOutput", l)) = 13 * (l - 1) + 12 + 1
    BY <1>0, PlacesOfLayer
  <2>3. /\ Place(U!Own("feedForwardHidden", l)) < 13 * (l - 1) + 12 + 1
        /\ Place(U!Own("feedForwardOutputWeight", l)) < 13 * (l - 1) + 12 + 1
        /\ Place(U!Own("feedForwardOutputBias", l)) < 13 * (l - 1) + 12 + 1
    BY <1>0, PlacesOfLayer, PlacesOfWeights
  <2> QED BY <1>12, <2>1, <2>2, <2>3, OfThree
<1>13. CASE j = 13
  <2>1. U!LayerSteps(l)[13]
          = U!Step("residualNorm",
                   <<U!Own("crossNormalized", l), U!Own("feedForwardOutput", l),
                     U!Own("feedForwardNormWeight", l), U!Own("feedForwardNormBias", l)>>,
                   U!Own("hidden", l))
    BY StepsOfLayer
  <2>2. Place(U!Own("hidden", l)) = 13 * (l - 1) + 13 + 1
    BY <1>0, PlacesOfLayer
  <2>3. /\ Place(U!Own("crossNormalized", l)) < 13 * (l - 1) + 13 + 1
        /\ Place(U!Own("feedForwardOutput", l)) < 13 * (l - 1) + 13 + 1
        /\ Place(U!Own("feedForwardNormWeight", l)) < 13 * (l - 1) + 13 + 1
        /\ Place(U!Own("feedForwardNormBias", l)) < 13 * (l - 1) + 13 + 1
    BY <1>0, PlacesOfLayer, PlacesOfWeights
  <2> QED BY <1>13, <2>1, <2>2, <2>3, OfFour
<1> QED BY <1>1, <1>2, <1>3, <1>4, <1>5, <1>6, <1>7, <1>8, <1>9, <1>10, <1>11, <1>12, <1>13

\* The steps of the decoder, and where those of a layer are.
LEMMA StepsOfDecoder ==
  ASSUME LayerCount \in Nat
  PROVE  /\ Len(U!DecoderSteps) = 13 * LayerCount + 3
         /\ U!DecoderSteps[1] = U!Embedding[1]
         /\ \A l \in U!Layers, j \in 1 .. 13 : U!DecoderSteps[13 * (l - 1) + j + 1] = U!LayerSteps(l)[j]
         /\ U!DecoderSteps[13 * LayerCount + 2] = U!LanguageModelHead[1]
         /\ U!DecoderSteps[13 * LayerCount + 3] = U!LanguageModelHead[2]
<1> DEFINE s == U!Embedding
           t == [i \in 1 .. LayerCount * 13 |-> U!LayerSteps(1 + (i - 1) \div 13)[1 + ((i - 1) % 13)]]
           u == U!LanguageModelHead
<1>1. U!DecoderSteps = s \o t \o u
  <2>1. Len(U!LayerSteps(1)) = 13
    BY LayerStepsAre
  <2> QED BY <2>1 DEF U!DecoderSteps
<1>2. Len(s) = 1 /\ \E S : s \in Seq(S)
  BY Sequences1, Zenon DEF U!Embedding
<1>3. Len(t) = 13 * LayerCount /\ t \in Seq({t[i] : i \in 1 .. 13 * LayerCount})
  <2>1. LayerCount * 13 = 13 * LayerCount /\ 13 * LayerCount \in Nat
    OBVIOUS
  <2>2. t = [i \in 1 .. 13 * LayerCount |-> t[i]]
    BY <2>1
  <2> HIDE DEF t
  <2> QED BY <2>1, <2>2
<1>4. Len(u) = 2 /\ \E S : u \in Seq(S)
  BY Sequences2, Zenon DEF U!LanguageModelHead
<1>5. \A l \in U!Layers, j \in 1 .. 13 :
         13 * (l - 1) + j \in 1 .. 13 * LayerCount /\ t[13 * (l - 1) + j] = U!LayerSteps(l)[j]
  <2> SUFFICES ASSUME NEW l \in U!Layers, NEW j \in 1 .. 13
               PROVE  13 * (l - 1) + j \in 1 .. 13 * LayerCount
                        /\ t[13 * (l - 1) + j] = U!LayerSteps(l)[j]
    OBVIOUS
  <2> DEFINE i == 13 * (l - 1) + j
  <2>1. i \in 1 .. LayerCount * 13 /\ i \in 1 .. 13 * LayerCount
    BY DEF U!Layers
  <2>2. 1 + (i - 1) \div 13 = l /\ 1 + ((i - 1) % 13) = j
    <3>1. i - 1 = (l - 1) * 13 + (j - 1) /\ j - 1 \in 0 .. 13 - 1 /\ l - 1 \in Int /\ l \in Int
      BY DEF U!Layers
    <3>2. (i - 1) \div 13 = l - 1 /\ (i - 1) % 13 = j - 1
      <4> DEFINE y == i - 1
                 b == l - 1
                 c == j - 1
      <4>1. y = b * 13 + c /\ c \in 0 .. 13 - 1 /\ b \in Int /\ 13 \in Nat /\ 13 > 0
        BY <3>1
      <4> HIDE DEF y, b, c
      <4>2. y \div 13 = b /\ y % 13 = c
        BY <4>1, DivModIs
      <4> QED BY <4>2 DEF y, b, c
    <3> HIDE DEF i
    <3> QED BY <3>1, <3>2
  <2>3. t[i] = U!LayerSteps(1 + (i - 1) \div 13)[1 + ((i - 1) % 13)]
    <3> HIDE DEF i
    <3> QED BY <2>1
  <2> QED BY <2>1, <2>2, <2>3
<1> HIDE DEF s, t, u
<1>6. PICK V : s \in Seq(V) /\ t \in Seq(V) /\ u \in Seq(V)
  <2>1. PICK S : s \in Seq(S)
    BY <1>2
  <2>2. PICK T : t \in Seq(T)
    BY <1>3
  <2>3. PICK R : u \in Seq(R)
    BY <1>4
  <2>4. /\ s \in Seq(S \union T \union R) /\ t \in Seq(S \union T \union R)
        /\ u \in Seq(S \union T \union R)
    BY <2>1, <2>2, <2>3
  <2> QED BY <2>4
<1> DEFINE w == s \o t
           x == w \o u
           N == 13 * LayerCount
<1>7. /\ w \in Seq(V) /\ Len(w) = N + 1
      /\ \A i \in 1 .. N + 1 : w[i] = IF i <= 1 THEN s[i] ELSE t[i - 1]
  <2>1. w \in Seq(V) /\ Len(w) = Len(s) + Len(t)
           /\ \A i \in 1 .. Len(s) + Len(t) : w[i] = IF i <= Len(s) THEN s[i] ELSE t[i - Len(s)]
    BY <1>6, ConcatProperties, Zenon
  <2>2. Len(s) = 1 /\ Len(t) = N /\ N \in Nat
    BY <1>2, <1>3
  <2> HIDE DEF w, N
  <2> QED BY <2>1, <2>2
<1> HIDE DEF w
<1>8. Len(x) = N + 3 /\ \A i \in 1 .. N + 3 : x[i] = IF i <= N + 1 THEN w[i] ELSE u[i - (N + 1)]
  <2>1. Len(x) = Len(w) + Len(u)
           /\ \A i \in 1 .. Len(w) + Len(u) : x[i] = IF i <= Len(w) THEN w[i] ELSE u[i - Len(w)]
    BY <1>6, <1>7, ConcatProperties, Zenon
  <2> HIDE DEF x
  <2> QED BY <2>1, <1>4, <1>7
<1>9. U!DecoderSteps = x
  BY <1>1 DEF x, w
<1> HIDE DEF x
<1>10. N \in Nat /\ x[1] = s[1] /\ x[N + 2] = u[1] /\ x[N + 3] = u[2]
  BY <1>7, <1>8
<1>11. \A l \in U!Layers, j \in 1 .. 13 : x[13 * (l - 1) + j + 1] = U!LayerSteps(l)[j]
  <2> SUFFICES ASSUME NEW l \in U!Layers, NEW j \in 1 .. 13
               PROVE  x[13 * (l - 1) + j + 1] = U!LayerSteps(l)[j]
    OBVIOUS
  <2> DEFINE i == 13 * (l - 1) + j
  <2>1. i \in 1 .. N /\ t[i] = U!LayerSteps(l)[j]
    BY <1>5
  <2> HIDE DEF i, N
  <2>2. i + 1 \in 1 .. N + 1 /\ i + 1 \in 1 .. N + 3 /\ ~(i + 1 <= 1) /\ (i + 1) - 1 = i
          /\ i + 1 <= N + 1
    BY <1>10, <2>1
  <2>3. x[i + 1] = t[i]
    BY <1>7, <1>8, <2>2
  <2> QED BY <2>1, <2>3 DEF i
<1> QED BY <1>8, <1>9, <1>10, <1>11 DEF s, u, N

\* Every step is one of these.
LEMMA StepIsOneOf ==
  ASSUME LayerCount \in Nat, NEW i \in 1 .. 13 * LayerCount + 3
  PROVE  \/ i = 1 \/ i = 13 * LayerCount + 2 \/ i = 13 * LayerCount + 3
         \/ \E l \in U!Layers, j \in 1 .. 13 : i = 13 * (l - 1) + j + 1
<1> SUFFICES ASSUME i # 1, i # 13 * LayerCount + 2, i # 13 * LayerCount + 3
             PROVE  \E l \in U!Layers, j \in 1 .. 13 : i = 13 * (l - 1) + j + 1
  OBVIOUS
<1> DEFINE x == i - 2
           q == x \div 13
           r == x % 13
<1>1. x \in 0 .. 13 * LayerCount - 1 /\ i = x + 2
  OBVIOUS
<1> HIDE DEF x
<1>2. q \in Int /\ r \in 0 .. 12 /\ x = 13 * q + r
  BY <1>1
<1> HIDE DEF q, r
<1>3. q + 1 \in U!Layers /\ r + 1 \in 1 .. 13 /\ i = 13 * ((q + 1) - 1) + (r + 1) + 1
  BY <1>1, <1>2 DEF U!Layers
<1> QED BY <1>3

\* Steps that are placed where they stand are ordered.
LEMMA PlacedIsOrdered ==
  ASSUME NEW steps, NEW N \in Nat, \A i \in 1 .. N : PlacedAt(steps[i], i)
  PROVE  Ordered(steps, N)
BY DEF PlacedAt, Ordered

LEMMA DecoderIsPlaced ==
  ASSUME LayerCount \in Nat
  PROVE  \A i \in 1 .. 13 * LayerCount + 3 : PlacedAt(U!DecoderSteps[i], i)
<1> DEFINE N == 13 * LayerCount + 3
<1>1. Len(U!DecoderSteps) = N /\ N \in Nat
  BY StepsOfDecoder
<1>2. ASSUME NEW i \in 1 .. N PROVE PlacedAt(U!DecoderSteps[i], i)
  <2>1. CASE i = 1
    <3>1. U!DecoderSteps[1] = U!Step("embedding", <<U!Common("tokens"), U!Common("embeddingWeight"),
                                       U!Common("positionTable"), U!Own("length", 1)>>, U!Own("hidden", 0))
      BY StepsOfDecoder DEF U!Embedding
    <3>2. /\ Place(U!Own("hidden", 0)) = 1 /\ Place(U!Common("tokens")) < 1
          /\ Place(U!Common("embeddingWeight")) < 1 /\ Place(U!Common("positionTable")) < 1
          /\ Place(U!Own("length", 1)) < 1
      BY DEF Place, U!Own, U!Common
    <3> QED BY <2>1, <3>1, <3>2, OfFour
  <2>2. CASE \E l \in U!Layers, j \in 1 .. 13 : i = 13 * (l - 1) + j + 1
    BY <2>2, StepsOfDecoder, LayerStepsArePlaced
  <2>3. CASE i = 13 * LayerCount + 2
    <3>1. U!DecoderSteps[i] = U!Step("linear", <<U!Own("hidden", LayerCount),
                                       U!Common("languageModelHeadWeight"),
                                       U!Common("languageModelHeadBias")>>, U!Common("logits"))
      BY <2>3, StepsOfDecoder DEF U!LanguageModelHead
    <3>2. /\ Place(U!Common("logits")) = i /\ Place(U!Common("languageModelHeadWeight")) < i
          /\ Place(U!Common("languageModelHeadBias")) < i
      BY <2>3 DEF Place, U!Common
    <3>3. Place(U!Own("hidden", LayerCount)) < i
      BY <2>3, PlacesOfLayer
    <3> QED BY <3>1, <3>2, <3>3, OfThree
  <2>4. CASE i = 13 * LayerCount + 3
    <3>1. U!DecoderSteps[i] = U!Step("argmax", <<U!Common("logits")>>, U!Common("nextTokens"))
      BY <2>4, StepsOfDecoder DEF U!LanguageModelHead
    <3>2. Place(U!Common("logits")) < i /\ Place(U!Common("nextTokens")) = i
      BY <2>4 DEF Place, U!Common
    <3> QED BY <3>1, <3>2 DEF PlacedAt, U!Step
  <2> QED BY <2>1, <2>2, <2>3, <2>4, StepIsOneOf
<1> QED BY <1>2

LEMMA DecoderIsOrdered ==
  ASSUME LayerCount \in Nat
  PROVE  Ordered(U!DecoderSteps, Len(U!DecoderSteps))
<1> DEFINE N == 13 * LayerCount + 3
<1>1. Len(U!DecoderSteps) = N /\ N \in Nat /\ \A i \in 1 .. N : PlacedAt(U!DecoderSteps[i], i)
  BY StepsOfDecoder, DecoderIsPlaced
<1> HIDE DEF N
<1> QED BY <1>1, PlacedIsOrdered

\* The five steps of the attention on its own.
LEMMA AttentionIsOrdered ==
  Len(U!AttentionSteps) = 5 /\ Ordered(U!AttentionSteps, Len(U!AttentionSteps))
<1> DEFINE P(b) == CASE b = U!Own("query", 1) -> 1 [] b = U!Own("keys", 1) -> 2
                     [] b = U!Own("values", 1) -> 3 [] b = U!Own("selfContext", 1) -> 4
                     [] b = U!Common("output") -> 5 [] OTHER -> 0
<1>1. Len(U!AttentionSteps) = 5
  BY DEF U!AttentionSteps
<1>2. \A i \in 1 .. 5 : P(U!AttentionSteps[i].out) = i
                         /\ \A k \in DOMAIN U!AttentionSteps[i].in : P(U!AttentionSteps[i].in[k]) < i
  <2> SUFFICES ASSUME NEW i \in 1 .. 5
               PROVE  P(U!AttentionSteps[i].out) = i
                         /\ \A k \in DOMAIN U!AttentionSteps[i].in : P(U!AttentionSteps[i].in[k]) < i
    OBVIOUS
  <2>1. CASE i = 1
    BY <2>1 DEF U!AttentionSteps, U!Step, U!Own, U!Common
  <2>2. CASE i = 2
    BY <2>2 DEF U!AttentionSteps, U!Step, U!Own, U!Common
  <2>3. CASE i = 3
    BY <2>3 DEF U!AttentionSteps, U!Step, U!Own, U!Common
  <2>4. CASE i = 4
    BY <2>4 DEF U!AttentionSteps, U!Step, U!Own, U!Common
  <2>5. CASE i = 5
    BY <2>5 DEF U!AttentionSteps, U!Step, U!Own, U!Common
  <2> QED BY <2>1, <2>2, <2>3, <2>4, <2>5
<1> HIDE DEF P
<1> QED BY <1>1, <1>2 DEF Ordered

----------------------------------------------------------------------------
(* What a step makes. *)

LEMMA MadeOfOne ==
  ASSUME NEW a, NEW kernel, NEW x, NEW out, NEW old, NEW n
  PROVE  Made(a, U!Step(kernel, <<x>>, out), old, n) = U!Result(kernel, <<U!Content(a, x)>>, old, n)
<1> DEFINE s == U!Step(kernel, <<x>>, out)
<1>1. s.kernel = kernel /\ s.in = <<x>>
  BY DEF U!Step
<1>2. [k \in DOMAIN s.in |-> U!Content(a, s.in[k])] = <<U!Content(a, x)>>
  <2>1. [k \in DOMAIN <<x>> |-> U!Content(a, <<x>>[k])] = <<U!Content(a, x)>>
    <3> QED OBVIOUS
  <2> HIDE DEF s
  <2> QED BY <1>1, <2>1
<1> HIDE DEF s
<1> QED BY <1>1, <1>2 DEF Made, s

LEMMA MadeOfTwo ==
  ASSUME NEW a, NEW kernel, NEW x, NEW y, NEW out, NEW old, NEW n
  PROVE  Made(a, U!Step(kernel, <<x, y>>, out), old, n)
           = U!Result(kernel, <<U!Content(a, x), U!Content(a, y)>>, old, n)
<1> DEFINE s == U!Step(kernel, <<x, y>>, out)
<1>1. s.kernel = kernel /\ s.in = <<x, y>>
  BY DEF U!Step
<1>2. [k \in DOMAIN s.in |-> U!Content(a, s.in[k])] = <<U!Content(a, x), U!Content(a, y)>>
  <2>1. [k \in DOMAIN <<x, y>> |-> U!Content(a, <<x, y>>[k])] = <<U!Content(a, x), U!Content(a, y)>>
    <3> QED OBVIOUS
  <2> HIDE DEF s
  <2> QED BY <1>1, <2>1
<1> HIDE DEF s
<1> QED BY <1>1, <1>2 DEF Made, s

LEMMA MadeOfThree ==
  ASSUME NEW a, NEW kernel, NEW x, NEW y, NEW z, NEW out, NEW old, NEW n
  PROVE  Made(a, U!Step(kernel, <<x, y, z>>, out), old, n)
           = U!Result(kernel, <<U!Content(a, x), U!Content(a, y), U!Content(a, z)>>, old, n)
<1> DEFINE s == U!Step(kernel, <<x, y, z>>, out)
<1>1. s.kernel = kernel /\ s.in = <<x, y, z>>
  BY DEF U!Step
<1>2. [k \in DOMAIN s.in |-> U!Content(a, s.in[k])] = <<U!Content(a, x), U!Content(a, y), U!Content(a, z)>>
  <2>1. [k \in DOMAIN <<x, y, z>> |-> U!Content(a, <<x, y, z>>[k])]
          = <<U!Content(a, x), U!Content(a, y), U!Content(a, z)>>
    <3> QED OBVIOUS
  <2> HIDE DEF s
  <2> QED BY <1>1, <2>1
<1> HIDE DEF s
<1> QED BY <1>1, <1>2 DEF Made, s

LEMMA MadeOfFour ==
  ASSUME NEW a, NEW kernel, NEW x, NEW y, NEW z, NEW v, NEW out, NEW old, NEW n
  PROVE  Made(a, U!Step(kernel, <<x, y, z, v>>, out), old, n)
           = U!Result(kernel, <<U!Content(a, x), U!Content(a, y), U!Content(a, z), U!Content(a, v)>>, old, n)
<1> DEFINE s == U!Step(kernel, <<x, y, z, v>>, out)
<1>1. s.kernel = kernel /\ s.in = <<x, y, z, v>>
  BY DEF U!Step
<1>2. [k \in DOMAIN s.in |-> U!Content(a, s.in[k])]
        = <<U!Content(a, x), U!Content(a, y), U!Content(a, z), U!Content(a, v)>>
  <2>1. [k \in DOMAIN <<x, y, z, v>> |-> U!Content(a, <<x, y, z, v>>[k])]
          = <<U!Content(a, x), U!Content(a, y), U!Content(a, z), U!Content(a, v)>>
    <3> QED OBVIOUS
  <2> HIDE DEF s
  <2> QED BY <1>1, <2>1
<1> HIDE DEF s
<1> QED BY <1>1, <1>2 DEF Made, s

\* Buffer o of memory a holds f(row) for every row of the stage.
HasRows(x, n) == DOMAIN x = U!Rows(n)

LEMMA EmbeddingMakes ==
  ASSUME NEW x, NEW w, NEW p, NEW length1, NEW old, NEW n
  PROVE  LET r == U!Result("embedding", <<x, w, p, length1>>, old, n)
         IN  HasRows(r, n)
               /\ \A row \in U!Rows(n) : r[row] = U!Embedded(x[row], length1 - n + U!TokenOf(row, n))
BY DEF U!Result, U!emitTokenEmbedding, HasRows

LEMMA LinearMakes ==
  ASSUME NEW x, NEW w, NEW b, NEW old, NEW n, HasRows(x, n)
  PROVE  LET r == U!Result("linear", <<x, w, b>>, old, n)
         IN  HasRows(r, n) /\ \A row \in U!Rows(n) : r[row] = U!Linear(x[row], w, b)
BY DEF U!Result, U!emitBiasedLinear, HasRows

LEMMA LinearReluMakes ==
  ASSUME NEW x, NEW w, NEW b, NEW old, NEW n, HasRows(x, n)
  PROVE  LET r == U!Result("linearRelu", <<x, w, b>>, old, n)
         IN  HasRows(r, n) /\ \A row \in U!Rows(n) : r[row] = U!Relu(U!Linear(x[row], w, b))
BY DEF U!Result, U!emitBiasedLinear, HasRows

LEMMA QueryMakes ==
  ASSUME NEW x, NEW w, NEW old, NEW n, HasRows(x, n)
  PROVE  LET r == U!Result("query", <<x, w>>, old, n)
         IN  HasRows(r, n) /\ \A row \in U!Rows(n) : r[row] = U!Linear(x[row], w, U!NoBias)
BY DEF U!Result, U!emitKVQueryProjection, HasRows

LEMMA OutputMakes ==
  ASSUME NEW x, NEW w, NEW old, NEW n, HasRows(x, n)
  PROVE  LET r == U!Result("output", <<x, w>>, old, n)
         IN  HasRows(r, n) /\ \A row \in U!Rows(n) : r[row] = U!Linear(x[row], w, U!NoBias)
BY DEF U!Result, U!emitKVOutputProjection, HasRows

LEMMA ResidualMakes ==
  ASSUME NEW x, NEW u, NEW g, NEW b, NEW old, NEW n, HasRows(x, n)
  PROVE  LET r == U!Result("residualNorm", <<x, u, g, b>>, old, n)
         IN  HasRows(r, n) /\ \A row \in U!Rows(n) : r[row] = U!Normalized(x[row], u[row], g, b)
BY DEF U!Result, U!emitResidualLayerNorm, HasRows

LEMMA ArgmaxMakes ==
  ASSUME NEW x, NEW old, NEW n, HasRows(x, n)
  PROVE  LET r == U!Result("argmax", <<x>>, old, n)
         IN  HasRows(r, n) /\ \A row \in U!Rows(n) : r[row] = U!Largest(x[row])
BY DEF U!Result, U!emitArgmax, HasRows

LEMMA CrossMakes ==
  ASSUME NEW x, NEW ks, NEW vs, NEW old, NEW n
  PROVE  LET r == U!Result("crossAttention", <<x, ks, vs>>, old, n)
         IN  HasRows(r, n)
               /\ \A row \in U!Rows(n) :
                    r[row] = U!Attended(x[row], ks[U!BatchOf(row, n) + 1], vs[U!BatchOf(row, n) + 1])
BY DEF U!Result, U!emitCrossAttention, HasRows

\* The tokens before the stage's keep their rows; a token of the stage has its own.
LEMMA CacheMakes ==
  ASSUME NEW x, NEW w, NEW size, NEW old, NEW n
  PROVE  LET r == U!Result("cache", <<x, w, size>>, old, n)
         IN  \A cell \in U!Cells :
               r[cell] = LET token == cell[2] - (size - n)
                         IN  IF size \in n .. Capacity /\ token \in 0 .. n - 1
                             THEN U!Linear(x[cell[1] * n + token + 1], w, U!NoBias)
                             ELSE old[cell]
BY DEF U!Result, U!emitKVCacheProjection

\* A token attends to those before it, or to all.
AttendsBefore(r, x, ks, vs, size, n) ==
  \A row \in U!Rows(n) :
    LET seen == size - n + U!TokenOf(row, n) + 1
        b == U!BatchOf(row, n)
    IN  r[row] = U!Attended(x[row], [q \in 0 .. seen - 1 |-> ks[<<b, q>>]],
                            [q \in 0 .. seen - 1 |-> vs[<<b, q>>]])

AttendsAll(r, x, ks, vs, size, n) ==
  \A row \in U!Rows(n) :
    LET b == U!BatchOf(row, n)
    IN  r[row] = U!Attended(x[row], [q \in 0 .. size - 1 |-> ks[<<b, q>>]],
                            [q \in 0 .. size - 1 |-> vs[<<b, q>>]])

LEMMA CausalMakes ==
  ASSUME NEW x, NEW ks, NEW vs, NEW size, NEW old, NEW n, size \in n .. Capacity
  PROVE  LET r == U!Result("causalAttention", <<x, ks, vs, size>>, old, n)
         IN  HasRows(r, n) /\ AttendsBefore(r, x, ks, vs, size, n)
BY DEF U!Result, U!emitAttention, HasRows, AttendsBefore

LEMMA AttentionMakes ==
  ASSUME NEW x, NEW ks, NEW vs, NEW size, NEW old, NEW n, size \in n .. Capacity
  PROVE  LET r == U!Result("attention", <<x, ks, vs, size>>, old, n)
         IN  HasRows(r, n) /\ AttendsAll(r, x, ks, vs, size, n)
BY DEF U!Result, U!emitAttention, HasRows, AttendsAll

----------------------------------------------------------------------------
(* The memory of a run. *)

\* The buffers of a run, and what they hold when it begins.
RunBuffers ==
  (({"keys", "values", "memoryKeys", "memoryValues", "length"} \union U!Intermediates) \X U!Used)
    \union ((U!Inputs \union U!Outputs \union {"tokens"}) \X {0}) \union {U!Own("hidden", 0)}

RunMemory ==
  [b \in RunBuffers |->
     CASE b \in DOMAIN caches -> caches[b]
       [] b \in DOMAIN memory -> memory[b]
       [] b[1] = "length" -> unpagedDevLength[b[2]]
       [] b[1] \in U!Inputs \union {"tokens"} -> U!Fed(b[1], run.tokens)
       [] OTHER -> U!Stale]

LEMMA AfterExecutes ==
  ASSUME NEW count
  PROVE  U!After(count) = U!Execute(RunMemory, U!Steps, count, Len(run.tokens))
BY DEF U!After, RunMemory, RunBuffers

\* The caches are those of the layers in use.
CachesTyped == DOMAIN caches = {"keys", "values"} \X U!Used

MemoryTyped == DOMAIN memory = {"memoryKeys", "memoryValues"} \X U!Used

\* The buffers of a layer, and the weights that are none.
LEMMA BuffersOfRun ==
  ASSUME NEW l \in U!Used
  PROVE  \A name \in {"keys", "values", "memoryKeys", "memoryValues", "length"} \union U!Intermediates :
           U!Own(name, l) \in RunBuffers
BY DEF RunBuffers, U!Own

LEMMA WeightsOfRun ==
  ASSUME NEW l
  PROVE  \A name \in {"crossNormBias", "crossNormWeight", "crossOutputBias",
                       "crossOutputWeight", "crossQueryBias", "crossQueryWeight",
                       "feedForwardInputBias", "feedForwardInputWeight", "feedForwardNormBias",
                       "feedForwardNormWeight", "feedForwardOutputBias", "feedForwardOutputWeight",
                       "selfKeyWeight", "selfNormBias", "selfNormWeight",
                       "selfOutputWeight", "selfQueryWeight", "selfValueWeight"} :
           U!Own(name, l) \notin RunBuffers
BY DEF RunBuffers, U!Own, U!Intermediates, U!Inputs, U!Outputs

LEMMA CommonOfRun ==
  /\ \A name \in {"tokens", "queryInput", "keyInput", "valueInput", "logits", "nextTokens", "output",
                  "hidden"} :
       U!Common(name) \in RunBuffers
  /\ \A name \in {"embeddingWeight", "positionTable", "languageModelHeadWeight", "languageModelHeadBias"} :
       U!Common(name) \notin RunBuffers
<1> QED BY DEF RunBuffers, U!Common, U!Own, U!Intermediates, U!Inputs, U!Outputs

\* The weights of the attention on its own.
LEMMA WeightsOfAttention ==
  \A name \in {"queryWeight", "keyWeight", "valueWeight", "outputWeight"} : U!Own(name, 1) \notin RunBuffers
<1> QED BY DEF RunBuffers, U!Own, U!Intermediates, U!Inputs, U!Outputs

\* What a run reads before it has written it.
LEMMA RunBegins ==
  ASSUME CachesTyped, MemoryTyped
  PROVE  /\ DOMAIN RunMemory = RunBuffers
         /\ \A l \in U!Used : /\ RunMemory[U!Own("keys", l)] = caches[U!Own("keys", l)]
                             /\ RunMemory[U!Own("values", l)] = caches[U!Own("values", l)]
                             /\ RunMemory[U!Own("memoryKeys", l)] = memory[U!Own("memoryKeys", l)]
                             /\ RunMemory[U!Own("memoryValues", l)] = memory[U!Own("memoryValues", l)]
                             /\ RunMemory[U!Own("length", l)] = unpagedDevLength[l]
         /\ \A name \in {"tokens", "queryInput", "keyInput", "valueInput"} :
              RunMemory[U!Common(name)] = U!Fed(name, run.tokens)
<1>1. DOMAIN RunMemory = RunBuffers
  BY DEF RunMemory
<1>2. \A b \in RunBuffers :
        RunMemory[b] = CASE b \in DOMAIN caches -> caches[b]
                         [] b \in DOMAIN memory -> memory[b]
                         [] b[1] = "length" -> unpagedDevLength[b[2]]
                         [] b[1] \in U!Inputs \union {"tokens"} -> U!Fed(b[1], run.tokens)
                         [] OTHER -> U!Stale
  BY DEF RunMemory
<1>3. ASSUME NEW l \in U!Used
      PROVE  /\ U!Own("keys", l) \in DOMAIN caches /\ U!Own("values", l) \in DOMAIN caches
             /\ U!Own("memoryKeys", l) \in DOMAIN memory /\ U!Own("memoryKeys", l) \notin DOMAIN caches
             /\ U!Own("memoryValues", l) \in DOMAIN memory /\ U!Own("memoryValues", l) \notin DOMAIN caches
             /\ U!Own("length", l) \notin DOMAIN memory /\ U!Own("length", l) \notin DOMAIN caches
             /\ U!Own("keys", l) \notin DOMAIN memory /\ U!Own("values", l) \notin DOMAIN memory
             /\ U!Own("length", l)[2] = l
             /\ \A name \in {"keys", "values", "memoryKeys", "memoryValues", "length"} :
                  U!Own(name, l)[1] = name /\ name \notin U!Inputs \union {"tokens"}
             /\ \A name \in {"keys", "values", "memoryKeys", "memoryValues", "length"} :
                  U!Own(name, l) \in RunBuffers
  <2>1. \A name \in {"keys", "values", "memoryKeys", "memoryValues", "length"} :
          U!Own(name, l) \in RunBuffers
    BY BuffersOfRun
  <2> QED BY <2>1 DEF CachesTyped, MemoryTyped, U!Own, U!Inputs
<1>4. ASSUME NEW l \in U!Used
      PROVE  /\ RunMemory[U!Own("keys", l)] = caches[U!Own("keys", l)]
             /\ RunMemory[U!Own("values", l)] = caches[U!Own("values", l)]
             /\ RunMemory[U!Own("memoryKeys", l)] = memory[U!Own("memoryKeys", l)]
             /\ RunMemory[U!Own("memoryValues", l)] = memory[U!Own("memoryValues", l)]
             /\ RunMemory[U!Own("length", l)] = unpagedDevLength[l]
  <2>1. RunMemory[U!Own("keys", l)] = caches[U!Own("keys", l)]
    BY <1>2, <1>3
  <2>2. RunMemory[U!Own("values", l)] = caches[U!Own("values", l)]
    BY <1>2, <1>3
  <2>3. RunMemory[U!Own("memoryKeys", l)] = memory[U!Own("memoryKeys", l)]
    BY <1>2, <1>3
  <2>4. RunMemory[U!Own("memoryValues", l)] = memory[U!Own("memoryValues", l)]
    BY <1>2, <1>3
  <2>5. RunMemory[U!Own("length", l)] = unpagedDevLength[l]
    BY <1>2, <1>3
  <2> QED BY <2>1, <2>2, <2>3, <2>4, <2>5
<1>5. ASSUME NEW name \in {"tokens", "queryInput", "keyInput", "valueInput"}
      PROVE  RunMemory[U!Common(name)] = U!Fed(name, run.tokens)
  <2>1. U!Common(name) \in RunBuffers
    BY CommonOfRun
  <2>2. /\ U!Common(name) \notin DOMAIN caches /\ U!Common(name) \notin DOMAIN memory
        /\ U!Common(name)[1] = name /\ name # "length" /\ name \in U!Inputs \union {"tokens"}
    BY DEF CachesTyped, MemoryTyped, U!Common, U!Inputs
  <2> QED BY <1>2, <2>1, <2>2
<1> QED BY <1>1, <1>2, <1>3, <1>4, <1>5

----------------------------------------------------------------------------
(* A run as equations. *)

IsExecutor == executor \in {"transformer", "attention"}

LEMMA UsedLayers ==
  ASSUME UnpagedSetting, IsExecutor
  PROVE  /\ LayerCount \in Nat \ {0} /\ Batch \in Nat \ {0} /\ Capacity \in Nat \ {0}
         /\ 1 \in U!Used /\ U!Used \subseteq Nat /\ U!Last \in Nat \ {0} /\ U!Used = 1 .. U!Last
         /\ executor = "transformer" => U!Used = U!Layers
         /\ executor = "attention" => U!Used = {1}
<1>1. LayerCount \in Nat \ {0} /\ Batch \in Nat \ {0} /\ Capacity \in Nat \ {0}
  BY DEF UnpagedSetting, U!UnpagedDecoderAssumption
<1>2. CASE executor = "transformer"
  BY <1>1, <1>2 DEF U!Used, U!Last, U!Layers
<1>3. CASE executor = "attention"
  <2>1. 1 .. 1 = {1}
    OBVIOUS
  <2> QED BY <1>1, <1>3, <2>1 DEF U!Used, U!Last
<1> QED BY <1>1, <1>2, <1>3 DEF IsExecutor

\* The steps of a decoder's layer write buffers of the layer.
LEMMA LayerStepsWrite ==
  ASSUME NEW l, NEW j \in 1 .. 13
  PROVE  \E name \in {"keys", "values"} \union U!Intermediates : U!LayerSteps(l)[j].out = U!Own(name, l)
<1>1. /\ U!LayerSteps(l)[1] = U!SelfAttention(l)[1]
      /\ U!LayerSteps(l)[2] = U!SelfAttention(l)[2]
      /\ U!LayerSteps(l)[3] = U!SelfAttention(l)[3]
      /\ U!LayerSteps(l)[4] = U!SelfAttention(l)[4]
      /\ U!LayerSteps(l)[5] = U!SelfAttention(l)[5]
      /\ U!LayerSteps(l)[6] = U!SelfAttention(l)[6]
      /\ U!LayerSteps(l)[7] = U!CrossAttention(l)[1]
      /\ U!LayerSteps(l)[8] = U!CrossAttention(l)[2]
      /\ U!LayerSteps(l)[9] = U!CrossAttention(l)[3]
      /\ U!LayerSteps(l)[10] = U!CrossAttention(l)[4]
      /\ U!LayerSteps(l)[11] = U!FeedForward(l)[1]
      /\ U!LayerSteps(l)[12] = U!FeedForward(l)[2]
      /\ U!LayerSteps(l)[13] = U!FeedForward(l)[3]
  BY LayerStepsAre
<1>6. /\ U!SelfAttention(l)[1].out = U!Own("query", l)
      /\ U!SelfAttention(l)[2].out = U!Own("keys", l)
      /\ U!SelfAttention(l)[3].out = U!Own("values", l)
      /\ U!SelfAttention(l)[4].out = U!Own("selfContext", l)
      /\ U!SelfAttention(l)[5].out = U!Own("selfOutput", l)
      /\ U!SelfAttention(l)[6].out = U!Own("selfNormalized", l)
  BY DEF U!SelfAttention, U!Step
<1>7. /\ U!CrossAttention(l)[1].out = U!Own("crossQuery", l)
      /\ U!CrossAttention(l)[2].out = U!Own("crossContext", l)
      /\ U!CrossAttention(l)[3].out = U!Own("crossOutput", l)
      /\ U!CrossAttention(l)[4].out = U!Own("crossNormalized", l)
  BY DEF U!CrossAttention, U!Step
<1>8. /\ U!FeedForward(l)[1].out = U!Own("feedForwardHidden", l)
      /\ U!FeedForward(l)[2].out = U!Own("feedForwardOutput", l)
      /\ U!FeedForward(l)[3].out = U!Own("hidden", l)
  BY DEF U!FeedForward, U!Step
<1>2. /\ U!LayerSteps(l)[1].out = U!Own("query", l)
      /\ U!LayerSteps(l)[2].out = U!Own("keys", l)
      /\ U!LayerSteps(l)[3].out = U!Own("values", l)
      /\ U!LayerSteps(l)[4].out = U!Own("selfContext", l)
      /\ U!LayerSteps(l)[5].out = U!Own("selfOutput", l)
      /\ U!LayerSteps(l)[6].out = U!Own("selfNormalized", l)
      /\ U!LayerSteps(l)[7].out = U!Own("crossQuery", l)
      /\ U!LayerSteps(l)[8].out = U!Own("crossContext", l)
      /\ U!LayerSteps(l)[9].out = U!Own("crossOutput", l)
      /\ U!LayerSteps(l)[10].out = U!Own("crossNormalized", l)
      /\ U!LayerSteps(l)[11].out = U!Own("feedForwardHidden", l)
      /\ U!LayerSteps(l)[12].out = U!Own("feedForwardOutput", l)
      /\ U!LayerSteps(l)[13].out = U!Own("hidden", l)
  BY <1>1, <1>6, <1>7, <1>8
<1> DEFINE Names == {"keys", "values"} \union U!Intermediates
<1>3. \A name \in {"query", "keys", "values", "selfContext", "selfOutput", "selfNormalized", "crossQuery",
                   "crossContext", "crossOutput", "crossNormalized", "feedForwardHidden", "feedForwardOutput",
                       "hidden"} : name \in Names
  BY DEF U!Intermediates
<1> HIDE DEF Names
<1>4. CASE j \in {1, 2, 3, 4, 5, 6}
  BY <1>2, <1>3, <1>4 DEF Names
<1>5. CASE j \in {7, 8, 9, 10, 11, 12, 13}
  BY <1>2, <1>3, <1>5 DEF Names
<1> QED BY <1>4, <1>5

\* Every step of a run writes a buffer of the run.
LEMMA StepsWrite ==
  ASSUME UnpagedSetting, IsExecutor
  PROVE  \A i \in 1 .. Len(U!Steps) : U!Steps[i].out \in RunBuffers
<1> SUFFICES ASSUME NEW i \in 1 .. Len(U!Steps) PROVE U!Steps[i].out \in RunBuffers
  OBVIOUS
<1>1. CASE executor = "transformer"
  <2>1. U!Steps = U!DecoderSteps /\ LayerCount \in Nat /\ U!Used = U!Layers
    BY <1>1, UsedLayers DEF U!Steps
  <2>2. i \in 1 .. 13 * LayerCount + 3
    BY <2>1, StepsOfDecoder
  <2>3. CASE i = 1
    <3>1. U!Steps[1].out = U!Own("hidden", 0)
      BY <2>1, StepsOfDecoder DEF U!Embedding, U!Step
    <3> QED BY <2>3, <3>1 DEF RunBuffers
  <2>4. CASE i = 13 * LayerCount + 2
    <3>1. U!Steps[i].out = U!Common("logits")
      BY <2>1, <2>4, StepsOfDecoder DEF U!LanguageModelHead, U!Step
    <3> QED BY <3>1, CommonOfRun
  <2>5. CASE i = 13 * LayerCount + 3
    <3>1. U!Steps[i].out = U!Common("nextTokens")
      BY <2>1, <2>5, StepsOfDecoder DEF U!LanguageModelHead, U!Step
    <3> QED BY <3>1, CommonOfRun
  <2>6. CASE \E l \in U!Layers, j \in 1 .. 13 : i = 13 * (l - 1) + j + 1
    <3>1. PICK l \in U!Layers, j \in 1 .. 13 : i = 13 * (l - 1) + j + 1
      BY <2>6
    <3>2. U!Steps[i] = U!LayerSteps(l)[j]
      BY <2>1, <3>1, StepsOfDecoder
    <3>3. PICK name \in {"keys", "values"} \union U!Intermediates : U!LayerSteps(l)[j].out = U!Own(name, l)
      BY LayerStepsWrite
    <3> QED BY <2>1, <3>2, <3>3, BuffersOfRun
  <2> QED BY <2>1, <2>2, <2>3, <2>4, <2>5, <2>6, StepIsOneOf
<1>2. CASE executor = "attention"
  <2>1. U!Steps = U!AttentionSteps /\ 1 \in U!Used /\ i \in 1 .. 5
    BY <1>2, UsedLayers, AttentionIsOrdered DEF U!Steps
  <2>2. /\ U!AttentionSteps[1].out = U!Own("query", 1) /\ U!AttentionSteps[2].out = U!Own("keys", 1)
        /\ U!AttentionSteps[3].out = U!Own("values", 1)
        /\ U!AttentionSteps[4].out = U!Own("selfContext", 1) /\ U!AttentionSteps[5].out = U!Common("output")
    BY DEF U!AttentionSteps, U!Step
  <2>3. /\ U!Own("query", 1) \in RunBuffers /\ U!Own("keys", 1) \in RunBuffers
        /\ U!Own("values", 1) \in RunBuffers /\ U!Own("selfContext", 1) \in RunBuffers
        /\ U!Common("output") \in RunBuffers
    BY <2>1, BuffersOfRun, CommonOfRun DEF U!Intermediates
  <2> QED BY <2>1, <2>2, <2>3
<1> QED BY <1>1, <1>2 DEF IsExecutor

LEMMA StepsAreOrdered ==
  ASSUME UnpagedSetting, IsExecutor
  PROVE  Len(U!Steps) \in Nat /\ Ordered(U!Steps, Len(U!Steps))
<1>1. CASE executor = "transformer"
  <2>1. U!Steps = U!DecoderSteps /\ LayerCount \in Nat
    BY <1>1, UsedLayers DEF U!Steps
  <2> QED BY <2>1, StepsOfDecoder, DecoderIsOrdered
<1>2. CASE executor = "attention"
  <2>1. U!Steps = U!AttentionSteps
    BY <1>2 DEF U!Steps
  <2> QED BY <2>1, AttentionIsOrdered
<1> QED BY <1>1, <1>2 DEF IsExecutor

\* After the first `count' steps, what these have written is what they make of
\* the buffers as they are then, and all else is as it was.
LEMMA RunEquations ==
  ASSUME UnpagedSetting, IsExecutor, CachesTyped, MemoryTyped, NEW count \in 0 .. Len(U!Steps)
  PROVE  /\ DOMAIN U!After(count) = RunBuffers
         /\ \A i \in 1 .. count :
              U!After(count)[U!Steps[i].out]
                = Made(U!After(count), U!Steps[i], RunMemory[U!Steps[i].out], Len(run.tokens))
         /\ \A b \in RunBuffers :
              (\A i \in 1 .. count : U!Steps[i].out # b) => U!After(count)[b] = RunMemory[b]
<1>1. /\ DOMAIN RunMemory = RunBuffers /\ \A i \in 1 .. Len(U!Steps) : U!Steps[i].out \in RunBuffers
      /\ Len(U!Steps) \in Nat /\ Ordered(U!Steps, Len(U!Steps))
  BY RunBegins, StepsWrite, StepsAreOrdered
<1> DEFINE m == RunMemory
           steps == U!Steps
           n == Len(run.tokens)
           a == U!After(count)
<1>2. /\ DOMAIN m = RunBuffers /\ \A i \in 1 .. Len(steps) : steps[i].out \in DOMAIN m
      /\ Len(steps) \in Nat /\ Ordered(steps, Len(steps)) /\ count \in 0 .. Len(steps)
  BY <1>1
<1>3. a = U!Execute(m, steps, count, n)
  BY AfterExecutes
<1> HIDE DEF m, steps, n, a
<1>4. Equations(a, m, steps, count, n)
  BY <1>2, <1>3, StepsAreEquations
<1> QED BY <1>2, <1>4 DEF m, steps, n, a, Equations

\* No step writes what the run is given.
LEMMA GivenIsKept ==
  ASSUME UnpagedSetting, IsExecutor, CachesTyped, MemoryTyped, NEW count \in 0 .. Len(U!Steps)
  PROVE  /\ \A l \in U!Used :
              /\ U!After(count)[U!Own("length", l)] = unpagedDevLength[l]
              /\ U!After(count)[U!Own("memoryKeys", l)] = memory[U!Own("memoryKeys", l)]
              /\ U!After(count)[U!Own("memoryValues", l)] = memory[U!Own("memoryValues", l)]
         /\ \A name \in {"tokens", "queryInput", "keyInput", "valueInput"} :
              U!After(count)[U!Common(name)] = U!Fed(name, run.tokens)
<1> DEFINE Given == {U!Own(name, l) : name \in {"length", "memoryKeys", "memoryValues"}, l \in U!Used}
                      \union {U!Common(name) : name \in {"tokens", "queryInput", "keyInput", "valueInput"}}
<1>1. ASSUME NEW b \in Given, NEW i \in 1 .. Len(U!Steps) PROVE U!Steps[i].out # b
  <2>1. CASE executor = "transformer"
    <3>1. U!Steps = U!DecoderSteps /\ LayerCount \in Nat /\ i \in 1 .. 13 * LayerCount + 3
      BY <2>1, UsedLayers, StepsOfDecoder DEF U!Steps
    <3>2. Place(b) = 0
      BY DEF Place, U!Own, U!Common
    <3>3. Place(U!Steps[i].out) = i
      BY <3>1, DecoderIsPlaced DEF PlacedAt
    <3> QED BY <3>1, <3>2, <3>3
  <2>2. CASE executor = "attention"
    <3>0. U!Steps = U!AttentionSteps
      BY <2>2 DEF U!Steps
    <3>1. U!Steps = U!AttentionSteps /\ i \in 1 .. 5
      BY <3>0, AttentionIsOrdered
    <3>2. /\ U!AttentionSteps[1].out = U!Own("query", 1) /\ U!AttentionSteps[2].out = U!Own("keys", 1)
          /\ U!AttentionSteps[3].out = U!Own("values", 1)
          /\ U!AttentionSteps[4].out = U!Own("selfContext", 1) /\ U!AttentionSteps[5].out = U!Common("output")
      BY DEF U!AttentionSteps, U!Step
    <3>3. /\ b # U!Own("query", 1) /\ b # U!Own("keys", 1) /\ b # U!Own("values", 1)
          /\ b # U!Own("selfContext", 1) /\ b # U!Common("output")
      BY DEF U!Own, U!Common
    <3> HIDE DEF Given
    <3> QED BY <3>1, <3>2, <3>3
  <2> QED BY <2>1, <2>2 DEF IsExecutor
<1>2. Given \subseteq RunBuffers
  <2> QED BY BuffersOfRun, CommonOfRun
<1>3. ASSUME NEW b \in Given PROVE U!After(count)[b] = RunMemory[b]
  <2>1. \A i \in 1 .. count : i \in 1 .. Len(U!Steps)
    BY StepsAreOrdered
  <2> HIDE DEF Given
  <2> QED BY <1>1, <1>2, <2>1, RunEquations
<1>4. \A l \in U!Used :
          U!Own("length", l) \in Given /\ U!Own("memoryKeys", l) \in Given /\ U!Own("memoryValues", l) \in Given
  OBVIOUS
<1>5. \A name \in {"tokens", "queryInput", "keyInput", "valueInput"} : U!Common(name) \in Given
  OBVIOUS
<1> HIDE DEF Given
<1> QED BY <1>3, <1>4, <1>5, RunBegins

\* The step that appends to a layer's keys, and the one that does to its values.
LEMMA CacheSteps ==
  ASSUME UnpagedSetting, IsExecutor, NEW l \in U!Used, NEW name \in {"keys", "values"}
  PROVE  \E i \in 1 .. Len(U!Steps) : \E x, w :
           U!Steps[i] = U!Step("cache", <<x, w, U!Own("length", l)>>, U!Own(name, l))
<1>1. CASE executor = "transformer"
  <2>1. U!Steps = U!DecoderSteps /\ LayerCount \in Nat /\ l \in U!Layers
    BY <1>1, UsedLayers DEF U!Steps
  <2>2. /\ 13 * (l - 1) + 2 + 1 \in 1 .. Len(U!Steps) /\ 13 * (l - 1) + 3 + 1 \in 1 .. Len(U!Steps)
        /\ U!Steps[13 * (l - 1) + 2 + 1] = U!LayerSteps(l)[2]
        /\ U!Steps[13 * (l - 1) + 3 + 1] = U!LayerSteps(l)[3]
    <3>1. l \in 1 .. LayerCount /\ Len(U!DecoderSteps) = 13 * LayerCount + 3
      BY <2>1, StepsOfDecoder DEF U!Layers
    <3>2. /\ 13 * (l - 1) + 2 + 1 \in 1 .. Len(U!Steps) /\ 13 * (l - 1) + 3 + 1 \in 1 .. Len(U!Steps)
      BY <2>1, <3>1
    <3>3. /\ U!DecoderSteps[13 * (l - 1) + 2 + 1] = U!LayerSteps(l)[2]
          /\ U!DecoderSteps[13 * (l - 1) + 3 + 1] = U!LayerSteps(l)[3]
      <4>1. 2 \in 1 .. 13 /\ 3 \in 1 .. 13
        OBVIOUS
      <4> QED BY <2>1, <4>1, StepsOfDecoder
    <3> QED BY <2>1, <3>2, <3>3
  <2>3. /\ U!LayerSteps(l)[2] = U!Step("cache", <<U!Own("hidden", l - 1), U!Own("selfKeyWeight", l),
                                                  U!Own("length", l)>>, U!Own("keys", l))
        /\ U!LayerSteps(l)[3] = U!Step("cache", <<U!Own("hidden", l - 1), U!Own("selfValueWeight", l),
                                                  U!Own("length", l)>>, U!Own("values", l))
    BY StepsOfLayer
  <2> QED BY <2>2, <2>3
<1>2. CASE executor = "attention"
  <2>1. U!Steps = U!AttentionSteps /\ Len(U!Steps) = 5 /\ l = 1
    BY <1>2, UsedLayers, AttentionIsOrdered DEF U!Steps
  <2>2. /\ U!AttentionSteps[2] = U!Step("cache", <<U!Common("keyInput"), U!Own("keyWeight", 1),
                                                   U!Own("length", 1)>>, U!Own("keys", 1))
        /\ U!AttentionSteps[3] = U!Step("cache", <<U!Common("valueInput"), U!Own("valueWeight", 1),
                                                   U!Own("length", 1)>>, U!Own("values", 1))
    BY DEF U!AttentionSteps
  <2>3. 2 \in 1 .. Len(U!Steps) /\ 3 \in 1 .. Len(U!Steps)
    BY <2>1
  <2>4. CASE name = "keys"
    BY <2>1, <2>2, <2>3, <2>4
  <2>5. CASE name = "values"
    BY <2>1, <2>2, <2>3, <2>5
  <2> QED BY <2>4, <2>5
<1> QED BY <1>1, <1>2 DEF IsExecutor

\* However many steps a run has made, the rows before those of its tokens are
\* as they were.
LEMMA RowsBeforeAreKept ==
  ASSUME UnpagedSetting, IsExecutor, CachesTyped, MemoryTyped, NEW count \in 0 .. Len(U!Steps),
         NEW l \in U!Used, NEW name \in {"keys", "values"}, NEW cell \in U!Cells,
         NEW previous \in Nat, Len(run.tokens) \in Nat,
         unpagedDevLength[l] = previous + Len(run.tokens), cell[2] < previous
  PROVE  U!After(count)[U!Own(name, l)][cell] = caches[U!Own(name, l)][cell]
<1> DEFINE b == U!Own(name, l)
           n == Len(run.tokens)
<1>1. b \in RunBuffers /\ RunMemory[b] = caches[b]
  BY BuffersOfRun, RunBegins
<1>2. CASE \A i \in 1 .. count : U!Steps[i].out # b
  BY <1>1, <1>2, RunEquations
<1>3. CASE \E i \in 1 .. count : U!Steps[i].out = b
  <2>1. PICK i \in 1 .. count : U!Steps[i].out = b
    BY <1>3
  <2>2. i \in 1 .. Len(U!Steps)
    BY StepsAreOrdered
  <2>3. PICK j \in 1 .. Len(U!Steps) : \E x, w : U!Steps[j] = U!Step("cache", <<x, w, U!Own("length", l)>>, b)
    BY CacheSteps
  <2>4. PICK x, w : U!Steps[j] = U!Step("cache", <<x, w, U!Own("length", l)>>, b)
    BY <2>3
  <2>5. i = j
    <3>1. U!Steps[j].out = b
      BY <2>4 DEF U!Step
    <3> HIDE DEF b
    <3> QED BY <2>1, <2>2, <3>1, StepsAreOrdered DEF Ordered
  <2> DEFINE a == U!After(count)
  <2>6. a[b] = Made(a, U!Step("cache", <<x, w, U!Own("length", l)>>, b), caches[b], n)
    <3> HIDE DEF b
    <3> QED BY <1>1, <2>1, <2>4, <2>5, RunEquations
  <2>7. U!Content(a, U!Own("length", l)) = previous + n
    <3>1. U!Own("length", l) \in DOMAIN a
      BY BuffersOfRun, RunEquations
    <3>2. a[U!Own("length", l)] = previous + n
      BY GivenIsKept
    <3> QED BY <3>1, <3>2 DEF U!Content
  <2>8. a[b] = U!Result("cache", <<U!Content(a, x), U!Content(a, w), previous + n>>, caches[b], n)
    <3> HIDE DEF a, b
    <3> QED BY <2>6, <2>7, MadeOfThree
  <2>9. cell[2] \in Nat /\ ~(cell[2] - ((previous + n) - n) \in 0 .. n - 1)
    BY DEF U!Cells
  <2> DEFINE X == U!Content(a, x)
             W == U!Content(a, w)
             old == caches[b]
             r == U!Result("cache", <<X, W, previous + n>>, old, n)
  <2>10. r[cell] = LET token == cell[2] - ((previous + n) - n)
                  IN  IF previous + n \in n .. Capacity /\ token \in 0 .. n - 1
                      THEN U!Linear(X[cell[1] * n + token + 1], W, U!NoBias)
                      ELSE old[cell]
    <3> HIDE DEF X, W, old
    <3> QED BY CacheMakes
  <2>11. r[cell] = old[cell]
    <3> HIDE DEF r, X, W, old
    <3> QED BY <2>9, <2>10
  <2>12. a[b] = r
    BY <2>8
  <2> HIDE DEF r
  <2> QED BY <2>11, <2>12
<1> QED BY <1>2, <1>3

----------------------------------------------------------------------------
(* The model that the steps implement. *)

\* h[i] holds the rows of layer i for a context, up to layer k.
Layering(h, context, k) ==
  h = [l \in 0 .. k |-> IF l = 0 THEN U!EmbeddedOf(context) ELSE U!LayerOf(h[l - 1], l)]

LEMMA LayeringExists ==
  ASSUME NEW context, NEW k \in Nat
  PROVE  \E h : Layering(h, context, k)
<1> DEFINE I == {j \in Nat : \E h : Layering(h, context, j)}
           Row(h, l) == IF l = 0 THEN U!EmbeddedOf(context) ELSE U!LayerOf(h[l - 1], l)
<1>1. 0 \in I
  <2> DEFINE h == [l \in 0 .. 0 |-> U!EmbeddedOf(context)]
  <2>1. h = [l \in 0 .. 0 |-> Row(h, l)]
    OBVIOUS
  <2> HIDE DEF h
  <2> QED BY <2>1 DEF Layering
<1>2. ASSUME NEW j \in I PROVE j + 1 \in I
  <2>1. PICK h : Layering(h, context, j)
    OBVIOUS
  <2> DEFINE g == [l \in 0 .. j + 1 |-> Row(h, l)]
  <2>2. \A l \in 0 .. j : h[l] = Row(h, l)
    BY <2>1 DEF Layering
  <2>3. j \in Nat /\ \A l \in 0 .. j + 1 : l # 0 => l - 1 \in 0 .. j
    OBVIOUS
  <2>4. \A l \in 0 .. j : g[l] = h[l]
    <3> HIDE DEF Row
    <3> QED BY <2>2, <2>3
  <2>5. \A l \in 0 .. j + 1 : Row(g, l) = Row(h, l)
    <3> HIDE DEF g
    <3> QED BY <2>3, <2>4
  <2>6. g = [l \in 0 .. j + 1 |-> Row(g, l)]
    <3>1. \A l \in 0 .. j + 1 : g[l] = Row(h, l)
      <4> HIDE DEF Row
      <4> QED OBVIOUS
    <3>2. g = [l \in 0 .. j + 1 |-> g[l]]
      OBVIOUS
    <3> HIDE DEF g, Row
    <3> QED BY <2>5, <3>1, <3>2
  <2> HIDE DEF g
  <2>7. Layering(g, context, j + 1)
    BY <2>6 DEF Layering
  <2> QED BY <2>3, <2>7
<1>3. I = Nat
  <2> HIDE DEF I
  <2> SUFFICES I \in SUBSET Nat
    BY <1>1, <1>2, Induction
  <2> QED BY DEF I
<1> QED BY <1>3

LEMMA HiddenIs ==
  ASSUME LayerCount \in Nat, NEW context
  PROVE  /\ U!HiddenOf(context)[0] = U!EmbeddedOf(context)
         /\ \A l \in U!Layers : U!HiddenOf(context)[l] = U!LayerOf(U!HiddenOf(context)[l - 1], l)
<1> DEFINE h == CHOOSE g : Layering(g, context, LayerCount)
<1>1. U!HiddenOf(context) = h
  BY DEF U!HiddenOf, Layering
<1>2. Layering(h, context, LayerCount)
  <2> QED BY LayeringExists
<1> HIDE DEF h
<1>3. \A l \in 0 .. LayerCount : h[l] = IF l = 0 THEN U!EmbeddedOf(context) ELSE U!LayerOf(h[l - 1], l)
  BY <1>2 DEF Layering
<1> QED BY <1>1, <1>3 DEF U!Layers

\* The positions of a context in the sequences of the batch.
CellsTo(k) == U!Batches \X (0 .. k - 1)

LEMMA CellsOfContext ==
  ASSUME NEW k \in Nat, NEW context \in U!Contexts(k)
  PROVE  Len(context) = k /\ U!ContextCells(context) = CellsTo(k)
BY DEF U!Contexts, U!ContextCells, CellsTo

LEMMA HiddenCells ==
  ASSUME LayerCount \in Nat, NEW k \in Nat, NEW context \in U!Contexts(k), NEW l \in 0 .. LayerCount
  PROVE  DOMAIN U!HiddenOf(context)[l] = CellsTo(k)
<1> DEFINE J == {j \in Nat : j <= LayerCount => DOMAIN U!HiddenOf(context)[j] = CellsTo(k)}
<1>1. 0 \in J
  BY HiddenIs, CellsOfContext DEF U!EmbeddedOf
<1>2. ASSUME NEW j \in J PROVE j + 1 \in J
  <2> SUFFICES ASSUME j + 1 <= LayerCount PROVE DOMAIN U!HiddenOf(context)[j + 1] = CellsTo(k)
    OBVIOUS
  <2>1. j + 1 \in U!Layers /\ (j + 1) - 1 = j /\ DOMAIN U!HiddenOf(context)[j] = CellsTo(k)
    BY DEF U!Layers
  <2>2. U!HiddenOf(context)[j + 1] = U!LayerOf(U!HiddenOf(context)[j], j + 1)
    BY <2>1, HiddenIs
  <2> QED BY <2>1, <2>2 DEF U!LayerOf
<1>3. J = Nat
  <2> HIDE DEF J
  <2> SUFFICES J \in SUBSET Nat
    BY <1>1, <1>2, Induction
  <2> QED BY DEF J
<1> QED BY <1>3

\* What a token sees of the rows of a layer.
Seen(rows, weight, b, q, l) == [p \in 0 .. q |-> U!Projected(rows[<<b, p>>], weight, l)]

LEMMA BeforeIsSeen ==
  ASSUME NEW k \in Nat, NEW rows, DOMAIN rows = CellsTo(k), NEW weight, NEW l, NEW b \in U!Batches,
         NEW q \in 0 .. k - 1
  PROVE  U!Before(U!ProjectedOf(rows, weight, l), b, q) = Seen(rows, weight, b, q, l)
<1>1. \A p \in 0 .. q : <<b, p>> \in CellsTo(k)
  BY DEF CellsTo
<1> QED BY <1>1 DEF U!Before, Seen, U!ProjectedOf

\* The rows of the model, position by position.
LEMMA HiddenRows ==
  ASSUME LayerCount \in Nat, NEW k \in Nat, NEW context \in U!Contexts(k),
         NEW b \in U!Batches, NEW q \in 0 .. k - 1
  PROVE  LET h == U!HiddenOf(context)
         IN  /\ h[0][<<b, q>>] = U!Embedded(<<"tokens", context[q + 1], b>>, q)
             /\ \A l \in U!Layers :
                  h[l][<<b, q>>] = U!DecoderLayer(h[l - 1][<<b, q>>],
                                                  Seen(h[l - 1], "selfKeyWeight", b, q, l),
                                                  Seen(h[l - 1], "selfValueWeight", b, q, l), b, l)
<1> DEFINE h == U!HiddenOf(context)
<1>1. <<b, q>> \in CellsTo(k) /\ <<b, q>>[1] = b /\ <<b, q>>[2] = q
  BY DEF CellsTo
<1>2. h[0][<<b, q>>] = U!Embedded(<<"tokens", context[q + 1], b>>, q)
  <2>1. h[0] = U!EmbeddedOf(context) /\ U!ContextCells(context) = CellsTo(k)
    BY HiddenIs, CellsOfContext
  <2> HIDE DEF h
  <2> QED BY <1>1, <2>1 DEF U!EmbeddedOf, U!FedOf
<1>3. ASSUME NEW l \in U!Layers
      PROVE  h[l][<<b, q>>] = U!DecoderLayer(h[l - 1][<<b, q>>],
                                             Seen(h[l - 1], "selfKeyWeight", b, q, l),
                                             Seen(h[l - 1], "selfValueWeight", b, q, l), b, l)
  <2> DEFINE x == h[l - 1]
  <2>1. h[l] = U!LayerOf(x, l)
    BY HiddenIs
  <2>2. DOMAIN x = CellsTo(k)
    BY HiddenCells DEF U!Layers
  <2> HIDE DEF x, h
  <2>3. U!LayerOf(x, l)[<<b, q>>]
          = U!DecoderLayer(x[<<b, q>>], U!Before(U!ProjectedOf(x, "selfKeyWeight", l), b, q),
                           U!Before(U!ProjectedOf(x, "selfValueWeight", l), b, q), b, l)
    <3> QED BY <1>1, <2>2 DEF U!LayerOf
  <2>4. /\ U!Before(U!ProjectedOf(x, "selfKeyWeight", l), b, q) = Seen(x, "selfKeyWeight", b, q, l)
        /\ U!Before(U!ProjectedOf(x, "selfValueWeight", l), b, q) = Seen(x, "selfValueWeight", b, q, l)
    BY <2>2, BeforeIsSeen
  <2> QED BY <2>1, <2>3, <2>4 DEF x
<1> HIDE DEF h
<1> QED BY <1>2, <1>3 DEF h

\* The rows of two contexts are the same as far as the contexts are.
LEMMA HiddenAgree ==
  ASSUME LayerCount \in Nat, NEW k \in Nat, NEW c \in U!Contexts(k), NEW m \in Nat, NEW d \in U!Contexts(m),
         NEW j \in Nat, j <= k, j <= m, \A i \in 1 .. j : c[i] = d[i],
         NEW l \in 0 .. LayerCount, NEW b \in U!Batches, NEW q \in 0 .. j - 1
  PROVE  U!HiddenOf(c)[l][<<b, q>>] = U!HiddenOf(d)[l][<<b, q>>]
<1> DEFINE f == U!HiddenOf(c)
           g == U!HiddenOf(d)
           Same(i) == \A p \in 0 .. j - 1 : f[i][<<b, p>>] = g[i][<<b, p>>]
           J == {i \in Nat : i <= LayerCount => Same(i)}
<1>0. \A p \in 0 .. j - 1 : p \in 0 .. k - 1 /\ p \in 0 .. m - 1 /\ p + 1 \in 1 .. j
  OBVIOUS
<1>1. 0 \in J
  <2> SUFFICES ASSUME NEW p \in 0 .. j - 1 PROVE f[0][<<b, p>>] = g[0][<<b, p>>]
    OBVIOUS
  <2>1. f[0][<<b, p>>] = U!Embedded(<<"tokens", c[p + 1], b>>, p)
    BY <1>0, HiddenRows
  <2>2. g[0][<<b, p>>] = U!Embedded(<<"tokens", d[p + 1], b>>, p)
    BY <1>0, HiddenRows
  <2> HIDE DEF f, g
  <2> QED BY <1>0, <2>1, <2>2
<1>2. ASSUME NEW i \in J PROVE i + 1 \in J
  <2> SUFFICES ASSUME i + 1 <= LayerCount, NEW p \in 0 .. j - 1
               PROVE  f[i + 1][<<b, p>>] = g[i + 1][<<b, p>>]
    OBVIOUS
  <2>1. i + 1 \in U!Layers /\ (i + 1) - 1 = i /\ Same(i)
    BY DEF U!Layers
  <2>2. f[i + 1][<<b, p>>] = U!DecoderLayer(f[i][<<b, p>>], Seen(f[i], "selfKeyWeight", b, p, i + 1),
                                            Seen(f[i], "selfValueWeight", b, p, i + 1), b, i + 1)
    <3>1. p \in 0 .. k - 1
      BY <1>0
    <3> HIDE DEF J
    <3> QED BY ZenonT(60), <2>1, <3>1, HiddenRows
  <2>3. g[i + 1][<<b, p>>] = U!DecoderLayer(g[i][<<b, p>>], Seen(g[i], "selfKeyWeight", b, p, i + 1),
                                            Seen(g[i], "selfValueWeight", b, p, i + 1), b, i + 1)
    <3>1. p \in 0 .. m - 1
      BY <1>0
    <3> HIDE DEF J
    <3> QED BY ZenonT(60), <2>1, <3>1, HiddenRows
  <2> HIDE DEF f, g, J
  <2>4. \A r \in 0 .. p : f[i][<<b, r>>] = g[i][<<b, r>>]
    BY <2>1
  <2>5. \A w : Seen(f[i], w, b, p, i + 1) = Seen(g[i], w, b, p, i + 1)
    BY <2>4 DEF Seen
  <2>6. f[i][<<b, p>>] = g[i][<<b, p>>]
    BY <2>1
  <2> QED BY <2>2, <2>3, <2>5, <2>6
<1>3. J = Nat
  <2> HIDE DEF J
  <2> SUFFICES J \in SUBSET Nat
    BY <1>1, <1>2, Induction
  <2> QED BY DEF J
<1>4. Same(l)
  BY <1>3
<1> QED BY <1>4

\* A row of a layer determines the row below and all the keys that its token has seen.
LEMMA LayerDetermines ==
  ASSUME NEW x, NEW y, NEW ks, NEW js, NEW vs, NEW us, NEW b, NEW l,
         U!DecoderLayer(x, ks, vs, b, l) = U!DecoderLayer(y, js, us, b, l)
  PROVE  x = y /\ ks = js
<1>1. \A r, u, s, t, g, e : U!Norm(r, u, "selfNormWeight", "selfNormBias", l)
                              = U!Norm(s, t, "selfNormWeight", "selfNormBias", l) => r = s /\ u = t
  BY DEF U!Norm, U!Normalized
<1>2. \A r, u, s, t : U!Norm(r, u, "crossNormWeight", "crossNormBias", l)
                                = U!Norm(s, t, "crossNormWeight", "crossNormBias", l) => r = s
  BY DEF U!Norm, U!Normalized
<1>3. \A r, u, s, t : U!Norm(r, u, "feedForwardNormWeight", "feedForwardNormBias", l)
                                = U!Norm(s, t, "feedForwardNormWeight", "feedForwardNormBias", l) => r = s
  BY DEF U!Norm, U!Normalized
<1>4. \A r, s : U!Projected(r, "selfOutputWeight", l) = U!Projected(s, "selfOutputWeight", l) => r = s
  BY DEF U!Projected, U!Linear
<1>5. \A p, r, s, t, u, v : U!Attended(p, r, s) = U!Attended(t, u, v) => r = u
  BY DEF U!Attended
<1> QED BY <1>1, <1>2, <1>3, <1>4, <1>5 DEF U!DecoderLayer

\* A row of any layer determines the context up to its position.
LEMMA HiddenDetermines ==
  ASSUME LayerCount \in Nat, NEW k \in Nat, NEW c \in U!Contexts(k), NEW d \in U!Contexts(k),
         NEW l \in U!Layers, NEW b \in U!Batches, NEW q \in 0 .. k - 1,
         U!HiddenOf(c)[l][<<b, q>>] = U!HiddenOf(d)[l][<<b, q>>]
  PROVE  \A p \in 0 .. q : c[p + 1] = d[p + 1]
<1> DEFINE f == U!HiddenOf(c)
           g == U!HiddenOf(d)
           All(i) == (\A p \in 0 .. q : f[i][<<b, p>>] = g[i][<<b, p>>])
                       => \A p \in 0 .. q : f[0][<<b, p>>] = g[0][<<b, p>>]
           J == {i \in Nat : i <= LayerCount => All(i)}
<1>0. \A p \in 0 .. q : p \in 0 .. k - 1
  OBVIOUS
<1>1. ASSUME NEW i \in U!Layers, NEW p \in 0 .. q, f[i][<<b, p>>] = g[i][<<b, p>>]
      PROVE  \A r \in 0 .. p : f[i - 1][<<b, r>>] = g[i - 1][<<b, r>>]
  <2>1. p \in 0 .. k - 1
    BY <1>0
  <2>2. f[i][<<b, p>>] = U!DecoderLayer(f[i - 1][<<b, p>>], Seen(f[i - 1], "selfKeyWeight", b, p, i),
                                        Seen(f[i - 1], "selfValueWeight", b, p, i), b, i)
    <3> QED BY <2>1, HiddenRows
  <2>3. g[i][<<b, p>>] = U!DecoderLayer(g[i - 1][<<b, p>>], Seen(g[i - 1], "selfKeyWeight", b, p, i),
                                        Seen(g[i - 1], "selfValueWeight", b, p, i), b, i)
    <3> QED BY <2>1, HiddenRows
  <2> HIDE DEF f, g
  <2>4. Seen(f[i - 1], "selfKeyWeight", b, p, i) = Seen(g[i - 1], "selfKeyWeight", b, p, i)
    <3> DEFINE ks == Seen(f[i - 1], "selfKeyWeight", b, p, i)
               js == Seen(g[i - 1], "selfKeyWeight", b, p, i)
               vs == Seen(f[i - 1], "selfValueWeight", b, p, i)
               us == Seen(g[i - 1], "selfValueWeight", b, p, i)
               x == f[i - 1][<<b, p>>]
               y == g[i - 1][<<b, p>>]
    <3>1. U!DecoderLayer(x, ks, vs, b, i) = U!DecoderLayer(y, js, us, b, i)
      BY <1>1, <2>2, <2>3
    <3> HIDE DEF ks, js, vs, us, x, y
    <3>2. ks = js
      BY <3>1, LayerDetermines
    <3> QED BY <3>2 DEF ks, js
  <2>5. \A r \in 0 .. p : U!Projected(f[i - 1][<<b, r>>], "selfKeyWeight", i)
                            = U!Projected(g[i - 1][<<b, r>>], "selfKeyWeight", i)
    <3> SUFFICES ASSUME NEW r \in 0 .. p
                 PROVE  U!Projected(f[i - 1][<<b, r>>], "selfKeyWeight", i)
                          = U!Projected(g[i - 1][<<b, r>>], "selfKeyWeight", i)
      OBVIOUS
    <3>1. Seen(f[i - 1], "selfKeyWeight", b, p, i)[r] = U!Projected(f[i - 1][<<b, r>>], "selfKeyWeight", i)
      BY DEF Seen
    <3>2. Seen(g[i - 1], "selfKeyWeight", b, p, i)[r] = U!Projected(g[i - 1][<<b, r>>], "selfKeyWeight", i)
      BY DEF Seen
    <3> QED BY <2>4, <3>1, <3>2
  <2> QED BY <2>5 DEF U!Projected, U!Linear
<1>2. 0 \in J
  OBVIOUS
<1>3. ASSUME NEW i \in J PROVE i + 1 \in J
  <2> SUFFICES ASSUME i + 1 <= LayerCount,
                      \A p \in 0 .. q : f[i + 1][<<b, p>>] = g[i + 1][<<b, p>>]
               PROVE  \A p \in 0 .. q : f[0][<<b, p>>] = g[0][<<b, p>>]
    OBVIOUS
  <2>1. i + 1 \in U!Layers /\ (i + 1) - 1 = i /\ All(i) /\ q \in 0 .. q
    BY DEF U!Layers
  <2> HIDE DEF f, g, J
  <2>2. \A p \in 0 .. q : f[i][<<b, p>>] = g[i][<<b, p>>]
    BY <1>1, <2>1
  <2> QED BY <2>1, <2>2
<1>4. J = Nat
  <2> HIDE DEF J
  <2> SUFFICES J \in SUBSET Nat
    BY <1>2, <1>3, Induction
  <2> QED BY DEF J
<1>5. \A p \in 0 .. q : f[0][<<b, p>>] = g[0][<<b, p>>]
  <2>1. l - 1 \in J /\ l - 1 <= LayerCount /\ q \in 0 .. q
    BY <1>4 DEF U!Layers
  <2>2. \A p \in 0 .. q : f[l - 1][<<b, p>>] = g[l - 1][<<b, p>>]
    <3> HIDE DEF J
    <3> QED BY <1>1, <2>1
  <2> HIDE DEF f, g
  <2> QED BY <2>1, <2>2
<1>6. ASSUME NEW p \in 0 .. q PROVE c[p + 1] = d[p + 1]
  <2>1. p \in 0 .. k - 1
    BY <1>0
  <2>2. f[0][<<b, p>>] = U!Embedded(<<"tokens", c[p + 1], b>>, p)
    BY <2>1, HiddenRows
  <2>3. g[0][<<b, p>>] = U!Embedded(<<"tokens", d[p + 1], b>>, p)
    BY <2>1, HiddenRows
  <2>4. U!Embedded(<<"tokens", c[p + 1], b>>, p) = U!Embedded(<<"tokens", d[p + 1], b>>, p)
    <3> HIDE DEF f, g
    <3> QED BY <1>5, <2>2, <2>3
  <2> QED BY <2>4 DEF U!Embedded
<1> QED BY <1>6

----------------------------------------------------------------------------
(* The steps of a layer as equations about the memory that a run leaves. *)

\* Step `step' has written what it makes of the buffers as they are in the end.
Equation(a, m, step, n) == a[step.out] = Made(a, step, m[step.out], n)

LEMMA EquationOfOne ==
  ASSUME NEW a, NEW m, NEW n, NEW kernel, NEW out, NEW x,
         Equation(a, m, U!Step(kernel, <<x>>, out), n)
  PROVE  a[out] = U!Result(kernel, <<U!Content(a, x)>>, m[out], n)
<1>1. U!Step(kernel, <<x>>, out).out = out
  BY DEF U!Step
<1>2. a[out] = Made(a, U!Step(kernel, <<x>>, out), m[out], n)
  <2> QED BY <1>1 DEF Equation
<1> QED BY <1>2, MadeOfOne

LEMMA EquationOfTwo ==
  ASSUME NEW a, NEW m, NEW n, NEW kernel, NEW out, NEW x, NEW y,
         Equation(a, m, U!Step(kernel, <<x, y>>, out), n)
  PROVE  a[out] = U!Result(kernel, <<U!Content(a, x), U!Content(a, y)>>, m[out], n)
<1>1. U!Step(kernel, <<x, y>>, out).out = out
  BY DEF U!Step
<1>2. a[out] = Made(a, U!Step(kernel, <<x, y>>, out), m[out], n)
  <2> QED BY <1>1 DEF Equation
<1> QED BY <1>2, MadeOfTwo

LEMMA EquationOfThree ==
  ASSUME NEW a, NEW m, NEW n, NEW kernel, NEW out, NEW x, NEW y, NEW z,
         Equation(a, m, U!Step(kernel, <<x, y, z>>, out), n)
  PROVE  a[out] = U!Result(kernel, <<U!Content(a, x), U!Content(a, y), U!Content(a, z)>>, m[out], n)
<1>1. U!Step(kernel, <<x, y, z>>, out).out = out
  BY DEF U!Step
<1>2. a[out] = Made(a, U!Step(kernel, <<x, y, z>>, out), m[out], n)
  <2> QED BY <1>1 DEF Equation
<1> QED BY <1>2, MadeOfThree

LEMMA EquationOfFour ==
  ASSUME NEW a, NEW m, NEW n, NEW kernel, NEW out, NEW x, NEW y, NEW z, NEW v,
         Equation(a, m, U!Step(kernel, <<x, y, z, v>>, out), n)
  PROVE  a[out] = U!Result(kernel, <<U!Content(a, x), U!Content(a, y), U!Content(a, z), U!Content(a, v)>>,
                           m[out], n)
<1>1. U!Step(kernel, <<x, y, z, v>>, out).out = out
  BY DEF U!Step
<1>2. a[out] = Made(a, U!Step(kernel, <<x, y, z, v>>, out), m[out], n)
  <2> QED BY <1>1 DEF Equation
<1> QED BY <1>2, MadeOfFour

\* What the steps of a layer have made of the buffers as they are in the end.
LayerMade(a, l, n) ==
  /\ a[U!Own("query", l)]
       = U!Result("query",
                  <<a[U!Own("hidden", l - 1)], U!Own("selfQueryWeight", l)>>,
                  RunMemory[U!Own("query", l)], n)
  /\ a[U!Own("keys", l)]
       = U!Result("cache",
                  <<a[U!Own("hidden", l - 1)], U!Own("selfKeyWeight", l), a[U!Own("length", l)]>>,
                  RunMemory[U!Own("keys", l)], n)
  /\ a[U!Own("values", l)]
       = U!Result("cache",
                  <<a[U!Own("hidden", l - 1)], U!Own("selfValueWeight", l), a[U!Own("length", l)]>>,
                  RunMemory[U!Own("values", l)], n)
  /\ a[U!Own("selfContext", l)]
       = U!Result("causalAttention",
                  <<a[U!Own("query", l)], a[U!Own("keys", l)], a[U!Own("values", l)], a[U!Own("length", l)]>>,
                  RunMemory[U!Own("selfContext", l)], n)
  /\ a[U!Own("selfOutput", l)]
       = U!Result("output",
                  <<a[U!Own("selfContext", l)], U!Own("selfOutputWeight", l)>>,
                  RunMemory[U!Own("selfOutput", l)], n)
  /\ a[U!Own("selfNormalized", l)]
       = U!Result("residualNorm",
                  <<a[U!Own("hidden", l - 1)], a[U!Own("selfOutput", l)], U!Own("selfNormWeight", l),
                    U!Own("selfNormBias", l)>>,
                  RunMemory[U!Own("selfNormalized", l)], n)
  /\ a[U!Own("crossQuery", l)]
       = U!Result("linear",
                  <<a[U!Own("selfNormalized", l)], U!Own("crossQueryWeight", l), U!Own("crossQueryBias", l)>>,
                  RunMemory[U!Own("crossQuery", l)], n)
  /\ a[U!Own("crossContext", l)]
       = U!Result("crossAttention",
                  <<a[U!Own("crossQuery", l)], a[U!Own("memoryKeys", l)], a[U!Own("memoryValues", l)]>>,
                  RunMemory[U!Own("crossContext", l)], n)
  /\ a[U!Own("crossOutput", l)]
       = U!Result("linear",
                  <<a[U!Own("crossContext", l)], U!Own("crossOutputWeight", l), U!Own("crossOutputBias", l)>>,
                  RunMemory[U!Own("crossOutput", l)], n)
  /\ a[U!Own("crossNormalized", l)]
       = U!Result("residualNorm",
                  <<a[U!Own("selfNormalized", l)], a[U!Own("crossOutput", l)], U!Own("crossNormWeight", l),
                    U!Own("crossNormBias", l)>>,
                  RunMemory[U!Own("crossNormalized", l)], n)
  /\ a[U!Own("feedForwardHidden", l)]
       = U!Result("linearRelu",
                  <<a[U!Own("crossNormalized", l)], U!Own("feedForwardInputWeight", l),
                    U!Own("feedForwardInputBias", l)>>,
                  RunMemory[U!Own("feedForwardHidden", l)], n)
  /\ a[U!Own("feedForwardOutput", l)]
       = U!Result("linear",
                  <<a[U!Own("feedForwardHidden", l)], U!Own("feedForwardOutputWeight", l),
                    U!Own("feedForwardOutputBias", l)>>,
                  RunMemory[U!Own("feedForwardOutput", l)], n)
  /\ a[U!Own("hidden", l)]
       = U!Result("residualNorm",
                  <<a[U!Own("crossNormalized", l)], a[U!Own("feedForwardOutput", l)],
                    U!Own("feedForwardNormWeight", l), U!Own("feedForwardNormBias", l)>>,
                  RunMemory[U!Own("hidden", l)], n)

LEMMA LayerEquations ==
  ASSUME UnpagedSetting, executor = "transformer", CachesTyped, MemoryTyped, NEW l \in U!Layers,
         NEW a, a = U!After(Len(U!Steps)), NEW n, n = Len(run.tokens)
  PROVE  LayerMade(a, l, n)
<1>1. /\ IsExecutor /\ U!Steps = U!DecoderSteps /\ LayerCount \in Nat /\ l \in U!Used
      /\ Len(U!Steps) = 13 * LayerCount + 3 /\ l \in 1 .. LayerCount
  BY UsedLayers, StepsOfDecoder DEF IsExecutor, U!Steps, U!Layers
<1>2. /\ DOMAIN a = RunBuffers
      /\ \A i \in 1 .. Len(U!Steps) : Equation(a, RunMemory, U!Steps[i], n)
  <2>1. Len(U!Steps) \in 0 .. Len(U!Steps)
    BY <1>1
  <2> QED BY <1>1, <2>1, RunEquations DEF Equation
<1>3. \A j \in 1 .. 13 : Equation(a, RunMemory, U!LayerSteps(l)[j], n)
  <2> SUFFICES ASSUME NEW j \in 1 .. 13 PROVE Equation(a, RunMemory, U!LayerSteps(l)[j], n)
    OBVIOUS
  <2> DEFINE i == 13 * (l - 1) + j + 1
  <2>1. i \in 1 .. Len(U!Steps) /\ U!Steps[i] = U!LayerSteps(l)[j]
    <3>1. i \in 1 .. Len(U!Steps)
      BY <1>1
    <3> QED BY <1>1, <3>1, StepsOfDecoder
  <2> HIDE DEF i
  <2> QED BY <1>2, <2>1
<1>4. U!Own("hidden", l - 1) \in RunBuffers
  <2>1. CASE l = 1
    BY <2>1 DEF RunBuffers
  <2>2. CASE l # 1
    <3>1. l - 1 \in U!Used
      BY <1>1, <2>2, UsedLayers DEF U!Layers
    <3> QED BY <3>1, BuffersOfRun DEF U!Intermediates
  <2> QED BY <2>1, <2>2
<1>5. /\ \A b \in RunBuffers : U!Content(a, b) = a[b]
      /\ \A b : b \notin RunBuffers => U!Content(a, b) = b
  BY <1>2 DEF U!Content
<1>6. a[U!Own("query", l)]
         = U!Result("query",
                    <<a[U!Own("hidden", l - 1)], U!Own("selfQueryWeight", l)>>,
                    RunMemory[U!Own("query", l)], n)
  <2>1. Equation(a, RunMemory,
                 U!Step("query", <<U!Own("hidden", l - 1), U!Own("selfQueryWeight", l)>>, U!Own("query", l)), n)
    <3>1. 1 \in 1 .. 13
      OBVIOUS
    <3> QED BY <1>3, <3>1, StepsOfLayer
  <2>2. a[U!Own("query", l)]
          = U!Result("query",
                     <<U!Content(a, U!Own("hidden", l - 1)), U!Content(a, U!Own("selfQueryWeight", l))>>,
                     RunMemory[U!Own("query", l)], n)
    BY <2>1, EquationOfTwo
  <2>3. /\ U!Content(a, U!Own("hidden", l - 1)) = a[U!Own("hidden", l - 1)]
        /\ U!Content(a, U!Own("selfQueryWeight", l)) = U!Own("selfQueryWeight", l)
    BY <1>1, <1>4, <1>5, BuffersOfRun, WeightsOfRun DEF U!Intermediates
  <2> QED BY <2>2, <2>3
<1>7. a[U!Own("keys", l)]
         = U!Result("cache",
                    <<a[U!Own("hidden", l - 1)], U!Own("selfKeyWeight", l), a[U!Own("length", l)]>>,
                    RunMemory[U!Own("keys", l)], n)
  <2>1. Equation(a, RunMemory,
                 U!Step("cache", <<U!Own("hidden", l - 1), U!Own("selfKeyWeight", l), U!Own("length", l)>>,
                        U!Own("keys", l)), n)
    <3>1. 2 \in 1 .. 13
      OBVIOUS
    <3> QED BY <1>3, <3>1, StepsOfLayer
  <2>2. a[U!Own("keys", l)]
          = U!Result("cache",
                     <<U!Content(a, U!Own("hidden", l - 1)), U!Content(a, U!Own("selfKeyWeight", l)),
                       U!Content(a, U!Own("length", l))>>,
                     RunMemory[U!Own("keys", l)], n)
    BY <2>1, EquationOfThree
  <2>3. /\ U!Content(a, U!Own("hidden", l - 1)) = a[U!Own("hidden", l - 1)]
        /\ U!Content(a, U!Own("selfKeyWeight", l)) = U!Own("selfKeyWeight", l)
        /\ U!Content(a, U!Own("length", l)) = a[U!Own("length", l)]
    BY <1>1, <1>4, <1>5, BuffersOfRun, WeightsOfRun DEF U!Intermediates
  <2> QED BY <2>2, <2>3
<1>8. a[U!Own("values", l)]
         = U!Result("cache",
                    <<a[U!Own("hidden", l - 1)], U!Own("selfValueWeight", l), a[U!Own("length", l)]>>,
                    RunMemory[U!Own("values", l)], n)
  <2>1. Equation(a, RunMemory,
                 U!Step("cache", <<U!Own("hidden", l - 1), U!Own("selfValueWeight", l), U!Own("length", l)>>,
                        U!Own("values", l)), n)
    <3>1. 3 \in 1 .. 13
      OBVIOUS
    <3> QED BY <1>3, <3>1, StepsOfLayer
  <2>2. a[U!Own("values", l)]
          = U!Result("cache",
                     <<U!Content(a, U!Own("hidden", l - 1)), U!Content(a, U!Own("selfValueWeight", l)),
                       U!Content(a, U!Own("length", l))>>,
                     RunMemory[U!Own("values", l)], n)
    BY <2>1, EquationOfThree
  <2>3. /\ U!Content(a, U!Own("hidden", l - 1)) = a[U!Own("hidden", l - 1)]
        /\ U!Content(a, U!Own("selfValueWeight", l)) = U!Own("selfValueWeight", l)
        /\ U!Content(a, U!Own("length", l)) = a[U!Own("length", l)]
    BY <1>1, <1>4, <1>5, BuffersOfRun, WeightsOfRun DEF U!Intermediates
  <2> QED BY <2>2, <2>3
<1>9. a[U!Own("selfContext", l)]
         = U!Result("causalAttention",
                    <<a[U!Own("query", l)], a[U!Own("keys", l)], a[U!Own("values", l)], a[U!Own("length", l)]>>,
                    RunMemory[U!Own("selfContext", l)], n)
  <2>1. Equation(a, RunMemory,
                 U!Step("causalAttention",
                        <<U!Own("query", l), U!Own("keys", l), U!Own("values", l), U!Own("length", l)>>,
                            U!Own("selfContext", l)), n)
    <3>1. 4 \in 1 .. 13
      OBVIOUS
    <3> QED BY <1>3, <3>1, StepsOfLayer
  <2>2. a[U!Own("selfContext", l)]
          = U!Result("causalAttention",
                     <<U!Content(a, U!Own("query", l)), U!Content(a, U!Own("keys", l)),
                       U!Content(a, U!Own("values", l)), U!Content(a, U!Own("length", l))>>,
                     RunMemory[U!Own("selfContext", l)], n)
    BY <2>1, EquationOfFour
  <2>3. /\ U!Content(a, U!Own("query", l)) = a[U!Own("query", l)]
        /\ U!Content(a, U!Own("keys", l)) = a[U!Own("keys", l)]
        /\ U!Content(a, U!Own("values", l)) = a[U!Own("values", l)]
        /\ U!Content(a, U!Own("length", l)) = a[U!Own("length", l)]
    BY <1>1, <1>4, <1>5, BuffersOfRun, WeightsOfRun DEF U!Intermediates
  <2> QED BY <2>2, <2>3
<1>10. a[U!Own("selfOutput", l)]
         = U!Result("output",
                    <<a[U!Own("selfContext", l)], U!Own("selfOutputWeight", l)>>,
                    RunMemory[U!Own("selfOutput", l)], n)
  <2>1. Equation(a, RunMemory,
                 U!Step("output", <<U!Own("selfContext", l), U!Own("selfOutputWeight", l)>>,
                        U!Own("selfOutput", l)), n)
    <3>1. 5 \in 1 .. 13
      OBVIOUS
    <3> QED BY <1>3, <3>1, StepsOfLayer
  <2>2. a[U!Own("selfOutput", l)]
          = U!Result("output",
                     <<U!Content(a, U!Own("selfContext", l)), U!Content(a, U!Own("selfOutputWeight", l))>>,
                     RunMemory[U!Own("selfOutput", l)], n)
    BY <2>1, EquationOfTwo
  <2>3. /\ U!Content(a, U!Own("selfContext", l)) = a[U!Own("selfContext", l)]
        /\ U!Content(a, U!Own("selfOutputWeight", l)) = U!Own("selfOutputWeight", l)
    BY <1>1, <1>4, <1>5, BuffersOfRun, WeightsOfRun DEF U!Intermediates
  <2> QED BY <2>2, <2>3
<1>11. a[U!Own("selfNormalized", l)]
         = U!Result("residualNorm",
                    <<a[U!Own("hidden", l - 1)], a[U!Own("selfOutput", l)], U!Own("selfNormWeight", l),
                      U!Own("selfNormBias", l)>>,
                    RunMemory[U!Own("selfNormalized", l)], n)
  <2>1. Equation(a, RunMemory,
                 U!Step("residualNorm",
                        <<U!Own("hidden", l - 1), U!Own("selfOutput", l), U!Own("selfNormWeight", l),
                          U!Own("selfNormBias", l)>>, U!Own("selfNormalized", l)), n)
    <3>1. 6 \in 1 .. 13
      OBVIOUS
    <3> QED BY <1>3, <3>1, StepsOfLayer
  <2>2. a[U!Own("selfNormalized", l)]
          = U!Result("residualNorm",
                     <<U!Content(a, U!Own("hidden", l - 1)), U!Content(a, U!Own("selfOutput", l)),
                       U!Content(a, U!Own("selfNormWeight", l)), U!Content(a, U!Own("selfNormBias", l))>>,
                     RunMemory[U!Own("selfNormalized", l)], n)
    BY <2>1, EquationOfFour
  <2>3. /\ U!Content(a, U!Own("hidden", l - 1)) = a[U!Own("hidden", l - 1)]
        /\ U!Content(a, U!Own("selfOutput", l)) = a[U!Own("selfOutput", l)]
        /\ U!Content(a, U!Own("selfNormWeight", l)) = U!Own("selfNormWeight", l)
        /\ U!Content(a, U!Own("selfNormBias", l)) = U!Own("selfNormBias", l)
    BY <1>1, <1>4, <1>5, BuffersOfRun, WeightsOfRun DEF U!Intermediates
  <2> QED BY <2>2, <2>3
<1>12. a[U!Own("crossQuery", l)]
         = U!Result("linear",
                    <<a[U!Own("selfNormalized", l)], U!Own("crossQueryWeight", l), U!Own("crossQueryBias", l)>>,
                    RunMemory[U!Own("crossQuery", l)], n)
  <2>1. Equation(a, RunMemory,
                 U!Step("linear", <<U!Own("selfNormalized", l), U!Own("crossQueryWeight", l),
                                    U!Own("crossQueryBias", l)>>, U!Own("crossQuery", l)), n)
    <3>1. 7 \in 1 .. 13
      OBVIOUS
    <3> QED BY <1>3, <3>1, StepsOfLayer
  <2>2. a[U!Own("crossQuery", l)]
          = U!Result("linear",
                     <<U!Content(a, U!Own("selfNormalized", l)), U!Content(a, U!Own("crossQueryWeight", l)),
                       U!Content(a, U!Own("crossQueryBias", l))>>,
                     RunMemory[U!Own("crossQuery", l)], n)
    BY <2>1, EquationOfThree
  <2>3. /\ U!Content(a, U!Own("selfNormalized", l)) = a[U!Own("selfNormalized", l)]
        /\ U!Content(a, U!Own("crossQueryWeight", l)) = U!Own("crossQueryWeight", l)
        /\ U!Content(a, U!Own("crossQueryBias", l)) = U!Own("crossQueryBias", l)
    BY <1>1, <1>4, <1>5, BuffersOfRun, WeightsOfRun DEF U!Intermediates
  <2> QED BY <2>2, <2>3
<1>13. a[U!Own("crossContext", l)]
         = U!Result("crossAttention",
                    <<a[U!Own("crossQuery", l)], a[U!Own("memoryKeys", l)], a[U!Own("memoryValues", l)]>>,
                    RunMemory[U!Own("crossContext", l)], n)
  <2>1. Equation(a, RunMemory,
                 U!Step("crossAttention",
                        <<U!Own("crossQuery", l), U!Own("memoryKeys", l), U!Own("memoryValues", l)>>,
                            U!Own("crossContext", l)), n)
    <3>1. 8 \in 1 .. 13
      OBVIOUS
    <3> QED BY <1>3, <3>1, StepsOfLayer
  <2>2. a[U!Own("crossContext", l)]
          = U!Result("crossAttention",
                     <<U!Content(a, U!Own("crossQuery", l)), U!Content(a, U!Own("memoryKeys", l)),
                       U!Content(a, U!Own("memoryValues", l))>>,
                     RunMemory[U!Own("crossContext", l)], n)
    BY <2>1, EquationOfThree
  <2>3. /\ U!Content(a, U!Own("crossQuery", l)) = a[U!Own("crossQuery", l)]
        /\ U!Content(a, U!Own("memoryKeys", l)) = a[U!Own("memoryKeys", l)]
        /\ U!Content(a, U!Own("memoryValues", l)) = a[U!Own("memoryValues", l)]
    BY <1>1, <1>4, <1>5, BuffersOfRun, WeightsOfRun DEF U!Intermediates
  <2> QED BY <2>2, <2>3
<1>14. a[U!Own("crossOutput", l)]
         = U!Result("linear",
                    <<a[U!Own("crossContext", l)], U!Own("crossOutputWeight", l), U!Own("crossOutputBias", l)>>,
                    RunMemory[U!Own("crossOutput", l)], n)
  <2>1. Equation(a, RunMemory,
                 U!Step("linear", <<U!Own("crossContext", l), U!Own("crossOutputWeight", l),
                                    U!Own("crossOutputBias", l)>>, U!Own("crossOutput", l)), n)
    <3>1. 9 \in 1 .. 13
      OBVIOUS
    <3> QED BY <1>3, <3>1, StepsOfLayer
  <2>2. a[U!Own("crossOutput", l)]
          = U!Result("linear",
                     <<U!Content(a, U!Own("crossContext", l)), U!Content(a, U!Own("crossOutputWeight", l)),
                       U!Content(a, U!Own("crossOutputBias", l))>>,
                     RunMemory[U!Own("crossOutput", l)], n)
    BY <2>1, EquationOfThree
  <2>3. /\ U!Content(a, U!Own("crossContext", l)) = a[U!Own("crossContext", l)]
        /\ U!Content(a, U!Own("crossOutputWeight", l)) = U!Own("crossOutputWeight", l)
        /\ U!Content(a, U!Own("crossOutputBias", l)) = U!Own("crossOutputBias", l)
    BY <1>1, <1>4, <1>5, BuffersOfRun, WeightsOfRun DEF U!Intermediates
  <2> QED BY <2>2, <2>3
<1>15. a[U!Own("crossNormalized", l)]
         = U!Result("residualNorm",
                    <<a[U!Own("selfNormalized", l)], a[U!Own("crossOutput", l)], U!Own("crossNormWeight", l),
                      U!Own("crossNormBias", l)>>,
                    RunMemory[U!Own("crossNormalized", l)], n)
  <2>1. Equation(a, RunMemory,
                 U!Step("residualNorm",
                        <<U!Own("selfNormalized", l), U!Own("crossOutput", l), U!Own("crossNormWeight", l),
                          U!Own("crossNormBias", l)>>, U!Own("crossNormalized", l)), n)
    <3>1. 10 \in 1 .. 13
      OBVIOUS
    <3> QED BY <1>3, <3>1, StepsOfLayer
  <2>2. a[U!Own("crossNormalized", l)]
          = U!Result("residualNorm",
                     <<U!Content(a, U!Own("selfNormalized", l)), U!Content(a, U!Own("crossOutput", l)),
                       U!Content(a, U!Own("crossNormWeight", l)), U!Content(a, U!Own("crossNormBias", l))>>,
                     RunMemory[U!Own("crossNormalized", l)], n)
    BY <2>1, EquationOfFour
  <2>3. /\ U!Content(a, U!Own("selfNormalized", l)) = a[U!Own("selfNormalized", l)]
        /\ U!Content(a, U!Own("crossOutput", l)) = a[U!Own("crossOutput", l)]
        /\ U!Content(a, U!Own("crossNormWeight", l)) = U!Own("crossNormWeight", l)
        /\ U!Content(a, U!Own("crossNormBias", l)) = U!Own("crossNormBias", l)
    BY <1>1, <1>4, <1>5, BuffersOfRun, WeightsOfRun DEF U!Intermediates
  <2> QED BY <2>2, <2>3
<1>16. a[U!Own("feedForwardHidden", l)]
         = U!Result("linearRelu",
                    <<a[U!Own("crossNormalized", l)], U!Own("feedForwardInputWeight", l),
                      U!Own("feedForwardInputBias", l)>>,
                    RunMemory[U!Own("feedForwardHidden", l)], n)
  <2>1. Equation(a, RunMemory,
                 U!Step("linearRelu",
                        <<U!Own("crossNormalized", l), U!Own("feedForwardInputWeight", l),
                          U!Own("feedForwardInputBias", l)>>, U!Own("feedForwardHidden", l)), n)
    <3>1. 11 \in 1 .. 13
      OBVIOUS
    <3> QED BY <1>3, <3>1, StepsOfLayer
  <2>2. a[U!Own("feedForwardHidden", l)]
          = U!Result("linearRelu",
                     <<U!Content(a, U!Own("crossNormalized", l)),
                       U!Content(a, U!Own("feedForwardInputWeight", l)),
                           U!Content(a, U!Own("feedForwardInputBias", l))>>,
                     RunMemory[U!Own("feedForwardHidden", l)], n)
    BY <2>1, EquationOfThree
  <2>3. /\ U!Content(a, U!Own("crossNormalized", l)) = a[U!Own("crossNormalized", l)]
        /\ U!Content(a, U!Own("feedForwardInputWeight", l)) = U!Own("feedForwardInputWeight", l)
        /\ U!Content(a, U!Own("feedForwardInputBias", l)) = U!Own("feedForwardInputBias", l)
    BY <1>1, <1>4, <1>5, BuffersOfRun, WeightsOfRun DEF U!Intermediates
  <2> QED BY <2>2, <2>3
<1>17. a[U!Own("feedForwardOutput", l)]
         = U!Result("linear",
                    <<a[U!Own("feedForwardHidden", l)], U!Own("feedForwardOutputWeight", l),
                      U!Own("feedForwardOutputBias", l)>>,
                    RunMemory[U!Own("feedForwardOutput", l)], n)
  <2>1. Equation(a, RunMemory,
                 U!Step("linear", <<U!Own("feedForwardHidden", l), U!Own("feedForwardOutputWeight", l),
                                    U!Own("feedForwardOutputBias", l)>>, U!Own("feedForwardOutput", l)), n)
    <3>1. 12 \in 1 .. 13
      OBVIOUS
    <3> QED BY <1>3, <3>1, StepsOfLayer
  <2>2. a[U!Own("feedForwardOutput", l)]
          = U!Result("linear",
                     <<U!Content(a, U!Own("feedForwardHidden", l)),
                       U!Content(a, U!Own("feedForwardOutputWeight", l)),
                           U!Content(a, U!Own("feedForwardOutputBias", l))>>,
                     RunMemory[U!Own("feedForwardOutput", l)], n)
    BY <2>1, EquationOfThree
  <2>3. /\ U!Content(a, U!Own("feedForwardHidden", l)) = a[U!Own("feedForwardHidden", l)]
        /\ U!Content(a, U!Own("feedForwardOutputWeight", l)) = U!Own("feedForwardOutputWeight", l)
        /\ U!Content(a, U!Own("feedForwardOutputBias", l)) = U!Own("feedForwardOutputBias", l)
    BY <1>1, <1>4, <1>5, BuffersOfRun, WeightsOfRun DEF U!Intermediates
  <2> QED BY <2>2, <2>3
<1>18. a[U!Own("hidden", l)]
         = U!Result("residualNorm",
                    <<a[U!Own("crossNormalized", l)], a[U!Own("feedForwardOutput", l)],
                      U!Own("feedForwardNormWeight", l), U!Own("feedForwardNormBias", l)>>,
                    RunMemory[U!Own("hidden", l)], n)
  <2>1. Equation(a, RunMemory,
                 U!Step("residualNorm",
                        <<U!Own("crossNormalized", l), U!Own("feedForwardOutput", l),
                          U!Own("feedForwardNormWeight", l), U!Own("feedForwardNormBias", l)>>,
                              U!Own("hidden", l)), n)
    <3>1. 13 \in 1 .. 13
      OBVIOUS
    <3> QED BY <1>3, <3>1, StepsOfLayer
  <2>2. a[U!Own("hidden", l)]
          = U!Result("residualNorm",
                     <<U!Content(a, U!Own("crossNormalized", l)), U!Content(a, U!Own("feedForwardOutput", l)),
                       U!Content(a, U!Own("feedForwardNormWeight", l)),
                           U!Content(a, U!Own("feedForwardNormBias", l))>>,
                     RunMemory[U!Own("hidden", l)], n)
    BY <2>1, EquationOfFour
  <2>3. /\ U!Content(a, U!Own("crossNormalized", l)) = a[U!Own("crossNormalized", l)]
        /\ U!Content(a, U!Own("feedForwardOutput", l)) = a[U!Own("feedForwardOutput", l)]
        /\ U!Content(a, U!Own("feedForwardNormWeight", l)) = U!Own("feedForwardNormWeight", l)
        /\ U!Content(a, U!Own("feedForwardNormBias", l)) = U!Own("feedForwardNormBias", l)
    BY <1>1, <1>4, <1>5, BuffersOfRun, WeightsOfRun DEF U!Intermediates
  <2> QED BY <2>2, <2>3
<1> QED BY <1>6, <1>7, <1>8, <1>9, <1>10, <1>11, <1>12, <1>13, <1>14, <1>15, <1>16, <1>17, <1>18 DEF LayerMade

\* The steps before and behind the layers.
LEMMA EndEquations ==
  ASSUME UnpagedSetting, executor = "transformer", CachesTyped, MemoryTyped,
         NEW a, a = U!After(Len(U!Steps)), NEW n, n = Len(run.tokens)
  PROVE  /\ a[U!Own("hidden", 0)]
              = U!Result("embedding",
                         <<a[U!Common("tokens")], U!Common("embeddingWeight"), U!Common("positionTable"),
                           a[U!Own("length", 1)]>>,
                         RunMemory[U!Own("hidden", 0)], n)
         /\ a[U!Common("logits")]
              = U!Result("linear",
                         <<a[U!Own("hidden", LayerCount)], U!Common("languageModelHeadWeight"),
                           U!Common("languageModelHeadBias")>>,
                         RunMemory[U!Common("logits")], n)
         /\ a[U!Common("nextTokens")]
              = U!Result("argmax", <<a[U!Common("logits")]>>, RunMemory[U!Common("nextTokens")], n)
<1>1. /\ IsExecutor /\ U!Steps = U!DecoderSteps /\ LayerCount \in Nat \ {0} /\ 1 \in U!Used
      /\ Len(U!Steps) = 13 * LayerCount + 3 /\ LayerCount \in U!Used
  BY UsedLayers, StepsOfDecoder DEF IsExecutor, U!Steps, U!Layers
<1>2. /\ DOMAIN a = RunBuffers
      /\ \A i \in 1 .. Len(U!Steps) : Equation(a, RunMemory, U!Steps[i], n)
  <2>1. Len(U!Steps) \in 0 .. Len(U!Steps)
    BY <1>1
  <2> QED BY <1>1, <2>1, RunEquations DEF Equation
<1>3. /\ Equation(a, RunMemory, U!Embedding[1], n)
      /\ Equation(a, RunMemory, U!LanguageModelHead[1], n)
      /\ Equation(a, RunMemory, U!LanguageModelHead[2], n)
  <2>1. /\ 1 \in 1 .. Len(U!Steps) /\ 13 * LayerCount + 2 \in 1 .. Len(U!Steps)
        /\ 13 * LayerCount + 3 \in 1 .. Len(U!Steps)
    BY <1>1
  <2>2. /\ U!DecoderSteps[1] = U!Embedding[1]
        /\ U!DecoderSteps[13 * LayerCount + 2] = U!LanguageModelHead[1]
        /\ U!DecoderSteps[13 * LayerCount + 3] = U!LanguageModelHead[2]
    BY <1>1, StepsOfDecoder
  <2>3. /\ Equation(a, RunMemory, U!Steps[1], n)
        /\ Equation(a, RunMemory, U!Steps[13 * LayerCount + 2], n)
        /\ Equation(a, RunMemory, U!Steps[13 * LayerCount + 3], n)
    <3> QED BY <1>2, <2>1
  <2> QED BY <1>1, <2>2, <2>3
<1>4. /\ \A b \in RunBuffers : U!Content(a, b) = a[b]
      /\ \A b : b \notin RunBuffers => U!Content(a, b) = b
  BY <1>2 DEF U!Content
<1>5. U!Own("hidden", 0) \in RunBuffers
  BY DEF RunBuffers
<1>6. a[U!Own("hidden", 0)]
        = U!Result("embedding",
                   <<a[U!Common("tokens")], U!Common("embeddingWeight"), U!Common("positionTable"),
                     a[U!Own("length", 1)]>>,
                   RunMemory[U!Own("hidden", 0)], n)
  <2>1. Equation(a, RunMemory,
                 U!Step("embedding",
                        <<U!Common("tokens"), U!Common("embeddingWeight"), U!Common("positionTable"),
                          U!Own("length", 1)>>, U!Own("hidden", 0)), n)
    <3> QED BY <1>3 DEF U!Embedding
  <2>2. a[U!Own("hidden", 0)]
          = U!Result("embedding",
                     <<U!Content(a, U!Common("tokens")), U!Content(a, U!Common("embeddingWeight")),
                       U!Content(a, U!Common("positionTable")), U!Content(a, U!Own("length", 1))>>,
                     RunMemory[U!Own("hidden", 0)], n)
    BY <2>1, EquationOfFour
  <2>3. /\ U!Content(a, U!Common("tokens")) = a[U!Common("tokens")]
        /\ U!Content(a, U!Common("embeddingWeight")) = U!Common("embeddingWeight")
        /\ U!Content(a, U!Common("positionTable")) = U!Common("positionTable")
        /\ U!Content(a, U!Own("length", 1)) = a[U!Own("length", 1)]
    BY <1>1, <1>4, BuffersOfRun, CommonOfRun
  <2> QED BY <2>2, <2>3
<1>7. a[U!Common("logits")]
        = U!Result("linear",
                   <<a[U!Own("hidden", LayerCount)], U!Common("languageModelHeadWeight"),
                     U!Common("languageModelHeadBias")>>,
                   RunMemory[U!Common("logits")], n)
  <2>1. Equation(a, RunMemory,
                 U!Step("linear",
                        <<U!Own("hidden", LayerCount), U!Common("languageModelHeadWeight"),
                          U!Common("languageModelHeadBias")>>, U!Common("logits")), n)
    <3> QED BY <1>3 DEF U!LanguageModelHead
  <2>2. a[U!Common("logits")]
          = U!Result("linear",
                     <<U!Content(a, U!Own("hidden", LayerCount)),
                       U!Content(a, U!Common("languageModelHeadWeight")),
                       U!Content(a, U!Common("languageModelHeadBias"))>>,
                     RunMemory[U!Common("logits")], n)
    BY <2>1, EquationOfThree
  <2>3. /\ U!Content(a, U!Own("hidden", LayerCount)) = a[U!Own("hidden", LayerCount)]
        /\ U!Content(a, U!Common("languageModelHeadWeight")) = U!Common("languageModelHeadWeight")
        /\ U!Content(a, U!Common("languageModelHeadBias")) = U!Common("languageModelHeadBias")
    BY <1>1, <1>4, BuffersOfRun, CommonOfRun DEF U!Intermediates
  <2> QED BY <2>2, <2>3
<1>8. a[U!Common("nextTokens")]
        = U!Result("argmax", <<a[U!Common("logits")]>>, RunMemory[U!Common("nextTokens")], n)
  <2>1. Equation(a, RunMemory, U!Step("argmax", <<U!Common("logits")>>, U!Common("nextTokens")), n)
    <3> QED BY <1>3 DEF U!LanguageModelHead
  <2>2. a[U!Common("nextTokens")]
          = U!Result("argmax", <<U!Content(a, U!Common("logits"))>>, RunMemory[U!Common("nextTokens")], n)
    BY <2>1, EquationOfOne
  <2>3. U!Content(a, U!Common("logits")) = a[U!Common("logits")]
    BY <1>4, CommonOfRun
  <2> QED BY <2>2, <2>3
<1> QED BY <1>6, <1>7, <1>8

\* The steps of the attention on its own.
LEMMA AttentionEquations ==
  ASSUME UnpagedSetting, executor = "attention", CachesTyped, MemoryTyped,
         NEW a, a = U!After(Len(U!Steps)), NEW n, n = Len(run.tokens)
  PROVE  /\ a[U!Own("query", 1)]
              = U!Result("query", <<a[U!Common("queryInput")], U!Own("queryWeight", 1)>>,
                         RunMemory[U!Own("query", 1)], n)
         /\ a[U!Own("keys", 1)]
              = U!Result("cache",
                         <<a[U!Common("keyInput")], U!Own("keyWeight", 1), a[U!Own("length", 1)]>>,
                         RunMemory[U!Own("keys", 1)], n)
         /\ a[U!Own("values", 1)]
              = U!Result("cache",
                         <<a[U!Common("valueInput")], U!Own("valueWeight", 1), a[U!Own("length", 1)]>>,
                         RunMemory[U!Own("values", 1)], n)
         /\ a[U!Own("selfContext", 1)]
              = U!Result("attention",
                         <<a[U!Own("query", 1)], a[U!Own("keys", 1)], a[U!Own("values", 1)],
                           a[U!Own("length", 1)]>>,
                         RunMemory[U!Own("selfContext", 1)], n)
         /\ a[U!Common("output")]
              = U!Result("output", <<a[U!Own("selfContext", 1)], U!Own("outputWeight", 1)>>,
                         RunMemory[U!Common("output")], n)
<1>1. IsExecutor /\ U!Steps = U!AttentionSteps /\ 1 \in U!Used /\ Len(U!Steps) = 5
  BY UsedLayers, AttentionIsOrdered DEF IsExecutor, U!Steps
<1>2. /\ DOMAIN a = RunBuffers
      /\ \A i \in 1 .. Len(U!Steps) : Equation(a, RunMemory, U!Steps[i], n)
  <2>1. Len(U!Steps) \in 0 .. Len(U!Steps)
    BY <1>1
  <2> QED BY <1>1, <2>1, RunEquations DEF Equation
<1>3. \A i \in 1 .. 5 : Equation(a, RunMemory, U!AttentionSteps[i], n)
  <2> QED BY <1>1, <1>2
<1>4. /\ \A b \in RunBuffers : U!Content(a, b) = a[b]
      /\ \A b : b \notin RunBuffers => U!Content(a, b) = b
  BY <1>2 DEF U!Content
<1>5. a[U!Own("query", 1)]
        = U!Result("query", <<a[U!Common("queryInput")], U!Own("queryWeight", 1)>>,
                   RunMemory[U!Own("query", 1)], n)
  <2>1. Equation(a, RunMemory,
                 U!Step("query", <<U!Common("queryInput"), U!Own("queryWeight", 1)>>, U!Own("query", 1)), n)
    <3>1. 1 \in 1 .. 5
      OBVIOUS
    <3>2. U!AttentionSteps[1]
              = U!Step("query", <<U!Common("queryInput"), U!Own("queryWeight", 1)>>, U!Own("query", 1))
      BY DEF U!AttentionSteps
    <3> QED BY <1>3, <3>1, <3>2
  <2>2. a[U!Own("query", 1)]
          = U!Result("query",
                     <<U!Content(a, U!Common("queryInput")), U!Content(a, U!Own("queryWeight", 1))>>,
                     RunMemory[U!Own("query", 1)], n)
    BY <2>1, EquationOfTwo
  <2>3. /\ U!Content(a, U!Common("queryInput")) = a[U!Common("queryInput")]
        /\ U!Content(a, U!Own("queryWeight", 1)) = U!Own("queryWeight", 1)
    BY <1>1, <1>4, BuffersOfRun, CommonOfRun, WeightsOfAttention DEF U!Intermediates
  <2> QED BY <2>2, <2>3
<1>6. a[U!Own("keys", 1)]
        = U!Result("cache", <<a[U!Common("keyInput")], U!Own("keyWeight", 1), a[U!Own("length", 1)]>>,
                   RunMemory[U!Own("keys", 1)], n)
  <2>1. Equation(a, RunMemory,
                 U!Step("cache", <<U!Common("keyInput"), U!Own("keyWeight", 1), U!Own("length", 1)>>,
                        U!Own("keys", 1)), n)
    <3>1. 2 \in 1 .. 5
      OBVIOUS
    <3>2. U!AttentionSteps[2]
              = U!Step("cache", <<U!Common("keyInput"), U!Own("keyWeight", 1), U!Own("length", 1)>>,
                       U!Own("keys", 1))
      BY DEF U!AttentionSteps
    <3> QED BY <1>3, <3>1, <3>2
  <2>2. a[U!Own("keys", 1)]
          = U!Result("cache",
                     <<U!Content(a, U!Common("keyInput")), U!Content(a, U!Own("keyWeight", 1)),
                       U!Content(a, U!Own("length", 1))>>,
                     RunMemory[U!Own("keys", 1)], n)
    BY <2>1, EquationOfThree
  <2>3. /\ U!Content(a, U!Common("keyInput")) = a[U!Common("keyInput")]
        /\ U!Content(a, U!Own("keyWeight", 1)) = U!Own("keyWeight", 1)
        /\ U!Content(a, U!Own("length", 1)) = a[U!Own("length", 1)]
    BY <1>1, <1>4, BuffersOfRun, CommonOfRun, WeightsOfAttention DEF U!Intermediates
  <2> QED BY <2>2, <2>3
<1>7. a[U!Own("values", 1)]
        = U!Result("cache", <<a[U!Common("valueInput")], U!Own("valueWeight", 1), a[U!Own("length", 1)]>>,
                   RunMemory[U!Own("values", 1)], n)
  <2>1. Equation(a, RunMemory,
                 U!Step("cache", <<U!Common("valueInput"), U!Own("valueWeight", 1), U!Own("length", 1)>>,
                        U!Own("values", 1)), n)
    <3>1. 3 \in 1 .. 5
      OBVIOUS
    <3>2. U!AttentionSteps[3]
              = U!Step("cache", <<U!Common("valueInput"), U!Own("valueWeight", 1), U!Own("length", 1)>>,
                       U!Own("values", 1))
      BY DEF U!AttentionSteps
    <3> QED BY <1>3, <3>1, <3>2
  <2>2. a[U!Own("values", 1)]
          = U!Result("cache",
                     <<U!Content(a, U!Common("valueInput")), U!Content(a, U!Own("valueWeight", 1)),
                       U!Content(a, U!Own("length", 1))>>,
                     RunMemory[U!Own("values", 1)], n)
    BY <2>1, EquationOfThree
  <2>3. /\ U!Content(a, U!Common("valueInput")) = a[U!Common("valueInput")]
        /\ U!Content(a, U!Own("valueWeight", 1)) = U!Own("valueWeight", 1)
        /\ U!Content(a, U!Own("length", 1)) = a[U!Own("length", 1)]
    BY <1>1, <1>4, BuffersOfRun, CommonOfRun, WeightsOfAttention DEF U!Intermediates
  <2> QED BY <2>2, <2>3
<1>8. a[U!Own("selfContext", 1)]
        = U!Result("attention",
                   <<a[U!Own("query", 1)], a[U!Own("keys", 1)], a[U!Own("values", 1)], a[U!Own("length", 1)]>>,
                   RunMemory[U!Own("selfContext", 1)], n)
  <2>1. Equation(a, RunMemory,
                 U!Step("attention",
                        <<U!Own("query", 1), U!Own("keys", 1), U!Own("values", 1), U!Own("length", 1)>>,
                            U!Own("selfContext", 1)), n)
    <3>1. 4 \in 1 .. 5
      OBVIOUS
    <3>2. U!AttentionSteps[4]
              = U!Step("attention",
                       <<U!Own("query", 1), U!Own("keys", 1), U!Own("values", 1), U!Own("length", 1)>>,
                           U!Own("selfContext", 1))
      BY DEF U!AttentionSteps
    <3> QED BY <1>3, <3>1, <3>2
  <2>2. a[U!Own("selfContext", 1)]
          = U!Result("attention",
                     <<U!Content(a, U!Own("query", 1)), U!Content(a, U!Own("keys", 1)),
                       U!Content(a, U!Own("values", 1)), U!Content(a, U!Own("length", 1))>>,
                     RunMemory[U!Own("selfContext", 1)], n)
    BY <2>1, EquationOfFour
  <2>3. /\ U!Content(a, U!Own("query", 1)) = a[U!Own("query", 1)]
        /\ U!Content(a, U!Own("keys", 1)) = a[U!Own("keys", 1)]
        /\ U!Content(a, U!Own("values", 1)) = a[U!Own("values", 1)]
        /\ U!Content(a, U!Own("length", 1)) = a[U!Own("length", 1)]
    BY <1>1, <1>4, BuffersOfRun, CommonOfRun, WeightsOfAttention DEF U!Intermediates
  <2> QED BY <2>2, <2>3
<1>9. a[U!Common("output")]
        = U!Result("output", <<a[U!Own("selfContext", 1)], U!Own("outputWeight", 1)>>,
                   RunMemory[U!Common("output")], n)
  <2>1. Equation(a, RunMemory,
                 U!Step("output", <<U!Own("selfContext", 1), U!Own("outputWeight", 1)>>, U!Common("output")), n)
    <3>1. 5 \in 1 .. 5
      OBVIOUS
    <3>2. U!AttentionSteps[5]
              = U!Step("output", <<U!Own("selfContext", 1), U!Own("outputWeight", 1)>>, U!Common("output"))
      BY DEF U!AttentionSteps
    <3> QED BY <1>3, <3>1, <3>2
  <2>2. a[U!Common("output")]
          = U!Result("output",
                     <<U!Content(a, U!Own("selfContext", 1)), U!Content(a, U!Own("outputWeight", 1))>>,
                     RunMemory[U!Common("output")], n)
    BY <2>1, EquationOfTwo
  <2>3. /\ U!Content(a, U!Own("selfContext", 1)) = a[U!Own("selfContext", 1)]
        /\ U!Content(a, U!Own("outputWeight", 1)) = U!Own("outputWeight", 1)
    BY <1>1, <1>4, BuffersOfRun, CommonOfRun, WeightsOfAttention DEF U!Intermediates
  <2> QED BY <2>2, <2>3
<1> QED BY <1>5, <1>6, <1>7, <1>8, <1>9

----------------------------------------------------------------------------
(* What a run computes from the rows of the layer below. *)

\* The position, in the caches, of a token of a run that begins at p.
Position(row, n, p) == <<U!BatchOf(row, n), p + U!TokenOf(row, n)>>

\* Buffer x holds the rows of the run's tokens.
Stands(x, rows, n, p) ==
  HasRows(x, n) /\ \A row \in U!Rows(n) : x[row] = rows[Position(row, n, p)]

\* Cache x holds what the weight makes of the first k rows.
CellsAre(x, rows, weight, l, k) ==
  \A b \in U!Batches, q \in 0 .. k - 1 : x[<<b, q>>] = U!Projected(rows[<<b, q>>], weight, l)

LEMMA PositionOfRow ==
  ASSUME Batch \in Nat, NEW n \in Nat, n > 0, NEW p \in Nat, NEW row \in U!Rows(n)
  PROVE  /\ U!BatchOf(row, n) \in U!Batches /\ p + U!TokenOf(row, n) \in 0 .. (p + n) - 1
         /\ Position(row, n, p) = <<U!BatchOf(row, n), p + U!TokenOf(row, n)>>
<1>1. U!BatchOf(row, n) \in U!Batches /\ U!TokenOf(row, n) \in 0 .. n - 1
  BY CellOfRow
<1> QED BY <1>1 DEF Position

\* A cache that holds the rows of the first p tokens holds, behind the step that
\* appends to it, those of the run's tokens as well.
LEMMA CellsAppended ==
  ASSUME Batch \in Nat, Capacity \in Nat, NEW n \in Nat, n > 0, NEW p \in Nat, p + n <= Capacity,
         NEW x, NEW rows, Stands(x, rows, n, p), NEW weight, NEW l, NEW old,
         CellsAre(old, rows, weight, l, p),
         NEW r, r = U!Result("cache", <<x, U!Own(weight, l), p + n>>, old, n)
  PROVE  CellsAre(r, rows, weight, l, p + n)
<1> SUFFICES ASSUME NEW b \in U!Batches, NEW q \in 0 .. (p + n) - 1
             PROVE  r[<<b, q>>] = U!Projected(rows[<<b, q>>], weight, l)
  BY DEF CellsAre
<1> DEFINE w == U!Own(weight, l)
           size == p + n
           cell == <<b, q>>
<1>1. cell \in U!Cells /\ cell[1] = b /\ cell[2] = q /\ size \in n .. Capacity /\ size - n = p
  BY DEF U!Cells
<1>2. r[cell] = LET token == cell[2] - (size - n)
                IN  IF size \in n .. Capacity /\ token \in 0 .. n - 1
                    THEN U!Linear(x[cell[1] * n + token + 1], w, U!NoBias)
                    ELSE old[cell]
  <2>1. r = U!Result("cache", <<x, w, size>>, old, n)
    OBVIOUS
  <2> HIDE DEF w, size, cell
  <2> QED BY <1>1, <2>1, CacheMakes
<1> HIDE DEF w, size
<1>3. CASE q < p
  <2>1. r[cell] = old[cell]
    <3>1. ~(cell[2] - (size - n) \in 0 .. n - 1)
      BY <1>1, <1>3
    <3> HIDE DEF cell
    <3> QED BY <1>2, <3>1
  <2> QED BY <1>3, <2>1 DEF CellsAre
<1>4. CASE q >= p
  <2> DEFINE t == q - p
             row == b * n + t + 1
  <2>1. t \in 0 .. n - 1 /\ p + t = q
    BY <1>4
  <2>2. r[cell] = U!Linear(x[row], w, U!NoBias)
    <3>1. cell[2] - (size - n) = t /\ cell[1] = b
      BY <1>1
    <3> HIDE DEF cell, t
    <3> QED BY <1>1, <1>2, <2>1, <3>1
  <2>3. row \in U!Rows(n) /\ U!BatchOf(row, n) = b /\ U!TokenOf(row, n) = t
    BY <2>1, RowOfCell
  <2>4. x[row] = rows[cell]
    <3> HIDE DEF t, row
    <3>1. Position(row, n, p) = cell
      BY <2>1, <2>3 DEF Position
    <3> HIDE DEF cell
    <3> QED BY <2>3, <3>1 DEF Stands
  <2> HIDE DEF cell, row
  <2>5. r[cell] = U!Projected(rows[cell], weight, l)
    BY <2>2, <2>4 DEF U!Projected, w
  <2> QED BY <2>5 DEF cell
<1> QED BY <1>3, <1>4

LEMMA CellsSeen ==
  ASSUME NEW k \in Nat, NEW x, NEW rows, NEW weight, NEW l, CellsAre(x, rows, weight, l, k),
         NEW b \in U!Batches, NEW q \in 0 .. k - 1
  PROVE  [i \in 0 .. q |-> x[<<b, i>>]] = Seen(rows, weight, b, q, l)
<1>1. \A i \in 0 .. q : i \in 0 .. k - 1
  OBVIOUS
<1>2. \A i \in 0 .. q : x[<<b, i>>] = U!Projected(rows[<<b, i>>], weight, l)
  BY <1>1 DEF CellsAre
<1> QED BY <1>2 DEF Seen

\* The encoder's memory in a layer.
MemoryHeld(l) ==
  \A b \in U!Batches :
    /\ memory[U!Own("memoryKeys", l)][b + 1]
         = U!Affine(<<"memory", b>>, "crossKeyWeight", "crossKeyBias", l)
    /\ memory[U!Own("memoryValues", l)][b + 1]
         = U!Affine(<<"memory", b>>, "crossValueWeight", "crossValueBias", l)

\* Buffer x holds what layer l makes of the rows of the layer below.
LayerStands(x, rows, l, n, p) ==
  /\ HasRows(x, n)
  /\ \A row \in U!Rows(n) :
       LET b == U!BatchOf(row, n)
           q == p + U!TokenOf(row, n)
       IN  x[row] = U!DecoderLayer(rows[<<b, q>>], Seen(rows, "selfKeyWeight", b, q, l),
                                   Seen(rows, "selfValueWeight", b, q, l), b, l)

\* The steps of a layer turn the rows of the layer below into its own.
LEMMA LayerComputes ==
  ASSUME UnpagedSetting, executor = "transformer", CachesTyped, MemoryTyped, NEW l \in U!Layers,
         NEW a, a = U!After(Len(U!Steps)), NEW n \in Nat, n > 0, n = Len(run.tokens),
         NEW p \in Nat, p + n <= Capacity, unpagedDevLength[l] = p + n,
         NEW rows, Stands(a[U!Own("hidden", l - 1)], rows, n, p),
         CellsAre(caches[U!Own("keys", l)], rows, "selfKeyWeight", l, p),
         CellsAre(caches[U!Own("values", l)], rows, "selfValueWeight", l, p),
         MemoryHeld(l)
  PROVE  /\ CellsAre(a[U!Own("keys", l)], rows, "selfKeyWeight", l, p + n)
         /\ CellsAre(a[U!Own("values", l)], rows, "selfValueWeight", l, p + n)
         /\ LayerStands(a[U!Own("hidden", l)], rows, l, n, p)
<1> DEFINE current == a[U!Own("hidden", l - 1)]
           query == a[U!Own("query", l)]
           keys == a[U!Own("keys", l)]
           values == a[U!Own("values", l)]
           selfContext == a[U!Own("selfContext", l)]
           selfOutput == a[U!Own("selfOutput", l)]
           selfNormalized == a[U!Own("selfNormalized", l)]
           crossQuery == a[U!Own("crossQuery", l)]
           crossContext == a[U!Own("crossContext", l)]
           crossOutput == a[U!Own("crossOutput", l)]
           crossNormalized == a[U!Own("crossNormalized", l)]
           inner == a[U!Own("feedForwardHidden", l)]
           outer == a[U!Own("feedForwardOutput", l)]
           hidden == a[U!Own("hidden", l)]
           memoryKeys == memory[U!Own("memoryKeys", l)]
           memoryValues == memory[U!Own("memoryValues", l)]
           Old(name) == RunMemory[U!Own(name, l)]
           W(name) == U!Own(name, l)
           size == p + n
<1>1. /\ IsExecutor /\ LayerCount \in Nat /\ Batch \in Nat /\ Capacity \in Nat /\ l \in U!Used
      /\ Len(U!Steps) \in 0 .. Len(U!Steps)
  BY UsedLayers, StepsAreOrdered DEF IsExecutor
<1>2. /\ a[U!Own("length", l)] = size
      /\ a[U!Own("memoryKeys", l)] = memoryKeys /\ a[U!Own("memoryValues", l)] = memoryValues
  BY <1>1, GivenIsKept
<1>3. Old("keys") = caches[U!Own("keys", l)] /\ Old("values") = caches[U!Own("values", l)]
  BY <1>1, RunBegins
<1>4. /\ query = U!Result("query", <<current, W("selfQueryWeight")>>, Old("query"), n)
      /\ keys = U!Result("cache", <<current, W("selfKeyWeight"), size>>, Old("keys"), n)
      /\ values = U!Result("cache", <<current, W("selfValueWeight"), size>>, Old("values"), n)
      /\ selfContext = U!Result("causalAttention", <<query, keys, values, size>>, Old("selfContext"), n)
      /\ selfOutput = U!Result("output", <<selfContext, W("selfOutputWeight")>>, Old("selfOutput"), n)
      /\ selfNormalized = U!Result("residualNorm", <<current, selfOutput, W("selfNormWeight"),
                                                     W("selfNormBias")>>, Old("selfNormalized"), n)
      /\ crossQuery = U!Result("linear", <<selfNormalized, W("crossQueryWeight"),
                                           W("crossQueryBias")>>, Old("crossQuery"), n)
      /\ crossContext = U!Result("crossAttention", <<crossQuery, memoryKeys, memoryValues>>,
                                 Old("crossContext"), n)
      /\ crossOutput = U!Result("linear", <<crossContext, W("crossOutputWeight"),
                                            W("crossOutputBias")>>, Old("crossOutput"), n)
      /\ crossNormalized = U!Result("residualNorm", <<selfNormalized, crossOutput,
                                                      W("crossNormWeight"), W("crossNormBias")>>,
                                    Old("crossNormalized"), n)
      /\ inner = U!Result("linearRelu", <<crossNormalized, W("feedForwardInputWeight"),
                                          W("feedForwardInputBias")>>, Old("feedForwardHidden"), n)
      /\ outer = U!Result("linear", <<inner, W("feedForwardOutputWeight"),
                                      W("feedForwardOutputBias")>>, Old("feedForwardOutput"), n)
      /\ hidden = U!Result("residualNorm", <<crossNormalized, outer, W("feedForwardNormWeight"),
                                             W("feedForwardNormBias")>>, Old("hidden"), n)
  <2>1. LayerMade(a, l, n)
    BY LayerEquations
  <2> HIDE DEF size, memoryKeys, memoryValues
  <2> QED BY <1>2, <2>1 DEF LayerMade
<1> HIDE DEF current, query, keys, values, selfContext, selfOutput, selfNormalized, crossQuery, crossContext,
        crossOutput, crossNormalized, inner, outer, hidden, Old, W
<1>5. CellsAre(keys, rows, "selfKeyWeight", l, size)
  <2>1. /\ Stands(current, rows, n, p) /\ CellsAre(Old("keys"), rows, "selfKeyWeight", l, p)
        /\ keys = U!Result("cache", <<current, U!Own("selfKeyWeight", l), size>>, Old("keys"), n)
    BY <1>3, <1>4 DEF current, W
  <2> QED BY <1>1, <2>1, CellsAppended
<1>6. CellsAre(values, rows, "selfValueWeight", l, size)
  <2>1. /\ Stands(current, rows, n, p) /\ CellsAre(Old("values"), rows, "selfValueWeight", l, p)
        /\ values = U!Result("cache", <<current, U!Own("selfValueWeight", l), size>>, Old("values"), n)
    BY <1>3, <1>4 DEF current, W
  <2> QED BY <1>1, <2>1, CellsAppended
<1>7. HasRows(current, n) /\ \A row \in U!Rows(n) : current[row] = rows[Position(row, n, p)]
  BY DEF Stands, current
<1>8. HasRows(query, n) /\ \A row \in U!Rows(n) : query[row]
          = U!Linear(current[row], W("selfQueryWeight"), U!NoBias)
  <2> QED BY <1>4, <1>7, QueryMakes
<1>9. HasRows(selfContext, n) /\ AttendsBefore(selfContext, query, keys, values, size, n)
  <2>1. size \in n .. Capacity
    BY <1>1
  <2>2. selfContext = U!Result("causalAttention", <<query, keys, values, size>>, Old("selfContext"), n)
    BY <1>4
  <2> HIDE DEF size
  <2> QED BY <2>1, <2>2, CausalMakes
<1>10. /\ HasRows(selfOutput, n)
       /\ \A row \in U!Rows(n) : selfOutput[row] = U!Linear(selfContext[row], W("selfOutputWeight"), U!NoBias)
  <2>1. selfOutput = U!Result("output", <<selfContext, W("selfOutputWeight")>>, Old("selfOutput"), n)
    BY <1>4
  <2>2. HasRows(selfContext, n)
    BY <1>9
  <2> QED BY <2>1, <2>2, OutputMakes
<1>11. /\ HasRows(selfNormalized, n)
       /\ \A row \in U!Rows(n) : selfNormalized[row]
              = U!Normalized(current[row], selfOutput[row], W("selfNormWeight"), W("selfNormBias"))
  <2>1. selfNormalized = U!Result("residualNorm", <<current, selfOutput, W("selfNormWeight"),
                                                   W("selfNormBias")>>, Old("selfNormalized"), n)
    BY <1>4
  <2> QED BY <2>1, <1>7, ResidualMakes
<1>12. /\ HasRows(crossQuery, n)
       /\ \A row \in U!Rows(n) : crossQuery[row]
              = U!Linear(selfNormalized[row], W("crossQueryWeight"), W("crossQueryBias"))
  <2>1. crossQuery = U!Result("linear", <<selfNormalized, W("crossQueryWeight"), W("crossQueryBias")>>,
                          Old("crossQuery"), n)
    BY <1>4
  <2> QED BY <2>1, <1>11, LinearMakes
<1>13. /\ HasRows(crossContext, n)
       /\ \A row \in U!Rows(n) :
            crossContext[row] = U!Attended(crossQuery[row], memoryKeys[U!BatchOf(row, n) + 1],
                                           memoryValues[U!BatchOf(row, n) + 1])
  <2> HIDE DEF memoryKeys, memoryValues
  <2> QED BY SMTT(40), <1>4, CrossMakes
<1>14. /\ HasRows(crossOutput, n)
       /\ \A row \in U!Rows(n) : crossOutput[row]
              = U!Linear(crossContext[row], W("crossOutputWeight"), W("crossOutputBias"))
  <2>1. crossOutput = U!Result("linear", <<crossContext, W("crossOutputWeight"), W("crossOutputBias")>>,
                           Old("crossOutput"), n)
    BY <1>4
  <2> QED BY <2>1, <1>13, LinearMakes
<1>15. /\ HasRows(crossNormalized, n)
       /\ \A row \in U!Rows(n) : crossNormalized[row]
              = U!Normalized(selfNormalized[row], crossOutput[row], W("crossNormWeight"), W("crossNormBias"))
  <2>1. crossNormalized = U!Result("residualNorm", <<selfNormalized, crossOutput, W("crossNormWeight"),
                                                    W("crossNormBias")>>, Old("crossNormalized"), n)
    BY <1>4
  <2> QED BY <2>1, <1>11, ResidualMakes
<1>16. /\ HasRows(inner, n)
       /\ \A row \in U!Rows(n) : inner[row]
              = U!Relu(U!Linear(crossNormalized[row], W("feedForwardInputWeight"), W("feedForwardInputBias")))
  <2>1. inner = U!Result("linearRelu", <<crossNormalized, W("feedForwardInputWeight"),
                                        W("feedForwardInputBias")>>, Old("feedForwardHidden"), n)
    BY <1>4
  <2> QED BY <2>1, <1>15, LinearReluMakes
<1>17. /\ HasRows(outer, n)
       /\ \A row \in U!Rows(n) : outer[row]
              = U!Linear(inner[row], W("feedForwardOutputWeight"), W("feedForwardOutputBias"))
  <2>1. outer = U!Result("linear", <<inner, W("feedForwardOutputWeight"), W("feedForwardOutputBias")>>,
                     Old("feedForwardOutput"), n)
    BY <1>4
  <2> QED BY <2>1, <1>16, LinearMakes
<1>18. /\ HasRows(hidden, n)
       /\ \A row \in U!Rows(n) : hidden[row]
              = U!Normalized(crossNormalized[row], outer[row], W("feedForwardNormWeight"),
                             W("feedForwardNormBias"))
  <2>1. hidden = U!Result("residualNorm", <<crossNormalized, outer, W("feedForwardNormWeight"),
                                           W("feedForwardNormBias")>>, Old("hidden"), n)
    BY <1>4
  <2> QED BY <2>1, <1>15, ResidualMakes
<1>19. ASSUME NEW row \in U!Rows(n), NEW b, b = U!BatchOf(row, n), NEW q, q = p + U!TokenOf(row, n)
       PROVE  hidden[row] = U!DecoderLayer(rows[<<b, q>>], Seen(rows, "selfKeyWeight", b, q, l),
                                           Seen(rows, "selfValueWeight", b, q, l), b, l)
  <2> DEFINE x == rows[<<b, q>>]
             ks == Seen(rows, "selfKeyWeight", b, q, l)
             vs == Seen(rows, "selfValueWeight", b, q, l)
  <2>1. b \in U!Batches /\ q \in 0 .. size - 1 /\ Position(row, n, p) = <<b, q>>
    BY <1>1, <1>19, PositionOfRow
  <2>2. current[row] = x
    BY <1>7, <2>1
  <2>3. /\ [i \in 0 .. q |-> keys[<<b, i>>]] = ks
        /\ [i \in 0 .. q |-> values[<<b, i>>]] = vs
    <3>1. size \in Nat
      OBVIOUS
    <3> HIDE DEF size
    <3> QED BY <1>5, <1>6, <2>1, <3>1, CellsSeen
  <2>4. selfContext[row] = U!Attended(query[row], ks, vs)
    <3> DEFINE t == U!TokenOf(row, n)
    <3>1. t \in Nat /\ q = p + t
      BY <1>1, <1>19, CellOfRow
    <3>2. (size - n + t + 1) - 1 = q
      <4> HIDE DEF t
      <4> QED BY <3>1
    <3> HIDE DEF t
    <3>3. selfContext[row] = U!Attended(query[row], [i \in 0 .. (size - n + t + 1) - 1 |-> keys[<<b, i>>]],
                                        [i \in 0 .. (size - n + t + 1) - 1 |-> values[<<b, i>>]])
      <4> HIDE DEF size
      <4> QED BY <1>9, <1>19 DEF AttendsBefore, t
    <3> HIDE DEF size, ks, vs
    <3> QED BY <2>3, <3>2, <3>3
  <2> HIDE DEF x, ks, vs
  <2> DEFINE self == U!Norm(x, U!Projected(U!Attended(U!Projected(x, "selfQueryWeight", l), ks, vs),
                                           "selfOutputWeight", l), "selfNormWeight", "selfNormBias", l)
  <2>5. selfNormalized[row] = self
    <3>1. selfOutput[row] = U!Projected(U!Attended(U!Projected(x, "selfQueryWeight", l), ks, vs),
                                        "selfOutputWeight", l)
      <4> QED BY <1>8, <1>10, <2>2, <2>4 DEF U!Projected, W
    <3> QED BY <1>11, <2>2, <3>1 DEF U!Norm, W
  <2> HIDE DEF self
  <2> DEFINE crossed == U!Attended(U!Affine(self, "crossQueryWeight", "crossQueryBias", l),
                          U!Affine(<<"memory", b>>, "crossKeyWeight", "crossKeyBias", l),
                          U!Affine(<<"memory", b>>, "crossValueWeight", "crossValueBias", l))
             cross == U!Norm(self, U!Affine(crossed, "crossOutputWeight", "crossOutputBias", l),
                             "crossNormWeight", "crossNormBias", l)
  <2>6. crossContext[row] = crossed
    <3>1. crossQuery[row] = U!Affine(self, "crossQueryWeight", "crossQueryBias", l)
      <4> QED BY <1>12, <2>5 DEF U!Affine, W
    <3>2. /\ memoryKeys[b + 1] = U!Affine(<<"memory", b>>, "crossKeyWeight", "crossKeyBias", l)
          /\ memoryValues[b + 1] = U!Affine(<<"memory", b>>, "crossValueWeight", "crossValueBias", l)
      <4> QED BY <2>1 DEF MemoryHeld
    <3>3. crossContext[row] = U!Attended(crossQuery[row], memoryKeys[b + 1], memoryValues[b + 1])
      <4> HIDE DEF memoryKeys, memoryValues
      <4> QED BY <1>13, <1>19
    <3> HIDE DEF memoryKeys, memoryValues
    <3> QED BY <3>1, <3>2, <3>3
  <2> HIDE DEF crossed
  <2>7. crossNormalized[row] = cross
    <3>1. crossOutput[row] = U!Affine(crossed, "crossOutputWeight", "crossOutputBias", l)
      <4> QED BY <1>14, <2>6 DEF U!Affine, W
    <3> QED BY <1>15, <2>5, <3>1 DEF U!Norm, W
  <2> HIDE DEF cross
  <2> DEFINE fed == U!Relu(U!Affine(cross, "feedForwardInputWeight", "feedForwardInputBias", l))
  <2>8. outer[row] = U!Affine(fed, "feedForwardOutputWeight", "feedForwardOutputBias", l)
    <3>1. inner[row] = fed
      <4> QED BY <1>16, <2>7 DEF U!Affine, W
    <3> HIDE DEF fed
    <3> QED BY <1>17, <3>1 DEF U!Affine, W
  <2>9. hidden[row] = U!Norm(cross, U!Affine(fed, "feedForwardOutputWeight", "feedForwardOutputBias", l),
                             "feedForwardNormWeight", "feedForwardNormBias", l)
    <3> HIDE DEF fed
    <3> QED BY <1>18, <2>7, <2>8 DEF U!Norm, W
  <2> QED BY <2>9 DEF U!DecoderLayer, fed, cross, crossed, self, x, ks, vs
<1>20. CellsAre(keys, rows, "selfKeyWeight", l, p + n) /\ CellsAre(values, rows, "selfValueWeight", l, p + n)
  BY <1>5, <1>6
<1>21. LayerStands(hidden, rows, l, n, p)
  BY <1>18, <1>19 DEF LayerStands
<1> QED BY <1>20, <1>21 DEF keys, values, hidden

----------------------------------------------------------------------------
(* What the caches hold for a context. *)

\* The rows that a layer's keys and values are made of, and by which weight.
KeyRows(context, l) ==
  IF executor = "transformer" THEN U!HiddenOf(context)[l - 1] ELSE U!FedOf("keyInput", context)
ValueRows(context, l) ==
  IF executor = "transformer" THEN U!HiddenOf(context)[l - 1] ELSE U!FedOf("valueInput", context)
KeyWeight == IF executor = "transformer" THEN "selfKeyWeight" ELSE "keyWeight"
ValueWeight == IF executor = "transformer" THEN "selfValueWeight" ELSE "valueWeight"

\* Caches k hold the rows of the context.
UnpagedHolds(k, context, size) ==
  \A l \in U!Used, cell \in U!Batches \X (0 .. size - 1) :
    /\ k[U!Own("keys", l)][cell] = U!Model[context][executor].keys[l][cell]
    /\ k[U!Own("values", l)][cell] = U!Model[context][executor].values[l][cell]

LEMMA ModelOfTransformer ==
  ASSUME UnpagedSetting, executor = "transformer", NEW k \in 0 .. Capacity, NEW context \in U!Contexts(k)
  PROVE  U!Model[context][executor] = U!TransformerOf(context)
<1>1. context \in UNION {U!Contexts(n) : n \in 0 .. Capacity}
  OBVIOUS
<1>2. U!Model[context] = [transformer |-> U!TransformerOf(context), attention |-> U!AttentionOf(context)]
  BY <1>1 DEF U!Model
<1> QED BY <1>2

LEMMA ModelOfAttention ==
  ASSUME UnpagedSetting, executor = "attention", NEW k \in 0 .. Capacity, NEW context \in U!Contexts(k)
  PROVE  U!Model[context][executor] = U!AttentionOf(context)
<1>1. context \in UNION {U!Contexts(n) : n \in 0 .. Capacity}
  OBVIOUS
<1>2. U!Model[context] = [transformer |-> U!TransformerOf(context), attention |-> U!AttentionOf(context)]
  BY <1>1 DEF U!Model
<1> QED BY <1>2

LEMMA ModelHolds ==
  ASSUME UnpagedSetting, IsExecutor, NEW k \in 0 .. Capacity, NEW context \in U!Contexts(k), NEW l \in U!Used,
         NEW cell \in CellsTo(k)
  PROVE  /\ U!Model[context][executor].keys[l][cell]
              = U!Projected(KeyRows(context, l)[cell], KeyWeight, l)
         /\ U!Model[context][executor].values[l][cell]
              = U!Projected(ValueRows(context, l)[cell], ValueWeight, l)
<1>1. CASE executor = "transformer"
  <2>1. l \in U!Layers /\ LayerCount \in Nat /\ l - 1 \in 0 .. LayerCount
    BY <1>1, UsedLayers DEF U!Layers
  <2>2. DOMAIN U!HiddenOf(context)[l - 1] = CellsTo(k)
    BY <2>1, HiddenCells
  <2>3. /\ U!TransformerOf(context).keys[l] = U!ProjectedOf(U!HiddenOf(context)[l - 1], "selfKeyWeight", l)
        /\ U!TransformerOf(context).values[l] = U!ProjectedOf(U!HiddenOf(context)[l - 1], "selfValueWeight", l)
    BY <2>1 DEF U!TransformerOf
  <2>4. /\ U!TransformerOf(context).keys[l][cell]
               = U!Projected(U!HiddenOf(context)[l - 1][cell], "selfKeyWeight", l)
        /\ U!TransformerOf(context).values[l][cell]
               = U!Projected(U!HiddenOf(context)[l - 1][cell], "selfValueWeight", l)
    BY <2>2, <2>3 DEF U!ProjectedOf
  <2>5. U!Model[context][executor] = U!TransformerOf(context)
    BY <1>1, ModelOfTransformer
  <2> QED BY <1>1, <2>4, <2>5 DEF KeyRows, ValueRows, KeyWeight, ValueWeight
<1>2. CASE executor = "attention"
  <2>1. l = 1 /\ U!ContextCells(context) = CellsTo(k)
    BY <1>2, UsedLayers, CellsOfContext
  <2>2. /\ DOMAIN U!FedOf("keyInput", context) = CellsTo(k)
        /\ DOMAIN U!FedOf("valueInput", context) = CellsTo(k)
    BY <2>1 DEF U!FedOf
  <2>3. /\ U!AttentionOf(context).keys[1] = U!ProjectedOf(U!FedOf("keyInput", context), "keyWeight", 1)
        /\ U!AttentionOf(context).values[1] = U!ProjectedOf(U!FedOf("valueInput", context), "valueWeight", 1)
    BY DEF U!AttentionOf
  <2>4. /\ U!AttentionOf(context).keys[1][cell]
               = U!Projected(U!FedOf("keyInput", context)[cell], "keyWeight", 1)
        /\ U!AttentionOf(context).values[1][cell]
               = U!Projected(U!FedOf("valueInput", context)[cell], "valueWeight", 1)
    BY <2>2, <2>3 DEF U!ProjectedOf
  <2>5. U!Model[context][executor] = U!AttentionOf(context)
    BY <1>2, ModelOfAttention
  <2> QED BY <1>2, <2>1, <2>4, <2>5 DEF KeyRows, ValueRows, KeyWeight, ValueWeight
<1> QED BY <1>1, <1>2 DEF IsExecutor

LEMMA HoldsIsCells ==
  ASSUME UnpagedSetting, IsExecutor, NEW size \in 0 .. Capacity, NEW context \in U!Contexts(size), NEW k
  PROVE  UnpagedHolds(k, context, size)
           <=> \A l \in U!Used :
                 /\ CellsAre(k[U!Own("keys", l)], KeyRows(context, l), KeyWeight, l, size)
                 /\ CellsAre(k[U!Own("values", l)], ValueRows(context, l), ValueWeight, l, size)
<1>1. \A l \in U!Used, b \in U!Batches, q \in 0 .. size - 1 :
        /\ U!Model[context][executor].keys[l][<<b, q>>]
             = U!Projected(KeyRows(context, l)[<<b, q>>], KeyWeight, l)
        /\ U!Model[context][executor].values[l][<<b, q>>]
             = U!Projected(ValueRows(context, l)[<<b, q>>], ValueWeight, l)
  <2> SUFFICES ASSUME NEW l \in U!Used, NEW b \in U!Batches, NEW q \in 0 .. size - 1
               PROVE  /\ U!Model[context][executor].keys[l][<<b, q>>]
                           = U!Projected(KeyRows(context, l)[<<b, q>>], KeyWeight, l)
                      /\ U!Model[context][executor].values[l][<<b, q>>]
                           = U!Projected(ValueRows(context, l)[<<b, q>>], ValueWeight, l)
    OBVIOUS
  <2>1. <<b, q>> \in CellsTo(size)
    BY DEF CellsTo
  <2> QED BY <2>1, ModelHolds
<1>2. ASSUME UnpagedHolds(k, context, size), NEW l \in U!Used
      PROVE  /\ CellsAre(k[U!Own("keys", l)], KeyRows(context, l), KeyWeight, l, size)
             /\ CellsAre(k[U!Own("values", l)], ValueRows(context, l), ValueWeight, l, size)
  <2>1. \A b \in U!Batches, q \in 0 .. size - 1 :
          /\ k[U!Own("keys", l)][<<b, q>>] = U!Model[context][executor].keys[l][<<b, q>>]
          /\ k[U!Own("values", l)][<<b, q>>] = U!Model[context][executor].values[l][<<b, q>>]
    BY <1>2 DEF UnpagedHolds
  <2> QED BY <1>1, <2>1 DEF CellsAre
<1>3. ASSUME \A l \in U!Used :
               /\ CellsAre(k[U!Own("keys", l)], KeyRows(context, l), KeyWeight, l, size)
               /\ CellsAre(k[U!Own("values", l)], ValueRows(context, l), ValueWeight, l, size)
      PROVE  UnpagedHolds(k, context, size)
  <2> SUFFICES ASSUME NEW l \in U!Used, NEW b \in U!Batches, NEW q \in 0 .. size - 1
               PROVE  /\ k[U!Own("keys", l)][<<b, q>>] = U!Model[context][executor].keys[l][<<b, q>>]
                      /\ k[U!Own("values", l)][<<b, q>>] = U!Model[context][executor].values[l][<<b, q>>]
    BY DEF UnpagedHolds
  <2> QED BY <1>1, <1>3 DEF CellsAre
<1> QED BY <1>2, <1>3

\* The keys and values of two contexts are the same as far as the contexts are.
LEMMA RowsAgree ==
  ASSUME UnpagedSetting, IsExecutor, NEW k \in Nat, NEW c \in U!Contexts(k), NEW m \in Nat,
      NEW d \in U!Contexts(m),
         NEW j \in Nat, j <= k, j <= m, \A i \in 1 .. j : c[i] = d[i],
         NEW l \in U!Used, NEW b \in U!Batches, NEW q \in 0 .. j - 1
  PROVE  /\ KeyRows(c, l)[<<b, q>>] = KeyRows(d, l)[<<b, q>>]
         /\ ValueRows(c, l)[<<b, q>>] = ValueRows(d, l)[<<b, q>>]
<1>1. CASE executor = "transformer"
  <2>1. l \in U!Layers /\ LayerCount \in Nat /\ l - 1 \in 0 .. LayerCount
    BY <1>1, UsedLayers DEF U!Layers
  <2>2. U!HiddenOf(c)[l - 1][<<b, q>>] = U!HiddenOf(d)[l - 1][<<b, q>>]
    BY <2>1, HiddenAgree
  <2> QED BY <1>1, <2>2 DEF KeyRows, ValueRows
<1>2. CASE executor = "attention"
  <2>1. /\ <<b, q>> \in U!ContextCells(c) /\ <<b, q>> \in U!ContextCells(d)
        /\ <<b, q>>[1] = b /\ <<b, q>>[2] = q /\ q + 1 \in 1 .. j
    BY CellsOfContext DEF CellsTo
  <2>2. c[q + 1] = d[q + 1]
    BY <2>1
  <2>3. \A name : U!FedOf(name, c)[<<b, q>>] = U!FedOf(name, d)[<<b, q>>]
    BY <2>1, <2>2 DEF U!FedOf
  <2> QED BY <1>2, <2>3 DEF KeyRows, ValueRows
<1> QED BY <1>1, <1>2 DEF IsExecutor

\* Caches that hold a context hold the first rows of every one that goes on from it.
LEMMA HoldsFirst ==
  ASSUME UnpagedSetting, IsExecutor, NEW p \in 0 .. Capacity, NEW c \in U!Contexts(p),
         NEW m \in p .. Capacity, NEW e \in U!Contexts(m), \A i \in 1 .. p : c[i] = e[i],
         NEW k, UnpagedHolds(k, c, p), NEW l \in U!Used
  PROVE  /\ CellsAre(k[U!Own("keys", l)], KeyRows(e, l), KeyWeight, l, p)
         /\ CellsAre(k[U!Own("values", l)], ValueRows(e, l), ValueWeight, l, p)
<1>1. /\ CellsAre(k[U!Own("keys", l)], KeyRows(c, l), KeyWeight, l, p)
      /\ CellsAre(k[U!Own("values", l)], ValueRows(c, l), ValueWeight, l, p)
  BY HoldsIsCells
<1>2. \A b \in U!Batches, q \in 0 .. p - 1 :
        /\ KeyRows(c, l)[<<b, q>>] = KeyRows(e, l)[<<b, q>>]
        /\ ValueRows(c, l)[<<b, q>>] = ValueRows(e, l)[<<b, q>>]
  <2>1. p \in Nat /\ m \in Nat /\ p <= m /\ p <= p
    BY UsedLayers
  <2> QED BY ZenonT(60), <2>1, RowsAgree
<1> QED BY <1>1, <1>2 DEF CellsAre

----------------------------------------------------------------------------
(* What a run computes. *)

\* A run that feeds n tokens to the layers that hold context c of p tokens, and
\* whose lengths are already those of context e.
Underway(c, e, p, n) ==
  /\ n = Len(run.tokens) /\ n \in Nat \ {0} /\ p \in Nat /\ p + n <= Capacity
  /\ c \in U!Contexts(p) /\ e \in U!Contexts(p + n)
  /\ \A i \in 1 .. p : c[i] = e[i]
  /\ \A i \in 1 .. n : e[p + i] = run.tokens[i]
  /\ \A l \in U!Used : unpagedDevLength[l] = p + n
  /\ UnpagedHolds(caches, c, p)
  /\ executor = "transformer" => \A l \in U!Layers : MemoryHeld(l)

\* The inputs are the rows of the run's tokens.
LEMMA FedStands ==
  ASSUME UnpagedSetting, NEW c, NEW e, NEW p, NEW n, Underway(c, e, p, n), NEW name
  PROVE  Stands(U!Fed(name, run.tokens), U!FedOf(name, e), n, p)
<1>1. /\ Batch \in Nat /\ n = Len(run.tokens) /\ n \in Nat /\ n > 0 /\ p \in Nat /\ p + n \in Nat
      /\ e \in U!Contexts(p + n) /\ \A i \in 1 .. n : e[p + i] = run.tokens[i]
  BY DEF Underway, UnpagedSetting, U!UnpagedDecoderAssumption
<1>2. HasRows(U!Fed(name, run.tokens), n)
  BY <1>1 DEF U!Fed, HasRows
<1>3. ASSUME NEW row \in U!Rows(n)
      PROVE  U!Fed(name, run.tokens)[row] = U!FedOf(name, e)[Position(row, n, p)]
  <2> DEFINE b == U!BatchOf(row, n)
             t == U!TokenOf(row, n)
  <2>1. b \in U!Batches /\ t \in 0 .. n - 1 /\ p + t \in 0 .. (p + n) - 1
    BY <1>1, CellOfRow
  <2>2. U!Fed(name, run.tokens)[row] = <<name, run.tokens[t + 1], b>>
    BY <1>1 DEF U!Fed
  <2>3. Position(row, n, p) = <<b, p + t>>
    BY DEF Position
  <2> HIDE DEF b, t
  <2>4. <<b, p + t>> \in U!ContextCells(e)
    BY <1>1, <2>1, CellsOfContext DEF CellsTo
  <2>5. U!FedOf(name, e)[<<b, p + t>>] = <<name, e[(p + t) + 1], b>>
    BY <2>4 DEF U!FedOf
  <2>6. e[(p + t) + 1] = run.tokens[t + 1]
    <3>1. t + 1 \in 1 .. n /\ (p + t) + 1 = p + (t + 1)
      BY <1>1, <2>1
    <3> QED BY <1>1, <3>1
  <2> QED BY <2>2, <2>3, <2>5, <2>6
<1> QED BY <1>2, <1>3 DEF Stands

\* Every layer of the transformer leaves the model's rows of the run's tokens.
LEMMA LayersCompute ==
  ASSUME UnpagedSetting, executor = "transformer", CachesTyped, MemoryTyped,
         NEW c, NEW e, NEW p, NEW n, Underway(c, e, p, n), NEW a, a = U!After(Len(U!Steps))
  PROVE  \A l \in 0 .. LayerCount : Stands(a[U!Own("hidden", l)], U!HiddenOf(e)[l], n, p)
<1> DEFINE Computed(l) == Stands(a[U!Own("hidden", l)], U!HiddenOf(e)[l], n, p)
           J == {l \in Nat : l <= LayerCount => Computed(l)}
           size == p + n
<1>1. /\ IsExecutor /\ LayerCount \in Nat /\ Batch \in Nat /\ Capacity \in Nat /\ U!Used
             = U!Layers /\ 1 \in U!Used
      /\ Len(U!Steps) \in 0 .. Len(U!Steps)
  BY UsedLayers, StepsAreOrdered DEF IsExecutor
<1>2. /\ n = Len(run.tokens) /\ n \in Nat /\ n > 0 /\ p \in Nat /\ size \in Nat /\ size <= Capacity
      /\ c \in U!Contexts(p) /\ e \in U!Contexts(size) /\ \A i \in 1 .. p : c[i] = e[i]
      /\ \A l \in U!Used : unpagedDevLength[l] = size
      /\ UnpagedHolds(caches, c, p) /\ \A l \in U!Layers : MemoryHeld(l)
  BY DEF Underway
<1>3. 0 \in J
  <2> DEFINE x == U!Fed("tokens", run.tokens)
             hidden == a[U!Own("hidden", 0)]
  <2>1. hidden = U!Result("embedding", <<x, U!Common("embeddingWeight"), U!Common("positionTable"), size>>,
                          RunMemory[U!Own("hidden", 0)], n)
    <3>1. a[U!Common("tokens")] = x /\ a[U!Own("length", 1)] = size
      BY <1>1, <1>2, GivenIsKept
    <3> QED BY <1>2, <3>1, EndEquations
  <2>2. Stands(x, U!FedOf("tokens", e), n, p)
    BY FedStands
  <2> HIDE DEF x, hidden, size
  <2>3. HasRows(hidden, n) /\ \A row \in U!Rows(n) : hidden[row]
            = U!Embedded(x[row], size - n + U!TokenOf(row, n))
    BY <2>1, EmbeddingMakes
  <2>4. ASSUME NEW row \in U!Rows(n)
        PROVE  hidden[row] = U!HiddenOf(e)[0][Position(row, n, p)]
    <3> DEFINE b == U!BatchOf(row, n)
               t == U!TokenOf(row, n)
               q == p + t
    <3>1. b \in U!Batches /\ t \in Nat /\ q \in 0 .. size - 1 /\ Position(row, n, p) = <<b, q>>
      BY <1>1, <1>2, CellOfRow, PositionOfRow DEF size
    <3>2. U!HiddenOf(e)[0][<<b, q>>] = U!Embedded(<<"tokens", e[q + 1], b>>, q)
      BY <1>1, <1>2, <3>1, HiddenRows
    <3>3. x[row] = U!FedOf("tokens", e)[<<b, q>>]
      BY <2>2, <3>1 DEF Stands
    <3>4. U!FedOf("tokens", e)[<<b, q>>] = <<"tokens", e[q + 1], b>>
      <4>1. <<b, q>> \in U!ContextCells(e) /\ <<b, q>>[1] = b /\ <<b, q>>[2] = q
        BY <1>2, <3>1, CellsOfContext DEF CellsTo
      <4> HIDE DEF b, q
      <4> QED BY <4>1 DEF U!FedOf
    <3>5. size - n + t = q
      <4> HIDE DEF t
      <4> QED BY <1>2, <3>1 DEF size
    <3>6. hidden[row] = U!Embedded(x[row], size - n + t)
      BY <2>3
    <3> HIDE DEF b, t, q
    <3> QED BY <3>1, <3>2, <3>3, <3>4, <3>5, <3>6
  <2> QED BY <2>3, <2>4 DEF hidden, Stands
<1>4. ASSUME NEW j \in J PROVE j + 1 \in J
  <2> SUFFICES ASSUME j + 1 <= LayerCount PROVE Computed(j + 1)
    OBVIOUS
  <2> DEFINE l == j + 1
             rows == U!HiddenOf(e)[j]
             hidden == a[U!Own("hidden", l)]
  <2>1. l \in U!Layers /\ l \in U!Used /\ l - 1 = j /\ Stands(a[U!Own("hidden", j)], rows, n, p)
    BY <1>1 DEF U!Layers
  <2>2. /\ CellsAre(caches[U!Own("keys", l)], rows, "selfKeyWeight", l, p)
        /\ CellsAre(caches[U!Own("values", l)], rows, "selfValueWeight", l, p)
    <3>1. p \in 0 .. Capacity /\ size \in p .. Capacity
      BY <1>1, <1>2
    <3>2. /\ CellsAre(caches[U!Own("keys", l)], KeyRows(e, l), KeyWeight, l, p)
          /\ CellsAre(caches[U!Own("values", l)], ValueRows(e, l), ValueWeight, l, p)
      <4> HIDE DEF size, l, J
      <4> QED BY <1>1, <1>2, <2>1, <3>1, HoldsFirst
    <3>3. /\ KeyRows(e, l) = rows /\ ValueRows(e, l) = rows
          /\ KeyWeight = "selfKeyWeight" /\ ValueWeight = "selfValueWeight"
      BY <2>1 DEF KeyRows, ValueRows, KeyWeight, ValueWeight
    <3> HIDE DEF l, rows
    <3> QED BY <3>2, <3>3
  <2>3. MemoryHeld(l) /\ unpagedDevLength[l] = p + n
    BY <1>2, <2>1
  <2>4. LayerStands(hidden, rows, l, n, p)
    <3>1. Stands(a[U!Own("hidden", l - 1)], rows, n, p)
      BY <2>1
    <3> HIDE DEF l, rows, J
    <3> QED BY <1>2, <2>1, <2>2, <2>3, <3>1, LayerComputes
  <2>5. ASSUME NEW row \in U!Rows(n)
        PROVE  hidden[row] = U!HiddenOf(e)[l][Position(row, n, p)]
    <3> DEFINE b == U!BatchOf(row, n)
               q == p + U!TokenOf(row, n)
    <3>1. b \in U!Batches /\ q \in 0 .. size - 1 /\ Position(row, n, p) = <<b, q>>
      BY <1>1, <1>2, PositionOfRow
    <3>2. hidden[row] = U!DecoderLayer(rows[<<b, q>>], Seen(rows, "selfKeyWeight", b, q, l),
                                       Seen(rows, "selfValueWeight", b, q, l), b, l)
      BY <2>4 DEF LayerStands
    <3> HIDE DEF b, q
    <3>3. U!HiddenOf(e)[l][<<b, q>>]
            = U!DecoderLayer(U!HiddenOf(e)[l - 1][<<b, q>>],
                             Seen(U!HiddenOf(e)[l - 1], "selfKeyWeight", b, q, l),
                             Seen(U!HiddenOf(e)[l - 1], "selfValueWeight", b, q, l), b, l)
      <4> HIDE DEF l, size, J
      <4> QED BY <1>1, <1>2, <2>1, <3>1, HiddenRows
    <3>4. U!HiddenOf(e)[l - 1] = rows
      BY <2>1
    <3> HIDE DEF l, rows, hidden
    <3> QED BY <3>1, <3>2, <3>3, <3>4
  <2> QED BY <2>4, <2>5 DEF Stands, LayerStands
<1>5. J = Nat
  <2> HIDE DEF J
  <2> SUFFICES J \in SUBSET Nat
    BY <1>3, <1>4, Induction
  <2> QED BY DEF J
<1> QED BY <1>5

\* What the model says of the last n of the `size' tokens of a context.
AnswerOf(context, size, n) ==
  [rows |-> [row \in U!Rows(n) |->
               U!Model[context][executor].rows[<<U!BatchOf(row, n), size - n + U!TokenOf(row, n)>>]],
   next |-> IF executor = "transformer"
              THEN [b \in U!Batches |-> U!Largest(U!Model[context][executor].rows[<<b, size - 1>>])]
              ELSE <<>>]

LEMMA LinearIs ==
  ASSUME NEW x, NEW w, NEW b, NEW old, NEW n, HasRows(x, n)
  PROVE  U!Result("linear", <<x, w, b>>, old, n) = [row \in U!Rows(n) |-> U!Linear(x[row], w, b)]
BY DEF U!Result, U!emitBiasedLinear, HasRows

LEMMA OutputIs ==
  ASSUME NEW x, NEW w, NEW old, NEW n, HasRows(x, n)
  PROVE  U!Result("output", <<x, w>>, old, n) = [row \in U!Rows(n) |-> U!Linear(x[row], w, U!NoBias)]
BY DEF U!Result, U!emitKVOutputProjection, HasRows

\* The place of a token of the run, as the model counts it.
LEMMA PlaceOfRow ==
  ASSUME Batch \in Nat, NEW n \in Nat, n > 0, NEW p \in Nat, NEW row \in U!Rows(n)
  PROVE  <<U!BatchOf(row, n), (p + n) - n + U!TokenOf(row, n)>> = Position(row, n, p)
<1> DEFINE t == U!TokenOf(row, n)
<1>1. t \in Nat
  BY CellOfRow
<1>2. (p + n) - n + t = p + t
  <2> HIDE DEF t
  <2> QED BY <1>1
<1> QED BY <1>2 DEF Position

\* A run of the transformer returns what the model says of its tokens, and
\* leaves the caches of all layers with the whole context.
LEMMA TransformerComputes ==
  ASSUME UnpagedSetting, executor = "transformer", CachesTyped, MemoryTyped,
         NEW c, NEW e, NEW p, NEW n, Underway(c, e, p, n), NEW a, a = U!After(Len(U!Steps))
  PROVE  /\ \A l \in U!Used :
              /\ CellsAre(a[U!Own("keys", l)], KeyRows(e, l), KeyWeight, l, p + n)
              /\ CellsAre(a[U!Own("values", l)], ValueRows(e, l), ValueWeight, l, p + n)
         /\ U!Returned(a, n) = AnswerOf(e, p + n, n)
<1> DEFINE size == p + n
           H(l) == U!HiddenOf(e)[l]
           head == U!Common("languageModelHeadWeight")
           bias == U!Common("languageModelHeadBias")
<1>1. /\ IsExecutor /\ LayerCount \in Nat /\ Batch \in Nat /\ Capacity \in Nat /\ U!Used = U!Layers
      /\ Len(U!Steps) \in 0 .. Len(U!Steps)
  BY UsedLayers, StepsAreOrdered DEF IsExecutor
<1>2. /\ n = Len(run.tokens) /\ n \in Nat /\ n > 0 /\ p \in Nat /\ size \in Nat /\ size \in 0 .. Capacity
      /\ c \in U!Contexts(p) /\ e \in U!Contexts(size) /\ \A i \in 1 .. p : c[i] = e[i]
      /\ \A l \in U!Used : unpagedDevLength[l] = size
      /\ UnpagedHolds(caches, c, p) /\ \A l \in U!Layers : MemoryHeld(l)
  BY <1>1 DEF Underway
<1>3. \A l \in 0 .. LayerCount : Stands(a[U!Own("hidden", l)], H(l), n, p)
  BY LayersCompute
<1>4. ASSUME NEW l \in U!Used
      PROVE  /\ CellsAre(a[U!Own("keys", l)], KeyRows(e, l), KeyWeight, l, size)
             /\ CellsAre(a[U!Own("values", l)], ValueRows(e, l), ValueWeight, l, size)
  <2> DEFINE rows == H(l - 1)
  <2>1. l \in U!Layers /\ l - 1 \in 0 .. LayerCount /\ p \in 0 .. Capacity /\ size \in p .. Capacity
    BY <1>1, <1>2 DEF U!Layers
  <2>2. /\ KeyRows(e, l) = rows /\ ValueRows(e, l) = rows
        /\ KeyWeight = "selfKeyWeight" /\ ValueWeight = "selfValueWeight"
    BY DEF KeyRows, ValueRows, KeyWeight, ValueWeight
  <2>3. /\ CellsAre(caches[U!Own("keys", l)], KeyRows(e, l), KeyWeight, l, p)
        /\ CellsAre(caches[U!Own("values", l)], ValueRows(e, l), ValueWeight, l, p)
    <3> HIDE DEF size, H
    <3> QED BY <1>1, <1>2, <2>1, HoldsFirst
  <2>4. Stands(a[U!Own("hidden", l - 1)], rows, n, p) /\ MemoryHeld(l) /\ unpagedDevLength[l] = p + n
    BY <1>2, <1>3, <2>1
  <2>5. /\ CellsAre(caches[U!Own("keys", l)], rows, "selfKeyWeight", l, p)
        /\ CellsAre(caches[U!Own("values", l)], rows, "selfValueWeight", l, p)
    <3> HIDE DEF rows
    <3> QED BY <2>2, <2>3
  <2>6. /\ CellsAre(a[U!Own("keys", l)], rows, "selfKeyWeight", l, p + n)
        /\ CellsAre(a[U!Own("values", l)], rows, "selfValueWeight", l, p + n)
    <3>1. p + n <= Capacity
      BY <1>2
    <3> HIDE DEF rows
    <3> QED BY <1>2, <2>1, <2>4, <2>5, <3>1, LayerComputes
  <2> HIDE DEF rows
  <2> QED BY <2>2, <2>6
<1> DEFINE x == a[U!Own("hidden", LayerCount)]
           logits == a[U!Common("logits")]
           next == a[U!Common("nextTokens")]
<1>5. HasRows(x, n) /\ \A row \in U!Rows(n) : x[row] = H(LayerCount)[Position(row, n, p)]
  <2>1. LayerCount \in 0 .. LayerCount
    BY <1>1
  <2> HIDE DEF H
  <2> QED BY <1>3, <2>1 DEF Stands
<1>6. /\ logits = U!Result("linear", <<x, head, bias>>, RunMemory[U!Common("logits")], n)
      /\ next = U!Result("argmax", <<logits>>, RunMemory[U!Common("nextTokens")], n)
  BY <1>2, EndEquations
<1> HIDE DEF x, logits, next
<1>7. logits = [row \in U!Rows(n) |-> U!Linear(x[row], head, bias)]
  <2> HIDE DEF head, bias
  <2> QED BY <1>5, <1>6, LinearIs
<1>8. \A row \in U!Rows(n) : next[row] = U!Largest(logits[row])
  <2>1. HasRows(logits, n)
    BY <1>7 DEF HasRows
  <2> QED BY <1>6, <2>1, ArgmaxMakes
<1>9. \A row \in U!Rows(n) :
        logits[row] = U!Model[e][executor].rows[Position(row, n, p)]
  <2> SUFFICES ASSUME NEW row \in U!Rows(n)
               PROVE  logits[row] = U!Model[e][executor].rows[Position(row, n, p)]
    OBVIOUS
  <2>1. U!Model[e][executor].rows = U!LogitsOf(H(LayerCount))
    <3>1. U!Model[e][executor] = U!TransformerOf(e)
      BY <1>1, <1>2, ModelOfTransformer
    <3> QED BY <3>1 DEF U!TransformerOf
  <2>2. Position(row, n, p) \in DOMAIN H(LayerCount)
    <3>1. DOMAIN H(LayerCount) = CellsTo(size) /\ Batch \in Nat
      <4>1. LayerCount \in 0 .. LayerCount
        BY <1>1
      <4> HIDE DEF size
      <4> QED BY <1>1, <1>2, <4>1, HiddenCells
    <3>2. U!BatchOf(row, n) \in U!Batches /\ p + U!TokenOf(row, n) \in 0 .. size - 1
          /\ Position(row, n, p) = <<U!BatchOf(row, n), p + U!TokenOf(row, n)>>
      BY <1>1, <1>2, PositionOfRow
    <3> QED BY <3>1, <3>2 DEF CellsTo
  <2>3. U!LogitsOf(H(LayerCount))[Position(row, n, p)]
            = U!Linear(H(LayerCount)[Position(row, n, p)], head, bias)
    <3> HIDE DEF H
    <3> QED BY <2>2 DEF U!LogitsOf
  <2> HIDE DEF H
  <2> QED BY <1>5, <1>7, <2>1, <2>3
<1>10. [row \in U!Rows(n) |-> U!Model[e][executor].rows[<<U!BatchOf(row, n), size - n + U!TokenOf(row, n)>>]]
           = logits
  <2>1. \A row \in U!Rows(n) : <<U!BatchOf(row, n), size - n + U!TokenOf(row, n)>> = Position(row, n, p)
    BY <1>1, <1>2, PlaceOfRow
  <2>2. logits = [row \in U!Rows(n) |-> logits[row]]
    BY <1>7
  <2> HIDE DEF size
  <2> QED BY <1>9, <2>1, <2>2
<1>11. U!NextTokens(next, n) = [b \in U!Batches |-> U!Largest(U!Model[e][executor].rows[<<b, size - 1>>])]
  <2> SUFFICES ASSUME NEW b \in U!Batches
               PROVE  next[b * n + n] = U!Largest(U!Model[e][executor].rows[<<b, size - 1>>])
    BY DEF U!NextTokens
  <2> DEFINE row == b * n + (n - 1) + 1
  <2>1. row \in U!Rows(n) /\ U!BatchOf(row, n) = b /\ U!TokenOf(row, n) = n - 1
    <3>1. n - 1 \in 0 .. n - 1
      BY <1>2
    <3> QED BY <1>1, <1>2, <3>1, RowOfCell
  <2>2. row = b * n + n
    <3>1. b \in Nat
      BY <1>1 DEF U!Batches
    <3>2. b * n \in Nat
      BY <1>2, <3>1
    <3> QED BY <1>2, <3>2
  <2>3. Position(row, n, p) = <<b, size - 1>>
    <3>1. p + (n - 1) = size - 1
      BY <1>2
    <3> HIDE DEF row
    <3> QED BY <2>1, <3>1 DEF Position
  <2> HIDE DEF row
  <2> QED BY <1>8, <1>9, <2>1, <2>2, <2>3
<1>12. U!Returned(a, n) = AnswerOf(e, size, n)
  <2>1. U!Returned(a, n) = [rows |-> logits, next |-> U!NextTokens(next, n)]
    BY DEF U!Returned, logits, next
  <2> HIDE DEF size
  <2> QED BY <1>10, <1>11, <2>1 DEF AnswerOf
<1> QED BY <1>4, <1>12

\* The same of the attention on its own.
LEMMA AttentionComputes ==
  ASSUME UnpagedSetting, executor = "attention", CachesTyped, MemoryTyped,
         NEW c, NEW e, NEW p, NEW n, Underway(c, e, p, n), NEW a, a = U!After(Len(U!Steps))
  PROVE  /\ \A l \in U!Used :
              /\ CellsAre(a[U!Own("keys", l)], KeyRows(e, l), KeyWeight, l, p + n)
              /\ CellsAre(a[U!Own("values", l)], ValueRows(e, l), ValueWeight, l, p + n)
         /\ U!Returned(a, n) = AnswerOf(e, p + n, n)
<1> DEFINE size == p + n
           last == size - 1
           queryRows == U!FedOf("queryInput", e)
           keyRows == U!FedOf("keyInput", e)
           valueRows == U!FedOf("valueInput", e)
           query == a[U!Own("query", 1)]
           keys == a[U!Own("keys", 1)]
           values == a[U!Own("values", 1)]
           context == a[U!Own("selfContext", 1)]
           output == a[U!Common("output")]
           queryIn == U!Fed("queryInput", run.tokens)
           keyIn == U!Fed("keyInput", run.tokens)
           valueIn == U!Fed("valueInput", run.tokens)
           Old(b) == RunMemory[b]
<1>1. /\ IsExecutor /\ Batch \in Nat /\ Capacity \in Nat /\ U!Used = {1}
      /\ Len(U!Steps) \in 0 .. Len(U!Steps)
  BY UsedLayers, StepsAreOrdered DEF IsExecutor
<1>2. /\ n = Len(run.tokens) /\ n \in Nat /\ n > 0 /\ p \in Nat /\ size \in Nat /\ size \in 0 .. Capacity
      /\ c \in U!Contexts(p) /\ e \in U!Contexts(size) /\ \A i \in 1 .. p : c[i] = e[i]
      /\ unpagedDevLength[1] = size /\ UnpagedHolds(caches, c, p)
      /\ p \in 0 .. Capacity /\ size \in p .. Capacity /\ size \in n .. Capacity
      /\ last \in 0 .. size - 1
  BY <1>1 DEF Underway
<1>3. /\ query = U!Result("query", <<queryIn, U!Own("queryWeight", 1)>>, Old(U!Own("query", 1)), n)
      /\ keys = U!Result("cache", <<keyIn, U!Own("keyWeight", 1), size>>, caches[U!Own("keys", 1)], n)
      /\ values = U!Result("cache", <<valueIn, U!Own("valueWeight", 1), size>>, caches[U!Own("values", 1)], n)
      /\ context = U!Result("attention", <<query, keys, values, size>>, Old(U!Own("selfContext", 1)), n)
      /\ output = U!Result("output", <<context, U!Own("outputWeight", 1)>>, Old(U!Common("output")), n)
  <2>1. /\ a[U!Own("length", 1)] = size /\ a[U!Common("queryInput")] = queryIn
        /\ a[U!Common("keyInput")] = keyIn /\ a[U!Common("valueInput")] = valueIn
    BY <1>1, <1>2, GivenIsKept
  <2>2. /\ Old(U!Own("keys", 1)) = caches[U!Own("keys", 1)]
        /\ Old(U!Own("values", 1)) = caches[U!Own("values", 1)]
    BY <1>1, RunBegins
  <2> HIDE DEF size, queryIn, keyIn, valueIn
  <2> QED BY <1>2, <2>1, <2>2, AttentionEquations
<1>4. /\ Stands(queryIn, queryRows, n, p) /\ Stands(keyIn, keyRows, n, p)
      /\ Stands(valueIn, valueRows, n, p)
  BY FedStands
<1>5. /\ KeyRows(e, 1) = keyRows /\ ValueRows(e, 1) = valueRows
      /\ KeyWeight = "keyWeight" /\ ValueWeight = "valueWeight"
  BY DEF KeyRows, ValueRows, KeyWeight, ValueWeight
<1>6. /\ CellsAre(caches[U!Own("keys", 1)], keyRows, "keyWeight", 1, p)
      /\ CellsAre(caches[U!Own("values", 1)], valueRows, "valueWeight", 1, p)
  <2>1. /\ CellsAre(caches[U!Own("keys", 1)], KeyRows(e, 1), KeyWeight, 1, p)
        /\ CellsAre(caches[U!Own("values", 1)], ValueRows(e, 1), ValueWeight, 1, p)
    <3>1. 1 \in U!Used
      BY <1>1
    <3> HIDE DEF size
    <3> QED BY <1>1, <1>2, <3>1, HoldsFirst
  <2> HIDE DEF keyRows, valueRows
  <2> QED BY <1>5, <2>1
<1> HIDE DEF queryRows, keyRows, valueRows, query, keys, values, context, output, queryIn, keyIn, valueIn, Old
<1>7. CellsAre(keys, keyRows, "keyWeight", 1, size)
  <2>1. p + n <= Capacity
    BY <1>2
  <2> QED BY <1>1, <1>2, <1>3, <1>4, <1>6, <2>1, CellsAppended
<1>8. CellsAre(values, valueRows, "valueWeight", 1, size)
  <2>1. p + n <= Capacity
    BY <1>2
  <2> QED BY <1>1, <1>2, <1>3, <1>4, <1>6, <2>1, CellsAppended
<1>9. \A l \in U!Used :
        /\ CellsAre(a[U!Own("keys", l)], KeyRows(e, l), KeyWeight, l, p + n)
        /\ CellsAre(a[U!Own("values", l)], ValueRows(e, l), ValueWeight, l, p + n)
  BY <1>1, <1>5, <1>7, <1>8 DEF keys, values
<1>10. \A row \in U!Rows(n) : query[row]
           = U!Linear(queryRows[Position(row, n, p)], U!Own("queryWeight", 1), U!NoBias)
  <2>1. HasRows(queryIn, n) /\ \A row \in U!Rows(n) : queryIn[row] = queryRows[Position(row, n, p)]
    BY <1>4 DEF Stands
  <2>2. \A row \in U!Rows(n) : query[row] = U!Linear(queryIn[row], U!Own("queryWeight", 1), U!NoBias)
    BY <1>3, <2>1, QueryMakes
  <2> QED BY <2>1, <2>2
<1>11. HasRows(context, n) /\ AttendsAll(context, query, keys, values, size, n)
  <2> HIDE DEF size
  <2> QED BY <1>2, <1>3, AttentionMakes
<1>12. output = [row \in U!Rows(n) |-> U!Linear(context[row], U!Own("outputWeight", 1), U!NoBias)]
  BY <1>3, <1>11, OutputIs
<1>13. \A row \in U!Rows(n) : output[row] = U!Model[e][executor].rows[Position(row, n, p)]
  <2> SUFFICES ASSUME NEW row \in U!Rows(n)
               PROVE  output[row] = U!Model[e][executor].rows[Position(row, n, p)]
    OBVIOUS
  <2> DEFINE b == U!BatchOf(row, n)
             q == p + U!TokenOf(row, n)
             cell == Position(row, n, p)
             ks == Seen(keyRows, "keyWeight", b, last, 1)
             vs == Seen(valueRows, "valueWeight", b, last, 1)
  <2>1. b \in U!Batches /\ q \in 0 .. size - 1 /\ cell = <<b, q>>
    BY <1>1, <1>2, PositionOfRow
  <2> HIDE DEF b, q, cell
  <2>2. cell \in U!ContextCells(e) /\ cell[1] = b /\ Len(e) - 1 = last
    BY <1>2, <2>1, CellsOfContext DEF CellsTo
  <2>3. context[row] = U!Attended(query[row], [i \in 0 .. last |-> keys[<<b, i>>]],
                                  [i \in 0 .. last |-> values[<<b, i>>]])
    BY <1>11 DEF AttendsAll, b
  <2>4. [i \in 0 .. last |-> keys[<<b, i>>]] = ks /\ [i \in 0 .. last |-> values[<<b, i>>]] = vs
    <3> HIDE DEF last, size
    <3> QED BY <1>2, <1>7, <1>8, <2>1, CellsSeen
  <2>5. /\ DOMAIN keyRows = CellsTo(size) /\ DOMAIN valueRows = CellsTo(size)
        /\ DOMAIN queryRows = CellsTo(size) /\ U!ContextCells(e) = CellsTo(size)
    <3>1. U!ContextCells(e) = CellsTo(size)
      BY <1>2, CellsOfContext
    <3> QED BY <3>1 DEF keyRows, valueRows, queryRows, U!FedOf
  <2>6. /\ U!Before(U!ProjectedOf(keyRows, "keyWeight", 1), b, last) = ks
        /\ U!Before(U!ProjectedOf(valueRows, "valueWeight", 1), b, last) = vs
    <3> HIDE DEF last, size
    <3> QED BY <1>2, <2>1, <2>5, BeforeIsSeen
  <2>7. U!ProjectedOf(queryRows, "queryWeight", 1)[cell] = U!Projected(queryRows[cell], "queryWeight", 1)
    BY <2>2, <2>5 DEF U!ProjectedOf
  <2>8. U!AttentionOf(e).rows[cell]
          = U!Projected(U!Attended(U!ProjectedOf(queryRows, "queryWeight", 1)[cell],
                                   U!Before(U!ProjectedOf(keyRows, "keyWeight", 1), cell[1], Len(e) - 1),
                                   U!Before(U!ProjectedOf(valueRows, "valueWeight", 1), cell[1], Len(e) - 1)),
                        "outputWeight", 1)
    BY <2>2 DEF U!AttentionOf, queryRows, keyRows, valueRows
  <2> HIDE DEF ks, vs
  <2>9. U!AttentionOf(e).rows[cell]
          = U!Projected(U!Attended(U!Projected(queryRows[cell], "queryWeight", 1), ks, vs), "outputWeight", 1)
    BY <2>2, <2>6, <2>7, <2>8
  <2>10. output[row] = U!Projected(U!Attended(U!Projected(queryRows[cell], "queryWeight", 1), ks, vs),
                                   "outputWeight", 1)
    <3>1. query[row] = U!Projected(queryRows[cell], "queryWeight", 1)
      BY <1>10 DEF U!Projected, cell
    <3>2. context[row] = U!Attended(U!Projected(queryRows[cell], "queryWeight", 1), ks, vs)
      BY <2>3, <2>4, <3>1
    <3> QED BY <1>12, <3>2 DEF U!Projected
  <2>11. U!Model[e][executor] = U!AttentionOf(e)
    BY <1>2, ModelOfAttention
  <2> QED BY <2>9, <2>10, <2>11 DEF cell
<1>14. [row \in U!Rows(n) |-> U!Model[e][executor].rows[<<U!BatchOf(row, n), size - n + U!TokenOf(row, n)>>]]
           = output
  <2>1. \A row \in U!Rows(n) : <<U!BatchOf(row, n), size - n + U!TokenOf(row, n)>> = Position(row, n, p)
    BY <1>1, <1>2, PlaceOfRow
  <2>2. output = [row \in U!Rows(n) |-> output[row]]
    BY <1>12
  <2> HIDE DEF size
  <2> QED BY <1>13, <2>1, <2>2
<1>15. U!Returned(a, n) = AnswerOf(e, size, n)
  <2>1. U!Returned(a, n) = [rows |-> output, next |-> <<>>]
    BY DEF U!Returned, output
  <2> HIDE DEF size
  <2> QED BY <1>14, <2>1 DEF AnswerOf
<1> QED BY <1>9, <1>15

\* A run returns what the model says of the context with its tokens, and leaves
\* the caches with it.
LEMMA RunComputes ==
  ASSUME UnpagedSetting, IsExecutor, CachesTyped, MemoryTyped,
         NEW c, NEW e, NEW p, NEW n, Underway(c, e, p, n)
  PROVE  /\ UnpagedHolds(U!Caches(U!After(Len(U!Steps))), e, p + n)
         /\ U!Returned(U!After(Len(U!Steps)), n) = AnswerOf(e, p + n, n)
<1> DEFINE a == U!After(Len(U!Steps))
           size == p + n
<1>1. /\ \A l \in U!Used :
           /\ CellsAre(a[U!Own("keys", l)], KeyRows(e, l), KeyWeight, l, p + n)
           /\ CellsAre(a[U!Own("values", l)], ValueRows(e, l), ValueWeight, l, p + n)
      /\ U!Returned(a, n) = AnswerOf(e, p + n, n)
  BY TransformerComputes, AttentionComputes DEF IsExecutor
<1>2. \A l \in U!Used : U!Own("keys", l) \in DOMAIN caches /\ U!Own("values", l) \in DOMAIN caches
  BY DEF CachesTyped, U!Own
<1> HIDE DEF a
<1>3. \A l \in U!Used : /\ U!Caches(a)[U!Own("keys", l)] = a[U!Own("keys", l)]
                       /\ U!Caches(a)[U!Own("values", l)] = a[U!Own("values", l)]
  BY <1>2 DEF U!Caches
<1>4. size \in 0 .. Capacity /\ e \in U!Contexts(size)
  BY UsedLayers DEF Underway
<1>5. UnpagedHolds(U!Caches(a), e, size)
  <2>1. \A l \in U!Used :
           /\ CellsAre(U!Caches(a)[U!Own("keys", l)], KeyRows(e, l), KeyWeight, l, size)
           /\ CellsAre(U!Caches(a)[U!Own("values", l)], ValueRows(e, l), ValueWeight, l, size)
    BY <1>1, <1>3
  <2> HIDE DEF size
  <2> QED BY <1>4, <2>1, HoldsIsCells
<1> QED BY <1>1, <1>5 DEF a

----------------------------------------------------------------------------
(* What the caches hold, and what is returned, is of one context only. *)

LEMMA OneIs ==
  ASSUME NEW S, NEW c \in S, \A d \in S : d = c
  PROVE  U!One(S) = c
BY DEF U!One

LEMMA HeldUnique ==
  ASSUME UnpagedSetting, IsExecutor, NEW k \in 0 .. Capacity, NEW c \in U!Contexts(k), NEW d \in U!Contexts(k),
         NEW x, UnpagedHolds(x, c, k), UnpagedHolds(x, d, k)
  PROVE  c = d
<1>1. /\ LayerCount \in Nat \ {0} /\ Batch \in Nat \ {0} /\ k \in Nat /\ 1 \in U!Used /\ 0 \in U!Batches
  BY UsedLayers DEF U!Batches
<1>2. ASSUME NEW q \in 0 .. k - 1 PROVE c[q + 1] = d[q + 1]
  <2>1. CellsAre(x[U!Own("keys", 1)], KeyRows(c, 1), KeyWeight, 1, k)
        /\ CellsAre(x[U!Own("keys", 1)], KeyRows(d, 1), KeyWeight, 1, k)
    BY <1>1, HoldsIsCells
  <2>2. U!Projected(KeyRows(c, 1)[<<0, q>>], KeyWeight, 1) = U!Projected(KeyRows(d, 1)[<<0, q>>], KeyWeight, 1)
    BY <1>1, <2>1 DEF CellsAre
  <2>3. KeyRows(c, 1)[<<0, q>>] = KeyRows(d, 1)[<<0, q>>]
    BY <2>2 DEF U!Projected, U!Linear
  <2>4. CASE executor = "transformer"
    <3>1. U!HiddenOf(c)[0][<<0, q>>] = U!Embedded(<<"tokens", c[q + 1], 0>>, q)
      BY <1>1, HiddenRows
    <3>2. U!HiddenOf(d)[0][<<0, q>>] = U!Embedded(<<"tokens", d[q + 1], 0>>, q)
      BY <1>1, HiddenRows
    <3>3. KeyRows(c, 1) = U!HiddenOf(c)[0] /\ KeyRows(d, 1) = U!HiddenOf(d)[0]
      <4>1. 1 - 1 = 0
        OBVIOUS
      <4> QED BY <2>4, <4>1 DEF KeyRows
    <3>4. U!Embedded(<<"tokens", c[q + 1], 0>>, q) = U!Embedded(<<"tokens", d[q + 1], 0>>, q)
      BY <2>3, <3>1, <3>2, <3>3
    <3> QED BY <3>4 DEF U!Embedded
  <2>5. CASE executor = "attention"
    <3>1. /\ <<0, q>> \in U!ContextCells(c) /\ <<0, q>> \in U!ContextCells(d)
          /\ <<0, q>>[1] = 0 /\ <<0, q>>[2] = q
      BY <1>1, CellsOfContext DEF CellsTo
    <3>2. /\ U!FedOf("keyInput", c)[<<0, q>>] = <<"keyInput", c[q + 1], 0>>
          /\ U!FedOf("keyInput", d)[<<0, q>>] = <<"keyInput", d[q + 1], 0>>
      BY <3>1 DEF U!FedOf
    <3>3. KeyRows(c, 1) = U!FedOf("keyInput", c) /\ KeyRows(d, 1) = U!FedOf("keyInput", d)
      BY <2>5 DEF KeyRows
    <3>4. <<"keyInput", c[q + 1], 0>> = <<"keyInput", d[q + 1], 0>>
      BY <2>3, <3>2, <3>3
    <3> QED BY <3>4
  <2> QED BY <2>4, <2>5 DEF IsExecutor
<1>3. \A i \in 1 .. k : i - 1 \in 0 .. k - 1 /\ (i - 1) + 1 = i
  BY <1>1
<1>4. \A i \in 1 .. k : c[i] = d[i]
  BY <1>2, <1>3
<1> QED BY <1>4 DEF U!Contexts

\* Held, of any caches.
HeldBy(k, size) == U!One({c \in U!Contexts(size) : UnpagedHolds(k, c, size)})

LEMMA UnpagedHeldIs ==
  ASSUME UnpagedSetting, IsExecutor, NEW k, NEW size \in 0 .. Capacity, NEW c \in U!Contexts(size),
         UnpagedHolds(k, c, size)
  PROVE  HeldBy(k, size) = c
<1> DEFINE S == {d \in U!Contexts(size) : UnpagedHolds(k, d, size)}
<1>1. c \in S
  OBVIOUS
<1>2. \A d \in S : d = c
  BY HeldUnique
<1> HIDE DEF S
<1>3. U!One(S) = c
  BY <1>1, <1>2, OneIs
<1> QED BY <1>3 DEF HeldBy, S

\* The last token's row is of its context only.
LEMMA RowUnique ==
  ASSUME UnpagedSetting, IsExecutor, NEW k \in 1 .. Capacity, NEW c \in U!Contexts(k), NEW d \in U!Contexts(k),
         U!Model[c][executor].rows[<<0, k - 1>>] = U!Model[d][executor].rows[<<0, k - 1>>]
  PROVE  c = d
<1> DEFINE last == k - 1
           cell == <<0, last>>
<1>1. /\ LayerCount \in Nat \ {0} /\ Batch \in Nat \ {0} /\ k \in Nat /\ 0 \in U!Batches
      /\ k \in 0 .. Capacity /\ last \in 0 .. k - 1
  BY UsedLayers DEF U!Batches
<1>2. cell \in CellsTo(k) /\ cell[1] = 0 /\ cell[2] = last
  BY <1>1 DEF CellsTo
<1>3. CASE executor = "transformer"
  <2>1. LayerCount \in U!Layers /\ LayerCount \in 0 .. LayerCount
    BY <1>1 DEF U!Layers
  <2>2. ASSUME NEW e \in U!Contexts(k)
        PROVE  U!Model[e][executor].rows[cell]
                 = U!Linear(U!HiddenOf(e)[LayerCount][cell], U!Common("languageModelHeadWeight"),
                            U!Common("languageModelHeadBias"))
    <3>1. U!Model[e][executor] = U!TransformerOf(e)
      BY <1>1, <1>3, ModelOfTransformer
    <3>2. DOMAIN U!HiddenOf(e)[LayerCount] = CellsTo(k)
      BY <1>1, <2>1, HiddenCells
    <3> QED BY <1>2, <3>1, <3>2 DEF U!TransformerOf, U!LogitsOf
  <2>3. U!HiddenOf(c)[LayerCount][<<0, last>>] = U!HiddenOf(d)[LayerCount][<<0, last>>]
    BY <2>2 DEF U!Linear
  <2>4. \A p \in 0 .. last : c[p + 1] = d[p + 1]
    <3> HIDE DEF last
    <3> QED BY <1>1, <2>1, <2>3, HiddenDetermines
  <2>5. \A i \in 1 .. k : i - 1 \in 0 .. last /\ (i - 1) + 1 = i
    BY <1>1
  <2>6. \A i \in 1 .. k : c[i] = d[i]
    BY <2>4, <2>5
  <2> QED BY <2>6 DEF U!Contexts
<1>4. CASE executor = "attention"
  <2> DEFINE Keys(e) == Seen(U!FedOf("keyInput", e), "keyWeight", 0, last, 1)
  <2>1. ASSUME NEW e \in U!Contexts(k)
        PROVE  \E query, values :
                 U!Model[e][executor].rows[cell]
                   = U!Projected(U!Attended(query, Keys(e), values), "outputWeight", 1)
    <3>1. U!ContextCells(e) = CellsTo(k) /\ Len(e) - 1 = last
      BY <1>1, CellsOfContext
    <3>2. DOMAIN U!FedOf("keyInput", e) = CellsTo(k)
      BY <3>1 DEF U!FedOf
    <3>3. U!Before(U!ProjectedOf(U!FedOf("keyInput", e), "keyWeight", 1), 0, last) = Keys(e)
      <4> HIDE DEF last
      <4> QED BY <1>1, <3>2, BeforeIsSeen
    <3>4. U!Model[e][executor] = U!AttentionOf(e)
      BY <1>1, <1>4, ModelOfAttention
    <3> DEFINE query == U!ProjectedOf(U!FedOf("queryInput", e), "queryWeight", 1)[cell]
               values == U!Before(U!ProjectedOf(U!FedOf("valueInput", e), "valueWeight", 1), 0, last)
    <3>5. U!AttentionOf(e).rows[cell]
            = U!Projected(U!Attended(query, U!Before(U!ProjectedOf(U!FedOf("keyInput", e), "keyWeight", 1), 0,
                                                     last),
                                     values), "outputWeight", 1)
      BY <1>2, <3>1 DEF U!AttentionOf
    <3> HIDE DEF query, values, Keys, cell, last
    <3> QED BY <3>3, <3>4, <3>5
  <2>2. Keys(c) = Keys(d)
    <3>1. PICK query, values : U!Model[c][executor].rows[cell]
                                 = U!Projected(U!Attended(query, Keys(c), values), "outputWeight", 1)
      BY <2>1
    <3>2. PICK asked, found : U!Model[d][executor].rows[cell]
                                = U!Projected(U!Attended(asked, Keys(d), found), "outputWeight", 1)
      BY <2>1
    <3>3. U!Projected(U!Attended(query, Keys(c), values), "outputWeight", 1)
            = U!Projected(U!Attended(asked, Keys(d), found), "outputWeight", 1)
      BY <3>1, <3>2
    <3> HIDE DEF Keys
    <3> QED BY <3>3 DEF U!Projected, U!Linear, U!Attended
  <2>3. ASSUME NEW q \in 0 .. last PROVE c[q + 1] = d[q + 1]
    <3>1. \A e : Keys(e)[q] = U!Projected(U!FedOf("keyInput", e)[<<0, q>>], "keyWeight", 1)
      BY DEF Seen
    <3>2. U!Projected(U!FedOf("keyInput", c)[<<0, q>>], "keyWeight", 1)
            = U!Projected(U!FedOf("keyInput", d)[<<0, q>>], "keyWeight", 1)
      <4> HIDE DEF Keys
      <4> QED BY <2>2, <3>1
    <3>3. U!FedOf("keyInput", c)[<<0, q>>] = U!FedOf("keyInput", d)[<<0, q>>]
      BY <3>2 DEF U!Projected, U!Linear
    <3>4. /\ <<0, q>> \in U!ContextCells(c) /\ <<0, q>> \in U!ContextCells(d)
          /\ <<0, q>>[1] = 0 /\ <<0, q>>[2] = q
      <4>1. q \in 0 .. k - 1
        BY <1>1
      <4> QED BY <1>1, <4>1, CellsOfContext DEF CellsTo
    <3>5. /\ U!FedOf("keyInput", c)[<<0, q>>] = <<"keyInput", c[q + 1], 0>>
          /\ U!FedOf("keyInput", d)[<<0, q>>] = <<"keyInput", d[q + 1], 0>>
      BY <3>4 DEF U!FedOf
    <3>6. <<"keyInput", c[q + 1], 0>> = <<"keyInput", d[q + 1], 0>>
      BY <3>3, <3>5
    <3> QED BY <3>6
  <2>5. \A i \in 1 .. k : i - 1 \in 0 .. last /\ (i - 1) + 1 = i
    BY <1>1
  <2>6. \A i \in 1 .. k : c[i] = d[i]
    <3> HIDE DEF last
    <3> QED BY <2>3, <2>5
  <2> QED BY <2>6 DEF U!Contexts
<1> QED BY <1>3, <1>4 DEF IsExecutor

\* An answer is of its context only.
LEMMA AnswerIsOf ==
  ASSUME UnpagedSetting, IsExecutor, NEW k \in 1 .. Capacity, NEW n \in 1 .. k, NEW c \in U!Contexts(k)
  PROVE  U!ContextOf(k, AnswerOf(c, k, n), n) = c
<1>1. Batch \in Nat \ {0} /\ k \in Nat /\ n \in Nat /\ n > 0 /\ 0 \in U!Batches
  BY UsedLayers DEF U!Batches
<1> DEFINE row == 0 * n + (n - 1) + 1
           S == {d \in U!Contexts(k) : AnswerOf(c, k, n) = AnswerOf(d, k, n)}
<1>2. row \in U!Rows(n) /\ <<U!BatchOf(row, n), k - n + U!TokenOf(row, n)>> = <<0, k - 1>>
  <2>1. row \in U!Rows(n) /\ U!BatchOf(row, n) = 0 /\ U!TokenOf(row, n) = n - 1
    <3>1. n - 1 \in 0 .. n - 1
      BY <1>1
    <3> QED BY <1>1, <3>1, RowOfCell
  <2>2. k - n + (n - 1) = k - 1
    BY <1>1
  <2> HIDE DEF row
  <2> QED BY <2>1, <2>2
<1> HIDE DEF row
<1>3. \A d : AnswerOf(d, k, n).rows[row] = U!Model[d][executor].rows[<<0, k - 1>>]
  BY <1>2 DEF AnswerOf
<1>4. \A d \in S : d = c
  <2> SUFFICES ASSUME NEW d \in U!Contexts(k), AnswerOf(c, k, n) = AnswerOf(d, k, n)
               PROVE  c = d
    OBVIOUS
  <2>1. U!Model[c][executor].rows[<<0, k - 1>>] = U!Model[d][executor].rows[<<0, k - 1>>]
    BY <1>3
  <2> QED BY <2>1, RowUnique
<1>5. U!ContextOf(k, AnswerOf(c, k, n), n) = U!One(S)
  BY DEF U!ContextOf, AnswerOf
<1>6. c \in S
  OBVIOUS
<1> HIDE DEF S
<1> QED BY <1>4, <1>5, <1>6, OneIs

-----------------


----------------------------------------------------------------------------
(* The compilation. *)

\* The steps of a layer in Setup.
LEMMA SetupSteps ==
  ASSUME LayerCount \in Nat, NEW l \in U!Layers
  PROVE  /\ 2 * l - 1 \in 1 .. 2 * LayerCount /\ 2 * l \in 1 .. 2 * LayerCount
         /\ U!Setup[2 * l - 1] = U!MemoryStep("memoryKeys", "crossKeyWeight", "crossKeyBias", l)
         /\ U!Setup[2 * l] = U!MemoryStep("memoryValues", "crossValueWeight", "crossValueBias", l)
<1>1. l \in Nat /\ l >= 1 /\ l <= LayerCount
  BY DEF U!Layers
<1>2. 2 * l - 1 \in 1 .. 2 * LayerCount /\ 2 * l \in 1 .. 2 * LayerCount
  BY <1>1
<1>3. ((2 * l - 1) + 1) \div 2 = l /\ (2 * l + 1) \div 2 = l
  <2>1. (2 * l - 1) + 1 = l * 2 + 0 /\ 2 * l + 1 = l * 2 + 1 /\ 0 \in 0 .. 2 - 1 /\ 1 \in 0 .. 2 - 1
    BY <1>1
  <2> QED BY <1>1, <2>1, DivModIs
<1>4. (2 * l - 1) % 2 = 1 /\ (2 * l) % 2 = 0
  <2>1. 2 * l - 1 = (l - 1) * 2 + 1 /\ 2 * l = l * 2 + 0 /\ 0 \in 0 .. 2 - 1 /\ 1 \in 0 .. 2 - 1
    BY <1>1
  <2> QED BY <1>1, <2>1, DivModIs
<1> QED BY <1>2, <1>3, <1>4 DEF U!Setup

\* There are no others.
LEMMA SetupIsOneOf ==
  ASSUME LayerCount \in Nat, NEW i \in 1 .. 2 * LayerCount
  PROVE  \E l \in U!Layers : i = 2 * l - 1 \/ i = 2 * l
<1> DEFINE l == (i + 1) \div 2
<1>1. l \in U!Layers /\ (i = 2 * l - 1 \/ i = 2 * l)
  BY DEF U!Layers
<1> QED BY <1>1

LEMMA SetupIsOrdered ==
  ASSUME LayerCount \in Nat
  PROVE  Len(U!Setup) = 2 * LayerCount /\ Ordered(U!Setup, Len(U!Setup))
<1> DEFINE N == 2 * LayerCount
           Keys(l) == U!MemoryStep("memoryKeys", "crossKeyWeight", "crossKeyBias", l)
           Values(l) == U!MemoryStep("memoryValues", "crossValueWeight", "crossValueBias", l)
<1>1. Len(U!Setup) = N /\ N \in Nat
  BY DEF U!Setup
<1>2. ASSUME NEW i \in 1 .. N
      PROVE  \E l \in U!Layers :
          (i = 2 * l - 1 /\ U!Setup[i] = Keys(l)) \/ (i = 2 * l /\ U!Setup[i] = Values(l))
  <2>1. PICK l \in U!Layers : i = 2 * l - 1 \/ i = 2 * l
    BY SetupIsOneOf DEF N
  <2>2. U!Setup[2 * l - 1] = Keys(l) /\ U!Setup[2 * l] = Values(l)
    BY SetupSteps
  <2> HIDE DEF Keys, Values
  <2> QED BY <2>1, <2>2
<1>3. \A l : /\ Keys(l).out = <<"memoryKeys", l>> /\ Values(l).out = <<"memoryValues", l>>
             /\ Keys(l).in = <<<<"memory", 0>>, <<"crossKeyWeight", l>>, <<"crossKeyBias", l>>>>
             /\ Values(l).in = <<<<"memory", 0>>, <<"crossValueWeight", l>>, <<"crossValueBias", l>>>>
  BY DEF U!MemoryStep, U!Step, U!Own, U!Common
<1> HIDE DEF Keys, Values, N
<1>4. ASSUME NEW i \in 1 .. N, NEW j \in 1 .. N, U!Setup[i].out = U!Setup[j].out
      PROVE  i = j
  <2>1. PICK l \in U!Layers : \/ i = 2 * l - 1 /\ U!Setup[i] = Keys(l)
                              \/ i = 2 * l /\ U!Setup[i] = Values(l)
    BY <1>2
  <2>2. PICK m \in U!Layers : \/ j = 2 * m - 1 /\ U!Setup[j] = Keys(m)
                              \/ j = 2 * m /\ U!Setup[j] = Values(m)
    BY <1>2
  <2> QED BY <1>3, <1>4, <2>1, <2>2
<1>5. ASSUME NEW i \in 1 .. N, NEW j \in 1 .. N, NEW k \in DOMAIN U!Setup[i].in
      PROVE  U!Setup[j].out # U!Setup[i].in[k]
  <2>1. PICK m \in U!Layers : U!Setup[j] = Keys(m) \/ U!Setup[j] = Values(m)
    BY <1>2
  <2>2. U!Setup[j].out[1] \in {"memoryKeys", "memoryValues"}
    BY <1>3, <2>1
  <2>3. PICK l \in U!Layers : U!Setup[i] = Keys(l) \/ U!Setup[i] = Values(l)
    BY <1>2
  <2>4. CASE U!Setup[i] = Keys(l)
    <3>1. U!Setup[i].in = <<<<"memory", 0>>, <<"crossKeyWeight", l>>, <<"crossKeyBias", l>>>>
      BY <1>3, <2>4
    <3>2. U!Setup[i].in[k][1] \in {"memory", "crossKeyWeight", "crossKeyBias"}
      BY <3>1
    <3> QED BY <2>2, <3>2
  <2>5. CASE U!Setup[i] = Values(l)
    <3>1. U!Setup[i].in = <<<<"memory", 0>>, <<"crossValueWeight", l>>, <<"crossValueBias", l>>>>
      BY <1>3, <2>5
    <3>2. U!Setup[i].in[k][1] \in {"memory", "crossValueWeight", "crossValueBias"}
      BY <3>1
    <3> QED BY <2>2, <3>2
  <2> QED BY <2>3, <2>4, <2>5
<1>6. Ordered(U!Setup, N)
  BY <1>4, <1>5 DEF Ordered
<1> QED BY <1>1, <1>6 DEF N

\* What the setup writes.
LEMMA SetupWrites ==
  ASSUME LayerCount \in Nat, NEW i \in 1 .. 2 * LayerCount
  PROVE  \E m \in U!Layers : U!Setup[i].out \in {U!Own("memoryKeys", m), U!Own("memoryValues", m)}
<1>1. PICK m \in U!Layers : i = 2 * m - 1 \/ i = 2 * m
  BY SetupIsOneOf
<1>2. /\ U!Setup[2 * m - 1] = U!MemoryStep("memoryKeys", "crossKeyWeight", "crossKeyBias", m)
      /\ U!Setup[2 * m] = U!MemoryStep("memoryValues", "crossValueWeight", "crossValueBias", m)
  BY SetupSteps
<1>3. U!Setup[2 * m - 1].out = U!Own("memoryKeys", m)
  BY <1>2 DEF U!MemoryStep, U!Step
<1>4. U!Setup[2 * m].out = U!Own("memoryValues", m)
  BY <1>2 DEF U!MemoryStep, U!Step
<1> QED BY <1>1, <1>3, <1>4

\* The setup leaves every layer's keys and values of the encoder's memory.
LEMMA SetupComputes ==
  ASSUME LayerCount \in Nat, Batch \in Nat, NEW before,
         DOMAIN before = ({"memoryKeys", "memoryValues"} \X U!Layers) \union {U!Common("memory")},
         before[U!Common("memory")] = [row \in U!Rows(1) |-> <<"memory", row - 1>>],
         NEW after, after = U!Execute(before, U!Setup, Len(U!Setup), 1), NEW l \in U!Layers, NEW b \in U!Batches
  PROVE  /\ after[U!Own("memoryKeys", l)][b + 1]
              = U!Affine(<<"memory", b>>, "crossKeyWeight", "crossKeyBias", l)
         /\ after[U!Own("memoryValues", l)][b + 1]
              = U!Affine(<<"memory", b>>, "crossValueWeight", "crossValueBias", l)
<1> DEFINE N == Len(U!Setup)
           source == [row \in U!Rows(1) |-> <<"memory", row - 1>>]
<1>1. N \in Nat /\ N = 2 * LayerCount /\ Ordered(U!Setup, N) /\ N \in 0 .. N
  BY SetupIsOrdered
<1>2. ASSUME NEW i \in 1 .. N PROVE U!Setup[i].out \in DOMAIN before
  <2>1. PICK m \in U!Layers : U!Setup[i].out \in {U!Own("memoryKeys", m), U!Own("memoryValues", m)}
    BY <1>1, SetupWrites
  <2> QED BY <2>1 DEF U!Own
<1>3. Equations(after, before, U!Setup, N, 1)
  <2> HIDE DEF N
  <2>1. \A i \in 1 .. N : U!Setup[i].out \in DOMAIN before
    BY <1>2
  <2> QED BY <1>1, <2>1, StepsAreEquations DEF N
<1>4. /\ DOMAIN after = DOMAIN before
      /\ \A i \in 1 .. N : Equation(after, before, U!Setup[i], 1)
      /\ (\A i \in 1 .. N : U!Setup[i].out # U!Common("memory")) => after[U!Common("memory")] = source
  BY <1>3 DEF Equations, Equation
<1>5. after[U!Common("memory")] = source
  <2> SUFFICES ASSUME NEW i \in 1 .. N PROVE U!Setup[i].out # U!Common("memory")
    BY <1>4
  <2>1. PICK m \in U!Layers : U!Setup[i].out \in {U!Own("memoryKeys", m), U!Own("memoryValues", m)}
    BY <1>1, SetupWrites
  <2> QED BY <2>1 DEF U!Own, U!Common
<1>6. /\ Equation(after, before, U!MemoryStep("memoryKeys", "crossKeyWeight", "crossKeyBias", l), 1)
      /\ Equation(after, before, U!MemoryStep("memoryValues", "crossValueWeight", "crossValueBias", l), 1)
  BY <1>1, <1>4, SetupSteps
<1>7. /\ U!Content(after, U!Common("memory")) = source
      /\ \A name \in {"crossKeyWeight", "crossKeyBias", "crossValueWeight", "crossValueBias"} :
           U!Content(after, U!Own(name, l)) = U!Own(name, l)
  <2>1. U!Common("memory") \in DOMAIN after
    BY <1>4
  <2>2. \A name \in {"crossKeyWeight", "crossKeyBias", "crossValueWeight", "crossValueBias"} :
          U!Own(name, l) \notin DOMAIN after
    BY <1>4 DEF U!Own, U!Common
  <2> HIDE DEF source
  <2> QED BY <1>5, <2>1, <2>2 DEF U!Content
<1>8. HasRows(source, 1) /\ b + 1 \in U!Rows(1) /\ source[b + 1] = <<"memory", b>>
  <2>1. b + 1 \in U!Rows(1) /\ (b + 1) - 1 = b
    BY DEF U!Batches, U!Rows
  <2> QED BY <2>1 DEF HasRows
<1> HIDE DEF source, N
<1>9. after[U!Own("memoryKeys", l)][b + 1] = U!Affine(<<"memory", b>>, "crossKeyWeight", "crossKeyBias", l)
  <2>1. after[U!Own("memoryKeys", l)]
          = U!Result("linear", <<U!Content(after, U!Common("memory")),
                                 U!Content(after, U!Own("crossKeyWeight", l)),
                                 U!Content(after, U!Own("crossKeyBias", l))>>,
                     before[U!Own("memoryKeys", l)], 1)
    BY <1>6, EquationOfThree DEF U!MemoryStep
  <2>2. after[U!Own("memoryKeys", l)]
          = U!Result("linear", <<source, U!Own("crossKeyWeight", l), U!Own("crossKeyBias", l)>>,
                     before[U!Own("memoryKeys", l)], 1)
    BY <1>7, <2>1
  <2>3. U!Result("linear", <<source, U!Own("crossKeyWeight", l), U!Own("crossKeyBias", l)>>,
                 before[U!Own("memoryKeys", l)], 1)
          = [row \in U!Rows(1) |-> U!Linear(source[row], U!Own("crossKeyWeight", l), U!Own("crossKeyBias", l))]
    BY <1>8, LinearIs
  <2>4. after[U!Own("memoryKeys", l)][b + 1]
            = U!Linear(source[b + 1], U!Own("crossKeyWeight", l), U!Own("crossKeyBias", l))
    BY <1>8, <2>2, <2>3
  <2> QED BY <1>8, <2>4 DEF U!Affine
<1>10. after[U!Own("memoryValues", l)][b + 1]
           = U!Affine(<<"memory", b>>, "crossValueWeight", "crossValueBias", l)
  <2>1. after[U!Own("memoryValues", l)]
          = U!Result("linear", <<U!Content(after, U!Common("memory")),
                                 U!Content(after, U!Own("crossValueWeight", l)),
                                 U!Content(after, U!Own("crossValueBias", l))>>,
                     before[U!Own("memoryValues", l)], 1)
    BY <1>6, EquationOfThree DEF U!MemoryStep
  <2>2. after[U!Own("memoryValues", l)]
          = U!Result("linear", <<source, U!Own("crossValueWeight", l), U!Own("crossValueBias", l)>>,
                     before[U!Own("memoryValues", l)], 1)
    BY <1>7, <2>1
  <2>3. U!Result("linear", <<source, U!Own("crossValueWeight", l), U!Own("crossValueBias", l)>>,
                 before[U!Own("memoryValues", l)], 1)
          = [row \in U!Rows(1) |-> U!Linear(source[row], U!Own("crossValueWeight", l),
                                            U!Own("crossValueBias", l))]
    BY <1>8, LinearIs
  <2>4. after[U!Own("memoryValues", l)][b + 1]
            = U!Linear(source[b + 1], U!Own("crossValueWeight", l), U!Own("crossValueBias", l))
    BY <1>8, <2>2, <2>3
  <2> QED BY <1>8, <2>4 DEF U!Affine
<1> QED BY <1>9, <1>10

----------------------------------------------------------------------------
(* What every state has. *)

\* Each layer in use has a length, and each of its buffers is there.
SessionTyped ==
  /\ IsExecutor /\ CachesTyped
  /\ unpagedLength \in [U!Used -> Nat] /\ unpagedDevLength \in [U!Used -> Nat]
  /\ U!CurrentLength \in 0 .. Capacity
  /\ unpagedPhase \in {"compiling", "idle", "staged"}

\* The compilation leaves the keys and values of the encoder's memory.
Compiled == MemoryTyped /\ (executor = "transformer" => \A l \in U!Layers : MemoryHeld(l))

\* Layers that are empty come before the others, which are of one length.
EmptyFirst == \A k, l \in U!Used : k < l /\ unpagedLength[k] # 0 => unpagedLength[l] = unpagedLength[k]

\* There is a context whose rows all the layers hold.
HoldsSome == \E c \in U!Contexts(U!CurrentLength) : UnpagedHolds(caches, c, U!CurrentLength)

\* A run under way goes on from the length of the layers, and its length is on
\* the device in all of them.
StagedRun ==
  /\ run.previous = U!CurrentLength
  /\ \E n \in Nat \ {0} :
       /\ run.tokens \in U!Contexts(n) /\ U!CurrentLength + n <= Capacity
       /\ \A l \in U!Used : unpagedDevLength[l] = U!CurrentLength + n

UnpagedSessionInv ==
  /\ SessionTyped /\ EmptyFirst /\ HoldsSome
  /\ unpagedPhase # "compiling" => Compiled
  /\ unpagedPhase = "staged" => StagedRun

\* Where the layers' lengths differ the front one is empty.
LEMMA EmptyFront ==
  ASSUME UnpagedSetting, UnpagedSessionInv, NEW l \in U!Used
  PROVE  unpagedLength[l] = U!CurrentLength \/ U!CurrentLength = 0
<1>1. 1 \in U!Used /\ l \in Nat /\ l >= 1
  BY UsedLayers DEF UnpagedSessionInv, SessionTyped
<1>2. CASE l = 1
  BY <1>2 DEF U!CurrentLength
<1>3. CASE l > 1
  BY <1>1, <1>3 DEF UnpagedSessionInv, EmptyFirst, U!CurrentLength
<1> QED BY <1>1, <1>2, <1>3

\* The context that the layers hold is one.
LEMMA HeldNow ==
  ASSUME UnpagedSetting, UnpagedSessionInv
  PROVE  /\ U!Held(U!CurrentLength) \in U!Contexts(U!CurrentLength)
         /\ UnpagedHolds(caches, U!Held(U!CurrentLength), U!CurrentLength)
<1>1. PICK c \in U!Contexts(U!CurrentLength) : UnpagedHolds(caches, c, U!CurrentLength)
  BY DEF UnpagedSessionInv, HoldsSome
<1>2. HeldBy(caches, U!CurrentLength) = c
  BY <1>1, UnpagedHeldIs DEF UnpagedSessionInv, SessionTyped
<1>3. U!Held(U!CurrentLength) = HeldBy(caches, U!CurrentLength)
  BY DEF U!Held, HeldBy, UnpagedHolds
<1> QED BY <1>1, <1>2, <1>3

\* So is the one that they hold after a step.
LEMMA HeldNext ==
  ASSUME UnpagedSetting, IsExecutor, executor' = executor, NEW size \in 0 .. Capacity,
      NEW c \in U!Contexts(size),
         UnpagedHolds(caches', c, size), U!CurrentLength' = size
  PROVE  U!Held(U!CurrentLength)' = c /\ HoldsSome'
<1>1. HeldBy(caches', size) = c
  BY UnpagedHeldIs
<1>2. U!Used' = U!Used /\ U!Model' = U!Model /\ U!Contexts(size)' = U!Contexts(size)
  BY DEF U!Used, U!Model, U!Contexts
<1>3. U!Held(U!CurrentLength)' = HeldBy(caches', size)
  BY <1>2 DEF U!Held, HeldBy, UnpagedHolds
<1>4. HoldsSome'
  BY <1>2 DEF HoldsSome, UnpagedHolds
<1> QED BY <1>1, <1>3, <1>4

\* Caches without rows hold the empty context.
LEMMA HoldsNone ==
  ASSUME UnpagedSetting, NEW k
  PROVE  <<>> \in U!Contexts(0) /\ UnpagedHolds(k, <<>>, 0)
<1>1. \A q \in 0 .. 0 - 1 : FALSE
  OBVIOUS
<1>2. \A cell \in U!Batches \X (0 .. 0 - 1) : FALSE
  BY <1>1
<1>3. <<>> \in U!Contexts(0)
  BY DEF U!Contexts
<1> QED BY <1>2, <1>3 DEF UnpagedHolds

\* A compilation leaves the keys and values of the encoder's memory, layer after layer.
LEMMA CompileMakes ==
  ASSUME UnpagedSetting, IsExecutor, U!Compile
  PROVE  Compiled'
<1> DEFINE before == [b \in ({"memoryKeys", "memoryValues"} \X U!Used) \union {U!Common("memory")} |->
                        [row \in U!Rows(1) |-> <<"memory", row - 1>>]]
           steps == IF executor = "transformer" THEN U!Setup ELSE <<>>
           after == U!Execute(before, steps, Len(steps), 1)
<1>1. executor' = executor /\ memory' = [b \in {"memoryKeys", "memoryValues"} \X U!Used |-> after[b]]
  BY DEF U!Compile
<1>2. U!Used' = U!Used /\ DOMAIN memory' = {"memoryKeys", "memoryValues"} \X U!Used
  BY <1>1 DEF U!Used
<1>3. MemoryTyped'
  BY <1>2 DEF MemoryTyped
<1>4. ASSUME executor = "transformer", NEW l \in U!Layers, NEW b \in U!Batches
      PROVE  /\ memory'[U!Own("memoryKeys", l)][b + 1]
                  = U!Affine(<<"memory", b>>, "crossKeyWeight", "crossKeyBias", l)
             /\ memory'[U!Own("memoryValues", l)][b + 1]
                  = U!Affine(<<"memory", b>>, "crossValueWeight", "crossValueBias", l)
  <2>1. LayerCount \in Nat /\ Batch \in Nat /\ U!Used = U!Layers /\ steps = U!Setup
    BY <1>4, UsedLayers
  <2>2. DOMAIN before = ({"memoryKeys", "memoryValues"} \X U!Layers) \union {U!Common("memory")}
    BY <2>1
  <2>3. before[U!Common("memory")] = [row \in U!Rows(1) |-> <<"memory", row - 1>>]
    OBVIOUS
  <2>4. after = U!Execute(before, U!Setup, Len(U!Setup), 1)
    BY <2>1
  <2>5. /\ memory'[U!Own("memoryKeys", l)] = after[U!Own("memoryKeys", l)]
        /\ memory'[U!Own("memoryValues", l)] = after[U!Own("memoryValues", l)]
    BY <1>1, <2>1 DEF U!Own
  <2> HIDE DEF before, after, steps
  <2>6. /\ after[U!Own("memoryKeys", l)][b + 1] = U!Affine(<<"memory", b>>, "crossKeyWeight", "crossKeyBias", l)
        /\ after[U!Own("memoryValues", l)][b + 1]
               = U!Affine(<<"memory", b>>, "crossValueWeight", "crossValueBias", l)
    BY <2>1, <2>2, <2>3, <2>4, SetupComputes
  <2> QED BY <2>5, <2>6
<1>5. (executor = "transformer" => \A l \in U!Layers : MemoryHeld(l))'
  BY <1>1, <1>4 DEF MemoryHeld
<1> QED BY <1>3, <1>5 DEF Compiled

----------------------------------------------------------------------------
(* Every step is one of the session's. *)

Lost == \E l \in U!Used : unpagedLength[l] # U!CurrentLength

UnpagedSessionStep == U!Session!Next \/ UNCHANGED <<U!Held(U!CurrentLength), Lost, run.tokens, unpagedAnswer,
                                                    <<>>>>

LEMMA InitIsSession ==
  ASSUME UnpagedSetting, U!Init
  PROVE  UnpagedSessionInv /\ U!Session!Init
<1>1. IsExecutor
  BY DEF U!Init, IsExecutor
<1>2. 1 \in U!Used /\ Capacity \in Nat /\ U!CurrentLength = 0 /\ \A l \in U!Used : unpagedLength[l] = 0
  BY <1>1, UsedLayers DEF U!Init, U!CurrentLength
<1>3. SessionTyped
  BY <1>1, <1>2 DEF U!Init, SessionTyped, CachesTyped
<1>4. EmptyFirst
  BY <1>2 DEF EmptyFirst
<1>5. HoldsSome
  BY <1>2, HoldsNone DEF HoldsSome
<1>6. UnpagedSessionInv
  BY <1>3, <1>4, <1>5 DEF U!Init, UnpagedSessionInv
<1>7. U!Held(U!CurrentLength) = <<>>
  <2>1. U!Held(U!CurrentLength) \in U!Contexts(0)
    BY <1>2, <1>6, HeldNow
  <2> QED BY <2>1 DEF U!Contexts
<1>8. ~ Lost
  BY <1>2 DEF Lost
<1> QED BY <1>6, <1>7, <1>8 DEF U!Init, U!Session!Init, Lost, U!Said, U!Session!Said

\* A step that changes neither the layers' lengths nor the rows that they have
\* leaves the session's context.
LEMMA SameContext ==
  ASSUME UnpagedSetting, UnpagedSessionInv, executor' = executor, unpagedLength' = unpagedLength,
         \A c \in U!Contexts(U!CurrentLength) :
           UnpagedHolds(caches, c, U!CurrentLength) => UnpagedHolds(caches', c, U!CurrentLength)
  PROVE  /\ U!Held(U!CurrentLength)' = U!Held(U!CurrentLength)
         /\ Lost' = Lost /\ HoldsSome' /\ EmptyFirst' /\ U!Used' = U!Used
<1> DEFINE c == U!Held(U!CurrentLength)
<1>1. c \in U!Contexts(U!CurrentLength) /\ UnpagedHolds(caches', c, U!CurrentLength)
  BY HeldNow
<1>2. U!CurrentLength' = U!CurrentLength /\ U!Used' = U!Used
  BY DEF U!CurrentLength, U!Used
<1>3. IsExecutor /\ U!CurrentLength \in 0 .. Capacity
  BY DEF UnpagedSessionInv, SessionTyped
<1> HIDE DEF c
<1>4. U!Held(U!CurrentLength)' = c /\ HoldsSome'
  BY <1>1, <1>2, <1>3, HeldNext
<1>5. Lost' = Lost /\ EmptyFirst'
  BY <1>2 DEF Lost, EmptyFirst, UnpagedSessionInv
<1> QED BY <1>2, <1>4, <1>5 DEF c

\* The encoder's memory stays.
LEMMA SameMemory ==
  ASSUME Compiled, executor' = executor, memory' = memory
  PROVE  Compiled'
<1>1. U!Used' = U!Used
  BY DEF U!Used
<1> QED BY <1>1 DEF Compiled, MemoryTyped, MemoryHeld

\* A compilation and a stuttering step change nothing that the session sees.
LEMMA IdleIsSession ==
  ASSUME UnpagedSetting, UnpagedSessionInv, U!Compile \/ UNCHANGED U!vars
  PROVE  UnpagedSessionInv' /\ UnpagedSessionStep
<1>1. /\ executor' = executor /\ unpagedLength' = unpagedLength /\ unpagedDevLength' = unpagedDevLength
      /\ caches' = caches /\ run' = run /\ unpagedAnswer' = unpagedAnswer
  BY DEF U!Compile, U!vars
<1>2. /\ U!Held(U!CurrentLength)' = U!Held(U!CurrentLength)
      /\ Lost' = Lost /\ HoldsSome' /\ EmptyFirst' /\ U!Used' = U!Used
  BY <1>1, SameContext
<1>3. unpagedPhase' \in {"compiling", "idle", "staged"} /\ (unpagedPhase' = "staged" => unpagedPhase = "staged")
  BY DEF U!Compile, U!vars, UnpagedSessionInv, SessionTyped
<1>4. SessionTyped'
  BY <1>1, <1>2, <1>3 DEF UnpagedSessionInv, SessionTyped, IsExecutor, CachesTyped, U!CurrentLength
<1>5. unpagedPhase' # "compiling" => Compiled'
  <2>1. CASE U!Compile
    BY <2>1, CompileMakes DEF UnpagedSessionInv, SessionTyped
  <2>2. CASE UNCHANGED U!vars
    BY <2>2, SameMemory DEF UnpagedSessionInv, U!vars
  <2> QED BY <2>1, <2>2
<1>6. unpagedPhase' = "staged" => StagedRun'
  BY <1>1, <1>2, <1>3 DEF UnpagedSessionInv, StagedRun, U!CurrentLength, U!Contexts
<1> QED BY <1>1, <1>2, <1>4, <1>5, <1>6 DEF UnpagedSessionInv, UnpagedSessionStep

\* A call that is turned away and one that fails while it stages leave the
\* session as it was.
LEMMA RefusalIsSession ==
  ASSUME UnpagedSetting, UnpagedSessionInv, unpagedPhase = "idle", U!Fail \/ \E next \in Nat :
      U!StagingFails(next)
  PROVE  UnpagedSessionInv' /\ UnpagedSessionStep
<1>1. /\ executor' = executor /\ unpagedLength' = unpagedLength /\ memory' = memory /\ unpagedPhase' = "idle"
      /\ caches' = caches /\ run' = run /\ unpagedAnswer' = U!Said("error")
  BY DEF U!Fail, U!StagingFails
<1>2. /\ U!Held(U!CurrentLength)' = U!Held(U!CurrentLength)
      /\ Lost' = Lost /\ HoldsSome' /\ EmptyFirst' /\ U!Used' = U!Used
  BY <1>1, SameContext
<1>3. unpagedDevLength' \in [U!Used -> Nat]
  BY DEF U!Fail, U!StagingFails, U!Staged, UnpagedSessionInv, SessionTyped
<1>4. SessionTyped'
  BY <1>1, <1>2, <1>3 DEF UnpagedSessionInv, SessionTyped, IsExecutor, CachesTyped, U!CurrentLength
<1>5. Compiled'
  BY <1>1, SameMemory DEF UnpagedSessionInv
<1>6. U!Session!Fail
  BY <1>1, <1>2 DEF U!Session!Fail, U!Said, U!Session!Said, Lost
<1> QED BY <1>1, <1>2, <1>4, <1>5, <1>6 DEF UnpagedSessionInv, UnpagedSessionStep, U!Session!Next

\* A call whose lengths are all staged is a question of the session.
LEMMA StageIsSession ==
  ASSUME UnpagedSetting, UnpagedSessionInv, unpagedPhase = "idle", NEW n \in Nat \ {0}, NEW inputs,
      inputs \subseteq U!Contexts(n),
         U!Stage(U!CurrentLength + n, inputs)
  PROVE  UnpagedSessionInv' /\ UnpagedSessionStep
<1>1. /\ executor' = executor /\ unpagedLength' = unpagedLength /\ memory' = memory /\ unpagedPhase' = "staged"
      /\ caches' = caches /\ unpagedAnswer' = unpagedAnswer /\ U!CurrentLength + n <= Capacity
      /\ unpagedDevLength' = U!Staged(U!CurrentLength + n, U!Last + 1)
  BY DEF U!Stage
<1>2. PICK tokens \in U!Contexts(n) : run' = [tokens |-> tokens, previous |-> U!CurrentLength]
  BY DEF U!Stage
<1>3. /\ U!Held(U!CurrentLength)' = U!Held(U!CurrentLength)
      /\ Lost' = Lost /\ HoldsSome' /\ EmptyFirst' /\ U!Used' = U!Used
  BY <1>1, SameContext
<1>4. U!Used = 1 .. U!Last /\ U!Last \in Nat /\ U!CurrentLength \in Nat /\ U!CurrentLength' = U!CurrentLength
  BY <1>1, UsedLayers DEF UnpagedSessionInv, SessionTyped, U!CurrentLength
<1>5. unpagedDevLength' = [l \in U!Used |-> U!CurrentLength + n]
  BY <1>1, <1>4 DEF U!Staged
<1>6. SessionTyped'
  BY <1>1, <1>3, <1>4, <1>5 DEF UnpagedSessionInv, SessionTyped, IsExecutor, CachesTyped
<1>7. Compiled'
  BY <1>1, SameMemory DEF UnpagedSessionInv
<1>8. StagedRun'
  BY <1>1, <1>2, <1>3, <1>4, <1>5 DEF StagedRun, U!Contexts
<1>9. U!Session!Ask
  <2>1. n \in 0 .. Capacity
    BY <1>1, <1>4, UsedLayers DEF UnpagedSessionInv, SessionTyped
  <2>2. run'.tokens \in U!Session!Contexts
    BY <1>2, <2>1 DEF U!Session!Contexts, U!Contexts
  <2> QED BY <1>1, <1>3, <2>2 DEF U!Session!Ask, Lost
<1> QED BY <1>3, <1>1, <1>6, <1>7, <1>8, <1>9 DEF UnpagedSessionInv, UnpagedSessionStep, U!Session!Next

LEMMA PrefillIsSession ==
  ASSUME UnpagedSetting, UnpagedSessionInv, U!Prefill
  PROVE  UnpagedSessionInv' /\ UnpagedSessionStep
<1>1. /\ unpagedPhase = "idle" /\ U!CurrentLength = 0 /\ PrefillLength \in Nat \ {0}
      /\ U!CurrentLength + PrefillLength = PrefillLength
      /\ [1 .. PrefillLength -> Token] \subseteq U!Contexts(PrefillLength)
  BY DEF U!Prefill, UnpagedSetting, U!UnpagedDecoderAssumption, U!Contexts
<1>2. CASE U!StagingFails(PrefillLength)
  BY <1>1, <1>2, RefusalIsSession
<1>3. CASE U!Stage(PrefillLength, [1 .. PrefillLength -> Token])
  BY <1>1, <1>3, StageIsSession
<1> QED BY <1>2, <1>3 DEF U!Prefill, U!Run

LEMMA DecodeIsSession ==
  ASSUME UnpagedSetting, UnpagedSessionInv, U!Decode
  PROVE  UnpagedSessionInv' /\ UnpagedSessionStep
<1>1. unpagedPhase = "idle" /\ U!CurrentLength + 1 \in Nat /\ [1 .. 1 -> Token] \subseteq U!Contexts(1)
  BY DEF U!Decode, U!Contexts, UnpagedSessionInv, SessionTyped
<1>2. CASE U!StagingFails(U!CurrentLength + 1)
  BY <1>1, <1>2, RefusalIsSession
<1>3. CASE U!Stage(U!CurrentLength + 1, [1 .. 1 -> Token])
  BY <1>1, <1>3, StageIsSession
<1> QED BY <1>2, <1>3 DEF U!Decode, U!Run

\* A context and the tokens after it.
LEMMA Joined ==
  ASSUME NEW p \in Nat, NEW n \in Nat, NEW c \in U!Contexts(p), NEW tokens \in U!Contexts(n)
  PROVE  /\ c \o tokens \in U!Contexts(p + n)
         /\ \A i \in 1 .. p : c[i] = (c \o tokens)[i]
         /\ \A i \in 1 .. n : (c \o tokens)[p + i] = tokens[i]
         /\ Len(tokens) = n
<1>1. c \in Seq(Token) /\ tokens \in Seq(Token) /\ Len(c) = p /\ Len(tokens) = n
  BY DEF U!Contexts
<1>2. /\ c \o tokens \in Seq(Token) /\ Len(c \o tokens) = p + n
      /\ \A i \in 1 .. p + n : (c \o tokens)[i] = IF i <= p THEN c[i] ELSE tokens[i - p]
  BY <1>1, ConcatProperties
<1>3. c \o tokens \in U!Contexts(p + n)
  BY <1>2, LenProperties DEF U!Contexts
<1>4. \A i \in 1 .. p : c[i] = (c \o tokens)[i]
  <2> TAKE i \in 1 .. p
  <2>1. i \in 1 .. p + n /\ i <= p
    OBVIOUS
  <2> QED BY <1>2, <2>1
<1>5. \A i \in 1 .. n : (c \o tokens)[p + i] = tokens[i]
  <2> TAKE i \in 1 .. n
  <2>1. p + i \in 1 .. p + n /\ ~ (p + i <= p) /\ (p + i) - p = i
    OBVIOUS
  <2> QED BY <1>2, <2>1
<1> QED BY <1>1, <1>3, <1>4, <1>5

\* A run that passes extends the context by its tokens, and answers what the
\* model says of the whole.
LEMMA ExecutionIsSession ==
  ASSUME UnpagedSetting, UnpagedSessionInv, U!Execution
  PROVE  UnpagedSessionInv' /\ UnpagedSessionStep
<1> DEFINE p == U!CurrentLength
           c == U!Held(U!CurrentLength)
           e == c \o run.tokens
           a == U!After(Len(U!Steps))
<1>1. /\ IsExecutor /\ CachesTyped /\ p \in 0 .. Capacity /\ p \in Nat /\ Compiled /\ MemoryTyped
      /\ 1 \in U!Used /\ Capacity \in Nat
  BY UsedLayers DEF UnpagedSessionInv, SessionTyped, U!Execution, Compiled
<1>2. run.previous = p
  BY DEF UnpagedSessionInv, StagedRun, U!Execution
<1>3. PICK n \in Nat \ {0} :
        run.tokens \in U!Contexts(n) /\ p + n <= Capacity /\ \A l \in U!Used : unpagedDevLength[l] = p + n
  BY DEF UnpagedSessionInv, StagedRun, U!Execution
<1>4. c \in U!Contexts(p) /\ UnpagedHolds(caches, c, p)
  BY HeldNow
<1> HIDE DEF c, p
<1>5. /\ e \in U!Contexts(p + n) /\ Len(run.tokens) = n
      /\ \A i \in 1 .. p : c[i] = e[i]
      /\ \A i \in 1 .. n : e[p + i] = run.tokens[i]
  <2>1. p \in Nat /\ n \in Nat /\ c \in U!Contexts(p) /\ run.tokens \in U!Contexts(n)
    BY <1>1, <1>3, <1>4
  <2>2. /\ c \o run.tokens \in U!Contexts(p + n)
        /\ \A i \in 1 .. p : c[i] = (c \o run.tokens)[i]
        /\ \A i \in 1 .. n : (c \o run.tokens)[p + i] = run.tokens[i]
        /\ Len(run.tokens) = n
    BY <2>1, Joined
  <2> QED BY <2>2
<1> HIDE DEF e
<1>6. Underway(c, e, p, n)
  BY <1>1, <1>3, <1>4, <1>5 DEF Underway, Compiled
<1>7. UnpagedHolds(U!Caches(a), e, p + n) /\ U!Returned(a, n) = AnswerOf(e, p + n, n)
  BY <1>1, <1>6, RunComputes
<1>8. /\ executor' = executor /\ memory' = memory /\ unpagedDevLength' = unpagedDevLength /\ run' = run
      /\ unpagedPhase' = "idle" /\ caches' = U!Caches(a) /\ unpagedLength' = [l \in U!Used |-> p + n]
      /\ unpagedAnswer' = [said |-> "passed", on |-> U!ContextOf(p + n, U!Returned(a, n), n)]
  <2> QED BY <1>2, <1>5 DEF U!Execution
<1> HIDE DEF a
<1>9. p + n \in 1 .. Capacity /\ p + n \in 0 .. Capacity /\ n \in 1 .. p + n
  BY <1>1, <1>3
<1>10. unpagedAnswer'.said = "passed" /\ unpagedAnswer'.on = e
  <2>1. U!ContextOf(p + n, AnswerOf(e, p + n, n), n) = e
    BY <1>1, <1>5, <1>9, AnswerIsOf
  <2> QED BY <1>7, <1>8, <2>1
<1>11. U!Used' = U!Used /\ U!CurrentLength' = p + n /\ \A l \in U!Used : unpagedLength'[l] = p + n
  BY <1>1, <1>8 DEF U!Used, U!CurrentLength
<1>12. U!Held(U!CurrentLength)' = e /\ HoldsSome'
  BY <1>1, <1>5, <1>7, <1>8, <1>9, <1>11, HeldNext
<1>13. Lost' = FALSE /\ EmptyFirst'
  BY <1>11 DEF Lost, EmptyFirst
<1>14. SessionTyped'
  <2>1. CachesTyped'
    BY <1>1, <1>8, <1>11 DEF CachesTyped, U!Caches
  <2> QED BY <1>1, <1>8, <1>9, <1>11, <2>1 DEF UnpagedSessionInv, SessionTyped, IsExecutor
<1>15. Compiled'
  BY <1>1, <1>8, SameMemory
<1>16. c = IF Lost THEN <<>> ELSE c
  <2>1. CASE Lost
    <3>1. PICK l \in U!Used : unpagedLength[l] # U!CurrentLength
      BY <2>1 DEF Lost
    <3>2. p = 0
      BY <3>1, EmptyFront DEF p
    <3>3. c = <<>>
      BY <1>4, <3>2 DEF U!Contexts
    <3> QED BY <3>3
  <2> QED BY <2>1
<1>17. U!Session!Extend
  <2>1. run.tokens # <<>>
    BY <1>5
  <2>2. e \in U!Session!Contexts
    BY <1>5, <1>9 DEF U!Session!Contexts, U!Contexts
  <2>3. U!Held(U!CurrentLength)' = (IF Lost THEN <<>> ELSE U!Held(U!CurrentLength)) \o run.tokens
    BY <1>12, <1>16 DEF c, e
  <2> QED BY <1>8, <1>10, <1>12, <1>13, <2>1, <2>2, <2>3 DEF U!Session!Extend, Lost
<1> QED BY <1>8, <1>12, <1>13, <1>14, <1>15, <1>17 DEF UnpagedSessionInv, UnpagedSessionStep, U!Session!Next

\* A run that fails, after any of its steps, leaves the rows of the context.
LEMMA ExecutionFailsIsSession ==
  ASSUME UnpagedSetting, UnpagedSessionInv, U!ExecutionFails
  PROVE  UnpagedSessionInv' /\ UnpagedSessionStep
<1> DEFINE p == U!CurrentLength
<1>1. /\ IsExecutor /\ CachesTyped /\ p \in 0 .. Capacity /\ p \in Nat /\ Compiled /\ MemoryTyped
      /\ U!Used \subseteq Nat /\ Capacity \in Nat
  BY UsedLayers DEF UnpagedSessionInv, SessionTyped, U!ExecutionFails, Compiled
<1>2. /\ executor' = executor /\ memory' = memory /\ unpagedLength' = unpagedLength /\ run' = run
      /\ unpagedPhase' = "idle" /\ unpagedAnswer' = U!Said("error")
  BY DEF U!ExecutionFails
<1>3. PICK count \in U!Stops : caches' = U!Caches(U!After(count))
  BY DEF U!ExecutionFails
<1>4. count \in 0 .. Len(U!Steps)
  <2>1. Len(U!Steps) \in Nat /\ DOMAIN U!Steps = 1 .. Len(U!Steps)
    BY <1>1, StepsAreOrdered
  <2> QED BY <2>1 DEF U!Stops
<1>5. PICK n \in Nat \ {0} :
        run.tokens \in U!Contexts(n) /\ p + n <= Capacity /\ \A l \in U!Used : unpagedDevLength[l] = p + n
  BY DEF UnpagedSessionInv, StagedRun, U!ExecutionFails
<1>6. Len(run.tokens) = n
  BY <1>5 DEF U!Contexts
<1>7. ASSUME NEW l \in U!Used, NEW name \in {"keys", "values"}, NEW cell \in U!Batches \X (0 .. p - 1)
      PROVE  caches'[U!Own(name, l)][cell] = caches[U!Own(name, l)][cell]
  <2>1. cell \in U!Cells /\ cell[2] < p
    BY <1>1 DEF U!Cells
  <2>2. unpagedDevLength[l] = p + Len(run.tokens) /\ Len(run.tokens) \in Nat
    BY <1>5, <1>6
  <2> HIDE DEF p
  <2>3. U!After(count)[U!Own(name, l)][cell] = caches[U!Own(name, l)][cell]
    BY <1>1, <1>4, <2>1, <2>2, RowsBeforeAreKept
  <2>4. U!Own(name, l) \in DOMAIN caches
    BY <1>1 DEF CachesTyped, U!Own
  <2>5. caches'[U!Own(name, l)] = U!After(count)[U!Own(name, l)]
    BY <1>3, <2>4 DEF U!Caches
  <2> QED BY <2>3, <2>5
<1>8. \A c \in U!Contexts(U!CurrentLength) :
        UnpagedHolds(caches, c, U!CurrentLength) => UnpagedHolds(caches', c, U!CurrentLength)
  BY <1>7 DEF UnpagedHolds
<1>9. /\ U!Held(U!CurrentLength)' = U!Held(U!CurrentLength)
      /\ Lost' = Lost /\ HoldsSome' /\ EmptyFirst' /\ U!Used' = U!Used
  BY <1>2, <1>8, SameContext
<1>10. unpagedDevLength' \in [U!Used -> Nat]
  <2>1. PICK written \in SUBSET U!Used :
          unpagedDevLength' = [l \in U!Used |-> IF l \in written THEN run.previous ELSE unpagedDevLength[l]]
    BY DEF U!ExecutionFails
  <2>2. run.previous \in Nat
    BY <1>1 DEF UnpagedSessionInv, StagedRun, U!ExecutionFails
  <2> QED BY <2>1, <2>2 DEF UnpagedSessionInv, SessionTyped
<1>11. SessionTyped'
  <2>1. CachesTyped'
    BY <1>1, <1>3, <1>9 DEF CachesTyped, U!Caches
  <2> QED BY <1>1, <1>2, <1>9, <1>10, <2>1 DEF UnpagedSessionInv, SessionTyped, IsExecutor, U!CurrentLength
<1>12. Compiled'
  BY <1>1, <1>2, SameMemory
<1>13. U!Session!Fail
  BY <1>2, <1>9 DEF U!Session!Fail, U!Said, U!Session!Said, Lost
<1> QED BY <1>2, <1>9, <1>11, <1>12, <1>13 DEF UnpagedSessionInv, UnpagedSessionStep, U!Session!Next

\* A reset forgets the context; one that fails after the front layer has lost
\* it, unless no layer had anything.
LEMMA ResetIsSession ==
  ASSUME UnpagedSetting, UnpagedSessionInv, U!Reset
  PROVE  UnpagedSessionInv' /\ UnpagedSessionStep
<1>1. /\ IsExecutor /\ CachesTyped /\ Compiled /\ unpagedPhase = "idle" /\ 1 \in U!Used /\ U!Used \subseteq Nat
      /\ U!Used = 1 .. U!Last /\ U!Last \in Nat \ {0} /\ Capacity \in Nat
  BY UsedLayers DEF UnpagedSessionInv, SessionTyped, U!Reset
<1>2. /\ executor' = executor /\ memory' = memory /\ caches' = caches /\ run' = run
      /\ unpagedPhase' = "idle" /\ U!Used' = U!Used
  BY <1>1 DEF U!Reset, U!Used
<1>3. PICK failing \in 1 .. U!Last + 1 :
        /\ U!ResetUpTo(failing)
        /\ \/ failing = U!Last + 1 /\ unpagedAnswer' = U!Said("done")
           \/ failing # U!Last + 1 /\ unpagedAnswer' = U!Said("error")
  <2>1. CASE U!ResetUpTo(U!Last + 1) /\ unpagedAnswer' = U!Said("done")
    BY <1>1, <2>1
  <2>2. CASE unpagedAnswer' = U!Said("error") /\ \E failing \in U!Used : U!ResetUpTo(failing)
    <3>1. PICK failing \in 1 .. U!Last : U!ResetUpTo(failing)
      BY <1>1, <2>2
    <3> QED BY <1>1, <2>2, <3>1
  <2> QED BY <2>1, <2>2 DEF U!Reset
<1>4. /\ \A l \in U!Used : unpagedLength'[l] = IF l < failing THEN 0 ELSE unpagedLength[l]
      /\ unpagedLength' \in [U!Used -> Nat] /\ unpagedDevLength' \in [U!Used -> Nat]
  BY <1>3 DEF U!ResetUpTo, UnpagedSessionInv, SessionTyped
<1>5. EmptyFirst'
  <2> SUFFICES ASSUME NEW k \in U!Used, NEW l \in U!Used, k < l, unpagedLength'[k] # 0
               PROVE  unpagedLength'[l] = unpagedLength'[k]
    BY <1>2 DEF EmptyFirst
  <2>1. ~ (k < failing) /\ ~ (l < failing) /\ unpagedLength'[k] = unpagedLength[k] /\ unpagedLength'[l]
            = unpagedLength[l]
    BY <1>1, <1>4
  <2> QED BY <2>1 DEF UnpagedSessionInv, EmptyFirst
<1>6. CASE failing = 1
  <2>1. unpagedLength' = unpagedLength /\ unpagedAnswer' = U!Said("error")
    <3>1. \A l \in U!Used : unpagedLength'[l] = unpagedLength[l]
      BY <1>1, <1>4, <1>6
    <3>2. 1 # U!Last + 1
      BY <1>1
    <3> QED BY <1>3, <1>4, <1>6, <3>1, <3>2 DEF UnpagedSessionInv, SessionTyped
  <2>2. /\ U!Held(U!CurrentLength)' = U!Held(U!CurrentLength)
        /\ Lost' = Lost /\ HoldsSome' /\ EmptyFirst' /\ U!Used' = U!Used
    BY <1>2, <2>1, SameContext
  <2>3. SessionTyped'
    BY <1>1, <1>2, <1>4, <2>1 DEF UnpagedSessionInv, SessionTyped, IsExecutor, CachesTyped, U!CurrentLength
  <2>4. Compiled'
    BY <1>1, <1>2, SameMemory
  <2>5. U!Session!Fail
    BY <1>2, <2>1, <2>2 DEF U!Session!Fail, U!Said, U!Session!Said, Lost
  <2> QED BY <1>2, <2>2, <2>3, <2>4, <2>5 DEF UnpagedSessionInv, UnpagedSessionStep, U!Session!Next
<1>7. CASE failing > 1
  <2>1. U!CurrentLength' = 0 /\ 0 \in 0 .. Capacity
    BY <1>1, <1>4, <1>7 DEF U!CurrentLength
  <2>2. U!Held(U!CurrentLength)' = <<>> /\ HoldsSome'
    <3>1. <<>> \in U!Contexts(0) /\ UnpagedHolds(caches', <<>>, 0)
      BY HoldsNone
    <3> QED BY <1>1, <1>2, <2>1, <3>1, HeldNext
  <2>3. SessionTyped'
    BY <1>1, <1>2, <1>4, <2>1 DEF UnpagedSessionInv, SessionTyped, IsExecutor, CachesTyped
  <2>4. Compiled'
    BY <1>1, <1>2, SameMemory
  <2>5. Lost' <=> \E l \in U!Used : unpagedLength'[l] # 0
    BY <1>2, <2>1 DEF Lost
  <2>6. CASE failing = U!Last + 1
    <3>1. ~ Lost' /\ unpagedAnswer' = U!Said("done")
      BY <1>1, <1>3, <1>4, <2>5, <2>6
    <3>2. U!Session!Clear
      BY <1>2, <2>2, <3>1 DEF U!Session!Clear, U!Said, U!Session!Said, Lost
    <3> QED BY <1>2, <1>5, <2>2, <2>3, <2>4, <3>2 DEF UnpagedSessionInv, UnpagedSessionStep, U!Session!Next
  <2>7. CASE failing # U!Last + 1 /\ Lost'
    <3>1. unpagedAnswer' = U!Said("error")
      BY <1>3, <2>7
    <3>2. U!Session!Clear
      BY <1>2, <2>2, <2>7, <3>1 DEF U!Session!Clear, U!Said, U!Session!Said, Lost
    <3> QED BY <1>2, <1>5, <2>2, <2>3, <2>4, <3>2 DEF UnpagedSessionInv, UnpagedSessionStep, U!Session!Next
  <2>8. CASE failing # U!Last + 1 /\ ~ Lost'
    <3>1. unpagedAnswer' = U!Said("error") /\ failing <= U!Last
      BY <1>1, <1>3, <2>8
    <3>2. unpagedLength[U!Last] = 0
      BY <1>1, <1>4, <2>5, <2>8, <3>1
    <3>3. \A l \in U!Used : unpagedLength[l] = 0
      BY <1>1, <3>2 DEF UnpagedSessionInv, EmptyFirst
    <3>4. U!CurrentLength = 0 /\ ~ Lost
      BY <1>1, <3>3 DEF U!CurrentLength, Lost
    <3>5. U!Held(U!CurrentLength) = <<>>
      <4>1. U!Held(U!CurrentLength) \in U!Contexts(0)
        BY <3>4, HeldNow
      <4> QED BY <4>1 DEF U!Contexts
    <3>6. U!Session!Fail
      BY <1>2, <2>2, <2>8, <3>1, <3>4, <3>5 DEF U!Session!Fail, U!Said, U!Session!Said, Lost
    <3> QED BY <1>2, <1>5, <2>2, <2>3, <2>4, <3>6 DEF UnpagedSessionInv, UnpagedSessionStep, U!Session!Next
  <2> QED BY <2>6, <2>7, <2>8
<1> QED BY <1>1, <1>6, <1>7

LEMMA NextIsSession ==
  ASSUME UnpagedSetting, UnpagedSessionInv, [U!Next]_U!vars
  PROVE  UnpagedSessionInv' /\ UnpagedSessionStep
BY IdleIsSession, RefusalIsSession, PrefillIsSession, DecodeIsSession, ExecutionIsSession,
    ExecutionFailsIsSession, ResetIsSession
DEF U!Next, U!Fail

\* For any number of layers, any batch, capacity and tokens, whatever write,
\* step or reset fails (TransformerDecodeExecutor.cpp 337-395 and 483-514,
\* StatefulExecutor.cpp): the executors without pages keep a session.
THEOREM UnpagedKeepsSession == UnpagedSetting => (U!Spec => U!ImplementsSession)
<1> SUFFICES ASSUME UnpagedSetting PROVE U!Spec => U!ImplementsSession
  OBVIOUS
<1>1. U!Init => UnpagedSessionInv /\ U!Session!Init
  BY InitIsSession
<1>2. UnpagedSessionInv /\ [U!Next]_U!vars => UnpagedSessionInv' /\ UnpagedSessionStep
  BY NextIsSession
<1>3. UnpagedSessionStep => [U!Session!Next]_<<U!Held(U!CurrentLength), \E l \in U!Used :
                                               unpagedLength[l] # U!CurrentLength,
                                               run.tokens, unpagedAnswer, <<>>>>
  BY DEF UnpagedSessionStep, Lost
<1> QED
  BY <1>1, <1>2, <1>3, PTL DEF U!Spec, U!ImplementsSession, U!Session!Spec
=============================================================================
