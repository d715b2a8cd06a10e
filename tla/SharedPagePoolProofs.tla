------------------------ MODULE SharedPagePoolProofs ------------------------
(***************************************************************************)
(* The invariants of SharedPagePool for every set of requests, page size,  *)
(* capacity and pool size, and with no bound on allocations.  IInv is      *)
(* their conjunction: it is inductive because a stage keeps the pages of   *)
(* the committed prefix at their places (ResizeSound) and because stores   *)
(* through one request's table miss every slot of another (SlotsDistinct). *)
(***************************************************************************)
EXTENDS SharedPagePool, PagedKVProofs

\* The part of the invariant that concerns one request.
RequestInv(r) ==
  /\ phase[r] = "absent" => kv[r] = NewState
  /\ phase[r] = "idle" => Len(kv[r].table) = PagesFor(kv[r].length)
  /\ phase[r] \in {"staged", "executed"} =>
       /\ kv[r].length < target[r]
       /\ Len(kv[r].table) = PagesFor(target[r])
       /\ kv[r].devTable = kv[r].table
       /\ kv[r].devLength = target[r]
  /\ phase[r] = "broken" => Len(kv[r].table) \in {0, PagesFor(kv[r].length)}
  /\ \A q \in 0 .. Valid(r) - 1 : cells[SlotOf(kv[r].table, q)] = <<r, q>>
  /\ \A q \in DOMAIN saved[r].rows : saved[r].rows[q] = <<r, q>>

IInv ==
  /\ TypeInvariant
  /\ Sound(pool, Tables, Requests)
  /\ \A r \in Requests : RequestInv(r)

\* The conjuncts of IInv that the proofs below cite.
LEMMA IInvParts ==
  ASSUME IInv
  PROVE  /\ TypeInvariant /\ PagesPartitioned /\ LifecycleBalanced
         /\ TableCoversLength /\ DeviceSeesHost /\ PrefixIntact /\ SnapshotIntact
BY DEF IInv, Sound, RequestInv, PagesPartitioned, LifecycleBalanced,
       TableCoversLength, DeviceSeesHost, PrefixIntact, SnapshotIntact

\* The types, per request.
LEMMA Types ==
  ASSUME TypeInvariant, NEW r \in Requests
  PROVE  /\ kv[r] \in StateType
         /\ kv[r].length \in Nat /\ kv[r].length <= Capacity
         /\ target[r] \in Nat /\ target[r] <= Capacity
         /\ Tables[r] = kv[r].table
         /\ Tables \in [Requests -> Seq(Pages)]
         /\ phase[r] \in Phases
         /\ Capacity \in Nat
<1>1. Capacity \in Nat
  BY PagedKVAssumption
<1>2. kv[r] \in StateType /\ target[r] \in 0 .. Capacity /\ phase[r] \in Phases
  BY DEF TypeInvariant, StateType
<1>3. kv[r].length \in 0 .. Capacity
  BY <1>2 DEF StateType
<1>4. Tables[r] = kv[r].table
  BY DEF Tables
<1>5. Tables \in [Requests -> Seq(Pages)]
  BY DEF TypeInvariant, Tables
<1> QED BY <1>1, <1>2, <1>3, <1>4, <1>5

\* Every position a request may read has a page and a slot.
LEMMA ValidIsMapped ==
  ASSUME IInv, NEW r \in Requests, NEW q \in 0 .. Valid(r) - 1
  PROVE  /\ q \in Nat
         /\ Mapped(kv[r].table, q)
         /\ SlotOf(kv[r].table, q) \in Slots
         /\ q \div PageSize + 1 \in 1 .. Len(kv[r].table)
<1>1. TypeInvariant /\ RequestInv(r)
  BY DEF IInv
<1>2. kv[r].table \in Seq(Pages)
  BY <1>1, Types DEF StateType
<1>3. PICK n \in Nat : Len(kv[r].table) >= PagesFor(n) /\ Valid(r) <= n /\ Valid(r) \in Nat
  <2>1. kv[r].length \in Nat /\ target[r] \in Nat /\ Len(kv[r].table) \in Nat
    BY <1>1, <1>2, Types
  <2>5. /\ PagesFor(0) = 0 /\ PagesFor(kv[r].length) \in Nat
        /\ PagesFor(target[r]) \in Nat
    BY <2>1, PagesForIsMonotone
  <2>2. CASE phase[r] \in {"absent", "broken"}
    <3>1. Valid(r) = 0
      BY <2>2 DEF Valid
    <3>2. Len(kv[r].table) >= PagesFor(0) /\ Valid(r) <= 0 /\ 0 \in Nat
      BY <2>1, <2>5, <3>1
    <3> QED BY <3>1, <3>2
  <2>3. CASE phase[r] = "idle"
    <3>1. Valid(r) = kv[r].length /\ Len(kv[r].table) = PagesFor(kv[r].length)
      BY <1>1, <2>3 DEF Valid, RequestInv
    <3>2. Len(kv[r].table) >= PagesFor(kv[r].length) /\ Valid(r) <= kv[r].length
      BY <2>1, <2>5, <3>1
    <3> QED BY <2>1, <3>1, <3>2
  <2>4. CASE phase[r] \in {"staged", "executed"}
    <3>1. /\ Valid(r) \in {kv[r].length, target[r]} /\ kv[r].length < target[r]
          /\ Len(kv[r].table) = PagesFor(target[r])
      BY <1>1, <2>4 DEF Valid, RequestInv
    <3>2. /\ Len(kv[r].table) >= PagesFor(target[r]) /\ Valid(r) <= target[r]
          /\ Valid(r) \in Nat
      BY <2>1, <2>5, <3>1
    <3> QED BY <2>1, <3>2
  <2> QED BY <1>1, <2>2, <2>3, <2>4, Types DEF Phases
<1>4. q \in 0 .. n - 1
  BY <1>3
<1> QED BY <1>2, <1>3, <1>4, CoveredIsMapped

\* What an operation on r must leave alone for the other requests.
LEMMA OthersKeep ==
  ASSUME IInv, NEW r \in Requests,
         \A b \in Requests \ {r} :
           /\ kv'[b] = kv[b] /\ phase'[b] = phase[b]
           /\ target'[b] = target[b] /\ saved'[b] = saved[b],
         \A b \in Requests \ {r} : \A q \in 0 .. Valid(b) - 1 :
           cells'[SlotOf(kv[b].table, q)] = cells[SlotOf(kv[b].table, q)]
  PROVE  \A b \in Requests \ {r} : RequestInv(b)'
<1> SUFFICES ASSUME NEW b \in Requests \ {r}  PROVE RequestInv(b)'
  OBVIOUS
<1>1. RequestInv(b)
  BY DEF IInv
<1>2. Valid(b)' = Valid(b)
  BY DEF Valid
<1> QED BY <1>1, <1>2 DEF RequestInv

\* Stores through a table of r keep the prefixes of the others.
LEMMA StoreKeepsOthers ==
  ASSUME IInv, NEW r \in Requests, NEW p, NEW t,
         Sound(p, [Tables EXCEPT ![r] = t], Requests),
         NEW content, NEW positions \in SUBSET Nat,
         cells' = Store(cells, t, positions, content)
  PROVE  \A b \in Requests \ {r} : \A q \in 0 .. Valid(b) - 1 :
           cells'[SlotOf(kv[b].table, q)] = cells[SlotOf(kv[b].table, q)]
<1> SUFFICES ASSUME NEW b \in Requests \ {r}, NEW q \in 0 .. Valid(b) - 1
             PROVE  cells'[SlotOf(kv[b].table, q)] = cells[SlotOf(kv[b].table, q)]
  OBVIOUS
<1> DEFINE U == [Tables EXCEPT ![r] = t]
<1>1. U[r] = t /\ U[b] = kv[b].table
  BY DEF Tables
<1>2. /\ q \in Nat /\ Mapped(kv[b].table, q) /\ SlotOf(kv[b].table, q) \in Slots
  BY ValidIsMapped
<1>3. Sound(p, U, Requests)
  OBVIOUS
<1> HIDE DEF U
<1>4. /\ Mapped(U[b], q) /\ SlotOf(U[b], q) \in Slots
      /\ b \in Requests /\ b # r
  BY <1>1, <1>2
<1>5. Store(cells, U[r], positions, content)[SlotOf(U[b], q)] = cells[SlotOf(U[b], q)]
  <2>1. ASSUME NEW x \in positions
        PROVE  ~(Mapped(U[r], x) /\ SlotOf(U[r], x) = SlotOf(U[b], q))
    <3>1. x \in Nat
      OBVIOUS
    <3> QED BY <1>2, <1>3, <1>4, <3>1, SlotsDistinct
  <2> QED BY <1>4, <2>1 DEF Store
<1> QED BY <1>1, <1>5

\* The invariant after an operation on r, from what the operation did.
LEMMA Assemble ==
  ASSUME IInv, NEW r \in Requests,
         NEW st \in StateType, kv' = [kv EXCEPT ![r] = st],
         Sound(pool', [Tables EXCEPT ![r] = st.table], Requests),
         NEW ph \in Phases, phase' = [phase EXCEPT ![r] = ph],
         NEW tg \in 0 .. Capacity, target' = [target EXCEPT ![r] = tg],
         NEW sv \in Snapshots, saved' = [saved EXCEPT ![r] = sv],
         cells' \in [Slots -> Rows],
         \A b \in Requests \ {r} : \A q \in 0 .. Valid(b) - 1 :
           cells'[SlotOf(kv[b].table, q)] = cells[SlotOf(kv[b].table, q)],
         RequestInv(r)'
  PROVE  IInv'
<1>1. TypeInvariant
  BY DEF IInv
<1>2. Tables' = [Tables EXCEPT ![r] = st.table]
  BY <1>1 DEF Tables, TypeInvariant
<1>3. pool' \in PoolType
  BY DEF Sound
<1>4. TypeInvariant'
  BY <1>1, <1>3 DEF TypeInvariant, PoolType, StateType
<1>5. \A b \in Requests \ {r} : RequestInv(b)'
  <2>1. \A b \in Requests \ {r} :
          /\ kv'[b] = kv[b] /\ phase'[b] = phase[b]
          /\ target'[b] = target[b] /\ saved'[b] = saved[b]
    BY <1>1 DEF TypeInvariant
  <2> QED BY <2>1, OthersKeep
<1> QED BY <1>2, <1>4, <1>5 DEF IInv

\* The invariant holds of a fresh pool and no request.
LEMMA InitIInv ==
  ASSUME Init
  PROVE  IInv
<1>1. Capacity \in Nat /\ Capacity > 0
  BY PagedKVAssumption
<1>2. /\ Sound(NewPool, [r \in Requests |-> <<>>], Requests)
      /\ NewPool \in PoolType /\ NewState \in StateType
  BY NewPoolSound DEF Sound
<1>3. NoSnapshot \in Snapshots
  <2>1. NoSnapshot \in [length : {0}, rows : [0 .. 0 - 1 -> Rows]]
    BY DEF NoSnapshot
  <2> QED BY <1>1, <2>1 DEF Snapshots
<1>4. TypeInvariant
  <2>1. 0 \in 0 .. Capacity /\ NoRow \in Rows /\ "absent" \in Phases
    BY <1>1 DEF Rows, Phases
  <2> QED BY <1>2, <1>3, <2>1 DEF Init, TypeInvariant, PoolType, StateType
<1>5. Sound(pool, Tables, Requests)
  <2>1. Tables = [r \in Requests |-> <<>>]
    BY DEF Init, Tables, NewState
  <2> QED BY <1>2, <2>1 DEF Init
<1>6. ASSUME NEW r \in Requests  PROVE RequestInv(r)
  <2>1. /\ phase[r] = "absent" /\ kv[r] = NewState /\ saved[r] = NoSnapshot
    BY DEF Init
  <2>2. Valid(r) = 0
    BY <2>1 DEF Valid
  <2>3. DOMAIN saved[r].rows = {}
    BY <2>1 DEF NoSnapshot
  <2> QED BY <2>1, <2>2, <2>3 DEF RequestInv
<1> QED BY <1>4, <1>5, <1>6 DEF IInv

----------------------------------------------------------------------------
\* Creating a request keeps the invariant.
LEMMA CreateKeeps ==
  ASSUME IInv, NEW r \in Requests, Create(r)
  PROVE  IInv'
<1>1. TypeInvariant /\ RequestInv(r) /\ Sound(pool, Tables, Requests)
  BY DEF IInv
<1>2. NewState \in StateType /\ "idle" \in Phases /\ kv[r] = NewState
  BY <1>1, PagedKVAssumption DEF NewState, StateType, Phases, Create, RequestInv
<1>3. /\ pool' = pool /\ kv' = [kv EXCEPT ![r] = NewState]
      /\ phase' = [phase EXCEPT ![r] = "idle"]
      /\ UNCHANGED <<target, cells, saved>>
  BY DEF Create, Become, Outcome
<1>4. /\ target' = [target EXCEPT ![r] = target[r]] /\ target[r] \in 0 .. Capacity
      /\ saved' = [saved EXCEPT ![r] = saved[r]] /\ saved[r] \in Snapshots
      /\ cells' \in [Slots -> Rows]
  BY <1>1, <1>3 DEF TypeInvariant
<1>5. Sound(pool', [Tables EXCEPT ![r] = NewState.table], Requests)
  <2>1. [Tables EXCEPT ![r] = NewState.table] = Tables
    BY <1>2 DEF Tables
  <2> QED BY <1>1, <1>3, <2>1
<1>6. RequestInv(r)'
  <2>1. kv[r]' = NewState /\ phase[r]' = "idle" /\ saved[r]' = saved[r]
    BY <1>1, <1>3 DEF TypeInvariant
  <2>2. Valid(r)' = 0 /\ Len(kv[r].table)' = 0
    BY <2>1 DEF Valid, NewState
  <2>3. PagesFor(kv[r].length)' = 0
    BY <2>1, PagesForIsMonotone DEF NewState
  <2> QED BY <1>1, <2>1, <2>2, <2>3 DEF RequestInv
<1>7. \A b \in Requests \ {r} : \A q \in 0 .. Valid(b) - 1 :
        cells'[SlotOf(kv[b].table, q)] = cells[SlotOf(kv[b].table, q)]
  BY <1>3
<1> QED BY <1>2, <1>3, <1>4, <1>5, <1>6, <1>7, Assemble

\* Destroying a request, staged or not, keeps the invariant.
LEMMA DestroyKeeps ==
  ASSUME IInv, NEW r \in Requests, Destroy(r)
  PROVE  IInv'
<1>1. TypeInvariant /\ RequestInv(r) /\ Sound(pool, Tables, Requests)
  BY DEF IInv
<1>2. NewState \in StateType /\ "absent" \in Phases
      /\ 0 \in 0 .. Capacity /\ NoSnapshot \in Snapshots
  <2>1. NoSnapshot \in [length : {0}, rows : [0 .. 0 - 1 -> Rows]]
    BY DEF NoSnapshot
  <2> QED BY <2>1, PagedKVAssumption DEF NewState, StateType, Phases, Snapshots
<1>3. /\ pool' = Destroyed(pool, kv[r]) /\ kv' = [kv EXCEPT ![r] = NewState]
      /\ phase' = [phase EXCEPT ![r] = "absent"]
      /\ target' = [target EXCEPT ![r] = 0]
      /\ saved' = [saved EXCEPT ![r] = NoSnapshot]
      /\ cells' = cells
  BY DEF Destroy, Become, Outcome
<1>4. cells' \in [Slots -> Rows]
  BY <1>1, <1>3 DEF TypeInvariant
<1>5. Sound(pool', [Tables EXCEPT ![r] = NewState.table], Requests)
  <2>1. kv[r].table = Tables[r] /\ NewState.table = <<>>
    BY DEF Tables, NewState
  <2> QED BY <1>1, <1>3, <2>1, DestroyedSound
<1>6. RequestInv(r)'
  <2>1. kv[r]' = NewState /\ phase[r]' = "absent" /\ saved[r]' = NoSnapshot
    BY <1>1, <1>3 DEF TypeInvariant
  <2>2. Valid(r)' = 0 /\ DOMAIN saved[r].rows' = {}
    BY <2>1 DEF Valid, NoSnapshot
  <2> QED BY <2>1, <2>2 DEF RequestInv
<1>7. \A b \in Requests \ {r} : \A q \in 0 .. Valid(b) - 1 :
        cells'[SlotOf(kv[b].table, q)] = cells[SlotOf(kv[b].table, q)]
  BY <1>3
<1> QED BY <1>2, <1>3, <1>4, <1>5, <1>6, <1>7, Assemble

\* A stage, successful or not, leaves the committed positions where they are.
LEMMA StageOutcome ==
  ASSUME IInv, NEW r \in Requests, NEW n \in Nat, NEW faults, Stage(r, n, faults),
         NEW outcome, outcome = StageLength(pool, kv[r], n, faults)
  PROVE  /\ Sound(outcome.pool, [Tables EXCEPT ![r] = outcome.state.table], Requests)
         /\ outcome.state \in StateType
         /\ outcome.ok \in BOOLEAN
         /\ outcome.state.length = kv[r].length
         /\ outcome.ok => /\ n <= Capacity
                          /\ Len(outcome.state.table) = PagesFor(n)
                          /\ outcome.state.devTable = outcome.state.table
                          /\ outcome.state.devLength = n
         /\ ~outcome.ok => Len(outcome.state.table) = PagesFor(kv[r].length)
         /\ \A q \in 0 .. kv[r].length - 1 :
              SlotOf(outcome.state.table, q) = SlotOf(kv[r].table, q)
<1>1. TypeInvariant /\ RequestInv(r) /\ Sound(pool, Tables, Requests)
  BY DEF IInv
<1>2. phase[r] = "idle" /\ n > kv[r].length
  BY DEF Stage
<1>3. /\ kv[r] \in StateType /\ kv[r].table = Tables[r]
      /\ Len(Tables[r]) = PagesFor(kv[r].length) /\ Tables[r] \in Seq(Pages)
  BY <1>1, <1>2, Types DEF RequestInv
<1>4. /\ Sound(outcome.pool, [Tables EXCEPT ![r] = outcome.state.table], Requests)
      /\ outcome.state \in StateType
      /\ outcome.ok \in BOOLEAN
      /\ outcome.state.length = kv[r].length
      /\ outcome.ok => /\ n <= Capacity
                       /\ Len(outcome.state.table) = PagesFor(n)
                       /\ outcome.state.devTable = outcome.state.table
                       /\ outcome.state.devLength = n
      /\ ~outcome.ok => Len(outcome.state.table) = PagesFor(kv[r].length)
      /\ \A i \in 1 .. Len(Tables[r]) : outcome.state.table[i] = Tables[r][i]
  BY <1>1, <1>2, <1>3, StageSound
<1>5. ASSUME NEW q \in 0 .. kv[r].length - 1
      PROVE  SlotOf(outcome.state.table, q) = SlotOf(kv[r].table, q)
  <2>1. Valid(r) = kv[r].length
    BY <1>2 DEF Valid
  <2>2. q \div PageSize + 1 \in 1 .. Len(kv[r].table)
    BY <2>1, ValidIsMapped
  <2> QED BY <1>3, <1>4, <2>2 DEF SlotOf
<1> QED BY <1>4, <1>5

\* Staging, successful or failed, keeps the invariant.
LEMMA StageKeeps ==
  ASSUME IInv, NEW r \in Requests, NEW n \in Nat, NEW faults, Stage(r, n, faults)
  PROVE  IInv'
<1> DEFINE outcome == StageLength(pool, kv[r], n, faults)
           ph      == IF outcome.ok THEN "staged" ELSE "idle"
           tg      == IF outcome.ok THEN n ELSE target[r]
<1>1. TypeInvariant /\ RequestInv(r)
  BY DEF IInv
<1>2. /\ phase[r] = "idle" /\ n > kv[r].length
      /\ pool' = outcome.pool /\ kv' = [kv EXCEPT ![r] = outcome.state]
      /\ phase' = [phase EXCEPT ![r] = ph]
      /\ target' = [target EXCEPT ![r] = tg]
      /\ UNCHANGED <<cells, saved>>
  BY DEF Stage, Become
<1> HIDE DEF outcome
<1>3. /\ Sound(outcome.pool, [Tables EXCEPT ![r] = outcome.state.table], Requests)
      /\ outcome.state \in StateType
      /\ outcome.ok \in BOOLEAN
      /\ outcome.state.length = kv[r].length
      /\ outcome.ok => /\ n <= Capacity
                       /\ Len(outcome.state.table) = PagesFor(n)
                       /\ outcome.state.devTable = outcome.state.table
                       /\ outcome.state.devLength = n
      /\ ~outcome.ok => Len(outcome.state.table) = PagesFor(kv[r].length)
      /\ \A q \in 0 .. kv[r].length - 1 :
           SlotOf(outcome.state.table, q) = SlotOf(kv[r].table, q)
  BY StageOutcome DEF outcome
<1>4. ph \in Phases /\ tg \in 0 .. Capacity
  BY <1>1, <1>3, PagedKVAssumption DEF Phases, TypeInvariant
<1>5. /\ saved' = [saved EXCEPT ![r] = saved[r]] /\ saved[r] \in Snapshots
      /\ cells' \in [Slots -> Rows]
  BY <1>1, <1>2 DEF TypeInvariant
<1>6. /\ kv[r]' = outcome.state /\ phase[r]' = ph /\ target[r]' = tg
      /\ saved[r]' = saved[r] /\ cells' = cells
  BY <1>1, <1>2 DEF TypeInvariant
<1>7. RequestInv(r)'
  <2>1. Valid(r) = kv[r].length /\ Valid(r)' = kv[r].length
    BY <1>2, <1>3, <1>6 DEF Valid
  <2>2. \A q \in 0 .. kv[r].length - 1 :
          cells[SlotOf(outcome.state.table, q)] = <<r, q>>
    BY <1>1, <1>3, <2>1 DEF RequestInv
  <2> QED BY <1>1, <1>2, <1>3, <1>6, <2>1, <2>2 DEF RequestInv
<1>8. \A b \in Requests \ {r} : \A q \in 0 .. Valid(b) - 1 :
        cells'[SlotOf(kv[b].table, q)] = cells[SlotOf(kv[b].table, q)]
  BY <1>6
<1> HIDE DEF ph, tg
<1> QED BY <1>2, <1>3, <1>4, <1>5, <1>7, <1>8, Assemble

\* The positions a run stores are those between the committed length and the
\* staged one, and the device's table is the host's.
LEMMA AppendedIsStaged ==
  ASSUME IInv, NEW r \in Requests, phase[r] \in {"staged", "executed"}
  PROVE  /\ Appended(r) = kv[r].length .. target[r] - 1
         /\ Appended(r) \in SUBSET Nat
         /\ kv[r].devTable = kv[r].table
         /\ \A q \in Appended(r) : OwnRows(r)[q] = <<r, q>> /\ OwnRows(r)[q] \in Rows
<1>1. TypeInvariant /\ RequestInv(r)
  BY DEF IInv
<1>2. /\ kv[r].length \in Nat /\ target[r] \in Nat /\ target[r] <= Capacity
      /\ Capacity \in Nat /\ kv[r].devLength = target[r]
      /\ kv[r].devTable = kv[r].table
  BY <1>1, Types DEF RequestInv
<1>3. Appended(r) = kv[r].length .. target[r] - 1
  <2>1. target[r] - (target[r] - kv[r].length) = kv[r].length
    BY <1>2
  <2> QED BY <1>2, <2>1 DEF Appended
<1>4. ASSUME NEW q \in Appended(r)
      PROVE  OwnRows(r)[q] = <<r, q>> /\ OwnRows(r)[q] \in Rows
  <2>1. q \in 0 .. Capacity - 1
    BY <1>2, <1>3
  <2> QED BY <2>1 DEF OwnRows, Rows
<1> QED BY <1>2, <1>3, <1>4

\* What r reads of its committed prefix, and of the positions it stored.
LEMMA OwnPrefix ==
  ASSUME IInv, NEW r \in Requests, phase[r] \in {"staged", "executed"},
         NEW stored \in SUBSET Nat, stored \subseteq Appended(r),
         cells' = Store(cells, kv[r].devTable, stored, OwnRows(r))
  PROVE  /\ cells' \in [Slots -> Rows]
         /\ \A q \in 0 .. kv[r].length - 1 : cells'[SlotOf(kv[r].table, q)] = <<r, q>>
         /\ \A q \in stored : cells'[SlotOf(kv[r].table, q)] = <<r, q>>
         /\ \A b \in Requests \ {r} : \A q \in 0 .. Valid(b) - 1 :
              cells'[SlotOf(kv[b].table, q)] = cells[SlotOf(kv[b].table, q)]
<1>1. TypeInvariant /\ RequestInv(r) /\ Sound(pool, Tables, Requests)
  BY DEF IInv
<1>2. /\ Appended(r) = kv[r].length .. target[r] - 1
      /\ kv[r].devTable = kv[r].table
      /\ \A q \in stored : OwnRows(r)[q] = <<r, q>> /\ OwnRows(r)[q] \in Rows
  BY AppendedIsStaged
<1>3. /\ kv[r].table \in Seq(Pages) /\ Tables[r] = kv[r].table
      /\ kv[r].length \in Nat /\ target[r] \in Nat
      /\ kv[r].length < target[r]
      /\ Len(kv[r].table) = PagesFor(target[r]) /\ Len(kv[r].table) \in Nat
  <2>1. kv[r].table \in Seq(Pages)
    BY <1>1, Types DEF StateType
  <2> QED BY <1>1, <2>1, Types DEF RequestInv
<1>4. cells' \in [Slots -> Rows]
  <2>1. cells \in [Slots -> Rows]
    BY <1>1 DEF TypeInvariant
  <2>2. ASSUME NEW slot \in Slots
        PROVE  Store(cells, kv[r].devTable, stored, OwnRows(r))[slot] \in Rows
    BY <1>2, <2>1 DEF Store
  <2> QED BY <2>2 DEF Store
<1>5. ASSUME NEW q \in Nat, q < target[r]
      PROVE  /\ q \in stored => cells'[SlotOf(kv[r].table, q)] = <<r, q>>
             /\ q \notin stored => cells'[SlotOf(kv[r].table, q)]
                                   = cells[SlotOf(kv[r].table, q)]
  <2>1. Mapped(kv[r].table, q) /\ SlotOf(kv[r].table, q) \in Slots
    <3>1. q \in 0 .. target[r] - 1 /\ Len(kv[r].table) >= PagesFor(target[r])
      BY <1>3, <1>5
    <3> QED BY <1>3, <3>1, CoveredIsMapped
  <2>2. ASSUME NEW x \in stored, Mapped(kv[r].table, x),
               SlotOf(kv[r].table, x) = SlotOf(kv[r].table, q)
        PROVE  x = q
    <3>1. x \in Nat
      OBVIOUS
    <3> QED BY <1>1, <1>3, <2>1, <2>2, <3>1, SlotsDistinct
  <2>3. CASE q \in stored
    <3> DEFINE Hit(x) == Mapped(kv[r].table, x) /\ SlotOf(kv[r].table, x) = SlotOf(kv[r].table, q)
    <3>1. cells'[SlotOf(kv[r].table, q)]
            = IF \E x \in stored : Hit(x)
              THEN OwnRows(r)[CHOOSE x \in stored : Hit(x)]
              ELSE cells[SlotOf(kv[r].table, q)]
      BY <1>2, <2>1 DEF Store
    <3>2. Hit(q) /\ \A x \in stored : Hit(x) => x = q
      BY <2>1, <2>2
    <3> HIDE DEF Hit
    <3>3. (CHOOSE x \in stored : Hit(x)) = q
      BY <2>3, <3>2
    <3> QED BY <1>2, <2>3, <3>1, <3>2, <3>3
  <2>4. CASE q \notin stored
    <3>1. \A x \in stored :
            ~(Mapped(kv[r].table, x) /\ SlotOf(kv[r].table, x) = SlotOf(kv[r].table, q))
      BY <2>2, <2>4
    <3> QED BY <1>2, <2>1, <2>4, <3>1 DEF Store
  <2> QED BY <2>3, <2>4
<1>6. ASSUME NEW q \in 0 .. kv[r].length - 1
      PROVE  cells'[SlotOf(kv[r].table, q)] = <<r, q>>
  <2>1. q \in Nat /\ q < target[r] /\ q \notin stored
    BY <1>2, <1>3
  <2>2. cells[SlotOf(kv[r].table, q)] = <<r, q>>
    <3>1. q \in 0 .. Valid(r) - 1
      BY <1>3 DEF Valid
    <3> QED BY <1>1, <3>1 DEF RequestInv
  <2> QED BY <1>5, <2>1, <2>2
<1>7. ASSUME NEW q \in stored
      PROVE  cells'[SlotOf(kv[r].table, q)] = <<r, q>>
  <2>1. q \in kv[r].length .. target[r] - 1
    BY <1>2
  <2>2. q \in Nat /\ q < target[r]
    BY <1>3, <2>1
  <2> QED BY <1>5, <2>2
<1>8. \A b \in Requests \ {r} : \A q \in 0 .. Valid(b) - 1 :
        cells'[SlotOf(kv[b].table, q)] = cells[SlotOf(kv[b].table, q)]
  <2>1. [Tables EXCEPT ![r] = kv[r].devTable] = Tables
    BY <1>1, <1>2 DEF Tables
  <2> QED BY <1>1, <2>1, StoreKeepsOthers
<1> QED BY <1>4, <1>6, <1>7, <1>8

\* A GPU run stores the staged rows and keeps the invariant.
LEMMA ExecuteKeeps ==
  ASSUME IInv, NEW r \in Requests, Execute(r)
  PROVE  IInv'
<1>1. TypeInvariant /\ RequestInv(r) /\ Sound(pool, Tables, Requests)
  BY DEF IInv
<1>2. /\ phase[r] \in {"staged", "executed"}
      /\ cells' = Store(cells, kv[r].devTable, Appended(r), OwnRows(r))
      /\ phase' = [phase EXCEPT ![r] = "executed"]
      /\ UNCHANGED <<pool, kv, target, saved>>
  BY DEF Execute
<1>3. Appended(r) = kv[r].length .. target[r] - 1 /\ Appended(r) \in SUBSET Nat
  BY <1>2, AppendedIsStaged
<1>4. /\ cells' \in [Slots -> Rows]
      /\ \A q \in 0 .. kv[r].length - 1 : cells'[SlotOf(kv[r].table, q)] = <<r, q>>
      /\ \A q \in Appended(r) : cells'[SlotOf(kv[r].table, q)] = <<r, q>>
      /\ \A b \in Requests \ {r} : \A q \in 0 .. Valid(b) - 1 :
           cells'[SlotOf(kv[b].table, q)] = cells[SlotOf(kv[b].table, q)]
  BY <1>2, <1>3, OwnPrefix
<1>5. /\ kv' = [kv EXCEPT ![r] = kv[r]] /\ kv[r] \in StateType
      /\ target' = [target EXCEPT ![r] = target[r]] /\ target[r] \in 0 .. Capacity
      /\ saved' = [saved EXCEPT ![r] = saved[r]] /\ saved[r] \in Snapshots
      /\ "executed" \in Phases
  BY <1>1, <1>2 DEF TypeInvariant, StateType, Phases
<1>6. Sound(pool', [Tables EXCEPT ![r] = kv[r].table], Requests)
  <2>1. [Tables EXCEPT ![r] = kv[r].table] = Tables
    BY DEF Tables
  <2> QED BY <1>1, <1>2, <2>1
<1>7. RequestInv(r)'
  <2>1. phase[r]' = "executed" /\ Valid(r)' = target[r]
    BY <1>1, <1>2 DEF TypeInvariant, Valid
  <2>2. kv[r].length \in Nat /\ target[r] \in Nat
    BY <1>1, Types
  <2>3. \A q \in 0 .. target[r] - 1 : cells'[SlotOf(kv[r].table, q)] = <<r, q>>
    BY <1>3, <1>4, <2>2
  <2> QED BY <1>1, <1>2, <2>1, <2>3 DEF RequestInv
<1> QED BY <1>2, <1>4, <1>5, <1>6, <1>7, Assemble

\* Committing what has been run keeps the invariant.
LEMMA CommitKeeps ==
  ASSUME IInv, NEW r \in Requests, Commit(r)
  PROVE  IInv'
<1> DEFINE st == [kv[r] EXCEPT !.length = target[r]]
<1>1. TypeInvariant /\ RequestInv(r) /\ Sound(pool, Tables, Requests)
  BY DEF IInv
<1>2. /\ phase[r] = "executed"
      /\ kv' = [kv EXCEPT ![r] = st]
      /\ phase' = [phase EXCEPT ![r] = "idle"]
      /\ target' = [target EXCEPT ![r] = 0]
      /\ UNCHANGED <<pool, cells, saved>>
  BY DEF Commit, CommitLength
<1>3. /\ kv[r] \in StateType /\ target[r] \in 0 .. Capacity /\ 0 \in 0 .. Capacity
      /\ "idle" \in Phases
      /\ saved' = [saved EXCEPT ![r] = saved[r]] /\ saved[r] \in Snapshots
      /\ cells' \in [Slots -> Rows]
  BY <1>1, <1>2, PagedKVAssumption DEF TypeInvariant, StateType, Phases
<1>4. st \in StateType /\ st.table = kv[r].table /\ st.length = target[r]
  BY <1>3 DEF StateType
<1> HIDE DEF st
<1>5. Sound(pool', [Tables EXCEPT ![r] = st.table], Requests)
  <2>1. [Tables EXCEPT ![r] = st.table] = Tables
    BY <1>4 DEF Tables
  <2> QED BY <1>1, <1>2, <2>1
<1>6. RequestInv(r)'
  <2>1. /\ kv[r]' = st /\ phase[r]' = "idle" /\ saved[r]' = saved[r] /\ cells' = cells
    BY <1>1, <1>2 DEF TypeInvariant
  <2>2. Valid(r)' = target[r] /\ Valid(r) = target[r]
    BY <1>2, <1>4, <2>1 DEF Valid
  <2> QED BY <1>1, <1>2, <1>4, <2>1, <2>2 DEF RequestInv
<1>7. \A b \in Requests \ {r} : \A q \in 0 .. Valid(b) - 1 :
        cells'[SlotOf(kv[b].table, q)] = cells[SlotOf(kv[b].table, q)]
  BY <1>2
<1> QED BY <1>2, <1>3, <1>4, <1>5, <1>6, <1>7, Assemble

\* A rollback gives back the pages staged and leaves the committed positions
\* where they are.
LEMMA RollbackOutcome ==
  ASSUME IInv, NEW r \in Requests, phase[r] \in {"staged", "executed"}, NEW faults,
         NEW outcome, outcome = RollbackLength(pool, kv[r], kv[r].length, faults)
  PROVE  /\ Sound(outcome.pool, [Tables EXCEPT ![r] = outcome.state.table], Requests)
         /\ outcome.state \in StateType
         /\ outcome.state.length = kv[r].length
         /\ Len(outcome.state.table) = PagesFor(kv[r].length)
         /\ \A q \in 0 .. kv[r].length - 1 :
              SlotOf(outcome.state.table, q) = SlotOf(kv[r].table, q)
<1> DEFINE n == kv[r].length
<1>1. TypeInvariant /\ RequestInv(r) /\ Sound(pool, Tables, Requests)
  BY DEF IInv
<1>2. /\ kv[r] \in StateType /\ kv[r].table = Tables[r] /\ Tables[r] \in Seq(Pages)
      /\ n \in 0 .. Capacity /\ n \in Nat
      /\ PagesFor(n) <= Len(Tables[r]) /\ PagesFor(n) \in Nat
  <2>1. /\ kv[r] \in StateType /\ kv[r].table = Tables[r] /\ Tables[r] \in Seq(Pages)
        /\ n \in Nat /\ n <= Capacity /\ Capacity \in Nat /\ target[r] \in Nat
    BY <1>1, Types
  <2>2. n < target[r] /\ Len(kv[r].table) = PagesFor(target[r])
    BY <1>1 DEF RequestInv
  <2>3. n <= target[r] /\ n \in 0 .. Capacity
    BY <2>1, <2>2
  <2> QED BY <2>1, <2>2, <2>3, PagesForIsMonotone
<1>3. /\ Sound(outcome.pool, [Tables EXCEPT ![r] = outcome.state.table], Requests)
      /\ outcome.state \in StateType
      /\ outcome.state.length = n
      /\ Len(outcome.state.table) = PagesFor(n)
      /\ \A i \in 1 .. Len(Tables[r]) :
           i <= PagesFor(n) => outcome.state.table[i] = Tables[r][i]
  <2>1. outcome = RollbackLength(pool, kv[r], n, faults)
    OBVIOUS
  <2> HIDE DEF n
  <2>2. PICK m \in 0 .. Capacity : m = n
    BY <1>2
  <2>3. /\ Sound(outcome.pool, [Tables EXCEPT ![r] = outcome.state.table], Requests)
        /\ outcome.state \in StateType
        /\ outcome.state.length = kv[r].length
        /\ Len(outcome.state.table) = PagesFor(m)
        /\ \A i \in 1 .. Len(Tables[r]) :
             i <= PagesFor(m) => outcome.state.table[i] = Tables[r][i]
    <3>1. PagesFor(m) <= Len(Tables[r]) /\ outcome = RollbackLength(pool, kv[r], m, faults)
      BY <1>2, <2>1, <2>2
    <3> QED BY <1>1, <1>2, <3>1, RollbackSound
  <2> QED BY <2>2, <2>3 DEF n
<1>4. ASSUME NEW q \in 0 .. n - 1
      PROVE  SlotOf(outcome.state.table, q) = SlotOf(kv[r].table, q)
  <2> DEFINE i == q \div PageSize + 1
  <2>1. i \in 1 .. PagesFor(n)
    <3>1. outcome.state.table \in Seq(Pages) /\ Len(outcome.state.table) >= PagesFor(n)
      BY <1>2, <1>3 DEF StateType
    <3> QED BY <1>2, <1>3, <3>1, CoveredIsMapped
  <2>2. i \in 1 .. Len(Tables[r]) /\ i <= PagesFor(n)
    BY <1>2, <2>1
  <2> HIDE DEF i
  <2>3. outcome.state.table[i] = kv[r].table[i]
    BY <1>2, <1>3, <2>2
  <2> QED BY <2>3 DEF SlotOf, i
<1> QED BY <1>3, <1>4

\* Rolling back, whatever was stored or failed, keeps the invariant.
LEMMA RollbackKeeps ==
  ASSUME IInv, NEW r \in Requests, NEW stored, NEW faults, Rollback(r, stored, faults)
  PROVE  IInv'
<1> DEFINE outcome == RollbackLength(pool, kv[r], kv[r].length, faults)
<1>1. TypeInvariant /\ RequestInv(r)
  BY DEF IInv
<1>2. /\ phase[r] \in {"staged", "executed"} /\ stored \subseteq Appended(r)
      /\ cells' = Store(cells, kv[r].devTable, stored, OwnRows(r))
      /\ pool' = outcome.pool /\ kv' = [kv EXCEPT ![r] = outcome.state]
      /\ phase' = [phase EXCEPT ![r] = "idle"]
      /\ target' = [target EXCEPT ![r] = 0]
      /\ saved' = saved
  BY DEF Rollback, Become
<1> HIDE DEF outcome
<1>3. stored \in SUBSET Nat
  BY <1>2, AppendedIsStaged
<1>4. /\ cells' \in [Slots -> Rows]
      /\ \A q \in 0 .. kv[r].length - 1 : cells'[SlotOf(kv[r].table, q)] = <<r, q>>
      /\ \A b \in Requests \ {r} : \A q \in 0 .. Valid(b) - 1 :
           cells'[SlotOf(kv[b].table, q)] = cells[SlotOf(kv[b].table, q)]
  BY <1>2, <1>3, OwnPrefix
<1>5. /\ Sound(outcome.pool, [Tables EXCEPT ![r] = outcome.state.table], Requests)
      /\ outcome.state \in StateType
      /\ outcome.state.length = kv[r].length
      /\ Len(outcome.state.table) = PagesFor(kv[r].length)
      /\ \A q \in 0 .. kv[r].length - 1 :
           SlotOf(outcome.state.table, q) = SlotOf(kv[r].table, q)
  BY <1>2, RollbackOutcome DEF outcome
<1>6. /\ saved' = [saved EXCEPT ![r] = saved[r]] /\ saved[r] \in Snapshots
      /\ "idle" \in Phases /\ 0 \in 0 .. Capacity
  BY <1>1, <1>2, PagedKVAssumption DEF TypeInvariant, Phases
<1>7. RequestInv(r)'
  <2>1. kv[r]' = outcome.state /\ phase[r]' = "idle" /\ saved[r]' = saved[r]
    BY <1>1, <1>2 DEF TypeInvariant
  <2>2. Valid(r)' = kv[r].length
    BY <1>5, <2>1 DEF Valid
  <2>3. \A q \in 0 .. kv[r].length - 1 :
          cells'[SlotOf(outcome.state.table, q)] = <<r, q>>
    BY <1>4, <1>5
  <2> QED BY <1>1, <1>5, <2>1, <2>2, <2>3 DEF RequestInv
<1> QED BY <1>2, <1>4, <1>5, <1>6, <1>7, Assemble

\* A host copy of a committed prefix keeps the invariant.
LEMMA SnapshotKeeps ==
  ASSUME IInv, NEW r \in Requests, Snapshot(r)
  PROVE  IInv'
<1> DEFINE n  == kv[r].length
           sv == [length |-> n, rows |-> ReadPrefix(cells, kv[r].table, n)]
<1>1. TypeInvariant /\ RequestInv(r) /\ Sound(pool, Tables, Requests)
  BY DEF IInv
<1>2. /\ phase[r] = "idle" /\ saved' = [saved EXCEPT ![r] = sv]
      /\ UNCHANGED <<pool, kv, phase, target, cells>>
  BY DEF Snapshot
<1>3. /\ kv[r] \in StateType /\ n \in 0 .. Capacity
      /\ target[r] \in 0 .. Capacity /\ phase[r] \in Phases
      /\ cells' \in [Slots -> Rows] /\ cells \in [Slots -> Rows]
      /\ kv' = [kv EXCEPT ![r] = kv[r]]
      /\ phase' = [phase EXCEPT ![r] = phase[r]]
      /\ target' = [target EXCEPT ![r] = target[r]]
  BY <1>1, <1>2 DEF TypeInvariant, StateType
<1>4. Valid(r) = n
  BY <1>2 DEF Valid
<1>5. ASSUME NEW q \in 0 .. n - 1
      PROVE  /\ cells[SlotOf(kv[r].table, q)] \in Rows
             /\ cells[SlotOf(kv[r].table, q)] = <<r, q>>
  <2>1. SlotOf(kv[r].table, q) \in Slots
    BY <1>4, ValidIsMapped
  <2>2. cells[SlotOf(kv[r].table, q)] = <<r, q>>
    BY <1>1, <1>4 DEF RequestInv
  <2> QED BY <1>3, <2>1, <2>2
<1>6. /\ sv.rows = ReadPrefix(cells, kv[r].table, n) /\ sv.length = n
      /\ sv.rows \in [0 .. n - 1 -> Rows]
      /\ \A q \in DOMAIN sv.rows : sv.rows[q] = <<r, q>>
  BY <1>5 DEF ReadPrefix
<1>7. sv \in Snapshots
  <2>1. sv \in [length : {n}, rows : [0 .. n - 1 -> Rows]]
    BY <1>6
  <2> QED BY <1>3, <2>1 DEF Snapshots
<1> HIDE DEF sv, n
<1>8. Sound(pool', [Tables EXCEPT ![r] = kv[r].table], Requests)
  <2>1. [Tables EXCEPT ![r] = kv[r].table] = Tables
    BY DEF Tables
  <2> QED BY <1>1, <1>2, <2>1
<1>9. RequestInv(r)'
  <2>1. saved[r]' = sv /\ Valid(r)' = Valid(r)
    BY <1>1, <1>2 DEF TypeInvariant, Valid
  <2> QED BY <1>1, <1>2, <1>6, <2>1 DEF RequestInv
<1>10. \A b \in Requests \ {r} : \A q \in 0 .. Valid(b) - 1 :
         cells'[SlotOf(kv[b].table, q)] = cells[SlotOf(kv[b].table, q)]
  BY <1>2
<1> QED BY <1>2, <1>3, <1>7, <1>8, <1>9, <1>10, Assemble

\* A reset, complete or not, keeps the invariant.
LEMMA ResetKeeps ==
  ASSUME IInv, NEW r \in Requests, NEW faults, ResetCache(r, faults)
  PROVE  IInv'
<1> DEFINE outcome == Reset(pool, kv[r], faults)
           ph      == IF outcome.ok THEN "idle" ELSE "broken"
<1>1. TypeInvariant /\ RequestInv(r) /\ Sound(pool, Tables, Requests)
  BY DEF IInv
<1>2. /\ phase[r] \in {"idle", "broken"}
      /\ pool' = outcome.pool /\ kv' = [kv EXCEPT ![r] = outcome.state]
      /\ phase' = [phase EXCEPT ![r] = ph]
      /\ UNCHANGED <<target, cells, saved>>
  BY DEF ResetCache, Become
<1>3. /\ Sound(outcome.pool, [Tables EXCEPT ![r] = outcome.state.table], Requests)
      /\ outcome.state \in StateType
      /\ outcome.ok \in BOOLEAN
      /\ outcome.ok => outcome.state = NewState
      /\ ~outcome.ok => /\ outcome.state.length = kv[r].length
                        /\ outcome.state.table \in {Tables[r], <<>>}
  <2>1. kv[r] \in StateType /\ kv[r].table = Tables[r]
    BY <1>1, Types
  <2> HIDE DEF outcome
  <2>2. outcome = Reset(pool, kv[r], faults)
    BY DEF outcome
  <2> QED BY <1>1, <2>1, <2>2, ResetSound
<1> HIDE DEF outcome
<1>4. /\ target' = [target EXCEPT ![r] = target[r]] /\ target[r] \in 0 .. Capacity
      /\ saved' = [saved EXCEPT ![r] = saved[r]] /\ saved[r] \in Snapshots
      /\ cells' \in [Slots -> Rows] /\ ph \in Phases
  BY <1>1, <1>2, <1>3 DEF TypeInvariant, Phases
<1>5. RequestInv(r)'
  <2>1. /\ kv[r]' = outcome.state /\ phase[r]' = ph /\ saved[r]' = saved[r]
    BY <1>1, <1>2 DEF TypeInvariant
  <2>2. CASE outcome.ok
    <3>1. Valid(r)' = 0 /\ Len(kv[r].table)' = 0 /\ PagesFor(kv[r].length)' = 0
      BY <1>3, <2>1, <2>2, PagesForIsMonotone DEF Valid, NewState
    <3> QED BY <1>1, <2>1, <2>2, <3>1 DEF RequestInv
  <2>3. CASE ~outcome.ok
    <3>1. Valid(r)' = 0
      BY <2>1, <2>3 DEF Valid
    <3>2. Len(kv[r].table) \in {0, PagesFor(kv[r].length)} /\ Tables[r] = kv[r].table
      BY <1>1, <1>2 DEF RequestInv, Tables
    <3>3. Len(outcome.state.table) \in {0, PagesFor(outcome.state.length)}
      BY <1>3, <2>3, <3>2
    <3> QED BY <1>1, <2>1, <2>3, <3>1, <3>3 DEF RequestInv
  <2> QED BY <1>3, <2>2, <2>3
<1>6. \A b \in Requests \ {r} : \A q \in 0 .. Valid(b) - 1 :
        cells'[SlotOf(kv[b].table, q)] = cells[SlotOf(kv[b].table, q)]
  BY <1>2
<1> HIDE DEF ph
<1> QED BY <1>2, <1>3, <1>4, <1>5, <1>6, Assemble

\* Restoring a host copy, or failing to, keeps the invariant.
LEMMA RestoreKeeps ==
  ASSUME IInv, NEW r \in Requests, NEW written, NEW faults, NEW undoFaults,
         RestoreCache(r, written, faults, undoFaults)
  PROVE  IInv'
<1> DEFINE n       == saved[r].length
           rows    == saved[r].rows
           staged  == StageLength(pool, kv[r], n, faults)
           outcome == Restore(pool, kv[r], n, faults, undoFaults)
           ps      == 0 .. written - 1
           sv      == IF outcome.ok THEN NoSnapshot ELSE saved[r]
<1>1. TypeInvariant /\ RequestInv(r) /\ Sound(pool, Tables, Requests)
  BY DEF IInv
<1>2. /\ phase[r] = "idle" /\ n > 0 /\ kv[r].length = 0 /\ written \in 0 .. n
      /\ (outcome.ok => written = n)
      /\ pool' = outcome.pool /\ kv' = [kv EXCEPT ![r] = outcome.state]
      /\ phase' = [phase EXCEPT ![r] = "idle"]
      /\ cells' = Store(cells, staged.state.table, ps, rows)
      /\ saved' = [saved EXCEPT ![r] = sv]
      /\ target' = target
  BY DEF RestoreCache, Become
<1>3. /\ n \in Nat /\ n <= Capacity /\ rows \in [0 .. n - 1 -> Rows]
      /\ saved[r] \in Snapshots /\ DOMAIN rows = 0 .. n - 1
      /\ \A q \in 0 .. n - 1 : rows[q] = <<r, q>>
  <2>1. saved[r] \in Snapshots
    BY <1>1 DEF TypeInvariant
  <2>2. PICK m \in 0 .. Capacity : saved[r] \in [length : {m}, rows : [0 .. m - 1 -> Rows]]
    BY <2>1 DEF Snapshots
  <2>3. n = m /\ rows \in [0 .. n - 1 -> Rows]
    BY <2>2
  <2>4. n \in Nat /\ n <= Capacity
    BY <2>3, PagedKVAssumption
  <2> QED BY <1>1, <2>1, <2>3, <2>4 DEF RequestInv
<1>4. kv[r] \in StateType /\ kv[r].table = Tables[r] /\ Tables[r] = <<>>
  <2>1. kv[r] \in StateType /\ kv[r].table = Tables[r] /\ Tables[r] \in Seq(Pages)
    BY <1>1, Types
  <2>2. Len(Tables[r]) = 0
    BY <1>1, <1>2, <2>1, PagesForIsMonotone DEF RequestInv
  <2> QED BY <2>1, <2>2
<1>5. /\ Sound(staged.pool, [Tables EXCEPT ![r] = staged.state.table], Requests)
      /\ staged.ok => Len(staged.state.table) = PagesFor(n)
      /\ Sound(outcome.pool, [Tables EXCEPT ![r] = outcome.state.table], Requests)
      /\ outcome.state \in StateType
      /\ outcome.ok \in BOOLEAN
      /\ outcome.ok => /\ staged.ok
                       /\ outcome.state.length = n
                       /\ outcome.state.table = staged.state.table
      /\ ~outcome.ok => /\ outcome.state.length = 0
                        /\ Len(outcome.state.table) = PagesFor(0)
  <2> HIDE DEF staged, outcome, n
  <2>1. /\ staged = StageLength(pool, kv[r], n, faults)
        /\ outcome = Restore(pool, kv[r], n, faults, undoFaults)
    BY DEF staged, outcome
  <2>2. /\ Sound(pool, Tables, Requests)
        /\ kv[r] \in StateType /\ kv[r].table = Tables[r] /\ kv[r].length = 0
        /\ Tables[r] = <<>> /\ n \in Nat /\ n > 0 /\ n <= Capacity
    BY <1>1, <1>2, <1>3, <1>4
  <2>3. PICK m \in Nat : m = n
    BY <2>2
  <2>4. /\ Sound(staged.pool, [Tables EXCEPT ![r] = staged.state.table], Requests)
        /\ staged.ok => Len(staged.state.table) = PagesFor(m)
        /\ Sound(outcome.pool, [Tables EXCEPT ![r] = outcome.state.table], Requests)
        /\ outcome.state \in StateType
        /\ outcome.ok \in BOOLEAN
        /\ outcome.ok => /\ staged.ok
                         /\ outcome.state.length = m
                         /\ outcome.state.table = staged.state.table
        /\ ~outcome.ok => /\ outcome.state.length = 0
                          /\ Len(outcome.state.table) = PagesFor(0)
    <3>1. m > 0 /\ m <= Capacity
      BY <2>2, <2>3
    <3>2. /\ staged = StageLength(pool, kv[r], m, faults)
          /\ outcome = Restore(pool, kv[r], m, faults, undoFaults)
      BY <2>1, <2>3
    <3>3. /\ Sound(pool, Tables, Requests)
          /\ kv[r] \in StateType /\ kv[r].table = Tables[r] /\ kv[r].length = 0
          /\ Len(Tables[r]) = PagesFor(0)
      BY <2>2, PagesForIsMonotone
    <3>4. Len(Tables[r]) = PagesFor(kv[r].length) /\ m > kv[r].length
      BY <3>1, <3>3, PagesForIsMonotone
    <3>5. /\ Sound(staged.pool, [Tables EXCEPT ![r] = staged.state.table], Requests)
          /\ staged.state \in StateType
          /\ staged.ok \in BOOLEAN
          /\ staged.state.length = kv[r].length
          /\ staged.ok => /\ m <= Capacity
                          /\ Len(staged.state.table) = PagesFor(m)
                          /\ staged.state.devTable = staged.state.table
                          /\ staged.state.devLength = m
      BY <3>2, <3>3, <3>4, StageSound
    <3>6. /\ Sound(outcome.pool, [Tables EXCEPT ![r] = outcome.state.table], Requests)
          /\ outcome.state \in StateType
          /\ outcome.ok \in BOOLEAN
          /\ outcome.ok => /\ StageLength(pool, kv[r], m, faults).ok
                           /\ outcome.state.length = m
                           /\ outcome.state.table = StageLength(pool, kv[r], m, faults).state.table
                           /\ Len(outcome.state.table) = PagesFor(m)
          /\ ~outcome.ok => /\ outcome.state.length = 0
                            /\ Len(outcome.state.table) = PagesFor(0)
      BY <3>1, <3>2, <3>3, RestoreSound
    <3> QED BY <3>2, <3>5, <3>6
  <2> QED BY <2>3, <2>4
<1>6. ps \in SUBSET Nat /\ ps \subseteq 0 .. n - 1
  BY <1>2, <1>3
<1>7. cells' \in [Slots -> Rows]
  <2>1. cells \in [Slots -> Rows]
    BY <1>1 DEF TypeInvariant
  <2>2. \A q \in ps : rows[q] \in Rows
    BY <1>3, <1>6
  <2> HIDE DEF ps, rows, staged
  <2>3. ASSUME NEW slot \in Slots
        PROVE  Store(cells, staged.state.table, ps, rows)[slot] \in Rows
    BY <2>1, <2>2 DEF Store
  <2> QED BY <1>2, <2>3 DEF Store
<1> HIDE DEF staged, outcome, rows, n
<1>8. \A b \in Requests \ {r} : \A q \in 0 .. Valid(b) - 1 :
        cells'[SlotOf(kv[b].table, q)] = cells[SlotOf(kv[b].table, q)]
  <2> HIDE DEF ps
  <2> QED BY <1>2, <1>5, <1>6, StoreKeepsOthers
<1>9. ASSUME outcome.ok, NEW q \in 0 .. n - 1
      PROVE  cells'[SlotOf(outcome.state.table, q)] = <<r, q>>
  <2> DEFINE U == [Tables EXCEPT ![r] = staged.state.table]
             t == staged.state.table
  <2>1. U[r] = t /\ Sound(staged.pool, U, Requests) /\ t = outcome.state.table
    BY <1>5, <1>9 DEF Tables
  <2>2. t \in Seq(Pages) /\ Len(t) \in Nat
    BY <1>5, <1>9, <2>1 DEF StateType
  <2>3. Len(t) >= PagesFor(n) /\ PagesFor(n) \in Nat
    BY <1>3, <1>5, <1>9, <2>2, PagesForIsMonotone
  <2>4. q \in Nat /\ Mapped(t, q) /\ SlotOf(t, q) \in Slots
    BY <1>3, <2>2, <2>3, CoveredIsMapped
  <2> HIDE DEF U, t
  <2>5. ASSUME NEW x \in ps, Mapped(t, x), SlotOf(t, x) = SlotOf(t, q)
        PROVE  x = q
    <3>1. x \in Nat
      OBVIOUS
    <3> QED BY <2>1, <2>4, <2>5, <3>1, SlotsDistinct
  <2>6. q \in ps /\ rows[q] = <<r, q>>
    BY <1>2, <1>3, <1>9
  <2> DEFINE Hit(x) == Mapped(t, x) /\ SlotOf(t, x) = SlotOf(t, q)
  <2> HIDE DEF ps
  <2>7. cells'[SlotOf(t, q)]
          = IF \E x \in ps : Hit(x) THEN rows[CHOOSE x \in ps : Hit(x)]
            ELSE cells[SlotOf(t, q)]
    BY <1>2, <2>4 DEF Store, t
  <2>8. Hit(q) /\ \A x \in ps : Hit(x) => x = q
    BY <2>4, <2>5
  <2> HIDE DEF Hit
  <2>9. (CHOOSE x \in ps : Hit(x)) = q
    BY <2>6, <2>8
  <2> QED BY <2>1, <2>6, <2>7, <2>8, <2>9
<1>10. sv \in Snapshots /\ \A q \in DOMAIN sv.rows : sv.rows[q] = <<r, q>>
  <2>1. NoSnapshot \in Snapshots
    <3>1. NoSnapshot \in [length : {0}, rows : [0 .. 0 - 1 -> Rows]]
      BY DEF NoSnapshot
    <3> QED BY <3>1, PagedKVAssumption DEF Snapshots
  <2>2. DOMAIN NoSnapshot.rows = {}
    BY DEF NoSnapshot
  <2>3. \A q \in DOMAIN saved[r].rows : saved[r].rows[q] = <<r, q>>
    BY <1>1 DEF RequestInv
  <2> QED BY <1>3, <1>5, <2>1, <2>2, <2>3
<1> HIDE DEF sv
<1>11. RequestInv(r)'
  <2>1. kv[r]' = outcome.state /\ phase[r]' = "idle" /\ saved[r]' = sv
    BY <1>1, <1>2 DEF TypeInvariant
  <2>2. Valid(r)' = outcome.state.length
    BY <2>1 DEF Valid
  <2>3. Len(outcome.state.table) = PagesFor(outcome.state.length)
    BY <1>5
  <2>4. \A q \in 0 .. outcome.state.length - 1 :
          cells'[SlotOf(outcome.state.table, q)] = <<r, q>>
    BY <1>5, <1>9
  <2> QED BY <1>10, <2>1, <2>2, <2>3, <2>4 DEF RequestInv
<1>12. /\ target' = [target EXCEPT ![r] = target[r]] /\ target[r] \in 0 .. Capacity
       /\ "idle" \in Phases
  BY <1>1, <1>2 DEF TypeInvariant, Phases
<1> QED BY <1>2, <1>5, <1>7, <1>8, <1>10, <1>11, <1>12, Assemble

----------------------------------------------------------------------------
\* Every step of the specification keeps the invariant.
LEMMA NextIInv ==
  ASSUME IInv, [Next]_vars
  PROVE  IInv'
<1>1. CASE UNCHANGED vars
  <2>1. /\ TypeInvariant' = TypeInvariant /\ Tables' = Tables /\ pool' = pool
        /\ \A r \in Requests : RequestInv(r)' = RequestInv(r)
    BY <1>1 DEF vars, TypeInvariant, Tables, RequestInv, Valid
  <2> QED BY <2>1 DEF IInv
<1>2. CASE Next
  <2>1. PICK r \in Requests :
          \/ Create(r)
          \/ Destroy(r)
          \/ \E n \in 1 .. Capacity + 1, faults \in StageFaults : Stage(r, n, faults)
          \/ Execute(r)
          \/ Commit(r)
          \/ \E stored \in SUBSET Appended(r), faults \in WriteFaults :
               Rollback(r, stored, faults)
          \/ Snapshot(r)
          \/ \E faults \in WriteFaults : ResetCache(r, faults)
          \/ \E written \in 0 .. Capacity, faults \in RestoreFaults,
                undoFaults \in WriteFaults :
               RestoreCache(r, written, faults, undoFaults)
    BY <1>2 DEF Next
  <2>2. CASE Create(r)
    BY <2>2, CreateKeeps
  <2>3. CASE Destroy(r)
    BY <2>3, DestroyKeeps
  <2>4. CASE \E n \in 1 .. Capacity + 1, faults \in StageFaults : Stage(r, n, faults)
    <3>1. PICK n \in 1 .. Capacity + 1, faults \in StageFaults : Stage(r, n, faults)
      BY <2>4
    <3>2. n \in Nat
      BY PagedKVAssumption
    <3> QED BY <3>1, <3>2, StageKeeps
  <2>5. CASE Execute(r)
    BY <2>5, ExecuteKeeps
  <2>6. CASE Commit(r)
    BY <2>6, CommitKeeps
  <2>7. CASE \E stored \in SUBSET Appended(r), faults \in WriteFaults :
               Rollback(r, stored, faults)
    BY <2>7, RollbackKeeps
  <2>8. CASE Snapshot(r)
    BY <2>8, SnapshotKeeps
  <2>9. CASE \E faults \in WriteFaults : ResetCache(r, faults)
    BY <2>9, ResetKeeps
  <2>10. CASE \E written \in 0 .. Capacity, faults \in RestoreFaults,
                undoFaults \in WriteFaults :
               RestoreCache(r, written, faults, undoFaults)
    BY <2>10, RestoreKeeps
  <2> QED BY <2>1, <2>2, <2>3, <2>4, <2>5, <2>6, <2>7, <2>8, <2>9, <2>10
<1> QED BY <1>1, <1>2

\* The conjunction is inductive.
THEOREM Invariance == Spec => []IInv
BY InitIInv, NextIInv, PTL DEF Spec

\* Every variable keeps its type: lengths within the capacity, pages within
\* the pool.
THEOREM TypeSafety == Spec => []TypeInvariant
BY Invariance, IInvParts, PTL

\* No page is lost or held twice, by one request or by two, through stages,
\* failed stages, rollbacks, resets, restores and destructions.
THEOREM Isolation == Spec => []PagesPartitioned
BY Invariance, IInvParts, PTL

\* The counters compared at the end of a serving run balance at any moment.
THEOREM Lifecycle == Spec => []LifecycleBalanced
BY Invariance, IInvParts, PTL

\* A request holds exactly the pages its committed or staged length needs.
THEOREM Coverage == Spec => []TableCoversLength
BY Invariance, IInvParts, PTL

\* A request runs on the device with the table and the length that the host
\* believes in, whichever writes have failed since its last call.
THEOREM DeviceView == Spec => []DeviceSeesHost
BY Invariance, IInvParts, PTL

\* What a request reads back on the device is what it wrote, whoever shares
\* the pool with it.
THEOREM Integrity == Spec => []PrefixIntact
BY Invariance, IInvParts, PTL

\* So is what the host copied of it, and what comes back from that copy.
THEOREM SnapshotIntegrity == Spec => []SnapshotIntact
BY Invariance, IInvParts, PTL

\* One step moves no committed position that stays committed.
LEMMA StepIsStable ==
  ASSUME IInv, Next, NEW b \in Requests, NEW q \in 0 .. Capacity - 1,
         q < kv[b].length, q < kv'[b].length,
         phase[b] # "broken", phase'[b] # "broken"
  PROVE  SlotOf(kv'[b].table, q) = SlotOf(kv[b].table, q)
<1>1. TypeInvariant /\ RequestInv(b)
  BY DEF IInv
<1>2. q \in Nat /\ q \in 0 .. kv[b].length - 1 /\ kv[b].length # 0
  BY <1>1, Types, PagedKVAssumption
<1>3. SUFFICES ASSUME kv'[b] # kv[b]
               PROVE  SlotOf(kv'[b].table, q) = SlotOf(kv[b].table, q)
  OBVIOUS
<1>4. NewState.length = 0
  BY DEF NewState
<1>5. PICK r \in Requests :
        \/ Create(r)
        \/ Destroy(r)
        \/ \E n \in 1 .. Capacity + 1, faults \in StageFaults : Stage(r, n, faults)
        \/ Execute(r)
        \/ Commit(r)
        \/ \E stored \in SUBSET Appended(r), faults \in WriteFaults :
             Rollback(r, stored, faults)
        \/ Snapshot(r)
        \/ \E faults \in WriteFaults : ResetCache(r, faults)
        \/ \E written \in 0 .. Capacity, faults \in RestoreFaults,
              undoFaults \in WriteFaults :
             RestoreCache(r, written, faults, undoFaults)
  BY DEF Next
<1>6. CASE Create(r) \/ Destroy(r)
  <2>1. kv' = [kv EXCEPT ![r] = NewState]
    BY <1>6 DEF Create, Destroy, Become, Outcome
  <2>2. kv'[b] = NewState
    BY <1>1, <1>3, <2>1 DEF TypeInvariant
  <2> QED BY <1>2, <1>4, <2>2
<1>7. CASE \E n \in 1 .. Capacity + 1, faults \in StageFaults : Stage(r, n, faults)
  <2>1. PICK n \in 1 .. Capacity + 1, faults \in StageFaults : Stage(r, n, faults)
    BY <1>7
  <2>2. n \in Nat
    BY PagedKVAssumption
  <2> DEFINE outcome == StageLength(pool, kv[r], n, faults)
  <2>3. kv' = [kv EXCEPT ![r] = outcome.state]
    BY <2>1 DEF Stage, Become
  <2> HIDE DEF outcome
  <2>4. r = b /\ kv'[b] = outcome.state
    BY <1>1, <1>3, <2>3 DEF TypeInvariant
  <2>5. \A x \in 0 .. kv[r].length - 1 :
          SlotOf(outcome.state.table, x) = SlotOf(kv[r].table, x)
    BY ZenonT(60), <2>1, <2>2, StageOutcome DEF outcome
  <2> QED BY <1>2, <2>4, <2>5
<1>8. CASE Execute(r) \/ Snapshot(r)
  BY <1>3, <1>8 DEF Execute, Snapshot
<1>9. CASE Commit(r)
  <2>1. kv' = [kv EXCEPT ![r] = [kv[r] EXCEPT !.length = target[r]]]
    BY <1>9 DEF Commit, CommitLength
  <2>2. kv'[b].table = kv[b].table
    BY <1>1, <1>3, <2>1 DEF TypeInvariant
  <2> QED BY <2>2
<1>10. CASE \E stored \in SUBSET Appended(r), faults \in WriteFaults :
             Rollback(r, stored, faults)
  <2>1. PICK stored \in SUBSET Appended(r), faults \in WriteFaults :
          Rollback(r, stored, faults)
    BY <1>10
  <2> DEFINE outcome == RollbackLength(pool, kv[r], kv[r].length, faults)
  <2>2. phase[r] \in {"staged", "executed"} /\ kv' = [kv EXCEPT ![r] = outcome.state]
    BY <2>1 DEF Rollback, Become
  <2> HIDE DEF outcome
  <2>3. r = b /\ kv'[b] = outcome.state
    BY <1>1, <1>3, <2>2 DEF TypeInvariant
  <2>4. \A x \in 0 .. kv[r].length - 1 :
          SlotOf(outcome.state.table, x) = SlotOf(kv[r].table, x)
    BY ZenonT(60), <2>2, RollbackOutcome DEF outcome
  <2> QED BY <1>2, <2>3, <2>4
<1>11. CASE \E faults \in WriteFaults : ResetCache(r, faults)
  <2>1. PICK faults \in WriteFaults : ResetCache(r, faults)
    BY <1>11
  <2> DEFINE outcome == Reset(pool, kv[r], faults)
  <2>2. /\ kv' = [kv EXCEPT ![r] = outcome.state]
        /\ phase' = [phase EXCEPT ![r] = IF outcome.ok THEN "idle" ELSE "broken"]
    BY <2>1 DEF ResetCache, Become
  <2>3. outcome.ok => outcome.state = NewState
    BY DEF Reset, Outcome
  <2> HIDE DEF outcome
  <2>4. r = b /\ kv'[b] = outcome.state /\ outcome.ok
    BY <1>1, <1>3, <2>2 DEF TypeInvariant
  <2> QED BY <1>2, <1>4, <2>3, <2>4
<1>12. CASE \E written \in 0 .. Capacity, faults \in RestoreFaults,
              undoFaults \in WriteFaults :
             RestoreCache(r, written, faults, undoFaults)
  BY <1>1, <1>2, <1>3, <1>12 DEF RestoreCache, Become, TypeInvariant
<1> QED BY <1>5, <1>6, <1>7, <1>8, <1>9, <1>10, <1>11, <1>12

\* A committed position keeps its page and its offset while it is committed.
THEOREM Stability == Spec => SlotsStable
<1>1. ASSUME IInv, [Next]_vars
      PROVE  [\A r \in Requests : \A q \in 0 .. Capacity - 1 :
                /\ q < kv[r].length /\ q < kv'[r].length
                /\ phase[r] # "broken" /\ phase'[r] # "broken"
                => SlotOf(kv'[r].table, q) = SlotOf(kv[r].table, q)]_vars
  BY <1>1, StepIsStable
<1> QED BY <1>1, Invariance, PTL DEF Spec, SlotsStable

=============================================================================
