--------------------------- MODULE SharedPagePool ---------------------------
(***************************************************************************)
(* One layer's page pool shared by the KVCacheState objects of several     *)
(* requests, used the way src/src/runtime/DecoderLLMExecutor.cpp and       *)
(* ServingRuntime.cpp use it: stage a longer length, run the GPU at the    *)
(* staged length (more than once while token-only kernels are admitted),   *)
(* then commit or roll back; copy the cache out, reset, and restore it.    *)
(* Calls of different requests interleave in any order between any two     *)
(* calls of one request, every device write may fail, and a GPU run may    *)
(* fail with any of its stores done.                                       *)
(***************************************************************************)
EXTENDS PagedKV

CONSTANTS
  Requests,         \* the requests that share the pool
  MaxAllocations    \* bound on allocationCount_, for model checking

VARIABLES
  pool,     \* the layer's KVPagePool
  kv,       \* kv[r]: the KVCacheState of request r
  phase,    \* phase[r]: where r is in the protocol of its calls
  target,   \* target[r]: the length the last successful stage asked for
  cells,    \* cells[slot]: what the device key and value buffers hold
  saved     \* saved[r]: r's cache copied to the host (DecoderKVSnapshot)

vars == <<pool, kv, phase, target, cells, saved>>

\* "broken": the last reset failed.  No caller in the repository goes on with
\* such a state other than to reset it again or to destroy it.
Phases == {"absent", "idle", "staged", "executed", "broken"}

\* A token position of a request stands for the key and value row computed
\* for it; NoRow is what a fresh buffer holds.
NoRow == <<>>
Rows == (Requests \X (0 .. Capacity - 1)) \cup {NoRow}
OwnRows(r) == [q \in 0 .. Capacity - 1 |-> <<r, q>>]

Snapshots ==
  UNION {[length : {n}, rows : [0 .. n - 1 -> Rows]] : n \in 0 .. Capacity}
NoSnapshot == [length |-> 0, rows |-> [q \in 0 .. -1 |-> NoRow]]

Init ==
  /\ pool = NewPool
  /\ kv = [r \in Requests |-> NewState]
  /\ phase = [r \in Requests |-> "absent"]
  /\ target = [r \in Requests |-> 0]
  /\ cells = [slot \in Slots |-> NoRow]
  /\ saved = [r \in Requests |-> NoSnapshot]

MayAllocate == pool.allocations < MaxAllocations

Become(r, outcome, next) ==
  /\ pool' = outcome.pool
  /\ kv' = [kv EXCEPT ![r] = outcome.state]
  /\ phase' = [phase EXCEPT ![r] = next]

Create(r) ==
  /\ phase[r] = "absent"
  /\ Become(r, Outcome(pool, NewState, TRUE), "idle")
  /\ UNCHANGED <<target, cells, saved>>

\* The destructor also runs while a stage is pending: the serving loop throws.
Destroy(r) ==
  /\ phase[r] # "absent"
  /\ Become(r, Outcome(Destroyed(pool, kv[r]), NewState, TRUE), "absent")
  /\ target' = [target EXCEPT ![r] = 0]
  /\ saved' = [saved EXCEPT ![r] = NoSnapshot]
  /\ UNCHANGED cells

Stage(r, n, faults) ==
  LET outcome == StageLength(pool, kv[r], n, faults)
  IN  /\ phase[r] = "idle"
      /\ MayAllocate
      /\ n > kv[r].length
      /\ Become(r, outcome, IF outcome.ok THEN "staged" ELSE "idle")
      /\ target' = [target EXCEPT ![r] = IF outcome.ok THEN n ELSE @]
      /\ UNCHANGED <<cells, saved>>

\* The append kernels store the rows of the last target - length positions
\* before the valid length, through the device's table.
Appended(r) == kv[r].devLength - (target[r] - kv[r].length) .. kv[r].devLength - 1

Execute(r) ==
  /\ phase[r] \in {"staged", "executed"}
  /\ cells' = Store(cells, kv[r].devTable, Appended(r), OwnRows(r))
  /\ phase' = [phase EXCEPT ![r] = "executed"]
  /\ UNCHANGED <<pool, kv, target, saved>>

\* Mutant: the length is committed before the GPU has run.
CommitEarly(r) ==
  /\ phase[r] \in {"staged", "executed"}
  /\ kv' = [kv EXCEPT ![r] = CommitLength(@, target[r])]
  /\ phase' = [phase EXCEPT ![r] = "idle"]
  /\ target' = [target EXCEPT ![r] = 0]
  /\ UNCHANGED <<pool, cells, saved>>

Commit(r) ==
  /\ phase[r] = "executed"
  /\ kv' = [kv EXCEPT ![r] = CommitLength(@, target[r])]
  /\ phase' = [phase EXCEPT ![r] = "idle"]
  /\ target' = [target EXCEPT ![r] = 0]
  /\ UNCHANGED <<pool, cells, saved>>

\* The GPU failed, after storing some of the rows, or another request's
\* stage failed before the batch ran and no row was stored.
Rollback(r, stored, faults) ==
  /\ phase[r] \in {"staged", "executed"}
  /\ stored \subseteq Appended(r)
  /\ cells' = Store(cells, kv[r].devTable, stored, OwnRows(r))
  /\ Become(r, RollbackLength(pool, kv[r], kv[r].length, faults), "idle")
  /\ target' = [target EXCEPT ![r] = 0]
  /\ UNCHANGED saved

\* snapshotKVCache: the rows of the committed prefix, through the host table.
Snapshot(r) ==
  LET n == kv[r].length
  IN  /\ phase[r] = "idle"
      /\ n > 0
      /\ saved' = [saved EXCEPT ![r] =
                     [length |-> n, rows |-> ReadPrefix(cells, kv[r].table, n)]]
      /\ UNCHANGED <<pool, kv, phase, target, cells>>

ResetCache(r, faults) ==
  LET outcome == Reset(pool, kv[r], faults)
  IN  /\ phase[r] \in {"idle", "broken"}
      /\ Become(r, outcome, IF outcome.ok THEN "idle" ELSE "broken")
      /\ UNCHANGED <<target, cells, saved>>

\* Mutant: the prefix is written through the table read before staging.
RestoreStaleTable(r, written, faults, undoFaults) ==
  LET n       == saved[r].length
      outcome == Restore(pool, kv[r], n, faults, undoFaults)
  IN  /\ phase[r] = "idle" /\ n > 0 /\ kv[r].length = 0
      /\ MayAllocate
      /\ written = n
      /\ Become(r, outcome, "idle")
      /\ cells' = Store(cells, kv[r].table, 0 .. written - 1, saved[r].rows)
      /\ saved' = [saved EXCEPT ![r] = IF outcome.ok THEN NoSnapshot ELSE @]
      /\ UNCHANGED target

\* A restore that fails has stored the first "written" rows, if any, before
\* it rolls back to nothing; the snapshot is dropped only when it succeeds.
RestoreCache(r, written, faults, undoFaults) ==
  LET n       == saved[r].length
      staged  == StageLength(pool, kv[r], n, faults)
      outcome == Restore(pool, kv[r], n, faults, undoFaults)
  IN  /\ phase[r] = "idle"
      /\ MayAllocate
      /\ n > 0
      /\ kv[r].length = 0
      /\ written \in 0 .. n
      /\ outcome.ok => written = n
      /\ ~staged.ok => written = 0
      /\ Become(r, outcome, "idle")
      /\ cells' = Store(cells, staged.state.table, 0 .. written - 1, saved[r].rows)
      /\ saved' = [saved EXCEPT ![r] = IF outcome.ok THEN NoSnapshot ELSE @]
      /\ UNCHANGED target

\* The first device write to fail ends the call, but for the rewrite of the
\* table that follows a failed length write.
WriteFaults == {{}, {"table"}, {"length"}}
StageFaults == WriteFaults \cup {{"length", "rewrite"}}
RestoreFaults == StageFaults \cup {{"prefix"}}

Next ==
  \E r \in Requests :
    \/ Create(r)
    \/ Destroy(r)
    \/ \E n \in 1 .. Capacity + 1, faults \in StageFaults : Stage(r, n, faults)
    \/ Execute(r)
    \/ Commit(r)
    \/ \E stored \in SUBSET Appended(r), faults \in WriteFaults :
         Rollback(r, stored, faults)
    \/ Snapshot(r)
    \/ \E faults \in WriteFaults : ResetCache(r, faults)
    \/ \E written \in 0 .. Capacity, faults \in RestoreFaults,
          undoFaults \in WriteFaults :
         RestoreCache(r, written, faults, undoFaults)

Spec == Init /\ [][Next]_vars

----------------------------------------------------------------------------

TypeInvariant ==
  /\ pool \in [free : Seq(Pages), allocated : SUBSET Pages,
                allocations : Nat, releases : Nat, peak : Nat]
  /\ kv \in [Requests -> [table : Seq(Pages), length : 0 .. Capacity,
                          devTable : Seq(Pages), devLength : 0 .. Capacity]]
  /\ phase \in [Requests -> Phases]
  /\ target \in [Requests -> 0 .. Capacity]
  /\ cells \in [Slots -> Rows]
  /\ saved \in [Requests -> Snapshots]

Tables == [r \in Requests |-> kv[r].table]

\* Pages are isolated and never lost: each is once in the free list or once in
\* one request's table, whatever stage, rollback, reset or restore failed.
PagesPartitioned == PagesHeldOnce(pool, Tables)

\* The counters the serving loop compares when it ends describe the pool at
\* any moment, undone allocations included.
LifecycleBalanced == CountsBalance(pool)

\* A request holds exactly the pages of its committed length, or of the
\* length it has staged; after a failed reset it may hold none.
TableCoversLength ==
  \A r \in Requests :
    /\ phase[r] = "absent" => kv[r] = NewState
    /\ phase[r] = "idle" => Len(kv[r].table) = PagesFor(kv[r].length)
    /\ phase[r] \in {"staged", "executed"} =>
         kv[r].length < target[r] /\ Len(kv[r].table) = PagesFor(target[r])
    /\ phase[r] = "broken" => Len(kv[r].table) \in {0, PagesFor(kv[r].length)}

\* Whatever device writes failed before, a request whose stage succeeded runs
\* on the GPU with the table and the length the host holds.
DeviceSeesHost ==
  \A r \in Requests : phase[r] \in {"staged", "executed"} =>
    kv[r].devTable = kv[r].table /\ kv[r].devLength = target[r]

\* How many positions the attention kernels, or a snapshot, may read.
Valid(r) ==
  CASE phase[r] \in {"absent", "broken"} -> 0
    [] phase[r] = "executed"            -> target[r]
    [] OTHER                            -> kv[r].length

\* The committed prefix of a request holds the request's own rows in order,
\* and after a run so does the staged prefix the attention has read: no other
\* request's stores, rollbacks, resets or restores reach it.
PrefixIntact ==
  \A r \in Requests : \A q \in 0 .. Valid(r) - 1 :
    cells[SlotOf(kv[r].table, q)] = <<r, q>>

\* A copy on the host is a prefix of the request's own rows.
SnapshotIntact ==
  \A r \in Requests : \A q \in DOMAIN saved[r].rows : saved[r].rows[q] = <<r, q>>

\* A committed position stays in its slot as long as it is committed: no
\* stage, failed stage or rollback moves it to another page.
SlotsStable ==
  [][\A r \in Requests : \A q \in 0 .. Capacity - 1 :
       /\ q < kv[r].length /\ q < kv'[r].length
       /\ phase[r] # "broken" /\ phase'[r] # "broken"
       => SlotOf(kv'[r].table, q) = SlotOf(kv[r].table, q)]_vars

=============================================================================
