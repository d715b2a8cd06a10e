------------------------------ MODULE PagedKV ------------------------------
(***************************************************************************)
(* The paged key/value cache of src/src/runtime/KVCacheState.cpp as        *)
(* operators on values, so that a specification may keep one pool or one   *)
(* per decoder layer:                                                      *)
(*                                                                         *)
(*   pool   KVPagePool: the stack freePages_, the flags allocated_ (the    *)
(*          set of the pages whose flag is true) and the counters          *)
(*          allocationCount_, releaseCount_, peakUsedPages_;               *)
(*   state  KVCacheState of one request in one layer: the nonnegative      *)
(*          prefix of logicalToPhysical_ (table), currentLength_ (length)  *)
(*          and what its two device buffers hold (devTable, devLength).    *)
(*                                                                         *)
(* An operation returns an outcome [pool, state, ok]; ok is FALSE when the *)
(* code returns an error or throws.  "faults" names the device writes that *)
(* fail in this call.                                                      *)
(***************************************************************************)
EXTENDS Integers, Sequences

CONSTANTS
  PageSize,    \* tokens per page
  Capacity,    \* plan_.capacity: the most tokens a request may hold
  PoolPages    \* physical pages of a pool

\* A pool is created with a nonzero page size not above the capacity and
\* with a page at least; a request's table must fit in it.
ASSUME PagedKVAssumption ==
  /\ PageSize \in Nat \ {0}
  /\ Capacity \in Nat \ {0}
  /\ PoolPages \in Nat \ {0}
  /\ PageSize <= Capacity

Pages == 0 .. PoolPages - 1

PagesFor(length) == (length + PageSize - 1) \div PageSize

MaxOf(a, b) == IF a >= b THEN a ELSE b

----------------------------------------------------------------------------
(* The pool.                                                               *)

NewPool ==
  [free        |-> [i \in 1 .. PoolPages |-> i - 1],
   allocated   |-> {},
   allocations |-> 0,
   releases    |-> 0,
   peak        |-> 0]

UsedPages(pool) == PoolPages - Len(pool.free)

AvailablePages(pool) == Len(pool.free)

\* Both loops of resizePageAllocation move pages one by one from the end of
\* one stack to the end of the other.
Dropped(stack, count) == SubSeq(stack, 1, Len(stack) - count)

Transferred(from, to, count) ==
  [i \in 1 .. Len(to) + count |->
     IF i <= Len(to) THEN to[i] ELSE from[Len(from) + 1 - (i - Len(to))]]

Top(stack, count) ==
  {stack[i] : i \in Len(stack) - count + 1 .. Len(stack)}

\* Mutant: the peak is taken before the page leaves the free list.
AllocatePagesStalePeak(pool, count) ==
  [free        |-> Dropped(pool.free, count),
   allocated   |-> pool.allocated \cup Top(pool.free, count),
   allocations |-> pool.allocations + count,
   releases    |-> pool.releases,
   peak        |-> MaxOf(pool.peak, UsedPages(pool))]

\* count calls of allocatePage, none of which finds the free list empty.
AllocatePages(pool, count) ==
  [free        |-> Dropped(pool.free, count),
   allocated   |-> pool.allocated \cup Top(pool.free, count),
   allocations |-> pool.allocations + count,
   releases    |-> pool.releases,
   peak        |-> MaxOf(pool.peak, UsedPages(pool) + count)]

\* releasePage on the last count entries of a table, from the end.  Its check
\* that each page is allocated never fires: see PagesHeldOnce below.
ReleasePages(pool, table, count) ==
  [pool EXCEPT !.free      = Transferred(table, @, count),
               !.allocated = @ \ Top(table, count),
               !.releases  = @ + count]

\* Mutant: a growth that fails forgets the pages it took.
ResizeLosesPages(pool, table, pages) ==
  LET grow == pages - Len(table)
  IN  IF grow > Len(pool.free)
      THEN [pool  |-> AllocatePages(pool, Len(pool.free)),
            table |-> table,
            ok    |-> FALSE]
      ELSE IF grow > 0
      THEN [pool  |-> AllocatePages(pool, grow),
            table |-> Transferred(pool.free, table, grow),
            ok    |-> TRUE]
      ELSE [pool  |-> ReleasePages(pool, table, -grow),
            table |-> Dropped(table, -grow),
            ok    |-> TRUE]

\* Mutant: shrinking drops the first entries of the table, not the last.
ResizeDropsFront(pool, table, pages) ==
  LET grow  == pages - Len(table)
      front == SubSeq(table, 1, -grow)
  IN  IF grow > Len(pool.free)
      THEN [pool |-> pool, table |-> table, ok |-> FALSE]
      ELSE IF grow > 0
      THEN [pool  |-> AllocatePages(pool, grow),
            table |-> Transferred(pool.free, table, grow),
            ok    |-> TRUE]
      ELSE [pool  |-> ReleasePages(pool, front, -grow),
            table |-> SubSeq(table, 1 - grow, Len(table)),
            ok    |-> TRUE]

\* Growing takes every free page before it finds the list empty, and gives
\* them back in the opposite order: the stack is as before, the counters are
\* not.
ResizePageAllocation(pool, table, pages) ==
  LET grow == pages - Len(table)
      all  == Len(pool.free)
  IN  IF grow > all
      THEN [pool  |-> [pool EXCEPT !.allocations = @ + all,
                                   !.releases    = @ + all,
                                   !.peak        = MaxOf(@, PoolPages)],
            table |-> table,
            ok    |-> FALSE]
      ELSE IF grow > 0
      THEN [pool  |-> AllocatePages(pool, grow),
            table |-> Transferred(pool.free, table, grow),
            ok    |-> TRUE]
      ELSE [pool  |-> ReleasePages(pool, table, -grow),
            table |-> Dropped(table, -grow),
            ok    |-> TRUE]

----------------------------------------------------------------------------
(* The state of one request.                                               *)

NewState == [table |-> <<>>, length |-> 0, devTable |-> <<>>, devLength |-> 0]

Outcome(pool, state, ok) == [pool |-> pool, state |-> state, ok |-> ok]

\* Mutant: a failed length write does not give the new pages back.
StageKeepsPages(pool, state, n, faults) ==
  LET grown == ResizePageAllocation(pool, state.table, PagesFor(n))
      taken == [state EXCEPT !.table = grown.table, !.devTable = grown.table]
  IN  IF n = 0 \/ n > Capacity \/ "table" \in faults
      THEN Outcome(pool, state, FALSE)
      ELSE IF ~grown.ok THEN Outcome(grown.pool, state, FALSE)
      ELSE IF "length" \in faults THEN Outcome(grown.pool, taken, FALSE)
      ELSE Outcome(grown.pool, [taken EXCEPT !.devLength = n], TRUE)

\* Mutant: the device table is written only when the request takes a page.
StageWritesOnGrowth(pool, state, n, faults) ==
  LET grown == ResizePageAllocation(pool, state.table, PagesFor(n))
  IN  IF n = 0 \/ n > Capacity \/ faults # {} THEN Outcome(pool, state, FALSE)
      ELSE IF ~grown.ok THEN Outcome(grown.pool, state, FALSE)
      ELSE Outcome(grown.pool,
                   [state EXCEPT !.table = grown.table,
                                 !.devTable = IF grown.table = state.table
                                              THEN @ ELSE grown.table,
                                 !.devLength = n],
                   TRUE)

\* Write the table, then the length; each failure gives back the pages this
\* call took, and the second rewrites the table (that write may fail too).
StageLength(pool, state, n, faults) ==
  LET grown  == ResizePageAllocation(pool, state.table, PagesFor(n))
      undone == ResizePageAllocation(grown.pool, grown.table, Len(state.table))
      seen   == IF "table" \in faults THEN state.devTable
                ELSE IF "rewrite" \in faults THEN grown.table
                ELSE undone.table
  IN  IF n = 0 \/ n > Capacity THEN Outcome(pool, state, FALSE)
      ELSE IF ~grown.ok THEN Outcome(grown.pool, state, FALSE)
      ELSE IF faults \cap {"table", "length"} # {}
      THEN Outcome(undone.pool,
                   [state EXCEPT !.table = undone.table, !.devTable = seen],
                   FALSE)
      ELSE Outcome(grown.pool,
                   [state EXCEPT !.table = grown.table,
                                 !.devTable = grown.table,
                                 !.devLength = n],
                   TRUE)

\* currentLength_ is not touched: staging never moved it.
RollbackLength(pool, state, n, faults) ==
  LET resized == ResizePageAllocation(pool, state.table, PagesFor(n))
      tabled  == [state EXCEPT !.table = resized.table,
                               !.devTable = resized.table]
  IN  IF n > Capacity THEN Outcome(pool, state, FALSE)
      ELSE IF ~resized.ok THEN Outcome(resized.pool, state, FALSE)
      ELSE IF "table" \in faults
      THEN Outcome(resized.pool, [state EXCEPT !.table = resized.table], FALSE)
      ELSE IF "length" \in faults THEN Outcome(resized.pool, tabled, FALSE)
      ELSE Outcome(resized.pool, [tabled EXCEPT !.devLength = n], TRUE)

CommitLength(state, n) == [state EXCEPT !.length = n]

\* The length is written first and currentLength_ cleared last: a failure
\* in between has released the pages and kept the old length.
Reset(pool, state, faults) ==
  LET emptied == ResizePageAllocation(pool, state.table, 0)
  IN  IF "length" \in faults THEN Outcome(pool, state, FALSE)
      ELSE IF "table" \in faults
      THEN Outcome(emptied.pool,
                   [state EXCEPT !.table = emptied.table, !.devLength = 0],
                   FALSE)
      ELSE Outcome(emptied.pool, NewState, TRUE)

\* Stage, write both prefixes, commit; any failure rolls back to nothing.
Restore(pool, state, n, faults, undoFaults) ==
  LET staged == StageLength(pool, state, n, faults)
      rolled == RollbackLength(staged.pool, staged.state, 0, undoFaults)
  IN  IF state.length # 0 \/ n = 0 \/ n > Capacity
      THEN Outcome(pool, state, FALSE)
      ELSE IF staged.ok /\ "prefix" \notin faults
      THEN Outcome(staged.pool, CommitLength(staged.state, n), TRUE)
      ELSE Outcome(rolled.pool, rolled.state, FALSE)

\* The destructor releases in table order.
Destroyed(pool, state) ==
  [pool EXCEPT !.free      = @ \o state.table,
               !.allocated = @ \ {state.table[i] : i \in DOMAIN state.table},
               !.releases  = @ + Len(state.table)]

----------------------------------------------------------------------------
(* Where a token position lives: the slots of a pool's key and value       *)
(* buffers are pairs of a page and an offset in it.                        *)

Slots == Pages \X (0 .. PageSize - 1)

Mapped(table, position) == position \div PageSize < Len(table)

SlotOf(table, position) ==
  <<table[position \div PageSize + 1], position % PageSize>>

\* A kernel, or writePagedPrefix, stores content[q] at each position q of
\* the set through a table; a position without a page is skipped.
Store(cells, table, positions, content) ==
  [slot \in Slots |->
     IF \E q \in positions : Mapped(table, q) /\ SlotOf(table, q) = slot
     THEN content[CHOOSE q \in positions :
                    Mapped(table, q) /\ SlotOf(table, q) = slot]
     ELSE cells[slot]]

\* readPrefix: what the first n positions hold.
ReadPrefix(cells, table, n) ==
  [q \in 0 .. n - 1 |-> cells[SlotOf(table, q)]]

----------------------------------------------------------------------------
(* What the operations above must keep for a pool and the tables of the    *)
(* states that share it.                                                   *)

\* Every physical page is at exactly one place, once in the free list or once
\* in one table, and the flags that guard releasePage agree.
PagesHeldOnce(pool, tables) ==
  LET free   == pool.free
      owners == DOMAIN tables
  IN  /\ \A i, j \in 1 .. Len(free) : free[i] = free[j] => i = j
      /\ \A a, b \in owners :
           \A i \in 1 .. Len(tables[a]), j \in 1 .. Len(tables[b]) :
             tables[a][i] = tables[b][j] => a = b /\ i = j
      /\ \A a \in owners :
           \A i \in 1 .. Len(tables[a]), j \in 1 .. Len(free) :
             tables[a][i] # free[j]
      /\ \A p \in Pages :
           \/ \E j \in 1 .. Len(free) : free[j] = p
           \/ \E a \in owners : \E i \in 1 .. Len(tables[a]) : tables[a][i] = p
      /\ pool.allocated = Pages \ {free[j] : j \in 1 .. Len(free)}

\* The pages in use are those allocated and not released, and never were more
\* than the recorded peak, which is within the pool.
CountsBalance(pool) ==
  /\ pool.allocations - pool.releases = UsedPages(pool)
  /\ UsedPages(pool) <= pool.peak
  /\ pool.peak <= PoolPages

=============================================================================
