------------------------------ MODULE Journal ------------------------------
(***************************************************************************)
(* The sweep journal (apps/worker/src/keeper/journal.ts): it walks the     *)
(* program's finalized transactions and copies their sweep events into the *)
(* database, together with a cursor, a batch at a time.                    *)
(*                                                                         *)
(* A transaction is named by its place in the finalized chain, so that the *)
(* signatures between two of them are an interval.  A process that is told *)
(* to stop finishes its tick all the same, next to the one that replaces   *)
(* it: several journals may run on the same database.                      *)
(***************************************************************************)
EXTENDS Integers, Sequences

CONSTANTS
  Journals,         \* processes that run the journal
  PAGE_SIZE,        \* signatures listed per call
  BATCH_SIZE,       \* transactions recorded together
  Transactions,     \* what a transaction may be: [failed, events]
  MAX_CHAIN,        \* bounds the chain
  MAX_FAILURES      \* bounds how often a tick fails

ASSUME JournalAssumption ==
  /\ PAGE_SIZE \in Nat \ {0}
  /\ BATCH_SIZE \in Nat \ {0}
  /\ \A tx \in Transactions : tx.failed \in BOOLEAN /\ tx.events \in Nat
  /\ MAX_CHAIN \in Nat
  /\ MAX_FAILURES \in Nat

VARIABLES
  chain,        \* the program's finalized transactions, oldest first
  rows,         \* the sweep_events table: (transaction, event index) is its key
  cursor,       \* the last transaction recorded; 0 before the first
  ticks,        \* what each process holds in memory
  running,      \* the processes that schedule another tick
  failures      \* ticks that failed so far

vars == <<chain, rows, cursor, ticks, running, failures>>

(***************************************************************************)
(* A tick first lists the transactions after `until`, from the newest down *)
(* to `before` (0 until the first page came), then reads and records them  *)
(* oldest first: those up to `done` are recorded, those up to `read` read. *)
(***************************************************************************)
TickType ==
  [ phase  : {"idle", "listing", "reading"},
    until  : Nat,
    before : Nat,
    newest : Nat,
    done   : Nat,
    read   : Nat,
    events : SUBSET (Nat \X Nat) ]

Idle ==
  [ phase |-> "idle", until |-> 0, before |-> 0, newest |-> 0, done |-> 0,
    read |-> 0, events |-> {} ]

TypeOK ==
  /\ chain \in Seq(Transactions)
  /\ rows \subseteq Nat \X Nat
  /\ cursor \in 0..Len(chain)
  /\ ticks \in [Journals -> TickType]
  /\ running \subseteq Journals
  /\ failures \in Nat

\* rowsOf: a failed transaction has no events.
RowsOf(p, tx) == {<<p, i>> : i \in 1..(IF tx.failed THEN 0 ELSE tx.events)}

Init ==
  /\ chain = <<>>
  /\ rows = {}
  /\ cursor = 0
  /\ ticks = [j \in Journals |-> Idle]
  /\ running = Journals
  /\ failures = 0

Finalize(tx) ==
  /\ Len(chain) < MAX_CHAIN
  /\ chain' = Append(chain, tx)
  /\ UNCHANGED <<rows, cursor, ticks, running, failures>>

\* runKeeper starts the next tick when the last one has ended; store.cursor().
StartTick(j) ==
  /\ j \in running
  /\ ticks[j].phase = "idle"
  /\ ticks' = [ticks EXCEPT ![j] =
                 [Idle EXCEPT !.phase = "listing", !.until = cursor]]
  /\ UNCHANGED <<chain, rows, cursor, running, failures>>

\* The newest transaction the next page may hold, and the oldest it does.
PageTop(t) == IF t.before = 0 THEN Len(chain) ELSE t.before - 1

PageBottom(t) ==
  IF PageTop(t) - PAGE_SIZE >= t.until THEN PageTop(t) - PAGE_SIZE + 1
                                       ELSE t.until + 1

\* Slip: any page is taken for the last one.
LastPageAlways(t) == TRUE

\* Slip: the loop goes on after a page that is not full.
LastPageNever(t) == FALSE

LastPage(t) == PageTop(t) - PageBottom(t) + 1 < PAGE_SIZE

\* One call of landedSince's loop; an empty listing ends the tick.
ReadPage(j) ==
  LET t      == ticks[j]
      newest == IF t.before = 0 THEN Len(chain) ELSE t.newest
      bottom == PageBottom(t)
  IN  /\ t.phase = "listing"
      /\ ticks' = [ticks EXCEPT ![j] =
           IF ~LastPage(t)
             THEN [t EXCEPT !.before = bottom, !.newest = newest]
             ELSE IF bottom <= newest
                    THEN [t EXCEPT !.phase = "reading", !.before = bottom,
                                   !.newest = newest, !.done = bottom - 1,
                                   !.read = bottom - 1]
                    ELSE Idle]
      /\ UNCHANGED <<chain, rows, cursor, running, failures>>

BatchEnd(t) ==
  IF t.done + BATCH_SIZE <= t.newest THEN t.done + BATCH_SIZE ELSE t.newest

\* eventsOf on the next transaction of the batch.
ReadTransaction(j) ==
  LET t    == ticks[j]
      next == t.read + 1
  IN  /\ t.phase = "reading"
      /\ t.read < BatchEnd(t)
      /\ ticks' = [ticks EXCEPT ![j] =
                     [t EXCEPT !.read = next,
                               !.events = @ \union RowsOf(next, chain[next])]]
      /\ UNCHANGED <<chain, rows, cursor, running, failures>>

\* Slip: the cursor is moved to the end of the listing, not of the batch.
CursorAfterListing(t) == t.newest

\* Slip: the cursor is moved to the transaction that follows the batch.
CursorPastBatch(t) == t.read + 1

CursorAfter(t) == t.read

\* Rows whose key is taken are left as they are (onConflictDoNothing).
Recorded(t) == rows \union t.events

\* store.record: the events of a batch and the cursor in one database transaction.
RecordBatch(j) ==
  LET t == ticks[j]
  IN  /\ t.phase = "reading"
      /\ t.read = BatchEnd(t)
      /\ rows' = Recorded(t)
      /\ cursor' = CursorAfter(t)
      /\ ticks' = [ticks EXCEPT ![j] =
                     IF t.read < t.newest
                       THEN [t EXCEPT !.done = t.read, !.events = {}]
                       ELSE Idle]
      /\ UNCHANGED <<chain, running, failures>>

(***************************************************************************)
(* Whatever ends a tick early: the node fails, or lists a transaction and  *)
(* does not return it; the database fails, before or after it committed;   *)
(* the process crashes and is restarted.  All that was read is lost.       *)
(***************************************************************************)
Fail(j) ==
  /\ ticks[j].phase # "idle"
  /\ failures < MAX_FAILURES
  /\ failures' = failures + 1
  /\ ticks' = [ticks EXCEPT ![j] = Idle]
  /\ UNCHANGED <<chain, rows, cursor, running>>

\* stop(): no other tick is scheduled, the one under way goes on.
Stop(j) ==
  /\ j \in running
  /\ running \ {j} # {}       \* another process has taken over
  /\ running' = running \ {j}
  /\ UNCHANGED <<chain, rows, cursor, ticks, failures>>

Step(j) == StartTick(j) \/ ReadPage(j) \/ ReadTransaction(j) \/ RecordBatch(j)

Next ==
  \/ \E tx \in Transactions : Finalize(tx)
  \/ \E j \in Journals : Step(j) \/ Fail(j) \/ Stop(j)

\* A process goes on unless it fails: its timer fires and its calls return.
Spec == Init /\ [][Next]_vars /\ \A j \in Journals : WF_vars(Step(j))

-----------------------------------------------------------------------------
\* All events of the transactions up to the n-th.
EventsUpTo(n) == UNION {RowsOf(p, chain[p]) : p \in 1..n}

\* FR-016: the cursor is never past an event that is not in the journal, so that
\* no crash, failure or second process makes the next tick start after one.
CursorCovered == EventsUpTo(cursor) \subseteq rows

\* FR-016: the journal is at all times a gapless history: exactly the events of
\* the transactions up to some point, whichever process recorded them.
JournalIsPrefix == \E n \in 0..Len(chain) : rows = EventsUpTo(n)

\* FR-016: every event of a finalized transaction comes to be in the journal, if
\* ticks do not go on failing for ever.
EveryEventRecorded ==
  \A p \in 1..MAX_CHAIN :
    (p <= Len(chain)) ~> (p <= Len(chain) /\ RowsOf(p, chain[p]) \subseteq rows)
=============================================================================
