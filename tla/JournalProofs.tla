--------------------------- MODULE JournalProofs ---------------------------
(***************************************************************************)
(* What the workers of the keeper promise, on any number of processes: the *)
(* sweep journal has no gap and its cursor is never ahead of it, whatever  *)
(* the pages, the batches and the chain; and the sweeps withhold nothing   *)
(* twice.  What the other programs that send transactions promise: the     *)
(* seed scripts fill devnet with what they say.  And what an operator is   *)
(* shown of the journal: each event once, and skips in a row as one.       *)
(***************************************************************************)
EXTENDS Journal, ProgramLemmas, SequenceTheorems

\* A listing starts where the cursor stood and goes down from a fixed end.
ListingInv(t) ==
  /\ t.until <= Len(chain)
  /\ EventsUpTo(t.until) \subseteq rows
  /\ t.before # 0 => t.until < t.before /\ t.before <= t.newest
  /\ t.newest <= Len(chain)
  /\ t.events = {}

\* The events in memory are those between what was recorded and what was read.
ReadingInv(t) ==
  /\ t.done <= t.read
  /\ t.read <= t.newest
  /\ t.newest <= Len(chain)
  /\ EventsUpTo(t.done) \subseteq rows
  /\ t.events = UNION {RowsOf(p, chain[p]) : p \in (t.done + 1)..t.read}

TickInv(t) ==
  /\ t.phase = "listing" => ListingInv(t)
  /\ t.phase = "reading" => ReadingInv(t)

JournalInv ==
  /\ TypeOK
  /\ CursorCovered
  /\ JournalIsPrefix
  /\ \A j \in Journals : TickInv(ticks[j])

-----------------------------------------------------------------------------
\* The events of a transaction are rows of the table.
LEMMA RowsOfType ==
  ASSUME NEW p \in Nat, NEW tx \in Transactions
  PROVE  RowsOf(p, tx) \subseteq Nat \X Nat
BY JournalAssumption DEF RowsOf

\* An event is among those up to n if one of the first n transactions left it.
LEMMA EventsUpToMember ==
  ASSUME NEW n \in Nat, NEW e
  PROVE  e \in EventsUpTo(n) <=> \E p \in 1..n : e \in RowsOf(p, chain[p])
BY DEF EventsUpTo

\* A batch read after the first a transactions completes them to the first b.
LEMMA EventsJoin ==
  ASSUME NEW a \in Nat, NEW b \in Nat, a <= b
  PROVE  EventsUpTo(b)
           = EventsUpTo(a) \union UNION {RowsOf(p, chain[p]) : p \in (a + 1)..b}
<1> DEFINE batch == UNION {RowsOf(p, chain[p]) : p \in (a + 1)..b}
<1>1. ASSUME NEW e
      PROVE  e \in batch <=> \E p \in (a + 1)..b : e \in RowsOf(p, chain[p])
  OBVIOUS
<1> HIDE DEF batch
<1>2. \A p : p \in 1..b <=> p \in 1..a \/ p \in (a + 1)..b
  OBVIOUS
<1>3. ASSUME NEW e
      PROVE  e \in EventsUpTo(b) <=> e \in EventsUpTo(a) \/ e \in batch
  BY <1>1, <1>2, EventsUpToMember, Zenon
<1>4. QED
  BY <1>3, Zenon DEF batch

\* Finalized history does not change: neither do the events of its transactions.
LEMMA EventsOfPrefix ==
  ASSUME NEW n \in 0..Len(chain), chain \in Seq(Transactions),
         NEW tx \in Transactions, chain' = Append(chain, tx)
  PROVE  EventsUpTo(n)' = EventsUpTo(n)
<1>1. \A p \in 1..n : chain'[p] = chain[p]
  OBVIOUS
<1>2. QED
  BY <1>1 DEF EventsUpTo

-----------------------------------------------------------------------------
\* An empty table, and no process has started.
LEMMA InitInv == Init => JournalInv
<1> SUFFICES ASSUME Init PROVE JournalInv
  OBVIOUS
<1>1. TypeOK
  BY DEF Init, TypeOK, Idle, TickType
<1>2. EventsUpTo(0) = {}
  BY DEF EventsUpTo
<1>3. QED
  BY <1>1, <1>2
     DEF Init, JournalInv, CursorCovered, JournalIsPrefix, TickInv, Idle
\* A new transaction is after all that was listed, read or recorded.
LEMMA FinalizeInv ==
  ASSUME JournalInv, NEW tx \in Transactions, Finalize(tx)
  PROVE  JournalInv'
<1>1. /\ chain \in Seq(Transactions) /\ chain' = Append(chain, tx)
      /\ Len(chain') = Len(chain) + 1 /\ Len(chain) \in Nat
      /\ cursor \in 0..Len(chain) /\ ticks \in [Journals -> TickType]
      /\ UNCHANGED <<rows, cursor, ticks, running, failures>>
  BY DEF JournalInv, TypeOK, Finalize
<1>2. TypeOK'
  BY <1>1 DEF JournalInv, TypeOK
<1>3. \A n \in 0..Len(chain) : EventsUpTo(n)' = EventsUpTo(n)
  BY <1>1, EventsOfPrefix
<1>4. CursorCovered'
  BY <1>1, <1>3 DEF JournalInv, CursorCovered
<1>5. JournalIsPrefix'
  BY <1>1, <1>3 DEF JournalInv, JournalIsPrefix
<1>6. ASSUME NEW j \in Journals PROVE TickInv(ticks[j])'
  <2> DEFINE t == ticks[j]
  <2>1. TickInv(t) /\ t \in TickType /\ t' = t
    BY <1>1 DEF JournalInv
  <2>2. CASE t.phase = "listing"
    BY <1>1, <1>3, <2>1, <2>2 DEF TickInv, ListingInv, TickType
  <2>3. CASE t.phase = "reading"
    <3>1. \A p \in (t.done + 1)..t.read : chain'[p] = chain[p]
      BY <1>1, <2>1, <2>3 DEF TickInv, ReadingInv, TickType
    <3>2. t.done \in 0..Len(chain)
      BY <1>1, <2>1, <2>3 DEF TickInv, ReadingInv, TickType
    <3>3. UNION {RowsOf(p, chain'[p]) : p \in (t.done + 1)..t.read}
            = UNION {RowsOf(p, chain[p]) : p \in (t.done + 1)..t.read}
      BY <3>1
    <3>4. QED
      BY SMTT(40), <1>1, <1>3, <2>1, <2>3, <3>2, <3>3 DEF TickInv, ReadingInv, TickType
  <2>4. QED
    BY <2>1, <2>2, <2>3 DEF TickInv
<1>7. QED
  BY <1>2, <1>4, <1>5, <1>6 DEF JournalInv

\* A step that only changes what one process holds.
LEMMA LocalStepInv ==
  ASSUME JournalInv, NEW j \in Journals, NEW t \in TickType, TickInv(t),
         ticks' = [ticks EXCEPT ![j] = t], running' \subseteq Journals,
         failures' \in Nat, UNCHANGED <<chain, rows, cursor>>
  PROVE  JournalInv'
<1>1. TypeOK'
  BY DEF JournalInv, TypeOK
<1>2. CursorCovered' /\ JournalIsPrefix'
  BY DEF JournalInv, CursorCovered, JournalIsPrefix, EventsUpTo
<1>3. ASSUME NEW i \in Journals PROVE TickInv(ticks[i])'
  <2>1. ticks'[i] = ticks[i] \/ ticks'[i] = t
    BY DEF JournalInv, TypeOK
  <2>2. TickInv(ticks[i])
    BY DEF JournalInv
  <2>3. QED
    BY <2>1, <2>2 DEF TickInv, ListingInv, ReadingInv, EventsUpTo
<1>4. QED
  BY <1>1, <1>2, <1>3 DEF JournalInv

\* A process that holds nothing relies on nothing.
LEMMA IdleFacts == Idle \in TickType /\ TickInv(Idle)
BY DEF Idle, TickType, TickInv

\* A tick starts from the cursor, which is covered.
LEMMA StartTickInv ==
  ASSUME JournalInv, NEW j \in Journals, StartTick(j)
  PROVE  JournalInv'
<1> DEFINE t == [Idle EXCEPT !.phase = "listing", !.until = cursor]
<1>1. cursor \in Nat /\ cursor <= Len(chain) /\ Len(chain) \in Nat
  BY DEF JournalInv, TypeOK
<1>2. t \in TickType /\ TickInv(t)
  <2>1. t \in TickType
    BY <1>1 DEF Idle, TickType
  <2>2. /\ t.phase = "listing" /\ t.until = cursor
        /\ t.before = 0 /\ t.newest = 0 /\ t.events = {}
    BY DEF Idle
  <2> HIDE DEF t
  <2>3. QED
    BY <1>1, <2>1, <2>2 DEF JournalInv, CursorCovered, TickInv, ListingInv
<1>3. /\ ticks' = [ticks EXCEPT ![j] = t] /\ running' \subseteq Journals
      /\ failures' \in Nat /\ UNCHANGED <<chain, rows, cursor>>
  BY DEF StartTick, JournalInv, TypeOK
<1>4. QED
  BY <1>2, <1>3, LocalStepInv

\* A failed tick leaves the table and the cursor as they are.
LEMMA FailInv ==
  ASSUME JournalInv, NEW j \in Journals, Fail(j)
  PROVE  JournalInv'
<1>1. /\ ticks' = [ticks EXCEPT ![j] = Idle] /\ running' \subseteq Journals
      /\ failures' \in Nat /\ UNCHANGED <<chain, rows, cursor>>
  BY DEF Fail, JournalInv, TypeOK
<1>2. QED
  BY <1>1, IdleFacts, LocalStepInv

\* Stopping changes what is scheduled, not what is under way.
LEMMA StopInv ==
  ASSUME JournalInv, NEW j \in Journals, Stop(j)
  PROVE  JournalInv'
<1>1. ticks[j] \in TickType /\ TickInv(ticks[j])
  BY DEF JournalInv, TypeOK
<1>2. /\ ticks' = [ticks EXCEPT ![j] = ticks[j]] /\ running' \subseteq Journals
      /\ failures' \in Nat /\ UNCHANGED <<chain, rows, cursor>>
  BY DEF Stop, JournalInv, TypeOK
<1>3. QED
  BY <1>1, <1>2, LocalStepInv

\* A page is the listing's next interval; the last one ends it at the cursor.
LEMMA ReadPageInv ==
  ASSUME JournalInv, NEW j \in Journals, ReadPage(j)
  PROVE  JournalInv'
<1> DEFINE t      == ticks[j]
           newest == IF t.before = 0 THEN Len(chain) ELSE t.newest
           bottom == PageBottom(t)
           more   == [t EXCEPT !.before = bottom, !.newest = newest]
           read   == [t EXCEPT !.phase = "reading", !.before = bottom,
                               !.newest = newest, !.done = bottom - 1,
                               !.read = bottom - 1]
<1> USE JournalAssumption
<1>1. /\ t \in TickType /\ t.phase = "listing" /\ ListingInv(t)
      /\ Len(chain) \in Nat
  BY DEF JournalInv, TypeOK, ReadPage, TickInv
<1>2. /\ t.until \in Nat /\ t.before \in Nat /\ t.newest \in Nat
      /\ t.events \in SUBSET (Nat \X Nat)
  BY <1>1 DEF TickType
<1>3. newest \in Nat /\ newest <= Len(chain)
  BY <1>1, <1>2 DEF ListingInv
<1>4. PageTop(t) \in Nat /\ t.until <= PageTop(t) /\ PageTop(t) <= newest
  BY <1>1, <1>2 DEF PageTop, ListingInv
<1>5. /\ bottom \in Nat /\ t.until < bottom /\ bottom <= PageTop(t) + 1
      /\ LastPage(t) => bottom = t.until + 1
      /\ ~LastPage(t) => bottom <= PageTop(t)
  BY SMTT(40), <1>2, <1>4 DEF PageBottom, LastPage
<1>6. /\ ticks' = [ticks EXCEPT ![j] =
                      IF ~LastPage(t) THEN more
                                      ELSE IF bottom <= newest THEN read ELSE Idle]
      /\ running' \subseteq Journals /\ failures' \in Nat
      /\ UNCHANGED <<chain, rows, cursor>>
  BY DEF ReadPage, JournalInv, TypeOK
<1>7. ASSUME ~LastPage(t) PROVE more \in TickType /\ TickInv(more)
  <2>1. more \in TickType
    BY <1>1, <1>3, <1>5 DEF TickType
  <2>2. /\ more.phase = "listing" /\ more.until = t.until
        /\ more.before = bottom /\ more.newest = newest /\ more.events = t.events
    BY <1>1 DEF TickType
  <2> HIDE DEF more, bottom, newest, t
  <2>3. QED
    BY <1>1, <1>2, <1>3, <1>4, <1>5, <1>7, <2>1, <2>2 DEF TickInv, ListingInv
<1>8. ASSUME LastPage(t), bottom <= newest
      PROVE  read \in TickType /\ TickInv(read)
  <2>1. bottom - 1 = t.until
    BY <1>2, <1>5, <1>8
  <2>2. read \in TickType
    BY <1>1, <1>2, <1>3, <1>5, <2>1 DEF TickType
  <2>3. /\ read.phase = "reading" /\ read.newest = newest
        /\ read.done = t.until /\ read.read = t.until /\ read.events = t.events
    BY <1>1, <2>1 DEF TickType
  <2> HIDE DEF read, bottom, newest, t
  <2>4. t.events = {}
    BY <1>1 DEF ListingInv
  <2>5. {RowsOf(p, chain[p]) : p \in (t.until + 1)..t.until} = {}
    BY <1>2
  <2>6. QED
    BY <1>1, <1>2, <1>3, <1>4, <2>2, <2>3, <2>4, <2>5
       DEF TickInv, ListingInv, ReadingInv
<1>9. QED
  <2> HIDE DEF more, read, bottom, newest, t
  <2>1. CASE ~LastPage(t)
    BY <1>6, <1>7, <2>1, LocalStepInv
  <2>2. CASE LastPage(t) /\ bottom <= newest
    BY <1>6, <1>8, <2>2, LocalStepInv
  <2>3. CASE LastPage(t) /\ ~(bottom <= newest)
    BY <1>6, <2>3, IdleFacts, LocalStepInv
  <2>4. QED
    BY <2>1, <2>2, <2>3

\* The events of one more transaction of the batch are held.
LEMMA ReadTransactionInv ==
  ASSUME JournalInv, NEW j \in Journals, ReadTransaction(j)
  PROVE  JournalInv'
<1> DEFINE t    == ticks[j]
           next == t.read + 1
           new  == RowsOf(next, chain[next])
           r    == [t EXCEPT !.read = next, !.events = t.events \union new]
<1>1. /\ t \in TickType /\ t.phase = "reading" /\ ReadingInv(t)
      /\ chain \in Seq(Transactions) /\ Len(chain) \in Nat
      /\ t.read < BatchEnd(t)
  BY DEF JournalInv, TypeOK, ReadTransaction, TickInv
<1>2. /\ t.done \in Nat /\ t.read \in Nat /\ t.newest \in Nat
      /\ t.events \in SUBSET (Nat \X Nat)
  BY <1>1 DEF TickType
<1>3. next \in Nat /\ next <= t.newest /\ next \in 1..Len(chain)
  BY SMTT(40), <1>1, <1>2, JournalAssumption DEF BatchEnd, ReadingInv
<1>4. new \subseteq Nat \X Nat
  BY <1>1, <1>3, RowsOfType
<1>5. /\ r.phase = "reading" /\ r.newest = t.newest /\ r.done = t.done
      /\ r.read = next /\ r.events = t.events \union new
  BY <1>1 DEF TickType
<1>6. r \in TickType
  <2> HIDE DEF next, new
  <2>1. QED
    BY <1>1, <1>2, <1>3, <1>4 DEF TickType
<1>7. /\ ticks' = [ticks EXCEPT ![j] = r] /\ running' \subseteq Journals
      /\ failures' \in Nat /\ UNCHANGED <<chain, rows, cursor>>
  BY DEF ReadTransaction, JournalInv, TypeOK
<1>8. t.events \union new
        = UNION {RowsOf(p, chain[p]) : p \in (t.done + 1)..next}
  <2>1. (t.done + 1)..next = ((t.done + 1)..t.read) \union {next}
    BY <1>1, <1>2 DEF ReadingInv
  <2>2. t.events = UNION {RowsOf(p, chain[p]) : p \in (t.done + 1)..t.read}
    BY <1>1 DEF ReadingInv
  <2> HIDE DEF next, t
  <2>3. QED
    BY <2>1, <2>2
<1>9. TickInv(r)
  <2> HIDE DEF r, new, t
  <2>1. QED
    BY <1>1, <1>2, <1>3, <1>5, <1>8 DEF TickInv, ReadingInv
<1> HIDE DEF r
<1>10. QED
  BY <1>6, <1>7, <1>9, LocalStepInv

\* A batch extends the journal, or lies within what another process recorded.
LEMMA RecordBatchInv ==
  ASSUME JournalInv, NEW j \in Journals, RecordBatch(j)
  PROVE  JournalInv'
<1> DEFINE t == ticks[j]
           r == [t EXCEPT !.done = t.read, !.events = {}]
<1>1. /\ t \in TickType /\ t.phase = "reading" /\ ReadingInv(t)
      /\ chain \in Seq(Transactions) /\ Len(chain) \in Nat
      /\ rows \subseteq Nat \X Nat
  BY DEF JournalInv, TypeOK, RecordBatch, TickInv
<1>2. /\ t.done \in Nat /\ t.read \in Nat /\ t.newest \in Nat
      /\ t.events \subseteq Nat \X Nat
  BY <1>1 DEF TickType
<1>3. /\ rows' = rows \union t.events /\ cursor' = t.read
      /\ ticks' = [ticks EXCEPT ![j] = IF t.read < t.newest THEN r ELSE Idle]
      /\ UNCHANGED <<chain, running, failures>>
  BY DEF RecordBatch, Recorded, CursorAfter
<1>4. r \in TickType
  BY <1>1, <1>2 DEF TickType
<1>5. /\ r.phase = "reading" /\ r.newest = t.newest /\ r.done = t.read
      /\ r.read = t.read /\ r.events = {}
  BY <1>1 DEF TickType
<1> HIDE DEF r
<1>6. TypeOK'
  BY <1>1, <1>2, <1>3, <1>4, IdleFacts
     DEF JournalInv, TypeOK, ReadingInv
<1>7. \A n : EventsUpTo(n)' = EventsUpTo(n)
  BY <1>3 DEF EventsUpTo
<1>8. EventsUpTo(t.read) = EventsUpTo(t.done) \union t.events
  <2>1. /\ t.done <= t.read
        /\ t.events = UNION {RowsOf(p, chain[p]) : p \in (t.done + 1)..t.read}
    BY <1>1 DEF ReadingInv
  <2> HIDE DEF t
  <2>2. EventsUpTo(t.read)
          = EventsUpTo(t.done)
              \union UNION {RowsOf(p, chain[p]) : p \in (t.done + 1)..t.read}
    BY <1>2, <2>1, EventsJoin
  <2>3. QED
    BY <2>1, <2>2
<1>9. EventsUpTo(t.read) \subseteq rows'
  BY <1>1, <1>3, <1>8 DEF ReadingInv
<1>10. CursorCovered'
  BY <1>3, <1>7, <1>9 DEF CursorCovered
<1>11. JournalIsPrefix'
  <2>1. PICK n \in 0..Len(chain) : rows = EventsUpTo(n)
    BY DEF JournalInv, JournalIsPrefix
  <2>2. rows' = EventsUpTo(n) \union EventsUpTo(t.read)
    BY <1>1, <1>3, <1>8, <2>1 DEF ReadingInv
  <2>3. CASE n <= t.read
    <3>1. EventsUpTo(n) \subseteq EventsUpTo(t.read)
      BY <1>2, <2>3, EventsJoin
    <3>2. t.read \in 0..Len(chain)
      BY <1>1, <1>2 DEF ReadingInv
    <3>3. QED
      BY <1>3, <1>7, <2>2, <3>1, <3>2 DEF JournalIsPrefix
  <2>4. CASE t.read <= n
    <3>1. EventsUpTo(t.read) \subseteq EventsUpTo(n)
      BY <1>2, <2>4, EventsJoin
    <3>2. QED
      BY <1>3, <1>7, <2>2, <3>1 DEF JournalIsPrefix
  <2>5. QED
    BY <1>2, <2>3, <2>4
<1>12. ASSUME NEW i \in Journals PROVE TickInv(ticks[i])'
  <2>1. CASE i # j
    <3>1. ticks'[i] = ticks[i] /\ TickInv(ticks[i])
      BY <1>3, <2>1 DEF JournalInv, TypeOK
    <3>2. QED
      BY <1>3, <1>7, <3>1 DEF TickInv, ListingInv, ReadingInv
  <2>2. CASE i = j /\ ~(t.read < t.newest)
    <3>1. ticks'[i].phase = "idle"
      BY <1>3, <2>2 DEF JournalInv, TypeOK, Idle
    <3>2. QED
      BY <3>1 DEF TickInv
  <2>3. CASE i = j /\ t.read < t.newest
    <3>1. ticks'[i] = r
      BY <1>3, <2>3 DEF JournalInv, TypeOK
    <3>2. {RowsOf(p, chain[p]) : p \in (t.read + 1)..t.read} = {}
      BY <1>2
    <3>3. QED
      BY <1>1, <1>2, <1>3, <1>5, <1>7, <1>9, <3>1, <3>2
         DEF TickInv, ReadingInv
  <2>4. QED
    BY <2>1, <2>2, <2>3
<1>13. QED
  BY <1>6, <1>10, <1>11, <1>12 DEF JournalInv

-----------------------------------------------------------------------------
\* Every step keeps the invariant.
LEMMA NextInv == JournalInv /\ [Next]_vars => JournalInv'
<1> SUFFICES ASSUME JournalInv, [Next]_vars PROVE JournalInv'
  OBVIOUS
<1>1. CASE UNCHANGED vars
  <2>1. /\ chain' = chain /\ rows' = rows /\ cursor' = cursor
        /\ ticks' = ticks /\ running' = running /\ failures' = failures
    BY <1>1 DEF vars
  <2>2. \A n : EventsUpTo(n)' = EventsUpTo(n)
    BY <2>1 DEF EventsUpTo
  <2>3. TypeOK'
    BY <2>1 DEF JournalInv, TypeOK
  <2>4. CursorCovered' /\ JournalIsPrefix'
    BY <2>1, <2>2 DEF JournalInv, CursorCovered, JournalIsPrefix
  <2>5. \A j \in Journals : TickInv(ticks[j])'
    BY <2>1, <2>2 DEF JournalInv, TickInv, ListingInv, ReadingInv
  <2>6. QED
    BY <2>3, <2>4, <2>5 DEF JournalInv
<1>2. ASSUME NEW tx \in Transactions, Finalize(tx) PROVE JournalInv'
  BY <1>2, FinalizeInv
<1>3. ASSUME NEW j \in Journals, Step(j) PROVE JournalInv'
  BY <1>3, StartTickInv, ReadPageInv, ReadTransactionInv, RecordBatchInv DEF Step
<1>4. ASSUME NEW j \in Journals, Fail(j) \/ Stop(j) PROVE JournalInv'
  BY <1>4, FailInv, StopInv
<1>5. QED
  BY <1>1, <1>2, <1>3, <1>4 DEF Next

\* createSweepJournal: the cursor stays a position of the history, and every tick
\* is in one of its phases, whatever fails or overlaps.
THEOREM TypeCorrect == Spec => []TypeOK
<1>1. JournalInv => TypeOK
  BY DEF JournalInv
<1>2. QED
  BY InitInv, NextInv, <1>1, PTL DEF Spec

\* FR-016, createSweepJournal and createDbJournalStore.record: whatever fails,
\* restarts or runs next to it, the journal never has a gap.
THEOREM NoGap == Spec => []JournalIsPrefix
<1>1. JournalInv => JournalIsPrefix
  BY DEF JournalInv
<1>2. QED
  BY InitInv, NextInv, <1>1, PTL DEF Spec

\* FR-016, the cursor and the rows of a batch are written together: the cursor
\* never passes an event that is not in the table, even when an older process
\* sets it back.
THEOREM CursorNeverAhead == Spec => []CursorCovered
<1>1. JournalInv => CursorCovered
  BY DEF JournalInv
<1>2. QED
  BY InitInv, NextInv, <1>1, PTL DEF Spec
-----------------------------------------------------------------------------
(***************************************************************************)
(* The sweep keeper.  Whatever is withheld came in: for any number of      *)
(* keepers, watches and loans, and however stale what a keeper has read    *)
(* when it sends a sweep.                                                  *)
(***************************************************************************)
CONSTANTS Keepers, Watches, Unbuyable, Forever, SKIP_PAUSE, DEBT, Allowances, Spendings,
          MAX_LOANS, MAX_PAYOUTS, MAX_LOST

VARIABLES accounts, tolerable, payouts, credit, pauses, lost

Keep == INSTANCE Keeper

\* A loan is still owed no more than came in, what no sweep has seen included, and
\* without a loan nothing is owed.  The keepers are in none of it: the program keeps it,
\* whoever sweeps.
AccountInv(a, c) ==
  /\ a.debt > 0 => a.due + Keep!Payout(a) <= c
  /\ a.debt = 0 => a.due = 0

KeeperInv ==
  /\ accounts \in [Watches -> Keep!AccountType]
  /\ credit \in [Watches -> Nat]
  /\ \A w \in Watches : AccountInv(accounts[w], credit[w])

-----------------------------------------------------------------------------
\* What is withheld is within what is owed, held and approved.
LEMMA TakeBounds ==
  ASSUME NEW a \in Keep!AccountType
  PROVE  /\ Keep!Payout(a) \in Nat /\ Keep!Owed(a) \in Nat /\ Keep!Take(a) \in Nat
         /\ Keep!Take(a) <= Keep!Owed(a) /\ Keep!Take(a) <= a.balance /\ Keep!Take(a) <= a.allowance
         /\ Keep!Owed(a) <= a.debt /\ Keep!Owed(a) <= a.due + Keep!Payout(a)
<1>1. /\ a.balance \in Nat /\ a.seen \in Nat /\ a.allowance \in Nat /\ a.debt \in Nat
      /\ a.due \in Nat
  BY DEF Keep!AccountType
<1>2. Keep!Payout(a) \in Nat
  BY <1>1 DEF Keep!Payout
<1>3. Keep!Owed(a) \in Nat /\ Keep!Owed(a) <= a.debt /\ Keep!Owed(a) <= a.due + Keep!Payout(a)
  BY <1>1, <1>2 DEF Keep!Owed, Keep!Least
<1> QED
  BY <1>1, <1>2, <1>3 DEF Keep!Take, Keep!Least

\* A sweep that converts nothing moves what came in from the account to what is due.
LEMMA CountedKeeps ==
  ASSUME NEW a \in Keep!AccountType, NEW c \in Nat, AccountInv(a, c)
  PROVE  Keep!Counted(a) \in Keep!AccountType /\ AccountInv(Keep!Counted(a), c)
<1>1. /\ Keep!Owed(a) \in Nat /\ Keep!Owed(a) <= a.debt /\ Keep!Owed(a) <= a.due + Keep!Payout(a)
      /\ Keep!Payout(a) \in Nat
  BY TakeBounds
<1>2. /\ Keep!Counted(a) \in Keep!AccountType
      /\ Keep!Counted(a).debt = a.debt /\ Keep!Counted(a).due = Keep!Owed(a)
      /\ Keep!Counted(a).seen = a.balance /\ Keep!Counted(a).balance = a.balance
  BY <1>1 DEF Keep!Counted, Keep!AccountType
<1>3. Keep!Payout(Keep!Counted(a)) = 0
  BY <1>2 DEF Keep!Payout, Keep!AccountType
<1>4. a.debt \in Nat /\ a.due \in Nat
  BY DEF Keep!AccountType
<1> QED
  BY <1>1, <1>2, <1>3, <1>4 DEF AccountInv

\* A sweep that converts takes the same from what is owed and from what came in.
LEMMA WithheldKeeps ==
  ASSUME NEW a \in Keep!AccountType, NEW c \in Nat, AccountInv(a, c), Keep!Take(a) # 0
  PROVE  /\ Keep!Withheld(a) \in Keep!AccountType
         /\ c - Keep!Take(a) \in Nat
         /\ AccountInv(Keep!Withheld(a), c - Keep!Take(a))
<1>1. /\ Keep!Owed(a) \in Nat /\ Keep!Owed(a) <= a.debt /\ Keep!Owed(a) <= a.due + Keep!Payout(a)
      /\ Keep!Payout(a) \in Nat /\ Keep!Take(a) \in Nat
      /\ Keep!Take(a) <= Keep!Owed(a) /\ Keep!Take(a) <= a.balance /\ Keep!Take(a) <= a.allowance
  BY TakeBounds
<1>2. /\ a.balance \in Nat /\ a.allowance \in Nat /\ a.debt \in Nat /\ a.due \in Nat
      /\ a.opened \in Nat /\ a.seen \in Nat
  BY DEF Keep!AccountType
<1>3. /\ Keep!Withheld(a).debt = a.debt - Keep!Take(a)
      /\ Keep!Withheld(a).due = Keep!Owed(a) - Keep!Take(a)
      /\ Keep!Withheld(a).seen = a.balance - Keep!Take(a)
      /\ Keep!Withheld(a).balance = a.balance - Keep!Take(a)
  BY DEF Keep!Withheld, Keep!AccountType
<1>4. Keep!Withheld(a) \in Keep!AccountType
  <2>1. /\ a.balance - Keep!Take(a) \in Nat /\ a.allowance - Keep!Take(a) \in Nat
        /\ a.debt - Keep!Take(a) \in Nat /\ Keep!Owed(a) - Keep!Take(a) \in Nat
    BY <1>1, <1>2
  <2> QED
    BY <2>1 DEF Keep!Withheld, Keep!AccountType
<1>5. a.debt > 0 /\ Keep!Owed(a) <= c
  BY <1>1, <1>2 DEF AccountInv
<1>6. Keep!Payout(Keep!Withheld(a)) = 0
  BY <1>1, <1>2, <1>3 DEF Keep!Payout
<1> QED
  BY <1>1, <1>2, <1>3, <1>4, <1>5, <1>6 DEF AccountInv

-----------------------------------------------------------------------------
\* A step on the chain touches one watch.
LEMMA OneWatch ==
  ASSUME KeeperInv, NEW w \in Watches, NEW a \in Keep!AccountType, NEW c \in Nat,
         AccountInv(a, c),
         accounts' = [accounts EXCEPT ![w] = a],
         credit' = [credit EXCEPT ![w] = c]
  PROVE  KeeperInv'
BY DEF KeeperInv, AccountInv, Keep!Payout

LEMMA LandStep ==
  ASSUME KeeperInv, NEW w \in Watches, Keep!Land(w)
  PROVE  KeeperInv'
<1> DEFINE a == accounts[w]
           c == credit[w]
<1>1. a \in Keep!AccountType /\ c \in Nat /\ AccountInv(a, c)
  BY DEF KeeperInv
<1>2. CASE Keep!Event(a, w.mint) = "swept"
  <2>1. Keep!Take(a) # 0
    BY <1>2 DEF Keep!Event
  <2>2. /\ accounts' = [accounts EXCEPT ![w] = Keep!Withheld(a)]
        /\ credit' = [credit EXCEPT ![w] = c - Keep!Take(a)]
    BY <1>2 DEF Keep!Land
  <2> HIDE DEF a, c
  <2> QED
    BY <1>1, <2>1, <2>2, WithheldKeeps, OneWatch
<1>3. CASE Keep!Event(a, w.mint) # "swept"
  <2>1. /\ accounts' = [accounts EXCEPT ![w] = Keep!Counted(a)]
        /\ credit' = [credit EXCEPT ![w] = c - 0]
    BY <1>3 DEF Keep!Land
  <2> HIDE DEF a, c
  <2>2. c - 0 = c
    BY <1>1
  <2> QED
    BY <1>1, <2>1, <2>2, CountedKeeps, OneWatch
<1> QED
  BY <1>2, <1>3

LEMMA BorrowedType ==
  ASSUME NEW a \in Keep!AccountType, NEW d \in Nat
  PROVE  [a EXCEPT !.opened = @ + 1, !.seen = a.balance, !.debt = d, !.allowance = d]
           \in Keep!AccountType
<1>1. a.opened \in Nat /\ a.opened + 1 \in Nat /\ a.balance \in Nat
  BY DEF Keep!AccountType
<1> QED
  BY <1>1 DEF Keep!AccountType

\* What lenders, operators and the network do between the sweeps.
LEMMA OthersStep ==
  ASSUME Keep!KeeperAssumption, KeeperInv, Keep!Others
  PROVE  KeeperInv'
<1>1. ASSUME NEW w \in Watches
      PROVE  /\ accounts[w] \in Keep!AccountType /\ credit[w] \in Nat
             /\ AccountInv(accounts[w], credit[w])
             /\ credit = [credit EXCEPT ![w] = credit[w]]
             /\ accounts[w].balance \in Nat /\ accounts[w].seen \in Nat
             /\ accounts[w].debt \in Nat /\ accounts[w].due \in Nat
             /\ accounts[w].allowance \in Nat /\ accounts[w].opened \in Nat
  BY <1>1 DEF KeeperInv, Keep!AccountType
<1>2. ASSUME NEW w \in Watches, Keep!Borrow(w) PROVE KeeperInv'
  <2> DEFINE a == [accounts[w] EXCEPT !.opened = @ + 1, !.seen = accounts[w].balance,
                                      !.debt = DEBT, !.allowance = DEBT]
  <2>1. accounts' = [accounts EXCEPT ![w] = a] /\ credit' = [credit EXCEPT ![w] = 0]
    BY <1>2 DEF Keep!Borrow
  <2>2. DEBT \in Nat /\ DEBT > 0
    BY DEF Keep!KeeperAssumption
  <2>3. accounts[w].debt = 0 /\ accounts[w].due = 0
    BY <1>1, <1>2 DEF Keep!Borrow, AccountInv
  <2>4. a \in Keep!AccountType
    BY <1>1, <2>2, BorrowedType
  <2>5. /\ a.balance = accounts[w].balance /\ a.seen = accounts[w].balance
        /\ a.debt = DEBT /\ a.due = accounts[w].due
    BY <1>1 DEF Keep!AccountType
  <2> HIDE DEF a
  <2>6. Keep!Payout(a) = 0
    BY <2>5, <1>1 DEF Keep!Payout
  <2>7. AccountInv(a, 0)
    BY <2>2, <2>3, <2>5, <2>6 DEF AccountInv
  <2> QED
    BY <2>1, <2>4, <2>7, OneWatch
<1>3. ASSUME NEW w \in Watches, Keep!Repay(w) PROVE KeeperInv'
  <2> DEFINE a == [accounts[w] EXCEPT !.debt = 0, !.due = 0]
  <2>1. accounts' = [accounts EXCEPT ![w] = a] /\ credit' = [credit EXCEPT ![w] = credit[w]]
    BY <1>1, <1>3 DEF Keep!Repay
  <2>2. a \in Keep!AccountType
    BY <1>1 DEF Keep!AccountType
  <2>3. a.debt = 0 /\ a.due = 0
    BY <1>1 DEF Keep!AccountType
  <2> HIDE DEF a
  <2>4. AccountInv(a, credit[w])
    BY <2>3 DEF AccountInv
  <2> QED
    BY <1>1, <2>1, <2>2, <2>4, OneWatch
<1>4. ASSUME NEW w \in Watches, Keep!ReceivePayout(w) PROVE KeeperInv'
  <2> DEFINE a == [accounts[w] EXCEPT !.balance = @ + 1]
             c == IF accounts[w].debt > 0 THEN credit[w] + 1 ELSE credit[w]
  <2>1. accounts' = [accounts EXCEPT ![w] = a] /\ credit' = [credit EXCEPT ![w] = c]
    BY <1>4 DEF Keep!ReceivePayout
  <2>2. /\ a \in Keep!AccountType /\ c \in Nat /\ a.debt = accounts[w].debt
        /\ a.due = accounts[w].due /\ a.seen = accounts[w].seen
        /\ a.balance = accounts[w].balance + 1
    BY <1>1 DEF Keep!AccountType
  <2>3. Keep!Payout(a) \in Nat /\ Keep!Payout(a) <= Keep!Payout(accounts[w]) + 1
    BY <1>1, <2>2 DEF Keep!Payout
  <2>4. Keep!Payout(accounts[w]) \in Nat
    BY <1>1 DEF Keep!Payout
  <2>5. AccountInv(a, c)
    BY <1>1, <2>2, <2>3, <2>4 DEF AccountInv
  <2> HIDE DEF a, c
  <2> QED
    BY <2>1, <2>2, <2>5, OneWatch
<1>5. ASSUME NEW w \in Watches, NEW amount \in Spendings, Keep!Spend(w, amount) PROVE KeeperInv'
  <2> DEFINE a == [accounts[w] EXCEPT !.balance = @ - amount]
  <2>1. accounts' = [accounts EXCEPT ![w] = a] /\ credit' = [credit EXCEPT ![w] = credit[w]]
    BY <1>1, <1>5 DEF Keep!Spend
  <2>2. amount \in Nat /\ accounts[w].balance >= amount
    BY <1>5 DEF Keep!Spend, Keep!KeeperAssumption
  <2>3. /\ a \in Keep!AccountType /\ a.debt = accounts[w].debt
        /\ a.due = accounts[w].due /\ a.seen = accounts[w].seen
        /\ a.balance = accounts[w].balance - amount
    BY <1>1, <2>2 DEF Keep!AccountType
  <2>4. /\ Keep!Payout(a) \in Nat /\ Keep!Payout(a) <= Keep!Payout(accounts[w])
        /\ Keep!Payout(accounts[w]) \in Nat
    BY <1>1, <2>2, <2>3 DEF Keep!Payout
  <2>5. AccountInv(a, credit[w])
    BY <1>1, <2>3, <2>4 DEF AccountInv
  <2> HIDE DEF a
  <2> QED
    BY <1>1, <2>1, <2>3, <2>5, OneWatch
<1>6. ASSUME NEW w \in Watches, NEW allowance \in Allowances, Keep!Approve(w, allowance)
      PROVE  KeeperInv'
  <2> DEFINE a == [accounts[w] EXCEPT !.allowance = allowance]
  <2>1. accounts' = [accounts EXCEPT ![w] = a] /\ credit' = [credit EXCEPT ![w] = credit[w]]
    BY <1>1, <1>6 DEF Keep!Approve
  <2>2. a \in Keep!AccountType /\ AccountInv(a, credit[w])
    BY <1>1 DEF Keep!AccountType, AccountInv, Keep!Payout, Keep!KeeperAssumption
  <2> HIDE DEF a
  <2> QED
    BY <1>1, <2>1, <2>2, OneWatch
<1>7. ASSUME NEW m \in Keep!Mints, Keep!MarketMoves(m) PROVE KeeperInv'
  BY <1>7 DEF Keep!MarketMoves, KeeperInv
<1> QED
  BY <1>2, <1>3, <1>4, <1>5, <1>6, <1>7 DEF Keep!Others

\* The steps of a keeper that send nothing.
LEMMA KeeperSilent ==
  ASSUME KeeperInv, UNCHANGED <<accounts, credit>>
  PROVE  KeeperInv'
BY DEF KeeperInv

LEMMA KeeperMoves ==
  ASSUME Keep!KeeperAssumption, KeeperInv, [Keep!Next]_(Keep!vars)
  PROVE  KeeperInv'
<1>1. CASE UNCHANGED Keep!vars
  BY <1>1, KeeperSilent DEF Keep!vars, Keep!chain
<1>2. CASE Keep!Others
  BY <1>2, OthersStep
<1>3. CASE Keep!TimePasses
  BY <1>3, KeeperSilent DEF Keep!TimePasses, Keep!chain
<1>4. ASSUME NEW k \in Keepers, Keep!Step(k) PROVE KeeperInv'
  <2>1. CASE \E w \in Watches : Keep!Send(k, w)
    BY <2>1, LandStep DEF Keep!Send
  <2>2. CASE ~\E w \in Watches : Keep!Send(k, w)
    BY <1>4, <2>2, KeeperSilent
       DEF Keep!Step, Keep!StartTick, Keep!ReadWatches, Keep!ReadLoans, Keep!ReadBalances,
           Keep!ReadAccounts, Keep!Confirm,
           Keep!Refused, Keep!chain
  <2> QED
    BY <2>1, <2>2
<1>5. ASSUME NEW k \in Keepers,
             \/ Keep!LoseLogs(k) \/ Keep!FailTick(k) \/ Keep!Restart(k)
             \/ \E w \in Watches : Keep!FailSweep(k, w)
      PROVE  KeeperInv'
  BY <1>5, KeeperSilent DEF Keep!LoseLogs, Keep!FailTick, Keep!Restart, Keep!FailSweep, Keep!chain
<1> QED
  BY <1>1, <1>2, <1>3, <1>4, <1>5 DEF Keep!Next

LEMMA KeeperStarts == Keep!Init => KeeperInv
BY DEF Keep!Init, KeeperInv, AccountInv, Keep!AccountType, Keep!NoAccount, Keep!Payout

\* FR-015: no number of keepers, stale reads, lost logs, failures and restarts has more
\* withheld, or counted as owed, than came in as payouts while the loan was open.
THEOREM NothingWithheldTwice == Keep!KeeperAssumption /\ Keep!Spec => []Keep!WithheldOnce
<1> SUFFICES ASSUME Keep!KeeperAssumption PROVE Keep!Spec => []Keep!WithheldOnce
  OBVIOUS
<1>1. KeeperInv /\ [Keep!Next]_(Keep!vars) => KeeperInv'
  BY KeeperMoves
<1>2. KeeperInv => Keep!WithheldOnce
  <2> SUFFICES ASSUME KeeperInv, NEW w \in Watches PROVE accounts[w].due <= credit[w]
    BY DEF Keep!WithheldOnce
  <2>1. /\ accounts[w] \in Keep!AccountType /\ credit[w] \in Nat
        /\ AccountInv(accounts[w], credit[w])
    BY DEF KeeperInv
  <2>2. accounts[w].debt \in Nat /\ accounts[w].due \in Nat /\ Keep!Payout(accounts[w]) \in Nat
    BY <2>1, TakeBounds DEF Keep!AccountType
  <2> QED
    BY <2>1, <2>2 DEF AccountInv
<1> QED
  BY KeeperStarts, <1>1, <1>2, PTL DEF Keep!Spec
-----------------------------------------------------------------------------
(***************************************************************************)
(* The seed scripts.                                                       *)
(***************************************************************************)
CONSTANTS NETWORKS, Terms, AMOUNT, MAX_SOLD, MAX_AGAIN

VARIABLES coin, pool, wallet, deposited, vaults, run, flight, late, sold, successes

Seeds == INSTANCE Seeding

\* The transactions a plan may hold.
Sending ==
  [kind : {"create-mint", "initialize-pool"}]
    \union [kind : {"mint-to", "deposit"}, amount : Nat \ {0}]
    \union [kind : {"create"}, network : Seeds!Networks, terms : Terms]
    \union [kind : {"top-up"}, network : Seeds!Networks, amount : Nat \ {0}]

Minting == {step \in Sending : step.kind = "mint-to"}
Filling(n) == {step \in Sending : step.kind = "top-up" /\ step.network = n}

Holds(todo, step) == \E i \in DOMAIN todo : todo[i] = step
Once(todo, A) == \A i, j \in DOMAIN todo : todo[i] \in A /\ todo[j] \in A => i = j

\* What two plans together hold.
LEMMA PlansJoin ==
  ASSUME NEW s \in Seq(Sending), NEW t \in Seq(Sending)
  PROVE  /\ s \o t \in Seq(Sending)
         /\ \A step : Holds(s \o t, step) <=> Holds(s, step) \/ Holds(t, step)
         /\ \A A : /\ Once(s, A) /\ Once(t, A)
                   /\ (\A i \in DOMAIN s : s[i] \notin A) \/ (\A i \in DOMAIN t : t[i] \notin A)
                   => Once(s \o t, A)
         /\ \A A : (\A i \in DOMAIN s : s[i] \notin A) /\ (\A i \in DOMAIN t : t[i] \notin A)
                   => \A i \in DOMAIN (s \o t) : (s \o t)[i] \notin A
<1> DEFINE u == s \o t
           m == Len(s)
           n == Len(t)
<1>1. /\ m \in Nat /\ n \in Nat /\ DOMAIN s = 1..m /\ DOMAIN t = 1..n
  BY LenProperties
<1>2. /\ u \in Seq(Sending) /\ Len(u) = m + n
      /\ \A i \in 1..(m + n) : u[i] = IF i <= m THEN s[i] ELSE t[i - m]
  BY ConcatProperties
<1>3. DOMAIN u = 1..(m + n)
  BY <1>2, LenProperties
<1> HIDE DEF u, m, n
<1>4. \A i \in 1..m : i \in DOMAIN u /\ u[i] = s[i]
  BY <1>1, <1>2, <1>3
<1>5. \A i \in 1..n : m + i \in DOMAIN u /\ u[m + i] = t[i]
  <2>1. ASSUME NEW i \in 1..n PROVE m + i \in DOMAIN u /\ u[m + i] = t[i]
    <3>1. m + i \in 1..(m + n) /\ ~(m + i <= m) /\ (m + i) - m = i
      BY <1>1
    <3>2. QED
      BY <1>2, <1>3, <3>1
  <2>2. QED
    BY <2>1
<1>6. \A i \in DOMAIN u : \/ i \in 1..m /\ u[i] = s[i]
                          \/ i - m \in 1..n /\ u[i] = t[i - m] /\ ~(i <= m)
  BY <1>1, <1>2, <1>3
<1>7. \A step : Holds(u, step) <=> Holds(s, step) \/ Holds(t, step)
  BY <1>1, <1>4, <1>5, <1>6 DEF Holds
<1>8. ASSUME NEW A, Once(s, A), Once(t, A),
             (\A i \in DOMAIN s : s[i] \notin A) \/ (\A i \in DOMAIN t : t[i] \notin A)
      PROVE  Once(u, A)
  <2>1. ASSUME NEW i \in DOMAIN u, NEW j \in DOMAIN u, u[i] \in A, u[j] \in A
        PROVE  i = j
    <3>1. i \in Int /\ j \in Int
      BY <1>1, <1>3
    <3>2. CASE i \in 1..m /\ u[i] = s[i]
      <4>1. j \in 1..m /\ u[j] = s[j]
        BY <1>1, <1>6, <1>8, <2>1, <3>2
      <4>2. QED
        BY <1>1, <1>8, <2>1, <3>2, <4>1 DEF Once
    <3>3. CASE i - m \in 1..n /\ u[i] = t[i - m]
      <4>1. j - m \in 1..n /\ u[j] = t[j - m]
        BY <1>1, <1>6, <1>8, <2>1, <3>3
      <4>2. i - m = j - m
        BY <1>1, <1>8, <2>1, <3>3, <4>1 DEF Once
      <4>3. QED
        BY <1>1, <3>1, <4>2
    <3>4. QED
      BY <1>6, <3>2, <3>3
  <2>2. QED
    BY <2>1 DEF Once
<1>9. ASSUME NEW A, \A i \in DOMAIN s : s[i] \notin A, \A i \in DOMAIN t : t[i] \notin A
      PROVE  \A i \in DOMAIN u : u[i] \notin A
  BY <1>1, <1>6, <1>9
<1>10. QED
  BY <1>2, <1>7, <1>8, <1>9 DEF u

\* A step of a plan, or none.
LEMMA WhenIs ==
  ASSUME NEW c \in BOOLEAN, NEW step, c => step \in Sending
  PROVE  LET s == Seeds!When(c, step)
         IN  /\ s \in Seq(Sending)
             /\ \A x : Holds(s, x) <=> c /\ x = step
             /\ \A A : Once(s, A)
             /\ \A A : ~c \/ step \notin A => \A i \in DOMAIN s : s[i] \notin A
<1>1. CASE c
  <2>1. Seeds!When(c, step) = <<step>>
    BY <1>1 DEF Seeds!When
  <2> DEFINE s == <<step>>
  <2>2. s \in Seq(Sending) /\ DOMAIN s = {1} /\ s[1] = step
    BY <1>1
  <2> HIDE DEF s
  <2>3. \A x : Holds(s, x) <=> x = step
    BY <2>2 DEF Holds
  <2>4. \A A : Once(s, A) /\ (step \notin A => \A i \in DOMAIN s : s[i] \notin A)
    BY <2>2 DEF Once
  <2>5. QED
    BY <1>1, <2>1, <2>2, <2>3, <2>4 DEF s
<1>2. CASE ~c
  <2>1. Seeds!When(c, step) = <<>>
    BY <1>2 DEF Seeds!When
  <2>2. <<>> \in Seq(Sending) /\ DOMAIN <<>> = {}
    BY EmptySeq
  <2>3. QED
    BY <1>2, <2>1, <2>2 DEF Holds, Once
<1>3. QED
  BY <1>1, <1>2

\* What is left of a plan when its first transaction has gone.
LEMMA PlanGoesOn ==
  ASSUME NEW s \in Seq(Sending), s # <<>>
  PROVE  /\ Tail(s) \in Seq(Sending) /\ Head(s) \in Sending /\ 1 \in DOMAIN s
         /\ Head(s) = s[1]
         /\ \A step : Holds(Tail(s), step) => Holds(s, step)
         /\ \A step : Holds(s, step) => step = Head(s) \/ Holds(Tail(s), step)
         /\ \A A : Once(s, A) => /\ Once(Tail(s), A)
                                 /\ Head(s) \in A => \A i \in DOMAIN Tail(s) : Tail(s)[i] \notin A
         /\ Tail(s) # <<>> => Tail(s)[Len(Tail(s))] = s[Len(s)]
         /\ Tail(s) = <<>> => Head(s) = s[Len(s)]
<1> DEFINE t == Tail(s)
           n == Len(s)
<1>1. n \in Nat \ {0} /\ DOMAIN s = 1..n
  BY LenProperties, EmptySeq
<1>2. /\ Head(s) \in Sending /\ t \in Seq(Sending) /\ Len(t) = n - 1
      /\ \A i \in 1..(n - 1) : t[i] = s[i + 1]
  BY HeadTailProperties
<1>3. DOMAIN t = 1..(n - 1)
  BY <1>2, LenProperties
<1>4. Head(s) = s[1]
  OBVIOUS
<1> HIDE DEF t, n
<1>5. t = <<>> => n = 1
  <2>1. ASSUME t = <<>> PROVE Len(t) = 0
    BY <2>1, EmptySeq
  <2>2. QED
    BY <1>1, <1>2, <2>1
<1>6. t # <<>> => n - 1 \in 1..(n - 1)
  <2>1. t # <<>> => Len(t) \in Nat \ {0}
    BY <1>2, EmptySeq
  <2>2. QED
    BY <1>1, <1>2, <2>1
<1>7. 1 \in DOMAIN s /\ \A i \in DOMAIN t : i + 1 \in DOMAIN s /\ t[i] = s[i + 1] /\ i + 1 # 1
                                            /\ i \in Int
  BY <1>1, <1>2, <1>3
<1>8. \A i \in DOMAIN s : i = 1 \/ (i - 1 \in DOMAIN t /\ t[i - 1] = s[i])
  <2>1. ASSUME NEW i \in DOMAIN s, i # 1 PROVE i - 1 \in DOMAIN t /\ t[i - 1] = s[i]
    <3>1. i - 1 \in 1..(n - 1) /\ (i - 1) + 1 = i
      BY <1>1, <2>1
    <3>2. QED
      BY <1>2, <1>3, <3>1
  <2>2. QED
    BY <2>1
<1>9. \A step : Holds(t, step) => Holds(s, step)
  BY <1>7 DEF Holds
<1>10. \A step : Holds(s, step) => step = Head(s) \/ Holds(t, step)
  BY <1>4, <1>8 DEF Holds
<1>11. ASSUME NEW A, Once(s, A)
       PROVE  Once(t, A) /\ (Head(s) \in A => \A i \in DOMAIN t : t[i] \notin A)
  <2>1. Once(t, A)
    <3>1. ASSUME NEW i \in DOMAIN t, NEW j \in DOMAIN t, t[i] \in A, t[j] \in A PROVE i = j
      <4>1. i + 1 = j + 1 /\ i \in Int /\ j \in Int
        BY <1>7, <1>11, <3>1 DEF Once
      <4>2. QED
        BY <4>1
    <3>2. QED
      BY <3>1 DEF Once
  <2>2. ASSUME Head(s) \in A, NEW i \in DOMAIN t, t[i] \in A PROVE FALSE
    BY <1>4, <1>7, <1>11, <2>2 DEF Once
  <2>3. QED
    BY <2>1, <2>2
<1>12. t # <<>> => t[Len(t)] = s[n]
  <2>1. ASSUME t # <<>> PROVE t[n - 1] = s[n]
    <3>1. n - 1 \in 1..(n - 1) /\ (n - 1) + 1 = n
      BY <1>1, <1>6, <2>1
    <3>2. QED
      BY <1>2, <3>1
  <2>2. QED
    BY <1>2, <2>1
<1>13. t = <<>> => Head(s) = s[n]
  BY <1>4, <1>5
<1>14. QED
  BY <1>2, <1>4, <1>7, <1>9, <1>10, <1>11, <1>12, <1>13 DEF t, n

\* The amounts of the chain that a plan is made from.
BooksOfSeeds ==
  /\ {coin, pool} \subseteq BOOLEAN
  /\ wallet \in Nat /\ deposited \in Nat
  /\ vaults = [n \in Seeds!Networks |-> [terms |-> vaults[n].terms, balance |-> vaults[n].balance]]
  /\ \A n \in Seeds!Networks :
       vaults[n].terms \in Terms \union {Seeds!Unopened} /\ vaults[n].balance \in Nat

\* seedPlan mints once, what is missing, and ends with the deposit.
LEMMA PoolPlanIs ==
  ASSUME Seeds!SeedingAssumption, BooksOfSeeds
  PROVE  LET plan == Seeds!PoolPlan
         IN  /\ plan \in Seq(Sending) /\ plan # <<>>
             /\ plan[Len(plan)] = [kind |-> "deposit", amount |-> AMOUNT]
             /\ Once(plan, Minting) /\ \A n : Once(plan, Filling(n))
             /\ \A step \in Minting : Holds(plan, step) => wallet + step.amount = AMOUNT
             /\ \A n : \A step \in Filling(n) : ~Holds(plan, step)
<1> DEFINE a == Seeds!When(~coin, Seeds!Simple("create-mint"))
           b == Seeds!When(~pool, Seeds!Simple("initialize-pool"))
           m == [kind |-> "mint-to", amount |-> AMOUNT - wallet]
           c == Seeds!When(wallet < AMOUNT, m)
           e == [kind |-> "deposit", amount |-> AMOUNT]
           d == <<e>>
           plan == ((a \o b) \o c) \o d
<1>1. Seeds!PoolPlan = plan
  BY DEF Seeds!PoolPlan, Seeds!Send
<1>2. /\ AMOUNT \in Nat \ {0} /\ wallet \in Nat /\ coin \in BOOLEAN /\ pool \in BOOLEAN
  BY DEF Seeds!SeedingAssumption, BooksOfSeeds
<1>3. /\ Seeds!Simple("create-mint") = [kind |-> "create-mint"]
      /\ Seeds!Simple("initialize-pool") = [kind |-> "initialize-pool"]
      /\ Seeds!Simple("create-mint") \in Sending /\ Seeds!Simple("initialize-pool") \in Sending
      /\ wallet < AMOUNT => m \in Sending
      /\ e \in Sending
  BY <1>2 DEF Sending, Seeds!Simple
<1>4. /\ a \in Seq(Sending)
      /\ \A x : Holds(a, x) <=> ~coin /\ x = [kind |-> "create-mint"]
      /\ \A A : Once(a, A)
  <2>1. (~coin) \in BOOLEAN
    BY <1>2
  <2>2. QED
    BY <1>3, <2>1, WhenIs
<1>5. /\ b \in Seq(Sending)
      /\ \A x : Holds(b, x) <=> ~pool /\ x = [kind |-> "initialize-pool"]
      /\ \A A : Once(b, A)
  <2>1. (~pool) \in BOOLEAN
    BY <1>2
  <2>2. QED
    BY <1>3, <2>1, WhenIs
<1>6. /\ c \in Seq(Sending)
      /\ \A x : Holds(c, x) <=> wallet < AMOUNT /\ x = m
      /\ \A A : Once(c, A)
  <2>1. (wallet < AMOUNT) \in BOOLEAN
    BY <1>2
  <2> HIDE DEF m
  <2>2. QED
    BY <1>3, <2>1, WhenIs
<1>7. /\ d \in Seq(Sending) /\ Len(d) = 1 /\ d[1] = e /\ DOMAIN d = {1}
  BY <1>3
<1> HIDE DEF a, b, c, d
<1>8. /\ \A x : Holds(d, x) <=> x = e
      /\ \A A : Once(d, A)
  BY <1>7 DEF Holds, Once
<1>9. /\ (a \o b) \in Seq(Sending) /\ ((a \o b) \o c) \in Seq(Sending) /\ plan \in Seq(Sending)
      /\ \A x : Holds(plan, x) <=> Holds(a, x) \/ Holds(b, x) \/ Holds(c, x) \/ Holds(d, x)
  <2> DEFINE ab == a \o b
             abc == ab \o c
  <2>1. ab \in Seq(Sending) /\ \A x : Holds(ab, x) <=> Holds(a, x) \/ Holds(b, x)
    BY <1>4, <1>5, PlansJoin
  <2> HIDE DEF ab
  <2>2. abc \in Seq(Sending) /\ \A x : Holds(abc, x) <=> Holds(ab, x) \/ Holds(c, x)
    BY <1>6, <2>1, PlansJoin
  <2> HIDE DEF abc
  <2>3. /\ abc \o d \in Seq(Sending)
        /\ \A x : Holds(abc \o d, x) <=> Holds(abc, x) \/ Holds(d, x)
    BY <1>7, <2>2, PlansJoin
  <2>4. \A x : Holds(abc \o d, x) <=> Holds(a, x) \/ Holds(b, x) \/ Holds(c, x) \/ Holds(d, x)
    BY <2>1, <2>2, <2>3
  <2>5. QED
    BY <2>1, <2>2, <2>3, <2>4 DEF ab, abc
<1>10. plan # <<>> /\ plan[Len(plan)] = e
  <2> DEFINE p == (a \o b) \o c
  <2>1. p \in Seq(Sending)
    BY <1>9
  <2> HIDE DEF p
  <2>2. /\ Len(p) \in Nat /\ Len(p \o d) = Len(p) + 1
        /\ (p \o d)[Len(p) + 1] = d[Len(p) + 1 - Len(p)]
    <3>1. Len(p) \in Nat /\ d \in Seq(Sending) /\ Len(d) = 1
      BY <1>7, <2>1, LenProperties
    <3>2. /\ Len(p \o d) = Len(p) + Len(d)
          /\ \A i \in 1..(Len(p) + Len(d)) :
               (p \o d)[i] = IF i <= Len(p) THEN p[i] ELSE d[i - Len(p)]
      BY <2>1, <3>1, ConcatProperties
    <3>3. Len(p) + 1 \in 1..(Len(p) + Len(d)) /\ ~(Len(p) + 1 <= Len(p))
      BY <3>1
    <3>4. QED
      BY <3>1, <3>2, <3>3
  <2>3. Len(p) + 1 - Len(p) = 1
    BY <2>2
  <2>4. p \o d # <<>>
    BY <2>2, EmptySeq
  <2>5. QED
    BY <1>7, <2>2, <2>3, <2>4 DEF p
<1>11. ASSUME NEW A, \A x \in A : x.kind = "mint-to" \/ x.kind = "top-up"
       PROVE  Once(plan, A)
  <2>1. /\ \A i \in DOMAIN a : a[i] \notin A
        /\ \A i \in DOMAIN b : b[i] \notin A
        /\ \A i \in DOMAIN d : d[i] \notin A
    <3>1. \A i \in DOMAIN a : a[i].kind = "create-mint"
      BY <1>4 DEF Holds
    <3>2. \A i \in DOMAIN b : b[i].kind = "initialize-pool"
      BY <1>5 DEF Holds
    <3>3. \A i \in DOMAIN d : d[i].kind = "deposit"
      BY <1>7
    <3>4. QED
      BY <1>11, <3>1, <3>2, <3>3
  <2>2. Once(a \o b, A) /\ \A i \in DOMAIN (a \o b) : (a \o b)[i] \notin A
    BY <1>4, <1>5, <2>1, PlansJoin
  <2> DEFINE ab == a \o b
             abc == ab \o c
  <2>3. ab \in Seq(Sending) /\ abc \in Seq(Sending)
    BY <1>9
  <2> HIDE DEF ab
  <2>4. Once(abc, A)
    BY <1>6, <2>2, <2>3, PlansJoin DEF ab
  <2> HIDE DEF abc
  <2>5. Once(abc \o d, A)
    BY <1>7, <1>8, <2>1, <2>3, <2>4, PlansJoin
  <2>6. QED
    BY <2>5 DEF abc, ab
<1> HIDE DEF plan
<1>12. Once(plan, Minting) /\ \A n : Once(plan, Filling(n))
  BY <1>11 DEF Minting, Filling
<1>13. \A step \in Minting : Holds(plan, step) => wallet + step.amount = AMOUNT
  <2>1. ASSUME NEW step \in Minting, Holds(plan, step) PROVE wallet + step.amount = AMOUNT
    <3>1. step = m
      BY <1>4, <1>5, <1>6, <1>8, <1>9, <2>1 DEF Minting
    <3>2. QED
      BY <1>2, <3>1
  <2>2. QED
    BY <2>1
<1>14. \A n : \A step \in Filling(n) : ~Holds(plan, step)
  BY <1>4, <1>5, <1>6, <1>8, <1>9 DEF Filling
<1>15. QED
  BY <1>1, <1>9, <1>10, <1>12, <1>13, <1>14

\* What a plan for some of the vaults holds.
Lacks(n) == vaults[n].balance < AMOUNT
OpensOn(n, terms) == [kind |-> "create", network |-> n, terms |-> terms]
Fills(n) == [kind |-> "top-up", network |-> n, amount |-> AMOUNT - vaults[n].balance]

PlanFor(s, K, terms) ==
  /\ s \in Seq(Sending)
  /\ \A step : Holds(s, step) =>
       \E n \in K : step = OpensOn(n, terms) \/ (Lacks(n) /\ step = Fills(n))
  /\ \A n \in K : /\ vaults[n].terms = Seeds!Unopened => Holds(s, OpensOn(n, terms))
                  /\ Lacks(n) => Holds(s, Fills(n))
  /\ \A n : Once(s, Filling(n))

LEMMA VaultStepsAre ==
  ASSUME Seeds!SeedingAssumption, BooksOfSeeds, NEW n \in Seeds!Networks, NEW terms \in Terms
  PROVE  PlanFor(Seeds!VaultSteps(n, terms), {n}, terms)
<1> DEFINE o == OpensOn(n, terms)
           f == Fills(n)
           shut == vaults[n].terms = Seeds!Unopened
           low == vaults[n].balance < AMOUNT
           s == Seeds!When(shut, o)
           t == Seeds!When(low, f)
<1>1. Seeds!VaultSteps(n, terms) = s \o t
  BY DEF Seeds!VaultSteps, Seeds!Open, Seeds!TopUp, OpensOn, Fills
<1>2. AMOUNT \in Nat \ {0} /\ vaults[n].balance \in Nat
  BY DEF Seeds!SeedingAssumption, BooksOfSeeds
<1>3. o \in Sending /\ (low => f \in Sending) /\ o.kind = "create" /\ f.kind = "top-up"
  BY <1>2 DEF OpensOn, Fills, Sending
<1>4. shut \in BOOLEAN /\ low \in BOOLEAN
  BY <1>2
<1> HIDE DEF o, f
<1>5. /\ s \in Seq(Sending)
      /\ \A x : Holds(s, x) <=> shut /\ x = o
      /\ \A A : Once(s, A)
  <2> HIDE DEF shut
  <2>1. QED
    BY <1>3, <1>4, WhenIs
<1>6. /\ t \in Seq(Sending)
      /\ \A x : Holds(t, x) <=> low /\ x = f
      /\ \A A : Once(t, A)
  <2> HIDE DEF low
  <2>1. QED
    BY <1>3, <1>4, WhenIs
<1> HIDE DEF s, t
<1>7. \A k : \A i \in DOMAIN s : s[i] \notin Filling(k)
  BY <1>3, <1>5 DEF Holds, Filling
<1>8. /\ s \o t \in Seq(Sending)
      /\ \A x : Holds(s \o t, x) <=> Holds(s, x) \/ Holds(t, x)
      /\ \A k : Once(s \o t, Filling(k))
  BY <1>5, <1>6, <1>7, PlansJoin
<1>9. QED
  BY <1>1, <1>5, <1>6, <1>8 DEF PlanFor, Lacks, o, f

LEMMA PlansAddUp ==
  ASSUME NEW s, NEW t, NEW K, NEW n, NEW terms, PlanFor(s, K, terms), PlanFor(t, {n}, terms),
         n \notin K
  PROVE  PlanFor(s \o t, K \union {n}, terms)
<1>1. /\ s \o t \in Seq(Sending)
      /\ \A x : Holds(s \o t, x) <=> Holds(s, x) \/ Holds(t, x)
  BY PlansJoin DEF PlanFor
<1>2. ASSUME NEW k PROVE Once(s \o t, Filling(k))
  <2>1. CASE k = n
    <3>1. ASSUME NEW i \in DOMAIN s, s[i] \in Filling(k) PROVE FALSE
      <4>1. Holds(s, s[i])
        BY DEF Holds
      <4>2. PICK j \in K : s[i] = OpensOn(j, terms) \/ s[i] = Fills(j)
        BY <4>1 DEF PlanFor
      <4>3. QED
        BY <2>1, <3>1, <4>2 DEF OpensOn, Fills, Filling
    <3>2. QED
      BY <3>1, PlansJoin DEF PlanFor
  <2>2. CASE k # n
    <3>1. ASSUME NEW i \in DOMAIN t, t[i] \in Filling(k) PROVE FALSE
      <4>1. Holds(t, t[i])
        BY DEF Holds
      <4>2. t[i] = OpensOn(n, terms) \/ t[i] = Fills(n)
        BY <4>1 DEF PlanFor
      <4>3. QED
        BY <2>2, <3>1, <4>2 DEF OpensOn, Fills, Filling
    <3>2. QED
      BY <3>1, PlansJoin DEF PlanFor
  <2>3. QED
    BY <2>1, <2>2
<1>3. \A step : Holds(s \o t, step) =>
        \E k \in K \union {n} : step = OpensOn(k, terms) \/ (Lacks(k) /\ step = Fills(k))
  BY <1>1 DEF PlanFor
<1>4. \A k \in K \union {n} :
        /\ vaults[k].terms = Seeds!Unopened => Holds(s \o t, OpensOn(k, terms))
        /\ Lacks(k) => Holds(s \o t, Fills(k))
  BY <1>1 DEF PlanFor
<1>5. QED
  BY <1>1, <1>2, <1>3, <1>4 DEF PlanFor

\* FlattenSeq reads its answer off a recursive function, which exists.
Flattening(flat, seqs, n) ==
  flat = [i \in 1..n |-> IF i = 1 THEN seqs[i] ELSE flat[i - 1] \o seqs[i]]

LEMMA FlatteningExists ==
  ASSUME NEW seqs, NEW n \in Nat
  PROVE  \E flat : Flattening(flat, seqs, n)
<1> DEFINE Good == {k \in 0..n : \E flat : Flattening(flat, seqs, k)}
<1>1. 0 \in Good
  <2> DEFINE flat == [i \in 1..0 |-> seqs[i]]
  <2>1. Flattening(flat, seqs, 0)
    BY DEF Flattening
  <2>2. QED
    BY <2>1
<1>2. ASSUME NEW k \in 1..n, k - 1 \in Good PROVE k \in Good
  <2>1. PICK before : Flattening(before, seqs, k - 1)
    BY <1>2
  <2> DEFINE S(i) == IF i # k THEN before[i]
                     ELSE IF k = 1 THEN seqs[k] ELSE before[k - 1] \o seqs[k]
             flat == [i \in 1..k |-> S(i)]
  <2>2. ASSUME NEW i \in 1..k
        PROVE  S(i) = IF i = 1 THEN seqs[i] ELSE flat[i - 1] \o seqs[i]
    <3>1. CASE i = k
      <4>1. i # 1 => flat[i - 1] = before[k - 1]
        BY <3>1
      <4> HIDE DEF flat
      <4>2. QED
        BY <3>1, <4>1
    <3>2. CASE i # k
      <4>1. i \in 1..(k - 1) /\ (i # 1 => i - 1 \in 1..k /\ i - 1 # k)
        BY <3>2
      <4>2. before[i] = IF i = 1 THEN seqs[i] ELSE before[i - 1] \o seqs[i]
        BY <2>1, <4>1 DEF Flattening
      <4>3. i # 1 => flat[i - 1] = before[i - 1]
        BY <4>1
      <4> HIDE DEF flat
      <4>4. QED
        BY <3>2, <4>2, <4>3
    <3>3. QED
      BY <3>1, <3>2
  <2>3. Flattening(flat, seqs, k)
    <3>1. flat = [i \in 1..k |-> S(i)]
      OBVIOUS
    <3> HIDE DEF S, flat
    <3>2. QED
      BY <2>2, <3>1 DEF Flattening
  <2> HIDE DEF flat
  <2>4. QED
    BY <2>3
<1>3. \A k \in 0..n : k \in Good
  <2> HIDE DEF Good
  <2>1. QED
    BY <1>1, <1>2, CountingInduction
<1>4. QED
  BY <1>3

\* conversionVaultPlan goes over all the networks.
LEMMA VaultsPlanIs ==
  ASSUME Seeds!SeedingAssumption, BooksOfSeeds, NEW terms \in Terms
  PROVE  PlanFor(Seeds!VaultsPlan(terms), Seeds!Networks, terms)
<1> DEFINE n == Len(NETWORKS)
           steps == [i \in 1..n |-> Seeds!VaultSteps(NETWORKS[i], terms)]
           Upto(k) == {NETWORKS[j] : j \in 1..k}
<1>1. /\ NETWORKS \in Seq(Seeds!Networks) /\ n \in Nat /\ DOMAIN NETWORKS = 1..n
      /\ Seeds!Networks = Upto(n)
      /\ \A i, j \in 1..n : NETWORKS[i] = NETWORKS[j] => i = j
  <2>1. NETWORKS \in Seq(Seeds!Networks) /\ Seeds!IsInjective(NETWORKS)
    BY DEF Seeds!SeedingAssumption, Seeds!Networks
  <2>2. n \in Nat /\ DOMAIN NETWORKS = 1..n
    BY <2>1, LenProperties
  <2>3. QED
    BY <2>1, <2>2 DEF Seeds!IsInjective, Seeds!Networks, Seeds!ToSet
<1>2. Seeds!VaultsPlan(terms) = Seeds!FlattenSeq(steps)
  BY <1>1 DEF Seeds!VaultsPlan
<1>3. DOMAIN steps = 1..n /\ Len(steps) = n
  BY <1>1
<1>4. \A i \in 1..n : steps[i] = Seeds!VaultSteps(NETWORKS[i], terms)
  OBVIOUS
<1>5. \A i \in 1..n : NETWORKS[i] \in Seeds!Networks
  BY <1>1
<1>6. n = 0 => steps = <<>>
  BY <1>1
<1> HIDE DEF n, steps
<1>7. CASE n = 0
  <2>1. Seeds!VaultsPlan(terms) = <<>>
    BY <1>2, <1>3, <1>6, <1>7 DEF Seeds!FlattenSeq
  <2>2. Seeds!Networks = {}
    BY <1>1, <1>7
  <2>3. <<>> \in Seq(Sending) /\ DOMAIN <<>> = {}
    BY EmptySeq
  <2>4. QED
    BY <2>1, <2>2, <2>3 DEF PlanFor, Holds, Once
<1>8. CASE n # 0
  <2> DEFINE flat == CHOOSE f : Flattening(f, steps, n)
  <2>1. Flattening(flat, steps, n)
    BY <1>1, FlatteningExists
  <2>2. Seeds!FlattenSeq(steps) = flat[n]
    BY <1>3, <1>8 DEF Seeds!FlattenSeq, Flattening
  <2> HIDE DEF flat
  <2> DEFINE Good == {k \in 0..n : k = 0 \/ PlanFor(flat[k], Upto(k), terms)}
  <2>3. ASSUME NEW k \in 1..n, k - 1 \in Good PROVE k \in Good
    <3>1. k \in Int /\ k # 0 /\ k \in 0..n
      BY <1>1
    <3>2. PlanFor(steps[k], {NETWORKS[k]}, terms)
      <4>1. PlanFor(Seeds!VaultSteps(NETWORKS[k], terms), {NETWORKS[k]}, terms)
        BY <1>5, VaultStepsAre
      <4>2. QED
        BY <1>4, <4>1
    <3>3. flat[k] = IF k = 1 THEN steps[k] ELSE flat[k - 1] \o steps[k]
      BY <2>1 DEF Flattening
    <3>4. CASE k = 1
      <4>1. Upto(1) = {NETWORKS[1]}
        BY DEF Upto
      <4>2. PlanFor(flat[k], Upto(k), terms)
        BY <3>2, <3>3, <3>4, <4>1
      <4>3. QED
        BY <3>1, <4>2
    <3>5. CASE k # 1
      <4>1. Upto(k) = Upto(k - 1) \union {NETWORKS[k]}
        <5>1. 1..k = 1..(k - 1) \union {k}
          BY <3>1
        <5>2. QED
          BY <5>1
      <4>2. NETWORKS[k] \notin Upto(k - 1)
        BY <1>1, <3>1
      <4>3. PlanFor(flat[k - 1], Upto(k - 1), terms)
        BY <2>3, <3>1, <3>5
      <4> HIDE DEF Upto
      <4>4. PlanFor(flat[k - 1] \o steps[k], Upto(k - 1) \union {NETWORKS[k]}, terms)
        BY <3>2, <4>2, <4>3, PlansAddUp
      <4>5. QED
        BY <3>1, <3>3, <3>5, <4>1, <4>4
    <3>6. QED
      BY <3>4, <3>5
  <2>4. 0 \in Good
    BY <1>1
  <2>5. \A k \in 0..n : k \in Good
    <3> HIDE DEF Good
    <3>1. QED
      BY <1>1, <2>3, <2>4, CountingInduction
  <2>6. PlanFor(flat[n], Upto(n), terms)
    <3>1. n \in Good
      <4> HIDE DEF Good
      <4>1. n \in 0..n
        BY <1>1
      <4>2. QED
        BY <2>5, <4>1
    <3> HIDE DEF Upto
    <3>2. QED
      BY <1>8, <3>1
  <2>7. QED
    BY <1>1, <1>2, <2>2, <2>6
<1>9. QED
  BY <1>7, <1>8

SeedTypes ==
  /\ BooksOfSeeds
  /\ late \in Nat
  /\ flight \in Seq(Sending)
  /\ run = [script |-> run.script, terms |-> run.terms, todo |-> run.todo, status |-> run.status]
  /\ run.script \in Seeds!Scripts /\ run.terms \in Terms
  /\ run.todo \in Seq(Sending)
  /\ run.status \in {"running", "done", "failed"}
  /\ run.status # "running" => run.todo = <<>>
  /\ sold \in [Seeds!Networks -> Nat]
  /\ successes \in [Seeds!Scripts -> Nat]

\* No plan mints what is there already, nor twice.
NotTooMuch ==
  /\ Seeds!OnlyTheShortfall
  /\ Once(run.todo, Minting)
  /\ \A step \in Minting : Holds(run.todo, step) => wallet + step.amount <= AMOUNT + late
  /\ \A n \in Seeds!Networks :
       /\ Once(run.todo, Filling(n))
       /\ \A step \in Filling(n) :
            Holds(run.todo, step) => vaults[n].balance + step.amount <= AMOUNT + late

\* A run for the pool has made its deposit or has still to make it.
DepositIsMade ==
  /\ deposited >= AMOUNT * successes["pool"]
  /\ run.status = "running" /\ run.script = "pool" =>
       IF run.todo = <<>> THEN deposited >= AMOUNT * successes["pool"] + AMOUNT
       ELSE run.todo[Len(run.todo)] = [kind |-> "deposit", amount |-> AMOUNT]

\* A run for the vaults has opened and filled each or has still to do so.
Filled(n) ==
  \/ vaults[n].balance + sold[n] >= AMOUNT
  \/ \E step \in Filling(n) :
       Holds(run.todo, step) /\ vaults[n].balance + sold[n] + step.amount >= AMOUNT

VaultsAreSeen ==
  run.script = "vaults" /\ run.status # "failed" =>
    \A n \in Seeds!Networks :
      /\ vaults[n].terms = run.terms \/ Holds(run.todo, OpensOn(n, run.terms))
      /\ Filled(n)

SeedInv == SeedTypes /\ NotTooMuch /\ DepositIsMade /\ VaultsAreSeen

\* What a transaction that lands does to the amounts.
LEMMA LandingIs ==
  ASSUME Seeds!SeedingAssumption, BooksOfSeeds, NEW step \in Sending, NEW confirmed \in BOOLEAN,
         Seeds!Lands(step, confirmed)
  PROVE  /\ BooksOfSeeds'
         /\ step \in Minting => wallet' = wallet + step.amount
         /\ step \notin Minting => wallet' <= wallet
         /\ deposited' >= deposited
         /\ step = [kind |-> "deposit", amount |-> AMOUNT] => deposited' = deposited + AMOUNT
         /\ \A n \in Seeds!Networks :
              /\ step \in Filling(n) => vaults'[n].balance = vaults[n].balance + step.amount
              /\ step \notin Filling(n) => vaults'[n].balance = vaults[n].balance
              /\ vaults[n].terms # Seeds!Unopened => vaults'[n].terms = vaults[n].terms
              /\ \A t : step = OpensOn(n, t) => vaults'[n].terms = t
<1>1. /\ AMOUNT \in Nat \ {0}
      /\ {coin, pool} \subseteq BOOLEAN /\ wallet \in Nat /\ deposited \in Nat
      /\ vaults = [n \in Seeds!Networks |->
                     [terms |-> vaults[n].terms, balance |-> vaults[n].balance]]
      /\ \A n \in Seeds!Networks :
           vaults[n].terms \in Terms \union {Seeds!Unopened} /\ vaults[n].balance \in Nat
  BY DEF Seeds!SeedingAssumption, BooksOfSeeds
<1>2. coin' \in BOOLEAN /\ pool' \in BOOLEAN
  BY <1>1 DEF Seeds!Lands
<1>9. \A n \in Seeds!Networks :
        vaults[n].terms \in Terms \union {Seeds!Unopened} /\ vaults[n].balance \in Nat
  BY <1>1
<1>10. AMOUNT \in Nat \ {0} /\ wallet \in Nat /\ deposited \in Nat
  BY <1>1
<1>11. ASSUME wallet' \in Nat, deposited' \in Nat,
              vaults' = [n \in Seeds!Networks |->
                           [terms |-> vaults'[n].terms, balance |-> vaults'[n].balance]],
              \A n \in Seeds!Networks :
                vaults'[n].terms \in Terms \union {Seeds!Unopened} /\ vaults'[n].balance \in Nat
       PROVE  BooksOfSeeds'
  BY <1>2, <1>11 DEF BooksOfSeeds
<1>3. CASE step.kind \in {"create-mint", "initialize-pool"}
  <2>1. wallet' = wallet /\ deposited' = deposited /\ vaults' = vaults
    BY <1>3 DEF Seeds!Lands
  <2>2. /\ step \notin Minting /\ \A n : step \notin Filling(n)
        /\ step # [kind |-> "deposit", amount |-> AMOUNT]
        /\ \A n, t : step # OpensOn(n, t)
    BY <1>3 DEF Minting, Filling, OpensOn
  <2>3. BooksOfSeeds'
    BY <1>1, <1>2, <2>1 DEF BooksOfSeeds
  <2>4. QED
    BY <1>1, <2>1, <2>2, <2>3
<1>4. CASE step.kind = "mint-to"
  <2>1. step.amount \in Nat
    BY <1>4 DEF Sending
  <2>2. wallet' = wallet + step.amount /\ deposited' = deposited /\ vaults' = vaults
    BY <1>4 DEF Seeds!Lands
  <2>3. /\ step \in Minting /\ \A n : step \notin Filling(n)
        /\ step # [kind |-> "deposit", amount |-> AMOUNT]
        /\ \A n, t : step # OpensOn(n, t)
    BY <1>4 DEF Minting, Filling, OpensOn
  <2>4. BooksOfSeeds'
    BY <1>1, <1>2, <2>1, <2>2 DEF BooksOfSeeds
  <2>5. QED
    BY <1>1, <2>2, <2>3, <2>4
<1>5. CASE step.kind = "deposit"
  <2>1. step.amount \in Nat
    BY <1>5 DEF Sending
  <2>2. /\ wallet' = wallet - step.amount /\ wallet >= step.amount
        /\ deposited' = deposited + step.amount /\ vaults' = vaults
    BY <1>5 DEF Seeds!Lands, Seeds!Accepted
  <2>3. /\ step \notin Minting /\ \A n : step \notin Filling(n)
        /\ \A n, t : step # OpensOn(n, t)
    BY <1>5 DEF Minting, Filling, OpensOn
  <2>4. wallet' \in Nat /\ deposited' \in Nat /\ wallet' <= wallet /\ deposited' >= deposited
    BY <1>1, <2>1, <2>2
  <2>5. BooksOfSeeds'
    BY <1>1, <1>2, <2>2, <2>4 DEF BooksOfSeeds
  <2>6. QED
    BY <2>2, <2>3, <2>4, <2>5
<1>6. CASE step.kind = "create"
  <2>1. /\ step.network \in Seeds!Networks /\ step.terms \in Terms
        /\ vaults[step.network].terms = Seeds!Unopened
    BY <1>6 DEF Sending, Seeds!Lands, Seeds!Accepted
  <2>2. /\ wallet' = wallet /\ deposited' = deposited
        /\ vaults' = [vaults EXCEPT ![step.network].terms = step.terms]
    BY <1>6 DEF Seeds!Lands
  <2>3. \A n \in Seeds!Networks :
          vaults'[n] = [terms |-> IF n = step.network THEN step.terms ELSE vaults[n].terms,
                        balance |-> vaults[n].balance]
    BY <1>1, <2>1, <2>2
  <2>10. \A n \in Seeds!Networks :
           /\ vaults'[n].terms = IF n = step.network THEN step.terms ELSE vaults[n].terms
           /\ vaults'[n].balance = vaults[n].balance
    <3>1. ASSUME NEW n \in Seeds!Networks
          PROVE  /\ vaults'[n].terms = IF n = step.network THEN step.terms ELSE vaults[n].terms
                 /\ vaults'[n].balance = vaults[n].balance
      <4> DEFINE x == IF n = step.network THEN step.terms ELSE vaults[n].terms
                 y == vaults[n].balance
      <4>1. vaults'[n] = [terms |-> x, balance |-> y]
        BY <2>3
      <4> HIDE DEF x, y
      <4>2. vaults'[n].terms = x /\ vaults'[n].balance = y
        BY <4>1
      <4>3. QED
        BY <4>2 DEF x, y
    <3>2. QED
      BY <3>1
  <2>4. vaults' = [n \in Seeds!Networks |->
                     [terms |-> vaults'[n].terms, balance |-> vaults'[n].balance]]
    <3>1. DOMAIN vaults' = Seeds!Networks /\ vaults' = [n \in DOMAIN vaults' |-> vaults'[n]]
      BY <1>1, <2>2
    <3>2. QED
      BY <2>3, <3>1
  <2>8. \A n \in Seeds!Networks :
          vaults'[n].terms \in Terms \union {Seeds!Unopened} /\ vaults'[n].balance \in Nat
    BY <1>9, <2>1, <2>10
  <2>5. BooksOfSeeds'
    BY <1>10, <1>11, <2>2, <2>4, <2>8
  <2>6. /\ step \notin Minting /\ \A n : step \notin Filling(n)
        /\ step # [kind |-> "deposit", amount |-> AMOUNT]
        /\ \A n, t : step = OpensOn(n, t) => step.network = n /\ step.terms = t
    BY <1>6 DEF Minting, Filling, OpensOn
  <2>9. ASSUME NEW n \in Seeds!Networks
        PROVE  /\ vaults'[n].balance = vaults[n].balance
               /\ vaults[n].terms # Seeds!Unopened => vaults'[n].terms = vaults[n].terms
               /\ \A t : step = OpensOn(n, t) => vaults'[n].terms = t
    BY <2>1, <2>6, <2>10
  <2>7. QED
    BY <1>10, <2>2, <2>5, <2>6, <2>9
<1>7. CASE step.kind = "top-up"
  <2>1. step.network \in Seeds!Networks /\ step.amount \in Nat
    BY <1>7 DEF Sending
  <2>2. /\ wallet' = wallet /\ deposited' = deposited
        /\ vaults' = [vaults EXCEPT ![step.network].balance =
                                       vaults[step.network].balance + step.amount]
    BY <1>7 DEF Seeds!Lands
  <2>3. \A n \in Seeds!Networks :
          vaults'[n] = [terms |-> vaults[n].terms,
                        balance |-> IF n = step.network THEN vaults[n].balance + step.amount
                                    ELSE vaults[n].balance]
    BY <1>1, <2>1, <2>2
  <2>10. \A n \in Seeds!Networks :
           /\ vaults'[n].terms = vaults[n].terms
           /\ vaults'[n].balance = IF n = step.network THEN vaults[n].balance + step.amount
                                   ELSE vaults[n].balance
    <3>1. ASSUME NEW n \in Seeds!Networks
          PROVE  /\ vaults'[n].terms = vaults[n].terms
                 /\ vaults'[n].balance = (IF n = step.network THEN vaults[n].balance + step.amount ELSE vaults[n].balance)
      <4> DEFINE x == vaults[n].terms
                 y == (IF n = step.network THEN vaults[n].balance + step.amount ELSE vaults[n].balance)
      <4>1. vaults'[n] = [terms |-> x, balance |-> y]
        BY <2>3
      <4> HIDE DEF x, y
      <4>2. vaults'[n].terms = x /\ vaults'[n].balance = y
        BY <4>1
      <4>3. QED
        BY <4>2 DEF x, y
    <3>2. QED
      BY <3>1
  <2>4. vaults' = [n \in Seeds!Networks |->
                     [terms |-> vaults'[n].terms, balance |-> vaults'[n].balance]]
    <3>1. DOMAIN vaults' = Seeds!Networks /\ vaults' = [n \in DOMAIN vaults' |-> vaults'[n]]
      BY <1>1, <2>2
    <3>2. QED
      BY <2>3, <3>1
  <2>5. \A n \in Seeds!Networks :
          vaults'[n].terms \in Terms \union {Seeds!Unopened} /\ vaults'[n].balance \in Nat
    BY <1>9, <2>1, <2>10
  <2>6. BooksOfSeeds'
    BY <1>10, <1>11, <2>2, <2>4, <2>5
  <2>7. /\ step \notin Minting /\ \A n : step \in Filling(n) <=> n = step.network
        /\ step # [kind |-> "deposit", amount |-> AMOUNT]
        /\ \A n, t : step # OpensOn(n, t)
    BY <1>7 DEF Minting, Filling, OpensOn
  <2>9. ASSUME NEW n \in Seeds!Networks
        PROVE  /\ step \in Filling(n) => vaults'[n].balance = vaults[n].balance + step.amount
               /\ step \notin Filling(n) => vaults'[n].balance = vaults[n].balance
               /\ vaults'[n].terms = vaults[n].terms
    BY <2>7, <2>10
  <2>8. QED
    BY <1>10, <2>2, <2>6, <2>7, <2>9
<1>8. QED
  BY <1>3, <1>4, <1>5, <1>6, <1>7 DEF Sending

LEMMA RemovingKeeps ==
  ASSUME NEW s \in Seq(Sending), NEW i \in DOMAIN s
  PROVE  Seeds!RemoveAt(s, i) \in Seq(Sending) /\ s[i] \in Sending
<1>1. Len(s) \in Nat /\ DOMAIN s = 1..Len(s) /\ \A j \in 1..Len(s) : s[j] \in Sending
  BY LenProperties, ElementOfSeq
<1>2. \A j \in 1..(i - 1) : s[j] \in Sending
  BY <1>1
<1>3. \A j \in (i + 1)..Len(s) : s[j] \in Sending
  BY <1>1
<1>4. i - 1 \in Int /\ i + 1 \in Int /\ Len(s) \in Int
  BY <1>1
<1>5. SubSeq(s, 1, i - 1) \in Seq(Sending)
  BY <1>2, <1>4, SubSeqProperties
<1>6. SubSeq(s, i + 1, Len(s)) \in Seq(Sending)
  BY <1>3, <1>4, SubSeqProperties
<1>7. QED
  BY <1>1, <1>5, <1>6, ConcatProperties DEF Seeds!RemoveAt

LEMMA SeedInvHolds == Seeds!SeedingAssumption /\ Seeds!Init => SeedInv
<1> SUFFICES ASSUME Seeds!SeedingAssumption, Seeds!Init PROVE SeedInv
  OBVIOUS
<1>1. /\ AMOUNT \in Nat \ {0} /\ coin \in BOOLEAN /\ pool = FALSE
      /\ wallet \in 0..AMOUNT /\ deposited = 0
      /\ vaults = [n \in Seeds!Networks |-> [terms |-> Seeds!Unopened, balance |-> 0]]
      /\ run \in [script : {"pool"}, terms : Terms, todo : {<<>>}, status : {"failed"}]
      /\ flight = <<>> /\ late = 0
      /\ sold = [n \in Seeds!Networks |-> 0] /\ successes = [s \in Seeds!Scripts |-> 0]
  BY DEF Seeds!Init, Seeds!SeedingAssumption
<1>2. BooksOfSeeds
  <2>1. \A n \in Seeds!Networks : vaults[n].terms = Seeds!Unopened /\ vaults[n].balance = 0
    BY <1>1
  <2>2. vaults = [n \in Seeds!Networks |->
                    [terms |-> vaults[n].terms, balance |-> vaults[n].balance]]
    BY <1>1, <2>1
  <2>3. wallet \in Nat /\ deposited \in Nat
    BY <1>1
  <2>5. {coin, pool} \subseteq BOOLEAN
    <3>1. coin \in BOOLEAN /\ pool = FALSE
      BY <1>1
    <3>2. QED
      BY <3>1
  <2>4. QED
    BY <2>1, <2>2, <2>3, <2>5 DEF BooksOfSeeds
<1>3. <<>> \in Seq(Sending) /\ DOMAIN <<>> = {}
  BY EmptySeq
<1>4. SeedTypes
  <2>1. run = [script |-> run.script, terms |-> run.terms, todo |-> run.todo,
               status |-> run.status]
    BY <1>1
  <2>2. QED
    BY <1>1, <1>2, <1>3, <2>1 DEF SeedTypes, Seeds!Scripts
<1>5. NotTooMuch
  BY <1>1, <1>3 DEF NotTooMuch, Seeds!OnlyTheShortfall, Holds, Once
<1>6. DepositIsMade
  BY <1>1 DEF DepositIsMade, Seeds!Scripts
<1>7. VaultsAreSeen
  BY <1>1 DEF VaultsAreSeen
<1>8. QED
  BY <1>4, <1>5, <1>6, <1>7 DEF SeedInv

LEMMA StartPoolKeeps ==
  ASSUME Seeds!SeedingAssumption, SeedInv, Seeds!StartPool
  PROVE  SeedInv'
<1> DEFINE plan == Seeds!PoolPlan
<1>1. SeedTypes /\ NotTooMuch /\ DepositIsMade
  BY DEF SeedInv
<1>2. /\ plan \in Seq(Sending) /\ plan # <<>>
      /\ plan[Len(plan)] = [kind |-> "deposit", amount |-> AMOUNT]
      /\ Once(plan, Minting) /\ \A n : Once(plan, Filling(n))
      /\ \A step \in Minting : Holds(plan, step) => wallet + step.amount = AMOUNT
      /\ \A n : \A step \in Filling(n) : ~Holds(plan, step)
  BY <1>1, PoolPlanIs DEF SeedTypes
<1> HIDE DEF plan
<1>3. /\ run' = [script |-> "pool", terms |-> run.terms, todo |-> plan, status |-> "running"]
      /\ sold' = [n \in Seeds!Networks |-> 0]
      /\ coin' = coin /\ pool' = pool /\ wallet' = wallet /\ deposited' = deposited
      /\ vaults' = vaults
      /\ flight' = flight /\ late' = late /\ successes' = successes
  <2>1. run' = [run EXCEPT !.script = "pool", !.todo = plan, !.status = "running"]
    BY DEF Seeds!StartPool, plan
  <2>2. run = [script |-> run.script, terms |-> run.terms, todo |-> run.todo,
               status |-> run.status]
    BY <1>1 DEF SeedTypes
  <2>3. run' = [script |-> "pool", terms |-> run.terms, todo |-> plan, status |-> "running"]
    BY <2>1, <2>2
  <2>4. QED
    BY <2>3 DEF Seeds!StartPool, Seeds!chain
<1>4. /\ run'.script = "pool" /\ run'.terms = run.terms /\ run'.todo = plan
      /\ run'.status = "running"
  BY <1>3
<1>5. SeedTypes'
  <2>1. BooksOfSeeds'
    BY <1>1, <1>3 DEF SeedTypes, BooksOfSeeds
  <2>2. run' = [script |-> run'.script, terms |-> run'.terms, todo |-> run'.todo,
                status |-> run'.status]
    BY <1>3, <1>4
  <2>3. sold' \in [Seeds!Networks -> Nat]
    BY <1>3
  <2>4. QED
    BY <1>1, <1>2, <1>3, <1>4, <2>1, <2>2, <2>3 DEF SeedTypes, Seeds!Scripts
<1>6. NotTooMuch'
  <2>1. Seeds!OnlyTheShortfall'
    BY <1>1, <1>3 DEF NotTooMuch, Seeds!OnlyTheShortfall
  <2>2. ASSUME NEW step \in Minting, Holds(plan, step) PROVE wallet + step.amount <= AMOUNT + late
    <3>1. wallet + step.amount = AMOUNT /\ AMOUNT \in Nat /\ late \in Nat
      BY <1>1, <1>2, <2>2 DEF SeedTypes, Seeds!SeedingAssumption
    <3>2. QED
      BY <3>1
  <2>3. QED
    BY <1>2, <1>3, <1>4, <2>1, <2>2 DEF NotTooMuch
<1>7. DepositIsMade'
  BY <1>1, <1>2, <1>3, <1>4 DEF DepositIsMade
<1>8. VaultsAreSeen'
  BY <1>4 DEF VaultsAreSeen
<1>9. QED
  BY <1>5, <1>6, <1>7, <1>8 DEF SeedInv

LEMMA StartVaultsKeeps ==
  ASSUME Seeds!SeedingAssumption, SeedInv, Seeds!StartVaults
  PROVE  SeedInv'
<1>1. SeedTypes /\ NotTooMuch /\ DepositIsMade
  BY DEF SeedInv
<1>2. PICK terms \in Terms :
        run' = [script |-> "vaults", terms |-> terms,
                todo |-> IF Seeds!Refuses(terms) THEN <<>> ELSE Seeds!VaultsPlan(terms),
                status |-> IF Seeds!Refuses(terms) THEN "failed" ELSE "running"]
  BY DEF Seeds!StartVaults
<1> DEFINE plan == Seeds!VaultsPlan(terms)
           todo == IF Seeds!Refuses(terms) THEN <<>> ELSE plan
           status == IF Seeds!Refuses(terms) THEN "failed" ELSE "running"
<1>3. /\ sold' = [n \in Seeds!Networks |-> 0]
      /\ coin' = coin /\ pool' = pool /\ wallet' = wallet /\ deposited' = deposited
      /\ vaults' = vaults
      /\ flight' = flight /\ late' = late /\ successes' = successes
  BY DEF Seeds!StartVaults, Seeds!chain
<1>4. PlanFor(plan, Seeds!Networks, terms)
  BY <1>1, VaultsPlanIs DEF SeedTypes
<1>5. <<>> \in Seq(Sending) /\ DOMAIN <<>> = {}
  BY EmptySeq
<1>6. AMOUNT \in Nat /\ late \in Nat /\ AMOUNT <= AMOUNT + late
  BY <1>1 DEF SeedTypes, Seeds!SeedingAssumption
<1>7. \A n \in Seeds!Networks :
        vaults[n].balance \in Nat /\ vaults[n].terms \in Terms \union {Seeds!Unopened}
  BY <1>1 DEF SeedTypes, BooksOfSeeds
<1> HIDE DEF plan
<1>8. /\ todo \in Seq(Sending)
      /\ \A step : Holds(todo, step) =>
           \E n \in Seeds!Networks : step = OpensOn(n, terms) \/ (Lacks(n) /\ step = Fills(n))
      /\ \A n : Once(todo, Filling(n))
  BY <1>4, <1>5 DEF PlanFor, Holds, Once
<1>9. status # "failed" =>
        \A n \in Seeds!Networks :
          /\ vaults[n].terms = terms \/ Holds(todo, OpensOn(n, terms))
          /\ Lacks(n) => Holds(todo, Fills(n))
  <2>1. ASSUME status # "failed", NEW n \in Seeds!Networks
        PROVE  /\ vaults[n].terms = terms \/ Holds(todo, OpensOn(n, terms))
               /\ Lacks(n) => Holds(todo, Fills(n))
    <3>1. ~Seeds!Refuses(terms) /\ todo = plan
      BY <2>1
    <3>2. vaults[n].terms \in {Seeds!Unopened, terms}
      BY <3>1 DEF Seeds!Refuses
    <3>3. QED
      BY <1>4, <3>1, <3>2 DEF PlanFor
  <2>2. QED
    BY <2>1
<1>10. status \in {"running", "done", "failed"} /\ (status # "running" => todo = <<>>)
  OBVIOUS
<1>11. run' = [script |-> "vaults", terms |-> terms, todo |-> todo, status |-> status]
  BY <1>2 DEF plan
<1> HIDE DEF todo, status
<1>12. /\ run'.script = "vaults" /\ run'.terms = terms /\ run'.todo = todo
       /\ run'.status = status
  BY <1>11
<1>13. SeedTypes'
  <2>1. BooksOfSeeds'
    BY <1>1, <1>3 DEF SeedTypes, BooksOfSeeds
  <2>2. run' = [script |-> run'.script, terms |-> run'.terms, todo |-> run'.todo,
                status |-> run'.status]
    BY <1>11, <1>12
  <2>3. sold' \in [Seeds!Networks -> Nat]
    BY <1>3
  <2>4. QED
    BY <1>1, <1>3, <1>8, <1>10, <1>12, <2>1, <2>2, <2>3 DEF SeedTypes, Seeds!Scripts
<1>14. \A step \in Minting : ~Holds(todo, step)
  BY <1>8 DEF Minting, OpensOn, Fills
<1>15. \A i \in DOMAIN todo : todo[i] \notin Minting
  BY <1>14 DEF Holds
<1>16. ASSUME NEW n \in Seeds!Networks, NEW step \in Filling(n), Holds(todo, step)
       PROVE  vaults[n].balance + step.amount = AMOUNT
  <2>1. PICK m \in Seeds!Networks : step = OpensOn(m, terms) \/ step = Fills(m)
    BY <1>8, <1>16
  <2>2. m = n /\ step.amount = AMOUNT - vaults[n].balance
    BY <1>16, <2>1 DEF OpensOn, Fills, Filling
  <2>3. vaults[n].balance \in Nat
    BY <1>7
  <2>4. QED
    BY <1>6, <2>2, <2>3
<1>17. NotTooMuch'
  <2>1. Seeds!OnlyTheShortfall'
    BY <1>1, <1>3 DEF NotTooMuch, Seeds!OnlyTheShortfall
  <2>2. Once(todo, Minting)
    BY <1>15 DEF Once
  <2>3. ASSUME NEW n \in Seeds!Networks, NEW step \in Filling(n), Holds(todo, step)
        PROVE  vaults[n].balance + step.amount <= AMOUNT + late
    BY <1>6, <1>16, <2>3
  <2>4. QED
    BY <1>3, <1>8, <1>12, <1>14, <2>1, <2>2, <2>3 DEF NotTooMuch
<1>18. DepositIsMade'
  BY <1>1, <1>3, <1>12 DEF DepositIsMade
<1>19. ASSUME status # "failed", NEW n \in Seeds!Networks PROVE Filled(n)'
  <2>1. sold'[n] = 0 /\ vaults'[n] = vaults[n] /\ vaults[n].balance \in Nat
    BY <1>3, <1>7
  <2>2. CASE Lacks(n)
    <3>1. Holds(todo, Fills(n)) /\ AMOUNT - vaults[n].balance \in Nat \ {0}
      BY <1>6, <1>9, <1>19, <2>1, <2>2 DEF Lacks
    <3>2. Fills(n) \in Filling(n)
      BY <3>1 DEF Fills, Filling, Sending
    <3>3. vaults[n].balance + 0 + Fills(n).amount >= AMOUNT
      <4>1. vaults[n].balance + Fills(n).amount = AMOUNT
        BY <1>16, <3>1, <3>2
      <4>2. Fills(n).amount = AMOUNT - vaults[n].balance
        BY DEF Fills
      <4>3. QED
        BY <1>6, <2>1, <4>2
    <3>4. QED
      BY <1>12, <2>1, <3>1, <3>2, <3>3 DEF Filled
  <2>3. CASE ~Lacks(n)
    <3>1. vaults[n].balance + 0 >= AMOUNT
      BY <1>6, <2>1, <2>3 DEF Lacks
    <3>2. QED
      BY <2>1, <3>1 DEF Filled
  <2>4. QED
    BY <2>2, <2>3
<1>20. VaultsAreSeen'
  BY <1>3, <1>9, <1>12, <1>19 DEF VaultsAreSeen
<1>21. QED
  BY <1>13, <1>17, <1>18, <1>20 DEF SeedInv

\* The amounts of Sending.
LEMMA SendingAmounts ==
  /\ \A step \in Minting : step \in Sending /\ step.amount \in Nat
  /\ \A n : \A step \in Filling(n) : step \in Sending /\ step.amount \in Nat
BY DEF Minting, Filling, Sending

\* What a run sends is what it meant to mint, and it does not send it again.
LEMMA HeadLands ==
  ASSUME Seeds!SeedingAssumption, SeedTypes, NotTooMuch, run.todo # <<>>,
         NEW confirmed \in BOOLEAN, Seeds!Lands(Head(run.todo), confirmed),
         late' = late, run'.todo \in {Tail(run.todo), <<>>}
  PROVE  NotTooMuch'
<1> DEFINE step == Head(run.todo)
           todo == run.todo
           rest == run'.todo
<1>1. AMOUNT \in Nat /\ late \in Nat /\ wallet \in Nat /\ todo \in Seq(Sending)
      /\ \A n \in Seeds!Networks : vaults[n].balance \in Nat
  BY DEF SeedTypes, BooksOfSeeds, Seeds!SeedingAssumption
<1>2. /\ step \in Sending /\ step = todo[1] /\ 1 \in DOMAIN todo
      /\ \A x : Holds(Tail(todo), x) => Holds(todo, x)
      /\ \A A : Once(todo, A) => /\ Once(Tail(todo), A)
                                 /\ step \in A => \A i \in DOMAIN Tail(todo) : Tail(todo)[i] \notin A
  BY <1>1, PlanGoesOn
<1>3. Holds(todo, step)
  BY <1>2 DEF Holds
<1>4. DOMAIN <<>> = {}
  BY EmptySeq
<1>5. /\ \A x : Holds(rest, x) => Holds(todo, x)
      /\ \A A : Once(todo, A) => /\ Once(rest, A)
                                 /\ step \in A => \A i \in DOMAIN rest : rest[i] \notin A
  BY <1>2, <1>4 DEF Holds, Once
<1>6. /\ BooksOfSeeds'
      /\ step \in Minting => wallet' = wallet + step.amount
      /\ step \notin Minting => wallet' <= wallet
      /\ \A n \in Seeds!Networks :
           /\ step \in Filling(n) => vaults'[n].balance = vaults[n].balance + step.amount
           /\ step \notin Filling(n) => vaults'[n].balance = vaults[n].balance
  <2>1. Seeds!Lands(step, confirmed) /\ BooksOfSeeds
    BY DEF SeedTypes
  <2> HIDE DEF step
  <2>2. QED
    BY <1>2, <2>1, LandingIs
<1>7. /\ Once(todo, Minting) /\ \A n \in Seeds!Networks : Once(todo, Filling(n))
      /\ \A x \in Minting : Holds(todo, x) => wallet + x.amount <= AMOUNT + late
      /\ \A n \in Seeds!Networks : \A x \in Filling(n) :
           Holds(todo, x) => vaults[n].balance + x.amount <= AMOUNT + late
      /\ wallet <= AMOUNT + late
      /\ \A n \in Seeds!Networks : vaults[n].balance <= AMOUNT + late
  BY DEF NotTooMuch, Seeds!OnlyTheShortfall
<1> HIDE DEF step, todo, rest
<1>8. wallet' \in Nat /\ \A n \in Seeds!Networks : vaults'[n].balance \in Nat
  BY <1>6 DEF BooksOfSeeds
<1>9. wallet' <= AMOUNT + late
  <2>1. CASE step \in Minting
    BY <1>3, <1>6, <1>7, <2>1
  <2>2. CASE step \notin Minting
    BY <1>1, <1>6, <1>7, <1>8, <2>2
  <2>3. QED
    BY <2>1, <2>2
<1>10. \A n \in Seeds!Networks : vaults'[n].balance <= AMOUNT + late
  BY <1>3, <1>6, <1>7
<1>11. ASSUME NEW x \in Minting, Holds(rest, x) PROVE wallet' + x.amount <= AMOUNT + late
  <2>1. step \notin Minting
    BY <1>5, <1>7, <1>11 DEF Holds
  <2>2. wallet + x.amount <= AMOUNT + late /\ wallet' <= wallet /\ x.amount \in Nat
    BY <1>5, <1>6, <1>7, <1>11, <2>1, SendingAmounts
  <2>3. QED
    BY <1>1, <1>8, <2>2
<1>12. ASSUME NEW n \in Seeds!Networks, NEW x \in Filling(n), Holds(rest, x)
       PROVE  vaults'[n].balance + x.amount <= AMOUNT + late
  <2>1. step \notin Filling(n)
    BY <1>5, <1>7, <1>12 DEF Holds
  <2>2. QED
    BY <1>5, <1>6, <1>7, <1>12, <2>1
<1>13. Once(rest, Minting) /\ \A n \in Seeds!Networks : Once(rest, Filling(n))
  BY <1>5, <1>7
<1>14. QED
  BY <1>9, <1>10, <1>11, <1>12, <1>13 DEF NotTooMuch, Seeds!OnlyTheShortfall, rest

LEMMA ConfirmedKeeps ==
  ASSUME Seeds!SeedingAssumption, SeedInv, Seeds!Confirmed
  PROVE  SeedInv'
<1> DEFINE step == Head(run.todo)
           todo == run.todo
           rest == Tail(run.todo)
<1>1. SeedTypes /\ NotTooMuch /\ DepositIsMade /\ VaultsAreSeen
  BY DEF SeedInv
<1>2. /\ run.status = "running" /\ todo # <<>>
      /\ Seeds!Lands(step, TRUE)
      /\ flight' = flight /\ late' = late /\ sold' = sold /\ successes' = successes
  BY DEF Seeds!Confirmed, Seeds!Under
<1>3. run' = [script |-> run.script, terms |-> run.terms, todo |-> rest, status |-> "running"]
  <2>1. run' = [run EXCEPT !.todo = rest]
    BY DEF Seeds!Confirmed
  <2>2. run = [script |-> run.script, terms |-> run.terms, todo |-> run.todo,
               status |-> run.status]
    BY <1>1 DEF SeedTypes
  <2> HIDE DEF rest
  <2>3. run' = [script |-> run.script, terms |-> run.terms, todo |-> rest, status |-> run.status]
    BY <2>1, <2>2
  <2>4. QED
    BY <1>2, <2>3
<1>4. todo \in Seq(Sending)
  BY <1>1 DEF SeedTypes
<1>5. /\ rest \in Seq(Sending) /\ step \in Sending
      /\ \A x : Holds(todo, x) => x = step \/ Holds(rest, x)
      /\ rest # <<>> => rest[Len(rest)] = todo[Len(todo)]
      /\ rest = <<>> => step = todo[Len(todo)]
  BY <1>2, <1>4, PlanGoesOn
<1>6. NotTooMuch'
  <2>1. run'.todo \in {Tail(run.todo), <<>>}
    BY <1>3
  <2>2. QED
    BY <1>1, <1>2, <2>1, HeadLands
<1> HIDE DEF step, todo, rest
<1>7. /\ run'.script = run.script /\ run'.terms = run.terms /\ run'.todo = rest
      /\ run'.status = "running"
  BY <1>3
<1>8. /\ BooksOfSeeds'
      /\ deposited' >= deposited
      /\ step = [kind |-> "deposit", amount |-> AMOUNT] => deposited' = deposited + AMOUNT
      /\ \A n \in Seeds!Networks :
           /\ step \in Filling(n) => vaults'[n].balance = vaults[n].balance + step.amount
           /\ step \notin Filling(n) => vaults'[n].balance = vaults[n].balance
           /\ vaults[n].terms # Seeds!Unopened => vaults'[n].terms = vaults[n].terms
           /\ \A t : step = OpensOn(n, t) => vaults'[n].terms = t
  <2>1. TRUE \in BOOLEAN /\ BooksOfSeeds
    BY <1>1 DEF SeedTypes
  <2>2. QED
    BY <1>2, <1>5, <2>1, LandingIs
<1>9. SeedTypes'
  <2>1. run' = [script |-> run'.script, terms |-> run'.terms, todo |-> run'.todo,
                status |-> run'.status]
    BY <1>3, <1>7
  <2>2. QED
    BY <1>1, <1>2, <1>5, <1>7, <1>8, <2>1 DEF SeedTypes
<1>10. AMOUNT \in Nat /\ late \in Nat /\ run.terms \in Terms /\ successes["pool"] \in Nat
  BY <1>1 DEF SeedTypes, Seeds!SeedingAssumption, Seeds!Scripts
<1>11. AMOUNT * successes["pool"] \in Nat
  BY <1>10, Multiply
<1>12. deposited \in Nat /\ deposited' \in Nat
  BY <1>1, <1>8 DEF SeedTypes, BooksOfSeeds
<1>13. DepositIsMade'
  <2>1. deposited' >= AMOUNT * successes["pool"]
    <3>1. deposited >= AMOUNT * successes["pool"]
      BY <1>1 DEF DepositIsMade
    <3>2. QED
      BY <1>8, <1>11, <1>12, <3>1
  <2>2. ASSUME run.script = "pool", rest = <<>>
        PROVE  deposited' >= AMOUNT * successes["pool"] + AMOUNT
    <3>1. todo[Len(todo)] = [kind |-> "deposit", amount |-> AMOUNT]
          /\ deposited >= AMOUNT * successes["pool"]
      BY <1>1, <1>2, <2>2 DEF DepositIsMade, todo
    <3>2. deposited' = deposited + AMOUNT
      BY <1>5, <1>8, <2>2, <3>1
    <3>3. QED
      BY <1>10, <1>11, <1>12, <3>1, <3>2
  <2>3. ASSUME run.script = "pool", rest # <<>>
        PROVE  rest[Len(rest)] = [kind |-> "deposit", amount |-> AMOUNT]
    BY <1>1, <1>2, <1>5, <2>3 DEF DepositIsMade, todo
  <2>4. QED
    BY <1>2, <1>7, <2>1, <2>2, <2>3 DEF DepositIsMade
<1>14. VaultsAreSeen'
  <2>1. ASSUME run.script = "vaults", NEW n \in Seeds!Networks
        PROVE  /\ vaults'[n].terms = run.terms \/ Holds(rest, OpensOn(n, run.terms))
               /\ Filled(n)'
    <3>1. /\ vaults[n].terms = run.terms \/ Holds(todo, OpensOn(n, run.terms))
          /\ Filled(n)
      BY <1>1, <1>2, <2>1 DEF VaultsAreSeen, todo
    <3>2. run.terms # Seeds!Unopened
      BY <1>10 DEF Seeds!SeedingAssumption, Seeds!Unopened
    <3>3. vaults'[n].terms = run.terms \/ Holds(rest, OpensOn(n, run.terms))
      BY <1>5, <1>8, <3>1, <3>2
    <3>4. sold'[n] = sold[n] /\ sold[n] \in Nat /\ vaults[n].balance \in Nat
          /\ vaults'[n].balance \in Nat
      BY <1>1, <1>2, <1>8 DEF SeedTypes, BooksOfSeeds
    <3>5. vaults'[n].balance >= vaults[n].balance
      BY <1>8, <3>4, SendingAmounts
    <3>6. ASSUME vaults[n].balance + sold[n] >= AMOUNT PROVE Filled(n)'
      <4>1. vaults'[n].balance + sold'[n] >= AMOUNT
        BY <1>10, <3>4, <3>5, <3>6
      <4>2. QED
        BY <4>1 DEF Filled
    <3>7. ASSUME NEW x \in Filling(n), Holds(todo, x),
                 vaults[n].balance + sold[n] + x.amount >= AMOUNT
          PROVE  Filled(n)'
      <4>1. x.amount \in Nat
        BY SendingAmounts
      <4>2. CASE x = step
        <5>1. vaults'[n].balance = vaults[n].balance + x.amount
          BY <1>8, <3>7, <4>2
        <5>2. vaults'[n].balance + sold[n] >= AMOUNT
          BY <1>10, <3>4, <3>7, <4>1, <5>1
        <5>3. QED
          BY <3>4, <5>2 DEF Filled
      <4>3. CASE x # step
        <5>1. Holds(rest, x)
          BY <1>5, <3>7, <4>3
        <5>2. vaults'[n].balance + sold[n] + x.amount >= AMOUNT
          BY <1>10, <3>4, <3>5, <3>7, <4>1
        <5>3. QED
          BY <1>7, <3>4, <3>7, <5>1, <5>2 DEF Filled
      <4>4. QED
        BY <4>2, <4>3
    <3>8. Filled(n)'
      BY <3>1, <3>6, <3>7 DEF Filled, todo
    <3>9. QED
      BY <3>3, <3>8
  <2>2. QED
    BY <1>7, <2>1 DEF VaultsAreSeen
<1>15. QED
  BY <1>6, <1>9, <1>13, <1>14 DEF SeedInv

\* A run that fails leaves no plan.
LEMMA FailedKeeps ==
  ASSUME Seeds!SeedingAssumption, SeedInv, Seeds!Under, run' = Seeds!Ended,
         late' = late, sold' = sold, successes' = successes,
         flight' = flight \/ flight' = Append(flight, Head(run.todo)),
         \/ UNCHANGED Seeds!chain
         \/ Seeds!Lands(Head(run.todo), FALSE)
  PROVE  SeedInv'
<1> DEFINE step == Head(run.todo)
<1>1. SeedTypes /\ NotTooMuch /\ DepositIsMade /\ run.todo # <<>>
  BY DEF SeedInv, Seeds!Under
<1>2. run' = [script |-> run.script, terms |-> run.terms, todo |-> <<>>, status |-> "failed"]
  <2>1. run' = [run EXCEPT !.todo = <<>>, !.status = "failed"]
    BY DEF Seeds!Ended
  <2>2. run = [script |-> run.script, terms |-> run.terms, todo |-> run.todo,
               status |-> run.status]
    BY <1>1 DEF SeedTypes
  <2>3. QED
    BY <2>1, <2>2
<1>3. /\ run'.script = run.script /\ run'.terms = run.terms /\ run'.todo = <<>>
      /\ run'.status = "failed"
  BY <1>2
<1>4. step \in Sending
  <2>1. run.todo \in Seq(Sending)
    BY <1>1 DEF SeedTypes
  <2>2. QED
    BY <1>1, <2>1, PlanGoesOn
<1>5. flight' \in Seq(Sending)
  <2>1. flight \in Seq(Sending)
    BY <1>1 DEF SeedTypes
  <2> HIDE DEF step
  <2>2. Append(flight, step) \in Seq(Sending)
    BY <1>4, <2>1
  <2>3. QED
    BY <2>1, <2>2 DEF step
<1>6. <<>> \in Seq(Sending) /\ DOMAIN <<>> = {}
  BY EmptySeq
<1>7. ASSUME BooksOfSeeds', deposited' >= deposited PROVE SeedTypes' /\ DepositIsMade' /\ VaultsAreSeen'
  <2>1. run' = [script |-> run'.script, terms |-> run'.terms, todo |-> run'.todo,
                status |-> run'.status]
    BY <1>2, <1>3
  <2>2. SeedTypes'
    BY <1>1, <1>3, <1>5, <1>6, <1>7, <2>1 DEF SeedTypes
  <2>3. DepositIsMade'
    <3>1. AMOUNT \in Nat /\ successes["pool"] \in Nat
      BY <1>1 DEF SeedTypes, Seeds!SeedingAssumption, Seeds!Scripts
    <3>2. AMOUNT * successes["pool"] \in Nat
      BY <3>1, Multiply
    <3>3. deposited \in Nat /\ deposited' \in Nat
      BY <1>1, <1>7 DEF SeedTypes, BooksOfSeeds
    <3>4. deposited' >= AMOUNT * successes'["pool"]
      BY <1>1, <1>7, <3>2, <3>3 DEF DepositIsMade
    <3>5. QED
      BY <1>3, <3>4 DEF DepositIsMade
  <2>4. VaultsAreSeen'
    BY <1>3 DEF VaultsAreSeen
  <2>5. QED
    BY <2>2, <2>3, <2>4
<1>8. CASE UNCHANGED Seeds!chain
  <2>1. /\ coin' = coin /\ pool' = pool /\ wallet' = wallet /\ deposited' = deposited
        /\ vaults' = vaults
    BY <1>8 DEF Seeds!chain
  <2>2. BooksOfSeeds' /\ deposited' >= deposited
    BY <1>1, <2>1 DEF SeedTypes, BooksOfSeeds
  <2>3. NotTooMuch'
    BY <1>1, <1>3, <1>6, <2>1 DEF NotTooMuch, Seeds!OnlyTheShortfall, Holds, Once
  <2>4. QED
    BY <1>7, <2>2, <2>3 DEF SeedInv
<1>9. CASE Seeds!Lands(step, FALSE)
  <2>1. BooksOfSeeds' /\ deposited' >= deposited
    <3>1. FALSE \in BOOLEAN /\ BooksOfSeeds
      BY <1>1 DEF SeedTypes
    <3> HIDE DEF step
    <3>2. QED
      BY <1>4, <1>9, <3>1, LandingIs
  <2>2. NotTooMuch'
    <3>1. FALSE \in BOOLEAN /\ run'.todo \in {Tail(run.todo), <<>>}
      BY <1>3
    <3>2. QED
      BY <1>1, <1>9, <3>1, HeadLands
  <2>3. QED
    BY <1>7, <2>1, <2>2 DEF SeedInv
<1>10. QED
  BY <1>8, <1>9

LEMMA SucceedKeeps ==
  ASSUME Seeds!SeedingAssumption, SeedInv, Seeds!Succeed
  PROVE  SeedInv'
<1>1. SeedTypes /\ NotTooMuch /\ DepositIsMade /\ VaultsAreSeen
  BY DEF SeedInv
<1>2. /\ run.status = "running" /\ run.todo = <<>>
      /\ coin' = coin /\ pool' = pool /\ wallet' = wallet /\ deposited' = deposited
      /\ vaults' = vaults
      /\ flight' = flight /\ late' = late /\ sold' = sold
      /\ successes' = [successes EXCEPT ![run.script] = successes[run.script] + 1]
  BY DEF Seeds!Succeed, Seeds!chain
<1>3. run' = [script |-> run.script, terms |-> run.terms, todo |-> <<>>, status |-> "done"]
  <2>1. run' = [run EXCEPT !.status = "done"]
    BY DEF Seeds!Succeed
  <2>2. run = [script |-> run.script, terms |-> run.terms, todo |-> run.todo,
               status |-> run.status]
    BY <1>1 DEF SeedTypes
  <2>3. QED
    BY <1>2, <2>1, <2>2
<1>4. /\ run'.script = run.script /\ run'.terms = run.terms /\ run'.todo = run.todo
      /\ run'.status = "done"
  BY <1>2, <1>3
<1>5. run.script \in Seeds!Scripts /\ successes \in [Seeds!Scripts -> Nat]
  BY <1>1 DEF SeedTypes
<1>6. SeedTypes'
  <2>1. BooksOfSeeds'
    BY <1>1, <1>2 DEF SeedTypes, BooksOfSeeds
  <2>2. run' = [script |-> run'.script, terms |-> run'.terms, todo |-> run'.todo,
                status |-> run'.status]
    BY <1>2, <1>3, <1>4
  <2>3. successes' \in [Seeds!Scripts -> Nat]
    BY <1>2, <1>5
  <2>4. QED
    BY <1>1, <1>2, <1>4, <2>1, <2>2, <2>3 DEF SeedTypes
<1>7. NotTooMuch'
  BY <1>1, <1>2, <1>4 DEF NotTooMuch, Seeds!OnlyTheShortfall
<1>8. DepositIsMade'
  <2>1. AMOUNT \in Nat /\ successes["pool"] \in Nat /\ deposited \in Nat
    BY <1>1, <1>5 DEF SeedTypes, BooksOfSeeds, Seeds!SeedingAssumption, Seeds!Scripts
  <2>2. AMOUNT * (successes["pool"] + 1) = AMOUNT * successes["pool"] + AMOUNT
    BY <2>1
  <2>3. deposited >= AMOUNT * successes'["pool"]
    <3>1. CASE run.script = "pool"
      <4>1. successes'["pool"] = successes["pool"] + 1
        BY <1>2, <1>5, <3>1
      <4>2. deposited >= AMOUNT * successes["pool"] + AMOUNT
        BY <1>1, <1>2, <3>1 DEF DepositIsMade
      <4>3. QED
        BY <2>2, <4>1, <4>2
    <3>2. CASE run.script # "pool"
      <4>1. successes'["pool"] = successes["pool"]
        BY <1>2, <1>5, <3>2 DEF Seeds!Scripts
      <4>2. QED
        BY <1>1, <4>1 DEF DepositIsMade
    <3>3. QED
      BY <3>1, <3>2
  <2>4. QED
    BY <1>2, <1>4, <2>3 DEF DepositIsMade
<1>9. VaultsAreSeen'
  BY <1>1, <1>2, <1>4 DEF VaultsAreSeen, Filled
<1>10. QED
  BY <1>6, <1>7, <1>8, <1>9 DEF SeedInv

LEMMA LateLandingKeeps ==
  ASSUME Seeds!SeedingAssumption, SeedInv, NEW i \in DOMAIN flight, Seeds!Land(i)
  PROVE  SeedInv'
<1> DEFINE step == flight[i]
           minted == IF step.kind \in {"mint-to", "top-up"} THEN step.amount ELSE 0
<1>1. SeedTypes /\ NotTooMuch /\ DepositIsMade /\ VaultsAreSeen
  BY DEF SeedInv
<1>2. /\ Seeds!Lands(step, FALSE) /\ flight' = Seeds!RemoveAt(flight, i)
      /\ late' = late + minted
      /\ run' = run /\ sold' = sold /\ successes' = successes
  BY DEF Seeds!Land
<1>3. flight' \in Seq(Sending) /\ step \in Sending
  BY <1>1, <1>2, RemovingKeeps DEF SeedTypes
<1> HIDE DEF step
<1>4. /\ BooksOfSeeds'
      /\ step \in Minting => wallet' = wallet + step.amount
      /\ step \notin Minting => wallet' <= wallet
      /\ deposited' >= deposited
      /\ \A n \in Seeds!Networks :
           /\ step \in Filling(n) => vaults'[n].balance = vaults[n].balance + step.amount
           /\ step \notin Filling(n) => vaults'[n].balance = vaults[n].balance
           /\ vaults[n].terms # Seeds!Unopened => vaults'[n].terms = vaults[n].terms
           /\ \A t : step = OpensOn(n, t) => vaults'[n].terms = t
  <2>1. FALSE \in BOOLEAN /\ BooksOfSeeds
    BY <1>1 DEF SeedTypes
  <2>2. QED
    BY <1>2, <1>3, <2>1, LandingIs
<1>5. /\ minted \in Nat
      /\ step \in Minting => minted = step.amount
      /\ \A n : step \in Filling(n) => minted = step.amount
  BY <1>3 DEF Minting, Filling, Sending
<1> HIDE DEF minted
<1>6. /\ AMOUNT \in Nat /\ late \in Nat /\ wallet \in Nat /\ wallet' \in Nat
      /\ late' = late + minted /\ deposited \in Nat /\ deposited' \in Nat
      /\ successes["pool"] \in Nat
  BY <1>1, <1>2, <1>4 DEF SeedTypes, BooksOfSeeds, Seeds!SeedingAssumption, Seeds!Scripts
<1>7. \A n \in Seeds!Networks :
        vaults[n].balance \in Nat /\ vaults'[n].balance \in Nat /\ sold[n] \in Nat
  BY <1>1, <1>4 DEF SeedTypes, BooksOfSeeds
<1>8. SeedTypes'
  <2>1. late' \in Nat
    BY <1>5, <1>6
  <2>2. QED
    BY <1>1, <1>2, <1>3, <1>4, <2>1 DEF SeedTypes
<1>9. wallet' <= wallet + minted
  BY <1>4, <1>5, <1>6
<1>10. \A n \in Seeds!Networks : /\ vaults'[n].balance <= vaults[n].balance + minted
                                 /\ vaults'[n].balance >= vaults[n].balance
  BY <1>4, <1>5, <1>7, SendingAmounts
<1>11. NotTooMuch'
  <2>1. /\ wallet <= AMOUNT + late
        /\ \A n \in Seeds!Networks : vaults[n].balance <= AMOUNT + late
        /\ Once(run.todo, Minting)
        /\ \A x \in Minting : Holds(run.todo, x) => wallet + x.amount <= AMOUNT + late
        /\ \A n \in Seeds!Networks :
             /\ Once(run.todo, Filling(n))
             /\ \A x \in Filling(n) :
                  Holds(run.todo, x) => vaults[n].balance + x.amount <= AMOUNT + late
    BY <1>1 DEF NotTooMuch, Seeds!OnlyTheShortfall
  <2>2. wallet' <= AMOUNT + late'
    BY <1>5, <1>6, <1>9, <2>1
  <2>3. \A n \in Seeds!Networks : vaults'[n].balance <= AMOUNT + late'
    BY <1>5, <1>6, <1>7, <1>10, <2>1
  <2>4. ASSUME NEW x \in Minting, Holds(run.todo, x) PROVE wallet' + x.amount <= AMOUNT + late'
    BY <1>5, <1>6, <1>9, <2>1, <2>4, SendingAmounts
  <2>5. ASSUME NEW n \in Seeds!Networks, NEW x \in Filling(n), Holds(run.todo, x)
        PROVE  vaults'[n].balance + x.amount <= AMOUNT + late'
    <3>1. vaults[n].balance + x.amount <= AMOUNT + late /\ x.amount \in Nat
      BY <2>1, <2>5, SendingAmounts
    <3>2. QED
      BY <1>5, <1>6, <1>7, <1>10, <3>1
  <2>6. QED
    BY <1>2, <2>1, <2>2, <2>3, <2>4, <2>5 DEF NotTooMuch, Seeds!OnlyTheShortfall
<1>12. DepositIsMade'
  <2>1. AMOUNT * successes["pool"] \in Nat
    BY <1>6, Multiply
  <2>2. QED
    BY <1>1, <1>2, <1>4, <1>6, <2>1 DEF DepositIsMade
<1>13. VaultsAreSeen'
  <2>1. ASSUME run.script = "vaults", run.status # "failed", NEW n \in Seeds!Networks
        PROVE  /\ vaults'[n].terms = run.terms \/ Holds(run.todo, OpensOn(n, run.terms))
               /\ Filled(n)'
    <3>1. /\ vaults[n].terms = run.terms \/ Holds(run.todo, OpensOn(n, run.terms))
          /\ Filled(n)
      BY <1>1, <2>1 DEF VaultsAreSeen
    <3>2. run.terms # Seeds!Unopened
      BY <1>1 DEF SeedTypes, Seeds!SeedingAssumption, Seeds!Unopened
    <3>3. /\ AMOUNT \in Nat /\ vaults[n].balance \in Nat /\ vaults'[n].balance \in Nat
          /\ sold[n] \in Nat /\ vaults'[n].balance >= vaults[n].balance
      BY <1>6, <1>7, <1>10
    <3>4. ASSUME vaults[n].balance + sold[n] >= AMOUNT PROVE Filled(n)'
      <4>1. vaults'[n].balance + sold'[n] >= AMOUNT
        BY <1>2, <3>3, <3>4
      <4>2. QED
        BY <4>1 DEF Filled
    <3>5. ASSUME NEW x \in Filling(n), Holds(run.todo, x),
                 vaults[n].balance + sold[n] + x.amount >= AMOUNT
          PROVE  Filled(n)'
      <4>1. vaults'[n].balance + sold'[n] + x.amount >= AMOUNT
        BY <1>2, <3>3, <3>5, SendingAmounts
      <4>2. Holds(run'.todo, x)
        BY <1>2, <3>5
      <4>3. QED
        BY <3>5, <4>1, <4>2 DEF Filled
    <3>6. QED
      BY <1>4, <3>1, <3>2, <3>4, <3>5 DEF Filled
  <2>2. QED
    BY <1>2, <2>1 DEF VaultsAreSeen
<1>14. QED
  BY <1>8, <1>11, <1>12, <1>13 DEF SeedInv

LEMMA SellKeeps ==
  ASSUME Seeds!SeedingAssumption, SeedInv, NEW m \in Seeds!Networks, Seeds!Sell(m)
  PROVE  SeedInv'
<1>1. SeedTypes /\ NotTooMuch /\ DepositIsMade /\ VaultsAreSeen
  BY DEF SeedInv
<1>2. /\ vaults[m].balance > 0
      /\ vaults' = [vaults EXCEPT ![m].balance = vaults[m].balance - 1]
      /\ sold' = [sold EXCEPT ![m] = sold[m] + 1]
      /\ coin' = coin /\ pool' = pool /\ wallet' = wallet /\ deposited' = deposited
      /\ run' = run /\ flight' = flight /\ late' = late /\ successes' = successes
  BY DEF Seeds!Sell
<1>3. /\ AMOUNT \in Nat /\ late \in Nat
      /\ sold \in [Seeds!Networks -> Nat]
      /\ \A n \in Seeds!Networks :
           vaults[n].balance \in Nat /\ vaults[n].terms \in Terms \union {Seeds!Unopened}
      /\ vaults = [n \in Seeds!Networks |->
                     [terms |-> vaults[n].terms, balance |-> vaults[n].balance]]
  BY <1>1 DEF SeedTypes, BooksOfSeeds, Seeds!SeedingAssumption
<1>4. \A n \in Seeds!Networks :
        vaults'[n] = [terms |-> vaults[n].terms,
                      balance |-> IF n = m THEN vaults[n].balance - 1 ELSE vaults[n].balance]
  BY <1>2, <1>3
<1>5. ASSUME NEW n \in Seeds!Networks
      PROVE  /\ vaults'[n].terms = vaults[n].terms
             /\ vaults'[n].balance = IF n = m THEN vaults[n].balance - 1 ELSE vaults[n].balance
  <2> DEFINE x == vaults[n].terms
             y == IF n = m THEN vaults[n].balance - 1 ELSE vaults[n].balance
  <2>1. vaults'[n] = [terms |-> x, balance |-> y]
    BY <1>4
  <2> HIDE DEF x, y
  <2>2. vaults'[n].terms = x /\ vaults'[n].balance = y
    BY <2>1
  <2>3. QED
    BY <2>2 DEF x, y
<1>6. \A n \in Seeds!Networks :
        /\ vaults'[n].balance \in Nat /\ vaults'[n].balance <= vaults[n].balance
        /\ sold'[n] \in Nat
        /\ vaults'[n].balance + sold'[n] = vaults[n].balance + sold[n]
  <2>1. ASSUME NEW n \in Seeds!Networks
        PROVE  /\ vaults'[n].balance \in Nat /\ vaults'[n].balance <= vaults[n].balance
               /\ sold'[n] \in Nat
               /\ vaults'[n].balance + sold'[n] = vaults[n].balance + sold[n]
    <3>1. vaults[n].balance \in Nat /\ sold[n] \in Nat /\ vaults[m].balance \in Nat
      BY <1>3
    <3>2. sold'[n] = IF n = m THEN sold[n] + 1 ELSE sold[n]
      BY <1>2, <1>3
    <3>3. QED
      BY <1>2, <1>5, <3>1, <3>2
  <2>2. QED
    BY <2>1
<1>12. /\ AMOUNT \in Nat /\ late \in Nat
       /\ \A n \in Seeds!Networks : vaults[n].balance \in Nat
  BY <1>3
<1>7. SeedTypes'
  <2>1. vaults' = [n \in Seeds!Networks |->
                     [terms |-> vaults'[n].terms, balance |-> vaults'[n].balance]]
    <3>1. DOMAIN vaults' = Seeds!Networks /\ vaults' = [n \in DOMAIN vaults' |-> vaults'[n]]
      BY <1>2, <1>3
    <3>2. QED
      BY <1>4, <3>1
  <2>2. \A n \in Seeds!Networks :
          vaults'[n].terms \in Terms \union {Seeds!Unopened} /\ vaults'[n].balance \in Nat
    BY <1>3, <1>5, <1>6
  <2>3. {coin', pool'} \subseteq BOOLEAN /\ wallet' \in Nat /\ deposited' \in Nat
    BY <1>1, <1>2 DEF SeedTypes, BooksOfSeeds
  <2>4. BooksOfSeeds'
    BY <2>1, <2>2, <2>3 DEF BooksOfSeeds
  <2>5. sold' \in [Seeds!Networks -> Nat]
    BY <1>2, <1>3
  <2>6. QED
    BY <1>1, <1>2, <2>4, <2>5 DEF SeedTypes
<1>8. NotTooMuch'
  <2>1. /\ wallet <= AMOUNT + late
        /\ \A n \in Seeds!Networks : vaults[n].balance <= AMOUNT + late
        /\ Once(run.todo, Minting)
        /\ \A x \in Minting : Holds(run.todo, x) => wallet + x.amount <= AMOUNT + late
        /\ \A n \in Seeds!Networks :
             /\ Once(run.todo, Filling(n))
             /\ \A x \in Filling(n) :
                  Holds(run.todo, x) => vaults[n].balance + x.amount <= AMOUNT + late
    BY <1>1 DEF NotTooMuch, Seeds!OnlyTheShortfall
  <2>2. \A n \in Seeds!Networks : vaults'[n].balance <= AMOUNT + late
    BY <1>6, <1>12, <2>1
  <2>3. ASSUME NEW n \in Seeds!Networks, NEW x \in Filling(n), Holds(run.todo, x)
        PROVE  vaults'[n].balance + x.amount <= AMOUNT + late
    <3>1. vaults[n].balance + x.amount <= AMOUNT + late /\ x.amount \in Nat
      BY <2>1, <2>3, SendingAmounts
    <3>2. QED
      BY <1>6, <1>12, <3>1
  <2>4. QED
    BY <1>2, <2>1, <2>2, <2>3 DEF NotTooMuch, Seeds!OnlyTheShortfall
<1>9. DepositIsMade'
  BY <1>1, <1>2 DEF DepositIsMade
<1>10. VaultsAreSeen'
  <2>1. ASSUME run.script = "vaults", run.status # "failed", NEW n \in Seeds!Networks
        PROVE  /\ vaults'[n].terms = run.terms \/ Holds(run.todo, OpensOn(n, run.terms))
               /\ Filled(n)'
    <3>1. /\ vaults[n].terms = run.terms \/ Holds(run.todo, OpensOn(n, run.terms))
          /\ Filled(n)
      BY <1>1, <2>1 DEF VaultsAreSeen
    <3>2. vaults'[n].balance + sold'[n] = vaults[n].balance + sold[n]
      BY <1>6
    <3>3. Filled(n)'
      BY <1>2, <3>1, <3>2 DEF Filled
    <3>4. QED
      BY <1>5, <3>1, <3>3
  <2>2. QED
    BY <1>2, <2>1 DEF VaultsAreSeen
<1>11. QED
  BY <1>7, <1>8, <1>9, <1>10 DEF SeedInv

\* What the seed scripts do to a network is what they say.  They mint the shortfall
\* only (OnlyTheShortfall), and a run that ended well left the pool and the vaults
\* with what it was asked for (SuccessIsTrue), whichever of its transactions were
\* lost, landed late, or were sent again by the next run.
THEOREM SeedsAreTrue ==
  Seeds!SeedingAssumption /\ Seeds!Spec => [](Seeds!OnlyTheShortfall /\ Seeds!SuccessIsTrue)
<1> SUFFICES ASSUME Seeds!SeedingAssumption
             PROVE  Seeds!Spec => [](Seeds!OnlyTheShortfall /\ Seeds!SuccessIsTrue)
  OBVIOUS
<1>1. Seeds!Init => SeedInv
  BY SeedInvHolds
<1>2. SeedInv /\ [Seeds!Next]_Seeds!vars => SeedInv'
  <2> SUFFICES ASSUME SeedInv, [Seeds!Next]_Seeds!vars PROVE SeedInv'
    OBVIOUS
  <2>1. SeedTypes /\ NotTooMuch /\ DepositIsMade /\ VaultsAreSeen
    BY DEF SeedInv
  <2>2. CASE Seeds!StartPool
    BY <2>2, StartPoolKeeps
  <2>3. CASE Seeds!StartVaults
    BY <2>3, StartVaultsKeeps
  <2>4. CASE Seeds!Confirmed
    BY <2>4, ConfirmedKeeps
  <2>5. CASE Seeds!Refused
    <3>1. /\ Seeds!Under /\ run' = Seeds!Ended /\ UNCHANGED Seeds!chain
          /\ flight' = flight /\ late' = late /\ sold' = sold /\ successes' = successes
      BY <2>5 DEF Seeds!Refused
    <3>2. QED
      BY <3>1, FailedKeeps
  <2>6. CASE Seeds!Lost
    <3>1. /\ Seeds!Under /\ run' = Seeds!Ended
          /\ late' = late /\ sold' = sold /\ successes' = successes
          /\ flight' = flight \/ flight' = Append(flight, Head(run.todo))
          /\ UNCHANGED Seeds!chain \/ Seeds!Lands(Head(run.todo), FALSE)
      BY <2>6 DEF Seeds!Lost
    <3>2. QED
      BY <3>1, FailedKeeps
  <2>7. CASE Seeds!Succeed
    BY <2>7, SucceedKeeps
  <2>8. ASSUME NEW i \in DOMAIN flight, Seeds!Land(i) PROVE SeedInv'
    BY <2>8, LateLandingKeeps
  <2>9. ASSUME NEW i \in DOMAIN flight, Seeds!Expire(i) PROVE SeedInv'
    <3>1. /\ flight' = Seeds!RemoveAt(flight, i)
          /\ coin' = coin /\ pool' = pool /\ wallet' = wallet /\ deposited' = deposited
          /\ vaults' = vaults
          /\ run' = run /\ late' = late /\ sold' = sold /\ successes' = successes
      BY <2>9 DEF Seeds!Expire, Seeds!chain
    <3>2. flight' \in Seq(Sending)
      BY <2>1, <3>1, RemovingKeeps DEF SeedTypes
    <3>3. SeedTypes'
      BY <2>1, <3>1, <3>2 DEF SeedTypes, BooksOfSeeds
    <3>4. NotTooMuch' /\ DepositIsMade' /\ VaultsAreSeen'
      BY <2>1, <3>1 DEF NotTooMuch, Seeds!OnlyTheShortfall, DepositIsMade, VaultsAreSeen, Filled
    <3>5. QED
      BY <3>3, <3>4 DEF SeedInv
  <2>10. ASSUME NEW n \in Seeds!Networks, Seeds!Sell(n) PROVE SeedInv'
    BY <2>10, SellKeeps
  <2>11. CASE UNCHANGED Seeds!vars
    <3>1. /\ coin' = coin /\ pool' = pool /\ wallet' = wallet /\ deposited' = deposited
          /\ vaults' = vaults
          /\ run' = run /\ late' = late /\ sold' = sold /\ successes' = successes
          /\ flight' = flight
      BY <2>11 DEF Seeds!vars, Seeds!chain
    <3>2. SeedTypes'
      BY <2>1, <3>1 DEF SeedTypes, BooksOfSeeds
    <3>3. NotTooMuch' /\ DepositIsMade' /\ VaultsAreSeen'
      BY <2>1, <3>1 DEF NotTooMuch, Seeds!OnlyTheShortfall, DepositIsMade, VaultsAreSeen, Filled
    <3>4. QED
      BY <3>2, <3>3 DEF SeedInv
  <2>12. QED
    BY <2>2, <2>3, <2>4, <2>5, <2>6, <2>7, <2>8, <2>9, <2>10, <2>11 DEF Seeds!Next
<1>3. SeedInv => Seeds!OnlyTheShortfall /\ Seeds!SuccessIsTrue
  <2> SUFFICES ASSUME SeedInv PROVE Seeds!OnlyTheShortfall /\ Seeds!SuccessIsTrue
    OBVIOUS
  <2>1. SeedTypes /\ NotTooMuch /\ DepositIsMade /\ VaultsAreSeen
    BY DEF SeedInv
  <2>2. DOMAIN <<>> = {}
    BY EmptySeq
  <2>3. ASSUME run.status = "done", run.script = "vaults", NEW n \in Seeds!Networks
        PROVE  vaults[n].terms = run.terms /\ vaults[n].balance + sold[n] >= AMOUNT
    <3>1. run.todo = <<>> /\ \A x : ~Holds(run.todo, x)
      BY <2>1, <2>2, <2>3 DEF SeedTypes, Holds
    <3>2. QED
      BY <2>1, <2>3, <3>1 DEF VaultsAreSeen, Filled
  <2>4. QED
    BY <2>1, <2>3 DEF NotTooMuch, DepositIsMade, Seeds!SuccessIsTrue
<1>4. QED
  BY <1>1, <1>2, <1>3, PTL DEF Seeds!Spec
-----------------------------------------------------------------------------
(***************************************************************************)
(* The journal as an operator is shown it: for any number of sweeps, mints *)
(* and loans, and wherever the query cuts the journal.                     *)
(***************************************************************************)
CONSTANTS Mints, Loans, LIMIT, ONE_PER_SLOT, Deviations, MAX_SWEEPS

VARIABLE sweeps

Told == INSTANCE Withholdings

LEMMA ToldAlike ==
  /\ \A S : Told!Cardinality(S) = Cardinality(S)
  /\ \A S : Told!IsFiniteSet(S) <=> IsFiniteSet(S)
<1>1. \A S : Told!Cardinality(S) = Cardinality(S)
  BY DEF Told!Cardinality, Cardinality
<1>2. \A S : Told!IsFiniteSet(S) <=> IsFiniteSet(S)
  BY DEF Told!IsFiniteSet, IsFiniteSet
<1>3. QED
  BY <1>1, <1>2

\* The events of a sweep.
SkipEvents == [kind : {"skipped"}, mint : Mints, deviation : Deviations]
LoanEvents(kinds) == [kind : kinds, mint : Mints, loan : Loans]
ToldEvents == SkipEvents \union LoanEvents({"swept", "manual"})

\* No event comes twice in it.
Distinct(s) == \A i, j \in DOMAIN s : s[i] = s[j] => i = j

\* They are of one mint and each is about a loan of its own, but for a skip, which
\* comes first and withholds nothing.
EventsInv(es) ==
  /\ es \in Seq(ToldEvents)
  /\ Distinct(es)
  /\ \A i, j \in DOMAIN es : es[i].mint = es[j].mint
  /\ \A i \in DOMAIN es : es[i].kind = "skipped" => i = 1
  /\ \A i, j \in DOMAIN es : ~(es[i].kind = "skipped" /\ es[j].kind = "swept")

\* The sequence of a finite set holds each of its elements once.
LEMMA ListedOnce ==
  ASSUME NEW S, IsFiniteSet(S)
  PROVE  Told!SetToSeq(S) \in Seq(S) /\ Distinct(Told!SetToSeq(S))
<1>1. Cardinality(S) \in Nat /\ ExistsBijection(1..Cardinality(S), S)
  BY FS_CardinalityType
<1>2. PICK f \in Bijection(1..Cardinality(S), S) : TRUE
  BY <1>1 DEF ExistsBijection
<1> DEFINE n == Cardinality(S)
<1>3. f \in [1..n -> S] /\ Told!IsInjective(f)
  BY <1>2 DEF Bijection, Injection, IsInjective, Told!IsInjective
<1>4. Told!SetToSeq(S) = CHOOSE s \in [1..n -> S] : Told!IsInjective(s)
  BY ToldAlike DEF Told!SetToSeq
<1>5. Told!SetToSeq(S) \in [1..n -> S] /\ Told!IsInjective(Told!SetToSeq(S))
  BY <1>3, <1>4
<1>6. Told!SetToSeq(S) \in Seq(S)
  BY <1>1, <1>5, SeqDef
<1>7. QED
  BY <1>5, <1>6 DEF Told!IsInjective, Distinct

\* One event of each loan.
LEMMA OfLoansAre ==
  ASSUME NEW kind, NEW m \in Mints, NEW loans \in SUBSET Loans, IsFiniteSet(loans)
  PROVE  LET es == Told!OfLoans(kind, m, loans)
         IN  /\ es \in Seq(LoanEvents({kind}))
             /\ Distinct(es)
             /\ \A i \in DOMAIN es : es[i].mint = m
<1> DEFINE S  == {[kind |-> kind, mint |-> m, loan |-> l] : l \in loans}
           es == Told!OfLoans(kind, m, loans)
<1>1. IsFiniteSet(S)
  <2> DEFINE f == [l \in loans |-> [kind |-> kind, mint |-> m, loan |-> l]]
  <2>1. f \in Surjection(loans, S)
    BY DEF Surjection
  <2>2. QED
    BY <2>1, FS_Surjection
<1>2. es = Told!SetToSeq(S)
  BY DEF Told!OfLoans
<1>3. es \in Seq(S) /\ Distinct(es)
  <2> HIDE DEF S, es
  <2>1. QED
    BY <1>1, <1>2, ListedOnce
<1>4. S \subseteq LoanEvents({kind}) /\ \A e \in S : e.mint = m
  BY DEF LoanEvents
<1> HIDE DEF S, es
<1>5. es \in Seq(LoanEvents({kind}))
  BY <1>3, <1>4, SeqMonotonic
<1>6. \A i \in DOMAIN es : es[i] \in S
  BY <1>3, LenProperties
<1>7. QED
  BY <1>3, <1>4, <1>5, <1>6 DEF es

\* What a sequence appended to another one holds.
LEMMA JoinedAre ==
  ASSUME NEW S, NEW s \in Seq(S), NEW t \in Seq(S)
  PROVE  /\ s \o t \in Seq(S)
         /\ \A i \in DOMAIN (s \o t) :
              \/ i \in DOMAIN s /\ (s \o t)[i] = s[i]
              \/ i \notin DOMAIN s /\ i - Len(s) \in DOMAIN t /\ (s \o t)[i] = t[i - Len(s)]
<1> DEFINE u == s \o t
           m == Len(s)
           n == Len(t)
<1>1. m \in Nat /\ n \in Nat /\ DOMAIN s = 1..m /\ DOMAIN t = 1..n
  BY LenProperties
<1>2. /\ u \in Seq(S) /\ Len(u) = m + n
      /\ \A i \in 1..(m + n) : u[i] = IF i <= m THEN s[i] ELSE t[i - m]
  BY ConcatProperties
<1>3. DOMAIN u = 1..(m + n)
  BY <1>2, LenProperties
<1> HIDE DEF u, m, n
<1>4. \A i \in DOMAIN u : \/ i \in DOMAIN s /\ u[i] = s[i]
                          \/ i \notin DOMAIN s /\ i - m \in DOMAIN t /\ u[i] = t[i - m]
  BY <1>1, <1>2, <1>3
<1>5. QED
  BY <1>2, <1>4 DEF u, m

\* Two lists of different events of a mint are one.
LEMMA JoinedDistinct ==
  ASSUME NEW S, NEW s \in Seq(S), NEW t \in Seq(S), Distinct(s), Distinct(t),
         \A i \in DOMAIN s, j \in DOMAIN t : s[i] # t[j]
  PROVE  Distinct(s \o t)
<1>1. Len(s) \in Nat /\ DOMAIN s = 1..Len(s)
  BY LenProperties
<1>2. Len(t) \in Nat /\ DOMAIN t = 1..Len(t) /\ Len(s \o t) \in Nat /\ DOMAIN (s \o t) = 1..Len(s \o t)
  BY JoinedAre, LenProperties
<1>3. ASSUME NEW i \in DOMAIN (s \o t), NEW j \in DOMAIN (s \o t), (s \o t)[i] = (s \o t)[j]
      PROVE  i = j
  <2>1. i \in Nat /\ j \in Nat
    BY <1>2
  <2>2. \/ i \in DOMAIN s /\ (s \o t)[i] = s[i]
        \/ i \notin DOMAIN s /\ i - Len(s) \in DOMAIN t /\ (s \o t)[i] = t[i - Len(s)]
    BY JoinedAre
  <2>3. \/ j \in DOMAIN s /\ (s \o t)[j] = s[j]
        \/ j \notin DOMAIN s /\ j - Len(s) \in DOMAIN t /\ (s \o t)[j] = t[j - Len(s)]
    BY JoinedAre
  <2>4. CASE i \in DOMAIN s /\ j \in DOMAIN s
    BY <1>3, <2>2, <2>3, <2>4 DEF Distinct
  <2>5. CASE i \notin DOMAIN s /\ j \notin DOMAIN s
    <3>1. i - Len(s) = j - Len(s)
      BY <1>3, <2>2, <2>3, <2>5 DEF Distinct
    <3>2. QED
      BY <1>1, <2>1, <3>1
  <2>6. QED
    BY <1>3, <2>2, <2>3, <2>4, <2>5
<1> QED
  BY <1>3 DEF Distinct

LEMMA EventsAre ==
  ASSUME IsFiniteSet(Loans), NEW es \in Told!Events
  PROVE  EventsInv(es)
<1>1. ASSUME NEW m \in Mints, NEW d \in Deviations, NEW flagged \in SUBSET Loans,
             es = Told!Skip(m, d, flagged)
      PROVE  EventsInv(es)
  <2> DEFINE s == <<[kind |-> "skipped", mint |-> m, deviation |-> d]>>
             t == Told!OfLoans("manual", m, flagged)
  <2>1. IsFiniteSet(flagged)
    BY FS_Subset
  <2>2. /\ t \in Seq(LoanEvents({"manual"})) /\ Distinct(t)
        /\ \A i \in DOMAIN t : t[i].mint = m
    BY <2>1, OfLoansAre
  <2>3. /\ s \in Seq(SkipEvents) /\ DOMAIN s = {1} /\ s[1].kind = "skipped" /\ s[1].mint = m
    BY DEF SkipEvents
  <2>4. es = s \o t
    BY <1>1 DEF Told!Skip
  <2> HIDE DEF s, t
  <2>5. \A i \in DOMAIN t : t[i] \in LoanEvents({"manual"})
    BY <2>2, LenProperties
  <2>6. \A i \in DOMAIN t : t[i].kind = "manual"
    BY <2>5 DEF LoanEvents
  <2>7. SkipEvents \subseteq ToldEvents /\ LoanEvents({"manual"}) \subseteq ToldEvents
    BY DEF ToldEvents, LoanEvents
  <2>8. s \in Seq(ToldEvents) /\ t \in Seq(ToldEvents)
    BY <2>2, <2>3, <2>7, SeqMonotonic
  <2>9. Distinct(s)
    BY <2>3 DEF Distinct
  <2>10. \A i \in DOMAIN s, j \in DOMAIN t : s[i] # t[j]
    BY <2>3, <2>6
  <2>11. es \in Seq(ToldEvents) /\ Distinct(es)
    BY <2>2, <2>4, <2>8, <2>9, <2>10, JoinedAre, JoinedDistinct
  <2>12. \A i \in DOMAIN es : \/ i \in DOMAIN s /\ es[i] = s[i]
                              \/ i \notin DOMAIN s /\ i - Len(s) \in DOMAIN t /\ es[i] = t[i - Len(s)]
    BY <2>4, <2>8, JoinedAre
  <2>13. \A i \in DOMAIN es : /\ es[i].mint = m
                              /\ es[i].kind = "skipped" => i = 1
                              /\ es[i].kind # "swept"
    BY <2>2, <2>3, <2>6, <2>12
  <2>14. QED
    BY <2>11, <2>13 DEF EventsInv
<1>2. ASSUME NEW m \in Mints, NEW paid \in SUBSET Loans, NEW flagged \in SUBSET Loans,
             es = Told!Sweep(m, paid, flagged)
      PROVE  EventsInv(es)
  <2> DEFINE s == Told!OfLoans("swept", m, paid)
             t == Told!OfLoans("manual", m, flagged)
  <2>1. IsFiniteSet(flagged) /\ IsFiniteSet(paid)
    BY FS_Subset
  <2>2. /\ t \in Seq(LoanEvents({"manual"})) /\ Distinct(t)
        /\ \A i \in DOMAIN t : t[i].mint = m
    BY <2>1, OfLoansAre
  <2>3. /\ s \in Seq(LoanEvents({"swept"})) /\ Distinct(s)
        /\ \A i \in DOMAIN s : s[i].mint = m
    BY <2>1, OfLoansAre
  <2>4. es = s \o t
    BY <1>2 DEF Told!Sweep
  <2> HIDE DEF s, t
  <2>5. /\ \A i \in DOMAIN t : t[i] \in LoanEvents({"manual"})
        /\ \A i \in DOMAIN s : s[i] \in LoanEvents({"swept"})
    BY <2>2, <2>3, LenProperties
  <2>6. (\A i \in DOMAIN t : t[i].kind = "manual") /\ (\A i \in DOMAIN s : s[i].kind = "swept")
    BY <2>5 DEF LoanEvents
  <2>7. LoanEvents({"swept"}) \subseteq ToldEvents /\ LoanEvents({"manual"}) \subseteq ToldEvents
    BY DEF ToldEvents, LoanEvents
  <2>8. s \in Seq(ToldEvents) /\ t \in Seq(ToldEvents)
    BY <2>2, <2>3, <2>7, SeqMonotonic
  <2>10. \A i \in DOMAIN s, j \in DOMAIN t : s[i] # t[j]
    BY <2>6
  <2>11. es \in Seq(ToldEvents) /\ Distinct(es)
    BY <2>2, <2>3, <2>4, <2>8, <2>10, JoinedAre, JoinedDistinct
  <2>12. \A i \in DOMAIN es : \/ i \in DOMAIN s /\ es[i] = s[i]
                              \/ i \notin DOMAIN s /\ i - Len(s) \in DOMAIN t /\ es[i] = t[i - Len(s)]
    BY <2>4, <2>8, JoinedAre
  <2>13. \A i \in DOMAIN es : es[i].mint = m /\ es[i].kind # "skipped"
    BY <2>2, <2>3, <2>6, <2>12
  <2>14. QED
    BY <2>11, <2>13 DEF EventsInv
<1>3. QED
  BY <1>1, <1>2 DEF Told!Events

-----------------------------------------------------------------------------
\* The sweeps are on the chain in the order of their slots, each under a signature of
\* its own; with one to a slot, that order is theirs.
SweepType == [slot : Nat, signature : Nat, events : Told!Events \ {<<>>}]

SweepsInv ==
  /\ sweeps \in Seq(SweepType)
  /\ \A p, q \in DOMAIN sweeps :
       /\ sweeps[p].signature = sweeps[q].signature => p = q
       /\ p < q => sweeps[p].slot <= sweeps[q].slot
       /\ p < q /\ ONE_PER_SLOT => sweeps[p].slot < sweeps[q].slot

LEMMA SweepsStart == Told!Init => SweepsInv
<1> SUFFICES ASSUME sweeps = <<>> PROVE SweepsInv
  BY DEF Told!Init
<1>1. sweeps \in Seq(SweepType) /\ DOMAIN sweeps = {}
  BY EmptySeq
<1>2. QED
  BY <1>1 DEF SweepsInv

LEMMA SweepsLand ==
  ASSUME Told!WithholdingsAssumption
  PROVE  SweepsInv /\ [Told!Next]_sweeps => SweepsInv'
<1>1. ASSUME SweepsInv, NEW slot \in Told!Slots, NEW signature \in Told!Signatures,
             NEW events \in Told!Events \ {<<>>}, Told!Land(slot, signature, events)
      PROVE  SweepsInv'
  <2> DEFINE n == Len(sweeps)
             sweep == [slot |-> slot, signature |-> signature, events |-> events]
  <2>1. sweeps \in Seq(SweepType) /\ n \in Nat /\ DOMAIN sweeps = 1..n
    BY <1>1, LenProperties DEF SweepsInv
  <2>2. slot \in Nat /\ signature \in Nat
    BY DEF Told!Slots, Told!Signatures, Told!WithholdingsAssumption
  <2>3. sweep \in SweepType
    BY <2>2 DEF SweepType
  <2>4. sweeps' = Append(sweeps, sweep)
    BY <1>1 DEF Told!Land
  <2>5. \A p \in 1..n : sweeps[p].slot \in Nat
    <3>1. \A p \in 1..n : sweeps[p] \in SweepType
      BY <2>1, ElementOfSeq
    <3>2. QED
      BY <3>1 DEF SweepType
  <2>6. \A p \in 1..n : sweeps[p].slot <= Told!LastSlot
    <3>1. ASSUME NEW p \in 1..n PROVE sweeps[p].slot <= Told!LastSlot
      <4>1. n \in 1..n /\ p \in DOMAIN sweeps /\ n \in DOMAIN sweeps /\ p <= n
        BY <2>1
      <4>2. sweeps # <<>>
        BY <2>1, <4>1, EmptySeq
      <4>3. Told!LastSlot = sweeps[n].slot
        BY <4>2 DEF Told!LastSlot, Told!Last
      <4>4. p < n => sweeps[p].slot <= sweeps[n].slot
        BY <1>1, <4>1 DEF SweepsInv
      <4>5. QED
        BY <2>1, <2>5, <4>1, <4>3, <4>4
    <3>2. QED
      BY <3>1
  <2>7. Told!LastSlot \in Nat
    <3>1. CASE sweeps = <<>>
      BY <3>1 DEF Told!LastSlot
    <3>2. CASE sweeps # <<>>
      <4>1. n \in 1..n
        BY <2>1, <3>2, EmptySeq
      <4>2. QED
        BY <2>5, <3>2, <4>1 DEF Told!LastSlot, Told!Last
    <3>3. QED
      BY <3>1, <3>2
  <2>8. Told!LastSlot <= slot /\ (ONE_PER_SLOT => Told!LastSlot < slot)
    <3> DEFINE last == Told!LastSlot
    <3>1. IF ONE_PER_SLOT THEN slot = last + 1 ELSE slot \in last..(last + 1)
      BY <1>1 DEF Told!Land
    <3> HIDE DEF last
    <3>2. last \in Nat
      BY <2>7 DEF last
    <3>3. last <= slot /\ (ONE_PER_SLOT => last < slot)
      BY <2>2, <3>1, <3>2
    <3>4. QED
      BY <3>3 DEF last
  <2>9. \A p \in 1..n : sweeps[p].signature # signature
    BY <1>1, <2>1 DEF Told!Land
  <2>10. /\ sweeps' \in Seq(SweepType) /\ Len(sweeps') = n + 1
         /\ \A p \in 1..n : sweeps'[p] = sweeps[p]
         /\ sweeps'[n + 1] = sweep
    BY <2>1, <2>3, <2>4, AppendProperties
  <2>11. DOMAIN sweeps' = 1..(n + 1)
    BY <2>10, LenProperties
  <2> HIDE DEF n
  <2>12. ASSUME NEW p \in DOMAIN sweeps', NEW q \in DOMAIN sweeps'
         PROVE  /\ sweeps'[p].signature = sweeps'[q].signature => p = q
                /\ p < q => sweeps'[p].slot <= sweeps'[q].slot
                /\ p < q /\ ONE_PER_SLOT => sweeps'[p].slot < sweeps'[q].slot
    <3>1. (p \in 1..n \/ p = n + 1) /\ (q \in 1..n \/ q = n + 1) /\ p \in Nat /\ q \in Nat
      BY <2>1, <2>11
    <3>2. CASE p \in 1..n /\ q \in 1..n
      BY <1>1, <2>1, <2>10, <3>2 DEF SweepsInv
    <3>3. CASE p \in 1..n /\ q = n + 1
      <4>1. sweeps'[p] = sweeps[p] /\ sweeps'[q].slot = slot /\ sweeps'[q].signature = signature
        BY <2>10, <3>3
      <4>2. sweeps[p].slot \in Nat /\ sweeps[p].slot <= Told!LastSlot /\ sweeps[p].signature # signature
        BY <2>5, <2>6, <2>9, <3>3
      <4>3. QED
        BY <2>2, <2>7, <2>8, <4>1, <4>2
    <3>4. CASE p = n + 1
      <4>1. ~(p < q)
        BY <2>1, <2>11, <3>4
      <4>2. sweeps'[p].signature = signature
        BY <2>10, <3>4
      <4>3. q \in 1..n => sweeps'[q].signature # signature
        BY <2>9, <2>10
      <4>4. QED
        BY <3>1, <3>4, <4>1, <4>2, <4>3
    <3>5. QED
      BY <3>1, <3>2, <3>3, <3>4
  <2>13. QED
    BY <2>10, <2>12 DEF SweepsInv
<1>2. ASSUME SweepsInv, UNCHANGED sweeps PROVE SweepsInv'
  BY <1>2 DEF SweepsInv
<1>3. QED
  BY <1>1, <1>2 DEF Told!Next

LEMMA SweepsAre == Told!WithholdingsAssumption /\ Told!Spec => []SweepsInv
<1> SUFFICES ASSUME Told!WithholdingsAssumption PROVE Told!Spec => []SweepsInv
  OBVIOUS
<1>1. SweepsInv /\ [Told!Next]_sweeps => SweepsInv'
  BY SweepsLand
<1>2. QED
  BY SweepsStart, <1>1, PTL DEF Told!Spec

\* What a sweep left.
LEMMA SweepFacts ==
  ASSUME Told!WithholdingsAssumption, SweepsInv, NEW p \in DOMAIN sweeps
  PROVE  /\ p \in Nat /\ sweeps[p].slot \in Nat /\ sweeps[p].signature \in Nat
         /\ sweeps[p].events # <<>> /\ EventsInv(sweeps[p].events)
         /\ Len(sweeps[p].events) \in Nat
         /\ DOMAIN sweeps[p].events = 1..Len(sweeps[p].events)
<1>1. sweeps \in Seq(SweepType) /\ DOMAIN sweeps = 1..Len(sweeps) /\ Len(sweeps) \in Nat
  BY LenProperties DEF SweepsInv
<1>2. sweeps[p] \in SweepType
  BY <1>1, ElementOfSeq
<1>3. EventsInv(sweeps[p].events)
  <2>1. IsFiniteSet(Loans)
    BY ToldAlike DEF Told!WithholdingsAssumption
  <2>2. sweeps[p].events \in Told!Events
    BY <1>2 DEF SweepType
  <2>3. QED
    BY <2>1, <2>2, EventsAre
<1>4. /\ Len(sweeps[p].events) \in Nat
      /\ DOMAIN sweeps[p].events = 1..Len(sweeps[p].events)
  BY <1>3, LenProperties DEF EventsInv
<1>5. QED
  BY <1>1, <1>2, <1>3, <1>4 DEF SweepType

-----------------------------------------------------------------------------
\* A row of the table is one event of one sweep.
RowInv(row) ==
  /\ row.place \in DOMAIN sweeps /\ row.place \in Nat
  /\ row.eventIndex \in DOMAIN sweeps[row.place].events /\ row.eventIndex \in Nat
  /\ row.slot = sweeps[row.place].slot /\ row.slot \in Nat
  /\ row.signature = sweeps[row.place].signature /\ row.signature \in Nat
  /\ row.event = sweeps[row.place].events[row.eventIndex] /\ row.event \in ToldEvents
  /\ row = Told!Row(row.place, row.eventIndex)

LEMMA RowFacts ==
  ASSUME Told!WithholdingsAssumption, SweepsInv, NEW row \in Told!Stored
  PROVE  RowInv(row)
<1>1. PICK p \in DOMAIN sweeps : row \in {Told!Row(p, i) : i \in DOMAIN sweeps[p].events}
  BY DEF Told!Stored
<1>2. PICK i \in DOMAIN sweeps[p].events : row = Told!Row(p, i)
  BY <1>1
<1>3. /\ p \in Nat /\ sweeps[p].slot \in Nat /\ sweeps[p].signature \in Nat
      /\ EventsInv(sweeps[p].events) /\ Len(sweeps[p].events) \in Nat
      /\ DOMAIN sweeps[p].events = 1..Len(sweeps[p].events)
  BY SweepFacts
<1>4. sweeps[p].events[i] \in ToldEvents /\ i \in Nat
  BY <1>3, ElementOfSeq DEF EventsInv
<1>5. /\ row.place = p /\ row.eventIndex = i /\ row.slot = sweeps[p].slot
      /\ row.signature = sweeps[p].signature /\ row.event = sweeps[p].events[i]
  BY <1>2 DEF Told!Row
<1>6. QED
  BY <1>2, <1>3, <1>4, <1>5 DEF RowInv

\* What two rows of one transaction have in common: the mint; and only one of them may be
\* a skip, and none then a withholding.
LEMMA TwoRows ==
  ASSUME Told!WithholdingsAssumption, SweepsInv, NEW a \in Told!Stored, NEW b \in Told!Stored
  PROVE  /\ a.place = b.place /\ a.eventIndex = b.eventIndex => a = b
         /\ a.signature = b.signature => a.place = b.place
         /\ a.place < b.place => a.slot <= b.slot /\ (ONE_PER_SLOT => a.slot < b.slot)
         /\ a.place = b.place =>
              /\ a.slot = b.slot /\ a.signature = b.signature /\ a.event.mint = b.event.mint
              /\ a.event = b.event => a = b
              /\ a.event.kind = "skipped" => b.event.kind # "swept"
              /\ a.event.kind = "skipped" /\ b.event.kind = "skipped" => a = b
<1>1. RowInv(a) /\ RowInv(b)
  BY RowFacts
<1>2. a.place = b.place /\ a.eventIndex = b.eventIndex => a = b
  BY <1>1 DEF RowInv
<1>3. a.signature = b.signature => a.place = b.place
  BY <1>1 DEF RowInv, SweepsInv
<1>4. a.place < b.place => a.slot <= b.slot /\ (ONE_PER_SLOT => a.slot < b.slot)
  BY <1>1 DEF RowInv, SweepsInv
<1>5. ASSUME a.place = b.place
      PROVE  /\ a.slot = b.slot /\ a.signature = b.signature /\ a.event.mint = b.event.mint
             /\ a.event = b.event => a = b
             /\ a.event.kind = "skipped" => b.event.kind # "swept"
             /\ a.event.kind = "skipped" /\ b.event.kind = "skipped" => a = b
  <2> DEFINE es == sweeps[a.place].events
             i  == a.eventIndex
             j  == b.eventIndex
  <2>1. /\ i \in DOMAIN es /\ j \in DOMAIN es /\ a.event = es[i] /\ b.event = es[j]
        /\ a.slot = b.slot /\ a.signature = b.signature
    BY <1>1, <1>5 DEF RowInv
  <2>2. EventsInv(es)
    BY <1>1, SweepFacts DEF RowInv
  <2>3. i = j => a = b
    BY <1>2, <1>5
  <2> HIDE DEF es, i, j
  <2>4. /\ es[i].mint = es[j].mint
        /\ es[i] = es[j] => i = j
        /\ es[i].kind = "skipped" => i = 1 /\ es[j].kind # "swept"
        /\ es[j].kind = "skipped" => j = 1
    BY <2>1, <2>2 DEF EventsInv, Distinct
  <2>5. QED
    BY <2>1, <2>3, <2>4
<1>6. QED
  BY <1>2, <1>3, <1>4, <1>5

LEMMA StoredIsFinite ==
  ASSUME Told!WithholdingsAssumption, SweepsInv
  PROVE  IsFiniteSet(Told!Stored)
<1> DEFINE Of(p) == {Told!Row(p, i) : i \in DOMAIN sweeps[p].events}
           All == {Of(p) : p \in DOMAIN sweeps}
<1>1. IsFiniteSet(DOMAIN sweeps)
  <2>1. DOMAIN sweeps = 1..Len(sweeps) /\ Len(sweeps) \in Nat
    BY LenProperties DEF SweepsInv
  <2>2. QED
    BY <2>1, FS_Interval
<1>2. IsFiniteSet(All)
  <2> DEFINE f == [p \in DOMAIN sweeps |-> Of(p)]
  <2>1. f \in Surjection(DOMAIN sweeps, All)
    <3> HIDE DEF Of
    <3>1. QED
      BY DEF Surjection
  <2>2. QED
    BY <1>1, <2>1, FS_Surjection
<1>3. ASSUME NEW p \in DOMAIN sweeps PROVE IsFiniteSet(Of(p))
  <2> DEFINE es == sweeps[p].events
             R(i) == Told!Row(p, i)
             f == [i \in DOMAIN es |-> R(i)]
  <2>1. IsFiniteSet(DOMAIN es)
    BY SweepFacts, FS_Interval
  <2>2. f \in Surjection(DOMAIN es, {R(i) : i \in DOMAIN es})
    <3> HIDE DEF R, es
    <3>1. QED
      BY DEF Surjection
  <2>3. Of(p) = {R(i) : i \in DOMAIN es}
    OBVIOUS
  <2> HIDE DEF f, es, Of
  <2>4. QED
    BY <2>1, <2>2, <2>3, FS_Surjection
<1>4. Told!Stored = UNION All
  BY DEF Told!Stored
<1>5. \A T \in All : IsFiniteSet(T)
  BY <1>3
<1> HIDE DEF All
<1>6. QED
  BY <1>2, <1>4, <1>5, FS_UNION

\* The order of the query is one, and compares any two rows.
LEMMA OrderIsStrict ==
  ASSUME Told!WithholdingsAssumption, SweepsInv
  PROVE  /\ \A a \in Told!Stored : ~Told!OrderBy(a, a)
         /\ \A a, b, c \in Told!Stored :
              Told!OrderBy(a, b) /\ Told!OrderBy(b, c) => Told!OrderBy(a, c)
         /\ \A a, b \in Told!Stored : a = b \/ Told!OrderBy(a, b) \/ Told!OrderBy(b, a)
<1>1. ASSUME NEW a \in Told!Stored PROVE a.slot \in Nat /\ a.signature \in Nat /\ a.eventIndex \in Nat
  BY RowFacts DEF RowInv
<1>2. \A a \in Told!Stored : ~Told!OrderBy(a, a)
  BY <1>1 DEF Told!OrderBy
<1>3. ASSUME NEW a \in Told!Stored, NEW b \in Told!Stored, NEW c \in Told!Stored,
             Told!OrderBy(a, b), Told!OrderBy(b, c)
      PROVE  Told!OrderBy(a, c)
  BY <1>1, <1>3 DEF Told!OrderBy
<1>4. ASSUME NEW a \in Told!Stored, NEW b \in Told!Stored
      PROVE  a = b \/ Told!OrderBy(a, b) \/ Told!OrderBy(b, a)
  <2>1. a.signature = b.signature /\ a.eventIndex = b.eventIndex => a = b
    BY TwoRows
  <2>2. QED
    BY <1>1, <2>1 DEF Told!OrderBy
<1>5. QED
  BY <1>2, <1>3, <1>4

-----------------------------------------------------------------------------
\* The rows read are the first of the table, in its order, and all of it if there are
\* fewer than asked for.
Reading(read) ==
  /\ Len(read) \in Nat /\ DOMAIN read = 1..Len(read) /\ Len(read) <= LIMIT
  /\ \A i \in DOMAIN read : read[i] \in Told!Stored
  /\ \A i, j \in DOMAIN read : Told!OrderBy(read[i], read[j]) <=> i < j
  /\ \A row \in Told!Stored, j \in DOMAIN read :
       Told!OrderBy(row, read[j]) => \E i \in DOMAIN read : row = read[i]
  /\ Len(read) < LIMIT => \A row \in Told!Stored : \E i \in DOMAIN read : row = read[i]
  /\ Len(read) = 0 => Told!Stored = {}

LEMMA RowsAreRead ==
  ASSUME Told!WithholdingsAssumption, SweepsInv
  PROVE  Reading(Told!Rows)
<1> DEFINE S == Told!Stored
           Ahead(row) == {other \in S : Told!OrderBy(other, row)}
           ahead == [row \in S |-> Ahead(row)]
           rank == [row \in S |-> Told!Cardinality(Ahead(row))]
           n == Told!Cardinality(S)
           least == Told!Min({LIMIT, n})
           read == Told!Rows
<1>1. IsFiniteSet(S) /\ n \in Nat /\ n = Cardinality(S)
  BY StoredIsFinite, FS_CardinalityType, ToldAlike
<1>2. /\ least \in Nat /\ least <= LIMIT /\ least <= n /\ LIMIT \in Nat \ {0}
      /\ least < LIMIT => least = n
      /\ least = 0 => n = 0
  <2>1. LIMIT \in Nat \ {0}
    BY DEF Told!WithholdingsAssumption
  <2> HIDE DEF n
  <2>2. PICK x \in {LIMIT, n} : \A y \in {LIMIT, n} : x =< y
    BY <1>1, <2>1
  <2>3. least \in {LIMIT, n} /\ \A y \in {LIMIT, n} : least =< y
    BY <2>2 DEF Told!Min
  <2> HIDE DEF least
  <2>4. QED
    BY <1>1, <2>1, <2>3
<1>3. /\ \A a \in S : ~Told!OrderBy(a, a)
      /\ \A a, b, c \in S : Told!OrderBy(a, b) /\ Told!OrderBy(b, c) => Told!OrderBy(a, c)
      /\ \A a, b \in S : a = b \/ Told!OrderBy(a, b) \/ Told!OrderBy(b, a)
  BY OrderIsStrict
<1>4. read = [i \in 1..least |-> CHOOSE row \in S : Told!Cardinality(Ahead(row)) = i - 1]
  BY DEF Told!Rows
<1> HIDE DEF S, n, least
<1>5. ahead \in [S -> SUBSET S]
  OBVIOUS
<1>6. ASSUME NEW row \in S PROVE rank[row] = Told!Cardinality(Ahead(row)) /\ ahead[row] = Ahead(row)
  OBVIOUS
<1>7. ASSUME NEW x \in S
      PROVE  /\ ahead[x] \in SUBSET S
             /\ \A y \in S : y \in ahead[x] <=> Told!OrderBy(y, x)
             /\ rank[x] = Cardinality(ahead[x])
  BY <1>6, ToldAlike
<1> HIDE DEF rank, ahead, Ahead
<1>8. /\ \A x \in S : rank[x] \in 0..(n - 1)
      /\ \A x, y \in S : rank[x] = rank[y] => x = y
      /\ \A x, y \in S : Told!OrderBy(x, y) <=> rank[x] < rank[y]
      /\ \A k \in 0..(n - 1) : \E x \in S : rank[x] = k
  <2>1. ASSUME NEW x \in S, NEW y \in ahead[x] PROVE ahead[y] \in SUBSET ahead[x]
    BY <1>7, <1>3
  <2>2. \A x \in S : x \notin ahead[x]
    BY <1>7, <1>3
  <2>3. \A x, y \in S : x = y \/ x \in ahead[y] \/ y \in ahead[x]
    BY <1>7, <1>3
  <2>4. /\ \A x \in S : rank[x] \in 0..(n - 1)
        /\ \A x, y \in S : rank[x] = rank[y] => x = y
        /\ \A x, y \in S : x \in ahead[y] <=> rank[x] < rank[y]
        /\ \A k \in 0..(n - 1) : \E x \in S : rank[x] = k
    <3>1. \A x \in S : x \notin ahead[x] /\ \A y \in ahead[x] : ahead[y] \in SUBSET ahead[x]
      BY <2>1, <2>2
    <3>2. IsFiniteSet(S) /\ ahead \in [S -> SUBSET S] /\ rank \in [S -> Nat]
      <4>1. ASSUME NEW x \in S PROVE Told!Cardinality(Ahead(x)) \in Nat
        BY <1>1, <1>7, <1>6, FS_Subset, FS_CardinalityType, ToldAlike
      <4>2. QED
        BY <1>1, <1>5, <4>1 DEF rank
    <3>4. \A x \in S : rank[x] = Cardinality(ahead[x])
      BY <1>7
    <3>3. /\ \A x \in S : rank[x] \in 0..(Cardinality(S) - 1)
          /\ \A x, y \in S : rank[x] = rank[y] => x = y
          /\ \A x, y \in S : x \in ahead[y] <=> rank[x] < rank[y]
          /\ \A k \in 0..(Cardinality(S) - 1) : \E x \in S : rank[x] = k
      BY <2>3, <3>1, <3>2, <3>4, RanksAre
    <3>5. QED
      BY <1>1, <3>3
  <2>5. QED
    BY <1>7, <2>4
<1>9. ASSUME NEW i \in 1..least PROVE read[i] \in S /\ rank[read[i]] = i - 1
  <2>1. i - 1 \in 0..(n - 1)
    BY <1>1, <1>2
  <2>2. PICK x \in S : rank[x] = i - 1
    BY <1>8, <2>1
  <2>3. Told!Cardinality(Ahead(x)) = i - 1
    BY <1>6, <2>2
  <2>4. read[i] = CHOOSE row \in S : Told!Cardinality(Ahead(row)) = i - 1
    BY <1>4
  <2>5. read[i] \in S /\ Told!Cardinality(Ahead(read[i])) = i - 1
    BY <2>3, <2>4
  <2>6. QED
    BY <1>6, <2>5
<1>10. Len(read) = least /\ DOMAIN read = 1..least
  <2>1. DOMAIN read = 1..least
    BY <1>4
  <2>2. read \in Seq(S)
    <3>1. read \in [1..least -> S]
      <4> DEFINE e(i) == CHOOSE row \in S : Told!Cardinality(Ahead(row)) = i - 1
      <4>1. read = [i \in 1..least |-> e(i)]
        BY <1>4
      <4> HIDE DEF e, read
      <4>2. QED
        BY <1>9, <4>1
    <3>2. QED
      BY <1>2, <3>1, SeqDef
  <2> HIDE DEF read
  <2>3. Len(read) \in Nat /\ 1..Len(read) = 1..least
    BY <2>1, <2>2, LenProperties
  <2>4. QED
    BY <1>2, <2>1, <2>3
<1> HIDE DEF read
<1>11. \A i, j \in 1..least : Told!OrderBy(read[i], read[j]) <=> i < j
  <2>1. ASSUME NEW i \in 1..least, NEW j \in 1..least PROVE Told!OrderBy(read[i], read[j]) <=> i < j
    <3>1. read[i] \in S /\ read[j] \in S /\ rank[read[i]] = i - 1 /\ rank[read[j]] = j - 1
      BY <1>9
    <3>2. Told!OrderBy(read[i], read[j]) <=> rank[read[i]] < rank[read[j]]
      BY <1>8, <3>1
    <3>3. QED
      BY <1>2, <3>1, <3>2
  <2>2. QED
    BY <2>1
<1>12. ASSUME NEW row \in S, rank[row] < least PROVE \E i \in 1..least : row = read[i]
  <2>1. rank[row] + 1 \in 1..least /\ (rank[row] + 1) - 1 = rank[row]
    BY <1>1, <1>2, <1>8, <1>12
  <2>2. read[rank[row] + 1] \in S /\ rank[read[rank[row] + 1]] = rank[row]
    BY <1>9, <2>1
  <2>3. row = read[rank[row] + 1]
    BY <1>8, <2>2
  <2>4. QED
    BY <2>1, <2>3
<1>13. ASSUME NEW row \in S, NEW j \in 1..least, Told!OrderBy(row, read[j])
       PROVE  \E i \in 1..least : row = read[i]
  <2>1. read[j] \in S /\ rank[read[j]] = j - 1
    BY <1>9
  <2>2. rank[row] < rank[read[j]] /\ rank[row] \in 0..(n - 1)
    BY <1>8, <1>13, <2>1
  <2>3. rank[row] < least
    BY <1>1, <1>2, <2>1, <2>2
  <2>4. QED
    BY <1>12, <2>3
<1>14. ASSUME least < LIMIT, NEW row \in S PROVE \E i \in 1..least : row = read[i]
  <2>1. rank[row] \in 0..(n - 1) /\ least = n
    BY <1>2, <1>8, <1>14
  <2>2. rank[row] < least
    BY <1>1, <2>1
  <2>3. QED
    BY <1>12, <2>2
<1>15. least = 0 => S = {}
  BY <1>1, <1>2, FS_EmptySet
<1>16. Reading(read)
  BY <1>2, <1>9, <1>10, <1>11, <1>13, <1>14, <1>15 DEF Reading, S
<1>17. QED
  BY <1>16 DEF read

-----------------------------------------------------------------------------
\* Row i is of a skip on the mint m.
SkipsOn(read, m, i) == read[i].event.kind = "skipped" /\ read[i].event.mint = m

\* A withholding from the mint m is read between row i and row j.
CutBetween(read, m, i, j) ==
  \E h \in (i + 1)..(j - 1) : read[h].event.kind = "swept" /\ read[h].event.mint = m

\* The entries tell of the first k rows, each in one of them.
AllTold(es, read, k) ==
  /\ \A x \in DOMAIN es : \A row \in es[x].of : \E i \in 1..k : row = read[i]
  /\ \A i \in 1..k : \E x \in DOMAIN es : read[i] \in es[x].of
  /\ \A x, y \in DOMAIN es, i \in 1..k : read[i] \in es[x].of /\ read[i] \in es[y].of => x = y

\* The run of a mint is a skipped entry of it, and tells of the skips no withholding was
\* read after.
RunsTold(es, runs, read, k) ==
  \A m \in Mints :
    /\ runs[m] # 0 => runs[m] \in DOMAIN es /\ es[runs[m]].kind = "skipped" /\ es[runs[m]].mint = m
    /\ \A i \in 1..k : SkipsOn(read, m, i) =>
         (runs[m] # 0 /\ read[i] \in es[runs[m]].of <=> ~CutBetween(read, m, i, k + 1))

\* Two skips are in one entry if and only if no withholding was read between them.
SkipsTold(es, read, k) ==
  \A m \in Mints, i, j \in 1..k :
    i < j /\ SkipsOn(read, m, i) /\ SkipsOn(read, m, j) =>
      ((\E x \in DOMAIN es : read[i] \in es[x].of /\ read[j] \in es[x].of)
         <=> ~CutBetween(read, m, i, j))

\* One more row: entry c tells of it and no other entry does, nothing else is told anew,
\* and a skip goes where the run of its mint is.
OneMore(es, runs, more, after, read, k, c) ==
  /\ c \in DOMAIN more /\ DOMAIN es \subseteq DOMAIN more
  /\ \A x \in DOMAIN more, i \in 1..(k - 1) :
       read[i] \in more[x].of <=> x \in DOMAIN es /\ read[i] \in es[x].of
  /\ \A x \in DOMAIN more : read[k] \in more[x].of <=> x = c
  /\ \A x \in DOMAIN more : \A row \in more[x].of : \E i \in 1..k : row = read[i]
  /\ \A x \in DOMAIN es : more[x].kind = es[x].kind /\ more[x].mint = es[x].mint
  /\ more[c].mint = read[k].event.mint /\ more[c].kind = read[k].event.kind /\ c # 0
  /\ \A m \in Mints :
       after[m] = IF read[k].event.mint = m /\ read[k].event.kind = "skipped" THEN c
                  ELSE IF read[k].event.mint = m /\ read[k].event.kind = "swept" THEN 0
                  ELSE runs[m]
  /\ read[k].event.kind = "skipped" =>
       LET m == read[k].event.mint
       IN  \A i \in 1..(k - 1) :
             read[i] \in more[c].of <=> runs[m] # 0 /\ read[i] \in es[runs[m]].of

LEMMA CutGoesOn ==
  ASSUME NEW read, NEW m, NEW k \in Nat, NEW i \in 1..k
  PROVE  /\ ~CutBetween(read, m, k, k + 1)
         /\ i < k => (CutBetween(read, m, i, k + 1)
                        <=> \/ CutBetween(read, m, i, k)
                            \/ read[k].event.kind = "swept" /\ read[k].event.mint = m)
<1>1. (k + 1)..((k + 1) - 1) = {}
  OBVIOUS
<1>2. ASSUME i < k
      PROVE  \A h : h \in (i + 1)..((k + 1) - 1) <=> h \in (i + 1)..(k - 1) \/ h = k
  BY <1>2
<1>3. QED
  BY <1>1, <1>2 DEF CutBetween

LEMMA ToldGoesOn ==
  ASSUME NEW read, NEW k \in Nat \ {0}, NEW es, NEW runs, NEW more, NEW after, NEW c,
         \A i \in 1..k : read[i].event.mint \in Mints,
         AllTold(es, read, k - 1), RunsTold(es, runs, read, k - 1), SkipsTold(es, read, k - 1),
         OneMore(es, runs, more, after, read, k, c)
  PROVE  AllTold(more, read, k) /\ RunsTold(more, after, read, k) /\ SkipsTold(more, read, k)
<1>1. \A i \in 1..k : i \in 1..(k - 1) \/ i = k
  OBVIOUS
<1>2. (k - 1) + 1 = k /\ k \in 1..k /\ \A i \in 1..(k - 1) : i \in 1..k /\ i < k
  OBVIOUS
<1> DEFINE m0 == read[k].event.mint
<1>3. /\ c \in DOMAIN more /\ DOMAIN es \subseteq DOMAIN more
      /\ \A x \in DOMAIN more, i \in 1..(k - 1) :
           read[i] \in more[x].of <=> x \in DOMAIN es /\ read[i] \in es[x].of
      /\ \A x \in DOMAIN more : read[k] \in more[x].of <=> x = c
      /\ \A x \in DOMAIN more : \A row \in more[x].of : \E i \in 1..k : row = read[i]
      /\ \A x \in DOMAIN es : more[x].kind = es[x].kind /\ more[x].mint = es[x].mint
      /\ more[c].mint = m0 /\ more[c].kind = read[k].event.kind /\ c # 0
  BY DEF OneMore
<1>4. \A m \in Mints :
        after[m] = IF m0 = m /\ read[k].event.kind = "skipped" THEN c
                   ELSE IF m0 = m /\ read[k].event.kind = "swept" THEN 0
                   ELSE runs[m]
  BY DEF OneMore
<1>5. read[k].event.kind = "skipped" =>
        \A i \in 1..(k - 1) :
          read[i] \in more[c].of <=> runs[m0] # 0 /\ read[i] \in es[runs[m0]].of
  BY DEF OneMore
<1>6. m0 \in Mints
  BY <1>2
<1> HIDE DEF m0
<1>7. AllTold(more, read, k)
  <2>1. ASSUME NEW i \in 1..k PROVE \E x \in DOMAIN more : read[i] \in more[x].of
    <3>1. CASE i = k
      BY <1>3, <3>1
    <3>2. CASE i \in 1..(k - 1)
      <4>1. PICK x \in DOMAIN es : read[i] \in es[x].of
        BY <3>2 DEF AllTold
      <4>2. x \in DOMAIN more /\ read[i] \in more[x].of
        BY <1>3, <3>2, <4>1
      <4>3. QED
        BY <4>2
    <3>3. QED
      BY <1>1, <3>1, <3>2
  <2>2. ASSUME NEW x \in DOMAIN more, NEW y \in DOMAIN more, NEW i \in 1..k,
               read[i] \in more[x].of, read[i] \in more[y].of
        PROVE  x = y
    <3>1. CASE i = k
      BY <1>3, <2>2, <3>1
    <3>2. CASE i \in 1..(k - 1)
      <4>1. x \in DOMAIN es /\ y \in DOMAIN es /\ read[i] \in es[x].of /\ read[i] \in es[y].of
        BY <1>3, <2>2, <3>2
      <4>2. QED
        BY <3>2, <4>1 DEF AllTold
    <3>3. QED
      BY <1>1, <3>1, <3>2
  <2>3. QED
    BY <1>3, <2>1, <2>2 DEF AllTold
<1>8. RunsTold(more, after, read, k)
  <2>1. ASSUME NEW m \in Mints, after[m] # 0
        PROVE  after[m] \in DOMAIN more /\ more[after[m]].kind = "skipped" /\ more[after[m]].mint = m
    <3>1. CASE m0 = m /\ read[k].event.kind = "skipped"
      BY <1>3, <1>4, <3>1
    <3>2. CASE ~(m0 = m /\ read[k].event.kind = "skipped")
      <4>1. after[m] = runs[m] /\ runs[m] # 0
        BY <1>4, <2>1, <3>2
      <4>2. runs[m] \in DOMAIN es /\ es[runs[m]].kind = "skipped" /\ es[runs[m]].mint = m
        BY <4>1 DEF RunsTold
      <4>3. QED
        BY <1>3, <4>1, <4>2
    <3>3. QED
      BY <3>1, <3>2
  <2>2. ASSUME NEW m \in Mints, NEW i \in 1..k, SkipsOn(read, m, i)
        PROVE  after[m] # 0 /\ read[i] \in more[after[m]].of <=> ~CutBetween(read, m, i, k + 1)
    <3>1. CASE i = k
      <4>1. m0 = m /\ read[k].event.kind = "skipped"
        BY <2>2, <3>1 DEF SkipsOn, m0
      <4>2. after[m] = c
        BY <1>4, <4>1
      <4>3. after[m] # 0 /\ read[i] \in more[after[m]].of
        BY <1>3, <3>1, <4>2
      <4>4. ~CutBetween(read, m, i, k + 1)
        BY <1>2, <3>1, CutGoesOn
      <4>5. QED
        BY <4>3, <4>4
    <3>2. CASE i \in 1..(k - 1)
      <4>1. runs[m] # 0 /\ read[i] \in es[runs[m]].of <=> ~CutBetween(read, m, i, k)
        BY <1>2, <2>2, <3>2 DEF RunsTold
      <4>2. CutBetween(read, m, i, k + 1)
              <=> CutBetween(read, m, i, k) \/ (read[k].event.kind = "swept" /\ m0 = m)
        BY <1>2, <3>2, CutGoesOn DEF m0
      <4>3. CASE m0 = m /\ read[k].event.kind = "skipped"
        BY <1>3, <1>4, <1>5, <3>2, <4>1, <4>2, <4>3
      <4>4. CASE m0 = m /\ read[k].event.kind = "swept"
        BY <1>4, <4>2, <4>4
      <4>5. CASE ~(m0 = m /\ read[k].event.kind \in {"skipped", "swept"})
        <5>1. after[m] = runs[m] /\ (CutBetween(read, m, i, k + 1) <=> CutBetween(read, m, i, k))
          BY <1>4, <4>2, <4>5
        <5>2. runs[m] # 0 => runs[m] \in DOMAIN es
          BY DEF RunsTold
        <5>3. runs[m] # 0 => (read[i] \in more[runs[m]].of <=> read[i] \in es[runs[m]].of)
          BY <1>3, <3>2, <5>2
        <5>4. QED
          BY <4>1, <5>1, <5>3
      <4>6. QED
        BY <4>3, <4>4, <4>5
    <3>3. QED
      BY <1>1, <3>1, <3>2
  <2>3. QED
    BY <2>1, <2>2 DEF RunsTold
<1>9. SkipsTold(more, read, k)
  <2>1. ASSUME NEW m \in Mints, NEW i \in 1..k, NEW j \in 1..k, i < j,
               SkipsOn(read, m, i), SkipsOn(read, m, j)
        PROVE  (\E x \in DOMAIN more : read[i] \in more[x].of /\ read[j] \in more[x].of)
                 <=> ~CutBetween(read, m, i, j)
    <3>1. i \in 1..(k - 1)
      BY <2>1
    <3>2. CASE j \in 1..(k - 1)
      <4>1. (\E x \in DOMAIN es : read[i] \in es[x].of /\ read[j] \in es[x].of)
              <=> ~CutBetween(read, m, i, j)
        BY <2>1, <3>1, <3>2 DEF SkipsTold
      <4>2. ASSUME NEW x \in DOMAIN more
            PROVE  /\ read[i] \in more[x].of <=> x \in DOMAIN es /\ read[i] \in es[x].of
                   /\ read[j] \in more[x].of <=> x \in DOMAIN es /\ read[j] \in es[x].of
        BY <1>3, <3>1, <3>2
      <4>3. DOMAIN es \subseteq DOMAIN more
        BY <1>3
      <4>4. QED
        BY <4>1, <4>2, <4>3
    <3>3. CASE j = k
      <4>1. m0 = m /\ read[k].event.kind = "skipped"
        BY <2>1, <3>3 DEF SkipsOn, m0
      <4>2. (\E x \in DOMAIN more : read[i] \in more[x].of /\ read[k] \in more[x].of)
              <=> read[i] \in more[c].of
        BY <1>3
      <4>3. read[i] \in more[c].of <=> runs[m] # 0 /\ read[i] \in es[runs[m]].of
        BY <1>5, <3>1, <4>1
      <4>4. runs[m] # 0 /\ read[i] \in es[runs[m]].of <=> ~CutBetween(read, m, i, k)
        BY <1>2, <2>1, <3>1 DEF RunsTold
      <4>5. QED
        BY <3>3, <4>2, <4>3, <4>4
    <3>4. QED
      BY <1>1, <3>2, <3>3
  <2>2. QED
    BY <2>1 DEF SkipsTold
<1>10. QED
  BY <1>7, <1>8, <1>9

-----------------------------------------------------------------------------
\* An entry of skips counts them, and names the worst of them, the first and the last;
\* any other entry is of one event.
EntryType ==
  [kind : {"skipped", "swept", "manual"}, mint : Mints, signature : Nat, loan : SUBSET Loans,
   of : SUBSET Told!Stored, attempts : Nat, firstAt : Nat, lastAt : Nat, worst : Nat]

SkipsEntry(e) ==
  /\ IsFiniteSet(e.of) /\ e.attempts = Cardinality(e.of)
  /\ \A row \in e.of :
       /\ row.event.kind = "skipped" /\ row.event.mint = e.mint
       /\ row.event.deviation <= e.worst /\ e.firstAt <= row.slot /\ row.slot <= e.lastAt
  /\ \E row \in e.of : row.event.deviation = e.worst
  /\ \E row \in e.of : row.slot = e.firstAt
  /\ \E row \in e.of : row.slot = e.lastAt
  /\ \E row \in e.of : row.signature = e.signature

EventEntry(e) ==
  /\ e.attempts = 1 /\ e.firstAt = e.lastAt
  /\ \E row \in Told!Stored : /\ e.of = {row} /\ row.event.kind = e.kind
                              /\ row.signature = e.signature /\ e.loan = {row.event.loan}
                              /\ row.event.mint = e.mint

EntryInv(e) == IF e.kind = "skipped" THEN SkipsEntry(e) ELSE EventEntry(e)

LEMMA EventFields ==
  ASSUME Told!WithholdingsAssumption, NEW event \in ToldEvents
  PROVE  /\ event.mint \in Mints /\ event.kind \in {"skipped", "swept", "manual"}
         /\ event.kind = "skipped" => event.deviation \in Nat
         /\ event.kind # "skipped" => /\ event.loan \in Loans
                                      /\ event = [kind |-> event.kind, mint |-> event.mint,
                                                  loan |-> event.loan]
<1>1. CASE event \in SkipEvents
  BY <1>1 DEF SkipEvents, Told!WithholdingsAssumption
<1>2. CASE event \in LoanEvents({"swept", "manual"})
  BY <1>2 DEF LoanEvents
<1>3. QED
  BY <1>1, <1>2 DEF ToldEvents

LEMMA EntryBegins ==
  ASSUME Told!WithholdingsAssumption, SweepsInv, NEW row \in Told!Stored
  PROVE  LET e == Told!Entry(row)
         IN  /\ e \in EntryType /\ EntryInv(e)
             /\ e.of = {row} /\ e.kind = row.event.kind /\ e.mint = row.event.mint
<1> DEFINE e == Told!Entry(row)
<1>1. RowInv(row)
  BY RowFacts
<1>2. /\ row.event.mint \in Mints /\ row.event.kind \in {"skipped", "swept", "manual"}
      /\ row.event.kind = "skipped" => row.event.deviation \in Nat
      /\ row.event.kind # "skipped" => row.event.loan \in Loans
  BY <1>1, EventFields DEF RowInv
<1>3. row.slot \in Nat /\ row.signature \in Nat
  BY <1>1 DEF RowInv
<1>4. /\ e.kind = row.event.kind /\ e.mint = row.event.mint /\ e.signature = row.signature
      /\ e.loan = (IF row.event.kind = "skipped" THEN {} ELSE {row.event.loan})
      /\ e.of = {row} /\ e.attempts = 1 /\ e.firstAt = row.slot /\ e.lastAt = row.slot
      /\ e.worst = (IF row.event.kind = "skipped" THEN row.event.deviation ELSE 0)
  BY DEF Told!Entry
<1>5. e \in EntryType
  BY <1>2, <1>3 DEF Told!Entry, EntryType
<1> HIDE DEF e
<1>6. EntryInv(e)
  <2>1. CASE row.event.kind = "skipped"
    <3>1. IsFiniteSet(e.of) /\ Cardinality(e.of) = 1
      BY <1>4, FS_Singleton
    <3>2. e.worst = row.event.deviation /\ row.event.deviation \in Nat
      BY <1>2, <1>4, <2>1
    <3>3. QED
      BY <1>3, <1>4, <2>1, <3>1, <3>2 DEF EntryInv, SkipsEntry
  <2>2. CASE row.event.kind # "skipped"
    BY <1>4, <2>2 DEF EntryInv, EventEntry
  <2>3. QED
    BY <2>1, <2>2
<1>7. QED
  BY <1>4, <1>5, <1>6 DEF e

LEMMA AttemptIsAdded ==
  ASSUME Told!WithholdingsAssumption, SweepsInv, NEW row \in Told!Stored,
         NEW e \in EntryType, EntryInv(e), e.kind = "skipped",
         row.event.kind = "skipped", row.event.mint = e.mint, row \notin e.of,
         \A other \in e.of : row.slot <= other.slot
  PROVE  LET more == Told!Attempt(e, row)
         IN  /\ more \in EntryType /\ EntryInv(more)
             /\ more.of = e.of \cup {row} /\ more.kind = "skipped" /\ more.mint = e.mint
<1> DEFINE more == Told!Attempt(e, row)
           d    == row.event.deviation
           w    == e.worst
           worst == Told!Max({w, d})
<1>1. RowInv(row)
  BY RowFacts
<1>2. d \in Nat /\ row.slot \in Nat
  BY <1>1, EventFields DEF RowInv
<1>3. /\ w \in Nat /\ e.attempts \in Nat /\ e.firstAt \in Nat /\ e.lastAt \in Nat
      /\ e.of \in SUBSET Told!Stored
  BY DEF EntryType
<1>4. SkipsEntry(e)
  BY DEF EntryInv
<1> HIDE DEF d, w
<1>5. worst \in {w, d} /\ w <= worst /\ d <= worst /\ worst \in Nat
  <2>1. PICK x \in {w, d} : \A y \in {w, d} : x >= y
    BY <1>2, <1>3
  <2>2. worst \in {w, d} /\ \A y \in {w, d} : worst >= y
    BY <2>1 DEF Told!Max
  <2> HIDE DEF worst
  <2>3. QED
    BY <1>2, <1>3, <2>2
<1>6. more = [e EXCEPT !.attempts = e.attempts + 1, !.firstAt = row.slot, !.worst = worst,
                       !.of = e.of \cup {row}]
  BY DEF Told!Attempt, d, w
<1> HIDE DEF more, worst
<1>7. /\ e.kind \in {"skipped", "swept", "manual"} /\ e.mint \in Mints /\ e.signature \in Nat
      /\ e.loan \in SUBSET Loans
      /\ e = [kind |-> e.kind, mint |-> e.mint, signature |-> e.signature, loan |-> e.loan,
              of |-> e.of, attempts |-> e.attempts, firstAt |-> e.firstAt, lastAt |-> e.lastAt,
              worst |-> e.worst]
  BY DEF EntryType
<1>8. more = [kind |-> e.kind, mint |-> e.mint, signature |-> e.signature, loan |-> e.loan,
              of |-> e.of \cup {row}, attempts |-> e.attempts + 1, firstAt |-> row.slot,
              lastAt |-> e.lastAt, worst |-> worst]
  BY <1>6, <1>7
<1>9. /\ more.kind = e.kind /\ more.mint = e.mint /\ more.signature = e.signature
      /\ more.lastAt = e.lastAt /\ more.attempts = e.attempts + 1 /\ more.firstAt = row.slot
      /\ more.worst = worst /\ more.of = e.of \cup {row}
  BY <1>8
<1>10. more \in EntryType
  BY <1>2, <1>3, <1>5, <1>7, <1>8 DEF EntryType
<1>11. SkipsEntry(more)
  <2>1. IsFiniteSet(more.of) /\ more.attempts = Cardinality(more.of)
    <3>1. IsFiniteSet(e.of) /\ e.attempts = Cardinality(e.of)
      BY <1>4 DEF SkipsEntry
    <3>2. IsFiniteSet(e.of \cup {row}) /\ Cardinality(e.of \cup {row}) = Cardinality(e.of) + 1
      BY <3>1, FS_AddElement
    <3>3. QED
      BY <1>9, <3>1, <3>2
  <2>2. row.slot <= e.lastAt
    <3>1. PICK other \in e.of : other.slot = e.lastAt
      BY <1>4 DEF SkipsEntry
    <3>2. QED
      BY <3>1
  <2>3. ASSUME NEW other \in more.of
        PROVE  /\ other.event.kind = "skipped" /\ other.event.mint = more.mint
               /\ other.event.deviation <= worst /\ more.firstAt <= other.slot
               /\ other.slot <= more.lastAt
    <3>1. CASE other = row
      BY <1>2, <1>5, <1>9, <2>2, <3>1 DEF d
    <3>2. CASE other \in e.of
      <4>1. /\ other.event.kind = "skipped" /\ other.event.mint = e.mint
            /\ other.event.deviation <= w /\ other.slot <= e.lastAt
        BY <1>4, <3>2 DEF SkipsEntry, w
      <4>2. other.event.deviation \in Nat
        <5>1. RowInv(other)
          BY <1>3, <3>2, RowFacts
        <5>2. QED
          BY <4>1, <5>1, EventFields DEF RowInv
      <4>3. QED
        BY <1>3, <1>5, <1>9, <3>2, <4>1, <4>2
    <3>3. QED
      BY <1>9, <2>3, <3>1, <3>2
  <2>4. \E other \in more.of : other.event.deviation = worst
    <3>1. CASE worst = d
      BY <1>9, <3>1 DEF d
    <3>2. CASE worst = w
      BY <1>4, <1>9, <3>2 DEF w, SkipsEntry
    <3>3. QED
      BY <1>5, <3>1, <3>2
  <2>5. /\ \E other \in more.of : other.slot = more.firstAt
        /\ \E other \in more.of : other.slot = more.lastAt
        /\ \E other \in more.of : other.signature = more.signature
    BY <1>4, <1>9 DEF SkipsEntry
  <2>6. QED
    BY <1>9, <2>1, <2>3, <2>4, <2>5 DEF SkipsEntry
<1>12. QED
  BY <1>9, <1>10, <1>11 DEF more, EntryInv

-----------------------------------------------------------------------------
\* What is built of the first k rows.
TallyInv(b, read, k) ==
  /\ b \in [entries : Seq(EntryType), runs : [Mints -> Nat]]
  /\ \A x \in DOMAIN b.entries : EntryInv(b.entries[x])
  /\ AllTold(b.entries, read, k)
  /\ RunsTold(b.entries, b.runs, read, k)
  /\ SkipsTold(b.entries, read, k)

LEMMA TallyStarts ==
  ASSUME NEW read
  PROVE  TallyInv([entries |-> <<>>, runs |-> [m \in Mints |-> 0]], read, 0)
<1> DEFINE b == [entries |-> <<>>, runs |-> [m \in Mints |-> 0]]
<1>1. <<>> \in Seq(EntryType) /\ DOMAIN <<>> = {}
  BY EmptySeq
<1>2. b \in [entries : Seq(EntryType), runs : [Mints -> Nat]]
  BY <1>1
<1>3. b.entries = <<>> /\ \A m \in Mints : b.runs[m] = 0
  OBVIOUS
<1> HIDE DEF b
<1>4. 1..0 = {}
  OBVIOUS
<1>5. QED
  BY <1>1, <1>2, <1>3, <1>4 DEF b, TallyInv, AllTold, RunsTold, SkipsTold

LEMMA TallyStep ==
  ASSUME Told!WithholdingsAssumption, SweepsInv, NEW read, Reading(read),
         NEW k \in 1..Len(read), NEW b, TallyInv(b, read, k - 1)
  PROVE  TallyInv(Told!Add(b, read[k]), read, k)
<1> DEFINE row  == read[k]
           m0   == row.event.mint
           es   == b.entries
           runs == b.runs
           n    == Len(es)
           r    == runs[m0]
           made == Told!Add(b, row)
<1>1. /\ Len(read) \in Nat /\ DOMAIN read = 1..Len(read)
      /\ \A i \in 1..Len(read) : read[i] \in Told!Stored
      /\ \A i, j \in 1..Len(read) : Told!OrderBy(read[i], read[j]) <=> i < j
  BY DEF Reading
<1>2. k \in Nat \ {0} /\ \A i \in 1..k : i \in 1..Len(read)
  BY <1>1
<1>3. row \in Told!Stored /\ \A i \in 1..k : read[i].event.mint \in Mints
  <2>1. ASSUME NEW i \in 1..k PROVE read[i].event.mint \in Mints
    <3>1. RowInv(read[i])
      BY <1>1, <1>2, RowFacts
    <3>2. QED
      BY <3>1, EventFields DEF RowInv
  <2>2. QED
    BY <1>1, <2>1
<1>4. m0 \in Mints /\ row.event.kind \in {"skipped", "swept", "manual"}
  <2>1. RowInv(row)
    BY <1>3, RowFacts
  <2>2. QED
    BY <2>1, EventFields DEF RowInv
<1>5. ASSUME NEW i \in 1..(k - 1) PROVE read[i] # row /\ row.slot <= read[i].slot
  <2>1. i \in 1..Len(read) /\ k \in 1..Len(read) /\ i < k /\ ~(k < k)
    BY <1>1
  <2>2. Told!OrderBy(read[i], row) /\ ~Told!OrderBy(row, row)
    BY <1>1, <2>1
  <2>3. read[i] \in Told!Stored
    BY <1>1, <2>1
  <2>4. row.slot \in Nat /\ read[i].slot \in Nat
    BY <1>3, <2>3, RowFacts DEF RowInv
  <2>5. row.slot <= read[i].slot
    BY <2>2, <2>4 DEF Told!OrderBy
  <2>6. QED
    BY <2>2, <2>5
<1>6. /\ es \in Seq(EntryType) /\ runs \in [Mints -> Nat] /\ b = [entries |-> es, runs |-> runs]
      /\ \A x \in DOMAIN es : EntryInv(es[x])
      /\ AllTold(es, read, k - 1) /\ RunsTold(es, runs, read, k - 1) /\ SkipsTold(es, read, k - 1)
  BY DEF TallyInv
<1>7. n \in Nat /\ DOMAIN es = 1..n
  BY <1>6, LenProperties
<1>8. ASSUME NEW x \in DOMAIN es, NEW other \in es[x].of
      PROVE  /\ other # row /\ row.slot <= other.slot
             /\ \E i \in 1..k : other = read[i]
  <2>1. PICK i \in 1..(k - 1) : other = read[i]
    BY <1>6 DEF AllTold
  <2>2. i \in 1..k
    BY <1>2
  <2>3. QED
    BY <1>5, <2>1, <2>2
<1>9. \A x \in DOMAIN es : row \notin es[x].of
  BY <1>8
<1> HIDE DEF made, n
<1>10. CASE row.event.kind = "skipped" /\ r # 0
  <2> DEFINE entry == Told!Attempt(es[r], row)
             more  == [es EXCEPT ![r] = entry]
  <2>1. r \in DOMAIN es /\ es[r].kind = "skipped" /\ es[r].mint = m0
    BY <1>4, <1>6, <1>10 DEF RunsTold
  <2>2. made = [b EXCEPT !.entries[r] = entry]
    BY <1>10 DEF made, Told!Add
  <2>3. made = [entries |-> more, runs |-> runs]
    <3> HIDE DEF entry
    <3>1. QED
      BY <1>6, <2>2
  <2>4. es[r] \in EntryType /\ EntryInv(es[r])
    BY <1>6, <1>7, <2>1, ElementOfSeq DEF n
  <2>5. row \notin es[r].of /\ \A other \in es[r].of : row.slot <= other.slot
    BY <1>8, <2>1
  <2>6. /\ entry \in EntryType /\ EntryInv(entry)
        /\ entry.of = es[r].of \cup {row} /\ entry.kind = "skipped" /\ entry.mint = m0
    <3> HIDE DEF row, r, es, m0
    <3>1. QED
      BY <1>3, <1>10, <2>1, <2>4, <2>5, AttemptIsAdded DEF m0
  <2> HIDE DEF entry
  <2>7. /\ more \in Seq(EntryType) /\ DOMAIN more = DOMAIN es
        /\ \A x \in DOMAIN es : more[x] = IF x = r THEN entry ELSE es[x]
    <3> HIDE DEF es, r
    <3>1. r \in 1..Len(es)
      BY <1>7, <2>1 DEF n
    <3>2. more \in Seq(EntryType) /\ Len(more) = Len(es)
          /\ \A x \in 1..Len(es) : more[x] = IF x = r THEN entry ELSE es[x]
      BY <1>6, <2>6, <3>1, ExceptSeq
    <3>3. DOMAIN more = 1..Len(es)
      <4> HIDE DEF more
      <4>1. QED
        BY <3>2, LenProperties
    <3>4. QED
      BY <1>7, <3>2, <3>3 DEF n
  <2> HIDE DEF more, r
  <2>8. OneMore(es, runs, more, runs, read, k, r)
    <3>1. ASSUME NEW x \in DOMAIN more, NEW i \in 1..(k - 1)
          PROVE  read[i] \in more[x].of <=> x \in DOMAIN es /\ read[i] \in es[x].of
      BY <1>5, <2>6, <2>7
    <3>2. ASSUME NEW x \in DOMAIN more PROVE row \in more[x].of <=> x = r
      BY <1>9, <2>6, <2>7
    <3>3. ASSUME NEW x \in DOMAIN more, NEW other \in more[x].of
          PROVE  \E i \in 1..k : other = read[i]
      <4>1. CASE other = row
        BY <1>2, <4>1
      <4>2. CASE other # row
        <5>1. other \in es[x].of /\ x \in DOMAIN es
          BY <2>6, <2>7, <3>3, <4>2
        <5>2. QED
          BY <1>8, <5>1
      <4>3. QED
        BY <4>1, <4>2
    <3>4. \A x \in DOMAIN es : more[x].kind = es[x].kind /\ more[x].mint = es[x].mint
      BY <2>1, <2>6, <2>7
    <3>5. more[r].mint = m0 /\ more[r].kind = row.event.kind /\ r # 0 /\ r \in DOMAIN more
      BY <1>10, <2>1, <2>6, <2>7
    <3>6. \A m \in Mints :
            runs[m] = IF m0 = m /\ row.event.kind = "skipped" THEN r
                      ELSE IF m0 = m /\ row.event.kind = "swept" THEN 0
                      ELSE runs[m]
      BY <1>10 DEF r
    <3>7. \A i \in 1..(k - 1) :
            read[i] \in more[r].of <=> runs[m0] # 0 /\ read[i] \in es[runs[m0]].of
      BY <1>10, <2>1, <2>7, <3>1 DEF r
    <3> HIDE DEF es, runs
    <3>8. QED
      BY <2>7, <3>1, <3>2, <3>3, <3>4, <3>5, <3>6, <3>7 DEF OneMore, m0, row
  <2>9. AllTold(more, read, k) /\ RunsTold(more, runs, read, k) /\ SkipsTold(more, read, k)
    <3> HIDE DEF es, runs
    <3>1. QED
      BY <1>2, <1>3, <1>6, <2>8, ToldGoesOn
  <2>10. \A x \in DOMAIN more : EntryInv(more[x])
    BY <1>6, <2>6, <2>7
  <2>11. made.entries = more /\ made.runs = runs
         /\ made \in [entries : Seq(EntryType), runs : [Mints -> Nat]]
    BY <1>6, <2>3, <2>7
  <2>12. QED
    BY <2>9, <2>10, <2>11 DEF TallyInv, made
<1>11. CASE ~(row.event.kind = "skipped" /\ r # 0)
  <2> DEFINE entry == Told!Entry(row)
             more  == Append(es, entry)
             after == IF row.event.kind = "skipped" THEN [runs EXCEPT ![m0] = n + 1]
                      ELSE IF row.event.kind = "swept" THEN [runs EXCEPT ![m0] = 0] ELSE runs
  <2>1. made = [entries |-> more, runs |-> after]
    <3>1. CASE row.event.kind = "skipped"
      BY <1>11, <3>1 DEF made, Told!Add, n
    <3>2. CASE row.event.kind # "skipped"
      BY <1>11, <3>2 DEF made, Told!Add, Told!RunsAfter
    <3>3. QED
      BY <3>1, <3>2
  <2>2. /\ entry \in EntryType /\ EntryInv(entry)
        /\ entry.of = {row} /\ entry.kind = row.event.kind /\ entry.mint = m0
    <3> HIDE DEF row
    <3>1. QED
      BY <1>3, EntryBegins
  <2> HIDE DEF entry
  <2>3. /\ more \in Seq(EntryType) /\ Len(more) = n + 1
        /\ \A x \in 1..n : more[x] = es[x]
        /\ more[n + 1] = entry
    BY <1>6, <2>2, AppendProperties DEF n
  <2>4. DOMAIN more = 1..(n + 1)
    BY <2>3, LenProperties
  <2>5. /\ after \in [Mints -> Nat]
        /\ \A m \in Mints :
             after[m] = IF m0 = m /\ row.event.kind = "skipped" THEN n + 1
                        ELSE IF m0 = m /\ row.event.kind = "swept" THEN 0
                        ELSE runs[m]
    BY <1>4, <1>6, <1>7
  <2> HIDE DEF more, after
  <2>6. n + 1 \in DOMAIN more /\ n + 1 # 0 /\ n + 1 \notin DOMAIN es /\ DOMAIN es \subseteq DOMAIN more
        /\ \A x \in DOMAIN more : x \in DOMAIN es \/ x = n + 1
    BY <1>7, <2>4
  <2>7. OneMore(es, runs, more, after, read, k, n + 1)
    <3>1. ASSUME NEW x \in DOMAIN more, NEW i \in 1..(k - 1)
          PROVE  read[i] \in more[x].of <=> x \in DOMAIN es /\ read[i] \in es[x].of
      BY <1>5, <1>7, <2>2, <2>3, <2>6
    <3>2. ASSUME NEW x \in DOMAIN more PROVE row \in more[x].of <=> x = n + 1
      BY <1>7, <1>9, <2>2, <2>3, <2>6
    <3>3. ASSUME NEW x \in DOMAIN more, NEW other \in more[x].of
          PROVE  \E i \in 1..k : other = read[i]
      <4>1. CASE x = n + 1
        BY <1>2, <2>2, <2>3, <3>3, <4>1
      <4>2. CASE x \in DOMAIN es
        BY <1>7, <1>8, <2>3, <3>3, <4>2
      <4>3. QED
        BY <2>6, <4>1, <4>2
    <3>4. \A x \in DOMAIN es : more[x].kind = es[x].kind /\ more[x].mint = es[x].mint
      BY <1>7, <2>3
    <3>5. more[n + 1].mint = m0 /\ more[n + 1].kind = row.event.kind
      BY <2>2, <2>3
    <3>6. row.event.kind = "skipped" =>
            \A i \in 1..(k - 1) :
              read[i] \in more[n + 1].of <=> runs[m0] # 0 /\ read[i] \in es[runs[m0]].of
      BY <1>11, <2>6, <3>1
    <3> HIDE DEF es, runs
    <3>7. QED
      BY <2>5, <2>6, <3>1, <3>2, <3>3, <3>4, <3>5, <3>6 DEF OneMore, m0, row
  <2>8. AllTold(more, read, k) /\ RunsTold(more, after, read, k) /\ SkipsTold(more, read, k)
    <3> HIDE DEF es, runs
    <3>1. QED
      BY <1>2, <1>3, <1>6, <2>7, ToldGoesOn
  <2>9. \A x \in DOMAIN more : EntryInv(more[x])
    BY <1>6, <1>7, <2>2, <2>3, <2>6
  <2>10. /\ made.entries = more /\ made.runs = after
         /\ made \in [entries : Seq(EntryType), runs : [Mints -> Nat]]
    BY <2>1, <2>3, <2>5
  <2>11. QED
    BY <2>8, <2>9, <2>10 DEF TallyInv, made
<1>12. QED
  BY <1>10, <1>11

-----------------------------------------------------------------------------
\* Nothing is built of no row.
Unbuilt == [entries |-> <<>>, runs |-> [m \in Mints |-> 0]]

\* built holds what buildWithholdings has built of the first rows.
Building(built, read, n) ==
  built = [i \in 0..n |-> IF i = 0 THEN Unbuilt ELSE Told!Add(built[i - 1], read[i])]

LEMMA BuildingExists ==
  ASSUME NEW read, NEW n \in Nat
  PROVE  \E built : Building(built, read, n)
<1> DEFINE Good == {k \in 0..n : \E built : Building(built, read, k)}
<1>1. 0 \in Good
  <2> DEFINE built == [i \in 0..0 |-> Unbuilt]
  <2>1. Building(built, read, 0)
    BY DEF Building
  <2>2. QED
    BY <2>1
<1>2. ASSUME NEW k \in 1..n, k - 1 \in Good PROVE k \in Good
  <2>1. PICK before : Building(before, read, k - 1)
    BY <1>2
  <2> DEFINE S(i) == IF i = k THEN Told!Add(before[k - 1], read[k]) ELSE before[i]
             built == [i \in 0..k |-> S(i)]
  <2>2. ASSUME NEW i \in 0..k
        PROVE  S(i) = IF i = 0 THEN Unbuilt ELSE Told!Add(built[i - 1], read[i])
    <3>1. CASE i = k
      <4>1. built[i - 1] = before[k - 1] /\ i # 0
        BY <3>1
      <4> HIDE DEF built
      <4>2. QED
        BY <3>1, <4>1
    <3>2. CASE i # k
      <4>1. i \in 0..(k - 1) /\ (i # 0 => i - 1 \in 0..k /\ i - 1 # k)
        BY <3>2
      <4>2. before[i] = IF i = 0 THEN Unbuilt ELSE Told!Add(before[i - 1], read[i])
        BY <2>1, <4>1 DEF Building
      <4>3. i # 0 => built[i - 1] = before[i - 1]
        BY <4>1
      <4> HIDE DEF built
      <4>4. QED
        BY <3>2, <4>2, <4>3
    <3>3. QED
      BY <3>1, <3>2
  <2>3. Building(built, read, k)
    <3>1. built = [i \in 0..k |-> S(i)]
      OBVIOUS
    <3> HIDE DEF S, built
    <3>2. QED
      BY <2>2, <3>1 DEF Building
  <2> HIDE DEF built
  <2>4. QED
    BY <2>3
<1>3. \A k \in 0..n : k \in Good
  <2> HIDE DEF Good
  <2>1. QED
    BY <1>1, <1>2, CountingInduction
<1>4. QED
  BY <1>3

\* buildWithholdings reads its answer off such a function.
LEMMA WithholdingsAreBuilt ==
  ASSUME NEW read, Len(read) \in Nat
  PROVE  \E built : /\ Building(built, read, Len(read))
                    /\ Told!BuildWithholdings(read) =
                         [entries |-> built[Len(read)].entries, complete |-> Told!Complete(read)]
<1> DEFINE n == Len(read)
           made == CHOOSE built : Building(built, read, n)
<1>1. Building(made, read, n)
  BY BuildingExists
<1>2. Told!BuildWithholdings(read) =
        [entries |-> made[n].entries, complete |-> Told!Complete(read)]
  BY DEF Told!BuildWithholdings, Building, Unbuilt
<1>3. QED
  BY <1>1, <1>2

\* What is shown of the journal.
LEMMA ShownFacts ==
  ASSUME Told!WithholdingsAssumption, SweepsInv
  PROVE  LET es == Told!Shown.entries
             read == Told!Rows
         IN  /\ es \in Seq(EntryType) /\ Len(es) \in Nat /\ DOMAIN es = 1..Len(es)
             /\ \A x \in DOMAIN es : es[x] \in EntryType /\ EntryInv(es[x])
             /\ AllTold(es, read, Len(read)) /\ SkipsTold(es, read, Len(read))
             /\ Reading(read) /\ (Told!Shown.complete <=> Len(read) < LIMIT)
<1> DEFINE read == Told!Rows
           n == Len(read)
           es == Told!Shown.entries
<1>1. Reading(read)
  BY RowsAreRead
<1>2. n \in Nat
  BY <1>1 DEF Reading
<1>3. PICK built : /\ Building(built, read, n)
                   /\ Told!Shown = [entries |-> built[n].entries, complete |-> Told!Complete(read)]
  <2>1. Told!Shown = Told!BuildWithholdings(read)
    BY DEF Told!Shown
  <2> HIDE DEF read
  <2>2. QED
    BY <1>2, <2>1, WithholdingsAreBuilt
<1> HIDE DEF read, n
<1> DEFINE Good == {k \in 0..n : TallyInv(built[k], read, k)}
<1>4. 0 \in Good
  <2>1. built[0] = Unbuilt
    BY <1>2, <1>3 DEF Building
  <2>2. QED
    BY <1>2, <2>1, TallyStarts DEF Unbuilt
<1>5. ASSUME NEW k \in 1..n, k - 1 \in Good PROVE k \in Good
  <2>1. built[k] = Told!Add(built[k - 1], read[k])
    BY <1>2, <1>3 DEF Building
  <2>2. TallyInv(built[k - 1], read, k - 1)
    BY <1>5
  <2>3. TallyInv(built[k], read, k)
    BY <1>1, <2>1, <2>2, TallyStep DEF n
  <2>4. QED
    BY <1>2, <2>3
<1>6. TallyInv(built[n], read, n)
  <2>1. \A k \in 0..n : k \in Good
    <3> HIDE DEF Good
    <3>1. QED
      BY <1>2, <1>4, <1>5, CountingInduction
  <2>2. QED
    BY <1>2, <2>1
<1>7. es = built[n].entries /\ (Told!Shown.complete <=> n < LIMIT)
  BY <1>3 DEF Told!Complete, n
<1> HIDE DEF es
<1>8. es \in Seq(EntryType) /\ Len(es) \in Nat /\ DOMAIN es = 1..Len(es)
  BY <1>6, <1>7, LenProperties DEF TallyInv
<1>9. \A x \in DOMAIN es : es[x] \in EntryType
  BY <1>8, ElementOfSeq
<1>10. QED
  BY <1>1, <1>6, <1>7, <1>8, <1>9 DEF TallyInv, es, read, n

\* The greatest and the least of some numbers are what bounds them and is among them.
LEMMA GreatestIs ==
  ASSUME NEW V \in SUBSET Nat, NEW v \in V, \A w \in V : w <= v
  PROVE  Told!Max(V) = v
<1>1. \A w \in V : v >= w
  OBVIOUS
<1> DEFINE g == Told!Max(V)
<1>2. g \in V /\ \A w \in V : g >= w
  BY <1>1 DEF Told!Max
<1> HIDE DEF g
<1>3. g \in Nat /\ v \in Nat /\ g >= v /\ v >= g
  BY <1>1, <1>2
<1>4. g = v
  BY <1>3
<1>5. QED
  BY <1>4 DEF g

LEMMA LowestIs ==
  ASSUME NEW V \in SUBSET Nat, NEW v \in V, \A w \in V : v <= w
  PROVE  Told!Min(V) = v
<1> DEFINE g == Told!Min(V)
<1>1. g \in V /\ \A w \in V : g =< w
  BY DEF Told!Min
<1> HIDE DEF g
<1>2. g \in Nat /\ v \in Nat /\ g =< v /\ v =< g
  BY <1>1
<1>3. g = v
  BY <1>2
<1>4. QED
  BY <1>3 DEF g

\* Each entry tells of rows that were read, each row read is told of in one, and rows of
\* different entries differ.
LEMMA EntriesAre ==
  ASSUME Told!WithholdingsAssumption, SweepsInv
  PROVE  LET read == Told!Rows
         IN  /\ Reading(read)
             /\ \A e \in Told!Entries :
                  /\ e \in EntryType /\ EntryInv(e)
                  /\ \A row \in e.of : row \in Told!Stored /\ \E i \in DOMAIN read : row = read[i]
             /\ \A i \in DOMAIN read : \E e \in Told!Entries : read[i] \in e.of
             /\ \A e, f \in Told!Entries : \A row : row \in e.of /\ row \in f.of => e = f
<1> DEFINE es == Told!Shown.entries
           read == Told!Rows
<1>1. /\ DOMAIN es = 1..Len(es)
      /\ \A x \in DOMAIN es : es[x] \in EntryType /\ EntryInv(es[x])
      /\ AllTold(es, read, Len(read))
      /\ Reading(read)
  BY ShownFacts
<1>2. Told!Entries = {es[x] : x \in DOMAIN es}
  BY DEF Told!Entries, Told!ToSet
<1>3. DOMAIN read = 1..Len(read) /\ \A i \in DOMAIN read : read[i] \in Told!Stored
  BY <1>1 DEF Reading
<1> HIDE DEF es, read
<1>4. ASSUME NEW e \in Told!Entries
      PROVE  /\ e \in EntryType /\ EntryInv(e)
             /\ \A row \in e.of : row \in Told!Stored /\ \E i \in DOMAIN read : row = read[i]
  <2>1. PICK x \in DOMAIN es : e = es[x]
    BY <1>2
  <2>2. QED
    BY <1>1, <1>3, <2>1 DEF AllTold
<1>5. ASSUME NEW i \in DOMAIN read PROVE \E e \in Told!Entries : read[i] \in e.of
  <2>1. PICK x \in DOMAIN es : read[i] \in es[x].of
    BY <1>1, <1>3 DEF AllTold
  <2>2. QED
    BY <1>2, <2>1
<1>6. ASSUME NEW e \in Told!Entries, NEW f \in Told!Entries, NEW row, row \in e.of, row \in f.of
      PROVE  e = f
  <2>1. PICK x \in DOMAIN es : e = es[x]
    BY <1>2
  <2>2. PICK y \in DOMAIN es : f = es[y]
    BY <1>2
  <2>3. PICK i \in 1..Len(read) : row = read[i]
    BY <1>3, <1>4, <1>6
  <2>4. x = y
    BY <1>1, <1>6, <2>1, <2>2, <2>3 DEF AllTold
  <2>5. QED
    BY <2>1, <2>2, <2>4
<1>7. QED
  BY <1>1, <1>4, <1>5, <1>6 DEF read

\* What is recorded of the sweeps is what they leave, no more is read than asked for,
\* and no entry ends before it begins or counts nothing (loans.ts, buildWithholdings).
THEOREM WithholdingsAreTyped == Told!WithholdingsAssumption /\ Told!Spec => []Told!TypeOK
<1> SUFFICES ASSUME Told!WithholdingsAssumption PROVE Told!Spec => []Told!TypeOK
  OBVIOUS
<1>1. SweepsInv => Told!TypeOK
  <2> SUFFICES ASSUME SweepsInv PROVE Told!TypeOK
    OBVIOUS
  <2> DEFINE es == Told!Shown.entries
  <2>1. ASSUME NEW p \in DOMAIN sweeps PROVE sweeps[p].events \in Told!Events
    <3>1. sweeps \in Seq(SweepType) /\ p \in 1..Len(sweeps)
      BY LenProperties DEF SweepsInv
    <3>2. sweeps[p] \in SweepType
      BY <3>1, ElementOfSeq
    <3>3. QED
      BY <3>2 DEF SweepType
  <2>2. Len(Told!Rows) <= LIMIT
    BY RowsAreRead DEF Reading
  <2>3. ASSUME NEW x \in DOMAIN es PROVE es[x].firstAt <= es[x].lastAt /\ es[x].attempts > 0
    <3>1. es[x] \in EntryType /\ EntryInv(es[x])
      BY ShownFacts
    <3> DEFINE e == es[x]
    <3> HIDE DEF e
    <3>2. e \in EntryType /\ EntryInv(e)
      BY <3>1 DEF e
    <3>3. CASE e.kind = "skipped"
      <4>1. SkipsEntry(e)
        BY <3>2, <3>3 DEF EntryInv
      <4>2. PICK row \in e.of : row.slot = e.firstAt
        BY <4>1 DEF SkipsEntry
      <4>3. e.firstAt <= e.lastAt
        BY <4>1, <4>2 DEF SkipsEntry
      <4>4. IsFiniteSet(e.of) /\ e.attempts = Cardinality(e.of) /\ e.attempts \in Nat
        BY <3>2, <4>1 DEF SkipsEntry, EntryType
      <4>5. e.attempts # 0
        BY <4>2, <4>4, FS_EmptySet
      <4>6. QED
        BY <4>3, <4>4, <4>5 DEF e
    <3>4. CASE e.kind # "skipped"
      <4>1. e.attempts = 1 /\ e.firstAt = e.lastAt /\ e.firstAt \in Nat
        BY <3>2, <3>4 DEF EntryInv, EventEntry, EntryType
      <4>2. QED
        BY <4>1 DEF e
    <3>5. QED
      BY <3>3, <3>4
  <2>4. QED
    BY <2>1, <2>2, <2>3 DEF Told!TypeOK
<1>2. QED
  BY SweepsAre, <1>1, PTL

\* FR-016, FR-017: every event read is told of in one entry and no event in two, each run
\* counts its attempts and names the worst of them, and the newest event is never the one
\* left out (loans.ts, buildWithholdings and its query).
THEOREM EveryRowIsTold == Told!WithholdingsAssumption /\ Told!Spec => []Told!EveryRowIsTold
<1> SUFFICES ASSUME Told!WithholdingsAssumption PROVE Told!Spec => []Told!EveryRowIsTold
  OBVIOUS
<1>1. SweepsInv => Told!EveryRowIsTold
  <2> SUFFICES ASSUME SweepsInv PROVE Told!EveryRowIsTold
    OBVIOUS
  <2> DEFINE read == Told!Rows
  <2>1. /\ Reading(read)
        /\ \A e \in Told!Entries :
             /\ e \in EntryType /\ EntryInv(e)
             /\ \A row \in e.of : row \in Told!Stored /\ \E i \in DOMAIN read : row = read[i]
        /\ \A i \in DOMAIN read : \E e \in Told!Entries : read[i] \in e.of
        /\ \A e, f \in Told!Entries : \A row : row \in e.of /\ row \in f.of => e = f
    BY EntriesAre
  <2>2. Told!ToSet(read) = {read[i] : i \in DOMAIN read}
    BY DEF Told!ToSet
  <2> HIDE DEF read
  <2>3. UNION {entry.of : entry \in Told!Entries} = Told!ToSet(read)
    <3>1. ASSUME NEW row PROVE row \in UNION {entry.of : entry \in Told!Entries} <=> row \in Told!ToSet(read)
      BY <2>1, <2>2
    <3>2. QED
      BY <3>1
  <2>4. \A e, f \in Told!Entries : e # f => e.of \cap f.of = {}
    BY <2>1
  <2>5. ASSUME NEW e \in Told!SkippedEntries
        PROVE  /\ e.attempts = Told!Cardinality(e.of)
               /\ e.worst = Told!Max({row.event.deviation : row \in e.of})
               /\ e.firstAt = Told!Min({row.slot : row \in e.of})
               /\ e.lastAt = Told!Max({row.slot : row \in e.of})
    <3>1. e \in Told!Entries /\ e.kind = "skipped"
      BY DEF Told!SkippedEntries
    <3>2. SkipsEntry(e)
      BY <2>1, <3>1 DEF EntryInv
    <3>3. ASSUME NEW row \in e.of PROVE row.event.deviation \in Nat /\ row.slot \in Nat
      <4>1. RowInv(row)
        BY <2>1, <3>1, RowFacts
      <4>2. row.event.kind = "skipped"
        BY <3>2 DEF SkipsEntry
      <4>3. QED
        BY <4>1, <4>2, EventFields DEF RowInv
    <3>4. e.attempts = Told!Cardinality(e.of)
      BY <3>2, ToldAlike DEF SkipsEntry
    <3> DEFINE D == {row.event.deviation : row \in e.of}
               T == {row.slot : row \in e.of}
    <3>5. D \in SUBSET Nat /\ e.worst \in D /\ \A d \in D : d <= e.worst
      BY <3>2, <3>3 DEF SkipsEntry
    <3>6. T \in SUBSET Nat /\ e.firstAt \in T /\ \A t \in T : e.firstAt <= t
      BY <3>2, <3>3 DEF SkipsEntry
    <3>7. e.lastAt \in T /\ \A t \in T : t <= e.lastAt
      BY <3>2, <3>3 DEF SkipsEntry
    <3> HIDE DEF D, T
    <3>8. e.worst = Told!Max(D) /\ e.firstAt = Told!Min(T) /\ e.lastAt = Told!Max(T)
      BY <3>5, <3>6, <3>7, GreatestIs, LowestIs
    <3>9. QED
      BY <3>4, <3>8 DEF D, T
  <2>6. ASSUME NEW row \in Told!Stored \ Told!ToSet(read), NEW told \in Told!ToSet(read)
        PROVE  row.slot <= told.slot
    <3>1. PICK j \in DOMAIN read : told = read[j]
      BY <2>2
    <3>2. told \in Told!Stored /\ ~Told!OrderBy(row, told) /\ row # told
      BY <2>1, <2>2, <3>1 DEF Reading
    <3>3. Told!OrderBy(told, row)
      BY <3>2, OrderIsStrict
    <3>4. row.slot \in Nat /\ told.slot \in Nat
      BY <3>2, RowFacts DEF RowInv
    <3>5. QED
      BY <3>3, <3>4 DEF Told!OrderBy
  <2>7. QED
    BY <2>3, <2>4, <2>5, <2>6 DEF Told!EveryRowIsTold, read
<1>2. QED
  BY SweepsAre, <1>1, PTL

\* withholdings.ts:25: with one sweep of the operator to a slot, skips in a row on one mint,
\* with no withholding between them, are one entry, and skips a withholding lies between are
\* not; wherever the journal is cut.
THEOREM SkipsInARowAreOne ==
  Told!WithholdingsAssumption /\ ONE_PER_SLOT /\ Told!Spec => []Told!SkipsInARowAreOne
<1> SUFFICES ASSUME Told!WithholdingsAssumption, ONE_PER_SLOT
             PROVE  Told!Spec => []Told!SkipsInARowAreOne
  OBVIOUS
<1>1. SweepsInv => Told!SkipsInARowAreOne
  <2> SUFFICES ASSUME SweepsInv, NEW e \in Told!SkippedEntries, NEW f \in Told!SkippedEntries,
                      NEW a \in e.of, NEW b \in f.of
               PROVE  Told!InARow(a, b) <=> e = f
    BY DEF Told!SkipsInARowAreOne
  <2> DEFINE read == Told!Rows
             es == Told!Shown.entries
  <2>1. /\ Reading(read)
        /\ \A x \in Told!Entries :
             /\ EntryInv(x)
             /\ \A row \in x.of : row \in Told!Stored /\ \E i \in DOMAIN read : row = read[i]
        /\ \A x, y \in Told!Entries : \A row : row \in x.of /\ row \in y.of => x = y
    BY EntriesAre
  <2>2. e \in Told!Entries /\ f \in Told!Entries /\ SkipsEntry(e) /\ SkipsEntry(f)
    BY <2>1 DEF Told!SkippedEntries, EntryInv
  <2>3. /\ a \in Told!Stored /\ a.event.kind = "skipped" /\ a.event.mint = e.mint
        /\ b \in Told!Stored /\ b.event.kind = "skipped" /\ b.event.mint = f.mint
    BY <2>1, <2>2 DEF SkipsEntry
  <2>4. /\ SkipsTold(es, read, Len(read)) /\ Told!Entries = {es[x] : x \in DOMAIN es}
    BY ShownFacts DEF Told!Entries, Told!ToSet
  <2>5. PICK i \in DOMAIN read : a = read[i]
    BY <2>1, <2>2
  <2>6. PICK j \in DOMAIN read : b = read[j]
    BY <2>1, <2>2
  <2>7. /\ DOMAIN read = 1..Len(read) /\ Len(read) \in Nat
        /\ \A h \in DOMAIN read : read[h] \in Told!Stored
        /\ \A g, h \in DOMAIN read : Told!OrderBy(read[g], read[h]) <=> g < h
        /\ \A row \in Told!Stored, h \in DOMAIN read :
             Told!OrderBy(row, read[h]) => \E g \in DOMAIN read : row = read[g]
    BY <2>1 DEF Reading
  <2> HIDE DEF read, es
  <2>8. e.mint # f.mint => ~Told!InARow(a, b) /\ e # f
    BY <2>3 DEF Told!InARow
  \* With one to a slot, what the order puts first is later on the chain, or of one sweep.
  <2>9. ASSUME NEW x \in Told!Stored, NEW y \in Told!Stored
        PROVE  /\ x.place \in Nat /\ y.place \in Nat
               /\ x.place > y.place => Told!OrderBy(x, y)
               /\ Told!OrderBy(x, y) => x.place >= y.place
    <3>1. /\ x.place \in Nat /\ y.place \in Nat /\ x.slot \in Nat /\ y.slot \in Nat
      BY RowFacts DEF RowInv
    <3>2. /\ x.place < y.place => x.slot < y.slot
          /\ y.place < x.place => y.slot < x.slot
      BY TwoRows
    <3>3. QED
      BY <3>1, <3>2 DEF Told!OrderBy
  \* Between two skips a withholding is read if and only if one is recorded.
  <2>10. ASSUME NEW g \in DOMAIN read, NEW h \in DOMAIN read, g < h, NEW m,
                SkipsOn(read, m, g), SkipsOn(read, m, h)
         PROVE  /\ read[h].place < read[g].place
                /\ CutBetween(read, m, g, h)
                     <=> Told!WithheldBetween(m, read[h].place, read[g].place)
    <3> DEFINE x == read[g]
               y == read[h]
    <3>1. /\ x \in Told!Stored /\ y \in Told!Stored /\ Told!OrderBy(x, y)
          /\ x.event.kind = "skipped" /\ x.event.mint = m
          /\ y.event.kind = "skipped" /\ y.event.mint = m
      BY <2>7, <2>10 DEF SkipsOn
    <3> HIDE DEF x, y
    <3>2. x.place \in Nat /\ y.place \in Nat /\ x.place >= y.place
      BY <2>9, <3>1
    <3>3. x # y
      BY <3>1, OrderIsStrict
    <3>4. y.place < x.place
      BY <3>1, <3>2, <3>3, TwoRows
    <3>5. ASSUME CutBetween(read, m, g, h) PROVE Told!WithheldBetween(m, y.place, x.place)
      <4>1. PICK l \in (g + 1)..(h - 1) : read[l].event.kind = "swept" /\ read[l].event.mint = m
        BY <3>5 DEF CutBetween
      <4>2. l \in DOMAIN read /\ g < l /\ l < h
        BY <2>7, <2>10
      <4>3. /\ read[l] \in Told!Stored /\ Told!OrderBy(x, read[l]) /\ Told!OrderBy(read[l], y)
        BY <2>7, <4>2 DEF x, y
      <4>4. /\ read[l].place \in Nat /\ x.place >= read[l].place /\ read[l].place >= y.place
        BY <2>9, <3>1, <4>3
      <4>5. x.place # read[l].place /\ read[l].place # y.place
        BY <3>1, <4>1, <4>3, TwoRows
      <4>6. y.place < read[l].place /\ read[l].place < x.place
        BY <3>2, <4>4, <4>5
      <4>7. QED
        BY <4>1, <4>3, <4>6 DEF Told!WithheldBetween
    <3>6. ASSUME Told!WithheldBetween(m, y.place, x.place) PROVE CutBetween(read, m, g, h)
      <4>1. PICK w \in Told!Stored : /\ w.event.kind = "swept" /\ w.event.mint = m
                                     /\ y.place < w.place /\ w.place < x.place
        BY <3>6 DEF Told!WithheldBetween
      <4>2. Told!OrderBy(x, w) /\ Told!OrderBy(w, y)
        <5>1. w.place \in Nat /\ x.place > w.place /\ w.place > y.place
          BY <2>9, <3>2, <4>1
        <5>2. QED
          BY <2>9, <3>1, <5>1
      <4>3. PICK l \in DOMAIN read : w = read[l]
        BY <2>7, <2>10, <4>2 DEF y
      <4>4. g < l /\ l < h
        BY <2>7, <2>10, <4>2, <4>3 DEF x, y
      <4>5. l \in (g + 1)..(h - 1)
        BY <2>7, <4>4
      <4>6. QED
        BY <4>1, <4>3, <4>5 DEF CutBetween
    <3>7. QED
      BY <3>4, <3>5, <3>6 DEF x, y
  <2>11. ASSUME NEW g \in DOMAIN read, NEW h \in DOMAIN read, g < h, NEW m \in Mints,
                SkipsOn(read, m, g), SkipsOn(read, m, h),
                NEW u \in Told!Entries, NEW v \in Told!Entries, read[g] \in u.of, read[h] \in v.of
         PROVE  u = v <=> ~CutBetween(read, m, g, h)
    <3>1. (\E x \in DOMAIN es : read[g] \in es[x].of /\ read[h] \in es[x].of)
            <=> ~CutBetween(read, m, g, h)
      BY <2>4, <2>7, <2>11 DEF SkipsTold
    <3>2. (\E x \in DOMAIN es : read[g] \in es[x].of /\ read[h] \in es[x].of)
            <=> \E x \in Told!Entries : read[g] \in x.of /\ read[h] \in x.of
      BY <2>4
    <3>3. (\E x \in Told!Entries : read[g] \in x.of /\ read[h] \in x.of) <=> u = v
      BY <2>1, <2>11
    <3>4. QED
      BY <3>1, <3>2, <3>3
  <2>12. ASSUME e.mint = f.mint PROVE Told!InARow(a, b) <=> e = f
    <3> DEFINE m == e.mint
               low  == Told!Min({a.place, b.place})
               high == Told!Max({a.place, b.place})
    <3>1. Told!InARow(a, b) <=> ~Told!WithheldBetween(m, low, high)
      BY <2>3, <2>12 DEF Told!InARow
    <3>2. m \in Mints
      <4>1. RowInv(a)
        BY <2>3, RowFacts
      <4>2. QED
        BY <2>3, <4>1, EventFields DEF RowInv
    <3> HIDE DEF m
    <3>3. SkipsOn(read, m, i) /\ SkipsOn(read, m, j)
      BY <2>3, <2>5, <2>6, <2>12 DEF SkipsOn, m
    <3>4. a.place \in Nat /\ b.place \in Nat
      BY <2>3, <2>9
    <3>5. /\ a.place <= b.place => low = a.place /\ high = b.place
          /\ b.place <= a.place => low = b.place /\ high = a.place
      <4>1. {a.place, b.place} \in SUBSET Nat
        BY <3>4
      <4>2. QED
        BY <3>4, <4>1, GreatestIs, LowestIs
    <3> HIDE DEF low, high
    <3>6. CASE i = j
      <4>1. a = b /\ e = f
        BY <2>1, <2>2, <2>5, <2>6, <3>6
      <4>2. low = high /\ low \in Nat
        BY <3>4, <3>5, <4>1
      <4>3. ~Told!WithheldBetween(m, low, high)
        <5>1. ASSUME NEW row \in Told!Stored, low < row.place, row.place < high PROVE FALSE
          BY <2>9, <4>2, <5>1
        <5>2. QED
          BY <5>1 DEF Told!WithheldBetween
      <4>4. QED
        BY <3>1, <4>1, <4>3
    <3>7. CASE i < j
      <4>1. /\ b.place < a.place
            /\ CutBetween(read, m, i, j) <=> Told!WithheldBetween(m, b.place, a.place)
        BY <2>5, <2>6, <2>10, <3>3, <3>7
      <4>2. low = b.place /\ high = a.place
        BY <3>4, <3>5, <4>1
      <4>3. e = f <=> ~CutBetween(read, m, i, j)
        BY <2>2, <2>5, <2>6, <2>11, <3>2, <3>3, <3>7
      <4>4. QED
        BY <3>1, <4>1, <4>2, <4>3
    <3>8. CASE j < i
      <4>1. /\ a.place < b.place
            /\ CutBetween(read, m, j, i) <=> Told!WithheldBetween(m, a.place, b.place)
        BY <2>5, <2>6, <2>10, <3>3, <3>8
      <4>2. low = a.place /\ high = b.place
        BY <3>4, <3>5, <4>1
      <4>3. f = e <=> ~CutBetween(read, m, j, i)
        BY <2>2, <2>5, <2>6, <2>11, <3>2, <3>3, <3>8
      <4>4. QED
        BY <3>1, <4>1, <4>2, <4>3
    <3>9. QED
      BY <2>7, <3>6, <3>7, <3>8
  <2>13. QED
    BY <2>8, <2>12
<1>2. QED
  BY SweepsAre, <1>1, PTL

\* The operator is told that older entries are not shown whenever some are not, and that
\* nothing has been withheld only when nothing happened (the note under the table of
\* Position.tsx, Journal).
THEOREM CutIsTold == Told!WithholdingsAssumption /\ Told!Spec => []Told!CutIsTold
<1> SUFFICES ASSUME Told!WithholdingsAssumption PROVE Told!Spec => []Told!CutIsTold
  OBVIOUS
<1>1. SweepsInv => Told!CutIsTold
  <2> SUFFICES ASSUME SweepsInv PROVE Told!CutIsTold
    OBVIOUS
  <2> DEFINE read == Told!Rows
             es == Told!Shown.entries
  <2>1. /\ es \in Seq(EntryType) /\ DOMAIN es = 1..Len(es) /\ Len(es) \in Nat
        /\ AllTold(es, read, Len(read)) /\ Reading(read)
        /\ Told!Shown.complete <=> Len(read) < LIMIT
    BY ShownFacts
  <2>2. Told!ToSet(read) = {read[i] : i \in DOMAIN read}
    BY DEF Told!ToSet
  <2>3. Told!Journal = IF es = <<>> THEN "Nothing has been withheld"
                       ELSE IF Told!Shown.complete THEN "entries"
                       ELSE "entries, and older ones not shown"
    BY DEF Told!Journal
  <2> HIDE DEF read, es
  <2>4. es = <<>> <=> Told!Stored = {}
    <3>1. ASSUME es = <<>> PROVE Told!Stored = {}
      <4>1. DOMAIN es = {}
        BY <2>1, <3>1, EmptySeq
      <4>2. ~\E i \in 1..Len(read) : TRUE
        BY <2>1, <4>1 DEF AllTold
      <4>3. Len(read) = 0
        BY <2>1, <4>2 DEF Reading
      <4>4. QED
        BY <2>1, <4>3 DEF Reading
    <3>2. ASSUME Told!Stored = {}, es # <<>> PROVE FALSE
      <4>1. 1 \in DOMAIN es
        BY <2>1, <3>2, EmptySeq
      <4>2. EntryInv(es[1]) /\ es[1] \in EntryType
        BY <4>1, ShownFacts DEF es
      <4>3. \E row \in Told!Stored : TRUE
        BY <4>2 DEF EntryInv, SkipsEntry, EventEntry, EntryType
      <4>4. QED
        BY <3>2, <4>3
    <3>3. QED
      BY <3>1, <3>2
  <2>5. ASSUME Told!Stored # Told!ToSet(read) PROVE es # <<>> /\ ~Told!Shown.complete
    <3>1. \A i \in DOMAIN read : read[i] \in Told!Stored
      BY <2>1 DEF Reading
    <3>2. PICK row \in Told!Stored : row \notin Told!ToSet(read)
      BY <2>2, <2>5, <3>1
    <3>3. ~(Len(read) < LIMIT)
      BY <2>1, <2>2, <3>2 DEF Reading
    <3>4. QED
      BY <2>1, <2>4, <3>2, <3>3
  <2>6. QED
    BY <2>3, <2>4, <2>5 DEF Told!CutIsTold, read
<1>2. QED
  BY SweepsAre, <1>1, PTL

\* The rows of the table of withholdings have keys of their own (Position.tsx, Journal).
THEOREM KeysAreApart == Told!WithholdingsAssumption /\ Told!Spec => []Told!KeysAreApart
<1> SUFFICES ASSUME Told!WithholdingsAssumption PROVE Told!Spec => []Told!KeysAreApart
  OBVIOUS
<1>1. SweepsInv => Told!KeysAreApart
  <2> SUFFICES ASSUME SweepsInv, NEW e \in Told!Entries, NEW f \in Told!Entries,
                      Told!Key(e) = Told!Key(f)
               PROVE  e = f
    BY DEF Told!KeysAreApart
  <2>1. /\ e \in EntryType /\ f \in EntryType /\ EntryInv(e) /\ EntryInv(f)
        /\ \A row \in e.of : row \in Told!Stored
        /\ \A row \in f.of : row \in Told!Stored
        /\ \A row : row \in e.of /\ row \in f.of => e = f
    BY EntriesAre
  <2>2. /\ e.kind \in {"skipped", "swept", "manual"} /\ f.kind \in {"skipped", "swept", "manual"}
    BY <2>1 DEF EntryType
  <2>3. e.kind = f.kind /\ e.signature = f.signature /\ (e.kind # "skipped" => e.loan = f.loan)
    BY <2>2 DEF Told!Key
  <2>4. CASE e.kind = "skipped"
    <3>1. PICK a \in e.of : a.signature = e.signature
      BY <2>1, <2>4 DEF EntryInv, SkipsEntry
    <3>2. PICK b \in f.of : b.signature = f.signature
      BY <2>1, <2>3, <2>4 DEF EntryInv, SkipsEntry
    <3>3. a.event.kind = "skipped" /\ b.event.kind = "skipped"
      BY <2>1, <2>3, <2>4 DEF EntryInv, SkipsEntry
    <3>4. a = b
      BY <2>1, <2>3, <3>1, <3>2, <3>3, TwoRows
    <3>5. QED
      BY <2>1, <3>4
  <2>5. CASE e.kind # "skipped"
    <3>1. PICK a \in Told!Stored : /\ e.of = {a} /\ a.event.kind = e.kind
                                   /\ a.signature = e.signature /\ e.loan = {a.event.loan}
      BY <2>1, <2>5 DEF EntryInv, EventEntry
    <3>2. PICK b \in Told!Stored : /\ f.of = {b} /\ b.event.kind = f.kind
                                   /\ b.signature = f.signature /\ f.loan = {b.event.loan}
      BY <2>1, <2>3, <2>5 DEF EntryInv, EventEntry
    <3>3. a.place = b.place /\ a.event.mint = b.event.mint
      BY <2>3, <3>1, <3>2, TwoRows
    <3>4. a.event.kind = b.event.kind /\ a.event.loan = b.event.loan /\ a.event.kind # "skipped"
      BY <2>3, <2>5, <3>1, <3>2
    <3>5. a.event \in ToldEvents /\ b.event \in ToldEvents
      BY RowFacts DEF RowInv
    <3>6. a.event = b.event
      BY <3>3, <3>4, <3>5, EventFields
    <3>7. a = b
      BY <3>3, <3>6, TwoRows
    <3>8. QED
      BY <2>1, <3>1, <3>2, <3>7
  <2>6. QED
    BY <2>4, <2>5
<1>2. QED
  BY SweepsAre, <1>1, PTL
=============================================================================
