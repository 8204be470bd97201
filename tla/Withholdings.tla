---------------------------- MODULE Withholdings ----------------------------
(***************************************************************************)
(* What an operator is shown of the sweep journal: the query of            *)
(* createDbWithholdingSource, the folding of skips in a row into one entry *)
(* (apps/api/src/routes/loans.ts), and the table of the position page.     *)
(*                                                                         *)
(* The journal records a prefix of the operator's sweeps (Journal), so     *)
(* that what is recorded is the sweeps so far.  Amounts and rates are left *)
(* out; of a skip its deviation is kept, for the worst one is shown.       *)
(***************************************************************************)
EXTENDS Integers, Sequences, SequencesExt, FiniteSets, FiniteSetsExt

CONSTANTS
  Mints,          \* reward mints
  Loans,          \* loans repaid from each mint
  LIMIT,          \* JOURNAL_ROWS
  ONE_PER_SLOT,   \* whether no slot holds two sweeps of the operator
  Deviations,     \* of the skips
  MAX_SWEEPS      \* bounds the sweeps

WithholdingsAssumption ==
  /\ IsFiniteSet(Loans)
  /\ LIMIT \in Nat \ {0}
  /\ ONE_PER_SLOT \in BOOLEAN
  /\ Deviations \subseteq Nat
  /\ MAX_SWEEPS \in Nat

VARIABLE sweeps   \* the transactions that swept the operator, oldest first

(***************************************************************************)
(* The place of a transaction in `sweeps` is its place on the chain.  Its  *)
(* signature is a number that says nothing of it.                          *)
(***************************************************************************)
OfLoans(kind, m, loans) ==
  SetToSeq({[kind |-> kind, mint |-> m, loan |-> l] : l \in loans})

\* A sweep that is skipped may flag loans for a manual repayment,
Skip(m, d, flagged) ==
  <<[kind |-> "skipped", mint |-> m, deviation |-> d]>> \o OfLoans("manual", m, flagged)

\* and so may one that withholds for some loans, or for none.
Sweep(m, paid, flagged) == OfLoans("swept", m, paid) \o OfLoans("manual", m, flagged)

Events ==
  {Skip(m, d, flagged) : m \in Mints, d \in Deviations, flagged \in SUBSET Loans}
    \cup {Sweep(m, paid, flagged) : m \in Mints, paid \in SUBSET Loans, flagged \in SUBSET Loans}

Slots == 1..MAX_SWEEPS
Signatures == 1..MAX_SWEEPS

LastSlot == IF sweeps = <<>> THEN 0 ELSE Last(sweeps).slot

Init == sweeps = <<>>

Land(slot, signature, events) ==
  /\ Len(sweeps) < MAX_SWEEPS
  /\ IF ONE_PER_SLOT THEN slot = LastSlot + 1 /\ signature = slot
                     ELSE slot \in LastSlot..(LastSlot + 1) /\ slot > 0
  /\ \A i \in DOMAIN sweeps : sweeps[i].signature # signature
  /\ sweeps' = Append(sweeps, [slot |-> slot, signature |-> signature, events |-> events])

\* A transaction that leaves no event leaves no row.
Next ==
  \E slot \in Slots, signature \in Signatures, events \in Events \ {<<>>} :
    Land(slot, signature, events)

Spec == Init /\ [][Next]_sweeps

-----------------------------------------------------------------------------
(* The query. *)

Row(place, i) ==
  [place |-> place, slot |-> sweeps[place].slot, signature |-> sweeps[place].signature,
   eventIndex |-> i, event |-> sweeps[place].events[i]]

Stored ==
  UNION {{Row(place, i) : i \in DOMAIN sweeps[place].events} : place \in DOMAIN sweeps}

OrderBy(a, b) ==
  \/ a.slot > b.slot
  \/ a.slot = b.slot /\ a.signature < b.signature
  \/ a.slot = b.slot /\ a.signature = b.signature /\ a.eventIndex < b.eventIndex

\* The first of the table, each at the place the order gives it.
Rows ==
  LET table    == Stored
      Rank(row) == Cardinality({other \in table : OrderBy(other, row)})
  IN  [i \in 1..Min({LIMIT, Cardinality(table)}) |-> CHOOSE row \in table : Rank(row) = i - 1]

-----------------------------------------------------------------------------
(* buildWithholdings.  A run of skips is the entry it began; `of` is the   *)
(* rows an entry tells of, in no field of the code.                        *)

Entry(row) ==
  [kind |-> row.event.kind, mint |-> row.event.mint, signature |-> row.signature,
   loan |-> IF row.event.kind = "skipped" THEN {} ELSE {row.event.loan},
   of |-> {row},
   attempts |-> 1, firstAt |-> row.slot, lastAt |-> row.slot,
   worst |-> IF row.event.kind = "skipped" THEN row.event.deviation ELSE 0]

\* One more attempt of a run, older than those seen.
Attempt(entry, row) ==
  [entry EXCEPT !.attempts = @ + 1, !.firstAt = row.slot,
                !.worst = Max({@, row.event.deviation}), !.of = @ \cup {row}]

\* Slip: a withholding ends the runs of all mints.
RunsAfterAll(runs, row) ==
  IF row.event.kind = "swept" THEN [m \in Mints |-> 0] ELSE runs

\* A withholding ends the run of its mint; a flag withholds nothing.
RunsAfter(runs, row) ==
  IF row.event.kind = "swept" THEN [runs EXCEPT ![row.event.mint] = 0] ELSE runs

Add(built, row) ==
  LET m   == row.event.mint
      run == built.runs[m]
  IN  CASE row.event.kind # "skipped" ->
             [entries |-> Append(built.entries, Entry(row)), runs |-> RunsAfter(built.runs, row)]
        [] row.event.kind = "skipped" /\ run # 0 ->
             [built EXCEPT !.entries[run] = Attempt(@, row)]
        [] OTHER ->
             [entries |-> Append(built.entries, Entry(row)),
              runs |-> [built.runs EXCEPT ![m] = Len(built.entries) + 1]]

Complete(rows) == Len(rows) < LIMIT

BuildWithholdings(rows) ==
  LET built[i \in 0..Len(rows)] ==
        IF i = 0 THEN [entries |-> <<>>, runs |-> [m \in Mints |-> 0]]
                 ELSE Add(built[i - 1], rows[i])
  IN  [entries |-> built[Len(rows)].entries, complete |-> Complete(rows)]

Shown == BuildWithholdings(Rows)

-----------------------------------------------------------------------------
(* The table of the position page: the key of each entry's row, and the    *)
(* note under the table.                                                   *)

Key(entry) ==
  CASE entry.kind = "skipped" -> <<entry.signature>>
    [] entry.kind = "swept" -> <<entry.signature, entry.loan>>
    [] entry.kind = "manual" -> <<entry.signature, entry.loan, "manual">>

Journal ==
  IF Shown.entries = <<>>
    THEN "Nothing has been withheld"
    ELSE IF Shown.complete THEN "entries" ELSE "entries, and older ones not shown"

-----------------------------------------------------------------------------
(* Properties *)

TypeOK ==
  /\ \A i \in DOMAIN sweeps : sweeps[i].events \in Events
  /\ Len(Rows) <= LIMIT
  /\ \A i \in DOMAIN Shown.entries :
       Shown.entries[i].firstAt <= Shown.entries[i].lastAt /\ Shown.entries[i].attempts > 0

Entries == ToSet(Shown.entries)
SkippedEntries == {entry \in Entries : entry.kind = "skipped"}

\* FR-016, FR-017: every event read is told of in one entry and no event in
\* two, each run counts its attempts and names the worst of them, and the
\* newest event is never the one left out.
EveryRowIsTold ==
  /\ UNION {entry.of : entry \in Entries} = ToSet(Rows)
  /\ \A e, f \in Entries : e # f => e.of \cap f.of = {}
  /\ \A e \in SkippedEntries :
       /\ e.attempts = Cardinality(e.of)
       /\ e.worst = Max({row.event.deviation : row \in e.of})
       /\ e.firstAt = Min({row.slot : row \in e.of})
       /\ e.lastAt = Max({row.slot : row \in e.of})
  /\ \A row \in Stored \ ToSet(Rows), told \in ToSet(Rows) : row.slot <= told.slot

\* A withholding from the mint m lies between two places on the chain.
WithheldBetween(m, low, high) ==
  \E row \in Stored : /\ row.event.kind = "swept"
                      /\ row.event.mint = m
                      /\ low < row.place /\ row.place < high

\* Two skips that are in a row on a mint, with no withholding between them.
InARow(a, b) ==
  /\ a.event.mint = b.event.mint
  /\ ~WithheldBetween(a.event.mint, Min({a.place, b.place}), Max({a.place, b.place}))

\* withholdings.ts:25: skips in a row on one mint, with no withholding between
\* them, are one entry; skips a withholding lies between are not.
SkipsInARowAreOne ==
  \A e, f \in SkippedEntries : \A a \in e.of, b \in f.of : InARow(a, b) <=> e = f

\* The operator is told that older entries are not shown whenever some are not,
\* a run that counts too few attempts among them; and that nothing has been
\* withheld only when nothing happened.
CutIsTold ==
  /\ Stored # ToSet(Rows) => Journal = "entries, and older ones not shown"
  /\ (Journal = "Nothing has been withheld") <=> Stored = {}

\* The rows of the table have keys of their own, so that a fresh read never
\* shows one under another.
KeysAreApart == \A e, f \in Entries : e # f => Key(e) # Key(f)
=============================================================================
