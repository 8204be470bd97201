------------------------------ MODULE Indexer ------------------------------
(***************************************************************************)
(* The payout indexer (apps/worker/src/indexer): a pass lists what is new  *)
(* on each token account of the operator, down to the account's cursor or  *)
(* the start of the history, reads the transactions it has not seen, and   *)
(* records their payouts and the cursors in one database transaction.      *)
(*                                                                         *)
(* A transaction is named by its place on the chain, which is its slot and *)
(* its signature; it is in the list of every account it changes.  Several  *)
(* passes may run on one database.                                         *)
(***************************************************************************)
EXTENDS Payouts, Sequences

CONSTANTS
  Indexers,         \* processes that run passes
  Accounts,         \* the operator's token accounts
  MintOf,           \* the mint of each of them
  Transactions,     \* what may land, without its time
  PAGE_SIZE,        \* signatures listed per call
  HISTORY,          \* how far back a pass looks
  MAX_CHAIN,        \* bounds the chain
  MAX_TIME,         \* bounds the clock
  MAX_FAILURES,     \* bounds the passes that fail
  MAX_MISSING       \* bounds transactions listed and not returned

IndexerAssumption ==
  /\ \A tx \in Transactions : IsTransaction(tx)
  /\ {PAGE_SIZE, HISTORY} \subseteq Nat \ {0}
  /\ {MAX_CHAIN, MAX_TIME, MAX_FAILURES, MAX_MISSING} \subseteq Nat

VARIABLES
  chain,        \* the transactions, oldest first
  clock,
  rows,         \* the payouts table
  cursors,      \* the indexer_cursors table; 0 for an account without one
  passes,       \* what each process holds
  missing,      \* transactions that were listed and not returned
  failures

vars == <<chain, clock, rows, cursors, passes, missing, failures>>

(***************************************************************************)
(* `until` are the cursors read at the start, `since` the start of the     *)
(* history; `todo` are the accounts not listed yet, `account` the one      *)
(* being listed, `before` the oldest signature of it so far; `found` is    *)
(* what was new on each account, `pending` what is still to be read.       *)
(***************************************************************************)
Idle ==
  [ phase |-> "idle", until |-> [a \in Accounts |-> 0], since |-> 0, todo |-> {},
    listing |-> {}, before |-> 0, found |-> [a \in Accounts |-> {}],
    pending |-> {}, payouts |-> {} ]

TypeOK ==
  /\ clock \in 0..MAX_TIME
  /\ cursors \in [Accounts -> 0..Len(chain)]
  /\ missing \subseteq DOMAIN chain
  /\ \A r \in rows : r.signature \in DOMAIN chain /\ r.amount > 0
  /\ \A r, q \in rows : r.signature = q.signature => r = q
  /\ \A p \in Indexers : UNION {passes[p].found[a] : a \in Accounts} \subseteq DOMAIN chain

Init ==
  /\ chain = <<>>
  /\ clock = 0
  /\ rows = {}
  /\ cursors = [a \in Accounts |-> 0]
  /\ passes = [p \in Indexers |-> Idle]
  /\ missing = {}
  /\ failures = 0

Land(tx) ==
  /\ Len(chain) < MAX_CHAIN
  /\ chain' = Append(chain, [tx EXCEPT !.time = IF @ = NoTime THEN NoTime ELSE clock])
  /\ UNCHANGED <<clock, rows, cursors, passes, missing, failures>>

Tick ==
  /\ clock < MAX_TIME
  /\ clock' = clock + 1
  /\ UNCHANGED <<chain, rows, cursors, passes, missing, failures>>

\* Transactions that the node lists for an account.
Touching(a) == {i \in DOMAIN chain : \E move \in chain[i].moves : move.account = a}

TooOld(i, since) == chain[i].time # NoTime /\ chain[i].time < since

\* listPayoutAccounts: the accounts of the networks' mints.
PayoutAccounts == {a \in Accounts : \E n \in Networks : n.mint = MintOf[a]}

\* readCursors, then listPayoutAccounts.
StartPass(p) ==
  /\ passes[p].phase = "idle"
  /\ passes' = [passes EXCEPT ![p] =
       [Idle EXCEPT !.phase = "listing", !.until = cursors, !.since = clock - HISTORY,
                    !.todo = PayoutAccounts]]
  /\ UNCHANGED <<chain, clock, rows, cursors, missing, failures>>

\* The PAGE_SIZE newest signatures below `before`.
Page(a, before) ==
  LET below == {i \in Touching(a) : before = 0 \/ i < before}
  IN  {i \in below : Cardinality({j \in below : j > i}) < PAGE_SIZE}

\* What ends a listing on its page: the cursor, or a transaction too old.
Stops(t, a, page) == {i \in page : i = t.until[a] \/ TooOld(i, t.since)}

NewOnPage(t, a, page) == {i \in page : \A s \in Stops(t, a, page) : i > s}

\* The listing of an account ends.
Listed(t, a, page) == Stops(t, a, page) # {} \/ Cardinality(page) < PAGE_SIZE

\* One call of the loop of listNewSignatures, on the account in turn.
ReadPage(p, a) ==
  LET t    == passes[p]
      page == Page(a, t.before)
      all  == t.found[a] \union NewOnPage(t, a, page)
  IN  /\ t.phase = "listing"
      /\ a \in IF t.listing = {} THEN t.todo ELSE t.listing
      /\ passes' = [passes EXCEPT ![p] =
           IF Listed(t, a, page)
             THEN [t EXCEPT !.found[a] = all, !.pending = @ \union all,
                            !.todo = @ \ {a}, !.listing = {}, !.before = 0,
                            !.phase = IF t.todo = {a} THEN "reading" ELSE "listing"]
             ELSE [t EXCEPT !.found[a] = all, !.listing = {a}, !.before = Min(page)]]
      /\ UNCHANGED <<chain, clock, rows, cursors, missing, failures>>

\* What reading a transaction adds to a pass.
ReadInto(t, i) ==
  {[signature |-> i, network |-> y.network, amount |-> y.amount] : y \in PayoutsOf(chain[i])}

\* The newest of the pending transactions; one that failed or has no time is not
\* asked for, and has no payouts.
ReadTransaction(p) ==
  LET t == passes[p]
  IN  /\ t.phase = "reading"
      /\ t.pending # {}
      /\ passes' = [passes EXCEPT ![p] =
           [t EXCEPT !.pending = @ \ {Max(@)}, !.payouts = @ \union ReadInto(t, Max(t.pending))]]
      /\ UNCHANGED <<chain, clock, rows, cursors, missing, failures>>

\* The node does not have a transaction that it has listed: it is passed over.
SkipTransaction(p) ==
  LET t == passes[p]
  IN  /\ t.phase = "reading"
      /\ t.pending # {}
      /\ Cardinality(missing) < MAX_MISSING
      /\ missing' = missing \union {Max(t.pending)}
      /\ passes' = [passes EXCEPT ![p].pending = @ \ {Max(@)}]
      /\ UNCHANGED <<chain, clock, rows, cursors, failures>>

\* Slip: the table has no key.
InsertedAgain(t, new) == new = t.payouts

\* Rows that go in: the first of each signature that has none (onConflictDoNothing).
Inserted(t, new) ==
  /\ \A n \in new, r \in rows \union new : n.signature = r.signature => n = r
  /\ \A y \in t.payouts : \E r \in rows \union new : r.signature = y.signature

\* An account where nothing is new keeps its cursor.
CursorsAfter(t) ==
  [a \in Accounts |-> IF t.found[a] = {} THEN cursors[a] ELSE Max(t.found[a])]

\* recordPass
RecordPass(p) ==
  LET t == passes[p]
  IN  /\ t.phase = "reading"
      /\ t.pending = {}
      /\ \E new \in SUBSET t.payouts : Inserted(t, new) /\ rows' = rows \union new
      /\ cursors' = CursorsAfter(t)
      /\ passes' = [passes EXCEPT ![p] = Idle]
      /\ UNCHANGED <<chain, clock, missing, failures>>

\* A call to the node or the database fails: nothing of the pass is kept.
FailPass(p) ==
  /\ passes[p].phase # "idle"
  /\ failures < MAX_FAILURES
  /\ failures' = failures + 1
  /\ passes' = [passes EXCEPT ![p] = Idle]
  /\ UNCHANGED <<chain, clock, rows, cursors, missing>>

Step(p) ==
  StartPass(p) \/ (\E a \in Accounts : ReadPage(p, a)) \/ ReadTransaction(p) \/ RecordPass(p)

Next ==
  \/ \E tx \in Transactions : Land(tx)
  \/ Tick
  \/ \E p \in Indexers : Step(p) \/ SkipTransaction(p) \/ FailPass(p)

Spec == Init /\ [][Next]_vars

-----------------------------------------------------------------------------
\* FR-002: every row is tokens that the operator really gained in that transaction,
\* and whoever else parted with tokens of the mint, over all their accounts, or issued
\* them, is a source of the network: nobody else's payment and no move between own
\* accounts counts.
NothingInvented ==
  \A r \in rows :
    LET tx == chain[r.signature]
        Gain(mint, owner) ==
          MapThenSumSet(LAMBDA move : move.change,
                        {move \in tx.moves : move.mint = mint /\ move.owner = owner})
    IN  \E n \in Networks :
          /\ n.id = r.network
          /\ Gain(n.mint, Wallet) = r.amount
          /\ \A v \in tx.moves :
               v.mint = n.mint /\ Gain(v.mint, v.owner) < 0 /\ v.owner \notin {Wallet, Nobody}
                 => [kind |-> "transfer", address |-> v.owner] \in n.sources
          /\ \A i \in tx.issues :
               i.mint = n.mint => [kind |-> "mint", address |-> i.authority] \in n.sources

\* A payout of the history that has no row, and that the node did not fail to return.
Absent(i) ==
  /\ PayoutsOf(chain[i]) # {}
  /\ i \notin missing
  /\ ~TooOld(i, clock - HISTORY)
  /\ \A r \in rows : r.signature # i

\* A cursor is never past a payout without a row: no failure, no second process and
\* no second account hides one for good.
CursorCovered ==
  \A a \in PayoutAccounts : \A i \in Touching(a) : i <= cursors[a] => ~Absent(i)
=============================================================================
