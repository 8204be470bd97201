------------------------------- MODULE Keeper -------------------------------
(***************************************************************************)
(* The sweep keeper (apps/worker/src/keeper/sweep.ts): every tick reads    *)
(* watches, loans, balances and operator accounts by separate calls, plans *)
(* a sweep for each watch that has something to withhold, and sends the    *)
(* sweeps one after the other.  What it learns from their logs it keeps as *)
(* pauses in memory.                                                       *)
(*                                                                         *)
(* The program is reduced to what a keeper can see of it: one loan per     *)
(* watch, amounts in reward tokens, the whole of a payout withheld.  A     *)
(* process that is told to stop goes on with its tick next to the one that *)
(* replaces it, so there may be several keepers.                           *)
(***************************************************************************)
EXTENDS Integers, FiniteSets

CONSTANTS
  Keepers,
  Watches,          \* [operator, mint]: a reward account that repays a loan
  Unbuyable,        \* mints the pool has no conversion vault for
  Forever,          \* the pause that only a change of balance ends
  SKIP_PAUSE,       \* how long a skipped payout waits
  DEBT,             \* what a loan costs in reward tokens
  Allowances,       \* what an operator may approve outside of a borrow
  Spendings,        \* what an operator may spend of its reward tokens
  MAX_LOANS,        \* bounds the loans of a watch
  MAX_PAYOUTS,      \* bounds the payouts to a watch
  MAX_FAILURES,     \* bounds calls and ticks that fail, and restarts
  MAX_LOST          \* bounds transactions that land and are not returned

KeeperAssumption ==
  /\ Forever \notin Int
  /\ SKIP_PAUSE \in Nat \ {0}
  /\ DEBT \in Nat \ {0}
  /\ Allowances \subseteq Nat /\ Spendings \subseteq Nat \ {0}
  /\ {MAX_LOANS, MAX_PAYOUTS, MAX_FAILURES, MAX_LOST} \subseteq Nat

VARIABLES
  accounts,     \* the reward account, the watch and the loan of each watch
  tolerable,    \* mints whose market is within the tolerance
  payouts,      \* payouts to each watch so far
  credit,       \* what came in while the loan was open and was not withheld
  ticks,        \* what each keeper holds
  pauses,       \* the pauses of each keeper
  failures,     \* failures so far
  lost          \* transactions not returned so far

chain == <<accounts, tolerable, payouts, credit>>
vars == <<chain, ticks, pauses, failures, lost>>

Mints == {w.mint : w \in Watches}
Operators == {w.operator : w \in Watches}

Least(a, b) == IF a <= b THEN a ELSE b

-----------------------------------------------------------------------------
(***************************************************************************)
(* The chain.  `opened` counts the loans, `debt` is 0 without an open one; *)
(* `seen` is the watch; `allowance` is 0 when the delegation is revoked.   *)
(***************************************************************************)
AccountType ==
  [ opened : Nat, balance : Nat, seen : Nat, allowance : Nat, debt : Nat,
    due : Nat ]

NoAccount ==
  [ opened |-> 0, balance |-> 0, seen |-> 0, allowance |-> 0, debt |-> 0,
    due |-> 0 ]

OpenLoans(o) == {w \in Watches : w.operator = o /\ accounts[w].debt > 0}

Payout(a) == IF a.balance > a.seen THEN a.balance - a.seen ELSE 0

Owed(a) == Least(a.debt, a.due + Payout(a))

\* What a sweep would withhold.
Take(a) == Least(Owed(a), Least(a.balance, a.allowance))

\* Slip: a sweep that converts nothing leaves the watch where it was.
CountedAgain(a) == [a EXCEPT !.due = Owed(a)]

\* A sweep that converts nothing keeps what is owed, and moves the watch.
Counted(a) == [a EXCEPT !.due = Owed(a), !.seen = a.balance]

Withheld(a) ==
  [a EXCEPT !.balance = @ - Take(a), !.allowance = @ - Take(a),
            !.debt = @ - Take(a), !.due = Owed(a) - Take(a),
            !.seen = a.balance - Take(a)]

\* What the logs of a sweep say to a keeper.
Event(a, m) ==
  IF Take(a) = 0 THEN "nothing" ELSE IF m \in tolerable THEN "swept" ELSE "skipped"

\* The sweep of one transaction.
Land(w) ==
  LET a == accounts[w]
  IN  /\ accounts' = [accounts EXCEPT ![w] =
                        IF Event(a, w.mint) = "swept" THEN Withheld(a) ELSE Counted(a)]
      /\ credit' = [credit EXCEPT ![w] =
                      @ - (IF Event(a, w.mint) = "swept" THEN Take(a) ELSE 0)]
      /\ UNCHANGED <<tolerable, payouts>>

\* borrow opens a loan, sets the watch to the balance and approves the allowance.
Borrow(w) ==
  LET a == accounts[w]
  IN  /\ a.debt = 0
      /\ a.opened < MAX_LOANS
      /\ accounts' = [accounts EXCEPT ![w] =
                        [a EXCEPT !.opened = @ + 1, !.seen = a.balance,
                                  !.debt = DEBT, !.allowance = DEBT]]
      /\ credit' = [credit EXCEPT ![w] = 0]
      /\ UNCHANGED <<tolerable, payouts>>

Repay(w) ==
  /\ accounts[w].debt > 0
  /\ accounts' = [accounts EXCEPT ![w] = [@ EXCEPT !.debt = 0, !.due = 0]]
  /\ UNCHANGED <<tolerable, payouts, credit>>

ReceivePayout(w) ==
  /\ payouts[w] < MAX_PAYOUTS
  /\ payouts' = [payouts EXCEPT ![w] = @ + 1]
  /\ accounts' = [accounts EXCEPT ![w].balance = @ + 1]
  /\ credit' = [credit EXCEPT ![w] = IF accounts[w].debt > 0 THEN @ + 1 ELSE @]
  /\ UNCHANGED tolerable

Spend(w, amount) ==
  /\ accounts[w].balance >= amount
  /\ accounts' = [accounts EXCEPT ![w].balance = @ - amount]
  /\ UNCHANGED <<tolerable, payouts, credit>>

\* Approving 0 stands for revoking.
Approve(w, allowance) ==
  /\ accounts[w].opened > 0
  /\ accounts' = [accounts EXCEPT ![w].allowance = allowance]
  /\ UNCHANGED <<tolerable, payouts, credit>>

MarketMoves(m) ==
  /\ tolerable' = IF m \in tolerable THEN tolerable \ {m} ELSE tolerable \union {m}
  /\ UNCHANGED <<accounts, payouts, credit>>

-----------------------------------------------------------------------------
(***************************************************************************)
(* A tick: `watches` are the watches found and what they have seen,        *)
(* `loans` the open loans, `owed` those with tokens due, `balances` the    *)
(* reward accounts; `due` are the sweeps planned and not done, each with   *)
(* the loans it names; `sent` is the one that landed and is not confirmed. *)
(***************************************************************************)
Idle ==
  [ phase |-> "idle", read |-> {}, watches |-> <<>>, loans |-> {}, owed |-> {},
    balances |-> <<>>, due |-> <<>>, sent |-> {} ]

\* A pause whose time is up counts as none.
NoPause == [balance |-> 0, left |-> 0]

PauseType == [balance : Nat, left : 0..SKIP_PAUSE \union {Forever}]

TypeOK ==
  /\ accounts \in [Watches -> AccountType]
  /\ tolerable \subseteq Mints
  /\ \A k \in Keepers :
       /\ ticks[k].phase \in {"idle", "reading", "counting", "sweeping"}
       /\ DOMAIN ticks[k].due \subseteq DOMAIN ticks[k].balances
       /\ Cardinality(ticks[k].sent) <= 1
  /\ pauses \in [Keepers -> [Watches -> PauseType]]

Init ==
  /\ accounts = [w \in Watches |-> NoAccount]
  /\ tolerable = Mints
  /\ payouts = [w \in Watches |-> 0]
  /\ credit = [w \in Watches |-> 0]
  /\ ticks = [k \in Keepers |-> Idle]
  /\ pauses = [k \in Keepers |-> [w \in Watches |-> NoPause]]
  /\ failures = 0
  /\ lost = 0

\* runKeeper starts a tick when the last one has ended; fetchPool.
StartTick(k) ==
  /\ ticks[k].phase = "idle"
  /\ ticks' = [ticks EXCEPT ![k] = [Idle EXCEPT !.phase = "reading"]]
  /\ UNCHANGED <<chain, pauses, failures, lost>>

\* fetchRewardWatches
WatchesFound ==
  [w \in {x \in Watches : accounts[x].opened > 0} |-> accounts[w].seen]

\* The two calls run side by side.
ReadWatches(k) ==
  /\ ticks[k].phase = "reading"
  /\ "watches" \notin ticks[k].read
  /\ ticks' = [ticks EXCEPT ![k] =
       [@ EXCEPT !.read = @ \union {"watches"}, !.watches = WatchesFound]]
  /\ UNCHANGED <<chain, pauses, failures, lost>>

\* queryOpenLoans: the node filters by status.
LoansFound == {w \in Watches : accounts[w].debt > 0}

ReadLoans(k) ==
  /\ ticks[k].phase = "reading"
  /\ "loans" \notin ticks[k].read
  /\ ticks' = [ticks EXCEPT ![k] =
       [@ EXCEPT !.read = @ \union {"loans"},
                 !.loans = LoansFound,
                 !.owed = {w \in LoansFound : accounts[w].due > 0}]]
  /\ UNCHANGED <<chain, pauses, failures, lost>>

\* tokenAmount of the reward account of each watch found.
BalancesFound(t) == [w \in DOMAIN t.watches |-> accounts[w].balance]

\* readMany: with more addresses than one call takes, balances come first.
ReadBalances(k) ==
  /\ ticks[k].phase = "reading"
  /\ ticks[k].read = {"watches", "loans"}
  /\ ticks' = [ticks EXCEPT ![k].phase = "counting",
                            ![k].balances = BalancesFound(ticks[k])]
  /\ UNCHANGED <<chain, pauses, failures, lost>>

LoansOf(t, o) == {w \in t.loans : w.operator = o}

Paused(pause, balance) == pause.left # 0 /\ pause.balance = balance

\* Something arrived, or is still owed, on a watch with a loan to repay.
WorthSweeping(t, w) ==
  /\ w \in t.loans
  /\ t.balances[w] > t.watches[w] \/ w \in t.owed

\* openLoansForBorrow: the list and the count are two reads.
InSync(t, w) == Cardinality(LoansOf(t, w.operator)) = Cardinality(OpenLoans(w.operator))

\* planSweeps
Planned(t, paused) ==
  [w \in {x \in DOMAIN t.watches : /\ WorthSweeping(t, x)
                                   /\ ~Paused(paused[x], t.balances[x])
                                   /\ InSync(t, x)} |-> LoansOf(t, w.operator)]

\* The operator accounts are read, and the sweeps planned.
ReadAccounts(k) ==
  LET t == ticks[k]
      d == Planned(t, pauses[k])
  IN  /\ t.phase = "counting"
      /\ ticks' = [ticks EXCEPT ![k] =
                     IF d = <<>> THEN Idle
                                 ELSE [t EXCEPT !.phase = "sweeping", !.due = d]]
      /\ UNCHANGED <<chain, pauses, failures, lost>>

\* The rest of a tick after the sweep of a watch.
Done(t, w) ==
  IF DOMAIN t.due = {w}
    THEN Idle
    ELSE [t EXCEPT !.due = [x \in DOMAIN t.due \ {w} |-> t.due[x]], !.sent = {}]

Sweeping(k, w) ==
  /\ ticks[k].phase = "sweeping"
  /\ w \in DOMAIN ticks[k].due
  /\ ticks[k].sent = {}

\* The program takes a sweep that names exactly the open loans of the operator.
Accepted(t, w) == w.mint \notin Unbuyable /\ t.due[w] = OpenLoans(w.operator)

Send(k, w) ==
  /\ Sweeping(k, w)
  /\ Accepted(ticks[k], w)
  /\ Land(w)
  /\ ticks' = [ticks EXCEPT ![k].sent =
                 {[watch |-> w, event |-> Event(accounts[w], w.mint)]}]
  /\ UNCHANGED <<pauses, failures, lost>>

\* No conversion vault, or a transaction that the program refuses.
Refused(k, w) ==
  /\ Sweeping(k, w)
  /\ ~Accepted(ticks[k], w)
  /\ ticks' = [ticks EXCEPT ![k] = Done(@, w)]
  /\ UNCHANGED <<chain, pauses, failures, lost>>

PauseAfter(event, balance, pause) ==
  CASE event = "skipped" -> [balance |-> balance, left |-> SKIP_PAUSE]
    [] event = "nothing" -> [balance |-> balance, left |-> Forever]
    [] event = "swept"   -> pause

\* The logs of the sweep that landed, or none: then it looks as if nothing was withheld.
Learn(k, event) ==
  \E s \in ticks[k].sent :
    /\ pauses' = [pauses EXCEPT ![k][s.watch] =
                    PauseAfter(event, ticks[k].balances[s.watch], @)]
    /\ ticks' = [ticks EXCEPT ![k] = Done(@, s.watch)]

Confirm(k) ==
  /\ \E s \in ticks[k].sent : Learn(k, s.event)
  /\ UNCHANGED <<chain, failures, lost>>

LoseLogs(k) ==
  /\ lost < MAX_LOST
  /\ lost' = lost + 1
  /\ Learn(k, "nothing")
  /\ UNCHANGED <<chain, failures>>

\* A call of sweepOne fails, before the transaction lands or after: no pause is set.
FailSweep(k, w) ==
  /\ failures < MAX_FAILURES
  /\ failures' = failures + 1
  /\ Sweeping(k, w) \/ \E s \in ticks[k].sent : s.watch = w
  /\ ticks' = [ticks EXCEPT ![k] = Done(@, w)]
  /\ UNCHANGED <<chain, pauses, lost>>

\* A read fails, and with it the tick.
FailTick(k) ==
  /\ failures < MAX_FAILURES
  /\ failures' = failures + 1
  /\ ticks[k].phase \in {"reading", "counting"}
  /\ ticks' = [ticks EXCEPT ![k] = Idle]
  /\ UNCHANGED <<chain, pauses, lost>>

\* A process that takes over knows no pause.
Restart(k) ==
  /\ failures < MAX_FAILURES
  /\ failures' = failures + 1
  /\ ticks' = [ticks EXCEPT ![k] = Idle]
  /\ pauses' = [pauses EXCEPT ![k] = [w \in Watches |-> NoPause]]
  /\ UNCHANGED <<chain, lost>>

TimePasses ==
  /\ \E k \in Keepers, w \in Watches : pauses[k][w].left \notin {0, Forever}
  /\ pauses' = [k \in Keepers |-> [w \in Watches |->
                  IF pauses[k][w].left \in {0, Forever}
                    THEN pauses[k][w]
                    ELSE [pauses[k][w] EXCEPT !.left = @ - 1]]]
  /\ UNCHANGED <<chain, ticks, failures, lost>>

Step(k) ==
  \/ StartTick(k) \/ ReadWatches(k) \/ ReadLoans(k) \/ ReadBalances(k)
  \/ ReadAccounts(k) \/ Confirm(k)
  \/ \E w \in Watches : Send(k, w) \/ Refused(k, w)

Others ==
  /\ \/ \E w \in Watches :
          \/ Borrow(w) \/ Repay(w) \/ ReceivePayout(w)
          \/ \E amount \in Spendings : Spend(w, amount)
          \/ \E allowance \in Allowances : Approve(w, allowance)
     \/ \E m \in Mints : MarketMoves(m)
  /\ UNCHANGED <<ticks, pauses, failures, lost>>

Next ==
  \/ Others
  \/ TimePasses
  \/ \E k \in Keepers :
       \/ Step(k) \/ LoseLogs(k) \/ FailTick(k) \/ Restart(k)
       \/ \E w \in Watches : FailSweep(k, w)

Spec == Init /\ [][Next]_vars

-----------------------------------------------------------------------------
\* FR-015: no keeper, however stale its reads and whoever else sweeps, has a token
\* withheld or counted as owed that did not come in as a payout to the open loan.
WithheldOnce == \A w \in Watches : accounts[w].due <= credit[w]
=============================================================================
