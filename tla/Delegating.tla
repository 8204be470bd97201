----------------------------- MODULE Delegating -----------------------------
(***************************************************************************)
(* The mandate page (apps/web/src/pages/Mandate.tsx): for every reward     *)
(* token it shows what the protocol may withhold beside what the loans     *)
(* need, and lets the operator set the allowance or revoke it.  What the   *)
(* loans need is their debtCeiling, which time does not move within the    *)
(* term (LoanLife's CeilingOnlyFalls), so a number stands for the loans.   *)
(***************************************************************************)
EXTENDS ClientLoan

CONSTANTS
  Operators,        \* the operator's wallets
  Foreign,          \* delegates other than the protocol
  NoOne, OURS,
  Calls,            \* clicks that may be under way at once
  Rates, NoRate,
  MAX_DEBT,
  MAX_CHANGES       \* how often something fails or happens elsewhere

DelegatingAssumption ==
  /\ Rates \subseteq Nat \ {0} /\ NoRate \notin Rates
  /\ MAX_DEBT \in Nat /\ MAX_CHANGES \in Nat

VARIABLES
  debt,         \* what the loans on each token can come to within their term
  account,      \* the reward accounts: who may take, and how much
  operator,     \* the wallet that is connected
  board,        \* the rows the page shows
  action,       \* the last thing done, and on which token
  replace,      \* the tokens whose "Replace it" is ticked
  calls,        \* the runs of `send` that have not ended
  changes

chainVars == <<debt, account>>
pageVars == <<operator, board, action, replace>>
vars == <<chainVars, pageVars, calls, changes>>

Mints == RewardMints
NoAccount == [delegate |-> NoOne, amount |-> 0]
Loading == [status |-> "loading"]
Unreachable == [status |-> "unreachable"]
Idle == [step |-> "idle"]
NoCall == [step |-> "none"]

Ready == board.status = "ready"
Busy == action.step = "busy"

Init ==
  /\ debt \in [Operators -> [Mints -> 0..MAX_DEBT]]
  /\ account = [o \in Operators |-> [m \in Mints |-> NoAccount]]
  /\ operator \in Operators
  /\ board = Loading
  /\ action = Idle
  /\ replace = {}
  /\ calls = [c \in Calls |-> NoCall]
  /\ changes = 0

Change == changes < MAX_CHANGES /\ changes' = changes + 1

-----------------------------------------------------------------------------
\* Reading the rows: the loans first, then the accounts and the rates.

ReadOpenLoans ==
  /\ board = Loading
  /\ board' = [status |-> "sizing", ceiling |-> debt[operator]]
  /\ UNCHANGED <<chainVars, operator, action, replace, calls, changes>>

\* No rate is asked for where nothing is owed.
Target(ceiling, rate) ==
  IF ceiling = 0 THEN 0
  ELSE IF rate = NoRate THEN NoRate ELSE RewardAllowance(ceiling, rate)

ReadRows ==
  /\ board.status = "sizing"
  /\ \E rate \in [Mints -> Rates \union {NoRate}] :
       /\ IF \E m \in Mints : rate[m] = NoRate THEN Change ELSE UNCHANGED changes
       /\ board' = [status |-> "ready",
                 rows   |-> [m \in Mints |->
                   [ account |-> account[operator][m],
                     ceiling |-> board.ceiling[m],
                     target  |-> Target(board.ceiling[m], rate[m]) ]]]
  /\ UNCHANGED <<chainVars, operator, action, replace, calls>>

ReadFails ==
  /\ board.status \in {"loading", "sizing"}
  /\ board' = Unreachable
  /\ Change
  /\ UNCHANGED <<chainVars, operator, action, replace, calls>>

-----------------------------------------------------------------------------
\* What a row says and offers.

\* foreignDelegate: another delegate that can still take.
ForeignDelegate(acc) == acc.delegate \in Foreign /\ acc.amount > 0

Delegated(acc) == IF acc.delegate = OURS THEN acc.amount ELSE 0

\* mandateState
Kind(row) ==
  CASE row.ceiling = 0 /\ Delegated(row.account) = 0 -> "none"
    [] row.ceiling = 0 /\ Delegated(row.account) > 0 -> "idle"
    [] row.ceiling > 0 /\ Delegated(row.account) = 0 -> "missing"
    [] OTHER                                         -> "active"

\* What the page says of a row.
Says(row) ==
  IF Kind(row) # "active" THEN Kind(row)
  ELSE IF row.target = NoRate THEN "cannot be said"
  ELSE IF Delegated(row.account) > row.target THEN "more than the debt"
  ELSE IF Delegated(row.account) < row.target THEN "no longer covers"
  ELSE "covers and no more"

OffersApprove(m) ==
  LET row == board.rows[m]
  IN  /\ Kind(row) \in {"missing", "active"}
      /\ row.target # NoRate /\ row.target # 0
      /\ row.target # Delegated(row.account)
      /\ Kind(row) = "missing" /\ ForeignDelegate(row.account) => m \in replace

OffersRevoke(m) ==
  LET row == board.rows[m]
  IN  Kind(row) \in {"idle", "active"} /\ Delegated(row.account) > 0

\* The box is there where the account lets someone else take.
Tick(m) ==
  /\ Ready
  /\ Kind(board.rows[m]) = "missing" /\ ForeignDelegate(board.rows[m].account)
  /\ replace' = IF m \in replace THEN replace \ {m} ELSE replace \union {m}
  /\ UNCHANGED <<chainVars, operator, board, action, calls, changes>>

-----------------------------------------------------------------------------
\* `send`, for a revoke or an approve.

Click(c, m, what) ==
  /\ Ready /\ ~Busy
  /\ what = "approve" => OffersApprove(m)
  /\ what = "revoke" => OffersRevoke(m)
  /\ calls[c] = NoCall
  /\ action' = [step |-> "busy", mint |-> m]
  /\ calls' = [calls EXCEPT ![c] =
       [ step |-> "building", operator |-> operator, mint |-> m, what |-> what,
         ticked |-> m \in replace ]]
  /\ UNCHANGED <<chainVars, operator, board, replace, changes>>

\* The page is waiting for the call.
Waiting(c) == calls[c] # NoCall /\ calls[c].step # "adrift"

\* Nothing to send after all: the page reads again.
Withdraw(c) ==
  /\ calls' = [calls EXCEPT ![c] = NoCall]
  /\ action' = Idle
  /\ board' = Loading

BuildRevoke(c) ==
  /\ calls[c] # NoCall /\ calls[c].step = "building" /\ calls[c].what = "revoke"
  /\ calls' = [calls EXCEPT ![c] =
       [ step |-> "sent", operator |-> @.operator, mint |-> @.mint, what |-> "revoke" ]]
  /\ UNCHANGED <<chainVars, pageVars, changes>>

\* delegationFor, with the loans and the rate read now.
Sized(c, rate) == RewardAllowance(debt[calls[c].operator][calls[c].mint], rate)

\* What the re-read account and allowance leave nothing to send for.
Refuses(c, acc, allowance) ==
  \/ ForeignDelegate(acc) /\ ~calls[c].ticked
  \/ allowance = 0

BuildApprove(c) ==
  /\ calls[c] # NoCall /\ calls[c].step = "building" /\ calls[c].what = "approve"
  /\ LET o == calls[c].operator
         m == calls[c].mint
     IN  \E rate \in Rates :
           IF Refuses(c, account[o][m], Sized(c, rate))
             THEN Withdraw(c)
             ELSE /\ calls' = [calls EXCEPT ![c] =
                       [ step |-> "sent", operator |-> o, mint |-> m, what |-> "approve",
                         allowance |-> Sized(c, rate), rate |-> rate,
                         debt |-> debt[o][m] ]]
                  /\ UNCHANGED <<action, board>>
  /\ UNCHANGED <<chainVars, operator, replace, changes>>

\* The rate or the wallet refuses, the transaction fails, or its confirmation
\* is lost, before it landed or after; the rows are not read again.
Fail(c) ==
  /\ Waiting(c)
  /\ \/ calls' = [calls EXCEPT ![c] = NoCall]
     \/ /\ calls[c].step = "sent"
        /\ calls' = [calls EXCEPT ![c].step = "adrift"]
  /\ action' = [step |-> "failed", mint |-> calls[c].mint]
  /\ Change
  /\ UNCHANGED <<chainVars, operator, board, replace>>

\* The blockhash of a transaction nobody waits for is too old.
Expire(c) ==
  /\ calls[c] # NoCall /\ calls[c].step = "adrift"
  /\ calls' = [calls EXCEPT ![c] = NoCall]
  /\ UNCHANGED <<chainVars, pageVars, changes>>

Land(c) ==
  /\ calls[c] # NoCall /\ calls[c].step \in {"sent", "adrift"}
  /\ account' = [account EXCEPT ![calls[c].operator][calls[c].mint] =
       IF calls[c].what = "revoke"
         THEN NoAccount
         ELSE [delegate |-> OURS, amount |-> calls[c].allowance]]
  /\ calls' = [calls EXCEPT ![c] =
       IF @.step = "sent"
         THEN [ step |-> "landed", operator |-> @.operator, mint |-> @.mint, what |-> @.what ]
         ELSE NoCall]
  /\ UNCHANGED <<debt, pageVars, changes>>

Confirm(c) ==
  /\ calls[c] # NoCall /\ calls[c].step = "landed"
  /\ calls' = [calls EXCEPT ![c] = NoCall]
  /\ action' = [step |-> "done", mint |-> calls[c].mint]
  /\ board' = Loading
  /\ UNCHANGED <<chainVars, operator, replace, changes>>

-----------------------------------------------------------------------------
\* Elsewhere.

\* The keeper withholds: the debt and the allowance come down, at its own rate.
Sweep(o, m, rate) ==
  LET acc    == account[o][m]
      tokens == RATE_PER \div rate
  IN  /\ debt[o][m] > 0 /\ acc.delegate = OURS /\ tokens <= acc.amount /\ tokens > 0
      /\ debt' = [debt EXCEPT ![o][m] = @ - 1]
      /\ account' = [account EXCEPT ![o][m] =
           IF tokens = acc.amount THEN NoAccount ELSE [acc EXCEPT !.amount = @ - tokens]]
      /\ Change
      /\ UNCHANGED <<pageVars, calls>>

\* A repayment by hand, or another loan.
DebtMoves(o, m, left) ==
  /\ debt[o][m] # left
  /\ debt' = [debt EXCEPT ![o][m] = left]
  /\ Change
  /\ UNCHANGED <<account, pageVars, calls>>

\* The operator lets another program take from the account.
ApproveForeign(o, m, f) ==
  /\ account' = [account EXCEPT ![o][m] = [delegate |-> f, amount |-> 1]]
  /\ Change
  /\ UNCHANGED <<debt, pageVars, calls>>

\* Another wallet is connected: the page reads its rows and keeps the rest.
SwitchWallet(o) ==
  /\ o # operator
  /\ operator' = o
  /\ board' = Loading
  /\ Change
  /\ UNCHANGED <<chainVars, action, replace, calls>>

\* The operator comes back to the page.
Reload ==
  /\ ~Busy /\ calls = [c \in Calls |-> NoCall]
  /\ board' = Loading /\ action' = Idle
  /\ replace' = {}
  /\ UNCHANGED <<chainVars, operator, calls, changes>>

-----------------------------------------------------------------------------
Read == ReadOpenLoans \/ ReadRows

Press(m) ==
  \E c \in Calls, what \in {"approve", "revoke"} : Click(c, m, what)

Build(c) == BuildRevoke(c) \/ BuildApprove(c)

Elsewhere ==
  \/ \E o \in Operators, m \in Mints :
       \/ \E rate \in Rates : Sweep(o, m, rate)
       \/ \E left \in 0..MAX_DEBT : DebtMoves(o, m, left)
       \/ \E f \in Foreign : ApproveForeign(o, m, f)
  \/ \E o \in Operators : SwitchWallet(o)

Next ==
  \/ Read
  \/ ReadFails
  \/ \E m \in Mints : Tick(m) \/ Press(m)
  \/ \E c \in Calls : Build(c) \/ Land(c) \/ Confirm(c) \/ Fail(c) \/ Expire(c)
  \/ Elsewhere
  \/ Reload

Spec == Init /\ [][Next]_vars

-----------------------------------------------------------------------------
AccountType ==
  {NoAccount} \union [delegate : Foreign \union {OURS}, amount : U64 \ {0}]

RowType ==
  [account : AccountType, ceiling : 0..MAX_DEBT, target : U64 \union {NoRate}]

TypeOK ==
  /\ debt \in [Operators -> [Mints -> 0..MAX_DEBT]]
  /\ account \in [Operators -> [Mints -> AccountType]]
  /\ operator \in Operators
  /\ board \in {Loading, Unreachable}
       \union [status : {"sizing"}, ceiling : [Mints -> 0..MAX_DEBT]]
       \union [status : {"ready"}, rows : [Mints -> RowType]]
  /\ action \in {Idle} \union [step : {"busy", "failed", "done"}, mint : Mints]
  /\ replace \subseteq Mints
  /\ changes \in 0..MAX_CHANGES
  /\ \A c \in Calls : calls[c] # NoCall =>
       /\ calls[c].step \in {"building", "sent", "landed", "adrift"}
       /\ calls[c].operator \in Operators /\ calls[c].mint \in Mints
       /\ calls[c].step \in {"sent", "adrift"} /\ calls[c].what = "approve"
            => calls[c].allowance \in U64 \ {0}

\* While the page is busy one transaction is on its way, and none otherwise:
\* two approvals of the same click would be sized by the same debt.
OneAtATime ==
  /\ \A c, d \in Calls : Waiting(c) /\ Waiting(d) => c = d
  /\ Busy <=> \E c \in Calls : Waiting(c)

\* The buttons under a row do what its text asks for: "Set it" where a rate is
\* known and the debt is worth a token, "Revoke it" where nothing is owed.
OffersWhatItSays ==
  Ready => \A m \in Mints :
    LET row == board.rows[m]
    IN  /\ Says(row) \in {"more than the debt", "no longer covers"} /\ row.target # 0
             => OffersApprove(m)
        /\ Says(row) = "idle" => OffersRevoke(m)
        /\ Says(row) \in {"none", "covers and no more"} => ~OffersApprove(m)

\* However long the row was on the screen, an approval is within the debt at
\* the rate, unless the debt moved while the wallet had it.
ApprovalWithinDebt ==
  \A c \in Calls :
    /\ Land(c) /\ calls[c].what = "approve"
    /\ debt[calls[c].operator][calls[c].mint] = calls[c].debt
    => account'[calls[c].operator][calls[c].mint].amount * calls[c].rate
         <= debt[calls[c].operator][calls[c].mint] * RATE_PER
=============================================================================
