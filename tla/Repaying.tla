------------------------------ MODULE Repaying ------------------------------
(***************************************************************************)
(* The position page (apps/web/src/pages/Position.tsx): it reads an        *)
(* operator's open loans once, shows where they stand, and signs one       *)
(* transaction that repays several loans and moves the delegation on their *)
(* reward accounts.  Between the click and the slot the transaction lands  *)
(* in the page reads the accounts, waits for the wallet and waits for the  *)
(* chain, while the keeper sweeps and the operator uses other pages.       *)
(***************************************************************************)
EXTENDS ClientLoan, FiniteSets

CONSTANTS
  Loans,            \* the operator's loans, numbered in the order they are read
  OpenedLoans,      \* what those loans may be at the start
  Calls,            \* clicks on the button that may be under way at once
  Rates, NoRate,    \* rates the api may sign, and none
  NEXT_PAYMENT, EVERYTHING,   \* two of the three choices on the form
  CustomAmounts,    \* what the operator may type instead
  Wallets,          \* stablecoin the operator may hold
  SweepAmounts, SweepRates, Revoking,   \* what happens elsewhere
  START, MAX_TIME,
  MAX_CLICKS

\* What borrow gives and a repayment leaves: principal to repay exactly while
\* the loan is open, in whole instalments.
Consistent(loan) ==
  /\ IsOpen(loan) <=> loan.outstanding > 0
  /\ loan.outstanding <= loan.principal
  /\ ~IsOpen(loan) => loan.principal > 0 /\ loan.accrued_interest = 0
  /\ loan.due_at > loan.opened_at
  /\ (loan.due_at - loan.opened_at) % REPAYMENT_PERIOD = 0

RepayingAssumption ==
  /\ Loans \subseteq Nat /\ IsFiniteSet(Loans)
  /\ NoRate \notin Rates /\ Rates \subseteq Nat \ {0}
  /\ OpenedLoans \subseteq [Loans -> LoanType]
  /\ \A opened \in OpenedLoans : \A i \in Loans :
       Consistent(opened[i]) /\ opened[i].last_accrual_at <= START
  /\ EVERYTHING # NEXT_PAYMENT
  /\ CustomAmounts \subseteq Nat \ {0, EVERYTHING, NEXT_PAYMENT}
  /\ SweepAmounts \subseteq Nat /\ SweepRates \subseteq Nat \ {0}
  /\ Revoking \in BOOLEAN /\ START \in Nat

VARIABLES
  now,
  loans,        \* the loans on the chain
  rewards,      \* the operator's reward account per mint
  wallet,       \* stablecoin in the operator's account
  shown,        \* the loans the page read, once it has
  balance,      \* the stablecoin balance the page read, once it has
  clock,        \* useNow: the moment the figures are brought up to
  stage,
  calls,        \* the runs of `sign` that have not ended
  clicks        \* how many there have been

chainVars == <<loans, rewards, wallet>>
pageVars == <<shown, balance, clock, stage, calls>>
vars == <<now, chainVars, pageVars, clicks>>

Choices == {NEXT_PAYMENT, EVERYTHING} \union CustomAmounts
Loading == [status |-> "loading", loans |-> <<>>]
Unreachable == [status |-> "unreachable", loans |-> <<>>]
NoCall == [step |-> "none"]     \* a click that is not
NotRead == -1

OpenLoans == {i \in Loans : IsOpen(loans[i])}

-----------------------------------------------------------------------------
\* What the page shows, and when its button can be pressed.

\* Open: the figures above the loans, and a row for each.
Figures(states, at) ==
  [ owed     |-> OwedNow(states, at),
    left     |-> SumFunction([i \in DOMAIN states |-> states[i].outstanding]),
    interest |-> SumFunction([i \in DOMAIN states |-> AccrueTo(states[i], at).interest]),
    next     |-> NextAmount(states, at),
    rows     |-> [i \in DOMAIN states |->
                   [ left   |-> states[i].outstanding,
                     next   |-> Payment(states[i], at),
                     late   |-> NextOf(states[i], at).late,
                     manual |-> states[i].manual_repayment # NoReason ]] ]

AmountAt(states, choice, at) ==
  CASE choice = EVERYTHING   -> RepayAllAmount(states, at)
    [] choice = NEXT_PAYMENT -> NextAmount(states, at)
    [] OTHER                 -> choice

\* The wallet needs to hold the debt, not the ceiling.
Needed(states, choice, at) ==
  IF choice = EVERYTHING THEN OwedNow(states, at) ELSE AmountAt(states, choice, at)

Busy == stage \in {"signing", "confirming"}

\* The form is there: there are loans to repay, and the balance has been read.
Formed == shown.status = "ready" /\ shown.loans # <<>> /\ balance # NotRead

Short(choice) == Needed(shown.loans, choice, clock) > balance

CanSign(choice) ==
  /\ Formed
  /\ Allocates(shown.loans, AmountAt(shown.loans, choice, clock), clock)
  /\ ~Short(choice)
  /\ ~Busy

\* What the form says under the choices.
Notes(choice) ==
  LET allocates == Allocates(shown.loans, AmountAt(shown.loans, choice, clock), clock)
  IN  (IF ~allocates /\ AmountAt(shown.loans, choice, clock) > 0 THEN {"over-debt"} ELSE {})
        \union (IF Short(choice) /\ allocates THEN {"short"} ELSE {})
        \union (IF stage = "idle" THEN {} ELSE {stage})

Init ==
  /\ now = START /\ clock = START
  /\ loans \in OpenedLoans
  /\ \E rate \in Rates :
       rewards = [m \in RewardMints |->
         [ ours |-> TRUE,
           allowance |-> RewardAllowance(
             DebtCeilings([i \in {j \in Loans : loans[j].reward_mint = m} |-> loans[i]], START),
             rate) ]]
  /\ wallet \in Wallets
  /\ shown = Loading
  /\ balance = NotRead
  /\ stage = "idle"
  /\ calls = [c \in Calls |-> NoCall]
  /\ clicks = 0

-----------------------------------------------------------------------------
\* Reading, with answers of an earlier reading dropped.

ReadLoans ==
  /\ shown.status = "loading"
  /\ \/ shown' = [status |-> "ready", loans |-> [i \in OpenLoans |-> loans[i]]]
     \/ shown' = Unreachable
  /\ UNCHANGED <<now, chainVars, balance, clock, stage, calls, clicks>>

ReadBalance ==
  /\ shown.status = "ready" /\ balance = NotRead
  /\ balance' = wallet
  /\ UNCHANGED <<now, chainVars, shown, clock, stage, calls, clicks>>

\* The loans are read again after a repayment: the form goes and comes back idle.
ReadAgain ==
  /\ shown' = Loading
  /\ balance' = NotRead
  /\ stage' = "idle"

\* Every minute.
BringUpToDate ==
  /\ clock < now
  /\ clock' = now
  /\ UNCHANGED <<now, chainVars, shown, balance, stage, calls, clicks>>

-----------------------------------------------------------------------------
\* `sign`: the amount and its division are those of the click.
Click(c, choice) ==
  LET states == shown.loans
      amount == AmountAt(states, choice, now)
  IN  /\ calls[c] = NoCall
      /\ clicks < MAX_CLICKS /\ clicks' = clicks + 1
      /\ CanSign(choice)
      /\ Allocates(states, amount, now)
      /\ calls' = [calls EXCEPT ![c] =
           [ step     |-> "reading",
             mounted  |-> TRUE,
             choice   |-> choice,
             at       |-> now,
             loans    |-> states,
             per_loan |-> Allocation(states, amount, now),
             permits  |-> <<>> ]]
      /\ UNCHANGED <<now, chainVars, shown, balance, clock, stage>>

Keep == [kind |-> "keep"]
Revoke == [kind |-> "revoke"]

CeilingLeft(call, i) ==
  CeilingInTerm(LeftOf(call.loans[i], call.per_loan[i], call.at), call.at)

\* delegationAfterRepayment, for the account as it is read now.
Delegation(call, m, rate) ==
  LET covered == {i \in DOMAIN call.loans : call.loans[i].reward_mint = m}
      ceiling == SumFunction([i \in covered |-> CeilingLeft(call, i)])
      before  == DebtCeilings([i \in covered |-> call.loans[i]], call.at)
      allowance == IF rate = NoRate
                     THEN (rewards[m].allowance * ceiling) \div before
                     ELSE RewardAllowance(ceiling, rate)
  IN  IF \/ ~rewards[m].ours
         \/ rewards[m].allowance = 0
         \/ \A i \in covered : call.per_loan[i] = 0
        THEN Keep
        ELSE IF ceiling = 0 \/ allowance = 0
               THEN Revoke
               ELSE [ kind |-> "set", allowance |-> allowance,
                      rate |-> rate, had |-> rewards[m].allowance ]

SetStage(c, s) == stage' = IF calls[c].mounted THEN s ELSE stage

\* The reward accounts, the rates and a blockhash, read again at the click.
Prepare(c) ==
  /\ calls[c] # NoCall /\ calls[c].step = "reading"
  /\ \E rate \in [RewardMints -> Rates \union {NoRate}] :
       calls' = [calls EXCEPT
         ![c].step = "signing",
         ![c].permits = [m \in RewardMints |-> Delegation(calls[c], m, rate[m])]]
  /\ SetStage(c, "signing")
  /\ UNCHANGED <<now, chainVars, shown, balance, clock, clicks>>

Send(c) ==
  /\ calls[c] # NoCall /\ calls[c].step = "signing"
  /\ calls' = [calls EXCEPT ![c].step = "sent"]
  /\ SetStage(c, "confirming")
  /\ UNCHANGED <<now, chainVars, shown, balance, clock, clicks>>

\* A read fails, the wallet declines, the transaction expires or comes back
\* with an error, or the confirmation is lost: before the transaction landed,
\* which it may still do, or after.
Fail(c) ==
  /\ calls[c] # NoCall /\ calls[c].step # "adrift"
  /\ \/ calls' = [calls EXCEPT ![c] = NoCall]
     \/ /\ calls[c].step = "sent"
        /\ calls' = [calls EXCEPT ![c].step = "adrift"]
  /\ SetStage(c, "failed")
  /\ UNCHANGED <<now, chainVars, shown, balance, clock, clicks>>

\* The blockhash of a transaction nobody waits for is too old.
Expire(c) ==
  /\ calls[c] # NoCall /\ calls[c].step = "adrift"
  /\ calls' = [calls EXCEPT ![c] = NoCall]
  /\ UNCHANGED <<now, chainVars, shown, balance, clock, stage, clicks>>

\* onRepaid
Confirm(c) ==
  /\ calls[c] # NoCall /\ calls[c].step = "landed"
  /\ calls' = [k \in Calls |->
       IF k = c THEN NoCall
       ELSE IF calls[k] = NoCall THEN NoCall
       ELSE [calls[k] EXCEPT !.mounted = FALSE]]
  /\ ReadAgain
  /\ UNCHANGED <<now, chainVars, clock, clicks>>

-----------------------------------------------------------------------------
\* The chain.

Repaid(call) == {i \in DOMAIN call.per_loan : call.per_loan[i] > 0}

Taken(call, i) == Least(call.per_loan[i], TotalOwed(Accrue(loans[i], now)))

\* The transaction of a call: repay for each loan, then the delegations.
Land(c) ==
  LET call == calls[c]
  IN  /\ call # NoCall /\ call.step \in {"sent", "adrift"}
      /\ Repaid(call) \subseteq OpenLoans
      /\ SumFunction([i \in Repaid(call) |-> Taken(call, i)]) <= wallet
      /\ loans' = [i \in Loans |->
           IF i \in Repaid(call)
             THEN ApplyRepayment(Accrue(loans[i], now), call.per_loan[i])
             ELSE loans[i]]
      /\ wallet' = wallet - SumFunction([i \in Repaid(call) |-> Taken(call, i)])
      /\ rewards' = [m \in RewardMints |->
           CASE call.permits[m].kind = "keep" -> rewards[m]
             [] call.permits[m].kind = "revoke" -> [ours |-> FALSE, allowance |-> 0]
             [] OTHER -> [ours |-> TRUE, allowance |-> call.permits[m].allowance]]
      /\ calls' = [calls EXCEPT ![c] =
           IF call.step = "sent" THEN [@ EXCEPT !.step = "landed"] ELSE NoCall]
      /\ UNCHANGED <<now, shown, balance, clock, stage, clicks>>

\* The keeper repays a loan from its reward account, which spends the allowance.
Sweep(i, amount, rate) ==
  LET m      == loans[i].reward_mint
      paid   == Least(amount, TotalOwed(Accrue(loans[i], now)))
      tokens == DivCeil(paid * RATE_PER, rate)
  IN  /\ i \in OpenLoans
      /\ rewards[m].ours /\ tokens <= rewards[m].allowance
      /\ loans' = [loans EXCEPT ![i] = ApplyRepayment(Accrue(@, now), paid)]
      /\ rewards' = [rewards EXCEPT ![m] =
           [ours |-> tokens < @.allowance, allowance |-> @.allowance - tokens]]
      /\ UNCHANGED <<now, wallet, pageVars, clicks>>

\* The operator revokes on the mandate page.
RevokeElsewhere(m) ==
  /\ Revoking /\ rewards[m].ours
  /\ rewards' = [rewards EXCEPT ![m] = [ours |-> FALSE, allowance |-> 0]]
  /\ UNCHANGED <<now, loans, wallet, pageVars, clicks>>

Tick ==
  /\ now < MAX_TIME
  /\ now' = now + 1
  /\ UNCHANGED <<chainVars, pageVars, clicks>>

Next ==
  \/ ReadLoans
  \/ ReadBalance
  \/ BringUpToDate
  \/ \E c \in Calls :
       \/ \E choice \in Choices : Click(c, choice)
       \/ Prepare(c)
       \/ Send(c)
       \/ Fail(c)
       \/ Expire(c)
       \/ Confirm(c)
       \/ Land(c)
  \/ \E i \in Loans, amount \in SweepAmounts, rate \in SweepRates : Sweep(i, amount, rate)
  \/ \E m \in RewardMints : RevokeElsewhere(m)
  \/ Tick

Spec == Init /\ [][Next]_vars

-----------------------------------------------------------------------------
PermitType ==
  {Keep, Revoke}
    \union [kind : {"set"}, allowance : U64 \ {0}, rate : Rates \union {NoRate}, had : U64]

CallOK(call) ==
  /\ call.step \in {"reading", "signing", "sent", "landed", "adrift"}
  /\ call.mounted \in BOOLEAN
  /\ call.choice \in Choices
  /\ call.at \in START..MAX_TIME
  /\ \A i \in DOMAIN call.loans : call.loans[i] \in LoanType /\ IsOpen(call.loans[i])
  /\ call.per_loan \in [DOMAIN call.loans -> U64]
  /\ call.step # "reading" => call.permits \in [RewardMints -> PermitType]

TypeOK ==
  /\ now \in START..MAX_TIME /\ clock \in START..now
  /\ \A i \in Loans : loans[i] \in LoanType
  /\ \A m \in RewardMints : rewards[m].ours => rewards[m].allowance > 0
  /\ clicks \in 0..MAX_CLICKS
  /\ wallet \in U64 /\ balance \in U64 \union {NotRead}
  /\ shown.status \in {"loading", "unreachable", "ready"}
  /\ stage \in {"idle", "signing", "confirming", "failed"}
  /\ \A c \in Calls : calls[c] # NoCall => CallOK(calls[c])

\* Repaying everything closes every loan the page read, however much of them
\* was swept meanwhile, if it lands within the margin.
AllClosed ==
  \A c \in Calls :
    /\ Land(c)
    /\ calls[c].choice = EVERYTHING /\ now <= calls[c].at + MARGIN
    => \A i \in DOMAIN calls[c].loans : ~IsOpen(loans'[i])

\* "An amount equal to the next payment shown repays exactly that payment", if
\* it lands at once on the loans that were read and the payments are within
\* what the loans owe: no loan it is for stays late, and no other loan moves.
NextIsPaid ==
  \A c \in Calls :
    LET read == calls[c].loans
        for  == Together(read, now)
    IN  /\ Land(c)
        /\ calls[c].choice = NEXT_PAYMENT /\ now = calls[c].at
        /\ \A i \in DOMAIN read :
             read[i] = loans[i] /\ Payment(read[i], now) <= Ceiling(read[i], now)
        => /\ SumFunction(calls[c].per_loan) = Figures(read, now).next
           /\ \A i \in DOMAIN read :
                IF i \in for
                  THEN IsOpen(loans'[i]) =>
                         /\ ~NextOf(loans'[i], now).late
                         /\ loans'[i].outstanding
                              <= loans[i].outstanding - NextOf(loans[i], now).principal
                  ELSE loans'[i] = loans[i]

\* What is delegated is within the debt at a rate.
Within(allowance, of, at, rate) == allowance * rate <= DebtCeilings(of, at) * RATE_PER

\* A repayment never leaves the protocol more than the debt: the allowance it
\* sets is within what is still owed at the rate it was set at, or, where no
\* rate could be had, at any rate it was within the debt at the click.
AllowanceWithinDebt ==
  \A c \in Calls :
    Land(c) /\ (\A i \in DOMAIN calls[c].loans : calls[c].loans[i] = loans[i])
    => \A m \in RewardMints :
         LET permit == calls[c].permits[m]
             covered == {i \in DOMAIN calls[c].loans : loans[i].reward_mint = m}
             before == [i \in covered |-> loans[i]]
             after  == [i \in {j \in covered : IsOpen(loans'[j])} |-> loans'[i]]
         IN  permit.kind = "set" =>
               IF permit.rate # NoRate
                 THEN Within(permit.allowance, after, now, permit.rate)
                 ELSE \A rate \in Rates :
                        Within(permit.had, before, calls[c].at, rate)
                          => Within(permit.allowance, after, now, rate)

\* A button that cannot be pressed says why, for any amount that can be typed.
DisabledIsExplained ==
  Formed => \A choice \in Choices : CanSign(choice) \/ Notes(choice) # {}
=============================================================================
