---------------------------- MODULE RewardFloat ----------------------------
(***************************************************************************)
(* The reward-float program (programs/reward-float): lenders deposit into  *)
(* a pool, operators borrow from it against an attested credit limit, and  *)
(* anyone may repay a loan or sweep an operator's reward payouts into it.  *)
(*                                                                         *)
(* A transaction is atomic and either runs its handler to the end or       *)
(* leaves everything as it was, so a handler is one action whose guard is  *)
(* the conjunction of its checks; the transactions of different signers    *)
(* interleave in any order.  Besides the program's own accounts the state  *)
(* holds what the token program keeps for them: the pool's vault, the      *)
(* operators' reward accounts with their delegation and the stablecoin of  *)
(* the conversion vaults.                                                  *)
(***************************************************************************)
EXTENDS Pool, Conversion, NonceWindow, Attestation, FiniteSets, Functions

CONSTANTS
  Lenders,
  Operators,
  Nonces,               \* the nonces attestations are issued with
  NoLoan,               \* a loan address no account was created at
  MAX_OPEN_LOANS,
  MAX_TERM_PERIODS,
  LimitAttestations,    \* the messages an attestor key may have signed
  RateAttestations

CONSTANTS               \* the amounts clients use, and bounds on the model
  Deposits, Withdrawals, Loans, Repayments, SweepShares, MaxAprs,
  Payouts, MoveOuts, Allowances, Fundings,
  Revokers,             \* operators who may revoke the delegation
  InitialMarket,        \* stablecoin in each conversion vault at the start
  MAX_DEPOSITS,         \* bounds pool.total_deposits
  MAX_BALANCE,          \* bounds a reward account and a conversion vault
  MAX_TIME              \* bounds the clock

ASSUME RewardFloatAssumption ==
  /\ Nonces \subseteq Nat
  /\ NoLoan \notin LoanType
  /\ MAX_OPEN_LOANS \in Nat
  /\ MAX_TERM_PERIODS \in Nat
  /\ Deposits \union Withdrawals \union Loans \union Repayments \subseteq U64
  /\ Payouts \union MoveOuts \union Allowances \union Fundings \subseteq U64
  /\ SweepShares \subseteq Nat
  /\ InitialMarket \in U64
  /\ MAX_TIME \in Nat
  /\ \A att \in LimitAttestations : att.nonce \in Nonces /\ att.limit \in U64
  /\ \A att \in RateAttestations : att.stable_per_trillion_reward \in Nat
  /\ Keys # {}
  /\ IsFiniteSet(Lenders)

VARIABLES
  now,          \* the cluster clock
  pool,         \* the Pool account
  vault,        \* stablecoin in the pool's token account
  shares,       \* LenderShare::shares of each lender
  operators,    \* the OperatorAccount of each operator
  loans,        \* the Loan account of each operator and nonce
  rewards,      \* each operator's associated token account per reward mint
  watches,      \* the RewardWatch of each operator and reward mint
  market        \* stablecoin each reward mint's conversion vault holds

vars == <<now, pool, vault, shares, operators, loans, rewards, watches, market>>

\* `overdue` is left out: no handler sets it.
AccountType == [total_debt : U64, open_loans : Nat, window : WindowType]

\* `ours`: the delegate of the account is the operator's PDA.
RewardAccountType == [balance : U64, ours : BOOLEAN, allowance : U64]

\* `started`: the account was initialised by a borrow.
WatchType == [started : BOOLEAN, balance : U64]

TypeOK ==
  /\ now \in Nat
  /\ pool \in PoolType
  /\ vault \in U64
  /\ shares \in [Lenders -> U64]
  /\ operators \in [Operators -> AccountType]
  /\ loans \in [Operators -> [Nonces -> LoanType \union {NoLoan}]]
  /\ rewards \in [Operators -> [RewardMints -> RewardAccountType]]
  /\ watches \in [Operators -> [RewardMints -> WatchType]]
  /\ market \in [RewardMints -> U64]

-----------------------------------------------------------------------------
\* The accounts of one operator, and sums over them.

OpenLoans(o) == {n \in Nonces : loans[o][n] # NoLoan /\ IsOpen(loans[o][n])}

OpenLoansOn(o, m) == {n \in OpenLoans(o) : loans[o][n].reward_mint = m}

SumTerms(terms) ==
  [ rate      |-> SumFunction([i \in DOMAIN terms |-> terms[i].rate]),
    rate_time |-> SumFunction([i \in DOMAIN terms |-> terms[i].rate_time]),
    remainder |-> SumFunction([i \in DOMAIN terms |-> terms[i].remainder]) ]

-----------------------------------------------------------------------------
Init ==
  /\ now = 0
  /\ \E attestor \in Keys : pool = NewPool(attestor)
  /\ vault = 0
  /\ shares = [l \in Lenders |-> 0]
  /\ operators = [o \in Operators |->
                    [total_debt |-> 0, open_loans |-> 0, window |-> NewWindow]]
  /\ loans = [o \in Operators |-> [n \in Nonces |-> NoLoan]]
  /\ rewards = [o \in Operators |-> [m \in RewardMints |->
                    [balance |-> 0, ours |-> FALSE, allowance |-> 0]]]
  /\ watches = [o \in Operators |-> [m \in RewardMints |->
                    [started |-> FALSE, balance |-> 0]]]
  /\ market = [m \in RewardMints |-> InitialMarket]

\* handle_set_attestor; only the pool's authority can sign it.
SetAttestor(attestor) ==
  /\ pool' = [pool EXCEPT !.attestor = attestor]
  /\ UNCHANGED <<now, vault, shares, operators, loans, rewards, watches, market>>

-----------------------------------------------------------------------------
\* Lenders.

\* handle_deposit
Deposit(l, amount) ==
  LET minted == SharesForDeposit(pool, amount, now)
  IN  /\ amount > 0
      /\ \/ pool.total_shares = 0
         \/ Fits(UnbookedInterest(pool, now)) /\ Value(pool, now) > 0
      /\ minted > 0
      /\ Fits(pool.total_shares + minted)
      /\ Fits(pool.total_deposits + amount)
      /\ Fits(shares[l] + minted)
      /\ Fits(vault + amount)
      /\ pool.total_deposits + amount <= MAX_DEPOSITS
      /\ pool' = [pool EXCEPT !.total_shares = @ + minted,
                              !.total_deposits = @ + amount]
      /\ shares' = [shares EXCEPT ![l] = @ + minted]
      /\ vault' = vault + amount
      /\ UNCHANGED <<now, operators, loans, rewards, watches, market>>

\* handle_withdraw
Withdraw(l, max_amount) ==
  LET paid   == WithdrawalPaid(pool, shares[l], max_amount, now)
      burned == WithdrawalShares(pool, shares[l], max_amount, now)
  IN  /\ max_amount > 0
      /\ shares[l] <= pool.total_shares
      /\ shares[l] > 0
      /\ Fits(UnbookedInterest(pool, now))
      /\ Fits(ValueOfShares(pool, shares[l], now))
      /\ ValueOfShares(pool, shares[l], now) > 0        \* NothingToWithdraw
      /\ FreeLiquidity(pool) > 0                        \* NoFreeLiquidity
      /\ Fits(shares[l] - burned)
      /\ Fits(pool.total_shares - burned)
      /\ Fits(pool.total_deposits - paid)
      /\ vault >= paid
      /\ pool' = [pool EXCEPT !.total_shares = @ - burned,
                              !.total_deposits = @ - paid]
      /\ shares' = [shares EXCEPT ![l] = @ - burned]
      /\ vault' = vault - paid
      /\ UNCHANGED <<now, operators, loans, rewards, watches, market>>

-----------------------------------------------------------------------------
(***************************************************************************)
(* Repaying a loan: `settle` of instructions/repay.rs, on the loan itself  *)
(* and then on the books of its operator and its pool.  The books are      *)
(* written so that the settlements of several loans can be added up first, *)
(* as a sweep does one after the other.                                    *)
(***************************************************************************)
Settlement(loan, max_amount) ==
  LET accrued == Accrue(loan, now)
      after   == ApplyRepayment(accrued, max_amount)
  IN  [ loan     |-> after,
        accrued  |-> InterestTo(loan, now),
        interest |-> InterestPart(accrued, max_amount),
        paid     |-> Least(max_amount, TotalOwed(accrued)),
        closed   |-> IF IsOpen(after) THEN 0 ELSE 1,
        before   |-> AccrualTerms(loan),
        after    |-> AccrualTerms(after) ]

SumSettlements(settled) ==
  [ accrued  |-> SumFunction([i \in DOMAIN settled |-> settled[i].accrued]),
    interest |-> SumFunction([i \in DOMAIN settled |-> settled[i].interest]),
    paid     |-> SumFunction([i \in DOMAIN settled |-> settled[i].paid]),
    closed   |-> SumFunction([i \in DOMAIN settled |-> settled[i].closed]),
    before   |-> SumTerms([i \in DOMAIN settled |-> settled[i].before]),
    after    |-> SumTerms([i \in DOMAIN settled |-> settled[i].after]) ]

\* Slip: the interest paid in is not added to the deposits.
PoolSettledWithoutIncome(p, s) ==
  [Retrack(p, s.before, s.after) EXCEPT
     !.total_borrowed   = @ - (s.paid - s.interest),
     !.accrued_interest = @ + s.accrued - s.interest]

PoolSettled(p, s) ==
  [Retrack(p, s.before, s.after) EXCEPT
     !.total_borrowed   = @ - (s.paid - s.interest),
     !.accrued_interest = @ + s.accrued - s.interest,
     !.total_deposits   = @ + s.interest]

\* Slip: the interest booked on the way is not added to the operator's debt.
AccountSettledWithoutAccrual(account, s) ==
  [account EXCEPT !.total_debt = @ - s.paid, !.open_loans = @ - s.closed]

\* Slip: a loan that closes is still counted as open.
AccountSettledStillOpen(account, s) ==
  [account EXCEPT !.total_debt = @ + s.accrued - s.paid]

AccountSettled(account, s) ==
  [account EXCEPT !.total_debt = @ + s.accrued - s.paid,
                  !.open_loans = @ - s.closed]

\* No checked operation of `settle` fails on the pool or the operator account.
Settles(p, account, s) ==
  /\ Tracks(p, s.before)
  /\ Fits(s.interest)
  /\ Fits(p.accrued_interest + s.accrued)
  /\ Fits(account.total_debt + s.accrued)
  /\ PoolSettled(p, s) \in PoolType
  /\ AccountSettled(account, s) \in AccountType

\* handle_repay; anyone may pay.
Repay(o, n, max_amount) ==
  LET loan == loans[o][n]
      s    == Settlement(loan, max_amount)
  IN  /\ n \in OpenLoans(o)
      /\ max_amount > 0
      /\ Fits(TotalOwed(Accrue(loan, now)))
      /\ Settles(pool, operators[o], s)
      /\ Fits(vault + s.paid)
      /\ pool' = PoolSettled(pool, s)
      /\ operators' = [operators EXCEPT ![o] = AccountSettled(@, s)]
      /\ loans' = [loans EXCEPT ![o][n] = s.loan]
      /\ vault' = vault + s.paid
      /\ UNCHANGED <<now, shares, rewards, watches, market>>

-----------------------------------------------------------------------------
(***************************************************************************)
(* handle_borrow.  accrue_open_loans brings every open loan up to now      *)
(* before the limit is checked; the new loan's account must not exist yet; *)
(* the reward account's allowance is sized by the debt of every loan       *)
(* repaid from it, and overwrites the one approved before.                 *)
(***************************************************************************)
NewLoan(m, amount, term_periods, sweep_bps, apr_bps) ==
  [ reward_mint        |-> m,
    principal          |-> amount,
    outstanding        |-> amount,
    accrued_interest   |-> 0,
    interest_remainder |-> 0,
    opened_at          |-> now,
    due_at             |-> now + term_periods * REPAYMENT_PERIOD,
    last_accrual_at    |-> now,
    apr_bps            |-> apr_bps,
    sweep_bps          |-> sweep_bps,
    status             |-> "Active",
    reward_due         |-> 0,
    manual_repayment   |-> NoReason ]

\* accrue_open_loans: the open loans of the operator, brought up to now.
AccruedLoans(o) == [n \in OpenLoans(o) |-> Accrue(loans[o][n], now)]

\* Slip: the limit is checked on the interest booked so far.
NoInterestBooked(o) == 0

InterestBooked(o) ==
  SumFunction([n \in OpenLoans(o) |-> InterestTo(loans[o][n], now)])

RewardCeiling(o, m) ==
  SumFunction([n \in OpenLoansOn(o, m) |-> DebtCeiling(AccruedLoans(o)[n], now)])

PoolAccrued(o) ==
  [Retrack(pool,
           SumTerms([n \in OpenLoans(o) |-> AccrualTerms(loans[o][n])]),
           SumTerms([n \in OpenLoans(o) |-> AccrualTerms(AccruedLoans(o)[n])]))
     EXCEPT !.accrued_interest = @ + InterestBooked(o)]

Borrow(o, m, amount, term_periods, sweep_bps, max_apr_bps, limit, rate) ==
  LET nonce     == limit.nonce         \* else AttestationNonceMismatch
      account   == operators[o]
      debt      == account.total_debt + InterestBooked(o) + amount
      accrued   == PoolAccrued(o)
      loan      == NewLoan(m, amount, term_periods, sweep_bps,
                           QuoteAprBps(accrued, amount))
      lent      == [Retrack(accrued, NoTerms, AccrualTerms(loan)) EXCEPT
                      !.total_borrowed = @ + amount]
      ceiling   == RewardCeiling(o, m) + DebtCeiling(loan, now)
      allowance == (ceiling * RATE_UNIT) \div rate.stable_per_trillion_reward
  IN  /\ amount > 0
      /\ term_periods \in 1..MAX_TERM_PERIODS
      /\ sweep_bps \in 1..BPS
      /\ LimitVerified(limit, pool.attestor, o, now)
      /\ RateVerified(rate, pool.attestor, m, now)
      /\ AcceptsNonce(account.window, nonce)
      /\ account.open_loans < MAX_OPEN_LOANS
      /\ Cardinality(OpenLoans(o)) = account.open_loans   \* OpenLoansMismatch
      /\ \A n \in OpenLoans(o) : loans[o][n].manual_repayment = NoReason
      /\ \A n \in OpenLoans(o) : AccruedLoans(o)[n] \in LoanType
      /\ debt <= limit.limit                              \* CreditLimitExceeded
      /\ Fits(debt)
      /\ accrued \in PoolType
      /\ amount <= FreeLiquidity(accrued)                 \* InsufficientLiquidity
      /\ QuoteAprBps(accrued, amount) <= max_apr_bps      \* RateAboveMaximum
      /\ QuoteAprBps(accrued, amount) <= APR_MAX
      /\ lent \in PoolType
      /\ loans[o][nonce] = NoLoan                         \* create_account
      /\ Fits(ceiling)
      /\ Fits(allowance) /\ allowance > 0                 \* DelegationTooSmall
      /\ vault >= amount
      /\ pool' = lent
      /\ operators' =
           [operators EXCEPT ![o] =
              [ total_debt |-> debt,
                open_loans |-> account.open_loans + 1,
                window     |-> ConsumeNonce(account.window, nonce) ]]
      /\ loans' =
           [loans EXCEPT ![o] =
              [n \in Nonces |-> IF n = nonce THEN loan
                                ELSE IF n \in OpenLoans(o) THEN AccruedLoans(o)[n]
                                ELSE loans[o][n]]]
      /\ watches' =
           IF RewardCeiling(o, m) = 0 \/ ~watches[o][m].started
             THEN [watches EXCEPT ![o][m] =
                     [started |-> TRUE, balance |-> rewards[o][m].balance]]
             ELSE watches
      /\ rewards' =
           [rewards EXCEPT ![o][m].ours = TRUE, ![o][m].allowance = allowance]
      /\ vault' = vault - amount
      /\ UNCHANGED <<now, shares, market>>

-----------------------------------------------------------------------------
(***************************************************************************)
(* handle_sweep.  The payout is what the reward account holds above the    *)
(* watch.  Each loan repaid from the token, oldest first, is owed its      *)
(* share; what the account or the allowance cannot give stays due on the   *)
(* loan and flags it for manual repayment.  The plan is made for every     *)
(* loan before anything is converted.                                      *)
(***************************************************************************)
Payout(o, m) == SaturatingSub(rewards[o][m].balance, watches[o][m].balance)

Allowance(o, m) == IF rewards[o][m].ours THEN rewards[o][m].allowance ELSE 0

Shortfall(o, m) ==
  IF ~rewards[o][m].ours
    THEN "Revoked"
    ELSE IF Allowance(o, m) < rewards[o][m].balance
           THEN "AllowanceShort"
           ELSE "WithdrawnEarly"

\* open_loans_of sorts by (opened_at, nonce).
Older(o, n, k) ==
  \/ loans[o][n].opened_at < loans[o][k].opened_at
  \/ loans[o][n].opened_at = loans[o][k].opened_at /\ n < k

\* The place of a loan among the loans repaid from the token, from 1.
Place(o, m, n) ==
  1 + Cardinality({k \in OpenLoansOn(o, m) : Older(o, k, n)})

Debt(o, n) == TotalOwed(Accrue(loans[o][n], now))

LoanInPlace(o, m, i) == CHOOSE n \in OpenLoansOn(o, m) : Place(o, m, n) = i

Claims(o, m, rate) ==
  [i \in 1..Cardinality(OpenLoansOn(o, m)) |->
     LET n == LoanInPlace(o, m, i)
     IN  [ sweep_bps |-> loans[o][n].sweep_bps,
           need      |-> TokensFor(Debt(o, n), rate),
           due       |-> loans[o][n].reward_due ]]

Available(o, m) == Least(rewards[o][m].balance, Allowance(o, m))

\* Slip: the loan is credited with a quote above what it owes.
CreditedInFull(take, rate, debt) == Quote(take, rate)

\* What a loan is credited with for the tokens taken.
Credited(take, rate, debt) == Least(Quote(take, rate), debt)

\* What a sweep at this rate plans for each loan; every number is a u64.
PartType == [owed : U64, take : U64, pays : U64, withheld : U64, left : U64]

SweepPlan(o, m, rate) ==
  LET parts == Withholdings(Payout(o, m), Available(o, m), Claims(o, m, rate))
  IN  [n \in OpenLoansOn(o, m) |->
         LET part == parts[Place(o, m, n)]
             pays == Credited(part.take, rate, Debt(o, n))
         IN  [ owed     |-> part.owed,
               take     |-> part.take,
               pays     |-> pays,
               withheld |-> IF pays = 0 THEN 0 ELSE part.take,
               left     |-> part.owed - part.take ]]

\* Slip: a loan that comes short is not flagged.
PlannedUnflagged(loan, part, shortfall) == [loan EXCEPT !.reward_due = part.left]

\* The loan with what the plan leaves due to it, flagged if that is anything.
Planned(loan, part, shortfall) ==
  LET due == [loan EXCEPT !.reward_due = part.left]
  IN  IF part.take < part.owed THEN FlagManualRepayment(due, shortfall) ELSE due

\* Slip: the tokens a skipped sweep did not take are not owed any more.
SkippedForgotten(loan, part) == loan

\* Out of tolerance: what would have been withheld is due again.
Skipped(loan, part) == [loan EXCEPT !.reward_due = @ + part.withheld]

\* A loan that got all it was owed is repaid by its payouts again.
Cleared(loan, part) ==
  IF part.withheld = part.owed
    THEN [loan EXCEPT !.manual_repayment = NoReason]
    ELSE loan

\* Slip: a loan left without its allowance is not flagged.
SweptUnflagged(loan, part, spent) ==
  IF part.pays = 0
    THEN loan
    ELSE Settlement(Cleared(loan, part), part.pays).loan

\* Slip: a loan in manual repayment is paid on the books only.
SweptInGoodStanding(loan, part, spent) ==
  IF part.pays = 0 \/ loan.manual_repayment # NoReason
    THEN loan
    ELSE Settlement(loan, part.pays).loan

\* The loan after its own settlement, and after a sweep that used up the allowance.
Swept(loan, part, spent) ==
  LET settled == IF part.pays = 0
                   THEN loan
                   ELSE Settlement(Cleared(loan, part), part.pays).loan
  IN  IF spent /\ IsOpen(settled)
        THEN FlagManualRepayment(settled, "AllowanceShort")
        ELSE settled

\* The loans a sweep pays something; the others add nothing to its totals.
PaidLoans(plan) == {n \in DOMAIN plan : plan[n].pays > 0}

TotalWithheld(plan) ==
  SumFunction([n \in PaidLoans(plan) |-> plan[n].withheld])

TotalPaid(plan) == SumFunction([n \in PaidLoans(plan) |-> plan[n].pays])

\* The checks every sweep passes before it decides what to do.
SweepChecked(o, m, rate) ==
  /\ watches[o][m].started
  /\ RateVerified(rate, pool.attestor, m, now)
  /\ Cardinality(OpenLoans(o)) = operators[o].open_loans  \* OpenLoansMismatch
  /\ \A n \in OpenLoansOn(o, m) : Fits(Debt(o, n))

\* Every number of the plan is a u64.
PlanFits(plan) ==
  /\ \A n \in DOMAIN plan : plan[n] \in PartType
  /\ Fits(TotalWithheld(plan))
  /\ Fits(TotalPaid(plan))

\* Writes the loans a sweep handled back, and the watch it leaves.
SweepWrites(o, m, handled, watched) ==
  /\ loans' = [loans EXCEPT ![o] =
                 [n \in Nonces |-> IF n \in OpenLoansOn(o, m) THEN handled[n]
                                   ELSE loans[o][n]]]
  /\ watches' = [watches EXCEPT ![o][m].balance = watched]

\* Nothing to withhold, or the market is outside the tolerance (SweepSkipped).
SweepWithoutConverting(o, m, rate, plan) ==
  /\ \/ TotalWithheld(plan) = 0
     \/ ~WithinTolerance(TotalWithheld(plan), rate, TotalPaid(plan))
  /\ SweepWrites(o, m,
       [n \in OpenLoansOn(o, m) |->
          Skipped(Planned(loans[o][n], plan[n], Shortfall(o, m)), plan[n])],
       rewards[o][m].balance)
  /\ UNCHANGED <<now, pool, vault, shares, operators, rewards, market>>

SweepSettlements(o, m, plan) ==
  [n \in PaidLoans(plan) |->
     Settlement(Cleared(Planned(loans[o][n], plan[n], Shortfall(o, m)), plan[n]),
                plan[n].pays)]

\* The token program takes the tokens out of the reward account as its delegate,
\* and drops a delegate whose allowance reaches zero.
SweepConverting(o, m, rate, plan) ==
  LET taken     == TotalWithheld(plan)
      paid      == TotalPaid(plan)
      allowance == Allowance(o, m)
  IN  /\ taken > 0
      /\ WithinTolerance(taken, rate, paid)
      /\ rewards[o][m].balance >= taken /\ allowance >= taken
      /\ market[m] >= paid
      /\ Fits(vault + paid)
      /\ \E settled \in {SweepSettlements(o, m, plan)} :
           LET s == SumSettlements(settled)
           IN  /\ Settles(pool, operators[o], s)
               /\ pool' = PoolSettled(pool, s)
               /\ operators' = [operators EXCEPT ![o] = AccountSettled(@, s)]
      /\ vault' = vault + paid
      /\ market' = [market EXCEPT ![m] = @ - paid]
      /\ rewards' = [rewards EXCEPT ![o][m] =
                      [ balance   |-> @.balance - taken,
                        ours      |-> taken < allowance,
                        allowance |-> allowance - taken ]]
      /\ SweepWrites(o, m,
           [n \in OpenLoansOn(o, m) |->
              Swept(Planned(loans[o][n], plan[n], Shortfall(o, m)), plan[n],
                    taken = allowance)],
           rewards[o][m].balance - taken)
      /\ UNCHANGED <<now, shares>>

\* Anyone may sweep.  The plan is bound by \E so that TLC computes it once.
Sweep(o, m, rate) ==
  LET r == rate.stable_per_trillion_reward
  IN  /\ SweepChecked(o, m, rate)
      /\ \E plan \in {SweepPlan(o, m, r)} :
           /\ PlanFits(plan)
           /\ \/ SweepWithoutConverting(o, m, r, plan)
              \/ SweepConverting(o, m, r, plan)

-----------------------------------------------------------------------------
(***************************************************************************)
(* Everyone else: the reward network pays an operator, the operator spends *)
(* tokens or changes the delegation with the token program's own           *)
(* instructions, someone tops up a conversion vault, time passes.          *)
(***************************************************************************)
ReceivePayout(o, m, amount) ==
  /\ rewards[o][m].balance + amount <= MAX_BALANCE
  /\ Fits(rewards[o][m].balance + amount)
  /\ rewards' = [rewards EXCEPT ![o][m].balance = @ + amount]
  /\ UNCHANGED <<now, pool, vault, shares, operators, loans, watches, market>>

MoveOut(o, m, amount) ==
  /\ rewards[o][m].balance >= amount
  /\ rewards' = [rewards EXCEPT ![o][m].balance = @ - amount]
  /\ UNCHANGED <<now, pool, vault, shares, operators, loans, watches, market>>

Approve(o, m, amount) ==
  /\ rewards' = [rewards EXCEPT ![o][m].ours = TRUE, ![o][m].allowance = amount]
  /\ UNCHANGED <<now, pool, vault, shares, operators, loans, watches, market>>

Revoke(o, m) ==
  /\ rewards[o][m].ours
  /\ rewards' = [rewards EXCEPT ![o][m].ours = FALSE, ![o][m].allowance = 0]
  /\ UNCHANGED <<now, pool, vault, shares, operators, loans, watches, market>>

FundConversion(m, amount) ==
  /\ market[m] + amount <= MAX_BALANCE
  /\ Fits(market[m] + amount)
  /\ market' = [market EXCEPT ![m] = @ + amount]
  /\ UNCHANGED <<now, pool, vault, shares, operators, loans, rewards, watches>>

Tick ==
  /\ now < MAX_TIME
  /\ now' = now + 1
  /\ UNCHANGED <<pool, vault, shares, operators, loans, rewards, watches, market>>

LenderStep ==
  \E l \in Lenders :
    \/ \E amount \in Deposits : Deposit(l, amount)
    \/ \E amount \in Withdrawals : Withdraw(l, amount)

BorrowStep ==
  \E o \in Operators, m \in RewardMints, amount \in Loans,
     term \in 1..MAX_TERM_PERIODS, share \in SweepShares, apr \in MaxAprs,
     limit \in LimitAttestations, rate \in RateAttestations :
    Borrow(o, m, amount, term, share, apr, limit, rate)

RepayStep ==
  \E o \in Operators, n \in Nonces, amount \in Repayments : Repay(o, n, amount)

SweepStep ==
  \E o \in Operators, m \in RewardMints, rate \in RateAttestations :
    Sweep(o, m, rate)

RewardStep ==
  \E o \in Operators, m \in RewardMints :
    \/ \E amount \in Payouts : ReceivePayout(o, m, amount)
    \/ \E amount \in MoveOuts : MoveOut(o, m, amount)
    \/ \E amount \in Allowances : Approve(o, m, amount)
    \/ o \in Revokers /\ Revoke(o, m)

Next ==
  \/ LenderStep
  \/ BorrowStep
  \/ RepayStep
  \/ SweepStep
  \/ RewardStep
  \/ \E m \in RewardMints, amount \in Fundings : FundConversion(m, amount)
  \/ \E attestor \in Keys : SetAttestor(attestor)
  \/ Tick

Spec == Init /\ [][Next]_vars
=============================================================================
