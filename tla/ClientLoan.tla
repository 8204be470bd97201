----------------------------- MODULE ClientLoan -----------------------------
(***************************************************************************)
(* The loan arithmetic of the pages (packages/shared/src/loan): where an   *)
(* operator stands, what a loan will cost, how one amount is divided over  *)
(* several loans and how large a delegation the debt allows.  It repeats   *)
(* what the program computes, and in the same fields; Loan is the program  *)
(* it is compared with.                                                    *)
(***************************************************************************)
EXTENDS Loan, Sequences, Functions

CONSTANTS
  MARGIN,       \* REPAY_ALL_MARGIN_SECONDS
  DAY,          \* SECONDS_PER_DAY
  RATE_PER      \* RATE_UNIT: what a rate is the price of

ClientLoanAssumption ==
  /\ MARGIN \in Nat
  /\ DAY \in Nat
  /\ RATE_PER \in Nat \ {0}

-----------------------------------------------------------------------------
\* position.ts: one loan at a moment.


\* accrueTo: what a loan's interest is by then, and the fraction left over.
AccrueTo(loan, at) ==
  LET numerator == loan.outstanding * loan.apr_bps * (at - loan.last_accrual_at)
                     + loan.interest_remainder
  IN  IF at <= loan.last_accrual_at
        THEN [interest |-> loan.accrued_interest, remainder |-> loan.interest_remainder]
        ELSE [ interest  |-> loan.accrued_interest + numerator \div ACCRUAL_DENOMINATOR,
               remainder |-> numerator % ACCRUAL_DENOMINATOR ]

OwedAt(loan, at) == loan.outstanding + AccrueTo(loan, at).interest

Periods(loan) == (loan.due_at - loan.opened_at) \div REPAYMENT_PERIOD

PrincipalDueAfter(loan, k) == DivCeil(loan.principal * k, Periods(loan))

\* What has fallen due by a moment past the first instalment.
OwedBy(loan, at) ==
  PrincipalDueAfter(loan,
    Least((at - loan.opened_at) \div REPAYMENT_PERIOD, Periods(loan)))

\* The first instalment that what has been repaid does not cover.
Unpaid(loan) ==
  CHOOSE k \in 1..Periods(loan) :
    /\ PrincipalDueAfter(loan, k) > loan.principal - loan.outstanding
    /\ \A j \in 1..(k - 1) :
         PrincipalDueAfter(loan, j) <= loan.principal - loan.outstanding

\* loanPosition: `late` is its kind "due-now".
NextOf(loan, at) ==
  LET repaid == loan.principal - loan.outstanding
      dueAt  == loan.opened_at + Unpaid(loan) * REPAYMENT_PERIOD
  IN  IF dueAt > at
        THEN [ late      |-> FALSE,
               at        |-> dueAt,
               principal |-> PrincipalDueAfter(loan, Unpaid(loan)) - repaid,
               interest  |-> AccrueTo(loan, dueAt).interest ]
        ELSE [ late      |-> TRUE,
               at        |-> dueAt,
               principal |-> OwedBy(loan, at) - repaid,
               interest  |-> AccrueTo(loan, at).interest ]

\* `earlier`: what is late comes first, and then the nearest date.
Earlier(a, b) ==
  \/ a.late /\ ~b.late
  \/ a.late = b.late /\ a.at < b.at

\* operatorPosition: the loans whose next payment is shown as one.
Together(loans, at) ==
  LET next == [i \in DOMAIN loans |-> NextOf(loans[i], at)]
      lead == CHOOSE i \in DOMAIN loans :
                \A j \in DOMAIN loans : ~Earlier(next[j], next[i])
  IN  {i \in DOMAIN loans :
         /\ next[i].late = next[lead].late
         /\ next[i].late \/ next[i].at = next[lead].at}

Payment(loan, at) == NextOf(loan, at).principal + NextOf(loan, at).interest

NextAmount(loans, at) ==
  SumFunction([i \in Together(loans, at) |-> Payment(loans[i], at)])

OwedNow(loans, at) == SumFunction([i \in DOMAIN loans |-> OwedAt(loans[i], at)])

-----------------------------------------------------------------------------
\* repayment.ts: one amount over several loans.

\* Slip: what accrues while the transaction is on its way is not asked for.
CeilingNow(loan, at) == OwedAt(loan, at)

Ceiling(loan, at) == OwedAt(loan, at + MARGIN)

RepayAllAmount(loans, at) ==
  SumFunction([i \in DOMAIN loans |-> Ceiling(loans[i], at)])

\* The queue: by the next payment, and as the loans came where those are equal.
Before(loans, at, i, j) ==
  LET a == NextOf(loans[i], at)
      b == NextOf(loans[j], at)
  IN  \/ Earlier(a, b)
      \/ ~Earlier(b, a) /\ i < j

\* One pass: each entry takes what those before it leave, up to its room.
Pass(loans, at, room, amount) ==
  [i \in DOMAIN loans |->
     Least(room[i],
           SaturatingSub(amount,
             SumFunction([j \in {k \in DOMAIN loans : Before(loans, at, k, i)}
                            |-> room[j]])))]

\* allocateRepayment, for an amount it does not refuse.
Allocation(loans, amount, at) ==
  LET cap   == [i \in DOMAIN loans |-> Ceiling(loans[i], at)]
      due   == [i \in DOMAIN loans |-> Least(Payment(loans[i], at), cap[i])]
      first == Pass(loans, at, due, amount)
      rest  == Pass(loans, at, [i \in DOMAIN loans |-> cap[i] - first[i]],
                    amount - SumFunction(first))
  IN  [i \in DOMAIN loans |-> first[i] + rest[i]]

\* Neither `nothing` nor `over-debt`.
Allocates(loans, amount, at) == amount > 0 /\ amount <= RepayAllAmount(loans, at)

\* applyRepayment, as the debt it leaves: nothing once the loan is repaid.
LeftOf(loan, max_amount, at) ==
  LET accrued  == AccrueTo(loan, at)
      paid     == Least(max_amount, loan.outstanding + accrued.interest)
      interest == Least(paid, accrued.interest)
  IN  IF max_amount = 0
        THEN loan
        ELSE [loan EXCEPT !.outstanding        = @ - (paid - interest),
                          !.accrued_interest   = accrued.interest - interest,
                          !.interest_remainder = accrued.remainder,
                          !.last_accrual_at    = IF at > @ THEN at ELSE @]

-----------------------------------------------------------------------------
\* delegation.ts and mandate.ts: the allowance on the reward account.

\* debtCeiling of one loan; a repaid one owes nothing more.
CeilingInTerm(loan, at) ==
  IF loan.outstanding = 0
    THEN 0
    ELSE OwedAt(loan, IF loan.due_at > at THEN loan.due_at ELSE at)

DebtCeilings(loans, at) ==
  SumFunction([i \in DOMAIN loans |-> CeilingInTerm(loans[i], at)])

RewardAllowance(ceiling, rate) == (ceiling * RATE_PER) \div rate

-----------------------------------------------------------------------------
\* cost.ts: what a loan will cost, before there is one.

\* quoteAprBps; a loan the pool cannot give has no rate.
QuotedApr(base, slope, deposits, borrowed) ==
  base + DivCeil(slope * borrowed, deposits)

DueBy(principal, periods, k) == DivCeil(principal * k, periods)

\* Interest is carried as a fraction and booked by its floor.
AccruedBy(principal, apr, periods, k) ==
  SumFunction([j \in 1..k |->
    (principal - DueBy(principal, periods, j - 1)) * apr * REPAYMENT_PERIOD])

BookedBy(principal, apr, periods, k) ==
  AccruedBy(principal, apr, periods, k) \div ACCRUAL_DENOMINATOR

\* loanCost
Schedule(principal, apr, periods) ==
  [k \in 1..periods |->
     [ principal |-> DueBy(principal, periods, k) - DueBy(principal, periods, k - 1),
       interest  |-> BookedBy(principal, apr, periods, k)
                       - BookedBy(principal, apr, periods, k - 1) ]]

InterestPerDayPastDue(principal, apr) ==
  DivCeil(principal * apr * DAY, ACCRUAL_DENOMINATOR)

InterestIfHeld(principal, apr, periods) ==
  (principal * apr * REPAYMENT_PERIOD * periods) \div ACCRUAL_DENOMINATOR
=============================================================================
