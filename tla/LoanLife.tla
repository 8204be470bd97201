------------------------------ MODULE LoanLife ------------------------------
(***************************************************************************)
(* One loan from the day it is opened, as the program keeps it, beside     *)
(* what the pages said before it was signed and say while it runs.  Any    *)
(* amount may be repaid at any time, another loan of the operator may      *)
(* bring this one up to date, and time passes; `kept` records whether the  *)
(* operator has so far paid every instalment on its date and nothing else. *)
(***************************************************************************)
EXTENDS ClientLoan

CONSTANTS Principals, Aprs, MAX_TERM_PERIODS, Amounts, MAX_TIME

LoanLifeAssumption ==
  /\ Principals \subseteq U64 \ {0}
  /\ Aprs \subseteq 0..APR_MAX
  /\ Amounts \subseteq Nat
  /\ {MAX_TERM_PERIODS, MAX_TIME} \subseteq Nat

VARIABLES
  now,
  loan,         \* the Loan account
  paid,         \* stablecoin repaid so far
  kept          \* the schedule has been kept to the letter

vars == <<now, loan, paid, kept>>

TypeOK ==
  /\ now \in 0..MAX_TIME
  /\ loan \in LoanType
  /\ paid \in U64
  /\ kept \in BOOLEAN

NewLoan(mint, principal, apr, term) ==
  [ reward_mint        |-> mint,
    principal          |-> principal,
    outstanding        |-> principal,
    accrued_interest   |-> 0,
    interest_remainder |-> 0,
    opened_at          |-> 0,
    due_at             |-> term * REPAYMENT_PERIOD,
    last_accrual_at    |-> 0,
    apr_bps            |-> apr,
    sweep_bps          |-> BPS,
    status             |-> "Active",
    reward_due         |-> 0,
    manual_repayment   |-> NoReason ]

Init ==
  /\ now = 0
  /\ \E mint \in RewardMints, principal \in Principals, apr \in Aprs,
        term \in 1..MAX_TERM_PERIODS :
       loan = NewLoan(mint, principal, apr, term)
  /\ paid = 0
  /\ kept = TRUE

Repay(amount) ==
  LET accrued == Accrue(loan, now)
  IN  /\ IsOpen(loan)
      /\ amount > 0
      /\ loan' = ApplyRepayment(accrued, amount)
      /\ paid' = paid + Least(amount, TotalOwed(accrued))

\* The payment the page shows, on the day it falls due.
PayInstalment ==
  /\ IsOpen(loan) /\ NextOf(loan, now).at = now
  /\ Repay(Payment(loan, now))
  /\ UNCHANGED <<now, kept>>

PayAnything(amount) ==
  /\ Repay(amount)
  /\ kept' = FALSE
  /\ UNCHANGED now

\* accrue_open_loans, when the operator takes another loan.
BringUpToDate ==
  /\ IsOpen(loan) /\ loan.last_accrual_at < now
  /\ loan' = Accrue(loan, now)
  /\ UNCHANGED <<now, paid, kept>>

Tick ==
  /\ now < MAX_TIME
  /\ now' = now + 1
  /\ kept' = (kept /\ (IsOpen(loan) => ~NextOf(loan, now).late))
  /\ UNCHANGED <<loan, paid>>

Next ==
  \/ PayInstalment
  \/ \E amount \in Amounts : PayAnything(amount)
  \/ BringUpToDate
  \/ Tick

Spec == Init /\ [][Next]_vars

-----------------------------------------------------------------------------
TermOf(l) == (l.due_at - l.opened_at) \div REPAYMENT_PERIOD

\* Loan::principal_due_by, the program's own schedule.
PrincipalDueBy(l, at) ==
  LET passed == (at - l.opened_at) \div REPAYMENT_PERIOD
  IN  DivCeil(l.principal * Least(passed, TermOf(l)), TermOf(l))

\* The page shows, for now and for later, what the program would book by then.
PositionIsBooked ==
  IsOpen(loan) =>
    \A at \in now..(now + REPAYMENT_PERIOD) :
      LET booked == Accrue(loan, at)
      IN  /\ OwedAt(loan, at) = TotalOwed(booked)
          /\ AccrueTo(loan, at).remainder = booked.interest_remainder

\* A payment is shown as late exactly when the program's schedule has more
\* principal due than was repaid, and asks for that much.
LateAsTheProgramHasIt ==
  IsOpen(loan) =>
    LET behind == SaturatingSub(PrincipalDueBy(loan, now),
                                loan.principal - loan.outstanding)
        next   == NextOf(loan, now)
    IN  /\ next.late = (behind > 0)
        /\ next.late => next.principal = behind

\* An operator who keeps to the schedule pays row by row what it said, to the
\* unit, and the last row closes the loan.
ScheduleIsKept ==
  kept /\ (IsOpen(loan) => ~NextOf(loan, now).late) =>
    LET rows == Schedule(loan.principal, loan.apr_bps, TermOf(loan))
        k    == Least(now \div REPAYMENT_PERIOD, TermOf(loan))
    IN  /\ paid = SumFunction([j \in 1..k |-> rows[j].principal + rows[j].interest])
        /\ k = TermOf(loan) => ~IsOpen(loan)

\* "Most you repay within the term": whatever is paid when, what was paid and
\* what is owed never come to more than holding the loan to its end costs.
MostWithinTheTerm ==
  now <= loan.due_at =>
    paid + TotalOwed(Accrue(loan, now))
      <= loan.principal + InterestIfHeld(loan.principal, loan.apr_bps, TermOf(loan))

\* "Each day past the term adds up to": the bound shown before signing holds
\* for every day after it.
DayPastDueIsBounded ==
  IsOpen(loan) /\ now >= loan.due_at =>
    TotalOwed(Accrue(loan, now + DAY)) - TotalOwed(Accrue(loan, now))
      <= InterestPerDayPastDue(loan.principal, loan.apr_bps)

\* Within the term the ceiling a delegation is sized by does not move with time,
\* and every payment lowers it by at least what was paid.
CeilingOnlyFalls ==
  now' <= loan.due_at =>
    CeilingInTerm(loan', now') + (paid' - paid) <= CeilingInTerm(loan, now)
=============================================================================
