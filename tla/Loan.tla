-------------------------------- MODULE Loan --------------------------------
(***************************************************************************)
(* One loan account (programs/reward-float/src/state/loan.rs): how its     *)
(* interest accrues by the second, how a repayment is split, and what the  *)
(* loan contributes to the accrual sums the pool carries.                  *)
(*                                                                         *)
(* The operator and the nonce that seed the account's address are the key  *)
(* it is stored under, and the pool is the only one modelled, so neither   *)
(* is a field here.  No handler ever sets LoanStatus::Overdue.             *)
(***************************************************************************)
EXTENDS Arithmetic

CONSTANTS
  ACCRUAL_DENOMINATOR,  \* 10 000 basis points times the seconds of a year
  REPAYMENT_PERIOD,     \* clock units per instalment
  APR_MAX,              \* the largest rate a u16 holds
  RewardMints           \* the reward tokens loans may be repaid from

ASSUME LoanAssumption ==
  /\ ACCRUAL_DENOMINATOR \in Nat \ {0}
  /\ REPAYMENT_PERIOD \in Nat \ {0}
  /\ APR_MAX \in Nat

\* Option<ManualReason>
ManualReasons == {"Revoked", "AllowanceShort", "WithdrawnEarly"}
NoReason == "None"

LoanStatuses == {"Active", "Overdue", "Repaid"}

\* The accounts a borrow can create and the handlers can leave behind.
LoanType ==
  [ reward_mint        : RewardMints,
    principal          : U64,
    outstanding        : U64,
    accrued_interest   : U64,
    interest_remainder : 0..(ACCRUAL_DENOMINATOR - 1),
    opened_at          : Nat,
    due_at             : Nat,
    last_accrual_at    : Nat,
    apr_bps            : 0..APR_MAX,
    sweep_bps          : 1..BPS,
    status             : LoanStatuses,
    reward_due         : U64,
    manual_repayment   : ManualReasons \union {NoReason} ]

IsOpen(loan) == loan.status # "Repaid"

TotalOwed(loan) == loan.outstanding + loan.accrued_interest

(***************************************************************************)
(* Loan::accrue.  The interest since the last accrual, the fraction left   *)
(* over from it included, in units of 1/ACCRUAL_DENOMINATOR; whole units   *)
(* are booked and the rest is carried.  A clock that has not moved past    *)
(* the last accrual earns nothing.                                         *)
(***************************************************************************)
AccrualNumerator(loan, now) ==
  loan.outstanding * loan.apr_bps * (now - loan.last_accrual_at)
    + loan.interest_remainder

InterestTo(loan, now) ==
  IF now <= loan.last_accrual_at
    THEN 0
    ELSE AccrualNumerator(loan, now) \div ACCRUAL_DENOMINATOR

\* Slip: the whole units stay in the fraction that is carried.
AccrueCarriesAll(loan, now) ==
  [loan EXCEPT !.accrued_interest   = @ + InterestTo(loan, now),
               !.interest_remainder = AccrualNumerator(loan, now),
               !.last_accrual_at    = now]

Accrue(loan, now) ==
  IF now <= loan.last_accrual_at
    THEN loan
    ELSE [loan EXCEPT
            !.accrued_interest   = @ + InterestTo(loan, now),
            !.interest_remainder = AccrualNumerator(loan, now)
                                     % ACCRUAL_DENOMINATOR,
            !.last_accrual_at    = now]

\* Loan::debt_ceiling: what is owed at the due date, or now when it has passed.
DebtCeiling(loan, now) ==
  TotalOwed(Accrue(loan, IF loan.due_at >= now THEN loan.due_at ELSE now))

(***************************************************************************)
(* Loan::accrual_terms, as Pool::track and Pool::untrack use them: a loan  *)
(* that is repaid earns nothing more and contributes nothing.              *)
(***************************************************************************)
NoTerms == [rate |-> 0, rate_time |-> 0, remainder |-> 0]

AccrualTerms(loan) ==
  IF IsOpen(loan)
    THEN [ rate      |-> loan.outstanding * loan.apr_bps,
           rate_time |-> loan.outstanding * loan.apr_bps * loan.last_accrual_at,
           remainder |-> loan.interest_remainder ]
    ELSE NoTerms

(***************************************************************************)
(* Loan::apply_repayment on an open loan: max_amount is a ceiling, the     *)
(* interest is settled before the principal, and a loan that owes nothing  *)
(* closes and forgets what its payouts still owed it.                      *)
(***************************************************************************)
\* Slip: the principal is settled before the interest.
InterestPartLast(loan, max_amount) ==
  SaturatingSub(Least(max_amount, TotalOwed(loan)), loan.outstanding)

InterestPart(loan, max_amount) ==
  Least(Least(max_amount, TotalOwed(loan)), loan.accrued_interest)

PrincipalPart(loan, max_amount) ==
  Least(max_amount, TotalOwed(loan)) - InterestPart(loan, max_amount)

ApplyRepayment(loan, max_amount) ==
  LET left == [loan EXCEPT
                 !.accrued_interest = @ - InterestPart(loan, max_amount),
                 !.outstanding      = @ - PrincipalPart(loan, max_amount)]
  IN  IF TotalOwed(left) = 0
        THEN [left EXCEPT !.status = "Repaid",
                          !.reward_due = 0,
                          !.manual_repayment = NoReason]
        ELSE left

\* Loan::flag_manual_repayment: the first cause is the one that is kept.
FlagManualRepayment(loan, reason) ==
  IF loan.manual_repayment = NoReason
    THEN [loan EXCEPT !.manual_repayment = reason]
    ELSE loan
=============================================================================
