----------------------- MODULE RewardFloatProperties -----------------------
(***************************************************************************)
(* What the reward-float program is meant to keep true, whatever order its *)
(* transactions land in.  FR and SC numbers are the requirements the       *)
(* comments in programs/reward-float cite.                                 *)
(***************************************************************************)
EXTENDS RewardFloat

AllOpen == {on \in Operators \X Nonces : on[2] \in OpenLoans(on[1])}

LoanAt(on) == loans[on[1]][on[2]]

-----------------------------------------------------------------------------
(***************************************************************************)
(* The books of the pool and its borrowers.                                *)
(***************************************************************************)

\* SC-007: the vault holds exactly the deposits that are not out in loans, so
\* that what free_liquidity promises a borrower or a lender can be paid.
Solvent ==
  /\ pool.total_borrowed <= pool.total_deposits
  /\ vault = pool.total_deposits - pool.total_borrowed

\* The pool's totals are the sums over the accounts they stand for: the shares of
\* the lenders, the principal and the booked interest of the open loans, and the
\* accrual sums that track and untrack maintain.
PoolBooks ==
  /\ pool.total_shares = SumFunction(shares)
  /\ pool.total_borrowed = SumFunction([on \in AllOpen |-> LoanAt(on).outstanding])
  /\ pool.accrued_interest =
       SumFunction([on \in AllOpen |-> LoanAt(on).accrued_interest])
  /\ [ rate      |-> pool.accrual_rate,
       rate_time |-> pool.accrual_rate_time,
       remainder |-> pool.accrual_remainders ]
       = SumTerms([on \in AllOpen |-> AccrualTerms(LoanAt(on))])

\* FR-012: an operator account counts its open loans, never more than
\* MAX_OPEN_LOANS, and its debt is what they owe together.
OperatorBooks ==
  \A o \in Operators :
    /\ operators[o].open_loans = Cardinality(OpenLoans(o))
    /\ operators[o].open_loans <= MAX_OPEN_LOANS
    /\ operators[o].total_debt =
         SumFunction([n \in OpenLoans(o) |-> TotalOwed(loans[o][n])])

\* A loan is open exactly while principal is outstanding, and one that is repaid
\* owes no interest and is owed no reward tokens: apply_repayment settles the
\* interest first, so the principal cannot run out before the interest does.
OpenLoansOwe ==
  \A o \in Operators, n \in Nonces :
    loans[o][n] # NoLoan =>
      /\ IsOpen(loans[o][n]) <=> loans[o][n].outstanding > 0
      /\ ~IsOpen(loans[o][n]) =>
           /\ loans[o][n].accrued_interest = 0
           /\ loans[o][n].reward_due = 0
           /\ loans[o][n].manual_repayment = NoReason

\* No loan is ever stuck: whatever happened before, paying off all that a loan
\* owes at this second passes every checked operation of `settle`.
Repayable ==
  \A o \in Operators : \A n \in OpenLoans(o) :
    LET s == Settlement(loans[o][n], Debt(o, n))
    IN  Settles(pool, operators[o], s) /\ ~IsOpen(s.loan)

\* The price of a share rests on sums, not on the loans: the value the pool puts
\* on itself is its deposits plus the interest its loans would book if all were
\* touched now, and above that by less than one unit per open loan.
ValueTracksLoans ==
  LET booked == SumFunction([on \in AllOpen |->
                   LoanAt(on).accrued_interest + InterestTo(LoanAt(on), now)])
      excess == Value(pool, now) - (pool.total_deposits + booked)
  IN  /\ excess >= 0
      /\ excess <= Cardinality(AllOpen)
      /\ AllOpen # {} => excess < Cardinality(AllOpen)

\* The comment in Pool::shares_for_deposit: "No shares means no deposits were ever
\* made, and so nothing was lent or earned."  It is why a deposit into a pool
\* without shares is priced one to one.
NoSharesNothingHeld == pool.total_shares = 0 => Value(pool, now) = 0

-----------------------------------------------------------------------------
(***************************************************************************)
(* What a transaction may do to lenders and borrowers.                     *)
(***************************************************************************)

\* FR-012: when a loan goes out, all that the operator owes at that second, the
\* interest no loan has booked yet included, is within the limit that the key the
\* pool trusts at that second attested for this very loan.
DebtWithinLimit ==
  [][\A o \in Operators, n \in Nonces :
       (loans[o][n] = NoLoan /\ loans'[o][n] # NoLoan)
         => \E limit \in LimitAttestations :
              /\ limit.signer = pool.attestor
              /\ limit.operator = o
              /\ limit.nonce = n
              /\ SumFunction([k \in OpenLoans(o)' |-> Debt(o, k)'])
                   <= limit.limit]_vars

\* FR-012b: an attestation that opened a loan opens no other.  The account at the
\* loan's address is only "a second lock": the nonce window refuses it by itself,
\* however the loans were opened and repaid since.
SpentNonceRefused ==
  \A o \in Operators, n \in Nonces :
    loans[o][n] # NoLoan => ~AcceptsNonce(operators[o].window, n)

LoansClosed ==
  Cardinality({on \in AllOpen : ~IsOpen(loans'[on[1]][on[2]])})

\* FR-018, FR-018a: no transaction makes a share worth less at the second it
\* runs, whoever deposits, withdraws, borrows or repays; a loan that closes may
\* drop the fraction of a unit it had not booked, and no more than that.
SharePriceHolds ==
  [][(now' = now /\ pool.total_shares > 0 /\ pool'.total_shares > 0)
       => (Value(pool', now) + LoansClosed) * pool.total_shares
            >= Value(pool, now) * pool'.total_shares]_vars

\* FR-020: a lender who withdraws is paid what their shares are worth, now or
\* later: what is paid and what the shares left are still worth falls short of
\* what they had by the price of one share at most.
WithdrawalIsFair ==
  [][\A l \in Lenders :
       shares'[l] < shares[l] =>
         (vault - vault') + ValueOfShares(pool', shares'[l], now)
           + DivCeil(Value(pool, now), pool.total_shares)
         >= ValueOfShares(pool, shares[l], now)]_vars

-----------------------------------------------------------------------------
(***************************************************************************)
(* Sweeping payouts.                                                       *)
(***************************************************************************)

\* FR-017: the reward tokens that loans in good standing still have due from
\* earlier payouts are at most what the last sweep saw on the account.
DueIsHeld ==
  \A o \in Operators, m \in RewardMints :
    SumFunction([n \in {k \in OpenLoansOn(o, m) :
                          loans[o][k].manual_repayment = NoReason}
                   |-> loans[o][n].reward_due])
      <= watches[o][m].balance

\* FR-017: the cause a sweep gives for a manual repayment is true.  As long as
\* operators leave their reward tokens and the delegation alone, no loan is ever
\* flagged as revoked or as having its tokens withdrawn early, however payouts,
\* sweeps, rates, repayments and new loans interleave.
NeverFalselyBlamed ==
  \A o \in Operators : \A n \in OpenLoans(o) :
    loans[o][n].manual_repayment \in {NoReason, "AllowanceShort"}

\* FR-015a: a sweep credits the operator's debt with what the tokens it takes are
\* worth at the attested rate, short of it by the tolerance at most, and takes no
\* more tokens than would pay off everything they repay.
SweepIsFair ==
  [][\A o \in Operators, m \in RewardMints, rate \in RateAttestations :
       LET r     == rate.stable_per_trillion_reward
           taken == rewards[o][m].balance - rewards'[o][m].balance
       IN  (taken > 0 /\ vault' > vault /\ Sweep(o, m, rate)) =>
             /\ (vault' - vault) * RATE_UNIT * BPS
                  >= taken * r * (BPS - MAX_SLIPPAGE_BPS)
             /\ taken <= SumFunction([n \in OpenLoansOn(o, m) |->
                                        TokensFor(Debt(o, n), r)])]_vars

\* A sweep that takes nothing because the market is out of tolerance leaves "the
\* payout for a later sweep": at the same rate, the next sweep owes each loan it
\* would have paid the same tokens, and can take at least as many.
SkipKeepsClaims ==
  [][\A o \in Operators, m \in RewardMints, rate \in RateAttestations :
       LET r      == rate.stable_per_trillion_reward
           claims == Claims(o, m, r)
           later  == [i \in DOMAIN claims |->
                        [claims[i] EXCEPT
                           !.due = loans'[o][LoanInPlace(o, m, i)].reward_due]]
           parts  == Withholdings(Payout(o, m), Available(o, m), claims)
           next   == Withholdings(SaturatingSub(rewards'[o][m].balance,
                                                watches'[o][m].balance),
                                  Available(o, m), later)
       IN  (/\ <<now, pool, vault, rewards>>' = <<now, pool, vault, rewards>>
            /\ <<loans[o], watches[o]>>' # <<loans[o], watches[o]>>
            /\ Sweep(o, m, rate)) =>
             \A i \in DOMAIN claims :
               Quote(parts[i].take, r) > 0 =>
                 next[i].owed = parts[i].owed /\ next[i].take >= parts[i].take]_vars
=============================================================================
