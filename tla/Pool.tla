-------------------------------- MODULE Pool --------------------------------
(***************************************************************************)
(* The pool account (programs/reward-float/src/state/pool.rs): the books   *)
(* of lenders' stablecoin, the price of a share and the price of a loan.   *)
(***************************************************************************)
EXTENDS Loan

CONSTANTS
  Keys,               \* public keys that may be set as attestor
  BASE_APR_BPS,       \* the rate curve fixed by initialize_pool
  SLOPE_APR_BPS

ASSUME PoolAssumption ==
  /\ BASE_APR_BPS \in Nat
  /\ SLOPE_APR_BPS \in Nat
  /\ BASE_APR_BPS + SLOPE_APR_BPS <= APR_MAX    \* InvalidRateCurve

PoolType ==
  [ attestor           : Keys,
    total_shares       : U64,
    total_deposits     : U64,
    total_borrowed     : U64,
    accrued_interest   : U64,
    accrual_rate       : Nat,
    accrual_rate_time  : Nat,
    accrual_remainders : Nat ]

\* What handle_initialize_pool writes.
NewPool(attestor) ==
  [ attestor           |-> attestor,
    total_shares       |-> 0,
    total_deposits     |-> 0,
    total_borrowed     |-> 0,
    accrued_interest   |-> 0,
    accrual_rate       |-> 0,
    accrual_rate_time  |-> 0,
    accrual_remainders |-> 0 ]

FreeLiquidity(p) == p.total_deposits - p.total_borrowed

\* Slip: the fractions that loans carry are not re-summed.
RetrackWithoutRemainder(p, before, after) ==
  [p EXCEPT !.accrual_rate      = @ - before.rate + after.rate,
            !.accrual_rate_time = @ - before.rate_time + after.rate_time]

\* Pool::untrack of loans contributing `before`, then Pool::track of `after`.
Retrack(p, before, after) ==
  [p EXCEPT !.accrual_rate       = @ - before.rate + after.rate,
            !.accrual_rate_time  = @ - before.rate_time + after.rate_time,
            !.accrual_remainders = @ - before.remainder + after.remainder]

\* Every checked_sub of Pool::untrack succeeds.
Tracks(p, before) ==
  /\ p.accrual_rate >= before.rate
  /\ p.accrual_rate_time >= before.rate_time
  /\ p.accrual_remainders >= before.remainder

\* Slip: the fractions that loans carry are not counted.
UnbookedWithoutRemainders(p, now) ==
  SaturatingSub(p.accrual_rate * now, p.accrual_rate_time) \div ACCRUAL_DENOMINATOR

UnbookedInterest(p, now) ==
  SaturatingSub(p.accrual_rate * now + p.accrual_remainders, p.accrual_rate_time)
    \div ACCRUAL_DENOMINATOR

\* Everything the pool holds and is owed at `now`.
Value(p, now) ==
  p.total_deposits + p.accrued_interest + UnbookedInterest(p, now)

\* Slip: a deposit is priced on the cash alone, not on the interest earned.
SharesAtCashPrice(p, amount, now) ==
  IF p.total_shares = 0
    THEN amount
    ELSE (amount * p.total_shares) \div p.total_deposits

\* Pool::shares_for_deposit without its refusals; value 0 is refused before.
SharesForDeposit(p, amount, now) ==
  IF p.total_shares = 0
    THEN amount
    ELSE (amount * p.total_shares) \div Value(p, now)

\* Pool::value_of_shares; the code splits the product, with the same floor.
ValueOfShares(p, shares, now) ==
  IF shares = 0
    THEN 0
    ELSE shares * (Value(p, now) \div p.total_shares)
           + (shares * (Value(p, now) % p.total_shares)) \div p.total_shares

\* Pool::withdrawal: what is paid, and the shares it burns.
WithdrawalPaid(p, shares, max_amount, now) ==
  Least(Least(max_amount, ValueOfShares(p, shares, now)), FreeLiquidity(p))

\* Slip: a withdrawal the pool cannot pay in full burns every share all the same.
WithdrawalBurnsAll(p, shares, max_amount, now) == shares

WithdrawalShares(p, shares, max_amount, now) ==
  LET paid == WithdrawalPaid(p, shares, max_amount, now)
  IN  IF paid = ValueOfShares(p, shares, now)
        THEN shares
        ELSE DivCeil(paid * p.total_shares, Value(p, now))

\* Pool::quote_apr_bps, at the utilisation after the loan.
QuoteAprBps(p, amount) ==
  BASE_APR_BPS
    + DivCeil(SLOPE_APR_BPS * (p.total_borrowed + amount), p.total_deposits)
=============================================================================
