----------------------------- MODULE LenderPage -----------------------------
(***************************************************************************)
(* A lender on the pool page (apps/web/src/pages/Pool.tsx).  The page      *)
(* reads the pool, the lender's share and their balance by three calls,    *)
(* quotes a deposit or a withdrawal from them, and signs; other lenders    *)
(* and the operators move the pool meanwhile, and what was sent may land   *)
(* after the page has given up on it.                                      *)
(***************************************************************************)
EXTENDS Pool, TLC, FiniteSets

CONSTANTS
  WALLET,           \* what the lender has
  Held,             \* and has in the pool
  OTHERS,           \* what the other lenders have in it
  Deposits, Withdrawals,
  LoanAmounts, Aprs,
  Calls, NoLoan,
  MAX_CLICKS,       \* bounds the transactions of the lender
  MAX_CHANGES,      \* bounds what fails or happens elsewhere
  MAX_TIME          \* bounds the clock

\* What the pool's books see of a loan.
GivenLoan ==
  [ outstanding : Nat, accrued_interest : Nat, interest_remainder : Nat, apr_bps : Nat,
    last_accrual_at : Nat, status : LoanStatuses, reward_due : {0},
    manual_repayment : {NoReason} ]

LenderPageAssumption ==
  /\ NoLoan \notin GivenLoan
  /\ Held \subseteq Nat
  /\ {WALLET, OTHERS, MAX_CLICKS, MAX_CHANGES, MAX_TIME} \subseteq Nat
  /\ Deposits \union Withdrawals \subseteq U64 \ {0}
  /\ LoanAmounts \subseteq U64 \ {0} /\ Aprs \subseteq 0..APR_MAX

VARIABLES
  now,
  pool,         \* the Pool account
  loan,         \* the one loan the pool has given, or NoLoan
  share,        \* LenderShare::shares
  wallet,       \* stablecoin in the lender's token account
  read,         \* what has come back of the three reads under way
  shown,        \* and what the page shows
  stage,
  calls,        \* the runs of `send`
  adrift,       \* transactions the page has given up on
  clicks, changes

chainVars == <<pool, loan, share, wallet>>
pageVars == <<read, shown>>
vars == <<now, chainVars, pageVars, stage, calls, adrift, clicks, changes>>

-----------------------------------------------------------------------------
\* The share arithmetic of the page (packages/shared/src/loan/lending.ts), which
\* repeats what the program computes.

\* unbookedInterest
Unbooked(p, at) ==
  SaturatingSub(p.accrual_rate * at + p.accrual_remainders, p.accrual_rate_time)
    \div ACCRUAL_DENOMINATOR

PoolValue(p, at) == p.total_deposits + p.accrued_interest + Unbooked(p, at)

\* valueOfShares throws instead when there are more of them than the pool issued.
Priced(p, shares) == shares <= p.total_shares

\* valueOfShares
Worth(p, shares, at) ==
  IF shares = 0 THEN 0 ELSE (shares * PoolValue(p, at)) \div p.total_shares

\* quoteWithdrawal: the reason there is nothing to be had, if any.
QuoteRefusals(p, shares, at) ==
  CASE Worth(p, shares, at) = 0 -> {"nothing-to-withdraw"}
    [] FreeLiquidity(p) = 0        -> {"no-free-liquidity"}
    [] OTHER                       -> {}

QuotedPaid(p, shares, max_amount, at) ==
  Least(Least(max_amount, Worth(p, shares, at)), FreeLiquidity(p))

QuotedShares(p, shares, max_amount, at) ==
  LET paid == QuotedPaid(p, shares, max_amount, at)
  IN  IF paid = Worth(p, shares, at)
        THEN shares
        ELSE DivCeil(paid * p.total_shares, PoolValue(p, at))

-----------------------------------------------------------------------------
Parts == {"pool", "share", "balance"}
Nothing == <<>>
Loading == [status |-> "loading"]
NoCall == [step |-> "none"]

OnChain(part) ==
  CASE part = "pool" -> pool [] part = "share" -> share [] OTHER -> wallet

Init ==
  /\ now = 1
  /\ share \in Held
  /\ pool = [NewPool(CHOOSE k \in Keys : TRUE) EXCEPT !.total_shares = OTHERS + share,
                                                      !.total_deposits = OTHERS + share]
  /\ loan = NoLoan
  /\ wallet = WALLET
  /\ read = Nothing
  /\ shown = Loading
  /\ stage = "idle"
  /\ calls = [c \in Calls |-> NoCall]
  /\ adrift = {}
  /\ clicks = 0 /\ changes = 0

Change == changes < MAX_CHANGES /\ changes' = changes + 1

-----------------------------------------------------------------------------
\* Reading: Promise.all of three calls, shown when the last of them is back.

Reading == DOMAIN read # Parts

ReadPart(part) ==
  /\ part \in Parts \ DOMAIN read
  /\ read' = (part :> OnChain(part)) @@ read
  /\ shown' = IF DOMAIN read' = Parts
                THEN [ status |-> "ready", pool |-> read'["pool"],
                       share |-> read'["share"], balance |-> read'["balance"], at |-> now ]
                ELSE shown
  /\ UNCHANGED <<now, chainVars, stage, calls, adrift, clicks, changes>>

ReadFails ==
  /\ Reading
  /\ read' = [part \in Parts |-> OnChain(part)]
  /\ shown' = [status |-> "unreachable"]
  /\ Change
  /\ UNCHANGED <<now, chainVars, stage, calls, adrift, clicks>>

\* onMoved: the effect starts again, and what it had stays shown.
ReadAgain == read' = Nothing

Reload ==
  /\ stage \notin {"signing", "confirming"}
  /\ read' = Nothing /\ shown' = Loading /\ stage' = "idle"
  /\ \A c \in Calls : calls[c] = NoCall
  /\ UNCHANGED <<now, chainVars, calls, adrift, clicks, changes>>

-----------------------------------------------------------------------------
\* What the page offers.

Busy == stage \in {"signing", "confirming"}

CanDeposit(amount) ==
  shown.status = "ready" /\ amount <= shown.balance /\ ~Busy

\* As it was rendered at some moment since it was read.
CanWithdraw(at) ==
  shown.status = "ready" /\ QuoteRefusals(shown.pool, shown.share, at) = {} /\ ~Busy

\* A share of more than the pool issued throws while the page is rendered.
Rendered == shown.status = "ready" => Priced(shown.pool, shown.share)

ClickDeposit(c, amount) ==
  /\ calls[c] = NoCall
  /\ Rendered /\ CanDeposit(amount)
  /\ calls' = [calls EXCEPT ![c] = [step |-> "building", kind |-> "deposit", amount |-> amount]]
  /\ UNCHANGED <<now, chainVars, pageVars, stage, adrift, changes>>

ClickWithdraw(c, max_amount, at) ==
  /\ calls[c] = NoCall
  /\ Rendered /\ CanWithdraw(at)
  /\ calls' = [calls EXCEPT ![c] =
       [ step |-> "building", kind |-> "withdrawal", amount |-> max_amount,
         of |-> [pool |-> shown.pool, share |-> shown.share],
         quoted |-> QuotedPaid(shown.pool, shown.share, max_amount, at) ]]
  /\ UNCHANGED <<now, chainVars, pageVars, stage, adrift, changes>>

RenderTimes == IF shown.status = "ready" THEN shown.at..now ELSE {}

Maxima == Withdrawals \union {U64_MAX}

-----------------------------------------------------------------------------
\* `send`

At(c, step) == calls[c] # NoCall /\ calls[c].step = step

Move(c, step) == calls' = [calls EXCEPT ![c].step = step]

Build(c) ==
  /\ At(c, "building")
  /\ Move(c, "signing") /\ stage' = "signing"
  /\ UNCHANGED <<now, chainVars, pageVars, adrift, clicks, changes>>

Sign(c) ==
  /\ At(c, "signing")
  /\ Move(c, "confirming") /\ stage' = "confirming"
  /\ UNCHANGED <<now, chainVars, pageVars, adrift, clicks, changes>>

\* confirmTransaction finds no error.
Confirm(c) ==
  /\ At(c, "landed")
  /\ Move(c, "confirmed")
  /\ UNCHANGED <<now, chainVars, pageVars, stage, adrift, clicks, changes>>

End(c) == calls' = [calls EXCEPT ![c] = NoCall]

\* The logs are back, or are not to be had.
Done(c) ==
  /\ At(c, "confirmed")
  /\ stage' = "done"
  /\ ReadAgain
  /\ End(c)
  /\ UNCHANGED <<now, chainVars, shown, adrift, clicks, changes>>

Refused(c) ==
  /\ At(c, "refused")
  /\ stage' = "failed"
  /\ End(c)
  /\ UNCHANGED <<now, chainVars, pageVars, adrift, clicks, changes>>

\* The blockhash or the wallet, the confirmation or the logs: one `catch` for all.
Fail(c) ==
  /\ calls[c] # NoCall /\ calls[c].step # "refused"
  /\ stage' = "failed"
  /\ End(c)
  /\ \/ UNCHANGED adrift
     \/ At(c, "confirming") /\ adrift' = adrift \union {calls[c]}
  /\ Change
  /\ UNCHANGED <<now, chainVars, pageVars, clicks>>

-----------------------------------------------------------------------------
\* The program.

Accepts(tx) ==
  IF tx.kind = "deposit"
    THEN /\ tx.amount <= wallet
         /\ pool.total_shares = 0 \/ Value(pool, now) > 0
         /\ SharesForDeposit(pool, tx.amount, now) > 0
    ELSE /\ share > 0
         /\ ValueOfShares(pool, share, now) > 0
         /\ FreeLiquidity(pool) > 0

Apply(tx) ==
  LET paid   == WithdrawalPaid(pool, share, tx.amount, now)
      burned == WithdrawalShares(pool, share, tx.amount, now)
      minted == SharesForDeposit(pool, tx.amount, now)
  IN  IF tx.kind = "deposit"
        THEN /\ pool' = [pool EXCEPT !.total_shares = @ + minted,
                                     !.total_deposits = @ + tx.amount]
             /\ share' = share + minted
             /\ wallet' = wallet - tx.amount
        ELSE /\ pool' = [pool EXCEPT !.total_shares = @ - burned,
                                     !.total_deposits = @ - paid]
             /\ share' = share - burned
             /\ wallet' = wallet + paid

Land(c) ==
  /\ At(c, "confirming")
  /\ IF Accepts(calls[c])
       THEN Apply(calls[c]) /\ Move(c, "landed")
       ELSE UNCHANGED <<pool, share, wallet>> /\ Move(c, "refused")
  /\ UNCHANGED <<now, loan, pageVars, stage, adrift, clicks, changes>>

LandAdrift ==
  /\ \E tx \in adrift :
       /\ adrift' = adrift \ {tx}
       /\ IF Accepts(tx) THEN Apply(tx) ELSE UNCHANGED <<pool, share, wallet>>
  /\ UNCHANGED <<now, loan, pageVars, stage, calls, clicks, changes>>

-----------------------------------------------------------------------------
\* Elsewhere.

GiveLoan(amount, apr) ==
  /\ loan = NoLoan /\ amount <= FreeLiquidity(pool)
  /\ loan' = [ outstanding |-> amount, accrued_interest |-> 0, interest_remainder |-> 0,
               apr_bps |-> apr, last_accrual_at |-> now, status |-> "Active",
               reward_due |-> 0, manual_repayment |-> NoReason ]
  /\ pool' = [Retrack(pool, NoTerms, AccrualTerms(loan')) EXCEPT !.total_borrowed = @ + amount]
  /\ Change
  /\ UNCHANGED <<now, share, wallet, pageVars, stage, calls, adrift, clicks>>

\* `settle`, of a part of the loan or of all that is owed.
Settle(max_amount) ==
  /\ loan # NoLoan
  /\ LET accrued  == Accrue(loan, now)
         after    == ApplyRepayment(accrued, max_amount)
         interest == InterestPart(accrued, max_amount)
     IN  /\ loan' = IF IsOpen(after) THEN after ELSE NoLoan
         /\ pool' = [Retrack(pool, AccrualTerms(loan), AccrualTerms(after)) EXCEPT
                       !.total_borrowed   = @ - PrincipalPart(accrued, max_amount),
                       !.accrued_interest = @ + InterestTo(loan, now) - interest,
                       !.total_deposits   = @ + interest]
  /\ UNCHANGED <<now, share, wallet, pageVars, stage, calls, adrift, clicks>>

RepayPart(amount) == Settle(amount) /\ Change

RepayAll == Settle(U64_MAX) /\ UNCHANGED changes

OtherWithdraws(amount) ==
  /\ amount <= FreeLiquidity(pool)
  /\ DivCeil(amount * pool.total_shares, Value(pool, now)) <= pool.total_shares - share
  /\ pool' = [pool EXCEPT
                !.total_shares   = @ - DivCeil(amount * pool.total_shares, Value(pool, now)),
                !.total_deposits = @ - amount]
  /\ Change
  /\ UNCHANGED <<now, loan, share, wallet, pageVars, stage, calls, adrift, clicks>>

Tick ==
  /\ now < MAX_TIME
  /\ now' = now + 1
  /\ UNCHANGED <<chainVars, pageVars, stage, calls, adrift, clicks, changes>>

Elsewhere ==
  \/ \E amount \in LoanAmounts, apr \in Aprs : GiveLoan(amount, apr)
  \/ \E amount \in LoanAmounts : RepayPart(amount)
  \/ RepayAll
  \/ \E amount \in Withdrawals : OtherWithdraws(amount)
  \/ Tick

Sending ==
  \/ \E c \in Calls : Build(c) \/ Sign(c) \/ Land(c) \/ Confirm(c) \/ Done(c) \/ Refused(c)

Failing ==
  \/ ReadFails
  \/ \E c \in Calls : Fail(c)
  \/ LandAdrift

Clicking ==
  \E c \in Calls :
    \/ \E amount \in Deposits : ClickDeposit(c, amount)
    \/ \E max_amount \in Maxima, at \in RenderTimes : ClickWithdraw(c, max_amount, at)

Next ==
  \/ \E part \in Parts : ReadPart(part)
  \/ Sending \/ Failing \/ Elsewhere \/ Reload
  \/ Clicking /\ clicks < MAX_CLICKS /\ clicks' = clicks + 1

Spec == Init /\ [][Next]_vars

\* A lender who asks for everything whenever the page lets them, and reloads it when
\* it does not; and operators who repay.
AskForAll == \E c \in Calls : ClickWithdraw(c, U64_MAX, now) /\ UNCHANGED clicks

LookAgain ==
  /\ ~Reading
  /\ stage = "failed" \/ ~(Rendered /\ CanWithdraw(now))
  /\ Reload

PatientNext ==
  \/ \E part \in Parts : ReadPart(part)
  \/ Sending \/ Failing \/ Elsewhere \/ LookAgain
  \/ stage # "failed" /\ AskForAll

-----------------------------------------------------------------------------
TypeOK ==
  /\ now \in 1..MAX_TIME
  /\ pool \in PoolType /\ pool.total_borrowed <= pool.total_deposits
  /\ share \in 0..pool.total_shares /\ wallet \in Nat
  /\ DOMAIN read \subseteq Parts
  /\ shown.status \in {"loading", "ready", "unreachable"}
  /\ stage \in {"idle", "signing", "confirming", "done", "failed"}
  /\ clicks \in 0..MAX_CLICKS /\ changes \in 0..MAX_CHANGES

\* The page waits only for a transaction of its own.
WaitsForSomething == Busy => \E c \in Calls : calls[c] # NoCall

\* On the same pool, in the same second, the page and the program say the same: what
\* can be withdrawn, how much of it is paid and what it costs in shares.
QuoteIsTheProgram ==
  (shown.status = "ready" /\ shown.pool = pool /\ shown.share = share) =>
    \A max_amount \in Maxima :
      LET tx == [kind |-> "withdrawal", amount |-> max_amount]
      IN  /\ (QuoteRefusals(pool, share, now) = {}) = Accepts(tx)
          /\ Accepts(tx) =>
               /\ QuotedPaid(pool, share, max_amount, now)
                    = WithdrawalPaid(pool, share, max_amount, now)
               /\ QuotedShares(pool, share, max_amount, now)
                    = WithdrawalShares(pool, share, max_amount, now)

\* "you get": no less than that is paid, as long as nobody moved the pool, however
\* late the transaction lands.
PaidAsQuoted ==
  \A c \in Calls :
    (/\ At(c, "confirming") /\ calls[c].kind = "withdrawal"
     /\ calls'[c] # NoCall /\ calls'[c].step \in {"landed", "refused"}
     /\ pool = calls[c].of.pool /\ share = calls[c].of.share)
    => wallet' - wallet >= calls[c].quoted

\* withdrawnText, of what the program says held the withdrawal back: all that was
\* free is gone, and the rest of the position stays in, to within a share; or nothing
\* of the position is left; or all that was asked for is paid.
WithdrewWhatItSays ==
  wallet' > wallet =>
    LET paid == wallet' - wallet
        lost == ValueOfShares(pool, share, now) - paid - ValueOfShares(pool', share', now)
    IN  \/ paid \in Maxima
        \/ paid = ValueOfShares(pool, share, now) /\ share' = 0
        \/ FreeLiquidity(pool') = 0 /\ lost <= DivCeil(Value(pool, now), pool.total_shares)

\* The assertion of valueOfShares (lending.ts:39).
NoMoreThanIssued == Rendered
=============================================================================
