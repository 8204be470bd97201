------------------------------ MODULE Borrowing ------------------------------
(***************************************************************************)
(* The borrow page (apps/web/src/pages/Borrow.tsx) and the transaction it  *)
(* builds (packages/anchor-client/src/borrow.ts).  The page quotes a loan  *)
(* from the pool as it read it, has the limit and the rate attested at the *)
(* click, reads the open loans again, and signs; the program decides on    *)
(* the pool, the loans and the attestor as they are when it lands.         *)
(***************************************************************************)
EXTENDS ClientLoan, FiniteSetsExt

CONSTANTS
  DEPOSITS, BASE_APR, SLOPE_APR,   \* the pool
  LIMIT,                           \* what the api attests
  Attestors, Rates,
  Amounts, Terms,                  \* what may be typed
  Foreign, NoOne, OURS,
  Nonces,                          \* of the attestations the api issues
  MAX_CHANGES                      \* how often something fails or happens elsewhere

BorrowingAssumption ==
  /\ DEPOSITS \in Nat \ {0} /\ {BASE_APR, SLOPE_APR} \subseteq Nat
  /\ Amounts \subseteq Nat \ {0}
  /\ Terms \subseteq Nat \ {0} /\ Rates \subseteq Nat \ {0}

VARIABLES
  borrowed,     \* of the pool's deposits
  attestor,     \* whom the pool trusts, and the api signs as
  loans,        \* the operator's open loans, by nonce
  delegate,     \* who may take from the reward account
  allowance,    \* and how much
  form,         \* the amount and the term that are typed
  chain,        \* the pool and the debt as the page read them
  reading,      \* it is being read again
  preview,      \* the rate, the reward account and the loans as the page read them
  replace,      \* "Replace it" is ticked
  stage,
  call,         \* the run of `sign` under way
  adrift,       \* transactions the page gave up on
  changes

chainVars == <<borrowed, attestor, loans, delegate, allowance>>
pageVars == <<form, chain, reading, preview, replace, stage>>
vars == <<chainVars, pageVars, call, adrift, changes>>

Debt(open) == SumFunction([n \in DOMAIN open |-> open[n].principal])
Ceilings(open) == SumFunction([n \in DOMAIN open |-> open[n].ceiling])

Loading == [status |-> "loading"]
NoCall == [step |-> "none"]
Failed(status) == [status |-> status]

Init ==
  /\ borrowed \in 0..1
  /\ attestor \in Attestors
  /\ loans = <<>>
  /\ delegate = NoOne /\ allowance = 0
  /\ form \in [amount : Amounts, term : Terms]
  /\ chain = Loading /\ reading = TRUE
  /\ preview = Loading
  /\ replace = FALSE
  /\ stage = "idle"
  /\ call = NoCall
  /\ adrift = {}
  /\ changes = 0

Change == changes < MAX_CHANGES /\ changes' = changes + 1

-----------------------------------------------------------------------------
\* What the page reads.

ReadChain ==
  /\ reading
  /\ chain' = [ status |-> "ready", borrowed |-> borrowed, attestor |-> attestor,
                debt |-> Debt(loans) ]
  /\ reading' = FALSE
  /\ UNCHANGED <<chainVars, form, preview, replace, stage, call, adrift, changes>>

\* The pool or the operator's account cannot be read: nothing else is shown.
ReadChainFails ==
  /\ reading
  /\ chain' = Failed("unreachable")
  /\ reading' = FALSE
  /\ Change
  /\ UNCHANGED <<chainVars, form, preview, replace, stage, call, adrift>>

ReadPreview ==
  /\ preview = Loading
  /\ \E rate \in Rates :
       preview' = [ status |-> "ready", rate |-> rate, delegate |-> delegate,
                    ceiling |-> Ceilings(loans) ]
  /\ UNCHANGED <<chainVars, form, chain, reading, replace, stage, call, adrift, changes>>

ReadPreviewFails ==
  /\ preview = Loading
  /\ \E why \in {"no-rate", "unreachable"} : preview' = Failed(why)
  /\ Change
  /\ UNCHANGED <<chainVars, form, chain, reading, replace, stage, call, adrift>>

\* `reads`: both effects start again, and what the first one had stays shown.
ReadAgain ==
  /\ reading' = TRUE
  /\ preview' = Loading
  /\ replace' = FALSE

-----------------------------------------------------------------------------
\* What the page quotes.

\* quoteAprBps, at the utilisation after the loan.
Apr(used, amount) == QuotedApr(BASE_APR, SLOPE_APR, DEPOSITS, used + amount)

\* quoteLoan has a quote: neither over-limit nor insufficient-liquidity.
Quoted ==
  /\ chain.status = "ready"
  /\ form.amount <= SaturatingSub(LIMIT, chain.debt)
  /\ chain.borrowed + form.amount <= DEPOSITS

\* The most that is owed within the term.
CeilingOf(amount, apr, term) == amount + InterestIfHeld(amount, apr, term)

ForeignShown == preview.status = "ready" /\ preview.delegate \in Foreign

Busy == stage \in {"attesting", "preparing", "signing", "confirming"}

CanSign ==
  /\ Quoted
  /\ preview.status = "ready"
  /\ ForeignShown => replace
  /\ ~Busy

Type(amount, term) ==
  /\ form # [amount |-> amount, term |-> term]
  /\ form' = [amount |-> amount, term |-> term]
  /\ UNCHANGED <<chainVars, chain, reading, preview, replace, stage, call, adrift, changes>>

Tick ==
  /\ Quoted /\ ForeignShown
  /\ replace' = ~replace
  /\ UNCHANGED <<chainVars, form, chain, reading, preview, stage, call, adrift, changes>>

-----------------------------------------------------------------------------
\* `sign`, with the figures of the render it was clicked in.

\* Exactly the quoted rate.
MaxApr(used, amount) == Apr(used, amount)

Click ==
  /\ CanSign
  /\ stage' = "attesting"
  /\ call' =
       [ step     |-> "attesting",
         amount   |-> form.amount,
         term     |-> form.term,
         max_apr  |-> MaxApr(chain.borrowed, form.amount),
         interest |-> InterestIfHeld(form.amount, Apr(chain.borrowed, form.amount), form.term),
         pool     |-> chain,
         ticked   |-> replace ]
  /\ UNCHANGED <<chainVars, form, chain, reading, preview, replace, adrift, changes>>

\* Slip: a run that ends leaves the stage as it was.
EndUnsaid(s) == stage' = stage /\ call' = NoCall

EndWith(s) == stage' = s /\ call' = NoCall

\* The limit, under a nonce of its own, and the rate are signed.
Attest ==
  /\ Busy /\ call.step = "attesting"
  /\ \E nonce \in Nonces \ (DOMAIN loans \union {tx.of.nonce : tx \in adrift}), rate \in Rates :
       call' = [step |-> "preparing", asked |-> call, nonce |-> nonce,
                rate |-> rate, attestor |-> attestor]
  /\ stage' = "preparing"
  /\ UNCHANGED <<chainVars, form, chain, reading, preview, replace, adrift, changes>>

NotAttested ==
  /\ Busy /\ call.step = "attesting"
  /\ \E why \in {"attestation", "no-rate"} : EndWith(why)
  /\ Change
  /\ UNCHANGED <<chainVars, form, chain, reading, preview, replace, adrift>>

\* The loans, their count and the reward account, read again.
Prepare ==
  /\ Busy /\ call.step = "preparing"
  /\ CASE delegate \in Foreign /\ ~call.asked.ticked ->
            EndWith("foreign") /\ ReadAgain /\ UNCHANGED chain
       [] call.attestor # call.asked.pool.attestor
            /\ ~(delegate \in Foreign /\ ~call.asked.ticked) ->
            EndWith("unknown") /\ UNCHANGED <<chain, reading, preview, replace>>
       [] OTHER ->
            /\ call' = [step |-> "signing", of |-> call, open |-> DOMAIN loans]
            /\ stage' = "signing"
            /\ UNCHANGED <<chain, reading, preview, replace>>
  /\ UNCHANGED <<chainVars, form, adrift, changes>>

Send ==
  /\ Busy /\ call.step = "signing"
  /\ call' = [call EXCEPT !.step = "confirming"]
  /\ stage' = "confirming"
  /\ UNCHANGED <<chainVars, form, chain, reading, preview, replace, adrift, changes>>

\* The wallet declines, a read or the node fails, the loans are out of sync, or
\* the confirmation is lost, before the transaction landed or after.
Fail ==
  /\ Busy /\ call.step # "attesting"
  /\ EndWith(IF call.step = "signing" THEN "rejected" ELSE "unknown")
  /\ \/ UNCHANGED adrift
     \/ call.step = "confirming" /\ adrift' = adrift \union {call}
  /\ Change
  /\ UNCHANGED <<chainVars, form, chain, reading, preview, replace>>

-----------------------------------------------------------------------------
\* The program.

AprGiven(tx) == QuotedApr(BASE_APR, SLOPE_APR, DEPOSITS, borrowed + tx.of.asked.amount)

\* Its reasons to refuse a loan; rate-moved is RateAboveMaximum.
Refusals(tx) ==
  LET req == tx.of.asked
  IN  (IF \/ tx.of.attestor # attestor
          \/ tx.open # DOMAIN loans
          \/ Debt(loans) + req.amount > LIMIT
          \/ borrowed + req.amount > DEPOSITS
          \/ RewardAllowance(
               Ceilings(loans) + CeilingOf(req.amount, AprGiven(tx), req.term), tx.of.rate) = 0
         THEN {"program"} ELSE {})
        \union
      (IF AprGiven(tx) > req.max_apr THEN {"rate-moved"} ELSE {})

\* The loan, and the delegation the program approves with it.
Lend(tx) ==
  LET req     == tx.of.asked
      ceiling == CeilingOf(req.amount, AprGiven(tx), req.term)
  IN  /\ loans' = [n \in DOMAIN loans \union {tx.of.nonce} |->
            IF n = tx.of.nonce
              THEN [principal |-> req.amount, ceiling |-> ceiling]
              ELSE loans[n]]
      /\ borrowed' = borrowed + req.amount
      /\ delegate' = OURS
      /\ allowance' = RewardAllowance(Ceilings(loans) + ceiling, tx.of.rate)

Land ==
  /\ Busy /\ call.step = "confirming"
  /\ IF Refusals(call) = {}
       THEN Lend(call) /\ call' = [call EXCEPT !.step = "landed"]
       ELSE /\ \E why \in Refusals(call) : call' = [step |-> "refused", why |-> why]
            /\ UNCHANGED <<borrowed, loans, delegate, allowance>>
  /\ UNCHANGED <<attestor, pageVars, adrift, changes>>

LandAdrift ==
  /\ \E tx \in adrift :
       /\ adrift' = adrift \ {tx}
       /\ IF Refusals(tx) = {}
            THEN Lend(tx)
            ELSE UNCHANGED <<borrowed, loans, delegate, allowance>>
  /\ UNCHANGED <<attestor, pageVars, call, changes>>

\* Slip: what was shown is quoted again after a rate that no longer holds.
ConfirmAndStay ==
  /\ Busy /\ call.step \in {"landed", "refused"}
  /\ IF call.step = "landed"
       THEN EndWith("done") /\ ReadAgain
       ELSE EndWith(call.why) /\ UNCHANGED <<reading, preview, replace>>
  /\ UNCHANGED <<chainVars, form, chain, adrift, changes>>

Confirm ==
  /\ Busy /\ call.step \in {"landed", "refused"}
  /\ IF call.step = "landed"
       THEN EndWith("done") /\ ReadAgain
       ELSE /\ EndWith(call.why)
            /\ IF call.why = "rate-moved" THEN ReadAgain ELSE UNCHANGED <<reading, preview, replace>>
  /\ UNCHANGED <<chainVars, form, chain, adrift, changes>>

-----------------------------------------------------------------------------
\* Elsewhere.

PoolMoves(used) ==
  /\ used # borrowed /\ used \in Debt(loans)..DEPOSITS
  /\ borrowed' = used
  /\ Change
  /\ UNCHANGED <<attestor, loans, delegate, allowance, pageVars, call, adrift>>

Repay(n) ==
  /\ n \in DOMAIN loans
  /\ loans' = [k \in DOMAIN loans \ {n} |-> loans[k]]
  /\ borrowed' = borrowed - loans[n].principal
  /\ Change
  /\ UNCHANGED <<attestor, delegate, allowance, pageVars, call, adrift>>

ApproveForeign(f) ==
  /\ delegate' = f /\ allowance' = 1
  /\ Change
  /\ UNCHANGED <<borrowed, attestor, loans, pageVars, call, adrift>>

Rotate(a) ==
  /\ a # attestor
  /\ attestor' = a
  /\ Change
  /\ UNCHANGED <<borrowed, loans, delegate, allowance, pageVars, call, adrift>>

Reload ==
  /\ ~Busy
  /\ chain' = Loading /\ reading' = TRUE /\ preview' = Loading
  /\ replace' = FALSE /\ stage' = "idle"
  /\ UNCHANGED <<chainVars, form, call, adrift, changes>>

Next ==
  \/ ReadChain \/ ReadChainFails
  \/ ReadPreview \/ ReadPreviewFails
  \/ \E amount \in Amounts, term \in Terms : Type(amount, term)
  \/ Tick
  \/ Click
  \/ Attest \/ NotAttested
  \/ Prepare \/ Send \/ Fail
  \/ Land \/ LandAdrift
  \/ Confirm
  \/ \E used \in 0..DEPOSITS : PoolMoves(used)
  \/ \E n \in Nonces : Repay(n)
  \/ \E f \in Foreign : ApproveForeign(f)
  \/ \E a \in Attestors : Rotate(a)
  \/ Reload

Spec == Init /\ [][Next]_vars

\* An operator who signs whenever the page lets them, and reloads it when it
\* cannot be read or the loan did not go through.
Stuck ==
  \/ chain.status = "unreachable"
  \/ preview.status \in {"no-rate", "unreachable"}
  \/ stage \in {"unknown", "program"}

WillingNext ==
  \/ ReadChain \/ ReadChainFails
  \/ ReadPreview \/ ReadPreviewFails
  \/ ~replace /\ Tick
  \/ ~Stuck /\ Click
  \/ Attest \/ NotAttested
  \/ Prepare \/ Send \/ Fail
  \/ Land \/ LandAdrift
  \/ Confirm
  \/ \E used \in 0..DEPOSITS : PoolMoves(used)
  \/ \E f \in Foreign : ApproveForeign(f)
  \/ \E a \in Attestors : Rotate(a)
  \/ Stuck /\ Reload

\* The transaction of the click goes on.
Proceed == Attest \/ Prepare \/ Send \/ Land \/ Confirm

-----------------------------------------------------------------------------
TypeOK ==
  /\ borrowed \in Debt(loans)..DEPOSITS
  /\ attestor \in Attestors
  /\ DOMAIN loans \subseteq Nonces
  /\ \A n \in DOMAIN loans : loans[n].ceiling >= loans[n].principal
  /\ delegate \in Foreign \union {NoOne, OURS} /\ allowance \in Nat
  /\ form \in [amount : Amounts, term : Terms]
  /\ chain.status \in {"loading", "ready", "unreachable"} /\ reading \in BOOLEAN
  /\ preview.status \in {"loading", "ready", "no-rate", "unreachable"}
  /\ replace \in BOOLEAN
  /\ Busy \/ stage \in {"idle", "done", "attestation", "no-rate", "foreign", "rejected",
                        "rate-moved", "program", "unknown"}
  /\ Busy <=> call # NoCall
  /\ changes \in 0..MAX_CHANGES

\* The loan that is given never costs more than what the screen said at the
\* click, however the pool moved and however late it lands.
CostIsShown ==
  \A n \in Nonces :
    n \in DOMAIN loans' \ DOMAIN loans =>
      \E tx \in adrift \union {call} :
        /\ tx.step = "confirming" /\ tx.of.nonce = n
        /\ loans'[n].ceiling - loans'[n].principal <= tx.of.asked.interest

\* What the page lets through the program accepts, unless the pool, the loans or
\* the attestor moved after they were read.
QuotesAreHonoured ==
  (/\ Busy /\ call.step = "confirming"
   /\ call.of.asked.pool.borrowed = borrowed
   /\ call.of.asked.pool.debt = Debt(loans)
   /\ call.open = DOMAIN loans
   /\ {call.of.asked.pool.attestor, call.of.attestor} = {attestor})
    => Refusals(call) = {}
=============================================================================
