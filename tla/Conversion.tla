----------------------------- MODULE Conversion -----------------------------
(***************************************************************************)
(* Turning reward tokens into stablecoin: the quotes of the conversion     *)
(* vault (state/conversion_vault.rs), the slippage tolerance (slippage.rs) *)
(* and how a payout is divided among an operator's loans (withholdings in  *)
(* instructions/sweep.rs).                                                 *)
(***************************************************************************)
EXTENDS Arithmetic, Sequences

CONSTANTS
  RATE_UNIT,          \* 10^12 in the code: rates are stablecoin per so many
                      \* reward units
  SPREAD_BPS,         \* how far below the attested rate the vault quotes
  MAX_SLIPPAGE_BPS    \* how far below it a conversion may land

ASSUME ConversionAssumption ==
  /\ RATE_UNIT \in Nat \ {0}
  /\ SPREAD_BPS \in 0..(BPS - 1)            \* InvalidConversionTerms
  /\ MAX_SLIPPAGE_BPS \in 0..(BPS - 1)

\* ConversionVault::quote, rounded down once.
Quote(amount, rate) ==
  (amount * rate * (BPS - SPREAD_BPS)) \div (RATE_UNIT * BPS)

\* ConversionVault::tokens_for, rounded up and saturating.
TokensFor(stable, rate) ==
  Least(DivCeil(stable * RATE_UNIT * BPS, rate * (BPS - SPREAD_BPS)), U64_MAX)

\* Slip: the deviation is rounded down.
DeviationBpsFloor(amount, rate, received) ==
  LET worth == amount * rate
      paid  == received * RATE_UNIT
  IN  IF paid >= worth THEN 0 ELSE ((worth - paid) * BPS) \div worth

\* check_conversion: how far `received` falls below the attested value.
DeviationBps(amount, rate, received) ==
  LET worth == amount * rate
      paid  == received * RATE_UNIT
  IN  IF paid >= worth THEN 0 ELSE DivCeil((worth - paid) * BPS, worth)

WithinTolerance(amount, rate, received) ==
  DeviationBps(amount, rate, received) <= MAX_SLIPPAGE_BPS

(***************************************************************************)
(* withholdings: claims are served oldest first.  Each is owed what        *)
(* earlier payouts left unpaid plus its share of this one, never more than *)
(* pays it off, and the shares together never exceed the payout.           *)
(***************************************************************************)
EarlierDue(claim) == Least(claim.due, claim.need)

Fresh(claim, payout, payout_left) ==
  Least(Least((payout * claim.sweep_bps) \div BPS, claim.need - EarlierDue(claim)),
        payout_left)

Withholdings(payout, available, claims) ==
  LET serve[i \in 0..Len(claims)] ==
        IF i = 0
          THEN [owed |-> 0, take |-> 0, payout_left |-> payout, left |-> available]
          ELSE LET before == serve[i - 1]
                   fresh  == Fresh(claims[i], payout, before.payout_left)
                   owed   == EarlierDue(claims[i]) + fresh
                   take   == Least(owed, before.left)
               IN  [ owed        |-> owed,
                     take        |-> take,
                     payout_left |-> before.payout_left - fresh,
                     left        |-> before.left - take ]
  IN  [i \in 1..Len(claims) |-> [owed |-> serve[i].owed, take |-> serve[i].take]]
=============================================================================
