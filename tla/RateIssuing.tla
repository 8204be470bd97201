---------------------------- MODULE RateIssuing ----------------------------
(***************************************************************************)
(* Signing the rate of one reward token (apps/api/src/routes/rate.ts, with *)
(* the prices of apps/api/src/jupiter.ts behind their cache).  Pages and   *)
(* the keeper ask through the same route.                                  *)
(*                                                                         *)
(* A price is its digits and how many of them are behind the point, in     *)
(* RADIX; the rate is counted in units of RADIX to the power -SCALE.       *)
(***************************************************************************)
EXTENDS CachedRead, Attestation

CONSTANTS
  Digits,           \* the digits a price may have
  Fractions,        \* how many of them may be behind the point
  SCALE,            \* STABLE_PER_TRILLION_EXPONENT less the decimals of the token
  RADIX,
  MAX_PRICE_AGE,
  RATE_TTL,
  MAX_SKEW,         \* how far the clock of the chain may trail the server's
  MAX_QUOTES        \* bounds the prices of the market

RateAssumption ==
  /\ Digits \subseteq Nat \ {0} /\ RADIX \in Nat \ {0}
  /\ Fractions \subseteq Nat /\ SCALE \in Nat
  /\ {MAX_PRICE_AGE, RATE_TTL, MAX_SKEW, MAX_QUOTES} \subseteq Nat
  /\ {MAX_RATE_AGE, MAX_REMAINING_VALIDITY} \subseteq Nat
  /\ MAX_PRICE_AGE + RATE_TTL <= MAX_RATE_AGE
  /\ RATE_TTL + MAX_SKEW <= MAX_REMAINING_VALIDITY

\* What is known of powers.
PowersAssumption ==
  \A i, j \in Fractions \union {SCALE} :
    /\ RADIX^i \in Nat \ {0}
    /\ i <= j => RADIX^(j - i) \in Nat \ {0} /\ RADIX^j = RADIX^(j - i) * RADIX^i

VARIABLES
  quoted,       \* all the market ever quoted
  issued        \* what was signed, and when

vars == <<cacheVars, quoted, issued>>

ATTESTOR == "attestor"

MINT == "mint"

Prices == [digits : Digits, fraction : Fractions]

Init ==
  /\ \E price \in Prices : CacheInit([amount |-> price, of |-> 0])
  /\ quoted = {upstream}
  /\ issued = {}

\* The market moves on: its last price is of an earlier moment when trading is slow.
Quote(price, of) ==
  /\ Cardinality(quoted) < MAX_QUOTES
  /\ of \in upstream.of..clock
  /\ Change([amount |-> price, of |-> of])
  /\ quoted' = quoted \union {upstream'}
  /\ UNCHANGED issued

\* stablePerTrillionReward
StablePerTrillionReward(price) ==
  LET shift == SCALE - price.fraction
  IN  IF shift >= 0 THEN price.digits * RADIX^shift
      ELSE (price.digits + RADIX^(-shift) - 1) \div RADIX^(-shift)

\* attestedRate
FreshEnough(value) == clock - value.of <= MAX_PRICE_AGE

\* rateAttestationSchema and signRateAttestation.
SignRateAttestation(value) ==
  [signer |-> ATTESTOR, reward_mint |-> MINT,
   stable_per_trillion_reward |-> StablePerTrillionReward(value.amount),
   priced_at |-> value.of, expires_at |-> clock + RATE_TTL]

\* The route after the await: 201 with a fresh price, 503 without one or without the
\* source, 500 for a token whose decimals are not those of the config.
Answer(c) ==
  LET fetch == fetches[callers[c].fetch]
      signs == fetch.state = "resolved" /\ FreshEnough(ValueOf(fetch))
  IN  /\ Settled(c)
      /\ Leave(c, IF signs THEN "signed"
                  ELSE IF fetch.state = "misconfigured" THEN "internal" ELSE "unavailable")
      /\ issued' = IF signs
                     THEN issued \union {[att |-> SignRateAttestation(ValueOf(fetch)),
                                          at |-> clock, price |-> ValueOf(fetch).amount]}
                     ELSE issued
      /\ UNCHANGED quoted

Next ==
  \/ Tick /\ UNCHANGED <<quoted, issued>>
  \/ \E price \in Prices, of \in 0..MAX_CLOCK : Quote(price, of)
  \/ \E c \in Callers : Answer(c) \/ (Call(c) /\ UNCHANGED <<quoted, issued>>)
  \/ \E f \in DOMAIN fetches :
       /\ \/ \E found \in BOOLEAN : Respond(f, found)
          \/ \E reason \in {"unavailable", "misconfigured"} : Reject(f, reason)
          \/ TimeOut(f)
       /\ UNCHANGED <<quoted, issued>>

Spec == Init /\ [][Next]_vars

-----------------------------------------------------------------------------
\* FR-015b, rate.ts:14: every signed rate is a price the market had, less than
\* MAX_PRICE_AGE old when it was signed, and rounded up by less than a unit: it never
\* lets the protocol hold more than the debt is worth.
RatesAreMarketPrices ==
  \A rate \in issued :
    LET att   == rate.att
        price == rate.price
        unit  == RADIX^(price.fraction)
        full  == price.digits * RADIX^SCALE
    IN  /\ [amount |-> price, of |-> att.priced_at] \in quoted
        /\ rate.at - att.priced_at <= MAX_PRICE_AGE
        /\ att.stable_per_trillion_reward * unit \in full..(full + unit - 1)

\* verify_attestation.rs: a signed rate satisfies the program until it expires, from its
\* signature on.
RatesAreAccepted ==
  \A rate \in issued :
    \A now \in (rate.at - MAX_SKEW)..(rate.att.expires_at - 1) :
      RateVerified(rate.att, ATTESTOR, MINT, now)
=============================================================================
