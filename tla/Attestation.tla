---------------------------- MODULE Attestation ----------------------------
(***************************************************************************)
(* What the program accepts as the attestor's word                         *)
(* (programs/reward-float/src/instructions/verify_attestation.rs).  A      *)
(* signed message is a record with the key that signed it; reading it out  *)
(* of the ed25519 instruction and its bytes is abstracted to that record,  *)
(* since the runtime has verified the signature before the program runs.   *)
(***************************************************************************)
EXTENDS Integers

CONSTANTS
  MAX_REMAINING_VALIDITY,
  MAX_LIMIT_AGE,
  MAX_RATE_AGE

\* attested_message and LimitAttestation::check.
LimitVerified(att, attestor, operator, now) ==
  /\ att.signer = attestor
  /\ att.operator = operator
  /\ now < att.expires_at
  /\ att.expires_at - now <= MAX_REMAINING_VALIDITY
  /\ now - att.computed_at <= MAX_LIMIT_AGE

\* attested_message, RateAttestation::parse and RateAttestation::check.
RateVerified(att, attestor, reward_mint, now) ==
  /\ att.signer = attestor
  /\ att.stable_per_trillion_reward > 0
  /\ att.reward_mint = reward_mint
  /\ now < att.expires_at
  /\ att.expires_at - now <= MAX_REMAINING_VALIDITY
  /\ now - att.priced_at <= MAX_RATE_AGE
=============================================================================
