------------------------------ MODULE MCSweep ------------------------------
(***************************************************************************)
(* One operator with up to two loans repaid from one reward token.         *)
(***************************************************************************)
EXTENDS RewardFloatProperties

CONSTANTS
  o1, l1, m1, k1,
  MCLimit,        \* the limit every attestation carries
  MCPrices        \* the rates that are attested

MCLimits ==
  {[ signer |-> k1, operator |-> o1, limit |-> MCLimit, computed_at |-> 0,
     expires_at |-> MAX_TIME + 1, nonce |-> n ] : n \in Nonces}

MCRates ==
  {[ signer |-> k1, reward_mint |-> m1, stable_per_trillion_reward |-> price,
     priced_at |-> 0, expires_at |-> MAX_TIME + 1 ] : price \in MCPrices}
=============================================================================
