----------------------------- MODULE MCLending -----------------------------
(***************************************************************************)
(* Lenders and borrowers without reward flows, for the runs `lending`,      *)
(* `credit` and `no_shares`.                                               *)
(***************************************************************************)
EXTENDS RewardFloatProperties, TLC

CONSTANTS o1, o2, l1, l2, m1, k1, k2

\* The first key attests a limit that leaves room for two loans, the one it is
\* rotated to a limit below the largest loan with a unit of interest.
MCLimits ==
  {[ signer |-> k, operator |-> o, limit |-> IF k = k1 THEN 5 ELSE 2,
     computed_at |-> 0, expires_at |-> MAX_TIME + 1, nonce |-> n ] :
     k \in Keys, o \in Operators, n \in Nonces}

MCRates ==
  {[ signer |-> k, reward_mint |-> m1, stable_per_trillion_reward |-> 1,
     priced_at |-> 0, expires_at |-> MAX_TIME + 1 ] : k \in Keys}

\* Lenders and operators differ in nothing but their names.
MCSymmetry == Permutations(Lenders) \union Permutations(Operators)
=============================================================================
