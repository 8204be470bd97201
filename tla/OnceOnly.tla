------------------------------ MODULE OnceOnly ------------------------------
(***************************************************************************)
(* The promise of an operator account's replay protection, without the     *)
(* window that keeps it: a nonce opens at most one loan.                    *)
(***************************************************************************)
EXTENDS Naturals

CONSTANT Nonces

VARIABLE opened      \* the number of loans opened with each nonce

Init == opened = [nonce \in Nonces |-> 0]

Spend(nonce) ==
  /\ opened[nonce] = 0
  /\ opened' = [opened EXCEPT ![nonce] = 1]

Next == \E nonce \in Nonces : Spend(nonce)

Spec == Init /\ [][Next]_opened
=============================================================================
