---------------------------- MODULE ReplayGuard ----------------------------
(***************************************************************************)
(* One operator's replay protection on its own: the window of NonceWindow  *)
(* next to the number of loans opened with each nonce, which the program   *)
(* does not keep.  Attestations are issued and used in any order.          *)
(***************************************************************************)
EXTENDS NonceWindow

CONSTANT Nonces       \* the nonces attestations are issued with

ASSUME NoncesAssumption == Nonces \subseteq Nat

VARIABLES
  window,     \* nonce_floor and used_nonces of the operator account
  opened      \* the number of loans opened with each nonce

vars == <<window, opened>>

\* Every nonce a loan was opened with.
spent == {nonce \in Nonces : opened[nonce] > 0}

TypeOK ==
  /\ window \in WindowType
  /\ opened \in [Nonces -> Nat]

Init ==
  /\ window = NewWindow
  /\ opened = [nonce \in Nonces |-> 0]

\* A borrow that got past consume_nonce and did not fail later on.
Spend(nonce) ==
  /\ AcceptsNonce(window, nonce)
  /\ window' = ConsumeNonce(window, nonce)
  /\ opened' = [opened EXCEPT ![nonce] = @ + 1]

Next == \E nonce \in Nonces : Spend(nonce)

Spec == Init /\ [][Next]_vars

-----------------------------------------------------------------------------
\* No spent nonce lies more than a window below another one that is live.
InReach(nonce) == \A other \in spent : other < nonce + NONCE_WINDOW

\* FR-012b, both ways round: consume_nonce refuses a nonce exactly when it was
\* spent before or is NONCE_WINDOW or more below the highest one ever spent.  The
\* window forgets no spent nonce it could still be shown, and spending nonces out
\* of order refuses no attestation that is within reach.
RefusesExactlyReplays ==
  \A nonce \in Nonces :
    AcceptsNonce(window, nonce) <=> nonce \notin spent /\ InReach(nonce)

\* What the window means: the bits are the spent nonces it spans, nothing above
\* it was spent, and once it has moved it ends on the highest nonce spent.
WindowIsExact ==
  /\ \A nonce \in spent : nonce < window.nonce_floor + NONCE_WINDOW
  /\ \A bit \in 0..(NONCE_WINDOW - 1) :
       bit \in window.used_nonces <=> window.nonce_floor + bit \in spent
  /\ window.nonce_floor > 0 =>
       window.nonce_floor + NONCE_WINDOW - 1 \in spent

-----------------------------------------------------------------------------
\* What replay protection promises: an attestation opens one loan at most.
Once == INSTANCE OnceOnly

\* FR-012b: the guard implements OnceOnly, so no nonce ever opens a second loan.
ImplementsOnceOnly == Once!Spec
=============================================================================
