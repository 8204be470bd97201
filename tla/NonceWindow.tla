---------------------------- MODULE NonceWindow ----------------------------
(***************************************************************************)
(* The replay window of an operator account (consume_nonce in              *)
(* programs/reward-float/src/state/operator.rs).  The window remembers the *)
(* nonces of [nonce_floor, nonce_floor + NONCE_WINDOW); used_nonces holds  *)
(* the offsets of the spent ones.  NonceWords gives the bit array the code *)
(* stores them in.                                                         *)
(***************************************************************************)
EXTENDS Integers

CONSTANT NONCE_WINDOW

ASSUME NonceWindowAssumption == NONCE_WINDOW \in Nat \ {0}

WindowType ==
  [nonce_floor : Nat, used_nonces : SUBSET (0..(NONCE_WINDOW - 1))]

NewWindow == [nonce_floor |-> 0, used_nonces |-> {}]

\* shift_window_down: drops the lowest `by` offsets and renumbers the rest.
ShiftWindowDown(used, by) ==
  {bit \in 0..(NONCE_WINDOW - 1) : bit + by \in used}

\* Slip: the window slides one nonce too far.
ReachingPast(window, nonce) ==
  LET slide == nonce - window.nonce_floor - (NONCE_WINDOW - 1)
  IN  IF slide > 0
        THEN [ nonce_floor |-> window.nonce_floor + slide + 1,
               used_nonces |-> ShiftWindowDown(window.used_nonces, slide + 1) ]
        ELSE window

\* Slip: a window that slides starts over.
ReachingCleared(window, nonce) ==
  LET slide == nonce - window.nonce_floor - (NONCE_WINDOW - 1)
  IN  IF slide > 0
        THEN [nonce_floor |-> window.nonce_floor + slide, used_nonces |-> {}]
        ELSE window

\* The window consume_nonce looks the nonce up in: slid forward, if need be, to
\* end on it.
Reaching(window, nonce) ==
  LET offset == nonce - window.nonce_floor
      slide  == offset - (NONCE_WINDOW - 1)
  IN  IF offset >= NONCE_WINDOW
        THEN [ nonce_floor |-> window.nonce_floor + slide,
               used_nonces |-> ShiftWindowDown(window.used_nonces, slide) ]
        ELSE window

\* Slip: AttestationNonceTooOld is never raised.
AcceptsOldNonce(window, nonce) ==
  nonce - Reaching(window, nonce).nonce_floor
    \notin Reaching(window, nonce).used_nonces

\* Neither AttestationNonceTooOld nor AttestationNonceAlreadyUsed.
AcceptsNonce(window, nonce) ==
  /\ nonce >= window.nonce_floor
  /\ nonce - Reaching(window, nonce).nonce_floor
       \notin Reaching(window, nonce).used_nonces

\* Slip: the bit is tested and never set.
ConsumeNonceUnmarked(window, nonce) == Reaching(window, nonce)

ConsumeNonce(window, nonce) ==
  LET reached == Reaching(window, nonce)
  IN  [reached EXCEPT !.used_nonces = @ \union {nonce - reached.nonce_floor}]
=============================================================================
