----------------------------- MODULE NonceWords -----------------------------
(***************************************************************************)
(* consume_nonce and shift_window_down of state/operator.rs as they are    *)
(* written: the window is an array of machine words, shifted down word by  *)
(* word with a carry from the word above.                                  *)
(***************************************************************************)
EXTENDS Integers

CONSTANTS
  WORD_BITS,            \* 64 in the code
  NONCE_WINDOW_WORDS,   \* 4 in the code
  Nonces

ASSUME NonceWordsAssumption ==
  /\ WORD_BITS \in Nat \ {0}
  /\ NONCE_WINDOW_WORDS \in Nat \ {0}
  /\ Nonces \subseteq Nat

VARIABLES
  nonce_floor,
  used_nonces,
  opened          \* loans opened with each nonce; not part of the account

vars == <<nonce_floor, used_nonces, opened>>

NONCE_WINDOW == WORD_BITS * NONCE_WINDOW_WORDS

WordIndex == 0..(NONCE_WINDOW_WORDS - 1)

\* Pow2[k] is 2 to the power of k.
Pow2[k \in 0..WORD_BITS] == IF k = 0 THEN 1 ELSE 2 * Pow2[k - 1]

Word == 0..(Pow2[WORD_BITS] - 1)

BitIndex == 0..(WORD_BITS - 1)

\* The set bits of a word, numbered from the lowest.
BitsOf(word) == {k \in BitIndex : (word \div Pow2[k]) % 2 = 1}

Or(a, b) == CHOOSE word \in Word : BitsOf(word) = BitsOf(a) \union BitsOf(b)

TypeOK ==
  /\ nonce_floor \in Nat
  /\ used_nonces \in [WordIndex -> Word]
  /\ opened \in [Nonces -> Nat]

\* Bits shifted past the top of a word are lost.
ShiftLeft(word, bits) == (word * Pow2[bits]) % Pow2[WORD_BITS]

ShiftRight(word, bits) == word \div Pow2[bits]

NoBits == [i \in WordIndex |-> 0]

\* Slip: the bits that cross from one word into the next are dropped.
ShiftWordsDownWithoutCarry(words, by) ==
  [i \in WordIndex |->
     IF i + by \div WORD_BITS < NONCE_WINDOW_WORDS
       THEN ShiftRight(words[i + by \div WORD_BITS], by % WORD_BITS)
       ELSE 0]

\* shift_window_down
ShiftWordsDown(words, by) ==
  LET whole_words == by \div WORD_BITS
      bits        == by % WORD_BITS
      carry(i)    == IF bits > 0 /\ i + 1 < NONCE_WINDOW_WORDS
                       THEN ShiftLeft(words[i + 1], WORD_BITS - bits)
                       ELSE 0
  IN  IF by >= NONCE_WINDOW
        THEN NoBits
        ELSE [i \in WordIndex |->
                IF i + whole_words < NONCE_WINDOW_WORDS
                  THEN Or(ShiftRight(words[i + whole_words], bits), carry(i + whole_words))
                  ELSE 0]

Slide(nonce) ==
  LET offset == nonce - nonce_floor
  IN  IF offset >= NONCE_WINDOW THEN offset - (NONCE_WINDOW - 1) ELSE 0

Init ==
  /\ nonce_floor = 0
  /\ used_nonces = NoBits
  /\ opened = [nonce \in Nonces |-> 0]

\* consume_nonce; a refusal fails the transaction and moves nothing.
ConsumeNonce(nonce) ==
  LET floor == nonce_floor + Slide(nonce)
      words == IF Slide(nonce) > 0 THEN ShiftWordsDown(used_nonces, Slide(nonce))
                                   ELSE used_nonces
      bit   == nonce - floor
      word  == bit \div WORD_BITS
      mask  == Pow2[bit % WORD_BITS]
  IN  /\ nonce >= nonce_floor                 \* AttestationNonceTooOld
      /\ BitsOf(words[word]) \intersect BitsOf(mask) = {}    \* AttestationNonceAlreadyUsed
      /\ nonce_floor' = floor
      /\ used_nonces' = [words EXCEPT ![word] = Or(@, mask)]
      /\ opened' = [opened EXCEPT ![nonce] = @ + 1]

Next == \E nonce \in Nonces : ConsumeNonce(nonce)

Spec == Init /\ [][Next]_vars

-----------------------------------------------------------------------------
\* The set bits of the array, numbered from the lowest bit of word 0.
SetBits ==
  {bit \in 0..(NONCE_WINDOW - 1) : bit % WORD_BITS \in BitsOf(used_nonces[bit \div WORD_BITS])}

Guard == INSTANCE ReplayGuard WITH
           window <- [nonce_floor |-> nonce_floor, used_nonces |-> SetBits]

\* The bit array implements the window as a set: shifting whole words, the carry
\* between words and the shift by a multiple of the word size lose no spent nonce
\* and invent none.
ImplementsReplayGuard == Guard!Spec
=============================================================================
