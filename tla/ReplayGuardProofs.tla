------------------------- MODULE ReplayGuardProofs -------------------------
(***************************************************************************)
(* Replay protection for every window size and every set of nonces: the    *)
(* window is exact at all times, so that consume_nonce refuses replays and *)
(* nonces out of reach and nothing else, and the guard implements OnceOnly.*)
(* The array of words that the program stores implements that window, for  *)
(* every size of a word and every number of words.                         *)
(***************************************************************************)
EXTENDS ReplayGuard, ProgramLemmas

CONSTANTS WORD_BITS, NONCE_WINDOW_WORDS     \* of the stored window
VARIABLES nonce_floor, used_nonces          \* the stored window

Words == INSTANCE NonceWords

\* TypeOK and WindowIsExact together are inductive.
Inv == TypeOK /\ WindowIsExact

-----------------------------------------------------------------------------
\* Initially nothing was spent and the window starts at zero.
LEMMA InitInv == Init => Inv
BY NonceWindowAssumption
   DEF Init, Inv, TypeOK, WindowIsExact, NewWindow, WindowType, spent

\* Spending a nonce keeps the window exact.
LEMMA SpendInv ==
  ASSUME Inv, NEW nonce \in Nonces, Spend(nonce)
  PROVE  Inv'
<1> DEFINE r == Reaching(window, nonce)
<1> USE NonceWindowAssumption, NoncesAssumption
<1>1. /\ window \in WindowType /\ opened \in [Nonces -> Nat]
      /\ spent \subseteq Nat /\ nonce \in Nat
      /\ nonce >= window.nonce_floor
      /\ nonce - r.nonce_floor \notin r.used_nonces
  BY DEF Inv, TypeOK, Spend, AcceptsNonce, spent
<1>2. /\ r \in WindowType
      /\ r.nonce_floor >= window.nonce_floor
      /\ nonce - r.nonce_floor \in 0..(NONCE_WINDOW - 1)
      /\ \A bit \in 0..(NONCE_WINDOW - 1) :
           bit \in r.used_nonces
             <=> bit + (r.nonce_floor - window.nonce_floor) \in window.used_nonces
      /\ r.nonce_floor = window.nonce_floor
           \/ r.nonce_floor + NONCE_WINDOW - 1 = nonce
  BY <1>1, ReachingFacts
<1>3. /\ window' = [r EXCEPT !.used_nonces = @ \union {nonce - r.nonce_floor}]
      /\ opened' = [opened EXCEPT ![nonce] = @ + 1]
      /\ spent' = spent \union {nonce}
  BY <1>1 DEF Spend, ConsumeNonce, spent
<1> HIDE DEF r
<1>4. /\ window'.nonce_floor = r.nonce_floor
      /\ window'.used_nonces = r.used_nonces \union {nonce - r.nonce_floor}
      /\ r.nonce_floor \in Nat /\ window.nonce_floor \in Nat
      /\ window.used_nonces \subseteq 0..(NONCE_WINDOW - 1)
  BY <1>1, <1>2, <1>3 DEF WindowType
<1>5. TypeOK'
  BY <1>1, <1>2, <1>3 DEF TypeOK, WindowType
<1>6. \A k \in spent' : k < window'.nonce_floor + NONCE_WINDOW
  <2>1. \A k \in spent : k < window.nonce_floor + NONCE_WINDOW /\ k \in Nat
    BY <1>1 DEF Inv, WindowIsExact
  <2>2. QED
    BY <1>1, <1>2, <1>3, <1>4, <2>1
<1>7. ASSUME NEW bit \in 0..(NONCE_WINDOW - 1)
      PROVE  bit \in window'.used_nonces <=> window'.nonce_floor + bit \in spent'
  <2> DEFINE old == bit + (r.nonce_floor - window.nonce_floor)
  <2>1. old \in Nat /\ window.nonce_floor + old = r.nonce_floor + bit
    BY <1>2, <1>4
  <2>2. bit \in r.used_nonces <=> r.nonce_floor + bit \in spent
    <3>1. CASE old \in 0..(NONCE_WINDOW - 1)
      <4>1. old \in window.used_nonces <=> window.nonce_floor + old \in spent
        BY <3>1 DEF Inv, WindowIsExact
      <4>2. QED
        BY <4>1, <2>1, <1>2
    <3>2. CASE old \notin 0..(NONCE_WINDOW - 1)
      <4>1. old \notin window.used_nonces
        BY <3>2, <1>4
      <4>2. window.nonce_floor + old \notin spent
        BY <3>2, <2>1, <1>4 DEF Inv, WindowIsExact
      <4>3. QED
        BY <4>1, <4>2, <2>1, <1>2
    <3>3. QED
      BY <3>1, <3>2
  <2>3. bit = nonce - r.nonce_floor <=> r.nonce_floor + bit = nonce
    BY <1>1, <1>4
  <2>4. QED
    BY <1>3, <1>4, <2>2, <2>3
<1>8. window'.nonce_floor > 0 => window'.nonce_floor + NONCE_WINDOW - 1 \in spent'
  BY <1>2, <1>3, <1>4 DEF Inv, WindowIsExact
<1>9. QED
  BY <1>5, <1>6, <1>7, <1>8 DEF Inv, WindowIsExact

\* The window is exact in every reachable state.
THEOREM WindowCorrect == Spec => []Inv
<1>1. Inv /\ [Next]_vars => Inv'
  <2>1. ASSUME Inv, Next PROVE Inv'
    BY <2>1, SpendInv DEF Next
  <2>2. ASSUME Inv, UNCHANGED vars PROVE Inv'
    BY <2>2 DEF Inv, TypeOK, WindowIsExact, vars, spent
  <2>3. QED
    BY <2>1, <2>2
<1>2. QED
  BY InitInv, <1>1, PTL DEF Spec

-----------------------------------------------------------------------------
\* With an exact window, acceptance means unspent and within reach.
LEMMA InvRefuses == Inv => RefusesExactlyReplays
<1> SUFFICES ASSUME Inv, NEW nonce \in Nonces
             PROVE  AcceptsNonce(window, nonce)
                      <=> nonce \notin spent /\ InReach(nonce)
  BY DEF RefusesExactlyReplays
<1> USE NonceWindowAssumption, NoncesAssumption
<1> DEFINE f == window.nonce_floor
<1>1. /\ window \in WindowType /\ f \in Nat /\ nonce \in Nat
      /\ window.used_nonces \subseteq 0..(NONCE_WINDOW - 1)
      /\ \A k \in spent : k \in Nat /\ k < f + NONCE_WINDOW
      /\ f > 0 => f + NONCE_WINDOW - 1 \in spent
  BY DEF Inv, TypeOK, WindowType, WindowIsExact, spent
<1>2. CASE nonce < f
  <2>1. ~InReach(nonce)
    BY <1>1, <1>2 DEF InReach
  <2>2. ~AcceptsNonce(window, nonce)
    BY <1>1, <1>2 DEF AcceptsNonce
  <2>3. QED
    BY <2>1, <2>2
<1>3. CASE nonce >= f
  <2> DEFINE r == Reaching(window, nonce)
  <2>1. /\ nonce - r.nonce_floor \in 0..(NONCE_WINDOW - 1)
        /\ r.nonce_floor >= f /\ r.nonce_floor \in Nat
        /\ \A bit \in 0..(NONCE_WINDOW - 1) :
             bit \in r.used_nonces
               <=> bit + (r.nonce_floor - f) \in window.used_nonces
    BY <1>1, <1>3, ReachingFacts DEF WindowType
  <2> HIDE DEF r
  <2>2. nonce - r.nonce_floor \in r.used_nonces <=> nonce - f \in window.used_nonces
    <3>1. (nonce - r.nonce_floor) + (r.nonce_floor - f) = nonce - f
      BY <1>1, <2>1
    <3>2. QED
      BY <2>1, <3>1
  <2>3. nonce - f \in window.used_nonces <=> nonce \in spent
    <3>1. CASE nonce - f \in 0..(NONCE_WINDOW - 1)
      <4>1. nonce - f \in window.used_nonces <=> f + (nonce - f) \in spent
        BY <3>1 DEF Inv, WindowIsExact
      <4>2. f + (nonce - f) = nonce
        BY <1>1
      <4>3. QED
        BY <4>1, <4>2
    <3>2. CASE nonce - f \notin 0..(NONCE_WINDOW - 1)
      BY <1>1, <1>3, <3>2
    <3>3. QED
      BY <3>1, <3>2
  <2>4. InReach(nonce)
    BY <1>1, <1>3 DEF InReach
  <2>5. AcceptsNonce(window, nonce) <=> nonce - r.nonce_floor \notin r.used_nonces
    BY <1>3 DEF AcceptsNonce, r
  <2>6. QED
    BY <2>2, <2>3, <2>4, <2>5
<1>4. QED
  BY <1>1, <1>2, <1>3

\* For every window size: a bit of used_nonces is set exactly when its nonce was
\* spent, and nothing spent lies above the window, however far the floor slid.
THEOREM WindowExact == Spec => []WindowIsExact
<1>1. Inv => WindowIsExact
  BY DEF Inv
<1>2. QED
  BY WindowCorrect, <1>1, PTL

\* FR-012b for every window size: consume_nonce refuses a nonce exactly when it
\* was spent before or lies a whole window below the highest one spent.
THEOREM ReplaysRefused == Spec => []RefusesExactlyReplays
BY WindowCorrect, InvRefuses, PTL

\* The window implements the promise that a nonce opens at most one loan.
THEOREM OnceOnlyImplemented == Spec => ImplementsOnceOnly
<1>1. Init => Once!Init
  BY DEF Init, Once!Init
<1>2. Inv /\ [Next]_vars => [Once!Next]_opened
  <2>1. ASSUME Inv, NEW nonce \in Nonces, Spend(nonce)
        PROVE  Once!Spend(nonce)
    <3>1. nonce \notin spent /\ opened \in [Nonces -> Nat]
      BY <2>1, InvRefuses DEF RefusesExactlyReplays, Spend, Inv, TypeOK
    <3>2. opened[nonce] = 0
      BY <2>1, <3>1 DEF spent
    <3>3. QED
      BY <2>1, <3>2 DEF Spend, Once!Spend
  <2>2. ASSUME UNCHANGED vars PROVE UNCHANGED opened
    BY <2>2 DEF vars
  <2>3. QED
    BY <2>1, <2>2 DEF Next, Once!Next
<1>3. QED
  BY WindowCorrect, <1>1, <1>2, PTL DEF Spec, ImplementsOnceOnly, Once!Spec
-----------------------------------------------------------------------------
(***************************************************************************)
(* The window as it is stored.  Shifts are products and quotients by       *)
(* powers of two; what they do to the bits of a word follows from the laws *)
(* of division.                                                            *)
(***************************************************************************)
Sizes == WORD_BITS \in Nat \ {0} /\ NONCE_WINDOW_WORDS \in Nat \ {0}

\* Quotient and remainder are unique.
LEMMA Quotient ==
  ASSUME NEW b \in Nat \ {0}, NEW q \in Nat, NEW r \in 0..(b - 1)
  PROVE  (q * b + r) \div b = q /\ (q * b + r) % b = r
<1> DEFINE a == q * b + r
           p == a \div b
           s == a % b
<1>1. q * b \in Nat /\ a \in Nat /\ a = q * b + r
  BY Multiply
<1> HIDE DEF a
<1>2. p \in Nat /\ s \in 0..(b - 1) /\ a = p * b + s /\ p * b \in Nat
  BY <1>1, DivMod, Division
<1> HIDE DEF p, s
<1>3. p <= q
  <2>1. ASSUME q + 1 <= p PROVE FALSE
    <3>1. (q + 1) * b <= p * b /\ (q + 1) * b = q * b + b
      BY <1>2, <2>1, Multiply
    <3>2. QED
      BY <1>1, <1>2, <3>1
  <2>2. QED
    BY <1>2, <2>1
<1>4. q <= p
  <2>1. ASSUME p + 1 <= q PROVE FALSE
    <3>1. (p + 1) * b <= q * b /\ (p + 1) * b = p * b + b
      BY <1>2, <2>1, Multiply
    <3>2. QED
      BY <1>1, <1>2, <3>1
  <2>2. QED
    BY <1>2, <2>1
<1>5. p = q
  BY <1>2, <1>3, <1>4
<1>6. s = r
  BY <1>1, <1>2, <1>5
<1>7. QED
  BY <1>5, <1>6 DEF a, p, s

\* Dividing twice is dividing by the product.
LEMMA DividedTwice ==
  ASSUME NEW a \in Nat, NEW b \in Nat \ {0}, NEW c \in Nat \ {0}
  PROVE  (a \div b) \div c = a \div (b * c) /\ b * c \in Nat \ {0}
<1> DEFINE q == a \div b
           r == a % b
           p == q \div c
           s == q % c
<1>1. /\ q \in Nat /\ r \in 0..(b - 1) /\ a = q * b + r
      /\ p \in Nat /\ s \in 0..(c - 1) /\ q = p * c + s
  BY DivMod, Division
<1> HIDE DEF q, r, p, s
<1>2. b * c \in Nat \ {0}
  <2>1. 1 * c <= b * c /\ 1 * c = c /\ b * c \in Nat
    BY Multiply
  <2>2. QED
    BY <2>1
<1>3. a = p * (b * c) + (s * b + r)
  <2>1. q * b = (p * c) * b + s * b /\ p * c \in Nat
    BY <1>1, Multiply
  <2>2. (p * c) * b = p * (c * b) /\ c * b = b * c
    BY <1>1, Multiply
  <2>3. (p * c) * b \in Nat /\ s * b \in Nat /\ p * (b * c) \in Nat
    BY <1>1, <1>2, <2>1, Multiply
  <2>4. QED
    BY <1>1, <2>1, <2>2, <2>3
<1>4. s * b + r \in 0..(b * c - 1)
  <2>1. (s + 1) * b <= c * b /\ c * b = b * c /\ (s + 1) * b = s * b + b /\ s * b \in Nat
    BY <1>1, Multiply
  <2>2. QED
    BY <1>1, <1>2, <2>1
<1> DEFINE d == b * c
           t == s * b + r
<1>5. d \in Nat \ {0} /\ t \in 0..(d - 1) /\ a = p * d + t
  BY <1>2, <1>3, <1>4
<1> HIDE DEF d, t
<1>6. a \div d = p
  BY <1>1, <1>5, Quotient
<1>7. QED
  BY <1>2, <1>6 DEF d, p, q

\* A multiple of the divisor adds its factor.
LEMMA DividedSum ==
  ASSUME NEW a \in Nat, NEW q \in Nat, NEW b \in Nat \ {0}
  PROVE  (q * b + a) \div b = q + (a \div b)
<1> DEFINE p == a \div b
           r == a % b
<1>1. p \in Nat /\ r \in 0..(b - 1) /\ a = p * b + r
  BY DivMod, Division
<1> HIDE DEF p, r
<1>2. q * b + a = (q + p) * b + r /\ q + p \in Nat
  <2>1. (q + p) * b = q * b + p * b /\ q * b \in Nat /\ p * b \in Nat
    BY <1>1, Multiply
  <2>2. QED
    BY <1>1, <2>1
<1> DEFINE n == q + p
<1>3. n \in Nat /\ q * b + a = n * b + r
  BY <1>2
<1> HIDE DEF n
<1>4. (q * b + a) \div b = n
  BY <1>1, <1>3, Quotient
<1>5. QED
  BY <1>4 DEF n, p
-----------------------------------------------------------------------------
(* Powers of two. *)

Power == Words!Pow2

\* What the first powers of two are.
Powers(f, n) == f = [k \in 0..n |-> IF k = 0 THEN 1 ELSE 2 * f[k - 1]]

\* There are powers of two as far as one likes.
LEMMA PowersExist == ASSUME NEW n \in Nat PROVE \E f : Powers(f, n)
<1> DEFINE Good == {k \in 0..n : \E f : Powers(f, k)}
<1>1. 0 \in Good
  <2> DEFINE f == [k \in 0..0 |-> 1]
  <2>1. Powers(f, 0)
    BY DEF Powers
  <2>2. QED
    BY <2>1
<1>2. ASSUME NEW k \in 1..n, k - 1 \in Good PROVE k \in Good
  <2>1. PICK g : Powers(g, k - 1)
    BY <1>2
  <2> DEFINE S(i) == IF i = k THEN 2 * g[k - 1] ELSE g[i]
             f == [i \in 0..k |-> S(i)]
  <2>2. ASSUME NEW i \in 0..k PROVE S(i) = IF i = 0 THEN 1 ELSE 2 * f[i - 1]
    <3>1. CASE i = k
      <4>1. f[i - 1] = g[k - 1] /\ i # 0
        BY <3>1
      <4> HIDE DEF f
      <4>2. QED
        BY <3>1, <4>1
    <3>2. CASE i # k
      <4>1. i \in 0..(k - 1) /\ (i # 0 => i - 1 \in 0..k /\ i - 1 # k)
        BY <3>2
      <4>2. g[i] = IF i = 0 THEN 1 ELSE 2 * g[i - 1]
        BY <2>1, <4>1 DEF Powers
      <4>3. i # 0 => f[i - 1] = g[i - 1]
        BY <4>1
      <4> HIDE DEF f
      <4>4. QED
        BY <3>2, <4>2, <4>3
    <3>3. QED
      BY <3>1, <3>2
  <2>3. Powers(f, k)
    <3>1. f = [i \in 0..k |-> S(i)]
      OBVIOUS
    <3> HIDE DEF S, f
    <3>2. QED
      BY <2>2, <3>1 DEF Powers
  <2> HIDE DEF f
  <2>4. QED
    BY <2>3
<1>3. \A k \in 0..n : k \in Good
  <2> HIDE DEF Good
  <2>1. QED
    BY <1>1, <1>2, CountingInduction
<1>4. QED
  BY <1>3

\* Each power of two is a positive number and twice the one before.
LEMMA PowerFacts ==
  ASSUME Sizes
  PROVE  /\ Power[0] = 1
         /\ \A k \in 1..WORD_BITS : Power[k] = 2 * Power[k - 1]
         /\ \A k \in 0..WORD_BITS : Power[k] \in Nat \ {0}
<1>1. Powers(Power, WORD_BITS)
  <2>1. WORD_BITS \in Nat /\ \E f : Powers(f, WORD_BITS)
    BY PowersExist DEF Sizes
  <2>2. Power = CHOOSE f : Powers(f, WORD_BITS)
    BY DEF Power, Words!Pow2, Powers
  <2>3. QED
    BY <2>1, <2>2
<1> HIDE DEF Power
<1>2. Power[0] = 1 /\ \A k \in 1..WORD_BITS : Power[k] = 2 * Power[k - 1]
  BY <1>1 DEF Powers, Sizes
<1> DEFINE Good == {k \in 0..WORD_BITS : Power[k] \in Nat \ {0}}
<1>3. 0 \in Good
  BY <1>2 DEF Sizes
<1>4. ASSUME NEW k \in 1..WORD_BITS, k - 1 \in Good PROVE k \in Good
  BY <1>2, <1>4 DEF Sizes
<1>5. \A k \in 0..WORD_BITS : k \in Good
  <2> HIDE DEF Good
  <2>1. QED
    BY <1>3, <1>4, CountingInduction DEF Sizes
<1>6. QED
  BY <1>2, <1>5

\* The power of a sum is the product of the powers.
LEMMA PowerSum ==
  ASSUME Sizes, NEW a \in 0..WORD_BITS, NEW b \in 0..WORD_BITS, a + b <= WORD_BITS
  PROVE  Power[a + b] = Power[a] * Power[b]
<1> DEFINE Good == {k \in 0..(WORD_BITS - b) : Power[k + b] = Power[k] * Power[b]}
<1>1. 0 \in Good
  BY PowerFacts DEF Sizes
<1>2. ASSUME NEW k \in 1..(WORD_BITS - b), k - 1 \in Good PROVE k \in Good
  <2>1. /\ k + b \in 1..WORD_BITS /\ k \in 1..WORD_BITS
        /\ k - 1 \in 0..WORD_BITS /\ (k + b) - 1 = (k - 1) + b
    BY DEF Sizes
  <2>2. /\ Power[k + b] = 2 * Power[(k - 1) + b] /\ Power[k] = 2 * Power[k - 1]
        /\ Power[k - 1] \in Nat /\ Power[b] \in Nat
    BY <2>1, PowerFacts
  <2>3. Power[(k - 1) + b] = Power[k - 1] * Power[b]
    BY <1>2
  <2> HIDE DEF Power
  <2>4. (2 * Power[k - 1]) * Power[b] = 2 * (Power[k - 1] * Power[b])
    BY <2>2, Multiply
  <2>5. QED
    BY <2>2, <2>3, <2>4
<1>3. \A k \in 0..(WORD_BITS - b) : k \in Good
  <2>1. WORD_BITS - b \in Nat
    BY DEF Sizes
  <2> HIDE DEF Good
  <2>2. QED
    BY <1>1, <1>2, <2>1, CountingInduction
<1>4. a \in 0..(WORD_BITS - b)
  BY DEF Sizes
<1>5. QED
  BY <1>3, <1>4
-----------------------------------------------------------------------------
(* The bits of a word. *)

\* A multiple of two leaves the lowest bit alone.
LEMMA SameParity == ASSUME NEW a \in Nat, NEW b \in Nat PROVE (2 * a + b) % 2 = b % 2
OBVIOUS

\* Powers of two split and grow.
LEMMA PowerSplit ==
  ASSUME Sizes, NEW k \in 0..WORD_BITS, NEW n \in 0..WORD_BITS, k <= n
  PROVE  /\ Power[n] = Power[n - k] * Power[k]
         /\ Power[k] <= Power[n]
         /\ k < n => n - k \in 1..WORD_BITS /\ Power[n - k] = 2 * Power[n - k - 1]
<1>1. n - k \in 0..WORD_BITS /\ (n - k) + k = n /\ (n - k) + k <= WORD_BITS
  BY DEF Sizes
<1>2. Power[(n - k) + k] = Power[n - k] * Power[k]
  BY <1>1, PowerSum
<1>3. Power[n - k] \in Nat \ {0} /\ Power[k] \in Nat \ {0}
  BY <1>1, PowerFacts
<1>4. k < n => n - k \in 1..WORD_BITS /\ Power[n - k] = 2 * Power[n - k - 1]
  BY <1>1, PowerFacts DEF Sizes
<1> HIDE DEF Power
<1>5. 1 * Power[k] <= Power[n - k] * Power[k]
  BY <1>3, Multiply
<1>6. QED
  BY <1>1, <1>2, <1>3, <1>4, <1>5

\* A right shift moves the bits down.
LEMMA ShiftedRight ==
  ASSUME Sizes, NEW w \in Words!Word, NEW s \in 0..WORD_BITS
  PROVE  /\ Words!ShiftRight(w, s) \in Nat
         /\ \A k \in Words!BitIndex :
              k \in Words!BitsOf(Words!ShiftRight(w, s))
                <=> k + s < WORD_BITS /\ k + s \in Words!BitsOf(w)
<1> DEFINE q == w \div Power[s]
<1>1. /\ WORD_BITS \in 0..WORD_BITS /\ WORD_BITS \in Nat
      /\ w \in Nat /\ w < Power[WORD_BITS] /\ Power[WORD_BITS] \in Nat
  BY PowerFacts DEF Sizes, Words!Word, Power
<1>2. Power[s] \in Nat \ {0}
  BY PowerFacts
<1>3. q \in Nat /\ q * Power[s] \in Nat /\ q * Power[s] <= w /\ Words!ShiftRight(w, s) = q
  BY <1>1, <1>2, DivMod, Division DEF Words!ShiftRight, Power
<1>4. ASSUME NEW k \in Words!BitIndex, k + s < WORD_BITS
      PROVE  q \div Power[k] = w \div Power[k + s]
  <2>1. k \in 0..WORD_BITS /\ s + k <= WORD_BITS /\ s + k = k + s
    BY <1>1, <1>4 DEF Words!BitIndex
  <2>2. Power[s + k] = Power[s] * Power[k] /\ Power[k] \in Nat \ {0}
    BY <2>1, PowerSum, PowerFacts
  <2> HIDE DEF Power
  <2>3. q \div Power[k] = w \div (Power[s] * Power[k])
    BY <1>1, <1>2, <2>2, DividedTwice
  <2>4. QED
    BY <2>1, <2>2, <2>3
<1>5. ASSUME NEW k \in Words!BitIndex, ~(k + s < WORD_BITS)
      PROVE  q \div Power[k] = 0
  <2>1. /\ WORD_BITS - s \in 0..WORD_BITS /\ k \in 0..WORD_BITS
        /\ WORD_BITS - s <= k
    BY <1>1, <1>5 DEF Words!BitIndex
  <2>2. /\ Power[WORD_BITS] = Power[WORD_BITS - s] * Power[s]
        /\ Power[WORD_BITS - s] <= Power[k]
        /\ Power[WORD_BITS - s] \in Nat /\ Power[k] \in Nat \ {0}
    BY <1>1, <2>1, PowerSplit, PowerFacts
  <2> HIDE DEF Power
  <2>3. q < Power[WORD_BITS - s]
    <3> DEFINE p == Power[WORD_BITS - s]
    <3>1. ASSUME p <= q PROVE FALSE
      <4>1. p * Power[s] <= q * Power[s]
        BY <1>2, <1>3, <2>2, <3>1, Multiply
      <4> HIDE DEF q
      <4>2. QED
        BY <1>1, <1>3, <2>2, <4>1
    <3> HIDE DEF q
    <3>2. QED
      BY <1>3, <2>2, <3>1
  <2> HIDE DEF q
  <2> DEFINE P == Power[k]
  <2>4. q \in 0..(P - 1) /\ P \in Nat \ {0}
    BY <1>3, <2>2, <2>3
  <2> HIDE DEF P
  <2>5. (0 * P + q) \div P = 0 /\ 0 * P + q = q
    BY <1>3, <2>4, Quotient
  <2>6. QED
    BY <2>5 DEF P
<1> HIDE DEF q
<1>6. ASSUME NEW k \in Words!BitIndex
      PROVE  k \in Words!BitsOf(q) <=> k + s < WORD_BITS /\ k + s \in Words!BitsOf(w)
  <2>1. CASE k + s < WORD_BITS
    <3>1. k + s \in Words!BitIndex
      BY <1>1, <2>1 DEF Words!BitIndex
    <3>2. q \div Power[k] = w \div Power[k + s]
      BY <1>4, <2>1
    <3>3. QED
      BY <2>1, <3>1, <3>2 DEF Words!BitsOf, Power
  <2>2. CASE ~(k + s < WORD_BITS)
    <3>1. q \div Power[k] = 0
      BY <1>5, <2>2
    <3>2. k \notin Words!BitsOf(q)
      <4>1. k \in Words!BitsOf(q) => 0 % 2 = 1
        BY <3>1 DEF Words!BitsOf, Power
      <4>2. QED
        BY <4>1
    <3>3. QED
      BY <2>2, <3>2
  <2>3. QED
    BY <2>1, <2>2
<1>7. QED
  BY <1>3, <1>6

\* A left shift moves the bits up.
LEMMA ShiftedLeft ==
  ASSUME Sizes, NEW w \in Words!Word, NEW s \in 0..WORD_BITS
  PROVE  /\ Words!ShiftLeft(w, s) \in Nat
         /\ \A k \in Words!BitIndex :
              k \in Words!BitsOf(Words!ShiftLeft(w, s)) <=> k >= s /\ k - s \in Words!BitsOf(w)
<1> DEFINE x == w * Power[s]
           W == Power[WORD_BITS]
           q == x \div W
           y == x % W
<1>1. WORD_BITS \in 0..WORD_BITS /\ WORD_BITS \in Nat /\ w \in Nat
  BY PowerFacts DEF Sizes, Words!Word, Power
<1>2. Power[s] \in Nat \ {0} /\ W \in Nat \ {0} /\ x \in Nat /\ x = w * Power[s]
  <2>1. Power[s] \in Nat \ {0} /\ W \in Nat \ {0}
    BY <1>1, PowerFacts
  <2> HIDE DEF Power
  <2>2. QED
    BY <1>1, <2>1, Multiply
<1>3. Words!ShiftLeft(w, s) = y
  BY DEF Words!ShiftLeft, Power
<1> HIDE DEF x
<1>4. q \in Nat /\ y \in Nat /\ x = q * W + y
  <2>1. x \in Nat /\ W \in Nat \ {0}
    BY <1>2
  <2> HIDE DEF W
  <2>2. q \in Nat /\ y \in Nat
    <3>1. x \div W \in Nat /\ x % W \in 0..(W - 1)
      BY <2>1, DivMod
    <3>2. \A n \in 0..(W - 1) : n \in Nat
      BY <2>1
    <3>3. QED
      BY <3>1, <3>2
  <2>3. x = q * W + y
    BY <2>1, Division
  <2>4. QED
    BY <2>2, <2>3
<1>5. ASSUME NEW k \in Words!BitIndex
      PROVE  (x \div Power[k]) % 2 = (y \div Power[k]) % 2
  <2> DEFINE h == Power[WORD_BITS - k - 1]
  <2>1. /\ k \in 0..WORD_BITS /\ k < WORD_BITS /\ k <= WORD_BITS
        /\ WORD_BITS - k - 1 \in 0..WORD_BITS
    BY <1>1 DEF Words!BitIndex
  <2>2. /\ W = Power[WORD_BITS - k] * Power[k]
        /\ Power[WORD_BITS - k] = 2 * h
        /\ h \in Nat /\ Power[k] \in Nat \ {0}
    BY <1>1, <2>1, PowerSplit, PowerFacts
  <2> HIDE DEF Power, W, h, q, y
  <2>3. q * W = (q * (2 * h)) * Power[k]
    BY <1>4, <2>2, Multiply
  <2>4. q * (2 * h) = 2 * (q * h) /\ q * h \in Nat /\ 2 * (q * h) \in Nat
    BY <1>4, <2>2, Multiply
  <2> DEFINE n == 2 * (q * h)
  <2>5. x = n * Power[k] + y /\ n \in Nat
    BY <1>4, <2>3, <2>4
  <2> HIDE DEF n
  <2>6. x \div Power[k] = n + (y \div Power[k]) /\ y \div Power[k] \in Nat
    <3> DEFINE P == Power[k]
    <3>1. P \in Nat \ {0} /\ y \in Nat /\ n \in Nat /\ x = n * P + y
      BY <1>4, <2>2, <2>5
    <3> HIDE DEF P
    <3>2. (n * P + y) \div P = n + (y \div P) /\ y \div P \in Nat
      BY <3>1, DividedSum, DivMod
    <3>3. QED
      BY <3>1, <3>2 DEF P
  <2>7. (n + (y \div Power[k])) % 2 = (y \div Power[k]) % 2
    BY <2>4, <2>6, SameParity DEF n
  <2>8. QED
    BY <2>6, <2>7
<1> HIDE DEF q, y, W
<1>6. ASSUME NEW k \in Words!BitIndex, k >= s PROVE x \div Power[k] = w \div Power[k - s]
  <2>1. /\ k \in 0..WORD_BITS /\ k - s \in 0..WORD_BITS /\ s + (k - s) = k
        /\ s + (k - s) <= WORD_BITS
    BY <1>1, <1>6 DEF Words!BitIndex
  <2>2. Power[s + (k - s)] = Power[s] * Power[k - s] /\ Power[k - s] \in Nat \ {0}
    BY <2>1, PowerSum, PowerFacts
  <2> HIDE DEF Power
  <2> DEFINE P == Power[s]
  <2>3. P \in Nat \ {0} /\ x = w * P + 0 /\ 0 \in 0..(P - 1)
    BY <1>1, <1>2
  <2> HIDE DEF P
  <2>4. x \div P = w
    BY <1>1, <2>3, Quotient
  <2>5. (x \div P) \div Power[k - s] = x \div (P * Power[k - s])
    BY <1>2, <2>2, <2>3, DividedTwice
  <2>6. QED
    BY <2>1, <2>2, <2>4, <2>5 DEF P
<1>7. ASSUME NEW k \in Words!BitIndex, ~(k >= s) PROVE (x \div Power[k]) % 2 = 0
  <2> DEFINE h == Power[s - k - 1]
  <2>1. /\ k \in 0..WORD_BITS /\ k < s /\ k <= s
        /\ s - k - 1 \in 0..WORD_BITS
    BY <1>1, <1>7 DEF Words!BitIndex
  <2>2. /\ Power[s] = Power[s - k] * Power[k]
        /\ Power[s - k] = 2 * h
        /\ h \in Nat /\ Power[k] \in Nat \ {0}
    BY <1>1, <2>1, PowerSplit, PowerFacts
  <2> HIDE DEF Power, h
  <2>3. w * Power[s] = (w * (2 * h)) * Power[k]
    BY <1>1, <2>2, Multiply
  <2>4. w * (2 * h) = 2 * (w * h) /\ w * h \in Nat /\ 2 * (w * h) \in Nat
    BY <1>1, <2>2, Multiply
  <2> DEFINE n == 2 * (w * h)
             P == Power[k]
  <2>5. x = n * P + 0 /\ n \in Nat /\ P \in Nat \ {0} /\ 0 \in 0..(P - 1)
    <3>1. n \in Nat /\ n * P \in Nat
      BY <2>2, <2>4, Multiply
    <3>2. QED
      BY <1>2, <2>2, <2>3, <2>4, <3>1
  <2> HIDE DEF n, P
  <2>6. x \div P = n
    BY <2>5, Quotient
  <2>7. n % 2 = 0
    BY <2>4 DEF n
  <2>8. QED
    BY <2>6, <2>7 DEF P
<1>8. ASSUME NEW k \in Words!BitIndex
      PROVE  k \in Words!BitsOf(y) <=> k >= s /\ k - s \in Words!BitsOf(w)
  <2>1. k \in Words!BitsOf(y) <=> (x \div Power[k]) % 2 = 1
    BY <1>5 DEF Words!BitsOf, Power
  <2>2. CASE k >= s
    <3>1. k - s \in Words!BitIndex
      BY <1>1, <2>2 DEF Words!BitIndex
    <3>2. x \div Power[k] = w \div Power[k - s]
      BY <1>6, <2>2
    <3>3. QED
      BY <2>1, <2>2, <3>1, <3>2 DEF Words!BitsOf, Power
  <2>3. CASE ~(k >= s)
    BY <1>7, <2>1, <2>3
  <2>4. QED
    BY <2>2, <2>3
<1>9. QED
  BY <1>3, <1>4, <1>8
\* No bit of zero is set, and one of a power of two.
LEMMA SingleBits ==
  ASSUME Sizes
  PROVE  /\ 0 \in Words!Word /\ Words!BitsOf(0) = {}
         /\ \A j \in Words!BitIndex : Power[j] \in Words!Word /\ Words!BitsOf(Power[j]) = {j}
<1>1. WORD_BITS \in 0..WORD_BITS /\ WORD_BITS \in Nat \ {0} /\ Words!BitIndex \subseteq 0..WORD_BITS
  BY DEF Sizes, Words!BitIndex
<1>2. \A k \in 0..WORD_BITS : Power[k] \in Nat \ {0}
  BY PowerFacts
<1>3. 0 \in Words!Word
  BY <1>1, <1>2 DEF Words!Word, Power
<1>4. Words!BitsOf(0) = {}
  <2>1. ASSUME NEW k \in Words!BitIndex PROVE (0 \div Power[k]) % 2 # 1
    <3> DEFINE P == Power[k]
    <3>1. P \in Nat \ {0}
      BY <1>1, <1>2
    <3> HIDE DEF P
    <3>2. 0 \div P = 0
      BY <3>1
    <3>3. QED
      BY <3>2 DEF P
  <2>2. QED
    BY <2>1 DEF Words!BitsOf, Power
<1>5. ASSUME NEW j \in Words!BitIndex
      PROVE  Power[j] \in Words!Word /\ Words!BitsOf(Power[j]) = {j}
  <2>1. j \in 0..WORD_BITS /\ j < WORD_BITS /\ j \in Nat
    BY <1>1 DEF Words!BitIndex
  <2>2. Power[j] \in Words!Word
    <3>1. /\ Power[WORD_BITS] = Power[WORD_BITS - j] * Power[j]
          /\ Power[WORD_BITS - j] = 2 * Power[WORD_BITS - j - 1]
          /\ Power[WORD_BITS - j - 1] \in Nat \ {0} /\ Power[j] \in Nat \ {0}
          /\ Power[WORD_BITS] \in Nat
      <4>1. WORD_BITS - j - 1 \in 0..WORD_BITS
        BY <1>1, <2>1
      <4>2. QED
        BY <1>1, <1>2, <2>1, <4>1, PowerSplit
    <3> HIDE DEF Power
    <3>2. 2 * Power[j] <= Power[WORD_BITS - j] * Power[j]
      BY <3>1, Multiply
    <3>3. Power[j] < Power[WORD_BITS]
      BY <3>1, <3>2
    <3>4. QED
      BY <3>1, <3>3 DEF Words!Word, Power
  <2>3. ASSUME NEW k \in Words!BitIndex PROVE (Power[j] \div Power[k]) % 2 = 1 <=> k = j
    <3> DEFINE P == Power[k]
               Q == Power[j]
    <3>1. k \in 0..WORD_BITS /\ P \in Nat \ {0} /\ Q \in Nat \ {0} /\ k \in Nat
      BY <1>1, <1>2, <2>1
    <3>2. CASE k = j
      <4>1. P = Q
        BY <3>2
      <4> HIDE DEF P, Q
      <4>2. Q \div P = 1
        <5>1. Q = 1 * P + 0 /\ 0 \in 0..(P - 1)
          BY <3>1, <4>1
        <5>2. QED
          BY <3>1, <5>1, Quotient
      <4>3. QED
        BY <3>2, <4>2 DEF P, Q
    <3>3. CASE k < j
      <4> DEFINE h == Power[j - k - 1]
      <4>1. Q = Power[j - k] * P /\ Power[j - k] = 2 * h /\ h \in Nat
        <5>1. j - k - 1 \in 0..WORD_BITS /\ k <= j /\ k < j
          <6>1. j \in 0..WORD_BITS /\ k \in 0..WORD_BITS /\ k < j
            BY <2>1, <3>1, <3>3
          <6>2. QED
            BY <1>1, <6>1
        <5>2. h \in Nat \ {0}
          BY <1>2, <5>1
        <5>3. /\ Power[j] = Power[j - k] * Power[k]
              /\ Power[j - k] = 2 * Power[j - k - 1]
          BY <2>1, <3>1, <5>1, PowerSplit
        <5>4. QED
          BY <5>2, <5>3
      <4> HIDE DEF P, Q, h, Power
      <4>2. Q = (2 * h) * P + 0 /\ 0 \in 0..(P - 1) /\ 2 * h \in Nat
        BY <3>1, <4>1
      <4>3. Q \div P = 2 * h
        BY <3>1, <4>2, Quotient
      <4>4. (Q \div P) % 2 = 0
        BY <4>1, <4>3
      <4>5. QED
        BY <2>1, <3>1, <3>3, <4>4 DEF P, Q
    <3>4. CASE j < k
      <4> DEFINE h == Power[k - j - 1]
      <4>1. P = Power[k - j] * Q /\ Power[k - j] = 2 * h /\ h \in Nat \ {0}
        <5>1. k - j - 1 \in 0..WORD_BITS /\ j <= k /\ j < k
          <6>1. j \in 0..WORD_BITS /\ k \in 0..WORD_BITS /\ j < k
            BY <2>1, <3>1, <3>4
          <6>2. QED
            BY <1>1, <6>1
        <5>2. h \in Nat \ {0}
          BY <1>2, <5>1
        <5>3. /\ Power[k] = Power[k - j] * Power[j]
              /\ Power[k - j] = 2 * Power[k - j - 1]
          BY <2>1, <3>1, <5>1, PowerSplit
        <5>4. QED
          BY <5>2, <5>3
      <4> HIDE DEF P, Q, h, Power
      <4>2. 2 * Q <= (2 * h) * Q
        BY <3>1, <4>1, Multiply
      <4>3. Q \in 0..(P - 1) /\ Q = 0 * P + Q
        BY <3>1, <4>1, <4>2
      <4>4. Q \div P = 0
        BY <3>1, <4>3, Quotient
      <4>5. QED
        BY <2>1, <3>1, <3>4, <4>4 DEF P, Q
    <3>5. QED
      BY <2>1, <3>1, <3>2, <3>3, <3>4
  <2>4. QED
    BY <2>2, <2>3 DEF Words!BitsOf, Power
<1>6. QED
  BY <1>3, <1>4, <1>5

\* Every set of bits is the bits of a word.
LEMMA WordWithBits ==
  ASSUME Sizes, NEW S \in SUBSET Words!BitIndex
  PROVE  \E w \in Words!Word : Words!BitsOf(w) = S
<1> DEFINE HasBits(w, n) ==
             /\ w \in 0..(Power[n] - 1)
             /\ \A k \in 0..(n - 1) : (w \div Power[k]) % 2 = 1 <=> k \in S
           Good == {n \in 0..WORD_BITS : \E w : HasBits(w, n)}
<1>1. WORD_BITS \in Nat \ {0} /\ WORD_BITS \in 0..WORD_BITS
  BY DEF Sizes
<1>2. Power[0] = 1 /\ \A k \in 0..WORD_BITS : Power[k] \in Nat \ {0}
  BY PowerFacts
<1>3. 0 \in Good
  <2>1. HasBits(0, 0)
    BY <1>2
  <2>2. QED
    BY <1>1, <2>1
<1>4. ASSUME NEW n \in 1..WORD_BITS, n - 1 \in Good PROVE n \in Good
  <2> DEFINE P == Power[n - 1]
  <2>1. PICK w : HasBits(w, n - 1)
    BY <1>4
  <2>2. /\ n - 1 \in 0..WORD_BITS /\ n \in 0..WORD_BITS /\ n \in Nat
        /\ Power[n] = 2 * P /\ P \in Nat \ {0}
        /\ w \in 0..(P - 1)
    BY <1>1, <1>2, <2>1, PowerFacts
  <2> DEFINE v == IF n - 1 \in S THEN 1 * P + w ELSE w
  <2>3. v \in 0..(Power[n] - 1)
    <3> HIDE DEF P, Power
    <3>1. QED
      BY <2>2
  <2>4. ASSUME NEW k \in 0..(n - 1) PROVE (v \div Power[k]) % 2 = 1 <=> k \in S
    <3>1. CASE k = n - 1
      <4>1. (1 * P + w) \div P = 1 /\ (0 * P + w) \div P = 0 /\ 0 * P + w = w
        <5> HIDE DEF P, Power
        <5>1. QED
          BY <2>2, Quotient
      <4>2. v \div P = IF n - 1 \in S THEN 1 ELSE 0
        <5>1. CASE n - 1 \in S
          BY <4>1, <5>1
        <5>2. CASE n - 1 \notin S
          BY <4>1, <5>2
        <5>3. QED
          BY <5>1, <5>2
      <4> HIDE DEF v
      <4>3. QED
        BY <3>1, <4>2
    <3>2. CASE k # n - 1
      <4>1. /\ k \in 0..(n - 2) /\ k \in 0..((n - 1) - 1) /\ k \in 0..WORD_BITS
            /\ k < n - 1 /\ k <= n - 1 /\ n - 1 - k - 1 \in 0..WORD_BITS
        <5>1. k \in 0..(n - 1) /\ n \in 1..WORD_BITS /\ WORD_BITS \in Nat /\ k # n - 1
          BY <1>1, <3>2
        <5>2. QED
          BY <5>1
      <4>2. (w \div Power[k]) % 2 = 1 <=> k \in S
        BY <2>1, <4>1
      <4> DEFINE h == Power[n - 1 - k - 1]
                 K == Power[k]
      <4>3. P = Power[n - 1 - k] * K /\ Power[n - 1 - k] = 2 * h /\ h \in Nat /\ K \in Nat \ {0}
        BY <1>2, <2>2, <4>1, PowerSplit
      <4>4. (1 * P + w) \div K = 2 * h + (w \div K) /\ w \div K \in Nat
        <5> HIDE DEF P, K, h, Power
        <5>1. /\ P = (2 * h) * K /\ P \in Nat /\ h \in Nat /\ w \in 0..(P - 1)
              /\ K \in Nat \ {0}
          BY <2>2, <4>3
        <5>3. 1 * P + w = (2 * h) * K + w /\ 2 * h \in Nat /\ w \in Nat
          BY <5>1
        <5>4. ((2 * h) * K + w) \div K = 2 * h + (w \div K) /\ w \div K \in Nat
          BY <5>1, <5>3, DividedSum, DivMod
        <5>5. QED
          BY <5>3, <5>4
      <4>5. ((1 * P + w) \div K) % 2 = (w \div K) % 2
        <5> HIDE DEF P, K, h, Power
        <5>1. (2 * h + (w \div K)) % 2 = (w \div K) % 2
          BY <4>3, <4>4, SameParity
        <5>2. QED
          BY <4>4, <5>1
      <4>6. (v \div K) % 2 = (w \div K) % 2
        BY <4>5
      <4>7. QED
        BY <4>2, <4>6
    <3>3. QED
      BY <3>1, <3>2
  <2> HIDE DEF v
  <2>5. HasBits(v, n)
    BY <2>3, <2>4
  <2>6. QED
    BY <2>2, <2>5
<1>5. \A n \in 0..WORD_BITS : n \in Good
  <2> HIDE DEF Good
  <2>1. QED
    BY <1>1, <1>3, <1>4, CountingInduction
<1>6. PICK w : HasBits(w, WORD_BITS)
  BY <1>1, <1>5
<1>7. w \in Words!Word /\ Words!BitsOf(w) = S
  BY <1>6 DEF Words!Word, Words!BitsOf, Words!BitIndex, Power
<1>8. QED
  BY <1>7

\* The bits of a disjunction are the bits of both.
LEMMA OrFacts ==
  ASSUME Sizes, NEW a, NEW b
  PROVE  /\ Words!Or(a, b) \in Words!Word
         /\ Words!BitsOf(Words!Or(a, b)) = Words!BitsOf(a) \union Words!BitsOf(b)
<1>1. Words!BitsOf(a) \union Words!BitsOf(b) \in SUBSET Words!BitIndex
  BY DEF Words!BitsOf
<1>2. \E w \in Words!Word : Words!BitsOf(w) = Words!BitsOf(a) \union Words!BitsOf(b)
  BY <1>1, WordWithBits
<1>3. QED
  BY <1>2 DEF Words!Or
-----------------------------------------------------------------------------
(* The words as one window. *)

\* Bit b of the window is set.
IsSet(words, b) == b % WORD_BITS \in Words!BitsOf(words[b \div WORD_BITS])

\* Where a bit of the window is stored, and which bit is stored there.
LEMMA Places ==
  ASSUME Sizes
  PROVE  /\ Words!NONCE_WINDOW \in Nat \ {0}
         /\ \A b \in 0..(Words!NONCE_WINDOW - 1) :
              /\ b \div WORD_BITS \in Words!WordIndex /\ b % WORD_BITS \in Words!BitIndex
              /\ b = (b \div WORD_BITS) * WORD_BITS + (b % WORD_BITS)
         /\ \A i \in Nat, k \in Words!BitIndex :
              /\ (i * WORD_BITS + k) \div WORD_BITS = i
              /\ (i * WORD_BITS + k) % WORD_BITS = k
              /\ i * WORD_BITS + k \in Nat
              /\ i * WORD_BITS + k < Words!NONCE_WINDOW <=> i < NONCE_WINDOW_WORDS
<1> DEFINE W == WORD_BITS
           N == NONCE_WINDOW_WORDS
<1>1. W \in Nat \ {0} /\ N \in Nat \ {0}
  BY DEF Sizes
<1>2. /\ Words!NONCE_WINDOW = W * N /\ Words!BitIndex = 0..(W - 1)
      /\ Words!WordIndex = 0..(N - 1)
  BY DEF Words!NONCE_WINDOW, Words!BitIndex, Words!WordIndex
<1> HIDE DEF W, N
<1>3. W * N = N * W /\ W * N \in Nat \ {0}
  <2>1. 1 * W <= N * W /\ 1 * W = W /\ N * W \in Nat /\ W * N = N * W
    BY <1>1, Multiply
  <2>2. QED
    BY <1>1, <2>1
<1>4. ASSUME NEW i \in Nat, NEW k \in 0..(W - 1)
      PROVE  /\ (i * W + k) \div W = i /\ (i * W + k) % W = k /\ i * W + k \in Nat
             /\ i * W + k < N * W <=> i < N
  <2>1. (i * W + k) \div W = i /\ (i * W + k) % W = k
    BY <1>1, Quotient
  <2>2. i * W \in Nat /\ N * W \in Nat
    BY <1>1, Multiply
  <2>3. ASSUME i < N PROVE i * W + k < N * W
    <3>1. (i + 1) * W <= N * W /\ (i + 1) * W = i * W + W
      BY <1>1, <2>3, Multiply
    <3>2. QED
      BY <1>1, <2>2, <3>1
  <2>4. ASSUME N <= i PROVE ~(i * W + k < N * W)
    <3>1. N * W <= i * W
      BY <1>1, <2>4, Multiply
    <3>2. QED
      BY <1>1, <2>2, <3>1
  <2>5. i * W + k \in Nat
    BY <1>1, <2>2
  <2>6. QED
    BY <1>1, <2>1, <2>3, <2>4, <2>5
<1>5. ASSUME NEW b \in 0..(W * N - 1)
      PROVE  b \div W \in 0..(N - 1) /\ b % W \in 0..(W - 1) /\ b = (b \div W) * W + (b % W)
  <2> DEFINE i == b \div W
             k == b % W
  <2>1. b \in Nat /\ b < N * W
    BY <1>3
  <2>2. i \in Nat /\ k \in 0..(W - 1) /\ b = i * W + k
    BY <1>1, <2>1, DivMod, Division
  <2> HIDE DEF i, k
  <2>3. i < N
    BY <1>4, <2>1, <2>2
  <2>4. i \in 0..(N - 1)
    BY <1>1, <2>2, <2>3
  <2>5. QED
    BY <2>2, <2>4 DEF i, k
<1>6. QED
  BY <1>2, <1>3, <1>4, <1>5 DEF W, N

\* shift_window_down moves the bits of the window down as one.
LEMMA WordsShifted ==
  ASSUME Sizes, NEW words \in [Words!WordIndex -> Words!Word], NEW by \in Nat
  PROVE  /\ Words!ShiftWordsDown(words, by) \in [Words!WordIndex -> Words!Word]
         /\ \A b \in 0..(Words!NONCE_WINDOW - 1) :
              IsSet(Words!ShiftWordsDown(words, by), b)
                <=> b + by < Words!NONCE_WINDOW /\ IsSet(words, b + by)
<1> DEFINE W == WORD_BITS
           N == NONCE_WINDOW_WORDS
           NW == Words!NONCE_WINDOW
           h == by \div W
           s == by % W
           shifted == Words!ShiftWordsDown(words, by)
           Carry(i) == IF s > 0 /\ i + 1 < N THEN Words!ShiftLeft(words[i + 1], W - s) ELSE 0
<1>1. /\ W \in Nat \ {0} /\ N \in Nat \ {0} /\ NW \in Nat \ {0}
      /\ Words!BitIndex = 0..(W - 1) /\ Words!WordIndex = 0..(N - 1)
  BY Places DEF Sizes, Words!BitIndex, Words!WordIndex
<1>2. h \in Nat /\ s \in 0..(W - 1) /\ by = h * W + s /\ h * W \in Nat
  <2>1. W \in Nat \ {0}
    BY <1>1
  <2> HIDE DEF W
  <2>2. QED
    BY <2>1, DivMod, Division
<1>3. CASE by >= NW
  <2>1. shifted = Words!NoBits
    BY <1>3 DEF Words!ShiftWordsDown
  <2> HIDE DEF shifted
  <2>2. 0 \in Words!Word /\ Words!BitsOf(0) = {}
    BY SingleBits
  <2>3. shifted \in [Words!WordIndex -> Words!Word]
    BY <2>1, <2>2 DEF Words!NoBits
  <2>4. ASSUME NEW b \in 0..(NW - 1) PROVE ~IsSet(shifted, b) /\ ~(b + by < NW)
    <3>1. shifted[b \div W] = 0
      BY <2>1, Places DEF Words!NoBits
    <3>2. ~IsSet(shifted, b)
      BY <2>2, <3>1 DEF IsSet
    <3> HIDE DEF NW
    <3>3. QED
      BY <1>1, <1>3, <3>2
  <2>5. QED
    BY <2>3, <2>4 DEF shifted
<1>4. CASE ~(by >= NW)
  <2>1. shifted = [i \in Words!WordIndex |->
                     IF i + h < N THEN Words!Or(Words!ShiftRight(words[i + h], s), Carry(i + h))
                     ELSE 0]
    BY <1>4 DEF Words!ShiftWordsDown
  <2>2. 0 \in Words!Word /\ Words!BitsOf(0) = {}
    BY SingleBits
  <2> HIDE DEF shifted, h, s
  <2>3. shifted \in [Words!WordIndex -> Words!Word]
    <3> HIDE DEF Carry
    <3>1. \A i : Words!Or(Words!ShiftRight(words[i + h], s), Carry(i + h)) \in Words!Word
      BY OrFacts
    <3>2. QED
      BY <2>1, <2>2, <3>1
  <2>4. ASSUME NEW i \in Words!WordIndex, NEW k \in Words!BitIndex
        PROVE  k \in Words!BitsOf(shifted[i])
                 <=> (i * W + k) + by < NW /\ IsSet(words, (i * W + k) + by)
    <3> DEFINE src == i + h
    <3>1. i \in Nat /\ k \in Nat /\ k < W /\ src \in Nat /\ i * W \in Nat
      BY <1>1, <1>2, <2>4, Multiply
    <3>2. (i * W + k) + by = src * W + (k + s)
      <4>1. (i + h) * W = i * W + h * W
        BY <1>1, <1>2, <3>1, Multiply
      <4> HIDE DEF W
      <4>2. src * W = i * W + h * W
        BY <4>1
      <4> HIDE DEF src
      <4>3. QED
        BY <1>1, <1>2, <3>1, <4>2
    <3>3. ASSUME k + s < W
          PROVE  (i * W + k) + by < NW /\ IsSet(words, (i * W + k) + by)
                   <=> src < N /\ k + s \in Words!BitsOf(words[src])
      <4>1. k + s \in Words!BitIndex
        BY <1>1, <1>2, <3>1, <3>3
      <4>2. /\ (src * W + (k + s)) \div W = src
            /\ (src * W + (k + s)) % W = k + s
            /\ src * W + (k + s) < NW <=> src < N
        <5> HIDE DEF src
        <5>1. QED
          BY <3>1, <4>1, Places
      <4>3. QED
        BY <3>2, <4>2 DEF IsSet
    <3>4. ASSUME ~(k + s < W)
          PROVE  /\ s > 0 /\ k >= W - s /\ k - (W - s) = k + s - W
                 /\ (i * W + k) + by < NW /\ IsSet(words, (i * W + k) + by)
                      <=> src + 1 < N /\ k + s - W \in Words!BitsOf(words[src + 1])
      <4>1. k + s - W \in Words!BitIndex /\ s > 0 /\ k >= W - s /\ k - (W - s) = k + s - W
        <5> HIDE DEF W
        <5>1. QED
          BY <1>1, <1>2, <3>1, <3>4
      <4>2. src * W + (k + s) = (src + 1) * W + (k + s - W) /\ src + 1 \in Nat
        <5>1. (src + 1) * W = src * W + 1 * W /\ src * W \in Nat /\ 1 * W = W
          BY <1>1, <3>1, Multiply
        <5> HIDE DEF W, src
        <5>2. QED
          BY <1>1, <1>2, <3>1, <5>1
      <4>3. /\ ((src + 1) * W + (k + s - W)) \div W = src + 1
            /\ ((src + 1) * W + (k + s - W)) % W = k + s - W
            /\ (src + 1) * W + (k + s - W) < NW <=> src + 1 < N
        <5> DEFINE n == src + 1
                   j == k + s - W
        <5>1. n \in Nat /\ j \in Words!BitIndex
          BY <4>1, <4>2
        <5> HIDE DEF n, j
        <5>2. /\ (n * W + j) \div W = n /\ (n * W + j) % W = j
              /\ n * W + j < NW <=> n < N
          BY <5>1, Places
        <5>3. QED
          BY <5>2 DEF n, j
      <4>4. IsSet(words, (i * W + k) + by)
              <=> k + s - W \in Words!BitsOf(words[src + 1])
        BY <3>2, <4>2, <4>3 DEF IsSet
      <4>5. (i * W + k) + by < NW <=> src + 1 < N
        BY <3>2, <4>2, <4>3
      <4>6. QED
        BY <4>1, <4>4, <4>5
    <3>5. CASE ~(src < N)
      <4>1. shifted[i] = 0
        BY <2>1, <2>4, <3>5
      <4>2. ~(src + 1 < N)
        BY <1>1, <3>1, <3>5
      <4> HIDE DEF src
      <4>3. QED
        BY <2>2, <3>3, <3>4, <3>5, <4>1, <4>2
    <3>6. CASE src < N
      <4>1. /\ shifted[i] = Words!Or(Words!ShiftRight(words[src], s), Carry(src))
            /\ src \in Words!WordIndex
        <5>1. shifted[i] = Words!Or(Words!ShiftRight(words[src], s), Carry(src))
          BY <2>1, <2>4, <3>6
        <5>2. src \in Words!WordIndex
          BY <1>1, <3>1, <3>6
        <5>3. QED
          BY <5>1, <5>2
      <4> HIDE DEF src
      <4>2. words[src] \in Words!Word /\ s \in 0..WORD_BITS
        BY <1>1, <1>2, <4>1
      <4>3. k \in Words!BitsOf(Words!ShiftRight(words[src], s))
              <=> k + s < W /\ k + s \in Words!BitsOf(words[src])
        BY <2>4, <4>2, ShiftedRight
      <4>4. k \in Words!BitsOf(Carry(src))
              <=> /\ s > 0 /\ src + 1 < N
                  /\ k >= W - s /\ k - (W - s) \in Words!BitsOf(words[src + 1])
        <5>1. CASE s > 0 /\ src + 1 < N
          <6>1. src + 1 \in Words!WordIndex
            BY <1>1, <3>1, <5>1
          <6>2. words[src + 1] \in Words!Word /\ W - s \in 0..WORD_BITS
            <7>1. words[src + 1] \in Words!Word
              BY <6>1
            <7>2. W - s \in 0..WORD_BITS
              BY <1>1, <1>2
            <7>3. QED
              BY <7>1, <7>2
          <6>3. Carry(src) = Words!ShiftLeft(words[src + 1], W - s)
            BY <5>1
          <6> DEFINE t == W - s
          <6>4. t \in 0..WORD_BITS /\ Carry(src) = Words!ShiftLeft(words[src + 1], t)
            BY <6>2, <6>3
          <6> HIDE DEF Carry, t
          <6>5. k \in Words!BitsOf(Carry(src))
                  <=> k >= t /\ k - t \in Words!BitsOf(words[src + 1])
            BY <2>4, <6>2, <6>4, ShiftedLeft
          <6>6. QED
            BY <5>1, <6>5 DEF t
        <5>2. CASE ~(s > 0 /\ src + 1 < N)
          <6>1. Carry(src) = 0
            BY <5>2
          <6> HIDE DEF Carry
          <6>2. QED
            BY <2>2, <5>2, <6>1
        <5>3. QED
          BY <5>1, <5>2
      <4> HIDE DEF Carry
      <4>5. k \in Words!BitsOf(shifted[i])
              <=> \/ k \in Words!BitsOf(Words!ShiftRight(words[src], s))
                  \/ k \in Words!BitsOf(Carry(src))
        BY <4>1, OrFacts
      <4>6. CASE k + s < W
        <5>1. ~(k >= W - s)
          BY <1>1, <1>2, <3>1, <4>6
        <5>2. QED
          BY <3>3, <3>6, <4>3, <4>4, <4>5, <4>6, <5>1
      <4>7. CASE ~(k + s < W)
        <5>1. /\ s > 0 /\ k >= W - s /\ k - (W - s) = k + s - W
              /\ (i * W + k) + by < NW /\ IsSet(words, (i * W + k) + by)
                   <=> src + 1 < N /\ k + s - W \in Words!BitsOf(words[src + 1])
          BY <3>4, <4>7
        <5> HIDE DEF W, N, NW
        <5>2. QED
          BY <4>3, <4>4, <4>5, <4>7, <5>1
      <4>8. QED
        BY <4>6, <4>7
    <3>7. QED
      BY <3>5, <3>6
  <2>5. ASSUME NEW b \in 0..(NW - 1)
        PROVE  IsSet(shifted, b) <=> b + by < NW /\ IsSet(words, b + by)
    <3>1. /\ b \div W \in Words!WordIndex /\ b % W \in Words!BitIndex
          /\ b = (b \div W) * W + (b % W)
      BY Places
    <3>2. IsSet(shifted, b) <=> b % W \in Words!BitsOf(shifted[b \div W])
      BY DEF IsSet
    <3> HIDE DEF W, NW
    <3> DEFINE i == b \div W
               k == b % W
    <3>3. i \in Words!WordIndex /\ k \in Words!BitIndex /\ b = i * W + k
      BY <3>1
    <3>4. IsSet(shifted, b) <=> k \in Words!BitsOf(shifted[i])
      BY <3>2
    <3> HIDE DEF i, k
    <3>5. QED
      BY <2>4, <3>3, <3>4
  <2>6. QED
    BY <2>3, <2>5 DEF shifted
<1>5. QED
  BY <1>3, <1>4
-----------------------------------------------------------------------------
(* The stored window implements the window of ReplayGuard. *)

\* Consuming a nonce marks its bit in the window that reaches it.
LEMMA NonceConsumed ==
  ASSUME Sizes, Words!TypeOK, NEW nonce \in Nonces, Words!ConsumeNonce(nonce)
  PROVE  Words!TypeOK' /\ Words!Guard!Spend(nonce)
<1> DEFINE NW == Words!NONCE_WINDOW
           slide == Words!Slide(nonce)
           floor == nonce_floor + slide
           words == IF slide > 0 THEN Words!ShiftWordsDown(used_nonces, slide) ELSE used_nonces
           bit == nonce - floor
           i == bit \div WORD_BITS
           k == bit % WORD_BITS
           old == [nonce_floor |-> nonce_floor, used_nonces |-> Words!SetBits]
           reached == [nonce_floor |-> floor, used_nonces |-> {b \in 0..(NW - 1) : IsSet(words, b)}]
<1>1. /\ nonce >= nonce_floor /\ nonce \in Nat /\ nonce_floor \in Nat
      /\ used_nonces \in [Words!WordIndex -> Words!Word]
      /\ opened \in [Nonces -> Nat] /\ NW \in Nat \ {0}
  BY NoncesAssumption, Places DEF Words!ConsumeNonce, Words!TypeOK
<1>2. /\ Words!BitsOf(words[i]) \intersect Words!BitsOf(Power[k]) = {}
      /\ nonce_floor' = floor
      /\ used_nonces' = [words EXCEPT ![i] = Words!Or(words[i], Power[k])]
      /\ opened' = [opened EXCEPT ![nonce] = @ + 1]
  BY DEF Words!ConsumeNonce, Power
<1>3. /\ slide = IF nonce - nonce_floor >= NW THEN nonce - nonce_floor - (NW - 1) ELSE 0
      /\ slide \in Nat /\ floor \in Nat /\ bit \in 0..(NW - 1)
  <2>1. slide = IF nonce - nonce_floor >= NW THEN nonce - nonce_floor - (NW - 1) ELSE 0
    BY <1>1 DEF Words!Slide
  <2> HIDE DEF NW, slide
  <2>2. QED
    BY <1>1, <2>1
<1> HIDE DEF NW, slide, floor, bit
<1>4. /\ words \in [Words!WordIndex -> Words!Word]
      /\ \A b \in 0..(NW - 1) : IsSet(words, b) <=> b + slide < NW /\ IsSet(used_nonces, b + slide)
  <2>1. CASE slide > 0
    <3>1. words = Words!ShiftWordsDown(used_nonces, slide)
      BY <2>1
    <3> HIDE DEF words
    <3>2. QED
      BY <1>1, <1>3, <3>1, WordsShifted DEF NW
  <2>2. CASE ~(slide > 0)
    <3>1. words = used_nonces /\ slide = 0
      BY <1>3, <2>2
    <3> HIDE DEF words
    <3>2. \A b \in 0..(NW - 1) : b + slide = b /\ b < NW
      BY <1>1, <3>1
    <3>3. QED
      BY <1>1, <3>1, <3>2
  <2>3. QED
    BY <2>1, <2>2
<1> HIDE DEF words
<1>5. old.nonce_floor = nonce_floor /\ old.used_nonces = {b \in 0..(NW - 1) : IsSet(used_nonces, b)}
  BY DEF Words!SetBits, NW, IsSet
<1>6. Words!Guard!Reaching(old, nonce) = reached
  <2>1. CASE nonce - nonce_floor >= NW
    <3>1. slide = nonce - nonce_floor - (NW - 1)
      BY <1>3, <2>1
    <3>2. Words!Guard!Reaching(old, nonce)
            = [ nonce_floor |-> nonce_floor + slide,
                used_nonces |-> Words!Guard!ShiftWindowDown(old.used_nonces, slide) ]
      BY <1>5, <2>1, <3>1 DEF Words!Guard!Reaching, NW
    <3>3. Words!Guard!ShiftWindowDown(old.used_nonces, slide)
            = {b \in 0..(NW - 1) : b + slide \in old.used_nonces}
      BY DEF Words!Guard!ShiftWindowDown, NW
    <3> HIDE DEF old
    <3>4. \A b \in 0..(NW - 1) : b + slide \in old.used_nonces <=> IsSet(words, b)
      <4>1. \A b \in 0..(NW - 1) : b + slide \in 0..(NW - 1) <=> b + slide < NW
        BY <1>1, <1>3
      <4>2. QED
        BY <1>4, <1>5, <4>1
    <3>5. Words!Guard!ShiftWindowDown(old.used_nonces, slide) = reached.used_nonces
      BY <3>3, <3>4
    <3>6. QED
      BY <3>2, <3>5 DEF floor
  <2>2. CASE ~(nonce - nonce_floor >= NW)
    <3>1. slide = 0
      BY <1>3, <2>2
    <3>2. Words!Guard!Reaching(old, nonce) = old
      BY <1>5, <2>2 DEF Words!Guard!Reaching, NW
    <3>3. floor = nonce_floor
      BY <1>1, <3>1 DEF floor
    <3>4. \A b \in 0..(NW - 1) : IsSet(words, b) <=> IsSet(used_nonces, b)
      <4>1. \A b \in 0..(NW - 1) : b + slide = b /\ b < NW
        BY <1>1, <3>1
      <4>2. QED
        BY <1>4, <4>1
    <3>5. reached.used_nonces = Words!SetBits
      BY <1>5, <3>4
    <3>6. QED
      BY <3>2, <3>3, <3>5
  <2>3. QED
    BY <2>1, <2>2
<1>7. /\ i \in Words!WordIndex /\ k \in Words!BitIndex
      /\ Words!BitsOf(Power[k]) = {k}
  <2>1. i \in Words!WordIndex /\ k \in Words!BitIndex
    BY <1>3, Places DEF NW
  <2> HIDE DEF i, k
  <2>2. QED
    BY <2>1, SingleBits
<1>8. ~IsSet(words, bit)
  <2>1. k \notin Words!BitsOf(words[i])
    <3> HIDE DEF i, k
    <3>1. QED
      BY <1>2, <1>7
  <2>2. QED
    BY <2>1 DEF IsSet
<1>9. used_nonces' \in [Words!WordIndex -> Words!Word]
  <2> HIDE DEF i, k
  <2>1. Words!Or(words[i], Power[k]) \in Words!Word
    BY OrFacts
  <2>2. QED
    BY <1>2, <1>4, <2>1
<1>10. ASSUME NEW b \in 0..(NW - 1)
       PROVE  IsSet(used_nonces', b) <=> IsSet(words, b) \/ b = bit
  <2> DEFINE j == b \div WORD_BITS
             l == b % WORD_BITS
  <2>1. j \in Words!WordIndex /\ b = j * WORD_BITS + l /\ bit = i * WORD_BITS + k
    <3>1. j \in Words!WordIndex /\ b = j * WORD_BITS + l
      BY Places DEF NW
    <3>2. bit = i * WORD_BITS + k
      BY <1>3, Places DEF NW
    <3>3. QED
      BY <3>1, <3>2
  <2>2. /\ IsSet(used_nonces', b) <=> l \in Words!BitsOf(used_nonces'[j])
        /\ IsSet(words, b) <=> l \in Words!BitsOf(words[j])
        /\ b = bit => j = i /\ l = k
    BY DEF IsSet
  <2> HIDE DEF i, k, j, l
  <2>3. CASE j = i
    <3>1. used_nonces'[j] = Words!Or(words[i], Power[k])
      BY <1>2, <1>4, <1>7, <2>3
    <3>2. Words!BitsOf(used_nonces'[j]) = Words!BitsOf(words[i]) \union {k}
      BY <1>7, <3>1, OrFacts
    <3>3. l = k => b = bit
      BY <2>1, <2>3
    <3>4. QED
      BY <2>2, <2>3, <3>2, <3>3
  <2>4. CASE j # i
    <3>1. used_nonces'[j] = words[j]
      BY <1>2, <1>4, <2>1, <2>4
    <3>2. QED
      BY <2>2, <2>4, <3>1
  <2>5. QED
    BY <2>3, <2>4
<1>11. Words!SetBits' = reached.used_nonces \union {bit}
  <2>1. Words!SetBits' = {b \in 0..(NW - 1) : IsSet(used_nonces', b)}
    BY DEF Words!SetBits, NW, IsSet
  <2>2. QED
    BY <1>3, <1>10, <2>1
<1> HIDE DEF reached, old
<1>12. reached.nonce_floor = floor /\ reached.used_nonces = {b \in 0..(NW - 1) : IsSet(words, b)}
  BY DEF reached
<1>13. Words!Guard!AcceptsNonce(old, nonce)
  <2>1. nonce - Words!Guard!Reaching(old, nonce).nonce_floor = bit
    BY <1>6, <1>12 DEF bit
  <2>2. bit \notin Words!Guard!Reaching(old, nonce).used_nonces
    BY <1>6, <1>8, <1>12
  <2>3. QED
    BY <1>1, <1>5, <2>1, <2>2 DEF Words!Guard!AcceptsNonce
<1>14. Words!Guard!ConsumeNonce(old, nonce)
         = [nonce_floor |-> floor, used_nonces |-> reached.used_nonces \union {bit}]
  <2>1. Words!Guard!ConsumeNonce(old, nonce)
          = [reached EXCEPT !.used_nonces =
               reached.used_nonces \union {nonce - reached.nonce_floor}]
    BY <1>6 DEF Words!Guard!ConsumeNonce
  <2>2. nonce - reached.nonce_floor = bit
    BY <1>12 DEF bit
  <2>3. QED
    BY <2>1, <2>2, <1>12 DEF reached
<1>15. Words!Guard!Spend(nonce)
  <2>1. old = [nonce_floor |-> nonce_floor, used_nonces |-> Words!SetBits]
    BY DEF old
  <2>2. [nonce_floor |-> nonce_floor, used_nonces |-> Words!SetBits]'
          = Words!Guard!ConsumeNonce(old, nonce)
    BY <1>2, <1>11, <1>14
  <2>3. QED
    BY <1>2, <1>13, <2>1, <2>2 DEF Words!Guard!Spend
<1>16. Words!TypeOK'
  BY <1>1, <1>2, <1>3, <1>9 DEF Words!TypeOK
<1>17. QED
  BY <1>15, <1>16

\* For every word size and every number of words: the array of words that consume_nonce keeps
\* is the window of ReplayGuard, shifted as one by whole words, by bits and by the carry.
THEOREM WordsImplementWindow ==
  ASSUME WORD_BITS \in Nat \ {0}, NONCE_WINDOW_WORDS \in Nat \ {0}
  PROVE  Words!Spec => Words!ImplementsReplayGuard
<1>1. Sizes
  BY DEF Sizes
<1>2. Words!Init => Words!TypeOK /\ Words!Guard!Init
  <2>1. 0 \in Words!Word /\ Words!BitsOf(0) = {}
    BY <1>1, SingleBits
  <2>2. ASSUME Words!Init PROVE Words!TypeOK
    BY <2>1, <2>2 DEF Words!Init, Words!TypeOK, Words!NoBits
  <2>3. ASSUME Words!Init PROVE Words!SetBits = {}
    <3>1. \A b \in 0..(Words!NONCE_WINDOW - 1) : used_nonces[b \div WORD_BITS] = 0
      BY <1>1, <2>3, Places DEF Words!Init, Words!NoBits
    <3>2. QED
      BY <2>1, <3>1 DEF Words!SetBits
  <2>4. QED
    BY <2>2, <2>3 DEF Words!Init, Words!Guard!Init, Words!Guard!NewWindow
<1>3. Words!TypeOK /\ [Words!Next]_(Words!vars)
        => Words!TypeOK' /\ [Words!Guard!Next]_(Words!Guard!vars)
  <2>1. ASSUME Words!TypeOK, Words!Next PROVE Words!TypeOK' /\ Words!Guard!Next
    BY <1>1, <2>1, NonceConsumed DEF Words!Next, Words!Guard!Next
  <2>2. ASSUME Words!TypeOK, UNCHANGED Words!vars
        PROVE  Words!TypeOK' /\ UNCHANGED Words!Guard!vars
    BY <2>2 DEF Words!TypeOK, Words!vars, Words!Guard!vars, Words!SetBits
  <2>3. QED
    BY <2>1, <2>2
<1>4. QED
  BY <1>2, <1>3, PTL DEF Words!Spec, Words!ImplementsReplayGuard, Words!Guard!Spec
=============================================================================
