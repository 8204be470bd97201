---------------------------- MODULE ClientProofs ----------------------------
(***************************************************************************)
(* What the pages say of a loan is what the program makes of it, for any   *)
(* principal, rate, term and clock, and whatever is repaid when; and what  *)
(* is signed on the mandate page, the borrow page, the lender's page and   *)
(* the position page keeps its word.  Pages that take an address from      *)
(* their path answer for that address.                                     *)
(*                                                                         *)
(* One fact carries the first part: bringing a loan up to date on the way  *)
(* changes nothing of what it will owe, because the fraction of a unit is  *)
(* carried (AccruedTwice).                                                 *)
(***************************************************************************)
EXTENDS LoanLife, ProgramLemmas, SequenceTheorems

\* A loan's account, whatever its figures come to.
LifeType ==
  [ reward_mint        : RewardMints,
    principal          : Nat \ {0},
    outstanding        : Nat,
    accrued_interest   : Nat,
    interest_remainder : 0..(ACCRUAL_DENOMINATOR - 1),
    opened_at          : Nat,
    due_at             : Nat,
    last_accrual_at    : Nat,
    apr_bps            : Nat,
    sweep_bps          : Nat,
    status             : LoanStatuses,
    reward_due         : Nat,
    manual_repayment   : ManualReasons \union {NoReason} ]

\* A loan is open exactly while some of its principal is left, and closed it owes nothing.
SoundLoan(l) ==
  /\ l \in LifeType
  /\ l.outstanding <= l.principal
  /\ IsOpen(l) <=> l.outstanding > 0
  /\ ~IsOpen(l) => l.accrued_interest = 0
  /\ \E term \in Nat \ {0} : l.due_at = l.opened_at + term * REPAYMENT_PERIOD

\* What the loan earns by then, the fraction left over included, in whole units.
Earned(l, at) ==
  (l.outstanding * l.apr_bps * (at - l.last_accrual_at) + l.interest_remainder)
    \div ACCRUAL_DENOMINATOR

Left(l, at) ==
  (l.outstanding * l.apr_bps * (at - l.last_accrual_at) + l.interest_remainder)
    % ACCRUAL_DENOMINATOR

-----------------------------------------------------------------------------
(***************************************************************************)
(* Whole units and what is left over.                                      *)
(***************************************************************************)

\* There is one way to divide.
LEMMA DividesOnce ==
  ASSUME NEW d \in Nat \ {0}, NEW q \in Nat, NEW r \in 0..(d - 1), NEW x, x = q * d + r
  PROVE  x \in Nat /\ x \div d = q /\ x % d = r
<1> DEFINE p == x \div d
<1>1. q * d \in Nat
  BY Multiply
<1>2. x \in Nat
  BY <1>1
<1>3. x = p * d + (x % d) /\ p \in Nat /\ x % d \in 0..(d - 1) /\ p * d \in Nat
  BY <1>2, DivMod, Division
<1> HIDE DEF p
<1>4. ~(p < q)
  <2>1. SUFFICES ASSUME p < q PROVE FALSE
    OBVIOUS
  <2>2. p + 1 <= q /\ p + 1 \in Nat
    BY <1>3, <2>1
  <2>3. (p + 1) * d <= q * d
    BY <2>2, Multiply
  <2>4. (p + 1) * d = p * d + 1 * d /\ 1 * d = d
    BY <1>3, Multiply
  <2>5. QED
    BY <1>1, <1>3, <2>3, <2>4
<1>5. ~(q < p)
  <2>1. SUFFICES ASSUME q < p PROVE FALSE
    OBVIOUS
  <2>2. q + 1 <= p /\ q + 1 \in Nat
    BY <1>3, <2>1
  <2>3. (q + 1) * d <= p * d
    BY <1>3, <2>2, Multiply
  <2>4. (q + 1) * d = q * d + 1 * d /\ 1 * d = d
    BY Multiply
  <2>5. QED
    BY <1>1, <1>3, <2>3, <2>4
<1>6. p = q
  BY <1>3, <1>4, <1>5
<1>7. x % d = r
  BY <1>1, <1>3, <1>6
<1>8. QED
  BY <1>2, <1>6, <1>7 DEF p

\* More makes no fewer whole units.
LEMMA DividesMore ==
  ASSUME NEW d \in Nat \ {0}, NEW x \in Nat, NEW y \in Nat, x <= y
  PROVE  x \div d <= y \div d
<1> DEFINE p == x \div d
           q == y \div d
<1>1. p \in Nat /\ q \in Nat /\ p * d \in Nat /\ q * d \in Nat
      /\ p * d <= x /\ y < q * d + d
  BY DivMod, Division
<1> HIDE DEF p, q
<1>2. ~(q < p)
  <2>1. SUFFICES ASSUME q < p PROVE FALSE
    OBVIOUS
  <2>2. q + 1 <= p /\ q + 1 \in Nat
    BY <1>1, <2>1
  <2>3. (q + 1) * d <= p * d
    BY <1>1, <2>2, Multiply
  <2>4. (q + 1) * d = q * d + 1 * d /\ 1 * d = d
    BY <1>1, Multiply
  <2>5. QED
    BY <1>1, <2>3, <2>4
<1>3. p <= q
  BY <1>1, <1>2
<1>4. QED
  BY <1>3 DEF p, q

\* What is booked on the way and what is booked then come to what is booked at once.
LEMMA BookedTwice ==
  ASSUME NEW d \in Nat \ {0}, NEW a \in Nat, NEW b \in Nat
  PROVE  /\ a \div d + (b + (a % d)) \div d = (a + b) \div d
         /\ (b + (a % d)) % d = (a + b) % d
<1> DEFINE p == a \div d
           r == a % d
           x == b + r
           q == x \div d
           s == x % d
<1>1. p \in Nat /\ r \in 0..(d - 1) /\ a = p * d + r /\ p * d \in Nat
  BY DivMod, Division
<1> HIDE DEF p, r
<1>2. x \in Nat
  BY <1>1
<1>3. q \in Nat /\ s \in 0..(d - 1) /\ x = q * d + s /\ q * d \in Nat
  BY <1>2, DivMod, Division
<1>4. x = b + r
  OBVIOUS
<1> HIDE DEF x, q, s
<1>5. (p + q) * d = p * d + q * d /\ p + q \in Nat
  BY <1>1, <1>3, Multiply
<1>6. a + b = (p + q) * d + s
  BY <1>1, <1>2, <1>3, <1>4, <1>5
<1>7. (a + b) \div d = p + q /\ (a + b) % d = s
  <2>1. ASSUME NEW t, t = (p + q) * d + s PROVE t \div d = p + q /\ t % d = s
    BY <1>3, <1>5, <2>1, DividesOnce
  <2>2. QED
    BY <1>6, <2>1
<1>8. QED
  BY <1>7 DEF p, r, x, q, s

-----------------------------------------------------------------------------
(***************************************************************************)
(* One loan.                                                               *)
(***************************************************************************)
LEMMA SoundFields ==
  ASSUME NEW l, l \in LifeType
  PROVE  /\ l.principal \in Nat /\ l.principal > 0 /\ l.outstanding \in Nat
         /\ l.accrued_interest \in Nat /\ l.interest_remainder \in Nat
         /\ l.interest_remainder < ACCRUAL_DENOMINATOR
         /\ l.opened_at \in Nat /\ l.due_at \in Nat /\ l.last_accrual_at \in Nat
         /\ l.apr_bps \in Nat
         /\ l.outstanding * l.apr_bps \in Nat
         /\ ACCRUAL_DENOMINATOR \in Nat \ {0} /\ REPAYMENT_PERIOD \in Nat \ {0}
<1>1. /\ l.principal \in Nat /\ l.principal > 0 /\ l.outstanding \in Nat
      /\ l.accrued_interest \in Nat /\ l.interest_remainder \in Nat
      /\ l.interest_remainder < ACCRUAL_DENOMINATOR
      /\ l.opened_at \in Nat /\ l.due_at \in Nat /\ l.last_accrual_at \in Nat
      /\ l.apr_bps \in Nat
  BY LoanAssumption DEF LifeType
<1>2. l.outstanding * l.apr_bps \in Nat
  BY <1>1, Multiply
<1>3. QED
  BY <1>1, <1>2, LoanAssumption

\* From the last accrual on, the page and the program compute alike.
LEMMA EarnedFacts ==
  ASSUME NEW l, l \in LifeType, NEW at \in Nat, at >= l.last_accrual_at
  PROVE  /\ Earned(l, at) \in Nat /\ Left(l, at) \in 0..(ACCRUAL_DENOMINATOR - 1)
         /\ AccrueTo(l, at) = [ interest  |-> l.accrued_interest + Earned(l, at),
                                remainder |-> Left(l, at) ]
         /\ OwedAt(l, at) = l.outstanding + (l.accrued_interest + Earned(l, at))
         /\ OwedAt(l, at) \in Nat
<1> DEFINE rate == l.outstanding * l.apr_bps
           x == rate * (at - l.last_accrual_at) + l.interest_remainder
<1>1. rate \in Nat /\ l.last_accrual_at \in Nat /\ l.interest_remainder \in Nat
      /\ l.interest_remainder < ACCRUAL_DENOMINATOR
      /\ l.accrued_interest \in Nat /\ l.outstanding \in Nat
      /\ ACCRUAL_DENOMINATOR \in Nat \ {0}
  BY SoundFields
<1>2. Earned(l, at) = x \div ACCRUAL_DENOMINATOR /\ Left(l, at) = x % ACCRUAL_DENOMINATOR
  BY DEF Earned, Left
<1>3. AccrueTo(l, at) =
        IF at <= l.last_accrual_at
          THEN [interest |-> l.accrued_interest, remainder |-> l.interest_remainder]
          ELSE [ interest  |-> l.accrued_interest + x \div ACCRUAL_DENOMINATOR,
                 remainder |-> x % ACCRUAL_DENOMINATOR ]
  BY DEF AccrueTo
<1> HIDE DEF rate
<1>4. at - l.last_accrual_at \in Nat /\ rate * (at - l.last_accrual_at) \in Nat
  BY <1>1, Multiply
<1>5. x \in Nat
  BY <1>1, <1>4
<1>6. ASSUME at <= l.last_accrual_at
      PROVE  /\ x \div ACCRUAL_DENOMINATOR = 0
             /\ x % ACCRUAL_DENOMINATOR = l.interest_remainder
  <2>1. at - l.last_accrual_at = 0 /\ rate * 0 = 0
    BY <1>1, <1>6
  <2>2. x = 0 * ACCRUAL_DENOMINATOR + l.interest_remainder
    BY <1>1, <2>1
  <2>3. l.interest_remainder \in 0..(ACCRUAL_DENOMINATOR - 1)
    BY <1>1
  <2> HIDE DEF x
  <2>4. QED
    BY <1>1, <2>2, <2>3, DividesOnce
<1> HIDE DEF x
<1>7. Earned(l, at) \in Nat /\ Left(l, at) \in 0..(ACCRUAL_DENOMINATOR - 1)
  BY <1>1, <1>2, <1>5, DivMod
<1>8. AccrueTo(l, at) = [ interest  |-> l.accrued_interest + Earned(l, at),
                          remainder |-> Left(l, at) ]
  <2>1. CASE at <= l.last_accrual_at
    <3>1. l.accrued_interest + 0 = l.accrued_interest
      BY <1>1
    <3>2. QED
      BY <1>2, <1>3, <1>6, <2>1, <3>1
  <2>2. CASE ~(at <= l.last_accrual_at)
    BY <1>2, <1>3, <2>2
  <2>3. QED
    BY <2>1, <2>2
<1>9. OwedAt(l, at) = l.outstanding + (l.accrued_interest + Earned(l, at))
  BY <1>8 DEF OwedAt
<1>10. QED
  BY <1>1, <1>7, <1>8, <1>9

\* The program books what the page shows, and changes nothing else.
LEMMA AccrueIs ==
  ASSUME NEW l, l \in LifeType, NEW at \in Nat, at >= l.last_accrual_at
  PROVE  LET a == Accrue(l, at)
         IN  /\ a \in LifeType
             /\ a.principal = l.principal /\ a.outstanding = l.outstanding
             /\ a.accrued_interest = l.accrued_interest + Earned(l, at)
             /\ a.interest_remainder = Left(l, at)
             /\ a.last_accrual_at = at
             /\ a.opened_at = l.opened_at /\ a.due_at = l.due_at
             /\ a.apr_bps = l.apr_bps /\ a.status = l.status
             /\ TotalOwed(a) = OwedAt(l, at)
<1> DEFINE a == Accrue(l, at)
<1>1. /\ l.last_accrual_at \in Nat /\ l.accrued_interest \in Nat
      /\ Earned(l, at) \in Nat /\ Left(l, at) \in 0..(ACCRUAL_DENOMINATOR - 1)
      /\ l.accrued_interest + Earned(l, at) \in Nat
  BY SoundFields, EarnedFacts
<1>2. CASE at <= l.last_accrual_at
  <2>1. a = l /\ at = l.last_accrual_at
    BY <1>1, <1>2 DEF Accrue
  <2>2. AccrueTo(l, at) = [interest |-> l.accrued_interest, remainder |-> l.interest_remainder]
    BY <1>2 DEF AccrueTo
  <2>3. /\ l.accrued_interest = l.accrued_interest + Earned(l, at)
        /\ l.interest_remainder = Left(l, at)
    BY <2>2, EarnedFacts
  <2>4. TotalOwed(l) = OwedAt(l, at)
    BY <2>2 DEF TotalOwed, OwedAt
  <2>5. QED
    BY <2>1, <2>3, <2>4
<1>3. CASE ~(at <= l.last_accrual_at)
  <2>1. a = [l EXCEPT !.accrued_interest   = l.accrued_interest + Earned(l, at),
                      !.interest_remainder = Left(l, at),
                      !.last_accrual_at    = at]
    BY <1>3 DEF Accrue, InterestTo, AccrualNumerator, Earned, Left
  <2>2. /\ a \in LifeType
        /\ a.principal = l.principal /\ a.outstanding = l.outstanding
        /\ a.accrued_interest = l.accrued_interest + Earned(l, at)
        /\ a.interest_remainder = Left(l, at)
        /\ a.last_accrual_at = at
        /\ a.opened_at = l.opened_at /\ a.due_at = l.due_at
        /\ a.apr_bps = l.apr_bps /\ a.status = l.status
    BY <1>1, <2>1 DEF LifeType
  <2> HIDE DEF a
  <2>3. TotalOwed(a) = OwedAt(l, at)
    BY <2>2, EarnedFacts DEF TotalOwed
  <2>4. QED
    BY <2>2, <2>3 DEF a
<1>4. QED
  BY <1>2, <1>3

\* A loan brought up to date on the way owes then what it would have owed.
LEMMA AccruedTwice ==
  ASSUME NEW l, l \in LifeType, NEW at \in Nat, at >= l.last_accrual_at,
         NEW then \in Nat, at <= then
  PROVE  /\ Earned(l, at) + Earned(Accrue(l, at), then) = Earned(l, then)
         /\ Left(Accrue(l, at), then) = Left(l, then)
         /\ OwedAt(Accrue(l, at), then) = OwedAt(l, then)
<1> DEFINE a == Accrue(l, at)
           rate == l.outstanding * l.apr_bps
           s == at - l.last_accrual_at
           t == then - at
           r == l.interest_remainder
<1>1. /\ a \in LifeType /\ a.outstanding = l.outstanding /\ a.apr_bps = l.apr_bps
      /\ a.accrued_interest = l.accrued_interest + Earned(l, at)
      /\ a.interest_remainder = Left(l, at) /\ a.last_accrual_at = at
  BY AccrueIs
<1>2. /\ rate \in Nat /\ l.last_accrual_at \in Nat /\ r \in Nat
      /\ l.accrued_interest \in Nat /\ l.outstanding \in Nat
      /\ ACCRUAL_DENOMINATOR \in Nat \ {0}
  BY SoundFields
<1>3. s \in Nat /\ t \in Nat /\ then - l.last_accrual_at = s + t
  BY <1>2
<1>4. /\ Earned(l, at) = (rate * s + r) \div ACCRUAL_DENOMINATOR
      /\ Left(l, at) = (rate * s + r) % ACCRUAL_DENOMINATOR
  BY DEF Earned, Left
<1>5. /\ Earned(a, then) = (rate * t + Left(l, at)) \div ACCRUAL_DENOMINATOR
      /\ Left(a, then) = (rate * t + Left(l, at)) % ACCRUAL_DENOMINATOR
  BY <1>1 DEF Earned, Left
<1>6. /\ Earned(l, then) = (rate * (s + t) + r) \div ACCRUAL_DENOMINATOR
      /\ Left(l, then) = (rate * (s + t) + r) % ACCRUAL_DENOMINATOR
  BY <1>3 DEF Earned, Left
<1> HIDE DEF a, rate, s, t, r
<1>7. rate * (s + t) = rate * s + rate * t /\ rate * s \in Nat /\ rate * t \in Nat
  BY <1>2, <1>3, Multiply
<1>8. rate * (s + t) + r = (rate * s + r) + rate * t /\ rate * s + r \in Nat
  BY <1>2, <1>7
<1>9. /\ Earned(l, at) + Earned(a, then) = Earned(l, then)
      /\ Left(a, then) = Left(l, then)
  BY <1>2, <1>4, <1>5, <1>6, <1>7, <1>8, BookedTwice
<1>10. OwedAt(a, then) = OwedAt(l, then)
  <2>1. OwedAt(a, then) = a.outstanding + (a.accrued_interest + Earned(a, then))
    BY <1>1, EarnedFacts
  <2>2. OwedAt(l, then) = l.outstanding + (l.accrued_interest + Earned(l, then))
    BY <1>2, EarnedFacts
  <2>3. Earned(l, at) \in Nat /\ Earned(a, then) \in Nat
    BY <1>1, EarnedFacts
  <2>4. QED
    BY <1>1, <1>2, <1>9, <2>1, <2>2, <2>3
<1>11. QED
  BY <1>9, <1>10 DEF a

\* Time adds to what is owed.
LEMMA OwedGrows ==
  ASSUME NEW l, l \in LifeType, NEW at \in Nat, at >= l.last_accrual_at,
         NEW then \in Nat, at <= then
  PROVE  OwedAt(l, at) <= OwedAt(l, then)
<1>1. Earned(l, at) + Earned(Accrue(l, at), then) = Earned(l, then)
  BY AccruedTwice
<1>2. Accrue(l, at) \in LifeType /\ Accrue(l, at).last_accrual_at = at
  BY AccrueIs
<1>3. Earned(l, at) \in Nat /\ Earned(Accrue(l, at), then) \in Nat
  BY <1>2, EarnedFacts
<1>4. /\ OwedAt(l, at) = l.outstanding + (l.accrued_interest + Earned(l, at))
      /\ OwedAt(l, then) = l.outstanding + (l.accrued_interest + Earned(l, then))
      /\ l.outstanding \in Nat /\ l.accrued_interest \in Nat /\ l.last_accrual_at \in Nat
  BY SoundFields, EarnedFacts
<1>5. QED
  BY <1>1, <1>3, <1>4

\* Less principal earns no more.
LEMMA LessEarnsLess ==
  ASSUME NEW l, l \in LifeType, NEW m, m \in LifeType, m.outstanding <= l.outstanding,
         m.apr_bps = l.apr_bps, m.last_accrual_at = l.last_accrual_at,
         m.interest_remainder = l.interest_remainder,
         NEW at \in Nat, at >= l.last_accrual_at
  PROVE  Earned(m, at) <= Earned(l, at)
<1> DEFINE k == l.outstanding * l.apr_bps
           j == m.outstanding * l.apr_bps
           s == at - l.last_accrual_at
           r == l.interest_remainder
<1>1. /\ l.outstanding \in Nat /\ m.outstanding \in Nat /\ l.apr_bps \in Nat
      /\ l.last_accrual_at \in Nat /\ r \in Nat /\ ACCRUAL_DENOMINATOR \in Nat \ {0}
  BY SoundFields
<1>2. s \in Nat
  BY <1>1
<1>3. /\ Earned(l, at) = (k * s + r) \div ACCRUAL_DENOMINATOR
      /\ Earned(m, at) = (j * s + r) \div ACCRUAL_DENOMINATOR
  BY DEF Earned
<1>4. j \in Nat /\ k \in Nat /\ j <= k
  BY <1>1, Multiply
<1> HIDE DEF k, j, s, r
<1>5. j * s \in Nat /\ k * s \in Nat /\ j * s <= k * s
  BY <1>2, <1>4, Multiply
<1>6. j * s + r \in Nat /\ k * s + r \in Nat /\ j * s + r <= k * s + r
  BY <1>1, <1>5
<1>7. QED
  BY <1>1, <1>3, <1>6, DividesMore

\* A repayment comes off what is owed, and leaves no more principal than there was.
LEMMA RepaymentLeaves ==
  ASSUME NEW l, SoundLoan(l), IsOpen(l), NEW amount \in Nat
  PROVE  LET m == ApplyRepayment(l, amount)
             part == Least(amount, TotalOwed(l))
         IN  /\ SoundLoan(m)
             /\ part \in Nat
             /\ m.outstanding <= l.outstanding
             /\ TotalOwed(m) + part = TotalOwed(l)
             /\ m.principal = l.principal /\ m.due_at = l.due_at
             /\ m.opened_at = l.opened_at /\ m.apr_bps = l.apr_bps
             /\ m.last_accrual_at = l.last_accrual_at
             /\ m.interest_remainder = l.interest_remainder
<1> DEFINE m == ApplyRepayment(l, amount)
           part == Least(amount, TotalOwed(l))
           i == InterestPart(l, amount)
           p == PrincipalPart(l, amount)
           left == [l EXCEPT !.accrued_interest = @ - i, !.outstanding = @ - p]
<1>1. /\ l \in LifeType /\ l.outstanding \in Nat /\ l.accrued_interest \in Nat
      /\ l.outstanding > 0 /\ l.outstanding <= l.principal /\ l.principal \in Nat
  BY SoundFields DEF SoundLoan
<1>2. TotalOwed(l) = l.outstanding + l.accrued_interest /\ TotalOwed(l) \in Nat
  BY <1>1 DEF TotalOwed
<1>3. part \in Nat /\ part <= TotalOwed(l)
  BY <1>2 DEF Least
<1>4. i = Least(part, l.accrued_interest) /\ p = part - i
  BY DEF InterestPart, PrincipalPart
<1>5. m = IF TotalOwed(left) = 0
            THEN [left EXCEPT !.status = "Repaid", !.reward_due = 0,
                              !.manual_repayment = NoReason]
            ELSE left
  BY DEF ApplyRepayment
<1> HIDE DEF part, i, p, m
<1>6. /\ i \in Nat /\ i <= l.accrued_interest /\ i <= part
      /\ i = part \/ i = l.accrued_interest
  BY <1>1, <1>3, <1>4 DEF Least
<1>7. p \in Nat /\ p <= l.outstanding /\ i + p = part
  BY <1>1, <1>2, <1>3, <1>4, <1>6
<1>8. /\ l.outstanding - p \in Nat /\ l.accrued_interest - i \in Nat
  BY <1>1, <1>6, <1>7
<1>9. /\ left \in LifeType /\ left.outstanding = l.outstanding - p
      /\ left.accrued_interest = l.accrued_interest - i
      /\ left.principal = l.principal /\ left.due_at = l.due_at
      /\ left.opened_at = l.opened_at /\ left.apr_bps = l.apr_bps
      /\ left.last_accrual_at = l.last_accrual_at /\ left.status = l.status
      /\ left.interest_remainder = l.interest_remainder
  BY <1>1, <1>8 DEF LifeType
<1> HIDE DEF left
<1>10. TotalOwed(left) = left.outstanding + left.accrued_interest
  BY DEF TotalOwed
<1>11. /\ m \in LifeType /\ m.outstanding = left.outstanding
       /\ m.accrued_interest = left.accrued_interest
       /\ m.principal = left.principal /\ m.due_at = left.due_at
       /\ m.opened_at = left.opened_at /\ m.apr_bps = left.apr_bps
       /\ m.last_accrual_at = left.last_accrual_at
       /\ m.interest_remainder = left.interest_remainder
       /\ m.status = IF TotalOwed(left) = 0 THEN "Repaid" ELSE left.status
  BY <1>5, <1>9 DEF LifeType, LoanStatuses
<1>12. TotalOwed(m) + part = TotalOwed(l)
  <2>1. TotalOwed(m) = m.outstanding + m.accrued_interest
    BY DEF TotalOwed
  <2>2. QED
    BY <1>1, <1>2, <1>6, <1>7, <1>9, <1>11, <2>1
<1>13. IsOpen(left)
  BY <1>9 DEF IsOpen
<1>14. CASE TotalOwed(left) = 0
  <2>1. m.outstanding = 0 /\ m.accrued_interest = 0 /\ ~IsOpen(m)
    BY <1>8, <1>9, <1>10, <1>11, <1>14 DEF IsOpen
  <2>2. SoundLoan(m)
    BY <1>1, <1>9, <1>11, <2>1 DEF SoundLoan
  <2>3. QED
    BY <1>1, <1>3, <1>9, <1>11, <1>12, <2>1, <2>2 DEF m, part
<1>15. CASE TotalOwed(left) # 0
  <2>1. m.status = left.status /\ IsOpen(m)
    BY <1>11, <1>13, <1>15 DEF IsOpen
  <2>2. m.outstanding \in Nat /\ m.outstanding > 0
    <3>1. SUFFICES ASSUME l.outstanding - p = 0 PROVE FALSE
      BY <1>8, <1>9, <1>11
    <3>2. i = l.accrued_interest
      BY <1>1, <1>6, <1>7, <3>1
    <3>3. QED
      BY <1>1, <1>9, <1>10, <1>15, <3>1, <3>2
  <2>3. m.outstanding <= l.outstanding
    BY <1>1, <1>7, <1>9, <1>11
  <2>4. m.outstanding <= m.principal
    BY <1>1, <1>9, <1>11, <2>2, <2>3
  <2>5. SoundLoan(m)
    BY <1>1, <1>9, <1>11, <2>1, <2>2, <2>4 DEF SoundLoan
  <2>6. QED
    BY <1>3, <1>9, <1>11, <1>12, <2>3, <2>5 DEF m, part
<1>16. QED
  BY <1>14, <1>15

\* What a loan brought up to date is held to.
LEMMA AccrueSound ==
  ASSUME NEW l, SoundLoan(l), NEW at \in Nat, at >= l.last_accrual_at
  PROVE  SoundLoan(Accrue(l, at)) /\ (IsOpen(Accrue(l, at)) <=> IsOpen(l))
<1> DEFINE a == Accrue(l, at)
<1>1. /\ a \in LifeType /\ a.principal = l.principal /\ a.outstanding = l.outstanding
      /\ a.accrued_interest = l.accrued_interest + Earned(l, at)
      /\ a.due_at = l.due_at /\ a.opened_at = l.opened_at /\ a.status = l.status
  BY AccrueIs DEF SoundLoan
<1> HIDE DEF a
<1>2. IsOpen(a) <=> IsOpen(l)
  BY <1>1 DEF IsOpen
<1>3. ASSUME ~IsOpen(l) PROVE a.accrued_interest = 0
  <2>1. l \in LifeType /\ l.outstanding = 0 /\ l.accrued_interest = 0
    BY <1>3, SoundFields DEF SoundLoan
  <2>2. OwedAt(l, at) = 0
    <3>1. ACCRUAL_DENOMINATOR \in Nat \ {0} /\ l.last_accrual_at \in Nat
          /\ l.interest_remainder \in 0..(ACCRUAL_DENOMINATOR - 1) /\ l.apr_bps \in Nat
      BY <2>1, SoundFields
    <3>2. 0 * l.apr_bps = 0 /\ 0 * (at - l.last_accrual_at) = 0 /\ 0 * ACCRUAL_DENOMINATOR = 0
      BY <3>1
    <3>3. Earned(l, at) = (0 + l.interest_remainder) \div ACCRUAL_DENOMINATOR
      BY <2>1, <3>2 DEF Earned
    <3>4. 0 + l.interest_remainder = 0 * ACCRUAL_DENOMINATOR + l.interest_remainder
      BY <3>1, <3>2
    <3>5. Earned(l, at) = 0
      BY <3>1, <3>3, <3>4, DividesOnce
    <3>6. QED
      BY <2>1, <3>5, EarnedFacts
  <2>3. OwedAt(l, at) = l.outstanding + (l.accrued_interest + Earned(l, at))
        /\ Earned(l, at) \in Nat
    BY <2>1, EarnedFacts
  <2>4. QED
    BY <1>1, <2>1, <2>2, <2>3
<1>4. SoundLoan(a)
  BY <1>1, <1>2, <1>3 DEF SoundLoan
<1>5. QED
  BY <1>2, <1>4 DEF a

\* A loan runs for a whole number of instalments.
LEMMA TermIs ==
  ASSUME NEW l, SoundLoan(l)
  PROVE  /\ TermOf(l) \in Nat \ {0} /\ Periods(l) = TermOf(l)
         /\ l.due_at = l.opened_at + TermOf(l) * REPAYMENT_PERIOD
<1>1. PICK term \in Nat \ {0} : l.due_at = l.opened_at + term * REPAYMENT_PERIOD
  BY DEF SoundLoan
<1>2. /\ l.opened_at \in Nat /\ l.due_at \in Nat /\ REPAYMENT_PERIOD \in Nat \ {0}
      /\ term * REPAYMENT_PERIOD \in Nat
  BY SoundFields, Multiply DEF SoundLoan
<1>3. l.due_at - l.opened_at = term * REPAYMENT_PERIOD + 0
  BY <1>1, <1>2
<1>4. 0 \in 0..(REPAYMENT_PERIOD - 1)
  BY <1>2
<1>5. ASSUME NEW x, x = term * REPAYMENT_PERIOD + 0 PROVE x \div REPAYMENT_PERIOD = term
  BY <1>2, <1>4, <1>5, DividesOnce
<1>6. (l.due_at - l.opened_at) \div REPAYMENT_PERIOD = term
  BY <1>3, <1>5
<1>7. TermOf(l) = term
  BY <1>6 DEF TermOf
<1>8. Periods(l) = TermOf(l)
  BY DEF Periods, TermOf
<1>9. QED
  BY <1>1, <1>7, <1>8

\* Within the term the ceiling is what will be owed at its end.
LEMMA CeilingIs ==
  ASSUME NEW l, SoundLoan(l), NEW at \in Nat, at <= l.due_at
  PROVE  CeilingInTerm(l, at) = IF l.outstanding = 0 THEN 0 ELSE OwedAt(l, l.due_at)
<1>1. l.due_at \in Nat
  BY SoundFields DEF SoundLoan
<1>2. (IF l.due_at > at THEN l.due_at ELSE at) = l.due_at
  BY <1>1
<1>3. QED
  BY <1>2 DEF CeilingInTerm

LEMMA CeilingType ==
  ASSUME NEW l, SoundLoan(l), NEW at \in Nat, at <= l.due_at
  PROVE  CeilingInTerm(l, at) \in Nat
<1>1. /\ l \in LifeType /\ l.due_at \in Nat /\ l.last_accrual_at \in Nat
      /\ l.outstanding \in Nat /\ l.accrued_interest \in Nat
  BY SoundFields DEF SoundLoan
<1>2. CASE l.due_at >= l.last_accrual_at
  BY <1>1, <1>2, EarnedFacts, CeilingIs
<1>3. CASE ~(l.due_at >= l.last_accrual_at)
  <2>1. AccrueTo(l, l.due_at).interest = l.accrued_interest
    BY <1>1, <1>3 DEF AccrueTo
  <2>2. OwedAt(l, l.due_at) \in Nat
    BY <1>1, <2>1 DEF OwedAt
  <2>3. QED
    BY <2>2, CeilingIs
<1>4. QED
  BY <1>2, <1>3

\* A repayment within the term takes itself off the ceiling, and maybe more.
LEMMA RepaymentLowers ==
  ASSUME NEW l, SoundLoan(l), IsOpen(l), NEW at \in Nat, at >= l.last_accrual_at, at <= l.due_at,
         NEW amount \in Nat
  PROVE  CeilingInTerm(ApplyRepayment(Accrue(l, at), amount), at)
           + Least(amount, TotalOwed(Accrue(l, at))) <= CeilingInTerm(l, at)
<1> DEFINE a == Accrue(l, at)
           m == ApplyRepayment(a, amount)
           part == Least(amount, TotalOwed(a))
           due == l.due_at
<1>1. /\ l \in LifeType /\ l.outstanding > 0 /\ due \in Nat /\ l.last_accrual_at \in Nat
      /\ due >= l.last_accrual_at
  BY SoundFields DEF SoundLoan
<1>2. /\ a \in LifeType /\ a.last_accrual_at = at /\ a.due_at = due
      /\ a.outstanding = l.outstanding
  BY <1>1, AccrueIs
<1>3. SoundLoan(a) /\ IsOpen(a)
  BY AccrueSound
<1>4. OwedAt(a, due) = OwedAt(l, due)
  BY <1>1, AccruedTwice
<1>5. CeilingInTerm(l, at) = OwedAt(l, due)
  BY <1>1, CeilingIs
<1> HIDE DEF a
<1>6. /\ SoundLoan(m) /\ part \in Nat /\ m.outstanding <= a.outstanding
      /\ TotalOwed(m) + part = TotalOwed(a)
      /\ m.due_at = a.due_at /\ m.apr_bps = a.apr_bps
      /\ m.last_accrual_at = a.last_accrual_at
      /\ m.interest_remainder = a.interest_remainder
  BY <1>3, RepaymentLeaves
<1> HIDE DEF m, part
<1>7. CeilingInTerm(m, at) = IF m.outstanding = 0 THEN 0 ELSE OwedAt(m, due)
  BY <1>2, <1>6, CeilingIs
<1>8. m \in LifeType /\ a \in LifeType
  BY <1>2, <1>6 DEF SoundLoan
<1>9. /\ m.outstanding \in Nat /\ m.accrued_interest \in Nat
      /\ a.outstanding \in Nat /\ a.accrued_interest \in Nat
      /\ TotalOwed(m) = m.outstanding + m.accrued_interest
      /\ TotalOwed(a) = a.outstanding + a.accrued_interest
  BY <1>8, SoundFields DEF TotalOwed
<1>10. Earned(m, due) <= Earned(a, due)
  BY <1>1, <1>2, <1>6, <1>8, LessEarnsLess
<1>11. /\ OwedAt(m, due) = m.outstanding + (m.accrued_interest + Earned(m, due))
       /\ Earned(m, due) \in Nat
  BY <1>1, <1>2, <1>6, <1>8, EarnedFacts
<1>12. /\ OwedAt(a, due) = a.outstanding + (a.accrued_interest + Earned(a, due))
       /\ Earned(a, due) \in Nat
  BY <1>1, <1>2, <1>8, EarnedFacts
<1>13. CASE m.outstanding = 0
  <2>1. 0 + part <= OwedAt(a, due)
    BY <1>6, <1>9, <1>12
  <2>2. QED
    BY <1>4, <1>5, <1>7, <1>13, <2>1 DEF a, m, part
<1>14. CASE m.outstanding # 0
  <2>1. OwedAt(m, due) + part <= OwedAt(a, due)
    BY <1>6, <1>9, <1>10, <1>11, <1>12
  <2>2. QED
    BY <1>4, <1>5, <1>7, <1>14, <2>1 DEF a, m, part
<1>15. QED
  BY <1>13, <1>14

-----------------------------------------------------------------------------
(***************************************************************************)
(* The life of a loan.                                                     *)
(***************************************************************************)
LoanInv ==
  /\ now \in Nat /\ paid \in Nat
  /\ SoundLoan(loan)
  /\ loan.last_accrual_at <= now /\ loan.opened_at = 0

\* What was paid and what can still be owed within the term never come to more.
MostInv ==
  now <= loan.due_at =>
    paid + CeilingInTerm(loan, now)
      <= loan.principal + InterestIfHeld(loan.principal, loan.apr_bps, TermOf(loan))

\* The instalment shown on its day is a number.
LEMMA PaymentIsANumber ==
  ASSUME NEW l, SoundLoan(l), NEW at \in Nat, l.last_accrual_at <= at, l.opened_at <= at,
         NextOf(l, at).at = at
  PROVE  Payment(l, at) \in Int
<1> DEFINE repaid == l.principal - l.outstanding
           dueAt == l.opened_at + Unpaid(l) * REPAYMENT_PERIOD
           k == Least((at - l.opened_at) \div REPAYMENT_PERIOD, Periods(l))
<1>1. /\ l \in LifeType /\ l.principal \in Nat /\ l.outstanding \in Nat
      /\ l.opened_at \in Nat /\ REPAYMENT_PERIOD \in Nat \ {0}
  BY SoundFields DEF SoundLoan
<1>2. Periods(l) \in Nat \ {0}
  BY TermIs
<1>3. NextOf(l, at) = IF dueAt > at
        THEN [ late |-> FALSE, at |-> dueAt,
               principal |-> PrincipalDueAfter(l, Unpaid(l)) - repaid,
               interest |-> AccrueTo(l, dueAt).interest ]
        ELSE [ late |-> TRUE, at |-> dueAt,
               principal |-> OwedBy(l, at) - repaid,
               interest |-> AccrueTo(l, at).interest ]
  BY DEF NextOf
<1>4. dueAt = at
  BY <1>3
<1>5. Payment(l, at) = (OwedBy(l, at) - repaid) + AccrueTo(l, at).interest
  <2>1. ~(dueAt > at)
    BY <1>4
  <2>2. QED
    BY <1>3, <2>1 DEF Payment
<1>6. OwedBy(l, at) \in Nat
  <2>1. (at - l.opened_at) \div REPAYMENT_PERIOD \in Nat
    <3>1. at - l.opened_at \in Nat
      BY <1>1
    <3>2. QED
      BY <1>1, <3>1, DivMod
  <2>2. k \in Nat
    BY <1>2, <2>1 DEF Least
  <2>3. OwedBy(l, at) = DivCeil(l.principal * k, Periods(l))
    BY DEF OwedBy, PrincipalDueAfter
  <2> HIDE DEF k
  <2>4. l.principal * k \in Nat
    BY <1>1, <2>2, Multiply
  <2>5. QED
    BY <1>2, <2>3, <2>4, RoundedUp
<1>7. AccrueTo(l, at).interest \in Nat
  <2>1. /\ AccrueTo(l, at).interest = l.accrued_interest + Earned(l, at)
        /\ Earned(l, at) \in Nat /\ l.accrued_interest \in Nat
    BY <1>1, EarnedFacts, SoundFields
  <2>2. QED
    BY <2>1
<1>8. QED
  BY <1>1, <1>5, <1>6, <1>7

LEMMA LoanStarts ==
  ASSUME LoanLifeAssumption, Init
  PROVE  LoanInv /\ MostInv
<1>1. PICK mint \in RewardMints, principal \in Principals, apr \in Aprs,
           term \in 1..MAX_TERM_PERIODS : loan = NewLoan(mint, principal, apr, term)
  BY DEF Init
<1>2. /\ now = 0 /\ paid = 0 /\ principal \in Nat \ {0} /\ apr \in Nat
      /\ term \in Nat \ {0} /\ REPAYMENT_PERIOD \in Nat \ {0}
      /\ ACCRUAL_DENOMINATOR \in Nat \ {0} /\ BPS \in Nat
  BY LoanAssumption, ArithmeticAssumption DEF Init, LoanLifeAssumption, U64
<1>3. term * REPAYMENT_PERIOD \in Nat
  BY <1>2, Multiply
<1>4. /\ loan.principal = principal /\ loan.outstanding = principal
      /\ loan.accrued_interest = 0 /\ loan.interest_remainder = 0
      /\ loan.opened_at = 0 /\ loan.due_at = term * REPAYMENT_PERIOD
      /\ loan.last_accrual_at = 0 /\ loan.apr_bps = apr /\ loan.status = "Active"
  BY <1>1 DEF NewLoan
<1>5. loan \in LifeType
  <2>1. 0 \in 0..(ACCRUAL_DENOMINATOR - 1)
    BY <1>2
  <2>2. QED
    BY <1>1, <1>2, <1>3, <2>1 DEF NewLoan, LifeType, LoanStatuses
<1>6. IsOpen(loan) /\ loan.outstanding > 0 /\ loan.outstanding <= loan.principal
  BY <1>2, <1>4 DEF IsOpen
<1>7. SoundLoan(loan)
  <2>1. loan.due_at = loan.opened_at + term * REPAYMENT_PERIOD
    BY <1>3, <1>4
  <2>2. term \in Nat \ {0}
    BY <1>2
  <2>3. QED
    BY <1>5, <1>6, <2>1, <2>2 DEF SoundLoan
<1>8. LoanInv
  BY <1>2, <1>4, <1>7 DEF LoanInv
<1>9. TermOf(loan) \in Nat /\ loan.due_at = TermOf(loan) * REPAYMENT_PERIOD
  <2>1. /\ TermOf(loan) \in Nat
        /\ loan.due_at = loan.opened_at + TermOf(loan) * REPAYMENT_PERIOD
    BY <1>7, TermIs
  <2>2. TermOf(loan) * REPAYMENT_PERIOD \in Nat
    BY <1>2, <2>1, Multiply
  <2>3. QED
    BY <1>4, <2>1, <2>2
<1>10. CeilingInTerm(loan, now) = OwedAt(loan, loan.due_at)
  BY <1>2, <1>3, <1>4, <1>6, <1>7, CeilingIs
<1>11. OwedAt(loan, loan.due_at)
         = principal + InterestIfHeld(principal, apr, TermOf(loan))
  <2> DEFINE n == TermOf(loan)
             k == principal * apr
  <2>1. k \in Nat /\ n \in Nat
    BY <1>2, <1>9, Multiply
  <2>2. Earned(loan, loan.due_at)
          = (k * (loan.due_at - 0) + 0) \div ACCRUAL_DENOMINATOR
    BY <1>4 DEF Earned
  <2>3. InterestIfHeld(principal, apr, n) = (k * REPAYMENT_PERIOD * n) \div ACCRUAL_DENOMINATOR
    BY DEF InterestIfHeld
  <2>4. /\ OwedAt(loan, loan.due_at)
             = loan.outstanding + (loan.accrued_interest + Earned(loan, loan.due_at))
        /\ Earned(loan, loan.due_at) \in Nat
    BY <1>3, <1>4, <1>5, EarnedFacts
  <2> HIDE DEF k, n
  <2>5. loan.due_at = REPAYMENT_PERIOD * n
    BY <1>2, <1>9, <2>1, Multiply DEF n
  <2>6. REPAYMENT_PERIOD * n \in Nat /\ k * (REPAYMENT_PERIOD * n) \in Nat
        /\ k * REPAYMENT_PERIOD * n = k * (REPAYMENT_PERIOD * n)
    BY <1>2, <2>1, Multiply
  <2>7. k * (loan.due_at - 0) + 0 = k * REPAYMENT_PERIOD * n
    <3>1. loan.due_at - 0 = REPAYMENT_PERIOD * n
      BY <2>5, <2>6
    <3>2. k * (loan.due_at - 0) = k * (REPAYMENT_PERIOD * n)
      BY <3>1
    <3>3. QED
      BY <2>6, <3>2
  <2>8. Earned(loan, loan.due_at) = InterestIfHeld(principal, apr, n)
    BY <2>2, <2>3, <2>7
  <2>9. QED
    BY <1>2, <1>4, <2>4, <2>8 DEF n
<1>12. InterestIfHeld(principal, apr, TermOf(loan)) \in Int
  <2>1. principal * apr * REPAYMENT_PERIOD * TermOf(loan) \in Nat
    BY <1>2, <1>9, Multiply
  <2>2. QED
    BY <1>2, <2>1, DivMod DEF InterestIfHeld
<1>13. MostInv
  BY <1>2, <1>4, <1>10, <1>11, <1>12 DEF MostInv
<1>14. QED
  BY <1>8, <1>13

\* Every step keeps what a loan is held to, its terms, and the ceiling.
StepKeeps ==
  /\ LoanInv'
  /\ loan'.principal = loan.principal /\ loan'.due_at = loan.due_at
  /\ loan'.opened_at = loan.opened_at /\ loan'.apr_bps = loan.apr_bps
  /\ now <= now'
  /\ CeilingOnlyFalls

LEMMA RepayStep ==
  ASSUME LoanInv, NEW amount \in Nat, Repay(amount), now' = now
  PROVE  StepKeeps
<1> DEFINE a == Accrue(loan, now)
           m == ApplyRepayment(a, amount)
           part == Least(amount, TotalOwed(a))
<1>1. /\ IsOpen(loan) /\ loan' = m /\ paid' = paid + part
  BY DEF Repay
<1>2. /\ now \in Nat /\ paid \in Nat /\ SoundLoan(loan) /\ loan.last_accrual_at <= now
      /\ loan \in LifeType /\ loan.last_accrual_at \in Nat /\ loan.opened_at = 0
  BY SoundFields DEF LoanInv, SoundLoan
<1>3. /\ SoundLoan(a) /\ IsOpen(a) /\ a.principal = loan.principal /\ a.due_at = loan.due_at
      /\ a.opened_at = loan.opened_at /\ a.apr_bps = loan.apr_bps
      /\ a.last_accrual_at = now
  BY <1>1, <1>2, AccrueSound, AccrueIs
<1>4. now <= loan.due_at => CeilingInTerm(m, now) + part <= CeilingInTerm(loan, now)
  BY <1>1, <1>2, RepaymentLowers
<1> HIDE DEF a
<1>5. /\ SoundLoan(m) /\ part \in Nat /\ m.principal = a.principal /\ m.due_at = a.due_at
      /\ m.opened_at = a.opened_at /\ m.apr_bps = a.apr_bps
      /\ m.last_accrual_at = a.last_accrual_at
  BY <1>3, RepaymentLeaves
<1> HIDE DEF m, part
<1>6. LoanInv'
  <2>1. paid + part \in Nat /\ m.last_accrual_at <= now /\ m.opened_at = 0
    BY <1>2, <1>3, <1>5
  <2>2. SoundLoan(loan')
    BY <1>1, <1>5
  <2>3. QED
    BY <1>1, <1>2, <2>1, <2>2 DEF LoanInv
<1>7. CeilingOnlyFalls
  <2>1. paid' - paid = part /\ loan'.due_at = loan.due_at
    BY <1>1, <1>2, <1>3, <1>5
  <2>2. QED
    BY <1>1, <1>4, <2>1 DEF CeilingOnlyFalls
<1>8. QED
  BY <1>1, <1>2, <1>3, <1>5, <1>6, <1>7 DEF StepKeeps

LEMMA LoanSteps ==
  ASSUME LoanLifeAssumption, LoanInv, [Next]_vars
  PROVE  StepKeeps
<1>1. /\ now \in Nat /\ paid \in Nat /\ SoundLoan(loan) /\ loan.last_accrual_at <= now
      /\ loan \in LifeType /\ loan.last_accrual_at \in Nat /\ loan.due_at \in Nat
      /\ loan.outstanding \in Nat /\ loan.opened_at = 0
  BY SoundFields DEF LoanInv, SoundLoan
<1>2. ASSUME NEW at \in Nat, at <= loan.due_at PROVE CeilingInTerm(loan, at) \in Nat
  BY <1>1, <1>2, CeilingType
<1>3. CASE UNCHANGED vars
  <2>1. now' = now /\ loan' = loan /\ paid' = paid
    BY <1>3 DEF vars
  <2>2. now <= loan.due_at => CeilingInTerm(loan, now) + (paid - paid) <= CeilingInTerm(loan, now)
    BY <1>1, <1>2
  <2>3. LoanInv'
    BY <1>1, <2>1 DEF LoanInv
  <2>4. QED
    BY <1>1, <2>1, <2>2, <2>3 DEF StepKeeps, CeilingOnlyFalls
<1>4. CASE PayInstalment
  <2> DEFINE amount == Payment(loan, now)
  <2>1. NextOf(loan, now).at = now /\ Repay(amount) /\ now' = now
    BY <1>4 DEF PayInstalment
  <2>2. amount \in Int
    BY <1>1, <2>1, PaymentIsANumber
  <2>3. amount > 0
    BY <2>1 DEF Repay
  <2> HIDE DEF amount
  <2>4. amount \in Nat
    BY <2>2, <2>3
  <2>5. QED
    BY <2>1, <2>4, RepayStep
<1>5. ASSUME NEW amount \in Amounts, PayAnything(amount) PROVE StepKeeps
  <2>1. amount \in Nat /\ Repay(amount) /\ now' = now
    BY <1>5 DEF PayAnything, LoanLifeAssumption
  <2>2. QED
    BY <2>1, RepayStep
<1>6. CASE BringUpToDate
  <2> DEFINE a == Accrue(loan, now)
  <2>1. loan' = a /\ now' = now /\ paid' = paid /\ IsOpen(loan)
    BY <1>6 DEF BringUpToDate
  <2>2. /\ SoundLoan(a) /\ a.principal = loan.principal /\ a.due_at = loan.due_at
        /\ a.opened_at = loan.opened_at /\ a.apr_bps = loan.apr_bps
        /\ a.last_accrual_at = now /\ a.outstanding = loan.outstanding
    BY <1>1, AccrueSound, AccrueIs
  <2>3. ASSUME now <= loan.due_at
        PROVE  CeilingInTerm(a, now) + (paid - paid) <= CeilingInTerm(loan, now)
    <3>1. OwedAt(a, loan.due_at) = OwedAt(loan, loan.due_at)
      BY <1>1, <2>3, AccruedTwice
    <3> HIDE DEF a
    <3>2. CeilingInTerm(a, now) = CeilingInTerm(loan, now)
      BY <1>1, <2>2, <2>3, <3>1, CeilingIs
    <3>3. QED
      BY <1>1, <1>2, <2>3, <3>2
  <2> HIDE DEF a
  <2>4. LoanInv'
    <3>1. SoundLoan(loan')
      BY <2>1, <2>2
    <3>2. QED
      BY <1>1, <2>1, <2>2, <3>1 DEF LoanInv
  <2>5. QED
    BY <1>1, <2>1, <2>2, <2>3, <2>4 DEF StepKeeps, CeilingOnlyFalls
<1>7. CASE Tick
  <2>1. now' = now + 1 /\ loan' = loan /\ paid' = paid
    BY <1>7 DEF Tick
  <2>2. ASSUME now + 1 <= loan.due_at
        PROVE  CeilingInTerm(loan, now + 1) + (paid - paid) <= CeilingInTerm(loan, now)
    <3>1. now + 1 \in Nat /\ now <= loan.due_at
      BY <1>1, <2>2
    <3>2. CeilingInTerm(loan, now + 1) = CeilingInTerm(loan, now)
      BY <1>1, <2>2, <3>1, CeilingIs
    <3>3. QED
      BY <1>1, <1>2, <3>1, <3>2
  <2>3. LoanInv'
    BY <1>1, <2>1 DEF LoanInv
  <2>4. QED
    BY <1>1, <2>1, <2>2, <2>3 DEF StepKeeps, CeilingOnlyFalls
<1>8. QED
  BY <1>3, <1>4, <1>5, <1>6, <1>7 DEF Next

LEMMA MostSteps ==
  ASSUME LoanInv, MostInv, StepKeeps
  PROVE  MostInv'
<1> DEFINE most == loan.principal + InterestIfHeld(loan.principal, loan.apr_bps, TermOf(loan))
           before == CeilingInTerm(loan, now)
           after == CeilingInTerm(loan', now')
<1>1. most' = most
  BY DEF StepKeeps, TermOf, InterestIfHeld
<1>2. /\ now \in Nat /\ paid \in Nat /\ now' \in Nat /\ paid' \in Nat /\ loan.due_at \in Nat
      /\ now <= now' /\ loan'.due_at = loan.due_at
  BY SoundFields DEF LoanInv, SoundLoan, StepKeeps
<1>3. SUFFICES ASSUME now' <= loan.due_at PROVE paid' + after <= most
  BY <1>1, <1>2 DEF MostInv
<1>4. now <= loan.due_at /\ SoundLoan(loan) /\ SoundLoan(loan')
  BY <1>2, <1>3 DEF LoanInv, StepKeeps
<1>5. after + (paid' - paid) <= before
  BY <1>3 DEF StepKeeps, CeilingOnlyFalls
<1>6. paid + before <= most
  BY <1>4 DEF MostInv
<1>7. most \in Int
  <2>1. /\ loan.principal \in Nat /\ loan.apr_bps \in Nat /\ TermOf(loan) \in Nat
        /\ REPAYMENT_PERIOD \in Nat /\ ACCRUAL_DENOMINATOR \in Nat \ {0}
    BY <1>4, SoundFields, TermIs DEF SoundLoan
  <2>2. loan.principal * loan.apr_bps * REPAYMENT_PERIOD * TermOf(loan) \in Nat
    BY <2>1, Multiply
  <2>3. QED
    BY <2>1, <2>2, DivMod DEF InterestIfHeld
<1>8. before \in Int
  BY <1>2, <1>4, CeilingType
<1>9. after \in Int
  <2>1. now' <= loan'.due_at
    BY <1>2, <1>3
  <2>2. \A l, at : SoundLoan(l) /\ at \in Nat /\ at <= l.due_at => CeilingInTerm(l, at) \in Nat
    BY CeilingType
  <2>3. QED
    BY <1>2, <1>4, <2>1, <2>2
<1>10. ASSUME NEW m \in Int, NEW b \in Int, NEW c \in Int, NEW p \in Nat, NEW q \in Nat,
              c + (q - p) <= b, p + b <= m
       PROVE  q + c <= m
  BY <1>10
<1>11. QED
  BY <1>2, <1>5, <1>6, <1>7, <1>8, <1>9, <1>10

LEMMA LoanInductive == LoanLifeAssumption /\ Spec => [](LoanInv /\ MostInv)
<1> SUFFICES ASSUME LoanLifeAssumption PROVE Spec => [](LoanInv /\ MostInv)
  OBVIOUS
<1>1. Init => LoanInv /\ MostInv
  BY LoanStarts
<1>2. (LoanInv /\ MostInv) /\ [Next]_vars => (LoanInv /\ MostInv)'
  <2> SUFFICES ASSUME LoanInv, MostInv, [Next]_vars PROVE LoanInv' /\ MostInv'
    OBVIOUS
  <2>1. StepKeeps
    BY LoanSteps
  <2>2. QED
    BY <2>1, MostSteps DEF StepKeeps
<1>3. QED
  BY <1>1, <1>2, PTL DEF Spec

\* position.ts: for now and for any moment to come, the page shows to the unit and its
\* fraction what the program would book by then.
THEOREM PositionsAreBooked == LoanLifeAssumption /\ Spec => []PositionIsBooked
<1> SUFFICES ASSUME LoanLifeAssumption PROVE Spec => []PositionIsBooked
  OBVIOUS
<1>1. LoanInv => PositionIsBooked
  <2> SUFFICES ASSUME LoanInv, NEW at \in now..(now + REPAYMENT_PERIOD)
               PROVE  /\ OwedAt(loan, at) = TotalOwed(Accrue(loan, at))
                      /\ AccrueTo(loan, at).remainder = Accrue(loan, at).interest_remainder
    BY DEF PositionIsBooked
  <2>1. /\ loan \in LifeType /\ now \in Nat /\ loan.last_accrual_at <= now
        /\ loan.last_accrual_at \in Nat /\ REPAYMENT_PERIOD \in Nat
    BY SoundFields DEF LoanInv, SoundLoan
  <2>2. at \in Nat /\ at >= loan.last_accrual_at
    BY <2>1
  <2>3. QED
    BY <2>1, <2>2, AccrueIs, EarnedFacts
<1>2. QED
  BY <1>1, LoanInductive, PTL

\* delegation.ts: within the term the ceiling a delegation is sized by does not move with
\* time or with another loan, and a repayment takes at least itself off it.
THEOREM CeilingsOnlyFall == LoanLifeAssumption /\ Spec => [][CeilingOnlyFalls]_vars
<1> SUFFICES ASSUME LoanLifeAssumption PROVE Spec => [][CeilingOnlyFalls]_vars
  OBVIOUS
<1>1. LoanInv /\ [Next]_vars => [CeilingOnlyFalls]_vars
  BY LoanSteps DEF StepKeeps
<1>2. QED
  BY <1>1, LoanInductive, PTL DEF Spec

\* "Most you repay within the term": whatever is repaid when, and however often the loan is
\* brought up to date, it never costs more than holding it to its end.
THEOREM TheMostIsTheMost == LoanLifeAssumption /\ Spec => []MostWithinTheTerm
<1> SUFFICES ASSUME LoanLifeAssumption PROVE Spec => []MostWithinTheTerm
  OBVIOUS
<1>1. LoanInv /\ MostInv => MostWithinTheTerm
  <2> DEFINE most == loan.principal
                       + InterestIfHeld(loan.principal, loan.apr_bps, TermOf(loan))
             owed == TotalOwed(Accrue(loan, now))
  <2> SUFFICES ASSUME LoanInv, MostInv, now <= loan.due_at PROVE paid + owed <= most
    BY DEF MostWithinTheTerm
  <2>1. /\ SoundLoan(loan) /\ loan \in LifeType /\ now \in Nat /\ paid \in Nat
        /\ loan.last_accrual_at <= now /\ loan.last_accrual_at \in Nat
        /\ loan.due_at \in Nat /\ loan.due_at >= loan.last_accrual_at
    BY SoundFields DEF LoanInv, SoundLoan
  <2>2. paid + CeilingInTerm(loan, now) <= most
    BY DEF MostInv
  <2>3. owed = OwedAt(loan, now) /\ owed \in Nat
    BY <2>1, AccrueIs, EarnedFacts
  <2>4. owed <= CeilingInTerm(loan, now) /\ CeilingInTerm(loan, now) \in Nat
    <3>1. CASE loan.outstanding = 0
      <4>1. ~IsOpen(Accrue(loan, now)) /\ SoundLoan(Accrue(loan, now))
        BY <2>1, <3>1, AccrueSound DEF SoundLoan
      <4>2. Accrue(loan, now).outstanding = 0 /\ Accrue(loan, now).accrued_interest = 0
        BY <2>1, <3>1, <4>1, AccrueIs DEF SoundLoan
      <4>3. owed = 0
        BY <4>2 DEF TotalOwed
      <4>4. CeilingInTerm(loan, now) = 0
        BY <2>1, <3>1, CeilingIs
      <4>5. QED
        BY <4>3, <4>4
    <3>2. CASE loan.outstanding # 0
      <4>1. CeilingInTerm(loan, now) = OwedAt(loan, loan.due_at)
        BY <2>1, <3>2, CeilingIs
      <4>2. OwedAt(loan, now) <= OwedAt(loan, loan.due_at)
        BY <2>1, OwedGrows
      <4>3. OwedAt(loan, loan.due_at) \in Nat
        BY <2>1, EarnedFacts
      <4>4. QED
        BY <2>3, <4>1, <4>2, <4>3
    <3>3. QED
      BY <3>1, <3>2
  <2>5. most \in Int
    <3>1. /\ loan.principal \in Nat /\ loan.apr_bps \in Nat /\ TermOf(loan) \in Nat
          /\ REPAYMENT_PERIOD \in Nat /\ ACCRUAL_DENOMINATOR \in Nat \ {0}
      BY <2>1, SoundFields, TermIs
    <3>2. loan.principal * loan.apr_bps * REPAYMENT_PERIOD * TermOf(loan) \in Nat
      BY <3>1, Multiply
    <3>3. QED
      BY <3>1, <3>2, DivMod DEF InterestIfHeld
  <2> HIDE DEF most, owed
  <2>6. QED
    BY <2>1, <2>2, <2>3, <2>4, <2>5
<1>2. QED
  BY <1>1, LoanInductive, PTL

\* "Each day past the term adds up to": the figure shown before signing bounds what any day
\* after the term adds, though the interest is carried in fractions.
THEOREM DaysPastDueAreBounded ==
  LoanLifeAssumption /\ ClientLoanAssumption /\ Spec => []DayPastDueIsBounded
<1> SUFFICES ASSUME LoanLifeAssumption, ClientLoanAssumption
             PROVE  Spec => []DayPastDueIsBounded
  OBVIOUS
<1>1. LoanInv => DayPastDueIsBounded
  <2> DEFINE a == Accrue(loan, now)
             left == loan.outstanding * loan.apr_bps * DAY
             full == loan.principal * loan.apr_bps * DAY
             r == a.interest_remainder
  <2> SUFFICES ASSUME LoanInv
               PROVE  TotalOwed(Accrue(loan, now + DAY)) - TotalOwed(a)
                        <= InterestPerDayPastDue(loan.principal, loan.apr_bps)
    BY DEF DayPastDueIsBounded
  <2>1. /\ SoundLoan(loan) /\ loan \in LifeType /\ now \in Nat
        /\ loan.last_accrual_at <= now /\ loan.last_accrual_at \in Nat
        /\ loan.principal \in Nat /\ loan.apr_bps \in Nat /\ loan.outstanding \in Nat
        /\ loan.outstanding <= loan.principal
        /\ ACCRUAL_DENOMINATOR \in Nat \ {0} /\ DAY \in Nat
    BY SoundFields DEF LoanInv, SoundLoan, ClientLoanAssumption
  <2>2. /\ now + DAY \in Nat /\ now <= now + DAY /\ now + DAY >= loan.last_accrual_at
        /\ now + DAY - now = DAY
    BY <2>1
  <2>3. /\ a \in LifeType /\ a.last_accrual_at = now /\ a.outstanding = loan.outstanding
        /\ a.apr_bps = loan.apr_bps /\ TotalOwed(a) = OwedAt(loan, now)
        /\ a.accrued_interest = loan.accrued_interest + Earned(loan, now)
    BY <2>1, AccrueIs
  <2>4. TotalOwed(Accrue(loan, now + DAY)) = OwedAt(a, now + DAY)
    BY <2>1, <2>2, AccrueIs, AccruedTwice
  <2>5. Earned(a, now + DAY) = (left + r) \div ACCRUAL_DENOMINATOR
    <3>1. now + DAY - a.last_accrual_at = DAY
      BY <2>2, <2>3
    <3>2. PICK at \in Nat : at = now + DAY
      BY <2>2
    <3>3. PICK l \in LifeType : l = a
      BY <2>3
    <3> HIDE DEF a
    <3>4. /\ l.outstanding = loan.outstanding /\ l.apr_bps = loan.apr_bps
          /\ at - l.last_accrual_at = DAY
      BY <2>1, <2>3, <3>1, <3>2, <3>3
    <3>5. l.interest_remainder = r
      BY <3>3 DEF r
    <3>6. Earned(l, at) = (left + r) \div ACCRUAL_DENOMINATOR
      BY <3>4, <3>5 DEF Earned, left
    <3>7. QED
      BY <3>2, <3>3, <3>6
  <2> HIDE DEF a
  <2>6. /\ OwedAt(a, now + DAY) = a.outstanding + (a.accrued_interest + Earned(a, now + DAY))
        /\ Earned(a, now + DAY) \in Nat
        /\ TotalOwed(a) = a.outstanding + a.accrued_interest
        /\ a.outstanding \in Nat /\ a.accrued_interest \in Nat
    BY <2>2, <2>3, EarnedFacts, SoundFields DEF TotalOwed
  <2>7. left \in Nat /\ full \in Nat /\ left <= full
    <3>1. /\ loan.outstanding * loan.apr_bps \in Nat /\ loan.principal * loan.apr_bps \in Nat
          /\ loan.outstanding * loan.apr_bps <= loan.principal * loan.apr_bps
      BY <2>1, Multiply
    <3>2. QED
      BY <2>1, <3>1, Multiply
  <2>8. InterestPerDayPastDue(loan.principal, loan.apr_bps)
          = (full + ACCRUAL_DENOMINATOR - 1) \div ACCRUAL_DENOMINATOR
    BY DEF InterestPerDayPastDue, DivCeil
  <2> HIDE DEF left, full, r
  <2>9. r \in Nat /\ r < ACCRUAL_DENOMINATOR
    BY <2>3, SoundFields DEF r
  <2>10. /\ left + r \in Nat /\ full + ACCRUAL_DENOMINATOR - 1 \in Nat
         /\ left + r <= full + ACCRUAL_DENOMINATOR - 1
    BY <2>1, <2>7, <2>9
  <2>11. Earned(a, now + DAY) <= InterestPerDayPastDue(loan.principal, loan.apr_bps)
    BY <2>1, <2>5, <2>8, <2>10, DividesMore
  <2>12. OwedAt(a, now + DAY) - TotalOwed(a) = Earned(a, now + DAY)
    BY <2>6
  <2>13. QED
    BY <2>4, <2>11, <2>12 DEF a
<1>2. QED
  BY <1>1, LoanInductive, PTL

-----------------------------------------------------------------------------
(***************************************************************************)
(* What falls due when.                                                    *)
(***************************************************************************)
LEMMA DueGrows ==
  ASSUME NEW p \in Nat, NEW n \in Nat \ {0}, NEW i \in Nat, NEW j \in Nat, i <= j
  PROVE  DivCeil(p * i, n) <= DivCeil(p * j, n)
<1>1. p * i \in Nat /\ p * j \in Nat /\ p * i <= p * j
  <2>1. i * p <= j * p /\ p * i = i * p /\ p * j = j * p /\ i * p \in Nat /\ j * p \in Nat
    BY Multiply
  <2>2. QED
    BY <2>1
<1>2. ASSUME NEW x \in Nat, NEW y \in Nat, x <= y PROVE DivCeil(x, n) <= DivCeil(y, n)
  <2>1. x + n - 1 \in Nat /\ y + n - 1 \in Nat /\ x + n - 1 <= y + n - 1
    BY <1>2
  <2>2. QED
    BY <2>1, DividesMore DEF DivCeil
<1>3. QED
  BY <1>1, <1>2

\* Nothing is due before the first instalment, and everything at the last.
LEMMA DueEnds ==
  ASSUME NEW p \in Nat, NEW n \in Nat \ {0}
  PROVE  DivCeil(p * 0, n) = 0 /\ DivCeil(p * n, n) = p
<1>1. n - 1 \in 0..(n - 1)
  OBVIOUS
<1>2. ASSUME NEW q \in Nat, NEW x, x = q * n PROVE DivCeil(x, n) = q
  <2>1. q * n \in Nat
    BY Multiply
  <2>2. x + n - 1 = q * n + (n - 1)
    BY <1>2, <2>1
  <2>3. ASSUME NEW y, y = q * n + (n - 1) PROVE y \div n = q
    BY <1>1, <2>3, DividesOnce
  <2>4. QED
    BY <2>2, <2>3 DEF DivCeil
<1>3. p * 0 = 0 * n
  OBVIOUS
<1>4. QED
  BY <1>2, <1>3

\* While principal is left there is a first instalment it does not cover.
LEMMA UnpaidIs ==
  ASSUME NEW l, SoundLoan(l), IsOpen(l)
  PROVE  LET u == Unpaid(l)
             repaid == l.principal - l.outstanding
         IN  /\ u \in 1..Periods(l)
             /\ PrincipalDueAfter(l, u) > repaid
             /\ \A j \in 1..(u - 1) : PrincipalDueAfter(l, j) <= repaid
<1> DEFINE n == Periods(l)
           repaid == l.principal - l.outstanding
           due(k) == PrincipalDueAfter(l, k)
           S == {k \in 1..n : due(k) > repaid}
           R == OpToRel(<, Nat)
<1>1. /\ l.principal \in Nat /\ l.outstanding \in Nat /\ l.outstanding > 0
      /\ l.outstanding <= l.principal /\ n \in Nat \ {0}
  BY SoundFields, TermIs DEF SoundLoan
<1>2. \A k \in 1..n : due(k) \in Nat
  <2>1. ASSUME NEW k \in 1..n PROVE due(k) \in Nat
    <3>1. l.principal * k \in Nat
      BY <1>1, Multiply
    <3>2. QED
      BY <1>1, <3>1, RoundedUp DEF PrincipalDueAfter
  <2>2. QED
    BY <2>1
<1>3. due(n) > repaid
  <2>1. due(n) = l.principal
    BY <1>1, DueEnds DEF PrincipalDueAfter
  <2>2. QED
    BY <1>1, <2>1
<1>4. repaid \in Nat
  BY <1>1
<1>5. IsWellFoundedOn(R, Nat)
  BY NatLessThanWellFounded
<1>6. S \subseteq Nat /\ S # {}
  <2>1. n \in 1..n
    BY <1>1
  <2>2. n \in S
    BY <1>3, <2>1
  <2>3. QED
    BY <1>1, <2>2
<1> HIDE DEF due, repaid, S, R, n
<1>7. PICK m \in S : \A e \in S : ~(<<e, m>> \in R)
  BY <1>5, <1>6, WFMin
<1>8. \A e \in S : ~(e < m)
  BY <1>6, <1>7 DEF R, OpToRel
<1>9. m \in 1..n /\ due(m) > repaid
  BY <1>7 DEF S
<1>10. ASSUME NEW j \in 1..(m - 1) PROVE due(j) <= repaid
  <2>1. j \in 1..n /\ j < m
    BY <1>1, <1>9
  <2>2. j \notin S
    BY <1>8, <2>1
  <2>3. ~(due(j) > repaid)
    BY <2>1, <2>2 DEF S
  <2>4. QED
    BY <1>2, <1>4, <2>1, <2>3
<1>11. \E k \in 1..n : due(k) > repaid /\ \A j \in 1..(k - 1) : due(j) <= repaid
  BY <1>9, <1>10
<1>12. Unpaid(l) = CHOOSE k \in 1..n : due(k) > repaid /\ \A j \in 1..(k - 1) : due(j) <= repaid
  BY DEF Unpaid, due, repaid, n
<1>13. /\ Unpaid(l) \in 1..n /\ due(Unpaid(l)) > repaid
       /\ \A j \in 1..(Unpaid(l) - 1) : due(j) <= repaid
  BY <1>11, <1>12
<1>14. QED
  BY <1>13 DEF due, repaid, n

\* position.ts: a payment is shown as late exactly when the program's schedule has more
\* principal due than was repaid, and then it asks for the difference.
THEOREM LatenessIsTheProgram == LoanLifeAssumption /\ Spec => []LateAsTheProgramHasIt
<1> SUFFICES ASSUME LoanLifeAssumption PROVE Spec => []LateAsTheProgramHasIt
  OBVIOUS
<1>1. LoanInv => LateAsTheProgramHasIt
  <2> DEFINE repaid == loan.principal - loan.outstanding
             behind == SaturatingSub(PrincipalDueBy(loan, now), repaid)
             n == Periods(loan)
             passed == now \div REPAYMENT_PERIOD
             k == Least(passed, n)
             due(i) == DivCeil(loan.principal * i, n)
             u == Unpaid(loan)
             dueAt == loan.opened_at + u * REPAYMENT_PERIOD
             next == NextOf(loan, now)
  <2> SUFFICES ASSUME LoanInv, IsOpen(loan)
               PROVE  next.late = (behind > 0) /\ (next.late => next.principal = behind)
    BY DEF LateAsTheProgramHasIt
  <2>1. /\ SoundLoan(loan) /\ now \in Nat /\ loan.principal \in Nat /\ loan.outstanding \in Nat
        /\ loan.outstanding <= loan.principal /\ loan.opened_at = 0
        /\ REPAYMENT_PERIOD \in Nat \ {0} /\ n \in Nat \ {0} /\ TermOf(loan) = n
    BY SoundFields, TermIs DEF LoanInv, SoundLoan
  <2>2. /\ u \in 1..n /\ due(u) > repaid /\ \A j \in 1..(u - 1) : due(j) <= repaid
    BY <2>1, UnpaidIs DEF PrincipalDueAfter
  <2>3. now - loan.opened_at = now
    BY <2>1
  <2>4. behind = SaturatingSub(due(k), repaid)
    BY <2>1, <2>3 DEF PrincipalDueBy
  <2>5. OwedBy(loan, now) = due(k)
    BY <2>3 DEF OwedBy, PrincipalDueAfter
  <2>6. /\ next.late = ~(dueAt > now)
        /\ ~(dueAt > now) => next.principal = OwedBy(loan, now) - repaid
    <3>1. CASE dueAt > now
      BY <3>1 DEF NextOf
    <3>2. CASE ~(dueAt > now)
      BY <3>2 DEF NextOf
    <3>3. QED
      BY <3>1, <3>2
  <2> HIDE DEF n, u, next, behind
  <2>7. /\ passed \in Nat /\ passed * REPAYMENT_PERIOD \in Nat
        /\ passed * REPAYMENT_PERIOD <= now
        /\ now < passed * REPAYMENT_PERIOD + REPAYMENT_PERIOD
    BY <2>1, DivMod, Division
  <2> HIDE DEF passed
  <2>8. k \in Nat /\ k <= n /\ k <= passed /\ (k = n \/ k = passed)
    BY <2>1, <2>7 DEF Least
  <2>9. u \in Nat /\ u * REPAYMENT_PERIOD \in Nat /\ dueAt = u * REPAYMENT_PERIOD
    <3>1. u \in Nat
      BY <2>1, <2>2
    <3>2. u * REPAYMENT_PERIOD \in Nat
      BY <2>1, <3>1, Multiply
    <3>3. QED
      BY <2>1, <3>1, <3>2
  <2>10. repaid \in Nat
    BY <2>1
  <2>11. \A i \in Nat : due(i) \in Nat
    <3>1. ASSUME NEW i \in Nat PROVE due(i) \in Nat
      <4>1. loan.principal * i \in Nat
        BY <2>1, Multiply
      <4>2. QED
        BY <2>1, <4>1, RoundedUp
    <3>2. QED
      BY <3>1
  <2>12. \A i, j \in Nat : i <= j => due(i) <= due(j)
    BY <2>1, DueGrows
  <2>13. due(0) = 0
    BY <2>1, DueEnds
  <2> HIDE DEF due, dueAt, repaid, k
  <2>14. CASE u <= passed
    <3>1. u * REPAYMENT_PERIOD <= passed * REPAYMENT_PERIOD
      BY <2>1, <2>7, <2>9, <2>14, Multiply
    <3>2. ~(dueAt > now)
      BY <2>1, <2>7, <2>9, <3>1
    <3>3. u <= k
      BY <2>1, <2>2, <2>8, <2>9, <2>14
    <3>4. due(k) > repaid
      BY <2>2, <2>8, <2>9, <2>10, <2>11, <2>12, <3>3
    <3>5. behind = due(k) - repaid /\ behind > 0
      BY <2>4, <2>8, <2>10, <2>11, <3>4 DEF SaturatingSub
    <3>6. QED
      BY <2>5, <2>6, <3>2, <3>5
  <2>15. CASE ~(u <= passed)
    <3>1. passed + 1 <= u /\ passed + 1 \in Nat
      BY <2>7, <2>9, <2>15
    <3>2. (passed + 1) * REPAYMENT_PERIOD <= u * REPAYMENT_PERIOD
      BY <2>1, <2>9, <3>1, Multiply
    <3>3. (passed + 1) * REPAYMENT_PERIOD = passed * REPAYMENT_PERIOD + 1 * REPAYMENT_PERIOD
          /\ 1 * REPAYMENT_PERIOD = REPAYMENT_PERIOD
      BY <2>1, <2>7, Multiply
    <3>4. dueAt > now
      BY <2>1, <2>7, <2>9, <3>2, <3>3
    <3>5. due(k) <= repaid
      <4>1. CASE k = 0
        BY <2>10, <2>13, <4>1
      <4>2. CASE k # 0
        <5>1. k \in 1..(u - 1)
          BY <2>7, <2>8, <2>9, <3>1, <4>2
        <5>2. QED
          BY <2>2, <5>1
      <4>3. QED
        BY <4>1, <4>2
    <3>6. behind = 0
      BY <2>4, <2>8, <2>10, <2>11, <3>5 DEF SaturatingSub
    <3>7. (behind > 0) = FALSE
      BY <3>6
    <3>8. next.late = FALSE
      BY <2>6, <3>4
    <3>9. QED
      BY <3>7, <3>8
  <2>16. QED
    BY <2>14, <2>15
<1>2. QED
  BY <1>1, LoanInductive, PTL

-----------------------------------------------------------------------------
(***************************************************************************)
(* The schedule that is shown before a loan is signed.                     *)
(***************************************************************************)

\* Of no fewer units than instalments something falls due with each of them.
LEMMA DueSteps ==
  ASSUME NEW p \in Nat, NEW n \in Nat \ {0}, n <= p, NEW k \in Nat
  PROVE  DueBy(p, n, k) \in Nat /\ DueBy(p, n, k) < DueBy(p, n, k + 1)
<1> DEFINE a == p * k + n - 1
           b == p * (k + 1) + n - 1
           q == a \div n
           r == a % n
<1>1. p * k \in Nat /\ p * (k + 1) \in Nat
  BY Multiply
<1>2. p * (k + 1) = p * k + p
  BY <1>1
<1>3. a \in Nat /\ b \in Nat /\ a + n <= b
  BY <1>1, <1>2
<1>4. DueBy(p, n, k) = q /\ DueBy(p, n, k + 1) = b \div n
  BY DEF DueBy, DivCeil
<1> HIDE DEF a, b
<1>5. q \in Nat /\ r \in 0..(n - 1) /\ a = q * n + r /\ q * n \in Nat
  BY <1>3, DivMod, Division
<1> HIDE DEF q, r
<1>6. a + n = (q + 1) * n + r
  <2>1. (q + 1) * n = q * n + 1 * n
    BY <1>5, Multiply
  <2>2. QED
    BY <1>3, <1>5, <2>1
<1>7. (a + n) \div n = q + 1
  <2> DEFINE s == q + 1
  <2>1. s \in Nat
    BY <1>5
  <2> HIDE DEF s
  <2>2. ASSUME NEW x, x = s * n + r PROVE x \div n = s
    BY <1>5, <2>1, <2>2, DividesOnce
  <2>3. QED
    BY <1>6, <2>2 DEF s
<1>8. (a + n) \div n <= b \div n /\ b \div n \in Nat
  BY <1>3, DividesMore, DivMod
<1>9. QED
  BY <1>4, <1>5, <1>7, <1>8

\* What falls due is never more than there is, nothing at the start and all of it at the end.
LEMMA DueIs ==
  ASSUME NEW p \in Nat, NEW n \in Nat \ {0}, NEW k \in 0..n
  PROVE  /\ DueBy(p, n, k) \in Nat /\ DueBy(p, n, k) <= p
         /\ DueBy(p, n, 0) = 0 /\ DueBy(p, n, n) = p
<1>1. DueBy(p, n, 0) = 0 /\ DueBy(p, n, n) = p
  BY DueEnds DEF DueBy
<1>2. k \in Nat /\ k <= n
  OBVIOUS
<1>3. DueBy(p, n, k) <= DueBy(p, n, n)
  BY <1>2, DueGrows DEF DueBy
<1>4. DueBy(p, n, k) \in Nat
  <2>1. p * k \in Nat
    BY <1>2, Multiply
  <2>2. QED
    BY <2>1, RoundedUp DEF DueBy
<1>5. QED
  BY <1>1, <1>3, <1>4

\* What accrues in the period after the k-th instalment.
Accruing(p, apr, n, k) == (p - DueBy(p, n, k)) * apr * REPAYMENT_PERIOD

LEMMA AccruingType ==
  ASSUME NEW p \in Nat, NEW apr \in Nat, NEW n \in Nat \ {0}, NEW k \in 0..n
  PROVE  Accruing(p, apr, n, k) \in Nat
<1> DEFINE x == p - DueBy(p, n, k)
<1>1. x \in Nat /\ REPAYMENT_PERIOD \in Nat
  BY DueIs, LoanAssumption
<1>2. Accruing(p, apr, n, k) = x * apr * REPAYMENT_PERIOD
  BY DEF Accruing
<1> HIDE DEF x
<1>3. QED
  BY <1>1, <1>2, Multiply

\* It is added up period by period.
LEMMA AccruedSteps ==
  ASSUME NEW p \in Nat, NEW apr \in Nat, NEW n \in Nat \ {0}
  PROVE  /\ AccruedBy(p, apr, n, 0) = 0
         /\ \A k \in 0..n : AccruedBy(p, apr, n, k) \in Nat
         /\ \A k \in 0..(n - 1) :
              AccruedBy(p, apr, n, k + 1) = AccruedBy(p, apr, n, k) + Accruing(p, apr, n, k)
<1> DEFINE f(k) == [j \in 1..k |-> Accruing(p, apr, n, j - 1)]
<1>1. \A k : AccruedBy(p, apr, n, k) = SumFunctionOnSet(f(k), 1..k)
  BY DEF AccruedBy, SumFunction, Accruing
<1>2. \A k \in 0..n : /\ IsFiniteSet(1..k) /\ DOMAIN f(k) = 1..k
                      /\ \A j \in 1..k : f(k)[j] = Accruing(p, apr, n, j - 1) /\ f(k)[j] \in Nat
  <2>1. ASSUME NEW k \in 0..n, NEW j \in 1..k PROVE Accruing(p, apr, n, j - 1) \in Nat
    <3>1. j - 1 \in 0..n
      OBVIOUS
    <3>2. QED
      BY <3>1, AccruingType
  <2>2. \A k \in 0..n : IsFiniteSet(1..k)
    BY FS_Interval
  <2>3. QED
    BY <2>1, <2>2
<1> HIDE DEF f
<1>3. \A k \in 0..n : AccruedBy(p, apr, n, k) \in Nat
  BY <1>1, <1>2, SumOfNaturals
<1>4. AccruedBy(p, apr, n, 0) = 0
  <2>1. 1..0 = {}
    OBVIOUS
  <2>2. QED
    BY <1>1, <2>1, SumEmpty
<1>5. ASSUME NEW k \in 0..(n - 1)
      PROVE  AccruedBy(p, apr, n, k + 1) = AccruedBy(p, apr, n, k) + Accruing(p, apr, n, k)
  <2> DEFINE g == f(k + 1)
             h == f(k)
             S == 1..(k + 1)
             T == 1..k
  <2>1. k \in 0..n /\ k + 1 \in 0..n /\ k + 1 \in S /\ S \ {k + 1} = T /\ k + 1 - 1 = k
    OBVIOUS
  <2>2. /\ IsFiniteSet(S) /\ \A j \in S : g[j] = Accruing(p, apr, n, j - 1) /\ g[j] \in Int
        /\ IsFiniteSet(T) /\ \A j \in T : h[j] = Accruing(p, apr, n, j - 1) /\ h[j] \in Int
    BY <1>2, <2>1
  <2>3. \A j \in T : j \in S
    OBVIOUS
  <2>4. /\ AccruedBy(p, apr, n, k + 1) = SumFunctionOnSet(g, S)
        /\ AccruedBy(p, apr, n, k) = SumFunctionOnSet(h, T)
    BY <1>1
  <2> HIDE DEF g, h, S, T
  <2>5. SumFunctionOnSet(g, S) = g[k + 1] + SumFunctionOnSet(g, S \ {k + 1})
    BY <2>1, <2>2, SumTakesOut
  <2>6. SumFunctionOnSet(g, T) = SumFunctionOnSet(h, T)
    BY <2>2, <2>3, SumSame
  <2>7. g[k + 1] = Accruing(p, apr, n, k)
    BY <2>1, <2>2
  <2>8. AccruedBy(p, apr, n, k) \in Nat /\ Accruing(p, apr, n, k) \in Nat
    BY <1>3, <2>1, AccruingType
  <2>9. QED
    BY <2>1, <2>4, <2>5, <2>6, <2>7, <2>8
<1>6. QED
  BY <1>3, <1>4, <1>5

LEMMA BookedIs ==
  ASSUME NEW p \in Nat, NEW apr \in Nat, NEW n \in Nat \ {0}
  PROVE  /\ BookedBy(p, apr, n, 0) = 0
         /\ \A k \in 0..n : BookedBy(p, apr, n, k) \in Nat
<1>1. ACCRUAL_DENOMINATOR \in Nat \ {0}
  BY LoanAssumption
<1>2. \A k \in 0..n : BookedBy(p, apr, n, k) \in Nat
  BY <1>1, AccruedSteps, DivMod DEF BookedBy
<1>3. BookedBy(p, apr, n, 0) = 0 \div ACCRUAL_DENOMINATOR
  BY AccruedSteps DEF BookedBy
<1>4. 0 \div ACCRUAL_DENOMINATOR = 0
  BY <1>1
<1>5. QED
  BY <1>2, <1>3, <1>4

\* The rows up to one come to the principal due by then and the interest booked by then.
LEMMA RowsComeTo ==
  ASSUME NEW p \in Nat, NEW apr \in Nat, NEW n \in Nat \ {0}, NEW k \in 0..n
  PROVE  SumFunction([j \in 1..k |-> Schedule(p, apr, n)[j].principal
                                       + Schedule(p, apr, n)[j].interest])
           = DueBy(p, n, k) + BookedBy(p, apr, n, k)
<1> DEFINE D(i) == DueBy(p, n, i)
           B(i) == BookedBy(p, apr, n, i)
           row(j) == (D(j) - D(j - 1)) + (B(j) - B(j - 1))
           f(i) == [j \in 1..i |-> row(j)]
           Good == {i \in 0..n : SumFunctionOnSet(f(i), 1..i) = D(i) + B(i)}
<1>1. \A i \in 0..n : D(i) \in Nat /\ B(i) \in Nat
  BY DueIs, BookedIs
<1>2. D(0) = 0 /\ B(0) = 0
  <2>1. 0 \in 0..n
    OBVIOUS
  <2>2. QED
    BY <2>1, DueIs, BookedIs
<1>3. \A i \in 0..n :
        SumFunction([j \in 1..i |-> Schedule(p, apr, n)[j].principal
                                      + Schedule(p, apr, n)[j].interest])
          = SumFunctionOnSet(f(i), 1..i)
  <2>1. ASSUME NEW i \in 0..n
        PROVE  SumFunction([j \in 1..i |-> Schedule(p, apr, n)[j].principal
                                             + Schedule(p, apr, n)[j].interest])
                 = SumFunctionOnSet(f(i), 1..i)
    <3>1. \A j \in 1..i : /\ Schedule(p, apr, n)[j].principal = D(j) - D(j - 1)
                          /\ Schedule(p, apr, n)[j].interest = B(j) - B(j - 1)
      BY DEF Schedule
    <3>2. [j \in 1..i |-> Schedule(p, apr, n)[j].principal
                            + Schedule(p, apr, n)[j].interest] = f(i)
      BY <3>1
    <3>3. DOMAIN f(i) = 1..i
      OBVIOUS
    <3> HIDE DEF f
    <3>4. QED
      BY <3>2, <3>3 DEF SumFunction
  <2>2. QED
    BY <2>1
<1> HIDE DEF D, B
<1>4. \A i \in 0..n : IsFiniteSet(1..i) /\ \A j \in 1..i : f(i)[j] = row(j) /\ row(j) \in Int
  <2>1. \A i \in 0..n : IsFiniteSet(1..i)
    BY FS_Interval
  <2>2. ASSUME NEW i \in 0..n, NEW j \in 1..i PROVE row(j) \in Int
    <3>1. j \in 0..n /\ j - 1 \in 0..n
      OBVIOUS
    <3>2. QED
      BY <1>1, <3>1
  <2>3. QED
    BY <2>1, <2>2
<1>5. 0 \in Good
  <2>1. 1..0 = {} /\ 0 \in 0..n
    OBVIOUS
  <2>2. SumFunctionOnSet(f(0), {}) = 0
    BY SumEmpty
  <2>3. QED
    BY <1>2, <2>1, <2>2
<1>6. ASSUME NEW i \in 1..n, i - 1 \in Good PROVE i \in Good
  <2> DEFINE g == f(i)
             h == f(i - 1)
             S == 1..i
             T == 1..(i - 1)
             r == row(i)
  <2>1. i \in 0..n /\ i - 1 \in 0..n /\ i \in S /\ S \ {i} = T
    OBVIOUS
  <2>2. /\ IsFiniteSet(S) /\ \A j \in S : g[j] = row(j) /\ g[j] \in Int
        /\ IsFiniteSet(T) /\ \A j \in T : h[j] = row(j) /\ h[j] \in Int
    BY <1>4, <2>1
  <2>3. \A j \in T : j \in S
    OBVIOUS
  <2>4. SumFunctionOnSet(h, T) = D(i - 1) + B(i - 1)
    BY <1>6
  <2>5. r = (D(i) - D(i - 1)) + (B(i) - B(i - 1))
    OBVIOUS
  <2>6. g[i] = r
    BY <2>1, <2>2
  <2> HIDE DEF g, h, S, T, r, row
  <2>7. SumFunctionOnSet(g, S) = g[i] + SumFunctionOnSet(g, S \ {i})
    BY ZenonT(40), <2>1, <2>2, SumTakesOut
  <2>8. SumFunctionOnSet(g, T) = SumFunctionOnSet(h, T)
    BY <2>2, <2>3, SumSame
  <2>9. D(i) \in Nat /\ D(i - 1) \in Nat /\ B(i) \in Nat /\ B(i - 1) \in Nat
    BY <1>1, <2>1
  <2>10. SumFunctionOnSet(g, S) = D(i) + B(i)
    <3>1. SumFunctionOnSet(g, S) = r + (D(i - 1) + B(i - 1))
      BY <2>1, <2>4, <2>6, <2>7, <2>8
    <3> HIDE DEF D, B
    <3>2. QED
      BY <2>5, <2>9, <3>1
  <2>11. QED
    BY <2>1, <2>10 DEF g, S
<1>7. k \in Good
  <2> HIDE DEF Good
  <2>1. n \in Nat
    OBVIOUS
  <2>2. \A i \in 0..n : i \in Good
    BY <1>5, <1>6, <2>1, CountingInduction
  <2>3. QED
    BY <2>2
<1>8. QED
  BY <1>3, <1>7 DEF D, B

-----------------------------------------------------------------------------
(***************************************************************************)
(* The loan of an operator who keeps to the schedule.                      *)
(***************************************************************************)

\* A repayment that leaves some principal takes the interest first.
LEMMA RepaymentSplits ==
  ASSUME NEW l, SoundLoan(l), IsOpen(l), NEW x \in Nat
  PROVE  LET m == ApplyRepayment(l, x)
         IN  /\ m.outstanding = l.outstanding - PrincipalPart(l, x)
             /\ m.accrued_interest = l.accrued_interest - InterestPart(l, x)
             /\ m.outstanding > 0 =>
                  /\ x < l.outstanding + l.accrued_interest
                  /\ m.outstanding = IF x <= l.accrued_interest
                                       THEN l.outstanding
                                       ELSE l.outstanding - (x - l.accrued_interest)
<1> DEFINE m == ApplyRepayment(l, x)
           i == InterestPart(l, x)
           p == PrincipalPart(l, x)
<1>1. /\ l \in LifeType /\ l.outstanding \in Nat /\ l.accrued_interest \in Nat
      /\ TotalOwed(l) = l.outstanding + l.accrued_interest
  BY SoundFields DEF SoundLoan, TotalOwed
<1>2. m.outstanding = l.outstanding - p /\ m.accrued_interest = l.accrued_interest - i
  BY <1>1 DEF ApplyRepayment, LifeType
<1>3. /\ i = Least(Least(x, TotalOwed(l)), l.accrued_interest)
      /\ p = Least(x, TotalOwed(l)) - i
  BY DEF InterestPart, PrincipalPart
<1> HIDE DEF m, i, p
<1>4. ASSUME m.outstanding > 0
      PROVE  /\ x < l.outstanding + l.accrued_interest
             /\ m.outstanding = IF x <= l.accrued_interest
                                  THEN l.outstanding
                                  ELSE l.outstanding - (x - l.accrued_interest)
  BY <1>1, <1>2, <1>3, <1>4 DEF Least
<1>5. QED
  BY <1>2, <1>4 DEF m, i, p

\* What is earned and what is left over are what accrues, to the last fraction.
LEMMA NothingIsDropped ==
  ASSUME NEW l, l \in LifeType, NEW at \in Nat, at >= l.last_accrual_at
  PROVE  /\ Earned(l, at) \in Nat /\ Left(l, at) \in 0..(ACCRUAL_DENOMINATOR - 1)
         /\ Earned(l, at) * ACCRUAL_DENOMINATOR + Left(l, at)
              = l.outstanding * l.apr_bps * (at - l.last_accrual_at) + l.interest_remainder
<1> DEFINE rate == l.outstanding * l.apr_bps
           x == rate * (at - l.last_accrual_at) + l.interest_remainder
<1>1. rate \in Nat /\ l.last_accrual_at \in Nat /\ l.interest_remainder \in Nat
      /\ ACCRUAL_DENOMINATOR \in Nat \ {0}
  BY SoundFields
<1>2. Earned(l, at) = x \div ACCRUAL_DENOMINATOR /\ Left(l, at) = x % ACCRUAL_DENOMINATOR
  BY DEF Earned, Left
<1> HIDE DEF rate
<1>3. at - l.last_accrual_at \in Nat /\ rate * (at - l.last_accrual_at) \in Nat
  BY <1>1, Multiply
<1>4. x \in Nat
  BY <1>1, <1>3
<1> HIDE DEF x
<1>5. /\ x \div ACCRUAL_DENOMINATOR \in Nat
      /\ x % ACCRUAL_DENOMINATOR \in 0..(ACCRUAL_DENOMINATOR - 1)
      /\ x = (x \div ACCRUAL_DENOMINATOR) * ACCRUAL_DENOMINATOR + (x % ACCRUAL_DENOMINATOR)
  BY <1>1, <1>4, DivMod, Division
<1>6. QED
  BY <1>2, <1>5 DEF x, rate

\* The k-th instalment is the last that was paid, and since then nothing but time has passed.
OnSchedule(l, at, k) ==
  LET p == l.principal
      n == TermOf(l)
      R == REPAYMENT_PERIOD
  IN  /\ k < n /\ k * R <= l.last_accrual_at /\ at <= (k + 1) * R
      /\ (BookedBy(p, l.apr_bps, n, k) + l.accrued_interest) * ACCRUAL_DENOMINATOR
             + l.interest_remainder
           = AccruedBy(p, l.apr_bps, n, k)
               + l.outstanding * l.apr_bps * (l.last_accrual_at - k * R)

PaidUpTo(k) ==
  LET p == loan.principal
      n == TermOf(loan)
  IN  /\ loan.outstanding = p - DueBy(p, n, k)
      /\ paid = DueBy(p, n, k) + BookedBy(p, loan.apr_bps, n, k)
      /\ k * REPAYMENT_PERIOD <= now
      /\ IsOpen(loan) => OnSchedule(loan, now, k)
      /\ ~IsOpen(loan) => k = n

KeptInv ==
  /\ TermOf(loan) <= loan.principal
  /\ kept => \E k \in 0..TermOf(loan) : PaidUpTo(k)

\* What is known of a loan in life.
LEMMA LoanFacts ==
  ASSUME LoanInv
  PROVE  /\ now \in Nat /\ paid \in Nat /\ SoundLoan(loan) /\ loan \in LifeType
         /\ loan.last_accrual_at <= now /\ loan.opened_at = 0 /\ loan.last_accrual_at \in Nat
         /\ loan.principal \in Nat /\ loan.outstanding \in Nat /\ loan.apr_bps \in Nat
         /\ loan.accrued_interest \in Nat /\ loan.interest_remainder \in Nat
         /\ REPAYMENT_PERIOD \in Nat \ {0} /\ ACCRUAL_DENOMINATOR \in Nat \ {0}
         /\ TermOf(loan) \in Nat \ {0} /\ Periods(loan) = TermOf(loan)
         /\ IsOpen(loan) <=> loan.outstanding > 0
  BY SoundFields, TermIs DEF LoanInv, SoundLoan

\* The next instalment of an open loan on schedule is the one after the last that was paid.
LEMMA NextInstalment ==
  ASSUME LoanInv, IsOpen(loan), TermOf(loan) <= loan.principal,
         NEW k \in 0..TermOf(loan),
         loan.outstanding = loan.principal - DueBy(loan.principal, TermOf(loan), k)
  PROVE  /\ k < TermOf(loan) /\ k + 1 \in 0..TermOf(loan)
         /\ Unpaid(loan) = k + 1
         /\ NextOf(loan, now).at = (k + 1) * REPAYMENT_PERIOD
         /\ NextOf(loan, now).late <=> ~((k + 1) * REPAYMENT_PERIOD > now)
<1> DEFINE p == loan.principal
           n == TermOf(loan)
           D(i) == DueBy(p, n, i)
           u == Unpaid(loan)
<1>1. /\ n \in Nat \ {0} /\ p \in Nat /\ n <= p /\ loan.outstanding \in Nat
      /\ loan.outstanding > 0 /\ loan.opened_at = 0 /\ Periods(loan) = n
      /\ REPAYMENT_PERIOD \in Nat \ {0} /\ SoundLoan(loan) /\ now \in Nat
  BY LoanFacts
<1>2. loan.outstanding = p - D(k) /\ p - loan.outstanding = D(k)
  BY <1>1, DueIs
<1>3. /\ u \in 1..n /\ D(u) > D(k) /\ \A j \in 1..(u - 1) : D(j) <= D(k)
  <2>1. \A j : PrincipalDueAfter(loan, j) = D(j)
    BY <1>1 DEF PrincipalDueAfter, DueBy
  <2>2. QED
    BY <1>1, <1>2, <2>1, UnpaidIs
<1>4. k # n
  <2>1. D(n) = p
    BY <1>1, DueIs
  <2>2. QED
    BY <1>1, <1>2, <2>1
<1>5. k \in Nat /\ k < n /\ k + 1 \in 0..n
  BY <1>1, <1>4
<1>6. D(k) \in Nat /\ D(k + 1) \in Nat /\ D(u) \in Nat /\ D(k) < D(k + 1)
  <2>1. D(k) \in Nat /\ D(k) < D(k + 1)
    BY <1>1, <1>5, DueSteps
  <2>2. k + 1 \in 0..n /\ u \in 0..n
    BY <1>1, <1>3, <1>5
  <2>3. ASSUME NEW i \in 0..n PROVE D(i) \in Nat
    BY <1>1, DueIs
  <2> HIDE DEF D, u
  <2>4. D(k + 1) \in Nat /\ D(u) \in Nat
    BY <2>2, <2>3
  <2>5. QED
    BY <2>1, <2>4
<1>7. \A i, j \in Nat : i <= j => D(i) <= D(j)
  BY <1>1, DueGrows DEF DueBy
<1> HIDE DEF D, u
<1>8. u \in Nat /\ k < u
  <2>1. u \in Nat
    BY <1>1, <1>3
  <2>2. ASSUME u <= k PROVE FALSE
    <3>1. D(u) <= D(k)
      BY <1>5, <1>7, <2>1, <2>2
    <3>2. QED
      BY <1>3, <1>6, <3>1
  <2>3. QED
    BY <1>5, <2>1, <2>2
<1>9. u = k + 1
  <2>1. ASSUME k + 1 < u PROVE FALSE
    <3>1. k + 1 \in 1..(u - 1)
      BY <1>5, <1>8, <2>1
    <3>2. QED
      BY <1>3, <1>6, <3>1
  <2>2. QED
    BY <1>5, <1>8, <2>1
<1> DEFINE dueAt == loan.opened_at + u * REPAYMENT_PERIOD
<1>10. dueAt = (k + 1) * REPAYMENT_PERIOD
  <2>1. u * REPAYMENT_PERIOD \in Nat
    BY <1>1, <1>8, Multiply
  <2>2. QED
    BY <1>1, <1>9, <2>1
<1>11. NextOf(loan, now).at = dueAt /\ (NextOf(loan, now).late <=> ~(dueAt > now))
  <2>1. CASE dueAt > now
    BY <2>1 DEF NextOf, u
  <2>2. CASE ~(dueAt > now)
    BY <2>2 DEF NextOf, u
  <2>3. QED
    BY <2>1, <2>2
<1>12. QED
  BY <1>5, <1>9, <1>10, <1>11 DEF u

LEMMA KeptStarts ==
  ASSUME LoanLifeAssumption, \A p \in Principals : MAX_TERM_PERIODS <= p, Init
  PROVE  KeptInv
<1>1. PICK mint \in RewardMints, principal \in Principals, apr \in Aprs,
           term \in 1..MAX_TERM_PERIODS : loan = NewLoan(mint, principal, apr, term)
  BY DEF Init
<1>2. /\ LoanInv /\ now = 0 /\ paid = 0
      /\ principal \in Nat /\ MAX_TERM_PERIODS \in Nat /\ MAX_TERM_PERIODS <= principal
      /\ term \in Nat \ {0} /\ term <= MAX_TERM_PERIODS
  BY LoanStarts, ArithmeticAssumption DEF Init, LoanLifeAssumption, U64
<1>3. /\ loan.principal = principal /\ loan.outstanding = principal
      /\ loan.accrued_interest = 0 /\ loan.interest_remainder = 0
      /\ loan.opened_at = 0 /\ loan.due_at = term * REPAYMENT_PERIOD
      /\ loan.last_accrual_at = 0 /\ IsOpen(loan)
  BY <1>1 DEF NewLoan, IsOpen
<1> DEFINE n == TermOf(loan)
           R == REPAYMENT_PERIOD
<1>4. /\ n \in Nat \ {0} /\ R \in Nat \ {0} /\ ACCRUAL_DENOMINATOR \in Nat \ {0}
      /\ loan.apr_bps \in Nat /\ loan.principal \in Nat
  BY <1>2, LoanFacts
<1>5. n = term
  <2>1. term * R \in Nat /\ 0 \in 0..(R - 1)
    BY <1>2, <1>4, Multiply
  <2>2. loan.due_at - loan.opened_at = term * R + 0
    BY <1>3, <2>1
  <2>3. ASSUME NEW x, x = term * R + 0 PROVE x \div R = term
    BY <1>2, <1>4, <2>1, <2>3, DividesOnce
  <2>4. QED
    BY <2>2, <2>3 DEF TermOf
<1>6. n <= loan.principal
  BY <1>2, <1>3, <1>5
<1>7. /\ DueBy(loan.principal, n, 0) = 0
      /\ AccruedBy(loan.principal, loan.apr_bps, n, 0) = 0
      /\ BookedBy(loan.principal, loan.apr_bps, n, 0) = 0
  <2>1. 0 \in 0..n
    BY <1>4
  <2>2. QED
    BY <1>4, <2>1, DueIs, AccruedSteps, BookedIs
<1> HIDE DEF n
<1>8. /\ 0 * R = 0 /\ (0 + 1) * R = R /\ (0 + 0) * ACCRUAL_DENOMINATOR = 0
      /\ loan.outstanding * loan.apr_bps * (0 - 0) = 0
  <2>1. loan.outstanding * loan.apr_bps \in Nat
    BY <1>2, <1>4, LoanFacts, Multiply
  <2>2. QED
    BY <1>4, <2>1
<1>9. PaidUpTo(0)
  <2>1. OnSchedule(loan, now, 0)
    <3>1. 0 < n /\ 0 * R <= 0 /\ 0 <= (0 + 1) * R
      BY <1>4, <1>8
    <3>2. (0 + 0) * ACCRUAL_DENOMINATOR + 0 = 0 + loan.outstanding * loan.apr_bps * (0 - 0 * R)
      BY <1>8
    <3>3. QED
      BY <1>2, <1>3, <1>7, <3>1, <3>2 DEF OnSchedule, n
  <2>2. QED
    BY <1>2, <1>3, <1>7, <1>8, <2>1 DEF PaidUpTo, n
<1>10. 0 \in 0..n
  BY <1>4
<1>11. QED
  BY <1>6, <1>9, <1>10 DEF KeptInv, n

\* Bringing a loan up to date leaves it on schedule.
LEMMA StaysOnSchedule ==
  ASSUME NEW l, l \in LifeType, NEW at \in Nat, l.last_accrual_at <= at,
         NEW k \in Nat, OnSchedule(l, at, k),
         AccruedBy(l.principal, l.apr_bps, TermOf(l), k) \in Nat,
         BookedBy(l.principal, l.apr_bps, TermOf(l), k) \in Nat
  PROVE  OnSchedule(Accrue(l, at), at, k)
<1> DEFINE a == Accrue(l, at)
           R == REPAYMENT_PERIOD
           AD == ACCRUAL_DENOMINATOR
           B == BookedBy(l.principal, l.apr_bps, TermOf(l), k)
           A == AccruedBy(l.principal, l.apr_bps, TermOf(l), k)
           rate == l.outstanding * l.apr_bps
           x == l.last_accrual_at
           E == Earned(l, at)
           L == Left(l, at)
           kR == k * R
<1>1. /\ a.principal = l.principal /\ a.outstanding = l.outstanding
      /\ a.accrued_interest = l.accrued_interest + E
      /\ a.interest_remainder = L
      /\ a.last_accrual_at = at
      /\ a.opened_at = l.opened_at /\ a.due_at = l.due_at
      /\ a.apr_bps = l.apr_bps
  BY AccrueIs
<1>2. TermOf(a) = TermOf(l)
  BY <1>1 DEF TermOf
<1>3. /\ rate \in Nat /\ x \in Nat /\ l.accrued_interest \in Nat
      /\ l.interest_remainder \in Nat /\ AD \in Nat \ {0} /\ R \in Nat /\ A \in Nat /\ B \in Nat
      /\ x <= at
  BY SoundFields
<1>4. E \in Nat /\ L \in Nat /\ E * AD + L = rate * (at - x) + l.interest_remainder
  <2>1. E \in Nat /\ L \in 0..(AD - 1)
    BY NothingIsDropped
  <2>2. E * AD + L = rate * (at - x) + l.interest_remainder
    BY NothingIsDropped
  <2>3. QED
    BY <1>3, <2>1, <2>2
<1>5. /\ k < TermOf(l) /\ kR <= x /\ at <= (k + 1) * R
      /\ (B + l.accrued_interest) * AD + l.interest_remainder = A + rate * (x - kR)
  BY DEF OnSchedule
<1>6. kR \in Nat
  BY <1>3, Multiply
<1> HIDE DEF a, B, A, rate, x, E, L, kR
<1>7. at - x \in Nat /\ x - kR \in Nat /\ at - kR = (at - x) + (x - kR) /\ kR <= at
  BY <1>3, <1>5, <1>6
<1>8. /\ rate * (at - kR) = rate * (at - x) + rate * (x - kR)
      /\ rate * (at - x) \in Nat /\ rate * (x - kR) \in Nat
  <2>1. rate * ((at - x) + (x - kR)) = rate * (at - x) + rate * (x - kR)
    BY <1>3, <1>7, Multiply
  <2>2. QED
    BY <1>3, <1>7, <2>1, Multiply
<1>9. /\ (B + (l.accrued_interest + E)) * AD = (B + l.accrued_interest) * AD + E * AD
      /\ (B + l.accrued_interest) * AD \in Nat /\ E * AD \in Nat
  <2> DEFINE b == B + l.accrued_interest
  <2>1. b \in Nat /\ B + (l.accrued_interest + E) = b + E
    BY <1>3, <1>4
  <2> HIDE DEF b
  <2>2. (b + E) * AD = b * AD + E * AD /\ b * AD \in Nat /\ E * AD \in Nat
    BY <1>3, <1>4, <2>1, Multiply
  <2>3. QED
    BY <2>1, <2>2 DEF b
<1>10. (B + (l.accrued_interest + E)) * AD + L = A + rate * (at - kR)
  <2> DEFINE y == (B + l.accrued_interest) * AD
             z == E * AD
             u == rate * (at - x)
             v == rate * (x - kR)
             i == l.interest_remainder
  <2>1. /\ y \in Nat /\ z \in Nat /\ u \in Nat /\ v \in Nat /\ i \in Nat /\ L \in Nat /\ A \in Nat
        /\ y + i = A + v /\ z + L = u + i
    BY <1>3, <1>4, <1>5, <1>8, <1>9
  <2>2. /\ (B + (l.accrued_interest + E)) * AD + L = (y + z) + L
        /\ A + rate * (at - kR) = A + (u + v)
    BY <1>8, <1>9
  <2> HIDE DEF y, z, u, v, i
  <2>3. (y + z) + L = A + (u + v)
    BY <2>1
  <2>4. QED
    BY <2>2, <2>3
<1>11. /\ a.outstanding * a.apr_bps = rate
       /\ BookedBy(a.principal, a.apr_bps, TermOf(a), k) = B
       /\ AccruedBy(a.principal, a.apr_bps, TermOf(a), k) = A
       /\ a.last_accrual_at - kR = at - kR
  BY <1>1, <1>2 DEF B, A, rate
<1>12. (B + a.accrued_interest) * AD + a.interest_remainder
         = A + a.outstanding * a.apr_bps * (a.last_accrual_at - kR)
  BY <1>1, <1>10, <1>11
<1>13. QED
  BY <1>1, <1>2, <1>5, <1>7, <1>11, <1>12 DEF OnSchedule, kR, a

\* Brought up to date on the date of the next instalment, it has booked what the rows have by then.
LEMMA InstalmentBooks ==
  ASSUME NEW l, l \in LifeType, NEW n \in Nat \ {0}, n = TermOf(l), NEW k \in 0..n,
         OnSchedule(l, l.last_accrual_at, k),
         l.last_accrual_at = (k + 1) * REPAYMENT_PERIOD,
         l.outstanding = l.principal - DueBy(l.principal, n, k)
  PROVE  LET b == BookedBy(l.principal, l.apr_bps, n, k + 1)
         IN  /\ b = BookedBy(l.principal, l.apr_bps, n, k) + l.accrued_interest
             /\ b * ACCRUAL_DENOMINATOR + l.interest_remainder
                  = AccruedBy(l.principal, l.apr_bps, n, k + 1)
<1> DEFINE p == l.principal
           R == REPAYMENT_PERIOD
           AD == ACCRUAL_DENOMINATOR
           B == BookedBy(p, l.apr_bps, n, k)
           A == AccruedBy(p, l.apr_bps, n, k)
           Q == AccruedBy(p, l.apr_bps, n, k + 1)
           rate == l.outstanding * l.apr_bps
           q == B + l.accrued_interest
           r == l.interest_remainder
<1>1. /\ p \in Nat /\ l.apr_bps \in Nat /\ l.accrued_interest \in Nat
      /\ r \in 0..(AD - 1) /\ AD \in Nat \ {0} /\ R \in Nat /\ rate \in Nat
      /\ l.outstanding \in Nat
  BY SoundFields
<1>2. /\ k < n
      /\ q * AD + r = A + rate * (l.last_accrual_at - k * R)
  BY DEF OnSchedule
<1>3. k \in Nat /\ k \in 0..(n - 1) /\ k + 1 \in 0..n
  BY <1>2
<1>4. A \in Nat /\ B \in Nat /\ Q \in Nat /\ Q = A + Accruing(p, l.apr_bps, n, k)
  <2>1. \A j \in 0..n : AccruedBy(p, l.apr_bps, n, j) \in Nat
    BY <1>1, AccruedSteps
  <2>2. \A j \in 0..(n - 1) :
          AccruedBy(p, l.apr_bps, n, j + 1)
            = AccruedBy(p, l.apr_bps, n, j) + Accruing(p, l.apr_bps, n, j)
    <3> DEFINE apr == l.apr_bps
    <3>1. p \in Nat /\ apr \in Nat
      BY <1>1
    <3> HIDE DEF p, apr
    <3>2. \A j \in 0..(n - 1) :
            AccruedBy(p, apr, n, j + 1) = AccruedBy(p, apr, n, j) + Accruing(p, apr, n, j)
      BY <3>1, AccruedSteps
    <3>3. QED
      BY <3>2 DEF apr
  <2>3. B \in Nat
    BY <1>1, BookedIs
  <2>4. QED
    BY <1>3, <2>1, <2>2, <2>3
<1>5. Accruing(p, l.apr_bps, n, k) = rate * R
  BY DEF Accruing
<1>6. (k + 1) * R - k * R = R
  <2>1. k * R \in Nat /\ (k + 1) * R = k * R + 1 * R
    BY <1>1, <1>3, Multiply
  <2>2. QED
    BY <1>1, <2>1
<1>7. q * AD + r = Q
  <2>1. rate * (l.last_accrual_at - k * R) = rate * R
    BY <1>6
  <2> HIDE DEF q, r, A, Q, rate
  <2>2. QED
    BY <1>2, <1>4, <1>5, <2>1
<1>8. q \in Nat
  BY <1>1, <1>4
<1>9. BookedBy(p, l.apr_bps, n, k + 1) = Q \div AD
  BY DEF BookedBy
<1> HIDE DEF q, r, Q, AD
<1>10. Q \div AD = q
  <2>1. ASSUME NEW x, x = q * AD + r PROVE x \div AD = q
    BY <1>1, <1>8, <2>1, DividesOnce
  <2>2. QED
    BY <1>7, <2>1
<1>11. QED
  BY <1>7, <1>9, <1>10 DEF q, r, Q, AD

\* On the date of an instalment the page asks for its row.
LEMMA InstalmentAsked ==
  ASSUME LoanInv, IsOpen(loan), TermOf(loan) <= loan.principal,
         NEW k \in 0..TermOf(loan),
         loan.outstanding = loan.principal - DueBy(loan.principal, TermOf(loan), k),
         NextOf(loan, now).at = now
  PROVE  /\ now = (k + 1) * REPAYMENT_PERIOD
         /\ Payment(loan, now)
              = (DueBy(loan.principal, TermOf(loan), k + 1)
                   - DueBy(loan.principal, TermOf(loan), k))
                  + Accrue(loan, now).accrued_interest
<1> DEFINE n == TermOf(loan)
           p == loan.principal
           dueAt == loan.opened_at + Unpaid(loan) * REPAYMENT_PERIOD
           m == Least((now - loan.opened_at) \div REPAYMENT_PERIOD, Periods(loan))
<1>1. /\ k < n /\ k + 1 \in 0..n /\ now = (k + 1) * REPAYMENT_PERIOD
  BY NextInstalment
<1>2. /\ now \in Nat /\ loan \in LifeType /\ loan.last_accrual_at <= now /\ loan.opened_at = 0
      /\ n \in Nat \ {0} /\ Periods(loan) = n /\ p \in Nat
      /\ REPAYMENT_PERIOD \in Nat \ {0}
  BY LoanFacts
<1>3. dueAt = now /\ ~(dueAt > now)
  <2>1. dueAt = NextOf(loan, now).at
    BY DEF NextOf
  <2>2. QED
    BY <1>2, <2>1
<1>4. /\ NextOf(loan, now).principal = OwedBy(loan, now) - (p - loan.outstanding)
      /\ NextOf(loan, now).interest = AccrueTo(loan, now).interest
  BY <1>3 DEF NextOf
<1>5. AccrueTo(loan, now).interest = Accrue(loan, now).accrued_interest
  BY <1>2, EarnedFacts, AccrueIs
<1>6. m = k + 1
  <2> DEFINE q == k + 1
  <2>1. q \in Nat /\ q * REPAYMENT_PERIOD \in Nat /\ q <= n
    BY <1>1, <1>2, Multiply
  <2>2. now - loan.opened_at = q * REPAYMENT_PERIOD + 0 /\ 0 \in 0..(REPAYMENT_PERIOD - 1)
    BY <1>1, <1>2, <2>1
  <2> HIDE DEF q
  <2>3. ASSUME NEW x, x = q * REPAYMENT_PERIOD + 0 PROVE x \div REPAYMENT_PERIOD = q
    BY <1>2, <2>1, <2>2, <2>3, DividesOnce
  <2>4. (now - loan.opened_at) \div REPAYMENT_PERIOD = q
    BY <2>2, <2>3
  <2>5. QED
    BY <1>2, <2>1, <2>4 DEF Least, q
<1>7. OwedBy(loan, now) = DueBy(p, n, k + 1)
  BY <1>2, <1>6 DEF OwedBy, PrincipalDueAfter, DueBy
<1>8. p - loan.outstanding = DueBy(p, n, k)
  <2>1. DueBy(p, n, k) \in Nat
    BY <1>2, DueIs
  <2>2. QED
    BY <1>2, <2>1
<1>9. QED
  BY <1>1, <1>4, <1>5, <1>7, <1>8 DEF Payment

\* A loan is open for as long as some of it is not repaid.
LEMMA OpenIs == LoanInv => (IsOpen(loan) <=> loan.outstanding > 0)
  BY LoanFacts

\* A payment of the row that is due, made on its date, pays up to the next.
LEMMA InstalmentPays ==
  ASSUME LoanInv, LoanInv', TermOf(loan) <= loan.principal,
         NEW k \in 0..TermOf(loan), PaidUpTo(k), PayInstalment
  PROVE  k + 1 \in 0..TermOf(loan) /\ PaidUpTo(k + 1)'
<1> DEFINE a == Accrue(loan, now)
           x == Payment(loan, now)
           m == ApplyRepayment(a, x)
           p == loan.principal
           n == TermOf(loan)
           apr == loan.apr_bps
           D(i) == DueBy(p, n, i)
           B(i) == BookedBy(p, apr, n, i)
           R == REPAYMENT_PERIOD
           AD == ACCRUAL_DENOMINATOR
<1>1. /\ IsOpen(loan) /\ NextOf(loan, now).at = now /\ loan' = m /\ now' = now
      /\ paid' = paid + Least(x, TotalOwed(a))
  BY DEF PayInstalment, Repay
<1>2. /\ now \in Nat /\ paid \in Nat /\ loan \in LifeType /\ SoundLoan(loan)
      /\ loan.last_accrual_at <= now /\ n \in Nat \ {0} /\ p \in Nat /\ n <= p /\ apr \in Nat
      /\ loan.outstanding \in Nat
      /\ R \in Nat \ {0} /\ AD \in Nat \ {0}
  BY LoanFacts
<1>3. /\ loan.outstanding = p - D(k) /\ paid = D(k) + B(k) /\ OnSchedule(loan, now, k)
  BY <1>1 DEF PaidUpTo
<1>4. /\ k < n /\ k \in Nat /\ k \in 0..n /\ k + 1 \in 0..n /\ now = (k + 1) * R
      /\ x = (D(k + 1) - D(k)) + a.accrued_interest
  <2>1. k < n /\ k + 1 \in 0..n
    BY <1>1, <1>3, NextInstalment
  <2>2. now = (k + 1) * R /\ x = (D(k + 1) - D(k)) + a.accrued_interest
    BY <1>1, <1>3, InstalmentAsked
  <2>3. QED
    BY <2>1, <2>2
<1>5. /\ \A i \in 0..n : D(i) \in Nat /\ D(i) <= p /\ B(i) \in Nat
      /\ D(n) = p /\ \A i \in Nat : D(i) < D(i + 1)
  <2>1. ASSUME NEW i \in 0..n PROVE D(i) \in Nat /\ D(i) <= p /\ B(i) \in Nat
    BY <1>2, DueIs, BookedIs
  <2>2. D(n) = p
    <3>1. n \in 0..n
      BY <1>2
    <3>2. QED
      BY <1>2, <3>1, DueIs
  <2>3. ASSUME NEW i \in Nat PROVE D(i) < D(i + 1)
    BY <1>2, DueSteps
  <2>4. QED
    BY <2>1, <2>2, <2>3
<1>6. /\ SoundLoan(a) /\ IsOpen(a) /\ a \in LifeType
      /\ a.principal = p /\ a.outstanding = loan.outstanding /\ a.apr_bps = apr
      /\ a.opened_at = loan.opened_at /\ a.due_at = loan.due_at
      /\ a.last_accrual_at = now /\ a.accrued_interest \in Nat
  <2>1. /\ a \in LifeType /\ a.principal = p /\ a.outstanding = loan.outstanding
        /\ a.apr_bps = apr /\ a.opened_at = loan.opened_at /\ a.due_at = loan.due_at
        /\ a.last_accrual_at = now
    BY <1>2, AccrueIs
  <2>2. SoundLoan(a) /\ IsOpen(a)
    BY <1>1, <1>2, AccrueSound
  <2>3. QED
    BY <2>1, <2>2, SoundFields
<1>7. n = TermOf(a)
  BY <1>6 DEF TermOf
<1>8. OnSchedule(a, now, k)
  <2>1. /\ AccruedBy(loan.principal, loan.apr_bps, TermOf(loan), k) \in Nat
        /\ BookedBy(loan.principal, loan.apr_bps, TermOf(loan), k) \in Nat
    BY <1>2, AccruedSteps, BookedIs
  <2>2. QED
    BY <1>2, <1>3, <1>4, <2>1, StaysOnSchedule
<1> HIDE DEF a
<1>9. /\ B(k + 1) = B(k) + a.accrued_interest
      /\ B(k + 1) * AD + a.interest_remainder = AccruedBy(p, apr, n, k + 1)
  <2>1. /\ OnSchedule(a, a.last_accrual_at, k)
        /\ a.last_accrual_at = (k + 1) * REPAYMENT_PERIOD
        /\ a.outstanding = a.principal - DueBy(a.principal, n, k)
    BY <1>3, <1>4, <1>6, <1>8
  <2>2. LET b == BookedBy(a.principal, a.apr_bps, n, k + 1)
        IN  /\ b = BookedBy(a.principal, a.apr_bps, n, k) + a.accrued_interest
            /\ b * ACCRUAL_DENOMINATOR + a.interest_remainder
                 = AccruedBy(a.principal, a.apr_bps, n, k + 1)
    BY <1>2, <1>6, <1>7, <2>1, InstalmentBooks
  <2>3. QED
    BY <1>6, <2>2
<1> DEFINE ai == a.accrued_interest
           s == k + 1
<1> HIDE DEF x, D, B, n, p, apr, m
<1>10. /\ D(k) \in Nat /\ D(s) \in Nat /\ D(k) < D(s) /\ D(s) <= p /\ B(k) \in Nat
       /\ B(s) \in Nat /\ ai \in Nat
  <2>1. s \in 0..n /\ k \in 0..n /\ D(k) < D(s)
    BY <1>4, <1>5
  <2> HIDE DEF s
  <2>2. QED
    BY <1>5, <1>6, <2>1
<1>11. /\ x \in Nat /\ TotalOwed(a) = (p - D(k)) + ai /\ x <= TotalOwed(a) /\ ai <= x
       /\ TotalOwed(a) \in Nat
  <2>1. TotalOwed(a) = (p - D(k)) + ai
    BY <1>3, <1>6 DEF TotalOwed
  <2> HIDE DEF ai, s
  <2>2. x = (D(s) - D(k)) + ai
    BY <1>4 DEF s, ai
  <2>3. QED
    BY <1>2, <1>10, <2>1, <2>2
<1>12. /\ InterestPart(a, x) = ai /\ PrincipalPart(a, x) = D(s) - D(k)
       /\ Least(x, TotalOwed(a)) = x
  <2>1. Least(x, TotalOwed(a)) = x
    BY <1>11 DEF Least
  <2>2. InterestPart(a, x) = ai
    BY <1>10, <1>11, <2>1 DEF InterestPart, Least
  <2>3. PrincipalPart(a, x) = x - ai
    BY <2>1, <2>2 DEF PrincipalPart
  <2>4. QED
    BY <1>4, <1>10, <2>1, <2>2, <2>3
<1>13. /\ m.outstanding = a.outstanding - PrincipalPart(a, x)
       /\ m.accrued_interest = a.accrued_interest - InterestPart(a, x)
  BY <1>6, <1>11, RepaymentSplits DEF m
<1>14. /\ m.principal = p /\ m.due_at = loan.due_at /\ m.opened_at = loan.opened_at
       /\ m.apr_bps = apr /\ m.last_accrual_at = now
       /\ m.interest_remainder = a.interest_remainder
  BY <1>6, <1>11, RepaymentLeaves DEF m
<1>15. TermOf(m) = n
  BY <1>14 DEF TermOf, n
<1>16. m.outstanding = p - D(s) /\ m.accrued_interest = 0
  BY <1>2, <1>3, <1>6, <1>10, <1>12, <1>13
<1>17. paid' = D(s) + B(s)
  BY <1>1, <1>3, <1>4, <1>9, <1>10, <1>12
<1>18. IsOpen(m) <=> m.outstanding > 0
  <2>1. LoanInv' => (IsOpen(loan) <=> loan.outstanding > 0)'
    BY OpenIs, PTL
  <2>2. QED
    BY <1>1, <2>1
<1>19. ASSUME ~IsOpen(m) PROVE s = n
  <2>1. D(s) = p
    BY <1>2, <1>10, <1>16, <1>18, <1>19
  <2>2. ASSUME s # n PROVE FALSE
    <3>1. s + 1 \in 0..n /\ s \in Nat
      BY <1>2, <1>4, <2>2
    <3>2. D(s) < D(s + 1) /\ D(s + 1) <= p /\ D(s + 1) \in Nat
      BY <1>5, <3>1
    <3>3. QED
      BY <1>2, <2>1, <3>2
  <2>3. QED
    BY <2>2
<1>20. ASSUME IsOpen(m) PROVE OnSchedule(m, now, s)
  <2>1. s < n
    <3>1. s # n
      BY <1>2, <1>5, <1>16, <1>18, <1>20
    <3>2. QED
      BY <1>2, <1>4, <3>1
  <2>2. s * R = now /\ now <= (s + 1) * R
    <3>1. (s + 1) * R = s * R + 1 * R
      BY <1>2, <1>4, Multiply
    <3>2. QED
      BY <1>2, <1>4, <3>1
  <2>3. m.last_accrual_at - s * R = 0 /\ m.outstanding * m.apr_bps * 0 = 0
    <3>1. m.outstanding \in Nat /\ m.apr_bps \in Nat
      BY <1>2, <1>10, <1>14, <1>16
    <3>2. m.outstanding * m.apr_bps \in Nat
      BY <3>1, Multiply
    <3>3. QED
      BY <1>2, <1>14, <2>2, <3>2
  <2>4. AccruedBy(p, apr, n, s) \in Nat
    BY <1>2, <1>4, AccruedSteps
  <2>5. (B(s) + m.accrued_interest) * AD + m.interest_remainder
          = AccruedBy(p, apr, n, s) + m.outstanding * m.apr_bps * (m.last_accrual_at - s * R)
    <3>1. B(s) + m.accrued_interest = B(s)
      BY <1>10, <1>16
    <3>2. m.outstanding * m.apr_bps * (m.last_accrual_at - s * R) = 0
      BY <2>3
    <3>3. B(s) * AD + a.interest_remainder = AccruedBy(p, apr, n, s)
      BY <1>9
    <3>4. QED
      BY <1>14, <2>4, <3>1, <3>2, <3>3
  <2>6. QED
    BY <1>2, <1>14, <1>15, <2>1, <2>2, <2>5 DEF OnSchedule, B
<1>21. PaidUpTo(k + 1)'
  <2>1. k + 1 = s /\ s * R <= now
    BY <1>2, <1>4
  <2>2. /\ m.outstanding = m.principal - DueBy(m.principal, TermOf(m), s)
        /\ paid' = DueBy(m.principal, TermOf(m), s) + BookedBy(m.principal, m.apr_bps, TermOf(m), s)
    BY <1>14, <1>15, <1>16, <1>17 DEF D, B
  <2> HIDE DEF s
  <2>3. QED
    BY <1>1, <1>15, <1>19, <1>20, <2>1, <2>2 DEF PaidUpTo
<1>22. QED
  BY <1>4, <1>21 DEF n

\* The step of time that ends an instalment unpaid is not one of an operator who keeps to it.
LEMMA KeptSteps ==
  ASSUME LoanInv, StepKeeps, KeptInv, [Next]_vars
  PROVE  KeptInv'
<1>1. /\ LoanInv' /\ TermOf(loan)' = TermOf(loan) /\ loan'.principal = loan.principal
      /\ loan'.apr_bps = loan.apr_bps /\ TermOf(loan') = TermOf(loan)
  BY DEF StepKeeps, TermOf
<1>2. TermOf(loan) <= loan.principal /\ TermOf(loan') <= loan'.principal
  BY <1>1 DEF KeptInv
<1>3. SUFFICES ASSUME kept' PROVE \E k \in 0..TermOf(loan) : PaidUpTo(k)'
  BY <1>1, <1>2 DEF KeptInv
<1>4. kept
  BY <1>3 DEF Next, PayInstalment, PayAnything, BringUpToDate, Tick, vars
<1>5. PICK k \in 0..TermOf(loan) : PaidUpTo(k)
  BY <1>4 DEF KeptInv
<1>6. CASE UNCHANGED vars
  <2>1. now' = now /\ loan' = loan /\ paid' = paid
    BY <1>6 DEF vars
  <2>2. QED
    BY <1>5, <2>1 DEF PaidUpTo
<1>7. CASE PayInstalment
  <2>1. k + 1 \in 0..TermOf(loan) /\ PaidUpTo(k + 1)'
    BY <1>1, <1>2, <1>5, <1>7, InstalmentPays
  <2>2. QED
    BY <2>1
<1>8. ASSUME NEW amount \in Amounts, PayAnything(amount) PROVE FALSE
  BY <1>3, <1>8 DEF PayAnything
<1>9. CASE BringUpToDate
  <2> DEFINE a == Accrue(loan, now)
  <2>1. /\ loan' = a /\ now' = now /\ paid' = paid /\ IsOpen(loan)
    BY <1>9 DEF BringUpToDate
  <2>2. /\ now \in Nat /\ loan \in LifeType /\ SoundLoan(loan) /\ loan.last_accrual_at <= now
        /\ loan.principal \in Nat /\ loan.apr_bps \in Nat /\ TermOf(loan) \in Nat \ {0}
    BY LoanFacts
  <2>3. a.outstanding = loan.outstanding /\ (IsOpen(a) <=> IsOpen(loan))
    BY <2>2, AccrueIs, AccrueSound
  <2>4. OnSchedule(a, now, k)
    <3>1. OnSchedule(loan, now, k) /\ k \in Nat
      BY <1>5, <2>1, <2>2 DEF PaidUpTo
    <3>2. /\ AccruedBy(loan.principal, loan.apr_bps, TermOf(loan), k) \in Nat
          /\ BookedBy(loan.principal, loan.apr_bps, TermOf(loan), k) \in Nat
      BY <2>2, AccruedSteps, BookedIs
    <3>3. QED
      BY <2>2, <3>1, <3>2, StaysOnSchedule
  <2> HIDE DEF a
  <2>5. PaidUpTo(k)'
    BY <1>1, <1>5, <2>1, <2>3, <2>4 DEF PaidUpTo
  <2>6. QED
    BY <2>5
<1>10. CASE Tick
  <2>1. /\ now' = now + 1 /\ loan' = loan /\ paid' = paid
        /\ IsOpen(loan) => ~NextOf(loan, now).late
    BY <1>3, <1>10 DEF Tick
  <2>2. now \in Nat /\ REPAYMENT_PERIOD \in Nat /\ k \in Nat
        /\ k * REPAYMENT_PERIOD \in Nat /\ (k + 1) * REPAYMENT_PERIOD \in Nat
    <3>1. now \in Nat /\ REPAYMENT_PERIOD \in Nat /\ k \in Nat
      BY LoanFacts
    <3>2. QED
      BY <3>1, Multiply
  <2>3. ASSUME IsOpen(loan) PROVE now + 1 <= (k + 1) * REPAYMENT_PERIOD
    <3>1. loan.outstanding = loan.principal - DueBy(loan.principal, TermOf(loan), k)
      BY <1>5 DEF PaidUpTo
    <3>2. (k + 1) * REPAYMENT_PERIOD > now
      BY <1>2, <2>1, <2>3, <3>1, NextInstalment
    <3>3. QED
      BY <2>2, <3>2
  <2>4. IsOpen(loan) => OnSchedule(loan, now + 1, k)
    BY <1>5, <2>3 DEF PaidUpTo, OnSchedule
  <2>5. k * REPAYMENT_PERIOD <= now + 1
    BY <1>5, <2>2 DEF PaidUpTo
  <2>6. PaidUpTo(k)'
    BY <1>5, <2>1, <2>4, <2>5 DEF PaidUpTo
  <2>7. QED
    BY <2>6
<1>11. QED
  BY <1>6, <1>7, <1>8, <1>9, <1>10 DEF Next

\* What was paid is what the rows up to now come to.
LEMMA ScheduleFromInv ==
  ASSUME LoanInv, KeptInv
  PROVE  ScheduleIsKept
<1> DEFINE n == TermOf(loan)
           p == loan.principal
           R == REPAYMENT_PERIOD
           k == Least(now \div R, n)
           rows == Schedule(p, loan.apr_bps, n)
<1> SUFFICES ASSUME kept, IsOpen(loan) => ~NextOf(loan, now).late
             PROVE  /\ paid = SumFunction([j \in 1..k |-> rows[j].principal + rows[j].interest])
                    /\ k = n => ~IsOpen(loan)
  BY DEF ScheduleIsKept
<1>1. PICK i \in 0..n : PaidUpTo(i)
  BY DEF KeptInv
<1>2. /\ now \in Nat /\ n \in Nat \ {0} /\ p \in Nat /\ n <= p /\ loan.apr_bps \in Nat
      /\ R \in Nat \ {0}
  BY LoanFacts DEF KeptInv
<1>3. /\ loan.outstanding = p - DueBy(p, n, i)
      /\ paid = DueBy(p, n, i) + BookedBy(p, loan.apr_bps, n, i)
      /\ i * R <= now /\ (~IsOpen(loan) => i = n)
      /\ IsOpen(loan) => i < n
  BY <1>1 DEF PaidUpTo, OnSchedule
<1>4. now \div R \in Nat /\ i * R \in Nat /\ i \in Nat
  <2>1. i \in Nat
    BY <1>2
  <2>2. QED
    BY <1>2, <2>1, DivMod, Multiply
<1>5. k = i
  <2>1. CASE IsOpen(loan)
    <3>1. (i + 1) * R > now /\ i < n
      BY <1>2, <1>3, <2>1, NextInstalment
    <3>2. (i + 1) * R = i * R + R
      <4>1. (i + 1) * R = i * R + 1 * R
        BY <1>2, <1>4, Multiply
      <4>2. QED
        BY <1>2, <4>1
    <3>3. PICK r \in 0..(R - 1) : now = i * R + r
      <4>1. now - i * R \in 0..(R - 1) /\ now = i * R + (now - i * R)
        BY <1>2, <1>3, <1>4, <3>1, <3>2
      <4>2. QED
        BY <4>1
    <3>4. ASSUME NEW x, x = i * R + r PROVE x \div R = i
      BY <1>2, <1>4, <3>4, DividesOnce
    <3>5. now \div R = i
      BY <3>3, <3>4
    <3>6. QED
      BY <1>2, <3>1, <3>5 DEF Least
  <2>2. CASE ~IsOpen(loan)
    <3>1. i = n
      BY <1>3, <2>2
    <3>2. (i * R) \div R = i
      <4>1. i * R = i * R + 0 /\ 0 \in 0..(R - 1)
        BY <1>2, <1>4
      <4>2. ASSUME NEW x, x = i * R + 0 PROVE x \div R = i
        BY <1>2, <1>4, <4>1, <4>2, DividesOnce
      <4>3. QED
        BY <4>1, <4>2
    <3>3. i <= now \div R
      <4>1. (i * R) \div R <= now \div R
        BY <1>2, <1>3, <1>4, DividesMore
      <4>2. QED
        BY <3>2, <4>1
    <3>4. QED
      BY <1>2, <1>4, <3>1, <3>3 DEF Least
  <2>3. QED
    BY <2>1, <2>2
<1> HIDE DEF k
<1>6. SumFunction([j \in 1..i |-> rows[j].principal + rows[j].interest])
        = DueBy(p, n, i) + BookedBy(p, loan.apr_bps, n, i)
  BY <1>2, RowsComeTo
<1>7. i = n => ~IsOpen(loan)
  BY <1>2, <1>3
<1>8. QED
  BY <1>3, <1>5, <1>6, <1>7

\* ScheduleIsKept: every loan of at least one unit of its currency for each instalment is
\* repaid, row by row and to the unit, as loanCost showed it before it was signed; and the
\* last row closes it.
THEOREM SchedulesAreKept ==
  LoanLifeAssumption /\ (\A p \in Principals : MAX_TERM_PERIODS <= p) /\ Spec
    => []ScheduleIsKept
<1> SUFFICES ASSUME LoanLifeAssumption, \A p \in Principals : MAX_TERM_PERIODS <= p
             PROVE  Spec => []ScheduleIsKept
  OBVIOUS
<1>1. Spec => []LoanInv
  BY LoanInductive, PTL
<1>2. Init => KeptInv
  BY KeptStarts
<1>3. LoanInv /\ KeptInv /\ [Next]_vars => KeptInv'
  BY LoanSteps, KeptSteps
<1>4. LoanInv /\ KeptInv => ScheduleIsKept
  BY ScheduleFromInv
<1>5. QED
  BY <1>1, <1>2, <1>3, <1>4, PTL DEF Spec

-----------------------------------------------------------------------------
(***************************************************************************)
(* The next payment of a loan, and one amount over several loans.          *)
(***************************************************************************)

\* Interest never takes anything off a debt.
LEMMA OwedIs ==
  ASSUME NEW l, l \in LifeType, NEW t \in Nat
  PROVE  /\ AccrueTo(l, t).interest \in Nat
         /\ OwedAt(l, t) \in Nat /\ OwedAt(l, t) = l.outstanding + AccrueTo(l, t).interest
         /\ l.outstanding <= OwedAt(l, t)
<1>1. /\ l.outstanding \in Nat /\ l.accrued_interest \in Nat /\ l.last_accrual_at \in Nat
  BY SoundFields
<1>2. AccrueTo(l, t).interest \in Nat
  <2>1. CASE t >= l.last_accrual_at
    <3>1. /\ AccrueTo(l, t).interest = l.accrued_interest + Earned(l, t)
          /\ Earned(l, t) \in Nat
      BY <2>1, EarnedFacts
    <3>2. QED
      BY <1>1, <3>1
  <2>2. CASE ~(t >= l.last_accrual_at)
    BY <1>1, <2>2 DEF AccrueTo
  <2>3. QED
    BY <2>1, <2>2
<1>3. OwedAt(l, t) = l.outstanding + AccrueTo(l, t).interest
  BY DEF OwedAt
<1>4. QED
  BY <1>1, <1>2, <1>3

\* What a loan asks for next: some of its principal, and interest.
LEMMA NextIs ==
  ASSUME NEW l, SoundLoan(l), IsOpen(l), NEW at \in Nat
  PROVE  /\ NextOf(l, at).at \in Nat
         /\ NextOf(l, at).late \in BOOLEAN
         /\ NextOf(l, at).late <=> NextOf(l, at).at <= at
         /\ NextOf(l, at).principal \in Nat \ {0}
         /\ NextOf(l, at).interest \in Nat
         /\ Payment(l, at) \in Nat \ {0}
<1> DEFINE n == Periods(l)
           u == Unpaid(l)
           due(i) == PrincipalDueAfter(l, i)
           repaid == l.principal - l.outstanding
           dueAt == l.opened_at + u * REPAYMENT_PERIOD
           k == Least((at - l.opened_at) \div REPAYMENT_PERIOD, n)
           next == NextOf(l, at)
<1>1. /\ l \in LifeType /\ l.principal \in Nat /\ l.outstanding \in Nat
      /\ l.outstanding <= l.principal /\ l.opened_at \in Nat
      /\ REPAYMENT_PERIOD \in Nat \ {0} /\ n \in Nat \ {0}
  BY SoundFields, TermIs DEF SoundLoan
<1>2. u \in 1..n /\ due(u) > repaid
  BY UnpaidIs
<1>3. OwedBy(l, at) = due(k)
  BY DEF OwedBy
<1>4. \A i \in Nat : due(i) \in Nat
  <2>1. ASSUME NEW i \in Nat PROVE due(i) \in Nat
    <3>1. l.principal * i \in Nat
      BY <1>1, Multiply
    <3>2. QED
      BY <1>1, <3>1, RoundedUp DEF PrincipalDueAfter
  <2>2. QED
    BY <2>1
<1>5. \A i, j \in Nat : i <= j => due(i) <= due(j)
  BY <1>1, DueGrows DEF PrincipalDueAfter
<1>6. /\ next.late \in BOOLEAN /\ (next.late <=> ~(dueAt > at)) /\ next.at = dueAt
      /\ dueAt > at => /\ next.principal = due(u) - repaid
                       /\ next.interest = AccrueTo(l, dueAt).interest
      /\ ~(dueAt > at) => /\ next.principal = OwedBy(l, at) - repaid
                          /\ next.interest = AccrueTo(l, at).interest
  <2>1. CASE dueAt > at
    BY <2>1 DEF NextOf
  <2>2. CASE ~(dueAt > at)
    BY <2>2 DEF NextOf
  <2>3. QED
    BY <2>1, <2>2
<1>7. Payment(l, at) = next.principal + next.interest
  BY DEF Payment
<1> HIDE DEF n, u, due, k, next
<1>8. u \in Nat /\ u * REPAYMENT_PERIOD \in Nat /\ dueAt \in Nat
  <2>1. u \in Nat
    BY <1>1, <1>2
  <2>2. u * REPAYMENT_PERIOD \in Nat
    BY <1>1, <2>1, Multiply
  <2>3. QED
    BY <1>1, <2>1, <2>2
<1>9. repaid \in Nat /\ due(u) \in Nat
  BY <1>1, <1>4, <1>8
<1>10. CASE dueAt > at
  <2>1. next.principal \in Nat \ {0} /\ next.interest \in Nat
    BY <1>1, <1>2, <1>6, <1>8, <1>9, <1>10, OwedIs
  <2>2. /\ next.at \in Nat /\ next.late \in BOOLEAN /\ ~next.late /\ ~(next.at <= at)
    BY <1>6, <1>8, <1>10
  <2>3. Payment(l, at) \in Nat \ {0}
    BY <1>7, <2>1
  <2>4. QED
    BY <2>1, <2>2, <2>3 DEF next
<1>11. CASE ~(dueAt > at)
  <2> DEFINE passed == (at - l.opened_at) \div REPAYMENT_PERIOD
  <2>1. at - l.opened_at \in Nat /\ u * REPAYMENT_PERIOD <= at - l.opened_at
    BY <1>1, <1>8, <1>11
  <2>2. /\ passed \in Nat /\ passed * REPAYMENT_PERIOD \in Nat
        /\ at - l.opened_at < passed * REPAYMENT_PERIOD + REPAYMENT_PERIOD
    BY <1>1, <2>1, DivMod, Division
  <2>3. k = Least(passed, n)
    BY DEF k
  <2> HIDE DEF passed
  <2>4. u <= passed
    <3>1. SUFFICES ASSUME passed + 1 <= u PROVE FALSE
      BY <1>8, <2>2
    <3>2. (passed + 1) * REPAYMENT_PERIOD <= u * REPAYMENT_PERIOD
      BY <1>1, <1>8, <2>2, <3>1, Multiply
    <3>3. (passed + 1) * REPAYMENT_PERIOD = passed * REPAYMENT_PERIOD + 1 * REPAYMENT_PERIOD
          /\ 1 * REPAYMENT_PERIOD = REPAYMENT_PERIOD
      BY <1>1, <2>2, Multiply
    <3>4. QED
      BY <1>1, <1>8, <2>1, <2>2, <3>2, <3>3
  <2>5. k \in Nat /\ u <= k
    BY <1>1, <1>2, <1>8, <2>2, <2>3, <2>4 DEF Least
  <2>6. due(u) <= due(k) /\ due(k) \in Nat
    BY <1>4, <1>5, <1>8, <2>5
  <2>7. next.principal \in Nat \ {0} /\ next.interest \in Nat
    BY <1>1, <1>2, <1>3, <1>6, <1>9, <1>11, <2>6, OwedIs
  <2>8. /\ next.at \in Nat /\ next.late \in BOOLEAN /\ next.late /\ next.at <= at
    BY <1>6, <1>8, <1>11
  <2>9. Payment(l, at) \in Nat \ {0}
    BY <1>7, <2>7
  <2>10. QED
    BY <2>7, <2>8, <2>9 DEF next
<1>12. QED
  BY <1>10, <1>11

\* The open loans a page has read.
SoundLoans(ls) ==
  /\ IsFiniteSet(DOMAIN ls) /\ DOMAIN ls \subseteq Nat
  /\ \A i \in DOMAIN ls : SoundLoan(ls[i]) /\ IsOpen(ls[i])

\* No loan is before itself in the queue.
LEMMA BeforeIs ==
  ASSUME NEW ls, SoundLoans(ls), NEW at \in Nat, NEW i \in DOMAIN ls
  PROVE  ~Before(ls, at, i, i)
<1>1. NextOf(ls[i], at).at \in Nat /\ NextOf(ls[i], at).late \in BOOLEAN /\ i \in Nat
  BY NextIs DEF SoundLoans
<1>2. QED
  BY <1>1 DEF Before, Earlier

\* A pass over an amount that is enough fills every room.
LEMMA PassFills ==
  ASSUME NEW ls, SoundLoans(ls), NEW at \in Nat, NEW room,
         \A i \in DOMAIN ls : room[i] \in Nat,
         NEW x \in Nat, SumFunctionOnSet(room, DOMAIN ls) <= x
  PROVE  \A i \in DOMAIN ls : Pass(ls, at, room, x)[i] = room[i]
<1> SUFFICES ASSUME NEW i \in DOMAIN ls PROVE Pass(ls, at, room, x)[i] = room[i]
  OBVIOUS
<1> DEFINE S == {k \in DOMAIN ls : Before(ls, at, k, i)}
           f == [j \in S |-> room[j]]
<1>1. Pass(ls, at, room, x)[i] = Least(room[i], SaturatingSub(x, SumFunction(f)))
  BY DEF Pass
<1>2. IsFiniteSet(DOMAIN ls)
  BY DEF SoundLoans
<1>3. IsFiniteSet(S) /\ S \subseteq DOMAIN ls /\ i \notin S
  BY <1>2, BeforeIs, FS_Subset
<1>4. SumFunction(f) = SumFunctionOnSet(f, S) /\ \A j \in S : f[j] = room[j]
  BY DEF SumFunction
<1> HIDE DEF S, f
<1>5. SumFunctionOnSet(f, S) = SumFunctionOnSet(room, S)
  <2>1. \A j \in S : f[j] \in Int /\ f[j] = room[j]
    BY <1>3, <1>4
  <2>2. QED
    BY <1>3, <2>1, SumSame
<1>6. /\ SumFunctionOnSet(room, S) \in Nat
      /\ SumFunctionOnSet(room, S \union {i}) = room[i] + SumFunctionOnSet(room, S)
      /\ SumFunctionOnSet(room, S \union {i}) <= SumFunctionOnSet(room, DOMAIN ls)
  <2>1. S \union {i} \subseteq DOMAIN ls /\ IsFiniteSet(S \union {i}) /\ (S \union {i}) \ {i} = S
    BY <1>2, <1>3, FS_Subset
  <2>2. \A j \in S \union {i} : room[j] \in Int
    BY <2>1
  <2>3. SumFunctionOnSet(room, S \union {i})
          = room[i] + SumFunctionOnSet(room, (S \union {i}) \ {i})
    BY <2>1, <2>2, SumTakesOut
  <2>4. \A j \in S : room[j] \in Nat
    BY <1>3
  <2>5. SumFunctionOnSet(room, S) \in Nat
    BY <1>3, <2>4, SumOfNaturals
  <2>6. SumFunctionOnSet(room, S \union {i}) <= SumFunctionOnSet(room, DOMAIN ls)
    BY <1>2, <2>1, SumOfNaturals
  <2>7. QED
    BY <2>1, <2>3, <2>5, <2>6
<1> DEFINE s == SumFunctionOnSet(room, S)
           a == SumFunctionOnSet(room, DOMAIN ls)
<1>7. s \in Nat /\ room[i] \in Nat /\ room[i] + s <= a /\ a <= x /\ a \in Nat
  <2>1. a \in Nat
    BY <1>2, SumOfNaturals
  <2>2. QED
    BY <1>6, <2>1
<1>8. Pass(ls, at, room, x)[i] = Least(room[i], SaturatingSub(x, s))
  BY <1>1, <1>4, <1>5
<1> HIDE DEF s, a
<1>9. SaturatingSub(x, s) = x - s /\ room[i] <= x - s /\ x - s \in Nat
  BY <1>7 DEF SaturatingSub
<1>10. QED
  BY <1>7, <1>8, <1>9 DEF Least

\* What the pages ask for to close every loan is for each of them what it can come to
\* within the margin.
LEMMA AllocatesAll ==
  ASSUME ClientLoanAssumption, NEW ls, SoundLoans(ls), NEW at \in Nat
  PROVE  /\ DOMAIN Allocation(ls, RepayAllAmount(ls, at), at) = DOMAIN ls
         /\ \A i \in DOMAIN ls : /\ Ceiling(ls[i], at) \in Nat \ {0}
                                 /\ Allocation(ls, RepayAllAmount(ls, at), at)[i]
                                      = Ceiling(ls[i], at)
<1> DEFINE D == DOMAIN ls
           amount == RepayAllAmount(ls, at)
           cap == [i \in D |-> Ceiling(ls[i], at)]
           due == [i \in D |-> Least(Payment(ls[i], at), cap[i])]
           first == Pass(ls, at, due, amount)
           room == [i \in D |-> cap[i] - first[i]]
           rest == Pass(ls, at, room, amount - SumFunction(first))
<1>1. Allocation(ls, amount, at) = [i \in D |-> first[i] + rest[i]]
  BY DEF Allocation
<1>2. amount = SumFunctionOnSet(cap, D)
  BY DEF RepayAllAmount, SumFunction
<1>3. IsFiniteSet(D)
  BY DEF SoundLoans
<1>4. \A i \in D : cap[i] \in Nat \ {0}
  <2>1. ASSUME NEW i \in D PROVE Ceiling(ls[i], at) \in Nat \ {0}
    <3>1. /\ SoundLoan(ls[i]) /\ ls[i] \in LifeType /\ ls[i].outstanding \in Nat
          /\ ls[i].outstanding > 0
      BY SoundFields DEF SoundLoans, SoundLoan
    <3>2. at + MARGIN \in Nat
      BY DEF ClientLoanAssumption
    <3>3. OwedAt(ls[i], at + MARGIN) \in Nat /\ ls[i].outstanding <= OwedAt(ls[i], at + MARGIN)
      BY <3>1, <3>2, OwedIs
    <3>4. QED
      BY <3>1, <3>3 DEF Ceiling
  <2>2. QED
    BY <2>1
<1>5. \A i \in D : due[i] \in Nat /\ due[i] <= cap[i]
  <2>1. ASSUME NEW i \in D PROVE due[i] \in Nat /\ due[i] <= cap[i]
    <3>1. Payment(ls[i], at) \in Nat
      BY NextIs DEF SoundLoans
    <3>2. due[i] = Least(Payment(ls[i], at), cap[i])
      OBVIOUS
    <3> HIDE DEF due, cap
    <3>3. QED
      BY <1>4, <3>1, <3>2 DEF Least
  <2>2. QED
    BY <2>1
<1>6. /\ DOMAIN first = D /\ SumFunction(first) = SumFunctionOnSet(first, D)
      /\ \A i \in D : room[i] = cap[i] - first[i]
  BY DEF Pass, SumFunction
<1>7. \A i \in D : cap[i] = Ceiling(ls[i], at)
  OBVIOUS
<1> HIDE DEF D, amount, cap, due, first, room, rest
<1>8. SumFunctionOnSet(due, D) <= amount /\ amount \in Nat
  <2>1. \A i \in D : due[i] \in Int /\ cap[i] \in Int /\ due[i] <= cap[i]
    BY <1>4, <1>5
  <2>2. SumFunctionOnSet(due, D) <= SumFunctionOnSet(cap, D)
    BY <1>3, <2>1, SumAtMost
  <2>3. \A i \in D : cap[i] \in Nat
    BY <1>4
  <2>4. SumFunctionOnSet(cap, D) \in Nat
    BY <1>3, <2>3, SumOfNaturals
  <2>5. QED
    BY <1>2, <2>2, <2>4
<1>9. \A i \in D : first[i] = due[i]
  BY <1>5, <1>8, PassFills DEF D, first
<1>10. \A i \in D : room[i] \in Nat /\ cap[i] = first[i] + room[i] /\ first[i] \in Nat
  BY <1>4, <1>5, <1>6, <1>9
<1>11. amount = SumFunctionOnSet(first, D) + SumFunctionOnSet(room, D)
  <2>1. \A i \in D : first[i] \in Int /\ room[i] \in Int /\ cap[i] = first[i] + room[i]
    BY <1>10
  <2>2. QED
    BY <1>2, <1>3, <2>1, SumPlus
<1>12. amount - SumFunction(first) = SumFunctionOnSet(room, D)
       /\ SumFunctionOnSet(room, D) \in Nat
  <2>1. SumFunctionOnSet(first, D) \in Nat /\ SumFunctionOnSet(room, D) \in Nat
    BY <1>3, <1>10, SumOfNaturals
  <2>2. QED
    BY <1>6, <1>11, <2>1
<1>13. \A i \in D : rest[i] = room[i]
  <2> DEFINE y == amount - SumFunction(first)
  <2>1. y \in Nat /\ SumFunctionOnSet(room, D) <= y
    BY <1>12
  <2>2. rest = Pass(ls, at, room, y)
    BY DEF rest
  <2> HIDE DEF y
  <2>3. QED
    BY <1>10, <2>1, <2>2, PassFills DEF D
<1>14. \A i \in D : first[i] + rest[i] = cap[i]
  BY <1>10, <1>13
<1>15. QED
  BY <1>1, <1>4, <1>7, <1>14 DEF D, amount

-----------------------------------------------------------------------------
(***************************************************************************)
(* The mandate page.                                                       *)
(***************************************************************************)
CONSTANTS Operators, Foreign, NoOne, OURS, Calls, Rates, NoRate, MAX_DEBT, MAX_CHANGES

VARIABLES debt, account, operator, board, action, replace, calls, changes

Delegates == INSTANCE Delegating

DelegatesAssumption == ClientLoanAssumption /\ Delegates!DelegatingAssumption

\* The amounts are not bounded by a width here: what is approved is a quotient of the debt.
SomeAccount == [delegate : Foreign \union {NoOne, OURS}, amount : Nat]

SomeRow ==
  [account : SomeAccount, ceiling : 0..MAX_DEBT, target : Nat \union {NoRate}]

Building ==
  [ step : {"building"}, operator : Operators, mint : RewardMints,
    what : {"approve", "revoke"}, ticked : BOOLEAN ]

RevokeSent ==
  [step : {"sent", "adrift"}, operator : Operators, mint : RewardMints, what : {"revoke"}]

ApproveSent ==
  [ step : {"sent", "adrift"}, operator : Operators, mint : RewardMints, what : {"approve"},
    allowance : Nat, rate : Rates, debt : 0..MAX_DEBT ]

Landed ==
  [ step : {"landed"}, operator : Operators, mint : RewardMints,
    what : {"approve", "revoke"} ]

ChainInv ==
  /\ debt \in [Operators -> [RewardMints -> 0..MAX_DEBT]]
  /\ account \in [Operators -> [RewardMints -> SomeAccount]]

BoardInv ==
  /\ operator \in Operators
  /\ board.status = "sizing" => board.ceiling \in [RewardMints -> 0..MAX_DEBT]
  /\ board.status = "ready" => board.rows \in [RewardMints -> SomeRow]

\* An approval on its way is sized by the debt that was read for it.
CallInv(call) ==
  \/ call = Delegates!NoCall
  \/ call \in Building \union RevokeSent \union Landed
  \/ call \in ApproveSent /\ call.allowance = RewardAllowance(call.debt, call.rate)

CallsInv ==
  /\ DOMAIN calls = Calls /\ calls = [c \in Calls |-> calls[c]]
  /\ \A c \in Calls : CallInv(calls[c])

WaitingInv ==
  /\ Delegates!Busy <=> \E c \in Calls : Delegates!Waiting(c)
  /\ \A c, d \in Calls : Delegates!Waiting(c) /\ Delegates!Waiting(d) => c = d

MandateInv == ChainInv /\ BoardInv /\ CallsInv /\ WaitingInv

\* An allowance is worth no more than the debt it was sized by.
LEMMA AllowanceIsWithin ==
  ASSUME ClientLoanAssumption, NEW c \in Nat, NEW rate \in Nat \ {0}
  PROVE  RewardAllowance(c, rate) \in Nat /\ RewardAllowance(c, rate) * rate <= c * RATE_PER
<1> DEFINE x == c * RATE_PER
<1>1. x \in Nat
  BY Multiply DEF ClientLoanAssumption
<1> HIDE DEF x
<1>2. x \div rate \in Nat /\ (x \div rate) * rate <= x
  BY <1>1, DivMod, Division
<1>3. RewardAllowance(c, rate) = x \div rate
  BY DEF RewardAllowance, x
<1>4. QED
  BY <1>2, <1>3 DEF x

\* A step that puts one call in the place of another.
LEMMA CallChanges ==
  ASSUME CallsInv, NEW c \in Calls, NEW r, CallInv(r), calls' = [calls EXCEPT ![c] = r]
  PROVE  /\ CallsInv'
         /\ \A d \in Calls \ {c} : Delegates!Waiting(d)' <=> Delegates!Waiting(d)
         /\ Delegates!Waiting(c)' <=> r # Delegates!NoCall /\ r.step # "adrift"
<1>1. calls' = [d \in Calls |-> IF d = c THEN r ELSE calls[d]]
  BY DEF CallsInv
<1>2. /\ \A d \in Calls \ {c} : calls'[d] = calls[d]
      /\ calls'[c] = r
  BY <1>1
<1>3. CallsInv'
  BY <1>1, <1>2 DEF CallsInv, CallInv, Delegates!NoCall
<1>4. QED
  BY <1>2, <1>3 DEF Delegates!Waiting, Delegates!NoCall

\* It is the call the page waits for, before and after.
LEMMA StillWaiting ==
  ASSUME WaitingInv, NEW c \in Calls,
         \A d \in Calls \ {c} : Delegates!Waiting(d)' <=> Delegates!Waiting(d),
         Delegates!Waiting(c)' <=> Delegates!Waiting(c), action' = action
  PROVE  WaitingInv'
<1>1. \A d \in Calls : Delegates!Waiting(d)' <=> Delegates!Waiting(d)
  OBVIOUS
<1>2. Delegates!Busy' <=> Delegates!Busy
  BY DEF Delegates!Busy
<1>3. QED
  BY <1>1, <1>2 DEF WaitingInv

\* It was the call the page waited for, and the page waits no more.
LEMMA WaitsNoMore ==
  ASSUME WaitingInv, NEW c \in Calls, Delegates!Waiting(c),
         \A d \in Calls \ {c} : Delegates!Waiting(d)' <=> Delegates!Waiting(d),
         ~Delegates!Waiting(c)', ~Delegates!Busy'
  PROVE  WaitingInv'
<1>1. \A d \in Calls : ~Delegates!Waiting(d)'
  BY DEF WaitingInv
<1>2. QED
  BY <1>1 DEF WaitingInv

LEMMA PressKeeps ==
  ASSUME MandateInv, NEW m \in RewardMints, Delegates!Press(m)
  PROVE  MandateInv'
<1>1. PICK c \in Calls, what \in {"approve", "revoke"} : Delegates!Click(c, m, what)
  BY DEF Delegates!Press
<1> DEFINE r == [ step |-> "building", operator |-> operator, mint |-> m, what |-> what,
                  ticked |-> m \in replace ]
<1>2. /\ calls' = [calls EXCEPT ![c] = r] /\ ~Delegates!Busy
      /\ action' = [step |-> "busy", mint |-> m]
      /\ UNCHANGED <<debt, account, operator, board, replace, changes>>
  BY <1>1 DEF Delegates!Click, Delegates!chainVars
<1>3. CallInv(r) /\ r # Delegates!NoCall /\ r.step # "adrift"
  <2>1. r \in Building /\ r.step = "building"
    BY DEF MandateInv, BoardInv, Building
  <2>2. QED
    BY <2>1 DEF CallInv, Delegates!NoCall
<1> HIDE DEF r
<1>4. /\ CallsInv'
      /\ \A d \in Calls \ {c} : Delegates!Waiting(d)' <=> Delegates!Waiting(d)
      /\ Delegates!Waiting(c)'
  BY <1>2, <1>3, CallChanges DEF MandateInv
<1>5. \A d \in Calls : ~Delegates!Waiting(d)
  BY <1>2 DEF MandateInv, WaitingInv
<1>6. Delegates!Busy'
  BY <1>2 DEF Delegates!Busy
<1>7. WaitingInv'
  BY <1>4, <1>5, <1>6 DEF WaitingInv
<1>8. QED
  BY <1>2, <1>4, <1>7 DEF MandateInv, ChainInv, BoardInv

LEMMA BuildKeeps ==
  ASSUME DelegatesAssumption, MandateInv, NEW c \in Calls, Delegates!Build(c)
  PROVE  MandateInv'
<1> DEFINE o == calls[c].operator
           m == calls[c].mint
<1>1. /\ calls[c] \in Building /\ o \in Operators /\ m \in RewardMints
      /\ Delegates!Waiting(c) /\ calls[c].step = "building"
  BY DEF Delegates!Build, Delegates!BuildRevoke, Delegates!BuildApprove, MandateInv, CallsInv,
         CallInv, Building, RevokeSent, Landed, ApproveSent, Delegates!Waiting
<1>2. CASE Delegates!BuildRevoke(c)
  <2> DEFINE r == [step |-> "sent", operator |-> o, mint |-> m, what |-> "revoke"]
  <2>1. calls' = [calls EXCEPT ![c] = r] /\ action' = action
        /\ UNCHANGED <<debt, account, operator, board>>
    BY <1>2 DEF Delegates!BuildRevoke, Delegates!chainVars, Delegates!pageVars
  <2>2. CallInv(r) /\ r # Delegates!NoCall /\ r.step # "adrift"
    BY <1>1 DEF CallInv, RevokeSent, Delegates!NoCall
  <2> HIDE DEF r
  <2>3. CallsInv' /\ WaitingInv'
    BY <1>1, <2>1, <2>2, CallChanges, StillWaiting DEF MandateInv
  <2>4. QED
    BY <2>1, <2>3 DEF MandateInv, ChainInv, BoardInv
<1>3. CASE Delegates!BuildApprove(c)
  <2>1. PICK rate \in Rates :
          IF Delegates!Refuses(c, account[o][m], Delegates!Sized(c, rate))
            THEN Delegates!Withdraw(c)
            ELSE /\ calls' = [calls EXCEPT ![c] =
                      [ step |-> "sent", operator |-> o, mint |-> m, what |-> "approve",
                        allowance |-> Delegates!Sized(c, rate), rate |-> rate,
                        debt |-> debt[o][m] ]]
                 /\ UNCHANGED <<action, board>>
    BY <1>3 DEF Delegates!BuildApprove
  <2>2. UNCHANGED <<debt, account, operator>>
    BY <1>3 DEF Delegates!BuildApprove, Delegates!chainVars
  <2>3. CASE Delegates!Withdraw(c)
    <3>1. calls' = [calls EXCEPT ![c] = Delegates!NoCall] /\ ~Delegates!Busy'
          /\ board' = [status |-> "loading"]
      BY <2>3 DEF Delegates!Withdraw, Delegates!Busy, Delegates!Idle, Delegates!Loading
    <3>2. CallInv(Delegates!NoCall)
      BY DEF CallInv
    <3>3. CallsInv' /\ WaitingInv'
      BY <1>1, <3>1, <3>2, CallChanges, WaitsNoMore DEF MandateInv
    <3>4. QED
      BY <2>2, <3>1, <3>3 DEF MandateInv, ChainInv, BoardInv
  <2>4. CASE ~Delegates!Withdraw(c)
    <3> DEFINE r == [ step |-> "sent", operator |-> o, mint |-> m, what |-> "approve",
                      allowance |-> Delegates!Sized(c, rate), rate |-> rate,
                      debt |-> debt[o][m] ]
    <3>1. calls' = [calls EXCEPT ![c] = r] /\ UNCHANGED <<action, board>>
      BY <2>1, <2>4
    <3>2. debt[o][m] \in 0..MAX_DEBT /\ debt[o][m] \in Nat /\ rate \in Nat \ {0}
      BY <1>1, <2>1 DEF MandateInv, ChainInv, DelegatesAssumption,
                        Delegates!DelegatingAssumption
    <3>3. Delegates!Sized(c, rate) = RewardAllowance(debt[o][m], rate)
      BY DEF Delegates!Sized, RewardAllowance, Delegates!RewardAllowance
    <3>4. RewardAllowance(debt[o][m], rate) \in Nat
      BY <3>2, AllowanceIsWithin DEF DelegatesAssumption
    <3>5. CallInv(r) /\ r # Delegates!NoCall /\ r.step # "adrift"
      <4>1. r \in ApproveSent
        BY <1>1, <2>1, <3>2, <3>3, <3>4 DEF ApproveSent
      <4>2. r.allowance = RewardAllowance(r.debt, r.rate)
        BY <3>3
      <4>3. QED
        BY <4>1, <4>2 DEF CallInv, Delegates!NoCall, ApproveSent
    <3> HIDE DEF r
    <3>6. CallsInv' /\ WaitingInv'
      BY <1>1, <3>1, <3>5, CallChanges, StillWaiting DEF MandateInv
    <3>7. QED
      BY <2>2, <3>1, <3>6 DEF MandateInv, ChainInv, BoardInv
  <2>5. QED
    BY <2>3, <2>4
<1>4. QED
  BY <1>2, <1>3 DEF Delegates!Build

LEMMA LandKeeps ==
  ASSUME MandateInv, NEW c \in Calls, Delegates!Land(c)
  PROVE  MandateInv'
<1> DEFINE call == calls[c]
           o == call.operator
           m == call.mint
<1>1. /\ call \in RevokeSent \union ApproveSent /\ o \in Operators /\ m \in RewardMints
      /\ call.what \in {"approve", "revoke"} /\ call # Delegates!NoCall
      /\ call.step \in {"sent", "adrift"} /\ (call.what # "revoke" => call.allowance \in Nat)
  BY DEF Delegates!Land, MandateInv, CallsInv, CallInv, Building, RevokeSent, Landed, ApproveSent
<1> DEFINE r == IF call.step = "sent"
                  THEN [step |-> "landed", operator |-> o, mint |-> m, what |-> call.what]
                  ELSE Delegates!NoCall
           k == IF call.what = "revoke"
                  THEN [delegate |-> NoOne, amount |-> 0]
                  ELSE [delegate |-> OURS, amount |-> call.allowance]
<1>2. /\ calls' = [calls EXCEPT ![c] = r]
      /\ account' = [account EXCEPT ![o][m] = k]
      /\ UNCHANGED <<debt, operator, board, action>>
  BY DEF Delegates!Land, Delegates!pageVars, Delegates!NoAccount
<1>3. CallInv(r) /\ k \in SomeAccount
      /\ (r # Delegates!NoCall /\ r.step # "adrift" <=> call.step = "sent")
  <2> HIDE DEF call
  <2>1. k \in SomeAccount
    BY <1>1 DEF SomeAccount
  <2>2. CASE call.step = "sent"
    <3>1. r \in Landed /\ r.step = "landed"
      BY <1>1, <2>2 DEF Landed
    <3> HIDE DEF r
    <3>2. QED
      BY <2>1, <2>2, <3>1 DEF CallInv, Delegates!NoCall
  <2>3. CASE call.step # "sent"
    BY <2>1, <2>3 DEF CallInv
  <2>4. QED
    BY <2>2, <2>3
<1>4. Delegates!Waiting(c) <=> call.step = "sent"
  BY <1>1 DEF Delegates!Waiting
<1> HIDE DEF r, k, call
<1>5. CallsInv' /\ WaitingInv'
  <2>1. /\ CallsInv'
        /\ \A d \in Calls \ {c} : Delegates!Waiting(d)' <=> Delegates!Waiting(d)
        /\ Delegates!Waiting(c)' <=> r # Delegates!NoCall /\ r.step # "adrift"
    BY <1>2, <1>3, CallChanges DEF MandateInv
  <2>2. Delegates!Waiting(c)' <=> Delegates!Waiting(c)
    BY <1>3, <1>4, <2>1
  <2>3. WaitingInv'
    BY <1>2, <2>1, <2>2, StillWaiting DEF MandateInv
  <2>4. QED
    BY <2>1, <2>3
<1>6. account' \in [Operators -> [RewardMints -> SomeAccount]]
  BY <1>1, <1>2, <1>3 DEF MandateInv, ChainInv
<1>7. QED
  BY <1>2, <1>5, <1>6 DEF MandateInv, ChainInv, BoardInv

LEMMA ConfirmKeeps ==
  ASSUME MandateInv, NEW c \in Calls, Delegates!Confirm(c)
  PROVE  MandateInv'
<1>1. Delegates!Waiting(c)
  BY DEF Delegates!Confirm, Delegates!Waiting
<1>2. /\ calls' = [calls EXCEPT ![c] = Delegates!NoCall] /\ ~Delegates!Busy'
      /\ board' = [status |-> "loading"] /\ UNCHANGED <<debt, account, operator>>
  BY DEF Delegates!Confirm, Delegates!Busy, Delegates!Loading, Delegates!chainVars
<1>3. CallsInv' /\ WaitingInv'
  BY <1>1, <1>2, CallChanges, WaitsNoMore DEF MandateInv, CallInv
<1>4. QED
  BY <1>2, <1>3 DEF MandateInv, ChainInv, BoardInv

LEMMA FailKeeps ==
  ASSUME MandateInv, NEW c \in Calls, Delegates!Fail(c)
  PROVE  MandateInv'
<1>1. /\ Delegates!Waiting(c) /\ ~Delegates!Busy'
      /\ UNCHANGED <<debt, account, operator, board>>
  BY DEF Delegates!Fail, Delegates!Busy, Delegates!chainVars
<1>2. PICK r : /\ calls' = [calls EXCEPT ![c] = r] /\ CallInv(r)
               /\ (r = Delegates!NoCall \/ r.step = "adrift")
  <2>1. CASE calls' = [calls EXCEPT ![c] = Delegates!NoCall]
    BY <2>1 DEF CallInv
  <2>2. CASE calls[c].step = "sent" /\ calls' = [calls EXCEPT ![c].step = "adrift"]
    <3> DEFINE r == [calls[c] EXCEPT !.step = "adrift"]
    <3>1. CallInv(calls[c]) /\ calls[c] # Delegates!NoCall
      BY <1>1 DEF MandateInv, CallsInv, Delegates!Waiting
    <3>2. CASE calls[c] \in RevokeSent
      <4>1. r \in RevokeSent /\ r.step = "adrift"
        BY <3>2 DEF RevokeSent
      <4>2. QED
        BY <2>2, <4>1 DEF CallInv
    <3>3. CASE calls[c] \in ApproveSent
                 /\ calls[c].allowance = RewardAllowance(calls[c].debt, calls[c].rate)
      <4>1. /\ r \in ApproveSent /\ r.step = "adrift" /\ r.allowance = calls[c].allowance
            /\ r.debt = calls[c].debt /\ r.rate = calls[c].rate
        BY <3>3 DEF ApproveSent
      <4>2. r.allowance = RewardAllowance(r.debt, r.rate)
        BY <3>3, <4>1
      <4>3. QED
        BY <2>2, <4>1, <4>2 DEF CallInv
    <3>4. QED
      BY <2>2, <3>1, <3>2, <3>3 DEF CallInv, Building, Landed
  <2>3. QED
    BY <2>1, <2>2 DEF Delegates!Fail
<1>3. CallsInv' /\ WaitingInv'
  BY <1>1, <1>2, CallChanges, WaitsNoMore DEF MandateInv
<1>4. QED
  BY <1>1, <1>3 DEF MandateInv, ChainInv, BoardInv

LEMMA ExpireKeeps ==
  ASSUME MandateInv, NEW c \in Calls, Delegates!Expire(c)
  PROVE  MandateInv'
<1>1. ~Delegates!Waiting(c)
  BY DEF Delegates!Expire, Delegates!Waiting
<1>2. /\ calls' = [calls EXCEPT ![c] = Delegates!NoCall]
      /\ UNCHANGED <<debt, account, operator, board, action>>
  BY DEF Delegates!Expire, Delegates!chainVars, Delegates!pageVars
<1>3. CallsInv' /\ WaitingInv'
  BY <1>1, <1>2, CallChanges, StillWaiting DEF MandateInv, CallInv
<1>4. QED
  BY <1>2, <1>3 DEF MandateInv, ChainInv, BoardInv

\* Nothing of the calls changes.
LEMMA CallsRest ==
  ASSUME CallsInv, WaitingInv, UNCHANGED <<calls, action>>
  PROVE  CallsInv' /\ WaitingInv'
<1>1. CallsInv'
  BY DEF CallsInv, CallInv, Delegates!NoCall
<1>2. WaitingInv'
  BY DEF WaitingInv, Delegates!Waiting, Delegates!Busy, Delegates!NoCall
<1>3. QED
  BY <1>1, <1>2

LEMMA ReadsKeep ==
  ASSUME DelegatesAssumption, MandateInv, Delegates!Read \/ Delegates!ReadFails
  PROVE  MandateInv'
<1>1. /\ UNCHANGED <<debt, account, operator, calls, action>>
  BY DEF Delegates!Read, Delegates!ReadFails, Delegates!ReadOpenLoans, Delegates!ReadRows,
         Delegates!chainVars
<1>2. CallsInv' /\ WaitingInv' /\ ChainInv'
  BY <1>1, CallsRest DEF MandateInv, ChainInv
<1>3. CASE Delegates!ReadOpenLoans
  <2>1. board' = [status |-> "sizing", ceiling |-> debt[operator]]
    BY <1>3 DEF Delegates!ReadOpenLoans
  <2>2. debt[operator] \in [RewardMints -> 0..MAX_DEBT]
    BY DEF MandateInv, ChainInv, BoardInv
  <2>3. QED
    BY <1>1, <1>2, <2>1, <2>2 DEF MandateInv, BoardInv
<1>4. CASE Delegates!ReadRows
  <2>1. PICK rate \in [RewardMints -> Rates \union {NoRate}] :
          board' = [ status |-> "ready",
                     rows   |-> [m \in RewardMints |->
                       [ account |-> account[operator][m],
                         ceiling |-> board.ceiling[m],
                         target  |-> Delegates!Target(board.ceiling[m], rate[m]) ]]]
    BY <1>4 DEF Delegates!ReadRows, Delegates!Mints
  <2>2. board.ceiling \in [RewardMints -> 0..MAX_DEBT] /\ operator \in Operators
    BY <1>4 DEF Delegates!ReadRows, MandateInv, BoardInv
  <2>3. ASSUME NEW m \in RewardMints
        PROVE  [ account |-> account[operator][m],
                 ceiling |-> board.ceiling[m],
                 target  |-> Delegates!Target(board.ceiling[m], rate[m]) ] \in SomeRow
    <3>1. /\ account[operator][m] \in SomeAccount /\ board.ceiling[m] \in 0..MAX_DEBT
          /\ board.ceiling[m] \in Nat /\ rate[m] \in Rates \union {NoRate}
      BY <2>1, <2>2 DEF MandateInv, ChainInv, DelegatesAssumption,
                        Delegates!DelegatingAssumption
    <3>2. rate[m] # NoRate => RewardAllowance(board.ceiling[m], rate[m]) \in Nat
      BY <3>1, AllowanceIsWithin DEF DelegatesAssumption, Delegates!DelegatingAssumption
    <3>3. Delegates!Target(board.ceiling[m], rate[m]) \in Nat \union {NoRate}
      BY <3>2 DEF Delegates!Target, RewardAllowance, Delegates!RewardAllowance
    <3>4. QED
      BY <3>1, <3>3 DEF SomeRow
  <2>4. board'.status = "ready" /\ board'.rows \in [RewardMints -> SomeRow]
    BY <2>1, <2>3
  <2>5. QED
    BY <1>1, <1>2, <2>4 DEF MandateInv, BoardInv
<1>5. CASE Delegates!ReadFails
  <2>1. board'.status = "unreachable"
    BY <1>5 DEF Delegates!ReadFails, Delegates!Unreachable
  <2>2. QED
    BY <1>1, <1>2, <2>1 DEF MandateInv, BoardInv
<1>6. QED
  BY <1>3, <1>4, <1>5 DEF Delegates!Read

LEMMA ElsewhereKeeps ==
  ASSUME DelegatesAssumption, MandateInv, Delegates!Elsewhere
  PROVE  MandateInv'
<1>1. ASSUME NEW o \in Operators, NEW m \in RewardMints, NEW rate \in Rates,
             Delegates!Sweep(o, m, rate)
      PROVE  MandateInv'
  <2> DEFINE acc == account[o][m]
             tokens == RATE_PER \div rate
             k == IF tokens = acc.amount
                    THEN [delegate |-> NoOne, amount |-> 0]
                    ELSE [acc EXCEPT !.amount = @ - tokens]
  <2>1. /\ debt[o][m] > 0 /\ tokens <= acc.amount
        /\ debt' = [debt EXCEPT ![o][m] = @ - 1]
        /\ account' = [account EXCEPT ![o][m] = k]
        /\ UNCHANGED <<operator, board, action, calls>>
    BY <1>1 DEF Delegates!Sweep, Delegates!pageVars, Delegates!NoAccount
  <2>2. debt[o][m] \in 0..MAX_DEBT /\ acc \in SomeAccount /\ MAX_DEBT \in Nat
    BY DEF MandateInv, ChainInv, DelegatesAssumption, Delegates!DelegatingAssumption
  <2>3. tokens \in Nat
    BY <1>1, DivMod DEF DelegatesAssumption, Delegates!DelegatingAssumption,
                        ClientLoanAssumption
  <2> HIDE DEF tokens
  <2>4. k \in SomeAccount
    <3> HIDE DEF acc
    <3>1. acc.amount \in Nat /\ acc.delegate \in Foreign \union {NoOne, OURS}
      BY <2>2 DEF SomeAccount
    <3>2. acc.amount - tokens \in Nat
      BY <2>1, <2>3, <3>1
    <3>3. [acc EXCEPT !.amount = @ - tokens] \in SomeAccount
      BY <2>2, <3>2 DEF SomeAccount
    <3>4. [delegate |-> NoOne, amount |-> 0] \in SomeAccount
      BY DEF SomeAccount
    <3>5. QED
      BY <3>3, <3>4
  <2> HIDE DEF k
  <2>5. debt[o][m] - 1 \in 0..MAX_DEBT
    BY <2>1, <2>2
  <2>6. ChainInv'
    BY <2>1, <2>4, <2>5 DEF MandateInv, ChainInv
  <2>7. QED
    BY <2>1, <2>6, CallsRest DEF MandateInv, BoardInv
<1>2. ASSUME NEW o \in Operators, NEW m \in RewardMints, NEW left \in 0..MAX_DEBT,
             Delegates!DebtMoves(o, m, left)
      PROVE  MandateInv'
  <2>1. /\ debt' = [debt EXCEPT ![o][m] = left]
        /\ UNCHANGED <<account, operator, board, action, calls>>
    BY <1>2 DEF Delegates!DebtMoves, Delegates!pageVars
  <2>2. ChainInv'
    BY <2>1 DEF MandateInv, ChainInv
  <2>3. QED
    BY <2>1, <2>2, CallsRest DEF MandateInv, BoardInv
<1>3. ASSUME NEW o \in Operators, NEW m \in RewardMints, NEW f \in Foreign,
             Delegates!ApproveForeign(o, m, f)
      PROVE  MandateInv'
  <2>1. /\ account' = [account EXCEPT ![o][m] = [delegate |-> f, amount |-> 1]]
        /\ UNCHANGED <<debt, operator, board, action, calls>>
    BY <1>3 DEF Delegates!ApproveForeign, Delegates!pageVars
  <2>2. [delegate |-> f, amount |-> 1] \in SomeAccount
    BY DEF SomeAccount
  <2>3. ChainInv'
    BY <2>1, <2>2 DEF MandateInv, ChainInv
  <2>4. QED
    BY <2>1, <2>3, CallsRest DEF MandateInv, BoardInv
<1>4. ASSUME NEW o \in Operators, Delegates!SwitchWallet(o)
      PROVE  MandateInv'
  <2>1. /\ operator' = o /\ board' = [status |-> "loading"]
        /\ UNCHANGED <<debt, account, action, calls>>
    BY <1>4 DEF Delegates!SwitchWallet, Delegates!chainVars, Delegates!Loading
  <2>2. QED
    BY <2>1, CallsRest DEF MandateInv, BoardInv, ChainInv
<1>5. QED
  BY <1>1, <1>2, <1>3, <1>4 DEF Delegates!Elsewhere, Delegates!Mints

LEMMA MandateInductive == DelegatesAssumption /\ Delegates!Spec => []MandateInv
<1> SUFFICES ASSUME DelegatesAssumption PROVE Delegates!Spec => []MandateInv
  OBVIOUS
<1>1. Delegates!Init => MandateInv
  <2> SUFFICES ASSUME Delegates!Init PROVE MandateInv
    OBVIOUS
  <2>1. ChainInv
    <3>1. [delegate |-> NoOne, amount |-> 0] \in SomeAccount
      BY DEF SomeAccount
    <3>2. QED
      BY <3>1 DEF Delegates!Init, ChainInv, Delegates!Mints, Delegates!NoAccount
  <2>2. BoardInv
    BY DEF Delegates!Init, BoardInv, Delegates!Loading
  <2>3. CallsInv
    BY DEF Delegates!Init, CallsInv, CallInv
  <2>4. WaitingInv
    BY DEF Delegates!Init, WaitingInv, Delegates!Waiting, Delegates!Busy, Delegates!Idle
  <2>5. QED
    BY <2>1, <2>2, <2>3, <2>4 DEF MandateInv
<1>2. MandateInv /\ [Delegates!Next]_(Delegates!vars) => MandateInv'
  <2> SUFFICES ASSUME MandateInv, [Delegates!Next]_(Delegates!vars) PROVE MandateInv'
    OBVIOUS
  <2>1. CASE UNCHANGED Delegates!vars
    BY <2>1, CallsRest DEF Delegates!vars, Delegates!chainVars, Delegates!pageVars, MandateInv,
                           ChainInv, BoardInv
  <2>2. ASSUME NEW m \in RewardMints, Delegates!Tick(m) PROVE MandateInv'
    BY <2>2, CallsRest DEF Delegates!Tick, Delegates!chainVars, MandateInv, ChainInv, BoardInv
  <2>3. CASE Delegates!Reload
    <3>1. /\ calls' = calls /\ ~Delegates!Busy' /\ ~Delegates!Busy
          /\ board' = [status |-> "loading"] /\ UNCHANGED <<debt, account, operator>>
      BY <2>3 DEF Delegates!Reload, Delegates!Busy, Delegates!Idle, Delegates!Loading,
                  Delegates!chainVars
    <3>2. CallsInv'
      BY <3>1 DEF MandateInv, CallsInv, CallInv, Delegates!NoCall
    <3>3. \A c \in Calls : ~Delegates!Waiting(c) /\ ~Delegates!Waiting(c)'
      BY <3>1 DEF MandateInv, WaitingInv, Delegates!Waiting, Delegates!NoCall
    <3>4. WaitingInv'
      BY <3>1, <3>3 DEF WaitingInv
    <3>5. QED
      BY <3>1, <3>2, <3>4 DEF MandateInv, ChainInv, BoardInv
  <2>4. CASE Delegates!Next
    BY <2>2, <2>3, <2>4, ReadsKeep, ElsewhereKeeps, PressKeeps, BuildKeeps, LandKeeps,
       ConfirmKeeps, FailKeeps, ExpireKeeps DEF Delegates!Next, Delegates!Mints
  <2>5. QED
    BY <2>1, <2>4
<1>3. QED
  BY <1>1, <1>2, PTL DEF Delegates!Spec

\* mandate.ts and Mandate.tsx: an approval that lands is worth no more than the debt it was
\* sized by, for any rate and debt and however the page and the accounts changed since.
THEOREM ApprovalsAreWithinDebt ==
  DelegatesAssumption /\ Delegates!Spec => [][Delegates!ApprovalWithinDebt]_(Delegates!vars)
<1> SUFFICES ASSUME DelegatesAssumption
             PROVE  Delegates!Spec => [][Delegates!ApprovalWithinDebt]_(Delegates!vars)
  OBVIOUS
<1>1. MandateInv => Delegates!ApprovalWithinDebt
  <2> SUFFICES ASSUME MandateInv, NEW c \in Calls, Delegates!Land(c),
                      calls[c].what = "approve",
                      debt[calls[c].operator][calls[c].mint] = calls[c].debt
               PROVE  account'[calls[c].operator][calls[c].mint].amount * calls[c].rate
                        <= debt[calls[c].operator][calls[c].mint] * RATE_PER
    BY DEF Delegates!ApprovalWithinDebt
  <2>1. /\ calls[c] \in ApproveSent
        /\ calls[c].allowance = RewardAllowance(calls[c].debt, calls[c].rate)
    BY DEF Delegates!Land, MandateInv, CallsInv, CallInv, Building, RevokeSent, Landed
  <2> DEFINE o == calls[c].operator
             m == calls[c].mint
             d == calls[c].debt
             rate == calls[c].rate
             allowance == calls[c].allowance
  <2>2. /\ o \in Operators /\ m \in RewardMints /\ d \in Nat /\ rate \in Nat \ {0}
        /\ allowance = RewardAllowance(d, rate)
    <3>1. o \in Operators /\ m \in RewardMints /\ d \in 0..MAX_DEBT /\ rate \in Rates
      BY <2>1 DEF ApproveSent
    <3>2. 0..MAX_DEBT \subseteq Nat /\ Rates \subseteq Nat \ {0}
      BY DEF DelegatesAssumption, Delegates!DelegatingAssumption
    <3>3. QED
      BY <2>1, <3>1, <3>2
  <2>3. account' = [account EXCEPT ![o][m] = [delegate |-> OURS, amount |-> allowance]]
    BY DEF Delegates!Land
  <2> HIDE DEF o, m, d, rate, allowance
  <2>4. account'[o][m].amount = allowance
    BY <2>2, <2>3 DEF MandateInv, ChainInv
  <2>5. allowance * rate <= d * RATE_PER
    BY <2>2, AllowanceIsWithin DEF DelegatesAssumption
  <2>6. QED
    BY <2>4, <2>5 DEF o, m, d, rate, allowance
<1>2. QED
  BY <1>1, MandateInductive, PTL

\* Mandate.tsx: the page waits for one transaction at a time, and is busy exactly while it
\* waits, whatever fails and whatever lands after it was given up.
THEOREM OneTransactionAtATime ==
  DelegatesAssumption /\ Delegates!Spec => []Delegates!OneAtATime
<1> SUFFICES ASSUME DelegatesAssumption PROVE Delegates!Spec => []Delegates!OneAtATime
  OBVIOUS
<1>1. MandateInv => Delegates!OneAtATime
  BY DEF MandateInv, WaitingInv, Delegates!OneAtATime
<1>2. QED
  BY <1>1, MandateInductive, PTL

\* Mandate.tsx: the buttons under a row do what its text asks for, for any account, debt
\* and rate, one that could not be had included.
THEOREM ButtonsDoWhatIsSaid ==
  DelegatesAssumption /\ Delegates!Spec => []Delegates!OffersWhatItSays
<1> SUFFICES ASSUME DelegatesAssumption PROVE Delegates!Spec => []Delegates!OffersWhatItSays
  OBVIOUS
<1>1. MandateInv => Delegates!OffersWhatItSays
  <2> SUFFICES ASSUME MandateInv, Delegates!Ready, NEW m \in RewardMints
               PROVE  LET row == board.rows[m]
                      IN  /\ Delegates!Says(row) \in {"more than the debt", "no longer covers"}
                               /\ row.target # 0 => Delegates!OffersApprove(m)
                          /\ Delegates!Says(row) = "idle" => Delegates!OffersRevoke(m)
                          /\ Delegates!Says(row) \in {"none", "covers and no more"}
                               => ~Delegates!OffersApprove(m)
    BY DEF Delegates!OffersWhatItSays, Delegates!Mints
  <2> DEFINE row == board.rows[m]
             d == Delegates!Delegated(row.account)
  <2>1. row \in SomeRow
    BY DEF MandateInv, BoardInv, Delegates!Ready
  <2>2. row.ceiling \in Nat /\ d \in Nat /\ row.target \in Nat \union {NoRate}
    BY <2>1 DEF SomeRow, SomeAccount, Delegates!Delegated, DelegatesAssumption,
                Delegates!DelegatingAssumption
  <2> HIDE DEF row
  <2>3. /\ Delegates!Kind(row) = "none" <=> row.ceiling = 0 /\ d = 0
        /\ Delegates!Kind(row) = "idle" <=> row.ceiling = 0 /\ d > 0
        /\ Delegates!Kind(row) = "missing" <=> row.ceiling > 0 /\ d = 0
        /\ Delegates!Kind(row) = "active" <=> row.ceiling > 0 /\ d > 0
        /\ Delegates!Kind(row) \in {"none", "idle", "missing", "active"}
    BY <2>2 DEF Delegates!Kind
  <2> HIDE DEF d
  <2>4. /\ Delegates!Kind(row) # "active" => Delegates!Says(row) = Delegates!Kind(row)
        /\ Delegates!Kind(row) = "active" /\ row.target = NoRate
             => Delegates!Says(row) = "cannot be said"
    BY DEF Delegates!Says
  <2>5. Delegates!Kind(row) = "active" /\ row.target # NoRate =>
          /\ Delegates!Says(row) \in
               {"more than the debt", "no longer covers", "covers and no more"}
          /\ Delegates!Says(row) = "more than the debt" => d > row.target
          /\ Delegates!Says(row) = "no longer covers" => d < row.target
          /\ Delegates!Says(row) = "covers and no more" => ~(d > row.target) /\ ~(d < row.target)
    BY DEF Delegates!Says, d
  <2>6. /\ Delegates!OffersApprove(m) <=>
             /\ Delegates!Kind(row) \in {"missing", "active"}
             /\ row.target # NoRate /\ row.target # 0 /\ row.target # d
             /\ Delegates!Kind(row) = "missing" /\ Delegates!ForeignDelegate(row.account)
                  => m \in replace
        /\ Delegates!OffersRevoke(m) <=> Delegates!Kind(row) \in {"idle", "active"} /\ d > 0
    BY DEF Delegates!OffersApprove, Delegates!OffersRevoke, row, d
  <2>7. CASE Delegates!Kind(row) # "active"
    BY <2>2, <2>3, <2>4, <2>6, <2>7 DEF row
  <2>8. CASE Delegates!Kind(row) = "active" /\ row.target = NoRate
    BY <2>4, <2>6, <2>8 DEF row
  <2>9. CASE Delegates!Kind(row) = "active" /\ row.target # NoRate
    <3>1. row.target \in Nat
      BY <2>2, <2>9
    <3>2. PICK x \in Nat, y \in Nat : x = d /\ y = row.target
      BY <2>2, <3>1
    <3>3. /\ x > y \/ x < y => y # x
          /\ ~(x > y) /\ ~(x < y) => y = x
      BY <3>2
    <3>4. /\ Delegates!Says(row) \in {"more than the debt", "no longer covers"}
               /\ row.target # 0 => Delegates!OffersApprove(m)
          /\ Delegates!Says(row) # "idle" /\ Delegates!Says(row) # "none"
          /\ Delegates!Says(row) = "covers and no more" => ~Delegates!OffersApprove(m)
      BY <2>5, <2>6, <2>9, <3>2, <3>3
    <3>5. QED
      BY <3>4 DEF row
  <2>10. QED
    BY <2>7, <2>8, <2>9
<1>2. QED
  BY <1>1, MandateInductive, PTL

-----------------------------------------------------------------------------
(***************************************************************************)
(* The borrow page.                                                        *)
(***************************************************************************)
CONSTANTS DEPOSITS, BASE_APR, SLOPE_APR, LIMIT, Attestors, Terms, Nonces

VARIABLES borrowed, attestor, loans, delegate, allowance, form, chain, reading, preview,
          stage, call, adrift

Borrows == INSTANCE Borrowing

\* What was asked for, and the interest the screen said it would cost.
AskedInv(asked) ==
  /\ asked.amount \in Nat /\ asked.term \in Nat /\ asked.max_apr \in Int
  /\ asked.interest = Borrows!InterestIfHeld(asked.amount, asked.max_apr, asked.term)

RunInv(run) ==
  /\ run.step = "attesting" => AskedInv(run)
  /\ run.step = "preparing" => AskedInv(run.asked)
  /\ run.step \in {"signing", "confirming", "landed"} =>
       /\ AskedInv(run.of.asked)
       /\ run = [step |-> run.step, of |-> run.of, open |-> run.open]

\* The pool may be anything; its figures are numbers.
PoolInv ==
  /\ borrowed \in Int
  /\ \A n \in DOMAIN loans : loans[n].principal \in Int
  /\ chain.status = "ready" => chain.borrowed \in Int

AdriftInv == \A tx \in adrift : tx.step = "confirming" /\ AskedInv(tx.of.asked)

BorrowInv ==
  /\ PoolInv
  /\ form \in [amount : Amounts, term : Terms]
  /\ RunInv(call)
  /\ AdriftInv

\* A higher rate costs no less, over the same term.
LEMMA RateCosts ==
  ASSUME NEW p \in Nat, NEW t \in Nat, NEW a \in Int, NEW b \in Int, a <= b
  PROVE  Borrows!InterestIfHeld(p, a, t) <= Borrows!InterestIfHeld(p, b, t)
<1>1. ASSUME NEW x \in Int, NEW y \in Int, x <= y, NEW z \in Nat
      PROVE  x * z <= y * z
  <2>1. y - x \in Nat /\ y = x + (y - x)
    BY <1>1
  <2>2. (y - x) * z \in Nat
    BY <2>1, Multiply
  <2>3. y * z = x * z + (y - x) * z
    BY <2>1
  <2>4. x * z \in Int
    OBVIOUS
  <2>5. QED
    BY <2>2, <2>3, <2>4
<1>2. ASSUME NEW x \in Int, NEW y \in Int, x <= y, NEW d \in Nat \ {0}
      PROVE  x \div d <= y \div d
  <2> DEFINE q == x \div d
             r == y \div d
  <2>1. /\ q \in Int /\ r \in Int /\ q * d \in Int /\ r * d \in Int
        /\ q * d <= x /\ y < r * d + d
    OBVIOUS
  <2> HIDE DEF q, r
  <2>2. ~(r < q)
    <3>1. SUFFICES ASSUME r < q PROVE FALSE
      OBVIOUS
    <3>2. r + 1 \in Int /\ r + 1 <= q
      BY <2>1, <3>1
    <3>3. (r + 1) * d <= q * d
      BY <1>1, <2>1, <3>2
    <3>4. (r + 1) * d = r * d + d
      BY <2>1
    <3>5. QED
      BY <1>2, <2>1, <3>3, <3>4
  <2>3. q <= r
    BY <2>1, <2>2
  <2>4. QED
    BY <2>3 DEF q, r
<1>3. REPAYMENT_PERIOD \in Nat /\ ACCRUAL_DENOMINATOR \in Nat \ {0}
  BY LoanAssumption
<1>4. p * a \in Int /\ p * b \in Int /\ p * a <= p * b
  BY <1>1
<1>5. /\ p * a * REPAYMENT_PERIOD \in Int /\ p * b * REPAYMENT_PERIOD \in Int
      /\ p * a * REPAYMENT_PERIOD <= p * b * REPAYMENT_PERIOD
  BY <1>1, <1>3, <1>4
<1>6. /\ p * a * REPAYMENT_PERIOD * t \in Int /\ p * b * REPAYMENT_PERIOD * t \in Int
      /\ p * a * REPAYMENT_PERIOD * t <= p * b * REPAYMENT_PERIOD * t
  BY <1>1, <1>5
<1>7. (p * a * REPAYMENT_PERIOD * t) \div ACCRUAL_DENOMINATOR
        <= (p * b * REPAYMENT_PERIOD * t) \div ACCRUAL_DENOMINATOR
  BY <1>2, <1>3, <1>6
<1>8. QED
  BY <1>7 DEF Borrows!InterestIfHeld

LEMMA RateIsANumber ==
  ASSUME Borrows!BorrowingAssumption, NEW used \in Int
  PROVE  Borrows!QuotedApr(BASE_APR, SLOPE_APR, DEPOSITS, used) \in Int
<1>1. /\ DEPOSITS \in Nat \ {0} /\ BASE_APR \in Nat /\ SLOPE_APR \in Nat
  BY DEF Borrows!BorrowingAssumption
<1>2. SLOPE_APR * used \in Int
  BY <1>1
<1>3. ASSUME NEW x \in Int PROVE BASE_APR + (x + DEPOSITS - 1) \div DEPOSITS \in Int
  BY <1>1
<1>4. QED
  BY <1>2, <1>3 DEF Borrows!QuotedApr, Borrows!DivCeil

\* The loan the program gives costs no more than was said.
LEMMA LendsAsAsked ==
  ASSUME Borrows!BorrowingAssumption, PoolInv, NEW tx, AskedInv(tx.of.asked),
         Borrows!Refusals(tx) = {}, Borrows!Lend(tx)
  PROVE  /\ borrowed' \in Int
         /\ \A n \in DOMAIN loans' : loans'[n].principal \in Int
         /\ \A n \in DOMAIN loans' \ DOMAIN loans :
              /\ n = tx.of.nonce
              /\ loans'[n].ceiling - loans'[n].principal <= tx.of.asked.interest
<1> DEFINE req == tx.of.asked
           apr == Borrows!AprGiven(tx)
           cost == Borrows!InterestIfHeld(req.amount, apr, req.term)
           ceiling == Borrows!CeilingOf(req.amount, apr, req.term)
<1>1. req.amount \in Nat /\ req.term \in Nat /\ req.max_apr \in Int
  BY DEF AskedInv
<1>2. apr \in Int
  <2>1. borrowed + req.amount \in Int
    BY <1>1 DEF PoolInv
  <2>2. QED
    BY <2>1, RateIsANumber DEF Borrows!AprGiven
<1>3. ~(apr > req.max_apr)
  BY DEF Borrows!Refusals
<1> HIDE DEF apr
<1>4. cost <= req.interest
  <2>1. apr <= req.max_apr
    BY <1>1, <1>2, <1>3
  <2>2. QED
    BY <1>1, <1>2, <2>1, RateCosts DEF AskedInv
<1>5. cost \in Int
  <2>1. REPAYMENT_PERIOD \in Nat /\ ACCRUAL_DENOMINATOR \in Nat \ {0}
    BY LoanAssumption
  <2>2. req.amount * apr * REPAYMENT_PERIOD * req.term \in Int
    BY <1>1, <1>2, <2>1
  <2>3. QED
    BY <2>1, <2>2 DEF Borrows!InterestIfHeld
<1>6. ceiling = req.amount + cost
  BY DEF Borrows!CeilingOf
<1>7. /\ loans' = [n \in DOMAIN loans \union {tx.of.nonce} |->
                     IF n = tx.of.nonce
                       THEN [principal |-> req.amount, ceiling |-> ceiling]
                       ELSE loans[n]]
      /\ borrowed' = borrowed + req.amount
  BY DEF Borrows!Lend, apr
<1> HIDE DEF cost, ceiling, req
<1>8. ceiling - req.amount <= req.interest
  <2>1. ceiling - req.amount = cost
    BY <1>1, <1>5, <1>6
  <2>2. QED
    BY <1>4, <2>1
<1>9. /\ DOMAIN loans' = DOMAIN loans \union {tx.of.nonce}
      /\ loans'[tx.of.nonce] = [principal |-> req.amount, ceiling |-> ceiling]
      /\ \A n \in DOMAIN loans \ {tx.of.nonce} : loans'[n] = loans[n]
  BY <1>7
<1>10. loans'[tx.of.nonce].principal = req.amount /\ loans'[tx.of.nonce].ceiling = ceiling
  BY <1>9
<1>11. \A n \in DOMAIN loans' : loans'[n].principal \in Int
  BY <1>1, <1>9, <1>10 DEF PoolInv
<1>12. borrowed' \in Int
  BY <1>1, <1>7 DEF PoolInv
<1>13. \A n \in DOMAIN loans' \ DOMAIN loans :
         /\ n = tx.of.nonce
         /\ loans'[n].ceiling - loans'[n].principal <= req.interest
  BY <1>8, <1>9, <1>10
<1>14. QED
  BY <1>11, <1>12, <1>13 DEF req

\* Only a transaction that lands gives a loan.
NoLoanGiven == DOMAIN loans' \subseteq DOMAIN loans

\* A run that goes on, or ends.
LEMMA RunSteps ==
  ASSUME Borrows!BorrowingAssumption, BorrowInv,
         \/ Borrows!Click \/ Borrows!Attest \/ Borrows!NotAttested \/ Borrows!Prepare
         \/ Borrows!Send \/ Borrows!Fail \/ Borrows!Confirm
  PROVE  BorrowInv' /\ NoLoanGiven
<1>1. UNCHANGED <<borrowed, loans, chain, form>>
  BY DEF Borrows!Click, Borrows!Attest, Borrows!NotAttested, Borrows!Prepare, Borrows!Send,
         Borrows!Fail, Borrows!Confirm, Borrows!chainVars
<1>2. PoolInv' /\ form' \in [amount : Amounts, term : Terms] /\ NoLoanGiven
  BY <1>1 DEF BorrowInv, PoolInv, NoLoanGiven
<1>3. RunInv(Borrows!NoCall)
  BY DEF RunInv, Borrows!NoCall
<1>4. RunInv(call')
  <2>1. CASE Borrows!Click
    <3> DEFINE apr == Borrows!Apr(chain.borrowed, form.amount)
               r == [ step     |-> "attesting",
                      amount   |-> form.amount,
                      term     |-> form.term,
                      max_apr  |-> Borrows!MaxApr(chain.borrowed, form.amount),
                      interest |-> Borrows!InterestIfHeld(form.amount, apr, form.term),
                      pool     |-> chain,
                      ticked   |-> replace ]
    <3>1. call' = r
      BY <2>1 DEF Borrows!Click
    <3>2. /\ form.amount \in Nat /\ form.term \in Nat
      BY DEF BorrowInv, Borrows!BorrowingAssumption
    <3>3. chain.borrowed + form.amount \in Int
      BY <2>1, <3>2 DEF Borrows!Click, Borrows!CanSign, Borrows!Quoted, BorrowInv, PoolInv
    <3>4. apr \in Int /\ r.max_apr = apr
      BY <3>3, RateIsANumber DEF Borrows!Apr, Borrows!MaxApr
    <3>5. AskedInv(r)
      BY <3>2, <3>4 DEF AskedInv
    <3>6. r.step = "attesting"
      OBVIOUS
    <3> HIDE DEF r
    <3>7. QED
      BY <3>1, <3>5, <3>6 DEF RunInv
  <2>2. CASE Borrows!Attest
    <3>1. PICK nonce, rate :
            call' = [step |-> "preparing", asked |-> call, nonce |-> nonce, rate |-> rate,
                     attestor |-> attestor]
      BY <2>2 DEF Borrows!Attest
    <3>2. AskedInv(call)
      BY <2>2 DEF Borrows!Attest, BorrowInv, RunInv
    <3>3. call'.step = "preparing" /\ call'.asked = call
      BY <3>1
    <3>4. QED
      BY <3>2, <3>3 DEF RunInv
  <2>3. CASE Borrows!Prepare
    <3>1. CASE call' = Borrows!NoCall
      BY <1>3, <3>1
    <3>2. CASE call' = [step |-> "signing", of |-> call, open |-> DOMAIN loans]
      <4>1. AskedInv(call.asked)
        BY <2>3 DEF Borrows!Prepare, BorrowInv, RunInv
      <4>2. QED
        BY <3>2, <4>1 DEF RunInv
    <3>3. QED
      BY <2>3, <3>1, <3>2 DEF Borrows!Prepare, Borrows!EndWith
  <2>4. CASE Borrows!Send
    <3>1. /\ call' = [call EXCEPT !.step = "confirming"] /\ AskedInv(call.of.asked)
          /\ call = [step |-> call.step, of |-> call.of, open |-> call.open]
      BY <2>4 DEF Borrows!Send, BorrowInv, RunInv
    <3>2. /\ call'.step = "confirming" /\ call'.of = call.of
          /\ call' = [step |-> call'.step, of |-> call'.of, open |-> call'.open]
      BY <3>1
    <3>3. QED
      BY <3>1, <3>2 DEF RunInv
  <2>5. CASE Borrows!NotAttested \/ Borrows!Fail \/ Borrows!Confirm
    BY <1>3, <2>5 DEF Borrows!NotAttested, Borrows!Fail, Borrows!Confirm, Borrows!EndWith
  <2>6. QED
    BY <2>1, <2>2, <2>3, <2>4, <2>5
<1>5. AdriftInv'
  <2>1. CASE UNCHANGED adrift
    BY <2>1 DEF BorrowInv, AdriftInv, AskedInv, Borrows!InterestIfHeld
  <2>2. CASE call.step = "confirming" /\ adrift' = adrift \union {call}
    BY <2>2 DEF BorrowInv, AdriftInv, RunInv, AskedInv, Borrows!InterestIfHeld
  <2>3. QED
    BY <2>1, <2>2 DEF Borrows!Click, Borrows!Attest, Borrows!NotAttested, Borrows!Prepare,
                      Borrows!Send, Borrows!Fail, Borrows!Confirm
<1>6. RunInv(call)'
  BY <1>4 DEF RunInv, AskedInv, Borrows!InterestIfHeld
<1>7. QED
  BY <1>2, <1>5, <1>6 DEF BorrowInv

\* What is given was said, whether the page still waits for it or not.
GivenAsSaid ==
  \A n \in DOMAIN loans' \ DOMAIN loans :
    \E tx \in adrift \union {call} :
      /\ tx.step = "confirming" /\ tx.of.nonce = n
      /\ loans'[n].ceiling - loans'[n].principal <= tx.of.asked.interest

LEMMA LandingSteps ==
  ASSUME Borrows!BorrowingAssumption, BorrowInv, Borrows!Land \/ Borrows!LandAdrift
  PROVE  BorrowInv' /\ GivenAsSaid
<1>1. UNCHANGED <<chain, form>>
  BY DEF Borrows!Land, Borrows!LandAdrift, Borrows!pageVars
<1>2. ASSUME NEW tx \in adrift \union {call}, tx.step = "confirming", AskedInv(tx.of.asked),
             \/ Borrows!Refusals(tx) = {} /\ Borrows!Lend(tx)
             \/ UNCHANGED <<borrowed, loans>>
      PROVE  PoolInv' /\ GivenAsSaid
  <2>1. CASE Borrows!Refusals(tx) = {} /\ Borrows!Lend(tx)
    <3>1. /\ borrowed' \in Int
          /\ \A n \in DOMAIN loans' : loans'[n].principal \in Int
          /\ \A n \in DOMAIN loans' \ DOMAIN loans :
               /\ n = tx.of.nonce
               /\ loans'[n].ceiling - loans'[n].principal <= tx.of.asked.interest
      BY <1>2, <2>1, LendsAsAsked DEF BorrowInv
    <3>2. GivenAsSaid
      BY <1>2, <3>1 DEF GivenAsSaid
    <3>3. PoolInv'
      BY <1>1, <3>1 DEF BorrowInv, PoolInv
    <3>4. QED
      BY <3>2, <3>3
  <2>2. CASE UNCHANGED <<borrowed, loans>>
    BY <1>1, <2>2 DEF BorrowInv, PoolInv, GivenAsSaid
  <2>3. QED
    BY <1>2, <2>1, <2>2
<1>3. CASE Borrows!Land
  <2>1. /\ call.step = "confirming" /\ AskedInv(call.of.asked) /\ adrift' = adrift
        /\ call = [step |-> call.step, of |-> call.of, open |-> call.open]
    BY <1>3 DEF Borrows!Land, BorrowInv, RunInv
  <2>2. PoolInv' /\ GivenAsSaid
    BY <1>2, <1>3, <2>1 DEF Borrows!Land
  <2>3. RunInv(call')
    <3>1. CASE call' = [call EXCEPT !.step = "landed"]
      <4>1. /\ call'.step = "landed" /\ call'.of = call.of
            /\ call' = [step |-> call'.step, of |-> call'.of, open |-> call'.open]
        BY <2>1, <3>1
      <4>2. QED
        BY <2>1, <4>1 DEF RunInv
    <3>2. ASSUME NEW why, call' = [step |-> "refused", why |-> why] PROVE RunInv(call')
      BY <3>2 DEF RunInv
    <3>3. QED
      BY <1>3, <3>1, <3>2 DEF Borrows!Land
  <2>4. RunInv(call)' /\ AdriftInv'
    BY <2>1, <2>3 DEF RunInv, BorrowInv, AdriftInv, AskedInv, Borrows!InterestIfHeld
  <2>5. QED
    BY <1>1, <2>2, <2>4 DEF BorrowInv
<1>4. CASE Borrows!LandAdrift
  <2>1. PICK tx \in adrift :
          /\ adrift' = adrift \ {tx}
          /\ IF Borrows!Refusals(tx) = {}
               THEN Borrows!Lend(tx)
               ELSE UNCHANGED <<borrowed, loans, delegate, allowance>>
    BY <1>4 DEF Borrows!LandAdrift
  <2>2. tx.step = "confirming" /\ AskedInv(tx.of.asked)
    BY DEF BorrowInv, AdriftInv
  <2>3. PoolInv' /\ GivenAsSaid
    BY <1>2, <2>1, <2>2
  <2>4. RunInv(call)' /\ AdriftInv'
    BY <1>4, <2>1 DEF Borrows!LandAdrift, RunInv, BorrowInv, AdriftInv, AskedInv,
                      Borrows!InterestIfHeld
  <2>5. QED
    BY <1>1, <2>3, <2>4 DEF BorrowInv
<1>5. QED
  BY <1>3, <1>4

\* The page reads, and the pool and the loans move.
LEMMA OtherSteps ==
  ASSUME Borrows!BorrowingAssumption, BorrowInv, [Borrows!Next]_(Borrows!vars),
         ~(\/ Borrows!Click \/ Borrows!Attest \/ Borrows!NotAttested \/ Borrows!Prepare
           \/ Borrows!Send \/ Borrows!Fail \/ Borrows!Confirm
           \/ Borrows!Land \/ Borrows!LandAdrift)
  PROVE  BorrowInv' /\ NoLoanGiven
<1>1. UNCHANGED <<call, adrift>>
  <2>1. CASE UNCHANGED Borrows!vars
    BY <2>1 DEF Borrows!vars
  <2>2. CASE Borrows!Next
    BY <2>2 DEF Borrows!Next, Borrows!ReadChain, Borrows!ReadChainFails, Borrows!ReadPreview,
                Borrows!ReadPreviewFails, Borrows!Type, Borrows!Tick, Borrows!PoolMoves,
                Borrows!Repay, Borrows!ApproveForeign, Borrows!Rotate, Borrows!Reload
  <2>3. QED
    BY <2>1, <2>2
<1>2. RunInv(call)' /\ AdriftInv'
  BY <1>1 DEF RunInv, BorrowInv, AdriftInv, AskedInv, Borrows!InterestIfHeld
<1>3. form' \in [amount : Amounts, term : Terms]
  <2>1. CASE form' = form
    BY <2>1 DEF BorrowInv
  <2>2. ASSUME NEW amount \in Amounts, NEW term \in Terms, Borrows!Type(amount, term)
        PROVE  form' \in [amount : Amounts, term : Terms]
    BY <2>2 DEF Borrows!Type
  <2>3. CASE UNCHANGED Borrows!vars
    BY <2>1, <2>3 DEF Borrows!vars, Borrows!pageVars
  <2>4. CASE Borrows!Next
    BY <2>1, <2>2, <2>4
       DEF Borrows!Next, Borrows!pageVars, Borrows!ReadChain, Borrows!ReadChainFails,
           Borrows!ReadPreview, Borrows!ReadPreviewFails, Borrows!Tick, Borrows!PoolMoves,
           Borrows!Repay, Borrows!ApproveForeign, Borrows!Rotate, Borrows!Reload
  <2>5. QED
    BY <2>3, <2>4
<1>4. PoolInv' /\ NoLoanGiven
  <2>1. CASE UNCHANGED <<borrowed, loans, chain>>
    BY <2>1 DEF BorrowInv, PoolInv, NoLoanGiven
  <2>2. CASE Borrows!ReadChain
    BY <2>2 DEF Borrows!ReadChain, Borrows!chainVars, BorrowInv, PoolInv, NoLoanGiven
  <2>3. CASE Borrows!ReadChainFails \/ Borrows!Reload
    <3>1. chain'.status # "ready" /\ UNCHANGED <<borrowed, loans>>
      BY <2>3 DEF Borrows!ReadChainFails, Borrows!Reload, Borrows!Failed, Borrows!Loading,
                  Borrows!chainVars
    <3>2. QED
      BY <3>1 DEF BorrowInv, PoolInv, NoLoanGiven
  <2>4. ASSUME NEW used \in 0..DEPOSITS, Borrows!PoolMoves(used)
        PROVE  PoolInv' /\ NoLoanGiven
    <3>1. borrowed' \in Int /\ UNCHANGED <<loans, chain>>
      BY <2>4 DEF Borrows!PoolMoves, Borrows!BorrowingAssumption, Borrows!pageVars
    <3>2. QED
      BY <3>1 DEF BorrowInv, PoolInv, NoLoanGiven
  <2>5. ASSUME NEW n \in Nonces, Borrows!Repay(n)
        PROVE  PoolInv' /\ NoLoanGiven
    <3>1. /\ n \in DOMAIN loans /\ loans' = [k \in DOMAIN loans \ {n} |-> loans[k]]
          /\ borrowed' = borrowed - loans[n].principal /\ chain' = chain
      BY <2>5 DEF Borrows!Repay, Borrows!pageVars
    <3>2. borrowed' \in Int
      BY <3>1 DEF BorrowInv, PoolInv
    <3>3. /\ DOMAIN loans' = DOMAIN loans \ {n}
          /\ \A k \in DOMAIN loans' : loans'[k] = loans[k]
      BY <3>1
    <3>4. QED
      BY <3>1, <3>2, <3>3 DEF BorrowInv, PoolInv, NoLoanGiven
  <2>6. QED
    BY <2>1, <2>2, <2>3, <2>4, <2>5
       DEF Borrows!Next, Borrows!vars, Borrows!chainVars, Borrows!pageVars,
           Borrows!ReadPreview, Borrows!ReadPreviewFails, Borrows!Type, Borrows!Tick,
           Borrows!ApproveForeign, Borrows!Rotate
<1>5. QED
  BY <1>2, <1>3, <1>4 DEF BorrowInv

\* Borrow.tsx and borrow.rs: a loan that is given, even after the page gave up on it and
\* however the pool moved since, costs no more interest within its term than the screen
\* said when it was clicked.
THEOREM LoansCostWhatWasShown ==
  Borrows!BorrowingAssumption /\ Borrows!Spec => [][Borrows!CostIsShown]_(Borrows!vars)
<1> SUFFICES ASSUME Borrows!BorrowingAssumption
             PROVE  Borrows!Spec => [][Borrows!CostIsShown]_(Borrows!vars)
  OBVIOUS
<1>1. Borrows!Init => BorrowInv
  <2> SUFFICES ASSUME Borrows!Init PROVE BorrowInv
    OBVIOUS
  <2>1. PoolInv
    BY DEF Borrows!Init, PoolInv, Borrows!Loading
  <2>2. RunInv(call) /\ AdriftInv
    BY DEF Borrows!Init, RunInv, Borrows!NoCall, AdriftInv
  <2>3. QED
    BY <2>1, <2>2 DEF Borrows!Init, BorrowInv
<1>2. BorrowInv /\ [Borrows!Next]_(Borrows!vars) => BorrowInv' /\ Borrows!CostIsShown
  <2> SUFFICES ASSUME BorrowInv, [Borrows!Next]_(Borrows!vars)
               PROVE  BorrowInv' /\ Borrows!CostIsShown
    OBVIOUS
  <2>1. BorrowInv' /\ (NoLoanGiven \/ GivenAsSaid)
    BY RunSteps, LandingSteps, OtherSteps
  <2>2. QED
    BY <2>1 DEF NoLoanGiven, GivenAsSaid, Borrows!CostIsShown
<1>3. QED
  BY <1>1, <1>2, PTL DEF Borrows!Spec

-----------------------------------------------------------------------------
(***************************************************************************)
(* The lender's page.                                                      *)
(***************************************************************************)
CONSTANTS WALLET, Held, OTHERS, Deposits, Withdrawals, LoanAmounts, NoLoan, MAX_CLICKS,
          Keys, BASE_APR_BPS, SLOPE_APR_BPS

VARIABLES pool, share, wallet, read, shown, clicks

Lends == INSTANCE LenderPage

\* The pool's account, whatever its figures come to.
SomePool ==
  [ attestor           : {CHOOSE k \in Keys : TRUE},
    total_shares       : Nat,
    total_deposits     : Nat,
    total_borrowed     : Nat,
    accrued_interest   : Nat,
    accrual_rate       : Nat,
    accrual_rate_time  : Nat,
    accrual_remainders : Nat ]

LEMMA SomePoolFields ==
  ASSUME NEW p, p \in SomePool
  PROVE  /\ p.total_shares \in Nat /\ p.total_deposits \in Nat
         /\ p.total_borrowed \in Nat /\ p.accrued_interest \in Nat
         /\ p.accrual_rate \in Nat /\ p.accrual_rate_time \in Nat
         /\ p.accrual_remainders \in Nat
BY DEF SomePool

\* The page values the pool as the program does, and a pool nobody touches is worth
\* no less later.
LEMMA PoolGrows ==
  ASSUME NEW p, p \in SomePool, NEW s \in Nat, NEW t \in Nat, s <= t
  PROVE  /\ Lends!Value(p, s) \in Nat /\ p.total_deposits <= Lends!Value(p, s)
         /\ Lends!Value(p, s) <= Lends!Value(p, t)
         /\ Lends!PoolValue(p, s) = Lends!Value(p, s)
<1> DEFINE n(at) == Lends!SaturatingSub(p.accrual_rate * at + p.accrual_remainders,
                                        p.accrual_rate_time)
           x == p.accrual_rate * s
           y == p.accrual_rate * t
<1>1. x \in Nat /\ y \in Nat /\ x <= y
  BY SomePoolFields, Multiply
<1>2. n(s) \in Nat /\ n(t) \in Nat /\ n(s) <= n(t)
  <2>1. /\ n(s) = Lends!SaturatingSub(x + p.accrual_remainders, p.accrual_rate_time)
        /\ n(t) = Lends!SaturatingSub(y + p.accrual_remainders, p.accrual_rate_time)
    OBVIOUS
  <2> HIDE DEF x, y, n
  <2>2. QED
    BY <1>1, <2>1, SomePoolFields DEF Lends!SaturatingSub
<1>3. \A at : /\ Lends!UnbookedInterest(p, at) = n(at) \div ACCRUAL_DENOMINATOR
              /\ Lends!Unbooked(p, at) = n(at) \div ACCRUAL_DENOMINATOR
  BY DEF Lends!UnbookedInterest, Lends!Unbooked
<1> HIDE DEF n
<1>4. /\ n(s) \div ACCRUAL_DENOMINATOR \in Nat
      /\ n(t) \div ACCRUAL_DENOMINATOR \in Nat
      /\ n(s) \div ACCRUAL_DENOMINATOR <= n(t) \div ACCRUAL_DENOMINATOR
  BY <1>2, LoanAssumption, DivMod, DividesMore
<1>5. QED
  BY <1>3, <1>4, SomePoolFields DEF Lends!Value, Lends!PoolValue

\* The program splits the product and the page does not, and both round down once.
LEMMA WorthIs ==
  ASSUME NEW p, p \in SomePool, NEW at \in Nat, NEW held \in Nat, held <= p.total_shares
  PROVE  LET worth == Lends!ValueOfShares(p, held, at)
         IN  /\ worth \in Nat
             /\ Lends!Worth(p, held, at) = worth
             /\ p.total_shares > 0 =>
                  /\ worth = (held * Lends!Value(p, at)) \div p.total_shares
                  /\ worth * p.total_shares <= held * Lends!Value(p, at)
                  /\ held * Lends!Value(p, at) < worth * p.total_shares + p.total_shares
<1> DEFINE V == Lends!Value(p, at)
           S == p.total_shares
           w == (held * V) \div S
           q == V \div S
           r == V % S
           k == (held * r) \div S
           m == (held * r) % S
<1>1. V \in Nat /\ S \in Nat /\ Lends!PoolValue(p, at) = V
  BY PoolGrows, SomePoolFields
<1>2. CASE S = 0
  <2>1. held = 0
    BY <1>1, <1>2
  <2>2. QED
    BY <1>2, <2>1 DEF Lends!ValueOfShares, Lends!Worth
<1>3. CASE S # 0
  <2>1. S \in Nat \ {0} /\ held * V \in Nat
    BY <1>1, <1>3, Multiply
  <2>2. w \in Nat /\ w * S <= held * V /\ held * V < w * S + S
    <3> HIDE DEF V, S
    <3>1. QED
      BY <2>1, DivMod, Division
  <2>3. q \in Nat /\ r \in 0..(S - 1) /\ V = q * S + r
    <3> HIDE DEF V, S
    <3>1. QED
      BY <1>1, <2>1, DivMod, Division
  <2>4. held * r \in Nat
    <3> HIDE DEF V, S, r
    <3>1. QED
      BY <2>1, <2>3, Multiply
  <2>5. k \in Nat /\ m \in 0..(S - 1) /\ held * r = k * S + m
    <3> HIDE DEF V, S, r
    <3>1. QED
      BY <2>1, <2>4, DivMod, Division
  <2>6. held * V = (held * q + k) * S + m
    <3> HIDE DEF V, S, q, r, k, m
    <3>1. \A a, b, c, d \in Nat : a * (b * c + d) = a * b * c + a * d
      OBVIOUS
    <3>2. held * V = held * q * S + held * r
      BY <2>1, <2>3, <3>1
    <3>3. (held * q + k) * S = held * q * S + k * S
          /\ held * q * S \in Nat /\ k * S \in Nat /\ m \in Nat
      BY <2>1, <2>3, <2>5, Multiply
    <3>4. QED
      BY <2>5, <3>2, <3>3
  <2>7. w = held * q + k
    <3> HIDE DEF V, S, q, r, k, m
    <3>1. held * q + k \in Nat
      BY <2>3, <2>5, Multiply
    <3>2. PICK u \in Nat : u = held * q + k
      BY <3>1
    <3>3. (held * V) \div S = u
      BY <2>1, <2>5, <2>6, <3>2, DividesOnce
    <3>4. QED
      BY <3>2, <3>3 DEF w
  <2>8. CASE held = 0
    <3>1. 0 * V = 0 /\ w = 0
      <4> HIDE DEF V, S
      <4>1. held * V = 0 /\ 0 \div S = 0
        BY <1>1, <2>1, <2>8
      <4>2. QED
        BY <1>1, <4>1
    <3>2. Lends!ValueOfShares(p, held, at) = 0 /\ Lends!Worth(p, held, at) = 0
      BY <2>8 DEF Lends!ValueOfShares, Lends!Worth
    <3>3. QED
      BY <2>2, <3>1, <3>2
  <2>9. CASE held # 0
    <3>1. Lends!ValueOfShares(p, held, at) = held * q + k
      BY <2>9 DEF Lends!ValueOfShares
    <3>2. Lends!Worth(p, held, at) = w
      BY <1>1, <2>9 DEF Lends!Worth
    <3>3. QED
      BY <2>2, <2>7, <3>1, <3>2
  <2>10. QED
    BY <2>8, <2>9
<1>4. QED
  BY <1>2, <1>3

\* As long as nobody touches the pool, a share is worth no less later.
LEMMA WorthGrows ==
  ASSUME NEW p, p \in SomePool, NEW s \in Nat, NEW t \in Nat, s <= t,
         NEW held \in Nat, held <= p.total_shares
  PROVE  Lends!Worth(p, held, s) <= Lends!Worth(p, held, t)
<1> DEFINE x == held * Lends!Value(p, s)
           y == held * Lends!Value(p, t)
           S == p.total_shares
<1>1. x \in Nat /\ y \in Nat /\ x <= y
  <2>1. /\ Lends!Value(p, s) \in Nat /\ Lends!Value(p, t) \in Nat
        /\ Lends!Value(p, s) <= Lends!Value(p, t)
    BY PoolGrows
  <2>2. QED
    BY <2>1, Multiply
<1>2. /\ Lends!Worth(p, held, s) \in Nat /\ Lends!Worth(p, held, t) \in Nat
      /\ Lends!Worth(p, held, s) = Lends!ValueOfShares(p, held, s)
      /\ Lends!Worth(p, held, t) = Lends!ValueOfShares(p, held, t)
  BY WorthIs
<1>3. CASE S = 0
  <2>1. held = 0
    BY <1>3, SomePoolFields
  <2>2. Lends!Worth(p, held, s) = Lends!Worth(p, held, t)
    BY <2>1 DEF Lends!Worth
  <2>3. QED
    BY <1>2, <2>2
<1>4. CASE S # 0
  <2>1. S \in Nat \ {0} /\ p.total_shares > 0
    BY <1>4, SomePoolFields
  <2>2. Lends!Worth(p, held, s) = x \div S /\ Lends!Worth(p, held, t) = y \div S
    BY <1>2, <2>1, WorthIs
  <2> HIDE DEF x, y, S
  <2>3. x \div S <= y \div S
    BY <1>1, <2>1, DividesMore
  <2>4. QED
    BY <2>2, <2>3
<1>5. QED
  BY <1>3, <1>4

\* The accounts of a lender and their pool.
LenderInv ==
  /\ now \in Nat
  /\ pool \in SomePool /\ pool.total_borrowed <= pool.total_deposits
  /\ share \in Nat /\ share <= pool.total_shares
  /\ wallet \in Nat

\* What a withdrawal that the program accepts pays and burns.
LEMMA LenderWithdraws ==
  ASSUME LenderInv, NEW tx, tx.kind = "withdrawal", tx.amount \in Nat, Lends!Accepts(tx)
  PROVE  LET worth  == Lends!ValueOfShares(pool, share, now)
             given  == Lends!WithdrawalPaid(pool, share, tx.amount, now)
             burned == Lends!WithdrawalShares(pool, share, tx.amount, now)
             V      == Lends!Value(pool, now)
             S      == pool.total_shares
         IN  /\ V \in Nat \ {0} /\ S \in Nat \ {0}
             /\ worth \in Nat /\ given \in Nat /\ burned \in Nat
             /\ worth * S <= share * V
             /\ given <= Lends!FreeLiquidity(pool) /\ burned <= share
             /\ given \in {tx.amount, worth, Lends!FreeLiquidity(pool)}
             /\ given = worth => burned = share
             /\ given # worth => given * S <= burned * V /\ burned * V < given * S + V
<1> DEFINE worth == Lends!ValueOfShares(pool, share, now)
           given == Lends!WithdrawalPaid(pool, share, tx.amount, now)
           burned == Lends!WithdrawalShares(pool, share, tx.amount, now)
           V == Lends!Value(pool, now)
           S == pool.total_shares
           free == Lends!FreeLiquidity(pool)
<1>1. V \in Nat /\ S \in Nat \ {0} /\ share \in Nat /\ share <= S /\ share > 0
      /\ free \in Nat /\ worth > 0 /\ free > 0 /\ now \in Nat /\ pool \in SomePool
  <2>1. share > 0 /\ worth > 0 /\ free > 0
    BY DEF Lends!Accepts
  <2>2. V \in Nat
    BY PoolGrows DEF LenderInv
  <2>3. QED
    BY <2>1, <2>2, SomePoolFields DEF LenderInv, Lends!FreeLiquidity
<1>2. worth \in Nat /\ worth * S <= share * V
  BY <1>1, WorthIs
<1>3. given = Lends!Least(Lends!Least(tx.amount, worth), free)
      /\ burned = IF given = worth THEN share ELSE Lends!DivCeil(given * S, V)
  BY DEF Lends!WithdrawalPaid, Lends!WithdrawalShares
<1> HIDE DEF worth, given, burned, V, S, free
<1>4. given \in Nat /\ given <= free /\ given <= worth /\ given \in {tx.amount, worth, free}
  BY <1>1, <1>2, <1>3 DEF Lends!Least
<1>5. V # 0
  <2>1. ASSUME V = 0 PROVE FALSE
    <3>1. share * V = 0
      BY <1>1, <2>1
    <3>2. worth <= worth * S
      <4>1. 1 * worth <= S * worth /\ S * worth = worth * S /\ 1 * worth = worth
        BY <1>1, <1>2, Multiply
      <4>2. QED
        BY <4>1
    <3>3. worth * S \in Nat
      BY <1>1, <1>2, Multiply
    <3>4. QED
      BY <1>1, <1>2, <3>1, <3>2, <3>3
  <2>2. QED
    BY <2>1
<1>6. ASSUME given # worth
      PROVE  /\ burned \in Nat /\ burned <= share
             /\ given * S <= burned * V /\ burned * V < given * S + V
  <2>1. given * S \in Nat /\ V \in Nat \ {0}
    BY <1>1, <1>4, <1>5, Multiply
  <2>2. burned = DivCeil(given * S, V)
    BY <1>3, <1>6 DEF Lends!DivCeil, DivCeil
  <2>3. burned \in Nat /\ burned * V \in Nat
        /\ given * S <= burned * V /\ burned * V < given * S + V
    BY <2>1, <2>2, RoundedUp
  <2>4. ASSUME share < burned PROVE FALSE
    <3>1. (share + 1) * V <= burned * V /\ (share + 1) * V = share * V + 1 * V
          /\ 1 * V = V /\ share * V \in Nat
      BY <1>1, <2>1, <2>3, <2>4, Multiply
    <3>2. given * S <= worth * S /\ worth * S \in Nat
      BY <1>1, <1>2, <1>4, Multiply
    <3>3. QED
      BY <1>2, <2>1, <2>3, <3>1, <3>2
  <2>5. QED
    BY <1>1, <2>3, <2>4
<1>7. given = worth => burned = share /\ burned \in Nat /\ burned <= share
  BY <1>1, <1>3
<1>8. QED
  BY <1>1, <1>2, <1>4, <1>5, <1>6, <1>7 DEF worth, given, burned, V, S, free

\* What the page quotes of the pool as it is.
LEMMA QuoteIs ==
  ASSUME LenderInv, NEW max_amount, NEW tx, tx.kind = "withdrawal", tx.amount = max_amount
  PROVE  /\ (Lends!QuoteRefusals(pool, share, now) = {}) = Lends!Accepts(tx)
         /\ Lends!QuotedPaid(pool, share, max_amount, now)
              = Lends!WithdrawalPaid(pool, share, max_amount, now)
         /\ Lends!QuotedShares(pool, share, max_amount, now)
              = Lends!WithdrawalShares(pool, share, max_amount, now)
<1> DEFINE worth == Lends!ValueOfShares(pool, share, now)
           free == Lends!FreeLiquidity(pool)
<1>1. /\ Lends!Worth(pool, share, now) = worth /\ worth \in Nat
      /\ Lends!PoolValue(pool, now) = Lends!Value(pool, now)
      /\ free \in Nat /\ share \in Nat
  <2>1. worth \in Nat /\ Lends!Worth(pool, share, now) = worth
    BY WorthIs DEF LenderInv
  <2>2. Lends!PoolValue(pool, now) = Lends!Value(pool, now)
    BY PoolGrows DEF LenderInv
  <2>3. QED
    BY <2>1, <2>2, SomePoolFields DEF LenderInv, Lends!FreeLiquidity
<1>2. share = 0 => worth = 0
  BY DEF Lends!ValueOfShares
<1>3. Lends!Accepts(tx) <=> share > 0 /\ worth > 0 /\ free > 0
  BY DEF Lends!Accepts
<1>4. Lends!QuoteRefusals(pool, share, now) = {} <=> worth # 0 /\ free # 0
  BY <1>1 DEF Lends!QuoteRefusals
<1>5. Lends!QuotedPaid(pool, share, max_amount, now)
        = Lends!WithdrawalPaid(pool, share, max_amount, now)
  BY <1>1 DEF Lends!QuotedPaid, Lends!WithdrawalPaid
<1>6. Lends!QuotedShares(pool, share, max_amount, now)
        = Lends!WithdrawalShares(pool, share, max_amount, now)
  BY <1>1, <1>5 DEF Lends!QuotedShares, Lends!WithdrawalShares
<1>7. Lends!Accepts(tx) \in BOOLEAN
  BY DEF Lends!Accepts
<1> HIDE DEF worth, free
<1>8. Lends!QuoteRefusals(pool, share, now) = {} <=> Lends!Accepts(tx)
  BY <1>1, <1>2, <1>3, <1>4
<1>9. QED
  BY <1>5, <1>6, <1>7, <1>8

\* What was quoted of this pool, at any earlier moment, is what is paid at least.
LEMMA QuoteHolds ==
  ASSUME LenderInv, NEW tx, tx.kind = "withdrawal", tx.amount \in Nat, NEW at \in Nat,
         at <= now, Lends!QuoteRefusals(pool, share, at) = {}
  PROVE  /\ Lends!Accepts(tx)
         /\ Lends!QuotedPaid(pool, share, tx.amount, at)
              <= Lends!WithdrawalPaid(pool, share, tx.amount, now)
         /\ Lends!QuotedPaid(pool, share, tx.amount, at) \in Nat
<1> DEFINE before == Lends!Worth(pool, share, at)
           after == Lends!Worth(pool, share, now)
           free == Lends!FreeLiquidity(pool)
<1>1. before \in Nat /\ after \in Nat /\ before <= after /\ free \in Nat
  <2>1. before <= after
    BY WorthGrows DEF LenderInv
  <2>2. before \in Nat
    BY WorthIs DEF LenderInv
  <2>3. after \in Nat
    BY WorthIs DEF LenderInv
  <2>4. free \in Nat
    BY SomePoolFields DEF LenderInv, Lends!FreeLiquidity
  <2>5. QED
    BY <2>1, <2>2, <2>3, <2>4
<1>2. before # 0 /\ free # 0
  BY DEF Lends!QuoteRefusals
<1>3. Lends!QuoteRefusals(pool, share, now) = {} <=> after # 0 /\ free # 0
  BY DEF Lends!QuoteRefusals
<1>4. /\ Lends!QuotedPaid(pool, share, tx.amount, at)
           = Lends!Least(Lends!Least(tx.amount, before), free)
      /\ Lends!QuotedPaid(pool, share, tx.amount, now)
           = Lends!Least(Lends!Least(tx.amount, after), free)
  BY DEF Lends!QuotedPaid
<1> HIDE DEF before, after, free
<1>5. /\ Lends!Least(Lends!Least(tx.amount, before), free)
           <= Lends!Least(Lends!Least(tx.amount, after), free)
      /\ Lends!Least(Lends!Least(tx.amount, before), free) \in Nat
  BY <1>1 DEF Lends!Least
<1>6. Lends!QuoteRefusals(pool, share, now) = {}
  BY <1>1, <1>2, <1>3
<1>7. QED
  BY <1>4, <1>5, <1>6, QuoteIs

\* A withdrawal leaves the interest no loan has booked as it was.
LEMMA ValueAfter ==
  ASSUME NEW p, p \in SomePool, NEW q, q \in SomePool, NEW at \in Nat,
         q.accrued_interest = p.accrued_interest, q.accrual_rate = p.accrual_rate,
         q.accrual_rate_time = p.accrual_rate_time,
         q.accrual_remainders = p.accrual_remainders
  PROVE  Lends!Value(q, at) = Lends!Value(p, at) - (p.total_deposits - q.total_deposits)
<1>1. Lends!UnbookedInterest(q, at) = Lends!UnbookedInterest(p, at)
  BY DEF Lends!UnbookedInterest
<1>2. Lends!UnbookedInterest(p, at) \in Int
  <2> DEFINE n == Lends!SaturatingSub(p.accrual_rate * at + p.accrual_remainders,
                                      p.accrual_rate_time)
             x == p.accrual_rate * at
  <2>1. x \in Nat
    BY SomePoolFields, Multiply
  <2>2. n \in Nat
    <3>1. n = Lends!SaturatingSub(x + p.accrual_remainders, p.accrual_rate_time)
      OBVIOUS
    <3> HIDE DEF x
    <3>2. QED
      BY <2>1, <3>1, SomePoolFields DEF Lends!SaturatingSub
  <2>3. Lends!UnbookedInterest(p, at) = n \div ACCRUAL_DENOMINATOR
    BY DEF Lends!UnbookedInterest
  <2> HIDE DEF n
  <2>4. QED
    BY <2>2, <2>3, LoanAssumption, DivMod
<1>3. QED
  BY <1>1, <1>2, SomePoolFields DEF Lends!Value

LEMMA WithdrawalIs ==
  ASSUME LenderInv, NEW tx, tx.kind = "withdrawal", tx.amount \in Nat, Lends!Accepts(tx),
         Lends!Apply(tx)
  PROVE  LET given  == Lends!WithdrawalPaid(pool, share, tx.amount, now)
             burned == Lends!WithdrawalShares(pool, share, tx.amount, now)
         IN  /\ given \in Nat /\ burned \in Nat
             /\ pool' \in SomePool
             /\ pool'.total_shares = pool.total_shares - burned
             /\ pool'.total_deposits = pool.total_deposits - given
             /\ pool'.total_borrowed = pool.total_borrowed
             /\ pool'.accrued_interest = pool.accrued_interest
             /\ pool'.accrual_rate = pool.accrual_rate
             /\ pool'.accrual_rate_time = pool.accrual_rate_time
             /\ pool'.accrual_remainders = pool.accrual_remainders
             /\ pool'.total_borrowed <= pool'.total_deposits
             /\ Lends!Value(pool', now) = Lends!Value(pool, now) - given
             /\ share' = share - burned /\ share' \in Nat /\ share' <= pool'.total_shares
             /\ wallet' = wallet + given /\ wallet' \in Nat
<1> DEFINE given == Lends!WithdrawalPaid(pool, share, tx.amount, now)
           burned == Lends!WithdrawalShares(pool, share, tx.amount, now)
<1>1. /\ pool' = [pool EXCEPT !.total_shares = pool.total_shares - burned,
                              !.total_deposits = pool.total_deposits - given]
      /\ share' = share - burned /\ wallet' = wallet + given
  BY DEF LenderInv, SomePool, Lends!Apply
<1>2. /\ given \in Nat /\ burned \in Nat /\ given <= Lends!FreeLiquidity(pool)
      /\ burned <= share
  BY LenderWithdraws
<1> HIDE DEF given, burned
<1>3. /\ share \in Nat /\ share <= pool.total_shares /\ wallet \in Nat /\ now \in Nat
      /\ pool \in SomePool /\ given <= pool.total_deposits - pool.total_borrowed
  BY <1>2 DEF LenderInv, Lends!FreeLiquidity
<1>4. given <= pool.total_deposits /\ burned <= pool.total_shares
  BY <1>2, <1>3, SomePoolFields
<1>5. /\ pool' \in SomePool
      /\ pool'.total_shares = pool.total_shares - burned
      /\ pool'.total_deposits = pool.total_deposits - given
      /\ pool'.total_borrowed = pool.total_borrowed
      /\ pool'.accrued_interest = pool.accrued_interest
      /\ pool'.accrual_rate = pool.accrual_rate
      /\ pool'.accrual_rate_time = pool.accrual_rate_time
      /\ pool'.accrual_remainders = pool.accrual_remainders
      /\ Lends!Value(pool', now) = Lends!Value(pool, now) - given
  <2>1. pool.total_shares - burned \in Nat /\ pool.total_deposits - given \in Nat
    BY <1>2, <1>3, <1>4, SomePoolFields
  <2>2. /\ pool' \in SomePool
        /\ pool'.total_shares = pool.total_shares - burned
        /\ pool'.total_deposits = pool.total_deposits - given
        /\ pool'.total_borrowed = pool.total_borrowed
        /\ pool'.accrued_interest = pool.accrued_interest
        /\ pool'.accrual_rate = pool.accrual_rate
        /\ pool'.accrual_rate_time = pool.accrual_rate_time
        /\ pool'.accrual_remainders = pool.accrual_remainders
    BY <1>1, <1>3, <2>1 DEF SomePool
  <2>3. Lends!Value(pool', now)
          = Lends!Value(pool, now) - (pool.total_deposits - pool'.total_deposits)
    BY <1>3, <2>2, ValueAfter
  <2>4. pool.total_deposits - pool'.total_deposits = given
    BY <1>2, <1>3, <2>2, SomePoolFields
  <2>5. QED
    BY <2>2, <2>3, <2>4
<1>6. pool'.total_borrowed <= pool'.total_deposits
  BY <1>2, <1>3, <1>5, SomePoolFields
<1>7. share - burned \in Nat /\ share - burned <= pool.total_shares - burned
      /\ wallet + given \in Nat
  BY <1>2, <1>3, SomePoolFields
<1>8. QED
  BY <1>1, <1>2, <1>5, <1>6, <1>7 DEF given, burned

\* Whatever holds a withdrawal back, it is as the page says it was.
LEMMA WithdrawalIsAsSaid ==
  ASSUME LenderInv, NEW tx, tx.kind = "withdrawal", tx.amount \in Nat, Lends!Accepts(tx),
         tx.amount \in Lends!Maxima, Lends!Apply(tx)
  PROVE  Lends!WithdrewWhatItSays
<1> DEFINE worth == Lends!ValueOfShares(pool, share, now)
           given == Lends!WithdrawalPaid(pool, share, tx.amount, now)
           burned == Lends!WithdrawalShares(pool, share, tx.amount, now)
           V == Lends!Value(pool, now)
           S == pool.total_shares
           W == Lends!Value(pool', now)
           T == pool'.total_shares
           y == Lends!ValueOfShares(pool', share', now)
           c == Lends!DivCeil(V, S)
           free == Lends!FreeLiquidity(pool)
<1>1. /\ V \in Nat \ {0} /\ S \in Nat \ {0} /\ worth \in Nat /\ given \in Nat /\ burned \in Nat
      /\ worth * S <= share * V /\ burned <= share /\ given <= free
      /\ given \in {tx.amount, worth, free}
      /\ given = worth => burned = share
      /\ given # worth => given * S <= burned * V /\ burned * V < given * S + V
  BY LenderWithdraws
<1>2. /\ pool' \in SomePool /\ T = S - burned /\ W = V - given
      /\ pool'.total_deposits = pool.total_deposits - given
      /\ pool'.total_borrowed = pool.total_borrowed
      /\ share' = share - burned /\ share' \in Nat /\ share' <= T
      /\ wallet' = wallet + given
  BY WithdrawalIs
<1>3. share \in Nat /\ share <= S /\ now \in Nat /\ wallet \in Nat
  BY DEF LenderInv
<1>4. /\ y \in Nat /\ T \in Nat /\ W \in Nat
      /\ T > 0 => y * T <= share' * W /\ share' * W < y * T + T
  <2>1. T \in Nat /\ W \in Nat
    BY <1>2, <1>3, SomePoolFields, PoolGrows
  <2>2. QED
    BY <1>2, <1>3, <2>1, WorthIs
<1>5. c \in Nat /\ V <= c * S
  <2> HIDE DEF V, S
  <2>1. c = DivCeil(V, S)
    BY DEF Lends!DivCeil, DivCeil
  <2>2. QED
    BY <1>1, <2>1, RoundedUp
<1>6. wallet' - wallet = given
  BY <1>1, <1>2, <1>3
<1>7. CASE given = tx.amount
  BY <1>6, <1>7 DEF Lends!WithdrewWhatItSays
<1>8. CASE given = worth
  <2>1. share' = 0
    BY <1>1, <1>2, <1>3, <1>8
  <2>2. QED
    BY <1>6, <1>8, <2>1 DEF Lends!WithdrewWhatItSays
<1>9. CASE given = free /\ given # worth
  <2>1. Lends!FreeLiquidity(pool') = 0
    BY <1>2, <1>9, SomePoolFields DEF LenderInv, Lends!FreeLiquidity
  <2> HIDE DEF V, S, W, T, worth, given, burned, y, c
  <2>2. /\ share \in Nat /\ S \in Nat \ {0} /\ V \in Nat \ {0} /\ burned \in Nat
        /\ given \in Nat /\ y \in Nat /\ worth \in Nat /\ c \in Nat /\ T \in Nat /\ W \in Nat
        /\ share <= S /\ burned <= share /\ share' = share - burned /\ share' \in Nat
        /\ T = S - burned /\ W = V - given
        /\ given * S <= burned * V /\ burned * V < given * S + V
        /\ V <= c * S /\ worth * S <= share * V
        /\ T > 0 => share' * W < y * T + T
    BY <1>1, <1>2, <1>3, <1>4, <1>5, <1>9
  <2>3. worth <= given + y + c
    BY <2>2, FairLot
  <2>4. worth - given - y <= c
    BY <2>2, <2>3
  <2>5. QED
    BY <1>6, <2>1, <2>4 DEF Lends!WithdrewWhatItSays, worth, V, S, y, c
<1>10. QED
  BY <1>1, <1>7, <1>8, <1>9

\* A loan the pool has given, and the books the pool keeps of it.
BookedInv ==
  \/ /\ loan = NoLoan
     /\ pool.total_borrowed = 0 /\ pool.accrued_interest = 0
     /\ pool.accrual_rate = 0 /\ pool.accrual_rate_time = 0 /\ pool.accrual_remainders = 0
  \/ /\ loan \in Lends!GivenLoan /\ loan.status = "Active"
     /\ pool.total_borrowed = loan.outstanding
     /\ pool.accrued_interest = loan.accrued_interest
     /\ pool.accrual_rate = Lends!AccrualTerms(loan).rate
     /\ pool.accrual_rate_time = Lends!AccrualTerms(loan).rate_time
     /\ pool.accrual_remainders = Lends!AccrualTerms(loan).remainder

LEMMA GivenFields ==
  ASSUME NEW l, l \in Lends!GivenLoan
  PROVE  /\ l.outstanding \in Nat /\ l.accrued_interest \in Nat
         /\ l.interest_remainder \in Nat /\ l.apr_bps \in Nat /\ l.last_accrual_at \in Nat
BY DEF Lends!GivenLoan

\* What a loan adds to the accrual sums.
LEMMA GivenTerms ==
  ASSUME NEW l, l \in Lends!GivenLoan
  PROVE  /\ Lends!AccrualTerms(l).rate \in Nat
         /\ Lends!AccrualTerms(l).rate_time \in Nat
         /\ Lends!AccrualTerms(l).remainder \in Nat
<1> DEFINE r == l.outstanding * l.apr_bps
           t == r * l.last_accrual_at
<1>1. r \in Nat /\ t \in Nat
  BY GivenFields, Multiply
<1>2. Lends!AccrualTerms(l) = [rate |-> r, rate_time |-> t, remainder |-> l.interest_remainder]
      \/ Lends!AccrualTerms(l) = [rate |-> 0, rate_time |-> 0, remainder |-> 0]
  BY DEF Lends!AccrualTerms, Lends!NoTerms
<1> HIDE DEF r, t
<1>3. QED
  BY <1>1, <1>2, GivenFields

\* The program brings a loan up to date.
LEMMA GivenAccrues ==
  ASSUME NEW l, l \in Lends!GivenLoan, NEW at \in Nat
  PROVE  LET a == Lends!Accrue(l, at)
         IN  /\ Lends!InterestTo(l, at) \in Nat
             /\ a \in Lends!GivenLoan /\ a.status = l.status
             /\ a.outstanding = l.outstanding
             /\ a.accrued_interest = l.accrued_interest + Lends!InterestTo(l, at)
<1>1. CASE at <= l.last_accrual_at
  <2>1. Lends!Accrue(l, at) = l /\ Lends!InterestTo(l, at) = 0
    BY <1>1 DEF Lends!Accrue, Lends!InterestTo
  <2>2. QED
    BY <2>1, GivenFields
<1>2. CASE ~(at <= l.last_accrual_at)
  <2> DEFINE n == Lends!AccrualNumerator(l, at)
             i == Lends!InterestTo(l, at)
             m == n % ACCRUAL_DENOMINATOR
             r == l.outstanding * l.apr_bps
             t == at - l.last_accrual_at
  <2>1. r \in Nat /\ t \in Nat
    BY <1>2, GivenFields, Multiply
  <2>2. n = r * t + l.interest_remainder
    BY DEF Lends!AccrualNumerator
  <2>3. i = n \div ACCRUAL_DENOMINATOR
    BY <1>2 DEF Lends!InterestTo
  <2>4. Lends!Accrue(l, at) = [l EXCEPT !.accrued_interest = l.accrued_interest + i,
                                        !.interest_remainder = m,
                                        !.last_accrual_at = at]
    BY <1>2 DEF Lends!Accrue, Lends!GivenLoan
  <2> HIDE DEF n, i, m, r, t
  <2>5. n \in Nat
    <3>1. r * t \in Nat
      BY <2>1, Multiply
    <3>2. QED
      BY <2>2, <3>1, GivenFields
  <2>6. i \in Nat /\ m \in Nat
    BY <2>3, <2>5, LoanAssumption, DivMod DEF m
  <2>7. l.accrued_interest + i \in Nat
    BY <2>6, GivenFields
  <2>8. QED
    BY <2>4, <2>6, <2>7 DEF Lends!GivenLoan, i
<1>3. QED
  BY <1>1, <1>2

\* Paying a part of it leaves a loan that is open; paying all of it leaves nothing.
LEMMA GivenSettles ==
  ASSUME NEW a, a \in Lends!GivenLoan, a.status = "Active", NEW max_amount \in Nat
  PROVE  LET interest  == Lends!InterestPart(a, max_amount)
             principal == Lends!PrincipalPart(a, max_amount)
             after     == Lends!ApplyRepayment(a, max_amount)
         IN  /\ interest \in Nat /\ principal \in Nat
             /\ interest <= a.accrued_interest /\ principal <= a.outstanding
             /\ Lends!IsOpen(after) =>
                  /\ after \in Lends!GivenLoan /\ after.status = "Active"
                  /\ after.outstanding = a.outstanding - principal
                  /\ after.accrued_interest = a.accrued_interest - interest
             /\ ~Lends!IsOpen(after) =>
                  a.outstanding = principal /\ a.accrued_interest = interest
<1> DEFINE i == Lends!InterestPart(a, max_amount)
           p == Lends!PrincipalPart(a, max_amount)
           after == Lends!ApplyRepayment(a, max_amount)
           left == [a EXCEPT !.accrued_interest = a.accrued_interest - i,
                             !.outstanding = a.outstanding - p]
<1>1. i \in Nat /\ p \in Nat /\ i <= a.accrued_interest /\ p <= a.outstanding
  BY GivenFields DEF Lends!InterestPart, Lends!PrincipalPart, Lends!TotalOwed, Lends!Least
<1>2. after = IF Lends!TotalOwed(left) = 0
                THEN [left EXCEPT !.status = "Repaid", !.reward_due = 0,
                                  !.manual_repayment = Lends!NoReason]
                ELSE left
  BY DEF Lends!ApplyRepayment, Lends!GivenLoan
<1> HIDE DEF i, p, after
<1>3. a.accrued_interest - i \in Nat /\ a.outstanding - p \in Nat
  BY <1>1, GivenFields
<1>4. /\ left \in Lends!GivenLoan /\ left.status = "Active"
      /\ left.outstanding = a.outstanding - p
      /\ left.accrued_interest = a.accrued_interest - i
  BY <1>3 DEF Lends!GivenLoan
<1> HIDE DEF left
<1>5. CASE Lends!TotalOwed(left) = 0
  <2>1. a.outstanding - p = 0 /\ a.accrued_interest - i = 0
    BY <1>3, <1>4, <1>5 DEF Lends!TotalOwed
  <2>2. ~Lends!IsOpen(after)
    BY <1>2, <1>4, <1>5 DEF Lends!IsOpen, Lends!GivenLoan
  <2>3. a.outstanding = p /\ a.accrued_interest = i
    BY <1>1, <2>1, GivenFields
  <2>4. QED
    BY <1>1, <2>2, <2>3 DEF i, p, after
<1>6. CASE Lends!TotalOwed(left) # 0
  <2>1. after = left /\ Lends!IsOpen(after)
    BY <1>2, <1>4, <1>6 DEF Lends!IsOpen
  <2>2. QED
    BY <1>1, <1>4, <2>1 DEF i, p, after
<1>7. QED
  BY <1>5, <1>6

\* A step after which the pool has the same loan.
LEMMA BooksRest ==
  ASSUME BookedInv, UNCHANGED loan, pool'.total_borrowed = pool.total_borrowed,
         pool'.accrued_interest = pool.accrued_interest,
         pool'.accrual_rate = pool.accrual_rate,
         pool'.accrual_rate_time = pool.accrual_rate_time,
         pool'.accrual_remainders = pool.accrual_remainders
  PROVE  BookedInv'
BY DEF BookedInv, Lends!AccrualTerms, Lends!IsOpen, Lends!NoTerms

\* What is withdrawn or deposited when a transaction of the lender lands.
LEMMA LandedKeeps ==
  ASSUME LenderInv, BookedInv, NEW tx, tx.kind \in {"deposit", "withdrawal"},
         tx.amount \in Nat, Lends!Accepts(tx), Lends!Apply(tx), UNCHANGED <<now, loan>>
  PROVE  /\ LenderInv' /\ BookedInv'
         /\ tx.kind = "deposit" => ~(wallet' > wallet)
<1>1. CASE tx.kind = "withdrawal"
  <2>1. LenderInv'
    BY <1>1, WithdrawalIs DEF LenderInv
  <2>2. BookedInv'
    BY <1>1, WithdrawalIs, BooksRest
  <2>3. QED
    BY <1>1, <2>1, <2>2
<1>2. CASE tx.kind = "deposit"
  <2> DEFINE minted == Lends!SharesForDeposit(pool, tx.amount, now)
             V == Lends!Value(pool, now)
             x == tx.amount * pool.total_shares
  <2>1. /\ pool \in SomePool /\ now \in Nat /\ V \in Nat /\ x \in Nat
        /\ share \in Nat /\ share <= pool.total_shares /\ wallet \in Nat
        /\ pool.total_borrowed <= pool.total_deposits
    BY SomePoolFields, PoolGrows, Multiply DEF LenderInv
  <2>2. tx.amount <= wallet /\ (pool.total_shares = 0 \/ V > 0)
    BY <1>2 DEF Lends!Accepts
  <2>3. minted = IF pool.total_shares = 0 THEN tx.amount ELSE x \div V
    BY DEF Lends!SharesForDeposit
  <2>4. /\ pool' = [pool EXCEPT !.total_shares = pool.total_shares + minted,
                                !.total_deposits = pool.total_deposits + tx.amount]
        /\ share' = share + minted /\ wallet' = wallet - tx.amount
    BY <1>2, <2>1 DEF Lends!Apply, SomePool
  <2> HIDE DEF minted, V, x
  <2>5. minted \in Nat
    <3>1. CASE pool.total_shares = 0
      BY <2>3, <3>1
    <3>2. CASE pool.total_shares # 0
      <4>1. V \in Nat \ {0} /\ x \in Nat
        BY <2>1, <2>2, <3>2
      <4>2. x \div V \in Nat
        BY <4>1, DivMod
      <4>3. QED
        BY <2>3, <3>2, <4>2
    <3>3. QED
      BY <3>1, <3>2
  <2>6. pool.total_shares + minted \in Nat /\ pool.total_deposits + tx.amount \in Nat
    BY <2>1, <2>5, SomePoolFields
  <2>7. /\ pool' \in SomePool
        /\ pool'.total_shares = pool.total_shares + minted
        /\ pool'.total_deposits = pool.total_deposits + tx.amount
        /\ pool'.total_borrowed = pool.total_borrowed
        /\ pool'.accrued_interest = pool.accrued_interest
        /\ pool'.accrual_rate = pool.accrual_rate
        /\ pool'.accrual_rate_time = pool.accrual_rate_time
        /\ pool'.accrual_remainders = pool.accrual_remainders
    BY <2>1, <2>4, <2>6 DEF SomePool
  <2>8. /\ pool'.total_borrowed <= pool'.total_deposits
        /\ share' \in Nat /\ share' <= pool'.total_shares
        /\ wallet' \in Nat /\ ~(wallet' > wallet) /\ now' \in Nat
    BY <2>1, <2>2, <2>4, <2>5, <2>7, SomePoolFields
  <2>9. BookedInv'
    BY <2>7, BooksRest
  <2>10. QED
    BY <2>7, <2>8, <2>9 DEF LenderInv
<1>3. QED
  BY <1>1, <1>2

\* The pool gives a loan.
LEMMA GivingKeeps ==
  ASSUME Lends!LenderPageAssumption, LenderInv, BookedInv, NEW amount \in Nat, NEW apr \in Nat,
         Lends!GiveLoan(amount, apr)
  PROVE  LenderInv' /\ BookedInv'
<1> DEFINE terms == Lends!AccrualTerms(loan')
<1>1. /\ loan = NoLoan /\ amount <= Lends!FreeLiquidity(pool)
      /\ loan' = [ outstanding |-> amount, accrued_interest |-> 0, interest_remainder |-> 0,
                   apr_bps |-> apr, last_accrual_at |-> now, status |-> "Active",
                   reward_due |-> 0, manual_repayment |-> Lends!NoReason ]
      /\ UNCHANGED <<now, share, wallet>>
  BY DEF Lends!GiveLoan
<1>2. /\ now \in Nat /\ pool \in SomePool /\ pool.total_borrowed <= pool.total_deposits
      /\ share \in Nat /\ share <= pool.total_shares /\ wallet \in Nat
  BY DEF LenderInv
<1>3. loan' \in Lends!GivenLoan /\ loan'.status = "Active"
      /\ loan'.outstanding = amount /\ loan'.accrued_interest = 0
  BY <1>1, <1>2 DEF Lends!GivenLoan, Lends!LoanStatuses
<1>4. terms.rate \in Nat /\ terms.rate_time \in Nat /\ terms.remainder \in Nat
  BY <1>3, GivenTerms
<1>5. /\ pool.total_borrowed = 0 /\ pool.accrued_interest = 0 /\ pool.accrual_rate = 0
      /\ pool.accrual_rate_time = 0 /\ pool.accrual_remainders = 0
  BY <1>1 DEF BookedInv, Lends!LenderPageAssumption
<1>6. pool' = [Lends!Retrack(pool, Lends!NoTerms, terms) EXCEPT !.total_borrowed = @ + amount]
  BY DEF Lends!GiveLoan
<1> HIDE DEF terms
<1>7. pool' = [pool EXCEPT !.total_borrowed     = pool.total_borrowed + amount,
                           !.accrual_rate       = pool.accrual_rate - 0 + terms.rate,
                           !.accrual_rate_time  = pool.accrual_rate_time - 0 + terms.rate_time,
                           !.accrual_remainders = pool.accrual_remainders - 0 + terms.remainder]
  BY <1>2, <1>6 DEF Lends!Retrack, Lends!NoTerms, SomePool
<1>8. /\ pool.total_borrowed + amount = amount /\ pool.accrual_rate - 0 + terms.rate = terms.rate
      /\ pool.accrual_rate_time - 0 + terms.rate_time = terms.rate_time
      /\ pool.accrual_remainders - 0 + terms.remainder = terms.remainder
  BY <1>4, <1>5
<1>9. /\ pool' \in SomePool
      /\ pool'.total_shares = pool.total_shares /\ pool'.total_deposits = pool.total_deposits
      /\ pool'.total_borrowed = amount /\ pool'.accrued_interest = 0
      /\ pool'.accrual_rate = terms.rate /\ pool'.accrual_rate_time = terms.rate_time
      /\ pool'.accrual_remainders = terms.remainder
  BY <1>2, <1>4, <1>5, <1>7, <1>8 DEF SomePool
<1>10. amount <= pool.total_deposits
  BY <1>1, <1>5, <1>2, SomePoolFields DEF Lends!FreeLiquidity
<1>11. LenderInv'
  BY <1>1, <1>2, <1>9, <1>10 DEF LenderInv
<1>12. BookedInv'
  BY <1>3, <1>9 DEF BookedInv, terms
<1>13. QED
  BY <1>11, <1>12

\* An operator repays: the interest that is paid stays with the lenders.
LEMMA SettlingKeeps ==
  ASSUME Lends!LenderPageAssumption, LenderInv, BookedInv, NEW max_amount \in Nat,
         Lends!Settle(max_amount)
  PROVE  LenderInv' /\ BookedInv'
<1> DEFINE a == Lends!Accrue(loan, now)
           after == Lends!ApplyRepayment(a, max_amount)
           i == Lends!InterestPart(a, max_amount)
           p == Lends!PrincipalPart(a, max_amount)
           due == Lends!InterestTo(loan, now)
           terms == Lends!AccrualTerms(loan)
           left == Lends!AccrualTerms(after)
<1>1. /\ loan # NoLoan
      /\ loan' = IF Lends!IsOpen(after) THEN after ELSE NoLoan
      /\ pool' = [Lends!Retrack(pool, terms, left) EXCEPT
                    !.total_borrowed = @ - p, !.accrued_interest = @ + due - i,
                    !.total_deposits = @ + i]
      /\ UNCHANGED <<now, share, wallet>>
  BY DEF Lends!Settle
<1>2. /\ now \in Nat /\ pool \in SomePool /\ pool.total_borrowed <= pool.total_deposits
      /\ share \in Nat /\ share <= pool.total_shares /\ wallet \in Nat
  BY DEF LenderInv
<1>3. /\ loan \in Lends!GivenLoan /\ loan.status = "Active"
      /\ pool.total_borrowed = loan.outstanding
      /\ pool.accrued_interest = loan.accrued_interest
      /\ pool.accrual_rate = terms.rate /\ pool.accrual_rate_time = terms.rate_time
      /\ pool.accrual_remainders = terms.remainder
  BY <1>1 DEF BookedInv
<1>4. /\ due \in Nat /\ a \in Lends!GivenLoan /\ a.status = "Active"
      /\ a.outstanding = loan.outstanding /\ a.accrued_interest = loan.accrued_interest + due
  BY <1>2, <1>3, GivenAccrues
<1> HIDE DEF a, due
<1>5. /\ i \in Nat /\ p \in Nat /\ i <= a.accrued_interest /\ p <= a.outstanding
      /\ Lends!IsOpen(after) =>
           /\ after \in Lends!GivenLoan /\ after.status = "Active"
           /\ after.outstanding = a.outstanding - p
           /\ after.accrued_interest = a.accrued_interest - i
      /\ ~Lends!IsOpen(after) => a.outstanding = p /\ a.accrued_interest = i
  BY <1>4, GivenSettles
<1>6. /\ left.rate \in Nat /\ left.rate_time \in Nat /\ left.remainder \in Nat
      /\ ~Lends!IsOpen(after) => left.rate = 0 /\ left.rate_time = 0 /\ left.remainder = 0
  <2>1. CASE Lends!IsOpen(after)
    BY <1>5, <2>1, GivenTerms
  <2>2. CASE ~Lends!IsOpen(after)
    BY <2>2 DEF Lends!AccrualTerms, Lends!NoTerms
  <2>3. QED
    BY <2>1, <2>2
<1>7. terms.rate \in Nat /\ terms.rate_time \in Nat /\ terms.remainder \in Nat
  BY <1>3, GivenTerms
<1> HIDE DEF after, i, p, terms, left
<1>8. pool' = [pool EXCEPT !.total_deposits     = pool.total_deposits + i,
                           !.total_borrowed     = pool.total_borrowed - p,
                           !.accrued_interest   = pool.accrued_interest + due - i,
                           !.accrual_rate       = pool.accrual_rate - terms.rate + left.rate,
                           !.accrual_rate_time  =
                              pool.accrual_rate_time - terms.rate_time + left.rate_time,
                           !.accrual_remainders =
                              pool.accrual_remainders - terms.remainder + left.remainder]
  BY <1>1, <1>2 DEF Lends!Retrack, SomePool
<1>9. /\ pool.accrual_rate - terms.rate + left.rate = left.rate
      /\ pool.accrual_rate_time - terms.rate_time + left.rate_time = left.rate_time
      /\ pool.accrual_remainders - terms.remainder + left.remainder = left.remainder
      /\ pool.total_borrowed - p \in Nat /\ pool.total_borrowed - p = a.outstanding - p
      /\ pool.accrued_interest + due - i \in Nat
      /\ pool.accrued_interest + due - i = a.accrued_interest - i
      /\ pool.total_deposits + i \in Nat
      /\ pool.total_borrowed - p <= pool.total_deposits + i
  BY <1>2, <1>3, <1>4, <1>5, <1>6, <1>7, SomePoolFields
<1>10. /\ pool' \in SomePool
       /\ pool'.total_shares = pool.total_shares
       /\ pool'.total_deposits = pool.total_deposits + i
       /\ pool'.total_borrowed = a.outstanding - p
       /\ pool'.accrued_interest = a.accrued_interest - i
       /\ pool'.accrual_rate = left.rate /\ pool'.accrual_rate_time = left.rate_time
       /\ pool'.accrual_remainders = left.remainder
       /\ pool'.total_borrowed <= pool'.total_deposits
  BY <1>2, <1>6, <1>8, <1>9 DEF SomePool
<1>11. LenderInv'
  BY <1>1, <1>2, <1>10 DEF LenderInv
<1>12. BookedInv'
  <2>1. CASE Lends!IsOpen(after)
    <3>1. loan' = after
      BY <1>1, <2>1
    <3>2. left = Lends!AccrualTerms(loan')
      BY <3>1 DEF left
    <3>3. QED
      BY <1>5, <1>10, <2>1, <3>1, <3>2 DEF BookedInv
  <2>2. CASE ~Lends!IsOpen(after)
    <3>1. loan' = NoLoan
      BY <1>1, <2>2
    <3>2. a.outstanding - p = 0 /\ a.accrued_interest - i = 0
      BY <1>4, <1>5, <2>2, GivenFields
    <3>3. QED
      BY <1>6, <1>10, <2>2, <3>1, <3>2 DEF BookedInv
  <2>3. QED
    BY <2>1, <2>2
<1>13. QED
  BY <1>11, <1>12

\* Another lender withdraws.
LEMMA OthersWithdraw ==
  ASSUME LenderInv, BookedInv, NEW amount \in Nat \ {0}, Lends!OtherWithdraws(amount)
  PROVE  LenderInv' /\ BookedInv'
<1> DEFINE V == Lends!Value(pool, now)
           x == amount * pool.total_shares
           burned == Lends!DivCeil(x, V)
<1>1. /\ amount <= Lends!FreeLiquidity(pool)
      /\ burned <= pool.total_shares - share
      /\ pool' = [pool EXCEPT !.total_shares = @ - burned, !.total_deposits = @ - amount]
      /\ UNCHANGED <<now, loan, share, wallet>>
  BY DEF Lends!OtherWithdraws
<1>2. /\ now \in Nat /\ pool \in SomePool /\ pool.total_borrowed <= pool.total_deposits
      /\ share \in Nat /\ share <= pool.total_shares /\ wallet \in Nat
  BY DEF LenderInv
<1>3. V \in Nat /\ pool.total_deposits <= V /\ x \in Nat
  BY <1>2, PoolGrows, SomePoolFields, Multiply
<1>4. amount <= pool.total_deposits - pool.total_borrowed
  BY <1>1 DEF Lends!FreeLiquidity
<1> HIDE DEF V, x
<1>5. V \in Nat \ {0}
  BY <1>2, <1>3, <1>4, SomePoolFields
<1>6. burned \in Nat
  BY <1>3, <1>5, RoundedUp DEF Lends!DivCeil, DivCeil
<1> HIDE DEF burned
<1>7. pool' = [pool EXCEPT !.total_shares = pool.total_shares - burned,
                           !.total_deposits = pool.total_deposits - amount]
  BY <1>1, <1>2 DEF SomePool
<1>8. pool.total_shares - burned \in Nat /\ pool.total_deposits - amount \in Nat
      /\ share <= pool.total_shares - burned
      /\ pool.total_borrowed <= pool.total_deposits - amount
  BY <1>1, <1>2, <1>4, <1>6, SomePoolFields
<1>9. /\ pool' \in SomePool
      /\ pool'.total_shares = pool.total_shares - burned
      /\ pool'.total_deposits = pool.total_deposits - amount
      /\ pool'.total_borrowed = pool.total_borrowed
      /\ pool'.accrued_interest = pool.accrued_interest
      /\ pool'.accrual_rate = pool.accrual_rate
      /\ pool'.accrual_rate_time = pool.accrual_rate_time
      /\ pool'.accrual_remainders = pool.accrual_remainders
  BY <1>2, <1>7, <1>8 DEF SomePool
<1>10. LenderInv'
  BY <1>1, <1>2, <1>8, <1>9 DEF LenderInv
<1>11. BookedInv'
  BY <1>1, <1>9, BooksRest
<1>12. QED
  BY <1>10, <1>11

\* What the page sends, or has given up on: a withdrawal with what was quoted for it, of
\* the pool it was shown, at some moment until now.
SentInv(tx) ==
  \/ /\ tx = [step |-> tx.step, kind |-> "deposit", amount |-> tx.amount]
     /\ tx.amount \in Nat
  \/ /\ tx = [ step |-> tx.step, kind |-> "withdrawal", amount |-> tx.amount, of |-> tx.of,
               quoted |-> tx.quoted ]
     /\ tx.amount \in Nat /\ tx.amount \in Lends!Maxima
     /\ \E at \in Nat :
          /\ at <= now
          /\ Lends!QuoteRefusals(tx.of.pool, tx.of.share, at) = {}
          /\ tx.quoted = Lends!QuotedPaid(tx.of.pool, tx.of.share, tx.amount, at)

RunsInv ==
  /\ calls = [c \in Calls |-> calls[c]]
  /\ \A c \in Calls : calls[c] = Lends!NoCall \/ SentInv(calls[c])
  /\ \A tx \in adrift : SentInv(tx)

ShownInv == shown.status = "ready" => shown.at \in Nat

LendInv == LenderInv /\ BookedInv /\ ShownInv /\ RunsInv

\* What no step of the page or the pool breaks.
LendKept == LendInv' /\ Lends!PaidAsQuoted /\ Lends!WithdrewWhatItSays

LEMMA SentMoves ==
  ASSUME NEW tx, SentInv(tx), NEW s
  PROVE  LET moved == [tx EXCEPT !.step = s]
         IN  SentInv(moved) /\ moved.step = s
<1> DEFINE moved == [tx EXCEPT !.step = s]
<1>1. CASE tx = [step |-> tx.step, kind |-> "deposit", amount |-> tx.amount]
           /\ tx.amount \in Nat
  <2>1. moved = [step |-> s, kind |-> "deposit", amount |-> tx.amount]
    BY <1>1
  <2> HIDE DEF moved
  <2>2. SentInv(moved) /\ moved.step = s
    BY <1>1, <2>1 DEF SentInv
  <2>3. QED
    BY <2>2 DEF moved
<1>2. CASE ~(tx = [step |-> tx.step, kind |-> "deposit", amount |-> tx.amount]
             /\ tx.amount \in Nat)
  <2>1. /\ tx = [ step |-> tx.step, kind |-> "withdrawal", amount |-> tx.amount, of |-> tx.of,
                  quoted |-> tx.quoted ]
        /\ tx.amount \in Nat /\ tx.amount \in Lends!Maxima
        /\ \E at \in Nat :
             /\ at <= now
             /\ Lends!QuoteRefusals(tx.of.pool, tx.of.share, at) = {}
             /\ tx.quoted = Lends!QuotedPaid(tx.of.pool, tx.of.share, tx.amount, at)
    BY <1>2 DEF SentInv
  <2>2. moved = [ step |-> s, kind |-> "withdrawal", amount |-> tx.amount, of |-> tx.of,
                  quoted |-> tx.quoted ]
    BY <2>1
  <2> HIDE DEF moved
  <2>3. moved.step = s /\ moved.amount = tx.amount /\ moved.of = tx.of
        /\ moved.quoted = tx.quoted
    BY <2>2
  <2>4. SentInv(moved)
    BY <2>1, <2>2, <2>3 DEF SentInv
  <2>5. QED
    BY <2>3, <2>4 DEF moved
<1>3. QED
  BY <1>1, <1>2

LEMMA SentStays ==
  ASSUME NEW tx, SentInv(tx), now \in Nat, now' \in Nat, now <= now'
  PROVE  SentInv(tx)'
<1>1. ASSUME NEW at \in Nat, at <= now PROVE at <= now'
  BY <1>1
<1>2. QED
  BY <1>1 DEF SentInv, Lends!Maxima, Lends!QuoteRefusals, Lends!QuotedPaid

LEMMA SentKinds ==
  ASSUME NEW tx, SentInv(tx)
  PROVE  /\ tx.kind \in {"deposit", "withdrawal"} /\ tx.amount \in Nat
         /\ tx.kind = "withdrawal" =>
              /\ tx.amount \in Lends!Maxima
              /\ \E at \in Nat :
                   /\ at <= now
                   /\ Lends!QuoteRefusals(tx.of.pool, tx.of.share, at) = {}
                   /\ tx.quoted = Lends!QuotedPaid(tx.of.pool, tx.of.share, tx.amount, at)
BY DEF SentInv

\* A step that leaves the accounts alone.
LEMMA QuietKeeps ==
  ASSUME LendInv, UNCHANGED <<now, Lends!chainVars>>, ShownInv', RunsInv',
         \A c \in Calls : Lends!At(c, "confirming") => calls'[c] \in {calls[c], Lends!NoCall}
  PROVE  LendKept
<1>1. /\ now' = now /\ pool' = pool /\ loan' = loan /\ share' = share /\ wallet' = wallet
  BY DEF Lends!chainVars
<1>2. LenderInv'
  BY <1>1 DEF LendInv, LenderInv
<1>3. BookedInv'
  BY <1>1, BooksRest DEF LendInv
<1>4. Lends!PaidAsQuoted
  BY DEF Lends!PaidAsQuoted, Lends!At
<1>5. Lends!WithdrewWhatItSays
  <2>1. wallet \in Nat
    BY DEF LendInv, LenderInv
  <2>2. ~(wallet' > wallet)
    BY <1>1, <2>1
  <2>3. QED
    BY <2>2 DEF Lends!WithdrewWhatItSays
<1>6. QED
  BY <1>2, <1>3, <1>4, <1>5 DEF LendInv, LendKept

\* One run of `send` goes on to what is sound, or ends.
LEMMA RunsMove ==
  ASSUME RunsInv, now' = now, NEW c \in Calls, NEW r, r = Lends!NoCall \/ SentInv(r),
         calls' = [calls EXCEPT ![c] = r], \A tx \in adrift' : SentInv(tx)
  PROVE  /\ RunsInv'
         /\ calls'[c] = r /\ \A d \in Calls \ {c} : calls'[d] = calls[d]
<1>1. calls' = [d \in Calls |-> IF d = c THEN r ELSE calls[d]]
  BY DEF RunsInv
<1>2. calls'[c] = r /\ \A d \in Calls \ {c} : calls'[d] = calls[d]
  BY <1>1
<1>3. \A tx : SentInv(tx)' <=> SentInv(tx)
  BY DEF SentInv, Lends!Maxima, Lends!QuoteRefusals, Lends!QuotedPaid
<1>4. calls' = [d \in Calls |-> calls'[d]]
  BY <1>1
<1>5. \A d \in Calls : calls'[d] = Lends!NoCall \/ SentInv(calls'[d])
  BY <1>2 DEF RunsInv
<1>6. QED
  BY <1>2, <1>3, <1>4, <1>5 DEF RunsInv

\* What a transaction that the program takes or refuses makes of the accounts.
LEMMA LandingKeeps ==
  ASSUME LendInv, NEW tx, SentInv(tx), UNCHANGED <<now, loan>>,
         IF Lends!Accepts(tx) THEN Lends!Apply(tx) ELSE UNCHANGED <<pool, share, wallet>>
  PROVE  /\ LenderInv' /\ BookedInv' /\ Lends!WithdrewWhatItSays
         /\ (tx.kind = "withdrawal" /\ pool = tx.of.pool /\ share = tx.of.share)
              => wallet' - wallet >= tx.quoted
<1>1. /\ LenderInv /\ BookedInv /\ tx.amount \in Nat
      /\ tx.kind \in {"deposit", "withdrawal"}
  BY SentKinds DEF LendInv
<1>2. wallet \in Nat /\ now \in Nat
  BY <1>1 DEF LenderInv
<1>3. CASE Lends!Accepts(tx)
  <2>1. Lends!Apply(tx)
    BY <1>3
  <2>2. LenderInv' /\ BookedInv' /\ (tx.kind = "deposit" => ~(wallet' > wallet))
    BY <1>1, <1>3, <2>1, LandedKeeps
  <2>3. Lends!WithdrewWhatItSays
    <3>1. CASE tx.kind = "deposit"
      BY <2>2, <3>1 DEF Lends!WithdrewWhatItSays
    <3>2. CASE tx.kind = "withdrawal"
      <4>1. tx.amount \in Lends!Maxima
        BY <3>2, SentKinds
      <4>2. QED
        BY <1>1, <1>3, <2>1, <3>2, <4>1, WithdrawalIsAsSaid
    <3>3. QED
      BY <1>1, <3>1, <3>2
  <2>4. ASSUME tx.kind = "withdrawal", pool = tx.of.pool, share = tx.of.share
        PROVE  wallet' - wallet >= tx.quoted
    <3>1. PICK at \in Nat :
            /\ at <= now
            /\ Lends!QuoteRefusals(pool, share, at) = {}
            /\ tx.quoted = Lends!QuotedPaid(pool, share, tx.amount, at)
      BY <2>4, SentKinds
    <3>2. /\ tx.quoted <= Lends!WithdrawalPaid(pool, share, tx.amount, now)
          /\ tx.quoted \in Nat
      BY <1>1, <2>4, <3>1, QuoteHolds
    <3>3. /\ wallet' = wallet + Lends!WithdrawalPaid(pool, share, tx.amount, now)
          /\ Lends!WithdrawalPaid(pool, share, tx.amount, now) \in Nat
      BY <1>1, <1>3, <2>1, <2>4, WithdrawalIs
    <3>4. QED
      BY <1>2, <3>2, <3>3
  <2>5. QED
    BY <2>2, <2>3, <2>4
<1>4. CASE ~Lends!Accepts(tx)
  <2>1. UNCHANGED <<now, loan, pool, share, wallet>>
    BY <1>4
  <2>2. LenderInv' /\ BookedInv'
    BY <1>1, <2>1, BooksRest DEF LenderInv
  <2>3. Lends!WithdrewWhatItSays
    BY <1>2, <2>1 DEF Lends!WithdrewWhatItSays
  <2>4. ASSUME tx.kind = "withdrawal", pool = tx.of.pool, share = tx.of.share
        PROVE  FALSE
    <3>1. PICK at \in Nat :
            at <= now /\ Lends!QuoteRefusals(pool, share, at) = {}
      BY <2>4, SentKinds
    <3>2. Lends!Accepts(tx)
      BY <1>1, <2>4, <3>1, QuoteHolds
    <3>3. QED
      BY <1>4, <3>2
  <2>5. QED
    BY <2>2, <2>3, <2>4
<1>5. QED
  BY <1>3, <1>4

LEMMA LandKept ==
  ASSUME LendInv, NEW c \in Calls, Lends!Land(c)
  PROVE  LendKept
<1> DEFINE tx == calls[c]
           r == [tx EXCEPT !.step = IF Lends!Accepts(tx) THEN "landed" ELSE "refused"]
<1>1. /\ Lends!At(c, "confirming")
      /\ IF Lends!Accepts(tx) THEN Lends!Apply(tx) ELSE UNCHANGED <<pool, share, wallet>>
      /\ UNCHANGED <<now, loan, read, shown, adrift>>
  BY DEF Lends!Land, Lends!pageVars
<1>2. tx # Lends!NoCall /\ tx.step = "confirming" /\ SentInv(tx)
  BY <1>1 DEF Lends!At, LendInv, RunsInv
<1>3. calls' = [calls EXCEPT ![c] = r]
  BY DEF Lends!Land, Lends!Move
<1>4. SentInv(r)
  BY <1>2, SentMoves
<1>5. /\ LenderInv' /\ BookedInv' /\ Lends!WithdrewWhatItSays
      /\ (tx.kind = "withdrawal" /\ pool = tx.of.pool /\ share = tx.of.share)
           => wallet' - wallet >= tx.quoted
  BY <1>1, <1>2, LandingKeeps
<1> HIDE DEF r
<1>6. /\ RunsInv' /\ calls'[c] = r
      /\ \A d \in Calls \ {c} : calls'[d] = calls[d]
  <2>1. RunsInv /\ now' = now /\ adrift' = adrift /\ \A t \in adrift' : SentInv(t)
    BY <1>1 DEF LendInv, RunsInv
  <2>2. QED
    BY <1>3, <1>4, <2>1, RunsMove
<1>7. ShownInv'
  BY <1>1 DEF LendInv, ShownInv
<1>8. Lends!PaidAsQuoted
  BY <1>5, <1>6 DEF Lends!PaidAsQuoted, Lends!At
<1>9. QED
  BY <1>5, <1>6, <1>7, <1>8 DEF LendInv, LendKept

LEMMA LandAdriftKept ==
  ASSUME LendInv, Lends!LandAdrift
  PROVE  LendKept
<1>1. PICK tx \in adrift :
        /\ adrift' = adrift \ {tx}
        /\ IF Lends!Accepts(tx) THEN Lends!Apply(tx) ELSE UNCHANGED <<pool, share, wallet>>
  BY DEF Lends!LandAdrift
<1>2. UNCHANGED <<now, loan, read, shown, calls>>
  BY DEF Lends!LandAdrift, Lends!pageVars
<1>3. SentInv(tx)
  BY DEF LendInv, RunsInv
<1>4. LenderInv' /\ BookedInv' /\ Lends!WithdrewWhatItSays
  BY <1>1, <1>2, <1>3, LandingKeeps
<1>5. RunsInv'
  <2>1. \A t : SentInv(t)' <=> SentInv(t)
    BY <1>2 DEF SentInv, Lends!Maxima, Lends!QuoteRefusals, Lends!QuotedPaid
  <2>2. QED
    BY <1>1, <1>2, <2>1 DEF LendInv, RunsInv
<1>6. ShownInv'
  BY <1>2 DEF LendInv, ShownInv
<1>7. Lends!PaidAsQuoted
  BY <1>2 DEF Lends!PaidAsQuoted, Lends!At
<1>8. QED
  BY <1>4, <1>5, <1>6, <1>7 DEF LendInv, LendKept

\* The page goes on with a run of `send` that is not yet on the chain's way, or ends it.
LEMMA RunKept ==
  ASSUME LendInv, UNCHANGED <<now, Lends!chainVars, shown>>, NEW c \in Calls, NEW r,
         r = Lends!NoCall \/ (SentInv(r) /\ ~Lends!At(c, "confirming")),
         calls' = [calls EXCEPT ![c] = r], \A tx \in adrift' : SentInv(tx)
  PROVE  LendKept
<1>1. now' = now /\ RunsInv
  BY DEF LendInv
<1>2. RunsInv' /\ calls'[c] = r /\ \A d \in Calls \ {c} : calls'[d] = calls[d]
  BY <1>1, RunsMove
<1>3. ShownInv'
  BY DEF LendInv, ShownInv
<1>4. \A d \in Calls : Lends!At(d, "confirming") => calls'[d] \in {calls[d], Lends!NoCall}
  BY <1>2
<1>5. QED
  BY <1>2, <1>3, <1>4, QuietKeeps

\* Signing, waiting for the answer, and giving up.
LEMMA SendingKept ==
  ASSUME LendInv, NEW c \in Calls,
         \/ Lends!Build(c) \/ Lends!Sign(c) \/ Lends!Confirm(c)
         \/ Lends!Done(c) \/ Lends!Refused(c) \/ Lends!Fail(c)
  PROVE  LendKept
<1>1. UNCHANGED <<now, Lends!chainVars, shown>>
  BY DEF Lends!Build, Lends!Sign, Lends!Confirm, Lends!Done, Lends!Refused, Lends!Fail,
         Lends!pageVars
<1>2. \A tx \in adrift : SentInv(tx)
  BY DEF LendInv, RunsInv
<1>3. ASSUME NEW s, NEW t, Lends!At(c, s), s # "confirming", Lends!Move(c, t), adrift' = adrift
      PROVE  LendKept
  <2> DEFINE r == [calls[c] EXCEPT !.step = t]
  <2>1. SentInv(calls[c]) /\ ~Lends!At(c, "confirming")
    BY <1>3 DEF Lends!At, LendInv, RunsInv
  <2>2. SentInv(r)
    BY <2>1, SentMoves
  <2>3. calls' = [calls EXCEPT ![c] = r]
    BY <1>3 DEF Lends!Move
  <2> HIDE DEF r
  <2>4. QED
    BY <1>1, <1>2, <1>3, <2>1, <2>2, <2>3, RunKept
<1>4. ASSUME Lends!End(c), \A tx \in adrift' : SentInv(tx)
      PROVE  LendKept
  BY <1>1, <1>4, RunKept DEF Lends!End
<1>5. CASE Lends!Build(c)
  BY <1>3, <1>5 DEF Lends!Build
<1>6. CASE Lends!Sign(c)
  BY <1>3, <1>6 DEF Lends!Sign
<1>7. CASE Lends!Confirm(c)
  BY <1>3, <1>7 DEF Lends!Confirm
<1>8. CASE Lends!Done(c) \/ Lends!Refused(c)
  BY <1>2, <1>4, <1>8 DEF Lends!Done, Lends!Refused
<1>9. CASE Lends!Fail(c)
  <2>1. Lends!End(c) /\ (adrift' = adrift \/ adrift' = adrift \union {calls[c]})
        /\ calls[c] # Lends!NoCall
    BY <1>9 DEF Lends!Fail
  <2>2. SentInv(calls[c])
    BY <2>1 DEF LendInv, RunsInv
  <2>3. QED
    BY <1>2, <1>4, <2>1, <2>2
<1>10. QED
  BY <1>5, <1>6, <1>7, <1>8, <1>9

\* A click quotes from what is shown, as it was rendered at some moment.
LEMMA ClickKept ==
  ASSUME Lends!LenderPageAssumption, LendInv, Lends!Clicking
  PROVE  LendKept
<1>1. PICK c \in Calls :
        \/ \E amount \in Deposits : Lends!ClickDeposit(c, amount)
        \/ \E max_amount \in Lends!Maxima, at \in Lends!RenderTimes :
             Lends!ClickWithdraw(c, max_amount, at)
  BY DEF Lends!Clicking
<1>2. \A tx \in adrift : SentInv(tx)
  BY DEF LendInv, RunsInv
<1>3. CASE \E amount \in Deposits : Lends!ClickDeposit(c, amount)
  <2>1. PICK amount \in Deposits : Lends!ClickDeposit(c, amount)
    BY <1>3
  <2> DEFINE r == [step |-> "building", kind |-> "deposit", amount |-> amount]
  <2>2. amount \in Nat
    BY ArithmeticAssumption DEF Lends!LenderPageAssumption, Lends!U64
  <2>3. SentInv(r)
    BY <2>2 DEF SentInv
  <2>4. /\ calls[c] = Lends!NoCall /\ calls' = [calls EXCEPT ![c] = r]
        /\ adrift' = adrift /\ UNCHANGED <<now, Lends!chainVars, shown>>
    BY <2>1 DEF Lends!ClickDeposit, Lends!pageVars
  <2>5. ~Lends!At(c, "confirming")
    BY <2>4 DEF Lends!At
  <2> HIDE DEF r
  <2>6. QED
    BY <1>2, <2>3, <2>4, <2>5, RunKept
<1>4. CASE \E max_amount \in Lends!Maxima, at \in Lends!RenderTimes :
             Lends!ClickWithdraw(c, max_amount, at)
  <2>1. PICK max_amount \in Lends!Maxima, at \in Lends!RenderTimes :
          Lends!ClickWithdraw(c, max_amount, at)
    BY <1>4
  <2> DEFINE of == [pool |-> shown.pool, share |-> shown.share]
             r == [ step |-> "building", kind |-> "withdrawal", amount |-> max_amount,
                    of |-> of,
                    quoted |-> Lends!QuotedPaid(shown.pool, shown.share, max_amount, at) ]
  <2>2. max_amount \in Nat
    BY ArithmeticAssumption DEF Lends!LenderPageAssumption, Lends!U64, Lends!Maxima
  <2>3. at \in Nat /\ at <= now
    <3>1. at \in shown.at..now /\ shown.status = "ready"
      BY DEF Lends!RenderTimes
    <3>2. shown.at \in Nat /\ now \in Nat
      BY <3>1 DEF LendInv, ShownInv, LenderInv
    <3>3. QED
      BY <3>1, <3>2
  <2>4. Lends!QuoteRefusals(shown.pool, shown.share, at) = {}
    BY <2>1 DEF Lends!ClickWithdraw, Lends!CanWithdraw
  <2>5. SentInv(r)
    <3>1. of.pool = shown.pool /\ of.share = shown.share
      OBVIOUS
    <3> HIDE DEF of
    <3>2. /\ r.step = "building" /\ r.amount = max_amount /\ r.of = of
          /\ r.quoted = Lends!QuotedPaid(of.pool, of.share, max_amount, at)
      BY <3>1
    <3>3. r = [ step |-> r.step, kind |-> "withdrawal", amount |-> r.amount, of |-> r.of,
                quoted |-> r.quoted ]
      BY <3>1, <3>2
    <3> HIDE DEF r
    <3>4. /\ at <= now /\ Lends!QuoteRefusals(r.of.pool, r.of.share, at) = {}
          /\ r.quoted = Lends!QuotedPaid(r.of.pool, r.of.share, r.amount, at)
      BY <2>3, <2>4, <3>1, <3>2
    <3>5. QED
      BY <2>2, <2>3, <3>2, <3>3, <3>4 DEF SentInv
  <2>6. /\ calls[c] = Lends!NoCall /\ calls' = [calls EXCEPT ![c] = r]
        /\ adrift' = adrift /\ UNCHANGED <<now, Lends!chainVars, shown>>
    BY <2>1 DEF Lends!ClickWithdraw, Lends!pageVars
  <2>7. ~Lends!At(c, "confirming")
    BY <2>6 DEF Lends!At
  <2> HIDE DEF r
  <2>8. QED
    BY <1>2, <2>5, <2>6, <2>7, RunKept
<1>5. QED
  BY <1>1, <1>3, <1>4

\* The page reads, fails to, or is loaded again.
LEMMA ReadingKept ==
  ASSUME LendInv,
         \/ \E part \in Lends!Parts : Lends!ReadPart(part)
         \/ Lends!ReadFails \/ Lends!Reload
  PROVE  LendKept
<1>1. UNCHANGED <<now, Lends!chainVars, calls, adrift>>
  BY DEF Lends!ReadPart, Lends!ReadFails, Lends!Reload
<1>2. ShownInv'
  <2>1. now \in Nat /\ ShownInv
    BY DEF LendInv, LenderInv
  <2>2. CASE \E part \in Lends!Parts : Lends!ReadPart(part)
    <3>1. shown' = shown \/ shown'.at = now
      BY <2>2 DEF Lends!ReadPart
    <3>2. QED
      BY <2>1, <3>1 DEF ShownInv
  <2>3. CASE Lends!ReadFails
    <3>1. shown'.status = "unreachable"
      BY <2>3 DEF Lends!ReadFails
    <3>2. QED
      BY <3>1 DEF ShownInv
  <2>4. CASE Lends!Reload
    <3>1. shown'.status = "loading"
      BY <2>4 DEF Lends!Reload, Lends!Loading
    <3>2. QED
      BY <3>1 DEF ShownInv
  <2>5. QED
    BY <2>2, <2>3, <2>4
<1>3. RunsInv'
  BY <1>1 DEF LendInv, RunsInv, SentInv, Lends!Maxima, Lends!QuoteRefusals,
              Lends!QuotedPaid
<1>4. QED
  BY <1>1, <1>2, <1>3, QuietKeeps

\* A step of others, after which the lender has what they had.
LEMMA OthersKept ==
  ASSUME LendInv, LenderInv', BookedInv', now <= now',
         UNCHANGED <<wallet, shown, calls, adrift>>
  PROVE  LendKept
<1>1. ShownInv'
  BY DEF LendInv, ShownInv
<1>2. RunsInv'
  <2>1. now \in Nat /\ now' \in Nat
    BY DEF LendInv, LenderInv
  <2>2. \A tx : SentInv(tx) => SentInv(tx)'
    BY <2>1, SentStays
  <2>3. QED
    BY <2>2 DEF LendInv, RunsInv
<1>3. Lends!PaidAsQuoted
  BY DEF Lends!PaidAsQuoted, Lends!At
<1>4. Lends!WithdrewWhatItSays
  <2>1. wallet \in Nat /\ wallet' = wallet
    BY DEF LendInv, LenderInv
  <2>2. QED
    BY <2>1 DEF Lends!WithdrewWhatItSays
<1>5. QED
  BY <1>1, <1>2, <1>3, <1>4 DEF LendInv, LendKept

LEMMA ElsewhereKept ==
  ASSUME Lends!LenderPageAssumption, LendInv, Lends!Elsewhere
  PROVE  LendKept
<1>1. now \in Nat /\ LenderInv /\ BookedInv
  BY DEF LendInv, LenderInv
<1>2. /\ LoanAmounts \subseteq Nat \ {0} /\ Aprs \subseteq Nat /\ Withdrawals \subseteq Nat \ {0}
      /\ U64_MAX \in Nat
  BY ArithmeticAssumption, LoanAssumption DEF Lends!LenderPageAssumption, Lends!U64
<1>3. CASE \E amount \in LoanAmounts, apr \in Aprs : Lends!GiveLoan(amount, apr)
  <2>1. PICK amount \in LoanAmounts, apr \in Aprs : Lends!GiveLoan(amount, apr)
    BY <1>3
  <2>2. LenderInv' /\ BookedInv'
    BY <1>1, <1>2, <2>1, GivingKeeps
  <2>3. now' = now /\ UNCHANGED <<wallet, shown, calls, adrift>>
    BY <2>1 DEF Lends!GiveLoan, Lends!pageVars
  <2>4. QED
    BY <1>1, <2>2, <2>3, OthersKept
<1>4. ASSUME NEW amount \in Nat, Lends!Settle(amount) PROVE LendKept
  <2>1. LenderInv' /\ BookedInv'
    BY <1>1, <1>4, SettlingKeeps
  <2>2. now' = now /\ UNCHANGED <<wallet, shown, calls, adrift>>
    BY <1>4 DEF Lends!Settle, Lends!pageVars
  <2>3. QED
    BY <1>1, <2>1, <2>2, OthersKept
<1>5. CASE \E amount \in LoanAmounts : Lends!RepayPart(amount)
  BY <1>2, <1>4, <1>5 DEF Lends!RepayPart
<1>6. CASE Lends!RepayAll
  BY <1>2, <1>4, <1>6 DEF Lends!RepayAll
<1>7. CASE \E amount \in Withdrawals : Lends!OtherWithdraws(amount)
  <2>1. PICK amount \in Withdrawals : Lends!OtherWithdraws(amount)
    BY <1>7
  <2>2. LenderInv' /\ BookedInv'
    BY <1>1, <1>2, <2>1, OthersWithdraw
  <2>3. now' = now /\ UNCHANGED <<wallet, shown, calls, adrift>>
    BY <2>1 DEF Lends!OtherWithdraws, Lends!pageVars
  <2>4. QED
    BY <1>1, <2>2, <2>3, OthersKept
<1>8. CASE Lends!Tick
  <2>1. now' = now + 1 /\ UNCHANGED <<pool, loan, share, wallet, shown, calls, adrift>>
    BY <1>8 DEF Lends!Tick, Lends!pageVars, Lends!chainVars
  <2>2. LenderInv' /\ now <= now'
    BY <1>1, <2>1 DEF LenderInv
  <2>3. BookedInv'
    BY <1>1, <2>1, BooksRest
  <2>4. QED
    BY <2>1, <2>2, <2>3, OthersKept
<1>9. QED
  BY <1>3, <1>5, <1>6, <1>7, <1>8 DEF Lends!Elsewhere

LEMMA LendSteps ==
  ASSUME Lends!LenderPageAssumption, LendInv, [Lends!Next]_(Lends!vars)
  PROVE  LendKept
<1>1. CASE UNCHANGED Lends!vars
  <2>1. UNCHANGED <<now, Lends!chainVars, shown, calls, adrift>>
    BY <1>1 DEF Lends!vars, Lends!pageVars
  <2>2. ShownInv'
    BY <2>1 DEF LendInv, ShownInv
  <2>3. RunsInv'
    BY <2>1 DEF LendInv, RunsInv, SentInv, Lends!Maxima, Lends!QuoteRefusals,
                Lends!QuotedPaid
  <2>4. QED
    BY <2>1, <2>2, <2>3, QuietKeeps
<1>2. CASE Lends!Next
  <2>1. CASE (\E part \in Lends!Parts : Lends!ReadPart(part)) \/ Lends!ReadFails \/ Lends!Reload
    BY <2>1, ReadingKept
  <2>2. CASE Lends!Elsewhere
    BY <2>2, ElsewhereKept
  <2>3. CASE Lends!Clicking
    BY <2>3, ClickKept
  <2>4. CASE Lends!Sending
    BY <2>4, SendingKept, LandKept DEF Lends!Sending
  <2>5. CASE \E c \in Calls : Lends!Fail(c)
    BY <2>5, SendingKept
  <2>6. CASE Lends!LandAdrift
    BY <2>6, LandAdriftKept
  <2>7. QED
    BY <1>2, <2>1, <2>2, <2>3, <2>4, <2>5, <2>6 DEF Lends!Next, Lends!Failing
<1>3. QED
  BY <1>1, <1>2

LEMMA LendStarts ==
  ASSUME Lends!LenderPageAssumption, Lends!Init
  PROVE  LendInv
<1>1. /\ now = 1 /\ share \in Nat /\ OTHERS \in Nat /\ wallet = WALLET /\ WALLET \in Nat
      /\ loan = NoLoan /\ calls = [c \in Calls |-> Lends!NoCall] /\ adrift = {}
      /\ shown = [status |-> "loading"]
  BY DEF Lends!Init, Lends!LenderPageAssumption, Lends!Loading
<1>2. pool = [ attestor |-> CHOOSE k \in Keys : TRUE, total_shares |-> OTHERS + share,
               total_deposits |-> OTHERS + share, total_borrowed |-> 0,
               accrued_interest |-> 0, accrual_rate |-> 0, accrual_rate_time |-> 0,
               accrual_remainders |-> 0 ]
  BY DEF Lends!Init, Lends!NewPool
<1>3. OTHERS + share \in Nat /\ share <= OTHERS + share
  BY <1>1
<1>4. LenderInv
  BY <1>1, <1>2, <1>3 DEF LenderInv, SomePool
<1>5. BookedInv
  BY <1>1, <1>2 DEF BookedInv
<1>6. ShownInv /\ RunsInv
  BY <1>1 DEF ShownInv, RunsInv
<1>7. QED
  BY <1>4, <1>5, <1>6 DEF LendInv

LEMMA LendInductive == Lends!LenderPageAssumption /\ Lends!Spec => []LendInv
<1> SUFFICES ASSUME Lends!LenderPageAssumption PROVE Lends!Spec => []LendInv
  OBVIOUS
<1>1. Lends!Init => LendInv
  BY LendStarts
<1>2. LendInv /\ [Lends!Next]_(Lends!vars) => LendInv'
  BY LendSteps DEF LendKept
<1>3. QED
  BY <1>1, <1>2, PTL DEF Lends!Spec

\* Pool.tsx and pool.rs: on the same pool, in the same second, the page and the program
\* say the same of what can be withdrawn, how much of it is paid and what it costs in
\* shares, whatever the figures.
THEOREM QuotesAreTheProgram ==
  Lends!LenderPageAssumption /\ Lends!Spec => []Lends!QuoteIsTheProgram
<1>1. LendInv => Lends!QuoteIsTheProgram
  <2> SUFFICES ASSUME LendInv, NEW max_amount \in Lends!Maxima
               PROVE  LET tx == [kind |-> "withdrawal", amount |-> max_amount]
                      IN  /\ (Lends!QuoteRefusals(pool, share, now) = {}) = Lends!Accepts(tx)
                          /\ Lends!Accepts(tx) =>
                               /\ Lends!QuotedPaid(pool, share, max_amount, now)
                                    = Lends!WithdrawalPaid(pool, share, max_amount, now)
                               /\ Lends!QuotedShares(pool, share, max_amount, now)
                                    = Lends!WithdrawalShares(pool, share, max_amount, now)
    BY DEF Lends!QuoteIsTheProgram
  <2> DEFINE tx == [kind |-> "withdrawal", amount |-> max_amount]
  <2>1. tx.kind = "withdrawal" /\ tx.amount = max_amount
    OBVIOUS
  <2> HIDE DEF tx
  <2>2. /\ (Lends!QuoteRefusals(pool, share, now) = {}) = Lends!Accepts(tx)
        /\ Lends!QuotedPaid(pool, share, max_amount, now)
             = Lends!WithdrawalPaid(pool, share, max_amount, now)
        /\ Lends!QuotedShares(pool, share, max_amount, now)
             = Lends!WithdrawalShares(pool, share, max_amount, now)
    BY <2>1, QuoteIs DEF LendInv
  <2>3. QED
    BY <2>2 DEF tx
<1>2. QED
  BY <1>1, LendInductive, PTL

\* Pool.tsx "you get": as long as nobody moved the pool, no less than was quoted is paid,
\* however late the transaction lands.
THEOREM QuotesArePaid ==
  Lends!LenderPageAssumption /\ Lends!Spec => [][Lends!PaidAsQuoted]_(Lends!vars)
<1> SUFFICES ASSUME Lends!LenderPageAssumption
             PROVE  Lends!Spec => [][Lends!PaidAsQuoted]_(Lends!vars)
  OBVIOUS
<1>1. LendInv /\ [Lends!Next]_(Lends!vars) => Lends!PaidAsQuoted
  BY LendSteps DEF LendKept
<1>2. QED
  BY <1>1, LendInductive, PTL DEF Lends!Spec

\* withdrawnText: whatever held a withdrawal back is what the page says did, to within the
\* price of a share.
THEOREM WithdrawalsAreAsSaid ==
  Lends!LenderPageAssumption /\ Lends!Spec => [][Lends!WithdrewWhatItSays]_(Lends!vars)
<1> SUFFICES ASSUME Lends!LenderPageAssumption
             PROVE  Lends!Spec => [][Lends!WithdrewWhatItSays]_(Lends!vars)
  OBVIOUS
<1>1. LendInv /\ [Lends!Next]_(Lends!vars) => Lends!WithdrewWhatItSays
  BY LendSteps DEF LendKept
<1>2. QED
  BY <1>1, LendInductive, PTL DEF Lends!Spec

\* Pool.tsx: while the buttons are held back there is a transaction of the page's own that
\* they wait for, however many clicks overlap and whatever fails.
THEOREM WaitsAreForTransactions ==
  Lends!LenderPageAssumption /\ Lends!Spec => []Lends!WaitsForSomething
<1> SUFFICES ASSUME Lends!LenderPageAssumption
             PROVE  Lends!Spec => []Lends!WaitsForSomething
  OBVIOUS
<1>1. Lends!Init => Lends!WaitsForSomething
  BY DEF Lends!Init, Lends!WaitsForSomething, Lends!Busy
<1>2. ASSUME LendInv, Lends!WaitsForSomething, [Lends!Next]_(Lends!vars)
      PROVE  Lends!WaitsForSomething'
  <2>1. calls = [c \in Calls |-> calls[c]]
    BY <1>2 DEF LendInv, RunsInv
  <2>2. CASE UNCHANGED <<stage, calls>>
    BY <1>2, <2>2 DEF Lends!WaitsForSomething, Lends!Busy
  <2>3. ASSUME NEW c \in Calls, NEW s, Lends!Move(c, s), calls[c] # Lends!NoCall,
               s \in {"signing", "confirming", "landed", "refused", "confirmed"}
        PROVE  Lends!WaitsForSomething'
    <3>1. calls'[c] = [calls[c] EXCEPT !.step = s]
      BY <2>1, <2>3 DEF Lends!Move
    <3>2. calls'[c] # Lends!NoCall
      <4>1. CASE calls'[c].step = s
        BY <2>3, <4>1 DEF Lends!NoCall
      <4>2. CASE calls'[c].step # s
        BY <2>3, <3>1, <4>2 DEF Lends!NoCall
      <4>3. QED
        BY <4>1, <4>2
    <3>3. QED
      BY <3>2 DEF Lends!WaitsForSomething
  <2>4. ASSUME NEW c \in Calls,
               Lends!Build(c) \/ Lends!Sign(c) \/ Lends!Land(c) \/ Lends!Confirm(c)
        PROVE  Lends!WaitsForSomething'
    BY <2>3, <2>4 DEF Lends!Build, Lends!Sign, Lends!Land, Lends!Confirm, Lends!At
  <2>5. ASSUME NEW c \in Calls, Lends!Done(c) \/ Lends!Refused(c) \/ Lends!Fail(c)
        PROVE  Lends!WaitsForSomething'
    BY <2>5 DEF Lends!Done, Lends!Refused, Lends!Fail, Lends!WaitsForSomething, Lends!Busy
  <2>6. ASSUME Lends!Clicking
        PROVE  Lends!WaitsForSomething'
    <3>1. stage' = stage /\ ~Lends!Busy
      BY <2>6 DEF Lends!Clicking, Lends!ClickDeposit, Lends!ClickWithdraw, Lends!CanDeposit,
                  Lends!CanWithdraw
    <3>2. QED
      BY <3>1 DEF Lends!WaitsForSomething, Lends!Busy
  <2>7. CASE Lends!Reload
    BY <2>7 DEF Lends!Reload, Lends!WaitsForSomething, Lends!Busy
  <2>8. ASSUME \/ \E part \in Lends!Parts : Lends!ReadPart(part)
               \/ Lends!ReadFails \/ Lends!LandAdrift \/ Lends!Elsewhere
        PROVE  Lends!WaitsForSomething'
    <3>1. UNCHANGED <<stage, calls>>
      BY <2>8 DEF Lends!ReadPart, Lends!ReadFails, Lends!LandAdrift, Lends!Elsewhere,
                  Lends!GiveLoan, Lends!RepayPart, Lends!RepayAll, Lends!Settle,
                  Lends!OtherWithdraws, Lends!Tick
    <3>2. QED
      BY <2>2, <3>1
  <2>9. CASE UNCHANGED Lends!vars
    BY <2>2, <2>9 DEF Lends!vars
  <2>10. CASE Lends!Next
    BY <2>4, <2>5, <2>6, <2>7, <2>8, <2>10 DEF Lends!Next, Lends!Sending, Lends!Failing
  <2>11. QED
    BY <1>2, <2>9, <2>10
<1>3. QED
  BY <1>1, <1>2, LendInductive, PTL DEF Lends!Spec

\* What the pages divide over loans is an amount for each, within what it can come to.
LEMMA CeilingOfLoan ==
  ASSUME ClientLoanAssumption, NEW l, SoundLoan(l), IsOpen(l), NEW at \in Nat
  PROVE  Ceiling(l, at) \in Nat \ {0}
<1>1. l \in LifeType /\ l.outstanding \in Nat /\ l.outstanding > 0
  BY SoundFields DEF SoundLoan
<1>2. at + MARGIN \in Nat
  BY DEF ClientLoanAssumption
<1>3. OwedAt(l, at + MARGIN) \in Nat /\ l.outstanding <= OwedAt(l, at + MARGIN)
  BY <1>1, <1>2, OwedIs
<1>4. QED
  BY <1>1, <1>3 DEF Ceiling

LEMMA PassIs ==
  ASSUME NEW ls, SoundLoans(ls), NEW at \in Nat, NEW room,
         \A i \in DOMAIN ls : room[i] \in Nat, NEW x \in Int
  PROVE  /\ DOMAIN Pass(ls, at, room, x) = DOMAIN ls
         /\ \A i \in DOMAIN ls : /\ Pass(ls, at, room, x)[i] \in Nat
                                 /\ Pass(ls, at, room, x)[i] <= room[i]
<1> SUFFICES ASSUME NEW i \in DOMAIN ls
             PROVE  Pass(ls, at, room, x)[i] \in Nat /\ Pass(ls, at, room, x)[i] <= room[i]
  BY DEF Pass
<1> DEFINE S == {k \in DOMAIN ls : Before(ls, at, k, i)}
           f == [j \in S |-> room[j]]
           s == SumFunction(f)
<1>1. Pass(ls, at, room, x)[i] = Least(room[i], SaturatingSub(x, s))
  BY DEF Pass
<1>2. s = SumFunctionOnSet(f, S)
  BY DEF SumFunction
<1>3. IsFiniteSet(S) /\ \A j \in S : f[j] \in Nat
  BY FS_Subset DEF SoundLoans
<1> HIDE DEF S, f, s
<1>4. s \in Nat
  BY <1>2, <1>3, SumOfNaturals
<1>5. SaturatingSub(x, s) \in Nat
  BY <1>4 DEF SaturatingSub
<1>6. QED
  BY <1>1, <1>5 DEF Least

LEMMA AllocationIs ==
  ASSUME ClientLoanAssumption, NEW ls, SoundLoans(ls), NEW at \in Nat, NEW x \in Nat
  PROVE  /\ DOMAIN Allocation(ls, x, at) = DOMAIN ls
         /\ \A i \in DOMAIN ls : Allocation(ls, x, at)[i] \in 0..Ceiling(ls[i], at)
<1> DEFINE D == DOMAIN ls
           cap == [i \in D |-> Ceiling(ls[i], at)]
           due == [i \in D |-> Least(Payment(ls[i], at), cap[i])]
           first == Pass(ls, at, due, x)
           room == [i \in D |-> cap[i] - first[i]]
           rest == Pass(ls, at, room, x - SumFunction(first))
<1>1. Allocation(ls, x, at) = [i \in D |-> first[i] + rest[i]]
  BY DEF Allocation
<1>2. \A i \in D : SoundLoan(ls[i]) /\ IsOpen(ls[i]) /\ cap[i] = Ceiling(ls[i], at)
                   /\ room[i] = cap[i] - first[i]
                   /\ due[i] = Least(Payment(ls[i], at), cap[i])
  BY DEF SoundLoans
<1>3. IsFiniteSet(D)
  BY DEF SoundLoans
<1> HIDE DEF cap, due, room
<1>4. \A i \in D : cap[i] \in Nat
  BY <1>2, CeilingOfLoan
<1>5. \A i \in D : due[i] \in Nat /\ due[i] <= cap[i]
  <2>1. \A i \in D : Payment(ls[i], at) \in Nat
    BY <1>2, NextIs
  <2>2. QED
    BY <1>2, <1>4, <2>1 DEF Least
<1>6. DOMAIN first = D /\ \A i \in D : first[i] \in Nat /\ first[i] <= due[i]
  <2>1. x \in Int
    OBVIOUS
  <2> HIDE DEF D
  <2>2. \A i \in DOMAIN ls : due[i] \in Nat
    BY <1>5 DEF D
  <2>3. QED
    BY <1>5, <2>1, <2>2, PassIs DEF D
<1>7. SumFunction(first) \in Nat
  <2>1. SumFunction(first) = SumFunctionOnSet(first, D)
    BY <1>6 DEF SumFunction
  <2>2. QED
    BY <1>3, <1>6, <2>1, SumOfNaturals
<1> HIDE DEF first
<1>8. \A i \in D : room[i] \in Nat
  BY <1>2, <1>4, <1>5, <1>6
<1>9. \A i \in D : rest[i] \in Nat /\ rest[i] <= room[i]
  <2> DEFINE y == x - SumFunction(first)
  <2>1. y \in Int
    BY <1>7
  <2>2. rest = Pass(ls, at, room, y)
    OBVIOUS
  <2> HIDE DEF y, rest
  <2>3. QED
    BY <1>8, <2>1, <2>2, PassIs
<1> HIDE DEF rest
<1>10. \A i \in D : first[i] + rest[i] \in 0..cap[i]
  BY <1>2, <1>4, <1>5, <1>6, <1>8, <1>9
<1>11. QED
  BY <1>1, <1>2, <1>10

\* What is owed of a loan is no more than it was going to be, whenever it is looked at.
OwesNoMore(m, l) ==
  \A t \in Nat : m.last_accrual_at <= t => OwedAt(m, t) <= OwedAt(l, t)

\* A loan somebody repaid some of, whoever it was.
LEMMA RepaidIs ==
  ASSUME NEW l, SoundLoan(l), IsOpen(l), NEW t \in Nat, l.last_accrual_at <= t,
         NEW x \in Nat
  PROVE  LET m == ApplyRepayment(Accrue(l, t), x)
         IN  /\ SoundLoan(m) /\ m.last_accrual_at = t
             /\ OwesNoMore(m, l)
             /\ OwedAt(l, t) <= x => ~IsOpen(m)
<1> DEFINE a == Accrue(l, t)
           m == ApplyRepayment(a, x)
           part == Least(x, TotalOwed(a))
<1>1. /\ SoundLoan(a) /\ IsOpen(a) /\ a \in LifeType /\ l \in LifeType
      /\ a.last_accrual_at = t /\ TotalOwed(a) = OwedAt(l, t)
      /\ OwedAt(l, t) \in Nat
  BY AccrueSound, AccrueIs, EarnedFacts DEF SoundLoan
<1> HIDE DEF a
<1>2. /\ SoundLoan(m) /\ part \in Nat /\ m.outstanding <= a.outstanding
      /\ TotalOwed(m) + part = TotalOwed(a)
      /\ m.apr_bps = a.apr_bps /\ m.last_accrual_at = a.last_accrual_at
      /\ m.interest_remainder = a.interest_remainder
  BY <1>1, RepaymentLeaves
<1> HIDE DEF m, part
<1>3. m \in LifeType /\ m.outstanding \in Nat /\ m.accrued_interest \in Nat
      /\ a.outstanding \in Nat /\ a.accrued_interest \in Nat
  BY <1>1, <1>2, SoundFields DEF SoundLoan
<1>4. ASSUME NEW u \in Nat, t <= u PROVE OwedAt(m, u) <= OwedAt(l, u)
  <2>1. OwedAt(a, u) = OwedAt(l, u)
    BY <1>1, <1>4, AccruedTwice DEF a
  <2>2. Earned(m, u) <= Earned(a, u)
    BY <1>1, <1>2, <1>3, <1>4, LessEarnsLess
  <2>3. /\ OwedAt(m, u) = m.outstanding + (m.accrued_interest + Earned(m, u))
        /\ OwedAt(a, u) = a.outstanding + (a.accrued_interest + Earned(a, u))
        /\ Earned(m, u) \in Nat /\ Earned(a, u) \in Nat
    BY <1>1, <1>2, <1>3, <1>4, EarnedFacts
  <2>4. m.outstanding + m.accrued_interest <= a.outstanding + a.accrued_interest
    BY <1>2, <1>3 DEF TotalOwed
  <2>5. QED
    BY <1>3, <2>1, <2>2, <2>3, <2>4
<1>5. OwesNoMore(m, l)
  BY <1>1, <1>2, <1>4 DEF OwesNoMore
<1>6. ASSUME OwedAt(l, t) <= x PROVE ~IsOpen(m)
  <2>1. part = TotalOwed(a)
    BY <1>1, <1>6 DEF part, Least
  <2>2. m.outstanding + m.accrued_interest = 0
    BY <1>1, <1>2, <1>3, <2>1 DEF TotalOwed
  <2>3. QED
    BY <1>2, <1>3, <2>2 DEF SoundLoan
<1>7. QED
  BY <1>1, <1>2, <1>5, <1>6 DEF m, a

\* The loans shown together come before the others, and there is one if there is any loan.
LEMMA TogetherIs ==
  ASSUME NEW ls, SoundLoans(ls), NEW at \in Nat
  PROVE  /\ Together(ls, at) \subseteq DOMAIN ls
         /\ DOMAIN ls # {} => Together(ls, at) # {}
         /\ \A i \in Together(ls, at), j \in DOMAIN ls \ Together(ls, at) :
              Before(ls, at, i, j) /\ ~Before(ls, at, j, i)
<1> DEFINE D == DOMAIN ls
           next == [i \in D |-> NextOf(ls[i], at)]
           Leads(i) == \A j \in D : ~Earlier(next[j], next[i])
           lead == CHOOSE i \in D : Leads(i)
           T == Together(ls, at)
<1>1. T = {i \in D : /\ next[i].late = next[lead].late
                     /\ next[i].late \/ next[i].at = next[lead].at}
  BY DEF Together
<1>2. \A i \in D : next[i].at \in Nat /\ next[i].late \in BOOLEAN /\ next[i] = NextOf(ls[i], at)
  BY NextIs DEF SoundLoans
<1> HIDE DEF next
<1>3. ASSUME D # {} PROVE \E i \in D : Leads(i)
  <2> DEFINE L == {i \in D : next[i].late}
             C == IF L = {} THEN D ELSE L
             A == {next[i].at : i \in C}
             R == OpToRel(<, Nat)
  <2>1. C # {} /\ C \subseteq D
    BY <1>3
  <2>2. A \subseteq Nat /\ A # {}
    BY <1>2, <2>1
  <2>3. IsWellFoundedOn(R, Nat)
    BY NatLessThanWellFounded
  <2> HIDE DEF A, R
  <2>4. PICK a \in A : \A e \in A : ~(<<e, a>> \in R)
    BY <2>2, <2>3, WFMin
  <2>5. \A e \in A : ~(e < a)
    BY <2>2, <2>4 DEF R, OpToRel
  <2>6. PICK i \in C : a = next[i].at
    BY <2>4 DEF A
  <2>7. \A j \in C : ~(next[j].at < next[i].at)
    BY <2>5, <2>6 DEF A
  <2>8. ASSUME NEW j \in D, Earlier(next[j], next[i]) PROVE FALSE
    <3>1. CASE L = {}
      <4>1. ~next[j].late /\ j \in C
        BY <3>1
      <4>2. next[j].at < next[i].at
        BY <2>8, <4>1 DEF Earlier
      <4>3. QED
        BY <2>7, <4>1, <4>2
    <3>2. CASE L # {}
      <4>1. next[i].late
        BY <2>6, <3>2
      <4>2. next[j].late /\ next[j].at < next[i].at
        BY <1>2, <2>1, <2>8, <4>1 DEF Earlier
      <4>3. j \in C
        BY <3>2, <4>2
      <4>4. QED
        BY <2>7, <4>2, <4>3
    <3>3. QED
      BY <3>1, <3>2
  <2>9. QED
    BY <2>1, <2>8
<1>4. ASSUME D # {} PROVE lead \in D /\ Leads(lead)
  BY <1>3, <1>4
<1> HIDE DEF lead
<1>5. ASSUME D # {} PROVE T # {}
  BY <1>1, <1>4, <1>5
<1>6. ASSUME NEW i \in T, NEW j \in D \ T PROVE Earlier(next[i], next[j])
  <2>1. i \in D /\ lead \in D /\ ~Earlier(next[j], next[lead])
    BY <1>1, <1>4
  <2>2. /\ next[i].late \in BOOLEAN /\ next[j].late \in BOOLEAN /\ next[lead].late \in BOOLEAN
        /\ next[i].at \in Nat /\ next[j].at \in Nat /\ next[lead].at \in Nat
    BY <1>2, <2>1
  <2>3. CASE next[lead].late
    <3>1. next[i].late /\ ~next[j].late
      BY <1>1, <2>2, <2>3
    <3>2. QED
      BY <3>1 DEF Earlier
  <2>4. CASE ~next[lead].late
    <3>1. ~next[i].late /\ next[i].at = next[lead].at
      BY <1>1, <2>2, <2>4
    <3>2. ~next[j].late
      BY <2>1, <2>4 DEF Earlier
    <3>3. next[j].late = next[lead].late
      BY <2>2, <2>4, <3>2
    <3>4. next[j].at # next[lead].at /\ ~(next[j].at < next[lead].at)
      BY <1>1, <2>1, <3>3 DEF Earlier
    <3>5. next[i].at < next[j].at
      BY <2>2, <3>1, <3>4
    <3>6. next[i].late = next[j].late
      BY <2>2, <3>1, <3>2
    <3>7. QED
      BY <3>5, <3>6 DEF Earlier
  <2>5. QED
    BY <2>3, <2>4
<1>7. ASSUME NEW i \in T, NEW j \in D \ T
      PROVE  Before(ls, at, i, j) /\ ~Before(ls, at, j, i)
  <2>1. i \in D
    BY <1>1
  <2>2. /\ next[i].late \in BOOLEAN /\ next[j].late \in BOOLEAN
        /\ next[i].at \in Nat /\ next[j].at \in Nat
        /\ next[i] = NextOf(ls[i], at) /\ next[j] = NextOf(ls[j], at)
    BY <1>2, <2>1
  <2>3. Earlier(next[i], next[j])
    BY <1>6
  <2>4. ~Earlier(next[j], next[i])
    <3>1. CASE next[i].late /\ ~next[j].late
      BY <2>2, <3>1 DEF Earlier
    <3>2. CASE next[i].late = next[j].late /\ next[i].at < next[j].at
      <4>1. ~(next[j].at < next[i].at)
        BY <2>2, <3>2
      <4>2. QED
        BY <2>2, <3>2, <4>1 DEF Earlier
    <3>3. QED
      BY <2>3, <3>1, <3>2 DEF Earlier
  <2>5. QED
    BY <2>2, <2>3, <2>4 DEF Before
<1>8. QED
  BY <1>1, <1>5, <1>7

\* An amount that is just enough for what comes first goes there, and nowhere else.
LEMMA PassFillsFirst ==
  ASSUME NEW ls, SoundLoans(ls), NEW at \in Nat, NEW room,
         \A i \in DOMAIN ls : room[i] \in Nat,
         NEW T \in SUBSET DOMAIN ls,
         \A i \in T, j \in DOMAIN ls \ T : Before(ls, at, i, j) /\ ~Before(ls, at, j, i),
         NEW x, x = SumFunctionOnSet(room, T)
  PROVE  \A i \in DOMAIN ls :
           Pass(ls, at, room, x)[i] = IF i \in T THEN room[i] ELSE 0
<1> SUFFICES ASSUME NEW i \in DOMAIN ls
             PROVE  Pass(ls, at, room, x)[i] = IF i \in T THEN room[i] ELSE 0
  OBVIOUS
<1> DEFINE S == {k \in DOMAIN ls : Before(ls, at, k, i)}
           f == [j \in S |-> room[j]]
           s == SumFunctionOnSet(room, S)
<1>1. Pass(ls, at, room, x)[i] = Least(room[i], SaturatingSub(x, SumFunction(f)))
  BY DEF Pass
<1>2. IsFiniteSet(DOMAIN ls)
  BY DEF SoundLoans
<1>3. IsFiniteSet(S) /\ S \subseteq DOMAIN ls /\ i \notin S /\ IsFiniteSet(T)
  BY <1>2, BeforeIs, FS_Subset
<1>4. SumFunction(f) = SumFunctionOnSet(f, S) /\ \A j \in S : f[j] = room[j]
  BY DEF SumFunction
<1>5. i \in T => S \subseteq T
  OBVIOUS
<1>6. i \notin T => T \subseteq S
  OBVIOUS
<1> HIDE DEF S, f
<1>7. SumFunctionOnSet(f, S) = s
  <2>1. \A j \in S : f[j] \in Int /\ f[j] = room[j]
    BY <1>3, <1>4
  <2>2. QED
    BY <1>3, <2>1, SumSame
<1>8. s \in Nat /\ x \in Nat
  <2>1. (\A j \in S : room[j] \in Nat) /\ (\A j \in T : room[j] \in Nat)
    BY <1>3
  <2>2. QED
    BY <1>3, <2>1, SumOfNaturals
<1>9. CASE i \in T
  <2>1. S \union {i} \subseteq T /\ IsFiniteSet(S \union {i}) /\ (S \union {i}) \ {i} = S
    BY <1>2, <1>3, <1>5, <1>9, FS_Subset
  <2>2. \A j \in S \union {i} : room[j] \in Int
    BY <2>1
  <2>3. SumFunctionOnSet(room, S \union {i})
          = room[i] + SumFunctionOnSet(room, (S \union {i}) \ {i})
    BY <2>1, <2>2, SumTakesOut
  <2>4. \A j \in T : room[j] \in Nat
    OBVIOUS
  <2>5. SumFunctionOnSet(room, S \union {i}) <= SumFunctionOnSet(room, T)
    BY <1>3, <2>1, <2>4, SumOfNaturals
  <2>6. room[i] + s <= x /\ room[i] \in Nat
    BY <2>1, <2>3, <2>5
  <2> HIDE DEF s
  <2>7. SaturatingSub(x, s) = x - s /\ room[i] <= x - s
    BY <1>8, <2>6 DEF SaturatingSub
  <2>8. QED
    BY <1>1, <1>4, <1>7, <1>9, <2>7 DEF Least
<1>10. CASE i \notin T
  <2>1. \A j \in S : room[j] \in Nat
    BY <1>3
  <2>2. x <= s
    BY <1>3, <1>6, <1>10, <2>1, SumOfNaturals
  <2> HIDE DEF s
  <2>3. SaturatingSub(x, s) = 0
    BY <1>8, <2>2 DEF SaturatingSub
  <2>4. QED
    BY <1>1, <1>4, <1>7, <1>10, <2>3 DEF Least
<1>11. QED
  BY <1>9, <1>10

\* The next payment is divided into just the payments shown together as one.
LEMMA DividesNext ==
  ASSUME ClientLoanAssumption, NEW ls, SoundLoans(ls), NEW at \in Nat,
         \A i \in DOMAIN ls : Payment(ls[i], at) <= Ceiling(ls[i], at)
  PROVE  LET parts == Allocation(ls, NextAmount(ls, at), at)
         IN  /\ DOMAIN parts = DOMAIN ls
             /\ \A i \in DOMAIN ls :
                  parts[i] = IF i \in Together(ls, at) THEN Payment(ls[i], at) ELSE 0
             /\ SumFunction(parts) = NextAmount(ls, at)
<1> DEFINE D == DOMAIN ls
           T == Together(ls, at)
           x == NextAmount(ls, at)
           f == [i \in T |-> Payment(ls[i], at)]
           cap == [i \in D |-> Ceiling(ls[i], at)]
           due == [i \in D |-> Least(Payment(ls[i], at), cap[i])]
           first == Pass(ls, at, due, x)
           room == [i \in D |-> cap[i] - first[i]]
           rest == Pass(ls, at, room, x - SumFunction(first))
           parts == Allocation(ls, x, at)
<1>1. parts = [i \in D |-> first[i] + rest[i]]
  BY DEF Allocation
<1>2. T \in SUBSET D
      /\ \A i \in T, j \in D \ T : Before(ls, at, i, j) /\ ~Before(ls, at, j, i)
  BY TogetherIs
<1>3. IsFiniteSet(D) /\ IsFiniteSet(T)
  BY <1>2, FS_Subset DEF SoundLoans
<1>4. \A i \in D : /\ Payment(ls[i], at) \in Nat \ {0}
                   /\ Ceiling(ls[i], at) \in Nat
                   /\ Payment(ls[i], at) <= Ceiling(ls[i], at)
  BY NextIs, CeilingOfLoan DEF SoundLoans
<1>5. \A i \in D : due[i] = Payment(ls[i], at) /\ cap[i] = Ceiling(ls[i], at)
                   /\ room[i] = cap[i] - first[i] /\ due[i] \in Nat
  BY <1>4 DEF Least
<1>6. x = SumFunctionOnSet(f, T) /\ \A i \in T : f[i] = Payment(ls[i], at)
  BY DEF NextAmount, SumFunction
<1> HIDE DEF T, x, f, cap, due, room, parts
<1>7. x = SumFunctionOnSet(due, T)
  <2>1. \A i \in T : f[i] \in Int /\ f[i] = due[i]
    BY <1>2, <1>5, <1>6
  <2>2. QED
    BY <1>3, <1>6, <2>1, SumSame
<1>8. \A i \in D : first[i] = IF i \in T THEN due[i] ELSE 0
  <2> HIDE DEF D
  <2>1. \A i \in DOMAIN ls : due[i] \in Nat
    BY <1>5 DEF D
  <2>2. QED
    BY <1>2, <1>7, <2>1, PassFillsFirst DEF D
<1>9. DOMAIN first = D /\ SumFunction(first) = SumFunctionOnSet(first, D)
  BY DEF Pass, SumFunction
<1> HIDE DEF first
<1>10. SumFunction(first) = x
  <2>1. (\A i \in T : due[i] \in Int /\ first[i] = due[i]) /\ (\A i \in D \ T : first[i] = 0)
    BY <1>2, <1>5, <1>8
  <2>2. SumFunctionOnSet(first, D) = SumFunctionOnSet(due, T)
    BY <1>2, <1>3, <2>1, SumExtended
  <2>3. QED
    BY <1>7, <1>9, <2>2
<1>11. x \in Nat
  <2>1. \A i \in T : due[i] \in Nat
    BY <1>2, <1>5
  <2>2. QED
    BY <1>3, <1>7, <2>1, SumOfNaturals
<1>12. \A i \in D : room[i] \in Nat /\ first[i] \in Nat
  BY <1>4, <1>5, <1>8
<1>13. \A i \in D : rest[i] = 0
  <2> DEFINE E == {}
  <2>1. x - SumFunction(first) = SumFunctionOnSet(room, E)
    BY <1>10, <1>11, SumEmpty
  <2>2. E \in SUBSET DOMAIN ls /\ \A i \in DOMAIN ls : i \notin E
    OBVIOUS
  <2>3. \A i \in E, j \in DOMAIN ls \ E : Before(ls, at, i, j) /\ ~Before(ls, at, j, i)
    OBVIOUS
  <2>4. \A i \in DOMAIN ls : room[i] \in Nat
    BY <1>12
  <2> HIDE DEF E
  <2>5. \A i \in DOMAIN ls :
          Pass(ls, at, room, x - SumFunction(first))[i] = IF i \in E THEN room[i] ELSE 0
    BY <2>1, <2>2, <2>3, <2>4, PassFillsFirst
  <2>6. QED
    BY <2>2, <2>5
<1> HIDE DEF rest
<1>14. \A i \in D : parts[i] = first[i]
  BY <1>1, <1>12, <1>13
<1>15. DOMAIN parts = D
  BY <1>1
<1>16. SumFunction(parts) = x
  <2>1. SumFunction(parts) = SumFunctionOnSet(parts, D)
    BY <1>15 DEF SumFunction
  <2>2. \A i \in D : parts[i] \in Int /\ parts[i] = first[i]
    BY <1>12, <1>14
  <2>3. SumFunctionOnSet(parts, D) = SumFunctionOnSet(first, D)
    BY <1>3, <2>2, SumSame
  <2>4. QED
    BY <1>9, <1>10, <2>1, <2>3
<1>17. \A i \in D : parts[i] = IF i \in T THEN Payment(ls[i], at) ELSE 0
  BY <1>5, <1>8, <1>14
<1>18. QED
  BY <1>15, <1>16, <1>17 DEF T, x, parts

\* Once the payment shown is made, the loan that is still open is not late.
LEMMA NotLateAfter ==
  ASSUME NEW l, SoundLoan(l), IsOpen(l), NEW m, SoundLoan(m), IsOpen(m), NEW at \in Nat,
         m.principal = l.principal, m.opened_at = l.opened_at, m.due_at = l.due_at,
         m.outstanding <= l.outstanding - NextOf(l, at).principal
  PROVE  ~NextOf(m, at).late
<1> DEFINE n == Periods(l)
           u == Unpaid(l)
           v == Unpaid(m)
           due(i) == PrincipalDueAfter(l, i)
           repaid == l.principal - l.outstanding
           later == m.principal - m.outstanding
           dueAt == l.opened_at + u * REPAYMENT_PERIOD
           nextAt == l.opened_at + v * REPAYMENT_PERIOD
           passed == (at - l.opened_at) \div REPAYMENT_PERIOD
           k == Least(passed, n)
           np == NextOf(l, at).principal
<1>1. /\ l.principal \in Nat /\ l.outstanding \in Nat /\ m.outstanding \in Nat
      /\ l.outstanding <= l.principal /\ l.opened_at \in Nat
      /\ REPAYMENT_PERIOD \in Nat \ {0} /\ n \in Nat \ {0}
      /\ NextOf(m, at).late \in BOOLEAN /\ (NextOf(m, at).late <=> NextOf(m, at).at <= at)
      /\ np \in Nat \ {0}
  BY SoundFields, TermIs, NextIs DEF SoundLoan
<1>2. Periods(m) = n /\ \A i : PrincipalDueAfter(m, i) = due(i)
  BY DEF Periods, PrincipalDueAfter
<1>3. /\ u \in 1..n /\ due(u) > repaid /\ \A j \in 1..(u - 1) : due(j) <= repaid
      /\ v \in 1..n /\ due(v) > later
  BY <1>2, UnpaidIs
<1>4. NextOf(m, at).at = nextAt
  BY DEF NextOf
<1>5. \A i \in Nat : due(i) \in Nat
  <2>1. ASSUME NEW i \in Nat PROVE due(i) \in Nat
    <3>1. l.principal * i \in Nat
      BY <1>1, Multiply
    <3>2. QED
      BY <1>1, <3>1, RoundedUp DEF PrincipalDueAfter
  <2>2. QED
    BY <2>1
<1>6. \A i, j \in Nat : i <= j => due(i) <= due(j)
  BY <1>1, DueGrows DEF PrincipalDueAfter
<1>7. ~(dueAt > at) => np = due(k) - repaid
  BY DEF NextOf, OwedBy
<1> HIDE DEF n, u, v, due, np
<1>8. repaid \in Nat /\ later = repaid + (l.outstanding - m.outstanding) /\ later \in Nat
      /\ repaid + np <= later
  BY <1>1 DEF np
<1>9. /\ u \in Nat /\ v \in Nat /\ u * REPAYMENT_PERIOD \in Nat /\ v * REPAYMENT_PERIOD \in Nat
      /\ dueAt \in Nat /\ nextAt \in Nat
  <2>1. u \in Nat /\ v \in Nat
    BY <1>1, <1>3
  <2>2. u * REPAYMENT_PERIOD \in Nat /\ v * REPAYMENT_PERIOD \in Nat
    BY <1>1, <2>1, Multiply
  <2>3. QED
    BY <1>1, <2>1, <2>2
<1> HIDE DEF repaid, later
<1>10. nextAt > at
  <2>1. CASE dueAt > at
    <3>1. u <= v
      <4>1. SUFFICES ASSUME v < u PROVE FALSE
        BY <1>9
      <4>2. v \in 1..(u - 1)
        BY <1>3, <1>9, <4>1
      <4>3. due(v) <= repaid /\ due(v) > later /\ due(v) \in Nat
        BY <1>3, <1>5, <1>9, <4>2
      <4>4. QED
        BY <1>1, <1>8, <4>3
    <3>2. u * REPAYMENT_PERIOD <= v * REPAYMENT_PERIOD
      BY <1>1, <1>9, <3>1, Multiply
    <3>3. QED
      BY <1>1, <1>9, <2>1, <3>2
  <2>2. CASE ~(dueAt > at)
    <3>1. at - l.opened_at \in Nat
      BY <1>1, <1>9, <2>2
    <3>2. /\ passed \in Nat /\ passed * REPAYMENT_PERIOD \in Nat
          /\ at - l.opened_at < passed * REPAYMENT_PERIOD + REPAYMENT_PERIOD
      BY <1>1, <3>1, DivMod, Division
    <3> HIDE DEF passed
    <3>3. k \in Nat /\ (k = n \/ k = passed) /\ k <= n
      BY <1>1, <3>2 DEF Least
    <3> HIDE DEF k
    <3>4. due(k) \in Nat /\ due(v) \in Nat /\ due(k) <= later
      <4>1. due(k) \in Nat /\ due(v) \in Nat
        BY <1>5, <1>9, <3>3
      <4>2. np = due(k) - repaid
        BY <1>7, <2>2
      <4>3. QED
        BY <1>1, <1>8, <4>1, <4>2
    <3>5. k < v
      <4>1. SUFFICES ASSUME v <= k PROVE FALSE
        BY <1>9, <3>3
      <4>2. due(v) <= due(k)
        BY <1>6, <1>9, <3>3, <4>1
      <4>3. QED
        BY <1>3, <1>8, <3>4, <4>2
    <3>6. k = passed /\ passed + 1 <= v
      BY <1>1, <1>3, <1>9, <3>2, <3>3, <3>5
    <3>7. (passed + 1) * REPAYMENT_PERIOD <= v * REPAYMENT_PERIOD
      BY <1>1, <1>9, <3>2, <3>6, Multiply
    <3>8. (passed + 1) * REPAYMENT_PERIOD = passed * REPAYMENT_PERIOD + 1 * REPAYMENT_PERIOD
          /\ 1 * REPAYMENT_PERIOD = REPAYMENT_PERIOD
      BY <1>1, <3>2, Multiply
    <3>9. QED
      BY <1>1, <1>9, <3>1, <3>2, <3>7, <3>8
  <2>3. QED
    BY <2>1, <2>2
<1>11. QED
  BY <1>1, <1>4, <1>9, <1>10

\* The payment shown covers the interest there is by now, and the principal it says.
LEMMA PaymentCovers ==
  ASSUME NEW l, SoundLoan(l), IsOpen(l), NEW at \in Nat, l.last_accrual_at <= at
  PROVE  LET m == ApplyRepayment(Accrue(l, at), Payment(l, at))
         IN  IsOpen(m) => /\ ~NextOf(m, at).late
                          /\ m.outstanding <= l.outstanding - NextOf(l, at).principal
<1> DEFINE a == Accrue(l, at)
           x == Payment(l, at)
           m == ApplyRepayment(a, x)
           np == NextOf(l, at).principal
           ni == NextOf(l, at).interest
           owed == OwedAt(l, at)
           dueAt == l.opened_at + Unpaid(l) * REPAYMENT_PERIOD
<1> SUFFICES ASSUME IsOpen(m)
             PROVE  ~NextOf(m, at).late /\ m.outstanding <= l.outstanding - np
  OBVIOUS
<1>1. /\ l \in LifeType /\ l.outstanding \in Nat /\ l.last_accrual_at \in Nat
      /\ np \in Nat \ {0} /\ ni \in Nat /\ x = np + ni /\ NextOf(l, at).at \in Nat
  BY NextIs, SoundFields DEF Payment, SoundLoan
<1>2. /\ SoundLoan(a) /\ IsOpen(a) /\ a.outstanding = l.outstanding
      /\ a.principal = l.principal /\ a.opened_at = l.opened_at /\ a.due_at = l.due_at
      /\ TotalOwed(a) = owed /\ owed \in Nat /\ a.accrued_interest \in Nat
  BY AccrueIs, AccrueSound, EarnedFacts, SoundFields DEF SoundLoan
<1>3. a.accrued_interest <= ni
  <2>1. owed = l.outstanding + a.accrued_interest
    BY <1>2 DEF TotalOwed
  <2>2. NextOf(l, at).at = dueAt
    BY DEF NextOf
  <2>3. CASE dueAt > at
    <3>1. ni = AccrueTo(l, dueAt).interest
      BY <2>3 DEF NextOf
    <3>2. dueAt \in Nat /\ at <= dueAt
      BY <1>1, <2>2, <2>3
    <3> HIDE DEF dueAt, owed
    <3>3. OwedAt(l, at) <= OwedAt(l, dueAt)
      BY <1>1, <3>2, OwedGrows
    <3>4. OwedAt(l, dueAt) = l.outstanding + ni
      BY <1>1, <3>1, <3>2, OwedIs
    <3>5. QED
      BY <1>1, <1>2, <2>1, <3>3, <3>4 DEF owed
  <2>4. CASE ~(dueAt > at)
    <3>1. ni = AccrueTo(l, at).interest
      BY <2>4 DEF NextOf
    <3>2. owed = l.outstanding + ni
      BY <1>1, <3>1, OwedIs
    <3>3. QED
      BY <1>1, <1>2, <2>1, <3>2
  <2>5. QED
    BY <2>3, <2>4
<1> HIDE DEF a, x, np, ni, owed
<1>4. x \in Nat /\ x < TotalOwed(a)
  <2>1. x \in Nat
    BY <1>1
  <2>2. SUFFICES ASSUME owed <= x PROVE FALSE
    BY <1>2, <2>1
  <2>3. ~IsOpen(m)
    BY <1>1, <2>1, <2>2, RepaidIs DEF owed, a
  <2>4. QED
    BY <2>3
<1>5. /\ InterestPart(a, x) = a.accrued_interest
      /\ PrincipalPart(a, x) = x - a.accrued_interest
  BY <1>1, <1>2, <1>3, <1>4 DEF InterestPart, PrincipalPart, Least
<1>6. m.outstanding = a.outstanding - PrincipalPart(a, x)
  <2>1. a \in LifeType
    BY <1>2 DEF SoundLoan
  <2>2. QED
    BY <2>1 DEF ApplyRepayment, LifeType
<1>7. /\ SoundLoan(m) /\ m.principal = l.principal /\ m.opened_at = l.opened_at
      /\ m.due_at = l.due_at
  BY <1>2, <1>4, RepaymentLeaves
<1> HIDE DEF m
<1>8. m.outstanding <= l.outstanding - np
  BY <1>1, <1>2, <1>3, <1>5, <1>6
<1>9. ~NextOf(m, at).late
  BY <1>7, <1>8, NotLateAfter DEF np
<1>10. QED
  BY <1>8, <1>9

\* The later the same amount is paid, the more of it is interest and the more is left.
LEMMA PaidLater ==
  ASSUME NEW l, SoundLoan(l), IsOpen(l), NEW x \in Nat,
         NEW s \in Nat, l.last_accrual_at <= s, NEW t \in Nat, s <= t,
         NEW A, A = ApplyRepayment(Accrue(l, s), x), A.outstanding > 0,
         NEW B, B = ApplyRepayment(Accrue(l, t), x),
         NEW T \in Nat, t <= T
  PROVE  B.outstanding > 0 /\ OwedAt(A, T) <= OwedAt(B, T)
<1> DEFINE D == ACCRUAL_DENOMINATOR
           a == Accrue(l, s)
           b == Accrue(l, t)
           r == l.outstanding * l.apr_bps
           w == A.outstanding * l.apr_bps
           v == B.outstanding * l.apr_bps
           e == Earned(a, t)
           f == a.interest_remainder
           n == r * (t - s) + f
<1>1. /\ l \in LifeType /\ l.outstanding \in Nat /\ l.apr_bps \in Nat /\ r \in Nat
      /\ D \in Nat \ {0} /\ l.last_accrual_at \in Nat
  BY SoundFields DEF SoundLoan
<1>2. /\ SoundLoan(a) /\ IsOpen(a) /\ a \in LifeType /\ a.outstanding = l.outstanding
      /\ a.accrued_interest = l.accrued_interest + Earned(l, s)
      /\ a.last_accrual_at = s /\ a.apr_bps = l.apr_bps
      /\ SoundLoan(b) /\ IsOpen(b) /\ b \in LifeType /\ b.outstanding = l.outstanding
      /\ b.accrued_interest = l.accrued_interest + Earned(l, t)
      /\ b.interest_remainder = Left(l, t)
      /\ b.last_accrual_at = t /\ b.apr_bps = l.apr_bps
  <2>1. l.last_accrual_at <= t
    BY <1>1
  <2>2. QED
    BY <1>1, <2>1, AccrueIs, AccrueSound DEF SoundLoan
<1>3. Earned(l, s) + e = Earned(l, t) /\ Left(a, t) = Left(l, t)
  BY <1>1, AccruedTwice
<1>4. e = n \div D /\ Left(a, t) = n % D
  BY <1>2 DEF Earned, Left
<1>5. /\ SoundLoan(A) /\ A \in LifeType /\ A.last_accrual_at = s /\ A.apr_bps = l.apr_bps
      /\ A.interest_remainder = f
      /\ SoundLoan(B) /\ B \in LifeType /\ B.last_accrual_at = t /\ B.apr_bps = l.apr_bps
      /\ B.interest_remainder = n % D
  <2>1. /\ SoundLoan(A) /\ A.last_accrual_at = s /\ A.apr_bps = l.apr_bps
        /\ A.interest_remainder = f
    BY <1>2, RepaymentLeaves
  <2>2. /\ SoundLoan(B) /\ B.last_accrual_at = t /\ B.apr_bps = l.apr_bps
        /\ B.interest_remainder = n % D
    BY <1>2, <1>3, <1>4, RepaymentLeaves
  <2>3. QED
    BY <2>1, <2>2 DEF SoundLoan
<1>6. /\ A.outstanding \in Nat /\ A.accrued_interest \in Nat /\ f \in Nat
      /\ B.outstanding \in Nat /\ B.accrued_interest \in Nat
      /\ a.accrued_interest \in Nat /\ b.accrued_interest \in Nat
      /\ l.accrued_interest \in Nat
  BY <1>1, <1>2, <1>5, SoundFields
<1>7. Earned(l, s) \in Nat /\ Earned(l, t) \in Nat /\ e \in Nat
  <2>1. l.last_accrual_at <= t
    BY <1>1
  <2>2. QED
    BY <1>1, <1>2, <2>1, EarnedFacts
<1>8. b.accrued_interest = a.accrued_interest + e
  BY <1>2, <1>3, <1>6, <1>7
<1>9. /\ A.outstanding = a.outstanding - PrincipalPart(a, x)
      /\ A.accrued_interest = a.accrued_interest - InterestPart(a, x)
      /\ x < a.outstanding + a.accrued_interest
      /\ A.outstanding = IF x <= a.accrued_interest
                           THEN a.outstanding
                           ELSE a.outstanding - (x - a.accrued_interest)
  BY <1>2, RepaymentSplits
<1>10. /\ B.outstanding = b.outstanding - PrincipalPart(b, x)
       /\ B.accrued_interest = b.accrued_interest - InterestPart(b, x)
  BY <1>2, RepaymentSplits
<1> HIDE DEF a, b, e, f, n, r, w, v, D
<1>11. /\ A.outstanding + A.accrued_interest = l.outstanding + a.accrued_interest - x
       /\ B.outstanding + B.accrued_interest = l.outstanding + b.accrued_interest - x
       /\ A.outstanding <= B.outstanding /\ B.outstanding > 0
       /\ A.outstanding <= l.outstanding
  BY <1>1, <1>2, <1>6, <1>7, <1>8, <1>9, <1>10
     DEF PrincipalPart, InterestPart, TotalOwed, Least
<1>12. /\ OwedAt(A, T) = A.outstanding + (A.accrued_interest + (w * (T - s) + f) \div D)
       /\ OwedAt(B, T) = B.outstanding + (B.accrued_interest + (v * (T - t) + (n % D)) \div D)
  <2>1. A.last_accrual_at <= T /\ B.last_accrual_at <= T
    BY <1>5
  <2>2. /\ OwedAt(A, T) = A.outstanding + (A.accrued_interest + Earned(A, T))
        /\ OwedAt(B, T) = B.outstanding + (B.accrued_interest + Earned(B, T))
    BY <1>5, <2>1, EarnedFacts
  <2>3. Earned(A, T) = (w * (T - s) + f) \div D /\ Earned(B, T) = (v * (T - t) + (n % D)) \div D
    <3>1. /\ Earned(A, T) = (A.outstanding * A.apr_bps * (T - A.last_accrual_at)
                              + A.interest_remainder) \div D
          /\ Earned(B, T) = (B.outstanding * B.apr_bps * (T - B.last_accrual_at)
                              + B.interest_remainder) \div D
      BY DEF Earned, D
    <3>2. A.outstanding * A.apr_bps = w /\ B.outstanding * B.apr_bps = v
      BY <1>5 DEF w, v
    <3>3. QED
      BY <1>5, <3>1, <3>2, Zenon
  <2>4. QED
    BY <2>2, <2>3
<1>13. (w * (T - s) + f) \div D <= e + (v * (T - t) + (n % D)) \div D
  <2> DEFINE g == t - s
             h == T - t
             z == v * h
             y == w * (T - s) + f
  <2>1. g \in Nat /\ h \in Nat /\ T - s = g + h
    OBVIOUS
  <2>2. w \in Nat /\ v \in Nat /\ w <= r /\ w <= v
    <3>1. w \in Nat /\ v \in Nat
      BY <1>1, <1>6, Multiply DEF w, v
    <3>2. w <= r /\ w <= v
      BY <1>1, <1>6, <1>11, Multiply DEF w, v, r
    <3>3. QED
      BY <3>1, <3>2
  <2>3. n = r * g + f
    BY DEF n
  <2> HIDE DEF g, h
  <2>4. r * g \in Nat /\ w * g \in Nat /\ w * h \in Nat /\ z \in Nat /\ n \in Nat
    BY <1>1, <1>6, <2>1, <2>2, <2>3, Multiply
  <2>5. w * g <= r * g /\ w * h <= z
    BY <1>1, <2>1, <2>2, Multiply
  <2>6. w * (g + h) = w * g + w * h
    <3>1. (g + h) * w = g * w + h * w
      BY <2>1, <2>2, Multiply
    <3>2. (g + h) * w = w * (g + h) /\ g * w = w * g /\ h * w = w * h
      <4>1. g + h \in Nat
        BY <2>1
      <4>2. QED
        BY <2>1, <2>2, <4>1, Multiply
    <3>3. QED
      BY <3>1, <3>2
  <2>7. y = w * g + w * h + f
    BY <2>1, <2>6
  <2> HIDE DEF z, y
  <2>8. y \in Nat /\ n + z \in Nat /\ y <= n + z
    BY <1>6, <2>3, <2>4, <2>5, <2>7
  <2>9. y \div D <= (n + z) \div D
    BY <1>1, <2>8, DividesMore
  <2>10. n \div D + (z + (n % D)) \div D = (n + z) \div D
    <3>1. D \in Nat \ {0} /\ n \in Nat /\ z \in Nat
      BY <1>1, <2>4
    <3>2. QED
      BY <3>1, BookedTwice
  <2>11. y \div D <= e + (z + (n % D)) \div D
    BY <1>4, <2>9, <2>10 DEF D, e, n, f
  <2>12. QED
    BY <2>11 DEF y, z, h
<1>14. QED
  <2> DEFINE p == (w * (T - s) + f) \div D
             q == (v * (T - t) + (n % D)) \div D
  <2>1. OwedAt(A, T) \in Nat /\ OwedAt(B, T) \in Nat
    BY <1>5, OwedIs
  <2>2. p <= e + q
    BY <1>13
  <2>3. OwedAt(A, T) = A.outstanding + (A.accrued_interest + p)
        /\ OwedAt(B, T) = B.outstanding + (B.accrued_interest + q)
    BY <1>12
  <2>4. p \in Int /\ q \in Int
    <3>1. w * (T - s) + f \in Nat /\ v * (T - t) + (n % D) \in Nat
      <4> DEFINE g == T - s
                 h == T - t
      <4>1. w \in Nat /\ v \in Nat
        BY <1>1, <1>6, Multiply DEF w, v
      <4>2. g \in Nat /\ h \in Nat
        OBVIOUS
      <4>3. n % D \in Nat
        BY <1>5, SoundFields
      <4> HIDE DEF g, h
      <4>4. w * g \in Nat /\ v * h \in Nat
        BY <4>1, <4>2, Multiply
      <4>5. QED
        BY <1>6, <4>3, <4>4 DEF g, h
    <3>2. QED
      BY <1>1, <3>1, DivMod
  <2> HIDE DEF p, q
  <2>5. OwedAt(A, T) <= OwedAt(B, T)
    BY <1>1, <1>6, <1>7, <1>8, <1>11, <2>1, <2>2, <2>3, <2>4
  <2>6. QED
    BY <1>11, <2>5

\* applyRepayment leaves what the program leaves, as far as the debt goes.
LEMMA LeftIs ==
  ASSUME NEW l, SoundLoan(l), IsOpen(l), NEW s \in Nat, l.last_accrual_at <= s,
         NEW x \in Nat \ {0},
         NEW A, A = ApplyRepayment(Accrue(l, s), x)
  PROVE  LET L == LeftOf(l, x, s)
         IN  /\ L.outstanding = A.outstanding /\ L.due_at = l.due_at
             /\ \A T : OwedAt(L, T) = OwedAt(A, T)
<1> DEFINE a == Accrue(l, s)
           L == LeftOf(l, x, s)
           i == AccrueTo(l, s).interest
           r == AccrueTo(l, s).remainder
           part == Least(x, l.outstanding + i)
           ip == Least(part, i)
<1>1. /\ l \in LifeType /\ l.outstanding \in Nat /\ l.last_accrual_at \in Nat
  BY SoundFields DEF SoundLoan
<1>2. /\ SoundLoan(a) /\ IsOpen(a) /\ a \in LifeType /\ a.outstanding = l.outstanding
      /\ a.accrued_interest = i /\ a.interest_remainder = r
      /\ a.last_accrual_at = s /\ a.apr_bps = l.apr_bps /\ a.due_at = l.due_at
  BY <1>1, AccrueIs, AccrueSound, EarnedFacts DEF SoundLoan
<1>3. /\ A.outstanding = a.outstanding - PrincipalPart(a, x)
      /\ A.accrued_interest = a.accrued_interest - InterestPart(a, x)
  BY <1>2, RepaymentSplits
<1>4. /\ A.last_accrual_at = s /\ A.apr_bps = l.apr_bps /\ A.interest_remainder = r
  BY <1>2, RepaymentLeaves
<1>5. InterestPart(a, x) = ip /\ PrincipalPart(a, x) = part - ip
  BY <1>2 DEF InterestPart, PrincipalPart, TotalOwed
<1>6. s = IF s > l.last_accrual_at THEN s ELSE l.last_accrual_at
  BY <1>1
<1>7. L = [l EXCEPT !.outstanding        = l.outstanding - (part - ip),
                    !.accrued_interest   = i - ip,
                    !.interest_remainder = r,
                    !.last_accrual_at    = s]
  BY <1>6 DEF LeftOf
<1> HIDE DEF a, i, r, part, ip, L
<1>8. /\ L.outstanding = A.outstanding /\ L.accrued_interest = A.accrued_interest
      /\ L.interest_remainder = A.interest_remainder
      /\ L.last_accrual_at = A.last_accrual_at /\ L.apr_bps = A.apr_bps
      /\ L.due_at = l.due_at
  BY <1>1, <1>2, <1>3, <1>4, <1>5, <1>7 DEF LifeType
<1>9. \A T : OwedAt(L, T) = OwedAt(A, T)
  BY <1>8 DEF OwedAt, AccrueTo
<1>10. QED
  BY <1>8, <1>9 DEF L

\* What a delegation is sized by after a repayment is within what the loan can come to once
\* the repayment has landed, whenever that is.
LEMMA LeftWithin ==
  ASSUME NEW l, SoundLoan(l), IsOpen(l), NEW x \in Nat,
         NEW s \in Nat, l.last_accrual_at <= s, NEW t \in Nat, s <= t,
         NEW m, m = IF x > 0 THEN ApplyRepayment(Accrue(l, t), x) ELSE l
  PROVE  /\ CeilingInTerm(LeftOf(l, x, s), s) \in Nat
         /\ CeilingInTerm(m, t) \in Nat
         /\ CeilingInTerm(LeftOf(l, x, s), s) <= CeilingInTerm(m, t)
         /\ ~IsOpen(m) => CeilingInTerm(m, t) = 0
         /\ CeilingInTerm(l, s) \in Nat \ {0}
<1> DEFINE S == IF l.due_at > s THEN l.due_at ELSE s
           T == IF l.due_at > t THEN l.due_at ELSE t
<1>1. /\ l \in LifeType /\ l.due_at \in Nat /\ l.last_accrual_at \in Nat
      /\ l.outstanding \in Nat /\ l.outstanding > 0 /\ l.last_accrual_at <= t
  BY SoundFields DEF SoundLoan
<1>2. S \in Nat /\ T \in Nat /\ s <= S /\ S <= T /\ t <= T
  BY <1>1
<1>3. \A n : CeilingInTerm(n, s) = (IF n.outstanding = 0 THEN 0
                                    ELSE OwedAt(n, IF n.due_at > s THEN n.due_at ELSE s))
  BY DEF CeilingInTerm
<1>4. \A n : CeilingInTerm(n, t) = (IF n.outstanding = 0 THEN 0
                                    ELSE OwedAt(n, IF n.due_at > t THEN n.due_at ELSE t))
  BY DEF CeilingInTerm
<1>5. CeilingInTerm(l, s) \in Nat \ {0}
  <2>1. CeilingInTerm(l, s) = OwedAt(l, S)
    BY <1>1, <1>3
  <2> HIDE DEF S
  <2>2. OwedAt(l, S) \in Nat /\ l.outstanding <= OwedAt(l, S)
    BY <1>1, <1>2, OwedIs
  <2>3. QED
    BY <1>1, <2>1, <2>2
<1>6. CASE x = 0
  <2>1. m = l /\ LeftOf(l, x, s) = l
    BY <1>6 DEF LeftOf
  <2>2. CeilingInTerm(l, s) = OwedAt(l, S) /\ CeilingInTerm(l, t) = OwedAt(l, T)
    BY <1>1, <1>3, <1>4
  <2> HIDE DEF S, T
  <2>3. OwedAt(l, S) <= OwedAt(l, T) /\ OwedAt(l, S) \in Nat /\ OwedAt(l, T) \in Nat
    <3>1. l.last_accrual_at <= S
      BY <1>1, <1>2
    <3>2. QED
      BY <1>1, <1>2, <3>1, OwedGrows, OwedIs
  <2>4. QED
    BY <1>5, <2>1, <2>2, <2>3
<1>7. CASE x # 0
  <2> DEFINE A == ApplyRepayment(Accrue(l, s), x)
             L == LeftOf(l, x, s)
  <2>1. m = ApplyRepayment(Accrue(l, t), x)
    BY <1>7
  <2>2. /\ SoundLoan(A) /\ A.last_accrual_at = s /\ SoundLoan(m) /\ m.last_accrual_at = t
    BY <1>1, <2>1, RepaidIs
  <2>3. L.outstanding = A.outstanding /\ L.due_at = l.due_at
        /\ \A u : OwedAt(L, u) = OwedAt(A, u)
    BY <1>7, LeftIs
  <2>4. m.due_at = l.due_at
    <3>1. SoundLoan(Accrue(l, t)) /\ IsOpen(Accrue(l, t)) /\ Accrue(l, t).due_at = l.due_at
      BY <1>1, AccrueIs, AccrueSound
    <3>2. QED
      BY <2>1, <3>1, RepaymentLeaves
  <2>5. /\ CeilingInTerm(L, s) = IF A.outstanding = 0 THEN 0 ELSE OwedAt(A, S)
        /\ CeilingInTerm(m, t) = IF m.outstanding = 0 THEN 0 ELSE OwedAt(m, T)
    <3>1. CeilingInTerm(L, s) = IF A.outstanding = 0 THEN 0 ELSE OwedAt(L, S)
      BY <1>3, <2>3
    <3>2. CeilingInTerm(m, t) = IF m.outstanding = 0 THEN 0 ELSE OwedAt(m, T)
      BY <1>4, <2>4
    <3>3. QED
      BY <2>3, <3>1, <3>2
  <2> HIDE DEF S, T, L
  <2>6. A \in LifeType /\ m \in LifeType /\ A.outstanding \in Nat /\ m.outstanding \in Nat
    BY <2>2, SoundFields DEF SoundLoan
  <2>7. /\ OwedAt(A, S) \in Nat /\ OwedAt(A, T) \in Nat /\ OwedAt(m, T) \in Nat
        /\ OwedAt(A, S) <= OwedAt(A, T)
    <3>1. A.last_accrual_at <= S
      BY <1>2, <2>2
    <3> HIDE DEF A
    <3>2. QED
      BY <1>2, <2>6, <3>1, OwedIs, OwedGrows
  <2>8. A.outstanding > 0 => m.outstanding > 0 /\ OwedAt(A, T) <= OwedAt(m, T)
    BY <1>2, <2>1, PaidLater
  <2>9. ~IsOpen(m) => m.outstanding = 0
    BY <2>2, <2>6 DEF SoundLoan
  <2> HIDE DEF A
  <2>10. CeilingInTerm(L, s) \in Nat /\ CeilingInTerm(m, t) \in Nat
         /\ CeilingInTerm(L, s) <= CeilingInTerm(m, t)
    BY <2>5, <2>6, <2>7, <2>8
  <2>11. QED
    BY <1>5, <2>5, <2>9, <2>10 DEF L
<1>8. QED
  BY <1>6, <1>7
-----------------------------------------------------------------------------
(***************************************************************************)
(* The position page.                                                      *)
(***************************************************************************)
CONSTANTS Loans, OpenedLoans, NEXT_PAYMENT, EVERYTHING, CustomAmounts, Wallets,
          SweepAmounts, SweepRates, Revoking, START

VARIABLES rewards, balance, clock

Repays == INSTANCE Repaying

\* The loans whose next payments fall due first.
Foremost(D, next) ==
  LET lead == CHOOSE i \in D : \A j \in D : ~Earlier(next[j], next[i])
  IN  {i \in D :
         /\ next[i].late = next[lead].late
         /\ next[i].late \/ next[i].at = next[lead].at}

\* The page and the program compute with the same operators here and above.
LEMMA RepaysAlike ==
  /\ \A l : Repays!IsOpen(l) <=> IsOpen(l)
  /\ \A l : Repays!Periods(l) = Periods(l)
  /\ \A l, t : Repays!NextOf(l, t) = NextOf(l, t)
  /\ \A l, t : Repays!OwedAt(l, t) = OwedAt(l, t)
  /\ \A l, t : Repays!Accrue(l, t) = Accrue(l, t)
  /\ \A l, x : Repays!ApplyRepayment(l, x) = ApplyRepayment(l, x)
  /\ \A f : Repays!SumFunction(f) = SumFunction(f)
  /\ \A ls, t : Repays!NextAmount(ls, t) = NextAmount(ls, t)
  /\ \A ls, t : Repays!RepayAllAmount(ls, t) = RepayAllAmount(ls, t)
  /\ \A ls, x, t : Repays!Allocation(ls, x, t) = Allocation(ls, x, t)
  /\ \A ls, t : Repays!Together(ls, t) = Together(ls, t)
  /\ \A l, t : Repays!Payment(l, t) = Payment(l, t) /\ Repays!Ceiling(l, t) = Ceiling(l, t)
<1>1. \A l : Repays!IsOpen(l) <=> IsOpen(l)
  BY DEF Repays!IsOpen, IsOpen
<1>2. \A l : Repays!Periods(l) = Periods(l)
  BY DEF Repays!Periods, Periods
<1>3. \A l, t : Repays!NextOf(l, t) = NextOf(l, t)
  BY DEF Repays!NextOf, NextOf, Repays!Unpaid, Unpaid, Repays!Periods, Periods, Repays!OwedBy,
         OwedBy, Repays!Least, Least, Repays!PrincipalDueAfter, PrincipalDueAfter,
         Repays!DivCeil, DivCeil, Repays!AccrueTo, AccrueTo
<1>4. \A l, t : Repays!OwedAt(l, t) = OwedAt(l, t)
  BY DEF Repays!OwedAt, OwedAt, Repays!AccrueTo, AccrueTo
<1>5. \A l, t : Repays!Accrue(l, t) = Accrue(l, t)
  BY DEF Repays!Accrue, Accrue, Repays!InterestTo, InterestTo, Repays!AccrualNumerator,
         AccrualNumerator
<1>6. \A l, x : Repays!ApplyRepayment(l, x) = ApplyRepayment(l, x)
  BY DEF Repays!ApplyRepayment, ApplyRepayment, Repays!InterestPart, InterestPart,
         Repays!PrincipalPart, PrincipalPart, Repays!TotalOwed, TotalOwed, Repays!Least, Least,
         Repays!NoReason, NoReason
<1>7. \A f : Repays!SumFunction(f) = SumFunction(f)
  BY DEF Repays!SumFunction, SumFunction, Repays!SumFunctionOnSet, SumFunctionOnSet,
         Repays!FoldFunctionOnSet, FoldFunctionOnSet, Repays!MapThenFoldSet, MapThenFoldSet
<1>8. \A ls, t : Repays!Together(ls, t) = Together(ls, t)
  <2>1. ASSUME NEW ls, NEW t PROVE Repays!Together(ls, t) = Together(ls, t)
    <3> DEFINE D == DOMAIN ls
               next == [i \in D |-> NextOf(ls[i], t)]
    <3>1. Together(ls, t) = Foremost(D, next)
      BY DEF Together, Foremost
    <3>2. Repays!Together(ls, t) = Foremost(D, [i \in D |-> Repays!NextOf(ls[i], t)])
      BY DEF Repays!Together, Foremost, Repays!Earlier, Earlier
    <3>3. [i \in D |-> Repays!NextOf(ls[i], t)] = next
      BY <1>3
    <3>4. QED
      BY <3>1, <3>2, <3>3
  <2>2. QED
    BY <2>1
<1>9. \A l, t : Repays!Payment(l, t) = Payment(l, t) /\ Repays!Ceiling(l, t) = Ceiling(l, t)
  BY <1>3, <1>4 DEF Repays!Payment, Payment, Repays!Ceiling, Ceiling
<1>10. \A ls, t : Repays!NextAmount(ls, t) = NextAmount(ls, t)
  BY <1>7, <1>8, <1>9 DEF Repays!NextAmount, NextAmount
<1>11. \A ls, t : Repays!RepayAllAmount(ls, t) = RepayAllAmount(ls, t)
  BY <1>4, <1>7 DEF Repays!RepayAllAmount, RepayAllAmount, Repays!Ceiling, Ceiling
<1>12. \A ls, x, t : Repays!Allocation(ls, x, t) = Allocation(ls, x, t)
  <2>1. ASSUME NEW ls, NEW t, NEW i, NEW j
        PROVE  Repays!Before(ls, t, i, j) <=> Before(ls, t, i, j)
    BY <1>3 DEF Repays!Before, Before, Repays!Earlier, Earlier
  <2>2. ASSUME NEW ls, NEW t, NEW room, NEW x
        PROVE  Repays!Pass(ls, t, room, x) = Pass(ls, t, room, x)
    <3>1. ASSUME NEW i
          PROVE  {k \in DOMAIN ls : Repays!Before(ls, t, k, i)}
                   = {k \in DOMAIN ls : Before(ls, t, k, i)}
      BY <2>1
    <3>2. ASSUME NEW a, NEW b
          PROVE  /\ Repays!Least(a, b) = Least(a, b)
                 /\ Repays!SaturatingSub(a, b) = SaturatingSub(a, b)
      BY DEF Repays!Least, Least, Repays!SaturatingSub, SaturatingSub
    <3>3. QED
      BY <1>7, <3>1, <3>2 DEF Repays!Pass, Pass
  <2>3. ASSUME NEW l, NEW t
        PROVE  Repays!Ceiling(l, t) = Ceiling(l, t) /\ Repays!Payment(l, t) = Payment(l, t)
    BY <1>3, <1>4 DEF Repays!Ceiling, Ceiling, Repays!Payment, Payment
  <2>4. ASSUME NEW a, NEW b PROVE Repays!Least(a, b) = Least(a, b)
    BY DEF Repays!Least, Least
  <2>5. QED
    BY <1>7, <2>2, <2>3, <2>4 DEF Repays!Allocation, Allocation
<1>13. QED
  BY <1>1, <1>2, <1>3, <1>4, <1>5, <1>6, <1>7, <1>10, <1>11, <1>12, <1>8, <1>9

RepaysAssumption == ClientLoanAssumption /\ Repays!RepayingAssumption

\* Loans as they were read at some moment: what has happened to them since lowered them.
Read(ls, at) ==
  /\ SoundLoans(ls) /\ DOMAIN ls \subseteq Loans
  /\ \A i \in DOMAIN ls : ls[i].last_accrual_at <= at /\ OwesNoMore(loans[i], ls[i])

CallShape(run) ==
  run = [ step |-> run.step, mounted |-> run.mounted, choice |-> run.choice,
           at |-> run.at, loans |-> run.loans, per_loan |-> run.per_loan,
           permits |-> run.permits ]

\* The division a call signs for is that of the moment of the click.
Divided(run) ==
  /\ run.at \in Nat /\ run.at <= now
  /\ Read(run.loans, run.at)
  /\ run.choice \in Repays!Choices
  /\ run.per_loan
       = Allocation(run.loans, Repays!AmountAt(run.loans, run.choice, run.at), run.at)

RepayCallInv(run) ==
  \/ run = Repays!NoCall
  \/ /\ CallShape(run) /\ Divided(run)
     /\ run.step \in {"reading", "signing", "sent", "landed", "adrift"}

DebtsInv ==
  /\ now \in Nat
  /\ loans = [i \in Loans |-> loans[i]]
  /\ \A i \in Loans : SoundLoan(loans[i]) /\ loans[i].last_accrual_at <= now

FiguresInv ==
  /\ clock \in Nat /\ clock <= now
  /\ shown.status = "ready" =>
       /\ Read(shown.loans, now)
       /\ shown.loans = [i \in DOMAIN shown.loans |-> shown.loans[i]]

RepayCallsInv ==
  /\ calls = [c \in Calls |-> calls[c]]
  /\ \A c \in Calls : RepayCallInv(calls[c])

RepayInv == DebtsInv /\ FiguresInv /\ RepayCallsInv

\* An account the page may find is that of a sound loan.
LEMMA OpenedIsSound ==
  ASSUME NEW l, l \in Repays!LoanType, Repays!Consistent(l)
  PROVE  SoundLoan(l)
<1>1. /\ l.reward_mint \in RewardMints /\ l.principal \in Nat /\ l.outstanding \in Nat
      /\ l.accrued_interest \in Nat /\ l.interest_remainder \in 0..(ACCRUAL_DENOMINATOR - 1)
      /\ l.opened_at \in Nat /\ l.due_at \in Nat /\ l.last_accrual_at \in Nat
      /\ l.apr_bps \in Nat /\ l.sweep_bps \in Nat /\ l.status \in LoanStatuses
      /\ l.reward_due \in Nat /\ l.manual_repayment \in ManualReasons \union {NoReason}
      /\ REPAYMENT_PERIOD \in Nat \ {0}
      /\ l = [ reward_mint |-> l.reward_mint, principal |-> l.principal,
               outstanding |-> l.outstanding, accrued_interest |-> l.accrued_interest,
               interest_remainder |-> l.interest_remainder, opened_at |-> l.opened_at,
               due_at |-> l.due_at, last_accrual_at |-> l.last_accrual_at,
               apr_bps |-> l.apr_bps, sweep_bps |-> l.sweep_bps, status |-> l.status,
               reward_due |-> l.reward_due, manual_repayment |-> l.manual_repayment ]
  BY LoanAssumption, ArithmeticAssumption
     DEF Repays!LoanType, Repays!U64, Repays!LoanStatuses, LoanStatuses,
         Repays!ManualReasons, ManualReasons, Repays!NoReason, NoReason
<1>2. /\ IsOpen(l) <=> l.outstanding > 0
      /\ l.outstanding <= l.principal
      /\ ~IsOpen(l) => l.principal > 0 /\ l.accrued_interest = 0
      /\ l.due_at > l.opened_at
      /\ (l.due_at - l.opened_at) % REPAYMENT_PERIOD = 0
  BY RepaysAlike DEF Repays!Consistent
<1>3. l.principal \in Nat \ {0}
  BY <1>1, <1>2
<1>4. l \in LifeType
  BY <1>1, <1>3 DEF LifeType
<1> DEFINE d == l.due_at - l.opened_at
           q == d \div REPAYMENT_PERIOD
<1>5. d \in Nat \ {0} /\ d % REPAYMENT_PERIOD = 0 /\ l.due_at = l.opened_at + d
  BY <1>1, <1>2
<1> HIDE DEF d
<1>6. q \in Nat /\ d = q * REPAYMENT_PERIOD + (d % REPAYMENT_PERIOD)
  BY <1>1, <1>5, DivMod, Division
<1> HIDE DEF q
<1>7. q # 0
  BY <1>1, <1>5, <1>6
<1>8. q * REPAYMENT_PERIOD \in Nat
  BY <1>1, <1>6, Multiply
<1>9. l.due_at = l.opened_at + q * REPAYMENT_PERIOD
  BY <1>5, <1>6, <1>8
<1>10. QED
  BY <1>2, <1>4, <1>6, <1>7, <1>9 DEF SoundLoan

\* A step of the chain: each loan stays as it was, or some of it is repaid.
LEMMA DebtsMove ==
  ASSUME DebtsInv, now' = now, loans' = [i \in Loans |-> loans'[i]],
         \A i \in Loans :
           \/ loans'[i] = loans[i]
           \/ /\ IsOpen(loans[i])
              /\ \E x \in Nat : loans'[i] = ApplyRepayment(Accrue(loans[i], now), x)
  PROVE  /\ DebtsInv'
         /\ \A ls, at : Read(ls, at) => Read(ls, at)'
<1>1. ASSUME NEW i \in Loans
      PROVE  /\ SoundLoan(loans'[i]) /\ loans'[i].last_accrual_at <= now
             /\ loans[i].last_accrual_at <= loans'[i].last_accrual_at
             /\ OwesNoMore(loans'[i], loans[i])
  <2>1. /\ now \in Nat /\ SoundLoan(loans[i]) /\ loans[i].last_accrual_at <= now
        /\ loans[i] \in LifeType /\ loans[i].last_accrual_at \in Nat
    BY SoundFields DEF DebtsInv, SoundLoan
  <2>2. CASE loans'[i] = loans[i]
    <3>1. ASSUME NEW t \in Nat PROVE OwedAt(loans[i], t) \in Nat
      BY <2>1, OwedIs
    <3>2. QED
      BY <2>1, <2>2, <3>1 DEF OwesNoMore
  <2>3. ASSUME IsOpen(loans[i]), NEW x \in Nat,
               loans'[i] = ApplyRepayment(Accrue(loans[i], now), x)
        PROVE  /\ SoundLoan(loans'[i]) /\ loans'[i].last_accrual_at = now
               /\ OwesNoMore(loans'[i], loans[i])
    BY <2>1, <2>3, RepaidIs
  <2>4. QED
    BY <2>1, <2>2, <2>3
<1>2. DebtsInv'
  BY <1>1 DEF DebtsInv
<1>3. ASSUME NEW ls, NEW at, Read(ls, at) PROVE Read(ls, at)'
  <2>1. ASSUME NEW i \in DOMAIN ls PROVE OwesNoMore(loans'[i], ls[i])
    <3>1. /\ i \in Loans /\ OwesNoMore(loans[i], ls[i]) /\ ls[i] \in LifeType
      BY <1>3 DEF Read, SoundLoans, SoundLoan
    <3>2. /\ loans[i] \in LifeType /\ loans'[i] \in LifeType
          /\ loans[i].last_accrual_at \in Nat /\ loans'[i].last_accrual_at \in Nat
      BY <1>1, <3>1, SoundFields DEF DebtsInv, SoundLoan
    <3>3. ASSUME NEW t \in Nat, loans'[i].last_accrual_at <= t
          PROVE  OwedAt(loans'[i], t) <= OwedAt(ls[i], t)
      <4>1. /\ OwedAt(loans'[i], t) \in Nat /\ OwedAt(loans[i], t) \in Nat
            /\ OwedAt(ls[i], t) \in Nat
        BY <3>1, <3>2, OwedIs
      <4>2. loans[i].last_accrual_at <= t
        BY <1>1, <3>1, <3>2, <3>3
      <4>3. /\ OwedAt(loans'[i], t) <= OwedAt(loans[i], t)
            /\ OwedAt(loans[i], t) <= OwedAt(ls[i], t)
        BY <1>1, <3>1, <3>3, <4>2 DEF OwesNoMore
      <4>4. QED
        BY <4>1, <4>3
    <3>4. QED
      BY <3>3 DEF OwesNoMore
  <2>2. QED
    BY <1>3, <2>1 DEF Read
<1>4. QED
  BY <1>2, <1>3

\* The divisions and what was read are not changed by a step that leaves the chain alone.
LEMMA ReadStays ==
  ASSUME UNCHANGED <<now, loans>>
  PROVE  /\ DebtsInv => DebtsInv'
         /\ \A ls, at : Read(ls, at) => Read(ls, at)'
         /\ \A run : RepayCallInv(run) => RepayCallInv(run)'
<1>1. \A ls, at : Read(ls, at)' <=> Read(ls, at)
  BY DEF Read
<1>2. \A run : Divided(run)' <=> Divided(run)
  BY <1>1 DEF Divided
<1>3. \A run : RepayCallInv(run)' <=> RepayCallInv(run)
  BY <1>2 DEF RepayCallInv
<1>4. QED
  BY <1>1, <1>3 DEF DebtsInv

\* A call that goes on keeps the division it was clicked for.
LEMMA CallGoesOn ==
  ASSUME NEW run, RepayCallInv(run), run # Repays!NoCall,
         NEW s \in {"reading", "signing", "sent", "landed", "adrift"}, NEW p, NEW b,
         NEW r, \/ r = [run EXCEPT !.step = s]
                \/ r = [run EXCEPT !.step = s, !.permits = p]
                \/ r = [run EXCEPT !.mounted = b]
  PROVE  /\ RepayCallInv(r) /\ r # Repays!NoCall
         /\ r.at = run.at /\ r.loans = run.loans /\ r.per_loan = run.per_loan
         /\ r.choice = run.choice
<1>1. CallShape(run) /\ Divided(run)
      /\ run.step \in {"reading", "signing", "sent", "landed", "adrift"}
  BY DEF RepayCallInv
<1>2. /\ CallShape(r) /\ r.step \in {"reading", "signing", "sent", "landed", "adrift"}
      /\ r.at = run.at /\ r.loans = run.loans /\ r.per_loan = run.per_loan
      /\ r.choice = run.choice
  BY <1>1 DEF CallShape
<1>3. Divided(r)
  BY <1>1, <1>2 DEF Divided
<1>4. QED
  BY <1>2, <1>3 DEF RepayCallInv, Repays!NoCall

\* What was read and what was clicked stand while time passes and debts are repaid.
Lowered == /\ now' \in Nat /\ now <= now'
           /\ \A ls, at : Read(ls, at) => Read(ls, at)'

LEMMA RepayCallsKept ==
  ASSUME RepayInv, Lowered,
         \/ calls' = calls
         \/ \E c \in Calls : \E r : RepayCallInv(r) /\ calls' = [calls EXCEPT ![c] = r]
  PROVE  RepayCallsInv'
<1>1. ASSUME NEW run, RepayCallInv(run) PROVE RepayCallInv(run)'
  <2>1. CASE run = Repays!NoCall
    BY <2>1 DEF RepayCallInv
  <2>2. CASE run # Repays!NoCall
    <3>1. /\ run.at \in Nat /\ run.at <= now /\ now \in Nat /\ now' \in Nat /\ now <= now'
          /\ Read(run.loans, run.at)
      BY <1>1, <2>2 DEF RepayCallInv, Divided, Lowered, RepayInv, DebtsInv
    <3>2. run.at <= now' /\ Read(run.loans, run.at)'
      BY <3>1 DEF Lowered
    <3>3. Divided(run)'
      BY <1>1, <2>2, <3>1, <3>2 DEF RepayCallInv, Divided
    <3>4. QED
      BY <1>1, <2>2, <3>3 DEF RepayCallInv
  <2>3. QED
    BY <2>1, <2>2
<1>2. calls = [d \in Calls |-> calls[d]] /\ \A d \in Calls : RepayCallInv(calls[d])
  BY DEF RepayInv, RepayCallsInv
<1>3. CASE calls' = calls
  <2>1. \A d \in Calls : RepayCallInv(calls[d])'
    BY <1>1, <1>2, <1>3
  <2>2. QED
    BY <1>2, <1>3, <2>1 DEF RepayCallsInv
<1>4. ASSUME NEW c \in Calls, NEW r, RepayCallInv(r), calls' = [calls EXCEPT ![c] = r]
      PROVE  RepayCallsInv'
  <2>1. calls' = [d \in Calls |-> IF d = c THEN r ELSE calls[d]]
    BY <1>2, <1>4
  <2>2. \A d \in Calls : RepayCallInv(calls[d])'
    BY <1>1, <1>2, <1>4, <2>1
  <2>3. QED
    BY <2>1, <2>2 DEF RepayCallsInv
<1>5. QED
  BY <1>3, <1>4

LEMMA FiguresKept ==
  ASSUME RepayInv, Lowered, shown' = shown, clock' = clock
  PROVE  FiguresInv'
<1>1. now \in Nat /\ now' \in Nat /\ now <= now' /\ clock \in Nat /\ clock <= now
  BY DEF RepayInv, DebtsInv, FiguresInv, Lowered
<1>2. ASSUME shown.status = "ready" PROVE Read(shown.loans, now)'
  <2> DEFINE ls == shown.loans
  <2>1. Read(ls, now)
    BY <1>2 DEF RepayInv, FiguresInv
  <2>2. SoundLoans(ls) /\ DOMAIN ls \subseteq Loans
        /\ \A i \in DOMAIN ls : ls[i].last_accrual_at <= now /\ ls[i].last_accrual_at \in Nat
    BY <2>1, SoundFields DEF Read, SoundLoans, SoundLoan
  <2>3. \A i \in DOMAIN ls : OwesNoMore(loans'[i], ls[i])
    BY <2>1 DEF Lowered, Read
  <2>4. \A i \in DOMAIN ls : ls[i].last_accrual_at <= now'
    BY <1>1, <2>2
  <2>5. QED
    BY <2>2, <2>3, <2>4 DEF Read
<1>3. QED
  BY <1>1, <1>2 DEF FiguresInv, RepayInv

\* A step of a call that does not reach the chain.
LEMMA QuietStep ==
  ASSUME RepayInv, UNCHANGED <<now, loans>>
  PROVE  DebtsInv' /\ Lowered
BY ReadStays DEF RepayInv, DebtsInv, Lowered

LEMMA RepayStarts ==
  ASSUME RepaysAssumption, Repays!Init
  PROVE  RepayInv
<1>1. /\ now = START /\ clock = START /\ START \in Nat
      /\ loans \in OpenedLoans /\ shown.status = "loading"
      /\ calls = [c \in Calls |-> Repays!NoCall]
  BY DEF Repays!Init, Repays!Loading, RepaysAssumption, Repays!RepayingAssumption
<1>2. /\ loans \in [Loans -> Repays!LoanType]
      /\ \A i \in Loans : Repays!Consistent(loans[i]) /\ loans[i].last_accrual_at <= START
  BY <1>1 DEF RepaysAssumption, Repays!RepayingAssumption
<1>3. DebtsInv
  <2>1. \A i \in Loans : SoundLoan(loans[i])
    BY <1>2, OpenedIsSound
  <2>2. QED
    BY <1>1, <1>2, <2>1 DEF DebtsInv
<1>4. FiguresInv
  BY <1>1 DEF FiguresInv
<1>5. RepayCallsInv
  BY <1>1 DEF RepayCallsInv, RepayCallInv
<1>6. QED
  BY <1>3, <1>4, <1>5 DEF RepayInv

LEMMA ClickRepays ==
  ASSUME RepaysAssumption, RepayInv, NEW c \in Calls, NEW choice \in Repays!Choices,
         Repays!Click(c, choice)
  PROVE  RepayInv'
<1> DEFINE ls == shown.loans
           amount == Repays!AmountAt(ls, choice, now)
           r == [ step |-> "reading", mounted |-> TRUE, choice |-> choice, at |-> now,
                  loans |-> ls, per_loan |-> Repays!Allocation(ls, amount, now),
                  permits |-> <<>> ]
<1>1. /\ calls' = [calls EXCEPT ![c] = r] /\ UNCHANGED <<now, loans, shown, clock>>
      /\ shown.status = "ready"
  BY DEF Repays!Click, Repays!chainVars, Repays!CanSign, Repays!Formed
<1>2. /\ r.at = now /\ r.loans = ls /\ r.choice = choice
      /\ r.per_loan = Allocation(ls, amount, now) /\ r.step = "reading"
      /\ CallShape(r)
  BY RepaysAlike DEF CallShape
<1>3. now \in Nat /\ Read(ls, now)
  BY <1>1 DEF RepayInv, DebtsInv, FiguresInv
<1> HIDE DEF r
<1>4. Divided(r)
  BY <1>2, <1>3 DEF Divided
<1>5. RepayCallInv(r)
  BY <1>2, <1>4 DEF RepayCallInv
<1>6. DebtsInv' /\ Lowered
  BY <1>1, QuietStep
<1>7. RepayCallsInv' /\ FiguresInv'
  BY <1>1, <1>5, <1>6, RepayCallsKept, FiguresKept
<1>8. QED
  BY <1>6, <1>7 DEF RepayInv

LEMMA CallStepRepays ==
  ASSUME RepayInv, NEW c \in Calls,
         Repays!Prepare(c) \/ Repays!Send(c) \/ Repays!Fail(c) \/ Repays!Expire(c)
  PROVE  RepayInv'
<1>1. UNCHANGED <<now, loans, shown, clock>> /\ RepayCallInv(calls[c]) /\ calls[c] # Repays!NoCall
  BY DEF Repays!Prepare, Repays!Send, Repays!Fail, Repays!Expire, Repays!chainVars,
         RepayInv, RepayCallsInv
<1>2. DebtsInv' /\ Lowered
  BY <1>1, QuietStep
<1>3. \E r : RepayCallInv(r) /\ calls' = [calls EXCEPT ![c] = r]
  <2>1. CASE Repays!Prepare(c)
    <3>1. PICK p : calls' = [calls EXCEPT ![c] = [calls[c] EXCEPT !.step = "signing",
                                                                  !.permits = p]]
      BY <2>1 DEF Repays!Prepare
    <3> DEFINE r == [calls[c] EXCEPT !.step = "signing", !.permits = p]
    <3>2. RepayCallInv(r)
      BY <1>1, CallGoesOn
    <3>3. QED
      BY <3>1, <3>2
  <2>2. ASSUME NEW s \in {"sent", "adrift"}, calls' = [calls EXCEPT ![c].step = s]
        PROVE  \E r : RepayCallInv(r) /\ calls' = [calls EXCEPT ![c] = r]
    <3> DEFINE r == [calls[c] EXCEPT !.step = s]
    <3>1. calls' = [calls EXCEPT ![c] = r]
      BY <2>2
    <3>2. RepayCallInv(r)
      BY <1>1, CallGoesOn
    <3>3. QED
      BY <3>1, <3>2
  <2>3. CASE Repays!Send(c)
    BY <2>2, <2>3 DEF Repays!Send
  <2>4. ASSUME calls' = [calls EXCEPT ![c] = Repays!NoCall]
        PROVE  \E r : RepayCallInv(r) /\ calls' = [calls EXCEPT ![c] = r]
    <3>1. RepayCallInv(Repays!NoCall)
      BY DEF RepayCallInv
    <3>2. QED
      BY <2>4, <3>1
  <2>5. CASE Repays!Fail(c)
    BY <2>2, <2>4, <2>5 DEF Repays!Fail
  <2>6. CASE Repays!Expire(c)
    BY <2>4, <2>6 DEF Repays!Expire
  <2>7. QED
    BY <2>1, <2>3, <2>5, <2>6
<1>4. RepayCallsInv' /\ FiguresInv'
  BY <1>1, <1>2, <1>3, RepayCallsKept, FiguresKept
<1>5. QED
  BY <1>2, <1>4 DEF RepayInv

LEMMA ConfirmRepays ==
  ASSUME RepayInv, NEW c \in Calls, Repays!Confirm(c)
  PROVE  RepayInv'
<1>1. /\ UNCHANGED <<now, loans, clock>> /\ shown'.status = "loading"
      /\ calls' = [k \in Calls |->
           IF k = c THEN Repays!NoCall
           ELSE IF calls[k] = Repays!NoCall THEN Repays!NoCall
           ELSE [calls[k] EXCEPT !.mounted = FALSE]]
  BY DEF Repays!Confirm, Repays!chainVars, Repays!ReadAgain, Repays!Loading
<1>2. DebtsInv' /\ Lowered
  BY <1>1, QuietStep
<1>3. ASSUME NEW k \in Calls PROVE RepayCallInv(calls'[k])
  <2>1. CASE k = c \/ calls[k] = Repays!NoCall
    BY <1>1, <2>1 DEF RepayCallInv
  <2>2. CASE k # c /\ calls[k] # Repays!NoCall
    <3>1. /\ RepayCallInv(calls[k]) /\ calls'[k] = [calls[k] EXCEPT !.mounted = FALSE]
      BY <1>1, <2>2 DEF RepayInv, RepayCallsInv
    <3> DEFINE r == [calls[k] EXCEPT !.mounted = FALSE]
    <3>2. RepayCallInv(r)
      BY <2>2, <3>1, CallGoesOn
    <3>3. QED
      BY <3>1, <3>2
  <2>3. QED
    BY <2>1, <2>2
<1>4. RepayCallsInv'
  <2>1. \A k \in Calls : RepayCallInv(calls[k])'
    BY ZenonT(40), <1>1, <1>3 DEF RepayCallInv, Divided, Read, CallShape
  <2>2. QED
    BY <1>1, <2>1 DEF RepayCallsInv
<1>5. clock' \in Nat /\ clock' <= now'
  BY <1>1 DEF RepayInv, FiguresInv
<1>6. QED
  BY <1>1, <1>2, <1>4, <1>5 DEF RepayInv, FiguresInv

\* Whatever is chosen is an amount, and none of the choices is nothing.
LEMMA AmountIs ==
  ASSUME RepaysAssumption, NEW ls, SoundLoans(ls), NEW at \in Nat,
         NEW choice \in Repays!Choices
  PROVE  /\ Repays!AmountAt(ls, choice, at) \in Nat
         /\ choice = EVERYTHING => Repays!AmountAt(ls, choice, at) = RepayAllAmount(ls, at)
         /\ choice = NEXT_PAYMENT => Repays!AmountAt(ls, choice, at) = NextAmount(ls, at)
         /\ DOMAIN ls # {} => Repays!AmountAt(ls, choice, at) > 0
<1> DEFINE D == DOMAIN ls
<1>1. EVERYTHING # NEXT_PAYMENT /\ CustomAmounts \subseteq Nat \ {0, EVERYTHING, NEXT_PAYMENT}
  BY DEF RepaysAssumption, Repays!RepayingAssumption
<1>2. /\ choice = EVERYTHING => Repays!AmountAt(ls, choice, at) = RepayAllAmount(ls, at)
      /\ choice = NEXT_PAYMENT => Repays!AmountAt(ls, choice, at) = NextAmount(ls, at)
      /\ choice \in CustomAmounts => Repays!AmountAt(ls, choice, at) = choice
  BY <1>1, RepaysAlike DEF Repays!AmountAt
<1>3. IsFiniteSet(D) /\ \A i \in D : SoundLoan(ls[i]) /\ IsOpen(ls[i])
  BY DEF SoundLoans
<1>4. ASSUME NEW S \in SUBSET D, NEW f, \A i \in S : f[i] \in Nat \ {0}
      PROVE  /\ SumFunctionOnSet(f, S) \in Nat
             /\ S # {} => SumFunctionOnSet(f, S) > 0
  <2>1. IsFiniteSet(S)
    BY <1>3, FS_Subset
  <2>2. SumFunctionOnSet(f, S) \in Nat /\ \A i \in S : f[i] <= SumFunctionOnSet(f, S)
    BY <1>4, <2>1, SumOfNaturals
  <2>3. QED
    BY <1>4, <2>2
<1>5. RepayAllAmount(ls, at) \in Nat /\ (D # {} => RepayAllAmount(ls, at) > 0)
  <2> DEFINE cap == [i \in D |-> Ceiling(ls[i], at)]
  <2>1. RepayAllAmount(ls, at) = SumFunctionOnSet(cap, D)
    BY DEF RepayAllAmount, SumFunction
  <2>2. \A i \in D : cap[i] \in Nat \ {0}
    BY <1>3, CeilingOfLoan DEF RepaysAssumption
  <2> HIDE DEF cap
  <2>3. QED
    BY <1>4, <2>1, <2>2
<1>6. NextAmount(ls, at) \in Nat /\ (D # {} => NextAmount(ls, at) > 0)
  <2> DEFINE T == Together(ls, at)
             f == [i \in T |-> Payment(ls[i], at)]
  <2>1. NextAmount(ls, at) = SumFunctionOnSet(f, T)
    BY DEF NextAmount, SumFunction
  <2>2. T \in SUBSET D /\ (D # {} => T # {})
    BY TogetherIs
  <2>3. \A i \in T : f[i] \in Nat \ {0}
    BY <1>3, <2>2, NextIs
  <2> HIDE DEF f, T
  <2>4. QED
    BY <1>4, <2>1, <2>2, <2>3
<1> DEFINE x == Repays!AmountAt(ls, choice, at)
<1>7. choice \in CustomAmounts => x \in Nat /\ x > 0
  BY <1>1, <1>2
<1>8. choice = EVERYTHING \/ choice = NEXT_PAYMENT \/ choice \in CustomAmounts
  BY DEF Repays!Choices
<1> HIDE DEF x
<1>9. x \in Nat /\ (D # {} => x > 0)
  BY <1>2, <1>5, <1>6, <1>7, <1>8 DEF x
<1>10. QED
  BY <1>2, <1>9 DEF x

\* What a call's transaction repays.
LEMMA CallRepays ==
  ASSUME RepaysAssumption, RepayInv, NEW run, RepayCallInv(run), run # Repays!NoCall
  PROVE  /\ DOMAIN run.per_loan = DOMAIN run.loans /\ DOMAIN run.loans \subseteq Loans
         /\ \A i \in DOMAIN run.loans : run.per_loan[i] \in Nat
<1> DEFINE x == Repays!AmountAt(run.loans, run.choice, run.at)
<1>1. /\ run.at \in Nat /\ SoundLoans(run.loans) /\ DOMAIN run.loans \subseteq Loans
      /\ run.choice \in Repays!Choices
      /\ run.per_loan = Allocation(run.loans, x, run.at)
  BY DEF RepayCallInv, Divided, Read
<1>2. x \in Nat
  BY <1>1, AmountIs
<1> HIDE DEF x
<1>3. /\ DOMAIN run.per_loan = DOMAIN run.loans
      /\ \A i \in DOMAIN run.loans : run.per_loan[i] \in 0..Ceiling(run.loans[i], run.at)
  BY <1>1, <1>2, AllocationIs DEF RepaysAssumption
<1>4. QED
  BY <1>1, <1>3

LEMMA LandRepays ==
  ASSUME RepaysAssumption, RepayInv, NEW c \in Calls, Repays!Land(c)
  PROVE  RepayInv'
<1> DEFINE run == calls[c]
           R == Repays!Repaid(run)
<1>1. /\ RepayCallInv(run) /\ run # Repays!NoCall /\ run.step \in {"sent", "adrift"}
      /\ R \subseteq Repays!OpenLoans
      /\ UNCHANGED <<now, shown, clock>>
      /\ loans' = [i \in Loans |->
           IF i \in R
             THEN Repays!ApplyRepayment(Repays!Accrue(loans[i], now), run.per_loan[i])
             ELSE loans[i]]
  BY DEF Repays!Land, RepayInv, RepayCallsInv
<1>2. DebtsInv' /\ \A ls, at : Read(ls, at) => Read(ls, at)'
  <2>1. \A i \in R : i \in Loans /\ IsOpen(loans[i]) /\ run.per_loan[i] \in Nat
    BY <1>1, CallRepays, RepaysAlike DEF Repays!Repaid, Repays!OpenLoans
  <2> HIDE DEF R, run
  <2>2. \A i \in Loans :
          \/ loans'[i] = loans[i]
          \/ /\ IsOpen(loans[i])
             /\ \E x \in Nat : loans'[i] = ApplyRepayment(Accrue(loans[i], now), x)
    BY <1>1, <2>1, RepaysAlike
  <2>3. loans' = [i \in Loans |-> loans'[i]]
    BY <1>1
  <2>4. DebtsInv /\ now' = now
    BY <1>1 DEF RepayInv
  <2>5. QED
    BY <2>2, <2>3, <2>4, DebtsMove
<1>3. Lowered
  BY <1>1, <1>2 DEF RepayInv, DebtsInv, Lowered
<1>4. \E r : RepayCallInv(r) /\ calls' = [calls EXCEPT ![c] = r]
  <2>1. CASE run.step = "sent"
    <3> DEFINE r == [run EXCEPT !.step = "landed"]
    <3>1. calls' = [calls EXCEPT ![c] = r]
      BY <2>1 DEF Repays!Land
    <3>2. RepayCallInv(r)
      BY <1>1, CallGoesOn
    <3>3. QED
      BY <3>1, <3>2
  <2>2. CASE run.step # "sent"
    <3>1. calls' = [calls EXCEPT ![c] = Repays!NoCall]
      BY <2>2 DEF Repays!Land
    <3>2. RepayCallInv(Repays!NoCall)
      BY DEF RepayCallInv
    <3>3. QED
      BY <3>1, <3>2
  <2>3. QED
    BY <2>1, <2>2
<1>5. RepayCallsInv' /\ FiguresInv'
  BY <1>1, <1>3, <1>4, RepayCallsKept, FiguresKept
<1>6. QED
  BY <1>2, <1>5 DEF RepayInv

LEMMA SweepRepays ==
  ASSUME RepaysAssumption, RepayInv, NEW i \in Loans, NEW amount \in SweepAmounts,
         NEW rate \in SweepRates, Repays!Sweep(i, amount, rate)
  PROVE  RepayInv'
<1> DEFINE part == Repays!Least(amount, Repays!TotalOwed(Repays!Accrue(loans[i], now)))
<1>1. /\ IsOpen(loans[i]) /\ UNCHANGED <<now, shown, clock, calls>>
      /\ loans' = [loans EXCEPT ![i] = ApplyRepayment(Accrue(loans[i], now), part)]
  BY RepaysAlike DEF Repays!Sweep, Repays!OpenLoans, Repays!pageVars
<1>2. loans = [j \in Loans |-> loans[j]] /\ now \in Nat /\ SoundLoan(loans[i])
      /\ loans[i].last_accrual_at <= now
  BY DEF RepayInv, DebtsInv
<1>3. part \in Nat
  <2>1. amount \in Nat
    BY DEF RepaysAssumption, Repays!RepayingAssumption
  <2>2. /\ TotalOwed(Accrue(loans[i], now)) = OwedAt(loans[i], now)
        /\ OwedAt(loans[i], now) \in Nat
    BY <1>2, AccrueIs, EarnedFacts DEF SoundLoan
  <2>3. part = Least(amount, TotalOwed(Accrue(loans[i], now)))
    BY RepaysAlike DEF Repays!Least, Least, Repays!TotalOwed, TotalOwed
  <2> HIDE DEF part
  <2>4. QED
    BY <2>1, <2>2, <2>3 DEF Least
<1> HIDE DEF part
<1>4. \A j \in Loans :
        \/ loans'[j] = loans[j]
        \/ /\ IsOpen(loans[j])
           /\ \E x \in Nat : loans'[j] = ApplyRepayment(Accrue(loans[j], now), x)
  BY <1>1, <1>2, <1>3
<1>5. loans' = [j \in Loans |-> loans'[j]]
  BY <1>1, <1>2
<1>6. DebtsInv' /\ Lowered
  <2>1. DebtsInv /\ now' = now
    BY <1>1 DEF RepayInv
  <2>2. DebtsInv' /\ \A ls, at : Read(ls, at) => Read(ls, at)'
    BY <1>4, <1>5, <2>1, DebtsMove
  <2>3. QED
    BY <1>2, <2>1, <2>2 DEF Lowered
<1>7. RepayCallsInv' /\ FiguresInv'
  BY <1>1, <1>6, RepayCallsKept, FiguresKept
<1>8. QED
  BY <1>6, <1>7 DEF RepayInv

LEMMA PageRepays ==
  ASSUME RepaysAssumption, RepayInv,
         Repays!ReadLoans \/ Repays!ReadBalance \/ Repays!BringUpToDate
  PROVE  RepayInv'
<1>1. UNCHANGED <<now, loans, calls>>
  BY DEF Repays!ReadLoans, Repays!ReadBalance, Repays!BringUpToDate, Repays!chainVars
<1>2. DebtsInv' /\ Lowered
  BY <1>1, QuietStep
<1>3. RepayCallsInv'
  BY <1>1, <1>2, RepayCallsKept
<1>4. now \in Nat /\ clock \in Nat /\ clock <= now
  BY DEF RepayInv, DebtsInv, FiguresInv
<1>5. CASE Repays!ReadLoans
  <2> DEFINE ls == [i \in Repays!OpenLoans |-> loans[i]]
  <2>1. clock' = clock /\ (shown'.status = "ready" => shown'.loans = ls)
    BY <1>5 DEF Repays!ReadLoans, Repays!Unreachable
  <2>6. ls = [i \in DOMAIN ls |-> ls[i]]
    OBVIOUS
  <2>2. Read(ls, now)
    <3>1. Repays!OpenLoans \subseteq Loans /\ \A i \in Repays!OpenLoans : IsOpen(loans[i])
      BY RepaysAlike DEF Repays!OpenLoans
    <3>2. \A i \in Loans : SoundLoan(loans[i]) /\ loans[i].last_accrual_at <= now
      BY DEF RepayInv, DebtsInv
    <3>3. \A i \in Loans : OwesNoMore(loans[i], loans[i])
      <4>1. ASSUME NEW i \in Loans, NEW t \in Nat PROVE OwedAt(loans[i], t) \in Nat
        BY <3>2, OwedIs DEF SoundLoan
      <4>2. QED
        BY <4>1 DEF OwesNoMore
    <3>4. IsFiniteSet(Repays!OpenLoans) /\ Loans \subseteq Nat
      <4>1. IsFiniteSet(Loans) /\ Loans \subseteq Nat
        BY DEF RepaysAssumption, Repays!RepayingAssumption, Repays!IsFiniteSet, IsFiniteSet
      <4>2. Repays!OpenLoans \in SUBSET Loans
        BY <3>1
      <4>3. QED
        BY <4>1, <4>2, FS_Subset
    <3>5. QED
      BY <3>1, <3>2, <3>3, <3>4 DEF Read, SoundLoans
  <2> HIDE DEF ls
  <2>3. ASSUME shown'.status = "ready" PROVE Read(shown.loans, now)'
    BY <1>1, <2>1, <2>2, <2>3 DEF Read
  <2>4. FiguresInv'
    BY <1>1, <1>4, <2>1, <2>3, <2>6 DEF FiguresInv
  <2>5. QED
    BY <1>2, <1>3, <2>4 DEF RepayInv
<1>6. CASE Repays!ReadBalance
  <2>1. UNCHANGED <<shown, clock>>
    BY <1>6 DEF Repays!ReadBalance
  <2>2. QED
    BY <1>2, <1>3, <2>1, FiguresKept DEF RepayInv
<1>7. CASE Repays!BringUpToDate
  <2>1. clock' = now /\ shown' = shown
    BY <1>7 DEF Repays!BringUpToDate
  <2>2. ASSUME shown.status = "ready" PROVE Read(shown.loans, now)'
    BY <1>1, <2>1, <2>2 DEF Read, RepayInv, FiguresInv
  <2>3. FiguresInv'
    BY <1>1, <1>4, <2>1, <2>2 DEF FiguresInv, RepayInv
  <2>4. QED
    BY <1>2, <1>3, <2>3 DEF RepayInv
<1>8. QED
  BY <1>5, <1>6, <1>7

LEMMA RepaySteps ==
  ASSUME RepaysAssumption, RepayInv, [Repays!Next]_Repays!vars
  PROVE  RepayInv'
<1>1. CASE UNCHANGED Repays!vars
  <2>1. UNCHANGED <<now, loans, calls, shown, clock>>
    BY <1>1 DEF Repays!vars, Repays!chainVars, Repays!pageVars
  <2>2. DebtsInv' /\ Lowered
    BY <2>1, QuietStep
  <2>3. QED
    BY <2>1, <2>2, RepayCallsKept, FiguresKept DEF RepayInv
<1>2. ASSUME NEW m \in RewardMints, Repays!RevokeElsewhere(m) PROVE RepayInv'
  <2>1. UNCHANGED <<now, loans, calls, shown, clock>>
    BY <1>2 DEF Repays!RevokeElsewhere, Repays!pageVars
  <2>2. DebtsInv' /\ Lowered
    BY <2>1, QuietStep
  <2>3. QED
    BY <2>1, <2>2, RepayCallsKept, FiguresKept DEF RepayInv
<1>3. CASE Repays!Tick
  <2>1. now' = now + 1 /\ UNCHANGED <<loans, calls, shown, clock>>
    BY <1>3 DEF Repays!Tick, Repays!chainVars, Repays!pageVars
  <2>2. now \in Nat /\ \A i \in Loans : loans[i].last_accrual_at \in Nat
    BY SoundFields DEF RepayInv, DebtsInv, SoundLoan
  <2>3. DebtsInv'
    BY <2>1, <2>2 DEF RepayInv, DebtsInv
  <2>4. Lowered
    BY <2>1, <2>2 DEF Lowered, Read
  <2>5. QED
    BY <2>1, <2>3, <2>4, RepayCallsKept, FiguresKept DEF RepayInv
<1>4. CASE Repays!Next
  BY <1>2, <1>3, <1>4, ClickRepays, CallStepRepays, ConfirmRepays, LandRepays, SweepRepays,
     PageRepays DEF Repays!Next
<1>5. QED
  BY <1>1, <1>4

LEMMA RepayInductive == RepaysAssumption /\ Repays!Spec => []RepayInv
<1> SUFFICES ASSUME RepaysAssumption PROVE Repays!Spec => []RepayInv
  OBVIOUS
<1>1. Repays!Init => RepayInv
  BY RepayStarts
<1>2. RepayInv /\ [Repays!Next]_Repays!vars => RepayInv'
  BY RepaySteps
<1>3. QED
  BY <1>1, <1>2, PTL DEF Repays!Spec

\* Repaying everything closes every loan the page read, for any loans, rates and clock: what
\* is swept, accrued or repaid between the click and the slot only lowers what they owe.
THEOREM EverythingIsClosed ==
  RepaysAssumption /\ Repays!Spec => [][Repays!AllClosed]_Repays!vars
<1> SUFFICES ASSUME RepaysAssumption
             PROVE  Repays!Spec => [][Repays!AllClosed]_Repays!vars
  OBVIOUS
<1>1. ASSUME RepayInv, NEW c \in Calls, Repays!Land(c), calls[c].choice = EVERYTHING,
             now <= calls[c].at + MARGIN, NEW i \in DOMAIN calls[c].loans
      PROVE  ~Repays!IsOpen(loans'[i])
  <2> DEFINE run == calls[c]
             ls == run.loans
             l == loans[i]
             top == Ceiling(ls[i], run.at)
  <2>1. /\ RepayCallInv(run) /\ run # Repays!NoCall
        /\ loans' = [j \in Loans |->
             IF j \in Repays!Repaid(run)
               THEN Repays!ApplyRepayment(Repays!Accrue(loans[j], now), run.per_loan[j])
               ELSE loans[j]]
        /\ Repays!Repaid(run) \subseteq Repays!OpenLoans
    BY <1>1 DEF Repays!Land, RepayInv, RepayCallsInv
  <2>2. /\ run.at \in Nat /\ run.at <= now /\ SoundLoans(ls) /\ DOMAIN ls \subseteq Loans
        /\ ls[i].last_accrual_at <= run.at /\ OwesNoMore(l, ls[i])
        /\ SoundLoan(ls[i]) /\ ls[i] \in LifeType /\ ls[i].last_accrual_at \in Nat
        /\ run.per_loan = Allocation(ls, RepayAllAmount(ls, run.at), run.at)
    <3>1. Divided(run)
      BY <2>1 DEF RepayCallInv
    <3>2. Repays!AmountAt(ls, run.choice, run.at) = RepayAllAmount(ls, run.at)
      BY <1>1, <3>1, AmountIs DEF Divided, Read
    <3>3. SoundLoan(ls[i]) /\ ls[i] \in LifeType
      BY <3>1 DEF Divided, Read, SoundLoans, SoundLoan
    <3>4. ls[i].last_accrual_at \in Nat
      BY <3>3, SoundFields
    <3>5. QED
      BY <3>1, <3>2, <3>3, <3>4 DEF Divided, Read
  <2>3. run.per_loan[i] = top /\ top \in Nat \ {0} /\ DOMAIN run.per_loan = DOMAIN ls
    BY <2>2, AllocatesAll DEF RepaysAssumption
  <2>4. i \in Repays!Repaid(run) /\ i \in Loans
    BY <2>2, <2>3 DEF Repays!Repaid
  <2>5. IsOpen(l) /\ loans'[i] = ApplyRepayment(Accrue(l, now), top)
    BY <2>1, <2>3, <2>4, RepaysAlike DEF Repays!OpenLoans
  <2>6. SoundLoan(l) /\ l.last_accrual_at <= now /\ now \in Nat /\ l \in LifeType
    BY <1>1, <2>4 DEF RepayInv, DebtsInv, SoundLoan
  <2>7. OwedAt(l, now) <= top
    <3>1. OwedAt(l, now) <= OwedAt(ls[i], now)
      BY <2>2, <2>6 DEF OwesNoMore
    <3>2. run.at + MARGIN \in Nat /\ now <= run.at + MARGIN /\ ls[i].last_accrual_at <= now
      BY <1>1, <2>2, <2>6 DEF RepaysAssumption, ClientLoanAssumption
    <3>3. OwedAt(ls[i], now) <= OwedAt(ls[i], run.at + MARGIN)
      BY <2>2, <2>6, <3>2, OwedGrows
    <3>4. top = OwedAt(ls[i], run.at + MARGIN)
      BY DEF Ceiling
    <3>5. /\ OwedAt(l, now) \in Nat /\ OwedAt(ls[i], now) \in Nat
          /\ OwedAt(ls[i], run.at + MARGIN) \in Nat
      BY <2>2, <2>6, <3>2, OwedIs
    <3> HIDE DEF top, l, ls, run
    <3>6. QED
      BY <3>1, <3>3, <3>4, <3>5
  <2> HIDE DEF top, l, ls, run
  <2>8. ~IsOpen(loans'[i])
    BY <2>3, <2>5, <2>6, <2>7, RepaidIs
  <2>9. QED
    BY <2>8, RepaysAlike
<1>2. RepayInv => Repays!AllClosed
  BY <1>1 DEF Repays!AllClosed
<1>3. QED
  BY <1>2, RepayInductive, PTL

\* "An amount equal to the next payment shown repays exactly that payment": for any loans,
\* it is divided into the payments shown together and reaches no other loan, and no loan it
\* is for stays late.
THEOREM NextPaymentIsPaid ==
  RepaysAssumption /\ Repays!Spec => [][Repays!NextIsPaid]_Repays!vars
<1> SUFFICES ASSUME RepaysAssumption
             PROVE  Repays!Spec => [][Repays!NextIsPaid]_Repays!vars
  OBVIOUS
<1>1. ASSUME RepayInv, NEW c \in Calls, Repays!Land(c), calls[c].choice = NEXT_PAYMENT,
             now = calls[c].at,
             \A i \in DOMAIN calls[c].loans :
               /\ calls[c].loans[i] = loans[i]
               /\ Repays!Payment(calls[c].loans[i], now) <= Repays!Ceiling(calls[c].loans[i], now)
      PROVE  LET was == calls[c].loans
             IN  /\ Repays!SumFunction(calls[c].per_loan) = Repays!Figures(was, now).next
                 /\ \A i \in DOMAIN was :
                      IF i \in Repays!Together(was, now)
                        THEN Repays!IsOpen(loans'[i]) =>
                               /\ ~Repays!NextOf(loans'[i], now).late
                               /\ loans'[i].outstanding
                                    <= loans[i].outstanding
                                         - Repays!NextOf(loans[i], now).principal
                        ELSE loans'[i] = loans[i]
  <2> DEFINE run == calls[c]
             ls == run.loans
             parts == run.per_loan
             R == Repays!Repaid(run)
  <2>1. /\ RepayCallInv(run) /\ run # Repays!NoCall
        /\ loans' = [j \in Loans |->
             IF j \in R
               THEN Repays!ApplyRepayment(Repays!Accrue(loans[j], now), parts[j])
               ELSE loans[j]]
    BY <1>1 DEF Repays!Land, RepayInv, RepayCallsInv
  <2>2. /\ now \in Nat /\ SoundLoans(ls) /\ DOMAIN ls \subseteq Loans
        /\ parts = Allocation(ls, NextAmount(ls, now), now)
    <3>1. Divided(run)
      BY <2>1 DEF RepayCallInv
    <3>2. Repays!AmountAt(ls, run.choice, now) = NextAmount(ls, now)
      BY <1>1, <3>1, AmountIs DEF Divided, Read
    <3>3. QED
      BY <1>1, <3>1, <3>2 DEF Divided, Read
  <2>3. \A i \in DOMAIN ls : ls[i] = loans[i] /\ Payment(ls[i], now) <= Ceiling(ls[i], now)
    BY <1>1, RepaysAlike
  <2> HIDE DEF run, ls, R
  <2>4. /\ DOMAIN parts = DOMAIN ls
        /\ \A i \in DOMAIN ls :
             parts[i] = IF i \in Together(ls, now) THEN Payment(ls[i], now) ELSE 0
        /\ SumFunction(parts) = NextAmount(ls, now)
    BY <2>2, <2>3, DividesNext DEF RepaysAssumption
  <2>5. Repays!SumFunction(parts) = Repays!Figures(ls, now).next
    BY <2>4, RepaysAlike DEF Repays!Figures
  <2>6. ASSUME NEW i \in DOMAIN ls, i \in Together(ls, now), IsOpen(loans'[i])
        PROVE  /\ ~NextOf(loans'[i], now).late
               /\ loans'[i].outstanding <= loans[i].outstanding - NextOf(loans[i], now).principal
    <3> DEFINE l == loans[i]
    <3>1. /\ i \in Loans /\ SoundLoan(l) /\ l.last_accrual_at <= now /\ IsOpen(l) /\ ls[i] = l
      BY <1>1, <2>2, <2>3 DEF RepayInv, DebtsInv, SoundLoans
    <3>2. parts[i] = Payment(l, now) /\ Payment(l, now) \in Nat \ {0}
      BY <2>2, <2>4, <2>6, <3>1, NextIs
    <3>3. i \in R
      BY <2>4, <3>2 DEF R, Repays!Repaid
    <3>4. loans'[i] = ApplyRepayment(Accrue(l, now), Payment(l, now))
      BY <2>1, <3>1, <3>2, <3>3, RepaysAlike
    <3> HIDE DEF l, parts
    <3>5. /\ ~NextOf(loans'[i], now).late
          /\ loans'[i].outstanding <= l.outstanding - NextOf(l, now).principal
      BY <2>2, <2>6, <3>1, <3>4, PaymentCovers
    <3>6. QED
      BY <3>5 DEF l
  <2>7. ASSUME NEW i \in DOMAIN ls, i \notin Together(ls, now) PROVE loans'[i] = loans[i]
    <3>1. parts[i] = 0 /\ i \in Loans
      BY <2>2, <2>4, <2>7
    <3>2. i \notin R
      BY <3>1 DEF R, Repays!Repaid
    <3>3. QED
      BY <2>1, <3>1, <3>2
  <2> HIDE DEF parts
  <2>8. QED
    BY <2>5, <2>6, <2>7, RepaysAlike DEF ls, parts, run
<1>2. RepayInv => Repays!NextIsPaid
  BY <1>1 DEF Repays!NextIsPaid
<1>3. QED
  BY <1>2, RepayInductive, PTL

\* Whatever is chosen or typed, a button that cannot be pressed says why: there is no amount
\* the form would refuse without a word.
THEOREM RefusalsAreExplained ==
  RepaysAssumption /\ Repays!Spec => []Repays!DisabledIsExplained
<1> SUFFICES ASSUME RepaysAssumption
             PROVE  Repays!Spec => []Repays!DisabledIsExplained
  OBVIOUS
<1>1. ASSUME RepayInv, Repays!Formed, NEW choice \in Repays!Choices
      PROVE  Repays!CanSign(choice) \/ Repays!Notes(choice) # {}
  <2> DEFINE ls == shown.loans
             x == Repays!AmountAt(ls, choice, clock)
  <2>1. SoundLoans(ls) /\ clock \in Nat /\ DOMAIN ls # {}
    <3>1. Read(ls, now) /\ clock \in Nat /\ ls # <<>>
      BY <1>1 DEF RepayInv, FiguresInv, Repays!Formed
    <3>2. ls = [i \in DOMAIN ls |-> ls[i]]
      BY <1>1 DEF RepayInv, FiguresInv, Repays!Formed
    <3>3. DOMAIN ls # {}
      BY <3>1, <3>2
    <3>4. QED
      BY <3>1, <3>3 DEF Read
  <2>2. x > 0
    BY <2>1, AmountIs
  <2>3. CASE Repays!Busy
    <3>1. stage # "idle"
      BY <2>3 DEF Repays!Busy
    <3>2. stage \in Repays!Notes(choice)
      BY <3>1 DEF Repays!Notes
    <3>3. QED
      BY <3>2
  <2>4. CASE ~Repays!Allocates(ls, x, clock)
    <3>1. "over-debt" \in Repays!Notes(choice)
      BY <2>2, <2>4 DEF Repays!Notes
    <3>2. QED
      BY <3>1
  <2>5. CASE Repays!Allocates(ls, x, clock) /\ Repays!Short(choice)
    <3>1. "short" \in Repays!Notes(choice)
      BY <2>5 DEF Repays!Notes
    <3>2. QED
      BY <3>1
  <2>6. CASE ~Repays!Busy /\ Repays!Allocates(ls, x, clock) /\ ~Repays!Short(choice)
    BY <1>1, <2>6 DEF Repays!CanSign
  <2>7. QED
    BY <2>3, <2>4, <2>5, <2>6
<1>2. RepayInv => Repays!DisabledIsExplained
  BY <1>1 DEF Repays!DisabledIsExplained
<1>3. QED
  BY <1>2, RepayInductive, PTL

\* The allowances are sized by what the click left of the loans on that mint.
OnMint(run, m) == {i \in DOMAIN run.loans : run.loans[i].reward_mint = m}

LeftAfter(run, i) ==
  CeilingInTerm(LeftOf(run.loans[i], run.per_loan[i], run.at), run.at)

LeftUnder(run, m) == SumFunction([i \in OnMint(run, m) |-> LeftAfter(run, i)])

DebtUnder(run, m) ==
  DebtCeilings([i \in OnMint(run, m) |-> run.loans[i]], run.at)

Permitted(run, m) ==
  LET p == run.permits[m]
  IN  /\ p.kind \in {"keep", "revoke", "set"}
      /\ p.kind = "set" =>
           /\ p.allowance \in Nat
           /\ \E i \in OnMint(run, m) : run.per_loan[i] # 0
           /\ p.rate \in Rates \union {NoRate}
           /\ p.rate # NoRate => p.allowance = RewardAllowance(LeftUnder(run, m), p.rate)
           /\ p.rate = NoRate =>
                /\ p.had \in Nat
                /\ p.allowance = (p.had * LeftUnder(run, m)) \div DebtUnder(run, m)

AllowancesInv ==
  /\ rewards = [m \in RewardMints |-> rewards[m]]
  /\ \A m \in RewardMints : rewards[m].allowance \in Nat
  /\ \A c \in Calls : calls[c] # Repays!NoCall /\ calls[c].step # "reading" =>
       \A m \in RewardMints : Permitted(calls[c], m)

\* The sums the allowances come from.
LEMMA UnderIs ==
  ASSUME RepaysAssumption, RepayInv, NEW run, RepayCallInv(run), run # Repays!NoCall,
         NEW m
  PROVE  /\ LeftUnder(run, m) \in Nat /\ DebtUnder(run, m) \in Nat
         /\ OnMint(run, m) # {} => DebtUnder(run, m) > 0
<1> DEFINE C == OnMint(run, m)
           f == [i \in C |-> LeftAfter(run, i)]
           g == [i \in C |-> CeilingInTerm(run.loans[i], run.at)]
<1>1. /\ run.at \in Nat /\ SoundLoans(run.loans) /\ C \in SUBSET DOMAIN run.loans
      /\ \A i \in DOMAIN run.loans : /\ SoundLoan(run.loans[i]) /\ IsOpen(run.loans[i])
                                      /\ run.loans[i].last_accrual_at <= run.at
                                      /\ run.per_loan[i] \in Nat
  BY CallRepays DEF RepayCallInv, Divided, Read, SoundLoans, OnMint
<1>2. IsFiniteSet(C)
  BY <1>1, FS_Subset DEF SoundLoans
<1>3. LeftUnder(run, m) = SumFunctionOnSet(f, C) /\ DebtUnder(run, m) = SumFunctionOnSet(g, C)
  BY DEF LeftUnder, DebtUnder, DebtCeilings, SumFunction
<1>4. \A i \in C : f[i] \in Nat /\ g[i] \in Nat \ {0}
  <2>1. ASSUME NEW i \in C PROVE LeftAfter(run, i) \in Nat
                                 /\ CeilingInTerm(run.loans[i], run.at) \in Nat \ {0}
    <3> DEFINE l == run.loans[i]
               x == run.per_loan[i]
               after == IF x > 0 THEN ApplyRepayment(Accrue(l, run.at), x) ELSE l
    <3>1. /\ SoundLoan(l) /\ IsOpen(l) /\ l.last_accrual_at <= run.at /\ x \in Nat
          /\ run.at \in Nat /\ run.at <= run.at
      BY <1>1
    <3> HIDE DEF l, x
    <3>2. /\ CeilingInTerm(LeftOf(l, x, run.at), run.at) \in Nat
          /\ CeilingInTerm(l, run.at) \in Nat \ {0}
      BY <3>1, LeftWithin
    <3>3. QED
      BY <3>2 DEF l, x, LeftAfter
  <2>2. QED
    BY <2>1
<1> HIDE DEF f, g
<1>5. /\ SumFunctionOnSet(f, C) \in Nat /\ SumFunctionOnSet(g, C) \in Nat
      /\ \A i \in C : g[i] <= SumFunctionOnSet(g, C)
  BY <1>2, <1>4, SumOfNaturals
<1>6. ASSUME C # {} PROVE SumFunctionOnSet(g, C) > 0
  BY <1>4, <1>5, <1>6
<1>7. QED
  BY <1>3, <1>5, <1>6 DEF C

\* delegationAfterRepayment, in those sums.
LEMMA DelegationIs ==
  ASSUME RepaysAssumption, RepayInv, AllowancesInv, NEW c \in Calls,
         calls[c] # Repays!NoCall, NEW m \in RewardMints, NEW rate \in Rates \union {NoRate},
         NEW r, r.permits[m] = Repays!Delegation(calls[c], m, rate),
         r.loans = calls[c].loans, r.per_loan = calls[c].per_loan, r.at = calls[c].at
  PROVE  Permitted(r, m)
<1> DEFINE run == calls[c]
           C == OnMint(run, m)
           left == LeftUnder(run, m)
           debtNow == DebtUnder(run, m)
           had == rewards[m].allowance
           set == IF rate = NoRate THEN (had * left) \div debtNow
                  ELSE RewardAllowance(left, rate)
           p == Repays!Delegation(run, m, rate)
<1>1. RepayCallInv(run) /\ run # Repays!NoCall
  BY DEF RepayInv, RepayCallsInv
<1>2. left \in Nat /\ debtNow \in Nat /\ (C # {} => debtNow > 0) /\ had \in Nat
  BY <1>1, UnderIs DEF AllowancesInv
<1>3. /\ \A i : Repays!CeilingLeft(run, i) = LeftAfter(run, i)
      /\ \A f, t : Repays!DebtCeilings(f, t) = DebtCeilings(f, t)
      /\ \A x, y : Repays!RewardAllowance(x, y) = RewardAllowance(x, y)
  <2>1. \A l, t : Repays!CeilingInTerm(l, t) = CeilingInTerm(l, t)
    BY RepaysAlike DEF Repays!CeilingInTerm, CeilingInTerm
  <2>2. \A l, x, t : Repays!LeftOf(l, x, t) = LeftOf(l, x, t)
    BY DEF Repays!LeftOf, LeftOf, Repays!AccrueTo, AccrueTo, Repays!Least, Least
  <2>3. QED
    BY <2>1, <2>2, RepaysAlike DEF Repays!CeilingLeft, LeftAfter, Repays!DebtCeilings,
       DebtCeilings, Repays!RewardAllowance, RewardAllowance
<1>4. /\ Repays!SumFunction([i \in C |-> Repays!CeilingLeft(run, i)]) = left
      /\ Repays!DebtCeilings([i \in C |-> run.loans[i]], run.at) = debtNow
  BY <1>3, RepaysAlike DEF LeftUnder, DebtUnder
<1>5. p = IF \/ ~rewards[m].ours
             \/ rewards[m].allowance = 0
             \/ \A i \in C : run.per_loan[i] = 0
            THEN Repays!Keep
            ELSE IF left = 0 \/ set = 0
                   THEN Repays!Revoke
                   ELSE [kind |-> "set", allowance |-> set, rate |-> rate, had |-> had]
  BY <1>3, <1>4 DEF Repays!Delegation, OnMint
<1>6. /\ OnMint(r, m) = C /\ LeftUnder(r, m) = left /\ DebtUnder(r, m) = debtNow
      /\ r.permits[m] = p /\ \A i : r.per_loan[i] = run.per_loan[i]
  BY DEF OnMint, LeftUnder, DebtUnder, LeftAfter
<1> HIDE DEF p, C, left, debtNow, had, run
<1>7. CASE p = Repays!Keep \/ p = Repays!Revoke
  BY <1>6, <1>7 DEF Permitted, Repays!Keep, Repays!Revoke
<1>8. CASE ~(p = Repays!Keep \/ p = Repays!Revoke)
  <2>1. /\ p = [kind |-> "set", allowance |-> set, rate |-> rate, had |-> had]
        /\ \E i \in C : run.per_loan[i] # 0
    BY <1>5, <1>8
  <2>2. set \in Nat
    <3>1. CASE rate = NoRate
      <4>1. had * left \in Nat /\ debtNow \in Nat \ {0}
        BY <1>2, <2>1, Multiply
      <4>2. QED
        BY <3>1, <4>1, DivMod
    <3>2. CASE rate # NoRate
      <4>1. rate \in Nat \ {0}
        BY <3>2 DEF RepaysAssumption, Repays!RepayingAssumption
      <4>2. QED
        BY <1>2, <3>2, <4>1, AllowanceIsWithin DEF RepaysAssumption
    <3>3. QED
      BY <3>1, <3>2
  <2>3. /\ rate # NoRate => set = RewardAllowance(left, rate)
        /\ rate = NoRate => set = (had * left) \div debtNow
    OBVIOUS
  <2> HIDE DEF set
  <2>4. /\ p.kind = "set" /\ p.allowance = set /\ p.rate = rate /\ p.had = had
    BY <2>1
  <2>5. QED
    BY <1>2, <1>6, <2>1, <2>2, <2>3, <2>4 DEF Permitted
<1>9. QED
  BY <1>7, <1>8

\* What a call may become without its allowances being touched.
Follows(r, run) ==
  \/ r = Repays!NoCall
  \/ r.step = "reading"
  \/ /\ run # Repays!NoCall /\ run.step # "reading"
     /\ r.permits = run.permits /\ r.loans = run.loans
     /\ r.per_loan = run.per_loan /\ r.at = run.at

LEMMA PermitsKept ==
  ASSUME AllowancesInv, calls' = [c \in Calls |-> calls'[c]],
         \A c \in Calls : Follows(calls'[c], calls[c]),
         rewards' = [m \in RewardMints |-> rewards'[m]],
         \A m \in RewardMints : rewards'[m].allowance \in Nat
  PROVE  AllowancesInv'
<1>1. ASSUME NEW c \in Calls, calls'[c] # Repays!NoCall, calls'[c].step # "reading",
             NEW m \in RewardMints
      PROVE  Permitted(calls'[c], m)
  <2> DEFINE r == calls'[c]
             run == calls[c]
  <2>1. /\ r.permits = run.permits /\ r.loans = run.loans
        /\ r.per_loan = run.per_loan /\ r.at = run.at
        /\ run # Repays!NoCall /\ run.step # "reading"
    BY <1>1 DEF Follows
  <2>2. Permitted(run, m)
    BY <2>1 DEF AllowancesInv
  <2> HIDE DEF r, run
  <2>3. /\ OnMint(r, m) = OnMint(run, m) /\ LeftUnder(r, m) = LeftUnder(run, m)
        /\ DebtUnder(r, m) = DebtUnder(run, m)
    BY <2>1 DEF OnMint, LeftUnder, DebtUnder, LeftAfter
  <2>4. Permitted(r, m)
    BY <2>1, <2>2, <2>3 DEF Permitted
  <2>5. QED
    BY <2>4 DEF r
<1>2. \A c \in Calls : calls[c]' # Repays!NoCall /\ calls[c]'.step # "reading"
        => \A m \in RewardMints : Permitted(calls[c], m)'
  BY <1>1 DEF Permitted, OnMint, LeftUnder, DebtUnder, LeftAfter
<1>3. QED
  BY <1>2 DEF AllowancesInv

LEMMA AllowancesStart ==
  ASSUME RepaysAssumption, Repays!Init
  PROVE  AllowancesInv
<1> DEFINE open(m) == {j \in Loans : loans[j].reward_mint = m}
           debts(m) == [i \in open(m) |-> CeilingInTerm(loans[i], START)]
<1>1. PICK rate \in Rates :
        rewards = [m \in RewardMints |->
          [ ours |-> TRUE,
            allowance |-> Repays!RewardAllowance(
              Repays!DebtCeilings([i \in open(m) |-> loans[i]], START), rate) ]]
  BY DEF Repays!Init
<1>2. RepayInv /\ now = START /\ START \in Nat /\ rate \in Nat \ {0} /\ IsFiniteSet(Loans)
  BY RepayStarts DEF Repays!Init, RepaysAssumption, Repays!RepayingAssumption,
     Repays!IsFiniteSet, IsFiniteSet
<1>3. /\ \A f, t : Repays!DebtCeilings(f, t) = DebtCeilings(f, t)
      /\ \A x, y : Repays!RewardAllowance(x, y) = RewardAllowance(x, y)
  <2>1. \A l, t : Repays!CeilingInTerm(l, t) = CeilingInTerm(l, t)
    BY RepaysAlike DEF Repays!CeilingInTerm, CeilingInTerm
  <2>2. QED
    BY <2>1, RepaysAlike DEF Repays!DebtCeilings, DebtCeilings, Repays!RewardAllowance,
       RewardAllowance
<1>4. ASSUME NEW m \in RewardMints PROVE rewards[m].allowance \in Nat
  <2>1. \A i \in open(m) : debts(m)[i] \in Nat
    <3>1. ASSUME NEW i \in Loans PROVE CeilingInTerm(loans[i], START) \in Nat
      <4> DEFINE end == IF loans[i].due_at > START THEN loans[i].due_at ELSE START
      <4>1. loans[i] \in LifeType
        BY <1>2 DEF RepayInv, DebtsInv, SoundLoan
      <4>2. loans[i].due_at \in Nat /\ end \in Nat
        BY <1>2, <4>1, SoundFields
      <4>3. CeilingInTerm(loans[i], START) = IF loans[i].outstanding = 0 THEN 0
                                             ELSE OwedAt(loans[i], end)
        BY DEF CeilingInTerm
      <4> HIDE DEF end
      <4>4. OwedAt(loans[i], end) \in Nat
        BY <4>1, <4>2, OwedIs
      <4>5. QED
        BY <4>3, <4>4
    <3>2. QED
      BY <3>1
  <2>2. IsFiniteSet(open(m))
    BY <1>2, FS_Subset
  <2>3. DebtCeilings([i \in open(m) |-> loans[i]], START) = SumFunctionOnSet(debts(m), open(m))
    BY DEF DebtCeilings, SumFunction
  <2>4. rewards[m].allowance
          = RewardAllowance(DebtCeilings([i \in open(m) |-> loans[i]], START), rate)
    BY <1>1, <1>3
  <2> HIDE DEF debts, open
  <2>5. SumFunctionOnSet(debts(m), open(m)) \in Nat
    BY <2>1, <2>2, SumOfNaturals
  <2>6. QED
    BY <1>2, <2>3, <2>4, <2>5, AllowanceIsWithin DEF RepaysAssumption
<1>5. calls = [c \in Calls |-> Repays!NoCall]
  BY DEF Repays!Init
<1>6. QED
  BY <1>1, <1>4, <1>5 DEF AllowancesInv

LEMMA PrepareAllows ==
  ASSUME RepaysAssumption, RepayInv, AllowancesInv, NEW c \in Calls, Repays!Prepare(c)
  PROVE  AllowancesInv'
<1>1. PICK rate \in [RewardMints -> Rates \union {NoRate}] :
        calls' = [calls EXCEPT
          ![c].step = "signing",
          ![c].permits = [m \in RewardMints |-> Repays!Delegation(calls[c], m, rate[m])]]
  BY DEF Repays!Prepare
<1> DEFINE r == [calls[c] EXCEPT
                  !.step = "signing",
                  !.permits = [m \in RewardMints |-> Repays!Delegation(calls[c], m, rate[m])]]
<1>2. calls[c] # Repays!NoCall /\ rewards' = rewards /\ calls = [d \in Calls |-> calls[d]]
  BY DEF Repays!Prepare, Repays!chainVars, RepayInv, RepayCallsInv
<1>3. calls' = [d \in Calls |-> IF d = c THEN r ELSE calls[d]]
  BY <1>1, <1>2
<1>4. /\ r.loans = calls[c].loans /\ r.per_loan = calls[c].per_loan /\ r.at = calls[c].at
      /\ r.permits = [m \in RewardMints |-> Repays!Delegation(calls[c], m, rate[m])]
  BY <1>2 DEF RepayInv, RepayCallsInv, RepayCallInv, CallShape
<1> HIDE DEF r
<1>5. \A m \in RewardMints : Permitted(r, m)
  <2>1. ASSUME NEW m \in RewardMints PROVE Permitted(r, m)
    <3>1. r.permits[m] = Repays!Delegation(calls[c], m, rate[m])
          /\ rate[m] \in Rates \union {NoRate}
      BY <1>4
    <3>2. QED
      BY <1>2, <1>4, <3>1, DelegationIs
  <2>2. QED
    BY <2>1
<1>6. \A d \in Calls : calls'[d] # Repays!NoCall /\ calls'[d].step # "reading"
        => \A m \in RewardMints : Permitted(calls'[d], m)
  BY <1>3, <1>5 DEF AllowancesInv
<1>7. \A d \in Calls : calls[d]' # Repays!NoCall /\ calls[d]'.step # "reading"
        => \A m \in RewardMints : Permitted(calls[d], m)'
  BY <1>6 DEF Permitted, OnMint, LeftUnder, DebtUnder, LeftAfter
<1>8. QED
  BY <1>2, <1>3, <1>7 DEF AllowancesInv

LEMMA CallStepAllows ==
  ASSUME RepaysAssumption, RepayInv, AllowancesInv, NEW c \in Calls,
         \/ \E choice \in Repays!Choices : Repays!Click(c, choice)
         \/ Repays!Send(c) \/ Repays!Fail(c) \/ Repays!Expire(c) \/ Repays!Confirm(c)
  PROVE  AllowancesInv'
<1>1. /\ rewards' = rewards /\ calls = [d \in Calls |-> calls[d]]
      /\ \A d \in Calls : calls[d] = Repays!NoCall \/ CallShape(calls[d])
  BY DEF Repays!Click, Repays!Send, Repays!Fail, Repays!Expire, Repays!Confirm,
         Repays!chainVars, RepayInv, RepayCallsInv, RepayCallInv
<1>2. ASSUME NEW r, calls' = [calls EXCEPT ![c] = r], Follows(r, calls[c])
      PROVE  AllowancesInv'
  <2>1. calls' = [d \in Calls |-> IF d = c THEN r ELSE calls[d]]
    BY <1>1, <1>2
  <2>2. \A d \in Calls : Follows(calls'[d], calls[d])
    BY <1>2, <2>1 DEF Follows
  <2>3. QED
    BY <1>1, <2>1, <2>2, PermitsKept DEF AllowancesInv
<1>3. ASSUME NEW choice \in Repays!Choices, Repays!Click(c, choice) PROVE AllowancesInv'
  <2> DEFINE r == [ step |-> "reading", mounted |-> TRUE, choice |-> choice, at |-> now,
                    loans |-> shown.loans,
                    per_loan |-> Repays!Allocation(
                      shown.loans, Repays!AmountAt(shown.loans, choice, now), now),
                    permits |-> <<>> ]
  <2>1. calls' = [calls EXCEPT ![c] = r]
    BY <1>3 DEF Repays!Click
  <2>2. r.step = "reading"
    OBVIOUS
  <2> HIDE DEF r
  <2>3. QED
    BY <1>2, <2>1, <2>2 DEF Follows
<1>4. ASSUME NEW s, calls' = [calls EXCEPT ![c].step = s],
             calls[c] # Repays!NoCall, calls[c].step # "reading"
      PROVE  AllowancesInv'
  <2> DEFINE r == [calls[c] EXCEPT !.step = s]
  <2>1. calls' = [calls EXCEPT ![c] = r]
    BY <1>4
  <2>2. /\ r.permits = calls[c].permits /\ r.loans = calls[c].loans
        /\ r.per_loan = calls[c].per_loan /\ r.at = calls[c].at
    BY <1>1, <1>4 DEF CallShape
  <2> HIDE DEF r
  <2>3. Follows(r, calls[c])
    BY <1>4, <2>2 DEF Follows
  <2>4. QED
    BY <1>2, <2>1, <2>3
<1>5. ASSUME calls' = [calls EXCEPT ![c] = Repays!NoCall] PROVE AllowancesInv'
  BY <1>2, <1>5 DEF Follows
<1>6. CASE Repays!Send(c)
  <2>1. /\ calls' = [calls EXCEPT ![c].step = "sent"]
        /\ calls[c] # Repays!NoCall /\ calls[c].step = "signing"
    BY <1>6 DEF Repays!Send
  <2>2. QED
    BY <1>4, <2>1
<1>7. CASE Repays!Fail(c)
  <2>1. \/ calls' = [calls EXCEPT ![c] = Repays!NoCall]
        \/ /\ calls' = [calls EXCEPT ![c].step = "adrift"]
           /\ calls[c] # Repays!NoCall /\ calls[c].step = "sent"
    BY <1>7 DEF Repays!Fail
  <2>2. QED
    BY <1>4, <1>5, <2>1
<1>8. CASE Repays!Expire(c)
  BY <1>5, <1>8 DEF Repays!Expire
<1>9. CASE Repays!Confirm(c)
  <2>1. calls' = [k \in Calls |->
          IF k = c THEN Repays!NoCall
          ELSE IF calls[k] = Repays!NoCall THEN Repays!NoCall
          ELSE [calls[k] EXCEPT !.mounted = FALSE]]
    BY <1>9 DEF Repays!Confirm
  <2>2. ASSUME NEW d \in Calls PROVE Follows(calls'[d], calls[d])
    <3>1. CASE d = c \/ calls[d] = Repays!NoCall
      BY <2>1, <3>1 DEF Follows
    <3>2. CASE d # c /\ calls[d] # Repays!NoCall
      <4> DEFINE r == [calls[d] EXCEPT !.mounted = FALSE]
      <4>1. calls'[d] = r
        BY <2>1, <3>2
      <4>2. /\ r.permits = calls[d].permits /\ r.loans = calls[d].loans
            /\ r.per_loan = calls[d].per_loan /\ r.at = calls[d].at /\ r.step = calls[d].step
        BY <1>1, <3>2 DEF CallShape
      <4> HIDE DEF r
      <4>3. QED
        BY <3>2, <4>1, <4>2 DEF Follows
    <3>3. QED
      BY <3>1, <3>2
  <2>3. calls' = [d \in Calls |-> calls'[d]]
    BY <2>1
  <2>4. QED
    BY <1>1, <2>2, <2>3, PermitsKept DEF AllowancesInv
<1>10. QED
  BY <1>3, <1>6, <1>7, <1>8, <1>9

LEMMA LandAllows ==
  ASSUME RepaysAssumption, RepayInv, AllowancesInv, NEW c \in Calls, Repays!Land(c)
  PROVE  AllowancesInv'
<1> DEFINE run == calls[c]
           r == IF run.step = "sent" THEN [run EXCEPT !.step = "landed"] ELSE Repays!NoCall
<1>1. /\ run # Repays!NoCall /\ run.step \in {"sent", "adrift"}
      /\ calls = [d \in Calls |-> calls[d]] /\ CallShape(run)
      /\ rewards' = [m \in RewardMints |->
           CASE run.permits[m].kind = "keep" -> rewards[m]
             [] run.permits[m].kind = "revoke" -> [ours |-> FALSE, allowance |-> 0]
             [] OTHER -> [ours |-> TRUE, allowance |-> run.permits[m].allowance]]
      /\ calls' = [calls EXCEPT ![c] = r]
  BY DEF Repays!Land, RepayInv, RepayCallsInv, RepayCallInv
<1>2. \A m \in RewardMints : Permitted(run, m)
  BY <1>1 DEF AllowancesInv
<1>3. ASSUME NEW m \in RewardMints PROVE rewards'[m].allowance \in Nat
  <2> DEFINE p == run.permits[m]
  <2>1. p.kind \in {"keep", "revoke", "set"} /\ (p.kind = "set" => p.allowance \in Nat)
    BY <1>2 DEF Permitted
  <2>2. rewards'[m] = CASE p.kind = "keep" -> rewards[m]
                        [] p.kind = "revoke" -> [ours |-> FALSE, allowance |-> 0]
                        [] OTHER -> [ours |-> TRUE, allowance |-> p.allowance]
    BY <1>1
  <2> HIDE DEF p
  <2>3. CASE p.kind = "keep"
    BY <2>2, <2>3 DEF AllowancesInv
  <2>4. CASE p.kind = "revoke"
    BY <2>2, <2>4
  <2>5. CASE p.kind = "set"
    BY <2>1, <2>2, <2>5
  <2>6. QED
    BY <2>1, <2>3, <2>4, <2>5
<1>4. \A d \in Calls : Follows(calls'[d], calls[d])
  <2>1. Follows(r, run)
    <3>1. CASE run.step = "sent"
      <4> DEFINE s == [run EXCEPT !.step = "landed"]
      <4>1. r = s
        BY <3>1
      <4>2. /\ s.permits = run.permits /\ s.loans = run.loans
            /\ s.per_loan = run.per_loan /\ s.at = run.at
        BY <1>1 DEF CallShape
      <4> HIDE DEF s, r, run
      <4>3. QED
        BY <1>1, <4>1, <4>2 DEF Follows
    <3>2. CASE run.step # "sent"
      BY <3>2 DEF Follows
    <3>3. QED
      BY <3>1, <3>2
  <2> HIDE DEF r
  <2>2. calls' = [d \in Calls |-> IF d = c THEN r ELSE calls[d]]
    BY <1>1
  <2>3. QED
    BY <2>1, <2>2 DEF Follows
<1> HIDE DEF r, run
<1>5. /\ calls' = [d \in Calls |-> calls'[d]] /\ rewards' = [m \in RewardMints |-> rewards'[m]]
  BY <1>1
<1>6. QED
  BY <1>3, <1>4, <1>5, PermitsKept

LEMMA ElsewhereAllows ==
  ASSUME RepaysAssumption, RepayInv, AllowancesInv,
         \/ \E i \in Loans, amount \in SweepAmounts, rate \in SweepRates :
              Repays!Sweep(i, amount, rate)
         \/ \E m \in RewardMints : Repays!RevokeElsewhere(m)
  PROVE  AllowancesInv'
<1>1. /\ calls' = calls /\ calls = [d \in Calls |-> calls[d]]
      /\ rewards = [m \in RewardMints |-> rewards[m]]
      /\ \A m \in RewardMints : rewards[m].allowance \in Nat
  BY DEF Repays!Sweep, Repays!RevokeElsewhere, Repays!pageVars, RepayInv, RepayCallsInv,
         AllowancesInv
<1>2. ASSUME NEW m \in RewardMints, NEW next, next.allowance \in Nat,
             rewards' = [rewards EXCEPT ![m] = next]
      PROVE  AllowancesInv'
  <2>1. rewards' = [n \in RewardMints |-> IF n = m THEN next ELSE rewards[n]]
    BY <1>1, <1>2
  <2>2. \A n \in RewardMints : rewards'[n].allowance \in Nat
    BY <1>1, <1>2, <2>1
  <2>3. rewards' = [n \in RewardMints |-> rewards'[n]]
    BY <2>1
  <2>4. \A d \in Calls : Follows(calls'[d], calls[d])
    BY <1>1 DEF Follows
  <2>5. calls' = [d \in Calls |-> calls'[d]]
    BY <1>1
  <2>6. QED
    BY <2>2, <2>3, <2>4, <2>5, PermitsKept
<1>3. ASSUME NEW i \in Loans, NEW amount \in SweepAmounts, NEW rate \in SweepRates,
             Repays!Sweep(i, amount, rate)
      PROVE  AllowancesInv'
  <2> DEFINE m == loans[i].reward_mint
             part == Repays!Least(amount, Repays!TotalOwed(Repays!Accrue(loans[i], now)))
             tokens == Repays!DivCeil(part * RATE_PER, rate)
             next == [ ours |-> tokens < rewards[m].allowance,
                          allowance |-> rewards[m].allowance - tokens ]
  <2>1. tokens <= rewards[m].allowance /\ rewards' = [rewards EXCEPT ![m] = next]
    BY <1>3 DEF Repays!Sweep
  <2>2. SoundLoan(loans[i]) /\ m \in RewardMints /\ now \in Nat
        /\ loans[i].last_accrual_at <= now
    BY DEF RepayInv, DebtsInv, SoundLoan, LifeType
  <2>3. part \in Nat
    <3>1. amount \in Nat
      BY DEF RepaysAssumption, Repays!RepayingAssumption
    <3>2. /\ TotalOwed(Accrue(loans[i], now)) = OwedAt(loans[i], now)
          /\ OwedAt(loans[i], now) \in Nat
      BY <2>2, AccrueIs, EarnedFacts DEF SoundLoan
    <3>3. part = Least(amount, TotalOwed(Accrue(loans[i], now)))
      BY RepaysAlike DEF Repays!Least, Least, Repays!TotalOwed, TotalOwed
    <3> HIDE DEF part
    <3>4. QED
      BY <3>1, <3>2, <3>3 DEF Least
  <2>4. tokens \in Nat
    <3>1. rate \in Nat \ {0} /\ RATE_PER \in Nat
      BY DEF RepaysAssumption, Repays!RepayingAssumption, ClientLoanAssumption
    <3> HIDE DEF part
    <3>2. part * RATE_PER \in Nat
      BY <2>3, <3>1, Multiply
    <3>3. tokens = DivCeil(part * RATE_PER, rate)
      BY DEF Repays!DivCeil, DivCeil
    <3>4. QED
      BY <3>1, <3>2, <3>3, RoundedUp
  <2> HIDE DEF tokens
  <2>5. next.allowance \in Nat
    <3>1. rewards[m].allowance \in Nat
      BY <1>1, <2>2
    <3> HIDE DEF m
    <3>2. QED
      BY <2>1, <2>4, <3>1
  <2> HIDE DEF next, m
  <2>6. QED
    BY <1>2, <2>1, <2>2, <2>5
<1>4. ASSUME NEW m \in RewardMints, Repays!RevokeElsewhere(m) PROVE AllowancesInv'
  <2>1. rewards' = [rewards EXCEPT ![m] = [ours |-> FALSE, allowance |-> 0]]
    BY <1>4 DEF Repays!RevokeElsewhere
  <2> DEFINE next == [ours |-> FALSE, allowance |-> 0]
  <2>2. next.allowance \in Nat
    OBVIOUS
  <2>3. QED
    BY <1>2, <2>1, <2>2
<1>5. QED
  BY <1>3, <1>4

LEMMA AllowanceSteps ==
  ASSUME RepaysAssumption, RepayInv, AllowancesInv, [Repays!Next]_Repays!vars
  PROVE  AllowancesInv'
<1>1. ASSUME UNCHANGED <<calls, rewards>> PROVE AllowancesInv'
  <2>1. \A d \in Calls : Follows(calls'[d], calls[d])
    BY <1>1 DEF Follows
  <2>2. calls' = [d \in Calls |-> calls'[d]] /\ rewards' = [m \in RewardMints |-> rewards'[m]]
        /\ \A m \in RewardMints : rewards'[m].allowance \in Nat
    BY <1>1 DEF RepayInv, RepayCallsInv, AllowancesInv
  <2>3. QED
    BY <2>1, <2>2, PermitsKept
<1>2. CASE UNCHANGED Repays!vars
  BY <1>1, <1>2 DEF Repays!vars, Repays!chainVars, Repays!pageVars
<1>3. CASE Repays!ReadLoans \/ Repays!ReadBalance \/ Repays!BringUpToDate \/ Repays!Tick
  BY <1>1, <1>3 DEF Repays!ReadLoans, Repays!ReadBalance, Repays!BringUpToDate, Repays!Tick,
     Repays!chainVars, Repays!pageVars
<1>4. CASE Repays!Next
  BY <1>3, <1>4, PrepareAllows, CallStepAllows, LandAllows, ElsewhereAllows DEF Repays!Next
<1>5. QED
  BY <1>2, <1>4

LEMMA AllowancesInductive == RepaysAssumption /\ Repays!Spec => [](RepayInv /\ AllowancesInv)
<1> SUFFICES ASSUME RepaysAssumption
             PROVE  Repays!Spec => [](RepayInv /\ AllowancesInv)
  OBVIOUS
<1>1. Repays!Init => RepayInv /\ AllowancesInv
  BY RepayStarts, AllowancesStart
<1>2. RepayInv /\ AllowancesInv /\ [Repays!Next]_Repays!vars => (RepayInv /\ AllowancesInv)'
  BY RepaySteps, AllowanceSteps
<1>3. QED
  BY <1>1, <1>2, PTL DEF Repays!Spec

\* A share of what was allowed is within the debt that is left wherever all of it was within
\* the debt there was.
LEMMA ShareIsWithin ==
  ASSUME NEW had \in Nat, NEW left \in Nat, NEW whole \in Nat \ {0}, NEW rate \in Nat,
         NEW per \in Nat, had * rate <= whole * per
  PROVE  ((had * left) \div whole) * rate <= left * per
<1> DEFINE x == had * left
           q == x \div whole
<1>1. x \in Nat /\ had * rate \in Nat /\ whole * per \in Nat
  BY Multiply
<1>2. q \in Nat /\ q * whole <= x
  <2> HIDE DEF x
  <2>1. QED
    BY <1>1, DivMod, Division
<1> HIDE DEF q, x
<1>3. q * whole * rate <= x * rate
  <2>1. q * whole \in Nat
    BY <1>2, Multiply
  <2>2. QED
    BY <1>1, <1>2, <2>1, Multiply
<1>4. x * rate = had * rate * left
  <2>1. x * rate = left * had * rate
    BY Multiply DEF x
  <2>2. left * had * rate = left * (had * rate)
    BY Multiply
  <2>3. left * (had * rate) = had * rate * left
    BY <1>1, Multiply
  <2>4. QED
    BY <2>1, <2>2, <2>3
<1>5. had * rate * left <= whole * per * left
  BY <1>1, Multiply
<1>6. q * whole * rate = q * rate * whole
  <2>1. q * whole * rate = q * (whole * rate) /\ q * rate * whole = q * (rate * whole)
    BY <1>2, Multiply
  <2>2. whole * rate = rate * whole
    BY Multiply
  <2>3. QED
    BY <2>1, <2>2
<1>7. whole * per * left = left * per * whole
  <2>1. whole * per * left = left * (whole * per) /\ left * per * whole = left * (per * whole)
    BY <1>1, Multiply
  <2>2. whole * per = per * whole
    BY Multiply
  <2>3. QED
    BY <2>1, <2>2
<1> DEFINE a == q * rate
           b == left * per
<1>8. a \in Nat /\ b \in Nat
  BY <1>2, Multiply
<1> HIDE DEF a, b
<1>9. a * whole <= b * whole
  <2>1. a * whole = q * whole * rate /\ b * whole = whole * per * left
    BY <1>6, <1>7 DEF a, b
  <2>2. /\ a * whole \in Nat /\ b * whole \in Nat /\ x * rate \in Nat /\ had * rate * left \in Nat
    BY <1>1, <1>8, Multiply
  <2>3. QED
    BY <1>3, <1>4, <1>5, <2>1, <2>2
<1>10. a <= b
  <2>1. SUFFICES ASSUME b + 1 <= a PROVE FALSE
    BY <1>8
  <2>2. (b + 1) * whole <= a * whole
    BY <1>8, <2>1, Multiply
  <2>3. (b + 1) * whole = b * whole + 1 * whole /\ 1 * whole = whole
    BY <1>8, Multiply
  <2>4. b * whole \in Nat /\ a * whole \in Nat
    BY <1>8, Multiply
  <2>5. QED
    BY <1>9, <2>2, <2>3, <2>4
<1>11. QED
  BY <1>10 DEF a, b, q, x

\* What a repayment leaves of the loans on a mint comes to at least what the click reckoned.
LEMMA LeftIsCovered ==
  ASSUME RepaysAssumption, RepayInv, NEW c \in Calls, Repays!Land(c),
         \A i \in DOMAIN calls[c].loans : calls[c].loans[i] = loans[i],
         NEW m \in RewardMints,
         NEW after, after = [i \in {j \in OnMint(calls[c], m) : IsOpen(loans'[j])}
                               |-> loans'[i]]
  PROVE  /\ DebtCeilings(after, now) \in Nat
         /\ LeftUnder(calls[c], m) <= DebtCeilings(after, now)
<1> DEFINE run == calls[c]
           C == OnMint(run, m)
           K == {j \in C : IsOpen(loans'[j])}
           f == [i \in C |-> LeftAfter(run, i)]
           g == [i \in C |-> CeilingInTerm(loans'[i], now)]
           h == [i \in K |-> CeilingInTerm(after[i], now)]
<1>1. /\ RepayCallInv(run) /\ run # Repays!NoCall
      /\ Repays!Repaid(run) \subseteq Repays!OpenLoans
      /\ loans' = [i \in Loans |->
           IF i \in Repays!Repaid(run)
             THEN Repays!ApplyRepayment(Repays!Accrue(loans[i], now), run.per_loan[i])
             ELSE loans[i]]
  BY DEF Repays!Land, RepayInv, RepayCallsInv
<1>2. /\ run.at \in Nat /\ now \in Nat /\ run.at <= now /\ SoundLoans(run.loans)
      /\ DOMAIN run.loans \subseteq Loans
      /\ DOMAIN run.per_loan = DOMAIN run.loans
      /\ \A i \in DOMAIN run.loans : /\ SoundLoan(run.loans[i]) /\ IsOpen(run.loans[i])
                                      /\ run.loans[i].last_accrual_at <= run.at
                                      /\ run.per_loan[i] \in Nat
                                      /\ run.loans[i] = loans[i]
  BY <1>1, CallRepays DEF RepayCallInv, Divided, Read, SoundLoans, RepayInv, DebtsInv
<1>3. IsFiniteSet(C) /\ C \subseteq DOMAIN run.loans
  BY <1>2, FS_Subset DEF SoundLoans, OnMint
<1>4. ASSUME NEW i \in C
      PROVE  /\ LeftAfter(run, i) \in Nat /\ CeilingInTerm(loans'[i], now) \in Nat
             /\ LeftAfter(run, i) <= CeilingInTerm(loans'[i], now)
             /\ ~IsOpen(loans'[i]) => CeilingInTerm(loans'[i], now) = 0
  <2> DEFINE l == run.loans[i]
             x == run.per_loan[i]
             s == run.at
             n == loans'[i]
  <2>1. /\ SoundLoan(l) /\ IsOpen(l) /\ x \in Nat /\ s \in Nat /\ l.last_accrual_at <= s
        /\ now \in Nat /\ s <= now
    BY <1>2, <1>3
  <2>2. n = IF x > 0 THEN ApplyRepayment(Accrue(l, now), x) ELSE l
    BY <1>1, <1>2, <1>3, RepaysAlike DEF Repays!Repaid
  <2>3. LeftAfter(run, i) = CeilingInTerm(LeftOf(l, x, s), s)
    BY DEF LeftAfter
  <2> HIDE DEF l, x, s, n
  <2>4. /\ CeilingInTerm(LeftOf(l, x, s), s) \in Nat
        /\ CeilingInTerm(n, now) \in Nat
        /\ CeilingInTerm(LeftOf(l, x, s), s) <= CeilingInTerm(n, now)
        /\ ~IsOpen(n) => CeilingInTerm(n, now) = 0
    BY <2>1, <2>2, LeftWithin
  <2>5. QED
    BY <2>3, <2>4 DEF n
<1>5. K \in SUBSET C /\ DOMAIN after = K /\ \A i \in K : after[i] = loans'[i]
  OBVIOUS
<1>6. /\ LeftUnder(run, m) = SumFunctionOnSet(f, C)
      /\ DebtCeilings(after, now) = SumFunctionOnSet(h, K)
  BY <1>5 DEF LeftUnder, DebtCeilings, SumFunction
<1>7. /\ \A i \in C : f[i] \in Nat /\ g[i] \in Nat /\ f[i] <= g[i]
      /\ \A i \in K : h[i] \in Nat /\ g[i] = h[i]
      /\ \A i \in C \ K : g[i] = 0
  BY <1>4, <1>5
<1> HIDE DEF f, g, h, K, C, run
<1>8. SumFunctionOnSet(f, C) <= SumFunctionOnSet(g, C)
  <2>1. \A i \in C : f[i] \in Int /\ g[i] \in Int /\ f[i] <= g[i]
    BY <1>7
  <2>2. QED
    BY <1>3, <2>1, SumAtMost
<1>9. SumFunctionOnSet(g, C) = SumFunctionOnSet(h, K)
  <2>1. \A i \in K : h[i] \in Int /\ g[i] = h[i]
    BY <1>7
  <2>2. QED
    BY <1>3, <1>5, <1>7, <2>1, SumExtended
<1>10. SumFunctionOnSet(g, C) \in Nat
  BY <1>3, <1>7, SumOfNaturals
<1>11. QED
  BY <1>6, <1>8, <1>9, <1>10 DEF run

\* A repayment never leaves the protocol more than the debt: while the loans are as they were
\* read, what it delegates is within what is owed after it at the rate it was sized by, and
\* where no rate could be had, at any rate at which the delegation was within the debt.
THEOREM AllowancesAreWithinDebt ==
  RepaysAssumption /\ Repays!Spec => [][Repays!AllowanceWithinDebt]_Repays!vars
<1> SUFFICES ASSUME RepaysAssumption
             PROVE  Repays!Spec => [][Repays!AllowanceWithinDebt]_Repays!vars
  OBVIOUS
<1>1. ASSUME RepayInv, AllowancesInv, NEW c \in Calls, Repays!Land(c),
             \A i \in DOMAIN calls[c].loans : calls[c].loans[i] = loans[i],
             NEW m \in RewardMints, calls[c].permits[m].kind = "set",
             NEW before, NEW after,
             before = [i \in {j \in DOMAIN calls[c].loans : loans[j].reward_mint = m}
                         |-> loans[i]],
             after = [i \in {j \in {k \in DOMAIN calls[c].loans : loans[k].reward_mint = m} :
                               Repays!IsOpen(loans'[j])} |-> loans'[i]]
      PROVE  IF calls[c].permits[m].rate # NoRate
               THEN Repays!Within(calls[c].permits[m].allowance, after, now,
                                  calls[c].permits[m].rate)
               ELSE \A rate \in Rates :
                      Repays!Within(calls[c].permits[m].had, before, calls[c].at, rate)
                        => Repays!Within(calls[c].permits[m].allowance, after, now, rate)
  <2> DEFINE run == calls[c]
             p == run.permits[m]
             left == LeftUnder(run, m)
             whole == DebtUnder(run, m)
             end == DebtCeilings(after, now)
  <2>1. /\ RepayCallInv(run) /\ run # Repays!NoCall /\ run.step \in {"sent", "adrift"}
    BY <1>1 DEF Repays!Land, RepayInv, RepayCallsInv
  <2>2. Permitted(run, m)
    BY <1>1, <2>1 DEF AllowancesInv
  <2>3. OnMint(run, m) = {j \in DOMAIN run.loans : loans[j].reward_mint = m}
    BY <1>1 DEF OnMint
  <2>4. after = [i \in {j \in OnMint(run, m) : IsOpen(loans'[j])} |-> loans'[i]]
    BY <1>1, <2>3, RepaysAlike
  <2>5. end \in Nat /\ left <= end
    BY <1>1, <2>4, LeftIsCovered
  <2>6. left \in Nat /\ whole \in Nat /\ (OnMint(run, m) # {} => whole > 0)
    BY <1>1, <2>1, UnderIs
  <2>7. DebtCeilings(before, run.at) = whole
    <3>1. before = [i \in OnMint(run, m) |-> run.loans[i]]
      BY <1>1, <2>3 DEF OnMint
    <3>2. QED
      BY <3>1 DEF DebtUnder
  <2>8. /\ \A f, t : Repays!DebtCeilings(f, t) = DebtCeilings(f, t)
        /\ \A a, of, t, rate : Repays!Within(a, of, t, rate)
                                 <=> a * rate <= DebtCeilings(of, t) * RATE_PER
    <3>1. \A l, t : Repays!CeilingInTerm(l, t) = CeilingInTerm(l, t)
      BY RepaysAlike DEF Repays!CeilingInTerm, CeilingInTerm
    <3>2. \A f, t : Repays!DebtCeilings(f, t) = DebtCeilings(f, t)
      BY <3>1, RepaysAlike DEF Repays!DebtCeilings, DebtCeilings
    <3>3. QED
      BY <3>2 DEF Repays!Within
  <2>9. /\ p.allowance \in Nat /\ whole > 0 /\ p.rate \in Rates \union {NoRate}
        /\ p.rate # NoRate => p.allowance = RewardAllowance(left, p.rate)
        /\ p.rate = NoRate => p.had \in Nat /\ p.allowance = (p.had * left) \div whole
    BY <1>1, <2>2, <2>6 DEF Permitted
  <2>10. RATE_PER \in Nat /\ \A rate \in Rates : rate \in Nat \ {0}
    BY DEF RepaysAssumption, Repays!RepayingAssumption, ClientLoanAssumption
  <2> HIDE DEF left, whole, end
  <2>11. left * RATE_PER <= end * RATE_PER /\ left * RATE_PER \in Nat /\ end * RATE_PER \in Nat
    BY <2>5, <2>6, <2>10, Multiply
  <2> HIDE DEF p, run
  <2>12. ASSUME p.rate # NoRate
         PROVE  p.allowance * p.rate <= end * RATE_PER
    <3> DEFINE a == p.allowance
               rate == p.rate
    <3>1. rate \in Nat \ {0} /\ a = RewardAllowance(left, rate) /\ a \in Nat
      BY <2>9, <2>10, <2>12
    <3> HIDE DEF a, rate
    <3>2. a * rate <= left * RATE_PER
      BY <2>6, <3>1, AllowanceIsWithin DEF RepaysAssumption
    <3>3. a * rate \in Nat
      BY <3>1, Multiply
    <3>4. a * rate <= end * RATE_PER
      BY <2>11, <3>2, <3>3
    <3>5. QED
      BY <3>4 DEF a, rate
  <2>13. ASSUME p.rate = NoRate, NEW rate \in Rates, p.had * rate <= whole * RATE_PER
         PROVE  p.allowance * rate <= end * RATE_PER
    <3> DEFINE a == p.allowance
               had == p.had
    <3>1. /\ rate \in Nat /\ had \in Nat /\ a = (had * left) \div whole /\ a \in Nat
          /\ whole \in Nat \ {0} /\ had * rate <= whole * RATE_PER
      BY <2>6, <2>9, <2>10, <2>13
    <3> HIDE DEF a, had
    <3>2. a * rate <= left * RATE_PER
      BY <2>6, <2>10, <3>1, ShareIsWithin
    <3>3. a * rate \in Nat
      BY <3>1, Multiply
    <3>4. a * rate <= end * RATE_PER
      BY <2>11, <3>2, <3>3
    <3>5. QED
      BY <3>4 DEF a
  <2>14. /\ \A a, rate : Repays!Within(a, after, now, rate) <=> a * rate <= end * RATE_PER
         /\ \A a, rate : Repays!Within(a, before, run.at, rate) <=> a * rate <= whole * RATE_PER
    BY <2>7, <2>8 DEF end
  <2>15. QED
    BY <2>12, <2>13, <2>14 DEF p, run
<1>2. RepayInv /\ AllowancesInv => Repays!AllowanceWithinDebt
  BY <1>1 DEF Repays!AllowanceWithinDebt
<1>3. QED
  BY <1>2, AllowancesInductive, PTL

-----------------------------------------------------------------------------
(***************************************************************************)
(* The pages whose address is in their path.                               *)
(***************************************************************************)
CONSTANTS Unreadable, Nobody, MAX_ENTRIES, MAX_MOVES, MAX_RECOMPUTED

VARIABLES registered, remembered, connecting, asked, told, began, refused,
          entries, at, recomputed, due, requests, moves

Paths == INSTANCE AddressPages

\* An attempt the page began runs before anything was asked, refused or told.
IdentityInv ==
  /\ {registered, remembered, connecting, asked, told} \subseteq BOOLEAN
  /\ began \in Paths!Someone /\ (connecting <=> began # "nobody")
  /\ ~registered => ~asked /\ ~told /\ began = "nobody"
  /\ began = "page" => ~asked /\ ~told
  /\ began = "operator" => asked
  /\ Paths!ToldWhenAsked

LEMMA IdentityKeeps ==
  ASSUME IdentityInv,
         \/ Paths!IdentityNext \/ Paths!Select \/ Paths!Forget
         \/ UNCHANGED Paths!identityVars
  PROVE  IdentityInv'
<1> USE DEF IdentityInv, Paths!ToldWhenAsked, Paths!Someone
<1>1. CASE Paths!Register
  BY <1>1 DEF Paths!Register
<1>2. ASSUME NEW a, Paths!Connected(a) PROVE IdentityInv'
  BY <1>2 DEF Paths!Connected
<1>3. ASSUME NEW kind, Paths!Refuse(kind) PROVE IdentityInv'
  BY <1>3 DEF Paths!Refuse, Paths!OnError
<1>4. CASE Paths!Disconnect
  BY <1>4 DEF Paths!Disconnect
<1>5. CASE Paths!Select
  <2>1. registered
    BY <1>5 DEF Paths!Select, Paths!DeriveIdentity
  <2>2. QED
    BY <1>5, <2>1 DEF Paths!Select
<1>6. CASE Paths!Forget
  BY <1>6 DEF Paths!Forget
<1>7. CASE UNCHANGED Paths!identityVars
  BY <1>7 DEF Paths!identityVars
<1>8. QED
  BY <1>1, <1>2, <1>3, <1>4, <1>5, <1>6, <1>7 DEF Paths!IdentityNext

\* What a live request, and what is shown, is of: the page as it was last rendered, once its
\* effect has run.
RequestType ==
  [ address : Operators \cup {Unreadable, Nobody}, endpoint : Paths!Endpoints,
    live : BOOLEAN ]

OfThePage(r) == r.address = Paths!Load.address /\ r.endpoint = Paths!Load.endpoint

PathsInv ==
  /\ IdentityInv
  /\ entries \in Seq(Paths!Routes) /\ at \in 1..Len(entries)
  /\ requests \subseteq RequestType
  /\ due \in BOOLEAN /\ (due => Paths!Route \in Paths!Addressed)
  /\ ~due => \A r \in requests : r.live => OfThePage(r)
  /\ Paths!LoadingIsAwaited /\ Paths!AnswersWhatIsAsked

LEMMA RouteIs ==
  ASSUME PathsInv
  PROVE  /\ Paths!Route \in Paths!Routes
         /\ Paths!Route.page \in Paths!Sections => Paths!Route \in Paths!Addressed
<1>1. Paths!Route \in Paths!Routes
  BY DEF PathsInv, Paths!Route
<1>2. QED
  BY <1>1 DEF Paths!Routes, Paths!Sections, Paths!Addressed, Paths!Lookup, Paths!Own

LEMMA LoadIs ==
  ASSUME Paths!Route \in Paths!Addressed
  PROVE  /\ Paths!Load.address = Paths!Route.address
         /\ Paths!Load.address \in Operators \cup {Unreadable, Nobody}
         /\ Paths!Load.endpoint \in Paths!Endpoints
<1>1. Paths!Route.address \in Operators \cup {Unreadable}
  BY DEF Paths!Addressed, Paths!Page
<1>2. QED
  BY <1>1 DEF Paths!Load, Paths!Endpoints

LEMMA CleanedIs ==
  ASSUME requests \subseteq RequestType
  PROVE  /\ Paths!Cleaned(requests) \subseteq RequestType
         /\ \A r \in Paths!Cleaned(requests) : ~r.live
BY DEF Paths!Cleaned, RequestType

\* A variable that was given a truth value.
LEMMA IsTruth ==
  ASSUME NEW b, NEW r, NEW S, b = (r \in S)
  PROVE  b \in BOOLEAN /\ (b <=> r \in S)
<1>1. CASE r \in S
  BY <1>1, Zenon
<1>2. CASE r \notin S
  <2>1. (r \in S) = FALSE
    BY <1>2
  <2>2. QED
    BY <2>1
<1>3. QED
  BY <1>1, <1>2

\* The tab shows another entry: a page that stays mounted waits for its effect if its
\* address changed, any other begins anew.
LEMMA RenderKeeps ==
  ASSUME PathsInv, NEW r \in Paths!Routes, Paths!Render(r),
         entries' \in Seq(Paths!Routes), at' \in 1..Len(entries'), entries'[at'] = r,
         IdentityInv'
  PROVE  PathsInv'
<1>1. Paths!Route' = r
  BY DEF Paths!Route
<1>2. CASE Paths!Route \in Paths!Addressed /\ r.page = Paths!Route.page
  <2>1. /\ due' = (due \/ r # Paths!Route)
        /\ UNCHANGED <<recomputed, shown, requests>>
    BY <1>2 DEF Paths!Render
  <2>2. r \in Paths!Addressed
    BY <1>2 DEF Paths!Routes, Paths!Addressed, Paths!Page, Paths!Lookup, Paths!Own, Paths!Sections
  <2>3. CASE r = Paths!Route
    <3>1. Paths!Route' = Paths!Route /\ due' = due
      BY <1>1, <2>1, <2>3 DEF PathsInv
    <3>2. Paths!Load' = Paths!Load
      BY <3>1, <2>1 DEF Paths!Load
    <3>3. QED
      BY <3>1, <3>2, <2>1
         DEF PathsInv, OfThePage, Paths!LoadingIsAwaited, Paths!AnswersWhatIsAsked
  <2>4. CASE r # Paths!Route
    <3>1. due' = TRUE
      BY <2>1, <2>4
    <3>2. QED
      BY <3>1, <2>1, <2>2, <1>1
         DEF PathsInv, Paths!LoadingIsAwaited, Paths!AnswersWhatIsAsked
  <2>5. QED
    BY <2>3, <2>4
<1>3. CASE ~(Paths!Route \in Paths!Addressed /\ r.page = Paths!Route.page)
  <2>1. /\ shown' = Paths!Loading /\ requests' = Paths!Cleaned(requests)
        /\ due' = (r \in Paths!Addressed)
    BY <1>3 DEF Paths!Render, Paths!Remount
  <2>2. requests' \subseteq RequestType /\ \A q \in requests' : ~q.live
    BY <2>1, CleanedIs DEF PathsInv
  <2>3. shown'.status # "done"
    BY <2>1 DEF Paths!Loading
  <2>4. due' \in BOOLEAN /\ (due' <=> r \in Paths!Addressed)
    BY <2>1, IsTruth, Zenon
  <2>5. Paths!LoadingIsAwaited' /\ Paths!AnswersWhatIsAsked'
    BY <1>1, <2>3, <2>4 DEF Paths!LoadingIsAwaited, Paths!AnswersWhatIsAsked
  <2>6. \A q \in requests' : q.live => OfThePage(q)'
    BY <2>2
  <2>7. QED
    BY <1>1, <2>2, <2>4, <2>5, <2>6 DEF PathsInv
<1>4. QED
  BY <1>2, <1>3

LEMMA NavigateKeeps ==
  ASSUME PathsInv, NEW r \in Paths!Routes, Paths!Navigate(r)
  PROVE  PathsInv'
<1>1. /\ entries' = Append(SubSeq(entries, 1, at), r) /\ at' = at + 1
      /\ Paths!Render(r) /\ UNCHANGED Paths!identityVars
  BY DEF Paths!Navigate
<1>2. /\ SubSeq(entries, 1, at) \in Seq(Paths!Routes) /\ Len(SubSeq(entries, 1, at)) = at
      /\ at \in Nat
  BY DEF PathsInv
<1>3. /\ entries' \in Seq(Paths!Routes) /\ at' \in 1..Len(entries')
      /\ entries'[at'] = r
  BY <1>1, <1>2
<1>4. IdentityInv'
  BY <1>1, IdentityKeeps DEF PathsInv
<1>5. QED
  BY <1>1, <1>3, <1>4, RenderKeeps

LEMMA GoKeeps ==
  ASSUME PathsInv, NEW n \in Int, Paths!Go(n)
  PROVE  PathsInv'
<1>1. /\ at + n \in DOMAIN entries /\ at' = at + n /\ Paths!Render(entries[at + n])
      /\ UNCHANGED Paths!identityVars /\ entries' = entries
  BY DEF Paths!Go
<1>2. entries \in Seq(Paths!Routes)
  BY DEF PathsInv
<1>3. /\ at' \in 1..Len(entries') /\ entries'[at'] = entries[at + n]
      /\ entries' \in Seq(Paths!Routes) /\ entries[at + n] \in Paths!Routes
  BY <1>1, <1>2
<1>4. IdentityInv'
  BY <1>1, IdentityKeeps DEF PathsInv
<1>5. QED
  BY <1>1, <1>3, <1>4, RenderKeeps

LEMMA MineKeeps ==
  ASSUME PathsInv, Paths!Mine
  PROVE  PathsInv'
<1> DEFINE r == IF Paths!DeriveIdentity = "connected"
                  THEN Paths!Page(Paths!Route.section, account) ELSE Paths!Lookup
<1>1. /\ Paths!Route.page = "own" /\ entries' = [entries EXCEPT ![at] = r]
      /\ Paths!Render(entries'[at]) /\ UNCHANGED Paths!identityVars /\ at' = at
  BY DEF Paths!Mine
<1>2. Paths!Route.section \in Paths!Sections
  <2>1. Paths!Route \in Paths!Routes
    BY RouteIs
  <2>2. QED
    BY <1>1, <2>1
       DEF Paths!Routes, Paths!Sections, Paths!Addressed, Paths!Page, Paths!Lookup, Paths!Own
<1>3. Paths!DeriveIdentity = "connected" => account \in Operators
  BY DEF Paths!DeriveIdentity
<1>4. r \in Paths!Routes
  BY <1>2, <1>3 DEF Paths!Routes, Paths!Addressed
<1> HIDE DEF r
<1>5. entries \in Seq(Paths!Routes) /\ at \in 1..Len(entries)
  BY DEF PathsInv
<1>6. /\ entries' \in Seq(Paths!Routes) /\ at' \in 1..Len(entries')
      /\ entries'[at'] = r /\ entries'[at] = r
  BY <1>1, <1>4, <1>5
<1>7. IdentityInv'
  BY <1>1, IdentityKeeps DEF PathsInv
<1>8. QED
  BY <1>1, <1>4, <1>6, <1>7, RenderKeeps

LEMMA EffectKeeps ==
  ASSUME PathsInv, Paths!Effect
  PROVE  PathsInv'
<1>1. /\ due /\ due' = FALSE /\ shown' = Paths!Loading
      /\ requests' = Paths!Cleaned(requests) \cup {Paths!Asked(Paths!Load, TRUE)}
      /\ UNCHANGED <<Paths!identityVars, entries, at, recomputed>>
  BY DEF Paths!Effect
<1>2. Paths!Route \in Paths!Addressed
  BY <1>1 DEF PathsInv
<1>3. Paths!Load' = Paths!Load /\ Paths!Route' = Paths!Route
  BY <1>1 DEF Paths!Load, Paths!Route
<1> DEFINE new == Paths!Asked(Paths!Load, TRUE)
<1>4. /\ new.address = Paths!Load.address /\ new.endpoint = Paths!Load.endpoint
      /\ new.live = TRUE /\ new \in RequestType
  BY <1>2, LoadIs DEF Paths!Asked, RequestType
<1> HIDE DEF new
<1>5. /\ requests' \subseteq RequestType /\ new \in requests'
      /\ \A r \in requests' : r.live => OfThePage(r)'
  BY <1>1, <1>3, <1>4, CleanedIs DEF PathsInv, OfThePage, new
<1>6. new.address = Paths!Route.address
  BY <1>2, <1>4, LoadIs
<1>7. IdentityInv'
  BY <1>1, IdentityKeeps DEF PathsInv
<1>8. shown'.status # "done"
  BY <1>1 DEF Paths!Loading
<1>9. Paths!LoadingIsAwaited' /\ Paths!AnswersWhatIsAsked'
  BY <1>3, <1>4, <1>5, <1>6, <1>8 DEF Paths!LoadingIsAwaited, Paths!AnswersWhatIsAsked
<1>10. QED
  BY <1>1, <1>2, <1>3, <1>5, <1>7, <1>9 DEF PathsInv

LEMMA AnswerKeeps ==
  ASSUME PathsInv, NEW r \in requests, Paths!Answer(r)
  PROVE  PathsInv'
<1>1. /\ requests' = requests \ {r} /\ due' = due
      /\ UNCHANGED <<Paths!identityVars, entries, at, recomputed>>
  BY DEF Paths!Answer
<1>2. Paths!Load' = Paths!Load /\ Paths!Route' = Paths!Route
  BY <1>1 DEF Paths!Load, Paths!Route
<1>3. IdentityInv'
  BY <1>1, IdentityKeeps DEF PathsInv
<1>4. requests' \subseteq RequestType /\ (~due => \A q \in requests' : q.live => OfThePage(q)')
  BY <1>1, <1>2 DEF PathsInv, OfThePage
<1>5. Paths!LoadingIsAwaited' /\ Paths!AnswersWhatIsAsked'
  <2>1. CASE r.live
    <3>1. /\ shown'.status = "done" /\ shown'.address = r.address
          /\ shown'.endpoint = r.endpoint
      BY <2>1 DEF Paths!Answer
    <3>2. ~due => OfThePage(r)
      BY <2>1 DEF PathsInv
    <3>3. QED
      BY <1>1, <1>2, <3>1, <3>2
         DEF OfThePage, Paths!LoadingIsAwaited, Paths!AnswersWhatIsAsked
  <2>2. CASE ~r.live
    <3>1. shown' = shown
      BY <2>2 DEF Paths!Answer
    <3>2. QED
      BY <1>1, <1>2, <2>2, <3>1
         DEF PathsInv, Paths!LoadingIsAwaited, Paths!AnswersWhatIsAsked
  <2>3. QED
    BY <2>1, <2>2
<1>6. QED
  BY <1>1, <1>2, <1>3, <1>4, <1>5 DEF PathsInv

LEMMA RecalculateKeeps ==
  ASSUME PathsInv, Paths!Recalculate
  PROVE  PathsInv'
<1>1. /\ due' = TRUE /\ UNCHANGED <<Paths!identityVars, entries, at, requests, shown>>
      /\ Paths!Route.page = "limit"
  BY DEF Paths!Recalculate
<1>2. Paths!Route' = Paths!Route /\ Paths!Route \in Paths!Addressed
  BY <1>1, RouteIs DEF Paths!Route, Paths!Sections
<1>3. IdentityInv'
  BY <1>1, IdentityKeeps DEF PathsInv
<1>4. QED
  BY <1>1, <1>2, <1>3 DEF PathsInv, Paths!LoadingIsAwaited, Paths!AnswersWhatIsAsked

LEMMA ReloadKeeps ==
  ASSUME PathsInv, Paths!Reload
  PROVE  PathsInv'
<1>1. /\ shown' = Paths!Loading /\ requests' = {} /\ Paths!Forget
      /\ due' = (Paths!Route \in Paths!Addressed) /\ UNCHANGED <<entries, at>>
  BY DEF Paths!Reload
<1>2. Paths!Route' = Paths!Route
  BY <1>1 DEF Paths!Route
<1>3. IdentityInv'
  BY <1>1, IdentityKeeps DEF PathsInv
<1>4. shown'.status # "done"
  BY <1>1 DEF Paths!Loading
<1>5. due' \in BOOLEAN /\ (due' <=> Paths!Route \in Paths!Addressed)
  BY <1>1, IsTruth, Zenon
<1>6. entries' = entries /\ at' = at /\ requests' = {}
  BY <1>1
<1>7. Paths!LoadingIsAwaited' /\ Paths!AnswersWhatIsAsked'
  BY <1>2, <1>4, <1>5 DEF Paths!LoadingIsAwaited, Paths!AnswersWhatIsAsked
<1>8. QED
  BY <1>2, <1>3, <1>5, <1>6, <1>7 DEF PathsInv

\* The page stands still: only who the operator is changes, or nothing at all.
LEMMA StandingKeeps ==
  ASSUME PathsInv, UNCHANGED Paths!pageVars,
         Paths!IdentityNext \/ Paths!Select \/ UNCHANGED Paths!identityVars
  PROVE  PathsInv'
<1>1. UNCHANGED <<entries, at, recomputed, due, requests, shown>>
  BY DEF Paths!pageVars
<1>2. Paths!Load' = Paths!Load /\ Paths!Route' = Paths!Route
  BY <1>1 DEF Paths!Load, Paths!Route
<1>3. IdentityInv'
  BY IdentityKeeps DEF PathsInv
<1>4. QED
  BY <1>1, <1>2, <1>3
     DEF PathsInv, OfThePage, Paths!LoadingIsAwaited, Paths!AnswersWhatIsAsked

LEMMA PathsSteps ==
  ASSUME PathsInv, [Paths!Next]_(Paths!vars)
  PROVE  PathsInv'
<1>1. CASE Paths!IdentityNext /\ UNCHANGED Paths!pageVars
  BY <1>1, StandingKeeps
<1>2. CASE Paths!Nav
  <2>1. Paths!Lookup \in Paths!Routes /\ \A s \in Paths!Sections : Paths!Own(s) \in Paths!Routes
    BY DEF Paths!Routes
  <2>2. QED
    BY <1>2, <2>1, NavigateKeeps DEF Paths!Nav
<1>3. CASE Paths!Submit
  <2>1. \A a \in Operators : Paths!Page("history", a) \in Paths!Routes
    BY DEF Paths!Routes, Paths!Addressed, Paths!Sections
  <2>2. QED
    BY <1>3, <2>1, NavigateKeeps DEF Paths!Submit
<1>4. CASE Paths!PickWallet
  BY <1>4, StandingKeeps DEF Paths!PickWallet
<1>5. CASE Paths!Continue
  <2>1. Paths!Route \in Paths!Addressed
    BY <1>5, RouteIs DEF Paths!Continue, Paths!Sections
  <2>2. Paths!Page("limit", Paths!Route.address) \in Paths!Routes
    BY <2>1 DEF Paths!Routes, Paths!Addressed, Paths!Page, Paths!Sections
  <2>3. QED
    BY <1>5, <2>2, NavigateKeeps DEF Paths!Continue
<1>6. CASE Paths!Go(-1) \/ Paths!Go(1)
  BY <1>6, GoKeeps
<1>7. CASE Paths!Mine
  BY <1>7, MineKeeps
<1>8. CASE Paths!Effect
  BY <1>8, EffectKeeps
<1>9. CASE \E r \in requests : Paths!Answer(r)
  BY <1>9, AnswerKeeps
<1>10. CASE Paths!Recalculate
  BY <1>10, RecalculateKeeps
<1>11. CASE Paths!Reload
  BY <1>11, ReloadKeeps
<1>12. CASE UNCHANGED Paths!vars
  BY <1>12, StandingKeeps DEF Paths!vars
<1>13. CASE Paths!Next
  BY <1>1, <1>2, <1>3, <1>4, <1>5, <1>6, <1>7, <1>8, <1>9, <1>10, <1>11, <1>13
     DEF Paths!Next
<1>14. QED
  BY <1>12, <1>13

LEMMA PathsStart == ASSUME Paths!Init PROVE PathsInv
<1>1. PICK r \in Paths!Routes : entries = <<r>>
  BY DEF Paths!Init
<1>2. /\ at = 1 /\ due = (Paths!Route \in Paths!Addressed) /\ requests = {}
      /\ shown = Paths!Loading /\ Paths!IdentityInit
  BY DEF Paths!Init
<1>3. entries \in Seq(Paths!Routes) /\ at \in 1..Len(entries)
  BY <1>1, <1>2
<1>4. IdentityInv
  BY <1>2 DEF IdentityInv, Paths!IdentityInit, Paths!ToldWhenAsked, Paths!Someone
<1>5. shown.status # "done"
  BY <1>2 DEF Paths!Loading
<1>6. due \in BOOLEAN /\ (due <=> Paths!Route \in Paths!Addressed)
  BY <1>2, IsTruth, Zenon
<1>7. Paths!LoadingIsAwaited /\ Paths!AnswersWhatIsAsked
  BY <1>5, <1>6 DEF Paths!LoadingIsAwaited, Paths!AnswersWhatIsAsked
<1>8. QED
  BY <1>2, <1>3, <1>4, <1>6, <1>7 DEF PathsInv

LEMMA PathsInductive == Paths!Spec => []PathsInv
<1>1. PathsInv /\ [Paths!Next]_(Paths!vars) => PathsInv'
  BY PathsSteps
<1>2. QED
  BY <1>1, PathsStart, PTL DEF Paths!Spec

\* useResource: once the effect of the last render has run, what a page shows is the answer
\* to what it asks now, whatever was asked before and answers when.
THEOREM AnswersAreToWhatIsAsked == Paths!Spec => []Paths!AnswersWhatIsAsked
<1>1. PathsInv => Paths!AnswersWhatIsAsked
  BY DEF PathsInv
<1>2. QED
  BY <1>1, PathsInductive, PTL

\* useResource: a page that waits has an effect or a live request of its own to wait for.
THEOREM WaitsAreForAnswers == Paths!Spec => []Paths!LoadingIsAwaited
<1>1. PathsInv => Paths!LoadingIsAwaited
  BY DEF PathsInv
<1>2. QED
  BY <1>1, PathsInductive, PTL

\* lib/wallet.tsx: the operator is told of the attempts to connect they asked for, and of
\* no others.
THEOREM RefusalsAreTold == Paths!Spec => []Paths!ToldWhenAsked
<1>1. PathsInv => Paths!ToldWhenAsked
  BY DEF PathsInv, IdentityInv
<1>2. QED
  BY <1>1, PathsInductive, PTL
=============================================================================
