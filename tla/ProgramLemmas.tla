----------------------------- MODULE ProgramLemmas ----------------------------
(***************************************************************************)
(* What the proofs about the reward-float program rest on: laws of sums    *)
(* over finite sets, what the operations on one loan account preserve,     *)
(* what consume_nonce does to one window, what withholdings gives to each  *)
(* claim, and the places of the elements of an ordered set.                *)
(*                                                                         *)
(* The library's induction theorems take a predicate as a parameter, which *)
(* the provers cannot be given.  The laws of sums are proved instead from  *)
(* its facts on well-founded relations, by way of a least counterexample.  *)
(***************************************************************************)
EXTENDS Loan, Conversion, NonceWindow, FiniteSets, Functions,
        FiniteSetTheorems, WellFoundedInduction, TLAPS

-----------------------------------------------------------------------------
(***************************************************************************)
(* Induction on finite sets.  The library's theorem takes a predicate as   *)
(* its parameter; these take the set of the parts for which it holds.      *)
(***************************************************************************)

\* A part of a finite set is good if all its proper parts being good makes it so.
LEMMA PartInduction ==
  ASSUME NEW S, IsFiniteSet(S), NEW Good,
         \A T \in SUBSET S : (\A t \in SUBSET T : t # T => t \in Good) => T \in Good
  PROVE  \A T \in SUBSET S : T \in Good
<1> DEFINE R == StrictSubsetOrdering(S)
           Bad == {T \in SUBSET S : T \notin Good}
<1>1. IsWellFoundedOn(R, SUBSET S)
  BY FS_StrictSubsetOrderingWellFounded, FS_FiniteSubsetsOfFinite
<1>2. ASSUME Bad # {} PROVE FALSE
  <2>1. Bad \subseteq SUBSET S
    OBVIOUS
  <2> HIDE DEF R, Bad
  <2>2. PICK T \in Bad : \A t \in Bad : ~(<<t, T>> \in R)
    BY <1>1, <1>2, <2>1, WFMin
  <2>3. ASSUME NEW t \in SUBSET T, t # T PROVE t \in Good
    <3>1. t \in SUBSET S /\ T \in SUBSET S
      BY <2>1
    <3>2. <<t, T>> \in (SUBSET S) \X (SUBSET S) /\ <<t, T>>[1] = t /\ <<t, T>>[2] = T
      BY <3>1
    <3>3. <<t, T>> \in R
      BY <2>3, <3>2 DEF R, StrictSubsetOrdering
    <3>4. QED
      BY <2>2, <3>1, <3>3 DEF Bad
  <2>4. QED
    BY <2>3 DEF Bad
<1>3. QED
  BY <1>2

\* Every part is good if the empty set is and putting an element back keeps it so.
LEMMA ElementInduction ==
  ASSUME NEW S, IsFiniteSet(S), NEW Good, {} \in Good,
         \A T \in SUBSET S : \A x \in T : T \ {x} \in Good => T \in Good
  PROVE  S \in Good
<1>1. ASSUME NEW T \in SUBSET S, \A t \in SUBSET T : t # T => t \in Good
      PROVE  T \in Good
  <2>1. CASE T = {}
    BY <2>1
  <2>2. CASE T # {}
    <3>1. PICK x \in T : TRUE
      BY <2>2
    <3>2. T \ {x} \in Good
      BY <1>1
    <3>3. QED
      BY <3>2
  <2>3. QED
    BY <2>1, <2>2
<1>2. QED
  BY <1>1, PartInduction

-----------------------------------------------------------------------------
(***************************************************************************)
(* SumFunctionOnSet.  The recursive function behind the fold exists for a  *)
(* finite set, and the sum takes out any element first.                    *)
(***************************************************************************)

\* g holds the sum of f over every part of S, the way the fold defines it.
Table(g, f, S) ==
  g = [s \in SUBSET S |->
         IF s = {} THEN 0
         ELSE f[CHOOSE x \in s : TRUE] + g[s \ {CHOOSE x \in s : TRUE}]]

\* The fold looks its sum up in a table.
LEMMA SumIsTable ==
  ASSUME NEW f, NEW S
  PROVE  SumFunctionOnSet(f, S) = (CHOOSE g : Table(g, f, S))[S]
BY DEF SumFunctionOnSet, FoldFunctionOnSet, MapThenFoldSet, Table

\* What a table holds of one part.
LEMMA TableEntry ==
  ASSUME NEW f, NEW S, NEW g, Table(g, f, S), NEW s \in SUBSET S
  PROVE  g[s] = IF s = {} THEN 0
                ELSE f[CHOOSE x \in s : TRUE] + g[s \ {CHOOSE x \in s : TRUE}]
BY DEF Table

\* The tables of a set and of a part of it agree on the part.
LEMMA TablesAgree ==
  ASSUME NEW f, NEW S, IsFiniteSet(S), NEW T \in SUBSET S,
         NEW g, Table(g, f, S), NEW h, Table(h, f, T)
  PROVE  g[T] = h[T]
<1> DEFINE Good == {s \in SUBSET T : g[s] = h[s]}
<1>1. IsFiniteSet(T)
  BY FS_Subset
<1>2. ASSUME NEW s \in SUBSET T, \A t \in SUBSET s : t # s => t \in Good
      PROVE  s \in Good
  <2> DEFINE x == CHOOSE x \in s : TRUE
  <2>1. CASE s = {}
    BY <2>1, TableEntry
  <2>2. CASE s # {}
    <3>1. x \in s
      BY <2>2
    <3>2. g[s] = f[x] + g[s \ {x}] /\ h[s] = f[x] + h[s \ {x}]
      <4>1. s \in SUBSET S
        OBVIOUS
      <4>2. g[s] = IF s = {} THEN 0 ELSE f[x] + g[s \ {x}]
        <5> HIDE DEF Good
        <5>1. QED
          BY <4>1, TableEntry
      <4>3. h[s] = IF s = {} THEN 0 ELSE f[x] + h[s \ {x}]
        <5> HIDE DEF Good
        <5>1. QED
          BY TableEntry
      <4> HIDE DEF x, Good
      <4>4. QED
        BY <2>2, <4>2, <4>3
    <3> HIDE DEF x
    <3>3. g[s \ {x}] = h[s \ {x}]
      BY <1>2, <3>1
    <3>4. QED
      BY <3>2, <3>3
  <2>3. QED
    BY <2>1, <2>2
<1>3. T \in Good
  <2> HIDE DEF Good
  <2>1. QED
    BY <1>1, <1>2, PartInduction
<1>4. QED
  BY <1>3

\* Every finite set has a table: the entries of its proper parts are taken from
\* theirs.
LEMMA TableExists ==
  ASSUME NEW f, NEW S, IsFiniteSet(S)
  PROVE  \E g : Table(g, f, S)
<1> DEFINE Good == {T \in SUBSET S : \E g : Table(g, f, T)}
<1>1. ASSUME NEW T \in SUBSET S, \A t \in SUBSET T : t # T => t \in Good
      PROVE  T \in Good
  <2> DEFINE H(u) == CHOOSE h : Table(h, f, u)
             E(t) == IF t = {} THEN 0
                     ELSE f[CHOOSE x \in t : TRUE]
                            + H(t \ {CHOOSE x \in t : TRUE})[t \ {CHOOSE x \in t : TRUE}]
             g    == [t \in SUBSET T |-> E(t)]
  <2>1. ASSUME NEW t \in SUBSET T, t # T PROVE Table(H(t), f, t) /\ IsFiniteSet(t)
    <3>1. t \in SUBSET S /\ \E h : Table(h, f, t)
      BY <1>1, <2>1
    <3>2. QED
      BY <3>1, FS_Subset
  <2> HIDE DEF H
  <2>2. ASSUME NEW t \in SUBSET T, t # T PROVE H(t)[t] = E(t)
    <3> DEFINE x == CHOOSE x \in t : TRUE
    <3>1. H(t)[t] = IF t = {} THEN 0 ELSE f[x] + H(t)[t \ {x}]
      <4>1. Table(H(t), f, t) /\ t \in SUBSET t
        BY <2>1, <2>2
      <4> HIDE DEF E, g
      <4>2. QED
        BY <4>1, TableEntry
    <3>2. t # {} => H(t)[t \ {x}] = H(t \ {x})[t \ {x}]
      <4>1. t # {} => x \in t
        OBVIOUS
      <4> HIDE DEF x
      <4>2. t \ {x} \in SUBSET T /\ (t # {} => t \ {x} # T) /\ t \ {x} \in SUBSET t
        BY <4>1
      <4>3. QED
        BY <2>1, <2>2, <4>2, TablesAgree
    <3>3. QED
      BY <3>1, <3>2
  <2>3. ASSUME NEW t \in SUBSET T
        PROVE  E(t) = IF t = {} THEN 0
                      ELSE f[CHOOSE x \in t : TRUE] + g[t \ {CHOOSE x \in t : TRUE}]
    <3> DEFINE x == CHOOSE x \in t : TRUE
    <3>1. CASE t = {}
      BY <3>1
    <3>2. CASE t # {}
      <4>1. x \in t
        BY <3>2
      <4>2. E(t) = f[x] + H(t \ {x})[t \ {x}]
        BY <3>2
      <4> HIDE DEF x, E
      <4>3. t \ {x} \in SUBSET T /\ t \ {x} # T
        BY <4>1
      <4>4. g[t \ {x}] = H(t \ {x})[t \ {x}]
        BY <2>2, <4>3
      <4>5. QED
        BY <3>2, <4>2, <4>4 DEF x
    <3>3. QED
      BY <3>1, <3>2
  <2>4. Table(g, f, T)
    <3> HIDE DEF E
    <3>1. QED
      BY <2>3 DEF Table
  <2>5. QED
    BY <2>4
<1>2. S \in Good
  <2> HIDE DEF Good
  <2>1. QED
    BY <1>1, PartInduction
<1>3. QED
  BY <1>2

\* The sum over the empty set.
LEMMA SumEmpty == ASSUME NEW f PROVE SumFunctionOnSet(f, {}) = 0
<1>1. PICK g : Table(g, f, {})
  BY TableExists, FS_EmptySet
<1>2. Table(CHOOSE h : Table(h, f, {}), f, {})
  BY <1>1
<1>3. QED
  BY <1>2, SumIsTable, TableEntry

\* The sum takes out the element the fold chooses.
LEMMA SumChosen ==
  ASSUME NEW f, NEW S, IsFiniteSet(S), S # {}
  PROVE  \E x \in S : SumFunctionOnSet(f, S) = f[x] + SumFunctionOnSet(f, S \ {x})
<1> DEFINE x == CHOOSE x \in S : TRUE
           g == CHOOSE h : Table(h, f, S)
           k == CHOOSE h : Table(h, f, S \ {x})
<1>1. x \in S
  OBVIOUS
<1>2. IsFiniteSet(S \ {x}) /\ S \ {x} \in SUBSET S
  BY FS_Subset
<1>3. Table(g, f, S) /\ Table(k, f, S \ {x})
  BY <1>2, TableExists
<1>4. SumFunctionOnSet(f, S) = g[S] /\ SumFunctionOnSet(f, S \ {x}) = k[S \ {x}]
  BY SumIsTable
<1>5. g[S] = f[x] + g[S \ {x}]
  BY <1>3, TableEntry
<1> HIDE DEF x, g, k
<1>6. g[S \ {x}] = k[S \ {x}]
  BY <1>2, <1>3, TablesAgree
<1>7. QED
  BY <1>1, <1>4, <1>5, <1>6

\* A sum of integers is an integer.
LEMMA SumType ==
  ASSUME NEW f, NEW S, IsFiniteSet(S), \A x \in S : f[x] \in Int
  PROVE  SumFunctionOnSet(f, S) \in Int
<1> DEFINE Sum(T) == SumFunctionOnSet(f, T)
           Good == {T \in SUBSET S : Sum(T) \in Int}
<1>1. Sum({}) = 0
  BY SumEmpty
<1>2. ASSUME NEW T \in SUBSET S, T # {}
      PROVE  \E x \in T : Sum(T) = f[x] + Sum(T \ {x})
  BY <1>2, SumChosen, FS_Subset
<1> HIDE DEF Sum
<1>3. ASSUME NEW T \in SUBSET S, \A t \in SUBSET T : t # T => t \in Good
      PROVE  T \in Good
  <2>1. CASE T = {}
    BY <1>1, <2>1
  <2>2. CASE T # {}
    <3>1. PICK x \in T : Sum(T) = f[x] + Sum(T \ {x})
      BY <1>2, <2>2
    <3>2. T \ {x} \in Good /\ f[x] \in Int
      BY <1>3
    <3>3. QED
      BY <3>1, <3>2
  <2>3. QED
    BY <2>1, <2>2
<1>4. S \in Good
  <2> HIDE DEF Good
  <2>1. QED
    BY <1>3, PartInduction
<1>5. QED
  BY <1>4 DEF Sum

\* Addition does not mind the order: any element can be taken out first.
LEMMA SumTakesOut ==
  ASSUME NEW f, NEW S, IsFiniteSet(S), \A y \in S : f[y] \in Int, NEW x \in S
  PROVE  SumFunctionOnSet(f, S) = f[x] + SumFunctionOnSet(f, S \ {x})
<1> DEFINE Sum(T) == SumFunctionOnSet(f, T)
           Good == {T \in SUBSET S : \A y \in T : Sum(T) = f[y] + Sum(T \ {y})}
<1>1. \A T \in SUBSET S : Sum(T) \in Int
  BY FS_Subset, SumType
<1>2. ASSUME NEW T \in SUBSET S, T # {}
      PROVE  \E c \in T : Sum(T) = f[c] + Sum(T \ {c})
  BY <1>2, SumChosen, FS_Subset
<1> HIDE DEF Sum
<1>3. ASSUME NEW T \in SUBSET S, \A t \in SUBSET T : t # T => t \in Good,
             NEW y \in T
      PROVE  Sum(T) = f[y] + Sum(T \ {y})
  <2>1. PICK c \in T : Sum(T) = f[c] + Sum(T \ {c})
    BY <1>2
  <2>2. CASE y = c
    BY <2>1, <2>2
  <2>3. CASE y # c
    <3> DEFINE U == T \ {c, y}
    <3>1. T \ {c} \in Good /\ T \ {y} \in Good
      BY <1>3
    <3>2. (T \ {c}) \ {y} = U /\ (T \ {y}) \ {c} = U /\ U \in SUBSET S
          /\ y \in T \ {c} /\ c \in T \ {y}
      BY <2>3
    <3> HIDE DEF U
    <3>3. Sum(T \ {c}) = f[y] + Sum(U) /\ Sum(T \ {y}) = f[c] + Sum(U)
      BY <3>1, <3>2
    <3>4. Sum(U) \in Int /\ f[y] \in Int /\ f[c] \in Int
      BY <1>1, <3>2
    <3>5. QED
      BY <2>1, <3>3, <3>4
  <2>4. QED
    BY <2>2, <2>3
<1>4. \A T \in SUBSET S : T \in Good
  <2>1. \A T \in SUBSET S : (\A t \in SUBSET T : t # T => t \in Good) => T \in Good
    BY <1>3
  <2> HIDE DEF Good
  <2>2. QED
    BY <2>1, PartInduction
<1>5. S \in SUBSET S
  OBVIOUS
<1>6. QED
  BY <1>4, <1>5 DEF Sum

-----------------------------------------------------------------------------
(***************************************************************************)
(* Laws of sums.                                                           *)
(***************************************************************************)

\* Both facts of one sum, for every part of the set.
LEMMA SumSteps ==
  ASSUME NEW f, NEW S, IsFiniteSet(S), \A x \in S : f[x] \in Int
  PROVE  /\ SumFunctionOnSet(f, {}) = 0
         /\ \A T \in SUBSET S : /\ SumFunctionOnSet(f, T) \in Int
                                /\ \A x \in T : SumFunctionOnSet(f, T)
                                     = f[x] + SumFunctionOnSet(f, T \ {x})
BY SumEmpty, SumType, SumTakesOut, FS_Subset

\* Functions that agree on a set have one sum over it.
LEMMA SumSame ==
  ASSUME NEW f, NEW g, NEW S, IsFiniteSet(S),
         \A x \in S : f[x] \in Int /\ f[x] = g[x]
  PROVE  SumFunctionOnSet(f, S) = SumFunctionOnSet(g, S)
<1> DEFINE F(T) == SumFunctionOnSet(f, T)
           G(T) == SumFunctionOnSet(g, T)
           Good == {T \in SUBSET S : F(T) = G(T)}
<1>1. F({}) = 0 /\ \A T \in SUBSET S : \A x \in T : F(T) = f[x] + F(T \ {x})
  BY SumSteps
<1>2. G({}) = 0 /\ \A T \in SUBSET S : \A x \in T : G(T) = g[x] + G(T \ {x})
  BY SumSteps
<1> HIDE DEF F, G
<1>3. S \in Good
  <2>1. {} \in Good /\ \A T \in SUBSET S : \A x \in T : T \ {x} \in Good => T \in Good
    BY <1>1, <1>2
  <2> HIDE DEF Good
  <2>2. QED
    BY <2>1, ElementInduction
<1>4. QED
  BY <1>3 DEF F, G

\* The sum of sums.
LEMMA SumPlus ==
  ASSUME NEW f, NEW g, NEW h, NEW S, IsFiniteSet(S),
         \A x \in S : f[x] \in Int /\ g[x] \in Int /\ h[x] = f[x] + g[x]
  PROVE  SumFunctionOnSet(h, S) = SumFunctionOnSet(f, S) + SumFunctionOnSet(g, S)
<1> DEFINE F(T) == SumFunctionOnSet(f, T)
           G(T) == SumFunctionOnSet(g, T)
           H(T) == SumFunctionOnSet(h, T)
           Good == {T \in SUBSET S : H(T) = F(T) + G(T)}
<1>1. F({}) = 0 /\ \A T \in SUBSET S : F(T) \in Int
                     /\ \A x \in T : F(T) = f[x] + F(T \ {x})
  BY SumSteps
<1>2. G({}) = 0 /\ \A T \in SUBSET S : G(T) \in Int
                     /\ \A x \in T : G(T) = g[x] + G(T \ {x})
  BY SumSteps
<1>3. H({}) = 0 /\ \A T \in SUBSET S : \A x \in T : H(T) = h[x] + H(T \ {x})
  BY SumSteps
<1> HIDE DEF F, G, H
<1>4. ASSUME NEW T \in SUBSET S, NEW x \in T, T \ {x} \in Good PROVE T \in Good
  <2>1. F(T \ {x}) \in Int /\ G(T \ {x}) \in Int /\ f[x] \in Int /\ g[x] \in Int
    BY <1>1, <1>2
  <2>2. F(T) = f[x] + F(T \ {x}) /\ G(T) = g[x] + G(T \ {x})
    BY <1>1, <1>2
  <2>3. H(T) = f[x] + g[x] + (F(T \ {x}) + G(T \ {x}))
    BY <1>3, <1>4
  <2>4. QED
    BY <2>1, <2>2, <2>3
<1>5. S \in Good
  <2>1. {} \in Good
    BY <1>1, <1>2, <1>3
  <2> HIDE DEF Good
  <2>2. QED
    BY <1>4, <2>1, ElementInduction
<1>6. QED
  BY <1>5 DEF F, G, H

\* A larger function has a larger sum.
LEMMA SumAtMost ==
  ASSUME NEW f, NEW g, NEW S, IsFiniteSet(S),
         \A x \in S : f[x] \in Int /\ g[x] \in Int /\ f[x] <= g[x]
  PROVE  SumFunctionOnSet(f, S) <= SumFunctionOnSet(g, S)
<1> DEFINE F(T) == SumFunctionOnSet(f, T)
           G(T) == SumFunctionOnSet(g, T)
           Good == {T \in SUBSET S : F(T) <= G(T)}
<1>1. F({}) = 0 /\ \A T \in SUBSET S : F(T) \in Int
                     /\ \A x \in T : F(T) = f[x] + F(T \ {x})
  BY SumSteps
<1>2. G({}) = 0 /\ \A T \in SUBSET S : G(T) \in Int
                     /\ \A x \in T : G(T) = g[x] + G(T \ {x})
  BY SumSteps
<1> HIDE DEF F, G
<1>4. ASSUME NEW T \in SUBSET S, NEW x \in T, T \ {x} \in Good PROVE T \in Good
  <2>1. F(T \ {x}) \in Int /\ G(T \ {x}) \in Int /\ f[x] \in Int /\ g[x] \in Int
    BY <1>1, <1>2
  <2>2. QED
    BY <1>1, <1>2, <1>4, <2>1
<1>5. S \in Good
  <2>1. {} \in Good
    BY <1>1, <1>2
  <2> HIDE DEF Good
  <2>2. QED
    BY <1>4, <2>1, ElementInduction
<1>6. QED
  BY <1>5 DEF F, G

\* A factor can be taken out of a sum.
LEMMA SumTimes ==
  ASSUME NEW c \in Int, NEW f, NEW h, NEW S, IsFiniteSet(S),
         \A x \in S : f[x] \in Int /\ h[x] = f[x] * c
  PROVE  SumFunctionOnSet(h, S) = SumFunctionOnSet(f, S) * c
<1> DEFINE F(T) == SumFunctionOnSet(f, T)
           H(T) == SumFunctionOnSet(h, T)
           Good == {T \in SUBSET S : H(T) = F(T) * c}
<1>1. F({}) = 0 /\ \A T \in SUBSET S : F(T) \in Int
                     /\ \A x \in T : F(T) = f[x] + F(T \ {x})
  BY SumSteps
<1>2. H({}) = 0 /\ \A T \in SUBSET S : \A x \in T : H(T) = h[x] + H(T \ {x})
  <2>1. \A x \in S : h[x] \in Int
    OBVIOUS
  <2>2. H({}) = 0
    BY SumEmpty
  <2>3. ASSUME NEW T \in SUBSET S, NEW x \in T
        PROVE  H(T) = h[x] + H(T \ {x})
    <3>1. IsFiniteSet(T) /\ \A y \in T : h[y] \in Int
      BY <2>1, FS_Subset
    <3> HIDE DEF Good, F
    <3>2. QED
      BY <3>1, SumTakesOut
  <2>4. QED
    BY <2>2, <2>3
<1> HIDE DEF F, H
<1>4. ASSUME NEW T \in SUBSET S, NEW x \in T, T \ {x} \in Good PROVE T \in Good
  <2>1. F(T \ {x}) \in Int /\ f[x] \in Int /\ h[x] = f[x] * c
    BY <1>1
  <2>2. \A a, b \in Int : (a + b) * c = a * c + b * c
    OBVIOUS
  <2>3. H(T) = f[x] * c + F(T \ {x}) * c
    BY <1>2, <1>4, <2>1
  <2>4. QED
    BY <1>1, <2>1, <2>2, <2>3
<1>5. S \in Good
  <2>1. {} \in Good
    BY <1>1, <1>2
  <2> HIDE DEF Good
  <2>2. QED
    BY <1>4, <2>1, ElementInduction
<1>6. QED
  BY <1>5 DEF F, H

\* The sum over two sets that share nothing.
LEMMA SumUnion ==
  ASSUME NEW f, NEW S, IsFiniteSet(S), NEW R, IsFiniteSet(R), S \intersect R = {},
         \A x \in S \union R : f[x] \in Int
  PROVE  SumFunctionOnSet(f, S \union R)
           = SumFunctionOnSet(f, S) + SumFunctionOnSet(f, R)
<1> DEFINE F(T) == SumFunctionOnSet(f, T)
           Good == {T \in SUBSET S : F(T \union R) = F(T) + F(R)}
<1>1. F({}) = 0 /\ \A T \in SUBSET (S \union R) :
                     F(T) \in Int /\ \A x \in T : F(T) = f[x] + F(T \ {x})
  BY ZenonT(40), SumSteps, FS_Union
<1> HIDE DEF F
<1>4. ASSUME NEW T \in SUBSET S, NEW x \in T, T \ {x} \in Good PROVE T \in Good
  <2>1. (T \union R) \ {x} = (T \ {x}) \union R
    OBVIOUS
  <2>2. /\ F(T \union R) = f[x] + F((T \ {x}) \union R)
        /\ F(T) = f[x] + F(T \ {x})
        /\ F(T \ {x}) \in Int /\ F(R) \in Int /\ f[x] \in Int
    BY <1>1, <2>1
  <2>3. QED
    BY <1>4, <2>2
<1>5. S \in Good
  <2>1. {} \in Good
    <3>1. F(R) \in Int /\ {} \union R = R
      BY <1>1
    <3>2. QED
      BY <1>1, <3>1
  <2> HIDE DEF Good
  <2>2. QED
    BY <1>4, <2>1, ElementInduction
<1>6. QED
  BY <1>5 DEF F

\* The sum over a set and over its image under an injection.
LEMMA SumImage ==
  ASSUME NEW f, NEW S, IsFiniteSet(S), NEW g, NEW J, NEW b \in [S -> J],
         \A y \in J : \E x \in S : y = b[x],
         \A x, y \in S : b[x] = b[y] => x = y,
         \A x \in S : g[b[x]] \in Int /\ f[x] = g[b[x]]
  PROVE  IsFiniteSet(J) /\ SumFunctionOnSet(f, S) = SumFunctionOnSet(g, J)
<1> DEFINE F(T) == SumFunctionOnSet(f, T)
           G(T) == SumFunctionOnSet(g, T)
           I(T) == {b[x] : x \in T}
           Good == {T \in SUBSET S : IsFiniteSet(I(T)) /\ F(T) = G(I(T))}
<1>1. F({}) = 0 /\ \A T \in SUBSET S : \A x \in T : F(T) = f[x] + F(T \ {x})
  BY SumSteps
<1>2. G({}) = 0
  BY SumEmpty
<1>3. ASSUME NEW T \in SUBSET S, NEW x \in T, T \ {x} \in Good
      PROVE  T \in Good
  <2>1. I(T) \ {b[x]} = I(T \ {x}) /\ I(T) = I(T \ {x}) \union {b[x]} /\ b[x] \in I(T)
    OBVIOUS
  <2>2. IsFiniteSet(I(T))
    <3>1. IsFiniteSet(I(T \ {x}))
      BY <1>3
    <3> HIDE DEF I, F, G, Good
    <3>2. IsFiniteSet(I(T \ {x}) \union {b[x]})
      BY <3>1, FS_AddElement, Zenon
    <3>3. QED
      BY <2>1, <3>2
  <2>3. G(I(T)) = g[b[x]] + G(I(T \ {x}))
    BY <2>1, <2>2, SumTakesOut
  <2> HIDE DEF F, G, I
  <2>4. F(T) = f[x] + F(T \ {x})
    BY <1>1
  <2>5. QED
    BY <1>3, <2>2, <2>3, <2>4
<1>4. S \in Good
  <2>1. {} \in Good
    BY <1>1, <1>2, FS_EmptySet
  <2> HIDE DEF Good
  <2>2. QED
    BY <1>3, <2>1, ElementInduction
<1>5. IsFiniteSet(I(S)) /\ F(S) = G(I(S))
  BY <1>4
<1>6. I(S) = J
  OBVIOUS
<1>7. QED
  BY <1>5, <1>6, Zenon

\* As many ones as there are elements.
LEMMA SumOfOnes ==
  ASSUME NEW f, NEW S, IsFiniteSet(S), \A x \in S : f[x] = 1
  PROVE  SumFunctionOnSet(f, S) = Cardinality(S)
<1> DEFINE F(T) == SumFunctionOnSet(f, T)
           Good == {T \in SUBSET S : F(T) = Cardinality(T)}
<1>1. F({}) = 0 /\ \A T \in SUBSET S : \A x \in T : F(T) = f[x] + F(T \ {x})
  BY SumSteps
<1> HIDE DEF F
<1>2. ASSUME NEW T \in SUBSET S, NEW x \in T, T \ {x} \in Good PROVE T \in Good
  <2>1. IsFiniteSet(T) /\ Cardinality(T) \in Nat
    BY FS_Subset, FS_CardinalityType
  <2>2. Cardinality(T \ {x}) = Cardinality(T) - 1
    BY <2>1, FS_RemoveElement
  <2>3. F(T) = 1 + F(T \ {x})
    BY <1>1
  <2>4. QED
    BY <1>2, <2>1, <2>2, <2>3
<1>3. S \in Good
  <2>1. {} \in Good
    BY <1>1, FS_EmptySet
  <2> HIDE DEF Good
  <2>2. QED
    BY <1>2, <2>1, ElementInduction
<1>4. QED
  BY <1>3 DEF F

\* A sum of zeros.
LEMMA SumOfZeros ==
  ASSUME NEW f, NEW S, IsFiniteSet(S), \A x \in S : f[x] = 0
  PROVE  SumFunctionOnSet(f, S) = 0
<1>1. SumFunctionOnSet(f, S) \in Int
  BY SumType
<1>2. SumFunctionOnSet(f, S) = SumFunctionOnSet(f, S) * 0
  <2>1. 0 \in Int /\ \A x \in S : f[x] \in Int /\ f[x] = f[x] * 0
    OBVIOUS
  <2>2. QED
    BY <2>1, SumTimes
<1>3. QED
  BY <1>1, <1>2

\* The elements at which a function is zero can be left out of its sum.
LEMMA SumExtended ==
  ASSUME NEW f, NEW F, NEW K, IsFiniteSet(K), NEW S \in SUBSET K,
         \A x \in S : f[x] \in Int /\ F[x] = f[x],
         \A x \in K \ S : F[x] = 0
  PROVE  SumFunctionOnSet(F, K) = SumFunctionOnSet(f, S)
<1>1. IsFiniteSet(S) /\ IsFiniteSet(K \ S)
  BY FS_Subset
<1>2. SumFunctionOnSet(F, S \union (K \ S))
        = SumFunctionOnSet(F, S) + SumFunctionOnSet(F, K \ S)
  <2>1. S \intersect (K \ S) = {} /\ \A x \in S \union (K \ S) : F[x] \in Int
    OBVIOUS
  <2>2. QED
    BY <1>1, <2>1, SumUnion
<1>3. SumFunctionOnSet(F, K \ S) = 0
  BY <1>1, SumOfZeros
<1>4. SumFunctionOnSet(f, S) = SumFunctionOnSet(F, S)
  BY <1>1, SumSame
<1>5. SumFunctionOnSet(f, S) \in Int
  BY <1>1, SumType
<1>6. SumFunctionOnSet(F, K) = SumFunctionOnSet(F, S) + SumFunctionOnSet(F, K \ S)
  <2>1. S \union (K \ S) = K
    OBVIOUS
  <2>2. QED
    BY <1>2, <2>1, Zenon
<1>7. QED
  BY <1>3, <1>4, <1>5, <1>6

\* A sum of natural numbers is one, and no part of it exceeds it.
LEMMA SumOfNaturals ==
  ASSUME NEW f, NEW S, IsFiniteSet(S), \A x \in S : f[x] \in Nat
  PROVE  /\ SumFunctionOnSet(f, S) \in Nat
         /\ \A x \in S : f[x] <= SumFunctionOnSet(f, S)
         /\ \A T \in SUBSET S : SumFunctionOnSet(f, T) <= SumFunctionOnSet(f, S)
<1> DEFINE F(T) == SumFunctionOnSet(f, T)
           Good == {T \in SUBSET S : F(T) \in Nat}
<1>1. F({}) = 0 /\ \A T \in SUBSET S : \A x \in T : F(T) = f[x] + F(T \ {x})
  BY SumSteps
<1>2. ASSUME NEW R \in SUBSET S PROVE F(R) \in Nat
  <2>1. IsFiniteSet(R)
    BY FS_Subset
  <2> HIDE DEF F
  <2> DEFINE GoodR == {T \in SUBSET R : F(T) \in Nat}
  <2>2. {} \in GoodR /\ \A T \in SUBSET R : \A x \in T : T \ {x} \in GoodR => T \in GoodR
    BY <1>1
  <2>3. R \in GoodR
    <3> HIDE DEF GoodR
    <3>1. QED
      BY <2>1, <2>2, ElementInduction
  <2>4. QED
    BY <2>3
<1>3. ASSUME NEW x \in S PROVE f[x] <= F(S)
  <2>1. F(S) = f[x] + F(S \ {x}) /\ F(S \ {x}) \in Nat
    BY <1>1, <1>2
  <2> HIDE DEF F
  <2>2. QED
    BY <2>1
<1>4. ASSUME NEW T \in SUBSET S PROVE F(T) <= F(S)
  <2>1. IsFiniteSet(T) /\ IsFiniteSet(S \ T) /\ S = T \union (S \ T)
        /\ T \intersect (S \ T) = {}
    BY FS_Subset
  <2>2. SumFunctionOnSet(f, T \union (S \ T)) = F(T) + F(S \ T)
    BY <2>1, SumUnion
  <2>3. F(T) \in Nat /\ F(S \ T) \in Nat
    BY <1>2
  <2>4. F(S) = F(T) + F(S \ T)
    BY <2>1, <2>2
  <2> HIDE DEF F
  <2>5. QED
    BY <2>3, <2>4
<1>5. QED
  BY <1>2, <1>3, <1>4

\* The sum over one element.
LEMMA SumOfOne ==
  ASSUME NEW f, NEW x, f[x] \in Int
  PROVE  IsFiniteSet({x}) /\ SumFunctionOnSet(f, {x}) = f[x]
<1>1. IsFiniteSet({x}) /\ {x} \ {x} = {}
  BY FS_Singleton
<1>2. SumFunctionOnSet(f, {x}) = f[x] + SumFunctionOnSet(f, {x} \ {x})
  BY <1>1, SumTakesOut
<1>3. SumFunctionOnSet(f, {}) = 0
  BY SumEmpty
<1>4. QED
  BY <1>1, <1>2, <1>3

\* A sum moves by the changes of the entries that change, whether they appear,
\* disappear or stay.
LEMMA SumChanges ==
  ASSUME NEW f, NEW A, IsFiniteSet(A), \A x \in A : f[x] \in Int,
         NEW g, NEW B, IsFiniteSet(B), \A x \in B : g[x] \in Int,
         NEW d, NEW T, IsFiniteSet(T),
         \A x \in T : d[x] = (IF x \in B THEN g[x] ELSE 0) - (IF x \in A THEN f[x] ELSE 0),
         \A x \in (A \union B) \ T : x \in A /\ x \in B /\ f[x] = g[x]
  PROVE  SumFunctionOnSet(g, B) = SumFunctionOnSet(f, A) + SumFunctionOnSet(d, T)
<1> DEFINE K == A \union B \union T
           F == [x \in K |-> IF x \in A THEN f[x] ELSE 0]
           G == [x \in K |-> IF x \in B THEN g[x] ELSE 0]
           D == [x \in K |-> IF x \in T THEN d[x] ELSE 0]
<1>1. IsFiniteSet(K)
  BY FS_Union
<1>2. \A x \in T : d[x] \in Int
  OBVIOUS
<1>3. SumFunctionOnSet(F, K) = SumFunctionOnSet(f, A)
  <2>1. A \in SUBSET K /\ (\A x \in A : F[x] = f[x]) /\ (\A x \in K \ A : F[x] = 0)
    OBVIOUS
  <2> HIDE DEF K, F, G, D
  <2>2. QED
    BY <1>1, <2>1, SumExtended
<1>4. SumFunctionOnSet(G, K) = SumFunctionOnSet(g, B)
  <2>1. B \in SUBSET K /\ (\A x \in B : G[x] = g[x]) /\ (\A x \in K \ B : G[x] = 0)
    OBVIOUS
  <2> HIDE DEF K, F, G, D
  <2>2. QED
    BY <1>1, <2>1, SumExtended
<1>5. SumFunctionOnSet(D, K) = SumFunctionOnSet(d, T)
  <2>1. T \in SUBSET K /\ (\A x \in T : D[x] = d[x]) /\ (\A x \in K \ T : D[x] = 0)
    OBVIOUS
  <2> HIDE DEF K, F, G, D
  <2>2. QED
    BY <1>1, <1>2, <2>1, SumExtended
<1>6. SumFunctionOnSet(G, K) = SumFunctionOnSet(F, K) + SumFunctionOnSet(D, K)
  <2>1. ASSUME NEW x \in K PROVE F[x] \in Int /\ D[x] \in Int /\ G[x] = F[x] + D[x]
    <3>1. /\ F[x] = IF x \in A THEN f[x] ELSE 0
          /\ G[x] = IF x \in B THEN g[x] ELSE 0
          /\ D[x] = IF x \in T THEN d[x] ELSE 0
      OBVIOUS
    <3>2. CASE x \in T
      BY <1>2, <3>1, <3>2
    <3>3. CASE x \notin T
      BY <3>1, <3>3
    <3>4. QED
      BY <3>2, <3>3
  <2> HIDE DEF K, F, G, D
  <2>2. QED
    BY <1>1, <2>1, SumPlus
<1>7. QED
  BY <1>3, <1>4, <1>5, <1>6

-----------------------------------------------------------------------------
(***************************************************************************)
(* One loan account, for every loan.                                       *)
(***************************************************************************)

\* Interest before principal: a loan that is open owes principal, and one that is
\* repaid owes nothing and is owed nothing.
Sound(loan) ==
  /\ IsOpen(loan) <=> loan.outstanding > 0
  /\ ~IsOpen(loan) => /\ loan.accrued_interest = 0
                      /\ loan.reward_due = 0
                      /\ loan.manual_repayment = NoReason

\* Quotient and remainder by a positive number.
LEMMA DivMod ==
  ASSUME NEW a \in Nat, NEW b \in Nat \ {0}
  PROVE  a \div b \in Nat /\ a % b \in 0..(b - 1)
OBVIOUS

\* Rounding down.
LEMMA Division ==
  ASSUME NEW a \in Nat, NEW b \in Nat \ {0}
  PROVE  /\ a = (a \div b) * b + (a % b)
         /\ (a \div b) * b \in Nat
         /\ (a \div b) * b <= a /\ a < (a \div b) * b + b
<1> DEFINE q == a \div b
           r == a % b
<1>1. q \in Nat /\ r \in 0..(b - 1) /\ a = q * b + r
  OBVIOUS
<1> HIDE DEF q, r
<1>2. q * b \in Nat
  BY <1>1
<1>3. q * b <= a /\ a < q * b + b
  BY <1>1, <1>2
<1>4. QED
  BY <1>1, <1>2, <1>3 DEF q, r

\* Rounding up.
LEMMA RoundedUp ==
  ASSUME NEW a \in Nat, NEW b \in Nat \ {0}
  PROVE  /\ DivCeil(a, b) \in Nat
         /\ DivCeil(a, b) * b \in Nat
         /\ a <= DivCeil(a, b) * b /\ DivCeil(a, b) * b < a + b
<1> DEFINE x == a + b - 1
           q == x \div b
<1>1. x \in Nat /\ x + 1 = a + b /\ DivCeil(a, b) = q
  BY DEF DivCeil
<1> HIDE DEF x
<1>2. q \in Nat /\ q * b \in Nat /\ q * b <= x /\ x < q * b + b
  BY <1>1, DivMod, Division
<1> HIDE DEF q
<1>3. q * b < a + b /\ a <= q * b
  BY <1>1, <1>2
<1>4. QED
  BY <1>1, <1>2, <1>3

\* Natural numbers are closed under multiplication, which distributes.
LEMMA Multiply ==
  /\ \A a, b \in Nat : a * b \in Nat /\ a * b = b * a
  /\ \A a, b, c \in Nat : (a + b) * c = a * c + b * c
  /\ \A a, b, c \in Nat : a <= b => a * c <= b * c
  /\ \A a, b, c \in Nat : a * b * c = a * (b * c)
<1>1. \A a, b \in Nat : a * b \in Nat /\ a * b = b * a
  <2>1. \A a, b \in Nat : a * b = b * a
    OBVIOUS
  <2>2. ASSUME NEW a \in Nat, NEW b \in Nat PROVE a * b \in Nat
    OBVIOUS
  <2>3. QED
    BY <2>1, <2>2
<1>2. \A a, b, c \in Nat : (a + b) * c = a * c + b * c
  OBVIOUS
<1>3. \A a, b, c \in Nat : a <= b => a * c <= b * c
  <2>1. ASSUME NEW a \in Nat, NEW b \in Nat, NEW c \in Nat, a <= b
        PROVE  a * c <= b * c
    <3>1. b - a \in Nat /\ b = a + (b - a)
      BY <2>1
    <3>2. b * c = a * c + (b - a) * c
      BY <1>2, <3>1
    <3>3. a * c \in Nat /\ (b - a) * c \in Nat
      BY <1>1, <3>1
    <3>4. QED
      BY <3>2, <3>3
  <2>2. QED
    BY <2>1
<1>4. \A a, b, c \in Nat : a * b * c = a * (b * c)
  OBVIOUS
<1>5. QED
  BY <1>1, <1>2, <1>3, <1>4

\* The arithmetic of a fair withdrawal.  Of h out of S shares, b are burned for p out of the value
\* V; y is what the shares left are worth, w what all were, c the price of a share.
LEMMA FairRounding ==
  ASSUME NEW h \in Nat, NEW S \in Nat \ {0}, NEW V \in Nat, NEW b \in Nat, NEW p \in Nat,
         NEW y \in Nat, NEW w \in Nat, NEW c \in Nat,
         NEW T \in Nat \ {0}, NEW W \in Nat, b <= h,
         b * V < p * S + V, V <= c * S, w * S <= h * V,
         (h - b) * W < y * T + T, V * T <= W * S
  PROVE  w <= p + y + c
<1> DEFINE k == h - b
           z == y + 1
<1>1. k \in Nat /\ h = k + b /\ z \in Nat
  OBVIOUS
<1>2. k * W < z * T
  <2>1. z * T = y * T + T
    <3>1. \A u, v \in Nat : (u + 1) * v = u * v + v
      OBVIOUS
    <3>2. QED
      BY <3>1
  <2>2. QED
    BY <2>1
<1> HIDE DEF k, z
<1>3. h * V = k * V + b * V
  <2>1. \A u, v, x \in Nat : (u + v) * x = u * x + v * x
    OBVIOUS
  <2>2. QED
    BY <1>1, <2>1
<1>4. k * V < z * S
  <2> SUFFICES ASSUME z * S <= k * V PROVE FALSE
    BY <1>1
  <2>1. (z * S) * T <= (k * V) * T
    BY <1>1, Multiply
  <2>2. (k * V) * T = k * (V * T) /\ (z * S) * T = (z * T) * S
    <3>1. \A u, v, x \in Nat : (u * v) * x = u * (v * x) /\ (u * v) * x = (u * x) * v
      OBVIOUS
    <3>2. QED
      BY <1>1, <3>1
  <2>3. k * (V * T) <= k * (W * S)
    <3>1. V * T \in Nat /\ W * S \in Nat
      OBVIOUS
    <3> DEFINE u == V * T
               v == W * S
    <3>2. u \in Nat /\ v \in Nat /\ u <= v
      BY <3>1
    <3> HIDE DEF u, v
    <3>3. u * k <= v * k /\ u * k = k * u /\ v * k = k * v
      BY <1>1, <3>2, Multiply
    <3>4. QED
      BY <3>3 DEF u, v
  <2>4. k * (W * S) = (k * W) * S
    <3>1. \A u, v, x \in Nat : (u * v) * x = u * (v * x)
      OBVIOUS
    <3>2. QED
      BY <1>1, <3>1
  <2>5. (k * W) * S < (z * T) * S
    <3> DEFINE u == k * W
               v == z * T
    <3>1. u \in Nat /\ v \in Nat /\ u + 1 <= v
      BY <1>1, <1>2
    <3> HIDE DEF u, v
    <3>2. (u + 1) * S <= v * S
      BY <3>1, Multiply
    <3>3. (u + 1) * S = u * S + S /\ u * S \in Nat
      <4>1. \A x, a \in Nat : (x + 1) * a = x * a + a /\ x * a \in Nat
        OBVIOUS
      <4>2. QED
        BY <3>1, <4>1
    <3>4. QED
      BY <3>1, <3>2, <3>3 DEF u, v
  <2>6. /\ (z * S) * T \in Nat /\ (k * V) * T \in Nat /\ (z * T) * S \in Nat
        /\ k * (V * T) \in Nat /\ k * (W * S) \in Nat /\ (k * W) * S \in Nat
    BY <1>1
  <2>7. QED
    BY <2>1, <2>2, <2>3, <2>4, <2>5, <2>6
<1>5. w * S < (p + z + c) * S
  <2>1. (p + z + c) * S = p * S + z * S + c * S
    <3>1. \A u, v, x, a \in Nat : (u + v + x) * a = u * a + v * a + x * a
      OBVIOUS
    <3>2. QED
      BY <1>1, <3>1
  <2>2. /\ p * S \in Nat /\ z * S \in Nat /\ c * S \in Nat /\ k * V \in Nat
        /\ b * V \in Nat /\ w * S \in Nat /\ h * V \in Nat
    BY <1>1
  <2>3. QED
    BY <1>3, <1>4, <2>1, <2>2
<1>6. w < p + z + c
  <2> SUFFICES ASSUME p + z + c <= w PROVE FALSE
    BY <1>1
  <2>1. (p + z + c) * S <= w * S /\ (p + z + c) * S \in Nat /\ w * S \in Nat
    BY <1>1, Multiply
  <2>2. QED
    BY <1>5, <2>1
<1>7. QED
  BY <1>6 DEF z

\* The same when every share there is is burned.
LEMMA FairRoundingOut ==
  ASSUME NEW S \in Nat \ {0}, NEW V \in Nat, NEW p \in Nat, NEW w \in Nat, NEW c \in Nat,
         w * S <= S * V, S * V < p * S + V, V <= c * S
  PROVE  w <= p + c
<1>1. w * S < p * S + c * S + S
  <2>1. /\ w * S \in Nat /\ S * V \in Nat /\ p * S \in Nat /\ c * S \in Nat
    BY Multiply
  <2>2. QED
    BY <2>1
<1> SUFFICES ASSUME p + c + 1 <= w PROVE FALSE
  OBVIOUS
<1>2. (p + c + 1) * S <= w * S
  BY Multiply
<1>3. (p + c + 1) * S = p * S + c * S + S
  <2>1. \A u, v, x \in Nat : (u + v + 1) * x = u * x + v * x + x
    OBVIOUS
  <2>2. QED
    BY <2>1
<1>4. w * S \in Nat /\ p * S + c * S + S \in Nat
  BY Multiply
<1>5. QED
  BY <1>1, <1>2, <1>3, <1>4

\* A withdrawal leaves g shares of the T that are left, of the value W.
LEMMA FairLot ==
  ASSUME NEW h \in Nat, NEW S \in Nat \ {0}, NEW V \in Nat \ {0}, NEW b \in Nat,
         NEW p \in Nat, NEW y \in Nat, NEW w \in Nat, NEW c \in Nat, NEW T \in Nat,
         NEW W \in Nat, NEW g \in Nat, h <= S, b <= h, g = h - b, T = S - b, W = V - p,
         p * S <= b * V, b * V < p * S + V, V <= c * S, w * S <= h * V,
         T > 0 => g * W < y * T + T
  PROVE  w <= p + y + c
<1>1. CASE T > 0
  <2>1. V * T <= W * S
    <3>1. V * T + b * V = V * S
      <4>1. (T + b) * V = T * V + b * V /\ T + b = S
        BY Multiply
      <4>2. T * V = V * T /\ S * V = V * S
        BY Multiply
      <4>3. QED
        BY <4>1, <4>2
    <3>2. W * S + p * S = V * S
      <4>1. (W + p) * S = W * S + p * S /\ W + p = V
        BY Multiply
      <4>2. QED
        BY <4>1
    <3>3. V * T \in Nat /\ W * S \in Nat /\ p * S \in Nat /\ b * V \in Nat
      BY Multiply
    <3>4. QED
      BY <3>1, <3>2, <3>3
  <2>2. (h - b) * W < y * T + T
    BY <1>1
  <2>3. T \in Nat \ {0} /\ V \in Nat
    BY <1>1
  <2>4. QED
    BY <2>1, <2>2, <2>3, FairRounding
<1>2. CASE ~(T > 0)
  <2>1. b = S /\ h = S
    BY <1>2
  <2>2. w * S <= S * V /\ S * V < p * S + V
    BY <2>1
  <2>3. w <= p + c
    BY <2>2, FairRoundingOut
  <2>4. QED
    BY <2>3
<1>3. QED
  BY <1>1, <1>2

\* The fields of a loan account.
LEMMA LoanFields ==
  ASSUME NEW loan \in LoanType
  PROVE  /\ loan.outstanding \in Nat /\ loan.outstanding <= U64_MAX
         /\ loan.accrued_interest \in Nat /\ loan.accrued_interest <= U64_MAX
         /\ loan.interest_remainder \in Nat
         /\ loan.last_accrual_at \in Nat
         /\ loan.apr_bps \in Nat
         /\ loan.due_at \in Nat
BY ArithmeticAssumption, LoanAssumption DEF LoanType, U64

\* The interest of any period is a natural number.
LEMMA InterestType ==
  ASSUME NEW loan \in LoanType, NEW now \in Nat
  PROVE  /\ InterestTo(loan, now) \in Nat
         /\ now > loan.last_accrual_at =>
              AccrualNumerator(loan, now) % ACCRUAL_DENOMINATOR
                \in 0..(ACCRUAL_DENOMINATOR - 1)
<1>1. CASE now <= loan.last_accrual_at
  BY <1>1, LoanFields DEF InterestTo
<1>2. CASE now > loan.last_accrual_at
  <2>1. /\ loan.outstanding \in Nat /\ loan.apr_bps \in Nat
        /\ now - loan.last_accrual_at \in Nat /\ loan.interest_remainder \in Nat
    BY <1>2, LoanFields
  <2>2. \A a, b, c, d \in Nat : a * b * c + d \in Nat
    OBVIOUS
  <2>3. AccrualNumerator(loan, now) \in Nat
    BY <2>1, <2>2 DEF AccrualNumerator
  <2>4. QED
    BY <1>2, <2>3, DivMod, LoanAssumption, LoanFields DEF InterestTo
<1>3. QED
  BY <1>1, <1>2, LoanFields

\* accrue touches the booked interest, the fraction carried and the clock of the
\* loan, and leaves an account as long as what is owed fits.
LEMMA AccrueFacts ==
  ASSUME NEW loan \in LoanType, NEW now \in Nat
  PROVE  LET a == Accrue(loan, now)
         IN  /\ a.outstanding = loan.outstanding
             /\ a.accrued_interest = loan.accrued_interest + InterestTo(loan, now)
             /\ a.status = loan.status
             /\ a.reward_due = loan.reward_due
             /\ a.manual_repayment = loan.manual_repayment
             /\ TotalOwed(a) = TotalOwed(loan) + InterestTo(loan, now)
             /\ Fits(TotalOwed(a)) => a \in LoanType
<1>1. CASE now <= loan.last_accrual_at
  <2>1. Accrue(loan, now) = loan /\ InterestTo(loan, now) = 0
    BY <1>1 DEF Accrue, InterestTo
  <2>2. QED
    BY <2>1, LoanFields DEF TotalOwed
<1>2. CASE now > loan.last_accrual_at
  <2> DEFINE i == InterestTo(loan, now)
             rem == AccrualNumerator(loan, now) % ACCRUAL_DENOMINATOR
             a == [loan EXCEPT !.accrued_interest = @ + i,
                               !.interest_remainder = rem,
                               !.last_accrual_at = now]
  <2>1. Accrue(loan, now) = a
    BY <1>2, LoanFields DEF Accrue
  <2>2. i \in Nat /\ rem \in 0..(ACCRUAL_DENOMINATOR - 1)
    BY <1>2, InterestType
  <2> HIDE DEF i, rem
  <2>3. /\ a.outstanding = loan.outstanding
        /\ a.accrued_interest = loan.accrued_interest + i
        /\ a.status = loan.status
        /\ a.reward_due = loan.reward_due
        /\ a.manual_repayment = loan.manual_repayment
    BY DEF LoanType
  <2>4. TotalOwed(a) = TotalOwed(loan) + i
    BY <2>2, <2>3, LoanFields DEF TotalOwed
  <2>5. Fits(TotalOwed(a)) => loan.accrued_interest + i \in U64
    BY <2>2, <2>3, LoanFields, ArithmeticAssumption DEF TotalOwed, Fits, U64
  <2>6. Fits(TotalOwed(a)) => a \in LoanType
    BY <2>2, <2>5 DEF LoanType
  <2>7. QED
    BY <2>1, <2>3, <2>4, <2>6 DEF i
<1>3. QED
  BY <1>1, <1>2, LoanFields

\* apply_repayment pays interest and principal within what is owed, and keeps a
\* sound open loan sound.
LEMMA RepaymentFacts ==
  ASSUME NEW loan \in LoanType, NEW max_amount \in Nat, Fits(TotalOwed(loan))
  PROVE  /\ InterestPart(loan, max_amount) \in Nat
         /\ PrincipalPart(loan, max_amount) \in Nat
         /\ Least(max_amount, TotalOwed(loan)) \in U64
         /\ ApplyRepayment(loan, max_amount) \in LoanType
         /\ IsOpen(loan) /\ Sound(loan) => Sound(ApplyRepayment(loan, max_amount))
<1> DEFINE i == InterestPart(loan, max_amount)
           p == PrincipalPart(loan, max_amount)
           left == [loan EXCEPT !.accrued_interest = @ - i, !.outstanding = @ - p]
<1>1. /\ i \in Nat /\ p \in Nat
      /\ i <= loan.accrued_interest /\ p <= loan.outstanding
      /\ p > 0 => i = loan.accrued_interest
      /\ Least(max_amount, TotalOwed(loan)) \in U64
  BY ArithmeticAssumption, LoanFields
     DEF InterestPart, PrincipalPart, TotalOwed, Least, Fits, U64
<1>2. ApplyRepayment(loan, max_amount) =
        IF TotalOwed(left) = 0
          THEN [left EXCEPT !.status = "Repaid", !.reward_due = 0,
                            !.manual_repayment = NoReason]
          ELSE left
  BY DEF ApplyRepayment
<1> HIDE DEF i, p
<1>3. 0 \in U64 /\ loan.outstanding - p \in U64 /\ loan.accrued_interest - i \in U64
  BY <1>1, LoanFields, ArithmeticAssumption DEF U64
<1>4. left \in LoanType
  BY <1>3 DEF LoanType
<1>5. /\ left.outstanding = loan.outstanding - p
      /\ left.accrued_interest = loan.accrued_interest - i
      /\ left.status = loan.status
  BY DEF LoanType
<1> HIDE DEF left
<1>6. ApplyRepayment(loan, max_amount) \in LoanType
  <2>1. "Repaid" \in LoanStatuses /\ NoReason \in ManualReasons \union {NoReason}
    BY DEF LoanStatuses
  <2>2. QED
    BY <1>2, <1>3, <1>4, <2>1 DEF LoanType
<1>7. ASSUME IsOpen(loan), Sound(loan)
      PROVE  Sound(ApplyRepayment(loan, max_amount))
  <2>1. CASE TotalOwed(left) = 0
    <3>1. left.outstanding = 0 /\ left.accrued_interest = 0
      BY <2>1, <1>1, <1>5, LoanFields DEF TotalOwed
    <3>2. QED
      BY <1>2, <1>4, <2>1, <3>1 DEF Sound, IsOpen, LoanType
  <2>2. CASE TotalOwed(left) # 0
    <3>1. left.outstanding > 0
      BY <2>2, <1>1, <1>5, <1>7, LoanFields DEF TotalOwed, Sound
    <3>2. QED
      BY <1>2, <2>2, <1>5, <1>7, <3>1 DEF Sound, IsOpen
  <2>3. QED
    BY <2>1, <2>2
<1>8. QED
  BY <1>1, <1>6, <1>7 DEF i, p

-----------------------------------------------------------------------------
(***************************************************************************)
(* The replay window, for every window size.                               *)
(***************************************************************************)

\* An accepted nonce slides the window to a floor that is no lower, and the bits
\* it keeps are the ones at or above the new floor.
LEMMA ReachingFacts ==
  ASSUME NEW w \in WindowType, NEW nonce \in Nat, nonce >= w.nonce_floor
  PROVE  LET r == Reaching(w, nonce)
         IN  /\ r \in WindowType
             /\ r.nonce_floor >= w.nonce_floor
             /\ nonce - r.nonce_floor \in 0..(NONCE_WINDOW - 1)
             /\ \A bit \in 0..(NONCE_WINDOW - 1) :
                  bit \in r.used_nonces
                    <=> bit + (r.nonce_floor - w.nonce_floor) \in w.used_nonces
             /\ r.nonce_floor = w.nonce_floor
                  \/ r.nonce_floor + NONCE_WINDOW - 1 = nonce
<1> DEFINE slide == nonce - w.nonce_floor - (NONCE_WINDOW - 1)
<1>1. w.nonce_floor \in Nat /\ w.used_nonces \subseteq 0..(NONCE_WINDOW - 1)
      /\ NONCE_WINDOW \in Nat \ {0}
  BY NonceWindowAssumption DEF WindowType
<1>2. CASE nonce - w.nonce_floor >= NONCE_WINDOW
  <2>1. Reaching(w, nonce) =
          [ nonce_floor |-> w.nonce_floor + slide,
            used_nonces |-> ShiftWindowDown(w.used_nonces, slide) ]
    BY <1>2 DEF Reaching
  <2>2. slide \in Nat /\ w.nonce_floor + slide = nonce - (NONCE_WINDOW - 1)
    BY <1>1, <1>2
  <2> HIDE DEF slide
  <2>3. QED
    BY <1>1, <2>1, <2>2 DEF WindowType, ShiftWindowDown
<1>3. CASE ~(nonce - w.nonce_floor >= NONCE_WINDOW)
  <2>1. Reaching(w, nonce) = w
    BY <1>3 DEF Reaching
  <2>2. QED
    BY <1>1, <1>3, <2>1 DEF WindowType
<1>4. QED
  BY <1>2, <1>3

\* Consuming an accepted nonce leaves a window.
LEMMA ConsumeNonceType ==
  ASSUME NEW w \in WindowType, NEW nonce \in Nat, AcceptsNonce(w, nonce)
  PROVE  ConsumeNonce(w, nonce) \in WindowType
BY ReachingFacts, NonceWindowAssumption DEF AcceptsNonce, ConsumeNonce, WindowType

\* A nonce is refused exactly when it is below the floor or its bit is set.
LEMMA RefusedMeans ==
  ASSUME NEW w \in WindowType, NEW nonce \in Nat
  PROVE  ~AcceptsNonce(w, nonce)
           <=> nonce < w.nonce_floor \/ nonce - w.nonce_floor \in w.used_nonces
<1> DEFINE r == Reaching(w, nonce)
<1>1. w.nonce_floor \in Nat /\ w.used_nonces \subseteq 0..(NONCE_WINDOW - 1)
      /\ NONCE_WINDOW \in Nat \ {0}
  BY NonceWindowAssumption DEF WindowType
<1>2. CASE nonce >= w.nonce_floor
  <2>1. /\ nonce - r.nonce_floor \in 0..(NONCE_WINDOW - 1)
        /\ r.nonce_floor \in Nat
        /\ \A bit \in 0..(NONCE_WINDOW - 1) :
             bit \in r.used_nonces
               <=> bit + (r.nonce_floor - w.nonce_floor) \in w.used_nonces
    BY <1>2, ReachingFacts DEF WindowType
  <2>2. AcceptsNonce(w, nonce) <=> nonce - r.nonce_floor \notin r.used_nonces
    BY <1>2 DEF AcceptsNonce
  <2> HIDE DEF r
  <2>3. (nonce - r.nonce_floor) + (r.nonce_floor - w.nonce_floor)
          = nonce - w.nonce_floor
    BY <1>1, <2>1
  <2>4. QED
    BY <1>1, <1>2, <2>1, <2>2, <2>3
<1>3. CASE nonce < w.nonce_floor
  BY <1>1, <1>3 DEF AcceptsNonce
<1>4. QED
  BY <1>1, <1>2, <1>3

\* A nonce that was refused, or that is the one consumed, is refused afterwards:
\* sliding the window never makes room for an old attestation.
LEMMA RefusedForGood ==
  ASSUME NEW w \in WindowType, NEW nonce \in Nat, AcceptsNonce(w, nonce),
         NEW other \in Nat, other = nonce \/ ~AcceptsNonce(w, other)
  PROVE  ~AcceptsNonce(ConsumeNonce(w, nonce), other)
<1> DEFINE r == Reaching(w, nonce)
           c == ConsumeNonce(w, nonce)
<1>1. /\ w.nonce_floor \in Nat /\ w.used_nonces \subseteq 0..(NONCE_WINDOW - 1)
      /\ NONCE_WINDOW \in Nat \ {0} /\ nonce >= w.nonce_floor
  BY NonceWindowAssumption DEF WindowType, AcceptsNonce
<1>2. /\ r \in WindowType /\ r.nonce_floor \in Nat
      /\ r.nonce_floor >= w.nonce_floor
      /\ \A bit \in 0..(NONCE_WINDOW - 1) :
           bit \in r.used_nonces
             <=> bit + (r.nonce_floor - w.nonce_floor) \in w.used_nonces
  BY <1>1, ReachingFacts DEF WindowType
<1>3. /\ c \in WindowType
      /\ c.nonce_floor = r.nonce_floor
      /\ c.used_nonces = r.used_nonces \union {nonce - r.nonce_floor}
  <2>1. c \in WindowType
    BY ConsumeNonceType
  <2>2. QED
    BY <2>1, <1>2 DEF ConsumeNonce, WindowType
<1>4. SUFFICES other < c.nonce_floor \/ other - c.nonce_floor \in c.used_nonces
  BY <1>3, RefusedMeans
<1> HIDE DEF r, c
<1>5. CASE other = nonce
  BY <1>3, <1>5
<1>6. CASE other # nonce /\ other >= r.nonce_floor
  <2>1. other - w.nonce_floor \in w.used_nonces
    BY <1>1, <1>2, <1>6, RefusedMeans
  <2>2. other - r.nonce_floor \in 0..(NONCE_WINDOW - 1)
    BY <1>1, <1>2, <1>6, <2>1
  <2>3. (other - r.nonce_floor) + (r.nonce_floor - w.nonce_floor)
          = other - w.nonce_floor
    BY <1>1, <1>2
  <2>4. QED
    BY <1>2, <1>3, <2>1, <2>2, <2>3
<1>7. QED
  BY <1>2, <1>3, <1>5, <1>6
-----------------------------------------------------------------------------
(***************************************************************************)
(* withholdings.  The recursive function behind it exists for every list   *)
(* of claims, and the claims are served within what there is.              *)
(***************************************************************************)

\* Induction up to a number, with the set of the numbers for which it holds.
LEMMA CountingInduction ==
  ASSUME NEW n \in Nat, NEW Good, 0 \in Good,
         \A i \in 1..n : i - 1 \in Good => i \in Good
  PROVE  \A i \in 0..n : i \in Good
<1> DEFINE R == OpToRel(<, Nat)
           Bad == {i \in 0..n : i \notin Good}
<1>1. IsWellFoundedOn(R, Nat)
  BY NatLessThanWellFounded
<1>2. ASSUME Bad # {} PROVE FALSE
  <2>1. Bad \subseteq Nat
    OBVIOUS
  <2> HIDE DEF R, Bad
  <2>2. PICK i \in Bad : \A j \in Bad : ~(<<j, i>> \in R)
    BY <1>1, <1>2, <2>1, WFMin
  <2>3. i \in 0..n /\ i \notin Good
    BY <2>2 DEF Bad
  <2>4. i \in 1..n /\ i - 1 \in 0..n /\ i - 1 \in Nat /\ i \in Nat
    BY <2>3
  <2>5. i - 1 \notin Good
    BY <2>3, <2>4
  <2>6. i - 1 \in Bad
    BY <2>4, <2>5 DEF Bad
  <2>7. <<i - 1, i>> \in R
    BY <2>4 DEF R, OpToRel
  <2>8. QED
    BY <2>2, <2>6, <2>7
<1>3. QED
  BY <1>2

\* What one claim gets after the ones before it.
Served(claim, payout, before) ==
  LET fresh == Fresh(claim, payout, before.payout_left)
      owed  == EarlierDue(claim) + fresh
      take  == Least(owed, before.left)
  IN  [ owed        |-> owed,
        take        |-> take,
        payout_left |-> before.payout_left - fresh,
        left        |-> before.left - take ]

\* Nothing is served yet.
Unserved(payout, available) ==
  [owed |-> 0, take |-> 0, payout_left |-> payout, left |-> available]

\* serve holds what each of the first n claims gets, the way withholdings says.
Serving(serve, payout, available, claims, n) ==
  serve = [i \in 0..n |-> IF i = 0 THEN Unserved(payout, available)
                          ELSE Served(claims[i], payout, serve[i - 1])]

\* There is such a function for any number of claims.
LEMMA ServingExists ==
  ASSUME NEW payout, NEW available, NEW claims, NEW n \in Nat
  PROVE  \E serve : Serving(serve, payout, available, claims, n)
<1> DEFINE Good == {k \in 0..n : \E serve : Serving(serve, payout, available, claims, k)}
<1>1. 0 \in Good
  <2> DEFINE serve == [i \in 0..0 |-> Unserved(payout, available)]
  <2>1. Serving(serve, payout, available, claims, 0)
    BY DEF Serving
  <2>2. QED
    BY <2>1
<1>2. ASSUME NEW k \in 1..n, k - 1 \in Good PROVE k \in Good
  <2>1. PICK before : Serving(before, payout, available, claims, k - 1)
    BY <1>2
  <2> DEFINE S(i) == IF i = k THEN Served(claims[k], payout, before[k - 1]) ELSE before[i]
             serve == [i \in 0..k |-> S(i)]
  <2>2. ASSUME NEW i \in 0..k
        PROVE  S(i) = IF i = 0 THEN Unserved(payout, available)
                      ELSE Served(claims[i], payout, serve[i - 1])
    <3>1. CASE i = k
      <4>1. serve[i - 1] = before[k - 1] /\ i # 0
        BY <3>1
      <4> HIDE DEF serve
      <4>2. QED
        BY <3>1, <4>1
    <3>2. CASE i # k
      <4>1. i \in 0..(k - 1) /\ (i # 0 => i - 1 \in 0..k /\ i - 1 # k)
        BY <3>2
      <4>2. before[i] = IF i = 0 THEN Unserved(payout, available)
                        ELSE Served(claims[i], payout, before[i - 1])
        BY <2>1, <4>1 DEF Serving
      <4>3. i # 0 => serve[i - 1] = before[i - 1]
        BY <4>1
      <4> HIDE DEF serve
      <4>4. QED
        BY <3>2, <4>2, <4>3
    <3>3. QED
      BY <3>1, <3>2
  <2>3. Serving(serve, payout, available, claims, k)
    <3>1. serve = [i \in 0..k |-> S(i)]
      OBVIOUS
    <3> HIDE DEF S, serve
    <3>2. QED
      BY <2>2, <3>1 DEF Serving
  <2> HIDE DEF serve
  <2>4. QED
    BY <2>3
<1>3. \A k \in 0..n : k \in Good
  <2> HIDE DEF Good
  <2>1. QED
    BY <1>1, <1>2, CountingInduction
<1>4. QED
  BY <1>3

\* parts is what serve says of each claim.
Answers(parts, serve, n) ==
  parts = [i \in 1..n |-> [owed |-> serve[i].owed, take |-> serve[i].take]]

\* withholdings reads its answer off such a function.
LEMMA WithholdingsAreServed ==
  ASSUME NEW payout \in Nat, NEW available \in Nat, NEW claims, Len(claims) \in Nat
  PROVE  \E serve :
           /\ Serving(serve, payout, available, claims, Len(claims))
           /\ Answers(Withholdings(payout, available, claims), serve, Len(claims))
<1> DEFINE serve == CHOOSE f : Serving(f, payout, available, claims, Len(claims))
<1>1. Serving(serve, payout, available, claims, Len(claims))
  BY ServingExists
<1>2. Answers(Withholdings(payout, available, claims), serve, Len(claims))
  BY DEF Withholdings, Serving, Served, Unserved, Answers
<1> HIDE DEF serve
<1>3. QED
  BY <1>1, <1>2
\* What withholdings is told of each claim.
ClaimType == [sweep_bps : 1..BPS, need : Nat, due : Nat]

\* A claim gets no more than it is owed, and is owed no more than pays it off, nor
\* more than is due to it and left of the payout.
LEMMA ServedFacts ==
  ASSUME NEW claim \in ClaimType, NEW payout \in Nat, NEW before,
         before.payout_left \in Nat, before.left \in Nat
  PROVE  LET s == Served(claim, payout, before)
         IN  /\ s.owed \in Nat /\ s.take \in Nat
             /\ s.payout_left \in Nat /\ s.left \in Nat
             /\ s.owed <= claim.need /\ s.take <= s.owed
             /\ s.owed + s.payout_left <= claim.due + before.payout_left
             /\ s.take + s.left = before.left
             /\ s.take < s.owed => s.left = 0
<1> DEFINE share == (payout * claim.sweep_bps) \div BPS
           earlier == EarlierDue(claim)
           fresh == Fresh(claim, payout, before.payout_left)
           owed == earlier + fresh
           take == Least(owed, before.left)
<1>1. claim.sweep_bps \in Nat /\ claim.need \in Nat /\ claim.due \in Nat
  BY ArithmeticAssumption DEF ClaimType
<1>2. share \in Nat
  <2>1. payout * claim.sweep_bps \in Nat
    BY <1>1, Multiply
  <2>2. QED
    BY <2>1, ArithmeticAssumption, DivMod
<1>3. earlier \in Nat /\ earlier <= claim.need /\ earlier <= claim.due
  BY <1>1 DEF EarlierDue, Least
<1>4. fresh = Least(Least(share, claim.need - earlier), before.payout_left)
  BY DEF Fresh
<1> HIDE DEF share, earlier, fresh
<1>5. /\ fresh \in Nat /\ fresh <= claim.need - earlier
      /\ fresh <= before.payout_left
  BY <1>1, <1>2, <1>3, <1>4 DEF Least
<1>6. /\ owed \in Nat /\ owed <= claim.need
      /\ take \in Nat /\ take <= owed /\ take <= before.left
      /\ take < owed => take = before.left
  BY <1>1, <1>3, <1>5 DEF Least
<1>7. Served(claim, payout, before)
        = [ owed        |-> owed,
            take        |-> take,
            payout_left |-> before.payout_left - fresh,
            left        |-> before.left - take ]
  BY DEF Served, earlier, fresh
<1> HIDE DEF take
<1>8. owed + (before.payout_left - fresh) <= claim.due + before.payout_left
  BY <1>1, <1>3, <1>5
<1> HIDE DEF owed
<1>9. QED
  BY <1>5, <1>6, <1>7, <1>8

\* What each of the first n claims gets, one after the other.
WellServed(serve, payout, available, claims, n) ==
  /\ serve[0].payout_left = payout /\ serve[0].left = available
  /\ \A i \in 0..n : serve[i].payout_left \in Nat /\ serve[i].left \in Nat
  /\ \A i \in 1..n :
       /\ serve[i].owed \in Nat /\ serve[i].take \in Nat
       /\ serve[i].owed <= claims[i].need /\ serve[i].take <= serve[i].owed
       /\ serve[i].owed + serve[i].payout_left
            <= claims[i].due + serve[i - 1].payout_left
       /\ serve[i].take + serve[i].left = serve[i - 1].left
       /\ serve[i].take < serve[i].owed => serve[i].left = 0

\* withholdings serves well.
LEMMA ServingFacts ==
  ASSUME NEW payout \in Nat, NEW available \in Nat, NEW claims, NEW n \in Nat,
         \A i \in 1..n : claims[i] \in ClaimType,
         NEW serve, Serving(serve, payout, available, claims, n)
  PROVE  WellServed(serve, payout, available, claims, n)
<1> DEFINE Good == {i \in 0..n : serve[i].payout_left \in Nat /\ serve[i].left \in Nat}
<1>1. serve[0] = Unserved(payout, available)
  BY DEF Serving
<1>2. \A i \in 1..n : serve[i] = Served(claims[i], payout, serve[i - 1])
  BY DEF Serving
<1>3. serve[0].payout_left = payout /\ serve[0].left = available
  BY <1>1 DEF Unserved
<1>4. ASSUME NEW i \in 1..n, i - 1 \in Good PROVE i \in Good
  <2>1. serve[i - 1].payout_left \in Nat /\ serve[i - 1].left \in Nat
    BY <1>4
  <2>2. serve[i].payout_left \in Nat /\ serve[i].left \in Nat
    BY <1>2, <2>1, ServedFacts
  <2>3. QED
    BY <2>2
<1>5. 0 \in Good
  BY <1>3
<1>6. \A i \in 0..n : i \in Good
  <2> HIDE DEF Good
  <2>1. QED
    BY <1>4, <1>5, CountingInduction
<1>7. \A i \in 0..n : serve[i].payout_left \in Nat /\ serve[i].left \in Nat
  BY <1>6
<1>8. ASSUME NEW i \in 1..n
      PROVE  /\ serve[i].owed \in Nat /\ serve[i].take \in Nat
             /\ serve[i].owed <= claims[i].need /\ serve[i].take <= serve[i].owed
             /\ serve[i].owed + serve[i].payout_left
                  <= claims[i].due + serve[i - 1].payout_left
             /\ serve[i].take + serve[i].left = serve[i - 1].left
             /\ serve[i].take < serve[i].owed => serve[i].left = 0
  <2>1. serve[i - 1].payout_left \in Nat /\ serve[i - 1].left \in Nat
    BY <1>7
  <2>2. serve[i] = Served(claims[i], payout, serve[i - 1]) /\ claims[i] \in ClaimType
    BY <1>2
  <2>3. QED
    BY <2>1, <2>2, ServedFacts
<1>9. QED
  BY <1>3, <1>7, <1>8 DEF WellServed

\* The columns of what the claims are owed, take and were due.
ClaimColumns(owed, take, due, serve, claims, n) ==
  \A i \in 1..n : /\ owed[i] = serve[i].owed
                  /\ take[i] = serve[i].take
                  /\ due[i] = claims[i].due

\* The sums over the first claims: what is taken and what is left make up what was
\* available, and no more is owed than was due and paid out.
LEMMA ServingSums ==
  ASSUME NEW payout \in Nat, NEW available \in Nat, NEW claims, NEW n \in Nat,
         \A i \in 1..n : claims[i] \in ClaimType,
         NEW serve, Serving(serve, payout, available, claims, n),
         NEW owed, NEW take, NEW due, ClaimColumns(owed, take, due, serve, claims, n)
  PROVE  \A i \in 0..n :
           /\ SumFunctionOnSet(take, 1..i) + serve[i].left = available
           /\ SumFunctionOnSet(owed, 1..i) + serve[i].payout_left
                <= payout + SumFunctionOnSet(due, 1..i)
<1> DEFINE T(i) == SumFunctionOnSet(take, 1..i)
           O(i) == SumFunctionOnSet(owed, 1..i)
           D(i) == SumFunctionOnSet(due, 1..i)
           Good == {i \in 0..n : /\ T(i) \in Int /\ O(i) \in Int /\ D(i) \in Int
                                 /\ T(i) + serve[i].left = available
                                 /\ O(i) + serve[i].payout_left <= payout + D(i)}
<1>1. /\ serve[0].payout_left = payout /\ serve[0].left = available
      /\ \A i \in 0..n : serve[i].payout_left \in Nat /\ serve[i].left \in Nat
      /\ \A i \in 1..n :
           /\ serve[i].owed \in Nat /\ serve[i].take \in Nat
           /\ serve[i].owed <= claims[i].need /\ serve[i].take <= serve[i].owed
           /\ serve[i].owed + serve[i].payout_left
                <= claims[i].due + serve[i - 1].payout_left
           /\ serve[i].take + serve[i].left = serve[i - 1].left
           /\ serve[i].take < serve[i].owed => serve[i].left = 0
  <2>1. WellServed(serve, payout, available, claims, n)
    BY ServingFacts
  <2>2. QED
    BY <2>1 DEF WellServed
<1>2. ASSUME NEW i \in 1..n
      PROVE  owed[i] \in Int /\ take[i] \in Int /\ due[i] \in Int
  BY <1>1 DEF ClaimType, ClaimColumns
<1>3. ASSUME NEW i \in 1..n
      PROVE  /\ T(i) = take[i] + T(i - 1)
             /\ O(i) = owed[i] + O(i - 1)
             /\ D(i) = due[i] + D(i - 1)
  <2>1. IsFiniteSet(1..i) /\ i \in 1..i /\ (1..i) \ {i} = 1..(i - 1)
    <3>1. 1 \in Int /\ i \in Int
      OBVIOUS
    <3>2. IsFiniteSet(1..i)
      BY <3>1, FS_Interval
    <3>3. QED
      BY <3>2
  <2>2. \A j \in 1..i : owed[j] \in Int /\ take[j] \in Int /\ due[j] \in Int
    BY <1>2
  <2>3. /\ SumFunctionOnSet(take, 1..i) = take[i] + SumFunctionOnSet(take, (1..i) \ {i})
        /\ SumFunctionOnSet(owed, 1..i) = owed[i] + SumFunctionOnSet(owed, (1..i) \ {i})
        /\ SumFunctionOnSet(due, 1..i) = due[i] + SumFunctionOnSet(due, (1..i) \ {i})
    <3> HIDE DEF T, O, D, Good
    <3> DEFINE S == 1..i
    <3>1. IsFiniteSet(S) /\ i \in S
          /\ \A j \in S : owed[j] \in Int /\ take[j] \in Int /\ due[j] \in Int
      BY <2>1, <2>2
    <3> HIDE DEF S
    <3>2. SumFunctionOnSet(take, S) = take[i] + SumFunctionOnSet(take, S \ {i})
      BY ZenonT(40), <3>1, SumTakesOut
    <3>3. SumFunctionOnSet(owed, S) = owed[i] + SumFunctionOnSet(owed, S \ {i})
      BY ZenonT(40), <3>1, SumTakesOut
    <3>4. SumFunctionOnSet(due, S) = due[i] + SumFunctionOnSet(due, S \ {i})
      BY ZenonT(40), <3>1, SumTakesOut
    <3>5. QED
      BY <3>2, <3>3, <3>4 DEF S
  <2>4. QED
    BY <2>1, <2>3
<1>4. 1..0 = {} /\ T(0) = 0 /\ O(0) = 0 /\ D(0) = 0
  <2>1. 1..0 = {}
    OBVIOUS
  <2>2. QED
    BY <2>1, SumEmpty
<1> HIDE DEF T, O, D
<1>5. 0 \in Good
  BY <1>1, <1>4
<1>6. ASSUME NEW i \in 1..n, i - 1 \in Good PROVE i \in Good
  <2>1. /\ T(i - 1) \in Int /\ O(i - 1) \in Int /\ D(i - 1) \in Int
        /\ T(i - 1) + serve[i - 1].left = available
        /\ O(i - 1) + serve[i - 1].payout_left <= payout + D(i - 1)
    BY <1>6
  <2>2. /\ T(i) = serve[i].take + T(i - 1)
        /\ O(i) = serve[i].owed + O(i - 1)
        /\ D(i) = claims[i].due + D(i - 1)
        /\ claims[i].due \in Int
    BY <1>2, <1>3 DEF ClaimColumns
  <2>3. /\ serve[i].owed \in Nat /\ serve[i].take \in Nat
        /\ serve[i].left \in Nat /\ serve[i - 1].left \in Nat
        /\ serve[i].payout_left \in Nat /\ serve[i - 1].payout_left \in Nat
        /\ serve[i].owed + serve[i].payout_left
             <= claims[i].due + serve[i - 1].payout_left
        /\ serve[i].take + serve[i].left = serve[i - 1].left
    BY <1>1
  <2>4. T(i) \in Int /\ O(i) \in Int /\ D(i) \in Int
    BY <2>1, <2>2, <2>3
  <2>5. T(i) + serve[i].left = available
    BY <2>1, <2>2, <2>3
  <2>6. O(i) + serve[i].payout_left <= payout + D(i)
    BY <2>1, <2>2, <2>3
  <2>7. QED
    BY <2>4, <2>5, <2>6
<1>7. \A i \in 0..n : i \in Good
  <2> HIDE DEF Good
  <2>1. QED
    BY <1>5, <1>6, CountingInduction
<1>8. QED
  BY <1>7 DEF T, O, D

\* What there is covers what the claims take, and what was due and paid out covers
\* what they are owed.
Covered(owed, take, due, payout, available, claims, n) ==
  /\ \A i \in 1..n : /\ owed[i] \in Nat /\ take[i] \in Nat
                    /\ take[i] <= owed[i] /\ owed[i] <= claims[i].need
  /\ SumFunctionOnSet(take, 1..n) <= available
  /\ SumFunctionOnSet(owed, 1..n) <= payout + SumFunctionOnSet(due, 1..n)
  /\ SumFunctionOnSet(owed, 1..n) <= available => \A i \in 1..n : take[i] = owed[i]

\* So the claims together take no more than there is, are owed no more than was due
\* and paid out, and none comes short if there is enough for all.
LEMMA ServingTotals ==
  ASSUME NEW payout \in Nat, NEW available \in Nat, NEW claims, NEW n \in Nat,
         \A i \in 1..n : claims[i] \in ClaimType,
         NEW serve, Serving(serve, payout, available, claims, n),
         NEW owed, NEW take, NEW due, ClaimColumns(owed, take, due, serve, claims, n)
  PROVE  Covered(owed, take, due, payout, available, claims, n)
<1> DEFINE T(i) == SumFunctionOnSet(take, 1..i)
           O(i) == SumFunctionOnSet(owed, 1..i)
<1>1. \A i \in 0..n :
        /\ T(i) + serve[i].left = available
        /\ O(i) + serve[i].payout_left <= payout + SumFunctionOnSet(due, 1..i)
  BY ServingSums
<1>2. O(n) + serve[n].payout_left <= payout + SumFunctionOnSet(due, 1..n)
  <2>1. n \in 0..n
    OBVIOUS
  <2> HIDE DEF O, T
  <2>2. QED
    BY <1>1, <2>1
<1>3. /\ serve[0].payout_left = payout /\ serve[0].left = available
      /\ \A i \in 0..n : serve[i].payout_left \in Nat /\ serve[i].left \in Nat
      /\ \A i \in 1..n :
           /\ serve[i].owed \in Nat /\ serve[i].take \in Nat
           /\ serve[i].owed <= claims[i].need /\ serve[i].take <= serve[i].owed
           /\ serve[i].owed + serve[i].payout_left
                <= claims[i].due + serve[i - 1].payout_left
           /\ serve[i].take + serve[i].left = serve[i - 1].left
           /\ serve[i].take < serve[i].owed => serve[i].left = 0
  <2>1. WellServed(serve, payout, available, claims, n)
    BY ServingFacts
  <2>2. QED
    BY <2>1 DEF WellServed
<1>4. /\ \A i \in 0..n : serve[i].payout_left \in Nat /\ serve[i].left \in Nat
      /\ \A i \in 1..n :
           /\ serve[i].owed \in Nat /\ serve[i].take \in Nat
           /\ serve[i].owed <= claims[i].need /\ serve[i].take <= serve[i].owed
           /\ serve[i].take < serve[i].owed => serve[i].left = 0
  BY <1>3
<1>5. \A i \in 1..n : /\ owed[i] = serve[i].owed /\ take[i] = serve[i].take
                      /\ due[i] = claims[i].due
  BY DEF ClaimColumns
<1>6. \A i \in 1..n : /\ owed[i] \in Nat /\ take[i] \in Nat /\ due[i] \in Nat
                      /\ take[i] <= owed[i]
  BY <1>5, <1>4 DEF ClaimType
<1>7. \A i \in 0..n : IsFiniteSet(1..i) /\ 1..i \in SUBSET (1..n)
  <2>1. ASSUME NEW i \in 0..n PROVE IsFiniteSet(1..i) /\ 1..i \in SUBSET (1..n)
    <3>1. 1 \in Int /\ i \in Int
      OBVIOUS
    <3>2. IsFiniteSet(1..i)
      BY <3>1, FS_Interval
    <3>3. QED
      BY <3>2
  <2>2. QED
    BY <2>1
<1>8. \A i \in 0..n : T(i) \in Nat /\ O(i) \in Nat /\ O(i) <= O(n)
  <2>1. ASSUME NEW i \in 0..n PROVE T(i) \in Nat /\ O(i) \in Nat
    <3>1. IsFiniteSet(1..i) /\ \A j \in 1..i : owed[j] \in Nat /\ take[j] \in Nat
      BY <1>6, <1>7
    <3>2. QED
      BY <3>1, SumOfNaturals
  <2>2. ASSUME NEW i \in 0..n PROVE O(i) <= O(n)
    <3>1. IsFiniteSet(1..n) /\ \A j \in 1..n : owed[j] \in Nat
      BY <1>6, <1>7
    <3>2. 1..i \in SUBSET (1..n)
      BY <1>7
    <3>3. QED
      BY <3>1, <3>2, SumOfNaturals
  <2>3. QED
    BY <2>1, <2>2
<1>9. SumFunctionOnSet(due, 1..n) \in Nat
  BY <1>6, <1>7, SumOfNaturals
<1>10. T(n) <= available
  <2>1. n \in 0..n /\ available \in Nat
    OBVIOUS
  <2>2. T(n) + serve[n].left = available /\ T(n) \in Nat /\ serve[n].left \in Nat
    BY <1>1, <1>4, <1>8, <2>1
  <2> HIDE DEF T
  <2>3. QED
    BY <2>1, <2>2
<1>11. O(n) <= payout + SumFunctionOnSet(due, 1..n)
  BY <1>2, <1>4, <1>8, <1>9
<1>12. ASSUME O(n) <= available, NEW i \in 1..n, take[i] < owed[i] PROVE FALSE
  <2>1. serve[i].left = 0 /\ T(i) = available
    <3>1. serve[i].left = 0 /\ i \in 0..n /\ T(i) \in Nat
      BY <1>5, <1>4, <1>8, <1>12
    <3>2. QED
      BY <1>1, <3>1
  <2>2. T(i) = take[i] + T(i - 1) /\ O(i) = owed[i] + O(i - 1)
    <3>1. IsFiniteSet(1..i) /\ i \in 1..i /\ (1..i) \ {i} = 1..(i - 1)
      <4>1. 1 \in Int /\ i \in Int
        OBVIOUS
      <4>2. IsFiniteSet(1..i)
        BY <4>1, FS_Interval
      <4>3. QED
        BY <4>2
    <3>2. \A j \in 1..i : owed[j] \in Int /\ take[j] \in Int
      BY <1>6
    <3>3. /\ SumFunctionOnSet(take, 1..i) = take[i] + SumFunctionOnSet(take, (1..i) \ {i})
          /\ SumFunctionOnSet(owed, 1..i) = owed[i] + SumFunctionOnSet(owed, (1..i) \ {i})
      <4> DEFINE S == 1..i
      <4>1. IsFiniteSet(S) /\ i \in S /\ \A j \in S : owed[j] \in Int /\ take[j] \in Int
        BY <3>1, <3>2
      <4> HIDE DEF S, T, O
      <4>2. SumFunctionOnSet(take, S) = take[i] + SumFunctionOnSet(take, S \ {i})
        BY ZenonT(40), <4>1, SumTakesOut
      <4>3. SumFunctionOnSet(owed, S) = owed[i] + SumFunctionOnSet(owed, S \ {i})
        BY ZenonT(40), <4>1, SumTakesOut
      <4>4. QED
        BY <4>2, <4>3 DEF S
    <3>4. QED
      BY <3>1, <3>3
  <2>3. T(i - 1) <= O(i - 1)
    <3>1. IsFiniteSet(1..(i - 1))
      BY FS_Interval
    <3>2. \A j \in 1..(i - 1) : take[j] \in Int /\ owed[j] \in Int /\ take[j] <= owed[j]
      BY <1>6
    <3>3. QED
      BY <3>1, <3>2, SumAtMost
  <2>4. /\ T(i - 1) \in Nat /\ O(i - 1) \in Nat /\ T(i) \in Nat /\ O(i) \in Nat
        /\ O(i) <= O(n) /\ O(n) \in Nat /\ take[i] \in Nat /\ owed[i] \in Nat
    <3>1. i - 1 \in 0..n /\ i \in 0..n /\ n \in 0..n
      OBVIOUS
    <3>2. QED
      BY <1>6, <1>8, <3>1
  <2> HIDE DEF T, O
  <2>5. QED
    BY <1>12, <2>1, <2>2, <2>3, <2>4
<1>13. O(n) <= available => \A i \in 1..n : take[i] = owed[i]
  <2>1. ASSUME O(n) <= available, NEW i \in 1..n PROVE take[i] = owed[i]
    <3>1. ~(take[i] < owed[i])
      BY <1>12, <2>1
    <3>2. QED
      BY <1>6, <3>1
  <2>2. QED
    BY <2>1
<1>14. \A i \in 1..n : owed[i] <= claims[i].need
  BY <1>5, <1>4
<1>15. QED
  BY <1>6, <1>10, <1>11, <1>13, <1>14 DEF Covered

\* The claims of a payout: each takes what it is owed or the last there is, which is
\* no more than pays it off; together they take no more than is available and are
\* owed no more than the payout and what was due; and when there is enough for that,
\* none comes short.
LEMMA WithholdingsFacts ==
  ASSUME NEW payout \in Nat, NEW available \in Nat, NEW claims, NEW n \in Nat,
         Len(claims) = n, \A i \in 1..n : claims[i] \in ClaimType,
         NEW owed, NEW take, NEW due,
         ClaimColumns(owed, take, due, Withholdings(payout, available, claims), claims, n)
  PROVE  Covered(owed, take, due, payout, available, claims, n)
<1>1. PICK serve :
        /\ Serving(serve, payout, available, claims, Len(claims))
        /\ Answers(Withholdings(payout, available, claims), serve, Len(claims))
  BY WithholdingsAreServed
<1>2. Serving(serve, payout, available, claims, n)
  BY <1>1
<1>3. ClaimColumns(owed, take, due, serve, claims, n)
  <2> DEFINE parts == Withholdings(payout, available, claims)
  <2>1. \A i \in 1..n : parts[i].owed = serve[i].owed /\ parts[i].take = serve[i].take
    BY <1>1 DEF Answers
  <2> HIDE DEF parts
  <2>2. \A i \in 1..n : /\ owed[i] = parts[i].owed
                        /\ take[i] = parts[i].take
                        /\ due[i] = claims[i].due
    BY DEF ClaimColumns, parts
  <2>3. QED
    BY <2>1, <2>2 DEF ClaimColumns
<1>4. QED
  BY <1>2, <1>3, ServingTotals
\* withholdings serves well whatever it is told.
LEMMA WithholdingsServeWell ==
  ASSUME NEW payout \in Nat, NEW available \in Nat, NEW claims, NEW n \in Nat,
         Len(claims) = n, \A i \in 1..n : claims[i] \in ClaimType
  PROVE  \E serve :
           /\ Serving(serve, payout, available, claims, n)
           /\ WellServed(serve, payout, available, claims, n)
           /\ Answers(Withholdings(payout, available, claims), serve, n)
<1>1. PICK serve :
        /\ Serving(serve, payout, available, claims, Len(claims))
        /\ Answers(Withholdings(payout, available, claims), serve, Len(claims))
  BY WithholdingsAreServed
<1>2. Serving(serve, payout, available, claims, n)
  BY <1>1
<1>3. WellServed(serve, payout, available, claims, n)
  BY <1>2, ServingFacts
<1>4. QED
  BY <1>1, <1>2, <1>3

\* Without a payout a claim is owed what is due to it and no more.
DryServed(serve, claims, n) == \A i \in 1..n : serve[i].owed = EarlierDue(claims[i])

\* A list of claims that is served without a payout is served that way.
LEMMA DryServing ==
  ASSUME NEW available \in Nat, NEW claims, NEW n \in Nat,
         \A i \in 1..n : claims[i] \in ClaimType,
         NEW serve, Serving(serve, 0, available, claims, n),
         WellServed(serve, 0, available, claims, n)
  PROVE  DryServed(serve, claims, n)
<1> DEFINE Good == {i \in 0..n : serve[i].payout_left = 0}
<1>1. \A i \in 1..n : serve[i] = Served(claims[i], 0, serve[i - 1])
  BY DEF Serving
<1>2. ASSUME NEW i \in 1..n, serve[i - 1].payout_left = 0
      PROVE  serve[i].payout_left = 0 /\ serve[i].owed = EarlierDue(claims[i])
  <2> DEFINE claim == claims[i]
             before == serve[i - 1]
             share == (0 * claim.sweep_bps) \div BPS
             fresh == Fresh(claim, 0, before.payout_left)
  <2>1. /\ claim.sweep_bps \in Nat /\ claim.need \in Nat /\ claim.due \in Nat
    BY ArithmeticAssumption DEF ClaimType
  <2>2. share \in Nat
    <3>1. 0 * claim.sweep_bps = 0
      BY <2>1
    <3>2. QED
      BY <3>1, ArithmeticAssumption, DivMod
  <2>3. EarlierDue(claim) \in Nat /\ EarlierDue(claim) <= claim.need
    BY <2>1 DEF EarlierDue, Least
  <2>4. fresh = Least(Least(share, claim.need - EarlierDue(claim)), 0)
    BY <1>2 DEF Fresh
  <2> HIDE DEF share, fresh
  <2>5. fresh = 0
    <3>1. \A a, b \in Nat : Least(Least(a, b), 0) = 0
      BY DEF Least
    <3>2. claim.need - EarlierDue(claim) \in Nat
      BY <2>1, <2>3
    <3> HIDE DEF claim
    <3>3. QED
      BY <2>2, <2>4, <3>1, <3>2
  <2>6. serve[i].payout_left = before.payout_left - fresh
        /\ serve[i].owed = EarlierDue(claim) + fresh
    <3> DEFINE owed == EarlierDue(claim) + fresh
               take == Least(owed, before.left)
    <3>1. Served(claim, 0, before)
            = [ owed        |-> owed,
                take        |-> take,
                payout_left |-> before.payout_left - fresh,
                left        |-> before.left - take ]
      BY DEF Served, fresh
    <3>2. serve[i] = Served(claim, 0, before)
      BY <1>1 DEF claim
    <3> HIDE DEF owed, take, claim, before
    <3>3. QED
      BY <3>1, <3>2 DEF owed
  <2>7. QED
    BY <1>2, <2>3, <2>5, <2>6
<1>3. \A i \in 0..n : i \in Good
  <2>1. 0 \in Good
    BY DEF WellServed
  <2>2. \A i \in 1..n : i - 1 \in Good => i \in Good
    BY <1>2
  <2> HIDE DEF Good
  <2>3. QED
    BY <2>1, <2>2, CountingInduction
<1>4. \A i \in 1..n : serve[i - 1].payout_left = 0
  BY <1>3
<1>5. QED
  BY <1>2, <1>4 DEF DryServed

\* What is left for a claim is no less when those before it are owed no more.
Outlasts(later, serve, n) ==
  /\ \A i \in 0..n : serve[i].left <= later[i].left
  /\ \A i \in 1..n : later[i].owed = serve[i].owed => serve[i].take <= later[i].take

\* So it is when the same tokens are there for claims that are owed no more.
LEMMA ServedLess ==
  ASSUME NEW n \in Nat, NEW available \in Nat,
         NEW serve, NEW payout, NEW claims,
         WellServed(serve, payout, available, claims, n),
         NEW later, NEW again, NEW asked, WellServed(later, again, available, asked, n),
         \A i \in 1..n : later[i].owed <= serve[i].owed
  PROVE  Outlasts(later, serve, n)
<1> DEFINE Good == {i \in 0..n : serve[i].left <= later[i].left}
<1>1. ASSUME NEW i \in 1..n, serve[i - 1].left <= later[i - 1].left
      PROVE  /\ serve[i].left <= later[i].left
             /\ later[i].owed = serve[i].owed => serve[i].take <= later[i].take
  <2>1. /\ serve[i].owed \in Nat /\ serve[i].take \in Nat /\ serve[i].take <= serve[i].owed
        /\ serve[i].take + serve[i].left = serve[i - 1].left
        /\ serve[i].take < serve[i].owed => serve[i].left = 0
        /\ serve[i].left \in Nat /\ serve[i - 1].left \in Nat
    BY DEF WellServed
  <2>2. /\ later[i].owed \in Nat /\ later[i].take \in Nat /\ later[i].take <= later[i].owed
        /\ later[i].take + later[i].left = later[i - 1].left
        /\ later[i].take < later[i].owed => later[i].left = 0
        /\ later[i].left \in Nat /\ later[i - 1].left \in Nat
    BY DEF WellServed
  <2>3. later[i].owed <= serve[i].owed
    OBVIOUS
  <2>4. QED
    BY <1>1, <2>1, <2>2, <2>3
<1>2. 0 \in Good
  BY DEF WellServed
<1>3. \A i \in 1..n : i - 1 \in Good => i \in Good
  BY <1>1
<1>4. \A i \in 0..n : i \in Good
  <2> HIDE DEF Good
  <2>1. QED
    BY <1>2, <1>3, CountingInduction
<1>5. /\ \A i \in 0..n : serve[i].left <= later[i].left
      /\ \A i \in 1..n : serve[i - 1].left <= later[i - 1].left
  BY <1>4
<1>6. QED
  BY <1>1, <1>5 DEF Outlasts

\* Claims that are asked again when nothing was paid out since, with no more due to them
\* than they were owed, are owed what is due, and one that is due all it was owed gets
\* at least what it got.
AskedAgain(parts, next, later, n) ==
  \A i \in 1..n :
    /\ next[i].owed = later[i].due
    /\ later[i].due = parts[i].owed => parts[i].take <= next[i].take

\* So it is with withholdings, which the next sweep asks for the same loans.
LEMMA WithholdingsAgain ==
  ASSUME NEW payout \in Nat, NEW available \in Nat, NEW n \in Nat,
         NEW claims, Len(claims) = n, \A i \in 1..n : claims[i] \in ClaimType,
         NEW later, Len(later) = n, \A i \in 1..n : later[i] \in ClaimType,
         \A i \in 1..n : /\ later[i].need = claims[i].need
                         /\ later[i].due <= Withholdings(payout, available, claims)[i].owed
  PROVE  AskedAgain(Withholdings(payout, available, claims),
                    Withholdings(0, available, later), later, n)
<1> DEFINE parts == Withholdings(payout, available, claims)
           next  == Withholdings(0, available, later)
<1>1. PICK serve :
        /\ WellServed(serve, payout, available, claims, n)
        /\ Answers(parts, serve, n)
  BY WithholdingsServeWell
<1>2. PICK again :
        /\ Serving(again, 0, available, later, n)
        /\ WellServed(again, 0, available, later, n)
        /\ Answers(next, again, n)
  <2>1. 0 \in Nat
    OBVIOUS
  <2>2. QED
    BY <2>1, WithholdingsServeWell
<1>3. \A i \in 1..n : again[i].owed = EarlierDue(later[i])
  <2> HIDE DEF parts, next
  <2>1. DryServed(again, later, n)
    BY <1>2, DryServing
  <2>2. QED
    BY <2>1 DEF DryServed
<1>4. \A i \in 1..n : /\ parts[i].owed = serve[i].owed /\ parts[i].take = serve[i].take
                      /\ next[i].owed = again[i].owed /\ next[i].take = again[i].take
  BY <1>1, <1>2 DEF Answers
<1>5. \A i \in 1..n : later[i].need = claims[i].need /\ later[i].due <= parts[i].owed
  OBVIOUS
<1> HIDE DEF parts, next
<1>6. ASSUME NEW i \in 1..n PROVE again[i].owed = later[i].due /\ again[i].owed <= serve[i].owed
  <2>1. later[i].need \in Nat /\ later[i].due \in Nat
    BY DEF ClaimType
  <2>2. serve[i].owed \in Nat /\ serve[i].owed <= claims[i].need
    BY <1>1 DEF WellServed
  <2>3. later[i].due <= serve[i].owed /\ later[i].need = claims[i].need
    BY <1>4, <1>5
  <2>4. EarlierDue(later[i]) = later[i].due
    BY <2>1, <2>2, <2>3 DEF EarlierDue, Least
  <2>5. QED
    BY <1>3, <2>3, <2>4
<1>7. Outlasts(again, serve, n)
  <2>1. \A i \in 1..n : again[i].owed <= serve[i].owed
    BY <1>6
  <2>2. QED
    BY <1>1, <1>2, <2>1, ServedLess
<1>8. QED
  BY <1>4, <1>6, <1>7 DEF Outlasts, AskedAgain, parts, next

-----------------------------------------------------------------------------
(***************************************************************************)
(* The place of an element in an order is the number of those before it.   *)
(***************************************************************************)

\* In a strict order of a finite set, in which any two elements are compared, each
\* place from 0 on is one element's, and an element's is lower when it comes before.
LEMMA RanksAre ==
  ASSUME NEW S, IsFiniteSet(S), NEW ahead \in [S -> SUBSET S],
         \A x \in S : x \notin ahead[x] /\ \A y \in ahead[x] : ahead[y] \in SUBSET ahead[x],
         \A x, y \in S : x = y \/ x \in ahead[y] \/ y \in ahead[x],
         NEW rank \in [S -> Nat], \A x \in S : rank[x] = Cardinality(ahead[x])
  PROVE  /\ \A x \in S : rank[x] \in 0..(Cardinality(S) - 1)
         /\ \A x, y \in S : rank[x] = rank[y] => x = y
         /\ \A x, y \in S : x \in ahead[y] <=> rank[x] < rank[y]
         /\ \A k \in 0..(Cardinality(S) - 1) : \E x \in S : rank[x] = k
<1> DEFINE n == Cardinality(S)
<1>1. n \in Nat
  BY FS_CardinalityType
<1>2. ASSUME NEW x \in S PROVE rank[x] \in Nat /\ rank[x] < n
  <2>1. ahead[x] \in SUBSET S /\ x \notin ahead[x] /\ rank[x] = Cardinality(ahead[x])
    OBVIOUS
  <2>2. IsFiniteSet(ahead[x]) /\ rank[x] <= n /\ (n = rank[x] => S = ahead[x])
    BY <2>1, FS_Subset
  <2>3. rank[x] \in Nat
    OBVIOUS
  <2> HIDE DEF n
  <2>4. QED
    BY <1>1, <2>1, <2>2, <2>3
<1> HIDE DEF n
<1>3. ASSUME NEW x \in S, NEW y \in S, x \in ahead[y] PROVE rank[x] < rank[y]
  <2>1. ahead[x] \in SUBSET ahead[y] /\ x \notin ahead[x] /\ ahead[y] \in SUBSET S
    BY <1>3
  <2>2. rank[x] = Cardinality(ahead[x]) /\ rank[y] = Cardinality(ahead[y])
    OBVIOUS
  <2>3. IsFiniteSet(ahead[y])
    BY <2>1, FS_Subset
  <2>4. rank[x] <= rank[y] /\ (rank[y] = rank[x] => ahead[y] = ahead[x])
    BY <2>1, <2>2, <2>3, FS_Subset
  <2>5. rank[x] \in Nat /\ rank[y] \in Nat
    BY <1>2
  <2>6. QED
    BY <1>3, <2>1, <2>4, <2>5
<1>4. ASSUME NEW x \in S, NEW y \in S
      PROVE  (x \in ahead[y] <=> rank[x] < rank[y]) /\ (rank[x] = rank[y] => x = y)
  <2>1. rank[x] \in Nat /\ rank[y] \in Nat
    BY <1>2
  <2>2. (x \in ahead[y] => rank[x] < rank[y]) /\ (y \in ahead[x] => rank[y] < rank[x])
    BY <1>3
  <2>3. x = y \/ x \in ahead[y] \/ y \in ahead[x]
    OBVIOUS
  <2>4. x = y => rank[x] = rank[y]
    OBVIOUS
  <2>5. QED
    BY <2>1, <2>2, <2>3, <2>4
<1>5. ASSUME NEW k \in 0..(n - 1) PROVE \E x \in S : rank[x] = k
  <2> DEFINE T == 0..(n - 1)
             f == [x \in S |-> rank[x]]
  <2>1. IsFiniteSet(T) /\ Cardinality(T) = n
    BY <1>1, FS_Interval
  <2>2. f \in Injection(S, T)
    <3>1. \A x \in S : f[x] \in T
      BY <1>1, <1>2
    <3>2. \A x, y \in S : f[x] = f[y] => x = y
      BY <1>4
    <3> HIDE DEF T
    <3>3. QED
      BY <3>1, <3>2 DEF Injection, IsInjective
  <2>3. f \in Surjection(S, T)
    <3> HIDE DEF f, T
    <3>1. QED
      BY <2>1, <2>2, FS_Injection DEF n
  <2>4. PICK x \in S : f[x] = k
    BY <1>5, <2>3 DEF Surjection
  <2>5. QED
    BY <2>4
<1>6. \A x \in S : rank[x] \in 0..(n - 1)
  BY <1>1, <1>2
<1>7. /\ \A x, y \in S : rank[x] = rank[y] => x = y
      /\ \A x, y \in S : x \in ahead[y] <=> rank[x] < rank[y]
  BY <1>4
<1>8. \A k \in 0..(n - 1) : \E x \in S : rank[x] = k
  BY <1>5
<1>9. QED
  BY <1>6, <1>7, <1>8 DEF n
=============================================================================
