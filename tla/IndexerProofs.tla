--------------------------- MODULE IndexerProofs ---------------------------
(***************************************************************************)
(* Whatever the networks, the chain, the pages and the number of passes    *)
(* that overlap or fail, every row of the payouts table is a payout, and   *)
(* no cursor is past a payout without a row.  The worker's other table is  *)
(* that of prices: whatever the source revises, none of them is made up,   *)
(* and none that is recorded changes.                                      *)
(***************************************************************************)
EXTENDS Indexer, FiniteSetTheorems, WellFoundedInduction, TLAPS

\* What a transaction on the chain is.
Landed == {[tx EXCEPT !.time = at] : tx \in Transactions, at \in Nat \union {NoTime}}

\* The clock of the chain does not run backwards.
ChainInv ==
  /\ chain \in Seq(Landed)
  /\ \A i \in DOMAIN chain : chain[i].time # NoTime => chain[i].time \in 0..clock
  /\ \A i, j \in DOMAIN chain :
       i < j /\ chain[i].time # NoTime /\ chain[j].time # NoTime
         => chain[i].time <= chain[j].time

\* Rows, in the table or held by a pass, are payouts of a transaction of the chain.
AreRead(read) ==
  \A y \in read : y.signature \in DOMAIN chain /\ y \in ReadInto(Idle, y.signature)

\* The types of what a pass holds.
PassType(t) ==
  /\ DOMAIN t = DOMAIN Idle
  /\ t.phase \in {"idle", "listing", "reading"}
  /\ t.until \in [Accounts -> 0..Len(chain)]
  /\ t.since \in Int
  /\ t.todo \subseteq PayoutAccounts
  /\ t.listing \subseteq t.todo
  /\ t.before \in Nat
  /\ t.found \in [Accounts -> SUBSET DOMAIN chain]
  /\ t.pending \subseteq DOMAIN chain
  /\ AreRead(t.payouts)

\* A pass started from cursors that were covered, and looks back as far as it must.
StartInv(t) ==
  /\ t.since <= clock - HISTORY
  /\ \A a \in PayoutAccounts : \A i \in Touching(a) : i <= t.until[a] => ~Absent(i)

\* What was found on the account being listed has no gap down to `before`.
ListingInv(t) ==
  /\ \A a \in t.todo \ t.listing : t.found[a] = {}
  /\ t.listing = {} => t.before = 0
  /\ t.listing # {} => t.before # 0
  /\ \A a, b \in t.listing : a = b
  /\ \A a \in t.listing : \A f \in t.found[a] : \A i \in Touching(a) :
       t.before <= i /\ i <= f => i \in t.found[a]

\* Below what was found on a listed account nothing is missing, and what was found is
\* still to be read unless what it holds is in memory.
ListedInv(t) ==
  \A a \in PayoutAccounts \ t.todo : \A f \in t.found[a] :
    /\ f \in t.pending \/ ~Absent(f) \/ \E y \in t.payouts : y.signature = f
    /\ \A i \in Touching(a) : i <= f => i \in t.found[a] \/ ~Absent(i)

PassInv(t) ==
  /\ PassType(t)
  /\ t.phase # "idle" => StartInv(t) /\ ListingInv(t) /\ ListedInv(t)
  /\ t.phase = "reading" => t.todo = {}

RowsInv == AreRead(rows)

IndexerInv ==
  /\ TypeOK
  /\ CursorCovered
  /\ ChainInv
  /\ RowsInv
  /\ DOMAIN passes = Indexers
  /\ \A p \in Indexers : PassInv(passes[p])

-----------------------------------------------------------------------------
\* A set of positions has a last one.
LEMMA MaxIsLast ==
  ASSUME NEW n \in Nat, NEW S \in SUBSET (1..n), S # {}
  PROVE  Max(S) \in S /\ \A x \in S : x <= Max(S)
<1> DEFINE R == OpToRel(<, Nat)
           T == {n - x : x \in S}
<1>1. T \subseteq Nat /\ T # {}
  <2>1. \A x \in S : n - x \in Nat
    OBVIOUS
  <2>2. QED
    BY <2>1
<1>2. IsWellFoundedOn(R, Nat)
  BY NatLessThanWellFounded
<1> HIDE DEF R, T
<1>3. PICK d \in T : \A e \in T : ~(<<e, d>> \in R)
  BY <1>1, <1>2, WFMin
<1>4. \A e \in T : ~(e < d)
  BY <1>1, <1>3 DEF R, OpToRel
<1>5. PICK m \in S : d = n - m
  BY DEF T
<1>6. ASSUME NEW x \in S PROVE m >= x
  <2>1. n - x \in T
    BY DEF T
  <2>2. ~(n - x < n - m)
    BY <1>4, <1>5, <2>1
  <2>3. QED
    BY <2>2
<1>7. \E y \in S : \A x \in S : y >= x
  BY <1>6
<1>8. Max(S) \in S /\ \A x \in S : Max(S) >= x
  BY <1>7 DEF Max
<1>9. QED
  BY <1>8

\* And a first one.
LEMMA MinIsFirst ==
  ASSUME NEW S \in SUBSET Nat, S # {}
  PROVE  Min(S) \in S /\ \A x \in S : Min(S) <= x
<1> DEFINE R == OpToRel(<, Nat)
<1>1. IsWellFoundedOn(R, Nat)
  BY NatLessThanWellFounded
<1> HIDE DEF R
<1>2. PICK m \in S : \A e \in S : ~(<<e, m>> \in R)
  BY <1>1, WFMin
<1>3. \A e \in S : ~(e < m)
  BY <1>2 DEF R, OpToRel
<1>4. \E y \in S : \A x \in S : y =< x
  BY <1>3
<1>5. Min(S) \in S /\ \A x \in S : Min(S) =< x
  BY <1>4 DEF Min
<1>6. QED
  BY <1>5

\* A page is the newest part of what lies below its start.
LEMMA PageIsUpper ==
  ASSUME IndexerAssumption, ChainInv, NEW a, NEW b, NEW i \in Page(a, b), NEW j \in Touching(a),
         b = 0 \/ j < b, i < j
  PROVE  j \in Page(a, b)
<1> DEFINE below == {k \in Touching(a) : b = 0 \/ k < b}
           over(k) == {l \in below : l > k}
<1>1. Len(chain) \in Nat /\ DOMAIN chain = 1..Len(chain)
  BY DEF ChainInv
<1>2. below \subseteq 1..Len(chain)
  BY <1>1 DEF Touching
<1>3. \A k : IsFiniteSet(over(k))
  <2>1. IsFiniteSet(1..Len(chain))
    BY <1>1, FS_Interval
  <2>2. \A k : over(k) \subseteq 1..Len(chain)
    BY <1>2
  <2>3. QED
    BY <2>1, <2>2, FS_Subset
<1>4. i \in below /\ Cardinality(over(i)) < PAGE_SIZE
  BY DEF Page
<1>5. over(j) \subseteq over(i)
  BY <1>2, <1>4
<1>6. Cardinality(over(j)) <= Cardinality(over(i))
      /\ Cardinality(over(j)) \in Nat /\ Cardinality(over(i)) \in Nat
  BY <1>3, <1>5, FS_Subset, FS_CardinalityType
<1>7. j \in below
  OBVIOUS
<1>8. PAGE_SIZE \in Nat
  BY DEF IndexerAssumption
<1>9. Cardinality(over(j)) < PAGE_SIZE
  BY <1>4, <1>6, <1>8
<1>10. QED
  BY <1>7, <1>9 DEF Page

\* A page that is not full holds all that lies below its start.
LEMMA ShortPageIsWhole ==
  ASSUME IndexerAssumption, ChainInv, NEW a, NEW b, Cardinality(Page(a, b)) < PAGE_SIZE,
         NEW j \in Touching(a), b = 0 \/ j < b
  PROVE  j \in Page(a, b)
<1> DEFINE below == {k \in Touching(a) : b = 0 \/ k < b}
           over(k) == {l \in below : l > k}
           left == below \ Page(a, b)
<1>1. Len(chain) \in Nat /\ DOMAIN chain = 1..Len(chain)
  BY DEF ChainInv
<1>2. below \subseteq 1..Len(chain) /\ left \subseteq 1..Len(chain)
  BY <1>1 DEF Touching
<1>3. SUFFICES ASSUME left # {} PROVE FALSE
  OBVIOUS
<1> DEFINE m == Max(left)
<1>4. m \in left /\ \A k \in left : k <= m
  <2> HIDE DEF left
  <2>1. QED
    BY <1>1, <1>2, <1>3, MaxIsLast
<1> HIDE DEF m
<1>5. over(m) \subseteq Page(a, b)
  BY <1>2, <1>4
<1>6. IsFiniteSet(Page(a, b))
  <2>1. Page(a, b) \subseteq 1..Len(chain)
    BY <1>2 DEF Page
  <2>2. IsFiniteSet(1..Len(chain))
    BY <1>1, FS_Interval
  <2>3. QED
    BY <2>1, <2>2, FS_Subset
<1>7. /\ Cardinality(over(m)) <= Cardinality(Page(a, b))
      /\ Cardinality(over(m)) \in Nat /\ Cardinality(Page(a, b)) \in Nat
  BY <1>5, <1>6, FS_Subset, FS_CardinalityType
<1>8. PAGE_SIZE \in Nat
  BY DEF IndexerAssumption
<1>9. Cardinality(over(m)) < PAGE_SIZE
  BY <1>7, <1>8
<1>10. m \in Page(a, b)
  BY <1>4, <1>9 DEF Page
<1>11. QED
  BY <1>4, <1>10

-----------------------------------------------------------------------------
\* The chain and the table only grow, transactions given up on stay so, time passes.
Grows ==
  /\ Len(chain) <= Len(chain')
  /\ \A i \in DOMAIN chain : i \in DOMAIN chain' /\ chain'[i] = chain[i]
  /\ rows \subseteq rows'
  /\ missing \subseteq missing'
  /\ clock <= clock'

\* What a transaction touches does not change.
LEMMA SameTouching ==
  ASSUME ChainInv, ChainInv', Grows, NEW a, NEW i \in DOMAIN chain
  PROVE  i \in Touching(a)' <=> i \in Touching(a)
BY DEF Grows, Touching

\* A payout that is not absent will not be.
LEMMA PresentStays ==
  ASSUME IndexerAssumption, ChainInv, ChainInv', Grows, clock \in Nat, clock' \in Nat,
         NEW i \in DOMAIN chain, ~Absent(i)
  PROVE  ~Absent(i)'
<1>1. chain'[i] = chain[i] /\ rows \subseteq rows' /\ missing \subseteq missing' /\ clock <= clock'
  BY DEF Grows
<1>2. CASE TooOld(i, clock - HISTORY)
  <2>1. chain[i].time # NoTime /\ chain[i].time \in Nat
    BY <1>2 DEF TooOld, ChainInv
  <2>2. HISTORY \in Nat
    BY DEF IndexerAssumption
  <2>3. TooOld(i, clock - HISTORY)'
    BY <1>1, <1>2, <2>1, <2>2 DEF TooOld
  <2>4. QED
    BY <2>3 DEF Absent
<1>3. CASE ~TooOld(i, clock - HISTORY)
  BY <1>1, <1>3 DEF Absent
<1>4. QED
  BY <1>2, <1>3

\* Nor is anything before a transaction that is too old.
LEMMA OlderIsPresent ==
  ASSUME IndexerAssumption, ChainInv, clock \in Nat,
         NEW since \in Int, since <= clock - HISTORY,
         NEW s \in DOMAIN chain, TooOld(s, since), NEW i \in DOMAIN chain, i <= s
  PROVE  ~Absent(i)
<1>1. CASE chain[i].time = NoTime
  <2>1. PayoutsOf(chain[i]) = {}
    BY <1>1 DEF PayoutsOf, IncomingTransfers
  <2>2. QED
    BY <2>1 DEF Absent
<1>2. CASE chain[i].time # NoTime
  <2>1. chain[s].time # NoTime /\ chain[s].time < since
    BY DEF TooOld
  <2>2. chain[i].time \in Nat /\ chain[s].time \in Nat
    BY <1>2, <2>1 DEF ChainInv
  <2>3. i \in Nat /\ s \in Nat
    BY DEF ChainInv
  <2>4. chain[i].time <= chain[s].time
    BY <1>2, <2>1, <2>2, <2>3 DEF ChainInv
  <2>5. HISTORY \in Nat
    BY DEF IndexerAssumption
  <2>6. TooOld(i, clock - HISTORY)
    BY <1>2, <2>1, <2>2, <2>4, <2>5 DEF TooOld
  <2>7. QED
    BY <2>6 DEF Absent
<1>3. QED
  BY <1>1, <1>2

\* The rows a transaction leaves stay what they are.
LEMMA ReadStays ==
  ASSUME Grows, NEW read, AreRead(read)
  PROVE  \A y \in read : y.signature \in DOMAIN chain' /\ y \in ReadInto(Idle, y.signature)'
<1> SUFFICES ASSUME NEW y \in read
             PROVE  y.signature \in DOMAIN chain' /\ y \in ReadInto(Idle, y.signature)'
  OBVIOUS
<1>1. y.signature \in DOMAIN chain /\ y \in ReadInto(Idle, y.signature)
  BY DEF AreRead
<1>2. y.signature \in DOMAIN chain' /\ chain'[y.signature] = chain[y.signature]
  BY <1>1 DEF Grows
<1>3. QED
  BY <1>1, <1>2 DEF ReadInto

\* What a pass holds is as good after a step that leaves it alone.
LEMMA PassStays ==
  ASSUME IndexerAssumption, IndexerInv, ChainInv', Grows, clock' \in Nat,
         NEW p \in Indexers, passes'[p] = passes[p]
  PROVE  PassInv(passes[p])'
<1> DEFINE t == passes[p]
<1>1. PassInv(t) /\ ChainInv /\ clock \in Nat
  BY DEF IndexerInv, TypeOK
<1>2. Len(chain) \in Nat /\ Len(chain') \in Nat /\ Len(chain) <= Len(chain')
      /\ DOMAIN chain = 1..Len(chain) /\ DOMAIN chain' = 1..Len(chain')
  BY <1>1 DEF ChainInv, Grows
<1>3. PassType(t)'
  <2>1. PassType(t)
    BY <1>1 DEF PassInv
  <2>2. AreRead(t.payouts)'
    BY <2>1, ReadStays DEF PassType, AreRead
  <2>3. PayoutAccounts' = PayoutAccounts /\ t' = t
    BY DEF PayoutAccounts
  <2>4. QED
    BY <1>2, <2>1, <2>2, <2>3 DEF PassType
<1>4. \A i \in DOMAIN chain : ~Absent(i) => ~Absent(i)'
  BY <1>1, PresentStays
<1>5. \A a, i : i \in DOMAIN chain => (i \in Touching(a)' <=> i \in Touching(a))
  BY <1>1, SameTouching
<1>6. \A a, i : i \in Touching(a)' => i \in DOMAIN chain'
  BY DEF Touching
<1>7. /\ PayoutAccounts' = PayoutAccounts /\ PayoutAccounts \subseteq Accounts
      /\ t' = t /\ HISTORY \in Nat
  BY DEF PayoutAccounts, IndexerAssumption
<1>8. /\ t.until \in [Accounts -> 0..Len(chain)] /\ t.since \in Int
      /\ t.found \in [Accounts -> SUBSET (1..Len(chain))] /\ t.todo \subseteq PayoutAccounts
      /\ t.listing \subseteq t.todo /\ t.before \in Nat
  BY <1>1, <1>2 DEF PassInv, PassType
<1>9. ASSUME t.phase # "idle" PROVE StartInv(t)' /\ ListingInv(t)' /\ ListedInv(t)'
  <2>1. StartInv(t) /\ ListingInv(t) /\ ListedInv(t)
    BY <1>1, <1>9 DEF PassInv
  <2>2. StartInv(t)'
    <3>1. t.since <= clock' - HISTORY
      BY <1>1, <1>7, <1>8, <2>1 DEF StartInv, Grows
    <3>2. ASSUME NEW a \in PayoutAccounts, NEW i \in Touching(a)', i <= t.until[a]
          PROVE  ~Absent(i)'
      <4>1. i \in DOMAIN chain
        BY <1>2, <1>6, <1>7, <1>8, <3>2
      <4>2. QED
        BY <1>4, <1>5, <2>1, <3>2, <4>1 DEF StartInv
    <3>3. QED
      BY <1>7, <3>1, <3>2 DEF StartInv
  <2>3. ASSUME NEW a \in PayoutAccounts, NEW f \in t.found[a], NEW i \in Touching(a)', i <= f
        PROVE  i \in DOMAIN chain /\ i \in Touching(a)
    BY <1>2, <1>5, <1>6, <1>7, <1>8, <2>3
  <2>4. ListingInv(t)'
    BY <1>7, <1>8, <2>1, <2>3 DEF ListingInv
  <2>5. ListedInv(t)'
    <3>1. ASSUME NEW a \in PayoutAccounts \ t.todo, NEW f \in t.found[a]
          PROVE  f \in t.pending \/ ~Absent(f)' \/ \E y \in t.payouts : y.signature = f
      <4>1. f \in DOMAIN chain
        BY <1>2, <1>7, <1>8
      <4>2. QED
        BY <1>4, <2>1, <4>1 DEF ListedInv
    <3>2. ASSUME NEW a \in PayoutAccounts \ t.todo, NEW f \in t.found[a],
                 NEW i \in Touching(a)', i <= f
          PROVE  i \in t.found[a] \/ ~Absent(i)'
      <4>1. i \in DOMAIN chain /\ i \in Touching(a)
        BY <2>3, <3>2
      <4>2. QED
        BY <1>4, <2>1, <3>2, <4>1 DEF ListedInv
    <3>3. QED
      BY <1>7, <3>1, <3>2 DEF ListedInv
  <2>6. QED
    BY <2>2, <2>4, <2>5
<1>10. QED
  BY <1>1, <1>3, <1>7, <1>9 DEF PassInv

\* What was found is on the chain.
LEMMA FoundIsListed ==
  ASSUME NEW t, PassType(t)
  PROVE  UNION {t.found[a] : a \in Accounts} \subseteq DOMAIN chain
BY DEF PassType

\* A step of one pass leaves the other passes what they were.
LEMMA OnePassMoves ==
  ASSUME IndexerAssumption, IndexerInv, ChainInv', Grows, clock' \in Nat,
         NEW p \in Indexers, NEW t, passes' = [passes EXCEPT ![p] = t], PassInv(passes[p])'
  PROVE  /\ DOMAIN passes' = Indexers
         /\ \A q \in Indexers : PassInv(passes[q])'
         /\ \A q \in Indexers :
              UNION {passes'[q].found[a] : a \in Accounts} \subseteq DOMAIN chain'
<1>1. DOMAIN passes' = Indexers
  BY DEF IndexerInv
<1>2. ASSUME NEW q \in Indexers PROVE PassInv(passes[q])'
  <2>1. CASE q = p
    BY <2>1
  <2>2. CASE q # p
    <3>1. passes'[q] = passes[q]
      BY <2>2 DEF IndexerInv
    <3>2. QED
      BY <3>1, PassStays
  <2>3. QED
    BY <2>1, <2>2
<1>3. ASSUME NEW q \in Indexers
      PROVE  UNION {passes'[q].found[a] : a \in Accounts} \subseteq DOMAIN chain'
  BY <1>2 DEF PassInv, PassType
<1>4. QED
  BY <1>1, <1>2, <1>3

\* A step that only changes what one pass holds.
LEMMA LocalStep ==
  ASSUME IndexerAssumption, IndexerInv, NEW p \in Indexers, NEW t, PassInv(t),
         passes' = [passes EXCEPT ![p] = t],
         UNCHANGED <<chain, clock, rows, cursors, missing>>
  PROVE  IndexerInv'
<1>1. ChainInv' /\ clock' \in Nat /\ Grows
  BY DEF IndexerInv, TypeOK, ChainInv, Grows
<1>2. /\ \A i : Absent(i)' <=> Absent(i)
      /\ \A a : Touching(a)' = Touching(a)
      /\ PayoutAccounts' = PayoutAccounts
      /\ \A i : ReadInto(Idle, i)' = ReadInto(Idle, i)
  BY DEF Absent, TooOld, Touching, PayoutAccounts, ReadInto
<1>3. CursorCovered' /\ RowsInv'
  BY <1>2 DEF IndexerInv, CursorCovered, RowsInv, AreRead
<1>4. PassInv(passes[p])'
  <2>1. passes'[p] = t
    BY DEF IndexerInv
  <2>2. PassType(passes[p])'
    BY <1>2, <2>1 DEF PassInv, PassType, AreRead
  <2>3. ASSUME t.phase # "idle"
        PROVE  /\ StartInv(passes[p])'
               /\ ListingInv(passes[p])'
               /\ ListedInv(passes[p])'
    <3>1. StartInv(t) /\ ListingInv(t) /\ ListedInv(t)
      BY <2>3 DEF PassInv
    <3>2. StartInv(passes[p])'
      BY <1>2, <2>1, <3>1 DEF StartInv
    <3>3. ListingInv(passes[p])'
      BY <1>2, <2>1, <3>1 DEF ListingInv
    <3>4. ListedInv(passes[p])'
      BY <1>2, <2>1, <3>1 DEF ListedInv
    <3>5. QED
      BY <3>2, <3>3, <3>4
  <2>4. QED
    BY <2>1, <2>2, <2>3 DEF PassInv
<1>5. /\ DOMAIN passes' = Indexers
      /\ \A q \in Indexers : PassInv(passes[q])'
      /\ \A q \in Indexers :
           UNION {passes'[q].found[a] : a \in Accounts} \subseteq DOMAIN chain'
  BY <1>1, <1>4, OnePassMoves
<1>6. TypeOK'
  BY <1>5 DEF IndexerInv, TypeOK
<1>7. QED
  BY <1>1, <1>3, <1>5, <1>6 DEF IndexerInv

\* A pass that has ended relies on nothing.
LEMMA IdlePass == ChainInv => PassInv(Idle)
BY DEF PassInv, PassType, Idle, AreRead, ChainInv

\* A pass starts from the cursors, which are covered.
LEMMA StartPassInv ==
  ASSUME IndexerAssumption, IndexerInv, NEW p \in Indexers, StartPass(p)
  PROVE  IndexerInv'
<1> DEFINE t == [Idle EXCEPT !.phase = "listing", !.until = cursors,
                             !.since = clock - HISTORY, !.todo = PayoutAccounts]
<1>1. /\ passes' = [passes EXCEPT ![p] = t]
      /\ UNCHANGED <<chain, clock, rows, cursors, missing>>
  BY DEF StartPass, IndexerInv
<1>2. /\ DOMAIN t = DOMAIN Idle
      /\ t.phase = "listing" /\ t.until = cursors /\ t.since = clock - HISTORY
      /\ t.todo = PayoutAccounts /\ t.listing = {} /\ t.before = 0
      /\ t.found = [a \in Accounts |-> {}] /\ t.pending = {} /\ t.payouts = {}
  BY DEF Idle
<1> HIDE DEF t
<1>3. /\ cursors \in [Accounts -> 0..Len(chain)] /\ clock \in Nat /\ HISTORY \in Nat
      /\ PayoutAccounts \subseteq Accounts
  BY DEF IndexerInv, TypeOK, IndexerAssumption, PayoutAccounts
<1>4. PassType(t)
  BY <1>2, <1>3 DEF PassType, AreRead
<1>5. StartInv(t)
  BY <1>2, <1>3 DEF StartInv, IndexerInv, CursorCovered
<1>6. ListingInv(t) /\ ListedInv(t)
  BY <1>2, <1>3 DEF ListingInv, ListedInv
<1>7. PassInv(t)
  BY <1>2, <1>4, <1>5, <1>6 DEF PassInv
<1>8. QED
  BY <1>1, <1>7, LocalStep

\* A pass that fails is forgotten.
LEMMA FailPassInv ==
  ASSUME IndexerAssumption, IndexerInv, NEW p \in Indexers, FailPass(p)
  PROVE  IndexerInv'
<1>1. /\ passes' = [passes EXCEPT ![p] = Idle]
      /\ UNCHANGED <<chain, clock, rows, cursors, missing>>
  BY DEF FailPass, IndexerInv
<1>2. PassInv(Idle)
  BY IdlePass DEF IndexerInv
<1>3. QED
  BY <1>1, <1>2, LocalStep

\* A page leaves no gap in what was found; where the listing of the account ends, nothing
\* below it is missing.
LEMMA PageCloses ==
  ASSUME IndexerAssumption, ChainInv, clock \in Nat,
         NEW t, PassType(t), StartInv(t), ListingInv(t),
         NEW a \in t.todo, t.listing = {} \/ a \in t.listing,
         NEW f \in t.found[a] \union NewOnPage(t, a, Page(a, t.before)),
         NEW i \in Touching(a), i <= f,
         IF Listed(t, a, Page(a, t.before)) THEN TRUE ELSE i >= Min(Page(a, t.before))
  PROVE  \/ i \in t.found[a] \union NewOnPage(t, a, Page(a, t.before))
         \/ Listed(t, a, Page(a, t.before)) /\ ~Absent(i)
<1> DEFINE page == Page(a, t.before)
           stops == Stops(t, a, page)
<1>1. Len(chain) \in Nat /\ DOMAIN chain = 1..Len(chain)
  BY DEF ChainInv
<1>2. /\ \A x : Touching(x) \subseteq 1..Len(chain)
      /\ page \subseteq Touching(a) /\ page \subseteq 1..Len(chain)
      /\ \A k \in page : t.before = 0 \/ k < t.before
      /\ stops \subseteq page /\ NewOnPage(t, a, page) \subseteq page
  BY <1>1 DEF Touching, Page, Stops, NewOnPage
<1>3. /\ PayoutAccounts \subseteq Accounts /\ a \in Accounts /\ a \in PayoutAccounts
      /\ t.found[a] \subseteq 1..Len(chain) /\ t.until[a] \in 0..Len(chain)
      /\ t.before \in Nat /\ t.since \in Int
  BY <1>1 DEF PassType, PayoutAccounts
<1>4. PAGE_SIZE \in Nat /\ PAGE_SIZE > 0
  BY DEF IndexerAssumption
<1>5. \A k \in page : \A j \in Touching(a) :
        (t.before = 0 \/ j < t.before) /\ k < j => j \in page
  BY PageIsUpper
<1>6. Cardinality(page) < PAGE_SIZE =>
        \A j \in Touching(a) : (t.before = 0 \/ j < t.before) => j \in page
  BY ShortPageIsWhole
<1>7. \A s \in stops : i <= s => ~Absent(i)
  <2> SUFFICES ASSUME NEW s \in stops, i <= s PROVE ~Absent(i)
    OBVIOUS
  <2>1. s = t.until[a] \/ TooOld(s, t.since)
    BY DEF Stops
  <2>2. CASE s = t.until[a]
    BY <1>3, <2>2 DEF StartInv
  <2>3. CASE TooOld(s, t.since)
    <3>1. t.since <= clock - HISTORY
      BY DEF StartInv
    <3>2. QED
      BY <1>1, <1>2, <1>3, <2>3, <3>1, OlderIsPresent
  <2>4. QED
    BY <2>1, <2>2, <2>3
<1>8. t.listing = {} => t.found[a] = {} /\ t.before = 0
  BY DEF ListingInv
<1>9. a \in t.listing => t.before # 0
  BY DEF ListingInv
<1>10. Listed(t, a, page) <=> stops # {} \/ Cardinality(page) < PAGE_SIZE
  BY DEF Listed
<1>11. \A k : k \in NewOnPage(t, a, page) <=> k \in page /\ \A s \in stops : k > s
  BY DEF NewOnPage
<1>12. page # {} => Min(page) \in page /\ \A k \in page : Min(page) <= k
  <2>1. page \in SUBSET Nat
    BY <1>2
  <2> HIDE DEF page
  <2>2. QED
    BY <2>1, MinIsFirst
<1>13. ~(Cardinality(page) < PAGE_SIZE) => page # {}
  BY <1>4, FS_EmptySet
<1>14. \A g \in t.found[a] : a \in t.listing /\ t.before <= i /\ i <= g => i \in t.found[a]
  BY DEF ListingInv
<1> HIDE DEF page, stops
<1>15. CASE t.before # 0 /\ i >= t.before
  <2>1. f \notin page
    BY <1>2, <1>3, <1>15
  <2>2. f \in t.found[a]
    BY <1>2, <2>1 DEF page
  <2>3. a \in t.listing
    BY <1>8, <2>2
  <2>4. QED
    BY <1>2, <1>3, <1>14, <1>15, <2>2, <2>3 DEF page
<1>16. CASE t.before = 0 \/ i < t.before
  <2>1. CASE stops # {}
    <3>1. CASE \E s \in stops : i <= s
      BY <1>7, <1>10, <2>1, <3>1 DEF page
    <3>2. CASE \A s \in stops : ~(i <= s)
      <4>1. PICK s \in stops : TRUE
        BY <2>1
      <4>2. s < i
        BY <1>2, <3>2, <4>1
      <4>3. i \in page
        BY <1>2, <1>5, <1>16, <4>1, <4>2
      <4>4. \A r \in stops : i > r
        BY <1>2, <3>2
      <4>5. QED
        BY <1>11, <4>3, <4>4 DEF page
    <3>3. QED
      BY <3>1, <3>2
  <2>2. CASE stops = {} /\ Cardinality(page) < PAGE_SIZE
    BY <1>6, <1>11, <1>16, <2>2 DEF page
  <2>3. CASE stops = {} /\ ~(Cardinality(page) < PAGE_SIZE)
    <3>1. ~Listed(t, a, page)
      BY <1>10, <2>3
    <3>2. i >= Min(page)
      BY <3>1 DEF page
    <3>3. Min(page) \in page
      BY <1>12, <1>13, <2>3
    <3>4. /\ i \in Int
          /\ Min(page) \in Int
      <4>1. i \in Int
        BY <1>1, <1>2
      <4>2. \A k \in page : k \in Int
        BY <1>1, <1>2
      <4>3. Min(page) \in Int
        BY <3>3, <4>2, Zenon
      <4>4. QED
        BY <4>1, <4>3
    <3>5. i = Min(page) \/ Min(page) < i
      BY <3>2, <3>4
    <3>6. i \in page
      BY <1>5, <1>16, <3>3, <3>5
    <3>7. QED
      BY <1>11, <2>3, <3>6 DEF page
  <2>4. QED
    BY <2>1, <2>2, <2>3
<1>17. QED
  BY <1>2, <1>3, <1>15, <1>16

\* What the page of an account in turn can be.
LEMMA PageType ==
  ASSUME IndexerAssumption, ChainInv, NEW t, PassType(t), NEW a \in t.todo
  PROVE  /\ a \in Accounts /\ a \in PayoutAccounts
         /\ NewOnPage(t, a, Page(a, t.before)) \subseteq DOMAIN chain
         /\ ~Listed(t, a, Page(a, t.before)) =>
              Min(Page(a, t.before)) \in Nat \ {0}
<1>1. Len(chain) \in Nat /\ DOMAIN chain = 1..Len(chain)
  BY DEF ChainInv
<1>2. PayoutAccounts \subseteq Accounts /\ t.todo \subseteq PayoutAccounts
  BY DEF PassType, PayoutAccounts
<1> DEFINE page == Page(a, t.before)
<1>3. page \subseteq DOMAIN chain /\ NewOnPage(t, a, page) \subseteq page
  BY DEF Page, Touching, NewOnPage
<1>4. ASSUME ~Listed(t, a, page) PROVE Min(page) \in Nat \ {0}
  <2>1. ~(Cardinality(page) < PAGE_SIZE) /\ PAGE_SIZE \in Nat /\ PAGE_SIZE > 0
    BY <1>4 DEF Listed, IndexerAssumption
  <2>2. page # {}
    BY <2>1, FS_EmptySet
  <2>3. page \in SUBSET Nat /\ \A k \in page : k \in Nat \ {0}
    BY <1>1, <1>3
  <2> HIDE DEF page
  <2>4. Min(page) \in page
    BY <2>2, <2>3, MinIsFirst
  <2>5. QED
    BY <2>3, <2>4, Zenon
<1>5. QED
  BY <1>2, <1>3, <1>4

\* One call of the loop of listNewSignatures.
LEMMA ReadPageInv ==
  ASSUME IndexerAssumption, IndexerInv, NEW p \in Indexers, NEW a \in Accounts, ReadPage(p, a)
  PROVE  IndexerInv'
<1> DEFINE t    == passes[p]
           page == Page(a, t.before)
           all  == t.found[a] \union NewOnPage(t, a, page)
           done == [t EXCEPT !.found[a] = all, !.pending = @ \union all,
                             !.todo = @ \ {a}, !.listing = {}, !.before = 0,
                             !.phase = IF t.todo = {a} THEN "reading" ELSE "listing"]
           more == [t EXCEPT !.found[a] = all, !.listing = {a}, !.before = Min(page)]
           u    == IF Listed(t, a, page) THEN done ELSE more
<1>1. /\ t.phase = "listing"
      /\ a \in IF t.listing = {} THEN t.todo ELSE t.listing
      /\ passes' = [passes EXCEPT ![p] = u]
      /\ UNCHANGED <<chain, clock, rows, cursors, missing>>
  BY DEF ReadPage
<1>2. /\ PassInv(t) /\ ChainInv /\ clock \in Nat
  BY DEF IndexerInv, TypeOK
<1>3. PassType(t) /\ StartInv(t) /\ ListingInv(t) /\ ListedInv(t)
  BY <1>1, <1>2 DEF PassInv
<1>4. /\ a \in t.todo
      /\ t.listing = {} \/ a \in t.listing
      /\ \A b \in t.todo : b # a => b \notin t.listing
  <2>1. \A b, c \in t.listing : b = c
    BY <1>3 DEF ListingInv
  <2>2. t.listing \subseteq t.todo
    BY <1>3 DEF PassType
  <2>3. QED
    BY <1>1, <2>1, <2>2
<1>5. /\ DOMAIN t = DOMAIN Idle
      /\ t.until \in [Accounts -> 0..Len(chain)] /\ t.since \in Int
      /\ t.todo \subseteq PayoutAccounts /\ t.listing \subseteq t.todo /\ t.before \in Nat
      /\ t.found \in [Accounts -> SUBSET DOMAIN chain]
      /\ t.pending \subseteq DOMAIN chain /\ AreRead(t.payouts)
  BY <1>3 DEF PassType
<1>6. /\ a \in PayoutAccounts
      /\ all \subseteq DOMAIN chain
      /\ ~Listed(t, a, page) => Min(page) \in Nat \ {0}
  BY <1>2, <1>3, <1>4, <1>5, PageType
<1>7. ASSUME NEW f \in all, NEW i \in Touching(a), i <= f
      PROVE  /\ Listed(t, a, page) => i \in all \/ ~Absent(i)
             /\ ~Listed(t, a, page) /\ i >= Min(page) => i \in all
  BY <1>2, <1>3, <1>4, <1>7, PageCloses
<1> HIDE DEF all, page
<1>8. /\ DOMAIN u = DOMAIN Idle
      /\ u.until = t.until /\ u.since = t.since /\ u.payouts = t.payouts
      /\ u.found = [t.found EXCEPT ![a] = all]
      /\ Listed(t, a, page) =>
           /\ u.pending = t.pending \union all /\ u.todo = t.todo \ {a}
           /\ u.listing = {} /\ u.before = 0
           /\ u.phase = IF t.todo = {a} THEN "reading" ELSE "listing"
      /\ ~Listed(t, a, page) =>
           /\ u.pending = t.pending /\ u.todo = t.todo
           /\ u.listing = {a} /\ u.before = Min(page) /\ u.phase = "listing"
  BY <1>1, <1>5 DEF Idle
<1> HIDE DEF u, done, more
<1>9. /\ u.found[a] = all
      /\ \A b \in Accounts : b # a => u.found[b] = t.found[b]
      /\ u.found \in [Accounts -> SUBSET DOMAIN chain]
      /\ PayoutAccounts \subseteq Accounts
  BY <1>5, <1>6, <1>8 DEF PayoutAccounts
<1>10. /\ u.phase \in {"listing", "reading"}
       /\ u.phase = "reading" => u.todo = {}
  <2>1. CASE Listed(t, a, page)
    BY <1>8, <2>1
  <2>2. CASE ~Listed(t, a, page)
    BY <1>8, <2>2
  <2>3. QED
    BY <2>1, <2>2
<1>11. PassType(u)
  <2>1. CASE Listed(t, a, page)
    BY <1>5, <1>6, <1>8, <1>9, <1>10, <2>1 DEF PassType
  <2>2. CASE ~Listed(t, a, page)
    BY <1>4, <1>5, <1>6, <1>8, <1>9, <1>10, <2>2 DEF PassType
  <2>3. QED
    BY <2>1, <2>2
<1>12. StartInv(u)
  BY <1>3, <1>8 DEF StartInv
<1>13. ListingInv(u)
  <2>1. \A b \in t.todo \ {a} : u.found[b] = {}
    BY <1>3, <1>4, <1>5, <1>9 DEF ListingInv
  <2>2. CASE Listed(t, a, page)
    BY <1>8, <2>1, <2>2 DEF ListingInv
  <2>3. CASE ~Listed(t, a, page)
    <3>1. \A f \in all : \A i \in Touching(a) : Min(page) <= i /\ i <= f => i \in all
      BY <1>7, <2>3
    <3>2. u.todo \ u.listing = t.todo \ {a}
      BY <1>8, <2>3
    <3>3. QED
      BY <1>6, <1>8, <1>9, <2>1, <2>3, <3>1, <3>2 DEF ListingInv
  <2>4. QED
    BY <2>2, <2>3
<1>14. ListedInv(u)
  <2>1. ASSUME NEW b \in PayoutAccounts \ t.todo, NEW f \in u.found[b]
        PROVE  /\ f \in u.pending \/ ~Absent(f) \/ \E y \in u.payouts : y.signature = f
               /\ \A i \in Touching(b) : i <= f => i \in u.found[b] \/ ~Absent(i)
    <3>1. b # a /\ f \in t.found[b] /\ u.found[b] = t.found[b]
      BY <1>4, <1>9
    <3>2. t.pending \subseteq u.pending /\ u.payouts = t.payouts
      BY <1>8
    <3>3. QED
      BY <1>3, <3>1, <3>2 DEF ListedInv
  <2>2. CASE Listed(t, a, page)
    <3>1. \A f \in u.found[a] :
            /\ f \in u.pending
            /\ \A i \in Touching(a) : i <= f => i \in u.found[a] \/ ~Absent(i)
      BY <1>7, <1>8, <1>9, <2>2
    <3>2. \A b \in PayoutAccounts \ u.todo : b = a \/ b \in PayoutAccounts \ t.todo
      BY <1>8, <2>2
    <3>3. QED
      BY <2>1, <3>1, <3>2 DEF ListedInv
  <2>3. CASE ~Listed(t, a, page)
    BY <1>8, <2>1, <2>3 DEF ListedInv
  <2>4. QED
    BY <2>2, <2>3
<1>15. PassInv(u)
  BY <1>10, <1>11, <1>12, <1>13, <1>14 DEF PassInv
<1>16. QED
  BY <1>1, <1>15, LocalStep

\* What a pass reads next is on the chain.
LEMMA PendingType ==
  ASSUME ChainInv, NEW t, PassType(t), t.pending # {}
  PROVE  Max(t.pending) \in t.pending /\ Max(t.pending) \in DOMAIN chain
<1>1. Len(chain) \in Nat /\ DOMAIN chain = 1..Len(chain)
  BY DEF ChainInv
<1>2. t.pending \in SUBSET (1..Len(chain))
  BY <1>1 DEF PassType
<1>3. Max(t.pending) \in t.pending
  BY <1>1, <1>2, MaxIsLast
<1>4. QED
  BY <1>1, <1>2, <1>3

\* A transaction that was read is in memory, or it has no payout.
LEMMA ReadTransactionInv ==
  ASSUME IndexerAssumption, IndexerInv, NEW p \in Indexers, ReadTransaction(p)
  PROVE  IndexerInv'
<1> DEFINE t == passes[p]
           k == Max(t.pending)
           u == [t EXCEPT !.pending = @ \ {Max(@)}, !.payouts = @ \union ReadInto(t, k)]
<1>1. /\ t.phase = "reading" /\ t.pending # {}
      /\ passes' = [passes EXCEPT ![p] = u]
      /\ UNCHANGED <<chain, clock, rows, cursors, missing>>
  BY DEF ReadTransaction
<1>2. PassInv(t) /\ ChainInv
  BY DEF IndexerInv
<1>3. PassType(t) /\ StartInv(t) /\ ListingInv(t) /\ ListedInv(t) /\ t.todo = {}
  BY <1>1, <1>2 DEF PassInv
<1>4. k \in t.pending /\ k \in DOMAIN chain
  BY <1>1, <1>2, <1>3, PendingType
<1>5. /\ DOMAIN u = DOMAIN Idle
      /\ u.phase = t.phase /\ u.until = t.until /\ u.since = t.since /\ u.todo = t.todo
      /\ u.listing = t.listing /\ u.before = t.before /\ u.found = t.found
      /\ u.pending = t.pending \ {k} /\ u.payouts = t.payouts \union ReadInto(t, k)
  BY <1>3 DEF PassType, Idle
<1> HIDE DEF u, k
<1>6. AreRead(u.payouts)
  <2>1. \A y \in ReadInto(t, k) : y.signature = k /\ y \in ReadInto(Idle, k)
    BY DEF ReadInto
  <2>2. QED
    BY <1>3, <1>4, <1>5, <2>1 DEF PassType, AreRead
<1>7. PassType(u)
  BY <1>3, <1>5, <1>6 DEF PassType
<1>8. StartInv(u) /\ ListingInv(u)
  BY <1>3, <1>5 DEF StartInv, ListingInv
<1>9. Absent(k) => \E y \in u.payouts : y.signature = k
  <2> SUFFICES ASSUME Absent(k) PROVE \E y \in u.payouts : y.signature = k
    OBVIOUS
  <2>1. PICK z \in PayoutsOf(chain[k]) : TRUE
    BY DEF Absent
  <2>2. [signature |-> k, network |-> z.network, amount |-> z.amount] \in ReadInto(t, k)
    BY DEF ReadInto
  <2>3. QED
    BY <1>5, <2>2
<1>10. ListedInv(u)
  <2>1. ASSUME NEW a \in PayoutAccounts \ u.todo, NEW f \in u.found[a]
        PROVE  /\ f \in u.pending \/ ~Absent(f) \/ \E y \in u.payouts : y.signature = f
               /\ \A i \in Touching(a) : i <= f => i \in u.found[a] \/ ~Absent(i)
    <3>1. /\ f \in t.pending \/ ~Absent(f) \/ \E y \in t.payouts : y.signature = f
          /\ \A i \in Touching(a) : i <= f => i \in u.found[a] \/ ~Absent(i)
      BY <1>3, <1>5, <2>1 DEF ListedInv
    <3>2. f \in u.pending \/ ~Absent(f) \/ \E y \in u.payouts : y.signature = f
      BY <1>5, <1>9, <3>1
    <3>3. QED
      BY <3>1, <3>2
  <2>2. QED
    BY <2>1 DEF ListedInv
<1>11. PassInv(u)
  BY <1>3, <1>5, <1>7, <1>8, <1>10 DEF PassInv
<1>12. QED
  BY <1>1, <1>11, LocalStep

\* The table, the chain and the clock move on, the cursors stand: what was covered is.
LEMMA CursorsStayCovered ==
  ASSUME IndexerAssumption, IndexerInv, ChainInv', Grows, clock' \in Nat, cursors' = cursors
  PROVE  /\ CursorCovered'
         /\ cursors' \in [Accounts -> 0..Len(chain')]
<1>1. ChainInv /\ CursorCovered /\ clock \in Nat /\ cursors \in [Accounts -> 0..Len(chain)]
  BY DEF IndexerInv, TypeOK
<1>2. Len(chain) \in Nat /\ Len(chain') \in Nat /\ Len(chain) <= Len(chain')
      /\ DOMAIN chain = 1..Len(chain) /\ DOMAIN chain' = 1..Len(chain')
  BY <1>1 DEF ChainInv, Grows
<1>3. PayoutAccounts' = PayoutAccounts /\ PayoutAccounts \subseteq Accounts
  BY DEF PayoutAccounts
<1>4. ASSUME NEW a \in PayoutAccounts, NEW i \in Touching(a)', i <= cursors[a]
      PROVE  ~Absent(i)'
  <2>1. i \in DOMAIN chain'
    BY DEF Touching
  <2>2. i \in DOMAIN chain
    BY <1>1, <1>2, <1>3, <1>4, <2>1
  <2>3. i \in Touching(a)
    BY <1>1, <2>2, SameTouching
  <2>4. ~Absent(i)
    BY <1>1, <1>4, <2>3 DEF CursorCovered
  <2>5. QED
    BY <1>1, <2>2, <2>4, PresentStays
<1>5. QED
  BY <1>1, <1>2, <1>3, <1>4 DEF CursorCovered

\* A transaction the node does not return is passed over.
LEMMA SkipTransactionInv ==
  ASSUME IndexerAssumption, IndexerInv, NEW p \in Indexers, SkipTransaction(p)
  PROVE  IndexerInv'
<1>t. PICK t : t = passes[p]
  OBVIOUS
<1>k. PICK k : k = Max(t.pending)
  OBVIOUS
<1>u. PICK u : u = [t EXCEPT !.pending = @ \ {k}]
  OBVIOUS
<1>1. /\ t.phase = "reading" /\ t.pending # {}
      /\ passes' = [passes EXCEPT ![p] = u]
      /\ missing' = missing \union {k}
      /\ UNCHANGED <<chain, clock, rows, cursors>>
  BY <1>t, <1>k, <1>u DEF SkipTransaction, IndexerInv
<1>2. PassInv(t) /\ ChainInv /\ clock \in Nat /\ missing \subseteq DOMAIN chain
  BY <1>t DEF IndexerInv, TypeOK
<1>3. PassType(t) /\ StartInv(t) /\ ListingInv(t) /\ ListedInv(t) /\ t.todo = {}
  BY <1>1, <1>2 DEF PassInv
<1>4. k \in t.pending /\ k \in DOMAIN chain
  BY <1>1, <1>2, <1>3, <1>k, PendingType
<1>5. /\ DOMAIN u = DOMAIN Idle
      /\ u.phase = t.phase /\ u.until = t.until /\ u.since = t.since /\ u.todo = t.todo
      /\ u.listing = t.listing /\ u.before = t.before /\ u.found = t.found
      /\ u.pending = t.pending \ {k} /\ u.payouts = t.payouts
  BY <1>3, <1>u DEF PassType, Idle
<1>6. u = passes'[p]
  BY <1>1 DEF IndexerInv
<1>7. /\ ChainInv' /\ clock' \in Nat /\ Grows /\ Len(chain') = Len(chain)
      /\ PayoutAccounts' = PayoutAccounts /\ chain' = chain /\ clock' = clock
  BY <1>1, <1>2 DEF ChainInv, Grows, PayoutAccounts
<1>8. /\ \A i \in DOMAIN chain : ~Absent(i) => ~Absent(i)'
      /\ ~Absent(k)'
      /\ \A a : Touching(a)' = Touching(a)
      /\ \A a : Touching(a) \subseteq DOMAIN chain
  <2>1. \A i \in DOMAIN chain : ~Absent(i) => ~Absent(i)'
    BY <1>2, <1>7, PresentStays
  <2>2. ~Absent(k)'
    BY <1>1 DEF Absent
  <2>3. \A a : Touching(a)' = Touching(a) /\ Touching(a) \subseteq DOMAIN chain
    BY <1>1 DEF Touching
  <2>4. QED
    BY <2>1, <2>2, <2>3
<1>9. PassInv(passes[p])'
  <2>1. AreRead(u.payouts)'
    BY <1>3, <1>5, <1>7, ReadStays DEF PassType, AreRead
  <2>2. PassType(passes[p])'
    BY <1>3, <1>5, <1>6, <1>7, <2>1 DEF PassType
  <2>3. PayoutAccounts \subseteq Accounts /\ t.found \in [Accounts -> SUBSET DOMAIN chain]
    BY <1>3 DEF PassType, PayoutAccounts
  <2>4. StartInv(passes[p])'
    BY <1>3, <1>5, <1>6, <1>7, <1>8 DEF StartInv
  <2>5. ListingInv(passes[p])'
    BY <1>3, <1>5, <1>6, <1>8 DEF ListingInv
  <2>6. ASSUME NEW a \in PayoutAccounts, NEW f \in u.found[a]
        PROVE  /\ f \in u.pending \/ ~Absent(f)' \/ \E y \in u.payouts : y.signature = f
               /\ \A i \in Touching(a) : i <= f => i \in u.found[a] \/ ~Absent(i)'
    <3>1. f \in DOMAIN chain /\ a \notin t.todo /\ f \in t.found[a]
      BY <1>3, <1>5, <2>3, <2>6
    <3>2. /\ f \in t.pending \/ ~Absent(f) \/ \E y \in t.payouts : y.signature = f
          /\ \A i \in Touching(a) : i <= f => i \in t.found[a] \/ ~Absent(i)
      BY <1>3, <3>1 DEF ListedInv
    <3>3. f \in u.pending \/ ~Absent(f)' \/ \E y \in u.payouts : y.signature = f
      BY <1>5, <1>8, <3>1, <3>2
    <3>4. \A i \in Touching(a) : i <= f => i \in u.found[a] \/ ~Absent(i)'
      BY <1>5, <1>8, <3>2
    <3>5. QED
      BY <3>3, <3>4
  <2>7. ListedInv(passes[p])'
    BY <1>6, <1>7, <1>8, <2>6 DEF ListedInv
  <2>8. QED
    BY <1>3, <1>5, <1>6, <2>2, <2>4, <2>5, <2>7 DEF PassInv
<1>10. CursorCovered'
  BY <1>1, <1>7, CursorsStayCovered
<1>11. RowsInv'
  BY <1>1, <1>7, ReadStays DEF IndexerInv, RowsInv, AreRead
<1>12. /\ DOMAIN passes' = Indexers
       /\ \A q \in Indexers : PassInv(passes[q])'
       /\ \A q \in Indexers :
            UNION {passes'[q].found[a] : a \in Accounts} \subseteq DOMAIN chain'
  BY <1>1, <1>7, <1>9, OnePassMoves
<1>13. TypeOK'
  BY <1>1, <1>4, <1>12 DEF IndexerInv, TypeOK
<1>14. QED
  BY <1>7, <1>10, <1>11, <1>12, <1>13 DEF IndexerInv

\* A payout is a gain.
LEMMA PayoutIsGain ==
  ASSUME NEW tx, NEW y \in PayoutsOf(tx)
  PROVE  \E m \in Received(tx) : \E c \in CandidatesOf(tx, m) : \E n \in Networks :
           /\ tx.time # NoTime
           /\ y = [network |-> n.id, amount |-> Delta(tx, m, Wallet)]
           /\ n.mint = m
           /\ [kind |-> c.via, address |-> c.source] \in n.sources
<1>1. PICK t \in IncomingTransfers(tx) : \E n \in NetworkOf(t) :
        y = [network |-> n.id, amount |-> t.amount]
  BY DEF PayoutsOf
<1>2. PICK n \in NetworkOf(t) : y = [network |-> n.id, amount |-> t.amount]
  BY <1>1
<1>3. tx.time # NoTime
  BY <1>1 DEF IncomingTransfers
<1>4. PICK m \in Received(tx) : \E c \in CandidatesOf(tx, m) :
        t = [via |-> c.via, source |-> c.source, mint |-> m, amount |-> Delta(tx, m, Wallet)]
  BY <1>1 DEF IncomingTransfers
<1>5. PICK c \in CandidatesOf(tx, m) :
        t = [via |-> c.via, source |-> c.source, mint |-> m, amount |-> Delta(tx, m, Wallet)]
  BY <1>4
<1>6. t.via = c.via /\ t.source = c.source /\ t.mint = m /\ t.amount = Delta(tx, m, Wallet)
  BY <1>5
<1>7. n \in Networks /\ n.mint = m /\ [kind |-> c.via, address |-> c.source] \in n.sources
  BY <1>2, <1>6 DEF NetworkOf
<1>8. QED
  BY <1>2, <1>3, <1>6, <1>7

\* What a pass has read is some tokens of a transaction of the chain.
LEMMA ReadIsPositive ==
  ASSUME NEW read, AreRead(read), NEW y \in read
  PROVE  y.amount > 0 /\ y.signature \in DOMAIN chain
<1>1. y.signature \in DOMAIN chain /\ y \in ReadInto(Idle, y.signature)
  BY DEF AreRead
<1>x. PICK tx : tx = chain[y.signature]
  OBVIOUS
<1>2. PICK z \in PayoutsOf(tx) :
        y = [signature |-> y.signature, network |-> z.network, amount |-> z.amount]
  BY <1>1, <1>x DEF ReadInto
<1>3. PICK m \in Received(tx) : \E c \in CandidatesOf(tx, m) : \E n \in Networks :
        /\ tx.time # NoTime
        /\ z = [network |-> n.id, amount |-> Delta(tx, m, Wallet)]
        /\ n.mint = m
        /\ [kind |-> c.via, address |-> c.source] \in n.sources
  BY PayoutIsGain
<1>4. z.amount = Delta(tx, m, Wallet)
  BY <1>3
<1>5. z.amount > 0
  BY <1>4 DEF Received
<1>6. QED
  BY <1>1, <1>2, <1>5

\* recordPass: the cursors move to what was found, and all of it is in the table.
LEMMA RecordPassInv ==
  ASSUME IndexerAssumption, IndexerInv, NEW p \in Indexers, RecordPass(p)
  PROVE  IndexerInv'
<1>t. PICK t : t = passes[p]
  OBVIOUS
<1>1. /\ t.phase = "reading" /\ t.pending = {}
      /\ cursors' = CursorsAfter(t)
      /\ passes' = [passes EXCEPT ![p] = Idle]
      /\ chain' = chain /\ clock' = clock /\ missing' = missing
  BY <1>t DEF RecordPass
<1>2. PICK new \in SUBSET t.payouts : Inserted(t, new) /\ rows' = rows \union new
  BY <1>t DEF RecordPass
<1>3. /\ PassInv(t) /\ ChainInv /\ clock \in Nat /\ TypeOK /\ CursorCovered /\ RowsInv
      /\ cursors \in [Accounts -> 0..Len(chain)]
  BY <1>t DEF IndexerInv, TypeOK
<1>4. PassType(t) /\ ListedInv(t) /\ t.todo = {}
  BY <1>1, <1>3 DEF PassInv
<1>5. Len(chain) \in Nat /\ DOMAIN chain = 1..Len(chain)
  BY <1>3 DEF ChainInv
<1>6. /\ ChainInv' /\ clock' \in Nat /\ Grows
      /\ PayoutAccounts' = PayoutAccounts /\ PayoutAccounts \subseteq Accounts
  BY <1>1, <1>2, <1>3 DEF ChainInv, Grows, PayoutAccounts
<1>7. AreRead(rows') /\ RowsInv'
  <2>1. AreRead(rows')
    BY <1>2, <1>3, <1>4 DEF RowsInv, AreRead, PassType
  <2>2. \A i : ReadInto(Idle, i)' = ReadInto(Idle, i)
    BY <1>1 DEF ReadInto
  <2>3. RowsInv'
    BY <1>1, <2>1, <2>2 DEF RowsInv, AreRead
  <2>4. QED
    BY <2>1, <2>3
<1>8. \A i \in DOMAIN chain : ~Absent(i) => ~Absent(i)'
  BY <1>3, <1>6, PresentStays
<1>9. \A y \in t.payouts : ~Absent(y.signature)'
  <2>1. \A y \in t.payouts : \E r \in rows' : r.signature = y.signature
    BY <1>2 DEF Inserted
  <2>2. QED
    BY <2>1 DEF Absent
<1>10. ASSUME NEW a \in Accounts, t.found[a] # {}
       PROVE  /\ cursors'[a] = Max(t.found[a])
              /\ Max(t.found[a]) \in t.found[a] /\ Max(t.found[a]) \in 1..Len(chain)
  <2>1. t.found[a] \in SUBSET (1..Len(chain))
    BY <1>4, <1>5 DEF PassType
  <2>2. Max(t.found[a]) \in t.found[a]
    BY <1>5, <1>10, <2>1, MaxIsLast
  <2>3. QED
    BY <1>1, <1>10, <2>1, <2>2 DEF CursorsAfter
<1>11. ASSUME NEW a \in Accounts, t.found[a] = {} PROVE cursors'[a] = cursors[a]
  BY <1>1, <1>11 DEF CursorsAfter
<1>12. cursors' \in [Accounts -> 0..Len(chain')]
  <2>1. DOMAIN cursors' = Accounts /\ cursors' = [a \in Accounts |-> cursors'[a]]
    BY <1>1 DEF CursorsAfter
  <2>2. \A a \in Accounts : cursors'[a] \in 0..Len(chain)
    BY <1>3, <1>5, <1>10, <1>11
  <2>3. QED
    BY <1>1, <2>1, <2>2
<1>13. CursorCovered'
  <2>1. ASSUME NEW a \in PayoutAccounts, NEW i \in Touching(a), i <= cursors'[a]
        PROVE  ~Absent(i)'
    <3>1. a \in Accounts /\ i \in DOMAIN chain
      BY <1>6 DEF Touching
    <3>2. CASE t.found[a] = {}
      <4>1. i <= cursors[a]
        BY <1>11, <2>1, <3>1, <3>2
      <4>2. ~Absent(i)
        BY <1>3, <4>1 DEF CursorCovered
      <4>3. QED
        BY <1>8, <3>1, <4>2
    <3>3. CASE t.found[a] # {}
      <4> DEFINE f == Max(t.found[a])
      <4>1. f \in t.found[a] /\ i <= f
        BY <1>10, <2>1, <3>1, <3>3
      <4> HIDE DEF f
      <4>2. i \in t.found[a] \/ ~Absent(i)
        BY <1>4, <4>1 DEF ListedInv
      <4>3. i \in t.found[a] => ~Absent(i) \/ \E y \in t.payouts : y.signature = i
        BY <1>1, <1>4 DEF ListedInv
      <4>4. QED
        BY <1>8, <1>9, <3>1, <4>2, <4>3
    <3>4. QED
      BY <3>2, <3>3
  <2>2. \A a : Touching(a)' = Touching(a)
    BY <1>1 DEF Touching
  <2>3. QED
    BY <1>6, <2>1, <2>2 DEF CursorCovered
<1>14. /\ DOMAIN passes' = Indexers
       /\ \A q \in Indexers : PassInv(passes[q])'
       /\ \A q \in Indexers :
            UNION {passes'[q].found[a] : a \in Accounts} \subseteq DOMAIN chain'
  <2>1. PassInv(Idle)'
    BY <1>1, <1>3, IdlePass
       DEF PassInv, PassType, AreRead, Idle, PayoutAccounts
  <2>2. passes'[p] = Idle
    BY <1>1 DEF IndexerInv
  <2>3. PassInv(passes[p])'
    BY <2>1, <2>2 DEF PassInv, PassType, AreRead, Idle
  <2>4. QED
    BY <1>1, <1>6, <2>3, OnePassMoves
<1>15. TypeOK'
  <2>1. \A r \in rows' : r.signature \in DOMAIN chain' /\ r.amount > 0
    BY <1>1, <1>7, ReadIsPositive
  <2>2. \A r, q \in rows' : r.signature = q.signature => r = q
    BY <1>2, <1>3 DEF TypeOK, Inserted
  <2>3. QED
    BY <1>1, <1>3, <1>12, <1>14, <2>1, <2>2 DEF TypeOK
<1>16. QED
  BY <1>6, <1>7, <1>13, <1>14, <1>15 DEF IndexerInv

\* A step of the chain or the clock.
LEMMA WorldMoves ==
  ASSUME IndexerAssumption, IndexerInv, ChainInv', Grows, clock' \in 0..MAX_TIME,
         rows' = rows, cursors' = cursors, passes' = passes, missing' = missing
  PROVE  IndexerInv'
<1>1. clock' \in Nat
  BY DEF IndexerAssumption
<1>2. /\ CursorCovered'
      /\ cursors' \in [Accounts -> 0..Len(chain')]
  BY <1>1, CursorsStayCovered
<1>3. RowsInv'
  BY ReadStays DEF IndexerInv, RowsInv, AreRead
<1>4. \A p \in Indexers : PassInv(passes[p])'
  BY <1>1, PassStays
<1>5. \A p \in Indexers : UNION {passes'[p].found[a] : a \in Accounts} \subseteq DOMAIN chain'
  BY <1>4 DEF PassInv, PassType
<1>6. DOMAIN chain \subseteq DOMAIN chain'
  BY DEF Grows
<1>7. TypeOK'
  BY <1>2, <1>5, <1>6 DEF IndexerInv, TypeOK
<1>8. QED
  BY <1>2, <1>3, <1>4, <1>7 DEF IndexerInv

\* A transaction lands, no earlier than those before it.
LEMMA LandInv ==
  ASSUME IndexerAssumption, IndexerInv, NEW tx \in Transactions, Land(tx)
  PROVE  IndexerInv'
<1> DEFINE at == IF tx.time = NoTime THEN NoTime ELSE clock
           last == [tx EXCEPT !.time = at]
<1>1. /\ chain' = Append(chain, last)
      /\ UNCHANGED <<clock, rows, cursors, passes, missing>>
  BY DEF Land
<1>2. ChainInv /\ clock \in Nat /\ clock \in 0..MAX_TIME
  BY DEF IndexerInv, TypeOK, IndexerAssumption
<1>3. at \in Nat \union {NoTime}
  BY <1>2
<1>4. last \in Landed
  <2> HIDE DEF at
  <2>1. QED
    BY <1>3 DEF Landed
<1>5. last.time # NoTime => last.time = clock
  <2>1. "time" \in DOMAIN tx
    BY DEF IndexerAssumption, IsTransaction
  <2>2. last.time = at
    BY <2>1
  <2>3. QED
    BY <2>2
<1> HIDE DEF at, last
<1>6. /\ chain \in Seq(Landed) /\ chain' \in Seq(Landed)
      /\ Len(chain) \in Nat /\ Len(chain') = Len(chain) + 1
      /\ DOMAIN chain = 1..Len(chain) /\ DOMAIN chain' = 1..(Len(chain) + 1)
      /\ \A i \in 1..Len(chain) : chain'[i] = chain[i]
      /\ chain'[Len(chain) + 1] = last
  BY <1>1, <1>2, <1>4 DEF ChainInv
<1>7. Grows
  BY <1>1, <1>2, <1>6 DEF Grows
<1>8. ChainInv'
  <2>1. ASSUME NEW i \in DOMAIN chain', chain'[i].time # NoTime
        PROVE  chain'[i].time \in 0..clock
    <3>1. CASE i \in 1..Len(chain)
      BY <1>2, <1>6, <2>1, <3>1 DEF ChainInv
    <3>2. CASE i = Len(chain) + 1
      BY <1>2, <1>5, <1>6, <2>1, <3>2
    <3>3. QED
      BY <1>6, <3>1, <3>2
  <2>2. ASSUME NEW i \in DOMAIN chain', NEW j \in DOMAIN chain', i < j,
               chain'[i].time # NoTime, chain'[j].time # NoTime
        PROVE  chain'[i].time <= chain'[j].time
    <3>1. i \in 1..Len(chain)
      BY <1>6, <2>2
    <3>2. CASE j \in 1..Len(chain)
      BY <1>2, <1>6, <2>2, <3>1, <3>2 DEF ChainInv
    <3>3. CASE j = Len(chain) + 1
      <4>1. chain'[j].time = clock
        BY <1>5, <1>6, <2>2, <3>3
      <4>2. chain'[i].time \in 0..clock
        BY <2>1, <2>2
      <4>3. QED
        BY <1>2, <4>1, <4>2
    <3>4. QED
      BY <1>6, <3>2, <3>3
  <2>3. QED
    BY <1>1, <1>6, <2>1, <2>2 DEF ChainInv
<1>9. QED
  BY <1>1, <1>2, <1>7, <1>8, WorldMoves

\* Time passes: what is too old stays so.
LEMMA TickInv ==
  ASSUME IndexerAssumption, IndexerInv, Tick
  PROVE  IndexerInv'
<1>1. /\ clock \in 0..MAX_TIME /\ clock < MAX_TIME /\ clock' = clock + 1 /\ MAX_TIME \in Nat
      /\ UNCHANGED <<chain, rows, cursors, passes, missing>>
  BY DEF Tick, IndexerInv, TypeOK, IndexerAssumption
<1>2. clock' \in 0..MAX_TIME /\ Grows
  <2>1. Len(chain) \in Nat
    BY DEF IndexerInv, ChainInv
  <2>2. QED
    BY <1>1, <2>1 DEF Grows
<1>3. ChainInv'
  <2>1. ChainInv
    BY DEF IndexerInv
  <2>2. \A i \in DOMAIN chain : chain[i].time # NoTime => chain[i].time \in 0..clock'
    BY <1>1, <2>1 DEF ChainInv
  <2>3. QED
    BY <1>1, <2>1, <2>2 DEF ChainInv
<1>4. QED
  BY <1>1, <1>2, <1>3, WorldMoves

\* Nothing on the chain, in the table or under way.
LEMMA InitInv == IndexerAssumption /\ Init => IndexerInv
<1> SUFFICES ASSUME IndexerAssumption, Init PROVE IndexerInv
  OBVIOUS
<1>1. /\ chain = <<>> /\ clock = 0 /\ rows = {} /\ missing = {} /\ MAX_TIME \in Nat
      /\ cursors = [a \in Accounts |-> 0] /\ passes = [p \in Indexers |-> Idle]
  BY DEF Init, IndexerAssumption
<1>2. ChainInv
  BY <1>1 DEF ChainInv
<1>3. TypeOK
  BY <1>1 DEF TypeOK, Idle
<1>4. CursorCovered /\ RowsInv
  BY <1>1 DEF CursorCovered, Touching, RowsInv, AreRead
<1>5. \A p \in Indexers : PassInv(passes[p])
  BY <1>1, <1>2, IdlePass
<1>6. QED
  BY <1>1, <1>2, <1>3, <1>4, <1>5 DEF IndexerInv

LEMMA NextInv ==
  ASSUME IndexerAssumption, IndexerInv, [Next]_vars
  PROVE  IndexerInv'
<1>1. ASSUME NEW tx \in Transactions, Land(tx) PROVE IndexerInv'
  BY <1>1, LandInv
<1>2. CASE Tick
  BY <1>2, TickInv
<1>3. ASSUME NEW p \in Indexers, StartPass(p) PROVE IndexerInv'
  BY <1>3, StartPassInv
<1>4. ASSUME NEW p \in Indexers, NEW a \in Accounts, ReadPage(p, a) PROVE IndexerInv'
  BY <1>4, ReadPageInv
<1>5. ASSUME NEW p \in Indexers, ReadTransaction(p) PROVE IndexerInv'
  BY <1>5, ReadTransactionInv
<1>6. ASSUME NEW p \in Indexers, RecordPass(p) PROVE IndexerInv'
  BY <1>6, RecordPassInv
<1>7. ASSUME NEW p \in Indexers, SkipTransaction(p) PROVE IndexerInv'
  BY <1>7, SkipTransactionInv
<1>8. ASSUME NEW p \in Indexers, FailPass(p) PROVE IndexerInv'
  BY <1>8, FailPassInv
<1>9. CASE UNCHANGED vars
  <2>1. Grows /\ ChainInv' /\ clock' \in 0..MAX_TIME
    BY <1>9 DEF vars, Grows, ChainInv, IndexerInv, TypeOK
  <2>2. QED
    BY <1>9, <2>1, WorldMoves DEF vars
<1>10. QED
  BY <1>1, <1>2, <1>3, <1>4, <1>5, <1>6, <1>7, <1>8, <1>9 DEF Next, Step

\* The inductive invariant of the indexer.
LEMMA Inductive == IndexerAssumption /\ Spec => []IndexerInv
<1> SUFFICES ASSUME IndexerAssumption PROVE Spec => []IndexerInv
  OBVIOUS
<1>1. Init => IndexerInv
  BY InitInv
<1>2. IndexerInv /\ [Next]_vars => IndexerInv'
  BY NextInv
<1>3. QED
  BY <1>1, <1>2, PTL DEF Spec

\* The table has one row of a signature, of tokens gained in a transaction of the chain,
\* and no cursor is past its end, for any number of passes that overlap.
THEOREM TypeCorrect == IndexerAssumption /\ Spec => []TypeOK
<1> SUFFICES ASSUME IndexerAssumption PROVE Spec => []TypeOK
  OBVIOUS
<1>1. IndexerInv => TypeOK
  BY DEF IndexerInv
<1>2. QED
  BY <1>1, Inductive, PTL

\* No cursor is past a payout without a row, whatever the pages, however many accounts one
\* transaction touches, and whichever pass failed or was overtaken.
THEOREM NothingPassedBy == IndexerAssumption /\ Spec => []CursorCovered
<1> SUFFICES ASSUME IndexerAssumption PROVE Spec => []CursorCovered
  OBVIOUS
<1>1. IndexerInv => CursorCovered
  BY DEF IndexerInv
<1>2. QED
  BY <1>1, Inductive, PTL

-----------------------------------------------------------------------------
\* What a function makes of a finite set is finite.
LEMMA ImageIsFinite ==
  ASSUME NEW S, IsFiniteSet(S), NEW f, DOMAIN f = S, f = [x \in S |-> f[x]]
  PROVE  IsFiniteSet({f[x] : x \in S})
<1> DEFINE T == {f[x] : x \in S}
<1>1. f \in Surjection(S, T)
  BY DEF Surjection
<1> HIDE DEF T
<1>2. IsFiniteSet(T)
  BY <1>1, FS_Surjection
<1>3. QED
  BY <1>2 DEF T

\* A receipt from a clear source has one candidate, and the node names whoever issued any.
LEMMA SourceIsOne ==
  ASSUME NEW tx, IsTransaction(tx), NEW m \in Received(tx), NEW c \in CandidatesOf(tx, m)
  PROVE  /\ \A d \in CandidatesOf(tx, m) : d = c
         /\ Nobody \notin AuthoritiesOf(tx, m)
<1>1. SourceIsClear(tx, m)
  BY DEF Received
<1>2. Nobody \notin AuthoritiesOf(tx, m) /\ Cardinality(CandidatesOf(tx, m)) = 1
  BY <1>1 DEF SourceIsClear
<1> DEFINE moves   == {v \in tx.moves : v.mint = m}
           issues  == {i \in tx.issues : i.mint = m}
           owners  == {p \in OwnersOf(tx, m) \ {Wallet} : Delta(tx, m, p) < 0}
           owner   == [v \in moves |-> v.owner]
           issuer  == [i \in issues |-> i.authority]
           sender  == [o \in owners |-> [via |-> "transfer", source |-> o]]
           minter  == [a \in AuthoritiesOf(tx, m) |-> [via |-> "mint", source |-> a]]
<1>3. IsFiniteSet(moves) /\ IsFiniteSet(issues)
  BY FS_Subset DEF IsTransaction
<1>4. IsFiniteSet(owners)
  <2>1. IsFiniteSet({owner[v] : v \in moves})
    <3> HIDE DEF moves
    <3>1. DOMAIN owner = moves /\ owner = [v \in moves |-> owner[v]]
      OBVIOUS
    <3> HIDE DEF owner
    <3>2. QED
      BY <1>3, <3>1, ImageIsFinite
  <2>2. owners \subseteq {owner[v] : v \in moves}
    BY DEF OwnersOf
  <2> HIDE DEF owners, owner, moves
  <2>3. QED
    BY <2>1, <2>2, FS_Subset
<1>5. IsFiniteSet(AuthoritiesOf(tx, m))
  <2>1. IsFiniteSet({issuer[i] : i \in issues})
    <3> HIDE DEF issues
    <3>1. DOMAIN issuer = issues /\ issuer = [i \in issues |-> issuer[i]]
      OBVIOUS
    <3> HIDE DEF issuer
    <3>2. QED
      BY <1>3, <3>1, ImageIsFinite
  <2>2. AuthoritiesOf(tx, m) = {issuer[i] : i \in issues}
    BY DEF AuthoritiesOf
  <2>3. QED
    BY <2>1, <2>2
<1>6. IsFiniteSet({sender[o] : o \in owners})
  <2> HIDE DEF owners
  <2>1. DOMAIN sender = owners /\ sender = [o \in owners |-> sender[o]]
    OBVIOUS
  <2> HIDE DEF sender
  <2>2. QED
    BY <1>4, <2>1, ImageIsFinite
<1>7. IsFiniteSet({minter[a] : a \in AuthoritiesOf(tx, m)})
  <2>1. DOMAIN minter = AuthoritiesOf(tx, m)
        /\ minter = [a \in AuthoritiesOf(tx, m) |-> minter[a]]
    OBVIOUS
  <2> HIDE DEF minter
  <2>2. QED
    BY <1>5, <2>1, ImageIsFinite
<1>8. CandidatesOf(tx, m)
        = {sender[o] : o \in owners} \union {minter[a] : a \in AuthoritiesOf(tx, m)}
  BY DEF CandidatesOf
<1> HIDE DEF owners, sender, minter
<1>9. IsFiniteSet(CandidatesOf(tx, m))
  BY <1>6, <1>7, <1>8, FS_Union
<1>10. PICK d : CandidatesOf(tx, m) = {d}
  BY <1>2, <1>9, FS_Singleton
<1>11. QED
  BY <1>2, <1>10

\* A row is tokens that the operator gained, and only sources of its network gave any.
LEMMA PayoutIsReal ==
  ASSUME NEW tx, IsTransaction(tx), NEW y \in PayoutsOf(tx)
  PROVE  \E n \in Networks :
           /\ n.id = y.network
           /\ Delta(tx, n.mint, Wallet) = y.amount
           /\ \A v \in tx.moves :
                v.mint = n.mint /\ Delta(tx, v.mint, v.owner) < 0 /\ v.owner \notin {Wallet, Nobody}
                  => [kind |-> "transfer", address |-> v.owner] \in n.sources
           /\ \A i \in tx.issues :
                i.mint = n.mint => [kind |-> "mint", address |-> i.authority] \in n.sources
<1>1. PICK m \in Received(tx) : \E c \in CandidatesOf(tx, m) : \E n \in Networks :
        /\ tx.time # NoTime
        /\ y = [network |-> n.id, amount |-> Delta(tx, m, Wallet)]
        /\ n.mint = m
        /\ [kind |-> c.via, address |-> c.source] \in n.sources
  BY PayoutIsGain
<1>2. PICK c \in CandidatesOf(tx, m) : \E n \in Networks :
        /\ y = [network |-> n.id, amount |-> Delta(tx, m, Wallet)]
        /\ n.mint = m
        /\ [kind |-> c.via, address |-> c.source] \in n.sources
  BY <1>1
<1>3. PICK n \in Networks :
        /\ y = [network |-> n.id, amount |-> Delta(tx, m, Wallet)]
        /\ n.mint = m
        /\ [kind |-> c.via, address |-> c.source] \in n.sources
  BY <1>2
<1>4. \A d \in CandidatesOf(tx, m) : d = c
  BY SourceIsOne
<1>5. n.id = y.network /\ Delta(tx, n.mint, Wallet) = y.amount
  BY <1>3
<1>6. ASSUME NEW v \in tx.moves, v.mint = n.mint, Delta(tx, v.mint, v.owner) < 0,
             v.owner \notin {Wallet, Nobody}
      PROVE  [kind |-> "transfer", address |-> v.owner] \in n.sources
  <2>1. v.owner \in OwnersOf(tx, m) \ {Wallet} /\ Delta(tx, m, v.owner) < 0
    BY <1>3, <1>6 DEF OwnersOf
  <2>2. [via |-> "transfer", source |-> v.owner] \in CandidatesOf(tx, m)
    BY <2>1 DEF CandidatesOf
  <2>3. c = [via |-> "transfer", source |-> v.owner]
    BY <1>4, <2>2
  <2>4. c.via = "transfer" /\ c.source = v.owner
    BY <2>3
  <2>5. QED
    BY <1>3, <2>4
<1>7. ASSUME NEW i \in tx.issues, i.mint = n.mint
      PROVE  [kind |-> "mint", address |-> i.authority] \in n.sources
  <2>1. i.authority \in AuthoritiesOf(tx, m)
    BY <1>3, <1>7 DEF AuthoritiesOf
  <2>2. [via |-> "mint", source |-> i.authority] \in CandidatesOf(tx, m)
    BY <2>1 DEF CandidatesOf
  <2>3. c = [via |-> "mint", source |-> i.authority]
    BY <1>4, <2>2
  <2>4. c.via = "mint" /\ c.source = i.authority
    BY <2>3
  <2>5. QED
    BY <1>3, <2>4
<1>8. QED
  BY <1>5, <1>6, <1>7

\* A transaction keeps its form when it lands.
LEMMA LandedType ==
  ASSUME IndexerAssumption, NEW tx \in Landed
  PROVE  IsTransaction(tx)
<1>1. PICK sent \in Transactions, at \in Nat \union {NoTime} : tx = [sent EXCEPT !.time = at]
  BY DEF Landed
<1>2. IsTransaction(sent)
  BY DEF IndexerAssumption
<1>3. DOMAIN sent = {"moves", "issues", "failed", "time"}
  BY <1>2 DEF IsTransaction
<1>4. /\ DOMAIN tx = DOMAIN sent /\ tx.time = at
      /\ tx.moves = sent.moves /\ tx.issues = sent.issues /\ tx.failed = sent.failed
  BY <1>1, <1>3
<1>5. QED
  BY <1>2, <1>4 DEF IsTransaction

\* FR-002, for any networks and transactions: every row is tokens that the operator gained,
\* and all who parted with tokens of the mint or issued them are sources of the network.
THEOREM EveryRowIsAPayout == IndexerAssumption /\ Spec => []NothingInvented
<1> SUFFICES ASSUME IndexerAssumption PROVE Spec => []NothingInvented
  OBVIOUS
<1>1. ASSUME IndexerInv PROVE NothingInvented
  <2>1. ASSUME NEW r \in rows
        PROVE  \E n \in Networks :
                 /\ n.id = r.network
                 /\ Delta(chain[r.signature], n.mint, Wallet) = r.amount
                 /\ \A v \in chain[r.signature].moves :
                      v.mint = n.mint /\ Delta(chain[r.signature], v.mint, v.owner) < 0
                        /\ v.owner \notin {Wallet, Nobody}
                        => [kind |-> "transfer", address |-> v.owner] \in n.sources
                 /\ \A i \in chain[r.signature].issues :
                      i.mint = n.mint => [kind |-> "mint", address |-> i.authority] \in n.sources
    <3>1. r.signature \in DOMAIN chain /\ r \in ReadInto(Idle, r.signature)
      BY <1>1, <2>1 DEF IndexerInv, RowsInv, AreRead
    <3>2. PICK tx : tx = chain[r.signature]
      OBVIOUS
    <3>3. PICK z \in PayoutsOf(tx) :
            r = [signature |-> r.signature, network |-> z.network, amount |-> z.amount]
      BY <3>1, <3>2 DEF ReadInto
    <3>4. IsTransaction(tx)
      <4>1. tx \in Landed
        BY <1>1, <3>1, <3>2 DEF IndexerInv, ChainInv
      <4>2. QED
        BY <4>1, LandedType
    <3>5. r.network = z.network /\ r.amount = z.amount
      BY <3>3
    <3>6. \E n \in Networks :
            /\ n.id = z.network
            /\ Delta(tx, n.mint, Wallet) = z.amount
            /\ \A v \in tx.moves :
                 v.mint = n.mint /\ Delta(tx, v.mint, v.owner) < 0
                   /\ v.owner \notin {Wallet, Nobody}
                   => [kind |-> "transfer", address |-> v.owner] \in n.sources
            /\ \A i \in tx.issues :
                 i.mint = n.mint => [kind |-> "mint", address |-> i.authority] \in n.sources
      BY <3>4, PayoutIsReal
    <3>7. PICK n \in Networks :
            /\ n.id = z.network
            /\ Delta(tx, n.mint, Wallet) = z.amount
            /\ \A v \in tx.moves :
                 v.mint = n.mint /\ Delta(tx, v.mint, v.owner) < 0
                   /\ v.owner \notin {Wallet, Nobody}
                   => [kind |-> "transfer", address |-> v.owner] \in n.sources
            /\ \A i \in tx.issues :
                 i.mint = n.mint => [kind |-> "mint", address |-> i.authority] \in n.sources
      BY <3>6
    <3>8. n.id = r.network /\ Delta(tx, n.mint, Wallet) = r.amount
      BY <3>5, <3>7
    <3>9. QED
      BY <3>2, <3>7, <3>8
  <2>2. QED
    BY <2>1 DEF NothingInvented, Delta
<1>2. QED
  BY <1>1, Inductive, PTL

-----------------------------------------------------------------------------
(***************************************************************************)
(* The daily prices of a token, which the same worker records.             *)
(***************************************************************************)
CONSTANTS Readers, LAST_DAY, MAX_PRICE, MAX_REVISIONS

VARIABLES observed, table, requests, answered, known, revisions

Prices == INSTANCE DailyPrices

\* The source once said this of the day.
Said(day, price) ==
  \E o \in known :
    /\ o.price = price /\ o.price > 0
    /\ o.at \in 4 * day - Prices!SEARCH_WIDTH..4 * day + Prices!SEARCH_WIDTH

\* Quotes by day, none of them made up.
AreQuotes(series) ==
  /\ series \in [Prices!Days -> 0..MAX_PRICE]
  /\ \A d \in Prices!Days : series[d] # 0 => Said(d, series[d])

\* What the source has now it has said; it answers for a day with what is near midnight.
SourceInv ==
  \A d \in Prices!Days :
    /\ observed[d].price \in 0..MAX_PRICE
    /\ observed[d].at \in 4 * d - Prices!SEARCH_WIDTH..4 * d + Prices!SEARCH_WIDTH
    /\ observed[d].price # 0 => observed[d] \in known

\* A request that has read the table and goes on has a gap to ask for.
RequestInv(t) ==
  /\ DOMAIN t = DOMAIN Prices!Idle
  /\ t.from \in Nat /\ t.to \in Nat /\ t.from <= t.to
  /\ AreQuotes(t.cached) /\ AreQuotes(t.fetched)
  /\ t.phase # "idle" => t.from \in Prices!Days /\ t.to \in Prices!Days
  /\ t.phase = "cached" => Prices!Missing(t) # {}

PricesInv ==
  /\ DOMAIN observed = Prices!Days
  /\ SourceInv
  /\ AreQuotes(table)
  /\ \A q \in answered : Said(q.day, q.price)
  /\ DOMAIN requests = Readers
  /\ \A r \in Readers : RequestInv(requests[r])

\* What was said stays said.
LEMMA SaidStays ==
  ASSUME known \subseteq known', NEW series, AreQuotes(series)
  PROVE  /\ series \in [Prices!Days -> 0..MAX_PRICE]
         /\ \A d \in Prices!Days : series[d] # 0 => Said(d, series[d])'
BY DEF AreQuotes, Said

\* A quote of a series is what the source has of that day.
LEMMA SeriesAreQuotes ==
  ASSUME Prices!PricesAssumption, SourceInv,
         NEW from \in Prices!Days, NEW to \in Prices!Days
  PROVE  AreQuotes(Prices!Series(from, to))
<1>1. LAST_DAY \in Nat /\ MAX_PRICE \in Nat /\ Prices!Days = 1..LAST_DAY
  BY DEF Prices!PricesAssumption, Prices!Days
<1> DEFINE S == Prices!Series(from, to)
           points(day) == Prices!PointsFor(day, from, to)
<1>2. ASSUME NEW day \in Prices!Days, points(day) # {}
      PROVE  /\ Prices!Min(points(day)) \in points(day)
             /\ Prices!Min(points(day)) \in Prices!Days
  <2>1. points(day) \in SUBSET Nat /\ points(day) \subseteq Prices!Days
    BY <1>1 DEF Prices!PointsFor
  <2>2. Min(points(day)) \in points(day)
    BY <1>2, <2>1, MinIsFirst
  <2>3. Min(points(day)) = Prices!Min(points(day))
    BY DEF Min, Prices!Min
  <2>4. QED
    BY <2>1, <2>2, <2>3
<1>3. ASSUME NEW day \in Prices!Days
      PROVE  /\ S[day] \in 0..MAX_PRICE
             /\ S[day] # 0 => Said(day, S[day])
  <2>1. CASE day \in from..to /\ points(day) # {}
    <3> DEFINE m == Prices!Min(points(day))
    <3>1. m \in points(day) /\ m \in Prices!Days
      BY <1>2, <2>1
    <3>2. S[day] = observed[m].price
      BY <2>1 DEF Prices!Series
    <3>3. observed[m].price > 0 /\ Prices!QuotedDay(observed[m].at) = day
      BY <3>1 DEF Prices!PointsFor
    <3> HIDE DEF m
    <3>4. /\ observed[m].price \in 0..MAX_PRICE
          /\ observed[m].at \in 4 * m - Prices!SEARCH_WIDTH..4 * m + Prices!SEARCH_WIDTH
          /\ observed[m].price # 0 => observed[m] \in known
      BY <3>1 DEF SourceInv
    <3>5. observed[m].price # 0 /\ observed[m] \in known
      BY <1>1, <3>3, <3>4
    <3>6. observed[m].at \in Int
      BY <3>4
    <3>7. observed[m].at \in 4 * day - 2..4 * day + 2
      <4>1. (observed[m].at + 2) \div 4 = day /\ day \in Nat
        BY <1>1, <3>3 DEF Prices!QuotedDay
      <4>2. QED
        BY <3>6, <4>1
    <3>8. QED
      BY <3>2, <3>3, <3>4, <3>5, <3>7 DEF Said, Prices!SEARCH_WIDTH
  <2>2. CASE ~(day \in from..to /\ points(day) # {})
    BY <1>1, <2>2 DEF Prices!Series
  <2>3. QED
    BY <2>1, <2>2
<1>4. S = [day \in Prices!Days |-> S[day]]
  BY DEF Prices!Series
<1> HIDE DEF S
<1>5. AreQuotes(S)
  BY <1>3, <1>4 DEF AreQuotes
<1>6. QED
  BY <1>5 DEF S

\* A step of one request, which leaves the source alone.
LEMMA RequestMoves ==
  ASSUME PricesInv, NEW r \in Readers, NEW t, RequestInv(t),
         requests' = [requests EXCEPT ![r] = t],
         observed' = observed, known' = known,
         AreQuotes(table'), \A q \in answered' : Said(q.day, q.price)
  PROVE  PricesInv'
<1>1. /\ DOMAIN requests' = Readers
      /\ \A s \in Readers : requests'[s] = requests[s] \/ requests'[s] = t
  BY DEF PricesInv
<1>2. \A s \in Readers : RequestInv(requests'[s])
  BY <1>1 DEF PricesInv
<1>3. \A day, price : Said(day, price)' <=> Said(day, price)
  BY DEF Said
<1>4. \A s \in Readers : RequestInv(requests[s])'
  BY <1>2, <1>3 DEF RequestInv, AreQuotes, Prices!Missing
<1>5. AreQuotes(table)' /\ \A q \in answered' : Said(q.day, q.price)'
  BY <1>3 DEF AreQuotes
<1>6. SourceInv' /\ DOMAIN observed' = Prices!Days
  BY DEF PricesInv, SourceInv
<1>7. QED
  BY <1>1, <1>4, <1>5, <1>6 DEF PricesInv

\* A request that holds nothing.
LEMMA IdleRequest ==
  ASSUME Prices!PricesAssumption
  PROVE  RequestInv(Prices!Idle)
<1>1. MAX_PRICE \in Nat
  BY DEF Prices!PricesAssumption
<1>2. AreQuotes([d \in Prices!Days |-> 0])
  BY <1>1 DEF AreQuotes
<1>3. QED
  BY <1>2 DEF RequestInv, Prices!Idle

\* The source says something new of a day, near its midnight.
LEMMA ReviseInv ==
  ASSUME Prices!PricesAssumption, PricesInv, NEW d \in Prices!Days,
         NEW offset \in -Prices!SEARCH_WIDTH..Prices!SEARCH_WIDTH,
         NEW price \in 0..MAX_PRICE, Prices!Revise(d, 4 * d + offset, price)
  PROVE  PricesInv'
<1> DEFINE said == [at |-> 4 * d + offset, price |-> price]
<1>1. /\ observed' = [observed EXCEPT ![d] = said]
      /\ known' = known \union {said}
      /\ UNCHANGED <<table, requests, answered>>
  BY DEF Prices!Revise
<1>2. \A day, p : Said(day, p) => Said(day, p)'
  BY <1>1 DEF Said
<1>3. said.price \in 0..MAX_PRICE /\ said \in known' /\ d \in Nat
      /\ said.at \in 4 * d - Prices!SEARCH_WIDTH..4 * d + Prices!SEARCH_WIDTH
  BY <1>1 DEF Prices!SEARCH_WIDTH, Prices!Days
<1> HIDE DEF said
<1>4. SourceInv' /\ DOMAIN observed' = Prices!Days
  <2>1. DOMAIN observed' = Prices!Days
    BY <1>1 DEF PricesInv
  <2>2. ASSUME NEW e \in Prices!Days
        PROVE  \/ observed'[e] = said /\ e = d
               \/ observed'[e] = observed[e]
    BY <1>1 DEF PricesInv
  <2>3. known \subseteq known'
    BY <1>1
  <2>4. QED
    BY <1>3, <2>1, <2>2, <2>3 DEF PricesInv, SourceInv
<1>5. AreQuotes(table)' /\ \A q \in answered' : Said(q.day, q.price)'
  BY <1>1, <1>2 DEF PricesInv, AreQuotes
<1>6. \A r \in Readers : RequestInv(requests[r])'
  BY <1>1, <1>2 DEF PricesInv, RequestInv, AreQuotes, Prices!Missing
<1>7. QED
  BY <1>1, <1>4, <1>5, <1>6 DEF PricesInv

\* dailyPrices is called.
LEMMA StartInvPrices ==
  ASSUME Prices!PricesAssumption, PricesInv, NEW r \in Readers,
         NEW from \in Prices!Days, NEW to \in Prices!Days, Prices!Start(r, from, to)
  PROVE  PricesInv'
<1> DEFINE t == [Prices!Idle EXCEPT !.phase = "asked", !.from = from, !.to = to]
<1>1. /\ from <= to
      /\ requests' = [requests EXCEPT ![r] = t]
      /\ UNCHANGED <<observed, table, answered, known>>
  BY DEF Prices!Start
<1>2. /\ DOMAIN t = DOMAIN Prices!Idle
      /\ t.phase = "asked" /\ t.from = from /\ t.to = to
      /\ t.cached = Prices!Idle.cached /\ t.fetched = Prices!Idle.fetched
  BY DEF Prices!Idle
<1> HIDE DEF t
<1>3. RequestInv(Prices!Idle)
  BY IdleRequest
<1>4. RequestInv(t)
  BY <1>1, <1>2, <1>3 DEF RequestInv, Prices!Days
<1>5. QED
  BY <1>1, <1>4, RequestMoves DEF PricesInv

\* readCached: what the table has is the answer, or the gaps are asked for.
LEMMA ReadCachedInv ==
  ASSUME Prices!PricesAssumption, PricesInv, NEW r \in Readers, Prices!ReadCached(r)
  PROVE  PricesInv'
<1> DEFINE s == requests[r]
           held == [d \in Prices!Days |-> IF d \in s.from..s.to THEN table[d] ELSE 0]
           t == [s EXCEPT !.phase = "cached", !.cached = held]
           u == IF Prices!Missing(t) = {} THEN Prices!Idle ELSE t
           quotes == {[day |-> d, price |-> t.cached[d]] : d \in t.from..t.to}
<1>1. /\ s.phase = "asked"
      /\ requests' = [requests EXCEPT ![r] = u]
      /\ answered' = IF Prices!Missing(t) = {} THEN answered \union quotes ELSE answered
      /\ UNCHANGED <<observed, table, known>>
  BY DEF Prices!ReadCached
<1>2. RequestInv(s) /\ AreQuotes(table) /\ MAX_PRICE \in Nat
  BY DEF PricesInv, Prices!PricesAssumption
<1>3. AreQuotes(held)
  <2>1. held \in [Prices!Days -> 0..MAX_PRICE]
    BY <1>2 DEF AreQuotes
  <2>2. \A d \in Prices!Days : held[d] # 0 => held[d] = table[d]
    OBVIOUS
  <2>3. QED
    BY <1>2, <2>1, <2>2 DEF AreQuotes
<1>4. /\ DOMAIN t = DOMAIN Prices!Idle
      /\ t.phase = "cached" /\ t.from = s.from /\ t.to = s.to
      /\ t.cached = held /\ t.fetched = s.fetched
  BY <1>2 DEF RequestInv, Prices!Idle
<1>5. s.from \in Prices!Days /\ s.to \in Prices!Days /\ s.from <= s.to
  BY <1>1, <1>2 DEF RequestInv
<1> HIDE DEF t, held
<1>6. RequestInv(u)
  <2>1. CASE Prices!Missing(t) = {}
    BY <2>1, IdleRequest
  <2>2. CASE Prices!Missing(t) # {}
    BY <1>2, <1>3, <1>4, <1>5, <2>2 DEF RequestInv
  <2>3. QED
    BY <2>1, <2>2
<1>7. \A q \in answered' : Said(q.day, q.price)
  <2>1. ASSUME Prices!Missing(t) = {}, NEW d \in t.from..t.to
        PROVE  Said(d, t.cached[d])
    <3>1. t.cached[d] # 0
      BY <2>1 DEF Prices!Missing
    <3>2. d \in Prices!Days
      <4>1. LAST_DAY \in Nat /\ Prices!Days = 1..LAST_DAY
        BY DEF Prices!PricesAssumption, Prices!Days
      <4>2. d \in s.from..s.to
        BY <1>4, <2>1
      <4>3. QED
        BY <1>5, <4>1, <4>2
    <3>3. QED
      BY <1>3, <1>4, <3>1, <3>2 DEF AreQuotes
  <2>2. ASSUME Prices!Missing(t) = {}, NEW q \in quotes PROVE Said(q.day, q.price)
    <3>1. PICK d \in t.from..t.to : q = [day |-> d, price |-> t.cached[d]]
      OBVIOUS
    <3>2. q.day = d /\ q.price = t.cached[d]
      BY <3>1
    <3>3. QED
      BY <2>1, <2>2, <3>2
  <2> HIDE DEF quotes
  <2>3. QED
    BY <1>1, <2>2 DEF PricesInv
<1> HIDE DEF u
<1>8. QED
  BY <1>1, <1>2, <1>6, <1>7, RequestMoves

\* upstream.dailyPrices: the range from the first gap to the last is one of days.
LEMMA FetchInvPrices ==
  ASSUME Prices!PricesAssumption, PricesInv, NEW r \in Readers, Prices!Fetch(r)
  PROVE  PricesInv'
<1> DEFINE t == requests[r]
           M == Prices!Missing(t)
           first == Prices!Min(M)
           last == Prices!Max(M)
           u == [t EXCEPT !.phase = "fetched", !.fetched = Prices!Series(first, last)]
<1>1. /\ t.phase = "cached"
      /\ requests' = [requests EXCEPT ![r] = u]
      /\ UNCHANGED <<observed, table, answered, known>>
  BY DEF Prices!Fetch, PricesInv
<1>2. RequestInv(t)
  BY DEF PricesInv
<1>3. LAST_DAY \in Nat /\ Prices!Days = 1..LAST_DAY
  BY DEF Prices!PricesAssumption, Prices!Days
<1>4. M # {} /\ M \in SUBSET Prices!Days
  BY <1>1, <1>2, <1>3 DEF RequestInv, Prices!Missing
<1>5. first \in Prices!Days
  <2>1. Min(M) \in M
    BY <1>3, <1>4, MinIsFirst
  <2>2. Min(M) = first
    BY DEF Min, Prices!Min
  <2>3. QED
    BY <1>4, <2>1, <2>2
<1>6. last \in Prices!Days
  <2>1. Max(M) \in M
    BY <1>3, <1>4, MaxIsLast
  <2>2. Max(M) = last
    BY DEF Max, Prices!Max
  <2>3. QED
    BY <1>4, <2>1, <2>2
<1> HIDE DEF first, last, M
<1>7. AreQuotes(Prices!Series(first, last))
  BY <1>5, <1>6, SeriesAreQuotes DEF PricesInv
<1>8. /\ DOMAIN u = DOMAIN Prices!Idle
      /\ u.phase = "fetched" /\ u.from = t.from /\ u.to = t.to
      /\ u.cached = t.cached /\ u.fetched = Prices!Series(first, last)
  BY <1>2 DEF RequestInv, Prices!Idle
<1> HIDE DEF u
<1>9. RequestInv(u)
  BY <1>1, <1>2, <1>7, <1>8 DEF RequestInv
<1>10. QED
  BY <1>1, <1>9, RequestMoves DEF PricesInv

\* recordQuotes: what is new goes to the table, and all of it to the caller.
LEMMA RecordInvPrices ==
  ASSUME Prices!PricesAssumption, PricesInv, NEW r \in Readers, Prices!Record(r)
  PROVE  PricesInv'
<1> DEFINE t == requests[r]
           old == {[day |-> d, price |-> t.cached[d]] : d \in {e \in Prices!Days : t.cached[e] # 0}}
           new == {[day |-> d, price |-> t.fetched[d]] : d \in Prices!Fresh(t)}
<1>1. /\ table' = Prices!Inserted(t)
      /\ answered' = answered \union old \union new
      /\ requests' = [requests EXCEPT ![r] = Prices!Idle]
      /\ UNCHANGED <<observed, known>>
  BY DEF Prices!Record
<1>2. RequestInv(t) /\ AreQuotes(t.cached) /\ AreQuotes(t.fetched) /\ AreQuotes(table)
  BY DEF PricesInv, RequestInv
<1>3. AreQuotes(Prices!Inserted(t))
  BY <1>2 DEF AreQuotes, Prices!Inserted, Prices!Fresh
<1>4. \A q \in old : Said(q.day, q.price)
  BY <1>2 DEF AreQuotes
<1>5. \A q \in new : Said(q.day, q.price)
  BY <1>2 DEF AreQuotes, Prices!Fresh
<1> HIDE DEF old, new
<1>6. \A q \in answered' : Said(q.day, q.price)
  BY <1>1, <1>4, <1>5 DEF PricesInv
<1>7. QED
  BY <1>1, <1>3, <1>6, IdleRequest, RequestMoves

\* The request fails, and nothing is kept of it.
LEMMA FailRequestInv ==
  ASSUME Prices!PricesAssumption, PricesInv, NEW r \in Readers, Prices!FailRequest(r)
  PROVE  PricesInv'
BY IdleRequest, RequestMoves DEF Prices!FailRequest, PricesInv

\* At the start the source has said nothing.
LEMMA PricesInitially ==
  ASSUME Prices!PricesAssumption, Prices!Init
  PROVE  PricesInv
<1>1. RequestInv(Prices!Idle) /\ MAX_PRICE \in Nat /\ LAST_DAY \in Nat
  BY IdleRequest DEF Prices!PricesAssumption
<1>2. AreQuotes(table)
  BY <1>1 DEF Prices!Init, AreQuotes
<1>3. SourceInv
  BY <1>1 DEF Prices!Init, SourceInv, Prices!SEARCH_WIDTH, Prices!Days
<1>4. QED
  BY <1>1, <1>2, <1>3 DEF Prices!Init, PricesInv

\* A step of the prices keeps what the proof needs.
LEMMA PricesSteps ==
  ASSUME Prices!PricesAssumption, PricesInv, [Prices!Next]_(Prices!vars)
  PROVE  PricesInv'
<1>1. CASE \E d \in Prices!Days, offset \in -Prices!SEARCH_WIDTH..Prices!SEARCH_WIDTH,
              price \in 0..MAX_PRICE : Prices!Revise(d, 4 * d + offset, price)
  BY <1>1, ReviseInv
<1>2. CASE \E r \in Readers : \E from, to \in Prices!Days : Prices!Start(r, from, to)
  BY <1>2, StartInvPrices
<1>3. CASE \E r \in Readers : Prices!ReadCached(r)
  BY <1>3, ReadCachedInv
<1>4. CASE \E r \in Readers : Prices!Fetch(r)
  BY <1>4, FetchInvPrices
<1>5. CASE \E r \in Readers : Prices!Record(r)
  BY <1>5, RecordInvPrices
<1>6. CASE \E r \in Readers : Prices!FailRequest(r)
  BY <1>6, FailRequestInv
<1>7. CASE UNCHANGED Prices!vars
  BY <1>7 DEF Prices!vars, PricesInv, SourceInv, AreQuotes, Said, RequestInv, Prices!Missing
<1>8. QED
  BY <1>1, <1>2, <1>3, <1>4, <1>5, <1>6, <1>7 DEF Prices!Next

\* What the two statements say is part of it.
LEMMA PricesMean ==
  ASSUME PricesInv
  PROVE  Prices!QuotesAreReal /\ Prices!TypeOK
<1>1. Prices!TypeOK
  BY DEF PricesInv, RequestInv, AreQuotes, Prices!TypeOK
<1>2. ASSUME NEW q \in answered \union
                {[day |-> d, price |-> table[d]] : d \in {e \in Prices!Days : table[e] # 0}}
      PROVE  Said(q.day, q.price)
  BY DEF PricesInv, AreQuotes
<1>3. Prices!QuotesAreReal
  BY <1>2 DEF Prices!QuotesAreReal, Said
<1>4. QED
  BY <1>1, <1>3

\* A recorded quote is left alone by each step.
LEMMA TableOnlyGrows ==
  ASSUME [Prices!Next]_(Prices!vars)
  PROVE  [Prices!NeverRewritten]_(Prices!vars)
<1>1. SUFFICES ASSUME NEW d \in Prices!Days, table[d] # 0 PROVE table'[d] = table[d]
  BY DEF Prices!NeverRewritten
<1>2. ASSUME NEW r \in Readers, Prices!Record(r) PROVE table'[d] = table[d]
  BY <1>1, <1>2 DEF Prices!Record, Prices!Inserted
<1>3. QED
  BY <1>2 DEF Prices!Next, Prices!vars, Prices!Revise, Prices!Start, Prices!ReadCached,
     Prices!Fetch, Prices!FailRequest

\* What the proof needs holds in every state.
LEMMA PricesInductive ==
  ASSUME Prices!PricesAssumption
  PROVE  Prices!Spec => []PricesInv
<1>1. Prices!Init => PricesInv
  BY PricesInitially
<1>2. PricesInv /\ [Prices!Next]_(Prices!vars) => PricesInv'
  BY PricesSteps
<1>3. QED
  BY <1>1, <1>2, PTL DEF Prices!Spec

\* The records of a price request are what their names say: ranges that do not end before
\* they start, and series of prices the source can quote.
THEOREM PricesTypeCorrect == Prices!PricesAssumption /\ Prices!Spec => []Prices!TypeOK
<1> SUFFICES ASSUME Prices!PricesAssumption PROVE Prices!Spec => []Prices!TypeOK
  OBVIOUS
<1>1. PricesInv => Prices!TypeOK
  BY PricesMean
<1>2. QED
  BY <1>1, PricesInductive, PTL

\* A quote the table holds or a caller was given is one the source gave, positive and
\* within half a day of that day's midnight, however requests, revisions and failures mix.
THEOREM QuotesStayReal == Prices!PricesAssumption /\ Prices!Spec => []Prices!QuotesAreReal
<1> SUFFICES ASSUME Prices!PricesAssumption PROVE Prices!Spec => []Prices!QuotesAreReal
  OBVIOUS
<1>1. PricesInv => Prices!QuotesAreReal
  BY PricesMean
<1>2. QED
  BY <1>1, PricesInductive, PTL

\* Once recorded, a day's price stays what it is, also when two callers record the same day
\* after the source has changed its mind.
THEOREM QuotesAreNeverRewritten == Prices!Spec => [][Prices!NeverRewritten]_(Prices!vars)
<1>1. [Prices!Next]_(Prices!vars) => [Prices!NeverRewritten]_(Prices!vars)
  BY TableOnlyGrows
<1>2. QED
  BY <1>1, PTL DEF Prices!Spec
=============================================================================
