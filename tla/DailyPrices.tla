---------------------------- MODULE DailyPrices ----------------------------
(***************************************************************************)
(* Daily prices of one reward token (apps/worker/src/indexer/prices.ts):   *)
(* quotes already in price_points are taken from there, the days between   *)
(* the first and the last gap are asked of the source, and what is new is  *)
(* recorded.                                                               *)
(*                                                                         *)
(* A moment is counted in quarters of a day, so that midnight of day d is  *)
(* 4 * d and the search width of the source is 2.  A price of 0 stands for *)
(* no quote, in the table, in a series and in an answer of the source.     *)
(***************************************************************************)
EXTENDS Integers, FiniteSetsExt

CONSTANTS
  Readers,          \* callers of dailyPrices
  LAST_DAY,         \* bounds the days
  MAX_PRICE,        \* bounds the prices
  MAX_REVISIONS,    \* bounds how often the source changes what it says
  MAX_FAILURES      \* bounds the requests that fail

PricesAssumption ==
  {LAST_DAY, MAX_PRICE, MAX_REVISIONS, MAX_FAILURES} \subseteq Nat

VARIABLES
  observed,     \* what the source has nearest to each midnight: [at, price]
  table,        \* price_points
  requests,     \* what each caller's request holds
  answered,     \* all quotes ever returned: [day, price]
  known,        \* everything the source ever said
  revisions,
  failures

vars == <<observed, table, requests, answered, known, revisions, failures>>

Days == 1..LAST_DAY

SEARCH_WIDTH == 2

Idle == [phase |-> "idle", from |-> 1, to |-> 1, cached |-> [d \in Days |-> 0],
         fetched |-> [d \in Days |-> 0]]

TypeOK ==
  /\ table \in [Days -> 0..MAX_PRICE]
  /\ \A r \in Readers :
       /\ requests[r].from <= requests[r].to
       /\ requests[r].cached \in [Days -> 0..MAX_PRICE]
       /\ requests[r].fetched \in [Days -> 0..MAX_PRICE]

Init ==
  /\ observed = [d \in Days |-> [at |-> 4 * d, price |-> 0]]
  /\ table = [d \in Days |-> 0]
  /\ requests = [r \in Readers |-> Idle]
  /\ answered = {}
  /\ known = {}
  /\ revisions = 0
  /\ failures = 0

\* A first quote for a day, or a new version of an old one, around its midnight.
Revise(d, at, price) ==
  /\ revisions < MAX_REVISIONS
  /\ revisions' = revisions + 1
  /\ observed' = [observed EXCEPT ![d] = [at |-> at, price |-> price]]
  /\ known' = known \union {[at |-> at, price |-> price]}
  /\ UNCHANGED <<table, requests, answered, failures>>

\* quotedDay: Math.round, which takes a half up.
QuotedDay(at) == (at + 2) \div 4

\* The points of the chart that count for a day of the range.
PointsFor(day, from, to) ==
  {d \in from..to : observed[d].price > 0 /\ QuotedDay(observed[d].at) = day}

\* dailyPrices of the source: the first point of a day counts.
Series(from, to) ==
  [day \in Days |->
     IF day \in from..to /\ PointsFor(day, from, to) # {}
       THEN observed[Min(PointsFor(day, from, to))].price
       ELSE 0]

Missing(t) == {d \in t.from..t.to : t.cached[d] = 0}

\* dayRangeSchema refuses a range that ends before it starts.
Start(r, from, to) ==
  /\ requests[r].phase = "idle"
  /\ from <= to
  /\ requests' = [requests EXCEPT ![r] =
       [Idle EXCEPT !.phase = "asked", !.from = from, !.to = to]]
  /\ UNCHANGED <<observed, table, answered, known, revisions, failures>>

\* readCached, and missingDays; without a gap the cached quotes are the answer.
ReadCached(r) ==
  LET t == [requests[r] EXCEPT !.phase = "cached",
              !.cached = [d \in Days |-> IF d \in requests[r].from..requests[r].to
                                           THEN table[d] ELSE 0]]
  IN  /\ requests[r].phase = "asked"
      /\ requests' = [requests EXCEPT ![r] = IF Missing(t) = {} THEN Idle ELSE t]
      /\ answered' = IF Missing(t) = {}
                       THEN answered \union {[day |-> d, price |-> t.cached[d]] : d \in t.from..t.to}
                       ELSE answered
      /\ UNCHANGED <<observed, table, known, revisions, failures>>

\* upstream.dailyPrices, from the first gap to the last.
Fetch(r) ==
  LET t == requests[r]
  IN  /\ t.phase = "cached"
      /\ requests' = [requests EXCEPT ![r].phase = "fetched",
                        ![r].fetched = Series(Min(Missing(t)), Max(Missing(t)))]
      /\ UNCHANGED <<observed, table, answered, known, revisions, failures>>

Fresh(t) == {d \in Days : t.fetched[d] # 0 /\ t.cached[d] = 0}

\* Slip: a quote that is there is replaced.
InsertedOver(t) == [d \in Days |-> IF t.fetched[d] # 0 THEN t.fetched[d] ELSE table[d]]

\* onConflictDoNothing
Inserted(t) == [d \in Days |-> IF d \in Fresh(t) /\ table[d] = 0 THEN t.fetched[d] ELSE table[d]]

\* The quotes are recorded, and returned together with the cached ones.
Record(r) ==
  LET t == requests[r]
  IN  /\ t.phase = "fetched"
      /\ table' = Inserted(t)
      /\ answered' = answered
           \union {[day |-> d, price |-> t.cached[d]] : d \in {e \in Days : t.cached[e] # 0}}
           \union {[day |-> d, price |-> t.fetched[d]] : d \in Fresh(t)}
      /\ requests' = [requests EXCEPT ![r] = Idle]
      /\ UNCHANGED <<observed, known, revisions, failures>>

\* The source or the database fails, or a price does not fit its column.
FailRequest(r) ==
  /\ requests[r].phase # "idle"
  /\ failures < MAX_FAILURES
  /\ failures' = failures + 1
  /\ requests' = [requests EXCEPT ![r] = Idle]
  /\ UNCHANGED <<observed, table, answered, known, revisions>>

Next ==
  \/ \E d \in Days, offset \in -SEARCH_WIDTH..SEARCH_WIDTH, price \in 0..MAX_PRICE :
       Revise(d, 4 * d + offset, price)
  \/ \E r \in Readers :
       \/ \E from, to \in Days : Start(r, from, to)
       \/ ReadCached(r) \/ Fetch(r) \/ Record(r) \/ FailRequest(r)

Spec == Init /\ [][Next]_vars

-----------------------------------------------------------------------------
\* FR-004a: a quote that is recorded or returned is something the source once said,
\* positive, and within half a day of that day's midnight: a gap is never filled from
\* a neighbouring day.
QuotesAreReal ==
  \A q \in answered \union {[day |-> d, price |-> table[d]] : d \in {e \in Days : table[e] # 0}} :
    \E o \in known : /\ o.price = q.price /\ o.price > 0
                     /\ o.at \in 4 * q.day - SEARCH_WIDTH..4 * q.day + SEARCH_WIDTH

\* A recorded quote is never rewritten, whatever the source says later and however
\* many callers ask.
NeverRewritten == \A d \in Days : table[d] # 0 => table'[d] = table[d]
=============================================================================
