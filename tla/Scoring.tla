------------------------------ MODULE Scoring ------------------------------
(***************************************************************************)
(* The credit limit of an operator in one network                          *)
(* (packages/shared/src/scoring): payouts are added up by month, a history *)
(* with too few paid months gets a date instead of a limit, and the limit  *)
(* is the median month, at the median price of the recent days, less for   *)
(* unpaid months and for a volatile token.                                 *)
(*                                                                         *)
(* Days and months are numbered and months have the same length.  There is *)
(* at most one payout a day; 0 stands for no payout and for no quote.      *)
(***************************************************************************)
EXTENDS Integers, FiniteSets, FiniteSetsExt, Functions

CONSTANTS
  DAYS,                 \* days in a month
  PERIOD,               \* HISTORY_MONTHS: months in the history
  REQUIRED_PAID_MONTHS,
  RECENT_PRICE_DAYS,
  MONTHS_OF_FLOW,
  VOLATILITY_CAP_BP,
  BASIS_POINTS,
  UNIT,                 \* a whole token times a whole price, in micro-dollars
  Amounts,              \* what a payout may be
  Prices,               \* what a quote may be
  MAX_MONTH,            \* bounds the months
  MAX_EVENTS            \* bounds payouts and quotes

ScoringAssumption ==
  /\ {DAYS, PERIOD, REQUIRED_PAID_MONTHS, RECENT_PRICE_DAYS, MONTHS_OF_FLOW,
      BASIS_POINTS, UNIT} \subseteq Nat \ {0}
  /\ REQUIRED_PAID_MONTHS <= PERIOD
  /\ VOLATILITY_CAP_BP \in 0..BASIS_POINTS
  /\ Amounts \subseteq Nat \ {0} /\ Prices \subseteq Nat \ {0}
  /\ {MAX_MONTH, MAX_EVENTS} \subseteq Nat /\ PERIOD <= MAX_MONTH

VARIABLES
  month,        \* the current month, the last of the period
  payouts,      \* what was paid on each day
  prices,       \* the quote of each day
  events        \* payouts and quotes so far

vars == <<month, payouts, prices, events>>

AllDays == 1..MAX_MONTH * DAYS

MonthOf(day) == (day - 1) \div DAYS + 1

DaysOf(m) == (m - 1) * DAYS + 1..m * DAYS

Quotes(days) == {d \in days : prices[d] # 0}

\* payoutValueUsd
ValueUsd(amount, price) == (amount * price) \div UNIT

-----------------------------------------------------------------------------
\* aggregateMonthlyPayouts
PaidDays(m) == {d \in DaysOf(m) : payouts[d] # 0}

AmountOf(m) == SumFunctionOnSet(payouts, PaidDays(m))

DaysWithoutPrice(m) == PaidDays(m) \ Quotes(AllDays)

Values == [d \in AllDays |-> ValueUsd(payouts[d], prices[d])]

\* A month is worth something known only if each of its payouts is; -1 stands for null.
ValueOf(m) ==
  IF DaysWithoutPrice(m) # {} THEN -1 ELSE SumFunctionOnSet(Values, PaidDays(m))

\* historyPeriod and eachMonth
Months == month - PERIOD + 1..month

PaidMonths == {m \in Months : PaidDays(m) # {}}

-----------------------------------------------------------------------------
Eligible == Cardinality(PaidMonths) >= REQUIRED_PAID_MONTHS

\* Months of the period that are paid and still in it so many months later.
Kept(ahead) == {m \in PaidMonths : m > month - PERIOD + ahead}

\* projectThresholdMonth
ThresholdReachedIn ==
  LET reached == {a \in 1..REQUIRED_PAID_MONTHS - 1 :
                    Cardinality(Kept(a)) + a >= REQUIRED_PAID_MONTHS}
  IN  month + (IF reached = {} THEN REQUIRED_PAID_MONTHS ELSE Min(reached))

-----------------------------------------------------------------------------
\* The k-th smallest of the values at the places.
Kth(values, places, k) ==
  CHOOSE v \in {values[i] : i \in places} :
    /\ Cardinality({i \in places : values[i] < v}) < k
    /\ Cardinality({i \in places : values[i] <= v}) >= k

\* medianOf the months: the middle, or half of the two in the middle.
MedianAmount ==
  LET amounts == [m \in Months |-> AmountOf(m)]
      upper   == Kth(amounts, Months, PERIOD \div 2 + 1)
      lower   == IF PERIOD % 2 = 1 THEN upper ELSE Kth(amounts, Months, PERIOD \div 2)
  IN  (lower + upper) \div 2

Distance(a, b) == IF a > b THEN a - b ELSE b - a

\* priceVolatilityBp: the mean change between quotes of neighbouring days.
PeriodDays == UNION {DaysOf(m) : m \in Months}

Change(d) == (Distance(prices[d], prices[d - 1]) * BASIS_POINTS) \div prices[d - 1]

Volatility ==
  LET pairs == {d \in Quotes(PeriodDays) : d - 1 \in Quotes(PeriodDays)}
  IN  IF pairs = {}
        THEN 0
        ELSE SumFunctionOnSet([d \in pairs |-> Change(d)], pairs) \div Cardinality(pairs)

VolatilityBp == Min({Volatility, VOLATILITY_CAP_BP})

\* Slip: the window ends with the last quote, however old.
RecentDaysOfSeries ==
  LET last == Max({0} \union Quotes(PeriodDays)) IN last - RECENT_PRICE_DAYS + 1..last

\* recentPriceWindow: it ends with the period, not with the series.
RecentDays == month * DAYS - RECENT_PRICE_DAYS + 1..month * DAYS

RecentQuotes == Quotes(RecentDays \intersect PeriodDays)

\* medianQuote: a quote that there was.
RecentPrice == Kth(prices, RecentQuotes, Cardinality(RecentQuotes) \div 2 + 1)

StabilityBp == (Cardinality(PaidMonths) * BASIS_POINTS) \div PERIOD

MedianMonthlyUsd == ValueUsd(MedianAmount, RecentPrice)

\* computeCreditLimit: everything is cut off once, at the end.
LimitUsd ==
  (MedianMonthlyUsd * MONTHS_OF_FLOW * StabilityBp * (BASIS_POINTS - VolatilityBp))
    \div (BASIS_POINTS * BASIS_POINTS)

\* computeProfiles for a network that pays by itself.
Outcome ==
  CASE ~Eligible                    -> "short-history"
    [] Eligible /\ RecentQuotes = {} -> "no-recent-price"
    [] OTHER                        -> "limit"

-----------------------------------------------------------------------------

\* explainLimit
ExplainLimit ==
  LET base            == MedianMonthlyUsd * MONTHS_OF_FLOW
      square          == BASIS_POINTS * BASIS_POINTS
      afterStability  == (base * StabilityBp * BASIS_POINTS) \div square
      afterVolatility == (base * StabilityBp * (BASIS_POINTS - VolatilityBp)) \div square
  IN  [flow       |-> base,
       stability  |-> afterStability - base,
       volatility |-> afterVolatility - afterStability]

-----------------------------------------------------------------------------
Init ==
  /\ month = PERIOD
  /\ payouts = [d \in AllDays |-> 0]
  /\ prices = [d \in AllDays |-> 0]
  /\ events = 0

\* The indexer records a payout of the period.
Pay(d, amount) ==
  /\ events < MAX_EVENTS
  /\ payouts[d] = 0
  /\ MonthOf(d) \in Months
  /\ payouts' = [payouts EXCEPT ![d] = amount]
  /\ events' = events + 1
  /\ UNCHANGED <<month, prices>>

\* A quote is recorded.
Quote(d, price) ==
  /\ events < MAX_EVENTS
  /\ prices[d] = 0
  /\ MonthOf(d) \in Months
  /\ prices' = [prices EXCEPT ![d] = price]
  /\ events' = events + 1
  /\ UNCHANGED <<month, payouts>>

MonthPasses ==
  /\ month < MAX_MONTH
  /\ month' = month + 1
  /\ UNCHANGED <<payouts, prices, events>>

Next ==
  \/ \E d \in AllDays, amount \in Amounts : Pay(d, amount)
  \/ \E d \in AllDays, price \in Prices : Quote(d, price)
  \/ MonthPasses

Spec == Init /\ [][Next]_vars

-----------------------------------------------------------------------------
\* The factors shown with a limit add up to it to the last unit, and only the median
\* flow adds: factors.ts promises both.
FactorsAddUp ==
  Outcome = "limit" =>
    LET f == ExplainLimit
    IN  /\ f.flow + f.stability + f.volatility = LimitUsd
        /\ f.flow >= 0 /\ f.stability <= 0 /\ f.volatility <= 0

\* The month that a short history is told is the first in which the operator has a
\* limit if every month from the next on is paid: neither a month sooner nor later.
ThresholdIsExact ==
  Outcome = "short-history" =>
    \A ahead \in 1..PERIOD :
      LET paid == PaidMonths \union (month + 1..month + ahead)
          then == {m \in paid : m > month + ahead - PERIOD}
      IN  (Cardinality(then) >= REQUIRED_PAID_MONTHS) <=> (month + ahead >= ThresholdReachedIn)

\* SC-002: no limit exceeds MONTHS_OF_FLOW times the better half of the months, at a
\* price that was quoted in the recent days.
LimitIsBacked ==
  Outcome = "limit" =>
    \E d \in month * DAYS - RECENT_PRICE_DAYS + 1..month * DAYS, m \in Months :
      /\ prices[d] # 0
      /\ 2 * Cardinality({n \in Months : AmountOf(n) >= AmountOf(m)}) >= PERIOD
      /\ LimitUsd * UNIT <= MONTHS_OF_FLOW * AmountOf(m) * prices[d]

\* One more payout never makes the limit smaller or takes it away.
PayoutNeverLowersLimit ==
  payouts' # payouts /\ Outcome = "limit"
    => Outcome' = "limit" /\ LimitUsd' >= LimitUsd

\* FR-004a: a month with a payout that has no quote has no value, not a smaller one:
\* a later quote never changes a value that was shown.
ValueIsFinal ==
  \A m \in Months : ValueOf(m) > 0 /\ payouts' = payouts => ValueOf(m)' = ValueOf(m)
=============================================================================
