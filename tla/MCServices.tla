------------------------------ MODULE MCServices -------------------------------
(***************************************************************************)
(* The components of the workers and of the API server, one at a time.     *)
(*                                                                         *)
(* They share nothing but what each module models of its surroundings, so  *)
(* a behaviour is of one part, chosen at the start: interleaving the parts *)
(* would add nothing to any of them.  The variables of a part that does not*)
(* run hold "-", and one that several modules call by the same name stands *)
(* for that of the part that runs.                                         *)
(***************************************************************************)
EXTENDS Integers, TLC

CONSTANTS
  Components,            \* the parts to check
  k1, k2, Forever, alice, hnt, honey,
  x1, x2, Wallet, Nobody, NoTime, stranger, distributor, authority, honeyAccount, hntAccount, other,
  r1, r2, q1, q2, q3, p1, p2, p3, loan, ada, bob

VARIABLES
  part,
  accounts, tolerable, credit, ticks, pauses, lost,
  chain, cursors, passes, missing,
  observed, table, answered, known, revisions,
  month, prices, events,
  history, held, flagged, profiles, lock, changes,
  upstream, fetches, entry, callers,
  quoted, issued,
  account, shown,
  env, stage, asked, running, workers, database, closes, drained, code, signals, endingSince,
  sweeps,
  day, paying, moved, declared, cursor, passed, seeded,
  clock, rows, payouts, requests, failures

keeper == <<accounts, tolerable, credit, ticks, pauses, lost>>
indexer == <<chain, cursors, passes, missing>>
quotes == <<observed, table, answered, known, revisions>>
scored == <<month, prices, events>>
issuer == <<history, held, flagged, profiles, lock, changes>>
cache == <<upstream, fetches, entry, callers>>
rates == <<quoted, issued>>
view == <<account, shown>>
process == <<env, stage, asked, running, workers, database, closes, drained, code, signals,
             endingSince>>
sources == <<day, paying, moved, declared, cursor, passed, seeded>>

vars == <<part, keeper, indexer, quotes, scored, issuer, cache, rates, view, process, sweeps,
          sources, clock, rows, payouts, requests, failures>>

-----------------------------------------------------------------------------
\* Two keepers that share the watches, and one operator repaid from HNT.
Keeping ==
  INSTANCE Keeper WITH
    Keepers <- {k1, k2}, Watches <- {[operator |-> alice, mint |-> hnt]}, Unbuyable <- {},
    SKIP_PAUSE <- 1, DEBT <- 2, Allowances <- {0}, Spendings <- {1}, MAX_LOANS <- 1,
    MAX_PAYOUTS <- 1, MAX_FAILURES <- 1, MAX_LOST <- 1

\* An operator with accounts for HONEY, issued by its authority, and HNT, sent by a
\* distributor; and the transactions that are hard to classify.
TwoNetworks ==
  { [id |-> "hivemapper", mint |-> honey, sources |-> {[kind |-> "mint", address |-> authority]}],
    [id |-> "helium", mint |-> hnt, sources |-> {[kind |-> "transfer", address |-> distributor]}] }

TwoAccounts == {honeyAccount, hntAccount}

MintOfTwo == [a \in TwoAccounts |-> IF a = honeyAccount THEN honey ELSE hnt]

Receipt(at, mint, amount) == [account |-> at, owner |-> Wallet, mint |-> mint, change |-> amount]
Payment(owner, mint, amount) == [account |-> other, owner |-> owner, mint |-> mint, change |-> -amount]
Tx(moves, issues) == [moves |-> moves, issues |-> issues, failed |-> FALSE, time |-> 0]

Issued == Tx({Receipt(honeyAccount, honey, 2)}, {[mint |-> honey, authority |-> authority]})
Sent == Tx({Receipt(hntAccount, hnt, 1), Payment(distributor, hnt, 1)}, {})
\* One transaction that pays from both networks.
Both == Tx(Issued.moves \union Sent.moves, Issued.issues)
\* A payout that also moves tokens of the other account, and so is in two lists.
Shared == Tx(Issued.moves \union {Receipt(hntAccount, hnt, -1)}, Issued.issues)
\* Tokens moved by the operator between own accounts of one mint.
OwnMove == Tx({Receipt(hntAccount, hnt, 1), Payment(distributor, honey, 1),
               [account |-> other, owner |-> Wallet, mint |-> hnt, change |-> -1]}, {})
Ambiguous == Tx(Sent.moves \union {Payment(stranger, hnt, 1), Receipt(hntAccount, hnt, 2)}, {})
Unnamed == Tx(Issued.moves, {[mint |-> honey, authority |-> Nobody]})
\* The authority's tokens sent, not issued.
Resold == Tx({Receipt(honeyAccount, honey, 1), Payment(authority, honey, 1)}, {})
\* Somebody else's tokens move between their own accounts in the payout's transaction.
Bystander ==
  Tx(Sent.moves \union {Payment(stranger, hnt, 1),
                        [Receipt(other, hnt, 1) EXCEPT !.owner = stranger]}, {})
Failed == [Issued EXCEPT !.failed = TRUE]
Untimed == [Sent EXCEPT !.time = NoTime]

\* Two processes and a page of one signature.
Indexing ==
  INSTANCE Indexer WITH
    Networks <- TwoNetworks, Accounts <- TwoAccounts, MintOf <- MintOfTwo, Indexers <- {x1, x2},
    Transactions <- {Issued, Shared}, PAGE_SIZE <- 1, HISTORY <- 1, MAX_CHAIN <- 2,
    MAX_TIME <- 0, MAX_FAILURES <- 0, MAX_MISSING <- 1

\* Every kind of transaction, three in a row.
Recognising ==
  INSTANCE Indexer WITH
    Networks <- TwoNetworks, Accounts <- TwoAccounts, MintOf <- MintOfTwo, Indexers <- {x1},
    Transactions <- {Both, OwnMove, Ambiguous, Unnamed, Resold, Bystander, Failed, Untimed},
    PAGE_SIZE <- 2, HISTORY <- 1, MAX_CHAIN <- 3, MAX_TIME <- 0, MAX_FAILURES <- 0,
    MAX_MISSING <- 0

\* Two callers of one token's prices.
Pricing ==
  INSTANCE DailyPrices WITH
    Readers <- {r1, r2}, LAST_DAY <- 2, MAX_PRICE <- 2, MAX_REVISIONS <- 2, MAX_FAILURES <- 1

\* A history of three months of two days.
Scored ==
  INSTANCE Scoring WITH
    DAYS <- 2, PERIOD <- 3, REQUIRED_PAID_MONTHS <- 1, RECENT_PRICE_DAYS <- 3, MONTHS_OF_FLOW <- 2,
    VOLATILITY_CAP_BP <- 5, BASIS_POINTS <- 10, UNIT <- 2, Amounts <- {3, 7}, Prices <- {1, 5},
    MAX_MONTH <- 4, MAX_EVENTS <- 4

\* The six months of the source, four of which must be paid, in days of a month.
Eligible ==
  INSTANCE Scoring WITH
    DAYS <- 1, PERIOD <- 6, REQUIRED_PAID_MONTHS <- 4, RECENT_PRICE_DAYS <- 1, MONTHS_OF_FLOW <- 2,
    VOLATILITY_CAP_BP <- 5, BASIS_POINTS <- 10, UNIT <- 1, Amounts <- {1}, Prices <- {1},
    MAX_MONTH <- 9, MAX_EVENTS <- 5

\* Three requests to attest at one moment, with manual repayments to look for.
Numbering ==
  INSTANCE Issuer WITH
    Requests <- {q1, q2, q3}, Kinds <- {"attest"}, Networks <- {"honey"}, Limits <- {2},
    Refusals <- {}, SECOND <- 1, MONTH <- 2, TTL <- 2, ATTESTATION_TTL <- 1,
    MAX_REMAINING_VALIDITY <- 3, MAX_LIMIT_AGE <- 2, MAX_RATE_AGE <- 1, DEVNET <- TRUE,
    MAX_SKEW <- 1, MAX_CLOCK <- 0, MAX_CHANGES <- 3, MAX_FAILURES <- 1

\* Limits shown and recomputed over two networks, a month apart at the most.
Limited ==
  INSTANCE Issuer WITH
    Requests <- {q1, q2}, Kinds <- {"show", "refresh"}, Networks <- {"honey", "hnt"},
    Limits <- {2}, Refusals <- {"no-recent-price"}, SECOND <- 1, MONTH <- 2,
    TTL <- 2, ATTESTATION_TTL <- 1, MAX_REMAINING_VALIDITY <- 3, MAX_LIMIT_AGE <- 2,
    MAX_RATE_AGE <- 1, DEVNET <- FALSE, MAX_SKEW <- 1, MAX_CLOCK <- 2, MAX_CHANGES <- 2,
    MAX_FAILURES <- 0

\* Attestations of two networks whose limits age apart, a second of two ticks.
Attesting ==
  INSTANCE Issuer WITH
    Requests <- {q1, q2}, Kinds <- {"attest"}, Networks <- {"honey", "hnt"}, Limits <- {2},
    Refusals <- {}, SECOND <- 2, MONTH <- 2, TTL <- 4, ATTESTATION_TTL <- 2,
    MAX_REMAINING_VALIDITY <- 3, MAX_LIMIT_AGE <- 2, MAX_RATE_AGE <- 1, DEVNET <- FALSE,
    MAX_SKEW <- 1, MAX_CLOCK <- 4, MAX_CHANGES <- 2, MAX_FAILURES <- 0

\* Pages and the keeper ask for the rate of one token.
Rated ==
  INSTANCE RateIssuing WITH
    Callers <- {p1, p2}, CALLS <- 2, TIMEOUT <- 1, BOUNDED <- TRUE, CACHE <- 3,
    OWN_ONLY <- FALSE, MAX_CLOCK <- 4, LAST_CALL <- 3, Digits <- {17}, Fractions <- {1, 3},
    SCALE <- 2, RADIX <- 10, MAX_PRICE_AGE <- 2, RATE_TTL <- 1, MAX_SKEW <- 1, MAX_QUOTES <- 2,
    MAX_REMAINING_VALIDITY <- 2, MAX_LIMIT_AGE <- 1, MAX_RATE_AGE <- 3

\* The same under a still market, with a third caller to find what a late failure left.
Crowded ==
  INSTANCE RateIssuing WITH
    Callers <- {p1, p2, p3}, CALLS <- 2, TIMEOUT <- 1, BOUNDED <- TRUE, CACHE <- 3,
    OWN_ONLY <- FALSE, MAX_CLOCK <- 3, LAST_CALL <- 3, Digits <- {17}, Fractions <- {1},
    SCALE <- 2, RADIX <- 10, MAX_PRICE_AGE <- 2, RATE_TTL <- 1, MAX_SKEW <- 1, MAX_QUOTES <- 1,
    MAX_REMAINING_VALIDITY <- 2, MAX_LIMIT_AGE <- 1, MAX_RATE_AGE <- 3

\* Pages ask for the pool while the program writes it.
Viewed ==
  INSTANCE PoolView WITH
    Callers <- {p1, p2}, CALLS <- 1, TIMEOUT <- 1, BOUNDED <- FALSE, CACHE <- 1,
    OWN_ONLY <- TRUE, MAX_CLOCK <- 2, LAST_CALL <- 2, BPS <- 4, MAX_DEPOSITS <- 3, MAX_APR <- 2,
    MAX_WRITES <- 1

\* The same with a third caller and a pool that is empty or lends its one unit.
Flocked ==
  INSTANCE PoolView WITH
    Callers <- {p1, p2, p3}, CALLS <- 1, TIMEOUT <- 1, BOUNDED <- FALSE, CACHE <- 1,
    OWN_ONLY <- TRUE, MAX_CLOCK <- 2, LAST_CALL <- 2, BPS <- 4, MAX_DEPOSITS <- 1, MAX_APR <- 0,
    MAX_WRITES <- 1

\* Every environment, two requests and two signals; the unit of time is five seconds.
Process ==
  INSTANCE ApiProcess WITH
    Requests <- {r1, r2}, GRACE <- 2, KILLED_AFTER <- 6, DATABASE_ENDS <- 3, MAX_SIGNALS <- 2

\* Up to four sweeps of an operator with two mints, more events than are read.
Told ==
  INSTANCE Withholdings WITH
    Mints <- {honey, hnt}, Loans <- {loan}, LIMIT <- 3, ONE_PER_SLOT <- TRUE, Deviations <- {1, 2},
    MAX_SWEEPS <- 4

\* An address that pays by transfers or by minting, and another one.
Sourced ==
  INSTANCE PayoutSources WITH
    Sources <- {[kind |-> "mint", address |-> ada], [kind |-> "transfer", address |-> ada],
                [kind |-> "transfer", address |-> bob]},
    SILENCE <- 3, CADENCE <- 2, LAG <- 1, MAX_DAY <- 6, MAX_MOVES <- 1

-----------------------------------------------------------------------------
OffKeeper ==
  /\ accounts = "-" /\ tolerable = "-" /\ credit = "-" /\ ticks = "-" /\ pauses = "-"
  /\ lost = "-"
OffIndexer ==
  /\ chain = "-" /\ cursors = "-" /\ passes = "-" /\ missing = "-"
OffQuotes ==
  /\ observed = "-" /\ table = "-" /\ answered = "-" /\ known = "-" /\ revisions = "-"
OffScored ==
  /\ month = "-" /\ prices = "-" /\ events = "-"
OffIssuer ==
  /\ history = "-" /\ held = "-" /\ flagged = "-" /\ profiles = "-" /\ lock = "-"
  /\ changes = "-"
OffCache ==
  /\ upstream = "-" /\ fetches = "-" /\ entry = "-" /\ callers = "-"
OffRates ==
  /\ quoted = "-" /\ issued = "-"
OffView ==
  /\ account = "-" /\ shown = "-"
OffProcess ==
  /\ env = "-" /\ stage = "-" /\ asked = "-" /\ running = "-" /\ workers = "-"
  /\ database = "-" /\ closes = "-" /\ drained = "-" /\ code = "-" /\ signals = "-"
  /\ endingSince = "-"
OffTold ==
  /\ sweeps = "-"
OffSources ==
  /\ day = "-" /\ paying = "-" /\ moved = "-" /\ declared = "-" /\ cursor = "-" /\ passed = "-"
  /\ seeded = "-"

Init ==
  /\ part \in Components
  /\ \/ /\ part = "keeping" /\ Keeping!Init
        /\ OffIndexer /\ OffQuotes /\ OffScored /\ OffIssuer /\ OffCache /\ OffRates /\ OffView
        /\ OffProcess /\ OffTold /\ OffSources /\ clock = "-" /\ rows = "-" /\ requests = "-"
     \/ /\ part = "indexing" /\ Indexing!Init
        /\ OffKeeper /\ OffQuotes /\ OffScored /\ OffIssuer /\ OffCache /\ OffRates /\ OffView
        /\ OffProcess /\ OffTold /\ OffSources /\ payouts = "-" /\ requests = "-"
     \/ /\ part = "recognising" /\ Recognising!Init
        /\ OffKeeper /\ OffQuotes /\ OffScored /\ OffIssuer /\ OffCache /\ OffRates /\ OffView
        /\ OffProcess /\ OffTold /\ OffSources /\ payouts = "-" /\ requests = "-"
     \/ /\ part = "pricing" /\ Pricing!Init
        /\ OffKeeper /\ OffIndexer /\ OffScored /\ OffIssuer /\ OffCache /\ OffRates /\ OffView
        /\ OffProcess /\ OffTold /\ OffSources /\ clock = "-" /\ rows = "-" /\ payouts = "-"
     \/ /\ part = "scoring" /\ Scored!Init
        /\ OffKeeper /\ OffIndexer /\ OffQuotes /\ OffIssuer /\ OffCache /\ OffRates /\ OffView
        /\ OffProcess /\ OffTold /\ OffSources /\ clock = "-" /\ rows = "-" /\ requests = "-"
        /\ failures = "-"
     \/ /\ part = "eligibility" /\ Eligible!Init
        /\ OffKeeper /\ OffIndexer /\ OffQuotes /\ OffIssuer /\ OffCache /\ OffRates /\ OffView
        /\ OffProcess /\ OffTold /\ OffSources /\ clock = "-" /\ rows = "-" /\ requests = "-"
        /\ failures = "-"
     \/ /\ part = "numbering" /\ Numbering!Init
        /\ OffKeeper /\ OffIndexer /\ OffQuotes /\ OffScored /\ OffCache /\ OffRates /\ OffView
        /\ OffProcess /\ OffTold /\ OffSources /\ payouts = "-"
     \/ /\ part = "limits" /\ Limited!Init
        /\ OffKeeper /\ OffIndexer /\ OffQuotes /\ OffScored /\ OffCache /\ OffRates /\ OffView
        /\ OffProcess /\ OffTold /\ OffSources /\ payouts = "-"
     \/ /\ part = "attesting" /\ Attesting!Init
        /\ OffKeeper /\ OffIndexer /\ OffQuotes /\ OffScored /\ OffCache /\ OffRates /\ OffView
        /\ OffProcess /\ OffTold /\ OffSources /\ payouts = "-"
     \/ /\ part = "rates" /\ Rated!Init
        /\ OffKeeper /\ OffIndexer /\ OffQuotes /\ OffScored /\ OffIssuer /\ OffView
        /\ OffProcess /\ OffTold /\ OffSources /\ rows = "-" /\ payouts = "-" /\ requests = "-"
        /\ failures = "-"
     \/ /\ part = "crowding" /\ Crowded!Init
        /\ OffKeeper /\ OffIndexer /\ OffQuotes /\ OffScored /\ OffIssuer /\ OffView
        /\ OffProcess /\ OffTold /\ OffSources /\ rows = "-" /\ payouts = "-" /\ requests = "-"
        /\ failures = "-"
     \/ /\ part = "view" /\ Viewed!Init
        /\ OffKeeper /\ OffIndexer /\ OffQuotes /\ OffScored /\ OffIssuer /\ OffRates
        /\ OffProcess /\ OffTold /\ OffSources /\ rows = "-" /\ payouts = "-" /\ requests = "-"
        /\ failures = "-"
     \/ /\ part = "viewers" /\ Flocked!Init
        /\ OffKeeper /\ OffIndexer /\ OffQuotes /\ OffScored /\ OffIssuer /\ OffRates
        /\ OffProcess /\ OffTold /\ OffSources /\ rows = "-" /\ payouts = "-" /\ requests = "-"
        /\ failures = "-"
     \/ /\ part = "process" /\ Process!Init
        /\ OffKeeper /\ OffIndexer /\ OffQuotes /\ OffScored /\ OffIssuer /\ OffCache
        /\ OffRates /\ OffView /\ OffTold /\ OffSources /\ rows = "-" /\ payouts = "-"
        /\ requests = "-" /\ failures = "-"
     \/ /\ part = "telling" /\ Told!Init
        /\ OffKeeper /\ OffIndexer /\ OffQuotes /\ OffScored /\ OffIssuer /\ OffCache
        /\ OffRates /\ OffView /\ OffProcess /\ OffSources /\ clock = "-" /\ rows = "-"
        /\ payouts = "-" /\ requests = "-" /\ failures = "-"
     \/ /\ part = "sources" /\ Sourced!Init
        /\ OffKeeper /\ OffIndexer /\ OffQuotes /\ OffScored /\ OffIssuer /\ OffCache
        /\ OffRates /\ OffView /\ OffProcess /\ OffTold /\ clock = "-" /\ requests = "-"
        /\ failures = "-"

Next ==
  \/ /\ part = "keeping" /\ Keeping!Next
     /\ UNCHANGED <<part, indexer, quotes, scored, issuer, cache, rates, view, process, sweeps,
                    sources, clock, rows, requests>>
  \/ /\ part = "indexing" /\ Indexing!Next
     /\ UNCHANGED <<part, keeper, quotes, scored, issuer, cache, rates, view, process, sweeps,
                    sources, payouts, requests>>
  \/ /\ part = "recognising" /\ Recognising!Next
     /\ UNCHANGED <<part, keeper, quotes, scored, issuer, cache, rates, view, process, sweeps,
                    sources, payouts, requests>>
  \/ /\ part = "pricing" /\ Pricing!Next
     /\ UNCHANGED <<part, keeper, indexer, scored, issuer, cache, rates, view, process, sweeps,
                    sources, clock, rows, payouts>>
  \/ /\ part = "scoring" /\ Scored!Next
     /\ UNCHANGED <<part, keeper, indexer, quotes, issuer, cache, rates, view, process, sweeps,
                    sources, clock, rows, requests, failures>>
  \/ /\ part = "eligibility" /\ Eligible!Next
     /\ UNCHANGED <<part, keeper, indexer, quotes, issuer, cache, rates, view, process, sweeps,
                    sources, clock, rows, requests, failures>>
  \/ /\ part = "numbering" /\ Numbering!Next
     /\ UNCHANGED <<part, keeper, indexer, quotes, scored, cache, rates, view, process, sweeps,
                    sources, payouts>>
  \/ /\ part = "limits" /\ Limited!Next
     /\ UNCHANGED <<part, keeper, indexer, quotes, scored, cache, rates, view, process, sweeps,
                    sources, payouts>>
  \/ /\ part = "attesting" /\ Attesting!Next
     /\ UNCHANGED <<part, keeper, indexer, quotes, scored, cache, rates, view, process, sweeps,
                    sources, payouts>>
  \/ /\ part = "rates" /\ Rated!Next
     /\ UNCHANGED <<part, keeper, indexer, quotes, scored, issuer, view, process, sweeps,
                    sources, rows, payouts, requests, failures>>
  \/ /\ part = "crowding" /\ Crowded!Next
     /\ UNCHANGED <<part, keeper, indexer, quotes, scored, issuer, view, process, sweeps,
                    sources, rows, payouts, requests, failures>>
  \/ /\ part = "view" /\ Viewed!Next
     /\ UNCHANGED <<part, keeper, indexer, quotes, scored, issuer, rates, process, sweeps,
                    sources, rows, payouts, requests, failures>>
  \/ /\ part = "viewers" /\ Flocked!Next
     /\ UNCHANGED <<part, keeper, indexer, quotes, scored, issuer, rates, process, sweeps,
                    sources, rows, payouts, requests, failures>>
  \/ /\ part = "process" /\ Process!Next
     /\ UNCHANGED <<part, keeper, indexer, quotes, scored, issuer, cache, rates, view, sweeps,
                    sources, rows, payouts, requests, failures>>
  \/ /\ part = "telling" /\ Told!Next
     /\ UNCHANGED <<part, keeper, indexer, quotes, scored, issuer, cache, rates, view, process,
                    sources, clock, rows, payouts, requests, failures>>
  \/ /\ part = "sources" /\ Sourced!Next
     /\ UNCHANGED <<part, keeper, indexer, quotes, scored, issuer, cache, rates, view, process,
                    sweeps, clock, requests, failures>>

Spec == Init /\ [][Next]_vars

-----------------------------------------------------------------------------
\* What the modules assume of their constants.
ASSUME ServicesAssumption ==
  /\ Keeping!KeeperAssumption
  /\ Indexing!IndexerAssumption /\ Indexing!NetworksAssumption
  /\ Recognising!IndexerAssumption /\ Recognising!NetworksAssumption
  /\ Pricing!PricesAssumption
  /\ Scored!ScoringAssumption /\ Eligible!ScoringAssumption
  /\ Numbering!IssuerAssumption /\ Limited!IssuerAssumption /\ Attesting!IssuerAssumption
  /\ Rated!CachedReadAssumption /\ Rated!SharingAssumption
  /\ Rated!RateAssumption /\ Rated!PowersAssumption
  /\ Crowded!CachedReadAssumption /\ Crowded!SharingAssumption
  /\ Crowded!RateAssumption /\ Crowded!PowersAssumption
  /\ Viewed!CachedReadAssumption /\ Viewed!SharingAssumption /\ Viewed!PoolViewAssumption
  /\ Flocked!CachedReadAssumption /\ Flocked!SharingAssumption /\ Flocked!PoolViewAssumption
  /\ Process!ApiProcessAssumption
  /\ Told!WithholdingsAssumption
  /\ Sourced!PayoutSourcesAssumption

\* The types of the variables of the part that runs.
TypeOK ==
  /\ part = "keeping" => Keeping!TypeOK
  /\ part = "indexing" => Indexing!TypeOK
  /\ part = "recognising" => Recognising!TypeOK
  /\ part = "pricing" => Pricing!TypeOK
  /\ part = "numbering" => Numbering!TypeOK
  /\ part = "limits" => Limited!TypeOK
  /\ part = "attesting" => Attesting!TypeOK
  /\ part = "rates" => Rated!CacheTypeOK
  /\ part = "crowding" => Crowded!CacheTypeOK
  /\ part = "process" => Process!TypeOK
  /\ part = "telling" => Told!TypeOK
  /\ part = "sources" => Sourced!TypeOK

\* What the workers keep of payouts is true however they interleave and fail: two keepers
\* with stale reads never have more withheld, or counted as owed, than came in to the open
\* loan; the cursor of an account is never past a payout without a row, whichever process
\* died or was overtaken; a row is tokens the operator really gained from a source of the
\* network and nobody else; a daily quote is what the source said of that day, however two
\* readers and a revision interleave.
PayoutsAreCountedOnce ==
  /\ part = "keeping" => Keeping!WithheldOnce
  /\ part = "indexing" => Indexing!CursorCovered
  /\ part = "recognising" => Recognising!NothingInvented
  /\ part = "pricing" => Pricing!QuotesAreReal

\* The factors shown add up to the limit to the last unit; the limit is backed by the
\* better half of the months at a price quoted recently; and the month a short history is
\* promised is the first in which it is long enough, while the window rolls on.
LimitsAreBacked ==
  /\ part = "scoring" =>
       /\ Scored!FactorsAddUp /\ Scored!LimitIsBacked
  /\ part = "eligibility" => Eligible!ThresholdIsExact

\* Requests that overlap never sign the same nonce and leave no gap in the journal of
\* nonces, whatever failed after signing; a wallet flagged from before its request until
\* its answer gets no attestation; a limit shown is of the last day, or newer than the
\* request if that asked for a recalculation; an attestation is the sum of the limits of
\* its networks, expires no later than any of them, and is taken by the program, whose
\* clock trails, from when it was asked for.
AttestationsAreSound ==
  /\ part = "numbering" =>
       /\ Numbering!NumbersDiffer /\ Numbering!NotSignedWhileFlagged
  /\ part = "limits" => Limited!AnswersAreFresh
  /\ part = "attesting" =>
       /\ Attesting!AttestationsAreBacked /\ Attesting!AttestationsAreAccepted

\* Callers that overlap share one call upstream and a call that fails late evicts nothing
\* but its own entry; a signed rate is a price the market had recently, rounded up by less
\* than a unit, and is taken by the program until it expires; what is shown of the pool was
\* the pool a cache time before, and promises a lender no more than the pool earns.
CachedAnswersHold ==
  /\ part = "rates" =>
       /\ Rated!RatesAreMarketPrices /\ Rated!RatesAreAccepted
  /\ part = "crowding" => Crowded!CallersShare
  /\ part = "view" =>
       /\ Viewed!ShownIsRecent /\ Viewed!NeverShownMore
  /\ part = "viewers" =>
       /\ Flocked!CallersShare /\ Flocked!ShownIsRecent

\* A keeper that runs has rates, a pool and a journal, whatever of the environment is set;
\* the database is let go of only with no request left or the grace over; an exit with
\* success has answered every request and closed the database, however many signals came;
\* and the process is out before the platform would kill it.
ShutdownIsOrderly ==
  /\ part = "process" =>
       /\ Process!KeeperHasAllItNeeds /\ Process!DatabaseOutlivesRequests
       /\ Process!SuccessIsTrue /\ Process!NeverKilled

\* Each row of the sweep journal is told in exactly one entry, with its worst deviation;
\* skips in a row of one mint are one entry; a history cut at its limit says so; no two
\* rows of the page have one key; the alarm over a silent source is raised only if the
\* network pays by another, and a source the network has left is told once the silence has
\* lasted.
OperatorIsTold ==
  /\ part = "telling" =>
       /\ Told!EveryRowIsTold /\ Told!SkipsInARowAreOne /\ Told!CutIsTold
       /\ Told!KeysAreApart
  /\ part = "sources" =>
       /\ Sourced!AlarmIsTrue /\ Sourced!ChangeIsTold

\* A recorded quote is never replaced, by a later request or by a racing one; one more
\* payout never lowers a limit; a quote that comes later does not change the value shown
\* for a month; and after a signal no worker begins another tick.
LaterNewsHarmsNothing ==
  [][ /\ part = "pricing" => Pricing!NeverRewritten
      /\ part = "scoring" =>
           /\ Scored!PayoutNeverLowersLimit /\ Scored!ValueIsFinal
      /\ part = "process" => Process!NoTickAfterSignal ]_vars
=============================================================================
