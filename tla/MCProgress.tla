------------------------------ MODULE MCProgress -------------------------------
(***************************************************************************)
(* What the components come to in the end, one component at a time as in   *)
(* MCServices and MCClients.  The operator of `borrowing` and the lender of*)
(* `lending` want something: they take part by WillingNext and PatientNext.*)
(***************************************************************************)
EXTENDS Integers, Sequences

CONSTANTS
  Components,            \* the parts to check
  k1, Forever, alice, hnt, honey,
  x1, Wallet, Nobody, NoTime, distributor, authority, honeyAccount, hntAccount, other,
  q1, q2, p1, p2, r1, ada, bob, Unreadable,
  m1, f1, NoOne, OURS, NoLoan, a1, a2, c1

VARIABLES
  part,
  accounts, tolerable, credit, ticks, pauses, lost,
  cursors, passes, missing,
  history, held, flagged, profiles, lock,
  upstream, fetches, entry, callers, quoted, issued,
  env, running, workers, database, closes, drained, code, signals, endingSince,
  registered, remembered, connecting, told, began, refused, entries, at, recomputed, due,
  moves,
  borrowed, attestor, loans, delegate, allowance, form, reading, preview, replace, call,
  now, pool, loan, share, wallet, read, calls, clicks,
  clock, rows, payouts, requests, failures, stage, changes, account, shown, chain, adrift,
  asked

keeper == <<accounts, tolerable, credit, ticks, pauses, lost>>
indexer == <<cursors, passes, missing>>
issuer == <<history, held, flagged, profiles, lock>>
cache == <<upstream, fetches, entry, callers, quoted, issued>>
process == <<env, running, workers, database, closes, drained, code, signals, endingSince>>
pages == <<registered, remembered, connecting, told, began, refused, entries, at, recomputed,
           due, moves>>
borrowing == <<borrowed, attestor, loans, delegate, allowance, form, reading, preview, replace,
               call>>
lender == <<now, pool, loan, share, wallet, read, calls, clicks>>

vars == <<part, keeper, indexer, issuer, cache, process, pages, borrowing, lender, clock, rows,
          payouts, requests, failures, stage, changes, account, shown, chain, adrift, asked>>

-----------------------------------------------------------------------------
\* One keeper, an operator repaid from two reward tokens, one of which the pool has no
\* vault for, and a call that fails.
Keeping ==
  INSTANCE Keeper WITH
    Keepers <- {k1},
    Watches <- {[operator |-> alice, mint |-> hnt], [operator |-> alice, mint |-> honey]},
    Unbuyable <- {honey}, SKIP_PAUSE <- 1, DEBT <- 2, Allowances <- {}, Spendings <- {},
    MAX_LOANS <- 1, MAX_PAYOUTS <- 1, MAX_FAILURES <- 1, MAX_LOST <- 0

TwoNetworks ==
  { [id |-> "hivemapper", mint |-> honey, sources |-> {[kind |-> "mint", address |-> authority]}],
    [id |-> "helium", mint |-> hnt, sources |-> {[kind |-> "transfer", address |-> distributor]}] }

TwoAccounts == {honeyAccount, hntAccount}

MintOfTwo == [a \in TwoAccounts |-> IF a = honeyAccount THEN honey ELSE hnt]

Receipt(to, mint, amount) == [account |-> to, owner |-> Wallet, mint |-> mint, change |-> amount]
Tx(changed, made) == [moves |-> changed, issues |-> made, failed |-> FALSE, time |-> 0]

Issued == Tx({Receipt(honeyAccount, honey, 2)}, {[mint |-> honey, authority |-> authority]})
\* A payout that also moves tokens of the other account, and so is in two lists.
Shared == Tx(Issued.moves \union {Receipt(hntAccount, hnt, -1)}, Issued.issues)
\* One transaction that pays from both networks.
Both ==
  Tx(Issued.moves \union {Receipt(hntAccount, hnt, 1),
        [account |-> other, owner |-> distributor, mint |-> hnt, change |-> -1]}, Issued.issues)

\* A pass that fails and a transaction that the node does not return.
Indexing ==
  INSTANCE Indexer WITH
    Networks <- TwoNetworks, Accounts <- TwoAccounts, MintOf <- MintOfTwo, Indexers <- {x1},
    Transactions <- {Issued, Shared, Both}, PAGE_SIZE <- 2, HISTORY <- 1, MAX_CHAIN <- 2,
    MAX_TIME <- 1, MAX_FAILURES <- 1, MAX_MISSING <- 1

\* Requests of every kind, one of which may fail anywhere.
Issuing ==
  INSTANCE Issuer WITH
    Requests <- {q1, q2}, Kinds <- {"show", "refresh", "attest"}, Networks <- {"honey"},
    Limits <- {2}, Refusals <- {}, SECOND <- 1, MONTH <- 2, TTL <- 2, ATTESTATION_TTL <- 1,
    MAX_REMAINING_VALIDITY <- 3, MAX_LIMIT_AGE <- 2, MAX_RATE_AGE <- 1, DEVNET <- TRUE,
    MAX_SKEW <- 1, MAX_CLOCK <- 0, MAX_CHANGES <- 1, MAX_FAILURES <- 1

\* A source that may never answer.
Rating ==
  INSTANCE RateIssuing WITH
    Callers <- {p1, p2}, CALLS <- 2, TIMEOUT <- 1, BOUNDED <- TRUE, CACHE <- 3,
    OWN_ONLY <- FALSE, MAX_CLOCK <- 4, LAST_CALL <- 1, Digits <- {17}, Fractions <- {3},
    SCALE <- 2, RADIX <- 10, MAX_PRICE_AGE <- 2, RATE_TTL <- 1, MAX_SKEW <- 1, MAX_QUOTES <- 1,
    MAX_REMAINING_VALIDITY <- 2, MAX_LIMIT_AGE <- 1, MAX_RATE_AGE <- 3

\* A request and ticks that may never end.
Process ==
  INSTANCE ApiProcess WITH
    Requests <- {r1}, GRACE <- 2, KILLED_AFTER <- 6, DATABASE_ENDS <- 3, MAX_SIGNALS <- 2

Browses ==
  INSTANCE AddressPages WITH
    Operators <- {ada, bob}, MAX_ENTRIES <- 2, MAX_MOVES <- 2, MAX_RECOMPUTED <- 1

Borrows ==
  INSTANCE Borrowing WITH
    U64_MAX <- 60, BPS <- 2, ACCRUAL_DENOMINATOR <- 7, REPAYMENT_PERIOD <- 2, APR_MAX <- 12,
    MARGIN <- 1, DAY <- 1, RATE_PER <- 3, RewardMints <- {m1}, DEPOSITS <- 6, BASE_APR <- 1,
    SLOPE_APR <- 6, LIMIT <- 4, Attestors <- {a1, a2}, Rates <- {1}, Amounts <- {2, 3},
    Terms <- {2}, Foreign <- {f1}, Nonces <- {1, 2, 3}, MAX_CHANGES <- 1

Lends ==
  INSTANCE LenderPage WITH
    U64_MAX <- 60, BPS <- 2, ACCRUAL_DENOMINATOR <- 7, REPAYMENT_PERIOD <- 2, APR_MAX <- 12,
    RewardMints <- {m1}, Keys <- {a1}, BASE_APR_BPS <- 1, SLOPE_APR_BPS <- 6, WALLET <- 2,
    Held <- {3}, OTHERS <- 2, Deposits <- {2}, Withdrawals <- {2}, LoanAmounts <- {4},
    Aprs <- {5}, Calls <- {c1}, MAX_CLICKS <- 2, MAX_CHANGES <- 1, MAX_TIME <- 3

-----------------------------------------------------------------------------
OffKeeper ==
  /\ accounts = "-" /\ tolerable = "-" /\ credit = "-" /\ ticks = "-" /\ pauses = "-"
  /\ lost = "-"
OffIndexer ==
  /\ cursors = "-" /\ passes = "-" /\ missing = "-"
OffIssuer ==
  /\ history = "-" /\ held = "-" /\ flagged = "-" /\ profiles = "-" /\ lock = "-"
OffCache ==
  /\ upstream = "-" /\ fetches = "-" /\ entry = "-" /\ callers = "-" /\ quoted = "-"
  /\ issued = "-"
OffProcess ==
  /\ env = "-" /\ running = "-" /\ workers = "-" /\ database = "-" /\ closes = "-"
  /\ drained = "-" /\ code = "-" /\ signals = "-" /\ endingSince = "-"
OffPages ==
  /\ registered = "-" /\ remembered = "-" /\ connecting = "-" /\ told = "-" /\ began = "-"
  /\ refused = "-" /\ entries = "-" /\ at = "-" /\ recomputed = "-" /\ due = "-" /\ moves = "-"
OffBorrowing ==
  /\ borrowed = "-" /\ attestor = "-" /\ loans = "-" /\ delegate = "-" /\ allowance = "-"
  /\ form = "-" /\ reading = "-" /\ preview = "-" /\ replace = "-" /\ call = "-"
OffLender ==
  /\ now = "-" /\ pool = "-" /\ loan = "-" /\ share = "-" /\ wallet = "-" /\ read = "-"
  /\ calls = "-" /\ clicks = "-"

Init ==
  /\ part \in Components
  /\ \/ /\ part = "keeping" /\ Keeping!Init
        /\ OffIndexer /\ OffIssuer /\ OffCache /\ OffProcess /\ OffPages /\ OffBorrowing
        /\ OffLender /\ clock = "-" /\ rows = "-" /\ requests = "-" /\ stage = "-"
        /\ changes = "-" /\ account = "-" /\ shown = "-" /\ chain = "-" /\ adrift = "-"
        /\ asked = "-"
     \/ /\ part = "indexing" /\ Indexing!Init
        /\ OffKeeper /\ OffIssuer /\ OffCache /\ OffProcess /\ OffPages /\ OffBorrowing
        /\ OffLender /\ payouts = "-" /\ requests = "-" /\ stage = "-" /\ changes = "-"
        /\ account = "-" /\ shown = "-" /\ adrift = "-" /\ asked = "-"
     \/ /\ part = "issuing" /\ Issuing!Init
        /\ OffKeeper /\ OffIndexer /\ OffCache /\ OffProcess /\ OffPages /\ OffBorrowing
        /\ OffLender /\ payouts = "-" /\ stage = "-" /\ account = "-" /\ shown = "-"
        /\ chain = "-" /\ adrift = "-" /\ asked = "-"
     \/ /\ part = "rating" /\ Rating!Init
        /\ OffKeeper /\ OffIndexer /\ OffIssuer /\ OffProcess /\ OffPages /\ OffBorrowing
        /\ OffLender /\ rows = "-" /\ payouts = "-" /\ requests = "-" /\ failures = "-"
        /\ stage = "-" /\ changes = "-" /\ account = "-" /\ shown = "-" /\ chain = "-"
        /\ adrift = "-" /\ asked = "-"
     \/ /\ part = "process" /\ Process!Init
        /\ OffKeeper /\ OffIndexer /\ OffIssuer /\ OffCache /\ OffPages /\ OffBorrowing
        /\ OffLender /\ rows = "-" /\ payouts = "-" /\ requests = "-" /\ failures = "-"
        /\ changes = "-" /\ account = "-" /\ shown = "-" /\ chain = "-" /\ adrift = "-"
     \/ /\ part = "browsing" /\ Browses!Init
        /\ OffKeeper /\ OffIndexer /\ OffIssuer /\ OffCache /\ OffProcess /\ OffBorrowing
        /\ OffLender /\ clock = "-" /\ rows = "-" /\ payouts = "-" /\ failures = "-"
        /\ stage = "-" /\ changes = "-" /\ chain = "-" /\ adrift = "-"
     \/ /\ part = "borrowing" /\ Borrows!Init
        /\ OffKeeper /\ OffIndexer /\ OffIssuer /\ OffCache /\ OffProcess /\ OffPages
        /\ OffLender /\ clock = "-" /\ rows = "-" /\ payouts = "-" /\ requests = "-"
        /\ failures = "-" /\ account = "-" /\ shown = "-" /\ asked = "-"
     \/ /\ part = "lending" /\ Lends!Init
        /\ OffKeeper /\ OffIndexer /\ OffIssuer /\ OffCache /\ OffProcess /\ OffPages
        /\ OffBorrowing /\ clock = "-" /\ rows = "-" /\ payouts = "-" /\ requests = "-"
        /\ failures = "-" /\ account = "-" /\ chain = "-" /\ asked = "-"

Next ==
  \/ /\ part = "keeping" /\ Keeping!Next
     /\ UNCHANGED <<part, indexer, issuer, cache, process, pages, borrowing, lender, clock,
                    rows, requests, stage, changes, account, shown, chain, adrift, asked>>
  \/ /\ part = "indexing" /\ Indexing!Next
     /\ UNCHANGED <<part, keeper, issuer, cache, process, pages, borrowing, lender, payouts,
                    requests, stage, changes, account, shown, adrift, asked>>
  \/ /\ part = "issuing" /\ Issuing!Next
     /\ UNCHANGED <<part, keeper, indexer, cache, process, pages, borrowing, lender, payouts,
                    stage, account, shown, chain, adrift, asked>>
  \/ /\ part = "rating" /\ Rating!Next
     /\ UNCHANGED <<part, keeper, indexer, issuer, process, pages, borrowing, lender, rows,
                    payouts, requests, failures, stage, changes, account, shown, chain, adrift,
                    asked>>
  \/ /\ part = "process" /\ Process!Next
     /\ UNCHANGED <<part, keeper, indexer, issuer, cache, pages, borrowing, lender, rows,
                    payouts, requests, failures, changes, account, shown, chain, adrift>>
  \/ /\ part = "browsing" /\ Browses!Next
     /\ UNCHANGED <<part, keeper, indexer, issuer, cache, process, borrowing, lender, clock,
                    rows, payouts, failures, stage, changes, chain, adrift>>
  \/ /\ part = "borrowing" /\ Borrows!WillingNext
     /\ UNCHANGED <<part, keeper, indexer, issuer, cache, process, pages, lender, clock, rows,
                    payouts, requests, failures, account, shown, asked>>
  \/ /\ part = "lending" /\ Lends!PatientNext
     /\ UNCHANGED <<part, keeper, indexer, issuer, cache, process, pages, borrowing, clock,
                    rows, payouts, requests, failures, account, chain, asked>>

Spec == Init /\ [][Next]_vars

(***************************************************************************)
(* Each conjunct is about the part that runs.  What a part may do and need *)
(* not is in none of them: payouts, failures, requests, clicks.            *)
(***************************************************************************)
Fairness ==
  \* The timer of runKeeper always fires again, calls return, and time passes.
  /\ WF_(Keeping!vars)(part = "keeping" /\ Keeping!TimePasses)
  /\ WF_(Keeping!vars)(part = "keeping" /\ Keeping!Step(k1))
  \* Passes go on and the calls of a pass return.
  /\ WF_(Indexing!vars)(part = "indexing" /\ Indexing!Step(x1))
  \* Every call that a request waits for returns or fails.
  /\ \A r \in {q1, q2} : WF_(Issuing!vars)(part = "issuing" /\ Issuing!Serve(r))
  \* Calls are aborted when their time is up, and a caller continues when its promise
  \* has settled.  The source itself owes nothing.
  /\ WF_(Rating!vars)(part = "rating" /\ Rating!Tick /\ UNCHANGED <<quoted, issued>>)
  /\ WF_(Rating!vars)(part = "rating" /\ \E f \in DOMAIN fetches : Rating!TimeOut(f) /\ UNCHANGED <<quoted, issued>>)
  /\ \A c \in {p1, p2} : WF_(Rating!vars)(part = "rating" /\ Rating!Answer(c))
  \* Timers fire and the database closes or refuses to; requests and ticks may take for ever.
  /\ WF_(Process!vars)(part = "process" /\ (Process!Drain \/ Process!DrainFails \/ Process!ShutdownTimedOut))
  /\ WF_(Process!vars)(part = "process" /\ \E ended \in BOOLEAN : Process!DatabaseEnds(ended))
  /\ WF_(Process!vars)(part = "process" /\ Process!Tick)
  \* The runtime renders and runs effects, and a request is answered or given up.
  /\ WF_(Browses!vars)(part = "browsing" /\ Browses!Mine)
  /\ WF_(Browses!vars)(part = "browsing" /\ Browses!Effect)
  /\ WF_(Browses!vars)(part = "browsing" /\ Browses!AnswerLive)
  \* The nodes answer; the operator signs whenever the page lets them, again and again,
  \* and reloads a page that cannot be read or whose loan did not go through.
  /\ WF_(Borrows!vars)(part = "borrowing" /\ Borrows!ReadChain)
  /\ WF_(Borrows!vars)(part = "borrowing" /\ Borrows!ReadPreview)
  /\ WF_(Borrows!vars)(part = "borrowing" /\ Borrows!Proceed)
  /\ WF_(Borrows!vars)(part = "borrowing" /\ Borrows!Stuck /\ Borrows!Reload)
  /\ SF_(Borrows!vars)(part = "borrowing" /\ ~replace /\ Borrows!Tick)
  /\ SF_(Borrows!vars)(part = "borrowing" /\ ~Borrows!Stuck /\ Borrows!Click)
  \* The nodes answer, operators repay, and the lender asks for everything whenever the
  \* page lets them and looks again when it does not.
  /\ WF_(Lends!vars)(part = "lending" /\ \E p \in Lends!Parts : Lends!ReadPart(p))
  /\ WF_(Lends!vars)(part = "lending" /\ Lends!Sending)
  /\ WF_(Lends!vars)(part = "lending" /\ Lends!LookAgain)
  /\ WF_(Lends!vars)(part = "lending" /\ Lends!RepayAll)
  /\ SF_(Lends!vars)(part = "lending" /\ stage # "failed" /\ Lends!AskForAll)

FairSpec == Spec /\ Fairness

-----------------------------------------------------------------------------
\* What the modules assume of their constants.
ASSUME ProgressAssumption ==
  /\ Keeping!KeeperAssumption
  /\ Indexing!IndexerAssumption /\ Indexing!NetworksAssumption
  /\ Issuing!IssuerAssumption
  /\ Rating!CachedReadAssumption /\ Rating!SharingAssumption
  /\ Rating!RateAssumption /\ Rating!PowersAssumption
  /\ Process!ApiProcessAssumption
  /\ Browses!AddressPagesAssumption
  /\ Borrows!ClientLoanAssumption /\ Borrows!BorrowingAssumption
  /\ Lends!LenderPageAssumption

\* Nothing that asks is left waiting: what a sweep could withhold does not stay on an
\* account once the market stays within the tolerance (SC-005); every payout that the
\* node returned is indexed, if passes do not go on failing; every request for a limit or
\* an attestation is answered, with no lock kept by one that failed; a hung source
\* becomes a 503 (index.ts:19), so every caller of the rate is answered; a signal ends
\* the process, with the database told to close once; and a page that loads comes to show
\* an answer or a failure, and one without an address leads on, unless the wallet is
\* deciding.
NothingHangs ==
  /\ <>[](part = "keeping" => hnt \in tolerable)
       => []<>(part = "keeping" => Keeping!Take(accounts[[operator |-> alice, mint |-> hnt]]) = 0)
  /\ \A i \in 1..2 : []<>(part = "indexing" => ~(i \in DOMAIN chain /\ Indexing!Absent(i)))
  /\ \A r \in {q1, q2} : []<>(part = "issuing" => ~Issuing!Active(r))
  /\ \A c \in {p1, p2} : []<>(part = "rating" => callers[c].phase # "waiting")
  /\ []<>(part = "process" /\ signals > 0 => stage = "exited" /\ closes = 1)
  /\ []<>(part = "browsing" =>
            Browses!Route \notin Browses!Addressed \/ shown.status = "done")
  /\ []<>(part = "browsing" => Browses!Route.page # "own" \/ connecting)

\* Who goes on asking gets what the page offered, on a chain that moves: an operator who
\* signs again, and reloads what failed, gets the loan or the pool runs out (a rate that
\* moved is quoted again, a foreign delegate is shown, a rotated attestor is read with the
\* pool); and a lender who goes on asking for everything is left with nothing in the pool
\* (lend.ts:9, "it can be withdrawn as the loans are repaid").
AskersAreServed ==
  /\ <>(part = "borrowing" => loans # <<>> \/ borrowed + form.amount > 6)
  /\ []<>(part = "lending" => share = 0)
=============================================================================
