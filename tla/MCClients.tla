------------------------------- MODULE MCClients -------------------------------
(***************************************************************************)
(* The pages of the web app and the operator's scripts, one at a time, as  *)
(* in MCServices: each models the chain it reads and writes, and a behaviour*)
(* is of one part.                                                         *)
(***************************************************************************)
EXTENDS Integers

CONSTANTS
  Components,            \* the parts to check
  m1, f1, NoOne, OURS, NoRate, c1, c2, NEXT_PAYMENT, EVERYTHING,
  a1, a2, NoLoan, ada, bob, Unreadable, Nobody

VARIABLES
  part,
  paid, kept,
  rewards, balance, clock,
  debt, operator, board, action,
  borrowed, attestor, delegate, allowance, form, chain, reading, preview, call,
  share, read,
  registered, remembered, connecting, told, began, refused, asked,
  entries, at, recomputed, due, requests, moves,
  coin, deposited, vaults, run, flight, failures, late, sold, successes,
  now, loan, loans, pool, wallet, shown, stage, calls, clicks, changes, account, replace,
  adrift

life == <<paid, kept>>
repaying == <<rewards, balance, clock>>
delegating == <<debt, operator, board, action>>
borrowing == <<borrowed, attestor, delegate, allowance, form, chain, reading, preview, call>>
lender == <<share, read>>
identity == <<registered, remembered, connecting, told, began, refused, asked>>
pages == <<entries, at, recomputed, due, requests, moves>>
seeding == <<coin, deposited, vaults, run, flight, failures, late, sold, successes>>

vars == <<part, life, repaying, delegating, borrowing, lender, identity, pages, seeding, now,
          loan, loans, pool, wallet, shown, stage, calls, clicks, changes, account, replace,
          adrift>>

-----------------------------------------------------------------------------
\* A loan of one to three instalments.
Holding ==
  INSTANCE LoanLife WITH
    U64_MAX <- 60, BPS <- 2, ACCRUAL_DENOMINATOR <- 7, REPAYMENT_PERIOD <- 2, APR_MAX <- 3,
    RewardMints <- {m1}, MARGIN <- 1, DAY <- 1, RATE_PER <- 1, Principals <- {4, 5},
    Aprs <- {0, 2, 3}, MAX_TERM_PERIODS <- 3, Amounts <- {1, 3, 60}, MAX_TIME <- 8

Opened(principal, left, apr, opened, term) ==
  [ reward_mint        |-> m1,
    principal          |-> principal,
    outstanding        |-> left,
    accrued_interest   |-> 0,
    interest_remainder |-> 0,
    opened_at          |-> opened,
    due_at             |-> opened + term * 2,
    last_accrual_at    |-> 4,
    apr_bps            |-> apr,
    sweep_bps          |-> 2,
    status             |-> "Active",
    reward_due         |-> 0,
    manual_repayment   |-> "None" ]

\* One late and one with time to run; two due the same second.
TwoLoans ==
  { <<Opened(6, 6, 2, 0, 3), Opened(4, 4, 3, 4, 2)>>,
    <<Opened(6, 4, 3, 2, 3), Opened(4, 4, 2, 4, 2)>> }

\* Two loans on one reward token.
Repays ==
  INSTANCE Repaying WITH
    U64_MAX <- 60, BPS <- 2, ACCRUAL_DENOMINATOR <- 7, REPAYMENT_PERIOD <- 2, APR_MAX <- 3,
    RewardMints <- {m1}, MARGIN <- 1, DAY <- 1, RATE_PER <- 2, Loans <- {1, 2},
    OpenedLoans <- TwoLoans, Calls <- {c1}, Rates <- {2}, CustomAmounts <- {3},
    Wallets <- {11}, SweepAmounts <- {3}, SweepRates <- {1}, MAX_CLICKS <- 1,
    Revoking <- TRUE, START <- 4, MAX_TIME <- 5

\* One reward token and one wallet, and clicks that overlap.
Delegates ==
  INSTANCE Delegating WITH
    U64_MAX <- 60, BPS <- 2, ACCRUAL_DENOMINATOR <- 7, REPAYMENT_PERIOD <- 2, APR_MAX <- 3,
    MARGIN <- 1, DAY <- 1, RATE_PER <- 3, RewardMints <- {m1}, Operators <- {ada, bob},
    Foreign <- {f1}, Calls <- {c1, c2}, Rates <- {1, 2}, MAX_DEBT <- 2, MAX_CHANGES <- 2

\* A pool of six, a limit of four and two attestations.
Borrows ==
  INSTANCE Borrowing WITH
    U64_MAX <- 60, BPS <- 2, ACCRUAL_DENOMINATOR <- 7, REPAYMENT_PERIOD <- 2, APR_MAX <- 12,
    MARGIN <- 1, DAY <- 1, RATE_PER <- 3, RewardMints <- {m1}, DEPOSITS <- 6, BASE_APR <- 1,
    SLOPE_APR <- 6, LIMIT <- 4, Attestors <- {a1, a2}, Rates <- {2}, Amounts <- {2, 3},
    Terms <- {2}, Foreign <- {f1}, Nonces <- {1, 2}, MAX_CHANGES <- 2

\* A lender beside others in a pool of one loan.
Lends ==
  INSTANCE LenderPage WITH
    U64_MAX <- 60, BPS <- 2, ACCRUAL_DENOMINATOR <- 7, REPAYMENT_PERIOD <- 2, APR_MAX <- 12,
    RewardMints <- {m1}, Keys <- {a1}, BASE_APR_BPS <- 1, SLOPE_APR_BPS <- 6, WALLET <- 2,
    Held <- {0, 3}, OTHERS <- 2, Deposits <- {2}, Withdrawals <- {2}, LoanAmounts <- {4},
    Aprs <- {5}, Calls <- {c1}, MAX_CLICKS <- 2, MAX_CHANGES <- 2, MAX_TIME <- 3

\* Two operators, one of them perhaps the one whose wallet is connected.
Browses ==
  INSTANCE AddressPages WITH
    Operators <- {ada, bob}, MAX_ENTRIES <- 3, MAX_MOVES <- 4, MAX_RECOMPUTED <- 1

\* Two networks, and terms that are changed between runs.
Seeds ==
  INSTANCE Seeding WITH
    NETWORKS <- <<"hivemapper", "helium">>, Terms <- {"usual", "wider"}, AMOUNT <- 2,
    MAX_FAILURES <- 2, MAX_SOLD <- 1, MAX_AGAIN <- 1

-----------------------------------------------------------------------------
OffLife ==
  /\ paid = "-" /\ kept = "-"
OffRepaying ==
  /\ rewards = "-" /\ balance = "-" /\ clock = "-"
OffDelegating ==
  /\ debt = "-" /\ operator = "-" /\ board = "-" /\ action = "-"
OffBorrowing ==
  /\ borrowed = "-" /\ attestor = "-" /\ delegate = "-" /\ allowance = "-" /\ form = "-"
  /\ chain = "-" /\ reading = "-" /\ preview = "-" /\ call = "-"
OffLender ==
  /\ share = "-" /\ read = "-"
OffIdentity ==
  /\ registered = "-" /\ remembered = "-" /\ connecting = "-" /\ told = "-" /\ began = "-"
  /\ refused = "-" /\ asked = "-"
OffPages ==
  /\ entries = "-" /\ at = "-" /\ recomputed = "-" /\ due = "-" /\ requests = "-"
  /\ moves = "-"
OffSeeding ==
  /\ coin = "-" /\ deposited = "-" /\ vaults = "-" /\ run = "-" /\ flight = "-"
  /\ failures = "-" /\ late = "-" /\ sold = "-" /\ successes = "-"

Init ==
  /\ part \in Components
  /\ \/ /\ part = "holding" /\ Holding!Init
        /\ OffRepaying /\ OffDelegating /\ OffBorrowing /\ OffLender /\ OffIdentity /\ OffPages
        /\ OffSeeding /\ loans = "-" /\ pool = "-" /\ wallet = "-" /\ shown = "-"
        /\ stage = "-" /\ calls = "-" /\ clicks = "-" /\ changes = "-" /\ account = "-"
        /\ replace = "-" /\ adrift = "-"
     \/ /\ part = "repaying" /\ Repays!Init
        /\ OffLife /\ OffDelegating /\ OffBorrowing /\ OffLender /\ OffIdentity /\ OffPages
        /\ OffSeeding /\ loan = "-" /\ pool = "-" /\ changes = "-" /\ account = "-"
        /\ replace = "-" /\ adrift = "-"
     \/ /\ part = "delegating" /\ Delegates!Init
        /\ OffLife /\ OffRepaying /\ OffBorrowing /\ OffLender /\ OffIdentity /\ OffPages
        /\ OffSeeding /\ now = "-" /\ loan = "-" /\ loans = "-" /\ pool = "-" /\ wallet = "-"
        /\ shown = "-" /\ stage = "-" /\ clicks = "-" /\ adrift = "-"
     \/ /\ part = "borrowing" /\ Borrows!Init
        /\ OffLife /\ OffRepaying /\ OffDelegating /\ OffLender /\ OffIdentity /\ OffPages
        /\ OffSeeding /\ now = "-" /\ loan = "-" /\ pool = "-" /\ wallet = "-" /\ shown = "-"
        /\ calls = "-" /\ clicks = "-" /\ account = "-"
     \/ /\ part = "lending" /\ Lends!Init
        /\ OffLife /\ OffRepaying /\ OffDelegating /\ OffBorrowing /\ OffIdentity /\ OffPages
        /\ OffSeeding /\ loans = "-" /\ account = "-" /\ replace = "-"
     \/ /\ part = "browsing" /\ Browses!Init
        /\ OffLife /\ OffRepaying /\ OffDelegating /\ OffBorrowing /\ OffLender /\ OffSeeding
        /\ now = "-" /\ loan = "-" /\ loans = "-" /\ pool = "-" /\ wallet = "-" /\ stage = "-"
        /\ calls = "-" /\ clicks = "-" /\ changes = "-" /\ replace = "-" /\ adrift = "-"
     \/ /\ part = "seeding" /\ Seeds!Init
        /\ OffLife /\ OffRepaying /\ OffDelegating /\ OffBorrowing /\ OffLender /\ OffIdentity
        /\ OffPages /\ now = "-" /\ loan = "-" /\ loans = "-" /\ shown = "-" /\ stage = "-"
        /\ calls = "-" /\ clicks = "-" /\ changes = "-" /\ account = "-" /\ replace = "-"
        /\ adrift = "-"

Next ==
  \/ /\ part = "holding" /\ Holding!Next
     /\ UNCHANGED <<part, repaying, delegating, borrowing, lender, identity, pages, seeding,
                    loans, pool, wallet, shown, stage, calls, clicks, changes, account, replace,
                    adrift>>
  \/ /\ part = "repaying" /\ Repays!Next
     /\ UNCHANGED <<part, life, delegating, borrowing, lender, identity, pages, seeding, loan,
                    pool, changes, account, replace, adrift>>
  \/ /\ part = "delegating" /\ Delegates!Next
     /\ UNCHANGED <<part, life, repaying, borrowing, lender, identity, pages, seeding, now,
                    loan, loans, pool, wallet, shown, stage, clicks, adrift>>
  \/ /\ part = "borrowing" /\ Borrows!Next
     /\ UNCHANGED <<part, life, repaying, delegating, lender, identity, pages, seeding, now,
                    loan, pool, wallet, shown, calls, clicks, account>>
  \/ /\ part = "lending" /\ Lends!Next
     /\ UNCHANGED <<part, life, repaying, delegating, borrowing, identity, pages, seeding,
                    loans, account, replace>>
  \/ /\ part = "browsing" /\ Browses!Next
     /\ UNCHANGED <<part, life, repaying, delegating, borrowing, lender, seeding, now, loan,
                    loans, pool, wallet, stage, calls, clicks, changes, replace, adrift>>
  \/ /\ part = "seeding" /\ Seeds!Next
     /\ UNCHANGED <<part, life, repaying, delegating, borrowing, lender, identity, pages, now,
                    loan, loans, shown, stage, calls, clicks, changes, account, replace, adrift>>

Spec == Init /\ [][Next]_vars

-----------------------------------------------------------------------------
\* What the modules assume of their constants.
ASSUME ClientsAssumption ==
  /\ Holding!ClientLoanAssumption /\ Holding!LoanLifeAssumption
  /\ Repays!ClientLoanAssumption /\ Repays!RepayingAssumption
  /\ Delegates!ClientLoanAssumption /\ Delegates!DelegatingAssumption
  /\ Borrows!ClientLoanAssumption /\ Borrows!BorrowingAssumption
  /\ Lends!LenderPageAssumption
  /\ Browses!AddressPagesAssumption
  /\ Seeds!SeedingAssumption

\* The types of the variables of the part that runs.
TypeOK ==
  /\ part = "holding" => Holding!TypeOK
  /\ part = "repaying" => Repays!TypeOK
  /\ part = "delegating" => Delegates!TypeOK
  /\ part = "borrowing" => Borrows!TypeOK
  /\ part = "lending" => Lends!TypeOK
  /\ part = "browsing" => Browses!TypeOK
  /\ part = "seeding" => Seeds!TypeOK


\* A button that cannot be pressed says why; clicks that overlap have one transaction under
\* way; the buttons under a row do what its text asks for; a page waits only for what will
\* come; an answer is never one for the address the page showed before; a refusal to
\* connect is told exactly to who asked; and a seed script that is run again after a
\* failure mints what is missing and says true when it ends well.
PagesSayTrue ==
  /\ part = "repaying" => Repays!DisabledIsExplained
  /\ part = "delegating" =>
       /\ Delegates!OneAtATime /\ Delegates!OffersWhatItSays
  /\ part = "lending" => Lends!WaitsForSomething
  /\ part = "browsing" =>
       /\ Browses!AnswersWhatIsAsked /\ Browses!LoadingIsAwaited /\ Browses!ToldWhenAsked
  /\ part = "seeding" =>
       /\ Seeds!OnlyTheShortfall /\ Seeds!SuccessIsTrue

\* What lands is what was shown, on a chain that moved in between: the ceiling of a
\* delegation never rises within the term; repaying everything closes every loan read and
\* the next payment leaves nothing late; no allowance or approval exceeds the debt left; a
\* loan costs no more than the screen said at the click; a withdrawal pays what was quoted
\* if nobody moved the pool, and names what held it back.
TransactionsKeepTheirWord ==
  [][ /\ part = "holding" => Holding!CeilingOnlyFalls
      /\ part = "repaying" =>
           /\ Repays!AllClosed /\ Repays!NextIsPaid /\ Repays!AllowanceWithinDebt
      /\ part = "delegating" => Delegates!ApprovalWithinDebt
      /\ part = "borrowing" => Borrows!CostIsShown
      /\ part = "lending" =>
           /\ Lends!PaidAsQuoted /\ Lends!WithdrewWhatItSays ]_vars
=============================================================================
