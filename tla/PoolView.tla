------------------------------ MODULE PoolView ------------------------------
(***************************************************************************)
(* The public view of the pool (apps/api/src/routes/pool.ts): one read of  *)
(* the pool account serves the callers of a while, and its shares are      *)
(* rounded down.  The upstream value names one of the accounts below; it   *)
(* is of the moment it was written at.                                     *)
(***************************************************************************)
EXTENDS CachedRead

CONSTANTS
  BPS,
  MAX_DEPOSITS,     \* bounds the deposits
  MAX_APR,          \* bounds the rates of the loans, in basis points
  MAX_WRITES        \* bounds the writes of the account

PoolViewAssumption ==
  BPS \in Nat \ {0} /\ {MAX_DEPOSITS, MAX_APR, MAX_WRITES} \subseteq Nat

VARIABLES
  account,      \* every version of the pool account, and when it was written
  shown         \* what each caller was shown

vars == <<cacheVars, account, shown>>

Accounts ==
  {a \in [total_deposits : 0..MAX_DEPOSITS, total_borrowed : 0..MAX_DEPOSITS,
          accrual_rate : 0..(MAX_DEPOSITS * MAX_APR)] :
     /\ a.total_borrowed <= a.total_deposits
     /\ a.accrual_rate <= a.total_borrowed * MAX_APR}

Init ==
  /\ account = <<[pool |-> [total_deposits |-> 0, total_borrowed |-> 0, accrual_rate |-> 0],
                  at |-> 0]>>
  /\ shown = {}
  /\ CacheInit([amount |-> 1, of |-> 0])

\* The program writes the account.
Write(a) ==
  /\ Len(account) <= MAX_WRITES
  /\ account' = Append(account, [pool |-> a, at |-> clock])
  /\ Change([amount |-> Len(account'), of |-> clock])
  /\ UNCHANGED shown

NONE == -1

\* buildPoolState
BuildPoolState(a) ==
  [free           |-> a.total_deposits - a.total_borrowed,
   utilisationBps |-> IF a.total_deposits = 0 THEN 0
                      ELSE (a.total_borrowed * BPS) \div a.total_deposits,
   loanAprBps     |-> IF a.total_borrowed = 0 THEN NONE
                      ELSE a.accrual_rate \div a.total_borrowed,
   lenderAprBps   |-> IF a.total_deposits = 0 THEN 0
                      ELSE a.accrual_rate \div a.total_deposits]

\* The route after the await.
Answer(c) ==
  LET fetch == fetches[callers[c].fetch]
      found == fetch.state = "resolved"
  IN  /\ Settled(c)
      /\ Leave(c, IF found THEN "shown"
                  ELSE IF fetch.state = "unavailable" THEN "unavailable" ELSE "internal")
      /\ shown' = IF found
                    THEN shown \union {[state |-> BuildPoolState(account[ValueOf(fetch).amount].pool),
                                        version |-> ValueOf(fetch).amount, caller |-> c]}
                    ELSE shown
      /\ UNCHANGED account

Next ==
  \/ Tick /\ UNCHANGED <<account, shown>>
  \/ \E a \in Accounts : Write(a)
  \/ \E c \in Callers : Answer(c) \/ (Call(c) /\ UNCHANGED <<account, shown>>)
  \/ \E f \in DOMAIN fetches :
       /\ \E found \in BOOLEAN : Respond(f, found) \/ Reject(f, "unavailable")
       /\ UNCHANGED <<account, shown>>

Spec == Init /\ [][Next]_vars

-----------------------------------------------------------------------------
\* pool.ts:20: a lender is never shown more than the pool earns, nor more than the rate
\* of the loans for the part that is lent, and what is shown adds up.
NeverShownMore ==
  \A view \in shown :
    LET a == account[view.version].pool
        s == view.state
    IN  /\ s.lenderAprBps * a.total_deposits <= a.accrual_rate
        /\ s.loanAprBps # NONE => s.lenderAprBps <= s.loanAprBps
        /\ s.loanAprBps * s.utilisationBps <= (s.lenderAprBps + 1) * BPS
        /\ s.free * BPS <= (BPS - s.utilisationBps) * a.total_deposits

\* pool.ts:60: what a caller is shown was still the pool less than CACHE before it asked.
ShownIsRecent ==
  \A view \in shown :
    view.version < Len(account) =>
      account[view.version + 1].at > callers[view.caller].at - CACHE
=============================================================================
