------------------------- MODULE RewardFloatProofs -------------------------
(***************************************************************************)
(* The reward-float program for every number of lenders, operators, reward *)
(* mints and nonces, and every width of its integers.  First the accounts  *)
(* one by one: they keep their types, the vault covers what is not lent,   *)
(* loans close when and only when they owe nothing, and no attestation     *)
(* opens two loans.  Then the books: the totals the pool and the operators *)
(* keep are the sums over the accounts they stand for, what that means for *)
(* limits and the price of a share, and what sweeps take and owe.          *)
(***************************************************************************)
EXTENDS RewardFloatProperties, ProgramLemmas

-----------------------------------------------------------------------------
\* Writing one entry of a table.
LEMMA WriteEntry ==
  ASSUME NEW R, NEW C, NEW V, NEW table \in [R -> [C -> V]],
         NEW r \in R, NEW c \in C, NEW v \in V
  PROVE  [table EXCEPT ![r] = [table[r] EXCEPT ![c] = v]] \in [R -> [C -> V]]
OBVIOUS

\* A step that only writes one reward account keeps the types.
LEMMA RewardAccountTypeOK ==
  ASSUME TypeOK, NEW o \in Operators, NEW m \in RewardMints,
         NEW account \in RewardAccountType,
         rewards' = [rewards EXCEPT ![o] = [rewards[o] EXCEPT ![m] = account]],
         UNCHANGED <<now, pool, vault, shares, operators, loans, watches, market>>
  PROVE  TypeOK'
<1>1. rewards' \in [Operators -> [RewardMints -> RewardAccountType]]
  BY WriteEntry DEF TypeOK
<1>2. QED
  BY <1>1 DEF TypeOK

\* Initially every account is empty.
LEMMA InitTypeOK == Init => TypeOK
<1> SUFFICES ASSUME Init PROVE TypeOK
  OBVIOUS
<1>1. 0 \in U64 /\ 0 \in Nat
  BY ArithmeticAssumption DEF U64
<1>2. pool \in PoolType
  BY <1>1 DEF Init, NewPool, PoolType
<1>3. NewWindow \in WindowType
  BY NonceWindowAssumption DEF NewWindow, WindowType
<1>4. /\ operators \in [Operators -> AccountType]
      /\ shares \in [Lenders -> U64]
      /\ loans \in [Operators -> [Nonces -> LoanType \union {NoLoan}]]
  BY <1>1, <1>3 DEF Init, AccountType
<1>5. /\ rewards \in [Operators -> [RewardMints -> RewardAccountType]]
      /\ watches \in [Operators -> [RewardMints -> WatchType]]
      /\ market \in [RewardMints -> U64]
  BY <1>1, RewardFloatAssumption DEF Init, RewardAccountType, WatchType
<1>6. QED
  BY <1>1, <1>2, <1>4, <1>5 DEF Init, TypeOK

\* Depositing keeps the types.
LEMMA DepositTypeOK ==
  ASSUME TypeOK, NEW l \in Lenders, NEW amount \in Deposits, Deposit(l, amount)
  PROVE  TypeOK'
<1> DEFINE minted == SharesForDeposit(pool, amount, now)
<1>1. /\ pool.total_shares + minted \in U64
      /\ pool.total_deposits + amount \in U64
      /\ shares[l] + minted \in U64
      /\ vault + amount \in U64
      /\ pool' = [pool EXCEPT !.total_shares = @ + minted,
                              !.total_deposits = @ + amount]
      /\ shares' = [shares EXCEPT ![l] = @ + minted]
      /\ vault' = vault + amount
      /\ UNCHANGED <<now, operators, loans, rewards, watches, market>>
  BY DEF Deposit, Fits
<1> HIDE DEF minted
<1>2. pool' \in PoolType
  BY <1>1 DEF TypeOK, PoolType
<1>3. QED
  BY <1>1, <1>2 DEF TypeOK

\* Withdrawing keeps the types.
LEMMA WithdrawTypeOK ==
  ASSUME TypeOK, NEW l \in Lenders, NEW max_amount \in Withdrawals,
         Withdraw(l, max_amount)
  PROVE  TypeOK'
<1> DEFINE paid == WithdrawalPaid(pool, shares[l], max_amount, now)
           burned == WithdrawalShares(pool, shares[l], max_amount, now)
<1>1. /\ pool.total_shares - burned \in U64
      /\ pool.total_deposits - paid \in U64
      /\ shares[l] - burned \in U64
      /\ vault >= paid
      /\ pool' = [pool EXCEPT !.total_shares = @ - burned,
                              !.total_deposits = @ - paid]
      /\ shares' = [shares EXCEPT ![l] = @ - burned]
      /\ vault' = vault - paid
      /\ UNCHANGED <<now, operators, loans, rewards, watches, market>>
  BY DEF Withdraw, Fits
<1>2. paid \in Nat
  BY RewardFloatAssumption, ArithmeticAssumption
     DEF TypeOK, Withdraw, WithdrawalPaid, FreeLiquidity, Least, Fits, U64, PoolType
<1> HIDE DEF paid, burned
<1>3. pool' \in PoolType
  BY <1>1 DEF TypeOK, PoolType
<1>4. vault - paid \in U64
  BY <1>1, <1>2, ArithmeticAssumption DEF TypeOK, U64
<1>5. QED
  BY <1>1, <1>3, <1>4 DEF TypeOK

\* What the token program, the market and the clock do keeps the types.
LEMMA OthersTypeOK ==
  ASSUME TypeOK,
         \/ RewardStep
         \/ \E m \in RewardMints, amount \in Fundings : FundConversion(m, amount)
         \/ \E attestor \in Keys : SetAttestor(attestor)
         \/ Tick
  PROVE  TypeOK'
<1>0. ASSUME NEW o \in Operators, NEW m \in RewardMints
      PROVE  rewards[o][m] \in RewardAccountType
  BY DEF TypeOK
<1>1. ASSUME NEW o \in Operators, NEW m \in RewardMints, NEW amount \in Payouts,
             ReceivePayout(o, m, amount)
      PROVE  TypeOK'
  <2> DEFINE account == [rewards[o][m] EXCEPT !.balance = @ + amount]
  <2>1. account \in RewardAccountType
    BY <1>0, <1>1 DEF ReceivePayout, Fits, RewardAccountType
  <2>2. rewards' = [rewards EXCEPT ![o] = [rewards[o] EXCEPT ![m] = account]]
    BY <1>1 DEF ReceivePayout
  <2> HIDE DEF account
  <2>3. QED
    BY <1>1, <2>1, <2>2, RewardAccountTypeOK DEF ReceivePayout
<1>2. ASSUME NEW o \in Operators, NEW m \in RewardMints, NEW amount \in MoveOuts,
             MoveOut(o, m, amount)
      PROVE  TypeOK'
  <2> DEFINE account == [rewards[o][m] EXCEPT !.balance = @ - amount]
  <2>1. rewards[o][m].balance - amount \in U64
    BY <1>0, <1>2, RewardFloatAssumption, ArithmeticAssumption
       DEF MoveOut, RewardAccountType, U64
  <2>2. account \in RewardAccountType
    BY <1>0, <2>1 DEF RewardAccountType
  <2>3. rewards' = [rewards EXCEPT ![o] = [rewards[o] EXCEPT ![m] = account]]
    BY <1>2 DEF MoveOut
  <2> HIDE DEF account
  <2>4. QED
    BY <1>2, <2>2, <2>3, RewardAccountTypeOK DEF MoveOut
<1>3. ASSUME NEW o \in Operators, NEW m \in RewardMints, NEW amount \in Allowances,
             Approve(o, m, amount)
      PROVE  TypeOK'
  <2> DEFINE account == [rewards[o][m] EXCEPT !.ours = TRUE, !.allowance = amount]
  <2>1. account \in RewardAccountType
    BY <1>0, RewardFloatAssumption DEF RewardAccountType
  <2>2. rewards' = [rewards EXCEPT ![o] = [rewards[o] EXCEPT ![m] = account]]
    BY <1>3 DEF Approve, TypeOK
  <2> HIDE DEF account
  <2>3. QED
    BY <1>3, <2>1, <2>2, RewardAccountTypeOK DEF Approve
<1>4. ASSUME NEW o \in Operators, NEW m \in RewardMints, Revoke(o, m)
      PROVE  TypeOK'
  <2> DEFINE account == [rewards[o][m] EXCEPT !.ours = FALSE, !.allowance = 0]
  <2>1. 0 \in U64
    BY ArithmeticAssumption DEF U64
  <2>2. account \in RewardAccountType
    BY <1>0, <2>1 DEF RewardAccountType
  <2>3. rewards' = [rewards EXCEPT ![o] = [rewards[o] EXCEPT ![m] = account]]
    BY <1>4 DEF Revoke, TypeOK
  <2> HIDE DEF account
  <2>4. QED
    BY <1>4, <2>2, <2>3, RewardAccountTypeOK DEF Revoke
<1>5. ASSUME NEW m \in RewardMints, NEW amount \in Fundings,
             FundConversion(m, amount)
      PROVE  TypeOK'
  BY <1>5 DEF TypeOK, FundConversion, Fits
<1>6. ASSUME NEW attestor \in Keys, SetAttestor(attestor) PROVE TypeOK'
  BY <1>6 DEF TypeOK, SetAttestor, PoolType
<1>7. ASSUME Tick PROVE TypeOK'
  BY <1>7 DEF TypeOK, Tick
<1>8. QED
  BY <1>1, <1>2, <1>3, <1>4, <1>5, <1>6, <1>7 DEF RewardStep

-----------------------------------------------------------------------------
\* The loans of an operator that are open are loan accounts.
LEMMA OpenLoanType ==
  ASSUME TypeOK, NEW o \in Operators, NEW n \in OpenLoans(o)
  PROVE  n \in Nonces /\ loans[o][n] # NoLoan /\ loans[o][n] \in LoanType
         /\ IsOpen(loans[o][n])
BY DEF TypeOK, OpenLoans

\* settle, on the loan: what is paid is within what is owed, and a sound loan
\* stays sound.
LEMMA SettlementFacts ==
  ASSUME now \in Nat, NEW loan \in LoanType, IsOpen(loan), Sound(loan),
         NEW max_amount \in Nat, Fits(TotalOwed(Accrue(loan, now)))
  PROVE  LET s == Settlement(loan, max_amount)
         IN  /\ s.loan \in LoanType
             /\ Sound(s.loan)
             /\ s.paid \in U64
             /\ s.interest \in Nat
             /\ max_amount <= TotalOwed(Accrue(loan, now)) => s.paid = max_amount
<1> DEFINE a == Accrue(loan, now)
<1>1. a \in LoanType /\ IsOpen(a) /\ Sound(a)
  BY AccrueFacts DEF IsOpen, Sound
<1>2. /\ InterestPart(a, max_amount) \in Nat
      /\ Least(max_amount, TotalOwed(a)) \in U64
      /\ ApplyRepayment(a, max_amount) \in LoanType
      /\ Sound(ApplyRepayment(a, max_amount))
  BY <1>1, RepaymentFacts
<1>3. max_amount <= TotalOwed(a) => Least(max_amount, TotalOwed(a)) = max_amount
  BY DEF Least
<1> HIDE DEF a
<1>4. QED
  BY <1>2, <1>3 DEF Settlement, a

\* The books of pool and vault move together when loans are settled.
LEMMA SettledSolvent ==
  ASSUME TypeOK, Solvent, NEW s, s.paid \in U64, s.interest \in Nat,
         PoolSettled(pool, s) \in PoolType,
         pool' = PoolSettled(pool, s), vault' = vault + s.paid
  PROVE  Solvent'
<1>1. /\ pool'.total_borrowed = pool.total_borrowed - (s.paid - s.interest)
      /\ pool'.total_deposits = pool.total_deposits + s.interest
  BY DEF PoolSettled, Retrack, TypeOK, PoolType
<1>2. /\ pool.total_borrowed \in Nat /\ pool.total_deposits \in Nat
      /\ vault \in Nat /\ s.paid \in Nat
  BY ArithmeticAssumption DEF TypeOK, PoolType, U64
<1>3. QED
  BY <1>1, <1>2 DEF Solvent

\* Every account of every operator: types, sound loans, spent nonces refused.
Inv == TypeOK /\ Solvent /\ OpenLoansOwe /\ SpentNonceRefused

\* OpenLoansOwe says that every loan account is sound.
LEMMA AllSound ==
  OpenLoansOwe <=>
    \A o \in Operators, n \in Nonces : loans[o][n] # NoLoan => Sound(loans[o][n])
BY DEF OpenLoansOwe, Sound

\* Initially there are no loans and nothing is held.
LEMMA InitInv == Init => Inv
<1> SUFFICES ASSUME Init PROVE Inv
  OBVIOUS
<1>1. Solvent
  BY DEF Init, NewPool, Solvent
<1>2. OpenLoansOwe /\ SpentNonceRefused
  BY DEF Init, OpenLoansOwe, SpentNonceRefused
<1>3. QED
  BY <1>1, <1>2, InitTypeOK DEF Inv

\* Steps that touch no loan and no operator account leave the last two parts be.
LEMMA LoansUntouched ==
  ASSUME Inv, UNCHANGED <<operators, loans>>
  PROVE  OpenLoansOwe' /\ SpentNonceRefused'
BY DEF Inv, OpenLoansOwe, SpentNonceRefused, IsOpen

\* Lenders' steps keep the invariant: a withdrawal is bounded by free_liquidity.
LEMMA LenderInv == Inv /\ LenderStep => Inv'
<1>1. ASSUME Inv, NEW l \in Lenders, NEW amount \in Deposits, Deposit(l, amount)
      PROVE  Inv'
  <2>1. /\ pool'.total_deposits = pool.total_deposits + amount
        /\ pool'.total_borrowed = pool.total_borrowed
        /\ vault' = vault + amount
    BY <1>1 DEF Deposit, Inv, TypeOK, PoolType
  <2>2. amount \in Nat /\ pool.total_deposits \in Nat /\ pool.total_borrowed \in Nat
    BY <1>1, RewardFloatAssumption, ArithmeticAssumption
       DEF Inv, TypeOK, PoolType, U64
  <2>3. Solvent'
    BY <1>1, <2>1, <2>2 DEF Inv, Solvent
  <2>4. QED
    BY <1>1, <2>3, DepositTypeOK, LoansUntouched DEF Inv, Deposit
<1>2. ASSUME Inv, NEW l \in Lenders, NEW max_amount \in Withdrawals,
             Withdraw(l, max_amount)
      PROVE  Inv'
  <2> DEFINE paid == WithdrawalPaid(pool, shares[l], max_amount, now)
  <2>1. /\ pool'.total_deposits = pool.total_deposits - paid
        /\ pool'.total_borrowed = pool.total_borrowed
        /\ vault' = vault - paid
    BY <1>2 DEF Withdraw, Inv, TypeOK, PoolType
  <2>2. pool.total_deposits \in Nat /\ pool.total_borrowed \in Nat
    BY <1>2, ArithmeticAssumption DEF Inv, TypeOK, PoolType, U64
  <2>3. paid \in Nat /\ paid <= pool.total_deposits - pool.total_borrowed
    BY <1>2, <2>2, RewardFloatAssumption, ArithmeticAssumption
       DEF Withdraw, WithdrawalPaid, FreeLiquidity, Least, Fits, U64
  <2> HIDE DEF paid
  <2>4. Solvent'
    BY <1>2, <2>1, <2>2, <2>3 DEF Inv, Solvent
  <2>5. QED
    BY <1>2, <2>4, WithdrawTypeOK, LoansUntouched DEF Inv, Withdraw
<1>3. QED
  BY <1>1, <1>2 DEF LenderStep

\* Writing one loan and its operator's books keeps what is said of loans.
LEMMA RepayInv ==
  ASSUME Inv, NEW o \in Operators, NEW n \in Nonces, NEW amount \in Repayments,
         Repay(o, n, amount)
  PROVE  Inv'
<1> DEFINE loan == loans[o][n]
           s == Settlement(loan, amount)
<1>1. /\ n \in OpenLoans(o) /\ Fits(TotalOwed(Accrue(loan, now)))
      /\ Settles(pool, operators[o], s)
      /\ Fits(vault + s.paid)
      /\ pool' = PoolSettled(pool, s)
      /\ operators' = [operators EXCEPT ![o] = AccountSettled(operators[o], s)]
      /\ loans' = [loans EXCEPT ![o] = [loans[o] EXCEPT ![n] = s.loan]]
      /\ vault' = vault + s.paid
      /\ UNCHANGED <<now, shares, rewards, watches, market>>
  BY DEF Repay
<1>2. /\ loan \in LoanType /\ loan # NoLoan /\ IsOpen(loan) /\ Sound(loan)
      /\ now \in Nat /\ amount \in Nat
  BY <1>1, OpenLoanType, AllSound, RewardFloatAssumption, ArithmeticAssumption
     DEF Inv, TypeOK, U64
<1>3. s.loan \in LoanType /\ Sound(s.loan) /\ s.paid \in U64 /\ s.interest \in Nat
  BY <1>1, <1>2, SettlementFacts
<1>4. /\ PoolSettled(pool, s) \in PoolType
      /\ AccountSettled(operators[o], s) \in AccountType
      /\ AccountSettled(operators[o], s).window = operators[o].window
  BY <1>1 DEF Settles, AccountSettled, Inv, TypeOK, AccountType
<1> HIDE DEF s, loan
<1>5. loans' \in [Operators -> [Nonces -> LoanType \union {NoLoan}]]
  BY <1>1, <1>3, WriteEntry DEF Inv, TypeOK
<1>6. operators' \in [Operators -> AccountType]
  BY <1>1, <1>4 DEF Inv, TypeOK
<1>7. TypeOK'
  BY <1>1, <1>4, <1>5, <1>6 DEF Inv, TypeOK, Fits
<1>8. Solvent'
  BY <1>1, <1>3, <1>4, SettledSolvent DEF Inv
<1>9. \A p \in Operators, k \in Nonces :
        loans'[p][k] = IF p = o /\ k = n THEN s.loan ELSE loans[p][k]
  BY <1>1 DEF Inv, TypeOK
<1>10. OpenLoansOwe'
  <2>1. \A p \in Operators, k \in Nonces :
          loans'[p][k] # NoLoan => Sound(loans'[p][k])
    BY <1>3, <1>9, AllSound DEF Inv
  <2>2. QED
    BY <2>1 DEF OpenLoansOwe, Sound
<1>11. SpentNonceRefused'
  <2>1. \A p \in Operators : operators'[p].window = operators[p].window
    BY <1>1, <1>4 DEF Inv, TypeOK
  <2>2. \A p \in Operators, k \in Nonces :
          loans'[p][k] # NoLoan => loans[p][k] # NoLoan
    BY <1>2, <1>9 DEF loan
  <2>3. QED
    BY <2>1, <2>2 DEF Inv, SpentNonceRefused
<1>12. QED
  BY <1>7, <1>8, <1>10, <1>11 DEF Inv
-----------------------------------------------------------------------------
\* The rate a loan is quoted is a u16 that the rate curve allows.
LEMMA QuoteType ==
  ASSUME NEW p \in PoolType, NEW amount \in Nat, amount > 0,
         amount <= FreeLiquidity(p)
  PROVE  QuoteAprBps(p, amount) \in Nat
<1>1. /\ p.total_borrowed \in Nat /\ p.total_deposits \in Nat \ {0}
      /\ SLOPE_APR_BPS \in Nat /\ BASE_APR_BPS \in Nat
  BY ArithmeticAssumption, PoolAssumption DEF PoolType, FreeLiquidity, U64
<1>2. SLOPE_APR_BPS * (p.total_borrowed + amount) \in Nat
  BY <1>1
<1>3. SLOPE_APR_BPS * (p.total_borrowed + amount) + p.total_deposits - 1 \in Nat
  BY SMTT(40), <1>1, <1>2
<1>4. DivCeil(SLOPE_APR_BPS * (p.total_borrowed + amount), p.total_deposits) \in Nat
  BY <1>1, <1>3, DivMod DEF DivCeil
<1>5. QED
  BY <1>1, <1>4 DEF QuoteAprBps

\* Borrowing keeps the invariant: the new loan is sound, its nonce is refused from
\* now on, and the vault pays out what the books say was lent.
LEMMA BorrowInv ==
  ASSUME Inv, NEW o \in Operators, NEW m \in RewardMints, NEW amount \in Loans,
         NEW term \in 1..MAX_TERM_PERIODS, NEW share \in SweepShares,
         NEW apr \in MaxAprs, NEW limit \in LimitAttestations,
         NEW rate \in RateAttestations,
         Borrow(o, m, amount, term, share, apr, limit, rate)
  PROVE  Inv'
<1> DEFINE nonce     == limit.nonce
           account   == operators[o]
           debt      == account.total_debt + InterestBooked(o) + amount
           accrued   == PoolAccrued(o)
           loan      == NewLoan(m, amount, term, share, QuoteAprBps(accrued, amount))
           lent      == [Retrack(accrued, NoTerms, AccrualTerms(loan)) EXCEPT
                           !.total_borrowed = @ + amount]
           ceiling   == RewardCeiling(o, m) + DebtCeiling(loan, now)
           allowance == (ceiling * RATE_UNIT) \div rate.stable_per_trillion_reward
           row       == [n \in Nonces |->
                           IF n = nonce THEN loan
                           ELSE IF n \in OpenLoans(o) THEN AccruedLoans(o)[n]
                           ELSE loans[o][n]]
           written   == [ total_debt |-> debt,
                          open_loans |-> account.open_loans + 1,
                          window     |-> ConsumeNonce(account.window, nonce) ]
<1>1. /\ amount > 0 /\ share \in 1..BPS
      /\ AcceptsNonce(account.window, nonce)
      /\ \A n \in OpenLoans(o) : AccruedLoans(o)[n] \in LoanType
      /\ Fits(debt)
      /\ accrued \in PoolType
      /\ amount <= FreeLiquidity(accrued)
      /\ QuoteAprBps(accrued, amount) <= APR_MAX
      /\ lent \in PoolType
      /\ Fits(allowance)
      /\ vault >= amount
  BY DEF Borrow
<1>2. /\ pool' = lent
      /\ operators' = [operators EXCEPT ![o] = written]
      /\ loans' = [loans EXCEPT ![o] = row]
      /\ vault' = vault - amount
      /\ UNCHANGED <<now, shares, market>>
  BY DEF Borrow
<1>3. watches' = watches
      \/ watches' = [watches EXCEPT ![o] = [watches[o] EXCEPT ![m] =
                       [started |-> TRUE, balance |-> rewards[o][m].balance]]]
  BY DEF Borrow
<1>4. rewards' = [rewards EXCEPT ![o] = [rewards[o] EXCEPT ![m] =
                    [rewards[o][m] EXCEPT !.ours = TRUE, !.allowance = allowance]]]
  BY DEF Borrow, Inv, TypeOK
<1>5. /\ nonce \in Nonces /\ nonce \in Nat
      /\ amount \in U64 /\ amount \in Nat
      /\ now \in Nat /\ account \in AccountType /\ account.window \in WindowType
  <2>1. nonce \in Nonces /\ nonce \in Nat /\ amount \in U64
    BY RewardFloatAssumption
  <2>2. amount \in Nat
    BY <2>1, ArithmeticAssumption DEF U64
  <2>3. now \in Nat /\ account \in AccountType /\ account.window \in WindowType
    BY DEF Inv, TypeOK, AccountType
  <2>4. QED
    BY <2>1, <2>2, <2>3
<1>6. loan \in LoanType /\ IsOpen(loan) /\ Sound(loan) /\ loan # NoLoan
  <2>1. QuoteAprBps(accrued, amount) \in 0..APR_MAX
    BY <1>1, <1>5, QuoteType, LoanAssumption
  <2>2. now + term * REPAYMENT_PERIOD \in Nat
    BY <1>5, LoanAssumption, RewardFloatAssumption
  <2>3. 0 \in U64 /\ 0 \in 0..(ACCRUAL_DENOMINATOR - 1)
    BY ArithmeticAssumption, LoanAssumption DEF U64
  <2> HIDE DEF accrued
  <2>4. loan \in LoanType
    BY <1>1, <1>5, <2>1, <2>2, <2>3
       DEF NewLoan, LoanType, LoanStatuses, ManualReasons, NoReason
  <2>5. QED
    BY <1>1, <1>5, <2>4, RewardFloatAssumption DEF NewLoan, IsOpen, Sound
<1>7. \A n \in OpenLoans(o) :
        /\ AccruedLoans(o)[n] \in LoanType
        /\ Sound(AccruedLoans(o)[n])
        /\ loans[o][n] # NoLoan
  <2> SUFFICES ASSUME NEW n \in OpenLoans(o)
               PROVE  Sound(AccruedLoans(o)[n]) /\ loans[o][n] # NoLoan
    BY <1>1
  <2>1. /\ n \in Nonces /\ loans[o][n] # NoLoan
        /\ loans[o][n] \in LoanType /\ IsOpen(loans[o][n])
    BY OpenLoanType DEF Inv
  <2>2. Sound(loans[o][n])
    BY <2>1, AllSound DEF Inv
  <2>3. AccruedLoans(o)[n] = Accrue(loans[o][n], now)
    BY DEF AccruedLoans
  <2>4. QED
    BY <1>5, <2>1, <2>2, <2>3, AccrueFacts DEF Sound, IsOpen
<1>8. /\ lent.total_borrowed = pool.total_borrowed + amount
      /\ lent.total_deposits = pool.total_deposits
      /\ FreeLiquidity(accrued) = pool.total_deposits - pool.total_borrowed
  <2>1. /\ accrued.total_borrowed = pool.total_borrowed
        /\ accrued.total_deposits = pool.total_deposits
    BY DEF PoolAccrued, Retrack, Inv, TypeOK, PoolType
  <2> HIDE DEF accrued
  <2>2. QED
    BY <1>1, <2>1 DEF Retrack, PoolType, FreeLiquidity
<1>9. written \in AccountType /\ written.window = ConsumeNonce(account.window, nonce)
  <2>1. ConsumeNonce(account.window, nonce) \in WindowType
    BY <1>1, <1>5, ConsumeNonceType
  <2>2. account.open_loans + 1 \in Nat
    BY <1>5 DEF AccountType
  <2> HIDE DEF debt
  <2>3. QED
    BY <1>1, <2>1, <2>2 DEF AccountType, Fits
<1> HIDE DEF loan, lent, accrued, debt, ceiling, allowance, written
<1>10. row \in [Nonces -> LoanType \union {NoLoan}]
  BY <1>6, <1>7 DEF Inv, TypeOK
<1>11. TypeOK'
  <2>1. loans' \in [Operators -> [Nonces -> LoanType \union {NoLoan}]]
    BY <1>2, <1>10 DEF Inv, TypeOK
  <2>2. watches' \in [Operators -> [RewardMints -> WatchType]]
    <3>1. [started |-> TRUE, balance |-> rewards[o][m].balance] \in WatchType
      BY DEF Inv, TypeOK, RewardAccountType, WatchType
    <3> DEFINE watch == [started |-> TRUE, balance |-> rewards[o][m].balance]
    <3>2. watches \in [Operators -> [RewardMints -> WatchType]]
      BY DEF Inv, TypeOK
    <3>3. [watches EXCEPT ![o] = [watches[o] EXCEPT ![m] = watch]]
            \in [Operators -> [RewardMints -> WatchType]]
      <4> HIDE DEF watch
      <4>1. watch \in WatchType
        BY <3>1 DEF watch
      <4>2. QED
        BY <3>2, <4>1, WriteEntry
    <3>4. QED
      BY <1>3, <3>2, <3>3
  <2>3. rewards' \in [Operators -> [RewardMints -> RewardAccountType]]
    <3>1. [rewards[o][m] EXCEPT !.ours = TRUE, !.allowance = allowance]
            \in RewardAccountType
      <4>1. rewards[o][m] \in RewardAccountType /\ allowance \in U64
        BY <1>1 DEF Inv, TypeOK, Fits
      <4>2. QED
        BY <4>1 DEF RewardAccountType
    <3>2. QED
      BY <1>4, <3>1, WriteEntry DEF Inv, TypeOK
  <2>4. vault' \in U64
    BY <1>1, <1>2, <1>5, ArithmeticAssumption DEF Inv, TypeOK, U64
  <2>5. QED
    BY <1>1, <1>2, <1>9, <2>1, <2>2, <2>3, <2>4 DEF Inv, TypeOK
<1>12. Solvent'
  <2>1. pool.total_borrowed \in Nat /\ pool.total_deposits \in Nat
    BY ArithmeticAssumption DEF Inv, TypeOK, PoolType, U64
  <2>2. QED
    BY <1>1, <1>2, <1>5, <1>8, <2>1 DEF Inv, Solvent
<1>13. \A p \in Operators, k \in Nonces :
         loans'[p][k] = IF p = o THEN row[k] ELSE loans[p][k]
  BY <1>2 DEF Inv, TypeOK
<1>14. OpenLoansOwe'
  <2>1. \A p \in Operators, k \in Nonces :
          loans'[p][k] # NoLoan => Sound(loans'[p][k])
    BY <1>6, <1>7, <1>13, AllSound DEF Inv
  <2>2. QED
    BY <2>1 DEF OpenLoansOwe, Sound
<1>15. SpentNonceRefused'
  <2>1. ASSUME NEW p \in Operators, NEW k \in Nonces, loans'[p][k] # NoLoan
        PROVE  ~AcceptsNonce(operators'[p].window, k)
    <3>1. CASE p = o
      <4>1. k = nonce \/ loans[o][k] # NoLoan
        BY <1>7, <1>13, <2>1, <3>1
      <4>2. k = nonce \/ ~AcceptsNonce(account.window, k)
        BY <4>1 DEF Inv, SpentNonceRefused
      <4>3. operators'[p].window = ConsumeNonce(account.window, nonce)
        BY <1>2, <1>9, <3>1 DEF Inv, TypeOK
      <4>4. k \in Nat
        BY RewardFloatAssumption
      <4>5. QED
        BY <1>1, <1>5, <4>2, <4>3, <4>4, RefusedForGood
    <3>2. CASE p # o
      <4>1. operators'[p] = operators[p] /\ loans[p][k] # NoLoan
        BY <1>2, <1>13, <2>1, <3>2 DEF Inv, TypeOK
      <4>2. QED
        BY <4>1 DEF Inv, SpentNonceRefused
    <3>3. QED
      BY <3>1, <3>2
  <2>2. QED
    BY <2>1 DEF SpentNonceRefused
<1>16. QED
  BY <1>11, <1>12, <1>14, <1>15 DEF Inv
-----------------------------------------------------------------------------
(***************************************************************************)
(* Sweeping.  What a plan does to a loan before it is settled changes none *)
(* of the fields its debt depends on.                                      *)
(***************************************************************************)
SameDebt(a, b) ==
  /\ a.outstanding = b.outstanding
  /\ a.accrued_interest = b.accrued_interest
  /\ a.interest_remainder = b.interest_remainder
  /\ a.last_accrual_at = b.last_accrual_at
  /\ a.apr_bps = b.apr_bps
  /\ a.status = b.status

\* Loans that agree on those fields owe the same.
LEMMA SameDebtOwes ==
  ASSUME now \in Nat, NEW a \in LoanType, NEW b \in LoanType, SameDebt(a, b)
  PROVE  TotalOwed(Accrue(a, now)) = TotalOwed(Accrue(b, now))
<1>1. InterestTo(a, now) = InterestTo(b, now)
  BY DEF SameDebt, InterestTo, AccrualNumerator
<1>2. QED
  BY <1>1, AccrueFacts DEF SameDebt, TotalOwed

\* Flagging a loan, or not, keeps the account and its debt.
LEMMA FlagFacts ==
  ASSUME NEW loan \in LoanType, NEW reason \in ManualReasons
  PROVE  /\ FlagManualRepayment(loan, reason) \in LoanType
         /\ SameDebt(FlagManualRepayment(loan, reason), loan)
         /\ IsOpen(loan) /\ Sound(loan) => Sound(FlagManualRepayment(loan, reason))
<1>1. CASE loan.manual_repayment = NoReason
  <2> DEFINE flagged == [loan EXCEPT !.manual_repayment = reason]
  <2>1. flagged \in LoanType /\ SameDebt(flagged, loan)
    BY DEF LoanType, SameDebt
  <2>2. FlagManualRepayment(loan, reason) = flagged
    BY <1>1 DEF FlagManualRepayment
  <2> HIDE DEF flagged
  <2>3. QED
    BY <2>1, <2>2 DEF Sound, IsOpen, SameDebt
<1>2. CASE loan.manual_repayment # NoReason
  BY <1>2 DEF FlagManualRepayment, SameDebt
<1>3. QED
  BY <1>1, <1>2

\* The plan leaves a due on the loan and may flag it.
LEMMA PlannedFacts ==
  ASSUME NEW loan \in LoanType, IsOpen(loan), Sound(loan),
         NEW part \in PartType, NEW reason \in ManualReasons
  PROVE  /\ Planned(loan, part, reason) \in LoanType
         /\ SameDebt(Planned(loan, part, reason), loan)
         /\ IsOpen(Planned(loan, part, reason))
         /\ Sound(Planned(loan, part, reason))
         /\ Planned(loan, part, reason).reward_due = part.left
<1> DEFINE due == [loan EXCEPT !.reward_due = part.left]
<1>1. due \in LoanType /\ SameDebt(due, loan) /\ due.reward_due = part.left
  BY DEF LoanType, SameDebt, PartType
<1>2. IsOpen(due) /\ Sound(due)
  BY <1>1 DEF IsOpen, Sound, SameDebt
<1>3. Planned(loan, part, reason) = due
      \/ Planned(loan, part, reason) = FlagManualRepayment(due, reason)
  BY DEF Planned
<1> HIDE DEF due
<1>4. FlagManualRepayment(due, reason).reward_due = part.left
  BY <1>1 DEF FlagManualRepayment, LoanType
<1>5. QED
  BY <1>1, <1>2, <1>3, <1>4, FlagFacts DEF SameDebt, IsOpen

\* Lifting the flag keeps the account and its debt.
LEMMA ClearedFacts ==
  ASSUME NEW loan \in LoanType, IsOpen(loan), Sound(loan), NEW part
  PROVE  /\ Cleared(loan, part) \in LoanType
         /\ SameDebt(Cleared(loan, part), loan)
         /\ IsOpen(Cleared(loan, part))
         /\ Sound(Cleared(loan, part))
<1> DEFINE clear == [loan EXCEPT !.manual_repayment = NoReason]
<1>1. clear \in LoanType /\ SameDebt(clear, loan)
  BY DEF LoanType, SameDebt
<1>2. IsOpen(clear) /\ Sound(clear)
  BY <1>1 DEF IsOpen, Sound, SameDebt
<1>3. Cleared(loan, part) = loan \/ Cleared(loan, part) = clear
  BY DEF Cleared
<1> HIDE DEF clear
<1>4. QED
  BY <1>1, <1>2, <1>3 DEF SameDebt

\* The reason a sweep gives is one of the three.
LEMMA ShortfallType == \A o, m : Shortfall(o, m) \in ManualReasons
BY DEF Shortfall, ManualReasons

\* What the plan of a sweep says of one loan.
LEMMA PlanFacts ==
  ASSUME NEW o, NEW m, NEW r, NEW n \in OpenLoansOn(o, m),
         Fits(Debt(o, n)), SweepPlan(o, m, r)[n] \in PartType
  PROVE  LET part == SweepPlan(o, m, r)[n]
         IN  /\ part.pays \in Nat
             /\ part.pays <= Debt(o, n)
             /\ part.left + part.withheld \in U64
<1> DEFINE part == SweepPlan(o, m, r)[n]
<1>1. PICK take, owed :
        part = [ owed     |-> owed,
                 take     |-> take,
                 pays     |-> Credited(take, r, Debt(o, n)),
                 withheld |-> IF Credited(take, r, Debt(o, n)) = 0 THEN 0 ELSE take,
                 left     |-> owed - take ]
  BY DEF SweepPlan
<1>2. /\ part.pays = Credited(take, r, Debt(o, n))
      /\ part.pays \in U64 /\ part.owed \in U64 /\ part.take \in U64
      /\ part.left = part.owed - part.take /\ part.left \in U64
      /\ part.withheld = 0 \/ part.withheld = part.take
  BY <1>1 DEF PartType
<1> HIDE DEF part
<1>3. part.pays \in Nat /\ part.left + part.withheld \in U64
  BY <1>2, ArithmeticAssumption DEF U64
<1>4. part.pays <= Debt(o, n)
  BY <1>2, <1>3, ArithmeticAssumption DEF Credited, Least, Fits, U64
<1>5. QED
  BY <1>3, <1>4 DEF part

\* A loan swept without converting, and one swept with it, is a sound account.
LEMMA HandledFacts ==
  ASSUME Inv, NEW o \in Operators, NEW m \in RewardMints, NEW r,
         NEW n \in OpenLoansOn(o, m), Fits(Debt(o, n)),
         SweepPlan(o, m, r)[n] \in PartType, NEW spent
  PROVE  LET part    == SweepPlan(o, m, r)[n]
             planned == Planned(loans[o][n], part, Shortfall(o, m))
             settled == Settlement(Cleared(planned, part), part.pays)
         IN  /\ Skipped(planned, part) \in LoanType
             /\ Sound(Skipped(planned, part))
             /\ Swept(planned, part, spent) \in LoanType
             /\ Sound(Swept(planned, part, spent))
             /\ settled.paid = part.pays
<1> DEFINE part    == SweepPlan(o, m, r)[n]
           planned == Planned(loans[o][n], part, Shortfall(o, m))
           cleared == Cleared(planned, part)
           settled == Settlement(cleared, part.pays)
<1>1. /\ n \in OpenLoans(o) /\ n \in Nonces /\ loans[o][n] # NoLoan
      /\ loans[o][n] \in LoanType /\ IsOpen(loans[o][n]) /\ now \in Nat
  BY OpenLoanType DEF OpenLoansOn, Inv, TypeOK
<1>2. Sound(loans[o][n])
  BY <1>1, AllSound DEF Inv
<1>3. /\ part \in PartType /\ part.pays \in Nat /\ part.pays <= Debt(o, n)
      /\ part.left + part.withheld \in U64
  BY PlanFacts
<1> HIDE DEF part
<1>4. /\ planned \in LoanType /\ SameDebt(planned, loans[o][n])
      /\ IsOpen(planned) /\ Sound(planned) /\ planned.reward_due = part.left
  BY <1>1, <1>2, <1>3, PlannedFacts, ShortfallType
<1> HIDE DEF planned
<1>5. /\ cleared \in LoanType /\ SameDebt(cleared, planned)
      /\ IsOpen(cleared) /\ Sound(cleared)
  BY <1>4, ClearedFacts
<1> HIDE DEF cleared
<1>6. TotalOwed(Accrue(cleared, now)) = Debt(o, n)
  BY <1>1, <1>4, <1>5, SameDebtOwes DEF Debt
<1>7. settled.loan \in LoanType /\ Sound(settled.loan) /\ settled.paid = part.pays
  BY <1>1, <1>3, <1>5, <1>6, SettlementFacts
<1>8. Skipped(planned, part) \in LoanType /\ Sound(Skipped(planned, part))
  BY <1>3, <1>4 DEF Skipped, LoanType, Sound, IsOpen
<1>9. Swept(planned, part, spent) \in LoanType /\ Sound(Swept(planned, part, spent))
  <2> DEFINE after == IF part.pays = 0 THEN planned ELSE settled.loan
  <2>1. after \in LoanType /\ Sound(after)
    BY <1>4, <1>7
  <2>2. \/ Swept(planned, part, spent) = after
        \/ /\ IsOpen(after)
           /\ Swept(planned, part, spent)
                = FlagManualRepayment(after, "AllowanceShort")
    BY DEF Swept, cleared
  <2>3. "AllowanceShort" \in ManualReasons
    BY DEF ManualReasons
  <2> HIDE DEF after
  <2>4. QED
    BY <2>1, <2>2, <2>3, FlagFacts
<1>10. QED
  BY <1>7, <1>8, <1>9 DEF part, planned, cleared, settled

\* The stablecoin a sweep moves is what its settlements add up to.
LEMMA SettlementsPaid ==
  ASSUME Inv, NEW o \in Operators, NEW m \in RewardMints, NEW r,
         \A n \in OpenLoansOn(o, m) : Fits(Debt(o, n)),
         PlanFits(SweepPlan(o, m, r))
  PROVE  SumSettlements(SweepSettlements(o, m, SweepPlan(o, m, r))).paid
           = TotalPaid(SweepPlan(o, m, r))
<1> DEFINE plan    == SweepPlan(o, m, r)
           settled == SweepSettlements(o, m, plan)
<1>1. DOMAIN plan = OpenLoansOn(o, m)
  BY DEF SweepPlan
<1>2. DOMAIN settled = PaidLoans(plan)
  BY DEF SweepSettlements
<1>3. ASSUME NEW n \in PaidLoans(plan) PROVE settled[n].paid = plan[n].pays
  <2>1. n \in OpenLoansOn(o, m) /\ plan[n] \in PartType
    BY <1>1 DEF PaidLoans, PlanFits
  <2>2. settled[n] = Settlement(Cleared(Planned(loans[o][n], plan[n],
                                                Shortfall(o, m)), plan[n]),
                                plan[n].pays)
    BY DEF SweepSettlements
  <2>3. QED
    BY <2>1, <2>2, HandledFacts
<1>4. [i \in DOMAIN settled |-> settled[i].paid]
        = [n \in PaidLoans(plan) |-> plan[n].pays]
  <2> HIDE DEF settled, plan
  <2>1. QED
    BY <1>2, <1>3
<1>5. SumSettlements(settled).paid
        = SumFunction([i \in DOMAIN settled |-> settled[i].paid])
  <2> HIDE DEF settled, plan
  <2>1. QED
    BY DEF SumSettlements
<1>6. QED
  BY <1>4, <1>5 DEF TotalPaid

\* Writing the loans of a sweep back keeps what is said of loans.
LEMMA SweepWritesInv ==
  ASSUME Inv, NEW o \in Operators, NEW m \in RewardMints, NEW handled, NEW watched,
         \A n \in OpenLoansOn(o, m) : handled[n] \in LoanType /\ Sound(handled[n]),
         watched \in U64, SweepWrites(o, m, handled, watched),
         \A p \in Operators : operators'[p].window = operators[p].window
  PROVE  /\ loans' \in [Operators -> [Nonces -> LoanType \union {NoLoan}]]
         /\ watches' \in [Operators -> [RewardMints -> WatchType]]
         /\ OpenLoansOwe' /\ SpentNonceRefused'
<1> DEFINE row == [n \in Nonces |-> IF n \in OpenLoansOn(o, m) THEN handled[n]
                                    ELSE loans[o][n]]
           watch == [watches[o][m] EXCEPT !.balance = watched]
<1>1. loans' = [loans EXCEPT ![o] = row]
  BY DEF SweepWrites
<1>2. watches' = [watches EXCEPT ![o] = [watches[o] EXCEPT ![m] = watch]]
  BY DEF SweepWrites
<1>3. loans' \in [Operators -> [Nonces -> LoanType \union {NoLoan}]]
  <2>1. row \in [Nonces -> LoanType \union {NoLoan}]
    BY DEF Inv, TypeOK
  <2> HIDE DEF row
  <2>2. QED
    BY <1>1, <2>1 DEF Inv, TypeOK
<1>4. watches' \in [Operators -> [RewardMints -> WatchType]]
  <2>1. watch \in WatchType
    BY DEF Inv, TypeOK, WatchType
  <2> HIDE DEF watch
  <2>2. QED
    BY <1>2, <2>1, WriteEntry DEF Inv, TypeOK
<1>5. \A p \in Operators, k \in Nonces :
        loans'[p][k] = IF p = o THEN row[k] ELSE loans[p][k]
  BY <1>1 DEF Inv, TypeOK
<1>6. OpenLoansOwe'
  <2>1. \A p \in Operators, k \in Nonces :
          loans'[p][k] # NoLoan => Sound(loans'[p][k])
    BY <1>5, AllSound DEF Inv
  <2>2. QED
    BY <2>1 DEF OpenLoansOwe, Sound
<1>7. SpentNonceRefused'
  <2>1. \A p \in Operators, k \in Nonces :
          loans'[p][k] # NoLoan => loans[p][k] # NoLoan
    BY <1>5 DEF OpenLoansOn, OpenLoans
  <2>2. QED
    BY <2>1 DEF Inv, SpentNonceRefused
<1>8. QED
  BY <1>3, <1>4, <1>6, <1>7

\* A sweep keeps the invariant, whether it converts anything or not.
LEMMA SweepInv ==
  ASSUME Inv, NEW o \in Operators, NEW m \in RewardMints,
         NEW rate \in RateAttestations, Sweep(o, m, rate)
  PROVE  Inv'
<1> DEFINE r    == rate.stable_per_trillion_reward
           plan == SweepPlan(o, m, r)
<1>1. /\ \A n \in OpenLoansOn(o, m) : Fits(Debt(o, n))
      /\ PlanFits(plan)
      /\ \/ SweepWithoutConverting(o, m, r, plan)
         \/ SweepConverting(o, m, r, plan)
  BY DEF Sweep, SweepChecked
<1>2. \A n \in OpenLoansOn(o, m) : plan[n] \in PartType
  BY <1>1 DEF PlanFits, SweepPlan
<1>3. rewards[o][m] \in RewardAccountType /\ rewards[o][m].balance \in U64
  BY DEF Inv, TypeOK, RewardAccountType
<1>4. CASE SweepWithoutConverting(o, m, r, plan)
  <2> DEFINE handled == [n \in OpenLoansOn(o, m) |->
                Skipped(Planned(loans[o][n], plan[n], Shortfall(o, m)), plan[n])]
  <2>1. /\ SweepWrites(o, m, handled, rewards[o][m].balance)
        /\ UNCHANGED <<now, pool, vault, shares, operators, rewards, market>>
    BY <1>4 DEF SweepWithoutConverting
  <2>2. ASSUME NEW n \in OpenLoansOn(o, m)
        PROVE  handled[n] \in LoanType /\ Sound(handled[n])
    <3>1. handled[n] =
            Skipped(Planned(loans[o][n], plan[n], Shortfall(o, m)), plan[n])
      OBVIOUS
    <3>2. QED
      BY <1>1, <1>2, <3>1, HandledFacts
  <2> HIDE DEF handled
  <2>3. /\ loans' \in [Operators -> [Nonces -> LoanType \union {NoLoan}]]
        /\ watches' \in [Operators -> [RewardMints -> WatchType]]
        /\ OpenLoansOwe' /\ SpentNonceRefused'
    BY <1>3, <2>1, <2>2, SweepWritesInv
  <2>4. QED
    BY <2>1, <2>3 DEF Inv, TypeOK, Solvent
<1>5. CASE SweepConverting(o, m, r, plan)
  <2> DEFINE taken     == TotalWithheld(plan)
             paid      == TotalPaid(plan)
             allowance == Allowance(o, m)
             s         == SumSettlements(SweepSettlements(o, m, plan))
             account   == AccountSettled(operators[o], s)
             handled   == [n \in OpenLoansOn(o, m) |->
                Swept(Planned(loans[o][n], plan[n], Shortfall(o, m)), plan[n],
                      taken = allowance)]
             reward    == [ balance   |-> rewards[o][m].balance - taken,
                            ours      |-> taken < allowance,
                            allowance |-> allowance - taken ]
  <2>1. /\ rewards[o][m].balance >= taken /\ allowance >= taken
        /\ market[m] >= paid
        /\ Fits(vault + paid)
        /\ Settles(pool, operators[o], s)
        /\ pool' = PoolSettled(pool, s)
        /\ operators' = [operators EXCEPT ![o] = account]
        /\ vault' = vault + paid
        /\ market' = [market EXCEPT ![m] = @ - paid]
        /\ rewards' = [rewards EXCEPT ![o] = [rewards[o] EXCEPT ![m] = reward]]
        /\ SweepWrites(o, m, handled, rewards[o][m].balance - taken)
        /\ UNCHANGED <<now, shares>>
    BY <1>5 DEF SweepConverting
  <2>2. taken \in U64 /\ paid \in U64 /\ s.paid = paid
    BY <1>1, SettlementsPaid DEF PlanFits, Fits
  <2>3. ASSUME NEW n \in OpenLoansOn(o, m)
        PROVE  handled[n] \in LoanType /\ Sound(handled[n])
    <3>1. handled[n] =
            Swept(Planned(loans[o][n], plan[n], Shortfall(o, m)), plan[n],
                  taken = allowance)
      OBVIOUS
    <3> HIDE DEF taken, allowance, handled
    <3>2. QED
      BY <1>1, <1>2, <3>1, HandledFacts
  <2>4. /\ PoolSettled(pool, s) \in PoolType
        /\ account \in AccountType
        /\ account.window = operators[o].window
        /\ s.interest \in U64
    BY <2>1 DEF Settles, AccountSettled, Fits, Inv, TypeOK, AccountType
  <2>5. allowance \in U64
    BY <1>3, ArithmeticAssumption DEF Allowance, RewardAccountType, U64
  <2> HIDE DEF handled, taken, paid, allowance, s, account, plan
  <2>6. /\ rewards[o][m].balance - taken \in U64
        /\ allowance - taken \in U64
        /\ (taken < allowance) \in BOOLEAN
        /\ s.interest \in Nat
    BY <1>3, <2>1, <2>2, <2>4, <2>5, ArithmeticAssumption DEF U64
  <2>7. reward \in RewardAccountType
    BY <2>6 DEF RewardAccountType
  <2> HIDE DEF reward
  <2>8. rewards' \in [Operators -> [RewardMints -> RewardAccountType]]
    BY <2>1, <2>7, WriteEntry DEF Inv, TypeOK
  <2>9. operators' \in [Operators -> AccountType]
        /\ \A p \in Operators : operators'[p].window = operators[p].window
    BY <2>1, <2>4 DEF Inv, TypeOK
  <2>10. market' \in [RewardMints -> U64]
    <3>1. market[m] - paid \in U64
      BY <2>1, <2>2, ArithmeticAssumption DEF Inv, TypeOK, U64
    <3>2. QED
      BY <2>1, <3>1 DEF Inv, TypeOK
  <2>11. /\ loans' \in [Operators -> [Nonces -> LoanType \union {NoLoan}]]
         /\ watches' \in [Operators -> [RewardMints -> WatchType]]
         /\ OpenLoansOwe' /\ SpentNonceRefused'
    BY <2>1, <2>3, <2>6, <2>9, SweepWritesInv
  <2>12. TypeOK'
    BY <2>1, <2>4, <2>8, <2>9, <2>10, <2>11 DEF Inv, TypeOK, Fits
  <2>13. Solvent'
    BY <2>1, <2>2, <2>4, <2>6, SettledSolvent DEF Inv
  <2>14. QED
    BY <2>11, <2>12, <2>13 DEF Inv
<1>6. QED
  BY <1>1, <1>4, <1>5

\* What the token program, the market and the clock do keeps the invariant.
LEMMA OthersInv ==
  ASSUME Inv,
         \/ RewardStep
         \/ \E m \in RewardMints, amount \in Fundings : FundConversion(m, amount)
         \/ \E attestor \in Keys : SetAttestor(attestor)
         \/ Tick
  PROVE  Inv'
<1>1. TypeOK'
  BY OthersTypeOK DEF Inv
<1>2. /\ UNCHANGED <<operators, loans, vault>>
      /\ pool'.total_deposits = pool.total_deposits
      /\ pool'.total_borrowed = pool.total_borrowed
  BY DEF RewardStep, ReceivePayout, MoveOut, Approve, Revoke, FundConversion,
         SetAttestor, Tick, Inv, TypeOK, PoolType
<1>3. QED
  BY <1>1, <1>2, LoansUntouched DEF Inv, Solvent

-----------------------------------------------------------------------------
\* The invariant holds in every reachable state.
THEOREM Invariance == Spec => []Inv
<1>1. Inv /\ [Next]_vars => Inv'
  <2> SUFFICES ASSUME Inv, [Next]_vars PROVE Inv'
    OBVIOUS
  <2>1. CASE LenderStep
    BY <2>1, LenderInv
  <2>2. CASE BorrowStep
    BY <2>2, BorrowInv DEF BorrowStep
  <2>3. CASE RepayStep
    BY <2>3, RepayInv DEF RepayStep
  <2>4. CASE SweepStep
    BY <2>4, SweepInv DEF SweepStep
  <2>5. CASE \/ RewardStep
             \/ \E m \in RewardMints, amount \in Fundings : FundConversion(m, amount)
             \/ \E attestor \in Keys : SetAttestor(attestor)
             \/ Tick
    BY <2>5, OthersInv
  <2>6. CASE UNCHANGED vars
    BY <2>6 DEF vars, Inv, TypeOK, Solvent, OpenLoansOwe, SpentNonceRefused, IsOpen
  <2>7. QED
    BY <2>1, <2>2, <2>3, <2>4, <2>5, <2>6 DEF Next
<1>2. QED
  BY InitInv, <1>1, PTL DEF Spec

\* Every account keeps its type: no stored number leaves its Rust type.
THEOREM TypeCorrect == Spec => []TypeOK
BY Invariance, PTL DEF Inv

\* SC-007 for every pool: the vault holds what is deposited and not lent.
THEOREM AlwaysSolvent == Spec => []Solvent
BY Invariance, PTL DEF Inv

\* A loan closes when, and only when, it owes nothing.
THEOREM LoansCloseWhenPaid == Spec => []OpenLoansOwe
BY Invariance, PTL DEF Inv

\* FR-012b on the whole program: a nonce that opened a loan is refused for good.
THEOREM NoAttestationTwice == Spec => []SpentNonceRefused
BY Invariance, PTL DEF Inv

-----------------------------------------------------------------------------
(***************************************************************************)
(* The books: totals and the accounts they stand for.                      *)
(***************************************************************************)

\* The loan accounts of all operators.
Tables == [Operators -> [Nonces -> LoanType \union {NoLoan}]]

\* The loans that count: those with an account that is open.
Counts(loan) == loan # NoLoan /\ IsOpen(loan)

\* The open loans of one operator, and those of all.
OpenIn(table, o) == {n \in Nonces : Counts(table[o][n])}

AllIn(table) == {on \in Operators \X Nonces : Counts(table[on[1]][on[2]])}

\* The totals that are kept of the open loans.
Columns == {"principal", "interest", "owed", "open", "rate", "rate_time", "remainder"}

\* What a loan adds to each of them.
Entry(loan, c) ==
  IF ~Counts(loan)
    THEN 0
    ELSE CASE c = "principal" -> loan.outstanding
           [] c = "interest"  -> loan.accrued_interest
           [] c = "owed"      -> TotalOwed(loan)
           [] c = "open"      -> 1
           [] c = "rate"      -> AccrualTerms(loan).rate
           [] c = "rate_time" -> AccrualTerms(loan).rate_time
           [] c = "remainder" -> AccrualTerms(loan).remainder

\* What all open loans, and those of one operator, add up to.
Held(table, c) ==
  SumFunctionOnSet([on \in AllIn(table) |-> Entry(table[on[1]][on[2]], c)], AllIn(table))

HeldBy(table, o, c) ==
  SumFunctionOnSet([n \in OpenIn(table, o) |-> Entry(table[o][n], c)], OpenIn(table, o))

\* There are finitely many open loans.
FiniteBooks(table) ==
  /\ IsFiniteSet(AllIn(table))
  /\ \A o \in Operators : IsFiniteSet(OpenIn(table, o))

\* Two accounts that count the same.
SameEntries(a, b) == \A c \in Columns : Entry(a, c) = Entry(b, c)

\* What counts, counts in the column of its own.
LEMMA CountsOne ==
  /\ "open" \in Columns
  /\ \A loan : Entry(loan, "open") = IF Counts(loan) THEN 1 ELSE 0
BY DEF Entry, Columns

\* Every entry is a natural number.
LEMMA EntryType ==
  ASSUME NEW loan \in LoanType \union {NoLoan}, NEW c \in Columns
  PROVE  Entry(loan, c) \in Nat
<1>1. CASE ~Counts(loan)
  BY <1>1 DEF Entry
<1>2. CASE Counts(loan)
  <2>1. loan \in LoanType /\ IsOpen(loan)
    BY <1>2 DEF Counts
  <2>2. /\ loan.outstanding \in Nat /\ loan.accrued_interest \in Nat
        /\ loan.interest_remainder \in Nat /\ loan.last_accrual_at \in Nat
        /\ loan.apr_bps \in Nat
    BY <2>1, LoanFields
  <2>3. loan.outstanding * loan.apr_bps \in Nat
    BY <2>2
  <2>4. loan.outstanding * loan.apr_bps * loan.last_accrual_at \in Nat
    BY <2>2, <2>3
  <2>5. AccrualTerms(loan) = [ rate      |-> loan.outstanding * loan.apr_bps,
                               rate_time |-> loan.outstanding * loan.apr_bps
                                               * loan.last_accrual_at,
                               remainder |-> loan.interest_remainder ]
    BY <2>1 DEF AccrualTerms
  <2>6. TotalOwed(loan) \in Nat
    BY <2>2 DEF TotalOwed
  <2>7. /\ AccrualTerms(loan).rate \in Nat
        /\ AccrualTerms(loan).rate_time \in Nat
        /\ AccrualTerms(loan).remainder \in Nat
    BY <2>2, <2>3, <2>4, <2>5
  <2>8. QED
    BY <1>2, <2>2, <2>6, <2>7 DEF Entry, Columns
<1>3. QED
  BY <1>1, <1>2

\* The loans of one operator among the loans of all.
Pairs(o, T) == {<<o, n>> : n \in T}

\* What they are.
LEMMA PairsAre ==
  ASSUME NEW o, NEW T
  PROVE  /\ \A n : <<o, n>> \in Pairs(o, T) <=> n \in T
         /\ \A on \in Pairs(o, T) : \E n \in T : on = <<o, n>>
BY DEF Pairs

\* A sum over the loans of one operator, among those of all and by themselves.
LEMMA SumOfPairs ==
  ASSUME NEW o, NEW T, IsFiniteSet(T), NEW d, NEW e,
         \A n \in T : d[n] \in Int /\ e[<<o, n>>] = d[n]
  PROVE  /\ IsFiniteSet(Pairs(o, T))
         /\ SumFunctionOnSet(e, Pairs(o, T)) = SumFunctionOnSet(d, T)
<1> DEFINE b == [n \in T |-> <<o, n>>]
<1>1. b \in [T -> Pairs(o, T)] /\ (\A y \in Pairs(o, T) : \E x \in T : y = b[x])
  BY PairsAre
<1>2. /\ \A x, y \in T : b[x] = b[y] => x = y
      /\ \A x \in T : e[b[x]] \in Int /\ d[x] = e[b[x]]
  OBVIOUS
<1>3. /\ IsFiniteSet(Pairs(o, T))
      /\ SumFunctionOnSet(d, T) = SumFunctionOnSet(e, Pairs(o, T))
  <2> HIDE DEF b
  <2>1. QED
    BY <1>1, <1>2, SumImage
<1>4. QED
  BY <1>3

\* Writing some loans of one operator moves the totals by what their entries
\* change, and no other operator's.
LEMMA TouchedLoans ==
  ASSUME NEW L \in Tables, FiniteBooks(L), NEW K \in Tables,
         NEW o \in Operators, NEW T \in SUBSET Nonces, IsFiniteSet(T),
         \A p \in Operators : p # o => K[p] = L[p],
         \A n \in Nonces \ T : SameEntries(K[o][n], L[o][n])
  PROVE  /\ FiniteBooks(K)
         /\ \A p \in Operators : p # o => OpenIn(K, p) = OpenIn(L, p)
         /\ \A n \in Nonces \ T : n \in OpenIn(K, o) <=> n \in OpenIn(L, o)
<1>1. \A n \in Nonces \ T : Counts(K[o][n]) <=> Counts(L[o][n])
  BY CountsOne DEF SameEntries
<1>2. \A p \in Operators : p # o => OpenIn(K, p) = OpenIn(L, p)
  BY DEF OpenIn
<1>3. \A n \in Nonces \ T : n \in OpenIn(K, o) <=> n \in OpenIn(L, o)
  BY <1>1 DEF OpenIn
<1>4. IsFiniteSet(OpenIn(K, o))
  <2>1. OpenIn(K, o) \in SUBSET (OpenIn(L, o) \union T)
    BY <1>3 DEF OpenIn
  <2>2. IsFiniteSet(OpenIn(L, o) \union T)
    BY FS_Union DEF FiniteBooks
  <2>3. QED
    BY <2>1, <2>2, FS_Subset
<1>5. IsFiniteSet(AllIn(K))
  <2> DEFINE pairs == Pairs(o, T)
             none  == [n \in T |-> 0]
             zeros == [on \in pairs |-> 0]
  <2>1. IsFiniteSet(pairs)
    <3>1. \A n \in T : none[n] \in Int /\ zeros[<<o, n>>] = none[n]
      BY PairsAre
    <3> HIDE DEF zeros, none
    <3>2. QED
      BY <3>1, SumOfPairs
  <2>2. AllIn(K) \in SUBSET (AllIn(L) \union pairs)
    <3>1. ASSUME NEW on \in AllIn(K) PROVE on \in AllIn(L) \union pairs
      <4>1. PICK p \in Operators, n \in Nonces : on = <<p, n>> /\ Counts(K[p][n])
        BY <3>1 DEF AllIn
      <4>2. CASE p = o /\ n \in T
        BY <4>1, <4>2, PairsAre
      <4>3. CASE ~(p = o /\ n \in T)
        <5>1. Counts(L[p][n])
          BY <1>1, <4>1, <4>3
        <5>2. QED
          BY <4>1, <5>1 DEF AllIn
      <4>4. QED
        BY <4>2, <4>3
    <3>2. QED
      BY <3>1
  <2> HIDE DEF pairs
  <2>3. IsFiniteSet(AllIn(L) \union pairs)
    BY <2>1, FS_Union DEF FiniteBooks
  <2>4. QED
    BY <2>2, <2>3, FS_Subset
<1>6. QED
  BY <1>2, <1>3, <1>4, <1>5 DEF FiniteBooks

\* By how much each total moves then.
LEMMA TouchedTotals ==
  ASSUME NEW L \in Tables, FiniteBooks(L), NEW K \in Tables,
         NEW o \in Operators, NEW T \in SUBSET Nonces, IsFiniteSet(T),
         \A p \in Operators : p # o => K[p] = L[p],
         \A n \in Nonces \ T : SameEntries(K[o][n], L[o][n]),
         NEW c \in Columns, NEW d,
         \A n \in T : d[n] = Entry(K[o][n], c) - Entry(L[o][n], c)
  PROVE  /\ Held(K, c) = Held(L, c) + SumFunctionOnSet(d, T)
         /\ HeldBy(K, o, c) = HeldBy(L, o, c) + SumFunctionOnSet(d, T)
         /\ \A p \in Operators : p # o => HeldBy(K, p, c) = HeldBy(L, p, c)
<1>1. /\ FiniteBooks(K)
      /\ \A p \in Operators : p # o => OpenIn(K, p) = OpenIn(L, p)
      /\ \A n \in Nonces \ T : n \in OpenIn(K, o) <=> n \in OpenIn(L, o)
  BY TouchedLoans
<1>2. \A p \in Operators, n \in Nonces :
        Entry(K[p][n], c) \in Nat /\ Entry(L[p][n], c) \in Nat
  BY EntryType DEF Tables
<1>3. \A loan : ~Counts(loan) => Entry(loan, c) = 0
  BY DEF Entry
<1>4. \A n \in Nonces \ T : Entry(K[o][n], c) = Entry(L[o][n], c)
  BY DEF SameEntries
<1>5. HeldBy(K, o, c) = HeldBy(L, o, c) + SumFunctionOnSet(d, T)
  <2> DEFINE A == OpenIn(L, o)
             B == OpenIn(K, o)
             f == [n \in A |-> Entry(L[o][n], c)]
             g == [n \in B |-> Entry(K[o][n], c)]
  <2>1. IsFiniteSet(A) /\ IsFiniteSet(B) /\ A \subseteq Nonces /\ B \subseteq Nonces
    BY <1>1 DEF FiniteBooks, OpenIn
  <2>2. (\A x \in A : f[x] \in Int) /\ (\A x \in B : g[x] \in Int)
    BY <1>2, <2>1
  <2>3. \A x \in T : d[x] = (IF x \in B THEN g[x] ELSE 0) - (IF x \in A THEN f[x] ELSE 0)
    <3>1. \A x \in T : /\ (x \in A <=> Counts(L[o][x])) /\ (x \in B <=> Counts(K[o][x]))
      BY DEF OpenIn
    <3> HIDE DEF A, B
    <3>2. QED
      BY <1>3, <3>1
  <2>4. \A x \in (A \union B) \ T : x \in A /\ x \in B /\ f[x] = g[x]
    BY <1>1, <1>4, <2>1
  <2> HIDE DEF A, B, f, g
  <2>5. SumFunctionOnSet(g, B) = SumFunctionOnSet(f, A) + SumFunctionOnSet(d, T)
    BY <2>1, <2>2, <2>3, <2>4, SumChanges
  <2>6. QED
    BY <2>5 DEF HeldBy, A, B, f, g
<1>6. Held(K, c) = Held(L, c) + SumFunctionOnSet(d, T)
  <2> DEFINE A == AllIn(L)
             B == AllIn(K)
             f == [on \in A |-> Entry(L[on[1]][on[2]], c)]
             g == [on \in B |-> Entry(K[on[1]][on[2]], c)]
             P == Pairs(o, T)
             e == [on \in P |-> d[on[2]]]
  <2>1. IsFiniteSet(A) /\ IsFiniteSet(B)
    BY <1>1 DEF FiniteBooks
  <2>2. (\A x \in A : f[x] \in Int) /\ (\A x \in B : g[x] \in Int)
    BY <1>2 DEF AllIn
  <2>3. IsFiniteSet(P) /\ SumFunctionOnSet(e, P) = SumFunctionOnSet(d, T)
    <3>1. \A n \in T : d[n] \in Int /\ e[<<o, n>>] = d[n]
      BY <1>2, PairsAre
    <3> HIDE DEF e
    <3>2. QED
      BY <3>1, SumOfPairs
  <2>4. \A x \in P : e[x] = (IF x \in B THEN g[x] ELSE 0) - (IF x \in A THEN f[x] ELSE 0)
    <3> SUFFICES ASSUME NEW on \in P
                 PROVE  e[on] = (IF on \in B THEN g[on] ELSE 0)
                                  - (IF on \in A THEN f[on] ELSE 0)
      OBVIOUS
    <3> PICK n \in T : on = <<o, n>>
      BY PairsAre
    <3>1. e[<<o, n>>] = Entry(K[o][n], c) - Entry(L[o][n], c)
      BY PairsAre
    <3>2. (<<o, n>> \in A <=> Counts(L[o][n])) /\ (<<o, n>> \in B <=> Counts(K[o][n]))
      BY DEF AllIn
    <3>3. /\ <<o, n>> \in A => f[<<o, n>>] = Entry(L[o][n], c)
          /\ <<o, n>> \in B => g[<<o, n>>] = Entry(K[o][n], c)
      OBVIOUS
    <3> HIDE DEF A, B, f, g, e
    <3>4. QED
      BY <1>3, <3>1, <3>2, <3>3
  <2>5. \A x \in (A \union B) \ P : x \in A /\ x \in B /\ f[x] = g[x]
    <3> SUFFICES ASSUME NEW on \in (A \union B) \ P
                 PROVE  on \in A /\ on \in B /\ f[on] = g[on]
      OBVIOUS
    <3> PICK p \in Operators, n \in Nonces : on = <<p, n>>
      BY DEF AllIn
    <3>1. (<<p, n>> \in A <=> Counts(L[p][n])) /\ (<<p, n>> \in B <=> Counts(K[p][n]))
      BY DEF AllIn
    <3>2. p # o \/ n \notin T
      BY PairsAre
    <3>3. Counts(L[p][n]) <=> Counts(K[p][n])
      BY <1>1, <3>2 DEF OpenIn
    <3>4. Entry(L[p][n], c) = Entry(K[p][n], c)
      BY <1>4, <3>2
    <3>5. /\ <<p, n>> \in A => f[<<p, n>>] = Entry(L[p][n], c)
          /\ <<p, n>> \in B => g[<<p, n>>] = Entry(K[p][n], c)
      OBVIOUS
    <3> HIDE DEF A, B, f, g, P
    <3>6. QED
      BY <3>1, <3>3, <3>4, <3>5
  <2> HIDE DEF A, B, f, g, P, e
  <2>6. SumFunctionOnSet(g, B) = SumFunctionOnSet(f, A) + SumFunctionOnSet(e, P)
    BY <2>1, <2>2, <2>3, <2>4, <2>5, SumChanges
  <2>7. QED
    BY <2>3, <2>6 DEF Held, A, B, f, g
<1>7. \A p \in Operators : p # o => HeldBy(K, p, c) = HeldBy(L, p, c)
  BY <1>1 DEF HeldBy
<1>8. QED
  BY <1>5, <1>6, <1>7
-----------------------------------------------------------------------------
(***************************************************************************)
(* The inductive invariant.                                                *)
(***************************************************************************)
PoolColumns == {"principal", "interest", "rate", "rate_time", "remainder"}
AccountColumns == {"owed", "open"}

\* The column as the pool, or an operator account, keeps it.
Booked(p, c) ==
  CASE c = "principal" -> p.total_borrowed
    [] c = "interest"  -> p.accrued_interest
    [] c = "rate"      -> p.accrual_rate
    [] c = "rate_time" -> p.accrual_rate_time
    [] c = "remainder" -> p.accrual_remainders

\* What an operator account has in each column.
BookedOf(account, c) ==
  CASE c = "owed" -> account.total_debt
    [] c = "open" -> account.open_loans

\* The totals are what the open loans add up to.
LoanBooks ==
  /\ FiniteBooks(loans)
  /\ \A c \in PoolColumns : Booked(pool, c) = Held(loans, c)
  /\ \A o \in Operators, c \in AccountColumns :
       BookedOf(operators[o], c) = HeldBy(loans, o, c)

\* No loan has accrued interest for a time that has not come.
NoneAhead ==
  \A o \in Operators, n \in Nonces :
    Counts(loans[o][n]) => loans[o][n].last_accrual_at <= now

\* The other conjuncts of the inductive invariant: no operator has more loans than
\* the program allows, the pool's shares are those of the lenders.
FewOpen == \A o \in Operators : operators[o].open_loans <= MAX_OPEN_LOANS

ShareBooks == pool.total_shares = SumFunction(shares)

\* The inductive invariant of the books.
BooksInv == Inv /\ LoanBooks /\ NoneAhead /\ FewOpen /\ ShareBooks

\* By how much a column of one operator moves when the loans T are written.
Change(L, K, o, T, c) ==
  SumFunctionOnSet([n \in T |-> Entry(K[o][n], c) - Entry(L[o][n], c)], T)

\* The books stay right when they move by what the entries of the loans do.
LEMMA BooksMove ==
  ASSUME TypeOK, loans' \in Tables, LoanBooks,
         NEW o \in Operators, NEW T \in SUBSET Nonces, IsFiniteSet(T),
         \A p \in Operators : p # o => loans'[p] = loans[p] /\ operators'[p] = operators[p],
         \A n \in Nonces \ T : SameEntries(loans'[o][n], loans[o][n]),
         \A c \in PoolColumns :
           Booked(pool', c) = Booked(pool, c) + Change(loans, loans', o, T, c),
         \A c \in AccountColumns :
           BookedOf(operators'[o], c)
             = BookedOf(operators[o], c) + Change(loans, loans', o, T, c)
  PROVE  LoanBooks'
<1> DEFINE d(c) == [n \in T |-> Entry(loans'[o][n], c) - Entry(loans[o][n], c)]
<1>1. loans \in Tables /\ FiniteBooks(loans)
  BY DEF TypeOK, Tables, LoanBooks
<1>2. FiniteBooks(loans')
  BY <1>1, TouchedLoans
<1>3. ASSUME NEW c \in Columns
      PROVE  /\ Held(loans', c) = Held(loans, c) + Change(loans, loans', o, T, c)
             /\ HeldBy(loans', o, c) = HeldBy(loans, o, c) + Change(loans, loans', o, T, c)
             /\ \A p \in Operators : p # o => HeldBy(loans', p, c) = HeldBy(loans, p, c)
  <2>1. \A n \in T : d(c)[n] = Entry(loans'[o][n], c) - Entry(loans[o][n], c)
    OBVIOUS
  <2>2. Change(loans, loans', o, T, c) = SumFunctionOnSet(d(c), T)
    BY DEF Change
  <2> HIDE DEF d
  <2>3. QED
    BY <1>1, <2>1, <2>2, TouchedTotals
<1>4. PoolColumns \subseteq Columns /\ AccountColumns \subseteq Columns
  BY DEF PoolColumns, AccountColumns, Columns
<1>5. \A c \in PoolColumns : Booked(pool', c) = Held(loans', c)
  BY <1>3, <1>4 DEF LoanBooks
<1>6. ASSUME NEW p \in Operators, NEW c \in AccountColumns
      PROVE  BookedOf(operators'[p], c) = HeldBy(loans', p, c)
  <2>1. CASE p = o
    BY <1>3, <1>4, <2>1 DEF LoanBooks
  <2>2. CASE p # o
    BY <1>3, <1>4, <2>2 DEF LoanBooks
  <2>3. QED
    BY <2>1, <2>2
<1>7. QED
  BY <1>2, <1>5, <1>6 DEF LoanBooks

\* A sum of the same books at the same loans.
LEMMA BooksStay ==
  ASSUME LoanBooks, UNCHANGED <<operators, loans>>,
         \A c \in PoolColumns : Booked(pool', c) = Booked(pool, c)
  PROVE  LoanBooks'
BY DEF LoanBooks

-----------------------------------------------------------------------------
\* What accrue does to the fields of an open loan.
LEMMA AccrueFields ==
  ASSUME NEW loan \in LoanType, NEW at \in Nat, loan.last_accrual_at <= at
  PROVE  LET a == Accrue(loan, at)
         IN  /\ a.apr_bps = loan.apr_bps
             /\ a.last_accrual_at = at
             /\ a.interest_remainder + InterestTo(loan, at) * ACCRUAL_DENOMINATOR
                  = loan.outstanding * loan.apr_bps * (at - loan.last_accrual_at)
                      + loan.interest_remainder
<1>1. CASE at <= loan.last_accrual_at
  <2>1. /\ Accrue(loan, at) = loan /\ InterestTo(loan, at) = 0
        /\ at = loan.last_accrual_at
    BY <1>1, LoanFields DEF Accrue, InterestTo
  <2>2. /\ loan.outstanding * loan.apr_bps \in Nat /\ loan.interest_remainder \in Nat
        /\ at - loan.last_accrual_at = 0 /\ ACCRUAL_DENOMINATOR \in Nat
    BY <2>1, LoanFields, LoanAssumption
  <2>3. loan.outstanding * loan.apr_bps * (at - loan.last_accrual_at) = 0
    BY <2>2
  <2>4. QED
    BY <2>1, <2>2, <2>3
<1>2. CASE at > loan.last_accrual_at
  <2> DEFINE x == AccrualNumerator(loan, at)
  <2>1. /\ Accrue(loan, at).apr_bps = loan.apr_bps
        /\ Accrue(loan, at).last_accrual_at = at
        /\ Accrue(loan, at).interest_remainder = x % ACCRUAL_DENOMINATOR
        /\ InterestTo(loan, at) = x \div ACCRUAL_DENOMINATOR
    BY <1>2, LoanFields DEF Accrue, InterestTo, LoanType
  <2>2. x \in Nat
    <3>1. /\ loan.outstanding \in Nat /\ loan.apr_bps \in Nat
          /\ at - loan.last_accrual_at \in Nat /\ loan.interest_remainder \in Nat
      BY <1>2, LoanFields
    <3>2. \A a, b, c, d \in Nat : a * b * c + d \in Nat
      OBVIOUS
    <3>3. QED
      BY <3>1, <3>2 DEF AccrualNumerator
  <2>3. x = loan.outstanding * loan.apr_bps * (at - loan.last_accrual_at)
              + loan.interest_remainder
    BY DEF AccrualNumerator
  <2> HIDE DEF x
  <2>4. x = (x \div ACCRUAL_DENOMINATOR) * ACCRUAL_DENOMINATOR + (x % ACCRUAL_DENOMINATOR)
    BY <2>2, LoanAssumption, Division
  <2>6. x \div ACCRUAL_DENOMINATOR \in Nat /\ (x % ACCRUAL_DENOMINATOR) \in Nat
    BY <2>2, LoanAssumption, DivMod
  <2>7. (x \div ACCRUAL_DENOMINATOR) * ACCRUAL_DENOMINATOR \in Nat
    BY <2>6, LoanAssumption
  <2>5. QED
    BY <2>1, <2>3, <2>4, <2>6, <2>7
<1>3. QED
  BY <1>1, <1>2, LoanFields

\* What apply_repayment does to the fields of an open loan.
LEMMA RepaymentFields ==
  ASSUME NEW loan \in LoanType, IsOpen(loan), NEW max_amount \in Nat
  PROVE  LET a == ApplyRepayment(loan, max_amount)
         IN  /\ a.outstanding = loan.outstanding - PrincipalPart(loan, max_amount)
             /\ a.accrued_interest
                  = loan.accrued_interest - InterestPart(loan, max_amount)
             /\ a.apr_bps = loan.apr_bps
             /\ a.last_accrual_at = loan.last_accrual_at
             /\ a.interest_remainder = loan.interest_remainder
             /\ IsOpen(a) <=> TotalOwed(a) # 0
             /\ a.reward_due = IF IsOpen(a) THEN loan.reward_due ELSE 0
             /\ a.manual_repayment = IF IsOpen(a) THEN loan.manual_repayment ELSE NoReason
<1> DEFINE left == [loan EXCEPT
                      !.accrued_interest = @ - InterestPart(loan, max_amount),
                      !.outstanding      = @ - PrincipalPart(loan, max_amount)]
<1>1. /\ left.outstanding = loan.outstanding - PrincipalPart(loan, max_amount)
      /\ left.accrued_interest = loan.accrued_interest - InterestPart(loan, max_amount)
      /\ left.apr_bps = loan.apr_bps
      /\ left.last_accrual_at = loan.last_accrual_at
      /\ left.interest_remainder = loan.interest_remainder
      /\ left.reward_due = loan.reward_due
      /\ left.manual_repayment = loan.manual_repayment
      /\ left.status = loan.status
  BY DEF LoanType
<1>2. LET a == ApplyRepayment(loan, max_amount)
      IN  /\ a.outstanding = left.outstanding
          /\ a.accrued_interest = left.accrued_interest
          /\ a.apr_bps = left.apr_bps
          /\ a.last_accrual_at = left.last_accrual_at
          /\ a.interest_remainder = left.interest_remainder
          /\ a.status = IF TotalOwed(left) = 0 THEN "Repaid" ELSE left.status
          /\ a.reward_due = IF TotalOwed(left) = 0 THEN 0 ELSE left.reward_due
          /\ a.manual_repayment
               = IF TotalOwed(left) = 0 THEN NoReason ELSE left.manual_repayment
  BY DEF ApplyRepayment, LoanType
<1> HIDE DEF left
<1>3. QED
  BY <1>1, <1>2 DEF TotalOwed, IsOpen

\* What settling a loan moves, column by column.
LEMMA SettlementEntries ==
  ASSUME now \in Nat, NEW loan \in LoanType, IsOpen(loan), Sound(loan),
         loan.last_accrual_at <= now, NEW max_amount \in Nat,
         Fits(TotalOwed(Accrue(loan, now)))
  PROVE  LET s == Settlement(loan, max_amount)
         IN  /\ Entry(s.loan, "principal") - Entry(loan, "principal") = s.interest - s.paid
             /\ Entry(s.loan, "interest") - Entry(loan, "interest") = s.accrued - s.interest
             /\ Entry(s.loan, "owed") - Entry(loan, "owed") = s.accrued - s.paid
             /\ Entry(s.loan, "open") - Entry(loan, "open") = 0 - s.closed
             /\ Entry(s.loan, "rate") = s.after.rate
             /\ Entry(s.loan, "rate_time") = s.after.rate_time
             /\ Entry(s.loan, "remainder") = s.after.remainder
             /\ Entry(loan, "rate") = s.before.rate
             /\ Entry(loan, "rate_time") = s.before.rate_time
             /\ Entry(loan, "remainder") = s.before.remainder
             /\ s.loan.last_accrual_at = now
             /\ s.closed \in {0, 1} /\ (s.closed = 0 <=> IsOpen(s.loan))
             /\ s.accrued \in Nat /\ s.interest \in Nat /\ s.paid \in Nat
<1> DEFINE a == Accrue(loan, now)
           s == Settlement(loan, max_amount)
           paid == Least(max_amount, TotalOwed(a))
           interest == InterestPart(a, max_amount)
<1>1. /\ a \in LoanType /\ IsOpen(a) /\ Sound(a)
      /\ a.outstanding = loan.outstanding
      /\ a.accrued_interest = loan.accrued_interest + InterestTo(loan, now)
      /\ a.last_accrual_at = now
  BY AccrueFacts, AccrueFields DEF IsOpen, Sound
<1>2. /\ interest \in Nat /\ PrincipalPart(a, max_amount) \in Nat
      /\ paid \in Nat /\ s.loan \in LoanType /\ Sound(s.loan)
      /\ PrincipalPart(a, max_amount) = paid - interest
  <2>1. \A x \in U64 : x \in Nat
    BY ArithmeticAssumption DEF U64
  <2>2. QED
    BY <1>1, <2>1, RepaymentFacts DEF Settlement, PrincipalPart
<1>3. /\ s.loan = ApplyRepayment(a, max_amount)
      /\ s.accrued = InterestTo(loan, now) /\ s.interest = interest /\ s.paid = paid
      /\ s.closed = IF IsOpen(s.loan) THEN 0 ELSE 1
      /\ s.before = AccrualTerms(loan) /\ s.after = AccrualTerms(s.loan)
  BY DEF Settlement
<1>4. /\ s.loan.outstanding = a.outstanding - PrincipalPart(a, max_amount)
      /\ s.loan.accrued_interest = a.accrued_interest - interest
      /\ s.loan.last_accrual_at = now
      /\ IsOpen(s.loan) <=> TotalOwed(s.loan) # 0
  BY <1>1, <1>3, RepaymentFields
<1>5. s.accrued \in Nat
  BY <1>3, InterestType
<1>6. /\ loan.outstanding \in Nat /\ loan.accrued_interest \in Nat
      /\ s.loan.outstanding \in Nat /\ s.loan.accrued_interest \in Nat
  BY <1>2, LoanFields
<1>7. Counts(loan) /\ (Counts(s.loan) <=> IsOpen(s.loan))
  BY <1>2, RewardFloatAssumption DEF Counts
<1> HIDE DEF a, s, paid, interest
<1>8. ~IsOpen(s.loan) => s.loan.outstanding = 0 /\ s.loan.accrued_interest = 0
  BY <1>4, <1>6 DEF TotalOwed
<1>9. /\ Entry(loan, "principal") = loan.outstanding
      /\ Entry(loan, "interest") = loan.accrued_interest
      /\ Entry(loan, "owed") = loan.outstanding + loan.accrued_interest
      /\ Entry(loan, "open") = 1
      /\ Entry(loan, "rate") = s.before.rate
      /\ Entry(loan, "rate_time") = s.before.rate_time
      /\ Entry(loan, "remainder") = s.before.remainder
  BY <1>3, <1>7 DEF Entry, TotalOwed
<1>10. /\ Entry(s.loan, "principal") = s.loan.outstanding
       /\ Entry(s.loan, "interest") = s.loan.accrued_interest
       /\ Entry(s.loan, "owed") = s.loan.outstanding + s.loan.accrued_interest
       /\ Entry(s.loan, "open") = 1 - s.closed
       /\ Entry(s.loan, "rate") = s.after.rate
       /\ Entry(s.loan, "rate_time") = s.after.rate_time
       /\ Entry(s.loan, "remainder") = s.after.remainder
  <2>1. CASE IsOpen(s.loan)
    BY <1>3, <1>7, <2>1 DEF Entry, TotalOwed
  <2>2. CASE ~IsOpen(s.loan)
    BY <1>3, <1>7, <1>8, <2>2 DEF Entry, AccrualTerms, NoTerms
  <2>3. QED
    BY <2>1, <2>2
<1>11. QED
  <2>1. /\ s.accrued \in Nat /\ s.interest \in Nat /\ s.paid \in Nat
        /\ s.closed \in {0, 1} /\ (s.closed = 0 <=> IsOpen(s.loan))
    BY <1>2, <1>3, <1>5
  <2>2. QED
    BY <1>1, <1>2, <1>3, <1>4, <1>6, <1>9, <1>10, <2>1 DEF s
-----------------------------------------------------------------------------
(***************************************************************************)
(* Repaying.                                                               *)
(***************************************************************************)
\* The books are right after `settle` when the settlement says what the entries of
\* the loans it was made for change by.
LEMMA SettledBooks ==
  ASSUME TypeOK, loans' \in Tables, LoanBooks,
         NEW o \in Operators, NEW T \in SUBSET Nonces, IsFiniteSet(T), NEW s,
         \A p \in Operators : p # o => loans'[p] = loans[p],
         \A n \in Nonces \ T : SameEntries(loans'[o][n], loans[o][n]),
         pool' = PoolSettled(pool, s),
         operators' = [operators EXCEPT ![o] = AccountSettled(operators[o], s)],
         s.paid \in Int, s.interest \in Int, s.accrued \in Int, s.closed \in Int,
         s.before.rate \in Int, s.before.rate_time \in Int, s.before.remainder \in Int,
         s.after.rate \in Int, s.after.rate_time \in Int, s.after.remainder \in Int,
         Change(loans, loans', o, T, "principal") = s.interest - s.paid,
         Change(loans, loans', o, T, "interest") = s.accrued - s.interest,
         Change(loans, loans', o, T, "owed") = s.accrued - s.paid,
         Change(loans, loans', o, T, "open") = 0 - s.closed,
         Change(loans, loans', o, T, "rate") = s.after.rate - s.before.rate,
         Change(loans, loans', o, T, "rate_time") = s.after.rate_time - s.before.rate_time,
         Change(loans, loans', o, T, "remainder") = s.after.remainder - s.before.remainder
  PROVE  LoanBooks'
<1>1. /\ pool'.total_borrowed = pool.total_borrowed - (s.paid - s.interest)
      /\ pool'.accrued_interest = pool.accrued_interest + s.accrued - s.interest
      /\ pool'.accrual_rate = pool.accrual_rate - s.before.rate + s.after.rate
      /\ pool'.accrual_rate_time
           = pool.accrual_rate_time - s.before.rate_time + s.after.rate_time
      /\ pool'.accrual_remainders
           = pool.accrual_remainders - s.before.remainder + s.after.remainder
  BY DEF PoolSettled, Retrack, TypeOK, PoolType
<1>2. /\ pool.total_borrowed \in Int /\ pool.accrued_interest \in Int
      /\ pool.accrual_rate \in Int /\ pool.accrual_rate_time \in Int
      /\ pool.accrual_remainders \in Int
  BY ArithmeticAssumption DEF TypeOK, PoolType, U64
<1>3. ASSUME NEW c \in PoolColumns
      PROVE  Booked(pool', c) = Booked(pool, c) + Change(loans, loans', o, T, c)
  BY <1>1, <1>2 DEF PoolColumns, Booked
<1>4. /\ operators'[o].total_debt = operators[o].total_debt + s.accrued - s.paid
      /\ operators'[o].open_loans = operators[o].open_loans - s.closed
      /\ operators[o].total_debt \in Int /\ operators[o].open_loans \in Int
      /\ \A p \in Operators : p # o => operators'[p] = operators[p]
  BY ArithmeticAssumption DEF AccountSettled, TypeOK, AccountType, U64
<1>5. ASSUME NEW c \in AccountColumns
      PROVE  BookedOf(operators'[o], c)
               = BookedOf(operators[o], c) + Change(loans, loans', o, T, c)
  BY <1>4 DEF AccountColumns, BookedOf
<1>6. QED
  BY <1>3, <1>4, <1>5, BooksMove

\* A repayment.
LEMMA RepayBooks ==
  ASSUME BooksInv, NEW o \in Operators, NEW n \in Nonces, NEW amount \in Repayments,
         Repay(o, n, amount)
  PROVE  BooksInv'
<1> DEFINE loan == loans[o][n]
           s == Settlement(loan, amount)
<1>1. /\ n \in OpenLoans(o) /\ Fits(TotalOwed(Accrue(loan, now)))
      /\ pool' = PoolSettled(pool, s)
      /\ operators' = [operators EXCEPT ![o] = AccountSettled(operators[o], s)]
      /\ loans' = [loans EXCEPT ![o] = [loans[o] EXCEPT ![n] = s.loan]]
      /\ UNCHANGED <<now, shares, rewards, watches, market>>
  BY DEF Repay
<1>2. Inv'
  BY RepayInv DEF BooksInv
<1>3. /\ loan \in LoanType /\ loan # NoLoan /\ IsOpen(loan) /\ Sound(loan)
      /\ now \in Nat /\ amount \in Nat /\ TypeOK /\ LoanBooks
      /\ loan.last_accrual_at <= now
  <2>1. /\ loan \in LoanType /\ loan # NoLoan /\ IsOpen(loan) /\ Sound(loan)
        /\ now \in Nat /\ amount \in Nat /\ TypeOK /\ LoanBooks
    BY <1>1, OpenLoanType, AllSound, RewardFloatAssumption, ArithmeticAssumption
       DEF BooksInv, Inv, TypeOK, U64
  <2>2. QED
    BY <2>1 DEF BooksInv, NoneAhead, Counts
<1>4. loans' \in Tables
  BY <1>2 DEF Inv, TypeOK, Tables
<1>5. /\ \A p \in Operators : p # o => loans'[p] = loans[p]
      /\ \A k \in Nonces : k # n => loans'[o][k] = loans[o][k]
      /\ loans'[o][n] = s.loan
  BY <1>1 DEF BooksInv, Inv, TypeOK
<1>6. /\ Entry(s.loan, "principal") - Entry(loan, "principal") = s.interest - s.paid
      /\ Entry(s.loan, "interest") - Entry(loan, "interest") = s.accrued - s.interest
      /\ Entry(s.loan, "owed") - Entry(loan, "owed") = s.accrued - s.paid
      /\ Entry(s.loan, "open") - Entry(loan, "open") = 0 - s.closed
      /\ Entry(s.loan, "rate") = s.after.rate
      /\ Entry(s.loan, "rate_time") = s.after.rate_time
      /\ Entry(s.loan, "remainder") = s.after.remainder
      /\ Entry(loan, "rate") = s.before.rate
      /\ Entry(loan, "rate_time") = s.before.rate_time
      /\ Entry(loan, "remainder") = s.before.remainder
      /\ s.loan.last_accrual_at = now
      /\ s.closed \in {0, 1}
      /\ s.accrued \in Nat /\ s.interest \in Nat /\ s.paid \in Nat
      /\ s.loan \in LoanType
  BY <1>1, <1>3, SettlementEntries, SettlementFacts
<1> HIDE DEF loan, s
<1>7. ASSUME NEW c \in Columns
      PROVE  /\ Entry(s.loan, c) \in Nat /\ Entry(loan, c) \in Nat
             /\ Change(loans, loans', o, {n}, c) = Entry(s.loan, c) - Entry(loan, c)
  <2> DEFINE d == [k \in {n} |-> Entry(loans'[o][k], c) - Entry(loans[o][k], c)]
  <2>1. Entry(s.loan, c) \in Nat /\ Entry(loan, c) \in Nat
    BY <1>3, <1>6, EntryType
  <2>2. d[n] = Entry(s.loan, c) - Entry(loan, c)
    BY <1>5 DEF loan
  <2>3. SumFunctionOnSet(d, {n}) = d[n]
    <3> HIDE DEF d
    <3>1. QED
      BY <2>1, <2>2, SumOfOne
  <2>4. QED
    BY <2>1, <2>2, <2>3 DEF Change
<1>8. LoanBooks'
  <2>1. IsFiniteSet({n}) /\ {n} \in SUBSET Nonces
    BY FS_Singleton
  <2>2. \A k \in Nonces \ {n} : SameEntries(loans'[o][k], loans[o][k])
    BY <1>5 DEF SameEntries
  <2>3. "principal" \in Columns /\ "interest" \in Columns /\ "owed" \in Columns
        /\ "open" \in Columns /\ "rate" \in Columns /\ "rate_time" \in Columns
        /\ "remainder" \in Columns
    BY DEF Columns
  <2>4. /\ s.before.rate \in Int /\ s.before.rate_time \in Int
        /\ s.before.remainder \in Int /\ s.after.rate \in Int
        /\ s.after.rate_time \in Int /\ s.after.remainder \in Int
        /\ s.closed \in Int /\ s.paid \in Int /\ s.interest \in Int /\ s.accrued \in Int
    <3>1. /\ Entry(s.loan, "rate") \in Int /\ Entry(loan, "rate") \in Int
          /\ Entry(s.loan, "rate_time") \in Int /\ Entry(loan, "rate_time") \in Int
          /\ Entry(s.loan, "remainder") \in Int /\ Entry(loan, "remainder") \in Int
      BY <1>7, <2>3
    <3>2. s.closed \in Int /\ s.paid \in Int /\ s.interest \in Int /\ s.accrued \in Int
      BY <1>6
    <3>3. QED
      BY <1>6, <3>1, <3>2, Zenon
  <2>5. /\ Change(loans, loans', o, {n}, "principal") = s.interest - s.paid
        /\ Change(loans, loans', o, {n}, "interest") = s.accrued - s.interest
        /\ Change(loans, loans', o, {n}, "owed") = s.accrued - s.paid
        /\ Change(loans, loans', o, {n}, "open") = 0 - s.closed
        /\ Change(loans, loans', o, {n}, "rate") = s.after.rate - s.before.rate
        /\ Change(loans, loans', o, {n}, "rate_time")
             = s.after.rate_time - s.before.rate_time
        /\ Change(loans, loans', o, {n}, "remainder")
             = s.after.remainder - s.before.remainder
    BY <1>6, <1>7, <2>3
  <2>6. QED
    BY <1>1, <1>3, <1>4, <1>5, <2>1, <2>2, <2>4, <2>5, SettledBooks
<1>9. NoneAhead'
  BY <1>1, <1>3, <1>5, <1>6 DEF BooksInv, NoneAhead
<1>10. FewOpen'
  <2>1. operators[o].open_loans \in Nat
        /\ operators'[o].open_loans = operators[o].open_loans - s.closed
    BY <1>1 DEF BooksInv, Inv, TypeOK, AccountType, AccountSettled
  <2>2. MAX_OPEN_LOANS \in Nat
    BY RewardFloatAssumption
  <2>3. ASSUME NEW p \in Operators PROVE operators'[p].open_loans <= MAX_OPEN_LOANS
    <3>1. CASE p = o
      BY <1>6, <2>1, <2>2, <3>1 DEF BooksInv, FewOpen
    <3>2. CASE p # o
      BY <1>1, <3>2 DEF BooksInv, FewOpen, Inv, TypeOK
    <3>3. QED
      BY <3>1, <3>2
  <2>4. QED
    BY <2>3 DEF FewOpen
<1>11. ShareBooks'
  BY <1>1 DEF BooksInv, ShareBooks, PoolSettled, Retrack, Inv, TypeOK, PoolType
<1>12. QED
  BY <1>2, <1>8, <1>9, <1>10, <1>11 DEF BooksInv
-----------------------------------------------------------------------------
(***************************************************************************)
(* Lenders.                                                                *)
(***************************************************************************)
\* The sum of a table of integers when one entry is written.
LEMMA SumWritten ==
  ASSUME NEW S, IsFiniteSet(S), NEW f \in [S -> Int], NEW x \in S, NEW v \in Int
  PROVE  SumFunction([f EXCEPT ![x] = v]) = SumFunction(f) - f[x] + v
<1> DEFINE g == [f EXCEPT ![x] = v]
           d == [y \in {x} |-> v - f[x]]
<1>1. SumFunctionOnSet(g, S) = SumFunctionOnSet(f, S) + SumFunctionOnSet(d, {x})
  <2>1. IsFiniteSet({x})
    BY FS_Singleton
  <2>2. /\ \A y \in S : f[y] \in Int /\ g[y] \in Int
        /\ \A y \in {x} : d[y] = (IF y \in S THEN g[y] ELSE 0)
                                   - (IF y \in S THEN f[y] ELSE 0)
        /\ \A y \in (S \union S) \ {x} : y \in S /\ f[y] = g[y]
    OBVIOUS
  <2> HIDE DEF g, d
  <2>3. QED
    BY <2>1, <2>2, SumChanges
<1>2. d[x] = v - f[x] /\ f[x] \in Int /\ d[x] \in Int
  OBVIOUS
<1>3. SumFunctionOnSet(d, {x}) = d[x]
  <2> HIDE DEF d
  <2>1. QED
    BY <1>2, SumOfOne
<1>4. SumFunctionOnSet(f, S) \in Int
  BY SumType
<1>5. SumFunction(g) = SumFunctionOnSet(g, S) /\ SumFunction(f) = SumFunctionOnSet(f, S)
  BY DEF SumFunction
<1> HIDE DEF d, g
<1>6. SumFunction(g) = SumFunction(f) - f[x] + v
  BY <1>1, <1>2, <1>3, <1>4, <1>5
<1>7. QED
  BY <1>6 DEF g

\* What the numbers of a pool are.
LEMMA PoolFields ==
  ASSUME NEW p \in PoolType
  PROVE  /\ p.total_shares \in Nat /\ p.total_deposits \in Nat
         /\ p.total_borrowed \in Nat /\ p.accrued_interest \in Nat
         /\ p.accrual_rate \in Nat /\ p.accrual_rate_time \in Nat
         /\ p.accrual_remainders \in Nat
BY ArithmeticAssumption DEF PoolType, U64

\* The interest no loan has booked, and the value of the pool, are natural numbers.
LEMMA ValueType ==
  ASSUME NEW p \in PoolType, NEW at \in Nat
  PROVE  UnbookedInterest(p, at) \in Nat /\ Value(p, at) \in Nat
<1>1. p.accrual_rate * at \in Nat
  BY PoolFields
<1>2. SaturatingSub(p.accrual_rate * at + p.accrual_remainders, p.accrual_rate_time)
        \in Nat
  BY <1>1, PoolFields DEF SaturatingSub
<1>3. UnbookedInterest(p, at) \in Nat
  BY <1>2, LoanAssumption, DivMod DEF UnbookedInterest
<1>4. QED
  BY <1>3, PoolFields DEF Value

\* value_of_shares: the share of the value, rounded down once.
LEMMA ValueOfSharesIsFloor ==
  ASSUME NEW p \in PoolType, NEW at \in Nat, NEW held \in Nat, p.total_shares > 0
  PROVE  LET worth == ValueOfShares(p, held, at)
         IN  /\ worth \in Nat
             /\ worth * p.total_shares <= held * Value(p, at)
             /\ held * Value(p, at) < worth * p.total_shares + p.total_shares
<1> DEFINE V == Value(p, at)
           S == p.total_shares
           q == V \div S
           r == V % S
           k == (held * r) \div S
           m == (held * r) % S
<1>1. V \in Nat /\ S \in Nat \ {0}
  BY ValueType, PoolFields
<1>2. q \in Nat /\ r \in 0..(S - 1) /\ V = q * S + r
  <2> HIDE DEF V, S
  <2>1. QED
    BY <1>1, DivMod, Division
<1>3. held * r \in Nat
  BY SMTT(40), <1>1, <1>2
<1>4. k \in Nat /\ m \in 0..(S - 1) /\ held * r = k * S + m
  <2> HIDE DEF V, S, r, q
  <2>1. QED
    BY <1>1, <1>3, DivMod, Division
<1>5. CASE held = 0
  <2>1. ValueOfShares(p, held, at) = 0
    BY <1>5 DEF ValueOfShares
  <2> HIDE DEF V, S, q, r, k, m
  <2>2. 0 * S = 0 /\ held * V = 0
    BY <1>1, <1>5
  <2>3. QED
    BY <1>1, <2>1, <2>2 DEF V, S
<1>6. CASE held # 0
  <2>1. ValueOfShares(p, held, at) = held * q + k
    BY <1>6 DEF ValueOfShares
  <2> HIDE DEF V, S, q, r, k, m
  <2>2. /\ held * q \in Nat /\ r \in Nat /\ m \in Nat /\ m < S /\ k * S \in Nat
        /\ held * q * S \in Nat
    BY <1>1, <1>2, <1>4
  <2>3. held * V = held * q * S + held * r
    <3>1. \A a, b, c, d \in Nat : a * (b * c + d) = a * b * c + a * d
      OBVIOUS
    <3>2. QED
      BY <1>1, <1>2, <2>2, <3>1
  <2>4. (held * q + k) * S = held * q * S + k * S
    <3>1. \A a, b, c \in Nat : (a + b) * c = a * c + b * c
      OBVIOUS
    <3>2. QED
      BY <1>1, <1>4, <2>2, <3>1
  <2>5. held * V = (held * q + k) * S + m
    BY <1>4, <2>2, <2>3, <2>4
  <2>6. (held * q + k) * S \in Nat /\ held * q + k \in Nat
    BY <1>4, <2>2, <2>4
  <2> DEFINE w == held * q + k
  <2>7. ValueOfShares(p, held, at) = w /\ w \in Nat /\ w * S \in Nat /\ held * V = w * S + m
    BY <2>1, <2>5, <2>6
  <2> HIDE DEF w
  <2>8. w * S <= held * V /\ held * V < w * S + S
    BY <1>1, <2>2, <2>7
  <2>9. QED
    BY <2>7, <2>8 DEF V, S
<1>7. QED
  BY <1>5, <1>6

\* The numbers of a deposit.
LEMMA DepositFacts ==
  ASSUME TypeOK, NEW l \in Lenders, NEW amount \in Deposits, Deposit(l, amount)
  PROVE  LET minted == SharesForDeposit(pool, amount, now)
         IN  /\ minted \in Nat /\ amount \in Nat
             /\ pool.total_shares > 0 =>
                  /\ Value(pool, now) > 0
                  /\ minted * Value(pool, now) <= amount * pool.total_shares
<1>1. /\ now \in Nat /\ pool \in PoolType /\ amount \in Nat
      /\ pool.total_shares \in Nat /\ Value(pool, now) \in Nat
  BY PoolFields, ValueType, RewardFloatAssumption, ArithmeticAssumption DEF TypeOK, U64
<1>2. CASE pool.total_shares = 0
  BY <1>1, <1>2 DEF SharesForDeposit
<1>3. CASE pool.total_shares # 0
  <2>1. Value(pool, now) > 0
    BY <1>3 DEF Deposit
  <2>2. SharesForDeposit(pool, amount, now)
          = (amount * pool.total_shares) \div Value(pool, now)
    BY <1>3 DEF SharesForDeposit
  <2>3. amount * pool.total_shares \in Nat
    BY <1>1
  <2> DEFINE x == amount * pool.total_shares
             V == Value(pool, now)
  <2>4. x \in Nat /\ V \in Nat \ {0} /\ SharesForDeposit(pool, amount, now) = x \div V
    BY <1>1, <2>1, <2>2, <2>3
  <2> HIDE DEF x, V
  <2>5. x \div V \in Nat /\ (x \div V) * V <= x
    BY <2>4, DivMod, Division
  <2>6. QED
    BY <1>1, <2>1, <2>4, <2>5 DEF x, V
<1>4. QED
  BY <1>2, <1>3

\* The numbers of a withdrawal.
LEMMA WithdrawFacts ==
  ASSUME TypeOK, NEW l \in Lenders, NEW max_amount \in Withdrawals,
         Withdraw(l, max_amount)
  PROVE  LET worth  == ValueOfShares(pool, shares[l], now)
             paid   == WithdrawalPaid(pool, shares[l], max_amount, now)
             burned == WithdrawalShares(pool, shares[l], max_amount, now)
             V      == Value(pool, now)
             S      == pool.total_shares
         IN  /\ V \in Nat \ {0} /\ S \in Nat \ {0} /\ shares[l] \in Nat
             /\ worth \in Nat /\ paid \in Nat /\ burned \in Nat
             /\ paid <= worth
             /\ paid = worth => burned = shares[l]
             /\ paid # worth => /\ paid * S <= burned * V
                                /\ burned * V < paid * S + V
<1> DEFINE worth == ValueOfShares(pool, shares[l], now)
           paid == WithdrawalPaid(pool, shares[l], max_amount, now)
           burned == WithdrawalShares(pool, shares[l], max_amount, now)
           V == Value(pool, now)
           S == pool.total_shares
<1>1. /\ now \in Nat /\ pool \in PoolType /\ V \in Nat /\ S \in Nat
      /\ shares[l] \in Nat /\ max_amount \in Nat
      /\ FreeLiquidity(pool) > 0 /\ FreeLiquidity(pool) \in Int
      /\ shares[l] <= S /\ shares[l] > 0 /\ worth > 0
  BY PoolFields, ValueType, RewardFloatAssumption, ArithmeticAssumption
     DEF TypeOK, U64, Withdraw, FreeLiquidity
<1>2. worth \in Nat /\ worth * S <= shares[l] * V
  BY <1>1, ValueOfSharesIsFloor
<1>3. paid \in Nat /\ paid <= worth
  BY <1>1, <1>2 DEF WithdrawalPaid, Least
<1>4. burned = IF paid = worth THEN shares[l] ELSE DivCeil(paid * S, V)
  BY DEF WithdrawalShares
<1> HIDE DEF worth, paid, burned, V, S
<1>5. V > 0
  <2>1. \A a, b, c \in Nat : a > 0 /\ b > 0 /\ a * b <= c * 0 => FALSE
    OBVIOUS
  <2>2. QED
    BY <1>1, <1>2, <2>1
<1>6. ASSUME paid # worth
      PROVE  burned \in Nat /\ paid * S <= burned * V /\ burned * V < paid * S + V
  <2>1. paid * S \in Nat
    BY <1>1, <1>3
  <2>2. burned = DivCeil(paid * S, V)
    BY <1>4, <1>6
  <2>3. QED
    BY <1>1, <1>5, <2>1, <2>2, RoundedUp
<1>7. QED
  BY <1>1, <1>2, <1>3, <1>4, <1>5, <1>6 DEF worth, paid, burned, V, S

\* Deposits and withdrawals.
LEMMA LenderBooks == BooksInv /\ LenderStep => BooksInv'
<1>0. ASSUME BooksInv, NEW l \in Lenders, NEW v \in Int
      PROVE  /\ SumFunction([shares EXCEPT ![l] = v]) = SumFunction(shares) - shares[l] + v
             /\ shares[l] \in Int /\ SumFunction(shares) \in Int
  <2>1. IsFiniteSet(Lenders) /\ shares \in [Lenders -> Int]
    BY <1>0, RewardFloatAssumption, ArithmeticAssumption DEF BooksInv, Inv, TypeOK, U64
  <2>2. SumFunction(shares) = SumFunctionOnSet(shares, Lenders)
    BY <2>1 DEF SumFunction
  <2>3. SumFunctionOnSet(shares, Lenders) \in Int
    BY <2>1, SumType
  <2>4. SumFunction([shares EXCEPT ![l] = v]) = SumFunction(shares) - shares[l] + v
    BY <1>0, <2>1, SumWritten
  <2>5. QED
    BY <1>0, <2>1, <2>2, <2>3, <2>4
<1>1. ASSUME BooksInv, NEW l \in Lenders, NEW amount \in Deposits, Deposit(l, amount)
      PROVE  BooksInv'
  <2> DEFINE minted == SharesForDeposit(pool, amount, now)
  <2>1. Inv'
    BY <1>1, LenderInv DEF BooksInv, LenderStep
  <2>2. /\ pool' = [pool EXCEPT !.total_shares = @ + minted, !.total_deposits = @ + amount]
        /\ shares' = [shares EXCEPT ![l] = shares[l] + minted]
        /\ UNCHANGED <<now, operators, loans, rewards, watches, market>>
    BY <1>1 DEF Deposit
  <2>3. minted \in Nat
    BY <1>1, DepositFacts DEF BooksInv, Inv
  <2> HIDE DEF minted
  <2>4. LoanBooks'
    BY <1>1, <2>2, BooksStay DEF BooksInv, Inv, TypeOK, PoolType, PoolColumns, Booked
  <2>5. ShareBooks'
    <3>1. shares[l] \in Int
      BY <1>1, ArithmeticAssumption DEF BooksInv, Inv, TypeOK, U64
    <3>2. shares[l] + minted \in Int
      BY <2>3, <3>1
    <3>3. SumFunction([shares EXCEPT ![l] = shares[l] + minted]) = SumFunction(shares) + minted
      BY <1>0, <1>1, <2>3, <3>2
    <3>4. pool'.total_shares = pool.total_shares + minted
      BY <1>1, <2>2 DEF BooksInv, Inv, TypeOK, PoolType
    <3>5. QED
      BY <1>1, <2>2, <3>3, <3>4 DEF BooksInv, ShareBooks
  <2>6. QED
    BY <1>1, <2>1, <2>2, <2>4, <2>5 DEF BooksInv, NoneAhead, FewOpen
<1>2. ASSUME BooksInv, NEW l \in Lenders, NEW max_amount \in Withdrawals,
             Withdraw(l, max_amount)
      PROVE  BooksInv'
  <2> DEFINE paid == WithdrawalPaid(pool, shares[l], max_amount, now)
             burned == WithdrawalShares(pool, shares[l], max_amount, now)
  <2>1. Inv'
    BY <1>2, LenderInv DEF BooksInv, LenderStep
  <2>2. /\ pool' = [pool EXCEPT !.total_shares = @ - burned, !.total_deposits = @ - paid]
        /\ shares' = [shares EXCEPT ![l] = shares[l] - burned]
        /\ UNCHANGED <<now, operators, loans, rewards, watches, market>>
    BY <1>2 DEF Withdraw
  <2>3. burned \in Nat
    BY <1>2, WithdrawFacts DEF BooksInv, Inv
  <2> HIDE DEF paid, burned
  <2>4. LoanBooks'
    BY <1>2, <2>2, BooksStay DEF BooksInv, Inv, TypeOK, PoolType, PoolColumns, Booked
  <2>5. ShareBooks'
    <3>1. shares[l] \in Int
      BY <1>2, ArithmeticAssumption DEF BooksInv, Inv, TypeOK, U64
    <3>2. shares[l] - burned \in Int
      BY <2>3, <3>1
    <3>3. SumFunction([shares EXCEPT ![l] = shares[l] - burned]) = SumFunction(shares) - burned
      BY <1>0, <1>2, <2>3, <3>2
    <3>4. pool'.total_shares = pool.total_shares - burned
      BY <1>2, <2>2 DEF BooksInv, Inv, TypeOK, PoolType
    <3>5. QED
      BY <1>2, <2>2, <3>3, <3>4 DEF BooksInv, ShareBooks
  <2>6. QED
    BY <1>2, <2>1, <2>2, <2>4, <2>5 DEF BooksInv, NoneAhead, FewOpen
<1>3. QED
  BY <1>1, <1>2 DEF LenderStep

\* The token program, the market and the clock.
LEMMA OthersBooks ==
  ASSUME BooksInv,
         \/ RewardStep
         \/ \E m \in RewardMints, amount \in Fundings : FundConversion(m, amount)
         \/ \E attestor \in Keys : SetAttestor(attestor)
         \/ Tick
  PROVE  BooksInv'
<1>1. Inv'
  BY OthersInv DEF BooksInv
<1>2. /\ UNCHANGED <<operators, loans, shares>>
      /\ now' = now \/ now' = now + 1
      /\ pool' = pool \/ \E attestor \in Keys : pool' = [pool EXCEPT !.attestor = attestor]
  BY DEF RewardStep, ReceivePayout, MoveOut, Approve, Revoke, FundConversion,
         SetAttestor, Tick
<1>3. pool'.total_shares = pool.total_shares
      /\ \A c \in PoolColumns : Booked(pool', c) = Booked(pool, c)
  BY <1>2 DEF BooksInv, Inv, TypeOK, PoolType, PoolColumns, Booked
<1>4. LoanBooks' /\ ShareBooks' /\ FewOpen'
  BY <1>2, <1>3, BooksStay DEF BooksInv, ShareBooks, FewOpen
<1>5. NoneAhead'
  <2>1. ASSUME NEW o \in Operators, NEW n \in Nonces, Counts(loans[o][n])
        PROVE  loans[o][n].last_accrual_at <= now'
    <3>1. loans[o][n] \in LoanType /\ now \in Nat
      BY <2>1 DEF Counts, BooksInv, Inv, TypeOK
    <3>2. loans[o][n].last_accrual_at \in Nat /\ loans[o][n].last_accrual_at <= now
      BY <2>1, <3>1, LoanFields DEF BooksInv, NoneAhead
    <3>3. QED
      BY <1>2, <3>1, <3>2
  <2>2. QED
    BY <1>2, <2>1 DEF NoneAhead
<1>6. QED
  BY <1>1, <1>4, <1>5 DEF BooksInv
-----------------------------------------------------------------------------
(***************************************************************************)
(* Borrowing.                                                              *)
(***************************************************************************)
\* A sum of differences.
LEMMA SumMinus ==
  ASSUME NEW f, NEW g, NEW h, NEW S, IsFiniteSet(S),
         \A x \in S : f[x] \in Int /\ g[x] \in Int /\ h[x] = f[x] - g[x]
  PROVE  /\ SumFunctionOnSet(f, S) \in Int /\ SumFunctionOnSet(g, S) \in Int
         /\ SumFunctionOnSet(h, S) = SumFunctionOnSet(f, S) - SumFunctionOnSet(g, S)
<1>1. \A x \in S : h[x] \in Int /\ g[x] \in Int /\ f[x] = h[x] + g[x]
  OBVIOUS
<1>2. SumFunctionOnSet(f, S) = SumFunctionOnSet(h, S) + SumFunctionOnSet(g, S)
  BY <1>1, SumPlus
<1>3. SumFunctionOnSet(h, S) \in Int /\ SumFunctionOnSet(g, S) \in Int
      /\ SumFunctionOnSet(f, S) \in Int
  BY <1>1, SumType
<1>4. QED
  BY <1>2, <1>3

\* The open loans are those that count.
LEMMA OpenLoansAre ==
  ASSUME NEW o \in Operators
  PROVE  /\ OpenLoans(o) = OpenIn(loans, o)
         /\ \A n \in Nonces : n \in OpenLoans(o) <=> Counts(loans[o][n])
BY DEF OpenLoans, OpenIn, Counts

\* What bringing a loan up to now moves, column by column.
LEMMA AccruedEntries ==
  ASSUME now \in Nat, NEW loan \in LoanType, IsOpen(loan),
         loan.last_accrual_at <= now, Accrue(loan, now) \in LoanType
  PROVE  LET a == Accrue(loan, now)
         IN  /\ Counts(a) /\ a.last_accrual_at = now
             /\ Entry(a, "principal") - Entry(loan, "principal") = 0
             /\ Entry(a, "interest") - Entry(loan, "interest") = InterestTo(loan, now)
             /\ Entry(a, "owed") - Entry(loan, "owed") = InterestTo(loan, now)
             /\ Entry(a, "open") - Entry(loan, "open") = 0
             /\ Entry(a, "rate") = AccrualTerms(a).rate
             /\ Entry(a, "rate_time") = AccrualTerms(a).rate_time
             /\ Entry(a, "remainder") = AccrualTerms(a).remainder
             /\ Entry(loan, "rate") = AccrualTerms(loan).rate
             /\ Entry(loan, "rate_time") = AccrualTerms(loan).rate_time
             /\ Entry(loan, "remainder") = AccrualTerms(loan).remainder
<1> DEFINE a == Accrue(loan, now)
<1>1. /\ a \in LoanType /\ IsOpen(a) /\ a.outstanding = loan.outstanding
      /\ a.accrued_interest = loan.accrued_interest + InterestTo(loan, now)
      /\ a.last_accrual_at = now /\ InterestTo(loan, now) \in Nat
      /\ TotalOwed(a) = TotalOwed(loan) + InterestTo(loan, now)
  BY AccrueFacts, AccrueFields, InterestType DEF IsOpen
<1>2. /\ loan.outstanding \in Nat /\ loan.accrued_interest \in Nat
      /\ TotalOwed(loan) \in Nat
  BY LoanFields DEF TotalOwed
<1>3. Counts(a) /\ Counts(loan)
  BY <1>1, RewardFloatAssumption DEF Counts
<1> HIDE DEF a
<1>4. QED
  BY <1>1, <1>2, <1>3 DEF Entry, a

\* How far accrue_open_loans moves a column.
AccrualMove(o, c) ==
  SumFunctionOnSet([n \in OpenLoans(o) |-> Entry(AccruedLoans(o)[n], c)
                                             - Entry(loans[o][n], c)], OpenLoans(o))

\* The accrual terms of an operator's open loans before and after accrue_open_loans.
TermsBefore(o) == SumTerms([n \in OpenLoans(o) |-> AccrualTerms(loans[o][n])])
TermsAfter(o) == SumTerms([n \in OpenLoans(o) |-> AccrualTerms(AccruedLoans(o)[n])])

\* It moves each by what the pool and the operator account are moved.
LEMMA AccrualMoves ==
  ASSUME BooksInv, NEW o \in Operators,
         \A n \in OpenLoans(o) : AccruedLoans(o)[n] \in LoanType
  PROVE  /\ InterestBooked(o) \in Nat
         /\ AccrualMove(o, "principal") = 0
         /\ AccrualMove(o, "open") = 0
         /\ AccrualMove(o, "interest") = InterestBooked(o)
         /\ AccrualMove(o, "owed") = InterestBooked(o)
         /\ AccrualMove(o, "rate") = TermsAfter(o).rate - TermsBefore(o).rate
         /\ AccrualMove(o, "rate_time")
              = TermsAfter(o).rate_time - TermsBefore(o).rate_time
         /\ AccrualMove(o, "remainder")
              = TermsAfter(o).remainder - TermsBefore(o).remainder
         /\ TermsBefore(o).rate \in Int /\ TermsAfter(o).rate \in Int
         /\ TermsBefore(o).rate_time \in Int /\ TermsAfter(o).rate_time \in Int
         /\ TermsBefore(o).remainder \in Int /\ TermsAfter(o).remainder \in Int
<1> DEFINE T == OpenLoans(o)
           d(c) == [n \in T |-> Entry(AccruedLoans(o)[n], c) - Entry(loans[o][n], c)]
           w == [n \in T |-> InterestTo(loans[o][n], now)]
<1>1. IsFiniteSet(T)
  BY OpenLoansAre DEF BooksInv, LoanBooks, FiniteBooks
<1>2. ASSUME NEW n \in T
      PROVE  /\ loans[o][n] \in LoanType /\ IsOpen(loans[o][n]) /\ now \in Nat
             /\ loans[o][n].last_accrual_at <= now
             /\ AccruedLoans(o)[n] = Accrue(loans[o][n], now)
             /\ Accrue(loans[o][n], now) \in LoanType
  BY OpenLoanType, OpenLoansAre DEF BooksInv, Inv, TypeOK, NoneAhead, AccruedLoans
<1>3. ASSUME NEW n \in T
      PROVE  /\ d("principal")[n] = 0
             /\ d("open")[n] = 0
             /\ d("interest")[n] = InterestTo(loans[o][n], now)
             /\ d("owed")[n] = InterestTo(loans[o][n], now)
             /\ InterestTo(loans[o][n], now) \in Nat
  BY <1>2, AccruedEntries, InterestType
<1>4. ASSUME NEW n \in T
      PROVE  /\ d("rate")[n] = AccrualTerms(AccruedLoans(o)[n]).rate
                                 - AccrualTerms(loans[o][n]).rate
             /\ d("rate_time")[n] = AccrualTerms(AccruedLoans(o)[n]).rate_time
                                      - AccrualTerms(loans[o][n]).rate_time
             /\ d("remainder")[n] = AccrualTerms(AccruedLoans(o)[n]).remainder
                                      - AccrualTerms(loans[o][n]).remainder
  BY <1>2, AccruedEntries
<1>5. ASSUME NEW n \in T
      PROVE  /\ AccrualTerms(AccruedLoans(o)[n]).rate \in Int
             /\ AccrualTerms(loans[o][n]).rate \in Int
             /\ AccrualTerms(AccruedLoans(o)[n]).rate_time \in Int
             /\ AccrualTerms(loans[o][n]).rate_time \in Int
             /\ AccrualTerms(AccruedLoans(o)[n]).remainder \in Int
             /\ AccrualTerms(loans[o][n]).remainder \in Int
  <2>1. "rate" \in Columns /\ "rate_time" \in Columns /\ "remainder" \in Columns
    BY DEF Columns
  <2>2. /\ loans[o][n] \in LoanType \union {NoLoan}
        /\ AccruedLoans(o)[n] \in LoanType \union {NoLoan}
    BY <1>2
  <2>3. \A c \in Columns : Entry(loans[o][n], c) \in Nat
                           /\ Entry(AccruedLoans(o)[n], c) \in Nat
    BY <2>2, EntryType
  <2>4. QED
    BY <1>2, <2>1, <2>3, AccruedEntries
<1>6. InterestBooked(o) = SumFunctionOnSet(w, T)
  BY DEF InterestBooked, SumFunction
<1>7. \A n \in T : w[n] = InterestTo(loans[o][n], now)
  OBVIOUS
<1>8. \A c \in Columns : AccrualMove(o, c) = SumFunctionOnSet(d(c), T)
  BY DEF AccrualMove
<1>9. AccrualMove(o, "principal") = 0 /\ AccrualMove(o, "open") = 0
  <2> HIDE DEF d, T
  <2>1. SumFunctionOnSet(d("principal"), T) = 0 /\ SumFunctionOnSet(d("open"), T) = 0
    BY <1>1, <1>3, SumOfZeros
  <2>2. QED
    BY <1>8, <2>1 DEF Columns
<1>10. /\ InterestBooked(o) \in Nat
       /\ AccrualMove(o, "interest") = InterestBooked(o)
       /\ AccrualMove(o, "owed") = InterestBooked(o)
  <2> HIDE DEF d, T, w
  <2>1. SumFunctionOnSet(w, T) \in Nat
    BY <1>1, <1>3, <1>7, SumOfNaturals
  <2>2. SumFunctionOnSet(w, T) = SumFunctionOnSet(d("interest"), T)
    BY <1>1, <1>3, <1>7, SumSame
  <2>3. SumFunctionOnSet(w, T) = SumFunctionOnSet(d("owed"), T)
    BY <1>1, <1>3, <1>7, SumSame
  <2>4. QED
    BY <1>6, <1>8, <2>1, <2>2, <2>3 DEF Columns
<1>12. /\ AccrualMove(o, "rate") = TermsAfter(o).rate - TermsBefore(o).rate
       /\ TermsBefore(o).rate \in Int /\ TermsAfter(o).rate \in Int
  <2> DEFINE f == [n \in T |-> AccrualTerms(AccruedLoans(o)[n]).rate]
             g == [n \in T |-> AccrualTerms(loans[o][n]).rate]
  <2>1. TermsAfter(o).rate = SumFunctionOnSet(f, T)
        /\ TermsBefore(o).rate = SumFunctionOnSet(g, T)
    BY DEF TermsAfter, TermsBefore, SumTerms, SumFunction
  <2>2. \A n \in T : /\ f[n] \in Int /\ g[n] \in Int /\ d("rate")[n] = f[n] - g[n]
    BY <1>4, <1>5
  <2> HIDE DEF d, T, f, g
  <2>3. /\ SumFunctionOnSet(d("rate"), T) = SumFunctionOnSet(f, T) - SumFunctionOnSet(g, T)
        /\ SumFunctionOnSet(f, T) \in Int /\ SumFunctionOnSet(g, T) \in Int
    BY <1>1, <2>2, SumMinus
  <2>4. QED
    BY <1>8, <2>1, <2>3 DEF Columns
<1>13. /\ AccrualMove(o, "rate_time") = TermsAfter(o).rate_time - TermsBefore(o).rate_time
       /\ TermsBefore(o).rate_time \in Int /\ TermsAfter(o).rate_time \in Int
  <2> DEFINE f == [n \in T |-> AccrualTerms(AccruedLoans(o)[n]).rate_time]
             g == [n \in T |-> AccrualTerms(loans[o][n]).rate_time]
  <2>1. TermsAfter(o).rate_time = SumFunctionOnSet(f, T)
        /\ TermsBefore(o).rate_time = SumFunctionOnSet(g, T)
    BY DEF TermsAfter, TermsBefore, SumTerms, SumFunction
  <2>2. \A n \in T : /\ f[n] \in Int /\ g[n] \in Int /\ d("rate_time")[n] = f[n] - g[n]
    BY <1>4, <1>5
  <2> HIDE DEF d, T, f, g
  <2>3. /\ SumFunctionOnSet(d("rate_time"), T)
             = SumFunctionOnSet(f, T) - SumFunctionOnSet(g, T)
        /\ SumFunctionOnSet(f, T) \in Int /\ SumFunctionOnSet(g, T) \in Int
    BY <1>1, <2>2, SumMinus
  <2>4. QED
    BY <1>8, <2>1, <2>3 DEF Columns
<1>14. /\ AccrualMove(o, "remainder") = TermsAfter(o).remainder - TermsBefore(o).remainder
       /\ TermsBefore(o).remainder \in Int /\ TermsAfter(o).remainder \in Int
  <2> DEFINE f == [n \in T |-> AccrualTerms(AccruedLoans(o)[n]).remainder]
             g == [n \in T |-> AccrualTerms(loans[o][n]).remainder]
  <2>1. TermsAfter(o).remainder = SumFunctionOnSet(f, T)
        /\ TermsBefore(o).remainder = SumFunctionOnSet(g, T)
    BY DEF TermsAfter, TermsBefore, SumTerms, SumFunction
  <2>2. \A n \in T : /\ f[n] \in Int /\ g[n] \in Int /\ d("remainder")[n] = f[n] - g[n]
    BY <1>4, <1>5
  <2> HIDE DEF d, T, f, g
  <2>3. /\ SumFunctionOnSet(d("remainder"), T)
             = SumFunctionOnSet(f, T) - SumFunctionOnSet(g, T)
        /\ SumFunctionOnSet(f, T) \in Int /\ SumFunctionOnSet(g, T) \in Int
    BY <1>1, <2>2, SumMinus
  <2>4. QED
    BY <1>8, <2>1, <2>3 DEF Columns
<1>15. QED
  BY <1>9, <1>10, <1>12, <1>13, <1>14
\* What a loan that goes out writes.
LEMMA BorrowWrites ==
  ASSUME BooksInv, NEW o \in Operators, NEW m \in RewardMints, NEW amount \in Loans,
         NEW term \in 1..MAX_TERM_PERIODS, NEW share \in SweepShares,
         NEW apr \in MaxAprs, NEW limit \in LimitAttestations,
         NEW rate \in RateAttestations,
         Borrow(o, m, amount, term, share, apr, limit, rate)
  PROVE  LET loan == NewLoan(m, amount, term, share, QuoteAprBps(PoolAccrued(o), amount))
         IN  /\ limit.nonce \in Nonces /\ loans[o][limit.nonce] = NoLoan
             /\ amount \in Nat /\ amount > 0
             /\ loan \in LoanType /\ loan # NoLoan /\ IsOpen(loan)
             /\ \A n \in OpenLoans(o) : AccruedLoans(o)[n] \in LoanType
             /\ \A p \in Operators : p # o =>
                  loans'[p] = loans[p] /\ operators'[p] = operators[p]
             /\ \A n \in Nonces :
                  loans'[o][n] = IF n = limit.nonce THEN loan
                                 ELSE IF n \in OpenLoans(o) THEN AccruedLoans(o)[n]
                                 ELSE loans[o][n]
             /\ operators'[o].total_debt
                  = operators[o].total_debt + InterestBooked(o) + amount
             /\ operators'[o].total_debt <= limit.limit
             /\ operators'[o].open_loans = operators[o].open_loans + 1
             /\ operators[o].open_loans < MAX_OPEN_LOANS
             /\ pool'.total_shares = pool.total_shares
             /\ pool'.total_deposits = pool.total_deposits
             /\ pool'.total_borrowed = pool.total_borrowed + amount
             /\ pool'.accrued_interest = pool.accrued_interest + InterestBooked(o)
             /\ pool'.accrual_rate = pool.accrual_rate - TermsBefore(o).rate
                  + TermsAfter(o).rate + AccrualTerms(loan).rate
             /\ pool'.accrual_rate_time = pool.accrual_rate_time
                  - TermsBefore(o).rate_time + TermsAfter(o).rate_time
                  + AccrualTerms(loan).rate_time
             /\ pool'.accrual_remainders = pool.accrual_remainders
                  - TermsBefore(o).remainder + TermsAfter(o).remainder
                  + AccrualTerms(loan).remainder
             /\ now' = now /\ shares' = shares
<1> DEFINE accrued == PoolAccrued(o)
           loan    == NewLoan(m, amount, term, share, QuoteAprBps(accrued, amount))
           lent    == [Retrack(accrued, NoTerms, AccrualTerms(loan)) EXCEPT
                         !.total_borrowed = @ + amount]
           debt    == operators[o].total_debt + InterestBooked(o) + amount
           row     == [n \in Nonces |->
                           IF n = limit.nonce THEN loan
                           ELSE IF n \in OpenLoans(o) THEN AccruedLoans(o)[n]
                           ELSE loans[o][n]]
           written == [ total_debt |-> debt,
                        open_loans |-> operators[o].open_loans + 1,
                        window     |-> ConsumeNonce(operators[o].window, limit.nonce) ]
<1>1. /\ amount > 0 /\ share \in 1..BPS
      /\ \A n \in OpenLoans(o) : AccruedLoans(o)[n] \in LoanType
      /\ loans[o][limit.nonce] = NoLoan
      /\ debt <= limit.limit
      /\ operators[o].open_loans < MAX_OPEN_LOANS
      /\ accrued \in PoolType
      /\ amount <= FreeLiquidity(accrued)
      /\ QuoteAprBps(accrued, amount) <= APR_MAX
      /\ pool' = lent
      /\ operators' = [operators EXCEPT ![o] = written]
      /\ loans' = [loans EXCEPT ![o] = row]
      /\ UNCHANGED <<now, shares, market>>
  BY DEF Borrow
<1>2. limit.nonce \in Nonces /\ amount \in Nat /\ now \in Nat
  BY RewardFloatAssumption, ArithmeticAssumption DEF U64, BooksInv, Inv, TypeOK
<1>3. loan \in LoanType /\ loan # NoLoan /\ IsOpen(loan)
  <2>1. QuoteAprBps(accrued, amount) \in 0..APR_MAX
    BY <1>1, <1>2, QuoteType, LoanAssumption
  <2>2. now + term * REPAYMENT_PERIOD \in Nat
    BY <1>2, LoanAssumption, RewardFloatAssumption
  <2>3. 0 \in U64 /\ 0 \in 0..(ACCRUAL_DENOMINATOR - 1)
    BY ArithmeticAssumption, LoanAssumption DEF U64
  <2>4. amount \in U64
    BY RewardFloatAssumption
  <2> HIDE DEF accrued
  <2>5. loan \in LoanType
    BY <1>1, <1>2, <2>1, <2>2, <2>3, <2>4
       DEF NewLoan, LoanType, LoanStatuses, ManualReasons, NoReason
  <2>6. QED
    BY <2>5, RewardFloatAssumption DEF NewLoan, IsOpen
<1>4. /\ accrued.total_shares = pool.total_shares
      /\ accrued.total_deposits = pool.total_deposits
      /\ accrued.total_borrowed = pool.total_borrowed
      /\ accrued.accrued_interest = pool.accrued_interest + InterestBooked(o)
      /\ accrued.accrual_rate
           = pool.accrual_rate - TermsBefore(o).rate + TermsAfter(o).rate
      /\ accrued.accrual_rate_time
           = pool.accrual_rate_time - TermsBefore(o).rate_time + TermsAfter(o).rate_time
      /\ accrued.accrual_remainders
           = pool.accrual_remainders - TermsBefore(o).remainder + TermsAfter(o).remainder
  BY DEF PoolAccrued, Retrack, BooksInv, Inv, TypeOK, PoolType, TermsBefore, TermsAfter
<1> HIDE DEF accrued, loan
<1>5. /\ lent.total_shares = accrued.total_shares
      /\ lent.total_deposits = accrued.total_deposits
      /\ lent.total_borrowed = accrued.total_borrowed + amount
      /\ lent.accrued_interest = accrued.accrued_interest
      /\ lent.accrual_rate = accrued.accrual_rate - 0 + AccrualTerms(loan).rate
      /\ lent.accrual_rate_time
           = accrued.accrual_rate_time - 0 + AccrualTerms(loan).rate_time
      /\ lent.accrual_remainders
           = accrued.accrual_remainders - 0 + AccrualTerms(loan).remainder
  BY <1>1 DEF Retrack, NoTerms, PoolType
<1> HIDE DEF lent
<1>6. /\ \A p \in Operators : p # o =>
           loans'[p] = loans[p] /\ operators'[p] = operators[p]
      /\ loans'[o] = row /\ operators'[o] = written
  BY <1>1 DEF BooksInv, Inv, TypeOK
<1>7. /\ \A n \in Nonces :
           row[n] = IF n = limit.nonce THEN loan
                    ELSE IF n \in OpenLoans(o) THEN AccruedLoans(o)[n]
                    ELSE loans[o][n]
      /\ written.total_debt = debt
      /\ written.open_loans = operators[o].open_loans + 1
  OBVIOUS
<1> HIDE DEF row, written, debt
<1>8. /\ pool'.total_shares = pool.total_shares
      /\ pool'.total_deposits = pool.total_deposits
      /\ pool'.total_borrowed = pool.total_borrowed + amount
      /\ pool'.accrued_interest = pool.accrued_interest + InterestBooked(o)
      /\ pool'.accrual_rate = pool.accrual_rate - TermsBefore(o).rate
           + TermsAfter(o).rate + AccrualTerms(loan).rate
      /\ pool'.accrual_rate_time = pool.accrual_rate_time
           - TermsBefore(o).rate_time + TermsAfter(o).rate_time
           + AccrualTerms(loan).rate_time
      /\ pool'.accrual_remainders = pool.accrual_remainders
           - TermsBefore(o).remainder + TermsAfter(o).remainder
           + AccrualTerms(loan).remainder
  <2>1. /\ TermsBefore(o).rate \in Int /\ TermsAfter(o).rate \in Int
        /\ TermsBefore(o).rate_time \in Int /\ TermsAfter(o).rate_time \in Int
        /\ TermsBefore(o).remainder \in Int /\ TermsAfter(o).remainder \in Int
    BY <1>1, AccrualMoves
  <2>2. /\ AccrualTerms(loan).rate \in Int /\ AccrualTerms(loan).rate_time \in Int
        /\ AccrualTerms(loan).remainder \in Int
    <3>1. "rate" \in Columns /\ "rate_time" \in Columns /\ "remainder" \in Columns
      BY DEF Columns
    <3>2. \A c \in Columns : Entry(loan, c) \in Nat
      BY <1>3, EntryType
    <3>3. /\ Entry(loan, "rate") = AccrualTerms(loan).rate
          /\ Entry(loan, "rate_time") = AccrualTerms(loan).rate_time
          /\ Entry(loan, "remainder") = AccrualTerms(loan).remainder
      BY <1>3 DEF Entry, Counts
    <3>4. QED
      BY <3>1, <3>2, <3>3
  <2>3. /\ pool.accrual_rate \in Int /\ pool.accrual_rate_time \in Int
        /\ pool.accrual_remainders \in Int
    BY PoolFields DEF BooksInv, Inv, TypeOK
  <2>4. QED
    BY <1>1, <1>4, <1>5, <2>1, <2>2, <2>3
<1>9. /\ \A n \in Nonces :
           loans'[o][n] = IF n = limit.nonce THEN loan
                          ELSE IF n \in OpenLoans(o) THEN AccruedLoans(o)[n]
                          ELSE loans[o][n]
      /\ operators'[o].total_debt = debt
      /\ operators'[o].open_loans = operators[o].open_loans + 1
  BY <1>6, <1>7
<1>10. QED
  BY <1>1, <1>2, <1>3, <1>6, <1>8, <1>9 DEF loan, accrued, debt

\* The books after a loan.
LEMMA BorrowBooks ==
  ASSUME BooksInv, NEW o \in Operators, NEW m \in RewardMints, NEW amount \in Loans,
         NEW term \in 1..MAX_TERM_PERIODS, NEW share \in SweepShares,
         NEW apr \in MaxAprs, NEW limit \in LimitAttestations,
         NEW rate \in RateAttestations,
         Borrow(o, m, amount, term, share, apr, limit, rate)
  PROVE  BooksInv'
<1> DEFINE nonce == limit.nonce
           loan == NewLoan(m, amount, term, share, QuoteAprBps(PoolAccrued(o), amount))
           T == OpenLoans(o)
<1>1. Inv'
  BY BorrowInv DEF BooksInv
<1>2. /\ nonce \in Nonces /\ loans[o][nonce] = NoLoan
      /\ amount \in Nat
      /\ loan \in LoanType /\ loan # NoLoan /\ IsOpen(loan)
      /\ \A n \in T : AccruedLoans(o)[n] \in LoanType
      /\ \A p \in Operators : p # o =>
           loans'[p] = loans[p] /\ operators'[p] = operators[p]
      /\ \A n \in Nonces :
           loans'[o][n] = IF n = nonce THEN loan
                          ELSE IF n \in T THEN AccruedLoans(o)[n]
                          ELSE loans[o][n]
      /\ operators'[o].total_debt
           = operators[o].total_debt + InterestBooked(o) + amount
      /\ operators'[o].open_loans = operators[o].open_loans + 1
      /\ operators[o].open_loans < MAX_OPEN_LOANS
  BY BorrowWrites
<1>3. /\ pool'.total_shares = pool.total_shares
      /\ pool'.total_borrowed = pool.total_borrowed + amount
      /\ pool'.accrued_interest = pool.accrued_interest + InterestBooked(o)
      /\ pool'.accrual_rate = pool.accrual_rate - TermsBefore(o).rate
           + TermsAfter(o).rate + AccrualTerms(loan).rate
      /\ pool'.accrual_rate_time = pool.accrual_rate_time
           - TermsBefore(o).rate_time + TermsAfter(o).rate_time
           + AccrualTerms(loan).rate_time
      /\ pool'.accrual_remainders = pool.accrual_remainders
           - TermsBefore(o).remainder + TermsAfter(o).remainder
           + AccrualTerms(loan).remainder
      /\ now' = now /\ shares' = shares
  BY BorrowWrites
<1>4. now \in Nat /\ loans \in Tables /\ loans' \in Tables /\ IsFiniteSet(T)
      /\ T \subseteq Nonces /\ nonce \notin T
  <2>1. now \in Nat /\ loans \in Tables /\ loans' \in Tables
    BY <1>1 DEF BooksInv, Inv, TypeOK, Tables
  <2>2. IsFiniteSet(T)
    BY OpenLoansAre DEF BooksInv, LoanBooks, FiniteBooks
  <2>3. T \subseteq Nonces /\ nonce \notin T
    BY <1>2 DEF OpenLoans
  <2>4. QED
    BY <2>1, <2>2, <2>3
<1>5. /\ loan.last_accrual_at = now /\ loan.outstanding = amount
      /\ loan.accrued_interest = 0
  BY DEF NewLoan
<1> HIDE DEF loan, nonce
<1>6. ASSUME NEW n \in T
      PROVE  /\ AccruedLoans(o)[n].last_accrual_at = now
             /\ Counts(AccruedLoans(o)[n])
  BY <1>2, <1>4, AccruedEntries, OpenLoanType, OpenLoansAre
     DEF BooksInv, Inv, TypeOK, NoneAhead, AccruedLoans
<1>7. ASSUME NEW c \in Columns
      PROVE  /\ Change(loans, loans', o, T \union {nonce}, c)
                  = Entry(loan, c) + AccrualMove(o, c)
             /\ Entry(loan, c) \in Nat
  <2> DEFINE U == T \union {nonce}
             d == [n \in U |-> Entry(loans'[o][n], c) - Entry(loans[o][n], c)]
             e == [n \in T |-> Entry(AccruedLoans(o)[n], c) - Entry(loans[o][n], c)]
  <2>1. IsFiniteSet(U) /\ nonce \in U /\ U \ {nonce} = T
    BY <1>4, FS_AddElement
  <2>2. Entry(loan, c) \in Nat
    BY <1>2, EntryType
  <2>3. d[nonce] = Entry(loan, c)
    <3>1. Entry(loans[o][nonce], c) = 0
      BY <1>2 DEF Entry, Counts
    <3>2. d[nonce] = Entry(loans'[o][nonce], c) - Entry(loans[o][nonce], c)
      OBVIOUS
    <3> HIDE DEF d
    <3>3. QED
      BY <1>2, <2>2, <3>1, <3>2
  <2>4. \A n \in T : d[n] = e[n] /\ d[n] \in Int
    <3>1. \A n \in T : loans'[o][n] = AccruedLoans(o)[n]
      BY <1>2, <1>4
    <3>2. \A n \in T : Entry(loans'[o][n], c) \in Nat /\ Entry(loans[o][n], c) \in Nat
      BY <1>4, EntryType DEF Tables
    <3>3. \A n \in T : /\ d[n] = Entry(loans'[o][n], c) - Entry(loans[o][n], c)
                       /\ e[n] = Entry(AccruedLoans(o)[n], c) - Entry(loans[o][n], c)
      OBVIOUS
    <3> HIDE DEF d, e
    <3>4. QED
      BY <3>1, <3>2, <3>3
  <2>5. SumFunctionOnSet(d, U) = Change(loans, loans', o, U, c)
        /\ SumFunctionOnSet(e, T) = AccrualMove(o, c)
    BY DEF Change, AccrualMove
  <2> HIDE DEF U, d, e, T
  <2>6. \A n \in U : d[n] \in Int
    BY <2>1, <2>2, <2>3, <2>4
  <2>7. SumFunctionOnSet(d, U) = d[nonce] + SumFunctionOnSet(d, U \ {nonce})
    BY <2>1, <2>6, SumTakesOut
  <2>8. SumFunctionOnSet(d, T) = SumFunctionOnSet(e, T)
    BY <1>4, <2>4, SumSame
  <2>9. QED
    BY <2>1, <2>2, <2>3, <2>5, <2>7, <2>8 DEF U
<1>8. LoanBooks'
  <2>1. IsFiniteSet(T \union {nonce}) /\ T \union {nonce} \in SUBSET Nonces
    BY <1>2, <1>4, FS_AddElement
  <2>2. \A n \in Nonces \ (T \union {nonce}) : SameEntries(loans'[o][n], loans[o][n])
    BY <1>2 DEF SameEntries
  <2>3. /\ Entry(loan, "principal") = amount
        /\ Entry(loan, "interest") = 0
        /\ Entry(loan, "owed") = amount
        /\ Entry(loan, "open") = 1
        /\ Entry(loan, "rate") = AccrualTerms(loan).rate
        /\ Entry(loan, "rate_time") = AccrualTerms(loan).rate_time
        /\ Entry(loan, "remainder") = AccrualTerms(loan).remainder
    BY <1>2, <1>5 DEF Entry, Counts, TotalOwed
  <2>4. "principal" \in Columns /\ "interest" \in Columns /\ "owed" \in Columns
        /\ "open" \in Columns /\ "rate" \in Columns /\ "rate_time" \in Columns
        /\ "remainder" \in Columns
    BY DEF Columns
  <2>5. /\ InterestBooked(o) \in Nat
        /\ AccrualMove(o, "principal") = 0
        /\ AccrualMove(o, "open") = 0
        /\ AccrualMove(o, "interest") = InterestBooked(o)
        /\ AccrualMove(o, "owed") = InterestBooked(o)
        /\ AccrualMove(o, "rate") = TermsAfter(o).rate - TermsBefore(o).rate
        /\ AccrualMove(o, "rate_time")
             = TermsAfter(o).rate_time - TermsBefore(o).rate_time
        /\ AccrualMove(o, "remainder")
             = TermsAfter(o).remainder - TermsBefore(o).remainder
        /\ TermsBefore(o).rate \in Int /\ TermsAfter(o).rate \in Int
        /\ TermsBefore(o).rate_time \in Int /\ TermsAfter(o).rate_time \in Int
        /\ TermsBefore(o).remainder \in Int /\ TermsAfter(o).remainder \in Int
    BY <1>2, AccrualMoves
  <2>6. /\ pool.total_borrowed \in Int /\ pool.accrued_interest \in Int
        /\ pool.accrual_rate \in Int /\ pool.accrual_rate_time \in Int
        /\ pool.accrual_remainders \in Int
        /\ operators[o].total_debt \in Int /\ operators[o].open_loans \in Int
    BY ArithmeticAssumption DEF BooksInv, Inv, TypeOK, PoolType, AccountType, U64
  <2>7. /\ AccrualTerms(loan).rate \in Int /\ AccrualTerms(loan).rate_time \in Int
        /\ AccrualTerms(loan).remainder \in Int
    BY <1>7, <2>3, <2>4
  <2> HIDE DEF T
  <2>8. ASSUME NEW c \in PoolColumns
        PROVE  Booked(pool', c)
                 = Booked(pool, c) + Change(loans, loans', o, T \union {nonce}, c)
    <3>1. Change(loans, loans', o, T \union {nonce}, c) = Entry(loan, c) + AccrualMove(o, c)
      BY <1>7 DEF PoolColumns, Columns
    <3>2. CASE c = "principal"
      BY <1>2, <1>3, <2>3, <2>5, <2>6, <3>1, <3>2 DEF Booked
    <3>3. CASE c = "interest"
      BY <1>3, <2>3, <2>5, <2>6, <3>1, <3>3 DEF Booked
    <3>4. CASE c = "rate"
      BY <1>3, <2>3, <2>5, <2>6, <2>7, <3>1, <3>4 DEF Booked
    <3>5. CASE c = "rate_time"
      BY <1>3, <2>3, <2>5, <2>6, <2>7, <3>1, <3>5 DEF Booked
    <3>6. CASE c = "remainder"
      BY <1>3, <2>3, <2>5, <2>6, <2>7, <3>1, <3>6 DEF Booked
    <3>7. QED
      BY <3>2, <3>3, <3>4, <3>5, <3>6 DEF PoolColumns
  <2>9. ASSUME NEW c \in AccountColumns
        PROVE  BookedOf(operators'[o], c) = BookedOf(operators[o], c)
                 + Change(loans, loans', o, T \union {nonce}, c)
    <3>1. Change(loans, loans', o, T \union {nonce}, c) = Entry(loan, c) + AccrualMove(o, c)
      BY <1>7 DEF AccountColumns, Columns
    <3>2. CASE c = "owed"
      BY <1>2, <2>3, <2>5, <2>6, <3>1, <3>2 DEF BookedOf
    <3>3. CASE c = "open"
      BY <1>2, <2>3, <2>5, <2>6, <3>1, <3>3 DEF BookedOf
    <3>4. QED
      BY <3>2, <3>3 DEF AccountColumns
  <2>10. TypeOK /\ LoanBooks
    BY DEF BooksInv, Inv
  <2>11. QED
    BY <1>2, <1>4, <2>1, <2>2, <2>8, <2>9, <2>10, BooksMove
<1>9. NoneAhead'
  <2>1. ASSUME NEW p \in Operators, NEW n \in Nonces, Counts(loans'[p][n])
        PROVE  loans'[p][n].last_accrual_at <= now'
    <3>1. CASE p # o
      BY <1>2, <1>3, <2>1, <3>1 DEF BooksInv, NoneAhead
    <3>2. CASE p = o /\ n = nonce
      BY <1>2, <1>3, <1>4, <1>5, <3>2
    <3>3. CASE p = o /\ n # nonce /\ n \in T
      BY <1>2, <1>3, <1>4, <1>6, <3>3
    <3>4. CASE p = o /\ n # nonce /\ n \notin T
      BY <1>2, <1>3, <2>1, <3>4 DEF BooksInv, NoneAhead
    <3>5. QED
      BY <3>1, <3>2, <3>3, <3>4
  <2>2. QED
    BY <2>1 DEF NoneAhead
<1>10. FewOpen'
  <2>1. operators[o].open_loans \in Nat /\ MAX_OPEN_LOANS \in Nat
    BY RewardFloatAssumption DEF BooksInv, Inv, TypeOK, AccountType
  <2>2. ASSUME NEW p \in Operators PROVE operators'[p].open_loans <= MAX_OPEN_LOANS
    <3>1. CASE p = o
      BY <1>2, <2>1, <3>1
    <3>2. CASE p # o
      BY <1>2, <3>2 DEF BooksInv, FewOpen
    <3>3. QED
      BY <3>1, <3>2
  <2>3. QED
    BY <2>2 DEF FewOpen
<1>11. ShareBooks'
  BY <1>3 DEF BooksInv, ShareBooks
<1>12. QED
  BY <1>1, <1>8, <1>9, <1>10, <1>11 DEF BooksInv
-----------------------------------------------------------------------------
(***************************************************************************)
(* Sweeping.                                                               *)
(***************************************************************************)
\* Accounts that owe the same count the same.
LEMMA SameDebtEntries ==
  ASSUME NEW a \in LoanType, NEW b \in LoanType, SameDebt(a, b)
  PROVE  SameEntries(a, b)
<1>1. Counts(a) <=> Counts(b)
  BY RewardFloatAssumption DEF Counts, SameDebt, IsOpen
<1>2. TotalOwed(a) = TotalOwed(b) /\ AccrualTerms(a) = AccrualTerms(b)
  BY DEF SameDebt, TotalOwed, AccrualTerms, IsOpen
<1>3. ASSUME NEW c \in Columns PROVE Entry(a, c) = Entry(b, c)
  BY <1>1, <1>2 DEF Entry, SameDebt, Columns
<1>4. QED
  BY <1>3 DEF SameEntries

\* What a sweep moves on one loan: nothing when it pays nothing, and what the
\* loan's settlement moves otherwise.
LEMMA SweptEntries ==
  ASSUME BooksInv, NEW o \in Operators, NEW m \in RewardMints, NEW r,
         NEW n \in OpenLoansOn(o, m), Fits(Debt(o, n)),
         SweepPlan(o, m, r)[n] \in PartType, NEW spent
  PROVE  LET part    == SweepPlan(o, m, r)[n]
             planned == Planned(loans[o][n], part, Shortfall(o, m))
             s       == Settlement(Cleared(planned, part), part.pays)
             swept   == Swept(planned, part, spent)
         IN  /\ SameEntries(Skipped(planned, part), loans[o][n])
             /\ Skipped(planned, part).last_accrual_at <= now
             /\ swept.last_accrual_at <= now
             /\ part.pays = 0 => SameEntries(swept, loans[o][n])
             /\ part.pays > 0 =>
                  /\ Entry(swept, "principal") - Entry(loans[o][n], "principal")
                       = s.interest - s.paid
                  /\ Entry(swept, "interest") - Entry(loans[o][n], "interest")
                       = s.accrued - s.interest
                  /\ Entry(swept, "owed") - Entry(loans[o][n], "owed")
                       = s.accrued - s.paid
                  /\ Entry(swept, "open") - Entry(loans[o][n], "open") = 0 - s.closed
                  /\ Entry(swept, "rate") = s.after.rate
                  /\ Entry(swept, "rate_time") = s.after.rate_time
                  /\ Entry(swept, "remainder") = s.after.remainder
                  /\ Entry(loans[o][n], "rate") = s.before.rate
                  /\ Entry(loans[o][n], "rate_time") = s.before.rate_time
                  /\ Entry(loans[o][n], "remainder") = s.before.remainder
                  /\ s.closed \in {0, 1}
                  /\ s.accrued \in Nat /\ s.interest \in Nat /\ s.paid \in Nat
<1> DEFINE part    == SweepPlan(o, m, r)[n]
           planned == Planned(loans[o][n], part, Shortfall(o, m))
           cleared == Cleared(planned, part)
           s       == Settlement(cleared, part.pays)
           swept   == Swept(planned, part, spent)
           loan    == loans[o][n]
<1>1. /\ n \in OpenLoans(o) /\ n \in Nonces
      /\ loan \in LoanType /\ IsOpen(loan) /\ now \in Nat /\ loan.last_accrual_at <= now
  BY OpenLoanType DEF OpenLoansOn, BooksInv, Inv, TypeOK, NoneAhead, Counts
<1>2. Sound(loan)
  BY <1>1, OpenLoanType, AllSound DEF BooksInv, Inv
<1>3. /\ part \in PartType /\ part.pays \in Nat /\ part.pays <= Debt(o, n)
      /\ part.left + part.withheld \in U64
  BY PlanFacts
<1> HIDE DEF part
<1>4. /\ planned \in LoanType /\ SameDebt(planned, loan) /\ planned.reward_due = part.left
      /\ IsOpen(planned) /\ Sound(planned)
  BY <1>1, <1>2, <1>3, PlannedFacts, ShortfallType
<1> HIDE DEF planned
<1>5. /\ cleared \in LoanType /\ SameDebt(cleared, planned)
      /\ IsOpen(cleared) /\ Sound(cleared)
  BY <1>4, ClearedFacts
<1>6. SameDebt(cleared, loan)
  BY <1>4, <1>5 DEF SameDebt
<1>7. TotalOwed(Accrue(cleared, now)) = Debt(o, n)
  BY <1>1, <1>5, <1>6, SameDebtOwes DEF Debt
<1>8. cleared.last_accrual_at <= now /\ planned.last_accrual_at <= now
  BY <1>1, <1>4, <1>6 DEF SameDebt
<1>9. SameEntries(Skipped(planned, part), loan)
      /\ Skipped(planned, part).last_accrual_at <= now
  <2> DEFINE k == [planned EXCEPT !.reward_due = @ + part.withheld]
  <2>1. k \in LoanType /\ SameDebt(k, planned)
    BY <1>3, <1>4 DEF LoanType, SameDebt
  <2>2. SameDebt(k, loan) /\ k.last_accrual_at <= now
    BY <1>4, <1>8, <2>1 DEF SameDebt
  <2>3. Skipped(planned, part) = k
    BY DEF Skipped
  <2> HIDE DEF k
  <2>4. QED
    BY <1>1, <2>1, <2>2, <2>3, SameDebtEntries
<1> HIDE DEF loan, cleared
<1>10. /\ SameEntries(cleared, loan) /\ SameEntries(planned, loan)
       /\ s.loan \in LoanType
  <2>1. Fits(TotalOwed(Accrue(cleared, now)))
    BY <1>7
  <2>2. QED
    BY <1>1, <1>3, <1>4, <1>5, <1>6, <2>1, SameDebtEntries, SettlementFacts
<1>11. /\ Entry(s.loan, "principal") - Entry(cleared, "principal") = s.interest - s.paid
       /\ Entry(s.loan, "interest") - Entry(cleared, "interest") = s.accrued - s.interest
       /\ Entry(s.loan, "owed") - Entry(cleared, "owed") = s.accrued - s.paid
       /\ Entry(s.loan, "open") - Entry(cleared, "open") = 0 - s.closed
       /\ Entry(s.loan, "rate") = s.after.rate
       /\ Entry(s.loan, "rate_time") = s.after.rate_time
       /\ Entry(s.loan, "remainder") = s.after.remainder
       /\ Entry(cleared, "rate") = s.before.rate
       /\ Entry(cleared, "rate_time") = s.before.rate_time
       /\ Entry(cleared, "remainder") = s.before.remainder
       /\ s.loan.last_accrual_at = now
       /\ s.closed \in {0, 1}
       /\ s.accrued \in Nat /\ s.interest \in Nat /\ s.paid \in Nat
  <2>1. Fits(TotalOwed(Accrue(cleared, now)))
    BY <1>7
  <2>2. QED
    BY <1>1, <1>3, <1>5, <1>8, <2>1, SettlementEntries
<1>12. LET after == IF part.pays = 0 THEN planned ELSE s.loan
       IN  SameEntries(swept, after) /\ swept.last_accrual_at = after.last_accrual_at
  <2> DEFINE after == IF part.pays = 0 THEN planned ELSE s.loan
  <2>1. after \in LoanType
    BY <1>4, <1>10
  <2>2. swept = after \/ swept = FlagManualRepayment(after, "AllowanceShort")
    BY DEF Swept, cleared
  <2>3. "AllowanceShort" \in ManualReasons
    BY DEF ManualReasons
  <2> HIDE DEF after, swept
  <2>4. swept \in LoanType /\ SameDebt(swept, after)
    BY <2>1, <2>2, <2>3, FlagFacts DEF SameDebt
  <2>5. SameEntries(swept, after) /\ swept.last_accrual_at = after.last_accrual_at
    BY <2>1, <2>4, SameDebtEntries DEF SameDebt
  <2>6. QED
    BY <2>5 DEF after
<1> HIDE DEF s, swept
<1>13. "principal" \in Columns /\ "interest" \in Columns /\ "owed" \in Columns
       /\ "open" \in Columns /\ "rate" \in Columns /\ "rate_time" \in Columns
       /\ "remainder" \in Columns
  BY DEF Columns
<1>14. CASE part.pays = 0
  <2>1. SameEntries(swept, loan) /\ swept.last_accrual_at <= now
    BY <1>8, <1>10, <1>12, <1>14 DEF SameEntries
  <2>2. QED
    BY <1>9, <1>14, <2>1 DEF loan, part, planned, swept
<1>15. CASE part.pays > 0
  <2>1. part.pays # 0
    BY <1>3, <1>15
  <2>2. \A c \in Columns : Entry(swept, c) = Entry(s.loan, c)
                           /\ Entry(loan, c) = Entry(cleared, c)
    BY <1>10, <1>12, <2>1 DEF SameEntries
  <2>3. swept.last_accrual_at <= now
    BY <1>1, <1>11, <1>12, <2>1
  <2>4. /\ Entry(swept, "principal") - Entry(loan, "principal") = s.interest - s.paid
        /\ Entry(swept, "interest") - Entry(loan, "interest") = s.accrued - s.interest
        /\ Entry(swept, "owed") - Entry(loan, "owed") = s.accrued - s.paid
        /\ Entry(swept, "open") - Entry(loan, "open") = 0 - s.closed
        /\ Entry(swept, "rate") = s.after.rate
        /\ Entry(swept, "rate_time") = s.after.rate_time
        /\ Entry(swept, "remainder") = s.after.remainder
        /\ Entry(loan, "rate") = s.before.rate
        /\ Entry(loan, "rate_time") = s.before.rate_time
        /\ Entry(loan, "remainder") = s.before.remainder
    BY <1>11, <1>13, <2>2
  <2>5. QED
    BY <1>9, <1>11, <2>1, <2>3, <2>4 DEF loan, part, planned, swept, s, cleared
<1>16. part.pays = 0 \/ part.pays > 0
  BY <1>3
<1> HIDE DEF part, planned, cleared, loan
<1>17. QED
  BY <1>14, <1>15, <1>16, Zenon
\* The sums of settlements, component by component.
LEMMA SettlementSums ==
  ASSUME NEW T, NEW settled, DOMAIN settled = T
  PROVE  LET s == SumSettlements(settled)
         IN  /\ s.paid = SumFunctionOnSet([n \in T |-> settled[n].paid], T)
             /\ s.interest = SumFunctionOnSet([n \in T |-> settled[n].interest], T)
             /\ s.accrued = SumFunctionOnSet([n \in T |-> settled[n].accrued], T)
             /\ s.closed = SumFunctionOnSet([n \in T |-> settled[n].closed], T)
             /\ s.before.rate = SumFunctionOnSet([n \in T |-> settled[n].before.rate], T)
             /\ s.before.rate_time
                  = SumFunctionOnSet([n \in T |-> settled[n].before.rate_time], T)
             /\ s.before.remainder
                  = SumFunctionOnSet([n \in T |-> settled[n].before.remainder], T)
             /\ s.after.rate = SumFunctionOnSet([n \in T |-> settled[n].after.rate], T)
             /\ s.after.rate_time
                  = SumFunctionOnSet([n \in T |-> settled[n].after.rate_time], T)
             /\ s.after.remainder
                  = SumFunctionOnSet([n \in T |-> settled[n].after.remainder], T)
<1> DEFINE b == [n \in T |-> settled[n].before]
           a == [n \in T |-> settled[n].after]
<1>1. /\ [i \in DOMAIN b |-> b[i].rate] = [n \in T |-> settled[n].before.rate]
      /\ [i \in DOMAIN b |-> b[i].rate_time] = [n \in T |-> settled[n].before.rate_time]
      /\ [i \in DOMAIN b |-> b[i].remainder] = [n \in T |-> settled[n].before.remainder]
      /\ [i \in DOMAIN a |-> a[i].rate] = [n \in T |-> settled[n].after.rate]
      /\ [i \in DOMAIN a |-> a[i].rate_time] = [n \in T |-> settled[n].after.rate_time]
      /\ [i \in DOMAIN a |-> a[i].remainder] = [n \in T |-> settled[n].after.remainder]
  OBVIOUS
<1>2. SumSettlements(settled).before = SumTerms(b) /\ SumSettlements(settled).after = SumTerms(a)
  BY DEF SumSettlements
<1> HIDE DEF a, b
<1>3. /\ SumTerms(b).rate = SumFunction([i \in DOMAIN b |-> b[i].rate])
      /\ SumTerms(b).rate_time = SumFunction([i \in DOMAIN b |-> b[i].rate_time])
      /\ SumTerms(b).remainder = SumFunction([i \in DOMAIN b |-> b[i].remainder])
      /\ SumTerms(a).rate = SumFunction([i \in DOMAIN a |-> a[i].rate])
      /\ SumTerms(a).rate_time = SumFunction([i \in DOMAIN a |-> a[i].rate_time])
      /\ SumTerms(a).remainder = SumFunction([i \in DOMAIN a |-> a[i].remainder])
  BY DEF SumTerms
<1>4. \A f : DOMAIN f = T => SumFunction(f) = SumFunctionOnSet(f, T)
  BY DEF SumFunction
<1>5. QED
  BY <1>1, <1>2, <1>3, <1>4 DEF SumSettlements

\* A column of the loans a sweep pays moves by what their settlements add up to.
LEMMA ColumnSwept ==
  ASSUME NEW T, IsFiniteSet(T), NEW o, NEW c, NEW f, NEW g,
         \A n \in T : /\ f[n] \in Int /\ g[n] \in Int
                      /\ Entry(loans'[o][n], c) - Entry(loans[o][n], c) = f[n] - g[n]
  PROVE  /\ Change(loans, loans', o, T, c) = SumFunctionOnSet(f, T) - SumFunctionOnSet(g, T)
         /\ SumFunctionOnSet(f, T) \in Int /\ SumFunctionOnSet(g, T) \in Int
<1> DEFINE d == [n \in T |-> Entry(loans'[o][n], c) - Entry(loans[o][n], c)]
<1>1. \A n \in T : f[n] \in Int /\ g[n] \in Int /\ d[n] = f[n] - g[n]
  OBVIOUS
<1>2. Change(loans, loans', o, T, c) = SumFunctionOnSet(d, T)
  BY DEF Change
<1> HIDE DEF d
<1>3. /\ SumFunctionOnSet(f, T) \in Int /\ SumFunctionOnSet(g, T) \in Int
      /\ SumFunctionOnSet(d, T) = SumFunctionOnSet(f, T) - SumFunctionOnSet(g, T)
  BY <1>1, SumMinus
<1>4. QED
  BY <1>2, <1>3

\* The books after a sweep that converts nothing.
LEMMA SkippedBooks ==
  ASSUME BooksInv, NEW o \in Operators, NEW m \in RewardMints,
         NEW rate \in RateAttestations, Sweep(o, m, rate),
         SweepWithoutConverting(o, m, rate.stable_per_trillion_reward,
                                SweepPlan(o, m, rate.stable_per_trillion_reward))
  PROVE  BooksInv'
<1> DEFINE r    == rate.stable_per_trillion_reward
           plan == SweepPlan(o, m, r)
<1>1. Inv'
  BY SweepInv DEF BooksInv
<1>2. /\ \A n \in OpenLoansOn(o, m) : Fits(Debt(o, n))
      /\ PlanFits(plan)
  BY DEF Sweep, SweepChecked
<1>3. \A n \in OpenLoansOn(o, m) : plan[n] \in PartType
  BY <1>2 DEF PlanFits, SweepPlan
<1>4. /\ UNCHANGED <<now, pool, shares, operators>>
      /\ loans' = [loans EXCEPT ![o] =
                     [n \in Nonces |->
                        IF n \in OpenLoansOn(o, m)
                          THEN Skipped(Planned(loans[o][n], plan[n], Shortfall(o, m)), plan[n])
                          ELSE loans[o][n]]]
  BY DEF SweepWithoutConverting, SweepWrites
<1>5. /\ \A p \in Operators : p # o => loans'[p] = loans[p]
      /\ \A n \in Nonces :
           loans'[o][n] = IF n \in OpenLoansOn(o, m)
                            THEN Skipped(Planned(loans[o][n], plan[n], Shortfall(o, m)), plan[n])
                            ELSE loans[o][n]
  BY <1>4 DEF BooksInv, Inv, TypeOK
<1> HIDE DEF plan, r
<1>6. ASSUME NEW n \in Nonces
      PROVE  /\ SameEntries(loans'[o][n], loans[o][n])
             /\ Counts(loans[o][n]) => loans'[o][n].last_accrual_at <= now
  <2>1. CASE n \in OpenLoansOn(o, m)
    BY <1>2, <1>3, <1>5, <2>1, SweptEntries DEF plan
  <2>2. CASE n \notin OpenLoansOn(o, m)
    BY <1>5, <2>2 DEF SameEntries, BooksInv, NoneAhead
  <2>3. QED
    BY <2>1, <2>2
<1>7. LoanBooks'
  <2>1. loans' \in Tables /\ TypeOK /\ LoanBooks
    BY <1>1 DEF BooksInv, Inv, TypeOK, Tables
  <2>2. IsFiniteSet({}) /\ {} \in SUBSET Nonces
    BY FS_EmptySet
  <2>3. \A c : Change(loans, loans', o, {}, c) = 0
    BY SumEmpty DEF Change
  <2>4. ASSUME NEW c \in PoolColumns PROVE Booked(pool, c) \in Int
    BY PoolFields DEF PoolColumns, Booked, BooksInv, Inv, TypeOK
  <2>5. ASSUME NEW c \in AccountColumns PROVE BookedOf(operators[o], c) \in Int
    BY ArithmeticAssumption DEF AccountColumns, BookedOf, BooksInv, Inv, TypeOK, AccountType, U64
  <2>6. ASSUME NEW c \in PoolColumns
        PROVE  Booked(pool', c) = Booked(pool, c) + Change(loans, loans', o, {}, c)
    <3>1. Booked(pool', c) = Booked(pool, c)
      BY <1>4
    <3>2. QED
      BY <2>3, <2>4, <3>1
  <2>7. ASSUME NEW c \in AccountColumns
        PROVE  BookedOf(operators'[o], c)
                 = BookedOf(operators[o], c) + Change(loans, loans', o, {}, c)
    <3>1. BookedOf(operators'[o], c) = BookedOf(operators[o], c)
      BY <1>4
    <3>2. QED
      BY <2>3, <2>5, <3>1
  <2>8. /\ \A p \in Operators : p # o => loans'[p] = loans[p] /\ operators'[p] = operators[p]
        /\ \A n \in Nonces \ {} : SameEntries(loans'[o][n], loans[o][n])
    BY <1>4, <1>5, <1>6
  <2>9. QED
    BY <2>1, <2>2, <2>6, <2>7, <2>8, BooksMove
<1>8. NoneAhead'
  <2>1. ASSUME NEW p \in Operators, NEW n \in Nonces, Counts(loans'[p][n])
        PROVE  loans'[p][n].last_accrual_at <= now'
    <3>1. CASE p # o
      BY <1>4, <1>5, <2>1, <3>1 DEF BooksInv, NoneAhead
    <3>2. CASE p = o
      <4>1. Counts(loans[o][n])
        BY <1>6, <2>1, <3>2, CountsOne DEF SameEntries
      <4>2. QED
        BY <1>4, <1>6, <3>2, <4>1
    <3>3. QED
      BY <3>1, <3>2
  <2>2. QED
    BY <2>1 DEF NoneAhead
<1>9. QED
  BY <1>1, <1>4, <1>7, <1>8 DEF BooksInv, FewOpen, ShareBooks
\* The books after a sweep that converts a payout.
LEMMA ConvertedBooks ==
  ASSUME BooksInv, NEW o \in Operators, NEW m \in RewardMints,
         NEW rate \in RateAttestations, Sweep(o, m, rate),
         SweepConverting(o, m, rate.stable_per_trillion_reward,
                         SweepPlan(o, m, rate.stable_per_trillion_reward))
  PROVE  BooksInv'
<1> DEFINE r    == rate.stable_per_trillion_reward
           plan == SweepPlan(o, m, r)
           settled == SweepSettlements(o, m, plan)
           s    == SumSettlements(settled)
           T    == PaidLoans(plan)
           spent == TotalWithheld(plan) = Allowance(o, m)
           planned(n) == Planned(loans[o][n], plan[n], Shortfall(o, m))
<1>1. Inv'
  BY SweepInv DEF BooksInv
<1>2. /\ \A n \in OpenLoansOn(o, m) : Fits(Debt(o, n))
      /\ PlanFits(plan)
  BY DEF Sweep, SweepChecked
<1>3. /\ \A n \in OpenLoansOn(o, m) : plan[n] \in PartType
      /\ DOMAIN plan = OpenLoansOn(o, m)
  BY <1>2 DEF PlanFits, SweepPlan
<1>4. /\ UNCHANGED <<now, shares>>
      /\ pool' = PoolSettled(pool, s)
      /\ operators' = [operators EXCEPT ![o] = AccountSettled(operators[o], s)]
      /\ loans' = [loans EXCEPT ![o] =
                     [n \in Nonces |->
                        IF n \in OpenLoansOn(o, m)
                          THEN Swept(planned(n), plan[n], spent)
                          ELSE loans[o][n]]]
  BY DEF SweepConverting, SweepWrites
<1>5. /\ \A p \in Operators : p # o => loans'[p] = loans[p]
      /\ \A n \in Nonces :
           loans'[o][n] = IF n \in OpenLoansOn(o, m)
                            THEN Swept(planned(n), plan[n], spent)
                            ELSE loans[o][n]
  BY <1>4 DEF BooksInv, Inv, TypeOK
<1>6. /\ DOMAIN settled = T
      /\ \A n \in T : settled[n] = Settlement(Cleared(planned(n), plan[n]), plan[n].pays)
  BY DEF SweepSettlements
<1>7. T \in SUBSET OpenLoansOn(o, m) /\ IsFiniteSet(T) /\ T \in SUBSET Nonces
      /\ OpenLoansOn(o, m) \in SUBSET Nonces
  <2>1. T \in SUBSET OpenLoansOn(o, m) /\ OpenLoansOn(o, m) \in SUBSET OpenLoans(o)
        /\ OpenLoans(o) \in SUBSET Nonces
    BY <1>3 DEF PaidLoans, OpenLoansOn, OpenLoans
  <2>2. IsFiniteSet(OpenLoans(o))
    BY OpenLoansAre DEF BooksInv, LoanBooks, FiniteBooks
  <2>3. T \in SUBSET OpenLoans(o)
    BY <2>1
  <2> HIDE DEF T
  <2>4. QED
    BY <2>1, <2>2, <2>3, FS_Subset
<1>8. \A n \in OpenLoansOn(o, m) : plan[n].pays \in Nat /\ (n \in T <=> plan[n].pays > 0)
  <2>1. \A n \in OpenLoansOn(o, m) : n \in T <=> plan[n].pays > 0
    BY <1>3 DEF PaidLoans
  <2>2. \A n \in OpenLoansOn(o, m) : plan[n].pays \in Nat
    BY <1>2, <1>3, PlanFacts
  <2>3. QED
    BY <2>1, <2>2
<1>9. ASSUME NEW n \in Nonces \ T
      PROVE  /\ SameEntries(loans'[o][n], loans[o][n])
             /\ Counts(loans[o][n]) => loans'[o][n].last_accrual_at <= now
  <2> HIDE DEF T, spent
  <2>1. CASE n \in OpenLoansOn(o, m)
    <3>1. plan[n].pays = 0
      BY <1>8, <2>1
    <3>2. loans'[o][n] = Swept(planned(n), plan[n], spent)
      BY <1>5, <1>9, <2>1
    <3>3. QED
      BY <1>2, <1>3, <2>1, <3>1, <3>2, SweptEntries
  <2>2. CASE n \notin OpenLoansOn(o, m)
    BY <1>5, <2>2 DEF SameEntries, BooksInv, NoneAhead
  <2>3. QED
    BY <2>1, <2>2
<1>10. ASSUME NEW n \in T
       PROVE  LET new == loans'[o][n]
                  old == loans[o][n]
                  t   == settled[n]
              IN  /\ new.last_accrual_at <= now
                  /\ Entry(new, "principal") - Entry(old, "principal") = t.interest - t.paid
                  /\ Entry(new, "interest") - Entry(old, "interest") = t.accrued - t.interest
                  /\ Entry(new, "owed") - Entry(old, "owed") = t.accrued - t.paid
                  /\ Entry(new, "open") - Entry(old, "open") = 0 - t.closed
                  /\ Entry(new, "rate") = t.after.rate
                  /\ Entry(new, "rate_time") = t.after.rate_time
                  /\ Entry(new, "remainder") = t.after.remainder
                  /\ Entry(old, "rate") = t.before.rate
                  /\ Entry(old, "rate_time") = t.before.rate_time
                  /\ Entry(old, "remainder") = t.before.remainder
                  /\ t.closed \in {0, 1}
                  /\ t.accrued \in Nat /\ t.interest \in Nat /\ t.paid \in Nat
  <2> HIDE DEF T, spent
  <2>1. n \in OpenLoansOn(o, m) /\ plan[n].pays > 0 /\ n \in Nonces
    BY <1>7, <1>8, <1>10
  <2>2. loans'[o][n] = Swept(planned(n), plan[n], spent)
    BY <1>5, <2>1
  <2>3. settled[n] = Settlement(Cleared(planned(n), plan[n]), plan[n].pays)
    BY <1>6
  <2> HIDE DEF settled
  <2>4. QED
    BY SMTT(40), <1>2, <1>3, <2>1, <2>2, <2>3, SweptEntries
<1>11. loans' \in Tables /\ loans \in Tables /\ TypeOK /\ LoanBooks
  BY <1>1 DEF BooksInv, Inv, TypeOK, Tables
<1>12. \A n \in T :
         /\ settled[n].before.rate \in Int /\ settled[n].before.rate_time \in Int
         /\ settled[n].before.remainder \in Int /\ settled[n].after.rate \in Int
         /\ settled[n].after.rate_time \in Int /\ settled[n].after.remainder \in Int
  <2>1. "rate" \in Columns /\ "rate_time" \in Columns /\ "remainder" \in Columns
    BY DEF Columns
  <2>2. \A n \in Nonces, c \in Columns : Entry(loans[o][n], c) \in Int
                                         /\ Entry(loans'[o][n], c) \in Int
    BY <1>11, EntryType DEF Tables
  <2> HIDE DEF T, settled
  <2>3. QED
    BY <1>7, <1>10, <2>1, <2>2
<1> DEFINE paid == [n \in T |-> settled[n].paid]
           interest == [n \in T |-> settled[n].interest]
           accrued == [n \in T |-> settled[n].accrued]
           closed == [n \in T |-> settled[n].closed]
           none == [n \in T |-> 0]
           arate == [n \in T |-> settled[n].after.rate]
           brate == [n \in T |-> settled[n].before.rate]
           atime == [n \in T |-> settled[n].after.rate_time]
           btime == [n \in T |-> settled[n].before.rate_time]
           arest == [n \in T |-> settled[n].after.remainder]
           brest == [n \in T |-> settled[n].before.remainder]
<1> HIDE DEF T, settled, plan, r, spent
<1>13. /\ s.paid = SumFunctionOnSet(paid, T)
       /\ s.interest = SumFunctionOnSet(interest, T)
       /\ s.accrued = SumFunctionOnSet(accrued, T)
       /\ s.closed = SumFunctionOnSet(closed, T)
       /\ s.before.rate = SumFunctionOnSet(brate, T)
       /\ s.before.rate_time = SumFunctionOnSet(btime, T)
       /\ s.before.remainder = SumFunctionOnSet(brest, T)
       /\ s.after.rate = SumFunctionOnSet(arate, T)
       /\ s.after.rate_time = SumFunctionOnSet(atime, T)
       /\ s.after.remainder = SumFunctionOnSet(arest, T)
  BY <1>6, SettlementSums
<1>14. \A n \in T :
         /\ paid[n] = settled[n].paid /\ interest[n] = settled[n].interest
         /\ accrued[n] = settled[n].accrued /\ closed[n] = settled[n].closed
         /\ none[n] = 0
         /\ arate[n] = settled[n].after.rate /\ brate[n] = settled[n].before.rate
         /\ atime[n] = settled[n].after.rate_time /\ btime[n] = settled[n].before.rate_time
         /\ arest[n] = settled[n].after.remainder /\ brest[n] = settled[n].before.remainder
  OBVIOUS
<1> HIDE DEF s, paid, interest, accrued, closed, none, arate, brate, atime, btime, arest, brest
<1>15. \A n \in T : /\ paid[n] \in Int /\ interest[n] \in Int /\ accrued[n] \in Int
                    /\ closed[n] \in Nat /\ none[n] \in Int
                    /\ arate[n] \in Int /\ brate[n] \in Int
                    /\ atime[n] \in Int /\ btime[n] \in Int
                    /\ arest[n] \in Int /\ brest[n] \in Int
  BY <1>10, <1>12, <1>14
<1>16. /\ Change(loans, loans', o, T, "principal") = s.interest - s.paid
       /\ s.interest \in Int /\ s.paid \in Int
  <2>1. \A n \in T : Entry(loans'[o][n], "principal") - Entry(loans[o][n], "principal")
                       = interest[n] - paid[n]
    BY <1>10, <1>14
  <2>2. QED
    BY <1>7, <1>13, <1>15, <2>1, ColumnSwept
<1>17. /\ Change(loans, loans', o, T, "interest") = s.accrued - s.interest
       /\ s.accrued \in Int
  <2>1. \A n \in T : Entry(loans'[o][n], "interest") - Entry(loans[o][n], "interest")
                       = accrued[n] - interest[n]
    BY <1>10, <1>14
  <2>2. QED
    BY <1>7, <1>13, <1>15, <2>1, ColumnSwept
<1>18. Change(loans, loans', o, T, "owed") = s.accrued - s.paid
  <2>1. \A n \in T : Entry(loans'[o][n], "owed") - Entry(loans[o][n], "owed")
                       = accrued[n] - paid[n]
    BY <1>10, <1>14
  <2>2. QED
    BY <1>7, <1>13, <1>15, <2>1, ColumnSwept
<1>19. /\ Change(loans, loans', o, T, "open") = 0 - s.closed
       /\ s.closed \in Nat
  <2>1. \A n \in T : Entry(loans'[o][n], "open") - Entry(loans[o][n], "open")
                       = none[n] - closed[n]
    BY <1>10, <1>14
  <2>2. Change(loans, loans', o, T, "open") = SumFunctionOnSet(none, T) - s.closed
    BY <1>7, <1>13, <1>15, <2>1, ColumnSwept
  <2>3. SumFunctionOnSet(none, T) = 0
    BY <1>7, <1>14, SumOfZeros
  <2>4. SumFunctionOnSet(closed, T) \in Nat
    BY <1>7, <1>15, SumOfNaturals
  <2>5. QED
    BY <1>13, <2>2, <2>3, <2>4
<1>20. /\ Change(loans, loans', o, T, "rate") = s.after.rate - s.before.rate
       /\ s.after.rate \in Int /\ s.before.rate \in Int
  <2>1. \A n \in T : Entry(loans'[o][n], "rate") - Entry(loans[o][n], "rate")
                       = arate[n] - brate[n]
    BY <1>10, <1>14
  <2>2. QED
    BY <1>7, <1>13, <1>15, <2>1, ColumnSwept
<1>21. /\ Change(loans, loans', o, T, "rate_time") = s.after.rate_time - s.before.rate_time
       /\ s.after.rate_time \in Int /\ s.before.rate_time \in Int
  <2>1. \A n \in T : Entry(loans'[o][n], "rate_time") - Entry(loans[o][n], "rate_time")
                       = atime[n] - btime[n]
    BY <1>10, <1>14
  <2>2. QED
    BY <1>7, <1>13, <1>15, <2>1, ColumnSwept
<1>22. /\ Change(loans, loans', o, T, "remainder") = s.after.remainder - s.before.remainder
       /\ s.after.remainder \in Int /\ s.before.remainder \in Int
  <2>1. \A n \in T : Entry(loans'[o][n], "remainder") - Entry(loans[o][n], "remainder")
                       = arest[n] - brest[n]
    BY <1>10, <1>14
  <2>2. QED
    BY <1>7, <1>13, <1>15, <2>1, ColumnSwept
<1>23. LoanBooks'
  <2>1. s.closed \in Int
    BY <1>19
  <2>2. QED
    BY <1>4, <1>5, <1>7, <1>9, <1>11, <1>16, <1>17, <1>18, <1>19, <1>20, <1>21, <1>22,
       <2>1, SettledBooks
<1>24. NoneAhead'
  <2>1. ASSUME NEW p \in Operators, NEW n \in Nonces, Counts(loans'[p][n])
        PROVE  loans'[p][n].last_accrual_at <= now'
    <3>1. CASE p # o
      BY <1>4, <1>5, <2>1, <3>1 DEF BooksInv, NoneAhead
    <3>2. CASE p = o /\ n \notin T
      <4>1. Counts(loans[o][n])
        BY <1>9, <2>1, <3>2, CountsOne DEF SameEntries
      <4>2. QED
        BY <1>4, <1>9, <3>2, <4>1
    <3>3. CASE p = o /\ n \in T
      BY <1>4, <1>10, <3>3
    <3>4. QED
      BY <3>1, <3>2, <3>3
  <2>2. QED
    BY <2>1 DEF NoneAhead
<1>25. FewOpen'
  <2>1. operators[o].open_loans \in Nat /\ MAX_OPEN_LOANS \in Nat
        /\ operators'[o].open_loans = operators[o].open_loans - s.closed
    BY <1>4, RewardFloatAssumption DEF BooksInv, Inv, TypeOK, AccountType, AccountSettled
  <2>2. ASSUME NEW p \in Operators PROVE operators'[p].open_loans <= MAX_OPEN_LOANS
    <3>1. CASE p = o
      BY <1>19, <2>1, <3>1 DEF BooksInv, FewOpen
    <3>2. CASE p # o
      BY <1>4, <3>2 DEF BooksInv, FewOpen, Inv, TypeOK
    <3>3. QED
      BY <3>1, <3>2
  <2>3. QED
    BY <2>2 DEF FewOpen
<1>26. ShareBooks'
  BY <1>4 DEF BooksInv, ShareBooks, PoolSettled, Retrack, Inv, TypeOK, PoolType
<1>27. QED
  BY <1>1, <1>23, <1>24, <1>25, <1>26 DEF BooksInv
-----------------------------------------------------------------------------
(***************************************************************************)
(* The books are right in every reachable state.                           *)
(***************************************************************************)
\* Initially there are no loans and no shares.
LEMMA InitBooks == Init => BooksInv
<1> SUFFICES ASSUME Init PROVE BooksInv
  OBVIOUS
<1>1. Inv
  BY InitInv
<1>2. \A o \in Operators, n \in Nonces : ~Counts(loans[o][n])
  BY DEF Init, Counts
<1>3. AllIn(loans) = {} /\ \A o \in Operators : OpenIn(loans, o) = {}
  BY <1>2 DEF AllIn, OpenIn
<1>4. FiniteBooks(loans)
  BY <1>3, FS_EmptySet DEF FiniteBooks
<1>5. \A c : Held(loans, c) = 0 /\ \A o \in Operators : HeldBy(loans, o, c) = 0
  BY <1>3, SumEmpty DEF Held, HeldBy
<1>6. \A c \in PoolColumns : Booked(pool, c) = 0
  BY DEF Init, NewPool, PoolColumns, Booked
<1>7. \A o \in Operators, c \in AccountColumns : BookedOf(operators[o], c) = 0
  BY DEF Init, AccountColumns, BookedOf
<1>8. LoanBooks
  BY <1>4, <1>5, <1>6, <1>7 DEF LoanBooks
<1>9. ShareBooks
  <2>1. shares = [l \in Lenders |-> 0] /\ pool.total_shares = 0
    BY DEF Init, NewPool
  <2>2. \A l \in Lenders : shares[l] = 0
    BY <2>1
  <2>3. SumFunctionOnSet(shares, Lenders) = 0
    BY <2>2, RewardFloatAssumption, SumOfZeros
  <2>4. QED
    BY <2>1, <2>3 DEF ShareBooks, SumFunction
<1>10. FewOpen
  BY RewardFloatAssumption DEF Init, FewOpen
<1>11. QED
  BY <1>1, <1>2, <1>8, <1>9, <1>10 DEF BooksInv, NoneAhead

\* Every step keeps the books.
LEMMA NextBooks == BooksInv /\ [Next]_vars => BooksInv'
<1> SUFFICES ASSUME BooksInv, [Next]_vars PROVE BooksInv'
  OBVIOUS
<1>1. CASE LenderStep
  BY <1>1, LenderBooks
<1>2. CASE BorrowStep
  BY <1>2, BorrowBooks DEF BorrowStep
<1>3. CASE RepayStep
  BY <1>3, RepayBooks DEF RepayStep
<1>4. CASE SweepStep
  BY <1>4, SkippedBooks, ConvertedBooks DEF SweepStep, Sweep
<1>5. CASE \/ RewardStep
           \/ \E m \in RewardMints, amount \in Fundings : FundConversion(m, amount)
           \/ \E attestor \in Keys : SetAttestor(attestor)
           \/ Tick
  BY <1>5, OthersBooks
<1>6. CASE UNCHANGED vars
  <2>1. UNCHANGED <<now, pool, vault, shares, operators, loans, rewards, watches, market>>
    BY <1>6 DEF vars
  <2>2. Inv'
    BY <2>1 DEF BooksInv, Inv, TypeOK, Solvent, OpenLoansOwe, SpentNonceRefused, IsOpen
  <2>3. LoanBooks'
    BY <2>1 DEF BooksInv, LoanBooks
  <2>4. NoneAhead' /\ FewOpen' /\ ShareBooks'
    BY <2>1 DEF BooksInv, NoneAhead, FewOpen, ShareBooks
  <2>5. QED
    BY <2>2, <2>3, <2>4 DEF BooksInv
<1>7. QED
  BY <1>1, <1>2, <1>3, <1>4, <1>5, <1>6 DEF Next

\* The invariant holds in every reachable state.
THEOREM BooksInvariance == Spec => []BooksInv
BY InitBooks, NextBooks, PTL DEF Spec

\* The books hold the sums the properties are stated with.
LEMMA HeldAre ==
  /\ AllOpen = AllIn(loans)
  /\ Held(loans, "principal") = SumFunction([on \in AllOpen |-> LoanAt(on).outstanding])
  /\ Held(loans, "interest")
       = SumFunction([on \in AllOpen |-> LoanAt(on).accrued_interest])
  /\ Held(loans, "rate") = SumTerms([on \in AllOpen |-> AccrualTerms(LoanAt(on))]).rate
  /\ Held(loans, "rate_time")
       = SumTerms([on \in AllOpen |-> AccrualTerms(LoanAt(on))]).rate_time
  /\ Held(loans, "remainder")
       = SumTerms([on \in AllOpen |-> AccrualTerms(LoanAt(on))]).remainder
<1>1. AllOpen = AllIn(loans)
  <2>1. \A on \in Operators \X Nonces :
          on[2] \in OpenLoans(on[1]) <=> Counts(loans[on[1]][on[2]])
    BY DEF OpenLoans, Counts
  <2>2. QED
    BY <2>1 DEF AllOpen, AllIn
<1> DEFINE A == AllIn(loans)
           terms == [on \in A |-> AccrualTerms(LoanAt(on))]
<1>2. /\ [on \in A |-> Entry(loans[on[1]][on[2]], "principal")]
           = [on \in A |-> LoanAt(on).outstanding]
      /\ [on \in A |-> Entry(loans[on[1]][on[2]], "interest")]
           = [on \in A |-> LoanAt(on).accrued_interest]
      /\ [on \in A |-> Entry(loans[on[1]][on[2]], "rate")]
           = [on \in A |-> terms[on].rate]
      /\ [on \in A |-> Entry(loans[on[1]][on[2]], "rate_time")]
           = [on \in A |-> terms[on].rate_time]
      /\ [on \in A |-> Entry(loans[on[1]][on[2]], "remainder")]
           = [on \in A |-> terms[on].remainder]
  <2>1. \A on \in A : Counts(loans[on[1]][on[2]])
    BY DEF AllIn
  <2>2. \A on \in A : /\ Entry(loans[on[1]][on[2]], "principal") = LoanAt(on).outstanding
                      /\ Entry(loans[on[1]][on[2]], "interest") = LoanAt(on).accrued_interest
                      /\ Entry(loans[on[1]][on[2]], "rate") = terms[on].rate
                      /\ Entry(loans[on[1]][on[2]], "rate_time") = terms[on].rate_time
                      /\ Entry(loans[on[1]][on[2]], "remainder") = terms[on].remainder
    BY <2>1 DEF Entry, LoanAt
  <2>3. DOMAIN terms = A
    OBVIOUS
  <2> HIDE DEF A, terms
  <2>4. QED
    BY <2>2, <2>3
<1>3. \A c : Held(loans, c) = SumFunction([on \in A |-> Entry(loans[on[1]][on[2]], c)])
  BY DEF Held, SumFunction
<1>4. /\ SumTerms(terms).rate = SumFunction([on \in A |-> terms[on].rate])
      /\ SumTerms(terms).rate_time = SumFunction([on \in A |-> terms[on].rate_time])
      /\ SumTerms(terms).remainder = SumFunction([on \in A |-> terms[on].remainder])
  <2>1. DOMAIN terms = A
    OBVIOUS
  <2> HIDE DEF terms, A
  <2>2. QED
    BY <2>1 DEF SumTerms
<1> HIDE DEF A, terms
<1>5. Held(loans, "principal") = SumFunction([on \in A |-> LoanAt(on).outstanding])
  BY <1>2, <1>3, Zenon
<1>6. Held(loans, "interest") = SumFunction([on \in A |-> LoanAt(on).accrued_interest])
  BY <1>2, <1>3, Zenon
<1>7. Held(loans, "rate") = SumTerms(terms).rate
  <2>1. Held(loans, "rate")
          = SumFunction([on \in A |-> Entry(loans[on[1]][on[2]], "rate")])
    BY <1>3
  <2>2. [on \in A |-> Entry(loans[on[1]][on[2]], "rate")] = [on \in A |-> terms[on].rate]
    BY <1>2
  <2>3. QED
    BY <1>4, <2>1, <2>2, Zenon
<1>8. Held(loans, "rate_time") = SumTerms(terms).rate_time
  <2>1. Held(loans, "rate_time")
          = SumFunction([on \in A |-> Entry(loans[on[1]][on[2]], "rate_time")])
    BY <1>3
  <2>2. [on \in A |-> Entry(loans[on[1]][on[2]], "rate_time")] = [on \in A |-> terms[on].rate_time]
    BY <1>2
  <2>3. QED
    BY <1>4, <2>1, <2>2, Zenon
<1>9. Held(loans, "remainder") = SumTerms(terms).remainder
  <2>1. Held(loans, "remainder")
          = SumFunction([on \in A |-> Entry(loans[on[1]][on[2]], "remainder")])
    BY <1>3
  <2>2. [on \in A |-> Entry(loans[on[1]][on[2]], "remainder")] = [on \in A |-> terms[on].remainder]
    BY <1>2
  <2>3. QED
    BY <1>4, <2>1, <2>2, Zenon
<1>10. QED
  BY <1>1, <1>5, <1>6, <1>7, <1>8, <1>9 DEF A, terms

\* And those of one operator.
LEMMA HeldByAre ==
  ASSUME BooksInv, NEW o \in Operators
  PROVE  /\ HeldBy(loans, o, "open") = Cardinality(OpenLoans(o))
         /\ HeldBy(loans, o, "owed")
              = SumFunction([n \in OpenLoans(o) |-> TotalOwed(loans[o][n])])
<1> DEFINE A == OpenIn(loans, o)
           e == [n \in A |-> Entry(loans[o][n], "open")]
<1>1. OpenLoans(o) = A /\ IsFiniteSet(A) /\ \A n \in A : Counts(loans[o][n])
  BY OpenLoansAre DEF BooksInv, LoanBooks, FiniteBooks, OpenIn
<1>2. HeldBy(loans, o, "open") = Cardinality(A)
  <2>1. \A n \in A : e[n] = 1
    BY <1>1, CountsOne
  <2>2. HeldBy(loans, o, "open") = SumFunctionOnSet(e, A)
    BY DEF HeldBy
  <2> HIDE DEF A, e
  <2>3. QED
    BY <1>1, <2>1, <2>2, SumOfOnes
<1>3. [n \in A |-> Entry(loans[o][n], "owed")] = [n \in A |-> TotalOwed(loans[o][n])]
  <2>1. \A n \in A : Entry(loans[o][n], "owed") = TotalOwed(loans[o][n])
    BY <1>1 DEF Entry
  <2> HIDE DEF A
  <2>2. QED
    BY <2>1
<1>4. HeldBy(loans, o, "owed") = SumFunction([n \in A |-> Entry(loans[o][n], "owed")])
  BY DEF HeldBy, SumFunction
<1> HIDE DEF A
<1>5. QED
  BY <1>1, <1>2, <1>3, <1>4

\* The books of the pool, in a state of the invariant.
LEMMA PoolIsBooked == BooksInv => PoolBooks
<1> SUFFICES ASSUME BooksInv PROVE PoolBooks
  OBVIOUS
<1>1. /\ pool.total_borrowed = Held(loans, "principal")
      /\ pool.accrued_interest = Held(loans, "interest")
      /\ pool.accrual_rate = Held(loans, "rate")
      /\ pool.accrual_rate_time = Held(loans, "rate_time")
      /\ pool.accrual_remainders = Held(loans, "remainder")
  BY DEF BooksInv, LoanBooks, PoolColumns, Booked
<1> DEFINE terms == [on \in AllOpen |-> AccrualTerms(LoanAt(on))]
<1>2. SumTerms(terms) = [ rate      |-> SumTerms(terms).rate,
                          rate_time |-> SumTerms(terms).rate_time,
                          remainder |-> SumTerms(terms).remainder ]
  <2> HIDE DEF terms
  <2>1. QED
    BY DEF SumTerms
<1>3. pool.total_shares = SumFunction(shares)
  BY DEF BooksInv, ShareBooks
<1>4. /\ pool.accrual_rate = SumTerms(terms).rate
      /\ pool.accrual_rate_time = SumTerms(terms).rate_time
      /\ pool.accrual_remainders = SumTerms(terms).remainder
  BY <1>1, HeldAre
<1>5. /\ pool.total_borrowed = SumFunction([on \in AllOpen |-> LoanAt(on).outstanding])
      /\ pool.accrued_interest
           = SumFunction([on \in AllOpen |-> LoanAt(on).accrued_interest])
  BY <1>1, HeldAre
<1>6. [ rate      |-> pool.accrual_rate,
        rate_time |-> pool.accrual_rate_time,
        remainder |-> pool.accrual_remainders ] = SumTerms(terms)
  <2> HIDE DEF terms
  <2>1. QED
    BY <1>2, <1>4
<1>7. QED
  BY <1>3, <1>5, <1>6 DEF PoolBooks

\* The totals of the pool are the sums over the lenders and the open loans, for
\* any number of them: no deposit, withdrawal, loan, repayment or sweep leaves a
\* total beside what it stands for.
THEOREM PoolIsSummed == Spec => []PoolBooks
BY BooksInvariance, PoolIsBooked, PTL

\* The books of the operators.
LEMMA OperatorsAreBooked == BooksInv => OperatorBooks
<1> SUFFICES ASSUME BooksInv, NEW o \in Operators
             PROVE  /\ operators[o].open_loans = Cardinality(OpenLoans(o))
                    /\ operators[o].open_loans <= MAX_OPEN_LOANS
                    /\ operators[o].total_debt =
                         SumFunction([n \in OpenLoans(o) |-> TotalOwed(loans[o][n])])
  BY DEF OperatorBooks
<1>1. /\ operators[o].total_debt = HeldBy(loans, o, "owed")
      /\ operators[o].open_loans = HeldBy(loans, o, "open")
  BY DEF BooksInv, LoanBooks, AccountColumns, BookedOf
<1>2. QED
  BY <1>1, HeldByAre DEF BooksInv, FewOpen

\* Every operator account counts its loans and their debt, within the maximum.
THEOREM OperatorsAreSummed == Spec => []OperatorBooks
BY BooksInvariance, OperatorsAreBooked, PTL
-----------------------------------------------------------------------------
(***************************************************************************)
(* The credit limit.                                                       *)
(***************************************************************************)
\* Only a borrow creates a loan account.
LEMMA OnlyBorrowOpens ==
  ASSUME BooksInv, [Next]_vars, ~BorrowStep, NEW o \in Operators, NEW n \in Nonces,
         loans[o][n] = NoLoan
  PROVE  loans'[o][n] = NoLoan
<1>1. n \notin OpenLoans(o)
  BY DEF OpenLoans
<1>2. CASE LenderStep
  BY <1>2 DEF LenderStep, Deposit, Withdraw
<1>3. CASE RepayStep
  <2>1. PICK p \in Operators, k \in Nonces, amount \in Repayments : Repay(p, k, amount)
    BY <1>3 DEF RepayStep
  <2>2. /\ k \in OpenLoans(p)
        /\ loans' = [loans EXCEPT ![p][k] = Settlement(loans[p][k], amount).loan]
    BY <2>1 DEF Repay
  <2>3. ~(p = o /\ k = n)
    BY <1>1, <2>2
  <2>4. QED
    BY <2>2, <2>3 DEF BooksInv, Inv, TypeOK
<1>4. CASE SweepStep
  <2>1. PICK p \in Operators, m \in RewardMints, rate \in RateAttestations :
          Sweep(p, m, rate)
    BY <1>4 DEF SweepStep
  <2>2. PICK handled, watched : SweepWrites(p, m, handled, watched)
    BY <2>1 DEF Sweep, SweepWithoutConverting, SweepConverting
  <2>3. loans' = [loans EXCEPT ![p] =
                    [k \in Nonces |-> IF k \in OpenLoansOn(p, m) THEN handled[k]
                                      ELSE loans[p][k]]]
    BY <2>2 DEF SweepWrites
  <2>4. p = o => n \notin OpenLoansOn(p, m)
    BY <1>1 DEF OpenLoansOn
  <2>5. QED
    BY <2>3, <2>4 DEF BooksInv, Inv, TypeOK
<1>5. CASE \/ RewardStep
           \/ \E m \in RewardMints, amount \in Fundings : FundConversion(m, amount)
           \/ \E attestor \in Keys : SetAttestor(attestor)
           \/ Tick
  BY <1>5 DEF RewardStep, ReceivePayout, MoveOut, Approve, Revoke, FundConversion,
              SetAttestor, Tick
<1>6. CASE UNCHANGED vars
  BY <1>6 DEF vars
<1>7. QED
  BY <1>2, <1>3, <1>4, <1>5, <1>6 DEF Next

\* A borrow brings every loan of the operator up to now.
LEMMA BorrowAccruesAll ==
  ASSUME BooksInv, NEW o \in Operators, NEW m \in RewardMints, NEW amount \in Loans,
         NEW term \in 1..MAX_TERM_PERIODS, NEW share \in SweepShares,
         NEW apr \in MaxAprs, NEW limit \in LimitAttestations,
         NEW rate \in RateAttestations,
         Borrow(o, m, amount, term, share, apr, limit, rate),
         NEW k \in Nonces, Counts(loans'[o][k])
  PROVE  loans'[o][k].last_accrual_at = now'
<1> DEFINE loan == NewLoan(m, amount, term, share, QuoteAprBps(PoolAccrued(o), amount))
<1>1. /\ \A n \in OpenLoans(o) : AccruedLoans(o)[n] \in LoanType
      /\ \A n \in Nonces :
           loans'[o][n] = IF n = limit.nonce THEN loan
                          ELSE IF n \in OpenLoans(o) THEN AccruedLoans(o)[n]
                          ELSE loans[o][n]
      /\ now' = now
  BY BorrowWrites
<1>2. loan.last_accrual_at = now
  BY DEF NewLoan
<1> HIDE DEF loan
<1>3. CASE k = limit.nonce
  BY <1>1, <1>2, <1>3
<1>4. CASE k # limit.nonce
  <2>1. k \in OpenLoans(o)
    BY <1>1, <1>4, OpenLoansAre
  <2>2. AccruedLoans(o)[k].last_accrual_at = now
    BY <1>1, <2>1, AccruedEntries, OpenLoanType, OpenLoansAre
       DEF BooksInv, Inv, TypeOK, NoneAhead, AccruedLoans
  <2>3. QED
    BY <1>1, <1>4, <2>1, <2>2
<1>5. QED
  BY <1>3, <1>4

\* FR-012 for every limit and every amount: whatever interest its loans have not
\* booked yet, an operator that is lent to is within the limit attested for the
\* loan, by the key that was trusted when it was made.
THEOREM WithinLimit == Spec => DebtWithinLimit
<1> DEFINE Attested(o, n) ==
             \E limit \in LimitAttestations :
               /\ limit.signer = pool.attestor
               /\ limit.operator = o
               /\ limit.nonce = n
               /\ SumFunction([k \in OpenLoans(o)' |-> Debt(o, k)']) <= limit.limit
           Opens == \A o \in Operators, n \in Nonces :
                      (loans[o][n] = NoLoan /\ loans'[o][n] # NoLoan) => Attested(o, n)
<1>1. BooksInv' => OperatorBooks'
  BY OperatorsAreBooked, PTL
<1>2. BooksInv /\ [Next]_vars => Opens
  <2> SUFFICES ASSUME BooksInv, [Next]_vars, NEW o \in Operators, NEW n \in Nonces,
                      loans[o][n] = NoLoan, loans'[o][n] # NoLoan
               PROVE  Attested(o, n)
    OBVIOUS
  <2>1. BooksInv' /\ OperatorBooks'
    BY <1>1, NextBooks
  <2>2. PICK p \in Operators, m \in RewardMints, amount \in Loans,
             term \in 1..MAX_TERM_PERIODS, share \in SweepShares, apr \in MaxAprs,
             limit \in LimitAttestations, rate \in RateAttestations :
          Borrow(p, m, amount, term, share, apr, limit, rate)
    BY OnlyBorrowOpens DEF BorrowStep
  <2>3. p = o /\ limit.nonce = n
    <3>1. /\ p # o => loans'[o] = loans[o]
          /\ p = o /\ n # limit.nonce /\ n \notin OpenLoans(o) => loans'[o][n] = loans[o][n]
      BY <2>2, BorrowWrites
    <3>2. n \notin OpenLoans(o)
      BY DEF OpenLoans
    <3>3. QED
      BY <3>1, <3>2
  <2>4. limit.signer = pool.attestor /\ limit.operator = o
    BY <2>2, <2>3 DEF Borrow, LimitVerified
  <2>5. operators'[o].total_debt <= limit.limit
    BY <2>2, <2>3, BorrowWrites
  <2>6. operators'[o].total_debt
          = SumFunction([k \in OpenLoans(o)' |-> TotalOwed(loans'[o][k])])
    BY <2>1 DEF OperatorBooks
  <2>7. [k \in OpenLoans(o)' |-> TotalOwed(loans'[o][k])]
          = [k \in OpenLoans(o)' |-> Debt(o, k)']
    <3>1. ASSUME NEW k \in OpenLoans(o)'
          PROVE  TotalOwed(loans'[o][k]) = Debt(o, k)'
      <4>1. k \in Nonces /\ Counts(loans'[o][k]) /\ loans'[o][k] \in LoanType /\ now' \in Nat
        BY <2>1 DEF OpenLoans, Counts, BooksInv, Inv, TypeOK
      <4>2. loans'[o][k].last_accrual_at = now'
        BY <2>2, <2>3, <4>1, BorrowAccruesAll
      <4>3. Accrue(loans'[o][k], now') = loans'[o][k]
        BY <4>1, <4>2 DEF Accrue
      <4>4. QED
        BY <4>3 DEF Debt
    <3>2. QED
      BY <3>1
  <2>8. QED
    BY <2>3, <2>4, <2>5, <2>6, <2>7
<1>3. BooksInv /\ [Next]_vars => [Opens]_vars
  BY <1>2
<1>4. DebtWithinLimit <=> [][Opens]_vars
  BY DEF DebtWithinLimit
<1> HIDE DEF Opens
<1>5. QED
  BY BooksInvariance, <1>3, <1>4, PTL DEF Spec
-----------------------------------------------------------------------------
(***************************************************************************)
(* The value of the pool.                                                  *)
(***************************************************************************)
\* Quotients, one by one and of the sum.
LEMMA SumOfQuotients ==
  ASSUME NEW S, IsFiniteSet(S), NEW D \in Nat \ {0}, NEW x, NEW q,
         \A i \in S : x[i] \in Nat /\ q[i] = x[i] \div D
  PROVE  LET X == SumFunctionOnSet(x, S)
             Q == SumFunctionOnSet(q, S)
             n == Cardinality(S)
         IN  /\ X \in Nat /\ Q \in Nat /\ n \in Nat /\ X \div D \in Nat
             /\ Q <= X \div D
             /\ X \div D <= Q + n
             /\ S # {} => X \div D < Q + n
<1> DEFINE X == SumFunctionOnSet(x, S)
           Q == SumFunctionOnSet(q, S)
           n == Cardinality(S)
           whole == [i \in S |-> q[i] * D]
           rest == [i \in S |-> x[i] - q[i] * D]
           one == [i \in S |-> 1]
           most == [i \in S |-> one[i] * (D - 1)]
           R == SumFunctionOnSet(rest, S)
<1>1. ASSUME NEW i \in S
      PROVE  /\ q[i] \in Nat /\ whole[i] = q[i] * D /\ whole[i] \in Nat
             /\ rest[i] \in 0..(D - 1) /\ x[i] = whole[i] + rest[i]
  <2>1. q[i] \in Nat /\ q[i] = x[i] \div D
    BY DivMod
  <2>2. x[i] = q[i] * D + (x[i] % D) /\ q[i] * D \in Nat /\ (x[i] % D) \in 0..(D - 1)
    BY <2>1, Division, DivMod
  <2>3. whole[i] = q[i] * D /\ rest[i] = x[i] - q[i] * D
    OBVIOUS
  <2> HIDE DEF whole, rest
  <2> DEFINE y == q[i] * D
  <2>4. y \in Nat /\ whole[i] = y /\ rest[i] = x[i] - y /\ x[i] = y + (x[i] % D)
    BY <2>2, <2>3
  <2> HIDE DEF y
  <2>5. QED
    BY <2>1, <2>2, <2>3, <2>4
<1>2. \A i \in S : one[i] = 1 /\ most[i] = one[i] * (D - 1) /\ most[i] = D - 1
  OBVIOUS
<1> HIDE DEF whole, rest, one, most
<1>3. X \in Nat /\ Q \in Nat /\ R \in Nat
  BY <1>1, SumOfNaturals
<1>4. n \in Nat /\ (S # {} => n > 0)
  BY FS_CardinalityType, FS_EmptySet
<1>5. SumFunctionOnSet(whole, S) = Q * D
  BY <1>1, SumTimes
<1>6. X = SumFunctionOnSet(whole, S) + R
  BY <1>1, SumPlus
<1>7. R <= n * (D - 1)
  <2>1. SumFunctionOnSet(one, S) = n
    BY <1>2, SumOfOnes
  <2>2. \A i \in S : one[i] \in Int /\ most[i] = one[i] * (D - 1)
    BY <1>2
  <2>3. SumFunctionOnSet(most, S) = n * (D - 1)
    <3>1. D - 1 \in Int
      OBVIOUS
    <3>2. SumFunctionOnSet(most, S) = SumFunctionOnSet(one, S) * (D - 1)
      BY <2>2, <3>1, SumTimes
    <3>3. QED
      BY <2>1, <3>2
  <2>4. \A i \in S : rest[i] \in Int /\ most[i] \in Int /\ rest[i] <= most[i]
    BY <1>1, <1>2
  <2>5. QED
    BY <2>3, <2>4, SumAtMost
<1> HIDE DEF X, Q, R, n
<1> DEFINE k == X \div D
<1>8. /\ k \in Nat /\ k * D \in Nat /\ k * D <= X /\ X < k * D + D
  BY <1>3, DivMod, Division
<1>9. Q * D \in Nat /\ X = Q * D + R
  BY <1>3, <1>5, <1>6
<1> HIDE DEF k
<1>10. Q <= k
  <2> SUFFICES ASSUME k + 1 <= Q PROVE FALSE
    BY <1>3, <1>8
  <2>1. (k + 1) * D <= Q * D
    BY <1>3, <1>8, Multiply
  <2>2. (k + 1) * D = k * D + D
    BY <1>8, Multiply
  <2>3. QED
    BY <1>3, <1>8, <1>9, <2>1, <2>2
<1>11. n * D \in Nat /\ n * (D - 1) = n * D - n
  <2>1. n * D \in Nat
    BY <1>4, Multiply
  <2>2. \A a \in Nat, b \in Nat : a * (b - 1) = a * b - a
    OBVIOUS
  <2>3. QED
    BY <1>4, <2>1, <2>2
<1>12. (Q + n) * D = Q * D + n * D
  BY <1>3, <1>4, Multiply
<1>13. k <= Q + n
  <2> SUFFICES ASSUME Q + n + 1 <= k PROVE FALSE
    BY <1>3, <1>4, <1>8
  <2>1. (Q + n + 1) * D <= k * D
    BY <1>3, <1>4, <1>8, Multiply
  <2>2. (Q + n + 1) * D = (Q + n) * D + D
    BY <1>3, <1>4, Multiply
  <2>3. QED
    BY <1>3, <1>4, <1>7, <1>8, <1>9, <1>11, <1>12, <2>1, <2>2
<1>14. ASSUME n > 0 PROVE k < Q + n
  <2> SUFFICES ASSUME Q + n <= k PROVE FALSE
    BY <1>3, <1>4, <1>8
  <2>1. (Q + n) * D <= k * D
    BY <1>3, <1>4, <1>8, Multiply
  <2>2. QED
    BY <1>3, <1>4, <1>7, <1>8, <1>9, <1>11, <1>12, <1>14, <2>1
<1>15. QED
  BY <1>3, <1>4, <1>8, <1>10, <1>13, <1>14 DEF k, X, Q, n
\* What the open loans would book if all were touched now, before it is divided.
Unbooked(on) == AccrualNumerator(LoanAt(on), now)

\* The accrual sums add up to it.
LEMMA UnbookedIsSummed ==
  ASSUME BooksInv
  PROVE  LET x == [on \in AllOpen |-> Unbooked(on)]
         IN  /\ IsFiniteSet(AllOpen)
             /\ \A on \in AllOpen : /\ x[on] \in Nat
                                    /\ InterestTo(LoanAt(on), now) = x[on] \div ACCRUAL_DENOMINATOR
                                    /\ LoanAt(on).accrued_interest \in Nat
             /\ SumFunctionOnSet(x, AllOpen) \in Nat
             /\ pool.accrual_rate * now + pool.accrual_remainders
                  = SumFunctionOnSet(x, AllOpen) + pool.accrual_rate_time
             /\ UnbookedInterest(pool, now)
                  = SumFunctionOnSet(x, AllOpen) \div ACCRUAL_DENOMINATOR
<1> DEFINE A == AllOpen
           x == [on \in A |-> Unbooked(on)]
           rate == [on \in A |-> LoanAt(on).outstanding * LoanAt(on).apr_bps]
           time == [on \in A |-> LoanAt(on).outstanding * LoanAt(on).apr_bps
                                   * LoanAt(on).last_accrual_at]
           rest == [on \in A |-> LoanAt(on).interest_remainder]
           reached == [on \in A |-> rate[on] * now]
           both == [on \in A |-> x[on] + time[on]]
           X == SumFunctionOnSet(x, A)
<1>1. IsFiniteSet(A)
  BY HeldAre DEF BooksInv, LoanBooks, FiniteBooks
<1>2. ASSUME NEW on \in A
      PROVE  /\ LoanAt(on) \in LoanType /\ IsOpen(LoanAt(on)) /\ now \in Nat
             /\ LoanAt(on).last_accrual_at <= now
  <2>1. PICK o \in Operators, n \in Nonces : on = <<o, n>> /\ Counts(loans[o][n])
    BY <1>2, HeldAre DEF AllIn
  <2>2. QED
    BY <2>1 DEF LoanAt, Counts, BooksInv, Inv, TypeOK, NoneAhead
<1>3. ASSUME NEW on \in A
      PROVE  /\ rate[on] \in Nat /\ time[on] \in Nat /\ rest[on] \in Nat /\ x[on] \in Nat
             /\ x[on] + time[on] = rate[on] * now + rest[on]
             /\ InterestTo(LoanAt(on), now) = x[on] \div ACCRUAL_DENOMINATOR
             /\ AccrualTerms(LoanAt(on)) =
                  [rate |-> rate[on], rate_time |-> time[on], remainder |-> rest[on]]
             /\ LoanAt(on).accrued_interest \in Nat
  <2> DEFINE loan == LoanAt(on)
             last == loan.last_accrual_at
             a == loan.outstanding * loan.apr_bps
             b == loan.interest_remainder
  <2>1. /\ loan.outstanding \in Nat /\ loan.apr_bps \in Nat /\ last \in Nat
        /\ b \in Nat /\ last <= now /\ loan.accrued_interest \in Nat
        /\ loan \in LoanType /\ now \in Nat
    BY <1>2, LoanFields
  <2>2. a \in Nat /\ b \in 0..(ACCRUAL_DENOMINATOR - 1)
    BY <1>2, <2>1 DEF LoanType
  <2>3. /\ rate[on] = a /\ time[on] = a * last /\ rest[on] = b
        /\ x[on] = a * (now - last) + b
    BY DEF Unbooked, AccrualNumerator
  <2>4. AccrualTerms(LoanAt(on)) = [rate |-> a, rate_time |-> a * last, remainder |-> b]
    BY <1>2 DEF AccrualTerms
  <2>5. InterestTo(loan, now) = IF now <= last THEN 0
                                ELSE (a * (now - last) + b) \div ACCRUAL_DENOMINATOR
    BY DEF InterestTo, AccrualNumerator
  <2> HIDE DEF loan, last, a, b, x, rate, time, rest
  <2>6. /\ a * last \in Nat /\ a * now \in Nat /\ a * (now - last) \in Nat
        /\ a * (now - last) + a * last = a * now
    <3>1. now - last \in Nat /\ (now - last) + last = now
      BY <2>1
    <3>2. \A u, v, w \in Nat : u * (v + w) = u * v + u * w
      OBVIOUS
    <3>3. a * ((now - last) + last) = a * (now - last) + a * last
      BY <2>1, <2>2, <3>1, <3>2
    <3>4. QED
      BY <2>1, <2>2, <3>1, <3>3, Multiply
  <2>7. InterestTo(loan, now) = (a * (now - last) + b) \div ACCRUAL_DENOMINATOR
    <3>1. CASE now <= last
      <4>1. now - last = 0
        BY <2>1, <3>1
      <4>2. a * (now - last) + b = b
        BY <2>2, <4>1
      <4>3. b \div ACCRUAL_DENOMINATOR = 0
        BY <2>2, LoanAssumption
      <4>4. QED
        BY <2>5, <3>1, <4>2, <4>3
    <3>2. CASE ~(now <= last)
      BY <2>5, <3>2
    <3>3. QED
      BY <3>1, <3>2
  <2>8. QED
    BY <2>1, <2>2, <2>3, <2>4, <2>6, <2>7 DEF loan
<1>4. /\ pool.accrual_rate = SumFunctionOnSet(rate, A)
      /\ pool.accrual_rate_time = SumFunctionOnSet(time, A)
      /\ pool.accrual_remainders = SumFunctionOnSet(rest, A)
  <2> DEFINE terms == [on \in A |-> AccrualTerms(LoanAt(on))]
  <2>1. [ rate      |-> pool.accrual_rate,
          rate_time |-> pool.accrual_rate_time,
          remainder |-> pool.accrual_remainders ] = SumTerms(terms)
    BY PoolIsBooked DEF PoolBooks
  <2>2. /\ [on \in DOMAIN terms |-> terms[on].rate] = rate
        /\ [on \in DOMAIN terms |-> terms[on].rate_time] = time
        /\ [on \in DOMAIN terms |-> terms[on].remainder] = rest
    <3>1. \A on \in A : /\ terms[on].rate = rate[on] /\ terms[on].rate_time = time[on]
                        /\ terms[on].remainder = rest[on]
      BY <1>3
    <3>2. DOMAIN terms = A /\ rate = [on \in A |-> rate[on]]
          /\ time = [on \in A |-> time[on]] /\ rest = [on \in A |-> rest[on]]
      OBVIOUS
    <3> HIDE DEF terms, rate, time, rest
    <3>3. QED
      BY <3>1, <3>2
  <2>3. DOMAIN rate = A /\ DOMAIN time = A /\ DOMAIN rest = A
    OBVIOUS
  <2> HIDE DEF terms, rate, time, rest
  <2>4. /\ SumTerms(terms).rate = SumFunction(rate)
        /\ SumTerms(terms).rate_time = SumFunction(time)
        /\ SumTerms(terms).remainder = SumFunction(rest)
    BY <2>2 DEF SumTerms
  <2>5. /\ SumFunction(rate) = SumFunctionOnSet(rate, A)
        /\ SumFunction(time) = SumFunctionOnSet(time, A)
        /\ SumFunction(rest) = SumFunctionOnSet(rest, A)
    BY <2>3 DEF SumFunction
  <2>6. QED
    BY <2>1, <2>4, <2>5
<1>5. \A on \in A : reached[on] = rate[on] * now /\ both[on] = x[on] + time[on]
  OBVIOUS
<1>6. now \in Nat /\ now \in Int
  BY DEF BooksInv, Inv, TypeOK
<1> HIDE DEF A, x, rate, time, rest, reached, both
<1>7. /\ X \in Nat /\ SumFunctionOnSet(time, A) \in Nat
      /\ SumFunctionOnSet(rate, A) \in Nat /\ SumFunctionOnSet(rest, A) \in Nat
  BY <1>1, <1>3, SumOfNaturals
<1>8. SumFunctionOnSet(reached, A) = SumFunctionOnSet(rate, A) * now
  BY <1>1, <1>3, <1>5, <1>6, SumTimes
<1>9. SumFunctionOnSet(both, A) = X + SumFunctionOnSet(time, A)
  BY <1>1, <1>3, <1>5, SumPlus
<1>10. SumFunctionOnSet(both, A) = SumFunctionOnSet(reached, A) + SumFunctionOnSet(rest, A)
  <2>1. \A on \in A : /\ reached[on] \in Int /\ rest[on] \in Int
                      /\ both[on] = reached[on] + rest[on]
    BY <1>3, <1>5, <1>6, Multiply
  <2>2. QED
    BY <1>1, <2>1, SumPlus
<1>11. pool.accrual_rate * now + pool.accrual_remainders = X + pool.accrual_rate_time
  BY <1>4, <1>8, <1>9, <1>10
<1>12. UnbookedInterest(pool, now) = X \div ACCRUAL_DENOMINATOR
  <2>1. pool.accrual_rate_time \in Nat
    BY <1>4, <1>7
  <2>2. SaturatingSub(pool.accrual_rate * now + pool.accrual_remainders,
                      pool.accrual_rate_time) = X
    BY <1>7, <1>11, <2>1 DEF SaturatingSub
  <2>3. QED
    BY <2>2 DEF UnbookedInterest
<1>13. QED
  BY <1>1, <1>3, <1>7, <1>11, <1>12 DEF A, x

\* The value the pool puts on itself, against the loans one by one.
LEMMA ValueIsTracked == BooksInv => ValueTracksLoans
<1> SUFFICES ASSUME BooksInv PROVE ValueTracksLoans
  OBVIOUS
<1> DEFINE A == AllOpen
           x == [on \in A |-> Unbooked(on)]
           q == [on \in A |-> InterestTo(LoanAt(on), now)]
           own == [on \in A |-> LoanAt(on).accrued_interest]
           all == [on \in A |-> LoanAt(on).accrued_interest + InterestTo(LoanAt(on), now)]
           X == SumFunctionOnSet(x, A)
           Q == SumFunctionOnSet(q, A)
           booked == SumFunction(all)
           k == X \div ACCRUAL_DENOMINATOR
<1>1. /\ IsFiniteSet(A)
      /\ \A on \in A : /\ x[on] \in Nat
                       /\ InterestTo(LoanAt(on), now) = x[on] \div ACCRUAL_DENOMINATOR
                       /\ LoanAt(on).accrued_interest \in Nat
      /\ UnbookedInterest(pool, now) = k
  BY UnbookedIsSummed
<1>2. \A on \in A : /\ q[on] = InterestTo(LoanAt(on), now)
                    /\ own[on] = LoanAt(on).accrued_interest
                    /\ all[on] = LoanAt(on).accrued_interest + InterestTo(LoanAt(on), now)
  OBVIOUS
<1>3. booked = SumFunctionOnSet(all, A)
  BY DEF SumFunction
<1>4. pool.accrued_interest = SumFunctionOnSet(own, A)
  BY PoolIsBooked DEF PoolBooks, SumFunction
<1>5. ACCRUAL_DENOMINATOR \in Nat \ {0}
  BY LoanAssumption
<1>6. Value(pool, now) = pool.total_deposits + pool.accrued_interest + k
      /\ pool.total_deposits \in Nat /\ pool.accrued_interest \in Nat
  BY <1>1, PoolFields DEF Value, BooksInv, Inv, TypeOK
<1> HIDE DEF x, q, own, all, booked
<1>7. /\ Q \in Nat /\ Cardinality(A) \in Nat /\ k \in Nat
      /\ Q <= k /\ k <= Q + Cardinality(A)
      /\ A # {} => k < Q + Cardinality(A)
  <2> HIDE DEF A
  <2>1. \A on \in A : x[on] \in Nat /\ q[on] = x[on] \div ACCRUAL_DENOMINATOR
    BY <1>1, <1>2
  <2>2. QED
    BY <1>1, <1>5, <2>1, SumOfQuotients
<1>8. booked = pool.accrued_interest + Q
  <2> HIDE DEF A
  <2>1. \A on \in A : own[on] \in Int /\ q[on] \in Int /\ all[on] = own[on] + q[on]
    <3> SUFFICES ASSUME NEW on \in A
                 PROVE  own[on] \in Int /\ q[on] \in Int /\ all[on] = own[on] + q[on]
      OBVIOUS
    <3>1. x[on] \in Nat /\ x[on] \div ACCRUAL_DENOMINATOR \in Int
      BY <1>1, <1>5
    <3>2. own[on] \in Int
      BY <1>1, <1>2
    <3>3. q[on] = x[on] \div ACCRUAL_DENOMINATOR
      BY <1>1, <1>2
    <3>4. all[on] = own[on] + q[on]
      BY <1>2
    <3>5. QED
      BY <3>1, <3>2, <3>3, <3>4
  <2>2. QED
    BY <1>1, <1>3, <1>4, <2>1, SumPlus
<1>9. LET excess == Value(pool, now) - (pool.total_deposits + booked)
      IN  /\ excess >= 0
          /\ excess <= Cardinality(A)
          /\ A # {} => excess < Cardinality(A)
  <2> HIDE DEF A, Q, k
  <2>1. QED
    BY <1>6, <1>7, <1>8
<1>10. QED
  BY <1>9 DEF ValueTracksLoans, booked, all

\* FR-018 for any number of loans: the value a share is priced by is what the pool
\* holds and its loans would book now, and over that by less than a unit for each.
THEOREM ValueTracked == Spec => []ValueTracksLoans
BY BooksInvariance, ValueIsTracked, PTL
-----------------------------------------------------------------------------
(***************************************************************************)
(* No loan gets stuck.                                                     *)
(***************************************************************************)
\* No total is below what one open loan adds to it: no checked subtraction of
\* `untrack`, record_repayment or settle can fail on the books of a loan.
LEMMA EntriesWithin ==
  ASSUME BooksInv, NEW o \in Operators, NEW n \in OpenLoans(o)
  PROVE  /\ \A c \in PoolColumns : Entry(loans[o][n], c) <= Booked(pool, c)
         /\ \A c \in AccountColumns : Entry(loans[o][n], c) <= BookedOf(operators[o], c)
         /\ \A c \in Columns : Entry(loans[o][n], c) \in Nat
<1>1. /\ n \in Nonces /\ Counts(loans[o][n]) /\ loans \in Tables
      /\ FiniteBooks(loans) /\ PoolColumns \subseteq Columns /\ AccountColumns \subseteq Columns
  BY DEF OpenLoans, Counts, BooksInv, Inv, TypeOK, Tables, LoanBooks, PoolColumns,
         AccountColumns, Columns
<1>2. \A p \in Operators, k \in Nonces : loans[p][k] \in LoanType \union {NoLoan}
  BY <1>1 DEF Tables
<1>3. ASSUME NEW c \in Columns
      PROVE  Entry(loans[o][n], c) <= Held(loans, c)
  <2> DEFINE A == AllIn(loans)
             f == [on \in A |-> Entry(loans[on[1]][on[2]], c)]
  <2>1. <<o, n>> \in A
    BY <1>1 DEF AllIn
  <2>2. \A on \in A : f[on] \in Nat
    BY <1>2, EntryType DEF AllIn
  <2>3. f[<<o, n>>] = Entry(loans[o][n], c)
    BY <2>1
  <2>4. Held(loans, c) = SumFunctionOnSet(f, A) /\ IsFiniteSet(A)
    BY <1>1 DEF Held, FiniteBooks
  <2> HIDE DEF A, f
  <2>5. QED
    BY <2>1, <2>2, <2>3, <2>4, SumOfNaturals
<1>4. ASSUME NEW c \in Columns
      PROVE  Entry(loans[o][n], c) <= HeldBy(loans, o, c)
  <2> DEFINE A == OpenIn(loans, o)
             f == [k \in A |-> Entry(loans[o][k], c)]
  <2>1. n \in A
    BY <1>1 DEF OpenIn
  <2>2. \A k \in A : f[k] \in Nat
    BY <1>2, EntryType DEF OpenIn
  <2>3. f[n] = Entry(loans[o][n], c)
    BY <2>1
  <2>4. HeldBy(loans, o, c) = SumFunctionOnSet(f, A) /\ IsFiniteSet(A)
    BY <1>1 DEF HeldBy, FiniteBooks
  <2> HIDE DEF A, f
  <2>5. QED
    BY <2>1, <2>2, <2>3, <2>4, SumOfNaturals
<1>5. \A c \in Columns : Entry(loans[o][n], c) \in Nat
  BY <1>1, <1>2, EntryType
<1>6. /\ \A c \in PoolColumns : Booked(pool, c) = Held(loans, c)
      /\ \A c \in AccountColumns : BookedOf(operators[o], c) = HeldBy(loans, o, c)
  BY DEF BooksInv, LoanBooks
<1>7. QED
  BY <1>1, <1>3, <1>4, <1>5, <1>6

\* What the totals of a pool and of an operator can still take: the interest of
\* each open loan fits on top of them.
RoomToRepay ==
  \A o \in Operators : \A n \in OpenLoans(o) :
    LET accrued == InterestTo(loans[o][n], now)
    IN  /\ Fits(pool.total_deposits + loans[o][n].accrued_interest + accrued)
        /\ Fits(pool.accrued_interest + accrued)
        /\ Fits(operators[o].total_debt + accrued)

\* Paying off all a loan owes then passes every checked operation, and closes it.
LEMMA RepayingPasses == BooksInv /\ RoomToRepay => Repayable
<1> SUFFICES ASSUME BooksInv, RoomToRepay, NEW o \in Operators, NEW n \in OpenLoans(o)
             PROVE  LET s == Settlement(loans[o][n], Debt(o, n))
                    IN  Settles(pool, operators[o], s) /\ ~IsOpen(s.loan)
  BY DEF Repayable
<1> DEFINE loan == loans[o][n]
           a == Accrue(loan, now)
           debt == Debt(o, n)
           accrued == InterestTo(loan, now)
           s == Settlement(loan, debt)
<1>1. /\ n \in Nonces /\ loan # NoLoan /\ loan \in LoanType /\ IsOpen(loan)
      /\ Counts(loan) /\ Sound(loan) /\ now \in Nat /\ loan.last_accrual_at <= now
  BY OpenLoanType, AllSound DEF BooksInv, Inv, TypeOK, NoneAhead, Counts
<1>2. /\ a.outstanding = loan.outstanding
      /\ a.accrued_interest = loan.accrued_interest + accrued
      /\ TotalOwed(a) = debt /\ debt = loan.outstanding + loan.accrued_interest + accrued
      /\ accrued \in Nat /\ loan.outstanding \in Nat /\ loan.accrued_interest \in Nat
  BY <1>1, AccrueFacts, InterestType, LoanFields DEF Debt, TotalOwed
<1>3. /\ loan.outstanding <= pool.total_borrowed
      /\ loan.accrued_interest <= pool.accrued_interest
      /\ AccrualTerms(loan).rate <= pool.accrual_rate
      /\ AccrualTerms(loan).rate_time <= pool.accrual_rate_time
      /\ AccrualTerms(loan).remainder <= pool.accrual_remainders
      /\ AccrualTerms(loan).rate \in Nat /\ AccrualTerms(loan).rate_time \in Nat
      /\ AccrualTerms(loan).remainder \in Nat
  BY <1>1, EntriesWithin DEF PoolColumns, Booked, Entry, Columns
<1>4. /\ loan.outstanding + loan.accrued_interest <= operators[o].total_debt
      /\ 1 <= operators[o].open_loans
  BY <1>1, EntriesWithin DEF AccountColumns, BookedOf, Entry, TotalOwed
<1>5. /\ Fits(pool.total_deposits + loan.accrued_interest + accrued)
      /\ Fits(pool.accrued_interest + accrued)
      /\ Fits(operators[o].total_debt + accrued)
  BY DEF RoomToRepay
<1>6. /\ pool \in PoolType /\ operators[o] \in AccountType
      /\ pool.total_deposits \in U64 /\ pool.total_borrowed \in U64
      /\ pool.accrued_interest \in U64 /\ pool.accrual_rate \in Nat
      /\ pool.accrual_rate_time \in Nat /\ pool.accrual_remainders \in Nat
      /\ operators[o].total_debt \in U64 /\ operators[o].open_loans \in Nat
  BY DEF BooksInv, Inv, TypeOK, PoolType, AccountType
<1>7. /\ debt \in Nat /\ Fits(debt)
      /\ s.paid = debt /\ s.accrued = accrued
      /\ s.interest = loan.accrued_interest + accrued
      /\ s.before = AccrualTerms(loan)
  <2>1. debt \in Nat /\ Fits(debt)
    BY <1>2, <1>4, <1>5, <1>6, ArithmeticAssumption DEF Fits, U64
  <2>2. Least(debt, TotalOwed(a)) = debt
    BY <1>2, <2>1 DEF Least
  <2>3. InterestPart(a, debt) = loan.accrued_interest + accrued
    BY <1>2, <2>1, <2>2 DEF InterestPart, Least
  <2>4. QED
    BY <2>1, <2>2, <2>3 DEF Settlement
<1>8. s.loan = ApplyRepayment(a, debt) /\ s.after = AccrualTerms(s.loan)
      /\ s.closed = IF IsOpen(s.loan) THEN 0 ELSE 1
  BY DEF Settlement
<1>9. ~IsOpen(s.loan)
  <2>1. a \in LoanType /\ IsOpen(a)
    BY <1>1, <1>2, <1>7, AccrueFacts DEF IsOpen
  <2>2. /\ s.loan.outstanding = a.outstanding - PrincipalPart(a, debt)
        /\ s.loan.accrued_interest = a.accrued_interest - InterestPart(a, debt)
        /\ IsOpen(s.loan) <=> TotalOwed(s.loan) # 0
    BY <1>7, <1>8, <2>1, RepaymentFields
  <2>3. s.paid = Least(debt, TotalOwed(a)) /\ s.interest = InterestPart(a, debt)
    BY DEF Settlement
  <2>4. PrincipalPart(a, debt) = loan.outstanding
    BY <1>2, <1>7, <2>3 DEF PrincipalPart
  <2>5. TotalOwed(s.loan) = 0
    BY <1>2, <1>7, <2>2, <2>3, <2>4 DEF TotalOwed
  <2>6. QED
    BY <2>2, <2>5
<1>10. s.closed = 1 /\ s.after = NoTerms
  BY <1>8, <1>9 DEF AccrualTerms
<1> HIDE DEF loan, a, debt, accrued, s
<1>11. PoolSettled(pool, s) \in PoolType
  <2> DEFINE p == PoolSettled(pool, s)
  <2>1. /\ p = [pool EXCEPT !.total_borrowed     = pool.total_borrowed - (s.paid - s.interest),
                            !.accrued_interest   = pool.accrued_interest + s.accrued - s.interest,
                            !.total_deposits     = pool.total_deposits + s.interest,
                            !.accrual_rate       = pool.accrual_rate - s.before.rate + s.after.rate,
                            !.accrual_rate_time  = pool.accrual_rate_time - s.before.rate_time + s.after.rate_time,
                            !.accrual_remainders = pool.accrual_remainders - s.before.remainder + s.after.remainder]
    BY <1>6 DEF PoolSettled, Retrack, PoolType
  <2>2. /\ pool.total_borrowed - (s.paid - s.interest) \in U64
        /\ pool.accrued_interest + s.accrued - s.interest \in U64
        /\ pool.total_deposits + s.interest \in U64
    BY <1>2, <1>3, <1>5, <1>6, <1>7, ArithmeticAssumption DEF U64, Fits
  <2>3. /\ pool.accrual_rate - s.before.rate + s.after.rate \in Nat
        /\ pool.accrual_rate_time - s.before.rate_time + s.after.rate_time \in Nat
        /\ pool.accrual_remainders - s.before.remainder + s.after.remainder \in Nat
    BY <1>3, <1>6, <1>7, <1>10 DEF NoTerms
  <2>4. QED
    BY <1>6, <2>1, <2>2, <2>3 DEF PoolType
<1>12. AccountSettled(operators[o], s) \in AccountType
  <2>1. /\ operators[o].total_debt + s.accrued - s.paid \in U64
        /\ operators[o].open_loans - s.closed \in Nat
    BY <1>2, <1>4, <1>5, <1>6, <1>7, <1>10, ArithmeticAssumption DEF U64, Fits
  <2>2. QED
    BY <1>6, <2>1 DEF AccountSettled, AccountType
<1>13. Tracks(pool, s.before) /\ Fits(s.interest)
  BY <1>2, <1>3, <1>5, <1>6, <1>7, ArithmeticAssumption DEF Tracks, Fits, U64
<1>14. QED
  BY <1>5, <1>7, <1>9, <1>11, <1>12, <1>13 DEF Settles, s, loan, debt

\* No loan is ever stuck: as long as the totals have room for its interest, paying
\* off all an open loan owes passes every checked operation of settle and closes
\* it, whatever was lent, paid, swept and withdrawn before.
THEOREM NoLoanIsStuck == Spec => [](RoomToRepay => Repayable)
BY BooksInvariance, RepayingPasses, PTL
-----------------------------------------------------------------------------
(***************************************************************************)
(* The price of a share.                                                   *)
(***************************************************************************)
\* The numerators of a pool's sums at a time: what its loans would book, before it
\* is divided, and that much more than they started from.
Ahead(p, at) == p.accrual_rate * at + p.accrual_remainders - p.accrual_rate_time

\* The sums never run behind what the loans have booked, so nothing is floored at
\* zero in Pool::unbooked_interest.
LEMMA NothingOverbooked == BooksInv => Ahead(pool, now) \in Nat
<1> SUFFICES ASSUME BooksInv PROVE Ahead(pool, now) \in Nat
  OBVIOUS
<1> DEFINE X == SumFunctionOnSet([on \in AllOpen |-> Unbooked(on)], AllOpen)
<1>1. X \in Nat /\ pool.accrual_rate * now + pool.accrual_remainders
                     = X + pool.accrual_rate_time
  BY UnbookedIsSummed
<1> DEFINE r == pool.accrual_rate * now
<1>2. pool.accrual_rate_time \in Nat /\ pool.accrual_remainders \in Nat /\ r \in Nat
  BY PoolFields DEF BooksInv, Inv, TypeOK
<1>3. Ahead(pool, now) = r + pool.accrual_remainders - pool.accrual_rate_time
  BY DEF Ahead
<1> HIDE DEF X, r
<1>4. QED
  BY <1>1, <1>2, <1>3 DEF r

\* The value after the sums have moved: k units are lost to rounding at most.
LEMMA ValueMoves ==
  ASSUME NEW p \in PoolType, NEW q \in PoolType, NEW at \in Nat,
         Ahead(p, at) \in Nat, Ahead(q, at) \in Nat, NEW a \in Nat, NEW k \in Nat,
         q.total_deposits + q.accrued_interest = p.total_deposits + p.accrued_interest + a,
         Ahead(p, at) <= Ahead(q, at) + (a + k) * ACCRUAL_DENOMINATOR
  PROVE  Value(p, at) <= Value(q, at) + k
<1> DEFINE D == ACCRUAL_DENOMINATOR
           P == Ahead(p, at)
           Q == Ahead(q, at)
           x == P \div D
           y == Q \div D
<1>1. D \in Nat \ {0} /\ P \in Nat /\ Q \in Nat /\ P <= Q + (a + k) * D
  BY LoanAssumption
<1>2. UnbookedInterest(p, at) = x /\ UnbookedInterest(q, at) = y
  <2>1. ASSUME NEW w \in PoolType, Ahead(w, at) \in Nat
        PROVE  UnbookedInterest(w, at) = Ahead(w, at) \div D
    <3>1. w.accrual_rate * at \in Nat /\ w.accrual_remainders \in Nat
          /\ w.accrual_rate_time \in Nat
      BY PoolFields
    <3>2. SaturatingSub(w.accrual_rate * at + w.accrual_remainders, w.accrual_rate_time)
            = Ahead(w, at)
      BY <2>1, <3>1 DEF Ahead, SaturatingSub
    <3>3. QED
      BY <3>2 DEF UnbookedInterest
  <2>2. QED
    BY <2>1
<1> HIDE DEF P, Q, D
<1>3. /\ x \in Nat /\ y \in Nat /\ x * D \in Nat /\ y * D \in Nat
      /\ x * D <= P /\ Q < y * D + D
  BY <1>1, DivMod, Division
<1> HIDE DEF x, y
<1>4. x <= y + a + k
  <2> SUFFICES ASSUME y + a + k + 1 <= x PROVE FALSE
    BY <1>3
  <2>1. (y + a + k + 1) * D <= x * D
    BY <1>1, <1>3, Multiply
  <2>2. (y + a + k + 1) * D = y * D + (a + k) * D + D /\ (a + k) * D \in Nat
    <3>1. \A u, v, w \in Nat : (u + v + w + 1) * D = u * D + (v + w) * D + D
      BY <1>1
    <3>2. QED
      BY <1>1, <1>3, <3>1
  <2>3. QED
    BY <1>1, <1>3, <2>1, <2>2
<1>5. /\ p.total_deposits \in Nat /\ p.accrued_interest \in Nat
      /\ q.total_deposits \in Nat /\ q.accrued_interest \in Nat
  BY PoolFields
<1>6. Value(p, at) = p.total_deposits + p.accrued_interest + x
      /\ Value(q, at) = q.total_deposits + q.accrued_interest + y
  BY <1>2 DEF Value
<1>7. QED
  BY <1>3, <1>4, <1>5, <1>6

\* What the terms of one loan are ahead.
TermsAhead(terms, at) == terms.rate * at + terms.remainder - terms.rate_time

\* Booking interest takes from the sums what it adds to the books.
LEMMA AccruedTerms ==
  ASSUME now \in Nat, NEW loan \in LoanType, IsOpen(loan), loan.last_accrual_at <= now
  PROVE  LET a == Accrue(loan, now)
         IN  /\ TermsAhead(AccrualTerms(loan), now)
                  = TermsAhead(AccrualTerms(a), now) + InterestTo(loan, now) * ACCRUAL_DENOMINATOR
             /\ TermsAhead(AccrualTerms(a), now) = a.interest_remainder
             /\ a.interest_remainder \in Nat /\ a.interest_remainder < ACCRUAL_DENOMINATOR
             /\ InterestTo(loan, now) \in Nat
<1> DEFINE a == Accrue(loan, now)
           c == loan.outstanding * loan.apr_bps
           last == loan.last_accrual_at
           rest == loan.interest_remainder
           booked == InterestTo(loan, now) * ACCRUAL_DENOMINATOR
<1>1. /\ a.apr_bps = loan.apr_bps /\ a.last_accrual_at = now
      /\ a.outstanding = loan.outstanding /\ a.status = loan.status
      /\ a.interest_remainder + booked = c * (now - last) + rest
  BY AccrueFacts, AccrueFields
<1>2. /\ c \in Nat /\ last \in Nat /\ rest \in Nat /\ last <= now
      /\ InterestTo(loan, now) \in Nat
      /\ booked \in Nat
  BY LoanFields, InterestType, LoanAssumption
<1>3. a.interest_remainder \in Nat /\ a.interest_remainder < ACCRUAL_DENOMINATOR
  <2>1. CASE now <= last
    BY <2>1, LoanAssumption DEF Accrue, LoanType
  <2>2. CASE ~(now <= last)
    <3>1. a.interest_remainder = AccrualNumerator(loan, now) % ACCRUAL_DENOMINATOR
      BY <2>2 DEF Accrue, LoanType
    <3>2. AccrualNumerator(loan, now) % ACCRUAL_DENOMINATOR \in 0..(ACCRUAL_DENOMINATOR - 1)
      BY <1>2, <2>2, InterestType
    <3>3. QED
      BY <3>1, <3>2, LoanAssumption
  <2>3. QED
    BY <2>1, <2>2
<1>4. /\ AccrualTerms(loan).rate = c /\ AccrualTerms(loan).rate_time = c * last
      /\ AccrualTerms(loan).remainder = rest
      /\ AccrualTerms(a).rate = c /\ AccrualTerms(a).rate_time = c * now
      /\ AccrualTerms(a).remainder = a.interest_remainder
  BY <1>1 DEF AccrualTerms, IsOpen
<1> HIDE DEF a, c, last, rest, booked
<1>5. /\ c * now \in Nat /\ c * last \in Nat /\ now - last \in Nat
      /\ c * (now - last) \in Nat /\ c * now = c * (now - last) + c * last
  <2>1. now - last \in Nat /\ (now - last) + last = now
    BY <1>2
  <2>2. \A u, v, w \in Nat : u * (v + w) = u * v + u * w
    OBVIOUS
  <2>3. c * ((now - last) + last) = c * (now - last) + c * last
    BY <1>2, <2>1, <2>2
  <2>4. QED
    BY <1>2, <2>1, <2>3, Multiply
<1>6. TermsAhead(AccrualTerms(a), now) = a.interest_remainder
  BY <1>3, <1>4, <1>5 DEF TermsAhead
<1>7. TermsAhead(AccrualTerms(loan), now) = c * (now - last) + rest
  BY <1>2, <1>4, <1>5 DEF TermsAhead
<1>8. QED
  BY <1>1, <1>2, <1>3, <1>6, <1>7 DEF a, booked

\* A settlement does the same, and drops the fraction of a unit it has not booked
\* if it closes the loan.
LEMMA SettledTerms ==
  ASSUME now \in Nat, NEW loan \in LoanType, IsOpen(loan), loan.last_accrual_at <= now,
         Sound(loan), NEW max_amount \in Nat, Fits(TotalOwed(Accrue(loan, now)))
  PROVE  LET s == Settlement(loan, max_amount)
         IN  TermsAhead(s.before, now)
               <= TermsAhead(s.after, now) + s.accrued * ACCRUAL_DENOMINATOR
                    + s.closed * ACCRUAL_DENOMINATOR
<1> DEFINE a == Accrue(loan, now)
           s == Settlement(loan, max_amount)
           booked == InterestTo(loan, now) * ACCRUAL_DENOMINATOR
<1>1. /\ TermsAhead(AccrualTerms(loan), now) = a.interest_remainder + booked
      /\ a.interest_remainder \in Nat /\ a.interest_remainder < ACCRUAL_DENOMINATOR
      /\ booked \in Nat
  BY AccruedTerms, LoanAssumption
<1>2. /\ a \in LoanType /\ IsOpen(a) /\ a.last_accrual_at = now
  BY AccrueFacts, AccrueFields DEF IsOpen
<1>3. /\ s.loan = ApplyRepayment(a, max_amount)
      /\ s.accrued = InterestTo(loan, now)
      /\ s.closed = IF IsOpen(s.loan) THEN 0 ELSE 1
      /\ s.before = AccrualTerms(loan) /\ s.after = AccrualTerms(s.loan)
  BY DEF Settlement
<1>4. /\ s.loan.last_accrual_at = now
      /\ s.loan.interest_remainder = a.interest_remainder
      /\ s.loan \in LoanType
  BY <1>2, <1>3, RepaymentFields, SettlementFacts
<1>5. 0 * ACCRUAL_DENOMINATOR = 0 /\ 1 * ACCRUAL_DENOMINATOR = ACCRUAL_DENOMINATOR
      /\ ACCRUAL_DENOMINATOR \in Nat
  BY LoanAssumption
<1>6. CASE IsOpen(s.loan)
  <2> DEFINE c == s.loan.outstanding * s.loan.apr_bps
  <2>1. c \in Nat /\ c * now \in Nat
    BY <1>4, LoanFields
  <2>2. s.after.rate = c /\ s.after.rate_time = c * now
        /\ s.after.remainder = a.interest_remainder
    BY <1>3, <1>4, <1>6 DEF AccrualTerms
  <2> HIDE DEF c, s, a, booked
  <2>3. TermsAhead(s.after, now) = a.interest_remainder
    BY <1>1, <2>1, <2>2 DEF TermsAhead
  <2>4. QED
    BY <1>1, <1>3, <1>5, <1>6, <2>3 DEF s, booked
<1>7. CASE ~IsOpen(s.loan)
  <2>1. s.after.rate = 0 /\ s.after.rate_time = 0 /\ s.after.remainder = 0
    BY <1>3, <1>7 DEF AccrualTerms, NoTerms
  <2> HIDE DEF s, a, booked
  <2>2. TermsAhead(s.after, now) = 0
    BY <2>1 DEF TermsAhead
  <2>3. QED
    BY <1>1, <1>3, <1>5, <1>7, <2>2 DEF s, booked
<1>8. QED
  BY <1>6, <1>7
\* What holds of the terms of each loan holds of their sums.
LEMMA TermsAdd ==
  ASSUME NEW T, IsFiniteSet(T), now \in Nat,
         NEW rate, NEW rest, NEW time, NEW rate2, NEW rest2, NEW time2, NEW a, NEW k,
         \A n \in T : /\ rate[n] \in Int /\ rest[n] \in Int /\ time[n] \in Int
                      /\ rate2[n] \in Int /\ rest2[n] \in Int /\ time2[n] \in Int
                      /\ a[n] \in Int /\ k[n] \in Int
                      /\ rate[n] * now + rest[n] - time[n]
                           <= rate2[n] * now + rest2[n] - time2[n]
                                + a[n] * ACCRUAL_DENOMINATOR + k[n] * ACCRUAL_DENOMINATOR
  PROVE  /\ SumFunctionOnSet(rate, T) \in Int /\ SumFunctionOnSet(rest, T) \in Int
         /\ SumFunctionOnSet(time, T) \in Int /\ SumFunctionOnSet(rate2, T) \in Int
         /\ SumFunctionOnSet(rest2, T) \in Int /\ SumFunctionOnSet(time2, T) \in Int
         /\ SumFunctionOnSet(a, T) \in Int /\ SumFunctionOnSet(k, T) \in Int
         /\ SumFunctionOnSet(rate, T) * now + SumFunctionOnSet(rest, T)
              - SumFunctionOnSet(time, T)
              <= SumFunctionOnSet(rate2, T) * now + SumFunctionOnSet(rest2, T)
                   - SumFunctionOnSet(time2, T)
                   + SumFunctionOnSet(a, T) * ACCRUAL_DENOMINATOR
                   + SumFunctionOnSet(k, T) * ACCRUAL_DENOMINATOR
<1> DEFINE D == ACCRUAL_DENOMINATOR
           \* the products
           rn  == [n \in T |-> rate[n] * now]
           rn2 == [n \in T |-> rate2[n] * now]
           aD  == [n \in T |-> a[n] * D]
           kD  == [n \in T |-> k[n] * D]
           \* what is added on each side once nothing is subtracted any more
           l1 == [n \in T |-> rn[n] + rest[n]]
           l2 == [n \in T |-> l1[n] + time2[n]]
           r1 == [n \in T |-> rn2[n] + rest2[n]]
           r2 == [n \in T |-> r1[n] + time[n]]
           r3 == [n \in T |-> r2[n] + aD[n]]
           r4 == [n \in T |-> r3[n] + kD[n]]
           Sum(f) == SumFunctionOnSet(f, T)
<1>1. D \in Nat /\ D \in Int /\ now \in Int
  BY LoanAssumption
<1>2. \A x \in Int : x * now \in Int /\ x * D \in Int
  BY <1>1
<1>3. \A n \in T : /\ rn[n] = rate[n] * now /\ rn2[n] = rate2[n] * now
                   /\ aD[n] = a[n] * D /\ kD[n] = k[n] * D
                   /\ l1[n] = rn[n] + rest[n] /\ l2[n] = l1[n] + time2[n]
                   /\ r1[n] = rn2[n] + rest2[n] /\ r2[n] = r1[n] + time[n]
                   /\ r3[n] = r2[n] + aD[n] /\ r4[n] = r3[n] + kD[n]
  OBVIOUS
<1> HIDE DEF rn, rn2, aD, kD, l1, l2, r1, r2, r3, r4
<1>4. \A n \in T : /\ rn[n] \in Int /\ rn2[n] \in Int /\ aD[n] \in Int /\ kD[n] \in Int
                   /\ l1[n] \in Int /\ l2[n] \in Int /\ r1[n] \in Int /\ r2[n] \in Int
                   /\ r3[n] \in Int /\ r4[n] \in Int
                   /\ l2[n] <= r4[n]
  <2> SUFFICES ASSUME NEW n \in T
               PROVE  /\ rn[n] \in Int /\ rn2[n] \in Int /\ aD[n] \in Int /\ kD[n] \in Int
                      /\ l1[n] \in Int /\ l2[n] \in Int /\ r1[n] \in Int /\ r2[n] \in Int
                      /\ r3[n] \in Int /\ r4[n] \in Int
                      /\ l2[n] <= r4[n]
    OBVIOUS
  <2>1. rn[n] \in Int /\ rn2[n] \in Int /\ aD[n] \in Int /\ kD[n] \in Int
    BY <1>2, <1>3
  <2>2. rn[n] + rest[n] - time[n] <= rn2[n] + rest2[n] - time2[n] + aD[n] + kD[n]
    BY <1>3
  <2>3. QED
    BY <1>3, <2>1, <2>2
<1>5. Sum(rn) = Sum(rate) * now /\ Sum(rn2) = Sum(rate2) * now
      /\ Sum(aD) = Sum(a) * D /\ Sum(kD) = Sum(k) * D
  <2>1. Sum(rn) = Sum(rate) * now
    BY <1>1, <1>3, SumTimes
  <2>2. Sum(rn2) = Sum(rate2) * now
    BY <1>1, <1>3, SumTimes
  <2>3. Sum(aD) = Sum(a) * D
    BY <1>1, <1>3, SumTimes
  <2>4. Sum(kD) = Sum(k) * D
    BY <1>1, <1>3, SumTimes
  <2>5. QED
    BY <2>1, <2>2, <2>3, <2>4
<1>6. Sum(l1) = Sum(rn) + Sum(rest) /\ Sum(l2) = Sum(l1) + Sum(time2)
  <2>1. Sum(l1) = Sum(rn) + Sum(rest)
    BY <1>3, <1>4, SumPlus
  <2>2. Sum(l2) = Sum(l1) + Sum(time2)
    BY <1>3, <1>4, SumPlus
  <2>3. QED
    BY <2>1, <2>2
<1>7. Sum(r1) = Sum(rn2) + Sum(rest2) /\ Sum(r2) = Sum(r1) + Sum(time)
      /\ Sum(r3) = Sum(r2) + Sum(aD) /\ Sum(r4) = Sum(r3) + Sum(kD)
  <2>1. Sum(r1) = Sum(rn2) + Sum(rest2)
    BY <1>3, <1>4, SumPlus
  <2>2. Sum(r2) = Sum(r1) + Sum(time)
    BY <1>3, <1>4, SumPlus
  <2>3. Sum(r3) = Sum(r2) + Sum(aD)
    BY <1>3, <1>4, SumPlus
  <2>4. Sum(r4) = Sum(r3) + Sum(kD)
    BY <1>3, <1>4, SumPlus
  <2>5. QED
    BY <2>1, <2>2, <2>3, <2>4
<1>8. Sum(l2) <= Sum(r4)
  BY <1>4, SumAtMost
<1>9. /\ Sum(rate) \in Int /\ Sum(rest) \in Int /\ Sum(time) \in Int
      /\ Sum(rate2) \in Int /\ Sum(rest2) \in Int /\ Sum(time2) \in Int
      /\ Sum(a) \in Int /\ Sum(k) \in Int
  BY SumType
<1>10. Sum(rn) \in Int /\ Sum(rn2) \in Int /\ Sum(aD) \in Int /\ Sum(kD) \in Int
  BY <1>4, SumType
<1> HIDE DEF Sum, D
<1>11. Sum(rn) + Sum(rest) - Sum(time)
         <= Sum(rn2) + Sum(rest2) - Sum(time2) + Sum(aD) + Sum(kD)
  BY <1>6, <1>7, <1>8, <1>9, <1>10
<1>12. Sum(rate) * now + Sum(rest) - Sum(time)
         <= Sum(rate2) * now + Sum(rest2) - Sum(time2) + Sum(a) * D + Sum(k) * D
  BY <1>5, <1>11
<1>13. QED
  BY <1>9, <1>12 DEF Sum, D

\* The value of a pool whose books a settlement, or the sum of several, was made on.
LEMMA SettledValue ==
  ASSUME pool \in PoolType, pool' \in PoolType, now \in Nat,
         Ahead(pool, now) \in Nat, Ahead(pool', now) \in Nat,
         NEW s, pool' = PoolSettled(pool, s),
         s.accrued \in Nat, s.closed \in Nat, s.interest \in Int,
         s.before.rate \in Int, s.before.rate_time \in Int, s.before.remainder \in Int,
         s.after.rate \in Int, s.after.rate_time \in Int, s.after.remainder \in Int,
         TermsAhead(s.before, now)
           <= TermsAhead(s.after, now) + s.accrued * ACCRUAL_DENOMINATOR
                + s.closed * ACCRUAL_DENOMINATOR
  PROVE  /\ Value(pool, now) <= Value(pool', now) + s.closed
         /\ pool'.total_shares = pool.total_shares
<1>1. /\ pool'.total_deposits = pool.total_deposits + s.interest
      /\ pool'.accrued_interest = pool.accrued_interest + s.accrued - s.interest
      /\ pool'.accrual_rate = pool.accrual_rate - s.before.rate + s.after.rate
      /\ pool'.accrual_rate_time
           = pool.accrual_rate_time - s.before.rate_time + s.after.rate_time
      /\ pool'.accrual_remainders
           = pool.accrual_remainders - s.before.remainder + s.after.remainder
      /\ pool'.total_shares = pool.total_shares
  BY DEF PoolSettled, Retrack, PoolType
<1>2. /\ pool.total_deposits \in Int /\ pool.accrued_interest \in Int
      /\ pool.accrual_rate \in Int /\ pool.accrual_rate_time \in Int
      /\ pool.accrual_remainders \in Int
  BY PoolFields
<1>3. Ahead(pool', now) = Ahead(pool, now) - TermsAhead(s.before, now) + TermsAhead(s.after, now)
  <2> DEFINE R == pool.accrual_rate * now
             b == s.before.rate * now
             a == s.after.rate * now
  <2>1. R \in Int /\ b \in Int /\ a \in Int
    BY <1>2
  <2>2. pool'.accrual_rate * now = R - b + a
    <3>1. \A x, y, z \in Int : (x - y + z) * now = x * now - y * now + z * now
      OBVIOUS
    <3>2. QED
      BY <1>1, <1>2, <3>1
  <2>3. /\ Ahead(pool', now) = (R - b + a) + pool'.accrual_remainders - pool'.accrual_rate_time
        /\ Ahead(pool, now) = R + pool.accrual_remainders - pool.accrual_rate_time
        /\ TermsAhead(s.before, now) = b + s.before.remainder - s.before.rate_time
        /\ TermsAhead(s.after, now) = a + s.after.remainder - s.after.rate_time
    BY <2>2 DEF Ahead, TermsAhead
  <2> HIDE DEF R, a, b
  <2>4. QED
    BY <1>1, <1>2, <2>1, <2>3
<1>4. pool'.total_deposits + pool'.accrued_interest
        = pool.total_deposits + pool.accrued_interest + s.accrued
  BY <1>1, <1>2
<1>5. Ahead(pool, now) <= Ahead(pool', now) + (s.accrued + s.closed) * ACCRUAL_DENOMINATOR
  <2>1. (s.accrued + s.closed) * ACCRUAL_DENOMINATOR
          = s.accrued * ACCRUAL_DENOMINATOR + s.closed * ACCRUAL_DENOMINATOR
    <3>1. \A x, y \in Nat : (x + y) * ACCRUAL_DENOMINATOR
                              = x * ACCRUAL_DENOMINATOR + y * ACCRUAL_DENOMINATOR
      BY LoanAssumption
    <3>2. QED
      BY <3>1
  <2>2. s.accrued * ACCRUAL_DENOMINATOR \in Nat /\ s.closed * ACCRUAL_DENOMINATOR \in Nat
    BY LoanAssumption
  <2>3. TermsAhead(s.before, now) \in Int /\ TermsAhead(s.after, now) \in Int
    BY DEF TermsAhead
  <2>4. QED
    BY <1>3, <2>1, <2>2, <2>3
<1>6. QED
  BY <1>1, <1>4, <1>5, ValueMoves
\* What follows from the books, to be had of the state after a step as well.
BookFacts ==
  /\ Ahead(pool, now) \in Nat
  /\ OperatorBooks
  /\ IsFiniteSet(AllOpen)
  /\ \A o \in Operators : IsFiniteSet(OpenLoans(o))

\* In every state,
LEMMA BooksThen == BooksInv => BookFacts
<1> SUFFICES ASSUME BooksInv PROVE BookFacts
  OBVIOUS
<1>1. IsFiniteSet(AllOpen)
  BY HeldAre DEF BooksInv, LoanBooks, FiniteBooks
<1>2. \A o \in Operators : IsFiniteSet(OpenLoans(o))
  BY OpenLoansAre DEF BooksInv, LoanBooks, FiniteBooks
<1>3. QED
  BY <1>1, <1>2, NothingOverbooked, OperatorsAreBooked DEF BookFacts

\* and in the next.
LEMMA BooksThenNext == BooksInv' => BookFacts'
BY BooksThen, PTL

\* The loans that close are those an operator account no longer counts.
LEMMA ClosedAreCounted ==
  ASSUME BooksInv, BooksInv', NEW o \in Operators, NEW k \in Int,
         operators'[o].open_loans = operators[o].open_loans - k,
         \A n \in Nonces : n \notin OpenLoans(o) => loans'[o][n] = loans[o][n],
         \A n \in OpenLoans(o) : loans'[o][n] # NoLoan
  PROVE  LoansClosed \in Nat /\ k <= LoansClosed
<1> DEFINE A == OpenLoans(o)
           B == OpenLoans(o)'
           C == A \ B
           closed == {on \in AllOpen : ~IsOpen(loans'[on[1]][on[2]])}
<1>1. /\ IsFiniteSet(A) /\ operators[o].open_loans = Cardinality(A)
      /\ IsFiniteSet(AllOpen)
  BY BooksThen DEF BookFacts, OperatorBooks
<1>2. IsFiniteSet(B) /\ operators'[o].open_loans = Cardinality(B)
  BY BooksThenNext DEF BookFacts, OperatorBooks
<1>3. B \subseteq A
  <2>1. ASSUME NEW n \in Nonces, loans'[o][n] # NoLoan, IsOpen(loans'[o][n])
        PROVE  n \in A
    BY <2>1 DEF OpenLoans
  <2>2. QED
    BY <2>1 DEF OpenLoans
<1>4. IsFiniteSet(C) /\ Cardinality(C) = k
  <2> HIDE DEF A, B
  <2>1. A \cap B = B
    BY <1>3
  <2>2. IsFiniteSet(A \ B) /\ Cardinality(A \ B) = Cardinality(A) - Cardinality(A \cap B)
    BY <1>1, FS_Difference
  <2>3. Cardinality(A) \in Nat /\ Cardinality(B) \in Nat
    BY <1>1, <1>2, FS_CardinalityType
  <2>4. Cardinality(A) - k = Cardinality(B)
    BY <1>1, <1>2
  <2>5. Cardinality(A \ B) = Cardinality(A) - Cardinality(B)
    BY <2>1, <2>2
  <2>6. k = Cardinality(A) - Cardinality(B)
    BY <2>3, <2>4
  <2>7. QED
    BY <2>2, <2>5, <2>6
<1>5. Cardinality(Pairs(o, C)) = Cardinality(C) /\ IsFiniteSet(Pairs(o, C))
  <2> DEFINE one == [n \in C |-> 1]
             ones == [on \in Pairs(o, C) |-> 1]
  <2>1. \A n \in C : one[n] = 1 /\ one[n] \in Int
    OBVIOUS
  <2>2. \A n \in C : one[n] \in Int /\ ones[<<o, n>>] = one[n]
    BY PairsAre
  <2>3. \A on \in Pairs(o, C) : ones[on] = 1
    OBVIOUS
  <2> HIDE DEF C, one, ones
  <2>4. /\ IsFiniteSet(Pairs(o, C))
        /\ SumFunctionOnSet(ones, Pairs(o, C)) = SumFunctionOnSet(one, C)
    BY <1>4, <2>2, SumOfPairs
  <2>5. SumFunctionOnSet(one, C) = Cardinality(C)
    BY <1>4, <2>1, SumOfOnes
  <2>6. SumFunctionOnSet(ones, Pairs(o, C)) = Cardinality(Pairs(o, C))
    BY <2>3, <2>4, SumOfOnes
  <2>7. QED
    BY <2>4, <2>5, <2>6
<1>6. Pairs(o, C) \in SUBSET closed
  <2>1. ASSUME NEW n \in C PROVE <<o, n>> \in closed
    <3>1. n \in A /\ n \in Nonces /\ n \notin B
      BY DEF OpenLoans
    <3>2. <<o, n>> \in AllOpen
      BY <3>1 DEF AllOpen
    <3>3. ~IsOpen(loans'[o][n])
      BY <3>1 DEF OpenLoans
    <3>4. QED
      BY <3>2, <3>3
  <2> HIDE DEF C, closed
  <2>2. QED
    BY <2>1, PairsAre
<1>7. IsFiniteSet(closed) /\ Cardinality(closed) \in Nat
  <2>1. closed \in SUBSET AllOpen
    OBVIOUS
  <2> HIDE DEF closed
  <2>2. QED
    BY <1>1, <2>1, FS_Subset, FS_CardinalityType
<1>8. Cardinality(Pairs(o, C)) <= Cardinality(closed)
  <2> HIDE DEF C, closed
  <2>1. QED
    BY <1>6, <1>7, FS_Subset
<1>9. LoansClosed = Cardinality(closed)
  BY DEF LoansClosed
<1> HIDE DEF C, closed
<1>10. QED
  BY <1>4, <1>5, <1>7, <1>8, <1>9

\* What a step may do to the price of a share.
PriceHolds ==
  (Value(pool', now) + LoansClosed) * pool.total_shares
    >= Value(pool, now) * pool'.total_shares

\* A step that takes no more off the value than the loans it closes.
LEMMA ValueKept ==
  ASSUME pool \in PoolType, pool' \in PoolType, now \in Nat, LoansClosed \in Nat,
         NEW k \in Nat, k <= LoansClosed, Value(pool, now) <= Value(pool', now) + k,
         pool'.total_shares = pool.total_shares
  PROVE  PriceHolds
<1> DEFINE V == Value(pool, now)
           W == Value(pool', now)
           S == pool.total_shares
           c == LoansClosed
<1>1. V \in Nat /\ W \in Nat /\ S \in Nat
  BY ValueType, PoolFields
<1> HIDE DEF V, W, S, c
<1>2. V <= W + c /\ c \in Nat
  BY <1>1 DEF V, W, c
<1>3. V * S <= (W + c) * S /\ V * S \in Nat /\ (W + c) * S \in Nat
  BY <1>1, <1>2, Multiply
<1>4. PriceHolds <=> (W + c) * S >= V * S
  BY DEF PriceHolds, V, W, S, c
<1>5. QED
  BY <1>3, <1>4

\* A settlement, or the sum of several, on the books of one operator.
LEMMA SettledPrice ==
  ASSUME BooksInv, BooksInv', now' = now, NEW o \in Operators, NEW s,
         pool' = PoolSettled(pool, s),
         operators'[o].open_loans = operators[o].open_loans - s.closed,
         \A n \in Nonces : n \notin OpenLoans(o) => loans'[o][n] = loans[o][n],
         \A n \in OpenLoans(o) : loans'[o][n] # NoLoan,
         s.accrued \in Nat, s.closed \in Nat, s.interest \in Int,
         s.before.rate \in Int, s.before.rate_time \in Int, s.before.remainder \in Int,
         s.after.rate \in Int, s.after.rate_time \in Int, s.after.remainder \in Int,
         TermsAhead(s.before, now)
           <= TermsAhead(s.after, now) + s.accrued * ACCRUAL_DENOMINATOR
                + s.closed * ACCRUAL_DENOMINATOR
  PROVE  PriceHolds
<1>1. pool \in PoolType /\ pool' \in PoolType /\ now \in Nat
  BY DEF BooksInv, Inv, TypeOK
<1>2. Ahead(pool, now) \in Nat
  BY NothingOverbooked
<1>3. Ahead(pool', now) \in Nat
  BY BooksThenNext DEF BookFacts, Ahead
<1>4. LoansClosed \in Nat /\ s.closed <= LoansClosed
  BY ClosedAreCounted
<1>5. /\ Value(pool, now) <= Value(pool', now) + s.closed
      /\ pool'.total_shares = pool.total_shares
  BY <1>1, <1>2, <1>3, SettledValue
<1>6. QED
  BY <1>1, <1>4, <1>5, ValueKept
\* The terms of a loan are natural numbers.
LEMMA TermsType ==
  ASSUME NEW loan \in LoanType
  PROVE  /\ AccrualTerms(loan).rate \in Nat /\ AccrualTerms(loan).rate_time \in Nat
         /\ AccrualTerms(loan).remainder \in Nat
<1>1. /\ loan.outstanding * loan.apr_bps \in Nat /\ loan.interest_remainder \in Nat
      /\ loan.outstanding * loan.apr_bps * loan.last_accrual_at \in Nat
  BY LoanFields
<1>2. QED
  BY <1>1 DEF AccrualTerms, NoTerms

\* The numbers of one settlement.
LEMMA SettlementTypes ==
  ASSUME now \in Nat, NEW loan \in LoanType, IsOpen(loan), loan.last_accrual_at <= now,
         Sound(loan), NEW max_amount \in Nat, Fits(TotalOwed(Accrue(loan, now)))
  PROVE  LET s == Settlement(loan, max_amount)
         IN  /\ s.loan \in LoanType /\ s.loan # NoLoan
             /\ s.accrued \in Nat /\ s.closed \in Nat /\ s.interest \in Nat
             /\ s.before.rate \in Int /\ s.before.rate_time \in Int
             /\ s.before.remainder \in Int
             /\ s.after.rate \in Int /\ s.after.rate_time \in Int
             /\ s.after.remainder \in Int
<1> DEFINE s == Settlement(loan, max_amount)
<1>1. s.loan \in LoanType /\ s.loan # NoLoan
  BY SettlementFacts, RewardFloatAssumption
<1>2. s.before = AccrualTerms(loan) /\ s.after = AccrualTerms(s.loan)
  BY DEF Settlement
<1>3. s.accrued \in Nat /\ s.closed \in Nat /\ s.interest \in Nat
  BY SettlementEntries
<1> HIDE DEF s
<1>4. /\ s.before.rate \in Nat /\ s.before.rate_time \in Nat /\ s.before.remainder \in Nat
      /\ s.after.rate \in Nat /\ s.after.rate_time \in Nat /\ s.after.remainder \in Nat
  BY <1>1, <1>2, TermsType
<1>5. QED
  BY <1>1, <1>3, <1>4 DEF s

\* A repayment.
LEMMA RepayPrice ==
  ASSUME BooksInv, NEW o \in Operators, NEW n \in Nonces, NEW amount \in Repayments,
         Repay(o, n, amount)
  PROVE  PriceHolds
<1> DEFINE loan == loans[o][n]
           s == Settlement(loan, amount)
<1>1. BooksInv'
  BY RepayBooks
<1>2. /\ n \in OpenLoans(o) /\ Fits(TotalOwed(Accrue(loan, now)))
      /\ pool' = PoolSettled(pool, s)
      /\ operators' = [operators EXCEPT ![o] = AccountSettled(operators[o], s)]
      /\ loans' = [loans EXCEPT ![o][n] = s.loan]
      /\ now' = now
  BY DEF Repay
<1>3. /\ loan \in LoanType /\ IsOpen(loan) /\ Sound(loan) /\ now \in Nat
      /\ loan.last_accrual_at <= now /\ amount \in Nat
  BY <1>2, OpenLoanType, OpenLoansAre, AllSound, RewardFloatAssumption,
     ArithmeticAssumption DEF BooksInv, Inv, TypeOK, NoneAhead, U64
<1>4. operators'[o].open_loans = operators[o].open_loans - s.closed
  BY <1>2 DEF BooksInv, Inv, TypeOK, AccountType, AccountSettled
<1>5. /\ \A k \in Nonces : loans'[o][k] = IF k = n THEN s.loan ELSE loans[o][k]
      /\ \A k \in OpenLoans(o) : k \in Nonces /\ loans[o][k] # NoLoan
  BY <1>2 DEF BooksInv, Inv, TypeOK, OpenLoans
<1> HIDE DEF loan, s
<1>6. /\ s.loan # NoLoan
      /\ s.accrued \in Nat /\ s.closed \in Nat /\ s.interest \in Int
      /\ s.before.rate \in Int /\ s.before.rate_time \in Int /\ s.before.remainder \in Int
      /\ s.after.rate \in Int /\ s.after.rate_time \in Int /\ s.after.remainder \in Int
      /\ TermsAhead(s.before, now)
           <= TermsAhead(s.after, now) + s.accrued * ACCRUAL_DENOMINATOR
                + s.closed * ACCRUAL_DENOMINATOR
  BY <1>2, <1>3, SettlementTypes, SettledTerms DEF s
<1>7. /\ \A k \in Nonces : k \notin OpenLoans(o) => loans'[o][k] = loans[o][k]
      /\ \A k \in OpenLoans(o) : loans'[o][k] # NoLoan
  BY <1>2, <1>5, <1>6
<1>8. QED
  BY <1>1, <1>2, <1>4, <1>6, <1>7, SettledPrice

\* A loan that a sweep pays.
LEMMA SweptTerms ==
  ASSUME BooksInv, NEW o \in Operators, NEW m \in RewardMints, NEW r,
         NEW n \in OpenLoansOn(o, m), Fits(Debt(o, n)),
         SweepPlan(o, m, r)[n] \in PartType
  PROVE  LET part == SweepPlan(o, m, r)[n]
             s    == Settlement(Cleared(Planned(loans[o][n], part, Shortfall(o, m)), part),
                                part.pays)
         IN  /\ s.accrued \in Nat /\ s.closed \in Nat /\ s.interest \in Nat
             /\ s.before.rate \in Int /\ s.before.rate_time \in Int
             /\ s.before.remainder \in Int
             /\ s.after.rate \in Int /\ s.after.rate_time \in Int
             /\ s.after.remainder \in Int
             /\ TermsAhead(s.before, now)
                  <= TermsAhead(s.after, now) + s.accrued * ACCRUAL_DENOMINATOR
                       + s.closed * ACCRUAL_DENOMINATOR
<1> DEFINE part    == SweepPlan(o, m, r)[n]
           planned == Planned(loans[o][n], part, Shortfall(o, m))
           cleared == Cleared(planned, part)
           loan    == loans[o][n]
<1>1. /\ n \in OpenLoans(o) /\ loan \in LoanType /\ IsOpen(loan) /\ now \in Nat
      /\ loan.last_accrual_at <= now
  BY OpenLoanType DEF OpenLoansOn, BooksInv, Inv, TypeOK, NoneAhead, Counts
<1>2. Sound(loan)
  BY <1>1, OpenLoanType, AllSound DEF BooksInv, Inv
<1>3. part \in PartType /\ part.pays \in Nat
  BY PlanFacts
<1> HIDE DEF part
<1>4. /\ planned \in LoanType /\ SameDebt(planned, loan)
      /\ IsOpen(planned) /\ Sound(planned)
  BY <1>1, <1>2, <1>3, PlannedFacts, ShortfallType
<1> HIDE DEF planned
<1>5. /\ cleared \in LoanType /\ SameDebt(cleared, planned)
      /\ IsOpen(cleared) /\ Sound(cleared)
  BY <1>4, ClearedFacts
<1>6. SameDebt(cleared, loan)
  BY <1>4, <1>5 DEF SameDebt
<1>7. Fits(TotalOwed(Accrue(cleared, now))) /\ cleared.last_accrual_at <= now
  BY <1>1, <1>5, <1>6, SameDebtOwes DEF Debt, SameDebt
<1> HIDE DEF cleared
<1>8. QED
  BY <1>1, <1>3, <1>5, <1>7, SettlementTypes, SettledTerms DEF cleared, planned, part
\* A sweep that converts.
LEMMA ConvertedPrice ==
  ASSUME BooksInv, NEW o \in Operators, NEW m \in RewardMints,
         NEW rate \in RateAttestations, Sweep(o, m, rate),
         SweepConverting(o, m, rate.stable_per_trillion_reward,
                         SweepPlan(o, m, rate.stable_per_trillion_reward))
  PROVE  PriceHolds
<1> DEFINE r    == rate.stable_per_trillion_reward
           plan == SweepPlan(o, m, r)
           settled == SweepSettlements(o, m, plan)
           s    == SumSettlements(settled)
           T    == PaidLoans(plan)
           spent == TotalWithheld(plan) = Allowance(o, m)
           planned(n) == Planned(loans[o][n], plan[n], Shortfall(o, m))
<1>1. BooksInv'
  BY ConvertedBooks
<1>2. /\ \A n \in OpenLoansOn(o, m) : Fits(Debt(o, n))
      /\ PlanFits(plan)
  BY DEF Sweep, SweepChecked
<1>3. /\ \A n \in OpenLoansOn(o, m) : plan[n] \in PartType
      /\ DOMAIN plan = OpenLoansOn(o, m)
  BY <1>2 DEF PlanFits, SweepPlan
<1>4. /\ now' = now
      /\ pool' = PoolSettled(pool, s)
      /\ operators' = [operators EXCEPT ![o] = AccountSettled(operators[o], s)]
      /\ loans' = [loans EXCEPT ![o] =
                     [n \in Nonces |->
                        IF n \in OpenLoansOn(o, m)
                          THEN Swept(planned(n), plan[n], spent)
                          ELSE loans[o][n]]]
  BY DEF SweepConverting, SweepWrites
<1>5. \A n \in Nonces :
        loans'[o][n] = IF n \in OpenLoansOn(o, m)
                         THEN Swept(planned(n), plan[n], spent)
                         ELSE loans[o][n]
  BY <1>4 DEF BooksInv, Inv, TypeOK
<1>6. /\ DOMAIN settled = T
      /\ \A n \in T : settled[n] = Settlement(Cleared(planned(n), plan[n]), plan[n].pays)
  BY DEF SweepSettlements
<1>7. T \in SUBSET OpenLoansOn(o, m) /\ IsFiniteSet(T)
      /\ OpenLoansOn(o, m) \in SUBSET OpenLoans(o)
  <2>1. T \in SUBSET OpenLoansOn(o, m) /\ OpenLoansOn(o, m) \in SUBSET OpenLoans(o)
    BY <1>3 DEF PaidLoans, OpenLoansOn
  <2>2. IsFiniteSet(OpenLoans(o)) /\ T \in SUBSET OpenLoans(o)
    BY <2>1, BooksThen DEF BookFacts
  <2> HIDE DEF T
  <2>3. QED
    BY <2>1, <2>2, FS_Subset
<1>8. /\ \A n \in Nonces : n \notin OpenLoans(o) => loans'[o][n] = loans[o][n]
      /\ \A n \in OpenLoans(o) : loans'[o][n] # NoLoan
  <2>1. \A n \in OpenLoansOn(o, m) : Swept(planned(n), plan[n], spent) # NoLoan
    BY <1>2, <1>3, HandledFacts, RewardFloatAssumption DEF BooksInv
  <2>2. \A n \in OpenLoans(o) : n \in Nonces /\ loans[o][n] # NoLoan
    BY DEF OpenLoans
  <2>3. QED
    BY <1>5, <1>7, <2>1, <2>2
<1>9. operators'[o].open_loans = operators[o].open_loans - s.closed
  BY <1>4 DEF BooksInv, Inv, TypeOK, AccountType, AccountSettled
<1> DEFINE interest == [n \in T |-> settled[n].interest]
           accrued == [n \in T |-> settled[n].accrued]
           closed == [n \in T |-> settled[n].closed]
           arate == [n \in T |-> settled[n].after.rate]
           brate == [n \in T |-> settled[n].before.rate]
           atime == [n \in T |-> settled[n].after.rate_time]
           btime == [n \in T |-> settled[n].before.rate_time]
           arest == [n \in T |-> settled[n].after.remainder]
           brest == [n \in T |-> settled[n].before.remainder]
<1>10. ASSUME NEW n \in T
       PROVE  /\ settled[n].accrued \in Nat /\ settled[n].closed \in Nat
              /\ settled[n].interest \in Nat
              /\ settled[n].before.rate \in Int /\ settled[n].before.rate_time \in Int
              /\ settled[n].before.remainder \in Int
              /\ settled[n].after.rate \in Int /\ settled[n].after.rate_time \in Int
              /\ settled[n].after.remainder \in Int
              /\ TermsAhead(settled[n].before, now)
                   <= TermsAhead(settled[n].after, now)
                        + settled[n].accrued * ACCRUAL_DENOMINATOR
                        + settled[n].closed * ACCRUAL_DENOMINATOR
  <2>1. n \in OpenLoansOn(o, m) /\ Fits(Debt(o, n)) /\ plan[n] \in PartType
    BY <1>2, <1>3, <1>7, <1>10
  <2>2. settled[n] = Settlement(Cleared(planned(n), plan[n]), plan[n].pays)
    BY <1>6
  <2> HIDE DEF settled, T
  <2>3. QED
    BY <2>1, <2>2, SweptTerms
<1> HIDE DEF T, settled, plan, r, spent
<1>11. /\ s.interest = SumFunctionOnSet(interest, T)
       /\ s.accrued = SumFunctionOnSet(accrued, T)
       /\ s.closed = SumFunctionOnSet(closed, T)
       /\ s.before.rate = SumFunctionOnSet(brate, T)
       /\ s.before.rate_time = SumFunctionOnSet(btime, T)
       /\ s.before.remainder = SumFunctionOnSet(brest, T)
       /\ s.after.rate = SumFunctionOnSet(arate, T)
       /\ s.after.rate_time = SumFunctionOnSet(atime, T)
       /\ s.after.remainder = SumFunctionOnSet(arest, T)
  BY <1>6, SettlementSums
<1>12. \A n \in T :
         /\ interest[n] = settled[n].interest
         /\ accrued[n] = settled[n].accrued /\ closed[n] = settled[n].closed
         /\ arate[n] = settled[n].after.rate /\ brate[n] = settled[n].before.rate
         /\ atime[n] = settled[n].after.rate_time /\ btime[n] = settled[n].before.rate_time
         /\ arest[n] = settled[n].after.remainder /\ brest[n] = settled[n].before.remainder
  OBVIOUS
<1> HIDE DEF s, interest, accrued, closed, arate, brate, atime, btime, arest, brest
<1>13. \A n \in T : /\ brate[n] \in Int /\ brest[n] \in Int /\ btime[n] \in Int
                    /\ arate[n] \in Int /\ arest[n] \in Int /\ atime[n] \in Int
                    /\ accrued[n] \in Int /\ closed[n] \in Int
                    /\ brate[n] * now + brest[n] - btime[n]
                         <= arate[n] * now + arest[n] - atime[n]
                              + accrued[n] * ACCRUAL_DENOMINATOR
                              + closed[n] * ACCRUAL_DENOMINATOR
  BY <1>10, <1>12 DEF TermsAhead
<1>14. now \in Nat
  BY DEF BooksInv, Inv, TypeOK
<1>15. /\ s.before.rate \in Int /\ s.before.rate_time \in Int /\ s.before.remainder \in Int
       /\ s.after.rate \in Int /\ s.after.rate_time \in Int /\ s.after.remainder \in Int
       /\ s.before.rate * now + s.before.remainder - s.before.rate_time
            <= s.after.rate * now + s.after.remainder - s.after.rate_time
                 + s.accrued * ACCRUAL_DENOMINATOR + s.closed * ACCRUAL_DENOMINATOR
  <2> DEFINE Sum(f) == SumFunctionOnSet(f, T)
  <2>1. /\ Sum(brate) \in Int /\ Sum(brest) \in Int /\ Sum(btime) \in Int
        /\ Sum(arate) \in Int /\ Sum(arest) \in Int /\ Sum(atime) \in Int
    BY <1>7, <1>13, SumType
  <2>2. IsFiniteSet(T)
    BY <1>7
  <2>3. Sum(brate) * now + Sum(brest) - Sum(btime)
             <= Sum(arate) * now + Sum(arest) - Sum(atime)
                  + Sum(accrued) * ACCRUAL_DENOMINATOR + Sum(closed) * ACCRUAL_DENOMINATOR
    BY <1>13, <1>14, <2>2, TermsAdd
  <2>4. /\ s.accrued = Sum(accrued) /\ s.closed = Sum(closed)
        /\ s.before.rate = Sum(brate) /\ s.before.rate_time = Sum(btime)
        /\ s.before.remainder = Sum(brest)
        /\ s.after.rate = Sum(arate) /\ s.after.rate_time = Sum(atime)
        /\ s.after.remainder = Sum(arest)
    BY <1>11
  <2> HIDE DEF Sum
  <2>5. QED
    BY <2>1, <2>3, <2>4
<1>16. s.accrued \in Nat /\ s.closed \in Nat /\ s.interest \in Nat
  <2>1. \A n \in T : accrued[n] \in Nat /\ closed[n] \in Nat /\ interest[n] \in Nat
    BY <1>10, <1>12
  <2>2. QED
    BY <1>7, <1>11, <2>1, SumOfNaturals
<1>17. QED
  <2>1. TermsAhead(s.before, now)
          <= TermsAhead(s.after, now) + s.accrued * ACCRUAL_DENOMINATOR
               + s.closed * ACCRUAL_DENOMINATOR
    BY <1>15 DEF TermsAhead
  <2>2. s.interest \in Int
    BY <1>16
  <2>3. QED
    BY <1>1, <1>4, <1>8, <1>9, <1>15, <1>16, <2>1, <2>2, SettledPrice

\* A loan that goes out.
LEMMA BorrowPrice ==
  ASSUME BooksInv, NEW o \in Operators, NEW m \in RewardMints, NEW amount \in Loans,
         NEW term \in 1..MAX_TERM_PERIODS, NEW share \in SweepShares,
         NEW apr \in MaxAprs, NEW limit \in LimitAttestations,
         NEW rate \in RateAttestations,
         Borrow(o, m, amount, term, share, apr, limit, rate)
  PROVE  Value(pool, now) <= Value(pool', now) /\ pool'.total_shares = pool.total_shares
<1> DEFINE loan == NewLoan(m, amount, term, share, QuoteAprBps(PoolAccrued(o), amount))
           T    == OpenLoans(o)
           new  == AccrualTerms(loan)
           b    == TermsBefore(o)
           a    == TermsAfter(o)
           booked == InterestBooked(o)
<1>1. BooksInv'
  BY BorrowBooks
<1>2. /\ loan \in LoanType /\ IsOpen(loan)
      /\ \A n \in T : AccruedLoans(o)[n] \in LoanType
      /\ pool'.total_shares = pool.total_shares
      /\ pool'.total_deposits = pool.total_deposits
      /\ pool'.accrued_interest = pool.accrued_interest + booked
      /\ pool'.accrual_rate = pool.accrual_rate - b.rate + a.rate + new.rate
      /\ pool'.accrual_rate_time
           = pool.accrual_rate_time - b.rate_time + a.rate_time + new.rate_time
      /\ pool'.accrual_remainders
           = pool.accrual_remainders - b.remainder + a.remainder + new.remainder
      /\ now' = now
  BY BorrowWrites
<1>3. /\ b.rate \in Int /\ b.rate_time \in Int /\ b.remainder \in Int
      /\ a.rate \in Int /\ a.rate_time \in Int /\ a.remainder \in Int
      /\ booked \in Nat
  BY <1>2, AccrualMoves
<1>4. /\ new.rate \in Nat /\ new.rate_time = new.rate * now /\ new.remainder = 0
  <2> DEFINE c == loan.outstanding * loan.apr_bps
  <2>1. c \in Nat
    BY <1>2, LoanFields
  <2>2. loan.last_accrual_at = now /\ loan.interest_remainder = 0
    BY DEF NewLoan
  <2>3. new.rate = c /\ new.rate_time = c * loan.last_accrual_at
        /\ new.remainder = loan.interest_remainder
    BY <1>2 DEF AccrualTerms
  <2> HIDE DEF c, new, loan
  <2>4. QED
    BY <2>1, <2>2, <2>3
<1>5. pool \in PoolType /\ pool' \in PoolType /\ now \in Nat
  BY <1>1 DEF BooksInv, Inv, TypeOK
<1>6. IsFiniteSet(T) /\ Ahead(pool, now) \in Nat
  BY BooksThen DEF BookFacts
<1>7. Ahead(pool', now) \in Nat
  BY <1>1, <1>2, BooksThenNext DEF BookFacts, Ahead
<1>8. ASSUME NEW n \in T
      PROVE  /\ loans[o][n] \in LoanType /\ IsOpen(loans[o][n])
             /\ loans[o][n].last_accrual_at <= now
             /\ AccruedLoans(o)[n] = Accrue(loans[o][n], now)
  BY <1>5, OpenLoanType, OpenLoansAre DEF BooksInv, Inv, NoneAhead, AccruedLoans
<1>9. TermsAhead(b, now) <= TermsAhead(a, now) + booked * ACCRUAL_DENOMINATOR
  <2> DEFINE arate == [n \in T |-> AccrualTerms(AccruedLoans(o)[n]).rate]
             brate == [n \in T |-> AccrualTerms(loans[o][n]).rate]
             atime == [n \in T |-> AccrualTerms(AccruedLoans(o)[n]).rate_time]
             btime == [n \in T |-> AccrualTerms(loans[o][n]).rate_time]
             arest == [n \in T |-> AccrualTerms(AccruedLoans(o)[n]).remainder]
             brest == [n \in T |-> AccrualTerms(loans[o][n]).remainder]
             accrued == [n \in T |-> InterestTo(loans[o][n], now)]
             none == [n \in T |-> 0]
  <2>1. /\ a.rate = SumFunctionOnSet(arate, T) /\ b.rate = SumFunctionOnSet(brate, T)
        /\ a.rate_time = SumFunctionOnSet(atime, T)
        /\ b.rate_time = SumFunctionOnSet(btime, T)
        /\ a.remainder = SumFunctionOnSet(arest, T)
        /\ b.remainder = SumFunctionOnSet(brest, T)
    BY DEF TermsAfter, TermsBefore, SumTerms, SumFunction
  <2>2. booked = SumFunctionOnSet(accrued, T)
    BY DEF InterestBooked, SumFunction
  <2>3. \A n \in T :
          /\ arate[n] = AccrualTerms(AccruedLoans(o)[n]).rate
          /\ brate[n] = AccrualTerms(loans[o][n]).rate
          /\ atime[n] = AccrualTerms(AccruedLoans(o)[n]).rate_time
          /\ btime[n] = AccrualTerms(loans[o][n]).rate_time
          /\ arest[n] = AccrualTerms(AccruedLoans(o)[n]).remainder
          /\ brest[n] = AccrualTerms(loans[o][n]).remainder
          /\ accrued[n] = InterestTo(loans[o][n], now) /\ none[n] = 0
    OBVIOUS
  <2> HIDE DEF T, a, b, booked, arate, brate, atime, btime, arest, brest, accrued, none
  <2>4. ASSUME NEW n \in T
        PROVE  /\ brate[n] \in Int /\ brest[n] \in Int /\ btime[n] \in Int
               /\ arate[n] \in Int /\ arest[n] \in Int /\ atime[n] \in Int
               /\ accrued[n] \in Int /\ none[n] \in Int
               /\ brate[n] * now + brest[n] - btime[n]
                    <= arate[n] * now + arest[n] - atime[n]
                         + accrued[n] * ACCRUAL_DENOMINATOR
                         + none[n] * ACCRUAL_DENOMINATOR
    <3> DEFINE x == Accrue(loans[o][n], now)
    <3>1. /\ TermsAhead(AccrualTerms(loans[o][n]), now)
               = TermsAhead(AccrualTerms(x), now)
                   + InterestTo(loans[o][n], now) * ACCRUAL_DENOMINATOR
          /\ InterestTo(loans[o][n], now) \in Nat
      BY <1>5, <1>8, <2>4, AccruedTerms
    <3>2. x \in LoanType /\ AccruedLoans(o)[n] = x
      BY <1>2, <1>8, <2>4
    <3> HIDE DEF x
    <3>3. /\ brate[n] \in Nat /\ btime[n] \in Nat /\ brest[n] \in Nat
          /\ arate[n] \in Nat /\ atime[n] \in Nat /\ arest[n] \in Nat
      BY <1>8, <2>3, <2>4, <3>2, TermsType
    <3>4. brate[n] * now + brest[n] - btime[n]
            = arate[n] * now + arest[n] - atime[n] + accrued[n] * ACCRUAL_DENOMINATOR
      BY <2>3, <2>4, <3>1, <3>2 DEF TermsAhead
    <3>5. none[n] * ACCRUAL_DENOMINATOR = 0 /\ none[n] \in Int /\ accrued[n] \in Int
      BY <2>3, <2>4, <3>1, LoanAssumption
    <3>6. brate[n] * now + brest[n] - btime[n] \in Int
      BY <1>5, <3>3
    <3>7. QED
      BY <3>3, <3>4, <3>5, <3>6
  <2>5. SumFunctionOnSet(none, T) = 0
    BY <1>6, <2>3, SumOfZeros
  <2>6. b.rate * now + b.remainder - b.rate_time
          <= a.rate * now + a.remainder - a.rate_time
               + booked * ACCRUAL_DENOMINATOR + 0 * ACCRUAL_DENOMINATOR
    BY <1>5, <1>6, <2>1, <2>2, <2>4, <2>5, TermsAdd
  <2>7. a.rate * now + a.remainder - a.rate_time \in Int
        /\ booked * ACCRUAL_DENOMINATOR \in Int /\ 0 * ACCRUAL_DENOMINATOR = 0
    BY <1>3, <1>5, LoanAssumption
  <2>8. QED
    BY <2>6, <2>7 DEF TermsAhead
<1> HIDE DEF T, a, b, booked, new, loan
<1>10. Ahead(pool', now) = Ahead(pool, now) - TermsAhead(b, now) + TermsAhead(a, now)
  <2> DEFINE R  == pool.accrual_rate * now
             bn == b.rate * now
             an == a.rate * now
             nn == new.rate * now
  <2>1. /\ pool.accrual_rate \in Int /\ pool.accrual_rate_time \in Int
        /\ pool.accrual_remainders \in Int
    BY <1>5, PoolFields
  <2>2. R \in Int /\ bn \in Int /\ an \in Int /\ nn \in Int
    BY <1>3, <1>4, <1>5, <2>1
  <2>3. pool'.accrual_rate * now = R - bn + an + nn
    <3> DEFINE p == pool.accrual_rate
               u == b.rate
               v == a.rate
               w == new.rate
    <3>1. p \in Int /\ u \in Int /\ v \in Int /\ w \in Int
      BY <1>3, <1>4, <2>1
    <3>2. R = p * now /\ bn = u * now /\ an = v * now /\ nn = w * now
      OBVIOUS
    <3> HIDE DEF R, bn, an, nn, p, u, v, w
    <3>3. (p - u + v + w) * now = p * now - u * now + v * now + w * now
      BY <1>5, <3>1
    <3>4. (pool.accrual_rate - b.rate + a.rate + new.rate) * now = R - bn + an + nn
      BY <3>2, <3>3 DEF p, u, v, w
    <3>5. QED
      BY <1>2, <3>4
  <2>4. /\ Ahead(pool', now) = (R - bn + an + nn) + pool'.accrual_remainders
                                 - pool'.accrual_rate_time
        /\ Ahead(pool, now) = R + pool.accrual_remainders - pool.accrual_rate_time
        /\ TermsAhead(b, now) = bn + b.remainder - b.rate_time
        /\ TermsAhead(a, now) = an + a.remainder - a.rate_time
    BY <2>3 DEF Ahead, TermsAhead
  <2>5. new.rate_time = nn /\ new.remainder = 0
    BY <1>4
  <2> HIDE DEF R, bn, an, nn
  <2>6. QED
    BY <1>2, <1>3, <2>1, <2>2, <2>4, <2>5
<1>11. pool'.total_deposits + pool'.accrued_interest
         = pool.total_deposits + pool.accrued_interest + booked
  BY <1>2, <1>3, <1>5, PoolFields
<1>12. Ahead(pool, now) <= Ahead(pool', now) + (booked + 0) * ACCRUAL_DENOMINATOR
  <2>1. TermsAhead(b, now) \in Int /\ TermsAhead(a, now) \in Int
    BY <1>3, <1>5 DEF TermsAhead
  <2>2. booked * ACCRUAL_DENOMINATOR \in Nat /\ booked + 0 = booked
    BY <1>3, LoanAssumption
  <2>3. QED
    BY <1>6, <1>7, <1>9, <1>10, <2>1, <2>2
<1>13. Value(pool, now) <= Value(pool', now) + 0
  <2>1. 0 \in Nat
    OBVIOUS
  <2>2. QED
    BY <1>3, <1>5, <1>6, <1>7, <1>11, <1>12, <2>1, ValueMoves
<1>14. Value(pool', now) \in Nat
  BY <1>5, ValueType
<1>15. QED
  BY <1>2, <1>13, <1>14
\* Deposits and withdrawals.
LEMMA LenderPrice ==
  ASSUME BooksInv, LenderStep, pool.total_shares > 0, LoansClosed \in Nat
  PROVE  PriceHolds
<1> DEFINE V == Value(pool, now)
           S == pool.total_shares
           W == Value(pool', now)
<1>1. /\ pool \in PoolType /\ now \in Nat /\ shares \in [Lenders -> U64]
      /\ V \in Nat /\ S \in Nat
  BY ValueType, PoolFields DEF BooksInv, Inv, TypeOK
<1>2. ASSUME pool' \in PoolType, W * S >= V * pool'.total_shares
      PROVE  PriceHolds
  <2> DEFINE c == LoansClosed
  <2>1. W \in Nat /\ c \in Nat /\ pool'.total_shares \in Nat
    BY <1>1, <1>2, ValueType, PoolFields
  <2>2. PriceHolds <=> (W + c) * S >= V * pool'.total_shares
    BY DEF PriceHolds
  <2> HIDE DEF V, S, W, c
  <2>3. W <= W + c /\ W + c \in Nat
    BY <2>1
  <2>4. W * S <= (W + c) * S
    BY <1>1, <2>1, <2>3, Multiply
  <2>5. /\ W * S \in Nat /\ (W + c) * S \in Nat /\ V * pool'.total_shares \in Nat
    BY <1>1, <2>1, <2>3
  <2>6. QED
    BY <1>2, <2>2, <2>4, <2>5
<1>3. pool' \in PoolType
  <2>1. BooksInv'
    BY LenderBooks
  <2>2. QED
    BY <2>1 DEF BooksInv, Inv, TypeOK
<1>4. ASSUME NEW d, pool'.total_deposits = pool.total_deposits + d,
             pool'.accrued_interest = pool.accrued_interest,
             pool'.accrual_rate = pool.accrual_rate,
             pool'.accrual_rate_time = pool.accrual_rate_time,
             pool'.accrual_remainders = pool.accrual_remainders, d \in Int
      PROVE  W = V + d
  <2>1. UnbookedInterest(pool', now) = UnbookedInterest(pool, now)
    BY <1>4 DEF UnbookedInterest
  <2>2. UnbookedInterest(pool, now) \in Nat /\ pool.total_deposits \in Nat
        /\ pool.accrued_interest \in Nat
    BY <1>1, ValueType, PoolFields
  <2>3. QED
    BY <1>4, <2>1, <2>2 DEF Value
<1>5. ASSUME NEW l \in Lenders, NEW amount \in Deposits, Deposit(l, amount)
      PROVE  PriceHolds
  <2> DEFINE minted == SharesForDeposit(pool, amount, now)
  <2>1. /\ minted \in Nat /\ amount \in Nat
        /\ minted * V <= amount * S
    BY <1>5, DepositFacts DEF BooksInv, Inv
  <2>2. pool' = [pool EXCEPT !.total_shares = S + minted,
                             !.total_deposits = pool.total_deposits + amount]
    BY <1>5 DEF Deposit
  <2>3. /\ pool'.total_deposits = pool.total_deposits + amount
        /\ pool'.accrued_interest = pool.accrued_interest
        /\ pool'.accrual_rate = pool.accrual_rate
        /\ pool'.accrual_rate_time = pool.accrual_rate_time
        /\ pool'.accrual_remainders = pool.accrual_remainders
        /\ pool'.total_shares = S + minted
    BY <1>1, <2>2 DEF PoolType
  <2>4. W = V + amount
    BY <1>4, <2>1, <2>3
  <2> HIDE DEF V, S, W, minted
  <2>5. /\ (V + amount) * S = V * S + amount * S
        /\ V * (S + minted) = V * S + minted * V
    <3>1. \A x, y, z \in Nat : (x + y) * z = x * z + y * z /\ x * (y + z) = x * y + z * x
      OBVIOUS
    <3>2. QED
      BY <1>1, <2>1, <3>1
  <2>6. /\ V * S \in Nat /\ amount * S \in Nat /\ minted * V \in Nat
    BY <1>1, <2>1
  <2>7. W * S >= V * pool'.total_shares
    BY <2>1, <2>3, <2>4, <2>5, <2>6
  <2>8. QED
    BY <1>2, <1>3, <2>7
<1>6. ASSUME NEW l \in Lenders, NEW max_amount \in Withdrawals, Withdraw(l, max_amount)
      PROVE  PriceHolds
  <2> DEFINE worth  == ValueOfShares(pool, shares[l], now)
             paid   == WithdrawalPaid(pool, shares[l], max_amount, now)
             burned == WithdrawalShares(pool, shares[l], max_amount, now)
  <2>1. /\ V \in Nat \ {0} /\ S \in Nat \ {0} /\ shares[l] \in Nat
        /\ worth \in Nat /\ paid \in Nat /\ burned \in Nat
        /\ paid = worth => burned = shares[l]
        /\ paid # worth => paid * S <= burned * V
    BY <1>6, WithdrawFacts DEF BooksInv, Inv
  <2>2. worth * S <= shares[l] * V
    BY <1>1, <2>1, ValueOfSharesIsFloor
  <2>3. pool' = [pool EXCEPT !.total_shares = S - burned,
                             !.total_deposits = pool.total_deposits - paid]
        /\ Fits(S - burned)
    BY <1>6 DEF Withdraw
  <2>4. /\ pool'.total_deposits = pool.total_deposits - paid
        /\ pool'.accrued_interest = pool.accrued_interest
        /\ pool'.accrual_rate = pool.accrual_rate
        /\ pool'.accrual_rate_time = pool.accrual_rate_time
        /\ pool'.accrual_remainders = pool.accrual_remainders
        /\ pool'.total_shares = S - burned
    BY <1>1, <2>3 DEF PoolType
  <2>5. W = V - paid
    <3>1. pool'.total_deposits = pool.total_deposits + (0 - paid) /\ 0 - paid \in Int
      BY <1>1, <2>1, <2>4, PoolFields
    <3>2. W = V + (0 - paid)
      BY <1>4, <2>4, <3>1
    <3>3. QED
      BY <1>1, <2>1, <3>2
  <2> HIDE DEF V, S, W, worth, paid, burned
  <2>6. paid * S <= burned * V
    BY <2>1, <2>2
  <2>7. /\ (V - paid) * S = V * S - paid * S
        /\ V * (S - burned) = V * S - burned * V
    <3>1. \A x, y, z \in Nat : (x - y) * z = x * z - y * z /\ x * (y - z) = x * y - z * x
      OBVIOUS
    <3>2. QED
      BY <1>1, <2>1, <3>1
  <2>8. /\ V * S \in Nat /\ paid * S \in Nat /\ burned * V \in Nat
    BY <1>1, <2>1
  <2>9. W * S >= V * pool'.total_shares
    BY <2>4, <2>5, <2>6, <2>7, <2>8
  <2>10. QED
    BY <1>2, <1>3, <2>9
<1>7. QED
  BY <1>5, <1>6 DEF LenderStep

\* However many loans a step closes, it is a number.
LEMMA ClosedType == BooksInv => LoansClosed \in Nat
<1> SUFFICES ASSUME BooksInv PROVE LoansClosed \in Nat
  OBVIOUS
<1> DEFINE closed == {on \in AllOpen : ~IsOpen(loans'[on[1]][on[2]])}
<1>1. closed \in SUBSET AllOpen /\ IsFiniteSet(AllOpen)
  BY BooksThen DEF BookFacts
<1>2. LoansClosed = Cardinality(closed)
  BY DEF LoansClosed
<1> HIDE DEF closed
<1>3. QED
  BY <1>1, <1>2, FS_Subset, FS_CardinalityType

\* FR-018 and FR-018a for any number of lenders and loans: no transaction makes a
\* share worth less at the second it runs, but for the fraction of a unit that
\* each loan it closes had not booked.
THEOREM PriceNeverFalls == Spec => SharePriceHolds
<1>1. ASSUME BooksInv, [Next]_vars, now' = now, pool.total_shares > 0
      PROVE  PriceHolds
  <2>1. LoansClosed \in Nat /\ pool \in PoolType /\ now \in Nat
    BY <1>1, ClosedType DEF BooksInv, Inv, TypeOK
  <2>2. pool' \in PoolType
    <3>1. BooksInv'
      BY <1>1, NextBooks
    <3>2. QED
      BY <3>1 DEF BooksInv, Inv, TypeOK
  <2>3. ASSUME Value(pool, now) <= Value(pool', now),
               pool'.total_shares = pool.total_shares
        PROVE  PriceHolds
    <3>1. 0 \in Nat /\ 0 <= LoansClosed /\ Value(pool, now) <= Value(pool', now) + 0
      BY <2>1, <2>2, <2>3, ValueType
    <3>2. QED
      BY <2>1, <2>2, <2>3, <3>1, ValueKept
  <2>4. ASSUME \/ pool' = pool
               \/ \E attestor \in Keys : pool' = [pool EXCEPT !.attestor = attestor]
        PROVE  PriceHolds
    <3>1. /\ pool'.total_shares = pool.total_shares
          /\ pool'.total_deposits = pool.total_deposits
          /\ pool'.accrued_interest = pool.accrued_interest
          /\ pool'.accrual_rate = pool.accrual_rate
          /\ pool'.accrual_rate_time = pool.accrual_rate_time
          /\ pool'.accrual_remainders = pool.accrual_remainders
      BY <2>1, <2>4 DEF PoolType
    <3>2. Value(pool', now) = Value(pool, now)
      BY <3>1 DEF Value, UnbookedInterest
    <3>3. Value(pool, now) \in Nat
      BY <2>1, ValueType
    <3>4. QED
      BY <2>3, <3>1, <3>2, <3>3
  <2>5. CASE LenderStep
    BY <1>1, <2>1, <2>5, LenderPrice
  <2>6. CASE BorrowStep
    BY <1>1, <2>3, <2>6, BorrowPrice DEF BorrowStep
  <2>7. CASE RepayStep
    BY <1>1, <2>7, RepayPrice DEF RepayStep
  <2>8. CASE SweepStep
    <3>1. PICK o \in Operators, m \in RewardMints, rate \in RateAttestations :
            Sweep(o, m, rate)
      BY <2>8 DEF SweepStep
    <3> DEFINE r    == rate.stable_per_trillion_reward
               plan == SweepPlan(o, m, r)
    <3>2. SweepWithoutConverting(o, m, r, plan) \/ SweepConverting(o, m, r, plan)
      BY <3>1 DEF Sweep
    <3>3. CASE SweepWithoutConverting(o, m, r, plan)
      BY <2>4, <3>3 DEF SweepWithoutConverting
    <3>4. CASE SweepConverting(o, m, r, plan)
      BY <1>1, <3>1, <3>4, ConvertedPrice
    <3>5. QED
      BY <3>2, <3>3, <3>4
  <2>9. CASE RewardStep \/ \E m \in RewardMints, amount \in Fundings : FundConversion(m, amount)
    BY <2>4, <2>9 DEF RewardStep, ReceivePayout, MoveOut, Approve, Revoke, FundConversion
  <2>10. CASE \E attestor \in Keys : SetAttestor(attestor)
    BY <2>4, <2>10 DEF SetAttestor
  <2>11. CASE Tick
    BY <2>4, <2>11 DEF Tick
  <2>12. CASE UNCHANGED vars
    BY <2>4, <2>12 DEF vars
  <2>13. QED
    BY <1>1, <2>5, <2>6, <2>7, <2>8, <2>9, <2>10, <2>11, <2>12 DEF Next
<1>2. BooksInv /\ [Next]_vars => [
        (now' = now /\ pool.total_shares > 0 /\ pool'.total_shares > 0)
          => (Value(pool', now) + LoansClosed) * pool.total_shares
               >= Value(pool, now) * pool'.total_shares]_vars
  BY <1>1 DEF PriceHolds
<1>3. QED
  BY <1>2, BooksInvariance, PTL DEF Spec, SharePriceHolds
-----------------------------------------------------------------------------
(***************************************************************************)
(* What a lender who withdraws gets.                                       *)
(***************************************************************************)
\* The withdrawal of one lender.
LEMMA FairWithdrawal ==
  ASSUME BooksInv, NEW l \in Lenders, NEW max_amount \in Withdrawals,
         Withdraw(l, max_amount)
  PROVE  (vault - vault') + ValueOfShares(pool', shares'[l], now)
           + DivCeil(Value(pool, now), pool.total_shares)
         >= ValueOfShares(pool, shares[l], now)
<1> DEFINE V == Value(pool, now)
           S == pool.total_shares
           W == Value(pool', now)
           T == pool'.total_shares
           h == shares[l]
           w == ValueOfShares(pool, h, now)
           p == WithdrawalPaid(pool, h, max_amount, now)
           b == WithdrawalShares(pool, h, max_amount, now)
           y == ValueOfShares(pool', shares'[l], now)
           c == DivCeil(V, S)
<1>1. /\ pool \in PoolType /\ now \in Nat /\ vault \in Int /\ W \in Int
      /\ pool' \in PoolType /\ shares \in [Lenders -> U64]
  <2>1. BooksInv'
    BY LenderBooks DEF LenderStep
  <2>2. /\ pool \in PoolType /\ now \in Nat /\ vault \in Int
        /\ pool' \in PoolType /\ shares \in [Lenders -> U64]
    BY <2>1, ArithmeticAssumption DEF BooksInv, Inv, TypeOK, U64
  <2>3. QED
    BY <2>2, ValueType
<1>2. /\ V \in Nat \ {0} /\ S \in Nat \ {0} /\ h \in Nat
      /\ w \in Nat /\ p \in Nat /\ b \in Nat
      /\ p = w => b = h
      /\ p # w => b * V < p * S + V
  BY WithdrawFacts DEF BooksInv, Inv
<1>3. /\ vault' = vault - p /\ shares'[l] = h - b
      /\ pool' = [pool EXCEPT !.total_shares = S - b,
                              !.total_deposits = pool.total_deposits - p]
      /\ Fits(h - b)
      /\ h <= S
  BY <1>1 DEF Withdraw
<1>4. T = S - b /\ h - b \in Nat /\ b <= h
  BY <1>1, <1>2, <1>3, ArithmeticAssumption DEF PoolType, Fits, U64
<1>5. w * S <= h * V
  BY <1>1, <1>2, ValueOfSharesIsFloor
<1>6. c \in Nat /\ V <= c * S
  <2> HIDE DEF V, S
  <2>1. QED
    BY <1>2, RoundedUp
<1>7. CASE p = w
  <2>1. y = 0
    BY <1>2, <1>3, <1>7 DEF ValueOfShares
  <2> HIDE DEF V, S, h, w, p, b, y, c
  <2>2. vault - vault' = w
    BY <1>1, <1>2, <1>3, <1>7
  <2>3. (vault - vault') + y + c >= w
    BY <1>2, <1>6, <2>1, <2>2
  <2>4. QED
    BY <2>3 DEF V, S, h, w, y, c
<1>8. CASE p # w /\ T > 0
  <2>1. W \in Nat /\ T \in Nat \ {0}
    BY <1>1, <1>8, ValueType, PoolFields
  <2>2. y \in Nat /\ (h - b) * W < y * T + T
    BY <1>1, <1>3, <1>4, <1>8, ValueOfSharesIsFloor
  <2>3. V * T <= W * S
    <3>1. LoansClosed = 0
      <4>1. \A on \in AllOpen : IsOpen(loans[on[1]][on[2]])
        BY DEF AllOpen, OpenLoans
      <4>2. loans' = loans
        BY DEF Withdraw
      <4>3. {on \in AllOpen : ~IsOpen(loans'[on[1]][on[2]])} = {}
        BY <4>1, <4>2
      <4>4. QED
        BY <4>3, FS_EmptySet DEF LoansClosed
    <3>2. PriceHolds
      BY <1>2, <3>1, LenderPrice DEF LenderStep
    <3>3. W + LoansClosed = W
      BY <2>1, <3>1
    <3>4. (W + LoansClosed) * S >= V * T
      BY <3>2 DEF PriceHolds
    <3> HIDE DEF V, S, W, T
    <3>5. W * S >= V * T
      BY <3>3, <3>4
    <3>6. W * S \in Int /\ V * T \in Int
      BY <1>2, <2>1
    <3>7. QED
      BY <3>5, <3>6
  <2>4. b * V < p * S + V
    BY <1>2, <1>8
  <2> HIDE DEF V, S, W, T, h, w, p, b, y, c
  <2>5. V \in Nat
    BY <1>2
  <2>6. w <= p + y + c
    BY <1>2, <1>4, <1>5, <1>6, <2>1, <2>2, <2>3, <2>4, <2>5, FairRounding
  <2>7. vault - vault' = p
    BY <1>1, <1>2, <1>3
  <2>8. (vault - vault') + y + c >= w
    BY <1>2, <1>6, <2>2, <2>6, <2>7
  <2>9. QED
    BY <2>8 DEF V, S, h, w, y, c
<1>9. CASE p # w /\ ~(T > 0)
  <2>1. T = 0 /\ b = S /\ h = S
    <3>1. T \in Nat
      BY <1>1, PoolFields
    <3> HIDE DEF S, T, h, b
    <3>2. QED
      BY <1>2, <1>3, <1>4, <1>9, <3>1
  <2>2. y = 0
    BY <1>2, <1>3, <2>1 DEF ValueOfShares
  <2>3. b * V < p * S + V
    BY <1>2, <1>9
  <2> HIDE DEF V, S, T, h, w, p, b, y, c
  <2>4. w * S <= S * V /\ S * V < p * S + V /\ V \in Nat
    BY <1>2, <1>5, <2>1, <2>3
  <2>5. w <= p + c
    BY <1>2, <1>6, <2>4, FairRoundingOut
  <2>6. vault - vault' = p
    BY <1>1, <1>2, <1>3
  <2>7. (vault - vault') + y + c >= w
    BY <1>2, <1>6, <2>2, <2>5, <2>6
  <2>8. QED
    BY <2>7 DEF V, S, h, w, y, c
<1>10. QED
  BY <1>7, <1>8, <1>9

\* FR-020 for any number of lenders: a lender who withdraws is paid what the shares
\* are worth, now or later, but for the price of one share at most.
THEOREM WithdrawalsAreFair == Spec => WithdrawalIsFair
<1>1. ASSUME BooksInv, [Next]_vars, NEW l \in Lenders, shares'[l] < shares[l]
      PROVE  (vault - vault') + ValueOfShares(pool', shares'[l], now)
               + DivCeil(Value(pool, now), pool.total_shares)
             >= ValueOfShares(pool, shares[l], now)
  <2>1. shares \in [Lenders -> U64] /\ shares[l] \in Nat /\ shares[l] \in Int
    BY <1>1, ArithmeticAssumption DEF BooksInv, Inv, TypeOK, U64
  <2>2. shares' # shares
    BY <1>1, <2>1
  <2>3. CASE LenderStep
    <3>1. ASSUME NEW k \in Lenders, NEW amount \in Deposits, Deposit(k, amount)
          PROVE  FALSE
      <4> DEFINE minted == SharesForDeposit(pool, amount, now)
      <4>1. minted \in Nat
        BY <1>1, <3>1, DepositFacts DEF BooksInv, Inv
      <4>2. shares' = [shares EXCEPT ![k] = shares[k] + minted]
        BY <3>1 DEF Deposit
      <4> HIDE DEF minted
      <4>3. QED
        BY <1>1, <2>1, <4>1, <4>2
    <3>2. ASSUME NEW k \in Lenders, NEW max_amount \in Withdrawals,
                 Withdraw(k, max_amount)
          PROVE  k = l
      <4>1. shares' = [shares EXCEPT ![k] = shares[k]
                         - WithdrawalShares(pool, shares[k], max_amount, now)]
        BY <3>2 DEF Withdraw
      <4>2. QED
        BY <1>1, <2>1, <4>1
    <3>3. QED
      BY <1>1, <2>3, <3>1, <3>2, FairWithdrawal DEF LenderStep
  <2>4. CASE ~LenderStep
    <3>1. CASE BorrowStep
      BY <2>2, <3>1 DEF BorrowStep, Borrow
    <3>2. CASE RepayStep
      BY <2>2, <3>2 DEF RepayStep, Repay
    <3>3. CASE SweepStep
      BY <2>2, <3>3 DEF SweepStep, Sweep, SweepWithoutConverting, SweepConverting
    <3>4. CASE \/ RewardStep
               \/ \E m \in RewardMints, amount \in Fundings : FundConversion(m, amount)
               \/ \E attestor \in Keys : SetAttestor(attestor)
               \/ Tick
      BY <2>2, <3>4 DEF RewardStep, ReceivePayout, MoveOut, Approve, Revoke,
                        FundConversion, SetAttestor, Tick
    <3>5. CASE UNCHANGED vars
      BY <2>2, <3>5 DEF vars
    <3>6. QED
      BY <1>1, <2>4, <3>1, <3>2, <3>3, <3>4, <3>5 DEF Next
  <2>5. QED
    BY <2>3, <2>4
<1>2. BooksInv /\ [Next]_vars => [
        \A l \in Lenders :
          shares'[l] < shares[l] =>
            (vault - vault') + ValueOfShares(pool', shares'[l], now)
              + DivCeil(Value(pool, now), pool.total_shares)
            >= ValueOfShares(pool, shares[l], now)]_vars
  BY <1>1
<1>3. QED
  BY <1>2, BooksInvariance, PTL DEF Spec, WithdrawalIsFair
-----------------------------------------------------------------------------
(***************************************************************************)
(* The claims of a sweep.  The loans repaid from a token stand in one      *)
(* order, so every place has its loan and every loan its place, and what   *)
(* withholdings promises of the places holds of the loans.                 *)
(***************************************************************************)

\* There are finitely many of them, of the right type.
LEMMA RepaidFromToken ==
  ASSUME TypeOK, LoanBooks, NEW o \in Operators, NEW m
  PROVE  /\ IsFiniteSet(OpenLoansOn(o, m)) /\ Cardinality(OpenLoansOn(o, m)) \in Nat
         /\ \A n \in OpenLoansOn(o, m) :
              /\ n \in OpenLoans(o) /\ n \in Nonces /\ n \in Nat
              /\ loans[o][n] # NoLoan /\ IsOpen(loans[o][n])
              /\ loans[o][n] \in LoanType /\ loans[o][n].reward_mint = m
              /\ loans[o][n].opened_at \in Nat
<1>1. IsFiniteSet(OpenLoans(o))
  BY OpenLoansAre DEF LoanBooks, FiniteBooks
<1>2. OpenLoansOn(o, m) \in SUBSET OpenLoans(o)
  BY DEF OpenLoansOn
<1>3. IsFiniteSet(OpenLoansOn(o, m))
  BY <1>1, <1>2, FS_Subset
<1>4. Cardinality(OpenLoansOn(o, m)) \in Nat
  BY <1>3, FS_CardinalityType
<1>5. ASSUME NEW n \in OpenLoansOn(o, m)
      PROVE  /\ n \in OpenLoans(o) /\ n \in Nonces /\ n \in Nat
             /\ loans[o][n] # NoLoan /\ IsOpen(loans[o][n])
             /\ loans[o][n] \in LoanType /\ loans[o][n].reward_mint = m
             /\ loans[o][n].opened_at \in Nat
  <2>1. /\ n \in OpenLoans(o) /\ n \in Nonces /\ loans[o][n].reward_mint = m
        /\ loans[o][n] # NoLoan /\ IsOpen(loans[o][n])
    BY DEF OpenLoansOn, OpenLoans
  <2>2. loans[o][n] \in LoanType
    BY <2>1 DEF TypeOK
  <2>3. n \in Nat
    BY <2>1, RewardFloatAssumption
  <2>4. loans[o][n].opened_at \in Nat
    BY <2>2 DEF LoanType
  <2>5. QED
    BY <2>1, <2>2, <2>3, <2>4
<1>6. QED
  BY <1>3, <1>4, <1>5

\* Places number the loans repaid from a token, from 1.
LEMMA PlacesNumberLoans ==
  ASSUME TypeOK, LoanBooks, NEW o \in Operators, NEW m
  PROVE  LET S == OpenLoansOn(o, m)
         IN  /\ \A n \in S : /\ Place(o, m, n) \in 1..Cardinality(S)
                             /\ LoanInPlace(o, m, Place(o, m, n)) = n
             /\ \A n, k \in S : Place(o, m, n) = Place(o, m, k) => n = k
             /\ \A i \in 1..Cardinality(S) : /\ LoanInPlace(o, m, i) \in S
                                             /\ Place(o, m, LoanInPlace(o, m, i)) = i
<1> DEFINE S == OpenLoansOn(o, m)
           c == Cardinality(S)
           Before(n) == {k \in S : Older(o, k, n)}
           P(n) == Place(o, m, n)
<1>1. IsFiniteSet(S) /\ c \in Nat
  BY RepaidFromToken
<1>2. \A n \in S : n \in Nat /\ loans[o][n].opened_at \in Nat
  BY RepaidFromToken
<1>3. /\ \A n \in S : ~Older(o, n, n)
      /\ \A n, k \in S : n # k => Older(o, n, k) \/ Older(o, k, n)
      /\ \A n, k, j \in S : Older(o, n, k) /\ Older(o, k, j) => Older(o, n, j)
  BY <1>2 DEF Older
<1>4. \A n \in S : P(n) = 1 + Cardinality(Before(n))
  BY DEF Place
<1> HIDE DEF S, c, P
<1>5. \A n \in S : Before(n) \in SUBSET S /\ Before(n) # S
  BY <1>3
<1>6. ASSUME NEW n \in S PROVE IsFiniteSet(Before(n)) /\ Cardinality(Before(n)) \in 0..(c - 1)
  <2> DEFINE B == Before(n)
  <2>1. B \in SUBSET S /\ B # S
    BY <1>5
  <2> HIDE DEF B
  <2>2. IsFiniteSet(B) /\ Cardinality(B) <= Cardinality(S)
        /\ (Cardinality(S) = Cardinality(B) => S = B)
    BY <1>1, <2>1, FS_Subset
  <2>3. Cardinality(B) \in Nat
    BY <2>2, FS_CardinalityType
  <2>4. Cardinality(B) \in 0..(c - 1)
    BY <1>1, <2>1, <2>2, <2>3 DEF c
  <2>5. QED
    BY <2>2, <2>4 DEF B
<1>7. ASSUME NEW n \in S PROVE P(n) \in 1..c
  <2>1. P(n) = 1 + Cardinality(Before(n)) /\ Cardinality(Before(n)) \in 0..(c - 1)
    BY <1>4, <1>6
  <2> HIDE DEF Before
  <2>2. QED
    BY <1>1, <2>1
<1>8. ASSUME NEW n \in S, NEW k \in S, Older(o, n, k) PROVE P(n) < P(k)
  <2> DEFINE B == Before(n)
             C == Before(k)
  <2>1. B \in SUBSET C /\ B # C
    BY <1>3, <1>8
  <2>2. /\ IsFiniteSet(C) /\ Cardinality(B) \in Nat /\ Cardinality(C) \in Nat
    BY <1>6
  <2>3. P(n) = 1 + Cardinality(B) /\ P(k) = 1 + Cardinality(C)
    BY <1>4
  <2> HIDE DEF B, C
  <2>4. Cardinality(B) <= Cardinality(C) /\ (Cardinality(C) = Cardinality(B) => C = B)
    BY <2>1, <2>2, FS_Subset
  <2>5. QED
    BY <2>1, <2>2, <2>3, <2>4
<1>9. \A n, k \in S : P(n) = P(k) => n = k
  BY <1>3, <1>7, <1>8
<1>10. ASSUME NEW i \in 1..c PROVE \E n \in S : P(n) = i
  <2> DEFINE f == [n \in S |-> P(n)]
             T == 1..c
  <2>1. IsFiniteSet(T) /\ Cardinality(T) = c
    <3>1. 1 \in Int /\ c \in Int
      BY <1>1
    <3>2. QED
      BY <1>1, <3>1, FS_Interval
  <2>2. f \in Injection(S, T)
    BY <1>7, <1>9 DEF Injection, IsInjective
  <2> HIDE DEF f, T
  <2>3. f \in Surjection(S, T)
    BY <2>1, <2>2, FS_Injection DEF c
  <2>4. QED
    BY <2>3 DEF Surjection, f, T
<1>11. \A n \in S : LoanInPlace(o, m, P(n)) = n
  BY <1>9 DEF LoanInPlace, S, P
<1>12. ASSUME NEW i \in 1..c
       PROVE  LoanInPlace(o, m, i) \in S /\ P(LoanInPlace(o, m, i)) = i
  BY <1>10, <1>12 DEF LoanInPlace, S, P
<1>13. QED
  BY <1>7, <1>9, <1>11, <1>12 DEF S, c, P
\* What a loan needs to be paid off is a number of tokens.
LEMMA TokensType ==
  ASSUME NEW stable \in Nat, NEW r \in Nat, r > 0
  PROVE  TokensFor(stable, r) \in Nat
<1> DEFINE a == stable * RATE_UNIT * BPS
           d == BPS - SPREAD_BPS
           b == r * d
<1>1. a \in Nat
  <2>1. stable * RATE_UNIT \in Nat /\ BPS \in Nat
    BY ConversionAssumption, ArithmeticAssumption, Multiply
  <2>2. QED
    BY <2>1, Multiply
<1>2. d \in Nat \ {0}
  BY ConversionAssumption, ArithmeticAssumption
<1> HIDE DEF d
<1>3. b \in Nat \ {0}
  <2>1. 1 \in Nat /\ 1 <= r /\ 1 * d = d
    BY <1>2
  <2>2. 1 * d <= r * d /\ r * d \in Nat
    BY <1>2, <2>1, Multiply
  <2>3. QED
    BY <1>2, <2>1, <2>2
<1> HIDE DEF a, b
<1>4. DivCeil(a, b) \in Nat
  BY <1>1, <1>3, RoundedUp
<1>5. TokensFor(stable, r) = Least(DivCeil(a, b), U64_MAX)
  BY DEF TokensFor, a, b, d
<1>6. QED
  BY <1>4, <1>5, ArithmeticAssumption DEF Least

\* What withholdings is told of one loan.
ClaimOf(o, n, r) ==
  [ sweep_bps |-> loans[o][n].sweep_bps,
    need      |-> TokensFor(Debt(o, n), r),
    due       |-> loans[o][n].reward_due ]

\* What a sweep asks withholdings.
LEMMA ClaimsOfLoans ==
  ASSUME TypeOK, LoanBooks, NEW o \in Operators, NEW m, NEW r \in Nat, r > 0,
         \A n \in OpenLoansOn(o, m) : Fits(Debt(o, n))
  PROVE  LET S == OpenLoansOn(o, m)
         IN  /\ Len(Claims(o, m, r)) = Cardinality(S)
             /\ DOMAIN Claims(o, m, r) = 1..Cardinality(S)
             /\ \A n \in S : /\ ClaimOf(o, n, r) \in ClaimType
                             /\ Claims(o, m, r)[Place(o, m, n)] = ClaimOf(o, n, r)
             /\ \A i \in 1..Cardinality(S) : Claims(o, m, r)[i] \in ClaimType
<1> DEFINE S == OpenLoansOn(o, m)
           c == Cardinality(S)
           claims == Claims(o, m, r)
<1>1. c \in Nat
  BY RepaidFromToken
<1>2. ASSUME NEW n \in S PROVE ClaimOf(o, n, r) \in ClaimType
  <2>1. loans[o][n] \in LoanType
    BY RepaidFromToken
  <2>2. loans[o][n].sweep_bps \in 1..BPS /\ loans[o][n].reward_due \in Nat
    BY <2>1, ArithmeticAssumption DEF LoanType, U64
  <2>3. TokensFor(Debt(o, n), r) \in Nat
    <3>1. Debt(o, n) \in Nat
      BY ArithmeticAssumption DEF Fits, U64
    <3>2. QED
      BY <3>1, TokensType
  <2>4. QED
    BY <2>2, <2>3 DEF ClaimOf, ClaimType
<1>3. claims = [i \in 1..c |-> ClaimOf(o, LoanInPlace(o, m, i), r)]
  BY DEF Claims, ClaimOf
<1>4. /\ \A n \in S : /\ Place(o, m, n) \in 1..c
                      /\ LoanInPlace(o, m, Place(o, m, n)) = n
      /\ \A i \in 1..c : LoanInPlace(o, m, i) \in S
  BY PlacesNumberLoans
<1> HIDE DEF c, S, claims
<1>5. \A n \in S : claims[Place(o, m, n)] = ClaimOf(o, n, r)
  BY <1>3, <1>4
<1>6. \A i \in 1..c : claims[i] \in ClaimType
  BY <1>2, <1>3, <1>4
<1>7. DOMAIN claims = 1..c /\ Len(claims) = c
  <2>1. claims \in [1..c -> ClaimType]
    BY <1>3, <1>6
  <2>2. QED
    BY <1>1, <2>1
<1>8. QED
  BY <1>2, <1>5, <1>6, <1>7 DEF S, c, claims

\* The plan of a sweep, loan by loan and summed up: no loan is owed more than pays it
\* off or gets more than it is owed, together they take no more than the account and
\* the allowance give, are owed no more than was due and paid out, and none comes
\* short when there is enough for that.
LEMMA PlanIsCovered ==
  ASSUME TypeOK, LoanBooks, NEW o \in Operators, NEW m \in RewardMints,
         NEW r \in Nat, r > 0, \A n \in OpenLoansOn(o, m) : Fits(Debt(o, n))
  PROVE  LET S     == OpenLoansOn(o, m)
             plan  == SweepPlan(o, m, r)
             taken == SumFunctionOnSet([n \in S |-> plan[n].take], S)
             owed  == SumFunctionOnSet([n \in S |-> plan[n].owed], S)
             due   == SumFunctionOnSet([n \in S |-> loans[o][n].reward_due], S)
         IN  /\ \A n \in S :
                  /\ plan[n].owed \in Nat /\ plan[n].take \in Nat
                  /\ plan[n].take <= plan[n].owed
                  /\ plan[n].owed <= TokensFor(Debt(o, n), r)
             /\ taken <= Available(o, m)
             /\ owed <= Payout(o, m) + due
             /\ owed <= Available(o, m) => \A n \in S : plan[n].take = plan[n].owed
<1> DEFINE S == OpenLoansOn(o, m)
           c == Cardinality(S)
           payout == Payout(o, m)
           available == Available(o, m)
           claims == Claims(o, m, r)
           parts == Withholdings(payout, available, claims)
           plan == SweepPlan(o, m, r)
           P == [n \in S |-> Place(o, m, n)]
           pTake == [i \in 1..c |-> parts[i].take]
           pOwed == [i \in 1..c |-> parts[i].owed]
           pDue  == [i \in 1..c |-> claims[i].due]
           take == [n \in S |-> plan[n].take]
           owed == [n \in S |-> plan[n].owed]
           due  == [n \in S |-> loans[o][n].reward_due]
<1>1. IsFiniteSet(S) /\ c \in Nat
  BY RepaidFromToken
<1>2. /\ Len(claims) = c
      /\ \A n \in S : /\ ClaimOf(o, n, r) \in ClaimType
                      /\ claims[Place(o, m, n)] = ClaimOf(o, n, r)
      /\ \A i \in 1..c : claims[i] \in ClaimType
  BY ClaimsOfLoans
<1>3. payout \in Nat /\ available \in Nat
  <2>1. /\ rewards[o][m].balance \in Nat /\ rewards[o][m].allowance \in Nat
        /\ watches[o][m].balance \in Nat
    BY ArithmeticAssumption DEF TypeOK, RewardAccountType, WatchType, U64
  <2>2. QED
    BY <2>1 DEF Payout, Available, Allowance, SaturatingSub, Least
<1>4. /\ \A n \in S : /\ Place(o, m, n) \in 1..c
                      /\ LoanInPlace(o, m, Place(o, m, n)) = n
      /\ \A n, k \in S : Place(o, m, n) = Place(o, m, k) => n = k
      /\ \A i \in 1..c : LoanInPlace(o, m, i) \in S /\ Place(o, m, LoanInPlace(o, m, i)) = i
  BY PlacesNumberLoans
<1>5. \A n \in S : /\ plan[n].take = parts[Place(o, m, n)].take
                   /\ plan[n].owed = parts[Place(o, m, n)].owed
  BY DEF SweepPlan
<1> HIDE DEF S, c, payout, available, claims, plan
<1>6. /\ \A i \in 1..c : /\ pTake[i] = parts[i].take /\ pOwed[i] = parts[i].owed
                         /\ pDue[i] = claims[i].due
      /\ ClaimColumns(pOwed, pTake, pDue, parts, claims, c)
  BY DEF ClaimColumns
<1>7. /\ P \in [S -> 1..c] /\ \A n \in S : P[n] = Place(o, m, n)
      /\ \A i \in 1..c : \E n \in S : i = P[n]
      /\ \A n, k \in S : P[n] = P[k] => n = k
  BY <1>4
<1>8. /\ \A n \in S : take[n] = plan[n].take /\ owed[n] = plan[n].owed
      /\ \A n \in S : due[n] = loans[o][n].reward_due
  OBVIOUS
<1> HIDE DEF P, pTake, pOwed, pDue, take, owed, due
<1>9. /\ \A i \in 1..c : /\ pOwed[i] \in Nat /\ pTake[i] \in Nat
                         /\ pTake[i] <= pOwed[i] /\ pOwed[i] <= claims[i].need
      /\ SumFunctionOnSet(pTake, 1..c) <= available
      /\ SumFunctionOnSet(pOwed, 1..c) <= payout + SumFunctionOnSet(pDue, 1..c)
      /\ SumFunctionOnSet(pOwed, 1..c) <= available =>
           \A i \in 1..c : pTake[i] = pOwed[i]
  <2>1. Covered(pOwed, pTake, pDue, payout, available, claims, c)
    <3> HIDE DEF claims
    <3>1. QED
      BY <1>1, <1>2, <1>3, <1>6, WithholdingsFacts DEF parts
  <2>2. QED
    BY <2>1 DEF Covered
<1> HIDE DEF parts
<1>10. \A n \in S : /\ pTake[P[n]] \in Int /\ take[n] = pTake[P[n]]
                    /\ pOwed[P[n]] \in Int /\ owed[n] = pOwed[P[n]]
                    /\ pDue[P[n]] \in Int /\ due[n] = pDue[P[n]]
  <2>1. ASSUME NEW n \in S
        PROVE  /\ pTake[P[n]] \in Int /\ take[n] = pTake[P[n]]
               /\ pOwed[P[n]] \in Int /\ owed[n] = pOwed[P[n]]
    BY <1>4, <1>5, <1>6, <1>7, <1>8, <1>9
  <2>2. ASSUME NEW n \in S PROVE pDue[P[n]] \in Int /\ due[n] = pDue[P[n]]
    <3>1. pDue[P[n]] = ClaimOf(o, n, r).due /\ ClaimOf(o, n, r) \in ClaimType
      BY <1>2, <1>4, <1>6, <1>7
    <3>2. ClaimOf(o, n, r).due = loans[o][n].reward_due
      BY DEF ClaimOf
    <3>3. QED
      BY <1>8, <3>1, <3>2 DEF ClaimType
  <2>3. QED
    BY <2>1, <2>2
<1>11. SumFunctionOnSet(take, S) = SumFunctionOnSet(pTake, 1..c)
  <2>1. \A n \in S : pTake[P[n]] \in Int /\ take[n] = pTake[P[n]]
    BY <1>10
  <2>2. QED
    BY <1>1, <1>7, <2>1, SumImage
<1>12. SumFunctionOnSet(owed, S) = SumFunctionOnSet(pOwed, 1..c)
  <2>1. \A n \in S : pOwed[P[n]] \in Int /\ owed[n] = pOwed[P[n]]
    BY <1>10
  <2>2. QED
    BY <1>1, <1>7, <2>1, SumImage
<1>13. SumFunctionOnSet(due, S) = SumFunctionOnSet(pDue, 1..c)
  <2>1. \A n \in S : pDue[P[n]] \in Int /\ due[n] = pDue[P[n]]
    BY <1>10
  <2>2. QED
    BY <1>1, <1>7, <2>1, SumImage
<1>14. ASSUME NEW n \in S
       PROVE  /\ plan[n].owed \in Nat /\ plan[n].take \in Nat
              /\ plan[n].take <= plan[n].owed
              /\ plan[n].owed <= TokensFor(Debt(o, n), r)
              /\ SumFunctionOnSet(owed, S) <= available => plan[n].take = plan[n].owed
  <2>1. claims[Place(o, m, n)].need = TokensFor(Debt(o, n), r)
    <3>1. claims[Place(o, m, n)] = ClaimOf(o, n, r)
      BY <1>2
    <3> HIDE DEF claims
    <3>2. QED
      BY <3>1 DEF ClaimOf
  <2>2. /\ plan[n].take = pTake[P[n]] /\ plan[n].owed = pOwed[P[n]]
        /\ P[n] \in 1..c /\ P[n] = Place(o, m, n)
    BY <1>7, <1>8, <1>10
  <2>3. QED
    BY <1>9, <1>12, <2>1, <2>2
<1>15. SumFunctionOnSet(take, S) <= available
       /\ SumFunctionOnSet(owed, S) <= payout + SumFunctionOnSet(due, S)
  BY <1>9, <1>11, <1>12, <1>13
<1>16. QED
  BY <1>14, <1>15 DEF S, payout, available, plan, take, owed, due
-----------------------------------------------------------------------------
(***************************************************************************)
(* What stays due to a loan.                                               *)
(***************************************************************************)

\* A loan that is still open after a repayment has the mint, the due and the flag it
\* had.
LEMMA SettlementKeeps ==
  ASSUME now \in Nat, NEW loan \in LoanType, NEW max_amount
  PROVE  LET after == Settlement(loan, max_amount).loan
         IN  /\ after.reward_mint = loan.reward_mint
             /\ IsOpen(after) => /\ after.reward_due = loan.reward_due
                                 /\ after.manual_repayment = loan.manual_repayment
<1> DEFINE a == Accrue(loan, now)
           left == [a EXCEPT
                      !.accrued_interest = @ - InterestPart(a, max_amount),
                      !.outstanding      = @ - PrincipalPart(a, max_amount)]
           after == Settlement(loan, max_amount).loan
<1>1. /\ a.reward_mint = loan.reward_mint /\ a.reward_due = loan.reward_due
      /\ a.manual_repayment = loan.manual_repayment
      /\ left.reward_mint = a.reward_mint /\ left.reward_due = a.reward_due
      /\ left.manual_repayment = a.manual_repayment /\ left.status = a.status
  <2>1. a = loan
        \/ a = [loan EXCEPT
            !.accrued_interest   = @ + InterestTo(loan, now),
            !.interest_remainder = AccrualNumerator(loan, now) % ACCRUAL_DENOMINATOR,
            !.last_accrual_at    = now]
    BY DEF Accrue
  <2>2. /\ a.reward_mint = loan.reward_mint /\ a.reward_due = loan.reward_due
        /\ a.manual_repayment = loan.manual_repayment /\ DOMAIN a = DOMAIN loan
    BY <2>1 DEF LoanType
  <2>3. "reward_mint" \in DOMAIN loan /\ "reward_due" \in DOMAIN loan
        /\ "manual_repayment" \in DOMAIN loan /\ "status" \in DOMAIN loan
    BY DEF LoanType
  <2> HIDE DEF a
  <2>4. QED
    BY <2>2, <2>3
<1>2. /\ DOMAIN left = DOMAIN loan
      /\ "reward_mint" \in DOMAIN loan /\ "reward_due" \in DOMAIN loan
      /\ "manual_repayment" \in DOMAIN loan /\ "status" \in DOMAIN loan
  BY DEF LoanType, Accrue
<1>3. after = left
      \/ after = [left EXCEPT !.status = "Repaid", !.reward_due = 0,
                              !.manual_repayment = NoReason]
  BY DEF Settlement, ApplyRepayment
<1> HIDE DEF a, left, after
<1>4. after.reward_mint = left.reward_mint
      /\ (after = left \/ after.status = "Repaid")
  BY <1>2, <1>3
<1>5. QED
  BY <1>1, <1>4 DEF IsOpen, after

\* What a sweep plans for one loan: it takes no more than is owed, withholds nothing
\* or all it takes, and leaves the rest due.
SoundPart(part) ==
  /\ part \in PartType
  /\ part.take <= part.owed
  /\ part.left = part.owed - part.take
  /\ part.withheld = IF part.pays = 0 THEN 0 ELSE part.take

\* What the plan leaves of the loan: what is due, and a flag if that is anything.
LEMMA PlannedKeeps ==
  ASSUME NEW loan \in LoanType, NEW part, SoundPart(part), NEW reason
  PROVE  LET planned == Planned(loan, part, reason)
         IN  /\ planned.reward_mint = loan.reward_mint
             /\ planned.status = loan.status
             /\ planned.reward_due = part.left
             /\ planned.manual_repayment =
                  IF part.take < part.owed /\ loan.manual_repayment = NoReason
                    THEN reason ELSE loan.manual_repayment
             /\ DOMAIN planned = DOMAIN loan
<1> DEFINE due == [loan EXCEPT !.reward_due = part.left]
           flagged == [due EXCEPT !.manual_repayment = reason]
           planned == Planned(loan, part, reason)
<1>1. /\ due.reward_mint = loan.reward_mint /\ due.status = loan.status
      /\ due.manual_repayment = loan.manual_repayment /\ due.reward_due = part.left
      /\ DOMAIN due = DOMAIN loan
  BY DEF LoanType
<1>2. planned = IF part.take < part.owed /\ loan.manual_repayment = NoReason
                  THEN flagged ELSE due
  BY <1>1 DEF Planned, FlagManualRepayment
<1>3. "reward_mint" \in DOMAIN loan /\ "status" \in DOMAIN loan
      /\ "manual_repayment" \in DOMAIN loan /\ "reward_due" \in DOMAIN loan
  BY DEF LoanType
<1> HIDE DEF due, planned
<1>4. QED
  BY <1>1, <1>2, <1>3 DEF planned

\* A sweep that converts nothing leaves a loan due no more than it was owed, and a
\* loan without a flag no more than what would have been taken for it.
LEMMA SkippedKeeps ==
  ASSUME NEW loan \in LoanType, NEW part, SoundPart(part), NEW reason \in ManualReasons
  PROVE  LET skipped == Skipped(Planned(loan, part, reason), part)
         IN  /\ skipped.reward_mint = loan.reward_mint
             /\ skipped.status = loan.status
             /\ skipped.reward_due \in Nat /\ skipped.reward_due <= part.owed
             /\ part.pays # 0 => skipped.reward_due = part.owed
             /\ skipped.manual_repayment =
                  IF part.take < part.owed /\ loan.manual_repayment = NoReason
                    THEN reason ELSE loan.manual_repayment
             /\ skipped.manual_repayment = NoReason => skipped.reward_due <= part.take
<1> DEFINE planned == Planned(loan, part, reason)
           skipped == Skipped(planned, part)
<1>1. /\ planned.reward_mint = loan.reward_mint
      /\ planned.status = loan.status
      /\ planned.reward_due = part.left
      /\ planned.manual_repayment =
           IF part.take < part.owed /\ loan.manual_repayment = NoReason
             THEN reason ELSE loan.manual_repayment
      /\ DOMAIN planned = DOMAIN loan
  BY PlannedKeeps
<1>2. "reward_mint" \in DOMAIN loan /\ "status" \in DOMAIN loan
      /\ "manual_repayment" \in DOMAIN loan /\ "reward_due" \in DOMAIN loan
  BY DEF LoanType
<1>3. /\ part.take \in Nat /\ part.owed \in Nat /\ part.take <= part.owed
      /\ part.left = part.owed - part.take
      /\ part.withheld = IF part.pays = 0 THEN 0 ELSE part.take
  BY ArithmeticAssumption DEF SoundPart, PartType, U64
<1> HIDE DEF planned
<1>4. /\ skipped.reward_mint = planned.reward_mint /\ skipped.status = planned.status
      /\ skipped.manual_repayment = planned.manual_repayment
      /\ skipped.reward_due = planned.reward_due + part.withheld
  BY <1>1, <1>2 DEF Skipped
<1> HIDE DEF skipped
<1>5. reason # NoReason
  BY DEF ManualReasons, NoReason
<1>6. skipped.reward_due = part.left + part.withheld
  BY <1>1, <1>4
<1>7. /\ skipped.reward_due \in Nat /\ skipped.reward_due <= part.owed
      /\ part.pays # 0 => skipped.reward_due = part.owed
      /\ part.take = part.owed => skipped.reward_due <= part.take
  BY <1>3, <1>6
<1>8. QED
  BY <1>1, <1>3, <1>4, <1>5, <1>7 DEF planned, skipped

\* A sweep that converts leaves an open loan what the plan did, and flags it when it
\* used up the allowance; nothing is due to a loan it leaves without a flag.
LEMMA SweptKeeps ==
  ASSUME now \in Nat, NEW loan \in LoanType, IsOpen(loan), Sound(loan),
         Fits(TotalOwed(Accrue(loan, now))),
         NEW part, SoundPart(part), NEW reason \in ManualReasons, NEW spent \in BOOLEAN
  PROVE  LET swept == Swept(Planned(loan, part, reason), part, spent)
         IN  /\ swept.reward_mint = loan.reward_mint
             /\ IsOpen(swept) =>
                  /\ swept.reward_due = part.left
                  /\ swept.manual_repayment = NoReason => part.left = 0
                  /\ spent => swept.manual_repayment # NoReason
                  /\ \/ swept.manual_repayment \in {NoReason, "AllowanceShort"}
                     \/ swept.manual_repayment =
                          IF part.take < part.owed /\ loan.manual_repayment = NoReason
                            THEN reason ELSE loan.manual_repayment
<1> DEFINE planned == Planned(loan, part, reason)
           cleared == Cleared(planned, part)
           settled == IF part.pays = 0 THEN planned ELSE Settlement(cleared, part.pays).loan
           swept == Swept(planned, part, spent)
           flag == IF part.take < part.owed /\ loan.manual_repayment = NoReason
                     THEN reason ELSE loan.manual_repayment
<1>1. /\ planned.reward_mint = loan.reward_mint
      /\ planned.reward_due = part.left
      /\ planned.manual_repayment = flag
  BY PlannedKeeps
<1>2. /\ planned \in LoanType /\ IsOpen(planned) /\ Sound(planned)
      /\ cleared \in LoanType /\ IsOpen(cleared) /\ Sound(cleared)
      /\ SameDebt(cleared, loan)
  <2>1. part \in PartType
    BY DEF SoundPart
  <2>2. /\ planned \in LoanType /\ IsOpen(planned) /\ Sound(planned)
        /\ SameDebt(planned, loan)
    BY <2>1, PlannedFacts
  <2> HIDE DEF planned
  <2>3. /\ cleared \in LoanType /\ IsOpen(cleared) /\ Sound(cleared)
        /\ SameDebt(cleared, planned)
    BY <2>2, ClearedFacts
  <2>4. QED
    BY <2>2, <2>3 DEF SameDebt
<1>3. /\ part.take \in Nat /\ part.owed \in Nat /\ part.take <= part.owed
      /\ part.left = part.owed - part.take
      /\ part.withheld = IF part.pays = 0 THEN 0 ELSE part.take
  BY ArithmeticAssumption DEF SoundPart, PartType, U64
<1>4. flag = NoReason => part.take = part.owed
  <2>1. reason # NoReason
    BY DEF ManualReasons, NoReason
  <2>2. QED
    BY <1>3, <2>1
<1> HIDE DEF planned, flag
<1>5. /\ cleared.reward_mint = loan.reward_mint /\ cleared.reward_due = part.left
      /\ \/ cleared.manual_repayment = flag
         \/ cleared.manual_repayment = NoReason /\ part.withheld = part.owed
  <2>1. CASE part.withheld = part.owed
    <3>1. cleared = [planned EXCEPT !.manual_repayment = NoReason]
      BY <2>1 DEF Cleared
    <3> HIDE DEF cleared
    <3>2. QED
      BY <1>1, <1>2, <2>1, <3>1 DEF LoanType
  <2>2. CASE part.withheld # part.owed
    BY <1>1, <2>2 DEF Cleared
  <2>3. QED
    BY <2>1, <2>2
<1>6. /\ settled.reward_mint = loan.reward_mint
      /\ IsOpen(settled) =>
           /\ settled.reward_due = part.left
           /\ settled.manual_repayment \in {flag, NoReason}
           /\ settled.manual_repayment = NoReason => part.left = 0
  <2>1. CASE part.pays = 0
    <3>1. settled = planned
      BY <2>1
    <3> HIDE DEF settled
    <3>2. QED
      BY <1>1, <1>3, <1>4, <3>1
  <2>2. CASE part.pays # 0
    <3> DEFINE after == Settlement(cleared, part.pays).loan
    <3>1. settled = after
      BY <2>2
    <3> HIDE DEF settled, cleared
    <3>2. /\ after.reward_mint = cleared.reward_mint
          /\ IsOpen(after) => /\ after.reward_due = cleared.reward_due
                              /\ after.manual_repayment = cleared.manual_repayment
      BY <1>2, SettlementKeeps
    <3>3. part.withheld = part.owed => part.left = 0
      BY <1>3, <2>2
    <3> HIDE DEF after
    <3>4. QED
      BY <1>3, <1>4, <1>5, <3>1, <3>2, <3>3
  <2>3. QED
    BY <2>1, <2>2
<1>7. CASE spent /\ IsOpen(settled)
  <2>1. swept = FlagManualRepayment(settled, "AllowanceShort")
    BY <1>7 DEF Swept
  <2>2. settled \in LoanType
    <3>1. CASE part.pays = 0
      BY <1>2, <3>1
    <3>2. CASE part.pays # 0
      <4>1. TotalOwed(Accrue(cleared, now)) = TotalOwed(Accrue(loan, now))
        BY <1>2, SameDebtOwes
      <4>2. part.pays \in Nat
        BY ArithmeticAssumption DEF SoundPart, PartType, U64
      <4> HIDE DEF cleared
      <4>3. Settlement(cleared, part.pays).loan \in LoanType
        BY <1>2, <4>1, <4>2, SettlementFacts
      <4>4. QED
        BY <3>2, <4>3
    <3>3. QED
      BY <3>1, <3>2
  <2> HIDE DEF settled, swept
  <2>3. /\ swept.reward_mint = settled.reward_mint /\ swept.reward_due = settled.reward_due
        /\ swept.manual_repayment = IF settled.manual_repayment = NoReason
                                      THEN "AllowanceShort" ELSE settled.manual_repayment
    BY <2>1, <2>2 DEF FlagManualRepayment, LoanType
  <2>4. "AllowanceShort" # NoReason
    BY DEF NoReason
  <2>5. QED
    BY <1>6, <1>7, <2>3, <2>4 DEF swept, planned, flag
<1>8. CASE ~(spent /\ IsOpen(settled))
  <2>1. swept = settled
    BY <1>8 DEF Swept
  <2> HIDE DEF settled, swept
  <2>2. QED
    BY <1>6, <1>8, <2>1 DEF swept, planned, flag
<1>9. QED
  BY <1>7, <1>8
\* The plan of a sweep whose numbers fit is sound for every loan.
LEMMA PlanIsSound ==
  ASSUME TypeOK, LoanBooks, NEW o \in Operators, NEW m \in RewardMints,
         NEW rate \in RateAttestations, Sweep(o, m, rate)
  PROVE  LET r    == rate.stable_per_trillion_reward
             plan == SweepPlan(o, m, r)
         IN  /\ r \in Nat /\ r > 0
             /\ DOMAIN plan = OpenLoansOn(o, m)
             /\ \A n \in OpenLoansOn(o, m) : SoundPart(plan[n]) /\ Fits(Debt(o, n))
<1> DEFINE r    == rate.stable_per_trillion_reward
           plan == SweepPlan(o, m, r)
<1>1. r \in Nat /\ r > 0
  BY RewardFloatAssumption DEF Sweep, SweepChecked, RateVerified
<1>2. \A n \in OpenLoansOn(o, m) : Fits(Debt(o, n))
  BY DEF Sweep, SweepChecked
<1>3. PlanFits(plan)
  BY DEF Sweep
<1>4. DOMAIN plan = OpenLoansOn(o, m)
  BY DEF SweepPlan
<1>5. ASSUME NEW n \in OpenLoansOn(o, m) PROVE SoundPart(plan[n])
  <2>1. plan[n] \in PartType
    BY <1>3, <1>4 DEF PlanFits
  <2>2. plan[n].take <= plan[n].owed
    <3>1. \A k \in OpenLoansOn(o, m) : plan[k].take <= plan[k].owed
      BY <1>1, <1>2, PlanIsCovered
    <3>2. QED
      BY <3>1
  <2>3. /\ plan[n].left = plan[n].owed - plan[n].take
        /\ plan[n].withheld = IF plan[n].pays = 0 THEN 0 ELSE plan[n].take
    BY DEF SweepPlan
  <2>4. QED
    BY <2>1, <2>2, <2>3 DEF SoundPart
<1>6. QED
  BY <1>1, <1>2, <1>4, <1>5

-----------------------------------------------------------------------------
(***************************************************************************)
(* What the handlers do to the claim of a loan: its mint, its due, its     *)
(* flag.                                                                   *)
(***************************************************************************)

\* The accounts of one loan that claim the same.
SameClaim(a, b) ==
  /\ a.reward_mint = b.reward_mint
  /\ a.reward_due = b.reward_due
  /\ a.manual_repayment = b.manual_repayment

\* A repayment opens no loan and changes no claim.
LEMMA RepayKeeps ==
  ASSUME BooksInv, NEW o \in Operators, NEW n \in Nonces, NEW amount, Repay(o, n, amount)
  PROVE  /\ UNCHANGED <<rewards, watches>>
         /\ \A p \in Operators, k \in Nonces :
              Counts(loans'[p][k]) =>
                Counts(loans[p][k]) /\ SameClaim(loans'[p][k], loans[p][k])
<1> DEFINE loan == loans[o][n]
           after == Settlement(loan, amount).loan
<1>1. /\ n \in OpenLoans(o) /\ UNCHANGED <<rewards, watches>>
      /\ loans' = [loans EXCEPT ![o] = [loans[o] EXCEPT ![n] = after]]
  BY DEF Repay
<1>2. /\ \A p \in Operators, k \in Nonces :
           loans'[p][k] = IF p = o /\ k = n THEN after ELSE loans[p][k]
  BY <1>1 DEF BooksInv, Inv, TypeOK
<1>3. loan \in LoanType /\ Counts(loan) /\ now \in Nat
  BY <1>1, OpenLoanType DEF BooksInv, Inv, TypeOK, Counts
<1> HIDE DEF loan, after
<1>4. /\ after.reward_mint = loan.reward_mint
      /\ IsOpen(after) => /\ after.reward_due = loan.reward_due
                          /\ after.manual_repayment = loan.manual_repayment
  BY <1>3, SettlementKeeps DEF after
<1>5. QED
  BY <1>1, <1>2, <1>3, <1>4 DEF Counts, SameClaim, loan

\* Bringing a loan up to now does not change what it claims.
LEMMA AccrueKeeps ==
  ASSUME NEW loan \in LoanType
  PROVE  SameClaim(Accrue(loan, now), loan)
<1>1. CASE now <= loan.last_accrual_at
  BY <1>1 DEF Accrue, SameClaim
<1>2. CASE ~(now <= loan.last_accrual_at)
  BY <1>2 DEF Accrue, SameClaim, LoanType
<1>3. QED
  BY <1>1, <1>2

\* An open loan will owe something on its due date.
LEMMA CeilingIsPositive ==
  ASSUME now \in Nat, NEW loan \in LoanType, IsOpen(loan), Sound(loan)
  PROVE  DebtCeiling(loan, now) \in Nat /\ DebtCeiling(loan, now) > 0
<1> DEFINE t == IF loan.due_at >= now THEN loan.due_at ELSE now
<1>1. t \in Nat
  BY DEF LoanType
<1>2. DebtCeiling(loan, now) = TotalOwed(Accrue(loan, t))
  BY DEF DebtCeiling
<1> HIDE DEF t
<1>3. TotalOwed(Accrue(loan, t)) = TotalOwed(loan) + InterestTo(loan, t)
      /\ InterestTo(loan, t) \in Nat
  BY <1>1, AccrueFacts, InterestType
<1>4. loan.outstanding \in Nat /\ loan.outstanding > 0 /\ loan.accrued_interest \in Nat
  BY ArithmeticAssumption DEF LoanType, U64, Sound
<1>5. QED
  BY <1>2, <1>3, <1>4 DEF TotalOwed

\* A borrow adds one loan that claims nothing yet and changes no other claim.  The
\* token it names is watched from then on, and from its whole balance when no loan
\* was repaid from it before.
LEMMA BorrowKeeps ==
  ASSUME BooksInv, NEW o \in Operators, NEW m \in RewardMints, NEW amount \in Loans,
         NEW term \in 1..MAX_TERM_PERIODS, NEW share \in SweepShares,
         NEW apr \in MaxAprs, NEW limit \in LimitAttestations,
         NEW rate \in RateAttestations,
         Borrow(o, m, amount, term, share, apr, limit, rate)
  PROVE  /\ \A p \in Operators, k \in Nonces :
              Counts(loans'[p][k]) =>
                \/ /\ p = o /\ loans'[p][k].reward_mint = m
                   /\ loans'[p][k].reward_due = 0
                   /\ loans'[p][k].manual_repayment = NoReason
                \/ Counts(loans[p][k]) /\ SameClaim(loans'[p][k], loans[p][k])
         /\ \A p \in Operators, q \in RewardMints :
              p # o \/ q # m => watches'[p][q] = watches[p][q]
                                /\ rewards'[p][q] = rewards[p][q]
         /\ rewards'[o][m].balance = rewards[o][m].balance /\ rewards'[o][m].ours
         /\ watches'[o][m].started
         /\ \/ watches'[o][m] = watches[o][m]
            \/ /\ watches'[o][m].balance = rewards[o][m].balance
               /\ watches[o][m].started => OpenLoansOn(o, m) = {}
<1> DEFINE loan == NewLoan(m, amount, term, share, QuoteAprBps(PoolAccrued(o), amount))
           a(n) == AccruedLoans(o)[n]
<1> TypeOK /\ LoanBooks /\ OpenLoansOwe /\ now \in Nat
  BY DEF BooksInv, Inv, TypeOK
<1>1. /\ \A p \in Operators : p # o => loans'[p] = loans[p]
      /\ \A n \in Nonces :
           loans'[o][n] = IF n = limit.nonce THEN loan
                          ELSE IF n \in OpenLoans(o) THEN a(n)
                          ELSE loans[o][n]
      /\ \A n \in OpenLoans(o) : a(n) \in LoanType
  BY BorrowWrites
<1>2. /\ loan.reward_mint = m /\ loan.reward_due = 0 /\ loan.manual_repayment = NoReason
  BY DEF NewLoan
<1>3. ASSUME NEW n \in OpenLoans(o)
      PROVE  /\ n \in Nonces /\ loans[o][n] \in LoanType /\ Counts(loans[o][n])
             /\ a(n) = Accrue(loans[o][n], now) /\ SameClaim(a(n), loans[o][n])
  BY OpenLoanType, AccrueKeeps DEF AccruedLoans, Counts
<1>4. ASSUME NEW p \in Operators, NEW k \in Nonces, Counts(loans'[p][k])
      PROVE  \/ /\ p = o /\ loans'[p][k].reward_mint = m
                /\ loans'[p][k].reward_due = 0
                /\ loans'[p][k].manual_repayment = NoReason
             \/ Counts(loans[p][k]) /\ SameClaim(loans'[p][k], loans[p][k])
  <2>1. CASE p # o
    BY <1>1, <1>4, <2>1 DEF SameClaim
  <2>2. CASE p = o /\ k = limit.nonce
    <3>1. loans'[p][k] = loan
      BY <1>1, <2>2
    <3> HIDE DEF loan
    <3>2. QED
      BY <1>2, <2>2, <3>1
  <2>3. CASE p = o /\ k # limit.nonce /\ k \in OpenLoans(o)
    <3>1. loans'[p][k] = a(k)
      BY <1>1, <2>3
    <3> HIDE DEF a
    <3>2. QED
      BY <1>3, <2>3, <3>1
  <2>4. CASE p = o /\ k # limit.nonce /\ k \notin OpenLoans(o)
    BY <1>1, <1>4, <2>4 DEF SameClaim
  <2>5. QED
    BY <2>1, <2>2, <2>3, <2>4
<1>5. /\ watches' = IF RewardCeiling(o, m) = 0 \/ ~watches[o][m].started
                      THEN [watches EXCEPT ![o][m] =
                              [started |-> TRUE, balance |-> rewards[o][m].balance]]
                      ELSE watches
      /\ \E allowance :
           rewards' = [rewards EXCEPT ![o][m].ours = TRUE, ![o][m].allowance = allowance]
  BY DEF Borrow
<1>6. /\ watches \in [Operators -> [RewardMints -> WatchType]]
      /\ rewards \in [Operators -> [RewardMints -> RewardAccountType]]
  BY DEF TypeOK
<1>7. \A p \in Operators, q \in RewardMints :
        p # o \/ q # m => watches'[p][q] = watches[p][q] /\ rewards'[p][q] = rewards[p][q]
  BY <1>5, <1>6
<1>8. rewards'[o][m].balance = rewards[o][m].balance /\ rewards'[o][m].ours
  <2>1. PICK allowance :
          rewards' = [rewards EXCEPT ![o] = [rewards[o] EXCEPT
                        ![m] = [[rewards[o][m] EXCEPT !.ours = TRUE]
                                  EXCEPT !.allowance = allowance]]]
    BY ZenonT(40), <1>5, <1>6
  <2>2. rewards'[o][m] = [[rewards[o][m] EXCEPT !.ours = TRUE]
                            EXCEPT !.allowance = allowance]
    BY <1>6, <2>1
  <2>3. rewards[o][m] \in RewardAccountType
    BY <1>6
  <2>4. QED
    BY <2>2, <2>3 DEF RewardAccountType
<1>9. RewardCeiling(o, m) = 0 => OpenLoansOn(o, m) = {}
  <2> DEFINE S == OpenLoansOn(o, m)
             f == [n \in S |-> DebtCeiling(a(n), now)]
  <2>1. IsFiniteSet(S)
    BY RepaidFromToken
  <2>2. ASSUME NEW n \in S PROVE DebtCeiling(a(n), now) \in Nat /\ DebtCeiling(a(n), now) > 0
    <3>1. n \in OpenLoans(o)
      BY DEF OpenLoansOn
    <3>2. /\ a(n) \in LoanType /\ a(n) = Accrue(loans[o][n], now)
          /\ loans[o][n] \in LoanType /\ n \in Nonces /\ Counts(loans[o][n])
      BY <1>1, <1>3, <3>1
    <3>3. IsOpen(loans[o][n]) /\ Sound(loans[o][n])
      BY <3>2, AllSound DEF Counts
    <3> HIDE DEF a
    <3>4. IsOpen(a(n)) /\ Sound(a(n))
      BY <3>2, <3>3, AccrueFacts DEF IsOpen, Sound
    <3>5. QED
      BY <3>2, <3>4, CeilingIsPositive
  <2>3. RewardCeiling(o, m) = SumFunctionOnSet(f, S)
    BY DEF RewardCeiling, SumFunction
  <2>4. \A n \in S : f[n] \in Nat /\ f[n] > 0
    BY <2>2
  <2> HIDE DEF f, S
  <2>5. \A n \in S : f[n] <= SumFunctionOnSet(f, S) /\ SumFunctionOnSet(f, S) \in Nat
    BY <2>1, <2>4, SumOfNaturals
  <2>6. QED
    BY <2>3, <2>4, <2>5 DEF S
<1>10. CASE RewardCeiling(o, m) = 0 \/ ~watches[o][m].started
  <2>1. watches'[o][m] = [started |-> TRUE, balance |-> rewards[o][m].balance]
    BY <1>5, <1>6, <1>10
  <2>2. QED
    BY <1>4, <1>7, <1>8, <1>9, <1>10, <2>1
<1>11. CASE ~(RewardCeiling(o, m) = 0 \/ ~watches[o][m].started)
  <2>1. watches'[o][m] = watches[o][m] /\ watches[o][m].started
    BY <1>5, <1>6, <1>11 DEF WatchType
  <2>2. QED
    BY <1>4, <1>7, <1>8, <2>1
<1>12. QED
  BY <1>10, <1>11
\* A sweep leaves the loans repaid from other tokens alone.
LEMMA SweepKeepsOthers ==
  ASSUME BooksInv, NEW o \in Operators, NEW m \in RewardMints, NEW handled, NEW watched,
         SweepWrites(o, m, handled, watched)
  PROVE  /\ \A p \in Operators, k \in Nonces :
              loans'[p][k] = IF p = o /\ k \in OpenLoansOn(o, m) THEN handled[k]
                             ELSE loans[p][k]
         /\ \A p \in Operators, q \in RewardMints :
              /\ watches'[p][q].started = watches[p][q].started
              /\ watches'[p][q].balance = IF p = o /\ q = m THEN watched
                                          ELSE watches[p][q].balance
<1> DEFINE row == [n \in Nonces |-> IF n \in OpenLoansOn(o, m) THEN handled[n]
                                    ELSE loans[o][n]]
           watch == [watches[o][m] EXCEPT !.balance = watched]
<1>1. /\ loans \in [Operators -> [Nonces -> LoanType \union {NoLoan}]]
      /\ watches \in [Operators -> [RewardMints -> WatchType]]
  BY DEF BooksInv, Inv, TypeOK
<1>2. loans' = [loans EXCEPT ![o] = row]
  BY DEF SweepWrites
<1>3. watches' = [watches EXCEPT ![o] = [watches[o] EXCEPT ![m] = watch]]
  BY DEF SweepWrites
<1>4. \A p \in Operators, k \in Nonces :
        loans'[p][k] = IF p = o /\ k \in OpenLoansOn(o, m) THEN handled[k]
                       ELSE loans[p][k]
  <2>1. \A k \in Nonces :
          row[k] = IF k \in OpenLoansOn(o, m) THEN handled[k] ELSE loans[o][k]
    OBVIOUS
  <2> HIDE DEF row
  <2>2. QED
    BY <1>1, <1>2, <2>1
<1>5. watch.started = watches[o][m].started /\ watch.balance = watched
  BY <1>1 DEF WatchType
<1> HIDE DEF watch
<1>6. \A p \in Operators, q \in RewardMints :
        watches'[p][q] = IF p = o /\ q = m THEN watch ELSE watches[p][q]
  BY <1>1, <1>3
<1>7. QED
  BY <1>4, <1>5, <1>6

\* A sweep that converts nothing.
LEMMA SkipKeeps ==
  ASSUME BooksInv, NEW o \in Operators, NEW m \in RewardMints,
         NEW rate \in RateAttestations, Sweep(o, m, rate),
         SweepWithoutConverting(o, m, rate.stable_per_trillion_reward,
                                SweepPlan(o, m, rate.stable_per_trillion_reward))
  PROVE  LET plan == SweepPlan(o, m, rate.stable_per_trillion_reward)
         IN  /\ rewards' = rewards
             /\ \A p \in Operators, q \in RewardMints :
                  /\ watches'[p][q].started = watches[p][q].started
                  /\ watches'[p][q].balance = IF p = o /\ q = m THEN rewards[o][m].balance
                                              ELSE watches[p][q].balance
             /\ \A p \in Operators, k \in Nonces :
                  p # o \/ k \notin OpenLoansOn(o, m) => loans'[p][k] = loans[p][k]
             /\ \A k \in OpenLoansOn(o, m) :
                  LET was == loans[o][k]
                      is  == loans'[o][k]
                  IN  /\ Counts(was) /\ Counts(is) /\ is.reward_mint = was.reward_mint
                      /\ is.reward_due \in Nat /\ is.reward_due <= plan[k].owed
                      /\ plan[k].pays # 0 => is.reward_due = plan[k].owed
                      /\ is.manual_repayment =
                           IF plan[k].take < plan[k].owed /\ was.manual_repayment = NoReason
                             THEN Shortfall(o, m) ELSE was.manual_repayment
                      /\ is.manual_repayment = NoReason => is.reward_due <= plan[k].take
<1> DEFINE plan == SweepPlan(o, m, rate.stable_per_trillion_reward)
           handled == [n \in OpenLoansOn(o, m) |->
                         Skipped(Planned(loans[o][n], plan[n], Shortfall(o, m)), plan[n])]
<1> TypeOK /\ LoanBooks /\ Inv' /\ TypeOK'
  BY SweepInv DEF BooksInv, Inv
<1>1. rewards' = rewards /\ SweepWrites(o, m, handled, rewards[o][m].balance)
  BY DEF SweepWithoutConverting
<1>2. \A n \in OpenLoansOn(o, m) : SoundPart(plan[n])
  BY PlanIsSound
<1>3. \A k \in OpenLoansOn(o, m) :
        handled[k] = Skipped(Planned(loans[o][k], plan[k], Shortfall(o, m)), plan[k])
  OBVIOUS
<1> HIDE DEF plan, handled
<1>4. /\ \A p \in Operators, k \in Nonces :
           loans'[p][k] = IF p = o /\ k \in OpenLoansOn(o, m) THEN handled[k]
                          ELSE loans[p][k]
      /\ \A p \in Operators, q \in RewardMints :
           /\ watches'[p][q].started = watches[p][q].started
           /\ watches'[p][q].balance = IF p = o /\ q = m THEN rewards[o][m].balance
                                       ELSE watches[p][q].balance
  BY <1>1, SweepKeepsOthers
<1>5. ASSUME NEW k \in OpenLoansOn(o, m)
      PROVE  LET was == loans[o][k]
                 is  == loans'[o][k]
             IN  /\ Counts(was) /\ Counts(is) /\ is.reward_mint = was.reward_mint
                 /\ is.reward_due \in Nat /\ is.reward_due <= plan[k].owed
                 /\ plan[k].pays # 0 => is.reward_due = plan[k].owed
                 /\ is.manual_repayment =
                      IF plan[k].take < plan[k].owed /\ was.manual_repayment = NoReason
                        THEN Shortfall(o, m) ELSE was.manual_repayment
                 /\ is.manual_repayment = NoReason => is.reward_due <= plan[k].take
  <2> DEFINE was == loans[o][k]
             is  == loans'[o][k]
             reason == Shortfall(o, m)
             part == plan[k]
             skipped == Skipped(Planned(was, part, reason), part)
  <2>1. k \in Nonces /\ was \in LoanType /\ Counts(was)
    BY RepaidFromToken DEF Counts
  <2>2. is = skipped
    BY <1>3, <1>4, <2>1
  <2>3. reason \in ManualReasons /\ SoundPart(part)
    BY <1>2, ShortfallType
  <2>4. is \in LoanType \union {NoLoan}
    BY <2>1 DEF TypeOK
  <2>5. skipped \in LoanType
    <3>1. Fits(Debt(o, k)) /\ SweepPlan(o, m, rate.stable_per_trillion_reward)[k] \in PartType
      BY PlanIsSound DEF SoundPart
    <3>2. QED
      BY <3>1, HandledFacts DEF plan, BooksInv
  <2> HIDE DEF was, is, reason, part
  <2>6. /\ skipped.reward_mint = was.reward_mint
        /\ skipped.status = was.status
        /\ skipped.reward_due \in Nat /\ skipped.reward_due <= part.owed
        /\ part.pays # 0 => skipped.reward_due = part.owed
        /\ skipped.manual_repayment =
             IF part.take < part.owed /\ was.manual_repayment = NoReason
               THEN reason ELSE was.manual_repayment
        /\ skipped.manual_repayment = NoReason => skipped.reward_due <= part.take
    BY <2>1, <2>3, SkippedKeeps
  <2>7. Counts(skipped)
    BY <2>1, <2>5, <2>6, RewardFloatAssumption DEF Counts, IsOpen
  <2> HIDE DEF skipped
  <2>8. QED
    BY <2>1, <2>2, <2>6, <2>7 DEF was, is, reason, part
<1>6. QED
  BY <1>1, <1>4, <1>5 DEF plan
\* A sweep that converts.
LEMMA ConvertKeeps ==
  ASSUME BooksInv, NEW o \in Operators, NEW m \in RewardMints,
         NEW rate \in RateAttestations, Sweep(o, m, rate),
         SweepConverting(o, m, rate.stable_per_trillion_reward,
                         SweepPlan(o, m, rate.stable_per_trillion_reward))
  PROVE  LET plan  == SweepPlan(o, m, rate.stable_per_trillion_reward)
             taken == TotalWithheld(plan)
         IN  /\ taken \in Nat /\ taken <= rewards[o][m].balance
             /\ taken <= Allowance(o, m)
             /\ \A p \in Operators, q \in RewardMints :
                  /\ rewards'[p][q].balance = IF p = o /\ q = m
                                                THEN rewards[o][m].balance - taken
                                                ELSE rewards[p][q].balance
                  /\ rewards'[p][q].ours = IF p = o /\ q = m
                                             THEN taken < Allowance(o, m)
                                             ELSE rewards[p][q].ours
                  /\ watches'[p][q].started = watches[p][q].started
                  /\ watches'[p][q].balance = IF p = o /\ q = m
                                                THEN rewards[o][m].balance - taken
                                                ELSE watches[p][q].balance
             /\ \A p \in Operators, k \in Nonces :
                  p # o \/ k \notin OpenLoansOn(o, m) => loans'[p][k] = loans[p][k]
             /\ \A k \in OpenLoansOn(o, m) :
                  LET was == loans[o][k]
                      is  == loans'[o][k]
                  IN  /\ Counts(was) /\ is.reward_mint = was.reward_mint
                      /\ Counts(is) =>
                           /\ is.reward_due = plan[k].left
                           /\ is.manual_repayment = NoReason => plan[k].left = 0
                           /\ taken = Allowance(o, m) => is.manual_repayment # NoReason
                           /\ \/ is.manual_repayment \in {NoReason, "AllowanceShort"}
                              \/ is.manual_repayment =
                                   IF plan[k].take < plan[k].owed
                                      /\ was.manual_repayment = NoReason
                                     THEN Shortfall(o, m) ELSE was.manual_repayment
<1> DEFINE plan == SweepPlan(o, m, rate.stable_per_trillion_reward)
           taken == TotalWithheld(plan)
           spent == taken = Allowance(o, m)
           handled == [n \in OpenLoansOn(o, m) |->
                         Swept(Planned(loans[o][n], plan[n], Shortfall(o, m)), plan[n],
                               spent)]
           balance == rewards[o][m].balance
           account == [ balance   |-> balance - taken,
                        ours      |-> taken < Allowance(o, m),
                        allowance |-> Allowance(o, m) - taken ]
<1> TypeOK /\ LoanBooks /\ OpenLoansOwe /\ now \in Nat
  BY DEF BooksInv, Inv, TypeOK
<1>1. /\ taken > 0 /\ balance >= taken /\ Allowance(o, m) >= taken
      /\ rewards' = [rewards EXCEPT ![o] = [rewards[o] EXCEPT ![m] = account]]
      /\ SweepWrites(o, m, handled, balance - taken)
  BY DEF SweepConverting
<1>2. taken \in Nat
  <2>1. Fits(taken)
    BY DEF Sweep, PlanFits
  <2>2. QED
    BY <2>1, ArithmeticAssumption DEF Fits, U64
<1>3. \A n \in OpenLoansOn(o, m) : SoundPart(plan[n]) /\ Fits(Debt(o, n))
  BY PlanIsSound
<1>4. \A k \in OpenLoansOn(o, m) :
        handled[k] = Swept(Planned(loans[o][k], plan[k], Shortfall(o, m)), plan[k], spent)
  OBVIOUS
<1>5. balance \in Nat /\ Allowance(o, m) \in Nat
  BY ArithmeticAssumption DEF TypeOK, RewardAccountType, U64, Allowance
<1>6. /\ account.balance = balance - taken /\ account.ours = (taken < Allowance(o, m))
  OBVIOUS
<1> HIDE DEF plan, handled, account, taken
<1>7. /\ \A p \in Operators, k \in Nonces :
           loans'[p][k] = IF p = o /\ k \in OpenLoansOn(o, m) THEN handled[k]
                          ELSE loans[p][k]
      /\ \A p \in Operators, q \in RewardMints :
           /\ watches'[p][q].started = watches[p][q].started
           /\ watches'[p][q].balance = IF p = o /\ q = m THEN balance - taken
                                       ELSE watches[p][q].balance
  BY <1>1, SweepKeepsOthers
<1>8. \A p \in Operators, q \in RewardMints :
        rewards'[p][q] = IF p = o /\ q = m THEN account ELSE rewards[p][q]
  BY <1>1 DEF TypeOK
<1>9. ASSUME NEW p \in Operators, NEW q \in RewardMints
      PROVE  /\ rewards'[p][q].balance = IF p = o /\ q = m THEN balance - taken
                                         ELSE rewards[p][q].balance
             /\ rewards'[p][q].ours = IF p = o /\ q = m THEN taken < Allowance(o, m)
                                      ELSE rewards[p][q].ours
  BY <1>6, <1>8
<1>10. ASSUME NEW k \in OpenLoansOn(o, m)
       PROVE  LET was == loans[o][k]
                  is  == loans'[o][k]
              IN  /\ Counts(was) /\ is.reward_mint = was.reward_mint
                  /\ Counts(is) =>
                       /\ is.reward_due = plan[k].left
                       /\ is.manual_repayment = NoReason => plan[k].left = 0
                       /\ spent => is.manual_repayment # NoReason
                       /\ \/ is.manual_repayment \in {NoReason, "AllowanceShort"}
                          \/ is.manual_repayment =
                               IF plan[k].take < plan[k].owed
                                  /\ was.manual_repayment = NoReason
                                 THEN Shortfall(o, m) ELSE was.manual_repayment
  <2> DEFINE was == loans[o][k]
             is  == loans'[o][k]
             reason == Shortfall(o, m)
             part == plan[k]
             swept == Swept(Planned(was, part, reason), part, spent)
  <2>1. k \in Nonces /\ was \in LoanType /\ Counts(was) /\ IsOpen(was)
    BY RepaidFromToken DEF Counts
  <2>2. is = swept
    BY <1>4, <1>7, <2>1
  <2>3. reason \in ManualReasons /\ SoundPart(part) /\ spent \in BOOLEAN
    BY <1>3, ShortfallType
  <2>4. Fits(TotalOwed(Accrue(was, now)))
    BY <1>3 DEF Debt
  <2>5. Sound(was)
    BY <2>1, AllSound DEF Counts
  <2> HIDE DEF was, is, reason, part, spent
  <2>6. /\ swept.reward_mint = was.reward_mint
        /\ IsOpen(swept) =>
             /\ swept.reward_due = part.left
             /\ swept.manual_repayment = NoReason => part.left = 0
             /\ spent => swept.manual_repayment # NoReason
             /\ \/ swept.manual_repayment \in {NoReason, "AllowanceShort"}
                \/ swept.manual_repayment =
                     IF part.take < part.owed /\ was.manual_repayment = NoReason
                       THEN reason ELSE was.manual_repayment
    BY <2>1, <2>3, <2>4, <2>5, SweptKeeps
  <2> HIDE DEF swept
  <2>7. QED
    BY <2>1, <2>2, <2>6 DEF Counts, was, is, reason, part
<1>11. QED
  BY <1>1, <1>2, <1>5, <1>7, <1>9, <1>10 DEF plan, taken
-----------------------------------------------------------------------------
(***************************************************************************)
(* What is due to loans in good standing.                                  *)
(***************************************************************************)

\* The open loans repaid from a token, and those of them in good standing.
Claimants(table, o, m) ==
  {n \in Nonces : Counts(table[o][n]) /\ table[o][n].reward_mint = m}

InGoodStanding(table, o, m) ==
  {n \in Claimants(table, o, m) : table[o][n].manual_repayment = NoReason}

\* What is due to some loans of an operator.
DueTo(table, o, S) == SumFunctionOnSet([n \in S |-> table[o][n].reward_due], S)

\* Every open loan is repaid from a token that is watched, and what is due to loans in
\* good standing is within the watch.  Without the first part a borrow could start the
\* watch of a token below what is due from it.
DueBooks ==
  /\ \A o \in Operators, n \in Nonces :
       Counts(loans[o][n]) => watches[o][loans[o][n].reward_mint].started
  /\ \A o \in Operators, m \in RewardMints :
       DueTo(loans, o, InGoodStanding(loans, o, m)) <= watches[o][m].balance

\* A sum over fewer or smaller numbers is no greater.
LEMMA SumFalls ==
  ASSUME NEW f, NEW S, IsFiniteSet(S), \A x \in S : f[x] \in Nat,
         NEW g, NEW R, IsFiniteSet(R),
         \A x \in R : /\ g[x] \in Nat
                      /\ g[x] = 0 \/ (x \in S /\ g[x] <= f[x])
  PROVE  /\ SumFunctionOnSet(f, S) \in Nat /\ SumFunctionOnSet(g, R) \in Nat
         /\ SumFunctionOnSet(g, R) <= SumFunctionOnSet(f, S)
<1> DEFINE K == S \union R
           F == [x \in K |-> IF x \in S THEN f[x] ELSE 0]
           G == [x \in K |-> IF x \in R THEN g[x] ELSE 0]
<1>1. IsFiniteSet(K) /\ S \in SUBSET K /\ R \in SUBSET K
  BY FS_Union
<1>2. /\ \A x \in S : F[x] = f[x]
      /\ \A x \in K \ S : F[x] = 0
      /\ \A x \in R : G[x] = g[x]
      /\ \A x \in K \ R : G[x] = 0
  OBVIOUS
<1>3. \A x \in K : F[x] \in Int /\ G[x] \in Int /\ G[x] <= F[x]
  OBVIOUS
<1> HIDE DEF K, F, G
<1>4. SumFunctionOnSet(F, K) = SumFunctionOnSet(f, S)
  <2>1. \A x \in S : f[x] \in Int /\ F[x] = f[x]
    BY <1>2
  <2>2. QED
    BY <1>1, <1>2, <2>1, SumExtended
<1>5. SumFunctionOnSet(G, K) = SumFunctionOnSet(g, R)
  <2>1. \A x \in R : g[x] \in Int /\ G[x] = g[x]
    BY <1>2
  <2>2. QED
    BY <1>1, <1>2, <2>1, SumExtended
<1>6. SumFunctionOnSet(G, K) <= SumFunctionOnSet(F, K)
  BY <1>1, <1>3, SumAtMost
<1>7. SumFunctionOnSet(f, S) \in Nat
  BY SumOfNaturals
<1>8. SumFunctionOnSet(g, R) \in Nat
  <2>1. \A x \in R : g[x] \in Nat
    OBVIOUS
  <2>2. QED
    BY <2>1, SumOfNaturals
<1>9. QED
  BY <1>4, <1>5, <1>6, <1>7, <1>8

\* There are finitely many of them, and each is due a number of tokens.
LEMMA ClaimantsAre ==
  ASSUME NEW L \in Tables, FiniteBooks(L), NEW o \in Operators, NEW m
  PROVE  /\ IsFiniteSet(Claimants(L, o, m)) /\ IsFiniteSet(InGoodStanding(L, o, m))
         /\ \A n \in Nonces : Counts(L[o][n]) => L[o][n] \in LoanType
         /\ \A n \in Claimants(L, o, m) : L[o][n].reward_due \in Nat
<1>1. IsFiniteSet(OpenIn(L, o))
  BY DEF FiniteBooks
<1>2. /\ Claimants(L, o, m) \in SUBSET OpenIn(L, o)
      /\ InGoodStanding(L, o, m) \in SUBSET OpenIn(L, o)
  BY DEF Claimants, InGoodStanding, OpenIn
<1>3. IsFiniteSet(Claimants(L, o, m)) /\ IsFiniteSet(InGoodStanding(L, o, m))
  BY <1>1, <1>2, FS_Subset
<1>4. \A n \in Nonces : Counts(L[o][n]) => L[o][n] \in LoanType
  BY DEF Tables, Counts
<1>5. \A n \in Claimants(L, o, m) : L[o][n].reward_due \in Nat
  BY <1>4, ArithmeticAssumption DEF Claimants, LoanType, U64
<1>6. QED
  BY <1>3, <1>4, <1>5

\* What is due to the loans of one set is no more than what is due to those of another
\* if each is due nothing, or was due as much before.
LEMMA DueFalls ==
  ASSUME NEW L, NEW M, NEW o, NEW S, IsFiniteSet(S), NEW R, IsFiniteSet(R),
         \A n \in S : L[o][n].reward_due \in Nat,
         \A n \in R : /\ M[o][n].reward_due \in Nat
                      /\ \/ M[o][n].reward_due = 0
                         \/ n \in S /\ M[o][n].reward_due <= L[o][n].reward_due
  PROVE  DueTo(L, o, S) \in Nat /\ DueTo(M, o, R) \in Nat
         /\ DueTo(M, o, R) <= DueTo(L, o, S)
<1> DEFINE f == [n \in S |-> L[o][n].reward_due]
           g == [n \in R |-> M[o][n].reward_due]
<1>1. /\ \A n \in S : f[n] = L[o][n].reward_due
      /\ \A n \in R : g[n] = M[o][n].reward_due
  OBVIOUS
<1>2. DueTo(L, o, S) = SumFunctionOnSet(f, S) /\ DueTo(M, o, R) = SumFunctionOnSet(g, R)
  BY DEF DueTo
<1> HIDE DEF f, g
<1>3. /\ \A n \in S : f[n] \in Nat
      /\ \A n \in R : /\ g[n] \in Nat
                      /\ g[n] = 0 \/ (n \in S /\ g[n] <= f[n])
  BY <1>1
<1>4. QED
  BY <1>2, <1>3, SumFalls

\* The same for what was planned for them.
LEMMA DueWithin ==
  ASSUME NEW f, NEW S, IsFiniteSet(S), \A n \in S : f[n] \in Nat,
         NEW M, NEW o, NEW R, IsFiniteSet(R),
         \A n \in R : /\ M[o][n].reward_due \in Nat
                      /\ \/ M[o][n].reward_due = 0
                         \/ n \in S /\ M[o][n].reward_due <= f[n]
  PROVE  SumFunctionOnSet(f, S) \in Nat /\ DueTo(M, o, R) \in Nat
         /\ DueTo(M, o, R) <= SumFunctionOnSet(f, S)
<1> DEFINE g == [n \in R |-> M[o][n].reward_due]
<1>1. \A n \in R : g[n] = M[o][n].reward_due
  OBVIOUS
<1>2. DueTo(M, o, R) = SumFunctionOnSet(g, R)
  BY DEF DueTo
<1> HIDE DEF g
<1>3. \A n \in R : /\ g[n] \in Nat
                   /\ g[n] = 0 \/ (n \in S /\ g[n] <= f[n])
  BY <1>1
<1>4. QED
  BY <1>2, <1>3, SumFalls

\* The loans repaid from a token and the sum the property is stated with.
LEMMA ClaimantsOf ==
  ASSUME NEW o \in Operators, NEW m
  PROVE  /\ Claimants(loans, o, m) = OpenLoansOn(o, m)
         /\ InGoodStanding(loans, o, m)
              = {k \in OpenLoansOn(o, m) : loans[o][k].manual_repayment = NoReason}
         /\ DueTo(loans, o, InGoodStanding(loans, o, m))
              = SumFunctionOnSet([n \in {k \in OpenLoansOn(o, m) :
                                           loans[o][k].manual_repayment = NoReason}
                                    |-> loans[o][n].reward_due],
                                 {k \in OpenLoansOn(o, m) :
                                    loans[o][k].manual_repayment = NoReason})
<1>1. Claimants(loans, o, m) = OpenLoansOn(o, m)
  BY DEF Claimants, OpenLoansOn, OpenLoans, Counts
<1>2. InGoodStanding(loans, o, m)
        = {k \in OpenLoansOn(o, m) : loans[o][k].manual_repayment = NoReason}
  BY <1>1 DEF InGoodStanding
<1> DEFINE S == {k \in OpenLoansOn(o, m) : loans[o][k].manual_repayment = NoReason}
<1>3. InGoodStanding(loans, o, m) = S
  BY <1>2
<1> HIDE DEF S
<1>4. DueTo(loans, o, InGoodStanding(loans, o, m))
        = SumFunctionOnSet([n \in S |-> loans[o][n].reward_due], S)
  BY <1>3 DEF DueTo
<1>5. QED
  BY <1>1, <1>2, <1>4 DEF S
\* Loans that claim what they claimed, or nothing, are due no more together.
LEMMA DueKept ==
  ASSUME NEW L \in Tables, FiniteBooks(L), NEW M \in Tables, FiniteBooks(M),
         NEW o \in Operators, NEW m,
         \A k \in Claimants(M, o, m) :
           \/ M[o][k].reward_due = 0
           \/ Counts(L[o][k]) /\ SameClaim(M[o][k], L[o][k])
  PROVE  /\ DueTo(L, o, InGoodStanding(L, o, m)) \in Nat
         /\ DueTo(M, o, InGoodStanding(M, o, m)) \in Nat
         /\ DueTo(M, o, InGoodStanding(M, o, m)) <= DueTo(L, o, InGoodStanding(L, o, m))
<1> DEFINE S == InGoodStanding(L, o, m)
           R == InGoodStanding(M, o, m)
<1>1. IsFiniteSet(S) /\ IsFiniteSet(R)
  BY ClaimantsAre
<1>2. \A n \in S : L[o][n].reward_due \in Nat
  BY ClaimantsAre DEF InGoodStanding
<1>3. ASSUME NEW n \in R
      PROVE  /\ M[o][n].reward_due \in Nat
             /\ \/ M[o][n].reward_due = 0
                \/ n \in S /\ M[o][n].reward_due <= L[o][n].reward_due
  <2>1. n \in Claimants(M, o, m) /\ n \in Nonces
    BY DEF InGoodStanding, Claimants
  <2>2. M[o][n].reward_due \in Nat
    BY <2>1, ClaimantsAre
  <2>3. CASE M[o][n].reward_due = 0
    BY <2>2, <2>3
  <2>4. CASE Counts(L[o][n]) /\ SameClaim(M[o][n], L[o][n])
    <3>1. n \in S
      BY <2>1, <2>4 DEF InGoodStanding, Claimants, SameClaim
    <3>2. L[o][n].reward_due = M[o][n].reward_due
      BY <2>4 DEF SameClaim
    <3>3. QED
      BY <2>2, <3>1, <3>2
  <2>5. QED
    BY <2>1, <2>3, <2>4
<1> HIDE DEF S, R
<1>4. DueTo(L, o, S) \in Nat /\ DueTo(M, o, R) \in Nat
      /\ DueTo(M, o, R) <= DueTo(L, o, S)
  BY <1>1, <1>2, <1>3, DueFalls
<1>5. QED
  BY <1>4 DEF S, R

\* The loans before and after a step.
LEMMA BooksTables ==
  ASSUME BooksInv
  PROVE  loans \in Tables /\ FiniteBooks(loans)
         /\ watches \in [Operators -> [RewardMints -> WatchType]]
         /\ \A o \in Operators, m \in RewardMints :
              watches[o][m].balance \in Nat /\ rewards[o][m].balance \in Nat
<1>1. loans \in Tables /\ FiniteBooks(loans)
      /\ watches \in [Operators -> [RewardMints -> WatchType]]
      /\ rewards \in [Operators -> [RewardMints -> RewardAccountType]]
  BY DEF BooksInv, Inv, TypeOK, LoanBooks, Tables
<1>2. \A o \in Operators, m \in RewardMints :
        watches[o][m].balance \in Nat /\ rewards[o][m].balance \in Nat
  BY <1>1, ArithmeticAssumption DEF WatchType, RewardAccountType, U64
<1>3. QED
  BY <1>1, <1>2

\* What is known of the tables in every state, and so in the next one.
TableFacts ==
  /\ loans \in Tables /\ FiniteBooks(loans)
  /\ watches \in [Operators -> [RewardMints -> WatchType]]
  /\ \A o \in Operators, m \in RewardMints :
       watches[o][m].balance \in Nat /\ rewards[o][m].balance \in Nat

\* They hold of the books now,
LEMMA TablesThen == BooksInv => TableFacts
BY BooksTables DEF TableFacts

\* and of the books after a step.
LEMMA TablesThenNext == BooksInv' => TableFacts'
BY TablesThen, PTL

\* A step that leaves the watches of an operator's token alone keeps what is due from it
\* within the watch if it leaves the claims alone.
LEMMA DueStays ==
  ASSUME BooksInv, BooksInv', DueBooks, NEW o \in Operators, NEW m \in RewardMints,
         watches'[o][m].balance = watches[o][m].balance,
         \A k \in Claimants(loans', o, m) :
           \/ loans'[o][k].reward_due = 0
           \/ Counts(loans[o][k]) /\ SameClaim(loans'[o][k], loans[o][k])
  PROVE  DueTo(loans', o, InGoodStanding(loans', o, m)) <= watches'[o][m].balance
<1> DEFINE before == DueTo(loans, o, InGoodStanding(loans, o, m))
           after == DueTo(loans', o, InGoodStanding(loans', o, m))
<1>1. /\ loans \in Tables /\ FiniteBooks(loans) /\ loans' \in Tables /\ FiniteBooks(loans')
      /\ watches[o][m].balance \in Nat
  BY TablesThen, TablesThenNext DEF TableFacts
<1>2. before \in Nat /\ after \in Nat /\ after <= before
  BY <1>1, DueKept
<1>3. before <= watches[o][m].balance
  BY DEF DueBooks
<1>4. QED
  BY <1>1, <1>2, <1>3
\* A repayment.
LEMMA DueRepaid ==
  ASSUME BooksInv, BooksInv', DueBooks, NEW o \in Operators, NEW n \in Nonces,
         NEW amount, Repay(o, n, amount)
  PROVE  DueBooks'
<1>1. /\ UNCHANGED <<rewards, watches>>
      /\ \A p \in Operators, k \in Nonces :
           Counts(loans'[p][k]) => Counts(loans[p][k]) /\ SameClaim(loans'[p][k], loans[p][k])
  BY RepayKeeps
<1>2. ASSUME NEW p \in Operators, NEW k \in Nonces, Counts(loans'[p][k])
      PROVE  watches'[p][loans'[p][k].reward_mint].started
  BY <1>1, <1>2 DEF DueBooks, SameClaim
<1>3. ASSUME NEW p \in Operators, NEW m \in RewardMints
      PROVE  DueTo(loans', p, InGoodStanding(loans', p, m)) <= watches'[p][m].balance
  <2>1. \A k \in Claimants(loans', p, m) :
          Counts(loans[p][k]) /\ SameClaim(loans'[p][k], loans[p][k])
    BY <1>1 DEF Claimants
  <2>2. QED
    BY <1>1, <2>1, DueStays
<1>4. QED
  BY <1>2, <1>3 DEF DueBooks

\* A borrow.  It starts the watch of a token anew only when no loan is due any of it.
LEMMA DueBorrowed ==
  ASSUME BooksInv, BooksInv', DueBooks, NEW o \in Operators, NEW m \in RewardMints,
         NEW amount \in Loans,
         NEW term \in 1..MAX_TERM_PERIODS, NEW share \in SweepShares,
         NEW apr \in MaxAprs, NEW limit \in LimitAttestations,
         NEW rate \in RateAttestations,
         Borrow(o, m, amount, term, share, apr, limit, rate)
  PROVE  DueBooks'
<1>1. /\ \A p \in Operators, k \in Nonces :
           Counts(loans'[p][k]) =>
             \/ /\ p = o /\ loans'[p][k].reward_mint = m
                /\ loans'[p][k].reward_due = 0
                /\ loans'[p][k].manual_repayment = NoReason
             \/ Counts(loans[p][k]) /\ SameClaim(loans'[p][k], loans[p][k])
      /\ \A p \in Operators, q \in RewardMints :
           p # o \/ q # m => watches'[p][q] = watches[p][q]
      /\ watches'[o][m].started
      /\ \/ watches'[o][m] = watches[o][m]
         \/ /\ watches'[o][m].balance = rewards[o][m].balance
            /\ watches[o][m].started => OpenLoansOn(o, m) = {}
  BY BorrowKeeps
<1>2. ASSUME NEW p \in Operators, NEW k \in Nonces, Counts(loans'[p][k])
      PROVE  watches'[p][loans'[p][k].reward_mint].started
  <2>1. CASE p = o /\ loans'[p][k].reward_mint = m
    BY <1>1, <2>1
  <2>2. CASE ~(p = o /\ loans'[p][k].reward_mint = m)
    <3> DEFINE q == loans'[p][k].reward_mint
    <3>1. Counts(loans[p][k]) /\ q = loans[p][k].reward_mint
      BY <1>1, <1>2, <2>2 DEF SameClaim
    <3>2. q \in RewardMints
      <4>1. loans[p][k] \in LoanType
        BY <3>1, TablesThen, ClaimantsAre DEF TableFacts
      <4>2. QED
        BY <3>1, <4>1 DEF LoanType
    <3>3. watches[p][q].started
      BY <3>1 DEF DueBooks
    <3> HIDE DEF q
    <3>4. watches'[p][q] = watches[p][q]
      BY <1>1, <2>2, <3>2 DEF q
    <3>5. QED
      BY <3>3, <3>4 DEF q
  <2>3. QED
    BY <2>1, <2>2
<1>3. ASSUME NEW p \in Operators, NEW q \in RewardMints
      PROVE  DueTo(loans', p, InGoodStanding(loans', p, q)) <= watches'[p][q].balance
  <2>1. \A k \in Claimants(loans', p, q) :
          \/ loans'[p][k].reward_due = 0
          \/ Counts(loans[p][k]) /\ SameClaim(loans'[p][k], loans[p][k])
    BY <1>1 DEF Claimants
  <2>2. CASE watches'[p][q] = watches[p][q]
    BY <2>1, <2>2, DueStays
  <2>3. CASE watches'[p][q] # watches[p][q]
    <3>1. p = o /\ q = m
      BY <1>1, <2>3
    <3>2. /\ watches'[o][m].balance = rewards[o][m].balance
          /\ watches[o][m].started => OpenLoansOn(o, m) = {}
      BY <1>1, <2>3, <3>1
    <3>3. \A k \in Nonces : ~(Counts(loans[o][k]) /\ loans[o][k].reward_mint = m)
      BY <3>2 DEF DueBooks, OpenLoansOn, OpenLoans, Counts
    <3> DEFINE R == InGoodStanding(loans', o, m)
               due == [n \in R |-> loans'[o][n].reward_due]
    <3>4. \A k \in R : loans'[o][k].reward_due = 0
      BY <1>1, <3>3 DEF InGoodStanding, Claimants, SameClaim
    <3>5. IsFiniteSet(R)
      BY TablesThenNext, ClaimantsAre DEF TableFacts
    <3>6. \A k \in R : due[k] = 0
      BY <3>4
    <3>7. DueTo(loans', o, R) = SumFunctionOnSet(due, R)
      BY DEF DueTo
    <3> HIDE DEF R, due
    <3>8. DueTo(loans', o, R) = 0
      BY <3>5, <3>6, <3>7, SumOfZeros
    <3>9. rewards[o][m].balance \in Nat
      BY TablesThen DEF TableFacts
    <3>10. QED
      BY <3>1, <3>2, <3>8, <3>9 DEF R
  <2>4. QED
    BY <2>2, <2>3
<1>4. QED
  BY <1>2, <1>3 DEF DueBooks

\* A sweep, whatever it does, leaves the loans repaid from other tokens and the watches
\* of those as they were.
LEMMA DueSwept ==
  ASSUME BooksInv, BooksInv', DueBooks, NEW o \in Operators, NEW m \in RewardMints,
         \A p \in Operators, q \in RewardMints :
           /\ watches'[p][q].started = watches[p][q].started
           /\ p # o \/ q # m => watches'[p][q].balance = watches[p][q].balance,
         \A p \in Operators, k \in Nonces :
           p # o \/ k \notin OpenLoansOn(o, m) => loans'[p][k] = loans[p][k],
         \A k \in OpenLoansOn(o, m) : loans'[o][k].reward_mint = loans[o][k].reward_mint,
         DueTo(loans', o, InGoodStanding(loans', o, m)) <= watches'[o][m].balance
  PROVE  DueBooks'
<1> DEFINE S == OpenLoansOn(o, m)
<1>1. \A k \in Nonces : k \in S <=> Counts(loans[o][k]) /\ loans[o][k].reward_mint = m
  BY DEF OpenLoansOn, OpenLoans, Counts
<1> HIDE DEF S
<1>2. ASSUME NEW p \in Operators, NEW k \in Nonces, Counts(loans'[p][k])
      PROVE  Counts(loans[p][k]) /\ loans'[p][k].reward_mint = loans[p][k].reward_mint
  BY <1>1, <1>2 DEF S
<1>3. ASSUME NEW p \in Operators, NEW k \in Nonces, Counts(loans'[p][k])
      PROVE  watches'[p][loans'[p][k].reward_mint].started
  <2>1. Counts(loans[p][k]) /\ loans'[p][k].reward_mint = loans[p][k].reward_mint
    BY <1>2, <1>3
  <2>2. watches[p][loans[p][k].reward_mint].started
    BY <2>1 DEF DueBooks
  <2>3. loans[p][k] \in LoanType
    BY <2>1, TablesThen, ClaimantsAre DEF TableFacts
  <2>4. loans[p][k].reward_mint \in RewardMints
    BY <2>3 DEF LoanType
  <2>5. QED
    BY <2>1, <2>2, <2>4
<1>4. ASSUME NEW p \in Operators, NEW q \in RewardMints, p # o \/ q # m
      PROVE  DueTo(loans', p, InGoodStanding(loans', p, q)) <= watches'[p][q].balance
  <2>1. ASSUME NEW k \in Claimants(loans', p, q)
        PROVE  Counts(loans[p][k]) /\ SameClaim(loans'[p][k], loans[p][k])
    <3>1. k \in Nonces /\ Counts(loans'[p][k]) /\ loans'[p][k].reward_mint = q
      BY DEF Claimants
    <3>2. Counts(loans[p][k]) /\ loans[p][k].reward_mint = q
      BY <1>2, <3>1
    <3>3. p # o \/ k \notin S
      BY <1>1, <1>4, <3>1, <3>2
    <3>4. QED
      BY <3>1, <3>2, <3>3 DEF SameClaim, S
  <2>2. watches'[p][q].balance = watches[p][q].balance
    BY <1>4
  <2>3. QED
    BY <2>1, <2>2, DueStays
<1>5. QED
  BY <1>3, <1>4 DEF DueBooks

\* A sweep that converts nothing: what it leaves due to a loan in good standing is no
\* more than it would have taken for it.
LEMMA DueSkipped ==
  ASSUME BooksInv, BooksInv', DueBooks, NEW o \in Operators, NEW m \in RewardMints,
         NEW rate \in RateAttestations, Sweep(o, m, rate),
         SweepWithoutConverting(o, m, rate.stable_per_trillion_reward,
                                SweepPlan(o, m, rate.stable_per_trillion_reward))
  PROVE  DueBooks'
<1> DEFINE r == rate.stable_per_trillion_reward
           plan == SweepPlan(o, m, r)
           S == OpenLoansOn(o, m)
           take == [n \in S |-> plan[n].take]
<1> TypeOK /\ LoanBooks
  BY DEF BooksInv, Inv
<1>1. /\ rewards' = rewards
      /\ \A p \in Operators, q \in RewardMints :
           /\ watches'[p][q].started = watches[p][q].started
           /\ watches'[p][q].balance = IF p = o /\ q = m THEN rewards[o][m].balance
                                       ELSE watches[p][q].balance
      /\ \A p \in Operators, k \in Nonces : p # o \/ k \notin S => loans'[p][k] = loans[p][k]
  BY SkipKeeps
<1>2. \A k \in S :
        /\ Counts(loans[o][k]) /\ Counts(loans'[o][k])
        /\ loans'[o][k].reward_mint = loans[o][k].reward_mint
        /\ loans'[o][k].reward_due \in Nat
        /\ loans'[o][k].manual_repayment = NoReason =>
             loans'[o][k].reward_due <= plan[k].take
  BY SkipKeeps
<1>3. /\ IsFiniteSet(S)
      /\ \A k \in Nonces : k \in S <=> Counts(loans[o][k]) /\ loans[o][k].reward_mint = m
      /\ S \in SUBSET Nonces
  <2>1. IsFiniteSet(S)
    BY RepaidFromToken
  <2>2. QED
    BY <2>1 DEF OpenLoansOn, OpenLoans, Counts
<1>4. /\ \A n \in S : plan[n].take \in Nat
      /\ SumFunctionOnSet(take, S) <= Available(o, m)
  <2>1. /\ r \in Nat /\ r > 0
        /\ \A n \in S : Fits(Debt(o, n))
    BY PlanIsSound
  <2>2. QED
    BY <2>1, PlanIsCovered
<1>5. Available(o, m) <= rewards[o][m].balance /\ Available(o, m) \in Nat
      /\ rewards[o][m].balance \in Nat
  <2>1. rewards[o][m].balance \in Nat /\ Allowance(o, m) \in Nat
    BY ArithmeticAssumption DEF TypeOK, RewardAccountType, U64, Allowance
  <2>2. QED
    BY <2>1 DEF Available, Least
<1> HIDE DEF S, plan
<1>6. \A n \in S : take[n] = plan[n].take /\ take[n] \in Nat
  BY <1>4
<1> HIDE DEF take
<1>7. DueTo(loans', o, InGoodStanding(loans', o, m)) <= watches'[o][m].balance
  <2> DEFINE R == InGoodStanding(loans', o, m)
  <2>1. ASSUME NEW n \in R
        PROVE  /\ loans'[o][n].reward_due \in Nat
               /\ n \in S /\ loans'[o][n].reward_due <= take[n]
    <3>1. /\ n \in Nonces /\ Counts(loans'[o][n]) /\ loans'[o][n].reward_mint = m
          /\ loans'[o][n].manual_repayment = NoReason
      BY DEF InGoodStanding, Claimants
    <3>2. n \in S
      BY <1>1, <1>2, <1>3, <3>1
    <3>3. QED
      BY <1>2, <1>6, <3>1, <3>2
  <2>2. IsFiniteSet(R)
    BY TablesThenNext, ClaimantsAre DEF TableFacts
  <2> HIDE DEF R
  <2>3. \A n \in S : take[n] \in Nat
    BY <1>6
  <2>4. /\ SumFunctionOnSet(take, S) \in Nat /\ DueTo(loans', o, R) \in Nat
        /\ DueTo(loans', o, R) <= SumFunctionOnSet(take, S)
    BY <1>3, <2>1, <2>2, <2>3, DueWithin
  <2>5. QED
    BY <1>1, <1>4, <1>5, <2>4 DEF R
<1>8. QED
  BY <1>1, <1>2, <1>7, DueSwept DEF S

\* A sweep that converts: nothing is due to a loan it leaves in good standing.
LEMMA DueConverted ==
  ASSUME BooksInv, BooksInv', DueBooks, NEW o \in Operators, NEW m \in RewardMints,
         NEW rate \in RateAttestations, Sweep(o, m, rate),
         SweepConverting(o, m, rate.stable_per_trillion_reward,
                         SweepPlan(o, m, rate.stable_per_trillion_reward))
  PROVE  DueBooks'
<1> DEFINE plan == SweepPlan(o, m, rate.stable_per_trillion_reward)
           taken == TotalWithheld(plan)
           S == OpenLoansOn(o, m)
           R == InGoodStanding(loans', o, m)
           due == [n \in R |-> loans'[o][n].reward_due]
<1>1. /\ taken \in Nat /\ taken <= rewards[o][m].balance
      /\ \A p \in Operators, q \in RewardMints :
           /\ watches'[p][q].started = watches[p][q].started
           /\ watches'[p][q].balance = IF p = o /\ q = m
                                         THEN rewards[o][m].balance - taken
                                         ELSE watches[p][q].balance
      /\ \A p \in Operators, k \in Nonces : p # o \/ k \notin S => loans'[p][k] = loans[p][k]
      /\ \A k \in S :
           /\ loans'[o][k].reward_mint = loans[o][k].reward_mint
           /\ Counts(loans'[o][k]) =>
                /\ loans'[o][k].reward_due = plan[k].left
                /\ loans'[o][k].manual_repayment = NoReason => plan[k].left = 0
  BY ConvertKeeps
<1> HIDE DEF plan, taken
<1>2. \A k \in R : loans'[o][k].reward_due = 0
  <2>1. \A k \in Nonces : k \in S <=> Counts(loans[o][k]) /\ loans[o][k].reward_mint = m
    BY DEF OpenLoansOn, OpenLoans, Counts
  <2> HIDE DEF S
  <2>2. QED
    BY <1>1, <2>1 DEF InGoodStanding, Claimants
<1>3. IsFiniteSet(R)
  BY TablesThenNext, ClaimantsAre DEF TableFacts
<1>4. \A k \in R : due[k] = 0
  BY <1>2
<1>5. DueTo(loans', o, R) = SumFunctionOnSet(due, R)
  BY DEF DueTo
<1>6. DueTo(loans', o, R) = 0
  <2> HIDE DEF R, due
  <2>1. QED
    BY <1>3, <1>4, <1>5, SumOfZeros
<1>7. rewards[o][m].balance \in Nat
  BY TablesThen DEF TableFacts
<1>8. 0 <= watches'[o][m].balance
  BY <1>1, <1>7
<1>9. QED
  BY <1>1, <1>6, <1>8, DueSwept

\* The other steps leave the loans and the watches as they are.
LEMMA DueOthers ==
  ASSUME DueBooks, UNCHANGED <<loans, watches>>
  PROVE  DueBooks'
BY DEF DueBooks

\* Every step keeps what is due within the watches.
LEMMA NextDue == BooksInv /\ BooksInv' /\ DueBooks /\ [Next]_vars => DueBooks'
<1> SUFFICES ASSUME BooksInv, BooksInv', DueBooks, [Next]_vars PROVE DueBooks'
  OBVIOUS
<1>1. CASE BorrowStep
  BY <1>1, DueBorrowed DEF BorrowStep
<1>2. CASE RepayStep
  BY <1>2, DueRepaid DEF RepayStep
<1>3. CASE SweepStep
  BY <1>3, DueSkipped, DueConverted DEF SweepStep, Sweep
<1>4. CASE \/ LenderStep
           \/ RewardStep
           \/ \E m \in RewardMints, amount \in Fundings : FundConversion(m, amount)
           \/ \E attestor \in Keys : SetAttestor(attestor)
           \/ Tick
           \/ UNCHANGED vars
  <2>1. UNCHANGED <<loans, watches>>
    BY <1>4 DEF LenderStep, Deposit, Withdraw, RewardStep, ReceivePayout, MoveOut, Approve,
                Revoke, FundConversion, SetAttestor, Tick, vars
  <2>2. QED
    BY <2>1, DueOthers
<1>5. QED
  BY <1>1, <1>2, <1>3, <1>4 DEF Next

\* Nothing is due at the start.
LEMMA InitDue == Init => DueBooks
<1> SUFFICES ASSUME Init PROVE DueBooks
  OBVIOUS
<1>1. \A o \in Operators, n \in Nonces : ~Counts(loans[o][n])
  BY DEF Init, Counts
<1>2. ASSUME NEW o \in Operators, NEW m \in RewardMints
      PROVE  DueTo(loans, o, InGoodStanding(loans, o, m)) <= watches[o][m].balance
  <2>1. InGoodStanding(loans, o, m) = {}
    BY <1>1 DEF InGoodStanding, Claimants
  <2>2. DueTo(loans, o, {}) = 0
    BY SumEmpty DEF DueTo
  <2>3. watches[o][m].balance = 0
    BY DEF Init
  <2>4. QED
    BY <2>1, <2>2, <2>3
<1>3. QED
  BY <1>1, <1>2 DEF DueBooks

\* The books of what is due bound the sum the property is stated with.
LEMMA DueIsWithin == DueBooks => DueIsHeld
<1> SUFFICES ASSUME DueBooks, NEW o \in Operators, NEW m \in RewardMints
             PROVE  SumFunctionOnSet([n \in {k \in OpenLoansOn(o, m) :
                                               loans[o][k].manual_repayment = NoReason}
                                        |-> loans[o][n].reward_due],
                                     {k \in OpenLoansOn(o, m) :
                                        loans[o][k].manual_repayment = NoReason})
                      <= watches[o][m].balance
  BY DEF DueIsHeld, SumFunction
<1>1. DueTo(loans, o, InGoodStanding(loans, o, m)) <= watches[o][m].balance
  BY DEF DueBooks
<1>2. QED
  BY <1>1, ClaimantsOf

\* What loans in good standing still have due is at most what the last sweep saw on the
\* account, for every number of operators, tokens and loans and whatever the operators
\* do with their tokens.
THEOREM DueIsWithinWatch == Spec => []DueIsHeld
<1>1. BooksInv /\ DueBooks /\ [Next]_vars => BooksInv' /\ DueBooks'
  BY NextBooks, NextDue
<1>2. Init => BooksInv /\ DueBooks
  BY InitBooks, InitDue
<1>3. QED
  BY <1>1, <1>2, DueIsWithin, PTL DEF Spec
-----------------------------------------------------------------------------
(***************************************************************************)
(* What a sweep takes and pays.                                            *)
(***************************************************************************)

\* A conversion within the tolerance pays at least that part of the attested value.
LEMMA ToleranceMeans ==
  ASSUME NEW amount \in Nat, NEW r \in Nat, NEW received \in Nat, amount > 0, r > 0,
         WithinTolerance(amount, r, received)
  PROVE  received * RATE_UNIT * BPS >= amount * r * (BPS - MAX_SLIPPAGE_BPS)
<1> DEFINE worth == amount * r
           paid  == received * RATE_UNIT
           slip  == MAX_SLIPPAGE_BPS
           kept  == BPS - slip
<1>1. BPS \in Nat \ {0} /\ slip \in Nat /\ slip < BPS /\ kept \in Nat /\ BPS = kept + slip
  BY ConversionAssumption, ArithmeticAssumption
<1>2. worth \in Nat /\ paid \in Nat
  <2>1. RATE_UNIT \in Nat
    BY ConversionAssumption
  <2>2. QED
    BY <2>1, Multiply
<1>3. worth > 0
  <2>1. 1 \in Nat /\ 1 <= amount /\ 1 * r = r
    OBVIOUS
  <2>2. 1 * r <= amount * r
    BY <2>1, Multiply
  <2>3. QED
    BY <1>2, <2>1, <2>2
<1>4. DeviationBps(amount, r, received)
        = IF paid >= worth THEN 0 ELSE DivCeil((worth - paid) * BPS, worth)
  BY DEF DeviationBps
<1>5. DeviationBps(amount, r, received) <= slip
  BY DEF WithinTolerance
<1> HIDE DEF worth, paid, slip, kept
<1>6. worth * BPS = worth * kept + worth * slip /\ worth * BPS \in Nat
      /\ worth * kept \in Nat /\ worth * slip \in Nat
  <2>1. (kept + slip) * worth = kept * worth + slip * worth
    BY <1>1, <1>2, Multiply
  <2>2. /\ BPS * worth = worth * BPS /\ kept * worth = worth * kept
        /\ slip * worth = worth * slip /\ worth * BPS \in Nat
        /\ worth * kept \in Nat /\ worth * slip \in Nat
    BY <1>1, <1>2, Multiply
  <2>3. QED
    BY <1>1, <2>1, <2>2
<1>7. paid * BPS >= worth * kept
  <2>1. CASE paid >= worth
    <3>1. worth * BPS <= paid * BPS /\ paid * BPS \in Nat
      BY <1>1, <1>2, <2>1, Multiply
    <3>2. QED
      BY <1>6, <3>1
  <2>2. CASE ~(paid >= worth)
    <3> DEFINE short == worth - paid
               d == DivCeil(short * BPS, worth)
    <3>1. short \in Nat /\ worth = short + paid
      BY <1>2, <2>2
    <3>2. d <= slip
      BY <1>4, <1>5, <2>2
    <3> HIDE DEF short
    <3>3. short * BPS \in Nat /\ paid * BPS \in Nat
          /\ worth * BPS = short * BPS + paid * BPS
      BY <1>1, <1>2, <3>1, Multiply
    <3>4. d \in Nat /\ d * worth \in Nat /\ short * BPS <= d * worth
      BY <1>2, <1>3, <3>3, RoundedUp
    <3> HIDE DEF d
    <3>5. d * worth <= slip * worth /\ slip * worth = worth * slip
      BY <1>1, <1>2, <3>2, <3>4, Multiply
    <3>6. QED
      BY <1>6, <3>3, <3>4, <3>5
  <2>3. QED
    BY <2>1, <2>2
<1>8. QED
  BY <1>7 DEF worth, paid, slip, kept

\* What a sweep takes is no more than pays off the loans repaid from the token.
LEMMA TakenIsNeeded ==
  ASSUME TypeOK, LoanBooks, NEW o \in Operators, NEW m \in RewardMints,
         NEW rate \in RateAttestations, Sweep(o, m, rate)
  PROVE  LET r == rate.stable_per_trillion_reward
         IN  TotalWithheld(SweepPlan(o, m, r))
               <= SumFunctionOnSet([n \in OpenLoansOn(o, m) |-> TokensFor(Debt(o, n), r)],
                                   OpenLoansOn(o, m))
<1> DEFINE r == rate.stable_per_trillion_reward
           plan == SweepPlan(o, m, r)
           S == OpenLoansOn(o, m)
           R == PaidLoans(plan)
           needed == [n \in S |-> TokensFor(Debt(o, n), r)]
           withheld == [n \in R |-> plan[n].withheld]
<1>1. /\ r \in Nat /\ r > 0 /\ DOMAIN plan = S
      /\ \A n \in S : SoundPart(plan[n]) /\ Fits(Debt(o, n))
  BY PlanIsSound
<1>2. \A n \in S : plan[n].owed <= TokensFor(Debt(o, n), r)
  BY <1>1, PlanIsCovered
<1>3. \A n \in S : TokensFor(Debt(o, n), r) \in Nat
  <2>1. \A n \in S : Debt(o, n) \in Nat
    BY <1>1, ArithmeticAssumption DEF Fits, U64
  <2> HIDE DEF r
  <2>2. QED
    BY <1>1, <2>1, TokensType
<1>4. IsFiniteSet(S)
  BY RepaidFromToken
<1>5. R \in SUBSET S
  BY <1>1 DEF PaidLoans
<1>6. IsFiniteSet(R)
  BY <1>4, <1>5, FS_Subset
<1>7. /\ TotalWithheld(plan) = SumFunctionOnSet(withheld, R)
      /\ \A n \in R : withheld[n] = plan[n].withheld
      /\ \A n \in S : needed[n] = TokensFor(Debt(o, n), r)
  BY DEF TotalWithheld, SumFunction
<1> HIDE DEF r, plan, S, R, needed, withheld
<1>8. \A n \in S : needed[n] \in Nat
  BY <1>3, <1>7
<1>9. ASSUME NEW n \in R
      PROVE  withheld[n] \in Nat /\ n \in S /\ withheld[n] <= needed[n]
  <2>1. n \in S
    BY <1>5
  <2>2. /\ plan[n].owed \in Nat /\ plan[n].take \in Nat /\ plan[n].take <= plan[n].owed
        /\ plan[n].withheld = IF plan[n].pays = 0 THEN 0 ELSE plan[n].take
    BY <1>1, <2>1, ArithmeticAssumption DEF SoundPart, PartType, U64
  <2>3. plan[n].withheld \in Nat /\ plan[n].withheld <= plan[n].owed
    BY <2>2
  <2>4. plan[n].owed <= needed[n] /\ needed[n] \in Nat
    BY <1>2, <1>7, <1>8, <2>1
  <2>5. QED
    BY <1>7, <2>1, <2>2, <2>3, <2>4
<1>10. SumFunctionOnSet(withheld, R) <= SumFunctionOnSet(needed, S)
  BY <1>4, <1>6, <1>8, <1>9, SumFalls
<1>11. QED
  BY <1>7, <1>10 DEF r, plan, S, R, needed, withheld

\* A sweep that takes tokens and pays the vault converted them.
LEMMA FairSweep ==
  ASSUME BooksInv, NEW o \in Operators, NEW m \in RewardMints,
         NEW rate \in RateAttestations,
         rewards[o][m].balance - rewards'[o][m].balance > 0, Sweep(o, m, rate)
  PROVE  LET r     == rate.stable_per_trillion_reward
             taken == rewards[o][m].balance - rewards'[o][m].balance
         IN  /\ (vault' - vault) * RATE_UNIT * BPS >= taken * r * (BPS - MAX_SLIPPAGE_BPS)
             /\ taken <= SumFunctionOnSet([n \in OpenLoansOn(o, m) |->
                                             TokensFor(Debt(o, n), r)],
                                          OpenLoansOn(o, m))
<1> DEFINE r    == rate.stable_per_trillion_reward
           plan == SweepPlan(o, m, r)
           taken == TotalWithheld(plan)
           paid == TotalPaid(plan)
<1> TypeOK /\ LoanBooks
  BY DEF BooksInv, Inv
<1>1. r \in Nat /\ r > 0
  BY PlanIsSound
<1>2. rewards[o][m].balance \in Nat /\ vault \in Nat
  BY TablesThen, ArithmeticAssumption DEF TableFacts, TypeOK, U64
<1>3. SweepConverting(o, m, r, plan)
  <2>1. SweepWithoutConverting(o, m, r, plan) \/ SweepConverting(o, m, r, plan)
    BY DEF Sweep
  <2>2. ASSUME SweepWithoutConverting(o, m, r, plan) PROVE FALSE
    <3>1. rewards' = rewards
      BY <2>2 DEF SweepWithoutConverting
    <3>2. QED
      BY <1>2, <3>1
  <2>3. QED
    BY <2>1, <2>2
<1>4. taken \in Nat /\ paid \in Nat
  <2>1. Fits(taken) /\ Fits(paid)
    BY DEF Sweep, PlanFits
  <2>2. QED
    BY <2>1, ArithmeticAssumption DEF Fits, U64
<1>5. taken > 0 /\ WithinTolerance(taken, r, paid) /\ vault' = vault + paid
  BY <1>3 DEF SweepConverting
<1>6. rewards'[o][m].balance = rewards[o][m].balance - taken
  BY <1>3, ConvertKeeps
<1>7. taken <= SumFunctionOnSet([n \in OpenLoansOn(o, m) |-> TokensFor(Debt(o, n), r)],
                                OpenLoansOn(o, m))
  BY TakenIsNeeded
<1> HIDE DEF taken, paid, r
<1>8. rewards[o][m].balance - rewards'[o][m].balance = taken /\ vault' - vault = paid
  BY <1>2, <1>4, <1>5, <1>6
<1>9. paid * RATE_UNIT * BPS >= taken * r * (BPS - MAX_SLIPPAGE_BPS)
  BY <1>1, <1>4, <1>5, ToleranceMeans
<1>10. QED
  BY <1>7, <1>8, <1>9 DEF r

\* Every sweep credits what it takes at the attested rate but for the tolerance, and
\* takes no more than pays off what it repays.
THEOREM SweepsAreFair == Spec => SweepIsFair
<1> DEFINE Fair ==
      \A o \in Operators, m \in RewardMints, rate \in RateAttestations :
        LET r     == rate.stable_per_trillion_reward
            taken == rewards[o][m].balance - rewards'[o][m].balance
        IN  (taken > 0 /\ vault' > vault /\ Sweep(o, m, rate)) =>
              /\ (vault' - vault) * RATE_UNIT * BPS
                   >= taken * r * (BPS - MAX_SLIPPAGE_BPS)
              /\ taken <= SumFunction([n \in OpenLoansOn(o, m) |->
                                         TokensFor(Debt(o, n), r)])
<1>1. BooksInv => Fair
  <2> SUFFICES ASSUME BooksInv, NEW o \in Operators, NEW m \in RewardMints,
                      NEW rate \in RateAttestations,
                      rewards[o][m].balance - rewards'[o][m].balance > 0,
                      Sweep(o, m, rate)
               PROVE  LET r     == rate.stable_per_trillion_reward
                          taken == rewards[o][m].balance - rewards'[o][m].balance
                      IN  /\ (vault' - vault) * RATE_UNIT * BPS
                               >= taken * r * (BPS - MAX_SLIPPAGE_BPS)
                          /\ taken <= SumFunctionOnSet(
                                        [n \in OpenLoansOn(o, m) |->
                                           TokensFor(Debt(o, n), r)],
                                        OpenLoansOn(o, m))
    BY DEF SumFunction
  <2>1. QED
    BY FairSweep
<1>2. BooksInv /\ [Next]_vars => [Fair]_vars
  BY <1>1
<1>3. QED
  BY <1>2, BooksInvariance, PTL DEF Spec, SweepIsFair
-----------------------------------------------------------------------------
(***************************************************************************)
(* The cause a sweep gives.                                                *)
(***************************************************************************)

\* Operators who neither spend reward tokens nor revoke the delegation.
Untouched == MoveOuts = {} /\ Revokers = {}

\* What such operators keep true: every token due to an open loan, in good standing or
\* not, is on the watch, what was watched is still there, and an account without the
\* delegation is one whose allowance a sweep used up, which flagged every loan it left
\* open.
HonestBooks ==
  /\ \A o \in Operators, n \in Nonces :
       Counts(loans[o][n]) => loans[o][n].manual_repayment \in {NoReason, "AllowanceShort"}
  /\ \A o \in Operators, m \in RewardMints :
       /\ DueTo(loans, o, Claimants(loans, o, m)) <= watches[o][m].balance
       /\ watches[o][m].balance <= rewards[o][m].balance
       /\ ~rewards[o][m].ours =>
            \A n \in Claimants(loans, o, m) : loans[o][n].manual_repayment # NoReason

\* Loans that claim what they claimed, or nothing, are due no more together.
LEMMA ClaimsKept ==
  ASSUME NEW L \in Tables, FiniteBooks(L), NEW M \in Tables, FiniteBooks(M),
         NEW o \in Operators, NEW m,
         \A k \in Claimants(M, o, m) :
           \/ M[o][k].reward_due = 0
           \/ Counts(L[o][k]) /\ SameClaim(M[o][k], L[o][k])
  PROVE  /\ DueTo(L, o, Claimants(L, o, m)) \in Nat
         /\ DueTo(M, o, Claimants(M, o, m)) \in Nat
         /\ DueTo(M, o, Claimants(M, o, m)) <= DueTo(L, o, Claimants(L, o, m))
<1> DEFINE S == Claimants(L, o, m)
           R == Claimants(M, o, m)
<1>1. IsFiniteSet(S) /\ IsFiniteSet(R)
  BY ClaimantsAre
<1>2. \A n \in S : L[o][n].reward_due \in Nat
  BY ClaimantsAre
<1>3. ASSUME NEW n \in R
      PROVE  /\ M[o][n].reward_due \in Nat
             /\ \/ M[o][n].reward_due = 0
                \/ n \in S /\ M[o][n].reward_due <= L[o][n].reward_due
  <2>1. M[o][n].reward_due \in Nat
    BY ClaimantsAre
  <2>2. CASE M[o][n].reward_due = 0
    BY <2>1, <2>2
  <2>3. CASE Counts(L[o][n]) /\ SameClaim(M[o][n], L[o][n])
    <3>1. n \in S
      BY <2>3 DEF Claimants, SameClaim
    <3>2. L[o][n].reward_due = M[o][n].reward_due
      BY <2>3 DEF SameClaim
    <3>3. QED
      BY <2>1, <3>1, <3>2
  <2>4. QED
    BY <2>2, <2>3
<1> HIDE DEF S, R
<1>4. DueTo(L, o, S) \in Nat /\ DueTo(M, o, R) \in Nat
      /\ DueTo(M, o, R) <= DueTo(L, o, S)
  BY <1>1, <1>2, <1>3, DueFalls
<1>5. QED
  BY <1>4 DEF S, R

\* A step that leaves the watch of an operator's token and takes nothing off the account
\* keeps the books honest if it leaves the claims alone.
LEMMA HonestStays ==
  ASSUME BooksInv, BooksInv', HonestBooks, NEW o \in Operators, NEW m \in RewardMints,
         watches'[o][m].balance = watches[o][m].balance,
         rewards'[o][m].balance >= rewards[o][m].balance,
         \A k \in Claimants(loans', o, m) :
           \/ loans'[o][k].reward_due = 0
           \/ Counts(loans[o][k]) /\ SameClaim(loans'[o][k], loans[o][k])
  PROVE  /\ DueTo(loans', o, Claimants(loans', o, m)) <= watches'[o][m].balance
         /\ watches'[o][m].balance <= rewards'[o][m].balance
<1> DEFINE before == DueTo(loans, o, Claimants(loans, o, m))
           after == DueTo(loans', o, Claimants(loans', o, m))
<1>1. /\ loans \in Tables /\ FiniteBooks(loans) /\ loans' \in Tables /\ FiniteBooks(loans')
      /\ watches[o][m].balance \in Nat /\ rewards[o][m].balance \in Nat
      /\ rewards'[o][m].balance \in Nat
  BY TablesThen, TablesThenNext DEF TableFacts
<1>2. before \in Nat /\ after \in Nat /\ after <= before
  BY <1>1, ClaimsKept
<1>3. before <= watches[o][m].balance /\ watches[o][m].balance <= rewards[o][m].balance
  BY DEF HonestBooks
<1>4. QED
  BY <1>1, <1>2, <1>3

\* A repayment.
LEMMA HonestRepaid ==
  ASSUME BooksInv, BooksInv', HonestBooks, NEW o \in Operators, NEW n \in Nonces,
         NEW amount, Repay(o, n, amount)
  PROVE  HonestBooks'
<1>1. /\ UNCHANGED <<rewards, watches>>
      /\ \A p \in Operators, k \in Nonces :
           Counts(loans'[p][k]) => Counts(loans[p][k]) /\ SameClaim(loans'[p][k], loans[p][k])
  BY RepayKeeps
<1>2. ASSUME NEW p \in Operators, NEW k \in Nonces, Counts(loans'[p][k])
      PROVE  loans'[p][k].manual_repayment \in {NoReason, "AllowanceShort"}
  BY <1>1, <1>2 DEF HonestBooks, SameClaim
<1>3. ASSUME NEW p \in Operators, NEW m \in RewardMints
      PROVE  /\ DueTo(loans', p, Claimants(loans', p, m)) <= watches'[p][m].balance
             /\ watches'[p][m].balance <= rewards'[p][m].balance
             /\ ~rewards'[p][m].ours =>
                  \A k \in Claimants(loans', p, m) :
                    loans'[p][k].manual_repayment # NoReason
  <2>1. \A k \in Claimants(loans', p, m) :
          Counts(loans[p][k]) /\ SameClaim(loans'[p][k], loans[p][k])
    BY <1>1 DEF Claimants
  <2>2. /\ DueTo(loans', p, Claimants(loans', p, m)) <= watches'[p][m].balance
        /\ watches'[p][m].balance <= rewards'[p][m].balance
    <3>1. rewards[p][m].balance \in Nat
      BY TablesThen DEF TableFacts
    <3>2. rewards'[p][m].balance >= rewards[p][m].balance
      BY <1>1, <3>1
    <3>3. QED
      BY <1>1, <2>1, <3>2, HonestStays
  <2>3. \A k \in Claimants(loans', p, m) :
          k \in Claimants(loans, p, m)
          /\ loans'[p][k].manual_repayment = loans[p][k].manual_repayment
    BY <2>1 DEF Claimants, SameClaim
  <2>4. QED
    BY <1>1, <2>2, <2>3 DEF HonestBooks
<1>4. QED
  BY <1>2, <1>3 DEF HonestBooks

\* A borrow takes the delegation anew, and starts the watch of a token anew, from its
\* whole balance, only when no loan is due any of it.
LEMMA HonestBorrowed ==
  ASSUME BooksInv, BooksInv', DueBooks, HonestBooks, NEW o \in Operators,
         NEW m \in RewardMints, NEW amount \in Loans,
         NEW term \in 1..MAX_TERM_PERIODS, NEW share \in SweepShares,
         NEW apr \in MaxAprs, NEW limit \in LimitAttestations,
         NEW rate \in RateAttestations,
         Borrow(o, m, amount, term, share, apr, limit, rate)
  PROVE  HonestBooks'
<1>1. /\ \A p \in Operators, k \in Nonces :
           Counts(loans'[p][k]) =>
             \/ /\ p = o /\ loans'[p][k].reward_mint = m
                /\ loans'[p][k].reward_due = 0
                /\ loans'[p][k].manual_repayment = NoReason
             \/ Counts(loans[p][k]) /\ SameClaim(loans'[p][k], loans[p][k])
      /\ \A p \in Operators, q \in RewardMints :
           p # o \/ q # m => watches'[p][q] = watches[p][q]
                             /\ rewards'[p][q] = rewards[p][q]
      /\ rewards'[o][m].balance = rewards[o][m].balance /\ rewards'[o][m].ours
      /\ \/ watches'[o][m] = watches[o][m]
         \/ /\ watches'[o][m].balance = rewards[o][m].balance
            /\ watches[o][m].started => OpenLoansOn(o, m) = {}
  BY BorrowKeeps
<1>2. ASSUME NEW p \in Operators, NEW k \in Nonces, Counts(loans'[p][k])
      PROVE  loans'[p][k].manual_repayment \in {NoReason, "AllowanceShort"}
  BY <1>1, <1>2 DEF HonestBooks, SameClaim
<1>3. ASSUME NEW p \in Operators, NEW q \in RewardMints
      PROVE  /\ DueTo(loans', p, Claimants(loans', p, q)) <= watches'[p][q].balance
             /\ watches'[p][q].balance <= rewards'[p][q].balance
  <2>1. \A k \in Claimants(loans', p, q) :
          \/ loans'[p][k].reward_due = 0
          \/ Counts(loans[p][k]) /\ SameClaim(loans'[p][k], loans[p][k])
    BY <1>1 DEF Claimants
  <2>2. rewards[p][q].balance \in Nat /\ rewards'[p][q].balance = rewards[p][q].balance
    <3>1. rewards[p][q].balance \in Nat
      BY TablesThen DEF TableFacts
    <3>2. QED
      BY <1>1, <3>1
  <2>3. CASE watches'[p][q] = watches[p][q]
    <3>1. rewards'[p][q].balance >= rewards[p][q].balance
      BY <2>2
    <3>2. QED
      BY <2>1, <2>3, <3>1, HonestStays
  <2>4. CASE watches'[p][q] # watches[p][q]
    <3>1. p = o /\ q = m
      BY <1>1, <2>4
    <3>2. /\ watches'[o][m].balance = rewards[o][m].balance
          /\ watches[o][m].started => OpenLoansOn(o, m) = {}
      BY <1>1, <2>4, <3>1
    <3>3. \A k \in Nonces : ~(Counts(loans[o][k]) /\ loans[o][k].reward_mint = m)
      BY <3>2 DEF DueBooks, OpenLoansOn, OpenLoans, Counts
    <3> DEFINE R == Claimants(loans', o, m)
               due == [n \in R |-> loans'[o][n].reward_due]
    <3>4. \A k \in R : loans'[o][k].reward_due = 0
      BY <1>1, <3>3 DEF Claimants, SameClaim
    <3>5. IsFiniteSet(R)
      BY TablesThenNext, ClaimantsAre DEF TableFacts
    <3>6. \A k \in R : due[k] = 0
      BY <3>4
    <3>7. DueTo(loans', o, R) = SumFunctionOnSet(due, R)
      BY DEF DueTo
    <3> HIDE DEF R, due
    <3>8. DueTo(loans', o, R) = 0
      BY <3>5, <3>6, <3>7, SumOfZeros
    <3>9. QED
      BY <2>2, <3>1, <3>2, <3>8 DEF R
  <2>5. QED
    BY <2>3, <2>4
<1>4. ASSUME NEW p \in Operators, NEW q \in RewardMints, ~rewards'[p][q].ours,
             NEW k \in Claimants(loans', p, q)
      PROVE  loans'[p][k].manual_repayment # NoReason
  <2>1. ~(p = o /\ q = m) /\ ~rewards[p][q].ours
    BY <1>1, <1>4
  <2>2. k \in Nonces /\ Counts(loans'[p][k]) /\ loans'[p][k].reward_mint = q
    BY DEF Claimants
  <2>3. Counts(loans[p][k]) /\ SameClaim(loans'[p][k], loans[p][k])
    BY <1>1, <2>1, <2>2
  <2>4. k \in Claimants(loans, p, q)
    BY <2>2, <2>3 DEF Claimants, SameClaim
  <2>5. QED
    BY <2>1, <2>3, <2>4 DEF HonestBooks, SameClaim
<1>5. QED
  BY <1>2, <1>3, <1>4 DEF HonestBooks
\* A sweep of an honest operator owes its loans no more than the account holds, so that
\* only the allowance can leave one short.
LEMMA HonestPlan ==
  ASSUME BooksInv, HonestBooks, NEW o \in Operators, NEW m \in RewardMints,
         NEW rate \in RateAttestations, Sweep(o, m, rate)
  PROVE  LET plan == SweepPlan(o, m, rate.stable_per_trillion_reward)
             S    == OpenLoansOn(o, m)
         IN  /\ SumFunctionOnSet([n \in S |-> plan[n].owed], S) <= rewards[o][m].balance
             /\ \A n \in S :
                  LET was  == loans[o][n].manual_repayment
                      flag == IF plan[n].take < plan[n].owed /\ was = NoReason
                                THEN Shortfall(o, m) ELSE was
                  IN  /\ flag \in {NoReason, "AllowanceShort"}
                      /\ ~rewards[o][m].ours => flag # NoReason
<1> DEFINE r == rate.stable_per_trillion_reward
           plan == SweepPlan(o, m, r)
           S == OpenLoansOn(o, m)
           balance == rewards[o][m].balance
           owed == SumFunctionOnSet([n \in S |-> plan[n].owed], S)
           due == SumFunctionOnSet([n \in S |-> loans[o][n].reward_due], S)
           flag(n) == IF plan[n].take < plan[n].owed
                         /\ loans[o][n].manual_repayment = NoReason
                        THEN Shortfall(o, m) ELSE loans[o][n].manual_repayment
<1> TypeOK /\ LoanBooks
  BY DEF BooksInv, Inv
<1>1. /\ owed <= Payout(o, m) + due
      /\ owed <= Available(o, m) => \A n \in S : plan[n].take = plan[n].owed
      /\ \A n \in S : plan[n].owed \in Nat /\ plan[n].take \in Nat
  <2>1. /\ r \in Nat /\ r > 0
        /\ \A n \in S : Fits(Debt(o, n))
    BY PlanIsSound
  <2>2. QED
    BY <2>1, PlanIsCovered
<1>2. Claimants(loans, o, m) = S
  BY ClaimantsOf
<1>3. due \in Nat /\ owed \in Nat
  <2> DEFINE f == [n \in S |-> plan[n].owed]
             g == [n \in S |-> loans[o][n].reward_due]
  <2>1. IsFiniteSet(S) /\ \A n \in S : loans[o][n].reward_due \in Nat
    BY <1>2, TablesThen, ClaimantsAre DEF TableFacts
  <2>2. /\ \A n \in S : f[n] = plan[n].owed
        /\ \A n \in S : g[n] = loans[o][n].reward_due
    OBVIOUS
  <2> HIDE DEF f, g, plan, S
  <2>3. \A n \in S : f[n] \in Nat
    BY <1>1, <2>2
  <2>4. \A n \in S : g[n] \in Nat
    BY <2>1, <2>2
  <2>5. SumFunctionOnSet(f, S) \in Nat
    BY <2>1, <2>3, SumOfNaturals
  <2>6. SumFunctionOnSet(g, S) \in Nat
    BY <2>1, <2>4, SumOfNaturals
  <2>7. QED
    BY <2>5, <2>6 DEF f, g, plan, S
<1>4. due <= watches[o][m].balance /\ watches[o][m].balance <= balance
  <2>1. DueTo(loans, o, Claimants(loans, o, m)) <= watches[o][m].balance
        /\ watches[o][m].balance <= balance
    BY DEF HonestBooks
  <2>2. DueTo(loans, o, S) = due
    BY DEF DueTo
  <2>3. QED
    BY <1>2, <2>1, <2>2
<1>5. balance \in Nat /\ watches[o][m].balance \in Nat
  BY TablesThen DEF TableFacts
<1>6. Payout(o, m) = balance - watches[o][m].balance
  BY <1>4, <1>5 DEF Payout, SaturatingSub
<1> HIDE DEF owed, due, plan, S
<1>7. owed <= balance
  BY <1>1, <1>3, <1>4, <1>5, <1>6
<1>8. ASSUME NEW n \in S
      PROVE  /\ flag(n) \in {NoReason, "AllowanceShort"}
             /\ ~rewards[o][m].ours => flag(n) # NoReason
  <2> DEFINE was == loans[o][n].manual_repayment
  <2>1. /\ was \in {NoReason, "AllowanceShort"}
        /\ ~rewards[o][m].ours => was # NoReason
    <3>1. n \in Claimants(loans, o, m)
      BY <1>2
    <3>2. n \in Nonces /\ Counts(loans[o][n])
      BY <3>1 DEF Claimants
    <3>3. QED
      BY <3>1, <3>2 DEF HonestBooks
  <2>2. CASE plan[n].take < plan[n].owed /\ was = NoReason
    <3>1. flag(n) = Shortfall(o, m) /\ rewards[o][m].ours
      BY <2>1, <2>2
    <3>2. ~(owed <= Available(o, m))
      BY <1>1, <2>2
    <3>3. Allowance(o, m) \in Nat
      BY ArithmeticAssumption DEF TypeOK, RewardAccountType, U64, Allowance
    <3>4. Allowance(o, m) < balance
      BY <1>3, <1>5, <1>7, <3>2, <3>3 DEF Available, Least
    <3>5. Shortfall(o, m) = "AllowanceShort"
      BY <3>1, <3>4 DEF Shortfall
    <3>6. "AllowanceShort" # NoReason
      BY DEF NoReason
    <3>7. QED
      BY <3>1, <3>5, <3>6
  <2>3. CASE ~(plan[n].take < plan[n].owed /\ was = NoReason)
    BY <2>1, <2>3
  <2>4. QED
    BY <2>2, <2>3
<1>9. QED
  BY <1>7, <1>8 DEF owed, plan, S

\* A sweep leaves the other tokens as they were.
LEMMA HonestSwept ==
  ASSUME BooksInv, BooksInv', HonestBooks, NEW o \in Operators, NEW m \in RewardMints,
         \A p \in Operators, q \in RewardMints :
           p # o \/ q # m => /\ watches'[p][q].balance = watches[p][q].balance
                             /\ rewards'[p][q].balance = rewards[p][q].balance
                             /\ rewards'[p][q].ours = rewards[p][q].ours,
         \A p \in Operators, k \in Nonces :
           p # o \/ k \notin OpenLoansOn(o, m) => loans'[p][k] = loans[p][k],
         \A k \in OpenLoansOn(o, m) :
           /\ loans'[o][k].reward_mint = loans[o][k].reward_mint
           /\ Counts(loans'[o][k]) =>
                /\ loans'[o][k].manual_repayment \in {NoReason, "AllowanceShort"}
                /\ ~rewards'[o][m].ours => loans'[o][k].manual_repayment # NoReason,
         DueTo(loans', o, Claimants(loans', o, m)) <= watches'[o][m].balance,
         watches'[o][m].balance <= rewards'[o][m].balance
  PROVE  HonestBooks'
<1> DEFINE S == OpenLoansOn(o, m)
<1>1. \A k \in Nonces : k \in S <=> Counts(loans[o][k]) /\ loans[o][k].reward_mint = m
  BY DEF OpenLoansOn, OpenLoans, Counts
<1> HIDE DEF S
<1>2. ASSUME NEW p \in Operators, NEW k \in Nonces, Counts(loans'[p][k])
      PROVE  Counts(loans[p][k]) /\ loans'[p][k].reward_mint = loans[p][k].reward_mint
  BY <1>1, <1>2 DEF S
<1>3. ASSUME NEW p \in Operators, NEW k \in Nonces, Counts(loans'[p][k])
      PROVE  loans'[p][k].manual_repayment \in {NoReason, "AllowanceShort"}
  <2>1. CASE p = o /\ k \in S
    BY <1>3, <2>1 DEF S
  <2>2. CASE ~(p = o /\ k \in S)
    BY <1>3, <2>2 DEF HonestBooks, S
  <2>3. QED
    BY <2>1, <2>2
<1>4. ASSUME NEW p \in Operators, NEW q \in RewardMints, p # o \/ q # m
      PROVE  /\ DueTo(loans', p, Claimants(loans', p, q)) <= watches'[p][q].balance
             /\ watches'[p][q].balance <= rewards'[p][q].balance
             /\ ~rewards'[p][q].ours =>
                  \A k \in Claimants(loans', p, q) :
                    loans'[p][k].manual_repayment # NoReason
  <2>1. ASSUME NEW k \in Claimants(loans', p, q)
        PROVE  /\ Counts(loans[p][k]) /\ SameClaim(loans'[p][k], loans[p][k])
               /\ k \in Claimants(loans, p, q)
    <3>1. k \in Nonces /\ Counts(loans'[p][k]) /\ loans'[p][k].reward_mint = q
      BY DEF Claimants
    <3>2. Counts(loans[p][k]) /\ loans[p][k].reward_mint = q
      BY <1>2, <3>1
    <3>3. p # o \/ k \notin S
      BY <1>1, <1>4, <3>1, <3>2
    <3>4. QED
      BY <3>1, <3>2, <3>3 DEF SameClaim, S, Claimants
  <2>2. /\ DueTo(loans', p, Claimants(loans', p, q)) <= watches'[p][q].balance
        /\ watches'[p][q].balance <= rewards'[p][q].balance
    <3>1. rewards[p][q].balance \in Nat
      BY TablesThen DEF TableFacts
    <3>2. rewards'[p][q].balance >= rewards[p][q].balance
      BY <1>4, <3>1
    <3>3. QED
      BY <1>4, <2>1, <3>2, HonestStays
  <2>3. QED
    BY <1>4, <2>1, <2>2 DEF HonestBooks, SameClaim
<1>5. ASSUME NEW k \in Claimants(loans', o, m), ~rewards'[o][m].ours
      PROVE  loans'[o][k].manual_repayment # NoReason
  <2>1. k \in Nonces /\ Counts(loans'[o][k]) /\ loans'[o][k].reward_mint = m
    BY DEF Claimants
  <2>2. k \in S
    BY <1>1, <1>2, <2>1
  <2>3. QED
    BY <1>5, <2>1, <2>2 DEF S
<1>6. QED
  BY <1>3, <1>4, <1>5 DEF HonestBooks

\* A sweep that converts nothing.
LEMMA HonestSkipped ==
  ASSUME BooksInv, BooksInv', HonestBooks, NEW o \in Operators, NEW m \in RewardMints,
         NEW rate \in RateAttestations, Sweep(o, m, rate),
         SweepWithoutConverting(o, m, rate.stable_per_trillion_reward,
                                SweepPlan(o, m, rate.stable_per_trillion_reward))
  PROVE  HonestBooks'
<1> DEFINE r == rate.stable_per_trillion_reward
           plan == SweepPlan(o, m, r)
           S == OpenLoansOn(o, m)
           R == Claimants(loans', o, m)
           owed == [n \in S |-> plan[n].owed]
<1> TypeOK /\ LoanBooks
  BY DEF BooksInv, Inv
<1>1. /\ rewards' = rewards
      /\ \A p \in Operators, q \in RewardMints :
           watches'[p][q].balance = IF p = o /\ q = m THEN rewards[o][m].balance
                                    ELSE watches[p][q].balance
      /\ \A p \in Operators, k \in Nonces : p # o \/ k \notin S => loans'[p][k] = loans[p][k]
  BY SkipKeeps
<1>2. \A k \in S :
        /\ Counts(loans[o][k]) /\ Counts(loans'[o][k])
        /\ loans'[o][k].reward_mint = loans[o][k].reward_mint
        /\ loans'[o][k].reward_due \in Nat
        /\ loans'[o][k].reward_due <= plan[k].owed
        /\ loans'[o][k].manual_repayment =
             IF plan[k].take < plan[k].owed /\ loans[o][k].manual_repayment = NoReason
               THEN Shortfall(o, m) ELSE loans[o][k].manual_repayment
  BY SkipKeeps
<1>3. /\ SumFunctionOnSet(owed, S) <= rewards[o][m].balance
      /\ \A n \in S :
           LET was  == loans[o][n].manual_repayment
               flag == IF plan[n].take < plan[n].owed /\ was = NoReason
                         THEN Shortfall(o, m) ELSE was
           IN  /\ flag \in {NoReason, "AllowanceShort"}
               /\ ~rewards[o][m].ours => flag # NoReason
  BY HonestPlan
<1>4. \A n \in S : plan[n].owed \in Nat
  <2>1. /\ r \in Nat /\ r > 0
        /\ \A n \in S : Fits(Debt(o, n))
    BY PlanIsSound
  <2>2. QED
    BY <2>1, PlanIsCovered
<1>5. \A k \in Nonces : k \in S <=> Counts(loans[o][k]) /\ loans[o][k].reward_mint = m
  BY DEF OpenLoansOn, OpenLoans, Counts
<1>6. IsFiniteSet(S) /\ IsFiniteSet(R)
  BY RepaidFromToken, TablesThenNext, ClaimantsAre DEF TableFacts
<1> HIDE DEF S, plan
<1>7. \A n \in S : owed[n] = plan[n].owed /\ owed[n] \in Nat
  BY <1>4
<1>8. ASSUME NEW n \in R
      PROVE  loans'[o][n].reward_due \in Nat
             /\ n \in S /\ loans'[o][n].reward_due <= owed[n]
  <2>1. n \in Nonces /\ Counts(loans'[o][n]) /\ loans'[o][n].reward_mint = m
    BY DEF Claimants
  <2>2. n \in S
    BY <1>1, <1>5, <2>1
  <2>3. QED
    BY <1>2, <1>7, <2>2
<1> HIDE DEF owed, R
<1>9. /\ SumFunctionOnSet(owed, S) \in Nat /\ DueTo(loans', o, R) \in Nat
      /\ DueTo(loans', o, R) <= SumFunctionOnSet(owed, S)
  <2>1. \A n \in S : owed[n] \in Nat
    BY <1>7
  <2>2. QED
    BY <1>6, <1>8, <2>1, DueWithin
<1>10. rewards[o][m].balance \in Nat
  BY TablesThen DEF TableFacts
<1>11. /\ DueTo(loans', o, R) <= watches'[o][m].balance
       /\ watches'[o][m].balance <= rewards'[o][m].balance
  BY <1>1, <1>3, <1>9, <1>10
<1>12. \A k \in S :
         /\ loans'[o][k].reward_mint = loans[o][k].reward_mint
         /\ loans'[o][k].manual_repayment \in {NoReason, "AllowanceShort"}
         /\ ~rewards'[o][m].ours => loans'[o][k].manual_repayment # NoReason
  BY <1>1, <1>2, <1>3
<1>13. QED
  BY <1>1, <1>11, <1>12, HonestSwept DEF S, R

\* A sweep that converts: what it leaves due it did not take.
LEMMA HonestConverted ==
  ASSUME BooksInv, BooksInv', HonestBooks, NEW o \in Operators, NEW m \in RewardMints,
         NEW rate \in RateAttestations, Sweep(o, m, rate),
         SweepConverting(o, m, rate.stable_per_trillion_reward,
                         SweepPlan(o, m, rate.stable_per_trillion_reward))
  PROVE  HonestBooks'
<1> DEFINE r == rate.stable_per_trillion_reward
           plan == SweepPlan(o, m, r)
           taken == TotalWithheld(plan)
           S == OpenLoansOn(o, m)
           R == Claimants(loans', o, m)
           P == PaidLoans(plan)
           owed == [n \in S |-> plan[n].owed]
           take == [n \in S |-> plan[n].take]
           left == [n \in S |-> plan[n].left]
           withheld == [n \in P |-> plan[n].withheld]
<1> TypeOK /\ LoanBooks
  BY DEF BooksInv, Inv
<1>1. /\ taken \in Nat /\ taken <= rewards[o][m].balance /\ taken <= Allowance(o, m)
      /\ \A p \in Operators, q \in RewardMints :
           /\ rewards'[p][q].balance = IF p = o /\ q = m
                                         THEN rewards[o][m].balance - taken
                                         ELSE rewards[p][q].balance
           /\ rewards'[p][q].ours = IF p = o /\ q = m THEN taken < Allowance(o, m)
                                      ELSE rewards[p][q].ours
           /\ watches'[p][q].balance = IF p = o /\ q = m
                                         THEN rewards[o][m].balance - taken
                                         ELSE watches[p][q].balance
      /\ \A p \in Operators, k \in Nonces : p # o \/ k \notin S => loans'[p][k] = loans[p][k]
  BY ConvertKeeps
<1>2. \A k \in S :
        /\ loans'[o][k].reward_mint = loans[o][k].reward_mint
        /\ Counts(loans'[o][k]) =>
             /\ loans'[o][k].reward_due = plan[k].left
             /\ taken = Allowance(o, m) => loans'[o][k].manual_repayment # NoReason
             /\ \/ loans'[o][k].manual_repayment \in {NoReason, "AllowanceShort"}
                \/ loans'[o][k].manual_repayment =
                     IF plan[k].take < plan[k].owed
                        /\ loans[o][k].manual_repayment = NoReason
                       THEN Shortfall(o, m) ELSE loans[o][k].manual_repayment
  BY ConvertKeeps
<1>3. /\ SumFunctionOnSet(owed, S) <= rewards[o][m].balance
      /\ \A n \in S :
           LET was  == loans[o][n].manual_repayment
               flag == IF plan[n].take < plan[n].owed /\ was = NoReason
                         THEN Shortfall(o, m) ELSE was
           IN  /\ flag \in {NoReason, "AllowanceShort"}
               /\ ~rewards[o][m].ours => flag # NoReason
  BY HonestPlan
<1>4. DOMAIN plan = S /\ \A n \in S : SoundPart(plan[n])
  BY PlanIsSound
<1>5. P \in SUBSET S /\ taken = SumFunctionOnSet(withheld, P)
  BY <1>4 DEF PaidLoans, TotalWithheld, SumFunction
<1>6. IsFiniteSet(S) /\ IsFiniteSet(R)
  BY RepaidFromToken, TablesThenNext, ClaimantsAre DEF TableFacts
<1>7. IsFiniteSet(P)
  BY <1>5, <1>6, FS_Subset
<1>8. \A k \in Nonces : k \in S <=> Counts(loans[o][k]) /\ loans[o][k].reward_mint = m
  BY DEF OpenLoansOn, OpenLoans, Counts
<1>9. /\ \A n \in S : owed[n] = plan[n].owed /\ take[n] = plan[n].take
                      /\ left[n] = plan[n].left
      /\ \A n \in P : withheld[n] = plan[n].withheld
  OBVIOUS
<1>10. Allowance(o, m) \in Nat
  BY ArithmeticAssumption DEF TypeOK, RewardAccountType, U64, Allowance
<1> HIDE DEF S, plan, taken, P, owed, take, left, withheld
<1>11. \A n \in S :
         /\ owed[n] \in Nat /\ take[n] \in Nat /\ left[n] \in Nat
         /\ left[n] = owed[n] - take[n]
         /\ plan[n].withheld \in Nat /\ plan[n].withheld <= take[n]
  BY <1>4, <1>9, ArithmeticAssumption DEF SoundPart, PartType, U64
<1>12. taken <= SumFunctionOnSet(take, S)
  <2>1. \A n \in P : /\ withheld[n] \in Nat
                     /\ n \in S /\ withheld[n] <= take[n]
    BY <1>5, <1>9, <1>11
  <2>2. \A n \in S : take[n] \in Nat
    BY <1>11
  <2>3. SumFunctionOnSet(withheld, P) <= SumFunctionOnSet(take, S)
    BY <1>6, <1>7, <2>1, <2>2, SumFalls
  <2>4. QED
    BY <1>5, <2>3
<1>13. /\ SumFunctionOnSet(owed, S) \in Int /\ SumFunctionOnSet(take, S) \in Int
       /\ SumFunctionOnSet(left, S) = SumFunctionOnSet(owed, S) - SumFunctionOnSet(take, S)
  <2>1. \A n \in S : owed[n] \in Int /\ take[n] \in Int /\ left[n] = owed[n] - take[n]
    BY <1>11
  <2>2. QED
    BY <1>6, <2>1, SumMinus
<1>14. ASSUME NEW n \in R
       PROVE  loans'[o][n].reward_due \in Nat
              /\ n \in S /\ loans'[o][n].reward_due <= left[n]
  <2>1. n \in Nonces /\ Counts(loans'[o][n]) /\ loans'[o][n].reward_mint = m
    BY DEF Claimants
  <2>2. n \in S
    BY <1>1, <1>8, <2>1
  <2>3. loans'[o][n].reward_due = left[n] /\ left[n] \in Nat
    BY <1>2, <1>9, <1>11, <2>1, <2>2
  <2>4. QED
    BY <2>2, <2>3
<1> HIDE DEF R
<1>15. DueTo(loans', o, R) \in Nat /\ DueTo(loans', o, R) <= SumFunctionOnSet(left, S)
       /\ SumFunctionOnSet(left, S) \in Nat
  <2>1. \A n \in S : left[n] \in Nat
    BY <1>11
  <2>2. QED
    BY <1>6, <1>14, <2>1, DueWithin
<1>16. rewards[o][m].balance \in Nat
  BY TablesThen DEF TableFacts
<1>17. /\ DueTo(loans', o, R) <= watches'[o][m].balance
       /\ watches'[o][m].balance <= rewards'[o][m].balance
  BY <1>1, <1>3, <1>12, <1>13, <1>15, <1>16
<1>18. ASSUME NEW k \in S, Counts(loans'[o][k])
       PROVE  /\ loans'[o][k].manual_repayment \in {NoReason, "AllowanceShort"}
              /\ ~rewards'[o][m].ours => loans'[o][k].manual_repayment # NoReason
  <2>1. rewards'[o][m].ours = (taken < Allowance(o, m))
    BY <1>1
  <2>2. taken < Allowance(o, m) => rewards'[o][m].ours
    BY <2>1
  <2>3. ~rewards'[o][m].ours => taken = Allowance(o, m)
    BY <1>1, <1>10, <2>2
  <2>4. QED
    BY <1>2, <1>3, <1>18, <2>3
<1>19. QED
  BY <1>1, <1>2, <1>17, <1>18, HonestSwept DEF S, R
\* The other steps of honest operators: payouts and approvals.
LEMMA HonestOthers ==
  ASSUME BooksInv, BooksInv', HonestBooks, Untouched,
         \/ LenderStep
         \/ RewardStep
         \/ \E m \in RewardMints, amount \in Fundings : FundConversion(m, amount)
         \/ \E attestor \in Keys : SetAttestor(attestor)
         \/ Tick
         \/ UNCHANGED vars
  PROVE  HonestBooks'
<1>1. CASE ~RewardStep
  <2>1. UNCHANGED <<loans, watches, rewards>>
    BY <1>1 DEF LenderStep, Deposit, Withdraw, FundConversion, SetAttestor, Tick, vars
  <2>2. QED
    BY <2>1 DEF HonestBooks
<1>2. CASE RewardStep
  <2>1. PICK o \in Operators, m \in RewardMints :
          \/ \E amount \in Payouts : ReceivePayout(o, m, amount)
          \/ \E amount \in Allowances : Approve(o, m, amount)
    BY <1>2 DEF RewardStep, Untouched
  <2>2. rewards \in [Operators -> [RewardMints -> RewardAccountType]]
    BY DEF BooksInv, Inv, TypeOK
  <2>3. \A amount \in Payouts : amount \in Nat
    BY RewardFloatAssumption, ArithmeticAssumption DEF U64
  <2>4. ASSUME NEW p \in Operators, NEW q \in RewardMints
        PROVE  /\ rewards'[p][q].balance >= rewards[p][q].balance
               /\ rewards[p][q].ours => rewards'[p][q].ours
    <3>1. rewards[p][q] \in RewardAccountType /\ rewards[p][q].balance \in Nat
      BY <2>2, ArithmeticAssumption DEF RewardAccountType, U64
    <3>2. ASSUME NEW amount \in Payouts, ReceivePayout(o, m, amount)
          PROVE  /\ rewards'[p][q].balance >= rewards[p][q].balance
                 /\ rewards[p][q].ours => rewards'[p][q].ours
      BY <2>2, <2>3, <3>1, <3>2 DEF ReceivePayout, RewardAccountType
    <3>3. ASSUME NEW amount \in Allowances, Approve(o, m, amount)
          PROVE  /\ rewards'[p][q].balance >= rewards[p][q].balance
                 /\ rewards[p][q].ours => rewards'[p][q].ours
      <4>1. rewards' = [rewards EXCEPT ![o] = [rewards[o] EXCEPT
                          ![m] = [[rewards[o][m] EXCEPT !.ours = TRUE]
                                    EXCEPT !.allowance = amount]]]
        BY <2>2, <3>3 DEF Approve
      <4>2. rewards'[p][q] = IF p = o /\ q = m
                               THEN [[rewards[o][m] EXCEPT !.ours = TRUE]
                                       EXCEPT !.allowance = amount]
                               ELSE rewards[p][q]
        BY <2>2, <4>1
      <4>3. rewards[o][m] \in RewardAccountType
        BY <2>2
      <4>4. QED
        BY <3>1, <4>2, <4>3 DEF RewardAccountType
    <3>4. QED
      BY <2>1, <3>2, <3>3
  <2>5. UNCHANGED <<loans, watches>>
    BY <2>1 DEF ReceivePayout, Approve
  <2>6. ASSUME NEW p \in Operators, NEW q \in RewardMints
        PROVE  watches[p][q].balance <= rewards'[p][q].balance
    <3>1. /\ watches[p][q].balance \in Nat /\ rewards[p][q].balance \in Nat
          /\ rewards'[p][q].balance \in Nat
      BY TablesThen, TablesThenNext DEF TableFacts
    <3>2. watches[p][q].balance <= rewards[p][q].balance
      BY DEF HonestBooks
    <3>3. QED
      BY <2>4, <3>1, <3>2
  <2>7. QED
    BY <2>4, <2>5, <2>6 DEF HonestBooks
<1>3. QED
  BY <1>1, <1>2

\* Every step of honest operators keeps the books honest.
LEMMA NextHonest ==
  BooksInv /\ BooksInv' /\ DueBooks /\ HonestBooks /\ Untouched /\ [Next]_vars
    => HonestBooks'
<1> SUFFICES ASSUME BooksInv, BooksInv', DueBooks, HonestBooks, Untouched, [Next]_vars
             PROVE  HonestBooks'
  OBVIOUS
<1>1. CASE BorrowStep
  BY <1>1, HonestBorrowed DEF BorrowStep
<1>2. CASE RepayStep
  BY <1>2, HonestRepaid DEF RepayStep
<1>3. CASE SweepStep
  BY <1>3, HonestSkipped, HonestConverted DEF SweepStep, Sweep
<1>4. CASE \/ LenderStep
           \/ RewardStep
           \/ \E m \in RewardMints, amount \in Fundings : FundConversion(m, amount)
           \/ \E attestor \in Keys : SetAttestor(attestor)
           \/ Tick
           \/ UNCHANGED vars
  BY <1>4, HonestOthers
<1>5. QED
  BY <1>1, <1>2, <1>3, <1>4 DEF Next

\* The books are honest at the start.
LEMMA InitHonest == Init => HonestBooks
<1> SUFFICES ASSUME Init PROVE HonestBooks
  OBVIOUS
<1>1. \A o \in Operators, n \in Nonces : ~Counts(loans[o][n])
  BY DEF Init, Counts
<1>2. ASSUME NEW o \in Operators, NEW m \in RewardMints
      PROVE  /\ Claimants(loans, o, m) = {}
             /\ DueTo(loans, o, Claimants(loans, o, m)) <= watches[o][m].balance
             /\ watches[o][m].balance <= rewards[o][m].balance
  <2>1. Claimants(loans, o, m) = {}
    BY <1>1 DEF Claimants
  <2>2. DueTo(loans, o, {}) = 0
    BY SumEmpty DEF DueTo
  <2>3. watches[o][m].balance = 0 /\ rewards[o][m].balance = 0
    BY DEF Init
  <2>4. QED
    BY <2>1, <2>2, <2>3
<1>3. QED
  BY <1>1, <1>2 DEF HonestBooks

\* No loan of operators who leave their tokens and the delegation alone is ever flagged
\* as revoked or withdrawn early, for any number of operators, tokens, loans and
\* payouts, and whatever allowances they approve besides.
THEOREM NobodyIsFalselyBlamed ==
  ASSUME Untouched
  PROVE  Spec => []NeverFalselyBlamed
<1>1. BooksInv /\ DueBooks /\ HonestBooks /\ [Next]_vars
        => BooksInv' /\ DueBooks' /\ HonestBooks'
  BY NextBooks, NextDue, NextHonest
<1>2. Init => BooksInv /\ DueBooks /\ HonestBooks
  BY InitBooks, InitDue, InitHonest
<1>3. HonestBooks => NeverFalselyBlamed
  BY OpenLoansAre DEF HonestBooks, NeverFalselyBlamed, OpenLoans, Counts
<1>4. QED
  BY <1>1, <1>2, <1>3, PTL DEF Spec
-----------------------------------------------------------------------------
(***************************************************************************)
(* A sweep that is skipped.                                                *)
(***************************************************************************)

\* An open loan owes something at any second.
LEMMA DebtIsPositive ==
  ASSUME BooksInv, NEW o \in Operators, NEW n \in Nonces, Counts(loans[o][n])
  PROVE  Debt(o, n) \in Nat /\ Debt(o, n) > 0
<1> DEFINE loan == loans[o][n]
<1>1. /\ loan \in LoanType /\ IsOpen(loan) /\ now \in Nat
  BY DEF BooksInv, Inv, TypeOK, Counts
<1>2. Sound(loan)
  BY AllSound DEF BooksInv, Inv, Counts
<1>3. Debt(o, n) = TotalOwed(Accrue(loan, now))
  BY DEF Debt
<1> HIDE DEF loan
<1>4. TotalOwed(Accrue(loan, now)) = TotalOwed(loan) + InterestTo(loan, now)
      /\ InterestTo(loan, now) \in Nat
  BY <1>1, AccrueFacts, InterestType
<1>5. loan.outstanding \in Nat /\ loan.outstanding > 0 /\ loan.accrued_interest \in Nat
  BY <1>1, <1>2, ArithmeticAssumption DEF LoanType, U64, Sound
<1>6. QED
  BY <1>3, <1>4, <1>5 DEF TotalOwed

\* A sweep that leaves the reward accounts as they were converted nothing.
LEMMA NothingConverted ==
  ASSUME BooksInv, NEW o \in Operators, NEW m \in RewardMints,
         NEW rate \in RateAttestations, rewards' = rewards, Sweep(o, m, rate)
  PROVE  SweepWithoutConverting(o, m, rate.stable_per_trillion_reward,
                                SweepPlan(o, m, rate.stable_per_trillion_reward))
<1> DEFINE r    == rate.stable_per_trillion_reward
           plan == SweepPlan(o, m, r)
           taken == TotalWithheld(plan)
<1>1. SweepWithoutConverting(o, m, r, plan) \/ SweepConverting(o, m, r, plan)
  BY DEF Sweep
<1>2. ASSUME SweepConverting(o, m, r, plan) PROVE FALSE
  <2>1. taken > 0
    BY <1>2 DEF SweepConverting
  <2>2. taken \in Nat /\ rewards'[o][m].balance = rewards[o][m].balance - taken
    BY <1>2, ConvertKeeps
  <2>3. rewards[o][m].balance \in Nat
    BY TablesThen DEF TableFacts
  <2> HIDE DEF taken
  <2>4. QED
    BY <2>1, <2>2, <2>3
<1>3. QED
  BY <1>1, <1>2

\* After a skipped sweep the next one owes the loans it would have paid the same, and
\* has as much left for each of them.
LEMMA ClaimsKeptBySkip ==
  ASSUME BooksInv, NEW o \in Operators, NEW m \in RewardMints,
         NEW rate \in RateAttestations, rewards' = rewards, Sweep(o, m, rate)
  PROVE  LET r      == rate.stable_per_trillion_reward
             claims == Claims(o, m, r)
             later  == [i \in DOMAIN claims |->
                          [claims[i] EXCEPT
                             !.due = loans'[o][LoanInPlace(o, m, i)].reward_due]]
             parts  == Withholdings(Payout(o, m), Available(o, m), claims)
             next   == Withholdings(SaturatingSub(rewards'[o][m].balance,
                                                  watches'[o][m].balance),
                                    Available(o, m), later)
         IN  \A i \in DOMAIN claims :
               Quote(parts[i].take, r) > 0 =>
                 next[i].owed = parts[i].owed /\ next[i].take >= parts[i].take
<1> DEFINE r      == rate.stable_per_trillion_reward
           S      == OpenLoansOn(o, m)
           c      == Cardinality(S)
           plan   == SweepPlan(o, m, r)
           claims == Claims(o, m, r)
           later  == [i \in DOMAIN claims |->
                        [claims[i] EXCEPT
                           !.due = loans'[o][LoanInPlace(o, m, i)].reward_due]]
           payout == Payout(o, m)
           available == Available(o, m)
           parts  == Withholdings(payout, available, claims)
           next   == Withholdings(0, available, later)
           loan(i) == LoanInPlace(o, m, i)
<1> TypeOK /\ LoanBooks
  BY DEF BooksInv, Inv
<1>1. /\ watches'[o][m].balance = rewards[o][m].balance
      /\ \A k \in S : /\ loans'[o][k].reward_due \in Nat
                      /\ loans'[o][k].reward_due <= plan[k].owed
                      /\ plan[k].pays # 0 => loans'[o][k].reward_due = plan[k].owed
  BY NothingConverted, SkipKeeps
<1>2. /\ r \in Nat /\ r > 0
      /\ \A n \in S : Fits(Debt(o, n))
  BY PlanIsSound
<1>3. /\ Len(claims) = c /\ DOMAIN claims = 1..c
      /\ \A i \in 1..c : claims[i] \in ClaimType
  BY <1>2, ClaimsOfLoans
<1>4. c \in Nat /\ payout \in Nat /\ available \in Nat
  <2>1. /\ rewards[o][m].balance \in Nat /\ rewards[o][m].allowance \in Nat
        /\ watches[o][m].balance \in Nat
    BY ArithmeticAssumption DEF TypeOK, RewardAccountType, WatchType, U64
  <2>2. payout \in Nat /\ available \in Nat
    BY <2>1 DEF Payout, Available, Allowance, SaturatingSub, Least
  <2>3. QED
    BY <2>2, RepaidFromToken
<1>5. \A i \in 1..c : loan(i) \in S /\ Place(o, m, loan(i)) = i
  BY PlacesNumberLoans
<1>6. \A n \in S : /\ plan[n].owed = parts[Place(o, m, n)].owed
                   /\ plan[n].pays = Credited(parts[Place(o, m, n)].take, r, Debt(o, n))
  BY DEF SweepPlan
<1>7. \A n \in S : Debt(o, n) \in Nat /\ Debt(o, n) > 0
  BY DebtIsPositive DEF OpenLoansOn, OpenLoans, Counts
<1>8. SaturatingSub(rewards'[o][m].balance, watches'[o][m].balance) = 0
  <2>1. rewards[o][m].balance \in Nat /\ rewards'[o][m].balance = rewards[o][m].balance
    BY TablesThen DEF TableFacts
  <2>2. QED
    BY <1>1, <2>1 DEF SaturatingSub
<1> HIDE DEF r, S, c, plan, claims, payout, available, parts, next
<1>9. /\ DOMAIN later = 1..c
      /\ \A i \in 1..c : later[i] = [claims[i] EXCEPT !.due = loans'[o][loan(i)].reward_due]
  BY <1>3 DEF loan
<1> HIDE DEF later, loan
<1>10. ASSUME NEW i \in 1..c
       PROVE  /\ later[i] \in ClaimType
              /\ later[i].need = claims[i].need
              /\ later[i].due = loans'[o][loan(i)].reward_due
              /\ later[i].due <= parts[i].owed
  <2>1. loan(i) \in S /\ parts[i].owed = plan[loan(i)].owed
    BY <1>5, <1>6
  <2> DEFINE due == loans'[o][loan(i)].reward_due
  <2>2. due \in Nat /\ due <= parts[i].owed
    BY <1>1, <2>1
  <2>3. later[i] = [claims[i] EXCEPT !.due = due] /\ claims[i] \in ClaimType
    BY <1>3, <1>9
  <2> HIDE DEF due
  <2>4. later[i] \in ClaimType /\ later[i].need = claims[i].need /\ later[i].due = due
    BY <2>2, <2>3 DEF ClaimType
  <2>5. QED
    BY <2>2, <2>4 DEF due
<1>11. Len(later) = c
  <2>1. later = [i \in 1..c |-> [claims[i] EXCEPT !.due = loans'[o][loan(i)].reward_due]]
    BY <1>3 DEF later, loan
  <2>2. later \in [1..c -> ClaimType]
    BY <1>9, <1>10, <2>1
  <2>3. QED
    BY <1>4, <2>2
<1>12. AskedAgain(parts, next, later, c)
  <2>1. \A i \in 1..c : claims[i] \in ClaimType
    BY <1>3
  <2>2. \A i \in 1..c : later[i] \in ClaimType
    BY <1>10
  <2>3. \A i \in 1..c : /\ later[i].need = claims[i].need
                        /\ later[i].due <= Withholdings(payout, available, claims)[i].owed
    BY <1>10 DEF parts
  <2>4. QED
    BY <1>3, <1>4, <1>11, <2>1, <2>2, <2>3, WithholdingsAgain DEF parts, next
<1>13. ASSUME NEW i \in 1..c, Quote(parts[i].take, r) > 0
       PROVE  next[i].owed = parts[i].owed /\ next[i].take >= parts[i].take
  <2>1. /\ loan(i) \in S /\ plan[loan(i)].owed = parts[i].owed
        /\ plan[loan(i)].pays = Credited(parts[i].take, r, Debt(o, loan(i)))
    BY <1>5, <1>6
  <2>2. plan[loan(i)].pays # 0
    <3>1. Quote(parts[i].take, r) # 0 /\ Debt(o, loan(i)) # 0
      BY <1>7, <1>13, <2>1
    <3>2. QED
      BY <2>1, <3>1 DEF Credited, Least
  <2>3. later[i].due = parts[i].owed
    BY <1>1, <1>10, <2>1, <2>2
  <2>4. /\ next[i].owed = later[i].due
        /\ parts[i].take <= next[i].take
    BY <1>12, <2>3 DEF AskedAgain
  <2>5. QED
    BY <2>3, <2>4
<1>14. QED
  BY <1>3, <1>8, <1>13 DEF r, claims, payout, available, parts, next, later

\* The next sweep at the same rate owes every loan a skipped one would have paid the
\* same tokens, and can take at least as many.
THEOREM SkippedClaimsKept == Spec => SkipKeepsClaims
<1> DEFINE KeepsFor(o, m, rate) ==
             LET r      == rate.stable_per_trillion_reward
                 claims == Claims(o, m, r)
                 later  == [i \in DOMAIN claims |->
                              [claims[i] EXCEPT
                                 !.due = loans'[o][LoanInPlace(o, m, i)].reward_due]]
                 parts  == Withholdings(Payout(o, m), Available(o, m), claims)
                 next   == Withholdings(SaturatingSub(rewards'[o][m].balance,
                                                      watches'[o][m].balance),
                                        Available(o, m), later)
             IN  \A i \in DOMAIN claims :
                   Quote(parts[i].take, r) > 0 =>
                     next[i].owed = parts[i].owed /\ next[i].take >= parts[i].take
           Kept ==
             \A o \in Operators, m \in RewardMints, rate \in RateAttestations :
               (/\ <<now, pool, vault, rewards>>' = <<now, pool, vault, rewards>>
                /\ <<loans[o], watches[o]>>' # <<loans[o], watches[o]>>
                /\ Sweep(o, m, rate)) => KeepsFor(o, m, rate)
<1>1. ASSUME BooksInv, NEW o \in Operators, NEW m \in RewardMints,
             NEW rate \in RateAttestations, rewards' = rewards, Sweep(o, m, rate)
      PROVE  KeepsFor(o, m, rate)
  BY <1>1, ClaimsKeptBySkip
<1>2. BooksInv => Kept
  <2> HIDE DEF KeepsFor
  <2>1. QED
    BY <1>1
<1>3. BooksInv /\ [Next]_vars => [Kept]_vars
  <2> HIDE DEF Kept
  <2>1. QED
    BY <1>2
<1>4. QED
  BY <1>3, BooksInvariance, PTL DEF Spec, SkipKeepsClaims
=============================================================================
