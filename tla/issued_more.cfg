SPECIFICATION Spec
CONSTANTS
  U64_MAX = 60
  BPS = 2
  ACCRUAL_DENOMINATOR = 7
  REPAYMENT_PERIOD = 2
  APR_MAX = 12
  RewardMints = {m1}
  Keys = {k1}
  BASE_APR_BPS = 1
  SLOPE_APR_BPS = 6
  WALLET = 2
  Held = {0, 3}
  OTHERS = 2
  Deposits = {2}
  Withdrawals = {2}
  LoanAmounts = {1, 4}
  Aprs = {5}
  Calls = {c1, c2}
  NoLoan = NoLoan
  MAX_CLICKS = 2
  MAX_CHANGES = 2
  MAX_TIME = 3
INVARIANTS NoMoreThanIssued
CHECK_DEADLOCK FALSE
