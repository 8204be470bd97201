SPECIFICATION Spec
CONSTANTS
  U64_MAX = 60
  BPS = 2
  ACCRUAL_DENOMINATOR = 4
  REPAYMENT_PERIOD = 1
  APR_MAX = 10
  o1 = o1
  o2 = o2
  m1 = m1
  k1 = k1
  k2 = k2
  l1 = l1
  l2 = l2
  RewardMints = {m1}
  Keys = {k1}
  BASE_APR_BPS = 1
  SLOPE_APR_BPS = 2
  RATE_UNIT = 1
  SPREAD_BPS = 0
  MAX_SLIPPAGE_BPS = 0
  NONCE_WINDOW = 2
  MAX_REMAINING_VALIDITY = 10
  MAX_LIMIT_AGE = 10
  MAX_RATE_AGE = 10
  Lenders = {l1, l2}
  Operators = {o1, o2}
  Nonces = {0}
  NoLoan = NoLoan
  MAX_OPEN_LOANS = 2
  MAX_TERM_PERIODS = 1
  LimitAttestations <- MCLimits
  RateAttestations <- MCRates
  Deposits = {3}
  Withdrawals = {1, 9}
  Loans = {1, 2}
  Repayments = {1, 9}
  SweepShares = {1}
  MaxAprs = {3}
  Payouts = {}
  MoveOuts = {}
  Allowances = {}
  Revokers = {}
  Fundings = {}
  InitialMarket = 0
  MAX_DEPOSITS = 6
  MAX_BALANCE = 0
  MAX_TIME = 2
INVARIANTS TypeOK Solvent PoolBooks OpenLoansOwe Repayable ValueTracksLoans
PROPERTIES SharePriceHolds WithdrawalIsFair
SYMMETRY MCSymmetry
CHECK_DEADLOCK FALSE
