SPECIFICATION Spec
CONSTANTS
  U64_MAX = 60
  BPS = 4
  ACCRUAL_DENOMINATOR = 8
  REPAYMENT_PERIOD = 1
  APR_MAX = 10
  o1 = o1
  m1 = m1
  k1 = k1
  l1 = l1
  RewardMints = {m1}
  Keys = {k1}
  BASE_APR_BPS = 1
  SLOPE_APR_BPS = 1
  RATE_UNIT = 2
  SPREAD_BPS = 1
  MAX_SLIPPAGE_BPS = 2
  NONCE_WINDOW = 2
  MAX_REMAINING_VALIDITY = 10
  MAX_LIMIT_AGE = 10
  MAX_RATE_AGE = 10
  Lenders = {l1}
  Operators = {o1}
  Nonces = {0, 1}
  NoLoan = NoLoan
  MAX_OPEN_LOANS = 2
  MAX_TERM_PERIODS = 1
  MCLimit = 6
  MCPrices = {2, 5}
  LimitAttestations <- MCLimits
  RateAttestations <- MCRates
  Deposits = {6}
  Withdrawals = {}
  Loans = {2}
  Repayments = {}
  SweepShares = {3}
  MaxAprs = {3}
  Payouts = {3}
  MoveOuts = {1}
  Allowances = {1}
  Revokers = {o1}
  Fundings = {}
  InitialMarket = 4
  MAX_DEPOSITS = 6
  MAX_BALANCE = 5
  MAX_TIME = 1
INVARIANTS Solvent PoolBooks OperatorBooks DueIsHeld
PROPERTIES SweepIsFair SkipKeepsClaims
CHECK_DEADLOCK FALSE
