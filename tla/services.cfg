SPECIFICATION Spec
CONSTANTS
  Components = {"keeping", "indexing", "recognising", "pricing", "scoring", "eligibility",
                "numbering", "limits", "attesting", "rates", "crowding", "view",
                "viewers", "process", "telling", "sources"}
  k1 = k1
  k2 = k2
  Forever = Forever
  alice = alice
  hnt = hnt
  honey = honey
  x1 = x1
  x2 = x2
  Wallet = Wallet
  Nobody = Nobody
  NoTime = NoTime
  stranger = stranger
  distributor = distributor
  authority = authority
  honeyAccount = honeyAccount
  hntAccount = hntAccount
  other = other
  r1 = r1
  r2 = r2
  q1 = q1
  q2 = q2
  q3 = q3
  p1 = p1
  p2 = p2
  p3 = p3
  loan = loan
  ada = ada
  bob = bob
INVARIANTS
  TypeOK
  PayoutsAreCountedOnce
  LimitsAreBacked
  AttestationsAreSound
  CachedAnswersHold
  ShutdownIsOrderly
  OperatorIsTold
PROPERTIES
  LaterNewsHarmsNothing
CHECK_DEADLOCK FALSE
