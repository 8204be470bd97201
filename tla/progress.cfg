SPECIFICATION FairSpec
CONSTANTS
  Components = {"keeping", "indexing", "issuing", "rating", "process", "browsing", "borrowing",
                "lending"}
  k1 = k1
  Forever = Forever
  alice = alice
  hnt = hnt
  honey = honey
  x1 = x1
  Wallet = Wallet
  Nobody = Nobody
  NoTime = NoTime
  distributor = distributor
  authority = authority
  honeyAccount = honeyAccount
  hntAccount = hntAccount
  other = other
  q1 = q1
  q2 = q2
  p1 = p1
  p2 = p2
  r1 = r1
  ada = ada
  bob = bob
  Unreadable = Unreadable
  m1 = m1
  f1 = f1
  NoOne = NoOne
  OURS = OURS
  NoLoan = NoLoan
  a1 = a1
  a2 = a2
  c1 = c1
PROPERTIES
  NothingHangs
  AskersAreServed
CHECK_DEADLOCK FALSE
