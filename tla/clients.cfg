SPECIFICATION Spec
CONSTANTS
  Components = {"holding", "repaying", "delegating", "borrowing", "lending", "browsing",
                "seeding"}
  m1 = m1
  f1 = f1
  NoOne = NoOne
  OURS = OURS
  NoRate = NoRate
  c1 = c1
  c2 = c2
  NEXT_PAYMENT = NEXT_PAYMENT
  EVERYTHING = EVERYTHING
  a1 = a1
  a2 = a2
  NoLoan = NoLoan
  ada = ada
  bob = bob
  Unreadable = Unreadable
  Nobody = Nobody
INVARIANTS
  TypeOK
  
  PagesSayTrue
PROPERTIES
  TransactionsKeepTheirWord
CHECK_DEADLOCK FALSE
