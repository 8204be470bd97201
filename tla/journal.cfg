SPECIFICATION Spec
CONSTANTS
  j1 = j1
  j2 = j2
  Journals = {j1, j2}
  PAGE_SIZE = 2
  BATCH_SIZE = 2
  Transactions <- MCTransactions
  MAX_CHAIN = 4
  MAX_FAILURES = 1
INVARIANTS TypeOK JournalIsPrefix CursorCovered
PROPERTIES EveryEventRecorded
