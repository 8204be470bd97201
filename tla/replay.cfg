SPECIFICATION Spec
CONSTANTS
  NONCE_WINDOW = 4
  Nonces = {0, 1, 2, 3, 4, 5, 6, 7, 8, 9, 10, 11, 12, 13}
INVARIANTS WindowIsExact RefusesExactlyReplays
PROPERTIES ImplementsOnceOnly
CHECK_DEADLOCK FALSE
