SPECIFICATION Spec
CONSTANTS
  WORD_BITS = 3
  NONCE_WINDOW_WORDS = 2
  Nonces = {0, 1, 2, 3, 4, 5, 6, 7, 8, 9, 10, 11, 12, 13, 14}
PROPERTIES ImplementsReplayGuard
CHECK_DEADLOCK FALSE
