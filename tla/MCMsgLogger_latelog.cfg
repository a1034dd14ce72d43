SPECIFICATION Spec
CONSTANTS
  Entries = {e1, e2, e3, e4}
  NoEntry = NoEntry
  Cap = 2
  WriteFails = FALSE
CHECK_DEADLOCK FALSE
INVARIANTS LossIsLogged
