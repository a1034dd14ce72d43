SPECIFICATION FairSpec
CONSTANTS
  Entries = {e1, e2, e3, e4}
  NoEntry = NoEntry
  Cap = 2
  WriteFails = TRUE
CHECK_DEADLOCK FALSE
INVARIANTS Pipeline FlushedBeforeClose NoWriteAfterClose RowsInOrder
PROPERTIES CloseTerminates
