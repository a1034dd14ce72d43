SPECIFICATION Spec
CONSTANTS
  a1 = a1
  a2 = a2
  s1 = s1
  s2 = s2
  NoAgent = NoAgent
  Kinds = {completed, failed}
  Topics = {a1}
  IdsOf <- ThreeForA1
  Malformed <- OneMalformed
  Subscribers = {s1, s2}
  TopicOf <- AllForA1
  Reporters = {r1, r2}
  BatchSize = 2
  Retries = 1
  MaxPending = 1
  OwnIdsOnly = TRUE
  Faults = TRUE
  Restarts = TRUE
SYMMETRY Symmetry
INVARIANTS TypeOK OneReportPerTask ResultBeforeAck PendingIsOpen OneHolder PendingBound
PROPERTIES HandedOnce Implements
