SPECIFICATION Spec
CONSTANTS
  a1 = a1
  a2 = a2
  s1 = s1
  s2 = s2
  NoAgent = NoAgent
  Kinds = {completed, failed}
  Topics = {a1, a2}
  IdsOf <- SharedId
  Malformed <- AllWellFormed
  Subscribers = {s1, s2}
  TopicOf <- OneSlotEach
  Reporters = {r1}
  BatchSize = 2
  Retries = 1
  MaxPending = 0
  OwnIdsOnly = TRUE
  Faults = FALSE
  Restarts = FALSE
INVARIANTS ReportsOwnStream
