SPECIFICATION Spec
CONSTANTS
  Agents = {a1}
  Everyone = Everyone
  Callers = {c1, c2}
  Limits = {1}
  Window = 2
  CacheTTL = 1
  MaxEntries = 1
  MaxFetch = 1
  FetchFails = TRUE
  MaxTime = 2
  MaxSends = 2
  MaxChanges = 0
  StartRows <- AnyRows
SYMMETRY Symmetry
INVARIANTS ConfiguredRate
