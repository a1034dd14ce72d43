SPECIFICATION Spec
CONSTANTS
  Agents = {a1, a2}
  Everyone = Everyone
  Callers = {c1, c2}
  Limits = {1}
  Window = 2
  CacheTTL = 1
  MaxEntries = 1
  MaxFetch = 1
  FetchFails = FALSE
  MaxTime = 2
  MaxSends = 2
  MaxChanges = 2
  StartRows <- OnlyDefault
SYMMETRY Symmetry
INVARIANTS RateLimited BucketInv LimitsNotStale MapsBounded
