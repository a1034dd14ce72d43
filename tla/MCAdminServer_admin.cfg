SPECIFICATION Spec
CONSTANTS
  a1 = a1
  a2 = a2
  p1 = p1
  p2 = p2
  k1 = k1
  k2 = k2
  k3 = k3
  l1 = l1
  l2 = l2
  changeme = changeme
  secret = secret
  lo = lo
  hi = hi
  AgentIds = {a1, a2}
  PolicyIds = {p1, p2}
  KeyIds = {k1, k2, k3}
  RowIds = {l1, l2}
  Passwords = {changeme, secret}
  DefaultPw = changeme
  PolicyForms <- Forms
  MaxValues = {lo, hi}
  Handlers = {h1, h2}
  GatewayToken = k2
  Scenarios <- Starts
  Faults = TRUE
  MaxRequests = 3
  MaxStarts = 2
SYMMETRY Symmetry
CHECK_DEADLOCK FALSE
INVARIANTS TypeOK KeysAuthorise PolicyDecides LimitsAnswer AuditMatches RegisteredOnce
  DeletedStaysDeleted RowsAsSubmitted LimitsKept FirstRunSeeds
PROPERTIES PasswordChange
