SPECIFICATION Spec
CONSTANTS
  a1 = a1
  a2 = a2
  Events = Events
  Everyone = Everyone
  Topics = {a1, a2, Events}
  IdsOf <- EntryIds
  Malformed <- SecondTooLong
  Subscribers = {s1, s2}
  TopicOf <- AllForA1
  Senders = {c1}
  BatchSize = 2
  Retries = 1
  Faults = TRUE
  Lengths = {1}
  MaxChanges = 1
  MaxEntries = 3
SYMMETRY Symmetry
INVARIANTS TypeOK ReturnedOnce NewerOnly AckedIsAccounted TrimJustified
