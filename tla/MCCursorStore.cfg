SPECIFICATION Spec
CONSTANTS
  Mailboxes = {m1}
  Cursors = {c1, c2, c3}
  NoCursor = NoCursor
  Requests = {r1, r2}
  Limits = {1, 2}
  MaxMatches = 3
  MaxStored = 3
  MaxEntries = 2
  Ttl = 2
  MaxNow = 3
  MaxEpoch = 1
  SerialClient = TRUE
SYMMETRY Symmetry
INVARIANTS
  KeptWhileUsed
PROPERTIES
  EvictsLeastRecentlyUsed
  NoRepeats
