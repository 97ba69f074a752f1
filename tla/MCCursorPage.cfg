SPECIFICATION Spec
CONSTANTS
  Mailboxes = {m1}
  Cursors = {c1, c2}
  NoCursor = NoCursor
  Requests = {r1, r2}
  Limits = {1, 2}
  MaxMatches = 5
  MaxStored = 5
  MaxEntries = 2
  Ttl = 2
  MaxNow = 2
  MaxEpoch = 2
  SerialClient = TRUE
SYMMETRY Symmetry
INVARIANTS
  CursorIsForOnePage
