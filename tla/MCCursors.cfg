SPECIFICATION Spec
CONSTANTS
  Mailboxes = {m1, m2}
  Cursors = {c1, c2}
  NoCursor = NoCursor
  Requests = {r1, r2}
  Limits = {1, 2, 5}
  MaxMatches = 4
  MaxStored = 3
  MaxEntries = 1
  Ttl = 2
  MaxNow = 2
  MaxEpoch = 2
  SerialClient = FALSE
SYMMETRY Symmetry
INVARIANTS
  TypeOK
  NothingSkipped
  OffsetsInside
  PagesOfOneSnapshot
PROPERTIES
  GoneForGood
