SPECIFICATION FairSpec
CONSTANTS
  a1 = a1
  s1 = s1
  s2 = s2
  s3 = s3
  r1 = r1
  r2 = r2
  NoSession = NoSession
  Accounts = {a1}
  Sessions = {s1, s2, s3}
  Requests = {r1, r2}
  Tools <- AllTools
  MaxPerAccount = 1
  Ttl = 1
  MaxNow = 2
  MaxFaults = 2
INVARIANTS
  TypeOK
  NeverOutOfStep
  OnePlacePerSession
  IdleSessionsBounded
PROPERTIES
  FreshWhenReused
  EveryReadFinishes
