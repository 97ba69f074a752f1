SPECIFICATION FairSpec
CONSTANTS
  a1 = a1
  r1 = r1
  r2 = r2
  w1 = w1
  w2 = w2
  Ops = {1, 2}
  Accounts = {a1}
  AccountOf <- OneAccount
  UnitsOf <- TwoThenOne
  Requests = {r1}
  Workers = {w1, w2}
  NoTask = NoTask
  MaxEntries = 1
PROPERTIES
  EveryOperationFinishes
