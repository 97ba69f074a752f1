CONSTANTS
  Mailboxes = {1, 2, 3}
  Uids = {1, 2}
  MaxUidValidity = 2
  Selections <- MCSelections
  Destinations = {3}
  MaxFaults = 3
SPECIFICATION Spec
CHECK_DEADLOCK FALSE
INVARIANTS
  TypeOK
  OnlyNamedTouched
  WritesInStep
  NothingLost
  OkMeansDone
  FailedMeansUntouched
  StageTellsProgress
  EveryMessageReported
PROPERTIES
  ImplementsContract
