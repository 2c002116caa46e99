SPECIFICATION FairSpec
CONSTANTS
  i1 = i1  i2 = i2
  good = good  other = other  bad = bad  gap = gap  dup = dup  stray = stray
  Imports = {i1, i2}
  Contents <- FewContents
  Archived <- FewContents
  Malformed = {}
  Rejected = {}
  Duplicated = {dup}
  Rows <- FewRows
  Size <- FewRows
  Wanted <- NoWanted
  AnySnapshot = AnySnapshot
  Initial = Initial
  None = None
  FaultKinds = {"disconnect", "cleanup_fails", "kill", "refuse", "disk_full", "jq_dies"}
  MaxFaults = 2
  MaxEdits = 0
PROPERTIES
  EveryInvocationEnds
  RetrySucceeds
  FailureIsRecorded
