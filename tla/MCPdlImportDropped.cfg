SPECIFICATION Spec
CONSTANTS
  i1 = i1  i2 = i2
  good = good  other = other  bad = bad  gap = gap  dup = dup  stray = stray
  Imports = {i1}
  Contents <- MCContents
  Archived <- MCArchived
  Malformed = {bad, gap}
  Rejected = {bad}
  Duplicated = {dup}
  Rows <- MCRows
  Size <- MCSize
  Wanted <- MCWanted
  AnySnapshot = AnySnapshot
  Initial = Initial
  None = None
  FaultKinds = {"disconnect", "cleanup_fails", "kill", "refuse", "disk_full", "jq_dies"}
  MaxFaults = 0
  MaxEdits = 0
INVARIANT RefusedRecordsFail
