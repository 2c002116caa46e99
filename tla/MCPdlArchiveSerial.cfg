SPECIFICATION Spec
CONSTANTS
  a1 = a1  a2 = a2
  csv1 = csv1  json1 = json1  csv2 = csv2  json2 = json2  csv3 = csv3  json3 = json3
  x = x  y = y  z = z  w = w
  Archivers = {a1, a2}
  Requests <- MCRequests
  Paths <- MCPaths
  Filename <- MCFilename
  Contents = {x, y, z, w}
  Original <- MCOriginal
  Size <- MCSize
  Acquired <- MCAcquired
  DayOf <- MCDayOf
  ManifestName = "manifest.json"
  None = None
  Concurrent = FALSE
  MaxFaults = 1
  MaxEdits = 1
INVARIANTS
  TypeOK
  RecordedIsArchived
  UploadedIsHashed
  UploadsAreNew
PROPERTIES
  ImplementsWriteOnce
