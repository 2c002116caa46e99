SPECIFICATION FairSpec
CONSTANTS
  MaxRecords = 3
  OutCapacity = 1
  ErrCapacity = 2
  ChunkRows = 2
  MaxPipeFaults = 1
  MaxUnits = 5
  PartUnits = 2
  PartAttempts = 4
  SdkAttempts = 2
  Tables = {1, 2, 3}
  Partitions <- MCPartitions
  MaxChanges = 3
  JsonFiles <- MCJsonFiles
  CsvFiles <- MCCsvFiles
  Window = 2
  Fractions <- MCFractions
INVARIANTS
  TypeOK
  ExitTellsOutcome
  OnlyDiagnosticsStall
  AbortedForCause
  ReportsAscend
  NoCircularWait
  InspectionMatchesReference
PROPERTIES
  CommandEnds
  CalmInspectionReports
