SPECIFICATION PipelineSpec
CONSTANTS
  MaxRecords = 3
  OutCapacity = 1
  ErrCapacity = 2
  ChunkRows = 2
  MaxPipeFaults = 1
\* The pipeline can stop for ever: that is what this run shows.
CHECK_DEADLOCK FALSE
PROPERTY RefusalFailsVisibly
