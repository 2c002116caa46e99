------------------------------ MODULE JqPipeline ------------------------------
(***************************************************************************)
(* _copy_jsonl of src/datatown/pdl/import_companies.py: Python between two *)
(* pipes of a jq process and the COPY of a PostgreSQL connection.          *)
(*                                                                         *)
(* jq writes a row to its stdout for a record it accepts and a diagnostic  *)
(* to its stderr for one its filter refuses, and goes on with the next     *)
(* record; its exit status is that of the last one.  A write blocks while  *)
(* the pipe is full.  Python reads stdout to its end, and stderr only      *)
(* then.  Pipes are measured in rows and diagnostics.                      *)
(***************************************************************************)
EXTENDS Naturals, Sequences, FiniteSets

CONSTANTS
  MaxRecords,    \* bound on the records of a file
  OutCapacity,   \* rows the stdout pipe holds
  ErrCapacity,   \* diagnostics the stderr pipe holds
  ChunkRows,     \* rows of one COPY_CHUNK_SIZE
  MaxPipeFaults  \* bound on the faults of a pipeline

\* What the constants are.
PipelineBounds ==
  /\ MaxRecords \in Nat /\ MaxPipeFaults \in Nat
  /\ OutCapacity \in Nat \ {0} /\ ErrCapacity \in Nat \ {0} /\ ChunkRows \in Nat \ {0}

VARIABLES
  records,   \* what the filter makes of the records of the file
  jq,        \* the process: "running", an exit status, or gone
  signalled, \* whether SIGTERM was sent to it
  next,      \* index of its next record
  out, err,  \* rows and diagnostics in the pipes
  reader,    \* where Python is
  chunk,     \* rows of the chunk it is reading
  copied,    \* rows sent to PostgreSQL
  verdict,   \* "none", "accepted" (returned a row count) or "raised"
  pipeFaults \* faults so far

process == <<records, jq, signalled, next>>
pipes == <<out, err>>
pipelineVars == <<process, pipes, reader, chunk, copied, verdict, pipeFaults>>

Files == UNION {[1 .. n -> {"accepted", "refused"}] : n \in 0 .. MaxRecords}

PipelineInit ==
  /\ records = <<>> /\ jq = "none" /\ signalled = FALSE /\ next = 1
  /\ out = 0 /\ err = 0
  /\ reader = "idle" /\ chunk = 0 /\ copied = 0 /\ verdict = "none" /\ pipeFaults = 0

Launch ==
  /\ reader = "idle"
  /\ records' \in Files
  /\ jq' = "running" /\ reader' = "read"
  /\ UNCHANGED <<signalled, next, pipes, chunk, copied, verdict, pipeFaults>>

PipeFault == pipeFaults < MaxPipeFaults /\ pipeFaults' = pipeFaults + 1
-----------------------------------------------------------------------------
(* jq *)

Refuses(record) == record = "refused"

\* A full pipe blocks the writer.
JqRecord ==
  /\ jq = "running" /\ next <= Len(records)
  /\ next' = next + 1
  /\ IF Refuses(records[next])
     THEN err < ErrCapacity /\ err' = err + 1 /\ UNCHANGED out
     ELSE out < OutCapacity /\ out' = out + 1 /\ UNCHANGED err
  /\ UNCHANGED <<records, jq, signalled, reader, chunk, copied, verdict, pipeFaults>>

\* --exit-status: what became of the last record, and an error if there was none.
Status ==
  IF records # <<>> /\ ~Refuses(records[Len(records)]) THEN "zero" ELSE "failed"

JqExits ==
  /\ jq = "running" /\ next > Len(records)
  /\ jq' = Status
  /\ UNCHANGED <<records, signalled, next, pipes, reader, chunk, copied, verdict, pipeFaults>>

\* Nobody lets it finish: it was sent a signal, or Python has gone with the pipes it writes to.
Doomed == signalled \/ reader = "done"

\* It is killed, or the file cannot be read or parsed any further.
JqDies ==
  /\ jq = "running"
  /\ IF Doomed THEN UNCHANGED pipeFaults ELSE PipeFault
  /\ jq' = "failed"
  /\ UNCHANGED <<records, signalled, next, pipes, reader, chunk, copied, verdict>>

Closed == jq # "running"
-----------------------------------------------------------------------------
(* Python *)

\* read(COPY_CHUNK_SIZE) returns a full chunk, or less at the end of the stream.
ReadRow ==
  /\ reader = "read" /\ chunk < ChunkRows /\ out > 0
  /\ out' = out - 1 /\ chunk' = chunk + 1
  /\ UNCHANGED <<process, err, reader, copied, verdict, pipeFaults>>

\* Slip: an empty pipe is taken for the end of the stream.
ShortRead ==
  /\ reader = "read"
  /\ chunk = ChunkRows \/ out = 0
  /\ reader' = IF chunk > 0 THEN "write" ELSE "end_copy"
  /\ UNCHANGED <<process, pipes, chunk, copied, verdict, pipeFaults>>

ChunkRead ==
  /\ reader = "read"
  /\ chunk = ChunkRows \/ (Closed /\ out = 0)
  /\ reader' = IF chunk > 0 THEN "write" ELSE "end_copy"
  /\ UNCHANGED <<process, pipes, chunk, copied, verdict, pipeFaults>>

WriteChunk ==
  /\ reader = "write"
  /\ copied' = copied + chunk /\ chunk' = 0 /\ reader' = "read"
  /\ UNCHANGED <<process, pipes, verdict, pipeFaults>>

EndCopy ==
  /\ reader = "end_copy"
  /\ reader' = "stderr"
  /\ UNCHANGED <<process, pipes, chunk, copied, verdict, pipeFaults>>

Acceptable == jq = "zero" /\ copied >= 1

\* stderr is read to its end, then the exit status and the number of rows are checked.
CheckExit ==
  /\ reader = "stderr" /\ Closed
  /\ err' = 0
  /\ verdict' = IF Acceptable THEN "accepted" ELSE "raised"
  /\ reader' = "stop"
  /\ UNCHANGED <<process, out, chunk, copied, pipeFaults>>

\* The `finally` clause: _stop_process, and the close of both pipes.
Stopping == {"stop", "wait", "wait_killed", "close"}

\* PostgreSQL refuses a row or is gone, or the operator interrupts.  What is raised in the
\* `finally` clause skips the rest of it, so that a process and its pipes can be left.
Raise ==
  /\ reader \in {"read", "write", "end_copy", "stderr"} \cup Stopping
  /\ PipeFault
  /\ verdict' = "raised" /\ reader' = IF reader \in Stopping THEN "done" ELSE "stop"
  /\ UNCHANGED <<process, pipes, chunk, copied>>

\* _stop_process sends SIGTERM to a process that has not ended, and waits five seconds.
StopProcess ==
  /\ reader = "stop"
  /\ IF jq = "running" THEN signalled' = TRUE /\ reader' = "wait"
     ELSE reader' = "close" /\ UNCHANGED signalled
  /\ UNCHANGED <<records, jq, next, pipes, chunk, copied, verdict, pipeFaults>>

Reaped ==
  /\ reader \in {"wait", "wait_killed"} /\ jq # "running"
  /\ reader' = "close"
  /\ UNCHANGED <<process, pipes, chunk, copied, verdict, pipeFaults>>

\* After five seconds it sends SIGKILL and waits as long again; the TimeoutExpired of that
\* wait is not caught.
WaitTimesOut ==
  /\ jq = "running"
  /\ \/ reader = "wait" /\ reader' = "wait_killed" /\ UNCHANGED verdict
     \/ reader = "wait_killed" /\ reader' = "done" /\ verdict' = "raised"
  /\ UNCHANGED <<process, pipes, chunk, copied, pipeFaults>>

ClosePipes ==
  /\ reader = "close"
  /\ out' = 0 /\ err' = 0
  /\ reader' = "done"
  /\ UNCHANGED <<process, chunk, copied, verdict, pipeFaults>>

-----------------------------------------------------------------------------
JqStep == JqRecord \/ JqExits \/ (Doomed /\ JqDies)
ReaderStep ==
  \/ ReadRow \/ ChunkRead \/ WriteChunk \/ EndCopy \/ CheckExit
  \/ StopProcess \/ Reaped \/ WaitTimesOut \/ ClosePipes
PipelineStep == JqStep \/ JqDies \/ ReaderStep \/ Raise

PipelineDone == reader = "done" /\ UNCHANGED pipelineVars

PipelineSpec ==
  /\ PipelineInit /\ [][Launch \/ PipelineStep \/ PipelineDone]_pipelineVars
  /\ WF_pipelineVars(JqStep) /\ WF_pipelineVars(ReaderStep)
-----------------------------------------------------------------------------
(* Properties *)

\* Every variable has its type.
PipelineTypeOK ==
  /\ records \in Files
  /\ jq \in {"none", "running", "zero", "failed"} /\ signalled \in BOOLEAN
  /\ next \in 1 .. MaxRecords + 1
  /\ out \in 0 .. OutCapacity /\ err \in 0 .. ErrCapacity
  /\ reader \in {"idle", "read", "write", "end_copy", "stderr", "done"} \cup Stopping
  /\ chunk \in 0 .. ChunkRows /\ copied \in 0 .. MaxRecords
  /\ verdict \in {"none", "accepted", "raised"}
  /\ pipeFaults \in 0 .. MaxPipeFaults

AcceptedOf(n) == {k \in 1 .. n : records[k] = "accepted"}
RefusedOf(n) == {k \in 1 .. n : records[k] = "refused"}

\* A row count is returned only when jq has judged the whole file, its last record included,
\* and every row it wrote is in PostgreSQL, although the first were there long before the
\* last was judged.  Refused records before the last may be missing from it.
AcceptedIsWhole ==
  verdict = "accepted" =>
    /\ jq = "zero" /\ next = Len(records) + 1
    /\ Len(records) \in AcceptedOf(Len(records))
    /\ copied = Cardinality(AcceptedOf(Len(records))) /\ copied >= 1

\* Each of the two waits for the other: jq for room in a pipe, Python for a row or for the
\* end of a stream.  (The waits of _stop_process have a timeout.)
JqWaits ==
  /\ jq = "running" /\ ~Doomed /\ next <= Len(records)
  /\ IF Refuses(records[next]) THEN err = ErrCapacity ELSE out = OutCapacity
PythonWaits ==
  /\ jq = "running"
  /\ (reader = "read" /\ chunk < ChunkRows /\ out = 0) \/ reader = "stderr"
Stalled == JqWaits /\ PythonWaits

\* The filter refuses more records than the stderr pipe holds diagnostics of.
TooManyRefused == Cardinality(RefusedOf(Len(records))) > ErrCapacity

\* jq and Python wait for one another only over the pipe that is read last: it is full, and
\* the file has more refused records than it holds.  The sizes of the other pipe, of a chunk
\* and of a file do not matter.
OnlyDiagnosticsStall == Stalled => err = ErrCapacity /\ TooManyRefused

\* README.md:162-164: a record with another field set, or another type, fails the import
\* visibly.  Stated of a file whose last record is refused, of which the status of jq tells.
RefusalFailsVisibly ==
  (reader = "read" /\ Len(records) \in RefusedOf(Len(records))) ~>
  (reader = "done" /\ verdict = "raised")
=============================================================================
