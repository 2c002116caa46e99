------------------------------- MODULE CliProofs -------------------------------
(***************************************************************************)
(* Proofs about Cli, for every size of file, pipe, part and window, every  *)
(* set of tables, and whatever the bounds on faults and changes.           *)
(***************************************************************************)
EXTENDS UploadProofs, InspectionProofs

-----------------------------------------------------------------------------
(* JqPipeline *)

LEMMA PipelineMoves ==
  ASSUME [Next]_vars
  PROVE  Pipeline!Launch \/ Pipeline!PipelineStep \/ UNCHANGED pipelineVars
BY DEF Next, vars, parts, CliStep, StartPart, PipelineAction, TransferAction, CrunchbaseAction,
       PdlAction, Hangs, Exited

\* A file of records is a sequence of them.
LEMMA RecordFacts ==
  ASSUME NEW file, file \in Pipeline!Files
  PROVE  /\ Len(file) \in 0 .. MaxRecords
         /\ \A k \in 1 .. Len(file) : file[k] \in {"accepted", "refused"}
<1>1. PICK n \in 0 .. MaxRecords : file \in [1 .. n -> {"accepted", "refused"}]
  BY DEF Pipeline!Files
<1>2. n \in Nat BY <1>1, PipelineAssumption DEF Pipeline!PipelineBounds
<1>3. Len(file) = n /\ file \in Seq({"accepted", "refused"}) BY <1>1, <1>2
<1> QED BY <1>1, <1>3

LEMMA PipelineTyped ==
  ASSUME PipelineInv
  PROVE  /\ MaxRecords \in Nat /\ next \in Nat \ {0} /\ out \in Nat /\ err \in Nat /\ chunk \in Nat
         /\ copied \in Nat /\ Len(records) \in 0 .. MaxRecords
         /\ \A k \in 1 .. Len(records) : records[k] \in {"accepted", "refused"}
BY RecordFacts, PipelineAssumption
DEF PipelineInv, Pipeline!PipelineTypeOK, Pipeline!PipelineBounds

LEMMA SameCount == \A S : Pipeline!Cardinality(S) = Cardinality(S)
BY DEF Cardinality, Pipeline!Cardinality

LEMMA CountsTyped ==
  ASSUME NEW n \in Nat
  PROVE  /\ Cardinality(Pipeline!AcceptedOf(n)) \in 0 .. n
         /\ Cardinality(Pipeline!RefusedOf(n)) \in 0 .. n
<1>1. Pipeline!AcceptedOf(n) \subseteq 1 .. n /\ Pipeline!RefusedOf(n) \subseteq 1 .. n
  BY DEF Pipeline!AcceptedOf, Pipeline!RefusedOf
<1> QED BY <1>1, CountBelow

\* A record adds to one of the two counts.
LEMMA RecordCounted ==
  ASSUME PipelineInv, next <= Len(records)
  PROVE  /\ Pipeline!Refuses(records[next]) =>
              /\ Cardinality(Pipeline!AcceptedOf(next)) = Cardinality(Pipeline!AcceptedOf(next - 1))
              /\ Cardinality(Pipeline!RefusedOf(next))
                   = Cardinality(Pipeline!RefusedOf(next - 1)) + 1
         /\ ~Pipeline!Refuses(records[next]) =>
              /\ Cardinality(Pipeline!AcceptedOf(next))
                   = Cardinality(Pipeline!AcceptedOf(next - 1)) + 1
              /\ Cardinality(Pipeline!RefusedOf(next)) = Cardinality(Pipeline!RefusedOf(next - 1))
<1> DEFINE A == Pipeline!AcceptedOf(next - 1)
           R == Pipeline!RefusedOf(next - 1)
<1>1. next \in Nat \ {0} /\ Len(records) \in Nat /\ records[next] \in {"accepted", "refused"}
  BY PipelineTyped
<1>2. A \subseteq 1 .. next - 1 /\ R \subseteq 1 .. next - 1
  BY DEF Pipeline!AcceptedOf, Pipeline!RefusedOf
<1>3. 1 .. next = (1 .. next - 1) \cup {next} BY <1>1
<1>4. CASE Pipeline!Refuses(records[next])
  <2>1. Pipeline!AcceptedOf(next) = A /\ Pipeline!RefusedOf(next) = R \cup {next}
    BY <1>3, <1>4 DEF Pipeline!AcceptedOf, Pipeline!RefusedOf, Pipeline!Refuses
  <2> QED BY <1>1, <1>2, <1>4, <2>1, CountMore
<1>5. CASE ~Pipeline!Refuses(records[next])
  <2>1. Pipeline!AcceptedOf(next) = A \cup {next} /\ Pipeline!RefusedOf(next) = R
    BY <1>1, <1>3, <1>5 DEF Pipeline!AcceptedOf, Pipeline!RefusedOf, Pipeline!Refuses
  <2> QED BY <1>1, <1>2, <1>5, <2>1, CountMore
<1> QED BY <1>4, <1>5

\* What was counted depends on the file and the position in it only.
LEMMA CountsKept ==
  ASSUME records' = records, next' = next
  PROVE  /\ Pipeline!AcceptedOf(next - 1)' = Pipeline!AcceptedOf(next - 1)
         /\ Pipeline!RefusedOf(next - 1)' = Pipeline!RefusedOf(next - 1)
         /\ Pipeline!AcceptedOf(Len(records))' = Pipeline!AcceptedOf(Len(records))
BY DEF Pipeline!AcceptedOf, Pipeline!RefusedOf

LEMMA Summand ==
  ASSUME NEW a \in Nat, NEW b \in Nat, NEW c \in Nat, NEW n \in Nat, NEW m \in Nat,
         a + b + c <= n - 1, n <= m + 1
  PROVE  a \in 0 .. m
OBVIOUS

LEMMA LaunchInv ==
  ASSUME PipelineInv, Pipeline!Launch
  PROVE  PipelineInv'
<1> USE DEF PipelineInv, Pipeline!Launch, Pipeline!pipes
<1>1. /\ chunk' = chunk /\ copied' = copied /\ next' = next /\ out' = out /\ err' = err
      /\ verdict' = verdict /\ signalled' = signalled /\ pipeFaults' = pipeFaults
      /\ reader = "idle" /\ reader' = "read"
  OBVIOUS
<1>2. next = 1 /\ Len(records') \in Nat BY RecordFacts DEF JqStatusTells
<1>3. Pipeline!PipelineTypeOK' BY <1>1 DEF Pipeline!PipelineTypeOK
<1>4. /\ Pipeline!AcceptedOf(next - 1)' = Pipeline!AcceptedOf(next - 1)
      /\ Pipeline!RefusedOf(next - 1)' = Pipeline!RefusedOf(next - 1)
  BY <1>1, <1>2 DEF Pipeline!AcceptedOf, Pipeline!RefusedOf
<1>5. RowsConserved' /\ DiagnosticsCounted'
  BY <1>1, <1>4 DEF RowsConserved, DiagnosticsCounted
<1>6. JqStatusTells' BY <1>1, <1>2 DEF JqStatusTells
<1>7. StreamEnded' BY <1>1 DEF StreamEnded
<1>8. VerdictFits' BY <1>1 DEF VerdictFits, Pipeline!AcceptedIsWhole
<1> QED BY <1>3, <1>5, <1>6, <1>7, <1>8

\* jq writes a row for an accepted record and a diagnostic for any other.
LEMMA JqRecordInv ==
  ASSUME PipelineInv, Pipeline!JqRecord
  PROVE  PipelineInv'
<1>1. /\ jq = "running" /\ next <= Len(records) /\ next' = next + 1
      /\ \/ /\ Pipeline!Refuses(records[next])
            /\ err < ErrCapacity /\ err' = err + 1 /\ out' = out
         \/ /\ ~Pipeline!Refuses(records[next])
            /\ out < OutCapacity /\ out' = out + 1 /\ err' = err
      /\ UNCHANGED <<records, jq, signalled, reader, chunk, copied, verdict, pipeFaults>>
  BY DEF Pipeline!JqRecord
<1>2. next \in Nat \ {0} /\ Len(records) \in 0 .. MaxRecords /\ MaxRecords \in Nat
  BY PipelineTyped
<1>3. Pipeline!PipelineTypeOK'
  <2>1. next' \in 1 .. MaxRecords + 1 BY <1>1, <1>2
  <2>2. out' \in 0 .. OutCapacity /\ err' \in 0 .. ErrCapacity
    BY <1>1, PipelineAssumption DEF PipelineInv, Pipeline!PipelineTypeOK, Pipeline!PipelineBounds
  <2> QED BY <1>1, <2>1, <2>2 DEF PipelineInv, Pipeline!PipelineTypeOK
<1>4. /\ Pipeline!AcceptedOf(next - 1)' = Pipeline!AcceptedOf(next)
      /\ Pipeline!RefusedOf(next - 1)' = Pipeline!RefusedOf(next)
  <2>1. next' - 1 = next BY <1>1, <1>2
  <2> QED BY <1>1, <2>1 DEF Pipeline!AcceptedOf, Pipeline!RefusedOf
<1> DEFINE a == Cardinality(Pipeline!AcceptedOf(next - 1))
           r == Cardinality(Pipeline!RefusedOf(next - 1))
<1>5. a \in Nat /\ r \in Nat
  <2>1. next - 1 \in Nat BY <1>2
  <2> QED BY <2>1, CountsTyped
<1>6. /\ out \in Nat /\ err \in Nat /\ chunk \in Nat /\ copied \in Nat
      /\ err <= r /\ (reader # "done" => copied + chunk + out = a)
  BY PipelineTyped DEF PipelineInv, RowsConserved, DiagnosticsCounted
<1>7. /\ Pipeline!Refuses(records[next]) =>
           /\ Cardinality(Pipeline!AcceptedOf(next)) = a
           /\ Cardinality(Pipeline!RefusedOf(next)) = r + 1
      /\ ~Pipeline!Refuses(records[next]) =>
           /\ Cardinality(Pipeline!AcceptedOf(next)) = a + 1
           /\ Cardinality(Pipeline!RefusedOf(next)) = r
  BY <1>1, RecordCounted
<1> HIDE DEF a, r
<1>8. RowsConserved'
  <2>1. reader # "done" => copied + chunk + out' = Cardinality(Pipeline!AcceptedOf(next))
    BY <1>1, <1>5, <1>6, <1>7
  <2> QED BY <1>1, <1>4, <2>1 DEF RowsConserved
<1>9. DiagnosticsCounted'
  <2>1. err' <= Cardinality(Pipeline!RefusedOf(next)) BY <1>1, <1>5, <1>6, <1>7
  <2> QED BY <1>4, <2>1 DEF DiagnosticsCounted
<1>10. JqStatusTells' BY <1>1, <1>2 DEF PipelineInv, JqStatusTells
<1>11. StreamEnded' BY <1>1 DEF PipelineInv, StreamEnded
<1>12. VerdictFits' BY <1>1 DEF PipelineInv, VerdictFits, Pipeline!AcceptedIsWhole
<1> QED BY <1>3, <1>8, <1>9, <1>10, <1>11, <1>12 DEF PipelineInv

\* Its exit status is that of the last record.
LEMMA JqEndInv ==
  ASSUME PipelineInv, Pipeline!JqExits \/ Pipeline!JqDies
  PROVE  PipelineInv'
<1> USE DEF PipelineInv
<1>1. /\ UNCHANGED <<records, signalled, next, out, err, reader, chunk, copied, verdict>>
      /\ jq = "running"
      /\ \/ jq' = "failed"
         \/ /\ jq' = "zero" /\ next > Len(records) /\ records # <<>>
            /\ records[Len(records)] # "refused"
  BY DEF Pipeline!JqExits, Pipeline!JqDies, Pipeline!Status, Pipeline!Refuses, Pipeline!pipes
<1>2. Pipeline!PipelineTypeOK'
  <2>1. pipeFaults' \in 0 .. MaxPipeFaults
    BY PipelineAssumption
    DEF Pipeline!JqExits, Pipeline!JqDies, Pipeline!PipeFault, Pipeline!PipelineTypeOK,
        Pipeline!PipelineBounds
  <2> QED BY <1>1, <2>1 DEF Pipeline!PipelineTypeOK
<1>3. RowsConserved' /\ DiagnosticsCounted'
  BY <1>1, CountsKept DEF RowsConserved, DiagnosticsCounted
<1>4. JqStatusTells'
  <2>1. ASSUME jq' = "zero"
        PROVE  next = Len(records) + 1 /\ Len(records) \in Pipeline!AcceptedOf(Len(records))
    <3>1. Len(records) \in Nat /\ next \in Nat /\ next <= Len(records) + 1
      BY PipelineTyped DEF JqStatusTells
    <3>2. records \in Seq({"accepted", "refused"})
      <4>1. PICK n \in 0 .. MaxRecords : records \in [1 .. n -> {"accepted", "refused"}]
        BY DEF Pipeline!PipelineTypeOK, Pipeline!Files
      <4>2. n \in Nat BY <4>1, PipelineAssumption DEF Pipeline!PipelineBounds
      <4> QED BY <4>1, <4>2
    <3>3. Len(records) # 0 BY <1>1, <2>1, <3>2, EmptySeq
    <3>4. Len(records) \in 1 .. Len(records) BY <3>1, <3>3
    <3>5. records[Len(records)] = "accepted" BY <1>1, <2>1, <3>4, PipelineTyped
    <3> QED BY <1>1, <2>1, <3>1, <3>4, <3>5 DEF Pipeline!AcceptedOf
  <2> QED BY <1>1, <2>1, CountsKept DEF JqStatusTells
<1>5. StreamEnded' BY <1>1 DEF StreamEnded
<1>6. VerdictFits' BY <1>1 DEF VerdictFits, Pipeline!AcceptedIsWhole
<1> QED BY <1>2, <1>3, <1>4, <1>5, <1>6

\* Python moves rows from the pipe to the chunk and from there to PostgreSQL.
LEMMA ReadingInv ==
  ASSUME PipelineInv,
         Pipeline!ReadRow \/ Pipeline!ChunkRead \/ Pipeline!WriteChunk \/ Pipeline!EndCopy
  PROVE  PipelineInv'
<1> USE DEF PipelineInv, Pipeline!ReadRow, Pipeline!ChunkRead, Pipeline!WriteChunk,
            Pipeline!EndCopy, Pipeline!process, Pipeline!pipes
<1>1. /\ UNCHANGED <<records, jq, signalled, next, err, verdict, pipeFaults>>
      /\ reader \in {"read", "write", "end_copy"}
      /\ reader' \in {"read", "write", "end_copy", "stderr"}
  OBVIOUS
<1> DEFINE a == Cardinality(Pipeline!AcceptedOf(next - 1))
<1>2. next \in Nat \ {0} /\ a \in Nat /\ a <= next - 1
  <2>1. next \in Nat \ {0} BY PipelineTyped
  <2>2. next - 1 \in Nat BY <2>1
  <2>3. a \in 0 .. next - 1 BY <2>2, CountsTyped
  <2> QED BY <2>1, <2>2, <2>3
<1> HIDE DEF a
<1>3. /\ chunk' \in Nat /\ copied' \in Nat /\ out' \in Nat
      /\ copied' + chunk' + out' = copied + chunk + out
  <2>1. next \in Nat /\ copied \in Nat /\ chunk \in Nat /\ out \in Nat BY PipelineTyped
  <2>2. CASE Pipeline!ReadRow BY <2>1, <2>2
  <2>3. CASE Pipeline!WriteChunk BY <2>1, <2>3
  <2>4. CASE Pipeline!ChunkRead \/ Pipeline!EndCopy BY <2>1, <2>4
  <2> QED BY <2>2, <2>3, <2>4
<1>4. copied + chunk + out = a BY <1>1 DEF RowsConserved, a
<1>5. Pipeline!PipelineTypeOK'
  <2>1. copied' \in 0 .. MaxRecords
    <3>1. MaxRecords \in Nat /\ Len(records) \in 0 .. MaxRecords BY PipelineTyped
    <3>2. next <= MaxRecords + 1 BY <1>2, <3>1 DEF JqStatusTells
    <3>3. copied' + chunk' + out' <= next - 1 BY <1>2, <1>3, <1>4
    <3> QED BY <1>2, <1>3, <3>1, <3>2, <3>3, Summand
  <2>2. chunk' \in 0 .. ChunkRows /\ out' \in 0 .. OutCapacity
    BY PipelineTyped, PipelineAssumption DEF Pipeline!PipelineTypeOK, Pipeline!PipelineBounds
  <2> QED BY <1>1, <2>1, <2>2 DEF Pipeline!PipelineTypeOK
<1>6. RowsConserved' /\ DiagnosticsCounted'
  BY <1>1, <1>3, <1>4, CountsKept DEF RowsConserved, DiagnosticsCounted, a
<1>7. JqStatusTells' BY <1>1, CountsKept DEF JqStatusTells
<1>8. StreamEnded'
  BY PipelineTyped, PipelineAssumption DEF StreamEnded, Pipeline!Closed, Pipeline!PipelineBounds
<1>9. VerdictFits' BY <1>1 DEF VerdictFits, Pipeline!AcceptedIsWhole
<1> QED BY <1>5, <1>6, <1>7, <1>8, <1>9

\* A row count is returned only after the status of a process that has judged the whole file.
LEMMA CheckExitInv ==
  ASSUME PipelineInv, Pipeline!CheckExit
  PROVE  PipelineInv'
<1> USE DEF PipelineInv, Pipeline!CheckExit, Pipeline!process
<1>1. /\ UNCHANGED <<records, jq, signalled, next, out, chunk, copied, pipeFaults>>
      /\ reader = "stderr" /\ reader' = "stop" /\ err' = 0
  OBVIOUS
<1>2. Pipeline!PipelineTypeOK'
  BY <1>1, PipelineAssumption
  DEF Pipeline!PipelineTypeOK, Pipeline!PipelineBounds, Pipeline!Stopping
<1>3. RowsConserved' BY <1>1, CountsKept DEF RowsConserved
<1>4. DiagnosticsCounted'
  <2>1. next - 1 \in Nat BY PipelineTyped
  <2>2. 0 <= Cardinality(Pipeline!RefusedOf(next - 1)) BY <2>1, CountsTyped
  <2> QED BY <1>1, <2>2, CountsKept DEF DiagnosticsCounted
<1>5. JqStatusTells' BY <1>1, CountsKept DEF JqStatusTells
<1>6. StreamEnded' BY <1>1 DEF StreamEnded
<1>7. VerdictFits'
  <2>1. CASE Pipeline!Acceptable
    <3>1. /\ next = Len(records) + 1 /\ Len(records) \in Pipeline!AcceptedOf(Len(records))
          /\ jq = "zero" /\ copied >= 1
      BY <2>1 DEF Pipeline!Acceptable, JqStatusTells
    <3>2. chunk = 0 /\ out = 0 BY DEF StreamEnded
    <3>3. next - 1 = Len(records) BY <3>1, PipelineTyped
    <3>4. copied = Cardinality(Pipeline!AcceptedOf(Len(records)))
      <4>1. copied + chunk + out = Cardinality(Pipeline!AcceptedOf(Len(records)))
        BY <1>1, <3>3 DEF RowsConserved
      <4> QED BY <3>2, <4>1, PipelineTyped
    <3>5. Pipeline!AcceptedIsWhole'
      BY <1>1, <3>1, <3>4, CountsKept, SameCount DEF Pipeline!AcceptedIsWhole
    <3> QED BY <1>1, <2>1, <3>5 DEF VerdictFits
  <2>2. CASE ~Pipeline!Acceptable BY <2>2 DEF VerdictFits, Pipeline!AcceptedIsWhole
  <2> QED BY <2>1, <2>2
<1> QED BY <1>2, <1>3, <1>4, <1>5, <1>6, <1>7

\* The `finally` clause keeps the verdict, unless it raises.
LEMMA StoppingInv ==
  ASSUME PipelineInv,
         \/ Pipeline!Raise \/ Pipeline!StopProcess \/ Pipeline!Reaped \/ Pipeline!WaitTimesOut
         \/ Pipeline!ClosePipes
  PROVE  PipelineInv'
<1> USE DEF PipelineInv, Pipeline!Raise, Pipeline!StopProcess, Pipeline!Reaped,
            Pipeline!WaitTimesOut, Pipeline!ClosePipes, Pipeline!Stopping, Pipeline!process,
            Pipeline!pipes
<1>1. /\ UNCHANGED <<records, jq, next, chunk, copied>>
      /\ reader \notin {"idle", "done"} /\ reader' \in Pipeline!Stopping \cup {"done"}
      /\ (verdict' = verdict /\ reader \in Pipeline!Stopping) \/ verdict' = "raised"
      /\ (out' = out /\ err' = err) \/ (out' = 0 /\ err' = 0 /\ reader' = "done")
  OBVIOUS
<1>2. Pipeline!PipelineTypeOK'
  <2>1. pipeFaults' \in 0 .. MaxPipeFaults
    BY PipelineAssumption
    DEF Pipeline!PipelineTypeOK, Pipeline!PipelineBounds, Pipeline!PipeFault
  <2>2. signalled' \in BOOLEAN BY DEF Pipeline!PipelineTypeOK
  <2>3. out' \in 0 .. OutCapacity /\ err' \in 0 .. ErrCapacity
    BY <1>1, PipelineAssumption DEF Pipeline!PipelineTypeOK, Pipeline!PipelineBounds
  <2>4. verdict' \in {"none", "accepted", "raised"} BY <1>1 DEF Pipeline!PipelineTypeOK
  <2> QED BY <1>1, <2>1, <2>2, <2>3, <2>4 DEF Pipeline!PipelineTypeOK
<1>3. RowsConserved' BY <1>1, CountsKept DEF RowsConserved
<1>4. DiagnosticsCounted'
  <2>1. next - 1 \in Nat BY PipelineTyped
  <2>2. 0 <= Cardinality(Pipeline!RefusedOf(next - 1)) BY <2>1, CountsTyped
  <2> QED BY <1>1, <2>2, CountsKept DEF DiagnosticsCounted
<1>5. JqStatusTells' BY <1>1, CountsKept DEF JqStatusTells
<1>6. StreamEnded' BY <1>1 DEF StreamEnded
<1>7. VerdictFits' BY <1>1, CountsKept DEF VerdictFits, Pipeline!AcceptedIsWhole
<1> QED BY <1>2, <1>3, <1>4, <1>5, <1>6, <1>7

LEMMA PipelineInvStep == PipelineInv /\ [Next]_vars => PipelineInv'
<1> SUFFICES ASSUME PipelineInv, [Next]_vars PROVE PipelineInv' OBVIOUS
<1>1. CASE UNCHANGED pipelineVars
  <2>1. /\ UNCHANGED <<records, jq, signalled, next, out, err>>
        /\ UNCHANGED <<reader, chunk, copied, verdict, pipeFaults>>
    BY <1>1 DEF pipelineVars
  <2> QED BY <2>1, CountsKept
          DEF PipelineInv, Pipeline!PipelineTypeOK, RowsConserved, DiagnosticsCounted,
              JqStatusTells, StreamEnded, VerdictFits, Pipeline!AcceptedIsWhole
<1>2. CASE Pipeline!PipelineStep
  BY <1>2, JqRecordInv, JqEndInv, ReadingInv, CheckExitInv, StoppingInv
  DEF Pipeline!PipelineStep, Pipeline!JqStep, Pipeline!ReaderStep
<1> QED BY <1>1, <1>2, LaunchInv, PipelineMoves

LEMMA PipelineInitially == Init => PipelineInv
<1> SUFFICES ASSUME Init PROVE PipelineInv OBVIOUS
<1> USE DEF Init, Pipeline!PipelineInit, PipelineInv
<1>1. Len(records) = 0 /\ records \in Pipeline!Files
  <2>1. 0 \in 0 .. MaxRecords BY PipelineAssumption DEF Pipeline!PipelineBounds
  <2>2. records \in [1 .. 0 -> {"accepted", "refused"}] OBVIOUS
  <2> QED BY <2>1, <2>2 DEF Pipeline!Files
<1>2. Pipeline!PipelineTypeOK
  <2>1. /\ 1 \in 1 .. MaxRecords + 1 /\ 0 \in 0 .. OutCapacity /\ 0 \in 0 .. ErrCapacity
        /\ 0 \in 0 .. ChunkRows /\ 0 \in 0 .. MaxRecords /\ 0 \in 0 .. MaxPipeFaults
    BY PipelineAssumption DEF Pipeline!PipelineBounds
  <2> QED BY <1>1, <2>1 DEF Pipeline!PipelineTypeOK
<1>3. RowsConserved /\ DiagnosticsCounted
  <2>1. Pipeline!AcceptedOf(0) = {} /\ Pipeline!RefusedOf(0) = {}
    BY DEF Pipeline!AcceptedOf, Pipeline!RefusedOf
  <2>2. Cardinality(Pipeline!AcceptedOf(0)) = 0 /\ Cardinality(Pipeline!RefusedOf(0)) = 0
    BY <2>1, FS_EmptySet
  <2> QED BY <2>2 DEF RowsConserved, DiagnosticsCounted
<1> QED BY <1>1, <1>2, <1>3 DEF JqStatusTells, StreamEnded, VerdictFits, Pipeline!AcceptedIsWhole

-----------------------------------------------------------------------------
(* The parts, as the command sees them *)

\* jq may go on when Python is done, Python does not.
LEMMA PipelineStepFacts ==
  ASSUME PipelineInv, Pipeline!PipelineStep
  PROVE  /\ reader # "idle" /\ reader' # "idle"
         /\ reader = "done" => reader' = "done" /\ verdict' = verdict
<1>1. CASE Pipeline!JqRecord \/ Pipeline!JqExits \/ Pipeline!JqDies
  <2>1. jq = "running" /\ reader' = reader /\ verdict' = verdict
    BY <1>1 DEF Pipeline!JqRecord, Pipeline!JqExits, Pipeline!JqDies
  <2> QED BY <2>1 DEF PipelineInv, JqStatusTells
<1>2. CASE Pipeline!ReaderStep \/ Pipeline!Raise
  BY <1>2 DEF Pipeline!ReaderStep, Pipeline!Raise, Pipeline!ReadRow, Pipeline!ChunkRead,
              Pipeline!WriteChunk, Pipeline!EndCopy, Pipeline!CheckExit, Pipeline!StopProcess,
              Pipeline!Reaped, Pipeline!WaitTimesOut, Pipeline!ClosePipes, Pipeline!Stopping
<1> QED BY <1>1, <1>2 DEF Pipeline!PipelineStep, Pipeline!JqStep

LEMMA TransferStepFacts ==
  ASSUME Transfer!TransferStep
  PROVE  stage \notin {"idle", "stored", "failed"} /\ stage' # "idle"
BY DEF Transfer!TransferStep, Transfer!SendUnit, Transfer!AttemptFails, Transfer!PutStored,
       Transfer!PartStored, Transfer!Complete, Transfer!Abort

LEMMA CrunchbaseStepFacts ==
  ASSUME Crunchbase!CrunchbaseStep
  PROVE  \/ inspector' = inspector
         \/ /\ inspector \notin {"idle", "reported", "failed", "refused"}
            /\ inspector' # "idle"
<1>1. CASE \/ Crunchbase!OtherSession \/ Crunchbase!RollBack
           \/ \E t \in Tables : Crunchbase!LockWanted(t)
  BY <1>1 DEF Crunchbase!OtherSession, Crunchbase!LockGranted, Crunchbase!CommitChanges,
              Crunchbase!RollBack, Crunchbase!LockWanted, Crunchbase!inspectionVars
<1>2. CASE Crunchbase!InspectorStep \/ Crunchbase!StatementRefused
  BY <1>2
  DEF Crunchbase!InspectorStep, Crunchbase!StatementRefused, Crunchbase!ReadSchemas,
      Crunchbase!ReadRelations, Crunchbase!ReadSizes, Crunchbase!ReadDetails,
      Crunchbase!ReadNames, Crunchbase!LockTable, Crunchbase!Counted, Crunchbase!TimedOut,
      Crunchbase!Caught, Crunchbase!Conclude
<1> QED BY <1>1, <1>2 DEF Crunchbase!CrunchbaseStep

LEMMA PdlStepFacts ==
  ASSUME Files!PdlStep
  PROVE  phase \notin {"idle", "returned", "raised", "escaped"} /\ phase' # "idle"
BY DEF Files!PdlStep, Files!ReaderFails, Files!Broken, Files!CompareFiles, Files!CompareEnds,
       Files!DefaultParserIssues, Files!DefaultFails, Files!DefaultEnds,
       Files!ProbeJsonOffsets, Files!ProbesEnd, Files!Ends

PartStates == <<reader, verdict, stage, inspector, phase>>

\* A part takes steps only once it was started, and none after it has answered.
LEMMA PartSteps ==
  ASSUME PipelineInv,
         \/ PipelineAction(Pipeline!PipelineStep) \/ TransferAction \/ PdlAction
         \/ CrunchbaseAction(Crunchbase!CrunchbaseStep)
  PROVE  /\ UNCHANGED <<command, database_url, endpoint, keys, at_step, probed, result, exit>>
         /\ (reader = "idle") = (reader' = "idle") /\ (stage = "idle") = (stage' = "idle")
         /\ (inspector = "idle") = (inspector' = "idle") /\ (phase = "idle") = (phase' = "idle")
         /\ reader = "done" => reader' = "done" /\ verdict' = verdict
         /\ stage = "stored" => stage' = "stored"
         /\ inspector = "reported" => inspector' = "reported"
         /\ phase = "returned" => phase' = "returned"
<1>1. UNCHANGED <<command, database_url, endpoint, keys, at_step, probed, result, exit>>
  BY DEF PipelineAction, TransferAction, CrunchbaseAction, PdlAction, cliVars, environment
<1>2. CASE PipelineAction(Pipeline!PipelineStep)
  BY <1>1, <1>2, PipelineStepFacts
  DEF PipelineAction, transferVars, crunchbaseVars, pdlVars
<1>3. CASE TransferAction
  BY <1>1, <1>3, TransferStepFacts DEF TransferAction, pipelineVars, crunchbaseVars, pdlVars
<1>4. CASE CrunchbaseAction(Crunchbase!CrunchbaseStep)
  BY <1>1, <1>4, CrunchbaseStepFacts DEF CrunchbaseAction, pipelineVars, transferVars, pdlVars
<1>5. CASE PdlAction
  BY <1>1, <1>5, PdlStepFacts DEF PdlAction, pipelineVars, transferVars, crunchbaseVars
<1> QED BY <1>2, <1>3, <1>4, <1>5

-----------------------------------------------------------------------------
(* The command *)

LEMMA ProbedFacts ==
  ASSUME probed \in UNION {[1 .. n -> BOOLEAN] : n \in 0 .. 2}
  PROVE  /\ probed \in Seq(BOOLEAN) /\ Len(probed) \in 0 .. 2
         /\ \A ok \in BOOLEAN : Len(probed) # 2 =>
              /\ Append(probed, ok) \in UNION {[1 .. n -> BOOLEAN] : n \in 0 .. 2}
              /\ Len(Append(probed, ok)) = Len(probed) + 1
              /\ Append(probed, ok)[Len(probed) + 1] = ok
              /\ Len(probed) >= 1 => Append(probed, ok)[1] = probed[1]
<1>1. PICK n \in 0 .. 2 : probed \in [1 .. n -> BOOLEAN] OBVIOUS
<1>2. probed \in Seq(BOOLEAN) /\ Len(probed) = n BY <1>1
<1>3. SUFFICES ASSUME NEW ok \in BOOLEAN, n # 2
               PROVE  /\ Append(probed, ok) \in UNION {[1 .. k -> BOOLEAN] : k \in 0 .. 2}
                      /\ Len(Append(probed, ok)) = n + 1 /\ Append(probed, ok)[n + 1] = ok
                      /\ n >= 1 => Append(probed, ok)[1] = probed[1]
  BY <1>1, <1>2
<1>4. /\ Append(probed, ok) \in Seq(BOOLEAN) /\ Len(Append(probed, ok)) = n + 1
      /\ Append(probed, ok)[n + 1] = ok /\ \A k \in 1 .. n : Append(probed, ok)[k] = probed[k]
  BY <1>2, AppendProperties
<1>5. Append(probed, ok) \in [1 .. n + 1 -> BOOLEAN] BY <1>4, LenProperties
<1>6. n + 1 \in 0 .. 2 BY <1>1, <1>3
<1> QED BY <1>4, <1>5, <1>6

CommandTyped ==
  /\ command \in Commands \cup {"none"} /\ probed \in UNION {[1 .. n -> BOOLEAN] : n \in 0 .. 2}
  /\ at_step \in {"start", "ready", "prepared", "working", "answered", "exited"}
  /\ result \in {"none", "returned", "raised", "escaped"} /\ exit \in {0, 1, Running}

LEMMA CommandParts ==
  CommandInv <=> CommandTyped /\ ConfiguredOnly /\ PartFits /\ DoctorFits /\ AnswerFits
BY DEF CommandInv, CommandTyped

LEMMA LoadInv ==
  ASSUME CommandInv, NEW c \in Commands, Load(c), UNCHANGED parts
  PROVE  CommandInv'
<1>1. UNCHANGED PartStates
  BY DEF parts, pipelineVars, transferVars, crunchbaseVars, pdlVars, PartStates
<1>2. /\ command = "none" /\ command' = c /\ probed' = probed
      /\ \/ /\ EndpointEscapes(c)' /\ at_step' = "answered" /\ result' = "escaped"
            /\ exit' = exit
         \/ Configured(c)' /\ at_step' = "ready" /\ result' = result /\ exit' = exit
         \/ ~Configured(c)' /\ at_step' = "exited" /\ result' = result /\ exit' = 1
  BY DEF Load, Leave
<1>3. /\ at_step = "start" /\ Idle /\ probed = <<>> /\ result = "none" /\ exit = Running
  BY <1>2 DEF CommandInv, PartFits, DoctorFits, AnswerFits, Answered
<1>4. Idle' BY <1>1, <1>3 DEF PartStates, Idle
<1>5. Configured(c)' <=> Configured(command)'
  BY <1>2 DEF Configured, DatabaseConfigured, StorageConfigured, Required, ValidEndpoint
<1>6. ~Configured(c)' => c # "doctor"
  BY DEF Configured
<1>7. CommandTyped' BY <1>2 DEF CommandParts, CommandInv, CommandTyped
<1>8. ConfiguredOnly'
  <2>1. /\ database_url' \in {"absent", "blank", "malformed", "good"}
        /\ endpoint' \in {"absent", "unparsable", "relative", "with_credentials", "good"}
        /\ keys' \in {"absent", "good"}
    BY DEF Load, FromEnvironment, CommandInv, ConfiguredOnly
  <2> QED BY <1>2, <1>4, <1>5, <2>1 DEF ConfiguredOnly
<1>9. PartFits' BY <1>4 DEF PartFits, Idle
<1>10. DoctorFits'
  <2>1. EndpointEscapes(c)' => EndpointEscapes(command)'
    BY <1>2 DEF EndpointEscapes, ReadsStorage, Required
  <2>2. Len(probed') = 0 BY <1>2, <1>3
  <2> QED BY <1>2, <1>3, <1>6, <2>1, <2>2 DEF DoctorFits, Commands, Answered
<1>11. AnswerFits' BY <1>2, <1>3 DEF AnswerFits, Commands, Answered, Running
<1> QED BY <1>7, <1>8, <1>9, <1>10, <1>11, CommandParts DEF CommandInv, CommandTyped

LEMMA ProbeStepInv ==
  ASSUME CommandInv, Probe, UNCHANGED parts
  PROVE  CommandInv'
<1>1. UNCHANGED PartStates
  BY DEF parts, pipelineVars, transferVars, crunchbaseVars, pdlVars, PartStates
<1>2. PICK ok \in BOOLEAN :
        /\ at_step = "ready" /\ command = "doctor" /\ Len(probed) # 2
        /\ ok => IF probed = <<>> THEN DatabaseConfigured ELSE StorageConfigured
        /\ probed' = Append(probed, ok)
        /\ UNCHANGED <<command, database_url, endpoint, keys, at_step, result, exit>>
  BY DEF Probe, BothProbed, environment
<1>3. probed \in UNION {[1 .. n -> BOOLEAN] : n \in 0 .. 2} BY DEF CommandInv
<1>4. /\ Len(probed) \in 0 .. 2 /\ probed \in Seq(BOOLEAN)
      /\ probed' \in UNION {[1 .. n -> BOOLEAN] : n \in 0 .. 2}
      /\ probed'[Len(probed) + 1] = ok /\ (Len(probed) >= 1 => probed'[1] = probed[1])
  BY <1>2, <1>3, ProbedFacts
<1>5. CommandInv' <=> CommandTyped' /\ ConfiguredOnly' /\ PartFits' /\ DoctorFits' /\ AnswerFits'
  BY DEF CommandInv, CommandTyped
<1>6. CommandTyped' BY <1>2, <1>4 DEF CommandInv, CommandTyped
<1>7. ConfiguredOnly' /\ PartFits'
  BY <1>1, <1>2
  DEF CommandInv, ConfiguredOnly, PartFits, PartStates, Idle, Configured, DatabaseConfigured,
      StorageConfigured, Required, ValidEndpoint
<1>8. DoctorFits'
  <2>1. DatabaseConfigured' = DatabaseConfigured BY <1>2 DEF DatabaseConfigured, Required
  <2>2. probed'[1] => DatabaseConfigured
    <3>1. CASE probed = <<>> BY <1>2, <1>4, <3>1
    <3>2. CASE probed # <<>>
      <4>1. Len(probed) >= 1 BY <1>4, <3>2
      <4> QED BY <1>4, <4>1 DEF CommandInv, DoctorFits
    <3> QED BY <3>1, <3>2
  <2>3. result' # "escaped" BY <1>2 DEF CommandInv, AnswerFits, Answered
  <2> QED BY <1>2, <2>1, <2>2, <2>3 DEF DoctorFits, Answered
<1>9. AnswerFits' BY <1>1, <1>2 DEF CommandInv, AnswerFits, Answered, PartStates
<1> QED BY <1>5, <1>6, <1>7, <1>8, <1>9

Finishes == Doctor \/ Migrate \/ Prepare \/ InspectCrunchbase \/ InspectFiles \/ Archive \/ Import

\* The answer of a command is that of the part it waits for.
LEMMA AnswerInv ==
  ASSUME PipelineInv, CommandInv, Finishes, UNCHANGED parts
  PROVE  CommandInv'
<1>1. UNCHANGED PartStates
  BY DEF parts, pipelineVars, transferVars, crunchbaseVars, pdlVars, PartStates
<1>2. /\ UNCHANGED <<command, database_url, endpoint, keys, probed, exit>>
      /\ at_step \in {"ready", "working"} /\ at_step' \in {"prepared", "answered"}
      /\ at_step' = "prepared" => at_step = "ready" /\ result' = result
      /\ at_step' = "answered" => result' \in {"returned", "raised", "escaped"}
  BY DEF Finishes, Doctor, Migrate, Prepare, InspectCrunchbase, InspectFiles, Archive, Import,
         Follows, Call, Returns, Become, environment
<1>3. command # "none" /\ result = "none" /\ exit = Running
  BY <1>2 DEF CommandInv, AnswerFits, Answered
<1>4. at_step = "working" =>
        reader # "idle" \/ stage # "idle" \/ inspector # "idle" \/ phase # "idle"
  BY DEF Finishes, Doctor, Migrate, Prepare, InspectCrunchbase, InspectFiles, Archive, Import
<1>5. command = "doctor" /\ at_step' = "answered" => Len(probed) = 2
  BY <1>2, <1>4
  DEF Finishes, Doctor, Migrate, Prepare, InspectCrunchbase, InspectFiles, Archive, Import,
      BothProbed, CommandInv, PartFits
<1>6. result' = "returned" =>
       /\ command = "doctor" => probed = <<TRUE, TRUE>>
       /\ command = "import_companies" => reader = "done" /\ verdict = "accepted"
       /\ command = "pdl_archive" => stage = "stored"
       /\ command = "crunchbase_inspect" => inspector = "reported"
       /\ command = "pdl_inspect" => phase = "returned"
  <2>1. CASE Doctor BY <2>1 DEF Doctor, Returns
  <2>2. CASE Migrate BY <2>2 DEF Migrate
  <2>3. CASE Prepare BY <1>3, <2>3 DEF Prepare, Become, Returns
  <2>4. CASE InspectCrunchbase
    BY <2>4 DEF InspectCrunchbase, Returns, CommandInv, PartFits
  <2>5. CASE InspectFiles BY <2>5 DEF InspectFiles, Returns, CommandInv, PartFits
  <2>6. CASE Archive BY <2>6 DEF Archive, Follows, Returns, CommandInv, PartFits
  <2>7. CASE Import BY <2>7 DEF Import, Follows, Returns, CommandInv, PartFits
  <2> QED BY <2>1, <2>2, <2>3, <2>4, <2>5, <2>6, <2>7 DEF Finishes
<1>7. CommandInv' <=> CommandTyped' /\ ConfiguredOnly' /\ PartFits' /\ DoctorFits' /\ AnswerFits'
  BY DEF CommandInv, CommandTyped
<1>8. CommandTyped' BY <1>2, <1>3 DEF CommandInv, CommandTyped
<1>9. ConfiguredOnly' /\ PartFits'
  BY <1>1, <1>2
  DEF CommandInv, ConfiguredOnly, PartFits, PartStates, Idle, Configured, DatabaseConfigured,
      StorageConfigured, Required, ValidEndpoint
<1>10. DoctorFits'
  <2>1. result' = "escaped" => command = "pdl_inspect"
    BY <1>3
    DEF Finishes, Doctor, Migrate, Prepare, InspectCrunchbase, InspectFiles, Archive, Import,
        Follows, Call, Returns, Become, CommandInv, PartFits
  <2> QED BY <1>2, <1>3, <1>5, <2>1
          DEF CommandInv, DoctorFits, Answered, DatabaseConfigured, EndpointEscapes,
              ReadsStorage, Required
<1>11. AnswerFits'
  BY <1>1, <1>2, <1>3, <1>6 DEF CommandInv, AnswerFits, Answered, PartStates, Running
<1> QED BY <1>7, <1>8, <1>9, <1>10, <1>11

LEMMA ExitInv ==
  ASSUME CommandInv, Exit, UNCHANGED parts
  PROVE  CommandInv'
<1>1. UNCHANGED PartStates
  BY DEF parts, pipelineVars, transferVars, crunchbaseVars, pdlVars, PartStates
<1>2. /\ at_step = "answered" /\ at_step' = "exited"
      /\ exit' = IF result = "returned" THEN 0 ELSE 1
      /\ UNCHANGED <<command, database_url, endpoint, keys, probed, result>>
  BY DEF Exit, Leave, environment
<1>3. CommandInv' <=> CommandTyped' /\ ConfiguredOnly' /\ PartFits' /\ DoctorFits' /\ AnswerFits'
  BY DEF CommandInv, CommandTyped
<1>4. CommandTyped' BY <1>2 DEF CommandInv, CommandTyped
<1>5. ConfiguredOnly' /\ PartFits'
  BY <1>1, <1>2
  DEF CommandInv, ConfiguredOnly, PartFits, PartStates, Idle, Configured, DatabaseConfigured,
      StorageConfigured, Required, ValidEndpoint
<1>6. DoctorFits'
  BY <1>2 DEF CommandInv, DoctorFits, Answered, DatabaseConfigured, EndpointEscapes,
      ReadsStorage, Required
<1>7. AnswerFits'
  <2>1. exit' \in {0, 1} /\ exit' # Running /\ (exit' = 0 => result = "returned")
    BY <1>2 DEF Running
  <2>2. AnswerFits BY DEF CommandInv
  <2>3. command # "none" BY <1>2, <2>2 DEF AnswerFits
  <2> QED BY <1>1, <1>2, <2>1, <2>2, <2>3 DEF AnswerFits, Answered, PartStates
<1> QED BY <1>3, <1>4, <1>5, <1>6, <1>7

\* A part begins with its command prepared, so with its configuration.
LEMMA StartPartInv ==
  ASSUME CommandInv, StartPart
  PROVE  CommandInv'
<1>1. /\ at_step = "prepared" /\ at_step' = "working"
      /\ UNCHANGED <<command, database_url, endpoint, keys, probed, result, exit>>
  BY DEF StartPart, Begins, Become, environment
<1>2. Idle /\ Configured(command) /\ result = "none" /\ command # "none" /\ exit = Running
  BY <1>1 DEF CommandInv, PartFits, ConfiguredOnly, AnswerFits, Answered
<1>3. /\ reader' # "idle" => command = "import_companies"
      /\ stage' # "idle" => command = "pdl_archive"
      /\ inspector' # "idle" => command = "crunchbase_inspect"
      /\ phase' # "idle" => command = "pdl_inspect"
  BY <1>2 DEF StartPart, Begins, Idle, pipelineVars, transferVars, crunchbaseVars, pdlVars
<1>4. CommandInv' <=> CommandTyped' /\ ConfiguredOnly' /\ PartFits' /\ DoctorFits' /\ AnswerFits'
  BY DEF CommandInv, CommandTyped
<1>5. CommandTyped' BY <1>1 DEF CommandInv, CommandTyped
<1>6. ConfiguredOnly'
  BY <1>1, <1>2
  DEF CommandInv, ConfiguredOnly, Configured, DatabaseConfigured, StorageConfigured, Required,
      ValidEndpoint
<1>7. PartFits' BY <1>1, <1>3 DEF PartFits
<1>8. DoctorFits'
  BY <1>1 DEF CommandInv, DoctorFits, Answered, DatabaseConfigured, EndpointEscapes,
      ReadsStorage, Required
<1>9. AnswerFits' BY <1>1, <1>2 DEF CommandInv, AnswerFits, Answered, Running
<1> QED BY <1>4, <1>5, <1>6, <1>7, <1>8, <1>9

LEMMA PartStepInv ==
  ASSUME PipelineInv, CommandInv,
         \/ PipelineAction(Pipeline!PipelineStep) \/ TransferAction \/ PdlAction
         \/ CrunchbaseAction(Crunchbase!CrunchbaseStep)
  PROVE  CommandInv'
<1>1. CommandInv' <=> CommandTyped' /\ ConfiguredOnly' /\ PartFits' /\ DoctorFits' /\ AnswerFits'
  BY DEF CommandInv, CommandTyped
<1>2. Idle' = Idle BY PartSteps DEF Idle
<1>3. CommandTyped' BY PartSteps DEF CommandInv, CommandTyped
<1>4. ConfiguredOnly'
  BY <1>2, PartSteps
  DEF CommandInv, ConfiguredOnly, Configured, DatabaseConfigured, StorageConfigured, Required,
      ValidEndpoint
<1>5. PartFits' BY <1>2, PartSteps DEF CommandInv, PartFits
<1>6. DoctorFits'
  BY PartSteps DEF CommandInv, DoctorFits, Answered, DatabaseConfigured, EndpointEscapes,
      ReadsStorage, Required
<1>7. AnswerFits' BY PartSteps DEF CommandInv, AnswerFits, Answered
<1> QED BY <1>1, <1>3, <1>4, <1>5, <1>6, <1>7

LEMMA CommandInvStep == PipelineInv /\ CommandInv /\ [Next]_vars => CommandInv'
<1> SUFFICES ASSUME PipelineInv, CommandInv, [Next]_vars PROVE CommandInv' OBVIOUS
<1>1. CASE UNCHANGED vars
  <2>1. /\ UNCHANGED <<command, database_url, endpoint, keys, at_step, probed, result, exit>>
        /\ UNCHANGED PartStates
    BY <1>1 DEF vars, cliVars, environment, parts, pipelineVars, transferVars, crunchbaseVars,
                pdlVars, PartStates
  <2>2. ConfiguredOnly'
    BY <2>1
    DEF CommandInv, ConfiguredOnly, Configured, DatabaseConfigured, StorageConfigured, Required,
        ValidEndpoint, Idle, PartStates
  <2>3. PartFits' /\ AnswerFits'
    BY <2>1 DEF CommandInv, PartFits, AnswerFits, Answered, Idle, PartStates
  <2>4. DoctorFits'
    BY <2>1 DEF CommandInv, DoctorFits, Answered, DatabaseConfigured, EndpointEscapes,
      ReadsStorage, Required
  <2> QED BY <2>1, <2>2, <2>3, <2>4 DEF CommandInv
<1>2. CASE CliStep
  BY <1>2, ProbeStepInv, AnswerInv, ExitInv DEF CliStep, Finishes
<1>3. CASE Hangs \/ Exited BY <1>1, <1>3 DEF Hangs, Exited
<1> QED BY <1>1, <1>2, <1>3, LoadInv, StartPartInv, PartStepInv DEF Next

LEMMA CommandInitially == Init => CommandInv
<1> SUFFICES ASSUME Init PROVE CommandInv OBVIOUS
<1>1. /\ command = "none" /\ at_step = "start" /\ result = "none" /\ exit = Running
      /\ database_url = "absent" /\ endpoint = "absent" /\ keys = "absent" /\ probed = <<>>
      /\ Idle
  BY DEF Init, Idle, Pipeline!PipelineInit, Transfer!TransferInit, Crunchbase!CrunchbaseInit,
         Files!PdlInit
<1>2. probed \in UNION {[1 .. n -> BOOLEAN] : n \in 0 .. 2}
  <2>1. probed \in [1 .. 0 -> BOOLEAN] /\ 0 \in 0 .. 2 BY <1>1
  <2> QED BY <2>1
<1>3. ConfiguredOnly /\ PartFits BY <1>1 DEF ConfiguredOnly, PartFits, Idle
<1>4. DoctorFits /\ AnswerFits
  <2>1. Len(probed) = 0 BY <1>1
  <2> QED BY <1>1, <2>1 DEF DoctorFits, AnswerFits, Answered, Running
<1> QED BY <1>1, <1>2, <1>3, <1>4 DEF CommandInv

-----------------------------------------------------------------------------
\* The inductive invariant holds of every command with every part.
THEOREM Inductive == Spec => []IInv
<1>1. Init => IInv
  BY PipelineInitially, TransferInitially, CrunchbaseInitially, PdlInitially, CommandInitially
  DEF IInv
<1>2. IInv /\ [Next]_vars => IInv'
  BY PipelineInvStep, TransferInvStep, CrunchbaseInvStep, PdlInvStep, CommandInvStep DEF IInv
<1> QED BY <1>1, <1>2, PTL DEF Spec

\* Every variable keeps its type.
THEOREM TypeCorrect == Spec => []TypeOK
<1>1. IInv => TypeOK
  BY DEF IInv, TypeOK, PipelineInv, TransferInv, CrunchbaseInv, PdlInv, CommandInv
<1> QED BY <1>1, Inductive, PTL

\* cli.py: exit status 0 means that the whole command was done, with jq the judge of a file's last
\* record; doctor has probed both services unless its endpoint escaped; and nothing was begun on
\* a configuration that is missing or refused.
THEOREM StatusIsOutcome == Spec => []ExitTellsOutcome
<1>1. IInv => ExitTellsOutcome
  <2> SUFFICES ASSUME IInv PROVE ExitTellsOutcome OBVIOUS
  <2>1. DatabaseConfigured => database_url = "good"
    BY DEF IInv, CommandInv, ConfiguredOnly, DatabaseConfigured, Required
  <2>2. StorageConfigured => endpoint = "good" /\ keys = "good"
    BY DEF IInv, CommandInv, ConfiguredOnly, StorageConfigured, Required, ValidEndpoint
  <2>3. ASSUME exit = 0
        PROVE  /\ command = "doctor" => database_url = "good" /\ probed = <<TRUE, TRUE>>
               /\ command = "import_companies" => Pipeline!AcceptedIsWhole /\ verdict = "accepted"
               /\ command = "pdl_archive" => stage = "stored"
               /\ command = "crunchbase_inspect" =>
                    inspector = "reported" /\ Crunchbase!ReportAccounts
               /\ command = "pdl_inspect" => phase = "returned"
    <3>1. result = "returned" BY <2>3 DEF IInv, CommandInv, AnswerFits
    <3>2. probed = <<TRUE, TRUE>> => database_url = "good"
      BY <2>1 DEF IInv, CommandInv, DoctorFits
    <3>3. Pipeline!AcceptedIsWhole /\ Crunchbase!ReportAccounts
      BY DEF IInv, PipelineInv, VerdictFits, CrunchbaseInv
    <3> QED BY <3>1, <3>2, <3>3 DEF IInv, CommandInv, AnswerFits
  <2>4. exit # Running /\ command = "doctor" => Len(probed) = 2 \/ EndpointEscapes(command)
    BY DEF IInv, CommandInv, AnswerFits, DoctorFits, Answered
  <2>5. database_url # "good" => Idle \/ command = "pdl_inspect"
    BY <2>1 DEF IInv, CommandInv, ConfiguredOnly, PartFits, Configured, Idle
  <2>6. endpoint # "good" \/ keys # "good" => stage = "idle"
    BY <2>2 DEF IInv, CommandInv, ConfiguredOnly, PartFits, Configured, Idle
  <2> QED BY <2>3, <2>4, <2>5, <2>6 DEF ExitTellsOutcome
<1> QED BY <1>1, Inductive, PTL

\* import_companies.py:280-303: jq and Python wait for one another only over the pipe that is
\* read last: it is full, and the file has more refused records than it holds diagnostics.  The
\* sizes of the other pipe, of a chunk and of a file do not matter.
THEOREM StallsOverDiagnostics == Spec => []OnlyDiagnosticsStall
<1>1. ASSUME PipelineInv PROVE OnlyDiagnosticsStall
  <2>1. SUFFICES ASSUME Pipeline!Stalled PROVE err = ErrCapacity /\ Pipeline!TooManyRefused
    BY DEF OnlyDiagnosticsStall, Pipeline!OnlyDiagnosticsStall
  <2>2. reader # "stderr"
    BY <1>1, <2>1 DEF PipelineInv, StreamEnded, Pipeline!Stalled, Pipeline!JqWaits
  <2>3. out = 0 BY <2>1, <2>2 DEF Pipeline!Stalled, Pipeline!PythonWaits
  <2>4. OutCapacity # 0 /\ ErrCapacity \in Nat BY PipelineAssumption DEF Pipeline!PipelineBounds
  <2>5. err = ErrCapacity /\ Pipeline!Refuses(records[next]) /\ next <= Len(records)
    BY <2>1, <2>3, <2>4 DEF Pipeline!Stalled, Pipeline!JqWaits
  <2>6. next \in Nat \ {0} /\ next - 1 \in Nat /\ Len(records) \in Nat BY <1>1, PipelineTyped
  <2> DEFINE refused == Cardinality(Pipeline!RefusedOf(next - 1))
             all == Cardinality(Pipeline!RefusedOf(Len(records)))
  <2>7. err <= refused BY <1>1 DEF PipelineInv, DiagnosticsCounted
  <2>8. refused + 1 <= all
    <3>1. Cardinality(Pipeline!RefusedOf(next)) = refused + 1 BY <1>1, <2>5, RecordCounted
    <3>2. /\ Pipeline!RefusedOf(next) \subseteq Pipeline!RefusedOf(Len(records))
          /\ Pipeline!RefusedOf(Len(records)) \subseteq 1 .. Len(records)
      BY <2>5, <2>6 DEF Pipeline!RefusedOf
    <3>3. IsFiniteSet(Pipeline!RefusedOf(Len(records))) BY <2>6, <3>2, CountBelow
    <3>4. Cardinality(Pipeline!RefusedOf(next)) <= all BY <3>2, <3>3, FS_Subset
    <3> QED BY <3>1, <3>4
  <2>9. refused \in Nat /\ all \in Nat
    <3>1. refused \in 0 .. next - 1 BY <2>6, CountsTyped
    <3>2. all \in 0 .. Len(records) BY <2>6, CountsTyped
    <3> HIDE DEF refused, all
    <3> QED BY <2>6, <3>1, <3>2
  <2> HIDE DEF refused, all
  <2>10. all > ErrCapacity BY <2>4, <2>5, <2>7, <2>8, <2>9
  <2> QED BY <2>5, <2>10, SameCount DEF Pipeline!TooManyRefused, all
<1> QED BY <1>1, Inductive, PTL DEF IInv
=============================================================================
