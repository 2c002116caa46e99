---------------------------- MODULE UploadTransfer ----------------------------
(***************************************************************************)
(* The transfer of one original by _ensure_file_object of                  *)
(* src/datatown/pdl/archive.py: upload_file with TRANSFER_CONFIG, the      *)
(* retry handler of its parts and the progress reporter.                   *)
(*                                                                         *)
(* A file is a number of units.  Less than a part is one PutObject, whose  *)
(* retries are those of the SDK (storage.py); anything else is sent part   *)
(* after part, completed, or aborted as soon as one part is given up.      *)
(***************************************************************************)
EXTENDS Naturals, Sequences

CONSTANTS
  MaxUnits,      \* bound on the size of a file
  PartUnits,     \* MULTIPART_PART_SIZE
  PartAttempts,  \* MAX_UPLOAD_PART_ATTEMPTS
  SdkAttempts    \* attempts the SDK makes of any request

\* What the constants are.
TransferBounds ==
  /\ MaxUnits \in Nat /\ PartUnits \in Nat \ {0}
  /\ PartAttempts \in Nat \ {0} /\ SdkAttempts \in 1 .. PartAttempts

VARIABLES
  stage,          \* "idle", "put", "part", "complete", "abort", "stored" or "failed"
  size,           \* units of the file
  part, attempt,  \* the part being sent, and which attempt it is
  sent,           \* units of it sent by this attempt
  remote,         \* parts the store has acknowledged
  cause,          \* the error of the attempt that was given up
  failures,       \* attempts of this part that have failed
  transferred,    \* counted by _UploadProgress
  next_percentage,
  reported        \* percentages shown to the operator

progress == <<transferred, next_percentage, reported>>
transferVars == <<stage, size, part, attempt, sent, remote, cause, failures, progress>>

TransferInit ==
  /\ stage = "idle" /\ size = 0
  /\ part = 1 /\ attempt = 1 /\ sent = 0 /\ remote = 0 /\ cause = "none" /\ failures = 0
  /\ transferred = 0 /\ next_percentage = 10 /\ reported = <<>>

\* The threshold of multipart transfers is the size of a part.
StartTransfer ==
  /\ stage = "idle"
  /\ size' \in 0 .. MaxUnits
  /\ stage' = IF size' < PartUnits THEN "put" ELSE "part"
  /\ UNCHANGED <<part, attempt, sent, remote, cause, failures, progress>>

Parts == (size + PartUnits - 1) \div PartUnits
PartLength ==
  IF stage = "put" THEN size
  ELSE IF part < Parts THEN PartUnits ELSE size - (part - 1) * PartUnits
-----------------------------------------------------------------------------
(* _UploadProgress *)

Percentage(units) ==
  IF size = 0 \/ units >= size THEN 100 ELSE (units * 100) \div size

\* Slip: the next threshold follows the percentage down when a part is sent again.
CountAnything(units) ==
  /\ transferred' = units
  /\ next_percentage' = ((Percentage(units) \div 10) + 1) * 10
  /\ reported' = IF Percentage(units) >= next_percentage
                 THEN Append(reported, Percentage(units)) ELSE reported

\* The callback: units of the file transferred after it.
Count(units) ==
  /\ transferred' = units
  /\ IF Percentage(units) < next_percentage
     THEN UNCHANGED <<next_percentage, reported>>
     ELSE /\ next_percentage' = ((Percentage(units) \div 10) + 1) * 10
          /\ reported' = Append(reported, Percentage(units))
-----------------------------------------------------------------------------
SendUnit ==
  /\ stage \in {"put", "part"} /\ sent < PartLength
  /\ sent' = sent + 1
  /\ Count(transferred + 1)
  /\ UNCHANGED <<stage, size, part, attempt, remote, cause, failures>>

Errors == {"tls", "transient", "fatal"}

\* Slips: the bound of the SDK holds for all errors; there is no bound.
RetriedBySdk(error) == error # "fatal" /\ attempt < SdkAttempts
RetriedForEver(error) == error # "fatal"

\* _retry_ssl_upload_part is asked about parts only, and the handler of the SDK beside it.
Retried(error) ==
  \/ error = "tls" /\ stage = "part" /\ attempt < PartAttempts
  \/ error # "fatal" /\ attempt < SdkAttempts

\* The attempt fails, before or after it was sent: the stream is rewound and the part sent
\* again, or the part is given up.
AttemptFails ==
  /\ stage \in {"put", "part"}
  /\ failures' = failures + 1
  /\ \E error \in Errors :
       IF Retried(error)
       THEN /\ attempt' = attempt + 1 /\ sent' = 0
            /\ IF sent = 0 THEN UNCHANGED progress ELSE Count(transferred - sent)
            /\ UNCHANGED <<stage, cause>>
       ELSE /\ cause' = error
            /\ stage' = IF stage = "put" THEN "failed" ELSE "abort"
            /\ UNCHANGED <<attempt, sent, progress>>
  /\ UNCHANGED <<size, part, remote>>

PutStored ==
  /\ stage = "put" /\ sent = PartLength
  /\ stage' = "stored"
  /\ UNCHANGED <<size, part, attempt, sent, remote, cause, failures, progress>>

AllSent == part = Parts

PartStored ==
  /\ stage = "part" /\ sent = PartLength
  /\ remote' = remote + 1
  /\ attempt' = 1 /\ sent' = 0 /\ failures' = 0 /\ part' = part + 1
  /\ stage' = IF AllSent THEN "complete" ELSE "part"
  /\ UNCHANGED <<size, cause, progress>>

\* CompleteMultipartUpload: an error of it gives up the whole object.
Complete ==
  /\ stage = "complete"
  /\ \/ stage' = "stored" /\ UNCHANGED cause
     \/ stage' = "abort" /\ cause' = "fatal"
  /\ UNCHANGED <<size, part, attempt, sent, remote, failures, progress>>

\* s3transfer aborts the multipart upload: its parts are discarded.
Abort ==
  /\ stage = "abort"
  /\ stage' = "failed" /\ remote' = 0
  /\ UNCHANGED <<size, part, attempt, sent, cause, failures, progress>>

TransferStep == SendUnit \/ AttemptFails \/ PutStored \/ PartStored \/ Complete \/ Abort
-----------------------------------------------------------------------------
(* Properties *)

\* Every variable has its type.
TransferTypeOK ==
  /\ stage \in {"idle", "put", "part", "complete", "abort", "stored", "failed"}
  /\ size \in 0 .. MaxUnits /\ part \in 1 .. MaxUnits + 1 /\ attempt \in 1 .. PartAttempts
  /\ sent \in 0 .. MaxUnits /\ remote \in 0 .. MaxUnits
  /\ cause \in Errors \cup {"none"} /\ failures \in 0 .. PartAttempts
  /\ transferred \in 0 .. MaxUnits
  /\ next_percentage \in {10 * k : k \in 1 .. 11} /\ reported \in Seq(0 .. 100)

\* docs/metadata.md:64-65: TLS errors give up a multipart object, and the parts transferred
\* before, only when the one part has failed as often as the bound says, not the file.
AbortedForCause ==
  stage \in {"abort", "failed"} /\ size >= PartUnits =>
    /\ cause = "tls" => failures = PartAttempts
    /\ cause = "transient" => failures >= SdkAttempts

\* The operator sees percentages of ever higher deciles, although a part that is sent again
\* takes the count back, and 100 before a file that is not empty is stored.
ReportsAscend ==
  /\ \A k \in 2 .. Len(reported) : reported[k - 1] \div 10 < reported[k] \div 10
  /\ stage = "stored" /\ size > 0 => reported # <<>> /\ reported[Len(reported)] = 100
=============================================================================
