------------------------------ MODULE UploadProofs ------------------------------
(***************************************************************************)
(* Proofs about UploadTransfer, as a part of Cli: for every size of file,  *)
(* size of part and bound on attempts.                                     *)
(***************************************************************************)
EXTENDS CliInv, SequenceTheorems, TLAPS

LEMMA TransferMoves ==
  ASSUME [Next]_vars
  PROVE  Transfer!StartTransfer \/ Transfer!TransferStep \/ UNCHANGED transferVars
BY DEF Next, vars, parts, CliStep, StartPart, PipelineAction, TransferAction, CrunchbaseAction,
       PdlAction, Hangs, Exited

LEMMA Products ==
  ASSUME NEW x \in Nat, NEW y \in Nat, NEW k \in Nat, x <= y
  PROVE  x * k <= y * k /\ x * k \in Nat /\ y * k \in Nat /\ (x + 1) * k = x * k + k
OBVIOUS

LEMMA Division ==
  ASSUME NEW x \in Nat, NEW y \in Nat \ {0}
  PROVE  x \div y \in Nat /\ (x \div y) * y <= x /\ x < (x \div y) * y + y
OBVIOUS

PartsOf(file) == (file + PartUnits - 1) \div PartUnits
LengthOf(file, n) ==
  IF n < PartsOf(file) THEN PartUnits ELSE file - (n - 1) * PartUnits

\* A file is cut into parts of one length, the last of which may be shorter.
LEMMA PartFacts ==
  ASSUME NEW file \in Nat, file >= PartUnits
  PROVE  /\ PartsOf(file) \in 1 .. file
         /\ PartsOf(file) * PartUnits - PartUnits < file
         /\ file <= PartsOf(file) * PartUnits
<1> DEFINE n == PartsOf(file)
<1>1. PartUnits \in Nat \ {0} BY TransferAssumption DEF Transfer!TransferBounds
<1>2. file + PartUnits - 1 \in Nat BY <1>1
<1>3. /\ n \in Nat /\ n * PartUnits <= file + PartUnits - 1
      /\ file + PartUnits - 1 < n * PartUnits + PartUnits
  BY <1>1, <1>2, Division DEF PartsOf
<1> HIDE DEF n
<1>4. n * PartUnits \in Nat BY <1>1, <1>3, Products
<1>5. n * PartUnits - PartUnits < file /\ file <= n * PartUnits BY <1>1, <1>3, <1>4
<1>6. n # 0 BY <1>1, <1>5
<1>7. n <= n * PartUnits - PartUnits + 1
  <2>1. n - 1 \in Nat /\ (n - 1) + 1 = n BY <1>3, <1>6
  <2>2. (n - 1) * 1 <= (n - 1) * PartUnits BY <1>1, <2>1
  <2>3. n * PartUnits = (n - 1) * PartUnits + PartUnits BY <1>1, <2>1, Products
  <2> QED BY <1>1, <1>4, <2>1, <2>2, <2>3
<1>8. n <= file BY <1>1, <1>3, <1>4, <1>5, <1>7
<1> QED BY <1>3, <1>5, <1>6, <1>8 DEF n

\* Where a part begins and how long it is: the last one ends where the file does.
LEMMA PartPlaces ==
  ASSUME NEW file \in Nat, file >= PartUnits, NEW k \in 1 .. PartsOf(file)
  PROVE  /\ LengthOf(file, k) \in Nat \ {0}
         /\ (k - 1) * PartUnits \in Nat
         /\ (k - 1) * PartUnits + LengthOf(file, k) <= file
         /\ k = PartsOf(file) => (k - 1) * PartUnits + LengthOf(file, k) = file
         /\ k < PartsOf(file) => (k - 1) * PartUnits + LengthOf(file, k) = k * PartUnits
<1> DEFINE n == PartsOf(file)
           b == (k - 1) * PartUnits
<1>1. PartUnits \in Nat \ {0} BY TransferAssumption DEF Transfer!TransferBounds
<1>2. n \in 1 .. file /\ n * PartUnits - PartUnits < file /\ file <= n * PartUnits BY PartFacts
<1>3. k - 1 \in Nat /\ k \in Nat /\ n \in Nat /\ k <= n BY <1>2
<1>4. b \in Nat /\ b + PartUnits = k * PartUnits BY <1>1, <1>3, Products
<1>5. k * PartUnits <= n * PartUnits /\ n * PartUnits \in Nat /\ k * PartUnits \in Nat
  BY <1>1, <1>3, Products
<1>6. CASE k = n
  <2>1. LengthOf(file, k) = file - b BY <1>3, <1>6 DEF LengthOf
  <2>2. b < file BY <1>1, <1>2, <1>4, <1>5, <1>6
  <2> HIDE DEF b
  <2>3. file - b \in Nat \ {0} /\ b + (file - b) = file BY <1>4, <2>2
  <2> QED BY <1>4, <1>6, <2>1, <2>3 DEF b
<1>7. CASE k < n
  <2>1. LengthOf(file, k) = PartUnits BY <1>7 DEF LengthOf
  <2>2. k + 1 <= n /\ k + 1 \in Nat BY <1>3, <1>7
  <2>3. (k + 1) * PartUnits <= n * PartUnits /\ (k + 1) * PartUnits = k * PartUnits + PartUnits
    BY <1>1, <1>3, <2>2, Products
  <2>4. k * PartUnits <= n * PartUnits - PartUnits BY <1>1, <1>5, <2>3
  <2>5. b + PartUnits <= file BY <1>1, <1>2, <1>4, <1>5, <2>4
  <2> QED BY <1>1, <1>4, <1>7, <2>1, <2>5
<1> QED BY <1>3, <1>6, <1>7

\* Fewer units than the file has are less than all of it, in percent.
LEMMA PercentageFacts ==
  ASSUME size \in Nat, NEW units \in 0 .. size
  PROVE  /\ Transfer!Percentage(units) \in 0 .. 100
         /\ units = size => Transfer!Percentage(units) = 100
<1>1. CASE size = 0 \/ units >= size BY <1>1 DEF Transfer!Percentage
<1>2. CASE size # 0 /\ units < size
  <2> DEFINE q == (units * 100) \div size
  <2>1. units * 100 \in Nat /\ size \in Nat \ {0} BY <1>2
  <2>2. q \in Nat /\ q * size <= units * 100 BY <2>1, Division
  <2> HIDE DEF q
  <2>3. q < 100
    <3>1. SUFFICES ASSUME q >= 100 PROVE FALSE BY <2>2
    <3>2. 100 * size <= q * size BY <2>1, <2>2, <3>1, Products
    <3> QED BY <1>2, <2>1, <2>2, <3>2
  <2> QED BY <1>2, <2>2, <2>3 DEF q, Transfer!Percentage
<1> QED BY <1>1, <1>2

LEMMA Deciles ==
  ASSUME NEW p \in 0 .. 100
  PROVE  /\ p \div 10 \in 0 .. 10
         /\ (p \div 10) * 10 <= p /\ p < (p \div 10) * 10 + 10
<1>1. p \div 10 \in Nat /\ (p \div 10) * 10 <= p /\ p < (p \div 10) * 10 + 10 BY Division
<1> QED BY <1>1

Thresholds == {10 * k : k \in 1 .. 11}

LEMMA NextThreshold ==
  ASSUME NEW d \in 0 .. 10
  PROVE  (d + 1) * 10 \in Thresholds
<1>1. d + 1 \in 1 .. 11 /\ (d + 1) * 10 = 10 * (d + 1) OBVIOUS
<1> QED BY <1>1 DEF Thresholds

LEMMA Appended ==
  ASSUME NEW S, NEW s \in Seq(S), NEW p \in S
  PROVE  /\ Len(Append(s, p)) = Len(s) + 1 /\ Len(s) \in Nat /\ Append(s, p) \in Seq(S)
         /\ Append(s, p)[Len(s) + 1] = p
         /\ \A k \in 1 .. Len(s) : Append(s, p)[k] = s[k]
BY AppendProperties

\* A percentage is shown when it passes a decile, and none is shown twice.
LEMMA ShownFacts ==
  ASSUME reported \in Seq(0 .. 100), next_percentage \in Thresholds, LastShown, Ascending,
         NEW p \in 0 .. 100, p >= next_percentage,
         next_percentage' = ((p \div 10) + 1) * 10, reported' = Append(reported, p)
  PROVE  /\ next_percentage' \in Thresholds /\ reported' \in Seq(0 .. 100)
         /\ LastShown' /\ Ascending'
         /\ next_percentage # 110 /\ (p = 100 => next_percentage' = 110)
<1>1. \A k \in 1 .. Len(reported) : reported[k] \in 0 .. 100 BY ElementOfSeq
<1>2. next_percentage' \in Thresholds
  <2>1. p \div 10 \in 0 .. 10 BY Deciles
  <2> QED BY <2>1, NextThreshold
<1>3. /\ Len(reported') = Len(reported) + 1 /\ Len(reported) \in Nat
      /\ reported' \in Seq(0 .. 100) /\ reported'[Len(reported) + 1] = p
      /\ \A k \in 1 .. Len(reported) : reported'[k] = reported[k]
  BY Appended
<1>4. reported # <<>> => reported[Len(reported)] \div 10 < p \div 10
  <2> SUFFICES ASSUME reported # <<>>
               PROVE  reported[Len(reported)] \div 10 < p \div 10
    OBVIOUS
  <2>1. reported[Len(reported)] \in 0 .. 100 BY <1>1, <1>3
  <2> DEFINE d == reported[Len(reported)] \div 10
  <2>2. d \in 0 .. 10 BY <2>1, Deciles
  <2>3. p \div 10 \in 0 .. 10 /\ p < (p \div 10) * 10 + 10 BY Deciles
  <2>4. (d + 1) * 10 <= p BY DEF LastShown
  <2> HIDE DEF d
  <2>5. d < p \div 10 BY <2>2, <2>3, <2>4
  <2> QED BY <2>5 DEF d
<1>5. Ascending'
  <2> SUFFICES ASSUME NEW k \in 2 .. Len(reported')
               PROVE  reported'[k - 1] \div 10 < reported'[k] \div 10
    BY DEF Ascending
  <2>1. CASE k \in 2 .. Len(reported) BY <1>3, <2>1 DEF Ascending
  <2>2. CASE k = Len(reported) + 1
    <3>1. reported # <<>> /\ k - 1 = Len(reported) /\ k - 1 \in 1 .. Len(reported) BY <1>3, <2>2
    <3>2. reported'[k - 1] = reported[Len(reported)] /\ reported'[k] = p BY <1>3, <2>2, <3>1
    <3> QED BY <1>4, <3>1, <3>2
  <2> QED BY <1>3, <2>1, <2>2
<1>6. LastShown'
  <2>1. reported' # <<>> BY <1>3
  <2> QED BY <1>3, <2>1 DEF LastShown
<1>7. next_percentage # 110 BY DEF Thresholds
<1>8. p = 100 => next_percentage' = 110
  <2>1. p = 100 => p \div 10 = 10 BY Deciles
  <2> QED BY <2>1
<1> QED BY <1>2, <1>3, <1>5, <1>6, <1>7, <1>8

\* The callback.
LEMMA CountFacts ==
  ASSUME size \in Nat, reported \in Seq(0 .. 100), next_percentage \in Thresholds,
         LastShown, Ascending, NEW units \in 0 .. size, Transfer!Count(units)
  PROVE  /\ transferred' = units
         /\ next_percentage' \in Thresholds /\ reported' \in Seq(0 .. 100)
         /\ LastShown' /\ Ascending'
         /\ units = size \/ next_percentage = 110 => next_percentage' = 110
<1> DEFINE p == Transfer!Percentage(units)
<1>1. p \in 0 .. 100 /\ (units = size => p = 100) BY PercentageFacts
<1>2. next_percentage \in Nat BY DEF Thresholds
<1>3. transferred' = units BY DEF Transfer!Count
<1>4. CASE p < next_percentage
  <2>1. next_percentage' = next_percentage /\ reported' = reported BY <1>4 DEF Transfer!Count
  <2>2. units = size => 100 < next_percentage BY <1>1, <1>4
  <2>3. \A t \in Thresholds : 100 < t => t = 110 BY DEF Thresholds
  <2>4. LastShown' /\ Ascending' BY <2>1 DEF LastShown, Ascending
  <2> QED BY <1>3, <2>1, <2>2, <2>3, <2>4
<1>5. CASE ~(p < next_percentage)
  <2>1. next_percentage' = ((p \div 10) + 1) * 10 /\ reported' = Append(reported, p)
    BY <1>5 DEF Transfer!Count
  <2> HIDE DEF p
  <2>2. p >= next_percentage BY <1>1, <1>2, <1>5
  <2> QED BY <1>1, <1>3, <2>1, <2>2, ShownFacts
<1> QED BY <1>4, <1>5

LEMMA TransferTyped ==
  ASSUME TransferInv
  PROVE  /\ MaxUnits \in Nat /\ PartUnits \in Nat \ {0} /\ PartAttempts \in Nat \ {0}
         /\ SdkAttempts \in 1 .. PartAttempts
         /\ size \in Nat /\ size <= MaxUnits /\ sent \in Nat /\ attempt \in 1 .. PartAttempts
         /\ transferred \in Nat /\ reported \in Seq(0 .. 100) /\ next_percentage \in Thresholds
BY TransferAssumption
DEF TransferInv, Transfer!TransferTypeOK, Transfer!TransferBounds, Thresholds

LEMMA StartTransferInv ==
  ASSUME TransferInv, Transfer!StartTransfer
  PROVE  TransferInv'
<1> USE DEF TransferInv, Transfer!StartTransfer, Transfer!progress
<1>1. size' \in Nat /\ PartUnits \in Nat \ {0} BY TransferTyped
<1>2. Transfer!TransferTypeOK' BY DEF Transfer!TransferTypeOK
<1>3. part = 1 /\ sent = 0 /\ remote = 0 /\ transferred = 0 BY DEF CountFits
<1>4. CountFits'
  <2>1. CASE size' < PartUnits BY <1>1, <1>3, <2>1 DEF CountFits
  <2>2. CASE size' >= PartUnits
    <3>1. stage' = "part" BY <1>1, <2>2
    <3>2. PartsOf(size') \in 1 .. size' BY <1>1, <2>2, PartFacts
    <3>3. (Transfer!Parts)' = PartsOf(size') BY DEF Transfer!Parts, PartsOf
    <3>4. (Transfer!PartLength)' = LengthOf(size', 1)
      BY <1>3, <3>1, <3>3 DEF Transfer!PartLength, Transfer!Parts, LengthOf, PartsOf
    <3>5. 1 \in 1 .. PartsOf(size') BY <3>2
    <3>6. LengthOf(size', 1) \in Nat BY <1>1, <2>2, <3>5, PartPlaces
    <3> QED BY <1>1, <1>3, <2>2, <3>1, <3>3, <3>4, <3>5, <3>6 DEF CountFits
  <2> QED BY <1>1, <2>1, <2>2
<1>5. FailuresCounted' BY DEF FailuresCounted, Sending
<1>6. ThresholdFits' BY <1>1, <1>3 DEF ThresholdFits, LastShown, Ascending
<1>7. StoredCounted' /\ AbortedForCause'
  BY DEF StoredCounted, AbortedForCause, Transfer!AbortedForCause
<1> QED BY <1>2, <1>4, <1>5, <1>6, <1>7

\* The callback counts no more than the file has.
LEMMA CountInv ==
  ASSUME TransferInv, size' = size, NEW units \in 0 .. size, Transfer!Count(units)
  PROVE  /\ ThresholdFits' /\ transferred' = units /\ transferred' \in 0 .. MaxUnits
         /\ next_percentage' \in Thresholds /\ reported' \in Seq(0 .. 100)
<1>1. size \in Nat /\ size <= MaxUnits /\ MaxUnits \in Nat BY TransferTyped
<1>2. LastShown /\ Ascending BY DEF TransferInv, ThresholdFits
<1>3. /\ transferred' = units /\ LastShown' /\ Ascending'
      /\ next_percentage' \in Thresholds /\ reported' \in Seq(0 .. 100)
      /\ units = size => next_percentage' = 110
  BY <1>1, <1>2, TransferTyped, CountFacts
<1>4. transferred' \in 0 .. MaxUnits BY <1>1, <1>3
<1> QED BY <1>3, <1>4 DEF ThresholdFits

\* Where the part that is being sent lies in the file.
LEMMA SendingFacts ==
  ASSUME TransferInv, stage \in {"put", "part"}
  PROVE  /\ Transfer!PartLength \in Nat /\ sent <= Transfer!PartLength
         /\ transferred - sent \in Nat
         /\ (transferred - sent) + Transfer!PartLength <= size
         /\ stage = "put" => transferred = sent /\ Transfer!PartLength = size /\ size < PartUnits
         /\ stage = "part" =>
              /\ size >= PartUnits /\ part \in 1 .. PartsOf(size) /\ remote = part - 1
              /\ transferred - sent = (part - 1) * PartUnits
              /\ Transfer!PartLength = LengthOf(size, part)
<1>1. CountFits BY DEF TransferInv
<1>2. /\ size \in Nat /\ sent \in Nat /\ PartUnits \in Nat \ {0} /\ transferred \in Nat
  BY TransferTyped
<1>3. CASE stage = "put" BY <1>1, <1>2, <1>3 DEF CountFits, Transfer!PartLength
<1>4. CASE stage = "part"
  <2>1. /\ size >= PartUnits /\ part \in 1 .. Transfer!Parts /\ remote = part - 1
        /\ sent <= Transfer!PartLength /\ transferred = (part - 1) * PartUnits + sent
    BY <1>1, <1>4 DEF CountFits
  <2>2. Transfer!Parts = PartsOf(size) BY DEF Transfer!Parts, PartsOf
  <2>3. Transfer!PartLength = LengthOf(size, part)
    BY <1>4, <2>2 DEF Transfer!PartLength, LengthOf
  <2>4. /\ LengthOf(size, part) \in Nat \ {0} /\ (part - 1) * PartUnits \in Nat
        /\ (part - 1) * PartUnits + LengthOf(size, part) <= size
    BY <1>2, <2>1, <2>2, PartPlaces
  <2>5. transferred - sent = (part - 1) * PartUnits
    <3> DEFINE b == (part - 1) * PartUnits
    <3>1. b \in Nat /\ transferred = b + sent BY <2>1, <2>4
    <3> HIDE DEF b
    <3>2. transferred - sent = b BY <1>2, <3>1
    <3> QED BY <3>2 DEF b
  <2> QED BY <1>4, <2>1, <2>2, <2>3, <2>4, <2>5
<1> QED BY <1>3, <1>4

LEMMA SendUnitInv ==
  ASSUME TransferInv, Transfer!SendUnit
  PROVE  TransferInv'
<1> USE DEF Transfer!SendUnit
<1>1. /\ size \in Nat /\ size <= MaxUnits /\ MaxUnits \in Nat /\ sent \in Nat
      /\ PartUnits \in Nat /\ transferred \in Nat
  BY TransferTyped
<1>2. /\ Transfer!PartLength \in Nat /\ transferred - sent \in Nat
      /\ (transferred - sent) + Transfer!PartLength <= size
  BY SendingFacts
<1>3. transferred + 1 \in 0 .. size /\ sent + 1 \in 0 .. size BY <1>1, <1>2
<1>4. /\ ThresholdFits' /\ transferred' = transferred + 1 /\ transferred' \in 0 .. MaxUnits
      /\ next_percentage' \in Thresholds /\ reported' \in Seq(0 .. 100)
  BY <1>3, CountInv
<1>5. (Transfer!Parts)' = Transfer!Parts /\ (Transfer!PartLength)' = Transfer!PartLength
  BY DEF Transfer!Parts, Transfer!PartLength
<1>6. Transfer!TransferTypeOK'
  BY <1>1, <1>3, <1>4 DEF TransferInv, Transfer!TransferTypeOK, Thresholds
<1>7. CountFits'
  <2>1. CASE stage = "put"
    BY <1>1, <1>3, <1>4, <2>1, SendingFacts DEF CountFits
  <2>2. CASE stage = "part"
    <3>1. /\ size >= PartUnits /\ part \in 1 .. Transfer!Parts /\ remote = part - 1
          /\ transferred = (part - 1) * PartUnits + sent
      BY <2>2 DEF TransferInv, CountFits
    <3>2. sent + 1 <= Transfer!PartLength BY <1>1, <1>2
    <3>3. (part - 1) * PartUnits \in Nat BY <2>2, SendingFacts
    <3>4. transferred + 1 = (part - 1) * PartUnits + (sent + 1) BY <1>1, <3>1, <3>3
    <3> QED BY <1>4, <1>5, <2>2, <3>1, <3>2, <3>4 DEF CountFits
  <2> QED BY <2>1, <2>2
<1>8. FailuresCounted' BY DEF TransferInv, FailuresCounted
<1>9. StoredCounted' /\ AbortedForCause'
  BY DEF StoredCounted, AbortedForCause, Transfer!AbortedForCause
<1> QED BY <1>4, <1>6, <1>7, <1>8, <1>9 DEF TransferInv

\* A part is sent again from where it began, or given up for good.
LEMMA AttemptFailsInv ==
  ASSUME TransferInv, Transfer!AttemptFails
  PROVE  TransferInv'
<1>1. /\ size \in Nat /\ size <= MaxUnits /\ MaxUnits \in Nat /\ sent \in Nat
      /\ PartUnits \in Nat /\ transferred \in Nat /\ attempt \in 1 .. PartAttempts
      /\ PartAttempts \in Nat /\ SdkAttempts \in 1 .. PartAttempts
  BY TransferTyped
<1>2. failures = attempt - 1 /\ failures' = failures + 1 /\ stage \in {"put", "part"}
  BY DEF TransferInv, FailuresCounted, Sending, Transfer!AttemptFails
<1>3. UNCHANGED <<size, part, remote>> BY DEF Transfer!AttemptFails
<1>4. failures' = attempt BY <1>1, <1>2
<1>5. ASSUME NEW error \in Transfer!Errors, Transfer!Retried(error),
             attempt' = attempt + 1, sent' = 0,
             IF sent = 0 THEN UNCHANGED Transfer!progress ELSE Transfer!Count(transferred - sent),
             UNCHANGED <<stage, cause>>
      PROVE  TransferInv'
  <2>1. attempt' \in 1 .. PartAttempts BY <1>1, <1>5 DEF Transfer!Retried
  <2>2. transferred - sent \in 0 .. size BY <1>1, <1>2, SendingFacts
  <2>3. /\ ThresholdFits' /\ transferred' = transferred - sent /\ transferred' \in 0 .. MaxUnits
        /\ next_percentage' \in Thresholds /\ reported' \in Seq(0 .. 100)
    <3>1. CASE sent = 0
      <4>1. UNCHANGED <<size, stage, transferred, next_percentage, reported>>
        BY <1>3, <1>5, <3>1 DEF Transfer!progress
      <4>2. ThresholdFits BY DEF TransferInv
      <4>3. ThresholdFits' BY <4>1, <4>2 DEF ThresholdFits, LastShown, Ascending
      <4>4. transferred' = transferred - sent BY <1>1, <3>1, <4>1
      <4>5. transferred' \in 0 .. MaxUnits BY <4>1 DEF TransferInv, Transfer!TransferTypeOK
      <4> QED BY <4>1, <4>3, <4>4, <4>5, TransferTyped
    <3>2. CASE sent # 0 BY <1>3, <1>5, <2>2, <3>2, CountInv
    <3> QED BY <3>1, <3>2
  <2>4. (Transfer!Parts)' = Transfer!Parts /\ (Transfer!PartLength)' = Transfer!PartLength
    BY <1>3, <1>5 DEF Transfer!Parts, Transfer!PartLength
  <2>5. Transfer!TransferTypeOK'
    BY <1>1, <1>3, <1>4, <1>5, <2>1, <2>3 DEF TransferInv, Transfer!TransferTypeOK, Thresholds
  <2>6. CountFits'
    <3>1. CASE stage = "put"
      <4>1. transferred' = 0 BY <1>1, <2>3, <3>1, SendingFacts
      <4> QED BY <1>1, <1>3, <1>5, <3>1, <4>1, SendingFacts DEF CountFits
    <3>2. CASE stage = "part"
      <4>1. /\ size >= PartUnits /\ part \in 1 .. Transfer!Parts /\ remote = part - 1
        BY <3>2 DEF TransferInv, CountFits
      <4>2. /\ transferred' = (part - 1) * PartUnits /\ (part - 1) * PartUnits \in Nat
            /\ 0 <= Transfer!PartLength
        BY <2>3, <3>2, SendingFacts
      <4>3. transferred' = (part - 1) * PartUnits + 0 BY <4>2
      <4> QED BY <1>3, <1>5, <2>4, <3>2, <4>1, <4>2, <4>3 DEF CountFits
    <3> QED BY <1>2, <3>1, <3>2
  <2>7. FailuresCounted' BY <1>1, <1>4, <1>5 DEF FailuresCounted
  <2>8. StoredCounted' /\ AbortedForCause'
    BY <1>2, <1>5
    DEF StoredCounted, AbortedForCause, Transfer!AbortedForCause
  <2> QED BY <2>3, <2>5, <2>6, <2>7, <2>8 DEF TransferInv
<1>6. ASSUME NEW error \in Transfer!Errors, ~Transfer!Retried(error), cause' = error,
             stage' = IF stage = "put" THEN "failed" ELSE "abort",
             UNCHANGED <<attempt, sent, Transfer!progress>>
      PROVE  TransferInv'
  <2>1. Transfer!TransferTypeOK'
    BY <1>1, <1>3, <1>4, <1>6 DEF TransferInv, Transfer!TransferTypeOK, Transfer!progress
  <2>2. CountFits' /\ FailuresCounted' /\ StoredCounted'
    BY <1>6 DEF CountFits, FailuresCounted, Sending, StoredCounted
  <2>3. ThresholdFits'
    BY <1>2, <1>3, <1>6
    DEF TransferInv, ThresholdFits, LastShown, Ascending, Transfer!progress
  <2>4. AbortedForCause'
    <3>1. CASE stage = "put"
      BY <1>1, <1>3, <3>1, SendingFacts DEF AbortedForCause, Transfer!AbortedForCause
    <3>2. CASE stage = "part"
      BY <1>1, <1>4, <1>6, <3>2
      DEF AbortedForCause, Transfer!AbortedForCause, Transfer!Retried
    <3> QED BY <1>2, <3>1, <3>2
  <2> QED BY <2>1, <2>2, <2>3, <2>4 DEF TransferInv
<1> QED BY <1>5, <1>6 DEF Transfer!AttemptFails

\* What is not a count leaves what was shown as it is.
LEMMA NothingShown ==
  ASSUME TransferInv, UNCHANGED <<size, Transfer!progress>>,
         stage = "idle" => stage' = "idle"  \/ size = 0 \/ transferred # size
  PROVE  ThresholdFits'
BY DEF TransferInv, ThresholdFits, LastShown, Ascending, Transfer!progress

LEMMA PutStoredInv ==
  ASSUME TransferInv, Transfer!PutStored
  PROVE  TransferInv'
<1>1. /\ stage = "put" /\ sent = Transfer!PartLength /\ stage' = "stored"
      /\ UNCHANGED <<size, part, attempt, sent, remote, cause, failures, transferred,
                     next_percentage, reported, Transfer!progress>>
  BY DEF Transfer!PutStored, Transfer!progress
<1>2. transferred = size /\ size < PartUnits BY <1>1, SendingFacts
<1>3. Transfer!TransferTypeOK' BY <1>1 DEF TransferInv, Transfer!TransferTypeOK
<1>4. CountFits' /\ FailuresCounted' BY <1>1 DEF CountFits, FailuresCounted, Sending
<1>5. ThresholdFits' BY <1>1, NothingShown
<1>6. StoredCounted' /\ AbortedForCause'
  BY <1>1, <1>2, TransferTyped, TransferAssumption
  DEF StoredCounted, AbortedForCause, Transfer!AbortedForCause,
      Transfer!TransferBounds
<1> QED BY <1>3, <1>4, <1>5, <1>6 DEF TransferInv

\* The next part begins where the one before it ended; after the last one all is counted.
LEMMA PartStoredInv ==
  ASSUME TransferInv, Transfer!PartStored
  PROVE  TransferInv'
<1>1. /\ stage = "part" /\ sent = Transfer!PartLength
      /\ remote' = remote + 1 /\ attempt' = 1 /\ sent' = 0 /\ failures' = 0 /\ part' = part + 1
      /\ stage' = IF part = Transfer!Parts THEN "complete" ELSE "part"
      /\ UNCHANGED <<size, cause, transferred, next_percentage, reported, Transfer!progress>>
  BY DEF Transfer!PartStored, Transfer!progress, Transfer!AllSent
<1>2. /\ size >= PartUnits /\ part \in 1 .. PartsOf(size) /\ remote = part - 1
      /\ transferred - sent = (part - 1) * PartUnits /\ sent = LengthOf(size, part)
  BY <1>1, SendingFacts
<1>3. /\ size \in Nat /\ size <= MaxUnits /\ MaxUnits \in Nat /\ PartUnits \in Nat \ {0}
      /\ sent \in Nat /\ transferred \in Nat /\ PartAttempts \in Nat \ {0}
  BY TransferTyped
<1>4. Transfer!Parts = PartsOf(size) /\ (Transfer!Parts)' = PartsOf(size)
  BY <1>1 DEF Transfer!Parts, PartsOf
<1>5. PartsOf(size) \in 1 .. size BY <1>2, <1>3, PartFacts
<1>6. /\ part \in Nat /\ part <= MaxUnits /\ part' \in 1 .. MaxUnits + 1
      /\ remote' = part /\ remote' \in 0 .. MaxUnits
  BY <1>1, <1>2, <1>3, <1>5
<1>7. transferred = (part - 1) * PartUnits + LengthOf(size, part)
  <2>1. (part - 1) * PartUnits \in Nat BY <1>2, <1>3, PartPlaces
  <2> QED BY <1>2, <1>3, <2>1
<1>8. Transfer!TransferTypeOK'
  BY <1>1, <1>3, <1>6 DEF TransferInv, Transfer!TransferTypeOK
<1>9. CountFits'
  <2>1. CASE part = PartsOf(size)
    <3>1. transferred = size BY <1>2, <1>3, <1>7, <2>1, PartPlaces
    <3> QED BY <1>1, <1>2, <1>4, <1>6, <2>1, <3>1 DEF CountFits
  <2>2. CASE part # PartsOf(size)
    <3>1. part' \in 1 .. PartsOf(size) /\ part < PartsOf(size) BY <1>1, <1>2, <1>5, <2>2
    <3>2. transferred = part * PartUnits BY <1>2, <1>3, <1>7, <3>1, PartPlaces
    <3>3. part' - 1 = part /\ part * PartUnits \in Nat BY <1>1, <1>3, <1>6, Products
    <3>4. stage' = "part" BY <1>1, <1>4, <2>2
    <3>5. (Transfer!PartLength)' = LengthOf(size, part')
      BY <1>1, <1>4, <3>4 DEF Transfer!PartLength, LengthOf
    <3>6. LengthOf(size, part') \in Nat BY <1>2, <1>3, <3>1, PartPlaces
    <3>7. transferred' = (part' - 1) * PartUnits + sent' BY <1>1, <3>2, <3>3
    <3> QED BY <1>1, <1>2, <1>4, <1>6, <3>1, <3>3, <3>4, <3>5, <3>6, <3>7 DEF CountFits
  <2> QED BY <2>1, <2>2
<1>10. FailuresCounted' BY <1>1 DEF FailuresCounted
<1>11. ThresholdFits' BY <1>1, NothingShown
<1>12. StoredCounted' /\ AbortedForCause'
  BY <1>1 DEF StoredCounted, AbortedForCause, Transfer!AbortedForCause
<1> QED BY <1>8, <1>9, <1>10, <1>11, <1>12 DEF TransferInv

LEMMA CompleteInv ==
  ASSUME TransferInv, Transfer!Complete \/ Transfer!Abort
  PROVE  TransferInv'
<1>1. /\ stage' \in {"stored", "abort", "failed"} /\ stage \in {"complete", "abort"}
      /\ stage' = "stored" => stage = "complete" /\ remote' = remote
      /\ stage' # "stored" => (cause' = "fatal" \/ (stage = "abort" /\ cause' = cause))
      /\ remote' = remote \/ remote' = 0
      /\ cause' = cause \/ cause' = "fatal"
      /\ UNCHANGED <<size, part, attempt, sent, failures, transferred, next_percentage, reported,
                     Transfer!progress>>
  BY DEF Transfer!Complete, Transfer!Abort, Transfer!progress
<1>2. Transfer!TransferTypeOK'
  <2>1. cause' \in Transfer!Errors \cup {"none"}
    BY <1>1 DEF TransferInv, Transfer!TransferTypeOK, Transfer!Errors
  <2>2. remote' \in 0 .. MaxUnits
    BY <1>1, TransferTyped DEF TransferInv, Transfer!TransferTypeOK
  <2> QED BY <1>1, <2>1, <2>2 DEF TransferInv, Transfer!TransferTypeOK
<1>3. CountFits' /\ FailuresCounted' BY <1>1 DEF CountFits, FailuresCounted, Sending
<1>4. ThresholdFits' BY <1>1, NothingShown
<1>5. (Transfer!Parts)' = Transfer!Parts BY <1>1 DEF Transfer!Parts
<1>6. StoredCounted'
  BY <1>1, <1>5 DEF TransferInv, CountFits, StoredCounted
<1>7. AbortedForCause'
  BY <1>1 DEF TransferInv, AbortedForCause, Transfer!AbortedForCause
<1> QED BY <1>2, <1>3, <1>4, <1>6, <1>7 DEF TransferInv

LEMMA TransferInvStep ==
  ASSUME TransferInv, [Next]_vars
  PROVE  TransferInv'
<1>1. CASE Transfer!StartTransfer BY <1>1, StartTransferInv
<1>2. CASE Transfer!TransferStep
  BY <1>2, SendUnitInv, AttemptFailsInv, PutStoredInv, PartStoredInv, CompleteInv
  DEF Transfer!TransferStep
<1>3. CASE UNCHANGED transferVars
  <2>1. UNCHANGED <<stage, size, part, attempt, sent, remote, cause, failures, transferred,
                    next_percentage, reported>>
    BY <1>3 DEF transferVars
  <2>2. (Transfer!Parts)' = Transfer!Parts /\ (Transfer!PartLength)' = Transfer!PartLength
    BY <2>1 DEF Transfer!Parts, Transfer!PartLength
  <2>3. Transfer!TransferTypeOK' BY <2>1 DEF TransferInv, Transfer!TransferTypeOK
  <2>4. CountFits' BY <2>1, <2>2 DEF TransferInv, CountFits
  <2>5. FailuresCounted' BY <2>1 DEF TransferInv, FailuresCounted
  <2>6. ThresholdFits' BY <2>1 DEF TransferInv, ThresholdFits, LastShown, Ascending
  <2>7. StoredCounted' BY <2>1, <2>2 DEF TransferInv, StoredCounted
  <2>8. AbortedForCause' BY <2>1 DEF TransferInv, AbortedForCause, Transfer!AbortedForCause
  <2> QED BY <2>3, <2>4, <2>5, <2>6, <2>7, <2>8 DEF TransferInv
<1> QED BY <1>1, <1>2, <1>3, TransferMoves

LEMMA TransferInitially == Init => TransferInv
<1> SUFFICES ASSUME Init PROVE TransferInv OBVIOUS
<1>1. /\ stage = "idle" /\ size = 0 /\ part = 1 /\ attempt = 1 /\ sent = 0 /\ remote = 0
      /\ cause = "none" /\ failures = 0 /\ transferred = 0 /\ next_percentage = 10
      /\ reported = <<>>
  BY DEF Init, Transfer!TransferInit
<1>2. next_percentage = 10 * 1 /\ next_percentage \in {10 * k : k \in 1 .. 11} BY <1>1
<1>3. Transfer!TransferTypeOK
  BY <1>1, <1>2, TransferAssumption DEF Transfer!TransferTypeOK, Transfer!TransferBounds
<1>4. CountFits /\ FailuresCounted BY <1>1 DEF CountFits, FailuresCounted, Sending
<1>5. ThresholdFits BY <1>1 DEF ThresholdFits, LastShown, Ascending
<1> QED BY <1>1, <1>3, <1>4, <1>5
        DEF TransferInv, StoredCounted, AbortedForCause,
            Transfer!AbortedForCause

\* 110 is the threshold only after 100 was shown.
LEMMA HundredShown ==
  ASSUME TransferInv, stage = "stored", size > 0
  PROVE  reported # <<>> /\ reported[Len(reported)] = 100
<1>1. next_percentage = 110
  BY DEF TransferInv, ThresholdFits, StoredCounted
<1>2. LastShown BY DEF TransferInv, ThresholdFits
<1>3. reported # <<>> BY <1>1, <1>2 DEF LastShown
<1> DEFINE p == reported[Len(reported)]
<1>4. p \in 0 .. 100
  <2>1. reported \in Seq(0 .. 100) BY TransferTyped
  <2>2. Len(reported) \in 1 .. Len(reported) BY <1>3, <2>1, EmptySeq
  <2> QED BY <2>1, <2>2, ElementOfSeq
<1>5. 110 = ((p \div 10) + 1) * 10 BY <1>1, <1>2, <1>3 DEF LastShown
<1> HIDE DEF p
<1>6. p \div 10 \in 0 .. 10 /\ (p \div 10) * 10 <= p BY <1>4, Deciles
<1>7. (p \div 10) * 10 = 100 BY <1>5, <1>6
<1>8. p = 100 BY <1>4, <1>6, <1>7
<1> QED BY <1>3, <1>8 DEF p

-----------------------------------------------------------------------------
\* The transfer keeps its invariant whatever else a command does.
THEOREM TransferInductive == Spec => []TransferInv
<1>1. Init => TransferInv BY TransferInitially
<1>2. TransferInv /\ [Next]_vars => TransferInv' BY TransferInvStep
<1> QED BY <1>1, <1>2, PTL DEF Spec

\* archive.py:71-87: a multipart upload is given up only for an error that has used up its bound.
THEOREM GivenUpForCause == Spec => []AbortedForCause
<1>1. TransferInv => AbortedForCause BY DEF TransferInv
<1> QED BY <1>1, TransferInductive, PTL

\* archive.py:98-106: the percentages shown ascend by deciles, to 100 at the end.
THEOREM ProgressAscends == Spec => []ReportsAscend
<1>1. TransferInv => ReportsAscend
  BY HundredShown DEF TransferInv, ThresholdFits, Ascending, ReportsAscend, Transfer!ReportsAscend
<1> QED BY <1>1, TransferInductive, PTL
=============================================================================
