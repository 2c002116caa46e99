------------------------------ MODULE ReportProofs ------------------------------
(***************************************************************************)
(* What PdlInspect reports is what its reference definitions say, for all  *)
(* files of lines and rows, windows and offsets.                           *)
(***************************************************************************)
EXTENDS InspectionProofs

-----------------------------------------------------------------------------
(* Induction, for a set of numbers *)

LEMMA LeastOf ==
  ASSUME NEW S, S \subseteq Nat, S # {}
  PROVE  \E n \in S : \A m \in S : n <= m
<1> DEFINE R == {ss \in Nat \X Nat : ss[1] < ss[2]}
<1>1. IsWellFoundedOn(R, Nat) BY NatLessThanWellFounded DEF OpToRel
<1>2. PICK n \in S : \A m \in S : <<m, n>> \notin R BY <1>1, WFMin
<1>3. ASSUME NEW m \in S PROVE n <= m
  <2>1. n \in Nat /\ m \in Nat OBVIOUS
  <2>2. ASSUME m < n PROVE FALSE
    <3>1. <<m, n>> \in Nat \X Nat /\ <<m, n>>[1] = m /\ <<m, n>>[2] = n BY <2>1
    <3>2. <<m, n>> \in R BY <2>2, <3>1
    <3> QED BY <1>2, <3>2
  <2> QED BY <2>1, <2>2
<1> QED BY <1>3

LEMMA SetInduction ==
  ASSUME NEW S, 0 \in S, \A n \in Nat : n \in S => n + 1 \in S
  PROVE  Nat \subseteq S
<1> SUFFICES ASSUME Nat \ S # {} PROVE FALSE OBVIOUS
<1>1. PICK n \in Nat \ S : \A m \in Nat \ S : n <= m BY LeastOf
<1>2. n - 1 \in Nat BY <1>1
<1>3. n - 1 \in S BY <1>1, <1>2
<1> QED BY <1>1, <1>2, <1>3

LEMMA MinFacts ==
  ASSUME NEW S, S \subseteq Nat, S # {}
  PROVE  Files!Min(S) \in S /\ \A m \in S : Files!Min(S) <= m
<1>1. \E n \in S : \A m \in S : n <= m BY LeastOf
<1> QED BY <1>1 DEF Files!Min

LEMMA MaxFacts ==
  ASSUME NEW bound \in Nat, NEW S, S \subseteq 0 .. bound, S # {}
  PROVE  Files!Max(S) \in S /\ \A m \in S : m <= Files!Max(S)
<1> DEFINE R == {bound - n : n \in S}
<1>1. R \subseteq Nat /\ R # {}
  <2>1. \A n \in S : bound - n \in Nat OBVIOUS
  <2> QED BY <2>1
<1>2. PICK d \in R : \A e \in R : d <= e BY <1>1, LeastOf
<1>3. PICK n \in S : d = bound - n BY <1>2
<1>4. \A m \in S : m <= n
  <2> SUFFICES ASSUME NEW m \in S PROVE m <= n OBVIOUS
  <2>1. bound - n <= bound - m BY <1>2, <1>3
  <2>2. m \in Nat /\ n \in Nat OBVIOUS
  <2> QED BY <2>1, <2>2
<1> HIDE DEF R
<1> QED BY <1>4 DEF Files!Max

\* The least of three numbers.
LEMMA MinOfThree ==
  ASSUME NEW a \in Nat, NEW b \in Nat, NEW c \in Nat
  PROVE  /\ Files!Min({a, b, c}) \in Nat
         /\ Files!Min({a, b, c}) <= a /\ Files!Min({a, b, c}) <= b /\ Files!Min({a, b, c}) <= c
         /\ Files!Min({a, b, c}) \in {a, b, c}
<1> DEFINE S == {a, b, c}
<1>1. S \subseteq Nat /\ S # {} OBVIOUS
<1>2. Files!Min(S) \in S /\ \A m \in S : Files!Min(S) <= m BY <1>1, MinFacts
<1> QED BY <1>2

-----------------------------------------------------------------------------
(* Where lines begin *)

Lines == json \in Seq(Files!JsonLine)
Places == 1 .. Len(json) + 1

LEMMA LineFacts ==
  ASSUME Lines, NEW k \in 1 .. Len(json)
  PROVE  /\ json[k].bytes \in Nat \ {0} /\ json[k].id \in Nat
         /\ json[k].value # Files!Unreadable
         /\ json[k].shape \in Files!Shapes
<1>1. json[k] \in Files!JsonLine BY ElementOfSeq DEF Lines
<1> QED BY <1>1 DEF Files!JsonLine

\* The recursive definition has a solution: it looks back only.
LEMMA LineStartDefined ==
  ASSUME Lines
  PROVE  /\ DOMAIN Files!LineStart = Places
         /\ \A n \in Places :
              Files!LineStart[n] =
                IF n = 1 THEN 0 ELSE Files!LineStart[n - 1] + json[n - 1].bytes
<1> DEFINE Solves(f, m) ==
             f = [n \in 1 .. m |-> IF n = 1 THEN 0 ELSE f[n - 1] + json[n - 1].bytes]
           S == {m \in Nat : \E f : Solves(f, m)}
<1>1. 0 \in S
  <2>1. Solves([n \in 1 .. 0 |-> 0], 0) OBVIOUS
  <2> QED BY <2>1
<1>2. \A m \in Nat : m \in S => m + 1 \in S
  <2> SUFFICES ASSUME NEW m \in Nat, NEW f, Solves(f, m) PROVE \E g : Solves(g, m + 1)
    OBVIOUS
  <2> DEFINE g == [n \in 1 .. m + 1 |-> IF n = 1 THEN 0 ELSE f[n - 1] + json[n - 1].bytes]
  <2>1. \A n \in 1 .. m : f[n] = IF n = 1 THEN 0 ELSE f[n - 1] + json[n - 1].bytes
    OBVIOUS
  <2>2. \A n \in 1 .. m : g[n] = f[n] BY <2>1
  <2>3. \A n \in 1 .. m + 1 : g[n] = IF n = 1 THEN 0 ELSE g[n - 1] + json[n - 1].bytes
    <3> SUFFICES ASSUME NEW n \in 1 .. m + 1
                 PROVE  g[n] = IF n = 1 THEN 0 ELSE g[n - 1] + json[n - 1].bytes
      OBVIOUS
    <3>1. n # 1 => n - 1 \in 1 .. m OBVIOUS
    <3> QED BY <2>2, <3>1
  <2>4. g = [n \in 1 .. m + 1 |-> g[n]] OBVIOUS
  <2> HIDE DEF g
  <2>5. Solves(g, m + 1) BY <2>3, <2>4
  <2> QED BY <2>5
<1> HIDE DEF S
<1>3. Len(json) + 1 \in S
  <2>1. Nat \subseteq S BY <1>1, <1>2, SetInduction
  <2>2. Len(json) + 1 \in Nat BY DEF Lines
  <2> QED BY <2>1, <2>2
<1>4. Solves(Files!LineStart, Len(json) + 1)
  <2>1. PICK f : Solves(f, Len(json) + 1) BY <1>3 DEF S
  <2> QED BY <2>1 DEF Files!LineStart
<1> QED BY <1>4 DEF Places

LEMMA LineStartNat ==
  ASSUME Lines
  PROVE  \A n \in Places : Files!LineStart[n] \in Nat
<1> DEFINE S == {m \in Nat : m + 1 \in Places => Files!LineStart[m + 1] \in Nat}
<1>1. 0 \in S BY LineStartDefined
<1>2. \A m \in Nat : m \in S => m + 1 \in S
  <2> SUFFICES ASSUME NEW m \in Nat, m \in S, m + 1 + 1 \in Places
               PROVE  Files!LineStart[m + 1 + 1] \in Nat
    OBVIOUS
  <2>1. Len(json) \in Nat BY DEF Lines
  <2>2. m + 1 \in 1 .. Len(json) /\ m + 1 \in Places BY <2>1 DEF Places
  <2>3. Files!LineStart[m + 1] \in Nat BY <2>2
  <2>4. Files!LineStart[m + 1 + 1] = Files!LineStart[m + 1] + json[m + 1].bytes
    BY LineStartDefined
  <2>5. json[m + 1].bytes \in Nat BY <2>2, LineFacts
  <2> QED BY <2>3, <2>4, <2>5
<1> HIDE DEF S
<1>3. Nat \subseteq S BY <1>1, <1>2, SetInduction
<1> SUFFICES ASSUME NEW n \in Places PROVE Files!LineStart[n] \in Nat OBVIOUS
<1>4. n - 1 \in Nat /\ (n - 1) + 1 = n BY DEF Places, Lines
<1>5. n - 1 \in S BY <1>3, <1>4
<1> QED BY <1>4, <1>5 DEF S

\* No line is empty: each begins after the one before it.
LEMMA LineStartAscends ==
  ASSUME Lines, NEW i \in Places, NEW j \in Places, i < j
  PROVE  Files!LineStart[i] < Files!LineStart[j]
<1> DEFINE S == {d \in Nat : i + d + 1 \in Places => Files!LineStart[i] < Files!LineStart[i + d + 1]}
<1>1. Len(json) \in Nat /\ i \in Nat BY DEF Lines, Places
<1>2. \A k \in Places : k + 1 \in Places =>
        Files!LineStart[k] < Files!LineStart[k + 1]
  <2> SUFFICES ASSUME NEW k \in Places, k + 1 \in Places
               PROVE  Files!LineStart[k] < Files!LineStart[k + 1]
    OBVIOUS
  <2>1. k \in 1 .. Len(json) BY <1>1 DEF Places
  <2>2. json[k].bytes \in Nat \ {0} BY <2>1, LineFacts
  <2>3. Files!LineStart[k + 1] = Files!LineStart[k] + json[k].bytes
    <3>1. k + 1 # 1 /\ (k + 1) - 1 = k BY <2>1
    <3> QED BY <3>1, LineStartDefined
  <2>4. Files!LineStart[k] \in Nat BY LineStartNat
  <2> QED BY <2>2, <2>3, <2>4
<1>3. 0 \in S BY <1>1, <1>2
<1>4. \A d \in Nat : d \in S => d + 1 \in S
  <2> SUFFICES ASSUME NEW d \in Nat, d \in S, i + (d + 1) + 1 \in Places
               PROVE  Files!LineStart[i] < Files!LineStart[i + (d + 1) + 1]
    OBVIOUS
  <2> DEFINE k == i + d + 1
  <2>1. k \in Places /\ k + 1 = i + (d + 1) + 1 BY <1>1 DEF Places
  <2>2. Files!LineStart[i] < Files!LineStart[k] BY <2>1
  <2> HIDE DEF k
  <2>3. Files!LineStart[k] < Files!LineStart[k + 1] BY <1>2, <2>1
  <2>4. /\ Files!LineStart[i] \in Nat /\ Files!LineStart[k] \in Nat
        /\ Files!LineStart[k + 1] \in Nat
    BY <2>1, LineStartNat
  <2>5. Files!LineStart[i] < Files!LineStart[k + 1] BY <2>2, <2>3, <2>4
  <2> QED BY <2>1, <2>5
<1> HIDE DEF S
<1>5. Nat \subseteq S BY <1>3, <1>4, SetInduction
<1>6. j - i - 1 \in Nat /\ i + (j - i - 1) + 1 = j BY <1>1 DEF Places
<1>7. j - i - 1 \in S BY <1>5, <1>6
<1> QED BY <1>6, <1>7 DEF S

-----------------------------------------------------------------------------
(* The probes *)

\* A probe reads a whole line: the one the reference names, and nothing at the end of the file.
LEMMA ProbeReadsLine ==
  ASSUME Lines, Len(json) >= 1, NEW percent \in 0 .. 99
  PROVE  /\ Files!ProbedLine(percent) \in Places
         /\ Files!SeekLine(Files!Offset(percent)) = Files!LineStart[Files!ProbedLine(percent)]
<1> DEFINE o == Files!Offset(percent)
           e == Files!EndOfFile
           L == Len(json)
<1>1. L \in Nat \ {0} /\ Places \subseteq Nat /\ L + 1 \in Places /\ 1 \in Places
  BY DEF Lines, Places
<1>2. Files!LineStart[1] = 0 BY <1>1, LineStartDefined
<1>3. e \in Nat \ {0}
  <2>1. Files!LineStart[1] < Files!LineStart[L + 1] BY <1>1, LineStartAscends
  <2>2. Files!LineStart[L + 1] \in Nat BY <1>1, LineStartNat
  <2> QED BY <1>2, <2>1, <2>2 DEF Files!EndOfFile
<1>4. o \in Nat /\ o < e
  <2> HIDE DEF e
  <2>1. e * percent \in Nat BY <1>3
  <2>2. o = (e * percent) \div 100 BY DEF Files!Offset, e
  <2> HIDE DEF o
  <2>3. o \in Nat /\ o * 100 <= e * percent BY <2>1, <2>2
  <2>4. e * percent <= e * 99 BY <1>3
  <2> QED BY <1>3, <2>3, <2>4
<1>5. CASE o = 0
  <2>1. Files!ProbedLine(percent) = 1 BY <1>5 DEF Files!ProbedLine
  <2>2. Files!SeekLine(o) = 0 BY <1>5 DEF Files!SeekLine
  <2> QED BY <1>1, <1>2, <2>1, <2>2
<1>6. CASE o # 0
  <2> DEFINE A == {n \in 1 .. L : Files!LineStart[n] <= o}
             B == {Files!LineStart[n] : n \in {m \in DOMAIN Files!LineStart :
                                                  Files!LineStart[m] > o}}
             M == Files!Max(A)
  <2> HIDE DEF o, e
  <2>1. A \subseteq 0 .. L /\ 1 \in A BY <1>1, <1>2, <1>4
  <2>2. M \in A /\ \A m \in A : m <= M BY <1>1, <2>1, MaxFacts
  <2>3. Files!ProbedLine(percent) = 1 + M BY <1>6 DEF Files!ProbedLine, o
  <2>4. Files!SeekLine(o) = Files!Min(B) BY <1>6 DEF Files!SeekLine, Files!AfterReadline
  <2>5. M \in 1 .. L /\ M + 1 \in Places /\ M \in Places BY <1>1, <2>2 DEF Places
  <2>6. \A n \in Places : Files!LineStart[n] \in Nat BY LineStartNat
  <2>7. Files!LineStart[M + 1] > o
    <3>1. CASE M = L BY <1>4, <3>1 DEF e, Files!EndOfFile
    <3>2. CASE M # L
      <4>1. M + 1 \in 1 .. L /\ ~(M + 1 <= M) BY <1>1, <2>5, <3>2
      <4>2. M + 1 \notin A BY <2>2, <4>1
      <4> HIDE DEF M
      <4>3. ~(Files!LineStart[M + 1] <= o) BY <4>1, <4>2
      <4> QED BY <1>4, <2>5, <2>6, <4>3
    <3> QED BY <3>1, <3>2
  <2>8. DOMAIN Files!LineStart = Places BY LineStartDefined
  <2>9. Files!LineStart[M + 1] \in B BY <2>5, <2>7, <2>8
  <2>10. \A n \in Places : Files!LineStart[n] > o => Files!LineStart[M + 1] <= Files!LineStart[n]
    <3> SUFFICES ASSUME NEW n \in Places, Files!LineStart[n] > o
                 PROVE  Files!LineStart[M + 1] <= Files!LineStart[n]
      OBVIOUS
    <3>1. Files!LineStart[M] <= o BY <2>2
    <3> HIDE DEF M
    <3>2. ~(n < M)
      <4>1. n < M => Files!LineStart[n] < Files!LineStart[M] BY <2>5, LineStartAscends
      <4> QED BY <1>4, <2>5, <2>6, <3>1, <4>1
    <3>3. n # M BY <1>4, <2>5, <2>6, <3>1
    <3>4. n = M + 1 \/ M + 1 < n BY <1>1, <2>5, <3>2, <3>3
    <3>5. M + 1 < n => Files!LineStart[M + 1] < Files!LineStart[n] BY <2>5, LineStartAscends
    <3> QED BY <2>5, <2>6, <3>4, <3>5
  <2>11. B \subseteq Nat BY <2>6, <2>8
  <2>12. Files!Min(B) = Files!LineStart[M + 1]
    <3>1. Files!Min(B) \in B /\ \A m \in B : Files!Min(B) <= m BY <2>9, <2>11, MinFacts
    <3>2. Files!LineStart[M + 1] <= Files!Min(B) BY <2>8, <2>10, <3>1
    <3> HIDE DEF B, M
    <3>3. Files!Min(B) \in Nat /\ Files!LineStart[M + 1] \in Nat BY <2>9, <2>11, <3>1
    <3>4. Files!Min(B) <= Files!LineStart[M + 1] BY <2>9, <3>1
    <3> QED BY <3>2, <3>3, <3>4
  <2>13. Files!ProbedLine(percent) = M + 1 BY <2>3, <2>5
  <2> QED BY <2>4, <2>5, <2>12, <2>13 DEF o
<1> QED BY <1>5, <1>6

\* What is read at the start of a line is that line; at the end of the file there is none.
LEMMA ShapeOfLine ==
  ASSUME Lines, NEW n \in Places
  PROVE  /\ Files!LineStart[n] # Files!EndOfFile <=> n <= Len(json)
         /\ n <= Len(json) => Files!ShapeAt(Files!LineStart[n]) = json[n].shape
<1>1. Len(json) \in Nat /\ Len(json) + 1 \in Places /\ 1 .. Len(json) \subseteq Places
  BY DEF Lines, Places
<1>2. \A m \in Places : Files!LineStart[m] = Files!LineStart[n] => m = n
  <2> SUFFICES ASSUME NEW m \in Places, m # n
               PROVE  Files!LineStart[m] # Files!LineStart[n]
    OBVIOUS
  <2>1. m < n \/ n < m BY DEF Places
  <2>2. m < n => Files!LineStart[m] < Files!LineStart[n] BY LineStartAscends
  <2>3. n < m => Files!LineStart[n] < Files!LineStart[m] BY LineStartAscends
  <2>4. Files!LineStart[m] \in Nat /\ Files!LineStart[n] \in Nat BY LineStartNat
  <2> QED BY <2>1, <2>2, <2>3, <2>4
<1>3. Files!LineStart[n] # Files!EndOfFile <=> n <= Len(json)
  BY <1>1, <1>2 DEF Files!EndOfFile, Places
<1>4. ASSUME n <= Len(json)
      PROVE  Files!ShapeAt(Files!LineStart[n]) = json[n].shape
  <2>1. n \in 1 .. Len(json) BY <1>1, <1>4 DEF Places
  <2>2. \A k \in 1 .. Len(json) : Files!LineStart[k] = Files!LineStart[n] <=> k = n
    BY <1>1, <1>2
  <2>3. (CHOOSE k \in 1 .. Len(json) : Files!LineStart[k] = Files!LineStart[n]) = n
    BY <2>1, <2>2
  <2> QED BY <2>1, <2>3 DEF Files!ShapeAt
<1> QED BY <1>3, <1>4

-----------------------------------------------------------------------------
(* Counting *)

\* PdlInspect counts as this module does: it has an instance of FiniteSets of its own.
LEMMA SameCardinality == \A S : Files!Cardinality(S) = Cardinality(S)
BY DEF Cardinality, Files!Cardinality

\* The least position so far stays the least.
LEMMA LeastMore ==
  ASSUME NEW n \in Nat \ {0}, NEW S, S \subseteq 1 .. n - 1
  PROVE  /\ Files!Least(S) = 0 <=> S = {}
         /\ Files!Least(S \cup {n}) = IF Files!Least(S) = 0 THEN n ELSE Files!Least(S)
<1> DEFINE T == S \cup {n}
           s == Files!Min(S)
           t == Files!Min(T)
<1>1. T \subseteq Nat /\ T # {} /\ n \in T OBVIOUS
<1>2. t \in T /\ \A m \in T : t <= m BY <1>1, MinFacts
<1>3. S # {} => s \in S /\ \A m \in S : s <= m
  <2>1. S \subseteq Nat OBVIOUS
  <2> QED BY <2>1, MinFacts
<1>4. Files!Least(S) = 0 <=> S = {}
  <2>1. S # {} => s # 0 BY <1>3
  <2> QED BY <2>1 DEF Files!Least
<1>5. Files!Least(T) = t BY <1>1 DEF Files!Least
<1>6. S = {} => t = n BY <1>2
<1>7. ASSUME S # {} PROVE t = s /\ Files!Least(S) = s
  <2>1. s \in S /\ s \in T BY <1>3, <1>7
  <2> HIDE DEF s, t
  <2>2. s \in Nat /\ t \in Nat /\ s <= n - 1 BY <1>1, <1>2, <2>1
  <2>3. t <= s BY <1>2, <2>1
  <2>4. t \in S BY <1>2, <2>2, <2>3
  <2>5. s <= t BY <1>3, <1>7, <2>4
  <2>6. t = s BY <2>2, <2>3, <2>5
  <2>7. Files!Least(S) = s BY <1>7 DEF Files!Least, s
  <2> QED BY <2>6, <2>7
<1> HIDE DEF s, t
<1> QED BY <1>4, <1>5, <1>6, <1>7

-----------------------------------------------------------------------------
(* The window of two files *)

Typed ==
  /\ Lines /\ csv \in Seq(Files!CsvRow) /\ defaults \in Seq(Files!CsvRow)
  /\ at \in Nat \ {0} /\ Window \in Nat \ {0}

LEMMA TypedFiles ==
  ASSUME PdlInv
  PROVE  Typed
BY PdlTyped DEF PdlInv, Files!PdlTypeOK, Typed, Lines

\* What a loop has read is within the window, and so is the pair it reads next.
LEMMA WithinWindow ==
  ASSUME Typed, NEW rows \in Seq(Files!CsvRow), ReadUpTo(rows)
  PROVE  /\ Passed \subseteq Files!Common(rows)
         /\ Files!PairLeft(rows) => at \in Files!Common(rows)
         /\ Files!TooLarge(rows) => Files!Defective(rows)
         /\ Files!PairLeft(rows) /\ json[at].shape = "broken" => Files!Defective(rows)
<1>1. /\ Len(rows) \in Nat /\ Len(json) \in Nat /\ Window \in Nat /\ at \in Nat \ {0}
      /\ Len(json) + 1 \in Nat
  BY DEF Typed, Lines
<1> DEFINE n == Files!Min({Window, Len(rows), Len(json)})
           r == Files!Min({Window, Len(rows), Len(json) + 1})
<1>2. n \in Nat /\ n \in {Window, Len(rows), Len(json)} BY <1>1, MinOfThree
<1>3. r \in Nat /\ r \in {Window, Len(rows), Len(json) + 1} BY <1>1, MinOfThree
<1>4. Files!Common(rows) = 1 .. n /\ Files!RowsRead(rows) = 1 .. r
  BY DEF Files!Common, Files!RowsRead
<1> HIDE DEF n, r
<1>5. at - 1 <= Window /\ at - 1 <= Len(rows) /\ at - 1 <= Len(json) BY DEF ReadUpTo
<1>6. Passed \subseteq Files!Common(rows) BY <1>1, <1>2, <1>4, <1>5 DEF Passed
<1>7. Files!PairLeft(rows) => at \in Files!Common(rows)
  BY <1>1, <1>2, <1>4 DEF Files!PairLeft, Files!RowLeft
<1>8. Files!TooLarge(rows) => at \in Files!RowsRead(rows)
  BY <1>1, <1>3, <1>4, <1>5 DEF Files!TooLarge, Files!RowLeft
<1>9. Files!TooLarge(rows) => Files!Defective(rows)
  BY <1>8 DEF Files!TooLarge, Files!Defective
<1>10. Files!PairLeft(rows) /\ json[at].shape = "broken" => Files!Defective(rows)
  BY <1>7 DEF Files!Defective
<1> QED BY <1>6, <1>7, <1>9, <1>10

\* A loop that finds no further pair has passed the whole window, without a defect in it.
LEMMA WholeWindow ==
  ASSUME Typed, NEW rows \in Seq(Files!CsvRow), ReadUpTo(rows),
         ~Files!PairLeft(rows), ~Files!TooLarge(rows)
  PROVE  /\ Files!Common(rows) = Passed /\ ~Files!Defective(rows)
         /\ Files!WideRows(rows) = WidePassed(rows) /\ Files!OtherIds(rows) = OthersPassed(rows)
<1>1. /\ Len(rows) \in Nat /\ Len(json) \in Nat /\ Window \in Nat /\ at \in Nat \ {0}
      /\ Len(json) + 1 \in Nat
  BY DEF Typed, Lines
<1> DEFINE n == Files!Min({Window, Len(rows), Len(json)})
           r == Files!Min({Window, Len(rows), Len(json) + 1})
<1>2. /\ n \in Nat /\ n \in {Window, Len(rows), Len(json)}
      /\ n <= Window /\ n <= Len(rows) /\ n <= Len(json)
  BY <1>1, MinOfThree
<1>3. r \in Nat /\ r <= Window /\ r <= Len(rows) /\ r <= Len(json) + 1 BY <1>1, MinOfThree
<1>4. Files!Common(rows) = 1 .. n /\ Files!RowsRead(rows) = 1 .. r
  BY DEF Files!Common, Files!RowsRead
<1> HIDE DEF n, r
<1>5. at - 1 <= Window /\ at - 1 <= Len(rows) /\ at - 1 <= Len(json) BY DEF ReadUpTo
<1>6. ~(at <= Window /\ at <= Len(rows) /\ at <= Len(json))
  BY DEF Files!PairLeft, Files!RowLeft
<1>7. n = at - 1 BY <1>1, <1>2, <1>5, <1>6
<1>8. Files!Common(rows) = Passed BY <1>4, <1>7 DEF Passed
<1>9. \A k \in Passed : rows[k].width # "oversized" /\ json[k].shape # "broken"
  BY DEF ReadUpTo
<1>10. \A k \in Files!RowsRead(rows) : rows[k].width # "oversized"
  <2> SUFFICES ASSUME NEW k \in 1 .. r PROVE rows[k].width # "oversized" BY <1>4
  <2>1. CASE k <= at - 1 BY <1>1, <1>9, <2>1 DEF Passed
  <2>2. CASE k > at - 1
    <3>1. k \in Nat /\ k <= Window /\ k <= Len(rows) /\ k <= Len(json) + 1 BY <1>1, <1>3
    <3>2. k = at
      <4>1. at >= Len(json) + 1 \/ at > Window \/ at > Len(rows) BY <1>1, <1>6
      <4> QED BY <1>1, <2>2, <3>1, <4>1
    <3> QED BY <3>1, <3>2 DEF Files!TooLarge, Files!RowLeft
  <2> QED BY <1>1, <1>3, <2>1, <2>2
<1>11. ~Files!Defective(rows) BY <1>8, <1>9, <1>10 DEF Files!Defective
<1>12. Files!WideRows(rows) = WidePassed(rows) BY <1>8 DEF Files!WideRows, WidePassed
<1>13. Files!OtherIds(rows) = OthersPassed(rows) BY <1>8 DEF Files!OtherIds, OthersPassed
<1> QED BY <1>8, <1>11, <1>12, <1>13

-----------------------------------------------------------------------------
(* The steps *)

LEMMA KeptCompared ==
  ASSUME UNCHANGED <<json, csv, tally>>, ComparedWhole
  PROVE  ComparedWhole'
<1>1. Files!Common(csv)' = Files!Common(csv) BY DEF Files!Common
<1>2. Files!ComparisonReference' = Files!ComparisonReference
  BY <1>1 DEF Files!ComparisonReference, Files!OtherIds, Files!WideRows, Files!SameId
<1>3. Files!Defective(csv)' = Files!Defective(csv)
  BY <1>1 DEF Files!Defective, Files!RowsRead
<1> QED BY <1>1, <1>2, <1>3 DEF ComparedWhole

LEMMA KeptDefaults ==
  ASSUME UNCHANGED <<json, defaults>>
  PROVE  /\ Files!WideRows(defaults)' = Files!WideRows(defaults)
         /\ Files!OtherIds(defaults)' = Files!OtherIds(defaults)
         /\ Files!Defective(defaults)' = Files!Defective(defaults)
         /\ Files!StopsEarly' = Files!StopsEarly
<1>1. Files!Common(defaults)' = Files!Common(defaults) BY DEF Files!Common
<1>2. Files!WideRows(defaults)' = Files!WideRows(defaults) BY <1>1 DEF Files!WideRows
<1>3. Files!OtherIds(defaults)' = Files!OtherIds(defaults)
  BY <1>1 DEF Files!OtherIds, Files!SameId
<1>4. Files!Defective(defaults)' = Files!Defective(defaults)
  BY <1>1 DEF Files!Defective, Files!RowsRead
<1> QED BY <1>2, <1>3, <1>4 DEF Files!StopsEarly

LEMMA KeptFirsts ==
  ASSUME UNCHANGED <<json, defaults, firsts>>, FirstsFound
  PROVE  FirstsFound'
BY KeptDefaults DEF FirstsFound

LEMMA KeptLines ==
  ASSUME json' = json
  PROVE  /\ Files!LineStart' = Files!LineStart /\ Files!EndOfFile' = Files!EndOfFile
         /\ \A percent : Files!ProbedLine(percent)' = Files!ProbedLine(percent)
<1>1. Files!LineStart' = Files!LineStart BY DEF Files!LineStart
<1>2. Files!EndOfFile' = Files!EndOfFile BY <1>1 DEF Files!EndOfFile
<1>3. ASSUME NEW percent PROVE Files!ProbedLine(percent)' = Files!ProbedLine(percent)
  <2>1. Files!Offset(percent)' = Files!Offset(percent) BY <1>2 DEF Files!Offset
  <2> QED BY <1>1, <2>1 DEF Files!ProbedLine
<1> QED BY <1>1, <1>2, <1>3

LEMMA KeptProbes ==
  ASSUME json' = json
  PROVE  \A shapes : Files!ProbedLines(shapes)' = Files!ProbedLines(shapes)
<1> SUFFICES ASSUME NEW shapes
             PROVE  Files!ProbedLines(shapes)' = Files!ProbedLines(shapes)
  OBVIOUS
<1> QED BY KeptLines DEF Files!ProbedLines

\* What an inspection can fail for.
Defect ==
  \/ Files!Common(csv) = {} \/ Files!Defective(csv) \/ Files!Defective(defaults)
  \/ \E k \in Files!Common(csv) : Files!SameId(csv, k) /\ csv[k].value = Files!Unreadable
  \/ Files!ProbedLines({"broken"}) # {}

LEMMA FailsForDefect ==
  ASSUME ReportInv, Defect, NEW how \in {"raised", "escaped"}, Files!Ends(how)
  PROVE  ReportInv'
<1>1. phase' = how /\ UNCHANGED <<json, csv, defaults>> BY DEF Files!Ends, Files!pdlFiles
<1>2. Files!Common(csv)' = Files!Common(csv) BY <1>1 DEF Files!Common
<1>3. Files!Defective(csv)' = Files!Defective(csv)
  BY <1>1, <1>2 DEF Files!Defective, Files!RowsRead
<1>4. Files!Defective(defaults)' = Files!Defective(defaults) BY <1>1, KeptDefaults
<1>5. Files!ProbedLines({"broken"})' = Files!ProbedLines({"broken"}) BY <1>1, KeptProbes
<1>6. Defect' BY <1>1, <1>2, <1>3, <1>4, <1>5 DEF Defect, Files!SameId
<1>7. InspectionMatchesReference'
  BY <1>1, <1>6 DEF InspectionMatchesReference, Files!InspectionMatchesReference, Defect
<1> QED BY <1>1, <1>7 DEF ReportInv

LEMMA NothingPassed ==
  ASSUME Typed, at = 1
  PROVE  /\ Passed = {} /\ \A rows : WidePassed(rows) = {} /\ OthersPassed(rows) = {}
         /\ FieldsPassed = {} /\ \A shapes : ProbesPassed(shapes) = {}
<1>1. Passed = {} BY DEF Passed
<1> QED BY <1>1 DEF WidePassed, OthersPassed, FieldsPassed, ProbesPassed

LEMMA CompareFilesReport ==
  ASSUME PdlInv, ReportInv, Files!CompareFiles
  PROVE  ReportInv'
<1>1. Typed BY TypedFiles
<1>2. /\ phase = "compare" /\ Files!PairLeft(csv) /\ json[at].shape # "broken" /\ CountsSoFar
      /\ firsts = [malformed |-> 0, mismatch |-> 0]
  BY DEF Files!CompareFiles, ReportInv
<1>3. ReadUpTo(csv) /\ csv \in Seq(Files!CsvRow) BY <1>1, <1>2 DEF CountsSoFar, Typed
<1>4. CASE Files!SameId(csv, at) /\ csv[at].value = Files!Unreadable
  <2>1. at \in Files!Common(csv) BY <1>1, <1>2, <1>3, WithinWindow
  <2>2. Defect BY <1>4, <2>1 DEF Defect
  <2>3. Files!Ends("raised") BY <1>4 DEF Files!CompareFiles
  <2> QED BY <2>2, <2>3, FailsForDefect
<1>5. CASE ~(Files!SameId(csv, at) /\ csv[at].value = Files!Unreadable)
  <2> DEFINE other == ~Files!SameId(csv, at)
             again == json[at].id \in seen_ids
             wide == csv[at].width = "wide"
             field == Files!SameId(csv, at) /\ csv[at].value # json[at].value
  <2>1. /\ tally' = [compared |-> tally.compared + 1,
                     mismatches |-> tally.mismatches + Files!One(other),
                     duplicates |-> tally.duplicates + Files!One(again),
                     malformed |-> tally.malformed + Files!One(wide),
                     fields |-> tally.fields + Files!One(field)]
        /\ seen_ids' = seen_ids \cup {json[at].id} /\ at' = at + 1
        /\ UNCHANGED <<json, csv, defaults, phase, firsts, probes>>
    BY <1>5 DEF Files!CompareFiles, Files!pdlFiles
  <2>2. at \in Nat \ {0} BY <1>1 DEF Typed
  <2>3. Passed' = Passed \cup {at} /\ Passed = 1 .. at - 1 BY <2>1, <2>2 DEF Passed
  <2>4. OthersPassed(csv)' = IF other THEN OthersPassed(csv) \cup {at} ELSE OthersPassed(csv)
    BY <2>1, <2>2, <2>3 DEF OthersPassed, Files!SameId
  <2>5. WidePassed(csv)' = IF wide THEN WidePassed(csv) \cup {at} ELSE WidePassed(csv)
    BY <2>1, <2>2, <2>3 DEF WidePassed
  <2>6. FieldsPassed' = IF field THEN FieldsPassed \cup {at} ELSE FieldsPassed
    BY <2>1, <2>2, <2>3 DEF FieldsPassed, Files!SameId
  <2>7. /\ OthersPassed(csv) \subseteq 1 .. at - 1 /\ WidePassed(csv) \subseteq 1 .. at - 1
        /\ FieldsPassed \subseteq 1 .. at - 1
    BY <2>3 DEF OthersPassed, WidePassed, FieldsPassed
  <2>8. Cardinality(OthersPassed(csv)') = Cardinality(OthersPassed(csv)) + Files!One(other)
    <3> HIDE DEF other
    <3>1. /\ Cardinality(OthersPassed(csv)) \in Nat
          /\ Cardinality(OthersPassed(csv) \cup {at}) = Cardinality(OthersPassed(csv)) + 1
      BY <2>2, <2>7, CountMore
    <3>2. CASE other
      <4>1. OthersPassed(csv)' = OthersPassed(csv) \cup {at} BY <2>4, <3>2
      <4>2. Files!One(other) = 1 BY <3>2 DEF Files!One
      <4> QED BY <3>1, <4>1, <4>2
    <3>3. CASE ~other
      <4>1. OthersPassed(csv)' = OthersPassed(csv) BY <2>4, <3>3
      <4>2. Files!One(other) = 0 BY <3>3 DEF Files!One
      <4> QED BY <3>1, <4>1, <4>2
    <3> QED BY <3>2, <3>3
  <2>9. Cardinality(WidePassed(csv)') = Cardinality(WidePassed(csv)) + Files!One(wide)
    <3> HIDE DEF wide
    <3>1. /\ Cardinality(WidePassed(csv)) \in Nat
          /\ Cardinality(WidePassed(csv) \cup {at}) = Cardinality(WidePassed(csv)) + 1
      BY <2>2, <2>7, CountMore
    <3>2. CASE wide
      <4>1. WidePassed(csv)' = WidePassed(csv) \cup {at} BY <2>5, <3>2
      <4>2. Files!One(wide) = 1 BY <3>2 DEF Files!One
      <4> QED BY <3>1, <4>1, <4>2
    <3>3. CASE ~wide
      <4>1. WidePassed(csv)' = WidePassed(csv) BY <2>5, <3>3
      <4>2. Files!One(wide) = 0 BY <3>3 DEF Files!One
      <4> QED BY <3>1, <4>1, <4>2
    <3> QED BY <3>2, <3>3
  <2>10. Cardinality(FieldsPassed') = Cardinality(FieldsPassed) + Files!One(field)
    <3> HIDE DEF field
    <3>1. /\ Cardinality(FieldsPassed) \in Nat
          /\ Cardinality(FieldsPassed \cup {at}) = Cardinality(FieldsPassed) + 1
      BY <2>2, <2>7, CountMore
    <3>2. CASE field
      <4>1. FieldsPassed' = FieldsPassed \cup {at} BY <2>6, <3>2
      <4>2. Files!One(field) = 1 BY <3>2 DEF Files!One
      <4> QED BY <3>1, <4>1, <4>2
    <3>3. CASE ~field
      <4>1. FieldsPassed' = FieldsPassed BY <2>6, <3>3
      <4>2. Files!One(field) = 0 BY <3>3 DEF Files!One
      <4> QED BY <3>1, <4>1, <4>2
    <3> QED BY <3>2, <3>3
  <2>11. /\ IsFiniteSet(seen_ids') /\ Cardinality(seen_ids) \in Nat
         /\ Files!One(again) + Cardinality(seen_ids') = Cardinality(seen_ids) + 1
    <3>1. IsFiniteSet(seen_ids) BY <1>2 DEF CountsSoFar
    <3>2. Cardinality(seen_ids) \in Nat BY <3>1, FS_CardinalityType
    <3>3. CASE again
      <4>1. seen_ids' = seen_ids BY <2>1, <3>3
      <4> QED BY <3>1, <3>2, <3>3, <4>1 DEF Files!One
    <3>4. CASE ~again
      <4>1. IsFiniteSet(seen_ids') /\ Cardinality(seen_ids') = Cardinality(seen_ids) + 1
        BY <2>1, <3>1, <3>4, FS_AddElement
      <4> QED BY <3>2, <3>4, <4>1 DEF Files!One
    <3> QED BY <3>3, <3>4
  <2>12. seen_ids' = {json'[k].id : k \in Passed'}
    <3>1. seen_ids = {json[k].id : k \in Passed} BY <1>2 DEF CountsSoFar
    <3> QED BY <2>1, <2>3, <3>1
  <2>13. ReadUpTo(csv)'
    <3>1. at <= Window /\ at <= Len(csv) /\ at <= Len(json) /\ csv[at].width # "oversized"
      BY <1>2 DEF Files!PairLeft, Files!RowLeft, Files!TooLarge
    <3>2. \A k \in Passed : csv[k].width # "oversized" /\ json[k].shape # "broken"
      BY <1>3 DEF ReadUpTo
    <3>3. at' - 1 = at BY <2>1, <2>2
    <3> QED BY <1>2, <2>1, <2>3, <3>1, <3>2, <3>3 DEF ReadUpTo
  <2>14. CountsSoFar'
    <3>1. /\ tally["mismatches"] = Cardinality(OthersPassed(csv))
          /\ tally["duplicates"] + Cardinality(seen_ids) = at - 1
          /\ tally["malformed"] = Cardinality(WidePassed(csv))
          /\ tally["fields"] = Cardinality(FieldsPassed)
      BY <1>2 DEF CountsSoFar
    <3>2. tally["duplicates"] \in Nat BY PdlTyped DEF Counters
    <3>3. tally'["duplicates"] + Cardinality(seen_ids') = at' - 1
      <4> DEFINE d == tally["duplicates"]
                 o == Files!One(again)
                 c == Cardinality(seen_ids)
                 e == Cardinality(seen_ids')
      <4>1. tally'["duplicates"] = d + o BY <2>1
      <4>2. e \in Nat BY <2>11, FS_CardinalityType
      <4>3. o \in Nat BY DEF Files!One
      <4>4. d \in Nat /\ c \in Nat /\ o + e = c + 1 /\ d + c = at - 1 /\ at' = at + 1
        BY <2>1, <2>11, <3>1, <3>2
      <4> HIDE DEF d, o, c, e
      <4>5. d + o + e = at' - 1 BY <2>2, <4>2, <4>3, <4>4
      <4> QED BY <4>1, <4>5 DEF e
    <3>4. /\ tally'["mismatches"] = Cardinality(OthersPassed(csv)')
          /\ tally'["malformed"] = Cardinality(WidePassed(csv)')
          /\ tally'["fields"] = Cardinality(FieldsPassed')
      BY <2>1, <2>8, <2>9, <2>10, <3>1
    <3> QED BY <2>11, <2>12, <2>13, <3>3, <3>4 DEF CountsSoFar
  <2> QED BY <1>2, <2>1, <2>14
          DEF ReportInv, InspectionMatchesReference, Files!InspectionMatchesReference
<1> QED BY <1>4, <1>5

\* Nothing is counted when the comparison begins.
LEMMA StartReport ==
  ASSUME PdlInv, PdlInv', ReportInv, Files!StartPdlInspection
  PROVE  ReportInv'
<1>1. /\ phase = "idle" /\ phase' = "compare" /\ at = 1 /\ at' = 1
      /\ UNCHANGED <<seen_ids, tally, firsts, probes>>
      /\ CountsSoFar /\ firsts = [malformed |-> 0, mismatch |-> 0]
  BY DEF Files!StartPdlInspection, ReportInv
<1>2. Passed = {} /\ Passed' = {} BY <1>1 DEF Passed
<1>3. /\ OthersPassed(csv) = {} /\ WidePassed(csv) = {} /\ FieldsPassed = {}
      /\ OthersPassed(csv)' = {} /\ WidePassed(csv)' = {} /\ FieldsPassed' = {}
  BY <1>2 DEF OthersPassed, WidePassed, FieldsPassed
<1>4. /\ seen_ids = {} /\ IsFiniteSet(seen_ids)
      /\ tally["mismatches"] = Cardinality({}) /\ tally["malformed"] = Cardinality({})
      /\ tally["fields"] = Cardinality({})
      /\ tally["duplicates"] + Cardinality(seen_ids) = at - 1
  BY <1>1, <1>2, <1>3 DEF CountsSoFar
<1>5. seen_ids' = {json'[k].id : k \in Passed'} BY <1>1, <1>2, <1>4
<1>6. Len(csv)' \in Nat /\ Len(json)' \in Nat /\ Window \in Nat
  <2>1. csv' \in Seq(Files!CsvRow) /\ json' \in Seq(Files!JsonLine)
    BY DEF PdlInv, Files!PdlTypeOK
  <2> QED BY <2>1, PdlTyped
<1>7. ReadUpTo(csv)' BY <1>1, <1>2, <1>6 DEF ReadUpTo
<1>8. CountsSoFar' BY <1>1, <1>3, <1>4, <1>5, <1>7 DEF CountsSoFar
<1> QED BY <1>1, <1>8
        DEF ReportInv, InspectionMatchesReference, Files!InspectionMatchesReference

\* A reader that gives up has met a defect of the window.
LEMMA FailsReport ==
  ASSUME PdlInv, ReportInv,
         \/ Files!ReaderFails("compare", csv) \/ Files!Broken("compare", csv)
         \/ Files!DefaultFails
  PROVE  ReportInv'
<1>1. Typed BY TypedFiles
<1>2. CASE Files!ReaderFails("compare", csv) \/ Files!Broken("compare", csv)
  <2>1. /\ phase = "compare" /\ (Files!Ends("escaped") \/ Files!Ends("raised"))
        /\ Files!TooLarge(csv) \/ (Files!PairLeft(csv) /\ json[at].shape = "broken")
    BY <1>2 DEF Files!ReaderFails, Files!Broken
  <2>2. ReadUpTo(csv) /\ csv \in Seq(Files!CsvRow)
    BY <1>1, <1>2 DEF ReportInv, CountsSoFar, Typed, Files!ReaderFails, Files!Broken
  <2>3. Files!Defective(csv) BY <1>1, <2>1, <2>2, WithinWindow
  <2>4. Defect BY <2>3 DEF Defect
  <2> QED BY <1>2, <2>4, FailsForDefect DEF Files!ReaderFails, Files!Broken
<1>3. CASE Files!DefaultFails
  <2>1. /\ phase = "default" /\ (Files!Ends("escaped") \/ Files!Ends("raised"))
        /\ Files!TooLarge(defaults) \/ (Files!PairLeft(defaults) /\ json[at].shape = "broken")
    BY <1>3 DEF Files!DefaultFails, Files!ReaderFails, Files!Broken
  <2>2. ReadUpTo(defaults) /\ defaults \in Seq(Files!CsvRow)
    BY <1>1, <2>1 DEF ReportInv, FirstsSoFar, Typed
  <2>3. Files!Defective(defaults) BY <1>1, <2>1, <2>2, WithinWindow
  <2>4. Defect BY <2>3 DEF Defect
  <2> QED BY <2>1, <2>4, FailsForDefect
<1> QED BY <1>2, <1>3

\* The comparison ends at the end of the window, which is not empty.
LEMMA CompareEndsReport ==
  ASSUME PdlInv, ReportInv, Files!CompareEnds
  PROVE  ReportInv'
<1>1. Typed BY TypedFiles
<1>2. /\ phase = "compare" /\ ~Files!PairLeft(csv) /\ ~Files!TooLarge(csv) /\ CountsSoFar
      /\ firsts = [malformed |-> 0, mismatch |-> 0] /\ tally["compared"] = at - 1
  BY DEF Files!CompareEnds, ReportInv, PdlInv
<1>3. /\ Files!Common(csv) = Passed /\ ~Files!Defective(csv)
      /\ Files!WideRows(csv) = WidePassed(csv) /\ Files!OtherIds(csv) = OthersPassed(csv)
  BY <1>1, <1>2, WholeWindow DEF CountsSoFar, Typed
<1>4. at \in Nat \ {0} BY <1>1 DEF Typed
<1>5. CASE tally["compared"] = 0
  <2>1. Passed = {} BY <1>2, <1>4, <1>5 DEF Passed
  <2>2. Defect BY <1>3, <2>1 DEF Defect
  <2>3. Files!Ends("raised") BY <1>5 DEF Files!CompareEnds
  <2> QED BY <2>2, <2>3, FailsForDefect
<1>6. CASE tally["compared"] # 0
  <2>1. phase' = "default" /\ at' = 1 /\ UNCHANGED <<json, csv, defaults, seen_ids, tally, firsts, probes>>
    BY <1>6 DEF Files!CompareEnds, Files!pdlFiles
  <2>2. Passed # {} /\ Cardinality(Passed) = at - 1
    <3>1. at - 1 \in Nat /\ at - 1 # 0 BY <1>2, <1>4, <1>6
    <3>2. Cardinality(1 .. at - 1) = at - 1 BY <3>1, FS_Interval
    <3>3. 1 \in 1 .. at - 1 BY <1>4, <3>1
    <3> QED BY <3>2, <3>3 DEF Passed
  <2>3. tally["duplicates"] = Cardinality(Passed) - Cardinality({json[k].id : k \in Passed})
    <3> DEFINE c == Cardinality(seen_ids)
               d == tally["duplicates"]
    <3>1. c \in Nat BY <1>2, FS_CardinalityType DEF CountsSoFar
    <3>2. d + c = at - 1 /\ d \in Nat BY <1>2, PdlTyped DEF CountsSoFar, Counters
    <3>3. seen_ids = {json[k].id : k \in Passed} BY <1>2 DEF CountsSoFar
    <3> HIDE DEF c, d
    <3>4. d = (at - 1) - c BY <1>4, <3>1, <3>2
    <3> QED BY <2>2, <3>3, <3>4 DEF c, d
  <2>4. tally = [compared |-> tally["compared"], mismatches |-> tally["mismatches"],
                 duplicates |-> tally["duplicates"], malformed |-> tally["malformed"],
                 fields |-> tally["fields"]]
    BY DEF PdlInv, Files!PdlTypeOK
  <2>5. /\ tally["compared"] = Cardinality(Files!Common(csv))
        /\ tally["mismatches"] = Cardinality(Files!OtherIds(csv))
        /\ tally["duplicates"] = Cardinality(Files!Common(csv)) -
                                 Cardinality({json[k].id : k \in Files!Common(csv)})
        /\ tally["malformed"] = Cardinality(Files!WideRows(csv))
        /\ tally["fields"] = Cardinality({k \in Files!Common(csv) :
                                Files!SameId(csv, k) /\ csv[k].value # json[k].value})
    BY <1>2, <1>3, <2>2, <2>3 DEF CountsSoFar, FieldsPassed
  <2>6. tally = Files!ComparisonReference
    <3> DEFINE a == Cardinality(Files!Common(csv))
               b == Cardinality(Files!OtherIds(csv))
               c == Cardinality(Files!Common(csv)) -
                    Cardinality({json[k].id : k \in Files!Common(csv)})
               d == Cardinality(Files!WideRows(csv))
               e == Cardinality({k \in Files!Common(csv) :
                                Files!SameId(csv, k) /\ csv[k].value # json[k].value})
    <3>1. /\ tally["compared"] = a /\ tally["mismatches"] = b /\ tally["duplicates"] = c
          /\ tally["malformed"] = d /\ tally["fields"] = e
      BY <2>5
    <3>2. Files!ComparisonReference =
            [compared |-> a, mismatches |-> b, duplicates |-> c, malformed |-> d, fields |-> e]
      BY SameCardinality, Zenon DEF Files!ComparisonReference
    <3> HIDE DEF a, b, c, d, e
    <3> QED BY <2>4, <3>1, <3>2
  <2>7. ComparedWhole BY <1>3, <2>2, <2>6 DEF ComparedWhole
  <2>8. ComparedWhole' BY <2>1, <2>7, KeptCompared
  <2>9. Passed' = {} BY <2>1 DEF Passed
  <2>10. WidePassed(defaults)' = {} /\ OthersPassed(defaults)' = {}
    BY <2>9 DEF WidePassed, OthersPassed
  <2>11. ReadUpTo(defaults)'
    <3>1. Len(defaults) \in Nat /\ Len(json) \in Nat /\ Window \in Nat
      BY <1>1 DEF Typed, Lines
    <3> QED BY <2>1, <2>9, <3>1 DEF ReadUpTo
  <2>12. FirstsSoFar'
    <3>1. Files!Least({}) = 0 BY DEF Files!Least
    <3> QED BY <1>2, <2>1, <2>10, <2>11, <3>1 DEF FirstsSoFar
  <2> QED BY <2>1, <2>8, <2>12
          DEF ReportInv, InspectionMatchesReference, Files!InspectionMatchesReference
<1> QED BY <1>5, <1>6

\* The first defects of the rows so far.
LEMMA DefaultIssuesReport ==
  ASSUME PdlInv, ReportInv, Files!DefaultParserIssues
  PROVE  ReportInv'
<1> DEFINE wide == defaults[at].width = "wide"
           other == ~Files!SameId(defaults, at)
<1>1. Typed BY TypedFiles
<1>2. /\ phase = "default" /\ Files!PairLeft(defaults) /\ json[at].shape # "broken"
      /\ firsts' = [malformed |-> Files!First(firsts["malformed"], wide),
                    mismatch |-> Files!First(firsts["mismatch"], other)]
      /\ at' = at + 1
      /\ UNCHANGED <<json, csv, defaults, phase, seen_ids, tally, probes>>
  BY DEF Files!DefaultParserIssues, Files!pdlFiles
<1>3. ComparedWhole' BY <1>2, KeptCompared DEF ReportInv
<1>4. FirstsSoFar BY <1>2 DEF ReportInv
<1>5. at \in Nat \ {0} BY <1>1 DEF Typed
<1>6. Passed' = Passed \cup {at} /\ Passed = 1 .. at - 1 BY <1>2, <1>5 DEF Passed
<1>7. OthersPassed(defaults)' = IF other THEN OthersPassed(defaults) \cup {at} ELSE OthersPassed(defaults)
  BY <1>2, <1>5, <1>6 DEF OthersPassed, Files!SameId
<1>8. WidePassed(defaults)' = IF wide THEN WidePassed(defaults) \cup {at} ELSE WidePassed(defaults)
  BY <1>2, <1>5, <1>6 DEF WidePassed
<1>9. OthersPassed(defaults) \subseteq 1 .. at - 1 /\ WidePassed(defaults) \subseteq 1 .. at - 1
  BY <1>6 DEF OthersPassed, WidePassed
<1>10. ReadUpTo(defaults)'
  <2>1. at <= Window /\ at <= Len(defaults) /\ at <= Len(json) /\ defaults[at].width # "oversized"
    BY <1>2 DEF Files!PairLeft, Files!RowLeft, Files!TooLarge
  <2>2. \A k \in Passed : defaults[k].width # "oversized" /\ json[k].shape # "broken"
    BY <1>4 DEF FirstsSoFar, ReadUpTo
  <2>3. at' - 1 = at BY <1>2, <1>5
  <2> QED BY <1>2, <1>6, <2>1, <2>2, <2>3 DEF ReadUpTo
<1>11. /\ firsts["malformed"] = Files!Least(WidePassed(defaults))
       /\ firsts["mismatch"] = Files!Least(OthersPassed(defaults))
  BY <1>4 DEF FirstsSoFar
<1>12. Files!First(firsts["malformed"], wide) = Files!Least(WidePassed(defaults)')
  <2> HIDE DEF wide
  <2>1. CASE wide
    <3>1. WidePassed(defaults)' = WidePassed(defaults) \cup {at} BY <1>8, <2>1
    <3> QED BY <1>5, <1>9, <1>11, <2>1, <3>1, LeastMore DEF Files!First
  <2>2. CASE ~wide
    <3>1. WidePassed(defaults)' = WidePassed(defaults) BY <1>8, <2>2
    <3> QED BY <1>11, <2>2, <3>1 DEF Files!First
  <2> QED BY <2>1, <2>2
<1>13. Files!First(firsts["mismatch"], other) = Files!Least(OthersPassed(defaults)')
  <2> HIDE DEF other
  <2>1. CASE other
    <3>1. OthersPassed(defaults)' = OthersPassed(defaults) \cup {at} BY <1>7, <2>1
    <3> QED BY <1>5, <1>9, <1>11, <2>1, <3>1, LeastMore DEF Files!First
  <2>2. CASE ~other
    <3>1. OthersPassed(defaults)' = OthersPassed(defaults) BY <1>7, <2>2
    <3> QED BY <1>11, <2>2, <3>1 DEF Files!First
  <2> QED BY <2>1, <2>2
<1>14. FirstsSoFar' BY <1>2, <1>10, <1>12, <1>13 DEF FirstsSoFar
<1> QED BY <1>2, <1>3, <1>14
        DEF ReportInv, InspectionMatchesReference, Files!InspectionMatchesReference

\* The first of some positions is the first of them all when these are the earliest.
LEMMA LeastOfEarliest ==
  ASSUME NEW n \in Nat, NEW T, T \subseteq Nat, NEW S, S = {k \in T : k < n}, Files!Least(S) # 0
  PROVE  Files!Least(T) = Files!Least(S) /\ T # {}
<1> DEFINE s == Files!Min(S)
           t == Files!Min(T)
<1>1. S # {} /\ T # {} /\ S \subseteq Nat BY DEF Files!Least
<1>2. s \in S /\ \A m \in S : s <= m BY <1>1, MinFacts
<1>3. t \in T /\ \A m \in T : t <= m BY <1>1, MinFacts
<1>4. Files!Least(S) = s /\ Files!Least(T) = t BY <1>1 DEF Files!Least
<1> HIDE DEF s, t
<1>5. s \in T /\ s < n /\ s \in Nat /\ t \in Nat BY <1>2, <1>3
<1>6. t <= s BY <1>3, <1>5
<1>7. t \in S BY <1>3, <1>5, <1>6
<1>8. s <= t BY <1>2, <1>7
<1> QED BY <1>1, <1>4, <1>5, <1>6, <1>8

\* When a loop passes positions of the window, it passes the earliest.
LEMMA PassedAreEarliest ==
  ASSUME Typed, NEW rows \in Seq(Files!CsvRow), ReadUpTo(rows)
  PROVE  /\ Files!Common(rows) \subseteq Nat
         /\ WidePassed(rows) = {k \in Files!WideRows(rows) : k < at}
         /\ OthersPassed(rows) = {k \in Files!OtherIds(rows) : k < at}
<1>1. Passed \subseteq Files!Common(rows) BY WithinWindow
<1>2. at \in Nat BY DEF Typed
<1>3. \A k \in Files!Common(rows) : k \in Nat /\ (k \in Passed <=> k < at)
  BY <1>2 DEF Files!Common, Passed
<1>4. WidePassed(rows) = {k \in Files!WideRows(rows) : k < at}
  BY <1>1, <1>3 DEF WidePassed, Files!WideRows
<1>5. OthersPassed(rows) = {k \in Files!OtherIds(rows) : k < at}
  BY <1>1, <1>3 DEF OthersPassed, Files!OtherIds
<1> QED BY <1>3, <1>4, <1>5

\* The search ends with the window, or early, when it has found a defect of each kind.
LEMMA DefaultEndsReport ==
  ASSUME PdlInv, ReportInv, Files!DefaultEnds
  PROVE  ReportInv'
<1>1. Typed BY TypedFiles
<1>2. /\ phase = "default" /\ phase' = "probe" /\ at' = 1
      /\ UNCHANGED <<json, csv, defaults, seen_ids, tally, firsts, probes>>
  BY DEF Files!DefaultEnds, Files!pdlFiles
<1>3. ComparedWhole' BY <1>2, KeptCompared DEF ReportInv
<1>4. FirstsSoFar /\ ReadUpTo(defaults) /\ defaults \in Seq(Files!CsvRow)
  BY <1>1, <1>2 DEF ReportInv, FirstsSoFar, Typed
<1>5. FirstsFound
  <2>1. CASE ~Files!PairLeft(defaults) /\ ~Files!TooLarge(defaults)
    <3>1. /\ Files!WideRows(defaults) = WidePassed(defaults) /\ ~Files!Defective(defaults)
          /\ Files!OtherIds(defaults) = OthersPassed(defaults)
      BY <1>1, <1>4, <2>1, WholeWindow
    <3> QED BY <1>4, <3>1 DEF FirstsFound, FirstsSoFar
  <2>2. CASE Files!BothFound
    <3>1. Files!Least(WidePassed(defaults)) # 0 /\ Files!Least(OthersPassed(defaults)) # 0
      BY <1>4, <2>2 DEF FirstsSoFar, Files!BothFound
    <3>2. /\ Files!WideRows(defaults) \subseteq Nat /\ Files!OtherIds(defaults) \subseteq Nat
          /\ WidePassed(defaults) = {k \in Files!WideRows(defaults) : k < at}
          /\ OthersPassed(defaults) = {k \in Files!OtherIds(defaults) : k < at}
      BY <1>1, <1>4, PassedAreEarliest DEF Files!WideRows, Files!OtherIds
    <3>3. at \in Nat BY <1>1 DEF Typed
    <3>4. /\ Files!Least(Files!WideRows(defaults)) = Files!Least(WidePassed(defaults))
          /\ Files!WideRows(defaults) # {}
      BY <3>1, <3>2, <3>3, LeastOfEarliest
    <3>5. /\ Files!Least(Files!OtherIds(defaults)) = Files!Least(OthersPassed(defaults))
          /\ Files!OtherIds(defaults) # {}
      BY <3>1, <3>2, <3>3, LeastOfEarliest
    <3> QED BY <1>4, <3>4, <3>5 DEF FirstsFound, FirstsSoFar, Files!StopsEarly
  <2> QED BY <2>1, <2>2 DEF Files!DefaultEnds
<1>6. FirstsFound' BY <1>2, <1>5, KeptFirsts
<1>7. ProbesSoFar'
  <2>1. Passed' = {} BY <1>2 DEF Passed
  <2>2. ProbesPassed(Files!Shapes)' = {} /\ ProbesPassed({"drifted"})' = {}
    BY <2>1 DEF ProbesPassed
  <2>3. probes \in [{"made", "drifted"} -> 0 .. Len(Fractions)]
    BY DEF PdlInv, Files!PdlTypeOK
  <2>4. probes["made"] = 0 /\ probes["drifted"] = 0
    <3>1. probes["made"] = 0 /\ probes["drifted"] <= probes["made"] BY <1>2 DEF PdlInv
    <3> QED BY <3>1, PdlTyped
  <2>5. probes = [made |-> 0, drifted |-> 0] BY <2>3, <2>4
  <2> QED BY <1>2, <2>2, <2>5, FS_EmptySet DEF ProbesSoFar
<1> QED BY <1>2, <1>3, <1>6, <1>7
        DEF ReportInv, InspectionMatchesReference, Files!InspectionMatchesReference

LEMMA ProbesNext ==
  ASSUME Typed, json' = json, at' = at + 1, NEW shapes
  PROVE  LET n == Files!ProbedLine(Fractions[at]) IN
         /\ n <= Len(json) /\ json[n].shape \in shapes =>
              ProbesPassed(shapes)' = ProbesPassed(shapes) \cup {at}
         /\ ~(n <= Len(json) /\ json[n].shape \in shapes) =>
              ProbesPassed(shapes)' = ProbesPassed(shapes)
<1>1. at \in Nat \ {0} BY DEF Typed
<1>2. Passed' = Passed \cup {at} BY <1>1 DEF Passed
<1>3. \A k : Files!ProbedLine(Fractions[k])' = Files!ProbedLine(Fractions[k]) BY KeptLines
<1>4. ProbesPassed(shapes)' =
        {k \in Passed \cup {at} : /\ Files!ProbedLine(Fractions[k]) <= Len(json)
                                  /\ json[Files!ProbedLine(Fractions[k])].shape \in shapes}
  BY <1>2, <1>3 DEF ProbesPassed
<1> QED BY <1>4 DEF ProbesPassed

\* A probe is counted for the line that the reference names.
LEMMA ProbeReport ==
  ASSUME PdlInv, ReportInv, Files!ProbeJsonOffsets
  PROVE  ReportInv'
<1> DEFINE p == Files!SeekLine(Files!Offset(Fractions[at]))
           n == Files!ProbedLine(Fractions[at])
<1>1. Typed BY TypedFiles
<1>2. /\ phase = "probe" /\ at <= Len(Fractions) /\ ComparedWhole /\ FirstsFound /\ ProbesSoFar
  BY DEF Files!ProbeJsonOffsets, ReportInv
<1>3. at \in 1 .. Len(Fractions) /\ Fractions[at] \in 0 .. 99
  <2>1. at \in Nat \ {0} /\ Len(Fractions) \in Nat BY PdlTyped
  <2>2. Fractions \in Seq(0 .. 99) BY PdlFilesAssumption DEF Files!PdlFilesBounds
  <2>3. at \in 1 .. Len(Fractions) BY <1>2, <2>1
  <2> QED BY <2>2, <2>3, ElementOfSeq
<1>4. Len(json) \in Nat /\ Len(json) >= 1
  <2>1. Len(json) \in Nat /\ Len(csv) \in Nat /\ Window \in Nat BY <1>1 DEF Typed, Lines
  <2> DEFINE m == Files!Min({Window, Len(csv), Len(json)})
  <2>2. m \in Nat /\ m <= Len(json) BY <2>1, MinOfThree
  <2>3. 1 .. m # {} BY <1>2 DEF ComparedWhole, Files!Common
  <2> HIDE DEF m
  <2>4. m >= 1 BY <2>2, <2>3
  <2> QED BY <2>1, <2>2, <2>4
<1>5. n \in Places /\ p = Files!LineStart[n]
  BY <1>1, <1>3, <1>4, ProbeReadsLine DEF Typed
<1>6. /\ p # Files!EndOfFile <=> n <= Len(json)
      /\ n <= Len(json) => Files!ShapeAt(p) = json[n].shape
  BY <1>1, <1>5, ShapeOfLine DEF Typed
<1>7. n <= Len(json) => json[n].shape \in Files!Shapes
  <2>1. n <= Len(json) => n \in 1 .. Len(json) BY <1>4, <1>5 DEF Places
  <2> QED BY <1>1, <2>1, LineFacts DEF Typed
<1>8. CASE p # Files!EndOfFile /\ Files!ShapeAt(p) = "broken"
  <2>1. n <= Len(json) /\ json[n].shape = "broken" BY <1>6, <1>8
  <2>2. at \in Files!ProbedLines({"broken"}) BY <1>3, <2>1 DEF Files!ProbedLines
  <2>3. Defect BY <2>2 DEF Defect
  <2>4. Files!Ends("raised") BY <1>8 DEF Files!ProbeJsonOffsets
  <2> QED BY <2>3, <2>4, FailsForDefect
<1>9. CASE ~(p # Files!EndOfFile /\ Files!ShapeAt(p) = "broken")
  <2> DEFINE whole == p # Files!EndOfFile
             drifted == p # Files!EndOfFile /\ Files!ShapeAt(p) = "drifted"
             W == ProbesPassed(Files!Shapes)
             D == ProbesPassed({"drifted"})
  <2>1. /\ probes' = [made |-> probes.made + Files!One(whole),
                      drifted |-> probes.drifted + Files!One(drifted)]
        /\ at' = at + 1 /\ UNCHANGED <<json, csv, defaults, phase, seen_ids, tally, firsts>>
    BY <1>9 DEF Files!ProbeJsonOffsets, Files!pdlFiles
  <2>2. whole <=> n <= Len(json) /\ json[n].shape \in Files!Shapes BY <1>6, <1>7
  <2>3. drifted <=> n <= Len(json) /\ json[n].shape \in {"drifted"} BY <1>6
  <2>4. W \subseteq 1 .. at - 1 /\ D \subseteq 1 .. at - 1 BY DEF ProbesPassed, Passed
  <2>5. probes["made"] = Cardinality(W) /\ probes["drifted"] = Cardinality(D)
    BY <1>2 DEF ProbesSoFar
  <2>6. (whole => W' = W \cup {at}) /\ (~whole => W' = W)
    <3> HIDE DEF n, whole
    <3> QED BY <1>1, <2>1, <2>2, ProbesNext DEF n
  <2>7. (drifted => D' = D \cup {at}) /\ (~drifted => D' = D)
    <3> HIDE DEF n, drifted
    <3> QED BY <1>1, <2>1, <2>3, ProbesNext DEF n
  <2>8. at \in Nat \ {0} BY <1>3
  <2>9. /\ Cardinality(W) \in Nat /\ Cardinality(W \cup {at}) = Cardinality(W) + 1
        /\ Cardinality(D) \in Nat /\ Cardinality(D \cup {at}) = Cardinality(D) + 1
    BY <2>4, <2>8, CountMore
  <2>10. Cardinality(W') = Cardinality(W) + Files!One(whole)
    <3> HIDE DEF whole, W
    <3>1. CASE whole BY <2>6, <2>9, <3>1 DEF Files!One
    <3>2. CASE ~whole BY <2>6, <2>9, <3>2 DEF Files!One
    <3> QED BY <3>1, <3>2
  <2>11. Cardinality(D') = Cardinality(D) + Files!One(drifted)
    <3> HIDE DEF drifted, D
    <3>1. CASE drifted BY <2>7, <2>9, <3>1 DEF Files!One
    <3>2. CASE ~drifted BY <2>7, <2>9, <3>2 DEF Files!One
    <3> QED BY <3>1, <3>2
  <2>12. ProbesSoFar' BY <2>1, <2>5, <2>10, <2>11 DEF ProbesSoFar
  <2>13. ComparedWhole' /\ FirstsFound' BY <1>2, <2>1, KeptCompared, KeptFirsts
  <2> QED BY <1>2, <2>1, <2>12, <2>13
          DEF ReportInv, InspectionMatchesReference, Files!InspectionMatchesReference
<1> QED BY <1>8, <1>9

\* When all the offsets are passed, the report is complete.
LEMMA ProbesEndReport ==
  ASSUME PdlInv, ReportInv, Files!ProbesEnd
  PROVE  ReportInv'
<1>1. /\ phase = "probe" /\ at > Len(Fractions) /\ phase' = "returned"
      /\ UNCHANGED <<json, csv, defaults, at, seen_ids, tally, firsts, probes>>
      /\ ComparedWhole /\ FirstsFound /\ ProbesSoFar
  BY DEF Files!ProbesEnd, Files!Ends, Files!pdlFiles, ReportInv
<1>2. at - 1 = Len(Fractions)
  <2>1. at <= Len(Fractions) + 1 BY <1>1 DEF PdlInv
  <2> QED BY <1>1, <2>1, PdlTyped
<1>3. \A shapes : ProbesPassed(shapes) = Files!ProbedLines(shapes)
  BY <1>2 DEF ProbesPassed, Passed, Files!ProbedLines
<1>4. probes' = [made |-> Files!Cardinality(Files!ProbedLines(Files!Shapes)'),
                 drifted |-> Files!Cardinality(Files!ProbedLines({"drifted"})')]
  BY <1>1, <1>3, KeptProbes, SameCardinality DEF ProbesSoFar
<1>5. ComparedWhole' /\ FirstsFound' BY <1>1, KeptCompared, KeptFirsts
<1>6. InspectionMatchesReference'
  BY <1>1, <1>4, <1>5
  DEF InspectionMatchesReference, Files!InspectionMatchesReference, ComparedWhole, FirstsFound
<1> QED BY <1>1, <1>5, <1>6 DEF ReportInv

LEMMA OtherReport ==
  ASSUME ReportInv, UNCHANGED pdlVars
  PROVE  ReportInv'
<1>1. UNCHANGED <<json, csv, defaults, phase, at, seen_ids, tally, firsts, probes>>
  BY DEF pdlVars, Files!pdlVars, Files!pdlFiles
<1>2. Passed' = Passed BY <1>1 DEF Passed
<1>3. ReadUpTo(csv)' = ReadUpTo(csv) /\ ReadUpTo(defaults)' = ReadUpTo(defaults)
  BY <1>1, <1>2 DEF ReadUpTo
<1>4. CountsSoFar => CountsSoFar'
  <2>1. /\ OthersPassed(csv)' = OthersPassed(csv) /\ WidePassed(csv)' = WidePassed(csv)
        /\ FieldsPassed' = FieldsPassed
    BY <1>1, <1>2 DEF OthersPassed, WidePassed, FieldsPassed, Files!SameId
  <2> QED BY <1>1, <1>2, <1>3, <2>1 DEF CountsSoFar
<1>5. FirstsSoFar => FirstsSoFar'
  <2>1. /\ OthersPassed(defaults)' = OthersPassed(defaults)
        /\ WidePassed(defaults)' = WidePassed(defaults)
    BY <1>1, <1>2 DEF OthersPassed, WidePassed, Files!SameId
  <2> QED BY <1>1, <1>3, <2>1 DEF FirstsSoFar
<1>6. ProbesSoFar => ProbesSoFar'
  <2>1. \A k : Files!ProbedLine(Fractions[k])' = Files!ProbedLine(Fractions[k])
    BY <1>1, KeptLines
  <2>2. ProbesPassed(Files!Shapes)' = ProbesPassed(Files!Shapes)
    BY <1>1, <1>2, <2>1 DEF ProbesPassed
  <2>3. ProbesPassed({"drifted"})' = ProbesPassed({"drifted"})
    BY <1>1, <1>2, <2>1 DEF ProbesPassed
  <2> QED BY <1>1, <2>2, <2>3 DEF ProbesSoFar
<1>7. (ComparedWhole => ComparedWhole') /\ (FirstsFound => FirstsFound')
  BY <1>1, KeptCompared, KeptFirsts
<1>8. InspectionMatchesReference'
  <2>1. /\ Files!Common(csv)' = Files!Common(csv)
        /\ Files!ProbedLines(Files!Shapes)' = Files!ProbedLines(Files!Shapes)
        /\ Files!ProbedLines({"drifted"})' = Files!ProbedLines({"drifted"})
        /\ Files!ProbedLines({"broken"})' = Files!ProbedLines({"broken"})
    BY <1>1, KeptProbes DEF Files!Common
  <2>2. Files!Defective(csv)' = Files!Defective(csv)
    BY <1>1, <2>1 DEF Files!Defective, Files!RowsRead
  <2>3. Files!ComparisonReference' = Files!ComparisonReference
    BY <1>1, <2>1 DEF Files!ComparisonReference, Files!OtherIds, Files!WideRows, Files!SameId
  <2> QED BY <1>1, <2>1, <2>2, <2>3, KeptDefaults
          DEF ReportInv, InspectionMatchesReference, Files!InspectionMatchesReference, Files!SameId
<1> QED BY <1>1, <1>4, <1>5, <1>6, <1>7, <1>8 DEF ReportInv

LEMMA ReportStep == PdlInv /\ ReportInv /\ [Next]_vars => ReportInv'
<1> SUFFICES ASSUME PdlInv, ReportInv, [Next]_vars PROVE ReportInv' OBVIOUS
<1>1. PdlInv' BY PdlInvStep
<1>2. CASE Files!PdlStep
  BY <1>2, FailsReport, CompareFilesReport, CompareEndsReport, DefaultIssuesReport,
     DefaultEndsReport, ProbeReport, ProbesEndReport
  DEF Files!PdlStep
<1>3. CASE Files!StartPdlInspection BY <1>1, <1>3, StartReport
<1>4. CASE UNCHANGED pdlVars BY <1>4, OtherReport
<1> QED BY <1>2, <1>3, <1>4, PdlMoves

LEMMA ReportInitially == Init => ReportInv
<1> SUFFICES ASSUME Init PROVE ReportInv OBVIOUS
<1>1. /\ json = <<>> /\ csv = <<>> /\ phase = "idle" /\ at = 1 /\ seen_ids = {}
      /\ tally = [compared |-> 0, mismatches |-> 0, duplicates |-> 0, malformed |-> 0, fields |-> 0]
      /\ firsts = [malformed |-> 0, mismatch |-> 0]
  BY DEF Init, Files!PdlInit
<1>2. Passed = {} BY <1>1 DEF Passed
<1>3. OthersPassed(csv) = {} /\ WidePassed(csv) = {} /\ FieldsPassed = {}
  BY <1>2 DEF OthersPassed, WidePassed, FieldsPassed
<1>4. seen_ids = {json[k].id : k \in Passed} BY <1>1, <1>2
<1>5. Window \in Nat BY PdlFilesAssumption DEF Files!PdlFilesBounds
<1>6. ReadUpTo(csv) BY <1>1, <1>2, <1>5 DEF ReadUpTo
<1>7. IsFiniteSet(seen_ids) /\ Cardinality(seen_ids) = 0 BY <1>1, FS_EmptySet
<1>8. /\ tally["mismatches"] = 0 /\ tally["duplicates"] = 0 /\ tally["malformed"] = 0
      /\ tally["fields"] = 0 /\ at - 1 = 0 /\ Cardinality({}) = 0
  BY <1>1, FS_EmptySet
<1>9. CountsSoFar
  <2>1. tally["duplicates"] + Cardinality(seen_ids) = at - 1 BY <1>7, <1>8
  <2> QED BY <1>3, <1>4, <1>6, <1>7, <1>8, <2>1 DEF CountsSoFar
<1> QED BY <1>1, <1>9 DEF ReportInv, InspectionMatchesReference, Files!InspectionMatchesReference

-----------------------------------------------------------------------------
\* pdl/inspect.py:133-250: the counts of the comparison, the first defects of the default
\* dialect and the probes are what the whole files have in the window and at the offsets; an
\* inspection fails only for a row or line that is defective.
THEOREM ReportMatches == Spec => []InspectionMatchesReference
<1>1. Init => PdlInv /\ ReportInv BY PdlInitially, ReportInitially
<1>2. PdlInv /\ ReportInv /\ [Next]_vars => (PdlInv /\ ReportInv)' BY PdlInvStep, ReportStep
<1>3. PdlInv /\ ReportInv => InspectionMatchesReference BY DEF ReportInv
<1> QED BY <1>1, <1>2, <1>3, PTL DEF Spec
=============================================================================
