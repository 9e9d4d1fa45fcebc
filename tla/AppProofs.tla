------------------------------ MODULE AppProofs -------------------------------
(***************************************************************************)
(* Theorems about the program, its log and its report, for every size of   *)
(* the line buffer and every length of a line, any number of operations    *)
(* and launches, and a crash anywhere.                                     *)
(***************************************************************************)
EXTENDS App, SequenceTheorems, FiniteSetTheorems, TLAPS

(* The lesser of two numbers. *)
LEMMA MinOfTwo ==
  ASSUME NEW a \in Int, NEW b \in Int
  PROVE  Min({a, b}) = IF a <= b THEN a ELSE b
<1>1. \E x \in {a, b} : \A y \in {a, b} : x =< y
  OBVIOUS
<1>2. Min({a, b}) \in {a, b} /\ \A y \in {a, b} : Min({a, b}) =< y
  BY <1>1 DEF Min
<1> QED
  BY <1>2

-----------------------------------------------------------------------------
(* What a line of n characters leaves in the file: its text as far as the  *)
(* buffer goes, and the newline only if no NUL stands in front of it.      *)
LEMMA EmittedShape ==
  ASSUME NEW n \in Nat
  PROVE  /\ Emitted(n).text = IF n <= Buf - 3 THEN n ELSE Buf - 3
         /\ Emitted(n).newline <=> n <= Buf - 3
         /\ ~Emitted(n).stale
<1> DEFINE end == Min({n, Buf - 3})
           len == Min({n, Buf - 2})
           buf == Terminated(n)
           put == {k \in DOMAIN buf : \A j \in 0..k : buf[j] # "nul"}
           texts == {k \in put : buf[k] = "text"}
<1>0. Buf \in Nat /\ Buf > 3
  BY BufAssumption
<1>1. /\ end = IF n <= Buf - 3 THEN n ELSE Buf - 3
      /\ len = IF n <= Buf - 2 THEN n ELSE Buf - 2
  BY <1>0, MinOfTwo
<1>2. /\ DOMAIN buf = 0..Buf - 1
      /\ \A k \in 0..Buf - 1 :
           buf[k] = IF k = len + 1 THEN "nul" ELSE IF k = len THEN "newline"
                    ELSE IF k < end THEN "text" ELSE IF k = end THEN "nul" ELSE "stale"
  <2>1. buf = [Printed(n) EXCEPT ![len] = "newline", ![len + 1] = "nul"]
    BY DEF Terminated, Limit
  <2>2. Printed(n) = [k \in 0..Buf - 1 |->
                       IF k < end THEN "text" ELSE IF k = end THEN "nul" ELSE "stale"]
    BY DEF Printed
  <2>3. len \in Nat /\ len # len + 1
    BY <1>0, <1>1
  <2> HIDE DEF buf, end, len
  <2> QED
    BY <2>1, <2>2, <2>3
<1>3. /\ Emitted(n).text = Cardinality(texts)
      /\ Emitted(n).newline <=> \E k \in put : buf[k] = "newline"
      /\ Emitted(n).stale <=> \E k \in put : buf[k] = "stale"
  BY DEF Emitted
<1> HIDE DEF end, len, buf, Emitted
<1>4. CASE n <= Buf - 3
  <2>1. end = n /\ len = n
    BY <1>0, <1>1, <1>4
  <2>2. put = 0..n
    <3>1. ASSUME NEW k \in 0..n PROVE k \in put
      BY <1>0, <1>2, <1>4, <2>1, <3>1
    <3>2. ASSUME NEW k \in put PROVE k \in 0..n
      <4>1. k \in 0..Buf - 1 /\ (n + 1 \in 0..k => buf[n + 1] # "nul")
        BY <1>2
      <4>2. buf[n + 1] = "nul"
        BY <1>0, <1>2, <1>4, <2>1
      <4> QED
        BY <1>0, <4>1, <4>2
    <3> QED
      BY <3>1, <3>2
  <2>3. \A k \in 0..n : buf[k] = IF k = n THEN "newline" ELSE "text"
    BY <1>0, <1>2, <1>4, <2>1
  <2> HIDE DEF put
  <2>4. texts = 0..n - 1
    BY <2>2, <2>3
  <2>5. Cardinality(0..n - 1) = n
    BY FS_Interval
  <2>6. buf[n] = "newline" /\ n \in put
    BY <2>2, <2>3
  <2>7. \A k \in put : buf[k] # "stale"
    BY <2>2, <2>3
  <2> HIDE DEF texts
  <2> QED
    BY <1>3, <1>4, <2>4, <2>5, <2>6, <2>7
<1>5. CASE n > Buf - 3
  <2>1. end = Buf - 3 /\ len = Buf - 2
    BY <1>0, <1>1, <1>5
  <2>2. put = 0..Buf - 4
    <3>1. ASSUME NEW k \in 0..Buf - 4 PROVE k \in put
      BY <1>0, <1>2, <2>1, <3>1
    <3>2. ASSUME NEW k \in put PROVE k \in 0..Buf - 4
      <4>1. k \in 0..Buf - 1 /\ (Buf - 3 \in 0..k => buf[Buf - 3] # "nul")
        BY <1>2
      <4>2. buf[Buf - 3] = "nul"
        BY <1>0, <1>2, <2>1
      <4> QED
        BY <1>0, <4>1, <4>2
    <3> QED
      BY <3>1, <3>2
  <2>3. \A k \in 0..Buf - 4 : buf[k] = "text"
    BY <1>0, <1>2, <2>1
  <2> HIDE DEF put
  <2>4. texts = 0..Buf - 4
    BY <2>2, <2>3
  <2>5. Cardinality(0..Buf - 4) = Buf - 3
    BY <1>0, FS_Interval
  <2>6. \A k \in put : buf[k] # "stale" /\ buf[k] # "newline"
    BY <2>2, <2>3
  <2>7. ~(n <= Buf - 3)
    BY <1>0, <1>5
  <2> HIDE DEF texts
  <2> QED
    BY <1>3, <2>4, <2>5, <2>6, <2>7
<1>6. n <= Buf - 3 \/ n > Buf - 3
  BY <1>0
<1> QED
  BY <1>4, <1>5, <1>6

-----------------------------------------------------------------------------
(* The log.  Every line in it is what emit makes of a text of some length. *)
Writers == [launch : Nat, op : Nat]
WholeLines ==
  {l \in [by : Writers, long : Nat, text : Nat, newline : BOOLEAN, stale : BOOLEAN] :
     /\ ~l.stale
     /\ l.long <= Buf - 3 => l.text = l.long /\ l.newline
     /\ l.text >= Min({l.long, Buf - 3})}

LogInv == op \in Nat /\ launches \in Nat /\ logFile \in Seq(WholeLines)

LEMMA ByIsWriter ==
  ASSUME NEW l \in Nat, NEW o \in Nat
  PROVE  By(l, o) \in Writers /\ By(l, o).launch = l /\ By(l, o).op = o
BY DEF By, Writers

(* What emit appends is such a line, with the name of its writer. *)
LEMMA EntryIsWhole ==
  ASSUME NEW o \in Writers, NEW n \in Nat
  PROVE  Entry(o, n) \in WholeLines /\ Entry(o, n).by = o
<1> DEFINE e == Emitted(n)
           upto == Min({n, Buf - 3})
<1>0. Buf \in Nat /\ Buf > 3
  BY BufAssumption
<1>1. /\ e.text = IF n <= Buf - 3 THEN n ELSE Buf - 3
      /\ e.newline <=> n <= Buf - 3
      /\ ~e.stale
  BY EmittedShape
<1>2. upto = IF n <= Buf - 3 THEN n ELSE Buf - 3
  BY <1>0, MinOfTwo
<1>3. e.newline \in BOOLEAN /\ e.stale \in BOOLEAN
  BY DEF Emitted
<1>4. Entry(o, n) = [by |-> o, long |-> n, text |-> e.text, newline |-> e.newline,
                     stale |-> e.stale]
  BY DEF Entry
<1> HIDE DEF e
<1>5. PICK t, w, s : t = e.text /\ w = e.newline /\ s = e.stale
  OBVIOUS
<1>6. t \in Nat /\ w \in BOOLEAN /\ s \in BOOLEAN /\ ~s
  BY <1>0, <1>1, <1>3, <1>5
<1>7. (n <= Buf - 3 => t = n /\ w) /\ t >= upto
  BY <1>0, <1>1, <1>2, <1>5
<1>8. PICK l : l = Entry(o, n)
  OBVIOUS
<1>9. l = [by |-> o, long |-> n, text |-> t, newline |-> w, stale |-> s]
  BY <1>4, <1>5, <1>8
<1>10. l.by = o /\ l.long = n /\ l.text = t /\ l.newline = w /\ l.stale = s
  BY <1>9
<1>11. l \in [by : Writers, long : Nat, text : Nat, newline : BOOLEAN, stale : BOOLEAN]
  BY <1>6, <1>9
<1>12. l.text >= Min({l.long, Buf - 3})
  BY <1>7, <1>10
<1>13. ~l.stale /\ (l.long <= Buf - 3 => l.text = l.long /\ l.newline)
  BY <1>6, <1>7, <1>10
<1>14. l \in WholeLines
  BY <1>11, <1>12, <1>13 DEF WholeLines
<1> QED
  BY <1>8, <1>10, <1>14

(* What a step does to the log: nothing, the truncation of init, or a line *)
(* more, which unless the program just starts is the current operation's.  *)
Logged == \E n \in Nat : logFile' = Append(logFile, Entry(By(launches, op), n))
LogStep ==
  \/ logFile' \in {logFile, <<>>}
  \/ \E b \in Writers, n \in Nat : logFile' = Append(logFile, Entry(b, n))
  \/ \E b \in Writers, n \in Nat : logFile' = <<Entry(b, n)>>

(* The current operation logs, or the card refuses the line. *)
TriesToLog == (Logged /\ lost' = lost) \/ (logFile' = logFile /\ lost' = TRUE)

LEMMA TextIsLogged ==
  ASSUME NEW n \in LineLens \cup {Fixed}, LogsText(n)
  PROVE  TriesToLog
BY LineLensAssumption DEF LogsText, LogLine, Logged, Fixed, TriesToLog

LEMMA NamesAreLogged ==
  ASSUME LogsNames
  PROVE  TriesToLog
BY TextIsLogged DEF LogsNames

LEMMA TryIsLogStep ==
  ASSUME LogInv, TriesToLog
  PROVE  LogStep
<1>1. By(launches, op) \in Writers
  BY ByIsWriter DEF LogInv
<1> QED
  BY <1>1 DEF TriesToLog, Logged, LogStep

LEMMA StepLogs ==
  ASSUME LogInv, Next
  PROVE  LogStep /\ op' \in {op, op + 1} /\ launches' \in {launches, launches + 1}
<1>1. CASE Launch
  <2>1. Fixed \in Nat /\ By(launches + 1, 0) \in Writers
    BY ByIsWriter DEF Fixed, LogInv
  <2> QED
    BY <1>1, <2>1 DEF Launch, LogStep, LogInit, LogLine
<1>2. CASE Poll \/ Quit \/ Call \/ LoadKeys \/ InitUsb \/ WaitConfigured \/ ListFiles
           \/ TransferTest \/ DecryptTest \/ EndUsb \/ Crash \/ WriteHeader \/ CopyPiece
  BY <1>2 DEF Poll, Quit, Call, LoadKeys, InitUsb, WaitConfigured, ListFiles, TransferTest,
              DecryptTest, EndUsb, Crash, ProcessGone, WriteHeader, CopyPiece, LogStep, files,
              history, process
<1>3. CASE OpenFile
  <2>1. logFile' = logFile \/ LogsText(Fixed)
    BY <1>3 DEF OpenFile, LogsNothing
  <2>2. LogStep
    BY <2>1, TextIsLogged, TryIsLogStep DEF LogStep
  <2> QED
    BY <1>3, <2>2 DEF OpenFile
<1>4. CASE InstallFromSd \/ InstallOverUsb \/ DryRunFromSd
  <2>1. LogStep
    BY <1>4, NamesAreLogged, TryIsLogStep DEF InstallFromSd, InstallOverUsb, DryRunFromSd, Recorded
  <2> QED
    BY <1>4, <2>1 DEF InstallFromSd, InstallOverUsb, DryRunFromSd
<1>5. CASE ReportLogs
  <2>1. LogStep
    BY <1>5, NamesAreLogged, TryIsLogStep DEF ReportLogs, SnapshotLogged
  <2> QED
    BY <1>5, <2>1 DEF ReportLogs
<1>6. CASE OpenReport
  <2>1. logFile' = logFile \/ LogsText(Fixed)
    BY <1>6 DEF OpenReport, LogsNothing
  <2>2. LogStep
    BY <2>1, TextIsLogged, TryIsLogStep DEF LogStep
  <2> QED
    BY <1>6, <2>2 DEF OpenReport
<1>7. CASE CloseReport
  <2>1. LogStep
    BY <1>7, TextIsLogged, TryIsLogStep DEF CloseReport
  <2> QED
    BY <1>7, <2>1 DEF CloseReport
<1> QED
  BY <1>1, <1>2, <1>3, <1>4, <1>5, <1>6, <1>7 DEF Next

LEMMA LogInvKept ==
  ASSUME LogInv, LogStep, op' \in {op, op + 1}, launches' \in {launches, launches + 1}
  PROVE  LogInv'
<1>1. logFile \in Seq(WholeLines) /\ op' \in Nat /\ launches' \in Nat
  BY DEF LogInv
<1>2. CASE logFile' \in {logFile, <<>>}
  <2>1. <<>> \in Seq(WholeLines)
    BY EmptySeq
  <2>2. logFile' = logFile \/ logFile' = <<>>
    BY <1>2
  <2>3. logFile' \in Seq(WholeLines)
    BY <1>1, <2>1, <2>2
  <2> QED
    BY <1>1, <2>3 DEF LogInv
<1>3. CASE \E b \in Writers, n \in Nat : logFile' = Append(logFile, Entry(b, n))
  <2>1. PICK b \in Writers, n \in Nat : logFile' = Append(logFile, Entry(b, n))
    BY <1>3
  <2>2. Entry(b, n) \in WholeLines
    BY EntryIsWhole
  <2>3. logFile' \in Seq(WholeLines)
    BY <1>1, <2>1, <2>2, AppendProperties
  <2> QED
    BY <1>1, <2>3 DEF LogInv
<1>4. CASE \E b \in Writers, n \in Nat : logFile' = <<Entry(b, n)>>
  <2>1. PICK b \in Writers, n \in Nat : logFile' = <<Entry(b, n)>>
    BY <1>4
  <2>2. Entry(b, n) \in WholeLines
    BY EntryIsWhole
  <2>3. logFile' \in Seq(WholeLines)
    BY <2>1, <2>2
  <2> QED
    BY <1>1, <2>3 DEF LogInv
<1> QED
  BY <1>2, <1>3, <1>4 DEF LogStep

THEOREM LogInvariant == Spec => []LogInv
<1>1. Init => LogInv
  BY EmptySeq DEF Init, LogInv
<1>2. LogInv /\ [Next]_vars => LogInv'
  <2>1. ASSUME LogInv, Next PROVE LogInv'
    BY <2>1, StepLogs, LogInvKept
  <2>2. ASSUME LogInv, UNCHANGED vars PROVE LogInv'
    BY <2>2 DEF LogInv, vars, files, history
  <2> QED
    BY <2>1, <2>2
<1> QED
  BY <1>1, <1>2, PTL DEF Spec

(* A line that fits the buffer is in the file whole and ended, a longer    *)
(* one up to the limit, and nothing that was not written is put: for every *)
(* size of the buffer that holds more than a newline and two NULs.         *)
THEOREM LinesWholeAlways == Spec => []LinesWhole
<1>1. LogInv => LinesWhole
  <2>1. ASSUME LogInv, NEW k \in DOMAIN logFile
        PROVE  logFile[k] \in WholeLines
    BY <2>1, LenProperties, ElementOfSeq DEF LogInv
  <2> QED
    BY <2>1 DEF LinesWhole, WholeLines
<1> QED
  BY <1>1, LogInvariant, PTL

-----------------------------------------------------------------------------
(* The types, where a handler can stand for which key, and what is held of *)
(* usb:ds: one reference and the buffer from a successful init to the exit *)
(* of the same handler, and one reference more for each init that found no *)
(* memory for the buffer.                                                  *)
IsReport(r) ==
  r = [by |-> r.by, last |-> r.last, log |-> r.log, closed |-> r.closed, lost |-> r.lost]

AppTypes ==
  /\ stage \in {"off", "loop", "open", "keys", "usb", "wait", "list", "work", "exit",
                "log", "copy", "head", "pieces", "close"}
  /\ frame \subseteq Keys /\ doing \in Keys
  /\ op \in 0..MaxOps /\ launches \in 0..MaxLaunches
  /\ lastOp \in 0..op /\ copied \in Nat
  /\ IsReport(report) /\ report.by.op \in 0..op
  /\ leaks \in Nat /\ lost \in BOOLEAN

StageFits ==
  /\ stage \in {"usb", "wait", "list", "exit"} => doing \in {"A", "Y"}
  /\ stage = "keys" => doing = "Y"
  /\ stage = "open" => doing \in {"Up", "X"}
  /\ stage = "work" => doing \in {"A", "B", "Up", "X", "Y"}

Holding == stage \in {"wait", "list", "exit"} \/ (stage = "work" /\ doing \in {"A", "Y"})
UsbHeld == IF Holding THEN usbRefs = leaks + 1 /\ bounce = TRUE
                      ELSE usbRefs = leaks /\ bounce = FALSE

AppInv == AppTypes /\ StageFits /\ UsbHeld

LEMMA KeysAre == Keys = {"A", "B", "Up", "Down", "X", "Y"}
BY DEF Keys, Place

LEMMA AppInvInit == Init => AppInv
<1> SUFFICES ASSUME Init PROVE AppInv
  OBVIOUS
<1>1. MaxOps \in Nat /\ MaxLaunches \in Nat
  BY BoundsAssumption
<1>2. IsReport(report) /\ report.by.op = 0
  BY DEF Init, NoReport, By, IsReport
<1>2a. lost \in BOOLEAN
  BY Zenon DEF Init
<1>3. AppTypes
  BY <1>1, <1>2, <1>2a, KeysAre DEF Init, AppTypes
<1>4. StageFits /\ UsbHeld
  BY DEF Init, StageFits, UsbHeld, Holding
<1> QED
  BY <1>3, <1>4 DEF AppInv

(* What the copy does to a report: a piece adds a line, or marks what was  *)
(* refused; the close marks it closed.                                     *)
LEMMA FieldSet ==
  ASSUME NEW x, IsReport(x), NEW v
  PROVE  /\ LET r == [x EXCEPT !.lost = v]
            IN /\ IsReport(r) /\ r.lost = v /\ r.by = x.by /\ r.last = x.last
               /\ r.log = x.log /\ r.closed = x.closed
         /\ LET r == [x EXCEPT !.log = v]
            IN /\ IsReport(r) /\ r.log = v /\ r.by = x.by /\ r.last = x.last
               /\ r.closed = x.closed /\ r.lost = x.lost
         /\ LET r == [x EXCEPT !.closed = v]
            IN /\ IsReport(r) /\ r.closed = v /\ r.by = x.by /\ r.last = x.last
               /\ r.log = x.log /\ r.lost = x.lost
<1>1. PICK b, l, T, c, f : x = [by |-> b, last |-> l, log |-> T, closed |-> c, lost |-> f]
  BY DEF IsReport
<1>2. [x EXCEPT !.lost = v] = [by |-> b, last |-> l, log |-> T, closed |-> c, lost |-> v]
  BY <1>1
<1>3. [x EXCEPT !.log = v] = [by |-> b, last |-> l, log |-> v, closed |-> c, lost |-> f]
  BY <1>1
<1>4. [x EXCEPT !.closed = v] = [by |-> b, last |-> l, log |-> T, closed |-> v, lost |-> f]
  BY <1>1
<1> QED
  BY <1>1, <1>2, <1>3, <1>4 DEF IsReport

LEMMA RefusedFields ==
  ASSUME IsReport(report)
  PROVE  /\ IsReport(Refused) /\ Refused.lost = TRUE
         /\ Refused.by = report.by /\ Refused.last = report.last
         /\ Refused.log = report.log /\ Refused.closed = report.closed
<1>1. PICK v : v = TRUE
  OBVIOUS
<1>2. PICK r : r = [report EXCEPT !.lost = v]
  OBVIOUS
<1>3. /\ IsReport(r) /\ r.lost = v /\ r.by = report.by /\ r.last = report.last
      /\ r.log = report.log /\ r.closed = report.closed
  BY <1>2, FieldSet, Zenon
<1>4. r = Refused
  BY <1>1, <1>2, Zenon DEF Refused
<1> QED
  BY <1>1, <1>3, <1>4, Zenon

LEMMA PieceFields ==
  ASSUME IsReport(report), NEW S
  PROVE  LET r == [report EXCEPT !.log = S]
         IN /\ IsReport(r) /\ r.log = S /\ r.by = report.by /\ r.last = report.last
            /\ r.closed = report.closed /\ r.lost = report.lost
BY FieldSet

LEMMA ClosedFields ==
  ASSUME NEW x, IsReport(x)
  PROVE  LET r == [x EXCEPT !.closed = TRUE]
         IN /\ IsReport(r) /\ r.log = x.log /\ r.by = x.by /\ r.last = x.last
            /\ r.lost = x.lost
<1>1. PICK v : v = TRUE
  OBVIOUS
<1>2. PICK r : r = [x EXCEPT !.closed = v]
  OBVIOUS
<1>3. IsReport(r) /\ r.log = x.log /\ r.by = x.by /\ r.last = x.last /\ r.lost = x.lost
  BY <1>2, FieldSet, Zenon
<1> QED
  BY <1>1, <1>2, <1>3, Zenon

LEMMA CopyKeepsHead ==
  ASSUME IsReport(report), CopyPiece \/ CloseReport
  PROVE  IsReport(report') /\ report'.by = report.by
<1>1. CASE CopyPiece
  <2>1. \/ report' = report \/ report' = Refused
        \/ \E S : report' = [report EXCEPT !.log = S]
    BY <1>1 DEF CopyPiece
  <2> QED
    BY <2>1, RefusedFields, PieceFields
<1>2. CASE CloseReport
  <2>1. report' = [report EXCEPT !.closed = TRUE] \/ report' = [Refused EXCEPT !.closed = TRUE]
    BY <1>2 DEF CloseReport
  <2> HIDE DEF Refused
  <2> QED
    BY <2>1, RefusedFields, ClosedFields
<1> QED
  BY <1>1, <1>2

LEMMA AppInvStep == AppInv /\ [Next]_vars => AppInv'
<1> USE DEF AppInv
<1>a. MaxOps \in Nat /\ MaxLaunches \in Nat
  BY BoundsAssumption
<1>b. ASSUME AppInv, ProcessGone PROVE AppInv'
  <2>0. lost' \in BOOLEAN
    BY <1>b, Zenon DEF ProcessGone
  <2>1. AppTypes'
    BY <1>b, <2>0, KeysAre DEF ProcessGone, AppTypes
  <2>2. StageFits' /\ UsbHeld'
    BY <1>b DEF ProcessGone, StageFits, UsbHeld, Holding
  <2> QED
    BY <2>1, <2>2
<1>1. ASSUME AppInv, Launch PROVE AppInv'
  <2>0. lost' \in BOOLEAN
    BY <1>1, Zenon DEF Launch
  <2>1. AppTypes'
    BY <1>a, <1>1, <2>0 DEF Launch, AppTypes, copy, process
  <2>2. StageFits' /\ UsbHeld'
    BY <1>1 DEF Launch, StageFits, UsbHeld, Holding, process
  <2> QED
    BY <2>1, <2>2
<1>2. ASSUME AppInv, Poll PROVE AppInv'
  <2>1. frame' \subseteq Keys
    BY <1>2 DEF Poll, Armed
  <2>2. AppTypes'
    BY <1>2, <2>1 DEF Poll, AppTypes, files, copy, process, history
  <2>3. StageFits' /\ UsbHeld'
    BY <1>2 DEF Poll, StageFits, UsbHeld, Holding, process, history
  <2> QED
    BY <2>2, <2>3
<1>3. ASSUME AppInv, Call PROVE AppInv'
  <2>1. doing' \in Keys /\ frame' \subseteq Keys
    BY <1>3 DEF Call, AppTypes
  <2>2. /\ doing' = "A" => stage' = "usb"
        /\ doing' = "B" => stage' = "work"
        /\ doing' = "Up" => stage' = "open"
        /\ doing' = "Down" => stage' = "log"
        /\ doing' = "X" => stage' = "open"
        /\ doing' = "Y" => stage' = "keys"
    BY <1>3 DEF Call, FirstStage
  <2>3. op' = op + 1 /\ op' \in 0..MaxOps
    BY <1>a, <1>3 DEF Call, AppTypes
  <2>4. AppTypes'
    BY <1>3, <2>1, <2>2, <2>3, KeysAre DEF Call, AppTypes, files, copy, process
  <2>5. StageFits' /\ UsbHeld'
    BY <1>3, <2>1, <2>2, KeysAre DEF Call, StageFits, UsbHeld, Holding, process
  <2> QED
    BY <2>4, <2>5
<1>4. ASSUME AppInv, OpenFile PROVE AppInv'
  <2>1. lost' \in BOOLEAN
    BY <1>4 DEF OpenFile, LogsText, LogsNothing, AppTypes
  <2>2. AppTypes'
    BY <1>4, <2>1 DEF OpenFile, Return, AppTypes, copy, process
  <2>3. StageFits' /\ UsbHeld'
    BY <1>4 DEF OpenFile, Return, StageFits, UsbHeld, Holding, process
  <2> QED
    BY <2>2, <2>3
<1>5. ASSUME AppInv, LoadKeys PROVE AppInv'
  <2>1. AppTypes'
    BY <1>5 DEF LoadKeys, Return, AppTypes, files, copy, process, history
  <2>2. StageFits' /\ UsbHeld'
    BY <1>5 DEF LoadKeys, Return, StageFits, UsbHeld, Holding, process, history
  <2> QED
    BY <2>1, <2>2
<1>6. ASSUME AppInv, InitUsb PROVE AppInv'
  <2>1. AppTypes'
    BY <1>6 DEF InitUsb, InitFails, Return, AppTypes, files, copy
  <2>2. StageFits' /\ UsbHeld'
    BY <1>6 DEF InitUsb, InitFails, Return, StageFits, UsbHeld, Holding, AppTypes
  <2> QED
    BY <2>1, <2>2
<1>7. ASSUME AppInv, WaitConfigured PROVE AppInv'
  <2>1. AppTypes'
    BY <1>7 DEF WaitConfigured, Return, AppTypes, files, copy, history
  <2>2. StageFits'
    BY <1>7 DEF WaitConfigured, Return, StageFits
  <2>3. usbRefs = leaks + 1 /\ bounce = TRUE /\ leaks \in Nat /\ leaks' = leaks
    BY <1>7 DEF WaitConfigured, UsbHeld, Holding, AppTypes, history
  <2>4. ASSUME stage' = "list" /\ UNCHANGED <<usbRefs, bounce>> PROVE UsbHeld'
    BY <2>3, <2>4 DEF UsbHeld, Holding
  <2>5. ASSUME Return /\ ExitUsb PROVE UsbHeld'
    BY <2>3, <2>5 DEF Return, ExitUsb, UsbHeld, Holding
  <2>6. UsbHeld'
    BY <1>7, <2>4, <2>5 DEF WaitConfigured
  <2> QED
    BY <2>1, <2>2, <2>6
<1>8. ASSUME AppInv, ListFiles PROVE AppInv'
  <2>1. AppTypes'
    BY <1>8 DEF ListFiles, ListFails, Return, AppTypes, files, copy, history
  <2>2. StageFits'
    BY <1>8 DEF ListFiles, ListFails, Return, StageFits
  <2>3. /\ usbRefs = leaks + 1 /\ bounce = TRUE /\ leaks \in Nat /\ leaks' = leaks
        /\ doing \in {"A", "Y"} /\ doing' = doing
    BY <1>8 DEF ListFiles, StageFits, UsbHeld, Holding, AppTypes, history
  <2>4. ASSUME stage' = "work" /\ UNCHANGED <<usbRefs, bounce>> PROVE UsbHeld'
    BY <2>3, <2>4 DEF UsbHeld, Holding
  <2>5. ASSUME ListFails PROVE UsbHeld'
    BY <2>3, <2>5 DEF ListFails, Return, ExitUsb, UsbHeld, Holding
  <2>6. UsbHeld'
    BY <1>8, <2>4, <2>5 DEF ListFiles
  <2> QED
    BY <2>1, <2>2, <2>6
<1>9. ASSUME AppInv, InstallFromSd \/ InstallOverUsb \/ DryRunFromSd PROVE AppInv'
  <2>1. lost' \in BOOLEAN /\ lastOp' = op
    BY <1>9 DEF InstallFromSd, InstallOverUsb, DryRunFromSd, Recorded, LogsNames, LogsText,
                AppTypes
  <2>2. AppTypes'
    BY <1>9, <2>1 DEF InstallFromSd, InstallOverUsb, DryRunFromSd, Return, AppTypes, copy
  <2>3. StageFits' /\ UsbHeld'
    BY <1>9 DEF InstallFromSd, InstallOverUsb, DryRunFromSd, Return, StageFits, UsbHeld, Holding
  <2> QED
    BY <2>2, <2>3
<1>10. ASSUME AppInv, TransferTest \/ DecryptTest PROVE AppInv'
  <2>1. AppTypes'
    BY <1>10 DEF TransferTest, DecryptTest, Return, AppTypes, files, copy, process, history
  <2>2. StageFits' /\ UsbHeld'
    BY <1>10 DEF TransferTest, DecryptTest, Return, StageFits, UsbHeld, Holding, process, history
  <2> QED
    BY <2>1, <2>2
<1>11. ASSUME AppInv, EndUsb PROVE AppInv'
  <2>1. AppTypes'
    BY <1>11 DEF EndUsb, Return, AppTypes, files, copy, history
  <2>2. StageFits' /\ UsbHeld'
    BY <1>11 DEF EndUsb, ExitUsb, Return, StageFits, UsbHeld, Holding, AppTypes, history
  <2> QED
    BY <2>1, <2>2
<1>12. ASSUME AppInv, ReportLogs PROVE AppInv'
  <2>1. lost' \in BOOLEAN
    BY <1>12 DEF ReportLogs, SnapshotLogged, LogsNames, LogsText, AppTypes
  <2>2. AppTypes'
    BY <1>12, <2>1 DEF ReportLogs, AppTypes, copy, process
  <2>3. StageFits' /\ UsbHeld'
    BY <1>12 DEF ReportLogs, StageFits, UsbHeld, Holding, process
  <2> QED
    BY <2>2, <2>3
<1>13. ASSUME AppInv, OpenReport PROVE AppInv'
  <2>1. lost' \in BOOLEAN
    BY <1>13 DEF OpenReport, LogsText, LogsNothing, AppTypes
  <2>2. IsReport(report') /\ report'.by.op \in 0..op
    BY <1>13 DEF OpenReport, NoReport, By, AppTypes, IsReport
  <2>3. AppTypes'
    BY <1>13, <2>1, <2>2 DEF OpenReport, Return, AppTypes, process
  <2>4. StageFits' /\ UsbHeld'
    BY <1>13 DEF OpenReport, Return, StageFits, UsbHeld, Holding, process
  <2> QED
    BY <2>3, <2>4
<1>14. ASSUME AppInv, WriteHeader PROVE AppInv'
  <2>1. \A b \in BOOLEAN : IsReport(ReportHead(b)) /\ ReportHead(b).by.op = op
    BY DEF ReportHead, By, IsReport
  <2>1a. report' = ReportHead(FALSE) \/ report' = ReportHead(TRUE)
    BY <1>14 DEF WriteHeader
  <2>1b. op \in 0..op
    BY <1>a, <1>14 DEF AppTypes
  <2>2. IsReport(report') /\ report'.by.op \in 0..op
    BY <2>1, <2>1a, <2>1b
  <2>3. AppTypes'
    BY <1>14, <2>2 DEF WriteHeader, AppTypes, process, history
  <2>4. StageFits' /\ UsbHeld'
    BY <1>14 DEF WriteHeader, StageFits, UsbHeld, Holding, process, history
  <2> QED
    BY <2>3, <2>4
<1>15. ASSUME AppInv, CopyPiece PROVE AppInv'
  <2>1. IsReport(report') /\ report'.by = report.by /\ copied' \in Nat
    BY <1>15, CopyKeepsHead DEF CopyPiece, AppTypes
  <2>2. AppTypes'
    BY <1>15, <2>1 DEF CopyPiece, AppTypes, process, history
  <2>3. StageFits' /\ UsbHeld'
    BY <1>15 DEF CopyPiece, StageFits, UsbHeld, Holding, process, history
  <2> QED
    BY <2>2, <2>3
<1>16. ASSUME AppInv, CloseReport PROVE AppInv'
  <2>1. IsReport(report') /\ report'.by = report.by
    BY <1>16, CopyKeepsHead DEF AppTypes
  <2>2. lost' \in BOOLEAN
    BY <1>16 DEF CloseReport, LogsText, AppTypes
  <2>3. AppTypes'
    BY <1>16, <2>1, <2>2 DEF CloseReport, Return, AppTypes, process
  <2>4. StageFits' /\ UsbHeld'
    BY <1>16 DEF CloseReport, Return, StageFits, UsbHeld, Holding, process
  <2> QED
    BY <2>3, <2>4
<1>17. ASSUME AppInv, UNCHANGED vars PROVE AppInv'
  BY <1>17 DEF AppTypes, StageFits, UsbHeld, Holding, vars, files, copy, process, history
<1> QED
  BY <1>b, <1>1, <1>2, <1>3, <1>4, <1>5, <1>6, <1>7, <1>8, <1>9, <1>10, <1>11, <1>12, <1>13,
     <1>14, <1>15, <1>16, <1>17 DEF Next, Quit, Crash

THEOREM AppInvariant == Spec => []AppInv
BY AppInvInit, AppInvStep, PTL DEF Spec

(* Every variable of the program has its type: no more is in the frame     *)
(* than keys that have a handler, no operation is recorded that was not    *)
(* begun, and the references on usb:ds never go below zero.                *)
THEOREM AppTypeCorrect == Spec => []TypeOK
<1>1. AppInv => TypeOK
  <2> SUFFICES ASSUME AppInv PROVE TypeOK
    OBVIOUS
  <2>1. usbRefs \in Nat
    BY DEF AppInv, AppTypes, UsbHeld
  <2>2. bounce \in BOOLEAN
    BY Zenon DEF AppInv, UsbHeld
  <2> QED
    BY <2>1, <2>2, BoundsAssumption DEF AppInv, AppTypes, TypeOK
<1> QED
  BY <1>1, AppInvariant, PTL

(* Whichever step of a USB handler failed, the transport is given back     *)
(* before the next handler runs, but for the references of the inits that  *)
(* found no memory for the buffer.                                         *)
THEOREM UsbReleasedAlways == Spec => []UsbReleased
<1>1. AppInv => UsbReleased
  BY DEF AppInv, AppTypes, UsbHeld, Holding, UsbReleased
<1> QED
  BY <1>1, AppInvariant, PTL

-----------------------------------------------------------------------------
(* The report.  While the card refused no line, all lines of the log are of *)
(* this launch and in the order of its operations, the recorded operation  *)
(* left a line, and so did the snapshot the report is being made of.       *)
LogBys(n) == {logFile[k].by : k \in 1..n}
InReport == stage \in {"copy", "head", "pieces", "close"}
ThisLaunch ==
  /\ \A k \in DOMAIN logFile : logFile[k].by.launch = launches /\ logFile[k].by.op <= op
  /\ \A j, k \in DOMAIN logFile : j <= k => logFile[j].by.op <= logFile[k].by.op
  /\ lastOp # 0 => By(launches, lastOp) \in LogBys(Len(logFile))
  /\ InReport => By(launches, op) \in LogBys(Len(logFile))

(* A report on the way, of which the card refused nothing, holds the lines *)
(* of the log up to where the copy stands, and all of them at its end.     *)
Reached == IF stage = "pieces" THEN copied ELSE Len(logFile)
Copying ==
  /\ ~lost /\ report.by = By(launches, op) /\ report.last = lastOp /\ ~report.closed
  /\ report.log = LogBys(Reached)

ReportInv ==
  /\ stage = "off" => lastOp = 0
  /\ stage = "log" \/ InReport => lastOp < op
  /\ stage # "off" /\ ~lost => ThisLaunch
  /\ IF stage = "pieces" THEN copied <= Len(logFile) ELSE copied = 0
  /\ stage \in {"pieces", "close"} /\ ~report.lost => Copying
  /\ ReportCoherent

(* A line more in the log. *)
LEMMA LoggedLine ==
  ASSUME LogInv, Logged
  PROVE  /\ Len(logFile) \in Nat /\ Len(logFile)' = Len(logFile) + 1
         /\ DOMAIN logFile = 1..Len(logFile) /\ DOMAIN logFile' = 1..Len(logFile) + 1
         /\ \A k \in 1..Len(logFile) : logFile'[k] = logFile[k]
         /\ logFile'[Len(logFile) + 1].by = By(launches, op)
<1>1. PICK n \in Nat : logFile' = Append(logFile, Entry(By(launches, op), n))
  BY DEF Logged
<1>2. By(launches, op) \in Writers
  BY ByIsWriter DEF LogInv
<1>3. PICK e : e = Entry(By(launches, op), n)
  OBVIOUS
<1>4. logFile \in Seq(WholeLines) /\ e \in WholeLines /\ e.by = By(launches, op)
  BY <1>2, <1>3, EntryIsWhole DEF LogInv
<1>5. /\ logFile' \in Seq(WholeLines) /\ Len(logFile') = Len(logFile) + 1
      /\ \A k \in 1..Len(logFile) : logFile'[k] = logFile[k]
      /\ logFile'[Len(logFile) + 1] = e
  BY <1>1, <1>3, <1>4, AppendProperties
<1>6. Len(logFile) \in Nat /\ DOMAIN logFile = 1..Len(logFile)
  BY <1>4, LenProperties
<1>7. DOMAIN logFile' = 1..Len(logFile')
  BY <1>5, LenProperties
<1> QED
  BY <1>4, <1>5, <1>6, <1>7

LEMMA LoggingKeepsLaunch ==
  ASSUME AppInv, LogInv, ThisLaunch, Logged, UNCHANGED <<launches, op>>,
         lastOp' \in {lastOp, op}
  PROVE  ThisLaunch'
<1>1. op \in Nat /\ launches \in Nat /\ lastOp \in Nat
  BY BoundsAssumption DEF AppInv, AppTypes
<1>2. PICK q, M, N : q = logFile' /\ M = Len(logFile)' /\ N = Len(logFile)
  OBVIOUS
<1>3. /\ N \in Nat /\ M = N + 1 /\ DOMAIN logFile = 1..N /\ DOMAIN q = 1..N + 1
      /\ \A k \in 1..N : q[k] = logFile[k]
      /\ q[N + 1].by = By(launches, op)
  BY <1>2, LoggedLine
<1>4. By(launches, op).launch = launches /\ By(launches, op).op = op
  BY <1>1, ByIsWriter
<1>5. \A k \in 1..N : logFile[k].by.launch = launches /\ logFile[k].by.op <= op
  BY <1>3 DEF ThisLaunch
<1>6. \A k \in DOMAIN q : q[k].by.launch = launches /\ q[k].by.op <= op
  <2> SUFFICES ASSUME NEW k \in 1..N + 1
               PROVE  q[k].by.launch = launches /\ q[k].by.op <= op
    BY <1>3
  <2>1. CASE k = N + 1
    BY <1>1, <1>3, <1>4, <2>1
  <2>2. CASE k # N + 1
    BY <1>3, <1>5, <2>2
  <2> QED
    BY <2>1, <2>2
<1>7. \A j, k \in DOMAIN q : j <= k => q[j].by.op <= q[k].by.op
  <2> SUFFICES ASSUME NEW j \in 1..N + 1, NEW k \in 1..N + 1, j <= k
               PROVE  q[j].by.op <= q[k].by.op
    BY <1>3
  <2>1. CASE k = N + 1
    <3>1. q[k].by.op = op
      BY <1>3, <1>4, <2>1
    <3> QED
      BY <1>3, <1>6, <3>1
  <2>2. CASE k # N + 1
    <3>1. j \in 1..N /\ k \in 1..N
      BY <1>3, <2>2
    <3>2. logFile[j].by.op <= logFile[k].by.op
      BY <1>3, <3>1 DEF ThisLaunch
    <3> QED
      BY <1>3, <3>1, <3>2
  <2> QED
    BY <2>1, <2>2
<1>8. LogBys(M)' = {logFile[k].by : k \in 1..N} \cup {By(launches, op)}
  <2>1. LogBys(M)' = {q[k].by : k \in 1..M}
    BY <1>2 DEF LogBys
  <2>2. {q[k].by : k \in 1..N + 1} = {logFile[k].by : k \in 1..N} \cup {q[N + 1].by}
    BY <1>3
  <2> QED
    BY <1>3, <2>1, <2>2
<1>9. lastOp # 0 => By(launches, lastOp) \in {logFile[k].by : k \in 1..N}
  BY <1>2 DEF ThisLaunch, LogBys
<1>10. /\ lastOp' # 0 => By(launches, lastOp') \in LogBys(M)'
       /\ By(launches, op) \in LogBys(M)'
  BY <1>8, <1>9
<1>11. LogBys(Len(logFile))' = LogBys(M)'
  BY <1>2 DEF LogBys
<1> HIDE DEF LogBys, By
<1> QED
  BY <1>2, <1>6, <1>7, <1>10, <1>11 DEF ThisLaunch, By

LEMMA QuietKeepsLaunch ==
  ASSUME LogInv, ThisLaunch, UNCHANGED <<logFile, launches, lastOp>>, op' \in {op, op + 1},
         InReport' => InReport /\ op' = op
  PROVE  ThisLaunch'
<1>1. op \in Nat /\ \A k \in DOMAIN logFile : logFile[k].by.op \in Nat
  <2>1. \A k \in DOMAIN logFile : logFile[k] \in WholeLines
    BY LenProperties, ElementOfSeq DEF LogInv
  <2>2. \A l \in WholeLines : l.by \in Writers
    BY DEF WholeLines
  <2> QED
    BY <2>1, <2>2 DEF LogInv, Writers
<1>2. \A k \in DOMAIN logFile : logFile[k].by.op <= op'
  BY <1>1 DEF ThisLaunch
<1>3. LogBys(Len(logFile))' = LogBys(Len(logFile))
  BY DEF LogBys
<1> HIDE DEF LogBys, InReport
<1> QED
  BY <1>2, <1>3 DEF ThisLaunch, By

(* What the copy has got to at any moment is of one launch, and has the    *)
(* recorded operation if it has the snapshot, which comes after.           *)
LEMMA PrefixCoherent ==
  ASSUME LogInv, AppInv, ThisLaunch, InReport, lastOp < op,
         NEW n \in Nat, n <= Len(logFile)
  PROVE  /\ \A b \in LogBys(n) : b.launch = launches /\ b.op <= op
         /\ By(launches, op) \in LogBys(n) /\ lastOp # 0 => By(launches, lastOp) \in LogBys(n)
         /\ n = Len(logFile) => By(launches, op) \in LogBys(n)
<1>1. /\ op \in Nat /\ launches \in Nat /\ lastOp \in Nat
      /\ Len(logFile) \in Nat /\ DOMAIN logFile = 1..Len(logFile)
  BY BoundsAssumption, LenProperties DEF AppInv, AppTypes, LogInv
<1>2. \A b \in LogBys(n) : b.launch = launches /\ b.op <= op
  BY <1>1 DEF LogBys, ThisLaunch
<1>3. ASSUME By(launches, op) \in LogBys(n), lastOp # 0
      PROVE  By(launches, lastOp) \in LogBys(n)
  <2>1. PICK k \in 1..n : logFile[k].by = By(launches, op)
    BY <1>3 DEF LogBys
  <2>2. PICK j \in 1..Len(logFile) : logFile[j].by = By(launches, lastOp)
    BY <1>3 DEF LogBys, ThisLaunch
  <2>3. logFile[k].by.op = op /\ logFile[j].by.op = lastOp
    BY <1>1, <2>1, <2>2, ByIsWriter
  <2>4. ~(k <= j)
    BY <1>1, <2>3 DEF ThisLaunch
  <2>5. j \in 1..n
    BY <1>1, <2>4
  <2> QED
    BY <2>2, <2>5 DEF LogBys
<1>4. n = Len(logFile) => By(launches, op) \in LogBys(n)
  BY DEF ThisLaunch
<1> QED
  BY <1>2, <1>3, <1>4

(* The same of a report that holds it. *)
LEMMA CopyCoherent ==
  ASSUME LogInv, AppInv, ThisLaunch, InReport, lastOp < op, NEW r,
         r.by = By(launches, op), r.last = lastOp,
         NEW n \in Nat, n <= Len(logFile), r.log = LogBys(n),
         r.closed => n = Len(logFile)
  PROVE  /\ \A by \in r.log : by.launch = r.by.launch /\ by.op <= r.by.op
         /\ r.closed => r.by \in r.log
         /\ r.by \in r.log /\ r.last # 0 => By(r.by.launch, r.last) \in r.log
<1>1. r.by.launch = launches /\ r.by.op = op
  BY BoundsAssumption, ByIsWriter DEF AppInv, AppTypes
<1> HIDE DEF LogBys, By
<1> QED
  BY <1>1, PrefixCoherent

(* The step of a handler that writes to the log and lets the rest be, or   *)
(* that records its operation.                                             *)
LEMMA LoggingKeeps ==
  ASSUME AppInv, LogInv, ReportInv, TriesToLog,
         stage \notin {"off", "loop", "pieces"},
         stage' \in {"loop", "work", "exit", "copy"}, stage' = "copy" => lastOp' = lastOp,
         stage' = "copy" => stage = "log",
         UNCHANGED <<op, launches, copied>>, lastOp' \in {lastOp, op}, ReportCoherent'
  PROVE  ReportInv'
<1>1. ASSUME ~lost' PROVE ThisLaunch'
  <2>1. Logged /\ ~lost
    BY <1>1 DEF TriesToLog, AppInv, AppTypes
  <2>2. ThisLaunch
    BY <2>1 DEF ReportInv
  <2> QED
    BY <2>1, <2>2, LoggingKeepsLaunch
<1>2. stage' = "copy" => lastOp' < op'
  BY DEF ReportInv
<1>3. copied' = 0
  BY DEF ReportInv
<1> HIDE DEF ThisLaunch, ReportCoherent
<1> QED
  BY <1>1, <1>2, <1>3 DEF ReportInv, InReport

(* The step that leaves the log and the report alone. *)
LEMMA QuietKeeps ==
  ASSUME AppInv, LogInv, ReportInv, stage \notin {"off", "pieces"},
         stage' \in {"loop", "open", "keys", "usb", "wait", "list", "work", "exit", "log"},
         stage' = "log" => lastOp' < op', op' \in {op, op + 1},
         UNCHANGED <<files, lastOp, launches, lost>>
  PROVE  ReportInv'
<1>1. ASSUME ~lost' PROVE ThisLaunch'
  <2>1. ThisLaunch
    BY <1>1 DEF ReportInv
  <2>2. ~InReport'
    BY DEF InReport
  <2> QED
    BY <2>1, <2>2, QuietKeepsLaunch DEF files
<1>2. ReportCoherent'
  BY DEF ReportInv, ReportCoherent, files, copy
<1>3. copied' = 0
  BY DEF ReportInv, files, copy
<1> HIDE DEF ThisLaunch, ReportCoherent
<1> QED
  BY <1>1, <1>2, <1>3 DEF ReportInv, InReport

LEMMA LaunchBegins ==
  ASSUME AppInv, LogInv, ReportInv, Launch
  PROVE  ReportInv'
<1>1. /\ stage' = "loop" /\ lastOp' = 0 /\ launches' = launches + 1 /\ op' = op
      /\ op \in Nat /\ launches' \in Nat /\ report' = report /\ copied' = 0
  BY BoundsAssumption DEF Launch, ReportInv, process, copy, AppInv, AppTypes
<1>2. ASSUME ~lost' PROVE ThisLaunch'
  <2>1. PICK b, e, q : b = By(launches', 0) /\ e = Entry(b, Fixed) /\ q = logFile'
    OBVIOUS
  <2>2. q = <<e>>
    BY <1>1, <1>2, <2>1 DEF Launch, LogInit
  <2>3. e.by = b /\ b.launch = launches' /\ b.op = 0
    BY <1>1, <2>1, ByIsWriter, EntryIsWhole DEF Fixed
  <2>4. DOMAIN q = {1} /\ q[1].by = b
    BY <2>2, <2>3
  <2>5. ~InReport'
    BY <1>1 DEF InReport
  <2> HIDE DEF LogBys, By
  <2> QED
    BY <1>1, <2>1, <2>3, <2>4, <2>5 DEF ThisLaunch
<1>3. ReportCoherent'
  BY <1>1 DEF ReportInv, ReportCoherent
<1> HIDE DEF ThisLaunch, ReportCoherent
<1> QED
  BY <1>1, <1>2, <1>3 DEF ReportInv, InReport

(* The report is opened, and its header written. *)
LEMMA OpenKeeps ==
  ASSUME AppInv, LogInv, ReportInv, OpenReport
  PROVE  ReportInv'
<1>1. CASE stage' = "head" /\ report' = NoReport /\ LogsNothing
  <2>1. /\ stage = "copy" /\ UNCHANGED <<logFile, copied, launches, lastOp, op, lost>>
    BY <1>1 DEF OpenReport, LogsNothing, process
  <2>2. InReport /\ InReport'
    BY <1>1, <2>1 DEF InReport
  <2>3. ASSUME ~lost' PROVE ThisLaunch'
    <3>1. ThisLaunch
      BY <2>1, <2>3 DEF ReportInv
    <3> QED
      BY <2>1, <2>2, <3>1, QuietKeepsLaunch
  <2>4. ReportCoherent'
    BY <1>1 DEF NoReport, ReportCoherent
  <2> HIDE DEF ThisLaunch, ReportCoherent
  <2> QED
    BY <1>1, <2>1, <2>2, <2>3, <2>4 DEF ReportInv
<1>2. CASE Return /\ UNCHANGED report /\ LogsText(Fixed)
  <2>1. TriesToLog
    BY <1>2, TextIsLogged
  <2>2. /\ stage = "copy" /\ stage' = "loop" /\ UNCHANGED <<op, launches, copied, lastOp>>
    BY <1>2 DEF OpenReport, Return, process
  <2>3. ReportCoherent'
    BY <1>2 DEF ReportInv, ReportCoherent
  <2> QED
    BY <2>1, <2>2, <2>3, LoggingKeeps
<1> QED
  BY <1>1, <1>2 DEF OpenReport

LEMMA HeaderKeeps ==
  ASSUME AppInv, LogInv, ReportInv, WriteHeader
  PROVE  ReportInv'
<1>1. /\ stage = "head" /\ stage' \in {"pieces", "close"}
      /\ UNCHANGED <<logFile, copied, launches, lastOp, op, lost>>
  BY DEF WriteHeader, process, history
<1>2. InReport /\ InReport' /\ copied = 0 /\ Len(logFile) \in Nat
  BY <1>1, LenProperties DEF InReport, ReportInv, LogInv
<1>3. ASSUME ~lost' PROVE ThisLaunch'
  <2>1. ThisLaunch
    BY <1>1, <1>3 DEF ReportInv
  <2> QED
    BY <1>1, <1>2, <2>1, QuietKeepsLaunch
<1>4. PICK b : report' = ReportHead(b) /\ (~b => stage' = "pieces")
  BY DEF WriteHeader
<1>5. PICK r : r = report'
  OBVIOUS
<1>6. r = [by |-> By(launches, op), last |-> lastOp, log |-> {}, closed |-> FALSE,
           lost |-> lost \/ b]
  BY <1>4, <1>5 DEF ReportHead
<1>7. r.by = By(launches, op) /\ r.last = lastOp /\ r.log = {} /\ ~r.closed
  BY <1>6
<1>8. r.lost <=> lost \/ b
  BY <1>6, Zenon
<1>9. ASSUME ~r.lost PROVE Copying'
  <2>1. ~lost /\ stage' = "pieces"
    BY <1>4, <1>8, <1>9, Zenon
  <2>2. LogBys(0)' = {}
    BY DEF LogBys
  <2>3. Reached' = 0
    BY <1>1, <1>2, <2>1 DEF Reached
  <2>4. LogBys(Reached)' = {}
    BY <2>2, <2>3 DEF LogBys
  <2>5. By(launches, op)' = By(launches, op)
    BY <1>1 DEF By
  <2> HIDE DEF LogBys, By, Reached
  <2> QED
    BY <1>1, <1>5, <1>7, <2>1, <2>4, <2>5 DEF Copying
<1>10. ReportCoherent'
  BY <1>5, <1>7 DEF ReportCoherent
<1>11. lastOp' < op'
  BY <1>1, <1>2 DEF ReportInv
<1> HIDE DEF ThisLaunch, ReportCoherent, Copying
<1> QED
  BY <1>1, <1>2, <1>3, <1>5, <1>9, <1>10, <1>11 DEF ReportInv

(* A turn of the copy, and its end. *)
LEMMA PieceKeeps ==
  ASSUME AppInv, LogInv, ReportInv, CopyPiece
  PROVE  ReportInv'
<1>1. /\ stage = "pieces" /\ stage' \in {"pieces", "close"}
      /\ UNCHANGED <<logFile, launches, lastOp, op, lost>>
  BY DEF CopyPiece, process, history
<1>2. /\ InReport /\ InReport' /\ Len(logFile) \in Nat /\ copied \in Nat
      /\ copied <= Len(logFile) /\ lastOp < op /\ IsReport(report)
  BY <1>1, LenProperties DEF InReport, ReportInv, LogInv, AppInv, AppTypes
<1>3. ASSUME ~lost' PROVE ThisLaunch'
  <2>1. ThisLaunch
    BY <1>1, <1>3 DEF ReportInv
  <2> QED
    BY <1>1, <1>2, <2>1, QuietKeepsLaunch
<1>4. IF stage' = "pieces" THEN copied' <= Len(logFile') ELSE copied' = 0
  BY <1>1, <1>2 DEF CopyPiece
<1>5. ASSUME report'.lost PROVE ReportCoherent' /\ (~report'.lost => Copying')
  BY <1>5 DEF ReportCoherent
<1>6. ASSUME ~report'.lost PROVE ReportCoherent' /\ Copying'
  <2>1. PICK r, n : r = report' /\ n = Reached'
    OBVIOUS
  <2>2. r # Refused
    BY <1>2, <1>6, <2>1, RefusedFields
  <2>3. /\ ~report.lost /\ r.by = report.by /\ r.last = report.last /\ r.closed = report.closed
        /\ n \in Nat /\ n <= Len(logFile)
        /\ report.log = LogBys(copied) => r.log = LogBys(n)
    <3>1. CASE /\ copied < Len(logFile) /\ copied' = copied + 1 /\ UNCHANGED stage
               /\ report' = [report EXCEPT !.log = @ \cup {logFile[copied + 1].by}]
      <4>1. PICK S : S = report.log \cup {logFile[copied + 1].by}
        OBVIOUS
      <4>2. r = [report EXCEPT !.log = S]
        BY <2>1, <3>1, <4>1
      <4>3. /\ r.log = S /\ r.by = report.by /\ r.last = report.last
            /\ r.closed = report.closed /\ r.lost = report.lost
        BY <1>2, <4>2, PieceFields
      <4>4. n = copied + 1
        BY <1>1, <2>1, <3>1 DEF Reached
      <4>5. LogBys(copied + 1) = LogBys(copied) \cup {logFile[copied + 1].by}
        BY <1>2 DEF LogBys
      <4> HIDE DEF LogBys
      <4> QED
        BY <1>2, <1>6, <2>1, <3>1, <4>1, <4>3, <4>4, <4>5
    <3>2. CASE /\ copied >= Len(logFile) /\ copied' = 0 /\ stage' = "close"
               /\ UNCHANGED report
      <4>1. n = Len(logFile) /\ copied = Len(logFile)
        BY <1>1, <1>2, <2>1, <3>2 DEF Reached
      <4> QED
        BY <1>2, <1>6, <2>1, <3>2, <4>1
    <3> QED
      BY <2>1, <2>2, <3>1, <3>2 DEF CopyPiece
  <2>4. Copying /\ Reached = copied
    BY <1>1, <2>3 DEF ReportInv, Reached
  <2>5. /\ ~lost /\ r.by = By(launches, op) /\ r.last = lastOp /\ ~r.closed
        /\ r.log = LogBys(n)
    BY <2>3, <2>4 DEF Copying
  <2>6. ThisLaunch
    BY <1>1, <2>5 DEF ReportInv
  <2>7. ReportCoherent'
    <3> HIDE DEF LogBys, By, ThisLaunch
    <3>1. /\ \A by \in r.log : by.launch = r.by.launch /\ by.op <= r.by.op
          /\ r.closed => r.by \in r.log
          /\ r.by \in r.log /\ r.last # 0 => By(r.by.launch, r.last) \in r.log
      BY <1>2, <2>3, <2>5, <2>6, CopyCoherent
    <3> QED
      BY <2>1, <3>1 DEF ReportCoherent, By
  <2>8. Copying'
    <3>1. LogBys(Reached)' = LogBys(n) /\ By(launches, op)' = By(launches, op)
      BY <1>1, <2>1 DEF LogBys, By
    <3> HIDE DEF LogBys, By, Reached
    <3> QED
      BY <1>1, <2>1, <2>5, <3>1 DEF Copying
  <2> QED
    BY <2>7, <2>8
<1>7. lastOp' < op'
  BY <1>1, <1>2
<1> HIDE DEF ThisLaunch, ReportCoherent, Copying
<1> QED
  BY <1>1, <1>3, <1>4, <1>5, <1>6, <1>7 DEF ReportInv

LEMMA CloseKeeps ==
  ASSUME AppInv, LogInv, ReportInv, CloseReport
  PROVE  ReportInv'
<1>1. /\ stage = "close" /\ stage' = "loop"
      /\ UNCHANGED <<op, launches, copied, lastOp>> /\ TriesToLog
  BY TextIsLogged DEF CloseReport, Return, process
<1>2. /\ InReport /\ Len(logFile) \in Nat /\ lastOp < op /\ IsReport(report)
  BY <1>1, LenProperties DEF InReport, ReportInv, LogInv, AppInv, AppTypes
<1>3. ReportCoherent'
  <2>1. PICK r : r = report'
    OBVIOUS
  <2>2. CASE r.lost
    BY <2>1, <2>2 DEF ReportCoherent
  <2>3. CASE ~r.lost
    <3>1. r # [Refused EXCEPT !.closed = TRUE]
      <4> HIDE DEF Refused
      <4>1. ([Refused EXCEPT !.closed = TRUE]).lost = TRUE
        BY <1>2, RefusedFields, ClosedFields
      <4> QED
        BY <2>3, <4>1
    <3>2. r = [report EXCEPT !.closed = TRUE]
      BY <2>1, <3>1 DEF CloseReport
    <3>3. r.by = report.by /\ r.last = report.last /\ r.log = report.log /\ r.lost = report.lost
      BY <1>2, <3>2, ClosedFields
    <3>4. Copying /\ Reached = Len(logFile)
      BY <1>1, <2>3, <3>3 DEF ReportInv, Reached
    <3>5. /\ ~lost /\ r.by = By(launches, op) /\ r.last = lastOp
          /\ r.log = LogBys(Len(logFile))
      BY <3>3, <3>4 DEF Copying
    <3>6. ThisLaunch
      BY <1>1, <3>5 DEF ReportInv
    <3> HIDE DEF LogBys, By, ThisLaunch
    <3>7. /\ \A by \in r.log : by.launch = r.by.launch /\ by.op <= r.by.op
          /\ r.closed => r.by \in r.log
          /\ r.by \in r.log /\ r.last # 0 => By(r.by.launch, r.last) \in r.log
      BY <1>2, <3>5, <3>6, CopyCoherent
    <3> QED
      BY <2>1, <3>7 DEF ReportCoherent, By
  <2> QED
    BY <2>2, <2>3
<1> QED
  BY <1>1, <1>3, LoggingKeeps

LEMMA ReportInvStep == AppInv /\ LogInv /\ ReportInv /\ [Next]_vars => ReportInv'
<1>b. ASSUME ReportInv, ProcessGone PROVE ReportInv'
  BY <1>b DEF ProcessGone, ReportInv, ReportCoherent, InReport
<1>1. ASSUME AppInv, LogInv, ReportInv, Poll PROVE ReportInv'
  <2>1. stage = "loop" /\ stage' = "loop" /\ UNCHANGED <<files, lastOp, op, launches, lost>>
    BY <1>1 DEF Poll, process, history
  <2> QED
    BY <1>1, <2>1, QuietKeeps
<1>2. ASSUME AppInv, LogInv, ReportInv, Call PROVE ReportInv'
  <2>1. doing' \in Keys
    BY <1>2 DEF Call, AppInv, AppTypes
  <2>2. /\ stage = "loop" /\ stage' \in {"usb", "work", "open", "log", "keys"} /\ op' = op + 1
        /\ UNCHANGED <<files, lastOp, launches, lost>>
    BY <1>2, <2>1, KeysAre DEF Call, FirstStage, process
  <2>3. lastOp' < op'
    BY <1>2, <2>2, BoundsAssumption DEF AppInv, AppTypes
  <2> QED
    BY <1>2, <2>2, <2>3, QuietKeeps
<1>3. ASSUME AppInv, LogInv, ReportInv, OpenFile PROVE ReportInv'
  <2>1. CASE LogsNothing
    <3>1. /\ stage = "open" /\ stage' \in {"loop", "work"}
          /\ UNCHANGED <<files, lastOp, op, launches, lost>>
      BY <1>3, <2>1 DEF OpenFile, Return, LogsNothing, files, process
    <3> QED
      BY <1>3, <3>1, QuietKeeps
  <2>2. CASE Return /\ LogsText(Fixed)
    <3>1. TriesToLog
      BY <2>2, TextIsLogged
    <3>2. /\ stage = "open" /\ stage' = "loop"
          /\ UNCHANGED <<report, copied, lastOp, op, launches>>
      BY <1>3, <2>2 DEF OpenFile, Return, process, copy
    <3>3. ReportCoherent'
      BY <1>3, <3>2 DEF ReportInv, ReportCoherent
    <3> QED
      BY <1>3, <3>1, <3>2, <3>3, LoggingKeeps
  <2> QED
    BY <1>3, <2>1, <2>2 DEF OpenFile
<1>4. ASSUME AppInv, LogInv, ReportInv,
             \/ LoadKeys \/ InitUsb \/ WaitConfigured \/ ListFiles \/ TransferTest
             \/ DecryptTest \/ EndUsb
      PROVE  ReportInv'
  <2>1. /\ stage \in {"keys", "usb", "wait", "list", "work", "exit"}
        /\ stage' \in {"loop", "usb", "wait", "list", "work", "exit"}
        /\ UNCHANGED <<files, lastOp, op, launches, lost>>
    BY <1>4 DEF LoadKeys, InitUsb, InitFails, WaitConfigured, ListFiles, ListFails, TransferTest,
                DecryptTest, EndUsb, Return, process, history
  <2> QED
    BY <1>4, <2>1, QuietKeeps
<1>5. ASSUME AppInv, LogInv, ReportInv, InstallFromSd \/ InstallOverUsb \/ DryRunFromSd
      PROVE  ReportInv'
  <2>1. TriesToLog
    BY <1>5, NamesAreLogged DEF InstallFromSd, InstallOverUsb, DryRunFromSd, Recorded
  <2>2. /\ stage = "work" /\ stage' \in {"loop", "exit"} /\ lastOp' = op
        /\ UNCHANGED <<report, copied, op, launches>>
    BY <1>5 DEF InstallFromSd, InstallOverUsb, DryRunFromSd, Recorded, Return, copy
  <2>3. ReportCoherent'
    BY <1>5, <2>2 DEF ReportInv, ReportCoherent
  <2> QED
    BY <1>5, <2>1, <2>2, <2>3, LoggingKeeps
<1>6. ASSUME AppInv, LogInv, ReportInv, ReportLogs PROVE ReportInv'
  <2>1. TriesToLog
    BY <1>6, NamesAreLogged DEF ReportLogs, SnapshotLogged
  <2>2. /\ stage = "log" /\ stage' = "copy"
        /\ UNCHANGED <<report, copied, lastOp, op, launches>>
    BY <1>6 DEF ReportLogs, process, copy
  <2>3. ReportCoherent'
    BY <1>6, <2>2 DEF ReportInv, ReportCoherent
  <2> QED
    BY <1>6, <2>1, <2>2, <2>3, LoggingKeeps
<1>7. ASSUME ReportInv, UNCHANGED vars PROVE ReportInv'
  BY <1>7 DEF ReportInv, ReportCoherent, ThisLaunch, LogBys, InReport, Copying, Reached, vars,
              files, copy, process, history, By
<1> QED
  BY <1>b, <1>1, <1>2, <1>3, <1>4, <1>5, <1>6, <1>7, LaunchBegins, OpenKeeps, HeaderKeeps,
     PieceKeeps, CloseKeeps DEF Next, Quit, Crash

(* A report of which the card refused nothing is of one launch, wherever   *)
(* crashes cut it and whatever log and report went through in earlier      *)
(* launches: no line of another, none of a later operation; its own        *)
(* snapshot once it is closed, and never that without the lines of the     *)
(* operation it names as the last.                                         *)
THEOREM ReportCoherentAlways == Spec => []ReportCoherent
<1>1. Init => ReportInv
  BY DEF Init, NoReport, ReportInv, ReportCoherent, InReport
<1>2. ReportInv => ReportCoherent
  BY DEF ReportInv
<1> QED
  BY <1>1, <1>2, ReportInvStep, AppInvariant, LogInvariant, PTL DEF Spec

=============================================================================
