--------------------------------- MODULE App ---------------------------------
(***************************************************************************)
(* The console program (main.cpp): one thread that polls the pad and runs  *)
(* the handlers of the keys that went down, one after the other; what the  *)
(* handlers keep between them (g_lastOp, the usb:ds service, the log), and *)
(* the debug report that is made of it (install/report.cpp).               *)
(*                                                                         *)
(* An operation is a handler run.  Launches are numbered, and operations   *)
(* over all launches, so that a line, g_lastOp and the report can be told  *)
(* which of them they speak of.  The program may crash anywhere, in the    *)
(* middle of the copy that makes the report as well.                       *)
(***************************************************************************)
EXTENDS Log

CONSTANTS LineLens,      \* lengths that a line may have
          MaxOps,        \* bound on the operations of a behaviour
          MaxLaunches    \* bound on its launches

ASSUME LineLensAssumption == LineLens \subseteq Nat
ASSUME BoundsAssumption == MaxOps \in Nat /\ MaxLaunches \in Nat

(* The keys that have a handler, and the order in which main asks for them. *)
Place == [A |-> 1, B |-> 2, Up |-> 3, Down |-> 4, X |-> 5, Y |-> 6]
Keys == DOMAIN Place

VARIABLES
  stage,       \* where the program stands
  frame,       \* keys of this frame whose handlers are still to run
  doing,       \* the key whose handler runs
  lastOp,      \* the operation g_lastOp tells of, 0 when none
  usbRefs,     \* references the process holds on usb:ds
  bounce,      \* the transport's bounce_ is allocated
  report,      \* the report file
  copied,      \* lines read of the log that is open for the copy
  op,          \* history: number of the current operation
  launches,    \* history
  leaks,       \* history: bounce buffers this process could not allocate
  lost,        \* history: the card refused this process a line of the log
  wanted       \* history: the install or dry run started last

copy    == <<report, copied>>
files   == <<logFile, copy>>
process == <<lastOp, usbRefs, bounce>>
history == <<op, launches, leaks, lost, wanted>>
vars    == <<stage, frame, doing, files, process, history>>

Records == {"Up", "X", "Y"}     \* the keys whose outcome g_lastOp holds

(* A report: who made it, the operation its header names as the last, who  *)
(* wrote the lines of the log in it, and for the properties whether it was *)
(* closed and whether the card refused something that belongs in it.       *)
By(launch, n) == [launch |-> launch, op |-> n]
NoReport == [by |-> By(0, 0), last |-> 0, log |-> {}, closed |-> FALSE, lost |-> FALSE]

Init ==
  /\ stage = "off" /\ frame = {} /\ doing = "B"
  /\ logFile = <<>> /\ report = NoReport /\ copied = 0
  /\ lastOp = 0 /\ usbRefs = 0 /\ bounce = FALSE
  /\ op = 0 /\ launches = 0 /\ leaks = 0 /\ lost = FALSE /\ wanted = 0

(* The current operation logs a line of n characters, one for all of its   *)
(* lines here, or the card refuses it and nobody is told.  Where names of  *)
(* the container or the host go into the line it may have any length.      *)
Fixed == 1
LogsText(n) ==
  \/ LogLine(By(launches, op), n) /\ UNCHANGED lost
  \/ UNCHANGED logFile /\ lost' = TRUE
LogsNames == \E n \in LineLens : LogsText(n)
LogsNothing == UNCHANGED <<logFile, lost>>

-----------------------------------------------------------------------------
(* The program starts: log::init truncates the log and writes its header.  *)
(* Either open may fail, and the old lines may stay.                       *)
Launch ==
  /\ stage = "off" /\ launches < MaxLaunches
  /\ stage' = "loop" /\ launches' = launches + 1
  /\ \/ LogInit(By(launches + 1, 0), Fixed) /\ lost' = FALSE
     \/ LogLine(By(launches + 1, 0), Fixed) /\ lost' = TRUE
     \/ logFile' \in {<<>>, logFile} /\ lost' = TRUE
  /\ UNCHANGED <<frame, doing, copy, process, op, leaks, wanted>>

(* One turn of the main loop: what went down is read once, with L and R,   *)
(* and stands for all handlers of the frame, however long they take.       *)
Armed(down, lr) == {k \in down : k \in {"X", "Y"} => lr}
Poll ==
  /\ stage = "loop" /\ frame = {} /\ op < MaxOps
  /\ \E a, b \in Keys, lr \in BOOLEAN : frame' = Armed({a, b}, lr)
  /\ UNCHANGED <<stage, doing, files, process, history>>

(* The process ends: its memory goes, and usb:ds drops what it still held. *)
ProcessGone ==
  /\ stage' = "off" /\ doing' = "B" /\ frame' = {}
  /\ lastOp' = 0 /\ usbRefs' = 0 /\ bounce' = FALSE
  /\ copied' = 0 /\ leaks' = 0 /\ lost' = FALSE /\ wanted' = 0
  /\ UNCHANGED <<logFile, report, op, launches>>

(* Plus leaves the loop, whatever else went down. *)
Quit == stage = "loop" /\ frame = {} /\ ProcessGone

(* The program dies anywhere. *)
Crash == stage # "off" /\ ProcessGone

(* The next handler of the frame is called, in the order of main. *)
FirstStage == [A |-> "usb", B |-> "work", Up |-> "open", Down |-> "log",
               X |-> "open", Y |-> "keys"]
Call ==
  /\ stage = "loop" /\ op < MaxOps
  /\ doing' \in frame /\ \A k \in frame : Place[doing'] <= Place[k]
  /\ frame' = frame \ {doing'}
  /\ stage' = FirstStage[doing'] /\ op' = op + 1
  /\ wanted' = IF doing' \in Records THEN op' ELSE wanted
  /\ UNCHANGED <<files, process, launches, leaks, lost>>

Return == stage' = "loop"

(* realInstall and dryRunFromSd: prod.keys, which only the install needs,  *)
(* and sdmc:/install.nsp.  Only the dry run logs that there is no file.    *)
OpenFile ==
  /\ stage = "open"
  /\ \/ stage' = "work" /\ LogsNothing
     \/ Return /\ doing = "Up" /\ LogsText(Fixed)
     \/ Return /\ doing = "X" /\ LogsNothing
  /\ UNCHANGED <<frame, doing, copy, process, op, launches, leaks, wanted>>

(* usbInstall needs the keys first. *)
LoadKeys ==
  /\ stage = "keys"
  /\ stage' = "usb" \/ Return
  /\ UNCHANGED <<frame, doing, files, process, history>>

(* UsbDsTransport::init.  What fails gives usb:ds back (USBCHK; giving back *)
(* what was never got does nothing), but for the bounce buffer.            *)
InitFailsTwice == Return /\ usbRefs' = usbRefs - 1 /\ UNCHANGED <<bounce, leaks>>
InitFails == Return /\ UNCHANGED <<usbRefs, bounce, leaks>>
InitUsb ==
  /\ stage = "usb"
  /\ \/ /\ stage' = "wait"
        /\ usbRefs' = usbRefs + 1 /\ bounce' = TRUE /\ UNCHANGED leaks
     \/ InitFails
     \/ /\ Return
        /\ usbRefs' = usbRefs + 1 /\ leaks' = leaks + 1 /\ UNCHANGED bounce
  /\ UNCHANGED <<frame, doing, files, lastOp, op, launches, lost, wanted>>

(* UsbDsTransport::exit. *)
ExitUsb == usbRefs' = usbRefs - 1 /\ bounce' = FALSE

(* waitConfigured: the host configures the device in time, or not. *)
WaitConfigured ==
  /\ stage = "wait"
  /\ \/ stage' = "list" /\ UNCHANGED <<usbRefs, bounce>>
     \/ Return /\ ExitUsb
  /\ UNCHANGED <<frame, doing, files, lastOp, history>>

(* listFiles: the transfer test goes on with an empty list, the install    *)
(* does not.                                                               *)
ListFailsOpen == Return /\ UNCHANGED <<usbRefs, bounce>>
ListFails == Return /\ ExitUsb
ListFiles ==
  /\ stage = "list"
  /\ \/ stage' = "work" /\ UNCHANGED <<usbRefs, bounce>>
     \/ ListFails
  /\ UNCHANGED <<frame, doing, files, lastOp, history>>

(* What the handlers are for.  An install logs its phases and its outcome, *)
(* a dry run its findings, and each is recorded in g_lastOp, however it    *)
(* ended.                                                                  *)
Recorded == LogsNames /\ lastOp' = op
InstallFromSd ==
  /\ stage = "work" /\ doing = "X" /\ Recorded /\ Return
  /\ UNCHANGED <<frame, doing, copy, usbRefs, bounce, op, launches, leaks, wanted>>
InstallOverUsb ==
  /\ stage = "work" /\ doing = "Y" /\ Recorded /\ stage' = "exit"
  /\ UNCHANGED <<frame, doing, copy, usbRefs, bounce, op, launches, leaks, wanted>>
DryRunFromSd ==
  /\ stage = "work" /\ doing = "Up" /\ Recorded /\ Return
  /\ UNCHANGED <<frame, doing, copy, usbRefs, bounce, op, launches, leaks, wanted>>

(* The transfer test and the decryption test log nothing and record        *)
(* nothing.                                                                *)
TransferTest ==
  /\ stage = "work" /\ doing = "A" /\ stage' = "exit"
  /\ UNCHANGED <<frame, doing, files, process, history>>
DecryptTest ==
  /\ stage = "work" /\ doing = "B" /\ Return
  /\ UNCHANGED <<frame, doing, files, process, history>>

(* sendExit, whatever came of the work, and exit. *)
EndUsb ==
  /\ stage = "exit" /\ Return /\ ExitUsb
  /\ UNCHANGED <<frame, doing, files, lastOp, history>>

(* makeReport, writeDebugReport: the last operation and a dry run of the   *)
(* file, if there is one, go to the log, *)
SnapshotNotLogged == LogsNothing
SnapshotLogged == LogsNames
ReportLogs ==
  /\ stage = "log" /\ stage' = "copy"
  /\ SnapshotLogged
  /\ UNCHANGED <<frame, doing, copy, process, op, launches, leaks, wanted>>

(* and a report is opened, which empties the one before.  If that fails    *)
(* the old one stays and the log says so.                                  *)
OpenReport ==
  /\ stage = "copy"
  /\ \/ stage' = "head" /\ report' = NoReport /\ LogsNothing
     \/ Return /\ UNCHANGED report /\ LogsText(Fixed)
  /\ UNCHANGED <<frame, doing, copied, process, op, launches, leaks, wanted>>

(* Its header tells the last operation; the log is opened to be copied     *)
(* behind it, or "(log file unavailable)" is.  What the card refuses of    *)
(* the report, here and below, nobody is told either.  That stdio keeps    *)
(* back what is written adds nothing: a crash then leaves what an earlier  *)
(* crash would have left.                                                  *)
ReportHead(refused) ==
  [by |-> By(launches, op), last |-> lastOp, log |-> {}, closed |-> FALSE,
   lost |-> lost \/ refused]
WriteHeader ==
  /\ stage = "head"
  /\ \/ stage' = "pieces" /\ report' = ReportHead(FALSE)
     \/ stage' \in {"pieces", "close"} /\ report' = ReportHead(TRUE)
  /\ UNCHANGED <<frame, doing, logFile, copied, process, history>>

(* One turn of the copy loop, a line for a piece: what was read is written *)
(* to the report, or refused; nothing more, or a read error, ends it.      *)
Refused == [report EXCEPT !.lost = TRUE]
CopyPiece ==
  /\ stage = "pieces"
  /\ \/ /\ copied < Len(logFile) /\ copied' = copied + 1 /\ UNCHANGED stage
        /\ report' \in {[report EXCEPT !.log = @ \cup {logFile[copied + 1].by}], Refused}
     \/ /\ copied < Len(logFile) /\ copied' = 0 /\ stage' = "close"
        /\ report' = Refused
     \/ /\ copied >= Len(logFile) /\ copied' = 0 /\ stage' = "close"
        /\ UNCHANGED report
  /\ UNCHANGED <<frame, doing, logFile, process, history>>

(* fclose, and the line that says the report is written. *)
CloseReport ==
  /\ stage = "close" /\ Return /\ LogsText(Fixed)
  /\ report' \in {[report EXCEPT !.closed = TRUE], [Refused EXCEPT !.closed = TRUE]}
  /\ UNCHANGED <<frame, doing, copied, process, op, launches, leaks, wanted>>

Next ==
  \/ Launch \/ Poll \/ Quit \/ Call \/ OpenFile \/ LoadKeys \/ InitUsb \/ WaitConfigured
  \/ ListFiles
  \/ InstallFromSd \/ InstallOverUsb \/ DryRunFromSd \/ TransferTest \/ DecryptTest
  \/ EndUsb \/ ReportLogs \/ OpenReport \/ WriteHeader \/ CopyPiece \/ CloseReport
  \/ Crash

Spec == Init /\ [][Next]_vars

-----------------------------------------------------------------------------
(* Every variable has its type. *)
TypeOK ==
  /\ stage \in {"off", "loop", "open", "keys", "usb", "wait", "list", "work", "exit",
                "log", "copy", "head", "pieces", "close"}
  /\ frame \subseteq Keys /\ doing \in Keys
  /\ usbRefs \in Nat /\ bounce \in BOOLEAN /\ lost \in BOOLEAN
  /\ copied \in Nat
  /\ lastOp <= op /\ report.by.op <= op /\ op \in 0..MaxOps /\ launches \in 0..MaxLaunches

(* Between the handlers nothing of the transport is held: whichever of the *)
(* steps of a USB handler failed, usb:ds was given back and the bounce     *)
(* buffer freed; the references that stay are those of the inits that had  *)
(* no memory for the buffer.  In a handler there is one more at most.      *)
UsbReleased ==
  /\ stage = "loop" => usbRefs = leaks /\ ~bounce
  /\ usbRefs <= leaks + 1

(* A report whose lines the card took, all of them, is of one launch and   *)
(* one moment of it: it has no line of another launch, not even when log   *)
(* and report outlive several, and none of a later operation.  Once it is  *)
(* closed its own snapshot is in it.  A crash may cut it anywhere before,  *)
(* but what it has of the snapshot never comes without the lines of the    *)
(* operation that its header names as the last.                            *)
ReportCoherent ==
  ~report.lost =>
    /\ \A by \in report.log : by.launch = report.by.launch /\ by.op <= report.by.op
    /\ report.closed => report.by \in report.log
    /\ report.by \in report.log /\ report.last # 0 =>
         By(report.by.launch, report.last) \in report.log

(* install/report.h:19 calls g_lastOp the "Outcome of the most recent       *)
(* operation".  An install or dry run that returns early, for want of keys *)
(* or of the file or of a host, leaves the one before in it.               *)
LastOpIsMostRecent == stage = "loop" /\ wanted # 0 => lastOp = wanted
=============================================================================
