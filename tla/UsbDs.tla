-------------------------------- MODULE UsbDs --------------------------------
(***************************************************************************)
(* UsbDsTransport (usb/usbds_transport.cpp) as the client above it and the *)
(* host across the cable see it: postChunk, the request blocks (URBs) of   *)
(* the OUT endpoint, and its completion event.                             *)
(*                                                                         *)
(* A bulk transfer moves a message when one side offers it and the other   *)
(* has a buffer posted; nothing is stored in between.  Reads wait at most  *)
(* readTimeout_; writes wait for ever.  usbDsEndpoint_Cancel is external:  *)
(* it may leave the completion event signalled.                            *)
(***************************************************************************)
EXTENDS Integers, Sequences

CONSTANTS MaxTimeouts,    \* bound on the reads that time out
          MaxFailures     \* bound on the calls of usb:ds that fail

ASSUME UsbBoundsAssumption == {MaxTimeouts, MaxFailures} \subseteq Nat

VARIABLES
  urbs,       \* sizes of the OUT buffers posted, the oldest first
  event,      \* CompletionEvent of the OUT endpoint is signalled
  waiting,    \* postChunk is in eventWait for the newest of them
  arrived,    \* what completed the URB that postChunk waits for
  page,       \* what came into bounce_ over the message being written
  timeouts,   \* history: reads that timed out
  failures    \* history: PostBufferAsync or GetReportData calls that failed

usb == <<urbs, event, waiting, arrived, page, timeouts, failures>>

(* No message: a URB that did not complete. *)
Nothing == [kind |-> "nothing"]
(* More bytes than the URB has room for. *)
Junk == [kind |-> "junk"]

UsbInit ==
  /\ urbs = <<>> /\ event = FALSE /\ waiting = FALSE
  /\ arrived = Nothing /\ page = Nothing /\ timeouts = 0 /\ failures = 0

(* postChunk up to eventWait: one more URB of n units on the endpoint. *)
PostBuffer(n) ==
  /\ ~waiting /\ waiting' = TRUE
  /\ urbs' = Append(urbs, n) /\ arrived' = Nothing
  /\ UNCHANGED <<event, page, timeouts, failures>>

(* usbDsEndpoint_PostBufferAsync fails: postChunk returns 0 at once. *)
PostFails ==
  /\ ~waiting /\ failures < MaxFailures /\ failures' = failures + 1
  /\ UNCHANGED <<urbs, event, waiting, arrived, page, timeouts>>

(* The host's message m of n units fills the oldest URB.  Only if that is  *)
(* the one postChunk waits for does usbDsParseReportData find it.  Every   *)
(* URB has bounce_ for its buffer, and so has a write: if one is under way *)
(* m lands on what is written, before write has copied that there or after.*)
Awaited == waiting /\ Len(urbs) = 1
Deliver(m, n, writing) ==
  /\ urbs # <<>> /\ urbs' = Tail(urbs) /\ event' = TRUE
  /\ arrived' = IF ~Awaited THEN arrived ELSE IF n <= Head(urbs) THEN m ELSE Junk
  /\ page' \in IF writing THEN {page, m} ELSE {page}
  /\ UNCHANGED <<waiting, timeouts, failures>>

(* postChunk of a write returns: the host has read it, or it is lost.  If  *)
(* GetReportData fails then, that changes nothing: nobody looks at what    *)
(* write returns.                                                          *)
Written ==
  /\ page' = Nothing
  /\ UNCHANGED <<urbs, event, waiting, arrived, timeouts, failures>>

(* eventWait returns: the event is cleared and the report read.  The event *)
(* may be one that an older URB or a cancel left behind; the new URB then  *)
(* stays posted, and postChunk returns 0.                                  *)
EventStaysSet ==
  /\ waiting /\ event
  /\ waiting' = FALSE /\ arrived' = Nothing
  /\ UNCHANGED <<urbs, event, page, timeouts, failures>>
WaitReturns ==
  /\ waiting /\ event
  /\ waiting' = FALSE /\ event' = FALSE /\ arrived' = Nothing
  /\ UNCHANGED <<urbs, page, timeouts, failures>>

(* The same, but usbDsEndpoint_GetReportData fails: the event is cleared,  *)
(* what arrived is lost, and postChunk returns 0.                          *)
ReportFails ==
  /\ waiting /\ event /\ failures < MaxFailures /\ failures' = failures + 1
  /\ waiting' = FALSE /\ event' = FALSE /\ arrived' = Nothing
  /\ UNCHANGED <<urbs, page, timeouts>>

(* eventWait times out, perhaps just as the transfer completes: the URBs   *)
(* are cancelled, and what did arrive is dropped.                          *)
NotCancelled ==
  /\ waiting /\ timeouts < MaxTimeouts
  /\ waiting' = FALSE /\ arrived' = Nothing /\ UNCHANGED <<urbs, event, page>>
  /\ timeouts' = timeouts + 1 /\ UNCHANGED failures
WaitTimesOut ==
  /\ waiting /\ timeouts < MaxTimeouts
  /\ waiting' = FALSE /\ urbs' = <<>> /\ arrived' = Nothing
  /\ event' \in {event, TRUE}
  /\ timeouts' = timeouts + 1 /\ UNCHANGED <<page, failures>>

(* A bus reset: what is posted completes without data, a write as well. *)
BusReset ==
  /\ urbs' = <<>> /\ arrived' = Nothing /\ page' = Nothing
  /\ event' = (event \/ urbs # <<>>)
  /\ UNCHANGED <<waiting, timeouts, failures>>
=============================================================================
