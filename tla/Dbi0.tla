-------------------------------- MODULE Dbi0 ---------------------------------
(***************************************************************************)
(* A DBI0 session (usb/dbi0_client.cpp, main.cpp usbInstall): the client   *)
(* on the console lists the host's files, reads ranges of one of them and  *)
(* says EXIT, over the transport of UsbDs.                                 *)
(*                                                                         *)
(* The host is dbibackend, which is not in this repository; it is modelled *)
(* from docs/PROTOCOL.md and the order of messages the client expects.  It *)
(* is one loop: while it sends it does not read, and while it reads it     *)
(* does not send.  After a USB error it starts again at the head of the    *)
(* loop.                                                                   *)
(*                                                                         *)
(* Every message carries the number of the call it belongs to, which the   *)
(* wire does not: it is there for the properties only.                     *)
(***************************************************************************)
EXTENDS UsbDs, FiniteSetsExt

CONSTANTS Segment,       \* SEGMENT_SIZE
          FileLen,       \* length of the file, in the same units
          ListLen,       \* length of the list of names; 0: no files
          MaxCalls,      \* bound on the calls of a session
          MaxRestarts    \* bound on the USB errors of the host

ASSUME SegmentAssumption == Segment \in Nat \ {0}
ASSUME LengthsAssumption == {FileLen, ListLen, MaxCalls, MaxRestarts} \subseteq Nat

VARIABLES
  cpc,                   \* where the client stands
  call,                  \* history: number of the current call
  offset, len,           \* arguments of fileRange
  toRead, dst,           \* what is announced, what has come in
  hpc,                   \* where the host stands
  hcall, hoff, hlen,     \* the request it serves
  hsent,                 \* units of the payload it has sent
  restarts               \* history: USB errors of the host

client == <<cpc, call, offset, len, toRead, dst>>
host   == <<hpc, hcall, hoff, hlen, hsent, restarts>>
vars   == <<usb, client, host>>

Header(type, id, n, c) == [kind |-> "header", type |-> type, id |-> id, n |-> n, call |-> c]
Body(off, n, c) == [kind |-> "body", off |-> off, n |-> n, call |-> c]
Payload(of, from, n) == [kind |-> "payload", of |-> of, from |-> from, n |-> n]

(* A header takes no unit of payload. *)
HeaderRoom == 0

(* The steps of the client that write, and what follows them; the steps    *)
(* that read a reply.                                                      *)
AfterWrite == [listReq |-> "listResp", listAck |-> "listData",
               rangeReq |-> "rangeAck", rangeBody |-> "rangeResp",
               rangeGo |-> "rangeData", exitReq |-> "exitResp"]
Writing == DOMAIN AfterWrite
Reading == {"listResp", "listData", "rangeAck", "rangeResp", "rangeData", "exitResp"}

(* What the client writes there. *)
Outgoing ==
  CASE cpc = "listReq"   -> Header("request", "list", 0, call)
    [] cpc = "listAck"   -> Header("ack", "list", toRead, call)
    [] cpc = "rangeReq"  -> Header("request", "range", 0, call)
    [] cpc = "rangeBody" -> Body(offset, len, call)
    [] cpc = "rangeGo"   -> Header("ack", "range", toRead, call)
    [] cpc = "exitReq"   -> Header("request", "exit", 0, call)

(* What the host does on a request, and what it sends. *)
Serve == [list |-> "listResp", range |-> "ack", exit |-> "exitResp"]
AfterSend == [listResp |-> IF ListLen = 0 THEN "header" ELSE "listAck",
              listData |-> "header", ack |-> "body", resp |-> "rangeAck",
              stream |-> "stream", exitResp |-> "stopped"]
Sending == DOMAIN AfterSend
ChunkLen == Min({Segment, hlen - hsent, FileLen - (hoff + hsent)})
HostMessage ==
  CASE hpc = "listResp" -> Header("response", "list", ListLen, hcall)
    [] hpc = "listData" -> Payload("list", 0, ListLen)
    [] hpc = "ack"      -> Header("ack", "range", 0, hcall)
    [] hpc = "resp"     -> Header("response", "range", hlen, hcall)
    [] hpc = "stream"   -> Payload("file", hoff + hsent, ChunkLen)
    [] hpc = "exitResp" -> Header("response", "exit", 0, hcall)

Init ==
  /\ UsbInit
  /\ cpc = "listReq" /\ call = 1 /\ offset = 0 /\ len = 0 /\ toRead = 0 /\ dst = <<>>
  /\ hpc = "header" /\ hcall = 0 /\ hoff = 0 /\ hlen = 0 /\ hsent = 0 /\ restarts = 0

-----------------------------------------------------------------------------
(* The host's side of a write of the client.  At the head of its loop a    *)
(* header is served by its id; what is no request may also be ignored.     *)
HostReadsHeader(m) ==
  /\ hpc = "header"
  /\ \/ /\ m.kind = "header"
        /\ hpc' = Serve[m.id] /\ hcall' = m.call
     \/ /\ m.kind = "header" => m.type # "request"
        /\ UNCHANGED <<hpc, hcall>>
  /\ UNCHANGED <<hoff, hlen, hsent, restarts>>

(* A header read where the body should be names no file the host has.      *)
HostReadsBody(m) ==
  /\ hpc = "body"
  /\ \/ /\ m.kind = "body"
        /\ hpc' = "resp" /\ hoff' = m.off /\ hlen' = m.n
     \/ /\ m.kind # "body"
        /\ hpc' \in {"header", "stopped"} /\ UNCHANGED <<hoff, hlen>>
  /\ UNCHANGED <<hcall, hsent, restarts>>

(* "host reads & ignores fields" *)
HostReadsAck ==
  /\ \/ hpc = "listAck" /\ hpc' = "listData"
     \/ hpc = "rangeAck" /\ hpc' = "stream"
  /\ hsent' = 0
  /\ UNCHANGED <<hcall, hoff, hlen, restarts>>

HostReads(m) == HostReadsHeader(m) \/ HostReadsBody(m) \/ HostReadsAck

(* The host sends its next message, which goes to the oldest URB. *)
HostHasMessage == hpc \in Sending /\ (hpc = "stream" => ChunkLen > 0)
HostSends ==
  /\ HostHasMessage
  /\ Deliver(HostMessage,
             IF hpc = "stream" THEN ChunkLen ELSE IF hpc = "listData" THEN ListLen ELSE HeaderRoom,
             cpc \in Writing)
  /\ hpc' = AfterSend[hpc]
  /\ hsent' = IF hpc = "stream" THEN hsent + ChunkLen ELSE hsent
  /\ UNCHANGED <<client, hcall, hoff, hlen, restarts>>

(* All of the range is sent, or the file ends before it. *)
HostStreamEnds ==
  /\ hpc = "stream" /\ ChunkLen <= 0 /\ hpc' = "header"
  /\ UNCHANGED <<usb, client, hcall, hoff, hlen, hsent, restarts>>

(* A USB error of the host, with or without a reset of the bus; what the   *)
(* client is writing may get lost in it, and the client does not look.     *)
HostRestarts ==
  /\ hpc # "stopped" /\ restarts < MaxRestarts
  /\ hpc' = "header" /\ restarts' = restarts + 1
  /\ \/ UNCHANGED <<usb, client>>
     \/ cpc \notin Writing /\ BusReset /\ UNCHANGED client
     \/ /\ cpc \in Writing /\ BusReset
        /\ cpc' = AfterWrite[cpc] /\ UNCHANGED <<call, offset, len, toRead, dst>>
  /\ UNCHANGED <<hcall, hoff, hlen, hsent>>

-----------------------------------------------------------------------------
(* The client. *)

(* What the host reads out of the buffer of a write: what was written, or  *)
(* what came in over it, if only its own message.                          *)
OnTheBus == IF page = Nothing THEN Outgoing ELSE page

(* sendHeader, or the write of the body: it returns once the host has read. *)
ClientWrites ==
  /\ cpc \in Writing
  /\ HostReads(OnTheBus) /\ Written
  /\ cpc' = AfterWrite[cpc]
  /\ UNCHANGED <<call, offset, len, toRead, dst>>

(* The write cannot be posted; nobody looks at what write returns. *)
ClientWriteFails ==
  /\ cpc \in Writing /\ page = Nothing /\ PostFails
  /\ cpc' = AfterWrite[cpc]
  /\ UNCHANGED <<call, offset, len, toRead, dst, host>>

(* What a read at this step asks for: readHeader, the list, or the next    *)
(* segment of the payload.                                                 *)
Want ==
  CASE cpc = "listData"  -> toRead
    [] cpc = "rangeData" -> Min({Segment, toRead - Len(dst)})
    [] OTHER             -> HeaderRoom

(* All of the payload is in. *)
OneSegmentIn == Len(dst) >= Min({Segment, toRead})
PayloadIn == Len(dst) >= toRead

Reads == cpc \in Reading /\ (cpc = "rangeData" => ~PayloadIn)
PostRead ==
  /\ Reads
  /\ PostBuffer(Want)
  /\ UNCHANGED <<client, host>>

(* readHeader: the magic is there, and the caller looks at the id only.    *)
IsReply(m, id) == m.kind = "header" /\ m.id = id

(* What a message puts into dst: units of the list or of the file, and     *)
(* what is not one of them when a header comes where payload is expected.  *)
Units(m) ==
  IF m.kind = "payload" THEN [k \in 1..m.n |-> <<m.of, m.from + k - 1>>]
  ELSE <<<<"header", 0>>>>

ListReply(m) ==
  /\ cpc = "listResp"
  /\ \/ /\ IsReply(m, "list") /\ m.n > 0
        /\ cpc' = "listAck" /\ toRead' = m.n
     \/ /\ IsReply(m, "list") /\ m.n = 0
        /\ cpc' = "returned" /\ UNCHANGED toRead
     \/ /\ ~IsReply(m, "list")
        /\ cpc' = "over" /\ UNCHANGED toRead
  /\ UNCHANGED dst

ListPayload(m) ==
  /\ cpc = "listData"
  /\ cpc' = IF m.kind = "payload" /\ m.n = toRead THEN "returned" ELSE "over"
  /\ UNCHANGED <<toRead, dst>>

RangeAck(m) ==
  /\ cpc = "rangeAck"
  /\ cpc' = IF IsReply(m, "range") THEN "rangeBody" ELSE "returned"
  /\ UNCHANGED <<toRead, dst>>

NoAckSent(m) ==
  /\ cpc = "rangeResp" /\ IsReply(m, "range")
  /\ cpc' = "rangeData" /\ toRead' = Min({m.n, len}) /\ UNCHANGED dst
RangeResponse(m) ==
  /\ cpc = "rangeResp"
  /\ \/ /\ IsReply(m, "range")
        /\ cpc' = "rangeGo" /\ toRead' = Min({m.n, len})
     \/ /\ ~IsReply(m, "range")
        /\ cpc' = "returned" /\ UNCHANGED toRead
  /\ UNCHANGED dst

(* One segment; a read that brings nothing ends the payload. *)
RetriesSegment(m) ==
  /\ cpc = "rangeData" /\ UNCHANGED <<cpc, toRead>>
  /\ dst' = IF m.kind \in {"payload", "header"} THEN dst \o Units(m) ELSE dst
RangePayload(m) ==
  /\ cpc = "rangeData"
  /\ \/ /\ m.kind \in {"nothing", "junk"}
        /\ cpc' = "returned" /\ UNCHANGED dst
     \/ /\ m.kind \in {"payload", "header"}
        /\ dst' = dst \o Units(m) /\ UNCHANGED cpc
  /\ UNCHANGED toRead

ExitReply == cpc = "exitResp" /\ cpc' = "over" /\ UNCHANGED <<toRead, dst>>

Takes(m) ==
  /\ \/ ListReply(m) \/ ListPayload(m) \/ RangeAck(m) \/ RangeResponse(m)
     \/ RangePayload(m) \/ ExitReply
  /\ UNCHANGED <<call, offset, len>>

(* A read returns, with what arrived or with nothing; it cannot be posted, *)
(* or what it brought is lost with the report.                             *)
ReadReturns == WaitReturns /\ Takes(arrived) /\ UNCHANGED host
ReadFails ==
  /\ (Reads /\ PostFails) \/ ReportFails
  /\ Takes(Nothing) /\ UNCHANGED host
ReadTimesOut == WaitTimesOut /\ Takes(Nothing) /\ UNCHANGED host

RangeEnds ==
  /\ cpc = "rangeData" /\ ~waiting /\ PayloadIn
  /\ cpc' = "returned"
  /\ UNCHANGED <<usb, call, offset, len, toRead, dst, host>>

(* The caller reads another range, whatever came of the last, *)
ReadRange(off, n) ==
  /\ cpc = "returned"
  /\ cpc' = "rangeReq" /\ call' = call + 1
  /\ offset' = off /\ len' = n
  /\ toRead' = 0 /\ dst' = <<>>
  /\ UNCHANGED <<usb, host>>
FileRange ==
  /\ call < MaxCalls
  /\ \E off \in 0..FileLen, n \in 1..FileLen : ReadRange(off, n)

(* or ends the session. *)
SendExit ==
  /\ cpc = "returned" /\ cpc' = "exitReq" /\ call' = call + 1
  /\ UNCHANGED <<usb, offset, len, toRead, dst, host>>

ClientStep ==
  \/ ClientWrites \/ PostRead \/ ReadReturns \/ ReadTimesOut \/ RangeEnds
  \/ FileRange \/ SendExit
TransferFails == ClientWriteFails \/ ReadFails
HostStep == HostSends \/ HostStreamEnds

Next == ClientStep \/ TransferFails \/ HostStep \/ HostRestarts

Spec == Init /\ [][Next]_vars

(* The client is one thread and the host one loop: each goes on while it    *)
(* can, and a wait with a limit ends.  Nothing needs to fail.              *)
FairSpec == Spec /\ WF_vars(ClientStep) /\ WF_vars(HostStep)

-----------------------------------------------------------------------------
(* Every variable has its type.  At most one URB is left posted behind the *)
(* one that postChunk waits for: they do not pile up on the endpoint.      *)
TypeOK ==
  /\ cpc \in Writing \cup Reading \cup {"returned", "over"}
  /\ hpc \in Sending \cup {"header", "body", "listAck", "rangeAck", "stopped"}
  /\ Len(urbs) <= 2 /\ Len(dst) <= toRead + 1
  /\ waiting => cpc \in Reading
  /\ timeouts \in 0..MaxTimeouts /\ failures \in 0..MaxFailures /\ restarts \in 0..MaxRestarts

(* At every moment dst holds the beginning of the range asked for, byte    *)
(* for byte, whatever was lost before: what the host still sends for an    *)
(* earlier request is never taken for payload of this one, and a segment   *)
(* is never taken for the one before it.  After an error of the host a     *)
(* header may be taken for payload, nothing else.                          *)
RangeIntact ==
  cpc \in {"rangeData", "returned"} /\ call > 1 =>
    \A k \in DOMAIN dst :
      \/ dst[k] = <<"file", offset + k - 1>>
      \/ dst[k] = <<"header", 0>> /\ restarts > 0

(* What may go wrong in a session. *)
Faults == timeouts + failures + restarts

(* A range comes back short only when a read timed out, a transfer could   *)
(* not be posted, the report of one was not to be had, or the host met an  *)
(* error.                                                                  *)
ShortMeansFault ==
  cpc = "returned" /\ call > 1 /\ Len(dst) < len => Faults > 0

(* The client waits to write and the host to send. *)
BothSending == cpc \in Writing /\ HostHasMessage /\ urbs = <<>>

(* The two ends never wait to send to each other unless a transfer of the  *)
(* client timed out or failed before, in the post or in the report; an     *)
(* error of the host alone does not bring that about.                      *)
BlockedMeansReadFailed == BothSending => timeouts + failures > 0

(* Nor do they wait to read from each other, but after a fault, which may  *)
(* be a reply lost with its report, or when the range goes past the end of *)
(* the file.                                                               *)
BothReadingMeansFault ==
  waiting /\ ~event /\ hpc \in {"header", "body", "listAck", "rangeAck"} =>
    Faults > 0 \/ offset + len > FileLen

(* A message comes in over one that is being written only when a read has  *)
(* timed out before: nothing else leaves a URB posted behind postChunk.    *)
WriteUndisturbed == page # Nothing => cpc \in Writing /\ timeouts > 0

(* usb/usbds_transport.cpp:119 waits for ever in write because the "host    *)
(* always drains IN".                                                      *)
HostAlwaysDrains == ~BothSending

(* Without a fault every session comes to its end.                         *)
SessionEnds == <>(cpc = "over" \/ Faults > 0)
=============================================================================
