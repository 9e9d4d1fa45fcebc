------------------------------ MODULE Dbi0Proofs ------------------------------
(***************************************************************************)
(* Theorems about a DBI0 session, for every length of the file and of the  *)
(* list, every segment size and any number of calls, of reads that time    *)
(* out, of transfers that cannot be posted or whose report is not to be    *)
(* had, and of errors of the host.                                         *)
(***************************************************************************)
EXTENDS Dbi0, SequenceTheorems, TLAPS

(* The session goes on, or its caller reads a range that may lie anywhere; *)
(* an empty one only where the host has no errors of its own.              *)
AnyRange == \E off \in Nat, n \in Nat : (n > 0 \/ MaxRestarts = 0) /\ ReadRange(off, n)
Moves == Next \/ AnyRange

-----------------------------------------------------------------------------
(* What the variables hold. *)
Replies == {"list", "range", "exit"}
UnitSet == {"list", "file", "header"} \X Int

Types ==
  /\ cpc \in Writing \cup Reading \cup {"returned", "over"}
  /\ hpc \in Sending \cup {"header", "body", "listAck", "rangeAck", "stopped"}
  /\ urbs \in Seq(Nat) /\ event \in BOOLEAN /\ waiting \in BOOLEAN
  /\ arrived.kind \in {"nothing", "junk", "header", "payload"}
  /\ arrived.kind \in {"header", "payload"} => arrived.n \in Nat
  /\ \/ page = Nothing
     \/ page.kind = "payload"
     \/ page.kind = "header" /\ page.id \in Replies
  /\ timeouts \in 0..MaxTimeouts /\ failures \in 0..MaxFailures /\ restarts \in 0..MaxRestarts
  /\ call \in Nat \ {0} /\ offset \in Nat /\ len \in Nat /\ toRead \in Nat
  /\ dst \in Seq(UnitSet)
  /\ hoff \in Nat /\ hlen \in Nat /\ hsent \in Nat

(* The endpoint.  URBs and signals do not pile up: between two reads there *)
(* is one of them at most, and none at all before the first timeout, nor   *)
(* between the steps of a call that has got its replies so far.            *)
Signals == IF event THEN 1 ELSE 0
Clean == Len(urbs) + Signals = IF waiting THEN 1 ELSE 0
Settled == {"listAck", "listData", "rangeBody", "rangeResp", "rangeGo", "rangeData"}

Pending == Len(urbs) + Signals <= IF waiting THEN 2 ELSE 1
CleanSoFar == timeouts = 0 \/ cpc \in Settled => Clean
ArrivedLast == arrived.kind # "nothing" => waiting /\ event /\ urbs = <<>>
WaitReads == waiting => cpc \in Reading
PageLate == page # Nothing => cpc \in Writing /\ cpc \notin Settled /\ timeouts > 0
Endpoint == Pending /\ CleanSoFar /\ ArrivedLast /\ WaitReads /\ PageLate

(* The range.  A call that has got the replies to its header and its body  *)
(* is served by that body or not at all, and what streams is what dst      *)
(* lacks: between the steps the host reads nothing but what they write.    *)
Match == hoff = offset /\ hlen = len
Gained == IF arrived.kind = "payload" THEN arrived.n ELSE 0
Streamed == Match /\ hsent = Len(dst) + Gained

Host(x) == hpc = x \/ (restarts > 0 /\ hpc = "header")

Acked == cpc = "rangeAck" /\ IsReply(arrived, "range") => hpc = "body" \/ Host("rangeAck")
BodyDue == cpc = "rangeBody" => hpc = "body" \/ Host("rangeAck")
Matched == Host("rangeAck") /\ (hpc = "rangeAck" => Match)
Responded ==
  cpc = "rangeResp" =>
    /\ hpc \in {"body", "rangeAck", "header", "resp", "stream"}
    /\ hpc = "resp" => Match
    /\ arrived.kind = "header" => arrived.n = len /\ Matched
GoDue == cpc = "rangeGo" => toRead = len /\ Matched
Streaming ==
  cpc = "rangeData" =>
    /\ toRead = len
    /\ hpc \in {"stream", "rangeAck", "header", "ack", "body"}
    /\ hpc = "rangeAck" => Match /\ dst = <<>> /\ arrived.kind = "nothing"
    /\ hpc = "stream" => Streamed
    /\ hpc = "ack" => restarts > 0
    /\ urbs # <<>> => Head(urbs) = Want
Gaining ==
  cpc = "rangeData" =>
    /\ arrived.kind \in {"nothing", "payload", "header"}
    /\ arrived.kind = "header" => restarts > 0 /\ hpc \in {"body", "header"}
    /\ arrived.kind = "payload" =>
         arrived.of = "file" /\ arrived.from = offset + Len(dst) /\ arrived.n \in 1..len - Len(dst)
Request == Acked /\ BodyDue /\ Responded /\ GoDue /\ Streaming /\ Gaining

(* dst is empty until payload comes, and then holds at most what was asked *)
(* for, or a header more.                                                  *)
Fresh ==
  /\ cpc \notin {"rangeData", "returned", "exitReq", "exitResp", "over"} => dst = <<>>
  /\ cpc \in {"listReq", "listResp", "listAck", "listData"} => call = 1
  /\ cpc = "returned" /\ dst # <<>> => toRead = len
  /\ cpc \in {"rangeReq", "rangeAck", "rangeBody", "rangeResp", "rangeGo", "rangeData"} =>
       len > 0 \/ MaxRestarts = 0
DstKept ==
  /\ Len(dst) <= toRead + (IF restarts > 0 THEN 1 ELSE 0)
  /\ cpc = "rangeData" /\ waiting => Len(dst) < toRead

(* Whose turn it is.  As long as no read has timed out and no transfer     *)
(* failed, the host stands where the client expects it, or at the head of  *)
(* its loop after an error, or where a message that it took for another    *)
(* after the error has led it.                                             *)
Past == hsent >= hlen \/ hoff + hsent >= FileLen

Unread == timeouts = 0 /\ failures = 0
NoMessage == event /\ arrived.kind = "nothing" => hpc = "header" /\ restarts > 0
ListTurn ==
  /\ cpc = "listReq" => hpc = "header"
  /\ cpc = "listResp" =>
       /\ Host(IF event THEN AfterSend["listResp"] ELSE "listResp")
       /\ arrived.kind = "nothing" \/ (IsReply(arrived, "list") /\ arrived.n = ListLen)
  /\ cpc = "listAck" => Host("listAck")
  /\ cpc = "listData" =>
       \/ Host(IF event THEN "header" ELSE "listData")
       \/ restarts > 0 /\ hpc = "listResp" /\ ~event
       \/ restarts > 0 /\ hpc = AfterSend["listResp"] /\ event /\ arrived.kind = "header"
CallerTurn ==
  /\ cpc \in {"returned", "rangeReq", "exitReq"} =>
       \/ hpc = "header"
       \/ hpc = "stream" /\ hsent >= hlen
       \/ restarts > 0 /\ hpc = "body"
  /\ cpc = "returned" /\ call > 1 /\ restarts = 0 => Len(dst) >= len
  /\ cpc = "exitResp" =>
       \/ Host(IF event THEN "stopped" ELSE "exitResp")
       \/ restarts > 0 /\ hpc = "stopped"
RangeTurn ==
  /\ cpc = "rangeAck" =>
       /\ arrived.kind = "nothing" \/ IsReply(arrived, "range")
       /\ \/ Host(IF event THEN "body" ELSE "ack")
          \/ restarts > 0 /\ hpc = "stopped" /\ ~event
  /\ cpc = "rangeBody" => Host("body")
  /\ cpc = "rangeResp" =>
       /\ arrived.kind = "nothing" \/ IsReply(arrived, "range")
       /\ Host(IF event THEN "rangeAck" ELSE "resp")
  /\ cpc = "rangeGo" => Host("rangeAck")
DataTurn ==
  cpc = "rangeData" =>
    \/ hpc = "stream"
    \/ hpc = "header" /\ (restarts > 0 \/ (Past /\ Streamed))
    \/ restarts > 0 /\ hpc = "ack" /\ dst = <<>> /\ ~event
    \/ restarts > 0 /\ hpc = "body"
Turn == Unread => NoMessage /\ ListTurn /\ CallerTurn /\ RangeTurn /\ DataTurn

SessionInv == Types /\ Endpoint /\ Request /\ Fresh /\ DstKept /\ Turn /\ RangeIntact

-----------------------------------------------------------------------------
(* Names. *)
LEMMA ClientNames ==
  /\ Writing = {"listReq", "listAck", "rangeReq", "rangeBody", "rangeGo", "exitReq"}
  /\ AfterWrite["listReq"] = "listResp" /\ AfterWrite["listAck"] = "listData"
  /\ AfterWrite["rangeReq"] = "rangeAck" /\ AfterWrite["rangeBody"] = "rangeResp"
  /\ AfterWrite["rangeGo"] = "rangeData" /\ AfterWrite["exitReq"] = "exitResp"
  BY DEF Writing, AfterWrite

LEMMA HostNames ==
  /\ Sending = {"listResp", "listData", "ack", "resp", "stream", "exitResp"}
  /\ AfterSend["listResp"] = IF ListLen = 0 THEN "header" ELSE "listAck"
  /\ AfterSend["listData"] = "header" /\ AfterSend["ack"] = "body"
  /\ AfterSend["resp"] = "rangeAck" /\ AfterSend["stream"] = "stream"
  /\ AfterSend["exitResp"] = "stopped"
  /\ Serve["list"] = "listResp" /\ Serve["range"] = "ack" /\ Serve["exit"] = "exitResp"
  BY DEF Sending, AfterSend, Serve

LEMMA NoMessages == Nothing.kind = "nothing" /\ Junk.kind = "junk"
  BY DEF Nothing, Junk

LEMMA Lengths ==
  /\ Segment \in Nat \ {0} /\ FileLen \in Nat /\ ListLen \in Nat /\ MaxCalls \in Nat
  /\ MaxRestarts \in Nat /\ MaxTimeouts \in Nat /\ MaxFailures \in Nat
  BY SegmentAssumption, LengthsAssumption, UsbBoundsAssumption

(* Sizes. *)
LEMMA LeastOfTwo ==
  ASSUME NEW a \in Int, NEW b \in Int
  PROVE  Min({a, b}) = IF a <= b THEN a ELSE b
<1>1. \E x \in {a, b} : \A y \in {a, b} : x <= y
  OBVIOUS
<1>2. Min({a, b}) \in {a, b} /\ \A y \in {a, b} : Min({a, b}) <= y
  BY <1>1 DEF Min
<1> QED
  BY <1>2

LEMMA LeastOfThree ==
  ASSUME NEW a \in Int, NEW b \in Int, NEW c \in Int
  PROVE  /\ Min({a, b, c}) \in {a, b, c}
         /\ Min({a, b, c}) <= a /\ Min({a, b, c}) <= b /\ Min({a, b, c}) <= c
<1>1. \E x \in {a, b, c} : \A y \in {a, b, c} : x <= y
  OBVIOUS
<1> QED
  BY <1>1 DEF Min

LEMMA ChunkShape ==
  ASSUME Types
  PROVE  /\ ChunkLen \in Int /\ ChunkLen <= Segment
         /\ ChunkLen <= hlen - hsent /\ ChunkLen <= FileLen - (hoff + hsent)
         /\ ChunkLen <= 0 <=> Past
<1>1. hlen \in Nat /\ hsent \in Nat /\ hoff \in Nat /\ Segment \in Nat \ {0} /\ FileLen \in Nat
  BY Lengths DEF Types
<1>2. PICK a \in Int, b \in Int, c \in Int :
        a = Segment /\ b = hlen - hsent /\ c = FileLen - (hoff + hsent)
  BY <1>1
<1>3. ChunkLen = Min({a, b, c})
  BY <1>2 DEF ChunkLen
<1>4. ChunkLen \in {a, b, c} /\ ChunkLen <= a /\ ChunkLen <= b /\ ChunkLen <= c
  BY <1>3, LeastOfThree
<1>5. Past <=> b <= 0 \/ c <= 0
  BY <1>1, <1>2 DEF Past
<1> QED
  BY <1>1, <1>2, <1>4, <1>5

LEMMA WantShape ==
  ASSUME Types
  PROVE  /\ Reads => Want \in Nat
         /\ cpc = "rangeData" /\ Len(dst) < toRead =>
              /\ Want \in 1..toRead - Len(dst)
              /\ Want = Segment \/ Want = toRead - Len(dst)
<1>1. toRead \in Nat /\ Len(dst) \in Nat /\ Segment \in Nat \ {0}
  BY Lengths DEF Types
<1>2. CASE cpc = "rangeData"
  <2>1. PICK b \in Int : b = toRead - Len(dst)
    BY <1>1
  <2>2. Want = Min({Segment, b})
    BY <1>2, <2>1, Zenon DEF Want
  <2>3. Want = IF Segment <= b THEN Segment ELSE b
    BY <1>1, <2>2, LeastOfTwo
  <2>4. Reads => Len(dst) < toRead
    BY <1>1, <1>2 DEF Reads, PayloadIn
  <2> QED
    BY <1>1, <2>1, <2>3, <2>4
<1>3. CASE cpc = "listData"
  <2>1. Want = toRead
    BY <1>3, Zenon DEF Want
  <2> QED
    BY <1>1, <1>3, <2>1
<1>4. CASE cpc \notin {"rangeData", "listData"}
  <2>1. Want = 0
    BY <1>4, Zenon DEF Want, HeaderRoom
  <2> QED
    BY <1>4, <2>1
<1> QED
  BY <1>2, <1>3, <1>4

-----------------------------------------------------------------------------
(* The steps, as the invariant sees them. *)

(* What the client writes. *)
LEMMA OutgoingShape ==
  ASSUME cpc \in Writing
  PROVE  /\ cpc = "rangeBody" => /\ Outgoing.kind = "body" /\ Outgoing.off = offset
                                 /\ Outgoing.n = len
         /\ cpc # "rangeBody" => Outgoing.kind = "header" /\ Outgoing.id \in Replies
         /\ cpc \in {"listReq", "listAck"} => Outgoing.id = "list"
         /\ cpc \in {"rangeReq", "rangeGo"} => Outgoing.id = "range"
         /\ cpc = "exitReq" => Outgoing.id = "exit"
         /\ cpc \in {"listReq", "rangeReq", "exitReq"} => Outgoing.type = "request"
<1>1. CASE cpc = "rangeBody"
  <2>1. Outgoing = Body(offset, len, call)
    BY <1>1, Zenon DEF Outgoing
  <2> QED
    BY <1>1, <2>1 DEF Body
<1>2. CASE cpc = "listReq"
  <2>1. Outgoing = Header("request", "list", 0, call)
    BY <1>2, Zenon DEF Outgoing
  <2> QED
    BY <1>2, <2>1 DEF Header, Replies
<1>3. CASE cpc = "listAck"
  <2>1. Outgoing = Header("ack", "list", toRead, call)
    BY <1>3, Zenon DEF Outgoing
  <2> QED
    BY <1>3, <2>1 DEF Header, Replies
<1>4. CASE cpc = "rangeReq"
  <2>1. Outgoing = Header("request", "range", 0, call)
    BY <1>4, Zenon DEF Outgoing
  <2> QED
    BY <1>4, <2>1 DEF Header, Replies
<1>5. CASE cpc = "rangeGo"
  <2>1. Outgoing = Header("ack", "range", toRead, call)
    BY <1>5, Zenon DEF Outgoing
  <2> QED
    BY <1>5, <2>1 DEF Header, Replies
<1>6. CASE cpc = "exitReq"
  <2>1. Outgoing = Header("request", "exit", 0, call)
    BY <1>6, Zenon DEF Outgoing
  <2> QED
    BY <1>6, <2>1 DEF Header, Replies
<1> QED
  BY <1>1, <1>2, <1>3, <1>4, <1>5, <1>6, ClientNames

(* How the host takes a write. *)
LEMMA HostHears ==
  ASSUME Types, ClientWrites
  PROVE  /\ hpc \in {"header", "body", "listAck", "rangeAck"}
         /\ hpc = "header" => hpc' \in {"header", "listResp", "ack", "exitResp"}
         /\ hpc = "body" => hpc' \in {"resp", "header", "stopped"}
         /\ hpc = "listAck" => hpc' = "listData"
         /\ hpc = "rangeAck" => hpc' = "stream" /\ hsent' = 0 /\ UNCHANGED <<hoff, hlen>>
         /\ hoff' \in Nat /\ hlen' \in Nat /\ hsent' \in Nat /\ restarts' = restarts
<1>1. cpc \in Writing /\ HostReads(OnTheBus)
  BY DEF ClientWrites
<1>2. /\ OnTheBus.kind = "header" => OnTheBus.id \in Replies
      /\ OnTheBus.kind = "body" => OnTheBus.off \in Nat /\ OnTheBus.n \in Nat
  <2>1. CASE page = Nothing
    <3>1. OnTheBus = Outgoing
      BY <2>1 DEF OnTheBus
    <3> QED
      BY <1>1, <3>1, OutgoingShape DEF Types
  <2>2. CASE page # Nothing
    BY <2>2 DEF OnTheBus, Types
  <2> QED
    BY <2>1, <2>2
<1>3. PICK m : m = OnTheBus
  OBVIOUS
<1>4. hoff \in Nat /\ hlen \in Nat /\ hsent \in Nat
  BY DEF Types
<1>5. CASE HostReadsHeader(m)
  BY <1>2, <1>3, <1>4, <1>5, HostNames DEF HostReadsHeader, Replies
<1>6. CASE HostReadsBody(m)
  BY <1>2, <1>3, <1>4, <1>6 DEF HostReadsBody
<1>7. CASE HostReadsAck
  BY <1>4, <1>7 DEF HostReadsAck
<1> QED
  BY <1>1, <1>3, <1>5, <1>6, <1>7 DEF HostReads

(* And if nothing has come in over it. *)
LEMMA HostHearsAll ==
  ASSUME Types, ClientWrites, page = Nothing
  PROVE  /\ hpc = "header" =>
              /\ cpc = "listReq" => hpc' = "listResp"
              /\ cpc = "listAck" => hpc' \in {"listResp", "header"}
              /\ cpc = "rangeReq" => hpc' = "ack"
              /\ cpc = "rangeBody" => hpc' = "header"
              /\ cpc = "rangeGo" => hpc' \in {"ack", "header"}
              /\ cpc = "exitReq" => hpc' = "exitResp"
         /\ hpc = "body" =>
              /\ cpc = "rangeBody" => hpc' = "resp" /\ hoff' = offset /\ hlen' = len
              /\ cpc # "rangeBody" => hpc' \in {"header", "stopped"}
<1>1. cpc \in Writing /\ HostReads(OnTheBus)
  BY DEF ClientWrites
<1>2. OnTheBus = Outgoing
  BY DEF OnTheBus
<1>3. PICK m : m = Outgoing
  OBVIOUS
<1>4. /\ cpc = "rangeBody" => m.kind = "body" /\ m.off = offset /\ m.n = len
      /\ cpc # "rangeBody" => m.kind = "header"
      /\ cpc \in {"listReq", "listAck"} => m.id = "list"
      /\ cpc \in {"rangeReq", "rangeGo"} => m.id = "range"
      /\ cpc = "exitReq" => m.id = "exit"
      /\ cpc \in {"listReq", "rangeReq", "exitReq"} => m.type = "request"
  BY <1>1, <1>3, OutgoingShape
<1>5. CASE HostReadsHeader(m)
  BY <1>1, <1>4, <1>5, HostNames, ClientNames DEF HostReadsHeader
<1>6. CASE HostReadsBody(m)
  BY <1>1, <1>4, <1>6 DEF HostReadsBody
<1>7. CASE HostReadsAck
  BY <1>7 DEF HostReadsAck
<1> QED
  BY <1>1, <1>2, <1>3, <1>5, <1>6, <1>7 DEF HostReads

(* What the host sends, and where that leaves it. *)
LEMMA HostSays ==
  ASSUME Types, HostSends
  PROVE  \E m, n :
    /\ Deliver(m, n, cpc \in Writing) /\ n \in Nat /\ m.n \in Nat
    /\ m.kind = "payload" \/ (m.kind = "header" /\ m.id \in Replies)
    /\ hpc \in Sending /\ hpc' = AfterSend[hpc]
    /\ UNCHANGED <<cpc, call, offset, len, toRead, dst, hoff, hlen, restarts>>
    /\ hpc = "listResp" => m.kind = "header" /\ m.id = "list" /\ m.n = ListLen /\ n = 0
    /\ hpc = "listData" => m.kind = "payload" /\ m.n = ListLen /\ n = ListLen
    /\ hpc \in {"ack", "resp"} => m.kind = "header" /\ m.id = "range" /\ n = 0
    /\ hpc = "resp" => m.n = hlen
    /\ hpc = "stream" => /\ m.kind = "payload" /\ m.of = "file" /\ m.from = hoff + hsent
                         /\ m.n = ChunkLen /\ n = ChunkLen /\ ChunkLen > 0
                         /\ hsent' = hsent + ChunkLen
    /\ hpc = "exitResp" => m.kind = "header" /\ m.id = "exit" /\ n = 0
    /\ hpc # "stream" => hsent' = hsent
<1>1. /\ hpc \in Sending /\ (hpc = "stream" => ChunkLen > 0)
      /\ hpc' = AfterSend[hpc] /\ UNCHANGED <<cpc, call, offset, len, toRead, dst, hoff, hlen, restarts>>
      /\ hsent' = IF hpc = "stream" THEN hsent + ChunkLen ELSE hsent
  BY DEF HostSends, HostHasMessage, client
<1>2. PICK m, n :
        /\ m = HostMessage
        /\ n = IF hpc = "stream" THEN ChunkLen ELSE IF hpc = "listData" THEN ListLen ELSE HeaderRoom
  OBVIOUS
<1>3. Deliver(m, n, cpc \in Writing)
  BY <1>2 DEF HostSends
<1>4. ChunkLen \in Int /\ ListLen \in Nat /\ hlen \in Nat /\ HeaderRoom = 0
  BY ChunkShape, Lengths DEF Types, HeaderRoom
<1>5. CASE hpc = "listResp"
  <2>1. m = Header("response", "list", ListLen, hcall)
    BY <1>2, <1>5, Zenon DEF HostMessage
  <2>2. m.kind = "header" /\ m.id = "list" /\ m.n = ListLen /\ n = 0
    BY <1>2, <1>4, <1>5, <2>1 DEF Header
  <2> QED
    BY <1>1, <1>3, <1>4, <1>5, <2>2 DEF Replies
<1>6. CASE hpc = "listData"
  <2>1. m = Payload("list", 0, ListLen)
    BY <1>2, <1>6, Zenon DEF HostMessage
  <2>2. m.kind = "payload" /\ m.n = ListLen /\ n = ListLen
    BY <1>2, <1>4, <1>6, <2>1 DEF Payload
  <2> QED
    BY <1>1, <1>3, <1>4, <1>6, <2>2
<1>7. CASE hpc = "ack"
  <2>1. m = Header("ack", "range", 0, hcall)
    BY <1>2, <1>7, Zenon DEF HostMessage
  <2>2. m.kind = "header" /\ m.id = "range" /\ m.n = 0 /\ n = 0
    BY <1>2, <1>4, <1>7, <2>1 DEF Header
  <2> QED
    BY <1>1, <1>3, <1>4, <1>7, <2>2 DEF Replies
<1>8. CASE hpc = "resp"
  <2>1. m = Header("response", "range", hlen, hcall)
    BY <1>2, <1>8, Zenon DEF HostMessage
  <2>2. m.kind = "header" /\ m.id = "range" /\ m.n = hlen /\ n = 0
    BY <1>2, <1>4, <1>8, <2>1 DEF Header
  <2> QED
    BY <1>1, <1>3, <1>4, <1>8, <2>2 DEF Replies
<1>9. CASE hpc = "stream"
  <2>1. m = Payload("file", hoff + hsent, ChunkLen)
    BY <1>2, <1>9, Zenon DEF HostMessage
  <2>2. /\ m.kind = "payload" /\ m.of = "file" /\ m.from = hoff + hsent /\ m.n = ChunkLen
        /\ n = ChunkLen
    BY <1>2, <1>4, <1>9, <2>1 DEF Payload
  <2> QED
    BY <1>1, <1>3, <1>4, <1>9, <2>2
<1>10. CASE hpc = "exitResp"
  <2>1. m = Header("response", "exit", 0, hcall)
    BY <1>2, <1>10, Zenon DEF HostMessage
  <2>2. m.kind = "header" /\ m.id = "exit" /\ m.n = 0 /\ n = 0
    BY <1>2, <1>4, <1>10, <2>1 DEF Header
  <2> QED
    BY <1>1, <1>3, <1>4, <1>10, <2>2 DEF Replies
<1> QED
  BY <1>1, <1>5, <1>6, <1>7, <1>8, <1>9, <1>10, HostNames

(* What a message, or none, does to the call it is read in. *)
LEMMA TakesShape ==
  ASSUME Types, Gaining, NEW m, m = arrived \/ m = Nothing, Takes(m)
  PROVE  /\ cpc \in Reading /\ UNCHANGED <<call, offset, len>>
         /\ toRead' \in Nat /\ dst' \in Seq(UnitSet)
         /\ cpc # "rangeData" => dst' = dst
         /\ cpc \notin {"listResp", "rangeResp"} => toRead' = toRead
         /\ cpc = "listResp" =>
              \/ IsReply(m, "list") /\ m.n > 0 /\ cpc' = "listAck" /\ toRead' = m.n
              \/ IsReply(m, "list") /\ m.n = 0 /\ cpc' = "returned"
              \/ ~IsReply(m, "list") /\ cpc' = "over"
         /\ cpc = "listData" =>
              cpc' = IF m.kind = "payload" /\ m.n = toRead THEN "returned" ELSE "over"
         /\ cpc = "rangeAck" => cpc' = IF IsReply(m, "range") THEN "rangeBody" ELSE "returned"
         /\ cpc = "rangeResp" =>
              \/ /\ IsReply(m, "range") /\ cpc' = "rangeGo"
                 /\ toRead' = IF m.n <= len THEN m.n ELSE len
              \/ ~IsReply(m, "range") /\ cpc' = "returned" /\ toRead' = toRead
         /\ cpc = "rangeData" =>
              \/ m.kind = "nothing" /\ cpc' = "returned" /\ dst' = dst
              \/ /\ m.kind = "payload" /\ m = arrived /\ cpc' = cpc
                 /\ Len(dst') = Len(dst) + m.n
                 /\ \A k \in 1..Len(dst) : dst'[k] = dst[k]
                 /\ \A k \in Len(dst) + 1..Len(dst) + m.n : dst'[k] = <<"file", offset + k - 1>>
              \/ /\ m.kind = "header" /\ m = arrived /\ cpc' = cpc /\ restarts > 0
                 /\ Len(dst') = Len(dst) + 1
                 /\ \A k \in 1..Len(dst) : dst'[k] = dst[k]
                 /\ dst'[Len(dst) + 1] = <<"header", 0>>
         /\ cpc = "exitResp" => cpc' = "over"
<1>0. /\ toRead \in Nat /\ len \in Nat /\ offset \in Nat /\ dst \in Seq(UnitSet) /\ Len(dst) \in Nat
      /\ m.kind \in {"nothing", "junk", "header", "payload"} /\ (m.kind = "header" => m.n \in Nat)
  BY NoMessages DEF Types
<1>1. UNCHANGED <<call, offset, len>>
  BY DEF Takes
<1>2. CASE ListReply(m)
  BY <1>0, <1>1, <1>2 DEF ListReply, Reading, IsReply
<1>3. CASE ListPayload(m)
  BY <1>0, <1>1, <1>3 DEF ListPayload, Reading
<1>4. CASE RangeAck(m)
  BY <1>0, <1>1, <1>4 DEF RangeAck, Reading
<1>5. CASE RangeResponse(m)
  <2>1. m.kind = "header" => Min({m.n, len}) = IF m.n <= len THEN m.n ELSE len
    BY <1>0, LeastOfTwo
  <2> QED
    BY <1>0, <1>1, <1>5, <2>1 DEF RangeResponse, Reading, IsReply
<1>6. CASE RangePayload(m)
  <2>1. cpc = "rangeData" /\ toRead' = toRead /\ cpc \in Reading
    BY <1>6 DEF RangePayload, Reading
  <2>2. CASE m.kind = "nothing"
    BY <1>0, <1>1, <1>6, <2>1, <2>2 DEF RangePayload
  <2>3. CASE m.kind = "payload"
    <3>1. /\ m = arrived /\ m.of = "file" /\ m.from = offset + Len(dst) /\ m.n \in Nat
      BY <2>1, <2>3, NoMessages DEF Gaining, Types
    <3>2. PICK a \in Nat : a = m.n
      BY <3>1
    <3>3. PICK new : new = [k \in 1..a |-> <<"file", offset + Len(dst) + k - 1>>]
      OBVIOUS
    <3>4. Units(m) = new
      BY <2>3, <3>1, <3>2, <3>3 DEF Units
    <3>5. new \in Seq(UnitSet) /\ Len(new) = a
      <4>1. \A k \in 1..a : <<"file", offset + Len(dst) + k - 1>> \in UnitSet
        BY <1>0 DEF UnitSet
      <4> QED
        BY <3>3, <4>1
    <3>6. dst' = dst \o new /\ cpc' = cpc
      BY <1>6, <2>3, <3>4 DEF RangePayload
    <3>7. dst' \in Seq(UnitSet) /\ Len(dst') = Len(dst) + a
      BY <1>0, <3>5, <3>6, ConcatProperties
    <3>8. \A k \in 1..Len(dst) : dst'[k] = dst[k]
      BY <1>0, <3>5, <3>6
    <3>9. ASSUME NEW k \in Len(dst) + 1..Len(dst) + a PROVE dst'[k] = <<"file", offset + k - 1>>
      <4>1. dst'[k] = new[k - Len(dst)]
        BY <1>0, <3>5, <3>6
      <4>2. PICK l \in 1..a : l = k - Len(dst)
        BY <1>0
      <4>3. new[l] = <<"file", offset + Len(dst) + l - 1>>
        BY <3>3
      <4>4. offset + Len(dst) + l - 1 = offset + k - 1
        BY <1>0, <4>2
      <4> QED
        BY <4>1, <4>2, <4>3, <4>4
    <3> QED
      BY <1>0, <1>1, <2>1, <2>3, <3>1, <3>2, <3>6, <3>7, <3>8, <3>9
  <2>4. CASE m.kind = "header"
    <3>1. m = arrived /\ restarts > 0
      BY <2>1, <2>4, NoMessages DEF Gaining
    <3>2. PICK new : new = <<<<"header", 0>>>>
      OBVIOUS
    <3>3. Units(m) = new
      BY <2>4, <3>2 DEF Units
    <3>4. new \in Seq(UnitSet) /\ Len(new) = 1 /\ new[1] = <<"header", 0>>
      BY <3>2 DEF UnitSet
    <3>5. dst' = dst \o new /\ cpc' = cpc
      BY <1>6, <2>4, <3>3 DEF RangePayload
    <3>6. /\ dst' \in Seq(UnitSet) /\ Len(dst') = Len(dst) + 1
          /\ \A k \in 1..Len(dst) : dst'[k] = dst[k]
          /\ dst'[Len(dst) + 1] = new[1]
      BY <1>0, <3>4, <3>5, ConcatProperties
    <3> QED
      BY <1>0, <1>1, <2>1, <2>4, <3>1, <3>4, <3>5, <3>6
  <2>5. m.kind # "junk"
    BY <2>1, NoMessages DEF Gaining
  <2> QED
    BY <1>0, <2>2, <2>3, <2>4, <2>5
<1>7. CASE ExitReply
  BY <1>0, <1>1, <1>7 DEF ExitReply, Reading
<1> QED
  BY <1>2, <1>3, <1>4, <1>5, <1>6, <1>7 DEF Takes

(* The URBs as a queue. *)
LEMMA Queue ==
  ASSUME Types
  PROVE  /\ Len(urbs) \in Nat /\ (urbs = <<>> <=> Len(urbs) = 0)
         /\ urbs # <<>> => /\ Tail(urbs) \in Seq(Nat) /\ Len(Tail(urbs)) = Len(urbs) - 1
                           /\ Head(urbs) \in Nat
         /\ \A n \in Nat : /\ Append(urbs, n) \in Seq(Nat)
                           /\ Len(Append(urbs, n)) = Len(urbs) + 1
                           /\ urbs = <<>> => Head(Append(urbs, n)) = n
<1>1. urbs \in Seq(Nat)
  BY DEF Types
<1>2. ASSUME NEW n \in Nat
      PROVE  /\ Append(urbs, n) \in Seq(Nat) /\ Len(Append(urbs, n)) = Len(urbs) + 1
             /\ urbs = <<>> => Head(Append(urbs, n)) = n
  <2>1. /\ Append(urbs, n) \in Seq(Nat) /\ Append(urbs, n) # <<>>
        /\ Len(Append(urbs, n)) = Len(urbs) + 1 /\ Append(urbs, n)[Len(urbs) + 1] = n
    BY <1>1, AppendProperties
  <2>2. urbs = <<>> => Len(urbs) = 0
    OBVIOUS
  <2>3. Head(Append(urbs, n)) = Append(urbs, n)[1]
    BY <2>1
  <2> QED
    BY <2>1, <2>2, <2>3
<1>3. urbs # <<>> => /\ Tail(urbs) \in Seq(Nat) /\ Len(Tail(urbs)) = Len(urbs) - 1
                     /\ Head(urbs) \in Nat
  BY <1>1, HeadTailProperties
<1>4. Len(urbs) \in Nat /\ (urbs = <<>> <=> Len(urbs) = 0)
  BY <1>1, EmptySeq
<1> QED
  BY <1>2, <1>3, <1>4

(* A step is one of these. *)
LEMMA MoveCases ==
  ASSUME [Moves]_vars
  PROVE  \/ ClientWrites \/ ClientWriteFails \/ PostRead
         \/ ReadReturns \/ ReadFails \/ ReadTimesOut
         \/ RangeEnds \/ AnyRange \/ SendExit
         \/ HostSends \/ HostStreamEnds \/ HostRestarts
         \/ UNCHANGED vars
<1>1. FileRange => AnyRange
  <2>1. \A off \in 0..FileLen : off \in Nat
    BY Lengths
  <2>2. \A n \in 1..FileLen : n \in Nat /\ n > 0
    BY Lengths
  <2> QED
    BY <2>1, <2>2 DEF FileRange, AnyRange
<1> QED
  BY <1>1 DEF Moves, Next, ClientStep, TransferFails, HostStep

LEMMA RestartShape ==
  ASSUME HostRestarts
  PROVE  /\ hpc # "stopped" /\ hpc' = "header" /\ restarts' = restarts + 1
         /\ restarts < MaxRestarts
         /\ UNCHANGED <<call, offset, len, toRead, dst, hoff, hlen, hsent>>
         /\ \/ UNCHANGED <<urbs, event, waiting, arrived, page, timeouts, failures, cpc>>
            \/ BusReset /\ cpc \notin Writing /\ cpc' = cpc
            \/ BusReset /\ cpc \in Writing /\ cpc' = AfterWrite[cpc]
  BY DEF HostRestarts, client, usb

-----------------------------------------------------------------------------
(* The endpoint. *)
LEMMA TypesNext == Types /\ Gaining /\ [Moves]_vars => Types'
<1> SUFFICES ASSUME Types, Gaining, [Moves]_vars PROVE Types'
  OBVIOUS
<1> USE ClientNames, HostNames, NoMessages DEF Reading
<1>1. CASE ClientWrites
  <2>1. /\ hpc' \in {"header", "listResp", "ack", "exitResp", "resp", "stopped", "listData", "stream"}
        /\ hoff' \in Nat /\ hlen' \in Nat /\ hsent' \in Nat /\ restarts' = restarts
    BY <1>1, HostHears
  <2> QED
    BY <1>1, <2>1 DEF Types, ClientWrites, Written
<1>2. CASE ClientWriteFails
  <2>1. failures' \in 0..MaxFailures
    BY <1>2, Lengths DEF Types, ClientWriteFails, PostFails
  <2> QED
    BY <1>2, <2>1 DEF Types, ClientWriteFails, PostFails, host
<1>3. CASE PostRead
  <2>1. urbs' \in Seq(Nat)
    BY <1>3, WantShape, Queue DEF PostRead, PostBuffer
  <2> QED
    BY <1>3, <2>1 DEF Types, PostRead, PostBuffer, client, host
<1>4. ASSUME NEW m, m = arrived \/ m = Nothing, Takes(m), UNCHANGED <<urbs, page, host>>,
             event' \in BOOLEAN, waiting' \in BOOLEAN, arrived' \in {Nothing, arrived},
             timeouts' \in 0..MaxTimeouts, failures' \in 0..MaxFailures
      PROVE  Types'
  <2>1. /\ UNCHANGED <<call, offset, len>> /\ toRead' \in Nat /\ dst' \in Seq(UnitSet)
        /\ cpc' \in Writing \cup Reading \cup {"returned", "over"}
    BY <1>4, TakesShape
  <2> QED
    BY <1>4, <2>1 DEF Types, host
<1>5. CASE ReadReturns
  BY <1>4, <1>5 DEF ReadReturns, WaitReturns, Types
<1>6. CASE ReadFails
  <2>1. failures' \in 0..MaxFailures
    BY <1>6, Lengths DEF Types, ReadFails, PostFails, ReportFails
  <2> QED
    BY <1>4, <1>6, <2>1 DEF ReadFails, PostFails, ReportFails, Types
<1>7. CASE ReadTimesOut
  <2>1. timeouts' \in 0..MaxTimeouts
    BY <1>7, Lengths DEF Types, ReadTimesOut, WaitTimesOut
  <2>2. /\ UNCHANGED <<call, offset, len>> /\ toRead' \in Nat /\ dst' \in Seq(UnitSet)
        /\ cpc' \in Writing \cup Reading \cup {"returned", "over"}
    BY <1>7, TakesShape DEF ReadTimesOut
  <2>3. urbs' \in Seq(Nat)
    BY <1>7 DEF ReadTimesOut, WaitTimesOut
  <2> QED
    BY <1>7, <2>1, <2>2, <2>3 DEF ReadTimesOut, WaitTimesOut, Types, host
<1>8. CASE RangeEnds
  BY <1>8 DEF Types, RangeEnds, usb, host
<1>9. CASE AnyRange
  BY <1>9 DEF Types, AnyRange, ReadRange, usb, host
<1>10. CASE SendExit
  BY <1>10 DEF Types, SendExit, usb, host
<1>11. CASE HostSends
  <2>1. PICK m, n :
          /\ Deliver(m, n, cpc \in Writing) /\ m.n \in Nat
          /\ m.kind = "payload" \/ (m.kind = "header" /\ m.id \in Replies)
          /\ hpc \in Sending /\ hpc' = AfterSend[hpc]
          /\ UNCHANGED <<cpc, call, offset, len, toRead, dst, hoff, hlen, restarts>>
          /\ hsent' = hsent \/ (hsent' = hsent + ChunkLen /\ ChunkLen > 0)
    BY <1>11, HostSays
  <2>2. hsent' \in Nat
    BY <2>1, ChunkShape DEF Types
  <2>3. urbs' \in Seq(Nat)
    BY <2>1, Queue DEF Deliver
  <2>4. arrived' \in {arrived, m, Junk} /\ page' \in {page, m}
    BY <2>1 DEF Deliver
  <2> QED
    BY <2>1, <2>2, <2>3, <2>4 DEF Types, Deliver
<1>12. CASE HostStreamEnds
  BY <1>12 DEF Types, HostStreamEnds, usb, client
<1>13. CASE HostRestarts
  <2>1. restarts' \in 0..MaxRestarts
    BY <1>13, RestartShape, Lengths DEF Types
  <2>2. CASE BusReset
    BY <1>13, <2>1, <2>2, RestartShape DEF Types, BusReset
  <2> QED
    BY <1>13, <2>1, <2>2, RestartShape DEF Types
<1>14. CASE UNCHANGED vars
  BY <1>14 DEF Types, vars, usb, client, host
<1> QED
  BY <1>1, <1>2, <1>3, <1>5, <1>6, <1>7, <1>8, <1>9, <1>10, <1>11, <1>12, <1>13, <1>14, MoveCases

(* What a read does to the endpoint. *)
LEMMA ReadShape ==
  ASSUME ReadReturns \/ ReadFails \/ ReadTimesOut
  PROVE  \E m :
    /\ Takes(m) /\ waiting' = FALSE /\ UNCHANGED <<page, host>>
    /\ \/ waiting /\ event /\ ~event' /\ arrived' = Nothing
          /\ UNCHANGED <<urbs, timeouts>>
          /\ \/ m = arrived /\ UNCHANGED failures
             \/ m = Nothing /\ failures' = failures + 1
       \/ m = Nothing /\ ~waiting /\ failures' = failures + 1
          /\ UNCHANGED <<urbs, event, arrived, timeouts>>
       \/ m = Nothing /\ waiting /\ timeouts' = timeouts + 1 /\ urbs' = <<>> /\ event' \in {event, TRUE}
          /\ arrived' = Nothing /\ UNCHANGED failures
<1>1. CASE ReadReturns
  BY <1>1 DEF ReadReturns, WaitReturns
<1>2. CASE ReadFails
  <2>1. Takes(Nothing) /\ UNCHANGED host
    BY <1>2 DEF ReadFails
  <2>2. CASE PostFails
    BY <2>1, <2>2 DEF PostFails
  <2>3. CASE ReportFails
    BY <2>1, <2>3 DEF ReportFails
  <2> QED
    BY <1>2, <2>2, <2>3 DEF ReadFails
<1>3. CASE ReadTimesOut
  BY <1>3 DEF ReadTimesOut, WaitTimesOut
<1> QED
  BY <1>1, <1>2, <1>3

LEMMA EndpointNext ==
  Types /\ Gaining /\ Endpoint /\ [Moves]_vars => Endpoint'
<1> SUFFICES ASSUME Types, Gaining, Pending, CleanSoFar, ArrivedLast, WaitReads, PageLate, [Moves]_vars
             PROVE  Endpoint'
  BY DEF Endpoint
<1> USE ClientNames, NoMessages DEF Reading, Settled
<1>0. /\ Len(urbs) \in Nat /\ (urbs = <<>> <=> Len(urbs) = 0) /\ timeouts \in Nat
      /\ event \in BOOLEAN /\ waiting \in BOOLEAN
  BY Queue, Lengths DEF Types
<1>1. ASSUME UNCHANGED <<urbs, event, waiting, arrived, page, timeouts>>,
             cpc' \in Settled => cpc \in Settled \/ timeouts = 0,
             page # Nothing => cpc' = cpc, waiting => cpc' = cpc
      PROVE  Endpoint'
  BY <1>1 DEF Endpoint, Pending, CleanSoFar, ArrivedLast, WaitReads, PageLate, Clean, Signals
<1>2. CASE ClientWrites
  <2>1. /\ cpc \in Writing /\ cpc' = AfterWrite[cpc] /\ page' = Nothing
        /\ UNCHANGED <<urbs, event, waiting, arrived, timeouts>>
    BY <1>2 DEF ClientWrites, Written
  <2>2. ~waiting /\ (cpc' \in Settled => cpc \in Settled)
    BY <2>1 DEF WaitReads
  <2> QED
    BY <2>1, <2>2
       DEF Endpoint, Pending, CleanSoFar, ArrivedLast, WaitReads, PageLate, Clean, Signals
<1>3. CASE ClientWriteFails
  <2>1. /\ cpc \in Writing /\ cpc' = AfterWrite[cpc] /\ page = Nothing
        /\ UNCHANGED <<urbs, event, waiting, arrived, page, timeouts>>
    BY <1>3 DEF ClientWriteFails, PostFails
  <2> QED
    BY <1>1, <2>1 DEF WaitReads
<1>4. CASE PostRead
  <2>1. /\ Reads /\ ~waiting /\ waiting' /\ UNCHANGED <<event, page, timeouts, cpc>>
        /\ arrived' = Nothing /\ urbs' = Append(urbs, Want)
    BY <1>4 DEF PostRead, PostBuffer, client
  <2>2. Len(urbs') = Len(urbs) + 1
    BY <2>1, WantShape, Queue
  <2>3. waiting' = TRUE
    BY <1>4 DEF PostRead, PostBuffer
  <2>4. Pending' /\ CleanSoFar'
    BY <1>0, <2>1, <2>2, <2>3 DEF Pending, CleanSoFar, Clean, Signals
  <2> QED
    BY <2>1, <2>4 DEF Endpoint, ArrivedLast, WaitReads, PageLate, Reads
<1>5. CASE ReadReturns \/ ReadFails \/ ReadTimesOut
  <2>1. PICK m :
          /\ Takes(m) /\ waiting' = FALSE /\ UNCHANGED <<page, host>>
          /\ \/ waiting /\ event /\ ~event' /\ arrived' = Nothing
                /\ UNCHANGED <<urbs, timeouts>>
                /\ \/ m = arrived /\ UNCHANGED failures
                   \/ m = Nothing /\ failures' = failures + 1
             \/ m = Nothing /\ ~waiting /\ failures' = failures + 1
                /\ UNCHANGED <<urbs, event, arrived, timeouts>>
             \/ m = Nothing /\ waiting /\ timeouts' = timeouts + 1 /\ urbs' = <<>>
                /\ event' \in {event, TRUE} /\ arrived' = Nothing /\ UNCHANGED failures
    BY <1>5, ReadShape
  <2>2. cpc \in Reading /\ page = Nothing
    BY <2>1, TakesShape DEF PageLate
  <2>3. m.kind = "nothing" => cpc' \notin Settled
    BY <2>1, TakesShape DEF IsReply
  <2>4. Pending'
    <3>0. /\ Len(urbs) + (IF event THEN 1 ELSE 0) <= IF waiting THEN 2 ELSE 1
          /\ waiting' = FALSE
      BY <2>1 DEF Pending, Signals
    <3>1. CASE waiting /\ event /\ ~event' /\ UNCHANGED urbs
      BY <1>0, <3>0, <3>1 DEF Pending, Signals
    <3>2. CASE ~waiting /\ UNCHANGED <<urbs, event>>
      BY <1>0, <3>0, <3>2 DEF Pending, Signals
    <3>3. CASE urbs' = <<>>
      <4>1. Len(urbs') = 0
        BY <3>3
      <4> QED
        BY <3>0, <4>1 DEF Pending, Signals
    <3> QED
      BY <2>1, <3>1, <3>2, <3>3
  <2>5. ArrivedLast'
    BY <2>1 DEF ArrivedLast
  <2>6. CleanSoFar'
    <3>1. CASE m = arrived /\ waiting /\ event /\ ~event' /\ UNCHANGED <<urbs, timeouts>>
      <4>1. cpc' \in Settled => Len(urbs) = 0
        <5>1. cpc' \in Settled => arrived.kind # "nothing"
          BY <2>3, <3>1
        <5> QED
          BY <1>0, <5>1 DEF ArrivedLast
      <4>2. timeouts = 0 => Len(urbs) = 0
        BY <1>0, <3>1 DEF CleanSoFar, Clean, Signals
      <4> QED
        BY <2>1, <3>1, <4>1, <4>2 DEF CleanSoFar, Clean, Signals
    <3>2. CASE m = Nothing /\ ~waiting /\ UNCHANGED <<urbs, event, timeouts>>
      BY <2>1, <2>3, <3>2 DEF CleanSoFar, Clean, Signals
    <3>3. CASE m = Nothing /\ timeouts' = timeouts + 1
      BY <1>0, <2>3, <3>3 DEF CleanSoFar
    <3>4. CASE m = Nothing /\ waiting /\ event /\ ~event' /\ UNCHANGED <<urbs, timeouts>>
      <4>1. timeouts = 0 => Len(urbs) = 0
        BY <1>0, <3>4 DEF CleanSoFar, Clean, Signals
      <4> QED
        BY <2>1, <2>3, <3>4, <4>1 DEF CleanSoFar, Clean, Signals
    <3> QED
      BY <2>1, <3>1, <3>2, <3>3, <3>4
  <2> QED
    BY <2>1, <2>2, <2>4, <2>5, <2>6 DEF Endpoint, WaitReads, PageLate
<1>6. CASE RangeEnds \/ AnyRange \/ SendExit
  <2>1. /\ UNCHANGED <<urbs, event, waiting, arrived, page, timeouts>>
        /\ cpc' \notin Settled /\ ~waiting /\ page = Nothing
    BY <1>6 DEF RangeEnds, AnyRange, ReadRange, SendExit, usb, WaitReads, PageLate
  <2> QED
    BY <1>1, <2>1
<1>7. CASE HostSends
  <2>1. PICK m, n : /\ Deliver(m, n, cpc \in Writing)
                    /\ UNCHANGED <<cpc>>
    BY <1>7, HostSays
  <2>2. /\ urbs # <<>> /\ event' = TRUE /\ UNCHANGED <<waiting, timeouts>>
        /\ Len(urbs') = Len(urbs) - 1 /\ urbs' \in Seq(Nat)
        /\ page' = page \/ cpc \in Writing
        /\ ~Awaited => arrived' = arrived
    BY <2>1, Queue DEF Deliver
  <2>3. urbs' = <<>> <=> Len(urbs') = 0
    BY <2>2, EmptySeq
  <2>4. Pending'
    BY <1>0, <2>2 DEF Pending, Signals
  <2>5. CleanSoFar'
    BY <1>0, <2>1, <2>2 DEF CleanSoFar, Clean, Signals
  <2>6. ArrivedLast'
    BY <1>0, <2>2, <2>3 DEF ArrivedLast, Awaited
  <2>7. PageLate'
    <3>1. CASE page' = page
      BY <2>1, <2>2, <3>1 DEF PageLate
    <3>2. CASE cpc \in Writing
      <4>1. ~waiting /\ Len(urbs) > 0
        BY <1>0, <2>2, <3>2 DEF WaitReads
      <4>2. timeouts # 0 /\ cpc \notin Settled
        BY <1>0, <4>1 DEF CleanSoFar, Clean, Signals
      <4> QED
        BY <1>0, <2>1, <2>2, <3>2, <4>2 DEF PageLate
    <3> QED
      BY <2>2, <3>1, <3>2
  <2> QED
    BY <2>1, <2>2, <2>4, <2>5, <2>6, <2>7 DEF Endpoint, WaitReads
<1>8. CASE HostStreamEnds
  BY <1>1, <1>8 DEF HostStreamEnds, usb, client
<1>9. CASE HostRestarts
  <2>1. CASE UNCHANGED <<urbs, event, waiting, arrived, page, timeouts, failures, cpc>>
    BY <1>1, <2>1
  <2>2. CASE BusReset /\ (cpc' = cpc \/ (cpc \in Writing /\ cpc' = AfterWrite[cpc]))
    <3>1. /\ urbs' = <<>> /\ arrived' = Nothing /\ page' = Nothing
          /\ event' = (event \/ urbs # <<>>) /\ UNCHANGED <<waiting, timeouts>>
      BY <2>2 DEF BusReset
    <3>2. cpc' \in Settled => cpc \in Settled
      BY <2>2
    <3>3. Len(urbs') = 0
      BY <3>1
    <3>4. Pending' /\ CleanSoFar'
      BY <1>0, <3>1, <3>2, <3>3 DEF Pending, CleanSoFar, Clean, Signals
    <3>5. WaitReads'
      BY <2>2, <3>1 DEF WaitReads
    <3> QED
      BY <3>1, <3>4, <3>5 DEF Endpoint, ArrivedLast, PageLate
  <2> QED
    BY <1>9, <2>1, <2>2, RestartShape
<1>10. CASE UNCHANGED vars
  BY <1>1, <1>10 DEF vars, usb, client
<1> QED
  BY <1>2, <1>3, <1>4, <1>5, <1>6, <1>7, <1>8, <1>9, <1>10, MoveCases

-----------------------------------------------------------------------------
(* The payload. *)

(* A step as its client sees it. *)
LEMMA ClientView ==
  ASSUME Types, Endpoint, [Moves]_vars
  PROVE  \/ /\ cpc \in Writing /\ cpc' = AfterWrite[cpc] /\ ~waiting'
            /\ UNCHANGED <<call, offset, len, toRead, dst>> /\ restarts' \in {restarts, restarts + 1}
         \/ (ReadReturns \/ ReadFails \/ ReadTimesOut) /\ restarts' = restarts
         \/ AnyRange /\ UNCHANGED <<waiting, restarts>>
         \/ /\ cpc = "rangeData" /\ PayloadIn /\ cpc' = "returned"
            /\ UNCHANGED <<waiting, call, offset, len, toRead, dst, restarts>>
         \/ /\ cpc = "returned" /\ cpc' = "exitReq" /\ call' = call + 1
            /\ UNCHANGED <<waiting, offset, len, toRead, dst, restarts>>
         \/ /\ cpc' = cpc /\ UNCHANGED <<call, offset, len, toRead, dst>>
            /\ (waiting' => waiting \/ Reads) /\ restarts' \in {restarts, restarts + 1}
<1> USE ClientNames DEF Reading
<1>0. cpc \in Writing => ~waiting
  BY DEF Endpoint, WaitReads
<1>1. CASE ClientWrites
  <2>1. restarts' = restarts
    BY <1>1, HostHears
  <2> QED
    BY <1>0, <1>1, <2>1 DEF ClientWrites, Written
<1>2. CASE ClientWriteFails
  BY <1>0, <1>2 DEF ClientWriteFails, PostFails, host
<1>3. CASE PostRead
  BY <1>3 DEF PostRead, PostBuffer, client, host
<1>4. CASE ReadReturns \/ ReadFails \/ ReadTimesOut
  BY <1>4 DEF ReadReturns, ReadFails, ReadTimesOut, host
<1>5. CASE RangeEnds
  BY <1>5 DEF RangeEnds, usb, host
<1>6. CASE AnyRange
  BY <1>6 DEF AnyRange, ReadRange, usb, host
<1>7. CASE SendExit
  BY <1>7 DEF SendExit, usb, host
<1>8. CASE HostSends
  BY <1>8 DEF HostSends, Deliver, client
<1>9. CASE HostStreamEnds
  BY <1>9 DEF HostStreamEnds, usb, client
<1>10. CASE HostRestarts
  <2>1. UNCHANGED waiting
    BY <1>10 DEF HostRestarts, usb, BusReset
  <2> QED
    BY <1>0, <1>10, <2>1, RestartShape
<1>11. CASE UNCHANGED vars
  BY <1>11 DEF vars, usb, client, host
<1> QED
  BY <1>1, <1>2, <1>3, <1>4, <1>5, <1>6, <1>7, <1>8, <1>9, <1>10, <1>11, MoveCases

LEMMA FreshNext ==
  Types /\ Endpoint /\ Gaining /\ Streaming /\ Fresh /\ [Moves]_vars => Fresh'
<1> SUFFICES ASSUME Types, Endpoint, Gaining, Streaming, Fresh, [Moves]_vars PROVE Fresh'
  OBVIOUS
<1> USE ClientNames DEF Reading, Settled
<1>1. CASE cpc \in Writing /\ cpc' = AfterWrite[cpc] /\ UNCHANGED <<call, offset, len, toRead, dst>>
  BY <1>1 DEF Fresh
<1>2. CASE ReadReturns \/ ReadFails \/ ReadTimesOut
  <2>1. PICK m : Takes(m) /\ (m = arrived \/ m = Nothing)
    BY <1>2 DEF ReadReturns, ReadFails, ReadTimesOut
  <2>2. /\ cpc \in Reading /\ UNCHANGED <<call, len>>
        /\ cpc # "rangeData" => dst' = dst
        /\ cpc \notin {"listResp", "rangeResp"} => toRead' = toRead
        /\ cpc = "listResp" => cpc' \in {"listAck", "returned", "over"}
        /\ cpc = "listData" => cpc' \in {"returned", "over"}
        /\ cpc = "rangeAck" => cpc' \in {"rangeBody", "returned"}
        /\ cpc = "rangeResp" => cpc' \in {"rangeGo", "returned"}
        /\ cpc = "rangeData" => cpc' \in {"rangeData", "returned"}
        /\ cpc = "exitResp" => cpc' = "over"
    BY <2>1, TakesShape
  <2>3. cpc = "rangeData" => toRead = len
    BY DEF Streaming
  <2> QED
    BY <2>2, <2>3 DEF Fresh
<1>3. CASE AnyRange
  <2>1. PICK off \in Nat, n \in Nat : (n > 0 \/ MaxRestarts = 0) /\ ReadRange(off, n)
    BY <1>3 DEF AnyRange
  <2> QED
    BY <2>1, Lengths DEF ReadRange, Fresh, Types
<1>4. CASE cpc = "rangeData" /\ cpc' = "returned" /\ UNCHANGED <<call, offset, len, toRead, dst>>
  BY <1>4 DEF Fresh, Streaming
<1>5. CASE cpc = "returned" /\ cpc' = "exitReq" /\ UNCHANGED <<offset, len, toRead, dst>>
  BY <1>5 DEF Fresh
<1>6. CASE cpc' = cpc /\ UNCHANGED <<call, offset, len, toRead, dst>>
  BY <1>6 DEF Fresh
<1> QED
  BY <1>1, <1>2, <1>3, <1>4, <1>5, <1>6, ClientView

(* What a read adds to dst. *)
LEMMA ReadAdds ==
  ASSUME Types, Endpoint, Gaining, Streaming, Fresh, DstKept, ReadReturns \/ ReadFails \/ ReadTimesOut
  PROVE  /\ Len(dst) \in Nat /\ Len(dst') \in Nat /\ waiting' = FALSE
         /\ UNCHANGED <<call, offset, len, restarts>>
         /\ \/ dst' = dst /\ (toRead' = toRead \/ dst = <<>>)
               /\ (cpc' = "rangeData" => FALSE)
               /\ (cpc' = "returned" /\ cpc # "rangeData" => dst = <<>>)
            \/ /\ cpc = "rangeData" /\ cpc' = "rangeData" /\ toRead' = toRead /\ toRead = len
               /\ \A k \in 1..Len(dst) : dst'[k] = dst[k]
               /\ \/ /\ Len(dst') <= len
                     /\ \A k \in Len(dst) + 1..Len(dst') : dst'[k] = <<"file", offset + k - 1>>
                  \/ /\ restarts > 0 /\ Len(dst') = Len(dst) + 1 /\ Len(dst) < toRead
                     /\ dst'[Len(dst) + 1] = <<"header", 0>>
<1> USE ClientNames, NoMessages DEF Reading
<1>1. PICK m : /\ Takes(m) /\ (m = arrived \/ m = Nothing) /\ waiting' = FALSE
               /\ UNCHANGED host
  BY ReadShape
<1>2. /\ Len(dst) \in Nat /\ Len(dst') \in Nat /\ UNCHANGED <<call, offset, len, restarts>>
  BY <1>1, TakesShape DEF Types, host
<1>3. CASE cpc # "rangeData"
  <2>1. dst' = dst /\ cpc' # "rangeData" /\ (cpc \notin {"listResp", "rangeResp"} => toRead' = toRead)
    BY <1>1, <1>3, TakesShape
  <2>2. cpc \in {"listResp", "rangeResp"} => dst = <<>>
    BY DEF Fresh
  <2>3. cpc' = "returned" => cpc \in {"listResp", "listData", "rangeAck", "rangeResp"}
    BY <1>1, <1>3, TakesShape
  <2> QED
    BY <1>1, <1>2, <1>3, <2>1, <2>2, <2>3 DEF Fresh
<1>4. CASE cpc = "rangeData" /\ m.kind = "nothing"
  BY <1>1, <1>2, <1>4, TakesShape
<1>5. CASE cpc = "rangeData" /\ m.kind = "payload"
  <2>1. m = arrived /\ toRead = len /\ m.n \in 1..len - Len(dst)
    BY <1>1, <1>5 DEF Gaining, Streaming
  <2>2. /\ cpc' = cpc /\ toRead' = toRead /\ Len(dst') = Len(dst) + m.n
        /\ \A k \in 1..Len(dst) : dst'[k] = dst[k]
        /\ \A k \in Len(dst) + 1..Len(dst) + m.n : dst'[k] = <<"file", offset + k - 1>>
    BY <1>1, <1>5, TakesShape
  <2>3. len \in Nat
    BY DEF Types
  <2> QED
    BY <1>1, <1>2, <1>5, <2>1, <2>2, <2>3
<1>6. CASE cpc = "rangeData" /\ m.kind = "header"
  <2>1. m = arrived /\ toRead = len
    BY <1>1, <1>6 DEF Streaming
  <2>2. Len(dst) < toRead
    BY <1>6, <2>1 DEF Endpoint, ArrivedLast, DstKept
  <2>3. /\ cpc' = cpc /\ toRead' = toRead /\ restarts > 0 /\ Len(dst') = Len(dst) + 1
        /\ \A k \in 1..Len(dst) : dst'[k] = dst[k]
        /\ dst'[Len(dst) + 1] = <<"header", 0>>
    BY <1>1, <1>6, TakesShape
  <2> QED
    BY <1>1, <1>2, <1>6, <2>1, <2>2, <2>3
<1>7. m.kind \in {"nothing", "payload", "header"} \/ cpc # "rangeData"
  BY <1>1 DEF Gaining
<1> QED
  BY <1>3, <1>4, <1>5, <1>6, <1>7

LEMMA DstKeptNext ==
  Types /\ Endpoint /\ Gaining /\ Streaming /\ Fresh /\ DstKept /\ [Moves]_vars => DstKept'
<1> SUFFICES ASSUME Types, Endpoint, Gaining, Streaming, Fresh, DstKept, [Moves]_vars PROVE DstKept'
  OBVIOUS
<1> USE ClientNames DEF Reading
<1>0. /\ restarts \in Nat /\ toRead \in Nat /\ Len(dst) \in Nat
      /\ Len(dst) <= toRead + (IF restarts > 0 THEN 1 ELSE 0)
  BY Lengths DEF Types, DstKept
<1>1. CASE /\ UNCHANGED <<toRead, dst>> /\ restarts' \in {restarts, restarts + 1}
           /\ cpc' = "rangeData" /\ waiting' => Len(dst) < toRead
  BY <1>0, <1>1 DEF DstKept
<1>2. CASE ReadReturns \/ ReadFails \/ ReadTimesOut
  <2>1. toRead' \in Nat /\ len \in Nat
    BY <1>2, ReadShape, TakesShape DEF Types
  <2>2. dst = <<>> => Len(dst) = 0
    OBVIOUS
  <2>3. waiting' = FALSE /\ UNCHANGED restarts
    BY <1>2, ReadAdds
  <2>4. \/ dst' = dst /\ (toRead' = toRead \/ dst = <<>>)
        \/ toRead' = toRead /\ toRead = len /\ Len(dst') \in Nat
           /\ (Len(dst') <= len \/ (restarts > 0 /\ Len(dst') = Len(dst) + 1 /\ Len(dst) < toRead))
    BY <1>2, ReadAdds
  <2> QED
    BY <1>0, <2>1, <2>2, <2>3, <2>4 DEF DstKept
<1>3. CASE AnyRange
  <2>1. dst' = <<>> /\ toRead' = 0 /\ restarts' = restarts /\ cpc' = "rangeReq"
    BY <1>3 DEF AnyRange, ReadRange, host
  <2>2. Len(dst') = 0
    BY <2>1
  <2> QED
    BY <1>0, <2>1, <2>2 DEF DstKept
<1>4. cpc = "rangeData" /\ (waiting \/ Reads) => Len(dst) < toRead
  BY <1>0 DEF DstKept, Reads, PayloadIn
<1> QED
  BY <1>1, <1>2, <1>3, <1>4, ClientView

LEMMA RangeIntactNext ==
  Types /\ Endpoint /\ Gaining /\ Streaming /\ Fresh /\ DstKept /\ RangeIntact /\ [Moves]_vars
    => RangeIntact'
<1> SUFFICES ASSUME Types, Endpoint, Gaining, Streaming, Fresh, DstKept, RangeIntact, [Moves]_vars
             PROVE  RangeIntact'
  OBVIOUS
<1> USE ClientNames DEF Reading
<1>0. restarts \in Nat /\ dst \in Seq(UnitSet) /\ DOMAIN dst = 1..Len(dst)
  BY Lengths DEF Types
<1>1. CASE dst' = <<>>
  BY <1>1 DEF RangeIntact
<1>2. CASE /\ UNCHANGED <<call, offset, dst>> /\ restarts' \in {restarts, restarts + 1}
           /\ cpc' \in {"rangeData", "returned"} => cpc \in {"rangeData", "returned"}
  <2>1. restarts > 0 => restarts' > 0
    BY <1>0, <1>2
  <2>2. call' = call /\ offset' = offset /\ dst' = dst
    BY <1>2
  <2> QED
    BY <1>2, <2>1, <2>2 DEF RangeIntact
<1>3. CASE ReadReturns \/ ReadFails \/ ReadTimesOut
  <2>1. UNCHANGED <<call, offset, len, restarts>> /\ Len(dst) \in Nat /\ Len(dst') \in Nat
    BY <1>3, ReadAdds
  <2>2. CASE dst' = dst /\ cpc' # "rangeData" /\ (cpc' = "returned" /\ cpc # "rangeData" => dst = <<>>)
    BY <1>1, <1>2, <2>1, <2>2 DEF RangeIntact
  <2>3. CASE /\ cpc = "rangeData" /\ cpc' = "rangeData"
             /\ \A k \in 1..Len(dst) : dst'[k] = dst[k]
             /\ \/ \A k \in Len(dst) + 1..Len(dst') : dst'[k] = <<"file", offset + k - 1>>
                \/ restarts > 0 /\ Len(dst') = Len(dst) + 1 /\ dst'[Len(dst) + 1] = <<"header", 0>>
    <3>1. DOMAIN dst' = 1..Len(dst')
      BY <1>3, ReadShape, TakesShape
    <3>2. SUFFICES ASSUME call' > 1, NEW k \in 1..Len(dst')
                   PROVE  \/ dst'[k] = <<"file", offset + k - 1>>
                          \/ dst'[k] = <<"header", 0>> /\ restarts > 0
      BY <2>1, <3>1 DEF RangeIntact
    <3>3. CASE k <= Len(dst)
      BY <1>0, <2>1, <2>3, <3>2, <3>3 DEF RangeIntact
    <3>4. CASE k > Len(dst)
      BY <2>1, <2>3, <3>2, <3>4
    <3> QED
      BY <2>1, <3>2, <3>3, <3>4
  <2> QED
    BY <1>3, <2>2, <2>3, ReadAdds
<1>4. CASE AnyRange
  BY <1>1, <1>4 DEF AnyRange, ReadRange
<1>5. CASE cpc \in Writing /\ cpc' = AfterWrite[cpc] /\ dst' = dst
  BY <1>1, <1>5 DEF Fresh, RangeIntact
<1>6. CASE cpc' = "exitReq"
  BY <1>6 DEF RangeIntact
<1> QED
  BY <1>2, <1>3, <1>4, <1>5, <1>6, ClientView

-----------------------------------------------------------------------------
(* The range. *)

(* A step as both ends and the cable see it. *)
LEMMA BothView ==
  ASSUME Types, Endpoint, [Moves]_vars
  PROVE  \/ /\ cpc \in Writing /\ cpc' = AfterWrite[cpc] /\ (ClientWrites \/ ClientWriteFails)
            /\ arrived.kind = "nothing" /\ ~waiting
            /\ UNCHANGED <<urbs, event, waiting, arrived, timeouts, restarts>>
            /\ UNCHANGED <<call, offset, len, toRead, dst>>
            /\ ClientWrites \/ (failures' = failures + 1 /\ UNCHANGED <<hpc, hoff, hlen, hsent>>)
         \/ /\ Reads /\ ~waiting /\ waiting' = TRUE /\ arrived.kind = "nothing"
            /\ urbs' = Append(urbs, Want) /\ arrived' = Nothing
            /\ UNCHANGED <<event, page, timeouts, failures, client, host>>
         \/ (ReadReturns \/ ReadFails \/ ReadTimesOut) /\ UNCHANGED host
         \/ /\ RangeEnds \/ AnyRange \/ SendExit
            /\ cpc' \in {"returned", "rangeReq", "exitReq"} /\ UNCHANGED <<usb, host>>
         \/ HostSends
         \/ HostStreamEnds /\ Past /\ hpc = "stream" /\ hpc' = "header"
            /\ UNCHANGED <<usb, client, hoff, hlen, hsent, restarts>>
         \/ /\ hpc # "stopped" /\ hpc' = "header" /\ restarts' = restarts + 1 /\ restarts' > 0
            /\ UNCHANGED <<call, offset, len, toRead, dst, hoff, hlen, hsent, timeouts, failures>>
            /\ \/ UNCHANGED <<urbs, event, waiting, arrived, cpc>>
               \/ /\ urbs' = <<>> /\ arrived' = Nothing /\ waiting' = waiting
                  /\ event' = (event \/ urbs # <<>>)
                  /\ cpc' = cpc \/ (cpc \in Writing /\ cpc' = AfterWrite[cpc] /\ ~waiting)
         \/ UNCHANGED vars
<1> USE ClientNames DEF Reading
<1>0. /\ cpc \in Writing => ~waiting
      /\ ~waiting => arrived.kind = "nothing"
  BY DEF Endpoint, WaitReads, ArrivedLast
<1>1. CASE ClientWrites
  <2>1. restarts' = restarts
    BY <1>1, HostHears
  <2> QED
    BY <1>0, <1>1, <2>1 DEF ClientWrites, Written
<1>2. CASE ClientWriteFails
  BY <1>0, <1>2 DEF ClientWriteFails, PostFails, host
<1>3. CASE PostRead
  BY <1>0, <1>3 DEF PostRead, PostBuffer
<1>4. CASE ReadReturns \/ ReadFails \/ ReadTimesOut
  BY <1>4 DEF ReadReturns, ReadFails, ReadTimesOut
<1>5. CASE RangeEnds \/ AnyRange \/ SendExit
  BY <1>5 DEF RangeEnds, AnyRange, ReadRange, SendExit, usb
<1>6. CASE HostStreamEnds
  <2>1. Past
    BY <1>6, ChunkShape DEF HostStreamEnds
  <2> QED
    BY <1>6, <2>1 DEF HostStreamEnds
<1>7. CASE HostRestarts
  <2>1. restarts' > 0 /\ restarts' = restarts + 1 /\ hpc # "stopped" /\ hpc' = "header"
    BY <1>7, RestartShape, Lengths DEF Types
  <2>2. /\ UNCHANGED <<call, offset, len, toRead, dst, hoff, hlen, hsent>>
        /\ UNCHANGED <<timeouts, failures>>
    BY <1>7, RestartShape DEF BusReset
  <2>3. \/ UNCHANGED <<urbs, event, waiting, arrived, cpc>>
        \/ /\ BusReset
           /\ cpc' = cpc \/ (cpc \in Writing /\ cpc' = AfterWrite[cpc] /\ ~waiting)
    BY <1>0, <1>7, RestartShape
  <2> QED
    BY <2>1, <2>2, <2>3 DEF BusReset
<1> QED
  BY <1>1, <1>2, <1>3, <1>4, <1>5, <1>6, <1>7, MoveCases

(* What the host sends comes to where it is waited for, as long as nothing *)
(* is left behind on the endpoint.                                         *)
LEMMA SaysClean ==
  ASSUME Types, Endpoint, Clean, NEW m, NEW n \in Nat, Deliver(m, n, cpc \in Writing)
  PROVE  /\ waiting /\ event = FALSE /\ arrived.kind = "nothing"
         /\ waiting' = TRUE /\ event' = TRUE /\ urbs # <<>> /\ urbs' = <<>>
         /\ arrived' = IF n <= Head(urbs) THEN m ELSE Junk
<1>1. urbs # <<>> /\ urbs' = Tail(urbs) /\ event' = TRUE /\ waiting' = waiting
  BY DEF Deliver
<1>2. Len(urbs) = 1 /\ waiting = TRUE /\ event = FALSE
  <2>1. Len(urbs) \in Nat /\ Len(urbs) # 0 /\ event \in BOOLEAN /\ waiting \in BOOLEAN
    BY <1>1, Queue DEF Types
  <2>2. Len(urbs) + (IF event THEN 1 ELSE 0) = IF waiting THEN 1 ELSE 0
    BY DEF Clean, Signals
  <2>3. PICK k \in Nat : k = Len(urbs) /\ k # 0
    BY <2>1
  <2>4. event = FALSE
    <3>1. CASE event = TRUE
      BY <2>1, <2>2, <2>3, <3>1
    <3> QED
      BY <2>1, <3>1
  <2>5. k = IF waiting THEN 1 ELSE 0
    BY <2>2, <2>3, <2>4
  <2> QED
    BY <2>1, <2>3, <2>4, <2>5
<1>3. urbs' = <<>>
  BY <1>1, <1>2, Queue, EmptySeq
<1>4. arrived' = IF n <= Head(urbs) THEN m ELSE Junk
  BY <1>2 DEF Deliver, Awaited
<1>5. arrived.kind = "nothing"
  BY <1>2 DEF Endpoint, ArrivedLast
<1> QED
  BY <1>1, <1>2, <1>3, <1>4, <1>5

(* Between two calls, or the steps of one that write, nothing comes. *)
LEMMA NoUrbs ==
  ASSUME Types, Endpoint, cpc \in Settled, ~waiting
  PROVE  urbs = <<>> /\ event = FALSE
BY Queue DEF Endpoint, CleanSoFar, Clean, Signals, Types

LEMMA AckedNext == Types /\ Endpoint /\ Gaining /\ Acked /\ [Moves]_vars => Acked'
<1> SUFFICES ASSUME Types, Endpoint, Gaining, Acked, [Moves]_vars,
                    cpc' = "rangeAck", IsReply(arrived', "range")
             PROVE  hpc' = "body" \/ Host("rangeAck")'
  BY DEF Acked, IsReply
<1> USE ClientNames, NoMessages DEF Reading, Host
<1>1. arrived'.kind = "header" /\ arrived'.id = "range"
  BY DEF IsReply
<1>2. CASE ReadReturns \/ ReadFails \/ ReadTimesOut
  BY <1>2, ReadShape, TakesShape
<1>3. CASE HostSends
  <2>1. PICK m, n :
          /\ Deliver(m, n, cpc \in Writing)
          /\ m.kind = "payload" \/ (m.kind = "header" /\ m.id \in Replies)
          /\ hpc \in Sending /\ hpc' = AfterSend[hpc]
          /\ hpc = "listResp" => m.id = "list"
          /\ hpc = "listData" => m.kind = "payload"
          /\ hpc = "stream" => m.kind = "payload"
          /\ hpc = "exitResp" => m.id = "exit"
    BY <1>3, HostSays
  <2>2. urbs # <<>> /\ arrived' \in {arrived, m, Junk}
    BY <2>1 DEF Deliver
  <2>3. arrived.kind = "nothing"
    BY <2>2 DEF Endpoint, ArrivedLast
  <2>4. m.kind = "header" /\ m.id = "range"
    BY <1>1, <2>2, <2>3
  <2> QED
    BY <2>1, <2>4, HostNames
<1> QED
  BY <1>1, <1>2, <1>3, BothView DEF Acked, IsReply, client, host, usb, vars

LEMMA BodyDueNext ==
  Types /\ Endpoint /\ Gaining /\ Acked /\ BodyDue /\ [Moves]_vars => BodyDue'
<1> SUFFICES ASSUME Types, Endpoint, Gaining, Acked, BodyDue, [Moves]_vars, cpc' = "rangeBody"
             PROVE  hpc' = "body" \/ Host("rangeAck")'
  BY DEF BodyDue
<1> USE ClientNames, NoMessages DEF Reading, Host
<1>1. CASE ReadReturns \/ ReadFails \/ ReadTimesOut
  <2>1. PICK m : Takes(m) /\ (m = arrived \/ m = Nothing) /\ UNCHANGED host
    BY <1>1, ReadShape
  <2>2. cpc = "rangeAck" /\ IsReply(m, "range")
    BY <2>1, TakesShape
  <2> QED
    BY <2>1, <2>2 DEF Acked, IsReply, host
<1>2. CASE HostSends
  <2>1. cpc = "rangeBody" /\ urbs # <<>>
    BY <1>2 DEF HostSends, Deliver, client
  <2> QED
    BY <2>1, NoUrbs DEF Endpoint, WaitReads, Settled
<1> QED
  BY <1>1, <1>2, BothView DEF BodyDue, client, host, usb, vars

LEMMA RespondedNext ==
  Types /\ Endpoint /\ Gaining /\ BodyDue /\ Responded /\ [Moves]_vars => Responded'
<1> SUFFICES ASSUME Types, Endpoint, Gaining, BodyDue, Responded, [Moves]_vars, cpc' = "rangeResp"
             PROVE  /\ hpc' \in {"body", "rangeAck", "header", "resp", "stream"}
                    /\ hpc' = "resp" => Match'
                    /\ arrived'.kind = "header" => arrived'.n = len' /\ Matched'
  BY DEF Responded
<1> USE ClientNames, NoMessages DEF Reading, Host
<1>1. CASE ReadReturns \/ ReadFails \/ ReadTimesOut
  BY <1>1, ReadShape, TakesShape
<1>2. CASE ClientWrites \/ ClientWriteFails
  <2>1. /\ cpc = "rangeBody" /\ arrived' = arrived /\ arrived.kind = "nothing"
        /\ UNCHANGED <<offset, len>>
        /\ ClientWrites \/ UNCHANGED hpc
    BY <1>2 DEF ClientWrites, Written, ClientWriteFails, PostFails, Endpoint, ArrivedLast, WaitReads, host
  <2>2. page = Nothing /\ hpc \in {"body", "rangeAck", "header"}
    BY <2>1 DEF Endpoint, PageLate, BodyDue, Settled
  <2>3. CASE ClientWrites
    BY <2>1, <2>2, <2>3, HostHears, HostHearsAll DEF Match
  <2> QED
    BY <2>1, <2>2, <2>3
<1>3. CASE HostSends
  <2>1. PICK m, n :
          /\ Deliver(m, n, cpc \in Writing) /\ n \in Nat
          /\ hpc \in Sending /\ hpc' = AfterSend[hpc]
          /\ UNCHANGED <<cpc, offset, len, hoff, hlen, restarts>>
          /\ hpc = "resp" => m.n = hlen
          /\ hpc = "stream" => m.kind = "payload"
    BY <1>3, HostSays
  <2>2. Clean
    BY <2>1 DEF Endpoint, CleanSoFar, Settled
  <2>3. arrived' \in {m, Junk}
    BY <2>1, <2>2, SaysClean
  <2>4. hpc \in {"resp", "stream"} /\ (hpc = "resp" => Match)
    BY <2>1, HostNames DEF Responded
  <2> QED
    BY <2>1, <2>3, <2>4, HostNames DEF Match, Matched
<1>4. CASE UNCHANGED <<cpc, len, offset, hpc, hoff, hlen, restarts>> /\ arrived' \in {arrived, Nothing}
  BY <1>4 DEF Responded, Match, Matched
<1>5. CASE hpc = "stream" /\ hpc' = "header" /\ UNCHANGED <<usb, client, hoff, hlen, hsent, restarts>>
  BY <1>5 DEF Responded, Match, Matched, usb, client
<1>6. CASE /\ hpc' = "header" /\ restarts' > 0 /\ UNCHANGED len
           /\ \/ cpc' = cpc /\ arrived' \in {arrived, Nothing}
              \/ arrived' = Nothing
  BY <1>6 DEF Responded, Match, Matched
<1> QED
  BY <1>1, <1>2, <1>3, <1>4, <1>5, <1>6, BothView DEF client, host, usb, vars

LEMMA GoDueNext ==
  Types /\ Endpoint /\ Gaining /\ Responded /\ GoDue /\ [Moves]_vars => GoDue'
<1> SUFFICES ASSUME Types, Endpoint, Gaining, Responded, GoDue, [Moves]_vars, cpc' = "rangeGo"
             PROVE  toRead' = len' /\ Matched'
  BY DEF GoDue
<1> USE ClientNames, NoMessages DEF Reading, Host
<1>1. CASE ReadReturns \/ ReadFails \/ ReadTimesOut
  <2>1. PICK m : Takes(m) /\ (m = arrived \/ m = Nothing) /\ UNCHANGED host
    BY <1>1, ReadShape
  <2>2. /\ cpc = "rangeResp" /\ IsReply(m, "range") /\ UNCHANGED <<offset, len>>
        /\ toRead' = IF m.n <= len THEN m.n ELSE len
    BY <2>1, TakesShape
  <2>3. m = arrived /\ m.n = len /\ Matched
    BY <2>1, <2>2 DEF Responded, IsReply
  <2> QED
    BY <2>1, <2>2, <2>3 DEF Matched, Match, host, Types
<1>2. CASE HostSends
  <2>1. cpc = "rangeGo" /\ urbs # <<>>
    BY <1>2 DEF HostSends, Deliver, client
  <2> QED
    BY <2>1, NoUrbs DEF Endpoint, WaitReads, Settled
<1>3. CASE UNCHANGED <<cpc, len, toRead, offset, hpc, hoff, hlen, restarts>>
  BY <1>3 DEF GoDue, Match, Matched
<1>4. CASE cpc' = cpc /\ hpc = "stream"
  BY <1>4 DEF GoDue, Matched
<1>5. CASE cpc' = cpc /\ hpc' = "header" /\ restarts' > 0 /\ UNCHANGED <<toRead, len>>
  BY <1>5 DEF GoDue, Matched
<1> QED
  BY <1>1, <1>2, <1>3, <1>4, <1>5, BothView DEF client, host, usb, vars

LEMMA StreamingNext ==
  Types /\ Endpoint /\ GoDue /\ Streaming /\ Gaining /\ Fresh /\ [Moves]_vars => Streaming'
<1> SUFFICES ASSUME Types, Endpoint, GoDue, Streaming, Gaining, Fresh, [Moves]_vars, cpc' = "rangeData"
             PROVE  /\ toRead' = len'
                    /\ hpc' \in {"stream", "rangeAck", "header", "ack", "body"}
                    /\ hpc' = "rangeAck" => Match' /\ dst' = <<>> /\ arrived'.kind = "nothing"
                    /\ hpc' = "stream" => Streamed'
                    /\ hpc' = "ack" => restarts' > 0
                    /\ urbs' # <<>> => Head(urbs') = Want'
  BY DEF Streaming
<1> USE ClientNames, NoMessages DEF Reading, Host
<1>0. /\ Len(dst) \in Nat /\ hsent \in Nat /\ len \in Nat /\ toRead \in Nat /\ hlen \in Nat
      /\ hoff \in Nat /\ offset \in Nat
  BY DEF Types
<1>1. CASE ReadReturns \/ ReadFails \/ ReadTimesOut
  <2>1. PICK m :
          /\ Takes(m) /\ (m = arrived \/ m = Nothing) /\ UNCHANGED host /\ arrived'.kind = "nothing"
          /\ m.kind # "nothing" => urbs' = urbs
    BY <1>1, ReadShape DEF Endpoint, ArrivedLast
  <2>2. /\ cpc = "rangeData" /\ UNCHANGED <<offset, len, toRead>>
        /\ m = arrived /\ m.kind \in {"payload", "header"}
        /\ m.kind = "payload" => Len(dst') = Len(dst) + m.n
        /\ m.kind = "header" => hpc \in {"body", "header"}
    BY <2>1, TakesShape DEF Gaining
  <2>3. urbs' = <<>>
    BY <2>1, <2>2 DEF Endpoint, ArrivedLast
  <2>4. toRead = len /\ hpc \in {"stream", "header", "ack", "body"} /\ (hpc = "ack" => restarts > 0)
    BY <2>2 DEF Streaming
  <2>5. hpc = "stream" => Match /\ hsent = Len(dst')
    BY <1>0, <2>2 DEF Streaming, Streamed, Gained
  <2>6. Gained' = 0
    BY <2>1 DEF Gained
  <2>7. Len(dst') \in Nat
    BY <2>1, TakesShape
  <2> QED
    BY <2>1, <2>2, <2>3, <2>4, <2>5, <2>6, <2>7 DEF host, Streamed, Match
<1>2. CASE ClientWrites \/ ClientWriteFails
  <2>1. /\ cpc = "rangeGo" /\ ~waiting /\ UNCHANGED <<arrived, urbs, offset, len, toRead, dst, restarts>>
        /\ arrived.kind = "nothing"
        /\ ClientWrites \/ UNCHANGED <<hpc, hoff, hlen, hsent>>
    BY <1>2, HostHears
       DEF ClientWrites, Written, ClientWriteFails, PostFails, Endpoint, ArrivedLast, WaitReads, host
  <2>2. page = Nothing /\ toRead = len /\ Matched /\ urbs = <<>> /\ dst = <<>>
    BY <2>1, NoUrbs DEF Endpoint, PageLate, GoDue, Settled, Fresh
  <2>3. Len(dst) = 0 /\ Gained' = 0
    BY <2>1, <2>2 DEF Gained
  <2>4. CASE ClientWrites
    <3>1. /\ hpc = "rangeAck" => hpc' = "stream" /\ hsent' = 0 /\ UNCHANGED <<hoff, hlen>>
          /\ hpc = "header" => hpc' \in {"ack", "header"}
      BY <2>1, <2>2, <2>4, HostHears, HostHearsAll
    <3> QED
      BY <2>1, <2>2, <2>3, <3>1 DEF Matched, Match, Streamed
  <2> QED
    BY <2>1, <2>2, <2>3, <2>4 DEF Matched, Match
<1>3. CASE HostSends
  <2>1. PICK m, n :
          /\ Deliver(m, n, cpc \in Writing) /\ n \in Nat /\ m.n \in Nat
          /\ hpc \in Sending /\ hpc' = AfterSend[hpc]
          /\ UNCHANGED <<cpc, call, offset, len, toRead, dst, hoff, hlen, restarts>>
          /\ hpc = "stream" => /\ m.kind = "payload" /\ m.n = ChunkLen /\ n = ChunkLen
                               /\ hsent' = hsent + ChunkLen
    BY <1>3, HostSays
  <2>2. Clean /\ toRead = len
    BY <2>1 DEF Endpoint, CleanSoFar, Settled, Streaming
  <2>3. /\ waiting /\ event = FALSE /\ arrived.kind = "nothing" /\ urbs # <<>> /\ urbs' = <<>>
        /\ arrived' = IF n <= Head(urbs) THEN m ELSE Junk
    BY <2>1, <2>2, SaysClean
  <2>4. hpc \in {"stream", "ack"} /\ Head(urbs) = Want
    BY <2>1, <2>3, HostNames DEF Streaming
  <2>5. CASE hpc = "stream"
    <3>1. Match /\ hsent = Len(dst)
      BY <1>0, <2>1, <2>3, <2>5 DEF Streaming, Streamed, Gained
    <3>2. ChunkLen \in Int /\ ChunkLen <= Segment /\ ChunkLen <= toRead - Len(dst)
      BY <2>2, <3>1, ChunkShape DEF Match
    <3>3. Want \in Nat /\ (Want = Segment \/ Want = toRead - Len(dst))
      <4>1. Len(dst) < toRead
        BY <1>0, <2>1, <2>3, <3>2, ChunkShape, <1>3, <2>5 DEF HostSends, HostHasMessage
      <4> QED
        BY <1>0, <2>1, <4>1, WantShape
    <3>4. arrived' = m
      BY <2>1, <2>3, <2>4, <2>5, <3>2, <3>3
    <3>5. Gained' = ChunkLen
      BY <2>1, <2>5, <3>4 DEF Gained
    <3> QED
      BY <2>1, <2>2, <2>3, <2>5, <3>1, <3>5, HostNames DEF Streamed, Match
  <2>6. CASE hpc = "ack"
    BY <2>1, <2>2, <2>3, <2>6, HostNames DEF Streaming
  <2> QED
    BY <2>4, <2>5, <2>6
<1>4. CASE /\ Reads /\ ~waiting /\ arrived.kind = "nothing"
           /\ urbs' = Append(urbs, Want) /\ arrived' = Nothing
           /\ UNCHANGED <<client, host>>
  <2>1. cpc = "rangeData" /\ urbs = <<>>
    BY <1>4, NoUrbs DEF client, Settled
  <2>2. Head(urbs') = Want
    BY <1>4, <2>1, WantShape, Queue
  <2>3. Want' = Want
    BY <1>4 DEF Want, client
  <2>4. Gained' = Gained
    BY <1>4 DEF Gained
  <2> QED
    BY <1>4, <2>1, <2>2, <2>3, <2>4 DEF Streaming, Streamed, Match, client, host
<1>5. CASE UNCHANGED <<urbs, arrived, client, host>>
  <2>1. Want' = Want /\ Gained' = Gained
    BY <1>5 DEF Want, Gained, client
  <2> QED
    BY <1>5, <2>1 DEF Streaming, Streamed, Match, client, host
<1>6. CASE hpc' = "header" /\ UNCHANGED <<urbs, arrived, client>>
  <2>1. Want' = Want
    BY <1>6 DEF Want, client
  <2> QED
    BY <1>6, <2>1 DEF Streaming, client
<1>7. CASE /\ hpc' = "header" /\ UNCHANGED <<call, offset, len, toRead, dst>>
           /\ urbs' = <<>> /\ (cpc' = cpc \/ (cpc \in Writing /\ cpc' = AfterWrite[cpc]))
  BY <1>7 DEF Streaming, GoDue
<1>8. CASE hpc' = "header" /\ UNCHANGED <<urbs, cpc, call, offset, len, toRead, dst>>
  <2>1. Want' = Want
    BY <1>8 DEF Want
  <2> QED
    BY <1>8, <2>1 DEF Streaming
<1> QED
  BY <1>1, <1>2, <1>3, <1>4, <1>5, <1>6, <1>7, <1>8, BothView DEF usb, vars

LEMMA GainingNext ==
  Types /\ Endpoint /\ Streaming /\ Gaining /\ [Moves]_vars => Gaining'
<1> SUFFICES ASSUME Types, Endpoint, Streaming, Gaining, [Moves]_vars, cpc' = "rangeData"
             PROVE  /\ arrived'.kind \in {"nothing", "payload", "header"}
                    /\ arrived'.kind = "header" => restarts' > 0 /\ hpc' \in {"body", "header"}
                    /\ arrived'.kind = "payload" =>
                         /\ arrived'.of = "file" /\ arrived'.from = offset' + Len(dst')
                         /\ arrived'.n \in 1..len' - Len(dst')
  BY DEF Gaining
<1> USE ClientNames, NoMessages DEF Reading
<1>0. /\ Len(dst) \in Nat /\ hsent \in Nat /\ len \in Nat /\ toRead \in Nat /\ hlen \in Nat
      /\ hoff \in Nat /\ offset \in Nat
  BY DEF Types
<1>1. CASE arrived' = Nothing
  BY <1>1
<1>2. CASE ReadReturns \/ ReadFails \/ ReadTimesOut
  <2>1. arrived'.kind = "nothing"
    BY <1>2, ReadShape DEF Endpoint, ArrivedLast
  <2> QED
    BY <2>1
<1>3. CASE HostSends
  <2>1. PICK m, n :
          /\ Deliver(m, n, cpc \in Writing) /\ n \in Nat /\ m.n \in Nat
          /\ hpc \in Sending /\ hpc' = AfterSend[hpc]
          /\ UNCHANGED <<cpc, call, offset, len, toRead, dst, hoff, hlen, restarts>>
          /\ hpc = "ack" => m.kind = "header" /\ n = 0
          /\ hpc = "stream" => /\ m.kind = "payload" /\ m.of = "file" /\ m.from = hoff + hsent
                               /\ m.n = ChunkLen /\ n = ChunkLen /\ ChunkLen > 0
    BY <1>3, HostSays
  <2>2. Clean /\ toRead = len
    BY <2>1 DEF Endpoint, CleanSoFar, Settled, Streaming
  <2>3. /\ arrived.kind = "nothing" /\ urbs # <<>>
        /\ arrived' = IF n <= Head(urbs) THEN m ELSE Junk
    BY <2>1, <2>2, SaysClean
  <2>4. hpc \in {"stream", "ack"} /\ Head(urbs) = Want
    BY <2>1, <2>3, HostNames DEF Streaming
  <2>5. Head(urbs) \in Nat
    BY <2>3, Queue
  <2>6. CASE hpc = "stream"
    <3>1. Match /\ hsent = Len(dst)
      BY <1>0, <2>1, <2>3, <2>6 DEF Streaming, Streamed, Gained
    <3>2. ChunkLen \in Int /\ ChunkLen <= Segment /\ ChunkLen <= len - Len(dst) /\ ChunkLen > 0
      BY <2>1, <2>6, <3>1, ChunkShape DEF Match
    <3>3. Want = Segment \/ Want = toRead - Len(dst)
      BY <1>0, <2>1, <2>2, <3>2, WantShape
    <3>4. arrived' = m
      BY <2>1, <2>2, <2>3, <2>4, <2>6, <3>2, <3>3
    <3> QED
      BY <1>0, <2>1, <2>6, <3>1, <3>2, <3>4 DEF Match
  <2>7. CASE hpc = "ack"
    <3>1. arrived' = m /\ restarts > 0
      BY <2>1, <2>3, <2>4, <2>5, <2>7 DEF Streaming
    <3> QED
      BY <2>1, <2>7, <3>1, HostNames
  <2> QED
    BY <2>4, <2>6, <2>7
<1>4. CASE UNCHANGED <<arrived, cpc, offset, len, dst, hpc, restarts>>
  BY <1>4 DEF Gaining
<1>5. CASE UNCHANGED <<arrived, cpc, offset, len, dst>> /\ hpc' = "header" /\ restarts' > 0
  BY <1>5 DEF Gaining
<1>6. CASE UNCHANGED <<arrived, cpc, offset, len, dst>> /\ hpc' = "header" /\ hpc = "stream"
  BY <1>6 DEF Gaining
<1>7. CASE arrived' = arrived /\ arrived.kind = "nothing"
  BY <1>7
<1> QED
  BY <1>1, <1>2, <1>3, <1>4, <1>5, <1>6, <1>7, BothView DEF client, host, usb, vars

-----------------------------------------------------------------------------
(* Whose turn it is. *)

(* A step before which every read has come back. *)
LEMMA UnreadView ==
  ASSUME Types, Endpoint, Gaining, [Moves]_vars, Unread'
  PROVE  /\ Unread /\ Clean /\ page = Nothing
         /\ ~waiting => urbs = <<>> /\ event = FALSE /\ arrived.kind = "nothing"
         /\ \/ ClientWrites /\ cpc \in Writing /\ cpc' = AfterWrite[cpc] /\ ~waiting
               /\ UNCHANGED <<event, arrived, restarts, call, offset, len, toRead, dst>>
            \/ /\ Reads /\ ~waiting /\ arrived' = Nothing
               /\ UNCHANGED <<event, client, host>>
            \/ /\ Takes(arrived) /\ event = TRUE /\ event' = FALSE /\ arrived' = Nothing /\ UNCHANGED host
            \/ /\ RangeEnds \/ AnyRange \/ SendExit
               /\ ~waiting /\ cpc' \in {"returned", "rangeReq", "exitReq"}
               /\ UNCHANGED <<event, arrived, host>>
            \/ /\ HostSends /\ waiting /\ event = FALSE /\ event' = TRUE
               /\ arrived'.kind # "nothing"
            \/ /\ hpc = "stream" /\ Past /\ hpc' = "header"
               /\ UNCHANGED <<event, arrived, client, hoff, hlen, hsent, restarts>>
            \/ /\ hpc # "stopped" /\ hpc' = "header" /\ restarts' > 0
               /\ UNCHANGED <<call, offset, len, toRead, dst, hoff, hlen, hsent>>
               /\ \/ UNCHANGED <<event, arrived, cpc>>
                  \/ /\ arrived' = Nothing
                     /\ cpc' = cpc \/ (cpc \in Writing /\ cpc' = AfterWrite[cpc])
            \/ UNCHANGED <<event, arrived, client, host>>
<1> USE ClientNames, NoMessages DEF Reading
<1>0. /\ timeouts \in Nat /\ failures \in Nat /\ timeouts' = 0 /\ failures' = 0
  BY Lengths DEF Types, Unread
<1>1. ~ClientWriteFails /\ ~ReadFails /\ ~ReadTimesOut
  <2>1. ClientWriteFails \/ ReadFails => failures' = failures + 1
    BY DEF ClientWriteFails, ReadFails, PostFails, ReportFails
  <2>2. ReadTimesOut => timeouts' = timeouts + 1
    BY DEF ReadTimesOut, WaitTimesOut
  <2> QED
    BY <1>0, <2>1, <2>2
<1>2. UNCHANGED <<timeouts, failures>>
  BY <1>1, MoveCases, RestartShape, HostSays
     DEF ClientWrites, Written, PostRead, PostBuffer, ReadReturns, WaitReturns, RangeEnds, AnyRange,
         ReadRange, SendExit, HostSends, Deliver, HostStreamEnds, BusReset, usb, vars
<1>3. Unread /\ Clean /\ page = Nothing
  BY <1>0, <1>2 DEF Unread, Endpoint, CleanSoFar, PageLate
<1>4. ~waiting => urbs = <<>> /\ event = FALSE /\ arrived.kind = "nothing"
  BY <1>3, Queue DEF Clean, Signals, Endpoint, ArrivedLast, Types
<1>5. CASE ReadReturns
  BY <1>3, <1>4, <1>5, MoveCases DEF ReadReturns, WaitReturns, Types
<1>6. CASE HostSends
  <2>1. PICK m, n :
          /\ Deliver(m, n, cpc \in Writing) /\ n \in Nat /\ m.kind \in {"payload", "header"}
    BY <1>6, HostSays
  <2> QED
    BY <1>3, <1>4, <1>6, <2>1, SaysClean
<1>7. CASE RangeEnds \/ AnyRange \/ SendExit
  <2>1. ~waiting /\ cpc' \in {"returned", "rangeReq", "exitReq"} /\ UNCHANGED <<usb, host>>
    BY <1>7 DEF RangeEnds, AnyRange, ReadRange, SendExit, Endpoint, WaitReads
  <2> QED
    BY <1>3, <1>4, <1>7, <2>1 DEF usb
<1>8. ClientWrites \/ ClientWriteFails => cpc \notin Reading
  BY DEF ClientWrites, ClientWriteFails
<1>9. CASE ~ReadReturns /\ ~HostSends /\ ~(RangeEnds \/ AnyRange \/ SendExit)
  BY <1>1, <1>3, <1>4, <1>9, BothView DEF usb, vars
<1> QED
  BY <1>5, <1>6, <1>7, <1>9

LEMMA NoMessageNext ==
  Types /\ Endpoint /\ Gaining /\ NoMessage /\ [Moves]_vars /\ Unread' => NoMessage'
<1> SUFFICES ASSUME Types, Endpoint, Gaining, NoMessage, [Moves]_vars, Unread' PROVE NoMessage'
  OBVIOUS
<1> QED
  BY UnreadView, NoMessages DEF NoMessage, client, host

LEMMA ListTurnNext ==
  Types /\ Endpoint /\ Gaining /\ NoMessage /\ ListTurn /\ [Moves]_vars /\ Unread' => ListTurn'
<1> SUFFICES ASSUME Types, Endpoint, Gaining, NoMessage, ListTurn, [Moves]_vars, Unread' PROVE ListTurn'
  OBVIOUS
<1> USE ClientNames, HostNames, NoMessages DEF Reading, Host
<1>1. CASE ClientWrites
  <2>1. /\ cpc \in Writing /\ cpc' = AfterWrite[cpc] /\ event' = FALSE /\ arrived'.kind = "nothing"
        /\ UNCHANGED restarts /\ page = Nothing
    BY <1>1, UnreadView, HostHears DEF ClientWrites, Written, Endpoint, WaitReads
  <2>2. cpc = "listReq" => hpc' = "listResp"
    BY <1>1, <2>1, HostHearsAll DEF ListTurn
  <2>3. cpc = "listAck" => \/ hpc' = "listData"
                           \/ restarts > 0 /\ hpc' \in {"listResp", "header"}
    BY <1>1, <2>1, HostHears, HostHearsAll DEF ListTurn
  <2> QED
    BY <2>1, <2>2, <2>3 DEF ListTurn
<1>2. CASE Takes(arrived) /\ event = TRUE /\ event' = FALSE /\ UNCHANGED host
  <2>1. /\ cpc' \notin {"listReq", "listResp", "listData"}
        /\ cpc' = "listAck" => cpc = "listResp" /\ IsReply(arrived, "list") /\ arrived.n > 0
    BY <1>2, TakesShape
  <2>2. cpc' = "listAck" => Host("listAck")
    BY <1>2, <2>1, Lengths DEF ListTurn, IsReply
  <2> QED
    BY <1>2, <2>1, <2>2 DEF ListTurn, host
<1>3. CASE HostSends
  <2>1. PICK m, n :
          /\ Deliver(m, n, cpc \in Writing) /\ n \in Nat /\ m.n \in Nat
          /\ hpc \in Sending /\ hpc' = AfterSend[hpc]
          /\ UNCHANGED <<cpc, call, offset, len, toRead, dst, hoff, hlen, restarts>>
          /\ hpc = "listResp" => m.kind = "header" /\ m.id = "list" /\ m.n = ListLen /\ n = 0
    BY <1>3, HostSays
  <2>2. Clean /\ urbs # <<>> /\ Head(urbs) \in Nat
    BY <2>1, UnreadView, Queue DEF Deliver
  <2>3. /\ waiting /\ event = FALSE /\ event' = TRUE
        /\ arrived' = IF n <= Head(urbs) THEN m ELSE Junk
    BY <2>1, <2>2, SaysClean
  <2>4. cpc \in Reading
    BY <2>3 DEF Endpoint, WaitReads
  <2>5. CASE cpc = "listResp"
    <3>1. hpc = "listResp"
      BY <2>1, <2>3, <2>5 DEF ListTurn
    <3>2. arrived' = m
      BY <2>1, <2>2, <2>3, <3>1
    <3>3. IsReply(arrived', "list") /\ arrived'.n = ListLen
      BY <2>1, <3>1, <3>2 DEF IsReply
    <3> QED
      BY <2>1, <2>3, <2>5, <3>1, <3>3 DEF ListTurn, IsReply
  <2>6. CASE cpc = "listData"
    <3>1. hpc = "listData" \/ (hpc = "listResp" /\ restarts > 0)
      BY <2>1, <2>3, <2>6 DEF ListTurn
    <3>2. hpc = "listResp" => arrived'.kind = "header"
      BY <2>1, <2>2, <2>3
    <3> QED
      BY <2>1, <2>3, <2>6, <3>1, <3>2 DEF ListTurn
  <2> QED
    BY <2>1, <2>4, <2>5, <2>6 DEF ListTurn
<1>4. CASE ~waiting /\ arrived' = Nothing /\ UNCHANGED <<event, client, host>>
  <2>1. event = FALSE
    BY <1>4, UnreadView
  <2> QED
    BY <1>4, <2>1 DEF ListTurn, client, host, IsReply
<1>5. CASE UNCHANGED <<event, arrived, client, host>>
  BY <1>5 DEF ListTurn, client, host, IsReply
<1>6. CASE cpc' \in {"returned", "rangeReq", "exitReq"}
  BY <1>6 DEF ListTurn
<1>7. CASE hpc = "stream" /\ cpc' = cpc
  BY <1>7 DEF ListTurn
<1>8. CASE /\ hpc' = "header" /\ restarts' > 0
           /\ \/ UNCHANGED <<event, arrived, cpc>>
              \/ /\ arrived' = Nothing
                 /\ cpc' = cpc \/ (cpc \in Writing /\ cpc' = AfterWrite[cpc])
  BY <1>8 DEF ListTurn, IsReply
<1> QED
  BY <1>1, <1>2, <1>3, <1>4, <1>5, <1>6, <1>7, <1>8, UnreadView DEF client

LEMMA CallerTurnNext ==
  Types /\ Endpoint /\ Request /\ Fresh /\ Turn /\ [Moves]_vars /\ Unread' => CallerTurn'
<1> SUFFICES ASSUME Types, Endpoint, Request, Fresh, Turn, [Moves]_vars, Unread' PROVE CallerTurn'
  OBVIOUS
<1> USE ClientNames, HostNames, NoMessages DEF Reading, Host
<1>0. Gaining /\ Unread /\ NoMessage /\ ListTurn /\ CallerTurn /\ RangeTurn /\ DataTurn /\ Streaming
  BY UnreadView DEF Request, Turn
<1>1. restarts \in Nat /\ MaxRestarts \in Nat /\ restarts <= MaxRestarts
  BY Lengths DEF Types
<1>2. CASE ClientWrites
  <2>1. /\ cpc \in Writing /\ cpc' = AfterWrite[cpc] /\ event' = FALSE
        /\ UNCHANGED restarts /\ page = Nothing
    BY <1>0, <1>2, UnreadView, HostHears DEF ClientWrites, Written, Endpoint, WaitReads
  <2>2. cpc = "exitReq" => hpc' = "exitResp" \/ (restarts > 0 /\ hpc' \in {"header", "stopped"})
    BY <1>0, <1>2, <2>1, HostHears, HostHearsAll DEF CallerTurn
  <2> QED
    BY <2>1, <2>2 DEF CallerTurn
<1>3. CASE Takes(arrived) /\ event = TRUE /\ event' = FALSE /\ UNCHANGED host
  <2>1. cpc' \notin {"rangeReq", "exitReq", "exitResp"}
    BY <1>0, <1>3, TakesShape
  <2>2. cpc' = "returned" =>
          \/ cpc = "listResp" /\ arrived.kind = "header" /\ arrived.n = 0
          \/ cpc = "listData" /\ arrived.kind = "payload"
          \/ cpc \in {"rangeAck", "rangeResp"} /\ ~IsReply(arrived, "range")
          \/ cpc = "rangeData" /\ arrived.kind = "nothing"
    BY <1>0, <1>3, TakesShape DEF IsReply
  <2>3. cpc' = "returned" => hpc = "header"
    BY <1>0, <1>3, <2>2, Lengths DEF ListTurn, RangeTurn, NoMessage
  <2>4. cpc' = "returned" /\ cpc \notin {"listResp", "listData"} => restarts > 0
    BY <1>0, <1>3, <2>2 DEF RangeTurn, NoMessage
  <2>5. call' = call /\ (cpc \in {"listResp", "listData"} => call = 1)
    BY <1>0, <1>3, TakesShape DEF Fresh
  <2> QED
    BY <1>1, <1>3, <2>1, <2>3, <2>4, <2>5 DEF CallerTurn, host
<1>4. CASE HostSends
  <2>1. PICK m, n :
          /\ Deliver(m, n, cpc \in Writing)
          /\ hpc \in Sending /\ hpc' = AfterSend[hpc] /\ UNCHANGED <<cpc, restarts>>
    BY <1>4, HostSays
  <2>2. waiting /\ event = FALSE /\ event' = TRUE
    BY <1>0, <1>4, UnreadView, SaysClean, HostSays
  <2>3. cpc \in Reading
    BY <2>2 DEF Endpoint, WaitReads
  <2>4. cpc = "exitResp" => hpc = "exitResp"
    BY <1>0, <2>1, <2>2 DEF CallerTurn
  <2> QED
    BY <2>1, <2>2, <2>3, <2>4 DEF CallerTurn
<1>5. CASE RangeEnds
  <2>1. /\ cpc = "rangeData" /\ cpc' = "returned" /\ Len(dst) >= toRead /\ ~waiting
        /\ UNCHANGED <<usb, len, dst, host>>
    BY <1>5 DEF RangeEnds, PayloadIn
  <2>2. toRead = len /\ arrived.kind = "nothing" /\ len \in Nat /\ Len(dst) \in Nat /\ hsent \in Nat
    BY <1>0, <2>1 DEF Streaming, Types, Endpoint, ArrivedLast
  <2>3. hpc = "stream" => hsent >= hlen
    BY <1>0, <2>1, <2>2 DEF Streaming, Streamed, Match, Gained
  <2>4. ~(restarts > 0 /\ hpc = "ack" /\ dst = <<>>)
    <3>1. dst = <<>> => Len(dst) = 0
      OBVIOUS
    <3>2. restarts > 0 => len > 0
      BY <1>1, <2>1 DEF Fresh
    <3> QED
      BY <2>1, <2>2, <3>1, <3>2
  <2>5. hpc = "header" \/ hpc = "stream" \/ (restarts > 0 /\ hpc = "body")
    BY <1>0, <2>1, <2>4 DEF DataTurn
  <2> QED
    BY <2>1, <2>2, <2>3, <2>5 DEF CallerTurn, host
<1>6. CASE AnyRange \/ SendExit
  <2>1. cpc = "returned" /\ cpc' \in {"rangeReq", "exitReq"} /\ UNCHANGED host
    BY <1>6 DEF AnyRange, ReadRange, SendExit
  <2> QED
    BY <1>0, <2>1 DEF CallerTurn, host
<1>7. CASE ~waiting /\ UNCHANGED <<event, client, host>>
  BY <1>0, <1>7 DEF CallerTurn, client, host
<1>8. CASE UNCHANGED <<event, arrived, client, host>>
  BY <1>0, <1>8 DEF CallerTurn, client, host
<1>9. CASE hpc = "stream" /\ hpc' = "header" /\ UNCHANGED <<event, client, restarts>>
  BY <1>0, <1>9 DEF CallerTurn, client
<1>10. CASE /\ hpc' = "header" /\ restarts' > 0
            /\ cpc' = cpc \/ (cpc \in Writing /\ cpc' = AfterWrite[cpc])
  BY <1>10 DEF CallerTurn
<1> QED
  BY <1>0, <1>2, <1>3, <1>4, <1>5, <1>6, <1>7, <1>8, <1>9, <1>10, UnreadView

LEMMA RangeTurnNext ==
  Types /\ Endpoint /\ Gaining /\ CallerTurn /\ RangeTurn /\ [Moves]_vars /\ Unread' => RangeTurn'
<1> SUFFICES ASSUME Types, Endpoint, Gaining, CallerTurn, RangeTurn, [Moves]_vars, Unread'
             PROVE  RangeTurn'
  OBVIOUS
<1> USE ClientNames, HostNames, NoMessages DEF Reading, Host
<1>1. CASE ClientWrites
  <2>1. /\ cpc \in Writing /\ cpc' = AfterWrite[cpc] /\ event' = FALSE /\ arrived'.kind = "nothing"
        /\ UNCHANGED restarts /\ page = Nothing
    BY <1>1, UnreadView, HostHears DEF ClientWrites, Written, Endpoint, WaitReads
  <2>2. cpc = "rangeReq" => hpc' = "ack" \/ (restarts > 0 /\ hpc' \in {"header", "stopped"})
    BY <1>1, <2>1, HostHears, HostHearsAll DEF CallerTurn
  <2>3. cpc = "rangeBody" => hpc' = "resp" \/ (restarts > 0 /\ hpc' = "header")
    BY <1>1, <2>1, HostHears, HostHearsAll DEF RangeTurn
  <2> QED
    BY <2>1, <2>2, <2>3 DEF RangeTurn
<1>2. CASE Takes(arrived) /\ event = TRUE /\ event' = FALSE /\ UNCHANGED host
  <2>1. /\ cpc' \notin {"rangeAck", "rangeResp"}
        /\ cpc' = "rangeBody" => cpc = "rangeAck"
        /\ cpc' = "rangeGo" => cpc = "rangeResp"
    BY <1>2, TakesShape
  <2> QED
    BY <1>2, <2>1 DEF RangeTurn, host
<1>3. CASE HostSends
  <2>1. PICK m, n :
          /\ Deliver(m, n, cpc \in Writing) /\ n \in Nat /\ m.n \in Nat
          /\ hpc \in Sending /\ hpc' = AfterSend[hpc] /\ UNCHANGED <<cpc, restarts>>
          /\ hpc \in {"ack", "resp"} => m.kind = "header" /\ m.id = "range" /\ n = 0
    BY <1>3, HostSays
  <2>2. Clean /\ urbs # <<>> /\ Head(urbs) \in Nat
    BY <2>1, UnreadView, Queue DEF Deliver
  <2>3. /\ waiting /\ event = FALSE /\ event' = TRUE
        /\ arrived' = IF n <= Head(urbs) THEN m ELSE Junk
    BY <2>1, <2>2, SaysClean
  <2>4. cpc \in Reading
    BY <2>3 DEF Endpoint, WaitReads
  <2>5. CASE cpc \in {"rangeAck", "rangeResp"}
    <3>1. (cpc = "rangeAck" => hpc = "ack") /\ (cpc = "rangeResp" => hpc = "resp")
      BY <2>1, <2>3 DEF RangeTurn
    <3>2. arrived' = m
      BY <2>1, <2>2, <2>3, <2>5, <3>1
    <3>3. IsReply(arrived', "range")
      BY <2>1, <2>5, <3>1, <3>2 DEF IsReply
    <3> QED
      BY <2>1, <2>3, <2>5, <3>1, <3>3 DEF RangeTurn, IsReply
  <2> QED
    BY <2>1, <2>4, <2>5 DEF RangeTurn
<1>4. CASE ~waiting /\ arrived' = Nothing /\ UNCHANGED <<event, client, host>>
  BY <1>4 DEF RangeTurn, client, host, IsReply
<1>5. CASE UNCHANGED <<event, arrived, client, host>>
  BY <1>5 DEF RangeTurn, client, host, IsReply
<1>6. CASE cpc' \in {"returned", "rangeReq", "exitReq"}
  BY <1>6 DEF RangeTurn
<1>7. CASE hpc = "stream" /\ cpc' = cpc
  BY <1>7 DEF RangeTurn
<1>8. CASE /\ hpc' = "header" /\ restarts' > 0
           /\ \/ UNCHANGED <<event, arrived, cpc>>
              \/ /\ arrived' = Nothing
                 /\ cpc' = cpc \/ (cpc \in Writing /\ cpc' = AfterWrite[cpc])
  BY <1>8 DEF RangeTurn, IsReply
<1> QED
  BY <1>1, <1>2, <1>3, <1>4, <1>5, <1>6, <1>7, <1>8, UnreadView DEF client

LEMMA DataTurnNext ==
  Types /\ Endpoint /\ Gaining /\ Streaming /\ Fresh /\ RangeTurn /\ DataTurn /\ [Moves]_vars /\ Unread'
    => DataTurn'
<1> SUFFICES ASSUME Types, Endpoint, Gaining, Streaming, Fresh, RangeTurn, DataTurn, [Moves]_vars,
                    Unread', cpc' = "rangeData"
             PROVE  \/ hpc' = "stream"
                    \/ hpc' = "header" /\ (restarts' > 0 \/ (Past' /\ Streamed'))
                    \/ restarts' > 0 /\ hpc' = "ack" /\ dst' = <<>> /\ ~event'
                    \/ restarts' > 0 /\ hpc' = "body"
  BY DEF DataTurn
<1> USE ClientNames, HostNames, NoMessages DEF Reading, Host
<1>1. CASE ClientWrites
  <2>1. /\ cpc = "rangeGo" /\ event' = FALSE /\ UNCHANGED <<restarts, dst>> /\ page = Nothing
    BY <1>1, UnreadView, HostHears DEF ClientWrites, Written, Endpoint, WaitReads
  <2>2. hpc' = "stream" \/ (restarts > 0 /\ hpc' \in {"ack", "header"})
    BY <1>1, <2>1, HostHears, HostHearsAll DEF RangeTurn
  <2> QED
    BY <2>1, <2>2 DEF Fresh
<1>2. CASE Takes(arrived) /\ event = TRUE /\ event' = FALSE /\ arrived' = Nothing /\ UNCHANGED host
  <2>1. /\ cpc = "rangeData" /\ UNCHANGED <<offset, len>>
        /\ arrived.kind = "payload" => Len(dst') = Len(dst) + arrived.n
        /\ arrived.kind \in {"payload", "header"}
        /\ Len(dst') \in Nat
    BY <1>2, TakesShape
  <2>2. CASE arrived.kind = "header"
    BY <1>2, <2>1, <2>2 DEF Gaining, host
  <2>3. CASE arrived.kind = "payload"
    <3>1. Streamed => Streamed'
      BY <1>2, <2>1, <2>3 DEF Streamed, Match, Gained, host
    <3>2. Past => Past'
      BY <1>2 DEF Past, host
    <3> QED
      BY <1>2, <2>1, <3>1, <3>2 DEF DataTurn, host
  <2> QED
    BY <2>1, <2>2, <2>3
<1>3. CASE HostSends
  <2>1. /\ hpc \in Sending /\ hpc' = AfterSend[hpc] /\ UNCHANGED <<cpc, restarts>>
    BY <1>3, HostSays
  <2> QED
    BY <2>1 DEF DataTurn
<1>4. CASE ~waiting /\ arrived' = Nothing /\ UNCHANGED <<event, client, host>>
  <2>1. Gained' = Gained
    BY <1>4, UnreadView DEF Gained
  <2> QED
    BY <1>4, <2>1 DEF DataTurn, Past, Streamed, Match, client, host
<1>5. CASE UNCHANGED <<event, arrived, client, host>>
  BY <1>5 DEF DataTurn, Past, Streamed, Match, Gained, client, host
<1>6. CASE /\ hpc = "stream" /\ Past /\ hpc' = "header"
           /\ UNCHANGED <<arrived, client, hoff, hlen, hsent>>
  <2>1. Streamed
    BY <1>6 DEF Streaming, client
  <2> QED
    BY <1>6, <2>1 DEF Past, Streamed, Match, Gained, client
<1>7. CASE hpc' = "header" /\ restarts' > 0
  BY <1>7
<1> QED
  BY <1>1, <1>2, <1>3, <1>4, <1>5, <1>6, <1>7, UnreadView

LEMMA TurnNext ==
  Types /\ Endpoint /\ Request /\ Fresh /\ Turn /\ [Moves]_vars => Turn'
<1> SUFFICES ASSUME Types, Endpoint, Request, Fresh, Turn, [Moves]_vars, Unread'
             PROVE  (NoMessage /\ ListTurn /\ CallerTurn /\ RangeTurn /\ DataTurn)'
  BY DEF Turn
<1>1. Gaining /\ Streaming
  BY DEF Request
<1>2. Unread
  BY <1>1, UnreadView
<1>3. NoMessage /\ ListTurn /\ CallerTurn /\ RangeTurn /\ DataTurn
  BY <1>2 DEF Turn
<1> QED
  BY <1>1, <1>3, NoMessageNext, ListTurnNext, CallerTurnNext, RangeTurnNext, DataTurnNext

-----------------------------------------------------------------------------
(* The session. *)
LEMMA SessionInit == Init => SessionInv
<1> SUFFICES ASSUME Init PROVE SessionInv
  OBVIOUS
<1> USE ClientNames, HostNames, NoMessages DEF Reading, Settled, Host
<1>1. /\ urbs = <<>> /\ event = FALSE /\ waiting = FALSE /\ arrived = Nothing /\ page = Nothing
      /\ timeouts = 0 /\ failures = 0 /\ restarts = 0 /\ cpc = "listReq" /\ call = 1
      /\ offset = 0 /\ len = 0 /\ toRead = 0 /\ dst = <<>> /\ hpc = "header" /\ hoff = 0
      /\ hlen = 0 /\ hsent = 0
  BY DEF Init, UsbInit
<1>2. Len(urbs) = 0 /\ Len(dst) = 0
  BY <1>1
<1>3. Types
  <2>1. urbs \in Seq(Nat) /\ dst \in Seq(UnitSet)
    BY <1>1
  <2>2. timeouts \in 0..MaxTimeouts /\ failures \in 0..MaxFailures /\ restarts \in 0..MaxRestarts
    BY <1>1, Lengths
  <2>3. arrived.kind = "nothing" /\ page = Nothing /\ event \in BOOLEAN /\ waiting \in BOOLEAN
    BY <1>1
  <2>4. call \in Nat \ {0} /\ {offset, len, toRead, hoff, hlen, hsent} \subseteq Nat
    BY <1>1
  <2> QED
    BY <1>1, <2>1, <2>2, <2>3, <2>4 DEF Types
<1>4. Endpoint
  BY <1>1, <1>2 DEF Endpoint, Pending, CleanSoFar, ArrivedLast, WaitReads, PageLate, Clean, Signals
<1>5. Request
  BY <1>1 DEF Request, Acked, BodyDue, Responded, GoDue, Streaming, Gaining
<1>6. Fresh /\ DstKept
  BY <1>1, <1>2 DEF Fresh, DstKept
<1>7. Turn
  BY <1>1 DEF Turn, NoMessage, ListTurn, CallerTurn, RangeTurn, DataTurn
<1>8. RangeIntact
  BY <1>1 DEF RangeIntact
<1> QED
  BY <1>3, <1>4, <1>5, <1>6, <1>7, <1>8 DEF SessionInv

LEMMA SessionNext == SessionInv /\ [Moves]_vars => SessionInv'
<1> SUFFICES ASSUME SessionInv, [Moves]_vars PROVE SessionInv'
  OBVIOUS
<1>1. /\ Types /\ Endpoint /\ Request /\ Fresh /\ DstKept /\ Turn /\ RangeIntact
      /\ Acked /\ BodyDue /\ Responded /\ GoDue /\ Streaming /\ Gaining
  BY DEF SessionInv, Request
<1>2. Types' /\ Endpoint'
  BY <1>1, TypesNext, EndpointNext
<1>3. Request'
  BY <1>1, AckedNext, BodyDueNext, RespondedNext, GoDueNext, StreamingNext, GainingNext DEF Request
<1>4. Fresh' /\ DstKept' /\ RangeIntact'
  BY <1>1, FreshNext, DstKeptNext, RangeIntactNext
<1>5. Turn'
  BY <1>1, TurnNext
<1> QED
  BY <1>2, <1>3, <1>4, <1>5 DEF SessionInv

(* The invariant holds throughout a session. *)
THEOREM SessionInvariant == Spec => []SessionInv
<1>1. SessionInv /\ [Next]_vars => SessionInv'
  BY SessionNext DEF Moves
<1> QED
  BY SessionInit, <1>1, PTL DEF Spec

-----------------------------------------------------------------------------
(* What follows from it. *)
LEMMA TypeFollows == SessionInv => TypeOK
<1> SUFFICES ASSUME SessionInv PROVE TypeOK
  OBVIOUS
<1>1. Types /\ Pending /\ WaitReads /\ Len(dst) <= toRead + (IF restarts > 0 THEN 1 ELSE 0)
  BY DEF SessionInv, Endpoint, DstKept
<1>2. Len(urbs) \in Nat /\ Len(urbs) <= 2
  <2>1. Len(urbs) \in Nat /\ event \in BOOLEAN /\ waiting \in BOOLEAN
    BY <1>1, Queue DEF Types
  <2>2. PICK s \in {0, 1} : s = Signals
    BY DEF Signals
  <2>3. Len(urbs) + s <= IF waiting THEN 2 ELSE 1
    BY <1>1, <2>2 DEF Pending
  <2> QED
    BY <2>1, <2>3
<1>3. Len(dst) <= toRead + 1
  <2>1. Len(dst) \in Nat /\ toRead \in Nat
    BY <1>1 DEF Types
  <2> QED
    BY <1>1, <2>1
<1> QED
  BY <1>1, <1>2, <1>3 DEF Types, TypeOK, WaitReads

LEMMA ShortFollows == SessionInv => ShortMeansFault
<1> SUFFICES ASSUME SessionInv, cpc = "returned", call > 1, Len(dst) < len, ~(Faults > 0)
             PROVE  FALSE
  BY DEF ShortMeansFault
<1>1. Types
  BY DEF SessionInv
<1>2. timeouts \in Nat /\ failures \in Nat /\ restarts \in Nat /\ Len(dst) \in Nat /\ len \in Nat
  BY <1>1, Lengths DEF Types
<1>3. Unread /\ restarts = 0
  BY <1>2 DEF Faults, Unread
<1>4. Len(dst) >= len
  BY <1>3 DEF SessionInv, Turn, CallerTurn
<1> QED
  BY <1>2, <1>4

LEMMA SendersMeet == SessionInv => BlockedMeansReadFailed
<1> SUFFICES ASSUME SessionInv, BothSending, ~(timeouts + failures > 0) PROVE FALSE
  BY DEF BlockedMeansReadFailed
<1> USE ClientNames, HostNames DEF Host
<1>1. Unread
  BY Lengths DEF SessionInv, Types, Unread
<1>2. Types /\ ListTurn /\ CallerTurn /\ RangeTurn
  BY <1>1 DEF SessionInv, Turn
<1>3. cpc \in Writing /\ hpc \in Sending /\ (hpc = "stream" => ~Past)
  BY <1>2, ChunkShape DEF BothSending, HostHasMessage
<1>4. cpc \notin {"listReq", "listAck", "rangeBody", "rangeGo"}
  BY <1>2, <1>3 DEF ListTurn, RangeTurn
<1>5. cpc \in {"rangeReq", "exitReq"} => hpc = "stream" /\ hsent >= hlen
  BY <1>2, <1>3 DEF CallerTurn
<1> QED
  BY <1>3, <1>4, <1>5 DEF Past

LEMMA ReadersMeet == SessionInv => BothReadingMeansFault
<1> SUFFICES ASSUME SessionInv, waiting, ~event, hpc \in {"header", "body", "listAck", "rangeAck"},
                    ~(Faults > 0)
             PROVE  offset + len > FileLen
  BY DEF BothReadingMeansFault
<1> USE DEF Host
<1>1. Types /\ Unread /\ restarts = 0
  <2>1. Types
    BY DEF SessionInv
  <2>2. timeouts \in Nat /\ failures \in Nat /\ restarts \in Nat
    BY <2>1, Lengths DEF Types
  <2> QED
    BY <2>1, <2>2 DEF Faults, Unread
<1>2. ListTurn /\ CallerTurn /\ RangeTurn /\ DataTurn
  BY <1>1 DEF SessionInv, Turn
<1>3. cpc \in Reading /\ arrived.kind = "nothing" /\ (cpc = "rangeData" => Len(dst) < toRead)
  BY DEF SessionInv, Endpoint, WaitReads, ArrivedLast, DstKept
<1>4. cpc = "rangeData"
  BY <1>1, <1>2, <1>3 DEF Reading, ListTurn, CallerTurn, RangeTurn
<1>5. Past /\ Match /\ hsent = Len(dst) + Gained /\ toRead = len
  BY <1>1, <1>2, <1>4 DEF DataTurn, Streamed, SessionInv, Request, Streaming
<1>6. Gained = 0
  BY <1>3 DEF Gained
<1>7. /\ Len(dst) \in Nat /\ len \in Nat /\ offset \in Nat /\ hsent = Len(dst)
      /\ hlen = len /\ hoff = offset /\ Len(dst) < len
  BY <1>1, <1>3, <1>4, <1>5, <1>6 DEF Types, Match
<1> QED
  BY <1>5, <1>7, Lengths DEF Past

-----------------------------------------------------------------------------
(* The endpoint never holds more than two URBs, and dst never more than is *)
(* announced and a header: postRead in a loop does not pile buffers up,    *)
(* whatever times out, fails or is reset (usbds_transport.cpp postChunk).  *)
THEOREM SessionTypeCorrect == Spec => []TypeOK
BY SessionInvariant, TypeFollows, PTL

(* What fileRange has copied to its caller is at every moment the start of *)
(* the range asked for, in order and without a gap, but for headers that   *)
(* an error of the host may bring.                                         *)
THEOREM RangeIntactAlways == Spec => []RangeIntact
<1>1. SessionInv => RangeIntact
  BY DEF SessionInv
<1> QED
  BY SessionInvariant, <1>1, PTL

(* fileRange returns fewer bytes than asked for only after a timeout, a    *)
(* transfer that could not be posted, a report that was not to be had or   *)
(* an error of the host.                                                   *)
THEOREM ShortMeansFaultAlways == Spec => []ShortMeansFault
BY SessionInvariant, ShortFollows, PTL

(* Client and host never both wait to send, whatever errors the host has,  *)
(* before a read has timed out or a transfer has failed, in the post or in *)
(* the report.                                                             *)
THEOREM BlockedMeansReadFailedAlways == Spec => []BlockedMeansReadFailed
BY SessionInvariant, SendersMeet, PTL

(* Client and host never both wait to read, before the first fault (a      *)
(* reply lost with its report is one), in a range that lies within the     *)
(* file.                                                                   *)
THEOREM BothReadingMeansFaultAlways == Spec => []BothReadingMeansFault
BY SessionInvariant, ReadersMeet, PTL

(* Nothing overwrites bounce_ under a write before a read has timed out.   *)
THEOREM WriteUndisturbedAlways == Spec => []WriteUndisturbed
<1>1. SessionInv => WriteUndisturbed
  BY DEF SessionInv, Endpoint, PageLate, WriteUndisturbed
<1> QED
  BY SessionInvariant, <1>1, PTL

=============================================================================
