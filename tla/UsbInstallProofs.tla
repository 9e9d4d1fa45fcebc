--------------------------- MODULE UsbInstallProofs ---------------------------
(***************************************************************************)
(* Theorems about an install over USB: its session keeps the invariant of  *)
(* a DBI0 session, whatever the installer reads, and so the session is a   *)
(* source as Installer takes it.                                           *)
(***************************************************************************)
EXTENDS UsbInstall, OutcomeProofs

S == INSTANCE Dbi0Proofs WITH ListLen <- 1, MaxCalls <- 0, MaxRestarts <- 0

-----------------------------------------------------------------------------
(* The session under the install is that of Dbi0Proofs. *)
LEMMA SessionConstants ==
  /\ Segment \in Nat \ {0}
  /\ {FileLen, 1, 0, 0} \subseteq Nat
  /\ {MaxTimeouts, MaxFailures} \subseteq Nat
BY SegmentAssumption, UsbLengthsAssumption

LEMMA SessionBegins == D!Init => S!SessionInv
<1>1. D!Init => S!Init
  BY DEF D!Init, S!Init, D!UsbInit, S!UsbInit, D!Nothing, S!Nothing
<1> QED
  BY <1>1, SessionConstants, S!SessionInit, Zenon

LEMMA SessionGoesOn == S!SessionInv /\ [S!Moves]_(S!vars) => S!SessionInv'
BY SessionConstants, S!SessionNext, Zenon

LEMMA SameWrites == D!ClientWrites => S!ClientWrites
BY DEF D!ClientWrites, D!Writing, D!AfterWrite, D!HostReads, D!HostReadsHeader, D!HostReadsBody,
       D!HostReadsAck, D!Serve, D!OnTheBus, D!Nothing, D!Outgoing, D!Header, D!Body, D!Written,
       S!ClientWrites, S!Writing, S!AfterWrite, S!HostReads, S!HostReadsHeader, S!HostReadsBody,
       S!HostReadsAck, S!Serve, S!OnTheBus, S!Nothing, S!Outgoing, S!Header, S!Body, S!Written

LEMMA SamePost == D!PostRead => S!PostRead
BY DEF D!PostRead, D!Reads, D!Reading, D!PayloadIn, D!PostBuffer, D!Want, D!HeaderRoom, D!Min,
       D!Nothing, D!client, D!host,
       S!PostRead, S!Reads, S!Reading, S!PayloadIn, S!PostBuffer, S!Want, S!HeaderRoom, S!Min,
       S!Nothing, S!client, S!host

LEMMA SameTakes == \A m : D!Takes(m) => S!Takes(m)
BY DEF D!Takes, D!ListReply, D!ListPayload, D!RangeAck, D!RangeResponse, D!RangePayload, D!ExitReply,
       D!IsReply, D!Units, D!Min,
       S!Takes, S!ListReply, S!ListPayload, S!RangeAck, S!RangeResponse, S!RangePayload, S!ExitReply,
       S!IsReply, S!Units, S!Min

LEMMA SameReturns == (D!ReadReturns => S!ReadReturns) /\ (D!ReadTimesOut => S!ReadTimesOut)
BY SameTakes
   DEF D!ReadReturns, D!ReadTimesOut, D!WaitReturns, D!WaitTimesOut, D!Nothing, D!host,
       S!ReadReturns, S!ReadTimesOut, S!WaitReturns, S!WaitTimesOut, S!Nothing, S!host

LEMMA SameFailures == D!TransferFails => S!TransferFails
BY SameTakes
   DEF D!TransferFails, D!ClientWriteFails, D!ReadFails, D!PostFails, D!ReportFails, D!Writing, D!AfterWrite,
       D!Reads, D!Reading, D!PayloadIn, D!Nothing, D!host,
       S!TransferFails, S!ClientWriteFails, S!ReadFails, S!PostFails, S!ReportFails, S!Writing, S!AfterWrite,
       S!Reads, S!Reading, S!PayloadIn, S!Nothing, S!host

LEMMA SameHost == D!HostStep => S!HostStep
BY DEF D!HostStep, D!HostSends, D!HostStreamEnds, D!HostHasMessage, D!Sending, D!AfterSend,
       D!ChunkLen, D!Min, D!HostMessage, D!Header, D!Payload, D!HeaderRoom, D!Deliver, D!Awaited,
       D!Junk, D!Writing, D!AfterWrite, D!client, D!usb,
       S!HostStep, S!HostSends, S!HostStreamEnds, S!HostHasMessage, S!Sending, S!AfterSend,
       S!ChunkLen, S!Min, S!HostMessage, S!Header, S!Payload, S!HeaderRoom, S!Deliver, S!Awaited,
       S!Junk, S!Writing, S!AfterWrite, S!client, S!usb

LEMMA SameCaller ==
  /\ D!RangeEnds => S!RangeEnds
  /\ D!SendExit => S!SendExit
  /\ \A off, n : D!ReadRange(off, n) => S!ReadRange(off, n)
BY DEF D!RangeEnds, D!PayloadIn, D!SendExit, D!ReadRange, D!usb, D!host,
       S!RangeEnds, S!PayloadIn, S!SendExit, S!ReadRange, S!usb, S!host

-----------------------------------------------------------------------------
(* What the session tells the installer. *)
LEMMA SessionTells ==
  ASSUME S!SessionInv
  PROVE  /\ Len(dst) \in Nat /\ len \in Nat /\ offset \in Nat /\ call \in Nat \ {0}
         /\ DOMAIN dst = 1..Len(dst) /\ (dst = <<>> <=> Len(dst) = 0)
         /\ timeouts \in Nat /\ failures \in Nat
         /\ cpc = "returned" /\ call > 1 =>
              /\ Len(dst) <= len
              /\ \A k \in 1..Len(dst) : dst[k] = <<"file", offset + k - 1>>
              /\ Faults = 0 => Len(dst) >= len
<1>1. /\ S!Types /\ S!Fresh /\ S!DstKept /\ S!RangeIntact
  BY DEF S!SessionInv
<1>2. S!ShortMeansFault
  BY SessionConstants, S!ShortFollows, Zenon
<1>3. /\ dst \in Seq(S!UnitSet) /\ len \in Nat /\ offset \in Nat /\ toRead \in Nat
      /\ call \in Nat \ {0} /\ restarts \in 0..0
      /\ timeouts \in 0..MaxTimeouts /\ failures \in 0..MaxFailures
  BY <1>1 DEF S!Types
<1>4. Len(dst) \in Nat /\ DOMAIN dst = 1..Len(dst) /\ (dst = <<>> <=> Len(dst) = 0)
  BY <1>3, EmptySeq
<1>5. timeouts \in Nat /\ failures \in Nat /\ restarts = 0
  BY <1>3, SessionConstants
<1>6. Len(dst) <= toRead
  BY <1>1, <1>3, <1>4, <1>5 DEF S!DstKept
<1>7. cpc = "returned" /\ dst # <<>> => toRead = len
  BY <1>1 DEF S!Fresh
<1>8. ASSUME cpc = "returned", call > 1
      PROVE  /\ Len(dst) <= len
             /\ \A k \in 1..Len(dst) : dst[k] = <<"file", offset + k - 1>>
             /\ Faults = 0 => Len(dst) >= len
  <2>1. Len(dst) <= len
    BY <1>3, <1>4, <1>6, <1>7, <1>8
  <2>2. \A k \in 1..Len(dst) : dst[k] = <<"file", offset + k - 1>>
    BY <1>1, <1>4, <1>5, <1>8 DEF S!RangeIntact
  <2>3. Faults = 0 => Len(dst) >= len
    <3>1. Faults = 0 => ~(S!Faults > 0)
      BY <1>5 DEF Faults, S!Faults
    <3> QED
      BY <1>2, <1>3, <1>4, <1>8, <3>1 DEF S!ShortMeansFault
  <2> QED
    BY <2>1, <2>2, <2>3
<1> QED
  BY <1>3, <1>4, <1>5, <1>8

-----------------------------------------------------------------------------
(* What the installer asks of the session. *)
LEMMA WantsShape ==
  ASSUME TypeAt, parsed \in Nat, NEW r \in Wants
  PROVE  /\ r = <<r[1], r[2]>> /\ r[1] \in Nat /\ r[2] \in Nat /\ pc # "idle"
         /\ pc = "stream" => /\ written < Entry.size /\ r[1] = EntryAt(i) + written
                             /\ r[2] \in 1..Entry.size - written /\ r[2] <= Chunk
<1>0. /\ i \in Nat \ {0} /\ nsp \in Containers /\ written \in Nat
  BY DEF TypeAt, TypeInv, TypeOK, FrameOK
<1>1. i <= Len(nsp) => EntryAt(i) \in Nat /\ Entry.size \in Nat
  <2>1. nsp \in Seq(Entries)
    BY <1>0, ContainersAssumption
  <2>2. i <= Len(nsp) => i \in DOMAIN nsp
    BY <1>0, <2>1
  <2>3. i <= Len(nsp) => nsp[i] \in Entries
    BY <2>1, <2>2
  <2> QED
    BY <1>0, <2>2, <2>3, EntryOffsetsAssumption DEF EntryAt, Entry, Entries
<1>2. CASE pc = "parse"
  <2>1. Wants = {<<parsed, 1>>}
    BY <1>2, Zenon DEF Wants
  <2> QED
    BY <1>2, <2>1
<1>3. CASE pc = "nca" /\ AtEntry(IsNcz)
  <2>1. Wants = IF Entry.cid = BadName THEN {} ELSE {<<EntryAt(i), 1>>}
    BY <1>3, Zenon DEF Wants
  <2>2. i <= Len(nsp)
    BY <1>3 DEF AtEntry
  <2> QED
    BY <1>1, <1>3, <2>1, <2>2
<1>4. CASE pc = "stream" /\ written < Entry.size
  <2>1. Wants = NextPart
    BY <1>4, Zenon DEF Wants
  <2>2. i <= Len(nsp)
    BY <1>4 DEF TypeAt, AtContent
  <2>3. Chunk \in Nat \ {0}
    BY ChunkAssumption
  <2>4. r = <<EntryAt(i) + written, IF IsNcz(Entry) /\ written = 0 THEN 1 ELSE OneChunk>>
    BY <2>1 DEF NextPart
  <2>5. OneChunk \in 1..Entry.size - written /\ OneChunk <= Chunk
    BY <1>0, <1>1, <1>4, <2>2, <2>3 DEF OneChunk, Left
  <2> QED
    BY <1>0, <1>1, <1>4, <2>2, <2>3, <2>4, <2>5
<1>5. CASE pc = "tik" /\ AtEntry(IsTicket)
  <2>1. Wants = {<<EntryAt(i), Entry.size>>}
    BY <1>5, Zenon DEF Wants
  <2>2. i <= Len(nsp)
    BY <1>5 DEF AtEntry
  <2> QED
    BY <1>1, <1>5, <2>1, <2>2
<1>6. CASE pc = "meta" /\ AtEntry(IsMeta)
  <2>1. Wants = {<<EntryAt(i), Entry.size>>}
    BY <1>6, Zenon DEF Wants
  <2>2. i <= Len(nsp)
    BY <1>6 DEF AtEntry
  <2> QED
    BY <1>1, <1>6, <2>1, <2>2
<1>7. CASE ~(\/ pc = "parse" \/ (pc = "nca" /\ AtEntry(IsNcz)) \/ (pc = "stream" /\ written < Entry.size)
             \/ (pc = "tik" /\ AtEntry(IsTicket)) \/ (pc = "meta" /\ AtEntry(IsMeta)))
  <2>1. Wants = {}
    BY <1>7, Zenon DEF Wants
  <2> QED
    BY <2>1
<1> QED
  BY <1>2, <1>3, <1>4, <1>5, <1>6, <1>7

LEMMA WantsStay == UNCHANGED <<vars, parsed>> => Wants' = Wants
<1> SUFFICES ASSUME UNCHANGED <<vars, parsed>> PROVE Wants' = Wants
  OBVIOUS
<1>1. pc' = pc /\ i' = i /\ nsp' = nsp /\ written' = written /\ parsed' = parsed
  BY DEF vars, frame
<1> QED
  BY <1>1, Zenon DEF Wants, AtEntry, Entry, NextPart, EntryAt, OneChunk, Left

-----------------------------------------------------------------------------
(* The invariant.  While a read is with the client it is one that the      *)
(* installer wants where it stands.                                        *)
AskedInv ==
  /\ parsed \in Nat
  /\ asked => call > 1 /\ <<offset, len>> \in Wants

UsbInv == S!SessionInv /\ AskedInv /\ TypeAt /\ BytesInv

(* A step of the install over USB is one of its session, or leaves that alone. *)
LEMMA SessionMoves ==
  UsbInv /\ [UsbNext]_usbVars => [S!Moves]_(S!vars)
<1> SUFFICES ASSUME UsbInv, [UsbNext]_usbVars PROVE [S!Moves]_(S!vars)
  OBVIOUS
<1>1. CASE Ask
  <2>1. PICK r \in Wants : D!ReadRange(r[1], r[2])
    BY <1>1 DEF Ask
  <2>2. S!ReadRange(r[1], r[2]) /\ r[1] \in Nat /\ r[2] \in Nat
    BY <2>1, SameCaller, WantsShape DEF UsbInv, AskedInv
  <2> QED
    BY <2>2 DEF S!Moves, S!AnyRange
<1>2. CASE EndSession
  BY <1>2, SameCaller DEF EndSession, S!Moves, S!Next, S!ClientStep
<1>3. CASE ClientMoves
  BY <1>3, SameWrites, SamePost, SameReturns, SameCaller
     DEF ClientMoves, S!Moves, S!Next, S!ClientStep
<1>4. CASE HostMoves
  BY <1>4, SameHost DEF HostMoves, S!Moves, S!Next
<1>5. CASE TransferFails
  BY <1>5, SameFailures DEF TransferFails, S!Moves, S!Next
<1>6. CASE Use \/ NoRead \/ StartOverUsb \/ UNCHANGED usbVars
  <2>1. UNCHANGED session
    BY <1>6 DEF Use, NoRead, StartOverUsb, usbVars
  <2> QED
    BY <2>1 DEF session, S!vars, S!usb, S!client, S!host
<1> QED
  BY <1>1, <1>2, <1>3, <1>4, <1>5, <1>6 DEF UsbNext, Console

(* A part of an NCA that came over the session is one that Installer's own *)
(* read could have brought.                                                *)
LEMMA PartIsARead ==
  ASSUME UsbInv, asked, cpc = "returned", pc = "stream", dst # <<>>
  PROVE  Len(dst) \in Reads(Entry.size - written) /\ Brought = SourceUnits(written, Len(dst))
<1>1. /\ written < Entry.size /\ offset = EntryAt(i) + written
      /\ len \in 1..Entry.size - written /\ len <= Chunk
  BY WantsShape DEF UsbInv, AskedInv
<1>2. /\ Len(dst) \in Nat /\ DOMAIN dst = 1..Len(dst) /\ Len(dst) # 0 /\ Len(dst) <= len
      /\ \A k \in 1..Len(dst) : dst[k] = <<"file", offset + k - 1>>
  BY SessionTells DEF UsbInv, AskedInv
<1>3. Entry.size \in Nat /\ written \in Nat /\ Chunk \in Nat
  BY SizeAtContent, ChunkAssumption DEF UsbInv
<1>4. PICK n \in Nat : n = Len(dst)
  BY <1>2
<1>5. n \in 1..Chunk /\ n <= Entry.size - written
  BY <1>1, <1>2, <1>3, <1>4
<1>6. EntryAt(i) \in Nat
  BY EntryOffsetsAssumption, ContainerShape
     DEF UsbInv, TypeAt, TypeInv, TypeOK, FrameOK, AtContent, EntryAt
<1>7. ASSUME NEW k \in 1..n
      PROVE  (IF dst[k][1] = "file" THEN dst[k][2] - EntryAt(i) ELSE Foreign) = written + k - 1
  <2>1. dst[k][1] = "file" /\ dst[k][2] = offset + k - 1
    BY <1>2, <1>4, <1>7
  <2> QED
    BY <1>1, <1>3, <1>6, <2>1
<1>8. Brought = SourceUnits(written, n)
  BY <1>2, <1>4, <1>7 DEF Brought, SourceUnits
<1> QED
  BY <1>4, <1>5, <1>8 DEF Reads

(* So every step of an install over USB is one of Installer, or none. *)
LEMMA InstallerMoves == UsbInv /\ [UsbNext]_usbVars => [Next]_vars
<1> SUFFICES ASSUME UsbInv, [UsbNext]_usbVars PROVE [Next]_vars
  OBVIOUS
<1>1. CASE Use
  <2>1. asked /\ cpc = "returned"
    BY <1>1 DEF Use
  <2>2. CASE UseDirectory
    BY <2>2 DEF UseDirectory, Next, Step
  <2>3. CASE UseWhole
    BY <2>3 DEF UseWhole, Next, Step
  <2>4. CASE UsePart
    <3>1. /\ pc = "stream"
          /\ UNCHANGED <<nsp, keyset, i, cur, phase, result, backend, content, metas, tickets, history>>
      BY <2>4 DEF UsePart
    <3>2. IsContent(Entry) /\ Entry.size \in Nat /\ written \in Nat
      BY <3>1, SizeAtContent DEF UsbInv
    <3>3. written < Entry.size
      BY <2>1, <3>1, WantsShape DEF UsbInv, AskedInv
    <3>4. CASE dst # <<>> /\ WriteOn(Brought)
      <4>1. \E n \in Reads(Entry.size - written) : WriteOn(SourceUnits(written, n))
        BY <2>1, <3>1, <3>4, PartIsARead
      <4> QED
        BY <3>1, <3>2, <4>1 DEF StreamChunk, ReconstructNcz, IsContent, Next, Step
    <3>5. CASE GiveUp
      BY <3>1, <3>2, <3>3, <3>5 DEF StreamChunk, ReconstructNcz, IsContent, Next, Step
    <3>6. CASE dst = <<>> /\ IsNcz(Entry) /\ written > 0 /\ pc' = "register" /\ UNCHANGED <<written, placeholders>>
      BY <3>1, <3>2, <3>6 DEF ReconstructNcz, Next, Step
    <3> QED
      BY <2>4, <3>4, <3>5, <3>6 DEF UsePart
  <2> QED
    BY <1>1, <2>2, <2>3, <2>4 DEF Use
<1>2. CASE NoRead
  BY <1>2 DEF NoRead, Next
<1>3. CASE StartOverUsb
  BY <1>3 DEF StartOverUsb, Next
<1>4. CASE Ask \/ EndSession \/ ClientMoves \/ HostMoves \/ TransferFails \/ UNCHANGED usbVars
  BY <1>4 DEF Ask, EndSession, ClientMoves, HostMoves, TransferFails, usbVars
<1> QED
  BY <1>1, <1>2, <1>3, <1>4 DEF UsbNext, Console

(* What the session does under a read, it does for that read. *)
LEMMA CallKept ==
  UsbInv /\ (ClientMoves \/ HostMoves \/ TransferFails) => UNCHANGED <<call, offset, len>>
BY DEF ClientMoves, HostMoves, TransferFails, D!ClientWrites, D!PostRead, D!ReadReturns, D!ReadTimesOut,
       D!RangeEnds, D!HostStep, D!HostSends, D!HostStreamEnds, D!TransferFails, D!ClientWriteFails,
       D!ReadFails, D!Takes, D!client

LEMMA AskedNext == UsbInv /\ [UsbNext]_usbVars => AskedInv'
<1> SUFFICES ASSUME UsbInv, [UsbNext]_usbVars PROVE AskedInv'
  OBVIOUS
<1>0. AskedInv /\ call \in Nat \ {0} /\ TypeAt
  BY SessionTells DEF UsbInv
<1>1. CASE Ask
  <2>1. PICK r \in Wants : D!ReadRange(r[1], r[2])
    BY <1>1 DEF Ask
  <2>2. r = <<r[1], r[2]>> /\ Wants' = Wants
    BY <1>0, <1>1, <2>1, WantsShape, WantsStay DEF AskedInv, Ask
  <2>3. call' = call + 1 /\ offset' = r[1] /\ len' = r[2] /\ cpc = "returned"
    BY <2>1 DEF D!ReadRange
  <2> QED
    BY <1>0, <1>1, <2>2, <2>3 DEF AskedInv, Ask
<1>2. CASE Use
  <2>1. asked' = FALSE /\ parsed' \in Nat
    BY <1>0, <1>2 DEF Use, UseDirectory, UsePart, UseWhole, AskedInv
  <2> QED
    BY <2>1 DEF AskedInv
<1>3. CASE NoRead
  BY <1>0, <1>3 DEF NoRead, AskedInv
<1>4. CASE StartOverUsb \/ EndSession
  <2>1. pc = "idle" /\ UNCHANGED <<asked, parsed>>
    BY <1>4 DEF StartOverUsb, EndSession, Start
  <2>2. ~asked
    BY <1>0, <2>1, WantsShape DEF AskedInv
  <2> QED
    BY <1>0, <2>1, <2>2 DEF AskedInv
<1>5. CASE ClientMoves \/ HostMoves \/ TransferFails
  <2>1. UNCHANGED <<call, offset, len, vars, asked, parsed>>
    BY <1>5, CallKept DEF UsbInv, ClientMoves, HostMoves, TransferFails
  <2>2. Wants' = Wants
    BY <2>1, WantsStay
  <2> QED
    BY <1>0, <2>1, <2>2 DEF AskedInv
<1>6. CASE UNCHANGED usbVars
  <2>1. UNCHANGED <<call, offset, len, vars, asked, parsed>>
    BY <1>6 DEF usbVars, session
  <2>2. Wants' = Wants
    BY <2>1, WantsStay
  <2> QED
    BY <1>0, <2>1, <2>2 DEF AskedInv
<1> QED
  BY <1>1, <1>2, <1>3, <1>4, <1>5, <1>6 DEF UsbNext, Console

LEMMA UsbInvInit == UsbInit => UsbInv
<1> SUFFICES ASSUME UsbInit PROVE UsbInv
  OBVIOUS
<1>1. S!SessionInv
  BY SessionBegins DEF UsbInit
<1>2. AskedInv
  BY DEF UsbInit, AskedInv
<1>3. TypeAt /\ BytesInv
  BY TypeAtInit DEF UsbInit, Init, BytesInv, FreshId, CurOnly, NcaWhole, RegisteredIntact
<1> QED
  BY <1>1, <1>2, <1>3 DEF UsbInv

LEMMA UsbInvNext == UsbInv /\ [UsbNext]_usbVars => UsbInv'
<1> SUFFICES ASSUME UsbInv, [UsbNext]_usbVars PROVE UsbInv'
  OBVIOUS
<1>1. S!SessionInv'
  BY SessionMoves, SessionGoesOn DEF UsbInv
<1>2. AskedInv'
  BY AskedNext
<1>3. TypeAt' /\ BytesInv'
  BY InstallerMoves, TypeAtNext, CurNext, IntactNext DEF UsbInv, BytesInv
<1> QED
  BY <1>1, <1>2, <1>3 DEF UsbInv

(* The session is a source as Installer takes it: with a host that has no  *)
(* errors of its own, an install over USB is an install as Installer       *)
(* describes it, for every segment size, file and layout of the container, *)
(* and whatever times out or fails on the cable.  So what InstallerProofs  *)
(* and OutcomeProofs say of an install holds over USB.                     *)
THEOREM ImplementsInstaller == UsbSpec => InstallSpec
<1>1. UsbInit => Init
  BY DEF UsbInit
<1> QED
  BY UsbInvInit, UsbInvNext, InstallerMoves, <1>1, PTL DEF UsbSpec, InstallSpec, Spec

(* What usbInstall leaves on the console is safe, whatever happened on the *)
(* cable: metas and records have their contents and tickets behind them,   *)
(* what is registered has the bytes of the container, contents come before *)
(* tickets and tickets before metas, and ok means installed.               *)
THEOREM SafeOverUsb ==
  UsbSpec => /\ [](/\ MetaBacked /\ RecordBacked /\ MetaTellsTheCnmt /\ MetaCountsContents
                   /\ RegisteredIntact /\ OkMeansInstalled /\ FailureNamesStep)
             /\ StoreSpec
BY ImplementsInstaller, MetaBackedAlways, RecordBackedAlways, MetaTellsTheCnmtAlways,
   MetaCountsContentsAlways, RegisteredIntactAlways, OkMeansInstalledAlways,
   FailureNamesStepAlways, ImplementsStore, PTL DEF InstallSpec

-----------------------------------------------------------------------------
(* What is registered.  Until something fails on the cable the content     *)
(* registered has no gap, and what is about to be registered is written to *)
(* its end.                                                                *)
NoGap == \A c \in content : \A u \in DOMAIN c.data : c.data[u] # Blank
WrittenOut == pc = "register" => written >= Entry.size
WholeInv == Faults = 0 => NoGap /\ WrittenOut

LEMMA FaultsStay ==
  ASSUME UsbInv, [UsbNext]_usbVars, Faults' = 0
  PROVE  Faults = 0
<1>1. timeouts \in Nat /\ failures \in Nat
  BY SessionTells DEF UsbInv
<1>2. S!SessionInv'
  BY UsbInvNext DEF UsbInv
<1>3. S!Types' /\ S!Types /\ S!Endpoint /\ S!Gaining
  BY <1>2 DEF UsbInv, S!SessionInv, S!Request
<1>4. timeouts' \in Nat /\ failures' \in Nat
  BY <1>3, SessionConstants DEF S!Types
<1>5. S!Unread'
  <2>1. timeouts' + failures' = 0
    BY DEF Faults
  <2>2. timeouts' = 0 /\ failures' = 0
    <3>1. \A a, b \in Nat : a + b = 0 => a = 0 /\ b = 0
      OBVIOUS
    <3> QED
      BY <1>4, <2>1, <3>1, Zenon
  <2> QED
    BY <2>2 DEF S!Unread
<1>6. S!Types /\ S!Endpoint /\ S!Gaining /\ [S!Moves]_(S!vars) /\ S!Unread' => S!Unread
  BY SessionConstants, S!UnreadView, Zenon
<1>7. S!Unread
  BY <1>3, <1>5, <1>6, SessionMoves
<1> QED
  BY <1>1, <1>7 DEF Faults, S!Unread

LEMMA WholeNext == UsbInv /\ WholeInv /\ [UsbNext]_usbVars => WholeInv'
<1> SUFFICES ASSUME UsbInv, WholeInv, [UsbNext]_usbVars, Faults' = 0
             PROVE  NoGap' /\ WrittenOut'
  BY DEF WholeInv
<1>0. NoGap /\ WrittenOut /\ Faults = 0 /\ TypeAt
  BY FaultsStay DEF WholeInv, UsbInv
<1>1. CASE Use
  <2>1. content' = content
    BY <1>1 DEF Use, UseDirectory, ParseContainer, UsePart, UseWhole, NextNca, ImportTicket,
                SetContentMeta, vars, storage
  <2>2. pc' = "register" => FALSE
    <3>1. ASSUME pc' = "register" PROVE UsePart /\ dst = <<>> /\ written > 0
      BY <1>1, <3>1 DEF Use, UseDirectory, ParseContainer, UsePart, WriteOn, GiveUp, UseWhole, NextNca,
                        ImportTicket, TicketRefused, SetContentMeta, vars, frame
    <3>2. ASSUME pc = "stream", dst = <<>> PROVE FALSE
      <4>1. /\ cpc = "returned" /\ call > 1 /\ <<offset, len>> \in Wants
        BY <1>1 DEF UsbInv, AskedInv, Use
      <4>2. len >= 1
        BY <1>0, <3>2, <4>1, WantsShape, SizeAtContent DEF UsbInv, AskedInv
      <4>3. Len(dst) >= len /\ Len(dst) = 0 /\ len \in Nat
        BY <1>0, <3>2, <4>1, SessionTells DEF UsbInv
      <4> QED
        BY <4>2, <4>3
    <3> QED
      BY <3>1, <3>2 DEF UsePart
  <2> QED
    BY <1>0, <2>1, <2>2 DEF NoGap, WrittenOut
<1>2. CASE NoRead /\ RegisterContent
  <2>1. pc = "register" /\ pc' # "register"
    BY <1>2 DEF RegisterContent
  <2>2. \A p \in placeholders : p.id = cur => \A u \in DOMAIN p.data : p.data[u] # Blank
    <3>1. SUFFICES ASSUME NEW p \in placeholders, p.id = cur, NEW u \in DOMAIN p.data
                   PROVE  p.data[u] # Blank
      OBVIOUS
    <3>2. DOMAIN p.data = 0..Entry.size - 1 /\ p.data[u] = IF u < written THEN u ELSE Blank
      BY <2>1, <3>1 DEF UsbInv, BytesInv, CurOnly, StreamedSoFar
    <3>3. Entry.size \in Nat /\ written \in Nat /\ written >= Entry.size
      BY <1>0, <2>1, SizeAtContent DEF WrittenOut
    <3> QED
      BY <3>1, <3>2, <3>3 DEF Blank
  <2>3. \A c \in content' : c \in content \/ \E p \in placeholders : p.id = cur /\ c.data = p.data
    BY <1>2 DEF RegisterContent, storage
  <2> QED
    BY <1>0, <2>1, <2>2, <2>3 DEF NoGap, WrittenOut
<1>3. CASE NoRead /\ (StreamChunk \/ ReconstructNcz)
  <2>1. content' = content /\ pc = "stream" /\ UNCHANGED <<nsp, i>>
    BY <1>3 DEF StreamChunk, ReconstructNcz
  <2>2. ~(written < Entry.size)
    <3>1. SUFFICES ASSUME written < Entry.size PROVE FALSE
      OBVIOUS
    <3>2. Wants = NextPart
      BY <2>1, <3>1, Zenon DEF Wants
    <3> QED
      BY <1>3, <3>2 DEF NoRead, NextPart
  <2>3. written \in Nat /\ Entry.size \in Nat
    BY <1>0, <2>1, SizeAtContent
  <2>4. pc' = "register" => written' = written
    BY <1>3, <2>1, <2>2 DEF StreamChunk, ReconstructNcz, WriteOn, GiveUp
  <2> QED
    BY <1>0, <2>1, <2>2, <2>3, <2>4 DEF NoGap, WrittenOut, Entry
<1>4. CASE NoRead /\ ~RegisterContent /\ ~StreamChunk /\ ~ReconstructNcz
  <2>1. content' = content
    BY <1>4 DEF NoRead, Step, ParseContainer, OpenStorage, NextNca, GeneratePlaceHolderId,
                CreatePlaceHolder, ImportTicket, SetContentMeta, Commit, PushApplicationRecord,
                Finish, Fail, storage
  <2>2. pc' # "register"
    BY <1>4 DEF NoRead, Step, ParseContainer, OpenStorage, NextNca, GeneratePlaceHolderId,
                CreatePlaceHolder, ImportTicket, TicketRefused, SetContentMeta, Commit, CommitRefused,
                PushApplicationRecord, Finish, Fail
  <2> QED
    BY <1>0, <2>1, <2>2 DEF NoGap, WrittenOut
<1>5. CASE StartOverUsb
  BY <1>0, <1>5 DEF StartOverUsb, Start, NoGap, WrittenOut, storage
<1>6. CASE Ask \/ EndSession \/ ClientMoves \/ HostMoves \/ TransferFails \/ UNCHANGED usbVars
  <2>1. UNCHANGED vars
    BY <1>6 DEF Ask, EndSession, ClientMoves, HostMoves, TransferFails, usbVars
  <2> QED
    BY <1>0, <2>1 DEF vars, frame, storage, NoGap, WrittenOut, Entry
<1> QED
  BY <1>1, <1>2, <1>3, <1>4, <1>5, <1>6 DEF UsbNext, Console

(* Nothing that was registered over USB has a gap unless a read timed out  *)
(* or a transfer failed, in the post or in the report.                     *)
THEOREM CutMeansFaultAlways == UsbSpec => []CutMeansFault
<1>1. UsbInit => WholeInv
  BY DEF UsbInit, Init, WholeInv, NoGap, WrittenOut
<1>2. UsbInv /\ WholeInv => CutMeansFault
  <2> SUFFICES ASSUME UsbInv, WholeInv, ~NoGap PROVE Faults > 0
    BY DEF CutMeansFault, NoGap
  <2>1. timeouts \in Nat /\ failures \in Nat
    BY SessionTells DEF UsbInv
  <2> QED
    BY <2>1 DEF WholeInv, Faults
<1> QED
  BY UsbInvInit, UsbInvNext, WholeNext, <1>1, <1>2, PTL DEF UsbSpec

===============================================================================
