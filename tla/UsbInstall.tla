----------------------------- MODULE UsbInstall ------------------------------
(***************************************************************************)
(* usbInstall (main.cpp): one install by Installer whose source is a       *)
(* Dbi0FileSource, which makes every read of the installer a FILE_RANGE of *)
(* the session D, between its LIST and its EXIT.  The bytes the installer  *)
(* writes are those that the session has brought.                          *)
(*                                                                         *)
(* The file holds the directory in its first units, one for each read of   *)
(* Pfs0::open, and the entries where the directory says.  It may end       *)
(* before the container does.  The host has no error of its own here, and  *)
(* the process does not crash.                                             *)
(***************************************************************************)
EXTENDS Installer

CONSTANTS Segment, FileLen, MaxTimeouts, MaxFailures,    \* those of Dbi0
          EntryOffsets    \* where the directory of a container puts its entries

ASSUME SegmentAssumption == Segment \in Nat \ {0}
ASSUME UsbLengthsAssumption == {FileLen, MaxTimeouts, MaxFailures} \subseteq Nat
ASSUME EntryOffsetsAssumption ==
  \A b \in Containers : \A j \in DOMAIN b : EntryOffsets[b][j] \in Nat

VARIABLES
  urbs, event, waiting, arrived, page, timeouts, failures,    \* UsbDs
  cpc, call, offset, len, toRead, dst,                        \* the client
  hpc, hcall, hoff, hlen, hsent, restarts,                    \* the host
  asked,    \* a read of the installer is with the client
  parsed    \* reads Pfs0::open has done

D == INSTANCE Dbi0 WITH ListLen <- 1, MaxCalls <- 0, MaxRestarts <- 0

session == <<urbs, event, waiting, arrived, page, timeouts, failures, cpc, call, offset,
             len, toRead, dst, hpc, hcall, hoff, hlen, hsent, restarts>>
usbVars == <<session, vars, asked, parsed>>

UsbInit == D!Init /\ Init /\ asked = FALSE /\ parsed = 0

-----------------------------------------------------------------------------
(* Reads of Pfs0::open: the header, the entries, the names. *)
DirReads == 3

(* Where entry j begins. *)
EntryAt(j) == EntryOffsets[nsp][j]

AtEntry(P(_)) == i <= Len(nsp) /\ P(Entry)
Left == Entry.size - written
OneChunk == IF Left < Chunk THEN Left ELSE Chunk

(* What the step that installNsp stands at reads first: <<offset, length>>. *)
PartFromStart == {<<EntryAt(i), OneChunk>>}
NextPart == {<<EntryAt(i) + written, IF IsNcz(Entry) /\ written = 0 THEN 1 ELSE OneChunk>>}
Wants ==
  CASE pc = "parse" -> {<<parsed, 1>>}
    [] pc = "nca" /\ AtEntry(IsNcz) -> IF Entry.cid = BadName THEN {} ELSE {<<EntryAt(i), 1>>}
    [] pc = "stream" /\ written < Entry.size -> NextPart
    [] pc = "tik" /\ AtEntry(IsTicket) -> {<<EntryAt(i), Entry.size>>}
    [] pc = "meta" /\ AtEntry(IsMeta) -> {<<EntryAt(i), Entry.size>>}
    [] OTHER -> {}

(* Dbi0FileSource::read. *)
Ask ==
  /\ pc # "idle" /\ ~asked /\ asked' = TRUE
  /\ \E r \in Wants : D!ReadRange(r[1], r[2])
  /\ UNCHANGED <<vars, parsed>>

(* All of it came. *)
Whole == Len(dst) = len

(* What came, as units of the entry: a unit that is not the file's is no   *)
(* unit of any entry.                                                      *)
Foreign == -2
Brought == [k \in DOMAIN dst |-> IF dst[k][1] = "file" THEN dst[k][2] - EntryAt(i) ELSE Foreign]

(* Pfs0::open gives up on any read that is short. *)
UseDirectory ==
  \/ /\ pc = "parse" /\ Whole /\ parsed < DirReads - 1
     /\ parsed' = parsed + 1 /\ UNCHANGED vars
  \/ /\ ~Whole \/ parsed = DirReads - 1
     /\ ParseContainer /\ pc' = (IF Whole THEN "open" ELSE "fail")
     /\ UNCHANGED parsed

(* A section table, a ticket or a Meta NCA has to be whole. *)
UseWhole ==
  /\ NextNca \/ ImportTicket \/ SetContentMeta
  /\ ~Whole => pc' = "fail"
  /\ UNCHANGED parsed

(* A part of an NCA may be short, but when nothing came it is the end: of  *)
(* the install for an .nca, of the content for an .ncz.                    *)
UsePart ==
  /\ pc = "stream"
  /\ \/ dst # <<>> /\ WriteOn(Brought)
     \/ /\ dst # <<>> \/ IsNca(Entry) \/ written = 0
        /\ GiveUp
     \/ /\ dst = <<>> /\ IsNcz(Entry) /\ written > 0
        /\ pc' = "register" /\ UNCHANGED <<written, placeholders>>
  /\ UNCHANGED <<nsp, keyset, i, cur, phase, result, backend, content, metas,
                 tickets, history, parsed>>

(* fileRange returns to the installer, which goes on with what it has. *)
Use ==
  /\ asked /\ cpc = "returned" /\ asked' = FALSE
  /\ UseDirectory \/ UsePart \/ UseWhole
  /\ UNCHANGED session

(* A step of installNsp that reads nothing. *)
NoRead == pc # "idle" /\ Wants = {} /\ Step /\ UNCHANGED <<session, asked, parsed>>

(* The list is in: the install starts.  When it is over, so is the session. *)
StartOverUsb ==
  /\ cpc = "returned" /\ attempts = 0 /\ Start
  /\ UNCHANGED <<session, asked, parsed>>
EndSession ==
  /\ pc = "idle" /\ attempts > 0 /\ D!SendExit
  /\ UNCHANGED <<vars, asked, parsed>>

(* Steps of the session under a read, the LIST or the EXIT. *)
ClientMoves ==
  /\ D!ClientWrites \/ D!PostRead \/ D!ReadReturns \/ D!ReadTimesOut \/ D!RangeEnds
  /\ UNCHANGED <<vars, asked, parsed>>
HostMoves == D!HostStep /\ UNCHANGED <<vars, asked, parsed>>
TransferFails == D!TransferFails /\ UNCHANGED <<vars, asked, parsed>>

Console == Ask \/ Use \/ NoRead \/ StartOverUsb \/ EndSession \/ ClientMoves

UsbNext == Console \/ HostMoves \/ TransferFails

UsbSpec == UsbInit /\ [][UsbNext]_usbVars

(* usbInstall is sequential code and the host one loop: each goes on while *)
(* it can.  Nothing needs to fail.                                         *)
FairUsbSpec == UsbSpec /\ WF_usbVars(Console) /\ WF_usbVars(HostMoves)

-----------------------------------------------------------------------------
(* What may go wrong on the cable. *)
Faults == timeouts + failures

(* The session is a source as Installer takes it: whatever times out or    *)
(* fails on the cable, each read brings the beginning of the range at its  *)
(* offset, or nothing, and no byte of another range.  So every invariant   *)
(* of Installer is one of an install over USB.                             *)
InstallSpec == Spec

(* What was registered is whole, unless something failed on the cable: a   *)
(* read timed out, a transfer could not be posted, or its report was not   *)
(* to be had.  A file that ends before its container does shows as a read  *)
(* that times out.                                                         *)
CutMeansFault ==
  (\E c \in content : \E u \in DOMAIN c.data : c.data[u] = Blank) => Faults > 0

(* When nothing fails on the cable an install over USB comes to its end,   *)
(* whatever the backend refuses, and the host learns of that end.          *)
UsbInstallEnds == <>(Faults > 0 \/ (pc = "idle" /\ cpc = "over" /\ hpc = "stopped"))

=============================================================================
