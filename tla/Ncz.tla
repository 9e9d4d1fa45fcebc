--------------------------------- MODULE Ncz ---------------------------------
(***************************************************************************)
(* nczReconstruct (crypto/ncz.cpp): an .ncz is the NCA header verbatim, a  *)
(* section table and a zstd stream of the decrypted body; the NCA is put   *)
(* back together by writing the header, decompressing the body and         *)
(* encrypting each section again with its own key and counter.             *)
(*                                                                         *)
(* Lengths are in units of which Block make one AES block.  The zstd       *)
(* decoder is external: it is modelled by the contract of                  *)
(* ZSTD_decompressStream that the loop relies on.  Reads may be short, and *)
(* a source that is shorter than it claims brings nothing.                 *)
(***************************************************************************)
EXTENDS Integers, Sequences, FiniteSets, FiniteSetsExt

CONSTANTS Header,    \* HEADER, the part of the NCA kept verbatim
          Block,     \* the AES block
          In, Out,   \* IN and OUT, the two buffers
          Pending,   \* output zstd keeps back when its output is full
          Ratio,     \* body units that one unit of the stream decodes to
          Tables,    \* section tables
          Bodies     \* lengths of the body

Sections == [offset : Nat, size : Nat \ {0}, ctr : BOOLEAN]
End(s) == s.offset + s.size

ASSUME SizesAssumption ==
  /\ {Block, In, Out, Ratio} \subseteq Nat \ {0} /\ Pending \in 0..Out
  /\ Header \in Nat \ {0} /\ Header % Block = 0
  /\ Bodies \subseteq Nat
(* The sections of an NCA follow one another from the header on and are    *)
(* cut at media units, which are whole AES blocks.                         *)
ASSUME TablesAssumption ==
  \A t \in Tables :
    /\ t \in Seq(Sections) /\ t # <<>> /\ t[1].offset = Header
    /\ \A j \in 1..Len(t) - 1 : t[j + 1].offset = End(t[j]) /\ End(t[j]) % Block = 0

VARIABLES
  pc, ok,      \* where nczReconstruct stands, and what it returns
  secs,        \* the section table
  body,        \* length of the body the stream holds
  fed,         \* stream units handed to zstd and consumed by it
  zin,         \* units read and not yet consumed
  empty,       \* the last read brought nothing (got == 0)
  decoded,     \* body units that came out of zstd
  flushed,     \* body units written
  target,      \* body units the current flush must reach
  secIdx,
  image,       \* what the sink holds, by offset
  cut          \* history: the source ended early

input  == <<secs, body>>
stream == <<fed, zin, empty, decoded>>
output == <<flushed, target, secIdx, image>>
vars   == <<pc, ok, input, stream, output, cut>>

Init ==
  /\ pc = "table" /\ ok = FALSE
  /\ secs \in Tables /\ body \in Bodies
  /\ fed = 0 /\ zin = 0 /\ empty = FALSE /\ decoded = 0
  /\ flushed = 0 /\ target = 0 /\ secIdx = 1
  /\ image = <<>> /\ cut = FALSE

-----------------------------------------------------------------------------
(* nczReconstructedSize: where the last section ends. *)
ReconstructedSize == Max({End(secs[j]) : j \in DOMAIN secs})

(* The stream holds this many units; all of it decodes to the body. *)
StreamLen == (body + Ratio - 1) \div Ratio
Decodable(n) == Min({body, n * Ratio})

(* ncaOff: where the next body unit goes. *)
NcaOff == secs[1].offset + flushed

(* The unit put at offset u: the body unit it stands for, the section      *)
(* whose key encrypts it (0: plain) and its place in that key's stream.    *)
Cell(from, sec, place) == [from |-> from, key |-> sec, place |-> place]
HeaderCell == Cell(-1, 0, 0)

(* The unit that the original NCA has at offset u. *)
Original(u) ==
  IF u < Header THEN HeaderCell
  ELSE LET j == CHOOSE k \in DOMAIN secs : secs[k].offset <= u /\ u < End(secs[k])
       IN IF secs[j].ctr THEN Cell(u - Header, j, u) ELSE Cell(u - Header, 0, 0)

(* applySection on a run of n units at off: the counter starts at the      *)
(* block off lies in, whatever the offset inside that block.               *)
ApplySection(sec, off, n) ==
  [u \in off..off + n - 1 |->
     IF secs[sec].ctr
     THEN Cell(flushed + (u - off), sec, (off \div Block) * Block + (u - off))
     ELSE Cell(flushed + (u - off), 0, 0)]

(* sink.write(off, ...) *)
Write(run) == image' = [u \in DOMAIN image \cup DOMAIN run |->
                          IF u \in DOMAIN run THEN run[u] ELSE image[u]]

Return(b) == pc' = "done" /\ ok' = b

-----------------------------------------------------------------------------
(* readSections: the table is read, or it is short or malformed. *)
ReadSections ==
  /\ pc = "table"
  /\ \/ pc' = "header" /\ UNCHANGED ok
     \/ Return(FALSE)
  /\ UNCHANGED <<input, stream, output, cut>>

(* The verbatim header is read and written; either may fail. *)
HeaderDropped == UNCHANGED image
HeaderWritten == Write([u \in 0..Header - 1 |-> HeaderCell])
CopyHeader ==
  /\ pc = "header"
  /\ \/ pc' = "read" /\ HeaderWritten /\ UNCHANGED ok
     \/ Return(FALSE) /\ UNCHANGED image
  /\ UNCHANGED <<input, stream, flushed, target, secIdx, cut>>

(* The head of the loop: up to In units are read, fewer at the end of the  *)
(* stream, and nothing there or when the source has no more to give.       *)
ReadStream ==
  /\ pc = "read" /\ pc' = "decode"
  /\ \E got \in 0..Min({In, StreamLen - fed}) :
       /\ zin' = got /\ empty' = (got = 0)
       /\ cut' = (cut \/ (got = 0 /\ fed < StreamLen))
  /\ UNCHANGED <<ok, input, fed, decoded, output>>

(* keep CTR 16-aligned across chunks: flush(false) leaves a part of a      *)
(* block for the next one.                                                 *)
WholeChunk(d) == d
RoundedUp(d) == ((d + Block - 1) \div Block) * Block
KeepsABlock(d) == IF d > Block THEN (d - (d % Block)) - Block ELSE 0
WholeBlocks(d) == d - (d % Block)

(* One ZSTD_decompressStream: it consumes all of its input and gives all   *)
(* it can, or it fills its output and keeps little back.  It may also find *)
(* the stream corrupt.  What came out goes to acc, and flush begins.       *)
Decompress ==
  /\ pc = "decode"
  /\ \/ \E c \in 0..zin, out \in 0..Out :
          LET left == Decodable(fed + c) - decoded - out
          IN /\ \/ c = zin /\ left = 0
                \/ out = Out /\ left \in 0..Pending
             /\ fed' = fed + c /\ zin' = zin - c
             /\ decoded' = decoded + out
             /\ target' = flushed + WholeBlocks(decoded + out - flushed)
             /\ pc' = "flush" /\ UNCHANGED ok
     \/ Return(FALSE) /\ UNCHANGED <<fed, zin, decoded, target>>
  /\ UNCHANGED <<input, empty, flushed, secIdx, image, cut>>

(* The section that holds NcaOff, from the current one on. *)
Ahead == {j \in secIdx..Len(secs) : NcaOff < End(secs[j])}

(* What one turn of flush writes: the rest of acc, up to the section edge. *)
ChunkUnclamped(j) == target - flushed
Chunk(j) == Min({target - flushed, End(secs[j]) - NcaOff})

(* One turn of flush: advance to the section containing NcaOff, encrypt    *)
(* and write up to its edge.  Past the last section, and when the write    *)
(* fails, flush fails.                                                     *)
FlushRun ==
  /\ pc \in {"flush", "last"} /\ flushed < target
  /\ \/ /\ Ahead # {}
        /\ secIdx' = Min(Ahead)
        /\ Write(ApplySection(secIdx', NcaOff, Chunk(secIdx')))
        /\ flushed' = flushed + Chunk(secIdx')
        /\ UNCHANGED <<pc, ok>>
     \/ Return(FALSE) /\ UNCHANGED <<flushed, secIdx, image>>
  /\ UNCHANGED <<input, stream, target, cut>>

(* acc is empty but for part of a block: decompress again while there is   *)
(* input, read again unless the last read brought nothing, and flush what  *)
(* is left at the end.                                                     *)
RestDropped == flushed
RestOfAcc == decoded
NoEnd == FALSE
InputEnded == empty
FlushEnds ==
  /\ pc = "flush" /\ flushed = target
  /\ \/ zin > 0 /\ pc' = "decode" /\ UNCHANGED target
     \/ zin = 0 /\ ~InputEnded /\ pc' = "read" /\ UNCHANGED target
     \/ zin = 0 /\ InputEnded /\ pc' = "last" /\ target' = RestOfAcc
  /\ UNCHANGED <<ok, input, stream, flushed, secIdx, image, cut>>

Finish ==
  /\ pc = "last" /\ flushed = target
  /\ Return(TRUE)
  /\ UNCHANGED <<input, stream, output, cut>>

Next ==
  \/ ReadSections \/ CopyHeader \/ ReadStream
  \/ Decompress \/ FlushRun \/ FlushEnds \/ Finish

Spec == Init /\ [][Next]_vars

(* nczReconstruct is sequential code: it goes on while it has a step. *)
FairSpec == Spec /\ WF_vars(Next)

-----------------------------------------------------------------------------
(* Every variable has its type: what is consumed, decoded, due and written *)
(* follow one another and stay within the stream and the body.             *)
TypeOK ==
  /\ pc \in {"table", "header", "read", "decode", "flush", "last", "done"}
  /\ ok \in BOOLEAN /\ empty \in BOOLEAN /\ cut \in BOOLEAN
  /\ secs \in Tables /\ body \in Bodies
  /\ fed \in 0..StreamLen /\ zin \in 0..In /\ fed + zin <= StreamLen
  /\ flushed \in 0..target /\ target \in 0..decoded /\ decoded \in 0..body
  /\ secIdx \in DOMAIN secs
  /\ DOMAIN image \subseteq Nat

(* What is written is what the NCA has there: the right body unit under    *)
(* the right key at the right place of the key stream, however the stream  *)
(* was cut into reads, decoder outputs and section edges.                  *)
Faithful == \A u \in DOMAIN image : u < ReconstructedSize => image[u] = Original(u)

(* Nothing is written past the size the placeholder was created with,      *)
(* even when the stream holds more than the table says.                    *)
NeverPastTable == \A u \in DOMAIN image : u < ReconstructedSize

(* true is only returned with the whole body written, unless the source    *)
(* ended early: zstd keeps nothing back and acc is flushed to its end.     *)
WholeUnlessCut ==
  pc = "done" /\ ok /\ ~cut => DOMAIN image = 0..Header + body - 1

(* "Streamed, never fully in RAM" (crypto/ncz.h:7): before each decode acc  *)
(* holds less than one block, so it never holds more than Out and a block. *)
AccBounded == pc \in {"read", "decode"} => decoded - flushed < Block

(* crypto/ncz.h:24: "Reconstruct the NCA from the .ncz".  Of an .ncz that   *)
(* holds all of it, a source that breaks off (a USB read that timed out) is *)
(* taken for the end, and true is returned without the NCA being there.    *)
TrueMeansReconstructed ==
  body = ReconstructedSize - Header /\ pc = "done" /\ ok
    => DOMAIN image = 0..ReconstructedSize - 1

(* The reconstruction ends: each turn of the two loops gets further.       *)
Ends == <>(pc = "done")

(* The writes are those of a prefix writer: ascending from 0 and without   *)
(* gaps, which is all the installer knows of them.                         *)
Prefix ==
  LET n == Cardinality(DOMAIN image)
  IN IF DOMAIN image = 0..n - 1 THEN n ELSE -1
Sink == INSTANCE PrefixWriter WITH upTo <- Prefix, ended <- pc = "done"
SinkSpec == Sink!Spec

=============================================================================
