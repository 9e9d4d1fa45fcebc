------------------------------ MODULE NczProofs -------------------------------
(***************************************************************************)
(* Theorems about nczReconstruct, for every section table, length of the   *)
(* body, size of the buffers and of the AES block, and every way in which  *)
(* the source and the decoder cut the stream up.                           *)
(***************************************************************************)
EXTENDS Ncz, FiniteSetTheorems, WellFoundedInduction, NaturalsInduction, TLAPS

-----------------------------------------------------------------------------
(* Numbers. *)
LEMMA MinOfTwo ==
  ASSUME NEW a \in Int, NEW b \in Int
  PROVE  Min({a, b}) = IF a <= b THEN a ELSE b
<1>1. \E x \in {a, b} : \A y \in {a, b} : x <= y
  OBVIOUS
<1>2. Min({a, b}) \in {a, b} /\ \A y \in {a, b} : Min({a, b}) <= y
  BY <1>1 DEF Min
<1> QED
  BY <1>2

LEMMA MinIsLeast ==
  ASSUME NEW S \in SUBSET Nat, S # {}
  PROVE  Min(S) \in S /\ \A y \in S : Min(S) <= y
<1> DEFINE less == {ss \in Nat \X Nat : ss[1] < ss[2]}
<1>1. IsWellFoundedOn(less, Nat)
  BY NatLessThanWellFounded DEF OpToRel
<1>2. PICK k \in S : \A j \in S : ~(<<j, k>> \in less)
  <2> HIDE DEF less
  <2> QED
    BY <1>1, WFMin
<1>3. ASSUME NEW j \in S PROVE k <= j
  <2>1. j \in Nat /\ k \in Nat /\ ~(j < k)
    BY <1>2
  <2> QED
    BY <2>1
<1>4. \E x \in S : \A y \in S : x <= y
  BY <1>3
<1> QED
  BY <1>4 DEF Min

(* The whole blocks of d units, and what is left of them. *)
LEMMA WholeBlocksOf ==
  ASSUME NEW d \in Nat
  PROVE  /\ WholeBlocks(d) \in 0..d /\ d - WholeBlocks(d) < Block
         /\ \E k \in Nat : WholeBlocks(d) = k * Block
<1>1. Block \in Nat /\ Block > 0
  BY SizesAssumption
<1>2. d = Block * (d \div Block) + (d % Block) /\ d % Block \in 0..Block - 1 /\ d \div Block \in Nat
  BY <1>1
<1>3. PICK k \in Nat, r \in 0..Block - 1 : k = d \div Block /\ r = d % Block /\ d = Block * k + r
  BY <1>2
<1>4. WholeBlocks(d) = k * Block
  BY <1>1, <1>3 DEF WholeBlocks
<1>5. PICK w \in Nat : w = k * Block
  BY <1>1
<1>6. d = w + r /\ WholeBlocks(d) = w
  BY <1>1, <1>3, <1>4, <1>5
<1>7. w \in 0..d /\ d - w < Block
  BY <1>1, <1>3, <1>6
<1> QED
  BY <1>5, <1>6, <1>7

(* The block that the start of a block lies in starts there. *)
LEMMA BlockStart ==
  ASSUME NEW k \in Nat
  PROVE  ((k * Block) \div Block) * Block = k * Block
<1>1. Block \in Nat /\ Block > 0
  BY SizesAssumption
<1>2. (k * Block) \div Block = k
  BY <1>1
<1> QED
  BY <1>2

(* The units of the stream decode to all of the body. *)
LEMMA StreamHoldsBody ==
  ASSUME NEW b \in Nat
  PROVE  LET n == (b + Ratio - 1) \div Ratio
         IN n \in Nat /\ n * Ratio >= b
<1>1. Ratio \in Nat /\ Ratio > 0
  BY SizesAssumption
<1>2. PICK x \in Nat : x = b + Ratio - 1
  BY <1>1
<1>3. x = Ratio * (x \div Ratio) + (x % Ratio) /\ x % Ratio \in 0..Ratio - 1 /\ x \div Ratio \in Nat
  BY <1>1
<1> QED
  BY <1>1, <1>2, <1>3

-----------------------------------------------------------------------------
(* The section table. *)
LEMMA SectionShape ==
  ASSUME NEW t \in Tables
  PROVE  /\ Len(t) \in Nat \ {0} /\ DOMAIN t = 1..Len(t)
         /\ \A j \in 1..Len(t) :
              /\ t[j].offset \in Nat /\ t[j].size \in Nat \ {0} /\ t[j].ctr \in BOOLEAN
              /\ End(t[j]) \in Nat /\ t[j].offset < End(t[j])
         /\ t[1].offset = Header
         /\ \A j \in 1..Len(t) - 1 : t[j + 1].offset = End(t[j]) /\ End(t[j]) % Block = 0
<1>1. t \in Seq(Sections) /\ t # <<>>
  BY TablesAssumption
<1>2. Len(t) \in Nat \ {0} /\ DOMAIN t = 1..Len(t)
  BY <1>1
<1>3. ASSUME NEW j \in 1..Len(t)
      PROVE  /\ t[j].offset \in Nat /\ t[j].size \in Nat \ {0} /\ t[j].ctr \in BOOLEAN
             /\ End(t[j]) \in Nat /\ t[j].offset < End(t[j])
  <2>1. t[j] \in Sections
    BY <1>1
  <2> QED
    BY <2>1 DEF Sections, End
<1> QED
  BY <1>2, <1>3, TablesAssumption

(* Sections ascend: what ends before ends where the next begins, or below. *)
LEMMA SectionsAscend ==
  ASSUME NEW t \in Tables, NEW k \in 1..Len(t), NEW l \in 1..k
  PROVE  End(t[l]) <= End(t[k])
<1> DEFINE bad == {m \in 1..Len(t) : \E n \in 1..m : End(t[n]) > End(t[m])}
<1>0. Len(t) \in Nat /\ \A j \in 1..Len(t) : End(t[j]) \in Nat
  BY SectionShape
<1>1. CASE bad # {}
  <2>1. bad \in SUBSET Nat
    BY <1>0
  <2>2. PICK m \in bad : \A y \in bad : m <= y
    BY <1>1, <2>1, MinIsLeast
  <2>3. PICK n \in 1..m : End(t[n]) > End(t[m])
    OBVIOUS
  <2>4. m \in 1..Len(t) /\ m > 1 /\ n \in 1..m - 1 /\ m - 1 \in 1..Len(t) - 1
    BY <1>0, <2>3
  <2>5. m - 1 \notin bad
    BY <1>0, <2>2, <2>4
  <2>6. End(t[n]) <= End(t[m - 1])
    BY <1>0, <2>4, <2>5
  <2>7. t[m].offset = End(t[m - 1])
    <3>1. (m - 1) + 1 = m
      BY <2>4
    <3> QED
      BY <2>4, <3>1, SectionShape
  <2>8. t[m].offset < End(t[m])
    BY <2>4, SectionShape
  <2>9. End(t[m]) \in Nat /\ End(t[m - 1]) \in Nat /\ End(t[n]) \in Nat
    BY <1>0, <2>4
  <2> QED
    BY <2>3, <2>6, <2>7, <2>8, <2>9
<1>2. CASE bad = {}
  BY <1>0, <1>2
<1> QED
  BY <1>1, <1>2

LEMMA SectionsApart ==
  ASSUME NEW t \in Tables, NEW k \in 1..Len(t), NEW l \in 1..k - 1
  PROVE  End(t[l]) <= t[k].offset
<1>1. k - 1 \in 1..Len(t) - 1 /\ k - 1 \in 1..Len(t) /\ l \in 1..(k - 1) /\ (k - 1) + 1 = k
  BY SectionShape
<1>2. End(t[l]) <= End(t[k - 1])
  BY <1>1, SectionsAscend
<1>3. t[k].offset = End(t[k - 1])
  BY <1>1, SectionShape
<1> QED
  BY <1>2, <1>3

LEMMA SizeIsLastEnd ==
  ASSUME secs \in Tables
  PROVE  /\ ReconstructedSize = End(secs[Len(secs)]) /\ ReconstructedSize \in Nat
         /\ \A j \in 1..Len(secs) : End(secs[j]) <= ReconstructedSize
         /\ Header < ReconstructedSize
<1> DEFINE ends == {End(secs[j]) : j \in DOMAIN secs}
           top == End(secs[Len(secs)])
<1>0. /\ DOMAIN secs = 1..Len(secs) /\ Len(secs) \in 1..Len(secs) /\ 1 \in 1..Len(secs)
      /\ \A j \in 1..Len(secs) : End(secs[j]) \in Nat
      /\ Header \in Nat /\ Header = secs[1].offset /\ secs[1].offset < End(secs[1])
  BY SectionShape, SizesAssumption
<1>1. \A j \in 1..Len(secs) : End(secs[j]) <= top
  BY <1>0, SectionsAscend
<1>2. top \in ends /\ \A e \in ends : e <= top /\ e \in Nat
  BY <1>0, <1>1
<1>3. Max(ends) \in ends /\ \A e \in ends : Max(ends) >= e
  <2> HIDE DEF ends, top
  <2> QED
    BY <1>2 DEF Max
<1>4. Max(ends) = top
  <2> HIDE DEF ends, top
  <2> QED
    BY <1>2, <1>3
<1>5. Header < top
  BY <1>0, <1>1
<1> QED
  BY <1>0, <1>1, <1>4, <1>5 DEF ReconstructedSize

(* What the NCA has at u depends on the one section that u lies in.        *)
LEMMA OriginalAt ==
  ASSUME secs \in Tables, NEW j \in 1..Len(secs), NEW u \in Nat,
         secs[j].offset <= u, u < End(secs[j])
  PROVE  /\ u >= Header
         /\ Original(u) = IF secs[j].ctr THEN Cell(u - Header, j, u)
                                         ELSE Cell(u - Header, 0, 0)
<1> DEFINE Holds(k) == secs[k].offset <= u /\ u < End(secs[k])
<1>0. /\ DOMAIN secs = 1..Len(secs) /\ Len(secs) \in Nat \ {0}
      /\ \A k \in 1..Len(secs) : secs[k].offset \in Nat /\ End(secs[k]) \in Nat
      /\ Header \in Nat /\ secs[1].offset = Header /\ secs[1].offset < End(secs[1])
  BY SectionShape, SizesAssumption
<1>1. ASSUME NEW k \in 1..Len(secs), Holds(k) PROVE k = j
  <2>1. CASE k < j
    <3>1. End(secs[k]) <= secs[j].offset
      BY <1>0, <2>1, SectionsApart
    <3> QED
      BY <1>0, <1>1, <3>1
  <2>2. CASE j < k
    <3>1. End(secs[j]) <= secs[k].offset
      BY <1>0, <2>2, SectionsApart
    <3> QED
      BY <1>0, <1>1, <3>1
  <2> QED
    BY <1>0, <2>1, <2>2
<1>2. (CHOOSE k \in DOMAIN secs : Holds(k)) = j
  <2>1. Holds(j) /\ j \in DOMAIN secs
    BY <1>0
  <2>2. \A k \in DOMAIN secs : Holds(k) => k = j
    BY <1>0, <1>1
  <2> HIDE DEF Holds
  <2> QED
    BY <2>1, <2>2
<1>3. u >= Header
  <2>1. CASE j = 1
    BY <1>0, <2>1
  <2>2. CASE j # 1
    <3>1. End(secs[1]) <= secs[j].offset
      BY <1>0, <2>2, SectionsApart
    <3> QED
      BY <1>0, <3>1
  <2> QED
    BY <2>1, <2>2
<1>4. ~(u < Header)
  BY <1>0, <1>3
<1>5. Original(u) = LET k == CHOOSE k \in DOMAIN secs : Holds(k)
                    IN IF secs[k].ctr THEN Cell(u - Header, k, u) ELSE Cell(u - Header, 0, 0)
  BY <1>4, Zenon DEF Original
<1> QED
  BY <1>2, <1>3, <1>5, Zenon

-----------------------------------------------------------------------------
(* Progress.  What zstd has not given yet is what it keeps back, and       *)
(* nothing once the input has ended; acc holds less than a block between   *)
(* two flushes.                                                            *)
Looping == pc \in {"read", "decode", "flush", "last"}

Begins ==
  pc \in {"table", "header"} =>
    /\ fed = 0 /\ zin = 0 /\ decoded = 0 /\ flushed = 0 /\ target = 0 /\ secIdx = 1
    /\ image = <<>> /\ ~ok
LittleKept == Looping => Decodable(fed) - decoded \in 0..Pending
InputAtEnd ==
  empty => /\ pc \in {"decode", "flush", "last"} => zin = 0 /\ (~cut => fed = StreamLen)
           /\ pc \in {"flush", "last"} => Decodable(fed) = decoded
AtLast ==
  /\ pc = "last" => empty /\ target = decoded
  /\ ok => pc = "done" /\ flushed = decoded /\ (~cut => decoded = body)
AccKept ==
  /\ pc \in {"read", "decode"} => decoded - flushed < Block
  /\ pc = "flush" => decoded - target < Block

(* Extent.  The sink holds the header and what was flushed, without gaps.  *)
Extent ==
  /\ Looping \/ ok => DOMAIN image = 0..Header + flushed - 1
  /\ pc = "done" => DOMAIN image \in {{}, 0..Header + flushed - 1}
Within == Header + flushed <= ReconstructedSize

(* Place.  The current section is the first that NcaOff has not passed,    *)
(* and NcaOff is at the start of a block wherever something is still to be *)
(* written there.                                                          *)
Multiple(x) == \E k \in Int : x = k * Block
Passed == \A j \in 1..secIdx - 1 : End(secs[j]) <= NcaOff
Aligned ==
  /\ \/ Multiple(flushed)
     \/ pc \in {"last", "done"} /\ flushed = target
     \/ NcaOff >= ReconstructedSize
  /\ pc = "flush" => Multiple(target) \/ NcaOff >= ReconstructedSize

ProgressInv == TypeOK /\ Begins /\ LittleKept /\ InputAtEnd /\ AtLast /\ AccKept
NczInv == ProgressInv /\ Extent /\ Within /\ Passed /\ Aligned /\ Faithful

(* How one turn of flush goes: from NcaOff on, inside the current section, *)
(* not past target, and at least one unit.                                 *)
LEMMA RunShape ==
  ASSUME TypeOK, Header + flushed <= ReconstructedSize, Passed,
         flushed < target, Ahead # {}, NEW j, j = Min(Ahead)
  PROVE  /\ j \in secIdx..Len(secs) /\ j \in 1..Len(secs) /\ NcaOff = Header + flushed
         /\ secs[j].offset <= NcaOff /\ NcaOff < End(secs[j])
         /\ \A k \in 1..j - 1 : End(secs[k]) <= NcaOff
         /\ Chunk(j) \in Nat \ {0} /\ flushed + Chunk(j) <= target
         /\ NcaOff + Chunk(j) <= End(secs[j])
         /\ flushed + Chunk(j) = target \/ NcaOff + Chunk(j) = End(secs[j])
<1>0. /\ secs \in Tables /\ secIdx \in 1..Len(secs) /\ flushed \in Nat /\ target \in Nat
      /\ Len(secs) \in Nat \ {0} /\ Header \in Nat /\ secs[1].offset = Header
      /\ \A k \in 1..Len(secs) : End(secs[k]) \in Nat /\ secs[k].offset \in Nat
  <2>1. secs \in Tables /\ secIdx \in DOMAIN secs
    BY DEF TypeOK
  <2>2. flushed \in Nat /\ target \in Nat
    BY SizesAssumption DEF TypeOK
  <2> QED
    BY <2>1, <2>2, SectionShape, SizesAssumption
<1>1. NcaOff = Header + flushed /\ NcaOff \in Nat
  BY <1>0 DEF NcaOff
<1>2. Ahead \in SUBSET Nat
  BY <1>0 DEF Ahead
<1>3. j \in Ahead /\ \A k \in Ahead : j <= k
  BY <1>2, MinIsLeast
<1>4. j \in secIdx..Len(secs) /\ j \in 1..Len(secs) /\ NcaOff < End(secs[j])
  BY <1>0, <1>3 DEF Ahead
<1>5. ASSUME NEW k \in 1..j - 1 PROVE End(secs[k]) <= NcaOff
  <2>1. CASE k \in 1..secIdx - 1
    BY <2>1 DEF Passed
  <2>2. CASE k \notin 1..secIdx - 1
    <3>1. k \in secIdx..Len(secs) /\ k < j
      BY <1>0, <1>4, <2>2
    <3>2. k \notin Ahead
      BY <1>0, <1>3, <1>4, <3>1
    <3> QED
      BY <1>0, <1>1, <3>1, <3>2 DEF Ahead
  <2> QED
    BY <2>1, <2>2
<1>6. secs[j].offset <= NcaOff
  <2>1. CASE j = 1
    BY <1>0, <1>1, <2>1
  <2>2. CASE j # 1
    <3>1. j - 1 \in 1..Len(secs) - 1 /\ (j - 1) + 1 = j /\ j - 1 \in 1..j - 1
      BY <1>0, <1>4, <2>2
    <3>2. secs[j].offset = End(secs[j - 1])
      BY <1>0, <3>1, SectionShape
    <3> QED
      BY <1>5, <3>1, <3>2
  <2> QED
    BY <2>1, <2>2
<1>7. PICK a \in Int, b \in Int : a = target - flushed /\ b = End(secs[j]) - NcaOff
  BY <1>0, <1>1, <1>4
<1>8. Chunk(j) = IF a <= b THEN a ELSE b
  <2>1. Chunk(j) = Min({a, b})
    BY <1>7 DEF Chunk
  <2> QED
    BY <2>1, MinOfTwo
<1>9. a > 0 /\ b > 0
  BY <1>0, <1>1, <1>4, <1>7
<1>10. PICK e \in Nat : e = End(secs[j])
  BY <1>0, <1>4
<1>11. /\ Chunk(j) \in Nat \ {0} /\ flushed + Chunk(j) <= target
       /\ NcaOff + Chunk(j) <= e
       /\ flushed + Chunk(j) = target \/ NcaOff + Chunk(j) = e
  <2>1. PICK n : n = Chunk(j)
    OBVIOUS
  <2>2. /\ flushed \in Nat /\ target \in Nat /\ NcaOff \in Nat
        /\ a = target - flushed /\ b = e - NcaOff
    BY <1>0, <1>1, <1>7, <1>10
  <2>3. CASE a <= b
    <3>1. n = a
      BY <1>8, <2>1, <2>3
    <3>2. n \in Nat \ {0} /\ flushed + n <= target /\ NcaOff + n <= e /\ flushed + n = target
      BY <1>9, <2>2, <2>3, <3>1
    <3> QED
      BY <2>1, <3>2
  <2>4. CASE ~(a <= b)
    <3>1. n = b
      BY <1>8, <2>1, <2>4
    <3>2. n \in Nat \ {0} /\ flushed + n <= target /\ NcaOff + n <= e /\ NcaOff + n = e
      BY <1>9, <2>2, <2>4, <3>1
    <3> QED
      BY <2>1, <3>2
  <2> QED
    BY <2>3, <2>4
<1> QED
  BY <1>1, <1>4, <1>5, <1>6, <1>10, <1>11

LEMMA StreamLenShape ==
  ASSUME body \in Bodies
  PROVE  body \in Nat /\ StreamLen \in Nat /\ StreamLen * Ratio >= body
  BY SizesAssumption, StreamHoldsBody DEF StreamLen

LEMMA DecodableShape ==
  ASSUME body \in Bodies, NEW n \in Nat
  PROVE  /\ Decodable(n) \in 0..body
         /\ n = StreamLen => Decodable(n) = body
         /\ n = 0 => Decodable(n) = 0
<1>1. body \in Nat /\ Ratio \in Nat
  BY SizesAssumption
<1>2. PICK m \in Nat : m = n * Ratio
  BY <1>1
<1>3. Decodable(n) = IF body <= m THEN body ELSE m
  BY <1>1, <1>2, MinOfTwo DEF Decodable
<1>4. n = StreamLen => m >= body
  BY <1>2, StreamLenShape
<1>5. n = 0 => m = 0
  BY <1>1, <1>2
<1> QED
  BY <1>1, <1>3, <1>4, <1>5

(* One decode: what zstd consumes and gives, and what flush is to reach.   *)
LEMMA DecodeShape ==
  ASSUME ProgressInv, Decompress, pc' = "flush"
  PROVE  /\ fed' \in Nat /\ zin' \in 0..zin /\ fed' + zin' = fed + zin
         /\ decoded' >= decoded /\ decoded' <= Decodable(fed')
         /\ Decodable(fed') - decoded' \in 0..Pending
         /\ target' \in flushed..decoded' /\ decoded' - target' < Block
         /\ \E k \in Nat : target' = flushed + k * Block
         /\ empty => Decodable(fed') = decoded'
<1>0. /\ fed \in Nat /\ zin \in Nat /\ decoded \in Nat /\ flushed \in Nat /\ flushed <= decoded
      /\ body \in Bodies /\ Pending \in 0..Out /\ Out \in Nat
  BY StreamLenShape, SizesAssumption DEF ProgressInv, TypeOK
<1>1. PICK c \in 0..zin, out \in 0..Out :
        /\ \/ c = zin /\ Decodable(fed + c) - decoded - out = 0
           \/ out = Out /\ Decodable(fed + c) - decoded - out \in 0..Pending
        /\ fed' = fed + c /\ zin' = zin - c /\ decoded' = decoded + out
        /\ target' = flushed + WholeBlocks(decoded + out - flushed)
  BY DEF Decompress, Return
<1>2. Decodable(fed') \in Nat
  BY <1>0, <1>1, DecodableShape
<1>3. PICK d \in Nat : d = decoded + out - flushed
  BY <1>0, <1>1
<1>4. PICK w \in Nat : w = WholeBlocks(d)
  BY WholeBlocksOf
<1>5. w <= d /\ d - w < Block
  <2>1. WholeBlocks(d) \in 0..d /\ d - WholeBlocks(d) < Block
    BY WholeBlocksOf
  <2> QED
    BY <1>4, <2>1
<1>6. \E k \in Nat : w = k * Block
  BY <1>4, WholeBlocksOf
<1>7. Decodable(fed') - decoded' \in 0..Pending
  BY <1>0, <1>1, <1>2
<1>8. ASSUME empty PROVE Decodable(fed') = decoded'
  <2>1. zin = 0 /\ c = 0 /\ fed' = fed
    BY <1>0, <1>1, <1>8 DEF ProgressInv, InputAtEnd, Decompress
  <2>2. Decodable(fed) - decoded \in 0..Pending
    BY DEF ProgressInv, LittleKept, Looping, Decompress
  <2> QED
    BY <1>0, <1>1, <1>2, <2>1, <2>2
<1>9. target' = flushed + w /\ Block \in Nat
  BY <1>1, <1>3, <1>4, SizesAssumption
<1>10. target' \in flushed..decoded' /\ decoded' - target' < Block
  BY <1>0, <1>1, <1>3, <1>5, <1>9
<1>11. \E k \in Nat : target' = flushed + k * Block
  BY <1>6, <1>9
<1> QED
  BY <1>0, <1>1, <1>2, <1>7, <1>8, <1>10, <1>11

(* TypeOK in numbers. *)
LEMMA TypeNumbers ==
  ASSUME TypeOK
  PROVE  /\ fed \in Nat /\ zin \in Nat /\ decoded \in Nat /\ target \in Nat /\ flushed \in Nat
         /\ body \in Bodies /\ body \in Nat /\ secs \in Tables
         /\ flushed <= target /\ target <= decoded /\ decoded <= body
         /\ zin <= In /\ fed + zin <= StreamLen /\ StreamLen \in Nat
         /\ secIdx \in 1..Len(secs) /\ Len(secs) \in Nat \ {0} /\ DOMAIN secs = 1..Len(secs)
<1>1. body \in Bodies /\ secs \in Tables
  BY DEF TypeOK
<1>2. body \in Nat /\ StreamLen \in Nat
  BY <1>1, StreamLenShape
<1>3. DOMAIN secs = 1..Len(secs) /\ Len(secs) \in Nat \ {0}
  BY <1>1, SectionShape
<1> QED
  BY <1>1, <1>2, <1>3, SizesAssumption DEF TypeOK

LEMMA TypeNext == ProgressInv /\ Extent /\ Within /\ Passed /\ [Next]_vars => TypeOK'
<1> SUFFICES ASSUME ProgressInv, Extent, Within, Passed, [Next]_vars PROVE TypeOK'
  OBVIOUS
<1>0. TypeOK
  BY DEF ProgressInv
<1>1. /\ fed \in Nat /\ zin \in Nat /\ decoded \in Nat /\ target \in Nat /\ flushed \in Nat
      /\ body \in Bodies /\ body \in Nat /\ secs \in Tables
      /\ flushed <= target /\ target <= decoded /\ decoded <= body
      /\ zin <= In /\ fed + zin <= StreamLen /\ StreamLen \in Nat
      /\ secIdx \in 1..Len(secs) /\ Len(secs) \in Nat \ {0} /\ DOMAIN secs = 1..Len(secs)
  BY <1>0, TypeNumbers
<1>2. secs' = secs /\ body' = body /\ StreamLen' = StreamLen
  BY DEF Next, vars, input, StreamLen, ReadSections, CopyHeader, ReadStream, Decompress,
         FlushRun, FlushEnds, Finish
<1>3. CASE ReadSections
  BY <1>0, <1>2, <1>3 DEF ReadSections, TypeOK, Return, stream, output
<1>4. CASE CopyHeader
  <2>1. DOMAIN image' \subseteq Nat
    <3>1. CASE HeaderWritten
      <4>1. DOMAIN image' = DOMAIN image \cup (0..Header - 1)
        BY <3>1 DEF HeaderWritten, Write
      <4> QED
        BY <1>0, <4>1, SizesAssumption DEF TypeOK
    <3>2. CASE UNCHANGED image
      BY <1>0, <3>2 DEF TypeOK
    <3> QED
      BY <1>4, <3>1, <3>2 DEF CopyHeader
  <2> QED
    BY <1>0, <1>2, <1>4, <2>1 DEF CopyHeader, TypeOK, Return, stream
<1>5. CASE ReadStream
  <2>1. PICK got \in 0..Min({In, StreamLen - fed}) :
          zin' = got /\ empty' = (got = 0) /\ cut' = (cut \/ (got = 0 /\ fed < StreamLen))
    BY <1>5 DEF ReadStream
  <2>2. zin' \in 0..In /\ fed + zin' <= StreamLen
    <3>1. PICK room \in Int : room = StreamLen - fed
      BY <1>1
    <3>2. Min({In, room}) = IF In <= room THEN In ELSE room
      BY MinOfTwo, SizesAssumption
    <3> QED
      BY <1>1, <2>1, <3>1, <3>2, SizesAssumption
  <2>3. empty' \in BOOLEAN /\ cut' \in BOOLEAN
    BY <1>0, <2>1 DEF TypeOK
  <2> QED
    BY <1>0, <1>2, <1>5, <2>2, <2>3 DEF ReadStream, TypeOK, output
<1>6. CASE Decompress
  <2>1. CASE pc' = "flush"
    <3>1. /\ fed' \in Nat /\ zin' \in 0..zin /\ fed' + zin' = fed + zin
          /\ decoded' >= decoded /\ decoded' <= Decodable(fed')
          /\ target' \in flushed..decoded'
          /\ Decodable(fed') - decoded' \in 0..Pending
      BY <1>6, <2>1, DecodeShape
    <3>2. Decodable(fed') \in 0..body
      BY <1>1, <3>1, DecodableShape
    <3>3. decoded' \in Nat
      BY <1>6, <1>1, <2>1 DEF Decompress, Return
    <3>4. fed' \in 0..StreamLen /\ zin' \in 0..In /\ fed' + zin' <= StreamLen
      <4>1. fed' \in Nat /\ zin' \in 0..zin /\ fed' + zin' = fed + zin
        BY <3>1
      <4>2. In \in Nat /\ zin \in Nat /\ fed \in Nat /\ StreamLen \in Nat
        BY <1>1, SizesAssumption
      <4>3. zin <= In /\ fed + zin <= StreamLen
        BY <1>1
      <4>4. zin' \in 0..In
        BY <4>1, <4>2, <4>3
      <4>5. PICK n \in Nat, f \in Nat, z \in Nat, a \in Nat, b \in Nat :
              n = StreamLen /\ f = fed' /\ z = zin' /\ a = fed /\ b = zin
        BY <4>1, <4>2
      <4>6. f + z = a + b /\ a + b <= n
        BY <4>1, <4>3, <4>5
      <4>7. f + z <= n /\ f \in 0..n
        BY <4>6
      <4> QED
        BY <4>4, <4>5, <4>7
    <3>5. flushed \in 0..target' /\ target' \in 0..decoded' /\ decoded' \in 0..body
      <4>1. decoded' <= body
        BY <1>1, <3>1, <3>2, <3>3
      <4>2. flushed <= target' /\ target' <= decoded' /\ target' \in Int
        BY <1>1, <3>1, <3>3
      <4> QED
        BY <1>1, <3>3, <4>1, <4>2
    <3> QED
      BY <1>0, <1>2, <1>6, <2>1, <3>4, <3>5 DEF Decompress, TypeOK, Return
  <2>2. CASE pc' # "flush"
    BY <1>0, <1>2, <1>6, <2>2 DEF Decompress, TypeOK, Return
  <2> QED
    BY <2>1, <2>2
<1>7. CASE FlushRun
  <2>1. CASE UNCHANGED <<flushed, secIdx, image>>
    BY <1>0, <1>2, <1>7, <2>1 DEF FlushRun, TypeOK, Return, stream
  <2>2. CASE Ahead # {} /\ secIdx' = Min(Ahead) /\ flushed' = flushed + Chunk(secIdx')
             /\ Write(ApplySection(secIdx', NcaOff, Chunk(secIdx'))) /\ UNCHANGED <<pc, ok>>
    <3>1. PICK j : j = secIdx'
      OBVIOUS
    <3>2. /\ j \in 1..Len(secs) /\ Chunk(j) \in Nat \ {0} /\ flushed + Chunk(j) <= target
          /\ NcaOff = Header + flushed
      BY <1>0, <1>7, <2>2, <3>1, RunShape DEF FlushRun, Within
    <3>3. flushed' \in 0..target /\ secIdx' \in DOMAIN secs
      BY <1>1, <2>2, <3>1, <3>2
    <3>4. DOMAIN image' \subseteq Nat
      <4>1. DOMAIN image' = DOMAIN image \cup (NcaOff..NcaOff + Chunk(j) - 1)
        BY <2>2, <3>1 DEF Write, ApplySection
      <4> QED
        BY <1>0, <1>1, <3>2, <4>1, SizesAssumption DEF TypeOK
    <3>5. UNCHANGED <<pc, ok, secs, body, fed, zin, empty, decoded, target, cut, StreamLen>>
      BY <1>2, <1>7, <2>2 DEF FlushRun, stream
    <3> QED
      BY <1>0, <3>3, <3>4, <3>5 DEF TypeOK
  <2> QED
    BY <1>7, <2>1, <2>2 DEF FlushRun
<1>8. CASE FlushEnds
  BY <1>0, <1>1, <1>2, <1>8 DEF FlushEnds, TypeOK, stream, RestOfAcc
<1>9. CASE Finish
  BY <1>0, <1>2, <1>9 DEF Finish, TypeOK, Return, stream, output
<1>10. CASE UNCHANGED vars
  BY <1>0, <1>2, <1>10 DEF vars, stream, output, TypeOK
<1> QED
  BY <1>3, <1>4, <1>5, <1>6, <1>7, <1>8, <1>9, <1>10 DEF Next

(* The length of the stream and what it decodes to do not change. *)
LEMMA InputKept ==
  ASSUME TypeOK, [Next]_vars
  PROVE  /\ secs' = secs /\ body' = body /\ StreamLen' = StreamLen
         /\ Decodable(fed)' = Decodable(fed')
         /\ ReconstructedSize' = ReconstructedSize
<1>1. secs' = secs /\ body' = body
  BY DEF Next, vars, input, ReadSections, CopyHeader, ReadStream, Decompress,
         FlushRun, FlushEnds, Finish
<1> QED
  BY <1>1 DEF StreamLen, Decodable, ReconstructedSize

LEMMA BeginsNext == ProgressInv /\ [Next]_vars => Begins'
<1> SUFFICES ASSUME ProgressInv, [Next]_vars, pc' \in {"table", "header"}
             PROVE  Begins'
  BY DEF Begins
<1>1. Begins
  BY DEF ProgressInv
<1>2. CASE ReadSections
  BY <1>1, <1>2 DEF Begins, ReadSections, Return, stream, output
<1>3. ~CopyHeader /\ ~ReadStream /\ ~Decompress /\ ~FlushRun /\ ~FlushEnds /\ ~Finish
  BY DEF CopyHeader, ReadStream, Decompress, FlushRun, FlushEnds, Finish, Return
<1>4. CASE UNCHANGED vars
  BY <1>1, <1>4 DEF Begins, vars, stream, output
<1> QED
  BY <1>2, <1>3, <1>4 DEF Next

LEMMA LittleKeptNext == ProgressInv /\ [Next]_vars => LittleKept'
<1> SUFFICES ASSUME ProgressInv, [Next]_vars, Looping'
             PROVE  Decodable(fed') - decoded' \in 0..Pending
  BY InputKept DEF LittleKept, ProgressInv
<1>1. TypeOK /\ Begins /\ LittleKept
  BY DEF ProgressInv
<1>2. ASSUME Looping, UNCHANGED <<fed, decoded>> PROVE Decodable(fed') - decoded' \in 0..Pending
  BY <1>1, <1>2 DEF LittleKept
<1>3. CASE CopyHeader
  <2>1. fed' = 0 /\ decoded' = 0
    BY <1>1, <1>3 DEF CopyHeader, Begins, stream
  <2>2. Decodable(0) = 0
    BY <1>1, DecodableShape, TypeNumbers
  <2>3. Pending \in Nat
    BY SizesAssumption
  <2> QED
    BY <2>1, <2>2, <2>3
<1>4. CASE Decompress
  BY <1>4, DecodeShape DEF Decompress, Return, Looping
<1>5. ASSUME ReadStream \/ FlushRun \/ FlushEnds PROVE Looping /\ UNCHANGED <<fed, decoded>>
  BY <1>5 DEF ReadStream, FlushRun, FlushEnds, Looping, stream
<1>6. ~ReadSections /\ ~Finish
  BY DEF ReadSections, Finish, Return, Looping
<1>7. CASE UNCHANGED vars
  BY <1>2, <1>7 DEF vars, stream, Looping
<1> QED
  BY <1>2, <1>3, <1>4, <1>5, <1>6, <1>7 DEF Next

LEMMA InputAtEndNext == ProgressInv /\ [Next]_vars => InputAtEnd'
<1> SUFFICES ASSUME ProgressInv, [Next]_vars, empty', pc' \in {"decode", "flush", "last"}
             PROVE  /\ zin' = 0 /\ (~cut' => fed' = StreamLen)
                    /\ pc' \in {"flush", "last"} => Decodable(fed') = decoded'
  BY InputKept DEF InputAtEnd, ProgressInv
<1>1. TypeOK /\ InputAtEnd
  BY DEF ProgressInv
<1>2. fed \in Nat /\ zin \in Nat /\ fed + zin <= StreamLen /\ StreamLen \in Nat
  BY <1>1, TypeNumbers
<1>3. CASE ReadStream
  <2>1. PICK got : zin' = got /\ empty' = (got = 0) /\ cut' = (cut \/ (got = 0 /\ fed < StreamLen))
    BY <1>3 DEF ReadStream
  <2>2. zin' = 0 /\ (~cut' => ~(fed < StreamLen))
    BY <2>1
  <2>3. fed' = fed /\ pc' = "decode"
    BY <1>3 DEF ReadStream
  <2> QED
    BY <1>2, <2>2, <2>3
<1>4. CASE Decompress
  <2>1. pc' = "flush" /\ empty /\ cut' = cut
    BY <1>4 DEF Decompress, Return
  <2>2. zin = 0 /\ (~cut => fed = StreamLen)
    BY <1>1, <1>4, <2>1 DEF InputAtEnd, Decompress
  <2>3. /\ fed' \in Nat /\ zin' \in 0..zin /\ fed' + zin' = fed + zin
        /\ Decodable(fed') = decoded'
    BY <1>4, <2>1, DecodeShape
  <2>4. zin' = 0 /\ fed' = fed
    <3>1. zin' = 0
      BY <2>2, <2>3
    <3>2. PICK f \in Nat, z \in Nat, g \in Nat, y \in Nat : f = fed' /\ z = zin' /\ g = fed /\ y = zin
      BY <1>2, <2>3, <3>1
    <3>3. f + z = g + y /\ z = 0 /\ y = 0
      BY <2>2, <2>3, <3>1, <3>2
    <3>4. f = g
      BY <3>3
    <3> QED
      BY <3>1, <3>2, <3>4
  <2> QED
    BY <2>1, <2>2, <2>3, <2>4
<1>5. CASE FlushRun
  BY <1>1, <1>5 DEF FlushRun, InputAtEnd, stream, Return
<1>6. CASE FlushEnds
  BY <1>1, <1>6 DEF FlushEnds, InputAtEnd, stream, InputEnded
<1>7. ~ReadSections /\ ~CopyHeader /\ ~Finish
  BY DEF ReadSections, CopyHeader, Finish, Return
<1>8. CASE UNCHANGED vars
  BY <1>1, <1>8 DEF vars, stream, InputAtEnd
<1> QED
  BY <1>3, <1>4, <1>5, <1>6, <1>7, <1>8 DEF Next

LEMMA AtLastNext == ProgressInv /\ [Next]_vars => AtLast'
<1> SUFFICES ASSUME ProgressInv, [Next]_vars
             PROVE  /\ pc' = "last" => empty' /\ target' = decoded'
                    /\ ok' => /\ pc' = "done" /\ flushed' = decoded'
                              /\ ~cut' => decoded' = body
  BY InputKept DEF AtLast, ProgressInv
<1>1. TypeOK /\ InputAtEnd /\ AtLast
  BY DEF ProgressInv
<1>2. ok => pc = "done"
  BY <1>1 DEF AtLast
<1>3. CASE ReadSections \/ CopyHeader \/ ReadStream \/ Decompress
  BY <1>2, <1>3 DEF ReadSections, CopyHeader, ReadStream, Decompress, Return
<1>4. CASE FlushRun
  BY <1>1, <1>2, <1>4 DEF FlushRun, Return, AtLast, stream
<1>5. CASE FlushEnds
  BY <1>2, <1>5 DEF FlushEnds, InputEnded, RestOfAcc, stream
<1>6. CASE Finish
  <2>1. pc = "last" /\ flushed = target /\ pc' = "done" /\ ok'
        /\ UNCHANGED <<flushed, decoded, cut>>
    BY <1>6 DEF Finish, Return, stream, output
  <2>2. flushed = decoded /\ empty
    BY <1>1, <2>1 DEF AtLast
  <2>3. Decodable(fed) = decoded /\ (~cut => fed = StreamLen)
    BY <1>1, <2>1, <2>2 DEF InputAtEnd
  <2>4. fed = StreamLen => Decodable(fed) = body
    BY <1>1, TypeNumbers, DecodableShape
  <2> QED
    BY <2>1, <2>2, <2>3, <2>4
<1>7. CASE UNCHANGED vars
  BY <1>1, <1>7, InputKept DEF vars, stream, output, input, AtLast
<1> QED
  BY <1>3, <1>4, <1>5, <1>6, <1>7 DEF Next

LEMMA AccKeptNext == ProgressInv /\ [Next]_vars => AccKept'
<1> SUFFICES ASSUME ProgressInv, [Next]_vars PROVE AccKept'
  OBVIOUS
<1>1. TypeOK /\ Begins /\ AccKept
  BY DEF ProgressInv
<1>2. CASE ReadSections \/ Finish
  BY <1>2 DEF ReadSections, Finish, Return, AccKept
<1>3. CASE CopyHeader
  <2>1. decoded' = 0 /\ flushed' = 0 /\ pc' # "flush"
    BY <1>1, <1>3 DEF CopyHeader, Begins, stream, Return
  <2> QED
    BY <2>1, SizesAssumption DEF AccKept
<1>4. CASE ReadStream
  BY <1>1, <1>4 DEF ReadStream, AccKept, output
<1>5. CASE Decompress
  BY <1>5, DecodeShape DEF Decompress, Return, AccKept
<1>6. CASE FlushRun
  BY <1>1, <1>6 DEF FlushRun, Return, stream, AccKept
<1>7. CASE FlushEnds
  BY <1>1, <1>7 DEF FlushEnds, stream, AccKept
<1>8. CASE UNCHANGED vars
  BY <1>1, <1>8 DEF vars, stream, output, AccKept
<1> QED
  BY <1>2, <1>3, <1>4, <1>5, <1>6, <1>7, <1>8 DEF Next

LEMMA ProgressNext ==
  ProgressInv /\ Extent /\ Within /\ Passed /\ [Next]_vars => ProgressInv'
  BY TypeNext, BeginsNext, LittleKeptNext, InputAtEndNext, AtLastNext, AccKeptNext DEF ProgressInv

-----------------------------------------------------------------------------
(* Multiples of a block. *)
LEMMA MultipleSum ==
  ASSUME NEW a, NEW b, Multiple(a), Multiple(b)
  PROVE  Multiple(a + b) /\ Multiple(a - b)
<1>1. PICK k \in Int, l \in Int : a = k * Block /\ b = l * Block
  BY DEF Multiple
<1>2. Block \in Int
  BY SizesAssumption
<1>3. a + b = (k + l) * Block /\ a - b = (k - l) * Block
  BY <1>1, <1>2
<1> QED
  BY <1>3 DEF Multiple

LEMMA MultipleIf ==
  ASSUME NEW a \in Nat
  PROVE  /\ a % Block = 0 => Multiple(a)
         /\ Multiple(a) => (a \div Block) * Block = a
<1>1. Block \in Nat /\ Block > 0
  BY SizesAssumption
<1>2. ASSUME a % Block = 0 PROVE Multiple(a)
  <2>1. a = Block * (a \div Block) + (a % Block) /\ a \div Block \in Int
    BY <1>1
  <2>2. a = (a \div Block) * Block
    BY <1>1, <1>2, <2>1
  <2> QED
    BY <2>1, <2>2 DEF Multiple
<1>3. ASSUME Multiple(a) PROVE (a \div Block) * Block = a
  <2>1. PICK k \in Int : a = k * Block
    BY <1>3 DEF Multiple
  <2>2. k \in Nat
    BY <1>1, <2>1
  <2> QED
    BY <2>1, <2>2, BlockStart
<1> QED
  BY <1>2, <1>3

(* What a turn of flush leaves: nothing changed, or one run written.       *)
Turn(j) ==
  /\ j \in secIdx..Len(secs) /\ j \in 1..Len(secs)
  /\ secIdx' = j /\ flushed' = flushed + Chunk(j) /\ flushed < target
  /\ Write(ApplySection(j, NcaOff, Chunk(j)))
  /\ UNCHANGED <<pc, ok, target>> /\ pc \in {"flush", "last"}
Failed == flushed < target /\ pc \in {"flush", "last"} /\ pc' = "done" /\ ~ok'
          /\ UNCHANGED <<flushed, target, secIdx, image>>

LEMMA TurnShape ==
  ASSUME TypeOK, Within, Passed, FlushRun
  PROVE  \/ Failed
         \/ \E j : Turn(j) /\ j = Min(Ahead) /\ Ahead # {}
<1>1. CASE Return(FALSE) /\ UNCHANGED <<flushed, secIdx, image>>
  BY <1>1 DEF FlushRun, Return, Failed
<1>2. CASE Ahead # {} /\ secIdx' = Min(Ahead) /\ flushed' = flushed + Chunk(secIdx')
           /\ Write(ApplySection(secIdx', NcaOff, Chunk(secIdx'))) /\ UNCHANGED <<pc, ok>>
  <2>1. PICK j : j = Min(Ahead)
    OBVIOUS
  <2>2. j \in secIdx..Len(secs) /\ j \in 1..Len(secs)
    BY <1>2, <2>1, RunShape DEF FlushRun, Within
  <2>3. secIdx' = j
    BY <1>2, <2>1
  <2>4. Turn(j)
    BY <1>2, <2>2, <2>3 DEF FlushRun, Turn
  <2> QED
    BY <1>2, <2>1, <2>4
<1> QED
  BY <1>1, <1>2 DEF FlushRun

(* Steps that write nothing. *)
LEMMA OtherSteps ==
  ASSUME [Next]_vars
  PROVE  \/ CopyHeader
         \/ FlushRun
         \/ UNCHANGED <<flushed, secIdx, image>>
  BY DEF Next, vars, output, ReadSections, ReadStream, Decompress, FlushEnds, Finish

LEMMA WithinPassedNext ==
  TypeOK /\ Begins /\ Within /\ Passed /\ [Next]_vars => Within' /\ Passed'
<1> SUFFICES ASSUME TypeOK, Begins, Within, Passed, [Next]_vars PROVE Within' /\ Passed'
  OBVIOUS
<1>1. secs' = secs /\ ReconstructedSize' = ReconstructedSize
  BY InputKept
<1>2. ASSUME UNCHANGED <<flushed, secIdx>> PROVE Within' /\ Passed'
  BY <1>1, <1>2 DEF Within, Passed, NcaOff
<1>3. CASE CopyHeader
  BY <1>2, <1>3 DEF CopyHeader
<1>4. CASE FlushRun
  <2>1. CASE Failed
    BY <1>2, <2>1 DEF Failed
  <2>2. ASSUME NEW j, Turn(j), j = Min(Ahead), Ahead # {} PROVE Within' /\ Passed'
    <3>1. /\ NcaOff = Header + flushed /\ \A k \in 1..j - 1 : End(secs[k]) <= NcaOff
          /\ Chunk(j) \in Nat \ {0} /\ NcaOff + Chunk(j) <= End(secs[j])
          /\ j \in 1..Len(secs)
      BY <2>2, RunShape DEF Turn, Within
    <3>2. flushed' = flushed + Chunk(j) /\ secIdx' = j
      BY <2>2 DEF Turn
    <3>3. /\ flushed \in Nat /\ Header \in Nat /\ secs \in Tables /\ secs[1].offset = Header
          /\ \A k \in 1..Len(secs) : End(secs[k]) \in Nat
      BY TypeNumbers, SectionShape, SizesAssumption
    <3>4. End(secs[j]) <= ReconstructedSize /\ ReconstructedSize \in Nat
      BY <3>1, <3>3, SizeIsLastEnd
    <3>5. Header + flushed' <= ReconstructedSize
      BY <3>1, <3>2, <3>3, <3>4
    <3>6. NcaOff' = Header + flushed' /\ NcaOff' >= NcaOff
      BY <1>1, <3>1, <3>2, <3>3 DEF NcaOff
    <3>7. ASSUME NEW k \in 1..j - 1 PROVE End(secs[k]) <= NcaOff'
      <4>1. k \in 1..Len(secs)
        BY <3>1
      <4> QED
        BY <3>1, <3>2, <3>3, <3>6, <4>1
    <3> QED
      BY <1>1, <3>2, <3>5, <3>7 DEF Within, Passed
  <2> QED
    BY <1>4, <2>1, <2>2, TurnShape
<1> QED
  BY <1>2, <1>3, <1>4, OtherSteps

LEMMA ExtentNext ==
  TypeOK /\ Begins /\ AtLast /\ Within /\ Passed /\ Extent /\ [Next]_vars => Extent'
<1> SUFFICES ASSUME TypeOK, Begins, AtLast, Within, Passed, Extent, [Next]_vars PROVE Extent'
  OBVIOUS
<1>0. Header \in Nat \ {0} /\ flushed \in Nat
  BY TypeNumbers, SizesAssumption
<1>1. CASE ReadSections
  <2>1. image' = <<>> /\ ~ok' /\ pc' \in {"header", "done"}
    BY <1>1 DEF ReadSections, Begins, output, Return
  <2> QED
    BY <2>1 DEF Extent, Looping
<1>2. CASE CopyHeader
  <2>1. CASE pc' = "read" /\ HeaderWritten
    <3>1. DOMAIN image' = DOMAIN image \cup (0..Header - 1) /\ image = <<>>
      BY <1>2, <2>1 DEF HeaderWritten, Write, CopyHeader, Begins
    <3>2. flushed' = 0
      BY <1>2 DEF CopyHeader, Begins
    <3>3. DOMAIN image' = 0..Header + flushed' - 1
      BY <1>0, <3>1, <3>2
    <3> QED
      BY <2>1, <3>3 DEF Extent
  <2>2. CASE Return(FALSE) /\ UNCHANGED image
    <3>1. image' = <<>> /\ ~ok' /\ pc' = "done"
      BY <1>2, <2>2 DEF CopyHeader, Begins, Return
    <3> QED
      BY <3>1 DEF Extent, Looping
  <2> QED
    BY <1>2, <2>1, <2>2 DEF CopyHeader
<1>3. CASE FlushRun
  <2>0. DOMAIN image = 0..Header + flushed - 1
    BY <1>3 DEF Extent, FlushRun, Looping
  <2>1. CASE Failed
    BY <2>0, <2>1 DEF Failed, Extent, Looping
  <2>2. ASSUME NEW j, Turn(j), j = Min(Ahead), Ahead # {} PROVE Extent'
    <3>1. NcaOff = Header + flushed /\ Chunk(j) \in Nat \ {0}
      BY <2>2, RunShape DEF Turn, Within
    <3>2. DOMAIN image' = DOMAIN image \cup (NcaOff..NcaOff + Chunk(j) - 1)
      BY <2>2 DEF Turn, Write, ApplySection
    <3>3. flushed' = flushed + Chunk(j)
      BY <2>2 DEF Turn
    <3>4. DOMAIN image' = 0..Header + flushed' - 1
      BY <1>0, <2>0, <3>1, <3>2, <3>3
    <3> QED
      BY <3>4 DEF Extent
  <2> QED
    BY <1>3, <2>1, <2>2, TurnShape
<1>4. ASSUME ReadStream \/ Decompress \/ FlushEnds \/ Finish
      PROVE  Looping /\ UNCHANGED <<flushed, image>>
  BY <1>4 DEF ReadStream, Decompress, FlushEnds, Finish, output, Looping
<1>5. CASE UNCHANGED vars
  BY <1>5 DEF vars, output, Extent, Looping
<1>6. CASE Looping /\ UNCHANGED <<flushed, image>>
  BY <1>6 DEF Extent
<1> QED
  BY <1>1, <1>2, <1>3, <1>4, <1>5, <1>6 DEF Next

LEMMA AlignedNext ==
  ProgressInv /\ Within /\ Passed /\ Aligned /\ [Next]_vars => Aligned'
<1> SUFFICES ASSUME ProgressInv, Within, Passed, Aligned, [Next]_vars PROVE Aligned'
  OBVIOUS
<1>0. TypeOK /\ Begins
  BY DEF ProgressInv
<1>1. secs' = secs /\ ReconstructedSize' = ReconstructedSize
  BY <1>0, InputKept
<1>2. ASSUME UNCHANGED flushed PROVE NcaOff' = NcaOff
  BY <1>1, <1>2 DEF NcaOff
<1>3. CASE ReadSections \/ CopyHeader
  <2>1. flushed' = 0 /\ pc' # "flush"
    BY <1>0, <1>3 DEF ReadSections, CopyHeader, Begins, output, Return
  <2>2. Multiple(0)
    BY SizesAssumption DEF Multiple
  <2> QED
    BY <2>1, <2>2 DEF Aligned
<1>4. CASE Decompress
  <2>1. UNCHANGED flushed /\ pc = "decode"
    BY <1>4 DEF Decompress
  <2>2. Multiple(flushed) \/ NcaOff >= ReconstructedSize
    BY <2>1 DEF Aligned
  <2>3. CASE pc' = "flush"
    <3>1. PICK k \in Nat : target' = flushed + k * Block
      BY <1>4, <2>3, DecodeShape
    <3>2. Multiple(k * Block)
      BY DEF Multiple
    <3>3. Multiple(flushed) => Multiple(target')
      BY <3>1, <3>2, MultipleSum
    <3> QED
      BY <1>1, <1>2, <2>1, <2>2, <2>3, <3>3 DEF Aligned
  <2>4. CASE pc' # "flush"
    BY <1>1, <1>2, <2>1, <2>2, <2>4 DEF Aligned
  <2> QED
    BY <2>3, <2>4
<1>5. CASE FlushRun
  <2>1. CASE Failed
    BY <1>1, <1>2, <2>1 DEF Failed, Aligned, TypeOK
  <2>2. ASSUME NEW j, Turn(j), j = Min(Ahead), Ahead # {} PROVE Aligned'
    <3>1. /\ NcaOff = Header + flushed /\ Chunk(j) \in Nat \ {0} /\ j \in 1..Len(secs)
          /\ flushed + Chunk(j) = target \/ NcaOff + Chunk(j) = End(secs[j])
          /\ NcaOff < End(secs[j])
      BY <1>0, <2>2, RunShape DEF Turn, Within
    <3>2. flushed' = flushed + Chunk(j) /\ UNCHANGED <<pc, target>> /\ pc \in {"flush", "last"}
      BY <2>2 DEF Turn
    <3>3. /\ flushed \in Nat /\ Header \in Nat /\ secs \in Tables /\ secs[1].offset = Header
          /\ Len(secs) \in Nat /\ \A k \in 1..Len(secs) : End(secs[k]) \in Nat
      BY <1>0, TypeNumbers, SectionShape, SizesAssumption
    <3>4. End(secs[j]) <= ReconstructedSize /\ ReconstructedSize \in Nat
      BY <3>1, <3>3, SizeIsLastEnd
    <3>5. NcaOff' = NcaOff + Chunk(j) /\ NcaOff' = Header + flushed'
      BY <1>1, <3>1, <3>2, <3>3 DEF NcaOff
    <3>6. pc = "flush" => Multiple(target)
      BY <3>1, <3>3, <3>4 DEF Aligned
    <3>7. CASE flushed' = target
      BY <3>2, <3>6, <3>7 DEF Aligned
    <3>8. CASE NcaOff' = End(secs[j]) /\ j = Len(secs)
      <4>1. NcaOff' >= ReconstructedSize
        BY <3>3, <3>4, <3>8, SizeIsLastEnd
      <4> QED
        BY <1>1, <3>2, <3>6, <4>1 DEF Aligned
    <3>9. CASE NcaOff' = End(secs[j]) /\ j # Len(secs)
      <4>1. End(secs[j]) % Block = 0 /\ Header % Block = 0
        BY <3>1, <3>3, <3>9, SectionShape, SizesAssumption
      <4>2. Multiple(End(secs[j])) /\ Multiple(Header)
        BY <3>1, <3>3, <4>1, MultipleIf
      <4>3. flushed' = End(secs[j]) - Header
        BY <3>1, <3>2, <3>3, <3>5, <3>9
      <4>4. Multiple(flushed')
        BY <4>2, <4>3, MultipleSum
      <4> QED
        BY <3>2, <3>6, <4>4 DEF Aligned
    <3> QED
      BY <3>1, <3>2, <3>5, <3>7, <3>8, <3>9
  <2> QED
    BY <1>0, <1>5, <2>1, <2>2, TurnShape
<1>6. CASE FlushEnds
  <2>1. UNCHANGED flushed /\ pc = "flush" /\ pc' # "flush"
    BY <1>6 DEF FlushEnds
  <2> QED
    BY <1>1, <1>2, <2>1 DEF Aligned
<1>7. CASE ReadStream
  <2>1. UNCHANGED flushed /\ pc = "read" /\ pc' # "flush"
    BY <1>7 DEF ReadStream, output
  <2> QED
    BY <1>1, <1>2, <2>1 DEF Aligned
<1>8. CASE Finish
  <2>1. UNCHANGED <<flushed, target>> /\ pc' = "done" /\ flushed = target
    BY <1>8 DEF Finish, output, Return
  <2> QED
    BY <2>1 DEF Aligned
<1>9. CASE UNCHANGED vars
  BY <1>1, <1>2, <1>9 DEF vars, output, Aligned
<1> QED
  BY <1>3, <1>4, <1>5, <1>6, <1>7, <1>8, <1>9 DEF Next

(* The run that a turn writes is what the NCA has there.                   *)
LEMMA RunFaithful ==
  ASSUME TypeOK, Within, Passed, Aligned, NEW j, Turn(j), j = Min(Ahead), Ahead # {},
         NEW u \in NcaOff..NcaOff + Chunk(j) - 1
  PROVE  ApplySection(j, NcaOff, Chunk(j))[u] = Original(u)
<1>1. /\ NcaOff = Header + flushed /\ Chunk(j) \in Nat \ {0} /\ j \in 1..Len(secs)
      /\ secs[j].offset <= NcaOff /\ NcaOff + Chunk(j) <= End(secs[j]) /\ NcaOff < End(secs[j])
  BY RunShape DEF Turn, Within
<1>2. /\ flushed \in Nat /\ Header \in Nat /\ secs \in Tables
      /\ \A k \in 1..Len(secs) : End(secs[k]) \in Nat /\ secs[k].offset \in Nat
  BY TypeNumbers, SectionShape, SizesAssumption
<1>3. End(secs[j]) <= ReconstructedSize /\ ReconstructedSize \in Nat
  BY <1>1, <1>2, SizeIsLastEnd
<1>4. Multiple(flushed)
  BY <1>1, <1>2, <1>3 DEF Aligned, Turn
<1>5. Multiple(NcaOff)
  <2>1. Multiple(Header)
    BY <1>2, MultipleIf, SizesAssumption
  <2> QED
    BY <1>1, <1>4, <2>1, MultipleSum
<1>6. (NcaOff \div Block) * Block = NcaOff
  BY <1>1, <1>2, <1>5, MultipleIf
<1>7. u \in Nat /\ secs[j].offset <= u /\ u < End(secs[j])
  BY <1>1, <1>2
<1>8. flushed + (u - NcaOff) = u - Header /\ NcaOff + (u - NcaOff) = u
  BY <1>1, <1>2
<1>9. ApplySection(j, NcaOff, Chunk(j))[u] =
        IF secs[j].ctr THEN Cell(u - Header, j, u) ELSE Cell(u - Header, 0, 0)
  BY <1>6, <1>8 DEF ApplySection
<1>10. Original(u) = IF secs[j].ctr THEN Cell(u - Header, j, u) ELSE Cell(u - Header, 0, 0)
  BY <1>1, <1>2, <1>7, OriginalAt
<1> QED
  BY <1>9, <1>10

LEMMA FaithfulNext ==
  ProgressInv /\ Within /\ Passed /\ Aligned /\ Faithful /\ [Next]_vars => Faithful'
<1> SUFFICES ASSUME ProgressInv, Within, Passed, Aligned, Faithful, [Next]_vars,
                    NEW u \in DOMAIN image', u < ReconstructedSize'
             PROVE  image'[u] = Original(u)'
  BY DEF Faithful
<1>0. TypeOK /\ Begins
  BY DEF ProgressInv
<1>1. Original(u)' = Original(u) /\ u < ReconstructedSize
  <2>1. secs' = secs /\ ReconstructedSize' = ReconstructedSize
    BY <1>0, InputKept
  <2> QED
    BY <2>1 DEF Original
<1>2. CASE UNCHANGED image
  BY <1>1, <1>2 DEF Faithful
<1>3. CASE CopyHeader
  <2>1. CASE HeaderWritten
    <3>1. image = <<>>
      BY <1>0, <1>3 DEF Begins, CopyHeader
    <3>2. u \in 0..Header - 1 /\ image'[u] = HeaderCell
      BY <2>1, <3>1 DEF HeaderWritten, Write
    <3>3. u < Header
      BY <3>2, SizesAssumption
    <3> QED
      BY <1>1, <3>2, <3>3 DEF Original
  <2> QED
    BY <1>2, <1>3, <2>1 DEF CopyHeader
<1>4. CASE FlushRun
  <2>1. CASE Failed
    BY <1>2, <2>1 DEF Failed
  <2>2. ASSUME NEW j, Turn(j), j = Min(Ahead), Ahead # {} PROVE image'[u] = Original(u)
    <3>1. PICK run : run = ApplySection(j, NcaOff, Chunk(j))
      OBVIOUS
    <3>2. DOMAIN run = NcaOff..NcaOff + Chunk(j) - 1
      BY <3>1 DEF ApplySection
    <3>3. image' = [v \in DOMAIN image \cup DOMAIN run |->
                      IF v \in DOMAIN run THEN run[v] ELSE image[v]]
      BY <2>2, <3>1 DEF Turn, Write
    <3>4. CASE u \in DOMAIN run
      BY <1>0, <2>2, <3>1, <3>2, <3>3, <3>4, RunFaithful
    <3>5. CASE u \notin DOMAIN run
      BY <1>1, <3>3, <3>5 DEF Faithful
    <3> QED
      BY <3>4, <3>5
  <2> QED
    BY <1>0, <1>1, <1>4, <2>1, <2>2, TurnShape
<1> QED
  BY <1>2, <1>3, <1>4, OtherSteps

LEMMA NczInit == Init => NczInv
<1> SUFFICES ASSUME Init PROVE NczInv
  OBVIOUS
<1>1. secs \in Tables /\ body \in Bodies
  BY DEF Init
<1>2. /\ body \in Nat /\ StreamLen \in Nat /\ In \in Nat
      /\ DOMAIN secs = 1..Len(secs) /\ Len(secs) \in Nat \ {0}
  BY <1>1, StreamLenShape, SectionShape, SizesAssumption
<1>3. TypeOK
  <2>1. 0 \in 0..StreamLen /\ 0 \in 0..In /\ 0 + 0 <= StreamLen /\ 0 \in 0..0 /\ 0 \in 0..body
    BY <1>2
  <2>2. DOMAIN <<>> \subseteq Nat /\ 1 \in DOMAIN secs
    BY <1>2
  <2> QED
    BY <2>1, <2>2 DEF Init, TypeOK
<1>4. Begins /\ LittleKept /\ InputAtEnd /\ AtLast /\ AccKept /\ Extent
  BY DEF Init, Begins, LittleKept, InputAtEnd, AtLast, AccKept, Extent, Looping
<1>5. Within
  <2>1. Header < ReconstructedSize /\ Header \in Nat /\ ReconstructedSize \in Nat
    BY <1>1, SizeIsLastEnd, SizesAssumption
  <2> QED
    BY <2>1 DEF Init, Within
<1>6. Passed
  BY DEF Init, Passed
<1>7. Aligned
  <2>1. Multiple(0)
    BY SizesAssumption DEF Multiple
  <2> QED
    BY <2>1 DEF Init, Aligned
<1>8. Faithful
  BY DEF Init, Faithful
<1> QED
  BY <1>3, <1>4, <1>5, <1>6, <1>7, <1>8 DEF NczInv, ProgressInv

LEMMA NczNext == NczInv /\ [Next]_vars => NczInv'
<1> SUFFICES ASSUME NczInv, [Next]_vars PROVE NczInv'
  OBVIOUS
<1>1. /\ ProgressInv /\ Extent /\ Within /\ Passed /\ Aligned /\ Faithful
      /\ TypeOK /\ Begins /\ AtLast
  BY DEF NczInv, ProgressInv
<1> QED
  BY <1>1, ProgressNext, ExtentNext, WithinPassedNext, AlignedNext, FaithfulNext DEF NczInv

-----------------------------------------------------------------------------
(* Every variable of nczReconstruct has its type, for every section table  *)
(* and every way the stream is cut up.                                     *)
THEOREM NczTypeCorrect == Spec => []TypeOK
<1>1. NczInv => TypeOK
  BY DEF NczInv, ProgressInv
<1> QED
  BY <1>1, NczInit, NczNext, PTL DEF Spec

(* What is written is what the NCA has there: body unit, section key and   *)
(* place in the key stream are right across reads, decoder outputs and     *)
(* section edges (flush and applySection).                                 *)
THEOREM FaithfulAlways == Spec => []Faithful
<1>1. NczInv => Faithful
  BY DEF NczInv
<1> QED
  BY <1>1, NczInit, NczNext, PTL DEF Spec

(* Nothing is written past nczReconstructedSize, the size the placeholder  *)
(* has, whatever the stream holds.                                         *)
THEOREM NeverPastTableAlways == Spec => []NeverPastTable
<1>1. ASSUME NczInv PROVE NeverPastTable
  <2>1. TypeOK /\ Begins /\ Extent /\ Within
    BY <1>1 DEF NczInv, ProgressInv
  <2>2. /\ flushed \in Nat /\ Header \in Nat /\ ReconstructedSize \in Nat
        /\ Header + flushed <= ReconstructedSize
    BY <2>1, TypeNumbers, SizeIsLastEnd, SizesAssumption DEF Within
  <2>3. DOMAIN image \in {{}, 0..Header + flushed - 1}
    <3>1. pc \in {"table", "header"} \/ Looping \/ pc = "done"
      BY <2>1 DEF TypeOK, Looping
    <3>2. pc \in {"table", "header"} => DOMAIN image = {}
      BY <2>1 DEF Begins
    <3> QED
      BY <2>1, <3>1, <3>2 DEF Extent
  <2> QED
    BY <2>2, <2>3 DEF NeverPastTable
<1> QED
  BY <1>1, NczInit, NczNext, PTL DEF Spec

(* true is only returned with the whole body written, unless the source    *)
(* ended early (the end of nczReconstruct: flush(true)).                   *)
THEOREM WholeUnlessCutAlways == Spec => []WholeUnlessCut
<1>1. NczInv => WholeUnlessCut
  BY DEF NczInv, ProgressInv, Extent, AtLast, WholeUnlessCut
<1> QED
  BY <1>1, NczInit, NczNext, PTL DEF Spec

(* Before each decode acc holds less than one AES block, so that it never  *)
(* outgrows OUT and a block (flush(false) leaves only a part of a block).  *)
THEOREM AccBoundedAlways == Spec => []AccBounded
<1>1. NczInv => AccBounded
  BY DEF NczInv, ProgressInv, AccKept, AccBounded
<1> QED
  BY <1>1, NczInit, NczNext, PTL DEF Spec

-----------------------------------------------------------------------------
(* The prefix the sink holds. *)
LEMMA CountPrefix ==
  ASSUME NEW n \in Nat
  PROVE  Cardinality(0..n - 1) = n
<1>1. Cardinality(0..n - 1) = IF 0 > n - 1 THEN 0 ELSE n - 1 - 0 + 1
  BY FS_Interval
<1> QED
  BY <1>1

LEMMA PrefixOf ==
  ASSUME NEW n \in Nat
  PROVE  DOMAIN image = 0..n - 1 => Prefix = n
  BY CountPrefix DEF Prefix

LEMMA PrefixNext ==
  ASSUME NEW n \in Nat
  PROVE  DOMAIN image' = 0..n - 1 => Prefix' = n
  BY CountPrefix DEF Prefix

LEMMA PrefixNow ==
  ASSUME NczInv
  PROVE  /\ Header \in Nat \ {0} /\ flushed \in Nat
         /\ Looping => Prefix = Header + flushed
         /\ pc \in {"table", "header"} => Prefix = 0
<1>1. TypeOK /\ Extent /\ Begins
  BY DEF NczInv, ProgressInv
<1>2. Header \in Nat \ {0} /\ flushed \in Nat
  BY <1>1, TypeNumbers, SizesAssumption
<1>3. ASSUME Looping PROVE Prefix = Header + flushed
  <2>1. PICK n \in Nat : n = Header + flushed
    BY <1>2
  <2>2. DOMAIN image = 0..Header + flushed - 1
    BY <1>1, <1>3 DEF Extent
  <2>3. Header + flushed - 1 = n - 1
    BY <1>2, <2>1
  <2>4. DOMAIN image = 0..n - 1
    BY <2>2, <2>3
  <2> QED
    BY <2>1, <2>4, PrefixOf
<1>4. ASSUME pc \in {"table", "header"} PROVE Prefix = 0
  <2>1. DOMAIN image = 0..0 - 1
    BY <1>1, <1>4 DEF Begins
  <2> QED
    BY <2>1, PrefixOf
<1> QED
  BY <1>2, <1>3, <1>4

LEMMA PrefixThen ==
  ASSUME NczInv', Looping', NEW f \in Nat, flushed' = f
  PROVE  Prefix' = Header + f
<1>1. PICK n \in Nat : n = Header + f
  BY SizesAssumption
<1>2. DOMAIN image' = 0..Header + flushed' - 1
  BY DEF NczInv, Extent
<1>3. Header + flushed' - 1 = n - 1
  BY <1>1, SizesAssumption
<1>4. DOMAIN image' = 0..n - 1
  BY <1>2, <1>3
<1> QED
  BY <1>1, <1>4, PrefixNext

(* Each step of the reconstruction appends to what is written, ends, or    *)
(* leaves the written part and the end alone.                              *)
LEMMA SinkStep == NczInv /\ NczInv' /\ [Next]_vars => [Sink!Next]_(Sink!vars)
<1> SUFFICES ASSUME NczInv, NczInv', [Next]_vars PROVE [Sink!Next]_(Sink!vars)
  OBVIOUS
<1>0. TypeOK /\ Within /\ Passed
  BY DEF NczInv, ProgressInv
<1>1. UNCHANGED image => Prefix' = Prefix
  BY DEF Prefix
<1>2. ASSUME UNCHANGED image, pc # "done", pc' # "done" PROVE [Sink!Next]_(Sink!vars)
  BY <1>1, <1>2 DEF Sink!vars
<1>3. ASSUME UNCHANGED image, pc # "done", pc' = "done" PROVE [Sink!Next]_(Sink!vars)
  BY <1>1, <1>3 DEF Sink!Next, Sink!End
<1>4. ASSUME pc # "done", pc' # "done", Prefix \in Nat, Prefix' \in Nat, Prefix' > Prefix
      PROVE  [Sink!Next]_(Sink!vars)
  BY <1>4 DEF Sink!Next, Sink!Append
<1>5. CASE CopyHeader
  <2>1. CASE pc' = "read"
    <3>1. Looping' /\ flushed' = flushed /\ pc = "header" /\ flushed = 0
      BY <1>5, <2>1 DEF CopyHeader, Looping, NczInv, ProgressInv, Begins
    <3>2. Prefix = 0 /\ Prefix' = Header + 0 /\ Header \in Nat \ {0}
      BY <3>1, PrefixNow, PrefixThen
    <3> QED
      BY <1>4, <2>1, <3>1, <3>2
  <2>2. CASE pc' # "read"
    BY <1>3, <1>5, <2>2 DEF CopyHeader, Return
  <2> QED
    BY <2>1, <2>2
<1>6. CASE FlushRun
  <2>1. CASE Failed
    BY <1>3, <2>1 DEF Failed
  <2>2. ASSUME NEW j, Turn(j), j = Min(Ahead), Ahead # {}
        PROVE  [Sink!Next]_(Sink!vars)
    <3>1. Chunk(j) \in Nat \ {0}
      BY <1>0, <2>2, RunShape DEF Turn, Within
    <3>2. Looping /\ Looping' /\ flushed' = flushed + Chunk(j)
      BY <2>2 DEF Turn, Looping
    <3>3. Prefix = Header + flushed /\ Header \in Nat /\ flushed \in Nat
      BY <3>2, PrefixNow
    <3>4. PICK f \in Nat : f = flushed + Chunk(j)
      BY <3>1, <3>3
    <3>5. Prefix' = Header + f
      BY <3>2, <3>4, PrefixThen
    <3> QED
      BY <1>4, <3>1, <3>2, <3>3, <3>4, <3>5 DEF Looping
  <2> QED
    BY <1>0, <1>6, <2>1, <2>2, TurnShape
<1>7. CASE ReadSections \/ ReadStream \/ Decompress \/ FlushEnds \/ Finish
  <2>1. UNCHANGED image /\ pc # "done"
    BY <1>7 DEF ReadSections, ReadStream, Decompress, FlushEnds, Finish, output
  <2> QED
    BY <1>2, <1>3, <2>1
<1>8. CASE UNCHANGED vars
  BY <1>1, <1>8 DEF vars, output, Sink!vars
<1> QED
  BY <1>5, <1>6, <1>7, <1>8 DEF Next

(* nczReconstruct is a prefix writer: it writes ascending from 0 and       *)
(* without gaps, and nothing after it returned, which is all that the      *)
(* installer's stream step takes from it (NcaWriteSink::write).            *)
THEOREM ImplementsSink == Spec => SinkSpec
<1>1. Init => Sink!Init
  <2> SUFFICES ASSUME Init PROVE Sink!Init
    OBVIOUS
  <2>1. Prefix = 0 /\ pc = "table"
    BY NczInit, PrefixNow DEF Init
  <2> QED
    BY <2>1 DEF Sink!Init
<1> QED
  BY <1>1, NczInit, NczNext, SinkStep, PTL DEF Spec, SinkSpec, Sink!Spec

=============================================================================
