---------------------------- MODULE FormatProofs -----------------------------
(***************************************************************************)
(* Theorems about the formats of Cnmt, Nca and Container, for every CNMT,  *)
(* NCA and container of their shapes and every width of content_count.     *)
(***************************************************************************)
EXTENDS Container, WellFoundedInduction, NaturalsInduction, SequenceTheorems, TLAPS

(* Containers are sequences of entries: what a turn of a loop looks at is  *)
(* an entry of the shape Container describes.                              *)
LEMMA ContainerShape ==
  ASSUME NEW b \in Containers
  PROVE  DOMAIN b = 1..Len(b) /\ Len(b) \in Nat
  BY ContainersAssumption

LEMMA EntryShape ==
  ASSUME NEW b \in Containers, NEW j \in 1..Len(b)
  PROVE  /\ b[j].kind \in Kinds /\ b[j].cid \in ContentIds \cup {BadName}
         /\ b[j].size \in Nat /\ b[j].rights \in RightsIds \cup {NoRights}
         /\ b[j].image \in Images
<1>1. b \in Seq(Entries)
  BY ContainersAssumption
<1>2. b[j] \in Entries
  BY <1>1
<1> QED
  BY <1>2 DEF Entries

(* A CNMT has fields of these types. *)
LEMMA CnmtShape ==
  ASSUME NEW c \in Cnmts
  PROVE  /\ c.len \in Nat /\ c.key \in MetaKeys \cup {NoKey} /\ c.ext \in Nat
         /\ c.count \in Nat /\ c.count < CountValues /\ c.metas \in Nat
         /\ c.ids \in Seq(ContentIds)
         /\ c.len - HeadLen - c.ext >= 0
              => c.len - HeadLen - c.ext < InfoLen * (Len(c.ids) + 1)
  BY CountValuesAssumption DEF Cnmts

-----------------------------------------------------------------------------
(* The file that ncaExtractCnmt takes is one of the section's.  *)
LEMMA CnmtFileShape ==
  ASSUME NEW img \in Images, HasCnmt(img)
  PROVE  CnmtFile(img) \in Files
<1> DEFINE named == {k \in DOMAIN img.files : img.files[k].isCnmt}
<1>1. img.files \in Seq(Files) /\ DOMAIN img.files \subseteq Nat
  BY DEF Images
<1>2. named \in SUBSET Nat /\ named # {}
  BY <1>1 DEF HasCnmt
<1> DEFINE less == {ss \in Nat \X Nat : ss[1] < ss[2]}
<1>3. PICK k \in named : \A j \in named : k <= j
  <2>1. IsWellFoundedOn(less, Nat)
    BY NatLessThanWellFounded DEF OpToRel
  <2>2. PICK k \in named : \A j \in named : ~(<<j, k>> \in less)
    <3> HIDE DEF named, less
    <3> QED
      BY <1>2, <2>1, WFMin
  <2>3. ASSUME NEW j \in named PROVE k <= j
    <3>1. j \in Nat /\ k \in Nat
      BY <1>2
    <3>2. ~(j < k)
      BY <2>2, <3>1
    <3> HIDE DEF named
    <3> QED
      BY <3>1, <3>2
  <2> QED
    BY <2>3
<1>4. \A j \in 1..k - 1 : ~img.files[j].isCnmt
  <2>1. DOMAIN img.files = 1..Len(img.files) /\ Len(img.files) \in Nat
    BY <1>1
  <2> SUFFICES ASSUME NEW j \in 1..k - 1, img.files[j].isCnmt PROVE FALSE
    OBVIOUS
  <2>2. k \in 1..Len(img.files)
    BY <1>3, <2>1
  <2>3. j \in named /\ j < k
    BY <2>1, <2>2
  <2> QED
    BY <1>3, <2>2, <2>3
<1>5. \E n \in DOMAIN img.files :
        img.files[n].isCnmt /\ \A j \in 1..n - 1 : ~img.files[j].isCnmt
  BY <1>3, <1>4
<1> HIDE DEF named
<1>6. PICK n \in DOMAIN img.files : CnmtFile(img) = img.files[n]
  BY <1>5 DEF CnmtFile
<1> QED
  BY <1>1, <1>6

(* buildNcmMeta takes a CNMT only when it holds every record it counts. *)
LEMMA BuildsWithinIds ==
  ASSUME NEW c \in Cnmts, Builds(c)
  PROVE  c.count <= Len(c.ids)
<1> DEFINE n == Len(c.ids)
<1>1. /\ c.len \in Nat /\ c.ext \in Nat /\ c.count \in Nat /\ c.metas \in Nat /\ n \in Nat
      /\ c.len - HeadLen - c.ext >= 0 => c.len - HeadLen - c.ext < InfoLen * (n + 1)
  BY CnmtShape
<1>2. HeadLen + c.ext + InfoLen * c.count + MetaLen * c.metas <= c.len
  BY DEF Builds
<1> HIDE DEF n
<1>3. c.count <= n
  BY <1>1, <1>2 DEF HeadLen, InfoLen, MetaLen
<1> QED
  BY <1>3 DEF n

(* What it then lists are the CNMT's records, in their order. *)
LEMMA InfosAreTheRecords ==
  ASSUME NEW c \in Cnmts, NEW id, Builds(c)
  PROVE  /\ ContentInfos(c, id) = <<id>> \o SubSeq(c.ids, 1, c.count)
         /\ ContentInfos(c, id) \in Seq(ContentIds \cup {id})
         /\ Len(ContentInfos(c, id)) = c.count + 1
<1> DEFINE infos == [k \in 1..c.count |-> IF k \in DOMAIN c.ids THEN c.ids[k] ELSE id]
<1>1. c.count \in Nat /\ c.count <= Len(c.ids) /\ c.ids \in Seq(ContentIds)
      /\ DOMAIN c.ids = 1..Len(c.ids) /\ Len(c.ids) \in Nat
  BY CnmtShape, BuildsWithinIds
<1>2. infos \in Seq(ContentIds) /\ Len(infos) = c.count
      /\ \A k \in 1..c.count : infos[k] = c.ids[k]
  <2>1. \A k \in 1..c.count : k \in DOMAIN c.ids /\ c.ids[k] \in ContentIds
    BY <1>1
  <2>2. infos \in [1..c.count -> ContentIds]
    BY <2>1
  <2> QED
    BY <1>1, <2>1, <2>2
<1>3. SubSeq(c.ids, 1, c.count) \in Seq(ContentIds) /\ Len(SubSeq(c.ids, 1, c.count)) = c.count
      /\ \A k \in 1..c.count : SubSeq(c.ids, 1, c.count)[k] = c.ids[k]
  <2>1. \A k \in 1..c.count : c.ids[k] \in ContentIds
    BY <1>1
  <2> QED
    BY <1>1, <2>1, SubSeqProperties
<1>4. infos = SubSeq(c.ids, 1, c.count)
  <2> HIDE DEF infos
  <2> QED
    BY <1>1, <1>2, <1>3, SeqEqual
<1>5. <<id>> \in Seq(ContentIds \cup {id}) /\ infos \in Seq(ContentIds \cup {id})
      /\ Len(<<id>>) = 1
  <2>1. Seq(ContentIds) \subseteq Seq(ContentIds \cup {id})
    OBVIOUS
  <2> HIDE DEF infos
  <2> QED
    BY <1>2, <2>1
<1>6. ContentInfos(c, id) = <<id>> \o infos
  BY DEF ContentInfos
<1> HIDE DEF infos
<1> QED
  BY <1>1, <1>2, <1>4, <1>5, <1>6, ConcatProperties

(* What the blob says of a Meta NCA: the records of its CNMT, or nothing   *)
(* when that CNMT was read as zeroes.                                      *)
LEMMA MetaOfCnmt ==
  ASSUME NEW e, e.image \in Images, HasMeta(e)
  PROVE  LET file == CnmtFile(e.image)
         IN /\ file.inside =>
                 /\ file.cnmt.count <= Len(file.cnmt.ids)
                 /\ NcmMeta(e) = [key |-> file.cnmt.key, count |-> ContentCount(file.cnmt),
                                  contents |-> <<e.cid>> \o SubSeq(file.cnmt.ids, 1, file.cnmt.count)]
            /\ ~file.inside =>
                 NcmMeta(e) = [key |-> NoKey, count |-> 1 % CountValues, contents |-> <<e.cid>>]
<1> DEFINE file == CnmtFile(e.image)
<1>1. file \in Files /\ file.cnmt \in Cnmts
  BY CnmtFileShape DEF HasMeta, Files
<1>2. Builds(Extracted(e.image))
        /\ Extracted(e.image) = IF file.inside THEN file.cnmt ELSE ZeroFilled(file.cnmt.len)
  BY DEF HasMeta, Extracted
<1>3. NcmMeta(e) = BuildNcmMeta(Extracted(e.image), e.cid)
  BY DEF NcmMeta
<1> HIDE DEF file
<1>4. CASE file.inside
  <2>1. NcmMeta(e) = BuildNcmMeta(file.cnmt, e.cid) /\ Builds(file.cnmt)
    BY <1>2, <1>3, <1>4
  <2>2. file.cnmt.count <= Len(file.cnmt.ids)
    BY <1>1, <2>1, BuildsWithinIds
  <2>3. ContentInfos(file.cnmt, e.cid) =
          <<e.cid>> \o SubSeq(file.cnmt.ids, 1, file.cnmt.count)
    BY <1>1, <2>1, InfosAreTheRecords
  <2> QED
    BY <1>4, <2>1, <2>2, <2>3 DEF BuildNcmMeta, file
<1>5. CASE ~file.inside
  <2> DEFINE z == ZeroFilled(file.cnmt.len)
  <2>1. NcmMeta(e) = BuildNcmMeta(z, e.cid)
    BY <1>2, <1>3, <1>5
  <2>2. z.key = NoKey /\ z.count = 0 /\ ContentCount(z) = 1 % CountValues
    BY DEF ZeroFilled, ContentCount
  <2> DEFINE infos == [k \in 1..0 |-> IF k \in DOMAIN z.ids THEN z.ids[k] ELSE e.cid]
  <2>3. ContentInfos(z, e.cid) = <<e.cid>> \o infos
    BY <2>2 DEF ContentInfos
  <2>4. infos = <<>>
    <3>1. 1..0 = {}
      OBVIOUS
    <3>2. infos \in [1..0 -> {e.cid}] /\ infos \in Seq({e.cid}) /\ Len(infos) = 0
      BY <3>1
    <3> HIDE DEF infos
    <3> QED
      BY <3>2, EmptySeq
  <2>5. <<e.cid>> \o <<>> = <<e.cid>>
    <3>1. <<e.cid>> \in Seq({e.cid})
      OBVIOUS
    <3> QED
      BY <3>1, ConcatEmptySeq
  <2> HIDE DEF z, infos
  <2> QED
    BY <1>5, <2>1, <2>2, <2>3, <2>4, <2>5 DEF BuildNcmMeta, file
<1> QED
  BY <1>4, <1>5 DEF file

(* The blob's shape, and its count: that of its content infos, in 16 bits. *)
LEMMA MetaShape ==
  ASSUME NEW e, e.image \in Images, HasMeta(e)
  PROVE  /\ NcmMeta(e) \in [key : MetaKeys \cup {NoKey}, count : 0..CountValues - 1,
                            contents : Seq(ContentIds \cup {e.cid})]
         /\ \/ NcmMeta(e).count = Len(NcmMeta(e).contents)
            \/ Len(NcmMeta(e).contents) = CountValues /\ NcmMeta(e).count = 0
<1> DEFINE file == CnmtFile(e.image)
           cnt == file.cnmt.count
           m == NcmMeta(e)
<1>1. file.cnmt \in Cnmts
  BY CnmtFileShape DEF HasMeta, Files
<1>2. /\ CountValues \in Nat /\ CountValues > 0 /\ cnt \in Nat /\ cnt < CountValues
      /\ file.cnmt.key \in MetaKeys \cup {NoKey} /\ file.cnmt.ids \in Seq(ContentIds)
  BY <1>1, CnmtShape, CountValuesAssumption
<1>3. ASSUME NEW n \in Nat, n <= CountValues
      PROVE  n % CountValues \in 0..CountValues - 1
             /\ (n % CountValues = n \/ (n = CountValues /\ n % CountValues = 0))
  <2> HIDE DEF cnt, m, file
  <2>1. CASE n < CountValues
    BY <1>2, <1>3, <2>1
  <2>2. CASE n = CountValues
    BY <1>2, <2>2
  <2> QED
    BY <1>2, <1>3, <2>1, <2>2
<1>4. CASE file.inside
  <2>1. cnt <= Len(file.cnmt.ids) /\ Len(file.cnmt.ids) \in Nat
        /\ m = [key |-> file.cnmt.key, count |-> (cnt + 1) % CountValues,
                contents |-> <<e.cid>> \o SubSeq(file.cnmt.ids, 1, cnt)]
    BY <1>2, <1>4, MetaOfCnmt DEF ContentCount
  <2>2. SubSeq(file.cnmt.ids, 1, cnt) \in Seq(ContentIds)
        /\ Len(SubSeq(file.cnmt.ids, 1, cnt)) = cnt
    <3> DEFINE ids == file.cnmt.ids
    <3>1. ids \in Seq(ContentIds) /\ cnt \in Nat /\ cnt <= Len(ids)
      BY <1>2, <2>1
    <3> HIDE DEF ids, cnt
    <3>2. \A k \in 1..cnt : ids[k] \in ContentIds
      BY <3>1
    <3>3. SubSeq(ids, 1, cnt) \in Seq(ContentIds) /\ Len(SubSeq(ids, 1, cnt)) = cnt
      BY <3>1, <3>2, SubSeqProperties
    <3> QED
      BY <3>3 DEF ids
  <2> DEFINE infos == SubSeq(file.cnmt.ids, 1, cnt)
  <2>3. <<e.cid>> \o infos \in Seq(ContentIds \cup {e.cid})
        /\ Len(<<e.cid>> \o infos) = cnt + 1
    <3> HIDE DEF infos, cnt
    <3>1. <<e.cid>> \in Seq(ContentIds \cup {e.cid}) /\ Len(<<e.cid>>) = 1
      OBVIOUS
    <3>2. infos \in Seq(ContentIds \cup {e.cid}) /\ Len(infos) = cnt
      BY <2>2 DEF infos
    <3> QED
      BY <1>2, <3>1, <3>2, ConcatProperties
  <2>4. (cnt + 1) % CountValues \in 0..CountValues - 1
        /\ ((cnt + 1) % CountValues = cnt + 1
             \/ (cnt + 1 = CountValues /\ (cnt + 1) % CountValues = 0))
    <3>1. cnt + 1 \in Nat /\ cnt + 1 <= CountValues
      BY <1>2
    <3> HIDE DEF cnt
    <3> QED
      BY <1>3, <3>1
  <2> HIDE DEF m, cnt, file
  <2> QED
    BY <1>2, <2>1, <2>3, <2>4 DEF m, infos
<1>5. CASE ~file.inside
  <2>1. m = [key |-> NoKey, count |-> 1 % CountValues, contents |-> <<e.cid>>]
    BY <1>5, MetaOfCnmt
  <2>2. <<e.cid>> \in Seq(ContentIds \cup {e.cid}) /\ Len(<<e.cid>>) = 1
    OBVIOUS
  <2>3. 1 \in Nat /\ 1 <= CountValues
    BY <1>2
  <2> HIDE DEF m
  <2> QED
    BY <1>3, <2>1, <2>2, <2>3 DEF m
<1> QED
  BY <1>4, <1>5

=============================================================================
