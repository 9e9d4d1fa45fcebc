-------------------------------- MODULE Cnmt ---------------------------------
(***************************************************************************)
(* A PackagedContentMeta and its two readers: Cnmt::parse (fs/cnmt.h), by  *)
(* which the dry run reports, and buildNcmMeta (install/meta_builder.cpp), *)
(* from which the install sets the content meta in ncm.                    *)
(*                                                                         *)
(* Lengths are in units of 8 bytes.  len is the length of the file, ext,   *)
(* count and metas are fields of its header, and ids are the content ids   *)
(* that the whole records after the extended header spell, whatever count  *)
(* says.                                                                   *)
(***************************************************************************)
EXTENDS Integers, Sequences

CONSTANTS ContentIds,    \* ids a content file may be named after
          MetaKeys,      \* ncm content meta keys: id, version and type
          NoKey,         \* the key that is all zero
          CountValues    \* values of the 16-bit content_count

HeadLen == 4    \* 0x20
InfoLen == 7    \* 0x38: PackagedContentInfo
MetaLen == 2    \* 0x10: ContentMetaInfo

Cnmts ==
  {c \in [len : Nat, key : MetaKeys \cup {NoKey}, ext : Nat, count : 0..CountValues - 1,
          metas : Nat, ids : Seq(ContentIds)] :
     LET room == c.len - HeadLen - c.ext
     IN room >= 0 => InfoLen * Len(c.ids) <= room /\ room < InfoLen * (Len(c.ids) + 1)}

ASSUME NoKeyAssumption == NoKey \notin MetaKeys
ASSUME CountValuesAssumption == CountValues \in Nat \ {0}

(* Nothing but zeroes. *)
ZeroFilled(n) == [len |-> n, key |-> NoKey, ext |-> 0, count |-> 0, metas |-> 0, ids |-> <<>>]

(* Cnmt::parse takes the records up to the first one that is not whole. *)
Parses(c) == c.len >= HeadLen
RecordsBeforeEnd(c) == {k \in 1..c.count : HeadLen + c.ext + InfoLen * k < c.len}
WholeRecords(c) == {k \in 1..c.count : HeadLen + c.ext + InfoLen * k <= c.len}
ParsedContents(c) == [k \in WholeRecords(c) |-> c.ids[k]]

(* buildNcmMeta refuses a CNMT that does not hold all it announces. *)
HeaderOnlyChecked(c) == c.len >= HeadLen
Builds(c) ==
  /\ c.len >= HeadLen
  /\ HeadLen + c.ext + InfoLen * c.count + MetaLen * c.metas <= c.len

(* content_count: the contents and the Meta NCA, in 16 bits. *)
CountOfCnmt(c) == c.count
ContentCount(c) == (c.count + 1) % CountValues

(* The content infos of the blob: the Meta NCA's own, then the CNMT's. *)
ContentInfos(c, metaNca) ==
  <<metaNca>> \o [k \in 1..c.count |-> IF k \in DOMAIN c.ids THEN c.ids[k] ELSE metaNca]

BuildNcmMeta(c, metaNca) ==
  [key |-> c.key, count |-> ContentCount(c), contents |-> ContentInfos(c, metaNca)]

=============================================================================
