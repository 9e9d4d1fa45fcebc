------------------------------ MODULE Container ------------------------------
(***************************************************************************)
(* An NSP as open-dbi sees it once fs::Pfs0 has read its directory: a      *)
(* sequence of entries, classified by the ending of their names.           *)
(*                                                                         *)
(* An entry is a record: kind stands for the ending of the name, cid for   *)
(* the content id the name spells (BadName when it spells none), size is   *)
(* in transfer units, rights is the rights id an NCA needs or a ticket     *)
(* grants, and image is the NCA that the entry holds.                      *)
(***************************************************************************)
EXTENDS Nca, FiniteSets

CONSTANTS BadName,          \* "no content id": parseContentId failed
          RightsIds,        \* rights ids of titlekey content
          NoRights,         \* an NCA with standard crypto
          Containers        \* the NSPs the user may install

Kinds == {"nca", "cnmt.nca", "ncz", "tik", "cert", "cnmt", "other"}

Entries == [kind : Kinds, cid : ContentIds \cup {BadName}, size : Nat,
            rights : RightsIds \cup {NoRights}, image : Images]

ASSUME ContainersAssumption == Containers \subseteq Seq(Entries)
ASSUME BadNameAssumption == BadName \notin ContentIds

(* endsWith(name, ".nca") holds for the Meta NCA too. *)
IsNca(e) == e.kind \in {"nca", "cnmt.nca"}
IsNcz(e) == e.kind = "ncz"
IsContent(e) == IsNca(e) \/ IsNcz(e)
IsTicket(e) == e.kind = "tik"
IsMeta(e) == e.kind \in {"cnmt.nca", "cnmt"}

(* A Meta NCA from whose CNMT a content meta can be built, and the meta.   *)
HasMeta(e) == e.kind = "cnmt.nca" /\ HasCnmt(e.image) /\ Builds(Extracted(e.image))
NcmMeta(e) == BuildNcmMeta(Extracted(e.image), e.cid)

(* Everything a container b carries. *)
ContentIdsOf(b) == {b[j].cid : j \in {k \in DOMAIN b : IsContent(b[k])}}
TicketsOf(b) == {b[j].rights : j \in {k \in DOMAIN b : IsTicket(b[k])}}
MetasOf(b) == {NcmMeta(b[j]) : j \in {k \in DOMAIN b : HasMeta(b[k])}}
NeededRights(b) ==
  {b[j].rights : j \in {k \in DOMAIN b : IsContent(b[k])}} \ {NoRights}

=============================================================================
