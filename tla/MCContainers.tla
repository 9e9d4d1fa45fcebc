---------------------------- MODULE MCContainers -----------------------------
(* Small containers and key files for TLC: every kind of entry, in the      *)
(* orders that matter, with contents shared between two titles, and Meta    *)
(* NCAs of every layout that the two CNMT readers may meet.                 *)
EXTENDS Container

CONSTANTS c1, c2, m1, m2, r1, k1, k2, p1, p2, p3

MCContentIds == {c1, c2, m1, m2}
MCRightsIds == {r1}
MCMetaKeys == {k1, k2}
MCPlaceHolderIds == {p1, p2, p3}

(* A whole CNMT, one of count records cut off behind ids, and their NCAs. *)
WholeCnmt(k, ids) == [len |-> HeadLen + 2 + InfoLen * Len(ids), key |-> k, ext |-> 2,
                      count |-> Len(ids), metas |-> 0, ids |-> ids]
CutCnmt(k, count, ids) == [WholeCnmt(k, ids) EXCEPT !.count = count]
Plain == [nca3 |-> TRUE, meta |-> FALSE, kaek |-> 0, old |-> 0, new |-> 0,
          section |-> TRUE, enc |-> "ctr", files |-> <<>>]
MetaImage(cnmt) == [Plain EXCEPT !.meta = TRUE,
                      !.files = <<[isCnmt |-> TRUE, inside |-> TRUE, cnmt |-> cnmt]>>]

Nca(id, n) == [kind |-> "nca", cid |-> id, size |-> n, rights |-> NoRights, image |-> Plain]
RightsNca(id, n) == [Nca(id, n) EXCEPT !.rights = r1]
Ncz(id, n) == [Nca(id, n) EXCEPT !.kind = "ncz"]
Meta(id, image) == [Nca(id, 1) EXCEPT !.kind = "cnmt.nca", !.image = image]
MetaNca(id, k, ids) == Meta(id, MetaImage(WholeCnmt(k, ids)))
Tik == [Nca(BadName, 1) EXCEPT !.kind = "tik", !.rights = r1]
Bare == [Nca(BadName, 1) EXCEPT !.kind = "cnmt"]
Cert == [Nca(BadName, 1) EXCEPT !.kind = "cert"]

(* A titlekey base game, and an update that shares one of its contents. *)
Base == <<RightsNca(c1, 3), MetaNca(m1, k1, <<c1>>), Tik, Cert>>
Update == <<Tik, MetaNca(m2, k2, <<c1, c2>>), Nca(c1, 3)>>
(* A compressed title, a bare .cnmt before the Meta NCA, a bad name. *)
Compressed == <<Ncz(c2, 3), MetaNca(m2, k2, <<c2>>)>>
BareCnmt == <<Bare, Nca(c1, 1), MetaNca(m1, k1, <<c1>>)>>
Broken == <<Nca(c1, 2), Nca(BadName, 1), Tik>>
(* Two titles in one container, of which one meta is set. *)
Pair == <<Nca(c1, 1), MetaNca(m1, k1, <<c1>>), MetaNca(m2, k2, <<>>)>>
(* Rights-id content without its ticket. *)
Ticketless == <<RightsNca(c1, 1), MetaNca(m1, k1, <<c1>>)>>
(* As many contents as can be counted, fewer than counted, meta infos that *)
(* are not there, and a CNMT that lies outside of its section.             *)
Full == <<MetaNca(m1, k1, <<c1, c2, c1>>)>>
CutShort == <<Meta(m1, MetaImage(CutCnmt(k1, 2, <<c1>>)))>>
NoMetaInfos == <<Meta(m1, MetaImage([WholeCnmt(k1, <<c1>>) EXCEPT !.metas = 1]))>>
Outside ==
  <<Meta(m2, [MetaImage(WholeCnmt(k2, <<c1>>)) EXCEPT !.files[1].inside = FALSE])>>
(* A Meta NCA of a newer generation, with another file before its CNMT,   *)
(* one of another key table, one in the clear, and one that is no NCA3.   *)
Newer ==
  <<Meta(m1, [MetaImage(WholeCnmt(k1, <<c1>>)) EXCEPT !.new = 2,
       !.files = <<[isCnmt |-> FALSE, inside |-> TRUE, cnmt |-> WholeCnmt(k2, <<>>)]>> \o @])>>
Ocean == <<Meta(m1, [MetaImage(WholeCnmt(k1, <<c2>>)) EXCEPT !.kaek = 1])>>
Clear == <<Meta(m1, [MetaImage(WholeCnmt(k1, <<c1>>)) EXCEPT !.enc = "none", !.old = 2])>>
NotNca3 == <<RightsNca(c1, 1), Meta(m1, [Plain EXCEPT !.nca3 = FALSE])>>

AllContainers ==
  {Base, Update, Compressed, BareCnmt, Broken, Ticketless, Full, CutShort, Outside}
RehearsedContainers ==
  AllContainers \cup {Pair, NoMetaInfos, Newer, Ocean, Clear, NotNca3}
CnmtContainers == {BareCnmt}
TicketlessContainers == {Ticketless}

(* All the keys; those of an older console; a second header_key that is   *)
(* cut; a header_key that is cut and no other; other keys altogether.     *)
Line(n, g, v) == [name |-> n, gen |-> g, value |-> v, cut |-> FALSE]
AllKeys == <<Line("header_key", 0, "right"), Line("application", 0, "right"),
             Line("ocean", 0, "right"), Line("application", 1, "right"), Line("other", 9, "right")>>
OldKeys == SubSeq(AllKeys, 1, 2)
TornKeys == AllKeys \o <<[Line("header_key", 0, "wrong") EXCEPT !.cut = TRUE]>>
NoHeaderKey == <<[Line("header_key", 0, "right") EXCEPT !.cut = TRUE]>> \o Tail(AllKeys)
OtherKeys == <<Line("header_key", 0, "right"), Line("application", 0, "wrong")>>

TwoKeyFiles == {AllKeys, TornKeys}
MCKeyFiles == {AllKeys, OldKeys, TornKeys, NoHeaderKey, OtherKeys}
=============================================================================
