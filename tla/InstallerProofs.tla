--------------------------- MODULE InstallerProofs ---------------------------
(***************************************************************************)
(* Theorems about Installer, for every set of containers, every chunk size *)
(* and any number of attempts.                                             *)
(***************************************************************************)
EXTENDS Installer, FormatProofs

-----------------------------------------------------------------------------
(* Types.  vars only ever hold values of the shapes TypeOK states: ncm     *)
(* references are given back only when one was taken (CloseHandles), which *)
(* needs that an open backend holds one.                                   *)
OpenHoldsRef == handles = "open" => ncmRefs >= 1

TypeInv == TypeOK /\ OpenHoldsRef

LEMMA TypeInit == Init => TypeInv
<1> SUFFICES ASSUME Init PROVE TypeInv
  OBVIOUS
<1>1. FrameOK
  BY DEF Init, FrameOK, PCs, Phases
<1>2. BackendOK /\ OpenHoldsRef
  BY DEF Init, BackendOK, OpenHoldsRef
<1>3. ServicesOK
  BY DEF Init, ServicesOK, StorageOK, MetasOK
<1>4. HistoryOK
  BY MaxAttemptsAssumption DEF Init, HistoryOK
<1> QED
  BY <1>1, <1>2, <1>3, <1>4 DEF TypeInv, TypeOK

(* A turn of a streaming loop goes on, ends it or gives up; a placeholder  *)
(* that was written to is still the same placeholder.                      *)
LEMMA StreamStep ==
  ASSUME StreamChunk \/ ReconstructNcz
  PROVE  /\ pc = "stream" /\ pc' \in {"stream", "register", "fail"}
         /\ written' = written \/ \E n \in Nat : written' = written + n
         /\ \A p \in placeholders' : \E q \in placeholders :
              p.cid = q.cid /\ p.form = q.form /\ p.id = q.id
<1>1. ASSUME NEW n \in Nat, WriteOn(SourceUnits(written, n))
      PROVE  /\ pc' = pc /\ written' = written + n
             /\ \A p \in placeholders' : \E q \in placeholders :
                  p.cid = q.cid /\ p.form = q.form /\ p.id = q.id
  <2>1. Len(SourceUnits(written, n)) = n
    BY DEF SourceUnits
  <2> DEFINE units == SourceUnits(written, n)
  <2>2. pc' = pc /\ written' = written + Len(units) /\ WritePlaceHolder(written, units)
    BY <1>1 DEF WriteOn
  <2> HIDE DEF units
  <2>3. \A p \in placeholders' : \E q \in placeholders :
          p.cid = q.cid /\ p.form = q.form /\ p.id = q.id
    BY <2>2 DEF WritePlaceHolder
  <2> QED
    BY <2>1, <2>2, <2>3 DEF units
<1>2. ASSUME NEW n \in Reads(Entry.size - written)
      PROVE  n \in Nat
  BY <1>2, ChunkAssumption DEF Reads
<1>3. pc = "stream"
  BY DEF StreamChunk, ReconstructNcz
<1>4. \/ \E n \in Reads(Entry.size - written) : WriteOn(SourceUnits(written, n))
      \/ GiveUp
      \/ pc' = "register" /\ UNCHANGED <<written, placeholders>>
  BY DEF StreamChunk, ReconstructNcz
<1>5. CASE \E n \in Reads(Entry.size - written) : WriteOn(SourceUnits(written, n))
  BY <1>1, <1>2, <1>3, <1>5
<1>6. CASE GiveUp
  BY <1>3, <1>6 DEF GiveUp
<1>7. CASE pc' = "register" /\ UNCHANGED <<written, placeholders>>
  BY <1>3, <1>7
<1> QED
  BY <1>4, <1>5, <1>6, <1>7

LEMMA FrameNext == TypeInv /\ [Next]_vars => FrameOK'
<1> SUFFICES ASSUME TypeInv, [Next]_vars PROVE FrameOK'
  OBVIOUS
<1> USE DEF FrameOK, PCs, Phases
<1>0. FrameOK
  BY DEF TypeInv, TypeOK
<1>1. CASE Start
  BY <1>0, <1>1 DEF Start
<1>2. CASE ParseContainer
  BY <1>0, <1>2 DEF ParseContainer
<1>3. CASE OpenStorage
  BY <1>0, <1>3 DEF OpenStorage
<1>4. CASE NextNca
  BY <1>0, <1>4 DEF NextNca, Note
<1>5. CASE GeneratePlaceHolderId
  BY <1>0, <1>5 DEF GeneratePlaceHolderId
<1>6. CASE CreatePlaceHolder
  BY <1>0, <1>6 DEF CreatePlaceHolder
<1>7. CASE StreamChunk
  BY <1>0, <1>7, StreamStep DEF StreamChunk
<1>8. CASE ReconstructNcz
  BY <1>0, <1>8, StreamStep DEF ReconstructNcz
<1>9. CASE RegisterContent
  BY <1>0, <1>9 DEF RegisterContent
<1>10. CASE ImportTicket
  BY <1>0, <1>10 DEF ImportTicket, TicketRefused, Note
<1>11. CASE SetContentMeta
  BY <1>0, <1>11 DEF SetContentMeta, Note
<1>12. CASE Commit
  BY <1>0, <1>12 DEF Commit, CommitRefused
<1>13. CASE PushApplicationRecord
  BY <1>0, <1>13 DEF PushApplicationRecord
<1>14. CASE Finish
  BY <1>0, <1>14 DEF Finish
<1>15. CASE Fail
  BY <1>0, <1>15 DEF Fail
<1>16. CASE Crash
  BY <1>0, <1>16 DEF Crash
<1>17. CASE UNCHANGED vars
  BY <1>0, <1>17 DEF vars, frame
<1> QED
  BY <1>1, <1>2, <1>3, <1>4, <1>5, <1>6, <1>7, <1>8, <1>9, <1>10, <1>11, <1>12,
     <1>13, <1>14, <1>15, <1>16, <1>17 DEF Next, Step

LEMMA BackendNext == TypeInv /\ [Next]_vars => BackendOK' /\ OpenHoldsRef'
<1> SUFFICES ASSUME TypeInv, [Next]_vars PROVE BackendOK' /\ OpenHoldsRef'
  OBVIOUS
<1> USE DEF BackendOK, OpenHoldsRef
<1>0. BackendOK /\ OpenHoldsRef /\ FrameOK
  BY DEF TypeInv, TypeOK
<1>1. CASE Start
  BY <1>0, <1>1 DEF Start
<1>2. CASE OpenStorage
  BY <1>0, <1>2 DEF OpenStorage, backend
<1>3. CASE SetContentMeta
  <2>1. CASE metaKey' = metaKey
    BY <1>0, <2>1, <1>3 DEF SetContentMeta
  <2>2. CASE metaKey' # metaKey
    <3>1. i <= Len(nsp) /\ HasMeta(Entry) /\ metaKey' = NcmMeta(Entry).key
      BY <2>2, <1>3 DEF SetContentMeta, ReadsMeta
    <3>2. Entry.image \in Images
      BY <1>0, <3>1, ContainerShape, EntryShape DEF FrameOK, Entry
    <3>3. NcmMeta(Entry).key \in MetaKeys \cup {NoKey}
      BY <3>1, <3>2, MetaShape
    <3> QED
      BY <1>0, <3>1, <3>3, <1>3 DEF SetContentMeta
  <2> QED
    BY <2>1, <2>2
<1>4. CASE Finish
  BY <1>0, <1>4 DEF Finish, CloseHandles
<1>5. CASE Fail
  BY <1>0, <1>5 DEF Fail, CloseHandles
<1>6. CASE Crash
  BY <1>0, <1>6 DEF Crash
<1>7. CASE UNCHANGED backend
  BY <1>0, <1>7 DEF backend
<1> QED
  BY <1>1, <1>2, <1>3, <1>4, <1>5, <1>6, <1>7 DEF Next, Step, vars,
     backend, ParseContainer, NextNca, GeneratePlaceHolderId,
     CreatePlaceHolder, StreamChunk, ReconstructNcz, RegisterContent,
     ImportTicket, Commit, PushApplicationRecord

LEMMA HistoryNext == TypeInv /\ [Next]_vars => HistoryOK'
<1> SUFFICES ASSUME TypeInv, [Next]_vars PROVE HistoryOK'
  OBVIOUS
<1> USE DEF HistoryOK
<1>0. HistoryOK
  BY DEF TypeInv, TypeOK
<1>1. CASE Start
  BY <1>0, MaxAttemptsAssumption, <1>1 DEF Start
<1>2. CASE Fail
  BY <1>0, <1>2 DEF Fail
<1>3. CASE Crash
  BY <1>0, <1>3 DEF Crash
<1>4. CASE UNCHANGED history
  BY <1>0, <1>4 DEF history
<1>5. CASE \E p \in Phases : Begin(p)
  BY <1>0, <1>5 DEF Begin
<1>6. NextNca \/ ImportTicket \/ SetContentMeta \/ ParseContainer \/ Commit
      => UNCHANGED history \/ \E p \in Phases : Begin(p)
  BY DEF NextNca, ImportTicket, SetContentMeta, ParseContainer, Commit, Phases
<1> QED
  BY <1>1, <1>2, <1>3, <1>4, <1>5, <1>6 DEF Next, Step, vars, history,
     OpenStorage, GeneratePlaceHolderId, CreatePlaceHolder, StreamChunk,
     ReconstructNcz, RegisterContent, PushApplicationRecord, Finish

(* While an NCA is being written, the loop is at a content entry whose     *)
(* name spells a content id: NextNca lets nothing else through.            *)
AtContent ==
  pc \in {"gen", "create", "stream", "register"} =>
    i \in 1..Len(nsp) /\ IsContent(Entry) /\ Entry.cid \in ContentIds

LEMMA AtContentNext == TypeInv /\ AtContent /\ [Next]_vars => AtContent'
<1> SUFFICES ASSUME TypeInv /\ AtContent, [Next]_vars PROVE AtContent'
  OBVIOUS
<1> USE DEF AtContent, FrameOK, Entry
<1>0. FrameOK /\ AtContent
  BY DEF TypeInv, TypeOK
<1>1. CASE NextNca
  <2> SUFFICES ASSUME pc' = "gen"
               PROVE  i' \in 1..Len(nsp') /\ IsContent(nsp'[i'])
                      /\ nsp'[i'].cid \in ContentIds
    BY <1>1 DEF NextNca
  <2>1. i <= Len(nsp) /\ IsContent(nsp[i]) /\ nsp[i].cid # BadName
        /\ i' = i /\ nsp' = nsp
    BY <1>1 DEF NextNca
  <2>2. i \in 1..Len(nsp)
    BY <1>0, <2>1, ContainerShape
  <2>3. nsp[i].cid \in ContentIds
    BY <1>0, <2>1, <2>2, EntryShape
  <2> QED
    BY <2>1, <2>2, <2>3
<1>2. CASE GeneratePlaceHolderId
  BY <1>0, <1>2 DEF GeneratePlaceHolderId
<1>3. CASE CreatePlaceHolder
  BY <1>0, <1>3 DEF CreatePlaceHolder
<1>4. CASE StreamChunk
  BY <1>0, <1>4 DEF StreamChunk
<1>5. CASE ReconstructNcz
  BY <1>0, <1>5 DEF ReconstructNcz
<1>6. CASE RegisterContent
  BY <1>0, <1>6 DEF RegisterContent
<1>7. CASE UNCHANGED frame
  BY <1>0, <1>7 DEF frame
<1> QED
  BY <1>1, <1>2, <1>3, <1>4, <1>5, <1>6, <1>7 DEF Next, Step, vars,
     frame, Start, ParseContainer, OpenStorage, ImportTicket,
     SetContentMeta, Commit, PushApplicationRecord, Finish, Fail, Crash, TicketRefused,
     CommitRefused

LEMMA StorageNext == TypeInv /\ AtContent /\ [Next]_vars => StorageOK'
<1> SUFFICES ASSUME TypeInv /\ AtContent, [Next]_vars PROVE StorageOK'
  OBVIOUS
<1> USE DEF StorageOK
<1>0. FrameOK /\ StorageOK /\ AtContent
  BY DEF TypeInv, TypeOK, ServicesOK
<1>1. CASE CreatePlaceHolder
  BY <1>0, <1>1 DEF CreatePlaceHolder, AtContent, IsContent, IsNca,
     IsNcz, FrameOK
<1>2. CASE StreamChunk
  BY <1>0, <1>2, StreamStep DEF StreamChunk
<1>3. CASE ReconstructNcz
  BY <1>0, <1>3, StreamStep DEF ReconstructNcz
<1>4. CASE RegisterContent
  BY <1>0, <1>4 DEF RegisterContent, storage, AtContent
<1>5. CASE UNCHANGED storage
  BY <1>0, <1>5 DEF storage
<1> QED
  BY <1>1, <1>2, <1>3, <1>4, <1>5 DEF Next, Step, vars, storage, Start,
     ParseContainer, OpenStorage, NextNca, GeneratePlaceHolderId,
     ImportTicket, SetContentMeta, Commit, PushApplicationRecord, Finish,
     Fail, Crash

LEMMA MetasNext == TypeInv /\ [Next]_vars => MetasOK'
<1> SUFFICES ASSUME TypeInv, [Next]_vars PROVE MetasOK'
  OBVIOUS
<1> USE DEF MetasOK
<1>0. FrameOK /\ BackendOK /\ MetasOK
  BY DEF TypeInv, TypeOK, ServicesOK
<1>1. CASE SetContentMeta
  <2>1. CASE staged' = staged
    BY <1>0, <2>1, <1>1 DEF SetContentMeta
  <2>2. CASE staged' # staged
    <3>1. /\ i <= Len(nsp) /\ HasMeta(Entry)
          /\ staged' \subseteq staged \cup {NcmMeta(Entry)}
      BY <2>2, <1>1 DEF SetContentMeta, ReadsMeta
    <3>2. Entry.image \in Images /\ Entry.cid \in ContentIds \cup {BadName}
      BY <1>0, <3>1, ContainerShape, EntryShape DEF FrameOK, Entry
    <3>3. NcmMeta(Entry) \in
            [key : MetaKeys \cup {NoKey}, count : 0..CountValues - 1,
             contents : Seq(ContentIds \cup {BadName})]
      <4>1. NcmMeta(Entry) \in
              [key : MetaKeys \cup {NoKey}, count : 0..CountValues - 1,
               contents : Seq(ContentIds \cup {Entry.cid})]
        BY <3>1, <3>2, MetaShape
      <4>2. Seq(ContentIds \cup {Entry.cid}) \subseteq Seq(ContentIds \cup {BadName})
        BY <3>2
      <4> QED
        BY <4>1, <4>2
    <3> QED
      BY <1>0, <3>1, <3>3, <1>1 DEF SetContentMeta
  <2> QED
    BY <2>1, <2>2
<1>2. CASE Commit
  BY <1>0, <1>2 DEF Commit, CommitRefused
<1>3. CASE PushApplicationRecord
  BY <1>0, <1>3 DEF PushApplicationRecord, BackendOK
<1>4. CASE Finish
  BY <1>0, <1>4 DEF Finish, CloseHandles
<1>5. CASE Fail
  BY <1>0, <1>5 DEF Fail, CloseHandles
<1>6. CASE Crash
  BY <1>0, <1>6 DEF Crash
<1>7. CASE UNCHANGED metas
  BY <1>0, <1>7 DEF metas
<1> QED
  BY <1>1, <1>2, <1>3, <1>4, <1>5, <1>6, <1>7 DEF Next, Step, vars,
     metas, Start, ParseContainer, OpenStorage, NextNca,
     GeneratePlaceHolderId, CreatePlaceHolder, StreamChunk, ReconstructNcz,
     RegisterContent, ImportTicket

LEMMA TicketsNext == TypeInv /\ [Next]_vars => (tickets \subseteq RightsIds \cup {NoRights})'
<1> SUFFICES ASSUME TypeInv, [Next]_vars PROVE (tickets \subseteq RightsIds \cup {NoRights})'
  OBVIOUS
<1>0. FrameOK /\ tickets \subseteq RightsIds \cup {NoRights}
  BY DEF TypeInv, TypeOK, ServicesOK
<1>1. CASE ImportTicket
  <2>1. CASE tickets' = tickets
    BY <1>0, <2>1
  <2>2. CASE tickets' # tickets
    <3>1. i <= Len(nsp) /\ tickets' = tickets \cup {nsp[i].rights}
      BY <2>2, <1>1 DEF ImportTicket, TicketRefused, Entry
    <3>2. i \in 1..Len(nsp)
      BY <1>0, <3>1, ContainerShape DEF FrameOK
    <3>3. nsp[i].rights \in RightsIds \cup {NoRights}
      BY <1>0, <3>2, EntryShape DEF FrameOK
    <3> QED
      BY <1>0, <3>1, <3>3
  <2> QED
    BY <2>1, <2>2
<1>2. CASE UNCHANGED tickets
  BY <1>0, <1>2
<1> QED
  BY <1>1, <1>2 DEF Next, Step, vars, Start, ParseContainer, OpenStorage,
     NextNca, GeneratePlaceHolderId, CreatePlaceHolder, StreamChunk,
     ReconstructNcz, RegisterContent, SetContentMeta, Commit,
     PushApplicationRecord, Finish, Fail, Crash

(* Type correctness of the installer, for every choice of the constants.   *)
THEOREM TypeCorrect == Spec => []TypeOK
<1>1. Init => TypeInv /\ AtContent
  BY TypeInit DEF Init, AtContent
<1>2. TypeInv /\ AtContent /\ [Next]_vars => (TypeInv /\ AtContent)'
  BY FrameNext, BackendNext, HistoryNext, AtContentNext, StorageNext, MetasNext,
     TicketsNext DEF TypeInv, TypeOK, ServicesOK
<1>3. TypeInv => TypeOK
  BY DEF TypeInv
<1> QED
  BY <1>1, <1>2, <1>3, PTL DEF Spec

-----------------------------------------------------------------------------
(* Order.  The three loops run one after the other, and each leaves what   *)
(* it is for behind it: the strengthening that makes MetaBacked inductive. *)
Registered(id) == \E c \in content : c.cid = id

ContentsSoFar ==
  pc \in {"nca", "gen", "create", "stream", "register"} =>
    \A j \in 1..Len(nsp) : j < i /\ IsContent(nsp[j]) => Registered(nsp[j].cid)
ContentsAll == pc \in {"tik", "meta", "commit", "push", "close"} => ContentsLaid(nsp)
AtStart == pc \in {"parse", "open"} => i = 1
TicketsSoFar ==
  pc = "tik" =>
    \A j \in 1..Len(nsp) : j < i /\ IsTicket(nsp[j]) => nsp[j].rights \in tickets
TicketsAll == pc \in {"meta", "commit", "push", "close"} => TicketsLaid(nsp)

OrderInv == /\ TypeInv /\ AtContent /\ AtStart
            /\ ContentsSoFar /\ ContentsAll /\ TicketsSoFar /\ TicketsAll
            /\ MetaBacked

(* A container is laid exactly when each of its content entries is.        *)
LEMMA LaidByEntry ==
  ASSUME NEW b \in Containers
  PROVE  /\ ContentsLaid(b) <=>
              \A j \in 1..Len(b) : IsContent(b[j]) => Registered(b[j].cid)
         /\ TicketsLaid(b) <=>
              \A j \in 1..Len(b) : IsTicket(b[j]) => b[j].rights \in tickets
  BY ContainerShape
     DEF ContentsLaid, TicketsLaid, ContentIdsOf, TicketsOf, Registered

(* Nothing is ever unregistered, and no ticket is taken back.              *)
LEMMA NothingTakenBack ==
  ASSUME [Next]_vars
  PROVE  /\ \A id : Registered(id) => Registered(id)'
         /\ tickets \subseteq tickets'
<1>1. CASE RegisterContent
  <2>1. CASE content' = content
    BY <1>1, <2>1 DEF RegisterContent, Registered
  <2>2. CASE content' # content
    <3>1. PICK p \in placeholders :
            content' = {c \in content : c.cid # Entry.cid} \cup
                         {[cid |-> Entry.cid, form |-> p.form, data |-> p.data]}
      BY <1>1, <2>2 DEF RegisterContent, storage
    <3>2. ASSUME NEW id, Registered(id) PROVE Registered(id)'
      <4>1. CASE id = Entry.cid
        <5> DEFINE new == [cid |-> Entry.cid, form |-> p.form, data |-> p.data]
        <5>1. new \in content' /\ new.cid = id
          BY <3>1, <4>1
        <5> HIDE DEF new
        <5> QED
          BY <5>1 DEF Registered
      <4>2. CASE id # Entry.cid
        <5>1. PICK c \in content : c.cid = id
          BY <3>2 DEF Registered
        <5>2. c \in content'
          BY <3>1, <4>2, <5>1
        <5> QED
          BY <5>1, <5>2 DEF Registered
      <4> QED
        BY <4>1, <4>2
    <3> QED
      BY <1>1, <3>2 DEF RegisterContent
  <2> QED
    BY <2>1, <2>2
<1>2. CASE ImportTicket
  BY <1>2 DEF ImportTicket, TicketRefused, storage, Registered
<1>3. CASE content' = content /\ tickets' = tickets
  BY <1>3 DEF Registered
<1> QED
  BY <1>1, <1>2, <1>3
     DEF Next, Step, vars, storage, Start, ParseContainer, OpenStorage, NextNca,
         GeneratePlaceHolderId, CreatePlaceHolder, StreamChunk, ReconstructNcz,
         SetContentMeta, Commit, PushApplicationRecord, Finish, Fail, Crash

LEMMA LaidStaysLaid ==
  ASSUME NEW b \in Containers, [Next]_vars
  PROVE  /\ ContentsLaid(b) => ContentsLaid(b)'
         /\ TicketsLaid(b) => TicketsLaid(b)'
  BY NothingTakenBack DEF ContentsLaid, TicketsLaid, Registered

LEMMA AtStartNext == OrderInv /\ [Next]_vars => AtStart'
<1> SUFFICES ASSUME OrderInv, [Next]_vars PROVE AtStart'
  OBVIOUS
<1> USE DEF AtStart
<1>0. AtStart
  BY DEF OrderInv
<1>1. CASE Start
  BY <1>0, <1>1 DEF Start
<1>2. CASE ParseContainer
  BY <1>0, <1>2 DEF ParseContainer
<1>3. CASE OpenStorage
  BY <1>0, <1>3 DEF OpenStorage
<1>4. CASE UNCHANGED frame
  BY <1>0, <1>4 DEF frame
<1> QED
  BY <1>1, <1>2, <1>3, <1>4, StreamStep DEF Next, Step, vars, frame, NextNca,
     GeneratePlaceHolderId, CreatePlaceHolder, RegisterContent, ImportTicket, SetContentMeta, Commit,
     PushApplicationRecord, Finish, Fail, Crash, TicketRefused,
     CommitRefused

LEMMA ContentsNext == OrderInv /\ [Next]_vars => ContentsSoFar' /\ ContentsAll'
<1> SUFFICES ASSUME OrderInv, [Next]_vars PROVE ContentsSoFar' /\ ContentsAll'
  OBVIOUS
<1>0. FrameOK /\ AtContent /\ AtStart /\ ContentsSoFar /\ ContentsAll
  BY DEF OrderInv, TypeInv, TypeOK
<1>1. CASE OpenStorage
  BY <1>0, <1>1 DEF OpenStorage, AtStart, FrameOK, ContentsSoFar,
     ContentsAll
<1>2. CASE NextNca
  <2>1. content' = content /\ nsp' = nsp
    BY <1>2 DEF NextNca, storage
  <2>2. ContentsSoFar'
    BY <1>0, <1>2, <2>1 DEF NextNca, ContentsSoFar, Registered, FrameOK, Entry
  <2>3. ASSUME pc' = "tik" PROVE ContentsLaid(nsp)
    BY <1>0, <2>3, <1>2, LaidByEntry, ContainerShape
       DEF NextNca, ContentsSoFar, FrameOK
  <2>4. ContentsAll'
    BY <2>1, <2>3, <1>2 DEF NextNca, ContentsAll, ContentsLaid
  <2> QED
    BY <2>2, <2>4
<1>3. CASE RegisterContent
  <2>1. nsp' = nsp /\ pc' \in {"nca", "fail"}
    BY <1>3 DEF RegisterContent
  <2>2. ContentsAll'
    BY <2>1 DEF ContentsAll
  <2>3. ASSUME pc' = "nca", NEW j \in 1..Len(nsp), j < i', IsContent(nsp[j])
        PROVE  Registered(nsp[j].cid)'
    <3>1. i' = i + 1 /\ i \in Nat
      BY <1>0, <2>3, <1>3 DEF RegisterContent, FrameOK
    <3>2. CASE j = i
      <4>1. PICK p \in placeholders :
              content' = {c \in content : c.cid # Entry.cid} \cup
                           {[cid |-> Entry.cid, form |-> p.form, data |-> p.data]}
        BY <2>3, <1>3 DEF RegisterContent
      <4> DEFINE new == [cid |-> Entry.cid, form |-> p.form, data |-> p.data]
      <4>2. new \in content' /\ new.cid = nsp[j].cid /\ nsp' = nsp
        BY <2>1, <3>2, <4>1 DEF Entry
      <4> HIDE DEF new
      <4> QED
        BY <4>2 DEF Registered
    <3>3. CASE j # i
      <4>1. Registered(nsp[j].cid)
        BY <1>0, <2>3, <3>1, <3>3, <1>3, ContainerShape
           DEF ContentsSoFar, RegisterContent, FrameOK
      <4> QED
        BY <4>1, <2>1, NothingTakenBack DEF Registered
    <3> QED
      BY <3>2, <3>3
  <2> QED
    BY <2>1, <2>2, <2>3 DEF ContentsSoFar, Registered
<1>4. CASE /\ content' = content /\ nsp' = nsp /\ i' = i
           /\ pc \in {"gen", "create", "stream"}
           /\ pc' \in {"create", "stream", "register", "fail"}
  BY <1>0, <1>4 DEF ContentsSoFar, ContentsAll, Registered
<1>5. CASE /\ content' = content /\ nsp' = nsp
           /\ pc \in {"tik", "meta", "commit", "push"}
           /\ pc' \in {"tik", "meta", "commit", "push", "close", "fail"}
  BY <1>0, <1>5 DEF ContentsSoFar, ContentsAll, ContentsLaid
<1>6. CASE pc' \in {"idle", "parse", "open", "fail"}
  BY <1>6 DEF ContentsSoFar, ContentsAll
<1>7. CASE UNCHANGED vars
  BY <1>0, <1>7
     DEF vars, frame, storage, ContentsSoFar, ContentsAll, Registered, ContentsLaid
<1>8. ASSUME \/ Start \/ ParseContainer \/ Finish \/ Fail \/ Crash
      PROVE  pc' \in {"idle", "parse", "open", "fail"}
  BY <1>8 DEF Start, ParseContainer, Finish, Fail, Crash
<1>9. CASE GeneratePlaceHolderId \/ CreatePlaceHolder \/ StreamChunk \/ ReconstructNcz
  BY <1>4, <1>9, StreamStep
     DEF GeneratePlaceHolderId, CreatePlaceHolder, StreamChunk, ReconstructNcz, storage
<1>10. CASE ImportTicket \/ SetContentMeta \/ Commit \/ PushApplicationRecord
  BY <1>5, <1>10
     DEF ImportTicket, SetContentMeta, Commit, PushApplicationRecord, TicketRefused,
         CommitRefused, storage
<1> QED
  BY <1>1, <1>2, <1>3, <1>6, <1>7, <1>8, <1>9, <1>10 DEF Next, Step

LEMMA TicketsSoFarNext == OrderInv /\ [Next]_vars => TicketsSoFar' /\ TicketsAll'
<1> SUFFICES ASSUME OrderInv, [Next]_vars PROVE TicketsSoFar' /\ TicketsAll'
  OBVIOUS
<1>0. FrameOK /\ TicketsSoFar /\ TicketsAll
  BY DEF OrderInv, TypeInv, TypeOK
<1>1. CASE NextNca
  BY <1>0, <1>1 DEF NextNca, TicketsSoFar, TicketsAll, FrameOK
<1>2. CASE ImportTicket
  <2>1. nsp' = nsp
    BY <1>2 DEF ImportTicket
  <2>2. TicketsSoFar'
    BY <1>0, <1>2, <2>1
       DEF ImportTicket, TicketRefused, TicketsSoFar, FrameOK, Entry
  <2>3. ASSUME pc' = "meta" PROVE TicketsLaid(nsp) /\ tickets' = tickets
    BY <1>0, <1>2, <2>3, LaidByEntry, ContainerShape
       DEF ImportTicket, TicketRefused, TicketsSoFar, FrameOK
  <2>4. TicketsAll'
    BY <1>2, <2>1, <2>3 DEF ImportTicket, TicketRefused, TicketsAll, TicketsLaid
  <2> QED
    BY <2>2, <2>4
<1>3. CASE SetContentMeta \/ Commit \/ PushApplicationRecord
  BY <1>0, <1>3
     DEF SetContentMeta, Commit, PushApplicationRecord, CommitRefused, TicketsSoFar,
         TicketsAll, TicketsLaid
<1>4. CASE UNCHANGED vars
  BY <1>0, <1>4 DEF vars, frame, TicketsSoFar, TicketsAll, TicketsLaid
<1>5. CASE pc' \notin {"tik", "meta", "commit", "push", "close"}
  BY <1>5 DEF TicketsSoFar, TicketsAll
<1>6. ASSUME \/ Start \/ ParseContainer \/ OpenStorage \/ GeneratePlaceHolderId
             \/ CreatePlaceHolder \/ StreamChunk \/ ReconstructNcz
             \/ RegisterContent \/ Finish \/ Fail \/ Crash
      PROVE  pc' \notin {"tik", "meta", "commit", "push", "close"}
  BY <1>6, StreamStep
     DEF Start, ParseContainer, OpenStorage, GeneratePlaceHolderId, CreatePlaceHolder,
         RegisterContent, Finish, Fail, Crash
<1> QED
  BY <1>1, <1>2, <1>3, <1>4, <1>5, <1>6 DEF Next, Step

LEMMA BackedNext == OrderInv /\ [Next]_vars => MetaBacked'
<1> SUFFICES ASSUME OrderInv, [Next]_vars PROVE MetaBacked'
  OBVIOUS
<1>0. FrameOK /\ MetaBacked
  BY DEF OrderInv, TypeInv, TypeOK
<1>1. ASSUME NEW m \in staged \cup committed
      PROVE  \E b \in Containers :
               m \in MetasOf(b) /\ ContentsLaid(b)' /\ TicketsLaid(b)'
  BY <1>0, LaidStaysLaid DEF MetaBacked
<1>2. CASE (staged \cup committed)' \subseteq staged \cup committed
  BY <1>1, <1>2 DEF MetaBacked
<1>3. CASE SetContentMeta
  <2>1. CASE staged' = staged
    BY <1>2, <1>3, <2>1 DEF SetContentMeta
  <2>2. CASE staged' # staged
    <3>1. /\ pc = "meta" /\ i <= Len(nsp) /\ HasMeta(nsp[i])
          /\ staged' \subseteq staged \cup {NcmMeta(nsp[i])}
          /\ committed' = committed
      BY <1>3, <2>2 DEF SetContentMeta, ReadsMeta, Entry
    <3>2. nsp \in Containers /\ i \in 1..Len(nsp)
      BY <1>0, <3>1, ContainerShape DEF FrameOK
    <3>3. ContentsLaid(nsp) /\ TicketsLaid(nsp)
      BY <3>1 DEF OrderInv, ContentsAll, TicketsAll
    <3>4. NcmMeta(nsp[i]) \in MetasOf(nsp)
      BY <3>1, <3>2, ContainerShape DEF MetasOf
    <3>5. PICK b \in Containers : b = nsp
      BY <3>2
    <3>6. NcmMeta(nsp[i]) \in MetasOf(b) /\ ContentsLaid(b)' /\ TicketsLaid(b)'
      BY <3>3, <3>4, <3>5, LaidStaysLaid
    <3> QED
      BY <1>1, <3>1, <3>6 DEF MetaBacked
  <2> QED
    BY <2>1, <2>2
<1>4. ASSUME ~SetContentMeta
      PROVE  (staged \cup committed)' \subseteq staged \cup committed
  BY <1>4
     DEF Next, Step, vars, metas, Start, ParseContainer, OpenStorage, NextNca,
         GeneratePlaceHolderId, CreatePlaceHolder, StreamChunk, ReconstructNcz,
         RegisterContent, ImportTicket, Commit, CommitRefused, PushApplicationRecord,
         Finish, Fail, Crash, CloseHandles
<1> QED
  BY <1>2, <1>3, <1>4

LEMMA OrderInit == Init => OrderInv
  BY TypeInit
     DEF Init, OrderInv, AtContent, AtStart, ContentsSoFar, ContentsAll, TicketsSoFar,
         TicketsAll, MetaBacked

LEMMA OrderNext == OrderInv /\ [Next]_vars => OrderInv'
  BY FrameNext, BackendNext, HistoryNext, AtContentNext, StorageNext, MetasNext,
     TicketsNext, AtStartNext, ContentsNext, TicketsSoFarNext, BackedNext
     DEF OrderInv, TypeInv, TypeOK, ServicesOK

(* The metas the console shows, and those a later commit would show, stand *)
(* for containers that are completely in place: for every container, every *)
(* sequence of failures and crashes, and any number of attempts.           *)
THEOREM MetaBackedAlways == Spec => []MetaBacked
<1>1. OrderInv => MetaBacked
  BY DEF OrderInv
<1> QED
  BY <1>1, OrderInit, OrderNext, PTL DEF Spec

(* The contents a meta lists are the CNMT's own, for every NCA, keyset and *)
(* container: ncaExtractCnmt and buildNcmMeta lose, add and swap none, and *)
(* what lies outside of its section is the one thing they make up.         *)
THEOREM MetaTellsTheCnmtAlways == Spec => []MetaTellsTheCnmt
<1>1. OrderInv => MetaTellsTheCnmt
  <2> SUFFICES ASSUME OrderInv, NEW m \in staged \cup committed
               PROVE  \E b \in Containers : \E j \in DOMAIN b :
                        /\ b[j].kind = "cnmt.nca" /\ HasCnmt(b[j].image)
                        /\ LET file == CnmtFile(b[j].image)
                           IN \/ /\ file.inside /\ file.cnmt.count <= Len(file.cnmt.ids)
                                 /\ m.key = file.cnmt.key
                                 /\ m.contents = <<b[j].cid>> \o
                                      SubSeq(file.cnmt.ids, 1, file.cnmt.count)
                              \/ ~file.inside /\ m.key = NoKey /\ m.contents = <<b[j].cid>>
    BY DEF MetaTellsTheCnmt
  <2>0. PICK b \in Containers : m \in MetasOf(b)
    BY DEF OrderInv, MetaBacked
  <2>1. PICK j \in DOMAIN b : HasMeta(b[j]) /\ m = NcmMeta(b[j])
    BY <2>0 DEF MetasOf
  <2>2. b[j].image \in Images
    BY ContainerShape, EntryShape
  <2>3. b[j].kind = "cnmt.nca" /\ HasCnmt(b[j].image)
    BY <2>1 DEF HasMeta
  <2>4. PICK e : e = b[j]
    OBVIOUS
  <2>5. e.image \in Images /\ HasMeta(e)
    BY <2>1, <2>2, <2>4
  <2>6. CASE CnmtFile(e.image).inside
    <3> DEFINE file == CnmtFile(e.image)
    <3>1. /\ file.cnmt.count <= Len(file.cnmt.ids)
          /\ NcmMeta(e) = [key |-> file.cnmt.key, count |-> ContentCount(file.cnmt),
                           contents |-> <<e.cid>> \o SubSeq(file.cnmt.ids, 1, file.cnmt.count)]
      BY <2>5, <2>6, MetaOfCnmt
    <3>2. /\ NcmMeta(e).key = file.cnmt.key
          /\ NcmMeta(e).contents = <<e.cid>> \o SubSeq(file.cnmt.ids, 1, file.cnmt.count)
      <4> DEFINE infos == <<e.cid>> \o SubSeq(file.cnmt.ids, 1, file.cnmt.count)
                 n == ContentCount(file.cnmt)
                 k == file.cnmt.key
      <4>1. NcmMeta(e) = [key |-> k, count |-> n, contents |-> infos]
        BY <3>1
      <4> HIDE DEF infos, n, k
      <4>2. NcmMeta(e).key = k /\ NcmMeta(e).contents = infos
        BY <4>1
      <4> QED
        BY <4>2 DEF infos, k
    <3> QED
      BY <2>1, <2>3, <2>4, <2>6, <3>1, <3>2
  <2>7. CASE ~CnmtFile(e.image).inside
    <3>1. NcmMeta(e) = [key |-> NoKey, count |-> 1 % CountValues, contents |-> <<e.cid>>]
      BY <2>5, <2>7, MetaOfCnmt
    <3>2. NcmMeta(e).key = NoKey /\ NcmMeta(e).contents = <<e.cid>>
      BY <3>1
    <3> QED
      BY <2>1, <2>3, <2>4, <2>7, <3>2
  <2> QED
    BY <2>6, <2>7
<1> QED
  BY <1>1, OrderInit, OrderNext, PTL DEF Spec

(* The count in the header of a meta is that of its content infos, except  *)
(* where 16 bits cannot hold it, for every width of the field.             *)
THEOREM MetaCountsContentsAlways == Spec => []MetaCountsContents
<1>1. OrderInv => MetaCountsContents
  <2> SUFFICES ASSUME OrderInv, NEW m \in staged \cup committed
               PROVE  m.count = Len(m.contents)
                      \/ (Len(m.contents) = CountValues /\ m.count = 0)
    BY DEF MetaCountsContents
  <2>0. PICK b \in Containers : m \in MetasOf(b)
    BY DEF OrderInv, MetaBacked
  <2>1. PICK j \in DOMAIN b : HasMeta(b[j]) /\ m = NcmMeta(b[j])
    BY <2>0 DEF MetasOf
  <2>2. b[j].image \in Images
    BY ContainerShape, EntryShape
  <2> QED
    BY <2>1, <2>2, MetaShape
<1> QED
  BY <1>1, OrderInit, OrderNext, PTL DEF Spec

-----------------------------------------------------------------------------
(* Records.  metaKey is unset until this attempt sets a meta, names a      *)
(* staged meta until the commit and a committed one when the record is     *)
(* pushed.                                                                 *)
HasKey(S, k) == \E m \in S : m.key = k

KeyUnset ==
  pc \in {"parse", "open", "nca", "gen", "create", "stream", "register", "tik", "meta"}
    => metaKey = NoKey
KeyStaged == pc = "commit" => metaKey = NoKey \/ HasKey(staged, metaKey)
KeyCommitted == pc = "push" => metaKey = NoKey \/ HasKey(committed, metaKey)

RecordInv == KeyUnset /\ KeyStaged /\ KeyCommitted /\ RecordBacked

(* The backend's key follows the sequence of installNsp. *)
LEMMA KeyNext == RecordInv /\ [Next]_vars => KeyUnset' /\ KeyStaged' /\ KeyCommitted'
<1> SUFFICES ASSUME RecordInv, [Next]_vars PROVE KeyUnset' /\ KeyStaged' /\ KeyCommitted'
  OBVIOUS
<1> USE DEF RecordInv, KeyUnset, KeyStaged, KeyCommitted
<1>1. CASE SetContentMeta
  <2>1. CASE pc' = "commit" /\ metaKey' # metaKey
    <3>1. NcmMeta(Entry) \in staged' /\ NcmMeta(Entry).key = metaKey'
      BY <1>1, <2>1 DEF SetContentMeta
    <3> QED
      BY <2>1, <3>1 DEF HasKey
  <2>2. CASE metaKey' = metaKey
    BY <1>1, <2>2 DEF SetContentMeta
  <2> QED
    BY <1>1, <2>1, <2>2 DEF SetContentMeta
<1>2. CASE Commit
  <2>1. CASE pc' = "push"
    <3>1. staged \subseteq committed' /\ metaKey' = metaKey /\ pc = "commit"
      BY <1>2, <2>1 DEF Commit, CommitRefused, backend
    <3> QED
      BY <2>1, <3>1 DEF HasKey
  <2>2. CASE pc' # "push"
    BY <1>2, <2>2 DEF Commit, CommitRefused
  <2> QED
    BY <2>1, <2>2
<1>3. CASE Start
  BY <1>3 DEF Start
<1>4. CASE Finish \/ Fail \/ Crash \/ PushApplicationRecord
  BY <1>4 DEF Finish, Fail, Crash, PushApplicationRecord
<1>5. CASE ParseContainer \/ OpenStorage
  BY <1>5 DEF ParseContainer, OpenStorage, backend
<1>6. CASE NextNca \/ GeneratePlaceHolderId \/ CreatePlaceHolder
  BY <1>6 DEF NextNca, GeneratePlaceHolderId, CreatePlaceHolder, backend
<1>7. CASE StreamChunk \/ ReconstructNcz \/ RegisterContent
  BY <1>7 DEF StreamChunk, ReconstructNcz, RegisterContent, backend
<1>8. CASE ImportTicket
  BY <1>8 DEF ImportTicket, TicketRefused, backend
<1>9. CASE UNCHANGED vars
  BY <1>9 DEF vars, frame, backend, metas
<1> QED
  BY <1>1, <1>2, <1>3, <1>4, <1>5, <1>6, <1>7, <1>8, <1>9 DEF Next, Step

(* A commit may replace a meta, and never takes a key out of the database. *)
LEMMA KeysStay ==
  ASSUME [Next]_vars, NEW k, HasKey(committed, k)
  PROVE  HasKey(committed, k)'
<1>1. CASE committed' = committed
  BY <1>1 DEF HasKey
<1>2. CASE committed' =
             {m \in committed : \A s \in staged : s.key # m.key} \cup staged
  <2>1. PICK m \in committed : m.key = k
    BY DEF HasKey
  <2>2. CASE \A s \in staged : s.key # m.key
    BY <1>2, <2>1, <2>2 DEF HasKey
  <2>3. CASE \E s \in staged : s.key = m.key
    BY <1>2, <2>1, <2>3 DEF HasKey
  <2> QED
    BY <2>2, <2>3
<1> QED
  BY <1>1, <1>2
     DEF Next, Step, vars, metas, Start, ParseContainer, OpenStorage, NextNca,
         GeneratePlaceHolderId, CreatePlaceHolder, StreamChunk, ReconstructNcz,
         RegisterContent, ImportTicket, SetContentMeta, Commit, CommitRefused,
         PushApplicationRecord, Finish, Fail, Crash

(* Only the push adds a record, and it is the key of a committed meta.     *)
LEMMA RecordsNext == RecordInv /\ [Next]_vars => RecordBacked'
<1> SUFFICES ASSUME RecordInv, [Next]_vars, NEW k \in records', k # NoKey
             PROVE  HasKey(committed, k)'
  BY DEF RecordBacked, HasKey
<1>1. CASE k \in records
  <2>1. HasKey(committed, k)
    BY <1>1 DEF RecordInv, RecordBacked, HasKey
  <2> QED
    BY <2>1, KeysStay
<1>2. CASE k \notin records
  <2>1. PushApplicationRecord
    BY <1>2
       DEF Next, Step, vars, metas, Start, ParseContainer, OpenStorage, NextNca,
           GeneratePlaceHolderId, CreatePlaceHolder, StreamChunk, ReconstructNcz,
           RegisterContent, ImportTicket, SetContentMeta, Commit, Finish, Fail, Crash
  <2>2. pc = "push" /\ k = metaKey
    BY <1>2, <2>1 DEF PushApplicationRecord
  <2>3. HasKey(committed, k)
    BY <2>2 DEF RecordInv, KeyCommitted
  <2> QED
    BY <2>3, KeysStay
<1> QED
  BY <1>1, <1>2

(* The home menu shows no title that the database does not have: an        *)
(* application record names a committed meta, for every container and      *)
(* every sequence of failures and crashes (NcmBackend::commit pushes only  *)
(* after the database commit, with the key this attempt has set).          *)
THEOREM RecordBackedAlways == Spec => []RecordBacked
<1>1. Init => RecordInv
  BY DEF Init, RecordInv, KeyUnset, KeyStaged, KeyCommitted, RecordBacked
<1>2. RecordInv /\ [Next]_vars => RecordInv'
  BY KeyNext, RecordsNext DEF RecordInv
<1>3. RecordInv => RecordBacked
  BY DEF RecordInv
<1> QED
  BY <1>1, <1>2, <1>3, PTL DEF Spec

-----------------------------------------------------------------------------
(* Refinement.  Store's variables are functions of Installer's; a step of  *)
(* Installer is one of Store's, or leaves them alone.                      *)
laid == {c.cid : c \in content}

(* TitleStore reads a container as Installer does.                         *)
LEMMA StoreReadsTheSame ==
  ASSUME NEW b
  PROVE  /\ Store!ContentIdsOf(b) = ContentIdsOf(b)
         /\ Store!TicketsOf(b) = TicketsOf(b)
         /\ Store!MetasOf(b) = MetasOf(b)
<1>1. Store!ContentIdsOf(b) = ContentIdsOf(b)
  BY DEF Store!ContentIdsOf, ContentIdsOf, Store!IsContent, IsContent, Store!IsNca,
         IsNca, Store!IsNcz, IsNcz
<1>2. Store!TicketsOf(b) = TicketsOf(b)
  BY DEF Store!TicketsOf, TicketsOf, Store!IsTicket, IsTicket
<1>3. Store!MetasOf(b) = MetasOf(b)
  <2>1. \A img : Store!HasCnmt(img) <=> HasCnmt(img)
    BY DEF Store!HasCnmt, HasCnmt
  <2>2. \A img : Store!Extracted(img) = Extracted(img)
    BY DEF Store!Extracted, Extracted, Store!CnmtFile, CnmtFile, Store!ZeroFilled, ZeroFilled
  <2>3. \A c : Store!Builds(c) <=> Builds(c)
    BY DEF Store!Builds, Builds, Store!HeadLen, HeadLen, Store!InfoLen, InfoLen,
           Store!MetaLen, MetaLen
  <2>4. \A c, id : Store!BuildNcmMeta(c, id) = BuildNcmMeta(c, id)
    BY DEF Store!BuildNcmMeta, BuildNcmMeta, Store!ContentCount, ContentCount,
           Store!ContentInfos, ContentInfos
  <2>5. \A e : Store!HasMeta(e) <=> HasMeta(e)
    BY <2>1, <2>2, <2>3 DEF Store!HasMeta, HasMeta
  <2>6. \A e : Store!NcmMeta(e) = NcmMeta(e)
    BY <2>2, <2>4 DEF Store!NcmMeta, NcmMeta
  <2> QED
    BY <2>5, <2>6 DEF Store!MetasOf, MetasOf
<1> QED
  BY <1>1, <1>2, <1>3

LEMMA InPlaceIsLaid ==
  ASSUME NEW b \in Containers
  PROVE  /\ ContentsLaid(b) <=> ContentIdsOf(b) \subseteq laid
         /\ Store!InPlace(b) <=> ContentsLaid(b) /\ TicketsLaid(b)
<1>1. ContentsLaid(b) <=> ContentIdsOf(b) \subseteq laid
  BY DEF laid, ContentsLaid
<1> QED
  BY <1>1, StoreReadsTheSame DEF laid, TicketsLaid, Store!InPlace

(* registerContent is Lay: the id of an entry of the container is laid and *)
(* no other goes.                                                          *)
LEMMA RegisterIsLay == OrderInv /\ RegisterContent => Store!Lay \/ UNCHANGED Store!vars
<1> SUFFICES ASSUME OrderInv, RegisterContent
             PROVE  Store!Lay \/ UNCHANGED Store!vars
  OBVIOUS
<1>1. UNCHANGED <<nsp, tickets, committed>> /\ pc # "idle" /\ pc' # "idle"
  BY DEF RegisterContent, metas
<1>2. CASE content' = content
  BY <1>1, <1>2 DEF Store!vars
<1>3. CASE content' # content
  <2>1. PICK p \in placeholders :
          content' = {c \in content : c.cid # Entry.cid} \cup
                       {[cid |-> Entry.cid, form |-> p.form, data |-> p.data]}
    BY <1>3 DEF RegisterContent, storage
  <2>2. nsp \in Containers /\ i \in 1..Len(nsp) /\ IsContent(Entry)
    BY DEF OrderInv, TypeInv, TypeOK, FrameOK, AtContent, RegisterContent, Entry
  <2>3. Entry.cid \in ContentIdsOf(nsp)
    BY <2>2, ContainerShape DEF ContentIdsOf, Entry
  <2>4. laid' = laid \cup {Entry.cid}
    <3> DEFINE new == [cid |-> Entry.cid, form |-> p.form, data |-> p.data]
    <3>1. content' = {c \in content : c.cid # Entry.cid} \cup {new}
      BY <2>1
    <3>2. new.cid = Entry.cid
      OBVIOUS
    <3> HIDE DEF new
    <3> QED
      BY <3>1, <3>2 DEF laid
  <2> QED
    BY <1>1, <2>3, <2>4, StoreReadsTheSame DEF laid, Store!Lay
<1> QED
  BY <1>2, <1>3

(* importTicket is Grant: by then all contents are laid. *)
LEMMA ImportIsGrant == OrderInv /\ ImportTicket => Store!Grant \/ UNCHANGED Store!vars
<1> SUFFICES ASSUME OrderInv, ImportTicket
             PROVE  Store!Grant \/ UNCHANGED Store!vars
  OBVIOUS
<1>1. UNCHANGED <<nsp, content, committed>> /\ pc = "tik" /\ pc' # "idle"
  BY DEF ImportTicket, TicketRefused, metas, storage
<1>2. CASE tickets' = tickets
  BY <1>1, <1>2 DEF Store!vars
<1>3. CASE tickets' # tickets
  <2>1. i <= Len(nsp) /\ IsTicket(Entry) /\ tickets' = tickets \cup {Entry.rights}
    BY <1>3 DEF ImportTicket, TicketRefused
  <2>2. nsp \in Containers /\ i \in 1..Len(nsp)
    BY <2>1, ContainerShape DEF OrderInv, TypeInv, TypeOK, FrameOK
  <2>3. Entry.rights \in TicketsOf(nsp)
    BY <2>1, <2>2, ContainerShape DEF TicketsOf, Entry
  <2>4. ContentIdsOf(nsp) \subseteq laid
    BY <1>1, <2>2, InPlaceIsLaid DEF OrderInv, ContentsAll
  <2> QED
    BY <1>1, <2>1, <2>3, <2>4, StoreReadsTheSame DEF laid, Store!Grant
<1> QED
  BY <1>2, <1>3

(* The database commit is Publish: of all that was staged, each of whose   *)
(* containers is in place (MetaBacked).                                    *)
LEMMA CommitIsPublish == OrderInv /\ Commit => Store!Publish \/ UNCHANGED Store!vars
<1> SUFFICES ASSUME OrderInv, Commit
             PROVE  Store!Publish \/ UNCHANGED Store!vars
  OBVIOUS
<1>1. UNCHANGED <<nsp, content, tickets>> /\ pc = "commit" /\ pc' # "idle"
  BY DEF Commit, CommitRefused, storage
<1>2. CASE committed' = committed
  BY <1>1, <1>2 DEF Store!vars
<1>3. CASE committed' # committed
  <2>1. committed' = {m \in committed : \A s \in staged : s.key # m.key} \cup staged
    BY <1>3 DEF Commit, CommitRefused
  <2>2. nsp \in Containers /\ ContentsLaid(nsp) /\ TicketsLaid(nsp)
    BY <1>1 DEF OrderInv, TypeInv, TypeOK, FrameOK, ContentsAll, TicketsAll
  <2>3. Store!InPlace(nsp)
    BY <2>2, InPlaceIsLaid
  <2>4. \A m \in staged : \E b \in Containers : m \in MetasOf(b) /\ Store!InPlace(b)
    BY InPlaceIsLaid DEF OrderInv, MetaBacked
  <2>5. staged \in SUBSET UNION {MetasOf(b) : b \in Containers}
    BY <2>4
  <2> QED
    BY <1>1, <2>1, <2>3, <2>4, <2>5, StoreReadsTheSame DEF Store!Publish
<1> QED
  BY <1>2, <1>3

LEMMA StoreNext == OrderInv /\ [Next]_vars => [Store!Next]_(Store!vars)
<1> SUFFICES ASSUME OrderInv, [Next]_vars PROVE Store!Next \/ UNCHANGED Store!vars
  OBVIOUS
<1>1. CASE RegisterContent
  BY <1>1, RegisterIsLay DEF Store!Next
<1>2. CASE ImportTicket
  BY <1>2, ImportIsGrant DEF Store!Next
<1>3. CASE Commit
  BY <1>3, CommitIsPublish DEF Store!Next
<1>4. CASE Start
  BY <1>4 DEF Start, storage, metas, Store!Begin, Store!Next
<1>5. CASE Finish \/ Fail \/ Crash
  BY <1>5 DEF Finish, Fail, Crash, storage, Store!End, Store!Next
<1>6. CASE ParseContainer \/ OpenStorage \/ NextNca \/ GeneratePlaceHolderId
  BY <1>6 DEF ParseContainer, OpenStorage, NextNca, GeneratePlaceHolderId, storage,
              metas, Store!vars
<1>7. CASE CreatePlaceHolder \/ StreamChunk \/ ReconstructNcz
  BY <1>7, StreamStep DEF CreatePlaceHolder, StreamChunk, ReconstructNcz, metas, Store!vars
<1>8. CASE SetContentMeta \/ PushApplicationRecord
  BY <1>8 DEF SetContentMeta, PushApplicationRecord, storage, Store!vars
<1>9. CASE UNCHANGED vars
  BY <1>9 DEF vars, frame, storage, metas, Store!vars
<1> QED
  BY <1>1, <1>2, <1>3, <1>4, <1>5, <1>6, <1>7, <1>8, <1>9 DEF Next, Step

(* The installer implements TitleStore: contents before tickets before     *)
(* metas, metas only of containers that are in place, and nothing taken    *)
(* back, whatever fails and wherever the process dies.                     *)
THEOREM ImplementsStore == Spec => StoreSpec
<1>1. Init => Store!Init
  BY DEF Init, Store!Init
<1>2. Spec => []OrderInv
  <2>1. Init => OrderInv
    BY OrderInit
  <2>2. OrderInv /\ [Next]_vars => OrderInv'
    BY OrderNext
  <2> QED
    BY <2>1, <2>2, PTL DEF Spec
<1> QED
  BY <1>1, <1>2, StoreNext, PTL DEF Spec, StoreSpec, Store!Spec

=============================================================================
