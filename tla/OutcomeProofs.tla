---------------------------- MODULE OutcomeProofs -----------------------------
(***************************************************************************)
(* Theorems about what an install leaves behind and what it reports, for   *)
(* every set of containers, every chunk size and any number of attempts:   *)
(* the bytes of the registered content, the orphans of failed attempts,    *)
(* the phase a failure names and what ok stands for.                       *)
(***************************************************************************)
EXTENDS InstallerProofs, FiniteSetTheorems

-----------------------------------------------------------------------------
(* Bytes.  While an NCA is streamed, ncm has one placeholder of its id: it *)
(* was created with the size of the entry, is the source's up to written   *)
(* and blank behind that.                                                  *)
StreamedSoFar(p) ==
  /\ p.form = Entry.kind /\ DOMAIN p.data = 0..Entry.size - 1
  /\ \A u \in DOMAIN p.data : p.data[u] = IF u < written THEN u ELSE Blank

FreshId == pc = "create" => \A p \in placeholders : p.id # cur
CurOnly ==
  pc \in {"stream", "register"} =>
    /\ \A p \in placeholders : p.id = cur => StreamedSoFar(p)
    /\ \A p, q \in placeholders : p.id = cur /\ q.id = cur => p = q
NcaWhole == pc = "register" /\ IsNca(Entry) => written >= Entry.size

BytesInv == FreshId /\ CurOnly /\ NcaWhole /\ RegisteredIntact

(* The type invariant and the place in the content loop come with it. *)
TypeAt == TypeInv /\ AtContent

LEMMA TypeAtInit == Init => TypeAt
  BY TypeInit DEF Init, TypeAt, AtContent

LEMMA TypeAtNext == TypeAt /\ [Next]_vars => TypeAt'
  BY FrameNext, BackendNext, HistoryNext, AtContentNext, StorageNext, MetasNext,
     TicketsNext DEF TypeAt, TypeInv, TypeOK, ServicesOK

(* While an NCA is written, its size is a number. *)
LEMMA SizeAtContent ==
  ASSUME TypeAt, pc \in {"gen", "create", "stream", "register"}
  PROVE  Entry.size \in Nat /\ IsContent(Entry) /\ written \in Nat
  BY EntryShape DEF TypeAt, TypeInv, TypeOK, FrameOK, AtContent, Entry

(* One write of the streaming loop extends what is streamed by what was    *)
(* read.                                                                   *)
LEMMA WriteExtends ==
  ASSUME TypeAt, pc = "stream", CurOnly, NEW n \in Reads(Entry.size - written),
         WriteOn(SourceUnits(written, n)), UNCHANGED <<nsp, i, cur>>
  PROVE  CurOnly'
<1> DEFINE units == SourceUnits(written, n)
<1>1. n \in Nat /\ Entry.size \in Nat /\ written \in Nat /\ Entry' = Entry
  BY SizeAtContent, ChunkAssumption DEF Reads, Entry
<1>2. /\ DOMAIN units = 1..n /\ Len(units) = n
      /\ \A k \in 1..n : units[k] = written + k - 1
  BY <1>1 DEF SourceUnits
<1>3. pc' = pc /\ written' = written + n /\ WritePlaceHolder(written, units)
  BY <1>2 DEF WriteOn
<1> HIDE DEF units
<1>4. PICK p \in placeholders :
        /\ p.id = cur
        /\ placeholders' = (placeholders \ {p}) \cup
             {[id |-> cur, cid |-> p.cid, form |-> p.form,
               data |-> [u \in DOMAIN p.data |->
                 IF u - written + 1 \in DOMAIN units THEN units[u - written + 1] ELSE p.data[u]]]}
  BY <1>3 DEF WritePlaceHolder
<1> DEFINE data == [u \in DOMAIN p.data |->
                      IF u - written + 1 \in DOMAIN units THEN units[u - written + 1] ELSE p.data[u]]
<1>5. StreamedSoFar(p)
  BY <1>4 DEF CurOnly
<1>6. DOMAIN data = 0..Entry.size - 1
  BY <1>5 DEF StreamedSoFar
<1>7. ASSUME NEW u \in 0..Entry.size - 1
      PROVE  data[u] = IF u < written + n THEN u ELSE Blank
  <2>1. p.data[u] = IF u < written THEN u ELSE Blank
    BY <1>5 DEF StreamedSoFar
  <2>2. data[u] = IF u - written + 1 \in 1..n THEN units[u - written + 1] ELSE p.data[u]
    BY <1>2, <1>5 DEF StreamedSoFar
  <2>3. CASE u - written + 1 \in 1..n
    BY <1>1, <1>2, <2>2, <2>3
  <2>4. CASE u - written + 1 \notin 1..n
    BY <1>1, <2>1, <2>2, <2>4
  <2> QED
    BY <2>3, <2>4
<1>8. PICK new : new = [id |-> cur, cid |-> p.cid, form |-> p.form, data |-> data]
  OBVIOUS
<1>9. /\ placeholders' = (placeholders \ {p}) \cup {new}
      /\ new.id = cur /\ new.form = p.form /\ new.data = data
  BY <1>4, <1>8
<1> HIDE DEF data
<1>10. StreamedSoFar(new)'
  BY <1>1, <1>3, <1>5, <1>6, <1>7, <1>9 DEF StreamedSoFar
<1>11. \A q \in placeholders' : q.id = cur => q = new
  BY <1>4, <1>9 DEF CurOnly
<1> QED
  BY <1>1, <1>3, <1>10, <1>11 DEF CurOnly

LEMMA CurNext == TypeAt /\ BytesInv /\ [Next]_vars => FreshId' /\ CurOnly' /\ NcaWhole'
<1> SUFFICES ASSUME TypeAt, BytesInv, [Next]_vars
             PROVE  FreshId' /\ CurOnly' /\ NcaWhole'
  OBVIOUS
<1>0. FreshId /\ CurOnly /\ NcaWhole
  BY DEF BytesInv
<1>1. CASE pc' \notin {"create", "stream", "register"}
  BY <1>1 DEF FreshId, CurOnly, NcaWhole
<1>2. CASE GeneratePlaceHolderId
  BY <1>2 DEF GeneratePlaceHolderId, storage, FreshId, CurOnly, NcaWhole
<1>3. CASE CreatePlaceHolder
  <2>1. CASE pc' = "stream"
    <3>0. PICK new : new = [id |-> cur, cid |-> Entry.cid, form |-> Entry.kind,
                           data |-> [u \in 0..Entry.size - 1 |-> Blank]]
      OBVIOUS
    <3>1. /\ pc = "create" /\ written' = 0 /\ placeholders' = placeholders \cup {new}
          /\ UNCHANGED <<nsp, i, cur>>
      BY <1>3, <2>1, <3>0 DEF CreatePlaceHolder
    <3>2. new.id = cur /\ StreamedSoFar(new)'
      BY <3>0, <3>1, SizeAtContent DEF StreamedSoFar, Entry
    <3>3. \A q \in placeholders' : q.id = cur => q = new
      BY <1>0, <3>1 DEF FreshId
    <3> QED
      BY <2>1, <3>1, <3>2, <3>3 DEF FreshId, CurOnly, NcaWhole
  <2> QED
    BY <1>1, <1>3, <2>1 DEF CreatePlaceHolder
<1>4. CASE StreamChunk \/ ReconstructNcz
  <2>0. pc = "stream" /\ UNCHANGED <<nsp, i, cur>> /\ Entry' = Entry
    BY <1>4 DEF StreamChunk, ReconstructNcz, Entry
  <2>1. CASE \E n \in Reads(Entry.size - written) : WriteOn(SourceUnits(written, n))
    <3>1. PICK n \in Reads(Entry.size - written) : WriteOn(SourceUnits(written, n))
      BY <2>1
    <3>2. CurOnly' /\ pc' = "stream"
      BY <1>0, <2>0, <3>1, WriteExtends DEF WriteOn
    <3> QED
      BY <3>2 DEF FreshId, NcaWhole
  <2>2. CASE GiveUp
    BY <1>1, <2>2 DEF GiveUp
  <2>3. CASE pc' = "register" /\ UNCHANGED <<written, placeholders>>
    <3>1. CurOnly'
      BY <1>0, <2>0, <2>3 DEF CurOnly, StreamedSoFar
    <3>2. IsNca(Entry) => written >= Entry.size
      BY <1>4, <2>3 DEF StreamChunk, ReconstructNcz, IsNca, IsNcz, WriteOn, GiveUp, AllWritten
    <3> QED
      BY <2>0, <2>3, <3>1, <3>2 DEF FreshId, NcaWhole
  <2> QED
    BY <1>4, <2>1, <2>2, <2>3 DEF StreamChunk, ReconstructNcz
<1>5. CASE UNCHANGED vars
  BY <1>0, <1>5 DEF vars, frame, storage, FreshId, CurOnly, NcaWhole, StreamedSoFar, Entry
<1> QED
  BY <1>1, <1>2, <1>3, <1>4, <1>5
     DEF Next, Step, Start, ParseContainer, OpenStorage, NextNca, RegisterContent,
         ImportTicket, TicketRefused, SetContentMeta, Commit, CommitRefused,
         PushApplicationRecord, Finish, Fail, Crash

(* What is registered was streamed: all of it, unless it is an .ncz. *)
LEMMA IntactNext == TypeAt /\ BytesInv /\ [Next]_vars => RegisteredIntact'
<1> SUFFICES ASSUME TypeAt, BytesInv, [Next]_vars PROVE RegisteredIntact'
  OBVIOUS
<1>0. CurOnly /\ NcaWhole /\ RegisteredIntact
  BY DEF BytesInv
<1>1. CASE content' = content
  BY <1>0, <1>1 DEF RegisteredIntact
<1>2. CASE content' # content
  <2>1. RegisterContent
    BY <1>2
       DEF Next, Step, vars, storage, Start, ParseContainer, OpenStorage, NextNca,
           GeneratePlaceHolderId, CreatePlaceHolder, StreamChunk, ReconstructNcz,
           ImportTicket, SetContentMeta, Commit, PushApplicationRecord, Finish, Fail, Crash
  <2>2. pc = "register"
    BY <2>1 DEF RegisterContent
  <2>3. PICK p \in placeholders :
          /\ p.id = cur
          /\ content' = {c \in content : c.cid # Entry.cid} \cup
                          {[cid |-> Entry.cid, form |-> p.form, data |-> p.data]}
    BY <1>2, <2>1 DEF RegisterContent, storage
  <2> DEFINE new == [cid |-> Entry.cid, form |-> p.form, data |-> p.data]
  <2>4. new.form = p.form /\ new.data = p.data
    OBVIOUS
  <2>5. content' = {c \in content : c.cid # Entry.cid} \cup {new}
    BY <2>3
  <2> HIDE DEF new
  <2>6. StreamedSoFar(p) /\ IsContent(Entry) /\ Entry.size \in Nat /\ written \in Nat
    BY <1>0, <2>2, <2>3, SizeAtContent DEF CurOnly
  <2>7. ASSUME NEW u \in DOMAIN new.data
        PROVE  new.data[u] = u \/ (new.data[u] = Blank /\ new.form = "ncz")
    <3>1. new.data[u] = (IF u < written THEN u ELSE Blank) /\ u \in 0..Entry.size - 1
      BY <2>4, <2>6, <2>7 DEF StreamedSoFar
    <3>2. CASE IsNca(Entry)
      BY <1>0, <2>2, <2>6, <3>1, <3>2 DEF NcaWhole
    <3>3. CASE IsNcz(Entry)
      BY <2>4, <2>6, <3>1, <3>3 DEF StreamedSoFar, IsNcz
    <3> QED
      BY <2>6, <3>2, <3>3 DEF IsContent
  <2> QED
    BY <1>0, <2>5, <2>7 DEF RegisteredIntact
<1> QED
  BY <1>1, <1>2

(* Registered content has the source's bytes at the source's offsets, all  *)
(* of them when it was streamed from an .nca: for every size of chunk and  *)
(* every way in which reads come short (streamIntoPlaceHolder advances by  *)
(* what was read and stops at e.size).                                     *)
THEOREM RegisteredIntactAlways == Spec => []RegisteredIntact
<1>1. Init => TypeAt /\ BytesInv
  BY TypeAtInit DEF Init, BytesInv, FreshId, CurOnly, NcaWhole, RegisteredIntact
<1>2. TypeAt /\ BytesInv /\ [Next]_vars => (TypeAt /\ BytesInv)'
  BY TypeAtNext, CurNext, IntactNext DEF BytesInv
<1>3. BytesInv => RegisteredIntact
  BY DEF BytesInv
<1> QED
  BY <1>1, <1>2, <1>3, PTL DEF Spec

-----------------------------------------------------------------------------
(* Residue.  Placeholders and ncm references are only lost in attempts     *)
(* that are counted in lost; a running attempt may hold one of each on top *)
(* of them, and which it holds follows from where it stands.               *)
Residue == Cardinality(placeholders) + ncmRefs

ResidueInv ==
  /\ IsFiniteSet(placeholders)
  /\ pc \in {"idle", "parse", "open"} => handles = "closed" /\ Residue <= lost
  /\ pc \in {"nca", "gen", "create", "tik", "meta", "commit", "push", "close"} =>
       handles = "open" /\ Residue <= lost + 1
  /\ pc \in {"stream", "register"} => handles = "open" /\ Residue <= lost + 2
  /\ pc = "fail" => Residue <= IF handles = "open" THEN lost + 2 ELSE lost + 1

(* A write replaces a placeholder, so there are no more of them after it.  *)
LEMMA WriteAddsNone ==
  ASSUME IsFiniteSet(placeholders), StreamChunk \/ ReconstructNcz
  PROVE  IsFiniteSet(placeholders') /\ Cardinality(placeholders') <= Cardinality(placeholders)
<1>1. Cardinality(placeholders) \in Nat
  BY FS_CardinalityType
<1>2. CASE placeholders' = placeholders
  BY <1>1, <1>2
<1>3. CASE placeholders' # placeholders
  <2>1. PICK off, units : WritePlaceHolder(off, units)
    BY <1>3 DEF StreamChunk, ReconstructNcz, WriteOn, GiveUp
  <2>2. PICK p \in placeholders : \E q : placeholders' = (placeholders \ {p}) \cup {q}
    BY <2>1 DEF WritePlaceHolder
  <2>3. /\ IsFiniteSet(placeholders \ {p})
        /\ Cardinality(placeholders \ {p}) = Cardinality(placeholders) - 1
    BY FS_RemoveElement
  <2>4. PICK new : placeholders' = (placeholders \ {p}) \cup {new}
    BY <2>2
  <2>5. /\ IsFiniteSet((placeholders \ {p}) \cup {new})
        /\ \/ Cardinality((placeholders \ {p}) \cup {new}) = Cardinality(placeholders \ {p})
           \/ Cardinality((placeholders \ {p}) \cup {new}) = Cardinality(placeholders \ {p}) + 1
    BY <2>3, FS_AddElement
  <2> QED
    BY <1>1, <2>3, <2>4, <2>5
<1> QED
  BY <1>2, <1>3

LEMMA ResidueNext == TypeAt /\ ResidueInv /\ [Next]_vars => ResidueInv'
<1> SUFFICES ASSUME TypeAt, ResidueInv, [Next]_vars PROVE ResidueInv'
  OBVIOUS
<1> USE DEF ResidueInv, Residue
<1>0. /\ pc \in PCs /\ handles \in {"open", "closed"} /\ ncmRefs \in Nat /\ lost \in Nat
      /\ handles = "open" => ncmRefs >= 1
      /\ Cardinality(placeholders) \in Nat
  BY FS_CardinalityType DEF TypeAt, TypeInv, TypeOK, FrameOK, BackendOK, HistoryOK, OpenHoldsRef
<1>1. CASE Start
  BY <1>0, <1>1 DEF Start, storage
<1>2. CASE ParseContainer
  BY <1>0, <1>2 DEF ParseContainer, Begin, storage, backend
<1>3. CASE OpenStorage
  BY <1>0, <1>3 DEF OpenStorage, storage, backend, history
<1>4. CASE NextNca
  BY <1>0, <1>4 DEF NextNca, Begin, storage, backend, history
<1>5. CASE GeneratePlaceHolderId
  BY <1>0, <1>5 DEF GeneratePlaceHolderId, storage, backend, history
<1>6. CASE CreatePlaceHolder
  <2>1. CASE pc' = "stream"
    <3>1. PICK new : placeholders' = placeholders \cup {new}
      BY <1>6, <2>1 DEF CreatePlaceHolder
    <3>2. /\ IsFiniteSet(placeholders')
          /\ \/ Cardinality(placeholders') = Cardinality(placeholders)
             \/ Cardinality(placeholders') = Cardinality(placeholders) + 1
      BY <3>1, FS_AddElement
    <3> QED
      BY <1>0, <1>6, <2>1, <3>2 DEF CreatePlaceHolder, backend, history
  <2>2. CASE pc' = "fail" /\ placeholders' = placeholders
    BY <1>0, <1>6, <2>2 DEF CreatePlaceHolder, backend, history
  <2> QED
    BY <1>6, <2>1, <2>2 DEF CreatePlaceHolder
<1>7. CASE StreamChunk \/ ReconstructNcz
  <2>1. pc = "stream" /\ pc' \in {"stream", "register", "fail"}
    BY <1>7, StreamStep
  <2>2. IsFiniteSet(placeholders') /\ Cardinality(placeholders') <= Cardinality(placeholders)
    BY <1>7, WriteAddsNone
  <2>3. UNCHANGED <<handles, ncmRefs, lost>> /\ Cardinality(placeholders') \in Nat
    BY <1>7, <2>2, FS_CardinalityType DEF StreamChunk, ReconstructNcz, backend, history
  <2> QED
    BY <1>0, <2>1, <2>2, <2>3
<1>8. CASE RegisterContent
  <2>1. CASE pc' = "nca"
    <3>1. PICK p \in placeholders : placeholders' = placeholders \ {p}
      BY <1>8, <2>1 DEF RegisterContent
    <3>2. /\ IsFiniteSet(placeholders')
          /\ Cardinality(placeholders') = Cardinality(placeholders) - 1
      BY <3>1, FS_RemoveElement
    <3> QED
      BY <1>0, <1>8, <2>1, <3>2 DEF RegisterContent, backend, history
  <2>2. CASE pc' = "fail" /\ UNCHANGED storage
    BY <1>0, <1>8, <2>2 DEF RegisterContent, backend, history, storage
  <2> QED
    BY <1>8, <2>1, <2>2 DEF RegisterContent
<1>9. CASE ImportTicket
  BY <1>0, <1>9 DEF ImportTicket, TicketRefused, Begin, storage, backend, history
<1>10. CASE SetContentMeta
  BY <1>0, <1>10 DEF SetContentMeta, Begin, storage, history
<1>11. CASE Commit \/ PushApplicationRecord
  BY <1>0, <1>11 DEF Commit, CommitRefused, PushApplicationRecord, Begin, storage, backend, history
<1>12. CASE Finish
  BY <1>0, <1>12 DEF Finish, CloseHandles, storage, history
<1>13. CASE Fail
  BY <1>0, <1>13 DEF Fail, CloseHandles, storage
<1>14. CASE Crash
  BY <1>0, <1>14 DEF Crash, storage, PCs
<1>15. CASE UNCHANGED vars
  BY <1>0, <1>15 DEF vars, frame, storage, backend, history
<1> QED
  BY <1>1, <1>2, <1>3, <1>4, <1>5, <1>6, <1>7, <1>8, <1>9, <1>10, <1>11, <1>12,
     <1>13, <1>14, <1>15 DEF Next, Step

(* Nothing piles up but what failed attempts leave: between installs there *)
(* are no more orphan placeholders and unreturned ncm references than      *)
(* attempts that failed or crashed (NcmBackend::open and closeStorage).    *)
THEOREM ResidueBoundedAlways == Spec => []ResidueBounded
<1>1. Init => TypeAt /\ ResidueInv
  BY TypeAtInit, FS_EmptySet DEF Init, ResidueInv, Residue
<1>2. TypeAt /\ ResidueInv /\ [Next]_vars => (TypeAt /\ ResidueInv)'
  BY TypeAtNext, ResidueNext
<1>3. ResidueInv => ResidueBounded
  BY DEF ResidueInv, Residue, ResidueBounded
<1> QED
  BY <1>1, <1>2, <1>3, PTL DEF Spec

-----------------------------------------------------------------------------
(* Outcome.  The loops count what they have done: at the entry i, what     *)
(* they are for stands before i that many times.                           *)
ContentPlaces(b) == {j \in DOMAIN b : IsContent(b[j])}
TicketPlaces(b) == {j \in DOMAIN b : IsTicket(b[j])}
Before(S, k) == {j \in S : j < k}

LEMMA PlacesFinite ==
  ASSUME NEW b \in Containers
  PROVE  /\ IsFiniteSet(ContentPlaces(b)) /\ ContentPlaces(b) \subseteq 1..Len(b)
         /\ IsFiniteSet(TicketPlaces(b)) /\ TicketPlaces(b) \subseteq 1..Len(b)
         /\ Cardinality(ContentPlaces(b)) \in Nat /\ Cardinality(TicketPlaces(b)) \in Nat
<1>1. IsFiniteSet(1..Len(b))
  BY ContainerShape, FS_Interval
<1>2. ContentPlaces(b) \subseteq 1..Len(b) /\ TicketPlaces(b) \subseteq 1..Len(b)
  BY ContainerShape DEF ContentPlaces, TicketPlaces
<1>3. IsFiniteSet(ContentPlaces(b)) /\ IsFiniteSet(TicketPlaces(b))
  BY <1>1, <1>2, FS_Subset
<1> QED
  BY <1>2, <1>3, FS_CardinalityType

(* How a count grows by one turn, starts at none and ends at all; at one   *)
(* of the places counted, it is not yet all.                               *)
LEMMA CountBefore ==
  ASSUME NEW n \in Nat, NEW S \in SUBSET (1..n), NEW k \in Nat \ {0}
  PROVE  /\ Cardinality(Before(S, k)) \in Nat /\ Cardinality(Before(S, 1)) = 0
         /\ Cardinality(Before(S, k + 1)) =
              IF k \in S THEN Cardinality(Before(S, k)) + 1 ELSE Cardinality(Before(S, k))
         /\ k \in S => Cardinality(Before(S, k)) < Cardinality(S)
         /\ k > n => Before(S, k) = S
<1>0. \A j \in S : j \in Int /\ 1 <= j /\ j <= n
  OBVIOUS
<1>1. IsFiniteSet(S)
  <2>1. IsFiniteSet(1..n)
    BY FS_Interval
  <2> QED
    BY <2>1, FS_Subset
<1>2. Before(S, k) \in SUBSET S
  BY DEF Before
<1>3. IsFiniteSet(Before(S, k)) /\ Cardinality(Before(S, k)) \in Nat
  BY <1>1, <1>2, FS_Subset, FS_CardinalityType
<1>4. Before(S, 1) = {}
  <2>1. \A j \in S : ~(j < 1)
    BY <1>0
  <2> QED
    BY <2>1 DEF Before
<1>5. CASE k \in S
  <2>1. Before(S, k + 1) = Before(S, k) \cup {k} /\ k \notin Before(S, k)
    <3>1. \A j \in S : j < k + 1 <=> j < k \/ j = k
      BY <1>0
    <3>2. ~(k < k)
      OBVIOUS
    <3> QED
      BY <1>5, <3>1, <3>2, Zenon DEF Before
  <2>2. Cardinality(Before(S, k + 1)) = Cardinality(Before(S, k)) + 1
    BY <1>3, <2>1, FS_AddElement
  <2>3. /\ Cardinality(Before(S, k)) <= Cardinality(S)
        /\ Cardinality(S) # Cardinality(Before(S, k))
    BY <1>1, <1>2, <1>5, <2>1, FS_Subset
  <2>4. Cardinality(S) \in Nat
    BY <1>1, FS_CardinalityType
  <2>5. Cardinality(Before(S, k)) < Cardinality(S)
    BY <1>3, <2>3, <2>4
  <2>6. k <= n
    BY <1>5
  <2> QED
    BY <1>3, <1>4, <1>5, <2>2, <2>5, <2>6, FS_EmptySet
<1>6. CASE k \notin S
  <2>1. Before(S, k + 1) = Before(S, k)
    <3>1. \A j \in S : j < k + 1 <=> j < k \/ j = k
      BY <1>0
    <3> QED
      BY <1>6, <3>1, Zenon DEF Before
  <2>2. k > n => Before(S, k) = S
    <3>1. k > n => \A j \in S : j < k
      BY <1>0
    <3> QED
      BY <3>1, Zenon DEF Before
  <2> QED
    BY <1>3, <1>4, <1>6, <2>1, <2>2, FS_EmptySet
<1> QED
  BY <1>5, <1>6

(* The first meta entry, when it is a Meta NCA, has its meta in S; its key *)
(* is the one the backend keeps.                                           *)
FirstMetaIn(S) ==
  \A j \in DOMAIN nsp :
    nsp[j].kind = "cnmt.nca" /\ (\A k \in 1..j - 1 : ~IsMeta(nsp[k])) => NcmMeta(nsp[j]) \in S
FirstMetaKept ==
  \A j \in DOMAIN nsp :
    nsp[j].kind = "cnmt.nca" /\ (\A k \in 1..j - 1 : ~IsMeta(nsp[k]))
      => metaKey = NcmMeta(nsp[j]).key

(* What must be true of the counts, and of the console, for the phase p to *)
(* be the one that failed.                                                 *)
EverythingLaid ==
  /\ result.ncas = Cardinality(ContentPlaces(nsp)) /\ ContentsLaid(nsp)
  /\ result.tiks = Cardinality(TicketPlaces(nsp)) /\ TicketsLaid(nsp)
Reached(p) ==
  CASE p = "parse" -> result.ncas = 0 /\ result.tiks = 0
    [] p = "write-nca" -> result.ncas < Cardinality(ContentPlaces(nsp)) /\ result.tiks = 0
    [] p = "import-ticket" ->
         /\ result.ncas = Cardinality(ContentPlaces(nsp))
         /\ result.tiks < Cardinality(TicketPlaces(nsp)) /\ ContentsLaid(nsp)
    [] p = "content-meta" -> EverythingLaid /\ metaKey = NoKey
    [] p = "commit" -> EverythingLaid /\ FirstMetaKept

(* Which phases an attempt has begun follows from where it stands, and     *)
(* until it has committed it finds the database and the records as they    *)
(* were.  At the fail label the last phase begun is the one noted.         *)
BegunSoFar ==
  /\ pc = "parse" => begun = {}
  /\ pc = "open" => begun = {"parse"}
  /\ pc \in {"nca", "gen", "create", "stream", "register"} => begun \subseteq {"parse", "write-nca"}
  /\ pc \in {"gen", "create", "stream", "register"} => "write-nca" \in begun
  /\ pc \in {"tik", "meta"} => begun \subseteq {"parse", "write-nca", "import-ticket"}
  /\ pc = "commit" => "commit" \notin begun
FoundStays == pc \notin {"idle", "push", "close"} => found = <<committed, records>>
BlameInv == pc = "fail" => phase \in begun /\ begun \cap After(phase) = {}

CountsContents ==
  /\ pc \in {"parse", "open"} => result.ncas = 0 /\ phase = "parse"
  /\ pc \in {"nca", "gen", "create", "stream", "register"} =>
       result.ncas = Cardinality(Before(ContentPlaces(nsp), i))
  /\ pc \in {"tik", "meta", "commit", "push", "close"} =>
       result.ncas = Cardinality(ContentPlaces(nsp))
CountsTickets ==
  /\ pc \in {"parse", "open", "nca", "gen", "create", "stream", "register"} =>
       result.tiks = 0
  /\ pc = "tik" => result.tiks = Cardinality(Before(TicketPlaces(nsp), i))
  /\ pc \in {"meta", "commit", "push", "close"} =>
       result.tiks = Cardinality(TicketPlaces(nsp))
PhaseNoted ==
  /\ pc \in {"gen", "create", "stream", "register"} => phase = "write-nca"
  /\ pc = "commit" => phase = "commit"
  /\ pc = "fail" => Reached(phase)

(* No meta is set before the first meta entry, and the key of that one is  *)
(* kept until the commit.                                                  *)
KeyLater == pc \notin {"idle", "commit", "push", "close", "fail"} => metaKey = NoKey
MetaFollowed ==
  /\ pc = "meta" => \A k \in DOMAIN nsp : k < i => ~IsMeta(nsp[k])
  /\ pc = "commit" => FirstMetaIn(staged) /\ FirstMetaKept
  /\ pc \in {"push", "close"} => FirstMetaIn(committed)

OutcomeInv == /\ CountsContents /\ CountsTickets /\ PhaseNoted /\ MetaFollowed
              /\ BegunSoFar /\ FoundStays /\ BlameInv /\ KeyLater
              /\ FailureNamesStep /\ OkMeansInstalled

(* The counts as the loops see them: CountBefore at the entry i of nsp.    *)
LEMMA LoopCounts ==
  ASSUME FrameOK
  PROVE  /\ \A S \in {ContentPlaces(nsp), TicketPlaces(nsp)} :
              /\ Cardinality(Before(S, i)) \in Nat /\ Cardinality(Before(S, 1)) = 0
              /\ Cardinality(Before(S, i + 1)) =
                   IF i \in S THEN Cardinality(Before(S, i)) + 1 ELSE Cardinality(Before(S, i))
              /\ i \in S => Cardinality(Before(S, i)) < Cardinality(S)
              /\ i > Len(nsp) => Before(S, i) = S
         /\ i <= Len(nsp) => /\ i \in ContentPlaces(nsp) <=> IsContent(Entry)
                             /\ i \in TicketPlaces(nsp) <=> IsTicket(Entry)
<1>1. nsp \in Containers /\ i \in Nat \ {0}
  BY DEF FrameOK
<1>2. DOMAIN nsp = 1..Len(nsp) /\ Len(nsp) \in Nat
  BY <1>1, ContainerShape
<1>3. ASSUME NEW S \in {ContentPlaces(nsp), TicketPlaces(nsp)}
      PROVE  /\ Cardinality(Before(S, i)) \in Nat /\ Cardinality(Before(S, 1)) = 0
             /\ Cardinality(Before(S, i + 1)) =
                  IF i \in S THEN Cardinality(Before(S, i)) + 1 ELSE Cardinality(Before(S, i))
             /\ i \in S => Cardinality(Before(S, i)) < Cardinality(S)
             /\ i > Len(nsp) => Before(S, i) = S
  <2>1. PICK n \in Nat : n = Len(nsp)
    BY <1>2
  <2>2. S \in SUBSET (1..n)
    BY <1>1, <2>1, PlacesFinite
  <2>3. PICK k \in Nat \ {0} : k = i
    BY <1>1
  <2>4. /\ Cardinality(Before(S, k)) \in Nat /\ Cardinality(Before(S, 1)) = 0
        /\ Cardinality(Before(S, k + 1)) =
             IF k \in S THEN Cardinality(Before(S, k)) + 1 ELSE Cardinality(Before(S, k))
        /\ k \in S => Cardinality(Before(S, k)) < Cardinality(S)
        /\ k > n => Before(S, k) = S
    BY <2>2, CountBefore
  <2> QED
    BY <2>1, <2>3, <2>4
<1>4. i <= Len(nsp) => /\ i \in ContentPlaces(nsp) <=> IsContent(Entry)
                       /\ i \in TicketPlaces(nsp) <=> IsTicket(Entry)
  BY <1>1, <1>2 DEF ContentPlaces, TicketPlaces, Entry
<1> QED
  BY <1>3, <1>4

LEMMA CountsContentsNext == OrderInv /\ CountsContents /\ [Next]_vars => CountsContents'
<1> SUFFICES ASSUME OrderInv, CountsContents, [Next]_vars PROVE CountsContents'
  OBVIOUS
<1> DEFINE S == ContentPlaces(nsp)
<1>0. FrameOK /\ AtContent /\ AtStart
  BY DEF OrderInv, TypeInv, TypeOK
<1>1. /\ Cardinality(Before(S, i)) \in Nat /\ Cardinality(Before(S, 1)) = 0
      /\ Cardinality(Before(S, i + 1)) =
           IF i \in S THEN Cardinality(Before(S, i)) + 1 ELSE Cardinality(Before(S, i))
      /\ i > Len(nsp) => Before(S, i) = S
      /\ i <= Len(nsp) => (i \in S <=> IsContent(Entry))
  BY <1>0, LoopCounts
<1>2. pc \in PCs /\ result.ncas \in Nat /\ nsp \in Containers /\ i \in Nat
      /\ Len(nsp) \in Nat
  BY <1>0, ContainerShape DEF FrameOK
<1>3. nsp' = nsp => S' = S
  BY DEF ContentPlaces
<1> HIDE DEF S
<1> USE DEF CountsContents
<1>4. CASE pc' \in {"idle", "fail"}
  BY <1>4
<1>5. CASE Start
  BY <1>5 DEF Start
<1>6. CASE ParseContainer
  BY <1>6 DEF ParseContainer
<1>7. CASE OpenStorage /\ pc' = "nca"
  BY <1>0, <1>1, <1>3, <1>7 DEF OpenStorage, AtStart, S
<1>8. CASE NextNca
  BY <1>1, <1>2, <1>3, <1>8 DEF NextNca, S
<1>9. CASE /\ UNCHANGED <<nsp, i, result>>
           /\ pc \in {"gen", "create", "stream"}
           /\ pc' \in {"create", "stream", "register", "fail"}
  BY <1>3, <1>9 DEF S
<1>10. CASE RegisterContent /\ pc' = "nca"
  <2>1. pc = "register" /\ i' = i + 1 /\ nsp' = nsp /\ result'.ncas = result.ncas + 1
    BY <1>0, <1>10 DEF RegisterContent, FrameOK
  <2>2. i \in S
    BY <1>0, <1>1, <2>1 DEF AtContent
  <2>3. result'.ncas = Cardinality(Before(S, i'))
    BY <1>1, <2>1, <2>2 DEF S
  <2> QED
    BY <1>3, <1>10, <2>1, <2>3 DEF S
<1>11. CASE ImportTicket
  <2>1. result'.ncas = result.ncas /\ nsp' = nsp /\ pc = "tik" /\ pc' \in {"tik", "meta", "fail"}
    BY <1>0, <1>11 DEF ImportTicket, TicketRefused, FrameOK
  <2> QED
    BY <1>3, <2>1 DEF S
<1>12. CASE SetContentMeta \/ Commit \/ PushApplicationRecord
  BY <1>3, <1>12 DEF SetContentMeta, Commit, CommitRefused, PushApplicationRecord, S
<1>13. CASE UNCHANGED vars
  BY <1>3, <1>13 DEF vars, frame, S
<1>14. ASSUME GeneratePlaceHolderId \/ CreatePlaceHolder \/ StreamChunk \/ ReconstructNcz
       PROVE  /\ UNCHANGED <<nsp, i, result>>
              /\ pc \in {"gen", "create", "stream"}
              /\ pc' \in {"create", "stream", "register", "fail"}
  BY <1>14, StreamStep DEF GeneratePlaceHolderId, CreatePlaceHolder, StreamChunk, ReconstructNcz
<1> QED
  BY <1>4, <1>5, <1>6, <1>7, <1>8, <1>9, <1>10, <1>11, <1>12, <1>13, <1>14
     DEF Next, Step, OpenStorage, RegisterContent, Finish, Fail, Crash

LEMMA CountsTicketsNext == OrderInv /\ CountsTickets /\ [Next]_vars => CountsTickets'
<1> SUFFICES ASSUME OrderInv, CountsTickets, [Next]_vars PROVE CountsTickets'
  OBVIOUS
<1> DEFINE S == TicketPlaces(nsp)
<1>0. FrameOK
  BY DEF OrderInv, TypeInv, TypeOK
<1>1. /\ Cardinality(Before(S, i)) \in Nat /\ Cardinality(Before(S, 1)) = 0
      /\ Cardinality(Before(S, i + 1)) =
           IF i \in S THEN Cardinality(Before(S, i)) + 1 ELSE Cardinality(Before(S, i))
      /\ i > Len(nsp) => Before(S, i) = S
      /\ i <= Len(nsp) => (i \in S <=> IsTicket(Entry))
  BY <1>0, LoopCounts
<1>2. pc \in PCs /\ result.tiks \in Nat /\ i \in Nat /\ Len(nsp) \in Nat
  BY <1>0, ContainerShape DEF FrameOK
<1>3. nsp' = nsp => S' = S
  BY DEF TicketPlaces
<1> HIDE DEF S
<1> USE DEF CountsTickets
<1>4. CASE pc' \in {"idle", "fail"}
  BY <1>4
<1>5. CASE Start
  BY <1>5 DEF Start
<1>6. CASE ParseContainer \/ OpenStorage
  BY <1>6 DEF ParseContainer, OpenStorage
<1>7. CASE NextNca
  BY <1>1, <1>3, <1>7 DEF NextNca, S
<1>8. CASE /\ UNCHANGED <<nsp, i, result>>
           /\ pc \in {"gen", "create", "stream"}
           /\ pc' \in {"create", "stream", "register", "fail"}
  BY <1>8
<1>9. CASE RegisterContent
  BY <1>0, <1>9 DEF RegisterContent, FrameOK
<1>10. CASE ImportTicket
  <2>1. nsp' = nsp /\ pc = "tik"
    BY <1>10 DEF ImportTicket
  <2>2. CASE i <= Len(nsp) /\ IsTicket(Entry) /\ pc' = "tik"
    <3>1. i' = i + 1 /\ result'.tiks = result.tiks + 1
      BY <1>0, <1>2, <1>10, <2>2 DEF ImportTicket, TicketRefused, FrameOK, IsTicket
    <3> QED
      BY <1>1, <1>2, <1>3, <2>1, <2>2, <3>1 DEF S
  <2>3. CASE i <= Len(nsp) /\ ~IsTicket(Entry)
    BY <1>1, <1>2, <1>3, <1>10, <2>1, <2>3 DEF ImportTicket, S
  <2>4. CASE i > Len(nsp)
    BY <1>1, <1>2, <1>3, <1>10, <2>1, <2>4 DEF ImportTicket, S
  <2> QED
    BY <1>2, <1>4, <1>10, <2>2, <2>3, <2>4 DEF ImportTicket, TicketRefused
<1>11. CASE SetContentMeta \/ Commit \/ PushApplicationRecord
  BY <1>3, <1>11 DEF SetContentMeta, Commit, CommitRefused, PushApplicationRecord, S
<1>12. CASE UNCHANGED vars
  BY <1>3, <1>12 DEF vars, frame, S
<1>13. ASSUME GeneratePlaceHolderId \/ CreatePlaceHolder \/ StreamChunk \/ ReconstructNcz
       PROVE  /\ UNCHANGED <<nsp, i, result>>
              /\ pc \in {"gen", "create", "stream"}
              /\ pc' \in {"create", "stream", "register", "fail"}
  BY <1>13, StreamStep DEF GeneratePlaceHolderId, CreatePlaceHolder, StreamChunk, ReconstructNcz
<1> QED
  BY <1>4, <1>5, <1>6, <1>7, <1>8, <1>9, <1>10, <1>11, <1>12, <1>13
     DEF Next, Step, Finish, Fail, Crash

(* A failure is noted where what comes before it is counted in full and    *)
(* what it interrupts is not.                                              *)
LEMMA PhaseNext ==
  /\ OrderInv /\ CountsContents /\ CountsTickets /\ PhaseNoted /\ KeyLater /\ MetaFollowed
  /\ [Next]_vars
  => PhaseNoted'
<1> SUFFICES ASSUME OrderInv, CountsContents, CountsTickets, PhaseNoted, KeyLater,
                    MetaFollowed, [Next]_vars
             PROVE  PhaseNoted'
  OBVIOUS
<1>0. FrameOK /\ AtContent /\ ContentsAll /\ TicketsAll
  BY DEF OrderInv, TypeInv, TypeOK
<1>1. /\ i \in ContentPlaces(nsp) =>
           Cardinality(Before(ContentPlaces(nsp), i)) < Cardinality(ContentPlaces(nsp))
      /\ i \in TicketPlaces(nsp) =>
           Cardinality(Before(TicketPlaces(nsp), i)) < Cardinality(TicketPlaces(nsp))
      /\ i <= Len(nsp) => /\ i \in ContentPlaces(nsp) <=> IsContent(Entry)
                          /\ i \in TicketPlaces(nsp) <=> IsTicket(Entry)
  BY <1>0, LoopCounts
<1>2. ASSUME pc' = "fail", pc # "fail"
      PROVE  /\ UNCHANGED <<nsp, i, result, metaKey, content, tickets>>
             /\ Reached(phase')
  <2>1. CASE ParseContainer \/ OpenStorage
    BY <1>2, <2>1
       DEF ParseContainer, OpenStorage, storage, backend, CountsContents, CountsTickets, Reached
  <2>2. CASE NextNca
    <3>1. /\ i <= Len(nsp) /\ IsContent(Entry) /\ phase' = "write-nca" /\ pc = "nca"
          /\ UNCHANGED <<nsp, i, result, metaKey, content, tickets>>
      BY <1>2, <2>2 DEF NextNca, Note, storage, backend
    <3> QED
      BY <1>1, <3>1 DEF CountsContents, CountsTickets, Reached
  <2>3. CASE /\ pc \in {"gen", "create", "stream", "register"}
             /\ UNCHANGED <<nsp, i, result, phase, metaKey, content, tickets>>
    <3>1. phase' = "write-nca" /\ i \in ContentPlaces(nsp)
      BY <1>0, <1>1, <2>3 DEF PhaseNoted, AtContent
    <3> QED
      BY <1>1, <2>3, <3>1 DEF CountsContents, CountsTickets, Reached
  <2>4. CASE ImportTicket
    <3>1. /\ i <= Len(nsp) /\ IsTicket(Entry) /\ phase' = "import-ticket" /\ pc = "tik"
          /\ UNCHANGED <<nsp, i, result, metaKey, content, tickets>>
      BY <1>2, <2>4 DEF ImportTicket, TicketRefused, Note, storage, backend
    <3> QED
      BY <1>0, <1>1, <3>1 DEF CountsContents, CountsTickets, ContentsAll, Reached
  <2>5. CASE SetContentMeta
    <3>1. /\ phase' = "content-meta" /\ pc = "meta"
          /\ UNCHANGED <<nsp, i, result, metaKey, content, tickets>>
      BY <1>2, <2>5 DEF SetContentMeta, Note, storage
    <3> QED
      BY <1>0, <3>1 DEF CountsContents, CountsTickets, ContentsAll, TicketsAll, KeyLater,
                        EverythingLaid, Reached
  <2>6. CASE Commit
    <3>1. /\ phase' = "commit" /\ pc = "commit"
          /\ UNCHANGED <<nsp, i, result, metaKey, content, tickets>>
      BY <1>2, <2>6 DEF Commit, CommitRefused, storage, backend, PhaseNoted
    <3>2. FirstMetaKept
      BY <3>1 DEF MetaFollowed
    <3> QED
      BY <1>0, <3>1, <3>2 DEF CountsContents, CountsTickets, ContentsAll, TicketsAll,
                              EverythingLaid, Reached
  <2>7. ASSUME \/ GeneratePlaceHolderId \/ CreatePlaceHolder \/ StreamChunk
               \/ ReconstructNcz \/ RegisterContent
        PROVE  /\ pc \in {"gen", "create", "stream", "register"}
               /\ UNCHANGED <<nsp, i, result, phase, metaKey, content, tickets>>
    BY <1>2, <2>7
       DEF GeneratePlaceHolderId, CreatePlaceHolder, StreamChunk, ReconstructNcz,
           RegisterContent, storage, backend
  <2> QED
    BY <1>2, <2>1, <2>2, <2>3, <2>4, <2>5, <2>6, <2>7
       DEF Next, Step, vars, frame, Start, PushApplicationRecord, Finish, Fail, Crash
<1>3. ASSUME pc' = "fail", pc = "fail"
      PROVE  UNCHANGED <<nsp, result, phase, metaKey, content, tickets>>
  BY <1>3
     DEF Next, Step, vars, frame, storage, backend, Start, ParseContainer, OpenStorage, NextNca,
         GeneratePlaceHolderId, CreatePlaceHolder, StreamChunk, ReconstructNcz,
         RegisterContent, ImportTicket, SetContentMeta, Commit, PushApplicationRecord,
         Finish, Fail, Crash
<1>4. pc' = "fail" => Reached(phase)'
  <2>1. CASE pc = "fail"
    BY <1>3, <2>1 DEF PhaseNoted, Reached, EverythingLaid, FirstMetaKept, ContentsLaid, TicketsLaid
  <2>2. CASE pc # "fail"
    BY <1>2, <2>2 DEF Reached, EverythingLaid, FirstMetaKept, ContentsLaid, TicketsLaid
  <2> QED
    BY <2>1, <2>2
<1>5. pc' \in {"gen", "create", "stream", "register"} => phase' = "write-nca"
  BY DEF PhaseNoted, Note, Next, Step, vars, frame, storage, Start, ParseContainer,
         OpenStorage, NextNca, GeneratePlaceHolderId, CreatePlaceHolder, StreamChunk,
         ReconstructNcz, RegisterContent, ImportTicket, TicketRefused, SetContentMeta,
         Commit, CommitRefused, PushApplicationRecord, Finish, Fail, Crash
<1>6. pc' = "commit" => phase' = "commit"
  BY StreamStep
     DEF PhaseNoted, Note, Next, Step, vars, frame, storage, Start, ParseContainer,
         OpenStorage, NextNca, GeneratePlaceHolderId, CreatePlaceHolder,
         RegisterContent, ImportTicket, TicketRefused, SetContentMeta, Commit, CommitRefused,
         PushApplicationRecord, Finish, Fail, Crash
<1> QED
  BY <1>4, <1>5, <1>6 DEF PhaseNoted

(* The first meta entry is met with none before it, its meta is staged,    *)
(* and the commit makes permanent what is staged.                          *)
LEMMA MetaFollowedNext == OrderInv /\ MetaFollowed /\ [Next]_vars => MetaFollowed'
<1> SUFFICES ASSUME OrderInv, MetaFollowed, [Next]_vars PROVE MetaFollowed'
  OBVIOUS
<1>0. FrameOK
  BY DEF OrderInv, TypeInv, TypeOK
<1>1. nsp \in Containers /\ DOMAIN nsp = 1..Len(nsp) /\ Len(nsp) \in Nat /\ i \in Nat \ {0}
  BY <1>0, ContainerShape DEF FrameOK
<1> USE DEF MetaFollowed, FirstMetaIn, FirstMetaKept
<1>2. CASE pc' \notin {"meta", "commit", "push", "close"}
  BY <1>2
<1>3. CASE ImportTicket
  BY <1>1, <1>3 DEF ImportTicket, TicketRefused
<1>4. CASE SetContentMeta
  <2>1. pc = "meta" /\ nsp' = nsp /\ \A k \in DOMAIN nsp : k < i => ~IsMeta(nsp[k])
    BY <1>4 DEF SetContentMeta
  <2>2. CASE pc' = "meta"
    BY <1>1, <1>4, <2>1, <2>2 DEF SetContentMeta, Entry
  <2>3. CASE pc' = "commit"
    <3> SUFFICES ASSUME NEW j \in DOMAIN nsp, nsp[j].kind = "cnmt.nca",
                        \A k \in 1..j - 1 : ~IsMeta(nsp[k])
                 PROVE  NcmMeta(nsp[j]) \in staged' /\ metaKey' = NcmMeta(nsp[j]).key
      BY <2>1, <2>3
    <3>1. IsMeta(nsp[j]) /\ j \in 1..Len(nsp) /\ ~(j < i)
      BY <1>1, <2>1 DEF IsMeta
    <3>2. i <= Len(nsp)
      BY <1>1, <3>1
    <3>3. \/ Entry.kind = "cnmt"
          \/ /\ Entry.kind = "cnmt.nca"
             /\ NcmMeta(Entry) \in staged' /\ metaKey' = NcmMeta(Entry).key
      <4>1. ReadsMeta(Entry) => Entry.kind = "cnmt.nca"
        BY DEF ReadsMeta
      <4>2. NcmMeta(Entry) \in {m \in staged : m.key # NcmMeta(Entry).key} \cup {NcmMeta(Entry)}
        OBVIOUS
      <4>3. /\ NothingToSet(Entry) => Entry.kind = "cnmt"
            /\ i \in Nat /\ Len(nsp) \in Nat
        BY <1>1 DEF NothingToSet
      <4>4. \/ NothingToSet(Entry)
            \/ /\ ReadsMeta(Entry)
               /\ staged' = {m \in staged : m.key # NcmMeta(Entry).key} \cup {NcmMeta(Entry)}
               /\ metaKey' = NcmMeta(Entry).key
        BY <1>4, <2>1, <2>3, <3>2, <4>3 DEF SetContentMeta
      <4> QED
        BY <4>1, <4>2, <4>3, <4>4
    <3>4. j = i
      <4>1. IsMeta(nsp[i])
        BY <3>3 DEF IsMeta, Entry
      <4> QED
        BY <1>1, <3>1, <3>2, <4>1
    <3> QED
      BY <3>3, <3>4 DEF Entry
  <2> QED
    BY <1>2, <1>4, <2>2, <2>3 DEF SetContentMeta
<1>5. CASE Commit
  <2>1. CASE pc' = "push"
    <3>1. nsp' = nsp /\ staged \subseteq committed' /\ pc = "commit"
      BY <1>5, <2>1 DEF Commit, CommitRefused
    <3> QED
      BY <2>1, <3>1
  <2> QED
    BY <1>2, <1>5, <2>1 DEF Commit, CommitRefused
<1>6. CASE PushApplicationRecord
  BY <1>6 DEF PushApplicationRecord
<1>7. CASE UNCHANGED vars
  BY <1>7 DEF vars, frame, backend, metas
<1> QED
  BY <1>2, <1>3, <1>4, <1>5, <1>6, <1>7, StreamStep
     DEF Next, Step, Start, ParseContainer, OpenStorage, NextNca, GeneratePlaceHolderId,
         CreatePlaceHolder, RegisterContent, Finish, Fail, Crash

(* Between installs nothing that the two statements speak of changes.      *)
LEMMA IdleStays ==
  ASSUME [Next]_vars, pc = "idle", pc' = "idle"
  PROVE  UNCHANGED <<nsp, result, metaKey, content, tickets, committed, records, begun, found>>
  BY DEF Next, Step, vars, frame, backend, storage, metas, history, Start, ParseContainer, OpenStorage, NextNca,
         GeneratePlaceHolderId, CreatePlaceHolder, StreamChunk, ReconstructNcz,
         RegisterContent, ImportTicket, SetContentMeta, Commit, PushApplicationRecord,
         Finish, Fail, Crash

(* Each phase is begun where the code stands in it, and committed and      *)
(* records change only past the commit.                                    *)
LEMMA BegunNext == BegunSoFar /\ [Next]_vars => BegunSoFar'
<1> SUFFICES ASSUME BegunSoFar, [Next]_vars PROVE BegunSoFar'
  OBVIOUS
<1> USE DEF BegunSoFar
<1>1. CASE UNCHANGED begun
  BY <1>1, StreamStep
     DEF Next, Step, vars, frame, Start, ParseContainer, OpenStorage, NextNca, Begin,
         GeneratePlaceHolderId, CreatePlaceHolder, RegisterContent, ImportTicket, TicketRefused,
         SetContentMeta, Commit, CommitRefused, PushApplicationRecord, Finish, Fail, Crash
<1>2. CASE Start
  BY <1>2 DEF Start
<1>3. CASE ParseContainer
  BY <1>3 DEF ParseContainer, Begin
<1>4. CASE NextNca
  BY <1>4 DEF NextNca, Begin, history
<1>5. CASE ImportTicket
  BY <1>5 DEF ImportTicket, TicketRefused, Begin, history
<1>6. CASE SetContentMeta
  BY <1>6 DEF SetContentMeta, Begin, history
<1>7. CASE Commit
  BY <1>7 DEF Commit, CommitRefused
<1> QED
  BY <1>1, <1>2, <1>3, <1>4, <1>5, <1>6, <1>7
     DEF Next, Step, vars, history, OpenStorage, GeneratePlaceHolderId, CreatePlaceHolder,
         StreamChunk, ReconstructNcz, RegisterContent, PushApplicationRecord, Finish, Fail, Crash

LEMMA FoundNext == FoundStays /\ [Next]_vars => FoundStays'
<1> SUFFICES ASSUME FoundStays, [Next]_vars PROVE FoundStays'
  OBVIOUS
<1> USE DEF FoundStays
<1>1. CASE Start
  BY <1>1 DEF Start, metas
<1>2. CASE Commit
  BY <1>2 DEF Commit, CommitRefused, Begin
<1>3. CASE PushApplicationRecord \/ Finish \/ Fail \/ Crash
  BY <1>3 DEF PushApplicationRecord, Finish, Fail, Crash
<1>4. CASE NextNca \/ ImportTicket \/ SetContentMeta \/ ParseContainer
  BY <1>4 DEF NextNca, ImportTicket, SetContentMeta, ParseContainer, Begin, history, metas
<1>5. CASE OpenStorage \/ GeneratePlaceHolderId \/ CreatePlaceHolder \/ RegisterContent
  BY <1>5 DEF OpenStorage, GeneratePlaceHolderId, CreatePlaceHolder, RegisterContent, history, metas
<1>6. CASE StreamChunk \/ ReconstructNcz
  BY <1>6, StreamStep DEF StreamChunk, ReconstructNcz, history, metas
<1>7. CASE UNCHANGED vars
  BY <1>7 DEF vars, frame, metas, history
<1> QED
  BY <1>1, <1>2, <1>3, <1>4, <1>5, <1>6, <1>7 DEF Next, Step

LEMMA BlameNext == BegunSoFar /\ PhaseNoted /\ CountsContents /\ BlameInv /\ [Next]_vars => BlameInv'
<1> SUFFICES ASSUME BegunSoFar, PhaseNoted, CountsContents, BlameInv, [Next]_vars, pc' = "fail"
             PROVE  phase' \in begun' /\ begun' \cap After(phase') = {}
  BY DEF BlameInv
<1>1. CASE ParseContainer \/ OpenStorage
  <2>1. begun' = {"parse"} /\ phase' = "parse"
    BY <1>1 DEF ParseContainer, OpenStorage, Begin, history, BegunSoFar, CountsContents
  <2> QED
    BY <2>1 DEF After
<1>2. CASE NextNca
  <2>1. begun' \subseteq {"parse", "write-nca"} /\ "write-nca" \in begun' /\ phase' = "write-nca"
    BY <1>2 DEF NextNca, Note, Begin, BegunSoFar
  <2> QED
    BY <2>1 DEF After
<1>3. CASE GeneratePlaceHolderId \/ CreatePlaceHolder \/ StreamChunk \/ ReconstructNcz \/ RegisterContent
  <2>1. pc \in {"gen", "create", "stream", "register"} /\ UNCHANGED <<begun, phase>>
    BY <1>3
       DEF GeneratePlaceHolderId, CreatePlaceHolder, StreamChunk, ReconstructNcz,
           RegisterContent, history
  <2>2. begun' \subseteq {"parse", "write-nca"} /\ "write-nca" \in begun' /\ phase' = "write-nca"
    BY <2>1 DEF BegunSoFar, PhaseNoted
  <2> QED
    BY <2>2 DEF After
<1>4. CASE ImportTicket
  <2>1. /\ begun' \subseteq {"parse", "write-nca", "import-ticket"}
        /\ "import-ticket" \in begun' /\ phase' = "import-ticket"
    BY <1>4 DEF ImportTicket, TicketRefused, Note, Begin, BegunSoFar
  <2> QED
    BY <2>1 DEF After
<1>5. CASE SetContentMeta
  <2>1. /\ begun' \subseteq {"parse", "write-nca", "import-ticket", "content-meta"}
        /\ "content-meta" \in begun' /\ phase' = "content-meta"
    BY <1>5 DEF SetContentMeta, Note, Begin, BegunSoFar
  <2> QED
    BY <2>1 DEF After
<1>6. CASE Commit
  <2>1. "commit" \in begun' /\ phase' = "commit"
    BY <1>6 DEF Commit, Begin, PhaseNoted
  <2> QED
    BY <2>1 DEF After
<1>7. CASE UNCHANGED vars
  BY <1>7 DEF vars, frame, history, BlameInv
<1> QED
  BY <1>1, <1>2, <1>3, <1>4, <1>5, <1>6, <1>7
     DEF Next, Step, Start, PushApplicationRecord, Finish, Fail, Crash

LEMMA KeyLaterNext == KeyLater /\ [Next]_vars => KeyLater'
<1> SUFFICES ASSUME KeyLater, [Next]_vars PROVE KeyLater'
  OBVIOUS
<1> USE DEF KeyLater
<1>1. CASE Start
  BY <1>1 DEF Start
<1>2. CASE ParseContainer \/ OpenStorage \/ NextNca \/ GeneratePlaceHolderId \/ CreatePlaceHolder
  BY <1>2 DEF ParseContainer, OpenStorage, NextNca, GeneratePlaceHolderId, CreatePlaceHolder, backend
<1>3. CASE StreamChunk \/ ReconstructNcz
  BY <1>3, StreamStep DEF StreamChunk, ReconstructNcz, backend
<1>4. CASE RegisterContent \/ ImportTicket
  BY <1>4 DEF RegisterContent, ImportTicket, TicketRefused, backend
<1>5. CASE SetContentMeta
  BY <1>5 DEF SetContentMeta
<1>6. CASE Commit \/ PushApplicationRecord \/ Finish \/ Fail \/ Crash
  BY <1>6 DEF Commit, CommitRefused, PushApplicationRecord, Finish, Fail, Crash
<1>7. CASE UNCHANGED vars
  BY <1>7 DEF vars, frame, backend
<1> QED
  BY <1>1, <1>2, <1>3, <1>4, <1>5, <1>6, <1>7 DEF Next, Step

LEMMA FailureNext ==
  FrameOK /\ PhaseNoted /\ FoundStays /\ BlameInv /\ FailureNamesStep /\ [Next]_vars
  => FailureNamesStep'
<1> SUFFICES ASSUME FrameOK, PhaseNoted, FoundStays, BlameInv, FailureNamesStep, [Next]_vars
             PROVE  FailureNamesStep'
  OBVIOUS
<1> USE DEF FailureNamesStep, ContentPlaces, TicketPlaces, ContentsLaid, TicketsLaid
<1>1. CASE pc = "idle"
  <2>1. CASE pc' = "idle"
    <3>1. UNCHANGED <<nsp, result, metaKey, content, tickets, committed, records, begun, found>>
      BY <1>1, <2>1, IdleStays
    <3> QED
      BY <1>1, <2>1, <3>1
  <2> QED
    BY <2>1
<1>2. CASE Fail
  <2>1. /\ result'.failedPhase = phase /\ result'.ncas = result.ncas
        /\ result'.tiks = result.tiks
        /\ UNCHANGED <<nsp, metaKey, content, tickets, committed, records, begun, found>>
    BY <1>2 DEF Fail, FrameOK, storage
  <2>2. Reached(phase) /\ phase \in Phases
    BY <1>2 DEF Fail, PhaseNoted, FrameOK
  <2>3. found = <<committed, records>> /\ phase \in begun /\ begun \cap After(phase) = {}
    BY <1>2 DEF Fail, FoundStays, BlameInv
  <2>4. (found = <<committed, records>>)'
    BY <2>1, <2>3
  <2>5. phase = result'.failedPhase /\ phase \in begun' /\ begun' \cap After(phase) = {}
    BY <2>1, <2>3
  <2> QED
    BY <2>1, <2>2, <2>4, <2>5 DEF Reached, EverythingLaid, FirstMetaKept
<1>3. CASE Finish \/ Crash
  BY <1>3 DEF Finish, Crash, FrameOK
<1>4. CASE pc' # "idle"
  BY <1>4
<1> QED
  BY <1>1, <1>2, <1>3, <1>4, StreamStep
     DEF Next, Step, vars, frame, Start, ParseContainer, OpenStorage, NextNca,
         GeneratePlaceHolderId, CreatePlaceHolder, RegisterContent, ImportTicket,
         TicketRefused, SetContentMeta, Commit, CommitRefused, PushApplicationRecord

LEMMA OkNext ==
  /\ OrderInv /\ CountsContents /\ CountsTickets /\ MetaFollowed
  /\ OkMeansInstalled /\ [Next]_vars
  => OkMeansInstalled'
<1> SUFFICES ASSUME OrderInv, CountsContents, CountsTickets, MetaFollowed,
                    OkMeansInstalled, [Next]_vars
             PROVE  OkMeansInstalled'
  OBVIOUS
<1>0. FrameOK /\ ContentsAll /\ TicketsAll
  BY DEF OrderInv, TypeInv, TypeOK
<1> USE DEF OkMeansInstalled, ContentPlaces, TicketPlaces, ContentsLaid, TicketsLaid
<1>1. CASE pc = "idle"
  BY <1>1, IdleStays
<1>2. CASE Finish
  <2>1. /\ result'.ncas = result.ncas /\ result'.tiks = result.tiks /\ pc = "close"
        /\ UNCHANGED <<nsp, content, tickets, committed>>
    BY <1>0, <1>2 DEF Finish, FrameOK, storage
  <2>2. FirstMetaIn(committed)
    BY <2>1 DEF MetaFollowed
  <2> QED
    BY <1>0, <2>1, <2>2 DEF CountsContents, CountsTickets, ContentsAll, TicketsAll, FirstMetaIn
<1>3. CASE Fail \/ Crash
  BY <1>0, <1>3 DEF Fail, Crash, FrameOK
<1>4. CASE pc' # "idle"
  BY <1>4
<1> QED
  BY <1>1, <1>2, <1>3, <1>4, StreamStep
     DEF Next, Step, vars, frame, Start, ParseContainer, OpenStorage, NextNca,
         GeneratePlaceHolderId, CreatePlaceHolder, RegisterContent, ImportTicket,
         TicketRefused, SetContentMeta, Commit, CommitRefused, PushApplicationRecord

LEMMA OutcomeInit == Init => OutcomeInv
  BY DEF Init, OutcomeInv, CountsContents, CountsTickets, PhaseNoted, MetaFollowed,
         BegunSoFar, FoundStays, BlameInv, KeyLater, FailureNamesStep, OkMeansInstalled

LEMMA OutcomeNext == OrderInv /\ OutcomeInv /\ [Next]_vars => OutcomeInv'
  BY CountsContentsNext, CountsTicketsNext, PhaseNext, MetaFollowedNext, BegunNext,
     FoundNext, BlameNext, KeyLaterNext, FailureNext, OkNext
     DEF OutcomeInv, OrderInv, TypeInv, TypeOK

(* The phase an InstallResult blames is the one that failed: what comes    *)
(* before it was done for every entry, no operation that comes after it    *)
(* was begun, and the database and the records are as they were found, for *)
(* every container (installNsp's fail label and the phase notes).          *)
THEOREM FailureNamesStepAlways == Spec => []FailureNamesStep
<1>1. OutcomeInv => FailureNamesStep
  BY DEF OutcomeInv
<1> QED
  BY <1>1, OrderInit, OrderNext, OutcomeInit, OutcomeNext, PTL DEF Spec

(* ok is returned only for a container whose contents are all registered   *)
(* and counted, whose tickets are all imported and counted, and the meta   *)
(* of whose first Meta NCA, if that is its first meta entry, is committed. *)
THEOREM OkMeansInstalledAlways == Spec => []OkMeansInstalled
<1>1. OutcomeInv => OkMeansInstalled
  BY DEF OutcomeInv
<1> QED
  BY <1>1, OrderInit, OrderNext, OutcomeInit, OutcomeNext, PTL DEF Spec

=============================================================================
