------------------------------ MODULE Installer ------------------------------
(***************************************************************************)
(* The NSP install sequence of open-dbi (install/installer.cpp) running    *)
(* over NcmBackend (install/ncm_backend.cpp), with the parts of the        *)
(* console's ncm, es and ns services that the sequence reads and changes.  *)
(*                                                                         *)
(* The process holds the installer's locals and the backend's handles and  *)
(* loses them in a crash.  placeholders, content, staged, committed,       *)
(* tickets and records belong to the services and outlive the process.     *)
(* Every backend call may fail and every read of the source may be short   *)
(* or return nothing.  The user may start MaxAttempts installs, of the     *)
(* same container or of different ones.                                    *)
(***************************************************************************)
EXTENDS Container

CONSTANTS PlaceHolderIds,   \* ids ncm can hand out
          Chunk,            \* units per read of streamIntoPlaceHolder
          MaxAttempts       \* bound on the installs of one behaviour

ASSUME ChunkAssumption == Chunk \in Nat \ {0}
ASSUME MaxAttemptsAssumption == MaxAttempts \in Nat

(* A unit of a placeholder that nothing was written to. *)
Blank == -1

Phases == {"parse", "write-nca", "import-ticket", "content-meta", "commit"}

(* The phases that come after p. *)
After(p) ==
  CASE p = "parse" -> Phases \ {"parse"}
    [] p = "write-nca" -> {"import-ticket", "content-meta", "commit"}
    [] p = "import-ticket" -> {"content-meta", "commit"}
    [] p = "content-meta" -> {"commit"}
    [] p = "commit" -> {}

VARIABLES
  pc,            \* where installNsp stands
  nsp,           \* the container being installed
  keyset,        \* keyset_: the keys of prod.keys, or none
  i,             \* the entry the current loop is at
  cur,           \* ph, the placeholder of the current NCA
  written,       \* units written to it so far
  phase,         \* the phase last noted
  result,        \* InstallResult
  handles,       \* cs_, db_ and open_, which change together
  ncmRefs,       \* references the process holds on the ncm service
  metaKey,       \* metaId_, metaVer_ and metaType_
  placeholders,  \* ncm: placeholders on the storage
  content,       \* ncm: registered content
  staged,        \* ncm: metas set in the database and not yet committed
  committed,     \* ncm: metas in the committed database
  tickets,       \* es: rights ids with a ticket
  records,       \* ns: keys of the application records pushed
  attempts,      \* history: installs started
  lost,          \* history: installs that failed or crashed
  begun,         \* history: the phases whose work the attempt began
  found          \* history: committed and records as the attempt found them

frame   == <<pc, nsp, keyset, i, cur, written, phase, result>>
backend == <<handles, ncmRefs, metaKey>>
storage == <<placeholders, content>>
metas   == <<staged, committed, records>>
history == <<attempts, lost, begun, found>>
vars    == <<frame, backend, storage, metas, tickets, history>>

PCs == {"idle", "parse", "open", "nca", "gen", "create", "stream", "register",
        "tik", "meta", "commit", "push", "close", "fail"}

(* The entry the current loop is at. *)
Entry == nsp[i]

Init ==
  /\ pc = "idle" /\ nsp \in Containers /\ keyset \in Keysets
  /\ i = 1 /\ cur \in PlaceHolderIds /\ written = 0 /\ phase = "parse"
  /\ result = [status |-> "none", ncas |-> 0, tiks |-> 0, failedPhase |-> "parse"]
  /\ handles = "closed" /\ ncmRefs = 0 /\ metaKey = NoKey
  /\ placeholders = {} /\ content = {} /\ staged = {} /\ committed = {}
  /\ tickets = {} /\ records = {}
  /\ attempts = 0 /\ lost = 0
  /\ begun = {} /\ found = <<committed, records>>

-----------------------------------------------------------------------------
(* note(p, ...): the phase that fail would report from here on. *)
NoteAllButCommit(p) == phase' = IF p = "commit" THEN phase ELSE p
Note(p) == phase' = p

(* An operation that belongs to phase p is begun, whatever was noted. *)
Begin(p) == begun' = begun \cup {p} /\ UNCHANGED <<attempts, lost, found>>

(* The user starts an install: a new NcmBackend, Installer and result. *)
Start ==
  /\ pc = "idle" /\ attempts < MaxAttempts
  /\ pc' = "parse" /\ attempts' = attempts + 1
  /\ nsp' \in Containers /\ keyset' \in Keysets
  /\ i' = 1 /\ written' = 0 /\ phase' = "parse"
  /\ result' = [status |-> "running", ncas |-> 0, tiks |-> 0, failedPhase |-> "parse"]
  /\ handles' = "closed" /\ metaKey' = NoKey
  /\ begun' = {} /\ found' = <<committed, records>>
  /\ UNCHANGED <<cur, ncmRefs, storage, metas, tickets, lost>>

(* pfs.open: the directory is read, or it is short or malformed. *)
ParseContainer ==
  /\ pc = "parse"
  /\ pc' \in {"open", "fail"} /\ Begin("parse")
  /\ UNCHANGED <<nsp, keyset, i, cur, written, phase, result, backend,
                 storage, metas, tickets>>

(* NcmBackend::open.  When one of the two opens after ncmInitialize fails, *)
(* open_ stays false and the reference just taken is never given back.     *)
OpenStorage ==
  /\ pc = "open"
  /\ \/ /\ pc' = "fail"
        /\ UNCHANGED backend
     \/ /\ pc' = "fail"
        /\ ncmRefs' = ncmRefs + 1
        /\ UNCHANGED <<handles, metaKey>>
     \/ /\ pc' = "nca"
        /\ ncmRefs' = ncmRefs + 1 /\ handles' = "open"
        /\ UNCHANGED metaKey
  /\ UNCHANGED <<nsp, keyset, i, cur, written, phase, result, storage, metas,
                 tickets, history>>

(* The head of the content loop: skip, leave, or take up an NCA.  The size *)
(* of an .ncz comes from its section table, which may not be readable.     *)
NextNca ==
  /\ pc = "nca"
  /\ \/ /\ i > Len(nsp)
        /\ pc' = "tik" /\ i' = 1 /\ UNCHANGED <<phase, history>>
     \/ /\ i <= Len(nsp) /\ ~IsContent(Entry)
        /\ i' = i + 1 /\ UNCHANGED <<pc, phase, history>>
     \/ /\ i <= Len(nsp) /\ IsContent(Entry)
        /\ Entry.cid # BadName /\ Entry.size # 0
        /\ pc' = "gen" /\ Note("write-nca") /\ Begin("write-nca") /\ UNCHANGED i
     \/ /\ i <= Len(nsp) /\ IsContent(Entry)
        /\ Entry.cid = BadName \/ Entry.size = 0 \/ IsNcz(Entry)
        /\ pc' = "fail" /\ Note("write-nca") /\ Begin("write-nca") /\ UNCHANGED i
  /\ UNCHANGED <<nsp, keyset, cur, written, result, backend, storage, metas, tickets>>

(* generatePlaceHolderId: ncm hands out an id no placeholder has. *)
GeneratePlaceHolderId ==
  /\ pc = "gen"
  /\ \/ /\ pc' = "create"
        /\ cur' \in PlaceHolderIds /\ \A p \in placeholders : p.id # cur'
     \/ pc' = "fail" /\ UNCHANGED cur
  /\ UNCHANGED <<nsp, keyset, i, written, phase, result, backend, storage,
                 metas, tickets, history>>

CreatePlaceHolder ==
  /\ pc = "create"
  /\ \/ /\ pc' = "stream" /\ written' = 0
        /\ placeholders' = placeholders \cup
             {[id |-> cur, cid |-> Entry.cid, form |-> Entry.kind,
               data |-> [u \in 0..Entry.size - 1 |-> Blank]]}
     \/ pc' = "fail" /\ UNCHANGED <<written, placeholders>>
  /\ UNCHANGED <<nsp, keyset, i, cur, phase, result, backend, content, metas,
                 tickets, history>>

(* What one read of at most a chunk can bring when want units are left:    *)
(* fewer than asked for, and never nothing (an empty read is an error).    *)
Reads(want) == {n \in 1..Chunk : n <= want}

(* The source units from off on, as a read of n of them brings them. *)
SourceUnits(off, n) == [k \in 1..n |-> off + k - 1]

(* writePlaceHolder(ph, off, units): they go to off and what follows it.   *)
WriteAtStart(off, units) ==
  \E p \in placeholders :
    /\ p.id = cur
    /\ placeholders' = (placeholders \ {p}) \cup
         {[id |-> cur, cid |-> p.cid, form |-> p.form,
           data |-> [u \in DOMAIN p.data |->
             IF u + 1 \in DOMAIN units THEN units[u + 1] ELSE p.data[u]]]}
WritePlaceHolder(off, units) ==
  \E p \in placeholders :
    /\ p.id = cur
    /\ placeholders' = (placeholders \ {p}) \cup
         {[id |-> cur, cid |-> p.cid, form |-> p.form,
           data |-> [u \in DOMAIN p.data |->
             IF u - off + 1 \in DOMAIN units THEN units[u - off + 1] ELSE p.data[u]]]}

(* What was read at the offset reached is written there. *)
CountsAChunk(units) ==
  /\ written < Entry.size
  /\ WritePlaceHolder(written, units)
  /\ written' = written + Chunk
  /\ UNCHANGED pc
WriteOn(units) ==
  /\ written < Entry.size
  /\ WritePlaceHolder(written, units)
  /\ written' = written + Len(units)
  /\ UNCHANGED pc
GiveUp == pc' = "fail" /\ UNCHANGED <<written, placeholders>>

(* The loop runs until the whole size is written. *)
MoreWrittenThanSize == written > Entry.size
AllWritten == written >= Entry.size

(* streamIntoPlaceHolder: a chunk is read at the offset reached, the read  *)
(* may be short, and what was read is written; an empty read, or a write   *)
(* that fails, is an error.                                                *)
StreamChunk ==
  /\ pc = "stream" /\ IsNca(Entry)
  /\ \/ \E got \in Reads(Entry.size - written) : WriteOn(SourceUnits(written, got))
     \/ written < Entry.size /\ GiveUp
     \/ /\ AllWritten
        /\ pc' = "register"
        /\ UNCHANGED <<written, placeholders>>
  /\ UNCHANGED <<nsp, keyset, i, cur, phase, result, backend, content, metas,
                 tickets, history>>

(* nczReconstruct seen from the installer: ascending writes from offset 0, *)
(* the header (one unit here) before anything else.  It fails on a bad     *)
(* stream, an unreadable header or a failed write; once a read brings      *)
(* nothing it returns true with whatever was written.                      *)
ReconstructNcz ==
  /\ pc = "stream" /\ IsNcz(Entry)
  /\ \/ \E n \in Reads(Entry.size - written) : WriteOn(SourceUnits(written, n))
     \/ GiveUp
     \/ /\ written >= 1
        /\ pc' = "register"
        /\ UNCHANGED <<written, placeholders>>
  /\ UNCHANGED <<nsp, keyset, i, cur, phase, result, backend, content, metas,
                 tickets, history>>

(* registerContent: ncm turns the placeholder into the content of that id. *)
(* Over an id already registered, ncm may refuse or replace.               *)
RegisterContent ==
  /\ pc = "register"
  /\ \/ /\ pc' = "nca" /\ i' = i + 1
        /\ result' = [result EXCEPT !.ncas = @ + 1]
        /\ \E p \in placeholders :
             /\ p.id = cur
             /\ placeholders' = placeholders \ {p}
             /\ content' = {c \in content : c.cid # Entry.cid} \cup
                  {[cid |-> Entry.cid, form |-> p.form, data |-> p.data]}
     \/ pc' = "fail" /\ UNCHANGED <<i, result, storage>>
  /\ UNCHANGED <<nsp, keyset, cur, written, phase, backend, metas, tickets,
                 history>>

(* importTicket or the read before it fails. *)
TicketRefusalIgnored == i' = i + 1 /\ UNCHANGED <<pc, result, tickets>>
TicketRefused == pc' = "fail" /\ UNCHANGED <<i, result, tickets>>

(* One turn of the ticket loop: the whole ticket is read, then imported. *)
ImportTicket ==
  /\ pc = "tik"
  /\ \/ /\ i > Len(nsp)
        /\ pc' = "meta" /\ i' = 1 /\ UNCHANGED <<phase, result, tickets, history>>
     \/ /\ i <= Len(nsp) /\ ~IsTicket(Entry)
        /\ i' = i + 1 /\ UNCHANGED <<pc, phase, result, tickets, history>>
     \/ /\ i <= Len(nsp) /\ IsTicket(Entry)
        /\ Note("import-ticket") /\ Begin("import-ticket")
        /\ tickets' = tickets \cup {Entry.rights}
        /\ result' = [result EXCEPT !.tiks = @ + 1]
        /\ i' = i + 1 /\ UNCHANGED pc
     \/ /\ i <= Len(nsp) /\ IsTicket(Entry)
        /\ Note("import-ticket") /\ Begin("import-ticket")
        /\ TicketRefused
  /\ UNCHANGED <<nsp, keyset, cur, written, backend, storage, metas>>

(* A bare .cnmt sets no meta, whether there are keys or not. *)
NothingToSetOrNoKeys(e) == e.kind = "cnmt" \/ keyset = NoKeyset
NothingToSet(e) == e.kind = "cnmt"

(* The CNMT comes out of the Meta NCA, and a content meta can be built. *)
ReadsMeta(e) == e.kind = "cnmt.nca" /\ ExtractsCnmt(keyset, e.image) /\ HasMeta(e)

(* The content-meta loop stops at the first meta entry.  A bare .cnmt is   *)
(* read and left at that; a Meta NCA needs keys that open it, and the meta *)
(* built from its CNMT is set in the database.  The read or the set may    *)
(* fail, and fail it does when there are no such keys.                     *)
SetContentMeta ==
  /\ pc = "meta"
  /\ \/ /\ i > Len(nsp)
        /\ pc' = "commit" /\ Note("commit")
        /\ UNCHANGED <<i, staged, metaKey, history>>
     \/ /\ i <= Len(nsp) /\ ~IsMeta(Entry)
        /\ i' = i + 1 /\ UNCHANGED <<pc, phase, staged, metaKey, history>>
     \/ /\ i <= Len(nsp) /\ IsMeta(Entry) /\ NothingToSet(Entry)
        /\ Begin("content-meta")
        /\ pc' = "commit" /\ Note("commit")
        /\ UNCHANGED <<i, staged, metaKey>>
     \/ /\ i <= Len(nsp) /\ ReadsMeta(Entry)
        /\ Begin("content-meta")
        /\ staged' = {m \in staged : m.key # NcmMeta(Entry).key} \cup {NcmMeta(Entry)}
        /\ metaKey' = NcmMeta(Entry).key
        /\ pc' = "commit" /\ Note("commit") /\ UNCHANGED i
     \/ /\ i <= Len(nsp) /\ IsMeta(Entry)
        /\ Begin("content-meta")
        /\ pc' = "fail" /\ Note("content-meta")
        /\ UNCHANGED <<i, staged, metaKey>>
  /\ UNCHANGED <<nsp, keyset, cur, written, result, handles, ncmRefs, storage,
                 committed, records, tickets>>

(* The database commit fails. *)
CommitRefusalIgnored == pc' = "push" /\ UNCHANGED <<staged, committed>>
CommitRefused == pc' = "fail" /\ UNCHANGED <<staged, committed>>

(* NcmBackend::commit up to the database commit, which makes every staged  *)
(* meta permanent, whichever session set it.                               *)
Commit ==
  /\ pc = "commit" /\ Begin("commit")
  /\ \/ /\ pc' = "push" /\ staged' = {}
        /\ committed' = {m \in committed : \A s \in staged : s.key # m.key} \cup staged
     \/ CommitRefused
  /\ UNCHANGED <<nsp, keyset, i, cur, written, phase, result, backend, storage,
                 records, tickets>>

(* pushApplicationRecord: its failure is not an error of commit. *)
PushApplicationRecord ==
  /\ pc = "push" /\ pc' = "close"
  /\ records' \in {records, records \cup {metaKey}}
  /\ UNCHANGED <<nsp, keyset, i, cur, written, phase, result, backend, storage,
                 staged, committed, tickets, history>>

(* closeStorage: closes what is open.  A meta that was set and never       *)
(* committed stays in the service's memory or goes with the session.       *)
CloseWithoutExit ==
  /\ handles' = "closed" /\ UNCHANGED ncmRefs
  /\ staged' \in {staged, {}}
CloseAndAlwaysExit ==
  /\ handles' = "closed" /\ ncmRefs' = ncmRefs - 1
  /\ staged' \in {staged, {}}
CloseHandles ==
  /\ ncmRefs' = IF handles = "open" THEN ncmRefs - 1 ELSE ncmRefs
  /\ handles' = "closed"
  /\ staged' \in {staged, {}}

(* The end of installNsp. *)
Finish ==
  /\ pc = "close" /\ pc' = "idle"
  /\ result' = [result EXCEPT !.status = "ok"]
  /\ CloseHandles
  /\ UNCHANGED <<nsp, keyset, i, cur, written, phase, metaKey, storage,
                 committed, records, tickets, history>>

(* The fail label: the phase last noted is the one reported. *)
Fail ==
  /\ pc = "fail" /\ pc' = "idle"
  /\ result' = [result EXCEPT !.status = "failed", !.failedPhase = phase]
  /\ CloseHandles
  /\ lost' = lost + 1
  /\ UNCHANGED <<nsp, keyset, i, cur, written, phase, metaKey, storage,
                 committed, records, tickets, attempts, begun, found>>

(* The process dies in the middle of an install: its locals and handles go *)
(* and the services drop its references.                                   *)
Crash ==
  /\ pc # "idle" /\ pc' = "idle"
  /\ result' = [result EXCEPT !.status = "none"]
  /\ handles' = "closed" /\ ncmRefs' = 0
  /\ staged' \in {staged, {}}
  /\ lost' = lost + 1
  /\ UNCHANGED <<nsp, keyset, i, cur, written, phase, metaKey, storage,
                 committed, records, tickets, attempts, begun, found>>

(* The steps of installNsp itself. *)
Step ==
  \/ ParseContainer \/ OpenStorage
  \/ NextNca \/ GeneratePlaceHolderId \/ CreatePlaceHolder
  \/ StreamChunk \/ ReconstructNcz \/ RegisterContent
  \/ ImportTicket \/ SetContentMeta
  \/ Commit \/ PushApplicationRecord
  \/ Finish \/ Fail

Next == Start \/ Step \/ Crash

Spec == Init /\ [][Next]_vars

(* installNsp is sequential code in a thread of its own: whenever it has a *)
(* step to take it takes one.  Nothing makes the user start or the process *)
(* crash.                                                                  *)
FairSpec == Spec /\ WF_vars(Step)

-----------------------------------------------------------------------------
(* The contents of b are registered, its tickets imported. *)
ContentsLaid(b) == \A id \in ContentIdsOf(b) : \E c \in content : c.cid = id
TicketsLaid(b) == TicketsOf(b) \subseteq tickets

(* The shapes of the values, one part per group of variables. *)
FrameOK ==
  /\ pc \in PCs /\ nsp \in Containers /\ keyset \in Keysets
  /\ i \in Nat \ {0} /\ cur \in PlaceHolderIds /\ written \in Nat
  /\ phase \in Phases
  /\ result \in [status : {"none", "running", "ok", "failed"}, ncas : Nat,
                 tiks : Nat, failedPhase : Phases]
BackendOK ==
  handles \in {"open", "closed"} /\ ncmRefs \in Nat /\ metaKey \in MetaKeys \cup {NoKey}
StorageOK ==
  /\ \A p \in placeholders :
       p.id \in PlaceHolderIds /\ p.cid \in ContentIds /\ p.form \in {"nca", "cnmt.nca", "ncz"}
  /\ \A c \in content :
       c.cid \in ContentIds /\ c.form \in {"nca", "cnmt.nca", "ncz"}
MetasOK ==
  /\ staged \cup committed \subseteq
       [key : MetaKeys \cup {NoKey}, count : 0..CountValues - 1,
        contents : Seq(ContentIds \cup {BadName})]
  /\ records \subseteq MetaKeys \cup {NoKey}
ServicesOK == StorageOK /\ MetasOK /\ tickets \subseteq RightsIds \cup {NoRights}
HistoryOK == attempts \in 0..MaxAttempts /\ lost \in Nat /\ begun \subseteq Phases

(* Every variable has its type; ncmRefs never goes below zero, so nothing  *)
(* gives back an ncm reference that was not taken (closeStorage guards     *)
(* ncmExit with open_).                                                    *)
TypeOK == FrameOK /\ BackendOK /\ ServicesOK /\ HistoryOK

(* Every registered content holds the source's bytes at the source's       *)
(* offsets, however short the reads were, and content streamed from an     *)
(* .nca holds all of them: streamIntoPlaceHolder advances by what it read  *)
(* and stops only at e.size.  An .ncz may be registered short of its end.  *)
RegisteredIntact ==
  \A c \in content : \A u \in DOMAIN c.data :
    \/ c.data[u] = u
    \/ c.data[u] = Blank /\ c.form = "ncz"

(* A meta in the committed database stands for a container all of whose    *)
(* contents are registered and all of whose tickets are imported, whatever *)
(* attempts failed or crashed before it got there and even when the commit *)
(* that made it permanent was another container's.  The same must hold of  *)
(* the metas still staged, which any later commit makes permanent.         *)
MetaBacked ==
  \A m \in staged \cup committed : \E b \in Containers :
    /\ m \in MetasOf(b)
    /\ ContentsLaid(b) /\ TicketsLaid(b)

(* A meta in the database tells what the CNMT of a Meta NCA says: its key, *)
(* that NCA and then the contents it lists, all of which its file holds.   *)
(* The one exception is a CNMT that lies outside of its section, which is  *)
(* set as the zero key without contents.                                   *)
MetaTellsTheCnmt ==
  \A m \in staged \cup committed : \E b \in Containers : \E j \in DOMAIN b :
    /\ b[j].kind = "cnmt.nca" /\ HasCnmt(b[j].image)
    /\ LET file == CnmtFile(b[j].image)
       IN \/ /\ file.inside /\ file.cnmt.count <= Len(file.cnmt.ids)
             /\ m.key = file.cnmt.key
             /\ m.contents = <<b[j].cid>> \o SubSeq(file.cnmt.ids, 1, file.cnmt.count)
          \/ ~file.inside /\ m.key = NoKey /\ m.contents = <<b[j].cid>>

(* The number of contents in the header of a meta is the number of content *)
(* infos behind it, unless a CNMT lists as many as 16 bits can count: then *)
(* the header says none.                                                   *)
MetaCountsContents ==
  \A m \in staged \cup committed :
    m.count = Len(m.contents) \/ (Len(m.contents) = CountValues /\ m.count = 0)

(* An application record that names a meta key is pushed only after that   *)
(* meta is committed: the home menu never shows a title the database does  *)
(* not have.                                                               *)
RecordBacked == \A k \in records \ {NoKey} : \E m \in committed : m.key = k

(* failedPhase names the step that aborted.  Work of that phase was begun; *)
(* what comes before it in the phase order was done in full by this        *)
(* attempt; nothing of what comes after it was begun.  So a failure that   *)
(* names content-meta set no meta and never called commit, one that names  *)
(* commit did call it, with the meta of the first Meta NCA set, and a      *)
(* failure of either kind, like any other, leaves the database and the     *)
(* records as the attempt found them.                                      *)
FailureNamesStep ==
  LET contents == Cardinality({j \in DOMAIN nsp : IsContent(nsp[j])})
      tiks == Cardinality({j \in DOMAIN nsp : IsTicket(nsp[j])})
      AllLaid == /\ result.ncas = contents /\ ContentsLaid(nsp)
                 /\ result.tiks = tiks /\ TicketsLaid(nsp)
  IN pc = "idle" /\ result.status = "failed" =>
       /\ found = <<committed, records>>
       /\ result.failedPhase \in begun /\ begun \cap After(result.failedPhase) = {}
       /\ CASE result.failedPhase = "parse" -> result.ncas = 0 /\ result.tiks = 0
            [] result.failedPhase = "write-nca" -> result.ncas < contents /\ result.tiks = 0
            [] result.failedPhase = "import-ticket" ->
                 result.ncas = contents /\ result.tiks < tiks /\ ContentsLaid(nsp)
            [] result.failedPhase = "content-meta" -> AllLaid /\ metaKey = NoKey
            [] result.failedPhase = "commit" ->
                 /\ AllLaid
                 /\ \A j \in DOMAIN nsp :
                      nsp[j].kind = "cnmt.nca" /\ (\A k \in 1..j - 1 : ~IsMeta(nsp[k]))
                        => metaKey = NcmMeta(nsp[j]).key

(* An install that returned ok wrote and counted every content and ticket  *)
(* the container carries, and when its first meta entry is a Meta NCA the  *)
(* meta of that NCA is in the committed database.                          *)
OkMeansInstalled ==
  pc = "idle" /\ result.status = "ok" =>
    /\ result.ncas = Cardinality({j \in DOMAIN nsp : IsContent(nsp[j])}) /\ ContentsLaid(nsp)
    /\ result.tiks = Cardinality({j \in DOMAIN nsp : IsTicket(nsp[j])}) /\ TicketsLaid(nsp)
    /\ \A j \in DOMAIN nsp :
         nsp[j].kind = "cnmt.nca" /\ (\A k \in 1..j - 1 : ~IsMeta(nsp[k]))
           => NcmMeta(nsp[j]) \in committed

(* What a failed or crashed attempt leaves behind is bounded: one orphan   *)
(* placeholder, or one ncm reference when it is the open that failed.      *)
(* Completed installs leave nothing.                                       *)
ResidueBounded ==
  pc = "idle" => handles = "closed" /\ Cardinality(placeholders) + ncmRefs <= lost

(* docs/TEST-MATRIX.md:57 says that an install of rights-id content without *)
(* its ticket "fails at import-ticket".  installNsp imports the tickets it  *)
(* finds and never asks whether one is missing.                            *)
TicketlessRightsFail ==
  pc = "idle" /\ result.status = "ok" => NeededRights(nsp) \subseteq tickets

(* install/ncm_backend.h:34 says that commit pushes the application record  *)
(* of the "last setContentMeta key".  When no meta was set the record is   *)
(* pushed all the same, with the zero key of a new NcmBackend.             *)
RecordNamesMeta == NoKey \notin records

(* Every install comes to an end: each turn of the streaming loops moves   *)
(* forward or gives up.                                                    *)
AttemptEnds == pc # "idle" ~> pc = "idle"

-----------------------------------------------------------------------------
(* The installer keeps the promise of TitleStore: registering content is   *)
(* Lay, importing a ticket is Grant, the database commit is Publish, the   *)
(* end of installNsp or of the process is End, and every other step is     *)
(* invisible there.  Nothing becomes visible before what it needs.         *)
Store == INSTANCE TitleStore WITH
           active <- pc # "idle",
           laid <- {c.cid : c \in content},
           granted <- tickets,
           published <- committed

StoreSpec == Store!Spec

=============================================================================
