--------------------------- MODULE RehearsalProofs ----------------------------
(***************************************************************************)
(* Theorems about a dry run and the installs that follow it, for every set *)
(* of containers and key files, every chunk size and any number of         *)
(* attempts: what the dry run announced, and what it warned of, holds of   *)
(* an install of the file that returned ok.                                *)
(***************************************************************************)
EXTENDS Rehearsal, OutcomeProofs

(* DryRun reads containers and keys with the operators Installer has.      *)
LEMMA SameReaders ==
  /\ \A e : /\ D!IsContent(e) <=> IsContent(e)
            /\ D!IsTicket(e) <=> IsTicket(e)
            /\ D!ReadsCnmt(e) <=> ExtractsCnmt(keys, e.image) /\ Parses(Extracted(e.image))
            /\ D!Extracted(e.image) = Extracted(e.image)
            /\ D!ParsesHeader(keys, e.image) <=> ParsesHeader(keys, e.image)
  /\ \A c : D!ParsedContents(c) = ParsedContents(c)
<1>1. \A e : (D!IsContent(e) <=> IsContent(e)) /\ (D!IsTicket(e) <=> IsTicket(e))
  BY DEF D!IsContent, IsContent, D!IsNca, IsNca, D!IsNcz, IsNcz, D!IsTicket, IsTicket
<1>2. \A img : D!Extracted(img) = Extracted(img)
  BY DEF D!Extracted, Extracted, D!CnmtFile, CnmtFile, D!ZeroFilled, ZeroFilled
<1>3. \A ks, img : D!ParsesHeader(ks, img) <=> ParsesHeader(ks, img)
  BY Zenon DEF D!ParsesHeader, ParsesHeader, D!Generation, Generation, D!Newest, Newest
<1>4. \A ks, img : D!DecryptsSection(ks, img) <=> DecryptsSection(ks, img)
  BY Zenon DEF D!DecryptsSection, DecryptsSection, D!KeyTable, KeyTable,
         D!Generation, Generation, D!Newest, Newest
<1>5. \A ks, img : D!ExtractsCnmt(ks, img) <=> ExtractsCnmt(ks, img)
  BY <1>2, <1>3, <1>4 DEF D!ExtractsCnmt, ExtractsCnmt, D!HasCnmt, HasCnmt
<1>6. \A c : D!Parses(c) <=> Parses(c)
  BY DEF D!Parses, Parses, D!HeadLen, HeadLen
<1>7. \A c : D!ParsedContents(c) = ParsedContents(c)
  BY DEF D!ParsedContents, ParsedContents, D!WholeRecords, WholeRecords,
         D!HeadLen, HeadLen, D!InfoLen, InfoLen
<1> QED
  BY <1>1, <1>2, <1>3, <1>5, <1>6, <1>7 DEF D!ReadsCnmt

-----------------------------------------------------------------------------
(* The dry run.  Its first pass has counted, at the entry at, what stands  *)
(* before it, and has noticed a rights id of each header it could read.    *)
PlanShape(p) ==
  /\ p = [parsed |-> p.parsed, ncaCount |-> p.ncaCount, ticketCount |-> p.ticketCount,
          certCount |-> p.certCount, cnmtFound |-> p.cnmtFound, anyRightsId |-> p.anyRightsId,
          read |-> p.read, key |-> p.key, contents |-> p.contents]
  /\ p.parsed \in BOOLEAN /\ p.anyRightsId \in BOOLEAN /\ p.read \in BOOLEAN
  /\ p.cnmtFound \in BOOLEAN /\ p.ncaCount \in Nat /\ p.ticketCount \in Nat

DryOK ==
  /\ file \in Containers /\ at \in Nat \ {0} /\ short \in Nat
  /\ dpc \in {"parse", "classify", "meta", "sum", "done"}
  /\ PlanShape(plan)
  /\ dpc \in {"classify", "meta", "sum"} => plan.parsed
  /\ dpc = "parse" => ~plan.parsed /\ at = 1

(* The first pass is over, the second is. *)
Classified == dpc \in {"meta", "sum"} \/ (dpc = "done" /\ plan.parsed)
Looked == dpc = "sum" \/ (dpc = "done" /\ plan.parsed)

DryCounts ==
  /\ dpc = "parse" => plan.ncaCount = 0 /\ plan.ticketCount = 0
  /\ dpc = "classify" =>
       /\ plan.ncaCount = Cardinality(Before(ContentPlaces(file), at))
       /\ plan.ticketCount = Cardinality(Before(TicketPlaces(file), at))
  /\ Classified => /\ plan.ncaCount = Cardinality(ContentPlaces(file))
                   /\ plan.ticketCount = Cardinality(TicketPlaces(file))

NeedsRights(j) == IsContent(file[j]) /\ file[j].rights # NoRights
Noticed(j) ==
  NeedsRights(j) /\ ParsesHeader(keys, file[j].image) => plan.anyRightsId \/ short > 0
RightsSeen ==
  /\ plan.anyRightsId => \E j \in DOMAIN file : NeedsRights(j)
  /\ dpc = "classify" => \A j \in DOMAIN file : j < at => Noticed(j)
  /\ Classified => \A j \in DOMAIN file : Noticed(j)

(* The second pass stops at the first Meta NCA: the plan tells what its    *)
(* CNMT says, or it was not read because it could not be.                  *)
FirstMetaNca(j) ==
  j \in DOMAIN file /\ file[j].kind = "cnmt.nca" /\ \A k \in 1..j - 1 : file[k].kind # "cnmt.nca"
CnmtReadable(e) == ExtractsCnmt(keys, e.image) /\ Parses(Extracted(e.image))
MetaSeen ==
  /\ dpc \in {"parse", "classify", "meta"} => ~plan.read
  /\ dpc = "meta" => \A j \in DOMAIN file : j < at => file[j].kind # "cnmt.nca"
  /\ Looked =>
       /\ plan.read =>
            \E j : /\ FirstMetaNca(j)
                   /\ plan.key = Extracted(file[j].image).key
                   /\ plan.contents = ParsedContents(Extracted(file[j].image))
       /\ ~plan.read => \A j : FirstMetaNca(j) /\ CnmtReadable(file[j]) => short > 0

WarnedRightly ==
  warned <=> dpc = "done" /\ plan.parsed /\ plan.anyRightsId /\ plan.ticketCount = 0

DryInv == DryOK /\ DryCounts /\ RightsSeen /\ MetaSeen /\ WarnedRightly

(* What the two passes write to the plan, field by field. *)
LEMMA CountUpdates ==
  ASSUME NEW p, PlanShape(p), NEW q, NEW r \in BOOLEAN
  PROVE  /\ q = [p EXCEPT !.ncaCount = @ + 1, !.anyRightsId = r] =>
              /\ PlanShape(q) /\ q.ncaCount = p.ncaCount + 1 /\ q.anyRightsId = r
              /\ q.ticketCount = p.ticketCount /\ q.parsed = p.parsed /\ q.read = p.read
         /\ q = [p EXCEPT !.ticketCount = @ + 1] =>
              /\ PlanShape(q) /\ q.ticketCount = p.ticketCount + 1
              /\ q.ncaCount = p.ncaCount /\ q.anyRightsId = p.anyRightsId
              /\ q.parsed = p.parsed /\ q.read = p.read
         /\ q = [p EXCEPT !.certCount = @ + 1] =>
              /\ PlanShape(q) /\ q.ticketCount = p.ticketCount
              /\ q.ncaCount = p.ncaCount /\ q.anyRightsId = p.anyRightsId
              /\ q.parsed = p.parsed /\ q.read = p.read
<1>1. ASSUME q = [p EXCEPT !.ncaCount = @ + 1, !.anyRightsId = r]
      PROVE  /\ PlanShape(q) /\ q.ncaCount = p.ncaCount + 1 /\ q.anyRightsId = r
             /\ q.ticketCount = p.ticketCount /\ q.parsed = p.parsed /\ q.read = p.read
  <2>1. q.ncaCount = p.ncaCount + 1 /\ q.ticketCount = p.ticketCount
    BY <1>1 DEF PlanShape
  <2>2. q.parsed = p.parsed /\ q.read = p.read
    BY <1>1 DEF PlanShape
  <2>3. q.anyRightsId = r
    BY <1>1 DEF PlanShape
  <2>4. /\ q = [parsed |-> q.parsed, ncaCount |-> q.ncaCount, ticketCount |-> q.ticketCount,
               certCount |-> q.certCount, cnmtFound |-> q.cnmtFound,
               anyRightsId |-> q.anyRightsId, read |-> q.read, key |-> q.key,
               contents |-> q.contents]
        /\ q.cnmtFound = p.cnmtFound
    BY <1>1, Zenon DEF PlanShape
  <2> QED
    BY <2>1, <2>2, <2>3, <2>4 DEF PlanShape
<1>2. q = [p EXCEPT !.ticketCount = @ + 1] =>
        /\ PlanShape(q) /\ q.ticketCount = p.ticketCount + 1
        /\ q.ncaCount = p.ncaCount /\ q.anyRightsId = p.anyRightsId
        /\ q.parsed = p.parsed /\ q.read = p.read
  BY DEF PlanShape
<1>3. q = [p EXCEPT !.certCount = @ + 1] =>
        /\ PlanShape(q) /\ q.ticketCount = p.ticketCount
        /\ q.ncaCount = p.ncaCount /\ q.anyRightsId = p.anyRightsId
        /\ q.parsed = p.parsed /\ q.read = p.read
  BY DEF PlanShape
<1> QED
  BY <1>1, <1>2, <1>3, Zenon

LEMMA MetaUpdates ==
  ASSUME NEW p, PlanShape(p), NEW q, q = [p EXCEPT !.cnmtFound = TRUE]
  PROVE  /\ PlanShape(q) /\ q.ticketCount = p.ticketCount
         /\ q.ncaCount = p.ncaCount /\ q.anyRightsId = p.anyRightsId
         /\ q.parsed = p.parsed /\ q.read = p.read
  BY DEF PlanShape

LEMMA DryInvInit == RehearsalInit => DryInv
<1> SUFFICES ASSUME RehearsalInit PROVE DryInv
  OBVIOUS
<1>1. /\ file \in Containers /\ dpc = "parse" /\ at = 1 /\ warned = FALSE /\ short = 0
      /\ plan = [parsed |-> FALSE, ncaCount |-> 0, ticketCount |-> 0, certCount |-> 0,
                 cnmtFound |-> FALSE, anyRightsId |-> FALSE,
                 read |-> FALSE, key |-> NoKey, contents |-> <<>>]
  BY DEF RehearsalInit, D!Init, D!NoPlan, Init
<1>2. DryOK
  BY <1>1 DEF DryOK, PlanShape
<1> QED
  BY <1>1, <1>2 DEF DryInv, DryCounts, Classified, Looked, RightsSeen, MetaSeen, WarnedRightly

(* A step of the first pass, in the terms of Installer. *)
Tallies ==
  /\ dpc = "classify" /\ dpc' = "classify" /\ at <= Len(file) /\ at' = at + 1
  /\ UNCHANGED <<file, keys, warned>> /\ PlanShape(plan')
  /\ plan'.parsed = plan.parsed /\ plan'.read = plan.read
  /\ short' = short \/ short' = short + 1
  /\ plan'.ncaCount = IF IsContent(file[at]) THEN plan.ncaCount + 1 ELSE plan.ncaCount
  /\ plan'.ticketCount = IF IsTicket(file[at]) THEN plan.ticketCount + 1 ELSE plan.ticketCount
  /\ plan'.anyRightsId <=>
       plan.anyRightsId \/ (NeedsRights(at) /\ plan'.anyRightsId)
  /\ NeedsRights(at) /\ ParsesHeader(keys, file[at].image)
       => plan'.anyRightsId \/ short' = short + 1

LEMMA ClassifyTallies ==
  ASSUME DryOK, D!Classify
  PROVE  Tallies
<1>1. /\ dpc = "classify" /\ dpc' = "classify" /\ at <= Len(file) /\ at' = at + 1
      /\ UNCHANGED <<file, keys, warned>> /\ PlanShape(plan)
  BY DEF D!Classify, DryOK
<1>2. CASE D!CountsAsNca(D!Here)
  <2>1. IsContent(file[at]) /\ ~IsTicket(file[at])
    BY <1>2, SameReaders DEF D!CountsAsNca, D!Here, IsContent, IsNca, IsNcz, IsTicket
  <2>2. PICK r \in BOOLEAN :
          /\ D!LogNcaHeader(D!Here, r)
          /\ plan' = [plan EXCEPT !.ncaCount = @ + 1,
                                  !.anyRightsId = D!AnyRightsId(plan.anyRightsId, r)]
    BY <1>2, <2>1, SameReaders DEF D!Classify, D!Here, D!CountsAsNca, IsContent, IsNca, IsNcz
  <2>3. PICK any \in BOOLEAN : any = D!AnyRightsId(plan.anyRightsId, r)
    BY <1>1 DEF D!AnyRightsId, PlanShape
  <2>4. /\ PlanShape(plan') /\ plan'.ncaCount = plan.ncaCount + 1 /\ plan'.anyRightsId = any
        /\ plan'.ticketCount = plan.ticketCount /\ plan'.parsed = plan.parsed
        /\ plan'.read = plan.read
    <3>1. plan' = [plan EXCEPT !.ncaCount = @ + 1, !.anyRightsId = any]
      BY <2>2, <2>3, Zenon
    <3> QED
      BY <1>1, <3>1, CountUpdates, Zenon
  <2>5. /\ short' = short \/ short' = short + 1
        /\ r => NeedsRights(at)
        /\ NeedsRights(at) /\ ParsesHeader(keys, file[at].image) => r \/ short' = short + 1
    BY <2>1, <2>2, SameReaders DEF D!LogNcaHeader, D!Here, NeedsRights
  <2>6. any <=> plan.anyRightsId \/ r
    BY <2>3 DEF D!AnyRightsId
  <2> QED
    BY <1>1, <2>1, <2>4, <2>5, <2>6 DEF Tallies
<1>3. CASE ~D!CountsAsNca(D!Here)
  <2>1. ~IsContent(file[at]) /\ ~NeedsRights(at)
    BY <1>3, SameReaders DEF D!CountsAsNca, D!Here, NeedsRights
  <2>2. /\ short' = short
        /\ \/ IsTicket(file[at]) /\ plan' = [plan EXCEPT !.ticketCount = @ + 1]
           \/ ~IsTicket(file[at]) /\ plan' = [plan EXCEPT !.certCount = @ + 1]
           \/ ~IsTicket(file[at]) /\ plan' = plan
    BY <1>3, SameReaders DEF D!Classify, D!Here, IsTicket
  <2>3. /\ PlanShape(plan') /\ plan'.ncaCount = plan.ncaCount
        /\ plan'.anyRightsId = plan.anyRightsId
        /\ plan'.parsed = plan.parsed /\ plan'.read = plan.read
        /\ plan'.ticketCount = IF IsTicket(file[at]) THEN plan.ticketCount + 1
                              ELSE plan.ticketCount
    <3>1. TRUE \in BOOLEAN
      OBVIOUS
    <3> QED
      BY <1>1, <2>2, <3>1, CountUpdates, Zenon
  <2> QED
    BY <1>1, <2>1, <2>2, <2>3 DEF Tallies
<1> QED
  BY <1>2, <1>3

(* A step of the second pass, likewise. *)
LooksAt ==
  /\ dpc = "meta" /\ at <= Len(file)
  /\ UNCHANGED <<file, keys, warned>> /\ PlanShape(plan')
  /\ plan'.parsed = plan.parsed /\ plan'.anyRightsId = plan.anyRightsId
  /\ plan'.ncaCount = plan.ncaCount /\ plan'.ticketCount = plan.ticketCount
  /\ short' = short \/ short' = short + 1
  /\ \/ /\ file[at].kind # "cnmt.nca" /\ dpc' = "meta" /\ at' = at + 1
        /\ plan'.read = plan.read
     \/ /\ file[at].kind = "cnmt.nca" /\ dpc' = "sum" /\ at' = at /\ plan'.read
        /\ plan'.key = Extracted(file[at].image).key
        /\ plan'.contents = ParsedContents(Extracted(file[at].image))
     \/ /\ file[at].kind = "cnmt.nca" /\ dpc' = "sum" /\ at' = at
        /\ plan'.read = plan.read
        /\ CnmtReadable(file[at]) => short' = short + 1

LEMMA MetaTargetLooks ==
  ASSUME DryOK, D!MetaTarget
  PROVE  LooksAt
<1>1. /\ dpc = "meta" /\ at <= Len(file) /\ UNCHANGED <<file, keys, warned>>
      /\ PlanShape(plan) /\ short \in Nat
  BY DEF D!MetaTarget, DryOK
<1>2. CASE /\ file[at].kind # "cnmt.nca" /\ at' = at + 1 /\ UNCHANGED <<dpc, plan, short>>
  BY <1>1, <1>2 DEF LooksAt
<1>3. CASE /\ file[at].kind = "cnmt.nca" /\ D!StopsThere
           /\ plan' = [plan EXCEPT !.cnmtFound = TRUE, !.read = TRUE,
                                   !.key = D!Extracted(file[at].image).key,
                                   !.contents = D!ParsedContents(D!Extracted(file[at].image))]
           /\ UNCHANGED short
  <2>1. PICK k, c : /\ k = Extracted(file[at].image).key
                    /\ c = ParsedContents(Extracted(file[at].image))
    OBVIOUS
  <2>2. plan' = [plan EXCEPT !.cnmtFound = TRUE, !.read = TRUE, !.key = k, !.contents = c]
    BY <1>3, <2>1, SameReaders
  <2>3. /\ PlanShape(plan') /\ plan'.read /\ plan'.key = k /\ plan'.contents = c
        /\ plan'.ticketCount = plan.ticketCount /\ plan'.ncaCount = plan.ncaCount
        /\ plan'.anyRightsId = plan.anyRightsId /\ plan'.parsed = plan.parsed
    <3>1. PICK p, q : p = plan /\ q = plan'
      OBVIOUS
    <3>2. PlanShape(p) /\ q = [p EXCEPT !.cnmtFound = TRUE, !.read = TRUE, !.key = k, !.contents = c]
      BY <1>1, <2>2, <3>1
    <3>3. /\ PlanShape(q) /\ q.read /\ q.key = k /\ q.contents = c
          /\ q.ticketCount = p.ticketCount /\ q.ncaCount = p.ncaCount
          /\ q.anyRightsId = p.anyRightsId /\ q.parsed = p.parsed
      BY <3>2 DEF PlanShape
    <3> QED
      BY <3>1, <3>3, Zenon
  <2> QED
    BY <1>1, <1>3, <2>1, <2>3 DEF LooksAt, D!StopsThere
<1>4. CASE /\ file[at].kind = "cnmt.nca" /\ D!StopsThere
           /\ plan' = [plan EXCEPT !.cnmtFound = TRUE]
           /\ short' = IF D!ReadsCnmt(file[at]) THEN short + 1 ELSE short
  <2>1. /\ short' = short \/ short' = short + 1
        /\ CnmtReadable(file[at]) => short' = short + 1
    BY <1>4, SameReaders DEF CnmtReadable
  <2> QED
    BY <1>1, <1>4, <2>1, MetaUpdates DEF LooksAt, D!StopsThere
<1> QED
  BY <1>2, <1>3, <1>4, Zenon DEF D!MetaTarget, D!Here

LEMMA DryOKNext == DryOK /\ D!Next => DryOK'
<1> SUFFICES ASSUME DryOK, D!Next PROVE DryOK'
  OBVIOUS
<1> USE DEF DryOK
<1>1. CASE D!ParseContainer
  <2>1. PlanShape(plan') /\ (dpc' = "classify" => plan'.parsed)
    BY <1>1 DEF D!ParseContainer, PlanShape
  <2> QED
    BY <1>1, <2>1 DEF D!ParseContainer
<1>2. CASE D!Classify
  BY <1>2, ClassifyTallies DEF Tallies
<1>3. CASE D!ClassifyEnds
  BY <1>3 DEF D!ClassifyEnds, D!plans
<1>4. CASE D!MetaTarget
  BY <1>4, MetaTargetLooks DEF LooksAt
<1>5. CASE D!MetaMissing \/ D!Summary
  BY <1>5 DEF D!MetaMissing, D!Summary, D!plans
<1> QED
  BY <1>1, <1>2, <1>3, <1>4, <1>5 DEF D!Next

(* The counts as the first pass sees them: CountBefore at the entry at.    *)
LEMMA PassCounts ==
  ASSUME DryOK
  PROVE  /\ \A S \in {ContentPlaces(file), TicketPlaces(file)} :
              /\ Cardinality(Before(S, at)) \in Nat /\ Cardinality(Before(S, 1)) = 0
              /\ Cardinality(Before(S, at + 1)) =
                   IF at \in S THEN Cardinality(Before(S, at)) + 1 ELSE Cardinality(Before(S, at))
              /\ at > Len(file) => Before(S, at) = S
         /\ at <= Len(file) => /\ at \in ContentPlaces(file) <=> IsContent(file[at])
                               /\ at \in TicketPlaces(file) <=> IsTicket(file[at])
<1>1. file \in Containers /\ at \in Nat \ {0}
  BY DEF DryOK
<1>2. DOMAIN file = 1..Len(file) /\ Len(file) \in Nat
  BY <1>1, ContainerShape
<1>3. ASSUME NEW S \in {ContentPlaces(file), TicketPlaces(file)}
      PROVE  /\ Cardinality(Before(S, at)) \in Nat /\ Cardinality(Before(S, 1)) = 0
             /\ Cardinality(Before(S, at + 1)) =
                  IF at \in S THEN Cardinality(Before(S, at)) + 1 ELSE Cardinality(Before(S, at))
             /\ at > Len(file) => Before(S, at) = S
  <2>1. PICK n \in Nat : n = Len(file)
    BY <1>2
  <2>2. S \in SUBSET (1..n)
    BY <1>1, <2>1, PlacesFinite
  <2>3. PICK k \in Nat \ {0} : k = at
    BY <1>1
  <2>4. /\ Cardinality(Before(S, k)) \in Nat /\ Cardinality(Before(S, 1)) = 0
        /\ Cardinality(Before(S, k + 1)) =
             IF k \in S THEN Cardinality(Before(S, k)) + 1 ELSE Cardinality(Before(S, k))
        /\ k > n => Before(S, k) = S
    BY <2>2, CountBefore
  <2> QED
    BY <2>1, <2>3, <2>4
<1>4. at <= Len(file) => /\ at \in ContentPlaces(file) <=> IsContent(file[at])
                         /\ at \in TicketPlaces(file) <=> IsTicket(file[at])
  BY <1>1, <1>2 DEF ContentPlaces, TicketPlaces
<1> QED
  BY <1>3, <1>4

LEMMA DryCountsNext == DryOK /\ DryCounts /\ D!Next => DryCounts'
<1> SUFFICES ASSUME DryOK, DryCounts, D!Next PROVE DryCounts'
  OBVIOUS
<1> DEFINE C == ContentPlaces(file)
           T == TicketPlaces(file)
<1>1. /\ Cardinality(Before(C, at)) \in Nat /\ Cardinality(Before(C, 1)) = 0
      /\ Cardinality(Before(T, at)) \in Nat /\ Cardinality(Before(T, 1)) = 0
      /\ Cardinality(Before(C, at + 1)) =
           IF at \in C THEN Cardinality(Before(C, at)) + 1 ELSE Cardinality(Before(C, at))
      /\ Cardinality(Before(T, at + 1)) =
           IF at \in T THEN Cardinality(Before(T, at)) + 1 ELSE Cardinality(Before(T, at))
      /\ at > Len(file) => Before(C, at) = C /\ Before(T, at) = T
      /\ at <= Len(file) => (at \in C <=> IsContent(file[at])) /\ (at \in T <=> IsTicket(file[at]))
  BY PassCounts
<1>2. file' = file => C' = C /\ T' = T
  OBVIOUS
<1> HIDE DEF C, T
<1> USE DEF DryCounts, Classified
<1>3. CASE D!ParseContainer
  <2>1. /\ file' = file /\ at' = 1 /\ dpc' \in {"classify", "done"}
        /\ plan'.ncaCount = 0 /\ plan'.ticketCount = 0
        /\ dpc' = "done" => ~plan'.parsed
    BY <1>3 DEF D!ParseContainer, DryOK, PlanShape
  <2> QED
    BY <1>1, <1>2, <2>1 DEF C, T
<1>4. CASE D!Classify
  <2>1. Tallies
    BY <1>4, ClassifyTallies
  <2>2. /\ plan'.ncaCount = Cardinality(Before(C, at + 1))
        /\ plan'.ticketCount = Cardinality(Before(T, at + 1))
    BY <1>1, <2>1 DEF Tallies, C, T
  <2> QED
    BY <1>2, <2>1, <2>2 DEF Tallies, C, T
<1>5. CASE D!ClassifyEnds
  <2>1. UNCHANGED <<file, plan>> /\ dpc = "classify" /\ dpc' = "meta" /\ at > Len(file)
    BY <1>5 DEF D!ClassifyEnds, D!plans
  <2> QED
    BY <1>1, <1>2, <2>1 DEF C, T
<1>6. CASE D!MetaTarget
  <2>1. /\ file' = file /\ dpc = "meta" /\ dpc' \in {"meta", "sum"}
        /\ plan'.ncaCount = plan.ncaCount /\ plan'.ticketCount = plan.ticketCount
    BY <1>6, MetaTargetLooks DEF LooksAt
  <2> QED
    BY <1>2, <2>1 DEF C, T
<1>7. CASE D!MetaMissing \/ D!Summary
  <2>1. UNCHANGED <<file, plan>> /\ dpc \in {"meta", "sum"} /\ dpc' \in {"sum", "done"}
    BY <1>7 DEF D!MetaMissing, D!Summary, D!plans
  <2> QED
    BY <1>2, <2>1 DEF C, T
<1> QED
  BY <1>3, <1>4, <1>5, <1>6, <1>7 DEF D!Next

LEMMA RightsSeenNext == DryOK /\ RightsSeen /\ D!Next => RightsSeen'
<1> SUFFICES ASSUME DryOK, RightsSeen, D!Next PROVE RightsSeen'
  OBVIOUS
<1>0. /\ DOMAIN file = 1..Len(file) /\ Len(file) \in Nat
      /\ at \in Nat \ {0} /\ short \in Nat
  BY ContainerShape DEF DryOK
<1> USE DEF RightsSeen, Classified
<1>1. CASE D!ParseContainer
  <2>1. /\ UNCHANGED <<file, keys, short>> /\ at' = 1 /\ dpc' \in {"classify", "done"}
        /\ plan'.anyRightsId = plan.anyRightsId
        /\ dpc' = "done" => ~plan'.parsed
    BY <1>1 DEF D!ParseContainer, DryOK, PlanShape
  <2> QED
    BY <1>0, <2>1 DEF NeedsRights
<1>2. CASE D!Classify
  <2>1. Tallies
    BY <1>2, ClassifyTallies
  <2>2. \A j \in DOMAIN file : NeedsRights(j)' <=> NeedsRights(j)
    BY <2>1 DEF Tallies, NeedsRights
  <2>3. plan'.anyRightsId => \E j \in DOMAIN file' : NeedsRights(j)'
    <3>1. at \in DOMAIN file /\ file' = file
      BY <1>0, <2>1 DEF Tallies
    <3> QED
      BY <2>1, <2>2, <3>1 DEF Tallies
  <2>4. ASSUME NEW j \in DOMAIN file', j < at' PROVE Noticed(j)'
    <3>1. CASE j < at
      BY <1>0, <2>1, <2>2, <2>4, <3>1 DEF Tallies, Noticed
    <3>2. CASE j = at
      BY <1>0, <2>1, <2>2, <3>2 DEF Tallies, Noticed
    <3> QED
      BY <1>0, <2>1, <2>4, <3>1, <3>2 DEF Tallies
  <2> QED
    BY <2>1, <2>3, <2>4 DEF Tallies
<1>3. CASE D!ClassifyEnds
  <2>1. /\ UNCHANGED <<file, keys, plan, short>> /\ dpc = "classify" /\ dpc' = "meta"
        /\ at > Len(file)
    BY <1>3 DEF D!ClassifyEnds, D!plans
  <2> QED
    BY <1>0, <2>1 DEF NeedsRights, Noticed
<1>4. CASE D!MetaTarget
  <2>1. /\ UNCHANGED <<file, keys>> /\ dpc = "meta" /\ dpc' \in {"meta", "sum"}
        /\ plan'.anyRightsId = plan.anyRightsId /\ (short' = short \/ short' = short + 1)
    BY <1>4, MetaTargetLooks DEF LooksAt
  <2> QED
    BY <1>0, <2>1 DEF NeedsRights, Noticed
<1>5. CASE D!MetaMissing \/ D!Summary
  <2>1. /\ UNCHANGED <<file, keys, plan, short>> /\ dpc \in {"meta", "sum"}
        /\ dpc' \in {"sum", "done"}
    BY <1>5 DEF D!MetaMissing, D!Summary, D!plans
  <2> QED
    BY <2>1 DEF NeedsRights, Noticed
<1> QED
  BY <1>1, <1>2, <1>3, <1>4, <1>5 DEF D!Next

LEMMA MetaSeenNext == DryOK /\ MetaSeen /\ D!Next => MetaSeen'
<1> SUFFICES ASSUME DryOK, MetaSeen, D!Next PROVE MetaSeen'
  OBVIOUS
<1>0. /\ DOMAIN file = 1..Len(file) /\ Len(file) \in Nat
      /\ at \in Nat \ {0} /\ short \in Nat
  BY ContainerShape DEF DryOK
<1> USE DEF MetaSeen, Looked
<1>1. CASE D!ParseContainer
  <2>1. /\ dpc = "parse" /\ dpc' \in {"classify", "done"} /\ plan'.read = plan.read
        /\ dpc' = "done" => ~plan'.parsed
    BY <1>1 DEF D!ParseContainer, DryOK, PlanShape
  <2> QED
    BY <2>1
<1>2. CASE D!Classify
  BY <1>2, ClassifyTallies DEF Tallies
<1>3. CASE D!ClassifyEnds
  <2>1. UNCHANGED <<file, plan>> /\ dpc = "classify" /\ dpc' = "meta" /\ at' = 1
    BY <1>3 DEF D!ClassifyEnds, D!plans
  <2> QED
    BY <1>0, <2>1
<1>4. CASE D!MetaTarget
  <2>1. LooksAt
    BY <1>4, MetaTargetLooks
  <2>2. at \in DOMAIN file
    BY <1>0, <2>1 DEF LooksAt
  <2>3. CASE dpc' = "meta"
    BY <1>0, <2>1, <2>3 DEF LooksAt
  <2>4. CASE dpc' = "sum"
    <3>1. file[at].kind = "cnmt.nca" /\ \A k \in 1..at - 1 : file[k].kind # "cnmt.nca"
      BY <1>0, <2>1, <2>2, <2>4 DEF LooksAt
    <3>2. FirstMetaNca(at)' /\ \A j : FirstMetaNca(j)' => j = at
      BY <1>0, <2>1, <2>2, <3>1 DEF FirstMetaNca, LooksAt
    <3>3. ~plan.read /\ UNCHANGED <<file, keys>>
      BY <2>1 DEF LooksAt
    <3>4. CASE plan'.read
      BY <2>1, <2>4, <3>2, <3>3, <3>4 DEF LooksAt
    <3>5. CASE ~plan'.read
      BY <1>0, <2>1, <2>4, <3>2, <3>3, <3>5 DEF LooksAt, CnmtReadable
    <3> QED
      BY <3>4, <3>5
  <2> QED
    BY <2>1, <2>3, <2>4 DEF LooksAt
<1>5. CASE D!MetaMissing
  <2>1. /\ UNCHANGED <<file, keys, plan, short>> /\ dpc = "meta" /\ dpc' = "sum"
        /\ at > Len(file)
    BY <1>5 DEF D!MetaMissing, D!plans
  <2>2. \A j : ~FirstMetaNca(j)'
    BY <1>0, <2>1 DEF FirstMetaNca
  <2> QED
    BY <2>1, <2>2
<1>6. CASE D!Summary
  <2>1. /\ UNCHANGED <<file, keys, plan, short>> /\ dpc = "sum" /\ dpc' = "done"
    BY <1>6 DEF D!Summary
  <2> QED
    BY <2>1 DEF FirstMetaNca, CnmtReadable
<1> QED
  BY <1>1, <1>2, <1>3, <1>4, <1>5, <1>6 DEF D!Next

LEMMA WarnedNext == DryOK /\ WarnedRightly /\ D!Next => WarnedRightly'
<1> SUFFICES ASSUME DryOK, WarnedRightly, D!Next PROVE WarnedRightly'
  OBVIOUS
<1> USE DEF WarnedRightly
<1>1. CASE D!ParseContainer
  <2>1. /\ dpc = "parse" /\ dpc' \in {"classify", "done"} /\ warned' = warned
        /\ dpc' = "done" => ~plan'.parsed
    BY <1>1 DEF D!ParseContainer, DryOK
  <2> QED
    BY <2>1
<1>2. CASE D!Classify
  BY <1>2, ClassifyTallies DEF Tallies
<1>3. CASE D!ClassifyEnds \/ D!MetaMissing
  BY <1>3 DEF D!ClassifyEnds, D!MetaMissing, D!plans
<1>4. CASE D!MetaTarget
  BY <1>4, MetaTargetLooks DEF LooksAt
<1>5. CASE D!Summary
  BY <1>5 DEF D!Summary, D!WarnsOfTicket, DryOK
<1> QED
  BY <1>1, <1>2, <1>3, <1>4, <1>5 DEF D!Next

LEMMA DryInvNext == DryInv /\ [RehearsalNext]_<<vars, dry>> => DryInv'
<1> SUFFICES ASSUME DryInv, [RehearsalNext]_<<vars, dry>> PROVE DryInv'
  OBVIOUS
<1>1. CASE D!Next
  BY <1>1, DryOKNext, DryCountsNext, RightsSeenNext, MetaSeenNext, WarnedNext DEF DryInv
<1>2. CASE UNCHANGED dry
  <2>1. UNCHANGED <<file, keys, dpc, at, plan, warned, short>>
    BY <1>2 DEF dry
  <2> QED
    BY <2>1 DEF DryInv, DryOK, DryCounts, RightsSeen, MetaSeen, WarnedRightly, Classified,
                Looked, Noticed, NeedsRights, FirstMetaNca, CnmtReadable
<1> QED
  BY <1>1, <1>2 DEF RehearsalNext, DryRunFromSd, RealInstall

-----------------------------------------------------------------------------
(* The installs.  All of them are of the rehearsed file with the keys the  *)
(* dry run had: es has no tickets but the file's, and the one meta that is *)
(* ever set is that of its first meta entry.                               *)
SameFile == nsp = file /\ keyset = keys

FirstIsMetaNca(j) ==
  /\ j \in DOMAIN file /\ file[j].kind = "cnmt.nca"
  /\ \A k \in 1..j - 1 : ~IsMeta(file[k])
TicketsFromFile == tickets \subseteq TicketsOf(file)
MetasFromFile ==
  \A m \in staged \cup committed : \E j :
    /\ FirstIsMetaNca(j) /\ m = NcmMeta(file[j])
    /\ ExtractsCnmt(keys, file[j].image) /\ HasMeta(file[j])

FromFile == SameFile /\ TicketsFromFile /\ MetasFromFile

(* A rehearsal is an install too. *)
LEMMA RehearsalStep ==
  ASSUME [RehearsalNext]_<<vars, dry>>
  PROVE  /\ [Next]_vars
         /\ \/ UNCHANGED <<file, keys>> /\ UNCHANGED vars
            \/ UNCHANGED dry /\ Start /\ nsp' = file /\ keyset' = keys
            \/ UNCHANGED dry /\ Step
            \/ UNCHANGED dry /\ Crash
<1>1. ASSUME D!Next PROVE UNCHANGED <<file, keys>>
  BY <1>1 DEF D!Next, D!ParseContainer, D!Classify, D!ClassifyEnds, D!MetaTarget,
              D!MetaMissing, D!Summary
<1>2. \/ D!Next /\ UNCHANGED vars
      \/ UNCHANGED dry /\ Start /\ nsp' = file /\ keyset' = keys
      \/ UNCHANGED dry /\ Step
      \/ UNCHANGED dry /\ Crash
      \/ UNCHANGED <<vars, dry>>
  BY DEF RehearsalNext, DryRunFromSd, RealInstall
<1>3. [Next]_vars
  BY <1>2, Zenon DEF Next
<1>4. UNCHANGED <<vars, dry>> => UNCHANGED <<file, keys>> /\ UNCHANGED vars
  BY DEF dry
<1> QED
  BY <1>1, <1>2, <1>3, <1>4, Zenon

LEMMA StepKeepsFile ==
  ASSUME Step \/ Crash
  PROVE  UNCHANGED <<nsp, keyset>>
  BY DEF Step, ParseContainer, OpenStorage, NextNca, GeneratePlaceHolderId, CreatePlaceHolder,
         StreamChunk, ReconstructNcz, RegisterContent, ImportTicket, SetContentMeta, Commit,
         PushApplicationRecord, Finish, Fail, Crash

LEMMA SameFileNext == SameFile /\ [RehearsalNext]_<<vars, dry>> => SameFile'
<1> SUFFICES ASSUME SameFile, [RehearsalNext]_<<vars, dry>> PROVE SameFile'
  OBVIOUS
<1>1. UNCHANGED dry => UNCHANGED <<file, keys>>
  BY DEF dry
<1>2. UNCHANGED vars => UNCHANGED <<nsp, keyset>>
  BY DEF vars, frame
<1> QED
  BY <1>1, <1>2, RehearsalStep, StepKeepsFile DEF SameFile

LEMMA TicketsFromFileNext ==
  OrderInv /\ FromFile /\ [RehearsalNext]_<<vars, dry>> => TicketsFromFile'
<1> SUFFICES ASSUME OrderInv, FromFile, [RehearsalNext]_<<vars, dry>> PROVE TicketsFromFile'
  OBVIOUS
<1>0. FrameOK /\ SameFile /\ TicketsFromFile
  BY DEF OrderInv, TypeInv, TypeOK, FromFile
<1>1. file' = file /\ [Next]_vars
  BY RehearsalStep DEF dry
<1>2. CASE tickets' = tickets
  BY <1>0, <1>1, <1>2 DEF TicketsFromFile, TicketsOf
<1>3. CASE ImportTicket
  <2>1. \/ tickets' = tickets
        \/ i <= Len(nsp) /\ IsTicket(Entry) /\ tickets' = tickets \cup {Entry.rights}
    BY <1>3 DEF ImportTicket, TicketRefused
  <2>2. i <= Len(nsp) => i \in DOMAIN file
    BY <1>0, ContainerShape DEF FrameOK, SameFile
  <2>3. i <= Len(nsp) /\ IsTicket(Entry) => Entry.rights \in TicketsOf(file)
    BY <1>0, <2>2 DEF SameFile, Entry, TicketsOf
  <2> QED
    BY <1>0, <1>1, <2>1, <2>3 DEF TicketsFromFile, TicketsOf
<1> QED
  BY <1>1, <1>2, <1>3
     DEF Next, Step, vars, Start, ParseContainer, OpenStorage, NextNca,
         GeneratePlaceHolderId, CreatePlaceHolder, StreamChunk, ReconstructNcz,
         RegisterContent, SetContentMeta, Commit, PushApplicationRecord, Finish, Fail, Crash

LEMMA MetasFromFileNext ==
  OrderInv /\ MetaFollowed /\ FromFile /\ [RehearsalNext]_<<vars, dry>> => MetasFromFile'
<1> SUFFICES ASSUME OrderInv, MetaFollowed, FromFile, [RehearsalNext]_<<vars, dry>>
             PROVE  MetasFromFile'
  OBVIOUS
<1>0. FrameOK /\ SameFile /\ MetasFromFile
  BY DEF OrderInv, TypeInv, TypeOK, FromFile
<1>1. UNCHANGED <<file, keys>> /\ [Next]_vars
  BY RehearsalStep DEF dry
<1>2. CASE staged' \cup committed' \subseteq staged \cup committed
  BY <1>0, <1>1, <1>2 DEF MetasFromFile, FirstIsMetaNca
<1>3. CASE SetContentMeta
  <2>1. pc = "meta" /\ committed' = committed
    BY <1>3 DEF SetContentMeta
  <2>2. \/ staged' = staged
        \/ /\ i <= Len(nsp) /\ ReadsMeta(Entry)
           /\ staged' = {m \in staged : m.key # NcmMeta(Entry).key} \cup {NcmMeta(Entry)}
    BY <1>3 DEF SetContentMeta
  <2>3. ASSUME i <= Len(nsp), ReadsMeta(Entry)
        PROVE  /\ FirstIsMetaNca(i) /\ NcmMeta(Entry) = NcmMeta(file[i])
               /\ ExtractsCnmt(keys, file[i].image) /\ HasMeta(file[i])
    <3>1. DOMAIN file = 1..Len(file) /\ Len(file) \in Nat /\ i \in Nat \ {0} /\ nsp = file
      BY <1>0, ContainerShape DEF FrameOK, SameFile
    <3>2. Entry = file[i] /\ keyset = keys
      BY <1>0 DEF SameFile, Entry
    <3>3. \A k \in 1..i - 1 : ~IsMeta(file[k])
      BY <2>1, <2>3, <3>1 DEF MetaFollowed
    <3> QED
      BY <2>3, <3>1, <3>2, <3>3 DEF FirstIsMetaNca, ReadsMeta
  <2> QED
    BY <1>0, <1>1, <2>1, <2>2, <2>3 DEF MetasFromFile, FirstIsMetaNca
<1>4. CASE Commit
  BY <1>2, <1>4 DEF Commit, CommitRefused
<1>5. CASE Finish \/ Fail \/ Crash
  BY <1>2, <1>5 DEF Finish, Fail, Crash, CloseHandles
<1> QED
  BY <1>1, <1>2, <1>3, <1>4, <1>5
     DEF Next, Step, vars, metas, Start, ParseContainer, OpenStorage, NextNca,
         GeneratePlaceHolderId, CreatePlaceHolder, StreamChunk, ReconstructNcz,
         RegisterContent, ImportTicket, PushApplicationRecord

RehearsalInv == OrderInv /\ OutcomeInv /\ DryInv /\ FromFile

LEMMA RehearsalInvInit == RehearsalInit => RehearsalInv
<1>1. RehearsalInit => Init
  BY DEF RehearsalInit
<1>2. RehearsalInit => FromFile
  BY DEF RehearsalInit, Init, FromFile, SameFile, TicketsFromFile, MetasFromFile
<1> QED
  BY <1>1, <1>2, OrderInit, OutcomeInit, DryInvInit DEF RehearsalInv

LEMMA RehearsalInvNext ==
  RehearsalInv /\ [RehearsalNext]_<<vars, dry>> => RehearsalInv'
<1> SUFFICES ASSUME RehearsalInv, [RehearsalNext]_<<vars, dry>> PROVE RehearsalInv'
  OBVIOUS
<1>1. [Next]_vars
  BY RehearsalStep
<1>2. OrderInv' /\ OutcomeInv'
  BY <1>1, OrderNext, OutcomeNext DEF RehearsalInv
<1>3. FromFile'
  BY SameFileNext, TicketsFromFileNext, MetasFromFileNext
     DEF RehearsalInv, FromFile, OutcomeInv
<1> QED
  BY <1>2, <1>3, DryInvNext DEF RehearsalInv

LEMMA RehearsalInvariant == RehearsalSpec => []RehearsalInv
  BY RehearsalInvInit, RehearsalInvNext, PTL DEF RehearsalSpec

(* An install that returns ok reports the numbers of NCAs and tickets that *)
(* the dry run announced, for every container: the classification pass of  *)
(* dryRunInstall and the two loops of installNsp count the same entries.   *)
THEOREM PlanKeptAlways == RehearsalSpec => []PlanKept
<1>1. RehearsalInv => PlanKept
  BY DEF RehearsalInv, OutcomeInv, OkMeansInstalled, FromFile, SameFile, DryInv, DryCounts,
         Classified, PlanKept, Installed, ContentPlaces, TicketPlaces
<1> QED
  BY <1>1, RehearsalInvariant, PTL

(* The warning of a missing ticket is true: an install of that file leaves *)
(* every right it needs without a ticket (anyRightsId and ticketCount of   *)
(* dryRunInstall against importTicket).                                    *)
THEOREM WarningIsTrueAlways == RehearsalSpec => []WarningIsTrue
<1>1. ASSUME RehearsalInv, warned
      PROVE  NeededRights(file) # {} /\ TicketsOf(file) = {}
  <2>1. PICK j \in DOMAIN file : NeedsRights(j)
    BY <1>1 DEF RehearsalInv, DryInv, WarnedRightly, RightsSeen
  <2>2. file[j].rights \in NeededRights(file)
    BY <2>1 DEF NeedsRights, NeededRights
  <2>3. Cardinality(TicketPlaces(file)) = 0 /\ file \in Containers
    BY <1>1 DEF RehearsalInv, DryInv, DryOK, WarnedRightly, DryCounts, Classified
  <2>4. TicketPlaces(file) = {}
    BY <2>3, PlacesFinite, FS_EmptySet
  <2> QED
    BY <2>2, <2>4 DEF TicketPlaces, TicketsOf
<1>2. RehearsalInv => WarningIsTrue
  BY <1>1 DEF WarningIsTrue, RehearsalInv, FromFile, TicketsFromFile
<1> QED
  BY <1>2, RehearsalInvariant, PTL

(* Rights that an install leaves without a ticket were warned of, for all  *)
(* containers and keys, unless a ticket was there, a header came short or  *)
(* the keys do not open one: the pass that sets anyRightsId skips no NCA.  *)
THEOREM WarnsOfMissingTicketAlways == RehearsalSpec => []WarnsOfMissingTicket
<1>1. ASSUME RehearsalInv, Installed, ~(NeededRights(file) \subseteq tickets),
             ~(short > 0), TicketsOf(file) = {},
             \A j \in DOMAIN file : IsContent(file[j]) => ParsesHeader(keys, file[j].image)
      PROVE  warned
  <2>1. PICK r \in NeededRights(file) : r \notin tickets
    BY <1>1
  <2>2. PICK j \in DOMAIN file : NeedsRights(j)
    BY <2>1 DEF NeededRights, NeedsRights
  <2>3. dpc = "done" /\ plan.parsed
    BY <1>1 DEF Installed
  <2>4. plan.anyRightsId
    BY <1>1, <2>2, <2>3 DEF NeedsRights, RehearsalInv, DryInv, RightsSeen, Classified, Noticed
  <2>5. TicketPlaces(file) = {}
    BY <1>1 DEF TicketPlaces, TicketsOf
  <2>6. plan.ticketCount = 0
    BY <1>1, <2>3, <2>5, FS_EmptySet DEF RehearsalInv, DryInv, DryCounts, Classified
  <2> QED
    BY <1>1, <2>3, <2>4, <2>6 DEF RehearsalInv, DryInv, WarnedRightly
<1>2. RehearsalInv => WarnsOfMissingTicket
  BY <1>1 DEF WarnsOfMissingTicket
<1> QED
  BY <1>2, RehearsalInvariant, PTL

-----------------------------------------------------------------------------
(* Some meta entry of a container with one is the first. *)
LEMMA FirstMeta ==
  ASSUME NEW b \in Containers, NEW n \in DOMAIN b, IsMeta(b[n])
  PROVE  \E j \in DOMAIN b : IsMeta(b[j]) /\ \A k \in 1..j - 1 : ~IsMeta(b[k])
<1> DEFINE metaPlaces == {j \in DOMAIN b : IsMeta(b[j])}
           less == {ss \in Nat \X Nat : ss[1] < ss[2]}
<1>1. DOMAIN b = 1..Len(b) /\ Len(b) \in Nat
  BY ContainerShape
<1>2. metaPlaces \in SUBSET Nat /\ metaPlaces # {}
  BY <1>1
<1>3. PICK j \in metaPlaces : \A k \in metaPlaces : ~(<<k, j>> \in less)
  <2>1. IsWellFoundedOn(less, Nat)
    BY NatLessThanWellFounded DEF OpToRel
  <2> HIDE DEF metaPlaces, less
  <2> QED
    BY <1>2, <2>1, WFMin
<1>4. ASSUME NEW k \in 1..j - 1, IsMeta(b[k]) PROVE FALSE
  <2>1. j \in 1..Len(b)
    BY <1>1, <1>3
  <2>2. k \in DOMAIN b /\ k \in Nat /\ j \in Nat /\ k < j
    BY <1>1, <2>1
  <2> QED
    BY <1>3, <1>4, <2>2
<1> QED
  BY <1>3, <1>4

(* When the first meta entry of the file is a Meta NCA, the dry run and    *)
(* the install look at the same one.                                       *)
LEMMA OneFirstMetaNca ==
  ASSUME file \in Containers, NEW j, FirstIsMetaNca(j), NEW n, FirstMetaNca(n)
  PROVE  j = n
<1>1. DOMAIN file = 1..Len(file) /\ Len(file) \in Nat
  BY ContainerShape
<1>2. j \in 1..Len(file) /\ n \in 1..Len(file)
  BY <1>1 DEF FirstIsMetaNca, FirstMetaNca
<1>3. ~(j < n)
  BY <1>2 DEF FirstIsMetaNca, FirstMetaNca
<1>4. ~(n < j)
  BY <1>2 DEF FirstIsMetaNca, FirstMetaNca, IsMeta
<1> QED
  BY <1>2, <1>3, <1>4

(* The meta target the dry run read is the one whose meta the install      *)
(* commits, and a meta that is committed was read by the dry run or came   *)
(* short in it: the pass that stops at the first Meta NCA against the meta *)
(* loop of installNsp, which stops at the first meta entry of any kind.    *)
THEOREM MetaAnnouncedAlways == RehearsalSpec => []MetaAnnounced
<1>1. ASSUME RehearsalInv, Installed, plan.read, ~BareCnmtFirst
      PROVE  \E m \in committed : m.key = plan.key
  <2>1. dpc = "done" /\ plan.parsed /\ pc = "idle" /\ result.status = "ok" /\ nsp = file
        /\ file \in Containers
    BY <1>1 DEF Installed, RehearsalInv, FromFile, SameFile, DryInv, DryOK
  <2>2. PICK n : FirstMetaNca(n) /\ plan.key = Extracted(file[n].image).key
    BY <1>1, <2>1 DEF RehearsalInv, DryInv, MetaSeen, Looked
  <2>3. PICK j \in DOMAIN file : IsMeta(file[j]) /\ \A k \in 1..j - 1 : ~IsMeta(file[k])
    BY <2>1, <2>2, FirstMeta DEF FirstMetaNca, IsMeta
  <2>4. FirstIsMetaNca(j)
    BY <1>1, <2>3 DEF BareCnmtFirst, IsMeta, FirstIsMetaNca
  <2>5. j = n
    BY <2>1, <2>2, <2>4, OneFirstMetaNca
  <2>6. NcmMeta(file[j]) \in committed
    BY <1>1, <2>1, <2>4 DEF RehearsalInv, OutcomeInv, OkMeansInstalled, FirstIsMetaNca
  <2> QED
    BY <2>2, <2>5, <2>6 DEF NcmMeta, BuildNcmMeta
<1>2. ASSUME RehearsalInv, Installed, committed # {}, ~(short > 0)
      PROVE  plan.read
  <2>1. dpc = "done" /\ plan.parsed
    BY <1>2 DEF Installed
  <2>2. PICK j : /\ FirstIsMetaNca(j)
                 /\ ExtractsCnmt(keys, file[j].image) /\ HasMeta(file[j])
    BY <1>2 DEF RehearsalInv, FromFile, MetasFromFile
  <2>3. FirstMetaNca(j)
    BY <2>2 DEF FirstIsMetaNca, FirstMetaNca, IsMeta
  <2>4. CnmtReadable(file[j])
    BY <2>2 DEF CnmtReadable, HasMeta, Builds, Parses
  <2> QED
    BY <1>2, <2>1, <2>3, <2>4 DEF RehearsalInv, DryInv, MetaSeen, Looked
<1>3. RehearsalInv => MetaAnnounced
  BY <1>1, <1>2 DEF MetaAnnounced
<1> QED
  BY <1>3, RehearsalInvariant, PTL

(* Of a CNMT from which a meta can be built, both readers take the same    *)
(* records in the same order.                                              *)
LEMMA ReadersOfOneCnmt ==
  ASSUME NEW e, e.image \in Images, HasMeta(e)
  PROVE  Tail(NcmMeta(e).contents) = ParsedContents(Extracted(e.image))
<1> DEFINE c == Extracted(e.image)
           infos == [k \in 1..c.count |-> IF k \in DOMAIN c.ids THEN c.ids[k] ELSE e.cid]
<1>1. /\ c.len \in Nat /\ c.ext \in Nat /\ c.count \in Nat /\ c.metas \in Nat /\ Builds(c)
      /\ c.count > 0 => c.count <= Len(c.ids) /\ c.ids \in Seq(ContentIds)
  <2> DEFINE f == CnmtFile(e.image)
  <2>1. f.cnmt \in Cnmts
    BY CnmtFileShape DEF HasMeta, Files
  <2>2. Builds(c) /\ c = IF f.inside THEN f.cnmt ELSE ZeroFilled(f.cnmt.len)
    BY DEF HasMeta, Extracted
  <2> HIDE DEF f, c
  <2>3. CASE f.inside
    BY <2>1, <2>2, <2>3, CnmtShape, BuildsWithinIds
  <2>4. CASE ~f.inside
    BY <2>1, <2>2, <2>4, CnmtShape DEF ZeroFilled
  <2> QED
    BY <2>3, <2>4
<1>2. NcmMeta(e).contents = <<e.cid>> \o infos
  BY DEF NcmMeta, BuildNcmMeta, ContentInfos
<1> HIDE DEF c
<1>3. WholeRecords(c) = 1..c.count
  <2>1. ASSUME NEW k \in 1..c.count PROVE HeadLen + c.ext + InfoLen * k <= c.len
    <3>1. PICK len, ext, count, infoCount \in Nat :
            len = c.len /\ ext = c.ext /\ count = c.count /\ infoCount = c.metas
      BY <1>1
    <3>2. 4 + ext + 7 * count + 2 * infoCount <= len
      BY <1>1, <3>1 DEF Builds, HeadLen, InfoLen, MetaLen
    <3>3. k \in Nat /\ k <= count
      BY <1>1, <3>1
    <3>4. 4 + ext + 7 * k <= len
      BY <3>2, <3>3
    <3> QED
      BY <3>1, <3>4 DEF HeadLen, InfoLen
  <2> QED
    BY <2>1 DEF WholeRecords
<1>4. infos = ParsedContents(c)
  <2>1. \A k \in 1..c.count : k \in DOMAIN c.ids
    BY <1>1
  <2> QED
    BY <1>3, <2>1, Zenon DEF ParsedContents
<1>5. Tail(<<e.cid>> \o infos) = infos
  <2>1. infos \in Seq(ContentIds \cup {e.cid})
    <3>1. \A k \in 1..c.count : k \in DOMAIN c.ids /\ c.ids[k] \in ContentIds
      BY <1>1
    <3> QED
      BY <1>1, <3>1
  <2> HIDE DEF infos
  <2> QED
    BY <2>1
<1> QED
  BY <1>2, <1>4, <1>5 DEF c

(* The contents that the dry run lists are those of the committed meta, in *)
(* their order, behind the Meta NCA: Cnmt::parse and buildNcmMeta agree on *)
(* every CNMT that gets as far, whatever its length, counts and records.   *)
THEOREM ReadersAgreeAlways == RehearsalSpec => []ReadersAgree
<1>1. ASSUME RehearsalInv, Installed, plan.read, NEW m \in committed
      PROVE  Tail(m.contents) = plan.contents
  <2>1. dpc = "done" /\ plan.parsed /\ file \in Containers
    BY <1>1 DEF Installed, RehearsalInv, DryInv, DryOK
  <2>2. PICK n : FirstMetaNca(n) /\ plan.contents = ParsedContents(Extracted(file[n].image))
    BY <1>1, <2>1 DEF RehearsalInv, DryInv, MetaSeen, Looked
  <2>3. PICK j : FirstIsMetaNca(j) /\ m = NcmMeta(file[j]) /\ HasMeta(file[j])
    BY <1>1 DEF RehearsalInv, FromFile, MetasFromFile
  <2>4. j = n
    BY <2>1, <2>2, <2>3, OneFirstMetaNca
  <2>5. file[j].image \in Images
    BY <2>1, <2>3, ContainerShape, EntryShape DEF FirstIsMetaNca
  <2> QED
    BY <2>2, <2>3, <2>4, <2>5, ReadersOfOneCnmt
<1>2. RehearsalInv => ReadersAgree
  BY <1>1 DEF ReadersAgree
<1> QED
  BY <1>2, RehearsalInvariant, PTL

=============================================================================
