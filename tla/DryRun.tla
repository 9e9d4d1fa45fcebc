------------------------------- MODULE DryRun --------------------------------
(***************************************************************************)
(* dryRunInstall (install/dry_run.cpp): the container is read, nothing is  *)
(* written, and what an install would do is summed up.  Any read may come  *)
(* up short and any header may not decrypt; the dry run goes on without.   *)
(***************************************************************************)
EXTENDS Container

VARIABLES
  nsp,        \* the container
  keys,       \* ks: the keys of prod.keys, or none
  dpc,        \* where dryRunInstall stands
  at,         \* the entry the current pass is at
  plan,       \* DryRunResult
  warned,     \* the missing-ticket warning was logged
  short       \* history: reads of an NCA that came short

plans == <<plan, warned>>
vars  == <<nsp, keys, dpc, at, plans, short>>

NoPlan == [parsed |-> FALSE, ncaCount |-> 0, ticketCount |-> 0, certCount |-> 0,
           cnmtFound |-> FALSE, anyRightsId |-> FALSE,
           read |-> FALSE, key |-> NoKey, contents |-> <<>>]

Init ==
  /\ nsp \in Containers /\ keys \in Keysets
  /\ dpc = "parse" /\ at = 1 /\ plan = NoPlan /\ warned = FALSE /\ short = 0

Here == nsp[at]

(* pfs.open: the directory is read, or it is short or malformed. *)
ParseContainer ==
  /\ dpc = "parse"
  /\ \/ dpc' = "classify" /\ plan' = [plan EXCEPT !.parsed = TRUE]
     \/ dpc' = "done" /\ UNCHANGED plan
  /\ UNCHANGED <<nsp, keys, at, warned, short>>

(* logNcaHeader: whether the entry needs a rights id, as far as its header *)
(* can be read and the keys open it.                                       *)
LogNcaHeader(e, rightsId) ==
  \/ /\ rightsId = (ParsesHeader(keys, e.image) /\ e.rights # NoRights)
     /\ UNCHANGED short
  \/ ~rightsId /\ short' = short + 1

(* One turn of the first pass: the entry is classified and counted, and an *)
(* NCA that needs a rights id sets anyRightsId for good.                   *)
ForgetsEarlier(old, rightsId) == rightsId
AnyRightsId(old, rightsId) == old \/ rightsId
OnlyPlainNca(e) == IsNca(e)
CountsAsNca(e) == IsContent(e)
Classify ==
  /\ dpc = "classify" /\ at <= Len(nsp) /\ at' = at + 1
  /\ \/ /\ CountsAsNca(Here)
        /\ \E rightsId \in BOOLEAN :
             /\ LogNcaHeader(Here, rightsId)
             /\ plan' = [plan EXCEPT !.ncaCount = @ + 1,
                                     !.anyRightsId = AnyRightsId(@, rightsId)]
     \/ IsTicket(Here) /\ plan' = [plan EXCEPT !.ticketCount = @ + 1] /\ UNCHANGED short
     \/ Here.kind = "cert" /\ plan' = [plan EXCEPT !.certCount = @ + 1] /\ UNCHANGED short
     \/ /\ ~CountsAsNca(Here) /\ ~IsTicket(Here) /\ Here.kind # "cert"
        /\ UNCHANGED <<plan, short>>
  /\ UNCHANGED <<nsp, keys, dpc, warned>>

ClassifyEnds ==
  /\ dpc = "classify" /\ at > Len(nsp) /\ dpc' = "meta" /\ at' = 1
  /\ UNCHANGED <<nsp, keys, plans, short>>

(* The second pass stops at the first Meta NCA.  Its CNMT is reported if   *)
(* it can be read whole, the keys open it and it parses.                   *)
LooksOn == at' = at + 1 /\ UNCHANGED dpc
StopsThere == dpc' = "sum" /\ UNCHANGED at
ReadsCnmt(e) == ExtractsCnmt(keys, e.image) /\ Parses(Extracted(e.image))
MetaTarget ==
  /\ dpc = "meta" /\ at <= Len(nsp)
  /\ \/ Here.kind # "cnmt.nca" /\ at' = at + 1 /\ UNCHANGED <<dpc, plan, short>>
     \/ /\ Here.kind = "cnmt.nca" /\ StopsThere /\ ReadsCnmt(Here)
        /\ plan' = [plan EXCEPT !.cnmtFound = TRUE, !.read = TRUE,
                                !.key = Extracted(Here.image).key,
                                !.contents = ParsedContents(Extracted(Here.image))]
        /\ UNCHANGED short
     \/ /\ Here.kind = "cnmt.nca" /\ StopsThere
        /\ plan' = [plan EXCEPT !.cnmtFound = TRUE]
        /\ short' = IF ReadsCnmt(Here) THEN short + 1 ELSE short
  /\ UNCHANGED <<nsp, keys, warned>>

MetaMissing ==
  /\ dpc = "meta" /\ at > Len(nsp) /\ dpc' = "sum"
  /\ UNCHANGED <<nsp, keys, at, plans, short>>

(* The planned-install summary, and the warning of a missing ticket. *)
WarnsOnRights == plan.anyRightsId
WarnsOfTicket == plan.anyRightsId /\ plan.ticketCount = 0
Summary ==
  /\ dpc = "sum" /\ dpc' = "done"
  /\ warned' = WarnsOfTicket
  /\ UNCHANGED <<nsp, keys, at, plan, short>>

Next ==
  \/ ParseContainer \/ Classify \/ ClassifyEnds
  \/ MetaTarget \/ MetaMissing \/ Summary

Spec == Init /\ [][Next]_vars

=============================================================================
