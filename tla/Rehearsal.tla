------------------------------ MODULE Rehearsal ------------------------------
(***************************************************************************)
(* A dry run of sdmc:/install.nsp and then its real install, as            *)
(* docs/TEST-MATRIX.md asks testers to do it (main.cpp, dryRunFromSd and   *)
(* realInstall): what the dry run said holds of the install.               *)
(*                                                                         *)
(* Both find the same prod.keys on the card; without them the dry run goes *)
(* on and the install does not start.                                      *)
(***************************************************************************)
EXTENDS Installer

VARIABLES file, keys, dpc, at, plan, warned, short

D == INSTANCE DryRun WITH nsp <- file

dry == <<file, keys, dpc, at, plan, warned, short>>

RehearsalInit == Init /\ D!Init /\ nsp = file /\ keyset = keys

(* dryRunFromSd *)
DryRunFromSd == D!Next /\ UNCHANGED vars

(* realInstall: nothing is installed without prod.keys. *)
RealInstall ==
  /\ dpc = "done"
  /\ \/ keys # NoKeyset /\ Start /\ nsp' = file /\ keyset' = keys
     \/ Step
     \/ Crash
  /\ UNCHANGED dry

RehearsalNext == DryRunFromSd \/ RealInstall

RehearsalSpec == RehearsalInit /\ [][RehearsalNext]_<<vars, dry>>

-----------------------------------------------------------------------------
(* The install of the file that was rehearsed has returned ok. *)
Installed == dpc = "done" /\ plan.parsed /\ pc = "idle" /\ result.status = "ok"

(* "would write N NCA(s), import M ticket(s)": an install that returns ok   *)
(* reports the numbers that the dry run announced.                         *)
PlanKept == Installed => result.ncas = plan.ncaCount /\ result.tiks = plan.ticketCount

(* A bare .cnmt comes first, where the install looks and the dry run does  *)
(* not.                                                                    *)
BareCnmtFirst ==
  \E j \in DOMAIN file : file[j].kind = "cnmt" /\ \A k \in 1..j - 1 : ~IsMeta(file[k])

(* The meta target that the dry run read from a CNMT is the one whose meta *)
(* the install commits, also in a container of several titles.  An install *)
(* that commits a meta had it read by the dry run, with the same keys,     *)
(* unless a read of the dry run came short.                                *)
MetaAnnounced ==
  /\ Installed /\ plan.read /\ ~BareCnmtFirst => \E m \in committed : m.key = plan.key
  /\ Installed /\ committed # {} => plan.read \/ short > 0

(* Two readers, Cnmt::parse and buildNcmMeta, go over the same CNMT: the   *)
(* contents the dry run listed are the contents of the meta the install    *)
(* commits, in their order, behind the Meta NCA.                           *)
ReadersAgree ==
  Installed /\ plan.read =>
    \A m \in committed : m.key = plan.key => Tail(m.contents) = plan.contents

(* docs/TEST-MATRIX.md:57: "dry-run WARNS" of rights-id content without a   *)
(* ticket.  An install that leaves content without the ticket it needs was *)
(* warned of, unless some ticket was there, a header came short or there   *)
(* is one that the keys do not open.                                       *)
WarnsOfMissingTicket ==
  Installed /\ ~(NeededRights(file) \subseteq tickets)
    => \/ warned \/ short > 0 \/ TicketsOf(file) # {}
       \/ \E j \in DOMAIN file :
            IsContent(file[j]) /\ ~ParsesHeader(keys, file[j].image)

(* The warning is no false alarm: an install of that file leaves all of    *)
(* the rights it needs without a ticket.                                   *)
WarningIsTrue ==
  warned /\ Installed => NeededRights(file) # {} /\ NeededRights(file) \cap tickets = {}
=============================================================================
