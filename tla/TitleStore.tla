----------------------------- MODULE TitleStore ------------------------------
(***************************************************************************)
(* What an install promises to the console, without how it is done: the    *)
(* order in which a container becomes visible.  Contents are laid down in  *)
(* any order and may be laid down again; a ticket is granted only once all *)
(* contents of the container are there; metas are published only once its  *)
(* contents and tickets are there, and only metas whose own container is.  *)
(* An install may end at any point, and nothing is taken back.             *)
(***************************************************************************)
EXTENDS Container

VARIABLES active,     \* an install is under way
          nsp,        \* its container
          laid,       \* ids of the contents registered
          granted,    \* rights ids with a ticket
          published   \* metas the console's database shows

vars == <<active, nsp, laid, granted, published>>

Init ==
  /\ active = FALSE /\ nsp \in Containers
  /\ laid = {} /\ granted = {} /\ published = {}

(* All of container b is in place. *)
InPlace(b) == ContentIdsOf(b) \subseteq laid /\ TicketsOf(b) \subseteq granted

Begin ==
  /\ ~active /\ active' = TRUE
  /\ nsp' \in Containers
  /\ UNCHANGED <<laid, granted, published>>

Lay ==
  /\ active
  /\ \E id \in ContentIdsOf(nsp) : laid' = laid \cup {id}
  /\ UNCHANGED <<active, nsp, granted, published>>

Grant ==
  /\ active /\ ContentIdsOf(nsp) \subseteq laid
  /\ \E r \in TicketsOf(nsp) : granted' = granted \cup {r}
  /\ UNCHANGED <<active, nsp, laid, published>>

(* A commit may publish metas that earlier installs staged as well. *)
Publish ==
  /\ active /\ InPlace(nsp)
  /\ \E new \in SUBSET UNION {MetasOf(b) : b \in Containers} :
       /\ \A m \in new : \E b \in Containers : m \in MetasOf(b) /\ InPlace(b)
       /\ published' = {m \in published : \A n \in new : n.key # m.key} \cup new
  /\ UNCHANGED <<active, nsp, laid, granted>>

End ==
  /\ active /\ active' = FALSE
  /\ UNCHANGED <<nsp, laid, granted, published>>

Next == Begin \/ Lay \/ Grant \/ Publish \/ End

Spec == Init /\ [][Next]_vars

=============================================================================
