----------------------------- MODULE MCRehearsal -----------------------------
(* Rehearsal with the containers of MCContainers. *)
EXTENDS Rehearsal, MCContainers
=============================================================================
