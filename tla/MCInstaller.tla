----------------------------- MODULE MCInstaller -----------------------------
(* Installer with the containers of MCContainers. *)
EXTENDS Installer, MCContainers
=============================================================================
