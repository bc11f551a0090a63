---------------------------- MODULE MCProSystem ----------------------------
(* ProSystem with the constants of MCProSystem.cfg. *)
EXTENDS ProSystem
=============================================================================
