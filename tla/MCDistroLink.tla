---------------------------- MODULE MCDistroLink ----------------------------
(* DistroLink with the constants of the configurations MCDistroLink*.cfg. *)
EXTENDS DistroLink
=============================================================================
