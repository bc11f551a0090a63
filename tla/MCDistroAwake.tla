---------------------------- MODULE MCDistroAwake ----------------------------
(* DistroAwake with the constants of the configuration MCDistroAwake.cfg.  *)
EXTENDS DistroAwake
=============================================================================
