------------------------- MODULE MCLandscapeClient -------------------------
(* LandscapeClient with the constants of the configurations MCLandscapeClient*.cfg. *)
EXTENDS LandscapeClient
=============================================================================
