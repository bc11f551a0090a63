------------------------ MODULE MCLandscapeExecutor ------------------------
(* LandscapeExecutor with the constants of MCLandscapeExecutor.cfg. *)
EXTENDS LandscapeExecutor, TLC

\* Names differ in nothing but what befalls them.  Load numbers its objects in an order of the
\* names, but no property, and no step but the choice of the next number, looks at a number.
Symmetry == Permutations(Names)
=============================================================================
