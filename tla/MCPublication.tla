---------------------------- MODULE MCPublication ----------------------------
(***************************************************************************)
(* Small instances of Publication for TLC.  Deploy requests are opaque.    *)
(***************************************************************************)
EXTENDS Publication, TLC

Symmetry == Permutations(Deploys)
=============================================================================
