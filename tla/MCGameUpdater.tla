--------------------------- MODULE MCGameUpdater ---------------------------
(***************************************************************************)
(* Instances of GameUpdater for TLC.  Release names are interchangeable.   *)
(***************************************************************************)
EXTENDS GameUpdaterSessionProofs, TLC

CONSTANTS r1, r2, r3, r4

Symmetry == Permutations(Release)
=============================================================================
