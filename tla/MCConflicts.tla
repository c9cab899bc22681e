---------------------------- MODULE MCConflicts ----------------------------
(* Conflicts for TLC.  Figures are interchangeable, and so are the documents   *)
(* that are not protected.                                                     *)
EXTENDS Conflicts, TLC

Symmetry == Permutations(Figures) \cup Permutations(Docs \ Protected)
=============================================================================
