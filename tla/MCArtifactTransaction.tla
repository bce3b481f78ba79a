----------------------- MODULE MCArtifactTransaction -----------------------
(* Small instances of ArtifactTransaction for TLC. *)
EXTENDS ArtifactTransaction, TLC

Symmetry == Permutations(Contents)
=============================================================================
