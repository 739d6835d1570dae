-------------------------- MODULE MCUploadBudget --------------------------
(* Instances of UploadBudget for TLC. *)
EXTENDS UploadBudget, TLC

CONSTANTS s1, s2

TwoSessions == {s1, s2}
Symmetry == Permutations(Session)
============================================================================
