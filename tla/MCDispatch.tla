----------------------------- MODULE MCDispatch -----------------------------
(* Small instances of ManagerDispatch for TLC. *)
EXTENDS ManagerDispatch, TLC

PodSymmetry == Permutations(Pods)

=============================================================================
