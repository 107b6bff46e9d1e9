---------------------------- MODULE MCDriftSweep ----------------------------
(* DriftSweep for TLC; the constants are given in MCDriftSweep_*.cfg. *)
EXTENDS DriftSweep, TLC

\* The contents a tag may point to are interchangeable.
DigestSymmetry == Permutations(Digests)

=============================================================================
