----------------------------- MODULE MCEnvSync -----------------------------
(* Small instances of EnvSync for TLC.                                     *)
EXTENDS EnvSync, TLC

Symmetry == Permutations(Readers) \cup Permutations(Syncers)
=============================================================================
