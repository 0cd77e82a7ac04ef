------------------------------- MODULE MCMirror -------------------------------
(* Instances of Mirror for TLC. *)
EXTENDS Mirror, TLC

\* Workers and peers are interchangeable (not used where liveness is checked).
PoolSymmetry == Permutations(Workers) \cup Permutations(Peers)
=============================================================================
