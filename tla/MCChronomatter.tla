--------------------------- MODULE MCChronomatter ---------------------------
(* Instances of Chronomatter for TLC.                                        *)
EXTENDS Chronomatter, TLC

\* Request threads are interchangeable.
StamperSymmetry == Permutations(Stampers)
=============================================================================
