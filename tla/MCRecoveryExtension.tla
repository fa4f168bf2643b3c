------------------------ MODULE MCRecoveryExtension ------------------------
(* Model-checking instance of RecoveryExtension.                            *)
EXTENDS RecoveryExtension, TLC

\* Callers and texts are only compared for equality.
Symmetry == Permutations(Caller) \cup Permutations(Text)
=============================================================================
