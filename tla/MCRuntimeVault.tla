--------------------------- MODULE MCRuntimeVault ---------------------------
(* Instances of RuntimeVault for TLC.                                        *)
EXTENDS RuntimeVault, TLC

MCSymmetry == Permutations(Passwords) \cup Permutations(Secrets)

AllFaults == {"kill", "damage", "keep", "write", "pass", "save", "apply"}

KeepFaults == {"damage", "keep"}

=============================================================================
