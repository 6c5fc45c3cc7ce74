---------------------------- MODULE MCVaultSync -----------------------------
(* Two devices sharing a store of two versions.                            *)
EXTENDS VaultSync, TLC

Symmetry == Permutations(Device) \cup Permutations(Key)
=============================================================================
