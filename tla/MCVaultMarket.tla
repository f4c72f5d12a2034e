----------------------------- MODULE MCVaultMarket -----------------------------
(* Small instances of VaultMarket for TLC.                                 *)
EXTENDS VaultMarket, TLC

Symmetry == Permutations(Trader)
================================================================================
