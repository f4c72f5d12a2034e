----------------------------- MODULE MCVaultIndexer -----------------------------
(* Small instances of VaultIndexer for TLC.                                *)
EXTENDS VaultIndexer
================================================================================
