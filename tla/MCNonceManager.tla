----------------------------- MODULE MCNonceManager -----------------------------
(* Small instances of NonceManager for TLC.                                *)
EXTENDS NonceManager
================================================================================
