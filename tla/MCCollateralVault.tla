--------------------------- MODULE MCCollateralVault ---------------------------
(* Small instances of CollateralVault for TLC.                             *)
EXTENDS CollateralVault
================================================================================
