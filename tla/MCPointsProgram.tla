---------------------------- MODULE MCPointsProgram ----------------------------
(* A small instance of PointsProgram for TLC.                              *)
EXTENDS PointsProgram, TLC

MCSymmetry == Permutations(User)
================================================================================
