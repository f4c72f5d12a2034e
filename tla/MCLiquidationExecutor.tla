------------------------- MODULE MCLiquidationExecutor -------------------------
(* Small instances of LiquidationExecutor for TLC.                         *)
EXTENDS LiquidationExecutor

CONSTANTS u1, u2

\* Either account may be the worse one, and a stale snapshot of either may be
\* worse or better than the truth about the other.
MCLevel == u1 :> {-3, -1, 0} @@ u2 :> {-2, 0}
================================================================================
