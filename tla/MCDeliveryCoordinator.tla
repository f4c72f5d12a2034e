------------------------- MODULE MCDeliveryCoordinator -------------------------
(* Small instances of DeliveryCoordinator for TLC.                         *)
EXTENDS DeliveryCoordinator

MCOnce == [a \in Account |-> 1]
================================================================================
