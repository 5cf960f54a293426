------------------------------ MODULE MC_Ports ------------------------------
(* The instances of PortAllocation that TLC checks.                        *)
EXTENDS PortAllocation
CONSTANTS i1, i2, w1, w2
=============================================================================
