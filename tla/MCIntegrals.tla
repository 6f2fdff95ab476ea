----------------------------- MODULE MCIntegrals -----------------------------
(* Instance of Integrals: the two fields of the PCIe transmit rate, where   *)
(* the legacy field stands in for the DCP one.                              *)
EXTENDS Integrals, TLC

CONSTANTS legacy, dcp, pcie

MCMetricOf  == legacy :> pcie @@ dcp :> pcie
MCPreferred == legacy :> dcp @@ dcp :> None
MCMaxGap    == legacy :> 3 @@ dcp :> 3
=============================================================================
