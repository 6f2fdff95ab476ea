------------------------------ MODULE MCPipeline ------------------------------
(* Instances of Pipeline: the utilization in the fast group and a DCP field *)
(* in a slower one; or the two fields of the PCIe transmit rate, each in a  *)
(* group of its own.                                                        *)
EXTENDS Pipeline, TLC

CONSTANTS util, legacy, dcp, fast, rates, prof, active, pcie

MCRank      == [g \in Group |-> CASE g = fast -> 1 [] g = rates -> 2 [] g = prof -> 3]
MCGroupOf   == [f \in Field |-> CASE f = util -> fast [] f = legacy -> rates [] f = dcp -> prof]
MCInterval  == [g \in Group |-> IF g = prof THEN 2 ELSE 1]
MCMetricOf  == [f \in Field |-> IF f = util THEN active ELSE pcie]
MCPreferred == [f \in Field |-> IF f = legacy THEN dcp ELSE None]
MCMaxGap    == [f \in Field |-> 3]
=============================================================================
