----------------------------- MODULE MCCollector -----------------------------
(* Instances of Collector for TLC: two slots whose NVML indexes are swapped *)
(* against the DCGM ids, so that an index is never taken for an id.         *)
EXTENDS Collector, TLC

CONSTANTS a, b

MCSlot  == {0, 1}
MCBoard == {a, b}
MCIndex == [s \in MCSlot |-> 1 - s]

(* Every slot has its own board.                                            *)
HomesApart  == (0 :> {a} @@ 1 :> {b})
(* Any board may sit in any slot.                                           *)
HomesShared == [s \in MCSlot |-> {a, b}]

(* All calls but the query of the NVML index, to keep the instance small.  *)
ButIndex == {"list", "identity", "watch", "read"}
=============================================================================
