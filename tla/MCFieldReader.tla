---------------------------- MODULE MCFieldReader ----------------------------
(* Instances of FieldReader: the utilization, read at every tick, and a     *)
(* field of a slower optional group.                                        *)
EXTENDS FieldReader, TLC

CONSTANTS util, temp, fast, operational

MCRank     == fast :> 1 @@ operational :> 2
MCGroupOf  == util :> fast @@ temp :> operational
MCInterval == fast :> 1 @@ operational :> 2
=============================================================================
