--------------------------- MODULE MCConfiguration ---------------------------
(* Instances of Configuration for TLC. Numbers and blanks of FieldValues do *)
(* not matter here.                                                         *)
EXTENDS Configuration, TLC

CONSTANTS nil, nan, unset, malformed

(* Unset, wrong in every way, and from a fifth of the shortest default to   *)
(* eight times the longest: the code sets no limits.                        *)
Usual    == {unset, malformed, 0, 20, 120000}

MCThresholds == {unset, malformed, nan, -1, 0, 50}

MCInt64Blank == 2147483640
MCFP64Blank  == 2100000000
=============================================================================
