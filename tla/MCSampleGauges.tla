--------------------------- MODULE MCSampleGauges ---------------------------
(* Instances of SampleGauges: one field for each converter, and the groups  *)
(* of fields whose numbers meet in one metric. Numbers count halves; limits *)
(* of ranges and the numbers next to them are among the raw values.         *)
EXTENDS SampleGauges, TLC

CONSTANTS nil, nan

MCInt64Blank == 2147483640
MCFP64Blank  == 2100000000

I(n) == [status |-> "ok", type |-> "int64", n |-> n]
D(n) == [status |-> "ok", type |-> "double", n |-> n]

NoData == [status |-> "no_data", type |-> "int64", n |-> 2]
Text   == [status |-> "ok", type |-> "string", n |-> 2]
Blanks == {I(MCInt64Blank), D(MCFP64Blank), D(nan), NoData, Text}

PerConverter ==
       "GPU_UTIL"  :> {I(-2), I(0), I(200), I(202), D(100)}
    @@ "FAN_SPEED" :> {I(200), D(201), D(-1), D(3)}
    @@ "SM_ACTIVE" :> {D(0), D(2), D(3), D(-1), I(2)}
    @@ "FB_USED_PERCENT" :> {D(1), D(2), D(3), I(2)}
    @@ "GPU_TEMP" :> {I(-2), I(300), I(302)}
    @@ "MEMORY_TEMP" :> {D(301), I(300), D(-1)}
    @@ "GPU_MAX_OP_TEMP" :> {I(-2), I(400), D(100)}
    @@ "CLOCK_THROTTLE_REASONS" :> {I(-2), I(8), D(8)}
    @@ "POWER_USAGE" :> {D(1), D(2000000), D(2000001), I(100)}
    @@ "SM_CLOCK" :> {I(2000), D(1), I(-2)}
    @@ "TOTAL_ENERGY_CONSUMPTION" :> {I(2000), D(1000), I(-2)}
    @@ "POWER_VIOLATION" :> {I(2000000000), I(0)}
    @@ "XID_ERRORS" :> {I(0), I(62), D(62), I(-2)}

Shared ==
       "POWER_MGMT_LIMIT" :> {D(600), D(0), I(2000000), I(500)}
    @@ "FB_FREE" :> {I(6), I(MCInt64Blank)}
    @@ "FB_USED" :> {I(2), I(20), I(-2)}
    @@ "FB_TOTAL" :> {I(8), I(MCInt64Blank)}
    @@ "PCIE_TX_BYTES" :> {D(5), D(nan)}
    @@ "PCIE_TX_THROUGHPUT" :> {I(4), NoData}

MCRawOf == [f \in DOMAIN PerConverter |-> PerConverter[f] \cup Blanks] @@ Shared

MCField == DOMAIN MCRawOf

MCCards ==
    {{f} : f \in DOMAIN PerConverter}
    \cup {{"POWER_MGMT_LIMIT"}, Memory, {"FB_USED", "FB_TOTAL"},
          {"PCIE_TX_BYTES", "PCIE_TX_THROUGHPUT"}}

MCDevices == [power : {0, 500}, total : {0, 10485760}]
=============================================================================
