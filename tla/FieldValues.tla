----------------------------- MODULE FieldValues -----------------------------
(***************************************************************************)
(* What one value of DCGM means: the fields a watcher asks for, and        *)
(* applyFieldValue with its converters, as constant operators.             *)
(*                                                                         *)
(* A raw value of DCGM is [status, type, n]: its status ("ok" or not), the *)
(* type it carries ("int64", "double", "string") and its number. Numbers   *)
(* are integers that count parts of 1/One, so that ratios can be told      *)
(* apart; NotFinite stands for a NaN or an infinity. A double divided by a *)
(* unit is rounded down to such a part.                                    *)
(***************************************************************************)
EXTENDS Integers

CONSTANTS
    One,            \* the number of parts that make 1
    Int64Blank,     \* DCGM_FT_INT64_BLANK: such integers and larger mean "no value"
    FP64Blank,      \* DCGM_FT_FP64_BLANK, the same for doubles
    NotFinite,      \* NaN, +Inf or -Inf
    Nil             \* Go's nil pointer

ASSUME UnitAssumption == One \in Nat \ {0}
ASSUME BlankAssumption ==
    /\ FP64Blank \in Int /\ FP64Blank > 1000000 * One
    /\ Int64Blank \in Int /\ Int64Blank >= FP64Blank
ASSUME MarkAssumption == NotFinite \notin Int /\ Nil \notin Int

Raw == [status : {"ok", "no_data"}, type : {"int64", "double", "string"},
        n : Int \cup {NotFinite}]

-----------------------------------------------------------------------------
(***************************************************************************)
(* The fields asked for (DCGM_FI_DEV_ and DCGM_FI_PROF_ left out)          *)
(***************************************************************************)
fastRequiredFields == {"GPU_UTIL"}

fastOptionalFields ==
    {"MEM_COPY_UTIL", "POWER_USAGE", "FB_USED_PERCENT", "ENC_UTIL", "DEC_UTIL"}

operationalFields ==
    {"SM_CLOCK", "MEM_CLOCK", "GPU_TEMP", "GPU_MAX_OP_TEMP", "MEMORY_TEMP",
     "MEM_MAX_OP_TEMP", "FB_FREE", "FB_USED", "FB_TOTAL", "FB_RESERVED", "PSTATE",
     "FAN_SPEED", "BAR1_FREE", "BAR1_USED", "BAR1_TOTAL", "TOTAL_ENERGY_CONSUMPTION",
     "POWER_USAGE_INSTANT", "POWER_MGMT_LIMIT", "ENFORCED_POWER_LIMIT",
     "PCIE_LINK_GEN", "PCIE_LINK_WIDTH", "PCIE_MAX_LINK_GEN", "PCIE_MAX_LINK_WIDTH",
     "CLOCK_THROTTLE_REASONS"}

legacyRateFields == {"PCIE_TX_THROUGHPUT", "PCIE_RX_THROUGHPUT"}

violationFields ==
    {"POWER_VIOLATION", "THERMAL_VIOLATION", "SYNC_BOOST_VIOLATION",
     "BOARD_LIMIT_VIOLATION", "LOW_UTIL_VIOLATION", "RELIABILITY_VIOLATION",
     "TOTAL_APP_CLOCKS_VIOLATION", "TOTAL_BASE_CLOCKS_VIOLATION"}

reliabilityFields ==
    violationFields \cup
    {"PCIE_REPLAY_COUNTER", "XID_ERRORS", "ECC_SBE_VOL_TOTAL", "ECC_DBE_VOL_TOTAL",
     "ECC_SBE_AGG_TOTAL", "ECC_DBE_AGG_TOTAL", "RETIRED_SBE", "RETIRED_DBE",
     "RETIRED_PENDING", "CORRECTABLE_REMAPPED_ROWS", "UNCORRECTABLE_REMAPPED_ROWS",
     "ROW_REMAP_FAILURE", "ROW_REMAP_PENDING"}

activeFields ==
    {"GR_ENGINE_ACTIVE", "SM_ACTIVE", "SM_OCCUPANCY", "DRAM_ACTIVE",
     "PIPE_TENSOR_ACTIVE", "PIPE_FP64_ACTIVE", "PIPE_FP32_ACTIVE", "PIPE_FP16_ACTIVE",
     "PIPE_INT_ACTIVE", "PIPE_TENSOR_HMMA_ACTIVE", "PIPE_TENSOR_IMMA_ACTIVE",
     "PIPE_TENSOR_DFMA_ACTIVE"}

profFields ==
    activeFields \cup
    {"PCIE_TX_BYTES", "PCIE_RX_BYTES", "NVLINK_TX_BYTES", "NVLINK_RX_BYTES"}

monitoredFields ==
    fastRequiredFields \cup fastOptionalFields \cup operationalFields
        \cup legacyRateFields \cup reliabilityFields \cup profFields

-----------------------------------------------------------------------------
(***************************************************************************)
(* Decoding                                                                *)
(***************************************************************************)
(* The converter applyFieldValue uses for a field; the fields it has no    *)
(* special one for are plain non-negative numbers.                         *)
Converter(f) ==
    CASE f \in {"GPU_UTIL", "MEM_COPY_UTIL"}             -> "percent"
      [] f \in {"ENC_UTIL", "DEC_UTIL", "FAN_SPEED"}     -> "percentNumber"
      [] f \in activeFields                              -> "ratio01"
      [] f = "FB_USED_PERCENT"                           -> "ratio01Percent"
      [] f = "GPU_TEMP"                                  -> "temperature"
      [] f \in {"MEMORY_TEMP", "MEM_MAX_OP_TEMP"}        -> "temperatureNumber"
      [] f = "GPU_MAX_OP_TEMP"                           -> "int64"
      [] f \in {"FB_FREE", "FB_USED", "FB_TOTAL", "FB_RESERVED",
                "BAR1_FREE", "BAR1_USED", "BAR1_TOTAL"}  -> "mib"
      [] f = "CLOCK_THROTTLE_REASONS"                    -> "uint64"
      [] f = "POWER_USAGE"                               -> "powerDraw"
      [] f = "POWER_MGMT_LIMIT"                          -> "powerLimit"
      [] f \in {"SM_CLOCK", "MEM_CLOCK"}                 -> "megahertz"
      [] f \in legacyRateFields                          -> "kibPerSecond"
      [] f = "TOTAL_ENERGY_CONSUMPTION"                  -> "milliJoules"
      [] f \in violationFields                           -> "nanoseconds"
      [] OTHER                                           -> "nonNegativeNumber"

Numbers == 0..Int64Blank
Ratios  == 0..One
UpTo(n) == 0..(n * One)

(* The numbers a converter accepts from an integer and from a double. A    *)
(* power limit is a positive double, or any integer below a million.       *)
AcceptsInt64(c) ==
    CASE c \in {"percent", "percentNumber"}              -> UpTo(100)
      [] c \in {"temperature", "temperatureNumber"}      -> UpTo(150)
      [] c \in {"ratio01", "ratio01Percent", "powerDraw"} -> {}
      [] c = "int64"                                     -> Int
      [] c = "powerLimit"                                -> {n \in Int : n < 1000000 * One}
      [] OTHER                                           -> Numbers

AcceptsDouble(c) ==
    CASE c = "percentNumber"                             -> UpTo(100)
      [] c = "temperatureNumber"                         -> UpTo(150)
      [] c \in {"ratio01", "ratio01Percent"}             -> Ratios
      [] c = "powerDraw"                                 -> UpTo(1000000)
      [] c = "powerLimit"                                -> 1..(1000000 * One)
      [] c \in {"percent", "temperature", "int64", "mib", "uint64"} -> {}
      [] OTHER                                           -> Numbers

(* int64Value and float64Value                                             *)
Blank(v) ==
    IF v.type = "int64" THEN v.n >= Int64Blank
                        ELSE v.n = NotFinite \/ v.n >= FP64Blank

fieldSuccessful(v) == v.status = "ok"

(* A number in the unit of its metric.                                     *)
InUnit(c, n) ==
    CASE c = "ratio01Percent" -> n * 100
      [] c = "mib"            -> n * 1048576
      [] c = "megahertz"      -> n * 1000000
      [] c = "kibPerSecond"   -> n * 1024
      [] c = "milliJoules"    -> n \div 1000
      [] c = "nanoseconds"    -> n \div 1000000000
      [] OTHER                -> n

(* What applyFieldValue makes of a value: a number, or nil.                *)
Accepted(c, v) ==
    /\ fieldSuccessful(v)
    /\ v.type \in {"int64", "double"}
    /\ ~Blank(v)
    /\ v.n \in (IF v.type = "int64" THEN AcceptsInt64(c) ELSE AcceptsDouble(c))

Decoded(f, v) ==
    LET c == Converter(f)
    IN  IF Accepted(c, v) THEN InUnit(c, v.n) ELSE Nil

=============================================================================
