---------------------------- MODULE SampleGauges ----------------------------
(***************************************************************************)
(* The numbers of one GPU, from DCGM's values to the registry: Samples     *)
(* starts a sample from the cached identity, readWatcher applies values to *)
(* its targets in the order of their times and keeps the status of their   *)
(* fields, collectSample writes what the targets hold at the end into the  *)
(* gauges and hands the observations on.                                   *)
(*                                                                         *)
(* A number is in the unit of its metric (see FieldValues). The clock      *)
(* counts values, so every value has its own time; 0 is Go's zero time.    *)
(* Which groups are due and which reads fail is FieldReader's: here a read *)
(* returns any values, and a field none was returned for may become        *)
(* unavailable.                                                            *)
(***************************************************************************)
EXTENDS FieldValues

CONSTANTS
    Field,      \* the fields
    Cards,      \* the sets of fields a GPU may support
    Devices,    \* what GetDeviceInfo may answer, [power, total]
    RawOf,      \* the raw values DCGM may return for each field
    MaxValues   \* bound: how many values are returned in all

Memory == {"FB_FREE", "FB_USED", "FB_TOTAL"}

ASSUME FieldAssumption ==
    /\ Field \subseteq monitoredFields
    /\ Memory \cup {"POWER_MGMT_LIMIT"} \subseteq Field
    /\ "PCIE_TX_BYTES" \in Field <=> "PCIE_TX_THROUGHPUT" \in Field
    /\ "PCIE_RX_BYTES" \in Field <=> "PCIE_RX_THROUGHPUT" \in Field
ASSUME CardAssumption == Cards \subseteq SUBSET Field
ASSUME DeviceAssumption == Devices \subseteq [power : Nat, total : Nat]
ASSUME RawAssumption ==
    /\ RawOf \in [Field -> SUBSET Raw]
    /\ \A f \in Field : \A v \in RawOf[f] : v.type = "int64" => v.n \in Int
ASSUME ValuesAssumption == MaxValues \in Nat

VARIABLES
    watched,    \* the fields the GPU's watcher asks for
    identity,   \* DCGMClient.devices: [limit, total] of the GPU
    pc,         \* "idle", or "read" while a sample is under construction
    clock,      \* the time of the newest value
    sample,     \* GPUSample: the target of each field, a number or Nil
    seen,       \* readWatcher: the fields this sample has had values for
    status,     \* watcher: fieldStates, [available, last] for each field
    obs,        \* GPUSample.Observations, a set of [field, n, ts]
    gauge,      \* registry: the number last written for each field, or Nil
    dated,      \* registry: gpu_dcgm_field_last_success_timestamp_seconds
    latest,     \* history: the newest valid number DCGM returned, [n, ts]
    missed      \* history: fields whose newest valid number was dropped

vars == <<watched, identity, pc, clock, sample, seen, status, obs, gauge, dated,
          latest, missed>>

NumberOrNil == Int \cup {Nil}
Time        == 0..MaxValues

(* The targets a new sample has before any value: the limit and the memory *)
(* of the identity.                                                        *)
IdentityUnchecked(device) ==      \* mutant: an unknown limit is taken for 0
    [limit |-> device.power, total |-> device.total]

IdentityOf(device) ==
    [limit |-> IF device.power > 0 THEN device.power ELSE Nil,
     total |-> IF device.total > 0 THEN device.total ELSE Nil]

NewSample ==
    [f \in Field |-> CASE f = "POWER_MGMT_LIMIT" -> identity.limit
                       [] f = "FB_TOTAL"         -> identity.total
                       [] OTHER                  -> Nil]

Init ==
    /\ watched \in Cards
    /\ \E d \in Devices : identity = IdentityOf(d)
    /\ pc = "idle"
    /\ clock = 0
    /\ sample = [f \in Field |-> Nil]
    /\ seen = {}
    /\ status = [f \in Field |-> [available |-> FALSE, last |-> 0]]
    /\ obs = {}
    /\ gauge = [f \in Field |-> Nil]
    /\ dated = [f \in Field |-> 0]
    /\ latest = [f \in Field |-> [n |-> Nil, ts |-> 0]]
    /\ missed = {}

StartSample ==
    /\ pc = "idle"
    /\ pc' = "read"
    /\ sample' = NewSample
    /\ seen' = {}
    /\ obs' = {}
    /\ UNCHANGED <<watched, identity, clock, status, gauge, dated, latest, missed>>

(* applyFieldValue: the target of a field after a value. A value that is   *)
(* not successful leaves it alone; any other empties it first.             *)
TargetKept(f, v) ==      \* mutant: a value that is refused leaves the target alone
    IF Decoded(f, v) # Nil THEN Decoded(f, v) ELSE sample[f]

TargetAfter(f, v) == IF fieldSuccessful(v) THEN Decoded(f, v) ELSE sample[f]

(* One value of readWatcher's loop. The observation and the status are     *)
(* taken from the target.                                                  *)
Apply(f, v) ==
    LET target == TargetAfter(f, v)
        ok     == fieldSuccessful(v) /\ target # Nil
    IN  /\ pc = "read" /\ clock < MaxValues
        /\ clock' = clock + 1
        /\ sample' = [sample EXCEPT ![f] = target]
        /\ seen' = seen \cup {f}
        /\ status' = [status EXCEPT ![f] =
                        [available |-> ok, last |-> IF ok THEN clock' ELSE @.last]]
        /\ obs' = IF ok THEN obs \cup {[field |-> f, n |-> target, ts |-> clock']} ELSE obs
        /\ latest' = IF Decoded(f, v) # Nil
                     THEN [latest EXCEPT ![f] = [n |-> Decoded(f, v), ts |-> clock']]
                     ELSE latest
        /\ UNCHANGED <<watched, identity, pc, gauge, dated, missed>>

(* Fields without a value in this read may turn out too old, or their read *)
(* fails.                                                                  *)
Silenced(silent) ==
    [f \in Field |-> IF f \in silent THEN [status[f] EXCEPT !.available = FALSE]
                                     ELSE status[f]]

Observed == {o.field : o \in obs}

(* The fast group's read failed: the sample is dropped.                    *)
Drop ==
    /\ pc = "read"
    /\ pc' = "idle"
    /\ \E silent \in SUBSET (watched \ seen) : status' = Silenced(silent)
    /\ missed' = missed \cup Observed
    /\ UNCHANGED <<watched, identity, clock, sample, seen, obs, gauge, dated, latest>>

(* Samples: free memory that was not reported follows from the rest.       *)
RoomUnchecked(total, used) == total - used    \* mutant: no lower bound

Room(total, used) == IF total >= used THEN total - used ELSE 0

FreeMemory ==
    IF sample["FB_FREE"] = Nil /\ sample["FB_TOTAL"] # Nil /\ sample["FB_USED"] # Nil
    THEN Room(sample["FB_TOTAL"], sample["FB_USED"])
    ELSE sample["FB_FREE"]

firstPointer(m, n) == IF m # Nil THEN m ELSE n

(* What collectSample passes to the gauge of a field; the legacy PCIe      *)
(* fields have none of their own.                                          *)
Output(f) ==
    CASE f = "FB_FREE"             -> FreeMemory
      [] f = "PCIE_TX_BYTES"       -> firstPointer(sample[f], sample["PCIE_TX_THROUGHPUT"])
      [] f = "PCIE_RX_BYTES"       -> firstPointer(sample[f], sample["PCIE_RX_THROUGHPUT"])
      [] f \in legacyRateFields    -> Nil
      [] OTHER                     -> sample[f]

setGauge(f) == IF Output(f) # Nil THEN Output(f) ELSE gauge[f]

Publish ==
    /\ pc = "read"
    /\ pc' = "idle"
    /\ \E silent \in SUBSET (watched \ seen) : status' = Silenced(silent)
    /\ gauge' = [f \in Field |-> setGauge(f)]
    /\ dated' = [f \in Field |-> status'[f].last]
    /\ missed' = missed \ Observed
    /\ UNCHANGED <<watched, identity, clock, sample, seen, obs, latest>>

Next ==
    \/ StartSample
    \/ \E f \in watched : \E v \in RawOf[f] : Apply(f, v)
    \/ Drop
    \/ Publish

Spec == Init /\ [][Next]_vars

-----------------------------------------------------------------------------
(***************************************************************************)
(* Properties                                                              *)
(***************************************************************************)
(* The types of all variables.                                             *)
TypeOK ==
    /\ watched \in Cards
    /\ identity \in [limit : (Nat \ {0}) \cup {Nil}, total : (Nat \ {0}) \cup {Nil}]
    /\ pc \in {"idle", "read"}
    /\ clock \in Time
    /\ sample \in [Field -> NumberOrNil]
    /\ seen \subseteq watched
    /\ status \in [Field -> [available : BOOLEAN, last : Time]]
    /\ obs \subseteq [field : watched, n : Int, ts : Time]
    /\ gauge \in [Field -> NumberOrNil]
    /\ dated \in [Field -> Time]
    /\ latest \in [Field -> [n : NumberOrNil, ts : Time]]
    /\ missed \subseteq watched

Percents == {"GPU_UTIL", "MEM_COPY_UTIL", "ENC_UTIL", "DEC_UTIL", "FAN_SPEED",
             "FB_USED_PERCENT"}

(* Whether n is a number the metric of field f can have. An integer limit  *)
(* and the highest operating temperature are not checked by the code.      *)
Sensible(f, n) ==
    CASE f \in activeFields -> n \in 0..One
      [] f \in Percents     -> n \in 0..100 * One
      [] f \in {"GPU_TEMP", "MEMORY_TEMP", "MEM_MAX_OP_TEMP"} -> n \in 0..150 * One
      [] f \in {"POWER_MGMT_LIMIT", "GPU_MAX_OP_TEMP"} -> TRUE
      [] OTHER              -> n >= 0

(* README.md:288: "Every ratio is strictly in the 0-1 range". Whatever     *)
(* DCGM returns, blank, of another type or out of range, windows, counters *)
(* and gauges only ever get numbers that make sense for their metric, free *)
(* memory that Samples works out by itself included.                       *)
NumbersAreSensible ==
    /\ \A o \in obs : Sensible(o.field, o.n)
    /\ \A f \in Field : gauge[f] # Nil => Sensible(f, gauge[f])

(* The metrics that show another field's number, or one of the identity,   *)
(* in a pass that has none of their own field.                             *)
Substituted == {"POWER_MGMT_LIMIT", "FB_TOTAL", "FB_FREE", "PCIE_TX_BYTES", "PCIE_RX_BYTES"}

(* readWatcher and collectSample: between two passes the gauge of a field  *)
(* that is available shows its newest valid number, and its timestamp is   *)
(* that number's, over blanks, silent passes and passes that were dropped; *)
(* unless that number was dropped with a sample, or another stood in.      *)
AvailableGaugeIsLatest ==
    pc = "idle" =>
        \A f \in watched \ (missed \cup legacyRateFields) :
            status[f].available /\ (f \in Substituted => f \in seen) =>
                gauge[f] = latest[f].n /\ dated[f] = latest[f].ts

=============================================================================
