---------------------------- MODULE Configuration ----------------------------
(***************************************************************************)
(* The configuration, from the environment to what runs on it: LoadConfig  *)
(* reads the variables, falling back on defaults; NewDCGMClient takes from *)
(* it how often each group of fields is recorded and read, Exporter.Run    *)
(* its two tickers, and the exporter how wide a gap between two            *)
(* observations may be integrated.                                         *)
(*                                                                         *)
(* Durations are integers in milliseconds. The settings that decide nothing*)
(* here are left out: the address, the log level, the shortest request (a  *)
(* duration like the others, a constant of Windows), and the mode of DCGM, *)
(* which decides whether DCGM opens (Lifecycle).                           *)
(***************************************************************************)
EXTENDS FieldValues

CONSTANTS
    Durations,      \* what the environment may say of an interval
    Thresholds,     \* what it may say of the threshold
    Unset,          \* the variable is not set, or empty
    Malformed       \* text that does not parse

Setting == Int \cup {Unset, Malformed, NotFinite}

ASSUME SettingAssumption ==
    /\ Durations \subseteq Int \cup {Unset, Malformed}
    /\ Thresholds \subseteq Setting
    /\ Unset \notin Int /\ Malformed \notin Int

Interval  == {"SCRAPE", "PROFILING", "OPERATIONAL", "RELIABILITY", "WINDOW"}
Watched   == {"fast", "operational", "legacy", "reliability", "dcp"}

VARIABLES
    env,        \* the environment: [Interval \cup {"THRESHOLD"} -> Setting]
    pc,         \* "start", "configured", "client", "running"
    cfg,        \* Config: the interval of each name, and the threshold
    interval,   \* DCGMClient: the interval of each group of a watcher
    period,     \* Exporter.Run: the period of the collect ticker
    window      \* Exporter.Run: the period of the window ticker

vars == <<env, pc, cfg, interval, period, window>>

Default == [SCRAPE |-> 100, PROFILING |-> 500, OPERATIONAL |-> 1000,
            RELIABILITY |-> 10000, WINDOW |-> 15000, THRESHOLD |-> 1]

Init ==
    /\ \E d \in [Interval -> Durations], t \in Thresholds :
         env = [k \in Interval \cup {"THRESHOLD"} |-> IF k = "THRESHOLD" THEN t ELSE d[k]]
    /\ pc = "start"
    /\ cfg = [k \in DOMAIN Default |-> 0]
    /\ interval = [g \in Watched |-> 0]
    /\ period = 0 /\ window = 0

-----------------------------------------------------------------------------
Given(k) == env[k] \notin {Unset, Malformed}

durationAny(k) ==                  \* mutant: zero and negative durations pass
    IF Given(k) THEN env[k] ELSE Default[k]

durationEnv(k) ==
    IF Given(k) /\ env[k] > 0 THEN env[k] ELSE Default[k]

(* A NaN parses, and is not less than 0.                                   *)
floatEnv(k) ==
    IF Given(k) /\ (env[k] = NotFinite \/ env[k] >= 0) THEN env[k] ELSE Default[k]

LoadConfig ==
    /\ pc = "start"
    /\ cfg' = [k \in DOMAIN Default |->
                 IF k = "THRESHOLD" THEN floatEnv(k) ELSE durationEnv(k)]
    /\ pc' = "configured"
    /\ UNCHANGED <<env, interval, period, window>>

durationOrDefault(k) == IF cfg[k] <= 0 THEN Default[k] ELSE cfg[k]

NewDCGMClient ==
    /\ pc = "configured"
    /\ interval' = [fast        |-> durationOrDefault("SCRAPE"),
                    operational |-> durationOrDefault("OPERATIONAL"),
                    legacy      |-> durationOrDefault("PROFILING"),
                    reliability |-> durationOrDefault("RELIABILITY"),
                    dcp         |-> durationOrDefault("PROFILING")]
    /\ pc' = "client"
    /\ UNCHANGED <<env, cfg, period, window>>

Run ==
    /\ pc = "client"
    /\ period' = durationOrDefault("SCRAPE")
    /\ window' = durationOrDefault("WINDOW")
    /\ pc' = "running"
    /\ UNCHANGED <<env, cfg, interval>>

Next == LoadConfig \/ NewDCGMClient \/ Run

Spec == Init /\ [][Next]_vars

-----------------------------------------------------------------------------
(***************************************************************************)
(* What the configuration decides later                                    *)
(***************************************************************************)
(* ensureWatcher: the candidates of each group of a watcher.               *)
fieldsOf ==
    [fast        |-> fastRequiredFields \cup fastOptionalFields,
     operational |-> operationalFields,
     legacy      |-> legacyRateFields,
     reliability |-> reliabilityFields,
     dcp         |-> profFields]

(* The groups that may watch field f.                                      *)
GroupsOf(f) == {g \in Watched : f \in fieldsOf[g]}

(* maxObservationGap: the exporter sorts the fields by itself.             *)
GapByLists(f) ==                   \* mutant: the legacy rate fields are overlooked
    10 * CASE f \in profFields        -> durationOrDefault("PROFILING")
           [] f \in operationalFields -> durationOrDefault("OPERATIONAL")
           [] f \in reliabilityFields -> durationOrDefault("RELIABILITY")
           [] OTHER                   -> durationOrDefault("SCRAPE")

maxObservationGap(f) ==
    10 * CASE f \in profFields \cup legacyRateFields -> durationOrDefault("PROFILING")
           [] f \in operationalFields -> durationOrDefault("OPERATIONAL")
           [] f \in reliabilityFields -> durationOrDefault("RELIABILITY")
           [] OTHER                   -> durationOrDefault("SCRAPE")

-----------------------------------------------------------------------------
(***************************************************************************)
(* Properties                                                              *)
(***************************************************************************)
Running == pc = "running"

(* The types of all variables. In particular every period is positive:     *)
(* time.NewTicker panics otherwise; and the threshold is not negative,     *)
(* though it may be no number at all.                                      *)
TypeOK ==
    /\ env \in [Interval \cup {"THRESHOLD"} -> Setting]
    /\ pc \in {"start", "configured", "client", "running"}
    /\ DOMAIN cfg = DOMAIN Default
    /\ \A k \in Interval : cfg[k] \in Int /\ (pc # "start" => cfg[k] > 0)
    /\ cfg.THRESHOLD \in Nat \cup {NotFinite}
    /\ interval \in [Watched -> Int]
    /\ Running => period > 0 /\ window > 0

(* maxObservationGap against ensureWatcher, which sort the fields on their *)
(* own: whatever is configured, ten values of a field may be missing       *)
(* before the time between two of them is no longer integrated.            *)
GapIsTenIntervals ==
    Running => \A f \in monitoredFields :
                   \A g \in GroupsOf(f) : maxObservationGap(f) = 10 * interval[g]

=============================================================================
