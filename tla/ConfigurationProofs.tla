------------------------- MODULE ConfigurationProofs -------------------------
(* Theorems about Configuration for any settings.                           *)
EXTENDS Configuration, TLAPS

(***************************************************************************)
(* The inductive invariant. Once configured, every interval is its default *)
(* or a positive duration that the environment gave; the client has the    *)
(* intervals of its groups, and the tickers their periods, from there.     *)
(***************************************************************************)
Usable(k) == {Default[k]} \cup {d \in Durations \cap Int : d > 0}

EnvInv ==
    /\ env \in [Interval \cup {"THRESHOLD"} -> Setting]
    /\ \A k \in Interval : env[k] \in Durations

CfgInv ==
    /\ pc \in {"start", "configured", "client", "running"}
    /\ DOMAIN cfg = DOMAIN Default
    /\ \A k \in Interval : cfg[k] \in IF pc = "start" THEN {0} ELSE Usable(k)
    /\ cfg.THRESHOLD \in Nat \cup {NotFinite}

ClientInv ==
    /\ interval \in [Watched -> Int]
    /\ pc \in {"client", "running"} =>
         /\ interval["fast"] = durationOrDefault("SCRAPE")
         /\ interval["operational"] = durationOrDefault("OPERATIONAL")
         /\ interval["reliability"] = durationOrDefault("RELIABILITY")
         /\ \A g \in {"legacy", "dcp"} : interval[g] = durationOrDefault("PROFILING")
    /\ pc = "running" => /\ period = durationOrDefault("SCRAPE")
                         /\ window = durationOrDefault("WINDOW")

IInv == EnvInv /\ CfgInv /\ ClientInv

LEMMA DefaultDomain == DOMAIN Default = Interval \cup {"THRESHOLD"}
  BY DEF Default, Interval

LEMMA DefaultIs ==
    ASSUME NEW k \in Interval
    PROVE  Default[k] \in Int /\ Default[k] > 0
  BY DEF Default, Interval

LEMMA UsableIs ==
    ASSUME NEW k \in Interval, NEW d \in Usable(k)
    PROVE  d \in Int /\ d > 0
<1>1. Default[k] \in Int /\ Default[k] > 0
  BY DefaultIs
<1>2. d = Default[k] \/ (d \in Int /\ d > 0)
  BY DEF Usable
<1> QED
  BY <1>1, <1>2

LEMMA OrDefaultIs ==
    ASSUME CfgInv, pc # "start", NEW k \in Interval
    PROVE  durationOrDefault(k) = cfg[k] /\ cfg[k] \in Usable(k)
<1>1. cfg[k] \in Usable(k)
  BY DEF CfgInv
<1>2. cfg[k] \in Int /\ cfg[k] > 0
  BY <1>1, UsableIs
<1> QED
  BY <1>1, <1>2 DEF durationOrDefault

LEMMA InitInv == Init => IInv
<1> SUFFICES ASSUME Init PROVE IInv
  OBVIOUS
<1>1. PICK d \in [Interval -> Durations], t \in Thresholds :
        env = [k \in Interval \cup {"THRESHOLD"} |-> IF k = "THRESHOLD" THEN t ELSE d[k]]
  BY DEF Init
<1>2. "THRESHOLD" \notin Interval
  BY DEF Interval
<1>3. t \in Setting /\ \A k \in Interval : d[k] \in Setting /\ d[k] \in Durations
  BY SettingAssumption DEF Setting
<1>4. EnvInv
  BY <1>1, <1>2, <1>3 DEF EnvInv
<1>5. CfgInv
  <2>1. cfg = [k \in Interval \cup {"THRESHOLD"} |-> 0] /\ pc = "start"
    BY DefaultDomain DEF Init
  <2>2. DOMAIN cfg = DOMAIN Default
    BY <2>1, DefaultDomain
  <2>3. cfg["THRESHOLD"] = 0 /\ \A k \in Interval : cfg[k] = 0
    BY <2>1
  <2> QED
    BY <2>1, <2>2, <2>3 DEF CfgInv
<1>6. ClientInv
  BY DEF Init, ClientInv
<1> QED
  BY <1>4, <1>5, <1>6 DEF IInv

LEMMA LoadInv == IInv /\ LoadConfig => IInv'
<1> SUFFICES ASSUME IInv, LoadConfig PROVE IInv'
  OBVIOUS
<1>1. /\ pc' = "configured" /\ UNCHANGED <<env, interval, period, window>>
      /\ cfg' = [k \in DOMAIN Default |->
                   IF k = "THRESHOLD" THEN floatEnv(k) ELSE durationEnv(k)]
  BY DEF LoadConfig
<1>2. "THRESHOLD" \notin Interval
  BY DEF Interval
<1>3. ASSUME NEW k \in Interval PROVE durationEnv(k) \in Usable(k)
  <2>1. env[k] \in Durations /\ (Given(k) => env[k] \in Int)
    BY SettingAssumption DEF IInv, EnvInv, Given
  <2> QED
    BY <2>1 DEF durationEnv, Usable
<1>4. floatEnv("THRESHOLD") \in Nat \cup {NotFinite}
  <2>1. env["THRESHOLD"] \in Setting
    BY DEF IInv, EnvInv
  <2>2. Default["THRESHOLD"] = 1
    BY DEF Default
  <2> QED
    BY <2>1, <2>2 DEF floatEnv, Given, Setting
<1>5. /\ DOMAIN cfg' = DOMAIN Default
      /\ cfg'["THRESHOLD"] = floatEnv("THRESHOLD")
      /\ \A k \in Interval : cfg'[k] = durationEnv(k)
  BY <1>1, <1>2, DefaultDomain
<1>6. \A k \in Interval : cfg'[k] \in Usable(k)
  BY <1>3, <1>5
<1>7. CfgInv'
  BY <1>1, <1>4, <1>5, <1>6 DEF CfgInv, Usable
<1> QED
  BY <1>1, <1>7 DEF IInv, EnvInv, ClientInv

LEMMA ClientStepInv == IInv /\ NewDCGMClient => IInv'
<1> SUFFICES ASSUME IInv, NewDCGMClient PROVE IInv'
  OBVIOUS
<1>1. /\ pc = "configured" /\ pc' = "client" /\ UNCHANGED <<env, cfg, period, window>>
      /\ interval' = [fast        |-> durationOrDefault("SCRAPE"),
                      operational |-> durationOrDefault("OPERATIONAL"),
                      legacy      |-> durationOrDefault("PROFILING"),
                      reliability |-> durationOrDefault("RELIABILITY"),
                      dcp         |-> durationOrDefault("PROFILING")]
  BY DEF NewDCGMClient
<1>2. \A k \in Interval : durationOrDefault(k)' = durationOrDefault(k) /\ durationOrDefault(k) \in Int
  BY <1>1, OrDefaultIs, UsableIs DEF IInv, durationOrDefault
<1>3. ClientInv'
  BY <1>1, <1>2 DEF ClientInv, Interval, Watched
<1>4. CfgInv'
  BY <1>1 DEF IInv, CfgInv, Usable
<1> QED
  BY <1>1, <1>3, <1>4 DEF IInv, EnvInv

LEMMA NextInv == IInv /\ [Next]_vars => IInv'
<1> SUFFICES ASSUME IInv, [Next]_vars PROVE IInv'
  OBVIOUS
<1>1. CASE LoadConfig
  BY <1>1, LoadInv
<1>2. CASE NewDCGMClient
  BY <1>2, ClientStepInv
<1>3. CASE Run
  BY <1>3 DEF Run, IInv, EnvInv, CfgInv, ClientInv, Usable, durationOrDefault
<1>4. CASE UNCHANGED vars
  BY <1>4 DEF vars, IInv, EnvInv, CfgInv, ClientInv, Usable, durationOrDefault
<1> QED
  BY <1>1, <1>2, <1>3, <1>4 DEF Next

LEMMA Invariant == Spec => []IInv
  BY InitInv, NextInv, PTL DEF Spec

(* Whatever the environment says, no ticker is given a period that is not  *)
(* positive, and the threshold is not negative.                            *)
THEOREM TypeCorrect == Spec => []TypeOK
<1>1. IInv => TypeOK
  <2> SUFFICES ASSUME IInv PROVE TypeOK
    OBVIOUS
  <2>1. \A k \in Interval : cfg[k] \in Int /\ (pc # "start" => cfg[k] > 0)
    BY UsableIs DEF IInv, CfgInv
  <2>2. Running => period > 0 /\ window > 0
    BY <2>1, OrDefaultIs DEF IInv, ClientInv, Running, Interval
  <2> QED
    BY <2>1, <2>2 DEF TypeOK, IInv, EnvInv, CfgInv, ClientInv
<1> QED
  BY <1>1, Invariant, PTL

(* The exporter sorts the fields as the client does.                       *)
LEMMA SortedAlike ==
    ASSUME NEW f \in monitoredFields, NEW g \in GroupsOf(f)
    PROVE  maxObservationGap(f) = 10 * durationOrDefault(
               CASE g = "fast"              -> "SCRAPE"
                 [] g = "operational"       -> "OPERATIONAL"
                 [] g = "reliability"       -> "RELIABILITY"
                 [] g \in {"legacy", "dcp"} -> "PROFILING")
<1> USE DEF maxObservationGap, GroupsOf, fieldsOf, Watched
<1>1. CASE g = "fast"
  <2>1. f \in fastRequiredFields \cup fastOptionalFields
    BY <1>1
  <2>2. f \notin profFields \cup legacyRateFields /\ f \notin operationalFields \cup reliabilityFields
    BY <2>1 DEF fastRequiredFields, fastOptionalFields, operationalFields, legacyRateFields,
                violationFields, reliabilityFields, activeFields, profFields
  <2> QED
    BY <1>1, <2>2
<1>2. CASE g = "operational"
  <2>1. f \in operationalFields
    BY <1>2
  <2>2. f \notin profFields \cup legacyRateFields /\ f \notin reliabilityFields
    BY <2>1 DEF operationalFields, legacyRateFields,
                violationFields, reliabilityFields, activeFields, profFields
  <2> QED
    BY <1>2, <2>1, <2>2
<1>3. CASE g = "reliability"
  <2>1. f \in reliabilityFields
    BY <1>3
  <2>2. f \notin profFields \cup legacyRateFields /\ f \notin operationalFields
    BY <2>1 DEF operationalFields, legacyRateFields,
                violationFields, reliabilityFields, activeFields, profFields
  <2> QED
    BY <1>3, <2>1, <2>2
<1>4. CASE g \in {"legacy", "dcp"}
  <2>1. f \in profFields \cup legacyRateFields
    BY <1>4
  <2>2. f \notin operationalFields \cup reliabilityFields
    BY <2>1 DEF operationalFields, legacyRateFields,
                violationFields, reliabilityFields, activeFields, profFields
  <2> QED
    BY <1>4, <2>1, <2>2
<1> QED
  BY <1>1, <1>2, <1>3, <1>4

(* Ten values of any field may be missing, whatever is configured.         *)
THEOREM GapCorrect == Spec => []GapIsTenIntervals
<1>1. IInv => GapIsTenIntervals
  <2> SUFFICES ASSUME IInv, pc = "running", NEW f \in monitoredFields, NEW g \in GroupsOf(f)
               PROVE  maxObservationGap(f) = 10 * interval[g]
    BY DEF GapIsTenIntervals, Running
  <2>1. g \in Watched
    BY DEF GroupsOf
  <2>2. interval[g] = durationOrDefault(
               CASE g = "fast"              -> "SCRAPE"
                 [] g = "operational"       -> "OPERATIONAL"
                 [] g = "reliability"       -> "RELIABILITY"
                 [] g \in {"legacy", "dcp"} -> "PROFILING")
    BY <2>1 DEF IInv, ClientInv, Watched
  <2> QED
    BY <2>2, SortedAlike
<1> QED
  BY <1>1, Invariant, PTL

=============================================================================
