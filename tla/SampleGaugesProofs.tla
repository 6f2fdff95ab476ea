------------------------- MODULE SampleGaugesProofs -------------------------
(***************************************************************************)
(* Proofs about SampleGauges.                                              *)
(***************************************************************************)
EXTENDS SampleGauges, TLAPS

(* A number in the unit of its metric is an integer, and not negative when *)
(* the raw number is not.                                                  *)
LEMMA UnitKeepsSign ==
    ASSUME NEW c, NEW n \in Int
    PROVE  /\ InUnit(c, n) \in Int
           /\ n >= 0 => InUnit(c, n) >= 0
  BY DEF InUnit

(* An accepted number is an integer.                                       *)
LEMMA AcceptedIsInt ==
    ASSUME NEW c, NEW v \in Raw, Accepted(c, v)
    PROVE  v.n \in Int
  BY UnitAssumption, BlankAssumption
  DEF Accepted, AcceptsInt64, AcceptsDouble, UpTo, Numbers, Ratios

(* What a value is decoded to is a number or nil; nil when the value is    *)
(* not successful.                                                         *)
LEMMA DecodedType ==
    ASSUME NEW f, NEW v \in Raw
    PROVE  /\ Decoded(f, v) \in NumberOrNil
           /\ ~fieldSuccessful(v) => Decoded(f, v) = Nil
           /\ Decoded(f, v) # Nil => Accepted(Converter(f), v)
  BY AcceptedIsInt, UnitKeepsSign DEF Decoded, NumberOrNil, Accepted

LEMMA RoomType ==
    ASSUME NEW m \in Int, NEW n \in Int
    PROVE  Room(m, n) \in Nat
  BY DEF Room

(* collectSample writes a number or nothing.                               *)
LEMMA OutputType ==
    ASSUME TypeOK, NEW f \in Field
    PROVE  Output(f) \in NumberOrNil /\ setGauge(f) \in NumberOrNil
  <1>1. sample \in [Field -> NumberOrNil] /\ gauge[f] \in NumberOrNil
    BY DEF TypeOK
  <1>2. FreeMemory \in NumberOrNil
    <2>1. /\ sample["FB_FREE"] \in Int \cup {Nil}
          /\ sample["FB_USED"] \in Int \cup {Nil}
          /\ sample["FB_TOTAL"] \in Int \cup {Nil}
      BY <1>1, FieldAssumption DEF NumberOrNil, Memory
    <2>2. CASE /\ sample["FB_TOTAL"] # Nil
               /\ sample["FB_USED"] # Nil
      <3>1. Room(sample["FB_TOTAL"], sample["FB_USED"]) \in Int
        <4>1. sample["FB_TOTAL"] \in Int /\ sample["FB_USED"] \in Int
          BY <2>1, <2>2
        <4> QED BY <4>1 DEF Room
      <3> QED BY <3>1, <2>1 DEF FreeMemory, NumberOrNil
    <2> QED BY <2>1, <2>2 DEF FreeMemory, NumberOrNil
  <1>3. Output(f) \in NumberOrNil
    BY <1>1, <1>2, FieldAssumption DEF Output, firstPointer, NumberOrNil
  <1> QED BY <1>1, <1>3 DEF setGauge

LEMMA SilencedType ==
    ASSUME TypeOK, NEW silent
    PROVE  /\ Silenced(silent) \in [Field -> [available : BOOLEAN, last : Time]]
           /\ \A f \in Field : /\ Silenced(silent)[f].last = status[f].last
                               /\ Silenced(silent)[f].available =>
                                     f \notin silent /\ status[f].available
                               /\ f \notin silent =>
                                     Silenced(silent)[f].available = status[f].available
  BY DEF Silenced, TypeOK

-----------------------------------------------------------------------------
(***************************************************************************)
(* Types                                                                   *)
(***************************************************************************)
LEMMA TypeInit == Init => TypeOK
  <1> SUFFICES ASSUME Init PROVE TypeOK
    OBVIOUS
  <1>1. identity \in [limit : (Nat \ {0}) \cup {Nil}, total : (Nat \ {0}) \cup {Nil}]
    BY DeviceAssumption DEF Init, IdentityOf
  <1> QED BY <1>1, ValuesAssumption DEF Init, TypeOK, Time, NumberOrNil

LEMMA TypeApply ==
    ASSUME TypeOK, NEW f \in watched, NEW v \in RawOf[f], Apply(f, v)
    PROVE  TypeOK'
  <1>1. f \in Field /\ v \in Raw
    BY CardAssumption, RawAssumption DEF TypeOK
  <1>2. /\ Decoded(f, v) \in NumberOrNil
        /\ TargetAfter(f, v) \in NumberOrNil
    BY <1>1, DecodedType DEF TargetAfter, TypeOK
  <1>3. clock' \in Time
    BY ValuesAssumption DEF Apply, TypeOK, Time
  <1>4. sample' \in [Field -> NumberOrNil]
    BY <1>2 DEF Apply, TypeOK
  <1>5. status' \in [Field -> [available : BOOLEAN, last : Time]]
    <2> DEFINE ok == fieldSuccessful(v) /\ TargetAfter(f, v) # Nil
               new == [available |-> ok, last |-> IF ok THEN clock' ELSE status[f].last]
    <2>1. status' = [status EXCEPT ![f] = new]
      BY DEF Apply
    <2>2. new \in [available : BOOLEAN, last : Time]
      BY <1>1, <1>3 DEF TypeOK
    <2> HIDE DEF new
    <2> QED BY <2>1, <2>2 DEF TypeOK
  <1>6. obs' \subseteq [field : watched, n : Int, ts : Time]
    BY <1>2, <1>3 DEF Apply, TypeOK, NumberOrNil
  <1>7. latest' \in [Field -> [n : NumberOrNil, ts : Time]]
    BY <1>2, <1>3 DEF Apply, TypeOK
  <1> QED BY <1>3, <1>4, <1>5, <1>6, <1>7 DEF Apply, TypeOK

LEMMA TypeNext == TypeOK /\ [Next]_vars => TypeOK'
  <1> SUFFICES ASSUME TypeOK, [Next]_vars PROVE TypeOK'
    OBVIOUS
  <1>1. CASE StartSample
    BY <1>1 DEF StartSample, TypeOK, NewSample, NumberOrNil
  <1>2. ASSUME NEW f \in watched, NEW v \in RawOf[f], Apply(f, v) PROVE TypeOK'
    BY <1>2, TypeApply
  <1>3. CASE Drop
    <2>1. status' \in [Field -> [available : BOOLEAN, last : Time]]
      BY <1>3, SilencedType DEF Drop
    <2>2. missed' \subseteq watched
      BY <1>3 DEF Drop, TypeOK, Observed
    <2> QED BY <1>3, <2>1, <2>2 DEF Drop, TypeOK
  <1>4. CASE Publish
    <2>1. status' \in [Field -> [available : BOOLEAN, last : Time]]
      BY <1>4, SilencedType DEF Publish
    <2>2. gauge' \in [Field -> NumberOrNil]
      BY <1>4, OutputType DEF Publish
    <2>3. dated' \in [Field -> Time]
      BY <1>4, <2>1 DEF Publish
    <2> QED BY <1>4, <2>1, <2>2, <2>3 DEF Publish, TypeOK
  <1>5. CASE UNCHANGED vars
    BY <1>5 DEF vars, TypeOK
  <1> QED BY <1>1, <1>2, <1>3, <1>4, <1>5 DEF Next

(* The types of all variables: whatever DCGM returns, targets and gauges   *)
(* hold numbers or nothing.                                                *)
THEOREM TypeCorrect == Spec => []TypeOK
  BY TypeInit, TypeNext, PTL DEF Spec

-----------------------------------------------------------------------------
(***************************************************************************)
(* The gauge of an available field                                         *)
(***************************************************************************)
Pending == IF pc = "read" THEN Observed ELSE {}

(* The status and the history name the same newest valid number, and a     *)
(* number comes with its time.                                             *)
TimesAgree == \A f \in Field : status[f].last = latest[f].ts

(* The sample under construction holds the newest valid number of every    *)
(* available field it has seen, and nothing for the others.                *)
SampleAgrees ==
    pc = "read" =>
        /\ Observed \subseteq seen
        /\ \A f \in watched \cap seen :
              status[f].available =>
                 /\ sample[f] = latest[f].n /\ sample[f] # Nil
                 /\ f \in Observed
        /\ \A f \in watched \ (seen \cup Substituted) : sample[f] = Nil

(* What was published is what was newest, but for fields the sample under  *)
(* construction has newer numbers of.                                      *)
DatedAgrees == \A f \in watched \ (missed \cup Pending) : dated[f] = latest[f].ts

GaugeAgrees ==
    \A f \in watched \ (missed \cup Pending \cup legacyRateFields \cup Substituted) :
        status[f].available => gauge[f] = latest[f].n

SubstitutedAgrees ==
    pc = "idle" =>
        \A f \in (watched \cap seen \cap Substituted) \ (missed \cup legacyRateFields) :
            status[f].available => gauge[f] = latest[f].n

IInv ==
    /\ TypeOK
    /\ TimesAgree
    /\ SampleAgrees
    /\ DatedAgrees
    /\ GaugeAgrees
    /\ SubstitutedAgrees

LEMMA InvInit == Init => IInv
  <1> SUFFICES ASSUME Init PROVE IInv
    OBVIOUS
  <1>1. TypeOK
    BY TypeInit
  <1>2. watched \subseteq Field
    BY CardAssumption DEF Init
  <1> QED BY <1>1, <1>2 DEF Init, IInv, TimesAgree, SampleAgrees, DatedAgrees,
             GaugeAgrees, SubstitutedAgrees

LEMMA InvStart == ASSUME IInv, StartSample PROVE IInv'
  <1>1. TypeOK'
    BY TypeNext DEF IInv, Next
  <1>2. watched \subseteq Field
    BY CardAssumption DEF IInv, TypeOK
  <1>3. Observed' = {} /\ Pending' = {} /\ Pending = {}
    BY DEF StartSample, Observed, Pending
  <1>4. SampleAgrees'
    <2>1. \A f \in watched \ Substituted : NewSample[f] = Nil
      BY <1>2 DEF NewSample, Substituted
    <2> QED BY <1>3, <2>1 DEF StartSample, SampleAgrees
  <1> QED BY <1>1, <1>3, <1>4 DEF StartSample, IInv, TimesAgree, DatedAgrees,
             GaugeAgrees, SubstitutedAgrees

LEMMA InvApply ==
    ASSUME IInv, NEW f \in watched, NEW v \in RawOf[f], Apply(f, v)
    PROVE  IInv'
  <1>1. TypeOK'
    BY TypeApply DEF IInv
  <1>2. f \in Field /\ v \in Raw /\ watched \subseteq Field /\ pc = "read" /\ pc' = "read"
    BY CardAssumption, RawAssumption DEF IInv, TypeOK, Apply
  <1> DEFINE ok == fieldSuccessful(v) /\ TargetAfter(f, v) # Nil
             n  == Decoded(f, v)
  <1>3. ok <=> n # Nil
    BY <1>2, DecodedType DEF TargetAfter
  <1>4. ok => TargetAfter(f, v) = n
    BY DEF TargetAfter
  <1>5. status' = [status EXCEPT ![f] =
                     [available |-> ok, last |-> IF ok THEN clock' ELSE status[f].last]]
    BY DEF Apply
  <1>6. latest' = IF ok THEN [latest EXCEPT ![f] = [n |-> n, ts |-> clock']] ELSE latest
    BY <1>3 DEF Apply
  <1>7. /\ sample' = [sample EXCEPT ![f] = TargetAfter(f, v)]
        /\ seen' = seen \cup {f}
        /\ UNCHANGED <<watched, gauge, dated, missed>>
    BY DEF Apply
  <1>8. Observed' = IF ok THEN Observed \cup {f} ELSE Observed
    <2> DEFINE new == [field |-> f, n |-> TargetAfter(f, v), ts |-> clock']
    <2>1. obs' = IF ok THEN obs \cup {new} ELSE obs
      BY DEF Apply
    <2>2. new.field = f
      OBVIOUS
    <2> HIDE DEF ok, new
    <2>3. CASE ok
      BY <2>1, <2>2, <2>3 DEF Observed
    <2>4. CASE ~ok
      BY <2>1, <2>4 DEF Observed
    <2> QED BY <2>3, <2>4
  <1>9. Pending' = Observed' /\ Pending = Observed
    BY <1>2 DEF Pending
  <1> HIDE DEF ok, n
  <1>10. /\ status \in [Field -> [available : BOOLEAN, last : Time]]
         /\ latest \in [Field -> [n : NumberOrNil, ts : Time]]
         /\ sample \in [Field -> NumberOrNil]
    BY DEF IInv, TypeOK
  <1>11. TimesAgree'
    BY <1>2, <1>5, <1>6, <1>10 DEF IInv, TimesAgree
  <1>12. SampleAgrees'
    <2>1. Observed' \subseteq seen'
      BY <1>2, <1>7, <1>8 DEF IInv, SampleAgrees
    <2>2. ASSUME NEW g \in watched \cap seen', status'[g].available
          PROVE  sample'[g] = latest'[g].n /\ sample'[g] # Nil /\ g \in Observed'
      BY <1>2, <1>3, <1>4, <1>5, <1>6, <1>7, <1>8, <1>10, <2>2 DEF IInv, SampleAgrees
    <2>3. ASSUME NEW g \in watched \ (seen' \cup Substituted) PROVE sample'[g] = Nil
      BY <1>2, <1>7, <1>10, <2>3 DEF IInv, SampleAgrees
    <2> QED BY <1>7, <2>1, <2>2, <2>3 DEF SampleAgrees
  <1>13. DatedAgrees'
    <2>1. ASSUME NEW g \in watched, g \notin missed, g \notin Pending'
          PROVE  dated[g] = latest'[g].ts
      <3>1. g \in Field /\ g \notin Pending /\ dated[g] = latest[g].ts
        BY <1>2, <1>8, <1>9, <2>1 DEF IInv, DatedAgrees
      <3>2. ok => g # f
        BY <1>8, <1>9, <2>1
      <3> QED BY <1>6, <1>10, <3>1, <3>2
    <2> QED BY <1>7, <2>1 DEF DatedAgrees
  <1>14. GaugeAgrees'
    BY <1>2, <1>5, <1>6, <1>7, <1>8, <1>9, <1>10 DEF IInv, GaugeAgrees
  <1>15. SubstitutedAgrees'
    BY <1>2 DEF SubstitutedAgrees
  <1> QED BY <1>1, <1>11, <1>12, <1>13, <1>14, <1>15 DEF IInv

LEMMA InvDrop == ASSUME IInv, Drop PROVE IInv'
  <1>1. TypeOK'
    BY TypeNext DEF IInv, Next
  <1>2. PICK silent \in SUBSET (watched \ seen) : status' = Silenced(silent)
    BY DEF Drop
  <1>3. /\ watched \subseteq Field
        /\ pc = "read" /\ pc' = "idle"
        /\ Pending = Observed /\ Pending' = {}
    BY CardAssumption DEF IInv, TypeOK, Drop, Pending
  <1>4. missed' = missed \cup Observed
    BY DEF Drop
  <1>5. \A f \in Field : /\ status'[f].last = status[f].last
                         /\ status'[f].available => status[f].available
    BY <1>2, SilencedType DEF IInv
  <1>6. UNCHANGED <<watched, seen, gauge, dated, latest>>
    BY DEF Drop
  <1>7. TimesAgree'
    BY <1>5, <1>6 DEF IInv, TimesAgree
  <1>8. DatedAgrees' /\ GaugeAgrees'
    BY <1>3, <1>4, <1>5, <1>6 DEF IInv, DatedAgrees, GaugeAgrees
  <1>9. SubstitutedAgrees'
    BY <1>3, <1>4, <1>5, <1>6 DEF IInv, SampleAgrees, SubstitutedAgrees
  <1> QED BY <1>1, <1>3, <1>7, <1>8, <1>9 DEF IInv, SampleAgrees

LEMMA InvPublish == ASSUME IInv, Publish PROVE IInv'
  <1>1. TypeOK'
    BY TypeNext DEF IInv, Next
  <1>2. PICK silent \in SUBSET (watched \ seen) : status' = Silenced(silent)
    BY DEF Publish
  <1>3. /\ watched \subseteq Field
        /\ pc = "read" /\ pc' = "idle"
        /\ Pending = Observed /\ Pending' = {}
    BY CardAssumption DEF IInv, TypeOK, Publish, Pending
  <1>4. /\ missed' = missed \ Observed
        /\ UNCHANGED <<watched, seen, latest, sample>>
    BY DEF Publish
  <1>5. \A f \in Field : /\ status'[f].last = status[f].last
                         /\ status'[f].available => status[f].available
    BY <1>2, SilencedType DEF IInv
  <1>6. \A f \in Field : dated'[f] = latest'[f].ts
    BY <1>4, <1>5 DEF Publish, IInv, TimesAgree
  <1>7. TimesAgree' /\ DatedAgrees'
    BY <1>3, <1>4, <1>5, <1>6 DEF IInv, TimesAgree, DatedAgrees
  <1>8. ASSUME NEW f \in watched \ legacyRateFields, f \in seen, status'[f].available
        PROVE  gauge'[f] = latest'[f].n
    <2>1. sample[f] = latest[f].n /\ sample[f] # Nil
      BY <1>3, <1>5, <1>8 DEF IInv, SampleAgrees
    <2>2. Output(f) = sample[f]
      BY <1>8, <2>1 DEF Output, FreeMemory, firstPointer
    <2> QED BY <1>3, <1>4, <2>1, <2>2 DEF Publish, setGauge
  <1>9. ASSUME NEW f \in watched \ (missed' \cup legacyRateFields \cup Substituted),
               f \notin seen, status'[f].available
        PROVE  gauge'[f] = latest'[f].n
    <2>1. f \notin Observed /\ f \notin missed
      BY <1>3, <1>4, <1>9 DEF IInv, SampleAgrees
    <2>2. gauge[f] = latest[f].n
      BY <1>3, <1>5, <1>9, <2>1 DEF IInv, GaugeAgrees
    <2>3. Output(f) = Nil
      BY <1>3, <1>9 DEF IInv, SampleAgrees, Output, Substituted
    <2> QED BY <1>3, <1>4, <2>2, <2>3 DEF Publish, setGauge
  <1>10. GaugeAgrees' /\ SubstitutedAgrees'
    BY <1>3, <1>4, <1>8, <1>9 DEF GaugeAgrees, SubstitutedAgrees
  <1> QED BY <1>1, <1>3, <1>7, <1>10 DEF IInv, SampleAgrees

LEMMA InvNext == IInv /\ [Next]_vars => IInv'
  <1> SUFFICES ASSUME IInv, [Next]_vars PROVE IInv'
    OBVIOUS
  <1>1. CASE UNCHANGED vars
    BY <1>1 DEF vars, IInv, TypeOK, TimesAgree, SampleAgrees, DatedAgrees, GaugeAgrees,
                SubstitutedAgrees, Observed, Pending
  <1> QED BY <1>1, InvStart, InvApply, InvDrop, InvPublish DEF Next

(* readWatcher and collectSample: between two passes the gauge of an       *)
(* available field shows its newest valid number with that number's time.  *)
THEOREM GaugesCorrect == Spec => []AvailableGaugeIsLatest
  <1>1. IInv => AvailableGaugeIsLatest
    BY DEF IInv, DatedAgrees, GaugeAgrees, SubstitutedAgrees, Pending,
           AvailableGaugeIsLatest
  <1> QED BY <1>1, InvInit, InvNext, PTL DEF Spec

-----------------------------------------------------------------------------
(***************************************************************************)
(* Numbers in the range of their metric                                    *)
(***************************************************************************)
(* The range a converter promises is the one of the metric of its field.   *)
LEMMA DecodedSensible ==
    ASSUME NEW f, NEW v \in Raw, Decoded(f, v) # Nil
    PROVE  Sensible(f, Decoded(f, v))
  <1> DEFINE c == Converter(f)
             n == v.n
  <1>1. Accepted(c, v) /\ Decoded(f, v) = InUnit(c, n) /\ n \in Int
    BY DecodedType, AcceptedIsInt DEF Decoded
  <1>2. n \in AcceptsInt64(c) \/ n \in AcceptsDouble(c)
    BY <1>1 DEF Accepted
  <1>3. CASE f \in activeFields
    <2>1. c = "ratio01"
      BY <1>3 DEF Converter, activeFields, legacyRateFields, violationFields
    <2> HIDE DEF c, n
    <2>2. n \in 0..One /\ InUnit(c, n) = n
      BY <1>2, <2>1 DEF AcceptsInt64, AcceptsDouble, Ratios, InUnit
    <2> QED BY <1>1, <1>3, <2>2 DEF Sensible, activeFields, Percents
  <1>4. CASE f \in Percents \ {"FB_USED_PERCENT"}
    <2>1. c \in {"percent", "percentNumber"} /\ f \notin activeFields
      BY <1>4 DEF Converter, activeFields, legacyRateFields, violationFields, Percents
    <2> HIDE DEF c, n
    <2>2. n \in 0..100 * One /\ InUnit(c, n) = n
      BY <1>2, <2>1 DEF AcceptsInt64, AcceptsDouble, UpTo, InUnit
    <2> QED BY <1>1, <1>4, <2>1, <2>2 DEF Sensible, Percents
  <1>5. CASE f = "FB_USED_PERCENT"
    <2>1. c = "ratio01Percent" /\ f \notin activeFields
      BY <1>5 DEF Converter, activeFields, legacyRateFields, violationFields
    <2> HIDE DEF c, n
    <2>2. n \in 0..One /\ InUnit(c, n) = n * 100
      BY <1>2, <2>1 DEF AcceptsInt64, AcceptsDouble, Ratios, InUnit
    <2>3. n * 100 \in 0..100 * One
      BY <2>2, UnitAssumption
    <2> QED BY <1>1, <1>5, <2>1, <2>2, <2>3 DEF Sensible, Percents
  <1>6. CASE f \in {"GPU_TEMP", "MEMORY_TEMP", "MEM_MAX_OP_TEMP"}
    <2>1. /\ c \in {"temperature", "temperatureNumber"}
          /\ f \notin activeFields /\ f \notin Percents
      BY <1>6 DEF Converter, activeFields, legacyRateFields, violationFields, Percents
    <2> HIDE DEF c, n
    <2>2. n \in 0..150 * One /\ InUnit(c, n) = n
      BY <1>2, <2>1 DEF AcceptsInt64, AcceptsDouble, UpTo, InUnit
    <2> QED BY <1>1, <1>6, <2>1, <2>2 DEF Sensible
  <1>7. CASE f \in {"POWER_MGMT_LIMIT", "GPU_MAX_OP_TEMP"}
    BY <1>7 DEF Sensible, activeFields, Percents
  <1>8. CASE /\ f \notin activeFields /\ f \notin Percents
             /\ f \notin {"GPU_TEMP", "MEMORY_TEMP", "MEM_MAX_OP_TEMP"}
             /\ f \notin {"POWER_MGMT_LIMIT", "GPU_MAX_OP_TEMP"}
    <2>1. c \in {"mib", "uint64", "powerDraw", "megahertz", "kibPerSecond",
                 "milliJoules", "nanoseconds", "nonNegativeNumber"}
      BY <1>8 DEF Converter, Percents
    <2> HIDE DEF c, n
    <2>2. n >= 0
      BY <1>1, <1>2, <2>1, UnitAssumption, BlankAssumption
      DEF AcceptsInt64, AcceptsDouble, UpTo, Numbers
    <2>3. InUnit(c, n) >= 0
      BY <1>1, <2>2, UnitKeepsSign
    <2> QED BY <1>1, <1>8, <2>3 DEF Sensible
  <1> QED BY <1>3, <1>4, <1>5, <1>6, <1>7, <1>8

(* The targets of a sample are sensible too.                               *)
SampleIsSensible == \A f \in Field : sample[f] # Nil => Sensible(f, sample[f])

SInv == TypeOK /\ SampleIsSensible /\ NumbersAreSensible

(* A count of anything is sensible when it is not negative.                *)
LEMMA MemorySensible ==
    ASSUME NEW n \in Nat
    PROVE  /\ Sensible("FB_FREE", n) /\ Sensible("FB_TOTAL", n)
           /\ Sensible("PCIE_TX_BYTES", n) /\ Sensible("PCIE_RX_BYTES", n)
           /\ Sensible("POWER_MGMT_LIMIT", n)
  BY DEF Sensible, activeFields, Percents

LEMMA OutputSensible ==
    ASSUME SInv, NEW f \in Field, Output(f) # Nil
    PROVE  Sensible(f, Output(f))
  <1>1. Output(f) \in Int
    BY OutputType DEF SInv, NumberOrNil
  <1>2. CASE f = "FB_FREE"
    <2>1. CASE sample["FB_FREE"] # Nil
      BY <1>2, <2>1 DEF SInv, SampleIsSensible, Output, FreeMemory
    <2>2. CASE sample["FB_FREE"] = Nil
      <3>1. /\ Output(f) = Room(sample["FB_TOTAL"], sample["FB_USED"])
            /\ sample["FB_TOTAL"] # Nil /\ sample["FB_USED"] # Nil
        BY <1>2, <2>2 DEF Output, FreeMemory
      <3>2. sample["FB_TOTAL"] \in Int /\ sample["FB_USED"] \in Int
        BY <3>1, FieldAssumption DEF SInv, TypeOK, NumberOrNil, Memory
      <3> QED BY <1>2, <3>1, <3>2, RoomType, MemorySensible
    <2> QED BY <2>1, <2>2
  <1>3. CASE f \in {"PCIE_TX_BYTES", "PCIE_RX_BYTES"}
    <2>1. PICK g \in {f, "PCIE_TX_THROUGHPUT", "PCIE_RX_THROUGHPUT"} :
             g \in Field /\ Output(f) = sample[g] /\ sample[g] # Nil
      BY <1>3, FieldAssumption DEF Output, firstPointer
    <2>2. Sensible(g, sample[g])
      BY <2>1 DEF SInv, SampleIsSensible
    <2>3. sample[g] >= 0
      BY <1>3, <2>1, <2>2 DEF Sensible, activeFields, Percents
    <2> QED BY <1>1, <1>3, <2>1, <2>3, MemorySensible
  <1>4. CASE f \notin {"FB_FREE", "PCIE_TX_BYTES", "PCIE_RX_BYTES"}
    BY <1>4 DEF Output, SInv, SampleIsSensible
  <1> QED BY <1>2, <1>3, <1>4

LEMMA SensibleInit == Init => SInv
  BY TypeInit DEF Init, SInv, SampleIsSensible, NumbersAreSensible

LEMMA SensibleNext == SInv /\ [Next]_vars => SInv'
  <1> SUFFICES ASSUME SInv, [Next]_vars PROVE SInv'
    OBVIOUS
  <1>1. TypeOK'
    BY TypeNext DEF SInv
  <1>2. CASE StartSample
    <2>1. sample' = NewSample /\ obs' = {} /\ gauge' = gauge
      BY <1>2 DEF StartSample
    <2>2. ASSUME NEW f \in Field, NewSample[f] # Nil PROVE Sensible(f, NewSample[f])
      <3>1. \/ f = "POWER_MGMT_LIMIT" /\ NewSample[f] = identity.limit
            \/ f = "FB_TOTAL" /\ NewSample[f] = identity.total
        BY <2>2 DEF NewSample
      <3>2. /\ identity.limit \in (Nat \ {0}) \cup {Nil}
            /\ identity.total \in (Nat \ {0}) \cup {Nil}
        BY DEF SInv, TypeOK
      <3> QED BY <2>2, <3>1, <3>2, MemorySensible
    <2> QED BY <1>1, <2>1, <2>2 DEF SInv, SampleIsSensible, NumbersAreSensible
  <1>3. ASSUME NEW f \in watched, NEW v \in RawOf[f], Apply(f, v) PROVE SInv'
    <2>1. f \in Field /\ v \in Raw
      BY CardAssumption, RawAssumption DEF SInv, TypeOK
    <2> DEFINE target == TargetAfter(f, v)
               new == [field |-> f, n |-> target, ts |-> clock']
    <2>2. target # Nil => Sensible(f, target)
      BY <2>1, DecodedSensible DEF TargetAfter, SInv, SampleIsSensible
    <2>3. /\ sample' = [sample EXCEPT ![f] = target]
          /\ gauge' = gauge
          /\ obs' = obs \/ (target # Nil /\ obs' = obs \cup {new})
      BY <1>3 DEF Apply
    <2>4. new.field = f /\ new.n = target
      OBVIOUS
    <2> HIDE DEF target, new
    <2>5. SampleIsSensible'
      BY <2>1, <2>2, <2>3 DEF SInv, TypeOK, SampleIsSensible
    <2>6. NumbersAreSensible'
      BY <2>2, <2>3, <2>4 DEF SInv, NumbersAreSensible
    <2> QED BY <1>1, <2>5, <2>6 DEF SInv
  <1>4. CASE Drop
    BY <1>1, <1>4 DEF Drop, SInv, SampleIsSensible, NumbersAreSensible
  <1>5. CASE Publish
    <2>1. \A f \in Field : gauge'[f] # Nil => Sensible(f, gauge'[f])
      BY <1>5, OutputSensible DEF Publish, setGauge, SInv, NumbersAreSensible
    <2> QED BY <1>1, <1>5, <2>1 DEF Publish, SInv, SampleIsSensible, NumbersAreSensible
  <1>6. CASE UNCHANGED vars
    BY <1>1, <1>6 DEF vars, SInv, SampleIsSensible, NumbersAreSensible
  <1> QED BY <1>2, <1>3, <1>4, <1>5, <1>6 DEF Next

(* README.md:288: whatever DCGM returns, every number that reaches a       *)
(* window, a counter or a gauge is in the range of its metric.             *)
THEOREM NumbersCorrect == Spec => []NumbersAreSensible
  <1>1. SInv => NumbersAreSensible
    BY DEF SInv
  <1> QED BY <1>1, SensibleInit, SensibleNext, PTL DEF Spec

=============================================================================
