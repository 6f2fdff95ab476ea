--------------------------- MODULE CollectorProofs ---------------------------
(* Theorems about Collector for any set of slots, boards and groups.        *)
EXTENDS Collector, FiniteSetTheorems, TLAPS

(***************************************************************************)
(* The inductive invariant, in parts.                                      *)
(***************************************************************************)
OutsidePass == {"idle", "list", "failHealth", "failGauges"}
AfterSample == {"reconcile", "health", "gauges", "status", "samples"}

(* The batch under construction covers the sampled slots, one info each,   *)
(* and a slot a call failed for has a failure in it.                       *)
BatchInv ==
    /\ IsFiniteSet(batch.supported)
    /\ \A i \in batch.supported : i.slot \in listed \ todo
    /\ \A i, j \in batch.supported : i.slot = j.slot => i = j
    /\ pc \notin OutsidePass =>
         \A s \in listed \ todo : \E i \in batch.supported : i.slot = s
    /\ batch.samples \subseteq batch.supported
    /\ \A f \in batch.failures : f.info \in batch.supported
    /\ \A s \in faulted : \E f \in batch.failures : f.info.slot = s
    /\ pc \in OutsidePass => batch = EmptyBatch
    /\ pc \in AfterSample => todo = {}
    /\ \A s \in Slot : devices[s] # None => devices[s].slot = s

BasicInv == TypeOK /\ BatchInv

-----------------------------------------------------------------------------
(* Cardinalities.                                                          *)
LEMMA KeysFinite ==
    ASSUME NEW S, IsFiniteSet(S)
    PROVE  IsFiniteSet(Keys(S))
<1> DEFINE f == [i \in S |-> stableGPUIdentifier(i)]
<1>1. f \in Surjection(S, Keys(S))
  BY DEF Surjection, Keys
<1> QED
  BY <1>1, FS_Surjection

(* Every field of the gauges a pass publishes is a number.                 *)
LEMMA GaugesTyped ==
    ASSUME BasicInv
    PROVE  GaugesOf(batch) \in [up : 0..1, success : 0..1, discovered : Nat,
                                collected : Nat, failed : Nat]
<1>1. IsFiniteSet(batch.supported) /\ Cardinality(batch.supported) \in Nat
  BY FS_CardinalityType DEF BasicInv, BatchInv
<1>2. IsFiniteSet(batch.samples) /\ Cardinality(batch.samples) \in Nat
  BY <1>1, FS_CardinalityType, FS_Subset DEF BasicInv, BatchInv
<1>3. IsFiniteSet(Keys(batch.supported))
  BY <1>1, KeysFinite
<1>4. FailedKeys(batch) \in SUBSET Keys(batch.supported)
  BY DEF BasicInv, BatchInv, FailedKeys, Keys
<1>5. Cardinality(FailedKeys(batch)) \in Nat
  <2>1. IsFiniteSet(FailedKeys(batch))
    BY <1>3, <1>4, FS_Subset
  <2> QED
    BY <2>1, FS_CardinalityType
<1>6. Flag(Complete(batch)) \in 0..1
  BY DEF Flag
<1> QED
  BY <1>1, <1>2, <1>5, <1>6 DEF GaugesOf

-----------------------------------------------------------------------------
LEMMA BasicInit == Init => BasicInv
<1> SUFFICES ASSUME Init PROVE BasicInv
  OBVIOUS
<1>1. board \in [Slot -> Board \cup {None}]
  BY DEF Init
<1>2. age \in 0..(MaxAge + 1)
  BY AgeAssumption DEF Init
<1>3. gauges \in [up : 0..1, success : 0..1, discovered : Nat,
                  collected : Nat, failed : Nat]
  BY DEF Init, ZeroGauges
<1>4. TypeOK
  BY <1>1, <1>2, <1>3 DEF Init, TypeOK, EmptyBatch
<1>5. BatchInv
  BY FS_EmptySet DEF Init, BatchInv, EmptyBatch, OutsidePass, AfterSample
<1> QED
  BY <1>4, <1>5 DEF BasicInv

(* SampleGPU, opened once for all invariants: what it adds to the batch.   *)
Sampled(s, info, groups, failed) ==
    /\ info \in Identities(s)
    /\ groups \in EnsuredWatchers(s)
    /\ failed \in FailedReads(s, groups)
    /\ devices' = [devices EXCEPT ![s] = IF info.board = Unknown THEN None ELSE info]
    /\ watchers' = [watchers EXCEPT ![s] = groups]
    /\ batch'.supported = batch.supported \cup {info}
    /\ batch'.samples \subseteq batch.samples \cup {info}
    /\ batch.samples \subseteq batch'.samples
    /\ batch.failures \subseteq batch'.failures
    /\ batch' \in [supported : SUBSET Info, samples : SUBSET Info,
                   failures : SUBSET [info : Info, reason : Reason]]
    /\ \A f \in batch'.failures : f \in batch.failures \/ f.info = info
    /\ info.board = Unknown => s \in faulted'
    /\ \/ faulted' = faulted
       \/ /\ faulted' = faulted \cup {s}
          /\ \E f \in batch'.failures : f.info = info

LEMMA IdentitiesTyped ==
    ASSUME TypeOK, NEW s \in Slot, NEW info \in Identities(s),
           devices[s] # None => devices[s].slot = s
    PROVE  info \in Info /\ info.slot = s
  BY DEF TypeOK, Identities

LEMMA SampleGPUOpened ==
    ASSUME TypeOK, NEW s \in Slot, SampleGPU(s),
           devices[s] # None => devices[s].slot = s
    PROVE  \E info, groups, failed : Sampled(s, info, groups, failed)
<1> DEFINE Unk(info) == info.board = Unknown
           Rs(info, groups, failed) ==
             {r \in Reason : \/ r = "identity" /\ Unk(info)
                             \/ r = "watch" /\ groups = {}
                             \/ r \in failed}
           Cs(info, groups, failed) ==
             {i \in {info} : groups # {} /\ "fast" \notin failed}
           Fs(info, groups, failed) ==
             {[info |-> info, reason |-> r] : r \in Rs(info, groups, failed)}
<1>1. PICK info \in Identities(s), groups \in EnsuredWatchers(s) :
        \E failed \in FailedReads(s, groups) :
          /\ devices' = [devices EXCEPT ![s] = IF Unk(info) THEN None ELSE info]
          /\ watchers' = [watchers EXCEPT ![s] = groups]
          /\ batch' = [supported |-> batch.supported \cup {info},
                       samples   |-> batch.samples \cup Cs(info, groups, failed),
                       failures  |-> batch.failures \cup Fs(info, groups, failed)]
          /\ faulted' = IF Unk(info) \/ groups = {} \/ failed # {}
                        THEN faulted \cup {s} ELSE faulted
  BY DEF SampleGPU
<1>2. PICK failed \in FailedReads(s, groups) :
          /\ devices' = [devices EXCEPT ![s] = IF Unk(info) THEN None ELSE info]
          /\ watchers' = [watchers EXCEPT ![s] = groups]
          /\ batch' = [supported |-> batch.supported \cup {info},
                       samples   |-> batch.samples \cup Cs(info, groups, failed),
                       failures  |-> batch.failures \cup Fs(info, groups, failed)]
          /\ faulted' = IF Unk(info) \/ groups = {} \/ failed # {}
                        THEN faulted \cup {s} ELSE faulted
  BY <1>1
<1>3. info \in Info
  BY IdentitiesTyped
<1>4. groups \subseteq Group /\ failed \subseteq Group
  BY DEF EnsuredWatchers, FailedReads, TypeOK, Group
<1>5. Fs(info, groups, failed) \subseteq [info : Info, reason : Reason]
  BY <1>3
<1>6. Unk(info) \/ groups = {} \/ failed # {}
        => \E f \in Fs(info, groups, failed) : f.info = info
  <2>1. ASSUME Unk(info) \/ groups = {} \/ failed # {}
        PROVE  \E r \in Reason : r \in Rs(info, groups, failed)
    BY <1>4, <2>1 DEF Reason
  <2> HIDE DEF Rs, Unk
  <2>2. \A r \in Rs(info, groups, failed) :
          /\ [info |-> info, reason |-> r] \in Fs(info, groups, failed)
          /\ [info |-> info, reason |-> r].info = info
    OBVIOUS
  <2> QED
    BY <2>1, <2>2
<1>7. batch' \in [supported : SUBSET Info, samples : SUBSET Info,
                  failures : SUBSET [info : Info, reason : Reason]]
  <2>1. /\ batch.supported \subseteq Info
        /\ batch.samples \subseteq Info
        /\ batch.failures \subseteq [info : Info, reason : Reason]
    BY DEF TypeOK
  <2>2. Cs(info, groups, failed) \subseteq Info
    BY <1>3
  <2> HIDE DEF Cs, Fs, Info
  <2> QED
    BY <1>2, <1>3, <1>5, <2>1, <2>2
<1>8. \A f \in Fs(info, groups, failed) : f.info = info
  OBVIOUS
<1>9. Cs(info, groups, failed) \subseteq {info}
  OBVIOUS
<1> HIDE DEF Cs, Fs, Rs
<1>10. Sampled(s, info, groups, failed)
  BY <1>2, <1>6, <1>7, <1>8, <1>9 DEF Sampled
<1> QED
  BY <1>10

(* A sampled slot leaves todo and enters the batch.                        *)
LEMMA BasicSample ==
    ASSUME BasicInv, NEW s \in Slot, SampleGPU(s)
    PROVE  BasicInv'
<1>1. PICK info, groups, failed : Sampled(s, info, groups, failed)
  BY SampleGPUOpened DEF BasicInv, BatchInv
<1>2. info \in Info /\ info.slot = s
  BY <1>1, IdentitiesTyped DEF Sampled, BasicInv, BatchInv
<1>3. /\ pc = "sample" /\ pc' = pc /\ s \in todo /\ todo' = todo \ {s}
      /\ listed' = listed
      /\ UNCHANGED <<board, settled, been, age, active, series, gpuCount, gauges, lastPass>>
  BY DEF SampleGPU, machine
<1>4. TypeOK'
  <2>1. devices' \in [Slot -> Info \cup {None}]
    BY <1>1, <1>2 DEF Sampled, BasicInv, TypeOK
  <2>2. watchers' \in [Slot -> SUBSET Group]
    BY <1>1 DEF Sampled, EnsuredWatchers, Group, BasicInv, TypeOK
  <2>3. faulted' \subseteq Slot
    BY <1>1 DEF Sampled, BasicInv, TypeOK
  <2> QED
    BY <1>1, <1>3, <2>1, <2>2, <2>3 DEF Sampled, BasicInv, TypeOK
<1>5. BatchInv'
  <2>1. IsFiniteSet(batch'.supported)
    BY <1>1, FS_AddElement, SMTT(30) DEF Sampled, BasicInv, BatchInv
  <2>2. /\ \A i \in batch'.supported : i.slot \in listed' \ todo'
        /\ \A i, j \in batch'.supported : i.slot = j.slot => i = j
        /\ \A t \in listed' \ todo' : \E i \in batch'.supported : i.slot = t
    BY <1>1, <1>2, <1>3 DEF Sampled, BasicInv, BatchInv, TypeOK, OutsidePass
  <2>3. /\ batch'.samples \subseteq batch'.supported
        /\ \A f \in batch'.failures : f.info \in batch'.supported
    BY <1>1 DEF Sampled, BasicInv, BatchInv
  <2>5. \A t \in Slot : devices'[t] # None => devices'[t].slot = t
    BY <1>1, <1>2 DEF Sampled, BasicInv, BatchInv, TypeOK
  <2>4. \A t \in faulted' : \E f \in batch'.failures : f.info.slot = t
    BY <1>1, <1>2 DEF Sampled, BasicInv, BatchInv
  <2> QED
    BY <1>3, <2>1, <2>2, <2>3, <2>4, <2>5 DEF BatchInv, OutsidePass, AfterSample
<1> QED
  BY <1>4, <1>5 DEF BasicInv

LEMMA BasicNext == BasicInv /\ [Next]_vars => BasicInv'
<1> SUFFICES ASSUME BasicInv, [Next]_vars
             PROVE  BasicInv'
  OBVIOUS
<1> USE AgeAssumption
<1>1. CASE Settle
  BY <1>1 DEF Settle, BasicInv, TypeOK, BatchInv, client, history, OutsidePass, AfterSample
<1>2. ASSUME NEW s \in Slot, Remove(s) PROVE BasicInv'
  BY <1>2 DEF Remove, BasicInv, TypeOK, BatchInv, client, history, OutsidePass, AfterSample
<1>3. ASSUME NEW s \in Slot, Insert(s) PROVE BasicInv'
  <2>1. board' \in [Slot -> Board \cup {None}]
    <3>1. PICK b \in Home[s] : board' = [board EXCEPT ![s] = b]
      BY <1>3 DEF Insert
    <3>2. b \in Board
      BY HomeAssumption
    <3>3. board \in [Slot -> Board \cup {None}]
      BY DEF BasicInv, TypeOK
    <3> QED
      BY <3>1, <3>2, <3>3
  <2>2. UNCHANGED <<settled, age, pc, client, active, series, gpuCount, gauges,
                    history>>
    BY <1>3 DEF Insert
  <2>3. been' \in [Slot -> SUBSET Board]
    <3>1. PICK b \in Home[s] : been' = [been EXCEPT ![s] = @ \cup {b}]
      BY <1>3 DEF Insert
    <3>2. b \in Board /\ been \in [Slot -> SUBSET Board]
      BY HomeAssumption DEF BasicInv, TypeOK
    <3> QED
      BY <3>1, <3>2
  <2> QED
    BY <2>1, <2>2, <2>3 DEF BasicInv, TypeOK, BatchInv, client, history, OutsidePass, AfterSample
<1>4. CASE Tick
  BY <1>4 DEF Tick, BasicInv, TypeOK, BatchInv, machine, client, history, OutsidePass, AfterSample
<1>5. CASE StartCollect
  BY <1>5 DEF StartCollect, BasicInv, TypeOK, BatchInv, machine, client, history, OutsidePass, AfterSample
<1>6. CASE ListGPUs
  BY <1>6 DEF ListGPUs, BasicInv, TypeOK, BatchInv, machine, history, EmptyBatch, OutsidePass, AfterSample
<1>7. CASE ListFails
  BY <1>7 DEF ListFails, BasicInv, TypeOK, BatchInv, machine, client, history, OutsidePass, AfterSample
<1>8. ASSUME NEW s \in Slot, SampleGPU(s) PROVE BasicInv'
  BY <1>8, BasicSample
<1>9. CASE RemoveMissingGPUs
  BY <1>9 DEF RemoveMissingGPUs, BasicInv, TypeOK, BatchInv, machine, history, OutsidePass, AfterSample
<1>10. CASE ReconcileGPUs
  BY <1>10 DEF ReconcileGPUs, ActiveSets, BasicInv, TypeOK, BatchInv, machine, client, history, OutsidePass, AfterSample
<1>11. CASE MarkHealth
  <2>1. Cardinality(batch.supported) \in Nat
    BY FS_CardinalityType DEF BasicInv, BatchInv
  <2> QED
  BY <1>11, <2>1 DEF MarkHealth, BasicInv, TypeOK, BatchInv, machine, client, OutsidePass, AfterSample
<1>12. CASE MarkGauges
  BY <1>12, GaugesTyped DEF MarkGauges, BasicInv, TypeOK, BatchInv, machine, client, history, OutsidePass, AfterSample
<1>13. CASE FailHealth
  BY <1>13 DEF FailHealth, BasicInv, TypeOK, BatchInv, machine, client, OutsidePass, AfterSample
<1>14. CASE FailGauges
  BY <1>14 DEF FailGauges, ZeroGauges, BasicInv, TypeOK, BatchInv, machine, client, history, OutsidePass, AfterSample
<1>15. CASE PublishStatus
  BY <1>15 DEF PublishStatus, labelsFor, Info, Labels, BasicInv, TypeOK, BatchInv, machine, client, history, OutsidePass, AfterSample
<1>16. CASE CollectSamples
  BY <1>16, FS_EmptySet DEF CollectSamples, labelsFor, Info, Labels, EmptyBatch, BasicInv, TypeOK, BatchInv, machine, OutsidePass, AfterSample
<1>17. CASE UNCHANGED vars
  BY <1>17 DEF vars, BasicInv, TypeOK, BatchInv, OutsidePass, AfterSample
<1> QED
  BY <1>1, <1>2, <1>3, <1>4, <1>5, <1>6, <1>7, <1>8, <1>9, <1>10, <1>11, <1>12,
     <1>13, <1>14, <1>15, <1>16, <1>17
  DEF Next, Machine, Collect

(* Collector: every variable keeps its type.                               *)
THEOREM TypeCorrect == Spec => []TypeOK
<1>1. Init => BasicInv
  BY BasicInit
<1>2. BasicInv /\ [Next]_vars => BasicInv'
  BY BasicNext
<1>3. BasicInv => TypeOK
  BY DEF BasicInv
<1> QED
  BY <1>1, <1>2, <1>3, PTL DEF Spec

LEMMA BasicCorrect == Spec => []BasicInv
  BY BasicInit, BasicNext, PTL DEF Spec

-----------------------------------------------------------------------------
(***************************************************************************)
(* Readiness. Ready looks at gpuCount and the age of the last success; the *)
(* count alone carries what the latest pass met.                           *)
(***************************************************************************)
HealthInv ==
    gpuCount > 0 => /\ lastPass.ok
                    /\ lastPass.listed # {}
                    /\ lastPass.faulted = {}
                    /\ gpuCount = Cardinality(lastPass.listed)

(* After the last slot is sampled the batch has one info per listed slot.  *)
LEMMA SupportedCountsListed ==
    ASSUME BasicInv, pc \in AfterSample
    PROVE  Cardinality(batch.supported) = Cardinality(listed)
<1> DEFINE slotOf == [i \in batch.supported |-> i.slot]
<1>1. slotOf \in Bijection(batch.supported, listed)
  <2>1. slotOf \in Injection(batch.supported, listed)
    BY DEF BasicInv, BatchInv, TypeOK, Injection, IsInjective
  <2>2. \A s \in listed : \E i \in batch.supported : slotOf[i] = s
    BY DEF BasicInv, BatchInv, AfterSample, OutsidePass
  <2> QED
    BY <2>1, <2>2 DEF Bijection, Surjection, Injection
<1>2. ExistsBijection(batch.supported, listed)
  BY <1>1 DEF ExistsBijection
<1> QED
  BY <1>2, FS_Bijection DEF BasicInv, BatchInv

(* A complete batch met no fault, although failures are looked up by key.  *)
LEMMA CompleteFaultless ==
    ASSUME BasicInv, pc \in AfterSample, Complete(batch)
    PROVE  listed # {} /\ faulted = {}
<1>1. batch.failures = {}
  BY DEF Complete, FailedKeys
<1>2. faulted = {}
  BY <1>1 DEF BasicInv, BatchInv
<1>3. listed # {}
  BY DEF Complete, BasicInv, BatchInv
<1> QED
  BY <1>2, <1>3

LEMMA HealthNext == BasicInv /\ HealthInv /\ [Next]_vars => HealthInv'
<1> SUFFICES ASSUME BasicInv, HealthInv, [Next]_vars
             PROVE  HealthInv'
  OBVIOUS
<1>1. CASE MarkHealth
  <2>1. lastPass' = [ok |-> TRUE, listed |-> listed, faulted |-> faulted]
    BY <1>1 DEF MarkHealth
  <2>2. pc \in AfterSample
    BY <1>1 DEF MarkHealth, AfterSample
  <2>3. CASE Complete(batch)
    <3>1. gpuCount' = Cardinality(listed)
      BY <1>1, <2>2, <2>3, SupportedCountsListed DEF MarkHealth
    <3> QED
      BY <2>1, <2>2, <2>3, <3>1, CompleteFaultless DEF HealthInv
  <2>4. CASE ~Complete(batch)
    BY <1>1, <2>4 DEF MarkHealth, HealthInv
  <2> QED
    BY <2>3, <2>4
<1>2. CASE FailHealth
  BY <1>2 DEF FailHealth, HealthInv
<1>3. CASE UNCHANGED <<gpuCount, lastPass>>
  BY <1>3 DEF HealthInv
<1>4. ASSUME NEW s \in Slot, Remove(s) \/ Insert(s) \/ SampleGPU(s)
      PROVE  UNCHANGED <<gpuCount, lastPass>>
  BY <1>4 DEF Remove, Insert, SampleGPU, history
<1>5. Settle \/ Tick \/ StartCollect \/ ListGPUs \/ ListFails
      \/ RemoveMissingGPUs \/ ReconcileGPUs \/ MarkGauges \/ FailGauges
      \/ PublishStatus \/ CollectSamples \/ UNCHANGED vars
        => UNCHANGED <<gpuCount, lastPass>>
  BY DEF Settle, Tick, StartCollect, ListGPUs, ListFails, RemoveMissingGPUs,
         ReconcileGPUs, MarkGauges, FailGauges, PublishStatus, CollectSamples,
         history, vars
<1> QED
  BY <1>1, <1>2, <1>3, <1>4, <1>5 DEF Next, Machine, Collect

(* markCollection and Ready: whatever fails, /ready answers 200 only while *)
(* the latest pass that ended listed GPUs and met no failed call.          *)
THEOREM ReadyCorrect == Spec => []ReadyMeansComplete
<1>1. Init => HealthInv
  BY DEF Init, HealthInv
<1>2. BasicInv /\ HealthInv /\ [Next]_vars => HealthInv'
  BY HealthNext
<1>3. HealthInv => ReadyMeansComplete
  BY DEF HealthInv, ReadyMeansComplete, Ready
<1> QED
  BY <1>1, <1>2, <1>3, BasicCorrect, PTL DEF Spec

-----------------------------------------------------------------------------
(***************************************************************************)
(* The promise of /ready. The converse of CompleteFaultless is needed: a   *)
(* batch without a fault is complete.                                      *)
(***************************************************************************)
FaultInv ==
    /\ \A f \in batch.failures : f.info.slot \in faulted
    /\ \A i \in batch.supported : i.slot \in faulted \/ i \in batch.samples
    /\ pc \in OutsidePass => faulted = {}

PromiseInv == BasicInv /\ FaultInv

LEMMA FaultSample ==
    ASSUME PromiseInv, NEW s \in Slot, SampleGPU(s)
    PROVE  FaultInv' /\ faulted \subseteq faulted'
<1> USE DEF PromiseInv
<1>1. PICK info \in Identities(s), groups \in EnsuredWatchers(s) :
        \E failed \in FailedReads(s, groups) :
          LET unknown == info.board = Unknown
              reasons == {r \in Reason : \/ r = "identity" /\ unknown
                                         \/ r = "watch" /\ groups = {}
                                         \/ r \in failed}
              taken   == {i \in {info} : groups # {} /\ "fast" \notin failed}
          IN  /\ batch'.supported = batch.supported \cup {info}
              /\ batch'.samples = batch.samples \cup taken
              /\ batch'.failures =
                   batch.failures \cup {[info |-> info, reason |-> r] : r \in reasons}
              /\ faulted' = IF unknown \/ groups = {} \/ failed # {}
                            THEN faulted \cup {s} ELSE faulted
  BY DEF SampleGPU
<1>2. PICK failed \in FailedReads(s, groups) :
          LET unknown == info.board = Unknown
              reasons == {r \in Reason : \/ r = "identity" /\ unknown
                                         \/ r = "watch" /\ groups = {}
                                         \/ r \in failed}
              taken   == {i \in {info} : groups # {} /\ "fast" \notin failed}
          IN  /\ batch'.supported = batch.supported \cup {info}
              /\ batch'.samples = batch.samples \cup taken
              /\ batch'.failures =
                   batch.failures \cup {[info |-> info, reason |-> r] : r \in reasons}
              /\ faulted' = IF unknown \/ groups = {} \/ failed # {}
                            THEN faulted \cup {s} ELSE faulted
  BY <1>1
<1>3. info.slot = s
  BY IdentitiesTyped DEF BasicInv, BatchInv
<1>4. pc = "sample" /\ pc' = "sample"
  BY DEF SampleGPU
<1>5. \A f \in batch'.failures : f.info.slot \in faulted'
  <2>1. ASSUME NEW f \in batch'.failures, f \notin batch.failures
        PROVE  f.info = info /\ faulted' = faulted \cup {s}
    BY <1>2, <2>1
  <2> QED
    BY <1>2, <1>3, <2>1 DEF FaultInv
<1>6. \A i \in batch'.supported : i.slot \in faulted' \/ i \in batch'.samples
  BY <1>2, <1>3 DEF FaultInv
<1> QED
  BY <1>2, <1>4, <1>5, <1>6 DEF FaultInv, OutsidePass

LEMMA PromiseInvNext == PromiseInv /\ [Next]_vars => PromiseInv'
<1> SUFFICES ASSUME PromiseInv, [Next]_vars PROVE PromiseInv'
  OBVIOUS
<1> USE DEF PromiseInv
<1>1. BasicInv'
  BY BasicNext
<1>2. FaultInv'
  <2>1. ASSUME NEW s \in Slot, Remove(s) \/ Insert(s)
        PROVE  UNCHANGED <<pc, batch, faulted>>
    BY <2>1 DEF Remove, Insert, client, history
  <2>2. Settle \/ Tick \/ UNCHANGED vars => UNCHANGED <<pc, batch, faulted>>
    BY DEF Settle, Tick, client, history, vars
  <2>3. StartCollect \/ ListFails \/ FailHealth \/ FailGauges
          => UNCHANGED <<batch, faulted>> /\ pc \in OutsidePass
    BY DEF StartCollect, ListFails, FailHealth, FailGauges, client, history, OutsidePass
  <2>4. ListGPUs \/ RemoveMissingGPUs \/ ReconcileGPUs \/ MarkHealth \/ MarkGauges
          \/ PublishStatus => UNCHANGED <<batch, faulted>> /\ pc' \notin OutsidePass
    BY DEF ListGPUs, RemoveMissingGPUs, ReconcileGPUs, MarkHealth, MarkGauges,
           PublishStatus, client, history, OutsidePass
  <2>5. ASSUME NEW s \in Slot, SampleGPU(s) PROVE FaultInv'
    BY <2>5, FaultSample
  <2>6. CollectSamples => batch' = EmptyBatch /\ faulted' = {}
    BY DEF CollectSamples
  <2> QED
    BY <2>1, <2>2, <2>3, <2>4, <2>5, <2>6
    DEF Next, Machine, Collect, FaultInv, EmptyBatch
<1> QED
  BY <1>1, <1>2

(* A batch is complete exactly when the pass is clean.                     *)
LEMMA CompleteIsClean ==
    ASSUME PromiseInv, pc \in AfterSample
    PROVE  Complete(batch) <=> listed # {} /\ faulted = {}
<1> USE DEF PromiseInv
<1>1. ASSUME listed # {}, faulted = {} PROVE Complete(batch)
  <2>1. batch.failures = {} /\ batch.samples = batch.supported
    BY <1>1 DEF FaultInv, BasicInv, BatchInv
  <2>2. batch.supported # {}
    BY <1>1 DEF BasicInv, BatchInv, AfterSample, OutsidePass
  <2> QED
    BY <2>1, <2>2 DEF Complete, FailedKeys
<1> QED
  BY <1>1, CompleteFaultless

LEMMA PromiseStep == PromiseInv /\ [Next]_vars => [Promise!Next]_(Promise!vars)
<1> SUFFICES ASSUME PromiseInv, [Next]_vars PROVE [Promise!Next]_(Promise!vars)
  OBVIOUS
<1> USE DEF PromiseInv
<1> DEFINE Stutter == Pass' = Pass /\ (gpuCount > 0)' = (gpuCount > 0) /\ age' = age
<1>1. Stutter => UNCHANGED Promise!vars
  BY DEF Promise!vars
<1>2. CASE Settle \/ (\E s \in Slot : Remove(s) \/ Insert(s)) \/ UNCHANGED vars
  <2>1. UNCHANGED <<pc, faulted, listed, gpuCount, age>>
    BY <1>2 DEF Settle, Remove, Insert, client, history, vars
  <2> QED
    BY <1>1, <2>1 DEF Pass
<1>3. CASE Tick
  <2>1. UNCHANGED <<pc, faulted, listed, gpuCount>> /\ age <= MaxAge /\ age' = age + 1
    BY <1>3 DEF Tick, client, history
  <2>2. Promise!Tick
    BY <2>1 DEF Promise!Tick, Pass
  <2> QED
    BY <2>2 DEF Promise!Next
<1>4. CASE StartCollect
  <2>1. Pass = "none" /\ Pass' = "clean" /\ UNCHANGED <<gpuCount, age>>
    BY <1>4 DEF StartCollect, Pass, FaultInv, OutsidePass, client, history
  <2>2. Promise!Begin
    BY <2>1 DEF Promise!Begin
  <2> QED
    BY <2>2 DEF Promise!Next
<1>5. ASSUME Pass = "clean", Pass' \in {"clean", "spoilt"}, UNCHANGED <<gpuCount, age>>
      PROVE  [Promise!Next]_(Promise!vars)
  <2>1. CASE Pass' = "clean"
    BY <1>1, <1>5, <2>1
  <2>2. CASE Pass' = "spoilt"
    <3>1. Promise!Fault
      BY <1>5, <2>2 DEF Promise!Fault
    <3> QED
      BY <3>1 DEF Promise!Next
  <2> QED
    BY <1>5, <2>1, <2>2
<1>6. CASE ListGPUs
  <2>1. Pass = "clean" /\ Pass' \in {"clean", "spoilt"} /\ UNCHANGED <<gpuCount, age>>
    BY <1>6 DEF ListGPUs, Pass, FaultInv, OutsidePass, history
  <2> QED
    BY <1>5, <2>1
<1>7. CASE ListFails
  <2>1. Pass = "clean" /\ Pass' = "spoilt" /\ UNCHANGED <<gpuCount, age>>
    BY <1>7 DEF ListFails, Pass, FaultInv, OutsidePass, history, client
  <2> QED
    BY <1>5, <2>1
<1>8. ASSUME NEW s \in Slot, SampleGPU(s) PROVE [Promise!Next]_(Promise!vars)
  <2>1. /\ pc = "sample" /\ pc' = "sample" /\ UNCHANGED <<listed, gpuCount, age>>
        /\ faulted \subseteq faulted'
    BY <1>8, FaultSample DEF SampleGPU
  <2>2. CASE Pass = "clean"
    <3>1. Pass' \in {"clean", "spoilt"}
      BY <2>1 DEF Pass
    <3> QED
      BY <1>5, <2>1, <2>2, <3>1
  <2>3. CASE Pass = "spoilt"
    <3>1. Pass' = "spoilt"
      BY <2>1, <2>3 DEF Pass
    <3> QED
      BY <1>1, <2>1, <2>3, <3>1
  <2> QED
    BY <2>1, <2>2, <2>3 DEF Pass
<1>9. CASE RemoveMissingGPUs \/ ReconcileGPUs
  <2>1. /\ pc \in {"sample", "reconcile"} /\ pc' \in {"reconcile", "health"}
        /\ UNCHANGED <<listed, faulted, gpuCount, age>>
    BY <1>9 DEF RemoveMissingGPUs, ReconcileGPUs, client, history
  <2> QED
    BY <1>1, <2>1 DEF Pass
<1>10. CASE MarkHealth
  <2>1. /\ pc = "health" /\ Pass' = "none"
        /\ Pass = "clean" \/ Pass = "spoilt"
        /\ Pass = "clean" <=> Complete(batch)
    BY <1>10, CompleteIsClean DEF MarkHealth, Pass, AfterSample
  <2>2. Complete(batch) => Cardinality(batch.supported) > 0
    BY FS_EmptySet, FS_CardinalityType DEF Complete, BasicInv, BatchInv
  <2>3. /\ (gpuCount > 0)' <=> Pass = "clean"
        /\ age' = IF Pass = "clean" THEN 0 ELSE age
    BY <1>10, <2>1, <2>2 DEF MarkHealth
  <2>4. Promise!End
    BY <2>1, <2>3 DEF Promise!End
  <2> QED
    BY <2>4 DEF Promise!Next
<1>11. CASE FailHealth
  <2>1. Pass = "spoilt" /\ Pass' = "none" /\ gpuCount' = 0 /\ age' = age
    BY <1>11 DEF FailHealth, Pass
  <2>2. Promise!End
    BY <2>1 DEF Promise!End
  <2> QED
    BY <2>2 DEF Promise!Next
<1>12. CASE MarkGauges \/ PublishStatus \/ CollectSamples \/ FailGauges
  <2>1. /\ pc \in {"gauges", "status", "samples", "failGauges"}
        /\ pc' \in {"status", "samples", "idle"} /\ UNCHANGED <<gpuCount, age>>
    BY <1>12 DEF MarkGauges, PublishStatus, CollectSamples, FailGauges
  <2> QED
    BY <1>1, <2>1 DEF Pass
<1> QED
  BY <1>2, <1>3, <1>4, <1>6, <1>7, <1>8, <1>9, <1>10, <1>11, <1>12
  DEF Next, Machine, Collect

(* collect as a whole implements Readiness: exactly the passes that listed *)
(* GPUs and met no fault make /ready healthy and renew its age.            *)
THEOREM PromiseKept == Spec => KeepsPromise
<1>1. Init => PromiseInv
  <2>1. Init => FaultInv
    BY DEF Init, FaultInv, EmptyBatch
  <2> QED
    BY <2>1, BasicInit DEF PromiseInv
<1>2. Init => Promise!Init
  BY DEF Init, Promise!Init, Pass
<1> QED
  BY <1>1, <1>2, PromiseInvNext, PromiseStep, PTL DEF Spec, KeepsPromise, Promise!Spec

-----------------------------------------------------------------------------
(***************************************************************************)
(* Names. removeMissingGPUs walks the watchers: an identity that has a     *)
(* watcher is forgotten by the pass whose listing misses its slot, and     *)
(* until then it names a board that was in the slot since the last miss.   *)
(***************************************************************************)
WatchersComeUp == "watch" \notin Faults

NameInv ==
    /\ \A s \in Slot : devices[s] # None => watchers[s] # {}
    /\ \A s \in Slot : devices[s] # None => s \in listed \/ pc = "sample"
    /\ \A s \in listed : devices[s] # None => devices[s].board \in been[s]
    /\ \A s \in Slot : board[s] # None => board[s] \in been[s]
    /\ MissedIsForgotten

NamedInv == BasicInv /\ NameInv

LEMMA NameSample ==
    ASSUME WatchersComeUp, NamedInv, NEW s \in Slot, SampleGPU(s)
    PROVE  NameInv'
<1> USE DEF NamedInv
<1>1. PICK info, groups, failed : Sampled(s, info, groups, failed)
  BY SampleGPUOpened DEF BasicInv, BatchInv
<1>2. info \in Info /\ info.slot = s
  BY <1>1, IdentitiesTyped DEF Sampled, BasicInv, BatchInv
<1>3. /\ pc = "sample" /\ pc' = "sample" /\ s \in listed /\ listed' = listed
      /\ board' = board /\ been' = been /\ listed \subseteq Slot
  BY DEF SampleGPU, machine, BasicInv, TypeOK
<1>4. groups # {}
  BY <1>1 DEF Sampled, EnsuredWatchers, MayFail, WatchersComeUp
<1>5. info.board # Unknown => info.board \in been[s]
  <2>1. CASE devices[s] # None
    <3>1. info = devices[s]
      BY <1>1, <2>1 DEF Sampled, Identities
    <3> QED
      BY <1>3, <2>1, <3>1 DEF NameInv
  <2>2. CASE devices[s] = None
    <3>1. info.board # Unknown => info.board = board[s] /\ board[s] # None
      BY <1>1, <1>2, <2>2, NameAssumption
      DEF Sampled, Identities, Placeholder, Info
    <3> QED
      BY <3>1 DEF NameInv
  <2> QED
    BY <2>1, <2>2
<1>6. /\ devices'[s] = IF info.board = Unknown THEN None ELSE info
      /\ \A t \in Slot \ {s} : devices'[t] = devices[t] /\ watchers'[t] = watchers[t]
      /\ watchers'[s] = groups
  BY <1>1 DEF Sampled, BasicInv, TypeOK
<1>7. \A t \in Slot : devices'[t] # None => watchers'[t] # {}
  BY <1>4, <1>6 DEF NameInv
<1>8. \A t \in listed : devices'[t] # None => devices'[t].board \in been[t]
  BY <1>3, <1>5, <1>6 DEF NameInv
<1>9. MissedIsForgotten'
  BY <1>1, <1>2, <1>3, <1>5 DEF Sampled, NameInv, MissedIsForgotten
<1> QED
  BY <1>3, <1>7, <1>8, <1>9 DEF NameInv

(* The machine takes no board out of been.                                 *)
LEMMA BeenMachine ==
    ASSUME TypeOK, NEW s \in Slot, Remove(s) \/ Insert(s)
    PROVE  /\ \A t \in Slot : been[t] \subseteq been'[t]
           /\ \A t \in Slot : \/ board'[t] = board[t]
                               \/ board'[t] = None
                               \/ (board[t] = None /\ board'[t] \in been'[t])
<1>1. board \in [Slot -> Board \cup {None}] /\ been \in [Slot -> SUBSET Board]
  BY DEF TypeOK
<1>2. CASE Remove(s)
  <2>1. board' = [board EXCEPT ![s] = None] /\ been' = been
    BY <1>2 DEF Remove
  <2> QED
    BY <1>1, <2>1
<1>3. CASE Insert(s)
  <2>1. PICK b \in Home[s] : /\ board' = [board EXCEPT ![s] = b]
                             /\ been' = [been EXCEPT ![s] = @ \cup {b}]
    BY <1>3 DEF Insert
  <2>2. board[s] = None
    BY <1>3 DEF Insert
  <2>3. /\ board'[s] = b /\ been'[s] = been[s] \cup {b}
        /\ \A t \in Slot \ {s} : board'[t] = board[t] /\ been'[t] = been[t]
    BY <1>1, <2>1
  <2> QED
    BY <2>2, <2>3
<1> QED
  BY <1>2, <1>3

LEMMA NameMachine ==
    ASSUME NamedInv, NEW s \in Slot, Remove(s) \/ Insert(s)
    PROVE  NameInv'
<1> USE DEF NamedInv
<1>1. UNCHANGED <<pc, listed, devices, watchers, batch>>
  BY DEF Remove, Insert, client
<1>2. /\ \A t \in Slot : been[t] \subseteq been'[t]
      /\ \A t \in Slot : \/ board'[t] = board[t]
                          \/ board'[t] = None
                          \/ (board[t] = None /\ board'[t] \in been'[t])
  BY BeenMachine DEF BasicInv
<1>3. /\ listed \subseteq Slot
      /\ \A i \in batch.samples : i.slot \in Slot
  BY DEF BasicInv, TypeOK, Info
<1> QED
  BY <1>1, <1>2, <1>3 DEF NameInv, MissedIsForgotten

LEMMA NameNext == WatchersComeUp /\ NamedInv /\ [Next]_vars => NamedInv'
<1> SUFFICES ASSUME WatchersComeUp, NamedInv, [Next]_vars PROVE NamedInv'
  OBVIOUS
<1> USE DEF NamedInv
<1>1. BasicInv'
  BY BasicNext
<1>2. NameInv'
  <2>1. ASSUME NEW s \in Slot, Remove(s) \/ Insert(s) PROVE NameInv'
    BY <2>1, NameMachine
  <2>2. ASSUME NEW s \in Slot, SampleGPU(s) PROVE NameInv'
    BY <2>2, NameSample
  <2>3. CASE ListGPUs
    <3>1. /\ pc = "list" /\ pc' = "sample"
          /\ UNCHANGED <<board, devices, watchers, batch>>
          /\ \A s \in Slot : s \in listed' <=> board[s] # None
          /\ listed' \subseteq Slot
          /\ \A s \in listed' : been'[s] = been[s]
      BY <2>3 DEF ListGPUs
    <3>2. \A s \in Slot : devices[s] # None => s \in listed
      BY <3>1 DEF NameInv
    <3>3. batch'.samples = {}
      BY <3>1 DEF BasicInv, BatchInv, OutsidePass, EmptyBatch
    <3> QED
      BY <3>1, <3>2, <3>3 DEF NameInv, MissedIsForgotten
  <2>4. CASE RemoveMissingGPUs
    <3>1. /\ UNCHANGED <<listed, batch, board, been>> /\ listed \subseteq Slot
          /\ \A s \in Slot : IF watchers[s] # {} /\ s \notin listed
                             THEN devices'[s] = None
                             ELSE devices'[s] = devices[s] /\ watchers'[s] = watchers[s]
      BY <2>4 DEF RemoveMissingGPUs, machine, BasicInv, TypeOK
    <3>2. \A s \in Slot : devices'[s] # None =>
             s \in listed /\ devices'[s] = devices[s] /\ watchers'[s] = watchers[s]
      BY <3>1 DEF NameInv
    <3> QED
      BY <3>1, <3>2 DEF NameInv, MissedIsForgotten
  <2>5. CASE CollectSamples
    <3>1. /\ pc = "samples" /\ batch'.samples = {}
          /\ UNCHANGED <<listed, devices, watchers, board, been>>
      BY <2>5 DEF CollectSamples, machine, EmptyBatch
    <3> QED
      BY <3>1 DEF NameInv, MissedIsForgotten
  <2>6. Settle \/ Tick \/ StartCollect \/ ListFails \/ ReconcileGPUs \/ MarkHealth
          \/ MarkGauges \/ FailHealth \/ FailGauges \/ PublishStatus \/ UNCHANGED vars
          => /\ UNCHANGED <<board, been, listed, devices, watchers, batch>>
             /\ pc' = pc \/ pc # "sample"
    BY DEF Settle, Tick, StartCollect, ListFails, ReconcileGPUs, MarkHealth,
           MarkGauges, FailHealth, FailGauges, PublishStatus, machine, client, vars
  <2>7. CASE UNCHANGED <<board, been, listed, devices, watchers, batch>>
             /\ (pc' = pc \/ pc # "sample")
    BY <2>7 DEF NameInv, MissedIsForgotten
  <2> QED
    BY <2>1, <2>2, <2>3, <2>4, <2>5, <2>6, <2>7 DEF Next, Machine, Collect
<1> QED
  BY <1>1, <1>2

LEMMA NameInit == Init => NamedInv
<1> SUFFICES ASSUME Init PROVE NamedInv
  OBVIOUS
<1>1. NameInv
  BY DEF Init, NameInv, MissedIsForgotten, EmptyBatch
<1> QED
  BY <1>1, BasicInit DEF NamedInv

(* cachedGPUInfo with removeMissingGPUs: as long as watchers can be        *)
(* created, no sample carries the UUID of a board that a listing has       *)
(* missed, wherever boards move and however many listings fail.            *)
THEOREM NamesCorrect == ASSUME WatchersComeUp PROVE Spec => []MissedIsForgotten
<1>1. NamedInv /\ [Next]_vars => NamedInv'
  BY NameNext
<1>2. NamedInv => MissedIsForgotten
  BY DEF NamedInv, NameInv
<1> QED
  BY <1>1, <1>2, NameInit, PTL DEF Spec

-----------------------------------------------------------------------------
(***************************************************************************)
(* Identities. Everything here holds of any machine and whatever fails.    *)
(***************************************************************************)
MachineInv ==
    /\ \A s \in Slot : board[s] \in Home[s] \cup {None}
    /\ \A s, t \in Slot : s # t /\ board[s] # None => board[s] # board[t]

(* A batch entry is the cached identity of its slot, or the placeholder of *)
(* a slot without one.                                                     *)
IdentityInv ==
    /\ \A s \in Slot : devices[s] # None => devices[s].board \in Home[s]
    /\ \A i \in batch.supported :
          IF i.board = Unknown
          THEN i = Placeholder(i.slot) /\ devices[i.slot] = None
          ELSE devices[i.slot] = i

(* An active GPU keeps its cached identity until a pass misses its slot.   *)
ActiveInv ==
    \A i \in active : i.board # Unknown =>
        /\ i.board \in Home[i.slot]
        /\ devices[i.slot] = i \/ (pc = "reconcile" /\ i.slot \notin listed)

HeldInv == BasicInv /\ MachineInv /\ IdentityInv /\ ActiveInv

LEMMA HeldInit == Init => HeldInv
<1> SUFFICES ASSUME Init PROVE HeldInv
  OBVIOUS
<1>1. MachineInv /\ IdentityInv /\ ActiveInv
  BY DEF Init, MachineInv, IdentityInv, ActiveInv, EmptyBatch
<1> QED
  BY <1>1, BasicInit DEF HeldInv

(* A sampled slot keeps the identity it had, and gains one at most.        *)
LEMMA HeldSample ==
    ASSUME HeldInv, NEW s \in Slot, SampleGPU(s)
    PROVE  IdentityInv' /\ ActiveInv'
<1> USE DEF HeldInv
<1>1. PICK info, groups, failed : Sampled(s, info, groups, failed)
  BY SampleGPUOpened DEF BasicInv, BatchInv
<1>2. info \in Info /\ info.slot = s
  BY <1>1, IdentitiesTyped DEF Sampled, BasicInv, BatchInv
<1>3. /\ pc = "sample" /\ pc' = pc /\ s \in todo /\ listed' = listed
      /\ active' = active /\ series' = series
  BY DEF SampleGPU
<1>4. devices \in [Slot -> Info \cup {None}]
  BY DEF BasicInv, TypeOK
<1>5. Home[s] \subseteq Board
  BY HomeAssumption
<1>6. /\ devices'[s] = IF info.board = Unknown THEN None ELSE info
      /\ \A t \in Slot \ {s} : devices'[t] = devices[t]
  BY <1>1, <1>4 DEF Sampled
<1>7. CASE devices[s] # None
  <2>1. info = devices[s] /\ info.board \in Home[s]
    BY <1>1, <1>7 DEF Sampled, Identities, IdentityInv
  <2>2. info.board # Unknown /\ devices'[s] = devices[s]
    BY <1>5, <1>6, <2>1, NameAssumption
  <2>3. devices' = devices
    BY <1>1, <1>4, <1>6, <2>2 DEF Sampled
  <2>4. IdentityInv'
    BY <1>1, <1>2, <2>1, <2>2, <2>3 DEF Sampled, IdentityInv
  <2> QED
    BY <1>3, <2>3, <2>4 DEF ActiveInv
<1>8. CASE devices[s] = None
  <2>1. \/ info = Placeholder(s)
        \/ info.board = board[s] /\ board[s] # None
    BY <1>1, <1>2, <1>8, NameAssumption DEF Sampled, Identities, Info
  <2>2. \/ info = Placeholder(s) /\ info.board = Unknown
        \/ info.board \in Home[s] /\ info.board # Unknown
    BY <1>5, <2>1, NameAssumption DEF MachineInv, Placeholder
  <2>3. \A i \in batch.supported : i.slot \in Slot /\ i.slot # s
    BY <1>3 DEF BasicInv, BatchInv, TypeOK
  <2>4. \A i \in active : i.slot \in Slot /\ (i.board # Unknown => i.slot # s)
    BY <1>2, <1>3, <1>8, NameAssumption DEF ActiveInv, BasicInv, TypeOK, Info
  <2>5. \A t \in Slot : devices'[t] # None => devices'[t].board \in Home[t]
    BY <1>6, <2>2 DEF IdentityInv
  <2>6. \A i \in batch.supported : devices'[i.slot] = devices[i.slot]
    BY <1>6, <2>3
  <2>7. IF info.board = Unknown
        THEN info = Placeholder(s) /\ devices'[s] = None
        ELSE devices'[s] = info
    BY <1>6, <2>2
  <2>8. IdentityInv'
    BY <1>1, <1>2, <2>5, <2>6, <2>7 DEF Sampled, IdentityInv
  <2>9. \A i \in active : i.board # Unknown => devices'[i.slot] = devices[i.slot]
    BY <1>6, <2>4
  <2> QED
    BY <1>3, <2>8, <2>9 DEF ActiveInv
<1> QED
  BY <1>7, <1>8

(* Only unlisted slots lose their identity.                                *)
LEMMA HeldRemove ==
    ASSUME HeldInv, RemoveMissingGPUs
    PROVE  IdentityInv' /\ ActiveInv'
<1> USE DEF HeldInv
<1>1. /\ pc = "sample" /\ pc' = "reconcile" /\ listed' = listed
      /\ batch' = batch /\ active' = active /\ series' = series
  BY DEF RemoveMissingGPUs
<1>2. \A s \in Slot :
         devices'[s] = devices[s] \/ (devices'[s] = None /\ s \notin listed)
  BY DEF RemoveMissingGPUs
<1>3. /\ \A i \in batch.supported : i.slot \in Slot /\ i.slot \in listed
      /\ \A i \in active : i.slot \in Slot
  BY DEF BasicInv, BatchInv, TypeOK, Info
<1>4. IdentityInv'
  BY <1>1, <1>2, <1>3 DEF IdentityInv
<1> QED
  BY <1>1, <1>2, <1>3, <1>4 DEF ActiveInv

LEMMA HeldReconcile ==
    ASSUME HeldInv, ReconcileGPUs
    PROVE  IdentityInv' /\ ActiveInv'
<1> USE DEF HeldInv
<1>1. /\ pc' = "health" /\ UNCHANGED <<listed, batch, devices>>
      /\ active' \subseteq batch.supported
  BY DEF ReconcileGPUs, ActiveSets, client
<1>2. IdentityInv'
  BY <1>1 DEF IdentityInv
<1>3. \A i \in batch.supported : i.board # Unknown =>
         i.board \in Home[i.slot] /\ devices[i.slot] = i
  <2>1. \A i \in batch.supported : i.slot \in Slot /\ i # None
    BY NameAssumption DEF BasicInv, TypeOK, Info
  <2> QED
    BY <2>1 DEF IdentityInv
<1> QED
  BY <1>1, <1>2, <1>3 DEF ActiveInv

LEMMA MachineNext == BasicInv /\ MachineInv /\ [Next]_vars => MachineInv'
<1> SUFFICES ASSUME BasicInv, MachineInv, [Next]_vars PROVE MachineInv'
  OBVIOUS
<1>1. ASSUME NEW s \in Slot, Remove(s) \/ Insert(s) PROVE MachineInv'
  <2>1. board \in [Slot -> Board \cup {None}]
    BY DEF BasicInv, TypeOK
  <2>2. CASE Remove(s)
    BY <2>1, <2>2 DEF Remove, MachineInv
  <2>3. CASE Insert(s)
    BY <2>1, <2>3 DEF Insert, MachineInv
  <2> QED
    BY <1>1, <2>2, <2>3
<1>2. CASE board' = board
  BY <1>2 DEF MachineInv
<1>3. ASSUME NEW s \in Slot, SampleGPU(s) PROVE board' = board
  BY <1>3 DEF SampleGPU, machine
<1>4. Settle \/ Tick \/ StartCollect \/ ListGPUs \/ ListFails
      \/ RemoveMissingGPUs \/ ReconcileGPUs \/ MarkHealth \/ MarkGauges
      \/ FailHealth \/ FailGauges \/ PublishStatus \/ CollectSamples
      \/ UNCHANGED vars => board' = board
  BY DEF Settle, Tick, StartCollect, ListGPUs, ListFails, RemoveMissingGPUs,
         ReconcileGPUs, MarkHealth, MarkGauges, FailHealth, FailGauges,
         PublishStatus, CollectSamples, machine, vars
<1> QED
  BY <1>1, <1>2, <1>3, <1>4 DEF Next, Machine, Collect

LEMMA HeldNext ==
    ASSUME HeldInv, [Next]_vars
    PROVE  HeldInv'
<1>1. BasicInv' /\ MachineInv'
  BY BasicNext, MachineNext DEF HeldInv
<1>2. IdentityInv' /\ ActiveInv'
  <2>1. ASSUME NEW s \in Slot, Remove(s) \/ Insert(s)
        PROVE  UNCHANGED <<pc, listed, devices, batch, active>>
    BY <2>1 DEF Remove, Insert, client
  <2>2. Settle \/ Tick \/ MarkGauges \/ UNCHANGED vars
          => /\ UNCHANGED <<listed, devices, batch, active>>
             /\ pc' = pc \/ (pc = "gauges" /\ pc' = "status")
    BY DEF Settle, Tick, MarkGauges, client, vars
  <2>3. StartCollect \/ ListFails \/ MarkHealth \/ FailHealth \/ FailGauges
          => /\ UNCHANGED <<listed, devices, batch, active>>
             /\ \/ pc \in OutsidePass /\ pc' \in OutsidePass
                \/ pc = "health" /\ pc' = "gauges"
    BY DEF StartCollect, ListFails, MarkHealth, FailHealth, FailGauges, client,
           OutsidePass
  <2>4. ListGPUs => /\ UNCHANGED <<devices, batch, active>>
                    /\ pc = "list" /\ pc' = "sample"
    BY DEF ListGPUs
  <2>5. ASSUME /\ UNCHANGED <<devices, batch, active>>
               /\ \/ pc' = pc /\ listed' = listed
                  \/ pc = "gauges" /\ pc' = "status"
                  \/ pc \in OutsidePass /\ pc' \in OutsidePass
                  \/ pc = "health" /\ pc' = "gauges"
                  \/ pc = "list" /\ pc' = "sample"
        PROVE  IdentityInv' /\ ActiveInv'
    BY <2>5 DEF HeldInv, IdentityInv, ActiveInv, OutsidePass
  <2>6. ASSUME NEW s \in Slot, SampleGPU(s) PROVE IdentityInv' /\ ActiveInv'
    BY <2>6, HeldSample
  <2>7. RemoveMissingGPUs \/ ReconcileGPUs => IdentityInv' /\ ActiveInv'
    BY HeldRemove, HeldReconcile
  <2>8. CASE PublishStatus \/ CollectSamples
    <3>1. /\ UNCHANGED <<listed, devices, active>>
          /\ pc # "reconcile" /\ batch' \in {batch, EmptyBatch}
      BY <2>8 DEF PublishStatus, CollectSamples, client
    <3> QED
      BY <3>1 DEF HeldInv, IdentityInv, ActiveInv, EmptyBatch
  <2> QED
    BY <2>1, <2>2, <2>3, <2>4, <2>5, <2>6, <2>7, <2>8 DEF Next, Machine, Collect
<1> QED
  BY <1>1, <1>2 DEF HeldInv

LEMMA HeldCorrect == Spec => []HeldInv
<1>1. HeldInv /\ [Next]_vars => HeldInv'
  BY HeldNext
<1> QED
  BY <1>1, HeldInit, PTL DEF Spec

-----------------------------------------------------------------------------
(***************************************************************************)
(* Keys. The exporter tells GPUs apart by board, the client by slot. Two   *)
(* listed slots never hold the identity of one board when boards stay in   *)
(* their slots.                                                            *)
(***************************************************************************)
BoardsStay == \A s, t \in Slot : s # t => Home[s] \cap Home[t] = {}

BoardsApart ==
    \A s, t \in listed :
        s # t /\ devices[s] # None /\ devices[t] # None
            => devices[s].board # devices[t].board

DistinctKeys ==
    \A i, j \in batch.supported :
        stableGPUIdentifier(i) = stableGPUIdentifier(j) => i = j

LEMMA ApartKeys ==
    ASSUME HeldInv, BoardsApart
    PROVE  DistinctKeys
<1> USE DEF HeldInv
<1> SUFFICES ASSUME NEW i \in batch.supported, NEW j \in batch.supported,
                    stableGPUIdentifier(i) = stableGPUIdentifier(j), i.slot # j.slot
             PROVE  FALSE
  BY DEF DistinctKeys, BasicInv, BatchInv
<1>1. /\ i.slot \in listed /\ j.slot \in listed /\ listed \subseteq Slot
      /\ i # None /\ j # None
  BY NameAssumption DEF BasicInv, BatchInv, TypeOK, Info
<1>2. \A k \in batch.supported :
         stableGPUIdentifier(k) = IF k.board = Unknown THEN k.slot ELSE k.board
  BY DEF IdentityInv, Placeholder, stableGPUIdentifier
<1>3. \A k \in batch.supported : k.board # Unknown => k.board \in Board
  BY DEF BasicInv, TypeOK, Info
<1>4. i.board # Unknown /\ j.board # Unknown
  BY <1>1, <1>2, <1>3, NameAssumption
<1>5. devices[i.slot] = i /\ devices[j.slot] = j /\ i.board = j.board
  BY <1>2, <1>4 DEF IdentityInv
<1> QED
  BY <1>1, <1>5 DEF BoardsApart

LEMMA StayingApart ==
    ASSUME BoardsStay, HeldInv
    PROVE  BoardsApart
<1>1. listed \subseteq Slot
  BY DEF HeldInv, BasicInv, TypeOK
<1> QED
  BY <1>1 DEF BoardsStay, BoardsApart, HeldInv, IdentityInv

LEMMA KeysCorrect ==
    ASSUME BoardsStay
    PROVE  Spec => [](HeldInv /\ DistinctKeys)
<1>1. HeldInv => HeldInv /\ DistinctKeys
  BY StayingApart, ApartKeys
<1> QED
  BY <1>1, HeldCorrect, PTL

-----------------------------------------------------------------------------
(***************************************************************************)
(* Series, wherever two GPUs of one batch never share a key.               *)
(***************************************************************************)
(* With distinct keys reconcileGPUs makes every supported GPU active.      *)
LEMMA ReconciledIsSupported ==
    ASSUME DistinctKeys, NEW A \in ActiveSets(batch.supported)
    PROVE  A = batch.supported
<1>1. A \subseteq batch.supported
  BY DEF ActiveSets
<1>2. ASSUME NEW i \in batch.supported PROVE i \in A
  <2>1. stableGPUIdentifier(i) \in Keys(A)
    BY DEF ActiveSets, Keys
  <2>2. PICK j \in A : stableGPUIdentifier(j) = stableGPUIdentifier(i)
    BY <2>1 DEF Keys
  <2>3. j = i
    BY <1>1, <2>2 DEF DistinctKeys
  <2> QED
    BY <2>3
<1> QED
  BY <1>1, <1>2

SeriesInv ==
    /\ pc \in AfterSample \ {"reconcile"} => active = batch.supported
    /\ SeriesAreActive

LEMMA SeriesReconcile ==
    ASSUME DistinctKeys, SeriesInv, ReconcileGPUs
    PROVE  SeriesInv'
<1>1. /\ pc' = "health" /\ batch' = batch
      /\ series' = {x \in series :
                      x[2] \notin {labelsFor(i) : i \in Stale(active, active')}}
  BY DEF ReconcileGPUs, client
<1>2. active' = batch.supported
  BY ReconciledIsSupported DEF ReconcileGPUs
<1>3. SeriesAreActive'
  <2> SUFFICES ASSUME NEW x \in series' PROVE \E j \in active' : x[2] = labelsFor(j)
    BY DEF SeriesAreActive
  <2>1. PICK i \in active : x[2] = labelsFor(i)
    BY <1>1 DEF SeriesInv, SeriesAreActive
  <2>2. i \notin Stale(active, active')
    BY <1>1, <2>1
  <2> QED
    BY <2>1, <2>2 DEF Stale
<1> QED
  BY <1>1, <1>2, <1>3 DEF SeriesInv

(* Series are only added for GPUs of the batch, all of them active.        *)
LEMMA SeriesPublish ==
    ASSUME BasicInv, SeriesInv, PublishStatus \/ CollectSamples
    PROVE  SeriesInv'
<1>1. /\ pc \in {"status", "samples"} /\ active' = active
      /\ pc' = "idle" \/ (pc' = "samples" /\ batch' = batch)
  BY DEF PublishStatus, CollectSamples, client
<1>2. active = batch.supported
  BY <1>1 DEF SeriesInv, AfterSample
<1>3. \A x \in series' : x \in series \/ \E i \in batch.supported : x[2] = labelsFor(i)
  BY DEF PublishStatus, CollectSamples, BasicInv, BatchInv
<1>4. SeriesAreActive'
  BY <1>1, <1>2, <1>3 DEF SeriesAreActive, SeriesInv
<1> QED
  BY <1>1, <1>2, <1>4 DEF SeriesInv, AfterSample

LEMMA SeriesNext ==
    ASSUME BasicInv, DistinctKeys, SeriesInv, [Next]_vars
    PROVE  SeriesInv'
<1>1. ASSUME NEW s \in Slot, Remove(s) \/ Insert(s)
      PROVE  UNCHANGED <<pc, batch, active, series>>
  BY <1>1 DEF Remove, Insert, client
<1>2. ASSUME NEW s \in Slot, SampleGPU(s)
      PROVE  pc' \notin AfterSample /\ UNCHANGED <<active, series>>
  BY <1>2 DEF SampleGPU, AfterSample
<1>3. Settle \/ Tick \/ UNCHANGED vars => UNCHANGED <<pc, batch, active, series>>
  BY DEF Settle, Tick, client, vars
<1>4. StartCollect \/ ListGPUs \/ ListFails \/ RemoveMissingGPUs \/ FailHealth
        \/ FailGauges
        => pc' \notin AfterSample \ {"reconcile"} /\ UNCHANGED <<active, series>>
  BY DEF StartCollect, ListGPUs, ListFails, RemoveMissingGPUs, FailHealth,
         FailGauges, AfterSample
<1>5. MarkHealth \/ MarkGauges
        => pc \in AfterSample \ {"reconcile"} /\ UNCHANGED <<batch, active, series>>
  BY DEF MarkHealth, MarkGauges, client, AfterSample
<1>6. CASE \/ UNCHANGED <<pc, batch, active, series>>
           \/ pc' \notin AfterSample \ {"reconcile"} /\ UNCHANGED <<active, series>>
           \/ pc \in AfterSample \ {"reconcile"} /\ UNCHANGED <<batch, active, series>>
  BY <1>6 DEF SeriesInv, SeriesAreActive
<1>7. ReconcileGPUs \/ PublishStatus \/ CollectSamples => SeriesInv'
  BY SeriesReconcile, SeriesPublish
<1> QED
  BY <1>1, <1>2, <1>3, <1>4, <1>5, <1>6, <1>7 DEF Next, Machine, Collect

(* reconcileGPUs with collect: as long as boards stay in their slots,      *)
(* every series of the registry belongs to an active GPU at any point of a *)
(* pass.                                                                   *)
THEOREM SeriesCorrect ==
    ASSUME BoardsStay
    PROVE  Spec => []SeriesAreActive
<1>1. HeldInv /\ DistinctKeys /\ SeriesInv /\ [Next]_vars => SeriesInv'
  BY SeriesNext DEF HeldInv
<1>2. Init => SeriesInv
  BY DEF Init, SeriesInv, SeriesAreActive, AfterSample
<1>3. SeriesInv => SeriesAreActive
  BY DEF SeriesInv
<1> QED
  BY <1>1, <1>2, <1>3, KeysCorrect, PTL DEF Spec

-----------------------------------------------------------------------------
(* The step of NoSeriesLossWhileListed.                                    *)
KeepsSeries ==
    \A x \in series \ series' : \A s \in listed : board[s] # x[2].board

LEMMA ReconcileKeepsSeries ==
    ASSUME BoardsStay, HeldInv, DistinctKeys, ReconcileGPUs
    PROVE  KeepsSeries
<1> USE DEF HeldInv
<1> SUFFICES ASSUME NEW x \in series \ series', NEW s \in listed,
                    board[s] = x[2].board
             PROVE  FALSE
  BY DEF KeepsSeries
<1>1. PICK i \in Stale(active, active') : x[2] = labelsFor(i)
  BY DEF ReconcileGPUs
<1>2. i \in active /\ i \in Info /\ i.slot \in Slot
  BY <1>1 DEF Stale, BasicInv, TypeOK, Info
<1>3. board[s] = i.board
  BY <1>1 DEF labelsFor
<1>4. s \in Slot /\ Home[s] \subseteq Board
  BY HomeAssumption DEF BasicInv, TypeOK
<1>5. i.board \in Home[s] /\ i.board # Unknown
  BY <1>2, <1>3, <1>4, NameAssumption DEF MachineInv, Info
<1>6. i.slot = s /\ devices[s] = i
  BY <1>2, <1>4, <1>5 DEF ActiveInv, BoardsStay
<1>7. pc = "reconcile" /\ todo = {}
  BY DEF ReconcileGPUs, BasicInv, BatchInv, AfterSample
<1>8. PICK j \in batch.supported : j.slot = s
  BY <1>7 DEF BasicInv, BatchInv, OutsidePass
<1>9. j = i
  BY <1>2, <1>6, <1>8, NameAssumption DEF IdentityInv, Info
<1>10. active' = batch.supported
  BY ReconciledIsSupported DEF ReconcileGPUs
<1> QED
  BY <1>1, <1>8, <1>9, <1>10 DEF Stale

LEMMA NextKeepsSeries ==
    ASSUME BoardsStay, HeldInv, DistinctKeys, [Next]_vars
    PROVE  KeepsSeries
<1>1. CASE ReconcileGPUs
  BY <1>1, ReconcileKeepsSeries
<1>2. CASE series \subseteq series'
  BY <1>2 DEF KeepsSeries
<1>3. ASSUME NEW s \in Slot, Remove(s) \/ Insert(s) \/ SampleGPU(s)
      PROVE  series' = series
  BY <1>3 DEF Remove, Insert, SampleGPU
<1>4. Settle \/ Tick \/ StartCollect \/ ListGPUs \/ ListFails
      \/ RemoveMissingGPUs \/ MarkHealth \/ MarkGauges \/ FailHealth
      \/ FailGauges \/ UNCHANGED vars => series' = series
  BY DEF Settle, Tick, StartCollect, ListGPUs, ListFails, RemoveMissingGPUs,
         MarkHealth, MarkGauges, FailHealth, FailGauges, vars
<1>5. PublishStatus \/ CollectSamples => series \subseteq series'
  BY DEF PublishStatus, CollectSamples
<1> QED
  BY <1>1, <1>2, <1>3, <1>4, <1>5 DEF Next, Machine, Collect

(* cachedGPUInfo with reconcileGPUs: when no board is found in two slots,  *)
(* a board that stays in a listed slot never loses a series.               *)
THEOREM SeriesKept == ASSUME BoardsStay PROVE Spec => NoSeriesLossWhileListed
<1>1. HeldInv /\ DistinctKeys /\ [Next]_vars => KeepsSeries
  BY NextKeepsSeries
<1>2. HeldInv /\ DistinctKeys /\ [Next]_vars
        => [\A x \in series \ series' : \A s \in listed : board[s] # x[2].board]_vars
  BY <1>1 DEF KeepsSeries
<1> QED
  BY <1>2, KeysCorrect, PTL DEF Spec, NoSeriesLossWhileListed

-----------------------------------------------------------------------------
(***************************************************************************)
(* What is in the registry between two passes. A sampled slot without a    *)
(* fault has its identity in the cache and in the batch, and a batch       *)
(* without a fault publishes a sample for all that it supports.            *)
(***************************************************************************)
Marking == {"gauges", "status", "samples"}

CachedInv ==
    pc \notin OutsidePass =>
        \A s \in listed \ todo :
            s \notin faulted => devices[s] # None /\ devices[s] \in batch.supported

MarkedInv ==
    /\ pc \in Marking =>
          lastPass = [ok |-> TRUE, listed |-> listed, faulted |-> faulted]
    /\ pc = "failGauges" => ~lastPass.ok

(* What ReadyShowsEveryGPU says, of the count alone.                       *)
ShownInv ==
    gpuCount > 0 /\ pc = "idle" =>
        \A s \in lastPass.listed :
            /\ devices[s] # None
            /\ <<"sample", labelsFor(devices[s])>> \in series

RegistryInv == PromiseInv /\ HealthInv /\ CachedInv /\ MarkedInv

LEMMA CachedSample ==
    ASSUME RegistryInv, NEW s \in Slot, SampleGPU(s)
    PROVE  CachedInv'
<1> USE DEF RegistryInv, PromiseInv
<1>1. PICK info, groups, failed : Sampled(s, info, groups, failed)
  BY SampleGPUOpened DEF BasicInv, BatchInv
<1>2. info \in Info /\ info # None
  BY <1>1, IdentitiesTyped, NameAssumption DEF Sampled, BasicInv, BatchInv, Info
<1>3. /\ pc = "sample" /\ listed' = listed /\ todo' = todo \ {s}
      /\ devices \in [Slot -> Info \cup {None}] /\ listed \subseteq Slot
  BY DEF SampleGPU, BasicInv, TypeOK
<1>4. faulted \subseteq faulted'
  BY FaultSample
<1> SUFFICES ASSUME NEW t \in listed \ todo', t \notin faulted'
             PROVE  devices'[t] # None /\ devices'[t] \in batch'.supported
  BY <1>3 DEF CachedInv
<1>5. CASE t = s
  BY <1>1, <1>2, <1>3, <1>5 DEF Sampled
<1>6. CASE t # s
  <2>1. devices'[t] = devices[t] /\ t \in listed \ todo /\ t \notin faulted
    BY <1>1, <1>3, <1>4, <1>6 DEF Sampled
  <2> QED
    BY <1>1, <1>3, <2>1 DEF Sampled, CachedInv, OutsidePass
<1> QED
  BY <1>5, <1>6

LEMMA RegistryNext == RegistryInv /\ [Next]_vars => RegistryInv'
<1> SUFFICES ASSUME RegistryInv, [Next]_vars PROVE RegistryInv'
  OBVIOUS
<1> USE DEF RegistryInv
<1>1. PromiseInv' /\ HealthInv'
  BY PromiseInvNext, HealthNext DEF PromiseInv
<1>2. CachedInv' /\ MarkedInv'
  <2> DEFINE Same == UNCHANGED <<listed, todo, devices, batch, faulted, lastPass>>
  <2>1. ASSUME NEW s \in Slot, Remove(s) \/ Insert(s) PROVE Same /\ pc' = pc
    BY <2>1 DEF Remove, Insert, client, history
  <2>2. Settle \/ Tick \/ UNCHANGED vars => Same /\ pc' = pc
    BY DEF Settle, Tick, client, history, vars
  <2>3. StartCollect \/ ListFails \/ FailHealth \/ FailGauges \/ CollectSamples
          => pc' \in OutsidePass /\ (pc' = "failGauges" => ~lastPass'.ok)
    BY DEF StartCollect, ListFails, FailHealth, FailGauges, CollectSamples, OutsidePass
  <2>4. MarkGauges \/ PublishStatus => Same /\ pc \in Marking /\ pc' \in Marking
    BY DEF MarkGauges, PublishStatus, client, history, Marking
  <2>5. ReconcileGPUs => Same /\ pc = "reconcile" /\ pc' = "health"
    BY DEF ReconcileGPUs, client, history
  <2>6. CASE Same /\ pc' = pc
    BY <2>6 DEF CachedInv, MarkedInv
  <2>7. CASE pc' \in OutsidePass /\ (pc' = "failGauges" => ~lastPass'.ok)
    BY <2>7 DEF CachedInv, MarkedInv, OutsidePass, Marking
  <2>8. CASE Same /\ pc \in Marking /\ pc' \in Marking
    BY <2>8 DEF CachedInv, MarkedInv, OutsidePass, Marking
  <2>9. CASE Same /\ pc = "reconcile" /\ pc' = "health"
    BY <2>9 DEF CachedInv, MarkedInv, OutsidePass, Marking
  <2>10. CASE ListGPUs
    BY <2>10 DEF ListGPUs, CachedInv, MarkedInv, Marking
  <2>11. ASSUME NEW s \in Slot, SampleGPU(s) PROVE CachedInv' /\ MarkedInv'
    BY <2>11, CachedSample DEF SampleGPU, MarkedInv, Marking
  <2>12. CASE RemoveMissingGPUs
    <3>1. /\ pc = "sample" /\ pc' = "reconcile" /\ listed \subseteq Slot
          /\ UNCHANGED <<listed, todo, batch, faulted>>
          /\ \A s \in listed : devices'[s] = devices[s]
      BY <2>12 DEF RemoveMissingGPUs, history, PromiseInv, BasicInv, TypeOK
    <3> QED
      BY <3>1 DEF CachedInv, MarkedInv, OutsidePass, Marking
  <2>13. CASE MarkHealth
    BY <2>13 DEF MarkHealth, client, CachedInv, MarkedInv, OutsidePass
  <2> QED
    BY <2>1, <2>2, <2>3, <2>4, <2>5, <2>6, <2>7, <2>8, <2>9, <2>10, <2>11, <2>12, <2>13
    DEF Next, Machine, Collect
<1> QED
  BY <1>1, <1>2

LEMMA RegistryInit == Init => RegistryInv
<1> SUFFICES ASSUME Init PROVE RegistryInv
  OBVIOUS
<1>1. FaultInv /\ HealthInv /\ CachedInv /\ MarkedInv
  BY DEF Init, FaultInv, EmptyBatch, HealthInv, CachedInv, MarkedInv, OutsidePass, Marking
<1> QED
  BY <1>1, BasicInit DEF RegistryInv, PromiseInv

LEMMA ShownNext == RegistryInv /\ ShownInv /\ [Next]_vars => ShownInv'
<1> SUFFICES ASSUME RegistryInv, ShownInv, [Next]_vars PROVE ShownInv'
  OBVIOUS
<1> USE DEF RegistryInv, PromiseInv
<1>1. CASE CollectSamples
  <2> SUFFICES ASSUME gpuCount > 0, NEW s \in lastPass.listed
               PROVE  devices[s] # None
                      /\ <<"sample", labelsFor(devices[s])>> \in series'
    BY <1>1 DEF CollectSamples, ShownInv
  <2>1. lastPass.listed = listed /\ lastPass.faulted = faulted
    BY <1>1 DEF CollectSamples, MarkedInv, Marking
  <2>2. faulted = {}
    BY <2>1 DEF HealthInv
  <2>3. todo = {}
    BY <1>1 DEF CollectSamples, BasicInv, BatchInv, AfterSample
  <2>4. devices[s] # None /\ devices[s] \in batch.supported
    BY <1>1, <2>1, <2>2, <2>3 DEF CollectSamples, CachedInv, OutsidePass
  <2>5. devices[s] \in batch.samples
    BY <2>2, <2>4 DEF FaultInv
  <2> QED
    BY <1>1, <2>4, <2>5 DEF CollectSamples
<1>2. CASE FailGauges
  <2>1. pc = "failGauges" /\ gpuCount' = gpuCount
    BY <1>2 DEF FailGauges
  <2>2. ~(gpuCount > 0)
    BY <2>1 DEF MarkedInv, HealthInv
  <2> QED
    BY <2>1, <2>2 DEF ShownInv
<1>3. ASSUME NEW s \in Slot, Remove(s) \/ Insert(s)
      PROVE  UNCHANGED <<pc, gpuCount, lastPass, devices, series>>
  BY <1>3 DEF Remove, Insert, client, history
<1>4. Settle \/ Tick \/ UNCHANGED vars
        => UNCHANGED <<pc, gpuCount, lastPass, devices, series>>
  BY DEF Settle, Tick, client, history, vars
<1>5. ASSUME NEW s \in Slot, SampleGPU(s) PROVE pc' # "idle"
  BY <1>5 DEF SampleGPU
<1>6. StartCollect \/ ListGPUs \/ ListFails \/ RemoveMissingGPUs \/ ReconcileGPUs
      \/ MarkHealth \/ MarkGauges \/ FailHealth \/ PublishStatus => pc' # "idle"
  BY DEF StartCollect, ListGPUs, ListFails, RemoveMissingGPUs, ReconcileGPUs,
         MarkHealth, MarkGauges, FailHealth, PublishStatus
<1> QED
  BY <1>1, <1>2, <1>3, <1>4, <1>5, <1>6 DEF Next, Machine, Collect, ShownInv

(* collect as a whole: whatever boards move and whatever fails, between    *)
(* two passes /ready answers 200 only if every GPU of the latest listing   *)
(* has its sample series in the registry.                                  *)
THEOREM ShowsCorrect == Spec => []ReadyShowsEveryGPU
<1>1. Init => ShownInv
  BY DEF Init, ShownInv
<1>2. ShownInv => ReadyShowsEveryGPU
  BY DEF ShownInv, ReadyShowsEveryGPU, Ready
<1> QED
  BY <1>1, <1>2, RegistryInit, RegistryNext, ShownNext, PTL DEF Spec

-----------------------------------------------------------------------------
(***************************************************************************)
(* The health gauges. Failures are counted by key and faults by slot; with *)
(* keys that are distinct both are counts of the infos that failed.        *)
(***************************************************************************)
FailedInfos == {f.info : f \in batch.failures}

LEMMA FailedInfosSupported ==
    ASSUME BasicInv
    PROVE  FailedInfos \subseteq batch.supported /\ IsFiniteSet(FailedInfos)
<1>1. FailedInfos \subseteq batch.supported
  BY DEF BasicInv, BatchInv, FailedInfos
<1> QED
  BY <1>1, FS_Subset DEF BasicInv, BatchInv

LEMMA FailedBySlot ==
    ASSUME PromiseInv
    PROVE  Cardinality(FailedInfos) = Cardinality(faulted)
<1> USE DEF PromiseInv
<1> DEFINE slotOf == [i \in FailedInfos |-> i.slot]
<1>1. slotOf \in Injection(FailedInfos, faulted)
  BY FailedInfosSupported
  DEF BasicInv, BatchInv, FaultInv, FailedInfos, Injection, IsInjective
<1>2. \A s \in faulted : \E i \in FailedInfos : slotOf[i] = s
  BY DEF BasicInv, BatchInv, FailedInfos
<1>3. ExistsBijection(FailedInfos, faulted)
  BY <1>1, <1>2 DEF ExistsBijection, Bijection, Surjection, Injection
<1> QED
  BY <1>3, FailedInfosSupported, FS_Bijection

LEMMA FailedByKey ==
    ASSUME BasicInv, DistinctKeys
    PROVE  Cardinality(FailedInfos) = Cardinality(FailedKeys(batch))
<1> DEFINE keyOf == [i \in FailedInfos |-> stableGPUIdentifier(i)]
<1>1. \A i \in FailedInfos : keyOf[i] \in FailedKeys(batch)
  BY DEF FailedInfos, FailedKeys
<1>2. \A i, j \in FailedInfos : keyOf[i] = keyOf[j] => i = j
  BY FailedInfosSupported DEF DistinctKeys
<1>3. \A k \in FailedKeys(batch) : \E i \in FailedInfos : keyOf[i] = k
  BY DEF FailedInfos, FailedKeys
<1>4. ExistsBijection(FailedInfos, FailedKeys(batch))
  BY <1>1, <1>2, <1>3
  DEF ExistsBijection, Bijection, Surjection, Injection, IsInjective
<1> QED
  BY <1>4, FailedInfosSupported, FS_Bijection

(* A GPU without a sample is a GPU that failed.                            *)
LEMMA CollectedInRange ==
    ASSUME PromiseInv
    PROVE  Cardinality(batch.samples)
             \in (Cardinality(batch.supported) - Cardinality(FailedInfos))
                   ..Cardinality(batch.supported)
<1> USE DEF PromiseInv
<1>1. \A i \in batch.supported : i \in batch.samples \/ i \in FailedInfos
  <2>1. \A i \in batch.supported : i.slot \in faulted => i \in FailedInfos
    BY DEF BasicInv, BatchInv, FailedInfos
  <2> QED
    BY <2>1 DEF FaultInv
<1>2. batch.supported = batch.samples \cup FailedInfos
  BY <1>1, FailedInfosSupported DEF BasicInv, BatchInv
<1>3. IsFiniteSet(batch.samples) /\ IsFiniteSet(batch.samples \cap FailedInfos)
  BY FS_Subset DEF BasicInv, BatchInv
<1>4. Cardinality(batch.supported) = Cardinality(batch.samples)
        + Cardinality(FailedInfos) - Cardinality(batch.samples \cap FailedInfos)
  BY <1>2, <1>3, FailedInfosSupported, FS_Union
<1>5. /\ Cardinality(batch.samples) \in Nat /\ Cardinality(batch.supported) \in Nat
      /\ Cardinality(FailedInfos) \in Nat
      /\ Cardinality(batch.samples \cap FailedInfos) \in Nat
  BY <1>3, FailedInfosSupported, FS_CardinalityType DEF BasicInv, BatchInv
<1>6. Cardinality(batch.samples) <= Cardinality(batch.supported)
  BY FS_Subset DEF BasicInv, BatchInv
<1> QED
  BY <1>4, <1>5, <1>6

GaugesInv ==
    /\ pc \in {"status", "samples"} => gauges = GaugesOf(batch)
    /\ GaugesMatchPass

LEMMA GaugesNext ==
    ASSUME DistinctKeys, RegistryInv, GaugesInv, [Next]_vars
    PROVE  GaugesInv'
<1> USE DEF GaugesInv
<1>1. CASE CollectSamples
  <2> USE DEF RegistryInv, PromiseInv
  <2>1. /\ pc = "samples" /\ pc' = "idle" /\ gauges' = GaugesOf(batch)
        /\ lastPass' = [ok |-> TRUE, listed |-> listed, faulted |-> faulted]
    BY <1>1 DEF CollectSamples, RegistryInv, MarkedInv, Marking
  <2>2. Cardinality(batch.supported) = Cardinality(listed)
    BY <2>1, SupportedCountsListed DEF AfterSample
  <2>3. Cardinality(FailedKeys(batch)) = Cardinality(faulted)
        /\ Cardinality(FailedInfos) = Cardinality(faulted)
    BY FailedByKey, FailedBySlot DEF RegistryInv
  <2>4. Complete(batch) <=> listed # {} /\ faulted = {}
    BY <2>1, CompleteIsClean DEF AfterSample, RegistryInv
  <2>5. /\ gauges'.up = 1 /\ gauges'.success = Flag(Complete(batch))
        /\ gauges'.discovered = Cardinality(batch.supported)
        /\ gauges'.collected = Cardinality(batch.samples)
        /\ gauges'.failed = Cardinality(FailedKeys(batch))
    BY <2>1 DEF GaugesOf
  <2>6. gauges'.success = 1 <=> (listed # {} /\ faulted = {})
    BY <2>4, <2>5 DEF Flag
  <2>7. gauges'.collected
          \in (gauges'.discovered - gauges'.failed)..gauges'.discovered
    BY <2>3, <2>5, CollectedInRange DEF RegistryInv
  <2>8. lastPass'.listed = listed /\ lastPass'.faulted = faulted
    BY <2>1
  <2> QED
    BY <2>1, <2>2, <2>3, <2>5, <2>6, <2>7, <2>8 DEF GaugesMatchPass
<1>2. CASE FailGauges
  BY <1>2 DEF FailGauges, history, GaugesMatchPass, RegistryInv, MarkedInv
<1>3. CASE MarkGauges
  BY <1>3 DEF MarkGauges, client, GaugesMatchPass
<1>4. ASSUME NEW s \in Slot, Remove(s) \/ Insert(s)
      PROVE  UNCHANGED <<pc, gauges, lastPass, batch>>
  BY <1>4 DEF Remove, Insert, client, history
<1>5. Settle \/ Tick \/ UNCHANGED vars => UNCHANGED <<pc, gauges, lastPass, batch>>
  BY DEF Settle, Tick, client, history, vars
<1>6. ASSUME NEW s \in Slot, SampleGPU(s) PROVE pc' = "sample"
  BY <1>6 DEF SampleGPU
<1>7. StartCollect \/ ListGPUs \/ ListFails \/ RemoveMissingGPUs \/ ReconcileGPUs
      \/ MarkHealth \/ FailHealth => pc' \notin {"idle", "status", "samples"}
  BY DEF StartCollect, ListGPUs, ListFails, RemoveMissingGPUs, ReconcileGPUs,
         MarkHealth, FailHealth
<1>8. PublishStatus => pc = "status" /\ pc' = "samples" /\ UNCHANGED <<batch, gauges>>
  BY DEF PublishStatus, client
<1>9. CASE UNCHANGED <<pc, gauges, lastPass, batch>>
  BY <1>9 DEF GaugesMatchPass
<1>10. CASE pc' \notin {"idle", "status", "samples"}
  BY <1>10 DEF GaugesMatchPass
<1>11. CASE pc = "status" /\ pc' = "samples" /\ UNCHANGED <<batch, gauges>>
  BY <1>11 DEF GaugesMatchPass
<1> QED
  BY <1>1, <1>2, <1>3, <1>4, <1>5, <1>6, <1>7, <1>8, <1>9, <1>10, <1>11
  DEF Next, Machine, Collect

(* markCollection: as long as boards stay in their slots, the health       *)
(* gauges tell between two passes how many GPUs were listed and had a      *)
(* failed call, although failures are counted by key and GPUs by slot.     *)
THEOREM GaugesCorrect ==
    ASSUME BoardsStay
    PROVE  Spec => []GaugesMatchPass
<1>1. Init => GaugesInv
  BY DEF Init, GaugesInv, GaugesMatchPass
<1>2. DistinctKeys /\ RegistryInv /\ GaugesInv /\ [Next]_vars => GaugesInv'
  BY GaugesNext
<1>3. GaugesInv => GaugesMatchPass
  BY DEF GaugesInv
<1> QED
  BY <1>1, <1>2, <1>3, RegistryInit, RegistryNext, KeysCorrect, PTL DEF Spec

-----------------------------------------------------------------------------
(***************************************************************************)
(* Boards that move from slot to slot. The client learns of it by listings *)
(* alone. If each empty slot is missed by a listing before a board goes    *)
(* into it, and watchers come up, the cache follows the boards, and what   *)
(* was shown of boards that stay holds again.                              *)
(***************************************************************************)
SwapIsListed == \A s \in listed : board[s] = None => board'[s] = None

(* A cached identity is that of the board that was listed, and no other    *)
(* listed slot has that board.                                             *)
PresentInv ==
    /\ \A s \in listed : devices[s] # None => board[s] \in {devices[s].board, None}
    /\ SampleNamesItsBoard

FollowInv ==
    \A s, t \in listed : s # t /\ devices[t] # None => board[s] # devices[t].board

MovingInv == NamedInv /\ HeldInv /\ PresentInv /\ FollowInv /\ BoardsApart

LEMMA PresentSample ==
    ASSUME MovingInv, NEW s \in Slot, SampleGPU(s)
    PROVE  PresentInv'
<1> USE DEF MovingInv, HeldInv
<1>1. PICK info, groups, failed : Sampled(s, info, groups, failed)
  BY SampleGPUOpened DEF BasicInv, BatchInv
<1>2. info \in Info /\ info.slot = s
  BY <1>1, IdentitiesTyped DEF Sampled, BasicInv, BatchInv
<1>3. listed' = listed /\ board' = board /\ s \in listed /\ listed \subseteq Slot
  BY DEF SampleGPU, machine, BasicInv, TypeOK
<1>4. info.board # Unknown => board[s] \in {info.board, None}
  <2>1. CASE devices[s] # None
    <3>1. info = devices[s]
      BY <1>1, <2>1 DEF Sampled, Identities
    <3> QED
      BY <1>3, <2>1, <3>1 DEF PresentInv
  <2>2. CASE devices[s] = None
    BY <1>1, <2>2 DEF Sampled, Identities, Placeholder
  <2> QED
    BY <2>1, <2>2
<1>5. /\ devices'[s] = IF info.board = Unknown THEN None ELSE info
      /\ \A t \in Slot \ {s} : devices'[t] = devices[t]
  BY <1>1 DEF Sampled, BasicInv, TypeOK
<1>6. \A t \in listed : devices'[t] # None => board[t] \in {devices'[t].board, None}
  BY <1>3, <1>4, <1>5 DEF PresentInv
<1>7. SampleNamesItsBoard'
  BY <1>1, <1>2, <1>3, <1>4 DEF Sampled, PresentInv, SampleNamesItsBoard
<1> QED
  BY <1>3, <1>6, <1>7 DEF PresentInv

LEMMA MovingSample ==
    ASSUME MovingInv, NEW s \in Slot, SampleGPU(s)
    PROVE  FollowInv' /\ BoardsApart'
<1> USE DEF MovingInv, HeldInv
<1>1. PICK info, groups, failed : Sampled(s, info, groups, failed)
  BY SampleGPUOpened DEF BasicInv, BatchInv
<1>2. listed' = listed /\ board' = board /\ s \in listed /\ listed \subseteq Slot
  BY DEF SampleGPU, machine, BasicInv, TypeOK
<1>3. /\ devices'[s] = IF info.board = Unknown THEN None ELSE info
      /\ \A t \in Slot \ {s} : devices'[t] = devices[t]
  BY <1>1 DEF Sampled, BasicInv, TypeOK
<1>4. CASE devices[s] # None
  <2>1. info = devices[s]
    BY <1>1, <1>4 DEF Sampled, Identities
  <2>2. \A t \in listed : devices'[t] # None => devices'[t] = devices[t]
    BY <1>2, <1>3, <2>1
  <2> QED
    BY <1>2, <2>2 DEF FollowInv, BoardsApart
<1>5. CASE devices[s] = None
  <2>1. info.board = Unknown \/ (info.board = board[s] /\ board[s] # None)
    BY <1>1, <1>5, IdentitiesTyped, NameAssumption
    DEF Sampled, Identities, Placeholder, Info, BasicInv, BatchInv
  <2>2. CASE info.board = Unknown
    <3>1. \A t \in listed : devices'[t] = devices[t]
      BY <1>2, <1>3, <1>5, <2>2
    <3> QED
      BY <1>2, <3>1 DEF FollowInv, BoardsApart
  <2>3. CASE info.board # Unknown /\ info.board = board[s] /\ board[s] # None
    <3>1. devices'[s] = info
      BY <1>3, <2>3
    <3>2. \A t \in listed \ {s} : board[t] # board[s]
      BY <1>2, <2>3 DEF MachineInv
    <3>3. \A t \in listed \ {s} : devices[t] # None => devices[t].board # board[s]
      BY <1>2 DEF FollowInv
    <3>4. \A t \in listed \ {s} : devices'[t] = devices[t]
      BY <1>2, <1>3
    <3>5. FollowInv'
      BY <1>2, <2>3, <3>1, <3>2, <3>4 DEF FollowInv
    <3>6. BoardsApart'
      BY <1>2, <2>3, <3>1, <3>3, <3>4 DEF BoardsApart
    <3> QED
      BY <3>5, <3>6
  <2> QED
    BY <2>1, <2>2, <2>3
<1> QED
  BY <1>4, <1>5

(* A slot that a listing adds has no identity, so a listing brings none    *)
(* together; a board goes into an unlisted slot only.                      *)
LEMMA MovingMachine ==
    ASSUME MovingInv, SwapIsListed, NEW s \in Slot, Remove(s) \/ Insert(s)
    PROVE  PresentInv' /\ FollowInv' /\ BoardsApart'
<1> USE DEF MovingInv
<1>1. UNCHANGED <<listed, devices, batch>> /\ listed \subseteq Slot
  BY DEF Remove, Insert, client, HeldInv, BasicInv, TypeOK
<1>2. \A t \in listed : board'[t] = board[t] \/ board'[t] = None
  <2>1. TypeOK
    BY DEF HeldInv, BasicInv
  <2> QED
    BY <1>1, <2>1, BeenMachine DEF SwapIsListed
<1>3. \A t \in listed : devices[t] # None => devices[t].board # None
  <2>1. \A t \in listed : Home[t] \subseteq Board
    BY <1>1, HomeAssumption
  <2> QED
    BY <1>1, <2>1, NameAssumption DEF HeldInv, IdentityInv
<1>4. \A i \in batch.samples : i.slot \in listed
  BY DEF HeldInv, BasicInv, BatchInv
<1>5. PresentInv'
  BY <1>1, <1>2, <1>4 DEF PresentInv, SampleNamesItsBoard
<1> QED
  BY <1>1, <1>2, <1>3, <1>5 DEF FollowInv, BoardsApart

LEMMA MovingNext ==
    WatchersComeUp /\ MovingInv /\ [Next]_vars /\ [SwapIsListed]_vars => MovingInv'
<1> SUFFICES ASSUME WatchersComeUp, MovingInv, [Next]_vars, [SwapIsListed]_vars
             PROVE  MovingInv'
  OBVIOUS
<1> USE DEF MovingInv
<1>1. NamedInv' /\ HeldInv'
  BY NameNext, HeldNext
<1>2. listed \subseteq Slot
  BY DEF HeldInv, BasicInv, TypeOK
<1>3. SwapIsListed
  BY DEF SwapIsListed, vars
<1>4. PresentInv' /\ FollowInv' /\ BoardsApart'
  <2>1. ASSUME NEW s \in Slot, Remove(s) \/ Insert(s)
        PROVE  PresentInv' /\ FollowInv' /\ BoardsApart'
    BY <1>3, <2>1, MovingMachine
  <2>2. ASSUME NEW s \in Slot, SampleGPU(s)
        PROVE  PresentInv' /\ FollowInv' /\ BoardsApart'
    BY <2>2, PresentSample, MovingSample
  <2>3. CASE ListGPUs
    <3>1. /\ pc = "list" /\ UNCHANGED <<board, devices, batch>>
          /\ \A s \in listed' : s \in Slot /\ board[s] # None
      BY <2>3 DEF ListGPUs
    <3>2. \A t \in listed' : devices[t] # None =>
             t \in listed /\ board[t] = devices[t].board
      BY <3>1 DEF NamedInv, NameInv, PresentInv
    <3>3. \A s, t \in listed' : s # t => board[s] # board[t]
      BY <3>1 DEF HeldInv, MachineInv
    <3> QED
      BY <3>1, <3>2, <3>3 DEF PresentInv, SampleNamesItsBoard, FollowInv, BoardsApart
  <2>4. CASE RemoveMissingGPUs
    <3>1. /\ UNCHANGED <<board, listed, batch>>
          /\ \A s \in listed : devices'[s] = devices[s]
      BY <1>2, <2>4 DEF RemoveMissingGPUs, machine
    <3> QED
      BY <3>1 DEF PresentInv, SampleNamesItsBoard, FollowInv, BoardsApart
  <2>5. CASE CollectSamples
    <3>1. batch'.samples = {} /\ UNCHANGED <<board, listed, devices>>
      BY <2>5 DEF CollectSamples, machine, EmptyBatch
    <3> QED
      BY <3>1 DEF PresentInv, SampleNamesItsBoard, FollowInv, BoardsApart
  <2>6. Settle \/ Tick \/ StartCollect \/ ListFails \/ ReconcileGPUs \/ MarkHealth
          \/ MarkGauges \/ FailHealth \/ FailGauges \/ PublishStatus
          \/ UNCHANGED vars => UNCHANGED <<board, listed, devices, batch>>
    BY DEF Settle, Tick, StartCollect, ListFails, ReconcileGPUs, MarkHealth,
           MarkGauges, FailHealth, FailGauges, PublishStatus, machine, client, vars
  <2>7. CASE UNCHANGED <<board, listed, devices, batch>>
    BY <2>7 DEF PresentInv, SampleNamesItsBoard, FollowInv, BoardsApart
  <2> QED
    BY <2>1, <2>2, <2>3, <2>4, <2>5, <2>6, <2>7 DEF Next, Machine, Collect
<1> QED
  BY <1>1, <1>4

(* What is shown of the series and the gauges with distinct keys.          *)
MovedInv == MovingInv /\ SeriesInv /\ RegistryInv /\ GaugesInv

LEMMA MovedInit == Init => MovedInv
<1> SUFFICES ASSUME Init PROVE MovedInv
  OBVIOUS
<1>1. PresentInv /\ FollowInv /\ BoardsApart
  BY DEF Init, PresentInv, SampleNamesItsBoard, FollowInv, BoardsApart, EmptyBatch
<1>2. SeriesInv /\ GaugesInv
  BY DEF Init, SeriesInv, SeriesAreActive, AfterSample, GaugesInv, GaugesMatchPass
<1> QED
  BY <1>1, <1>2, NameInit, HeldInit, RegistryInit DEF MovingInv, MovedInv

(* Samples, reconcileGPUs and markCollection: if watchers can be created,  *)
(* and a listing finds each slot empty before another board goes into it,  *)
(* then boards may move between the slots: every sample names the board it *)
(* was taken of, every series belongs to an active GPU, and the gauges     *)
(* count right. The code does not see to that condition; the machine must. *)
THEOREM MovedCorrect ==
    ASSUME WatchersComeUp
    PROVE  Spec /\ [][SwapIsListed]_vars
             => [](SampleNamesItsBoard /\ SeriesAreActive /\ GaugesMatchPass)
<1>1. MovedInv /\ [Next]_vars /\ [SwapIsListed]_vars => MovedInv'
  <2> SUFFICES ASSUME MovedInv, [Next]_vars, [SwapIsListed]_vars PROVE MovedInv'
    OBVIOUS
  <2> USE DEF MovedInv
  <2>1. BasicInv /\ HeldInv /\ DistinctKeys
    BY ApartKeys DEF MovingInv, HeldInv
  <2>2. MovingInv'
    BY MovingNext
  <2>3. SeriesInv' /\ RegistryInv' /\ GaugesInv'
    BY <2>1, SeriesNext, RegistryNext, GaugesNext
  <2> QED
    BY <2>2, <2>3
<1>2. MovedInv => SampleNamesItsBoard /\ SeriesAreActive /\ GaugesMatchPass
  BY DEF MovedInv, MovingInv, PresentInv, SeriesInv, GaugesInv
<1> QED
  BY <1>1, <1>2, MovedInit, PTL DEF Spec

=============================================================================
