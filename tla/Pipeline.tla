------------------------------- MODULE Pipeline -------------------------------
(***************************************************************************)
(* The way of the values of one GPU from DCGM to the integrals: the client *)
(* (FieldReader) and the exporter (Integrals) put together. What the pass  *)
(* read, and the status each field has at its end, is the sample that      *)
(* collectSample hands to processObservations; the next pass starts when   *)
(* it has returned, as both run in the goroutine of Exporter.Run.          *)
(*                                                                         *)
(* FieldReader is extended; of Integrals the steps of the exporter are     *)
(* taken as they are, while its client, which may come up with any status  *)
(* and reads any part of what is pending, is replaced by FieldReader.      *)
(***************************************************************************)
EXTENDS FieldReader, FiniteSets

CONSTANTS Metric, MetricOf, Preferred, MaxGap, None

ASSUME IntegrationAssumption ==
    /\ MetricOf \in [Field -> Metric]
    /\ None \notin Field /\ Preferred \in [Field -> Field \cup {None}]
    /\ MaxGap \in [Field -> Nat]
    /\ IsFiniteSet(Field)

VARIABLES
    stage,      \* "idle", or "observe" inside collectSample
    fields,     \* GPUSample.Fields of the latest pass: the fields available
    queue,      \* exporter: as in Integrals, from here on
    times,
    observed,
    taken,
    ends,
    spans,
    broken      \* history: since of each group at the reads that failed

exporter == <<queue, times, observed, taken, ends, spans>>
whole    == <<vars, stage, fields, exporter, broken>>

(* What DCGM recorded and no sample has brought to its end yet waits for   *)
(* the exporter.                                                           *)
Exporter == INSTANCE Integrals
    WITH now <- now - 1, pc <- stage,
         pending <- [f \in Field |-> Waiting(f) \cup obs[f]],
         available <- [f \in Field |-> f \in fields]

PipelineInit ==
    /\ Init
    /\ stage = "idle" /\ fields = {}
    /\ queue = [f \in Field |-> {}]
    /\ times = [f \in Field |-> 0]
    /\ observed = [m \in Metric |-> 0]
    /\ taken = [f \in Field |-> {}]
    /\ ends = [f \in Field |-> {}]
    /\ spans = [f \in Field |-> {}]
    /\ broken = [g \in Group |-> {}]

Available == {f \in Field : status[f].available}

Reading ==
    /\ stage = "idle"
    /\ \/ Advance \/ StartPass
       \/ \E g \in Group : SkipGroup(g) \/ ReadGroup(g)
    /\ UNCHANGED <<stage, fields, exporter, broken>>

Failure ==
    /\ stage = "idle"
    /\ \E g \in Group : /\ ReadFails(g)
                        /\ broken' = [broken EXCEPT ![g] = @ \cup {since[g]}]
    /\ UNCHANGED <<stage, fields, exporter>>

Dropped ==
    /\ stage = "idle"
    /\ DropSample
    /\ fields' = Available
    /\ UNCHANGED <<stage, exporter, broken>>

(* collectSample: its statuses are published, its observations processed.  *)
Handed ==
    /\ stage = "idle"
    /\ CollectSample
    /\ stage' = "observe"
    /\ fields' = Available
    /\ queue' = obs
    /\ UNCHANGED <<times, observed, taken, ends, spans, broken>>

Observing ==
    /\ UNCHANGED <<vars, fields, broken>>
    /\ \/ \E f \in Field : Exporter!Observe(f)
       \/ Exporter!ResetUnavailable

PipelineNext == Reading \/ Failure \/ Dropped \/ Handed \/ Observing

PipelineSpec == PipelineInit /\ [][PipelineNext]_whole

-----------------------------------------------------------------------------
(***************************************************************************)
(* Properties                                                              *)
(***************************************************************************)
(* readWatcher, Samples, collectSample: whatever Integrals assumes of the  *)
(* client the real one keeps to, and so what is shown of Integrals holds   *)
(* of the statuses and values that readWatcher comes up with.              *)
IntegralsKept == Exporter!Spec

(* From DCGM's history to the integrals: between two passes the time       *)
(* between two neighbouring values of a field that is no stand-in has been *)
(* integrated, if it is not too wide, neither value was dropped or came    *)
(* too late, DCGM reported no blank in between, and no read failed that    *)
(* had to return the later one. A quiet field is not taken for a broken    *)
(* one as long as its values are at most two intervals apart.              *)
Unbroken(f, a, b) ==
    /\ \A v \in log : v.field = f /\ ~v.ok => v.ts < a \/ b < v.ts
    /\ \A s \in broken[GroupOf[f]] : s <= a \/ b < s

QuietTimeIsIntegrated ==
    pc = "idle" /\ stage = "idle" =>
        \A f \in {g \in Field : Preferred[g] = None} : \A a, b \in counted[f] :
            /\ a < b /\ \A t \in counted[f] \cup lost[f] : t <= a \/ b <= t
            /\ b - a <= MaxGap[f] /\ b - a <= 2 * Interval[GroupOf[f]]
            /\ Unbroken(f, a, b)
            => <<a, b>> \in spans[f]

(* metrics.go:166: "DCP is preferred with legacy DCGM fallback". With the  *)
(* statuses readWatcher comes up with no moment is integrated into a       *)
(* metric by two fields.                                                   *)
FallbackTimeOnce == Exporter!MetricTimeOnce

=============================================================================
