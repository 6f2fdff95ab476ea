------------------------------ MODULE Integrals ------------------------------
(***************************************************************************)
(* The integrals the exporter keeps for one GPU: processObservations adds, *)
(* for every observation of a sample, the time since the previous one of   *)
(* its field to the observed seconds of its metric (and the value times    *)
(* that time to the weighted seconds, byte and energy totals).             *)
(*                                                                         *)
(* Two fields may feed one metric: the legacy PCIe rates stand in for the  *)
(* DCP ones while those are unavailable. Values are abstracted away, only  *)
(* their times matter here; the statuses that come with a sample are those *)
(* FieldReader computes, any that agree with the values read. Time stands  *)
(* still while a sample is observed, which reads no clock and asks DCGM    *)
(* nothing: all times are DCGM's. (Pipeline puts the real client in place  *)
(* of ClientPass.)                                                         *)
(***************************************************************************)
EXTENDS Integers, FiniteSets

CONSTANTS
    Field,      \* the integrated fields of the GPU
    Metric,     \* the metrics they feed
    MetricOf,   \* aggregationForField
    Preferred,  \* the DCP field a legacy PCIe field stands in for, or None
    MaxGap,     \* maxObservationGap of each field, in ticks
    MaxTime,    \* bound: the last tick
    None

ASSUME FieldsAssumption ==
    /\ MetricOf \in [Field -> Metric]
    /\ None \notin Field
    /\ Preferred \in [Field -> Field \cup {None}]
ASSUME FiniteAssumption == IsFiniteSet(Field)
ASSUME GapAssumption == MaxGap \in [Field -> Nat]
ASSUME TimeAssumption == MaxTime \in Nat

VARIABLES
    now,        \* the clock of DCGM
    pending,    \* client: the times of the valid values not read yet, by field
    available,  \* client: the status of each field
    pc,         \* "idle", or "observe" inside collectSample
    queue,      \* sample: the times of its observations, by field, in order
    times,      \* exporter: observationTimes, 0 for a missing entry
    observed,   \* registry: the observed seconds of each metric
    taken,      \* history: the observations not skipped, since the series began
    ends,       \* history: the newest observations when a sample found the field unavailable
    spans       \* history: the <<from, to>> integrated, since the series began

source  == <<now, pending, available>>
history == <<taken, ends, spans>>
vars    == <<now, pending, available, pc, queue, times, observed, taken, ends, spans>>

Time == 1..MaxTime
Span == {s \in Time \X Time : s[1] < s[2]}

Init ==
    /\ now = 0
    /\ pending = [f \in Field |-> {}]
    /\ available = [f \in Field |-> FALSE]
    /\ pc = "idle"
    /\ queue = [f \in Field |-> {}]
    /\ times = [f \in Field |-> 0]
    /\ observed = [m \in Metric |-> 0]
    /\ taken = [f \in Field |-> {}]
    /\ ends = [f \in Field |-> {}]
    /\ spans = [f \in Field |-> {}]

(* DCGM records valid values of some of the fields at the next tick.       *)
Advance ==
    /\ pc = "idle" /\ now < MaxTime
    /\ now' = now + 1
    /\ \E F \in SUBSET Field :
         pending' = [f \in Field |-> pending[f] \cup {t \in {now'} : f \in F}]
    /\ UNCHANGED <<available, pc, queue, times, observed, history>>

(* What a pass may read: of each field what DCGM recorded before upto[f],  *)
(* nothing of a field whose group is not due or fails.                     *)
Reads ==
    {upto \in [Field -> 0..(now + 1)] :
        \A f \in Field : upto[f] \in {0} \cup {t + 1 : t \in pending[f]}}

Fetched(f, upto) == {t \in pending[f] : t < upto[f]}

(* One pass of the client: a field is available after it only if it was    *)
(* before or a valid value of it was read, and may be unavailable whatever *)
(* was read (a blank came last, the read failed).                          *)
ClientPass(upto) ==
    /\ \E up \in SUBSET {f \in Field : available[f] \/ Fetched(f, upto) # {}} :
         available' = [f \in Field |-> f \in up]
    /\ pending' = [f \in Field |-> pending[f] \ Fetched(f, upto)]

(* The fast group failed, and Samples drops what the other groups read; or *)
(* DCGM has forgotten what nobody read in time.                            *)
LoseSample ==
    /\ pc = "idle"
    /\ \E upto \in Reads : ClientPass(upto)
    /\ UNCHANGED <<now, pc, queue, times, observed, history>>

StartSample ==
    /\ pc = "idle"
    /\ \E upto \in Reads :
         /\ ClientPass(upto)
         /\ queue' = [f \in Field |-> Fetched(f, upto)]
    /\ pc' = "observe"
    /\ UNCHANGED <<now, times, observed, history>>

(* dcpPCIeAvailable, asked of the statuses at the end of the read.         *)
Replaced(f) == Preferred[f] # None /\ available[Preferred[f]]

(* observationInterval: the ticks since the previous observation of f; 0   *)
(* without one, when the time did not advance, and when the gap is too wide*)
IntervalReversed(f, t) ==                 \* mutant: the operands are swapped
    IF times[f] = 0 \/ t <= times[f] \/ t - times[f] > MaxGap[f]
    THEN 0 ELSE times[f] - t

observationInterval(f, t) ==
    IF times[f] = 0 \/ t <= times[f] \/ t - times[f] > MaxGap[f]
    THEN 0 ELSE t - times[f]

(* The values of a read are sorted by time.                                *)
Unsorted(f, t) == \A u \in queue[f] : u <= t     \* mutant: newest first

IsNext(f, t) == \A u \in queue[f] : t <= u

(* One round of the loop of processObservations, for the next value of f.  *)
Observe(f) ==
    /\ pc = "observe"
    /\ \E t \in queue[f] :
         /\ IsNext(f, t)
         /\ queue' = [queue EXCEPT ![f] = @ \ {t}]
         /\ IF Replaced(f)
            THEN UNCHANGED <<times, observed, taken, spans>>
            ELSE LET dt == observationInterval(f, t)
                 IN /\ times' = [times EXCEPT ![f] = t]
                    /\ observed' = [observed EXCEPT ![MetricOf[f]] = @ + dt]
                    /\ taken' = [taken EXCEPT ![f] = @ \cup {t}]
                    /\ spans' = [spans EXCEPT ![f] = @ \cup
                                   {s \in {<<times[f], t>>} : dt > 0}]
    /\ UNCHANGED <<source, pc, ends>>

Newest(ts) == {t \in ts : \A u \in ts : u <= t}

(* resetUnavailableFields, once the loop is over.                          *)
KeepTimes ==                              \* mutant: unavailable fields are not reset
    /\ pc = "observe" /\ \A f \in Field : queue[f] = {}
    /\ ends' = [f \in Field |-> ends[f] \cup {t \in Newest(taken[f]) : ~available[f]}]
    /\ pc' = "idle"
    /\ UNCHANGED <<source, queue, times, observed, taken, spans>>

ResetUnavailable ==
    /\ pc = "observe" /\ \A f \in Field : queue[f] = {}
    /\ times' = [f \in Field |-> IF available[f] THEN times[f] ELSE 0]
    /\ ends' = [f \in Field |-> ends[f] \cup {t \in Newest(taken[f]) : ~available[f]}]
    /\ pc' = "idle"
    /\ UNCHANGED <<source, queue, observed, taken, spans>>

(* reconcileGPUs drops the GPU: DeleteGPU its series, deleteGPUState its   *)
(* observation times. Its labels changed, or it is gone, and its watcher   *)
(* with all that was not read yet.                                         *)
SeriesOnly ==                             \* mutant: observationTimes outlive the series
    /\ pc = "idle"
    /\ observed' = [m \in Metric |-> 0]
    /\ taken' = [f \in Field |-> {}]
    /\ ends' = [f \in Field |-> {}]
    /\ spans' = [f \in Field |-> {}]
    /\ UNCHANGED <<source, pc, queue, times>>

DropGPU ==
    /\ pc = "idle"
    /\ times' = [f \in Field |-> 0]
    /\ observed' = [m \in Metric |-> 0]
    /\ taken' = [f \in Field |-> {}]
    /\ ends' = [f \in Field |-> {}]
    /\ spans' = [f \in Field |-> {}]
    /\ \/ UNCHANGED <<pending, available>>
       \/ /\ pending' = [f \in Field |-> {}]
          /\ available' = [f \in Field |-> FALSE]
    /\ UNCHANGED <<now, pc, queue>>

Next ==
    \/ Advance
    \/ LoseSample \/ StartSample
    \/ \E f \in Field : Observe(f)
    \/ ResetUnavailable
    \/ DropGPU

Spec == Init /\ [][Next]_vars

-----------------------------------------------------------------------------
(***************************************************************************)
(* Properties                                                              *)
(***************************************************************************)
(* The types of all variables.                                             *)
TypeOK ==
    /\ now \in 0..MaxTime
    /\ pending \in [Field -> SUBSET Time] /\ queue \in [Field -> SUBSET Time]
    /\ available \in [Field -> BOOLEAN]
    /\ pc \in {"idle", "observe"}
    /\ times \in [Field -> 0..MaxTime]
    /\ observed \in [Metric -> Nat]
    /\ taken \in [Field -> SUBSET Time] /\ ends \in [Field -> SUBSET Time]
    /\ spans \in [Field -> SUBSET Span]

(* processObservations, observationInterval and resetUnavailableFields:    *)
(* what a field has integrated is exactly the time between neighbouring    *)
(* observations of it that are close enough, unless a sample with the field*)
(* unavailable came while the earlier one was the newest.                  *)
SpansAreExact ==
    \A f \in Field : \A a, b \in taken[f] :
        (/\ a < b /\ \A t \in taken[f] : t <= a \/ b <= t)
        => (<<a, b>> \in spans[f] <=> b - a <= MaxGap[f] /\ a \notin ends[f])

(* observationInterval: a field integrates no moment twice, however its    *)
(* values were split over passes, whatever samples were lost in between.   *)
FieldTimeOnce ==
    \A f \in Field : \A r, s \in spans[f] : r # s => r[2] <= s[1] \/ s[2] <= r[1]

(* README.md:299: "Rate fields are also integrated into                    *)
(* gpu_pcie_*_bytes_total", with metrics.go:166: "DCP is preferred with    *)
(* legacy DCGM fallback". No moment is integrated into a metric twice, not *)
(* by two of its fields either.                                            *)
MetricTimeOnce ==
    \A f, g \in Field : f # g /\ MetricOf[f] = MetricOf[g] =>
        \A r \in spans[f], s \in spans[g] : r[2] <= s[1] \/ s[2] <= r[1]

(* deleteGPUState with DeleteGPU: a counter never exceeds the time between *)
(* the oldest and the newest observation since its series began, once for  *)
(* each field that feeds it: a series that starts anew starts from nothing.*)
ObservedWithinLife ==
    \A m \in Metric : LET fed == {f \in Field : MetricOf[f] = m} IN
        \/ observed[m] = 0
        \/ \E a, b \in UNION {taken[f] : f \in fed} :
               observed[m] <= Cardinality(fed) * (b - a)

=============================================================================
