------------------------------- MODULE Windows -------------------------------
(***************************************************************************)
(* What the exporter accumulates for one GPU under its stable identifier   *)
(* while the GPU comes and goes: the fixed window of a metric, which       *)
(* PublishWindow closes; the activity tracker, which counts the spells of  *)
(* utilization over a threshold; one hardware counter of the device, which *)
(* observeHardwareCounter turns into a Prometheus counter.                 *)
(*                                                                         *)
(* Dropping the GPU deletes its series and its hardwareCounters, but       *)
(* neither its window nor its activity. Passes and PublishWindow run in    *)
(* one goroutine, so that no window closes in the middle of a pass.        *)
(***************************************************************************)
EXTENDS Integers, Sequences, FiniteSets

CONSTANTS
    Level,          \* the utilizations that are told apart
    Threshold,      \* cfg.ActiveThreshold
    MinRequest,     \* cfg.MinRequestTime, in ticks
    MaxTime,        \* bound: the last tick
    MaxCount,       \* bound: how high the device counter gets between resets
    MaxEvents,      \* bound: how many events the device sees in all
    None            \* a missing map entry or series

ASSUME LevelAssumption == Level \subseteq Nat
ASSUME NoneAssumption ==
    None \notin Nat /\ None \notin [max : Nat, sum : Nat, count : Nat]
ASSUME BoundsAssumption ==
    /\ Threshold \in Nat /\ MinRequest \in Nat
    /\ MaxTime \in Nat /\ MaxCount \in Nat /\ MaxEvents \in Nat

VARIABLES
    pc,         \* "idle", or "pass" inside collectSample
    present,    \* exporter: the GPU is in activeGPUs
    time,       \* the time of the latest observation
    window,     \* WindowAggregator: [max, sum, count]
    published,  \* registry: [max, sum, count] of the _max and _avg series, or None
    activity,   \* ActivityTracker: [active, from]
    requests,   \* registry: the activity windows counted, 0 without a series
    device,     \* the counter as the device reports it
    previous,   \* exporter: hardwareCounters, or None
    counter,    \* registry: the Prometheus counter, or None
    current,    \* history: the values observed since the window opened
    closed,     \* history: the values of the window that is published
    spells,     \* history: every observation, as [time, active]
    forgotten,  \* history: the requests counted in series deleted since
    events      \* history: what the device has counted since it exists

windows  == <<window, published, current, closed>>
requestv == <<activity, requests, spells, forgotten>>
hardware == <<previous, counter>>
vars     == <<pc, present, time, window, published, activity, requests, device,
              previous, counter, current, closed, spells, forgotten, events>>

NoStats == [max |-> 0, sum |-> 0, count |-> 0]

Init ==
    /\ pc = "idle"
    /\ present = FALSE
    /\ time = 0
    /\ window = NoStats /\ published = None
    /\ activity = [active |-> FALSE, from |-> 0]
    /\ requests = 0
    /\ device \in 0..MaxCount /\ events = device
    /\ previous = None /\ counter = None
    /\ current = <<>> /\ closed = <<>>
    /\ spells = <<>> /\ forgotten = 0

-----------------------------------------------------------------------------
(***************************************************************************)
(* The device counts, and forgets what it counted when its driver reloads. *)
(***************************************************************************)
Event ==
    /\ pc = "idle" /\ device < MaxCount /\ events < MaxEvents
    /\ device' = device + 1 /\ events' = events + 1
    /\ UNCHANGED <<pc, present, time, windows, requestv, hardware>>

Reset ==
    /\ pc = "idle" /\ device > 0
    /\ device' = 0
    /\ UNCHANGED <<pc, present, time, windows, requestv, hardware, events>>

(***************************************************************************)
(* collectSample for the GPU.                                              *)
(***************************************************************************)
(* reconcileGPUs has made the GPU active; a sample of it follows or not.   *)
StartSample ==
    /\ pc = "idle"
    /\ present' = TRUE
    /\ pc' \in {"idle", "pass"}
    /\ UNCHANGED <<time, windows, requestv, device, hardware, events>>

(* WindowAggregator.Observe                                                *)
WindowWith(stats, value) ==
    [max   |-> IF stats.count = 0 \/ value > stats.max THEN value ELSE stats.max,
     sum   |-> stats.sum + value,
     count |-> stats.count + 1]

(* ActivityTracker.Observe: the state after an observation, and whether it *)
(* ended a spell that was long enough.                                     *)
IsActive(value) == value > Threshold

ActivityRestarted(value, t) ==     \* mutant: every active value restarts the spell
    [active |-> IsActive(value), from |-> IF IsActive(value) THEN t ELSE activity.from]

ActivityAfter(value, t) ==
    [active |-> IsActive(value),
     from   |-> IF IsActive(value) /\ ~activity.active THEN t ELSE activity.from]

EndsRequest(value, t) ==
    ~IsActive(value) /\ activity.active /\ t - activity.from >= MinRequest

(* One observation of the utilization in the loop of processObservations.  *)
Observe(value) ==
    /\ pc = "pass"
    /\ \E t \in (time + 1)..MaxTime :
         /\ time' = t
         /\ activity' = ActivityAfter(value, t)
         /\ requests' = IF EndsRequest(value, t) THEN requests + 1 ELSE requests
         /\ spells' = Append(spells, [time |-> t, active |-> IsActive(value)])
    /\ window' = WindowWith(window, value)
    /\ current' = Append(current, value)
    /\ UNCHANGED <<pc, present, published, closed, forgotten, device, hardware, events>>

(* observeHardwareCounter: a value below the previous one is all new.      *)
DeltaReversed(value) ==            \* mutant: the operands are swapped
    IF previous # None /\ value >= previous THEN previous - value ELSE value

Delta(value) ==
    IF previous # None /\ value >= previous THEN value - previous ELSE value

EndSample ==
    /\ pc = "pass"
    /\ \/ UNCHANGED hardware               \* the counter was not read
       \/ /\ counter' = (IF counter = None THEN 0 ELSE counter) + Delta(device)
          /\ previous' = device
    /\ pc' = "idle"
    /\ UNCHANGED <<present, time, windows, requestv, device, events>>

(***************************************************************************)
(* PublishWindow: Snapshot opens a new window whoever is active; only the  *)
(* series of active GPUs are set, or deleted when nothing was observed.    *)
(***************************************************************************)
PublishKeepingOld ==               \* mutant: an empty window deletes nothing
    /\ pc = "idle"
    /\ window' = NoStats /\ current' = <<>>
    /\ published' = IF present /\ window.count > 0 THEN window ELSE published
    /\ closed' = IF present THEN current ELSE closed
    /\ UNCHANGED <<pc, present, time, requestv, device, hardware, events>>

PublishWindow ==
    /\ pc = "idle"
    /\ window' = NoStats /\ current' = <<>>
    /\ published' = IF ~present THEN published
                    ELSE IF window.count = 0 THEN None ELSE window
    /\ closed' = IF present THEN current ELSE closed
    /\ UNCHANGED <<pc, present, time, requestv, device, hardware, events>>

(***************************************************************************)
(* reconcileGPUs drops the GPU, which is gone or has new labels: DeleteGPU *)
(* and deleteGPUState.                                                     *)
(***************************************************************************)
DropSeriesOnly ==                  \* mutant: hardwareCounters outlive the series
    /\ pc = "idle" /\ present
    /\ present' = FALSE
    /\ published' = None /\ closed' = <<>>
    /\ requests' = 0 /\ forgotten' = forgotten + requests
    /\ counter' = None
    /\ UNCHANGED <<pc, time, window, current, activity, spells, device, previous, events>>

DropGPU ==
    /\ pc = "idle" /\ present
    /\ present' = FALSE
    /\ published' = None /\ closed' = <<>>
    /\ requests' = 0 /\ forgotten' = forgotten + requests
    /\ counter' = None /\ previous' = None
    /\ UNCHANGED <<pc, time, window, current, activity, spells, device, events>>

Next ==
    \/ Event \/ Reset
    \/ StartSample \/ (\E v \in Level : Observe(v)) \/ EndSample
    \/ PublishWindow
    \/ DropGPU

Spec == Init /\ [][Next]_vars

-----------------------------------------------------------------------------
(***************************************************************************)
(* Properties                                                              *)
(***************************************************************************)
Stats == [max : Nat, sum : Nat, count : Nat]

(* The types of all variables.                                             *)
TypeOK ==
    /\ pc \in {"idle", "pass"} /\ present \in BOOLEAN
    /\ time \in 0..MaxTime
    /\ window \in Stats /\ published \in Stats \cup {None}
    /\ activity \in [active : BOOLEAN, from : 0..MaxTime]
    /\ requests \in Nat /\ forgotten \in Nat
    /\ device \in Nat /\ events \in Nat
    /\ previous \in Nat \cup {None} /\ counter \in Nat \cup {None}
    /\ current \in Seq(Level) /\ closed \in Seq(Level)
    /\ spells \in Seq([time : 1..MaxTime, active : BOOLEAN])

(* The sum of a sequence of values.                                        *)
Total(values) ==
    LET upTo[n \in 0..Len(values)] == IF n = 0 THEN 0 ELSE upTo[n - 1] + values[n]
    IN  upTo[Len(values)]

(* Observe, Snapshot and PublishWindow: the published maximum and average  *)
(* are those of the values of exactly one closed window, none carried over *)
(* from the window before; without values there are no series.             *)
PublishedIsOneWindow ==
    IF closed = <<>>
    THEN published = None
    ELSE /\ published # None
         /\ published.count = Len(closed)
         /\ \A i \in DOMAIN closed : closed[i] <= published.max
         /\ \E i \in DOMAIN closed : closed[i] = published.max
         /\ published.sum = Total(closed)

(* ActivityTracker: the requests counted, those of deleted series included,*)
(* are the spells of active observations that ended with an inactive one   *)
(* at least MinRequest after they began, however the GPU came and went.    *)
Request(i, j) ==
    /\ i < j /\ ~spells[j].active
    /\ \A k \in i..(j - 1) : spells[k].active
    /\ i = 1 \/ ~spells[i - 1].active
    /\ spells[j].time - spells[i].time >= MinRequest

RequestsAreSpells ==
    requests + forgotten =
        Cardinality({j \in DOMAIN spells : \E i \in DOMAIN spells : Request(i, j)})

(* observeHardwareCounter with deleteGPUState: the exported counter is     *)
(* never below what the device last reported, and never above what it has  *)
(* counted since it exists, over resets of the device and absences.        *)
CounterIsBounded ==
    counter # None => previous # None /\ previous <= counter /\ counter <= events

=============================================================================
