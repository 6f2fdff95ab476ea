----------------------------- MODULE FieldReader -----------------------------
(***************************************************************************)
(* How the history DCGM keeps of the fields of one GPU reaches the         *)
(* registry: readWatcher reads each due group of the GPU's watcher from    *)
(* where its last read ended and keeps the status of its fields; Samples   *)
(* drops the whole sample when the fast group failed; collectSample        *)
(* publishes the statuses and hands every observation on.                  *)
(*                                                                         *)
(* A value is its time and whether it is valid (what a valid value says is *)
(* left out). Times are ticks from 1 on; 0 is Go's zero time.              *)
(* DCGM answers a read with the values of the ticks that are over and not  *)
(* longer past than it keeps them, and names the current tick as the start *)
(* of the next read. (Its other limit, 2048 values for each field, is      *)
(* beyond 60 seconds unless an interval is below 30 ms; it is left out.)   *)
(***************************************************************************)
EXTENDS Integers

CONSTANTS
    Field,      \* the watched fields of the GPU
    Group,      \* the groups of its watcher
    Rank,       \* their order in it
    GroupOf,    \* the group of each field
    Fast,       \* the group whose failure drops the sample
    Interval,   \* how many ticks lie between two reads of a group
    KeepAge,    \* how many ticks DCGM keeps a value for
    Failing,    \* the groups whose reads may fail
    Blank,      \* the fields DCGM may report as blank, that is invalid
    MaxTime     \* bound: the last tick

ASSUME GroupsAssumption ==
    /\ GroupOf \in [Field -> Group]
    /\ Rank \in [Group -> Nat]
    /\ \A g, h \in Group : Rank[g] = Rank[h] => g = h
    /\ Fast \in Group
    /\ Interval \in [Group -> Nat \ {0}]
ASSUME KeepAssumption == KeepAge \in Nat
ASSUME FailuresAssumption == Failing \subseteq Group /\ Blank \subseteq Field
ASSUME TimeAssumption == MaxTime \in Nat \ {0}

VARIABLES
    now,        \* the clock
    log,        \* DCGM: the history, a set of [field, ts, ok], less what was
                \* forgotten before it was read
    pc,         \* "idle", or "read" inside Samples
    pollTime,   \* Samples: the time the pass started
    todo,       \* readWatcher: the groups still to be looked at
    since,      \* watcher: where the next read of each group starts
    lastPoll,   \* watcher: when each group was last read
    from,       \* history: where the latest good read of each group started
    status,     \* watcher: fieldStates, [available, last] for each field
    obs,        \* the observations of the sample under construction
    fastFailed, \* Samples: the fast group failed in this pass
    shown,      \* registry: gpu_dcgm_field_available
    counted,    \* the observations that reached windows and integrals
    lost,       \* history: the observations dropped with their sample, and
                \* the valid values DCGM had forgotten when they were asked for
    dropped     \* history: the latest pass dropped its sample

reader == <<since, lastPoll, from, status>>
sample == <<pollTime, obs, fastFailed>>
ghosts == <<lost, dropped>>
vars   == <<now, log, pc, pollTime, todo, since, lastPoll, from, status, obs,
            fastFailed, shown, counted, lost, dropped>>

Time  == 1..MaxTime
Value == [field : Field, ts : Time, ok : BOOLEAN]

NoObservation == [f \in Field |-> {}]

Init ==
    /\ now = 1
    /\ log = {}
    /\ pc = "idle"
    /\ pollTime = 0
    /\ todo = {}
    /\ since = [g \in Group |-> 1]
    /\ lastPoll = [g \in Group |-> 0]
    /\ from = [g \in Group |-> 1]
    /\ status = [f \in Field |-> [available |-> FALSE, last |-> 0]]
    /\ obs = NoObservation
    /\ fastFailed = FALSE
    /\ shown = [f \in Field |-> 0]
    /\ counted = NoObservation
    /\ lost = NoObservation
    /\ dropped = FALSE

(***************************************************************************)
(* DCGM and the clock, which both go on during a pass. A tick brings a     *)
(* field one value at most, which a read can see once the tick is over.    *)
(***************************************************************************)
Recorded(fields, valid) == {[field |-> f, ts |-> now, ok |-> valid] : f \in fields}

Advance ==
    /\ now < MaxTime
    /\ now' = now + 1
    /\ \E valid \in SUBSET Field, blank \in SUBSET Blank :
         /\ valid \cap blank = {}
         /\ log' = log \cup Recorded(valid, TRUE) \cup Recorded(blank, FALSE)
    /\ UNCHANGED <<pc, todo, reader, sample, shown, counted, ghosts>>

-----------------------------------------------------------------------------
(***************************************************************************)
(* Samples for one GPU                                                     *)
(***************************************************************************)
StartPass ==
    /\ pc = "idle"
    /\ pc' = "read"
    /\ pollTime' = now
    /\ todo' = Group
    /\ UNCHANGED <<now, log, reader, obs, fastFailed, shown, counted, ghosts>>

(* The loop takes the groups in the order of the watcher.                  *)
Turn(g) == pc = "read" /\ g \in todo /\ \A h \in todo : Rank[g] <= Rank[h]

Due(g) == lastPoll[g] = 0 \/ pollTime - lastPoll[g] >= Interval[g]

SkipGroup(g) ==
    /\ Turn(g) /\ ~Due(g)
    /\ todo' = todo \ {g}
    /\ UNCHANGED <<now, log, pc, reader, sample, shown, counted, ghosts>>

ReadFailsMovesOn(g) ==             \* mutant: the read that failed is not made up for
    /\ Turn(g) /\ Due(g) /\ g \in Failing
    /\ lastPoll' = [lastPoll EXCEPT ![g] = pollTime]
    /\ status' = [f \in Field |->
                    IF GroupOf[f] = g THEN [status[f] EXCEPT !.available = FALSE]
                                      ELSE status[f]]
    /\ fastFailed' = (fastFailed \/ g = Fast)
    /\ since' = [since EXCEPT ![g] = now]
    /\ todo' = todo \ {g}
    /\ UNCHANGED <<now, log, pc, pollTime, from, obs, shown, counted, ghosts>>

(* A failed read makes every field of the group unavailable. The next read *)
(* of the group waits its turn, and starts where this one would have.      *)
ReadFails(g) ==
    /\ Turn(g) /\ Due(g) /\ g \in Failing
    /\ lastPoll' = [lastPoll EXCEPT ![g] = pollTime]
    /\ status' = [f \in Field |->
                    IF GroupOf[f] = g THEN [status[f] EXCEPT !.available = FALSE]
                                      ELSE status[f]]
    /\ fastFailed' = (fastFailed \/ g = Fast)
    /\ todo' = todo \ {g}
    /\ UNCHANGED <<now, log, pc, pollTime, since, from, obs, shown, counted, ghosts>>

(* GetValuesSince, and what it would have returned in time.                *)
Unread(f) == {v \in log : v.field = f /\ v.ts >= since[GroupOf[f]] /\ v.ts < now}

Read(f) == {v \in Unread(f) : v.ts >= now - KeepAge}

Forgotten(f) == {v \in Unread(f) : v.ts < now - KeepAge}

ValidTimes(values) == {v.ts : v \in {w \in values : w.ok}}

Newest(values) == CHOOSE v \in values : \A w \in values : w.ts <= v.ts

Latest(times, default) ==
    IF times = {} THEN default ELSE CHOOSE t \in times : \A u \in times : u <= t

(* A field that was read has the status of its newest value; a field that  *)
(* was not stays available until its last valid value is two intervals old.*)
FreshForOne(f) ==                  \* mutant: it stays available for one
    status[f].last # 0 /\ pollTime - status[f].last <= Interval[GroupOf[f]]

StillFresh(f) == status[f].last # 0 /\ pollTime - status[f].last <= 2 * Interval[GroupOf[f]]

StatusAnyValid(f, values) ==       \* mutant: one valid value is enough
    IF values = {}
    THEN [status[f] EXCEPT !.available = @ /\ StillFresh(f)]
    ELSE [available |-> \E v \in values : v.ok,
          last      |-> Latest(ValidTimes(values), status[f].last)]

StatusAfter(f, values) ==
    IF values = {}
    THEN [status[f] EXCEPT !.available = @ /\ StillFresh(f)]
    ELSE [available |-> Newest(values).ok,
          last      |-> Latest(ValidTimes(values), status[f].last)]

(* The start of the next read of g, as GetValuesSince names it.            *)
SinceKept(g) == since[g]           \* mutant: the next read starts where this one did
SinceLate(g) == now + 1            \* mutant: the next read starts one tick late

NextSince(g) == now

ReadGroup(g) ==
    /\ Turn(g) /\ Due(g)
    /\ lastPoll' = [lastPoll EXCEPT ![g] = pollTime]
    /\ status' = [f \in Field |-> IF GroupOf[f] = g THEN StatusAfter(f, Read(f))
                                                   ELSE status[f]]
    /\ obs' = [f \in Field |-> IF GroupOf[f] = g THEN ValidTimes(Read(f)) ELSE obs[f]]
    /\ from' = [from EXCEPT ![g] = since[g]]
    /\ since' = [since EXCEPT ![g] = NextSince(g)]
    /\ log' = {v \in log : GroupOf[v.field] = g => v \notin Forgotten(v.field)}
    /\ lost' = [f \in Field |-> IF GroupOf[f] = g
                                THEN lost[f] \cup ValidTimes(Forgotten(f)) ELSE lost[f]]
    /\ todo' = todo \ {g}
    /\ UNCHANGED <<now, pc, pollTime, fastFailed, shown, counted, dropped>>

(* A sample without its fast group is dropped, and what the other groups   *)
(* read with it.                                                           *)
DropSample ==
    /\ pc = "read" /\ todo = {} /\ fastFailed
    /\ pc' = "idle"
    /\ obs' = NoObservation
    /\ fastFailed' = FALSE
    /\ pollTime' = 0
    /\ lost' = [f \in Field |-> lost[f] \cup obs[f]]
    /\ dropped' = TRUE
    /\ UNCHANGED <<now, log, todo, reader, shown, counted>>

(* publishFieldStatus and processObservations                              *)
ShownIfSeen(f) == IF obs[f] # {} THEN 1 ELSE shown[f]   \* mutant: silence changes nothing

ShownStatus(f) == IF status[f].available THEN 1 ELSE 0

CollectSample ==
    /\ pc = "read" /\ todo = {} /\ ~fastFailed
    /\ pc' = "idle"
    /\ shown' = [f \in Field |-> ShownStatus(f)]
    /\ counted' = [f \in Field |-> counted[f] \cup obs[f]]
    /\ obs' = NoObservation
    /\ pollTime' = 0
    /\ dropped' = FALSE
    /\ UNCHANGED <<now, log, todo, reader, fastFailed, lost>>

Next ==
    \/ Advance
    \/ StartPass
    \/ \E g \in Group : SkipGroup(g) \/ ReadFails(g) \/ ReadGroup(g)
    \/ DropSample
    \/ CollectSample

Spec == Init /\ [][Next]_vars

-----------------------------------------------------------------------------
(***************************************************************************)
(* Properties                                                              *)
(***************************************************************************)
(* The types of all variables.                                             *)
TypeOK ==
    /\ now \in Time
    /\ log \subseteq Value
    /\ pc \in {"idle", "read"}
    /\ pollTime \in 0..now
    /\ todo \subseteq Group
    /\ since \in [Group -> Time] /\ from \in [Group -> Time]
    /\ lastPoll \in [Group -> 0..MaxTime]
    /\ status \in [Field -> [available : BOOLEAN, last : 0..MaxTime]]
    /\ obs \in [Field -> SUBSET Time] /\ counted \in [Field -> SUBSET Time]
    /\ fastFailed \in BOOLEAN
    /\ shown \in [Field -> {0, 1}]
    /\ lost \in [Field -> SUBSET Time] /\ dropped \in BOOLEAN

(* readWatcher: whatever reads fail, a value enters the windows and the    *)
(* integrals once at most, and after all earlier values of its field.      *)
CountedOnceInOrder ==
    \A f \in Field : \A t \in obs[f], u \in counted[f] : u < t

(* readWatcher, Samples and collectSample: between two passes every valid  *)
(* value that a read has returned has been counted, or was lost with the   *)
(* sample of a pass whose fast group failed; and none is both.             *)
CountedOrDropped ==
    /\ pc = "idle" =>
         \A v \in log : v.ok /\ v.ts < since[GroupOf[v.field]]
                           => v.ts \in counted[v.field] \cup lost[v.field]
    /\ \A f \in Field : counted[f] \cap lost[f] = {}

(* publishFieldStatus: unless the latest pass dropped its sample, the      *)
(* registry tells the availability the watcher holds, silent fields too.   *)
ShownUnlessDropped ==
    pc = "idle" /\ ~dropped =>
        \A f \in Field : shown[f] = 1 <=> status[f].available

(* readWatcher, Samples and collectSample implement Delivery: no valid     *)
(* value DCGM records goes unaccounted for, is handed on twice, is left    *)
(* behind by a read of a later one, or parts from its sample.              *)
Waiting(f) == ValidTimes({v \in log : v.field = f /\ v.ts >= since[GroupOf[f]]})

Delivered == INSTANCE Delivery
    WITH waiting <- [f \in Field |-> Waiting(f)], taken <- obs

ValuesDelivered == Delivered!Spec

(* README.md:297: "_max and _avg ... computed from every DCGM value        *)
(* returned by GetValuesSince". Between two passes every valid value that  *)
(* a read has returned has been counted.                                   *)
ReturnedIsCounted ==
    pc = "idle" =>
        \A v \in log : v.ok /\ v.ts < since[GroupOf[v.field]]
                          => v.ts \in counted[v.field]

(* readWatcher: an available field's newest value read so far is valid,    *)
(* and unless the latest read returned it, it was at most two intervals    *)
(* old at that read. This is what the code does with a field no value came *)
(* of; the help text of the gauge says something else (LatestReadWasValid).*)
AvailableIsRecent ==
    \A f \in Field : LET g == GroupOf[f] IN
        status[f].available =>
            /\ [field |-> f, ts |-> status[f].last, ok |-> TRUE] \in log
            /\ \A v \in log : v.field = f /\ v.ts < since[g] => v.ts <= status[f].last
            /\ \/ status[f].last >= from[g]
               \/ lastPoll[g] - status[f].last <= 2 * Interval[g]

(* metrics.go:191: gpu_dcgm_field_available tells "whether the latest      *)
(* scheduled read returned a valid value for this DCGM field". Between two *)
(* passes a field shown as available has one among the values of the       *)
(* latest read of its group that succeeded.                                *)
LatestReadWasValid ==
    pc = "idle" => \A f \in Field : LET g == GroupOf[f] IN
        shown[f] = 1 => \E v \in log : /\ v.field = f /\ v.ok
                                       /\ from[g] <= v.ts /\ v.ts < since[g]

=============================================================================
