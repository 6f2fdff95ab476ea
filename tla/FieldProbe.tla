----------------------------- MODULE FieldProbe -----------------------------
(***************************************************************************)
(* How ensureWatcher builds the watcher of one GPU out of DCGM groups.     *)
(*                                                                         *)
(* For each list of fields watchableOptionalFields finds out which of them *)
(* the GPU can watch together: it tries the list as a whole on top of what *)
(* was accepted so far and halves it when DCGM refuses. Its recursion is a *)
(* stack here, of intervals of the list. A trial, and then the group that  *)
(* is kept, is a createWatcher: four DCGM calls, each of which may fail,   *)
(* with the field group and the device group to be given back on the way   *)
(* out. The DCP fields are not tried out but picked from the metric groups *)
(* that DCGM reports. removeMissingGPUs and Close give everything back.    *)
(***************************************************************************)
EXTENDS Integers, Sequences, FiniteSets

CONSTANTS
    Field,          \* the fields
    Required,       \* fastRequiredFields
    Candidates,     \* the list of fields to be tried at each stage, fast first
    Profiling,      \* profFields
    Families,       \* what DCGM may accept: the sets of fields it can watch
    MetricGroups,   \* what GetSupportedMetricGroups may answer: sequences of sets
    Flaky           \* whether a call may fail though its fields are accepted

ASSUME FieldAssumption ==
    /\ IsFiniteSet(Field)
    /\ Required \subseteq Field /\ Required # {}
    /\ Candidates \in Seq(Seq(Field)) /\ Candidates # <<>>
    /\ Profiling \subseteq Field
ASSUME FlakyAssumption == Flaky \in BOOLEAN

(* DCGM refuses no part of a set of fields that it accepts.                *)
ASSUME FamilyAssumption ==
    \A A \in Families : /\ A \subseteq SUBSET Field
                        /\ \A S \in A : \A T \in SUBSET S : T \in A
ASSUME MetricGroupAssumption == MetricGroups \subseteq Seq(SUBSET Field)

VARIABLES
    accepted,       \* DCGM: the sets of fields that can be watched
    metricGroups,   \* DCGM: the supported metric groups
    fieldGroups,    \* DCGM: how many field groups exist
    deviceGroups,   \* DCGM: how many device groups exist
    pc,             \* "idle", "probe", a call of createWatcher, or "profiling"
    stage,          \* the list being tried; Len(Candidates) + 1: the DCP fields
    stack,          \* watchableOptionalFields: the batches still to be tried
    fields,         \* watchableOptionalFields: the fields accepted so far
    probing,        \* createWatcher is called for a trial
    trial,          \* createWatcher: its fields
    groups,         \* the groups built so far, as [stage, fields]
    watcher,        \* client: the groups of the watcher, {} without one
    probes,         \* history: the trials of this stage
    hiccup          \* history: the stages in which a call failed by chance

dcgm   == <<accepted, metricGroups>>
search == <<stage, stack, fields>>
vars   == <<accepted, metricGroups, fieldGroups, deviceGroups, pc, stage, stack,
            fields, probing, trial, groups, watcher, probes, hiccup>>

Stage  == 1..(Len(Candidates) + 1)
DCP    == Len(Candidates) + 1
Kept   == [stage : Stage, fields : SUBSET Field]

(* The candidates of stage s as a set, and those of an interval of them.   *)
Batch(s, b) == {Candidates[s][i] : i \in b[1]..b[2]}
AllOf(s)    == Batch(s, <<1, Len(Candidates[s])>>)

WholeList(s) == IF Candidates[s] = <<>> THEN <<>> ELSE <<(<<1, Len(Candidates[s])>>)>>

Init ==
    /\ accepted \in Families /\ metricGroups \in MetricGroups
    /\ fieldGroups = 0 /\ deviceGroups = 0
    /\ pc = "idle"
    /\ stage = 1 /\ stack = <<>> /\ fields = {}
    /\ probing = FALSE /\ trial = {}
    /\ groups = {} /\ watcher = {}
    /\ probes = 0 /\ hiccup = {}

-----------------------------------------------------------------------------
(***************************************************************************)
(* ensureWatcher                                                           *)
(***************************************************************************)
EnsureWatcher ==
    /\ pc = "idle" /\ watcher = {}
    /\ pc' = "probe"
    /\ stage' = 1 /\ stack' = WholeList(1) /\ fields' = Required
    /\ groups' = {} /\ probes' = 0 /\ hiccup' = {}
    /\ UNCHANGED <<dcgm, fieldGroups, deviceGroups, probing, trial, watcher>>

(* On to the next list, or after the last one to the DCP fields.           *)
NextStage ==
    /\ stage' = stage + 1
    /\ stack' = IF stage' = DCP THEN <<>> ELSE WholeList(stage')
    /\ fields' = {}
    /\ probes' = 0
    /\ pc' = IF stage' = DCP THEN "profiling" ELSE "probe"

(* The watcher is complete and stored.                                     *)
Install(built) ==
    /\ watcher' = built
    /\ pc' = "idle"
    /\ UNCHANGED <<search, probes>>

(* createWatcher is about to make its first call.                          *)
Create(set, asTrial) ==
    /\ trial' = set /\ probing' = asTrial
    /\ pc' = "fieldGroup"

(* addBatch tries the batch on top of the stack.                           *)
Probe ==
    /\ pc = "probe" /\ stack # <<>>
    /\ Create(fields \cup Batch(stage, Head(stack)), TRUE)
    /\ probes' = probes + 1
    /\ UNCHANGED <<dcgm, fieldGroups, deviceGroups, search, groups, watcher, hiccup>>

(* addOptionalGroup leaves out a group without fields.                     *)
SkipGroup ==
    /\ pc = "probe" /\ stack = <<>> /\ fields = {}
    /\ NextStage
    /\ UNCHANGED <<dcgm, fieldGroups, deviceGroups, probing, trial, groups, watcher, hiccup>>

KeepGroup ==
    /\ pc = "probe" /\ stack = <<>> /\ fields # {}
    /\ Create(fields, FALSE)
    /\ UNCHANGED <<dcgm, fieldGroups, deviceGroups, search, groups, watcher, probes, hiccup>>

(* selectBestProfilingFields: the requested fields of the metric group     *)
(* that has most of them, the first such group.                            *)
AllSupported(supported) ==     \* mutant: the fields of all metric groups together
    UNION {Profiling \cap supported[i] : i \in DOMAIN supported}

BestProfiling(supported) ==
    IF supported = <<>> THEN {}
    ELSE LET size(i) == Cardinality(Profiling \cap supported[i])
             best == CHOOSE i \in DOMAIN supported :
                        /\ \A j \in DOMAIN supported : size(j) <= size(i)
                        /\ \A j \in 1..(i - 1) : size(j) < size(i)
         IN Profiling \cap supported[best]

(* supportedProfilingFields; without any, the watcher does without them.   *)
QueryProfiling ==
    /\ pc = "profiling"
    /\ \/ /\ BestProfiling(metricGroups) # {}
          /\ Create(BestProfiling(metricGroups), FALSE)
          /\ UNCHANGED <<search, groups, watcher, probes, hiccup>>
       \/ /\ BestProfiling(metricGroups) = {} \/ Flaky
          /\ Install(groups)
          /\ UNCHANGED <<probing, trial, groups, hiccup>>
    /\ UNCHANGED <<dcgm, fieldGroups, deviceGroups>>

-----------------------------------------------------------------------------
(***************************************************************************)
(* createWatcher, one action for each of its calls                         *)
(***************************************************************************)
(* What its callers do with an error: addBatch halves the batch or skips   *)
(* its only field; ensureWatcher gives up without the fast group and goes  *)
(* on without any other.                                                   *)
HalvesOverlap(b) ==                    \* mutant: the middle is in both halves
    LET middle == b[1] + (b[2] - b[1]) \div 2
    IN <<(<<b[1], middle>>), <<middle, b[2]>>>>

Halves(b) ==
    LET middle == b[1] + (b[2] - b[1] + 1) \div 2
    IN <<(<<b[1], middle - 1>>), <<middle, b[2]>>>>

SkipBatch(b) == <<>>                   \* mutant: a refused batch is not halved

Rest(b) == IF b[1] = b[2] THEN <<>> ELSE Halves(b)

Refused ==
    IF probing
    THEN /\ stack' = Rest(Head(stack)) \o Tail(stack)
         /\ pc' = "probe"
         /\ UNCHANGED <<stage, fields, groups, watcher, probes>>
    ELSE CASE stage = 1   -> pc' = "idle" /\ UNCHANGED <<search, groups, watcher, probes>>
           [] stage = DCP -> Install(groups) /\ UNCHANGED groups
           [] OTHER       -> NextStage /\ UNCHANGED <<groups, watcher>>

(* An error counts as a hiccup when DCGM would have accepted the fields.   *)
Hiccup == hiccup' = IF trial \in accepted THEN hiccup \cup {stage} ELSE hiccup

MayFail == Flaky \/ trial \notin accepted

FieldGroupCreate ==
    /\ pc = "fieldGroup"
    /\ pc' = "group"
    /\ fieldGroups' = fieldGroups + 1
    /\ UNCHANGED <<dcgm, deviceGroups, search, probing, trial, groups, watcher, probes, hiccup>>

FieldGroupFails ==
    /\ pc = "fieldGroup" /\ MayFail
    /\ Refused /\ Hiccup
    /\ UNCHANGED <<dcgm, fieldGroups, deviceGroups, probing, trial>>

CreateGroup ==
    /\ pc = "group"
    /\ pc' = "add"
    /\ deviceGroups' = deviceGroups + 1
    /\ UNCHANGED <<dcgm, fieldGroups, search, probing, trial, groups, watcher, probes, hiccup>>

CreateGroupLeaks ==                    \* mutant: the field group is not given back
    /\ pc = "group" /\ MayFail
    /\ Refused /\ Hiccup
    /\ UNCHANGED <<dcgm, fieldGroups, deviceGroups, probing, trial>>

CreateGroupFails ==
    /\ pc = "group" /\ MayFail
    /\ fieldGroups' = fieldGroups - 1
    /\ Refused /\ Hiccup
    /\ UNCHANGED <<dcgm, deviceGroups, probing, trial>>

AddToGroup ==
    /\ pc = "add"
    /\ pc' = "watch"
    /\ UNCHANGED <<dcgm, fieldGroups, deviceGroups, search, probing, trial, groups,
                   watcher, probes, hiccup>>

(* AddToGroup or WatchFieldsWithGroupEx fails: both groups are destroyed.  *)
WatchFails ==
    /\ pc \in {"add", "watch"} /\ MayFail
    /\ fieldGroups' = fieldGroups - 1 /\ deviceGroups' = deviceGroups - 1
    /\ Refused /\ Hiccup
    /\ UNCHANGED <<dcgm, probing, trial>>

(* A trial that was accepted is taken down again; a group is kept.         *)
ProbeAccepted ==
    /\ pc = "watch" /\ probing /\ trial \in accepted
    /\ fieldGroups' = fieldGroups - 1 /\ deviceGroups' = deviceGroups - 1
    /\ fields' = trial /\ stack' = Tail(stack)
    /\ pc' = "probe"
    /\ UNCHANGED <<dcgm, stage, probing, trial, groups, watcher, probes, hiccup>>

GroupAccepted ==
    /\ pc = "watch" /\ ~probing /\ trial \in accepted
    /\ groups' = groups \cup {[stage |-> stage, fields |-> trial]}
    /\ IF stage = DCP THEN Install(groups') ELSE NextStage /\ UNCHANGED watcher
    /\ UNCHANGED <<dcgm, fieldGroups, deviceGroups, probing, trial, hiccup>>

-----------------------------------------------------------------------------
(* removeMissingGPUs and Close: destroyWatcher.                            *)
DestroyTwice ==                        \* mutant: the watcher stays in the map
    /\ pc = "idle" /\ watcher # {}
    /\ fieldGroups' = fieldGroups - Cardinality(watcher)
    /\ deviceGroups' = deviceGroups - Cardinality(watcher)
    /\ UNCHANGED <<dcgm, pc, search, probing, trial, groups, watcher, probes, hiccup>>

DestroyWatcher ==
    /\ pc = "idle" /\ watcher # {}
    /\ fieldGroups' = fieldGroups - Cardinality(watcher)
    /\ deviceGroups' = deviceGroups - Cardinality(watcher)
    /\ watcher' = {} /\ groups' = {}
    /\ UNCHANGED <<dcgm, pc, search, probing, trial, probes, hiccup>>

Build ==
    \/ Probe \/ SkipGroup \/ KeepGroup \/ QueryProfiling
    \/ FieldGroupCreate \/ FieldGroupFails
    \/ CreateGroup \/ CreateGroupFails
    \/ AddToGroup \/ WatchFails
    \/ ProbeAccepted \/ GroupAccepted

Next == EnsureWatcher \/ Build \/ DestroyWatcher

Spec == Init /\ [][Next]_vars

-----------------------------------------------------------------------------
(***************************************************************************)
(* Properties                                                              *)
(***************************************************************************)
(* The types of all variables.                                             *)
TypeOK ==
    /\ accepted \in Families /\ metricGroups \in MetricGroups
    /\ fieldGroups \in Nat /\ deviceGroups \in Nat
    /\ pc \in {"idle", "probe", "fieldGroup", "group", "add", "watch", "profiling"}
    /\ stage \in Stage
    /\ stack \in Seq(Nat \X Nat)
    /\ fields \subseteq Field /\ trial \subseteq Field
    /\ probing \in BOOLEAN
    /\ groups \subseteq Kept /\ watcher \subseteq Kept
    /\ probes \in Nat /\ hiccup \subseteq Stage

(* watchableOptionalFields: unless a call failed by chance, a watcher has  *)
(* of each list all that DCGM can watch together: no field that was left   *)
(* out could be added, whichever half of whichever batch it was refused in.*)
KeptFields(s) == UNION {g.fields : g \in {h \in watcher : h.stage = s}}

KeptIsMaximal ==
    watcher # {} =>
        \A s \in Stage \ (hiccup \cup {DCP}) :
            \A f \in AllOf(s) \ KeptFields(s) : KeptFields(s) \cup {f} \notin accepted

(* createWatcher and destroyFieldWatcher: between two passes DCGM holds    *)
(* the groups of the watcher and none besides, wherever a call failed.     *)
NoGroupLeaks ==
    pc = "idle" => /\ fieldGroups = Cardinality(watcher)
                   /\ deviceGroups = Cardinality(watcher)

(* addBatch: a list of n fields takes at most 2n - 1 trials.               *)
ProbesBounded == stage # DCP => probes = 0 \/ probes < 2 * Len(Candidates[stage])

(* ensureWatcher: a watcher has its fast group with all required fields,   *)
(* each group is accepted as a whole, and the DCP fields are from one      *)
(* metric group, as they can only be counted together.                     *)
WatcherIsWhole ==
    /\ watcher # {} => \E g \in watcher : g.stage = 1 /\ Required \subseteq g.fields
    /\ \A g \in watcher : g.fields \in accepted
    /\ \A g \in watcher : g.stage = DCP =>
          \E i \in DOMAIN metricGroups : g.fields \subseteq metricGroups[i]

=============================================================================
