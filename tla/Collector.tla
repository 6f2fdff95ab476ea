------------------------------ MODULE Collector ------------------------------
(***************************************************************************)
(* One collection pass of the exporter, end to end: Exporter.collect calls *)
(* DCGMClient.Samples, which lists the GPUs DCGM supports, identifies and  *)
(* watches and reads each of them and drops the watchers of the GPUs that  *)
(* are gone; the exporter then reconciles the series of its registry,      *)
(* publishes its health and adds the new samples.                          *)
(*                                                                         *)
(* Beside the collector run: the machine (boards appear in and vanish from *)
(* the slots DCGM numbers), the clock, and the /ready handler, which reads *)
(* the health at any point of a pass, so that it is a state predicate here.*)
(*                                                                         *)
(* Abstracted: what a sample holds (FieldReader, Integrals, Windows),      *)
(* how a watcher is built out of field groups (module FieldProbe), and     *)
(* which groups are due in a pass (any subset of a watcher's groups may    *)
(* fail to be read).                                                       *)
(***************************************************************************)
EXTENDS Integers, FiniteSets

CONSTANTS
    Slot,           \* the GPU ids DCGM hands out
    Board,          \* the boards, each with the UUID (or PCI id) it reports
    Home,           \* the boards that may sit in each slot
    NvmlIndex,      \* the NVML index of the GPU in each slot
    OptionalGroup,  \* the kinds of the optional watcher groups
    Faults,         \* which DCGM calls may fail
    MaxAge,         \* how old, in ticks, the last success may be for /ready
    None,           \* an empty slot, a missing cache entry
    Unknown         \* the UUID of a GPU that could not be identified

ASSUME SlotAssumption == IsFiniteSet(Slot)
ASSUME HomeAssumption == Home \in [Slot -> SUBSET Board]
ASSUME IndexAssumption == NvmlIndex \in [Slot -> Slot]
ASSUME NameAssumption ==
    /\ None \notin Board /\ Unknown \notin Board /\ None # Unknown
    /\ Slot \cap Board = {}
    /\ None \notin [slot : Slot, board : Board \cup {Unknown}, index : Slot]
ASSUME FaultAssumption ==
    Faults \subseteq {"list", "identity", "index", "watch", "read"}
ASSUME AgeAssumption == MaxAge \in Nat
ASSUME GroupAssumption == "fast" \notin OptionalGroup

VARIABLES
    board,      \* machine: the board in each slot, or None
    settled,    \* machine: from now on no board moves and no call fails
    been,       \* history: the boards seated in each slot since the latest
                \* listing that missed the slot, or from the start on
    age,        \* ticks since lastSuccess, saturating; MaxAge + 1: too old or never
    pc,         \* where the collector goroutine is
    listed,     \* client: the GPU ids of the latest listing
    todo,       \* client: the listed ids this pass has yet to sample
    devices,    \* client: cached identity of each id, or None
    watchers,   \* client: the groups of each id's watcher, {} when it has none
    batch,      \* client: the SampleBatch under construction
    active,     \* exporter: activeGPUs, as the set of its values
    series,     \* registry: the GPU series, as <<family, labels>>
    gpuCount,   \* exporter: lastGPUCount
    gauges,     \* registry: the exporter's own health gauges
    faulted,    \* history: the slots a call failed for in this pass
    lastPass    \* history: what the latest pass marked met

machine == <<board, settled, been>>
client  == <<listed, todo, devices, watchers, batch>>
history == <<faulted, lastPass>>
vars    == <<board, settled, been, age, pc, listed, todo, devices, watchers,
             batch, active, series, gpuCount, gauges, faulted, lastPass>>

(***************************************************************************)
(* Identities, labels and keys.                                            *)
(***************************************************************************)
Info   == [slot : Slot, board : Board \cup {Unknown}, index : Slot]
Labels == [board : Board \cup {Unknown}, index : Slot]
Group  == {"fast"} \cup OptionalGroup
Reason == {"identity", "watch"} \cup Group

(* The identity Samples makes up for a GPU it could not query: everything  *)
(* unknown, the GPU id as its index.                                       *)
Placeholder(s) == [slot |-> s, board |-> Unknown, index |-> s]

(* A GPU is keyed by its UUID or PCI id, and by its index without one.     *)
stableGPUIdentifier(info) ==
    IF info.board # Unknown THEN info.board ELSE info.index

labelsFor(info) == [board |-> info.board, index |-> info.index]

Keys(infos) == {stableGPUIdentifier(i) : i \in infos}

EmptyBatch == [supported |-> {}, samples |-> {}, failures |-> {}]

FailedKeys(b) == {stableGPUIdentifier(f.info) : f \in b.failures}

ZeroGauges == [up |-> 0, success |-> 0, discovered |-> 0,
               collected |-> 0, failed |-> 0]

Flag(b) == IF b THEN 1 ELSE 0

-----------------------------------------------------------------------------
Init ==
    /\ board \in [Slot -> Board \cup {None}]
    /\ \A s \in Slot : board[s] \in Home[s] \cup {None}
    /\ \A s, t \in Slot : s # t /\ board[s] # None => board[s] # board[t]
    /\ settled = FALSE
    /\ been = [s \in Slot |-> {board[s]} \ {None}]
    /\ age = MaxAge + 1
    /\ pc = "idle"
    /\ listed = {} /\ todo = {}
    /\ devices = [s \in Slot |-> None]
    /\ watchers = [s \in Slot |-> {}]
    /\ batch = EmptyBatch
    /\ active = {} /\ series = {}
    /\ gpuCount = 0
    /\ gauges = ZeroGauges
    /\ faulted = {}
    /\ lastPass = [ok |-> FALSE, listed |-> {}, faulted |-> {}]

(***************************************************************************)
(* The machine. A board may vanish, and be put into an empty slot, at any  *)
(* moment: between two listings, while listings fail, or while a pass hangs*)
(* one board may take the place of another unseen.                         *)
(***************************************************************************)
Remove(s) ==
    /\ ~settled /\ board[s] # None
    /\ board' = [board EXCEPT ![s] = None]
    /\ UNCHANGED <<settled, been, age, pc, client, active, series, gpuCount,
                   gauges, history>>

Insert(s) ==
    /\ ~settled /\ board[s] = None
    /\ \E b \in Home[s] :
         /\ \A t \in Slot : board[t] # b
         /\ board' = [board EXCEPT ![s] = b]
         /\ been' = [been EXCEPT ![s] = @ \cup {b}]
    /\ UNCHANGED <<settled, age, pc, client, active, series, gpuCount,
                   gauges, history>>

Settle ==
    /\ ~settled /\ \E s \in Slot : board[s] # None
    /\ settled' = TRUE
    /\ UNCHANGED <<board, been, age, pc, client, active, series, gpuCount,
                   gauges, history>>

(* The clock only matters through the age of the last success.             *)
Tick ==
    /\ age <= MaxAge
    /\ age' = age + 1
    /\ UNCHANGED <<machine, pc, client, active, series, gpuCount, gauges,
                   history>>

(* A call about slot s may fail while the machine is unsettled, or when    *)
(* the slot has been emptied since it was listed.                          *)
MayFail(call, s) == call \in Faults /\ (~settled \/ board[s] = None)

-----------------------------------------------------------------------------
(***************************************************************************)
(* DCGMClient.Samples                                                      *)
(***************************************************************************)
StartCollect ==
    /\ pc = "idle"
    /\ pc' = "list"
    /\ UNCHANGED <<machine, age, client, active, series, gpuCount, gauges,
                   history>>

ListGPUs ==
    /\ pc = "list"
    /\ listed' = {s \in Slot : board[s] # None}
    /\ todo' = listed'
    /\ been' = [s \in Slot |-> IF s \in listed' THEN been[s] ELSE {}]
    /\ pc' = "sample"
    /\ UNCHANGED <<board, settled, age, devices, watchers, batch, active, series,
                   gpuCount, gauges, history>>

ListFails ==
    /\ pc = "list" /\ "list" \in Faults /\ ~settled
    /\ pc' = "failHealth"
    /\ UNCHANGED <<machine, age, client, active, series, gpuCount, gauges,
                   history>>

(* cachedGPUInfo: the cached identity if there is one, else a query. When  *)
(* the index field cannot be read the GPU id stands in for it; when the    *)
(* device cannot be queried at all Samples falls back on the placeholder.  *)
Identities(s) ==
    IF devices[s] # None
    THEN {devices[s]}
    ELSE {info \in Info :
            /\ info.slot = s
            /\ \/ /\ info = Placeholder(s)
                  /\ MayFail("identity", s) \/ board[s] = None
               \/ /\ info.board = board[s]
                  /\ info.index = NvmlIndex[s] \/ (info.index = s /\ MayFail("index", s))}

(* ensureWatcher: the watcher kept from an earlier pass, else a new one.   *)
(* The fast group must come up, {} stands for the error when it does not;  *)
(* an optional group may be unsupported or fail, and is then left out.     *)
EnsuredWatchers(s) ==
    IF watchers[s] # {}
    THEN {watchers[s]}
    ELSE {{"fast"} \cup optional : optional \in SUBSET OptionalGroup}
         \cup {g \in {{}} : MayFail("watch", s)}

(* readWatcher: the groups of the watcher whose read returned an error.    *)
FailedReads(s, groups) ==
    {failed \in SUBSET groups : failed = {} \/ MayFail("read", s)}

SampleGPU(s) ==
    /\ pc = "sample" /\ s \in todo
    /\ \E info \in Identities(s) :
       \E groups \in EnsuredWatchers(s) :
       \E failed \in FailedReads(s, groups) :
         LET unknown  == info.board = Unknown
             reasons  == {r \in Reason : \/ r = "identity" /\ unknown
                                         \/ r = "watch" /\ groups = {}
                                         \/ r \in failed}
             collects == groups # {} /\ "fast" \notin failed
         IN /\ devices' = [devices EXCEPT ![s] = IF unknown THEN None ELSE info]
            /\ watchers' = [watchers EXCEPT ![s] = groups]
            /\ batch' =
                 [supported |-> batch.supported \cup {info},
                  samples   |-> batch.samples \cup {i \in {info} : collects},
                  failures  |-> batch.failures \cup
                                {[info |-> info, reason |-> r] : r \in reasons}]
            /\ faulted' = IF unknown \/ groups = {} \/ failed # {}
                          THEN faulted \cup {s} ELSE faulted
    /\ todo' = todo \ {s}
    /\ UNCHANGED <<machine, age, pc, listed, active, series, gpuCount, gauges,
                   lastPass>>

(* removeMissingGPUs: it walks the watchers, and forgets the identity of   *)
(* those GPUs only that have one.                                          *)
RemoveMissingGPUs ==
    /\ pc = "sample" /\ todo = {}
    /\ LET stale == {s \in Slot : watchers[s] # {} /\ s \notin listed}
       IN /\ watchers' = [s \in Slot |-> IF s \in stale THEN {} ELSE watchers[s]]
          /\ devices' = [s \in Slot |-> IF s \in stale THEN None ELSE devices[s]]
    /\ pc' = "reconcile"
    /\ UNCHANGED <<machine, age, listed, todo, batch, active, series, gpuCount,
                   gauges, history>>

-----------------------------------------------------------------------------
(***************************************************************************)
(* Exporter.collect, once Samples has returned.                            *)
(***************************************************************************)
(* reconcileGPUs: the supported GPUs by key, one GPU for each key; the     *)
(* series of a GPU whose key is gone, or whose labels changed, are deleted.*)
ActiveSets(supported) ==
    {A \in SUBSET supported :
        /\ Keys(A) = Keys(supported)
        /\ \A i, j \in A : stableGPUIdentifier(i) = stableGPUIdentifier(j) => i = j}

StaleUnlessEmpty(old, new) ==      \* mutant: an empty listing is skipped
    {i \in old : new # {} /\ stableGPUIdentifier(i) \notin Keys(new)}

Stale(old, new) ==
    {i \in old :
       ~ \E j \in new : stableGPUIdentifier(j) = stableGPUIdentifier(i)
                       /\ labelsFor(j) = labelsFor(i)}

ReconcileCollected ==              \* mutant: failed GPUs count as gone
    /\ pc = "reconcile"
    /\ active' \in ActiveSets(batch.samples)
    /\ series' = {x \in series :
                    x[2] \notin {labelsFor(i) : i \in Stale(active, active')}}
    /\ pc' = "health"
    /\ UNCHANGED <<machine, age, client, gpuCount, gauges, history>>

ReconcileGPUs ==
    /\ pc = "reconcile"
    /\ active' \in ActiveSets(batch.supported)
    /\ series' = {x \in series :
                    x[2] \notin {labelsFor(i) : i \in Stale(active, active')}}
    /\ pc' = "health"
    /\ UNCHANGED <<machine, age, client, gpuCount, gauges, history>>

(* markCollection: /ready turns on what it stores under healthMu, before   *)
(* the gauges are set and before any sample is in the registry.            *)
CompleteUnlessDropped(b) ==        \* mutant: failures that drop no sample pass
    /\ b.supported # {}
    /\ Cardinality(b.samples) = Cardinality(b.supported)

CompleteIfAny(b) ==                \* mutant: one collected GPU is enough
    b.samples # {}

Complete(b) ==
    /\ b.supported # {}
    /\ Cardinality(b.samples) = Cardinality(b.supported)
    /\ FailedKeys(b) = {}

MarkHealthOnce ==                  \* mutant: only a recovery refreshes lastSuccess
    /\ pc = "health"
    /\ IF Complete(batch)
       THEN /\ age' = IF gpuCount = 0 THEN 0 ELSE age
            /\ gpuCount' = Cardinality(batch.supported)
       ELSE gpuCount' = 0 /\ UNCHANGED age
    /\ lastPass' = [ok |-> TRUE, listed |-> listed, faulted |-> faulted]
    /\ pc' = "gauges"
    /\ UNCHANGED <<machine, client, active, series, gauges, faulted>>

MarkHealth ==
    /\ pc = "health"
    /\ IF Complete(batch)
       THEN age' = 0 /\ gpuCount' = Cardinality(batch.supported)
       ELSE gpuCount' = 0 /\ UNCHANGED age
    /\ lastPass' = [ok |-> TRUE, listed |-> listed, faulted |-> faulted]
    /\ pc' = "gauges"
    /\ UNCHANGED <<machine, client, active, series, gauges, faulted>>

GaugesByReason(b) ==               \* mutant: counts the reasons, not the GPUs
    [up         |-> 1,
     success    |-> Flag(Complete(b)),
     discovered |-> Cardinality(b.supported),
     collected  |-> Cardinality(b.supported) - Cardinality(b.failures),
     failed     |-> Cardinality(b.failures)]

GaugesOf(b) ==
    [up         |-> 1,
     success    |-> Flag(Complete(b)),
     discovered |-> Cardinality(b.supported),
     collected  |-> Cardinality(b.samples),
     failed     |-> Cardinality(FailedKeys(b))]

MarkGauges ==
    /\ pc = "gauges"
    /\ gauges' = GaugesOf(batch)
    /\ pc' = "status"
    /\ UNCHANGED <<machine, age, client, active, series, gpuCount, history>>

(* markCollectFailure: the two halves of it, in the same order. lastSuccess*)
(* and the GPU series are left as they are.                                *)
FailHealth ==
    /\ pc = "failHealth"
    /\ gpuCount' = 0
    /\ lastPass' = [ok |-> FALSE, listed |-> {}, faulted |-> {}]
    /\ pc' = "failGauges"
    /\ UNCHANGED <<machine, age, client, active, series, gauges, faulted>>

FailGauges ==
    /\ pc = "failGauges"
    /\ gauges' = ZeroGauges
    /\ pc' = "idle"
    /\ UNCHANGED <<machine, age, client, active, series, gpuCount, history>>

(* publishGPUCollectionStatus: one success series for every supported GPU, *)
(* one error series for every reason a GPU failed for.                     *)
PublishStatus ==
    /\ pc = "status"
    /\ series' = series \cup {<<"status", labelsFor(i)>> : i \in batch.supported}
                        \cup {<<"errors", labelsFor(f.info)>> : f \in batch.failures}
    /\ pc' = "samples"
    /\ UNCHANGED <<machine, age, client, active, gpuCount, gauges, history>>

(* collectSample for every sample of the batch, which ends the pass.       *)
CollectSamples ==
    /\ pc = "samples"
    /\ series' = series \cup {<<"sample", labelsFor(i)>> : i \in batch.samples}
    /\ batch' = EmptyBatch
    /\ faulted' = {}
    /\ pc' = "idle"
    /\ UNCHANGED <<machine, age, listed, todo, devices, watchers, active,
                   gpuCount, gauges, lastPass>>

-----------------------------------------------------------------------------
Collect ==
    \/ ListGPUs \/ ListFails
    \/ \E s \in Slot : SampleGPU(s)
    \/ RemoveMissingGPUs
    \/ ReconcileGPUs
    \/ MarkHealth \/ MarkGauges
    \/ FailHealth \/ FailGauges
    \/ PublishStatus \/ CollectSamples

Machine == Settle \/ \E s \in Slot : Remove(s) \/ Insert(s)

Next == Machine \/ Tick \/ StartCollect \/ Collect

Spec == Init /\ [][Next]_vars

(* Only the clock is sure to run: a DCGM call may hang for ever.           *)
ClockSpec == Spec /\ WF_vars(Tick)

(* Every DCGM call returns and the ticker keeps firing.                    *)
Running == WF_vars(StartCollect) /\ WF_vars(Collect)

(***************************************************************************)
(* Exporter.Ready, as the /ready handler evaluates it at any moment.       *)
(***************************************************************************)
ReadyByCount == gpuCount > 0       \* mutant: the age is not looked at

Ready == gpuCount > 0 /\ age <= MaxAge

-----------------------------------------------------------------------------
(***************************************************************************)
(* Properties                                                              *)
(***************************************************************************)
(* The types of all variables.                                             *)
TypeOK ==
    /\ board \in [Slot -> Board \cup {None}]
    /\ settled \in BOOLEAN
    /\ been \in [Slot -> SUBSET Board]
    /\ age \in 0..(MaxAge + 1)
    /\ pc \in {"idle", "list", "sample", "reconcile", "health", "gauges",
               "failHealth", "failGauges", "status", "samples"}
    /\ listed \subseteq Slot /\ todo \subseteq listed
    /\ devices \in [Slot -> Info \cup {None}]
    /\ watchers \in [Slot -> SUBSET Group]
    /\ batch \in [supported : SUBSET Info, samples : SUBSET Info,
                  failures : SUBSET [info : Info, reason : Reason]]
    /\ active \subseteq Info
    /\ series \subseteq {"status", "errors", "sample"} \X Labels
    /\ gpuCount \in Nat
    /\ gauges \in [up : 0..1, success : 0..1, discovered : Nat,
                   collected : Nat, failed : Nat]
    /\ faulted \subseteq Slot
    /\ lastPass \in [ok : BOOLEAN, listed : SUBSET Slot, faulted : SUBSET Slot]

(* reconcileGPUs with collect: no series of the registry belongs to a GPU  *)
(* other than the active ones, at any point of any pass, whatever boards   *)
(* came, went and failed before.                                           *)
SeriesAreActive == \A x \in series : x[2] \in {labelsFor(i) : i \in active}

(* markCollection and Ready: /ready answers 200 only while the latest pass *)
(* that ended listed a GPU and met no failed call for any listed GPU.      *)
ReadyMeansComplete ==
    Ready => /\ lastPass.ok
             /\ lastPass.listed # {}
             /\ lastPass.faulted = {}
             /\ gpuCount = Cardinality(lastPass.listed)

(* collect as a whole: between two passes /ready answers 200 only if every *)
(* GPU of the latest listing has its sample series in the registry, under  *)
(* the identity the client holds for it.                                   *)
ReadyShowsEveryGPU ==
    Ready /\ pc = "idle" =>
        \A s \in lastPass.listed :
            /\ devices[s] # None
            /\ <<"sample", labelsFor(devices[s])>> \in series

(* markCollection: between two passes the health gauges tell what the pass *)
(* met: a GPU is counted as failed iff one of its calls failed, although   *)
(* failures are counted by key and GPUs by position in the listing.        *)
GaugesMatchPass ==
    pc = "idle" /\ lastPass.ok =>
        /\ gauges.up = 1
        /\ gauges.discovered = Cardinality(lastPass.listed)
        /\ gauges.failed = Cardinality(lastPass.faulted)
        /\ gauges.collected \in (gauges.discovered - gauges.failed)..gauges.discovered
        /\ gauges.success = 1 <=> (lastPass.listed # {} /\ lastPass.faulted = {})

(* cachedGPUInfo with reconcileGPUs: a board that stays in a listed slot   *)
(* never loses a series, and so none of its counters restarts, however     *)
(* many calls fail meanwhile.                                              *)
NoSeriesLossWhileListed ==
    [][\A x \in series \ series' : \A s \in listed : board[s] # x[2].board]_vars

(* Ready against a hung collector: a pass that stays inside Samples leaves *)
(* /ready at 503 sooner or later, since nothing refreshes lastSuccess.     *)
InSamples == pc \in {"list", "sample"}
HungGoesUnready == InSamples ~> (~InSamples \/ ~Ready)

(* Run and collect: if DCGM calls return and the ticker fires, then once   *)
(* the machine is left alone /ready answers 200 again and again, whatever  *)
(* failed before, with no restart needed.                                  *)
Recovers == Running => (settled ~> Ready)

(* A pass, as Readiness sees it, runs from the listing to the end of       *)
(* markCollection or markCollectFailure.                                   *)
Pass ==
    CASE pc \in {"list", "sample", "reconcile", "health"} ->
           IF faulted # {} \/ (pc # "list" /\ listed = {}) THEN "spoilt" ELSE "clean"
      [] pc = "failHealth" -> "spoilt"
      [] OTHER             -> "none"

Promise == INSTANCE Readiness WITH pass <- Pass, healthy <- gpuCount > 0

(* collect as a whole keeps the promise of /ready: exactly the passes that *)
(* listed GPUs and met no fault make it healthy, whatever moved, failed or *)
(* was cached, and nothing else renews the age of the last success.        *)
KeepsPromise == Promise!Spec

(* README.md:291 offers gpu_uuid as the stable identity of a GPU. A sample *)
(* that carries a UUID names a board that was in its slot after the latest *)
(* listing that missed the slot: removeMissingGPUs has forgotten the others*)
MissedIsForgotten ==
    \A i \in batch.samples : i.board # Unknown => i.board \in been[i.slot]

(* The same without a listing in between: the board of the sample is in its*)
(* slot, or has vanished since the slot was listed. It rests on the machine*)
(* as well: nothing but a listing tells the client that a board is gone.   *)
SampleNamesItsBoard ==
    \A i \in batch.samples : i.board # Unknown => board[i.slot] \in {i.board, None}

=============================================================================
