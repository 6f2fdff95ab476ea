# Verification of gpu_exporter

gpu_exporter is a Prometheus exporter for NVIDIA GPUs. One goroutine polls DCGM
several times a second and turns what DCGM recorded into gauges, window
maxima and averages, time integrals and counters; an HTTP server serves the
registry (`/metrics`), liveness (`/health`) and readiness (`/ready`). This
directory holds TLA+ models of that program, TLC configurations that check them
on small instances, and proofs that TLAPS checks for all instances.

Run from this directory: `tlc -config CollectorHomes.cfg MCCollector`, and so on
for the table of runs below; `tlapm CollectorProofs.tla`, and so on for the
modules whose names end in `Proofs`.

## Inventory

| Component | State it keeps | Operations | Modules |
| --- | --- | --- | --- |
| Collection pass (`exporter.go` `collect`, `dcgm_client.go` `Samples`) | identities (`devices`) and watchers by GPU id; `activeGPUs` by UUID or PCI id; `lastSuccess`, `lastGPUCount`; the GPU series and health gauges of the registry | list, identify, watch, read, drop missing GPUs; reconcile, mark health, publish status, publish samples; `Ready` | `Collector`, `Readiness` |
| Field reader (`readWatcher`) | `since` and `lastPoll` of each group; `fieldStates` of each field | read the due groups, status of fields read and not read, drop of a sample, publication | `FieldReader`, `Delivery` |
| Observation integrals (`processObservations`) | `observationTimes` of each field; the totals in the registry | integrate, skip a replaced legacy field, forget times, delete | `Integrals`, and with the reader in front of it `Pipeline` |
| Watcher construction (`ensureWatcher`) | the groups DCGM holds; the fields accepted so far | bisection of optional fields, four DCGM calls for each group, choice of the DCP fields, destruction | `FieldProbe` |
| Field decoding (`applyFieldValue`, converters) and sample publication (`collectSample`) | the targets of a `GPUSample`; gauges, field timestamps | conversion of one value, free memory, the stand-ins of the identity, publication, PCIe fallback | `FieldValues`, `SampleGauges` |
| Windows, activity, hardware counters (`tracker.go`, `exporter.go`) | the window of each metric; active spell of each GPU; last value of each device counter | observe, publish a window, count a request, add a delta, delete | `Windows` |
| Process (`main.go`, `server.go`, `Run`) | context, tickers, server, requests in flight, DCGM handle | start, signal, select, shutdown, close | `Lifecycle` |
| Configuration (`config.go` and who uses it) | none | read and check the variables; what the intervals decide | `Configuration` |
| Registry (`metrics.go`), static information, version, examples | tables, constants | assignments | not modelled, or only the part named in `PROJECT.json` |

How they interact. Everything that changes the exporter's state runs in the one
goroutine of `Exporter.Run`: a pass (`collect`) calls `Samples`, which for every
listed GPU identifies it, calls `ensureWatcher` and `readWatcher`, and returns a
batch; `collect` then reconciles, marks health and calls `collectSample` for each
sample, which publishes statuses and gauges, calls `processObservations` and
`observeHardwareCounter`. `PublishWindow` runs in the same goroutine between
passes. Beside it run the HTTP handlers, which read the registry and, under
`healthMu`, the health; the main goroutine, which stops the server and closes
DCGM without waiting for the collector; and DCGM, which records values, forgets
them, and answers or fails or hangs. GPUs come and go.

What is hard here: a partial failure in a pass (any DCGM call, of any GPU, at
any of its groups) and the state it leaves behind; identities cached by GPU id
against series keyed by UUID; two fields that feed one metric; observations split
over passes, lost with a dropped sample or forgotten by DCGM before they are
read; silence told apart from failure; blank and out-of-range values; resets of
device counters; state kept by key that outlives series, or the reverse; DCGM
groups left behind; a hung call against `/ready`, the window ticker and shutdown.
`PROJECT.json` lists each hazard with its line and the properties that would
catch it.

What makes each component correct:

- Collection pass: `/ready` is 200 only after a pass in which no call failed, and then
  every GPU is in the registry; gauges match the pass; series belong to active
  GPUs and are not lost while a GPU stays; no sample carries the name of a board that
  a listing has missed.
- Field reader: each value is counted once, in order, and none silently lost;
  availability is recent and shown, and means what its help text says.
- Integrals: exactly the gaps that should be integrated are, no time twice; a quiet
  field is not taken for a broken one.
- Watcher construction: the accepted fields are maximal, no group leaks.
- Decoding and publication: no number outside the range of its metric; the gauge of
  an available field shows its newest valid value.
- Windows: a published window is one window; requests are spells; counters bounded.
- Process: a signal ends it, the exit code is true, windows keep being published.
- Configuration: tickers are positive, and what follows from the intervals fits.

## Modules

**Collector** models one pass end to end. Its `pc` follows the order of the code:
`list` (GetSupportedDevices), `sample` (one `SampleGPU` for each listed id: the body
of the loop of `Samples`), `RemoveMissingGPUs`, `ReconcileGPUs`, `MarkHealth` and
`MarkGauges` (the two halves of `markCollection`, since `/ready` reads what the first
half stores), `PublishStatus`, `CollectSamples`; `FailHealth` and `FailGauges` are
the halves of `markCollectFailure`. GPUs of one listing are sampled in any order,
an over-approximation of the order of the listing. `Ready` is a state
predicate, so that an invariant about it covers a request at any moment. The
machine is modelled beside it and is free: a board may vanish from a slot, and be put
into an empty one that may hold it (`Home`), at any moment, also between the listing
and its sampling, between two listings, or while listings fail. `been` is history:
the boards that were in a slot since the latest listing that missed it. After
`Settle`, which may happen at any moment, nothing moves or fails any more. A call
fails only if it is in `Faults`. The clock is the age of the last success.

**Readiness** is the abstract specification of `/ready`: a pass is clean or spoilt, its
end decides the health, and only a clean one renews the age.

**FieldReader** models one GPU's fields over time: `Advance` is the clock and DCGM,
which records values of the tick that ends, also during a pass; `SkipGroup`,
`ReadFails` and `ReadGroup` are the three ways through the loop of `readWatcher`,
which takes the groups in the order of the watcher (`Turn`); `DropSample` and
`CollectSample` are the two ends of the GPU's part of a pass. DCGM forgets what is
older than `KeepAge`: a read returns what is left, and moves on past the rest.
`from`, `lost` and `dropped` are history variables.

**Delivery** is the abstract specification of what becomes of a value: it waits, is
fetched in the order of time, and is counted or lost with its sample; or it is
lost unfetched.

**Integrals** models `processObservations` for the fields of a GPU, one observation
a step, and the deletion of observation times. Its client may read any part of
what is pending and come up with any status that agrees with it, a superset of what
`FieldReader` computes. Time stands still while a sample is observed, which
reads no clock: all times are DCGM's. `taken`, `ends` and `spans` record what was
observed and integrated.

**Pipeline** composes the two: it EXTENDS `FieldReader` and takes the steps of
the exporter from an instance of `Integrals`, whose free client is replaced by
the real one (`pending` is what DCGM recorded and no sample has delivered yet,
`available` the fields available at the end of the latest pass).

**FieldProbe** models `ensureWatcher` at the level of DCGM calls. The recursion of
`addBatch` is a stack of intervals of the candidate list; each of the four calls of
`createWatcher` is an action, with a failing twin that gives back what was made and
does what the caller does with the error. What DCGM accepts is a family of sets
closed under subsets, fixed for a behaviour; with `Flaky` any call may fail
besides. Destroying groups is assumed to succeed (the code logs a failure and goes
on, so that the group would stay in DCGM).

**FieldValues** holds the field lists and the converters as constant operators: status,
type, blank, range and unit of a raw value, field by field. **SampleGauges** is the
pass of a GPU that uses them: a sample starts from the cached identity, every
value that is read empties or sets the target of its field, free memory is
worked out if it was not reported, and `collectSample` publishes. Numbers count
parts of `1/One`, so that ratios are told apart from whole numbers.

**Windows** models one GPU's window of one metric, its activity tracker and one device
counter, through absences of the GPU. `current`, `closed`, `spells`, `forgotten`
and `events` are history.

**Lifecycle** models the goroutines of the process. A pass is only its start and end.
A ticker is a channel with one place that drops a tick when it is full.

**Configuration** reads the variables (unset, malformed, or a number), makes the client
and starts the tickers from them, and then works out what hangs on the intervals:
the groups and the maximal gaps.

The theorems about a module are in the module of its name with `Proofs`; those about
`FieldReader` are in `PipelineProofs`, which needs them for `Pipeline`, too.

`FieldReader` and `Integrals` are composed; the other modules share no variables:
each abstracts its neighbour to the values that cross the interface (a group that
comes up or not, a listing, a status). `MC*` modules give the constants for TLC.

Refinements, each checked by TLC as a PROPERTY and proved:

| Detailed | Abstract | Mapping |
| --- | --- | --- |
| `Collector` | `Readiness` (`KeepsPromise`) | `pass` is spoilt as soon as a call has failed or the listing was empty |
| `FieldReader` | `Delivery` (`ValuesDelivered`) | what waits of a field are its valid values from `since` on; the sample is `obs` |
| `Pipeline` | `Integrals` (`IntegralsKept`) | time is the last tick that is over; pending is what waits or is in the sample; a read that finds values forgotten and a dropped sample are both a lost sample |

## Runs

| Run | Instance | What it shows |
| --- | --- | --- |
| `collector` | 2 slots with a board each (NVML indexes swapped against DCGM ids, so that no key equals an id by luck), 1 optional group, every call but the index query may fail | types, `SeriesAreActive`, `ReadyMeansComplete`, `ReadyShowsEveryGPU`, `GaugesMatchPass`, `NoSeriesLossWhileListed`; the refinement `KeepsPromise`; `HungGoesUnready` with only the clock fair; `Recovers` |
| `collector_stale_identity` | 2 slots, 2 boards that may sit in either, the creation of a watcher may fail | **violation** of `MissedIsForgotten`, see Findings |
| `reader_lost_values` | a fast field read every tick, a slower one every 2 ticks which may be blank, 4 ticks, all reads may fail, nothing forgotten | **violation** of `ReturnedIsCounted` |
| `reader_silent_field` | the same fields, no failure and no blank | **violation** of `LatestReadWasValid` |
| `integrals` | the two PCIe transmit fields, a maximal gap of 3 ticks, 5 ticks, any statuses | `SpansAreExact`, `FieldTimeOnce`, `ObservedWithinLife` |
| `pipeline` | a field of the fast group read every tick and a DCP field read every 2 ticks which may be blank, feeding a metric each; 4 ticks, values kept for 2, all reads may fail | `ShownUnlessDropped`, `AvailableIsRecent`, `QuietTimeIsIntegrated`; the refinements `ValuesDelivered` and `IntegralsKept` |
| `pipeline_fallback_twice` | the two PCIe transmit fields, in groups of their own behind the fast group; the DCP field may be blank, the fast and the DCP group may fail | **violation** of `FallbackTimeOnce` |
| `sample` | one GPU with a field of each converter, or with the memory fields, the power limit, or both PCIe transmit fields; raw values at the ends of each range, blanks, other types | `NumbersAreSensible`, `AvailableGaugeIsLatest` |
| `windows` | three utilizations around the threshold, 5 ticks, a device counter up to 3 with resets, 4 events | `PublishedIsOneWindow`, `RequestsAreSpells`, `CounterIsBounded` |
| `field_probe` | a required and an optional fast field, a list of 3 fields, 2 DCP fields, all families closed under subsets over each list, every call may fail | `KeptIsMaximal`, `NoGroupLeaks`, `ProbesBounded`, `WatcherIsWhole` |
| `lifecycle` | 2 requests at once | `CleanExit`, `StopsAfterSignal`, `WindowIsPublished` |
| `configuration` | every interval and the threshold unset, malformed, 0 or a number: 20 ms or 2 minutes, and for the threshold also negative or NaN | `GapIsTenIntervals`; that tickers are positive is in `TypeOK` |

Every property of a passing run has a mutant in `PROJECT.json`: a plausible bug of
the mapped definition under which TLC finds the property violated.

Bounds and why they are enough. Two slots and two boards suffice for an identity
to be taken for another one, for a key to collide with a placeholder's and for
a partial pass. With `MaxAge = 0` a success is fresh or too old, which is all that
readiness and liveness need. Four ticks let a slow group be read twice with a failure in
between, a value become two intervals old and older, and, kept for two ticks, be
forgotten before a read that comes late. Five ticks with a gap of 3 give gaps on both
sides of the limit and at it, and two switches between legacy and DCP. The
fallback from DCP to legacy is in `integrals`, with any statuses, and in the violation
run with the real ones; two fields with two metrics keep `pipeline` small enough for
everything else. Three values in one or two passes
suffice for a blank before, between and after valid values. Three candidates are
halved unevenly twice. The device counter can be reset to above and below its last
reading. The numbers of `configuration` lie below and above all defaults, so that
no interval agrees with another by luck. The history variables
are bounded by the clock.

`CHECK_DEADLOCK FALSE` is in `LifecycleAll.cfg`, as the process ends, and in the
`ConfigurationUsual.cfg`, as it is read once. In the other models DCGM, the machine
or the passes can always go on, and deadlock is checked.

`collector` leaves out failures of the index query to stay small (868 thousand states;
with them it passes, too, on 2.3 million). Such a failure gives a GPU another index, and with
it other labels, but the index is cached with the identity and so does not change
while the GPU stays listed. The theorems about `Collector` hold with it. In this run a
board always returns to its own slot: boards that move are in the violation run and
in `NamesCorrect` and `MovedCorrect`.

## Fairness

- `HungGoesUnready` assumes only that time passes (`WF` of `Tick`, in `ClockSpec`): a DCGM
  call may hang for ever, which is the point.
- `Recovers` is `Running => (settled ~> Ready)`, where `Running` says that calls return and
  the ticker fires (`WF` of `StartCollect` and `Collect`): the loop of `Run` does
  nothing else, and a call that hangs for ever is the other property's. From the
  moment the machine has settled `/ready` becomes 200, and stays so by `ReadyMeansComplete`
  and its refinement as long as passes end in time.
- `Lifecycle` assumes that the main goroutine is scheduled (`WF` of `Main`): all it
  waits for has a timeout or is a signal. `SF` of `SelectWindow`: Go's `select` picks
  at random among the ready channels, so that a channel ready again and again
  is picked some time. Nothing is assumed of passes, requests and signals;
  `WindowIsPublished` has the return of passes as its hypothesis.

## Findings

1. **A stale identity names another board** (`collector_stale_identity`,
   `dcgm_client.go:313`). `removeMissingGPUs` walks `watchers` and forgets the identities
   of those GPUs only. A GPU that was identified but never watched leaves its
   entry in `devices`, even when a listing misses it; the next board under that id is
   exported under the old UUID. README.md:291 recommends the UUID as the stable identity.
   `NamesCorrect` proves that a failed watcher is needed: if every watcher comes up, a
   UUID is forgotten as soon as a listing misses its GPU, however boards move and
   whatever else fails. A swap that no listing sees is another matter, see below.
2. **Values are lost with a failed fast group** (`reader_lost_values`,
   `dcgm_client.go:284`). Other groups' `since` has moved on when the sample is dropped,
   so values that `GetValuesSince` returned enter no window, against README.md:297.
   The statuses are dropped with the sample, too: as long as the fast group
   fails, `gpu_dcgm_field_available` shows 1 for fields the watcher knows to be gone.
   `ShownUnlessDropped` is what holds. `ReturnedCorrect` proves that nothing else loses a
   value that was read.
3. **PCIe time is integrated twice** (`pipeline_fallback_twice`, `exporter.go:268`). While
   the DCP field is available the legacy field is skipped but keeps its old
   observation time; when DCP goes away, the first legacy observation integrates
   back to that time, over time DCP has integrated into the same totals.
   `FieldTimeOnce` and `SpansAreExact` are what holds of each field by itself.
4. **An available field need not have been read** (`reader_silent_field`,
   `dcgm_client.go:843`). The help text of `gpu_dcgm_field_available` (metrics.go:191) is
   "Whether the latest scheduled read returned a valid value for this DCGM field". A read
   that succeeds and returns no value of a field leaves it available until more than two
   intervals have passed since its last valid value. No failure and no blank is needed:
   one tick without a value is. `AvailableIsRecent` is what holds; `QuietTimeIsIntegrated`
   rests on that leniency, since a field taken for unavailable would lose the time
   up to its next value.

Also seen while modelling; no run is about these:

- A pass that reads no value of the power limit sets `gpu_power_limit_watts` back to
  the limit of the cached identity (`dcgm_client.go:261`), also when DCGM has reported
  another. The gauge then alternates, where README.md:307 lets a gauge keep its last
  value. `AvailableGaugeIsLatest` exempts such passes (`Substituted`).
- Only a listing tells the client that a board is gone. `Samples` returns at
  `dcgm_client.go:225-228` when the listing fails, before `removeMissingGPUs`, so cached
  identities survive the outage; between two listings, or in a pass that hangs,
  they survive as well. Slot 0 holds board A, and its identity is cached. While listings
  fail A moves to slot 1 and B goes into slot 0. From the next listing on slot 0 is
  sampled as A, and so is slot 1: both have the key A, `activeGPUs` keeps one of
  them, and the series of the other's labels belong to no active GPU and are not
  deleted when A goes. No watcher has failed. The repository says nothing of swaps
  at run time, so no run is about it; the theorem `MovedCorrect` states what a machine
  must see to (`SwapIsListed`) for names, series and gauges to be right.
- `floatEnv` accepts `NaN` (`config.go:76`), with which no GPU is ever active, where
  README.md:269 says the threshold is non-negative.
- Intervals are configured without limits, while every watch asks DCGM for 60 seconds
  and 2048 values (`dcgm_client.go:771`): with a group read every 2 minutes, or a scrape
  interval 2048 times that of a group, `readWatcher` cannot return all values since the
  previous read, as the comment at `dcgm_client.go:792` has it. `ValuesDelivered`
  says what then becomes of them: they are lost unfetched, and no others.
- A spell of activity that lasts across an absence of its GPU is one request, since
  `deleteGPUState` (`exporter.go:435`) keeps the activity; `RequestsAreSpells` has it so.
- A blank after a valid value in one read empties the target (`dcgm_client.go:875`); the
  window, the integral and the success timestamp have the value, the gauge does not.
- A pass that has no DCP sample falls back on the legacy PCIe value for the gauge,
  while observations fall back by availability: the two need not agree.

## Proofs

| Theorem | Property | Argument |
| --- | --- | --- |
| `CollectorProofs!TypeCorrect` | `TypeOK` | types are inductive with the finiteness of the batch |
| `CollectorProofs!ReadyCorrect` | `ReadyMeansComplete` | the batch relates to `faulted` and `listed`: supported infos are one for each listed slot sampled, a slot is faulted iff its info has a failure; whenever `gpuCount > 0` the last pass was complete |
| `CollectorProofs!PromiseKept` | `KeepsPromise` | a pass with no fault has a complete batch, and one with a fault has not, so that `MarkHealth` renews what `Readiness` renews; every other step stutters or spoils the pass |
| `CollectorProofs!ShowsCorrect` | `ReadyShowsEveryGPU` | a listed slot that met no fault is in the batch, hence active, hence its series were published before the pass ended |
| `CollectorProofs!SeriesCorrect` | `SeriesAreActive` | under `BoardsStay` no two infos of a batch share a key (`KeysCorrect`): two listed slots never hold the identity of one board. So `reconcileGPUs` makes every supported GPU active, and series are added for active GPUs only |
| `CollectorProofs!SeriesKept` | `NoSeriesLossWhileListed` | under `BoardsStay` a board in a listed slot keeps the identity the client has cached, and so its labels |
| `CollectorProofs!GaugesCorrect` | `GaugesMatchPass` | under `BoardsStay` keys are distinct, so that supported infos and listed slots are in bijection, and failed keys and faulted slots |
| `CollectorProofs!NamesCorrect` | (`MissedIsForgotten`) | under `WatchersComeUp` whatever has an identity has a watcher once it is sampled, so that a listing that misses a slot drops both; a cached board was therefore in the slot after the latest such listing |
| `CollectorProofs!MovedCorrect` | (`SampleNamesItsBoard`), `SeriesAreActive`, `GaugesMatchPass` | under `WatchersComeUp` and `SwapIsListed` a board goes into unlisted slots only, whose identity is forgotten: the cache follows the boards, keys are distinct, and what was shown of boards that stay holds again |
| `PipelineProofs!TypeCorrect` | `TypeOK` | types are inductive |
| `PipelineProofs!ShownCorrect` | `ShownUnlessDropped` | `status` changes in a pass only, which publishes it or drops its sample |
| `PipelineProofs!AvailableCorrect` | `AvailableIsRecent` | a status says when its field last had a valid value, and was worked out at the latest read of its group |
| `PipelineProofs!Delivers` | `ValuesDelivered` | every step maps to a step of `Delivery` or a stutter: what waits is what the log holds from `since` on |
| `PipelineProofs!OrderCorrect` | (`CountedOnceInOrder`) | what is counted lies before `since`, what is read from it on |
| `PipelineProofs!CountedCorrect` | (`CountedOrDropped`) | every valid value before `since` is counted, lost or in the sample under construction, which are disjoint |
| `PipelineProofs!ReturnedCorrect` | (`ReturnedIsCounted`) | under `Fast \notin Failing` no sample is dropped, and DCGM forgets only values that no read has returned |
| `FieldProbeProofs!TypeCorrect` | `TypeOK` | types are inductive with the search invariant |
| `FieldProbeProofs!SearchCorrect` | `KeptIsMaximal` | every candidate is in a batch on the stack, accepted, or refused on top of a subset of what is accepted now; a refusal persists because families are closed under subsets; a group that is kept was accepted when it was tried |
| `FieldProbeProofs!ProbesCorrect` | `ProbesBounded` | the stack is a chain of neighbouring intervals; a batch of *n* candidates costs at most *2n - 1* trials, and the budget of the chain bounds the trials still to come |
| `FieldProbeProofs!GroupsCorrect` | `NoGroupLeaks` | the number of groups and of field groups in DCGM is that of the groups kept, and of those that `pc` says are under construction |
| `FieldProbeProofs!WholeCorrect` | `WatcherIsWhole` | the search passes on only when the fast group is kept; the DCP candidates come out of one metric group |
| `IntegralsProofs!TypeCorrect` | `TypeOK` | types are inductive with the two invariants below |
| `IntegralsProofs!TimeOnce` | `FieldTimeOnce` | spans are between neighbours, the newest ends at the observation time |
| `IntegralsProofs!SpansCorrect` | `SpansAreExact` | the observation time is the newest observation taken, or forgotten with that observation in `ends` |
| `IntegralsProofs!ObservedBounded` | `ObservedWithinLife` | for some order of the fields of a metric the total is at most the sum of their shares, where a field's share is what it integrated since it was forgotten, at most the time from its first to its last observation; an observation adds to one share what it adds to the total |
| `PipelineProofs!Integrates` | `IntegralsKept` | every step of the reader maps to a step of the client of `Integrals`: a read to one that has come as far as one past the newest value it took, forgotten values and a dropped sample to a lost one; the statuses agree with the values, which `FieldsInv` says |
| `PipelineProofs!QuietTimeCorrect` | `QuietTimeIsIntegrated` | the gap after a value is given up only if the value is in `ends`, and then it is *excused*: the next counted value is more than two intervals away, or a blank, a lost value or a failed read lies between; excuses stay true as time goes on |
| `PipelineProofs!IntegratedCorrect` | (of `Integrals`) | by `Integrates` every behaviour of `Pipeline` is one of `Integrals`, whose theorems `SpansCorrect`, `TimeOnce` and `ObservedBounded` are taken over by an instance of `IntegralsProofs` with the same mapping |
| `SampleGaugesProofs!TypeCorrect` | `TypeOK` | types are inductive; a conversion gives a number or nil |
| `SampleGaugesProofs!NumbersCorrect` | `NumbersAreSensible` | each converter gives a number in the range of its field; the free memory is worked out only if the total is larger |
| `SampleGaugesProofs!GaugesCorrect` | `AvailableGaugeIsLatest` | the target of a field is its newest value of this pass, and if that was valid it is `latest` |
| `LifecycleProofs!TypeCorrect`, `ExitCorrect` | `TypeOK`, `CleanExit` | `code = 0` needs `Close` after a shutdown with no request in flight, which only a signal begins |
| `WindowsProofs!TypeCorrect` | `TypeOK` | types are inductive |
| `WindowsProofs!RequestsCorrect` | `RequestsAreSpells` | the activity is the newest spell as long as that has not ended; only spells that have ended are counted, when they end |
| `WindowsProofs!CounterCorrect` | `CounterIsBounded` | `previous` and `counter` exist together, and the value the counter would get by reading the device now is at most `events` |
| `WindowsProofs!PublishedCorrect` | `PublishedIsOneWindow` | the window holds the maximum, the sum and the number of `current`, and what is published those of `closed`; adding a value to a sequence adds it to its sum (`TotalAppend`) |
| `ConfigurationProofs!TypeCorrect` | `TypeOK` | `LoadConfig` lets nothing pass that is not positive, and intervals are worked out from what it passed |
| `ConfigurationProofs!GapCorrect` | `GapIsTenIntervals` | the lists by which the exporter sorts fields into intervals agree with the groups the client watches them in (`SortedAlike`) |

The properties in parentheses are checked by no passing run. `MissedIsForgotten` and
`ReturnedIsCounted` are those of violation runs: the theorems show what the violations
need. `CountedOnceInOrder` and `CountedOrDropped` follow from `ValuesDelivered`, which TLC
checks in the `pipeline` run. `SampleNamesItsBoard` is true only of a machine that meets
`SwapIsListed`, which is no machine of a run.

The properties are not inductive alone. `CountedOrDropped`, for example, says nothing
in the middle of a pass: a step that ends one preserves it only because the
strengthening accounts for the values in the sample under construction. Likewise
`KeptIsMaximal` speaks of finished watchers, and its strengthening follows the search from
its first trial; and `QuietTimeIsIntegrated` speaks of two values both counted, while
its strengthening must say of the first of them, before the second exists, why the
gap after it may be given up. Each inductive invariant is `IInv` of its module, or a
chain of named invariants one built on the other (`CollectorProofs`,
`PipelineProofs`, which takes `IInv`, `TypeOK` and `RecentInv` of the reader as given).

Two of these theorems speak of sums of any length, where induction over data cannot
be used. A sum is given by its sequence of partial sums instead, and a law of all of
them is shown of the least one at which it would fail: the prover knows that there
is a least one (`WFMin` of the library, for the order of the natural numbers), and
the partial sum before it contradicts its failing. `Least` states this once in
`WindowsProofs` and in `IntegralsProofs`; `TotalIs`, `TotalAppend`, `StepsBound` and
`SharesBound` use it, and `Greatest` in `PipelineProofs` does the same for the newest
value of a read.

Assumptions. The named `ASSUME`s of the modules are typing facts of the constants
(that a set of fields or slots is finite, that `None` is no number), with one that says
something: `FamilyAssumption` (DCGM refuses no part of a set it accepts, which the
bisection of the code relies on). TLC evaluates them on every run. All bounds
(`MaxTime`, `MaxAge`, `KeepAge`, lengths of lists, numbers of groups) are arbitrary in
the proofs. Four hypotheses stand in theorems, each where TLC finds the property violated
without it, on two slots and two boards or on the instance of the finding:

- `BoardsStay` (no board is ever found in two slots) in `SeriesCorrect`, `SeriesKept` and
  `GaugesCorrect`, as in the `collector` run: a board that moves unseen gives two GPUs of
  one batch the same key, and one that moves seen gets new labels, so that its old
  series are deleted while it is listed;
- `WatchersComeUp` (the creation of a watcher is not among the faults), the negation of
  what finding 1 needs, in `NamesCorrect` and `MovedCorrect`;
- `SwapIsListed` (a board goes into a slot only if the latest listing that succeeded found
  the slot empty) in `MovedCorrect`. It is a condition on the machine that the code
  neither ensures nor detects, a real one when listings fail for long, see "Also
  seen": the theorem says what is right as far as it is met, and no more;
- `Fast \notin Failing` in `ReturnedCorrect`, the negation of what finding 2 needs.

Only model-checked: the liveness properties `HungGoesUnready`, `Recovers`,
`StopsAfterSignal` and `WindowIsPublished`, as fairness and `ENABLED` are out of the
prover's reach. Every invariant and every refinement that a passing run checks is
also proved.

## Not modelled

- The decomposition of the throttle mask into reasons (`setClockEvents`); hardware
  counters with more than one label: `Windows` has one.
- The limit of 2048 values in `FieldReader`, which forgets by age only.
- Weighted totals, bytes and energy: the time they are multiplied with is modelled,
  the products are not.
- Calls into DCGM after its cleanup: the collector is not waited for at exit, and what
  DCGM then answers is not in the repository.
- A `/metrics` request in the middle of a pass sees series of two passes; the code
  promises no more, and the properties about the registry as a whole are stated
  between passes.
- The names, help texts and labels in `metrics.go`, static information and the
  version: tables and constants without behaviour. `sampleInterval` and `maxSampleGap`,
  which only tests call. Examples, dashboards and scripts.

## Plan

Done, in this order: `Collector` and its proofs, `FieldReader`, `Integrals`, `Windows`,
`FieldProbe` with their proofs, `Lifecycle`; then `FieldValues` and `SampleGauges`,
`Readiness` and `Delivery` with their refinements, a `FieldReader` that blanks, forgets
and records in mid-pass, `Configuration`, `Pipeline`, and the proofs of all
invariants, with boards that move, sums of any length and the configuration last.

What is left:

1. The calls of a pass that overlap `Close` at exit, as far as the repository says what
   may be called then.
2. `setClockEvents`, one reason at a time, in `SampleGauges`.
