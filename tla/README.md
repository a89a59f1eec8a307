# Formal models of the CAST AI guardrails controllers

The repository holds three Kubernetes controllers and a shared package. This
directory models them in TLA+, checks the models with TLC on small instances,
and proves their safety with TLAPS.

## 1. Inventory

| Component | State it keeps | Operations | Talks to |
|---|---|---|---|
| PDB controller (`src/controllers/pdb-controller/cmd/main.go`) | `defaultPDBConfig`; everything else is in the API server (PDBs named `castai-<workload>-pdb`) | informer handlers for Deployments and StatefulSets, ConfigMap watch, reconcile of all default workloads, poor-PDB scan, multiple-PDB cleanup, garbage collection | API server; one elected leader |
| TSC controller (`src/controllers/tsc-controller/cmd`) | `config`, `exclusionRules` in memory of every replica; `TSCOriginal` snapshots in the API server | Pod admission webhook, ConfigMap hot reload, rollback of snapshots when management is switched off, start-up clean-up | API server, kubelet probes; no leader |
| JVM probe controller (`src/controllers/jvm-probe-controller/cmd`) | configuration in memory of every replica | Pod admission webhook that injects, tunes and aligns probes | API server |
| Snapshot package (`src/snapshot`) | none of its own | `CaptureIfAbsent`, `Rollback`, finalizer helpers | `TSCOriginal` resources |
| Clientset, API types, charts, installer | generated or declarative | - | - |

What is hard in this code:

* **Concurrency without locks on the data.** In the PDB controller five
  goroutines run `createPDBForWorkload` for the same workload at the same time,
  each from a copy of the workload and a list of PDBs it read earlier. Nothing
  but names and resourceVersions orders their writes.
* **Crashes.** The leader can lose its lease between the Delete and the Create
  of a replacement; what happened without a leader is never reported.
* **Retries by accident.** There is no work queue: a failed step is retried
  only because informers resync every ten minutes and tickers fire.
* **Mutual recursion.** `createPDBForWorkload`, `updateExistingPDB` and
  `logAndFixPoorPDBConfig` call each other; whether that ends depends on data.
* **Rollback without a leader.** All TSC replicas see the ConfigMap change and
  roll back the same snapshots at the same time.
* **Reads of one request at different times.** A TSC admission reads the
  configuration, asks the API server once or twice, and then reads the exclusion
  rules, while a reload replaces both and holds a lock over its own API call.
* **Patches against a moving document.** The JVM controller decides every
  operation of its JSON patch on the Pod before the patch; the API server
  applies them one after the other, may call the webhook a second time, and
  refuses the Pod if an operation does not apply or the result is not valid.
* **Shutdown.** Two servers, two Serve goroutines, a signal and requests in
  flight meet in three `select` statements.

What makes each component correct:

* **PDB controller.** Every eligible workload ends up covered; no controller
  PDB outlives its workload or the second replica; budgets follow annotations
  and defaults; a castai PDB selects only pods of its workload; selectors are
  never rewritten in place; other people's PDBs are touched only by the fix of
  a scan; handlers return.
* **TSC snapshots and rollback.** `RolledBack=True` means the injected
  constraints are gone and is final; the finalizer goes only when the data are
  no longer needed; disabling with `rollbackOnDisable` restores everything.
* **TSC admission.** Configuration and rules come from one ConfigMap; a request
  is decided by it, always returns, and never costs a user the Pod; the last
  ConfigMap wins.
* **JVM probes.** The patch gives the Pod the documented probes, always applies,
  targets declared ports, and does no harm when it is computed twice.
* **Servers.** When the process ends no accepted request and no failure is lost,
  and it does end.

## 2. Modules and plan

| Module | Models | Status |
|---|---|---|
| `PDBRules` | the pure rules of the PDB controller: values, budgets, exclusion rules, poor configurations | done |
| `PDBController` | its goroutines, informers, leader and users | done |
| `PDBControllerProofs` | TLAPS proofs about `PDBController` | done |
| `MCPDB` | TLC instances of `PDBController` | done |
| `TSCConfig` | how the TSC controller reads its ConfigMap | done |
| `TSCConfigProofs` | what it returns, for every ConfigMap | done |
| `TSCSnapshots` | snapshots, rollback, start-up sweeps, every replica concurrently | done |
| `RollbackContract` | what snapshots promise, without replicas and API calls; `TSCSnapshots` implements it | done |
| `TSCSnapshotsProofs` | TLAPS proofs about `TSCSnapshots`, the refinement among them | done |
| `MCTSCSnapshots` | TLC instances of `TSCSnapshots` | done |
| `TSCAdmission`, `MCTSCAdmission` | Pod admission of the TSC controller against hot reload | done |
| `TSCAdmissionProofs` | TLAPS proofs about `TSCAdmission` | done |
| `JVMProbes` | detection, probe building and JSON patch of the JVM controller as operators | done |
| `JVMAdmission`, `MCJVMAdmission` | its configuration, admission and re-invocation | done |
| `JVMAdmissionProofs` | TLAPS proofs about `JVMAdmission` and the operators of `JVMProbes` | done |
| `WebhookServer`, `MCWebhookServer` | the process of a webhook controller: `Run`, servers, requests, counters | done |
| `WebhookServerProofs` | TLAPS proofs about `WebhookServer` | done |

`PDBController` extends `PDBRules`; `TSCSnapshots` and `TSCAdmission` extend
`TSCConfig`, one with the rollback a ConfigMap event may start, the other with
the constraints and rules admission uses; `TSCSnapshots` instantiates
`RollbackContract`; `JVMAdmission` extends `JVMProbes`. `WebhookServer` stands
alone: what a handler decides is a class of request to it. The order was chosen
by risk: the PDB controller writes most and has the most concurrent writers, the
rollback comes next because it rewrites user workloads, then admission.

## 3. The PDB controller

**State.** `workloads`, `pdbs` and `configMap` are the API server; `leader`,
`cfg` (= `defaultPDBConfig`), `queue` and `cmQueue` (undelivered informer
events) belong to the elected replica; `pc`, `job`, `iter` are the locals of
its tasks. A *task* is a goroutine: the Deployment and StatefulSet handlers,
`reconcile`, `scanOnce` (start-up and ConfigMap events), `scanTick` and `gc`
(tickers). `job[t]` is what `createPDBForWorkload` and the functions it calls
hold; `iter[t]` is the loop around it. `fresh` is the set of tasks whose copy of
a PDB still has the stored resourceVersion; an Update is refused otherwise.

**Actions.** One action is one API call with the decisions that follow it:
`Start`, `List`, `Recheck`, `Get`, `ResolveCreate`, `Replace`, `Create` are
`createPDBForWorkload`; `ResolveUpdate`, `Recreate`, `Update` are
`updateExistingPDB`; `FixPoor` is `logAndFixPoorPDBConfig`; `Cleanup` deletes
leftovers beside a CAST Helm PDB; `Rec*`, `Scan*`, `Multi*` and `Gc*` are the
loops. A failed write may have been applied. `Crash` loses everything but the
API server; the successor starts with whatever configuration it had loaded.

**Abstractions.** One namespace (no decision looks across). A budget text is a
record `[type, v]`: an integer, which `parsePDBValue` cuts to an int32 of
`IntBits` bits; a percentage; any other text that ends in `%` ("junk"), which the
code passes on unchecked; or a text that is none of these and counts as absent.
Two spellings of one value are not told apart. What the code passes on the API
server may refuse: a negative number, a percentage above 100, junk, or both
fields (`ValidBudget`, the external validation of a PDB). A regular expression
or label selector of an exclusion rule is the set of workloads it matches, or
`bad`. `waitForPDBDeletion` is no step: the code continues either way. Log
lines, the disruption-block warnings and the PDB dump are left out.

**Bounds.** `MaxChanges` (user actions), `MaxFaults` (API errors and crashes),
`RecheckAttempts`; one `reconcile` and one `scanOnce` goroutine at a time; a
resync is queued only when the workload's queue is empty. Each hazard needs one
user change and at most one fault; `names` needs two changes because the
selector must be enriched and the label then changed.

**Fairness.** A leader is elected again, tasks run, tickers fire, ConfigMap
events are delivered and informers resync (ten minutes): weak fairness.
`HandleEvent` has strong fairness, because the handler goroutine serves the
events of all workloads of its kind in turn and is busy in between.

| Run | What it shows |
|---|---|
| `converge` | from any state of one Deployment, with or without a left-over PDB, the cluster converges: `EligibleCovered`, `NoUnderReplicatedPDB`, `BudgetsFollow`, `ConfigFollowsConfigMap`, `TasksReturn` |
| `names` | two workloads sharing a PDB name, selector enrichment, a user PDB without selector: the inductive invariant, `CastaiSelectorSound`, `SelectorNeverRewritten`. No ticker is active, so the instance may stop |
| `scan` | Helm and customer PDBs in any combination: `ForeignOnlyFixedByScan`, `HelmLeftoversRemoved`, `PoorPDBsFixed` |
| `bypass_race` (violation) | a reconcile recreates the PDB of a workload that was bypassed meanwhile; nothing removes it |
| `no_fallback` (violation) | `FallbackBudgetKept`: without a ConfigMap and annotations the first event creates a PDB with minAvailable=1 (lines 1410-1412), and the next resync rewrites it with neither field: `updateExistingPDB` (lines 362-366) has no fallback, although line 817 announces "using built-in fallback" |

`BudgetsFollow` and `FallbackBudgetKept` divide one promise, `HasItsBudget` (an
eligible workload's PDB has the budget `createPDBForWorkload` would give it): the
first speaks of workloads for which annotations or defaults state a value
(`BudgetGiven`), the second of the others.

**Also seen.** TLC shows these on instances that are not kept as runs:

* An annotation or default that parses into a budget the API server refuses (text
  ending in `%` that is no percentage, a negative number, an integer cut to a
  negative one) makes every Create and Update fail, also the Create after
  `Replace`, `Recreate` or `FixPoor` has deleted the PDB. The workload stays
  without one and the controller only logs. `Eligible` leaves such workloads out.
* With `FixPoorPDBs` and a default that is poor for a workload (minAvailable
  equal to its replicas), `createPDBForWorkload` and `logAndFixPoorPDBConfig`
  create and delete the same PDB forever (line 1505). `PoorPDBsFixed` and
  `TasksReturn` are checked with defaults that are not poor.
* A StatefulSet with one replica deletes the PDB of the Deployment that has its
  name at each of its events (line 218). `EligibleCovered` is checked without
  such a pair.

## 4. TSC snapshots and rollback

**State.** `workloads` (uid, constraints, managed annotation), `snaps` (the
`TSCOriginal` objects: recorded constraints, Ready, RolledBack, finalizer,
deletion mark), `configMap`; `cfg[r]`, Nil while replica `r` is down; `pc`,
`todo`, `cur` of each thread; `fresh`, the copies that still have the stored
resourceVersion. A snapshot's name is the pair of workload and uid, because
`CollisionSafeName` hashes exactly those and is taken as injective. Threads: per
replica `main` (start-up sweeps, then ConfigMap events) and one rollback
goroutine; `Capturers` are calls of `CaptureIfAbsent`.

**Actions.** `Boot`, `OrphanList`, `Orphan`, `ManagedList`, `Managed`, `Strip`
are `main` up to serving; `onConfigMapEvent` reloads the ConfigMap (a failed
Get yields the defaults, as in the code) and may start a rollback; `RbList` to
`MarkFailed` are `snapshot.Rollback` with `applyInversePatch`;
`RemoveFinalizerGet/Patch` are shared; `Cap*` are `CaptureIfAbsent`. Users edit,
delete and recreate workloads, delete snapshots and change the ConfigMap; any
replica may crash. The initial states are what the earlier, patching release
left behind, since this release injects into Pods only.

**Fairness.** Pods are restarted, goroutines run, and the informer reports an
existing ConfigMap at least at each five-minute resync: weak fairness on an
event whose read of the ConfigMap succeeds (`Reloaded`), so that nothing obliges
a call to fail. No fairness on users, faults or crashes.

| Run | What it shows |
|---|---|
| `rollback` | two replicas, two user changes, one API error, one crash: `RestoredWhenMarked`, `ThreadsConsistent` (what a thread found out with one call still holds when it acts on it with the next), `RolledBackIsFinal`, `FinalizerGuards`, `StripsOnlyLost`, `RollbackCompletes` for a replica that stays up, and `KeepsContract` |
| `capture` | two concurrent captures over nothing, a rolled back or a partial snapshot; a workload outside the operator's namespace, whose Create the server rejects: `ReadyGuarded` and `KeepsContract` |
| `rollback_restart` (violation) | a crash during the rollback is not made up for after the restart |
| `orphan_uid` (violation) | the start-up sweep compares names, not uids |

**The contract.** `RollbackContract` has, per snapshot, a record ("absent",
"kept", "rolledBack"), a guard and the state of the target ("injected", "clean",
"gone"). A record becomes "rolledBack" only when the target is not "injected",
never goes back, and the guard goes only from a record that is "rolledBack" or
whose target is "gone". `KeepsContract` is the refinement: `record` is read off
the conditions, `guard` off the finalizer, and a target is "gone" when no
workload has the snapshot's name and uid. Every step of two replicas, of their
sweeps, of users and of crashes is a step of the contract or changes nothing in
it.

**Capture and rollback together.** `captureTSCOriginal` has no caller in this
release; `CaptureIfAbsent` is modelled as what the package offers. Run beside a
rollback it breaks `FinalizerGuards`: the rollback marks a snapshot, a capture
deletes and recreates it, and the pending `RemoveFinalizer` strips the new one.
If snapshots had been lost before as well, a capture may record the injected
constraints as the original, a rollback write them back, and `RestoredWhenMarked`
is false too; without such a loss it holds, as do `ThreadsConsistent`,
`RolledBackIsFinal` and `StripsOnlyLost`, which TLC also finds on an instance of
both together. The runs keep the two apart; whoever calls capture again should give the
finalizer patch a resourceVersion first. A partial snapshot (`Ready=False`) is
not overwritten either, because Create returns AlreadyExists, which counts as
success. And `reconcileManagedAnnotations` makes recapturing possible for a
workload that still carries injected constraints.

**Bounds.** One rollback goroutine per replica at a time (two replicas give the
concurrency); `MaxUid` = 2 incarnations; `RetrySteps` = 2 attempts (the code
has 5; two show both outcomes); one or two workloads, since no property relates
two snapshots.

## 5. TSC admission

**State.** `config[r]` and `exclusionRules[r]` are the two globals of replica
`r`, `loader[r]` where `loadConfig` is (it holds `configLock` while not idle),
`fetched[r]` what its Get returned, `pending` the replicas with an event to
handle. `request[q]` is what the handler of a request holds: the Pod, its
configuration, the owner it found, and where it is. `outcome[q]` is what became
of the Pod.

**Actions.** `Boot`, `Serve`, `onConfigMapEvent`, `SetRules`, `SetConfig` are
`main`, `Run` and `loadConfig`; `ReadConfig`, `GetReplicaSet`, `GetOwner`,
`CheckSelf`, `Decide` are `handlePodAdmission` down to `buildPodTSCPatches`, cut
where the code takes a lock or calls the API server. A failed Get gives the
defaults and no rules, as in the code. `TimeOut` and `Crash` leave the Pod
without a patch (`failurePolicy: Ignore`); an invalid patch costs the Pod
(`ValidConstraints`).

**Abstractions.** Patterns and labels of exclusion rules are the sets of
workloads they match. JSON is absent, unreadable or a value (a text of which
`json.Unmarshal` keeps a part counts as a value). `int32` has four bits in the
instance, so that a value of nine overflows. Requests that cannot be decoded are
answered without a patch before any of this.

**Bounds.** One replica (they share nothing but the API server) and one request
(handlers share nothing but what they read), two user changes, one API error,
one crash: a reload between two reads needs one change, a lost event or a stale
rule two.

**Fairness.** Weak for a replica's own steps, of which at most one is enabled at
a time, and with them for the event an existing ConfigMap causes at least every
five minutes (resync); strong for a handler, which waits for a lock that loads
take again and again, as Go's `RWMutex` serves waiting readers. No call has to
fail, no request to time out.

| Run | What it shows |
|---|---|
| `admission` | `RulesMatchConfig` (one ConfigMap behind both globals whenever no load is under way), `SteadyDecisions` (a request that no reload overtook is decided by it), `BlockedOnlyByBadInput`, `HandlersReturn`, `ConfigSettles` |

**Also seen.** "We never block Pod creation" (`pod_mutation.go:445`) holds for
failures but not for input: a constraints annotation or `defaultConstraints`
with an invalid field, or a maxSkew of 2^31 and more, gives a patch the API
server refuses, and the Pod with it. `BlockedOnlyByBadInput` says that nothing
else does. A missing `whenUnsatisfiable` is such a field in the annotation, but
not in the ConfigMap: `buildPodTSCPatches` fills it in only there. The instance
has a StatefulSet whose annotation leaves it out. After a deletion of the ConfigMap (there is no `DeleteFunc`) replicas
differ until each restarts, so `ConfigSettles` speaks of ConfigMaps that exist. The handler
reads the configuration and the rules under separate locks: a reload between the
two yields a patch that neither ConfigMap asks for, although the comment at
`pod_mutation.go:438-441` says the snapshot keeps the decision consistent. TLC
shows it where one ConfigMap excludes the workload and the next, which does not,
has other constraints; `SteadyDecisions` speaks of requests that no reload
overtook.

## 6. JVM probes

**Operators.** `JVMProbes` follows the code function by function:
`detectContainerPort`, `FrameworkOf` (with `DetectJVMContainer`), `BuildProbe`
(`BuildProbesForFramework`), `buildContainerPatches`, `alignProbe`,
`tuneStartupProbe`, `buildPodProbePatches`. Patch operations are records;
`ApplyOps`, `WithDefaults` and `ValidProbe` are the API server's part: RFC 6902
in order, defaults, validation. In JSON a field that is 0 is absent, which is
what makes a second `remove` fail. `Patched`, `Refused` and `Stored`
are what it makes of the webhook's answer.

**State.** `history` (the contents the ConfigMap has had), `config[r]`,
`exclusionRules[r]`, `seen[r]` (how far the informer is in `history`; its list
may be older than main's Get), `answer[q]`. A request reads the configuration
once and makes no API call, so it is one step. `Reinvoke` is the second call
that `reinvocationPolicy: IfNeeded` allows.

**Reference.** `Reference` states the six steps of the README (`src/README.md`,
"How the mutation works") as the final Pod, without a patch: own probes stay,
missing ones are built, the startup probe is a copy of liveness, else readiness,
else built (steps 1-3, `CopiedProbe`), with its own timing (4); a copied probe
takes the well-known name of a port (5, `ByName`); alignment extends the threshold
to the least one that covers the window, up to the cap, and never makes it
smaller (6, `Stretched`, chosen from a set instead of computed by division).
`MatchesReference` compares it with what the operations produce, for Pods without
overwrite annotations. The code leaves the steps in two places, and the formula
names both, so that it allows these and no other:

* `HandlerPreserved`: the code copies the handler as it is
  (`pod_mutation.go:344`), so step 5 (`src/README.md:357`) is missing. The sentence
  after the steps (line 360) says that "the original handler and path/port are
  preserved", which contradicts step 5.
* `CutToCap`: where the window cannot be covered, a threshold above
  `maxFailureThreshold` is lowered to it (`pod_mutation.go:429-431`), although
  step 6 and lines 362-364 say "extend".

TLC finds `MatchesReference` violated if either is left out.

**Bounds.** 142 Pods: three kinds of containers that are worked on, with five
sets of probes each, and two that are left alone, with eight sets of annotations,
among them a failure threshold that overflows `int32` (18 bits in the instance,
the least width that holds every port), a port that cannot be read and one of
70000; four configurations, two changes, one failed Get, one crash. One
container decides by itself; six Pods have a sidecar in front to check positions.
A port is valid from 1 to 65535 (`MaxPort`), as the API server has it; a port
annotation outside is a bad number.

**Fairness.** Weak for start-up and the delivery of received events; there is no
resync to rely on.

| Run | What it shows |
|---|---|
| `probes` | `MatchesReference`, `BlockedOnlyByBadNumbers`, `TargetsDeclaredPorts`, `InvokedTwice`, `ConfigSettles` |

**Also seen**, and kept out of the properties by their conditions:

* The exclusion rules are parsed and never read: `IsExcluded` has no caller,
  although `README.md:323` describes exclusions.
* Overwrite, clear-delays and alignment together leave `initialDelaySeconds` in
  a regenerated probe (lines 361-365 promise to strip it from "the final probe
  state"): clear-delays looks at the probe the container had.
* With overwrite or clear-delays a second call patches again; line 195 says it
  produces no patches. The charts leave `reinvocationPolicy` at Never.
* A failure threshold of 0 together with alignment gives a `replace` of an
  absent field and costs the Pod.
* An unknown framework name in the override annotation on a JVM container
  without ports yields a TCP probe on 8080 (lines 161-165 exclude that for other
  containers).
* An empty `inject-startup` is "no" to `shouldInjectStartup` and "unset" to
  `getAnnotationBool`.

## 7. The servers

**State.** `run`, `awaited`, `received`, `result` are `Controller.Run`; `start`,
`startResult`, `serve`, `serveErr`, `closed`, `timedOut` each server's `Start`,
its goroutine and channels; `request`, `counters` are `instrument`. One model
serves both controllers; `controller` chooses what `Run` makes of results (the
TSC controller returns nil after a cancellation, the JVM controller the first
error).

**Actions.** One per blocking point of `Start` and `Run`; `EndShutdown` is
`http.Server.Shutdown` returning, with an error if requests are still active,
because then only its time limit (30 s) ends it. Listen and Serve may fail; a
signal may come at any time; `Stop` has no caller in the program and is modelled
as what the type offers. When `Run` returns the process exits, so the instance
stops there.

**Fairness.** Goroutines run and time limits expire. Nothing is assumed of
handlers: `Exits` holds with one that never returns.

| Run | What it shows |
|---|---|
| `servers` | `NothingLeftRunning`, `RequestsDrained`, `FailureReported`, `Exits`, with two failures, one `Stop` and two requests (one in the handler, one between answer and counter) |

**Also seen.** `Start` returns an error, not nil as `webhook.go:169-170` says,
when `Shutdown` times out. The TSC controller's `Run` drops that error. A signal
before the cache is synced makes `Run` return an error. A `Stop` beside `Run`
lets `Start` return before requests are drained. The charts leave the
termination grace period at 30 s, the shutdown time limit, so the kubelet may
cut a shutdown that times out off first.

## 8. Proofs

Every theorem holds for all values of the constants that satisfy the named
assumptions: any replicas, workloads, requests, ConfigMaps and bounds. TLC
evaluates the assumptions in every run. In each module `Invariance` proves an
inductive `IInv`, which TLC checked first, and the other theorems follow from it.

| Module | Theorem | Property |
|---|---|---|
| `PDBControllerProofs` | `TypeCorrect`, `TasksConsistent`, `SelectorsSound` | `TypeOK`, `TaskInv`, `CastaiSelectorSound` |
| | `SelectorsImmutable`, `ForeignSafe` | `SelectorNeverRewritten`, `ForeignOnlyFixedByScan` |
| `TSCSnapshotsProofs` | `TypeCorrect`, `ThreadsKnow` | `TypeOK`, `ThreadsConsistent` |
| | `MarkedIsRestored`, `CompleteIsGuarded` | `RestoredWhenMarked`, `ReadyGuarded` |
| | `MarkedForGood`, `FinalizerStays`, `OnlyLostStripped` | `RolledBackIsFinal`, `FinalizerGuards`, `StripsOnlyLost` |
| | `ContractKept` | `KeepsContract` (refinement) |
| `TSCConfigProofs` | `ConfigTyped` | every ConfigMap gives a well-formed configuration |
| `TSCAdmissionProofs` | `TypeCorrect`, `OneConfigMap` | `TypeOK`, `RulesMatchConfig` |
| | `OnlyBadInputBlocks`, `DecidedByOne` | `BlockedOnlyByBadInput`, `SteadyDecisions` |
| `WebhookServerProofs` | `TypeCorrect`, `NoneLeftRunning` | `TypeOK`, `NothingLeftRunning` |
| | `NoFailureSwallowed`, `AllDrained` | `FailureReported`, `RequestsDrained` |
| `JVMAdmissionProofs` | `TypeCorrect`, `AsTheReference` | `TypeOK`, `MatchesReference` |
| | `OnlyBadNumbersBlock`, `PortsDeclared` | `BlockedOnlyByBadNumbers`, `TargetsDeclaredPorts` |
| | `SecondCallHarmless` | `InvokedTwice` |

**Assumptions.** `ConstantsAssumption` of each module says that the constants
have their types and users provide well-formed objects; of `PDBController` also
that a workload's template matches its own selector (the API server insists on
it), that PDBs of users and of the initial states have a budget the API server
accepts, and that PDB names of others do not have the controller's shape.
`NilAssumption`: the absent value is none of the present ones.
`EarlierRelease`: what the API server holds at first is what the earlier release
leaves behind. Requests of `WebhookServer` are finitely many. The Pods of
`JVMAdmission` are ones the API server would store: defaulted and valid.
`PowersOfTwo` and `Literals` state facts the provers do not know: powers of two
are positive natural numbers, and a string literal is a string. In `JVMProbes`
`PowersOfTwo` also says that an `int32` holds every port, and with it every number
the code itself writes; `PDBIntBits` is its counterpart in `PDBRules`.

### PDB controller

`CastaiSelectorSound` is not inductive: a task writes a selector it computed
several steps earlier, from a version of the workload that may be gone.
`IInv == TypeOK /\ TaskInv /\ CastaiSelectorSound` adds what each task
knows at each program point (`JobOK`: its object is a version users wrote, its
selector lies between the workload's selector and that version's template;
`IterOK`: only controller names are queued for deletion) and what a current
resourceVersion guarantees (`FreshOK`: the copy is the stored PDB, and an Update
about to be sent keeps its selector). `FreshOK` is why no interleaving rewrites
a selector: a task that lost the race is no longer in `fresh`.

The induction step has one lemma per action (`StartOK`, `ListOK`, ...). They
share `StepFrame` and `TaskFrame` (a step of one task leaves the invariant of
the others alone if it only writes PDBs through `Store`) and the lemmas on the
API calls (`ReadStep`, `WriteStep`, `DeleteOwn`); lemmas about `PDBRules` say
that its operators return well-formed values and that enrichment only adds
labels of the template. `TypeCorrect` says that every stored PDB has a budget the
API server accepts: what `parsePDBValue` passes on may not be one, so this rests
on the server's check at each write and not on the parsing.

### TSC snapshots

A thread acts on what it read one or more calls earlier, so the invariants need
`ThreadsConsistent` (`MainOK`, `RollbackOK`, `CaptureOK`: what each thread knows
at each program point) and `ClusterOK` (uids are not reused; a snapshot does not
record the injected value; a workload that carries it has its guarded snapshot).
The argument is one of rely and guarantee: `ClusterStep` lists the few ways in
which any step changes one snapshot (`SnapStep`: `Creates`, `Discards`, `Releases`,
`Guards`, `Marks`) or one workload (`WorkloadStep`: `Retouches`, `Unmanages`,
`Removes`, `Adds`); each leaves alone what the other threads rely on (`Rely`),
preserves `ClusterOK` and satisfies `StepOK`, from which the action properties
follow. A lemma per action then shows that it is such a step and that its own
thread goes on knowing what it should. The refinement (`StepRefines`) is a case
split over the same few kinds of step.

Some theorems have a hypothesis on the release, because the property is false
without it. `RollbackOnly`: nothing captures, which is this release.
`CaptureOnly`: no ConfigMap asks for a rollback. `Apart` is either of them, and
`ReadyGuarded`, `FinalizerGuards` and the refinement need it: TLC finds the
finalizer of a new snapshot stripped by the pending `RemoveFinalizer` of the old
one. `OriginalsKnown` is `RollbackOnly`, or no snapshot of a patched workload was
lost before; `RestoredWhenMarked` needs it when captures and rollbacks run
together. The instances of the runs satisfy them, and so does the repository's code.

### TSC admission

`RulesMatchConfig` speaks of replicas without a load under way; `ReplicaOK` says
what a load has reached: it sets the rules first and the configuration next, both
from one Get. `HandlerOK` records what a request has passed on its way to where
it is, so that `Decide` may conclude that its configuration came from some
ConfigMap and that no early return was due; `OutcomeOK` keeps the outcome of a
finished request apart from the other fields. Each action changes the state of
one replica (`ReplicaStepOK`) or one request (`RequestStepOK`), and these frame
lemmas keep the rest. `AnswerOK` is the heart: a patch whose
constraints the API server refuses comes from one of the three kinds of bad
input. The attempt to prove it corrected the property: an annotation whose policy
is missing is refused as well (section 5).

### Servers

`ServerOK` relates where a `Start` is to its Serve goroutine and its two
results; `ReceivedOK` says that `Run` has received the result of each server it
no longer awaits, once, and in this order; `RunOK` says why `Run` is where it is,
above all that a first result without an error means a cancellation or `Stop`.
`RequestsDrained` counts answers by class, for any number of requests:
`CountersOK` makes each counter the cardinality of the set of requests counted
in it, and `DrainedOK` says that a webhook server that closed in time stays
without an active request.

### JVM probes

The invariant is small and the operators are large: `AnswerOK` says that an
answer is what the code makes of a valid Pod under a configuration some ConfigMap
parses to, and everything else is about the value it then has.

A patch is a sequence of operations of any length, applied by the recursive
function `ApplyOps`. The facts about it (`AppliedConcat`: applying `s` and then
`t`; `NothingApplies`: a path that does not exist leaves nothing) are proved by
induction on the length, from the least element of a set of naturals
(`LeastElement`, `Induction`), because the induction theorems of the library take
an operator. On them rests `PatchApplied`: operations in the code's order have
the effect `Result`, which is stated container by container and probe by probe
(`Placed`, `Lengthened`, `Tuned`), or none if an operation is `Stuck`. The other
theorems then never mention a patch again:

* `TypeCorrect`: each number of a stored probe is an `int32` (`OutcomeTyped`) and
  a stored Pod is one the second call may read (`StoredIsPod`).
* `OnlyBadNumbersBlock`: with good numbers, a port annotation among 1..65535
  included, each piece of the result is valid and none is stuck (`PiecesValid`,
  `FinalValid`).
* `PortsDeclared`: a port of a probe stems from the container or from the
  detection (`PiecesStem`).
* `AsTheReference`: dividing and rounding up as alignment does extends the
  threshold as step 6 asks or lowers it to the cap (`Extended`, from the
  non-linear `Enough`); a copied handler is the container's (`DescribedCopy`);
  what the API server fills in does not tell the two sides apart (`NearDefaults`);
  the rest of the comparison is by cases (`ReferenceAgrees`).
* `SecondCallHarmless`: each probe kind of the stored Pod is one that the second
  call leaves alone (`SecondOutcome`, `SecondCall`).

### Only model-checked

* Liveness: `EligibleCovered`, `NoUnderReplicatedPDB`, `BudgetsFollow`,
  `ConfigFollowsConfigMap`, `TasksReturn`, `HelmLeftoversRemoved`,
  `PoorPDBsFixed`, `RollbackCompletes`, `HandlersReturn`, `ConfigSettles`,
  `Exits`. The prover has neither fairness nor `ENABLED`.
* The refuted properties, which are there to be violated.

## 9. Not modelled

* TLS, routing, decoding of requests, the text of /metrics (whose four counters
  are loaded one after the other), logging, disruption-block warnings and the
  PDB dump: they change no state another part reads.
* `timeoutSeconds` of probes, log and reconcile intervals: copied, never decided
  on.
* The lease protocol of client-go: leader election is taken as mutual exclusion.
* Generated code, CRDs, charts, manifests and shell scripts.
* `removeSnapshotFinalizer` and `removeTSCFromWorkload`: no callers.
