---------------------------- MODULE TSCSnapshots ----------------------------
(***************************************************************************)
(* Snapshots and rollback in the TSC controller.                           *)
(*                                                                         *)
(* An earlier release of the controller wrote topology spread constraints  *)
(* into Deployments and StatefulSets; before each patch it recorded the    *)
(* original value in a TSCOriginal object, guarded by a finalizer.  This   *)
(* release restores them: when managementEnabled goes from true to false   *)
(* with rollbackOnDisable set, every replica (there is no leader) starts a *)
(* goroutine that walks the snapshots.  At start-up a replica sweeps       *)
(* snapshots and annotations that lost their counterpart.                  *)
(*                                                                         *)
(* The package snapshot also has the capture side; captureTSCOriginal has  *)
(* no caller in this release and is modelled as what the package offers,   *)
(* by the threads in Capturers.                                            *)
(*                                                                         *)
(* One action is one API call and the local decisions that follow it.      *)
(***************************************************************************)
EXTENDS TSCConfig, Naturals

CONSTANTS
  Replica,         \* the controller's pods
  Capturers,       \* threads <<"capture", replica, i>> in CaptureIfAbsent
  Workload,        \* set of [kind, name] records
  Local,           \* the workloads in the operator's namespace
  TSC,             \* values of spec.template.spec.topologySpreadConstraints
  Injected,        \* the value the earlier release wrote
  Edits,           \* the values users write
  InitClusters,    \* [workloads, snaps, lastUid] records: what was left
  ConfigMaps,      \* contents users give the ConfigMap; Nil = it is absent
  InitConfigMap,
  Env,             \* the replicas' environment
  MaxUid,          \* bound: incarnations of a workload
  RetrySteps,      \* steps of retry.DefaultRetry
  MaxChanges,      \* bound: what users do
  MaxFaults,       \* bound: API errors
  MaxCrashes       \* bound: replicas that die

Kinds    == {"Deployment", "StatefulSet"}
Object   == [uid : 1..MaxUid, tscs : TSC, managed : BOOLEAN]
Status   == {"Unknown", "True", "False"}
Snapshot ==
  [tscs : TSC, ready : BOOLEAN, rolledBack : Status, fin : BOOLEAN,
   deleting : BOOLEAN]

\* CollisionSafeName hashes kind, namespace, name and uid; the hash is taken
\* as injective, so a snapshot's name and its targetRef are the same thing.
SnapName == Workload \X (1..MaxUid)

Main(r)      == <<"main", r>>
Rollback(r)  == <<"rollback", r>>
Thread       == {Main(r) : r \in Replica} \cup {Rollback(r) : r \in Replica}
                  \cup Capturers
ReplicaOf(t) == t[2]

VARIABLES
  workloads, snaps, configMap, lastUid,  \* the API server
  cfg,             \* replica -> its configuration; Nil = the replica is down
  pc, todo, cur,   \* where a thread is, what its loop has left, its item
  tries,           \* attempts left of retry.RetryOnConflict
  kind,            \* the list that reconcileManagedAnnotations is in
  fresh,           \* <<thread, snapshot>>: the copy has the resourceVersion
  changes, faults, crashes               \* counters behind the bounds

cluster == <<workloads, configMap, lastUid>>
bounds  == <<changes, crashes>>
vars    == <<workloads, snaps, configMap, lastUid, cfg, pc, todo, cur, tries,
             kind, fresh, changes, faults, crashes>>

\* A copy of a snapshot as a thread holds it.
Item    == [n : SnapName, obj : {Nil} \cup Snapshot]
Copy(n) == [n |-> n, obj |-> snaps[n]]

InitPC(t) == IF t[1] = "main" THEN "down" ELSE "idle"

Labels ==
  {"down", "orphanList", "orphan", "managedList", "managed", "strip",
   "serving", "idle", "rbList", "rbNext", "verify", "restore", "markGone",
   "markDone", "markFailed", "rfGet", "rfPatch", "capGet", "capDelete",
   "capCreate", "capFinGet", "capFinPatch", "capReadyGet", "capReady",
   "capCleanup"}

ASSUME ConstantsAssumption ==
  /\ Workload \subseteq [kind : Kinds, name : {w.name : w \in Workload}]
  /\ Capturers \subseteq {"capture"} \X Replica \X Nat
  /\ Local \subseteq Workload
  /\ Injected \in TSC
  /\ Edits \subseteq TSC \ {Injected}
  /\ \A c \in InitClusters :
       /\ c.workloads \in [Workload -> {Nil} \cup Object]
       /\ c.snaps \in [SnapName -> {Nil} \cup Snapshot]
       /\ c.lastUid \in [Workload -> 0..MaxUid]
       /\ \A w \in Workload :
            c.workloads[w] # Nil => c.workloads[w].uid = c.lastUid[w]
  /\ ConfigMaps \subseteq {Nil} \cup RawConfig
  /\ InitConfigMap \in {Nil} \cup RawConfig
  /\ Env \in Environment
  /\ MaxUid \in Nat /\ RetrySteps \in Nat \ {0}
  /\ MaxChanges \in Nat /\ MaxFaults \in Nat /\ MaxCrashes \in Nat

ASSUME NilAssumption == Nil \notin Object \cup Snapshot

\* What the earlier release left: a snapshot records the value before the
\* injection and an incarnation that was there; it was completed after its
\* finalizer was added, and marked after the workload was restored.
ASSUME EarlierRelease ==
  \A c \in InitClusters, n \in SnapName :
    LET s == c.snaps[n]
        w == c.workloads[n[1]]
    IN  s # Nil =>
          /\ n[2] <= c.lastUid[n[1]]
          /\ s.tscs # Injected
          /\ w # Nil /\ w.uid = n[2] =>
               /\ s.rolledBack = "True" => w.tscs # Injected
               /\ s.ready /\ s.rolledBack # "True" => s.fin

(***************************************************************************)
(* The API server.  An object with a finalizer is only marked by Delete    *)
(* and goes when the finalizer goes.  A write that changes nothing keeps   *)
(* the resourceVersion.  A failed write may or may not have been applied.  *)
(***************************************************************************)
Live(n) == workloads[n[1]] # Nil /\ workloads[n[1]].uid = n[2]

Store(n, v) ==
  /\ snaps' = [snaps EXCEPT ![n] = v]
  /\ fresh' = IF v = snaps[n] THEN fresh ELSE {c \in fresh : c[2] # n}

Deleted(s)     == IF s.fin THEN [s EXCEPT !.deleting = TRUE] ELSE Nil
Unfinalized(s) == IF s.deleting THEN Nil ELSE [s EXCEPT !.fin = FALSE]

Fault      == faults < MaxFaults /\ faults' = faults + 1
NoWrite    == UNCHANGED <<snaps, fresh>>
Read       == NoWrite /\ UNCHANGED faults
ReadFails  == NoWrite /\ Fault
Call(err)  == IF err THEN ReadFails ELSE Read
Write(n, v)      == Store(n, v) /\ UNCHANGED faults
WriteFails(n, v) == Fault /\ (Store(n, v) \/ NoWrite)

\* A mutated form: only a missing object is an error.
ConflictIfMissing(t, n) == snaps[n] = Nil

\* UpdateStatus carries the resourceVersion of the copy: a conflict (or
\* NotFound) unless the copy is current.
Conflict(t, n) == <<t, n>> \notin fresh
WithStatus(n, ready, rolledBack) ==
  [snaps[n] EXCEPT !.ready = ready, !.rolledBack = rolledBack]

(***************************************************************************)
(* Control.                                                                *)
(***************************************************************************)
Goto(t, label) == pc' = [pc EXCEPT ![t] = label] /\ UNCHANGED <<todo, cur>>

\* Take item i out of the loop's list and work on it.
Take(t, i, label) ==
  /\ pc'   = [pc EXCEPT ![t] = label]
  /\ cur'  = [cur EXCEPT ![t] = i]
  /\ todo' = [todo EXCEPT ![t] = @ \ {i}]

\* Skip item i: the loop continues.
Skip(t, i) ==
  /\ todo' = [todo EXCEPT ![t] = @ \ {i}]
  /\ UNCHANGED <<pc, cur>>

\* Done with the current item, or with the whole call.
Leave(t, label) ==
  /\ pc'  = [pc EXCEPT ![t] = label]
  /\ cur' = [cur EXCEPT ![t] = Nil]
  /\ UNCHANGED todo

Start(t, items, label) ==
  /\ pc'   = [pc EXCEPT ![t] = label]
  /\ todo' = [todo EXCEPT ![t] = items]
  /\ UNCHANGED cur

(***************************************************************************)
(* RemoveFinalizer: Get, then a merge patch without a resourceVersion.     *)
(* Both callers log an error and go on with the next snapshot.             *)
(***************************************************************************)
LoopOf(t) == IF t[1] = "main" THEN "orphan" ELSE "rbNext"

RemoveFinalizerGet(t) ==
  LET n == cur[t].n
  IN  /\ pc[t] = "rfGet"
      /\ \/ snaps[n] # Nil /\ snaps[n].fin /\ Read /\ Goto(t, "rfPatch")
         \/ ~(snaps[n] # Nil /\ snaps[n].fin) /\ Read /\ Leave(t, LoopOf(t))
         \/ ReadFails /\ Leave(t, LoopOf(t))
      /\ UNCHANGED <<cluster, cfg, tries, kind, bounds>>

RemoveFinalizerPatch(t) ==
  LET n == cur[t].n
  IN  /\ pc[t] = "rfPatch"
      /\ \/ snaps[n] = Nil /\ Read
         \/ snaps[n] # Nil /\ Write(n, Unfinalized(snaps[n]))
         \/ snaps[n] # Nil /\ WriteFails(n, Unfinalized(snaps[n]))
      /\ Leave(t, LoopOf(t))
      /\ UNCHANGED <<cluster, cfg, tries, kind, bounds>>

(***************************************************************************)
(* main and loadConfig.  When the Get fails the configuration becomes the  *)
(* one of an empty ConfigMap.                                              *)
(***************************************************************************)
IsRolledBack(s) == s.rolledBack = "True"

LoadedConfig(cm) ==
  ParseTSCConfig(IF cm = Nil THEN EmptyConfigMap ELSE cm, Env)

loadConfig(r) ==
  \/ cfg' = [cfg EXCEPT ![r] = LoadedConfig(configMap)] /\ UNCHANGED faults
  \/ cfg' = [cfg EXCEPT ![r] = LoadedConfig(Nil)] /\ Fault

Boot(r) ==
  /\ pc[Main(r)] = "down"
  /\ loadConfig(r)
  /\ Goto(Main(r), "orphanList")
  /\ UNCHANGED <<cluster, snaps, fresh, tries, kind, bounds>>

\* reconcileOrphanedSnapshots, part 1: list.
OrphanList(r) ==
  LET t == Main(r)
  IN  /\ pc[t] = "orphanList"
      /\ \/ /\ Read
            /\ Start(t, {Copy(n) : n \in {m \in SnapName :
                            snaps[m] # Nil /\ ~IsRolledBack(snaps[m])}},
                     "orphan")
         \/ ReadFails /\ Goto(t, "managedList")
      /\ kind' = [kind EXCEPT ![r] = "Deployment"]
      /\ UNCHANGED <<cluster, cfg, tries, bounds>>

\* A mutated form: any error of the lookup counts as a missing workload.
targetGoneOnError(n, err) == err \/ workloads[n[1]] = Nil

\* By name: the uid of the workload found is not compared.
targetGone(n, err) == ~err /\ workloads[n[1]] = Nil

\* Part 2: for each, look for the target and drop the finalizer.
Orphan(r) ==
  LET t == Main(r)
  IN  /\ pc[t] = "orphan"
      /\ \/ todo[t] = {} /\ Read /\ Goto(t, "managedList")
         \/ \E i \in todo[t], err \in BOOLEAN :
              /\ Call(err)
              /\ IF targetGone(i.n, err) THEN Take(t, i, "rfGet")
                                         ELSE Skip(t, i)
      /\ UNCHANGED <<cluster, cfg, tries, kind, bounds>>

(***************************************************************************)
(* reconcileManagedAnnotations: Deployments, then StatefulSets.            *)
(***************************************************************************)
ManagedItems(k) ==
  {[n |-> <<w, workloads[w].uid>>, obj |-> Nil] :
     w \in {v \in Workload : /\ v.kind = k
                             /\ workloads[v] # Nil
                             /\ workloads[v].managed}}

ManagedList(r) ==
  LET t == Main(r)
  IN  /\ pc[t] = "managedList"
      /\ \/ Read /\ Start(t, ManagedItems(kind[r]), "managed")
         \/ ReadFails /\ Goto(t, "serving")
      /\ UNCHANGED <<cluster, cfg, tries, kind, bounds>>

\* A mutated form: an error of the Get counts as a missing snapshot.
SnapshotMissingOnError(n, err) == err \/ snaps[n] = Nil

SnapshotMissing(n, err) == ~err /\ snaps[n] = Nil

Managed(r) ==
  LET t == Main(r)
  IN  /\ pc[t] = "managed"
      /\ \/ /\ todo[t] = {}
            /\ kind[r] = "Deployment"
            /\ Read
            /\ Goto(t, "managedList")
            /\ kind' = [kind EXCEPT ![r] = "StatefulSet"]
         \/ /\ todo[t] = {}
            /\ kind[r] = "StatefulSet"
            /\ Read
            /\ Goto(t, "serving")
            /\ UNCHANGED kind
         \/ /\ \E i \in todo[t], err \in BOOLEAN :
                 /\ Call(err)
                 /\ IF SnapshotMissing(i.n, err) THEN Take(t, i, "strip")
                                                 ELSE Skip(t, i)
            /\ UNCHANGED kind
      /\ UNCHANGED <<cluster, cfg, tries, bounds>>

\* The patch names the workload, not its uid.
Strip(r) ==
  LET t == Main(r)
      w == cur[t].n[1]
  IN  /\ pc[t] = "strip"
      /\ \/ /\ workloads[w] # Nil
            /\ workloads' = [workloads EXCEPT ![w].managed = FALSE]
            /\ \E err \in BOOLEAN : Call(err)
         \/ workloads[w] = Nil /\ Read /\ UNCHANGED workloads
         \/ ReadFails /\ UNCHANGED workloads
      /\ Leave(t, "managed")
      /\ UNCHANGED <<configMap, lastUid, cfg, tries, kind, bounds>>

(***************************************************************************)
(* onConfigMapEvent.  The informer delivers an event for every change and  *)
(* again every five minutes; the handler reads the ConfigMap itself.  One  *)
(* rollback goroutine per replica at a time (a bound of the model).        *)
(***************************************************************************)
\* A mutated form: rollbackOnDisable is taken from the old configuration.
TriggersOnOld(old, new) ==
  old.managementEnabled /\ ~new.managementEnabled /\ old.rollbackOnDisable

Triggers(old, new) ==
  old.managementEnabled /\ ~new.managementEnabled /\ new.rollbackOnDisable

onConfigMapEvent(r) ==
  /\ pc[Main(r)] = "serving"
  /\ loadConfig(r)
  /\ IF Triggers(cfg[r], cfg'[r])
     THEN pc[Rollback(r)] = "idle" /\ Goto(Rollback(r), "rbList")
     ELSE UNCHANGED <<pc, todo, cur>>
  /\ UNCHANGED <<cluster, snaps, fresh, tries, kind, bounds>>

(***************************************************************************)
(* snapshot.Rollback.                                                      *)
(***************************************************************************)
RbList(t) ==
  LET items == {n \in SnapName : snaps[n] # Nil /\ ~IsRolledBack(snaps[n])}
  IN  /\ pc[t] = "rbList"
      /\ \/ /\ Start(t, {Copy(n) : n \in items}, "rbNext")
            /\ fresh' = fresh \cup ({t} \X items)
            /\ UNCHANGED <<snaps, faults>>
         \/ ReadFails /\ Goto(t, "idle")
      /\ UNCHANGED <<cluster, cfg, tries, kind, bounds>>

\* The lookup: gone, or another workload of the same name.
RbNext(t) ==
  /\ pc[t] = "rbNext"
  /\ \/ todo[t] = {} /\ Read /\ Goto(t, "idle")
     \/ \E i \in todo[t] :
          \/ Live(i.n) /\ Read /\ Take(t, i, "verify")
          \/ ~Live(i.n) /\ Read /\ Take(t, i, "markGone")
          \/ ReadFails /\ Skip(t, i)
  /\ UNCHANGED <<cluster, cfg, tries, kind, bounds>>

\* applyInversePatch looks the target up again ...
Verify(t) ==
  /\ pc[t] = "verify"
  /\ \/ Live(cur[t].n) /\ Read /\ Goto(t, "restore")
     \/ ~Live(cur[t].n) /\ Read /\ Goto(t, "markFailed")
     \/ ReadFails /\ Goto(t, "markFailed")
  /\ UNCHANGED <<cluster, cfg, tries, kind, bounds>>

\* A mutated form: an error of the patch is logged and nothing else.
AfterPatchUnchecked(err) == "markDone"

AfterPatch(err) == IF err THEN "markFailed" ELSE "markDone"

\* ... and patches it by name.  A patch that failed may have been applied.
Restore(t) ==
  LET w == cur[t].n[1]
  IN  /\ pc[t] = "restore"
      /\ \E err \in BOOLEAN :
           \/ /\ workloads[w] # Nil
              /\ workloads' = [workloads EXCEPT ![w].tscs = cur[t].obj.tscs]
              /\ Call(err)
              /\ Goto(t, AfterPatch(err))
           \/ /\ err \/ workloads[w] = Nil
              /\ Call(err)
              /\ Goto(t, AfterPatch(TRUE))
              /\ UNCHANGED workloads
      /\ UNCHANGED <<configMap, lastUid, cfg, tries, kind, bounds>>

\* RolledBack=True, then the finalizer; without the status no finalizer is
\* removed.
Mark(t) ==
  LET n == cur[t].n
      v == WithStatus(n, cur[t].obj.ready, "True")
  IN  /\ pc[t] \in {"markGone", "markDone"}
      /\ \/ ~Conflict(t, n) /\ Write(n, v) /\ Goto(t, "rfGet")
         \/ ~Conflict(t, n) /\ WriteFails(n, v) /\ Leave(t, "rbNext")
         \/ Conflict(t, n) /\ Read /\ Leave(t, "rbNext")
      /\ UNCHANGED <<cluster, cfg, tries, kind, bounds>>

\* RolledBack=False, best effort.
MarkFailed(t) ==
  LET n == cur[t].n
      v == WithStatus(n, cur[t].obj.ready, "False")
  IN  /\ pc[t] = "markFailed"
      /\ \/ ~Conflict(t, n) /\ (Write(n, v) \/ WriteFails(n, v))
         \/ Conflict(t, n) /\ Read
      /\ Leave(t, "rbNext")
      /\ UNCHANGED <<cluster, cfg, tries, kind, bounds>>

RollbackStep(t) ==
  \/ RbList(t) \/ RbNext(t) \/ Verify(t) \/ Restore(t) \/ Mark(t)
  \/ MarkFailed(t) \/ RemoveFinalizerGet(t) \/ RemoveFinalizerPatch(t)

(***************************************************************************)
(* captureTSCOriginal and CaptureIfAbsent.  A workload that carries the    *)
(* managed annotation is not captured.  (The lost-snapshot guard of        *)
(* CaptureIfAbsent asks for another annotation, castai-tsc-controller-     *)
(* managed, which nothing sets, so it never holds.)                        *)
(***************************************************************************)
CaptureStart(t, w) ==
  /\ pc[t] = "idle"
  /\ pc[Main(ReplicaOf(t))] = "serving"
  /\ cfg[ReplicaOf(t)].snapshotEnabled
  /\ workloads[w] # Nil
  /\ ~workloads[w].managed
  /\ pc'  = [pc EXCEPT ![t] = "capGet"]
  /\ cur' = [cur EXCEPT ![t] =
               [n   |-> <<w, workloads[w].uid>>,
                obj |-> [tscs |-> workloads[w].tscs, ready |-> FALSE,
                         rolledBack |-> "Unknown", fin |-> FALSE,
                         deleting |-> FALSE]]]
  /\ Read
  /\ UNCHANGED <<cluster, cfg, todo, tries, kind, bounds>>

CapGet(t) ==
  LET s == snaps[cur[t].n]
  IN  /\ pc[t] = "capGet"
      /\ \/ ReadFails /\ Leave(t, "idle")
         \/ /\ s # Nil /\ s.ready /\ ~IsRolledBack(s)
            /\ Read /\ Leave(t, "idle")
         \/ s # Nil /\ IsRolledBack(s) /\ Read /\ Goto(t, "capDelete")
         \/ /\ s # Nil /\ ~s.ready /\ ~IsRolledBack(s)       \* partial
            /\ Read /\ Goto(t, "capCreate")
         \/ s = Nil /\ Read /\ Goto(t, "capCreate")
      /\ UNCHANGED <<cluster, cfg, tries, kind, bounds>>

\* Delete, where NotFound counts as success.
DeleteSnap(n) ==
  IF snaps[n] = Nil THEN Read ELSE Write(n, Deleted(snaps[n]))
DeleteSnapFails(n) ==
  IF snaps[n] = Nil THEN ReadFails ELSE WriteFails(n, Deleted(snaps[n]))

CapDelete(t) ==
  /\ pc[t] = "capDelete"
  /\ \/ DeleteSnap(cur[t].n) /\ Goto(t, "capCreate")
     \/ DeleteSnapFails(cur[t].n) /\ Leave(t, "idle")
  /\ UNCHANGED <<cluster, cfg, tries, kind, bounds>>

\* The object names the workload's namespace, the request the operator's: the
\* server rejects it unless they are the same.  AlreadyExists is success.
CapCreate(t) ==
  LET n == cur[t].n
  IN  /\ pc[t] = "capCreate"
      /\ \/ n[1] \notin Local /\ Read /\ Leave(t, "idle")
         \/ ReadFails /\ Leave(t, "idle")
         \/ n[1] \in Local /\ snaps[n] # Nil /\ Read /\ Leave(t, "idle")
         \/ /\ n[1] \in Local /\ snaps[n] = Nil
            /\ Write(n, cur[t].obj) /\ Goto(t, "capFinGet")
         \/ /\ n[1] \in Local /\ snaps[n] = Nil
            /\ Store(n, cur[t].obj) /\ Fault /\ Leave(t, "idle")
      /\ UNCHANGED <<cluster, cfg, tries, kind, bounds>>

\* AddFinalizer: Get and a merge patch.
CapFinGet(t) ==
  LET s == snaps[cur[t].n]
  IN  /\ pc[t] = "capFinGet"
      /\ \/ ReadFails /\ Goto(t, "capCleanup")
         \/ s = Nil /\ Read /\ Goto(t, "capCleanup")
         \/ s # Nil /\ s.fin /\ Read /\ Goto(t, "capReadyGet")
         \/ s # Nil /\ ~s.fin /\ Read /\ Goto(t, "capFinPatch")
      /\ tries' = [tries EXCEPT ![t] = RetrySteps]
      /\ UNCHANGED <<cluster, cfg, kind, bounds>>

\* A mutated form: the error is dropped and the snapshot completed.
AfterFinalizerUnchecked(err) == "capReadyGet"

AfterFinalizer(err) == IF err THEN "capCleanup" ELSE "capReadyGet"

CapFinPatch(t) ==
  LET n == cur[t].n
      v == [snaps[n] EXCEPT !.fin = TRUE]
  IN  /\ pc[t] = "capFinPatch"
      /\ \/ snaps[n] # Nil /\ Write(n, v) /\ Goto(t, AfterFinalizer(FALSE))
         \/ snaps[n] # Nil /\ WriteFails(n, v) /\ Goto(t, AfterFinalizer(TRUE))
         \/ snaps[n] = Nil /\ Read /\ Goto(t, AfterFinalizer(TRUE))
      /\ UNCHANGED <<cluster, cfg, tries, kind, bounds>>

\* Ready=True, with RetryOnConflict around a Get and an UpdateStatus.
CapReadyGet(t) ==
  LET n == cur[t].n
  IN  /\ pc[t] = "capReadyGet"
      /\ \/ /\ snaps[n] # Nil
            /\ cur'   = [cur EXCEPT ![t] = Copy(n)]
            /\ pc'    = [pc EXCEPT ![t] = "capReady"]
            /\ fresh' = fresh \cup {<<t, n>>}
            /\ UNCHANGED <<snaps, todo, faults>>
         \/ snaps[n] = Nil /\ Read /\ Goto(t, "capCleanup")
         \/ ReadFails /\ Goto(t, "capCleanup")
      /\ UNCHANGED <<cluster, cfg, tries, kind, bounds>>

CapReady(t) ==
  LET n == cur[t].n
      v == WithStatus(n, TRUE, cur[t].obj.rolledBack)
  IN  /\ pc[t] = "capReady"
      /\ tries' = [tries EXCEPT ![t] = @ - 1]
      /\ \/ ~Conflict(t, n) /\ Write(n, v) /\ Leave(t, "idle")
         \/ ~Conflict(t, n) /\ WriteFails(n, v) /\ Goto(t, "capCleanup")
         \/ /\ Conflict(t, n) /\ snaps[n] = Nil
            /\ Read /\ Goto(t, "capCleanup")
         \/ /\ Conflict(t, n) /\ snaps[n] # Nil /\ tries[t] > 1
            /\ Read /\ Goto(t, "capReadyGet")
         \/ /\ Conflict(t, n) /\ snaps[n] # Nil /\ tries[t] = 1
            /\ Read /\ Goto(t, "capCleanup")
      /\ UNCHANGED <<cluster, cfg, kind, bounds>>

CapCleanup(t) ==
  /\ pc[t] = "capCleanup"
  /\ DeleteSnap(cur[t].n) \/ DeleteSnapFails(cur[t].n)
  /\ Leave(t, "idle")
  /\ UNCHANGED <<cluster, cfg, tries, kind, bounds>>

CaptureStep(t) ==
  \/ CapGet(t) \/ CapDelete(t) \/ CapCreate(t) \/ CapFinGet(t)
  \/ CapFinPatch(t) \/ CapReadyGet(t) \/ CapReady(t) \/ CapCleanup(t)

(***************************************************************************)
(* A replica dies; its pod is restarted.  What users do.                   *)
(***************************************************************************)
Crash(r) ==
  LET mine == {t \in Thread : ReplicaOf(t) = r}
  IN  /\ cfg[r] # Nil
      /\ crashes < MaxCrashes
      /\ crashes' = crashes + 1
      /\ cfg'   = [cfg EXCEPT ![r] = Nil]
      /\ pc'    = [t \in Thread |-> IF t \in mine THEN InitPC(t) ELSE pc[t]]
      /\ todo'  = [t \in Thread |-> IF t \in mine THEN {} ELSE todo[t]]
      /\ cur'   = [t \in Thread |-> IF t \in mine THEN Nil ELSE cur[t]]
      /\ fresh' = {c \in fresh : c[1] \notin mine}
      /\ UNCHANGED <<cluster, snaps, tries, kind, changes, faults>>

User == changes < MaxChanges /\ changes' = changes + 1
local == <<cfg, pc, todo, cur, tries, kind, faults, crashes>>

ChangeConfigMap(cm) ==
  /\ User
  /\ cm # configMap
  /\ configMap' = cm
  /\ UNCHANGED <<workloads, snaps, lastUid, fresh, local>>

EditTSCs(w, v) ==
  /\ User
  /\ workloads[w] # Nil
  /\ workloads[w].tscs # v
  /\ workloads' = [workloads EXCEPT ![w].tscs = v]
  /\ UNCHANGED <<snaps, configMap, lastUid, fresh, local>>

DeleteWorkload(w) ==
  /\ User
  /\ workloads[w] # Nil
  /\ workloads' = [workloads EXCEPT ![w] = Nil]
  /\ UNCHANGED <<snaps, configMap, lastUid, fresh, local>>

\* A new workload, or one with the name of a former one: a new uid.
CreateWorkload(w, v) ==
  /\ User
  /\ workloads[w] = Nil
  /\ lastUid[w] < MaxUid
  /\ lastUid'   = [lastUid EXCEPT ![w] = @ + 1]
  /\ workloads' = [workloads EXCEPT ![w] =
                     [uid |-> lastUid'[w], tscs |-> v, managed |-> FALSE]]
  /\ UNCHANGED <<snaps, configMap, fresh, local>>

\* kubectl delete tscoriginal
DeleteSnapshot(n) ==
  /\ User
  /\ snaps[n] # Nil
  /\ ~snaps[n].deleting
  /\ Store(n, Deleted(snaps[n]))
  /\ UNCHANGED <<workloads, configMap, lastUid, local>>

UserStep ==
  \/ \E cm \in ConfigMaps : ChangeConfigMap(cm)
  \/ \E w \in Workload, v \in Edits : EditTSCs(w, v) \/ CreateWorkload(w, v)
  \/ \E w \in Workload : DeleteWorkload(w)
  \/ \E n \in SnapName : DeleteSnapshot(n)

(***************************************************************************)
(* The specification.                                                      *)
(***************************************************************************)
Init ==
  /\ \E c \in InitClusters :
       /\ workloads = c.workloads
       /\ snaps     = c.snaps
       /\ lastUid   = c.lastUid
  /\ configMap = InitConfigMap
  /\ cfg   = [r \in Replica |-> Nil]
  /\ pc    = [t \in Thread |-> InitPC(t)]
  /\ todo  = [t \in Thread |-> {}]
  /\ cur   = [t \in Thread |-> Nil]
  /\ tries = [t \in Thread |-> RetrySteps]
  /\ kind  = [r \in Replica |-> "Deployment"]
  /\ fresh = {}
  /\ changes = 0 /\ faults = 0 /\ crashes = 0

MainStep(r) ==
  \/ Boot(r) \/ OrphanList(r) \/ Orphan(r) \/ ManagedList(r)
  \/ Managed(r) \/ Strip(r)
  \/ RemoveFinalizerGet(Main(r)) \/ RemoveFinalizerPatch(Main(r))

Next ==
  \/ \E r \in Replica : \/ MainStep(r)
                        \/ onConfigMapEvent(r)
                        \/ RollbackStep(Rollback(r))
                        \/ Crash(r)
  \/ \E t \in Capturers : \/ CaptureStep(t)
                          \/ \E w \in Workload : CaptureStart(t, w)
  \/ UserStep

Spec == Init /\ [][Next]_vars

\* A ConfigMap event whose Get succeeds.
Reloaded(r) == configMap # Nil /\ onConfigMapEvent(r) /\ UNCHANGED faults

\* Pods are restarted, goroutines run, and the informer reports a ConfigMap
\* that exists at least at every resync.  Nothing makes a call fail.
Fairness ==
  /\ \A r \in Replica :
       /\ WF_vars(MainStep(r))
       /\ WF_vars(Reloaded(r))
       /\ WF_vars(RollbackStep(Rollback(r)))
  /\ \A t \in Capturers : WF_vars(CaptureStep(t))

FairSpec == Spec /\ Fairness

(***************************************************************************)
(* Properties.                                                             *)
(***************************************************************************)
\* What each variable holds; in particular a configuration only has modes the
\* code knows, whatever the ConfigMap says.
TypeOK ==
  /\ workloads \in [Workload -> {Nil} \cup Object]
  /\ snaps \in [SnapName -> {Nil} \cup Snapshot]
  /\ configMap \in {Nil} \cup RawConfig
  /\ lastUid \in [Workload -> 0..MaxUid]
  /\ cfg \in [Replica -> {Nil} \cup Config]
  /\ pc \in [Thread -> Labels]
  /\ todo \in [Thread -> SUBSET Item]
  /\ cur \in [Thread -> {Nil} \cup Item]
  /\ tries \in [Thread -> 0..RetrySteps]
  /\ kind \in [Replica -> Kinds]
  /\ fresh \subseteq Thread \X SnapName
  /\ changes \in 0..MaxChanges
  /\ faults \in 0..MaxFaults
  /\ crashes \in 0..MaxCrashes

\* "Verify a rollback actually happened ... look for RolledBack=True": no
\* workload still carries the injected constraints once its snapshot says it
\* was rolled back, however the patch, the lookups and the status writes of
\* several replicas interleave or fail.
RestoredWhenMarked ==
  \A n \in SnapName :
    snaps[n] # Nil /\ IsRolledBack(snaps[n]) /\ Live(n) =>
      workloads[n[1]].tscs # Injected

\* A snapshot that says RolledBack keeps saying so: neither a replica that
\* failed on an older copy nor a capture that completes late takes it back
\* (a second rollback would overwrite what users changed since).
RolledBackIsFinal ==
  [][\A n \in SnapName :
       snaps[n] # Nil /\ IsRolledBack(snaps[n]) /\ snaps'[n] # Nil =>
         IsRolledBack(snaps'[n])]_vars

\* The finalizer keeps the rollback data as long as they are needed: it goes
\* only from a snapshot that was rolled back or whose workload is gone.
FinalizerGuards ==
  [][\A n \in SnapName :
       /\ snaps[n] # Nil /\ snaps[n].fin
       /\ snaps'[n] = Nil \/ ~snaps'[n].fin
       => IsRolledBack(snaps[n]) \/ ~Live(n)]_vars

\* reconcileManagedAnnotations strips the annotation only from workloads
\* whose snapshot is missing.
StripsOnlyLost ==
  [][\A w \in Workload :
       /\ workloads[w] # Nil /\ workloads[w].managed
       /\ workloads'[w] # Nil /\ ~workloads'[w].managed
       => snaps[<<w, workloads[w].uid>>] = Nil]_vars

\* A complete snapshot of a live workload is protected by the finalizer until
\* it has been rolled back.
ReadyGuarded ==
  \A n \in SnapName :
    snaps[n] # Nil /\ snaps[n].ready /\ ~IsRolledBack(snaps[n]) /\ Live(n) =>
      snaps[n].fin

Disabled ==
  /\ configMap # Nil
  /\ ~LoadedConfig(configMap).managementEnabled
  /\ LoadedConfig(configMap).rollbackOnDisable
Enabled(r)  == pc[Main(r)] = "serving" /\ cfg[r].managementEnabled
AllRestored ==
  \A n \in SnapName :
    snaps[n] # Nil /\ ~snaps[n].deleting /\ Live(n) => IsRolledBack(snaps[n])

\* Runbook 2.2: disabling with rollbackOnDisable set rolls every snapshot
\* back, if a replica that saw management enabled stays up, no call fails and
\* nobody deletes snapshots meanwhile; the other replicas may run the same
\* rollback, or crash, at any time.
RollbackCompletes ==
  \A r \in Replica :
    [](/\ Enabled(r)
       /\ [](Disabled /\ cfg[r] # Nil /\ faults = 0)
       => <>AllRestored)

\* Runbook 6.2: after a crash "the rollback will re-fire on the next
\* ConfigMap transition or on restart".
RollbackSurvivesRestart ==
  \A r \in Replica :
    [](Enabled(r) /\ [](Disabled /\ faults = 0) => <>AllRestored)

\* reconcileOrphanedSnapshots removes the finalizer of "any TSCOriginal whose
\* target workload is missing or has a different UID".
OrphansReleased ==
  \A n \in SnapName, r \in Replica :
    (/\ pc[Main(r)] = "down"
     /\ snaps[n] # Nil /\ ~IsRolledBack(snaps[n]) /\ ~Live(n))
      ~> (snaps[n] = Nil \/ ~snaps[n].fin)

(***************************************************************************)
(* What each thread may rely on between its steps.  Capture and rollback   *)
(* of one workload disturb each other in ways no release meets: this one   *)
(* only rolls back (captureTSCOriginal has no caller), and a release that  *)
(* captures is asked to roll back only when capture is switched off.       *)
(***************************************************************************)
RollbackOnly == Capturers = {}
CaptureOnly ==
  \A cm \in ConfigMaps \cup {InitConfigMap, Nil} :
    LoadedConfig(cm).managementEnabled \/ ~LoadedConfig(cm).rollbackOnDisable

\* At first every workload that carries the injected constraints has its
\* annotation and its snapshot.
NothingLost ==
  \A c \in InitClusters, w \in Workload :
    LET o == c.workloads[w]
    IN  o # Nil /\ o.tscs = Injected =>
          /\ o.managed
          /\ LET s == c.snaps[<<w, o.uid>>]
             IN  s # Nil /\ s.fin /\ s.rolledBack # "True"

Apart          == RollbackOnly \/ CaptureOnly
OriginalsKnown == RollbackOnly \/ NothingLost

Existing(n) == n[2] <= lastUid[n[1]]
Settled(n)  == Live(n) => workloads[n[1]].tscs # Injected
Finished(n) == snaps[n] # Nil /\ Live(n) => IsRolledBack(snaps[n])
Tracked(n)  == Live(n) /\ workloads[n[1]].managed
Guarded(n)  == snaps[n] # Nil /\ snaps[n].fin

\* An object with the resourceVersion of the copy is the copy.
Current(t, i) == <<t, i.n>> \in fresh => snaps[i.n] = i.obj

Holds(t) == cur[t] \in Item /\ Existing(cur[t].n)

\* The sweeps: a finalizer goes only from a snapshot whose workload will not
\* come back, an annotation only from a workload without a snapshot, and a
\* workload that still has it is the one that was listed.
ListedAlive(n) ==
  LET w == n[1]
  IN  workloads[w] # Nil /\ workloads[w].managed => workloads[w].uid = n[2]

MainOK(t) ==
  /\ pc[t] \in {"down", "orphanList", "orphan", "managedList", "managed",
                "strip", "serving", "rfGet", "rfPatch"}
  /\ \A i \in todo[t] : Existing(i.n)
  /\ pc[t] \in {"managed", "strip"} => \A i \in todo[t] : ListedAlive(i.n)
  /\ pc[t] \in {"rfGet", "rfPatch"} => Holds(t) /\ ~Live(cur[t].n)
  /\ pc[t] = "strip" =>
       /\ Holds(t)
       /\ ListedAlive(cur[t].n)
       /\ Tracked(cur[t].n) => snaps[cur[t].n] = Nil

\* The rollback: it works on copies of snapshots that are not rolled back,
\* says so only of workloads that are clean or gone, and drops finalizers
\* only after that.
Candidate(t, i) ==
  /\ Existing(i.n)
  /\ i.obj \in Snapshot
  /\ ~IsRolledBack(i.obj)
  /\ OriginalsKnown => i.obj.tscs # Injected
  /\ Current(t, i)

RollbackOK(t) ==
  /\ pc[t] \in {"idle", "rbList", "rbNext", "verify", "restore", "markGone",
                "markDone", "markFailed", "rfGet", "rfPatch"}
  /\ CaptureOnly => pc[t] = "idle"
  /\ \A i \in todo[t] : Candidate(t, i)
  /\ pc[t] \in {"verify", "restore", "markGone", "markDone", "markFailed"} =>
       Holds(t) /\ Candidate(t, cur[t])
  /\ pc[t] \in {"markGone", "markDone", "rfGet", "rfPatch"} =>
       Holds(t) /\ (OriginalsKnown => Settled(cur[t].n))
  /\ pc[t] \in {"rfGet", "rfPatch"} => (RollbackOnly => Finished(cur[t].n))

\* The capture: of workloads that are not managed, complete only with a
\* finalizer.
CaptureOK(t) ==
  /\ pc[t] \in {"idle", "capGet", "capDelete", "capCreate", "capFinGet",
                "capFinPatch", "capReadyGet", "capReady", "capCleanup"}
  /\ pc[t] # "idle" => Holds(t) /\ ~Tracked(cur[t].n)
  /\ pc[t] \in {"capGet", "capDelete", "capCreate"} =>
       LET s == cur[t].obj
       IN  /\ s \in Snapshot
           /\ ~s.fin /\ ~s.ready /\ s.rolledBack = "Unknown"
           /\ OriginalsKnown => s.tscs # Injected
  /\ pc[t] \in {"capReadyGet", "capReady"} =>
       (CaptureOnly /\ Live(cur[t].n) => Guarded(cur[t].n))
  /\ pc[t] = "capReady" => cur[t].obj \in Snapshot /\ Current(t, cur[t])
  /\ pc[t] \in {"capFinPatch", "capReadyGet", "capReady"} => tries[t] >= 1

ThreadOK(t) ==
  /\ t[1] = "main"     => MainOK(t)
  /\ t[1] = "rollback" => RollbackOK(t)
  /\ t[1] = "capture"  => CaptureOK(t)

\* Whatever the other threads, replicas and users do between two API calls of
\* a thread, what it found out before and acts on is still true.
ThreadsConsistent == \A t \in Thread : ThreadOK(t)

\* The cluster: uids are not reused, a snapshot never records the injected
\* value, and a workload that carries it keeps its guarded snapshot.
ClusterOK ==
  /\ configMap \in ConfigMaps \cup {InitConfigMap}
  /\ \A w \in Workload : workloads[w] # Nil => workloads[w].uid = lastUid[w]
  /\ \A n \in SnapName : snaps[n] # Nil => Existing(n)
  /\ OriginalsKnown =>
       \A n \in SnapName : snaps[n] # Nil => snaps[n].tscs # Injected
  /\ NothingLost =>
       \A w \in Workload :
         workloads[w] # Nil /\ workloads[w].tscs = Injected =>
           LET n == <<w, workloads[w].uid>>
           IN  /\ workloads[w].managed
               /\ Guarded(n)
               /\ ~IsRolledBack(snaps[n])
  /\ OriginalsKnown \/ CaptureOnly => RestoredWhenMarked
  /\ Apart => ReadyGuarded

IInv == TypeOK /\ ThreadsConsistent /\ ClusterOK

(***************************************************************************)
(* The contract of RollbackContract, read off the cluster.                 *)
(***************************************************************************)
RecordOf(n) ==
  IF snaps[n] = Nil THEN "absent"
  ELSE IF IsRolledBack(snaps[n]) THEN "rolledBack" ELSE "kept"

TargetOf(n) ==
  IF ~Live(n) THEN "gone"
  ELSE IF workloads[n[1]].tscs = Injected THEN "injected" ELSE "clean"

Contract == INSTANCE RollbackContract WITH
  Snapshots <- SnapName,
  record    <- [n \in SnapName |-> RecordOf(n)],
  guard     <- [n \in SnapName |-> snaps[n] # Nil /\ snaps[n].fin],
  target    <- [n \in SnapName |-> TargetOf(n)]

\* Replicas that run the same rollback, crash, and lose calls, captures and
\* sweeps: every step is one the contract allows, or changes nothing in it.
KeepsContract == Contract!Spec
=============================================================================
