---------------------------- MODULE PDBController ----------------------------
(***************************************************************************)
(* The CAST AI PDB controller: one elected leader that keeps a             *)
(* PodDisruptionBudget castai-<workload>-pdb for every Deployment and      *)
(* StatefulSet that should have one.                                       *)
(*                                                                         *)
(* The leader runs concurrent goroutines, the tasks below.  Each works on  *)
(* objects it read earlier (an informer event, a List) and makes one API   *)
(* call at a time; one action of a task is one API call together with the  *)
(* local decisions that follow it, and anything may happen in between.     *)
(*                                                                         *)
(* One namespace is modelled: no decision looks across namespaces.         *)
(***************************************************************************)
EXTENDS PDBRules, Sequences

CONSTANTS
  Label,            \* pod labels, pairs <<key, value>>
  Workload,         \* set of [kind, name] records, kind "deploy" or "sts"
  WorkloadSel,      \* Workload -> its immutable spec.selector
  Versions,         \* Workload -> the object versions users give it
  ForeignPDB,       \* PDB names <<"helm", x>> (castai-x) and <<"user", x>>
  UserWrites,       \* <<name, pdb or Nil>>: what users do to PDBs themselves
  ConfigMaps,       \* contents users give the ConfigMap; Nil = it is absent
  InitWorkloads, InitPDBs, InitConfigMap,  \* the cluster at installation
  Active,           \* the tasks that run in this instance
  RecheckAttempts,  \* pdbRaceRecheckAttempts
  MaxChanges,       \* bound: what users do
  MaxFaults         \* bound: API errors and leader crashes

(***************************************************************************)
(* The shapes of the data.                                                 *)
(***************************************************************************)
LabelKey == {l[1] : l \in Label}
RawOrNil == {Nil} \cup Raw
QtyOrNil == {Nil} \cup Quantity
Annotation ==
  [min : RawOrNil, max : RawOrNil, policy : {Nil} \cup RawPolicy]
Object ==
  [rep : Nat, ready : BOOLEAN, bypass : BOOLEAN, ann : Annotation,
   tmpl : SUBSET Label]
PDB ==
  [sel : {Nil} \cup SUBSET Label, min : QtyOrNil, max : QtyOrNil,
   policy : {Nil} \cup Policy]
Pattern == [type : {"empty", "bad", "regex"}, matches : SUBSET Workload]
Rule    == [namespaceRegex : Pattern, nameRegex : Pattern, labels : Pattern]
RawConfig ==
  [min : RawOrNil, max : RawOrNil, policy : {Nil} \cup RawPolicy,
   fixPoor : BOOLEAN, extraKeys : SUBSET LabelKey, exclusions : SUBSET Rule]
Config ==
  [min : QtyOrNil, max : QtyOrNil, policy : {Nil} \cup Policy,
   fixPoor : BOOLEAN, extraKeys : SUBSET LabelKey, exclusions : SUBSET Rule]

VARIABLES
  workloads, pdbs, configMap,          \* the API server
  leader, cfg, queue, cmQueue,         \* the leader and its informers
  pc, job, iter, fresh,                \* its tasks
  changes, faults                      \* counters behind the bounds

api    == <<workloads, configMap>>
infor  == <<leader, cfg, queue, cmQueue>>
vars   == <<workloads, pdbs, configMap, leader, cfg, queue, cmQueue,
            pc, job, iter, fresh, changes, faults>>

(***************************************************************************)
(* Names.  A PDB is the controller's own by its name alone.                *)
(***************************************************************************)
Kinds             == {"deploy", "sts"}
CastaiPDB(name)   == <<"castai", name>>
PDBName           == {CastaiPDB(w.name) : w \in Workload} \cup ForeignPDB
isControllerOwnedPDB(p) == p[1] = "castai"
isCastaiHelmStylePDB(p) == p[1] = "helm"

\* What the proofs and the runs assume of the constants: users and the
\* installation provide well-formed objects, the PDBs among them with budgets
\* the API server accepts, a workload's template matches its own selector
\* (the API server insists), Nil is none of them.
ASSUME ConstantsAssumption ==
  /\ Workload \subseteq [kind : Kinds, name : {w.name : w \in Workload}]
  /\ WorkloadSel \in [Workload -> SUBSET Label]
  /\ Versions \in [Workload -> SUBSET Object]
  /\ \A w \in Workload : \A o \in Versions[w] : WorkloadSel[w] \subseteq o.tmpl
  /\ \A p \in ForeignPDB : p[1] \in {"helm", "user"}
  /\ UserWrites \subseteq PDBName \X ({Nil} \cup PDB)
  /\ ConfigMaps \subseteq {Nil} \cup RawConfig
  /\ InitConfigMap \in {Nil} \cup RawConfig
  /\ \A v \in InitWorkloads : \A w \in Workload : v[w] \in Versions[w] \cup {Nil}
  /\ InitWorkloads \subseteq [Workload -> {Nil} \cup Object]
  /\ InitPDBs \subseteq [PDBName -> {Nil} \cup PDB]
  /\ \A u \in UserWrites : u[2] # Nil => ValidBudget(u[2])
  /\ \A v \in InitPDBs : \A p \in PDBName : v[p] # Nil => ValidBudget(v[p])
  /\ Active \subseteq {"deploy", "sts", "reconcile", "gc", "scanOnce", "scanTick"}
  /\ RecheckAttempts \in Nat \ {0}
  /\ MaxChanges \in Nat
  /\ MaxFaults \in Nat

ASSUME NilAssumption ==
  /\ \A s \in SUBSET Label : s # Nil
  /\ Nil \notin PDB

(***************************************************************************)
(* Tasks: the two informer handlers, the goroutines a ConfigMap event      *)
(* starts (reconcile, scanOnce; the latter also at start-up), and the scan *)
(* and garbage collection tickers.                                         *)
(*                                                                         *)
(* job[t] is what createPDBForWorkload and the functions it calls hold in  *)
(* local variables; iter[t] is the loop around it, and iter[t].loop is     *)
(* where the task goes when the job is done.  createPDBForWorkload,        *)
(* updateExistingPDB and logAndFixPoorPDBConfig call each other only in    *)
(* tail position, so a job needs no stack.                                 *)
(*                                                                         *)
(* fresh is the set of tasks whose job[t].pdb still has the                *)
(* resourceVersion of the stored PDB: any write to it ends that.           *)
(***************************************************************************)
Scanner == {"scanOnce", "scanTick"}
Task    == Kinds \cup {"reconcile", "gc"} \cup Scanner

NoJob  == [key |-> Nil, obj |-> Nil, sel |-> Nil, name |-> Nil, pdb |-> Nil,
           n |-> 0]
NoIter == [loop |-> "idle", kind |-> "deploy", todo |-> {}, pdbl |-> {},
           cur |-> Nil, names |-> {}]

Goto(t, label) == pc' = [pc EXCEPT ![t] = label]

\* The job returns to the loop around it.
Done(t) ==
  /\ Goto(t, iter[t].loop)
  /\ job' = [job EXCEPT ![t] = NoJob]

\* The goroutine, or one round of a ticker, ends.
Finish(t) ==
  /\ Goto(t, "idle")
  /\ job'  = [job EXCEPT ![t] = NoJob]
  /\ iter' = [iter EXCEPT ![t] = NoIter]

(***************************************************************************)
(* API calls.  A failed write may or may not have been applied.            *)
(***************************************************************************)
Store(t, p, v) ==
  /\ pdbs'  = [pdbs EXCEPT ![p] = v]
  /\ fresh' = {u \in fresh \ {t} : job[u].name # p}

Fault == faults < MaxFaults /\ faults' = faults + 1

ReadOnly(t)     == fresh' = fresh \ {t} /\ UNCHANGED <<pdbs, faults>>
ReadFails(t)    == Fault /\ fresh' = fresh \ {t} /\ UNCHANGED pdbs
Write(t, p, v)  == Store(t, p, v) /\ UNCHANGED faults
Delete(t, p)    == Write(t, p, Nil)
WriteFails(t, p, v) ==
  /\ Fault
  /\ \/ Store(t, p, v)
     \/ fresh' = fresh \ {t} /\ UNCHANGED pdbs
DeleteFails(t, p) == WriteFails(t, p, Nil)

\* The PDBs that a List returns and that cover the template.
Covering(tmpl) == {p \in PDBName : pdbCovers(pdbs[p], tmpl)}

(***************************************************************************)
(* createPDBForWorkload.                                                   *)
(***************************************************************************)
\* Under-replicated: delete and stop.  Otherwise bypass and exclusion stop.
Start(t) ==
  LET w == job[t].key
      o == job[t].obj
      p == CastaiPDB(w.name)
  IN  /\ pc[t] = "start"
      /\ \/ /\ UnderReplicated(o)
            /\ Delete(t, p) \/ DeleteFails(t, p)
            /\ Done(t)
         \/ /\ ~UnderReplicated(o)
            /\ o.bypass \/ isWorkloadExcluded(w, cfg)
            /\ ReadOnly(t)
            /\ Done(t)
         \/ /\ ~UnderReplicated(o)
            /\ ~o.bypass
            /\ ~isWorkloadExcluded(w, cfg)
            /\ ReadOnly(t)
            /\ Goto(t, "list")
            /\ job' = [job EXCEPT ![t].sel =
                         enrichSelector(WorkloadSel[w], o.tmpl, cfg.extraKeys)]
      /\ UNCHANGED <<api, infor, iter, changes>>

\* Which of the covering controller-owned PDBs is updated: the first in list
\* order, replaced by the first exact match.
Preferred(covering, sel) ==
  LET own   == {p \in covering : isControllerOwnedPDB(p)}
      exact == {p \in own : pdbs[p].sel = sel}
  IN  IF exact # {} THEN exact ELSE own

\* Mutated forms of Leftovers: every covering PDB, the Helm one included; and
\* an off-by-one that lets a pair pass.
LeftoversOfAnyOwner(covering) ==
  IF \E p \in covering : isCastaiHelmStylePDB(p) THEN covering ELSE {}
LeftoversOfThree(covering) ==
  IF Cardinality(covering) > 2 /\ \E p \in covering : isCastaiHelmStylePDB(p)
  THEN {p \in covering : isControllerOwnedPDB(p)}
  ELSE {}

\* Controller-owned leftovers, when a CAST Helm PDB covers the workload too.
Leftovers(covering) ==
  IF \E p \in covering : isCastaiHelmStylePDB(p)
  THEN {p \in covering : isControllerOwnedPDB(p)}
  ELSE {}

List(t) ==
  LET o         == job[t].obj
      covering  == Covering(o.tmpl)
      foreign   == {p \in covering : ~isControllerOwnedPDB(p)}
      leftovers == Leftovers(covering)
  IN  /\ pc[t] = "list"
      /\ \/ /\ ReadFails(t)                          \* fail closed
            /\ Done(t)
            /\ UNCHANGED iter
         \/ /\ foreign # {}
            /\ leftovers = {}
            /\ ReadOnly(t)
            /\ Done(t)
            /\ UNCHANGED iter
         \/ /\ foreign # {}
            /\ leftovers # {}
            /\ ReadOnly(t)
            /\ Goto(t, "cleanup")
            /\ job'  = [job EXCEPT ![t] = NoJob]
            /\ iter' = [iter EXCEPT ![t].names = leftovers]
         \/ /\ foreign = {}
            /\ \E p \in Preferred(covering, job[t].sel) :
                 job' = [job EXCEPT ![t].name = p, ![t].pdb = pdbs[p]]
            /\ fresh' = fresh \cup {t}
            /\ Goto(t, "resolveUpdate")
            /\ UNCHANGED <<pdbs, faults, iter>>
         \/ /\ covering = {}
            /\ ~workloadReadyForNewPDB(o)
            /\ ReadOnly(t)
            /\ Done(t)
            /\ UNCHANGED iter
         \/ /\ covering = {}
            /\ workloadReadyForNewPDB(o)
            /\ ReadOnly(t)
            /\ Goto(t, "recheck")
            /\ job' = [job EXCEPT ![t].n = RecheckAttempts]
            /\ UNCHANGED iter
      /\ UNCHANGED <<api, infor, changes>>

\* The bounded re-list: a failed List counts as an attempt and is not fatal.
Recheck(t) ==
  LET o    == job[t].obj
      next == IF job[t].n = 1 THEN "get" ELSE "recheck"
  IN  /\ pc[t] = "recheck"
      /\ \/ /\ Covering(o.tmpl) # {}
            /\ ReadOnly(t)
            /\ Done(t)
         \/ /\ Covering(o.tmpl) = {}
            /\ ReadOnly(t)
            /\ Goto(t, next)
            /\ job' = [job EXCEPT ![t].n = @ - 1]
         \/ /\ ReadFails(t)
            /\ Goto(t, next)
            /\ job' = [job EXCEPT ![t].n = @ - 1]
      /\ UNCHANGED <<api, infor, iter, changes>>

Get(t) ==
  LET p == CastaiPDB(job[t].key.name)
  IN  /\ pc[t] = "get"
      /\ \/ /\ ReadFails(t)
            /\ Done(t)
         \/ /\ fresh' = fresh \cup {t}
            /\ Goto(t, "resolveCreate")
            /\ job' = [job EXCEPT ![t].name = p, ![t].pdb = pdbs[p]]
            /\ UNCHANGED <<pdbs, faults>>
      /\ UNCHANGED <<api, infor, iter, changes>>

\* The budget is resolved against the configuration of this moment.
ResolveCreate(t) ==
  LET j == job[t]
      b == CreateBudget(j.obj.ann, cfg)
  IN  /\ pc[t] = "resolveCreate"
      /\ \/ /\ b = Nil                               \* both annotations
            /\ fresh' = fresh \ {t}
            /\ Done(t)
         \/ /\ b # Nil
            /\ j.pdb # Nil
            /\ j.pdb.sel \in {Nil, j.sel}
            /\ ~pdbSpecNeedsUpdate(j.pdb, b)
            /\ fresh' = fresh \ {t}
            /\ Done(t)
         \/ /\ b # Nil
            /\ \/ j.pdb = Nil /\ Goto(t, "create")
               \/ /\ j.pdb # Nil
                  /\ j.pdb.sel \notin {Nil, j.sel}
                  /\ Goto(t, "replace")
               \/ /\ j.pdb # Nil
                  /\ j.pdb.sel \in {Nil, j.sel}
                  /\ pdbSpecNeedsUpdate(j.pdb, b)
                  /\ Goto(t, "update")
            /\ job' = [job EXCEPT ![t].pdb = MakePDB(j.sel, b)]
            /\ UNCHANGED fresh
      /\ UNCHANGED <<api, infor, pdbs, iter, changes, faults>>

\* The selector is considered immutable: delete, wait, fall through to Create.
Replace(t) ==
  /\ pc[t] = "replace"
  /\ \/ Delete(t, job[t].name) /\ Goto(t, "create") /\ UNCHANGED job
     \/ DeleteFails(t, job[t].name) /\ Done(t)
  /\ UNCHANGED <<api, infor, iter, changes>>

(***************************************************************************)
(* logAndFixPoorPDBConfig, run after each successful write and by the      *)
(* scans: a poor PDB is deleted and createPDBForWorkload runs again.       *)
(***************************************************************************)
LogAndFix(t, w, o, p, pdb) ==
  IF cfg.fixPoor /\ isPoorPDBConfig(pdb, o.rep) /\ ~o.bypass
  THEN /\ Goto(t, "fixPoor")
       /\ job' = [job EXCEPT ![t] =
                    [NoJob EXCEPT !.key = w, !.obj = o, !.name = p]]
  ELSE Done(t)

\* waitForPDBDeletion ends by itself, whether or not the PDB is gone.
DeleteThenStart(t, p) ==
  \/ /\ Delete(t, p)
     /\ Goto(t, "start")
     /\ job' = [job EXCEPT ![t].sel = Nil, ![t].name = Nil, ![t].pdb = Nil]
  \/ DeleteFails(t, p) /\ Done(t)

FixPoor(t) ==
  /\ pc[t] = "fixPoor"
  /\ DeleteThenStart(t, job[t].name)
  /\ UNCHANGED <<api, infor, iter, changes>>

\* Refused: AlreadyExists, or Invalid.
Create(t) ==
  LET j       == job[t]
      p       == CastaiPDB(j.key.name)
      refused == pdbs[p] # Nil \/ ~ValidBudget(j.pdb)
  IN  /\ pc[t] = "create"
      /\ \/ refused /\ ReadOnly(t) /\ Done(t)
         \/ /\ ~refused
            /\ Write(t, p, j.pdb)
            /\ LogAndFix(t, j.key, j.obj, p, j.pdb)
         \/ ~refused /\ WriteFails(t, p, j.pdb) /\ Done(t)
      /\ UNCHANGED <<api, infor, iter, changes>>

\* Mutated form of Update: sent without a resourceVersion, so never refused.
UpdateUnconditionally(t) ==
  LET j       == job[t]
      refused == pdbs[j.name] = Nil \/ ~ValidBudget(j.pdb)
  IN  /\ pc[t] = "update"
      /\ \/ refused /\ ReadOnly(t) /\ Done(t)
         \/ /\ ~refused
            /\ Write(t, j.name, j.pdb)
            /\ LogAndFix(t, j.key, j.obj, j.name, j.pdb)
      /\ UNCHANGED <<api, infor, iter, changes>>

\* The API server refuses an Update whose resourceVersion is not current, and
\* a budget it does not accept.
Update(t) ==
  LET j       == job[t]
      refused == t \notin fresh \/ ~ValidBudget(j.pdb)
  IN  /\ pc[t] = "update"
      /\ \/ refused /\ ReadOnly(t) /\ Done(t)
         \/ /\ ~refused
            /\ Write(t, j.name, j.pdb)
            /\ LogAndFix(t, j.key, j.obj, j.name, j.pdb)
         \/ ~refused /\ WriteFails(t, j.name, j.pdb) /\ Done(t)
      /\ UNCHANGED <<api, infor, iter, changes>>

(***************************************************************************)
(* updateExistingPDB: the selector it compares is the PDB's own, enriched. *)
(***************************************************************************)
ResolveUpdate(t) ==
  LET j   == job[t]
      sel == enrichSelector(j.pdb.sel, j.obj.tmpl, cfg.extraKeys)
      b   == UpdateBudget(j.obj.ann, cfg)
  IN  /\ pc[t] = "resolveUpdate"
      /\ \/ /\ sel # j.pdb.sel
            /\ Goto(t, "recreate")
            /\ UNCHANGED <<job, fresh>>
         \/ /\ sel = j.pdb.sel
            /\ pdbSpecNeedsUpdate(j.pdb, b)
            /\ Goto(t, "update")
            /\ job' = [job EXCEPT ![t].pdb = MakePDB(sel, b)]
            /\ UNCHANGED fresh
         \/ /\ sel = j.pdb.sel
            /\ ~pdbSpecNeedsUpdate(j.pdb, b)
            /\ fresh' = fresh \ {t}
            /\ Done(t)
      /\ UNCHANGED <<api, infor, pdbs, iter, changes, faults>>

Recreate(t) ==
  /\ pc[t] = "recreate"
  /\ DeleteThenStart(t, job[t].name)
  /\ UNCHANGED <<api, infor, iter, changes>>

\* deleteLeftoverControllerPDBsForCastaiHelm, one Delete at a time; a failed
\* one is skipped.
Cleanup(t) ==
  /\ pc[t] = "cleanup"
  /\ \E p \in iter[t].names :
       /\ Delete(t, p) \/ DeleteFails(t, p)
       /\ iter' = [iter EXCEPT ![t].names = @ \ {p}]
       /\ IF iter[t].names = {p} THEN Done(t) ELSE UNCHANGED <<pc, job>>
  /\ UNCHANGED <<api, infor, changes>>

CreatePDBForWorkload(t) ==
  \/ Start(t) \/ List(t) \/ Recheck(t) \/ Get(t) \/ ResolveCreate(t)
  \/ Replace(t) \/ Create(t) \/ Update(t) \/ FixPoor(t)
  \/ ResolveUpdate(t) \/ Recreate(t) \/ Cleanup(t)

(***************************************************************************)
(* Informer handlers.  An event is [old, new, tomb]; tomb marks a deletion *)
(* that the informer only learned of from a later list.  queue[w] holds    *)
(* the events of w in order; the order between workloads is left open.     *)
(***************************************************************************)
BypassAdded(e) ==
  /\ e.old # Nil /\ e.new # Nil
  /\ ~e.old.bypass /\ e.new.bypass

\* deletePDBForWorkload, and the first branch of handleWorkloadUpdate.
DeletesPDB(e) == (e.new = Nil /\ ~e.tomb) \/ BypassAdded(e)

\* Mutated form of IgnoresEvent: an update that changes nothing is dropped too.
IgnoresEventAndResync(e) == e.tomb \/ e.old = e.new

\* A tombstone is not a workload; a workload that stays bypassed is left alone.
IgnoresEvent(e) ==
  \/ e.tomb
  \/ e.old # Nil /\ e.new # Nil /\ e.old.bypass /\ e.new.bypass

HandleEvent(w) ==
  LET t == w.kind
      e == Head(queue[w])
      p == CastaiPDB(w.name)
  IN  /\ leader /\ t \in Active
      /\ pc[t] = "idle"
      /\ queue[w] # <<>>
      /\ queue' = [queue EXCEPT ![w] = Tail(@)]
      /\ \/ /\ DeletesPDB(e)
            /\ Delete(t, p) \/ DeleteFails(t, p)
            /\ UNCHANGED <<pc, job>>
         \/ /\ IgnoresEvent(e)
            /\ ReadOnly(t)
            /\ UNCHANGED <<pc, job>>
         \/ /\ ~DeletesPDB(e) /\ ~IgnoresEvent(e)
            /\ ReadOnly(t)
            /\ Goto(t, "start")
            /\ job' = [job EXCEPT ![t] =
                         [NoJob EXCEPT !.key = w, !.obj = e.new]]
      /\ UNCHANGED <<api, leader, cfg, cmQueue, iter, changes>>

\* The informers resync every ten minutes: an update that changes nothing.
Resync(w) ==
  /\ leader
  /\ workloads[w] # Nil
  /\ queue[w] = <<>>
  /\ queue' = [queue EXCEPT ![w] =
                 <<[old |-> workloads[w], new |-> workloads[w],
                    tomb |-> FALSE]>>]
  /\ UNCHANGED <<api, pdbs, leader, cfg, cmQueue, pc, job, iter, fresh,
                 changes, faults>>

(***************************************************************************)
(* watchConfigMap.  An event replaces the configuration and starts two     *)
(* goroutines; bound: one of each at a time.  A deletion only resets.      *)
(***************************************************************************)
HandleConfigMap ==
  LET cm      == Head(cmQueue)
      started == Active \cap {"reconcile", "scanOnce"}
  IN  /\ leader
      /\ cmQueue # <<>>
      /\ cmQueue' = Tail(cmQueue)
      /\ \/ /\ cm = Nil
            /\ cfg' = ResetConfig
            /\ UNCHANGED <<pc, iter>>
         \/ /\ cm # Nil
            /\ \A t \in started : pc[t] = "idle"
            /\ cfg' = ParseConfig(cm)
            /\ pc'  = [t \in Task |-> IF t \notin started THEN pc[t]
                                      ELSE IF t = "reconcile" THEN "recList"
                                      ELSE "scanList"]
            /\ iter' = [t \in Task |-> IF t \notin started THEN iter[t]
                                       ELSE IF t = "reconcile"
                                       THEN [NoIter EXCEPT !.loop = "recNext"]
                                       ELSE [NoIter EXCEPT !.loop = "scanNext"]]
      /\ UNCHANGED <<api, pdbs, leader, queue, job, fresh, changes, faults>>

(***************************************************************************)
(* What a List of Deployments or StatefulSets returns.                     *)
(***************************************************************************)
Listed(kind) ==
  {[key |-> w, obj |-> workloads[w]] :
     w \in {x \in Workload : x.kind = kind /\ workloads[x] # Nil}}

\* One List of workloads; a failed one leaves the loop with nothing to do.
ListWorkloads(t, items, next) ==
  /\ \/ ReadOnly(t) /\ iter' = [iter EXCEPT ![t].todo = items]
     \/ ReadFails(t) /\ iter' = [iter EXCEPT ![t].todo = {}]
  /\ Goto(t, next)
  /\ UNCHANGED job

(***************************************************************************)
(* reconcileAllDefaultPDBs.                                                *)
(***************************************************************************)
UsesDefaults(it) ==
  /\ ~hasCustomPDBAnnotations(it.obj.ann)
  /\ ~it.obj.bypass
  /\ ~UnderReplicated(it.obj)

RecList(t) ==
  /\ pc[t] = "recList"
  /\ \/ ListWorkloads(t, {it \in Listed(iter[t].kind) : UsesDefaults(it)},
                      "recNext")
     \/ iter[t].kind = "deploy" /\ ReadFails(t) /\ Finish(t)  \* namespaces
  /\ UNCHANGED <<api, infor, changes>>

\* workloadHasExistingPDB: excluded counts as covered, and so does an error.
HasExistingPDB(it) ==
  isWorkloadExcluded(it.key, cfg) \/ Covering(it.obj.tmpl) # {}

RecNext(t) ==
  /\ pc[t] = "recNext"
  /\ \/ \E it \in iter[t].todo :
          /\ iter' = [iter EXCEPT ![t].todo = @ \ {it}]
          /\ \/ /\ HasExistingPDB(it)
                /\ ReadOnly(t)
                /\ UNCHANGED <<pc, job>>
             \/ /\ ~isWorkloadExcluded(it.key, cfg)
                /\ ReadFails(t)
                /\ UNCHANGED <<pc, job>>
             \/ /\ ~HasExistingPDB(it)
                /\ ReadOnly(t)
                /\ Goto(t, "start")
                /\ job' = [job EXCEPT ![t] =
                             [NoJob EXCEPT !.key = it.key, !.obj = it.obj]]
     \/ /\ iter[t].todo = {} /\ iter[t].kind = "deploy"
        /\ ReadOnly(t)
        /\ Goto(t, "recList")
        /\ iter' = [iter EXCEPT ![t].kind = "sts"]
        /\ UNCHANGED job
     \/ iter[t].todo = {} /\ iter[t].kind = "sts" /\ ReadOnly(t) /\ Finish(t)
  /\ UNCHANGED <<api, infor, changes>>

(***************************************************************************)
(* scanAllPDBsForPoorConfig: for each listed PDB, the workloads whose own  *)
(* selector equals the PDB's.                                              *)
(***************************************************************************)
\* Mutated form of ListedPDBs: only the controller's own are looked at.
ListedOwnPDBs ==
  {[name |-> p, pdb |-> pdbs[p]] :
     p \in {q \in PDBName : /\ pdbs[q] # Nil /\ pdbs[q].sel # Nil
                            /\ isControllerOwnedPDB(q)}}

ListedPDBs ==
  {[name |-> p, pdb |-> pdbs[p]] :
     p \in {q \in PDBName : pdbs[q] # Nil /\ pdbs[q].sel # Nil}}

\* The periodic scan goes on to scanAllPDBsForMultiplePDBs.
EndScan(t) ==
  IF t = "scanTick"
  THEN /\ Goto(t, "multiList")
       /\ job'  = [job EXCEPT ![t] = NoJob]
       /\ iter' = [iter EXCEPT ![t] = [NoIter EXCEPT !.loop = "multiNext"]]
  ELSE Finish(t)

ScanTick ==
  LET t == "scanTick"
  IN  /\ leader /\ t \in Active
      /\ pc[t] = "idle"
      /\ Goto(t, "scanList")
      /\ iter' = [iter EXCEPT ![t] = [NoIter EXCEPT !.loop = "scanNext"]]
      /\ UNCHANGED <<api, infor, pdbs, job, fresh, changes, faults>>

ScanList(t) ==
  /\ pc[t] = "scanList"
  /\ \/ /\ ReadOnly(t)
        /\ Goto(t, "scanNext")
        /\ iter' = [iter EXCEPT ![t].pdbl = ListedPDBs]
        /\ UNCHANGED job
     \/ ReadFails(t) /\ EndScan(t)
  /\ UNCHANGED <<api, infor, changes>>

ScanObjs(t) ==
  LET sel == iter[t].cur.pdb.sel
  IN  /\ pc[t] = "scanObjs"
      /\ ListWorkloads(t, {it \in Listed(iter[t].kind) :
                             ~it.obj.bypass /\ WorkloadSel[it.key] = sel},
                       "scanNext")
      /\ UNCHANGED <<api, infor, changes>>

ScanNext(t) ==
  LET i == iter[t]
  IN  /\ pc[t] = "scanNext"
      /\ ReadOnly(t)
      /\ \/ \E it \in i.todo :
              /\ iter' = [iter EXCEPT ![t].todo = @ \ {it}]
              /\ LogAndFix(t, it.key, it.obj, i.cur.name, i.cur.pdb)
         \/ /\ i.todo = {} /\ i.cur # Nil /\ i.kind = "deploy"
            /\ iter' = [iter EXCEPT ![t].kind = "sts"]
            /\ Goto(t, "scanObjs")
            /\ UNCHANGED job
         \/ /\ i.todo = {} /\ (i.cur = Nil \/ i.kind = "sts")
            /\ \E c \in i.pdbl :
                 iter' = [iter EXCEPT ![t].cur = c, ![t].kind = "deploy",
                                      ![t].pdbl = @ \ {c}]
            /\ Goto(t, "scanObjs")
            /\ UNCHANGED job
         \/ /\ i.todo = {} /\ (i.cur = Nil \/ i.kind = "sts") /\ i.pdbl = {}
            /\ EndScan(t)
      /\ UNCHANGED <<api, infor, changes>>

(***************************************************************************)
(* scanAllPDBsForMultiplePDBs, on one list of the PDBs.                    *)
(***************************************************************************)
MultiList(t) ==
  /\ pc[t] = "multiList"
  /\ \/ /\ ReadOnly(t)
        /\ Goto(t, "multiObjs")
        /\ iter' = [iter EXCEPT ![t].pdbl = ListedPDBs]
        /\ UNCHANGED job
     \/ ReadFails(t) /\ Finish(t)
  /\ UNCHANGED <<api, infor, changes>>

MultiObjs(t) ==
  /\ pc[t] = "multiObjs"
  /\ ListWorkloads(t, {it \in Listed(iter[t].kind) : ~it.obj.bypass},
                   "multiNext")
  /\ UNCHANGED <<api, infor, changes>>

\* cleanupMultiplePDBsForWorkload: nothing to do for one covering PDB.
MultiNext(t) ==
  LET i == iter[t]
  IN  /\ pc[t] = "multiNext"
      /\ ReadOnly(t)
      /\ \/ \E it \in i.todo :
              LET covering == {c.name : c \in {d \in i.pdbl :
                                         pdbCovers(d.pdb, it.obj.tmpl)}}
              IN  /\ iter' = [iter EXCEPT ![t].todo = @ \ {it},
                                          ![t].names = Leftovers(covering)]
                  /\ Goto(t, IF Leftovers(covering) = {} THEN "multiNext"
                             ELSE "cleanup")
                  /\ UNCHANGED job
         \/ /\ i.todo = {} /\ i.kind = "deploy"
            /\ iter' = [iter EXCEPT ![t].kind = "sts"]
            /\ Goto(t, "multiObjs")
            /\ UNCHANGED job
         \/ i.todo = {} /\ i.kind = "sts" /\ Finish(t)
      /\ UNCHANGED <<api, infor, changes>>

(***************************************************************************)
(* garbageCollectOrphanedPDBs: per listed castai PDB a Get of the          *)
(* Deployment, a Get of the StatefulSet, and perhaps a Delete.             *)
(***************************************************************************)
\* A Get of the workload of that kind and name.
Stored(kind, name) ==
  LET found == {w \in Workload : w.kind = kind /\ w.name = name
                                 /\ workloads[w] # Nil}
  IN  IF found = {} THEN Nil ELSE workloads[CHOOSE w \in found : TRUE]

GcList ==
  LET own == {p \in PDBName : pdbs[p] # Nil /\ isControllerOwnedPDB(p)}
  IN  /\ leader /\ "gc" \in Active
      /\ pc["gc"] = "idle"
      /\ Goto("gc", "gcNext")
      /\ iter' = [iter EXCEPT !["gc"].loop = "gcNext", !["gc"].names = own]
      /\ UNCHANGED <<api, infor, pdbs, job, fresh, changes, faults>>

GcNext ==
  LET t == "gc"
  IN  /\ pc[t] = "gcNext"
      /\ \/ \E p \in iter[t].names :
              /\ iter' = [iter EXCEPT ![t].names = @ \ {p}]
              /\ \/ /\ ReadOnly(t)
                    /\ Goto(t, "gcSts")
                    /\ job' = [job EXCEPT ![t].name = p,
                                          ![t].obj = Stored("deploy", p[2])]
                 \/ ReadFails(t) /\ UNCHANGED <<pc, job>>
         \/ iter[t].names = {} /\ ReadOnly(t) /\ Finish(t)
      /\ UNCHANGED <<api, infor, changes>>

\* Mutated form of GcShouldDelete: a PDB whose workload is gone is kept.
GcShouldDeleteKeepsOrphans(deploy, sts) ==
  IF deploy # Nil THEN UnderReplicated(deploy)
  ELSE sts # Nil /\ UnderReplicated(sts)

\* The Deployment's replicas decide when both exist.
GcShouldDelete(deploy, sts) ==
  IF deploy # Nil THEN UnderReplicated(deploy)
  ELSE sts # Nil => UnderReplicated(sts)

GcSts ==
  LET t      == "gc"
      delete == GcShouldDelete(job[t].obj, Stored("sts", job[t].name[2]))
  IN  /\ pc[t] = "gcSts"
      /\ \/ delete /\ ReadOnly(t) /\ Goto(t, "gcDelete") /\ UNCHANGED job
         \/ ~delete /\ ReadOnly(t) /\ Done(t)
         \/ ReadFails(t) /\ Done(t)
      /\ UNCHANGED <<api, infor, iter, changes>>

GcDelete ==
  LET t == "gc"
  IN  /\ pc[t] = "gcDelete"
      /\ Delete(t, job[t].name) \/ DeleteFails(t, job[t].name)
      /\ Done(t)
      /\ UNCHANGED <<api, infor, iter, changes>>

(***************************************************************************)
(* Leadership.  A new process loads the ConfigMap when it starts, long     *)
(* before it may lead; it watches anything only once it leads.             *)
(***************************************************************************)
ConfigOf(cm) == IF cm = Nil THEN ResetConfig ELSE ParseConfig(cm)

\* The informers deliver an Add for everything that exists.
WorkloadAdds ==
  [w \in Workload |->
     IF workloads[w] = Nil THEN <<>>
     ELSE <<[old |-> Nil, new |-> workloads[w], tomb |-> FALSE]>>]
\* Mutated form of ConfigMapAdds: only later changes are delivered.
ConfigMapAddsNone == <<>>
ConfigMapAdds == IF configMap = Nil THEN <<>> ELSE <<configMap>>

StartLeading ==
  /\ ~leader
  /\ leader' = TRUE
  /\ queue' = WorkloadAdds
  /\ cmQueue' = ConfigMapAdds
  /\ pc' = [t \in Task |-> IF t = "scanOnce" /\ t \in Active THEN "scanList"
                           ELSE "idle"]
  /\ iter' = [t \in Task |-> IF t = "scanOnce" /\ t \in Active
                             THEN [NoIter EXCEPT !.loop = "scanNext"]
                             ELSE NoIter]
  /\ UNCHANGED <<api, pdbs, cfg, job, fresh, changes, faults>>

\* The lease is lost or the process dies (OnStoppedLeading exits): whatever
\* it was doing stops between two API calls.  Its successor's configuration
\* is the ConfigMap of this moment, or the fallback if it cannot be read.
Crash ==
  /\ leader
  /\ Fault
  /\ leader' = FALSE
  /\ cfg' \in {ConfigOf(configMap), ResetConfig}
  /\ queue'   = [w \in Workload |-> <<>>]
  /\ cmQueue' = <<>>
  /\ pc'      = [t \in Task |-> "idle"]
  /\ job'     = [t \in Task |-> NoJob]
  /\ iter'    = [t \in Task |-> NoIter]
  /\ fresh'   = {}
  /\ UNCHANGED <<api, pdbs, changes>>

(***************************************************************************)
(* Users.  A watch event reaches the leader's queue with the change;       *)
(* nobody records a change made while there is no leader.                  *)
(***************************************************************************)
Change == changes < MaxChanges /\ changes' = changes + 1

Notify(w, e) ==
  queue' = [queue EXCEPT ![w] = IF leader THEN Append(@, e) ELSE @]

ChangeWorkload(w) ==
  /\ Change
  /\ \E o \in Versions[w] :
       /\ o # workloads[w]
       /\ workloads' = [workloads EXCEPT ![w] = o]
       /\ Notify(w, [old |-> workloads[w], new |-> o, tomb |-> FALSE])
  /\ UNCHANGED <<pdbs, configMap, leader, cfg, cmQueue, pc, job, iter, fresh,
                 faults>>

DeleteWorkload(w) ==
  /\ Change
  /\ workloads[w] # Nil
  /\ workloads' = [workloads EXCEPT ![w] = Nil]
  /\ \E tomb \in BOOLEAN :
       Notify(w, [old |-> workloads[w], new |-> Nil, tomb |-> tomb])
  /\ UNCHANGED <<pdbs, configMap, leader, cfg, cmQueue, pc, job, iter, fresh,
                 faults>>

ChangePDB(p, v) ==
  /\ Change
  /\ pdbs[p] # v
  /\ pdbs'  = [pdbs EXCEPT ![p] = v]
  /\ fresh' = {u \in fresh : job[u].name # p}
  /\ UNCHANGED <<api, infor, pc, job, iter, faults>>

ChangeConfigMap(cm) ==
  /\ Change
  /\ cm # configMap
  /\ configMap' = cm
  /\ \/ cmQueue' = IF leader THEN Append(cmQueue, cm) ELSE cmQueue
     \/ cm = Nil /\ cmQueue' = cmQueue        \* a tombstone: not handled
  /\ UNCHANGED <<workloads, pdbs, leader, cfg, queue, pc, job, iter, fresh,
                 faults>>

(***************************************************************************)
(* The specification.                                                      *)
(***************************************************************************)
Init ==
  /\ workloads \in InitWorkloads
  /\ pdbs \in InitPDBs
  /\ configMap = InitConfigMap
  /\ leader = FALSE
  /\ cfg = ConfigOf(InitConfigMap)
  /\ queue = [w \in Workload |-> <<>>]
  /\ cmQueue = <<>>
  /\ pc = [t \in Task |-> "idle"]
  /\ job = [t \in Task |-> NoJob]
  /\ iter = [t \in Task |-> NoIter]
  /\ fresh = {}
  /\ changes = 0
  /\ faults = 0

TaskStep(t) ==
  \/ CreatePDBForWorkload(t)
  \/ t = "reconcile" /\ (RecList(t) \/ RecNext(t))
  \/ t \in Scanner /\ (ScanList(t) \/ ScanObjs(t) \/ ScanNext(t))
  \/ t = "scanTick" /\ (MultiList(t) \/ MultiObjs(t) \/ MultiNext(t))
  \/ t = "gc" /\ (GcNext \/ GcSts \/ GcDelete)

UserStep ==
  \/ \E w \in Workload : ChangeWorkload(w) \/ DeleteWorkload(w)
  \/ \E u \in UserWrites : ChangePDB(u[1], u[2])
  \/ \E cm \in ConfigMaps : ChangeConfigMap(cm)

Next ==
  \/ \E t \in Active : TaskStep(t)
  \/ \E w \in Workload : HandleEvent(w) \/ Resync(w)
  \/ HandleConfigMap
  \/ GcList
  \/ ScanTick
  \/ StartLeading
  \/ Crash
  \/ UserStep

Spec == Init /\ [][Next]_vars

(***************************************************************************)
(* Fairness.  Goroutines are scheduled, tickers fire, some replica obtains *)
(* the lease.  A handler serves its workloads in FIFO order, so none waits *)
(* forever while the handler keeps becoming idle (hence SF).  Users need   *)
(* not do anything, and faults stop (MaxFaults).                           *)
(***************************************************************************)
Fairness ==
  /\ WF_vars(StartLeading)
  /\ WF_vars(HandleConfigMap)
  /\ WF_vars(GcList)
  /\ WF_vars(ScanTick)
  /\ \A t \in Active : WF_vars(TaskStep(t))
  /\ \A w \in Workload : WF_vars(Resync(w)) /\ SF_vars(HandleEvent(w))

FairSpec == Spec /\ Fairness

(***************************************************************************)
(* Properties.                                                             *)
(***************************************************************************)
PC == {"idle", "start", "list", "recheck", "get", "resolveCreate", "replace",
       "create", "update", "fixPoor", "resolveUpdate", "recreate", "cleanup",
       "recList", "recNext", "scanList", "scanNext", "scanObjs", "multiList",
       "multiObjs", "multiNext", "gcNext", "gcSts", "gcDelete"}
Loop == {"idle", "recNext", "scanNext", "multiNext", "gcNext"}

Event(w) == [old : Versions[w] \cup {Nil}, new : Versions[w] \cup {Nil},
             tomb : BOOLEAN]
Item     == {it \in [key : Workload, obj : Object] : it.obj \in Versions[it.key]}
PDBItem  == [name : PDBName, pdb : PDB]
Job      == [key : {Nil} \cup Workload, obj : {Nil} \cup Object,
             sel : {Nil} \cup SUBSET Label, name : {Nil} \cup PDBName,
             pdb : {Nil} \cup PDB, n : Int]
Iter     == [loop : Loop, kind : Kinds, todo : SUBSET Item,
             pdbl : SUBSET PDBItem, cur : {Nil} \cup PDBItem,
             names : SUBSET PDBName]

\* Every variable keeps its shape: a task only ever works on versions of a
\* workload that some user really wrote, a configuration holds nothing that
\* parsePDBValue does not return, and a stored PDB has a budget the API server
\* accepts, whatever text an annotation or the ConfigMap holds.
TypeOK ==
  /\ workloads \in [Workload -> {Nil} \cup Object]
  /\ \A w \in Workload : workloads[w] \in Versions[w] \cup {Nil}
  /\ pdbs \in [PDBName -> {Nil} \cup PDB]
  /\ \A p \in PDBName : pdbs[p] # Nil => ValidBudget(pdbs[p])
  /\ configMap \in {Nil} \cup RawConfig
  /\ leader \in BOOLEAN
  /\ cfg \in Config
  /\ DOMAIN queue = Workload
  /\ \A w \in Workload : queue[w] \in Seq(Event(w))
  /\ cmQueue \in Seq({Nil} \cup RawConfig)
  /\ pc \in [Task -> PC]
  /\ job \in [Task -> Job]
  /\ iter \in [Task -> Iter]
  /\ fresh \subseteq Task
  /\ changes \in 0..MaxChanges
  /\ faults \in 0..MaxFaults

\* Selectors users, or the installation, gave the PDB p themselves.
GivenSelectors(p) ==
  {u[2].sel : u \in {x \in UserWrites : x[1] = p /\ x[2] # Nil}}
    \cup {v[p].sel : v \in {x \in InitPDBs : x[p] # Nil}}

\* A selector the controller may give the PDB p: it selects the pods of some
\* version of a workload with p's name, and only pods the workload selects.
OwnSelector(p, sel) ==
  \E w \in Workload :
    /\ CastaiPDB(w.name) = p
    /\ sel # Nil
    /\ WorkloadSel[w] \subseteq sel
    /\ \E o \in Versions[w] : sel \subseteq o.tmpl

\* Whatever tasks interleave and however stale what they read: a castai PDB
\* in the cluster selects pods of the workload it is named after, unless a
\* user wrote its selector (enrichment, recreation and the in-place update
\* of another workload's PDB included).
CastaiSelectorSound ==
  \A p \in PDBName \ ForeignPDB :
    pdbs[p] # Nil =>
      pdbs[p].sel \in GivenSelectors(p) \/ OwnSelector(p, pdbs[p].sel)

(***************************************************************************)
(* The inductive invariant behind the safety properties: what a task knows *)
(* at each point, of its own locals and of the store.                      *)
(***************************************************************************)
JobPC == {"start", "list", "recheck", "get", "resolveCreate", "replace",
          "create", "update", "fixPoor", "resolveUpdate", "recreate"}
SelPC == {"list", "recheck", "get", "resolveCreate", "replace", "create"}

\* The job is about a version of its workload; the selector it computed is
\* the workload's, enriched from that version; it writes only PDBs with a
\* controller name, except that a scan's fix may delete any listed PDB.
JobOK(t) ==
  LET j == job[t]
  IN  /\ pc[t] \in JobPC =>
           j.key \in Workload /\ j.obj \in Versions[j.key]
      /\ pc[t] \in SelPC =>
           /\ j.sel # Nil
           /\ WorkloadSel[j.key] \subseteq j.sel
           /\ j.sel \subseteq j.obj.tmpl
      /\ pc[t] \in {"resolveCreate", "replace"} =>
           j.name = CastaiPDB(j.key.name)
      /\ pc[t] \in {"replace", "create"} =>
           j.pdb \in PDB /\ j.pdb.sel = j.sel
      /\ pc[t] \in {"resolveUpdate", "recreate", "update"} =>
           /\ j.name \in PDBName /\ isControllerOwnedPDB(j.name)
           /\ j.pdb \in PDB /\ j.pdb.sel # Nil
      /\ pc[t] = "fixPoor" =>
           /\ j.name \in PDBName
           /\ isControllerOwnedPDB(j.name) \/ t \in Scanner
      /\ pc[t] \in {"gcSts", "gcDelete"} =>
           j.name \in PDBName /\ isControllerOwnedPDB(j.name)

\* Only controller names are ever queued for deletion; a task returns to the
\* loop it is in; a scan has a current PDB whenever it has workloads to compare
\* it with.
IterOK(t) ==
  LET i == iter[t]
  IN  /\ \A p \in i.names : isControllerOwnedPDB(p)
      /\ i.loop = "scanNext" /\ i.todo # {} => i.cur \in PDBItem
      /\ pc[t] \in {"scanList", "scanNext", "scanObjs"} => i.loop = "scanNext"
      /\ pc[t] \in {"recList", "recNext"} => i.loop = "recNext"
      /\ pc[t] \in {"multiList", "multiObjs", "multiNext"} => i.loop = "multiNext"
      /\ pc[t] = "scanList" => i.todo = {}
      /\ pc[t] = "scanObjs" => i.cur \in PDBItem

\* A current resourceVersion means what it should: the copy is the stored
\* PDB, and an Update about to be sent keeps its selector, or gives the
\* workload's selector to a PDB that has none.
FreshOK(t) ==
  LET j == job[t]
  IN  t \in fresh =>
        /\ pc[t] \in {"resolveUpdate", "resolveCreate"} => j.pdb = pdbs[j.name]
        /\ pc[t] = "update" =>
             /\ pdbs[j.name] \in PDB
             /\ \/ pdbs[j.name].sel = j.pdb.sel
                \/ /\ pdbs[j.name].sel = Nil
                   /\ OwnSelector(j.name, j.pdb.sel)

TaskInv ==
  \A t \in Task : JobOK(t) /\ IterOK(t) /\ FreshOK(t)

IInv == TypeOK /\ TaskInv /\ CastaiSelectorSound

\* The selector of a PDB is treated as immutable: the controller replaces a
\* PDB to change it and never rewrites it in place, except to give one to a
\* PDB without any.  An Update prepared from an old read must not undo that.
SelectorNeverRewritten ==
  [][changes' = changes =>
       \A p \in PDBName :
         pdbs[p] # Nil /\ pdbs'[p] # Nil /\ pdbs[p].sel # Nil =>
           pdbs'[p].sel = pdbs[p].sel]_vars

\* A PDB whose name is not castai-*-pdb is never created or modified by the
\* controller, and is deleted only as a poor PDB that a scan found.
ForeignOnlyFixedByScan ==
  [][changes' = changes =>
       \A p \in ForeignPDB :
         pdbs'[p] # pdbs[p] =>
           /\ pdbs'[p] = Nil
           /\ \E t \in Scanner : pc[t] = "fixPoor" /\ job[t].name = p]_vars

(***************************************************************************)
(* Liveness.                                                               *)
(***************************************************************************)
\* A workload that should have a PDB.  Two values at once, and a budget the API
\* server does not accept, are the user's to correct.
Eligible(w) ==
  /\ workloads[w] # Nil
  /\ workloadReadyForNewPDB(workloads[w])
  /\ ~workloads[w].bypass
  /\ ~isWorkloadExcluded(w, cfg)
  /\ CreateBudget(workloads[w].ann, cfg) # Nil
  /\ ValidBudget(CreateBudget(workloads[w].ann, cfg))

\* README: the controller "ensures every eligible Deployment/StatefulSet has
\* a PDB": once users and faults stop, each stays covered.
EligibleCovered ==
  <>[](\A w \in Workload :
         Eligible(w) => Covering(workloads[w].tmpl) # {})

\* The safety net of garbageCollectOrphanedPDBs: no castai PDB outlives its
\* workload or the workload's second replica.
NoUnderReplicatedPDB ==
  <>[](\A p \in PDBName \ ForeignPDB :
         pdbs[p] # Nil =>
           \E w \in Workload : /\ CastaiPDB(w.name) = p
                               /\ workloads[w] # Nil
                               /\ ~UnderReplicated(workloads[w]))

\* README, leftover cleanup: where a CAST Helm PDB covers a workload, no
\* castai-*-pdb stays beside it, also when one was being created meanwhile.
HelmLeftoversRemoved ==
  <>[](\A w \in Workload :
         workloads[w] # Nil /\ ~workloads[w].bypass =>
           LET covering == Covering(workloads[w].tmpl)
           IN  (\E p \in covering : isCastaiHelmStylePDB(p)) =>
                 \A p \in covering : ~isControllerOwnedPDB(p))

\* README, FixPoorPDBs: poor PDBs are deleted and recreated "with safe
\* defaults", so once users and faults stop none remains, although scans and
\* handlers work from lists that are out of date.  It holds when neither the
\* defaults nor the annotations are poor, and fails for defaults that are.
PoorPDBsFixed ==
  <>[](cfg.fixPoor =>
         \A w \in Workload, p \in PDBName :
           /\ workloads[w] # Nil /\ ~workloads[w].bypass
           /\ pdbs[p] # Nil /\ pdbs[p].sel = WorkloadSel[w]
           => ~isPoorPDBConfig(pdbs[p], workloads[w].rep))

\* README: on bypass "the controller deletes the associated PDB".
BypassedUncovered ==
  <>[](\A w \in Workload :
         workloads[w] # Nil /\ workloads[w].bypass =>
           pdbs[CastaiPDB(w.name)] = Nil)

\* createPDBForWorkload and what it calls come to an end: no informer handler
\* or goroutine is stuck in it.
TasksReturn ==
  \A t \in Active : []<>(pc[t] = "idle")

\* README: defaults "can be changed at runtime": whatever a leader loaded when
\* its process started, it ends up with what the ConfigMap states.  (A leader
\* is never told of a ConfigMap that was deleted before it led.)
ConfigFollowsConfigMap ==
  <>[](leader /\ configMap # Nil => cfg = ParseConfig(configMap))

\* The PDB that keeps an eligible workload covered has the budget a new one
\* would get.
HasItsBudget(w) ==
  LET p == CastaiPDB(w.name)
  IN  Eligible(w) /\ pdbCovers(pdbs[p], workloads[w].tmpl)
        => pdbs[p] = MakePDB(pdbs[p].sel, CreateBudget(workloads[w].ann, cfg))

\* Annotations or defaults state a value.
BudgetGiven(w) ==
  LET r == RequestedValues(workloads[w].ann, cfg)
  IN  r.min # Nil \/ r.max # Nil

\* README: defaults "can be changed at runtime" and annotations override them:
\* a budget they state reaches the PDBs that exist already, whether an update,
\* a recreation or a fix was under way when it changed.
BudgetsFollow ==
  <>[](\A w \in Workload :
         workloads[w] # Nil /\ BudgetGiven(w) => HasItsBudget(w))

\* "Default PDB config reset: using built-in fallback": where neither states a
\* value the PDB keeps the minAvailable = 1 it was created with.  It does not:
\* updateExistingPDB has no fallback and takes the budget away.
FallbackBudgetKept ==
  <>[](\A w \in Workload :
         workloads[w] # Nil /\ ~BudgetGiven(w) => HasItsBudget(w))
=============================================================================
