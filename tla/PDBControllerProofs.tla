------------------------- MODULE PDBControllerProofs -------------------------
(***************************************************************************)
(* Proofs about PDBController, for every set of workloads, labels, PDBs,   *)
(* configurations and tasks, and every bound.                              *)
(***************************************************************************)
EXTENDS PDBController, TLAPS

(***************************************************************************)
(* The pure rules return well-formed values.                               *)
(***************************************************************************)
\* Enrichment only adds labels of the template.
LEMMA EnrichBounds ==
  ASSUME NEW sel \in SUBSET Label, NEW tmpl \in SUBSET Label, NEW keys
  PROVE  /\ enrichSelector(sel, tmpl, keys) \in SUBSET Label
         /\ sel \subseteq enrichSelector(sel, tmpl, keys)
         /\ sel \subseteq tmpl => enrichSelector(sel, tmpl, keys) \subseteq tmpl
  BY NilAssumption DEF enrichSelector

\* Cutting an integer to the width of int32 gives an int32.
LEMMA WrapType ==
  ASSUME NEW n \in Int
  PROVE  ToInt32(n) \in Int32
  <1>. DEFINE p == 2^IntBits
              h == 2^(IntBits - 1)
              m == n % p
  <1>1. p \in Nat /\ h \in Nat /\ p = 2 * h /\ h > 1
    BY PDBIntBits
  <1>2. Int32 = -h .. h - 1
    BY DEF Int32
  <1>3. ToInt32(n) = IF m < h THEN m ELSE m - p
    BY DEF ToInt32
  <1>. HIDE DEF p, h
  <1>4. m \in 0..p-1
    BY <1>1
  <1>. HIDE DEF m
  <1>. QED
    BY <1>1, <1>2, <1>3, <1>4

LEMMA ParseType ==
  ASSUME NEW raw \in RawOrNil
  PROVE  parsePDBValue(raw) \in QtyOrNil
  <1>1. CASE raw = Nil
    BY <1>1 DEF parsePDBValue, QtyOrNil
  <1>2. CASE raw # Nil /\ raw \in [type : {"int"}, v : Int]
    <2>1. parsePDBValue(raw) = IntVal(ToInt32(raw.v)) /\ raw.v \in Int
      BY <1>2 DEF parsePDBValue
    <2>2. ToInt32(raw.v) \in Int32
      BY <2>1, WrapType
    <2>. QED
      BY <2>1, <2>2 DEF IntVal, QtyOrNil, Quantity
  <1>3. CASE raw # Nil /\ raw \in Texts
    BY <1>3 DEF parsePDBValue, Texts, QtyOrNil, Quantity
  <1>4. CASE raw # Nil /\ raw \in [type : {"bad"}, v : Nat]
    BY <1>4 DEF parsePDBValue, QtyOrNil
  <1>. QED
    BY <1>1, <1>2, <1>3, <1>4 DEF RawOrNil, Raw

LEMMA ParseConfigType ==
  ASSUME NEW cm \in RawConfig
  PROVE  ParseConfig(cm) \in Config
  <1>1. /\ parsePDBValue(cm.min) \in QtyOrNil
        /\ parsePDBValue(cm.max) \in QtyOrNil
    BY ParseType DEF RawConfig
  <1>2. Nil \in QtyOrNil
    BY DEF QtyOrNil
  <1>. QED
    BY <1>1, <1>2 DEF RawConfig, Config, ParseConfig,
                      parseUnhealthyPodEvictionPolicy

LEMMA ResetConfigType == ResetConfig \in Config
  BY DEF ResetConfig, Config, QtyOrNil

LEMMA ConfigOfType ==
  ASSUME NEW cm \in {Nil} \cup RawConfig
  PROVE  ConfigOf(cm) \in Config
  BY ParseConfigType, ResetConfigType DEF ConfigOf

Budget == [min : QtyOrNil, max : QtyOrNil, policy : {Nil} \cup Policy]

LEMMA RequestedType ==
  ASSUME NEW a \in Annotation, NEW c \in Config
  PROVE  /\ RequestedValues(a, c) \in [min : QtyOrNil, max : QtyOrNil]
         /\ resolveUnhealthyPodEvictionPolicy(a, c) \in {Nil} \cup Policy
  <1>1. /\ parsePDBValue(a.min) \in QtyOrNil
        /\ parsePDBValue(a.max) \in QtyOrNil
    BY ParseType DEF Annotation
  <1>2. RequestedValues(a, c) \in [min : QtyOrNil, max : QtyOrNil]
    BY <1>1 DEF RequestedValues, Config
  <1>3. resolveUnhealthyPodEvictionPolicy(a, c) \in {Nil} \cup Policy
    BY DEF resolveUnhealthyPodEvictionPolicy, parseUnhealthyPodEvictionPolicy,
           Annotation, Config
  <1>. QED
    BY <1>2, <1>3

LEMMA UpdateBudgetType ==
  ASSUME NEW a \in Annotation, NEW c \in Config
  PROVE  UpdateBudget(a, c) \in Budget
  BY RequestedType DEF UpdateBudget, Budget, QtyOrNil

LEMMA CreateBudgetType ==
  ASSUME NEW a \in Annotation, NEW c \in Config, CreateBudget(a, c) # Nil
  PROVE  CreateBudget(a, c) \in Budget
  <1>1. IntVal(1) \in QtyOrNil
    BY PDBIntBits DEF IntVal, QtyOrNil, Quantity, Int32
  <1>. QED
    BY <1>1, RequestedType DEF CreateBudget, Budget

LEMMA MakePDBType ==
  ASSUME NEW sel \in {Nil} \cup SUBSET Label, NEW b \in Budget
  PROVE  MakePDB(sel, b) \in PDB /\ MakePDB(sel, b).sel = sel
  BY DEF MakePDB, Budget, PDB

(***************************************************************************)
(* Names and selectors.                                                    *)
(***************************************************************************)
LEMMA Tasks == Active \subseteq Task
  BY ConstantsAssumption DEF Task, Scanner, Kinds

\* The controller's names are not anybody else's.
LEMMA ForeignNotOwned ==
  ASSUME NEW p \in ForeignPDB
  PROVE  ~isControllerOwnedPDB(p)
  BY ConstantsAssumption DEF isControllerOwnedPDB

LEMMA CastaiName ==
  ASSUME NEW w \in Workload
  PROVE  /\ CastaiPDB(w.name) \in PDBName
         /\ isControllerOwnedPDB(CastaiPDB(w.name))
         /\ CastaiPDB(w.name) \notin ForeignPDB
  <1>1. isControllerOwnedPDB(CastaiPDB(w.name))
    BY DEF isControllerOwnedPDB, CastaiPDB
  <1>2. CastaiPDB(w.name) \notin ForeignPDB
    BY <1>1, ForeignNotOwned
  <1>3. CastaiPDB(w.name) \in PDBName
    BY DEF PDBName
  <1>. QED
    BY <1>1, <1>2, <1>3

\* A version of a workload is a well-formed object that its selector selects.
LEMMA VersionType ==
  ASSUME NEW w \in Workload, NEW o \in Versions[w]
  PROVE  /\ o \in Object
         /\ WorkloadSel[w] \in SUBSET Label
         /\ WorkloadSel[w] \subseteq o.tmpl
  BY ConstantsAssumption

\* The selector that createPDBForWorkload computes is the workload's own.
LEMMA EnrichedIsOwn ==
  ASSUME NEW w \in Workload, NEW o \in Versions[w], NEW sel \in SUBSET Label,
         WorkloadSel[w] \subseteq sel, sel \subseteq o.tmpl
  PROVE  OwnSelector(CastaiPDB(w.name), sel)
  BY NilAssumption DEF OwnSelector

(***************************************************************************)
(* What a step of task t may do to the PDBs and to what other tasks hold.  *)
(***************************************************************************)
Sound(p, sel) == sel \in GivenSelectors(p) \/ OwnSelector(p, sel)

\* The step-wise facts behind the two action properties.
StepOK ==
  /\ \A p \in PDBName :
       pdbs[p] # Nil /\ pdbs'[p] # Nil /\ pdbs[p].sel # Nil =>
         pdbs'[p].sel = pdbs[p].sel
  /\ \A p \in ForeignPDB :
       pdbs'[p] # pdbs[p] =>
         /\ pdbs'[p] = Nil
         /\ \E u \in Scanner : pc[u] = "fixPoor" /\ job[u].name = p

StoreOK(t) ==
  /\ pdbs' \in [PDBName -> {Nil} \cup PDB]
  /\ \A p \in PDBName : pdbs'[p] # Nil => ValidBudget(pdbs'[p])
  /\ fresh' \subseteq fresh \cup {t}
  /\ faults' \in 0..MaxFaults
  /\ \A u \in fresh' \ {t} :
       job[u].name \in PDBName => pdbs'[job[u].name] = pdbs[job[u].name]
  /\ \A p \in PDBName \ ForeignPDB :
       pdbs'[p] # pdbs[p] /\ pdbs'[p] # Nil => Sound(p, pdbs'[p].sel)
  /\ StepOK

\* Task t moves; the others stay where they are.
Moves(t) ==
  /\ pc' \in [Task -> PC] /\ job' \in [Task -> Job] /\ iter' \in [Task -> Iter]
  /\ \A u \in Task \ {t} :
       pc'[u] = pc[u] /\ job'[u] = job[u] /\ iter'[u] = iter[u]

\* The types of everything that a task's own step leaves alone.
ContextOK ==
  /\ workloads \in [Workload -> {Nil} \cup Object]
  /\ \A w \in Workload : workloads[w] \in Versions[w] \cup {Nil}
  /\ configMap \in {Nil} \cup RawConfig
  /\ leader \in BOOLEAN
  /\ cfg \in Config
  /\ DOMAIN queue = Workload
  /\ \A w \in Workload : queue[w] \in Seq(Event(w))
  /\ cmQueue \in Seq({Nil} \cup RawConfig)
  /\ changes \in 0..MaxChanges

LEMMA StepFrame ==
  ASSUME IInv, NEW t \in Task, ContextOK',
         StoreOK(t), Moves(t), JobOK(t)', IterOK(t)', FreshOK(t)'
  PROVE  IInv' /\ StepOK
  <1>1. TypeOK'
    <2>1. fresh' \subseteq Task
      BY DEF StoreOK, IInv, TypeOK
    <2>. QED
      BY <2>1 DEF StoreOK, Moves, TypeOK, ContextOK
  <1>2. ASSUME NEW u \in Task, u # t
        PROVE  JobOK(u)' /\ IterOK(u)' /\ FreshOK(u)'
    <2>1. JobOK(u) /\ IterOK(u) /\ FreshOK(u)
      BY DEF IInv, TaskInv
    <2>2. pc'[u] = pc[u] /\ job'[u] = job[u] /\ iter'[u] = iter[u]
      BY <1>2 DEF Moves
    <2>3. JobOK(u)' /\ IterOK(u)'
      BY <2>1, <2>2 DEF JobOK, IterOK
    <2>4. pc[u] \in {"resolveUpdate", "resolveCreate", "update"}
            => job[u].name \in PDBName
      BY <2>1, CastaiName DEF JobOK, JobPC
    <2>5. FreshOK(u)'
      BY <1>2, <2>1, <2>2, <2>4 DEF FreshOK, StoreOK
    <2>. QED
      BY <2>3, <2>5
  <1>3. TaskInv'
    BY <1>2 DEF TaskInv
  <1>4. CastaiSelectorSound'
    BY DEF IInv, CastaiSelectorSound, StoreOK, Sound
  <1>. QED
    BY <1>1, <1>3, <1>4 DEF IInv, StoreOK

LEMMA TaskFrame ==
  ASSUME IInv, NEW t \in Task, UNCHANGED <<api, infor, changes>>,
         StoreOK(t), Moves(t), JobOK(t)', IterOK(t)', FreshOK(t)'
  PROVE  IInv' /\ StepOK
  <1>1. ContextOK'
    BY DEF ContextOK, IInv, TypeOK, api, infor
  <1>. QED
    BY <1>1, StepFrame

(***************************************************************************)
(* API calls.                                                              *)
(***************************************************************************)
LEMMA ReadStep ==
  ASSUME IInv, NEW t \in Task, UNCHANGED pdbs, fresh' \subseteq fresh \cup {t},
         UNCHANGED faults \/ Fault
  PROVE  StoreOK(t)
  <1>1. faults' \in 0..MaxFaults
    BY ConstantsAssumption DEF IInv, TypeOK, Fault
  <1>2. StepOK
    BY DEF StepOK
  <1>. QED
    BY <1>1, <1>2 DEF StoreOK, IInv, TypeOK

LEMMA Reads ==
  ASSUME IInv, NEW t \in Task, ReadOnly(t) \/ ReadFails(t)
  PROVE  StoreOK(t)
  <1>1. /\ UNCHANGED pdbs /\ fresh' \subseteq fresh \cup {t}
        /\ UNCHANGED faults \/ Fault
    BY DEF ReadOnly, ReadFails
  <1>. QED
    BY <1>1, ReadStep

\* A write is harmless when it is a deletion, or sets a sound selector and a
\* valid budget on a controller-owned name without changing the selector that is
\* there.
LEMMA WriteStep ==
  ASSUME IInv, NEW t \in Task, NEW p \in PDBName, NEW v \in {Nil} \cup PDB,
         Write(t, p, v) \/ WriteFails(t, p, v),
         v # Nil => /\ Sound(p, v.sel) /\ ValidBudget(v)
                    /\ pdbs[p] # Nil /\ pdbs[p].sel # Nil => v.sel = pdbs[p].sel,
         p \in ForeignPDB =>
           v = Nil /\ \E u \in Scanner : pc[u] = "fixPoor" /\ job[u].name = p
  PROVE  StoreOK(t)
  <1>1. CASE Store(t, p, v)
    <2>1. faults' \in 0..MaxFaults
      BY ConstantsAssumption
      DEF IInv, TypeOK, Fault, Write, WriteFails
    <2>2. pdbs' \in [PDBName -> {Nil} \cup PDB]
      BY <1>1 DEF Store, IInv, TypeOK
    <2>3. pdbs'[p] = v /\ \A q \in PDBName \ {p} : pdbs'[q] = pdbs[q]
      BY <1>1 DEF Store, IInv, TypeOK
    <2>4. /\ fresh' \subseteq fresh \cup {t}
          /\ \A u \in fresh' : job[u].name # p
      BY <1>1 DEF Store
    <2>5. StepOK
      <3>1. ASSUME NEW q \in PDBName, pdbs[q] # Nil, pdbs'[q] # Nil,
                   pdbs[q].sel # Nil
            PROVE  pdbs'[q].sel = pdbs[q].sel
        BY <2>3, <3>1
      <3>2. ASSUME NEW q \in ForeignPDB, pdbs'[q] # pdbs[q]
            PROVE  /\ pdbs'[q] = Nil
                   /\ \E u \in Scanner : pc[u] = "fixPoor" /\ job[u].name = q
        BY <2>3, <3>2 DEF PDBName
      <3>. QED
        BY <3>1, <3>2 DEF StepOK
    <2>6. \A u \in fresh' \ {t} :
            job[u].name \in PDBName => pdbs'[job[u].name] = pdbs[job[u].name]
      BY <2>3, <2>4
    <2>7. \A q \in PDBName \ ForeignPDB :
            pdbs'[q] # pdbs[q] /\ pdbs'[q] # Nil => Sound(q, pdbs'[q].sel)
      BY <2>3
    <2>8. \A q \in PDBName : pdbs'[q] # Nil => ValidBudget(pdbs'[q])
      BY <2>3 DEF IInv, TypeOK
    <2>. QED
      BY <2>1, <2>2, <2>4, <2>5, <2>6, <2>7, <2>8 DEF StoreOK
  <1>2. CASE Fault /\ fresh' = fresh \ {t} /\ UNCHANGED pdbs
    BY <1>2, ReadStep
  <1>. QED
    BY <1>1, <1>2 DEF Write, WriteFails

LEMMA DeleteOwn ==
  ASSUME IInv, NEW t \in Task, NEW p \in PDBName, isControllerOwnedPDB(p),
         Delete(t, p) \/ DeleteFails(t, p)
  PROVE  StoreOK(t)
  <1>1. p \notin ForeignPDB
    BY ForeignNotOwned
  <1>2. Write(t, p, Nil) \/ WriteFails(t, p, Nil)
    BY DEF Delete, DeleteFails
  <1>. QED
    BY <1>1, <1>2, WriteStep

(***************************************************************************)
(* Ends of jobs.                                                           *)
(***************************************************************************)
LEMMA NoJobType == NoJob \in Job /\ NoIter \in Iter
  BY DEF NoJob, NoIter, Job, Iter, Loop, Kinds

\* Outside createPDBForWorkload a task owes nothing but its loop state.
LEMMA OutsideJob ==
  ASSUME NEW t \in Task, pc'[t] \notin JobPC \cup {"gcSts", "gcDelete"}
  PROVE  JobOK(t)' /\ FreshOK(t)'
  BY DEF JobOK, FreshOK, JobPC, SelPC

LEMMA GotoMoves ==
  ASSUME IInv, NEW t \in Task, NEW l \in PC, Goto(t, l)
  PROVE  /\ pc' \in [Task -> PC] /\ pc'[t] = l
         /\ \A u \in Task \ {t} : pc'[u] = pc[u]
  BY DEF Goto, IInv, TypeOK

LEMMA JobMoves ==
  ASSUME IInv, NEW t \in Task, NEW j \in Job, job' = [job EXCEPT ![t] = j]
  PROVE  /\ job' \in [Task -> Job] /\ job'[t] = j
         /\ \A u \in Task \ {t} : job'[u] = job[u]
  BY DEF IInv, TypeOK

LEMMA IterMoves ==
  ASSUME IInv, NEW t \in Task, NEW i \in Iter, iter' = [iter EXCEPT ![t] = i]
  PROVE  /\ iter' \in [Task -> Iter] /\ iter'[t] = i
         /\ \A u \in Task \ {t} : iter'[u] = iter[u]
  BY DEF IInv, TypeOK

LEMMA JobTyped ==
  ASSUME IInv, NEW t \in Task
  PROVE  /\ job[t] \in Job /\ iter[t] \in Iter /\ pc[t] \in PC
         /\ JobOK(t) /\ IterOK(t) /\ FreshOK(t)
  BY DEF IInv, TypeOK, TaskInv

LEMMA DoneStep ==
  ASSUME IInv, NEW t \in Task, UNCHANGED <<api, infor, changes>>,
         StoreOK(t), UNCHANGED iter, Done(t)
  PROVE  IInv' /\ StepOK
  <1>1. iter[t].loop \in Loop /\ iter[t].loop \in PC /\ IterOK(t)
    BY JobTyped DEF Iter, Loop, PC
  <1>2. /\ pc' \in [Task -> PC] /\ pc'[t] = iter[t].loop
        /\ \A u \in Task \ {t} : pc'[u] = pc[u]
    BY <1>1, GotoMoves DEF Done
  <1>3. Moves(t)
    BY <1>2, NoJobType, JobMoves DEF Done, Moves, IInv, TypeOK
  <1>4. JobOK(t)' /\ FreshOK(t)'
    BY <1>1, <1>2, OutsideJob DEF Loop, JobPC
  <1>5. IterOK(t)'
    BY <1>1, <1>2 DEF IterOK, Loop
  <1>. QED
    BY <1>3, <1>4, <1>5, TaskFrame

LEMMA FinishStep ==
  ASSUME IInv, NEW t \in Task, UNCHANGED <<api, infor, changes>>,
         StoreOK(t), Finish(t)
  PROVE  IInv' /\ StepOK
  <1>1. /\ pc' \in [Task -> PC] /\ pc'[t] = "idle"
        /\ \A u \in Task \ {t} : pc'[u] = pc[u]
    BY GotoMoves DEF Finish, PC
  <1>2. iter'[t] = NoIter
    BY NoJobType, IterMoves DEF Finish
  <1>3. Moves(t)
    BY <1>1, NoJobType, JobMoves, IterMoves DEF Finish, Moves
  <1>4. JobOK(t)' /\ FreshOK(t)'
    BY <1>1, OutsideJob DEF JobPC
  <1>5. IterOK(t)'
    BY <1>1, <1>2 DEF IterOK, NoIter
  <1>. QED
    BY <1>3, <1>4, <1>5, TaskFrame

(***************************************************************************)
(* The actions of createPDBForWorkload.                                    *)
(***************************************************************************)
\* A step inside a job: only pc and job of t change.
LEMMA JobStep ==
  ASSUME IInv, NEW t \in Task, UNCHANGED <<api, infor, changes>>, UNCHANGED iter,
         StoreOK(t), NEW l \in JobPC \cup {"gcDelete"}, Goto(t, l),
         NEW j \in Job, job' = [job EXCEPT ![t] = j],
         JobOK(t)', FreshOK(t)'
  PROVE  IInv' /\ StepOK
  <1>1. l \in PC
    BY DEF JobPC, PC
  <1>2. Moves(t) /\ pc'[t] = l
    BY <1>1, GotoMoves, JobMoves DEF Moves, IInv, TypeOK
  <1>3. IterOK(t)'
    BY <1>2, JobTyped DEF IterOK, JobPC
  <1>. QED
    BY <1>2, <1>3, TaskFrame

LEMMA StartOK ==
  ASSUME IInv, NEW t \in Task, Start(t)
  PROVE  IInv' /\ StepOK
  <1>. DEFINE j == job[t]  w == j.key  o == j.obj  p == CastaiPDB(w.name)
              sel == enrichSelector(WorkloadSel[w], o.tmpl, cfg.extraKeys)
              k == [j EXCEPT !.sel = sel]
  <1>1. w \in Workload /\ o \in Versions[w] /\ j \in Job
    BY JobTyped DEF Start, JobOK, JobPC
  <1>2. o \in Object /\ WorkloadSel[w] \in SUBSET Label /\ WorkloadSel[w] \subseteq o.tmpl
    BY <1>1, VersionType
  <1>3. UNCHANGED <<api, infor, changes>> /\ UNCHANGED iter
    BY DEF Start
  <1>4. CASE (Delete(t, p) \/ DeleteFails(t, p)) /\ Done(t)
    <2>1. StoreOK(t)
      BY <1>1, <1>4, CastaiName, DeleteOwn
    <2>. QED
      BY <1>3, <1>4, <2>1, DoneStep
  <1>5. CASE ReadOnly(t) /\ Done(t)
    BY <1>3, <1>5, Reads, DoneStep
  <1>6. CASE /\ ReadOnly(t) /\ Goto(t, "list")
             /\ job' = [job EXCEPT ![t].sel = sel]
    <2>1. /\ sel \in SUBSET Label /\ WorkloadSel[w] \subseteq sel
          /\ sel \subseteq o.tmpl
      BY <1>2, EnrichBounds DEF Object
    <2>2. k \in Job /\ job' = [job EXCEPT ![t] = k]
      BY <1>1, <1>6, <2>1 DEF Job
    <2>3. job'[t] = k /\ pc'[t] = "list"
      BY <1>6, <2>2, JobMoves, GotoMoves DEF PC
    <2>4. k.key = w /\ k.obj = o /\ k.sel = sel
      BY <1>1 DEF Job
    <2>5. JobOK(t)'
      BY <1>1, <2>1, <2>3, <2>4, NilAssumption DEF JobOK, JobPC, SelPC
    <2>6. FreshOK(t)'
      BY <2>3 DEF FreshOK
    <2>. QED
      BY <1>3, <1>6, <2>2, <2>5, <2>6, Reads, JobStep DEF JobPC
  <1>. QED
    BY <1>4, <1>5, <1>6 DEF Start

LEMMA ListOK ==
  ASSUME IInv, NEW t \in Task, List(t)
  PROVE  IInv' /\ StepOK
  <1>. DEFINE j == job[t]  covering == Covering(j.obj.tmpl)
              leftovers == Leftovers(covering)
  <1>1. /\ j \in Job /\ iter[t] \in Iter /\ IterOK(t)
        /\ j.key \in Workload /\ j.obj \in Versions[j.key]
        /\ j.sel # Nil /\ WorkloadSel[j.key] \subseteq j.sel
        /\ j.sel \subseteq j.obj.tmpl
    BY JobTyped DEF List, JobOK, JobPC, SelPC
  <1>2. UNCHANGED <<api, infor, changes>>
    BY DEF List
  <1>3. CASE (ReadOnly(t) \/ ReadFails(t)) /\ Done(t) /\ UNCHANGED iter
    BY <1>2, <1>3, Reads, DoneStep
  <1>4. CASE /\ ReadOnly(t) /\ Goto(t, "cleanup")
             /\ job' = [job EXCEPT ![t] = NoJob]
             /\ iter' = [iter EXCEPT ![t].names = leftovers]
    <2>. DEFINE i == [iter[t] EXCEPT !.names = leftovers]
    <2>1. leftovers \subseteq PDBName /\ \A p \in leftovers : isControllerOwnedPDB(p)
      BY DEF Leftovers, Covering
    <2>2. i \in Iter /\ iter' = [iter EXCEPT ![t] = i]
      BY <1>1, <1>4, <2>1 DEF Iter
    <2>3. /\ pc' \in [Task -> PC] /\ pc'[t] = "cleanup"
          /\ \A u \in Task \ {t} : pc'[u] = pc[u]
      BY <1>4, GotoMoves DEF PC
    <2>4. Moves(t) /\ iter'[t] = i
      BY <1>4, <2>2, <2>3, NoJobType, JobMoves, IterMoves DEF Moves
    <2>5. /\ i.names = leftovers /\ i.loop = iter[t].loop
          /\ i.todo = iter[t].todo /\ i.cur = iter[t].cur
      BY <1>1 DEF Iter
    <2>6. IterOK(t)'
      BY <1>1, <2>1, <2>3, <2>4, <2>5 DEF IterOK
    <2>7. JobOK(t)' /\ FreshOK(t)'
      BY <2>3, OutsideJob DEF JobPC
    <2>. QED
      BY <1>2, <1>4, <2>4, <2>6, <2>7, Reads, TaskFrame
  <1>5. CASE /\ \E p \in Preferred(covering, j.sel) :
                  job' = [job EXCEPT ![t].name = p, ![t].pdb = pdbs[p]]
             /\ fresh' = fresh \cup {t} /\ Goto(t, "resolveUpdate")
             /\ UNCHANGED <<pdbs, faults, iter>>
    <2>1. PICK p \in Preferred(covering, j.sel) :
            job' = [job EXCEPT ![t].name = p, ![t].pdb = pdbs[p]]
      BY <1>5
    <2>2. /\ p \in PDBName /\ isControllerOwnedPDB(p)
          /\ pdbs[p] # Nil /\ pdbs[p].sel # Nil
      BY DEF Preferred, Covering, pdbCovers
    <2>3. pdbs[p] \in PDB
      BY <2>2 DEF IInv, TypeOK
    <2>. DEFINE k == [j EXCEPT !.name = p, !.pdb = pdbs[p]]
    <2>4. k \in Job /\ job' = [job EXCEPT ![t] = k]
      BY <1>1, <2>1, <2>2, <2>3 DEF Job
    <2>5. job'[t] = k /\ pc'[t] = "resolveUpdate"
      BY <1>5, <2>4, JobMoves, GotoMoves DEF PC
    <2>6. k.key = j.key /\ k.obj = j.obj /\ k.name = p /\ k.pdb = pdbs[p]
      BY <1>1 DEF Job
    <2>7. JobOK(t)'
      BY <1>1, <2>2, <2>3, <2>5, <2>6 DEF JobOK, JobPC, SelPC
    <2>8. FreshOK(t)'
      BY <1>5, <2>5, <2>6 DEF FreshOK
    <2>. QED
      BY <1>2, <1>5, <2>4, <2>7, <2>8, ReadStep, JobStep DEF JobPC
  <1>6. CASE /\ ReadOnly(t) /\ Goto(t, "recheck") /\ UNCHANGED iter
             /\ job' = [job EXCEPT ![t].n = RecheckAttempts]
    <2>. DEFINE k == [j EXCEPT !.n = RecheckAttempts]
    <2>1. k \in Job /\ job' = [job EXCEPT ![t] = k]
      <3>1. RecheckAttempts \in Int
        BY ConstantsAssumption
      <3>2. k \in Job
        BY <1>1, <3>1 DEF Job
      <3>. QED
        BY <1>6, <3>2
    <2>2. job'[t] = k /\ pc'[t] = "recheck"
      BY <1>6, <2>1, JobMoves, GotoMoves DEF PC
    <2>3. k.key = j.key /\ k.obj = j.obj /\ k.sel = j.sel
      BY <1>1 DEF Job
    <2>4. JobOK(t)' /\ FreshOK(t)'
      BY <1>1, <2>2, <2>3 DEF JobOK, JobPC, SelPC, FreshOK
    <2>. QED
      BY <1>2, <1>6, <2>1, <2>4, Reads, JobStep DEF JobPC
  <1>. QED
    BY <1>3, <1>4, <1>5, <1>6 DEF List

LEMMA RecheckOK ==
  ASSUME IInv, NEW t \in Task, Recheck(t)
  PROVE  IInv' /\ StepOK
  <1>. DEFINE j == job[t]  next == IF j.n = 1 THEN "get" ELSE "recheck"
              k == [j EXCEPT !.n = @ - 1]
  <1>1. /\ j \in Job
        /\ j.key \in Workload /\ j.obj \in Versions[j.key]
        /\ j.sel # Nil /\ WorkloadSel[j.key] \subseteq j.sel
        /\ j.sel \subseteq j.obj.tmpl
    BY JobTyped DEF Recheck, JobOK, JobPC, SelPC
  <1>2. UNCHANGED <<api, infor, changes>> /\ UNCHANGED iter
    BY DEF Recheck
  <1>3. CASE ReadOnly(t) /\ Done(t)
    BY <1>2, <1>3, Reads, DoneStep
  <1>4. CASE /\ ReadOnly(t) \/ ReadFails(t)
             /\ Goto(t, next) /\ job' = [job EXCEPT ![t].n = @ - 1]
    <2>1. k \in Job /\ job' = [job EXCEPT ![t] = k]
      <3>1. j.n - 1 \in Int
        BY <1>1 DEF Job
      <3>2. k \in Job
        BY <1>1, <3>1 DEF Job
      <3>. QED
        BY <1>4, <3>2
    <2>2. next \in PC /\ next \in JobPC /\ next \in {"get", "recheck"}
      BY DEF PC, JobPC
    <2>3. job'[t] = k /\ pc'[t] = next
      BY <1>4, <2>1, <2>2, JobMoves, GotoMoves
    <2>4. k.key = j.key /\ k.obj = j.obj /\ k.sel = j.sel
      BY <1>1 DEF Job
    <2>5. JobOK(t)' /\ FreshOK(t)'
      BY <1>1, <2>2, <2>3, <2>4 DEF JobOK, JobPC, SelPC, FreshOK
    <2>. QED
      BY <1>2, <1>4, <2>1, <2>2, <2>5, Reads, JobStep
  <1>. QED
    BY <1>3, <1>4 DEF Recheck

LEMMA GetOK ==
  ASSUME IInv, NEW t \in Task, Get(t)
  PROVE  IInv' /\ StepOK
  <1>. DEFINE j == job[t]  p == CastaiPDB(j.key.name)
              k == [j EXCEPT !.name = p, !.pdb = pdbs[p]]
  <1>1. /\ j \in Job
        /\ j.key \in Workload /\ j.obj \in Versions[j.key]
        /\ j.sel # Nil /\ WorkloadSel[j.key] \subseteq j.sel
        /\ j.sel \subseteq j.obj.tmpl
    BY JobTyped DEF Get, JobOK, JobPC, SelPC
  <1>2. UNCHANGED <<api, infor, changes>> /\ UNCHANGED iter
    BY DEF Get
  <1>3. CASE ReadFails(t) /\ Done(t)
    BY <1>2, <1>3, Reads, DoneStep
  <1>4. CASE /\ fresh' = fresh \cup {t} /\ Goto(t, "resolveCreate")
             /\ job' = [job EXCEPT ![t].name = p, ![t].pdb = pdbs[p]]
             /\ UNCHANGED <<pdbs, faults>>
    <2>1. p \in PDBName /\ pdbs[p] \in {Nil} \cup PDB
      BY <1>1, CastaiName DEF IInv, TypeOK
    <2>2. k \in Job /\ job' = [job EXCEPT ![t] = k]
      BY <1>1, <1>4, <2>1 DEF Job
    <2>3. job'[t] = k /\ pc'[t] = "resolveCreate"
      BY <1>4, <2>2, JobMoves, GotoMoves DEF PC
    <2>4. /\ k.key = j.key /\ k.obj = j.obj /\ k.sel = j.sel
          /\ k.name = p /\ k.pdb = pdbs[p]
      BY <1>1 DEF Job
    <2>5. JobOK(t)'
      BY <1>1, <2>3, <2>4 DEF JobOK, JobPC, SelPC
    <2>6. FreshOK(t)'
      BY <1>4, <2>3, <2>4 DEF FreshOK
    <2>. QED
      BY <1>2, <1>4, <2>2, <2>5, <2>6, ReadStep, JobStep DEF JobPC
  <1>. QED
    BY <1>3, <1>4 DEF Get

LEMMA ResolveCreateOK ==
  ASSUME IInv, NEW t \in Task, ResolveCreate(t)
  PROVE  IInv' /\ StepOK
  <1>. DEFINE j == job[t]  b == CreateBudget(j.obj.ann, cfg)
              new == MakePDB(j.sel, b)  k == [j EXCEPT !.pdb = new]
  <1>1. /\ j \in Job /\ FreshOK(t)
        /\ j.key \in Workload /\ j.obj \in Versions[j.key]
        /\ j.sel # Nil /\ WorkloadSel[j.key] \subseteq j.sel
        /\ j.sel \subseteq j.obj.tmpl
        /\ j.name = CastaiPDB(j.key.name)
    BY JobTyped DEF ResolveCreate, JobOK, JobPC, SelPC
  <1>2. UNCHANGED <<api, infor, changes>> /\ UNCHANGED <<iter, pdbs, faults>>
    BY DEF ResolveCreate
  <1>3. CASE fresh' = fresh \ {t} /\ Done(t)
    BY <1>2, <1>3, ReadStep, DoneStep
  <1>4. ASSUME NEW l \in {"create", "replace", "update"}, Goto(t, l), b # Nil,
               job' = [job EXCEPT ![t].pdb = new], UNCHANGED fresh,
               l = "update" => j.pdb # Nil /\ j.pdb.sel \in {Nil, j.sel}
        PROVE  IInv' /\ StepOK
    <2>1. j.obj.ann \in Annotation /\ cfg \in Config /\ j.sel \in SUBSET Label
      BY <1>1, VersionType DEF Object, IInv, TypeOK, Job
    <2>2. new \in PDB /\ new.sel = j.sel
      BY <1>4, <2>1, CreateBudgetType, MakePDBType
    <2>3. k \in Job /\ job' = [job EXCEPT ![t] = k]
      BY <1>1, <1>4, <2>2 DEF Job
    <2>4. l \in JobPC /\ l \in PC
      BY DEF JobPC, PC
    <2>5. job'[t] = k /\ pc'[t] = l
      BY <1>4, <2>3, <2>4, JobMoves, GotoMoves
    <2>6. /\ k.key = j.key /\ k.obj = j.obj /\ k.sel = j.sel
          /\ k.name = j.name /\ k.pdb = new
      BY <1>1 DEF Job
    <2>7. /\ j.name \in PDBName /\ isControllerOwnedPDB(j.name)
          /\ OwnSelector(j.name, j.sel)
      BY <1>1, <2>1, CastaiName, EnrichedIsOwn
    <2>8. JobOK(t)'
      BY <1>1, <2>2, <2>5, <2>6, <2>7 DEF JobOK, JobPC, SelPC
    <2>9. FreshOK(t)'
      <3>1. SUFFICES ASSUME t \in fresh, l = "update"
                     PROVE  /\ pdbs[j.name] \in PDB
                            /\ pdbs[j.name].sel \in {Nil, j.sel}
        BY <1>2, <1>4, <2>2, <2>5, <2>6, <2>7 DEF FreshOK
      <3>2. j.pdb = pdbs[j.name]
        BY <1>1, <3>1 DEF FreshOK, ResolveCreate
      <3>3. j.pdb \in PDB /\ j.pdb.sel \in {Nil, j.sel}
        BY <1>1, <1>4, <3>1 DEF Job
      <3>. QED
        BY <3>2, <3>3
    <2>. QED
      BY <1>2, <1>4, <2>3, <2>4, <2>8, <2>9, ReadStep, JobStep
  <1>. QED
    BY <1>3, <1>4 DEF ResolveCreate

LEMMA ReplaceOK ==
  ASSUME IInv, NEW t \in Task, Replace(t)
  PROVE  IInv' /\ StepOK
  <1>. DEFINE j == job[t]
  <1>1. /\ j \in Job
        /\ j.key \in Workload /\ j.obj \in Versions[j.key]
        /\ j.sel # Nil /\ WorkloadSel[j.key] \subseteq j.sel
        /\ j.sel \subseteq j.obj.tmpl
        /\ j.pdb \in PDB /\ j.pdb.sel = j.sel
        /\ j.name \in PDBName /\ isControllerOwnedPDB(j.name)
    BY JobTyped, CastaiName DEF Replace, JobOK, JobPC, SelPC
  <1>2. UNCHANGED <<api, infor, changes>> /\ UNCHANGED iter
    BY DEF Replace
  <1>3. StoreOK(t)
    BY <1>1, DeleteOwn DEF Replace
  <1>4. CASE Goto(t, "create") /\ UNCHANGED job
    <2>1. job' = [job EXCEPT ![t] = j] /\ pc'[t] = "create" /\ job'[t] = j
      BY <1>4, GotoMoves DEF IInv, TypeOK, PC
    <2>2. JobOK(t)' /\ FreshOK(t)'
      BY <1>1, <2>1 DEF JobOK, JobPC, SelPC, FreshOK
    <2>. QED
      BY <1>1, <1>2, <1>3, <1>4, <2>1, <2>2, JobStep DEF JobPC
  <1>5. CASE Done(t)
    BY <1>2, <1>3, <1>5, DoneStep
  <1>. QED
    BY <1>4, <1>5 DEF Replace

\* logAndFixPoorPDBConfig either returns or is about to delete the PDB.
LEMMA LogAndFixStep ==
  ASSUME IInv, NEW t \in Task, NEW w \in Workload, NEW o \in Versions[w],
         NEW p \in PDBName, isControllerOwnedPDB(p) \/ t \in Scanner,
         NEW pdb, LogAndFix(t, w, o, p, pdb)
  PROVE  /\ pc' \in [Task -> PC] /\ job' \in [Task -> Job]
         /\ \A u \in Task \ {t} : pc'[u] = pc[u] /\ job'[u] = job[u]
         /\ pc'[t] \in {"fixPoor", iter[t].loop}
         /\ JobOK(t)' /\ FreshOK(t)'
  <1>. DEFINE k == [NoJob EXCEPT !.key = w, !.obj = o, !.name = p]
  <1>1. CASE Goto(t, "fixPoor") /\ job' = [job EXCEPT ![t] = k]
    <2>1. o \in Object
      BY VersionType
    <2>2. k \in Job /\ k.key = w /\ k.obj = o /\ k.name = p
      BY <2>1, NoJobType DEF Job
    <2>3. /\ job' \in [Task -> Job] /\ job'[t] = k
          /\ \A u \in Task \ {t} : job'[u] = job[u]
      BY <1>1, <2>2, JobMoves
    <2>4. /\ pc' \in [Task -> PC] /\ pc'[t] = "fixPoor"
          /\ \A u \in Task \ {t} : pc'[u] = pc[u]
      BY <1>1, GotoMoves DEF PC
    <2>5. JobOK(t)' /\ FreshOK(t)'
      BY <2>2, <2>3, <2>4 DEF JobOK, JobPC, SelPC, FreshOK
    <2>. QED
      BY <2>3, <2>4, <2>5
  <1>2. CASE Done(t)
    <2>1. iter[t].loop \in Loop /\ iter[t].loop \in PC
      BY JobTyped DEF Iter, Loop, PC
    <2>2. /\ pc' \in [Task -> PC] /\ pc'[t] = iter[t].loop
          /\ \A u \in Task \ {t} : pc'[u] = pc[u]
      BY <1>2, <2>1, GotoMoves DEF Done
    <2>3. /\ job' \in [Task -> Job]
          /\ \A u \in Task \ {t} : job'[u] = job[u]
      BY <1>2, NoJobType, JobMoves DEF Done
    <2>4. JobOK(t)' /\ FreshOK(t)'
      BY <2>1, <2>2, OutsideJob DEF Loop, JobPC
    <2>. QED
      BY <2>2, <2>3, <2>4
  <1>. QED
    BY <1>1, <1>2 DEF LogAndFix

LEMMA WrittenStep ==
  ASSUME IInv, NEW t \in Task, UNCHANGED <<api, infor, changes>>, UNCHANGED iter,
         StoreOK(t), NEW w \in Workload, NEW o \in Versions[w],
         NEW p \in PDBName, isControllerOwnedPDB(p), NEW pdb,
         LogAndFix(t, w, o, p, pdb)
  PROVE  IInv' /\ StepOK
  <1>1. /\ pc' \in [Task -> PC] /\ job' \in [Task -> Job]
        /\ \A u \in Task \ {t} : pc'[u] = pc[u] /\ job'[u] = job[u]
        /\ pc'[t] \in {"fixPoor", iter[t].loop}
        /\ JobOK(t)' /\ FreshOK(t)'
    BY LogAndFixStep
  <1>2. Moves(t)
    BY <1>1 DEF Moves, IInv, TypeOK
  <1>3. IterOK(t) /\ iter[t].loop \in Loop
    BY JobTyped DEF Iter
  <1>4. IterOK(t)'
    BY <1>1, <1>3 DEF IterOK, Loop
  <1>. QED
    BY <1>1, <1>2, <1>4, TaskFrame

LEMMA CreateOK ==
  ASSUME IInv, NEW t \in Task, Create(t)
  PROVE  IInv' /\ StepOK
  <1>. DEFINE j == job[t]  p == CastaiPDB(j.key.name)
  <1>1. /\ j.key \in Workload /\ j.obj \in Versions[j.key] /\ j.sel \in SUBSET Label
        /\ WorkloadSel[j.key] \subseteq j.sel /\ j.sel \subseteq j.obj.tmpl
        /\ j.pdb \in PDB /\ j.pdb.sel = j.sel
    BY JobTyped DEF Create, JobOK, JobPC, SelPC, Job
  <1>2. /\ p \in PDBName /\ isControllerOwnedPDB(p) /\ p \notin ForeignPDB
        /\ Sound(p, j.pdb.sel)
    BY <1>1, CastaiName, EnrichedIsOwn DEF Sound
  <1>3. UNCHANGED <<api, infor, changes>> /\ UNCHANGED iter
    BY DEF Create
  <1>4. CASE ReadOnly(t) /\ Done(t)
    BY <1>3, <1>4, Reads, DoneStep
  <1>5. CASE /\ pdbs[p] = Nil /\ ValidBudget(j.pdb) /\ Write(t, p, j.pdb)
             /\ LogAndFix(t, j.key, j.obj, p, j.pdb)
    <2>1. StoreOK(t)
      BY <1>1, <1>2, <1>5, WriteStep
    <2>. QED
      BY <1>1, <1>2, <1>3, <1>5, <2>1, WrittenStep
  <1>6. CASE /\ pdbs[p] = Nil /\ ValidBudget(j.pdb)
             /\ WriteFails(t, p, j.pdb) /\ Done(t)
    <2>1. StoreOK(t)
      BY <1>1, <1>2, <1>6, WriteStep
    <2>. QED
      BY <1>3, <1>6, <2>1, DoneStep
  <1>. QED
    BY <1>4, <1>5, <1>6 DEF Create

LEMMA UpdateOK ==
  ASSUME IInv, NEW t \in Task, Update(t)
  PROVE  IInv' /\ StepOK
  <1>. DEFINE j == job[t]
  <1>1. /\ j.key \in Workload /\ j.obj \in Versions[j.key]
        /\ j.name \in PDBName /\ isControllerOwnedPDB(j.name)
        /\ j.pdb \in PDB
    BY JobTyped DEF Update, JobOK, JobPC
  <1>2. UNCHANGED <<api, infor, changes>> /\ UNCHANGED iter
    BY DEF Update
  <1>3. j.name \notin ForeignPDB
    BY <1>1, ForeignNotOwned
  <1>4. ASSUME t \in fresh
        PROVE  /\ Sound(j.name, j.pdb.sel)
               /\ pdbs[j.name] # Nil /\ pdbs[j.name].sel # Nil
                    => j.pdb.sel = pdbs[j.name].sel
    <2>1. /\ pdbs[j.name] \in PDB
          /\ \/ pdbs[j.name].sel = j.pdb.sel
             \/ pdbs[j.name].sel = Nil /\ OwnSelector(j.name, j.pdb.sel)
      BY <1>4, JobTyped DEF FreshOK, Update
    <2>2. pdbs[j.name] # Nil => Sound(j.name, pdbs[j.name].sel)
      BY <1>1, <1>3 DEF IInv, CastaiSelectorSound, Sound
    <2>3. pdbs[j.name] # Nil
      BY <2>1, NilAssumption
    <2>. QED
      BY <2>1, <2>2, <2>3 DEF Sound
  <1>5. CASE ReadOnly(t) /\ Done(t)
    BY <1>2, <1>5, Reads, DoneStep
  <1>6. CASE /\ t \in fresh /\ ValidBudget(j.pdb) /\ Write(t, j.name, j.pdb)
             /\ LogAndFix(t, j.key, j.obj, j.name, j.pdb)
    <2>1. StoreOK(t)
      BY <1>1, <1>3, <1>4, <1>6, WriteStep
    <2>. QED
      BY <1>1, <1>2, <1>6, <2>1, WrittenStep
  <1>7. CASE /\ t \in fresh /\ ValidBudget(j.pdb)
             /\ WriteFails(t, j.name, j.pdb) /\ Done(t)
    <2>1. StoreOK(t)
      BY <1>1, <1>3, <1>4, <1>7, WriteStep
    <2>. QED
      BY <1>2, <1>7, <2>1, DoneStep
  <1>. QED
    BY <1>5, <1>6, <1>7 DEF Update

\* The tail calls of updateExistingPDB and logAndFixPoorPDBConfig.
LEMMA DeleteThenStartStep ==
  ASSUME IInv, NEW t \in Task, UNCHANGED <<api, infor, changes>>, UNCHANGED iter,
         NEW p, job[t].key \in Workload, job[t].obj \in Versions[job[t].key],
         Delete(t, p) \/ DeleteFails(t, p) => StoreOK(t), DeleteThenStart(t, p)
  PROVE  IInv' /\ StepOK
  <1>. DEFINE j == job[t]
              k == [j EXCEPT !.sel = Nil, !.name = Nil, !.pdb = Nil]
  <1>1. StoreOK(t)
    BY DEF DeleteThenStart
  <1>2. CASE /\ Goto(t, "start")
             /\ job' = [job EXCEPT ![t].sel = Nil, ![t].name = Nil, ![t].pdb = Nil]
    <2>1. j \in Job
      BY JobTyped
    <2>2. k \in Job /\ k.key = j.key /\ k.obj = j.obj
      BY <2>1 DEF Job
    <2>3. job' = [job EXCEPT ![t] = k]
      BY <1>2 DEF IInv, TypeOK
    <2>4. job'[t] = k /\ pc'[t] = "start"
      BY <1>2, <2>2, <2>3, JobMoves, GotoMoves DEF PC
    <2>5. JobOK(t)' /\ FreshOK(t)'
      BY <2>2, <2>4 DEF JobOK, JobPC, SelPC, FreshOK
    <2>. QED
      BY <1>1, <1>2, <2>2, <2>3, <2>5, JobStep DEF JobPC
  <1>3. CASE Done(t)
    BY <1>1, <1>3, DoneStep
  <1>. QED
    BY <1>2, <1>3 DEF DeleteThenStart

LEMMA FixPoorOK ==
  ASSUME IInv, NEW t \in Task, FixPoor(t)
  PROVE  IInv' /\ StepOK
  <1>. DEFINE j == job[t]
  <1>1. /\ j.key \in Workload /\ j.obj \in Versions[j.key] /\ j.name \in PDBName
        /\ isControllerOwnedPDB(j.name) \/ t \in Scanner
    BY JobTyped DEF FixPoor, JobOK, JobPC
  <1>2. ASSUME Delete(t, j.name) \/ DeleteFails(t, j.name)
        PROVE  StoreOK(t)
    <2>1. Write(t, j.name, Nil) \/ WriteFails(t, j.name, Nil)
      BY <1>2 DEF Delete, DeleteFails
    <2>2. j.name \in ForeignPDB =>
            \E u \in Scanner : pc[u] = "fixPoor" /\ job[u].name = j.name
      BY <1>1, ForeignNotOwned DEF FixPoor
    <2>. QED
      BY <1>1, <2>1, <2>2, WriteStep
  <1>. QED
    BY <1>1, <1>2, DeleteThenStartStep DEF FixPoor

LEMMA ResolveUpdateOK ==
  ASSUME IInv, NEW t \in Task, ResolveUpdate(t)
  PROVE  IInv' /\ StepOK
  <1>. DEFINE j == job[t]  b == UpdateBudget(j.obj.ann, cfg)
              sel == enrichSelector(j.pdb.sel, j.obj.tmpl, cfg.extraKeys)
              new == MakePDB(sel, b)  k == [j EXCEPT !.pdb = new]
  <1>1. /\ j \in Job /\ FreshOK(t) /\ pc[t] = "resolveUpdate"
        /\ j.key \in Workload /\ j.obj \in Versions[j.key]
        /\ j.name \in PDBName /\ isControllerOwnedPDB(j.name)
        /\ j.pdb \in PDB /\ j.pdb.sel # Nil
    BY JobTyped DEF ResolveUpdate, JobOK, JobPC
  <1>2. UNCHANGED <<api, infor, changes>> /\ UNCHANGED <<iter, pdbs, faults>>
    BY DEF ResolveUpdate
  <1>3. CASE Goto(t, "recreate") /\ UNCHANGED <<job, fresh>>
    <2>1. job' = [job EXCEPT ![t] = j] /\ pc'[t] = "recreate" /\ job'[t] = j
      BY <1>3, GotoMoves DEF IInv, TypeOK, PC
    <2>2. JobOK(t)' /\ FreshOK(t)'
      BY <1>1, <2>1 DEF JobOK, JobPC, SelPC, FreshOK
    <2>. QED
      BY <1>1, <1>2, <1>3, <2>1, <2>2, ReadStep, JobStep DEF JobPC
  <1>4. CASE /\ sel = j.pdb.sel /\ Goto(t, "update")
             /\ job' = [job EXCEPT ![t].pdb = new] /\ UNCHANGED fresh
    <2>1. j.obj.ann \in Annotation /\ cfg \in Config /\ sel \in {Nil} \cup SUBSET Label
      BY <1>1, <1>4, VersionType DEF Object, IInv, TypeOK, PDB
    <2>2. new \in PDB /\ new.sel = j.pdb.sel
      BY <1>4, <2>1, UpdateBudgetType, MakePDBType
    <2>3. k \in Job /\ job' = [job EXCEPT ![t] = k]
      BY <1>1, <1>4, <2>2 DEF Job
    <2>4. job'[t] = k /\ pc'[t] = "update"
      BY <1>4, <2>3, JobMoves, GotoMoves DEF PC
    <2>5. /\ k.key = j.key /\ k.obj = j.obj
          /\ k.name = j.name /\ k.pdb = new
      BY <1>1 DEF Job
    <2>6. JobOK(t)'
      BY <1>1, <2>2, <2>4, <2>5 DEF JobOK, JobPC, SelPC
    <2>7. t \in fresh => j.pdb = pdbs[j.name]
      BY <1>1 DEF FreshOK
    <2>8. FreshOK(t)'
      BY <1>1, <1>2, <1>4, <2>2, <2>4, <2>5, <2>7 DEF FreshOK
    <2>. QED
      BY <1>2, <1>4, <2>3, <2>6, <2>8, ReadStep, JobStep DEF JobPC
  <1>5. CASE fresh' = fresh \ {t} /\ Done(t)
    BY <1>2, <1>5, ReadStep, DoneStep
  <1>. QED
    BY <1>3, <1>4, <1>5 DEF ResolveUpdate

LEMMA RecreateOK ==
  ASSUME IInv, NEW t \in Task, Recreate(t)
  PROVE  IInv' /\ StepOK
  <1>1. /\ job[t].key \in Workload /\ job[t].obj \in Versions[job[t].key]
        /\ job[t].name \in PDBName /\ isControllerOwnedPDB(job[t].name)
    BY JobTyped DEF Recreate, JobOK, JobPC
  <1>. QED
    BY <1>1, DeleteOwn, DeleteThenStartStep DEF Recreate

\* Fewer names or workloads left in a loop, the rest of it unchanged.
LEMMA IterShrinks ==
  ASSUME NEW i \in Iter, NEW names \in SUBSET i.names, NEW todo \in SUBSET i.todo
  PROVE  /\ [i EXCEPT !.names = names] \in Iter
         /\ [i EXCEPT !.todo = todo] \in Iter
         /\ [i EXCEPT !.names = names].names = names
         /\ [i EXCEPT !.names = names].todo = i.todo
         /\ [i EXCEPT !.names = names].cur = i.cur
         /\ [i EXCEPT !.names = names].loop = i.loop
         /\ [i EXCEPT !.todo = todo].names = i.names
         /\ [i EXCEPT !.todo = todo].todo = todo
         /\ [i EXCEPT !.todo = todo].cur = i.cur
         /\ [i EXCEPT !.todo = todo].loop = i.loop
  BY DEF Iter

LEMMA CleanupOK ==
  ASSUME IInv, NEW t \in Task, Cleanup(t)
  PROVE  IInv' /\ StepOK
  <1>1. PICK p \in iter[t].names :
          /\ Delete(t, p) \/ DeleteFails(t, p)
          /\ iter' = [iter EXCEPT ![t].names = @ \ {p}]
          /\ IF iter[t].names = {p} THEN Done(t) ELSE UNCHANGED <<pc, job>>
    BY DEF Cleanup
  <1>. DEFINE i == [iter[t] EXCEPT !.names = iter[t].names \ {p}]
  <1>2. iter[t] \in Iter /\ IterOK(t) /\ pc[t] = "cleanup" /\ pc[t] \in PC
    BY JobTyped DEF Cleanup
  <1>3. p \in PDBName /\ isControllerOwnedPDB(p)
    BY <1>2 DEF Iter, IterOK
  <1>4. StoreOK(t)
    BY <1>1, <1>3, DeleteOwn
  <1>5. i \in Iter /\ iter' = [iter EXCEPT ![t] = i]
    BY <1>1, <1>2, IterShrinks
  <1>6. /\ iter' \in [Task -> Iter] /\ iter'[t] = i
        /\ \A u \in Task \ {t} : iter'[u] = iter[u]
    BY <1>5, IterMoves
  <1>7. iter[t].loop \in Loop /\ iter[t].loop \in PC
    BY <1>2 DEF Iter, Loop, PC
  <1>8. /\ pc' \in [Task -> PC] /\ pc'[t] \in {"cleanup", iter[t].loop}
        /\ job' \in [Task -> Job]
        /\ \A u \in Task \ {t} : pc'[u] = pc[u] /\ job'[u] = job[u]
    <2>1. CASE Done(t)
      BY <1>7, <2>1, GotoMoves, JobMoves, NoJobType DEF Done
    <2>2. CASE UNCHANGED <<pc, job>>
      BY <1>2, <2>2 DEF IInv, TypeOK
    <2>. QED
      BY <1>1, <2>1, <2>2
  <1>9. JobOK(t)' /\ FreshOK(t)'
    BY <1>7, <1>8, OutsideJob DEF Loop, JobPC
  <1>10. IterOK(t)'
    <2>1. /\ i.names \subseteq iter[t].names /\ i.todo = iter[t].todo
          /\ i.cur = iter[t].cur /\ i.loop = iter[t].loop
      BY <1>2, IterShrinks
    <2>. QED
      BY <1>2, <1>6, <1>7, <1>8, <2>1 DEF IterOK, Loop
  <1>11. UNCHANGED <<api, infor, changes>>
    BY DEF Cleanup
  <1>. QED
    BY <1>4, <1>6, <1>8, <1>9, <1>10, <1>11, TaskFrame DEF Moves

LEMMA CreatePDBForWorkloadOK ==
  ASSUME IInv, NEW t \in Task, CreatePDBForWorkload(t)
  PROVE  IInv' /\ StepOK
  BY StartOK, ListOK, RecheckOK, GetOK, ResolveCreateOK, ReplaceOK, CreateOK,
     UpdateOK, FixPoorOK, ResolveUpdateOK, RecreateOK, CleanupOK
  DEF CreatePDBForWorkload

(***************************************************************************)
(* The loops: reconciliation, scans and garbage collection.                *)
(***************************************************************************)
LEMMA LoopStep ==
  ASSUME IInv, NEW t \in Task, UNCHANGED <<api, infor, changes>>, StoreOK(t),
         NEW l \in PC \ (JobPC \cup {"gcSts", "gcDelete"}), Goto(t, l),
         UNCHANGED job \/ job' = [job EXCEPT ![t] = NoJob],
         NEW i \in Iter, iter' = [iter EXCEPT ![t] = i],
         \A p \in i.names : isControllerOwnedPDB(p),
         i.loop = "scanNext" /\ i.todo # {} => i.cur \in PDBItem,
         l \in {"scanList", "scanNext", "scanObjs"} => i.loop = "scanNext",
         l \in {"recList", "recNext"} => i.loop = "recNext",
         l \in {"multiList", "multiObjs", "multiNext"} => i.loop = "multiNext",
         l = "scanList" => i.todo = {},
         l = "scanObjs" => i.cur \in PDBItem
  PROVE  IInv' /\ StepOK
  <1>1. /\ pc' \in [Task -> PC] /\ pc'[t] = l
        /\ \A u \in Task \ {t} : pc'[u] = pc[u]
    BY GotoMoves
  <1>2. /\ job' \in [Task -> Job]
        /\ \A u \in Task \ {t} : job'[u] = job[u]
    BY NoJobType, JobMoves DEF IInv, TypeOK
  <1>3. /\ iter' \in [Task -> Iter] /\ iter'[t] = i
        /\ \A u \in Task \ {t} : iter'[u] = iter[u]
    BY IterMoves
  <1>4. JobOK(t)' /\ FreshOK(t)'
    BY <1>1, OutsideJob
  <1>5. IterOK(t)'
    BY <1>1, <1>3 DEF IterOK
  <1>. QED
    BY <1>1, <1>2, <1>3, <1>4, <1>5, TaskFrame DEF Moves

\* The loop starts createPDBForWorkload on an item of its list.
LEMMA CallStep ==
  ASSUME IInv, NEW t \in Task, UNCHANGED <<api, infor, changes>>, StoreOK(t),
         NEW it \in Item, Goto(t, "start"),
         job' = [job EXCEPT ![t] = [NoJob EXCEPT !.key = it.key, !.obj = it.obj]],
         NEW i \in Iter, iter' = [iter EXCEPT ![t] = i],
         \A p \in i.names : isControllerOwnedPDB(p),
         i.loop = "scanNext" /\ i.todo # {} => i.cur \in PDBItem
  PROVE  IInv' /\ StepOK
  <1>. DEFINE k == [NoJob EXCEPT !.key = it.key, !.obj = it.obj]
  <1>1. it.key \in Workload /\ it.obj \in Versions[it.key] /\ it.obj \in Object
    BY DEF Item
  <1>2. k \in Job /\ k.key = it.key /\ k.obj = it.obj
    BY <1>1, NoJobType DEF Job
  <1>3. /\ pc' \in [Task -> PC] /\ pc'[t] = "start"
        /\ \A u \in Task \ {t} : pc'[u] = pc[u]
    BY GotoMoves DEF PC
  <1>4. /\ job' \in [Task -> Job] /\ job'[t] = k
        /\ \A u \in Task \ {t} : job'[u] = job[u]
    BY <1>2, JobMoves
  <1>5. /\ iter' \in [Task -> Iter] /\ iter'[t] = i
        /\ \A u \in Task \ {t} : iter'[u] = iter[u]
    BY IterMoves
  <1>6. JobOK(t)' /\ FreshOK(t)'
    BY <1>1, <1>2, <1>3, <1>4 DEF JobOK, JobPC, SelPC, FreshOK
  <1>7. IterOK(t)'
    BY <1>3, <1>5 DEF IterOK
  <1>. QED
    BY <1>3, <1>4, <1>5, <1>6, <1>7, TaskFrame DEF Moves

LEMMA ListedType ==
  ASSUME IInv
  PROVE  /\ \A kind \in Kinds : Listed(kind) \subseteq Item
         /\ ListedPDBs \subseteq PDBItem
  <1>1. ASSUME NEW w \in Workload, workloads[w] # Nil
        PROVE  [key |-> w, obj |-> workloads[w]] \in Item
    <2>1. workloads[w] \in Versions[w]
      BY <1>1 DEF IInv, TypeOK
    <2>2. workloads[w] \in Object
      BY <2>1, VersionType
    <2>. QED
      BY <2>1, <2>2 DEF Item
  <1>2. ASSUME NEW p \in PDBName, pdbs[p] # Nil
        PROVE  [name |-> p, pdb |-> pdbs[p]] \in PDBItem
    BY <1>2 DEF IInv, TypeOK, PDBItem
  <1>. QED
    BY <1>1, <1>2 DEF Listed, ListedPDBs

LEMMA ListWorkloadsStep ==
  ASSUME IInv, NEW t \in Task, UNCHANGED <<api, infor, changes>>,
         NEW items \in SUBSET Item, NEW next \in {"recNext", "scanNext", "multiNext"},
         iter[t].loop = next, next = "scanNext" => iter[t].cur \in PDBItem,
         ListWorkloads(t, items, next)
  PROVE  IInv' /\ StepOK
  <1>1. iter[t] \in Iter /\ IterOK(t)
    BY JobTyped
  <1>2. StoreOK(t) /\ Goto(t, next) /\ UNCHANGED job
    BY Reads DEF ListWorkloads
  <1>3. PICK todo \in SUBSET Item : iter' = [iter EXCEPT ![t].todo = todo]
    BY DEF ListWorkloads
  <1>. DEFINE i == [iter[t] EXCEPT !.todo = todo]
  <1>4. /\ i \in Iter /\ i.names = iter[t].names /\ i.loop = next
        /\ i.todo = todo /\ i.cur = iter[t].cur
    BY <1>1 DEF Iter
  <1>5. iter' = [iter EXCEPT ![t] = i]
    BY <1>3
  <1>6. next \in PC \ (JobPC \cup {"gcSts", "gcDelete"})
    BY DEF PC, JobPC
  <1>7. \A p \in i.names : isControllerOwnedPDB(p)
    BY <1>1, <1>4 DEF IterOK
  <1>. HIDE DEF i
  <1>. QED
    BY <1>2, <1>4, <1>5, <1>6, <1>7, LoopStep

LEMMA RecListOK ==
  ASSUME IInv, NEW t \in Task, RecList(t)
  PROVE  IInv' /\ StepOK
  <1>. DEFINE items == {it \in Listed(iter[t].kind) : UsesDefaults(it)}
  <1>1. iter[t].loop = "recNext" /\ iter[t].kind \in Kinds
    BY JobTyped DEF RecList, IterOK, Iter
  <1>2. items \in SUBSET Item
    BY <1>1, ListedType
  <1>3. UNCHANGED <<api, infor, changes>>
    BY DEF RecList
  <1>4. CASE ListWorkloads(t, items, "recNext")
    BY <1>1, <1>2, <1>3, <1>4, ListWorkloadsStep
  <1>5. CASE ReadFails(t) /\ Finish(t)
    BY <1>3, <1>5, Reads, FinishStep
  <1>. QED
    BY <1>4, <1>5 DEF RecList

LEMMA RecNextOK ==
  ASSUME IInv, NEW t \in Task, RecNext(t)
  PROVE  IInv' /\ StepOK
  <1>1. /\ iter[t] \in Iter /\ IterOK(t) /\ iter[t].loop = "recNext"
        /\ pc[t] = "recNext"
    BY JobTyped DEF RecNext, IterOK
  <1>2. UNCHANGED <<api, infor, changes>>
    BY DEF RecNext
  <1>3. ASSUME NEW it \in iter[t].todo, ReadOnly(t) \/ ReadFails(t),
               iter' = [iter EXCEPT ![t].todo = @ \ {it}],
               \/ UNCHANGED <<pc, job>>
               \/ /\ Goto(t, "start")
                  /\ job' = [job EXCEPT ![t] =
                               [NoJob EXCEPT !.key = it.key, !.obj = it.obj]]
        PROVE  IInv' /\ StepOK
    <2>. DEFINE i == [iter[t] EXCEPT !.todo = iter[t].todo \ {it}]
    <2>1. /\ i \in Iter /\ i.loop = "recNext" /\ i.names = iter[t].names
          /\ iter' = [iter EXCEPT ![t] = i]
      BY <1>1, <1>3 DEF Iter
    <2>2. StoreOK(t) /\ \A p \in i.names : isControllerOwnedPDB(p)
      BY <1>1, <1>3, <2>1, Reads DEF IterOK
    <2>3. it \in Item
      BY <1>1 DEF Iter
    <2>4. CASE UNCHANGED <<pc, job>>
      <3>1. Goto(t, "recNext") /\ "recNext" \in PC \ (JobPC \cup {"gcSts", "gcDelete"})
        BY <1>1, <2>4 DEF Goto, IInv, TypeOK, PC, JobPC
      <3>. HIDE DEF i
      <3>. QED
        BY <1>2, <2>1, <2>2, <2>4, <3>1, LoopStep
    <2>5. CASE /\ Goto(t, "start")
               /\ job' = [job EXCEPT ![t] =
                            [NoJob EXCEPT !.key = it.key, !.obj = it.obj]]
      <3>. HIDE DEF i
      <3>. QED
        BY <1>2, <2>1, <2>2, <2>3, <2>5, CallStep
    <2>. QED
      BY <1>3, <2>4, <2>5
  <1>4. CASE /\ ReadOnly(t) /\ Goto(t, "recList") /\ UNCHANGED job
             /\ iter' = [iter EXCEPT ![t].kind = "sts"]
    <2>. DEFINE i == [iter[t] EXCEPT !.kind = "sts"]
    <2>1. /\ i \in Iter /\ i.loop = "recNext" /\ i.names = iter[t].names
          /\ iter' = [iter EXCEPT ![t] = i]
      BY <1>1, <1>4 DEF Iter, Kinds
    <2>2. StoreOK(t) /\ \A p \in i.names : isControllerOwnedPDB(p)
      BY <1>1, <1>4, <2>1, Reads DEF IterOK
    <2>3. "recList" \in PC \ (JobPC \cup {"gcSts", "gcDelete"})
      BY DEF PC, JobPC
    <2>. HIDE DEF i
    <2>. QED
      BY <1>2, <1>4, <2>1, <2>2, <2>3, LoopStep
  <1>5. CASE ReadOnly(t) /\ Finish(t)
    BY <1>2, <1>5, Reads, FinishStep
  <1>. QED
    BY <1>3, <1>4, <1>5 DEF RecNext

LEMMA EndScanStep ==
  ASSUME IInv, NEW t \in Task, UNCHANGED <<api, infor, changes>>, StoreOK(t),
         EndScan(t)
  PROVE  IInv' /\ StepOK
  <1>1. CASE Finish(t)
    BY <1>1, FinishStep
  <1>2. CASE /\ Goto(t, "multiList") /\ job' = [job EXCEPT ![t] = NoJob]
             /\ iter' = [iter EXCEPT ![t] = [NoIter EXCEPT !.loop = "multiNext"]]
    <2>. DEFINE i == [NoIter EXCEPT !.loop = "multiNext"]
    <2>1. i \in Iter /\ i.loop = "multiNext" /\ i.names = {}
      BY DEF NoIter, Iter, Loop, Kinds
    <2>2. "multiList" \in PC \ (JobPC \cup {"gcSts", "gcDelete"})
      BY DEF PC, JobPC
    <2>3. iter' = [iter EXCEPT ![t] = i]
      BY <1>2
    <2>. HIDE DEF i
    <2>. QED
      BY <1>2, <2>1, <2>2, <2>3, LoopStep
  <1>. QED
    BY <1>1, <1>2 DEF EndScan

LEMMA ScanListOK ==
  ASSUME IInv, NEW t \in Task, ScanList(t)
  PROVE  IInv' /\ StepOK
  <1>1. /\ iter[t] \in Iter /\ IterOK(t) /\ iter[t].loop = "scanNext"
        /\ iter[t].todo = {}
    BY JobTyped DEF ScanList, IterOK
  <1>2. UNCHANGED <<api, infor, changes>>
    BY DEF ScanList
  <1>3. CASE /\ ReadOnly(t) /\ Goto(t, "scanNext") /\ UNCHANGED job
             /\ iter' = [iter EXCEPT ![t].pdbl = ListedPDBs]
    <2>. DEFINE i == [iter[t] EXCEPT !.pdbl = ListedPDBs]
    <2>1. /\ i \in Iter /\ i.loop = "scanNext" /\ i.names = iter[t].names
          /\ i.todo = {} /\ iter' = [iter EXCEPT ![t] = i]
      BY <1>1, <1>3, ListedType DEF Iter
    <2>2. StoreOK(t) /\ \A p \in i.names : isControllerOwnedPDB(p)
      BY <1>1, <1>3, <2>1, Reads DEF IterOK
    <2>3. "scanNext" \in PC \ (JobPC \cup {"gcSts", "gcDelete"})
      BY DEF PC, JobPC
    <2>. HIDE DEF i
    <2>. QED
      BY <1>2, <1>3, <2>1, <2>2, <2>3, LoopStep
  <1>4. CASE ReadFails(t) /\ EndScan(t)
    BY <1>2, <1>4, Reads, EndScanStep
  <1>. QED
    BY <1>3, <1>4 DEF ScanList

LEMMA ScanObjsOK ==
  ASSUME IInv, NEW t \in Task, ScanObjs(t)
  PROVE  IInv' /\ StepOK
  <1>. DEFINE items == {it \in Listed(iter[t].kind) :
                          ~it.obj.bypass /\ WorkloadSel[it.key] = iter[t].cur.pdb.sel}
  <1>1. /\ iter[t].loop = "scanNext" /\ iter[t].kind \in Kinds
        /\ iter[t].cur \in PDBItem
    BY JobTyped DEF ScanObjs, IterOK, Iter
  <1>2. items \in SUBSET Item
    BY <1>1, ListedType
  <1>3. UNCHANGED <<api, infor, changes>> /\ ListWorkloads(t, items, "scanNext")
    BY DEF ScanObjs
  <1>. QED
    BY <1>1, <1>2, <1>3, ListWorkloadsStep

LEMMA ScanNextOK ==
  ASSUME IInv, NEW t \in Scanner, ScanNext(t)
  PROVE  IInv' /\ StepOK
  <1>0. t \in Task
    BY DEF Task
  <1>1. /\ iter[t] \in Iter /\ IterOK(t) /\ iter[t].loop = "scanNext"
        /\ StoreOK(t)
    BY <1>0, JobTyped, Reads DEF ScanNext, IterOK
  <1>2. UNCHANGED <<api, infor, changes>>
    BY DEF ScanNext
  <1>3. ASSUME NEW it \in iter[t].todo,
               iter' = [iter EXCEPT ![t].todo = @ \ {it}],
               LogAndFix(t, it.key, it.obj, iter[t].cur.name, iter[t].cur.pdb)
        PROVE  IInv' /\ StepOK
    <2>. DEFINE i == [iter[t] EXCEPT !.todo = iter[t].todo \ {it}]
    <2>1. iter[t].cur \in PDBItem /\ it \in Item
      BY <1>1 DEF IterOK, Iter
    <2>2. /\ it.key \in Workload /\ it.obj \in Versions[it.key]
          /\ iter[t].cur.name \in PDBName
      BY <2>1 DEF Item, PDBItem
    <2>3. /\ pc' \in [Task -> PC] /\ job' \in [Task -> Job]
          /\ \A u \in Task \ {t} : pc'[u] = pc[u] /\ job'[u] = job[u]
          /\ pc'[t] \in {"fixPoor", iter[t].loop}
          /\ JobOK(t)' /\ FreshOK(t)'
      BY <1>0, <1>3, <2>2, LogAndFixStep
    <2>4. /\ i \in Iter /\ i.loop = "scanNext" /\ i.names = iter[t].names
          /\ i.cur = iter[t].cur
      BY <1>1 DEF Iter
    <2>5. iter' = [iter EXCEPT ![t] = i]
      BY <1>3
    <2>. HIDE DEF i
    <2>6. Moves(t) /\ iter'[t] = i
      BY <1>0, <2>3, <2>4, <2>5, IterMoves DEF Moves
    <2>7. IterOK(t)'
      BY <1>1, <2>1, <2>3, <2>4, <2>6 DEF IterOK
    <2>. QED
      BY <1>0, <1>1, <1>2, <2>3, <2>6, <2>7, TaskFrame
  <1>4. CASE /\ iter[t].todo = {} /\ iter[t].cur # Nil
             /\ iter' = [iter EXCEPT ![t].kind = "sts"]
             /\ Goto(t, "scanObjs") /\ UNCHANGED job
    <2>. DEFINE i == [iter[t] EXCEPT !.kind = "sts"]
    <2>1. /\ i \in Iter /\ i.loop = "scanNext" /\ i.names = iter[t].names
          /\ i.cur = iter[t].cur
      BY <1>1 DEF Iter, Kinds
    <2>2. iter[t].cur \in PDBItem
      BY <1>1, <1>4 DEF Iter
    <2>3. \A p \in i.names : isControllerOwnedPDB(p)
      BY <1>1, <2>1 DEF IterOK
    <2>4. "scanObjs" \in PC \ (JobPC \cup {"gcSts", "gcDelete"})
      BY DEF PC, JobPC
    <2>5. iter' = [iter EXCEPT ![t] = i]
      BY <1>4
    <2>. HIDE DEF i
    <2>. QED
      BY <1>0, <1>1, <1>2, <1>4, <2>1, <2>2, <2>3, <2>4, <2>5, LoopStep
  <1>5. ASSUME NEW c \in iter[t].pdbl, Goto(t, "scanObjs"), UNCHANGED job,
               iter[t].todo = {},
               iter' = [iter EXCEPT ![t].cur = c, ![t].kind = "deploy",
                                    ![t].pdbl = @ \ {c}]
        PROVE  IInv' /\ StepOK
    <2>. DEFINE i == [iter[t] EXCEPT !.cur = c, !.kind = "deploy",
                                     !.pdbl = iter[t].pdbl \ {c}]
    <2>1. c \in PDBItem
      BY <1>1 DEF Iter
    <2>2. /\ i \in Iter /\ i.loop = "scanNext" /\ i.names = iter[t].names
          /\ i.cur = c
      BY <1>1, <2>1 DEF Iter, Kinds
    <2>3. \A p \in i.names : isControllerOwnedPDB(p)
      BY <1>1, <2>2 DEF IterOK
    <2>4. "scanObjs" \in PC \ (JobPC \cup {"gcSts", "gcDelete"})
      BY DEF PC, JobPC
    <2>5. iter' = [iter EXCEPT ![t] = i]
      BY <1>0, <1>5 DEF IInv, TypeOK
    <2>6. Goto(t, "scanObjs") /\ UNCHANGED job
      BY <1>5
    <2>. HIDE DEF i
    <2>. QED
      BY <1>0, <1>1, <1>2, <2>1, <2>2, <2>3, <2>4, <2>5, <2>6, LoopStep
  <1>6. CASE EndScan(t)
    BY <1>0, <1>1, <1>2, <1>6, EndScanStep
  <1>. QED
    BY <1>3, <1>4, <1>5, <1>6 DEF ScanNext

LEMMA MultiListOK ==
  ASSUME IInv, NEW t \in Task, MultiList(t)
  PROVE  IInv' /\ StepOK
  <1>1. iter[t] \in Iter /\ IterOK(t) /\ iter[t].loop = "multiNext"
    BY JobTyped DEF MultiList, IterOK
  <1>2. UNCHANGED <<api, infor, changes>>
    BY DEF MultiList
  <1>3. CASE /\ ReadOnly(t) /\ Goto(t, "multiObjs") /\ UNCHANGED job
             /\ iter' = [iter EXCEPT ![t].pdbl = ListedPDBs]
    <2>. DEFINE i == [iter[t] EXCEPT !.pdbl = ListedPDBs]
    <2>1. /\ i \in Iter /\ i.loop = "multiNext" /\ i.names = iter[t].names
          /\ iter' = [iter EXCEPT ![t] = i]
      BY <1>1, <1>3, ListedType DEF Iter
    <2>2. StoreOK(t) /\ \A p \in i.names : isControllerOwnedPDB(p)
      BY <1>1, <1>3, <2>1, Reads DEF IterOK
    <2>3. "multiObjs" \in PC \ (JobPC \cup {"gcSts", "gcDelete"})
      BY DEF PC, JobPC
    <2>. HIDE DEF i
    <2>. QED
      BY <1>2, <1>3, <2>1, <2>2, <2>3, LoopStep
  <1>4. CASE ReadFails(t) /\ Finish(t)
    BY <1>2, <1>4, Reads, FinishStep
  <1>. QED
    BY <1>3, <1>4 DEF MultiList

LEMMA MultiObjsOK ==
  ASSUME IInv, NEW t \in Task, MultiObjs(t)
  PROVE  IInv' /\ StepOK
  <1>. DEFINE items == {it \in Listed(iter[t].kind) : ~it.obj.bypass}
  <1>1. iter[t].loop = "multiNext" /\ iter[t].kind \in Kinds
    BY JobTyped DEF MultiObjs, IterOK, Iter
  <1>2. items \in SUBSET Item
    BY <1>1, ListedType
  <1>3. UNCHANGED <<api, infor, changes>> /\ ListWorkloads(t, items, "multiNext")
    BY DEF MultiObjs
  <1>. QED
    BY <1>1, <1>2, <1>3, ListWorkloadsStep

LEMMA MultiNextOK ==
  ASSUME IInv, NEW t \in Task, MultiNext(t)
  PROVE  IInv' /\ StepOK
  <1>1. /\ iter[t] \in Iter /\ IterOK(t) /\ iter[t].loop = "multiNext"
        /\ StoreOK(t)
    BY JobTyped, Reads DEF MultiNext, IterOK
  <1>2. UNCHANGED <<api, infor, changes>>
    BY DEF MultiNext
  <1>3. ASSUME NEW todo \in SUBSET iter[t].todo, NEW names \in SUBSET PDBName,
               \A p \in names : isControllerOwnedPDB(p),
               iter' = [iter EXCEPT ![t].todo = todo, ![t].names = names],
               NEW l \in {"multiNext", "cleanup"}, Goto(t, l), UNCHANGED job
        PROVE  IInv' /\ StepOK
    <2>. DEFINE i == [iter[t] EXCEPT !.todo = todo, !.names = names]
    <2>1. i \in Iter /\ i.loop = "multiNext" /\ i.names = names
      BY <1>1 DEF Iter
    <2>2. l \in PC \ (JobPC \cup {"gcSts", "gcDelete"})
      BY DEF PC, JobPC
    <2>3. iter' = [iter EXCEPT ![t] = i]
      BY <1>3 DEF IInv, TypeOK
    <2>. HIDE DEF i
    <2>. QED
      BY <1>1, <1>2, <1>3, <2>1, <2>2, <2>3, LoopStep
  <1>4. CASE /\ iter' = [iter EXCEPT ![t].kind = "sts"]
             /\ Goto(t, "multiObjs") /\ UNCHANGED job
    <2>. DEFINE i == [iter[t] EXCEPT !.kind = "sts"]
    <2>1. /\ i \in Iter /\ i.loop = "multiNext" /\ i.names = iter[t].names
          /\ iter' = [iter EXCEPT ![t] = i]
      BY <1>1, <1>4 DEF Iter, Kinds
    <2>2. \A p \in i.names : isControllerOwnedPDB(p)
      BY <1>1, <2>1 DEF IterOK
    <2>3. "multiObjs" \in PC \ (JobPC \cup {"gcSts", "gcDelete"})
      BY DEF PC, JobPC
    <2>. HIDE DEF i
    <2>. QED
      BY <1>1, <1>2, <1>4, <2>1, <2>2, <2>3, LoopStep
  <1>5. CASE Finish(t)
    BY <1>1, <1>2, <1>5, FinishStep
  <1>6. CASE \E it \in iter[t].todo :
               LET covering == {c.name : c \in {d \in iter[t].pdbl :
                                          pdbCovers(d.pdb, it.obj.tmpl)}}
               IN  /\ iter' = [iter EXCEPT ![t].todo = @ \ {it},
                                           ![t].names = Leftovers(covering)]
                   /\ Goto(t, IF Leftovers(covering) = {} THEN "multiNext"
                              ELSE "cleanup")
                   /\ UNCHANGED job
    <2>1. PICK it \in iter[t].todo :
            LET covering == {c.name : c \in {d \in iter[t].pdbl :
                                       pdbCovers(d.pdb, it.obj.tmpl)}}
            IN  /\ iter' = [iter EXCEPT ![t].todo = @ \ {it},
                                        ![t].names = Leftovers(covering)]
                /\ Goto(t, IF Leftovers(covering) = {} THEN "multiNext"
                           ELSE "cleanup")
                /\ UNCHANGED job
      BY <1>6
    <2>. DEFINE covering == {c.name : c \in {d \in iter[t].pdbl :
                                       pdbCovers(d.pdb, it.obj.tmpl)}}
                names == Leftovers(covering)  todo == iter[t].todo \ {it}
                l == IF names = {} THEN "multiNext" ELSE "cleanup"
    <2>2. covering \subseteq PDBName
      BY <1>1 DEF Iter, PDBItem
    <2>3. names \in SUBSET PDBName /\ \A p \in names : isControllerOwnedPDB(p)
      BY <2>2 DEF Leftovers
    <2>4. /\ iter' = [iter EXCEPT ![t].todo = todo, ![t].names = names]
          /\ Goto(t, l) /\ UNCHANGED job
      BY <2>1
    <2>5. l \in {"multiNext", "cleanup"} /\ todo \in SUBSET iter[t].todo
      OBVIOUS
    <2>. HIDE DEF names, todo, l
    <2>. QED
      BY <1>3, <2>3, <2>4, <2>5
  <1>. QED
    BY <1>4, <1>5, <1>6 DEF MultiNext

LEMMA GcNextOK ==
  ASSUME IInv, GcNext
  PROVE  IInv' /\ StepOK
  <1>. DEFINE t == "gc"
  <1>0. t \in Task
    BY DEF Task
  <1>1. /\ iter[t] \in Iter /\ IterOK(t) /\ job[t] \in Job
        /\ pc[t] = "gcNext"
    BY <1>0, JobTyped DEF GcNext
  <1>2. UNCHANGED <<api, infor, changes>>
    BY DEF GcNext
  <1>3. ASSUME NEW p \in iter[t].names,
               iter' = [iter EXCEPT ![t].names = @ \ {p}],
               \/ /\ ReadOnly(t) /\ Goto(t, "gcSts")
                  /\ job' = [job EXCEPT ![t].name = p,
                                        ![t].obj = Stored("deploy", p[2])]
               \/ ReadFails(t) /\ UNCHANGED <<pc, job>>
        PROVE  IInv' /\ StepOK
    <2>. DEFINE i == [iter[t] EXCEPT !.names = iter[t].names \ {p}]
    <2>1. /\ i \in Iter /\ i.names \subseteq iter[t].names /\ i.loop = iter[t].loop
          /\ i.todo = iter[t].todo /\ i.cur = iter[t].cur
      BY <1>1 DEF Iter
    <2>2. iter' = [iter EXCEPT ![t] = i]
      BY <1>3
    <2>3. StoreOK(t)
      BY <1>0, <1>3, Reads
    <2>4. p \in PDBName /\ isControllerOwnedPDB(p)
      BY <1>1 DEF Iter, IterOK
    <2>. HIDE DEF i
    <2>5. /\ iter' \in [Task -> Iter] /\ iter'[t] = i
          /\ \A u \in Task \ {t} : iter'[u] = iter[u]
      BY <1>0, <2>1, <2>2, IterMoves
    <2>6. CASE /\ Goto(t, "gcSts")
               /\ job' = [job EXCEPT ![t].name = p,
                                     ![t].obj = Stored("deploy", p[2])]
      <3>. DEFINE k == [job[t] EXCEPT !.name = p, !.obj = Stored("deploy", p[2])]
      <3>1. Stored("deploy", p[2]) \in {Nil} \cup Object
        BY DEF Stored, IInv, TypeOK
      <3>2. k \in Job /\ k.name = p
        BY <1>1, <2>4, <3>1 DEF Job
      <3>3. job' = [job EXCEPT ![t] = k]
        BY <1>0, <2>6 DEF IInv, TypeOK
      <3>. HIDE DEF k
      <3>4. /\ job' \in [Task -> Job] /\ job'[t] = k
            /\ \A u \in Task \ {t} : job'[u] = job[u]
        BY <1>0, <3>2, <3>3, JobMoves
      <3>5. /\ pc' \in [Task -> PC] /\ pc'[t] = "gcSts"
            /\ \A u \in Task \ {t} : pc'[u] = pc[u]
        BY <1>0, <2>6, GotoMoves DEF PC
      <3>6. JobOK(t)' /\ FreshOK(t)'
        BY <2>4, <3>2, <3>4, <3>5 DEF JobOK, JobPC, SelPC, FreshOK
      <3>7. IterOK(t)'
        BY <1>1, <2>1, <2>5, <3>5 DEF IterOK
      <3>. QED
        BY <1>0, <1>2, <2>3, <2>5, <3>4, <3>5, <3>6, <3>7, TaskFrame DEF Moves
    <2>7. CASE UNCHANGED <<pc, job>>
      <3>1. JobOK(t)' /\ FreshOK(t)'
        BY <1>0, <1>1, <2>7, OutsideJob DEF JobPC
      <3>2. IterOK(t)'
        BY <1>1, <2>1, <2>5, <2>7 DEF IterOK
      <3>3. Moves(t)
        BY <2>5, <2>7 DEF Moves, IInv, TypeOK
      <3>. QED
        BY <1>0, <1>2, <2>3, <3>1, <3>2, <3>3, TaskFrame
    <2>. QED
      BY <1>3, <2>6, <2>7
  <1>4. CASE ReadOnly(t) /\ Finish(t)
    BY <1>0, <1>2, <1>4, Reads, FinishStep
  <1>. QED
    BY <1>3, <1>4 DEF GcNext

LEMMA GcStsOK ==
  ASSUME IInv, GcSts
  PROVE  IInv' /\ StepOK
  <1>. DEFINE t == "gc"
  <1>0. t \in Task
    BY DEF Task
  <1>1. /\ job[t] \in Job /\ job[t].name \in PDBName
        /\ isControllerOwnedPDB(job[t].name)
    BY <1>0, JobTyped DEF GcSts, JobOK
  <1>2. UNCHANGED <<api, infor, changes>> /\ UNCHANGED iter
    BY DEF GcSts
  <1>3. CASE ReadOnly(t) /\ Goto(t, "gcDelete") /\ UNCHANGED job
    <2>1. job' = [job EXCEPT ![t] = job[t]] /\ pc'[t] = "gcDelete"
      BY <1>0, <1>3, GotoMoves DEF IInv, TypeOK, PC
    <2>2. JobOK(t)' /\ FreshOK(t)'
      BY <1>1, <1>3, <2>1 DEF JobOK, JobPC, SelPC, FreshOK
    <2>. QED
      BY <1>0, <1>1, <1>2, <1>3, <2>1, <2>2, Reads, JobStep
  <1>4. CASE (ReadOnly(t) \/ ReadFails(t)) /\ Done(t)
    BY <1>0, <1>2, <1>4, Reads, DoneStep
  <1>. QED
    BY <1>3, <1>4 DEF GcSts

LEMMA GcDeleteOK ==
  ASSUME IInv, GcDelete
  PROVE  IInv' /\ StepOK
  <1>0. "gc" \in Task
    BY DEF Task
  <1>1. job["gc"].name \in PDBName /\ isControllerOwnedPDB(job["gc"].name)
    BY <1>0, JobTyped DEF GcDelete, JobOK
  <1>2. StoreOK("gc")
    BY <1>0, <1>1, DeleteOwn DEF GcDelete
  <1>. QED
    BY <1>0, <1>2, DoneStep DEF GcDelete

LEMMA TaskStepOK ==
  ASSUME IInv, NEW t \in Task, TaskStep(t)
  PROVE  IInv' /\ StepOK
  BY CreatePDBForWorkloadOK, RecListOK, RecNextOK, ScanListOK, ScanObjsOK,
     ScanNextOK, MultiListOK, MultiObjsOK, MultiNextOK, GcNextOK, GcStsOK,
     GcDeleteOK
  DEF TaskStep

(***************************************************************************)
(* The tickers and the informers.                                          *)
(***************************************************************************)
LEMMA GcListOK ==
  ASSUME IInv, GcList
  PROVE  IInv' /\ StepOK
  <1>. DEFINE t == "gc"
              own == {p \in PDBName : pdbs[p] # Nil /\ isControllerOwnedPDB(p)}
              i == [iter[t] EXCEPT !.loop = "gcNext", !.names = own]
  <1>0. t \in Task
    BY DEF Task
  <1>1. iter[t] \in Iter
    BY <1>0, JobTyped
  <1>2. i \in Iter /\ i.loop = "gcNext" /\ i.names = own
    BY <1>1 DEF Iter, Loop
  <1>3. iter' = [iter EXCEPT ![t] = i]
    BY <1>0 DEF GcList, IInv, TypeOK
  <1>4. "gcNext" \in PC \ (JobPC \cup {"gcSts", "gcDelete"})
    BY DEF PC, JobPC
  <1>5. /\ UNCHANGED <<api, infor, changes>> /\ UNCHANGED job
        /\ Goto(t, "gcNext") /\ StoreOK(t)
    BY <1>0, ReadStep DEF GcList
  <1>6. \A p \in i.names : isControllerOwnedPDB(p)
    BY <1>2
  <1>. HIDE DEF i
  <1>. QED
    BY <1>0, <1>2, <1>3, <1>4, <1>5, <1>6, LoopStep

LEMMA ScanTickOK ==
  ASSUME IInv, ScanTick
  PROVE  IInv' /\ StepOK
  <1>. DEFINE t == "scanTick"  i == [NoIter EXCEPT !.loop = "scanNext"]
  <1>0. t \in Task
    BY DEF Task, Scanner
  <1>1. i \in Iter /\ i.loop = "scanNext" /\ i.names = {} /\ i.todo = {}
    BY DEF NoIter, Iter, Loop, Kinds
  <1>2. "scanList" \in PC \ (JobPC \cup {"gcSts", "gcDelete"})
    BY DEF PC, JobPC
  <1>3. /\ UNCHANGED <<api, infor, changes>> /\ UNCHANGED job
        /\ Goto(t, "scanList") /\ StoreOK(t) /\ iter' = [iter EXCEPT ![t] = i]
    BY <1>0, ReadStep DEF ScanTick
  <1>. HIDE DEF i
  <1>. QED
    BY <1>0, <1>1, <1>2, <1>3, LoopStep

\* Steps that touch neither PDBs nor tasks.
LEMMA QuietStep ==
  ASSUME IInv, ContextOK', UNCHANGED <<pdbs, pc, job, iter, fresh, faults>>
  PROVE  IInv' /\ StepOK
  <1>1. TypeOK'
    BY DEF IInv, TypeOK, ContextOK
  <1>2. TaskInv'
    BY DEF IInv, TaskInv, JobOK, IterOK, FreshOK
  <1>3. CastaiSelectorSound'
    BY DEF IInv, CastaiSelectorSound
  <1>4. StepOK
    BY DEF StepOK
  <1>. QED
    BY <1>1, <1>2, <1>3, <1>4 DEF IInv

LEMMA EventType ==
  ASSUME IInv, NEW w \in Workload, queue[w] # <<>>
  PROVE  Head(queue[w]) \in Event(w) /\ Tail(queue[w]) \in Seq(Event(w))
  <1>1. queue[w] \in Seq(Event(w))
    BY DEF IInv, TypeOK
  <1>. QED
    BY <1>1

\* A queue with one workload's events replaced.
LEMMA QueueType ==
  ASSUME IInv, NEW w \in Workload, NEW q \in Seq(Event(w)),
         queue' = [queue EXCEPT ![w] = q]
  PROVE  DOMAIN queue' = Workload /\ \A x \in Workload : queue'[x] \in Seq(Event(x))
  BY DEF IInv, TypeOK

LEMMA HandleEventOK ==
  ASSUME IInv, NEW w \in Workload, HandleEvent(w)
  PROVE  IInv' /\ StepOK
  <1>. DEFINE t == w.kind  e == Head(queue[w])  p == CastaiPDB(w.name)
              k == [NoJob EXCEPT !.key = w, !.obj = e.new]
  <1>0. t \in Task
    BY ConstantsAssumption DEF Task, Kinds
  <1>1. e \in Event(w) /\ Tail(queue[w]) \in Seq(Event(w))
    BY EventType DEF HandleEvent
  <1>2. queue' = [queue EXCEPT ![w] = Tail(queue[w])]
    BY DEF HandleEvent
  <1>3. ContextOK'
    <2>1. DOMAIN queue' = Workload /\ \A x \in Workload : queue'[x] \in Seq(Event(x))
      BY <1>1, <1>2, QueueType
    <2>. QED
      BY <2>1 DEF HandleEvent, IInv, TypeOK, ContextOK, api
  <1>4. UNCHANGED iter /\ pc[t] = "idle" /\ IterOK(t)
    BY <1>0, JobTyped DEF HandleEvent
  <1>5. CASE (ReadOnly(t) \/ Delete(t, p) \/ DeleteFails(t, p)) /\ UNCHANGED <<pc, job>>
    <2>1. StoreOK(t)
      BY <1>0, <1>5, CastaiName, DeleteOwn, Reads
    <2>2. JobOK(t)' /\ FreshOK(t)'
      BY <1>0, <1>4, <1>5, OutsideJob DEF JobPC
    <2>3. IterOK(t)'
      BY <1>4, <1>5 DEF IterOK
    <2>4. Moves(t)
      BY <1>4, <1>5 DEF Moves, IInv, TypeOK
    <2>. QED
      BY <1>0, <1>3, <2>1, <2>2, <2>3, <2>4, StepFrame
  <1>6. CASE /\ ~DeletesPDB(e) /\ ~IgnoresEvent(e)
             /\ ReadOnly(t) /\ Goto(t, "start") /\ job' = [job EXCEPT ![t] = k]
    <2>1. e.new \in Versions[w] \cup {Nil} /\ e.tomb \in BOOLEAN
      BY <1>1 DEF Event
    <2>2. e.new # Nil
      BY <1>6, <2>1 DEF DeletesPDB, IgnoresEvent
    <2>3. e.new \in Versions[w] /\ e.new \in Object
      BY <2>1, <2>2, VersionType
    <2>4. k \in Job /\ k.key = w /\ k.obj = e.new
      BY <2>3, NoJobType DEF Job
    <2>5. /\ pc' \in [Task -> PC] /\ pc'[t] = "start"
          /\ \A u \in Task \ {t} : pc'[u] = pc[u]
      BY <1>0, <1>6, GotoMoves DEF PC
    <2>6. /\ job' \in [Task -> Job] /\ job'[t] = k
          /\ \A u \in Task \ {t} : job'[u] = job[u]
      BY <1>0, <1>6, <2>4, JobMoves
    <2>7. JobOK(t)' /\ FreshOK(t)'
      BY <2>3, <2>4, <2>5, <2>6 DEF JobOK, JobPC, SelPC, FreshOK
    <2>8. IterOK(t)' /\ Moves(t)
      BY <1>4, <2>5, <2>6 DEF IterOK, Moves, IInv, TypeOK
    <2>. QED
      BY <1>0, <1>3, <1>6, <2>7, <2>8, Reads, StepFrame
  <1>. QED
    BY <1>5, <1>6 DEF HandleEvent

LEMMA ResyncOK ==
  ASSUME IInv, NEW w \in Workload, Resync(w)
  PROVE  IInv' /\ StepOK
  <1>. DEFINE e == [old |-> workloads[w], new |-> workloads[w], tomb |-> FALSE]
  <1>1. e \in Event(w)
    BY DEF Event, IInv, TypeOK
  <1>2. <<e>> \in Seq(Event(w))
    BY <1>1
  <1>3. DOMAIN queue' = Workload /\ \A x \in Workload : queue'[x] \in Seq(Event(x))
    BY <1>2, QueueType DEF Resync
  <1>4. ContextOK'
    BY <1>3 DEF Resync, IInv, TypeOK, ContextOK, api
  <1>. QED
    BY <1>4, QuietStep DEF Resync

(***************************************************************************)
(* A task at the start of a loop, or with nothing to do.                   *)
(***************************************************************************)
AtStart(t) ==
  \/ pc'[t] = "idle" /\ iter'[t] = NoIter
  \/ pc'[t] = "recList" /\ iter'[t] = [NoIter EXCEPT !.loop = "recNext"]
  \/ pc'[t] = "scanList" /\ iter'[t] = [NoIter EXCEPT !.loop = "scanNext"]

LEMMA AtStartOK ==
  ASSUME NEW t \in Task, AtStart(t)
  PROVE  /\ pc'[t] \in PC /\ iter'[t] \in Iter
         /\ JobOK(t)' /\ IterOK(t)' /\ FreshOK(t)'
  <1>1. pc'[t] \in {"idle", "recList", "scanList"}
    BY DEF AtStart
  <1>2. /\ iter'[t] \in Iter /\ iter'[t].names = {} /\ iter'[t].todo = {}
        /\ pc'[t] = "recList" => iter'[t].loop = "recNext"
        /\ pc'[t] = "scanList" => iter'[t].loop = "scanNext"
    BY DEF AtStart, NoIter, Iter, Loop, Kinds
  <1>3. JobOK(t)' /\ FreshOK(t)'
    BY <1>1, OutsideJob DEF JobPC
  <1>4. IterOK(t)'
    BY <1>1, <1>2 DEF IterOK
  <1>. QED
    BY <1>1, <1>2, <1>3, <1>4 DEF PC

LEMMA StartTasks ==
  ASSUME IInv, ContextOK', UNCHANGED pdbs, fresh' \subseteq fresh,
         faults' \in 0..MaxFaults, job' \in [Task -> Job],
         DOMAIN pc' = Task, DOMAIN iter' = Task,
         pc' = [t \in Task |-> pc'[t]], iter' = [t \in Task |-> iter'[t]],
         \A t \in Task : \/ AtStart(t)
                         \/ /\ pc'[t] = pc[t] /\ iter'[t] = iter[t]
                            /\ job'[t] = job[t]
  PROVE  IInv' /\ StepOK
  <1>1. ASSUME NEW t \in Task
        PROVE  /\ pc'[t] \in PC /\ iter'[t] \in Iter
               /\ JobOK(t)' /\ IterOK(t)' /\ FreshOK(t)'
    <2>1. CASE AtStart(t)
      BY <2>1, AtStartOK
    <2>2. CASE pc'[t] = pc[t] /\ iter'[t] = iter[t] /\ job'[t] = job[t]
      BY <2>2, JobTyped DEF JobOK, IterOK, FreshOK
    <2>. QED
      BY <2>1, <2>2
  <1>2. pc' \in [Task -> PC] /\ iter' \in [Task -> Iter]
    BY <1>1
  <1>3. TypeOK'
    BY <1>2 DEF ContextOK, IInv, TypeOK
  <1>4. TaskInv'
    BY <1>1 DEF TaskInv
  <1>5. CastaiSelectorSound' /\ StepOK
    BY DEF IInv, CastaiSelectorSound, StepOK
  <1>. QED
    BY <1>3, <1>4, <1>5 DEF IInv

LEMMA HandleConfigMapOK ==
  ASSUME IInv, HandleConfigMap
  PROVE  IInv' /\ StepOK
  <1>. DEFINE cm == Head(cmQueue)
  <1>1. cmQueue \in Seq({Nil} \cup RawConfig) /\ cmQueue # <<>>
    BY DEF HandleConfigMap, IInv, TypeOK
  <1>2. cm \in {Nil} \cup RawConfig /\ Tail(cmQueue) \in Seq({Nil} \cup RawConfig)
    BY <1>1
  <1>3. cfg' \in Config
    BY <1>2, ParseConfigType, ResetConfigType DEF HandleConfigMap
  <1>4. ContextOK'
    BY <1>2, <1>3 DEF HandleConfigMap, IInv, TypeOK, ContextOK, api
  <1>5. CASE UNCHANGED <<pc, iter>>
    BY <1>4, <1>5, QuietStep DEF HandleConfigMap
  <1>6. CASE /\ pc' = [t \in Task |->
                         IF t \notin Active \cap {"reconcile", "scanOnce"} THEN pc[t]
                         ELSE IF t = "reconcile" THEN "recList"
                         ELSE "scanList"]
             /\ iter' = [t \in Task |->
                           IF t \notin Active \cap {"reconcile", "scanOnce"} THEN iter[t]
                           ELSE IF t = "reconcile"
                           THEN [NoIter EXCEPT !.loop = "recNext"]
                           ELSE [NoIter EXCEPT !.loop = "scanNext"]]
    <2>1. \A t \in Task : AtStart(t) \/ (pc'[t] = pc[t] /\ iter'[t] = iter[t])
      BY <1>6 DEF AtStart
    <2>2. /\ UNCHANGED <<pdbs, fresh, job, faults>>
          /\ job' \in [Task -> Job] /\ faults' \in 0..MaxFaults
      BY DEF HandleConfigMap, IInv, TypeOK
    <2>3. /\ DOMAIN pc' = Task /\ DOMAIN iter' = Task
          /\ pc' = [t \in Task |-> pc'[t]] /\ iter' = [t \in Task |-> iter'[t]]
      BY <1>6
    <2>. QED
      BY <1>4, <2>1, <2>2, <2>3, StartTasks
  <1>. QED
    BY <1>5, <1>6 DEF HandleConfigMap

LEMMA StartLeadingOK ==
  ASSUME IInv, StartLeading
  PROVE  IInv' /\ StepOK
  <1>1. \A t \in Task : AtStart(t)
    BY DEF StartLeading, AtStart
  <1>2. /\ DOMAIN pc' = Task /\ DOMAIN iter' = Task
        /\ pc' = [t \in Task |-> pc'[t]] /\ iter' = [t \in Task |-> iter'[t]]
    BY DEF StartLeading
  <1>3. \A w \in Workload : queue'[w] \in Seq(Event(w))
    <2>. TAKE w \in Workload
    <2>1. [old |-> Nil, new |-> workloads[w], tomb |-> FALSE] \in Event(w)
      BY DEF Event, IInv, TypeOK
    <2>2. <<[old |-> Nil, new |-> workloads[w], tomb |-> FALSE]>> \in Seq(Event(w))
      BY <2>1
    <2>3. <<>> \in Seq(Event(w))
      OBVIOUS
    <2>. QED
      BY <2>2, <2>3 DEF StartLeading, WorkloadAdds
  <1>4. cmQueue' \in Seq({Nil} \cup RawConfig)
    <2>1. configMap \in {Nil} \cup RawConfig
      BY DEF IInv, TypeOK
    <2>2. <<configMap>> \in Seq({Nil} \cup RawConfig)
      BY <2>1
    <2>3. <<>> \in Seq({Nil} \cup RawConfig)
      OBVIOUS
    <2>. QED
      BY <2>2, <2>3 DEF StartLeading, ConfigMapAdds
  <1>5. ContextOK'
    BY <1>3, <1>4 DEF StartLeading, WorkloadAdds, IInv, TypeOK, ContextOK, api
  <1>6. /\ UNCHANGED <<pdbs, fresh, job, faults>>
        /\ job' \in [Task -> Job] /\ faults' \in 0..MaxFaults
    BY DEF StartLeading, IInv, TypeOK
  <1>. QED
    BY <1>1, <1>2, <1>5, <1>6, StartTasks

LEMMA CrashOK ==
  ASSUME IInv, Crash
  PROVE  IInv' /\ StepOK
  <1>1. \A t \in Task : AtStart(t)
    BY DEF Crash, AtStart
  <1>2. /\ DOMAIN pc' = Task /\ DOMAIN iter' = Task
        /\ pc' = [t \in Task |-> pc'[t]] /\ iter' = [t \in Task |-> iter'[t]]
    BY DEF Crash
  <1>3. cfg' \in Config
    BY ConfigOfType, ResetConfigType DEF Crash, IInv, TypeOK
  <1>4. ContextOK'
    <2>1. /\ cmQueue' \in Seq({Nil} \cup RawConfig) /\ DOMAIN queue' = Workload
          /\ \A w \in Workload : queue'[w] \in Seq(Event(w))
      BY DEF Crash
    <2>. QED
      BY <1>3, <2>1 DEF Crash, IInv, TypeOK, ContextOK, api
  <1>5. job' \in [Task -> Job] /\ UNCHANGED pdbs /\ fresh' \subseteq fresh
    BY NoJobType DEF Crash
  <1>6. faults' \in 0..MaxFaults
    BY ConstantsAssumption DEF Crash, Fault, IInv, TypeOK
  <1>. QED
    BY <1>1, <1>2, <1>4, <1>5, <1>6, StartTasks

(***************************************************************************)
(* Users.                                                                  *)
(***************************************************************************)
LEMMA ChangeType ==
  ASSUME IInv, Change
  PROVE  changes' \in 0..MaxChanges /\ changes' # changes
  BY ConstantsAssumption DEF Change, IInv, TypeOK

LEMMA NotifyType ==
  ASSUME IInv, NEW w \in Workload, NEW e \in Event(w), Notify(w, e)
  PROVE  DOMAIN queue' = Workload /\ \A x \in Workload : queue'[x] \in Seq(Event(x))
  <1>1. queue[w] \in Seq(Event(w))
    BY DEF IInv, TypeOK
  <1>2. Append(queue[w], e) \in Seq(Event(w))
    BY <1>1
  <1>3. PICK q \in Seq(Event(w)) : queue' = [queue EXCEPT ![w] = q]
    BY <1>1, <1>2 DEF Notify
  <1>. QED
    BY <1>3, QueueType

LEMMA ChangeWorkloadOK ==
  ASSUME IInv, NEW w \in Workload, ChangeWorkload(w) \/ DeleteWorkload(w)
  PROVE  IInv' /\ changes' # changes
  <1>1. changes' \in 0..MaxChanges /\ changes' # changes
    BY ChangeType DEF ChangeWorkload, DeleteWorkload
  <1>2. PICK o \in Versions[w] \cup {Nil}, tomb \in BOOLEAN :
          /\ workloads' = [workloads EXCEPT ![w] = o]
          /\ Notify(w, [old |-> workloads[w], new |-> o, tomb |-> tomb])
    BY DEF ChangeWorkload, DeleteWorkload
  <1>3. workloads[w] \in Versions[w] \cup {Nil}
    BY DEF IInv, TypeOK
  <1>4. [old |-> workloads[w], new |-> o, tomb |-> tomb] \in Event(w)
    BY <1>3 DEF Event
  <1>5. DOMAIN queue' = Workload /\ \A x \in Workload : queue'[x] \in Seq(Event(x))
    BY <1>2, <1>4, NotifyType
  <1>6. o \in {Nil} \cup Object
    BY VersionType
  <1>7. /\ workloads' \in [Workload -> {Nil} \cup Object]
        /\ \A x \in Workload : workloads'[x] \in Versions[x] \cup {Nil}
    BY <1>2, <1>6 DEF IInv, TypeOK
  <1>8. ContextOK'
    BY <1>1, <1>5, <1>7
    DEF ChangeWorkload, DeleteWorkload, IInv, TypeOK, ContextOK
  <1>. QED
    BY <1>1, <1>8, QuietStep DEF ChangeWorkload, DeleteWorkload

LEMMA ChangeConfigMapOK ==
  ASSUME IInv, NEW cm \in ConfigMaps, ChangeConfigMap(cm)
  PROVE  IInv' /\ changes' # changes
  <1>1. changes' \in 0..MaxChanges /\ changes' # changes
    BY ChangeType DEF ChangeConfigMap
  <1>2. cm \in {Nil} \cup RawConfig /\ cmQueue \in Seq({Nil} \cup RawConfig)
    BY ConstantsAssumption DEF IInv, TypeOK
  <1>3. Append(cmQueue, cm) \in Seq({Nil} \cup RawConfig)
    BY <1>2
  <1>4. ContextOK'
    BY <1>1, <1>2, <1>3 DEF ChangeConfigMap, IInv, TypeOK, ContextOK
  <1>. QED
    BY <1>1, <1>4, QuietStep DEF ChangeConfigMap

LEMMA ChangePDBOK ==
  ASSUME IInv, NEW u \in UserWrites, ChangePDB(u[1], u[2])
  PROVE  IInv' /\ changes' # changes
  <1>. DEFINE p == u[1]  v == u[2]
  <1>1. changes' \in 0..MaxChanges /\ changes' # changes
    BY ChangeType DEF ChangePDB
  <1>2. p \in PDBName /\ v \in {Nil} \cup PDB /\ (v # Nil => ValidBudget(v))
    BY ConstantsAssumption
  <1>3. v # Nil => v.sel \in GivenSelectors(p)
    BY DEF GivenSelectors
  <1>4. /\ pdbs' = [pdbs EXCEPT ![p] = v] /\ UNCHANGED <<api, infor, pc, job, iter, faults>>
        /\ fresh' = {x \in fresh : job[x].name # p}
    BY DEF ChangePDB
  <1>. HIDE DEF p, v
  <1>5. /\ pdbs' \in [PDBName -> {Nil} \cup PDB]
        /\ pdbs'[p] = v /\ \A q \in PDBName \ {p} : pdbs'[q] = pdbs[q]
    BY <1>2, <1>4 DEF IInv, TypeOK
  <1>6. TypeOK'
    <2>1. \A q \in PDBName : pdbs'[q] # Nil => ValidBudget(pdbs'[q])
      BY <1>2, <1>5 DEF IInv, TypeOK
    <2>. QED
      BY <1>1, <1>4, <1>5, <2>1 DEF IInv, TypeOK, api, infor
  <1>7. TaskInv'
    <2>. SUFFICES ASSUME NEW t \in Task
                  PROVE  JobOK(t)' /\ IterOK(t)' /\ FreshOK(t)'
      BY DEF TaskInv
    <2>1. JobOK(t) /\ IterOK(t) /\ FreshOK(t)
      BY JobTyped
    <2>2. JobOK(t)' /\ IterOK(t)'
      BY <1>4, <2>1 DEF JobOK, IterOK
    <2>3. pc[t] \in {"resolveUpdate", "resolveCreate", "update"}
            => job[t].name \in PDBName
      BY <2>1, CastaiName DEF JobOK, JobPC
    <2>4. FreshOK(t)'
      BY <1>4, <1>5, <2>1, <2>3 DEF FreshOK
    <2>. QED
      BY <2>2, <2>4
  <1>8. CastaiSelectorSound'
    BY <1>3, <1>5 DEF IInv, CastaiSelectorSound
  <1>. QED
    BY <1>1, <1>6, <1>7, <1>8 DEF IInv

(***************************************************************************)
(* The induction.                                                          *)
(***************************************************************************)
LEMMA InitIInv == Init => IInv
  <1>. SUFFICES ASSUME Init
                PROVE  IInv
    OBVIOUS
  <1>1. /\ workloads \in [Workload -> {Nil} \cup Object]
        /\ \A w \in Workload : workloads[w] \in Versions[w] \cup {Nil}
    BY ConstantsAssumption DEF Init
  <1>2. /\ pdbs \in [PDBName -> {Nil} \cup PDB]
        /\ \A p \in PDBName : pdbs[p] # Nil => ValidBudget(pdbs[p])
    BY ConstantsAssumption DEF Init
  <1>3. cfg \in Config /\ configMap \in {Nil} \cup RawConfig
    BY ConstantsAssumption, ConfigOfType DEF Init
  <1>4. /\ DOMAIN queue = Workload /\ cmQueue \in Seq({Nil} \cup RawConfig)
        /\ \A w \in Workload : queue[w] \in Seq(Event(w))
    BY DEF Init
  <1>5. /\ pc \in [Task -> PC] /\ job \in [Task -> Job] /\ iter \in [Task -> Iter]
    BY NoJobType DEF Init, PC
  <1>6. TypeOK
    <2>1. changes \in 0..MaxChanges /\ faults \in 0..MaxFaults
      BY ConstantsAssumption DEF Init
    <2>2. leader \in BOOLEAN /\ fresh \subseteq Task
      BY DEF Init
    <2>. QED
      BY <1>1, <1>2, <1>3, <1>4, <1>5, <2>1, <2>2 DEF TypeOK
  <1>7. TaskInv
    BY DEF Init, TaskInv, JobOK, IterOK, FreshOK, NoIter, JobPC, SelPC
  <1>8. CastaiSelectorSound
    BY DEF Init, CastaiSelectorSound, GivenSelectors
  <1>. QED
    BY <1>6, <1>7, <1>8 DEF IInv

LEMMA NextIInv ==
  ASSUME IInv, [Next]_vars
  PROVE  IInv' /\ (changes' = changes => StepOK)
  <1>1. CASE \E t \in Active : TaskStep(t)
    BY <1>1, Tasks, TaskStepOK
  <1>2. CASE \E w \in Workload : HandleEvent(w) \/ Resync(w)
    BY <1>2, HandleEventOK, ResyncOK
  <1>3. CASE HandleConfigMap \/ GcList \/ ScanTick \/ StartLeading \/ Crash
    BY <1>3, HandleConfigMapOK, GcListOK, ScanTickOK, StartLeadingOK, CrashOK
  <1>4. CASE UserStep
    BY <1>4, ChangeWorkloadOK, ChangePDBOK, ChangeConfigMapOK DEF UserStep
  <1>5. CASE UNCHANGED vars
    <2>1. ContextOK' /\ UNCHANGED <<pdbs, pc, job, iter, fresh, faults>>
      BY <1>5 DEF vars, ContextOK, IInv, TypeOK
    <2>. QED
      BY <2>1, QuietStep
  <1>. QED
    BY <1>1, <1>2, <1>3, <1>4, <1>5 DEF Next

\* Every interleaving of the leader's goroutines, crashes, lost answers and
\* user changes keeps the inductive invariant.
THEOREM Invariance == Spec => []IInv
  <1>1. IInv /\ [Next]_vars => IInv'
    BY NextIInv
  <1>. QED
    BY InitIInv, <1>1, PTL DEF Spec

\* The variables of the controller and of the cluster keep their shapes.
THEOREM TypeCorrect == Spec => []TypeOK
  <1>1. IInv => TypeOK
    BY DEF IInv
  <1>. QED
    BY Invariance, <1>1, PTL

\* What each goroutine knows of its own locals and of the PDB it is about to
\* write holds whatever the other goroutines and the users do meanwhile.
THEOREM TasksConsistent == Spec => []TaskInv
  <1>1. IInv => TaskInv
    BY DEF IInv
  <1>. QED
    BY Invariance, <1>1, PTL

\* A castai-*-pdb selects the pods of the workload it is named after, or has a
\* selector that a user gave it.
THEOREM SelectorsSound == Spec => []CastaiSelectorSound
  <1>1. IInv => CastaiSelectorSound
    BY DEF IInv
  <1>. QED
    BY Invariance, <1>1, PTL

\* No step of the controller rewrites the selector of a PDB in place.
THEOREM SelectorsImmutable == Spec => SelectorNeverRewritten
  <1>1. IInv /\ [Next]_vars =>
          [changes' = changes =>
             \A p \in PDBName :
               pdbs[p] # Nil /\ pdbs'[p] # Nil /\ pdbs[p].sel # Nil =>
                 pdbs'[p].sel = pdbs[p].sel]_vars
    BY NextIInv DEF StepOK
  <1>. QED
    BY Invariance, <1>1, PTL DEF Spec, SelectorNeverRewritten

\* The only thing the controller ever does to a PDB that is not named
\* castai-*-pdb is to delete it in a scan for poor PDBs.
THEOREM ForeignSafe == Spec => ForeignOnlyFixedByScan
  <1>1. IInv /\ [Next]_vars =>
          [changes' = changes =>
             \A p \in ForeignPDB :
               pdbs'[p] # pdbs[p] =>
                 /\ pdbs'[p] = Nil
                 /\ \E t \in Scanner : pc[t] = "fixPoor" /\ job[t].name = p]_vars
    BY NextIInv DEF StepOK
  <1>. QED
    BY Invariance, <1>1, PTL DEF Spec, ForeignOnlyFixedByScan
=============================================================================
