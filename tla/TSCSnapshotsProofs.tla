------------------------- MODULE TSCSnapshotsProofs -------------------------
(***************************************************************************)
(* Proofs about TSCSnapshots, for every set of replicas, capturing         *)
(* threads, workloads and constraints, every ConfigMap and every bound.    *)
(*                                                                         *)
(* The argument is one of rely and guarantee.  A step changes one snapshot *)
(* or one workload in one of a few ways (ClusterStep); each of them leaves *)
(* alone what the other threads rely on (Rely) and keeps what holds of the *)
(* cluster; so an action is left with its thread's own knowledge.          *)
(***************************************************************************)
EXTENDS TSCSnapshots, TSCConfigProofs

(***************************************************************************)
(* Configurations, threads and names.                                      *)
(***************************************************************************)
\* Whatever a ConfigMap says, the configuration is well formed.
LEMMA LoadedConfigType == \A cm : LoadedConfig(cm) \in Config
  BY ConfigTyped DEF LoadedConfig

LEMMA Threads ==
  /\ \A r \in Replica : Main(r) \in Thread /\ Rollback(r) \in Thread
  /\ Capturers \subseteq Thread
  /\ \A t \in Thread :
       \/ t[1] = "main" /\ \E r \in Replica : t = Main(r)
       \/ t[1] = "rollback" /\ \E r \in Replica : t = Rollback(r)
       \/ t[1] = "capture" /\ t \in Capturers
  BY ConstantsAssumption DEF Thread, Main, Rollback

LEMMA Names ==
  /\ \A n \in SnapName : n = <<n[1], n[2]>> /\ n[1] \in Workload /\ n[2] \in 1..MaxUid
  /\ \A w \in Workload, u \in 1..MaxUid :
       <<w, u>> \in SnapName /\ <<w, u>>[1] = w /\ <<w, u>>[2] = u
  BY DEF SnapName

(***************************************************************************)
(* The ways in which a step changes the cluster.                           *)
(***************************************************************************)
Creates(n) ==
  /\ snaps[n] = Nil
  /\ snaps'[n] \in Snapshot
  /\ ~snaps'[n].fin /\ ~snaps'[n].ready /\ snaps'[n].rolledBack = "Unknown"
  /\ Existing(n) /\ ~Tracked(n)
  /\ ~RollbackOnly
  /\ OriginalsKnown => snaps'[n].tscs # Injected

Discards(n) == snaps[n] # Nil /\ ~snaps[n].fin /\ snaps'[n] = Nil

Releases(n) ==
  /\ Guarded(n)
  /\ snaps'[n] \in {Nil, [snaps[n] EXCEPT !.fin = FALSE]}
  /\ OriginalsKnown => Settled(n)
  /\ RollbackOnly => Finished(n)
  /\ CaptureOnly => ~Live(n)

Guards(n) == snaps[n] # Nil /\ snaps'[n] = [snaps[n] EXCEPT !.fin = TRUE]

Marks(n) ==
  /\ snaps[n] # Nil
  /\ snaps'[n] \in Snapshot
  /\ snaps'[n].tscs = snaps[n].tscs /\ snaps'[n].fin = snaps[n].fin
  /\ IsRolledBack(snaps[n]) => IsRolledBack(snaps'[n])
  /\ IsRolledBack(snaps'[n]) => \/ IsRolledBack(snaps[n])
                                \/ ~CaptureOnly /\ (OriginalsKnown => Settled(n))
  /\ snaps'[n].ready => \/ snaps[n].ready
                        \/ ~RollbackOnly /\ (CaptureOnly /\ Live(n) => Guarded(n))

SnapStep(n) ==
  /\ \A m \in SnapName \ {n} : snaps'[m] = snaps[m]
  /\ Creates(n) \/ Discards(n) \/ Releases(n) \/ Guards(n) \/ Marks(n)
  /\ snaps' \in [SnapName -> {Nil} \cup Snapshot]
  /\ UNCHANGED <<workloads, lastUid>>

Retouches(w) ==
  /\ workloads[w] # Nil
  /\ \E v \in TSC : /\ OriginalsKnown \/ CaptureOnly => v # Injected
                    /\ workloads'[w] = [workloads[w] EXCEPT !.tscs = v]
  /\ UNCHANGED lastUid

Unmanages(w) ==
  /\ workloads[w] # Nil
  /\ workloads[w].managed => snaps[<<w, workloads[w].uid>>] = Nil
  /\ workloads'[w] = [workloads[w] EXCEPT !.managed = FALSE]
  /\ UNCHANGED lastUid

Removes(w) == workloads'[w] = Nil /\ UNCHANGED lastUid

Adds(w) ==
  /\ workloads[w] = Nil
  /\ lastUid[w] < MaxUid
  /\ lastUid' = [lastUid EXCEPT ![w] = @ + 1]
  /\ \E v \in TSC : /\ v # Injected
                    /\ workloads'[w] = [uid |-> lastUid[w] + 1, tscs |-> v,
                                        managed |-> FALSE]

WorkloadStep(w) ==
  /\ \A x \in Workload \ {w} : workloads'[x] = workloads[x]
  /\ Retouches(w) \/ Unmanages(w) \/ Removes(w) \/ Adds(w)
  /\ workloads' \in [Workload -> {Nil} \cup Object]
  /\ UNCHANGED snaps

\* A copy keeps its resourceVersion only as long as the object is the same.
CopiesStale(T) ==
  /\ fresh' \subseteq Thread \X SnapName
  /\ \A u \in T, n \in SnapName :
       <<u, n>> \in fresh' => <<u, n>> \in fresh /\ snaps'[n] = snaps[n]

ClusterStep(T) ==
  /\ configMap' \in ConfigMaps \cup {InitConfigMap}
  /\ CopiesStale(T)
  /\ \/ UNCHANGED <<workloads, snaps, lastUid>>
     \/ \E n \in SnapName : SnapStep(n)
     \/ \E w \in Workload : WorkloadStep(w)

(***************************************************************************)
(* What the threads in T, which do not move, rely on.                      *)
(***************************************************************************)
Rely(T) ==
  /\ \A n \in SnapName : Existing(n) => Existing(n)'
  /\ \A n \in SnapName : Existing(n) /\ ~Live(n) => ~Live(n)'
  /\ \A w \in Workload :
       workloads'[w] # Nil /\ workloads'[w].managed =>
         /\ workloads[w] # Nil /\ workloads[w].managed
         /\ workloads'[w].uid = workloads[w].uid
  /\ OriginalsKnown =>
       \A n \in SnapName : Existing(n) /\ Settled(n) => Settled(n)'
  /\ RollbackOnly =>
       \A n \in SnapName : Existing(n) /\ Finished(n) => Finished(n)'
  /\ CaptureOnly =>
       \A n \in SnapName : Existing(n) /\ Live(n)' /\ Guarded(n) => Guarded(n)'
  /\ \A n \in SnapName : Tracked(n)' /\ snaps[n] = Nil => snaps'[n] = Nil
  /\ CopiesStale(T)

\* What the action properties ask of the step.
StepOK ==
  /\ \A n \in SnapName :
       snaps[n] # Nil /\ IsRolledBack(snaps[n]) /\ snaps'[n] # Nil =>
         IsRolledBack(snaps'[n])
  /\ Apart =>
       \A n \in SnapName :
         /\ snaps[n] # Nil /\ snaps[n].fin
         /\ snaps'[n] = Nil \/ ~snaps'[n].fin
         => IsRolledBack(snaps[n]) \/ ~Live(n)
  /\ \A w \in Workload :
       /\ workloads[w] # Nil /\ workloads[w].managed
       /\ workloads'[w] # Nil /\ ~workloads'[w].managed
       => snaps[<<w, workloads[w].uid>>] = Nil

Kept(T) ==
  /\ workloads' \in [Workload -> {Nil} \cup Object]
  /\ snaps' \in [SnapName -> {Nil} \cup Snapshot]
  /\ lastUid' \in [Workload -> 0..MaxUid]
  /\ configMap' \in {Nil} \cup RawConfig
  /\ Rely(T) /\ ClusterOK' /\ StepOK

LEMMA SnapshotFields ==
  ASSUME NEW s \in Snapshot
  PROVE  /\ s.tscs \in TSC /\ s.ready \in BOOLEAN /\ s.fin \in BOOLEAN
         /\ s.deleting \in BOOLEAN /\ s.rolledBack \in Status
         /\ s # Nil
  BY NilAssumption DEF Snapshot

SameButFin(s, v) ==
  /\ v \in Snapshot
  /\ v.tscs = s.tscs /\ v.ready = s.ready
  /\ v.rolledBack = s.rolledBack /\ v.deleting = s.deleting

LEMMA FinalizerAdded ==
  ASSUME NEW s \in Snapshot, NEW v, v = [s EXCEPT !.fin = TRUE]
  PROVE  SameButFin(s, v) /\ v.fin
  BY DEF Snapshot, SameButFin

LEMMA FinalizerRemoved ==
  ASSUME NEW s \in Snapshot, NEW v, v = [s EXCEPT !.fin = FALSE]
  PROVE  SameButFin(s, v) /\ ~v.fin
  BY DEF Snapshot, SameButFin

\* Of the snapshot that a step changes.
LEMMA SnapStepFacts ==
  ASSUME IInv, NEW n \in SnapName, SnapStep(n)
  PROVE  /\ snaps'[n] # Nil /\ snaps[n] # Nil =>
              /\ snaps'[n].tscs = snaps[n].tscs
              /\ IsRolledBack(snaps[n]) => IsRolledBack(snaps'[n])
         /\ snaps[n] = Nil /\ snaps'[n] # Nil => Creates(n)
         /\ Guarded(n) /\ ~Guarded(n)' => Releases(n)
         /\ snaps'[n] # Nil /\ IsRolledBack(snaps'[n]) =>
              \/ snaps[n] # Nil /\ IsRolledBack(snaps[n])
              \/ ~CaptureOnly /\ (OriginalsKnown => Settled(n))
         /\ snaps'[n] # Nil /\ snaps'[n].ready =>
              \/ snaps[n] # Nil /\ snaps[n].ready
              \/ ~RollbackOnly /\ (CaptureOnly /\ Live(n) => Guarded(n)')
  <1>1. snaps[n] \in {Nil} \cup Snapshot /\ snaps'[n] \in {Nil} \cup Snapshot
    BY DEF IInv, TypeOK, SnapStep
  <1>2. CASE Creates(n)
    BY <1>1, <1>2, SnapshotFields DEF Creates, IsRolledBack, Guarded
  <1>3. CASE Discards(n)
    BY <1>1, <1>3, SnapshotFields DEF Discards, IsRolledBack, Guarded
  <1>4. CASE Releases(n)
    <2>1. CASE snaps'[n] = Nil
      BY <1>1, <1>4, <2>1, SnapshotFields DEF Releases, IsRolledBack, Guarded
    <2>2. CASE snaps'[n] = [snaps[n] EXCEPT !.fin = FALSE]
      <3>1. snaps[n] \in Snapshot
        BY <1>1, <1>4 DEF Releases, Guarded
      <3>2. SameButFin(snaps[n], snaps'[n]) /\ ~snaps'[n].fin
        BY <2>2, <3>1, FinalizerRemoved
      <3>. QED
        BY <1>4, <3>1, <3>2, SnapshotFields DEF SameButFin, IsRolledBack, Guarded
    <2>. QED
      BY <1>4, <2>1, <2>2 DEF Releases
  <1>5. CASE Guards(n)
    <2>1. /\ snaps[n] \in Snapshot /\ snaps[n] # Nil
          /\ snaps'[n] = [snaps[n] EXCEPT !.fin = TRUE]
      BY <1>1, <1>5 DEF Guards
    <2>2. SameButFin(snaps[n], snaps'[n]) /\ snaps'[n].fin
      BY <2>1, FinalizerAdded
    <2>. QED
      BY <2>1, <2>2, SnapshotFields DEF SameButFin, IsRolledBack, Guarded
  <1>6. CASE Marks(n)
    BY <1>1, <1>6, SnapshotFields DEF Marks, IsRolledBack, Guarded
  <1>. QED
    BY <1>2, <1>3, <1>4, <1>5, <1>6 DEF SnapStep

LEMMA LiveUid ==
  ASSUME IInv, NEW n \in SnapName
  PROVE  /\ n[1] \in Workload /\ n[2] \in 1..MaxUid
         /\ lastUid[n[1]] \in 0..MaxUid
         /\ Live(n) => Existing(n) /\ n[2] = lastUid[n[1]]
         /\ snaps[n] # Nil => Existing(n) /\ snaps[n] \in Snapshot
         /\ workloads[n[1]] # Nil => workloads[n[1]] \in Object
  BY Names, ConstantsAssumption DEF IInv, TypeOK, ClusterOK, Live, Existing, Object

LEMMA SnapStepKept ==
  ASSUME IInv, NEW T, NEW n \in SnapName, SnapStep(n), CopiesStale(T),
         configMap' \in ConfigMaps \cup {InitConfigMap}
  PROVE  Kept(T)
  <1>1. /\ workloads' = workloads /\ lastUid' = lastUid
        /\ \A m \in SnapName : Live(m)' = Live(m) /\ Existing(m)' = Existing(m)
        /\ \A m \in SnapName : Tracked(m)' = Tracked(m) /\ Settled(m)' = Settled(m)
        /\ \A m \in SnapName \ {n} : snaps'[m] = snaps[m]
    BY DEF SnapStep, Live, Existing, Tracked, Settled
  <1>2. /\ workloads' \in [Workload -> {Nil} \cup Object]
        /\ snaps' \in [SnapName -> {Nil} \cup Snapshot]
        /\ lastUid' \in [Workload -> 0..MaxUid]
        /\ configMap' \in {Nil} \cup RawConfig
    BY <1>1, ConstantsAssumption DEF IInv, TypeOK, SnapStep
  <1>3. Rely(T)
    <2>1. RollbackOnly =>
            \A m \in SnapName : Existing(m) /\ Finished(m) => Finished(m)'
      BY <1>1, SnapStepFacts DEF Finished, Creates
    <2>2. CaptureOnly =>
            \A m \in SnapName : Existing(m) /\ Live(m)' /\ Guarded(m) => Guarded(m)'
      BY <1>1, SnapStepFacts DEF Guarded, Releases
    <2>3. \A m \in SnapName : Tracked(m)' /\ snaps[m] = Nil => snaps'[m] = Nil
      BY <1>1, SnapStepFacts DEF Creates
    <2>. QED
      BY <1>1, <2>1, <2>2, <2>3 DEF Rely
  <1>4. ClusterOK'
    <2>1. \A m \in SnapName : snaps'[m] # Nil => Existing(m)'
      BY <1>1, SnapStepFacts DEF IInv, ClusterOK, Creates
    <2>2. OriginalsKnown =>
            \A m \in SnapName : snaps'[m] # Nil => snaps'[m].tscs # Injected
      BY <1>1, SnapStepFacts DEF IInv, ClusterOK, Creates
    <2>3. ASSUME NothingLost, NEW w \in Workload, workloads[w] # Nil,
                 workloads[w].tscs = Injected,
                 NEW m \in SnapName, m = <<w, workloads[w].uid>>
          PROVE  /\ workloads[w].managed
                 /\ Guarded(m)'
                 /\ ~IsRolledBack(snaps'[m])
      <3>1. /\ workloads[w].managed
            /\ Guarded(m)
            /\ ~IsRolledBack(snaps[m])
        BY <2>3 DEF IInv, ClusterOK
      <3>2. Live(m) /\ ~Settled(m)
        BY <2>3 DEF Live, Settled
      <3>3. CASE m = n
        BY <2>3, <3>1, <3>2, <3>3, SnapStepFacts
           DEF Releases, OriginalsKnown, Guarded
      <3>4. CASE m # n
        BY <1>1, <3>1, <3>4 DEF Guarded
      <3>. QED
        BY <3>1, <3>3, <3>4
    <2>4. OriginalsKnown \/ CaptureOnly => RestoredWhenMarked'
      <3>. SUFFICES ASSUME OriginalsKnown \/ CaptureOnly, NEW m \in SnapName,
                           snaps'[m] # Nil, IsRolledBack(snaps'[m]), Live(m)'
                    PROVE  workloads'[m[1]].tscs # Injected
        BY DEF RestoredWhenMarked
      <3>1. Live(m) /\ RestoredWhenMarked
        BY <1>1 DEF IInv, ClusterOK
      <3>2. \/ snaps[m] # Nil /\ IsRolledBack(snaps[m])
            \/ Settled(m)
        BY <1>1, SnapStepFacts
      <3>. QED
        BY <1>1, <3>1, <3>2 DEF RestoredWhenMarked, Settled
    <2>5. Apart => ReadyGuarded'
      <3>. SUFFICES ASSUME Apart, NEW m \in SnapName, snaps'[m] # Nil,
                           snaps'[m].ready, ~IsRolledBack(snaps'[m]), Live(m)'
                    PROVE  Guarded(m)'
        BY DEF ReadyGuarded, Guarded
      <3>1. Live(m) /\ ReadyGuarded
        BY <1>1 DEF IInv, ClusterOK
      <3>2. CASE m # n
        BY <1>1, <3>1, <3>2 DEF ReadyGuarded, Guarded
      <3>3. CASE m = n /\ ~(snaps[n] # Nil /\ snaps[n].ready)
        BY <3>1, <3>3, SnapStepFacts DEF Apart
      <3>4. CASE m = n /\ snaps[n] # Nil /\ snaps[n].ready
        <4>1. ~IsRolledBack(snaps[n])
          BY <3>4, SnapStepFacts
        <4>2. Guarded(n)
          BY <3>1, <3>4, <4>1 DEF ReadyGuarded, Guarded
        <4>. QED
          BY <3>1, <3>4, <4>1, <4>2, SnapStepFacts DEF Releases, Apart, Finished
      <3>. QED
        BY <3>2, <3>3, <3>4
    <2>6. NothingLost' =>
            \A w \in Workload :
              workloads'[w] # Nil /\ workloads'[w].tscs = Injected =>
                /\ workloads'[w].managed
                /\ Guarded(<<w, workloads[w].uid>>)'
                /\ ~IsRolledBack(snaps'[<<w, workloads'[w].uid>>])
      <3>. SUFFICES ASSUME NothingLost, NEW w \in Workload, workloads'[w] # Nil,
                           workloads'[w].tscs = Injected
                    PROVE  /\ workloads'[w].managed
                           /\ Guarded(<<w, workloads[w].uid>>)'
                           /\ ~IsRolledBack(snaps'[<<w, workloads'[w].uid>>])
        BY DEF NothingLost
      <3>1. <<w, workloads[w].uid>> \in SnapName
        BY <1>1, Names DEF IInv, TypeOK, Object
      <3>. QED
        BY <1>1, <2>3, <3>1 DEF Guarded
    <2>. QED
      BY <1>1, <2>1, <2>2, <2>4, <2>5, <2>6 DEF IInv, ClusterOK
  <1>5. StepOK
    <2>1. \A m \in SnapName :
            snaps[m] # Nil /\ IsRolledBack(snaps[m]) /\ snaps'[m] # Nil =>
              IsRolledBack(snaps'[m])
      BY <1>1, SnapStepFacts
    <2>2. Apart =>
            \A m \in SnapName :
              /\ snaps[m] # Nil /\ snaps[m].fin
              /\ snaps'[m] = Nil \/ ~snaps'[m].fin
              => IsRolledBack(snaps[m]) \/ ~Live(m)
      <3>1. Guarded(n) /\ ~Guarded(n)' /\ Apart => IsRolledBack(snaps[n]) \/ ~Live(n)
        BY SnapStepFacts DEF Releases, Apart, Finished, Guarded
      <3>. QED
        BY <1>1, <3>1 DEF Guarded
    <2>. QED
      BY <1>1, <2>1, <2>2 DEF StepOK
  <1>. QED
    BY <1>2, <1>3, <1>4, <1>5 DEF Kept

LEMMA ObjectFields ==
  ASSUME NEW o \in Object
  PROVE  /\ o.uid \in 1..MaxUid /\ o.tscs \in TSC /\ o.managed \in BOOLEAN
         /\ o # Nil
  BY NilAssumption DEF Object

\* Of the workload that a step changes.
LEMMA WorkloadStepFacts ==
  ASSUME IInv, NEW w \in Workload, WorkloadStep(w)
  PROVE  /\ lastUid' \in [Workload -> 0..MaxUid]
         /\ \A x \in Workload : lastUid[x] <= lastUid'[x]
         /\ workloads'[w] # Nil => workloads'[w].uid = lastUid'[w]
         /\ workloads'[w] # Nil /\ workloads[w] # Nil =>
              workloads'[w].uid = workloads[w].uid
         /\ workloads'[w] # Nil /\ workloads[w] = Nil =>
              /\ lastUid[w] < workloads'[w].uid
              /\ ~workloads'[w].managed /\ workloads'[w].tscs # Injected
         /\ workloads'[w] # Nil /\ workloads'[w].managed =>
              workloads[w] # Nil /\ workloads[w].managed
         /\ workloads'[w] # Nil /\ ~workloads'[w].managed =>
              \/ workloads[w] = Nil \/ ~workloads[w].managed
              \/ snaps[<<w, workloads[w].uid>>] = Nil
         /\ workloads'[w] # Nil /\ workloads'[w].tscs = Injected =>
              \/ workloads[w] # Nil /\ workloads[w].tscs = Injected
              \/ ~OriginalsKnown /\ ~CaptureOnly
  <1>1. /\ workloads \in [Workload -> {Nil} \cup Object]
        /\ lastUid \in [Workload -> 0..MaxUid]
        /\ workloads[w] # Nil =>
             workloads[w] \in Object /\ workloads[w].uid = lastUid[w]
    BY DEF IInv, TypeOK, ClusterOK
  <1>2. CASE Retouches(w)
    <2>. PICK v \in TSC :
           /\ OriginalsKnown \/ CaptureOnly => v # Injected
           /\ workloads'[w] = [workloads[w] EXCEPT !.tscs = v]
      BY <1>2 DEF Retouches
    <2>1. /\ workloads[w] # Nil
          /\ workloads'[w].uid = workloads[w].uid
          /\ workloads'[w].managed = workloads[w].managed
          /\ workloads'[w].tscs = v
          /\ lastUid' = lastUid
      BY <1>1, <1>2 DEF Retouches, Object
    <2>. QED
      BY <1>1, <2>1
  <1>3. CASE Unmanages(w)
    <2>1. /\ workloads[w] # Nil
          /\ workloads'[w].uid = workloads[w].uid
          /\ ~workloads'[w].managed
          /\ workloads'[w].tscs = workloads[w].tscs
          /\ lastUid' = lastUid
      BY <1>1, <1>3 DEF Unmanages, Object
    <2>. QED
      BY <1>1, <1>3, <2>1 DEF Unmanages
  <1>4. CASE Removes(w)
    BY <1>1, <1>4 DEF Removes
  <1>5. CASE Adds(w)
    <2>. PICK v \in TSC :
           /\ v # Injected
           /\ workloads'[w] = [uid |-> lastUid[w] + 1, tscs |-> v, managed |-> FALSE]
      BY <1>5 DEF Adds
    <2>1. /\ workloads[w] = Nil
          /\ lastUid[w] + 1 \in 0..MaxUid
          /\ lastUid' = [lastUid EXCEPT ![w] = lastUid[w] + 1]
      BY <1>1, <1>5, ConstantsAssumption DEF Adds
    <2>2. /\ workloads'[w].uid = lastUid[w] + 1
          /\ workloads'[w].tscs = v
          /\ ~workloads'[w].managed
      OBVIOUS
    <2>. QED
      BY <1>1, <2>1, <2>2, ConstantsAssumption
  <1>. QED
    BY <1>2, <1>3, <1>4, <1>5 DEF WorkloadStep

LEMMA WorkloadStepKept ==
  ASSUME IInv, NEW T, NEW w \in Workload, WorkloadStep(w), CopiesStale(T),
         configMap' \in ConfigMaps \cup {InitConfigMap}
  PROVE  Kept(T)
  <1>1. /\ snaps' = snaps
        /\ \A x \in Workload \ {w} : workloads'[x] = workloads[x]
    BY DEF WorkloadStep
  <1>2. /\ workloads' \in [Workload -> {Nil} \cup Object]
        /\ snaps' \in [SnapName -> {Nil} \cup Snapshot]
        /\ lastUid' \in [Workload -> 0..MaxUid]
        /\ configMap' \in {Nil} \cup RawConfig
    BY <1>1, WorkloadStepFacts, ConstantsAssumption DEF IInv, TypeOK, WorkloadStep
  <1>3. /\ \A n \in SnapName : Existing(n) => Existing(n)'
        /\ \A n \in SnapName : Existing(n) /\ Live(n)' => Live(n)
    <2>. SUFFICES ASSUME NEW n \in SnapName
                  PROVE  /\ Existing(n) => Existing(n)'
                         /\ Existing(n) /\ Live(n)' => Live(n)
      OBVIOUS
    <2>1. /\ lastUid[n[1]] \in 0..MaxUid /\ lastUid'[n[1]] \in 0..MaxUid
          /\ n[2] \in 1..MaxUid /\ n[1] \in Workload
          /\ lastUid[n[1]] <= lastUid'[n[1]]
      BY <1>2, LiveUid, WorkloadStepFacts
    <2>2. Existing(n) => Existing(n)'
      BY <2>1, ConstantsAssumption DEF Existing
    <2>3. CASE n[1] # w
      BY <1>1, <2>1, <2>2, <2>3 DEF Live
    <2>4. CASE n[1] = w
      <3>. SUFFICES ASSUME Existing(n), Live(n)'
                    PROVE  Live(n)
        BY <2>2
      <3>1. workloads'[w] # Nil /\ workloads'[w].uid = n[2]
        BY <2>4 DEF Live
      <3>2. CASE workloads[w] = Nil
        <4>1. lastUid[w] < n[2]
          BY <3>1, <3>2, WorkloadStepFacts
        <4>. QED
          BY <2>1, <2>4, <4>1, ConstantsAssumption DEF Existing
      <3>3. CASE workloads[w] # Nil
        BY <2>4, <3>1, <3>3, WorkloadStepFacts DEF Live
      <3>. QED
        BY <3>2, <3>3
    <2>. QED
      BY <2>3, <2>4
  <1>4. \A x \in Workload :
          workloads'[x] # Nil /\ workloads'[x].managed =>
            /\ workloads[x] # Nil /\ workloads[x].managed
            /\ workloads'[x].uid = workloads[x].uid
    BY <1>1, WorkloadStepFacts
  <1>5. OriginalsKnown \/ CaptureOnly =>
          \A n \in SnapName : Existing(n) /\ Settled(n) => Settled(n)'
    BY <1>1, <1>3, LiveUid, WorkloadStepFacts DEF Settled, Live
  <1>6. \A n \in SnapName : snaps[n] # Nil => Existing(n)
    BY DEF IInv, ClusterOK
  <1>7. Rely(T)
    BY <1>1, <1>3, <1>4, <1>5 DEF Rely, Finished, Guarded
  <1>8. ClusterOK'
    <2>1. \A x \in Workload : workloads'[x] # Nil => workloads'[x].uid = lastUid'[x]
      BY <1>1, WorkloadStepFacts
         DEF IInv, ClusterOK, TypeOK, WorkloadStep, Retouches, Unmanages, Removes, Adds
    <2>2. \A n \in SnapName : snaps'[n] # Nil => Existing(n)'
      BY <1>1, <1>3, <1>6
    <2>3. OriginalsKnown =>
            \A n \in SnapName : snaps'[n] # Nil => snaps'[n].tscs # Injected
      BY <1>1 DEF IInv, ClusterOK
    <2>4. NothingLost =>
            \A x \in Workload :
              workloads'[x] # Nil /\ workloads'[x].tscs = Injected =>
                /\ workloads'[x].managed
                /\ Guarded(<<x, workloads[x].uid>>)'
                /\ ~IsRolledBack(snaps'[<<x, workloads'[x].uid>>])
      <3>. SUFFICES ASSUME NothingLost, NEW x \in Workload, workloads'[x] # Nil,
                           workloads'[x].tscs = Injected
                    PROVE  /\ workloads'[x].managed
                           /\ Guarded(<<x, workloads[x].uid>>)'
                           /\ ~IsRolledBack(snaps'[<<x, workloads'[x].uid>>])
        OBVIOUS
      <3>1. /\ workloads[x] # Nil /\ workloads[x].tscs = Injected
            /\ workloads'[x].uid = workloads[x].uid
        BY <1>1, WorkloadStepFacts DEF OriginalsKnown
      <3>2. /\ workloads[x].managed
            /\ Guarded(<<x, workloads[x].uid>>)
            /\ ~IsRolledBack(snaps[<<x, workloads[x].uid>>])
        BY <3>1 DEF IInv, ClusterOK
      <3>3. workloads'[x].managed
        <4>1. snaps[<<x, workloads[x].uid>>] # Nil
          BY <3>2 DEF Guarded
        <4>. QED
          BY <1>1, <3>1, <3>2, <4>1, WorkloadStepFacts
      <3>. QED
        BY <1>1, <3>1, <3>2, <3>3 DEF Guarded
    <2>5. OriginalsKnown \/ CaptureOnly => RestoredWhenMarked'
      <3>. SUFFICES ASSUME OriginalsKnown \/ CaptureOnly, NEW n \in SnapName,
                           snaps'[n] # Nil, IsRolledBack(snaps'[n]), Live(n)'
                    PROVE  workloads'[n[1]].tscs # Injected
        BY DEF RestoredWhenMarked
      <3>1. Live(n) /\ Existing(n) /\ snaps[n] # Nil /\ IsRolledBack(snaps[n])
        BY <1>1, <1>3, <1>6
      <3>2. Settled(n)
        BY <3>1 DEF IInv, ClusterOK, RestoredWhenMarked, Settled
      <3>. QED
        BY <1>5, <3>1, <3>2 DEF Settled
    <2>6. Apart => ReadyGuarded'
      BY <1>1, <1>3, <1>6 DEF IInv, ClusterOK, ReadyGuarded
    <2>. QED
      BY <2>1, <2>2, <2>3, <2>4, <2>5, <2>6 DEF ClusterOK, NothingLost
  <1>9. StepOK
    BY <1>1, WorkloadStepFacts DEF StepOK
  <1>. QED
    BY <1>2, <1>7, <1>8, <1>9 DEF Kept

LEMMA QuietKept ==
  ASSUME IInv, NEW T, UNCHANGED <<workloads, snaps, lastUid>>, CopiesStale(T),
         configMap' \in ConfigMaps \cup {InitConfigMap}
  PROVE  Kept(T)
  <1>1. /\ \A n \in SnapName : Live(n)' = Live(n) /\ Existing(n)' = Existing(n)
        /\ \A n \in SnapName : Tracked(n)' = Tracked(n) /\ Settled(n)' = Settled(n)
        /\ \A n \in SnapName : Finished(n)' = Finished(n) /\ Guarded(n)' = Guarded(n)
    BY DEF Live, Existing, Tracked, Settled, Finished, Guarded
  <1>2. Rely(T)
    BY <1>1 DEF Rely
  <1>3. ClusterOK'
    BY <1>1 DEF IInv, ClusterOK, RestoredWhenMarked, ReadyGuarded, NothingLost, Guarded
  <1>4. StepOK
    BY DEF StepOK
  <1>. QED
    BY <1>2, <1>3, <1>4, ConstantsAssumption DEF Kept, IInv, TypeOK

\* Every way in which a step changes the cluster keeps what the others rely
\* on, what holds of the cluster, and the action properties.
LEMMA ClusterStepKept ==
  ASSUME IInv, NEW T, ClusterStep(T)
  PROVE  Kept(T)
  BY SnapStepKept, WorkloadStepKept, QuietKept DEF ClusterStep

(***************************************************************************)
(* A thread that does not move keeps what it knows.                        *)
(***************************************************************************)
Still(u) ==
  pc'[u] = pc[u] /\ todo'[u] = todo[u] /\ cur'[u] = cur[u] /\ tries'[u] = tries[u]

LEMMA MainKeeps ==
  ASSUME IInv, NEW T, Rely(T), NEW u \in Thread, Still(u), MainOK(u)
  PROVE  MainOK(u)'
  <1>1. \A i \in todo[u] : i.n \in SnapName
    BY DEF IInv, TypeOK, Item
  <1>2. cur[u] \in Item => cur[u].n \in SnapName
    BY DEF Item
  <1>3. \A n \in SnapName : n[1] \in Workload /\ (ListedAlive(n) => ListedAlive(n)')
    BY Names DEF Rely, ListedAlive
  <1>4. Holds(u) => Holds(u)'
    BY <1>2 DEF Still, Holds, Rely
  <1>5. \A i \in todo'[u] : Existing(i.n)'
    BY <1>1 DEF MainOK, Still, Rely
  <1>6. pc'[u] \in {"managed", "strip"} => \A i \in todo'[u] : ListedAlive(i.n)'
    BY <1>1, <1>3 DEF MainOK, Still
  <1>7. pc'[u] \in {"rfGet", "rfPatch"} => Holds(u)' /\ ~Live(cur[u].n)'
    BY <1>2, <1>4 DEF MainOK, Still, Rely, Holds
  <1>8. pc'[u] = "strip" =>
          /\ Holds(u)'
          /\ ListedAlive(cur[u].n)'
          /\ Tracked(cur[u].n)' => snaps'[cur'[u].n] = Nil
    <2>. SUFFICES ASSUME pc[u] = "strip"
                  PROVE  /\ Holds(u)'
                         /\ ListedAlive(cur[u].n)'
                         /\ Tracked(cur[u].n)' => snaps'[cur'[u].n] = Nil
      BY DEF Still
    <2>1. Holds(u) /\ cur[u].n \in SnapName
      BY <1>2 DEF MainOK, Holds
    <2>2. ListedAlive(cur[u].n)'
      BY <1>3, <2>1 DEF MainOK, Still, ListedAlive
    <2>3. ASSUME Tracked(cur[u].n)'
          PROVE  snaps'[cur'[u].n] = Nil
      <3>1. Live(cur[u].n) /\ workloads[cur[u].n[1]].managed
        BY <1>3, <2>1, <2>3 DEF Tracked, Still, Rely, Live
      <3>. QED
        BY <2>1, <2>3, <3>1 DEF MainOK, Tracked, Still, Rely, Live
    <2>. QED
      BY <1>4, <2>1, <2>2, <2>3
  <1>. QED
    BY <1>5, <1>6, <1>7, <1>8 DEF MainOK, Still, Live

LEMMA CandidateKept ==
  ASSUME NEW T, Rely(T), NEW u \in T, NEW i \in Item, Candidate(u, i)
  PROVE  Candidate(u, i)'
  BY DEF Candidate, Item, Rely, CopiesStale, Current, OriginalsKnown, NothingLost,
         RollbackOnly

LEMMA RollbackKeeps ==
  ASSUME IInv, NEW T, Rely(T), NEW u \in Thread \cap T, Still(u), RollbackOK(u)
  PROVE  RollbackOK(u)'
  <1>1. todo[u] \subseteq Item
    BY DEF IInv, TypeOK
  <1>2. cur[u] \in Item => cur[u].n \in SnapName
    BY DEF Item
  <1>3. Holds(u) => Holds(u)' /\ cur'[u] = cur[u] /\ cur[u] \in Item
    BY <1>2 DEF Still, Holds, Rely
  <1>4. \A i \in todo'[u] : Candidate(u, i)'
    BY <1>1, CandidateKept DEF RollbackOK, Still
  <1>5. pc'[u] \in {"verify", "restore", "markGone", "markDone", "markFailed"} =>
          Holds(u)' /\ Candidate(u, cur[u])'
    <2>. SUFFICES ASSUME pc[u] \in {"verify", "restore", "markGone", "markDone",
                                    "markFailed"}
                  PROVE  Holds(u)' /\ Candidate(u, cur[u])'
      BY DEF Still
    <2>. DEFINE i == cur[u]
    <2>1. Holds(u) /\ Candidate(u, cur[u])
      BY DEF RollbackOK
    <2>2. PICK j \in Item : j = cur[u]
      BY <2>1 DEF Holds
    <2>3. Candidate(u, j)'
      BY <2>1, <2>2, CandidateKept
    <2>. QED
      BY <1>3, <2>1, <2>2, <2>3
  <1>6. pc'[u] \in {"markGone", "markDone", "rfGet", "rfPatch"} =>
          Holds(u)' /\ (OriginalsKnown => Settled(cur[u].n)')
    BY <1>2, <1>3 DEF RollbackOK, Still, Rely, Holds
  <1>7. pc'[u] \in {"rfGet", "rfPatch"} => (RollbackOnly => Finished(cur[u].n)')
    BY <1>2, <1>3 DEF RollbackOK, Still, Rely, Holds
  <1>. QED
    BY <1>4, <1>5, <1>6, <1>7
       DEF RollbackOK, Still, CaptureOnly, OriginalsKnown, NothingLost, RollbackOnly

LEMMA CaptureKeeps ==
  ASSUME IInv, NEW T, Rely(T), NEW u \in Thread \cap T, Still(u), CaptureOK(u)
  PROVE  CaptureOK(u)'
  <1>1. cur[u] \in Item => cur[u].n \in SnapName /\ cur[u].n[1] \in Workload
    BY Names DEF Item
  <1>2. Holds(u) => Holds(u)' /\ cur'[u] = cur[u]
    BY <1>1 DEF Still, Holds, Rely
  <1>3. pc'[u] # "idle" => Holds(u)' /\ ~Tracked(cur[u].n)'
    BY <1>1, <1>2 DEF CaptureOK, Still, Rely, Holds, Tracked, Live
  <1>4. pc'[u] \in {"capReadyGet", "capReady"} =>
          (CaptureOnly /\ Live(cur[u].n)' => Guarded(cur[u].n)')
    BY <1>1, <1>2 DEF CaptureOK, Still, Rely, Holds, Live
  <1>5. pc'[u] = "capReady" => cur[u].obj \in Snapshot /\ Current(u, cur[u])'
    BY <1>1, <1>2 DEF CaptureOK, Still, Rely, Holds, CopiesStale, Current
  <1>. QED
    BY <1>2, <1>3, <1>4, <1>5
       DEF CaptureOK, Still, CaptureOnly, OriginalsKnown, NothingLost, RollbackOnly

LEMMA OthersKeep ==
  ASSUME IInv, NEW T, Rely(T), NEW u \in Thread \cap T, Still(u)
  PROVE  ThreadOK(u)'
  BY MainKeeps, RollbackKeeps, CaptureKeeps DEF ThreadOK, IInv, ThreadsConsistent

(***************************************************************************)
(* A thread's own step.                                                    *)
(***************************************************************************)
\* Thread t moves and the others stay where they are.
Places(t) ==
  /\ pc' \in [Thread -> Labels]
  /\ todo' \in [Thread -> SUBSET Item]
  /\ cur' \in [Thread -> {Nil} \cup Item]
  /\ \A u \in Thread \ {t} :
       pc'[u] = pc[u] /\ todo'[u] = todo[u] /\ cur'[u] = cur[u]

Attempts(t) ==
  /\ tries' \in [Thread -> 0..RetrySteps]
  /\ \A u \in Thread \ {t} : tries'[u] = tries[u]

RestOK ==
  /\ cfg' \in [Replica -> {Nil} \cup Config]
  /\ kind' \in [Replica -> Kinds]
  /\ changes' \in 0..MaxChanges
  /\ faults' \in 0..MaxFaults
  /\ crashes' \in 0..MaxCrashes

ActionOK(t) ==
  /\ Places(t) /\ Attempts(t) /\ RestOK
  /\ ClusterStep(Thread \ {t})
  /\ t \in Thread => ThreadOK(t)'

LEMMA ActionKeeps ==
  ASSUME IInv, NEW t, ActionOK(t)
  PROVE  IInv' /\ StepOK
  <1>1. Kept(Thread \ {t})
    BY ClusterStepKept DEF ActionOK
  <1>2. TypeOK'
    BY <1>1 DEF Kept, ActionOK, Places, Attempts, RestOK, TypeOK, ClusterStep, CopiesStale
  <1>3. ASSUME NEW u \in Thread
        PROVE  ThreadOK(u)'
    <2>1. CASE u = t
      BY <2>1 DEF ActionOK
    <2>2. CASE u # t
      <3>1. Still(u)
        BY <2>2 DEF ActionOK, Places, Attempts, Still
      <3>. QED
        BY <1>1, <2>2, <3>1, OthersKeep DEF Kept
    <2>. QED
      BY <2>1, <2>2
  <1>. QED
    BY <1>1, <1>2, <1>3 DEF Kept, IInv, ThreadsConsistent

LEMMA Control ==
  ASSUME IInv, NEW t \in Thread, NEW label \in Labels
  PROVE  /\ Goto(t, label) =>
              /\ Places(t) /\ pc'[t] = label
              /\ todo'[t] = todo[t] /\ cur'[t] = cur[t]
         /\ \A i \in Item : Take(t, i, label) =>
              /\ Places(t) /\ pc'[t] = label
              /\ todo'[t] = todo[t] \ {i} /\ cur'[t] = i
         /\ \A i : Skip(t, i) =>
              /\ Places(t) /\ pc'[t] = pc[t]
              /\ todo'[t] = todo[t] \ {i} /\ cur'[t] = cur[t]
         /\ Leave(t, label) =>
              /\ Places(t) /\ pc'[t] = label
              /\ todo'[t] = todo[t] /\ cur'[t] = Nil
         /\ \A S \in SUBSET Item : Start(t, S, label) =>
              /\ Places(t) /\ pc'[t] = label
              /\ todo'[t] = S /\ cur'[t] = cur[t]
  BY DEF IInv, TypeOK, Goto, Take, Skip, Leave, Start, Places

LEMMA Calls ==
  ASSUME IInv
  PROVE  /\ \A err \in BOOLEAN : Call(err) => NoWrite /\ faults' \in 0..MaxFaults
         /\ Read => NoWrite /\ faults' \in 0..MaxFaults
         /\ ReadFails => NoWrite /\ faults' \in 0..MaxFaults
         /\ Fault => faults' \in 0..MaxFaults
         /\ NoWrite /\ UNCHANGED cluster => ClusterStep(Thread)
  <1>1. Fault => faults' \in 0..MaxFaults
    BY ConstantsAssumption DEF IInv, TypeOK, Fault
  <1>2. NoWrite /\ UNCHANGED cluster => ClusterStep(Thread)
    BY DEF IInv, TypeOK, ClusterOK, NoWrite, cluster, ClusterStep, CopiesStale
  <1>. QED
    BY <1>1, <1>2 DEF IInv, TypeOK, Call, Read, ReadFails

LEMMA Stores ==
  ASSUME IInv, NEW n \in SnapName, NEW v \in {Nil} \cup Snapshot, Store(n, v)
  PROVE  /\ snaps'[n] = v
         /\ \A m \in SnapName \ {n} : snaps'[m] = snaps[m]
         /\ snaps' \in [SnapName -> {Nil} \cup Snapshot]
         /\ CopiesStale(Thread)
  <1>1. /\ snaps'[n] = v
        /\ \A m \in SnapName \ {n} : snaps'[m] = snaps[m]
        /\ snaps' \in [SnapName -> {Nil} \cup Snapshot]
    BY DEF Store, IInv, TypeOK
  <1>2. CASE v = snaps[n]
    BY <1>1, <1>2 DEF Store, CopiesStale, IInv, TypeOK
  <1>3. CASE v # snaps[n]
    <2>1. fresh' = {c \in fresh : c[2] # n}
      BY <1>3 DEF Store
    <2>. QED
      BY <1>1, <2>1 DEF CopiesStale, IInv, TypeOK
  <1>. QED
    BY <1>1, <1>2, <1>3

\* A write in one of the allowed ways, answered or not.
LEMMA Writes ==
  ASSUME IInv, NEW n \in SnapName, NEW v \in {Nil} \cup Snapshot,
         Write(n, v) \/ WriteFails(n, v), UNCHANGED cluster,
         snaps'[n] = v => Creates(n) \/ Discards(n) \/ Releases(n) \/ Guards(n) \/ Marks(n)
  PROVE  /\ ClusterStep(Thread)
         /\ faults' \in 0..MaxFaults
         /\ Write(n, v) => snaps'[n] = v
  <1>1. faults' \in 0..MaxFaults
    BY Calls DEF Write, WriteFails, IInv, TypeOK
  <1>2. Write(n, v) => snaps'[n] = v
    BY Stores DEF Write
  <1>3. CASE NoWrite
    BY <1>1, <1>2, <1>3, Calls
  <1>4. CASE Store(n, v)
    <2>1. SnapStep(n) /\ CopiesStale(Thread)
      BY <1>4, Stores DEF SnapStep, cluster
    <2>2. configMap' \in ConfigMaps \cup {InitConfigMap}
      BY DEF cluster, IInv, ClusterOK
    <2>. QED
      BY <1>1, <1>2, <2>1, <2>2 DEF ClusterStep
  <1>. QED
    BY <1>1, <1>2, <1>3, <1>4 DEF Write, WriteFails

LEMMA Bounds ==
  ASSUME IInv, UNCHANGED bounds, UNCHANGED cfg, kind' \in [Replica -> Kinds],
         faults' \in 0..MaxFaults
  PROVE  RestOK
  BY DEF IInv, TypeOK, RestOK, bounds

LEMMA TriesStay ==
  ASSUME IInv, NEW t, UNCHANGED tries
  PROVE  Attempts(t)
  BY DEF IInv, TypeOK, Attempts

LEMMA Fewer ==
  ASSUME NEW T, NEW S \in SUBSET T, ClusterStep(T)
  PROVE  ClusterStep(S)
  BY DEF ClusterStep, CopiesStale

\* The common case: nothing but the thread's own places changes.
LEMMA QuietAction ==
  ASSUME IInv, NEW t \in Thread, Places(t), NoWrite, faults' \in 0..MaxFaults,
         UNCHANGED <<cluster, cfg, tries, bounds>>, kind' \in [Replica -> Kinds],
         ThreadOK(t)'
  PROVE  ActionOK(t)
  <1>1. ClusterStep(Thread \ {t})
    BY Calls, Fewer
  <1>. QED
    BY <1>1, Bounds, TriesStay DEF ActionOK

\* What a quiet step leaves as it is.
LEMMA QuietFacts ==
  ASSUME IInv, NoWrite, UNCHANGED cluster
  PROVE  /\ \A n \in SnapName :
              /\ Existing(n)' = Existing(n) /\ Live(n)' = Live(n)
              /\ Settled(n)' = Settled(n) /\ Finished(n)' = Finished(n)
              /\ Tracked(n)' = Tracked(n) /\ Guarded(n)' = Guarded(n)
              /\ ListedAlive(n)' = ListedAlive(n)
         /\ \A u, i : Candidate(u, i) => Candidate(u, i)'
         /\ \A u, i : Current(u, i) => Current(u, i)'
  BY DEF NoWrite, cluster, Existing, Live, Settled, Finished, Tracked, Guarded,
         ListedAlive, Candidate, Current, OriginalsKnown, NothingLost, RollbackOnly

LEMMA MyThread ==
  /\ \A r \in Replica :
       /\ Main(r) \in Thread /\ Main(r)[1] = "main"
       /\ ThreadOK(Main(r)) <=> MainOK(Main(r))
       /\ ThreadOK(Main(r))' <=> MainOK(Main(r))'
       /\ Rollback(r) \in Thread /\ Rollback(r)[1] = "rollback"
       /\ ThreadOK(Rollback(r)) <=> RollbackOK(Rollback(r))
       /\ ThreadOK(Rollback(r))' <=> RollbackOK(Rollback(r))'
  /\ \A t \in Capturers :
       /\ t \in Thread /\ t[1] = "capture"
       /\ ThreadOK(t) <=> CaptureOK(t)
       /\ ThreadOK(t)' <=> CaptureOK(t)'
  <1>1. ASSUME NEW r \in Replica
        PROVE  /\ Main(r) \in Thread
               /\ Rollback(r) \in Thread
    BY DEF Thread
  <1>3. ASSUME NEW r \in Replica
        PROVE  Main(r)[1] = "main" /\ Rollback(r)[1] = "rollback"
    BY DEF Main, Rollback
  <1>2. ASSUME NEW t \in Capturers
        PROVE  t \in Thread /\ t[1] = "capture"
    BY ConstantsAssumption DEF Thread
  <1>. QED
    BY <1>1, <1>2, <1>3 DEF ThreadOK

(***************************************************************************)
(* RemoveFinalizer.                                                        *)
(***************************************************************************)
LEMMA HeldName ==
  ASSUME IInv, NEW t \in Thread, Holds(t)
  PROVE  /\ cur[t] \in Item /\ cur[t].n \in SnapName
         /\ cur[t].n[1] \in Workload /\ Existing(cur[t].n)
  BY Names DEF Holds, Item

LEMMA RemoveFinalizerGetOK ==
  ASSUME IInv, NEW r \in Replica, NEW t \in {Main(r), Rollback(r)},
         RemoveFinalizerGet(t)
  PROVE  ActionOK(t)
  <1>1. t \in Thread /\ LoopOf(t) \in Labels /\ "rfPatch" \in Labels
    BY MyThread DEF LoopOf, Labels
  <1>2. /\ pc[t] = "rfGet"
        /\ NoWrite /\ faults' \in 0..MaxFaults
        /\ Goto(t, "rfPatch") \/ Leave(t, LoopOf(t))
        /\ UNCHANGED <<cluster, cfg, tries, kind, bounds>>
    BY Calls DEF RemoveFinalizerGet
  <1>3. /\ Places(t)
        /\ todo'[t] = todo[t]
        /\ \/ pc'[t] = "rfPatch" /\ cur'[t] = cur[t]
           \/ pc'[t] = LoopOf(t)
    BY <1>1, <1>2, Control
  <1>4. ASSUME t = Main(r)
        PROVE  ThreadOK(t)'
    <2>1. MainOK(t) /\ LoopOf(t) = "orphan" /\ todo[t] \subseteq Item
      BY <1>1, <1>4, MyThread DEF IInv, TypeOK, ThreadsConsistent, LoopOf
    <2>2. MainOK(t)'
      BY <1>1, <1>2, <1>3, <2>1, QuietFacts, HeldName DEF MainOK, Holds, Item
    <2>. QED
      BY <1>4, <2>2, MyThread
  <1>5. ASSUME t = Rollback(r)
        PROVE  ThreadOK(t)'
    <2>1. RollbackOK(t) /\ LoopOf(t) = "rbNext" /\ todo[t] \subseteq Item
      BY <1>1, <1>5, MyThread DEF IInv, TypeOK, ThreadsConsistent, LoopOf
    <2>2. RollbackOK(t)'
      BY <1>1, <1>2, <1>3, <2>1, QuietFacts, HeldName
         DEF RollbackOK, Holds, CaptureOnly, OriginalsKnown, NothingLost, RollbackOnly
    <2>. QED
      BY <1>5, <2>2, MyThread
  <1>6. kind' \in [Replica -> Kinds]
    BY <1>2 DEF IInv, TypeOK
  <1>. QED
    BY <1>1, <1>2, <1>3, <1>4, <1>5, <1>6, QuietAction

LEMMA RemoveFinalizerPatchOK ==
  ASSUME IInv, NEW r \in Replica, NEW t \in {Main(r), Rollback(r)},
         RemoveFinalizerPatch(t)
  PROVE  ActionOK(t)
  <1>. DEFINE n == cur[t].n
  <1>1. t \in Thread /\ LoopOf(t) \in Labels
    BY MyThread DEF LoopOf, Labels
  <1>2. /\ pc[t] = "rfPatch"
        /\ UNCHANGED <<cluster, cfg, tries, kind, bounds>>
        /\ \/ snaps[n] = Nil /\ Read
           \/ /\ snaps[n] # Nil
              /\ \/ Write(n, Unfinalized(snaps[n]))
                 \/ WriteFails(n, Unfinalized(snaps[n]))
    BY DEF RemoveFinalizerPatch
  <1>3. Places(t) /\ todo'[t] = todo[t] /\ pc'[t] = LoopOf(t)
    BY <1>1, Control DEF RemoveFinalizerPatch
  <1>4. /\ Holds(t)
        /\ OriginalsKnown => Settled(n)
        /\ RollbackOnly => Finished(n)
        /\ CaptureOnly => ~Live(n)
        /\ t = Main(r) => MainOK(t)
        /\ t = Rollback(r) => RollbackOK(t)
    <2>1. CASE t = Main(r)
      <3>1. MainOK(t) /\ ~Live(n)
        BY <1>1, <1>2, <2>1, MyThread DEF MainOK, IInv, ThreadsConsistent
      <3>. QED
        BY <1>2, <2>1, <3>1, MyThread DEF MainOK, Settled, Finished
    <2>2. CASE t = Rollback(r)
      <3>1. RollbackOK(t)
        BY <1>1, <2>2, MyThread DEF IInv, ThreadsConsistent
      <3>. QED
        BY <1>2, <2>2, <3>1, MyThread DEF RollbackOK
    <2>. QED
      BY <2>1, <2>2
  <1>5. n \in SnapName
    BY <1>1, <1>4, HeldName
  <1>6. ClusterStep(Thread) /\ faults' \in 0..MaxFaults
    <2>1. CASE snaps[n] = Nil /\ Read
      BY <1>2, <2>1, Calls
    <2>2. CASE snaps[n] # Nil
      <3>. DEFINE s == snaps[n]
                  v == Unfinalized(s)
      <3>1. s \in Snapshot
        BY <1>5, <2>2 DEF IInv, TypeOK
      <3>2. v \in {Nil} \cup Snapshot
        BY <3>1, FinalizerRemoved DEF Unfinalized, SameButFin
      <3>3. ASSUME snaps'[n] = v
            PROVE  Discards(n) \/ Releases(n) \/ Marks(n)
        <4>1. CASE s.fin
          BY <1>4, <2>2, <3>3, <4>1 DEF Releases, Guarded, Unfinalized
        <4>2. CASE ~s.fin /\ s.deleting
          BY <2>2, <3>3, <4>2 DEF Discards, Unfinalized
        <4>3. CASE ~s.fin /\ ~s.deleting
          <5>1. v = [s EXCEPT !.fin = FALSE]
            BY <4>3 DEF Unfinalized
          <5>2. SameButFin(s, v) /\ ~v.fin
            BY <3>1, <5>1, FinalizerRemoved
          <5>. QED
            BY <2>2, <3>1, <3>3, <4>3, <5>2, SnapshotFields
               DEF Marks, SameButFin, IsRolledBack
        <4>. QED
          BY <3>1, <4>1, <4>2, <4>3
      <3>. HIDE DEF v, n
      <3>4. ClusterStep(Thread) /\ faults' \in 0..MaxFaults
        BY <1>2, <1>5, <2>2, <3>2, <3>3, Writes DEF v
      <3>. QED
        BY <3>4
    <2>. QED
      BY <1>2, <2>1, <2>2
  <1>7. Rely(Thread)
    BY <1>6, ClusterStepKept DEF Kept
  <1>8. todo[t] \subseteq Item
    BY <1>1 DEF IInv, TypeOK
  <1>9. t = Main(r) => ThreadOK(t)'
    <2>1. LoopOf(t) = "orphan" \/ t # Main(r)
      BY MyThread DEF LoopOf
    <2>2. t = Main(r) => MainOK(t)'
      BY <1>3, <1>4, <1>7, <1>8, <2>1 DEF MainOK, Rely, Item
    <2>. QED
      BY <2>2, MyThread
  <1>10. t = Rollback(r) => ThreadOK(t)'
    <2>1. LoopOf(t) = "rbNext" \/ t # Rollback(r)
      BY MyThread DEF LoopOf
    <2>2. \A i \in todo[t] : Candidate(t, i) => Candidate(t, i)'
      BY <1>1, <1>7, <1>8, CandidateKept
    <2>3. t = Rollback(r) => RollbackOK(t)'
      BY <1>2, <1>3, <1>4, <2>1, <2>2 DEF RollbackOK, CaptureOnly
    <2>. QED
      BY <2>3, MyThread
  <1>11. RestOK /\ Attempts(t)
    BY <1>2, <1>6, Bounds, TriesStay DEF IInv, TypeOK
  <1>12. ClusterStep(Thread \ {t})
    BY <1>6, Fewer
  <1>. QED
    BY <1>3, <1>9, <1>10, <1>11, <1>12 DEF ActionOK

(***************************************************************************)
(* main and the sweeps.                                                    *)
(***************************************************************************)
LEMMA LoadConfigType ==
  ASSUME IInv, NEW r \in Replica, loadConfig(r)
  PROVE  /\ cfg' \in [Replica -> {Nil} \cup Config]
         /\ faults' \in 0..MaxFaults
         /\ \E cm \in ConfigMaps \cup {InitConfigMap, Nil} : cfg'[r] = LoadedConfig(cm)
  <1>1. configMap \in ConfigMaps \cup {InitConfigMap}
    BY DEF IInv, ClusterOK
  <1>2. PICK cm \in ConfigMaps \cup {InitConfigMap, Nil} :
          cfg' = [cfg EXCEPT ![r] = LoadedConfig(cm)]
    BY <1>1 DEF loadConfig
  <1>3. LoadedConfig(cm) \in Config
    BY LoadedConfigType, ConstantsAssumption
  <1>4. faults' \in 0..MaxFaults
    BY Calls DEF loadConfig, IInv, TypeOK
  <1>. QED
    BY <1>2, <1>3, <1>4 DEF IInv, TypeOK

LEMMA BootOK ==
  ASSUME IInv, NEW r \in Replica, Boot(r)
  PROVE  ActionOK(Main(r))
  <1>. DEFINE t == Main(r)
  <1>1. t \in Thread /\ MainOK(t) /\ "orphanList" \in Labels
    BY MyThread DEF IInv, ThreadsConsistent, Labels
  <1>2. /\ Places(t) /\ pc'[t] = "orphanList" /\ todo'[t] = todo[t]
    BY <1>1, Control DEF Boot
  <1>3. UNCHANGED <<cluster, snaps, fresh, tries, kind, bounds>>
    BY DEF Boot
  <1>4. NoWrite /\ ClusterStep(Thread \ {t})
    BY <1>3, Calls, Fewer DEF NoWrite
  <1>5. MainOK(t)'
    BY <1>1, <1>2, <1>3, <1>4, QuietFacts DEF MainOK, IInv, TypeOK, Item
  <1>6. RestOK /\ Attempts(t)
    BY <1>3, LoadConfigType, TriesStay DEF Boot, RestOK, bounds, IInv, TypeOK
  <1>. QED
    BY <1>1, <1>2, <1>4, <1>5, <1>6, MyThread DEF ActionOK

LEMMA CopyItem ==
  ASSUME IInv, NEW n \in SnapName
  PROVE  Copy(n) \in Item /\ Copy(n).n = n /\ Copy(n).obj = snaps[n]
  BY DEF Copy, Item, IInv, TypeOK

\* A main thread that only moves to another loop, with items that exist.
LEMMA MainMoves ==
  ASSUME IInv, NEW r \in Replica, Places(Main(r)), NoWrite,
         faults' \in 0..MaxFaults, kind' \in [Replica -> Kinds],
         UNCHANGED <<cluster, cfg, tries, bounds>>,
         pc'[Main(r)] \in {"orphanList", "orphan", "managedList", "managed", "serving"},
         \A i \in todo'[Main(r)] : Existing(i.n),
         pc'[Main(r)] = "managed" => \A i \in todo'[Main(r)] : ListedAlive(i.n)
  PROVE  ActionOK(Main(r))
  <1>. DEFINE t == Main(r)
  <1>1. t \in Thread
    BY MyThread
  <1>2. todo'[t] \subseteq Item
    BY <1>1 DEF Places
  <1>3. \A i \in Item : i.n \in SnapName
    BY DEF Item
  <1>4. MainOK(t)'
    BY <1>2, <1>3, QuietFacts DEF MainOK
  <1>. QED
    BY <1>1, <1>4, MyThread, QuietAction

LEMMA OrphanListOK ==
  ASSUME IInv, NEW r \in Replica, OrphanList(r)
  PROVE  ActionOK(Main(r))
  <1>. DEFINE t == Main(r)
              S == {Copy(n) : n \in {m \in SnapName :
                              snaps[m] # Nil /\ ~IsRolledBack(snaps[m])}}
  <1>1. t \in Thread /\ MainOK(t) /\ {"orphan", "managedList"} \subseteq Labels
    BY MyThread DEF IInv, ThreadsConsistent, Labels
  <1>2. S \subseteq Item /\ \A i \in S : Existing(i.n)
    BY CopyItem DEF IInv, ClusterOK
  <1>3. /\ NoWrite /\ faults' \in 0..MaxFaults
        /\ UNCHANGED <<cluster, cfg, tries, bounds>>
        /\ Start(t, S, "orphan") \/ Goto(t, "managedList")
    BY Calls DEF OrphanList
  <1>4. kind' \in [Replica -> Kinds]
    BY DEF OrphanList, IInv, TypeOK, Kinds
  <1>5. /\ Places(t)
        /\ \/ pc'[t] = "orphan" /\ todo'[t] = S
           \/ pc'[t] = "managedList" /\ todo'[t] = todo[t]
    <2>. HIDE DEF S
    <2>. QED
      BY <1>1, <1>2, <1>3, Control
  <1>6. \A i \in todo'[t] : Existing(i.n)
    BY <1>1, <1>2, <1>5 DEF MainOK
  <1>. QED
    BY <1>3, <1>4, <1>5, <1>6, MainMoves

LEMMA OrphanOK ==
  ASSUME IInv, NEW r \in Replica, Orphan(r)
  PROVE  ActionOK(Main(r))
  <1>. DEFINE t == Main(r)
  <1>1. /\ t \in Thread /\ MainOK(t) /\ todo[t] \subseteq Item
        /\ {"managedList", "rfGet"} \subseteq Labels
    BY MyThread DEF IInv, ThreadsConsistent, TypeOK, Labels
  <1>2. /\ pc[t] = "orphan"
        /\ UNCHANGED <<cluster, cfg, tries, kind, bounds>>
        /\ kind' \in [Replica -> Kinds]
    BY DEF Orphan, IInv, TypeOK
  <1>3. CASE Read /\ Goto(t, "managedList")
    <2>1. Places(t) /\ pc'[t] = "managedList" /\ todo'[t] = todo[t]
      BY <1>1, <1>3, Control
    <2>. QED
      BY <1>1, <1>2, <1>3, <2>1, Calls, MainMoves DEF MainOK
  <1>4. ASSUME NEW i \in todo[t], NEW err \in BOOLEAN, Call(err),
               Skip(t, i)
        PROVE  ActionOK(t)
    <2>1. Places(t) /\ pc'[t] = "orphan" /\ todo'[t] = todo[t] \ {i}
      BY <1>1, <1>2, <1>4, Control, "orphan" \in Labels DEF Labels
    <2>. QED
      BY <1>1, <1>2, <1>4, <2>1, Calls, MainMoves DEF MainOK
  <1>5. ASSUME NEW i \in todo[t], NEW err \in BOOLEAN, Call(err),
               targetGone(i.n, err), Take(t, i, "rfGet")
        PROVE  ActionOK(t)
    <2>1. /\ Places(t) /\ pc'[t] = "rfGet" /\ todo'[t] = todo[t] \ {i}
          /\ cur'[t] = i /\ i \in Item /\ i.n \in SnapName
      BY <1>1, <1>5, Control DEF Item
    <2>2. NoWrite /\ faults' \in 0..MaxFaults
      BY <1>5, Calls
    <2>3. ~Live(i.n) /\ Existing(i.n)
      BY <1>1, <1>5 DEF targetGone, Live, MainOK
    <2>4. MainOK(t)'
      BY <1>1, <1>2, <2>1, <2>2, <2>3, QuietFacts DEF MainOK, Holds, Item
    <2>. QED
      BY <1>1, <1>2, <2>1, <2>2, <2>4, MyThread, QuietAction
  <1>. QED
    BY <1>3, <1>4, <1>5 DEF Orphan

LEMMA ManagedListOK ==
  ASSUME IInv, NEW r \in Replica, ManagedList(r)
  PROVE  ActionOK(Main(r))
  <1>. DEFINE t == Main(r)
              S == ManagedItems(kind[r])
  <1>1. /\ t \in Thread /\ MainOK(t) /\ {"managed", "serving"} \subseteq Labels
    BY MyThread DEF IInv, ThreadsConsistent, Labels
  <1>2. ASSUME NEW i \in S
        PROVE  i \in Item /\ Existing(i.n) /\ ListedAlive(i.n)
    <2>1. PICK w \in Workload :
            workloads[w] # Nil /\ i = [n |-> <<w, workloads[w].uid>>, obj |-> Nil]
      BY <1>2 DEF ManagedItems
    <2>2. i.n \in SnapName /\ i.n[1] = w /\ i.n[2] = workloads[w].uid
      BY <2>1, Names, ObjectFields DEF IInv, TypeOK
    <2>3. workloads[w].uid = lastUid[w] /\ lastUid[w] \in Nat
      BY <2>1, ConstantsAssumption DEF IInv, TypeOK, ClusterOK
    <2>. QED
      BY <2>1, <2>2, <2>3 DEF Item, Existing, ListedAlive
  <1>3. /\ NoWrite /\ faults' \in 0..MaxFaults
        /\ UNCHANGED <<cluster, cfg, tries, bounds>> /\ kind' \in [Replica -> Kinds]
        /\ Start(t, S, "managed") \/ Goto(t, "serving")
    BY Calls DEF ManagedList, IInv, TypeOK
  <1>4. /\ Places(t)
        /\ \/ pc'[t] = "managed" /\ todo'[t] = S
           \/ pc'[t] = "serving" /\ todo'[t] = todo[t]
    <2>1. S \subseteq Item
      BY <1>2
    <2>. HIDE DEF S
    <2>. QED
      BY <1>1, <1>3, <2>1, Control
  <1>. HIDE DEF S
  <1>5. /\ \A i \in todo'[t] : Existing(i.n)
        /\ pc'[t] = "managed" => \A i \in todo'[t] : ListedAlive(i.n)
    BY <1>1, <1>2, <1>4 DEF MainOK
  <1>. QED
    BY <1>3, <1>4, <1>5, MainMoves

LEMMA ManagedOK ==
  ASSUME IInv, NEW r \in Replica, Managed(r)
  PROVE  ActionOK(Main(r))
  <1>. DEFINE t == Main(r)
  <1>1. /\ t \in Thread /\ MainOK(t) /\ todo[t] \subseteq Item
        /\ {"managed", "managedList", "serving", "strip"} \subseteq Labels
    BY MyThread DEF IInv, ThreadsConsistent, TypeOK, Labels
  <1>2. /\ pc[t] = "managed"
        /\ UNCHANGED <<cluster, cfg, tries, bounds>>
        /\ kind' \in [Replica -> Kinds]
    BY DEF Managed, IInv, TypeOK, Kinds
  <1>3. CASE Read /\ (Goto(t, "managedList") \/ Goto(t, "serving"))
    <2>1. /\ Places(t) /\ pc'[t] \in {"managedList", "serving"} /\ todo'[t] = todo[t]
      BY <1>1, <1>3, Control
    <2>. QED
      BY <1>1, <1>2, <1>3, <2>1, Calls, MainMoves DEF MainOK
  <1>4. ASSUME NEW i \in todo[t], NEW err \in BOOLEAN, Call(err), Skip(t, i)
        PROVE  ActionOK(t)
    <2>1. Places(t) /\ pc'[t] = "managed" /\ todo'[t] = todo[t] \ {i}
      BY <1>1, <1>2, <1>4, Control
    <2>. QED
      BY <1>1, <1>2, <1>4, <2>1, Calls, MainMoves DEF MainOK
  <1>5. ASSUME NEW i \in todo[t], NEW err \in BOOLEAN, Call(err),
               SnapshotMissing(i.n, err), Take(t, i, "strip")
        PROVE  ActionOK(t)
    <2>1. /\ Places(t) /\ pc'[t] = "strip" /\ todo'[t] = todo[t] \ {i}
          /\ cur'[t] = i /\ i \in Item /\ i.n \in SnapName
      BY <1>1, <1>5, Control DEF Item
    <2>2. NoWrite /\ faults' \in 0..MaxFaults
      BY <1>5, Calls
    <2>3. ListedAlive(i.n) /\ Existing(i.n) /\ snaps'[i.n] = Nil
      BY <1>1, <1>2, <1>5, <2>2 DEF SnapshotMissing, MainOK, NoWrite
    <2>4. MainOK(t)'
      BY <1>1, <1>2, <2>1, <2>2, <2>3, QuietFacts DEF MainOK, Holds, Item
    <2>. QED
      BY <1>1, <1>2, <2>1, <2>2, <2>4, MyThread, QuietAction
  <1>. QED
    BY <1>3, <1>4, <1>5 DEF Managed

\* The annotation goes from the workload that was listed: it had no snapshot
\* and nothing captures a managed workload.
LEMMA StripOK ==
  ASSUME IInv, NEW r \in Replica, Strip(r)
  PROVE  ActionOK(Main(r))
  <1>. DEFINE t == Main(r)
              w == cur[t].n[1]
  <1>1. /\ t \in Thread /\ MainOK(t) /\ todo[t] \subseteq Item
        /\ "managed" \in Labels
    BY MyThread DEF IInv, ThreadsConsistent, TypeOK, Labels
  <1>2. pc[t] = "strip" /\ UNCHANGED <<configMap, lastUid, cfg, tries, kind, bounds>>
    BY DEF Strip
  <1>3. /\ Holds(t) /\ ListedAlive(cur[t].n)
        /\ Tracked(cur[t].n) => snaps[cur[t].n] = Nil
        /\ cur[t].n \in SnapName /\ w \in Workload
        /\ cur[t].n = <<w, cur[t].n[2]>>
    BY <1>1, <1>2, HeldName, Names DEF MainOK
  <1>4. Places(t) /\ pc'[t] = "managed" /\ todo'[t] = todo[t]
    BY <1>1, Control DEF Strip
  <1>5. NoWrite /\ faults' \in 0..MaxFaults
    BY Calls DEF Strip
  <1>6. CopiesStale(Thread) /\ configMap' \in ConfigMaps \cup {InitConfigMap}
    BY <1>2, <1>5 DEF CopiesStale, NoWrite, IInv, TypeOK, ClusterOK
  <1>7. ClusterStep(Thread)
    <2>1. CASE UNCHANGED workloads
      BY <1>2, <1>5, <1>6, <2>1 DEF ClusterStep, NoWrite
    <2>2. CASE /\ workloads[w] # Nil
               /\ workloads' = [workloads EXCEPT ![w].managed = FALSE]
      <3>. DEFINE o == workloads[w]
      <3>1. o \in Object /\ [o EXCEPT !.managed = FALSE] \in Object
        BY <1>3, <2>2 DEF IInv, TypeOK, Object
      <3>2. /\ workloads'[w] = [o EXCEPT !.managed = FALSE]
            /\ \A x \in Workload \ {w} : workloads'[x] = workloads[x]
            /\ workloads' \in [Workload -> {Nil} \cup Object]
        BY <1>3, <2>2, <3>1 DEF IInv, TypeOK
      <3>3. o.managed => snaps[<<w, o.uid>>] = Nil
        BY <1>3, <2>2 DEF ListedAlive, Tracked, Live
      <3>4. Unmanages(w)
        BY <1>2, <2>2, <3>2, <3>3 DEF Unmanages
      <3>5. WorkloadStep(w)
        BY <1>5, <3>2, <3>4 DEF WorkloadStep, NoWrite
      <3>. QED
        BY <1>3, <1>6, <3>5 DEF ClusterStep
    <2>. QED
      BY <2>1, <2>2 DEF Strip
  <1>8. Rely(Thread)
    BY <1>7, ClusterStepKept DEF Kept
  <1>9. MainOK(t)'
    <2>1. \A i \in todo[t] : i.n \in SnapName /\ i.n[1] \in Workload
      BY <1>1, Names DEF Item
    <2>. QED
      BY <1>1, <1>2, <1>4, <1>8, <2>1 DEF MainOK, Rely, ListedAlive
  <1>10. RestOK /\ Attempts(t)
    BY <1>2, <1>5, Bounds, TriesStay DEF IInv, TypeOK
  <1>. QED
    BY <1>1, <1>4, <1>7, <1>9, <1>10, MyThread, Fewer DEF ActionOK

(***************************************************************************)
(* The rollback.                                                           *)
(***************************************************************************)
\* A step of a replica that changes its configuration and starts nothing, or
\* its rollback.
LEMMA OnConfigMapEventOK ==
  ASSUME IInv, NEW r \in Replica, onConfigMapEvent(r)
  PROVE  ActionOK(Rollback(r))
  <1>. DEFINE t == Rollback(r)
  <1>1. /\ t \in Thread /\ RollbackOK(t) /\ MainOK(Main(r))
        /\ todo[t] \subseteq Item /\ "rbList" \in Labels
    BY MyThread DEF IInv, ThreadsConsistent, TypeOK, Labels
  <1>2. UNCHANGED <<cluster, snaps, fresh, tries, kind, bounds>> /\ NoWrite
    BY DEF onConfigMapEvent, NoWrite
  <1>3. ClusterStep(Thread \ {t})
    BY <1>2, Calls, Fewer
  <1>4. /\ Places(t) /\ todo'[t] = todo[t] /\ cur'[t] = cur[t]
        /\ \/ pc'[t] = pc[t]
           \/ pc'[t] = "rbList" /\ Triggers(cfg[r], cfg'[r])
    BY <1>1, Control DEF onConfigMapEvent, Places, IInv, TypeOK
  <1>5. Triggers(cfg[r], cfg'[r]) => ~CaptureOnly
    BY LoadConfigType DEF onConfigMapEvent, Triggers, CaptureOnly
  <1>6. RestOK /\ Attempts(t)
    BY <1>2, LoadConfigType, TriesStay
       DEF onConfigMapEvent, RestOK, bounds, IInv, TypeOK
  <1>7. RollbackOK(t)'
    <2>1. \A i \in todo'[t] : Candidate(t, i)'
      BY <1>1, <1>2, <1>4, QuietFacts DEF RollbackOK
    <2>2. CASE pc'[t] = pc[t]
      <3>1. Holds(t) => Holds(t)' /\ cur[t].n \in SnapName
        BY <1>1, <1>2, <1>4, QuietFacts, HeldName DEF Holds
      <3>. QED
        BY <1>1, <1>2, <1>4, <2>1, <2>2, <3>1, QuietFacts
           DEF RollbackOK, CaptureOnly, OriginalsKnown, NothingLost, RollbackOnly
    <2>3. CASE pc'[t] = "rbList" /\ Triggers(cfg[r], cfg'[r])
      BY <1>5, <2>1, <2>3
         DEF RollbackOK, CaptureOnly, OriginalsKnown, NothingLost, RollbackOnly
    <2>. QED
      BY <1>4, <2>2, <2>3
  <1>. QED
    BY <1>3, <1>4, <1>6, <1>7, MyThread DEF ActionOK

\* A rollback at label "l" whose step writes nothing.
LEMMA RollbackMoves ==
  ASSUME IInv, NEW r \in Replica, Places(Rollback(r)), NoWrite,
         faults' \in 0..MaxFaults, UNCHANGED <<cluster, cfg, tries, kind, bounds>>,
         RollbackOK(Rollback(r))'
  PROVE  ActionOK(Rollback(r))
  BY MyThread, QuietAction DEF IInv, TypeOK

\* The copies are those of snapshots not rolled back yet.
LEMMA RbListOK ==
  ASSUME IInv, NEW r \in Replica, RbList(Rollback(r))
  PROVE  ActionOK(Rollback(r))
  <1>. DEFINE t == Rollback(r)
              names == {n \in SnapName : snaps[n] # Nil /\ ~IsRolledBack(snaps[n])}
              S == {Copy(n) : n \in names}
  <1>1. /\ t \in Thread /\ RollbackOK(t) /\ {"rbNext", "idle"} \subseteq Labels
    BY MyThread DEF IInv, ThreadsConsistent, Labels
  <1>2. /\ pc[t] = "rbList" /\ UNCHANGED <<cluster, cfg, tries, kind, bounds>>
        /\ ~CaptureOnly
    BY <1>1 DEF RbList, RollbackOK
  <1>3. CASE ReadFails /\ Goto(t, "idle")
    <2>1. Places(t) /\ pc'[t] = "idle" /\ todo'[t] = todo[t]
      BY <1>1, <1>3, Control
    <2>2. NoWrite /\ faults' \in 0..MaxFaults
      BY <1>3, Calls
    <2>3. RollbackOK(t)'
      BY <1>1, <1>2, <2>1, <2>2, QuietFacts DEF RollbackOK
    <2>. QED
      BY <1>2, <2>1, <2>2, <2>3, RollbackMoves
  <1>4. CASE /\ Start(t, S, "rbNext")
             /\ fresh' = fresh \cup ({t} \X names)
             /\ UNCHANGED <<snaps, faults>>
    <2>1. \A i \in S : i \in Item /\ i.n \in names /\ i.obj = snaps[i.n]
      BY CopyItem
    <2>2. Places(t) /\ pc'[t] = "rbNext" /\ todo'[t] = S
      <3>1. S \in SUBSET Item
        BY <2>1
      <3>. HIDE DEF S, names
      <3>. QED
        BY <1>1, <1>4, <3>1, Control
    <2>3. CopiesStale(Thread \ {t})
      <3>1. fresh' \subseteq Thread \X SnapName
        BY <1>1, <1>4 DEF IInv, TypeOK
      <3>. QED
        BY <1>4, <3>1 DEF CopiesStale
    <2>4. ClusterStep(Thread \ {t})
      BY <1>2, <1>4, <2>3 DEF ClusterStep, cluster, IInv, ClusterOK
    <2>5. RollbackOK(t)'
      <3>1. ASSUME NEW i \in S
            PROVE  Candidate(t, i)'
        <4>1. /\ snaps[i.n] # Nil /\ ~IsRolledBack(snaps[i.n]) /\ i.n \in SnapName
              /\ i.obj = snaps[i.n]
          BY <2>1
        <4>2. /\ Existing(i.n) /\ i.obj \in Snapshot
              /\ OriginalsKnown => i.obj.tscs # Injected
          BY <4>1 DEF IInv, TypeOK, ClusterOK
        <4>3. /\ Existing(i.n)'
              /\ Current(t, i)'
          BY <1>2, <1>4, <4>1, <4>2 DEF cluster, Existing, Current
        <4>. QED
          BY <4>1, <4>2, <4>3
             DEF Candidate, OriginalsKnown, NothingLost, RollbackOnly, IsRolledBack
      <3>2. \A i \in todo'[t] : Candidate(t, i)'
        BY <2>2, <3>1
      <3>. HIDE DEF S, names
      <3>. QED
        BY <1>2, <2>2, <3>2 DEF RollbackOK, CaptureOnly
    <2>6. RestOK /\ Attempts(t)
      BY <1>2, <1>4, Bounds, TriesStay DEF IInv, TypeOK
    <2>. QED
      BY <2>2, <2>4, <2>5, <2>6, MyThread DEF ActionOK
  <1>. QED
    BY <1>3, <1>4 DEF RbList

LEMMA RbNextOK ==
  ASSUME IInv, NEW r \in Replica, RbNext(Rollback(r))
  PROVE  ActionOK(Rollback(r))
  <1>. DEFINE t == Rollback(r)
  <1>1. /\ t \in Thread /\ RollbackOK(t) /\ todo[t] \subseteq Item
        /\ {"rbNext", "idle", "verify", "markGone"} \subseteq Labels
    BY MyThread DEF IInv, ThreadsConsistent, TypeOK, Labels
  <1>2. /\ pc[t] = "rbNext" /\ UNCHANGED <<cluster, cfg, tries, kind, bounds>>
        /\ ~CaptureOnly
        /\ NoWrite /\ faults' \in 0..MaxFaults
    BY <1>1, Calls DEF RbNext, RollbackOK
  <1>3. \A i \in todo[t] : Candidate(t, i)'
    BY <1>1, <1>2, QuietFacts DEF RollbackOK
  <1>4. CASE Goto(t, "idle")
    <2>1. Places(t) /\ pc'[t] = "idle" /\ todo'[t] = todo[t]
      BY <1>1, <1>4, Control
    <2>2. RollbackOK(t)'
      BY <1>3, <2>1 DEF RollbackOK
    <2>. QED
      BY <1>2, <2>1, <2>2, RollbackMoves
  <1>5. ASSUME NEW i \in todo[t], Skip(t, i)
        PROVE  ActionOK(t)
    <2>1. Places(t) /\ pc'[t] = "rbNext" /\ todo'[t] = todo[t] \ {i}
      BY <1>1, <1>2, <1>5, Control
    <2>2. RollbackOK(t)'
      BY <1>2, <1>3, <2>1 DEF RollbackOK, CaptureOnly
    <2>. QED
      BY <1>2, <2>1, <2>2, RollbackMoves
  <1>6. ASSUME NEW i \in todo[t], NEW label \in {"verify", "markGone"},
               label = "markGone" => ~Live(i.n), Take(t, i, label)
        PROVE  ActionOK(t)
    <2>1. /\ Places(t) /\ pc'[t] = label /\ todo'[t] = todo[t] \ {i}
          /\ cur'[t] = i /\ i \in Item /\ i.n \in SnapName
      BY <1>1, <1>6, Control DEF Item
    <2>2. Holds(t)' /\ Candidate(t, i)'
      BY <1>3, <2>1 DEF Holds, Candidate
    <2>3. label = "markGone" => Settled(i.n)'
      BY <1>2, <1>6, <2>1, QuietFacts DEF Settled
    <2>4. RollbackOK(t)'
      BY <1>2, <1>3, <2>1, <2>2, <2>3 DEF RollbackOK, CaptureOnly, Candidate
    <2>. QED
      BY <1>2, <2>1, <2>4, RollbackMoves
  <1>. QED
    BY <1>4, <1>5, <1>6 DEF RbNext

LEMMA VerifyOK ==
  ASSUME IInv, NEW r \in Replica, Verify(Rollback(r))
  PROVE  ActionOK(Rollback(r))
  <1>. DEFINE t == Rollback(r)
  <1>1. /\ t \in Thread /\ RollbackOK(t) /\ todo[t] \subseteq Item
        /\ {"restore", "markFailed"} \subseteq Labels
    BY MyThread DEF IInv, ThreadsConsistent, TypeOK, Labels
  <1>2. /\ pc[t] = "verify" /\ UNCHANGED <<cluster, cfg, tries, kind, bounds>>
        /\ NoWrite /\ faults' \in 0..MaxFaults
        /\ Goto(t, "restore") \/ Goto(t, "markFailed")
    BY Calls DEF Verify
  <1>3. /\ Places(t) /\ pc'[t] \in {"restore", "markFailed"}
        /\ todo'[t] = todo[t] /\ cur'[t] = cur[t]
    BY <1>1, <1>2, Control
  <1>4. /\ \A i \in todo[t] : Candidate(t, i)'
        /\ Candidate(t, cur[t])' /\ Holds(t)' /\ ~CaptureOnly
    BY <1>1, <1>2, <1>3, QuietFacts, HeldName DEF RollbackOK, Holds
  <1>5. RollbackOK(t)'
    BY <1>3, <1>4 DEF RollbackOK, CaptureOnly
  <1>. QED
    BY <1>2, <1>3, <1>5, RollbackMoves

\* The original goes back into the workload of that name; without an error
\* this workload, if it is the snapshot's, is then clean.
LEMMA RestoreOK ==
  ASSUME IInv, NEW r \in Replica, Restore(Rollback(r))
  PROVE  ActionOK(Rollback(r))
  <1>. DEFINE t == Rollback(r)
              w == cur[t].n[1]
              v == cur[t].obj.tscs
  <1>1. /\ t \in Thread /\ RollbackOK(t) /\ todo[t] \subseteq Item
        /\ {"markDone", "markFailed"} \subseteq Labels
    BY MyThread DEF IInv, ThreadsConsistent, TypeOK, Labels
  <1>2. /\ pc[t] = "restore"
        /\ UNCHANGED <<configMap, lastUid, cfg, tries, kind, bounds>>
        /\ NoWrite /\ faults' \in 0..MaxFaults
    BY Calls DEF Restore
  <1>3. /\ Holds(t) /\ Candidate(t, cur[t]) /\ ~CaptureOnly
        /\ cur[t] \in Item /\ cur[t].n \in SnapName /\ w \in Workload
        /\ v \in TSC /\ (OriginalsKnown => v # Injected)
    BY <1>1, <1>2, HeldName, SnapshotFields DEF RollbackOK, Candidate
  <1>4. PICK err \in BOOLEAN :
          \/ /\ workloads[w] # Nil
             /\ workloads' = [workloads EXCEPT ![w].tscs = v]
             /\ Goto(t, AfterPatch(err))
          \/ Goto(t, AfterPatch(TRUE)) /\ UNCHANGED workloads
    BY DEF Restore
  <1>5. /\ Places(t) /\ todo'[t] = todo[t] /\ cur'[t] = cur[t]
        /\ pc'[t] \in {"markDone", "markFailed"}
    BY <1>1, <1>4, Control DEF AfterPatch
  <1>6. pc'[t] = "markDone" =>
          /\ workloads[w] # Nil
          /\ workloads' = [workloads EXCEPT ![w].tscs = v]
    <2>1. Goto(t, AfterPatch(TRUE)) => pc'[t] = "markFailed"
      BY <1>1, Control DEF AfterPatch
    <2>. QED
      BY <1>4, <2>1
  <1>7. CopiesStale(Thread) /\ configMap' \in ConfigMaps \cup {InitConfigMap}
    BY <1>2 DEF CopiesStale, NoWrite, IInv, TypeOK, ClusterOK
  <1>8. ASSUME workloads[w] # Nil, workloads' = [workloads EXCEPT ![w].tscs = v]
        PROVE  /\ ClusterStep(Thread)
               /\ workloads'[w].tscs = v
    <2>. DEFINE o == workloads[w]
    <2>1. /\ o \in Object /\ [o EXCEPT !.tscs = v] \in Object
          /\ [o EXCEPT !.tscs = v].tscs = v
      BY <1>3, <1>8 DEF IInv, TypeOK, Object
    <2>2. /\ workloads'[w] = [o EXCEPT !.tscs = v]
          /\ \A x \in Workload \ {w} : workloads'[x] = workloads[x]
          /\ workloads' \in [Workload -> {Nil} \cup Object]
      BY <1>3, <1>8, <2>1 DEF IInv, TypeOK
    <2>3. Retouches(w)
      <3>. HIDE DEF v, w
      <3>. QED
        BY <1>2, <1>3, <1>8, <2>2 DEF Retouches
    <2>4. WorkloadStep(w)
      BY <1>2, <2>2, <2>3 DEF WorkloadStep, NoWrite
    <2>. QED
      BY <1>3, <1>7, <2>1, <2>2, <2>4 DEF ClusterStep
  <1>9. ClusterStep(Thread)
    BY <1>2, <1>4, <1>7, <1>8 DEF ClusterStep, NoWrite
  <1>10. Rely(Thread)
    BY <1>9, ClusterStepKept DEF Kept
  <1>11. RollbackOK(t)'
    <2>1. \A i \in todo'[t] : Candidate(t, i)'
      BY <1>1, <1>5, <1>10, CandidateKept DEF RollbackOK
    <2>2. Holds(t)' /\ Candidate(t, cur[t])'
      <3>. DEFINE i == cur[t]
      <3>1. Candidate(t, i)'
        <4>1. PICK j \in Item : j = cur[t]
          BY <1>3
        <4>2. Candidate(t, j)'
          BY <1>1, <1>3, <1>10, <4>1, CandidateKept
        <4>. QED
          BY <1>5, <4>1, <4>2
      <3>2. Candidate(t, cur[t])'
        BY <1>5, <3>1
      <3>. QED
        BY <1>3, <1>5, <3>2 DEF Holds, Candidate
    <2>3. pc'[t] = "markDone" => (OriginalsKnown => Settled(cur[t].n)')
      BY <1>3, <1>5, <1>6, <1>8 DEF Settled
    <2>. QED
      BY <1>3, <1>5, <2>1, <2>2, <2>3
         DEF RollbackOK, CaptureOnly, OriginalsKnown, NothingLost, RollbackOnly
  <1>12. RestOK /\ Attempts(t)
    BY <1>2, Bounds, TriesStay DEF IInv, TypeOK
  <1>. QED
    BY <1>1, <1>5, <1>9, <1>11, <1>12, MyThread, Fewer DEF ActionOK

\* What UpdateStatus writes.
LEMMA StatusWritten ==
  ASSUME IInv, NEW n \in SnapName, snaps[n] # Nil,
         NEW ready \in BOOLEAN, NEW rolledBack \in Status,
         NEW v, v = WithStatus(n, ready, rolledBack)
  PROVE  /\ snaps[n] \in Snapshot /\ v \in Snapshot
         /\ v.tscs = snaps[n].tscs /\ v.fin = snaps[n].fin
         /\ v.ready = ready /\ v.rolledBack = rolledBack
  <1>1. snaps[n] \in Snapshot
    BY DEF IInv, TypeOK
  <1>2. /\ [snaps[n] EXCEPT !.ready = ready, !.rolledBack = rolledBack] \in Snapshot
    BY <1>1 DEF Snapshot
  <1>. QED
    BY <1>1, <1>2 DEF Snapshot, WithStatus

\* The status write of a rollback: it needs a current copy, and then the
\* snapshot is as the rollback knows it.
LEMMA RollbackMarks ==
  ASSUME IInv, NEW r \in Replica, NEW t, t = Rollback(r), RollbackOK(t),
         pc[t] \in {"markGone", "markDone", "markFailed"},
         ~Conflict(t, cur[t].n), NEW rolledBack \in {"True", "False"},
         rolledBack = "True" => pc[t] # "markFailed",
         NEW n, n = cur[t].n,
         NEW v, v = WithStatus(n, cur[t].obj.ready, rolledBack)
  PROVE  /\ n \in SnapName /\ v \in Snapshot
         /\ snaps'[n] = v => Marks(n)
         /\ v.rolledBack = rolledBack
  <1>1. /\ t \in Thread /\ Candidate(t, cur[t]) /\ Holds(t) /\ ~CaptureOnly
        /\ rolledBack = "True" => (OriginalsKnown => Settled(n))
    BY MyThread DEF RollbackOK
  <1>2. n \in SnapName
    BY <1>1, HeldName
  <1>3. snaps[n] = cur[t].obj /\ snaps[n] \in Snapshot /\ ~IsRolledBack(snaps[n])
    BY <1>1 DEF Candidate, Current, Conflict
  <1>4. snaps[n] # Nil /\ snaps[n].ready \in BOOLEAN
    BY <1>3, SnapshotFields
  <1>5. /\ v \in Snapshot
        /\ v.tscs = snaps[n].tscs /\ v.fin = snaps[n].fin
        /\ v.ready = snaps[n].ready /\ v.rolledBack = rolledBack
    <2>1. cur[t].obj.ready \in BOOLEAN /\ rolledBack \in Status
      BY <1>3, <1>4 DEF Status
    <2>. QED
      BY <1>2, <1>3, <1>4, <2>1, StatusWritten
  <1>6. snaps'[n] = v => Marks(n)
    BY <1>1, <1>3, <1>4, <1>5 DEF Marks, IsRolledBack
  <1>. QED
    BY <1>2, <1>5, <1>6

\* Marks and MarkFailed, but for what happens next.
LEMMA RollbackWrites ==
  ASSUME IInv, NEW r \in Replica, NEW t, t = Rollback(r), RollbackOK(t),
         pc[t] \in {"markGone", "markDone", "markFailed"},
         UNCHANGED <<cluster, cfg, tries, kind, bounds>>,
         Places(t), todo'[t] = todo[t], ClusterStep(Thread), faults' \in 0..MaxFaults,
         \/ pc'[t] = "rbNext"
         \/ /\ pc'[t] = "rfGet" /\ cur'[t] = cur[t] /\ pc[t] # "markFailed"
            /\ snaps'[cur[t].n] # Nil /\ IsRolledBack(snaps'[cur[t].n])
  PROVE  ActionOK(t)
  <1>1. t \in Thread /\ todo[t] \subseteq Item
    BY MyThread DEF IInv, TypeOK
  <1>2. Rely(Thread)
    BY ClusterStepKept DEF Kept
  <1>3. \A i \in todo'[t] : Candidate(t, i)'
    BY <1>1, <1>2, CandidateKept DEF RollbackOK
  <1>4. Holds(t) /\ cur[t].n \in SnapName /\ ~CaptureOnly
    BY <1>1, HeldName DEF RollbackOK
  <1>5. ASSUME pc'[t] = "rbNext"
        PROVE  RollbackOK(t)'
    BY <1>3, <1>4, <1>5 DEF RollbackOK, CaptureOnly
  <1>6. ASSUME pc'[t] = "rfGet"
        PROVE  RollbackOK(t)'
    <2>1. /\ Holds(t)' /\ (OriginalsKnown => Settled(cur[t].n)')
          /\ Finished(cur[t].n)'
      BY <1>2, <1>4, <1>6 DEF RollbackOK, Rely, Holds, Finished
    <2>. QED
      BY <1>3, <1>4, <1>6, <2>1
         DEF RollbackOK, CaptureOnly, OriginalsKnown, NothingLost, RollbackOnly
  <1>7. RestOK /\ Attempts(t) /\ ClusterStep(Thread \ {t})
    BY Bounds, TriesStay, Fewer DEF IInv, TypeOK
  <1>. QED
    BY <1>5, <1>6, <1>7, MyThread DEF ActionOK

LEMMA MarkOK ==
  ASSUME IInv, NEW r \in Replica, Mark(Rollback(r))
  PROVE  ActionOK(Rollback(r))
  <1>. DEFINE t == Rollback(r)
              n == cur[t].n
              v == WithStatus(n, cur[t].obj.ready, "True")
  <1>1. /\ t \in Thread /\ RollbackOK(t) /\ {"rbNext", "rfGet"} \subseteq Labels
    BY MyThread DEF IInv, ThreadsConsistent, Labels
  <1>2. /\ pc[t] \in {"markGone", "markDone"}
        /\ UNCHANGED <<cluster, cfg, tries, kind, bounds>>
    BY DEF Mark
  <1>3. ASSUME ~Conflict(t, n), Write(n, v) \/ WriteFails(n, v)
        PROVE  /\ ClusterStep(Thread) /\ faults' \in 0..MaxFaults
               /\ Write(n, v) => snaps'[n] # Nil /\ IsRolledBack(snaps'[n])
    <2>1. /\ n \in SnapName /\ v \in Snapshot /\ v.rolledBack = "True"
          /\ snaps'[n] = v => Marks(n)
      BY <1>1, <1>2, <1>3, RollbackMarks
    <2>2. UNCHANGED cluster
      BY <1>2
    <2>. HIDE DEF v, n
    <2>3. /\ ClusterStep(Thread) /\ faults' \in 0..MaxFaults
          /\ Write(n, v) => snaps'[n] = v
      BY <1>3, <2>1, <2>2, Writes
    <2>. QED
      BY <2>1, <2>3, SnapshotFields DEF IsRolledBack
  <1>4. CASE ~Conflict(t, n) /\ Write(n, v) /\ Goto(t, "rfGet")
    <2>1. Places(t) /\ pc'[t] = "rfGet" /\ todo'[t] = todo[t] /\ cur'[t] = cur[t]
      BY <1>1, <1>4, Control
    <2>. QED
      BY <1>1, <1>2, <1>3, <1>4, <2>1, RollbackWrites
  <1>5. CASE /\ Leave(t, "rbNext")
             /\ \/ ~Conflict(t, n) /\ WriteFails(n, v)
                \/ Read
    <2>1. Places(t) /\ pc'[t] = "rbNext" /\ todo'[t] = todo[t]
      BY <1>1, <1>5, Control
    <2>2. ClusterStep(Thread) /\ faults' \in 0..MaxFaults
      BY <1>2, <1>3, <1>5, Calls
    <2>. QED
      BY <1>1, <1>2, <2>1, <2>2, RollbackWrites
  <1>. QED
    BY <1>4, <1>5 DEF Mark

LEMMA MarkFailedOK ==
  ASSUME IInv, NEW r \in Replica, MarkFailed(Rollback(r))
  PROVE  ActionOK(Rollback(r))
  <1>. DEFINE t == Rollback(r)
              n == cur[t].n
              v == WithStatus(n, cur[t].obj.ready, "False")
  <1>1. t \in Thread /\ RollbackOK(t) /\ "rbNext" \in Labels
    BY MyThread DEF IInv, ThreadsConsistent, Labels
  <1>2. /\ pc[t] = "markFailed"
        /\ UNCHANGED <<cluster, cfg, tries, kind, bounds>>
    BY DEF MarkFailed
  <1>3. Places(t) /\ pc'[t] = "rbNext" /\ todo'[t] = todo[t]
    BY <1>1, Control DEF MarkFailed
  <1>4. ClusterStep(Thread) /\ faults' \in 0..MaxFaults
    <2>1. CASE Read
      BY <1>2, <2>1, Calls
    <2>2. CASE ~Conflict(t, n) /\ (Write(n, v) \/ WriteFails(n, v))
      <3>1. /\ n \in SnapName /\ v \in Snapshot
            /\ snaps'[n] = v => Marks(n)
        BY <1>1, <1>2, <2>2, RollbackMarks
      <3>2. UNCHANGED cluster
        BY <1>2
      <3>. HIDE DEF v, n
      <3>. QED
        BY <2>2, <3>1, <3>2, Writes
    <2>. QED
      BY <2>1, <2>2 DEF MarkFailed
  <1>. QED
    BY <1>1, <1>2, <1>3, <1>4, RollbackWrites

(***************************************************************************)
(* The capture.                                                            *)
(***************************************************************************)
LEMMA CaptureAction ==
  ASSUME IInv, NEW t \in Capturers, Places(t), Attempts(t),
         ClusterStep(Thread \ {t}), UNCHANGED <<cfg, kind, bounds>>,
         faults' \in 0..MaxFaults, CaptureOK(t)'
  PROVE  ActionOK(t)
  BY Bounds, MyThread DEF ActionOK, IInv, TypeOK

\* A step that ends the call, or fails it, whatever it did to the cluster.
LEMMA CaptureLeaves ==
  ASSUME IInv, NEW t \in Capturers, Places(t), Attempts(t), ClusterStep(Thread),
         UNCHANGED <<cfg, kind, bounds>>, faults' \in 0..MaxFaults, pc'[t] = "idle"
  PROVE  ActionOK(t)
  <1>1. CaptureOK(t)'
    BY DEF CaptureOK
  <1>. QED
    BY <1>1, CaptureAction, Fewer

\* What a capture knows outlives its own step.
LEMMA CaptureKnows ==
  ASSUME IInv, NEW t \in Capturers, CaptureOK(t), pc[t] # "idle",
         ClusterStep(Thread), cur'[t] = cur[t]
  PROVE  /\ Holds(t)' /\ ~Tracked(cur[t].n)'
         /\ CaptureOnly /\ Live(cur[t].n)' /\ Guarded(cur[t].n) => Guarded(cur[t].n)'
         /\ Live(cur[t].n)' => Live(cur[t].n)
         /\ t \in Thread /\ Holds(t) /\ cur[t].n \in SnapName
         /\ ~Tracked(cur[t].n) /\ ~RollbackOnly
  <1>1. /\ t \in Thread /\ Holds(t) /\ cur[t].n \in SnapName
        /\ cur[t].n[1] \in Workload /\ ~Tracked(cur[t].n)
    BY MyThread, HeldName DEF CaptureOK
  <1>2. Rely(Thread)
    BY ClusterStepKept DEF Kept
  <1>3. Holds(t)' /\ (Live(cur[t].n)' => Live(cur[t].n))
    BY <1>1, <1>2 DEF Holds, Rely
  <1>4. ~Tracked(cur[t].n)'
    BY <1>1, <1>2, <1>3 DEF Tracked, Rely, Live
  <1>. QED
    BY <1>1, <1>2, <1>3, <1>4 DEF Rely, Holds, RollbackOnly

\* The ConfigMap and the workloads are left alone: a capture only reads them.
LEMMA CaptureStartOK ==
  ASSUME IInv, NEW t \in Capturers, NEW w \in Workload, CaptureStart(t, w)
  PROVE  ActionOK(t)
  <1>. DEFINE o == workloads[w]
              n == <<w, o.uid>>
              s == [tscs |-> o.tscs, ready |-> FALSE, rolledBack |-> "Unknown",
                    fin |-> FALSE, deleting |-> FALSE]
              i == [n |-> n, obj |-> s]
  <1>1. /\ t \in Thread /\ CaptureOK(t) /\ "capGet" \in Labels
    BY MyThread DEF IInv, ThreadsConsistent, Labels
  <1>2. /\ o # Nil /\ ~o.managed
        /\ pc'  = [pc EXCEPT ![t] = "capGet"]
        /\ cur' = [cur EXCEPT ![t] = i]
        /\ NoWrite /\ faults' \in 0..MaxFaults
        /\ UNCHANGED <<cluster, cfg, todo, tries, kind, bounds>>
    BY Calls DEF CaptureStart
  <1>3. /\ o \in Object /\ o.uid = lastUid[w] /\ n \in SnapName
        /\ n[1] = w /\ n[2] = o.uid /\ o.uid \in Nat
    BY <1>2, Names, ObjectFields, ConstantsAssumption DEF IInv, TypeOK, ClusterOK
  <1>4. s \in Snapshot
    BY <1>3, ObjectFields DEF Snapshot, Status
  <1>5. i \in Item /\ i.n = n /\ i.obj = s
    BY <1>3, <1>4 DEF Item
  <1>6. Existing(n) /\ ~Tracked(n)
    BY <1>2, <1>3 DEF Existing, Tracked
  <1>7. OriginalsKnown => s.tscs # Injected
    BY <1>2 DEF IInv, ClusterOK, OriginalsKnown, RollbackOnly
  <1>8. Places(t) /\ pc'[t] = "capGet" /\ cur'[t] = i
    <2>. HIDE DEF i
    <2>. QED
      BY <1>1, <1>2, <1>5 DEF Places, IInv, TypeOK
  <1>9. PICK j \in Item : j = i
    BY <1>5
  <1>10. CaptureOK(t)'
    <2>1. /\ j.n \in SnapName /\ Existing(j.n) /\ ~Tracked(j.n)
          /\ j.obj \in Snapshot
          /\ ~j.obj.fin /\ ~j.obj.ready /\ j.obj.rolledBack = "Unknown"
          /\ OriginalsKnown => j.obj.tscs # Injected
      BY <1>3, <1>4, <1>5, <1>6, <1>7, <1>9
    <2>2. Existing(j.n)' /\ ~Tracked(j.n)'
      BY <1>2, <2>1, QuietFacts
    <2>3. pc'[t] = "capGet" /\ cur'[t] = j
      BY <1>8, <1>9
    <2>4. Holds(t)' /\ ~Tracked(cur[t].n)'
      BY <2>2, <2>3 DEF Holds, Tracked, Live
    <2>. HIDE DEF i, s, o, n
    <2>. QED
      BY <2>1, <2>3, <2>4 DEF CaptureOK, OriginalsKnown, NothingLost, RollbackOnly
  <1>11. ClusterStep(Thread \ {t}) /\ Attempts(t)
    BY <1>2, Calls, Fewer, TriesStay
  <1>. QED
    BY <1>2, <1>8, <1>10, <1>11, CaptureAction

LEMMA CapGetOK ==
  ASSUME IInv, NEW t \in Capturers, CapGet(t)
  PROVE  ActionOK(t)
  <1>1. /\ t \in Thread /\ CaptureOK(t)
        /\ {"idle", "capDelete", "capCreate"} \subseteq Labels
    BY MyThread DEF IInv, ThreadsConsistent, Labels
  <1>2. /\ pc[t] = "capGet" /\ NoWrite /\ faults' \in 0..MaxFaults
        /\ UNCHANGED <<cluster, cfg, tries, kind, bounds>>
        /\ Leave(t, "idle") \/ Goto(t, "capDelete") \/ Goto(t, "capCreate")
    BY Calls DEF CapGet
  <1>3. ClusterStep(Thread) /\ Attempts(t)
    BY <1>2, Calls, TriesStay
  <1>4. CASE Leave(t, "idle")
    BY <1>1, <1>2, <1>3, <1>4, Control, CaptureLeaves
  <1>5. CASE Goto(t, "capDelete") \/ Goto(t, "capCreate")
    <2>1. /\ Places(t) /\ pc'[t] \in {"capDelete", "capCreate"} /\ cur'[t] = cur[t]
      BY <1>1, <1>5, Control
    <2>2. Holds(t)' /\ ~Tracked(cur[t].n)'
      BY <1>1, <1>2, <1>3, <2>1, CaptureKnows
    <2>3. CaptureOK(t)'
      BY <1>1, <1>2, <2>1, <2>2 DEF CaptureOK, OriginalsKnown, NothingLost, RollbackOnly
    <2>. QED
      BY <1>2, <1>3, <2>1, <2>3, CaptureAction, Fewer
  <1>. QED
    BY <1>2, <1>4, <1>5

\* Delete: without a finalizer the object goes, with one it is marked.
LEMMA DeletedStep ==
  ASSUME IInv, NEW n \in SnapName, snaps[n] # Nil
  PROVE  /\ Deleted(snaps[n]) \in {Nil} \cup Snapshot
         /\ snaps'[n] = Deleted(snaps[n]) => Discards(n) \/ Marks(n)
  <1>. DEFINE s == snaps[n]
  <1>1. s \in Snapshot /\ s.fin \in BOOLEAN
    BY SnapshotFields DEF IInv, TypeOK
  <1>2. CASE ~s.fin
    BY <1>2 DEF Deleted, Discards
  <1>3. CASE s.fin
    <2>. DEFINE v == [s EXCEPT !.deleting = TRUE]
    <2>1. /\ v \in Snapshot /\ v.tscs = s.tscs /\ v.fin = s.fin /\ v.ready = s.ready
          /\ v.rolledBack = s.rolledBack
      BY <1>1 DEF Snapshot
    <2>2. Deleted(s) = v
      BY <1>3 DEF Deleted
    <2>. HIDE DEF v
    <2>. QED
      BY <2>1, <2>2 DEF Marks, IsRolledBack
  <1>. QED
    BY <1>1, <1>2, <1>3

LEMMA DeleteSnapOK ==
  ASSUME IInv, NEW n \in SnapName, DeleteSnap(n) \/ DeleteSnapFails(n),
         UNCHANGED cluster
  PROVE  ClusterStep(Thread) /\ faults' \in 0..MaxFaults
  <1>1. CASE snaps[n] = Nil
    BY <1>1, Calls DEF DeleteSnap, DeleteSnapFails
  <1>2. CASE snaps[n] # Nil
    <2>1. Write(n, Deleted(snaps[n])) \/ WriteFails(n, Deleted(snaps[n]))
      BY <1>2 DEF DeleteSnap, DeleteSnapFails
    <2>2. /\ Deleted(snaps[n]) \in {Nil} \cup Snapshot
          /\ snaps'[n] = Deleted(snaps[n]) => Discards(n) \/ Marks(n)
      BY <1>2, DeletedStep
    <2>. QED
      BY <2>1, <2>2, Writes
  <1>. QED
    BY <1>1, <1>2

LEMMA CapDeleteOK ==
  ASSUME IInv, NEW t \in Capturers, CapDelete(t)
  PROVE  ActionOK(t)
  <1>1. /\ t \in Thread /\ CaptureOK(t) /\ {"idle", "capCreate"} \subseteq Labels
    BY MyThread DEF IInv, ThreadsConsistent, Labels
  <1>2. /\ pc[t] = "capDelete"
        /\ UNCHANGED <<cluster, cfg, tries, kind, bounds>>
        /\ Leave(t, "idle") \/ Goto(t, "capCreate")
    BY DEF CapDelete
  <1>3. cur[t].n \in SnapName
    BY <1>1, <1>2, HeldName DEF CaptureOK
  <1>4. ClusterStep(Thread) /\ faults' \in 0..MaxFaults /\ Attempts(t)
    BY <1>2, <1>3, DeleteSnapOK, TriesStay DEF CapDelete
  <1>5. CASE Leave(t, "idle")
    BY <1>1, <1>2, <1>4, <1>5, Control, CaptureLeaves
  <1>6. CASE Goto(t, "capCreate")
    <2>1. Places(t) /\ pc'[t] = "capCreate" /\ cur'[t] = cur[t]
      BY <1>1, <1>6, Control
    <2>2. Holds(t)' /\ ~Tracked(cur[t].n)'
      BY <1>1, <1>2, <1>4, <2>1, CaptureKnows
    <2>3. CaptureOK(t)'
      BY <1>1, <1>2, <2>1, <2>2 DEF CaptureOK, OriginalsKnown, NothingLost, RollbackOnly
    <2>. QED
      BY <1>2, <1>4, <2>1, <2>3, CaptureAction, Fewer
  <1>. QED
    BY <1>2, <1>5, <1>6

LEMMA CapCleanupOK ==
  ASSUME IInv, NEW t \in Capturers, CapCleanup(t)
  PROVE  ActionOK(t)
  <1>1. t \in Thread /\ CaptureOK(t) /\ "idle" \in Labels
    BY MyThread DEF IInv, ThreadsConsistent, Labels
  <1>2. /\ pc[t] = "capCleanup"
        /\ UNCHANGED <<cluster, cfg, tries, kind, bounds>>
    BY DEF CapCleanup
  <1>3. cur[t].n \in SnapName
    BY <1>1, <1>2, HeldName DEF CaptureOK
  <1>4. ClusterStep(Thread) /\ faults' \in 0..MaxFaults /\ Attempts(t)
    BY <1>2, <1>3, DeleteSnapOK, TriesStay DEF CapCleanup
  <1>5. Places(t) /\ pc'[t] = "idle"
    BY <1>1, Control DEF CapCleanup
  <1>. QED
    BY <1>2, <1>4, <1>5, CaptureLeaves

\* A capture that goes on with the item it has.
LEMMA CaptureGoes ==
  ASSUME IInv, NEW t \in Capturers, CaptureOK(t), pc[t] # "idle",
         Places(t), cur'[t] = cur[t], ClusterStep(Thread),
         Attempts(t), UNCHANGED <<cfg, kind, bounds>>, faults' \in 0..MaxFaults,
         pc'[t] \in {"capFinGet", "capFinPatch", "capReadyGet", "capCleanup"},
         pc'[t] \in {"capFinPatch", "capReadyGet"} => tries'[t] >= 1,
         pc'[t] = "capReadyGet" /\ CaptureOnly /\ Live(cur[t].n)' => Guarded(cur[t].n)'
  PROVE  ActionOK(t)
  <1>1. Holds(t)' /\ ~Tracked(cur[t].n)'
    BY CaptureKnows
  <1>2. CaptureOK(t)'
    BY <1>1 DEF CaptureOK, CaptureOnly
  <1>. QED
    BY <1>2, CaptureAction, Fewer

LEMMA CapCreateOK ==
  ASSUME IInv, NEW t \in Capturers, CapCreate(t)
  PROVE  ActionOK(t)
  <1>. DEFINE n == cur[t].n
              s == cur[t].obj
  <1>1. /\ t \in Thread /\ CaptureOK(t) /\ {"idle", "capFinGet"} \subseteq Labels
    BY MyThread DEF IInv, ThreadsConsistent, Labels
  <1>2. /\ pc[t] = "capCreate"
        /\ UNCHANGED <<cluster, cfg, tries, kind, bounds>>
    BY DEF CapCreate
  <1>3. /\ n \in SnapName /\ Existing(n) /\ ~Tracked(n) /\ ~RollbackOnly
        /\ s \in Snapshot
        /\ ~s.fin /\ ~s.ready /\ s.rolledBack = "Unknown"
        /\ OriginalsKnown => s.tscs # Injected
    BY <1>1, <1>2, HeldName DEF CaptureOK, RollbackOnly
  <1>4. ASSUME snaps[n] = Nil, Write(n, s) \/ WriteFails(n, s)
        PROVE  ClusterStep(Thread) /\ faults' \in 0..MaxFaults
    <2>1. snaps'[n] = s => Creates(n)
      BY <1>3, <1>4 DEF Creates
    <2>. HIDE DEF n, s
    <2>. QED
      BY <1>2, <1>3, <1>4, <2>1, Writes
  <1>5. ClusterStep(Thread) /\ faults' \in 0..MaxFaults /\ Attempts(t)
    BY <1>2, <1>4, Calls, TriesStay DEF CapCreate, WriteFails
  <1>6. CASE Leave(t, "idle")
    BY <1>1, <1>2, <1>5, <1>6, Control, CaptureLeaves
  <1>7. CASE Goto(t, "capFinGet")
    <2>1. Places(t) /\ pc'[t] = "capFinGet" /\ cur'[t] = cur[t]
      BY <1>1, <1>7, Control
    <2>. QED
      BY <1>1, <1>2, <1>5, <2>1, CaptureGoes
  <1>. QED
    BY <1>6, <1>7 DEF CapCreate

LEMMA CapFinGetOK ==
  ASSUME IInv, NEW t \in Capturers, CapFinGet(t)
  PROVE  ActionOK(t)
  <1>1. /\ t \in Thread /\ CaptureOK(t)
        /\ {"capCleanup", "capReadyGet", "capFinPatch"} \subseteq Labels
    BY MyThread DEF IInv, ThreadsConsistent, Labels
  <1>2. /\ pc[t] = "capFinGet" /\ NoWrite /\ faults' \in 0..MaxFaults
        /\ UNCHANGED <<cluster, cfg, kind, bounds>>
        /\ tries' = [tries EXCEPT ![t] = RetrySteps]
        /\ \/ Goto(t, "capCleanup")
           \/ Goto(t, "capFinPatch")
           \/ Goto(t, "capReadyGet") /\ Guarded(cur[t].n)
    BY Calls DEF CapFinGet, Guarded
  <1>3. Attempts(t) /\ tries'[t] >= 1
    BY <1>1, <1>2, ConstantsAssumption DEF Attempts, IInv, TypeOK
  <1>4. ClusterStep(Thread)
    BY <1>2, Calls
  <1>5. /\ Places(t) /\ cur'[t] = cur[t]
        /\ pc'[t] \in {"capCleanup", "capFinPatch", "capReadyGet"}
        /\ pc'[t] = "capReadyGet" => Guarded(cur[t].n)
    BY <1>1, <1>2, Control
  <1>6. pc'[t] = "capReadyGet" /\ CaptureOnly /\ Live(cur[t].n)' => Guarded(cur[t].n)'
    BY <1>1, <1>2, <1>4, <1>5, CaptureKnows
  <1>. QED
    BY <1>1, <1>2, <1>3, <1>4, <1>5, <1>6, CaptureGoes

LEMMA CapFinPatchOK ==
  ASSUME IInv, NEW t \in Capturers, CapFinPatch(t)
  PROVE  ActionOK(t)
  <1>. DEFINE n == cur[t].n
              v == [snaps[n] EXCEPT !.fin = TRUE]
  <1>1. /\ t \in Thread /\ CaptureOK(t)
        /\ {"capCleanup", "capReadyGet"} \subseteq Labels
    BY MyThread DEF IInv, ThreadsConsistent, Labels
  <1>2. /\ pc[t] = "capFinPatch"
        /\ UNCHANGED <<cluster, cfg, tries, kind, bounds>>
    BY DEF CapFinPatch
  <1>3. n \in SnapName /\ tries[t] >= 1
    BY <1>1, <1>2, HeldName DEF CaptureOK
  <1>4. ASSUME snaps[n] # Nil, Write(n, v) \/ WriteFails(n, v)
        PROVE  /\ ClusterStep(Thread) /\ faults' \in 0..MaxFaults
               /\ Write(n, v) => Guarded(n)'
    <2>1. snaps'[n] = v => Guards(n)
      BY <1>4 DEF Guards
    <2>2. snaps[n] \in Snapshot
      BY <1>3, <1>4 DEF IInv, TypeOK
    <2>3. v \in Snapshot /\ v.fin /\ v # Nil
      BY <2>2, FinalizerAdded, SnapshotFields DEF SameButFin
    <2>4. UNCHANGED cluster
      BY <1>2
    <2>5. Write(n, v) => snaps'[n] = v
      BY <1>3, <2>3, Stores DEF Write
    <2>6. Write(n, v) => Guarded(n)'
      <3>1. cur' = cur
        BY DEF CapFinPatch, Goto
      <3>. QED
        BY <2>3, <2>5, <3>1 DEF Guarded
    <2>7. ClusterStep(Thread) /\ faults' \in 0..MaxFaults
      <3>. HIDE DEF v, n
      <3>. QED
        BY <1>3, <1>4, <2>1, <2>3, <2>4, Writes
    <2>. QED
      BY <2>6, <2>7
  <1>5. ClusterStep(Thread) /\ faults' \in 0..MaxFaults /\ Attempts(t)
    BY <1>2, <1>4, Calls, TriesStay DEF CapFinPatch
  <1>6. /\ Places(t) /\ cur'[t] = cur[t]
        /\ \/ pc'[t] = "capCleanup"
           \/ pc'[t] = "capReadyGet" /\ Guarded(n)'
    BY <1>1, <1>4, Control DEF CapFinPatch, AfterFinalizer
  <1>. QED
    BY <1>1, <1>2, <1>3, <1>5, <1>6, CaptureGoes

\* The Get of the retry loop: the copy and the resourceVersion.
LEMMA CapReadyGetOK ==
  ASSUME IInv, NEW t \in Capturers, CapReadyGet(t)
  PROVE  ActionOK(t)
  <1>1. /\ t \in Thread /\ CaptureOK(t) /\ {"capCleanup", "capReady"} \subseteq Labels
    BY MyThread DEF IInv, ThreadsConsistent, Labels
  <1>2. /\ pc[t] = "capReadyGet"
        /\ UNCHANGED <<cluster, cfg, tries, kind, bounds>>
    BY DEF CapReadyGet
  <1>3. /\ Holds(t) /\ ~Tracked(cur[t].n) /\ cur[t].n \in SnapName
        /\ CaptureOnly /\ Live(cur[t].n) => Guarded(cur[t].n)
        /\ tries[t] >= 1
    BY <1>1, <1>2, HeldName DEF CaptureOK
  <1>4. Attempts(t)
    BY <1>2, TriesStay
  <1>5. CASE NoWrite /\ faults' \in 0..MaxFaults /\ Goto(t, "capCleanup")
    <2>1. Places(t) /\ pc'[t] = "capCleanup" /\ cur'[t] = cur[t]
      BY <1>1, <1>5, Control
    <2>. QED
      BY <1>1, <1>2, <1>4, <1>5, <2>1, Calls, CaptureGoes
  <1>6. ASSUME NEW n \in SnapName, n = cur[t].n, snaps[n] # Nil,
               cur' = [cur EXCEPT ![t] = Copy(n)],
               pc' = [pc EXCEPT ![t] = "capReady"],
               fresh' = fresh \cup {<<t, n>>},
               UNCHANGED <<snaps, todo, faults>>
        PROVE  ActionOK(t)
    <2>1. PICK j \in Item : j = Copy(n) /\ j.n = n /\ j.obj = snaps[n]
      BY CopyItem
    <2>2. Places(t) /\ pc'[t] = "capReady" /\ cur'[t] = j
      BY <1>1, <1>6, <2>1 DEF Places, IInv, TypeOK
    <2>3. CopiesStale(Thread \ {t})
      BY <1>1, <1>6 DEF CopiesStale, IInv, TypeOK
    <2>4. ClusterStep(Thread \ {t})
      BY <1>2, <1>6, <2>3 DEF ClusterStep, cluster, IInv, ClusterOK
    <2>5. /\ Existing(n)' /\ ~Tracked(n)'
          /\ CaptureOnly /\ Live(n)' => Guarded(n)'
          /\ j.obj \in Snapshot /\ snaps'[n] = j.obj
      BY <1>2, <1>3, <1>6, <2>1
         DEF cluster, Existing, Tracked, Live, Guarded, Holds, IInv, TypeOK
    <2>6. CaptureOK(t)'
      BY <1>2, <1>3, <2>1, <2>2, <2>5
         DEF CaptureOK, Holds, Current, CaptureOnly, Tracked, Live, Guarded, Existing
    <2>7. faults' \in 0..MaxFaults
      BY <1>6 DEF IInv, TypeOK
    <2>. QED
      BY <1>2, <1>4, <2>2, <2>4, <2>6, <2>7, CaptureAction
  <1>. QED
    BY <1>3, <1>5, <1>6, Calls DEF CapReadyGet

LEMMA CapReadyOK ==
  ASSUME IInv, NEW t \in Capturers, CapReady(t)
  PROVE  ActionOK(t)
  <1>. DEFINE n == cur[t].n
              v == WithStatus(n, TRUE, cur[t].obj.rolledBack)
  <1>1. /\ t \in Thread /\ CaptureOK(t)
        /\ {"idle", "capCleanup", "capReadyGet"} \subseteq Labels
    BY MyThread DEF IInv, ThreadsConsistent, Labels
  <1>2. /\ pc[t] = "capReady" /\ UNCHANGED <<cluster, cfg, kind, bounds>>
        /\ tries' = [tries EXCEPT ![t] = @ - 1]
    BY DEF CapReady
  <1>3. /\ Holds(t) /\ ~Tracked(n) /\ n \in SnapName /\ ~RollbackOnly
        /\ CaptureOnly /\ Live(n) => Guarded(n)
        /\ tries[t] >= 1 /\ tries[t] \in 0..RetrySteps
        /\ cur[t].obj \in Snapshot /\ Current(t, cur[t])
    BY <1>1, <1>2, HeldName DEF CaptureOK, RollbackOnly, IInv, TypeOK
  <1>4. Attempts(t) /\ tries'[t] = tries[t] - 1
    BY <1>1, <1>2, <1>3, ConstantsAssumption DEF Attempts, IInv, TypeOK
  <1>5. ASSUME ~Conflict(t, n), Write(n, v) \/ WriteFails(n, v)
        PROVE  ClusterStep(Thread) /\ faults' \in 0..MaxFaults
    <2>1. snaps[n] = cur[t].obj /\ snaps[n] # Nil
      BY <1>3, <1>5, SnapshotFields DEF Current, Conflict
    <2>2. /\ v \in Snapshot
          /\ v.tscs = snaps[n].tscs /\ v.fin = snaps[n].fin
          /\ v.ready = TRUE /\ v.rolledBack = snaps[n].rolledBack
      <3>1. cur[t].obj.rolledBack \in Status
        BY <1>3, SnapshotFields
      <3>. QED
        BY <1>3, <2>1, <3>1 DEF WithStatus, Snapshot
    <2>3. snaps'[n] = v => Marks(n)
      <3>. HIDE DEF v, n
      <3>. QED
        BY <1>3, <2>1, <2>2 DEF Marks, IsRolledBack
    <2>4. UNCHANGED cluster
      BY <1>2
    <2>. HIDE DEF v, n
    <2>. QED
      BY <1>3, <1>5, <2>2, <2>3, <2>4, Writes
  <1>6. ClusterStep(Thread) /\ faults' \in 0..MaxFaults
    BY <1>2, <1>5, Calls DEF CapReady
  <1>7. CASE Leave(t, "idle")
    BY <1>1, <1>2, <1>4, <1>6, <1>7, Control, CaptureLeaves
  <1>8. CASE \/ Goto(t, "capCleanup")
             \/ Goto(t, "capReadyGet") /\ tries[t] > 1
    <2>1. /\ Places(t) /\ cur'[t] = cur[t]
          /\ \/ pc'[t] = "capCleanup"
             \/ pc'[t] = "capReadyGet" /\ tries'[t] >= 1
      BY <1>1, <1>3, <1>4, <1>8, ConstantsAssumption, Control
    <2>2. CaptureOnly /\ Live(cur[t].n)' => Guarded(cur[t].n)'
      BY <1>1, <1>2, <1>3, <1>6, <2>1, CaptureKnows
    <2>. QED
      BY <1>1, <1>2, <1>4, <1>6, <2>1, <2>2, CaptureGoes
  <1>. QED
    BY <1>7, <1>8 DEF CapReady

(***************************************************************************)
(* A replica dies; what users do.                                          *)
(***************************************************************************)
\* A step that moves no thread but those that start afresh.
LEMMA FreshThreads ==
  ASSUME IInv, ClusterStep(Thread), RestOK, UNCHANGED tries,
         pc' \in [Thread -> Labels], todo' \in [Thread -> SUBSET Item],
         cur' \in [Thread -> {Nil} \cup Item],
         \A u \in Thread : \/ Still(u)
                           \/ pc'[u] = InitPC(u) /\ todo'[u] = {}
  PROVE  IInv' /\ StepOK
  <1>1. Kept(Thread)
    BY ClusterStepKept
  <1>2. TypeOK'
    BY <1>1 DEF Kept, RestOK, IInv, TypeOK, ClusterStep, CopiesStale
  <1>3. ASSUME NEW u \in Thread
        PROVE  ThreadOK(u)'
    <2>1. CASE Still(u)
      BY <1>1, <2>1, OthersKeep DEF Kept
    <2>2. CASE pc'[u] = InitPC(u) /\ todo'[u] = {}
      BY <2>2 DEF ThreadOK, MainOK, RollbackOK, CaptureOK, InitPC
    <2>. QED
      BY <2>1, <2>2
  <1>. QED
    BY <1>1, <1>2, <1>3 DEF Kept, IInv, ThreadsConsistent

LEMMA CrashOK ==
  ASSUME IInv, NEW r \in Replica, Crash(r)
  PROVE  IInv' /\ StepOK /\ ClusterStep(Thread)
  <1>. DEFINE mine == {t \in Thread : ReplicaOf(t) = r}
  <1>1. /\ UNCHANGED <<cluster, snaps, tries, kind, changes, faults>>
        /\ crashes' \in 0..MaxCrashes
        /\ cfg' \in [Replica -> {Nil} \cup Config]
    BY ConstantsAssumption DEF Crash, IInv, TypeOK
  <1>2. RestOK
    BY <1>1 DEF RestOK, IInv, TypeOK
  <1>3. ClusterStep(Thread)
    BY <1>1 DEF Crash, ClusterStep, CopiesStale, cluster, IInv, TypeOK, ClusterOK
  <1>4. /\ pc'   = [t \in Thread |-> IF t \in mine THEN InitPC(t) ELSE pc[t]]
        /\ todo' = [t \in Thread |-> IF t \in mine THEN {} ELSE todo[t]]
        /\ cur'  = [t \in Thread |-> IF t \in mine THEN Nil ELSE cur[t]]
    BY DEF Crash
  <1>5. \A t \in Thread : InitPC(t) \in Labels
    BY DEF InitPC, Labels
  <1>. HIDE DEF mine
  <1>6. /\ pc' \in [Thread -> Labels] /\ todo' \in [Thread -> SUBSET Item]
        /\ cur' \in [Thread -> {Nil} \cup Item]
    BY <1>4, <1>5 DEF IInv, TypeOK
  <1>7. \A u \in Thread : Still(u) \/ (pc'[u] = InitPC(u) /\ todo'[u] = {})
    BY <1>1, <1>4 DEF Still
  <1>. QED
    BY <1>1, <1>2, <1>3, <1>6, <1>7, FreshThreads

LEMMA UserStepOK ==
  ASSUME IInv, UserStep
  PROVE  IInv' /\ StepOK /\ ClusterStep(Thread)
  <1>1. /\ changes' \in 0..MaxChanges
        /\ UNCHANGED local
    BY ConstantsAssumption
       DEF UserStep, ChangeConfigMap, EditTSCs, CreateWorkload, DeleteWorkload,
           DeleteSnapshot, User, IInv, TypeOK
  <1>2. UNCHANGED fresh /\ UNCHANGED snaps => CopiesStale(Thread)
    BY DEF CopiesStale, IInv, TypeOK
  <1>3. UNCHANGED configMap => configMap' \in ConfigMaps \cup {InitConfigMap}
    BY DEF IInv, ClusterOK
  <1>4. ClusterStep(Thread)
    <2>1. ASSUME NEW cm \in ConfigMaps, ChangeConfigMap(cm)
          PROVE  ClusterStep(Thread)
      BY <1>2, <2>1 DEF ChangeConfigMap, ClusterStep
    <2>2. ASSUME NEW w \in Workload, NEW v \in Edits, EditTSCs(w, v)
          PROVE  ClusterStep(Thread)
      <3>1. v \in TSC /\ v # Injected
        BY ConstantsAssumption
      <3>2. /\ workloads[w] \in Object /\ [workloads[w] EXCEPT !.tscs = v] \in Object
            /\ workloads' = [workloads EXCEPT ![w] = [workloads[w] EXCEPT !.tscs = v]]
        BY <2>2, <3>1 DEF EditTSCs, IInv, TypeOK, Object
      <3>3. WorkloadStep(w)
        BY <2>2, <3>1, <3>2 DEF EditTSCs, WorkloadStep, Retouches, IInv, TypeOK
      <3>. QED
        BY <1>2, <1>3, <2>2, <3>3 DEF EditTSCs, ClusterStep
    <2>3. ASSUME NEW w \in Workload, NEW v \in Edits, CreateWorkload(w, v)
          PROVE  ClusterStep(Thread)
      <3>. DEFINE o == [uid |-> lastUid[w] + 1, tscs |-> v, managed |-> FALSE]
      <3>1. /\ v \in TSC /\ v # Injected
            /\ lastUid[w] \in 0..MaxUid /\ lastUid[w] < MaxUid
            /\ workloads[w] = Nil
            /\ lastUid' = [lastUid EXCEPT ![w] = @ + 1]
        BY <2>3, ConstantsAssumption DEF CreateWorkload, IInv, TypeOK
      <3>2. o \in Object
        BY <3>1, ConstantsAssumption DEF Object
      <3>3. workloads' = [workloads EXCEPT ![w] = o]
        BY <2>3, <3>1 DEF CreateWorkload, IInv, TypeOK
      <3>4. /\ workloads'[w] = o
            /\ \A x \in Workload \ {w} : workloads'[x] = workloads[x]
            /\ workloads' \in [Workload -> {Nil} \cup Object]
        <4>. HIDE DEF o
        <4>. QED
          BY <3>2, <3>3 DEF IInv, TypeOK
      <3>5. WorkloadStep(w)
        BY <2>3, <3>1, <3>4 DEF CreateWorkload, WorkloadStep, Adds
      <3>. QED
        BY <1>2, <1>3, <2>3, <3>5 DEF CreateWorkload, ClusterStep
    <2>4. ASSUME NEW w \in Workload, DeleteWorkload(w)
          PROVE  ClusterStep(Thread)
      <3>1. WorkloadStep(w)
        BY <2>4 DEF DeleteWorkload, WorkloadStep, Removes, IInv, TypeOK
      <3>. QED
        BY <1>2, <1>3, <2>4, <3>1 DEF DeleteWorkload, ClusterStep
    <2>5. ASSUME NEW n \in SnapName, DeleteSnapshot(n)
          PROVE  ClusterStep(Thread)
      <3>1. /\ snaps[n] # Nil /\ Store(n, Deleted(snaps[n]))
            /\ UNCHANGED <<workloads, configMap, lastUid>>
        BY <2>5 DEF DeleteSnapshot
      <3>2. Deleted(snaps[n]) \in {Nil} \cup Snapshot
        BY <3>1, DeletedStep
      <3>3. SnapStep(n) /\ CopiesStale(Thread)
        BY <3>1, <3>2, Stores, DeletedStep DEF SnapStep
      <3>. QED
        BY <1>3, <3>1, <3>3 DEF ClusterStep
    <2>. QED
      BY <2>1, <2>2, <2>3, <2>4, <2>5 DEF UserStep
  <1>5. RestOK
    BY <1>1 DEF RestOK, local, IInv, TypeOK
  <1>6. /\ UNCHANGED tries
        /\ pc' \in [Thread -> Labels] /\ todo' \in [Thread -> SUBSET Item]
        /\ cur' \in [Thread -> {Nil} \cup Item]
        /\ \A u \in Thread : Still(u)
    BY <1>1 DEF local, Still, IInv, TypeOK
  <1>. QED
    BY <1>4, <1>5, <1>6, FreshThreads

(***************************************************************************)
(* The theorems.                                                           *)
(***************************************************************************)
LEMMA InitIInv ==
  ASSUME Init
  PROVE  IInv
  <1>. PICK c \in InitClusters :
         /\ workloads = c.workloads
         /\ snaps     = c.snaps
         /\ lastUid   = c.lastUid
    BY DEF Init
  <1>1. /\ workloads \in [Workload -> {Nil} \cup Object]
        /\ snaps \in [SnapName -> {Nil} \cup Snapshot]
        /\ lastUid \in [Workload -> 0..MaxUid]
        /\ \A w \in Workload : workloads[w] # Nil => workloads[w].uid = lastUid[w]
    BY ConstantsAssumption
  <1>2. \A t \in Thread : InitPC(t) \in Labels
    BY DEF InitPC, Labels
  <1>3. TypeOK
    BY <1>1, <1>2, ConstantsAssumption DEF Init, TypeOK, Kinds
  <1>4. ThreadsConsistent
    BY DEF Init, ThreadsConsistent, ThreadOK, MainOK, RollbackOK, CaptureOK, InitPC
  <1>5. \A n \in SnapName :
          snaps[n] # Nil =>
            /\ Existing(n)
            /\ snaps[n].tscs # Injected
            /\ Live(n) =>
                 /\ IsRolledBack(snaps[n]) => workloads[n[1]].tscs # Injected
                 /\ snaps[n].ready /\ ~IsRolledBack(snaps[n]) => snaps[n].fin
    BY EarlierRelease DEF Existing, Live, IsRolledBack
  <1>6. NothingLost =>
          \A w \in Workload :
            workloads[w] # Nil /\ workloads[w].tscs = Injected =>
              LET n == <<w, workloads[w].uid>>
              IN  /\ workloads[w].managed
                  /\ Guarded(n)
                  /\ ~IsRolledBack(snaps[n])
    BY DEF NothingLost, Guarded, IsRolledBack
  <1>7. configMap \in ConfigMaps \cup {InitConfigMap}
    BY DEF Init
  <1>8. ClusterOK
    BY <1>1, <1>5, <1>6, <1>7 DEF ClusterOK, RestoredWhenMarked, ReadyGuarded
  <1>. QED
    BY <1>3, <1>4, <1>8 DEF IInv

\* Every step keeps the invariant, does what the action properties ask, and
\* changes the cluster in one of the ways above.
LEMMA NextOK ==
  ASSUME IInv, [Next]_vars
  PROVE  IInv' /\ StepOK /\ ClusterStep({})
  <1>1. ASSUME NEW t, ActionOK(t)
        PROVE  IInv' /\ StepOK /\ ClusterStep({})
    BY <1>1, ActionKeeps, Fewer DEF ActionOK
  <1>2. ASSUME NEW r \in Replica, MainStep(r)
        PROVE  \E t : ActionOK(t)
    BY <1>2, BootOK, OrphanListOK, OrphanOK, ManagedListOK, ManagedOK, StripOK,
       RemoveFinalizerGetOK, RemoveFinalizerPatchOK DEF MainStep
  <1>3. ASSUME NEW r \in Replica, RollbackStep(Rollback(r))
        PROVE  \E t : ActionOK(t)
    BY <1>3, RbListOK, RbNextOK, VerifyOK, RestoreOK, MarkOK, MarkFailedOK,
       RemoveFinalizerGetOK, RemoveFinalizerPatchOK DEF RollbackStep
  <1>4. ASSUME NEW t \in Capturers, CaptureStep(t)
        PROVE  ActionOK(t)
    BY <1>4, CapGetOK, CapDeleteOK, CapCreateOK, CapFinGetOK, CapFinPatchOK,
       CapReadyGetOK, CapReadyOK, CapCleanupOK DEF CaptureStep
  <1>5. ClusterStep(Thread) => ClusterStep({})
    BY Fewer
  <1>6. CASE Next
    BY <1>1, <1>2, <1>3, <1>4, <1>5, <1>6, OnConfigMapEventOK, CaptureStartOK,
       CrashOK, UserStepOK DEF Next
  <1>7. CASE UNCHANGED vars
    <2>1. UNCHANGED <<cluster, snaps, fresh>>
      BY <1>7 DEF vars, cluster
    <2>2. ClusterStep(Thread)
      BY <2>1, Calls DEF NoWrite
    <2>3. RestOK
      BY <1>7 DEF vars, RestOK, IInv, TypeOK
    <2>4. IInv' /\ StepOK
      BY <1>7, <2>2, <2>3, FreshThreads DEF vars, Still, IInv, TypeOK
    <2>. QED
      BY <1>5, <2>2, <2>4
  <1>. QED
    BY <1>6, <1>7

(***************************************************************************)
(* The contract of RollbackContract.                                       *)
(***************************************************************************)
Records == [n \in SnapName |-> RecordOf(n)]
Guarding == [n \in SnapName |-> snaps[n] # Nil /\ snaps[n].fin]
Targets == [n \in SnapName |-> TargetOf(n)]

LEMMA ContractStutters ==
  ASSUME \A m \in SnapName :
           /\ RecordOf(m)' = RecordOf(m)
           /\ Guarded(m)' = Guarded(m)
           /\ TargetOf(m)' = TargetOf(m)
  PROVE  UNCHANGED Contract!vars
  BY DEF Contract!vars, Guarded

\* A step that leaves one of the three as it is, or changes it at n.
LEMMA ContractChanges ==
  ASSUME NEW n \in SnapName
  PROVE  /\ (\A m \in SnapName : RecordOf(m)' = RecordOf(m)) => Records' = Records
         /\ (\A m \in SnapName : Guarded(m)' = Guarded(m)) => Guarding' = Guarding
         /\ (\A m \in SnapName : TargetOf(m)' = TargetOf(m)) => Targets' = Targets
         /\ (\A m \in SnapName \ {n} : RecordOf(m)' = RecordOf(m)) =>
              Records' = [Records EXCEPT ![n] = RecordOf(n)']
         /\ (\A m \in SnapName \ {n} : Guarded(m)' = Guarded(m)) =>
              Guarding' = [Guarding EXCEPT ![n] = Guarded(n)']
         /\ (\A m \in SnapName \ {n} : TargetOf(m)' = TargetOf(m)) =>
              Targets' = [Targets EXCEPT ![n] = TargetOf(n)']
         /\ Records[n] = RecordOf(n) /\ Guarding[n] = Guarded(n)
         /\ Targets[n] = TargetOf(n)
  BY DEF Records, Guarding, Targets, Guarded

\* The actions of the contract, read off the cluster.
LEMMA ContractActions ==
  ASSUME NEW n \in SnapName
  PROVE  /\ RecordOf(n) = "absent" /\ UNCHANGED <<Guarding, Targets>>
              /\ Records' = [Records EXCEPT ![n] = "kept"] => Contract!Capture(n)
         /\ RecordOf(n) # "absent" /\ UNCHANGED <<Records, Targets>>
              /\ Guarding' = [Guarding EXCEPT ![n] = TRUE] => Contract!Guard(n)
         /\ TargetOf(n) = "injected" /\ UNCHANGED <<Records, Guarding>>
              /\ Targets' = [Targets EXCEPT ![n] = "clean"] => Contract!Restore(n)
         /\ RecordOf(n) = "kept" /\ TargetOf(n) # "injected"
              /\ UNCHANGED <<Guarding, Targets>>
              /\ Records' = [Records EXCEPT ![n] = "rolledBack"] =>
                Contract!RollBack(n)
         /\ Guarded(n) /\ (RecordOf(n) = "rolledBack" \/ TargetOf(n) = "gone")
              /\ UNCHANGED Targets
              /\ Guarding' = [Guarding EXCEPT ![n] = FALSE]
              /\ (UNCHANGED Records \/ Records' = [Records EXCEPT ![n] = "absent"]) =>
                Contract!Release(n)
         /\ ~Guarded(n) /\ UNCHANGED <<Guarding, Targets>>
              /\ Records' = [Records EXCEPT ![n] = "absent"] => Contract!Discard(n)
         /\ TargetOf(n) = "gone" /\ RecordOf(n) = "absent"
              /\ UNCHANGED <<Records, Guarding>>
              /\ Targets' = [Targets EXCEPT ![n] = "clean"] => Contract!Appear(n)
         /\ UNCHANGED <<Records, Guarding>>
              /\ Targets' = [Targets EXCEPT ![n] = "gone"] => Contract!Disappear(n)
  <1>1. /\ Records[n] = RecordOf(n) /\ Guarding[n] = Guarded(n)
        /\ Targets[n] = TargetOf(n)
    BY ContractChanges
  <1>3. RecordOf(n) = "absent" /\ UNCHANGED <<Guarding, Targets>>
          /\ Records' = [Records EXCEPT ![n] = "kept"] => Contract!Capture(n)
    BY <1>1 DEF Contract!Capture, Contract!Set, Records, Guarding, Targets
  <1>4. RecordOf(n) # "absent" /\ UNCHANGED <<Records, Targets>>
          /\ Guarding' = [Guarding EXCEPT ![n] = TRUE] => Contract!Guard(n)
    BY <1>1 DEF Contract!Guard, Contract!Set, Records, Guarding, Targets
  <1>5. TargetOf(n) = "injected" /\ UNCHANGED <<Records, Guarding>>
          /\ Targets' = [Targets EXCEPT ![n] = "clean"] => Contract!Restore(n)
    BY <1>1 DEF Contract!Restore, Contract!Set, Records, Guarding, Targets
  <1>6. RecordOf(n) = "kept" /\ TargetOf(n) # "injected"
          /\ UNCHANGED <<Guarding, Targets>>
          /\ Records' = [Records EXCEPT ![n] = "rolledBack"] => Contract!RollBack(n)
    BY <1>1 DEF Contract!RollBack, Contract!Set, Records, Guarding, Targets
  <1>7. Guarded(n) /\ (RecordOf(n) = "rolledBack" \/ TargetOf(n) = "gone")
          /\ UNCHANGED Targets
          /\ Guarding' = [Guarding EXCEPT ![n] = FALSE]
          /\ (UNCHANGED Records \/ Records' = [Records EXCEPT ![n] = "absent"]) =>
            Contract!Release(n)
    BY <1>1 DEF Contract!Release, Contract!Set, Records, Guarding, Targets, Guarded
  <1>8. ~Guarded(n) /\ UNCHANGED <<Guarding, Targets>>
          /\ Records' = [Records EXCEPT ![n] = "absent"] => Contract!Discard(n)
    BY <1>1 DEF Contract!Discard, Contract!Set, Records, Guarding, Targets, Guarded
  <1>9. TargetOf(n) = "gone" /\ RecordOf(n) = "absent"
          /\ UNCHANGED <<Records, Guarding>>
          /\ Targets' = [Targets EXCEPT ![n] = "clean"] => Contract!Appear(n)
    BY <1>1 DEF Contract!Appear, Contract!Set, Records, Guarding, Targets
  <1>10. UNCHANGED <<Records, Guarding>>
          /\ Targets' = [Targets EXCEPT ![n] = "gone"] => Contract!Disappear(n)
    BY <1>1 DEF Contract!Disappear, Contract!Set, Records, Guarding, Targets
  <1>. QED
    BY <1>3, <1>4, <1>5, <1>6, <1>7, <1>8, <1>9, <1>10

LEMMA SnapStepRefines ==
  ASSUME IInv, Apart, NEW n \in SnapName, SnapStep(n)
  PROVE  [Contract!Next]_(Contract!vars)
  <1>1. /\ \A m \in SnapName : TargetOf(m)' = TargetOf(m)
        /\ \A m \in SnapName \ {n} : RecordOf(m)' = RecordOf(m)
        /\ \A m \in SnapName \ {n} : Guarded(m)' = Guarded(m)
    BY DEF SnapStep, TargetOf, RecordOf, Guarded, Live
  <1>2. /\ Targets' = Targets
        /\ Records' = [Records EXCEPT ![n] = RecordOf(n)']
        /\ Guarding' = [Guarding EXCEPT ![n] = Guarded(n)']
        /\ RecordOf(n)' = RecordOf(n) => Records' = Records
        /\ Guarded(n)' = Guarded(n) => Guarding' = Guarding
    BY <1>1, ContractChanges
  <1>3. snaps[n] \in {Nil} \cup Snapshot /\ snaps'[n] \in {Nil} \cup Snapshot
    BY DEF IInv, TypeOK, SnapStep
  <1>4. CASE Creates(n)
    <2>1. /\ RecordOf(n) = "absent" /\ RecordOf(n)' = "kept"
          /\ Guarded(n)' = Guarded(n)
      BY <1>4, SnapshotFields DEF Creates, RecordOf, Guarded, IsRolledBack
    <2>2. Contract!Capture(n)
      BY <1>2, <2>1, ContractActions
    <2>. QED
      BY <2>2 DEF Contract!Next
  <1>5. CASE Discards(n)
    <2>1. RecordOf(n)' = "absent" /\ ~Guarded(n) /\ Guarded(n)' = Guarded(n)
      BY <1>5 DEF Discards, RecordOf, Guarded
    <2>2. Contract!Discard(n)
      BY <1>2, <2>1, ContractActions
    <2>. QED
      BY <2>2 DEF Contract!Next
  <1>6. CASE Releases(n)
    <2>1. Guarded(n) /\ (RecordOf(n) = "rolledBack" \/ TargetOf(n) = "gone")
      BY <1>6 DEF Releases, Apart, Finished, Guarded, RecordOf, TargetOf
    <2>2. /\ Guarded(n)' = FALSE
          /\ RecordOf(n)' = RecordOf(n) \/ RecordOf(n)' = "absent"
      <3>1. CASE snaps'[n] = Nil
        BY <3>1 DEF Guarded, RecordOf
      <3>2. CASE snaps'[n] = [snaps[n] EXCEPT !.fin = FALSE]
        <4>1. snaps[n] \in Snapshot
          BY <1>3, <1>6 DEF Releases, Guarded
        <4>2. SameButFin(snaps[n], snaps'[n]) /\ ~snaps'[n].fin
          BY <3>2, <4>1, FinalizerRemoved
        <4>. QED
          BY <4>1, <4>2, SnapshotFields DEF SameButFin, Guarded, RecordOf, IsRolledBack
      <3>. QED
        BY <1>6, <3>1, <3>2 DEF Releases
    <2>3. Contract!Release(n)
      BY <1>2, <2>1, <2>2, ContractActions
    <2>. QED
      BY <2>3 DEF Contract!Next
  <1>7. CASE Guards(n)
    <2>1. /\ snaps[n] \in Snapshot /\ snaps[n] # Nil
          /\ snaps'[n] = [snaps[n] EXCEPT !.fin = TRUE]
      BY <1>3, <1>7 DEF Guards
    <2>2. SameButFin(snaps[n], snaps'[n]) /\ snaps'[n].fin
      BY <2>1, FinalizerAdded
    <2>3. /\ RecordOf(n) # "absent" /\ RecordOf(n)' = RecordOf(n)
          /\ Guarded(n)' = TRUE
      BY <1>3, <2>1, <2>2, SnapshotFields DEF SameButFin, Guarded, RecordOf, IsRolledBack
    <2>4. Contract!Guard(n)
      BY <1>2, <2>3, ContractActions
    <2>. QED
      BY <2>4 DEF Contract!Next
  <1>8. CASE Marks(n)
    <2>1. /\ Guarded(n)' = Guarded(n)
          /\ \/ RecordOf(n)' = RecordOf(n)
             \/ /\ RecordOf(n) = "kept" /\ RecordOf(n)' = "rolledBack"
                /\ OriginalsKnown => Settled(n)
                /\ ~CaptureOnly
      BY <1>3, <1>8, SnapshotFields DEF Marks, Guarded, RecordOf
    <2>2. CASE RecordOf(n)' = RecordOf(n)
      BY <1>1, <2>1, <2>2, ContractStutters
    <2>3. CASE /\ RecordOf(n) = "kept" /\ RecordOf(n)' = "rolledBack"
               /\ OriginalsKnown => Settled(n)
               /\ ~CaptureOnly
      <3>1. TargetOf(n) # "injected"
        BY <2>3 DEF Apart, OriginalsKnown, Settled, TargetOf
      <3>2. Contract!RollBack(n)
        BY <1>2, <2>1, <2>3, <3>1, ContractActions
      <3>. QED
        BY <3>2 DEF Contract!Next
    <2>. QED
      BY <2>1, <2>2, <2>3
  <1>. QED
    BY <1>4, <1>5, <1>6, <1>7, <1>8 DEF SnapStep

LEMMA WorkloadStepRefines ==
  ASSUME IInv, Apart, NEW w \in Workload, WorkloadStep(w)
  PROVE  [Contract!Next]_(Contract!vars)
  <1>1. /\ \A m \in SnapName : RecordOf(m)' = RecordOf(m)
        /\ \A m \in SnapName : Guarded(m)' = Guarded(m)
        /\ \A m \in SnapName : m[1] # w => TargetOf(m)' = TargetOf(m)
    BY Names DEF WorkloadStep, TargetOf, RecordOf, Guarded, Live
  <1>2. CASE \A m \in SnapName : TargetOf(m)' = TargetOf(m)
    BY <1>1, <1>2, ContractStutters
  <1>3. ASSUME NEW m \in SnapName, TargetOf(m)' # TargetOf(m)
        PROVE  m[1] = w /\ m = <<w, m[2]>>
    BY <1>1, <1>3, Names
  <1>4. /\ workloads \in [Workload -> {Nil} \cup Object]
        /\ lastUid[w] \in 0..MaxUid
        /\ workloads[w] # Nil => workloads[w] \in Object
    BY DEF IInv, TypeOK
  <1>5. ASSUME NEW u,
               \A m \in SnapName :
                 TargetOf(m)' # TargetOf(m) =>
                   /\ m[2] = u
                   /\ \/ TargetOf(m) = "injected" /\ TargetOf(m)' = "clean"
                      \/ TargetOf(m)' = "gone"
                      \/ /\ TargetOf(m) = "gone" /\ RecordOf(m) = "absent"
                         /\ TargetOf(m)' = "clean"
        PROVE  [Contract!Next]_(Contract!vars)
    <2>. SUFFICES ASSUME NEW n \in SnapName, TargetOf(n)' # TargetOf(n)
                  PROVE  Contract!Next
      BY <1>2
    <2>1. \A m \in SnapName \ {n} : TargetOf(m)' = TargetOf(m)
      BY <1>3, <1>5
    <2>2. /\ Records' = Records /\ Guarding' = Guarding
          /\ Targets' = [Targets EXCEPT ![n] = TargetOf(n)']
      BY <1>1, <2>1, ContractChanges
    <2>3. Contract!Restore(n) \/ Contract!Disappear(n) \/ Contract!Appear(n)
      BY <1>5, <2>2, ContractActions
    <2>. QED
      BY <2>3 DEF Contract!Next
  <1>6. CASE Retouches(w)
    <2>1. PICK v \in TSC : /\ v # Injected
                           /\ workloads'[w] = [workloads[w] EXCEPT !.tscs = v]
      BY <1>6 DEF Retouches, Apart, OriginalsKnown
    <2>2. /\ workloads[w] # Nil /\ workloads'[w] # Nil
          /\ workloads'[w].uid = workloads[w].uid
          /\ workloads'[w].tscs # Injected
      BY <1>4, <1>6, <2>1, NilAssumption DEF Retouches, Object
    <2>3. ASSUME NEW m \in SnapName, TargetOf(m)' # TargetOf(m)
          PROVE  /\ m[2] = workloads[w].uid
                 /\ TargetOf(m) = "injected" /\ TargetOf(m)' = "clean"
      BY <1>3, <2>2, <2>3 DEF TargetOf, Live
    <2>. QED
      BY <1>5, <2>3
  <1>7. CASE Unmanages(w)
    <2>1. /\ workloads[w] # Nil /\ workloads'[w] # Nil
          /\ workloads'[w].uid = workloads[w].uid
          /\ workloads'[w].tscs = workloads[w].tscs
      BY <1>4, <1>7, NilAssumption DEF Unmanages, Object
    <2>2. \A m \in SnapName : TargetOf(m)' = TargetOf(m)
      BY <1>3, <2>1 DEF TargetOf, Live
    <2>. QED
      BY <1>2, <2>2
  <1>8. CASE Removes(w)
    <2>1. ASSUME NEW m \in SnapName, TargetOf(m)' # TargetOf(m)
          PROVE  m[2] = workloads[w].uid /\ TargetOf(m)' = "gone"
      BY <1>3, <1>8, <2>1 DEF Removes, TargetOf, Live
    <2>. QED
      BY <1>5, <2>1
  <1>9. CASE Adds(w)
    <2>1. PICK v \in TSC :
            /\ v # Injected
            /\ workloads'[w] = [uid |-> lastUid[w] + 1, tscs |-> v, managed |-> FALSE]
      BY <1>9 DEF Adds
    <2>2. /\ workloads[w] = Nil
          /\ workloads'[w].uid = lastUid[w] + 1 /\ workloads'[w].tscs # Injected
      BY <1>9, <2>1 DEF Adds
    <2>3. ASSUME NEW m \in SnapName, TargetOf(m)' # TargetOf(m)
          PROVE  /\ m[2] = lastUid[w] + 1
                 /\ TargetOf(m) = "gone" /\ TargetOf(m)' = "clean"
                 /\ RecordOf(m) = "absent"
      <3>1. /\ TargetOf(m) = "gone" /\ TargetOf(m)' = "clean"
            /\ m[1] = w /\ m[2] = lastUid[w] + 1
        BY <1>3, <2>2, <2>3 DEF TargetOf, Live
      <3>2. ~Existing(m)
        BY <1>4, <3>1, ConstantsAssumption DEF Existing
      <3>. QED
        BY <3>1, <3>2, LiveUid DEF RecordOf
    <2>. QED
      BY <1>5, <2>3
  <1>. QED
    BY <1>6, <1>7, <1>8, <1>9 DEF WorkloadStep

\* Every step of the detailed specification is one of the contract, or leaves
\* it alone.
LEMMA StepRefines ==
  ASSUME IInv, Apart, ClusterStep({})
  PROVE  [Contract!Next]_(Contract!vars)
  <1>1. CASE UNCHANGED <<workloads, snaps, lastUid>>
    <2>1. \A m \in SnapName : /\ RecordOf(m)' = RecordOf(m)
                              /\ Guarded(m)' = Guarded(m)
                              /\ TargetOf(m)' = TargetOf(m)
      BY <1>1 DEF RecordOf, Guarded, TargetOf, Live
    <2>. QED
      BY <2>1, ContractStutters
  <1>. QED
    BY <1>1, SnapStepRefines, WorkloadStepRefines DEF ClusterStep

LEMMA InitRefines ==
  ASSUME Init, Apart
  PROVE  Contract!Init
  <1>1. IInv
    BY InitIInv
  <1>2. ASSUME NEW n \in SnapName
        PROVE  Contract!Promise(n)
    <2>1. RestoredWhenMarked
      BY <1>1 DEF IInv, ClusterOK, Apart, OriginalsKnown
    <2>2. Guarded(n) => RecordOf(n) # "absent"
      BY DEF Guarded, RecordOf
    <2>3. RecordOf(n) = "rolledBack" => TargetOf(n) # "injected"
      BY <2>1 DEF RestoredWhenMarked, RecordOf, TargetOf
    <2>. QED
      BY <2>2, <2>3 DEF Contract!Promise, Guarded
  <1>3. \A n \in SnapName :
          /\ RecordOf(n) \in Contract!Records
          /\ TargetOf(n) \in Contract!Targets
          /\ (snaps[n] # Nil /\ snaps[n].fin) \in BOOLEAN
    BY DEF RecordOf, TargetOf, Contract!Records, Contract!Targets
  <1>. QED
    BY <1>2, <1>3 DEF Contract!Init

(***************************************************************************)
(* The theorems.  Those about RolledBack, the finalizer and the contract   *)
(* name what they need of a release: see RollbackOnly, CaptureOnly and     *)
(* NothingLost.                                                            *)
(***************************************************************************)
\* Every interleaving of the replicas' sweeps and rollbacks, captures,
\* crashes, lost answers and user changes keeps the inductive invariant.
THEOREM Invariance == Spec => []IInv
  <1>1. IInv /\ [Next]_vars => IInv'
    BY NextOK
  <1>. QED
    BY InitIInv, <1>1, PTL DEF Spec

\* The API server's objects, the configurations and the threads' locals keep
\* their shapes, whatever the ConfigMap says.
THEOREM TypeCorrect == Spec => []TypeOK
  <1>1. IInv => TypeOK
    BY DEF IInv
  <1>. QED
    BY Invariance, <1>1, PTL

\* What a sweep, a rollback or a capture found out with one API call and acts
\* on with the next is still true then, whatever happened in between.
THEOREM ThreadsKnow == Spec => []ThreadsConsistent
  <1>1. IInv => ThreadsConsistent
    BY DEF IInv
  <1>. QED
    BY Invariance, <1>1, PTL

\* A workload whose snapshot says RolledBack=True no longer carries the
\* injected constraints.
THEOREM MarkedIsRestored ==
  ASSUME OriginalsKnown \/ CaptureOnly
  PROVE  Spec => []RestoredWhenMarked
  <1>1. IInv => RestoredWhenMarked
    BY DEF IInv, ClusterOK
  <1>. QED
    BY Invariance, <1>1, PTL

\* A complete snapshot of a live workload keeps its finalizer until it has
\* been rolled back.
THEOREM CompleteIsGuarded ==
  ASSUME Apart
  PROVE  Spec => []ReadyGuarded
  <1>1. IInv => ReadyGuarded
    BY DEF IInv, ClusterOK
  <1>. QED
    BY Invariance, <1>1, PTL

\* Nothing takes RolledBack=True back.
THEOREM MarkedForGood == Spec => RolledBackIsFinal
  <1>1. IInv /\ [Next]_vars =>
          [\A n \in SnapName :
             snaps[n] # Nil /\ IsRolledBack(snaps[n]) /\ snaps'[n] # Nil =>
               IsRolledBack(snaps'[n])]_vars
    BY NextOK DEF StepOK
  <1>. QED
    BY Invariance, <1>1, PTL DEF Spec, RolledBackIsFinal

\* A finalizer goes only from a snapshot that was rolled back or whose
\* workload is gone.
THEOREM FinalizerStays ==
  ASSUME Apart
  PROVE  Spec => FinalizerGuards
  <1>1. IInv /\ [Next]_vars =>
          [\A n \in SnapName :
             /\ snaps[n] # Nil /\ snaps[n].fin
             /\ snaps'[n] = Nil \/ ~snaps'[n].fin
             => IsRolledBack(snaps[n]) \/ ~Live(n)]_vars
    BY NextOK DEF StepOK
  <1>. QED
    BY Invariance, <1>1, PTL DEF Spec, FinalizerGuards

\* The managed annotation goes only from a workload that has no snapshot.
THEOREM OnlyLostStripped == Spec => StripsOnlyLost
  <1>1. IInv /\ [Next]_vars =>
          [\A w \in Workload :
             /\ workloads[w] # Nil /\ workloads[w].managed
             /\ workloads'[w] # Nil /\ ~workloads'[w].managed
             => snaps[<<w, workloads[w].uid>>] = Nil]_vars
    BY NextOK DEF StepOK
  <1>. QED
    BY Invariance, <1>1, PTL DEF Spec, StripsOnlyLost

\* The replicas, crashes and lost calls of the detailed specification do
\* nothing that the contract does not allow.
THEOREM ContractKept ==
  ASSUME Apart
  PROVE  Spec => KeepsContract
  <1>1. Init => Contract!Init
    BY InitRefines
  <1>2. IInv /\ [Next]_vars => [Contract!Next]_(Contract!vars)
    BY NextOK, StepRefines
  <1>. QED
    BY Invariance, <1>1, <1>2, PTL DEF Spec, KeepsContract, Contract!Spec
=============================================================================
