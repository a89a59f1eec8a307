--------------------------- MODULE MCTSCSnapshots ---------------------------
(***************************************************************************)
(* Instances of TSCSnapshots for TLC.                                      *)
(***************************************************************************)
EXTENDS TSCSnapshots, TLC

DeployA == [kind |-> "Deployment", name |-> "a"]
StsB    == [kind |-> "StatefulSet", name |-> "b"]

Obj(uid, tscs, managed) == [uid |-> uid, tscs |-> tscs, managed |-> managed]
Captured(tscs) ==
  [tscs |-> tscs, ready |-> TRUE, rolledBack |-> "Unknown", fin |-> TRUE,
   deleting |-> FALSE]
NotReady(s)    == [s EXCEPT !.ready = FALSE]
Unguarded(s)   == [s EXCEPT !.fin = FALSE]
RolledBack(s)  == [s EXCEPT !.rolledBack = "True", !.fin = FALSE]

Cluster(objs, present) ==
  [workloads |-> objs,
   snaps     |-> [n \in SnapName |-> IF n \in DOMAIN present THEN present[n]
                                                            ELSE Nil],
   lastUid   |-> [w \in Workload |-> IF objs[w] = Nil THEN 1 ELSE objs[w].uid]]

NoEnv == [MANAGEMENT_ENABLED |-> Nil, MODE |-> Nil]
On    == [EmptyConfigMap EXCEPT !.managementEnabled = "true"]
Off   == [EmptyConfigMap EXCEPT !.managementEnabled = "false",
                                !.rollbackOnDisable = "true"]
\* The deprecated key, an unknown mode, no rollback.
OldOff   == [EmptyConfigMap EXCEPT !.enableTSCManagement = "false",
                                   !.mode = "other"]
OffOnly  == {Off}
OffOrOld == {Off, OldOff}
\* Capture switched off.
NoSnapshots == {[On EXCEPT !.snapshotEnabled = "false"]}

One      == {DeployA}
Two      == {DeployA, StsB}
Values   == {"none", "user", "injected"}
User1    == {"user"}

Patched  == Obj(1, "injected", TRUE)

\* A Deployment that was patched and has its snapshot, or lost it, or was
\* deleted since.
OneLeft ==
  {Cluster(DeployA :> Patched, <<DeployA, 1>> :> Captured("none")),
   Cluster(DeployA :> Patched, <<>>),
   Cluster(DeployA :> Nil, <<DeployA, 1>> :> NotReady(Captured("none")))}

\* A Deployment that was patched and has its snapshot, or one that nothing has
\* touched yet.
LeftOrNew ==
  {Cluster(DeployA :> Patched, <<DeployA, 1>> :> Captured("none")),
   Cluster(DeployA :> Obj(1, "none", FALSE), <<>>)}

\* The Deployment was deleted and created again before the controller starts.
Recreated ==
  {Cluster(DeployA :> Obj(2, "none", FALSE), <<DeployA, 1>> :> Captured("none"))}

\* Nothing captured, or rolled back before, or cut short; a StatefulSet of
\* another namespace.
Uncaptured ==
  {Cluster(DeployA :> Obj(1, "none", FALSE) @@ StsB :> Obj(1, "none", FALSE), p) :
     p \in {<<>>, <<DeployA, 1>> :> RolledBack(Captured("user")),
            <<DeployA, 1>> :> Unguarded(NotReady(Captured("none")))}}
NoCapturers  == {}
OneCapturer  == {<<"capture", "r1", 1>>}
TwoCapturers == {<<"capture", "r1", 1>>, <<"capture", "r1", 2>>}
=============================================================================
