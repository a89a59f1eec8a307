-------------------------- MODULE RollbackContract --------------------------
(***************************************************************************)
(* What snapshots promise, without replicas, API calls or failures: the    *)
(* original value of a workload is kept, guarded, until the workload no    *)
(* longer carries the injected constraints or is gone.                     *)
(*                                                                         *)
(* A workload that is deleted never comes back: one of the same name has   *)
(* another uid and snapshots of its own.                                   *)
(***************************************************************************)
CONSTANT Snapshots

VARIABLES
  record,    \* snapshot -> "absent", "kept" or "rolledBack"
  guard,     \* snapshot -> whether the finalizer is on it
  target     \* snapshot -> its workload: "injected", "clean" or "gone"

vars == <<record, guard, target>>

Records == {"absent", "kept", "rolledBack"}
Targets == {"injected", "clean", "gone"}

Promise(n) ==
  /\ guard[n] => record[n] # "absent"
  /\ record[n] = "rolledBack" => target[n] # "injected"

Init ==
  /\ record \in [Snapshots -> Records]
  /\ guard \in [Snapshots -> BOOLEAN]
  /\ target \in [Snapshots -> Targets]
  /\ \A n \in Snapshots : Promise(n)

Set(f, n, v) == f' = [f EXCEPT ![n] = v]

\* The value is recorded, and guarded.
Capture(n) ==
  /\ record[n] = "absent"
  /\ Set(record, n, "kept")
  /\ UNCHANGED <<guard, target>>

Guard(n) ==
  /\ record[n] # "absent"
  /\ Set(guard, n, TRUE)
  /\ UNCHANGED <<record, target>>

\* The workload gets its value back, from the controller or from a user ...
Restore(n) ==
  /\ target[n] = "injected"
  /\ Set(target, n, "clean")
  /\ UNCHANGED <<record, guard>>

\* ... and only then does the snapshot say so, for good.
RollBack(n) ==
  /\ record[n] = "kept"
  /\ target[n] # "injected"
  /\ Set(record, n, "rolledBack")
  /\ UNCHANGED <<guard, target>>

\* The guard goes when it is not needed, and with it a snapshot that somebody
\* deleted before.
Release(n) ==
  /\ guard[n]
  /\ record[n] = "rolledBack" \/ target[n] = "gone"
  /\ Set(guard, n, FALSE)
  /\ \/ UNCHANGED record
     \/ Set(record, n, "absent")
  /\ UNCHANGED target

\* Without its guard a snapshot can be deleted.
Discard(n) ==
  /\ ~guard[n]
  /\ Set(record, n, "absent")
  /\ UNCHANGED <<guard, target>>

\* Workloads come and go.
Appear(n) ==
  /\ target[n] = "gone"
  /\ record[n] = "absent"
  /\ Set(target, n, "clean")
  /\ UNCHANGED <<record, guard>>

Disappear(n) ==
  /\ Set(target, n, "gone")
  /\ UNCHANGED <<record, guard>>

Next ==
  \E n \in Snapshots :
    \/ Capture(n) \/ Guard(n) \/ Restore(n) \/ RollBack(n) \/ Release(n)
    \/ Discard(n) \/ Appear(n) \/ Disappear(n)

Spec == Init /\ [][Next]_vars
=============================================================================
