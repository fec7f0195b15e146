-------------------------- MODULE MachineLifecycle --------------------------
(***************************************************************************)
(* What the control plane promises about each machine, seen from outside:  *)
(* the state diagram "created (pending) -> running -> exited | failed"     *)
(* together with the fields of the record that go with each state.         *)
(* Nothing here knows about goroutines, the state directory or restarts;   *)
(* VmManager implements this module.                                       *)
(***************************************************************************)
EXTENDS MachineRecords

CONSTANT Machine        \* identifiers the control plane may hand out

VARIABLE record         \* record[m]: the record of machine m, or Absent

LifecycleInit == record = [m \in Machine |-> Absent]

Create(m) ==
  /\ record[m] = Absent
  /\ record'[m] = Pending

\* pending -> running: startedAt appears.
Start(m) ==
  /\ record[m].status = "pending"
  /\ record'[m] = [record[m] EXCEPT !.status = "running", !.started = TRUE]

\* running -> exited: exitedAt appears, there is no error.
Exit(m) ==
  /\ record[m].status = "running"
  /\ record'[m] = [record[m] EXCEPT !.status = "exited", !.exited = TRUE]

\* pending | running -> failed: exitedAt and an error appear.
Fail(m) ==
  /\ record[m].status \in {"pending", "running"}
  /\ record'[m] = [record[m] EXCEPT !.status = "failed", !.exited = TRUE,
                                    !.error = TRUE]

\* Only a machine that has stopped can be deleted.
Delete(m) ==
  /\ Terminal(record[m])
  /\ record'[m] = Absent

MachineNext(m) == Create(m) \/ Start(m) \/ Exit(m) \/ Fail(m) \/ Delete(m)

\* Machines are independent; the end of the daemon process fails every one
\* that has not stopped in one step.
LifecycleNext ==
  /\ record' \in [Machine -> MachineRecord]
  /\ \A m \in Machine : MachineNext(m) \/ record'[m] = record[m]

LifecycleSpec == LifecycleInit /\ [][LifecycleNext]_record
=============================================================================
