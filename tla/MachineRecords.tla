--------------------------- MODULE MachineRecords ---------------------------
(***************************************************************************)
(* The part of vmmgr.Machine that changes during a machine's life: its     *)
(* status, and whether startedAt, exitedAt and error are present.  The     *)
(* identifier, image and creation time never change and are left out, as   *)
(* are the values of the times and of the error text.                      *)
(***************************************************************************)

Status == {"absent", "pending", "running", "exited", "failed"}

MachineRecord ==
  [status: Status, started: BOOLEAN, exited: BOOLEAN, error: BOOLEAN]

\* There is no such machine.
Absent ==
  [status |-> "absent", started |-> FALSE, exited |-> FALSE, error |-> FALSE]

\* The record Create stores.
Pending ==
  [status |-> "pending", started |-> FALSE, exited |-> FALSE, error |-> FALSE]

Terminal(r) == r.status \in {"exited", "failed"}
=============================================================================
