----------------------------- MODULE VmManager -----------------------------
(***************************************************************************)
(* The lifecycle manager of internal/vmmgr/manager.go: the index of        *)
(* machines, one run() goroutine and one lease renewer per machine, the    *)
(* DELETE calls that wait for them, shutdown, the state directory, and     *)
(* daemon crashes followed by Load.                                        *)
(*                                                                         *)
(* A goroutine's position is pc[m]; what it has deferred is defers[m],     *)
(* unwound in LIFO order.  What it holds on the host is held[m]: it        *)
(* survives a crash of the daemon, except the IP reservation, which is     *)
(* only in the daemon's memory.  Containerd, Firecracker and the file      *)
(* system are external: a call to them may fail at any time.  Machines     *)
(* meet on the host where their tap devices have the same name.            *)
(***************************************************************************)
EXTENDS Naturals, FiniteSets, MachineRecords

CONSTANTS
  Machine,        \* identifiers cuid.New may return, each at most once
  Caller,         \* concurrent DELETE requests
  NoMachine,      \* not a machine: an idle caller
  MaxRestarts,    \* bound: times the daemon process ends and starts again
  CIDSpace,       \* values of the uint32 CID counter: 2^32 in the code
  Networked,      \* mg.cfg.Network is not nil: FALSE under --no-network
  Device,         \* Device[m]: the name tapName gives the tap of m
  HostFaults      \* what may go wrong on the host without an error path: the
                  \* best-effort calls "save", "remove" and "release", reading
                  \* a file that is there ("read"), keeping a lease ("renew")

\* CIDs 0 to 2 are reserved.
FirstCID == 3

ASSUME ConstantsAssumption ==
  /\ NoMachine \notin Machine
  /\ MaxRestarts \in Nat
  /\ CIDSpace \in Nat /\ CIDSpace > FirstCID
  /\ Networked \in BOOLEAN
  /\ HostFaults \subseteq {"save", "remove", "release", "read", "renew"}

VARIABLES
  \* memory of the daemon
  daemon,         \* "down", "loading" or "up"
  machines,       \* keys of mg.machines
  rec,            \* rec[m]: entry.m
  cancelled,      \* machines whose context is cancelled
  done,           \* machines whose entry.done is closed
  console,        \* console[m]: entry.console, and entry.vsockUDS with it
  nextCID,        \* mg.nextCID
  pc,             \* pc[m]: where run(m) is
  defers,         \* defers[m]: deferred calls of run(m) not yet executed
  renewer,        \* renewer[m]: the renewLease goroutine
  waitErr,        \* waitErr[m]: Wait returned an error
  call,           \* call[c]: a DELETE request in progress
  shut,           \* progress of Manager.Shutdown
  draining,       \* the entries Shutdown collected
  \* the host
  disk,           \* disk[m]: the record in the state directory, or Absent
  held,           \* held[m]: what run(m) acquired on the host
  vm,             \* vm[m]: the Firecracker process
  cid,            \* cid[m]: vsock CID given to the process, 0 before
  \* history
  deleted,        \* machines for which a DELETE answered 204
  restarts,       \* times the daemon process has ended
  lapsed          \* machines whose lease ran out while run(m) was working

daemonVars == <<daemon, restarts, lapsed>>
indexVars  == <<machines, rec>>
runVars    == <<pc, defers, renewer, waitErr>>
hostVars   == <<held, vm, cid>>
callVars   == <<call, deleted>>
shutVars   == <<shut, draining>>

vars == <<daemon, machines, rec, cancelled, done, console, nextCID, pc, defers,
          renewer, waitErr, call, shut, draining, disk, held, vm, cid, deleted,
          restarts, lapsed>>

\* Positions of run(), in program order.  At "unborn" the identifier is not
\* used yet; at "dead" the machine belongs to an earlier daemon process.
Provisioning == {"lease", "pull", "snapshot", "network", "rootfs", "renewer",
                 "workdir", "pipes", "cid", "boot"}
Serving == {"publish", "markRunning", "wait", "stop", "mark"}
Position == {"unborn", "unwind", "returned", "dead"} \cup Provisioning \cup Serving

\* The calls whose error makes run() give up with markFailed.
Fallible == Provisioning \ {"renewer", "cid"}

Deferred == {"lease", "snapshot", "network", "renewer", "workdir"}
\* Faulty variant: the lease is deferred after the snapshot, so released first.
SwappedRank == [lease |-> 2, snapshot |-> 1, network |-> 3, renewer |-> 4,
                workdir |-> 5]

DeferRank == [lease |-> 1, snapshot |-> 2, network |-> 3, renewer |-> 4,
              workdir |-> 5]

Resource == {"lease", "snapshot", "ip", "tap", "workdir"}

\* What each deferred call gives back.
Frees == [lease |-> {"lease"}, snapshot |-> {"snapshot"},
          network |-> {"ip", "tap"}, renewer |-> {}, workdir |-> {"workdir"}]

-----------------------------------------------------------------------------
(* saveStateLocked writes a temporary file and renames it, so the file     *)
(* holds the old record or the new one.  Errors are logged only.           *)
Save(m, r) ==
  \/ disk' = [disk EXCEPT ![m] = r]
  \/ "save" \in HostFaults /\ disk' = disk

\* removeState ignores the error of os.Remove.
RemoveState(m) ==
  \/ disk' = [disk EXCEPT ![m] = Absent]
  \/ "remove" \in HostFaults /\ disk' = disk

\* markRunning, markExited and markFailed change the record and save it, in
\* one critical section.
Mark(m, r) ==
  /\ rec' = [rec EXCEPT ![m] = r]
  /\ Save(m, r)

Running(r) == [r EXCEPT !.status = "running", !.started = TRUE]
Exited(r)  == [r EXCEPT !.status = "exited", !.exited = TRUE]
Failed(r)  == [r EXCEPT !.status = "failed", !.exited = TRUE, !.error = TRUE]

\* run(m) moves from one position to the next.
Goto(m, from, to) ==
  /\ pc[m] = from
  /\ pc' = [pc EXCEPT ![m] = to]

\* run(m) acquires something and defers its release.
Acquire(m, resources, deferred) ==
  /\ held' = [held EXCEPT ![m] = @ \cup resources]
  /\ defers' = [defers EXCEPT ![m] = @ \cup {deferred}]

\* m gains and loses resources; "ip link del" goes by the name of the device,
\* so a machine whose tap has the name of m's loses its tap with it.
Exchange(m, gains, loses) ==
  held' = [n \in Machine |->
             IF n = m THEN (held[n] \ loses) \cup gains
             ELSE IF Device[n] = Device[m] THEN held[n] \ (loses \cap {"tap"})
             ELSE held[n]]

\* run(m) has started and not returned, in the present daemon process.
InFlight(m) == pc[m] \notin {"unborn", "returned", "dead"}

-----------------------------------------------------------------------------
(* Faulty variants of operations below, each a bug the code could have had *)
(* and a property catches; no specification uses them.                     *)

\* Load fails only the machines that were running.
RehydratedRunningOnly(r) == IF r.status = "running" THEN Failed(r) ELSE r

\* The work directory is made without deferring its removal.
MakeWorkDirNoDefer(m) ==
  /\ Goto(m, "workdir", "pipes")
  /\ held' = [held EXCEPT ![m] = @ \cup {"workdir"}]
  /\ UNCHANGED <<daemonVars, indexVars, cancelled, done, console, nextCID, defers,
                 renewer, waitErr, callVars, shutVars, disk, vm, cid>>

\* The counter is read and not advanced.
AllocCIDNoIncrement(m) ==
  /\ Goto(m, "cid", "boot")
  /\ cid' = [cid EXCEPT ![m] = nextCID]
  /\ UNCHANGED <<daemonVars, indexVars, cancelled, done, console, nextCID, defers,
                 renewer, waitErr, callVars, shutVars, disk, held, vm>>

\* The machine is marked running before its console is published.
BootMarksRunning(m) ==
  /\ Goto(m, "boot", "publish")
  /\ vm' = [vm EXCEPT ![m] = "up"]
  /\ Mark(m, Running(rec[m]))
  /\ UNCHANGED <<daemonVars, machines, cancelled, done, console, nextCID, defers,
                 renewer, waitErr, callVars, shutVars, held, cid>>

\* close(e.done) is not the first deferred call.
CloseDoneEarly(m) ==
  /\ Goto(m, "unwind", "returned")
  /\ done' = done \cup {m}
  /\ UNCHANGED <<daemonVars, indexVars, cancelled, console, nextCID, defers,
                 renewer, waitErr, callVars, shutVars, disk, hostVars>>

\* DELETE waits without cancelling.
DeleteForgetsCancel(c) ==
  /\ call[c].at = "found"
  /\ call' = [call EXCEPT ![c].at = "waiting"]
  /\ UNCHANGED <<daemonVars, indexVars, cancelled, done, console, nextCID, runVars,
                 shutVars, disk, hostVars, deleted>>

\* DELETE unlists the machine without waiting for run() to return.
DeleteUnlistsAtOnce(c) ==
  /\ call[c].at = "waiting"
  /\ call' = [call EXCEPT ![c].at = "unlisted"]
  /\ machines' = machines \ {call[c].m}
  /\ UNCHANGED <<daemonVars, rec, cancelled, done, console, nextCID, runVars,
                 shutVars, disk, hostVars, deleted>>

\* DELETE leaves the state file behind.
DeleteKeepsState(c) ==
  /\ call[c].at = "unlisted"
  /\ call' = [call EXCEPT ![c] = [at |-> "idle", m |-> NoMachine]]
  /\ deleted' = deleted \cup {call[c].m}
  /\ UNCHANGED <<daemonVars, indexVars, cancelled, done, console, nextCID, runVars,
                 shutVars, disk, hostVars>>

\* Shutdown waits for one entry instead of all of them.
ShutdownWaitsForOne ==
  /\ shut = "waiting" /\ (draining = {} \/ draining \cap done # {})
  /\ shut' = "drained"
  /\ UNCHANGED <<daemonVars, indexVars, cancelled, done, console, nextCID, runVars,
                 callVars, draining, disk, hostVars>>

-----------------------------------------------------------------------------
\* What Load makes of a record it finds.
Rehydrated(r) == IF r.status \in {"running", "pending"} THEN Failed(r) ELSE r

Init ==
  /\ daemon = "loading"
  /\ machines = {} /\ cancelled = {} /\ done = {} /\ draining = {} /\ deleted = {}
  /\ lapsed = {}
  /\ rec = [m \in Machine |-> Absent]
  /\ disk = [m \in Machine |-> Absent]
  /\ console = [m \in Machine |-> "nil"]
  /\ nextCID = FirstCID
  /\ pc = [m \in Machine |-> "unborn"]
  /\ defers = [m \in Machine |-> {}]
  /\ renewer = [m \in Machine |-> "none"]
  /\ waitErr = [m \in Machine |-> FALSE]
  /\ call = [c \in Caller |-> [at |-> "idle", m |-> NoMachine]]
  /\ shut = "no"
  /\ held = [m \in Machine |-> {}]
  /\ vm = [m \in Machine |-> "none"]
  /\ cid = [m \in Machine |-> 0]
  /\ restarts = 0

-----------------------------------------------------------------------------
(* POST /machines: the entry is indexed and saved in one critical section, *)
(* then run() is started.  http.Server.Shutdown gives up at its deadline,  *)
(* so a request may still be served while the manager shuts down.          *)
Create(m) ==
  /\ daemon = "up"
  /\ Goto(m, "unborn", "lease")
  /\ machines' = machines \cup {m}
  /\ Mark(m, Pending)
  /\ UNCHANGED <<daemonVars, cancelled, done, console, nextCID, defers, renewer,
                 waitErr, callVars, shutVars, hostVars>>

-----------------------------------------------------------------------------
(* run(): provisioning.                                                    *)

AcquireLease(m) ==
  /\ Goto(m, "lease", "pull")
  /\ Acquire(m, {"lease"}, "lease")
  /\ UNCHANGED <<daemonVars, indexVars, cancelled, done, console, nextCID,
                 renewer, waitErr, callVars, shutVars, disk, vm, cid>>

Pull(m) ==
  /\ Goto(m, "pull", "snapshot")
  /\ UNCHANGED <<daemonVars, indexVars, cancelled, done, console, nextCID, defers,
                 renewer, waitErr, callVars, shutVars, disk, hostVars>>

PrepareSnapshot(m) ==
  /\ Goto(m, "snapshot", "network")
  /\ Acquire(m, {"snapshot"}, "snapshot")
  /\ UNCHANGED <<daemonVars, indexVars, cancelled, done, console, nextCID,
                 renewer, waitErr, callVars, shutVars, disk, vm, cid>>

\* createTap removes a device of that name before it makes its own.
AllocateNetwork(m) ==
  /\ Networked
  /\ Goto(m, "network", "rootfs")
  /\ Exchange(m, {"ip", "tap"}, {"tap"})
  /\ defers' = [defers EXCEPT ![m] = @ \cup {"network"}]
  /\ UNCHANGED <<daemonVars, indexVars, cancelled, done, console, nextCID,
                 renewer, waitErr, callVars, shutVars, disk, vm, cid>>

\* Without a network manager there is nothing to allocate or to defer.
SkipNetwork(m) ==
  /\ ~Networked
  /\ Goto(m, "network", "rootfs")
  /\ UNCHANGED <<daemonVars, indexVars, cancelled, done, console, nextCID, defers,
                 renewer, waitErr, callVars, shutVars, disk, hostVars>>

PrepareRootfs(m) ==
  /\ Goto(m, "rootfs", "renewer")
  /\ UNCHANGED <<daemonVars, indexVars, cancelled, done, console, nextCID, defers,
                 renewer, waitErr, callVars, shutVars, disk, hostVars>>

\* AddResource (an error is only logged), then go renewLease and the deferred
\* wait for it.
StartRenewer(m) ==
  /\ Goto(m, "renewer", "workdir")
  /\ renewer' = [renewer EXCEPT ![m] = "running"]
  /\ Acquire(m, {}, "renewer")
  /\ UNCHANGED <<daemonVars, indexVars, cancelled, done, console, nextCID,
                 waitErr, callVars, shutVars, disk, vm, cid>>

MakeWorkDir(m) ==
  /\ Goto(m, "workdir", "pipes")
  /\ Acquire(m, {"workdir"}, "workdir")
  /\ UNCHANGED <<daemonVars, indexVars, cancelled, done, console, nextCID,
                 renewer, waitErr, callVars, shutVars, disk, vm, cid>>

OpenPipes(m) ==
  /\ Goto(m, "pipes", "cid")
  /\ UNCHANGED <<daemonVars, indexVars, cancelled, done, console, nextCID, defers,
                 renewer, waitErr, callVars, shutVars, disk, hostVars>>

AllocCID(m) ==
  /\ Goto(m, "cid", "boot")
  /\ cid' = [cid EXCEPT ![m] = nextCID]
  /\ nextCID' = (nextCID + 1) % CIDSpace
  /\ UNCHANGED <<daemonVars, indexVars, cancelled, done, console, defers, renewer,
                 waitErr, callVars, shutVars, disk, held, vm>>

Boot(m) ==
  /\ Goto(m, "boot", "publish")
  /\ vm' = [vm EXCEPT ![m] = "up"]
  /\ UNCHANGED <<daemonVars, indexVars, cancelled, done, console, nextCID, defers,
                 renewer, waitErr, callVars, shutVars, disk, held, cid>>

\* One of the fallible calls returned an error.  It may have taken effect all
\* the same, with nothing deferred: the lease of a Create whose answer was
\* lost, the snapshot (no mounts), the process of a boot that failed late.
\* An Allocate that failed has removed the device of that name, and cleaned
\* up after itself as far as that did not fail.
ProvisioningFails(m) ==
  /\ pc[m] \in Fallible
  /\ pc[m] = "network" => Networked
  /\ pc' = [pc EXCEPT ![m] = "unwind"]
  /\ Mark(m, Failed(rec[m]))
  /\ \/ UNCHANGED <<held, vm>>
     \/ /\ pc[m] \in {"lease", "snapshot"}
        /\ held' = [held EXCEPT ![m] = @ \cup {pc[m]}]
        /\ UNCHANGED vm
     \/ /\ pc[m] = "network"
        /\ \E left \in SUBSET (IF "release" \in HostFaults THEN {"tap"} ELSE {}) :
             Exchange(m, left, {"tap"})
        /\ UNCHANGED vm
     \/ /\ pc[m] = "boot"
        /\ vm' = [vm EXCEPT ![m] = "up"]
        /\ UNCHANGED held
  /\ UNCHANGED <<daemonVars, machines, cancelled, done, console, nextCID, defers,
                 renewer, waitErr, callVars, shutVars, cid>>

-----------------------------------------------------------------------------
(* run(): the machine serves, stops and is marked.                         *)

\* The console and the vsock path are published together, before the status.
Publish(m) ==
  /\ Goto(m, "publish", "markRunning")
  /\ console' = [console EXCEPT ![m] = "open"]
  /\ UNCHANGED <<daemonVars, indexVars, cancelled, done, nextCID, defers,
                 renewer, waitErr, callVars, shutVars, disk, hostVars>>

MarkRunning(m) ==
  /\ Goto(m, "markRunning", "wait")
  /\ Mark(m, Running(rec[m]))
  /\ UNCHANGED <<daemonVars, machines, cancelled, done, console, nextCID, defers,
                 renewer, waitErr, callVars, shutVars, hostVars>>

\* Wait returns when the context is cancelled, with its error and without
\* waiting for the process, or when the process is gone, with an error or not.
WaitReturns(m) ==
  /\ Goto(m, "wait", "stop")
  /\ \/ m \in cancelled /\ waitErr' = [waitErr EXCEPT ![m] = TRUE]
     \/ vm[m] = "gone" /\ \E e \in BOOLEAN : waitErr' = [waitErr EXCEPT ![m] = e]
  /\ UNCHANGED <<daemonVars, indexVars, cancelled, done, console, nextCID, defers,
                 renewer, callVars, shutVars, disk, hostVars>>

\* console.close(), and StopVMM, which signals the process.
StopVm(m) ==
  /\ Goto(m, "stop", "mark")
  /\ console' = [console EXCEPT ![m] = "closed"]
  /\ UNCHANGED <<daemonVars, indexVars, cancelled, done, nextCID, defers, renewer,
                 waitErr, callVars, shutVars, disk, hostVars>>

\* A Wait error counts as a failure unless the context is cancelled by now.
MarkStopped(m) ==
  /\ Goto(m, "mark", "unwind")
  /\ Mark(m, IF waitErr[m] /\ m \notin cancelled THEN Failed(rec[m])
                                                 ELSE Exited(rec[m]))
  /\ UNCHANGED <<daemonVars, machines, cancelled, done, console, nextCID, defers,
                 renewer, waitErr, callVars, shutVars, hostVars>>

-----------------------------------------------------------------------------
(* run(): the deferred calls, last one first.                              *)

IsLastDeferred(m, d) ==
  d \in defers[m] /\ \A e \in defers[m] : DeferRank[e] <= DeferRank[d]

\* The deferred calls ignore errors.  The snapshot cannot be removed while
\* the Firecracker process has its device open; the reservation of the IP is
\* a map entry and always goes.
MayStay(m, d) ==
  IF (d = "snapshot" /\ vm[m] = "up") \/ "release" \in HostFaults
  THEN SUBSET (Frees[d] \ {"ip"}) ELSE {{}}

\* The renewer is only joined: that call returns when renewLease has returned.
RunDeferred(m, d) ==
  /\ pc[m] = "unwind"
  /\ IsLastDeferred(m, d)
  /\ d = "renewer" => renewer[m] = "stopped"
  /\ \E kept \in MayStay(m, d) : Exchange(m, {}, Frees[d] \ kept)
  /\ defers' = [defers EXCEPT ![m] = @ \ {d}]
  /\ UNCHANGED <<daemonVars, indexVars, cancelled, done, console, nextCID, pc,
                 renewer, waitErr, callVars, shutVars, disk, vm, cid>>

\* The first deferred call of run(): close(e.done).
CloseDone(m) ==
  /\ defers[m] = {}
  /\ Goto(m, "unwind", "returned")
  /\ done' = done \cup {m}
  /\ UNCHANGED <<daemonVars, indexVars, cancelled, console, nextCID, defers,
                 renewer, waitErr, callVars, shutVars, disk, hostVars>>

\* renewLease returns only when the machine's context is cancelled.
RenewerReturns(m) ==
  /\ renewer[m] = "running"
  /\ m \in cancelled
  /\ renewer' = [renewer EXCEPT ![m] = "stopped"]
  /\ UNCHANGED <<daemonVars, indexVars, cancelled, done, console, nextCID, pc,
                 defers, waitErr, callVars, shutVars, disk, hostVars>>

-----------------------------------------------------------------------------
(* The host.                                                               *)

\* The guest powers off or resets, Firecracker fails, or the signal of
\* StopVMM or of the cancelled context arrives.
VmExits(m) ==
  /\ vm[m] = "up"
  /\ vm' = [vm EXCEPT ![m] = "gone"]
  /\ UNCHANGED <<daemonVars, indexVars, cancelled, done, console, nextCID, runVars,
                 callVars, shutVars, disk, held, cid>>

\* The lease runs out: nothing renews that of a machine whose goroutine is
\* gone.  Under a working run() it does when provisioning lasts longer than
\* the lease, or a Create or AddResource of the renewer failed: the error is
\* only logged, and the next attempt is due when the lease is.
LeaseExpires(m) ==
  /\ "lease" \in held[m]
  /\ InFlight(m) => "renew" \in HostFaults
  /\ held' = [held EXCEPT ![m] = @ \ {"lease"}]
  /\ lapsed' = IF InFlight(m) THEN lapsed \cup {m} ELSE lapsed
  /\ UNCHANGED <<daemon, restarts, indexVars, cancelled, done, console, nextCID,
                 runVars, callVars, shutVars, disk, vm, cid>>

\* A later attempt of the renewer succeeds and its lease becomes the current
\* one.  (Renewals of a lease that has not run out are in LeaseRenewal.)
LeaseRenewed(m) ==
  /\ renewer[m] = "running" /\ "lease" \notin held[m]
  /\ held' = [held EXCEPT ![m] = @ \cup {"lease"}]
  /\ UNCHANGED <<daemonVars, indexVars, cancelled, done, console, nextCID, runVars,
                 callVars, shutVars, disk, vm, cid>>

\* Containerd's garbage collector removes a snapshot that no lease protects.
SnapshotCollected(m) ==
  /\ "snapshot" \in held[m] /\ "lease" \notin held[m]
  /\ held' = [held EXCEPT ![m] = @ \ {"snapshot"}]
  /\ UNCHANGED <<daemonVars, indexVars, cancelled, done, console, nextCID, runVars,
                 callVars, shutVars, disk, vm, cid>>

-----------------------------------------------------------------------------
(* DELETE /machines/{id}.  A lookup that finds nothing answers 404 and     *)
(* changes nothing; the other steps work on the entry found.               *)

Calling(c, from, to) ==
  /\ call[c].at = from
  /\ call' = [call EXCEPT ![c].at = to]

HangUp(c) == call' = [call EXCEPT ![c] = [at |-> "idle", m |-> NoMachine]]

DeleteFinds(c, m) ==
  /\ daemon = "up"
  /\ call[c].at = "idle"
  /\ m \in machines
  /\ call' = [call EXCEPT ![c] = [at |-> "found", m |-> m]]
  /\ UNCHANGED <<daemonVars, indexVars, cancelled, done, console, nextCID, runVars,
                 shutVars, disk, hostVars, deleted>>

\* For an entry that Load made e.cancel is an empty function; nothing looks at
\* the context of such a machine.
DeleteCancels(c) ==
  /\ Calling(c, "found", "waiting")
  /\ cancelled' = cancelled \cup {call[c].m}
  /\ UNCHANGED <<daemonVars, indexVars, done, console, nextCID, runVars, shutVars,
                 disk, hostVars, deleted>>

DeleteUnlists(c) ==
  /\ call[c].m \in done
  /\ Calling(c, "waiting", "unlisted")
  /\ machines' = machines \ {call[c].m}
  /\ UNCHANGED <<daemonVars, rec, cancelled, done, console, nextCID, runVars,
                 shutVars, disk, hostVars, deleted>>

\* The state file goes last, then the call answers 204.
DeleteAnswers(c) ==
  /\ call[c].at = "unlisted"
  /\ HangUp(c)
  /\ RemoveState(call[c].m)
  /\ deleted' = deleted \cup {call[c].m}
  /\ UNCHANGED <<daemonVars, indexVars, cancelled, done, console, nextCID, runVars,
                 shutVars, hostVars>>

\* The client of a waiting call goes away: ctx.Err() is returned.
DeleteAbandoned(c) ==
  /\ call[c].at = "waiting"
  /\ HangUp(c)
  /\ UNCHANGED <<daemonVars, indexVars, cancelled, done, console, nextCID, runVars,
                 shutVars, disk, hostVars, deleted>>

-----------------------------------------------------------------------------
(* Manager.Shutdown: collect the entries, cancel them all, wait for each   *)
(* until the deadline.                                                     *)

ShutdownCollects ==
  /\ daemon = "up" /\ shut = "no"
  /\ shut' = "collected"
  /\ draining' = machines
  /\ UNCHANGED <<daemonVars, indexVars, cancelled, done, console, nextCID, runVars,
                 callVars, disk, hostVars>>

ShutdownCancels ==
  /\ shut = "collected"
  /\ shut' = "waiting"
  /\ cancelled' = cancelled \cup draining
  /\ UNCHANGED <<daemonVars, indexVars, done, console, nextCID, runVars, callVars,
                 draining, disk, hostVars>>

ShutdownDrained ==
  /\ shut = "waiting" /\ draining \subseteq done
  /\ shut' = "drained"
  /\ UNCHANGED <<daemonVars, indexVars, cancelled, done, console, nextCID, runVars,
                 callVars, draining, disk, hostVars>>

ShutdownExpires ==
  /\ shut = "waiting"
  /\ shut' = "expired"
  /\ UNCHANGED <<daemonVars, indexVars, cancelled, done, console, nextCID, runVars,
                 callVars, draining, disk, hostVars>>

-----------------------------------------------------------------------------
(* The daemon process ends, by a crash at any moment or because Shutdown   *)
(* has returned.  Everything in its memory is lost, IP reservations        *)
(* included; what is on the host stays, and so do the Firecracker          *)
(* processes.                                                              *)
DaemonEnds ==
  /\ daemon # "down"
  /\ restarts < MaxRestarts
  /\ restarts' = restarts + 1
  /\ daemon' = "down"
  /\ machines' = {} /\ cancelled' = {} /\ done' = {} /\ draining' = {}
  /\ lapsed' = {}
  /\ rec' = [m \in Machine |-> Absent]
  /\ console' = [m \in Machine |-> "nil"]
  /\ nextCID' = FirstCID
  /\ pc' = [m \in Machine |-> IF pc[m] = "unborn" THEN "unborn" ELSE "dead"]
  /\ defers' = [m \in Machine |-> {}]
  /\ renewer' = [m \in Machine |-> "none"]
  /\ waitErr' = [m \in Machine |-> FALSE]
  /\ call' = [c \in Caller |-> [at |-> "idle", m |-> NoMachine]]
  /\ shut' = "no"
  /\ held' = [m \in Machine |-> held[m] \ {"ip"}]
  /\ UNCHANGED <<disk, vm, cid, deleted>>

DaemonStarts ==
  /\ daemon = "down"
  /\ daemon' = "loading"
  /\ UNCHANGED <<indexVars, cancelled, done, console, nextCID, runVars, callVars,
                 shutVars, disk, hostVars, restarts, lapsed>>

\* Load, one state file.  The work directory of a lost machine is removed.
LoadRecord(m) ==
  /\ daemon = "loading"
  /\ disk[m] # Absent /\ m \notin machines
  /\ machines' = machines \cup {m}
  /\ Mark(m, Rehydrated(disk[m]))
  /\ done' = done \cup {m}
  /\ held' = IF Terminal(disk[m]) THEN held
             ELSE [held EXCEPT ![m] = @ \ {"workdir"}]
  /\ UNCHANGED <<daemonVars, cancelled, console, nextCID, runVars, callVars,
                 shutVars, vm, cid>>

\* Load has been through the state directory; a file it cannot read is skipped.
Loaded ==
  /\ daemon = "loading"
  /\ \A m \in Machine : disk[m] # Absent => m \in machines \/ "read" \in HostFaults

\* The servers are started after Load has returned.
DaemonServes ==
  /\ Loaded
  /\ daemon' = "up"
  /\ UNCHANGED <<indexVars, cancelled, done, console, nextCID, runVars, callVars,
                 shutVars, disk, hostVars, restarts, lapsed>>

-----------------------------------------------------------------------------
RunStep(m) ==
  \/ AcquireLease(m) \/ Pull(m) \/ PrepareSnapshot(m) \/ AllocateNetwork(m)
  \/ SkipNetwork(m) \/ PrepareRootfs(m) \/ StartRenewer(m) \/ MakeWorkDir(m)
  \/ OpenPipes(m)
  \/ AllocCID(m) \/ Boot(m) \/ ProvisioningFails(m)
  \/ Publish(m) \/ MarkRunning(m) \/ WaitReturns(m) \/ StopVm(m) \/ MarkStopped(m)
  \/ \E d \in Deferred : RunDeferred(m, d)
  \/ CloseDone(m)

HostStep(m) ==
  VmExits(m) \/ LeaseExpires(m) \/ LeaseRenewed(m) \/ SnapshotCollected(m)

DeleteStep(c) == DeleteCancels(c) \/ DeleteUnlists(c) \/ DeleteAnswers(c)

ShutdownStep ==
  ShutdownCollects \/ ShutdownCancels \/ ShutdownDrained \/ ShutdownExpires

LoadStep == (\E m \in Machine : LoadRecord(m)) \/ DaemonServes

Next ==
  \/ \E m \in Machine : Create(m) \/ RunStep(m) \/ RenewerReturns(m) \/ HostStep(m)
  \/ \E c \in Caller : (\E m \in Machine : DeleteFinds(c, m))
                       \/ DeleteStep(c) \/ DeleteAbandoned(c)
  \/ ShutdownStep \/ DaemonEnds \/ DaemonStarts \/ LoadStep

SafetySpec == Init /\ [][Next]_vars

(* Goroutines are scheduled, and every external call of run() returns,     *)
(* with a result or an error.  Nothing makes a client call, a guest stop,  *)
(* or a daemon crash.                                                      *)
Fairness ==
  /\ \A m \in Machine : WF_vars(RunStep(m)) /\ WF_vars(RenewerReturns(m))
  /\ \A c \in Caller : WF_vars(DeleteStep(c))
  /\ WF_vars(ShutdownCancels) /\ WF_vars(ShutdownDrained \/ ShutdownExpires)
  /\ WF_vars(LoadStep)

Spec == SafetySpec /\ Fairness

-----------------------------------------------------------------------------
(* Properties.                                                             *)

TypeOK ==
  /\ daemon \in {"down", "loading", "up"}
  /\ machines \subseteq Machine /\ cancelled \subseteq Machine
  /\ done \subseteq Machine /\ draining \subseteq Machine
  /\ deleted \subseteq Machine
  /\ rec \in [Machine -> MachineRecord]
  /\ disk \in [Machine -> MachineRecord]
  /\ console \in [Machine -> {"nil", "open", "closed"}]
  /\ nextCID \in 0 .. CIDSpace - 1
  /\ pc \in [Machine -> Position]
  /\ defers \in [Machine -> SUBSET Deferred]
  /\ renewer \in [Machine -> {"none", "running", "stopped"}]
  /\ waitErr \in [Machine -> BOOLEAN]
  /\ call \in [Caller -> [at: {"idle", "found", "waiting", "unlisted"},
                          m: Machine \cup {NoMachine}]]
  /\ \A c \in Caller : call[c].at # "idle" => call[c].m \in Machine
  /\ shut \in {"no", "collected", "waiting", "drained", "expired"}
  /\ held \in [Machine -> SUBSET Resource]
  /\ vm \in [Machine -> {"none", "up", "gone"}]
  /\ cid \in [Machine -> 0 .. CIDSpace - 1]
  /\ restarts \in 0 .. MaxRestarts
  /\ lapsed \subseteq Machine

\* Another machine has a tap device of the same name.
SharesDevice(m) == \E n \in Machine \ {m} : Device[n] = Device[m]

(* A machine whose record says running has everything the API hands out,   *)
(* and what backs it on the host: a console and a vsock path to connect to *)
(* and a process behind them, a renewer, the work directory of its sockets *)
(* and, where there is a network, its IP and its tap.  It can lack its     *)
(* lease or snapshot only after a lease ran out under run(), and its tap   *)
(* only where another machine's tap has the same name.  The record and all *)
(* of these are written in different critical sections.                    *)
RunningIsBacked ==
  \A m \in machines : rec[m].status = "running" =>
    /\ console[m] # "nil" /\ vm[m] # "none" /\ renewer[m] # "none"
    /\ "workdir" \in held[m]
    /\ {"lease", "snapshot"} \subseteq held[m] \/ m \in lapsed
    /\ Networked => "ip" \in held[m] /\ ("tap" \in held[m] \/ SharesDevice(m))

(* The lifecycle goroutine of a machine never works without a record in    *)
(* the index: DELETE unlists a machine only after run() has returned, so   *)
(* there is always a record through which it can still be cancelled.       *)
NeverUnlistedInFlight ==
  \A m \in Machine : InFlight(m) => m \in machines

(* When done is closed, run() has marked the machine exited or failed and  *)
(* has executed every deferred call: the IP is free, no renewer is left,   *)
(* the console is closed, and only what a best-effort call failed to       *)
(* release can remain on the host.                                         *)
DoneMeansFinished ==
  \A m \in done :
    /\ Terminal(rec[m])
    /\ ~InFlight(m)
    /\ "ip" \notin held[m]
    /\ renewer[m] # "running"
    /\ console[m] # "open"

(* Where releasing does not fail, what remains on the host of a machine    *)
(* whose goroutine has returned is one thing at most: its snapshot, when a *)
(* Firecracker process was started, which can still have the device open,  *)
(* or when provisioning failed, possibly after the snapshot was made; or a *)
(* lease, until it expires, when the Create that made it reported an       *)
(* error.  (The leases that renewals leave behind are LeaseRenewal's.)     *)
ReturnedMeansReleased ==
  \A m \in Machine : pc[m] = "returned" =>
    \/ held[m] = {}
    \/ held[m] = {"snapshot"} /\ (vm[m] # "none" \/ rec[m] = Failed(Pending))
    \/ held[m] = {"lease"} /\ vm[m] = "none" /\ rec[m] = Failed(Pending)

(* run() itself never gives its lease up before its snapshot, also while   *)
(* it unwinds: a snapshot that a working goroutine has made is under its   *)
(* lease, unless that has run out, because renewals failed or provisioning *)
(* outlasted it; then containerd's collector does race with run().         *)
LeaseOutlivesSnapshot ==
  \A m \in Machine : InFlight(m) /\ "snapshot" \in held[m] =>
    \/ "lease" \in held[m]
    \/ m \in lapsed
    \/ pc[m] = "unwind" /\ defers[m] = {}

(* Once a DELETE has answered 204 the machine is gone for good: it is not  *)
(* listed, has no state file to come back from after a restart, and no     *)
(* goroutine works for it.                                                 *)
DeletedStaysDeleted ==
  \A m \in deleted : m \notin machines /\ disk[m] = Absent /\ ~InFlight(m)

\* The Firecracker process of m was started by this daemon process and lives.
LiveHere(m) == pc[m] # "dead" /\ vm[m] = "up"

(* No two live microVMs started by one daemon process share a vsock CID,   *)
(* and none has a reserved one.                                            *)
CidsDistinct ==
  \A m \in Machine : LiveHere(m) =>
    /\ cid[m] >= FirstCID
    /\ \A n \in Machine \ {m} : LiveHere(n) => cid[n] # cid[m]

(* When Shutdown returns because every entry it collected is done, each of *)
(* those machines has stopped and its goroutine has returned.              *)
DrainedMeansStopped ==
  shut = "drained" =>
    \A m \in draining : ~InFlight(m) /\ (m \in machines => Terminal(rec[m]))

(* The record of a machine that outlives the daemon process: the one in    *)
(* memory, else what Load will make of the one on disk.                    *)
Durable ==
  [m \in Machine |-> IF m \in machines THEN rec[m] ELSE Rehydrated(disk[m])]

Lifecycle == INSTANCE MachineLifecycle WITH record <- Durable

(* As long as state files can be written, the manager implements the       *)
(* lifecycle of the README's diagram, through concurrent deletes, shutdown *)
(* and daemon crashes: in particular exited and failed are final, and      *)
(* error, startedAt and exitedAt go with the status they belong to.        *)
ImplementsLifecycle == Lifecycle!LifecycleSpec

(* A DELETE that waits for run() gets its answer: cancellation unblocks    *)
(* the goroutine wherever it is, the renewer included.                     *)
DeleteAnswered == \A c \in Caller : call[c].at = "waiting" ~> call[c].at = "idle"

-----------------------------------------------------------------------------
(* A statement of the documentation that the code contradicts.             *)

(* network.go: "Caller is expected to call Release with the same machine   *)
(* id when the VM exits": the tap of an exited machine goes away.          *)
ExitReleasesNetwork ==
  \A m \in Machine : (m \in machines /\ rec[m].status = "exited") ~>
    ("tap" \notin held[m] \/ m \notin machines)
=============================================================================
