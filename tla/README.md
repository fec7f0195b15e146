# TLA+ models of hyperfleet

Hyperfleet runs Firecracker microVMs from OCI images: a daemon (`cmd/serve`) with
a REST API and an SSH gateway keeps one lifecycle goroutine per machine, and a C
init process (`initd/initd.c`) in each guest executes commands and moves files
over vsock. This directory models the parts of the system whose correctness
depends on the order of things: goroutines, deferred cleanups, crashes, races with
a signal handler, pipes that must be closed, buffers that fill up.

Paths below are relative to the repository. Line numbers are those of the commit
the models were written from; `PROJECT.json` maps every definition to its lines.

## 1. The system

| Component | State | Operations | Talks to |
|---|---|---|---|
| Machine lifecycle manager, `internal/vmmgr/manager.go` | index of entries (record, cancel, done, console), CID counter, one state file per machine | Create, run() with ten provisioning steps and five deferred releases, Delete, Shutdown, Load, Attach, InitdClient | containerd, network allocator, Firecracker, console |
| Lease renewal, `manager.go:496-546` | the lease holder, a ticker | create, add resource, swap, delete old; run() deletes the current one at the end | containerd |
| Serial console, `internal/vmmgr/console.go` | 64 KiB history, subscribers and their channels of 64 chunks | pump, close, Attach, Read, Close | VM's stdio pipes, SSH sessions |
| Network allocator, `internal/network/network.go` | map of allocated addresses; the kernel's tap devices | Setup, Allocate, Release | `ip`, `iptables` |
| Wire protocol, `internal/initd/protocol.go` | none; frames of the `POST /exec` response | header codec | initd, exec proxy, CLI |
| initd in the guest, `initd/initd.c` | one process per connection, a SIGCHLD handler inherited by all | accept, reading the head, exec, PUT and GET /tar, stat, healthz, console shell | the daemon over vsock |
| File routes, `internal/api/initd.go`, `internal/initd/client.go` | one vsock connection per request | putFiles, getFiles, stat, healthz, absQuery; dialVsock, PutTar, GetTar, Stat, Healthz | initd, the user's HTTP connection |
| Exec proxy, `internal/api/initd.go`, `internal/initd/client.go` | a pipe, a result channel, a goroutine per request | exec | initd, the user's HTTP connection |
| REST API and auth, `internal/api/api.go`, `internal/auth/auth.go` | none | validation, status codes, token comparison | lifecycle manager |
| SSH gateway, `internal/sshd/server.go` | the host key file | sessions: an attachment and two copiers | console |
| Daemon, `cmd/serve/main.go` | where it is in its start or its shutdown | start order, shutdown of HTTP, SSH and machines under one deadline | all of the above |
| Command line, `cmd/fleet` | none | one request or `ssh` process per call | REST API, SSH gateway |

What is hard here, and the properties it calls for:

* **Lifecycle manager.** A DELETE, a shutdown, an exit of the VM or a failing call
  can meet run() at every step; the daemon can die between any two steps and comes
  back with nothing but the state files. Correct means: no goroutine without an
  entry through which it can be cancelled, everything taken is given back, in an
  order that never leaves a snapshot without lease, a closed `done` is final, a
  deleted machine does not come back, each DELETE is answered, the records follow
  the documented life cycle.
* **Lease renewal.** The old lease runs while three calls install a new one, with a
  context that can be cancelled at any of them. Correct means: no instant without
  a lease that references the snapshot, the lease in the holder is never the one
  deleted, nothing is overlooked at the end.
* **Console.** Three parties close channels. Correct means: no panic, no gap or
  repetition between history and live stream, the pump is never held up, EOF last
  and for everyone.
* **Network.** Allocations overlap and fail half-way. Correct means: addresses are
  distinct, exhaustion is real, an allocated tap is really set up and nobody else's,
  and Setup, which runs again at every start, does not double what it finds there.
* **Guest exec and tar.** The command's output, its death, its descendants, the
  SIGCHLD handler and the host's leaving come in any order. Correct means: the
  terminal frame is last and true, the response ends (if the host reads), no child stays. Before that, the
  head of the request arrives in pieces of any length.
* **File routes.** User, handler, VM, guest and tar can each end first, and the path
  goes through five codings. Correct means: what the user is told happened did happen,
  every request ends if a user who stays keeps up, the guest keeps nothing of it, the
  guest works on the path the user named.
* **Exec proxy.** A user who leaves, a guest that breaks off, a pipe between two
  goroutines. Correct means: frames whole and in order, an exit code only if it is
  the guest's, no goroutine left behind.
* **Daemon.** A signal comes while requests are served, sessions are attached and
  machines provision; a crash comes while the host key is written. Correct means: a
  shutdown ends, one that stays within its deadline leaves no machine behind, and
  clients meet the same host key as long as its file can be read.

## 2. The modules

| Module | What it is |
|---|---|
| `MachineRecords` | the record of a machine and its statuses |
| `MachineLifecycle` | abstract specification: the README's state diagram and the fields that go with each state |
| `VmManager` | the lifecycle manager; implements `MachineLifecycle` |
| `VmManager_proof` | theorems about it, and the steps of the refinement |
| `MCVmManager` | instances for TLC: symmetry, tap names |
| `Daemon`, `Daemon_proof` | the process around the manager: start, host key, requests, SSH sessions, shutdown; extends `VmManager`; theorems |
| `MCDaemon` | an instance for TLC |
| `LeaseRenewal`, `LeaseRenewal_proof` | one machine's leases, against a clock; theorems |
| `Console`, `Console_proof` | the console multiplexer; theorems |
| `Network` | the allocator |
| `NetworkSetup` | Setup in front of the allocator; extends `Network` |
| `Network_proof` | theorems about both |
| `MCNetwork` | instances for TLC |
| `ExecStream` | abstract specification: what `POST /exec` may put on the wire |
| `GuestChild` | a forked child, `waitpid` and the SIGCHLD handler; extended by the next two |
| `GuestExec`, `GuestExec_proof` | `handle_exec`; implements `ExecStream`; theorems, and the steps of the refinement |
| `GuestHttp` | pure: `read_until`, `parse_headers`, and the head that Go's transport writes |
| `UrlPath` | pure: `absQuery`, `url_decode`, `query_get`, and the parts of net/url they meet |
| `GuestTar` | a connection of the guest that puts or gets files, stats or asks for health: `handle_connection`, `handle_tar_put`, `handle_tar_get`, `handle_stat` |
| `FileProxy`, `FileProxy_proof`, `MCFileProxy` | the daemon's file routes and initd client, composed with `GuestTar`; theorems; paths, escapes and an archive for TLC |
| `ExecProxy`, `ExecProxy_proof` | the API's exec handler and `Client.Exec`, composed with a guest that is any behaviour of `ExecStream`; theorems |

`GuestExec` and `ExecProxy` meet at `ExecStream`: the first is shown to implement
it, the second assumes no more of the guest than it. `VmManager` and `LeaseRenewal`
meet at the lease: `VmManager` has the renewer as a goroutine that ends only on
cancellation, `LeaseRenewal` opens it up. `VmManager` and `Network` meet at
Allocate and Release, which are single steps of the first. `Daemon` runs the very
actions of `VmManager` under guards of its own, `NetworkSetup` those of `Network`, and
`FileProxy` those of `GuestTar`.

### How state and actions correspond to the code

**MachineLifecycle.** Each machine takes a step of its own or none, and several may step
at once: the end of the daemon fails all that have not stopped.

**VmManager.** `pc[m]` is where run(m) is, named after what comes next (`"lease"`,
`"pull"`, ... `"boot"`, `"publish"`, `"markRunning"`, `"wait"`, `"stop"`,
`"mark"`). `defers[m]` holds the deferred calls; `RunDeferred` executes the one of
highest `DeferRank`, which is the LIFO order of Go, and `CloseDone` comes when none
is left, since `defer close(e.done)` is the first. `held[m]` is what is on the host
on the machine's behalf. A critical section of `mg.mu` or `e.mu` is one action: the
console and the vsock path are published in one (`Publish`), status and state file
change in another (`MarkRunning`). Each call that can fail has the failure as
`ProvisioningFails`, which marks the machine failed in the same step, as the code
does before it returns. DELETE is four actions (found, cancelled, waiting, unlisted,
answered), since another request can come between any two. `DaemonEnds` is a crash
at any point or the end of the process: memory is reset, `disk`, `vm`, `cid` and
what is `held` survive, except the IP reservation, which exists in memory only.
`LoadRecord` is Load, one file per step. A fallible call may have taken effect although it
reports an error: the lease of a Create that was cut off (a stray lease, which nothing
deletes), a snapshot without mounts, a process, a tap. Three more things the code decides by
its configuration or its host are constants. `Networked` is `FALSE` under `--no-network`,
where `SkipNetwork` takes the place of `AllocateNetwork`. `Device[m]` is the name of m's tap:
`ip link del` goes by it, so `Exchange` takes the tap of a namesake away as well. `HostFaults`
are the errors that the code ignores or logs: saving and removing a state file (`"save"`,
`"remove"`), releasing a resource (`"release"`), reading a file that is there (`"read"`: Load
skips it), and keeping a lease (`"renew"`).

With `"renew"`, `LeaseExpires` also takes the lease of a working run(): a renewal that fails
is only logged and tried again when the old lease is due (`manager.go:531-538`), and nothing
renews it before the renewer is started. The history variable `lapsed` remembers for which
machines that happened, `LeaseRenewed` is a later attempt that succeeds, and
`SnapshotCollected` is the collector, which takes any snapshot without lease.

**LeaseRenewal.** Time is discrete. A call with the machine's context that starts
after cancellation fails (`doomed`), one that is cancelled while it runs may succeed
or fail. A call that fails may have been carried out all the same (`CreateLeaseFails`,
`DeleteLeaseFails`, `RenewerAddFails`): a lease made in a Create that failed is known to
nobody. `Tick` is the clock, the `time.Ticker` with its buffer of one, and
containerd's removal of expired leases. Assumed, and named as constants: a round of
the renewer takes at most `CallTime`, the way from the first lease to the renewer at
most `SetupTime`. `behind` (a renewal has failed and none succeeded since) and `stranded`
(leases whose deletion, or whose creation, has failed) are history.

**Console.** Bytes are numbered as the VM writes them, so that order and gaps can be
stated: a run of output without gap or repetition is a sequence of consecutive numbers
(`EndsAt`). One action per critical section of `c.mu`; a send on or a close of a closed
channel and a write to the nil map set `panicked`.

**Daemon.** `phase` is where run() of `cmd/serve/main.go` is. `http[c]` and `ssh[s]` are
the request and the connection of one client; a DELETE in progress is also `call[c]` of
`VmManager`. The guards of `VmManager`'s actions that the daemon decides are conjoined:
Create and DELETE need a request that was accepted, Shutdown the phase, the end of Load
and the host key before both servers. `Shutdown` of net/http and of gliderlabs/ssh is
external: it closes the listener and returns when nothing is served or the deadline has
passed. `deadline` is shutdownCtx; `ShutdownExpires` of `VmManager` needs it here. The
key file is written in two steps, since `os.WriteFile` creates it before it writes: `Torn`
is the file in between, which `FindKey` cannot use, as the parse error ends the start in the
code. `CreateKeyFile` follows any error of `os.ReadFile`: the file is absent, or, with
`"read"` in `HostFaults`, it is there and is overwritten. `misread` remembers that the latter
happened since clients last met a key.

**Network.** An address is its offset in the subnet. An identifier is a sequence, of
which a device name keeps a prefix. `createTap` is one action per command, each of
which may fail; the errors the code ignores (`ip link del`) leave the device.

**NetworkSetup.** `setup` is the command that comes next. `bridge`, `forwarding` and
`rules` are the kernel's and survive a restart; `egress` is the daemon's. The route may
name another interface at every start. `CheckRule` is an `iptables -C` that tells the truth,
`CheckFails` one that fails for a rule that is there, which the code takes for an absent one;
`missed` counts these for each rule, which each start checks once at most. The bridge's
address, added with the error ignored, is left out.

**GuestChild, GuestExec, GuestTar.** `pc` is the connection process, which the accept
loop has forked or failed to fork (`AcceptConnection`). A pipe is a
count of unread chunks plus the set of processes that hold its write end, so
background descendants are covered. `SigchldReaps` may come at any point at which a
zombie exists, except when the process already sleeps in `waitpid`, which then finds
the zombie first. `peer` is the host at the other end of the socket. `chunked_write` blocks
without a timeout (`initd.c:180-194`): the steps that write to the host (`WriteStep`,
`WritesArchive`) are apart from the others (`OwnStep`), and get no fairness while the host
is there, so that a host which stays and does not read is a behaviour. `int st;` of the
tar handlers is a free choice when `waitpid` found no child.

**GuestHttp, UrlPath.** The head is a sequence of symbols (a request line, header lines,
CR, LF), which a read may cut anywhere. `read_until` computes where to resume its scan in
a `size_t`; with short first reads the start is before the buffer and `i + nlen` wraps
back, so that the scan compares up to three bytes in front of the buffer. What is there
is a free choice, hence the set that `ReadUntilFinds` returns. A path is a sequence of
bytes (`Char`). Which bytes `url.QueryEscape` escapes is the domain of `Code`, which gives the
two digits; `Unhex` is what the guest's `sscanf("%2x")` and Go's `unhex` make of any two hex
digits, in either case. `UrlPathAssumption` asks of these tables only that an escape
stands for the byte it was made from and that the reserved bytes have one. `Before(Nul, _)`
is that the C code takes the decoded path for a string.

**FileProxy.** `hpc` is the handler of the daemon. When it returns, the transport closes
its connection and the guest may have received any prefix of what was sent (`Return`).
`wire` joins the two: the head and the pieces of the body the guest has not read.
`UserStep` is what waits for a user who stays: forwarding the body it sends, and copying what
it reads, which also holds the guest's write of an archive.

**ExecProxy.** `io.Pipe` is synchronous: the copier's read and the goroutine's write
of header and of payload are joint steps, so the two halves of a frame can be
separated by everything else. The guest takes any step of `ExecStream`. `WriteStep` is what
writes to the user's connection and may wait for its reader.

## 3. What is checked

Each module has one specification with one next-state relation; the runs differ in
constants. `CHECK_DEADLOCK FALSE` is set everywhere because every behaviour may end:
machines are deleted, output is over, the request is answered, or a bound is met.

| Run | Instance | What it shows |
|---|---|---|
| `vm_one` | 1 machine, 2 concurrent DELETEs, 2 restarts, a lease that may run out under run() | `NeverUnlistedInFlight`, `ReturnedMeansReleased`, `LeaseOutlivesSnapshot`, `DeletedStaysDeleted`, `DoneMeansFinished`, `RunningIsBacked`, the refinement `ImplementsLifecycle`, and under fairness `DeleteAnswered` |
| `vm_two` | 2 machines, `--no-network`, 1 DELETE, shutdown | `CidsDistinct`, `DrainedMeansStopped` |
| `daemon` | 1 machine, 1 HTTP client, 1 SSH client, 1 restart, best-effort calls and file reads that may fail | `PromptShutdownLeavesNothing`: no machine slips in behind Shutdown's back; `ShutdownEnds`; `HostKeyKept` |
| `lease` | lifetime 8, rounds of up to 2, clock to 17, any call may fail, having taken effect or not | `SnapshotCovered`, `HolderKept`, `OnlyStrandedRemain` |
| `console` | 2 attachments, history 2, channels of 2 chunks, chunks of up to 3, 5 bytes | `NeverPanics`, `StreamUnbroken`, `HistoryIsNewest`, `EOFComesLast`, `PumpNeverBlocks`, `EveryReaderEnds` |
| `net` | 5 machines, 4 addresses, gateway inside the range, 1 egress interface, 1 restart at any command, the checks of the first and the last rule may fail | `AddressesDistinct`, `TapReady`, `ExhaustedMeansFull`, `SetupIdempotent` |
| `guest_exec` | 2 writes per pipe; mkdir, fork and poll may fail | `TerminalFrameTrue`, `LeavesNoChild`, the refinement `ImplementsExecStream`, `ResponseEnds` (of a host that reads) |
| `exec_proxy` | up to 3 frames | `InGuestOrder`, `ExitIsTheGuests`, `EveryResponseEnds`, `NobodyHangs` (the handler: with a user who reads or leaves) |
| `files` | uploads of up to 3 pieces that begin like the end of a head, downloads of up to 3 reads through a pipe of 2, a head of 11 or 14 symbols in a buffer of 16, 10 paths | `RequestUnderstood`: no cut of the head misleads the guest; `PathReachesGuest`; `ArchiveWhole`: a download that ends is whole; `AcceptedMeansFed`: 204 means tar was fed all it would read; `AnswerComes` and `GuestCleansUp`, of a user who keeps up or leaves |

Three runs are expected to violate their property, each a statement of the
repository that the code does not keep:

| Run | Statement | What happens |
|---|---|---|
| `vm_exit_release` | `network.go:105`, Release is called when the VM exits | run() joins a renewer that only cancellation ends, so after an exit of the VM tap, address, snapshot and a lease that is renewed for ever stay until DELETE |
| `net_tap_collision` | `network.go:226`, only a stale tap is removed | 12 characters of an identifier do not tell two machines of one millisecond apart; the second deletes the live device of the first |
| `guest_lost_status` | `initd.c:998-999`, every fork is waited for explicitly | the SIGCHLD handler, inherited by connection processes, reaps the command first; `waitpid` fails and an exit code of 0 is reported for a command that failed |

Every property also has a mutant: a faulty variant of one operation (a dropped
guard, a swapped order, a missing close), written before the operation it varies,
under which the property fails in the same run. No specification uses a variant.

### Bounds, and why they are enough

* `MaxRestarts = 2`: the second crash can hit Load itself, which then reads what the
  first Load wrote. Nothing depends on an earlier process than the previous one.
* One machine in `vm_one` and `daemon`: entries of different machines share only the index, the
  CID counter and Shutdown's list, which `vm_two` exercises. Two callers give the race of two
  DELETEs for one entry. Where two machines meet at a tap of one name, what a running machine
  can lose by it is proved, for any naming (`RunningMeansBacked`), and `net_tap_collision` shows
  how it comes about. `vm_one` has `"renew"` and no other fault, since its liveness and its
  refinement need state files that are written; `daemon` has the others. `daemon` has one client
  of each kind: the shutdowns ask only whether anything is served at all, and a second client
  would do what the first can do before or after.
* `CIDSpace = 16` stands for 2^32 and is never exhausted. The code would wrap to the
  reserved CIDs after 2^32 machines.
* `lease`: up to four renewals, with a lifetime, a half life and rounds of different
  length; the renewer has no memory beyond the holder and the ticker.
* `console`: chunks shorter and longer than the ring, a ring that overflows in steps,
  a channel that fills.
* `net`: five machines for four addresses, so that exhaustion and the choice between several
  free addresses both happen. The checks that may fail (`Missable`) are those of the first and
  the last of three rules that are alike. The addresses, and Setup for any number of egress
  interfaces and restarts, are proved.
* `guest_exec`, `exec_proxy`: two writes per pipe and three frames let every kind of
  frame meet every order; the handlers keep no count.
* `files`: the buffer is longer than a head and shorter than head and body, so that a body
  is partly read along with the head; the pipe fills and empties; the pieces differ, so
  three show every loss, repetition and exchange, and the first two complete a second end of
  a head. The paths have each reserved character, an escape spelled out, an escape of an
  escape, a NUL, a relative and an empty one. Any archive and any path: see section 4.

### Fairness

* `VmManager`: goroutines are scheduled and every external call of run() returns,
  with a result or an error (the code has no other way out of them either). A DELETE
  goes on, Shutdown ends at its deadline, Load finishes. Nothing makes a client call,
  a VM stop or a daemon crash.
* `Daemon`: the main goroutine goes on, the deadline passes, a session whose console is
  closed ends (its copier reads EOF), and so does an exec whose VM is gone. Clients owe
  nothing: a session, a connection or an exec may last for ever.
* `Console`: only the pump is scheduled fairly. `EveryReaderEnds` names the fairness
  of the reader as its own premise, so `PumpNeverBlocks` is about readers that may
  stop for ever.
* **Blocking writes.** The code has no timeout for a write to its peer: the guest's `writen`
  (`initd.c:180-194`) has none, and the HTTP server sets only `ReadHeaderTimeout`
  (`main.go:124-128`). A peer that is gone makes the write fail; one that stays and does not
  read holds the writer as long as it likes. The specifications therefore have no fairness for
  a write to a peer that is there, and the properties about ends name what they need of it as
  a premise: `HostReads`, `UserReads`, `UserKeepsUp`. Without the premise each of them is false.
* `GuestExec`: only the connection process, except its writes to a host that is there.
  Nothing is assumed of the command: `ResponseEnds` starts when it is gone and nobody holds
  its pipes, and has `HostReads` as its premise.
* `FileProxy`: the handler and the guest's process are scheduled, tar writes while there is
  room, and tar ends once it has nothing left to do (its pipe is closed, or its archive is
  written). Of a user who stays nothing is assumed; `AnswerComes` and `GuestCleansUp` have
  `UserKeepsUp` as their premise, that it sends the body it declared and reads what it asked
  for. A guest that is frozen but not gone would hold the request too (except a health check,
  which has five seconds), and is not a behaviour of the model.
* `ExecProxy`: both goroutines, and that net/http cancels the context of a request
  whose user left or whose handler returned, but for the handler's writes to a user who is
  there. The guest may be silent for ever. The goroutine's end needs nothing of the user;
  the handler's, once the guest's stream is over, has `UserReads` as its premise.

## 4. What is proved

Every safety invariant and action property that a passing run checks is also a theorem, and so
are the two refinements: what TLC alone checks is liveness. TLAPS checks the proofs for all
values of the constants that the named assumptions of the modules allow: any number of machines,
callers, clients, attachments, frames and restarts. The bounds of TLC's runs (`MaxRestarts`,
`MaxLeases`, `MaxFrames`, `MaxWrites`, `MaxReads` ...) are arbitrary naturals there. What a
theorem needs beyond that is in its statement, and is explained below.

Each proof has the same shape: an invariant that says why the property holds, shown
inductive action by action (and first with TLC), from which the property follows in a state.
`TypeCorrect` and `PlaceInv` are used by most of the others of their module.

### The lifecycle manager and the daemon

| Theorem | States | Inductive invariant |
|---|---|---|
| `VmManager_proof!TypeCorrect` | `TypeOK` | itself; that a DELETE in progress knows its machine is part of it, because `DeleteUnlists` and `DeleteAnswers` use `call[c].m` |
| `GoroutinesAreListed` | `NeverUnlistedInFlight` | `IndexInv` |
| `DeletedForGood` | `DeletedStaysDeleted`, if state files can be removed | `IndexInv`, `DeletedInv` |
| `RunningMeansBacked` | `RunningIsBacked` | `IndexInv`, `PlaceInv` |
| `DoneIsFinished` | `DoneMeansFinished` | `IndexInv`, `PlaceInv` |
| `LeaseIsLastToGo` | `LeaseOutlivesSnapshot` | `PlaceInv` |
| `ReturnedIsReleased` | `ReturnedMeansReleased`, if releases do not fail | `PlaceInv`, `ReleasedInv` |
| `DrainedIsStopped` | `DrainedMeansStopped` | `DrainInv`, and `DoneIsFinished` |
| `CidsAreDistinct` | `CidsDistinct`, if there are fewer machines than CIDs | `CidInv` |
| `ManagerImplementsLifecycle` | `ImplementsLifecycle`, if state files can be written | `IndexInv`, `PlaceInv`, `SavedInv` |
| `Daemon_proof!DaemonRunsTheManager` | every behaviour of `DSafetySpec` is one of `VmManager` | each step is a step of the manager or leaves it alone |
| `DaemonKeepsPromises` | the four invariants of the manager that need no hypothesis, of the daemon | the theorem above |
| `DaemonImplementsLifecycle` | `ImplementsLifecycle` of the daemon, if state files can be written | the same |
| `DaemonLeavesNothingBehind` | `DeletedStaysDeleted` and `ReturnedMeansReleased` of the daemon, if state files can be removed and releases succeed | the same |
| `HostKeyIsKept` | `HostKeyKept`: another key only after a failed read | `KeyInv` |
| `PromptShutdownIsClean` | `PromptShutdownLeavesNothing` | `PromptInv`, and the manager's theorems |

`NeverUnlistedInFlight` is not inductive. `IndexInv` adds why it holds: a machine in
`done` is over (its goroutine returned, or it was loaded and has none), which is what
DELETE waits for before it unlists; an identifier not yet used has neither an entry
nor a file, so that Create starts from nothing; and outside `"up"` no DELETE is in
progress. `DeletedInv` adds that a machine whose answer was given, or is about to be,
is not listed, and after the answer has no file, so Load cannot find it.

`PlaceInv` is the argument of every `defer` in run(): the position says which deferred
calls exist, since they are pushed in program order (`DeferInv`); what is held has its
release deferred, until the unwinding (`HeldInv`); the renewer runs only while its join is
deferred; record, console and process follow the position. The lease is deferred first,
hence released last, hence run() never gives it up before its snapshot. It can still run out:
`HeldInv` has lease and snapshot only of a machine that is not in `lapsed`, and the tap only
where no other machine's has the same name, as the properties do. What remains exact in
`LeaseOutlivesSnapshot`, `RunningIsBacked` and `DaemonKeepsPromises` is that nothing but these
two events takes anything from a working run(). A property such as
`RunningIsBacked`, which relates a record written under `e.mu` to resources acquired long
before, needs all of it: a record is `running` only at positions where nothing has been
released. A step of one machine leaves the others alone (`RunLeavesOthers`), so that the
proof is about one machine.

The refinement maps a machine in the index to its record there, and any other to what Load
will make of its file. A crash is then one abstract step in which every machine that has not
stopped fails, which is why `MachineLifecycle` lets several machines step at once. `SavedInv`
says that memory and file agree; it needs `"save" \notin HostFaults`, because `save` logs
a failing write and goes on, and after a crash the machine has the older record again. The
hypotheses of `DeletedForGood` and `ReturnedIsReleased` have the same cause: the code ignores
the error of `os.Remove` and of a release. A returned goroutine can have left a stray lease
besides, made by a Create that reported an error (`Stray`); it expires by itself.

`CidInv` counts: the counter is 3 plus the number of machines that were given a CID in this
process. The hypothesis stands for the 2^32 machines that wrap it. `PromptInv` says that
when Shutdown of the manager begins within the deadline no request is being served, so that what it
collected is all there is: a machine in flight is in `draining` (a Create served meanwhile
would be neither cancelled nor waited for). `KeyInv` says that, unless reading the file has
failed since, a key that clients met is the one in the file and no file is being written.

### The leases

| Theorem | States | Inductive invariant |
|---|---|---|
| `LeaseRenewal_proof!HolderIsKept` | `HolderKept` | `HolderInv` |
| `OnlyStrandedAreLeft` | `OnlyStrandedRemain` | `NoneOverlooked` |
| `SnapshotStaysCovered` | `SnapshotCovered`, if `SetupTime + CallTime < interval` and `Minute <= expiry \div 2` | `ClockInv`, `CoverInv` |

`HolderInv` keeps the lease in the holder, the one being made and the one being deleted
apart. `NoneOverlooked` says of every lease in containerd which goroutine will delete it:
the holder's, the renewer's, or nobody because its deletion or its creation failed. `CoverInv` is about time:
the lease in the holder outlives the next tick by more than a round. Its hypotheses are the
weakest the argument works with: the renewer must be started, and a round be over, within
half a lifetime, and the lifetime must be two minutes or more, below which
`manager.go:520` renews a lease later than at half its life. With the daemon's 24 hours they
hold unless containerd hangs for half a day.

### The console

| Theorem | States | Inductive invariant |
|---|---|---|
| `Console_proof!ConsoleNeverPanics` | `NeverPanics` | `ChannelInv`: a subscriber's channel is open, the map is nil only when closed and then empty |
| `HistoryStaysNewest` | `HistoryIsNewest` | `HistoryInv`, with `appendRing` as lemmas for chunks shorter and longer than the ring |
| `StreamIsUnbroken` | `StreamUnbroken` | `StreamInv` |
| `EOFIsTheEnd` | `EOFComesLast` | `EndInv` |

`StreamInv` says that what a subscriber was given, what waits to be copied and each chunk in
its channel adjoin, and that the last byte it was offered is the last one shown. Attach takes
the history and joins the subscribers in one critical section, so that a new subscriber has
this too; that is all the absence of a gap comes from.

### The network

| Theorem | States | Inductive invariant |
|---|---|---|
| `Network_proof!AllocatorTypes` | `TypeOK` | itself |
| `MapAgreesAlways`, `AddressesAlwaysDistinct`, `ExhaustionIsReal` | `MapAgrees`, `AddressesDistinct`, `ExhaustedMeansFull` | `AddressInv` |
| `TapStaysReady` | `TapReady`, if no two identifiers share a device name | `TapInv` |
| `OnlySharedNamesHurt` | `RemovesOnlyStaleTaps`, under the same hypothesis | a device that exists is its machine's |
| `SetupKeepsAllocator`, `SetupKeepsPromises` | `SetupSpec` implements `Spec`; distinct addresses and real exhaustion behind Setup | each step is a step of the allocator or leaves it alone |
| `SetupIsIdempotent` | `SetupIdempotent`: a rule is doubled only by a failing check | `SetupInv` |

`AddressInv` consists of the types, `MapAgrees`, that what a machine holds is in the
scanned range and not the gateway, and that exactly the gateway's offset belongs to
`GatewayOwner`. Distinctness follows from `MapAgrees` alone: two machines with one
address would both be the map's owner of it. Nothing about tap names is needed, so
the theorems about addresses hold although device names may collide. The two about taps do
need distinct names, which the code does not ensure: `net_tap_collision` is the run in which
they collide, and `OnlySharedNamesHurt` says that there is no other way to
that violation. `SetupInv` says what the commands before the next one have achieved: a
rule is about to be appended only when it is not there or its check has just failed although
it was, which is why no interruption can double it, and the rules before the one in hand are
there.

### The guest and the proxy

| Theorem | States | Inductive invariant |
|---|---|---|
| `GuestExec_proof!HandlerLeavesNoChild` | `LeavesNoChild` | `HandlerInv` |
| `HandlerKeepsStream` | `ImplementsExecStream` | `HandlerInv`, `AnswerInv` |
| `TerminalFramesAreTrue` | `TerminalFrameTrue` | `PipeInv` |
| `ExecProxy_proof!UserSeesGuestOrder` | `InGuestOrder` | `GuestInv`, `PlaceInv`, `OutInv` |
| `ExitIsNeverInvented` | `ExitIsTheGuests` | the same |
| `ResponsesEnd` | `EveryResponseEnds` | the same |
| `FileProxy_proof!RequestsAreUnderstood` | `RequestUnderstood` | `PlaceInv`, `TextInv` |
| `AcceptedIsFed` | `AcceptedMeansFed` | `PlaceInv`, `TextInv`, `AcceptedInv` |
| `ArchiveIsWhole` | `ArchiveWhole` | `PlaceInv`, `ArchiveInv` |
| `PathsReachGuest` | `PathReachesGuest` | `PathInv` |

`HandlerInv` follows the child against a SIGCHLD handler that may reap it first: at
`"report"` it is reaped, and `wstatus` is its own or the zero that `waitpid` left, which is
all that can be said (the run `guest_lost_status` shows the zero). `PipeInv` counts for each
pipe that what was sent and what waits in it is what was written, and that a pipe the pump
has given up is empty for good; it is dropped when the host has gone, on the path that kills
the command and reports nothing. `HandlerKeepsStream` is what entitles `ExecProxy` to its
guest.

`OutInv` relates three counters: the pieces the user has, the pieces that went through the
pipe, and the frames the goroutine has taken; what the user has is a prefix of the guest's
frames cut into pieces. `PlaceInv` says that the result channel is filled after the pipe was closed and
with what the goroutine saw, from which the terminal frame is either the guest's or an error.

`TextInv` says that what the guest has in its buffer and what is on the wire are together the
text of the request up to what the user has sent. The lemmas before it (`Join`, `Cut`,
`TextFacts`, `BodyFollows`, `EndOccurs`) reduce `read_until` and `parse_headers` to facts about
the two heads that occur: an end of a head occurs in the text nowhere before the head's own, and
`read_until` finds that one in the read that brings it, never earlier with the three stray bytes in
front of the buffer, however the head was cut (`ReadUntilIsRight`, `ParseIsRight`). The theorem is
about these heads, of 11 and 14 symbols, as Go's transport writes them. The archive (`Body`) is
any sequence of any pieces, also of such as CR, LF or a Content-Length line, since the lemmas look
only at the first occurrence; buffer, pipe, downloads and paths are arbitrary. `AcceptedInv` and
`ArchiveInv` carry "fed all of it" and "sent all of it" from the guest's answer to the user's.

`PathInv` says which coding of the user's path the request and the handler have: the query is
the escaped form of what `absQuery` made of the path, and the target is that decoded, up to a
NUL. What it needs is a fact about the operators alone, `EscapedComesBack`: decoding an escaped
text gives the text, for every text. `QueryEscape` (through `FlattenSeq`) and `Decode` are
recursive functions of positions in the text, so this is an induction over the text. The
induction theorems of the library take an operator as a parameter, which the provers cannot
instantiate; `Induct` and `InductDown` state induction for a set of numbers instead, from the
minimum of a well-founded order (`WFMin`). The same two give the existence of the functions that
the definitions choose: a function that obeys the equations up to a length is extended by one
(`FlatExists`, `DecodedExists`), and one that obeys them everywhere determines the value at each
point (`FlatIs`, `DecodeIs`). From there: a text is escaped byte by byte (`WrittenIs`,
`WrittenBegins`), decoding takes back one written byte at a time, from the last to the first
(`EscapedComesBack`), and leaves a text without `+` and `%` as it is (`PlainStays`).

### What is only model-checked

* Liveness (`DeleteAnswered`, `ShutdownEnds`, `PumpNeverBlocks`, `EveryReaderEnds`,
  `ResponseEnds`, `NobodyHangs`, `AnswerComes`, `GuestCleansUp`): fairness is ENABLED, which
  the prover does not do.

The assumptions of the theorems are the named ones of the modules. `GuestTarAssumption` asks for a
buffer that holds the longer head, a pipe with room, and nothing of the archive;
`UrlPathAssumption` and `FileProxyAssumption` are described in section 2.

## 5. What is not modelled

* The REST API's validation, status codes and JSON; authentication; the CLI; the setup
  scripts: no state, or none of the system's.
* List and Get of the manager only read. Boot and prepareRootfs are single steps that
  succeed or fail; the kernel command line and the files they write are left out.
* initd's mounts, loopback and console shell run before or beside the control plane. Its
  JSON walker and `build_envp` are text processing; exec's body is valid or not.
* The header codec of the wire protocol: a frame is one value, in two writes.
* attachment.Write of the console, which forwards to the VM's stdin pipe, and the bytes an
  SSH session copies.
* `WaitReady` of the initd client, which nothing calls.
* A chunked upload's body: the guest refuses it unread (no Content-Length).
* After a crash, what orphaned Firecracker processes use: `VmManager` keeps their
  snapshot, tap and CID in `held`, `vm` and `cid`, while `Network` starts with an empty
  map as `New` does.

### Divergences seen while modelling that no run shows

* `manager.go:79-80` says CIDs are never reused; `New` starts at 3 in every process
  (`manager.go:99`), so a new VM can get the CID of an orphan.
* The console is published before the status (`manager.go:411-415`) and Attach looks
  only at the console, so a pending machine can be attached to, which `README.md:396`
  excludes.
* `manager.go:59` says a zero LeaseExpiration disables renewal; run() replaces zero by
  24 h and starts the renewer (`manager.go:308-311, 370`). An interval is never less
  than a minute (`manager.go:520`), so short leases are not renewed at half their life.
* `handle_tar_put` reads `int st;` after a `waitpid` that fails when the SIGCHLD handler
  was first (`initd.c:874-876`): the answer of an upload is then arbitrary.
* When `pipe2` or `fork` fails the exec response has no terminal frame
  (`initd.c:659-664, 687-695`), where `protocol.go:36-37` announces an error frame.
* `protocol.go:80-81` says an empty value unsets a variable of the environment;
  `build_envp` (`initd.c:582-607`) sets it.
* When the pump has ended first, `Console.close` returns early (`console.go:69`) and the
  VM's stdin pipe is not closed.
* A path with `+` or `%` does not reach the guest as the user named it: `Query().Get` has
  unescaped it and `absQuery` unescapes it again (`api/initd.go:232`). A path with a NUL
  (`%00`) passes `absQuery` and ends at it in the guest, where it is a C string.
  `PathReachesGuest` says what the guest gets in these cases; only of the other paths does it
  say that the guest gets what the user named.
* A download answers 200 before tar has found anything; a missing path (tar or the child's
  `stat` fails), a failing tar and a VM that dies all end the user's response like a whole
  archive (`api/initd.go:195-196`, `initd.c:897-900`), where `api/initd.go:27` announces
  "body: tar archive of guest path".
* `parse_headers` does not look at the last header line, which has lost its CR LF
  (`initd.c:325-326, 943`). Go's transport never writes Content-Length last.
* A crash while the host key is written leaves a file that no later start can parse, and
  the daemon does not start again until it is removed (`sshd/server.go:89-93, 106`).
* An SSH client that stays connected, or an exec that goes on, uses up the 30 seconds
  that HTTP, SSH and machines share (`cmd/serve/main.go:174-183`): Shutdown then returns
  without waiting for the machines it cancelled.
* Setup takes every failure of `iptables -C` for an absent rule (`network.go:261`): one that
  fails for another reason, such as a held lock, doubles the rule, where `network.go:79-80` says
  "Idempotent". `SetupIdempotent` has this as its only exception. Setup also ignores every
  failure to give the bridge its address (`network.go:217-218`).
* Any error of reading the host key file, not only that it is absent, leads to a new key that
  is written over the old one (`sshd/server.go:89-106`), where `README.md:429-430` says that
  restarts reuse it. `HostKeyKept` has this as its only exception.
* A renewal that fails is tried again only when the old lease is due (`manager.go:531-538`),
  so the collector can take the snapshot of a running VM; a lease made in a Create that
  reported an error is deleted by nobody.
* A peer that stays connected without reading holds handler, goroutine and guest process for
  ever (section 3, fairness); it also keeps HTTP's part of a shutdown until the deadline.
* Where a state file cannot be removed the error is ignored (`manager.go:690-695`), and the
  deleted machine is listed again after the next start.
* After a crash, addresses that orphaned VMs still use are given out again
  (`network.go:69`).
* `README.md:249` of the repository says state is in-memory and persistence deferred;
  `Load` and the state files persist it.

## 6. Plan

Done, in this order: `VmManager` with its abstract specification and proofs, `Network` and
proofs, `Console`, `LeaseRenewal`, the guest (`GuestChild`, `GuestExec`, `GuestTar`), the
wire (`ExecStream`) and `ExecProxy`; then the compositions: `Daemon` around `VmManager`,
`NetworkSetup` in front of `Network`, and `FileProxy` with `GuestTar`, `GuestHttp` and
`UrlPath`.

Open, models: the header codec and `build_envp` against reference definitions; `Network`
composed with the orphans of a crash.

Proved since: every safety invariant and action property of the runs, and the steps of both
refinements.

Open, theorems: the two heads of `FileProxy` replaced by any head in which the end occurs
once and Content-Length is not last; that `LeaseRenewal` implements what `VmManager` assumes
of a renewer.
