---------------------------- MODULE Daemon_proof ----------------------------
(***************************************************************************)
(* Theorems about Daemon: around the manager it does nothing that the      *)
(* manager's specification does not allow, so what VmManager_proof states  *)
(* of the manager holds of the whole process; and the host key is kept.    *)
(***************************************************************************)
EXTENDS Daemon, VmManager_proof

\* Every step of the process is a step of the manager, or leaves it alone.
LEMMA ManagerSteps == [DNext]_allVars => [Next]_vars
<1> SUFFICES ASSUME [DNext]_allVars PROVE [Next]_vars
  OBVIOUS
<1>1. ASSUME NEW m \in Machine, MachineStep(m) PROVE Next
  BY <1>1 DEF MachineStep, Next
<1>2. CASE StartStep
  BY <1>2 DEF StartStep, Loading, FindKey, CreateKeyFile, WriteKeyFile, Serve,
              LoadStep, Next
<1>3. ASSUME NEW c \in Caller, Accept(c) \/ ExecEnds(c) \/ ServeOther(c)
      PROVE  UNCHANGED vars
  BY <1>3 DEF Accept, ExecEnds, ServeOther
<1>4. ASSUME NEW c \in Caller, DeleteGoesOn(c) \/ DeleteReturns(c) PROVE Next
  BY <1>4 DEF DeleteGoesOn, DeleteReturns, DeleteStep, Next
<1>5. ASSUME NEW c \in Caller, NEW m \in Machine,
             ServeCreate(c, m) \/ ServeExec(c, m) \/ ServeDelete(c, m)
      PROVE  [Next]_vars
  BY <1>5 DEF ServeCreate, ServeExec, ServeDelete, Next
<1>6. ASSUME NEW s \in Session,
             \/ Connect(s) \/ SessionEnds(s) \/ Disconnect(s)
             \/ \E m \in Machine : AttachSession(s, m)
      PROVE  UNCHANGED vars
  BY <1>6 DEF Connect, SessionEnds, Disconnect, AttachSession
<1>7. CASE BeginShutdown \/ DeadlinePasses \/ StopStep
  BY <1>7 DEF BeginShutdown, DeadlinePasses, StopStep, HttpShutdownReturns,
              SshShutdownReturns, ManagerShutdown, ShutdownStep, Next
<1>8. CASE ProcessEnds \/ ProcessStarts
  BY <1>8 DEF ProcessEnds, ProcessStarts, Next
<1>9. CASE UNCHANGED allVars
  BY <1>9 DEF allVars
<1> QED
  BY <1>1, <1>2, <1>3, <1>4, <1>5, <1>6, <1>7, <1>8, <1>9 DEF DNext

\* The process, with its servers, its shutdown under a deadline and its
\* restarts, implements the specification of the machine manager.
THEOREM DaemonRunsTheManager == DSafetySpec => SafetySpec
<1>1. DInit => Init
  BY DEF DInit
<1> QED
  BY <1>1, ManagerSteps, PTL DEF DSafetySpec, SafetySpec

\* What holds of the manager alone holds in the process that serves, shuts down
\* and starts again: no goroutine is out of reach, what runs is backed, a closed
\* done channel is final, and run() gives its lease up last.
THEOREM DaemonKeepsPromises ==
  DSafetySpec => [](/\ NeverUnlistedInFlight /\ RunningIsBacked
                    /\ DoneMeansFinished /\ LeaseOutlivesSnapshot)
BY DaemonRunsTheManager, GoroutinesAreListed, RunningMeansBacked, DoneIsFinished,
   LeaseIsLastToGo, PTL

\* Where state files can be written, the machines of the daemon go through the
\* states that the documentation draws, whatever shutdown, crash and start do
\* to them.
THEOREM DaemonImplementsLifecycle ==
  ASSUME "save" \notin HostFaults
  PROVE  DSafetySpec => ImplementsLifecycle
<1>1. SafetySpec => ImplementsLifecycle
  BY ManagerImplementsLifecycle
<1> QED
  BY <1>1, DaemonRunsTheManager

\* Where state files can be removed and releases succeed, a machine whose DELETE
\* was answered stays away through every restart of the daemon, and what a
\* goroutine has returned from is given back.
THEOREM DaemonLeavesNothingBehind ==
  ASSUME "remove" \notin HostFaults, "release" \notin HostFaults
  PROVE  DSafetySpec => [](DeletedStaysDeleted /\ ReturnedMeansReleased)
<1>1. SafetySpec => []DeletedStaysDeleted
  BY DeletedForGood
<1>2. SafetySpec => []ReturnedMeansReleased
  BY ReturnedIsReleased
<1> QED
  BY <1>1, <1>2, DaemonRunsTheManager, PTL

-----------------------------------------------------------------------------
(* The inductive invariant: unless reading it has failed since, a key that *)
(* clients have met is the one in the file, and no file is being written.  *)
KeyInv ==
  /\ served # 0 /\ ~misread => key = served /\ phase # "writingKey"
  /\ phase = "keyed" => key > 0
  /\ misread \in BOOLEAN

\* It holds: a key file is written only where none was found, or none was read.
LEMMA KeyInvariant == DSafetySpec => []KeyInv
<1>1. DInit => KeyInv
  BY DEF DInit, KeyInv
<1>2. TypeOK /\ KeyInv /\ [DNext]_allVars => KeyInv'
  <2> SUFFICES ASSUME TypeOK, KeyInv, [DNext]_allVars PROVE KeyInv'
    OBVIOUS
  <2>1. CASE FindKey \/ CreateKeyFile
    BY <2>1 DEF FindKey, CreateKeyFile, KeyInv, keyVars
  <2>2. CASE WriteKeyFile
    <3>1. restarts + 1 > 0
      BY DEF TypeOK
    <3> QED
      BY <2>2, <3>1 DEF WriteKeyFile, KeyInv
  <2>3. CASE Serve \/ BeginShutdown \/ HttpShutdownReturns \/ SshShutdownReturns
             \/ ProcessEnds
    BY <2>3 DEF Serve, BeginShutdown, HttpShutdownReturns, SshShutdownReturns,
                ProcessEnds, KeyInv, keyVars
  <2>4. CASE UNCHANGED <<phase, keyVars>>
    BY <2>4 DEF KeyInv, keyVars
  <2>5. \/ FindKey \/ CreateKeyFile \/ WriteKeyFile \/ Serve \/ BeginShutdown
        \/ HttpShutdownReturns \/ SshShutdownReturns \/ ProcessEnds
        \/ UNCHANGED <<phase, keyVars>>
    <3>1. ASSUME NEW m \in Machine, MachineStep(m) \/ Loading(m)
          PROVE  UNCHANGED <<phase, keyVars>>
      BY <3>1 DEF MachineStep, Loading, serverVars
    <3>2. ASSUME NEW c \in Caller,
                 \/ Accept(c) \/ ExecEnds(c) \/ ServeOther(c)
                 \/ DeleteGoesOn(c) \/ DeleteReturns(c)
          PROVE  UNCHANGED <<phase, keyVars>>
      BY <3>2 DEF Accept, ExecEnds, ServeOther, DeleteGoesOn, DeleteReturns, serverVars
    <3>3. ASSUME NEW c \in Caller, NEW m \in Machine,
                 ServeCreate(c, m) \/ ServeExec(c, m) \/ ServeDelete(c, m)
          PROVE  UNCHANGED <<phase, keyVars>>
      BY <3>3 DEF ServeCreate, ServeExec, ServeDelete
    <3>4. ASSUME NEW s \in Session,
                 \/ Connect(s) \/ SessionEnds(s) \/ Disconnect(s)
                 \/ \E m \in Machine : AttachSession(s, m)
          PROVE  UNCHANGED <<phase, keyVars>>
      BY <3>4 DEF Connect, SessionEnds, Disconnect, AttachSession
    <3>5. CASE DeadlinePasses \/ ManagerShutdown \/ ProcessStarts \/ UNCHANGED allVars
      BY <3>5 DEF DeadlinePasses, ManagerShutdown, ProcessStarts, allVars, serverVars
    <3> QED
      BY <3>1, <3>2, <3>3, <3>4, <3>5 DEF DNext, StartStep, StopStep
  <2> QED
    BY <2>1, <2>2, <2>3, <2>4, <2>5
<1> QED
  BY <1>1, <1>2, DaemonRunsTheManager, TypeCorrect, PTL DEF DSafetySpec

\* The host key that clients have met is replaced by another only after reading
\* its file has failed since, wherever a start is cut short.
THEOREM HostKeyIsKept == DSafetySpec => HostKeyKept
<1>1. KeyInv /\ [DNext]_allVars => [served # 0 /\ served' # served => misread]_allVars
  <2> SUFFICES ASSUME KeyInv, DNext, served # 0, ~misread PROVE served' = served
    OBVIOUS
  <2>1. CASE Serve
    BY <2>1 DEF Serve, KeyInv
  <2>2. ASSUME ~Serve PROVE served' = served
    BY <2>2 DEF DNext, StartStep, StopStep, MachineStep, Loading, FindKey,
       CreateKeyFile, WriteKeyFile, Accept, ExecEnds, ServeOther, DeleteGoesOn,
       DeleteReturns, ServeCreate, ServeExec, ServeDelete, Connect, SessionEnds,
       Disconnect, AttachSession, BeginShutdown, DeadlinePasses, HttpShutdownReturns,
       SshShutdownReturns, ManagerShutdown, ProcessEnds, ProcessStarts, serverVars, keyVars
  <2> QED
    BY <2>1, <2>2
<1> QED
  BY <1>1, KeyInvariant, PTL DEF DSafetySpec, HostKeyKept

-----------------------------------------------------------------------------
(* The inductive invariant behind PromptShutdownLeavesNothing: while the   *)
(* deadline has not passed, no request is left when the HTTP server has    *)
(* shut down, so every machine in flight was collected by the manager.     *)
PromptInv ==
  /\ shut # "no" => phase = "manager"
  /\ phase \in {"ssh", "manager"} /\ ~deadline =>
       \A c \in Caller : http[c].at = "none"
  /\ shut # "no" /\ ~deadline => \A m \in Machine : InFlight(m) => m \in draining

\* A machine begins to be worked for only by Create; nothing but the steps of
\* Shutdown and the end of the process touches what Shutdown remembers.
LEMMA NothingElseStarts ==
  ASSUME TypeOK, NEW m \in Machine,
         RunStep(m) \/ RenewerReturns(m) \/ HostStep(m) \/ LoadRecord(m)
  PROVE  /\ UNCHANGED shutVars
         /\ \A n \in Machine : InFlight(n)' => InFlight(n)
<1> USE DEF TypeOK, InFlight, Goto, runVars
<1>1. CASE RunStep(m)
  <2>1. \A n \in Machine : InFlight(n)' => InFlight(n)
    BY <1>1, RunStepFrame
  <2>2. UNCHANGED shutVars
    BY <1>1 DEF RunStep, AcquireLease, Pull, PrepareSnapshot, AllocateNetwork,
       SkipNetwork, PrepareRootfs, StartRenewer, MakeWorkDir, OpenPipes, AllocCID, Boot,
       ProvisioningFails, Publish, MarkRunning, WaitReturns, StopVm, MarkStopped,
       RunDeferred, CloseDone
  <2> QED
    BY <2>1, <2>2
<1>2. CASE RenewerReturns(m) \/ HostStep(m) \/ LoadRecord(m)
  BY <1>2 DEF RenewerReturns, HostStep, VmExits, LeaseExpires, LeaseRenewed,
              SnapshotCollected, LoadRecord
<1> QED
  BY <1>1, <1>2

\* It holds: once HTTP has been shut down, nothing can be created.
LEMMA PromptInvariant == DSafetySpec => []PromptInv
<1>1. DInit => PromptInv
  BY DEF DInit, Init, PromptInv
<1>2. TypeOK /\ NeverUnlistedInFlight /\ PromptInv /\ [DNext]_allVars => PromptInv'
  <2> SUFFICES ASSUME TypeOK, NeverUnlistedInFlight, PromptInv, [DNext]_allVars
               PROVE  PromptInv'
    OBVIOUS
  <2> USE DEF PromptInv, serverVars, shutVars, runVars, InFlight
  <2>1. ASSUME NEW m \in Machine, MachineStep(m) \/ Loading(m)
        PROVE  PromptInv'
    BY <2>1, NothingElseStarts DEF MachineStep, Loading
  <2>2. CASE FindKey \/ CreateKeyFile \/ WriteKeyFile \/ Serve \/ BeginShutdown
             \/ DeadlinePasses \/ HttpShutdownReturns \/ SshShutdownReturns
    BY <2>2 DEF FindKey, CreateKeyFile, WriteKeyFile, Serve, DaemonServes,
       BeginShutdown, DeadlinePasses, HttpShutdownReturns, SshShutdownReturns, vars
  <2>3. ASSUME NEW c \in Caller, Accept(c) \/ ExecEnds(c) \/ ServeOther(c)
        PROVE  PromptInv'
    BY <2>3 DEF Accept, HttpAccepts, ExecEnds, ServeOther, Answer, NoRequest, vars
  <2>4. ASSUME NEW c \in Caller, DeleteGoesOn(c)
        PROVE  PromptInv'
    BY <2>4 DEF DeleteGoesOn, DeleteCancels, DeleteUnlists
  <2>5. ASSUME NEW c \in Caller, DeleteReturns(c)
        PROVE  PromptInv'
    BY <2>5 DEF DeleteReturns, DeleteAnswers, DeleteAbandoned, Answer, NoRequest
  <2>6. ASSUME NEW c \in Caller, NEW m \in Machine, ServeCreate(c, m)
        PROVE  PromptInv'
    <3>1. http[c].at = "open"
      BY <2>6 DEF ServeCreate
    <3>2. ~(phase \in {"ssh", "manager"} /\ ~deadline)
      BY <3>1
    <3> QED
      BY <2>6, <3>2 DEF ServeCreate, Create
  <2>7. ASSUME NEW c \in Caller, NEW m \in Machine,
               ServeExec(c, m) \/ ServeDelete(c, m)
        PROVE  PromptInv'
    <3>1. http[c].at = "open"
      BY <2>7 DEF ServeExec, ServeDelete
    <3>2. ~(phase \in {"ssh", "manager"} /\ ~deadline)
      BY <3>1
    <3> QED
      BY <2>7, <3>2 DEF ServeExec, ServeDelete, DeleteFinds, vars
  <2>8. ASSUME NEW s \in Session,
               \/ Connect(s) \/ SessionEnds(s) \/ Disconnect(s)
               \/ \E m \in Machine : AttachSession(s, m)
        PROVE  PromptInv'
    BY <2>8 DEF Connect, SessionEnds, Disconnect, AttachSession, vars
  <2>9. CASE ManagerShutdown
    BY <2>9 DEF ManagerShutdown, ShutdownCollects, ShutdownCancels, ShutdownDrained,
       ShutdownExpires, NeverUnlistedInFlight
  <2>10. CASE ProcessEnds
    BY <2>10 DEF ProcessEnds, DaemonEnds
  <2>11. CASE ProcessStarts
    BY <2>11 DEF ProcessStarts, DaemonStarts
  <2>12. CASE UNCHANGED allVars
    BY <2>12 DEF allVars, vars
  <2> QED
    BY <2>1, <2>2, <2>3, <2>4, <2>5, <2>6, <2>7, <2>8, <2>9, <2>10, <2>11, <2>12
    DEF DNext, StartStep, StopStep
<1> QED
  BY <1>1, <1>2, DaemonRunsTheManager, TypeCorrect, GoroutinesAreListed, PTL
  DEF DSafetySpec

\* A shutdown in which the deadline does not pass leaves no machine
\* provisioning or running: no request served meanwhile has added one that the
\* manager did not collect, cancel and wait for.
THEOREM PromptShutdownIsClean == DSafetySpec => []PromptShutdownLeavesNothing
<1>1. PromptInv /\ DrainedMeansStopped => PromptShutdownLeavesNothing
  BY DEF PromptInv, DrainedMeansStopped, PromptShutdownLeavesNothing
<1> QED
  BY <1>1, PromptInvariant, DaemonRunsTheManager, DrainedIsStopped, PTL
=============================================================================
