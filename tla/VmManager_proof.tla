-------------------------- MODULE VmManager_proof --------------------------
(***************************************************************************)
(* Theorems about VmManager, for every set of machines and callers, every  *)
(* number of restarts, every naming of tap devices, with and without a     *)
(* network, and every choice of host faults.                               *)
(***************************************************************************)
EXTENDS VmManager, FiniteSetTheorems, TLAPS

\* The record operators stay within MachineRecord.
LEMMA RecordType ==
  /\ Absent \in MachineRecord /\ Pending \in MachineRecord
  /\ \A r \in MachineRecord :
       /\ Running(r) \in MachineRecord /\ Exited(r) \in MachineRecord
       /\ Failed(r) \in MachineRecord /\ Rehydrated(r) \in MachineRecord
BY DEF Absent, Pending, MachineRecord, Status, Running, Exited, Failed, Rehydrated

\* Marking a machine keeps the records, in memory and on disk, typed.
LEMMA MarkType ==
  ASSUME TypeOK, NEW m \in Machine, NEW r \in MachineRecord, Mark(m, r)
  PROVE  rec' \in [Machine -> MachineRecord] /\ disk' \in [Machine -> MachineRecord]
BY DEF TypeOK, Mark, Save

\* The CID counter stays a machine word.
LEMMA CIDType ==
  ASSUME NEW n \in 0 .. CIDSpace - 1
  PROVE  (n + 1) % CIDSpace \in 0 .. CIDSpace - 1
BY ConstantsAssumption DEF FirstCID

\* An exchange of resources leaves others what they have, but for the tap of
\* a machine with a device of the same name.
LEMMA ExchangeTakes ==
  ASSUME TypeOK, NEW m \in Machine, NEW gains \in SUBSET Resource, NEW loses,
         Exchange(m, gains, loses)
  PROVE  /\ held' \in [Machine -> SUBSET Resource]
         /\ \A n \in Machine \ {m} :
              \/ held'[n] = held[n]
              \/ held'[n] = held[n] \ {"tap"} /\ SharesDevice(n)
<1> USE DEF Exchange, TypeOK
<1>1. held' \in [Machine -> SUBSET Resource]
  OBVIOUS
<1>3. ASSUME NEW n \in Machine \ {m}, held'[n] # held[n]
      PROVE  held'[n] = held[n] \ {"tap"} /\ SharesDevice(n)
  <2>1. Device[n] = Device[m] /\ held'[n] = held[n] \ (loses \cap {"tap"})
    BY <1>3
  <2>2. SharesDevice(n)
    BY <2>1 DEF SharesDevice
  <2>3. loses \cap {"tap"} = {} \/ loses \cap {"tap"} = {"tap"}
    OBVIOUS
  <2> QED
    BY <1>3, <2>1, <2>2, <2>3
<1> QED
  BY <1>1, <1>3

\* The part about the machine itself.
LEMMA ExchangedSelf ==
  ASSUME NEW m \in Machine, NEW gains, NEW loses, Exchange(m, gains, loses)
  PROVE  held'[m] = (held[m] \ loses) \cup gains
BY DEF Exchange

\* Allocating, failing to, and every deferred call are such exchanges.
LEMMA RunExchanges ==
  ASSUME TypeOK, NEW m \in Machine,
         \/ AllocateNetwork(m) \/ ProvisioningFails(m)
         \/ \E d \in Deferred : RunDeferred(m, d)
  PROVE  /\ held' \in [Machine -> SUBSET Resource]
         /\ \A n \in Machine \ {m} :
              \/ held'[n] = held[n]
              \/ held'[n] = held[n] \ {"tap"} /\ SharesDevice(n)
<1>1. CASE AllocateNetwork(m)
  <2>1. Exchange(m, {"ip", "tap"}, {"tap"}) /\ {"ip", "tap"} \in SUBSET Resource
    BY <1>1 DEF AllocateNetwork, Resource
  <2> QED
    BY <2>1, ExchangeTakes
<1>2. CASE ProvisioningFails(m)
  <2>1. \/ UNCHANGED held
        \/ pc[m] \in {"lease", "snapshot"} /\ held' = [held EXCEPT ![m] = @ \cup {pc[m]}]
        \/ \E left \in SUBSET {"tap"} : Exchange(m, left, {"tap"})
    BY <1>2 DEF ProvisioningFails
  <2>2. ASSUME NEW left \in SUBSET {"tap"}, Exchange(m, left, {"tap"})
        PROVE  /\ held' \in [Machine -> SUBSET Resource]
               /\ \A n \in Machine \ {m} :
                    \/ held'[n] = held[n]
                    \/ held'[n] = held[n] \ {"tap"} /\ SharesDevice(n)
    <3>1. left \in SUBSET Resource
      BY DEF Resource
    <3> QED
      BY <2>2, <3>1, ExchangeTakes
  <2> QED
    BY <2>1, <2>2 DEF TypeOK, Resource
<1>3. ASSUME NEW d \in Deferred, RunDeferred(m, d)
      PROVE  /\ held' \in [Machine -> SUBSET Resource]
             /\ \A n \in Machine \ {m} :
                  \/ held'[n] = held[n]
                  \/ held'[n] = held[n] \ {"tap"} /\ SharesDevice(n)
  <2>1. PICK kept \in MayStay(m, d) : Exchange(m, {}, Frees[d] \ kept)
    BY <1>3 DEF RunDeferred
  <2> QED
    BY <2>1, ExchangeTakes
<1> QED
  BY <1>1, <1>2, <1>3

\* Every provisioning step preserves the types.
LEMMA ProvisioningType ==
  ASSUME TypeOK, NEW m \in Machine,
         \/ Create(m) \/ AcquireLease(m) \/ Pull(m) \/ PrepareSnapshot(m)
         \/ AllocateNetwork(m) \/ SkipNetwork(m) \/ PrepareRootfs(m) \/ StartRenewer(m)
         \/ MakeWorkDir(m) \/ OpenPipes(m) \/ AllocCID(m) \/ Boot(m)
         \/ ProvisioningFails(m)
  PROVE  TypeOK'
<1> USE DEF TypeOK, Goto, Acquire, daemonVars, indexVars, hostVars, callVars,
            shutVars
<1>1. CASE Create(m)
  BY <1>1, RecordType, MarkType DEF Create, Mark, Position, Provisioning
<1>2. CASE AcquireLease(m)
  BY <1>2 DEF AcquireLease, Position, Provisioning, Deferred, Resource
<1>3. CASE Pull(m)
  BY <1>3 DEF Pull, Position, Provisioning
<1>4. CASE PrepareSnapshot(m)
  BY <1>4 DEF PrepareSnapshot, Position, Provisioning, Deferred, Resource
<1>5. CASE AllocateNetwork(m)
  BY <1>5, RunExchanges DEF AllocateNetwork, Position, Provisioning, Deferred
<1>6. CASE SkipNetwork(m) \/ PrepareRootfs(m)
  BY <1>6 DEF SkipNetwork, PrepareRootfs, Position, Provisioning
<1>7. CASE StartRenewer(m)
  BY <1>7 DEF StartRenewer, Position, Provisioning, Deferred
<1>8. CASE MakeWorkDir(m)
  BY <1>8 DEF MakeWorkDir, Position, Provisioning, Deferred, Resource
<1>9. CASE OpenPipes(m)
  BY <1>9 DEF OpenPipes, Position, Provisioning
<1>10. CASE AllocCID(m)
  BY <1>10, CIDType DEF AllocCID, Position, Provisioning
<1>11. CASE Boot(m)
  BY <1>11 DEF Boot, Position, Serving
<1>12. CASE ProvisioningFails(m)
  <2>1. rec[m] \in MachineRecord
    OBVIOUS
  <2>2. rec' \in [Machine -> MachineRecord] /\ disk' \in [Machine -> MachineRecord]
    BY <1>12, <2>1, RecordType, MarkType DEF ProvisioningFails
  <2>3. pc' \in [Machine -> Position]
    BY <1>12 DEF ProvisioningFails, Position
  <2>4. held' \in [Machine -> SUBSET Resource] /\ vm' \in [Machine -> {"none", "up", "gone"}]
    BY <1>12, RunExchanges DEF ProvisioningFails
  <2> QED
    BY <1>12, <2>2, <2>3, <2>4 DEF ProvisioningFails
<1> QED
  BY <1>1, <1>2, <1>3, <1>4, <1>5, <1>6, <1>7, <1>8, <1>9, <1>10, <1>11, <1>12

\* Serving, stopping and unwinding preserve the types.
LEMMA ServingType ==
  ASSUME TypeOK, NEW m \in Machine,
         \/ Publish(m) \/ MarkRunning(m) \/ WaitReturns(m) \/ StopVm(m)
         \/ MarkStopped(m) \/ (\E d \in Deferred : RunDeferred(m, d))
         \/ CloseDone(m) \/ RenewerReturns(m) \/ HostStep(m)
  PROVE  TypeOK'
<1> USE DEF TypeOK, Goto, daemonVars, indexVars, runVars, hostVars, callVars,
            shutVars
<1>0. rec[m] \in MachineRecord
  OBVIOUS
<1>1. CASE Publish(m)
  BY <1>1 DEF Publish, Position, Serving
<1>2. CASE MarkRunning(m)
  BY <1>0, <1>2, RecordType, MarkType DEF MarkRunning, Position, Serving
<1>3. CASE WaitReturns(m)
  BY <1>3 DEF WaitReturns, Position, Serving
<1>4. CASE StopVm(m)
  BY <1>4 DEF StopVm, Position, Serving
<1>5. CASE MarkStopped(m)
  BY <1>0, <1>5, RecordType, MarkType DEF MarkStopped, Position
<1>6. ASSUME NEW d \in Deferred, RunDeferred(m, d)
      PROVE  TypeOK'
  BY <1>6, RunExchanges DEF RunDeferred
<1>7. CASE CloseDone(m)
  BY <1>7 DEF CloseDone, Position
<1>8. CASE RenewerReturns(m)
  BY <1>8 DEF RenewerReturns
<1>9. CASE HostStep(m)
  BY <1>9 DEF HostStep, VmExits, LeaseExpires, LeaseRenewed, SnapshotCollected, Resource
<1> QED
  BY <1>1, <1>2, <1>3, <1>4, <1>5, <1>6, <1>7, <1>8, <1>9

\* The steps of a DELETE call preserve the types.
LEMMA DeleteType ==
  ASSUME TypeOK, NEW c \in Caller,
         \/ \E m \in Machine : DeleteFinds(c, m)
         \/ DeleteStep(c) \/ DeleteAbandoned(c)
  PROVE  TypeOK'
<1> USE DEF TypeOK, Calling, HangUp, daemonVars, indexVars, runVars, hostVars,
            shutVars
<1>1. ASSUME NEW m \in Machine, DeleteFinds(c, m)
      PROVE  TypeOK'
  BY <1>1 DEF DeleteFinds
<1>2. CASE DeleteCancels(c)
  BY <1>2 DEF DeleteCancels
<1>3. CASE DeleteUnlists(c)
  BY <1>3 DEF DeleteUnlists
<1>4. CASE DeleteAnswers(c)
  BY <1>4, RecordType DEF DeleteAnswers, RemoveState
<1>5. CASE DeleteAbandoned(c)
  BY <1>5 DEF DeleteAbandoned
<1> QED
  BY <1>1, <1>2, <1>3, <1>4, <1>5 DEF DeleteStep

\* Shutdown, the end of the daemon process and Load preserve the types.
LEMMA DaemonType ==
  ASSUME TypeOK, ShutdownStep \/ DaemonEnds \/ DaemonStarts \/ LoadStep
  PROVE  TypeOK'
<1> USE DEF TypeOK, daemonVars, indexVars, runVars, hostVars, callVars, shutVars
<1>1. CASE ShutdownStep
  BY <1>1 DEF ShutdownStep, ShutdownCollects, ShutdownCancels, ShutdownDrained,
              ShutdownExpires
<1>2. CASE DaemonEnds
  <2>1. restarts' \in 0 .. MaxRestarts
    BY <1>2, ConstantsAssumption DEF DaemonEnds
  <2>2. nextCID' \in 0 .. CIDSpace - 1
    BY <1>2, ConstantsAssumption DEF DaemonEnds, FirstCID
  <2>3. pc' \in [Machine -> Position]
    BY <1>2 DEF DaemonEnds, Position
  <2> QED
    BY <1>2, <2>1, <2>2, <2>3, RecordType DEF DaemonEnds
<1>3. CASE DaemonStarts
  BY <1>3 DEF DaemonStarts
<1>4. ASSUME NEW m \in Machine, LoadRecord(m)
      PROVE  TypeOK'
  <2>1. Rehydrated(disk[m]) \in MachineRecord
    BY RecordType
  <2> QED
    BY <1>4, <2>1, MarkType DEF LoadRecord
<1>5. CASE DaemonServes
  BY <1>5 DEF DaemonServes
<1> QED
  BY <1>1, <1>2, <1>3, <1>4, <1>5 DEF LoadStep

\* In every reachable state each variable has the type the code gives it; in
\* particular a DELETE request in progress always knows its machine.
THEOREM TypeCorrect == SafetySpec => []TypeOK
<1>1. Init => TypeOK
  BY ConstantsAssumption, RecordType
  DEF Init, TypeOK, Position, FirstCID
<1>2. TypeOK /\ [Next]_vars => TypeOK'
  <2> SUFFICES ASSUME TypeOK, [Next]_vars
               PROVE  TypeOK'
    OBVIOUS
  <2>1. ASSUME NEW m \in Machine,
               Create(m) \/ RunStep(m) \/ RenewerReturns(m) \/ HostStep(m)
        PROVE  TypeOK'
    BY <2>1, ProvisioningType, ServingType DEF RunStep
  <2>2. ASSUME NEW c \in Caller,
               \/ \E m \in Machine : DeleteFinds(c, m)
               \/ DeleteStep(c) \/ DeleteAbandoned(c)
        PROVE  TypeOK'
    BY <2>2, DeleteType
  <2>3. CASE ShutdownStep \/ DaemonEnds \/ DaemonStarts \/ LoadStep
    BY <2>3, DaemonType
  <2>4. CASE UNCHANGED vars
    BY <2>4 DEF TypeOK, vars
  <2> QED
    BY <2>1, <2>2, <2>3, <2>4 DEF Next
<1> QED
  BY <1>1, <1>2, PTL DEF SafetySpec

-----------------------------------------------------------------------------
(* What one step of run(m) leaves alone: every other machine, the index,   *)
(* the DELETE calls and the history.                                       *)
LEMMA RunStepFrame ==
  ASSUME TypeOK, NEW m \in Machine, RunStep(m)
  PROVE  /\ InFlight(m)
         /\ pc'[m] \notin {"unborn", "dead"}
         /\ \A n \in Machine \ {m} : pc'[n] = pc[n] /\ disk'[n] = disk[n]
         /\ \/ done' = done
            \/ done' = done \cup {m} /\ pc'[m] = "returned"
         /\ UNCHANGED <<daemon, machines, call, deleted>>
<1> DEFINE Frame ==
         /\ InFlight(m)
         /\ pc'[m] \notin {"unborn", "dead"}
         /\ \A n \in Machine \ {m} : pc'[n] = pc[n] /\ disk'[n] = disk[n]
         /\ \/ done' = done
            \/ done' = done \cup {m} /\ pc'[m] = "returned"
         /\ UNCHANGED <<daemon, machines, call, deleted>>
<1> USE DEF TypeOK, InFlight, Goto, Mark, Save, daemonVars, indexVars, callVars
<1>1. CASE AcquireLease(m) \/ Pull(m) \/ PrepareSnapshot(m) \/ AllocateNetwork(m) \/ SkipNetwork(m)
           \/ PrepareRootfs(m)
  BY <1>1 DEF AcquireLease, Pull, PrepareSnapshot, AllocateNetwork, SkipNetwork, PrepareRootfs
<1>2. CASE StartRenewer(m) \/ MakeWorkDir(m) \/ OpenPipes(m) \/ AllocCID(m)
           \/ Boot(m)
  BY <1>2 DEF StartRenewer, MakeWorkDir, OpenPipes, AllocCID, Boot
<1>3. CASE ProvisioningFails(m)
  <2>1. pc[m] \notin {"unborn", "returned", "dead"}
    BY <1>3 DEF ProvisioningFails, Fallible, Provisioning
  <2> QED
    BY <1>3, <2>1 DEF ProvisioningFails
<1>4. CASE Publish(m) \/ MarkRunning(m) \/ WaitReturns(m) \/ StopVm(m)
           \/ MarkStopped(m)
  BY <1>4 DEF Publish, MarkRunning, WaitReturns, StopVm, MarkStopped
<1>5. CASE \E d \in Deferred : RunDeferred(m, d)
  BY <1>5 DEF RunDeferred
<1>6. CASE CloseDone(m)
  BY <1>6 DEF CloseDone
<1> QED
  BY <1>1, <1>2, <1>3, <1>4, <1>5, <1>6 DEF RunStep

\* The steps outside run(), the API and the daemon's life change only the
\* renewer and the host.
LEMMA OutsideFrame ==
  ASSUME NEW m \in Machine, RenewerReturns(m) \/ HostStep(m)
  PROVE  UNCHANGED <<daemon, machines, call, deleted, pc, done, disk>>
BY DEF RenewerReturns, HostStep, VmExits, LeaseExpires, LeaseRenewed, SnapshotCollected,
       daemonVars, indexVars, runVars, callVars

-----------------------------------------------------------------------------
(* The inductive invariant behind NeverUnlistedInFlight and                *)
(* DeletedStaysDeleted: done is closed only for goroutines that are over,  *)
(* an identifier not handed out leaves no trace, a call is in progress     *)
(* only while the daemon serves, and one that has unlisted its machine     *)
(* holds a machine that is over.                                           *)
Over(m) == pc[m] \in {"returned", "dead"}

IndexInv ==
  /\ NeverUnlistedInFlight
  /\ \A m \in done : Over(m)
  /\ \A m \in Machine : pc[m] = "unborn" => disk[m] = Absent /\ m \notin machines
  /\ \A c \in Caller : call[c].at # "idle" => daemon = "up"
  /\ \A c \in Caller : call[c].at = "unlisted" =>
       call[c].m \notin machines /\ Over(call[c].m)

DeletedInv ==
  \A m \in deleted : m \notin machines /\ disk[m] = Absent /\ Over(m)

\* IndexInv, a machine at a time, through the steps of DELETE.
LEMMA DeleteIndex ==
  ASSUME TypeOK, IndexInv, NEW c \in Caller,
         \/ \E m \in Machine : DeleteFinds(c, m)
         \/ DeleteStep(c) \/ DeleteAbandoned(c)
  PROVE  IndexInv'
<1> USE DEF TypeOK, IndexInv, NeverUnlistedInFlight, InFlight, Over, Calling,
            HangUp, daemonVars, indexVars, runVars
<1>1. ASSUME NEW m \in Machine, DeleteFinds(c, m)
      PROVE  IndexInv'
  BY <1>1 DEF DeleteFinds
<1>2. CASE DeleteCancels(c)
  BY <1>2 DEF DeleteCancels
<1>3. CASE DeleteUnlists(c)
  <2>1. call[c].m \in Machine /\ Over(call[c].m) /\ machines' = machines \ {call[c].m}
    BY <1>3 DEF DeleteUnlists
  <2>2. UNCHANGED <<pc, disk, done, daemon>>
    BY <1>3 DEF DeleteUnlists
  <2>3. /\ call'[c].at = "unlisted" /\ call'[c].m = call[c].m
        /\ call[c].at = "waiting"
        /\ \A b \in Caller \ {c} : call'[b] = call[b]
    BY <1>3 DEF DeleteUnlists
  <2> QED
    BY <2>1, <2>2, <2>3
<1>4. CASE DeleteAnswers(c)
  <2>1. /\ UNCHANGED <<pc, machines, done, daemon>>
        /\ \A m \in Machine : disk'[m] \in {disk[m], Absent}
    BY <1>4 DEF DeleteAnswers, RemoveState
  <2>2. /\ call'[c].at = "idle"
        /\ \A b \in Caller \ {c} : call'[b] = call[b]
    BY <1>4 DEF DeleteAnswers
  <2> QED
    BY <2>1, <2>2
<1>5. CASE DeleteAbandoned(c)
  BY <1>5 DEF DeleteAbandoned
<1> QED
  BY <1>1, <1>2, <1>3, <1>4, <1>5 DEF DeleteStep

\* IndexInv through shutdown, the end of the process, and Load.
LEMMA DaemonIndex ==
  ASSUME TypeOK, IndexInv, ShutdownStep \/ DaemonEnds \/ DaemonStarts \/ LoadStep
  PROVE  IndexInv'
<1> USE DEF TypeOK, IndexInv, NeverUnlistedInFlight, InFlight, Over, daemonVars,
            indexVars, runVars, callVars
<1>1. CASE ShutdownStep
  BY <1>1 DEF ShutdownStep, ShutdownCollects, ShutdownCancels, ShutdownDrained,
              ShutdownExpires
<1>2. CASE DaemonEnds
  BY <1>2 DEF DaemonEnds
<1>3. CASE DaemonStarts
  BY <1>3 DEF DaemonStarts
<1>4. ASSUME NEW m \in Machine, LoadRecord(m)
      PROVE  IndexInv'
  <2>1. Over(m)
    <3>1. pc[m] \in Position /\ disk[m] # Absent /\ m \notin machines
      BY <1>4 DEF LoadRecord
    <3> QED
      BY <3>1
  <2>2. /\ UNCHANGED <<pc, call, daemon>>
        /\ daemon = "loading"
        /\ machines' = machines \cup {m} /\ done' = done \cup {m}
        /\ \A n \in Machine \ {m} : disk'[n] = disk[n]
    BY <1>4 DEF LoadRecord, Mark, Save
  <2> QED
    BY <2>1, <2>2
<1>5. CASE DaemonServes
  BY <1>5 DEF DaemonServes
<1> QED
  BY <1>1, <1>2, <1>3, <1>4, <1>5 DEF LoadStep

\* It holds, with the types.
LEMMA IndexInvariant == SafetySpec => []IndexInv
<1>1. Init => IndexInv
  BY DEF Init, IndexInv, NeverUnlistedInFlight, InFlight
<1>2. TypeOK /\ IndexInv /\ [Next]_vars => IndexInv'
  <2> SUFFICES ASSUME TypeOK, IndexInv, [Next]_vars
               PROVE  IndexInv'
    OBVIOUS
  <2>1. ASSUME NEW m \in Machine, Create(m)
        PROVE  IndexInv'
    <3>1. /\ pc[m] = "unborn" /\ pc'[m] = "lease"
          /\ machines' = machines \cup {m}
          /\ \A n \in Machine \ {m} : pc'[n] = pc[n] /\ disk'[n] = disk[n]
          /\ UNCHANGED <<daemon, call, done>>
      BY <2>1 DEF Create, Goto, Mark, Save, TypeOK, daemonVars, callVars
    <3> QED
      BY <3>1 DEF TypeOK, IndexInv, NeverUnlistedInFlight, InFlight, Over
  <2>2. ASSUME NEW m \in Machine, RunStep(m)
        PROVE  IndexInv'
    <3> USE DEF IndexInv, NeverUnlistedInFlight, InFlight, Over
    <3>1. /\ InFlight(m) /\ pc'[m] \notin {"unborn", "dead"}
          /\ \A n \in Machine \ {m} : pc'[n] = pc[n] /\ disk'[n] = disk[n]
          /\ \/ done' = done
             \/ done' = done \cup {m} /\ pc'[m] = "returned"
          /\ UNCHANGED <<daemon, machines, call>>
      BY <2>2, RunStepFrame
    <3>2. \A n \in Machine : Over(n) => n # m /\ Over(n)'
      BY <3>1
    <3>3. \A n \in done' : Over(n)'
      BY <3>1, <3>2 DEF TypeOK
    <3>4. \A c \in Caller : call'[c].at = "unlisted" =>
            call'[c].m \notin machines' /\ Over(call[c].m)'
      BY <3>1, <3>2 DEF TypeOK
    <3>5. NeverUnlistedInFlight'
      BY <3>1
    <3>6. \A n \in Machine :
            pc'[n] = "unborn" => disk'[n] = Absent /\ n \notin machines'
      BY <3>1
    <3> QED
      BY <3>1, <3>3, <3>4, <3>5, <3>6
  <2>3. ASSUME NEW m \in Machine, RenewerReturns(m) \/ HostStep(m)
        PROVE  IndexInv'
    BY <2>3, OutsideFrame DEF IndexInv, NeverUnlistedInFlight, InFlight, Over
  <2>4. ASSUME NEW c \in Caller,
               \/ \E m \in Machine : DeleteFinds(c, m)
               \/ DeleteStep(c) \/ DeleteAbandoned(c)
        PROVE  IndexInv'
    BY <2>4, DeleteIndex
  <2>5. CASE ShutdownStep \/ DaemonEnds \/ DaemonStarts \/ LoadStep
    BY <2>5, DaemonIndex
  <2>6. CASE UNCHANGED vars
    BY <2>6 DEF vars, IndexInv, NeverUnlistedInFlight, InFlight, Over
  <2> QED
    BY <2>1, <2>2, <2>3, <2>4, <2>5, <2>6 DEF Next
<1> QED
  BY <1>1, <1>2, TypeCorrect, PTL DEF SafetySpec

\* A lifecycle goroutine never works for a machine that is not in the index:
\* DELETE unlists a machine only after its run() has returned.
THEOREM GoroutinesAreListed == SafetySpec => []NeverUnlistedInFlight
BY IndexInvariant, PTL DEF IndexInv

\* When no state file resists removal: once a DELETE has answered 204, the
\* machine is in no index, has no state file from which Load could bring it
\* back, and no goroutine works for it; in this daemon process and every later
\* one.
THEOREM DeletedForGood ==
  ASSUME "remove" \notin HostFaults
  PROVE  SafetySpec => []DeletedStaysDeleted
<1>1. Init => DeletedInv
  BY DEF Init, DeletedInv
<1>2. TypeOK /\ IndexInv /\ DeletedInv /\ [Next]_vars => DeletedInv'
  <2> SUFFICES ASSUME TypeOK, IndexInv, DeletedInv, [Next]_vars
               PROVE  DeletedInv'
    OBVIOUS
  <2> USE DEF DeletedInv, Over
  <2>1. ASSUME NEW m \in Machine, Create(m)
        PROVE  DeletedInv'
    <3>1. /\ pc[m] = "unborn" /\ machines' = machines \cup {m}
          /\ \A n \in Machine \ {m} : pc'[n] = pc[n] /\ disk'[n] = disk[n]
          /\ UNCHANGED deleted
      BY <2>1 DEF Create, Goto, Mark, Save, TypeOK, callVars
    <3> QED
      BY <3>1 DEF TypeOK
  <2>2. ASSUME NEW m \in Machine, RunStep(m)
        PROVE  DeletedInv'
    <3>1. /\ InFlight(m)
          /\ \A n \in Machine \ {m} : pc'[n] = pc[n] /\ disk'[n] = disk[n]
          /\ UNCHANGED <<machines, deleted>>
      BY <2>2, RunStepFrame
    <3> QED
      BY <3>1 DEF TypeOK, InFlight
  <2>3. ASSUME NEW m \in Machine, RenewerReturns(m) \/ HostStep(m)
        PROVE  DeletedInv'
    BY <2>3, OutsideFrame
  <2>4. ASSUME NEW c \in Caller, NEW m \in Machine, DeleteFinds(c, m)
        PROVE  DeletedInv'
    BY <2>4 DEF DeleteFinds, indexVars, runVars
  <2>5. ASSUME NEW c \in Caller, DeleteStep(c) \/ DeleteAbandoned(c)
        PROVE  DeletedInv'
    <3>1. CASE DeleteCancels(c) \/ DeleteAbandoned(c)
      BY <3>1 DEF DeleteCancels, DeleteAbandoned, indexVars, runVars
    <3>2. CASE DeleteUnlists(c)
      BY <3>2 DEF DeleteUnlists, runVars
    <3>3. CASE DeleteAnswers(c)
      <4>1. /\ deleted' = deleted \cup {call[c].m}
            /\ disk' = [disk EXCEPT ![call[c].m] = Absent]
            /\ UNCHANGED <<machines, pc>>
        BY <3>3 DEF DeleteAnswers, RemoveState, indexVars, runVars
      <4>2. /\ call[c].m \in Machine /\ call[c].m \notin machines
            /\ Over(call[c].m)
        BY <3>3 DEF DeleteAnswers, TypeOK, IndexInv
      <4> QED
        BY <4>1, <4>2 DEF TypeOK
    <3> QED
      BY <2>5, <3>1, <3>2, <3>3 DEF DeleteStep
  <2>6. CASE ShutdownStep
    BY <2>6 DEF ShutdownStep, ShutdownCollects, ShutdownCancels, ShutdownDrained,
                ShutdownExpires, indexVars, runVars, callVars
  <2>7. CASE DaemonEnds
    BY <2>7 DEF DaemonEnds, TypeOK
  <2>8. CASE DaemonStarts \/ DaemonServes
    BY <2>8 DEF DaemonStarts, DaemonServes, indexVars, runVars, callVars
  <2>9. ASSUME NEW m \in Machine, LoadRecord(m)
        PROVE  DeletedInv'
    <3>1. /\ disk[m] # Absent /\ machines' = machines \cup {m}
          /\ \A n \in Machine \ {m} : disk'[n] = disk[n]
          /\ UNCHANGED <<pc, deleted>>
      BY <2>9 DEF LoadRecord, Mark, Save, TypeOK, runVars, callVars
    <3> QED
      BY <3>1 DEF TypeOK
  <2>10. CASE UNCHANGED vars
    BY <2>10 DEF vars
  <2> QED
    BY <2>1, <2>2, <2>3, <2>4, <2>5, <2>6, <2>7, <2>8, <2>9, <2>10
    DEF Next, LoadStep
<1>3. TypeOK /\ IndexInv /\ DeletedInv => DeletedStaysDeleted
  BY DEF TypeOK, DeletedInv, DeletedStaysDeleted, InFlight, Over
<1> QED
  BY <1>1, <1>2, <1>3, TypeCorrect, IndexInvariant, PTL DEF SafetySpec

-----------------------------------------------------------------------------
(* The inductive invariant behind the properties of a machine's resources: *)
(* what run(m) has deferred follows from where it is, and what it holds    *)
(* follows from what it has deferred.                                      *)

Working(m) == pc[m] \in Provisioning \cup Serving

\* The positions at which run() has not yet deferred a call.
Ahead == [lease    |-> {"lease"},
          snapshot |-> {"lease", "pull", "snapshot"},
          network  |-> {"lease", "pull", "snapshot", "network"},
          renewer  |-> {"lease", "pull", "snapshot", "network", "rootfs", "renewer"},
          workdir  |-> {"lease", "pull", "snapshot", "network", "rootfs", "renewer",
                        "workdir"}]

\* The deferred call that gives a resource back.
Undo == [lease |-> "lease", snapshot |-> "snapshot", ip |-> "network",
         tap |-> "network", workdir |-> "workdir"]

\* Deferred calls are a prefix of the program order, the lease the last to go;
\* without a network nothing is deferred for it.
DeferInv(m) ==
  /\ Working(m) =>
       \A d \in Deferred : d \in defers[m] <=>
                            pc[m] \notin Ahead[d] /\ (d = "network" => Networked)
  /\ ~InFlight(m) => defers[m] = {}
  /\ defers[m] # {} => "lease" \in defers[m]

\* How a resource can be lost before run() releases it: a lease that ran out,
\* a snapshot collected thereafter, a tap removed under the name of another.
LostEarly(m, r) ==
  \/ r \in {"lease", "snapshot"} /\ m \in lapsed
  \/ r = "tap" /\ SharesDevice(m)

\* A resource is held as long as its release is deferred, unless it is lost
\* early, and, while run() works, no longer.
HeldInv(m) ==
  /\ \A r \in Resource : Undo[r] \in defers[m] => r \in held[m] \/ LostEarly(m, r)
  /\ pc[m] = "unborn" => held[m] = {}
  /\ "ip" \in held[m] => "network" \in defers[m]
  /\ Working(m) => \A r \in held[m] : Undo[r] \in defers[m]

\* The renewer runs only while its join is deferred.
RenewerInv(m) ==
  /\ "renewer" \in defers[m] => renewer[m] # "none"
  /\ renewer[m] = "running" => "renewer" \in defers[m]

\* The record follows the position; a file always has a record to load.
RecordInv(m) ==
  /\ pc[m] \in Provisioning \cup {"publish", "markRunning"} => rec[m] = Pending
  /\ pc[m] \in {"wait", "stop", "mark"} => rec[m] = Running(Pending)
  /\ pc[m] \in {"unwind", "returned"} => Terminal(rec[m])
  /\ pc[m] = "dead" /\ m \in machines \cup done => Terminal(rec[m])
  /\ disk[m].status = "absent" => disk[m] = Absent
  /\ daemon # "up" => pc[m] \in {"unborn", "dead"}

\* The process is there once boot has returned, and the console is open from
\* its publication until run() stops the machine.
ServiceInv(m) ==
  /\ pc[m] \in {"unborn"} \cup Provisioning => vm[m] = "none"
  /\ pc[m] \in Serving => vm[m] # "none"
  /\ console[m] = "open" <=> pc[m] \in {"markRunning", "wait", "stop"}
  /\ pc[m] = "mark" => console[m] = "closed"

PlaceInv ==
  \A m \in Machine : /\ DeferInv(m) /\ HeldInv(m) /\ RenewerInv(m)
                     /\ RecordInv(m) /\ ServiceInv(m)

\* A step that leaves machine m alone, except that its tap may go with that of
\* a namesake.
Untouched(m) ==
  /\ pc'[m] = pc[m] /\ defers'[m] = defers[m] /\ renewer'[m] = renewer[m]
  /\ rec'[m] = rec[m] /\ disk'[m] = disk[m] /\ console'[m] = console[m]
  /\ vm'[m] = vm[m] /\ cid'[m] = cid[m]
  /\ \/ held'[m] = held[m]
     \/ held'[m] = held[m] \ {"tap"} /\ SharesDevice(m)
  /\ m \in lapsed' <=> m \in lapsed
  /\ m \in machines' <=> m \in machines
  /\ m \in done' <=> m \in done
  /\ daemon' = daemon

\* A machine that a step does not touch keeps its invariants.
LEMMA UntouchedPlace ==
  ASSUME NEW m \in Machine, Untouched(m),
         DeferInv(m), HeldInv(m), RenewerInv(m), RecordInv(m), ServiceInv(m)
  PROVE  (DeferInv(m) /\ HeldInv(m) /\ RenewerInv(m) /\ RecordInv(m) /\ ServiceInv(m))'
<1> USE DEF Untouched, Working, InFlight
<1>1. DeferInv(m)' /\ RenewerInv(m)' /\ RecordInv(m)' /\ ServiceInv(m)'
  BY DEF DeferInv, RenewerInv, RecordInv, ServiceInv
<1>2. HeldInv(m)'
  BY DEF HeldInv, LostEarly, SharesDevice
<1> QED
  BY <1>1, <1>2

\* A step of one machine's goroutines, or of the host on it, touches no
\* other, but for a tap of the same name.
LEMMA RunLeavesOthers ==
  ASSUME TypeOK, NEW m \in Machine,
         RunStep(m) \/ RenewerReturns(m) \/ HostStep(m) \/ Create(m),
         NEW n \in Machine \ {m}
  PROVE  Untouched(n)
<1> USE DEF TypeOK, Untouched, Goto, Mark, Save, Acquire, daemonVars, indexVars,
            hostVars, callVars, runVars
<1>1. CASE AcquireLease(m) \/ Pull(m) \/ PrepareSnapshot(m) \/ SkipNetwork(m)
           \/ PrepareRootfs(m)
  BY <1>1 DEF AcquireLease, Pull, PrepareSnapshot, SkipNetwork, PrepareRootfs
<1>2. CASE StartRenewer(m) \/ MakeWorkDir(m) \/ OpenPipes(m) \/ AllocCID(m)
           \/ Boot(m)
  BY <1>2 DEF StartRenewer, MakeWorkDir, OpenPipes, AllocCID, Boot
<1>3. CASE AllocateNetwork(m)
  BY <1>3, RunExchanges DEF AllocateNetwork
<1>4. CASE ProvisioningFails(m)
  BY <1>4, RunExchanges DEF ProvisioningFails
<1>5. CASE Publish(m) \/ MarkRunning(m) \/ WaitReturns(m) \/ StopVm(m)
           \/ MarkStopped(m)
  BY <1>5 DEF Publish, MarkRunning, WaitReturns, StopVm, MarkStopped
<1>6. CASE \E d \in Deferred : RunDeferred(m, d)
  BY <1>6, RunExchanges DEF RunDeferred
<1>7. CASE CloseDone(m) \/ RenewerReturns(m) \/ Create(m)
  BY <1>7 DEF CloseDone, RenewerReturns, Create
<1>8. CASE HostStep(m)
  BY <1>8 DEF HostStep, VmExits, LeaseExpires, LeaseRenewed, SnapshotCollected
<1> QED
  BY <1>1, <1>2, <1>3, <1>4, <1>5, <1>6, <1>7, <1>8 DEF RunStep

\* The invariant of machine m, as one name.
MachineInv(m) ==
  DeferInv(m) /\ HeldInv(m) /\ RenewerInv(m) /\ RecordInv(m) /\ ServiceInv(m)

\* A provisioning step that fails leaves what its machine holds as it was, or has
\* taken effect, or, in the network, has left a device or removed one.
LEMMA FailedAllocate ==
  ASSUME TypeOK, NEW m \in Machine, ProvisioningFails(m)
  PROVE  \/ held'[m] = held[m]
         \/ pc[m] \in {"lease", "snapshot"} /\ held'[m] = held[m] \cup {pc[m]}
         \/ /\ pc[m] = "network"
            /\ held'[m] \subseteq held[m] \cup {"tap"}
            /\ held[m] \ {"tap"} \subseteq held'[m]
            /\ "release" \notin HostFaults => held'[m] \subseteq held[m]
<1>1. \/ held' = held
      \/ pc[m] \in {"lease", "snapshot"} /\ held' = [held EXCEPT ![m] = @ \cup {pc[m]}]
      \/ /\ pc[m] = "network"
         /\ \E left \in SUBSET (IF "release" \in HostFaults THEN {"tap"} ELSE {}) :
              Exchange(m, left, {"tap"})
  BY DEF ProvisioningFails
<1>2. ASSUME pc[m] = "network",
             NEW left \in SUBSET (IF "release" \in HostFaults THEN {"tap"} ELSE {}),
             Exchange(m, left, {"tap"})
      PROVE  /\ held'[m] \subseteq held[m] \cup {"tap"}
             /\ held[m] \ {"tap"} \subseteq held'[m]
             /\ "release" \notin HostFaults => held'[m] \subseteq held[m]
  <2>1. held'[m] = (held[m] \ {"tap"}) \cup left
    BY <1>2, ExchangedSelf
  <2> QED
    BY <2>1
<1> QED
  BY <1>1, <1>2 DEF TypeOK

\* Provisioning keeps the invariant of the machine it works for.
LEMMA ProvisioningPlace ==
  ASSUME TypeOK, NEW m \in Machine, MachineInv(m), IndexInv,
         \/ Create(m) \/ AcquireLease(m) \/ Pull(m) \/ PrepareSnapshot(m)
         \/ AllocateNetwork(m) \/ SkipNetwork(m) \/ PrepareRootfs(m) \/ StartRenewer(m)
         \/ MakeWorkDir(m) \/ OpenPipes(m) \/ AllocCID(m) \/ Boot(m)
         \/ ProvisioningFails(m)
  PROVE  MachineInv(m)'
<1> USE DEF TypeOK, MachineInv, DeferInv, HeldInv, RenewerInv, RecordInv, ServiceInv,
            Working, InFlight, Goto, Acquire, Mark, Save, Provisioning, Serving,
            Deferred, Resource, Ahead, Undo, LostEarly, daemonVars, indexVars,
            hostVars
<1>1. CASE Create(m)
  <2>1. /\ pc[m] = "unborn" /\ pc'[m] = "lease" /\ daemon' = "up"
        /\ rec'[m] = Pending
        /\ disk'[m] = Pending \/ disk'[m] = disk[m]
        /\ UNCHANGED <<defers, renewer, console, held, vm>>
    BY <1>1 DEF Create
  <2>2. DeferInv(m)' /\ HeldInv(m)' /\ RenewerInv(m)'
    BY <2>1
  <2>3. RecordInv(m)' /\ ServiceInv(m)'
    BY <2>1 DEF Pending
  <2> QED
    BY <2>2, <2>3
<1>2. CASE AcquireLease(m)
  BY <1>2 DEF AcquireLease
<1>3. CASE Pull(m)
  BY <1>3 DEF Pull
<1>4. CASE PrepareSnapshot(m)
  BY <1>4 DEF PrepareSnapshot
<1>5. CASE AllocateNetwork(m)
  <2>1. Exchange(m, {"ip", "tap"}, {"tap"})
    BY <1>5 DEF AllocateNetwork
  <2>2. held'[m] = held[m] \cup {"ip", "tap"}
    BY <2>1, ExchangedSelf
  <2>3. /\ pc[m] = "network" /\ pc'[m] = "rootfs" /\ Networked
        /\ defers'[m] = defers[m] \cup {"network"}
        /\ UNCHANGED <<daemon, lapsed, machines, rec, done, console, renewer, disk, vm>>
    BY <1>5 DEF AllocateNetwork
  <2>4. DeferInv(m)' /\ HeldInv(m)'
    BY <2>2, <2>3
  <2>5. RenewerInv(m)' /\ RecordInv(m)' /\ ServiceInv(m)'
    BY <2>3
  <2> QED
    BY <2>4, <2>5
<1>6. CASE SkipNetwork(m) \/ PrepareRootfs(m)
  BY <1>6 DEF SkipNetwork, PrepareRootfs
<1>7. CASE StartRenewer(m)
  BY <1>7 DEF StartRenewer
<1>8. CASE MakeWorkDir(m)
  BY <1>8 DEF MakeWorkDir
<1>9. CASE OpenPipes(m)
  BY <1>9 DEF OpenPipes
<1>10. CASE AllocCID(m)
  BY <1>10 DEF AllocCID
<1>11. CASE Boot(m)
  BY <1>11 DEF Boot
<1>12. CASE ProvisioningFails(m)
  <2>1. /\ pc[m] \in Fallible /\ pc'[m] = "unwind"
        /\ rec'[m] = Failed(rec[m])
        /\ disk'[m] = Failed(rec[m]) \/ disk'[m] = disk[m]
        /\ UNCHANGED <<daemon, lapsed, machines, done, defers, renewer, console>>
        /\ vm'[m] = vm[m] \/ (pc[m] = "boot" /\ vm'[m] = "up")
    BY <1>12 DEF ProvisioningFails
  <2>5. \/ held'[m] = held[m]
        \/ pc[m] \in {"lease", "snapshot"} /\ held'[m] = held[m] \cup {pc[m]}
        \/ /\ pc[m] = "network"
           /\ held'[m] \subseteq held[m] \cup {"tap"}
           /\ held[m] \ {"tap"} \subseteq held'[m]
    BY <1>12, FailedAllocate
  <2>2. Failed(rec[m]).status = "failed"
    BY DEF Failed, MachineRecord
  <2>3. DeferInv(m)' /\ HeldInv(m)' /\ RenewerInv(m)'
    <3>1. "tap" \in held[m] => pc[m] # "network"
      BY <2>1
    <3> QED
      BY <2>1, <2>5, <3>1 DEF Fallible
  <2>4. RecordInv(m)' /\ ServiceInv(m)'
    BY <2>1, <2>2 DEF Terminal, Fallible
  <2> QED
    BY <2>3, <2>4
<1> QED
  BY <1>1, <1>2, <1>3, <1>4, <1>5, <1>6, <1>7, <1>8, <1>9, <1>10, <1>11, <1>12

\* What a deferred call takes from its machine: only what it gives back, and
\* all of that, but for what a failure or an open device makes stay.
LEMMA DeferredFrees ==
  ASSUME TypeOK, NEW m \in Machine, NEW d \in Deferred, RunDeferred(m, d)
  PROVE  /\ held'[m] \subseteq held[m]
         /\ \A r \in held[m] : Undo[r] # d => r \in held'[m]
         /\ d = "network" => "ip" \notin held'[m]
         /\ "release" \notin HostFaults => \A r \in Resource :
              Undo[r] = d => r \notin held'[m] \/ (r = "snapshot" /\ vm[m] = "up")
<1>1. PICK kept \in MayStay(m, d) : Exchange(m, {}, Frees[d] \ kept)
  BY DEF RunDeferred
<1>2. held'[m] = (held[m] \ (Frees[d] \ kept)) \cup {}
  BY <1>1, ExchangedSelf
<1>3. held[m] \subseteq Resource
  BY DEF TypeOK
<1> QED
  BY <1>1, <1>2, <1>3 DEF MayStay, Frees, Undo, Resource, Deferred

\* Serving, stopping and unwinding keep it, and so do the renewer and the host.
LEMMA ServingPlace ==
  ASSUME TypeOK, NEW m \in Machine, MachineInv(m), IndexInv,
         \/ Publish(m) \/ MarkRunning(m) \/ WaitReturns(m) \/ StopVm(m)
         \/ MarkStopped(m) \/ (\E d \in Deferred : RunDeferred(m, d))
         \/ CloseDone(m) \/ RenewerReturns(m) \/ HostStep(m)
  PROVE  MachineInv(m)'
<1> USE DEF TypeOK, MachineInv, DeferInv, HeldInv, RenewerInv, RecordInv, ServiceInv,
            Working, InFlight, Goto, Mark, Save, Provisioning, Serving,
            Deferred, Resource, Ahead, Undo, LostEarly, daemonVars, indexVars,
            hostVars, runVars
<1>0. rec[m] \in MachineRecord
  OBVIOUS
<1>1. CASE Publish(m)
  BY <1>1 DEF Publish
<1>2. CASE MarkRunning(m)
  <2>1. /\ pc[m] = "markRunning" /\ pc'[m] = "wait"
        /\ rec'[m] = Running(rec[m])
        /\ disk'[m] = Running(rec[m]) \/ disk'[m] = disk[m]
        /\ UNCHANGED <<daemon, lapsed, machines, done, defers, renewer, console, held,
                       vm>>
    BY <1>2 DEF MarkRunning
  <2>2. Running(rec[m]).status = "running"
    BY <1>0 DEF Running, MachineRecord
  <2>3. DeferInv(m)' /\ HeldInv(m)' /\ RenewerInv(m)'
    BY <2>1
  <2>4. RecordInv(m)' /\ ServiceInv(m)'
    BY <2>1, <2>2
  <2> QED
    BY <2>3, <2>4
<1>3. CASE WaitReturns(m)
  BY <1>3 DEF WaitReturns
<1>4. CASE StopVm(m)
  BY <1>4 DEF StopVm
<1>5. CASE MarkStopped(m)
  <2>1. PICK r \in {Failed(rec[m]), Exited(rec[m])} :
          /\ rec'[m] = r
          /\ disk'[m] = r \/ disk'[m] = disk[m]
    BY <1>5 DEF MarkStopped
  <2>2. r.status \in {"exited", "failed"}
    BY <1>0 DEF Failed, Exited, MachineRecord
  <2>3. /\ pc[m] = "mark" /\ pc'[m] = "unwind"
        /\ UNCHANGED <<daemon, lapsed, machines, done, defers, renewer, console, held,
                       vm>>
    BY <1>5 DEF MarkStopped
  <2>4. DeferInv(m)' /\ HeldInv(m)' /\ RenewerInv(m)'
    BY <2>3
  <2>5. RecordInv(m)' /\ ServiceInv(m)'
    BY <2>1, <2>2, <2>3 DEF Terminal
  <2> QED
    BY <2>4, <2>5
<1>6. ASSUME NEW d \in Deferred, RunDeferred(m, d)
      PROVE  MachineInv(m)'
  <2>1. /\ pc[m] = "unwind" /\ d \in defers[m]
        /\ \A e \in defers[m] : DeferRank[e] <= DeferRank[d]
        /\ d = "renewer" => renewer[m] = "stopped"
        /\ defers'[m] = defers[m] \ {d}
        /\ UNCHANGED <<daemon, lapsed, machines, done, pc, rec, disk, renewer,
                       console, vm>>
    BY <1>6 DEF RunDeferred, IsLastDeferred
  <2>2. /\ \A r \in held[m] : Undo[r] # d => r \in held'[m]
        /\ held'[m] \subseteq held[m]
        /\ d = "network" => "ip" \notin held'[m]
    BY <1>6, DeferredFrees
  <2>3. DeferInv(m)'
    <3>1. d = "lease" => defers[m] = {"lease"}
      BY <2>1 DEF DeferRank
    <3> QED
      BY <2>1, <3>1
  <2>4. HeldInv(m)' /\ RenewerInv(m)'
    BY <2>1, <2>2
  <2>5. RecordInv(m)' /\ ServiceInv(m)'
    BY <2>1
  <2> QED
    BY <2>3, <2>4, <2>5
<1>7. CASE CloseDone(m)
  BY <1>7 DEF CloseDone
<1>8. CASE RenewerReturns(m)
  BY <1>8 DEF RenewerReturns
<1>9. CASE VmExits(m)
  BY <1>9 DEF VmExits
<1>10. CASE LeaseExpires(m)
  <2>1. /\ held'[m] = held[m] \ {"lease"}
        /\ InFlight(m) => m \in lapsed'
        /\ lapsed \subseteq lapsed'
        /\ UNCHANGED <<daemon, machines, done, pc, defers, rec, disk, renewer,
                       console, vm>>
    BY <1>10 DEF LeaseExpires
  <2> QED
    BY <2>1
<1>11. CASE LeaseRenewed(m)
  <2>1. /\ renewer[m] = "running" /\ held'[m] = held[m] \cup {"lease"}
        /\ UNCHANGED <<daemon, lapsed, machines, done, pc, defers, rec, disk, renewer,
                       console, vm>>
    BY <1>11 DEF LeaseRenewed
  <2>2. "lease" \in defers[m] /\ pc[m] # "unborn"
    BY <2>1
  <2> QED
    BY <2>1, <2>2
<1>12. CASE SnapshotCollected(m)
  <2>1. "snapshot" \in defers[m] => m \in lapsed
    BY <1>12 DEF SnapshotCollected
  <2> QED
    BY <1>12, <2>1 DEF SnapshotCollected
<1> QED
  BY <1>1, <1>2, <1>3, <1>4, <1>5, <1>6, <1>7, <1>8, <1>9, <1>10, <1>11, <1>12
  DEF HostStep

\* The API calls and Shutdown change nothing of it but the list of machines.
LEMMA CallsPlace ==
  ASSUME TypeOK, IndexInv, NEW m \in Machine, MachineInv(m),
         \/ \E c \in Caller : \/ \E n \in Machine : DeleteFinds(c, n)
                              \/ DeleteStep(c) \/ DeleteAbandoned(c)
         \/ ShutdownStep
  PROVE  MachineInv(m)'
<1> DEFINE Frame ==
      /\ UNCHANGED <<pc, defers, renewer, rec, console, held, vm, done, daemon,
                     lapsed>>
      /\ machines' \subseteq machines
      /\ disk'[m] = disk[m] \/ disk'[m] = Absent
<1>1. Frame
  <2> USE DEF daemonVars, indexVars, runVars, hostVars, TypeOK
  <2>1. ASSUME NEW c \in Caller, NEW n \in Machine, DeleteFinds(c, n)
        PROVE  Frame
    BY <2>1 DEF DeleteFinds
  <2>2. ASSUME NEW c \in Caller, DeleteStep(c) \/ DeleteAbandoned(c)
        PROVE  Frame
    BY <2>2 DEF DeleteStep, DeleteAbandoned, DeleteCancels, DeleteUnlists,
                DeleteAnswers, RemoveState
  <2>3. CASE ShutdownStep
    BY <2>3 DEF ShutdownStep, ShutdownCollects, ShutdownCancels, ShutdownDrained,
                ShutdownExpires
  <2> QED
    BY <2>1, <2>2, <2>3
<1> QED
  BY <1>1 DEF MachineInv, DeferInv, HeldInv, RenewerInv, RecordInv, ServiceInv,
              Working, InFlight, LostEarly

\* The end of the process, its restart and Load keep it.
LEMMA DaemonPlace ==
  ASSUME TypeOK, IndexInv, NEW m \in Machine, MachineInv(m),
         DaemonEnds \/ DaemonStarts \/ LoadStep
  PROVE  MachineInv(m)'
<1> USE DEF TypeOK, MachineInv, DeferInv, HeldInv, RenewerInv, RecordInv, ServiceInv,
            Working, InFlight, LostEarly, Provisioning, Serving, daemonVars,
            indexVars, hostVars, runVars
<1>1. CASE DaemonEnds
  <2>1. /\ (pc'[m] = "unborn" /\ pc[m] = "unborn") \/ pc'[m] = "dead"
        /\ defers'[m] = {} /\ renewer'[m] = "none" /\ console'[m] = "nil"
        /\ held'[m] = held[m] \ {"ip"}
        /\ machines' = {} /\ done' = {}
        /\ UNCHANGED <<disk, vm>>
    BY <1>1 DEF DaemonEnds
  <2> QED
    BY <2>1
<1>2. CASE DaemonStarts
  BY <1>2 DEF DaemonStarts
<1>3. ASSUME NEW n \in Machine, LoadRecord(n)
      PROVE  MachineInv(m)'
  <2>1. CASE n # m
    BY <1>3, <2>1 DEF LoadRecord, Mark, Save
  <2>2. CASE n = m
    <3>1. /\ daemon = "loading" /\ disk[m] # Absent
          /\ rec'[m] = Rehydrated(disk[m])
          /\ disk'[m] = Rehydrated(disk[m]) \/ disk'[m] = disk[m]
          /\ UNCHANGED <<daemon, lapsed, pc, defers, renewer, console, vm>>
          /\ held'[m] = held[m] \/ held'[m] = held[m] \ {"workdir"}
      BY <1>3, <2>2 DEF LoadRecord, Mark, Save
    <3>2. Terminal(Rehydrated(disk[m]))
      BY <3>1 DEF MachineRecord, Status, Terminal, Rehydrated, Failed
    <3>3. pc[m] = "dead"
      BY <3>1 DEF IndexInv
    <3> QED
      BY <3>1, <3>2, <3>3 DEF Terminal
  <2> QED
    BY <2>1, <2>2
<1>4. CASE DaemonServes
  BY <1>4 DEF DaemonServes
<1> QED
  BY <1>1, <1>2, <1>3, <1>4 DEF LoadStep

\* Where a goroutine is determines what it has deferred, what it holds, and
\* what its record, its console and its process are.
LEMMA PlaceInvariant == SafetySpec => []PlaceInv
<1>1. Init => PlaceInv
  BY DEF Init, PlaceInv, DeferInv, HeldInv, RenewerInv, RecordInv, ServiceInv,
         Working, InFlight, Provisioning, Serving, Absent
<1>2. TypeOK /\ IndexInv /\ PlaceInv /\ [Next]_vars => PlaceInv'
  <2> SUFFICES ASSUME TypeOK, IndexInv, PlaceInv, [Next]_vars, NEW m \in Machine
               PROVE  MachineInv(m)'
    BY DEF PlaceInv, MachineInv
  <2>0. MachineInv(m)
    BY DEF PlaceInv, MachineInv
  <2>1. ASSUME NEW n \in Machine,
               Create(n) \/ RunStep(n) \/ RenewerReturns(n) \/ HostStep(n)
        PROVE  MachineInv(m)'
    <3>1. CASE n = m
      BY <2>0, <2>1, <3>1, ProvisioningPlace, ServingPlace DEF RunStep
    <3>2. CASE n # m
      <4>1. Untouched(m)
        BY <2>1, <3>2, RunLeavesOthers
      <4> QED
        BY <2>0, <4>1, UntouchedPlace DEF MachineInv
    <3> QED
      BY <3>1, <3>2
  <2>2. ASSUME NEW c \in Caller,
               \/ \E n \in Machine : DeleteFinds(c, n)
               \/ DeleteStep(c) \/ DeleteAbandoned(c)
        PROVE  MachineInv(m)'
    BY <2>0, <2>2, CallsPlace
  <2>3. CASE ShutdownStep
    BY <2>0, <2>3, CallsPlace
  <2>4. CASE DaemonEnds \/ DaemonStarts \/ LoadStep
    BY <2>0, <2>4, DaemonPlace
  <2>5. CASE UNCHANGED vars
    <3>1. Untouched(m)
      BY <2>5 DEF vars, Untouched
    <3> QED
      BY <2>0, <3>1, UntouchedPlace DEF MachineInv
  <2> QED
    BY <2>1, <2>2, <2>3, <2>4, <2>5 DEF Next
<1> QED
  BY <1>1, <1>2, TypeCorrect, IndexInvariant, PTL DEF SafetySpec

\* A machine whose record says running has all that the API hands out and all
\* that backs it on the host: console, process, renewer, work directory, IP and
\* tap where there is a network, lease and snapshot; the last two can be gone
\* only after a lease ran out under run(), the tap only to a machine whose
\* device has the same name.  They are written outside the record's lock.
THEOREM RunningMeansBacked == SafetySpec => []RunningIsBacked
<1>1. TypeOK /\ IndexInv /\ PlaceInv => RunningIsBacked
  <2> SUFFICES ASSUME TypeOK, IndexInv, PlaceInv, NEW m \in machines,
                      rec[m].status = "running"
               PROVE  /\ console[m] # "nil" /\ vm[m] # "none" /\ renewer[m] # "none"
                      /\ "workdir" \in held[m]
                      /\ {"lease", "snapshot"} \subseteq held[m] \/ m \in lapsed
                      /\ Networked =>
                           "ip" \in held[m] /\ ("tap" \in held[m] \/ SharesDevice(m))
    BY DEF RunningIsBacked
  <2>1. m \in Machine /\ pc[m] \in Position /\ held[m] \subseteq Resource
    BY DEF TypeOK
  <2>2. DeferInv(m) /\ HeldInv(m) /\ RenewerInv(m) /\ RecordInv(m) /\ ServiceInv(m)
    BY <2>1 DEF PlaceInv
  <2>3. pc[m] \in {"wait", "stop", "mark"}
    BY <2>1, <2>2 DEF RecordInv, Position, Serving, Pending, Terminal, IndexInv
  <2>4. /\ Deferred \ {"network"} \subseteq defers[m]
        /\ Networked => "network" \in defers[m]
    BY <2>2, <2>3 DEF DeferInv, Working, Serving, Deferred, Ahead
  <2>5. /\ \A r \in {"lease", "snapshot", "workdir"} : r \in held[m] \/ LostEarly(m, r)
        /\ Networked => \A r \in {"ip", "tap"} : r \in held[m] \/ LostEarly(m, r)
        /\ renewer[m] # "none"
    BY <2>2, <2>4 DEF HeldInv, RenewerInv, Resource, Undo, Deferred
  <2> QED
    BY <2>1, <2>2, <2>3, <2>5 DEF ServiceInv, Serving, LostEarly
<1> QED
  BY <1>1, TypeCorrect, IndexInvariant, PlaceInvariant, PTL

\* When done is closed the machine is marked exited or failed, its goroutine
\* has returned, its IP is free, its renewer has been joined and its console
\* is closed: what DELETE and Shutdown rely on when they wait for done.
THEOREM DoneIsFinished == SafetySpec => []DoneMeansFinished
<1>1. TypeOK /\ IndexInv /\ PlaceInv => DoneMeansFinished
  BY DEF TypeOK, IndexInv, PlaceInv, DoneMeansFinished, Over, DeferInv, HeldInv,
         RenewerInv, RecordInv, ServiceInv, InFlight
<1> QED
  BY <1>1, TypeCorrect, IndexInvariant, PlaceInvariant, PTL

\* run() never gives its lease up before its snapshot, wherever it stops and
\* unwinds and whatever releases fail: a snapshot it holds is under its lease
\* unless that lease has run out under it.
THEOREM LeaseIsLastToGo == SafetySpec => []LeaseOutlivesSnapshot
<1>1. TypeOK /\ PlaceInv => LeaseOutlivesSnapshot
  <2> SUFFICES ASSUME TypeOK, PlaceInv, NEW m \in Machine, InFlight(m), m \notin lapsed,
                      "snapshot" \in held[m], "lease" \notin held[m]
               PROVE  pc[m] = "unwind" /\ defers[m] = {}
    BY DEF LeaseOutlivesSnapshot
  <2>1. DeferInv(m) /\ HeldInv(m)
    BY DEF PlaceInv
  <2>2. defers[m] = {}
    BY <2>1 DEF DeferInv, HeldInv, LostEarly, Resource, Undo
  <2>3. ~Working(m)
    BY <2>1, <2>2 DEF HeldInv
  <2> QED
    BY <2>2, <2>3 DEF Working, InFlight, TypeOK, Position
<1> QED
  BY <1>1, TypeCorrect, PlaceInvariant, PTL

-----------------------------------------------------------------------------
(* What is left on the host, when releasing it does not fail.              *)

\* The Create of the first lease failed and yet made one.
Stray(m) ==
  held[m] = {"lease"} /\ defers[m] = {} /\ vm[m] = "none" /\ rec[m] = Failed(Pending)

\* From the moment it unwinds, a machine holds what is still to be released,
\* and perhaps a snapshot, or else a stray lease.
ReleasedInv(m) ==
  pc[m] \in {"unwind", "returned"} =>
    \/ Stray(m)
    \/ /\ \A r \in held[m] : r = "snapshot" \/ Undo[r] \in defers[m]
       /\ "snapshot" \in held[m] /\ "snapshot" \notin defers[m] =>
            vm[m] # "none" \/ rec[m] = Failed(Pending)

\* It is kept by the machine's own steps: each release takes out what it
\* gives back.
LEMMA UnwindReleased ==
  ASSUME TypeOK, NEW m \in Machine, MachineInv(m), ReleasedInv(m), IndexInv,
         "release" \notin HostFaults,
         Create(m) \/ RunStep(m) \/ RenewerReturns(m) \/ HostStep(m)
  PROVE  ReleasedInv(m)'
<1> USE DEF TypeOK, ReleasedInv, Goto, daemonVars, indexVars, hostVars, runVars
<1>1. CASE Create(m) \/ AcquireLease(m) \/ Pull(m) \/ PrepareSnapshot(m)
           \/ AllocateNetwork(m) \/ SkipNetwork(m) \/ PrepareRootfs(m) \/ StartRenewer(m)
           \/ MakeWorkDir(m) \/ OpenPipes(m) \/ AllocCID(m) \/ Boot(m)
           \/ Publish(m) \/ MarkRunning(m) \/ WaitReturns(m) \/ StopVm(m)
  BY <1>1 DEF Create, AcquireLease, Pull, PrepareSnapshot, AllocateNetwork, SkipNetwork,
     PrepareRootfs, StartRenewer, MakeWorkDir, OpenPipes, AllocCID, Boot, Publish,
     MarkRunning, WaitReturns, StopVm
<1>2. CASE ProvisioningFails(m)
  <2>1. /\ pc[m] \in Provisioning
        /\ rec'[m] = Failed(rec[m])
        /\ pc[m] = "lease" => vm'[m] = vm[m]
        /\ UNCHANGED defers
    BY <1>2 DEF ProvisioningFails, Mark, Fallible
  <2>2. /\ rec[m] = Pending /\ \A r \in held[m] : Undo[r] \in defers[m]
        /\ pc[m] = "lease" => held[m] = {} /\ defers[m] = {} /\ vm[m] = "none"
    <3>1. rec[m] = Pending /\ \A r \in held[m] : Undo[r] \in defers[m]
      BY <2>1 DEF MachineInv, RecordInv, HeldInv, Working
    <3>2. pc[m] = "lease" => defers[m] = {} /\ vm[m] = "none"
      BY <2>1 DEF MachineInv, DeferInv, Working, Ahead, ServiceInv, Deferred
    <3> QED
      BY <3>1, <3>2
  <2>3. \/ held'[m] \subseteq held[m] \cup {"snapshot"}
        \/ pc[m] = "lease" /\ held'[m] = held[m] \cup {"lease"}
    BY <1>2, FailedAllocate
  <2> QED
    BY <2>1, <2>2, <2>3 DEF Stray
<1>3. CASE MarkStopped(m)
  <2>1. pc[m] = "mark" /\ UNCHANGED <<held, vm, defers>>
    BY <1>3 DEF MarkStopped
  <2>2. vm[m] # "none" /\ \A r \in held[m] : Undo[r] \in defers[m]
    BY <2>1 DEF MachineInv, ServiceInv, HeldInv, Working, Serving
  <2> QED
    BY <2>1, <2>2
<1>4. ASSUME NEW d \in Deferred, RunDeferred(m, d)
      PROVE  ReleasedInv(m)'
  <2>1. /\ pc[m] = "unwind" /\ d \in defers[m]
        /\ defers'[m] = defers[m] \ {d}
        /\ UNCHANGED <<rec, vm>>
    BY <1>4 DEF RunDeferred, IsLastDeferred
  <2>2. /\ held'[m] \subseteq held[m]
        /\ \A r \in Resource : Undo[r] = d => r \notin held'[m] \/ (r = "snapshot" /\ vm[m] = "up")
    BY <1>4, DeferredFrees
  <2> QED
    BY <2>1, <2>2 DEF Stray, Undo, Resource
<1>5. CASE CloseDone(m)
  BY <1>5 DEF CloseDone, Stray
<1>6. CASE RenewerReturns(m)
  BY <1>6 DEF RenewerReturns, Stray
<1>7. CASE LeaseRenewed(m)
  <2>1. /\ renewer[m] = "running" /\ held'[m] = held[m] \cup {"lease"}
        /\ UNCHANGED <<pc, defers, vm, rec>>
    BY <1>7 DEF LeaseRenewed
  <2>2. Undo["lease"] \in defers[m]
    BY <2>1 DEF MachineInv, RenewerInv, DeferInv, Undo
  <2> QED
    BY <2>1, <2>2 DEF Stray
<1>8. CASE VmExits(m) \/ LeaseExpires(m) \/ SnapshotCollected(m)
  <2>1. /\ held'[m] \subseteq held[m] /\ UNCHANGED <<pc, defers, rec>>
        /\ vm'[m] = vm[m] \/ (vm[m] = "up" /\ vm'[m] = "gone" /\ held' = held)
    BY <1>8 DEF VmExits, LeaseExpires, SnapshotCollected
  <2> QED
    BY <2>1 DEF Stray
<1> QED
  BY <1>1, <1>2, <1>3, <1>4, <1>5, <1>6, <1>7, <1>8 DEF RunStep, HostStep

\* When releasing a resource does not fail, what remains of a machine whose
\* goroutine has returned is at most its snapshot, and only when a process was
\* started, which can have the device open, or when provisioning failed; or a
\* stray lease, made by a Create that reported an error.
THEOREM ReturnedIsReleased ==
  ASSUME "release" \notin HostFaults
  PROVE  SafetySpec => []ReturnedMeansReleased
<1> DEFINE Inv == \A m \in Machine : ReleasedInv(m)
<1>1. Init => Inv
  BY DEF Init, ReleasedInv
<1>2. TypeOK /\ IndexInv /\ PlaceInv /\ Inv /\ [Next]_vars => Inv'
  <2> SUFFICES ASSUME TypeOK, IndexInv, PlaceInv, Inv, [Next]_vars, NEW m \in Machine
               PROVE  ReleasedInv(m)'
    OBVIOUS
  <2> USE DEF ReleasedInv, Stray
  <2>1. ASSUME NEW n \in Machine,
               Create(n) \/ RunStep(n) \/ RenewerReturns(n) \/ HostStep(n)
        PROVE  ReleasedInv(m)'
    <3>1. CASE n = m
      <4>1. MachineInv(m) /\ ReleasedInv(m)
        BY DEF PlaceInv, MachineInv
      <4> QED
        BY <2>1, <3>1, <4>1, UnwindReleased
    <3>2. CASE n # m
      <4>1. Untouched(m)
        BY <2>1, <3>2, RunLeavesOthers
      <4> QED
        BY <4>1 DEF Untouched
    <3> QED
      BY <3>1, <3>2
  <2>2. ASSUME NEW c \in Caller,
               \/ \E n \in Machine : DeleteFinds(c, n)
               \/ DeleteStep(c) \/ DeleteAbandoned(c)
        PROVE  ReleasedInv(m)'
    BY <2>2 DEF DeleteFinds, DeleteStep, DeleteAbandoned, DeleteCancels,
       DeleteUnlists, DeleteAnswers, indexVars, runVars, hostVars
  <2>3. CASE ShutdownStep
    BY <2>3 DEF ShutdownStep, ShutdownCollects, ShutdownCancels, ShutdownDrained,
       ShutdownExpires, indexVars, runVars, hostVars
  <2>4. CASE DaemonEnds
    BY <2>4 DEF DaemonEnds
  <2>5. CASE DaemonStarts \/ DaemonServes
    BY <2>5 DEF DaemonStarts, DaemonServes, indexVars, runVars, hostVars
  <2>6. ASSUME NEW n \in Machine, LoadRecord(n)
        PROVE  ReleasedInv(m)'
    <3>1. daemon = "loading" /\ pc' = pc
      BY <2>6 DEF LoadRecord, runVars
    <3> QED
      BY <3>1 DEF PlaceInv, RecordInv
  <2>7. CASE UNCHANGED vars
    BY <2>7 DEF vars
  <2> QED
    BY <2>1, <2>2, <2>3, <2>4, <2>5, <2>6, <2>7 DEF Next, LoadStep
<1>3. TypeOK /\ PlaceInv /\ Inv => ReturnedMeansReleased
  BY DEF TypeOK, PlaceInv, DeferInv, InFlight, ReleasedInv, Stray, ReturnedMeansReleased
<1> QED
  BY <1>1, <1>2, <1>3, TypeCorrect, IndexInvariant, PlaceInvariant, PTL
  DEF SafetySpec

-----------------------------------------------------------------------------
(* Shutdown.                                                               *)

DrainInv == shut = "drained" => draining \subseteq done

\* When Shutdown returns because everything it collected is done, each of
\* those machines has stopped and its goroutine has returned.
THEOREM DrainedIsStopped == SafetySpec => []DrainedMeansStopped
<1>1. Init => DrainInv
  BY DEF Init, DrainInv
<1>2. DrainInv /\ [Next]_vars => DrainInv'
  <2> SUFFICES ASSUME DrainInv, [Next]_vars
               PROVE  DrainInv'
    OBVIOUS
  <2> USE DEF DrainInv
  <2>1. CASE DaemonEnds
    BY <2>1 DEF DaemonEnds
  <2>2. CASE ShutdownStep
    BY <2>2 DEF ShutdownStep, ShutdownCollects, ShutdownCancels, ShutdownDrained,
                ShutdownExpires
  <2>3. CASE UNCHANGED shutVars /\ done \subseteq done'
    BY <2>3 DEF shutVars
  <2>4. \/ DaemonEnds \/ ShutdownStep
        \/ UNCHANGED shutVars /\ done \subseteq done'
    <3>1. ASSUME NEW m \in Machine,
                 Create(m) \/ RunStep(m) \/ RenewerReturns(m) \/ HostStep(m)
          PROVE  UNCHANGED shutVars /\ done \subseteq done'
      BY <3>1 DEF Create, RunStep, AcquireLease, Pull, PrepareSnapshot,
         AllocateNetwork, SkipNetwork, PrepareRootfs, StartRenewer, MakeWorkDir, OpenPipes,
         AllocCID, Boot, ProvisioningFails, Publish, MarkRunning, WaitReturns,
         StopVm, MarkStopped, RunDeferred, CloseDone, RenewerReturns, HostStep,
         VmExits, LeaseExpires, LeaseRenewed, SnapshotCollected
    <3>2. ASSUME NEW c \in Caller,
                 \/ \E m \in Machine : DeleteFinds(c, m)
                 \/ DeleteStep(c) \/ DeleteAbandoned(c)
          PROVE  UNCHANGED shutVars /\ done \subseteq done'
      BY <3>2 DEF DeleteFinds, DeleteStep, DeleteAbandoned, DeleteCancels,
         DeleteUnlists, DeleteAnswers
    <3>3. CASE DaemonStarts \/ LoadStep
      BY <3>3 DEF DaemonStarts, LoadStep, LoadRecord, DaemonServes
    <3>4. CASE UNCHANGED vars
      BY <3>4 DEF vars, shutVars
    <3> QED
      BY <3>1, <3>2, <3>3, <3>4 DEF Next
  <2> QED
    BY <2>1, <2>2, <2>3, <2>4
<1>3. DrainInv /\ DoneMeansFinished => DrainedMeansStopped
  BY DEF DrainInv, DoneMeansFinished, DrainedMeansStopped
<1> QED
  BY <1>1, <1>2, <1>3, DoneIsFinished, PTL DEF SafetySpec

-----------------------------------------------------------------------------
(* vsock CIDs.                                                             *)

\* The machines that the present daemon process has given a CID.
Numbered == {m \in Machine : pc[m] # "dead" /\ cid[m] # 0}

\* The counter has counted them, their CIDs are distinct and below it, and a
\* machine has one from the moment it can have a process.
CidInv ==
  /\ nextCID = FirstCID + Cardinality(Numbered)
  /\ \A m \in Numbered : FirstCID <= cid[m] /\ cid[m] < nextCID
  /\ \A m, n \in Numbered : m # n => cid[m] # cid[n]
  /\ \A m \in Machine : LiveHere(m) => m \in Numbered
  /\ \A m \in Machine :
       pc[m] \in ({"unborn"} \cup Provisioning) \ {"boot"} => cid[m] = 0
  /\ \A m \in Machine : pc[m] = "boot" => cid[m] # 0

\* What keeps CidInv: a step that gives out no CID, starts no process but the
\* one of a machine that has its CID, and revives no machine.
KeepsCids ==
  /\ UNCHANGED <<cid, nextCID>>
  /\ \A m \in Machine : /\ pc'[m] = "dead" <=> pc[m] = "dead"
                        /\ pc'[m] = "boot" => pc[m] = "boot"
                        /\ pc'[m] \in {"unborn"} \cup Provisioning =>
                             pc[m] \in {"unborn"} \cup Provisioning
                        /\ pc[m] = "boot" => pc'[m] \in {"boot", "publish", "unwind"}
                        /\ vm'[m] = "up" => vm[m] = "up" \/ pc[m] = "boot"

\* Such a step preserves the distinctness of CIDs.
LEMMA CidsKept ==
  ASSUME TypeOK, CidInv, KeepsCids
  PROVE  CidInv'
<1>1. Numbered' = Numbered
  BY DEF Numbered, KeepsCids
<1> QED
  BY <1>1 DEF CidInv, KeepsCids, LiveHere, Numbered, Provisioning

\* Only AllocCID and the end of the process touch the counter.
LEMMA MostStepsKeepCids ==
  ASSUME TypeOK, [Next]_vars, ~DaemonEnds, \A m \in Machine : ~AllocCID(m)
  PROVE  KeepsCids
<1> USE DEF KeepsCids, TypeOK, Goto, Provisioning, daemonVars, hostVars, runVars
<1>1. ASSUME NEW m \in Machine,
             \/ Create(m) \/ AcquireLease(m) \/ Pull(m) \/ PrepareSnapshot(m)
             \/ AllocateNetwork(m) \/ SkipNetwork(m) \/ PrepareRootfs(m) \/ StartRenewer(m)
             \/ MakeWorkDir(m) \/ OpenPipes(m)
      PROVE  KeepsCids
  BY <1>1 DEF Create, AcquireLease, Pull, PrepareSnapshot, AllocateNetwork, SkipNetwork,
     PrepareRootfs, StartRenewer, MakeWorkDir, OpenPipes
<1>2. ASSUME NEW m \in Machine, Boot(m) \/ ProvisioningFails(m)
      PROVE  KeepsCids
  BY <1>2 DEF Boot, ProvisioningFails, Fallible
<1>3. ASSUME NEW m \in Machine,
             \/ Publish(m) \/ MarkRunning(m) \/ WaitReturns(m) \/ StopVm(m)
             \/ MarkStopped(m) \/ (\E d \in Deferred : RunDeferred(m, d))
             \/ CloseDone(m) \/ RenewerReturns(m) \/ HostStep(m)
      PROVE  KeepsCids
  BY <1>3 DEF Publish, MarkRunning, WaitReturns, StopVm, MarkStopped, RunDeferred,
     CloseDone, RenewerReturns, HostStep, VmExits, LeaseExpires, LeaseRenewed, SnapshotCollected
<1>4. ASSUME NEW c \in Caller,
             \/ \E m \in Machine : DeleteFinds(c, m)
             \/ DeleteStep(c) \/ DeleteAbandoned(c)
      PROVE  KeepsCids
  BY <1>4 DEF DeleteFinds, DeleteStep, DeleteAbandoned, DeleteCancels,
     DeleteUnlists, DeleteAnswers
<1>5. CASE ShutdownStep
  BY <1>5 DEF ShutdownStep, ShutdownCollects, ShutdownCancels, ShutdownDrained,
     ShutdownExpires
<1>6. CASE DaemonStarts \/ LoadStep
  BY <1>6 DEF DaemonStarts, LoadStep, LoadRecord, DaemonServes
<1>7. CASE UNCHANGED vars
  BY <1>7 DEF vars
<1> QED
  BY <1>1, <1>2, <1>3, <1>4, <1>5, <1>6, <1>7 DEF Next, RunStep

\* As long as one daemon process cannot create as many machines as the counter
\* has values (2^32 less the reserved ones), no two live microVMs it started
\* share a vsock CID and none has a reserved one.
THEOREM CidsAreDistinct ==
  ASSUME IsFiniteSet(Machine), FirstCID + Cardinality(Machine) < CIDSpace
  PROVE  SafetySpec => []CidsDistinct
<1>0. Cardinality({}) = 0 /\ Cardinality(Machine) \in Nat
  BY FS_EmptySet, FS_CardinalityType
<1>1. Init => CidInv
  <2> SUFFICES ASSUME Init PROVE CidInv
    OBVIOUS
  <2>1. Numbered = {}
    BY DEF Init, Numbered
  <2> QED
    BY <1>0, <2>1 DEF Init, CidInv, LiveHere, Provisioning, FirstCID
<1>2. TypeOK /\ CidInv /\ [Next]_vars => CidInv'
  <2> SUFFICES ASSUME TypeOK, CidInv, [Next]_vars
               PROVE  CidInv'
    OBVIOUS
  <2>1. IsFiniteSet(Numbered) /\ Cardinality(Numbered) \in Nat
    BY FS_Subset, FS_CardinalityType DEF Numbered
  <2>2. ASSUME NEW m \in Machine, AllocCID(m)
        PROVE  CidInv'
    <3>1. /\ pc[m] = "cid" /\ pc'[m] = "boot" /\ cid'[m] = nextCID
          /\ nextCID' = (nextCID + 1) % CIDSpace
          /\ \A n \in Machine \ {m} : cid'[n] = cid[n] /\ pc'[n] = pc[n]
          /\ UNCHANGED vm
      BY <2>2 DEF AllocCID, Goto, TypeOK
    <3>2. m \notin Numbered /\ cid[m] = 0
      BY <3>1 DEF CidInv, Numbered, Provisioning
    <3>3. nextCID \in Nat /\ nextCID >= FirstCID
      BY <2>1 DEF CidInv, FirstCID
    <3>4. Numbered' = Numbered \cup {m}
      BY <3>1, <3>3 DEF Numbered, FirstCID
    <3>5. Cardinality(Numbered') = Cardinality(Numbered) + 1
      BY <2>1, <3>2, <3>4, FS_AddElement
    <3>6. Cardinality(Numbered') <= Cardinality(Machine)
      BY FS_Subset DEF Numbered
    <3>7. nextCID' = nextCID + 1
      <4>1. nextCID + 1 < CIDSpace
        BY <1>0, <2>1, <3>5, <3>6, ConstantsAssumption DEF CidInv, FirstCID
      <4> QED
        BY <3>1, <3>3, <4>1, ConstantsAssumption
    <3>8. nextCID' = FirstCID + Cardinality(Numbered')
      BY <2>1, <3>5, <3>7 DEF CidInv, FirstCID
    <3>9. \A n \in Numbered : cid'[n] = cid[n] /\ n # m
      BY <3>1, <3>2 DEF Numbered
    <3>10. \A n \in Numbered' : FirstCID <= cid'[n] /\ cid'[n] < nextCID'
      BY <3>1, <3>3, <3>4, <3>7, <3>9 DEF CidInv, TypeOK, FirstCID, Numbered
    <3>11. \A n, k \in Numbered' : n # k => cid'[n] # cid'[k]
      BY <3>1, <3>3, <3>4, <3>9 DEF CidInv, TypeOK, Numbered
    <3>12. \A n \in Machine : LiveHere(n)' => n \in Numbered'
      BY <3>1, <3>4 DEF CidInv, LiveHere
    <3>13. /\ \A n \in Machine : pc'[n] \in ({"unborn"} \cup Provisioning) \ {"boot"} =>
                cid'[n] = 0
           /\ \A n \in Machine : pc'[n] = "boot" => cid'[n] # 0
      BY <3>1, <3>3 DEF CidInv, FirstCID
    <3> QED
      BY <3>8, <3>10, <3>11, <3>12, <3>13 DEF CidInv
  <2>3. CASE DaemonEnds
    <3>1. /\ nextCID' = FirstCID /\ UNCHANGED cid
          /\ \A m \in Machine : \/ pc[m] = "unborn" /\ pc'[m] = "unborn"
                                \/ pc'[m] = "dead"
      BY <2>3 DEF DaemonEnds
    <3>2. \A m \in Machine : pc'[m] # "dead" => cid'[m] = 0 /\ ~LiveHere(m)'
      BY <2>3, <3>1 DEF CidInv, LiveHere, DaemonEnds, Numbered
    <3>3. Numbered' = {}
      BY <3>2 DEF Numbered
    <3> QED
      BY <1>0, <3>1, <3>2, <3>3 DEF CidInv, LiveHere, FirstCID, Provisioning
  <2>4. CASE ~DaemonEnds /\ \A m \in Machine : ~AllocCID(m)
    BY <2>4, CidsKept, MostStepsKeepCids
  <2> QED
    BY <2>2, <2>3, <2>4
<1>3. CidInv => CidsDistinct
  BY DEF CidInv, CidsDistinct
<1> QED
  BY <1>1, <1>2, <1>3, TypeCorrect, PTL DEF SafetySpec

-----------------------------------------------------------------------------
(* The lifecycle, step by step.                                            *)

\* A listed machine has its record on disk.
SavedInv == \A m \in machines : disk[m] = rec[m]

\* What Load makes of a record: nothing of none, a terminal one of any other.
LEMMA RehydratedRecord ==
  ASSUME NEW r \in MachineRecord
  PROVE  /\ r.status = "absent" => Rehydrated(r) = r
         /\ r.status # "absent" => Terminal(Rehydrated(r))
         /\ Terminal(r) => Rehydrated(r) = r
         /\ r.status \in {"running", "pending"} => Rehydrated(r) = Failed(r)
         /\ Rehydrated(r) = r \/ r.status \in {"running", "pending"}
BY DEF Rehydrated, Terminal, MachineRecord, Status, Failed

\* It holds if saving does not fail: every change of a record is saved at
\* once.
LEMMA SavedInvariant ==
  ASSUME "save" \notin HostFaults
  PROVE  SafetySpec => []SavedInv
<1>1. Init => SavedInv
  BY DEF Init, SavedInv
<1>2. TypeOK /\ IndexInv /\ SavedInv /\ [Next]_vars => SavedInv'
  <2> SUFFICES ASSUME TypeOK, IndexInv, SavedInv, [Next]_vars
               PROVE  SavedInv'
    OBVIOUS
  <2> USE DEF SavedInv, TypeOK
  <2>1. ASSUME NEW m \in Machine, NEW r, Mark(m, r), machines' \subseteq machines \cup {m}
        PROVE  SavedInv'
    BY <2>1 DEF Mark, Save
  <2>2. ASSUME UNCHANGED <<rec, disk>>, machines' \subseteq machines
        PROVE  SavedInv'
    BY <2>2
  <2>3. ASSUME NEW m \in Machine,
               Create(m) \/ RunStep(m) \/ RenewerReturns(m) \/ HostStep(m)
        PROVE  SavedInv'
    <3>1. CASE Create(m) \/ ProvisioningFails(m) \/ MarkRunning(m) \/ MarkStopped(m)
      BY <2>1, <3>1 DEF Create, ProvisioningFails, MarkRunning, MarkStopped
    <3>2. CASE ~(Create(m) \/ ProvisioningFails(m) \/ MarkRunning(m) \/ MarkStopped(m))
      BY <2>2, <2>3, <3>2 DEF RunStep, AcquireLease, Pull, PrepareSnapshot,
         AllocateNetwork, SkipNetwork, PrepareRootfs, StartRenewer, MakeWorkDir, OpenPipes,
         AllocCID, Boot, Publish, WaitReturns, StopVm, RunDeferred, CloseDone,
         RenewerReturns, HostStep, VmExits, LeaseExpires, LeaseRenewed, SnapshotCollected, indexVars
    <3> QED
      BY <3>1, <3>2
  <2>4. ASSUME NEW c \in Caller,
               \/ \E m \in Machine : DeleteFinds(c, m)
               \/ DeleteStep(c) \/ DeleteAbandoned(c)
        PROVE  SavedInv'
    <3>1. CASE DeleteAnswers(c)
      <4>1. call[c].m \notin machines
        BY <3>1 DEF DeleteAnswers, IndexInv
      <4> QED
        BY <3>1, <4>1 DEF DeleteAnswers, RemoveState, indexVars
    <3>2. CASE ~DeleteAnswers(c)
      BY <2>2, <2>4, <3>2 DEF DeleteFinds, DeleteStep, DeleteAbandoned, DeleteCancels,
         DeleteUnlists, indexVars
    <3> QED
      BY <3>1, <3>2
  <2>5. CASE ShutdownStep \/ DaemonStarts \/ DaemonServes \/ UNCHANGED vars
    BY <2>2, <2>5 DEF ShutdownStep, ShutdownCollects, ShutdownCancels, ShutdownDrained,
       ShutdownExpires, DaemonStarts, DaemonServes, indexVars, vars
  <2>6. CASE DaemonEnds
    BY <2>6 DEF DaemonEnds
  <2>7. ASSUME NEW m \in Machine, LoadRecord(m)
        PROVE  SavedInv'
    BY <2>1, <2>7 DEF LoadRecord
  <2> QED
    BY <2>3, <2>4, <2>5, <2>6, <2>7 DEF Next, LoadStep
<1> QED
  BY <1>1, <1>2, TypeCorrect, IndexInvariant, PTL DEF SafetySpec

\* What a step may do to the durable record of one machine.
LifecycleStep(m) == Lifecycle!MachineNext(m) \/ Durable'[m] = Durable[m]

\* The durable record of a machine, listed or not.
LEMMA DurableRecord ==
  ASSUME TypeOK
  PROVE  /\ Durable \in [Machine -> MachineRecord]
         /\ \A m \in Machine :
              Durable[m] = IF m \in machines THEN rec[m] ELSE Rehydrated(disk[m])
  BY RecordType DEF TypeOK, Durable

\* A step of a machine's goroutines is a step of its life cycle, or none of
\* it.
LEMMA RunRefines ==
  ASSUME TypeOK, TypeOK', IndexInv, NEW m \in Machine, MachineInv(m), SavedInv,
         "save" \notin HostFaults,
         Create(m) \/ RunStep(m) \/ RenewerReturns(m) \/ HostStep(m)
  PROVE  LifecycleStep(m)
<1> USE DEF LifecycleStep, Lifecycle!MachineNext, Goto, Mark, Save
<1>0. /\ Durable[m] = IF m \in machines THEN rec[m] ELSE Rehydrated(disk[m])
      /\ Durable'[m] = IF m \in machines' THEN rec'[m] ELSE Rehydrated(disk'[m])
  BY DurableRecord DEF Durable
<1>1. CASE Create(m)
  <2>1. /\ pc[m] = "unborn" /\ m \in machines' /\ rec'[m] = Pending
    BY <1>1 DEF Create, TypeOK
  <2>2. Durable[m] = Absent
    BY <1>0, <2>1, RecordType, RehydratedRecord DEF IndexInv, Absent
  <2>3. Lifecycle!Create(m)
    BY <1>0, <2>1, <2>2 DEF Lifecycle!Create, Lifecycle!Absent, Lifecycle!Pending,
                            Absent, Pending
  <2> QED
    BY <2>3
<1>2. CASE ProvisioningFails(m) \/ MarkRunning(m) \/ MarkStopped(m)
  <2>1. m \in machines /\ m \in machines'
    BY <1>2 DEF ProvisioningFails, MarkRunning, MarkStopped, Fallible, Provisioning,
                IndexInv, NeverUnlistedInFlight, InFlight
  <2>2. Durable[m] = rec[m] /\ Durable'[m] = rec'[m]
    BY <1>0, <2>1
  <2>3. CASE ProvisioningFails(m)
    <3>1. rec[m].status = "pending" /\ rec'[m] = Failed(rec[m])
      BY <2>3 DEF ProvisioningFails, Fallible, MachineInv, RecordInv, Pending, TypeOK
    <3> QED
      BY <2>2, <3>1 DEF Lifecycle!Fail, Failed
  <2>4. CASE MarkRunning(m)
    <3>1. rec[m].status = "pending" /\ rec'[m] = Running(rec[m])
      BY <2>4 DEF MarkRunning, MachineInv, RecordInv, Pending, TypeOK
    <3> QED
      BY <2>2, <3>1 DEF Lifecycle!Start, Running
  <2>5. CASE MarkStopped(m)
    <3>1. rec[m].status = "running"
      BY <2>5 DEF MarkStopped, MachineInv, RecordInv, Pending, Running
    <3>2. rec'[m] = Failed(rec[m]) \/ rec'[m] = Exited(rec[m])
      BY <2>5 DEF MarkStopped, TypeOK
    <3> QED
      BY <2>2, <3>1, <3>2 DEF Lifecycle!Exit, Lifecycle!Fail, Failed, Exited
  <2> QED
    BY <1>2, <2>3, <2>4, <2>5
<1>3. CASE ~(Create(m) \/ ProvisioningFails(m) \/ MarkRunning(m) \/ MarkStopped(m))
  <2>1. UNCHANGED <<rec, disk, machines>>
    BY <1>3 DEF RunStep, AcquireLease, Pull, PrepareSnapshot, AllocateNetwork, SkipNetwork,
       PrepareRootfs, StartRenewer, MakeWorkDir, OpenPipes, AllocCID, Boot, Publish,
       WaitReturns, StopVm, RunDeferred, CloseDone, RenewerReturns, HostStep, VmExits,
       LeaseExpires, LeaseRenewed, SnapshotCollected, indexVars
  <2> QED
    BY <1>0, <2>1
<1> QED
  BY <1>1, <1>2, <1>3

\* As long as state files can be written, the manager implements the lifecycle
\* of the README's diagram for every machine at once, through concurrent
\* deletes, shutdown and crashes: exited and failed are final, the fields of the
\* record go with its status, and only what has stopped is deleted.
THEOREM ManagerImplementsLifecycle ==
  ASSUME "save" \notin HostFaults
  PROVE  SafetySpec => ImplementsLifecycle
<1>1. Init => Lifecycle!LifecycleInit
  BY RecordType, RehydratedRecord
  DEF Init, Lifecycle!LifecycleInit, Durable, Absent, Lifecycle!Absent
<1>2. TypeOK /\ TypeOK' /\ IndexInv /\ PlaceInv /\ SavedInv /\ DoneMeansFinished
        /\ [Next]_vars => [Lifecycle!LifecycleNext]_Durable
  <2> SUFFICES ASSUME TypeOK, TypeOK', IndexInv, PlaceInv, SavedInv,
                      DoneMeansFinished, [Next]_vars
               PROVE  Lifecycle!LifecycleNext
    OBVIOUS
  <2>typed. Durable' \in [Machine -> MachineRecord]
    <3>1. \A m \in Machine : rec'[m] \in MachineRecord /\ disk'[m] \in MachineRecord
      BY DEF TypeOK
    <3>2. \A m \in Machine : Rehydrated(disk'[m]) \in MachineRecord
      BY <3>1, RecordType
    <3> QED
      BY <3>1, <3>2 DEF Durable
  <2> SUFFICES ASSUME NEW m \in Machine
               PROVE  LifecycleStep(m)
    BY <2>typed DEF Lifecycle!LifecycleNext, LifecycleStep, Lifecycle!MachineRecord,
                Lifecycle!Status, MachineRecord, Status
  <2> USE DEF LifecycleStep, Lifecycle!MachineNext
  <2>0. /\ Durable[m] = IF m \in machines THEN rec[m] ELSE Rehydrated(disk[m])
        /\ Durable'[m] = IF m \in machines' THEN rec'[m] ELSE Rehydrated(disk'[m])
        /\ rec[m] \in MachineRecord /\ disk[m] \in MachineRecord
    BY DEF Durable, TypeOK
  <2>1. ASSUME NEW n \in Machine,
               Create(n) \/ RunStep(n) \/ RenewerReturns(n) \/ HostStep(n)
        PROVE  LifecycleStep(m)
    <3>1. CASE n = m
      BY <2>1, <3>1, RunRefines DEF PlaceInv, MachineInv
    <3>2. CASE n # m
      <4>1. Untouched(m)
        BY <2>1, <3>2, RunLeavesOthers
      <4> QED
        BY <2>0, <4>1 DEF Untouched
    <3> QED
      BY <3>1, <3>2
  <2>2. ASSUME UNCHANGED <<rec, disk, machines>>
        PROVE  LifecycleStep(m)
    BY <2>0, <2>2
  <2>3. ASSUME NEW c \in Caller, DeleteUnlists(c)
        PROVE  LifecycleStep(m)
    <3>1. /\ call[c].m \in done /\ machines' = machines \ {call[c].m}
          /\ UNCHANGED <<rec, disk>>
      BY <2>3 DEF DeleteUnlists
    <3>2. ASSUME m \in machines, m = call[c].m
          PROVE  Durable'[m] = Durable[m]
      <4>1. Terminal(rec[m]) /\ disk[m] = rec[m]
        BY <3>1, <3>2 DEF DoneMeansFinished, SavedInv
      <4> QED
        BY <2>0, <3>1, <3>2, <4>1, RehydratedRecord
    <3> QED
      BY <2>0, <3>1, <3>2
  <2>4. ASSUME NEW c \in Caller, DeleteAnswers(c)
        PROVE  LifecycleStep(m)
    <3>1. /\ call[c].m \notin machines /\ UNCHANGED <<rec, machines>>
          /\ \A n \in Machine \ {call[c].m} : disk'[n] = disk[n]
          /\ disk'[m] = disk[m] \/ disk'[m] = Absent
      BY <2>4 DEF DeleteAnswers, RemoveState, indexVars, IndexInv, TypeOK
    <3>2. ASSUME m = call[c].m, disk'[m] = Absent, disk[m] # Absent
          PROVE  Lifecycle!Delete(m)
      <4>1. Terminal(Durable[m])
        BY <2>0, <3>1, <3>2, RehydratedRecord DEF PlaceInv, RecordInv
      <4>2. Durable'[m] = Absent
        BY <2>0, <3>1, <3>2, RecordType, RehydratedRecord DEF Absent
      <4> QED
        BY <4>1, <4>2 DEF Lifecycle!Delete, Lifecycle!Terminal, Terminal,
                          Lifecycle!Absent, Absent
    <3> QED
      BY <2>0, <3>1, <3>2
  <2>5. CASE DaemonEnds
    <3>1. machines' = {} /\ disk' = disk
      BY <2>5 DEF DaemonEnds
    <3>2. Durable'[m] = Rehydrated(disk[m])
      BY <2>0, <3>1
    <3>3. CASE m \in machines
      <4>1. Durable[m] = disk[m]
        BY <2>0, <3>3 DEF SavedInv
      <4>2. CASE disk[m].status \in {"running", "pending"}
        BY <2>0, <3>2, <4>1, <4>2, RehydratedRecord DEF Lifecycle!Fail, Failed
      <4> QED
        BY <2>0, <3>2, <4>1, <4>2, RehydratedRecord
    <3> QED
      BY <2>0, <3>2, <3>3
  <2>6. ASSUME NEW n \in Machine, LoadRecord(n)
        PROVE  LifecycleStep(m)
    <3>1. /\ n \notin machines /\ machines' = machines \cup {n}
          /\ rec' = [rec EXCEPT ![n] = Rehydrated(disk[n])]
          /\ \A k \in Machine \ {n} : disk'[k] = disk[k]
      BY <2>6 DEF LoadRecord, Mark, Save, TypeOK
    <3> QED
      BY <2>0, <3>1 DEF TypeOK
  <2>7. CASE \/ ShutdownStep \/ DaemonStarts \/ DaemonServes \/ UNCHANGED vars
             \/ \E c \in Caller : \/ \E n \in Machine : DeleteFinds(c, n)
                                  \/ DeleteCancels(c) \/ DeleteAbandoned(c)
    BY <2>2, <2>7 DEF ShutdownStep, ShutdownCollects, ShutdownCancels, ShutdownDrained,
       ShutdownExpires, DaemonStarts, DaemonServes, DeleteFinds, DeleteCancels,
       DeleteAbandoned, indexVars, vars
  <2> QED
    BY <2>1, <2>3, <2>4, <2>5, <2>6, <2>7 DEF Next, LoadStep, DeleteStep
<1> QED
  BY <1>1, <1>2, TypeCorrect, IndexInvariant, PlaceInvariant, SavedInvariant,
     DoneIsFinished, PTL
  DEF SafetySpec, ImplementsLifecycle, Lifecycle!LifecycleSpec
=============================================================================
