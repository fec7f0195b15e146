------------------------------ MODULE Network ------------------------------
(***************************************************************************)
(* internal/network/network.go: the allocator that gives each microVM an   *)
(* address of the subnet and a tap device on the bridge.                   *)
(*                                                                         *)
(* Each run() goroutine calls Allocate once and, if that succeeded,        *)
(* Release once.  The mutex covers only the map of addresses; the ip       *)
(* commands that make and delete tap devices run outside it, so those of   *)
(* different machines interleave.  The kernel's devices outlive the        *)
(* daemon, the map does not.                                               *)
(***************************************************************************)
EXTENDS Naturals, Sequences, FiniteSets

CONSTANTS
  Machine,      \* identifiers, each a sequence of parts, most significant first
  NameLen,      \* parts of an identifier that fit a device name
  HostBits,     \* host bits of the subnet
  Gateway,      \* offset of the gateway in the subnet
  Nobody,       \* owner of a free address
  GatewayOwner, \* owner of the gateway's address
  MaxRestarts   \* bound: times the daemon is restarted

Offset == 0 .. 2^HostBits - 1

ASSUME NetworkAssumption ==
  /\ HostBits \in Nat /\ MaxRestarts \in Nat
  /\ Gateway \in Offset
  /\ Nobody \notin Machine /\ GatewayOwner \notin Machine /\ Nobody # GatewayOwner

\* The offsets pickIPLocked scans: not the network, .1, or the broadcast.
Usable == 2 .. 2^HostBits - 2

VARIABLES
  allocated,    \* m.allocated: owner of each offset, Nobody when absent
  step,         \* step[m]: how far the Allocate and Release of machine m are
  ip,           \* ip[m]: the address in m's Allocation, 0 without one
  tap,          \* tap[n]: what is set up of the kernel's tap device named n
  maker,        \* maker[n]: the machine for which that device was made
  restarts      \* times the daemon was restarted

vars == <<allocated, step, ip, tap, maker, restarts>>

\* In program order.  "over": Allocate has failed, Release is done, or the
\* machine is one of an earlier daemon process.
Step == {"new", "picked", "cleared", "added", "bridged", "up", "tapless",
         "undo", "over"}

\* Between pickIPLocked and releaseIP.
Holding == {"picked", "cleared", "added", "bridged", "up", "tapless", "undo"}

\* The name of m's device: only so many characters of the identifier fit.
tapName(m) == SubSeq(m, 1, IF Len(m) > NameLen THEN NameLen ELSE Len(m))

Name == {tapName(m) : m \in Machine}

\* What AddTap, AttachTap and BringTapUp do to a device.
TapSetup == {"made", "bridged", "up"}

-----------------------------------------------------------------------------
(* Faulty variants of operations below, each a bug the code could have had *)
(* and a property catches; no specification uses them.                     *)

\* The address is looked up and taken in two critical sections.
PickIPUnlocked(m) ==
  /\ \E i \in {j \in Usable : j # Gateway /\
                 (allocated[j] = Nobody \/ step[allocated[j]] = "picked")} :
       /\ allocated' = [allocated EXCEPT ![i] = m]
       /\ ip' = [ip EXCEPT ![m] = i]
  /\ step[m] = "new"
  /\ step' = [step EXCEPT ![m] = "picked"]
  /\ UNCHANGED <<tap, maker, restarts>>

\* An error path of Allocate keeps the address.
AllocateKeepsIP(m) ==
  /\ step[m] = "undo"
  /\ step' = [step EXCEPT ![m] = "over"]
  /\ UNCHANGED <<allocated, ip, tap, maker, restarts>>

\* A device that was made is not attached to the bridge.
AttachTapSkipped(m) ==
  /\ tap[tapName(m)] # {}
  /\ step[m] = "added"
  /\ step' = [step EXCEPT ![m] = "bridged"]
  /\ UNCHANGED <<allocated, ip, tap, maker, restarts>>

-----------------------------------------------------------------------------
Init ==
  /\ allocated = [i \in Offset |-> IF i = Gateway THEN GatewayOwner ELSE Nobody]
  /\ step = [m \in Machine |-> "new"]
  /\ ip = [m \in Machine |-> 0]
  /\ tap = [n \in Name |-> {}]
  /\ maker = [n \in Name |-> Nobody]
  /\ restarts = 0

-----------------------------------------------------------------------------
Goto(m, from, to) ==
  /\ step[m] = from
  /\ step' = [step EXCEPT ![m] = to]

\* ip link del removes the device, whoever made it, or fails; nobody looks.
DeleteTap(m) ==
  \/ /\ tap' = [tap EXCEPT ![tapName(m)] = {}]
     /\ maker' = [maker EXCEPT ![tapName(m)] = Nobody]
  \/ UNCHANGED <<tap, maker>>

\* The addresses the scan does not skip.
Free == {i \in Usable : i # Gateway /\ allocated[i] = Nobody}

\* pickIPLocked takes the first free address, in one critical section.
PickIP(m) ==
  /\ \E i \in Free :
       /\ \A j \in Free : i <= j
       /\ allocated' = [allocated EXCEPT ![i] = m]
       /\ ip' = [ip EXCEPT ![m] = i]
  /\ Goto(m, "new", "picked")
  /\ UNCHANGED <<tap, maker, restarts>>

PickFails(m) ==
  /\ Free = {}
  /\ Goto(m, "new", "over")
  /\ UNCHANGED <<allocated, ip, tap, maker, restarts>>

\* randomMAC fails.
MacFails(m) ==
  /\ Goto(m, "picked", "undo")
  /\ UNCHANGED <<allocated, ip, tap, maker, restarts>>

-----------------------------------------------------------------------------
(* createTap.  A command on a device that is not there fails.              *)

DeleteStaleTap(m) ==
  /\ Goto(m, "picked", "cleared")
  /\ DeleteTap(m)
  /\ UNCHANGED <<allocated, ip, restarts>>

AddTap(m) ==
  /\ tap[tapName(m)] = {}
  /\ Goto(m, "cleared", "added")
  /\ tap' = [tap EXCEPT ![tapName(m)] = {"made"}]
  /\ maker' = [maker EXCEPT ![tapName(m)] = m]
  /\ UNCHANGED <<allocated, ip, restarts>>

AddTapFails(m) ==
  /\ Goto(m, "cleared", "undo")
  /\ UNCHANGED <<allocated, ip, tap, maker, restarts>>

AttachTap(m) ==
  /\ tap[tapName(m)] # {}
  /\ Goto(m, "added", "bridged")
  /\ tap' = [tap EXCEPT ![tapName(m)] = @ \cup {"bridged"}]
  /\ UNCHANGED <<allocated, ip, maker, restarts>>

BringTapUp(m) ==
  /\ tap[tapName(m)] # {}
  /\ Goto(m, "bridged", "up")
  /\ tap' = [tap EXCEPT ![tapName(m)] = @ \cup {"up"}]
  /\ UNCHANGED <<allocated, ip, maker, restarts>>

\* Attaching the device or bringing it up fails: it is deleted again.
TapFails(m) ==
  /\ step[m] \in {"added", "bridged"}
  /\ step' = [step EXCEPT ![m] = "undo"]
  /\ DeleteTap(m)
  /\ UNCHANGED <<allocated, ip, restarts>>

-----------------------------------------------------------------------------
(* releaseIP deletes the map entry of the address, whoever holds it.       *)
releaseIP(i) == allocated' = [allocated EXCEPT ![i] = Nobody]

\* Allocate gives the address back on its error paths.
AllocateFails(m) ==
  /\ Goto(m, "undo", "over")
  /\ releaseIP(ip[m])
  /\ ip' = [ip EXCEPT ![m] = 0]
  /\ UNCHANGED <<tap, maker, restarts>>

\* Release: first the device, then the address.
ReleaseTap(m) ==
  /\ Goto(m, "up", "tapless")
  /\ DeleteTap(m)
  /\ UNCHANGED <<allocated, ip, restarts>>

ReleaseIP(m) ==
  /\ Goto(m, "tapless", "over")
  /\ releaseIP(ip[m])
  /\ ip' = [ip EXCEPT ![m] = 0]
  /\ UNCHANGED <<tap, maker, restarts>>

-----------------------------------------------------------------------------
(* The daemon ends at any moment and New starts with an empty map.  The    *)
(* devices stay.                                                           *)
Restart ==
  /\ restarts < MaxRestarts
  /\ restarts' = restarts + 1
  /\ allocated' = [i \in Offset |-> IF i = Gateway THEN GatewayOwner ELSE Nobody]
  /\ step' = [m \in Machine |-> IF step[m] \in Holding THEN "over" ELSE step[m]]
  /\ ip' = [m \in Machine |-> 0]
  /\ UNCHANGED <<tap, maker>>

AllocateStep(m) ==
  \/ PickIP(m) \/ PickFails(m) \/ MacFails(m)
  \/ DeleteStaleTap(m) \/ AddTap(m) \/ AddTapFails(m)
  \/ AttachTap(m) \/ BringTapUp(m) \/ TapFails(m) \/ AllocateFails(m)

ReleaseStep(m) == ReleaseTap(m) \/ ReleaseIP(m)

Next == Restart \/ \E m \in Machine : AllocateStep(m) \/ ReleaseStep(m)

Spec == Init /\ [][Next]_vars

-----------------------------------------------------------------------------
(* Properties.                                                             *)

TypeOK ==
  /\ allocated \in [Offset -> Machine \cup {Nobody, GatewayOwner}]
  /\ step \in [Machine -> Step]
  /\ ip \in [Machine -> Offset]
  /\ tap \in [Name -> SUBSET TapSetup]
  /\ maker \in [Name -> Machine \cup {Nobody}]
  /\ restarts \in 0 .. MaxRestarts

Holds(m) == step[m] \in Holding

(* The map and the machines agree: an address is taken exactly while the   *)
(* machine it is recorded for is between Allocate and the end of Release.  *)
(* No error path loses an address, no Release frees another's.             *)
MapAgrees ==
  /\ \A m \in Machine : Holds(m) => allocated[ip[m]] = m
  /\ \A i \in Offset : allocated[i] \in Machine =>
       Holds(allocated[i]) /\ ip[allocated[i]] = i

(* No two machines of this daemon process have the same address, and none  *)
(* has the network's, the gateway's or the broadcast address.              *)
AddressesDistinct ==
  \A m \in Machine : Holds(m) =>
    /\ ip[m] \notin {0, Gateway, 2^HostBits - 1}
    /\ \A n \in Machine \ {m} : Holds(n) => ip[n] # ip[m]

(* Allocate reports the subnet exhausted only when every address it may    *)
(* hand out is held by a machine.                                          *)
ExhaustedMeansFull ==
  [][\A m \in Machine : step[m] = "new" /\ step'[m] = "over" =>
       \A i \in 2 .. 2^HostBits - 2 :
         i = Gateway \/ \E n \in Machine : Holds(n) /\ ip[n] = i]_vars

(* When no two identifiers share a device name, the machine whose Allocate *)
(* succeeded has its own device, attached to the bridge and up, until it   *)
(* releases it, whatever other machines do.                                *)
TapReady ==
  \A m \in Machine : step[m] = "up" =>
    tap[tapName(m)] = TapSetup /\ maker[tapName(m)] = m

-----------------------------------------------------------------------------
(* A statement of a comment that the code contradicts.                     *)

(* network.go: "If a stale tap with this name exists from a crashed        *)
(* daemon, remove it": what createTap removes belongs to no machine of     *)
(* this daemon process.                                                    *)
RemovesOnlyStaleTaps ==
  [][\A m \in Machine : step[m] = "picked" /\ step'[m] = "cleared" =>
       LET owner == maker[tapName(m)]
       IN  owner = Nobody \/ ~Holds(owner)]_vars
=============================================================================
