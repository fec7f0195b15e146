--------------------------- MODULE Network_proof ---------------------------
(***************************************************************************)
(* Theorems about Network, for every set of machines, every subnet size    *)
(* and gateway, and every number of restarts: the addresses are right even *)
(* when two machines share a device name.  Then theorems about             *)
(* NetworkSetup: the composition behaves like the allocator, so the former *)
(* hold of the whole daemon, and Setup is idempotent for every set of      *)
(* outgoing interfaces and however often it is cut short.                  *)
(***************************************************************************)
EXTENDS NetworkSetup, TLAPS

(* The inductive invariant: types, the agreement of the map with the       *)
(* machines, and that what is held was among the addresses scanned.        *)
AddressInv ==
  /\ allocated \in [Offset -> Machine \cup {Nobody, GatewayOwner}]
  /\ step \in [Machine -> Step]
  /\ ip \in [Machine -> Offset]
  /\ MapAgrees
  /\ \A m \in Machine : Holds(m) => ip[m] \in Usable /\ ip[m] # Gateway
  /\ \A i \in Offset : allocated[i] = GatewayOwner <=> i = Gateway

\* The subnet has at least one address, and the scan stays inside it.
LEMMA OffsetFacts ==
  /\ 2^HostBits \in Nat
  /\ \A i \in Usable \cap Offset : i # 0 /\ i # 2^HostBits - 1
BY NetworkAssumption DEF Usable, Offset

\* The commands on tap devices move a machine between positions at which it
\* holds its address, and touch no address.
LEMMA TapSteps ==
  ASSUME AddressInv, NEW m \in Machine,
         \/ MacFails(m) \/ DeleteStaleTap(m) \/ AddTap(m) \/ AddTapFails(m)
         \/ AttachTap(m) \/ BringTapUp(m) \/ TapFails(m) \/ ReleaseTap(m)
  PROVE  AddressInv'
<1>1. /\ UNCHANGED <<allocated, ip>>
      /\ \E s \in Holding : step' = [step EXCEPT ![m] = s]
      /\ Holds(m)
  BY DEF MacFails, DeleteStaleTap, AddTap, AddTapFails, AttachTap, BringTapUp,
         TapFails, ReleaseTap, Goto, Holds, Holding
<1>2. /\ step' \in [Machine -> Step]
      /\ \A n \in Machine : Holds(n)' <=> Holds(n)
  BY <1>1 DEF AddressInv, Holds, Holding, Step
<1> QED
  BY <1>1, <1>2 DEF AddressInv, MapAgrees

\* Giving an address back frees the releasing machine's address and no other.
LEMMA ReleaseSteps ==
  ASSUME AddressInv, NEW m \in Machine, AllocateFails(m) \/ ReleaseIP(m)
  PROVE  AddressInv'
<1>1. /\ Holds(m) /\ ip[m] \in Offset /\ ip[m] # Gateway
      /\ allocated' = [allocated EXCEPT ![ip[m]] = Nobody]
      /\ ip' = [ip EXCEPT ![m] = 0]
      /\ step' = [step EXCEPT ![m] = "over"]
  BY DEF AllocateFails, ReleaseIP, releaseIP, Goto, Holds, Holding, AddressInv
<1>2. /\ step' \in [Machine -> Step] /\ ~Holds(m)'
      /\ \A n \in Machine \ {m} : Holds(n)' <=> Holds(n)
  BY <1>1 DEF AddressInv, Holds, Holding, Step
<1>3. \A n \in Machine \ {m} : Holds(n) => ip[n] # ip[m]
  BY <1>1 DEF AddressInv, MapAgrees
<1>4. /\ allocated' \in [Offset -> Machine \cup {Nobody, GatewayOwner}]
      /\ ip' \in [Machine -> Offset]
      /\ \A n \in Machine \ {m} : ip'[n] = ip[n]
  BY <1>1, OffsetFacts DEF AddressInv, Offset
<1>5. MapAgrees'
  <2>1. \A n \in Machine : Holds(n)' => allocated'[ip'[n]] = n
    BY <1>1, <1>2, <1>3, <1>4 DEF AddressInv, MapAgrees
  <2>2. \A i \in Offset : allocated'[i] \in Machine =>
          i # ip[m] /\ allocated'[i] = allocated[i]
    BY <1>1, NetworkAssumption DEF AddressInv
  <2>3. \A i \in Offset : allocated'[i] \in Machine =>
          allocated[i] # m /\ Holds(allocated[i]) /\ ip[allocated[i]] = i
    BY <2>2 DEF AddressInv, MapAgrees
  <2> QED
    BY <1>1, <1>2, <1>4, <2>1, <2>2, <2>3 DEF MapAgrees
<1>6. \A i \in Offset : allocated'[i] = GatewayOwner <=> i = Gateway
  BY <1>1, NetworkAssumption DEF AddressInv
<1>7. \A n \in Machine : Holds(n)' => ip'[n] \in Usable /\ ip'[n] # Gateway
  BY <1>1, <1>2, <1>4 DEF AddressInv
<1> QED
  BY <1>1, <1>2, <1>4, <1>5, <1>6, <1>7 DEF AddressInv

\* Taking an address takes a free one.
LEMMA PickStep ==
  ASSUME AddressInv, NEW m \in Machine, PickIP(m)
  PROVE  AddressInv'
<1>1. PICK i \in Free : /\ allocated' = [allocated EXCEPT ![i] = m]
                        /\ ip' = [ip EXCEPT ![m] = i]
  BY DEF PickIP
<1>2. step[m] = "new" /\ step' = [step EXCEPT ![m] = "picked"]
  BY DEF PickIP, Goto
<1>3. i \in Usable /\ i \in Offset /\ i # Gateway /\ allocated[i] = Nobody
  BY OffsetFacts DEF Free, Usable, Offset
<1>4. /\ step' \in [Machine -> Step] /\ Holds(m)' /\ ~Holds(m)
      /\ \A n \in Machine \ {m} : Holds(n)' <=> Holds(n)
  BY <1>2 DEF AddressInv, Holds, Holding, Step
<1>5. \A n \in Machine : Holds(n) => ip[n] # i
  BY <1>3, NetworkAssumption DEF AddressInv, MapAgrees
<1>6. MapAgrees'
  <2>1. \A n \in Machine : Holds(n)' => allocated'[ip'[n]] = n
    BY <1>1, <1>3, <1>4, <1>5 DEF AddressInv, MapAgrees
  <2>2. \A j \in Offset \ {i} : allocated'[j] = allocated[j]
    BY <1>1, <1>3 DEF AddressInv
  <2>3. \A j \in Offset \ {i} : allocated[j] \in Machine =>
          allocated[j] # m /\ Holds(allocated[j]) /\ ip[allocated[j]] = j
    BY <1>4 DEF AddressInv, MapAgrees
  <2>4. allocated'[i] = m /\ ip'[m] = i
    BY <1>1, <1>3 DEF AddressInv
  <2>5. \A n \in Machine \ {m} : ip'[n] = ip[n]
    BY <1>1 DEF AddressInv
  <2> QED
    BY <1>4, <2>1, <2>2, <2>3, <2>4, <2>5 DEF MapAgrees
<1>7. \A n \in Machine : Holds(n)' => ip'[n] \in Usable /\ ip'[n] # Gateway
  BY <1>1, <1>3, <1>4 DEF AddressInv
<1>8. /\ allocated' \in [Offset -> Machine \cup {Nobody, GatewayOwner}]
      /\ ip' \in [Machine -> Offset]
      /\ \A j \in Offset : allocated'[j] = GatewayOwner <=> j = Gateway
  BY <1>1, <1>3, NetworkAssumption DEF AddressInv
<1> QED
  BY <1>4, <1>6, <1>7, <1>8 DEF AddressInv

\* A restart forgets every address and every holder together.
LEMMA RestartStep ==
  ASSUME AddressInv, Restart
  PROVE  AddressInv'
<1>1. /\ step' \in [Machine -> Step] /\ \A m \in Machine : ~Holds(m)'
      /\ ip' \in [Machine -> Offset]
  BY OffsetFacts DEF Restart, AddressInv, Holds, Holding, Step, Offset
<1>2. allocated' = [i \in Offset |-> IF i = Gateway THEN GatewayOwner ELSE Nobody]
  BY DEF Restart
<1> QED
  BY <1>1, <1>2, NetworkAssumption DEF AddressInv, MapAgrees

LEMMA AddressInvariant == Spec => []AddressInv
<1>1. Init => AddressInv
  <2> SUFFICES ASSUME Init PROVE AddressInv
    OBVIOUS
  <2>1. 0 \in Offset
    BY NetworkAssumption DEF Offset
  <2> QED
    BY <2>1, NetworkAssumption
    DEF Init, AddressInv, MapAgrees, Holds, Holding, Step
<1>2. AddressInv /\ [Next]_vars => AddressInv'
  <2> SUFFICES ASSUME AddressInv, [Next]_vars
               PROVE  AddressInv'
    OBVIOUS
  <2>1. ASSUME NEW m \in Machine, AllocateStep(m) \/ ReleaseStep(m)
        PROVE  AddressInv'
    <3>1. CASE PickFails(m)
      <4>1. /\ UNCHANGED <<allocated, ip>>
            /\ step[m] = "new" /\ step' = [step EXCEPT ![m] = "over"]
        BY <3>1 DEF PickFails, Goto
      <4>2. /\ step' \in [Machine -> Step]
            /\ \A n \in Machine : Holds(n)' <=> Holds(n)
        BY <4>1 DEF AddressInv, Holds, Holding, Step
      <4> QED
        BY <4>1, <4>2 DEF AddressInv, MapAgrees
    <3> QED
      BY <2>1, <3>1, TapSteps, ReleaseSteps, PickStep DEF AllocateStep, ReleaseStep
  <2>2. CASE Restart
    BY <2>2, RestartStep
  <2>3. CASE UNCHANGED vars
    BY <2>3 DEF vars, AddressInv, MapAgrees, Holds
  <2> QED
    BY <2>1, <2>2, <2>3 DEF Next
<1> QED
  BY <1>1, <1>2, PTL DEF Spec

\* The allocator's map records exactly the machines that hold an address, on
\* every path through Allocate and Release and across restarts.
THEOREM MapAgreesAlways == Spec => []MapAgrees
BY AddressInvariant, PTL DEF AddressInv

\* No two machines of one daemon process have the same address, and none has
\* the network's, the gateway's or the broadcast address.
THEOREM AddressesAlwaysDistinct == Spec => []AddressesDistinct
<1>1. AddressInv => AddressesDistinct
  <2> SUFFICES ASSUME AddressInv, NEW m \in Machine, Holds(m)
               PROVE  /\ ip[m] \notin {0, Gateway, 2^HostBits - 1}
                      /\ \A n \in Machine \ {m} : Holds(n) => ip[n] # ip[m]
    BY DEF AddressesDistinct
  <2>1. ip[m] \in Usable \cap Offset /\ ip[m] # Gateway
    BY DEF AddressInv
  <2>2. \A n \in Machine \ {m} : Holds(n) => ip[n] # ip[m]
    BY DEF AddressInv, MapAgrees
  <2> QED
    BY <2>1, <2>2, OffsetFacts
<1> QED
  BY <1>1, AddressInvariant, PTL

\* Allocate reports the subnet exhausted only when every address it may hand
\* out is held by a machine.
THEOREM ExhaustionIsReal == Spec => ExhaustedMeansFull
<1>1. ASSUME AddressInv, [Next]_vars, NEW m \in Machine,
             step[m] = "new", step'[m] = "over",
             NEW i \in 2 .. 2^HostBits - 2, i # Gateway
      PROVE  \E n \in Machine : Holds(n) /\ ip[n] = i
  <2>1. i \in Offset /\ i \in Usable
    BY OffsetFacts DEF Offset, Usable
  <2>2. Free = {}
    <3>1. ASSUME Free # {} PROVE FALSE
      <4>1. \A n \in Machine : ~PickFails(n)
        BY <3>1 DEF PickFails
      <4>2. ~Restart
        BY <1>1 DEF Restart, Holding, AddressInv
      <4>3. PICK n \in Machine : AllocateStep(n) \/ ReleaseStep(n)
        BY <1>1, <4>2 DEF Next, vars
      <4>4. PICK from \in Step \ {"new"}, to \in Step :
                 \/ step[n] = from /\ step' = [step EXCEPT ![n] = to]
                 \/ step' = [step EXCEPT ![n] = "picked"]
        BY <4>1, <4>3 DEF AllocateStep, ReleaseStep, PickIP, MacFails, DeleteStaleTap,
           AddTap, AddTapFails, AttachTap, BringTapUp, TapFails, AllocateFails,
           ReleaseTap, ReleaseIP, Goto, Step
      <4> QED
        BY <1>1, <4>4 DEF AddressInv
    <3> QED
      BY <3>1
  <2>3. allocated[i] \in Machine
    BY <1>1, <2>1, <2>2 DEF Free, AddressInv
  <2> QED
    BY <1>1, <2>1, <2>3 DEF AddressInv, MapAgrees
<1>2. AddressInv /\ [Next]_vars =>
        [\A m \in Machine : step[m] = "new" /\ step'[m] = "over" =>
           \A i \in 2 .. 2^HostBits - 2 :
             i = Gateway \/ \E n \in Machine : Holds(n) /\ ip[n] = i]_vars
  BY <1>1
<1> QED
  BY <1>2, AddressInvariant, PTL DEF Spec, ExhaustedMeansFull

\* Every variable of the allocator keeps its type, whatever commands fail and
\* however often the daemon restarts.
THEOREM AllocatorTypes == Spec => []TypeOK
<1>1. Init => TypeOK
  BY NetworkAssumption DEF Init, TypeOK, Offset, Step, Name, TapSetup
<1>2. TypeOK /\ [Next]_vars => TypeOK'
  <2> SUFFICES ASSUME TypeOK, [Next]_vars PROVE TypeOK'
    OBVIOUS
  <2> USE NetworkAssumption DEF TypeOK, Step, Goto
  <2>1. ASSUME NEW m \in Machine, PickIP(m) PROVE TypeOK'
    <3>1. PICK i \in Free : /\ allocated' = [allocated EXCEPT ![i] = m]
                            /\ ip' = [ip EXCEPT ![m] = i]
      BY <2>1 DEF PickIP
    <3>2. i \in Offset
      BY OffsetFacts DEF Free, Usable, Offset
    <3>3. /\ step' = [step EXCEPT ![m] = "picked"]
          /\ UNCHANGED <<tap, maker, restarts>>
      BY <2>1 DEF PickIP
    <3> QED
      BY <3>1, <3>2, <3>3
  <2>6. ASSUME NEW m \in Machine, PickFails(m) PROVE TypeOK'
    BY <2>6 DEF PickFails
  <2>2. ASSUME NEW m \in Machine,
               MacFails(m) \/ AllocateFails(m) \/ ReleaseIP(m)
        PROVE  TypeOK'
    <3>1. 0 \in Offset
      BY OffsetFacts DEF Offset
    <3>2. /\ \/ UNCHANGED <<allocated, ip>>
             \/ /\ allocated' = [allocated EXCEPT ![ip[m]] = Nobody]
                /\ ip' = [ip EXCEPT ![m] = 0]
          /\ UNCHANGED <<tap, maker, restarts>>
      BY <2>2 DEF MacFails, AllocateFails, ReleaseIP, releaseIP
    <3>3. step' \in [Machine -> Step]
      BY <2>2 DEF MacFails, AllocateFails, ReleaseIP
    <3> QED
      BY <3>1, <3>2, <3>3
  <2>3. ASSUME NEW m \in Machine,
               \/ DeleteStaleTap(m) \/ AddTap(m) \/ AddTapFails(m) \/ AttachTap(m)
               \/ BringTapUp(m) \/ TapFails(m) \/ ReleaseTap(m)
        PROVE  TypeOK'
    BY <2>3 DEF DeleteStaleTap, AddTap, AddTapFails, AttachTap, BringTapUp, TapFails,
                ReleaseTap, DeleteTap, Name, TapSetup
  <2>4. ASSUME Restart PROVE TypeOK'
    BY <2>4, OffsetFacts DEF Restart, Offset
  <2>5. CASE UNCHANGED vars
    BY <2>5 DEF vars
  <2> QED
    BY <2>1, <2>2, <2>3, <2>4, <2>5, <2>6 DEF Next, AllocateStep, ReleaseStep
<1> QED
  BY <1>1, <1>2, PTL DEF Spec

-----------------------------------------------------------------------------
\* How far the device of a machine is set up, and that it is the machine's own.
TapInv ==
  \A m \in Machine :
    /\ step[m] \in {"added", "bridged", "up"} => maker[tapName(m)] = m
    /\ step[m] = "added" => tap[tapName(m)] = {"made"}
    /\ step[m] = "bridged" => tap[tapName(m)] = {"made", "bridged"}
    /\ step[m] = "up" => tap[tapName(m)] = TapSetup

\* When no two identifiers share a device name, the machine whose Allocate
\* succeeded has its own device, attached to the bridge and up, until it
\* releases it, whatever other machines and restarts of the daemon do.
THEOREM TapStaysReady ==
  ASSUME \A m, n \in Machine : tapName(m) = tapName(n) => m = n
  PROVE  Spec => []TapReady
<1>1. Init => TapInv
  BY DEF Init, TapInv
<1>2. TypeOK /\ TapInv /\ [Next]_vars => TapInv'
  <2> SUFFICES ASSUME TypeOK, TapInv, [Next]_vars PROVE TapInv'
    OBVIOUS
  <2> USE DEF TypeOK, TapInv, Goto, DeleteTap
  <2>0. \A m \in Machine : tapName(m) \in Name
    BY DEF Name
  <2>1. ASSUME NEW m \in Machine, UNCHANGED <<tap, maker>>,
               \/ step' = [step EXCEPT ![m] = "picked"]
               \/ step' = [step EXCEPT ![m] = "over"]
               \/ step' = [step EXCEPT ![m] = "undo"]
        PROVE  TapInv'
    BY <2>1
  <2>2. ASSUME NEW m \in Machine,
               \/ PickIP(m) \/ PickFails(m) \/ MacFails(m) \/ AddTapFails(m)
               \/ AllocateFails(m) \/ ReleaseIP(m)
        PROVE  TapInv'
    BY <2>1, <2>2 DEF PickIP, PickFails, MacFails, AddTapFails, AllocateFails, ReleaseIP
  <2>3. ASSUME NEW m \in Machine,
               \/ DeleteStaleTap(m) \/ AddTap(m) \/ AttachTap(m) \/ BringTapUp(m)
               \/ TapFails(m) \/ ReleaseTap(m)
        PROVE  TapInv'
    <3>1. \A n \in Machine \ {m} :
            /\ tapName(n) # tapName(m)
            /\ step'[n] = step[n]
            /\ tap'[tapName(n)] = tap[tapName(n)]
            /\ maker'[tapName(n)] = maker[tapName(n)]
      BY <2>0, <2>3
      DEF DeleteStaleTap, AddTap, AttachTap, BringTapUp, TapFails, ReleaseTap
    <3>2. /\ step'[m] \in {"added", "bridged", "up"} => maker'[tapName(m)] = m
          /\ step'[m] = "added" => tap'[tapName(m)] = {"made"}
          /\ step'[m] = "bridged" => tap'[tapName(m)] = {"made", "bridged"}
          /\ step'[m] = "up" => tap'[tapName(m)] = TapSetup
      BY <2>0, <2>3
      DEF DeleteStaleTap, AddTap, AttachTap, BringTapUp, TapFails, ReleaseTap, TapSetup
    <3> QED
      BY <3>1, <3>2
  <2>4. CASE Restart
    BY <2>4 DEF Restart, Holding
  <2>5. CASE UNCHANGED vars
    BY <2>5 DEF vars
  <2> QED
    BY <2>2, <2>3, <2>4, <2>5 DEF Next, AllocateStep, ReleaseStep
<1>3. TapInv => TapReady
  BY DEF TapInv, TapReady
<1> QED
  BY <1>1, <1>2, <1>3, AllocatorTypes, PTL DEF Spec

\* A shared device name is the only way createTap can remove the device of a
\* machine that this daemon process still works for: when no two identifiers
\* share one, what it removes as stale is stale, as network.go says.
THEOREM OnlySharedNamesHurt ==
  ASSUME \A m, n \in Machine : tapName(m) = tapName(n) => m = n
  PROVE  Spec => RemovesOnlyStaleTaps
<1> DEFINE Inv == \A m \in Machine :
             /\ maker[tapName(m)] \in {Nobody, m}
             /\ step[m] \in {"new", "picked"} => maker[tapName(m)] = Nobody
<1>1. Init => Inv
  BY DEF Init, Name
<1>2. TypeOK /\ Inv /\ [Next]_vars => Inv'
  <2> SUFFICES ASSUME TypeOK, Inv, [Next]_vars PROVE Inv'
    OBVIOUS
  <2> USE DEF TypeOK, Goto, DeleteTap
  <2>0. \A m \in Machine : tapName(m) \in Name
    BY DEF Name
  <2>1. ASSUME NEW m \in Machine, AllocateStep(m) \/ ReleaseStep(m)
        PROVE  Inv'
    <3>1. \A n \in Machine \ {m} :
            step'[n] = step[n] /\ maker'[tapName(n)] = maker[tapName(n)]
      BY <2>0, <2>1
      DEF AllocateStep, ReleaseStep, PickIP, PickFails, MacFails, DeleteStaleTap,
          AddTap, AddTapFails, AttachTap, BringTapUp, TapFails, AllocateFails,
          ReleaseTap, ReleaseIP
    <3>2. /\ maker'[tapName(m)] \in {Nobody, m}
          /\ step'[m] \in {"new", "picked"} => maker'[tapName(m)] = Nobody
      BY <2>0, <2>1
      DEF AllocateStep, ReleaseStep, PickIP, PickFails, MacFails, DeleteStaleTap,
          AddTap, AddTapFails, AttachTap, BringTapUp, TapFails, AllocateFails,
          ReleaseTap, ReleaseIP
    <3> QED
      BY <3>1, <3>2
  <2>2. CASE Restart
    BY <2>2 DEF Restart
  <2>3. CASE UNCHANGED vars
    BY <2>3 DEF vars
  <2> QED
    BY <2>1, <2>2, <2>3 DEF Next
<1>3. Inv => (\A m \in Machine : step[m] = "picked" /\ step'[m] = "cleared" =>
                LET owner == maker[tapName(m)] IN owner = Nobody \/ ~Holds(owner))
  OBVIOUS
<1> QED
  BY <1>1, <1>2, <1>3, AllocatorTypes, PTL DEF Spec, RemovesOnlyStaleTaps

-----------------------------------------------------------------------------
(* Setup, in front of the allocator.                                       *)

\* A step of the composition is a step of the allocator, or leaves it alone.
LEMMA AllocatorSteps == [SetupNext]_allVars => [Next]_vars
BY DEF SetupNext, allVars, SetupStep, ShowBridge, AddBridge, AddAddress, RaiseBridge,
       enableForwarding, detectEgress, CheckRule, CheckFails, AppendRule, AfterRule, SetupFails,
       Then, AllocatorStep, DaemonRestarts, Next

\* The daemon, from Setup on, implements the allocator's specification: what is
\* proved of the allocator holds of it.
THEOREM SetupKeepsAllocator == SetupSpec => Spec
<1>1. SetupInit => Init
  BY DEF SetupInit
<1> QED
  BY <1>1, AllocatorSteps, PTL DEF SetupSpec, Spec

\* So behind Setup, which is repeated at every start, addresses are distinct and
\* exhaustion is real.
THEOREM SetupKeepsPromises == SetupSpec => []AddressesDistinct /\ ExhaustedMeansFull
BY SetupKeepsAllocator, AddressesAlwaysDistinct, ExhaustionIsReal, PTL

-----------------------------------------------------------------------------
Setting == {"show", "add", "address", "raise", "forward", "egress", "check",
            "append", "ready", "failed"}

(* The inductive invariant: a rule is appended only when it is not there   *)
(* or its check has just failed once more, the rules before the one in     *)
(* hand are there, and the bridge and forwarding are as far as the         *)
(* commands before the next one made them.                                 *)
SetupInv ==
  /\ setup \in Setting /\ rule \in Rule
  /\ rules \in [Egress -> [Rule -> Nat]] /\ missed \in [Egress -> [Rule -> Nat]]
  /\ \A e \in Egress : \A r \in Rule : rules[e][r] <= 1 + missed[e][r]
  /\ setup \in {"check", "append", "ready"} => egress \in Egress
  /\ setup = "append" => rules[egress][rule] <= missed[egress][rule]
  /\ setup \in {"check", "append"} => \A r \in Rule : r < rule => rules[egress][r] >= 1
  /\ setup = "ready" => \A r \in Rule : rules[egress][r] >= 1
  /\ bridge # {} => "made" \in bridge
  /\ setup \notin {"show", "add", "failed"} => bridge # {}
  /\ setup \notin {"show", "add", "address", "raise", "failed"} => "up" \in bridge
  /\ setup \in {"egress", "check", "append", "ready"} => forwarding

\* The commands before the rules.
LEMMA BridgeSteps ==
  ASSUME SetupInv,
         \/ ShowBridge \/ AddBridge \/ AddAddress \/ RaiseBridge
         \/ enableForwarding \/ detectEgress \/ SetupFails \/ DaemonRestarts
  PROVE  SetupInv'
<1> USE DEF SetupInv, Setting, Rule, Then
<1>1. CASE ShowBridge
  BY <1>1 DEF ShowBridge
<1>2. CASE AddBridge \/ AddAddress \/ RaiseBridge
  BY <1>2 DEF AddBridge, AddAddress, RaiseBridge
<1>3. CASE enableForwarding \/ detectEgress
  BY <1>3 DEF enableForwarding, detectEgress
<1>4. CASE SetupFails \/ DaemonRestarts
  <2>1. /\ setup' \in {"show", "failed"} /\ rule' \in {rule, 1}
        /\ UNCHANGED <<bridge, rules, missed>>
    BY <1>4 DEF SetupFails, DaemonRestarts
  <2> QED
    BY <2>1
<1> QED
  BY <1>1, <1>2, <1>3, <1>4

\* Going on to the next rule, once the one in hand is there.
LEMMA NextRule ==
  ASSUME SetupInv, NEW from \in {"check", "append"}, AfterRule(from),
         UNCHANGED <<egress, bridge, forwarding, missed>>,
         rules' \in [Egress -> [Rule -> Nat]],
         \A e \in Egress : \A r \in Rule : rules'[e][r] <= 1 + missed[e][r],
         rules'[egress][rule] >= 1,
         \A r \in Rule : r < rule => rules'[egress][r] = rules[egress][r]
  PROVE  SetupInv'
<1>1. CASE rule = 3
  <2>1. setup' = "ready" /\ rule' = 1
    BY <1>1 DEF AfterRule, Then
  <2>2. \A r \in Rule : rules'[egress][r] >= 1
    BY <1>1 DEF AfterRule, Then, SetupInv, Rule
  <2> QED
    BY <2>1, <2>2 DEF AfterRule, Then, SetupInv, Setting, Rule
<1>2. CASE rule # 3
  <2>1. setup' = "check" /\ rule' = rule + 1
    <3>1. rule = 1 \/ rule = 2
      BY <1>2 DEF SetupInv, Rule
    <3>2. 1 % 3 = 1 /\ 2 % 3 = 2
      OBVIOUS
    <3> QED
      BY <1>2, <3>1, <3>2 DEF AfterRule, Then
  <2>2. \A r \in Rule : r < rule' => rules'[egress][r] >= 1
    BY <1>2, <2>1 DEF AfterRule, Then, SetupInv, Rule
  <2> QED
    BY <1>2, <2>1, <2>2 DEF AfterRule, Then, SetupInv, Setting, Rule
<1> QED
  BY <1>1, <1>2

\* It holds, wherever a command fails and Setup starts again.
LEMMA SetupInvariant == SetupSpec => []SetupInv
<1>1. SetupInit => SetupInv
  <2> SUFFICES ASSUME SetupInit PROVE SetupInv
    OBVIOUS
  <2>1. /\ rules \in [Egress -> [Rule -> Nat]] /\ missed \in [Egress -> [Rule -> Nat]]
        /\ \A e \in Egress : \A r \in Rule : rules[e][r] <= 1 + missed[e][r]
    <3>1. [r \in Rule |-> 0] \in [Rule -> Nat]
      OBVIOUS
    <3>2. /\ rules = [e \in Egress |-> [r \in Rule |-> 0]]
          /\ missed = [e \in Egress |-> [r \in Rule |-> 0]]
      BY DEF SetupInit
    <3>3. \A e \in Egress : \A r \in Rule : rules[e][r] = 0 /\ missed[e][r] = 0
      BY <3>2
    <3> QED
      BY <3>1, <3>2, <3>3
  <2>2. setup = "show" /\ rule = 1 /\ bridge = {}
    BY DEF SetupInit
  <2>3. setup \in Setting /\ rule \in Rule
    BY <2>2 DEF Setting, Rule
  <2>4. /\ setup \notin {"address", "raise", "forward", "egress", "check", "append",
                         "ready", "failed"}
        /\ "made" \notin bridge
    BY <2>2
  <2> QED
    BY <2>1, <2>2, <2>3, <2>4 DEF SetupInv
<1>2. SetupInv /\ [SetupNext]_allVars => SetupInv'
  <2> SUFFICES ASSUME SetupInv, [SetupNext]_allVars PROVE SetupInv'
    OBVIOUS
  <2>1. CASE CheckRule
    <3>1. /\ setup = "check" /\ egress \in Egress
          /\ UNCHANGED <<egress, bridge, forwarding, rules, missed>>
      BY <2>1 DEF CheckRule, SetupInv
    <3>2. CASE rules[egress][rule] > 0
      <4>1. AfterRule("check") /\ rules'[egress][rule] >= 1
        BY <2>1, <3>1, <3>2 DEF CheckRule, SetupInv
      <4> QED
        BY <3>1, <4>1, NextRule DEF SetupInv
    <3>3. CASE ~(rules[egress][rule] > 0)
      <4>1. setup' = "append" /\ rule' = rule
        BY <2>1, <3>3 DEF CheckRule, Then
      <4>2. rules[egress][rule] = 0
        BY <3>1, <3>3 DEF SetupInv
      <4> QED
        BY <3>1, <4>1, <4>2 DEF SetupInv, Setting
    <3> QED
      BY <3>2, <3>3
  <2>2. CASE AppendRule
    <3>1. /\ setup = "append" /\ egress \in Egress /\ rule \in Rule
          /\ rules[egress][rule] <= missed[egress][rule]
          /\ AfterRule("append") /\ UNCHANGED <<egress, bridge, forwarding, missed>>
          /\ rules' = [rules EXCEPT ![egress][rule] = @ + 1]
      BY <2>2 DEF AppendRule, AfterRule, Then, SetupInv
    <3>2. /\ rules' \in [Egress -> [Rule -> Nat]]
          /\ \A e \in Egress : \A r \in Rule : rules'[e][r] <= 1 + missed[e][r]
          /\ rules'[egress][rule] >= 1
          /\ \A r \in Rule : r < rule => rules'[egress][r] = rules[egress][r]
      BY <3>1 DEF SetupInv, Rule
    <3> QED
      BY <3>1, <3>2, NextRule
  <2>3. CASE CheckFails
    <3>1. /\ setup = "check" /\ setup' = "append"
          /\ UNCHANGED <<rule, egress, bridge, forwarding, rules>>
          /\ missed' = [missed EXCEPT ![egress][rule] = @ + 1]
      BY <2>3 DEF CheckFails, Then
    <3>2. egress \in Egress /\ rule \in Rule /\ missed[egress][rule] \in Nat
      BY <3>1 DEF SetupInv
    <3>3. /\ missed' \in [Egress -> [Rule -> Nat]]
          /\ missed'[egress][rule] = missed[egress][rule] + 1
          /\ \A e \in Egress : \A r \in Rule : missed[e][r] <= missed'[e][r]
      BY <3>1, <3>2 DEF SetupInv
    <3>4. \A e \in Egress : \A r \in Rule : rules'[e][r] <= 1 + missed'[e][r]
      BY <3>1, <3>3 DEF SetupInv
    <3>5. rules'[egress][rule] <= missed'[egress][rule]
      BY <3>1, <3>2, <3>3 DEF SetupInv
    <3> QED
      BY <3>1, <3>2, <3>3, <3>4, <3>5 DEF SetupInv, Setting
  <2>4. CASE AllocatorStep \/ UNCHANGED allVars
    BY <2>4 DEF AllocatorStep, allVars, setupVars, SetupInv
  <2> QED
    BY <2>1, <2>2, <2>3, <2>4, BridgeSteps DEF SetupNext, SetupStep
<1> QED
  BY <1>1, <1>2, PTL DEF SetupSpec

\* Interruption and repetition install no rule twice: only a check that fails
\* although its rule is there does, once each time; and a Setup that returns has
\* left bridge, forwarding and rules as the machines need them.
THEOREM SetupIsIdempotent == SetupSpec => []SetupIdempotent
<1>1. SetupInv => SetupIdempotent
  BY DEF SetupInv, SetupIdempotent, Rule
<1> QED
  BY <1>1, SetupInvariant, PTL
=============================================================================
