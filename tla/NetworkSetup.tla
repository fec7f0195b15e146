---------------------------- MODULE NetworkSetup ----------------------------
(***************************************************************************)
(* Manager.Setup of internal/network/network.go, in front of the allocator *)
(* of Network: the daemon makes the bridge, turns forwarding on and adds   *)
(* the iptables rules, one command after another, before it makes the      *)
(* first tap device.  A command may fail, which ends the daemon, and the   *)
(* daemon may end at any moment; what the commands did stays in the kernel *)
(* and the next daemon process begins again.                               *)
(***************************************************************************)
EXTENDS Network

CONSTANTS
  Egress,     \* interfaces that lead out, of which the route names one
  Missable    \* bound: the rules whose check may fail although they are there

VARIABLES
  setup,       \* the command that comes next, "ready" or "failed"
  rule,        \* the rule it is about
  egress,      \* m.egress, "" before it is known
  bridge,      \* what is set up of the bridge
  forwarding,  \* ip_forward is on
  rules,       \* rules[e][r]: how often rule r for interface e is installed
  missed       \* history: missed[e][r], how often its check failed nevertheless

setupVars == <<setup, rule, egress, bridge, forwarding, rules, missed>>
allVars == <<vars, setupVars>>

\* MASQUERADE and the two FORWARD rules.
Rule == 1 .. 3

SetupInit ==
  /\ Init
  /\ setup = "show" /\ rule = 1 /\ egress = ""
  /\ bridge = {} /\ forwarding = FALSE
  /\ rules = [e \in Egress |-> [r \in Rule |-> 0]]
  /\ missed = [e \in Egress |-> [r \in Rule |-> 0]]

Then(from, to) == setup = from /\ setup' = to /\ UNCHANGED vars

-----------------------------------------------------------------------------
(* ensureBridge.                                                           *)

\* ip link show fails without a bridge, and may fail with one.
ShowBridge ==
  /\ \E to \in {"add", "address"} : Then("show", to) /\ (to = "address" => bridge # {})
  /\ UNCHANGED <<rule, egress, bridge, forwarding, rules, missed>>

AddBridge ==
  /\ bridge = {}
  /\ Then("add", "address")
  /\ bridge' = {"made"}
  /\ UNCHANGED <<rule, egress, forwarding, rules, missed>>

\* Its error is ignored, whatever it is; the address is left out.
AddAddress ==
  /\ Then("address", "raise")
  /\ UNCHANGED <<rule, egress, bridge, forwarding, rules, missed>>

RaiseBridge ==
  /\ Then("raise", "forward")
  /\ bridge' = bridge \cup {"up"}
  /\ UNCHANGED <<rule, egress, forwarding, rules, missed>>

enableForwarding ==
  /\ Then("forward", "egress")
  /\ forwarding' = TRUE
  /\ UNCHANGED <<rule, egress, bridge, rules, missed>>

\* The route of the moment, which may have changed since the last start.
detectEgress ==
  /\ Then("egress", "check")
  /\ egress' \in Egress /\ rule' = 1
  /\ UNCHANGED <<bridge, forwarding, rules, missed>>

-----------------------------------------------------------------------------
(* ensureIptables.                                                         *)

AfterRule(from) == Then(from, IF rule = 3 THEN "ready" ELSE "check")
                   /\ rule' = (rule % 3) + 1

\* Faulty variant: rules are appended without a look at what is there.
CheckRuleSkipped ==
  /\ Then("check", "append")
  /\ UNCHANGED <<rule, egress, bridge, forwarding, rules, missed>>

\* iptables -C finds the rule, or it is appended.  Every error of the command
\* is taken for the absence of the rule: a lock held by another process, too.
CheckRule ==
  /\ setup = "check"
  /\ IF rules[egress][rule] > 0 THEN AfterRule("check")
     ELSE Then("check", "append") /\ UNCHANGED rule
  /\ UNCHANGED <<egress, bridge, forwarding, rules, missed>>

CheckFails ==
  /\ Then("check", "append")
  /\ rules[egress][rule] > 0
  /\ rule \in Missable
  /\ missed' = [missed EXCEPT ![egress][rule] = @ + 1]
  /\ UNCHANGED <<rule, egress, bridge, forwarding, rules>>

AppendRule ==
  /\ AfterRule("append")
  /\ rules' = [rules EXCEPT ![egress][rule] = @ + 1]
  /\ UNCHANGED <<egress, bridge, forwarding, missed>>

\* A command fails whose error Setup returns: the daemon exits.
SetupFails ==
  /\ \E from \in {"add", "raise", "forward", "egress", "append"} : Then(from, "failed")
  /\ UNCHANGED <<rule, egress, bridge, forwarding, rules, missed>>

SetupStep ==
  \/ ShowBridge \/ AddBridge \/ AddAddress \/ RaiseBridge \/ enableForwarding
  \/ detectEgress \/ CheckRule \/ CheckFails \/ AppendRule \/ SetupFails

-----------------------------------------------------------------------------
\* The daemon is up: its machines come and go.
AllocatorStep ==
  /\ setup = "ready"
  /\ \E m \in Machine : AllocateStep(m) \/ ReleaseStep(m)
  /\ UNCHANGED setupVars

DaemonRestarts ==
  /\ Restart
  /\ setup' = "show" /\ rule' = 1 /\ egress' = ""
  /\ UNCHANGED <<bridge, forwarding, rules, missed>>

SetupNext == SetupStep \/ AllocatorStep \/ DaemonRestarts

SetupSpec == SetupInit /\ [][SetupNext]_allVars

-----------------------------------------------------------------------------
(* However often Setup was cut short and begun again, with another egress  *)
(* interface or the same, a rule is installed twice only if its check      *)
(* failed although it was there, and never more often than that; and once  *)
(* Setup returns the bridge is up, packets are forwarded and each of the   *)
(* three rules of the interface in use is there.                           *)
SetupIdempotent ==
  /\ \A e \in Egress : \A r \in Rule : rules[e][r] <= 1 + missed[e][r]
  /\ setup = "ready" =>
       /\ {"made", "up"} \subseteq bridge /\ forwarding
       /\ \A r \in Rule : rules[egress][r] >= 1
=============================================================================
