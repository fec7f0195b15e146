---------------------------- MODULE MCVmManager ----------------------------
(* Instances of VmManager for TLC.                                         *)
EXTENDS VmManager, TLC

\* Machines, and callers, are interchangeable: only the safety runs use it.
Symmetry == Permutations(Machine) \cup Permutations(Caller)

\* The taps of all machines have one name.
OneDevice == [m \in Machine |-> "tap"]
=============================================================================
