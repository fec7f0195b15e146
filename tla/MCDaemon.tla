------------------------------ MODULE MCDaemon ------------------------------
(* An instance of Daemon for TLC.                                          *)
EXTENDS Daemon

\* The taps of all machines have one name.
OneDevice == [m \in Machine |-> "tap"]
=============================================================================
