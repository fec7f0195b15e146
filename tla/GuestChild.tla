----------------------------- MODULE GuestChild -----------------------------
(***************************************************************************)
(* A process that a connection handler of initd forks, and the two ways    *)
(* its end is collected: the waitpid(pid) of the handler, and the SIGCHLD  *)
(* handler, which every connection process inherits from PID 1 and which   *)
(* reaps any child with waitpid(-1, WNOHANG) (initd.c:1001-1005, 1018).     *)
(***************************************************************************)

VARIABLES pc,       \* position of the connection process
          child,    \* the forked process: "none", "running", "zombie" or "reaped"
          outcome,  \* how it ended, "none" before
          wstatus   \* what the handler believes it ended with

Outcome   == {"zero", "nonzero", "signal"}
InWaitpid == {"collecting", "abandoning"}  \* asleep in waitpid, the child alive

ChildInit == child = "none" /\ outcome = "none" /\ wstatus = "none"

Fork == /\ child = "none"
        /\ child' = "running"
        /\ UNCHANGED <<outcome, wstatus>>

Dies(o) == /\ child = "running"
           /\ child' = "zombie" /\ outcome' = o
           /\ UNCHANGED <<pc, wstatus>>

\* SIGCHLD is delivered wherever the process is, except to a process already
\* asleep in waitpid: that call finds the zombie before a handler can run.
SigchldReaps == /\ child = "zombie" /\ pc \notin InWaitpid
                /\ child' = "reaped"
                /\ UNCHANGED <<pc, outcome, wstatus>>

\* waitpid(pid) called at from; it sleeps at asleep and returns to next.  When
\* the SIGCHLD handler was first it fails with ECHILD, and the status variable
\* keeps a value of untouched.
WaitSleeps(from, asleep) == /\ pc = from /\ child = "running"
                            /\ pc' = asleep
                            /\ UNCHANGED <<child, outcome, wstatus>>

WaitCollects(from, asleep, next) == /\ pc \in {from, asleep} /\ child = "zombie"
                                    /\ child' = "reaped" /\ wstatus' = outcome
                                    /\ pc' = next
                                    /\ UNCHANGED outcome

WaitFindsNoChild(from, next, untouched) == /\ pc = from /\ child = "reaped"
                                           /\ wstatus' \in untouched
                                           /\ pc' = next
                                           /\ UNCHANGED <<child, outcome>>
=============================================================================
