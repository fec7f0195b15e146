----------------------------- MODULE GuestExec ------------------------------
(***************************************************************************)
(* One POST /exec in the guest (handle_exec, initd.c): the connection      *)
(* process, the command it forks, the two pipes between them, whatever the *)
(* command leaves running in the background on those pipes, and the host   *)
(* at the other end of the connection.  A pipe counts reads: one unit is   *)
(* what one read() returns, at most READ_BUF bytes.                        *)
(***************************************************************************)
EXTENDS ExecStream, GuestChild, Naturals, FiniteSets

CONSTANTS MaxWrites,  \* bound: what the command writes to each pipe
          Faults      \* the calls that may fail, of "mkdir", "spawn" and "poll"

ASSUME GuestExecAssumption == /\ MaxWrites \in Nat
                              /\ Faults \subseteq {"mkdir", "spawn", "poll"}

VARIABLES pipe,     \* reads waiting in each pipe
          writers,  \* who holds the write end of each pipe
          open,     \* the read ends the pump still polls
          written,  \* everything ever written to each pipe
          peer      \* the host: "there" or "gone"

streamVars == <<answer, stream, ended>>
childVars  == <<child, outcome, wstatus>>
pipeVars   == <<pipe, writers, written>>
vars == <<streamVars, pc, childVars, pipeVars, open, peer>>

Holder == {"command", "descendant"}

Init == /\ StreamInit /\ ChildInit
        /\ pc = "request"
        /\ pipe = [s \in Output |-> 0]
        /\ written = [s \in Output |-> 0]
        /\ writers = [s \in Output |-> {}]
        /\ open = {}
        /\ peer = "there"

Goto(from, to) == pc = from /\ pc' = to

\* chunked_write: nothing reaches a host that is gone.
Send(f) == /\ stream' = IF peer = "there" THEN Append(stream, f) ELSE stream
           /\ UNCHANGED <<answer, ended>>

(***************************************************************************)
(* The connection process                                                  *)
(***************************************************************************)

\* The request is unusable (400), or its body is cut short (no answer).
RejectRequest == /\ Goto("request", "closed")
                 /\ answer' \in {"refused", "none"} /\ ended' = TRUE
                 /\ UNCHANGED <<stream, childVars, pipeVars, open, peer>>

AcceptRequest == /\ Goto("request", "workdir")
                 /\ answer' = "ok"
                 /\ UNCHANGED <<stream, ended, childVars, pipeVars, open, peer>>

MakeWorkdir == /\ Goto("workdir", "spawn")
               /\ UNCHANGED <<streamVars, childVars, pipeVars, open, peer>>

\* The error is sent, and the command started all the same.
WorkdirFailsOn == /\ "mkdir" \in Faults
                  /\ Goto("workdir", "spawn")
                  /\ Send("error")
                  /\ UNCHANGED <<childVars, pipeVars, open, peer>>

WorkdirFails == /\ "mkdir" \in Faults
                /\ Goto("workdir", "end")
                /\ Send("error")
                /\ UNCHANGED <<childVars, pipeVars, open, peer>>

\* pipe2 or fork fails: the body ends at once.
SpawnFails == /\ "spawn" \in Faults
              /\ Goto("spawn", "end")
              /\ UNCHANGED <<streamVars, childVars, pipeVars, open, peer>>

Spawn == /\ Goto("spawn", "pump")
         /\ Fork
         /\ writers' = [s \in Output |-> {"command"}]
         /\ open' = Output
         /\ UNCHANGED <<streamVars, pipe, written, peer>>

PumpReads(s) == /\ pc = "pump" /\ s \in open /\ pipe[s] > 0
                /\ pipe' = [pipe EXCEPT ![s] = @ - 1]
                /\ Send(s)
                /\ IF peer = "there" THEN UNCHANGED <<pc, open>>
                   ELSE pc' = "abandon" /\ open' = {}   \* kill, close, reap
                /\ UNCHANGED <<childVars, writers, written, peer>>

\* The end of one pipe taken for the end of both.
PumpStopsAtFirstEnd(s) == /\ pc = "pump" /\ s \in open
                          /\ pipe[s] = 0 /\ writers[s] = {}
                          /\ open' = {}
                          /\ UNCHANGED <<streamVars, pc, childVars, pipeVars, peer>>

\* A closed descriptor left in the poll set: it stays readable for ever.
PumpKeepsPolling(s) == /\ pc = "pump" /\ s \in open
                       /\ pipe[s] = 0 /\ writers[s] = {}
                       /\ UNCHANGED vars

PumpSeesEnd(s) == /\ pc = "pump" /\ s \in open
                  /\ pipe[s] = 0 /\ writers[s] = {}
                  /\ open' = open \ {s}
                  /\ UNCHANGED <<streamVars, pc, childVars, pipeVars, peer>>

\* Without the waitpid of the path a lost host takes.
PumpEndsUnwaited == /\ open = {}
                    /\ Goto("pump", "end")
                    /\ UNCHANGED <<streamVars, childVars, pipeVars, open, peer>>

PumpEnds == /\ open = {}
            /\ Goto("pump", "collect")
            /\ UNCHANGED <<streamVars, childVars, pipeVars, open, peer>>

\* poll fails with something else than EINTR.
PollFails == /\ "poll" \in Faults
             /\ Goto("pump", "collect")
             /\ UNCHANGED <<streamVars, childVars, pipeVars, open, peer>>

\* int wstatus = 0, which reads as an exit with code zero.
Collect == /\ \/ WaitSleeps("collect", "collecting")
              \/ WaitCollects("collect", "collecting", "report")
              \/ WaitFindsNoChild("collect", "report", {"zero"})
           /\ UNCHANGED <<streamVars, pipeVars, open, peer>>

\* The status is asked for, and not passed to waitpid, in the abandoned path.
Abandon == /\ \/ WaitSleeps("abandon", "abandoning")
              \/ WaitCollects("abandon", "abandoning", "end")
              \/ WaitFindsNoChild("abandon", "end", {wstatus})
           /\ UNCHANGED <<streamVars, pipeVars, open, peer>>

Report == /\ Goto("report", "end")
          /\ Send(CASE wstatus = "zero"    -> "exit zero"
                    [] wstatus = "nonzero" -> "exit nonzero"
                    [] wstatus = "signal"  -> "error")
          /\ UNCHANGED <<childVars, pipeVars, open, peer>>

EndBody == /\ Goto("end", "closed")
           /\ ended' = TRUE
           /\ UNCHANGED <<answer, stream, childVars, pipeVars, open, peer>>

(***************************************************************************)
(* The command, what it leaves in the background, the kernel, the host     *)
(***************************************************************************)

\* A write to a pipe whose read end is closed reaches nobody.
Writes(s) == /\ writers[s] # {} /\ s \in open
             /\ written[s] < MaxWrites
             /\ written' = [written EXCEPT ![s] = @ + 1]
             /\ pipe' = [pipe EXCEPT ![s] = @ + 1]
             /\ UNCHANGED <<streamVars, pc, childVars, writers, open, peer>>

LeavesDescendant(s) ==
    /\ child = "running" /\ "command" \in writers[s]
    /\ writers' = [writers EXCEPT ![s] = @ \cup {"descendant"}]
    /\ UNCHANGED <<streamVars, pc, childVars, pipe, written, open, peer>>

\* Any holder may close its end early; the command's are closed before it is
\* a zombie.
ClosesEnd(s, h) == /\ h \in writers[s]
                   /\ writers' = [writers EXCEPT ![s] = @ \ {h}]
                   /\ UNCHANGED <<streamVars, pc, childVars, pipe, written, open, peer>>

CommandDies(o) == /\ \A s \in Output : "command" \notin writers[s]
                  /\ Dies(o)
                  /\ UNCHANGED <<streamVars, pipeVars, open, peer>>

Sigchld == /\ SigchldReaps
           /\ UNCHANGED <<streamVars, pipeVars, open, peer>>

PeerLeaves == /\ peer = "there" /\ ~ended
              /\ peer' = "gone"
              /\ UNCHANGED <<streamVars, pc, childVars, pipeVars, open>>

\* A write to the connection waits for room in it, without a timeout.
WriteStep == (\E s \in Output : PumpReads(s)) \/ Report \/ EndBody

OwnStep == \/ AcceptRequest \/ MakeWorkdir \/ Spawn
           \/ \E s \in Output : PumpSeesEnd(s)
           \/ PumpEnds \/ Collect \/ Abandon

HandlerStep == OwnStep \/ WriteStep

FaultStep == RejectRequest \/ WorkdirFails \/ SpawnFails \/ PollFails

CommandStep == \/ \E s \in Output : Writes(s) \/ LeavesDescendant(s)
               \/ \E s \in Output, h \in Holder : ClosesEnd(s, h)
               \/ \E o \in Outcome : CommandDies(o)

Next == HandlerStep \/ FaultStep \/ CommandStep \/ Sigchld \/ PeerLeaves

SafetySpec == Init /\ [][Next]_vars

\* The connection process is scheduled, and a write to a host that is gone fails
\* at once.  Nothing is assumed of the command, nor of a host that is there.
Fairness == WF_vars(OwnStep \/ (peer = "gone" /\ WriteStep))

Spec == SafetySpec /\ Fairness

(***************************************************************************)
(* Properties                                                              *)
(***************************************************************************)

Sent(s) == Cardinality({i \in DOMAIN stream : stream[i] = s})

\* A terminal frame tells the truth.  Unless poll failed and left the pipes
\* unread, it is sent only when everything that the command and its descendants
\* wrote has been sent before it and nobody can write any more: the pump
\* (initd.c:703-745) outlives the command.  It reports a failure only when there
\* was one: a nonzero code is the command's own, an error frame means that a
\* signal killed it or that it was never started (initd.c:747-770, 641-655).
TerminalFrameTrue ==
    /\ Terminated(stream) /\ open = {} =>
          \A s \in Output : Sent(s) = written[s] /\ writers[s] = {}
    /\ \A i \in DOMAIN stream :
          /\ stream[i] = "exit nonzero" => outcome = "nonzero"
          /\ stream[i] = "error" => outcome = "signal" \/ child = "none"

\* The handler leaves no child behind, whichever path it returns by.
LeavesNoChild == pc = "closed" => child \in {"none", "reaped"}

\* handle_exec keeps the promise of the frame stream: one answer, output
\* frames, at most one terminal frame and nothing after it.
ImplementsExecStream == StreamSpec

\* The host, as long as it is there, reads what it is sent.
HostReads == WF_vars(peer = "there" /\ WriteStep)

\* Once the command is gone and nobody holds its pipes, the response ends, if the
\* host reads it or leaves: the pump cannot poll on, and waitpid cannot sleep on
\* a child that was reaped.
ResponseEnds ==
    HostReads => ((child \in {"zombie", "reaped"} /\ \A s \in Output : writers[s] = {})
                      ~> (pc = "closed"))

(***************************************************************************)
(* A statement of the repository that the code does not keep               *)
(***************************************************************************)

\* protocol.go:35 and initd.c:998: an exit frame carries the exit code, since
\* every fork() is waited for explicitly.
ReportsExitCode == \A i \in DOMAIN stream :
                      stream[i] = "exit zero" => outcome = "zero"
=============================================================================
