----------------------------- MODULE ExecProxy ------------------------------
(***************************************************************************)
(* POST /machines/{id}/exec in the daemon (internal/api/initd.go): a       *)
(* goroutine runs initd.Client.Exec against the guest and writes its       *)
(* output frames to an io.Pipe, the handler copies the pipe to the user    *)
(* and adds the terminal frame when the goroutine has reported.  The guest *)
(* is the ExecStream it promises; its end covers a connection that breaks. *)
(***************************************************************************)
EXTENDS ExecStream, Naturals

CONSTANT MaxFrames  \* bound: frames the guest sends

ASSUME ProxyAssumption == MaxFrames \in Nat \ {0}

VARIABLES user,      \* the HTTP client: "there" or "gone"
          cancelled, \* r.Context() is cancelled
          handler,   \* "start", "copy", "write", "await", "terminal" or "returned"
          reply,     \* what the user was answered: "none", "ok" or "refused"
          chunk,     \* what the handler read from the pipe last
          out,       \* what was written to the user
          exec,      \* "idle", "post", "frames", "header", "payload", "close", "send", "ended"
          taken,     \* frames the client read off the guest's stream
          result,    \* what Exec returns, as the terminal frame it asks for
          readEnd, writeEnd,  \* the two ends of the io.Pipe are open
          doneCh     \* the buffered channel of one: a result or "empty"

guest  == <<answer, stream, ended>>
client == <<exec, taken, result>>
server == <<handler, reply, chunk, out>>
vars == <<guest, user, cancelled, server, client, readEnd, writeEnd, doneCh>>

Init == /\ StreamInit
        /\ user = "there" /\ cancelled = FALSE
        /\ handler = "start" /\ reply = "none"
        /\ chunk = <<>> /\ out = <<>>
        /\ exec = "idle" /\ taken = 0 /\ result = "none"
        /\ readEnd = TRUE /\ writeEnd = TRUE /\ doneCh = "empty"

(***************************************************************************)
(* The goroutine: Client.Exec, then pw.Close, then the report              *)
(***************************************************************************)
Client(from, to) == /\ exec = from /\ exec' = to
                    /\ UNCHANGED <<guest, user, cancelled, server, readEnd>>

Answered == /\ answer = "ok"
            /\ Client("post", "frames")
            /\ UNCHANGED <<taken, result, writeEnd, doneCh>>

\* No answer, another status than 200, or the request was cancelled.
PostFails == /\ answer = "refused" \/ (ended /\ answer = "none") \/ cancelled
             /\ Client("post", "close")
             /\ result' = "error"
             /\ UNCHANGED <<taken, writeEnd, doneCh>>

TakeFrame == taken < Len(stream) /\ taken' = taken + 1

ReadOutput == /\ TakeFrame /\ stream[taken'] \in Output
              /\ Client("frames", "header")
              /\ UNCHANGED <<result, writeEnd, doneCh>>

\* The terminal frame written through like any other.
ReadTerminalThrough == /\ TakeFrame /\ stream[taken'] \in Terminal
                       /\ Client("frames", "header")
                       /\ UNCHANGED <<result, writeEnd, doneCh>>

ReadTerminal == /\ TakeFrame /\ stream[taken'] \in Terminal
                /\ Client("frames", "close")
                /\ result' = stream[taken']
                /\ UNCHANGED <<writeEnd, doneCh>>

\* End of body read as success: the zero ExecResult and no error.
ReadNothingIsSuccess == /\ (ended /\ taken = Len(stream)) \/ cancelled
                        /\ Client("frames", "close")
                        /\ result' = "exit zero"
                        /\ UNCHANGED <<taken, writeEnd, doneCh>>

\* The stream ends before a terminal frame, or the request is cancelled.
ReadFails == /\ (ended /\ taken = Len(stream)) \/ cancelled
             /\ Client("frames", "close")
             /\ result' = "error"
             /\ UNCHANGED <<taken, writeEnd, doneCh>>

\* A write to the pipe fails once the handler has closed its end.
PipeBroken == /\ ~readEnd
              /\ Client("header", "close") \/ Client("payload", "close")
              /\ result' = "error"
              /\ UNCHANGED <<taken, writeEnd, doneCh>>

CloseForgotten == /\ Client("close", "send")
                  /\ UNCHANGED <<taken, result, writeEnd, doneCh>>

CloseWriter == /\ Client("close", "send")
               /\ writeEnd' = FALSE
               /\ UNCHANGED <<taken, result, doneCh>>

SendResult == /\ doneCh = "empty"
              /\ Client("send", "ended")
              /\ doneCh' = result
              /\ UNCHANGED <<taken, result, writeEnd>>

(***************************************************************************)
(* The handler                                                             *)
(***************************************************************************)
Handler(from, to) == /\ handler = from /\ handler' = to
                     /\ UNCHANGED <<guest, user, cancelled>>

\* No such machine, no running VM, a body that does not decode.
RejectRequest == /\ Handler("start", "returned")
                 /\ reply' = "refused" /\ readEnd' = FALSE
                 /\ UNCHANGED <<chunk, out, client, writeEnd, doneCh>>

StartExec == /\ Handler("start", "copy")
             /\ reply' = "ok" /\ exec' = "post"
             /\ UNCHANGED <<chunk, out, taken, result, readEnd, writeEnd, doneCh>>

\* The two writes of frameWriter.Write meet the handler's reads.
CopyChunk == /\ \/ exec = "header" /\ exec' = "payload"
                \/ exec = "payload" /\ exec' = "frames"
             /\ Handler("copy", "write")
             /\ chunk' = <<stream[taken], exec>>
             /\ UNCHANGED <<reply, out, taken, result, readEnd, writeEnd, doneCh>>

\* A write to a user who is gone is lost, or fails.
WriteChunk == /\ Handler("write", "copy")
              /\ out' = IF user = "there" THEN Append(out, chunk) ELSE out
              /\ UNCHANGED <<reply, chunk, client, readEnd, writeEnd, doneCh>>

WriteFails == /\ user = "gone"
              /\ Handler("write", "returned")
              /\ readEnd' = FALSE    \* defer pr.Close()
              /\ UNCHANGED <<reply, chunk, out, client, writeEnd, doneCh>>

PipeEnds == /\ ~writeEnd
            /\ Handler("copy", "await")
            /\ UNCHANGED <<reply, chunk, out, client, readEnd, writeEnd, doneCh>>

ReceiveResult == /\ doneCh # "empty"
                 /\ Handler("await", "terminal")
                 /\ UNCHANGED <<reply, chunk, out, client, readEnd, writeEnd, doneCh>>

\* An error of Exec ends the response without a frame.
WriteOnlyExit == /\ Handler("terminal", "returned")
                 /\ out' = IF user = "there" /\ doneCh # "error"
                           THEN Append(out, <<doneCh, "frame">>) ELSE out
                 /\ readEnd' = FALSE
                 /\ UNCHANGED <<reply, chunk, client, writeEnd, doneCh>>

WriteTerminal == /\ Handler("terminal", "returned")
                 /\ out' = IF user = "there" THEN Append(out, <<doneCh, "frame">>) ELSE out
                 /\ readEnd' = FALSE
                 /\ UNCHANGED <<reply, chunk, client, writeEnd, doneCh>>

(***************************************************************************)
(* net/http, the user and the guest                                        *)
(***************************************************************************)
ServerCancels == /\ user = "gone" \/ handler = "returned"
                 /\ ~cancelled /\ cancelled' = TRUE
                 /\ UNCHANGED <<guest, user, server, client, readEnd, writeEnd, doneCh>>

UserLeaves == /\ user = "there" /\ handler # "returned"
              /\ user' = "gone"
              /\ UNCHANGED <<guest, cancelled, server, client, readEnd, writeEnd, doneCh>>

\* The guest hears of a request once it is posted.
GuestStep == /\ exec # "idle"
             /\ \/ Accept \/ Refuse \/ Finish
                \/ \E f \in Output \cup Terminal : Len(stream) < MaxFrames /\ Emit(f)
             /\ UNCHANGED <<user, cancelled, server, client, readEnd, writeEnd, doneCh>>

ClientStep == \/ Answered \/ PostFails \/ ReadOutput \/ ReadTerminal \/ ReadFails
              \/ PipeBroken \/ CloseWriter \/ SendResult

\* A write to the user waits for room in the connection, without a timeout.
WriteStep == WriteChunk \/ WriteTerminal

OwnStep == \/ RejectRequest \/ StartExec \/ CopyChunk \/ WriteFails
           \/ PipeEnds \/ ReceiveResult

HandlerStep == OwnStep \/ WriteStep

Next == ClientStep \/ HandlerStep \/ ServerCancels \/ UserLeaves \/ GuestStep

SafetySpec == Init /\ [][Next]_vars

\* Goroutines are scheduled, net/http cancels, and a write to a user who is gone
\* comes back.  The guest is free, and so is a user who stays and need not read.
Fairness == /\ WF_vars(ClientStep) /\ WF_vars(ServerCancels)
            /\ WF_vars(OwnStep \/ (user = "gone" /\ WriteStep))

Spec == SafetySpec /\ Fairness

(***************************************************************************)
(* Properties                                                              *)
(***************************************************************************)

IsTerminal(item) == item[1] \in Terminal

\* The user receives the guest's output frames, whole and in the guest's order,
\* then at most one terminal frame and nothing after it: a terminal frame never
\* splits another (internal/api/initd.go:81-120).
InGuestOrder == \A i \in DOMAIN out :
    IF IsTerminal(out[i])
    THEN i = Len(out) /\ i % 2 = 1
    ELSE out[i] = <<stream[(i + 1) \div 2], IF i % 2 = 1 THEN "header" ELSE "payload">>

\* An exit code the user sees is the guest's, and every output frame before it
\* was delivered: a broken stream never reads as an exit.
ExitIsTheGuests == \A i \in DOMAIN out :
    out[i][1] \in {"exit zero", "exit nonzero"} =>
        /\ i = 2 * Len(stream) - 1
        /\ stream[Len(stream)] = out[i][1]

\* A user who stays gets a terminal frame, whatever became of the guest.
EveryResponseEnds ==
    handler = "returned" /\ user = "there" /\ reply = "ok" =>
        out # <<>> /\ IsTerminal(out[Len(out)])

\* The user, as long as it stays, reads what it is sent.
UserReads == WF_vars(user = "there" /\ WriteStep)

\* The goroutine outlives the handler only for a while, whatever the guest and
\* the user do: neither the pipe, nor the channel, nor a silent guest can hold
\* it (initd.go:78-87).  And when the guest's stream is over the handler returns,
\* if the user reads or leaves.
NobodyHangs == /\ (handler = "returned") ~> (exec \in {"idle", "ended"})
               /\ UserReads => (ended ~> (handler = "returned"))
=============================================================================
