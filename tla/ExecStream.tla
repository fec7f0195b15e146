----------------------------- MODULE ExecStream -----------------------------
(***************************************************************************)
(* What POST /exec promises on the wire (internal/initd/protocol.go): an   *)
(* answer, then stdout and stderr frames in any order, then at most one    *)
(* terminal frame, then the end of the body.  A frame is named by its kind *)
(* and, for an exit frame, by whether the code it carries is zero; the     *)
(* bytes of an output frame are left out.                                  *)
(***************************************************************************)
EXTENDS Sequences

VARIABLES answer,  \* "none", "ok" (200) or "refused" (any other status)
          stream,  \* the frames sent so far
          ended    \* the sender is done with the connection

Output   == {"stdout", "stderr"}
Terminal == {"exit zero", "exit nonzero", "error"}

Terminated(s) == \E i \in DOMAIN s : s[i] \in Terminal

StreamInit == answer = "none" /\ stream = <<>> /\ ended = FALSE

Accept == /\ answer = "none" /\ ~ended
          /\ answer' = "ok"
          /\ UNCHANGED <<stream, ended>>

Refuse == /\ answer = "none" /\ ~ended
          /\ answer' = "refused" /\ ended' = TRUE
          /\ UNCHANGED stream

Emit(f) == /\ answer = "ok" /\ ~ended /\ ~Terminated(stream)
           /\ stream' = Append(stream, f)
           /\ UNCHANGED <<answer, ended>>

\* The body ends, with or without a terminal frame.
Finish == /\ ~ended
          /\ ended' = TRUE
          /\ UNCHANGED <<answer, stream>>

StreamNext == \/ Accept \/ Refuse \/ Finish
              \/ \E f \in Output \cup Terminal : Emit(f)

StreamSpec == StreamInit /\ [][StreamNext]_<<answer, stream, ended>>
=============================================================================
