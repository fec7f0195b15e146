-------------------------- MODULE GuestExec_proof ---------------------------
(***************************************************************************)
(* Theorems about GuestExec, for any amount of output and any set of calls *)
(* that may fail.                                                          *)
(***************************************************************************)
EXTENDS GuestExec, FiniteSetTheorems, TLAPS

-----------------------------------------------------------------------------
Frame == Output \cup Terminal

\* Before the command is started, while it is looked after, and after.
Early    == {"request", "workdir", "spawn"}
Minding  == {"pump", "collect", "collecting", "abandon", "abandoning"}
Leaving  == {"end", "closed"}

(* Where the handler is tells what became of the child, and what the       *)
(* handler believes it ended with.                                         *)
HandlerInv ==
  /\ pc \in Early \cup Minding \cup Leaving \cup {"report"}
  /\ child \in {"none", "running", "zombie", "reaped"}
  /\ child \in {"zombie", "reaped"} => outcome \in Outcome
  /\ pc \in Early => child = "none"
  /\ pc \in Minding => child # "none"
  /\ pc = "report" => child = "reaped" /\ wstatus \in {"zero", outcome}
  /\ pc \in Leaving => child \in {"none", "reaped"}

(* Where the handler is tells how far the response is; a terminal frame is *)
(* the handler's last, and true of how the command ended.                  *)
AnswerInv ==
  /\ pc = "request" => answer = "none"
  /\ pc \notin {"request", "closed"} => answer = "ok"
  /\ ended = (pc = "closed")
  /\ stream \in Seq(Frame)
  /\ Terminated(stream) => pc \in Leaving
  /\ \A i \in DOMAIN stream :
       /\ stream[i] = "exit nonzero" => outcome = "nonzero"
       /\ stream[i] = "error" => outcome = "signal" \/ child = "none"

\* What was written to s has been sent or waits in the pipe, and a pipe that
\* the pump has given up is empty and will stay so.
Accounted(s) ==
  /\ Sent(s) + pipe[s] = written[s]
  /\ s \notin open => pipe[s] = 0 /\ writers[s] = {}

(* Nothing is lost on a path that can still report how the command ended.  *)
PipeInv ==
  /\ pipe \in [Output -> Nat] /\ written \in [Output -> Nat]
  /\ writers \in [Output -> SUBSET Holder] /\ open \subseteq Output
  /\ child = "none" => \A s \in Output : written[s] = 0 /\ writers[s] = {}
  /\ pc \in Early \cup {"pump", "collect", "collecting", "report"}
       \/ child = "none" \/ Terminated(stream) => \A s \in Output : Accounted(s)

-----------------------------------------------------------------------------
(* Counting frames.                                                        *)

\* One more frame is counted once, under its own name.
LEMMA SentOneMore ==
  ASSUME NEW s \in Output, NEW f \in Frame, stream \in Seq(Frame),
         stream' = Append(stream, f)
  PROVE  /\ Sent(s) \in Nat
         /\ Sent(s)' = IF f = s THEN Sent(s) + 1 ELSE Sent(s)
<1> DEFINE S == {i \in DOMAIN stream : stream[i] = s}
           T == {i \in DOMAIN stream' : stream'[i] = s}
           n == Len(stream)
<1>1. /\ n \in Nat /\ DOMAIN stream = 1 .. n /\ DOMAIN stream' = 1 .. n + 1
      /\ stream'[n + 1] = f /\ \A i \in 1 .. n : stream'[i] = stream[i]
  <2>1. n \in Nat /\ stream' \in Seq(Frame) /\ Len(stream') = n + 1
    OBVIOUS
  <2> QED
    BY <2>1
<1>2. IsFiniteSet(S) /\ Cardinality(S) \in Nat
  <2>1. IsFiniteSet(1 .. n)
    BY <1>1, FS_Interval
  <2>2. S \subseteq 1 .. n
    BY <1>1
  <2> QED
    BY <2>1, <2>2, FS_Subset, FS_CardinalityType
<1>3. n + 1 \notin S
  BY <1>1
<1>4. T = IF f = s THEN S \cup {n + 1} ELSE S
  BY <1>1
<1> HIDE DEF S, T, n
<1>5. Cardinality(S \cup {n + 1}) = Cardinality(S) + 1
  BY <1>2, <1>3, FS_AddElement
<1>6. Sent(s) = Cardinality(S) /\ Sent(s)' = Cardinality(T)
  BY DEF Sent, S, T
<1> QED
  BY <1>2, <1>4, <1>5, <1>6

\* A count of frames is a number.
LEMMA CountIsNat ==
  ASSUME NEW s \in Output, stream \in Seq(Frame)
  PROVE  Sent(s) \in Nat
<1>1. IsFiniteSet(1 .. Len(stream))
  BY FS_Interval
<1>2. {i \in DOMAIN stream : stream[i] = s} \subseteq 1 .. Len(stream)
  OBVIOUS
<1> QED
  BY <1>1, <1>2, FS_Subset, FS_CardinalityType DEF Sent

\* Nothing is counted in an empty stream.
LEMMA NothingSent ==
  ASSUME NEW s \in Output, stream = <<>>
  PROVE  Sent(s) = 0
<1>1. {i \in DOMAIN stream : stream[i] = s} = {}
  OBVIOUS
<1> QED
  BY <1>1, FS_EmptySet DEF Sent

\* A host that is gone is sent nothing.
LEMMA SentOrNot ==
  ASSUME NEW f \in Frame, Send(f), stream \in Seq(Frame)
  PROVE  /\ UNCHANGED <<answer, ended>>
         /\ stream' \in Seq(Frame)
         /\ Terminated(stream) => Terminated(stream')
         /\ Terminated(stream') => Terminated(stream) \/ f \in Terminal
         /\ \/ stream' = stream /\ peer # "there"
            \/ stream' = Append(stream, f) /\ peer = "there"
         /\ \A i \in DOMAIN stream' : \/ i \in DOMAIN stream /\ stream'[i] = stream[i]
                                      \/ stream'[i] = f
<1>1. CASE peer = "there"
  <2> DEFINE n == Len(stream)
  <2>0. stream' = Append(stream, f) /\ UNCHANGED <<answer, ended>>
    BY <1>1 DEF Send
  <2>1. /\ n \in Nat /\ DOMAIN stream = 1 .. n /\ DOMAIN stream' = 1 .. n + 1
        /\ stream'[n + 1] = f /\ \A i \in 1 .. n : stream'[i] = stream[i]
        /\ stream' \in Seq(Frame)
    <3>1. n \in Nat /\ stream' \in Seq(Frame) /\ Len(stream') = n + 1
      BY <2>0
    <3> QED
      BY <2>0, <3>1
  <2> HIDE DEF n
  <2>2. \A i \in DOMAIN stream' : \/ i \in DOMAIN stream /\ stream'[i] = stream[i]
                                  \/ stream'[i] = f
    BY <2>1
  <2>3. \A i \in DOMAIN stream : i \in DOMAIN stream' /\ stream'[i] = stream[i]
    BY <2>1
  <2> QED
    BY <1>1, <2>0, <2>1, <2>2, <2>3 DEF Terminated
<1>2. CASE peer # "there"
  BY <1>2 DEF Send
<1> QED
  BY <1>1, <1>2

-----------------------------------------------------------------------------
(* The handler and the child.                                              *)

LEMMA HandlerInvariant == SafetySpec => []HandlerInv
<1> USE DEF HandlerInv, Early, Minding, Leaving, Outcome
<1>1. Init => HandlerInv
  BY DEF Init, ChildInit
<1>2. HandlerInv /\ [Next]_vars => HandlerInv'
  <2> SUFFICES ASSUME HandlerInv, [Next]_vars PROVE HandlerInv'
    OBVIOUS
  <2>1. CASE FaultStep
    BY <2>1 DEF FaultStep, RejectRequest, WorkdirFails, SpawnFails, PollFails, Goto,
                childVars
  <2>2. CASE AcceptRequest \/ MakeWorkdir \/ Spawn
    BY <2>2 DEF AcceptRequest, MakeWorkdir, Spawn, Goto, Fork, childVars
  <2>3. ASSUME NEW s \in Output, PumpReads(s) \/ PumpSeesEnd(s)
        PROVE  HandlerInv'
    BY <2>3 DEF PumpReads, PumpSeesEnd, childVars
  <2>4. CASE PumpEnds \/ Report \/ EndBody
    BY <2>4 DEF PumpEnds, Report, EndBody, Goto, childVars
  <2>5. CASE Collect
    BY <2>5 DEF Collect, WaitSleeps, WaitCollects, WaitFindsNoChild
  <2>6. CASE Abandon
    BY <2>6 DEF Abandon, WaitSleeps, WaitCollects, WaitFindsNoChild
  <2>7. CASE CommandStep
    BY <2>7 DEF CommandStep, Writes, LeavesDescendant, ClosesEnd, CommandDies, Dies,
                childVars
  <2>8. CASE Sigchld \/ PeerLeaves \/ UNCHANGED vars
    BY <2>8 DEF Sigchld, SigchldReaps, PeerLeaves, vars, childVars
  <2> QED
    BY <2>1, <2>2, <2>3, <2>4, <2>5, <2>6, <2>7, <2>8 DEF Next, HandlerStep, OwnStep, WriteStep
<1> QED
  BY <1>1, <1>2, PTL DEF SafetySpec

\* handle_exec leaves no child behind, whichever path it returns by and whoever
\* reaps the command first.
THEOREM HandlerLeavesNoChild == SafetySpec => []LeavesNoChild
<1>1. HandlerInv => LeavesNoChild
  BY DEF HandlerInv, LeavesNoChild, Leaving
<1> QED
  BY <1>1, HandlerInvariant, PTL

-----------------------------------------------------------------------------
(* The frame stream.                                                       *)

\* What a terminal frame said of the command stays true.
LEMMA OutcomeKept ==
  ASSUME HandlerInv, AnswerInv, pc' \in Leaving, stream' = stream,
         outcome' = outcome \/ child = "running", child' = child \/ child # "none"
  PROVE  \A i \in DOMAIN stream' :
           /\ stream'[i] = "exit nonzero" => outcome' = "nonzero"
           /\ stream'[i] = "error" => outcome' = "signal" \/ child' = "none"
<1> SUFFICES ASSUME NEW i \in DOMAIN stream, stream[i] \in {"exit nonzero", "error"}
             PROVE  /\ stream[i] = "exit nonzero" => outcome' = "nonzero"
                    /\ stream[i] = "error" => outcome' = "signal" \/ child' = "none"
  OBVIOUS
<1>1. Terminated(stream)
  BY DEF Terminated, Terminal
<1>2. pc \in Leaving /\ outcome' = outcome
  BY <1>1 DEF AnswerInv, HandlerInv, Leaving
<1>3. /\ stream[i] = "exit nonzero" => outcome = "nonzero"
      /\ stream[i] = "error" => outcome = "signal" \/ child = "none"
  BY DEF AnswerInv
<1>4. child = "none" => child' = "none"
  OBVIOUS
<1> QED
  BY <1>2, <1>3, <1>4

\* It holds: a terminal frame is sent on the way out, once.
LEMMA AnswerInvariant == SafetySpec => []AnswerInv
<1>1. Init => AnswerInv
  <2>1. <<>> \in Seq(Frame) /\ DOMAIN <<>> = {}
    OBVIOUS
  <2> QED
    BY <2>1 DEF Init, StreamInit, AnswerInv, Terminated
<1>2. HandlerInv /\ AnswerInv /\ [Next]_vars => AnswerInv'
  <2> SUFFICES ASSUME HandlerInv, AnswerInv, [Next]_vars PROVE AnswerInv'
    OBVIOUS
  \* Before the handler leaves, no terminal frame has been sent.
  <2>0. pc \notin Leaving => \A i \in DOMAIN stream : stream[i] \in Output
    <3>1. \A i \in DOMAIN stream : stream[i] \in Frame
      <4>1. stream \in Seq(Frame)
        BY DEF AnswerInv
      <4> QED
        BY <4>1
    <3> QED
      BY <3>1 DEF AnswerInv, Terminated, Frame
  <2>1. CASE RejectRequest \/ AcceptRequest
    <3>1. /\ pc = "request" /\ stream' = stream
          /\ \/ pc' = "closed" /\ ended' = TRUE
             \/ pc' = "workdir" /\ ended' = ended /\ answer' = "ok"
      BY <2>1 DEF RejectRequest, AcceptRequest, Goto
    <3>2. \A i \in DOMAIN stream : stream[i] \in Output
      BY <2>0, <3>1 DEF Leaving
    <3> QED
      BY <3>1, <3>2 DEF AnswerInv, Terminated, Terminal, Output, Leaving
  <2>2. CASE MakeWorkdir \/ SpawnFails \/ Spawn \/ PumpEnds \/ PollFails \/ Collect
             \/ Abandon \/ \E s \in Output : PumpSeesEnd(s)
    <3>1. /\ pc \notin Leaving \cup {"request"}
          /\ pc' \notin {"request", "closed"} /\ UNCHANGED <<answer, stream, ended>>
      BY <2>2 DEF MakeWorkdir, SpawnFails, Spawn, PumpEnds, PollFails, Collect, Abandon,
                  PumpSeesEnd, WaitSleeps, WaitCollects, WaitFindsNoChild, Goto, Leaving,
                  streamVars
    <3>2. \A i \in DOMAIN stream : stream[i] \in Output
      BY <2>0, <3>1
    <3> QED
      BY <3>1, <3>2 DEF AnswerInv, Terminated, Terminal, Output, Leaving
  <2>3. CASE WorkdirFails
    <3>1. /\ pc = "workdir" /\ pc' = "end" /\ Send("error") /\ child = "none"
          /\ child' = child
      BY <2>3 DEF WorkdirFails, Goto, childVars, HandlerInv, Early
    <3>2. \A i \in DOMAIN stream : stream[i] \in Output
      BY <2>0, <3>1 DEF Leaving
    <3>3. /\ UNCHANGED <<answer, ended>> /\ stream' \in Seq(Frame)
          /\ \A i \in DOMAIN stream' : \/ i \in DOMAIN stream /\ stream'[i] = stream[i]
                                       \/ stream'[i] = "error"
      BY <3>1, SentOrNot DEF AnswerInv, Frame, Terminal
    <3> QED
      BY <3>1, <3>2, <3>3 DEF AnswerInv, Output, Leaving
  <2>4. ASSUME NEW s \in Output, PumpReads(s)
        PROVE  AnswerInv'
    <3>1. pc = "pump" /\ pc' \in {"pump", "abandon"} /\ Send(s)
      BY <2>4 DEF PumpReads
    <3>2. \A i \in DOMAIN stream : stream[i] \in Output
      BY <2>0, <3>1 DEF Leaving
    <3>3. /\ UNCHANGED <<answer, ended>> /\ stream' \in Seq(Frame)
          /\ \A i \in DOMAIN stream' : \/ i \in DOMAIN stream /\ stream'[i] = stream[i]
                                       \/ stream'[i] = s
      BY <3>1, SentOrNot DEF AnswerInv, Frame
    <3>4. \A i \in DOMAIN stream' : stream'[i] \in Output
      BY <3>2, <3>3
    <3> QED
      BY <3>1, <3>3, <3>4 DEF AnswerInv, Terminated, Terminal, Output, Leaving
  <2>5. CASE Report
    <3> DEFINE f == CASE wstatus = "zero"    -> "exit zero"
                      [] wstatus = "nonzero" -> "exit nonzero"
                      [] wstatus = "signal"  -> "error"
    <3>1. /\ pc = "report" /\ pc' = "end" /\ Send(f) /\ UNCHANGED <<child, outcome>>
          /\ child = "reaped" /\ outcome \in Outcome /\ wstatus \in {"zero", outcome}
      BY <2>5 DEF Report, Goto, childVars, HandlerInv
    <3>2. \A i \in DOMAIN stream : stream[i] \in Output
      BY <2>0, <3>1 DEF Leaving
    <3>3. /\ f \in Terminal
          /\ f = "exit nonzero" => outcome = "nonzero"
          /\ f = "error" => outcome = "signal"
      BY <3>1 DEF Outcome, Terminal
    <3> HIDE DEF f
    <3>4. /\ UNCHANGED <<answer, ended>> /\ stream' \in Seq(Frame)
          /\ \A i \in DOMAIN stream' : \/ i \in DOMAIN stream /\ stream'[i] = stream[i]
                                       \/ stream'[i] = f
      BY <3>1, <3>3, SentOrNot DEF AnswerInv, Frame
    <3> QED
      BY <3>1, <3>2, <3>3, <3>4 DEF AnswerInv, Output, Leaving
  <2>6. CASE EndBody
    <3>1. /\ pc = "end" /\ pc' = "closed" /\ ended' = TRUE
          /\ UNCHANGED <<answer, stream, child, outcome>>
      BY <2>6 DEF EndBody, Goto, childVars
    <3> QED
      BY <3>1 DEF AnswerInv, Leaving
  <2>7. CASE CommandStep \/ Sigchld \/ PeerLeaves \/ UNCHANGED vars
    <3>1. /\ UNCHANGED <<pc, answer, stream, ended>>
          /\ outcome' = outcome \/ child = "running"
          /\ child' = child \/ child # "none"
      BY <2>7 DEF CommandStep, Writes, LeavesDescendant, ClosesEnd, CommandDies, Dies,
                  Sigchld, SigchldReaps, PeerLeaves, vars, childVars, streamVars
    <3>2. CASE pc \in Leaving
      <4>1. \A i \in DOMAIN stream' :
              /\ stream'[i] = "exit nonzero" => outcome' = "nonzero"
              /\ stream'[i] = "error" => outcome' = "signal" \/ child' = "none"
        BY <3>1, <3>2, OutcomeKept
      <4> QED
        BY <3>1, <4>1 DEF AnswerInv
    <3>3. CASE pc \notin Leaving
      BY <2>0, <3>1, <3>3 DEF AnswerInv, Output
    <3> QED
      BY <3>2, <3>3
  <2> QED
    BY <2>1, <2>2, <2>3, <2>4, <2>5, <2>6, <2>7 DEF Next, HandlerStep, OwnStep, WriteStep, FaultStep
<1> QED
  BY <1>1, <1>2, HandlerInvariant, PTL DEF SafetySpec

\* handle_exec keeps the promise of the frame stream: every step of it, of the
\* command, of the kernel and of the host is one of the stream or none.
THEOREM HandlerKeepsStream == SafetySpec => ImplementsExecStream
<1>1. Init => StreamInit
  BY DEF Init
<1>2. HandlerInv /\ AnswerInv /\ [Next]_vars => [StreamNext]_<<answer, stream, ended>>
  <2> SUFFICES ASSUME HandlerInv, AnswerInv, [Next]_vars
               PROVE  StreamNext \/ UNCHANGED <<answer, stream, ended>>
    OBVIOUS
  <2>0. ASSUME NEW f \in Frame, Send(f), pc \notin {"request"} \cup Leaving
        PROVE  StreamNext \/ UNCHANGED <<answer, stream, ended>>
    <3>1. answer = "ok" /\ ~ended /\ ~Terminated(stream)
      BY <2>0 DEF AnswerInv, Leaving
    <3>2. Emit(f) \/ UNCHANGED <<answer, stream, ended>>
      BY <2>0, <3>1 DEF Send, Emit
    <3> QED
      BY <3>2 DEF StreamNext, Frame
  <2>1. CASE RejectRequest \/ AcceptRequest
    BY <2>1 DEF RejectRequest, AcceptRequest, Goto, AnswerInv, StreamNext, Accept, Refuse,
                Finish
  <2>2. CASE WorkdirFails
    BY <2>0, <2>2 DEF WorkdirFails, Goto, Frame, Terminal, Leaving
  <2>3. ASSUME NEW s \in Output, PumpReads(s)
        PROVE  StreamNext \/ UNCHANGED <<answer, stream, ended>>
    BY <2>0, <2>3 DEF PumpReads, Frame, Leaving
  <2>4. CASE Report
    <3> DEFINE f == CASE wstatus = "zero"    -> "exit zero"
                      [] wstatus = "nonzero" -> "exit nonzero"
                      [] wstatus = "signal"  -> "error"
    <3>1. f \in Frame
      BY <2>4 DEF Report, Goto, HandlerInv, Outcome, Frame, Terminal
    <3>2. Send(f) /\ pc = "report"
      BY <2>4 DEF Report, Goto
    <3> QED
      BY <2>0, <3>1, <3>2 DEF Leaving
  <2>5. CASE EndBody
    BY <2>5 DEF EndBody, Goto, AnswerInv, StreamNext, Finish
  <2>6. CASE \/ MakeWorkdir \/ SpawnFails \/ Spawn \/ PumpEnds \/ PollFails \/ Collect
             \/ Abandon \/ CommandStep \/ Sigchld \/ PeerLeaves \/ UNCHANGED vars
             \/ \E s \in Output : PumpSeesEnd(s)
    BY <2>6 DEF MakeWorkdir, SpawnFails, Spawn, PumpEnds, PollFails, Collect, Abandon,
                PumpSeesEnd, CommandStep, Writes, LeavesDescendant, ClosesEnd, CommandDies,
                Sigchld, PeerLeaves, vars, streamVars
  <2> QED
    BY <2>1, <2>2, <2>3, <2>4, <2>5, <2>6 DEF Next, HandlerStep, OwnStep, WriteStep, FaultStep
<1> QED
  BY <1>1, <1>2, HandlerInvariant, AnswerInvariant, PTL
     DEF SafetySpec, ImplementsExecStream, StreamSpec

-----------------------------------------------------------------------------
(* The pipes.                                                              *)

\* Nothing about the pipes and the stream changes.
LEMMA PipesUntouched ==
  ASSUME PipeInv, UNCHANGED <<pipe, written, writers, open, stream>>,
         child' = "none" => child = "none",
         pc' \in Early \cup {"pump", "collect", "collecting", "report"} =>
           pc \in Early \cup {"pump", "collect", "collecting", "report"}
  PROVE  PipeInv'
BY DEF PipeInv, Accounted, Sent

\* It holds: what is not yet read is in a pipe that is still polled.
LEMMA PipeInvariant == SafetySpec => []PipeInv
<1> DEFINE Telling == Early \cup {"pump", "collect", "collecting", "report"}
<1>1. Init => PipeInv
  BY NothingSent DEF Init, StreamInit, ChildInit, PipeInv, Accounted
<1>2. HandlerInv /\ AnswerInv /\ PipeInv /\ [Next]_vars => PipeInv'
  <2> SUFFICES ASSUME HandlerInv, AnswerInv, PipeInv, [Next]_vars PROVE PipeInv'
    OBVIOUS
  <2>0. /\ pipe \in [Output -> Nat] /\ written \in [Output -> Nat]
        /\ writers \in [Output -> SUBSET Holder] /\ open \subseteq Output
        /\ stream \in Seq(Frame)
    BY DEF PipeInv, AnswerInv
  <2>1. CASE \/ RejectRequest \/ AcceptRequest \/ MakeWorkdir \/ SpawnFails \/ PumpEnds
             \/ PollFails \/ EndBody \/ Sigchld \/ PeerLeaves \/ UNCHANGED vars
    <3>1. /\ UNCHANGED <<pipe, written, writers, open, stream>>
          /\ child' = "none" => child = "none"
          /\ pc' \in Telling => pc \in Telling
      BY <2>1 DEF RejectRequest, AcceptRequest, MakeWorkdir, SpawnFails, PumpEnds,
                  PollFails, EndBody, Sigchld, SigchldReaps, PeerLeaves, Goto, vars,
                  streamVars, childVars, pipeVars, Early
    <3> QED
      BY <3>1, PipesUntouched
  <2>2. CASE Collect \/ Abandon
    <3>1. /\ UNCHANGED <<pipe, written, writers, open, stream>>
          /\ child' = "none" => child = "none"
          /\ pc' \in Telling => pc \in Telling
      BY <2>2 DEF Collect, Abandon, WaitSleeps, WaitCollects, WaitFindsNoChild,
                  streamVars, pipeVars, Early
    <3> QED
      BY <3>1, PipesUntouched
  <2>3. CASE Spawn
    <3>1. /\ pc = "spawn" /\ child = "none" /\ child' = "running" /\ pc' = "pump"
          /\ UNCHANGED <<stream, pipe, written>> /\ open' = Output
          /\ writers' = [s \in Output |-> {"command"}]
      BY <2>3 DEF Spawn, Goto, Fork, streamVars
    <3>2. \A s \in Output : Sent(s)' = Sent(s) /\ Accounted(s)
      BY <3>1 DEF PipeInv, Early, Sent
    <3>3. \A s \in Output : Accounted(s)'
      BY <3>1, <3>2 DEF Accounted
    <3>4. writers' \in [Output -> SUBSET Holder]
      BY <3>1 DEF Holder
    <3> QED
      BY <2>0, <3>1, <3>3, <3>4 DEF PipeInv
  <2>4. ASSUME NEW s \in Output, PumpReads(s)
        PROVE  PipeInv'
    <3>1. /\ pc = "pump" /\ s \in open /\ pipe[s] > 0 /\ Send(s)
          /\ pipe' = [pipe EXCEPT ![s] = @ - 1]
          /\ UNCHANGED <<child, writers, written>>
          /\ IF peer = "there" THEN UNCHANGED <<pc, open>>
             ELSE pc' = "abandon" /\ open' = {}
      BY <2>4 DEF PumpReads, childVars
    <3>2. child # "none" /\ ~Terminated(stream)
      BY <3>1 DEF HandlerInv, AnswerInv, Minding, Leaving
    <3>3. pipe' \in [Output -> Nat]
      BY <2>0, <3>1
    <3>4. ~Terminated(stream')
      BY <2>0, <3>1, <3>2, SentOrNot DEF Frame, Output, Terminal
    <3>5. CASE peer = "there"
      <4>1. stream' = Append(stream, s)
        BY <3>1, <3>5 DEF Send
      <4>2. ASSUME NEW t \in Output
            PROVE  Accounted(t)'
        <5>1. Sent(t) \in Nat /\ Sent(t)' = IF s = t THEN Sent(t) + 1 ELSE Sent(t)
          BY <2>0, <4>1, SentOneMore DEF Frame
        <5>2. Accounted(t)
          BY <3>1 DEF PipeInv
        <5>3. pipe'[t] = IF s = t THEN pipe[t] - 1 ELSE pipe[t]
          BY <2>0, <3>1
        <5>4. pipe[t] \in Nat /\ written' = written /\ writers' = writers /\ open' = open
          BY <2>0, <3>1, <3>5
        <5> QED
          BY <3>1, <5>1, <5>2, <5>3, <5>4 DEF Accounted
      <4> QED
        BY <2>0, <3>1, <3>2, <3>3, <3>5, <4>2 DEF PipeInv
    <3>6. CASE peer # "there"
      BY <2>0, <3>1, <3>2, <3>3, <3>4, <3>6 DEF PipeInv, Early
    <3> QED
      BY <3>5, <3>6
  <2>5. ASSUME NEW s \in Output, PumpSeesEnd(s)
        PROVE  PipeInv'
    <3>1. /\ pipe[s] = 0 /\ writers[s] = {} /\ open' = open \ {s}
          /\ UNCHANGED <<stream, pc, child, pipe, writers, written>>
      BY <2>5 DEF PumpSeesEnd, streamVars, childVars, pipeVars
    <3>2. \A t \in Output : Accounted(t) => Accounted(t)'
      BY <3>1 DEF Accounted, Sent
    <3> QED
      BY <3>1, <3>2 DEF PipeInv
  <2>6. CASE WorkdirFails \/ Report
    <3>1. PICK f \in Terminal : Send(f)
      <4>1. CASE WorkdirFails
        BY <4>1 DEF WorkdirFails, Terminal
      <4>2. CASE Report
        <5> DEFINE f == CASE wstatus = "zero"    -> "exit zero"
                          [] wstatus = "nonzero" -> "exit nonzero"
                          [] wstatus = "signal"  -> "error"
        <5>1. f \in Terminal
          BY <4>2 DEF Report, Goto, HandlerInv, Outcome, Terminal
        <5>2. Send(f)
          BY <4>2 DEF Report
        <5> QED
          BY <5>1, <5>2
      <4> QED
        BY <2>6, <4>1, <4>2
    <3>2. /\ pc \in Telling /\ UNCHANGED <<child, pipe, written, writers, open>>
      BY <2>6 DEF WorkdirFails, Report, Goto, childVars, pipeVars, Early
    <3>3. ASSUME NEW t \in Output
          PROVE  Accounted(t)'
      <4>1. Sent(t)' = Sent(t)
        <5>1. CASE stream' = stream
          BY <5>1 DEF Sent
        <5>2. CASE stream' = Append(stream, f)
          BY <2>0, <5>2, SentOneMore DEF Frame, Output, Terminal
        <5> QED
          BY <3>1, <5>1, <5>2 DEF Send
      <4>2. Accounted(t)
        BY <3>2 DEF PipeInv
      <4> QED
        BY <3>2, <4>1, <4>2 DEF Accounted
    <3> QED
      BY <3>2, <3>3 DEF PipeInv
  <2>7. ASSUME NEW s \in Output, Writes(s)
        PROVE  PipeInv'
    <3>1. /\ writers[s] # {} /\ s \in open
          /\ written' = [written EXCEPT ![s] = @ + 1]
          /\ pipe' = [pipe EXCEPT ![s] = @ + 1]
          /\ UNCHANGED <<stream, pc, child, writers, open>>
      BY <2>7 DEF Writes, streamVars, childVars
    <3>2. child # "none"
      BY <3>1 DEF PipeInv
    <3>3. ASSUME NEW t \in Output, Accounted(t)
          PROVE  Accounted(t)'
      <4>1. Sent(t)' = Sent(t)
        BY <3>1 DEF Sent
      <4>2. CASE t = s
        <5>1. pipe'[t] = pipe[t] + 1 /\ written'[t] = written[t] + 1 /\ t \in open'
          BY <2>0, <3>1, <4>2
        <5>2. pipe[t] \in Nat /\ written[t] \in Nat /\ Sent(t) + pipe[t] = written[t]
          BY <2>0, <3>3 DEF Accounted
        <5>3. Sent(t) \in Nat
          BY <2>0, CountIsNat
        <5> QED
          BY <4>1, <5>1, <5>2, <5>3 DEF Accounted
      <4>3. CASE t # s
        <5>1. pipe'[t] = pipe[t] /\ written'[t] = written[t]
          BY <2>0, <3>1, <4>3
        <5> QED
          BY <3>1, <3>3, <4>1, <5>1 DEF Accounted
      <4> QED
        BY <4>2, <4>3
    <3>4. pipe' \in [Output -> Nat] /\ written' \in [Output -> Nat]
      BY <2>0, <3>1
    <3> QED
      BY <2>0, <3>1, <3>2, <3>3, <3>4 DEF PipeInv
  <2>8. ASSUME NEW s \in Output, LeavesDescendant(s) \/ \E h \in Holder : ClosesEnd(s, h)
        PROVE  PipeInv'
    <3>1. /\ UNCHANGED <<stream, pc, child, pipe, written, open>>
          /\ writers' \in [Output -> SUBSET Holder]
          /\ \A t \in Output : writers[t] = {} => writers'[t] = {}
      BY <2>0, <2>8 DEF LeavesDescendant, ClosesEnd, streamVars, childVars, Holder
    <3>2. \A t \in Output : Accounted(t) => Accounted(t)'
      BY <3>1 DEF Accounted, Sent
    <3> QED
      BY <2>0, <3>1, <3>2 DEF PipeInv
  <2>9. ASSUME NEW o \in Outcome, CommandDies(o)
        PROVE  PipeInv'
    <3>1. UNCHANGED <<pipe, written, writers, open, stream, pc>> /\ child' = "zombie"
      BY <2>9 DEF CommandDies, Dies, streamVars, pipeVars
    <3> QED
      BY <3>1, PipesUntouched
  <2> QED
    BY <2>1, <2>2, <2>3, <2>4, <2>5, <2>6, <2>7, <2>8, <2>9
       DEF Next, HandlerStep, OwnStep, WriteStep, FaultStep, CommandStep
<1> QED
  BY <1>1, <1>2, HandlerInvariant, AnswerInvariant, PTL DEF SafetySpec

\* A terminal frame tells the truth: unless poll failed, everything written was
\* sent before it and nobody can write any more; a failure it reports is one.
THEOREM TerminalFramesAreTrue == SafetySpec => []TerminalFrameTrue
<1>1. AnswerInv /\ PipeInv => TerminalFrameTrue
  <2> SUFFICES ASSUME AnswerInv, PipeInv PROVE TerminalFrameTrue
    OBVIOUS
  <2>1. ASSUME Terminated(stream), open = {}, NEW s \in Output
        PROVE  Sent(s) = written[s] /\ writers[s] = {}
    <3>1. Accounted(s)
      BY <2>1 DEF PipeInv
    <3>2. Sent(s) \in Nat
      BY CountIsNat DEF AnswerInv
    <3> QED
      BY <2>1, <3>1, <3>2 DEF Accounted
  <2> QED
    BY <2>1 DEF AnswerInv, TerminalFrameTrue
<1> QED
  BY <1>1, AnswerInvariant, PipeInvariant, PTL
=============================================================================
