-------------------------- MODULE ExecProxy_proof ---------------------------
(***************************************************************************)
(* Theorems about ExecProxy, for any number of frames that the guest sends *)
(* and every interleaving of the two goroutines, the user, net/http and    *)
(* the guest.                                                              *)
(***************************************************************************)
EXTENDS ExecProxy, TLAPS

-----------------------------------------------------------------------------
Frame == Output \cup Terminal

Piece == Frame \X {"header", "payload", "frame"}

Stage == {"header", "payload"}
Over  == {"close", "send", "ended"}

\* The i-th piece of the guest's frames.
PieceOf(i) == <<stream[(i + 1) \div 2], IF i % 2 = 1 THEN "header" ELSE "payload">>

\* The client has taken the terminal frame.
AtTerminal == taken > 0 /\ stream[taken] \in Terminal

\* How many pieces have gone through the pipe.
Moved == IF exec = "header" THEN 2 * taken - 2
         ELSE IF exec = "payload" THEN 2 * taken - 1
         ELSE IF AtTerminal THEN 2 * taken - 2 ELSE 2 * taken

(* The guest's stream ends with its terminal frame, which is the last that *)
(* the client takes.                                                       *)
GuestInv ==
  /\ stream \in Seq(Frame)
  /\ \A i \in 1 .. Len(stream) : stream[i] \in Terminal => i = Len(stream)
  /\ taken \in 0 .. Len(stream)
  /\ exec \in {"idle", "post", "frames"} \cup Stage \cup Over
  /\ exec \in {"idle", "post"} => taken = 0
  /\ exec \in Stage => taken > 0
  /\ AtTerminal => exec \in Over

(* What the goroutine reports, and where the two goroutines can be.         *)
PlaceInv ==
  /\ handler \in {"start", "copy", "write", "await", "terminal", "returned"}
  /\ user \in {"there", "gone"}
  /\ exec \in Over => /\ result \in Terminal
                      /\ result = "error" \/ (AtTerminal /\ stream[taken] = result)
  /\ doneCh # "empty" => exec = "ended" /\ doneCh = result
  /\ ~writeEnd => exec \in {"send", "ended"}
  /\ readEnd <=> handler # "returned"
  /\ handler = "start" => exec = "idle"
  /\ handler \in {"await", "terminal"} => ~writeEnd
  /\ handler = "terminal" => doneCh # "empty"

(* What was written to the user, who sees every piece while there.          *)
OutInv ==
  /\ out \in Seq(Piece)
  /\ \A i \in 1 .. Len(out) :
        IF IsTerminal(out[i]) THEN i = Len(out) /\ i % 2 = 1 /\ handler = "returned"
        ELSE out[i] = PieceOf(i) /\ (i + 1) \div 2 <= Len(stream)
  /\ handler = "write" => /\ Moved > 0 /\ chunk = PieceOf(Moved)
  /\ handler # "returned" /\ user = "there" =>
        Len(out) = IF handler = "write" THEN Moved - 1 ELSE Moved

ProxyInv == GuestInv /\ PlaceInv /\ OutInv /\ ExitIsTheGuests /\ EveryResponseEnds

-----------------------------------------------------------------------------
(* Pieces and frames.                                                      *)

\* Frame n is made of the pieces 2n - 1 and 2n.
LEMMA Halves ==
  ASSUME NEW n \in Nat \ {0}
  PROVE  /\ (2 * n - 1 + 1) \div 2 = n /\ (2 * n - 1) % 2 = 1
         /\ (2 * n + 1) \div 2 = n /\ (2 * n) % 2 = 0
         /\ (n + 1) \div 2 \in Nat \ {0}
OBVIOUS

\* Every piece that has gone through the pipe is of an output frame that the
\* client took.
LEMMA MovedIsOutput ==
  ASSUME GuestInv, Moved > 0
  PROVE  /\ Moved \in Nat \ {0}
         /\ (Moved + 1) \div 2 \in 1 .. taken
         /\ stream[(Moved + 1) \div 2] \in Output
<1>1. taken \in Nat /\ Len(stream) \in Nat /\ taken <= Len(stream)
  BY DEF GuestInv
<1>2. \A i \in 1 .. Len(stream) : stream[i] \in Frame
  BY DEF GuestInv
<1>3. taken > 0
  BY <1>1 DEF Moved, AtTerminal
<1>4. PICK n \in 1 .. taken : /\ Moved = 2 * n - 1 \/ Moved = 2 * n
                              /\ n = taken => ~AtTerminal
  <2>1. CASE exec = "header"
    <3>1. Moved = 2 * (taken - 1) /\ taken - 1 \in 1 .. taken
      BY <1>1, <1>3, <2>1 DEF Moved
    <3> QED
      BY <1>1, <3>1
  <2>2. CASE exec = "payload"
    <3>1. Moved = 2 * taken - 1 /\ taken \in 1 .. taken /\ ~AtTerminal
      BY <1>1, <1>3, <2>2 DEF Moved, GuestInv, Over
    <3> QED
      BY <3>1
  <2>3. CASE exec \notin Stage /\ AtTerminal
    <3>1. Moved = 2 * (taken - 1) /\ taken - 1 \in 1 .. taken
      BY <1>1, <1>3, <2>3 DEF Moved, Stage
    <3> QED
      BY <1>1, <3>1
  <2>4. CASE exec \notin Stage /\ ~AtTerminal
    <3>1. Moved = 2 * taken /\ taken \in 1 .. taken
      BY <1>1, <1>3, <2>4 DEF Moved, Stage
    <3> QED
      BY <2>4, <3>1
  <2> QED
    BY <2>1, <2>2, <2>3, <2>4 DEF Stage
<1>5. Moved \in Nat \ {0} /\ (Moved + 1) \div 2 = n
  BY <1>1, <1>4, Halves
<1>6. stream[n] \notin Terminal
  BY <1>1, <1>3, <1>4 DEF GuestInv, AtTerminal
<1> QED
  BY <1>1, <1>2, <1>4, <1>5, <1>6 DEF Frame

\* A frame that the guest adds changes nothing of those before it.
LEMMA GuestAppends ==
  ASSUME GuestInv, GuestStep
  PROVE  /\ Len(stream) \in Nat /\ Len(stream') \in Nat
         /\ Len(stream') >= Len(stream)
         /\ \A i \in 1 .. Len(stream) : stream'[i] = stream[i]
         /\ GuestInv'
         /\ stream' = stream \/ ~Terminated(stream)
         /\ Moved' = Moved
<1>1. UNCHANGED <<user, cancelled, server, client, readEnd, writeEnd, doneCh>>
  BY DEF GuestStep
<1>2. CASE stream' = stream
  <2>1. Moved' = Moved
    BY <1>1, <1>2 DEF Moved, AtTerminal, client
  <2> QED
    BY <1>1, <1>2, <2>1 DEF GuestInv, AtTerminal, client
<1>3. ASSUME NEW f \in Frame, Emit(f)
      PROVE  /\ Len(stream) \in Nat /\ Len(stream') \in Nat
             /\ Len(stream') >= Len(stream)
             /\ \A i \in 1 .. Len(stream) : stream'[i] = stream[i]
             /\ GuestInv'
             /\ ~Terminated(stream)
             /\ Moved' = Moved
  <2>1. stream' = Append(stream, f) /\ ~Terminated(stream) /\ stream \in Seq(Frame)
    BY <1>3 DEF Emit, GuestInv
  <2>2. /\ Len(stream) \in Nat /\ Len(stream') = Len(stream) + 1
        /\ \A i \in 1 .. Len(stream) : stream'[i] = stream[i]
        /\ stream' \in Seq(Frame)
    BY <2>1
  <2>3. \A i \in 1 .. Len(stream) : stream[i] \notin Terminal
    BY <2>1 DEF Terminated
  <2>4. taken \in 0 .. Len(stream) /\ taken' = taken /\ exec' = exec
    BY <1>1 DEF client, GuestInv
  <2>5. AtTerminal' <=> AtTerminal
    BY <2>2, <2>4 DEF AtTerminal
  <2>6. Moved' = Moved
    BY <2>4, <2>5 DEF Moved
  <2>7. GuestInv'
    BY <2>2, <2>3, <2>4, <2>5 DEF GuestInv
  <2> QED
    BY <2>1, <2>2, <2>6, <2>7
<1> QED
  BY <1>2, <1>3 DEF GuestStep, Accept, Refuse, Finish, Frame

-----------------------------------------------------------------------------
(* The invariant.                                                          *)

\* It holds at the start.
LEMMA InitInv == Init => ProxyInv
BY DEF Init, StreamInit, ProxyInv, GuestInv, PlaceInv, OutInv, AtTerminal, Moved,
       Frame, Stage, Over, ExitIsTheGuests, EveryResponseEnds

\* The guest only appends, and what was read of it was there.
LEMMA GuestPreserved == GuestInv /\ PlaceInv /\ [Next]_vars => GuestInv'
<1> SUFFICES ASSUME GuestInv, PlaceInv, [Next]_vars PROVE GuestInv'
  OBVIOUS
<1>1. CASE GuestStep
  BY <1>1, GuestAppends
<1>2. CASE UNCHANGED <<stream, taken, exec>>
  BY <1>2 DEF GuestInv, AtTerminal
<1>3. CASE ClientStep
  <2>0. /\ taken \in Nat /\ Len(stream) \in Nat /\ stream \in Seq(Frame)
        /\ stream' = stream
    BY <1>3 DEF GuestInv, ClientStep, Answered, PostFails, ReadOutput, ReadTerminal,
                ReadFails, PipeBroken, CloseWriter, SendResult, Client, guest
  <2>1. CASE Answered \/ PostFails
    BY <2>0, <2>1 DEF Answered, PostFails, Client, GuestInv, AtTerminal, Stage, Over
  <2>2. CASE ReadOutput
    <3>1. /\ taken' = taken + 1 /\ taken < Len(stream) /\ exec' = "header"
          /\ stream[taken'] \in Output
      BY <2>2 DEF ReadOutput, TakeFrame, Client
    <3>2. taken' \in 0 .. Len(stream) /\ taken' > 0
      BY <2>0, <3>1
    <3>3. ~AtTerminal'
      BY <2>0, <3>1 DEF AtTerminal, Output, Terminal
    <3> QED
      BY <2>0, <3>1, <3>2, <3>3 DEF GuestInv, Stage, Over
  <2>3. CASE ReadTerminal
    <3>1. taken' = taken + 1 /\ taken < Len(stream) /\ exec' = "close"
      BY <2>3 DEF ReadTerminal, TakeFrame, Client
    <3>2. taken' \in 0 .. Len(stream)
      BY <2>0, <3>1
    <3> QED
      BY <2>0, <3>1, <3>2 DEF GuestInv, Stage, Over
  <2>4. CASE ReadFails \/ PipeBroken \/ CloseWriter \/ SendResult
    <3>1. taken' = taken /\ exec' \in Over
      BY <2>4 DEF ReadFails, PipeBroken, CloseWriter, SendResult, Client, Over
    <3> QED
      BY <2>0, <3>1 DEF GuestInv, Stage, Over
  <2> QED
    BY <1>3, <2>1, <2>2, <2>3, <2>4 DEF ClientStep
<1>4. CASE StartExec \/ CopyChunk
  <2>1. /\ UNCHANGED <<stream, taken>> /\ exec' \in {"post", "payload", "frames"}
        /\ exec' = "post" => exec = "idle"
        /\ exec' # "post" => exec \in Stage
    BY <1>4 DEF StartExec, CopyChunk, Handler, guest, GuestInv, PlaceInv, Stage
  <2>2. AtTerminal' <=> AtTerminal
    BY <2>1 DEF AtTerminal
  <2> QED
    BY <2>1, <2>2 DEF GuestInv, Stage, Over
<1>5. CASE RejectRequest \/ WriteChunk \/ WriteFails \/ PipeEnds \/ ReceiveResult
           \/ WriteTerminal \/ ServerCancels \/ UserLeaves \/ UNCHANGED vars
  <2>1. UNCHANGED <<stream, taken, exec>>
    BY <1>5 DEF RejectRequest, WriteChunk, WriteFails, PipeEnds, ReceiveResult,
                WriteTerminal, ServerCancels, UserLeaves, Handler, guest, client, vars
  <2> QED
    BY <1>2, <2>1
<1> QED
  BY <1>1, <1>3, <1>4, <1>5 DEF Next, HandlerStep, OwnStep, WriteStep

\* The positions of the handler, the copier and the pipe go together.
LEMMA PlacePreserved ==
  GuestInv /\ GuestInv' /\ PlaceInv /\ [Next]_vars => PlaceInv'
<1> SUFFICES ASSUME GuestInv, GuestInv', PlaceInv, [Next]_vars PROVE PlaceInv'
  OBVIOUS
<1> USE DEF PlaceInv, Over
<1>1. CASE GuestStep
  <2>1. /\ taken > 0 => stream'[taken] = stream[taken]
        /\ UNCHANGED <<user, cancelled, server, client, readEnd, writeEnd, doneCh>>
    BY <1>1, GuestAppends DEF GuestStep, GuestInv
  <2> QED
    BY <2>1 DEF AtTerminal, server, client
<1>2. CASE UNCHANGED vars \/ ServerCancels \/ UserLeaves
  BY <1>2 DEF vars, ServerCancels, UserLeaves, guest, server, client, AtTerminal
<1>3. CASE Answered \/ PostFails \/ ReadOutput \/ ReadTerminal \/ ReadFails
  <2>0. /\ UNCHANGED <<stream, handler, user, readEnd, writeEnd, doneCh>>
        /\ exec \in {"post", "frames"}
    BY <1>3 DEF Answered, PostFails, ReadOutput, ReadTerminal, ReadFails, Client, guest,
                server
  <2>1. doneCh = "empty" /\ writeEnd /\ handler # "start"
    BY <2>0
  <2>2. CASE Answered \/ ReadOutput
    <3>1. exec' \in {"frames", "header"}
      BY <2>2 DEF Answered, ReadOutput, Client
    <3> QED
      BY <2>0, <2>1, <3>1
  <2>3. CASE PostFails \/ ReadFails
    <3>1. exec' = "close" /\ result' = "error"
      BY <2>3 DEF PostFails, ReadFails, Client
    <3> QED
      BY <2>0, <2>1, <3>1 DEF Terminal
  <2>4. CASE ReadTerminal
    <3>1. /\ taken' = taken + 1 /\ stream[taken'] \in Terminal /\ exec' = "close"
          /\ result' = stream[taken'] /\ taken \in Nat
      BY <2>4 DEF ReadTerminal, TakeFrame, Client, GuestInv
    <3>2. AtTerminal'
      BY <2>0, <3>1 DEF AtTerminal
    <3> QED
      BY <2>0, <2>1, <3>1, <3>2
  <2> QED
    BY <1>3, <2>2, <2>3, <2>4
<1>4. CASE PipeBroken \/ CloseWriter \/ SendResult
  <2>0. /\ UNCHANGED <<stream, taken, handler, user, readEnd>> /\ (AtTerminal' <=> AtTerminal)
    BY <1>4 DEF PipeBroken, CloseWriter, SendResult, Client, guest, server, AtTerminal
  <2>1. CASE PipeBroken
    <3>1. exec' = "close" /\ result' = "error" /\ UNCHANGED <<doneCh, writeEnd>>
      BY <2>1 DEF PipeBroken, Client
    <3>2. exec \in {"header", "payload"}
      BY <2>1 DEF PipeBroken, Client
    <3> QED
      BY <2>0, <3>1, <3>2 DEF Terminal
  <2>2. CASE CloseWriter
    BY <2>0, <2>2 DEF CloseWriter, Client
  <2>3. CASE SendResult
    <3>1. /\ exec = "send" /\ exec' = "ended" /\ doneCh' = result
          /\ UNCHANGED <<result, writeEnd>>
      BY <2>3 DEF SendResult, Client
    <3>2. handler # "start"
      BY <3>1
    <3> QED
      BY <2>0, <3>1, <3>2 DEF Terminal
  <2> QED
    BY <1>4, <2>1, <2>2, <2>3
<1>5. CASE StartExec \/ CopyChunk
  <2>0. /\ UNCHANGED <<stream, taken, user, result, readEnd, writeEnd, doneCh>>
        /\ AtTerminal' <=> AtTerminal
    BY <1>5 DEF StartExec, CopyChunk, Handler, guest, AtTerminal
  <2>1. CASE StartExec
    <3>1. handler = "start" /\ handler' = "copy" /\ exec' = "post" /\ exec = "idle"
      BY <2>1 DEF StartExec, Handler
    <3> QED
      BY <2>0, <3>1
  <2>2. CASE CopyChunk
    <3>1. /\ handler = "copy" /\ handler' = "write" /\ exec \in {"header", "payload"}
          /\ exec' \in {"payload", "frames"}
      BY <2>2 DEF CopyChunk, Handler
    <3> QED
      BY <2>0, <3>1
  <2> QED
    BY <1>5, <2>1, <2>2
<1>6. CASE RejectRequest \/ WriteChunk \/ WriteFails \/ PipeEnds \/ ReceiveResult
           \/ WriteTerminal
  BY <1>6 DEF RejectRequest, WriteChunk, WriteFails, PipeEnds, ReceiveResult,
              WriteTerminal, Handler, guest, client, AtTerminal
<1> QED
  BY <1>1, <1>2, <1>3, <1>4, <1>5, <1>6 DEF Next, ClientStep, HandlerStep, OwnStep, WriteStep

\* A step that writes nothing to the user, after which as much has gone through
\* the pipe and the handler is as far.
LEMMA NothingWritten ==
  ASSUME GuestInv, OutInv, UNCHANGED <<out, stream, chunk, handler>>, Moved' = Moved,
         user' = user \/ user' = "gone"
  PROVE  OutInv'
BY DEF OutInv, PieceOf, IsTerminal

\* What the user has is what went through the pipe, in order.
LEMMA OutPreserved ==
  GuestInv /\ GuestInv' /\ PlaceInv /\ OutInv /\ [Next]_vars => OutInv'
<1> SUFFICES ASSUME GuestInv, GuestInv', PlaceInv, OutInv, [Next]_vars PROVE OutInv'
  OBVIOUS
<1>0. /\ stream \in Seq(Frame) /\ Len(stream) \in Nat /\ taken \in 0 .. Len(stream)
      /\ out \in Seq(Piece) /\ Len(out) \in Nat
  BY DEF GuestInv, OutInv
<1>1. CASE GuestStep
  <2>1. /\ UNCHANGED <<user, out, chunk, handler, taken>> /\ Moved' = Moved
        /\ Len(stream') \in Nat /\ Len(stream') >= Len(stream)
        /\ \A i \in 1 .. Len(stream) : stream'[i] = stream[i]
    BY <1>1, GuestAppends DEF GuestStep, server, client
  <2>2. ASSUME NEW i \in Nat \ {0}, (i + 1) \div 2 <= Len(stream)
        PROVE  PieceOf(i)' = PieceOf(i) /\ (i + 1) \div 2 <= Len(stream')
    <3>1. (i + 1) \div 2 \in 1 .. Len(stream)
      BY <1>0, <2>2, Halves
    <3>2. stream'[(i + 1) \div 2] = stream[(i + 1) \div 2]
      BY <2>1, <3>1
    <3> QED
      BY <1>0, <2>1, <3>1, <3>2 DEF PieceOf
  <2>3. handler = "write" => chunk' = PieceOf(Moved)'
    <3> SUFFICES ASSUME handler = "write" PROVE chunk' = PieceOf(Moved)'
      OBVIOUS
    <3>1. Moved > 0 /\ chunk = PieceOf(Moved)
      BY DEF OutInv
    <3>2. Moved \in Nat \ {0} /\ (Moved + 1) \div 2 <= Len(stream)
      BY <1>0, <3>1, MovedIsOutput
    <3> DEFINE m == Moved
    <3>3. m \in Nat \ {0} /\ (m + 1) \div 2 <= Len(stream) /\ m' = m
      BY <2>1, <3>2
    <3> HIDE DEF m
    <3>4. \A i \in Nat \ {0} : (i + 1) \div 2 <= Len(stream) => PieceOf(i)' = PieceOf(i)
      BY <2>2
    <3>5. PieceOf(m)' = PieceOf(m)
      <4>1. stream'[(m + 1) \div 2] = stream[(m + 1) \div 2]
        <5>1. (m + 1) \div 2 \in 1 .. Len(stream)
          BY <1>0, <3>3, Halves
        <5> QED
          BY <2>1, <5>1
      <4> QED
        BY <3>3, <4>1 DEF PieceOf
    <3> QED
      BY <2>1, <3>1, <3>5 DEF m
  <2>4. ASSUME NEW i \in 1 .. Len(out')
        PROVE  IF IsTerminal(out'[i]) THEN i = Len(out') /\ i % 2 = 1 /\ handler' = "returned"
               ELSE out'[i] = PieceOf(i)' /\ (i + 1) \div 2 <= Len(stream')
    <3>1. i \in 1 .. Len(out) /\ i \in Nat \ {0} /\ out' = out /\ handler' = handler
      BY <1>0, <2>1
    <3>2. CASE IsTerminal(out[i])
      BY <3>1, <3>2 DEF OutInv, IsTerminal
    <3>3. CASE ~IsTerminal(out[i])
      <4>1. out[i] = PieceOf(i) /\ (i + 1) \div 2 <= Len(stream)
        BY <3>1, <3>3 DEF OutInv
      <4> QED
        BY <2>2, <3>1, <3>3, <4>1 DEF IsTerminal
    <3> QED
      BY <3>2, <3>3
  <2> QED
    BY <2>1, <2>3, <2>4 DEF OutInv
<1>2. CASE UNCHANGED vars \/ ServerCancels \/ UserLeaves
  <2>1. UNCHANGED <<out, stream, chunk, handler, exec, taken>>
        /\ (user' = user \/ user' = "gone")
    BY <1>2 DEF vars, ServerCancels, UserLeaves, guest, server, client
  <2>2. Moved' = Moved
    BY <2>1 DEF Moved, AtTerminal
  <2> QED
    BY <2>1, <2>2, NothingWritten
<1>3. CASE ClientStep /\ ~PipeBroken
  <2>1. UNCHANGED <<out, stream, chunk, handler, user>>
    BY <1>3 DEF ClientStep, Answered, PostFails, ReadOutput, ReadTerminal, ReadFails,
                CloseWriter, SendResult, Client, guest, server
  <2>2. Moved' = Moved
    <3>1. CASE Answered \/ PostFails \/ CloseWriter \/ SendResult \/ ReadFails
      BY <2>1, <3>1 DEF Answered, PostFails, CloseWriter, SendResult, ReadFails, Client,
                        Moved, AtTerminal
    <3>2. CASE ReadOutput \/ ReadTerminal
      <4>1. exec = "frames" /\ taken' = taken + 1 /\ ~AtTerminal
        BY <3>2 DEF ReadOutput, ReadTerminal, TakeFrame, Client, GuestInv, Over
      <4>2. Moved = 2 * taken
        BY <4>1 DEF Moved
      <4>3. CASE ReadOutput
        BY <1>0, <4>1, <4>2, <4>3 DEF ReadOutput, Client, Moved
      <4>4. CASE ReadTerminal
        <5>1. exec' = "close" /\ AtTerminal'
          BY <1>0, <2>1, <4>1, <4>4 DEF ReadTerminal, TakeFrame, Client, AtTerminal
        <5> QED
          BY <1>0, <4>1, <4>2, <5>1 DEF Moved
      <4> QED
        BY <3>2, <4>3, <4>4
    <3> QED
      BY <1>3, <3>1, <3>2 DEF ClientStep
  <2> QED
    BY <2>1, <2>2, NothingWritten
<1>4. CASE PipeBroken
  <2>1. UNCHANGED <<out, stream, handler, chunk>> /\ handler = "returned"
    BY <1>4 DEF PipeBroken, Client, PlaceInv, guest, server
  <2> QED
    BY <2>1 DEF OutInv, PieceOf, IsTerminal
<1>5. CASE CopyChunk
  <2>1. /\ handler = "copy" /\ handler' = "write" /\ chunk' = <<stream[taken], exec>>
        /\ UNCHANGED <<out, stream, user, taken>> /\ taken > 0 /\ ~AtTerminal
    BY <1>5 DEF CopyChunk, Handler, guest, GuestInv, Stage, Over
  <2>2. taken \in Nat \ {0} /\ ~AtTerminal'
    BY <1>0, <2>1 DEF AtTerminal
  <2>3. Moved' = Moved + 1 /\ Moved' > 0 /\ Moved \in Nat /\ chunk' = PieceOf(Moved)'
    <3>1. CASE exec = "header" /\ exec' = "payload"
      <4>1. Moved = 2 * taken - 2 /\ Moved' = 2 * taken - 1
        BY <2>1, <3>1 DEF Moved
      <4>2. PieceOf(Moved)' = <<stream[taken], "header">>
        BY <2>1, <2>2, <4>1, Halves DEF PieceOf
      <4> QED
        BY <2>1, <2>2, <3>1, <4>1, <4>2
    <3>2. CASE exec = "payload" /\ exec' = "frames"
      <4>1. Moved = 2 * taken - 1 /\ Moved' = 2 * taken
        BY <2>1, <2>2, <3>2 DEF Moved
      <4>2. PieceOf(Moved)' = <<stream[taken], "payload">>
        BY <2>1, <2>2, <4>1, Halves DEF PieceOf
      <4> QED
        BY <2>1, <2>2, <3>2, <4>1, <4>2
    <3> QED
      BY <1>5, <3>1, <3>2 DEF CopyChunk
  <2> QED
    BY <2>1, <2>3 DEF OutInv, PieceOf, IsTerminal
<1>6. CASE WriteChunk
  <2>1. /\ handler = "write" /\ handler' = "copy" /\ UNCHANGED <<user, stream, exec, taken>>
        /\ out' = IF user = "there" THEN Append(out, chunk) ELSE out
    BY <1>6 DEF WriteChunk, Handler, guest, client
  <2>2. Moved' = Moved /\ Moved > 0 /\ chunk = PieceOf(Moved)
    BY <2>1 DEF OutInv, Moved, AtTerminal
  <2>3. CASE user = "gone"
    BY <2>1, <2>3 DEF OutInv, PieceOf, IsTerminal
  <2>4. CASE user = "there"
    <3> DEFINE m == Moved
    <3>1. /\ m \in Nat \ {0} /\ (m + 1) \div 2 \in 1 .. taken
          /\ stream[(m + 1) \div 2] \in Output
      BY <2>2, MovedIsOutput
    <3>2. Len(out) = m - 1 /\ chunk = PieceOf(m) /\ out' = Append(out, chunk)
      BY <2>1, <2>2, <2>4 DEF OutInv
    <3>3. m' = m
      BY <2>2
    <3> HIDE DEF m
    <3>4. chunk \in Piece /\ ~IsTerminal(chunk)
      BY <3>1, <3>2 DEF PieceOf, Piece, Frame, IsTerminal, Output, Terminal
    <3>5. /\ out' \in Seq(Piece) /\ Len(out') = m /\ out'[m] = chunk
          /\ \A i \in 1 .. m - 1 : out'[i] = out[i]
      BY <1>0, <3>1, <3>2, <3>4
    <3>6. ASSUME NEW i \in 1 .. m
          PROVE  /\ ~IsTerminal(out'[i]) /\ out'[i] = PieceOf(i)
                 /\ (i + 1) \div 2 <= Len(stream)
      <4>1. CASE i = m
        BY <1>0, <3>1, <3>2, <3>4, <3>5, <4>1
      <4>2. CASE i # m
        <5>1. i \in 1 .. Len(out) /\ out'[i] = out[i]
          BY <3>1, <3>2, <3>5, <4>2
        <5> QED
          BY <2>1, <5>1 DEF OutInv
      <4> QED
        BY <4>1, <4>2
    <3>7. \A i : PieceOf(i)' = PieceOf(i) /\ (IsTerminal(out[i])' <=> IsTerminal(out'[i]))
      BY <2>1 DEF PieceOf, IsTerminal
    <3>8. \A i \in 1 .. Len(out') :
            IF IsTerminal(out[i])' THEN i = Len(out') /\ i % 2 = 1 /\ handler' = "returned"
            ELSE out'[i] = PieceOf(i)' /\ (i + 1) \div 2 <= Len(stream')
      BY <2>1, <3>5, <3>6, <3>7
    <3> QED
      BY <2>1, <3>3, <3>5, <3>8 DEF OutInv, m
  <2> QED
    BY <2>3, <2>4 DEF PlaceInv
<1>7. CASE WriteTerminal
  <2>1. /\ handler = "terminal" /\ handler' = "returned"
        /\ UNCHANGED <<user, stream, exec, taken>>
        /\ out' = IF user = "there" THEN Append(out, <<doneCh, "frame">>) ELSE out
    BY <1>7 DEF WriteTerminal, Handler, guest, client
  <2>2. /\ doneCh \in Terminal /\ exec = "ended"
        /\ doneCh = "error" \/ AtTerminal
    BY <2>1 DEF PlaceInv, Over
  <2>3. \A i \in 1 .. Len(out) : ~IsTerminal(out[i])
    BY <2>1 DEF OutInv
  <2>4. CASE user = "gone"
    BY <2>1, <2>4 DEF OutInv, PieceOf, IsTerminal
  <2>5. CASE user = "there"
    <3> DEFINE item == <<doneCh, "frame">>
    <3>1. item \in Piece /\ IsTerminal(item)
      BY <2>2 DEF Piece, Frame, IsTerminal
    <3>2. out' = Append(out, item)
      BY <2>1, <2>5
    <3> HIDE DEF item
    <3>3. /\ out' \in Seq(Piece) /\ Len(out') = Len(out) + 1 /\ out'[Len(out) + 1] = item
          /\ \A i \in 1 .. Len(out) : out'[i] = out[i]
      BY <1>0, <3>1, <3>2
    <3>4. (Len(out) + 1) % 2 = 1
      <4>1. Len(out) = Moved
        BY <2>1, <2>5 DEF OutInv
      <4>2. PICK n \in Nat \ {0} : Moved = 2 * n - 2
        <5>1. CASE AtTerminal
          BY <1>0, <2>2, <5>1 DEF Moved, AtTerminal
        <5>2. CASE ~AtTerminal
          <6>1. taken + 1 \in Nat \ {0} /\ Moved = 2 * (taken + 1) - 2
            BY <1>0, <2>2, <5>2 DEF Moved
          <6> QED
            BY <6>1
        <5> QED
          BY <5>1, <5>2
      <4>3. Len(out) + 1 = 2 * n - 1
        BY <4>1, <4>2
      <4> QED
        BY <4>3, Halves
    <3>5. ASSUME NEW i \in 1 .. Len(out')
          PROVE  IF IsTerminal(out'[i]) THEN i = Len(out') /\ i % 2 = 1
                 ELSE out'[i] = PieceOf(i) /\ (i + 1) \div 2 <= Len(stream)
      <4>1. CASE i = Len(out) + 1
        BY <3>1, <3>3, <3>4, <4>1
      <4>2. CASE i # Len(out) + 1
        <5>1. i \in 1 .. Len(out) /\ out'[i] = out[i]
          BY <1>0, <3>3, <4>2
        <5> QED
          BY <2>3, <5>1 DEF OutInv
      <4> QED
        BY <4>1, <4>2
    <3>6. \A i : PieceOf(i)' = PieceOf(i)
      BY <2>1 DEF PieceOf
    <3> QED
      BY <2>1, <3>3, <3>5, <3>6 DEF OutInv, IsTerminal
  <2> QED
    BY <2>4, <2>5 DEF PlaceInv
<1>8. CASE RejectRequest \/ WriteFails
  <2>1. UNCHANGED <<out, stream, chunk>> /\ handler' = "returned" /\ handler # "returned"
    BY <1>8 DEF RejectRequest, WriteFails, Handler, guest
  <2> QED
    BY <2>1 DEF OutInv, PieceOf, IsTerminal
<1>9. CASE StartExec \/ PipeEnds \/ ReceiveResult
  <2>1. /\ UNCHANGED <<out, stream, chunk, user, taken>>
        /\ handler # "write" /\ handler' # "write" /\ handler # "returned"
        /\ handler' # "returned"
    BY <1>9 DEF StartExec, PipeEnds, ReceiveResult, Handler, guest, client
  <2>2. Moved' = Moved
    <3>1. exec' = exec \/ (exec = "idle" /\ exec' = "post")
      BY <1>9 DEF StartExec, PipeEnds, ReceiveResult, Handler, client, PlaceInv
    <3> QED
      BY <2>1, <3>1 DEF Moved, AtTerminal
  <2> QED
    BY <2>1, <2>2 DEF OutInv, PieceOf, IsTerminal
<1> QED
  BY <1>1, <1>2, <1>3, <1>4, <1>5, <1>6, <1>7, <1>8, <1>9 DEF Next, HandlerStep, OwnStep, WriteStep, ClientStep

\* What a sequence with one more element holds.
LEMMA OneMore ==
  ASSUME NEW S, NEW s \in Seq(S), NEW x \in S, NEW i \in DOMAIN Append(s, x)
  PROVE  /\ i \in 1 .. Len(s) + 1 /\ Len(s) \in Nat
         /\ i <= Len(s) => i \in DOMAIN s /\ Append(s, x)[i] = s[i]
         /\ ~(i <= Len(s)) => i = Len(s) + 1 /\ Append(s, x)[i] = x
<1>1. Len(s) \in Nat /\ Len(Append(s, x)) = Len(s) + 1 /\ Append(s, x) \in Seq(S)
  OBVIOUS
<1>2. DOMAIN Append(s, x) = 1 .. Len(s) + 1
  BY <1>1
<1> QED
  BY <1>1, <1>2

\* The exit code: when one is written, everything before it was.
LEMMA ExitPreserved ==
  GuestInv /\ PlaceInv /\ OutInv /\ ExitIsTheGuests /\ [Next]_vars => ExitIsTheGuests'
<1> SUFFICES ASSUME GuestInv, PlaceInv, OutInv, ExitIsTheGuests, [Next]_vars
             PROVE  ExitIsTheGuests'
  OBVIOUS
<1> DEFINE Exit == {"exit zero", "exit nonzero"}
<1>0. out \in Seq(Piece) /\ Len(out) \in Nat
  BY DEF OutInv
<1>1. CASE UNCHANGED <<out, stream>>
  BY <1>1 DEF ExitIsTheGuests
<1>2. CASE GuestStep
  <2>1. UNCHANGED out /\ (stream' = stream \/ ~Terminated(stream))
    BY <1>2, GuestAppends DEF GuestStep, server
  <2>2. ASSUME NEW i \in DOMAIN out, out[i][1] \in Exit
        PROVE  stream' = stream
    <3>1. stream[Len(stream)] \in Terminal /\ i = 2 * Len(stream) - 1
      BY <2>2 DEF ExitIsTheGuests, Terminal
    <3>2. Len(stream) \in DOMAIN stream
      <4>1. stream \in Seq(Frame) /\ i \in Nat \ {0} /\ Len(stream) \in Nat
        BY <1>0 DEF GuestInv
      <4> QED
        BY <3>1, <4>1
    <3> QED
      BY <2>1, <3>1, <3>2 DEF Terminated
  <2> QED
    BY <2>1, <2>2 DEF ExitIsTheGuests
<1>3. CASE WriteChunk
  <2>1. /\ handler = "write" /\ UNCHANGED stream
        /\ out' = IF user = "there" THEN Append(out, chunk) ELSE out
    BY <1>3 DEF WriteChunk, Handler, guest
  <2>2. Moved > 0 /\ chunk = PieceOf(Moved)
    BY <2>1 DEF OutInv
  <2>3. chunk[1] \in Output /\ chunk \in Piece
    BY <2>2, MovedIsOutput DEF PieceOf, Piece, Frame
  <2>4. ASSUME NEW i \in DOMAIN out', out'[i][1] \in Exit
        PROVE  i \in DOMAIN out /\ out'[i] = out[i]
    <3>1. CASE user = "there"
      <4>1. out' = Append(out, chunk) /\ i \in DOMAIN Append(out, chunk)
        BY <2>1, <2>4, <3>1
      <4>2. i <= Len(out)
        <5>1. ~(i <= Len(out)) => out'[i] = chunk
          BY <1>0, <2>3, <4>1, OneMore
        <5> QED
          BY <2>3, <2>4, <5>1 DEF Output
      <4> QED
        BY <1>0, <2>3, <4>1, <4>2, OneMore
    <3> QED
      BY <2>1, <2>4, <3>1
  <2>5. UNCHANGED stream
    BY <2>1
  <2> HIDE DEF Exit
  <2>6. \A i \in DOMAIN out' : out'[i][1] \in Exit =>
          i = 2 * Len(stream) - 1 /\ stream[Len(stream)] = out'[i][1]
    <3>1. \A i \in DOMAIN out : out[i][1] \in Exit =>
            i = 2 * Len(stream) - 1 /\ stream[Len(stream)] = out[i][1]
      BY Zenon DEF ExitIsTheGuests, Exit
    <3> QED
      BY <2>4, <3>1, Zenon
  <2> QED
    BY <2>5, <2>6, Zenon DEF ExitIsTheGuests, Exit
<1>4. CASE WriteTerminal
  <2>1. /\ handler = "terminal" /\ UNCHANGED <<stream, taken, exec>>
        /\ out' = IF user = "there" THEN Append(out, <<doneCh, "frame">>) ELSE out
    BY <1>4 DEF WriteTerminal, Handler, guest, client
  <2>2. CASE user = "there"
    <3>1. /\ doneCh = "error" \/ (AtTerminal /\ stream[taken] = doneCh)
          /\ exec = "ended" /\ Len(out) = Moved
      BY <2>1, <2>2 DEF PlaceInv, OutInv, Over
    <3>2. \A i \in 1 .. Len(out) : out[i][1] \notin Terminal
      BY <2>1 DEF OutInv, IsTerminal
    <3>3. ASSUME NEW i \in DOMAIN out', out'[i][1] \in Exit
          PROVE  i = 2 * Len(stream) - 1 /\ stream[Len(stream)] = out'[i][1]
      <4> DEFINE item == <<doneCh, "frame">>
      <4>5. item \in Piece /\ item[1] = doneCh /\ out' = Append(out, item)
        BY <2>1, <2>2, <3>1 DEF Piece, Frame, PlaceInv, Over
      <4> HIDE DEF item
      <4>1. /\ Len(out) \in Nat /\ i \in 1 .. Len(out) + 1
            /\ i <= Len(out) => out'[i] = out[i]
            /\ ~(i <= Len(out)) => i = Len(out) + 1 /\ out'[i] = item
        <5>1. i \in DOMAIN Append(out, item) /\ Append(out, item)[i] = out'[i]
          BY <3>3, <4>5
        <5> QED
          BY <1>0, <4>5, <5>1, OneMore
      <4>2. ~(i <= Len(out))
        <5>1. out'[i][1] \in Terminal
          BY <3>3 DEF Terminal
        <5> QED
          BY <3>2, <4>1, <5>1
      <4>3. i = Len(out) + 1 /\ doneCh = out'[i][1] /\ doneCh # "error"
        <5>1. out'[i][1] # "error"
          BY <3>3
        <5> QED
          BY <4>1, <4>2, <4>5, <5>1
      <4>4. taken \in Nat \ {0} /\ taken = Len(stream) /\ Moved = 2 * taken - 2
        BY <3>1, <4>3 DEF GuestInv, AtTerminal, Moved
      <4> QED
        BY <3>1, <4>3, <4>4
    <3> QED
      BY <2>1, <3>3 DEF ExitIsTheGuests
  <2>3. CASE user # "there"
    BY <1>1, <2>1, <2>3
  <2> QED
    BY <2>2, <2>3
<1>5. CASE ClientStep \/ RejectRequest \/ StartExec \/ CopyChunk \/ WriteFails \/ PipeEnds
           \/ ReceiveResult \/ ServerCancels \/ UserLeaves \/ UNCHANGED vars
  <2>1. UNCHANGED <<out, stream>>
    BY <1>5 DEF ClientStep, Answered, PostFails, ReadOutput, ReadTerminal, ReadFails,
                PipeBroken, CloseWriter, SendResult, Client, RejectRequest, StartExec,
                CopyChunk, WriteFails, PipeEnds, ReceiveResult, ServerCancels, UserLeaves,
                Handler, guest, server, vars
  <2> QED
    BY <1>1, <2>1
<1> QED
  BY <1>2, <1>3, <1>4, <1>5 DEF Next, HandlerStep, OwnStep, WriteStep

\* A handler returns without a terminal frame only to a user who has left or
\* was refused.
LEMMA ResponsePreserved ==
  PlaceInv /\ OutInv /\ EveryResponseEnds /\ [Next]_vars => EveryResponseEnds'
<1> SUFFICES ASSUME PlaceInv, OutInv, EveryResponseEnds, [Next]_vars
             PROVE  EveryResponseEnds'
  OBVIOUS
<1>1. CASE WriteTerminal
  <2>1. /\ out' = IF user = "there" THEN Append(out, <<doneCh, "frame">>) ELSE out
        /\ user' = user /\ doneCh \in Terminal
    BY <1>1 DEF WriteTerminal, Handler, PlaceInv, Over
  <2>2. CASE user = "there"
    <3> DEFINE item == <<doneCh, "frame">>
    <3>1. out \in Seq(Piece) /\ item \in Piece /\ item[1] = doneCh
      BY <2>1 DEF OutInv, Piece, Frame
    <3>2. out' = Append(out, item)
      BY <2>1, <2>2
    <3> HIDE DEF item
    <3>3. out' # <<>> /\ out'[Len(out')] = item
      BY <3>1, <3>2
    <3> QED
      BY <2>1, <3>1, <3>3 DEF EveryResponseEnds, IsTerminal
  <2> QED
    BY <2>1, <2>2 DEF EveryResponseEnds
<1>2. CASE RejectRequest
  BY <1>2 DEF RejectRequest, EveryResponseEnds
<1>3. CASE WriteFails
  BY <1>3 DEF WriteFails, Handler, EveryResponseEnds
<1>4. CASE WriteChunk \/ StartExec \/ CopyChunk \/ PipeEnds \/ ReceiveResult
  BY <1>4 DEF WriteChunk, StartExec, CopyChunk, PipeEnds, ReceiveResult, Handler,
              EveryResponseEnds
<1>5. CASE ClientStep \/ ServerCancels \/ UserLeaves \/ GuestStep \/ UNCHANGED vars
  <2>1. UNCHANGED <<handler, reply, out>> /\ (user' = user \/ user' = "gone")
    BY <1>5 DEF ClientStep, Answered, PostFails, ReadOutput, ReadTerminal, ReadFails,
                PipeBroken, CloseWriter, SendResult, Client, ServerCancels, UserLeaves,
                GuestStep, server, vars
  <2> QED
    BY <2>1 DEF EveryResponseEnds, IsTerminal
<1> QED
  BY <1>1, <1>2, <1>3, <1>4, <1>5 DEF Next, HandlerStep, OwnStep, WriteStep

\* The invariant, put together from its parts.
LEMMA ProxyInvariant == SafetySpec => []ProxyInv
<1>1. ProxyInv /\ [Next]_vars => ProxyInv'
  <2> SUFFICES ASSUME ProxyInv, [Next]_vars PROVE ProxyInv'
    OBVIOUS
  <2>1. GuestInv /\ PlaceInv /\ OutInv /\ ExitIsTheGuests /\ EveryResponseEnds
    BY DEF ProxyInv
  <2>2. GuestInv'
    BY <2>1, GuestPreserved
  <2>3. PlaceInv'
    BY <2>1, <2>2, PlacePreserved
  <2>4. OutInv'
    BY <2>1, <2>2, OutPreserved
  <2> QED
    BY <2>1, <2>2, <2>3, <2>4, ExitPreserved, ResponsePreserved DEF ProxyInv
<1> QED
  BY <1>1, InitInv, PTL DEF SafetySpec

-----------------------------------------------------------------------------
(* The theorems.                                                           *)

\* The user receives the guest's output frames whole and in the guest's order,
\* then at most one terminal frame, whatever interleaves and whoever leaves.
THEOREM UserSeesGuestOrder == SafetySpec => []InGuestOrder
<1>1. ProxyInv => InGuestOrder
  <2> SUFFICES ASSUME ProxyInv, NEW i \in DOMAIN out
               PROVE  IF IsTerminal(out[i]) THEN i = Len(out) /\ i % 2 = 1
                      ELSE out[i] = PieceOf(i)
    BY DEF InGuestOrder, PieceOf
  <2>1. i \in 1 .. Len(out)
    BY DEF ProxyInv, OutInv
  <2> QED
    BY <2>1 DEF ProxyInv, OutInv
<1> QED
  BY <1>1, ProxyInvariant, PTL

\* An exit code the user sees is the guest's, with all its output before it.
THEOREM ExitIsNeverInvented == SafetySpec => []ExitIsTheGuests
BY ProxyInvariant, PTL DEF ProxyInv

\* A user who stays is given a terminal frame, whatever became of the guest,
\* the pipe and the goroutine.
THEOREM ResponsesEnd == SafetySpec => []EveryResponseEnds
BY ProxyInvariant, PTL DEF ProxyInv
=============================================================================
