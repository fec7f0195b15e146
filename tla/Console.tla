------------------------------ MODULE Console ------------------------------
(***************************************************************************)
(* internal/vmmgr/console.go: the multiplexer of a microVM's serial        *)
(* console.  A pump goroutine reads the VM's output and broadcasts it to   *)
(* the subscribers' buffered channels; attachments come and go, read at    *)
(* their own pace, and run() closes the console when the VM has stopped.   *)
(*                                                                         *)
(* The bytes the VM writes are numbered 1, 2, 3, ...; a chunk is what one  *)
(* Read of the pipe returns.  What would panic in Go (a send on or a close *)
(* of a closed channel, a write to the nil map) sets panicked.             *)
(***************************************************************************)
EXTENDS Integers, Sequences, FiniteSets

CONSTANTS
  Attachment,     \* calls of Attach
  HistoryBytes,   \* consoleHistoryBytes: 64 KiB in the code
  SubBuffer,      \* consoleSubBuffer: 64 chunks in the code
  ReadBytes,      \* the pump's buffer: 4096 bytes in the code
  MaxBytes        \* bound: bytes the VM writes

ASSUME ConsoleAssumption ==
  /\ HistoryBytes \in Nat \ {0} /\ SubBuffer \in Nat \ {0}
  /\ ReadBytes \in Nat \ {0} /\ MaxBytes \in Nat

VARIABLES
  pump,        \* the pump goroutine: "reading", "broadcasting" or "over"
  chunk,       \* what the pump has read and not yet broadcast
  shown,       \* bytes broadcast so far
  history,     \* c.history
  subs,        \* keys of c.subs
  subsNil,     \* c.subs is nil
  closed,      \* c.closed
  stdin,       \* "open" or "closed"
  chan,        \* chan[a]: chunks in a.ch
  chanClosed,  \* attachments whose channel is closed
  pending,     \* pending[a]: a.pending
  dead,        \* a.dead: EOF has been returned
  attached,    \* attachments made so far
  panicked,    \* the process has panicked
  got,         \* history: got[a] is what Read has returned to a
  dropped,     \* history: attachments that missed a chunk
  last         \* history: last[a], the last byte broadcast while a subscribed

pumpVars   == <<pump, chunk, shown>>
sharedVars == <<history, subs, subsNil, closed, stdin>>
readVars   == <<pending, dead, got>>

vars == <<pump, chunk, shown, history, subs, subsNil, closed, stdin, chan,
          chanClosed, pending, dead, attached, panicked, got, dropped, last>>

-----------------------------------------------------------------------------
\* Faulty variant: the ring starts again when a chunk does not fit.
appendRingRestarts(hist, new, max) ==
  IF Len(hist) + Len(new) > max THEN SubSeq(new, 1, IF Len(new) > max THEN max ELSE Len(new))
  ELSE hist \o new

\* appendRing keeps the newest max bytes.
appendRing(hist, new, max) ==
  IF Len(new) >= max THEN SubSeq(new, Len(new) - max + 1, Len(new))
  ELSE LET combined == hist \o new
       IN  IF Len(combined) > max
           THEN SubSeq(combined, Len(combined) - max + 1, Len(combined))
           ELSE combined

\* Close the channels of the subscribers in S.
CloseChannels(S) ==
  /\ chanClosed' = chanClosed \cup S
  /\ panicked' = (panicked \/ S \cap chanClosed # {})

-----------------------------------------------------------------------------
(* Faulty variants of operations below, each a bug the code could have had *)
(* and a property catches; no specification uses them.                     *)

\* The pump waits for room in every buffer.
BroadcastBlocks ==
  /\ pump = "broadcasting"
  /\ \A a \in subs : Len(chan[a]) < SubBuffer
  /\ pump' = "reading"
  /\ shown' = shown + Len(chunk)
  /\ history' = appendRing(history, chunk, HistoryBytes)
  /\ chan' = [a \in Attachment |-> IF a \in subs THEN Append(chan[a], chunk)
                                   ELSE chan[a]]
  /\ last' = [a \in Attachment |-> IF a \in subs THEN shown' ELSE last[a]]
  /\ chunk' = <<>>
  /\ UNCHANGED <<subs, subsNil, closed, stdin, chanClosed, readVars, attached,
                 panicked, dropped>>

\* The pump ends without closing the console.
PumpJustReturns ==
  /\ pump = "reading"
  /\ pump' = "over"
  /\ UNCHANGED <<chunk, shown, sharedVars, chan, chanClosed, readVars, attached,
                 panicked, dropped, last>>

\* A subscriber is registered in one critical section and given the history in
\* a later one: the bytes shown in between, here those of the chunk at hand,
\* reach it twice.
AttachRereads(a) ==
  /\ a \notin attached /\ ~closed
  /\ attached' = attached \cup {a}
  /\ subs' = subs \cup {a}
  /\ pending' = [pending EXCEPT ![a] = history \o chunk]
  /\ last' = [last EXCEPT ![a] = shown]
  /\ UNCHANGED <<pumpVars, history, subsNil, closed, stdin, chan, chanClosed, dead,
                 got, dropped, panicked>>

\* Read reports EOF as soon as the channel is closed.
ReadEndsEarly(a) ==
  /\ pending[a] = <<>> /\ a \notin dead
  /\ a \in chanClosed
  /\ dead' = dead \cup {a}
  /\ UNCHANGED <<pumpVars, sharedVars, chan, chanClosed, pending, got, attached,
                 panicked, dropped, last>>

\* attachment.Close does not look whether the console still knows the channel.
CloseAttachmentAgain(a) ==
  /\ a \in attached
  /\ subs' = subs \ {a}
  /\ CloseChannels({a})
  /\ UNCHANGED <<pumpVars, history, subsNil, closed, stdin, chan, readVars, attached,
                 dropped, last>>

-----------------------------------------------------------------------------
Init ==
  /\ pump = "reading" /\ chunk = <<>> /\ shown = 0
  /\ history = <<>> /\ subs = {} /\ subsNil = FALSE
  /\ closed = FALSE /\ stdin = "open"
  /\ chan = [a \in Attachment |-> <<>>]
  /\ chanClosed = {}
  /\ pending = [a \in Attachment |-> <<>>]
  /\ dead = {} /\ attached = {} /\ panicked = FALSE
  /\ got = [a \in Attachment |-> <<>>]
  /\ dropped = {}
  /\ last = [a \in Attachment |-> 0]

-----------------------------------------------------------------------------
(* The pump.                                                               *)

\* r.Read returns the next n bytes of output.
PumpReads ==
  /\ pump = "reading"
  /\ \E n \in 1 .. ReadBytes :
       /\ shown + n <= MaxBytes
       /\ chunk' = [i \in 1 .. n |-> shown + i]
  /\ pump' = "broadcasting"
  /\ UNCHANGED <<shown, sharedVars, chan, chanClosed, readVars, attached, panicked,
                 dropped, last>>

\* In one critical section: append to the history and offer the chunk to every
\* subscriber; one whose buffer is full misses it.
PumpBroadcasts ==
  /\ pump = "broadcasting"
  /\ pump' = "reading"
  /\ shown' = shown + Len(chunk)
  /\ history' = appendRing(history, chunk, HistoryBytes)
  /\ LET full == {a \in subs : Len(chan[a]) = SubBuffer} IN
       /\ chan' = [a \in Attachment |-> IF a \in subs \ full
                                        THEN Append(chan[a], chunk) ELSE chan[a]]
       /\ dropped' = dropped \cup full
  /\ panicked' = (panicked \/ subs \cap chanClosed # {})
  /\ last' = [a \in Attachment |-> IF a \in subs THEN shown' ELSE last[a]]
  /\ chunk' = <<>>
  /\ UNCHANGED <<subs, subsNil, closed, stdin, chanClosed, readVars, attached>>

\* r.Read returns EOF or an error: the pump closes the console, but not stdin.
PumpEnds ==
  /\ pump = "reading"
  /\ pump' = "over"
  /\ closed' = TRUE
  /\ CloseChannels(subs)
  /\ subs' = {} /\ subsNil' = TRUE
  /\ UNCHANGED <<chunk, shown, history, stdin, chan, readVars, attached, dropped,
                 last>>

-----------------------------------------------------------------------------
\* run() closes the console when the VM has stopped.
Close ==
  /\ ~closed
  /\ closed' = TRUE
  /\ CloseChannels(subs)
  /\ subs' = {} /\ subsNil' = TRUE
  /\ stdin' = "closed"
  /\ UNCHANGED <<pumpVars, history, chan, readVars, attached, dropped, last>>

\* Attach: the new subscriber starts with the history.  On a closed console
\* Attach is refused and changes nothing.
Attach(a) ==
  /\ a \notin attached
  /\ ~closed
  /\ attached' = attached \cup {a}
  /\ subs' = subs \cup {a}
  /\ panicked' = (panicked \/ subsNil)
  /\ pending' = [pending EXCEPT ![a] = history]
  /\ last' = [last EXCEPT ![a] = shown]
  /\ UNCHANGED <<pumpVars, history, subsNil, closed, stdin, chan, chanClosed, dead,
                 got, dropped>>

-----------------------------------------------------------------------------
(* attachment.Read.                                                        *)

\* Some bytes of pending are copied to the caller.
ReadCopies(a) ==
  /\ pending[a] # <<>>
  /\ \E n \in 1 .. Len(pending[a]) :
       /\ got' = [got EXCEPT ![a] = @ \o SubSeq(pending[a], 1, n)]
       /\ pending' = [pending EXCEPT ![a] = SubSeq(@, n + 1, Len(@))]
  /\ UNCHANGED <<pumpVars, sharedVars, chan, chanClosed, dead, attached, panicked,
                 dropped, last>>

\* pending is empty: take the next chunk from the channel.
ReadReceives(a) ==
  /\ a \in attached
  /\ pending[a] = <<>> /\ a \notin dead
  /\ chan[a] # <<>>
  /\ pending' = [pending EXCEPT ![a] = Head(chan[a])]
  /\ chan' = [chan EXCEPT ![a] = Tail(@)]
  /\ UNCHANGED <<pumpVars, sharedVars, chanClosed, dead, got, attached, panicked,
                 dropped, last>>

\* The channel is closed and drained: EOF.
ReadEnds(a) ==
  /\ pending[a] = <<>> /\ a \notin dead
  /\ chan[a] = <<>> /\ a \in chanClosed
  /\ dead' = dead \cup {a}
  /\ UNCHANGED <<pumpVars, sharedVars, chan, chanClosed, pending, got, attached,
                 panicked, dropped, last>>

\* attachment.Close, which may be called again.
CloseAttachment(a) ==
  /\ a \in subs
  /\ subs' = subs \ {a}
  /\ CloseChannels({a})
  /\ UNCHANGED <<pumpVars, history, subsNil, closed, stdin, chan, readVars, attached,
                 dropped, last>>

-----------------------------------------------------------------------------
Pump == PumpReads \/ PumpBroadcasts \/ PumpEnds

Read(a) == ReadCopies(a) \/ ReadReceives(a) \/ ReadEnds(a)

Next ==
  \/ Pump \/ Close
  \/ \E a \in Attachment : Attach(a) \/ Read(a) \/ CloseAttachment(a)

SafetySpec == Init /\ [][Next]_vars

(* The pump is scheduled.  Nothing makes a session read, the VM write or    *)
(* end, or run() close the console.                                        *)
Spec == SafetySpec /\ WF_vars(PumpBroadcasts)

-----------------------------------------------------------------------------
(* Properties.                                                             *)

(* No interleaving of the pump, run()'s close, attaching and detaching     *)
(* sends on or closes a closed channel, or writes to the nil map: the two  *)
(* closers and Close of an attachment never both close one channel.        *)
NeverPanics == ~panicked

\* s is a run of the output that ends with byte b.
EndsAt(s, b) == \A i \in 1 .. Len(s) : s[i] = b - (Len(s) - i)

\* The byte after which the k-th chunk in a's channel begins, and after the
\* last chunk of the channel the last byte broadcast to a.
Before(a, k) == IF k <= Len(chan[a]) THEN chan[a][k][1] - 1 ELSE last[a]

(* A subscriber that never had a full buffer gets an unbroken run of the   *)
(* VM's output, from the history it started with to the last byte shown    *)
(* while it was subscribed: what it has been given, what waits to be       *)
(* copied and the chunks in its channel adjoin, nothing is lost or doubled *)
(* where the history meets the live stream.                                *)
StreamUnbroken ==
  \A a \in attached \ dropped :
    /\ EndsAt(got[a] \o pending[a], Before(a, 1))
    /\ \A k \in 1 .. Len(chan[a]) : EndsAt(chan[a][k], Before(a, k + 1))

(* The history is the newest HistoryBytes bytes of what was shown.         *)
HistoryIsNewest ==
  LET n == IF shown > HistoryBytes THEN HistoryBytes ELSE shown
  IN  history = [i \in 1 .. n |-> shown - n + i]

(* Read returns EOF only after everything sent to the subscriber has been  *)
(* read, whoever closed the channel.                                       *)
EOFComesLast ==
  \A a \in dead : pending[a] = <<>> /\ chan[a] = <<>>

(* A slow subscriber never holds up the VM's output: the pump finishes     *)
(* every broadcast although nobody need ever read.                         *)
PumpNeverBlocks == pump = "broadcasting" ~> pump # "broadcasting"

(* Once the VM's output has ended, every subscriber that keeps reading     *)
(* comes to EOF; a session never hangs on a console nobody writes to.      *)
EveryReaderEnds ==
  \A a \in Attachment :
    WF_vars(Read(a)) => ((pump = "over" /\ a \in attached) ~> a \in dead)
=============================================================================
