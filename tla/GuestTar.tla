------------------------------ MODULE GuestTar ------------------------------
(***************************************************************************)
(* A connection of the guest's control plane (initd.c) that puts or gets   *)
(* files: the process forked for it reads the head of the request, and     *)
(* answers at once (/stat, /healthz, errors) or forks tar and feeds it the *)
(* request's body (PUT /tar) or sends what it writes (GET /tar).           *)
(*                                                                         *)
(* The host's side is FileProxy: it connects, sends and leaves.  A body is *)
(* a sequence of pieces; an archive counts the reads it takes.             *)
(***************************************************************************)
EXTENDS GuestChild, GuestHttp, UrlPath

CONSTANTS
  Piece,      \* the pieces of archives
  Body,       \* the archive that is uploaded, or any beginning of it
  MaxReads,   \* bound: reads a downloaded archive takes
  PipeRoom,   \* reads that the pipe from tar holds
  MaxHeader   \* symbols that fit in the buffer of handle_connection

ASSUME GuestTarAssumption ==
  /\ Body \in Seq(Piece) /\ MaxReads \in Nat /\ PipeRoom \in Nat \ {0}
  /\ MaxHeader \in Nat /\ MaxHeader >= Len(RequestHead("length"))

VARIABLES
  method,   \* of the request: "put", "get", "stat" or "healthz"
  size,     \* reads the archive of what a GET asks for takes
  wire,     \* sent by the host and not yet read
  peer,     \* the host's end of the connection: "there" or "gone"
  query,    \* the path as it stands in the request
  declared, \* the pieces its Content-Length says, NoLength if it has none
  buf,      \* the buffer of handle_connection
  length,   \* content_length: -1 if absent
  target,   \* the path the handler was given, <<>> before
  left,     \* pieces of the body still to read (PUT)
  fed,      \* the pieces written to tar (PUT)
  short,    \* tar closed its end while there was body to write (PUT)
  pipe,     \* reads that tar wrote and nobody took (GET)
  made,     \* reads that tar wrote (GET)
  sent,     \* reads sent to the host (GET)
  open,     \* the handler holds its end of the pipe to or from tar
  reply     \* "none", "ok" (200, 204, or a 200 body begun), "failed"

childVars == <<child, outcome, wstatus>>
reqVars   == <<method, size, query, declared>>
headVars  == <<buf, length, target>>
putVars   == <<left, fed, short>>
getVars   == <<pipe, made, sent>>
guestVars == <<pc, childVars, reqVars, wire, peer, headVars, putVars, getVars, open, reply>>

NoLength == 0 - 1

GuestInit ==
  /\ ChildInit /\ pc = "none"
  /\ wire = <<>> /\ peer = "there"
  /\ buf = <<>> /\ length = NoLength /\ target = <<>>
  /\ left = 0 /\ fed = <<>> /\ short = FALSE
  /\ pipe = 0 /\ made = 0 /\ sent = 0
  /\ open = FALSE /\ reply = "none"

Goto(from, to) == pc = from /\ pc' = to

-----------------------------------------------------------------------------
(* The head.                                                               *)

\* The accept loop forks a process for the connection, or cannot.
AcceptConnection ==
  /\ \E next \in {"head", "closed"} : Goto("accept", next)
  /\ UNCHANGED <<childVars, reqVars, wire, peer, headVars, putVars, getVars, open, reply>>

\* A read returns any part of what is there, up to the room in the buffer.
ReadHead ==
  /\ pc = "head"
  /\ \E n \in 1 .. Len(wire) :
       /\ Len(buf) + n <= MaxHeader
       /\ buf' = buf \o SubSeq(wire, 1, n)
       /\ wire' = SubSeq(wire, n + 1, Len(wire))
       /\ \E found \in ReadUntilFinds(buf', n) :
            pc' = IF found THEN "parse"
                  ELSE IF Len(buf') = MaxHeader THEN "closed" ELSE "head"
  /\ UNCHANGED <<childVars, reqVars, peer, length, target, putVars, getVars, open, reply>>

\* End of file before the end of the head: no answer.
HeadEnds ==
  /\ wire = <<>> /\ peer = "gone"
  /\ Goto("head", "closed")
  /\ UNCHANGED <<childVars, reqVars, wire, peer, headVars, putVars, getVars, open, reply>>

\* A head without a request line is closed without an answer.
Parse ==
  /\ pc = "parse"
  /\ pc' = IF HasRequestLine(buf) THEN "request" ELSE "closed"
  /\ length' = IF SeesLength(buf) THEN declared ELSE NoLength
  /\ target' = query_get(query)
  /\ UNCHANGED <<childVars, reqVars, wire, peer, buf, putVars, getVars, open, reply>>

-----------------------------------------------------------------------------
(* Dispatch.                                                               *)

Tarring == method \in {"put", "get"}
Absolute == target # <<>> /\ target[1] = "/"
Acceptable == Absolute /\ (method = "put" => length # NoLength)

\* 400 for no absolute path, one that is too long, or a PUT without a length;
\* 500 when mkdir, pipe2 or fork fails.
Reject ==
  /\ method # "healthz"
  /\ Goto("request", "closed")
  /\ reply' = "failed"
  /\ UNCHANGED <<childVars, reqVars, wire, peer, headVars, putVars, getVars, open>>

\* handle_stat answers 200 whatever stat() returned, /healthz 204.
AnswerAtOnce ==
  /\ method = "healthz" \/ (method = "stat" /\ Absolute)
  /\ Goto("request", "closed")
  /\ reply' = "ok"
  /\ UNCHANGED <<childVars, reqVars, wire, peer, headVars, putVars, getVars, open>>

SpawnTar ==
  /\ Tarring /\ Acceptable
  /\ Goto("request", IF method = "put" THEN "prefetch" ELSE "copy")
  /\ Fork
  /\ open' = TRUE
  /\ reply' = IF method = "get" THEN "ok" ELSE "none"
  /\ left' = length
  /\ UNCHANGED <<reqVars, wire, peer, headVars, fed, short, getVars>>

-----------------------------------------------------------------------------
(* PUT.  Writing to a tar that has ended fails with EPIPE.                 *)

\* What was read along with the head goes first, as much as is body; an error
\* is ignored.
FeedPrefetched ==
  /\ Goto("prefetch", "copy")
  /\ LET read == Prefetched(buf)
         used == SubSeq(read, 1, Min({left, Len(read)}))
     IN  /\ left' = left - Len(used)
         /\ fed' = IF child = "running" THEN used ELSE <<>>
         /\ short' = (used # <<>> /\ child # "running")
  /\ UNCHANGED <<childVars, reqVars, wire, peer, headVars, getVars, open, reply>>

\* read returns any part of what is there, up to what is left of the body; a
\* failed write ends the loop.
FeedTar ==
  /\ pc = "copy" /\ method = "put"
  /\ left > 0
  /\ \E n \in 1 .. Len(wire) :
       /\ n <= left
       /\ wire' = SubSeq(wire, n + 1, Len(wire))
       /\ IF child = "running"
          THEN /\ fed' = fed \o SubSeq(wire, 1, n) /\ left' = left - n
               /\ UNCHANGED <<pc, short, open>>
          ELSE /\ short' = TRUE /\ open' = FALSE /\ pc' = "collect"
               /\ UNCHANGED <<fed, left>>
  /\ UNCHANGED <<childVars, reqVars, peer, headVars, getVars, reply>>

\* Faulty variants: a short read is taken for the end; tar's stdin stays open.
EndFeedShortRead ==
  /\ method = "put"
  /\ left = 0 \/ wire = <<>>
  /\ Goto("copy", "collect")
  /\ open' = FALSE
  /\ UNCHANGED <<childVars, reqVars, wire, peer, headVars, putVars, getVars, reply>>

EndFeedPipeOpen ==
  /\ method = "put"
  /\ left = 0 \/ (wire = <<>> /\ peer = "gone")
  /\ Goto("copy", "collect")
  /\ UNCHANGED <<childVars, reqVars, wire, peer, headVars, putVars, getVars, open, reply>>

\* The body is done, or the host is gone.
EndFeed ==
  /\ method = "put"
  /\ left = 0 \/ (wire = <<>> /\ peer = "gone")
  /\ Goto("copy", "collect")
  /\ open' = FALSE
  /\ UNCHANGED <<childVars, reqVars, wire, peer, headVars, putVars, getVars, reply>>

Answer ==
  /\ method = "put"
  /\ Goto("answer", "closed")
  /\ reply' = IF wstatus = "zero" THEN "ok" ELSE "failed"
  /\ UNCHANGED <<childVars, reqVars, wire, peer, headVars, putVars, getVars, open>>

-----------------------------------------------------------------------------
(* GET.                                                                    *)

SendArchive ==
  /\ pc = "copy" /\ method = "get"
  /\ pipe > 0 /\ peer = "there"
  /\ pipe' = pipe - 1 /\ sent' = sent + 1
  /\ UNCHANGED <<pc, childVars, reqVars, wire, peer, headVars, putVars, made, open, reply>>

\* Faulty variants: the pipe's end is kept open; what tar left in it is dropped.
EndArchivePipeOpen ==
  /\ method = "get"
  /\ (pipe = 0 /\ child # "running") \/ (pipe > 0 /\ peer = "gone")
  /\ Goto("copy", "collect")
  /\ UNCHANGED <<childVars, reqVars, wire, peer, headVars, putVars, getVars, open, reply>>

EndArchiveOnExit ==
  /\ method = "get"
  /\ child # "running" \/ (pipe > 0 /\ peer = "gone")
  /\ Goto("copy", "collect")
  /\ open' = FALSE
  /\ UNCHANGED <<childVars, reqVars, wire, peer, headVars, putVars, getVars, reply>>

\* tar has ended and its pipe is empty, or a chunk cannot be sent.
EndArchive ==
  /\ method = "get"
  /\ (pipe = 0 /\ child # "running") \/ (pipe > 0 /\ peer = "gone")
  /\ Goto("copy", "collect")
  /\ open' = FALSE
  /\ UNCHANGED <<childVars, reqVars, wire, peer, headVars, putVars, getVars, reply>>

\* The last chunk; how tar ended is not looked at.
EndBody ==
  /\ method = "get"
  /\ Goto("answer", "closed")
  /\ UNCHANGED <<childVars, reqVars, wire, peer, headVars, putVars, getVars, open, reply>>

-----------------------------------------------------------------------------
(* Both.                                                                   *)

\* int st; keeps what the stack held when waitpid finds no child.
Collect ==
  /\ \/ WaitSleeps("collect", "collecting")
     \/ WaitCollects("collect", "collecting", "answer")
     \/ WaitFindsNoChild("collect", "answer", Outcome)
  /\ UNCHANGED <<reqVars, wire, peer, headVars, putVars, getVars, open, reply>>

\* tar writes its archive as the pipe has room, while somebody can read it.
TarWrites ==
  /\ child = "running" /\ method = "get" /\ open
  /\ made < size /\ pipe < PipeRoom
  /\ made' = made + 1 /\ pipe' = pipe + 1
  /\ UNCHANGED <<pc, childVars, reqVars, wire, peer, headVars, putVars, sent, open, reply>>

\* tar can end at any time: it can fail, and need not read to the end.
TarEnds(o) ==
  /\ Dies(o)
  /\ UNCHANGED <<reqVars, wire, peer, headVars, putVars, getVars, open, reply>>

Sigchld ==
  /\ SigchldReaps
  /\ UNCHANGED <<reqVars, wire, peer, headVars, putVars, getVars, open, reply>>

\* A write of the archive waits for room in the connection, without a timeout.
WritesArchive == SendArchive \/ EndBody

OwnStep ==
  \/ AcceptConnection
  \/ ReadHead \/ HeadEnds \/ Parse \/ Reject \/ AnswerAtOnce \/ SpawnTar
  \/ FeedPrefetched \/ FeedTar \/ EndFeed \/ Answer
  \/ EndArchive \/ Collect

HandlerStep == OwnStep \/ WritesArchive

TarStep == TarWrites \/ \E o \in Outcome : TarEnds(o)

GuestNext == HandlerStep \/ TarStep \/ Sigchld

\* tar has nothing left to do: its pipe is closed, or its archive is written.
TarFinishes ==
  /\ ~open \/ (method = "get" /\ made = size)
  /\ \E o \in Outcome : TarEnds(o)

\* Nothing of the request is left in the guest: its connection is closed, and
\* the tar it forked was waited for.
GuestClean == pc \in {"none", "closed"} /\ child \in {"none", "reaped"}
=============================================================================
