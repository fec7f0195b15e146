----------------------------- MODULE FileProxy ------------------------------
(***************************************************************************)
(* PUT and GET /machines/{id}/files, GET .../stat and .../healthz, from    *)
(* the user through the daemon (internal/api/initd.go, internal/initd/     *)
(* client.go) and Firecracker's socket to the guest (GuestTar) and back.   *)
(* The user may leave and the VM may die at any time.                      *)
(***************************************************************************)
EXTENDS GuestTar

CONSTANT Paths  \* paths that users name, as sequences of bytes

ASSUME FileProxyAssumption == Paths \subseteq Seq(Char)

VARIABLES hpc,       \* the handler: "lookup", "dial", "exchange", "copy", "done"
          path,      \* what the user names
          user,      \* "there" or "gone"
          vm,        \* "up" or "gone"
          given,     \* pieces of the upload sent to the guest
          status,    \* the status the user was answered, "none" before
          delivered  \* reads of the download copied to the user when it ended

hostVars == <<hpc, path, user, vm, given, status, delivered>>
vars == <<guestVars, hostVars>>

FInit ==
  /\ GuestInit
  /\ method \in {"put", "get", "stat", "healthz"}
  /\ path \in Paths
  /\ declared \in IF method = "put" THEN 0 .. Len(Body) \cup {NoLength} ELSE {NoLength}
  /\ size \in IF method = "get" THEN 0 .. MaxReads ELSE {0}
  /\ query = <<>>
  /\ hpc = "lookup" /\ user = "there" /\ vm = "up"
  /\ given = 0 /\ status = "none" /\ delivered = 0

\* What absQuery makes of each path, escaped by the user.
Named == [p \in Paths |-> absQuery(QueryEscape(p))]

Probe == method = "healthz"
Unavailable == IF Probe THEN "503" ELSE "500"

\* The handler returns: the transport closes its connection, and the guest may
\* find any part of what was written to it.
Return(from, s) ==
  /\ hpc \in from /\ hpc' = "done"
  /\ status' = s
  /\ peer' = "gone"
  /\ \E n \in 0 .. Len(wire) : wire' = SubSeq(wire, 1, n)
  /\ UNCHANGED <<pc, childVars, reqVars, headVars, putVars, getVars, open, reply,
                 path, user, vm, given>>

-----------------------------------------------------------------------------
(* The handler.                                                            *)

\* InitdClient finds no machine, or one that is not running.
LookupFails ==
  /\ \E s \in {"404", "503"} : Return({"lookup"}, s)
  /\ UNCHANGED delivered

BadPath ==
  /\ ~Probe /\ Named[path] = Refused
  /\ Return({"lookup"}, "400")
  /\ UNCHANGED delivered

Lookup ==
  /\ hpc = "lookup" /\ hpc' = "dial"
  /\ IF Probe THEN query' = <<>>
     ELSE Named[path] # Refused /\ query' = QueryEscape(Named[path])
  /\ UNCHANGED <<pc, childVars, method, size, declared, wire, peer, headVars, putVars,
                 getVars, open, reply, path, user, vm, given, status, delivered>>

\* No socket, no OK from Firecracker within 5 seconds, nobody listening.
DialFails ==
  /\ Return({"dial"}, Unavailable)
  /\ UNCHANGED delivered

\* The request's head is sent; a chunked body has no Content-Length.
DialSucceeds ==
  /\ vm = "up"
  /\ hpc = "dial" /\ hpc' = "exchange"
  /\ Goto("none", "accept")
  /\ wire' = RequestHead(IF declared = NoLength THEN "chunked" ELSE "length")
  /\ UNCHANGED <<childVars, reqVars, peer, headVars, putVars, getVars, open, reply,
                 path, user, vm, given, status, delivered>>

\* The transport copies what the user sends.  (A chunked body is left out: the
\* guest refuses it unread.)
ForwardBody ==
  /\ hpc = "exchange" /\ user = "there" /\ given < declared
  /\ pc # "closed"
  /\ wire' = Append(wire, Body[given + 1])
  /\ given' = given + 1
  /\ UNCHANGED <<pc, childVars, reqVars, peer, headVars, putVars, getVars, open, reply,
                 hpc, path, user, vm, status, delivered>>

\* PutTar wants 204, GetTar and Stat 200, Healthz either.
ReadAnswer ==
  /\ reply # "none" /\ ~(method = "get" /\ reply = "ok")
  /\ Return({"exchange"}, IF reply = "failed" THEN Unavailable
                          ELSE IF method = "stat" THEN "200" ELSE "204")
  /\ UNCHANGED delivered

\* The guest has closed without an answer or with body unread, or the VM is gone.
ExchangeFails ==
  /\ vm = "gone" \/ (pc = "closed" /\ (reply = "none" \/ given < declared))
  /\ Return({"exchange"}, Unavailable)
  /\ UNCHANGED delivered

GetStarts ==
  /\ method = "get" /\ reply = "ok"
  /\ hpc = "exchange" /\ hpc' = "copy"
  /\ status' = "200"
  /\ UNCHANGED <<guestVars, path, user, vm, given, delivered>>

\* io.Copy's error is dropped: the user's response ends as a whole one does.
CopyEnds ==
  /\ Return({"copy"}, status)
  /\ \/ pc = "closed" /\ delivered' = sent
     \/ vm = "gone" /\ delivered' \in 0 .. sent

\* The user's absence ends the request: its context, or a read of its body.
Abandon ==
  /\ user = "gone"
  /\ Return({"dial", "exchange", "copy"}, status)
  /\ UNCHANGED delivered

\* Five seconds.
HealthzExpires ==
  /\ Probe
  /\ Return({"dial", "exchange"}, "503")
  /\ UNCHANGED delivered

ServerStep ==
  \/ LookupFails \/ BadPath \/ Lookup \/ DialFails \/ DialSucceeds
  \/ ReadAnswer \/ ExchangeFails \/ GetStarts \/ Abandon \/ HealthzExpires

HostStep == ServerStep \/ ForwardBody \/ CopyEnds

-----------------------------------------------------------------------------
(* The rest of the world.                                                  *)

UserLeaves ==
  /\ user = "there" /\ hpc # "done"
  /\ user' = "gone"
  /\ UNCHANGED <<guestVars, hpc, path, vm, given, status, delivered>>

VmDies ==
  /\ vm = "up" /\ hpc # "done"
  /\ vm' = "gone"
  /\ UNCHANGED <<guestVars, hpc, path, user, given, status, delivered>>

GuestStep(A) == vm = "up" /\ A /\ UNCHANGED hostVars

FNext == HostStep \/ GuestStep(GuestNext) \/ UserLeaves \/ VmDies

FSafetySpec == FInit /\ [][FNext]_vars

\* What waits for a user who stays: for the rest of an upload, or for room for a
\* download, which fills the connection to the guest when nobody reads it.
UserStep ==
  \/ ForwardBody \/ CopyEnds
  \/ GuestStep(peer = "there" /\ WritesArchive)

\* Handlers and goroutines run, and a tar ends that has nothing left to do.  Of
\* the user nothing is assumed, and no write to it has a timeout.
FSpec ==
  /\ FSafetySpec
  /\ WF_vars(ServerStep)
  /\ WF_vars(GuestStep(OwnStep \/ (peer = "gone" /\ WritesArchive)))
  /\ WF_vars(GuestStep(TarWrites)) /\ WF_vars(GuestStep(TarFinishes))

-----------------------------------------------------------------------------
(* Properties.                                                             *)

\* However the head is cut into reads, the guest finds its end and its length,
\* takes no byte of it for the archive, and never drops a request unanswered
\* that it began to read from a host that is there (read_until, parse_headers).
RequestUnderstood ==
  /\ pc \in {"request", "prefetch", "copy", "answer"} \cup InWaitpid => length = declared
  /\ IsPrefix(fed, Body)
  /\ pc = "closed" /\ reply = "none" /\ buf # <<>> => peer = "gone"

\* The guest works on what absQuery made of the user's path, whatever the
\* client's and the guest's codings do to it, cut at a NUL as C strings are; and
\* that is what the user named, if it has no "+" or "%", which absQuery's second
\* decoding changes.
PathReachesGuest ==
  target # <<>> => target = Before(Nul, Named[path]) /\ (Plain(path) => target = path)

\* A download the user sees end is all that tar wrote, and tar has ended, unless
\* the VM died: getFiles has no other way to tell a short one.
ArchiveWhole ==
  hpc = "done" /\ status = "200" /\ method = "get" /\ user = "there" /\ vm = "up"
    => delivered = made /\ child # "running"

\* 204 for an upload means that tar was fed all of it, but for what it refused
\* to read (handle_tar_put, PutTar).
AcceptedMeansFed ==
  status = "204" /\ method = "put" => short \/ Len(fed) = declared

\* A user who stays sends what it declared and reads what it asked for.
UserKeepsUp == WF_vars(UserStep)

\* Every request is answered or abandoned, whichever side fails, unless a user
\* who stays stops sending or reading.
AnswerComes == UserKeepsUp => ((hpc # "done") ~> (hpc = "done"))

\* Unless it is held up by such a user, the guest gives up the connection and
\* collects its tar, whatever the host and tar do.
GuestCleansUp == UserKeepsUp => ((pc = "accept") ~> (GuestClean \/ vm = "gone"))
=============================================================================
