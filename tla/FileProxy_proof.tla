--------------------------- MODULE FileProxy_proof --------------------------
(***************************************************************************)
(* Theorems about FileProxy, for every archive that is uploaded (its bytes *)
(* may look like a head), every length of downloads, of the pipe from tar  *)
(* and of the guest's buffer, every set of paths and every table of        *)
(* escapes: however the head is cut into reads the guest understands it,   *)
(* an upload that is answered 204 was fed to tar, a download that ends     *)
(* without the VM's death is whole, and the path that the guest works on   *)
(* is the one that absQuery was given.                                     *)
(***************************************************************************)
EXTENDS FileProxy, WellFoundedInduction, TLAPS

-----------------------------------------------------------------------------
(* Induction, and sequences.                                               *)

\* Induction, for a set of numbers.
LEMMA Induct ==
  ASSUME NEW T \in SUBSET Nat, 0 \in T, \A n \in T : n + 1 \in T
  PROVE  Nat \subseteq T
<1> SUFFICES ASSUME Nat \ T # {} PROVE FALSE
  OBVIOUS
<1> DEFINE R == OpToRel(<, Nat)
<1>1. IsWellFoundedOn(R, Nat)
  BY NatLessThanWellFounded
<1>2. \A x, y \in Nat : x < y => <<x, y>> \in R
  BY DEF OpToRel
<1> HIDE DEF R
<1>3. \E x \in Nat \ T : \A y \in Nat \ T : ~(<<y, x>> \in R)
  BY <1>1, WFMin
<1>4. PICK x \in Nat \ T : \A y \in Nat \ T : ~(<<y, x>> \in R)
  BY <1>3
<1>5. x # 0 /\ x - 1 \in Nat /\ x - 1 < x
  OBVIOUS
<1>6. x - 1 \in T
  BY <1>2, <1>4, <1>5
<1>7. (x - 1) + 1 \in T
  BY <1>6
<1> QED
  BY <1>4, <1>7

\* Induction down from n to 0.
LEMMA InductDown ==
  ASSUME NEW n \in Nat, NEW T, n \in T, \A k \in 0 .. n - 1 : k + 1 \in T => k \in T
  PROVE  0 .. n \subseteq T
<1> DEFINE D == {d \in Nat : d <= n => n - d \in T}
<1>1. 0 \in D
  OBVIOUS
<1>2. ASSUME NEW d \in D PROVE d + 1 \in D
  <2> SUFFICES ASSUME d + 1 <= n PROVE n - (d + 1) \in T
    OBVIOUS
  <2>1. n - (d + 1) \in 0 .. n - 1 /\ (n - (d + 1)) + 1 = n - d /\ d <= n
    OBVIOUS
  <2>2. n - d \in T
    BY <2>1
  <2> QED
    BY <2>1, <2>2
<1>3. Nat \subseteq D
  <2> HIDE DEF D
  <2>1. D \in SUBSET Nat
    BY DEF D
  <2> QED
    BY <1>1, <1>2, <2>1, Induct
<1> SUFFICES ASSUME NEW k \in 0 .. n PROVE k \in T
  OBVIOUS
<1>4. n - k \in Nat /\ n - k <= n /\ n - (n - k) = k
  OBVIOUS
<1> QED
  BY <1>3, <1>4

\* The members of two sequences, one behind the other.
LEMMA Concat ==
  ASSUME NEW C, NEW s \in Seq(C), NEW t \in Seq(C)
  PROVE  /\ s \o t \in Seq(C)
         /\ Len(s \o t) = Len(s) + Len(t)
         /\ \A i \in Nat : 1 <= i /\ i <= Len(s) => (s \o t)[i] = s[i]
         /\ \A i \in Nat : Len(s) < i /\ i <= Len(s) + Len(t) => (s \o t)[i] = t[i - Len(s)]
OBVIOUS

\* Two sequences of one length with the same members are the same.
LEMMA SameText ==
  ASSUME NEW C, NEW s \in Seq(C), NEW t \in Seq(C), Len(s) = Len(t),
         \A i \in 1 .. Len(s) : s[i] = t[i]
  PROVE  s = t
OBVIOUS

-----------------------------------------------------------------------------
(* Texts.                                                                  *)

Symbol == {"request", "other", "length", "cr", "lf"} \cup Piece

\* The n symbols of s are those of h that follow the first k.
Holds(s, n, h, k) ==
  s \in Seq(Symbol) /\ Len(s) = n /\ \A i \in 1 .. n : s[i] = h[k + i]

\* Two texts that follow each other in h.
LEMMA Join ==
  ASSUME NEW s, NEW t, NEW n \in Nat, NEW m \in Nat, NEW h, NEW k \in Nat,
         Holds(s, n, h, k), Holds(t, m, h, k + n)
  PROVE  Holds(s \o t, n + m, h, k)
<1>1. s \in Seq(Symbol) /\ t \in Seq(Symbol) /\ Len(s) = n /\ Len(t) = m
  BY DEF Holds
<1>2. s \o t \in Seq(Symbol) /\ Len(s \o t) = n + m
  BY <1>1, Concat
<1>3. ASSUME NEW i \in 1 .. n + m PROVE (s \o t)[i] = h[k + i]
  <2>1. CASE i <= n
    <3>1. (s \o t)[i] = s[i]
      BY <1>1, <2>1, Concat
    <3> QED
      BY <2>1, <3>1 DEF Holds
  <2>2. CASE ~(i <= n)
    <3>1. i - n \in 1 .. m /\ k + n + (i - n) = k + i
      BY <2>2
    <3>2. i \in Nat /\ Len(s) < i /\ i <= Len(s) + Len(t) /\ i - Len(s) = i - n
      BY <1>1, <2>2
    <3>3. (s \o t)[i] = t[i - n]
      BY <1>1, <3>2, Concat
    <3>4. t[i - n] = h[k + n + (i - n)]
      BY <3>1 DEF Holds
    <3> QED
      BY <3>1, <3>3, <3>4
  <2> QED
    BY <2>1, <2>2
<1> QED
  BY <1>2, <1>3 DEF Holds

\* A line is its text and the two symbols that end it.
LEMMA LineHeld ==
  ASSUME NEW l \in Symbol, NEW h, NEW k \in Nat,
         h[k + 1] = l, h[k + 2] = "cr", h[k + 3] = "lf"
  PROVE  Holds(Line(l), 3, h, k)
<1>1. Holds(<<l>>, 1, h, k)
  BY DEF Holds
<1>2. Holds(Eol, 2, h, k + 1)
  <2>1. (k + 1) + 1 = k + 2 /\ (k + 1) + 2 = k + 3
    OBVIOUS
  <2> QED
    BY <2>1 DEF Holds, Eol, Symbol
<1>3. Holds(<<l>> \o Eol, 1 + 2, h, k)
  BY <1>1, <1>2, Join
<1> QED
  BY <1>3 DEF Line

\* The heads that a host may send: with a length, and without one.
LongText == <<"request", "cr", "lf", "other", "cr", "lf", "length", "cr", "lf",
              "other", "cr", "lf", "cr", "lf">>
ShortText == <<"request", "cr", "lf", "other", "cr", "lf", "other", "cr", "lf",
               "cr", "lf">>

\* The head of a request with a length, symbol by symbol.
LEMMA LongHead == Holds(RequestHead("length"), 14, LongText, 0)
<1> DEFINE h == LongText
<1>1. /\ h[1] = "request" /\ h[2] = "cr" /\ h[3] = "lf"
      /\ h[4] = "other" /\ h[5] = "cr" /\ h[6] = "lf"
      /\ h[7] = "length" /\ h[8] = "cr" /\ h[9] = "lf"
      /\ h[10] = "other" /\ h[11] = "cr" /\ h[12] = "lf"
      /\ h[13] = "cr" /\ h[14] = "lf"
  BY DEF LongText
<1> HIDE DEF h
<1>2. Holds(Line("request"), 3, h, 0) /\ Holds(Line("other"), 3, h, 0 + 3)
  BY <1>1, LineHeld DEF Symbol
<1>3. Holds(Line("request") \o Line("other"), 6, h, 0)
  BY <1>2, Join
<1>4. Holds(Line("length"), 3, h, 0 + 6) /\ Holds(Line("other"), 3, h, 0 + 9)
  BY <1>1, LineHeld DEF Symbol
<1>5. Holds(Line("request") \o Line("other") \o Line("length"), 9, h, 0)
  BY <1>3, <1>4, Join
<1>6. Holds(Line("request") \o Line("other") \o Line("length") \o Line("other"), 12, h, 0)
  BY <1>4, <1>5, Join
<1>7. Holds(Eol, 2, h, 0 + 12)
  BY <1>1 DEF Holds, Eol, Symbol
<1>8. Holds(Line("request") \o Line("other") \o Line("length") \o Line("other") \o Eol, 14, h, 0)
  BY <1>6, <1>7, Join
<1> QED
  BY <1>8 DEF RequestHead, h
\* The head of a request without one.
LEMMA ShortHead == Holds(RequestHead("chunked"), 11, ShortText, 0)
<1> DEFINE h == ShortText
<1>1. /\ h[1] = "request" /\ h[2] = "cr" /\ h[3] = "lf"
      /\ h[4] = "other" /\ h[5] = "cr" /\ h[6] = "lf"
      /\ h[7] = "other" /\ h[8] = "cr" /\ h[9] = "lf"
      /\ h[10] = "cr" /\ h[11] = "lf"
  BY DEF ShortText
<1> HIDE DEF h
<1>2. Holds(Line("request"), 3, h, 0) /\ Holds(Line("other"), 3, h, 0 + 3)
  BY <1>1, LineHeld DEF Symbol
<1>3. Holds(Line("request") \o Line("other"), 6, h, 0)
  BY <1>2, Join
<1>4. Holds(<<>>, 0, h, 0 + 6)
  BY DEF Holds
<1>5. Holds(Line("request") \o Line("other") \o <<>>, 6, h, 0)
  BY <1>3, <1>4, Join
<1>6. Holds(Line("other"), 3, h, 0 + 6)
  BY <1>1, LineHeld DEF Symbol
<1>7. Holds(Line("request") \o Line("other") \o <<>> \o Line("other"), 9, h, 0)
  BY <1>5, <1>6, Join
<1>8. Holds(Eol, 2, h, 0 + 9)
  BY <1>1 DEF Holds, Eol, Symbol
<1>9. Holds(Line("request") \o Line("other") \o <<>> \o Line("other") \o Eol, 11, h, 0)
  BY <1>7, <1>8, Join
<1> QED
  BY <1>9 DEF RequestHead, h

-----------------------------------------------------------------------------
(* What the host sends, at most: its head, and the body behind it.  (None  *)
(* is sent behind a head without a length.)                                *)

HeadText == IF declared = NoLength THEN ShortText ELSE LongText
HeadEnd == IF declared = NoLength THEN 11 ELSE 14
Text == [i \in Nat |-> IF i <= HeadEnd THEN HeadText[i] ELSE Body[i - HeadEnd]]

\* Until the body is forwarded to tar.
Heading == {"none", "accept", "head", "parse", "request", "prefetch"}
Tending == {"collect", "collecting", "answer"}
Position == Heading \cup {"copy"} \cup Tending \cup {"closed"}

(* Where the handler, the guest and tar can be at the same time.           *)
PlaceInv ==
  /\ method \in {"put", "get", "stat", "healthz"}
  /\ declared \in 0 .. Len(Body) \cup {NoLength}
  /\ method # "put" => declared = NoLength
  /\ peer \in {"there", "gone"} /\ (peer = "gone" <=> hpc = "done")
  /\ hpc \in {"lookup", "dial", "exchange", "copy", "done"}
  /\ pc \in Position /\ child \in {"none", "running", "zombie", "reaped"}
  /\ hpc \in {"lookup", "dial"} => pc = "none"
  /\ hpc \in {"exchange", "copy"} => pc # "none"
  /\ pc = "none" => wire = <<>> /\ given = 0
  /\ pc \in {"none", "accept"} => buf = <<>>
  /\ pc \in Heading \ {"prefetch"} =>
       child = "none" /\ reply = "none" /\ fed = <<>> /\ ~short /\ sent = 0 /\ made = 0 /\ pipe = 0
  /\ pc \in {"prefetch", "copy"} \cup Tending =>
       /\ child # "none"
       /\ (method = "put" /\ reply = "none") \/ (method = "get" /\ reply = "ok")
  /\ pc = "prefetch" => method = "put" /\ fed = <<>> /\ ~short
  /\ reply \in {"none", "ok", "failed"}
  /\ short => child # "running"

\* The pieces of the body that the guest has taken off the wire.
Taken == declared - left

(* What the guest has read is the beginning of the text, and what is still *)
(* on the wire follows it.                                                 *)
TextInv ==
  /\ given \in 0 .. Len(Body) /\ (given > 0 => declared # NoLength /\ given <= declared)
  /\ pc \in Heading =>
       /\ Holds(buf, Len(buf), Text, 0)
       /\ Holds(wire, Len(wire), Text, Len(buf))
  /\ pc \in Heading \ {"none"} =>
       /\ Len(buf) + Len(wire) <= HeadEnd + given
       /\ peer = "there" => Len(buf) + Len(wire) = HeadEnd + given
  /\ pc = "head" => Len(buf) < HeadEnd
  /\ pc \in {"parse", "request", "prefetch"} => Len(buf) >= HeadEnd
  /\ pc \in {"request", "prefetch", "copy"} \cup Tending => length = declared
  /\ pc \in {"prefetch", "copy"} /\ method = "put" => declared \in 0 .. Len(Body) /\ left \in 0 .. declared
  /\ pc = "prefetch" => left = declared
  /\ pc = "copy" /\ method = "put" =>
       /\ Holds(wire, Len(wire), Body, Taken)
       /\ Taken + Len(wire) <= given
       /\ peer = "there" => Taken + Len(wire) = given
       /\ child = "running" \/ ~short => Len(fed) = Taken
  /\ Holds(fed, Len(fed), Body, 0) /\ Len(fed) <= Len(Body)
  /\ pc = "closed" /\ reply = "none" /\ buf # <<>> => peer = "gone"

\* The upload was written to tar, or tar refused it.
Fed == short \/ Len(fed) = declared

(* What a 204 for an upload rests on.                                      *)
AcceptedInv ==
  /\ status = "none" \/ (hpc = "copy" /\ status = "200") \/ hpc = "done"
  /\ method = "put" /\ peer = "there" /\ pc \in Tending => Fed
  /\ method = "put" /\ reply = "ok" => pc = "closed"
  /\ method = "put" /\ reply = "ok" /\ peer = "there" => Fed
  /\ method = "put" /\ status = "204" => pc = "closed" /\ Fed

\* The archive was sent as tar wrote it, and tar has ended.
AllSent == pipe = 0 /\ child \in {"zombie", "reaped"}

(* What the end of a download rests on.                                    *)
ArchiveInv ==
  /\ sent \in Nat /\ pipe \in Nat /\ made = sent + pipe
  /\ method = "get" /\ peer = "there" /\ reply = "ok" /\ pc \in Tending \cup {"closed"} => AllSent
  /\ hpc = "copy" => method = "get" /\ reply = "ok" /\ status = "200"
  /\ method = "get" /\ reply = "ok" => pc \in {"copy", "closed"} \cup Tending
  /\ method = "get" /\ status = "200" => hpc \in {"copy", "done"}
  /\ method = "get" /\ status = "200" /\ hpc = "done" /\ user = "there" /\ vm = "up" =>
       pc = "closed" /\ AllSent /\ delivered = sent

-----------------------------------------------------------------------------
(* What the steps have in common.                                          *)

\* What the guest has does not change.
guestStay == UNCHANGED <<pc, childVars, reqVars, headVars, putVars, getVars, open, reply>>

\* The places go together: what forks tar, and what answers, is where it must be.
LEMMA PlacePreserved == PlaceInv /\ [FNext]_vars => PlaceInv'
<1> SUFFICES ASSUME PlaceInv, [FNext]_vars PROVE PlaceInv'
  OBVIOUS
<1> USE DEF PlaceInv, Heading, Tending, Position, childVars, reqVars, headVars, putVars,
            getVars, guestVars, hostVars, Goto
<1>1. CASE LookupFails \/ BadPath \/ DialFails \/ ReadAnswer \/ ExchangeFails
           \/ CopyEnds \/ Abandon \/ HealthzExpires
  <2>1. /\ hpc' = "done" /\ peer' = "gone" /\ (wire = <<>> => wire' = <<>>)
        /\ guestStay /\ given' = given
    BY <1>1 DEF LookupFails, BadPath, DialFails, ReadAnswer, ExchangeFails, CopyEnds,
                Abandon, HealthzExpires, Return, guestStay
  <2> QED
    BY <2>1 DEF guestStay
<1>2. CASE Lookup \/ DialSucceeds \/ ForwardBody \/ GetStarts \/ UserLeaves \/ VmDies
           \/ UNCHANGED vars
  BY <1>2 DEF Lookup, DialSucceeds, ForwardBody, GetStarts, UserLeaves, VmDies, vars
<1>3. CASE GuestStep(AcceptConnection) \/ GuestStep(ReadHead) \/ GuestStep(HeadEnds)
           \/ GuestStep(Parse) \/ GuestStep(Reject) \/ GuestStep(AnswerAtOnce)
  BY <1>3 DEF GuestStep, AcceptConnection, ReadHead, HeadEnds, Parse, Reject, AnswerAtOnce
<1>4. CASE GuestStep(SpawnTar)
  BY <1>4 DEF GuestStep, SpawnTar, Tarring, Fork
<1>5. CASE GuestStep(FeedTar) \/ GuestStep(EndFeed) \/ GuestStep(Answer)
  BY <1>5 DEF GuestStep, FeedTar, EndFeed, Answer
<1>8. CASE GuestStep(FeedPrefetched)
  <2>1. /\ pc = "prefetch" /\ pc' = "copy"
        /\ short' => child # "running"
        /\ UNCHANGED <<childVars, reqVars, wire, peer, headVars, getVars, open, reply, hostVars>>
    BY <1>8 DEF GuestStep, FeedPrefetched
  <2> QED
    BY <2>1
<1>6. CASE GuestStep(SendArchive) \/ GuestStep(EndArchive) \/ GuestStep(EndBody)
  BY <1>6 DEF GuestStep, SendArchive, EndArchive, EndBody
<1>7. CASE GuestStep(Collect) \/ GuestStep(TarStep) \/ GuestStep(Sigchld)
  BY <1>7 DEF GuestStep, Collect, WaitSleeps, WaitCollects, WaitFindsNoChild, TarStep,
              TarWrites, TarEnds, Dies, Sigchld, SigchldReaps
<1> QED
  BY <1>1, <1>2, <1>3, <1>4, <1>5, <1>6, <1>7, <1>8
     DEF FNext, HostStep, ServerStep, GuestStep, GuestNext, HandlerStep, OwnStep,
         WritesArchive

\* No read of the archive is lost, and the copy ends only after tar.
LEMMA ArchivePreserved == PlaceInv /\ ArchiveInv /\ [FNext]_vars => ArchiveInv'
<1> SUFFICES ASSUME PlaceInv, ArchiveInv, [FNext]_vars PROVE ArchiveInv'
  OBVIOUS
<1> USE DEF ArchiveInv, AllSent, Heading, Tending, Position, childVars, reqVars, headVars,
            putVars, getVars, guestVars, hostVars, Goto
<1>0. /\ method \in {"put", "get", "stat", "healthz"}
      /\ peer \in {"there", "gone"} /\ (peer = "gone" <=> hpc = "done")
      /\ pc \in Position /\ (hpc \in {"lookup", "dial"} => pc = "none")
      /\ pc \in Heading \ {"prefetch"} =>
           child = "none" /\ reply = "none" /\ sent = 0 /\ made = 0 /\ pipe = 0
      /\ pc \in {"prefetch", "copy"} \cup Tending =>
           /\ child # "none"
           /\ (method = "put" /\ reply = "none") \/ (method = "get" /\ reply = "ok")
      /\ pc = "prefetch" => method = "put"
  BY DEF PlaceInv
<1>1. CASE LookupFails \/ BadPath \/ DialFails \/ ReadAnswer \/ ExchangeFails \/ HealthzExpires
  BY <1>0, <1>1 DEF LookupFails, BadPath, DialFails, ReadAnswer, ExchangeFails,
     HealthzExpires, Return, Unavailable, Probe
<1>2. CASE CopyEnds \/ Abandon
  BY <1>0, <1>2 DEF CopyEnds, Abandon, Return
<1>3. CASE Lookup \/ DialSucceeds \/ ForwardBody
  BY <1>0, <1>3 DEF Lookup, DialSucceeds, ForwardBody
<1>10. CASE GetStarts
  BY <1>0, <1>10 DEF GetStarts
<1>11. CASE UserLeaves \/ VmDies \/ UNCHANGED vars
  BY <1>0, <1>11 DEF UserLeaves, VmDies, vars
<1>4. CASE GuestStep(AcceptConnection) \/ GuestStep(ReadHead) \/ GuestStep(HeadEnds)
           \/ GuestStep(Parse) \/ GuestStep(Reject) \/ GuestStep(AnswerAtOnce)
  BY <1>0, <1>4 DEF GuestStep, AcceptConnection, ReadHead, HeadEnds, Parse, Reject,
     AnswerAtOnce
<1>5. CASE GuestStep(SpawnTar) \/ GuestStep(FeedTar) \/ GuestStep(EndFeed)
           \/ GuestStep(Answer)
  BY <1>0, <1>5 DEF GuestStep, SpawnTar, Tarring, Fork, FeedTar, EndFeed, Answer
<1>6. CASE GuestStep(FeedPrefetched)
  <2>1. /\ pc = "prefetch" /\ pc' = "copy"
        /\ UNCHANGED <<childVars, reqVars, wire, peer, headVars, getVars, open, reply, hostVars>>
    BY <1>6 DEF GuestStep, FeedPrefetched
  <2> QED
    BY <1>0, <2>1
<1>7. CASE GuestStep(SendArchive)
  BY <1>0, <1>7 DEF GuestStep, SendArchive
<1>8. CASE GuestStep(EndArchive) \/ GuestStep(EndBody)
  <2>1. child \in {"none", "running", "zombie", "reaped"}
    BY DEF PlaceInv
  <2> QED
    BY <1>0, <1>8, <2>1 DEF GuestStep, EndArchive, EndBody
<1>9. CASE GuestStep(Collect) \/ GuestStep(TarStep) \/ GuestStep(Sigchld)
  BY <1>0, <1>9 DEF GuestStep, Collect, WaitSleeps, WaitCollects, WaitFindsNoChild, TarStep,
              TarWrites, TarEnds, Dies, Sigchld, SigchldReaps
<1> QED
  BY <1>1, <1>2, <1>3, <1>4, <1>5, <1>6, <1>7, <1>8, <1>9, <1>10, <1>11
     DEF FNext, HostStep, ServerStep, GuestStep, GuestNext, HandlerStep, OwnStep,
         WritesArchive

\* The guest answers when the body was fed, or when the host is gone.
LEMMA AcceptedPreserved ==
  PlaceInv /\ TextInv /\ AcceptedInv /\ [FNext]_vars => AcceptedInv'
<1> SUFFICES ASSUME PlaceInv, TextInv, AcceptedInv, [FNext]_vars PROVE AcceptedInv'
  OBVIOUS
<1> USE DEF AcceptedInv, Fed, Heading, Tending, Position, childVars, reqVars, headVars,
            putVars, getVars, guestVars, hostVars, Goto
<1>0. /\ method \in {"put", "get", "stat", "healthz"}
      /\ peer \in {"there", "gone"} /\ (peer = "gone" <=> hpc = "done")
      /\ pc \in Position /\ (hpc \in {"lookup", "dial"} => pc = "none")
      /\ pc \in Heading \ {"prefetch"} => child = "none" /\ reply = "none"
      /\ pc \in {"prefetch", "copy"} \cup Tending =>
           (method = "put" /\ reply = "none") \/ (method = "get" /\ reply = "ok")
      /\ reply \in {"none", "ok", "failed"}
  BY DEF PlaceInv
<1>1. CASE LookupFails \/ BadPath \/ DialFails \/ ReadAnswer \/ ExchangeFails \/ HealthzExpires
  BY <1>0, <1>1 DEF LookupFails, BadPath, DialFails, ReadAnswer, ExchangeFails,
     HealthzExpires, Return, Unavailable, Probe
<1>2. CASE CopyEnds \/ Abandon
  BY <1>0, <1>2 DEF CopyEnds, Abandon, Return
<1>3. CASE Lookup \/ DialSucceeds \/ ForwardBody \/ GetStarts \/ UserLeaves \/ VmDies
           \/ UNCHANGED vars
  BY <1>0, <1>3 DEF Lookup, DialSucceeds, ForwardBody, GetStarts, UserLeaves, VmDies, vars
<1>4. CASE GuestStep(AcceptConnection) \/ GuestStep(ReadHead) \/ GuestStep(HeadEnds)
           \/ GuestStep(Parse) \/ GuestStep(Reject) \/ GuestStep(AnswerAtOnce)
  BY <1>0, <1>4 DEF GuestStep, AcceptConnection, ReadHead, HeadEnds, Parse, Reject,
     AnswerAtOnce
<1>5. CASE GuestStep(SpawnTar) \/ GuestStep(FeedTar)
  BY <1>0, <1>5 DEF GuestStep, SpawnTar, Tarring, Fork, FeedTar
<1>6. CASE GuestStep(FeedPrefetched)
  <2>1. /\ pc = "prefetch" /\ pc' = "copy"
        /\ UNCHANGED <<childVars, reqVars, wire, peer, headVars, getVars, open, reply, hostVars>>
    BY <1>6 DEF GuestStep, FeedPrefetched
  <2> QED
    BY <1>0, <2>1
<1>7. CASE GuestStep(EndFeed)
  <2>1. pc = "copy" /\ method = "put" /\ (~short => Len(fed) = Taken)
    BY <1>7 DEF GuestStep, EndFeed, TextInv
  <2>2. left = 0 => Taken = declared
    BY <2>1 DEF TextInv, Taken
  <2> QED
    BY <1>0, <1>7, <2>1, <2>2 DEF GuestStep, EndFeed
<1>8. CASE GuestStep(Answer) \/ GuestStep(SendArchive) \/ GuestStep(EndArchive)
           \/ GuestStep(EndBody)
  BY <1>0, <1>8 DEF GuestStep, Answer, SendArchive, EndArchive, EndBody
<1>9. CASE GuestStep(Collect) \/ GuestStep(TarStep) \/ GuestStep(Sigchld)
  BY <1>0, <1>9 DEF GuestStep, Collect, WaitSleeps, WaitCollects, WaitFindsNoChild, TarStep,
              TarWrites, TarEnds, Dies, Sigchld, SigchldReaps
<1> QED
  BY <1>1, <1>2, <1>3, <1>4, <1>5, <1>6, <1>7, <1>8, <1>9
     DEF FNext, HostStep, ServerStep, GuestStep, GuestNext, HandlerStep, OwnStep,
         WritesArchive

-----------------------------------------------------------------------------
(* What the guest finds in such a text.                                    *)

\* Where the line ends, the end of the head, the length and the body are.
LEMMA TextFacts ==
  /\ HeadEnd \in {11, 14} /\ (HeadEnd = 14 <=> declared # NoLength)
  /\ Text[1] = "request" /\ Text[2] = "cr" /\ Text[3] = "lf"
  /\ Text[HeadEnd - 3] = "cr" /\ Text[HeadEnd - 2] = "lf"
  /\ Text[HeadEnd - 1] = "cr" /\ Text[HeadEnd] = "lf"
  /\ \A i \in 1 .. HeadEnd - 3 : Text[i] = "cr" /\ Text[i + 2] = "cr" => i = HeadEnd - 3
  /\ \A i \in 1 .. HeadEnd : Text[i] = "length" <=> i = 7 /\ declared # NoLength
  /\ declared # NoLength => Text[8] = "cr" /\ Text[9] = "lf"
<1>1. \A i \in 1 .. HeadEnd : Text[i] = HeadText[i]
  BY DEF Text, HeadEnd
<1>2. HeadEnd \in {11, 14} /\ (HeadEnd = 14 <=> declared # NoLength)
  BY DEF HeadEnd
<1> DEFINE h == HeadText
<1>3. /\ h[1] = "request" /\ h[2] = "cr" /\ h[3] = "lf"
      /\ h[HeadEnd - 3] = "cr" /\ h[HeadEnd - 2] = "lf"
      /\ h[HeadEnd - 1] = "cr" /\ h[HeadEnd] = "lf"
      /\ \A i \in 1 .. HeadEnd - 3 : h[i] = "cr" /\ h[i + 2] = "cr" => i = HeadEnd - 3
      /\ \A i \in 1 .. HeadEnd : h[i] = "length" <=> i = 7 /\ declared # NoLength
      /\ declared # NoLength => h[8] = "cr" /\ h[9] = "lf"
  <2>1. CASE declared = NoLength
    BY <2>1 DEF HeadEnd, HeadText, ShortText
  <2>2. CASE declared # NoLength
    BY <2>2 DEF HeadEnd, HeadText, LongText
  <2> QED
    BY <2>1, <2>2
<1> HIDE DEF h
<1> QED
  BY <1>1, <1>2, <1>3 DEF h

\* The body follows the head.
LEMMA BodyFollows ==
  /\ Body \in Seq(Symbol) /\ Len(Body) \in Nat
  /\ \A i \in 1 .. Len(Body) : Text[HeadEnd + i] = Body[i] /\ Body[i] \in Symbol
<1>1. Body \in Seq(Symbol) /\ Len(Body) \in Nat
  BY GuestTarAssumption DEF Symbol
<1>2. ASSUME NEW i \in 1 .. Len(Body) PROVE Text[HeadEnd + i] = Body[i]
  <2>1. HeadEnd + i \in Nat /\ ~(HeadEnd + i <= HeadEnd) /\ (HeadEnd + i) - HeadEnd = i
    BY <1>1 DEF HeadEnd
  <2> QED
    BY <2>1 DEF Text
<1> QED
  BY <1>1, <1>2

\* Its length.
LEMMA HeadSize == HeadEnd \in {11, 14}
BY DEF HeadEnd

\* Its first symbols.
LEMMA HeadBegins == Text[1] = "request" /\ Text[2] = "cr" /\ Text[3] = "lf"
BY TextFacts, Zenon

\* Its last symbols.
LEMMA HeadCloses ==
  /\ Text[HeadEnd - 3] = "cr" /\ Text[HeadEnd - 2] = "lf"
  /\ Text[HeadEnd - 1] = "cr" /\ Text[HeadEnd] = "lf"
BY TextFacts, Zenon

\* It has one empty line.
LEMMA EmptyLineOnce ==
  \A i \in 1 .. HeadEnd - 3 : Text[i] = "cr" /\ Text[i + 2] = "cr" => i = HeadEnd - 3
BY TextFacts, Zenon

\* The two parts of a text that is cut.
LEMMA Cut ==
  ASSUME NEW s, NEW m \in Nat, NEW h, NEW k \in Nat, Holds(s, m, h, k), NEW n \in 0 .. m
  PROVE  /\ Holds(SubSeq(s, 1, n), n, h, k)
         /\ Holds(SubSeq(s, n + 1, m), m - n, h, k + n)
<1>1. s \in Seq(Symbol) /\ Len(s) = m
  BY DEF Holds
<1>2. /\ SubSeq(s, 1, n) \in Seq(Symbol) /\ Len(SubSeq(s, 1, n)) = n
      /\ \A i \in 1 .. n : SubSeq(s, 1, n)[i] = s[i]
  BY <1>1
<1>3. /\ SubSeq(s, n + 1, m) \in Seq(Symbol) /\ Len(SubSeq(s, n + 1, m)) = m - n
      /\ \A i \in 1 .. m - n : SubSeq(s, n + 1, m)[i] = s[n + i]
  BY <1>1
<1>4. \A i \in 1 .. m - n : n + i \in 1 .. m /\ k + (n + i) = (k + n) + i
  OBVIOUS
<1>5. \A i \in 1 .. m : s[i] = h[k + i]
  BY DEF Holds
<1>6. \A i \in 1 .. n : SubSeq(s, 1, n)[i] = h[k + i]
  BY <1>2, <1>5
<1>7. \A i \in 1 .. m - n : SubSeq(s, n + 1, m)[i] = h[(k + n) + i]
  BY <1>3, <1>4, <1>5
<1>8. Holds(SubSeq(s, 1, n), n, h, k)
  BY <1>2, <1>6, Zenon DEF Holds
<1>9. Holds(SubSeq(s, n + 1, m), m - n, h, k + n)
  BY <1>3, <1>7, Zenon DEF Holds
<1> QED
  BY <1>8, <1>9

\* The end of the head is four symbols.
LEMMA EndOfHeadText ==
  /\ EndOfHead \in Seq(Symbol) /\ Len(EndOfHead) = 4
  /\ EndOfHead[1] = "cr" /\ EndOfHead[2] = "lf" /\ EndOfHead[3] = "cr" /\ EndOfHead[4] = "lf"
<1> DEFINE h == <<"cr", "lf", "cr", "lf">>
<1>1. h[1] = "cr" /\ h[2] = "lf" /\ h[3] = "cr" /\ h[4] = "lf"
  OBVIOUS
<1> HIDE DEF h
<1>2. Holds(Eol, 2, h, 0) /\ Holds(Eol, 2, h, 0 + 2)
  BY <1>1 DEF Holds, Eol, Symbol
<1>3. Holds(EndOfHead, 4, h, 0)
  BY <1>2, Join DEF EndOfHead
<1> QED
  BY <1>1, <1>3 DEF Holds

\* The end of the head occurs where its four symbols do.
LEMMA OccursEnd ==
  ASSUME NEW s \in Seq(Symbol), NEW i \in Nat \ {0}
  PROVE  OccursAt(EndOfHead, s, i) <=>
           /\ i + 3 <= Len(s)
           /\ s[i] = "cr" /\ s[i + 1] = "lf" /\ s[i + 2] = "cr" /\ s[i + 3] = "lf"
<1> DEFINE t == SubSeq(s, i, i + 3)
<1>1. OccursAt(EndOfHead, s, i) <=> i + 3 <= Len(s) /\ t = EndOfHead
  <2>1. i + Len(EndOfHead) - 1 = i + 3
    BY EndOfHeadText
  <2> QED
    BY <2>1 DEF OccursAt
<1>2. ASSUME i + 3 <= Len(s)
      PROVE  /\ t \in Seq(Symbol) /\ Len(t) = 4
             /\ t[1] = s[i] /\ t[2] = s[i + 1] /\ t[3] = s[i + 2] /\ t[4] = s[i + 3]
  BY <1>2
<1> HIDE DEF t
<1>3. ASSUME i + 3 <= Len(s), s[i] = "cr", s[i + 1] = "lf", s[i + 2] = "cr", s[i + 3] = "lf"
      PROVE  t = EndOfHead
  <2>1. /\ t \in Seq(Symbol) /\ Len(t) = 4
        /\ t[1] = "cr" /\ t[2] = "lf" /\ t[3] = "cr" /\ t[4] = "lf"
    BY <1>2, <1>3
  <2>2. \A j \in 1 .. 4 : t[j] = EndOfHead[j]
    BY <2>1, EndOfHeadText
  <2> QED
    BY <2>1, <2>2, EndOfHeadText, SameText
<1>4. ASSUME i + 3 <= Len(s), t = EndOfHead
      PROVE  s[i] = "cr" /\ s[i + 1] = "lf" /\ s[i + 2] = "cr" /\ s[i + 3] = "lf"
  BY <1>2, <1>4, EndOfHeadText
<1> QED
  BY <1>1, <1>3, <1>4

\* In what the guest has read of the text, the end of the head occurs when all
\* of the head has been read, and nowhere before; the body may hold another.
LEMMA EndOccurs ==
  ASSUME NEW b, Holds(b, Len(b), Text, 0)
  PROVE  /\ \A i \in Nat \ {0} :
              OccursAt(EndOfHead, b, i) => HeadEnd - 3 <= i /\ HeadEnd <= Len(b)
         /\ HeadEnd <= Len(b) => OccursAt(EndOfHead, b, HeadEnd - 3)
<1>1. b \in Seq(Symbol) /\ Len(b) \in Nat /\ \A j \in 1 .. Len(b) : b[j] = Text[j]
  BY DEF Holds
<1>2. ASSUME NEW i \in Nat \ {0}, OccursAt(EndOfHead, b, i)
      PROVE  HeadEnd - 3 <= i /\ HeadEnd <= Len(b)
  <2>1. i + 3 <= Len(b) /\ b[i] = "cr" /\ b[i + 2] = "cr"
    BY <1>1, <1>2, OccursEnd
  <2>2. i \in 1 .. Len(b) /\ i + 2 \in 1 .. Len(b)
    BY <1>1, <2>1
  <2>3. Text[i] = "cr" /\ Text[i + 2] = "cr"
    BY <1>1, <2>1, <2>2
  <2>4. HeadEnd - 3 <= i
    <3>1. i \in 1 .. HeadEnd - 3 => i = HeadEnd - 3
      BY <2>3, EmptyLineOnce, Zenon
    <3> QED
      BY <3>1, HeadSize
  <2> QED
    BY <1>1, <2>1, <2>4, HeadSize
<1>3. ASSUME HeadEnd <= Len(b) PROVE OccursAt(EndOfHead, b, HeadEnd - 3)
  <2> DEFINE i == HeadEnd - 3
  <2>1. /\ i + 3 = HeadEnd /\ i + 2 = HeadEnd - 1 /\ i + 1 = HeadEnd - 2
        /\ {i, i + 1, i + 2, i + 3} \subseteq 1 .. Len(b) /\ i \in Nat \ {0}
    BY <1>1, <1>3, HeadSize
  <2>2. /\ Text[i] = "cr" /\ Text[i + 1] = "lf"
        /\ Text[i + 2] = "cr" /\ Text[i + 3] = "lf"
    BY <2>1, HeadCloses, Zenon
  <2> HIDE DEF i
  <2>3. b[i] = "cr" /\ b[i + 1] = "lf" /\ b[i + 2] = "cr" /\ b[i + 3] = "lf"
    <3>1. /\ b[i] = Text[i] /\ b[i + 1] = Text[i + 1]
          /\ b[i + 2] = Text[i + 2] /\ b[i + 3] = Text[i + 3]
      BY <1>1, <2>1
    <3> QED
      BY <2>2, <3>1, Zenon
  <2>4. OccursAt(EndOfHead, b, i)
    BY <1>1, <1>3, <2>1, <2>3, OccursEnd
  <2> QED
    BY <2>4 DEF i
<1> QED
  BY <1>2, <1>3

\* read_until finds the end of the head in the read that brings its last
\* symbol, and not before.
LEMMA ReadUntilIsRight ==
  ASSUME NEW b, Holds(b, Len(b), Text, 0),
         NEW n \in 1 .. Len(b), Len(b) - n < HeadEnd, NEW found \in ReadUntilFinds(b, n)
  PROVE  found <=> HeadEnd <= Len(b)
<1>1. b \in Seq(Symbol) /\ Len(b) \in Nat /\ b[1] = "request"
  BY HeadBegins DEF Holds
<1> DEFINE old == Len(b) - n
           end == \E i \in 1 .. Len(b) : i + 3 > old /\ OccursAt(EndOfHead, b, i)
           stray == \E k \in 1 .. 3 : k + old <= 3 /\ IsPrefix(SubSeq(EndOfHead, k + 1, 4), b)
<1>2. end <=> HeadEnd <= Len(b)
  <2>1. ASSUME end PROVE HeadEnd <= Len(b)
    BY <2>1, EndOccurs
  <2>2. ASSUME HeadEnd <= Len(b) PROVE end
    <3>1. HeadEnd - 3 \in 1 .. Len(b) /\ (HeadEnd - 3) + 3 > old
      BY <1>1, <2>2, TextFacts
    <3>2. OccursAt(EndOfHead, b, HeadEnd - 3)
      BY <2>2, <3>1, EndOccurs
    <3> QED
      BY <3>1, <3>2
  <2> QED
    BY <2>1, <2>2
<1>3. ~stray
  <2> SUFFICES ASSUME NEW k \in 1 .. 3, IsPrefix(SubSeq(EndOfHead, k + 1, 4), b)
               PROVE  FALSE
    OBVIOUS
  <2> DEFINE p == SubSeq(EndOfHead, k + 1, 4)
  <2>0. /\ EndOfHead \in Seq(Symbol) /\ k + 1 \in 1 .. Len(EndOfHead)
        /\ 4 \in 1 .. Len(EndOfHead) /\ k + 1 <= 4 /\ 4 - (k + 1) + 1 = 4 - k
    BY EndOfHeadText
  <2>1. p \in Seq(Symbol) /\ Len(p) = 4 - k /\ p[1] = EndOfHead[k + 1]
    BY <2>0
  <2>2. p[1] \in {"cr", "lf"}
    BY <2>1, EndOfHeadText
  <2> HIDE DEF p
  <2>3. IsPrefix(p, b)
    BY DEF p
  <2>4. Len(p) <= Len(b) /\ SubSeq(p, 1, Len(p)) = SubSeq(b, 1, Len(p))
    BY <2>3 DEF IsPrefix
  <2>5. SubSeq(p, 1, Len(p))[1] = p[1] /\ SubSeq(b, 1, Len(p))[1] = b[1]
    BY <1>1, <2>1, <2>4
  <2> QED
    BY <1>1, <2>2, <2>4, <2>5
<1>4. Len(b) < Len(EndOfHead) => ~(HeadEnd <= Len(b))
  BY <1>1, EndOfHeadText, TextFacts
<1>5. /\ HeadEnd <= Len(b) => ReadUntilFinds(b, n) = {end}
      /\ ReadUntilFinds(b, n) \subseteq {end, FALSE}
  BY <1>3, <1>4 DEF ReadUntilFinds
<1> QED
  BY <1>2, <1>5

\* So strstr finds it there.
LEMMA EndFound ==
  ASSUME NEW b, Holds(b, Len(b), Text, 0), HeadEnd <= Len(b)
  PROVE  Find(EndOfHead, b) = HeadEnd - 3
<1> DEFINE at == {i \in DOMAIN b : OccursAt(EndOfHead, b, i)}
<1>1. b \in Seq(Symbol) /\ Len(b) \in Nat /\ HeadEnd - 3 \in 1 .. Len(b)
  BY TextFacts DEF Holds
<1>2. DOMAIN b = 1 .. Len(b)
  BY <1>1
<1>3. \A i \in 1 .. Len(b) : OccursAt(EndOfHead, b, i) => HeadEnd - 3 <= i
  BY <1>1, EndOccurs
<1>4. HeadEnd - 3 \in at /\ (\A i \in at : HeadEnd - 3 <= i) /\ at \subseteq Nat
  BY <1>1, <1>2, <1>3, EndOccurs
<1> HIDE DEF at
<1>5. (CHOOSE i \in at : \A j \in at : i <= j) = HeadEnd - 3
  <2> DEFINE m == CHOOSE i \in at : \A j \in at : i <= j
  <2>1. m \in at /\ \A j \in at : m <= j
    BY <1>4
  <2> HIDE DEF m
  <2>2. m \in Nat /\ m <= HeadEnd - 3 /\ HeadEnd - 3 <= m
    BY <1>4, <2>1
  <2>3. m = HeadEnd - 3
    BY <2>2, HeadSize
  <2> QED
    BY <2>3 DEF m
<1> QED
  BY <1>4, <1>5 DEF Find, at

\* A line ends where its two symbols occur.
LEMMA OccursEol ==
  ASSUME NEW s \in Seq(Symbol), NEW i \in Nat \ {0}
  PROVE  OccursAt(Eol, s, i) <=> i + 1 <= Len(s) /\ s[i] = "cr" /\ s[i + 1] = "lf"
<1> DEFINE t == SubSeq(s, i, i + 1)
<1>0. Eol \in Seq(Symbol) /\ Len(Eol) = 2 /\ Eol[1] = "cr" /\ Eol[2] = "lf"
  BY DEF Eol, Symbol
<1>1. OccursAt(Eol, s, i) <=> i + 1 <= Len(s) /\ t = Eol
  <2>1. i + Len(Eol) - 1 = i + 1
    BY <1>0
  <2> QED
    BY <2>1 DEF OccursAt
<1>2. ASSUME i + 1 <= Len(s)
      PROVE  t \in Seq(Symbol) /\ Len(t) = 2 /\ t[1] = s[i] /\ t[2] = s[i + 1]
  BY <1>2
<1> HIDE DEF t
<1>3. ASSUME i + 1 <= Len(s), s[i] = "cr", s[i + 1] = "lf"
      PROVE  t = Eol
  <2>1. t \in Seq(Symbol) /\ Len(t) = 2 /\ t[1] = "cr" /\ t[2] = "lf"
    BY <1>2, <1>3
  <2>2. \A j \in 1 .. 2 : t[j] = Eol[j]
    BY <1>0, <2>1
  <2> QED
    BY <1>0, <2>1, <2>2, SameText
<1>4. ASSUME i + 1 <= Len(s), t = Eol
      PROVE  s[i] = "cr" /\ s[i + 1] = "lf"
  BY <1>0, <1>2, <1>4
<1> QED
  BY <1>1, <1>3, <1>4

\* A whole head is understood: it has a request line, and a length if one was
\* declared; what follows it is body.
LEMMA ParseIsRight ==
  ASSUME NEW b, Holds(b, Len(b), Text, 0), HeadEnd <= Len(b), Len(b) <= HeadEnd + Len(Body)
  PROVE  /\ HasRequestLine(b)
         /\ SeesLength(b) <=> declared # NoLength
         /\ Holds(Prefetched(b), Len(b) - HeadEnd, Body, 0)
<1>0. Find(EndOfHead, b) = HeadEnd - 3
  BY EndFound
<1>1. /\ b \in Seq(Symbol) /\ Len(b) \in Nat /\ HeadEnd \in {11, 14}
      /\ \A i \in 1 .. Len(b) : b[i] = Text[i]
  BY TextFacts DEF Holds
<1>2. HasRequestLine(b)
  <2> DEFINE s == SubSeq(b, 1, HeadEnd - 4)
             at == {i \in DOMAIN s : OccursAt(Eol, s, i)}
  <2>1. /\ s \in Seq(Symbol) /\ Len(s) = HeadEnd - 4
        /\ s[1] = "request" /\ s[2] = "cr" /\ s[3] = "lf"
    <3>1. b[1] = "request" /\ b[2] = "cr" /\ b[3] = "lf"
      BY <1>1, HeadBegins
    <3> QED
      BY <1>1, <3>1
  <2>2. DOMAIN s = 1 .. Len(s) /\ 2 \in 1 .. Len(s) /\ 2 + 1 <= Len(s)
    BY <1>1, <2>1
  <2> HIDE DEF s
  <2>3. OccursAt(Eol, s, 2) /\ ~OccursAt(Eol, s, 1)
    BY <2>1, <2>2, OccursEol
  <2>4. 2 \in at /\ \A j \in at : 2 <= j
    BY <2>2, <2>3
  <2> HIDE DEF at
  <2>5. (CHOOSE i \in at : \A j \in at : i <= j) \in at
    BY <2>4
  <2>6. Find(Eol, s) \in at
    BY <2>4, <2>5 DEF Find, at
  <2>7. Find(Eol, s) > 0
    BY <2>2, <2>6 DEF at
  <2>8. (HeadEnd - 3) - 1 = HeadEnd - 4 /\ HeadEnd - 3 > 0
    BY <1>1
  <2> QED
    BY <1>0, <2>7, <2>8 DEF HasRequestLine, s
<1>3. SeesLength(b) <=> declared # NoLength
  <2>1. ASSUME SeesLength(b) PROVE declared # NoLength
    <3>1. PICK i \in 1 .. (HeadEnd - 3) - 3 : b[i] = "length"
      BY <1>0, <2>1 DEF SeesLength
    <3>2. i \in 1 .. HeadEnd /\ Text[i] = "length"
      BY <1>1, <3>1
    <3> QED
      BY <3>2, TextFacts
  <2>2. ASSUME declared # NoLength PROVE SeesLength(b)
    <3>1. HeadEnd = 14 /\ Text[7] = "length" /\ Text[8] = "cr" /\ Text[9] = "lf"
      BY <2>2, TextFacts
    <3>2. b[7] = "length" /\ b[8] = "cr" /\ b[9] = "lf" /\ 7 \in 1 .. (HeadEnd - 3) - 3
      BY <1>1, <3>1
    <3>3. OccursAt(Eol, b, 7 + 1)
      <4>1. 7 + 1 \in Nat \ {0} /\ 7 + 1 = 8 /\ 8 + 1 = 9 /\ 9 <= Len(b)
        BY <1>1, <3>1
      <4> QED
        BY <1>1, <3>2, <4>1, OccursEol
    <3> QED
      BY <1>0, <3>2, <3>3 DEF SeesLength
  <2> QED
    BY <2>1, <2>2
<1>4. Holds(Prefetched(b), Len(b) - HeadEnd, Body, 0)
  <2>1. HeadLength(b) = HeadEnd /\ HeadEnd \in 0 .. Len(b)
    BY <1>0, <1>1, EndOfHeadText DEF HeadLength
  <2>2. Holds(SubSeq(b, HeadEnd + 1, Len(b)), Len(b) - HeadEnd, Text, 0 + HeadEnd)
    BY <1>1, <2>1, Cut
  <2>3. \A i \in 1 .. Len(b) - HeadEnd : Text[0 + HeadEnd + i] = Body[0 + i]
    <3>1. \A i \in 1 .. Len(b) - HeadEnd :
            i \in 1 .. Len(Body) /\ 0 + HeadEnd + i = HeadEnd + i /\ 0 + i = i
      BY <1>1, BodyFollows
    <3> QED
      BY <3>1, BodyFollows
  <2> QED
    BY <2>1, <2>2, <2>3 DEF Prefetched, Holds
<1> QED
  BY <1>2, <1>3, <1>4

-----------------------------------------------------------------------------
(* What is read and what is on the wire.                                   *)

\* The pieces that a host may declare, and the buffer.
LEMMA Limits ==
  /\ Len(Body) \in Nat /\ MaxHeader \in Nat /\ MaxHeader >= 14
  /\ NoLength \notin Nat /\ \A n \in Nat : ~(n < NoLength)
<1>1. Len(Body) \in Nat
  BY BodyFollows
<1>2. Len(RequestHead("length")) = 14
  BY LongHead DEF Holds
<1>3. NoLength \notin Nat /\ \A n \in Nat : ~(n < NoLength)
  BY DEF NoLength
<1> QED
  BY <1>1, <1>2, <1>3, GuestTarAssumption

\* A step that leaves the text and the guest's part of it alone, and takes no
\* position that asks for more.
LEMMA TextUntouched ==
  ASSUME PlaceInv, TextInv, UNCHANGED <<method, declared, buf, length, left, fed, short, given>>,
         wire' = wire \/ pc' \notin Heading \cup {"copy"},
         peer' = peer \/ peer' = "gone",
         child' = "running" => child = "running" \/ pc' \notin {"prefetch", "copy"},
         pc' = pc \/ pc' \in Tending \cup {"closed"},
         pc' \in Tending => pc \in {"copy"} \cup Tending,
         pc' = "closed" => \/ (pc = "closed" /\ reply' = reply)
                           \/ reply' # "none" \/ buf = <<>> \/ peer' = "gone"
  PROVE  TextInv'
<1>1. Text' = Text /\ HeadEnd' = HeadEnd /\ Taken' = Taken
  BY DEF Text, HeadText, HeadEnd, Taken
<1>2. peer \in {"there", "gone"}
  BY DEF PlaceInv
<1> QED
  BY <1>1, <1>2 DEF TextInv, Heading, Tending

\* The host leaves, and with it any part of what was sent last.
LEMMA ReturnKeepsText ==
  ASSUME PlaceInv, TextInv, guestStay, given' = given, peer' = "gone",
         \E n \in 0 .. Len(wire) : wire' = SubSeq(wire, 1, n)
  PROVE  TextInv'
<1>1. Text' = Text /\ HeadEnd' = HeadEnd /\ Taken' = Taken
  BY DEF Text, HeadText, HeadEnd, Taken, guestStay, reqVars, putVars
<1>2. PICK n \in 0 .. Len(wire) : wire' = SubSeq(wire, 1, n)
  OBVIOUS
<1>3. ASSUME NEW h, NEW k \in Nat, Holds(wire, Len(wire), h, k)
      PROVE  Holds(wire', Len(wire'), h, k) /\ Len(wire') = n /\ n <= Len(wire) /\ Len(wire) \in Nat
  <2>1. Len(wire) \in Nat
    BY <1>3 DEF Holds
  <2>2. Holds(wire', n, h, k)
    BY <1>2, <1>3, <2>1, Cut
  <2> QED
    BY <1>2, <2>1, <2>2 DEF Holds
<1>4. pc \in Heading => Len(buf) \in Nat
  BY DEF TextInv, Holds
<1>5. pc = "copy" /\ method = "put" => Taken \in Nat
  BY DEF TextInv, Taken
<1>6. HeadEnd \in Nat /\ given \in Nat
  BY TextFacts DEF TextInv
<1>7. pc' \in Heading => /\ Holds(buf', Len(buf'), Text', 0)
                         /\ Holds(wire', Len(wire'), Text', Len(buf'))
  BY <1>1, <1>3, <1>4 DEF TextInv, guestStay, headVars
<1>8. pc' \in Heading \ {"none"} => Len(buf') + Len(wire') <= HeadEnd' + given'
  BY <1>1, <1>3, <1>4, <1>6 DEF TextInv, guestStay, headVars
<1>9. pc' = "copy" /\ method' = "put" =>
       /\ Holds(wire', Len(wire'), Body, Taken')
       /\ Taken' + Len(wire') <= given'
       /\ child' = "running" \/ ~short' => Len(fed') = Taken'
  BY <1>1, <1>3, <1>5, <1>6 DEF TextInv, guestStay, putVars, reqVars, childVars
<1> QED
  BY <1>1, <1>7, <1>8, <1>9 DEF TextInv, guestStay, putVars, reqVars, headVars, childVars

\* The host's steps: it sends the head, and the body piece by piece behind it.
LEMMA HostKeepsText == PlaceInv /\ TextInv /\ HostStep => TextInv'
<1> SUFFICES ASSUME PlaceInv, TextInv, HostStep PROVE TextInv'
  OBVIOUS
<1>1. CASE LookupFails \/ BadPath \/ DialFails \/ ReadAnswer \/ ExchangeFails
           \/ CopyEnds \/ Abandon \/ HealthzExpires
  <2>1. /\ peer' = "gone" /\ guestStay /\ given' = given
        /\ \E n \in 0 .. Len(wire) : wire' = SubSeq(wire, 1, n)
    BY <1>1 DEF LookupFails, BadPath, DialFails, ReadAnswer, ExchangeFails, CopyEnds,
                Abandon, HealthzExpires, Return, guestStay
  <2> QED
    BY <2>1, ReturnKeepsText
<1>2. CASE Lookup \/ GetStarts
  BY <1>2, TextUntouched DEF Lookup, GetStarts, guestVars, childVars, reqVars, headVars,
     putVars, PlaceInv
<1>3. CASE DialSucceeds
  <2>1. Text' = Text /\ HeadEnd' = HeadEnd
    BY <1>3 DEF Text, HeadText, HeadEnd, DialSucceeds, reqVars
  <2>2. Holds(wire', HeadEnd, Text, 0)
    <3>1. Holds(wire', HeadEnd, HeadText, 0)
      BY <1>3, LongHead, ShortHead DEF DialSucceeds, HeadEnd, HeadText
    <3>2. \A i \in 1 .. HeadEnd : HeadText[0 + i] = Text[0 + i]
      BY DEF Text, HeadEnd
    <3> QED
      BY <3>1, <3>2 DEF Holds
  <2>3. /\ pc = "none" /\ pc' = "accept" /\ buf' = <<>> /\ given' = 0
        /\ Len(wire') = HeadEnd /\ Len(buf') = 0
    BY <1>3, <2>2 DEF PlaceInv, DialSucceeds, headVars, Goto, Holds
  <2>4. Holds(buf', 0, Text, 0)
    BY <2>3 DEF Holds
  <2>5. HeadEnd \in Nat
    BY TextFacts
  <2> QED
    BY <1>3, <2>1, <2>2, <2>3, <2>4, <2>5 DEF TextInv, DialSucceeds, putVars, Heading,
       Tending, childVars
<1>4. CASE ForwardBody
  <2>1. Text' = Text /\ HeadEnd' = HeadEnd /\ Taken' = Taken
    BY <1>4 DEF Text, HeadText, HeadEnd, Taken, ForwardBody, reqVars, putVars
  <2>2. /\ hpc = "exchange" /\ peer = "there" /\ pc # "none" /\ peer' = peer
        /\ given \in Nat /\ given < declared /\ given' = given + 1
        /\ wire' = Append(wire, Body[given + 1])
        /\ UNCHANGED <<pc, child, buf, length, fed, short, left, method, declared, reply>>
    BY <1>4 DEF ForwardBody, PlaceInv, TextInv, childVars, headVars, putVars, reqVars
  <2>3. declared \in 0 .. Len(Body) /\ given + 1 \in 1 .. Len(Body) /\ declared # NoLength
    BY <2>2, Limits DEF PlaceInv
  <2>4. Holds(<<Body[given + 1]>>, 1, Body, given)
    BY <2>2, <2>3, BodyFollows DEF Holds
  <2>5. Holds(<<Body[given + 1]>>, 1, Text, HeadEnd + given)
    <3>1. HeadEnd + (given + 1) = (HeadEnd + given) + 1
      BY <2>2, HeadSize
    <3>2. Text[(HeadEnd + given) + 1] = Body[given + 1] /\ Body[given + 1] \in Symbol
      BY <2>3, <3>1, BodyFollows
    <3> QED
      BY <3>2 DEF Holds
  <2>6. ASSUME NEW h, NEW k \in Nat, Holds(wire, Len(wire), h, k),
               Holds(<<Body[given + 1]>>, 1, h, k + Len(wire))
        PROVE  Holds(wire', Len(wire'), h, k) /\ Len(wire') = Len(wire) + 1
    <3>1. Len(wire) \in Nat /\ wire \in Seq(Symbol)
      BY <2>6 DEF Holds
    <3>2. wire' = wire \o <<Body[given + 1]>>
      BY <2>2, <2>4, <3>1 DEF Holds
    <3>3. Holds(wire', Len(wire) + 1, h, k)
      BY <2>6, <3>1, <3>2, Join
    <3> QED
      BY <3>3 DEF Holds
  <2>7. CASE pc \in Heading
    <3>1. Len(buf) \in Nat /\ Len(buf) + Len(wire) = HeadEnd + given
      BY <2>2, <2>7 DEF TextInv, Holds
    <3>2. Holds(wire', Len(wire'), Text, Len(buf)) /\ Len(wire') = Len(wire) + 1
      BY <2>5, <2>6, <2>7, <3>1 DEF TextInv
    <3>3. Len(wire) \in Nat /\ HeadEnd \in Nat
      BY <2>7, TextFacts DEF TextInv, Holds
    <3>4. /\ Holds(buf', Len(buf'), Text', 0) /\ Holds(wire', Len(wire'), Text', Len(buf'))
          /\ Len(buf') + Len(wire') = HeadEnd' + given'
      <4>1. Holds(buf', Len(buf'), Text', 0)
        BY <2>1, <2>2, <2>7 DEF TextInv
      <4>2. Holds(wire', Len(wire'), Text', Len(buf'))
        BY <2>1, <2>2, <3>2
      <4>3. Len(buf') + Len(wire') = HeadEnd' + given'
        BY <2>1, <2>2, <3>1, <3>2, <3>3
      <4> QED
        BY <4>1, <4>2, <4>3
    <3>5. given' \in 0 .. Len(Body) /\ given' <= declared'
      BY <2>2, <2>3
    <3>6. pc' \in Heading /\ pc' # "none" /\ pc' \notin Tending \cup {"copy", "closed"}
      BY <2>2, <2>7 DEF Heading, Tending
    <3>7. Len(buf') + Len(wire') <= HeadEnd' + given'
      BY <2>1, <2>2, <3>1, <3>2, <3>3, <3>4
    <3> QED
      BY <2>1, <2>2, <2>3, <3>4, <3>5, <3>6, <3>7 DEF TextInv
  <2>8. CASE pc = "copy" /\ method = "put"
    <3>1. Taken \in Nat /\ Taken + Len(wire) = given /\ Len(wire) \in Nat
      BY <2>2, <2>8 DEF TextInv, Taken, Holds
    <3>2. Holds(wire', Len(wire'), Body, Taken) /\ Len(wire') = Len(wire) + 1
      BY <2>4, <2>6, <2>8, <3>1 DEF TextInv
    <3> QED
      BY <2>1, <2>2, <2>3, <2>8, <3>1, <3>2 DEF TextInv, Heading, Tending
  <2>9. CASE pc \notin Heading /\ ~(pc = "copy" /\ method = "put")
    BY <2>1, <2>2, <2>3, <2>9 DEF TextInv, Heading, Tending
  <2> QED
    BY <2>7, <2>8, <2>9
<1> QED
  BY <1>1, <1>2, <1>3, <1>4 DEF HostStep, ServerStep

\* Whatever part of the head a read returns, read_until is right about it.
LEMMA ReadHeadKeepsText == PlaceInv /\ TextInv /\ GuestStep(ReadHead) => TextInv'
<1> SUFFICES ASSUME PlaceInv, TextInv, GuestStep(ReadHead) PROVE TextInv'
  OBVIOUS
<1>1. Text' = Text /\ HeadEnd' = HeadEnd
  BY DEF Text, HeadText, HeadEnd, GuestStep, ReadHead, reqVars
<1>2. PICK n \in 1 .. Len(wire) :
        /\ Len(buf) + n <= MaxHeader
        /\ buf' = buf \o SubSeq(wire, 1, n)
        /\ wire' = SubSeq(wire, n + 1, Len(wire))
        /\ \E found \in ReadUntilFinds(buf', n) :
             pc' = IF found THEN "parse"
                   ELSE IF Len(buf') = MaxHeader THEN "closed" ELSE "head"
  BY DEF GuestStep, ReadHead
<1>3. /\ pc = "head" /\ reply' = reply /\ given' = given /\ peer' = peer
      /\ UNCHANGED <<fed, short, declared, method>>
  BY DEF GuestStep, ReadHead, putVars, hostVars, reqVars
<1>4. /\ Holds(buf, Len(buf), Text, 0) /\ Holds(wire, Len(wire), Text, Len(buf))
      /\ Len(buf) \in Nat /\ Len(wire) \in Nat /\ Len(buf) < HeadEnd
      /\ Len(buf) + Len(wire) <= HeadEnd + given /\ given \in 0 .. Len(Body)
      /\ peer = "there" => Len(buf) + Len(wire) = HeadEnd + given
      /\ HeadEnd \in {11, 14}
  <2>1. /\ Holds(buf, Len(buf), Text, 0) /\ Holds(wire, Len(wire), Text, Len(buf))
        /\ Len(buf) < HeadEnd /\ given \in 0 .. Len(Body)
        /\ Len(buf) + Len(wire) <= HeadEnd + given
        /\ peer = "there" => Len(buf) + Len(wire) = HeadEnd + given
    BY <1>3, Zenon DEF TextInv, Heading
  <2>2. Len(buf) \in Nat /\ Len(wire) \in Nat
    BY <2>1 DEF Holds
  <2> QED
    BY <2>1, <2>2, TextFacts
<1>5. /\ Holds(SubSeq(wire, 1, n), n, Text, 0 + Len(buf))
      /\ Holds(wire', Len(wire) - n, Text, Len(buf) + n)
  BY <1>2, <1>4, Cut
<1>6. Holds(buf', Len(buf) + n, Text, 0)
  BY <1>2, <1>4, <1>5, Join
<1>7. Len(buf') = Len(buf) + n /\ Len(wire') = Len(wire) - n
  BY <1>5, <1>6 DEF Holds
<1>8. PICK found \in ReadUntilFinds(buf', n) :
             pc' = IF found THEN "parse"
                   ELSE IF Len(buf') = MaxHeader THEN "closed" ELSE "head"
  BY <1>2
<1>9. found <=> HeadEnd <= Len(buf')
  <2>1. /\ Holds(buf', Len(buf'), Text, 0)
        /\ n \in 1 .. Len(buf') /\ Len(buf') - n < HeadEnd
    BY <1>4, <1>6, <1>7
  <2> QED
    BY <2>1, ReadUntilIsRight
<1>10. pc' = IF HeadEnd <= Len(buf') THEN "parse" ELSE "head"
  BY <1>4, <1>7, <1>8, <1>9, Limits
<1>11. /\ Holds(buf', Len(buf'), Text, 0) /\ Holds(wire', Len(wire'), Text, Len(buf'))
       /\ Len(buf') + Len(wire') = Len(buf) + Len(wire) /\ Len(buf') \in Nat
  BY <1>4, <1>5, <1>6, <1>7
<1>12. /\ given \in 0 .. Len(Body) /\ (given > 0 => declared # NoLength /\ given <= declared)
       /\ Holds(fed, Len(fed), Body, 0) /\ Len(fed) <= Len(Body)
  BY DEF TextInv
<1> QED
  BY <1>1, <1>3, <1>4, <1>10, <1>11, <1>12 DEF TextInv, Heading, Tending

\* The request is parsed, and its length is the declared one.
LEMMA ParseKeepsText ==
  PlaceInv /\ TextInv /\ (GuestStep(Parse) \/ GuestStep(SpawnTar)) => TextInv'
<1> SUFFICES ASSUME PlaceInv, TextInv, GuestStep(Parse) \/ GuestStep(SpawnTar)
             PROVE  TextInv'
  OBVIOUS
<1>1. Text' = Text /\ HeadEnd' = HeadEnd
  BY DEF Text, HeadText, HeadEnd, GuestStep, Parse, SpawnTar, reqVars
<1>2. /\ UNCHANGED <<fed, short, declared, method, buf, wire, peer, given>>
      /\ pc \in {"parse", "request"}
  BY DEF GuestStep, Parse, SpawnTar, putVars, hostVars, reqVars, headVars, Goto
<1>3. /\ Holds(buf, Len(buf), Text, 0) /\ Holds(wire, Len(wire), Text, Len(buf))
      /\ Len(buf) \in Nat /\ Len(wire) \in Nat /\ HeadEnd <= Len(buf)
      /\ Len(buf) + Len(wire) <= HeadEnd + given /\ given \in 0 .. Len(Body)
      /\ HeadEnd \in {11, 14}
  <2>1. /\ Holds(buf, Len(buf), Text, 0) /\ Holds(wire, Len(wire), Text, Len(buf))
        /\ HeadEnd <= Len(buf) /\ Len(buf) + Len(wire) <= HeadEnd + given
        /\ given \in 0 .. Len(Body)
    BY <1>2 DEF TextInv, Heading
  <2> QED
    BY <2>1, TextFacts DEF Holds
<1>4. CASE GuestStep(Parse)
  <2>1. HasRequestLine(buf) /\ (SeesLength(buf) <=> declared # NoLength)
    BY <1>3, ParseIsRight
  <2>2. pc = "parse" /\ pc' = "request" /\ length' = declared /\ reply' = reply
    BY <1>4, <2>1 DEF GuestStep, Parse
  <2> QED
    BY <1>1, <1>2, <2>2 DEF TextInv, Heading, Tending
<1>5. CASE GuestStep(SpawnTar)
  <2>1. /\ pc = "request" /\ pc' = IF method = "put" THEN "prefetch" ELSE "copy"
        /\ length = declared /\ length' = length /\ left' = declared
        /\ method = "put" => declared # NoLength
    BY <1>5 DEF GuestStep, SpawnTar, Goto, TextInv, headVars, Acceptable
  <2>2. declared # NoLength => declared \in 0 .. Len(Body)
    BY Limits DEF PlaceInv
  <2> QED
    BY <1>1, <1>2, <2>1, <2>2 DEF TextInv, Heading, Tending
<1> QED
  BY <1>4, <1>5

\* The part of the body that was read with the head is fed to tar first.
LEMMA PrefetchKeepsText == PlaceInv /\ TextInv /\ GuestStep(FeedPrefetched) => TextInv'
<1> SUFFICES ASSUME PlaceInv, TextInv, GuestStep(FeedPrefetched) PROVE TextInv'
  OBVIOUS
<1> DEFINE read == Prefetched(buf)
           used == SubSeq(read, 1, Min({left, Len(read)}))
<1>1. /\ pc = "prefetch" /\ pc' = "copy" /\ left' = left - Len(used)
      /\ fed' = IF child = "running" THEN used ELSE <<>>
      /\ short' = (used # <<>> /\ child # "running")
      /\ UNCHANGED <<child, declared, method, buf, length, wire, peer, given>>
  BY DEF GuestStep, FeedPrefetched, Goto, childVars, reqVars, headVars, hostVars
<1>2. /\ Holds(buf, Len(buf), Text, 0) /\ Holds(wire, Len(wire), Text, Len(buf))
      /\ Len(buf) \in Nat /\ Len(wire) \in Nat /\ HeadEnd <= Len(buf)
      /\ Len(buf) + Len(wire) <= HeadEnd + given /\ given \in 0 .. Len(Body)
      /\ peer = "there" => Len(buf) + Len(wire) = HeadEnd + given
      /\ HeadEnd \in {11, 14} /\ left = declared /\ length = declared
      /\ method = "put" /\ declared \in 0 .. Len(Body) /\ given <= declared
  <2>1. method = "put"
    BY <1>1 DEF PlaceInv
  <2>2. /\ Holds(buf, Len(buf), Text, 0) /\ Holds(wire, Len(wire), Text, Len(buf))
        /\ HeadEnd <= Len(buf) /\ given \in 0 .. Len(Body)
        /\ Len(buf) + Len(wire) <= HeadEnd + given
        /\ peer = "there" => Len(buf) + Len(wire) = HeadEnd + given
        /\ left = declared /\ length = declared /\ declared \in 0 .. Len(Body)
        /\ given > 0 => given <= declared
    BY <1>1, <2>1 DEF TextInv, Heading
  <2>3. Len(buf) \in Nat /\ Len(wire) \in Nat
    BY <2>2 DEF Holds
  <2> QED
    BY <2>1, <2>2, <2>3, HeadSize
<1>3. Holds(read, Len(buf) - HeadEnd, Body, 0)
  BY <1>2, ParseIsRight
<1> HIDE DEF read
<1>4. Len(read) = Len(buf) - HeadEnd /\ Len(read) \in Nat /\ Len(read) <= left
  BY <1>2, <1>3 DEF Holds
<1>5. Min({left, Len(read)}) = Len(read)
  BY <1>2, <1>4 DEF Min
<1>6. Holds(used, Len(read), Body, 0)
  <2>1. used = SubSeq(read, 1, Len(read))
    BY <1>5
  <2>2. Holds(SubSeq(read, 1, Len(read)), Len(read), Body, 0)
    <3>1. Holds(read, Len(read), Body, 0) /\ Len(read) \in 0 .. Len(read)
      BY <1>3, <1>4
    <3> QED
      BY <1>4, <3>1, Cut
  <2> QED
    BY <2>1, <2>2
<1> HIDE DEF used
<1>7. Len(used) = Len(buf) - HeadEnd /\ used \in Seq(Symbol)
  BY <1>4, <1>6 DEF Holds
<1>8. Taken' = Len(buf) - HeadEnd /\ left' \in 0 .. declared
  BY <1>1, <1>2, <1>7 DEF Taken
<1>9. Holds(wire, Len(wire), Body, Len(buf) - HeadEnd)
  <2>1. wire \in Seq(Symbol) /\ \A i \in 1 .. Len(wire) : wire[i] = Text[Len(buf) + i]
    BY <1>2 DEF Holds
  <2>2. \A i \in 1 .. Len(wire) :
          /\ Len(buf) - HeadEnd + i \in 1 .. Len(Body)
          /\ HeadEnd + (Len(buf) - HeadEnd + i) = Len(buf) + i
    BY <1>2
  <2>3. \A i \in 1 .. Len(wire) : wire[i] = Body[Len(buf) - HeadEnd + i]
    <3> SUFFICES ASSUME NEW i \in 1 .. Len(wire)
                 PROVE  wire[i] = Body[Len(buf) - HeadEnd + i]
      OBVIOUS
    <3> DEFINE j == Len(buf) - HeadEnd + i
    <3>1. j \in 1 .. Len(Body) /\ HeadEnd + j = Len(buf) + i
      BY <2>2
    <3> HIDE DEF j
    <3>2. Text[HeadEnd + j] = Body[j]
      BY <3>1, BodyFollows
    <3>3. wire[i] = Body[j]
      BY <2>1, <3>1, <3>2
    <3> QED
      BY <3>3 DEF j
  <2> QED
    BY <2>1, <2>3 DEF Holds
<1>10. Holds(fed', Len(fed'), Body, 0) /\ Len(fed') <= Len(Body)
  <2>1. CASE child = "running"
    <3>1. fed' = used /\ Len(used) = Len(read) /\ Holds(used, Len(used), Body, 0)
      BY <1>1, <1>4, <1>6, <1>7, <2>1
    <3>2. Len(read) <= Len(Body)
      BY <1>2, <1>4, BodyFollows
    <3> QED
      BY <3>1, <3>2
  <2>2. CASE child # "running"
    BY <1>1, <2>2, BodyFollows DEF Holds
  <2> QED
    BY <2>1, <2>2
<1>11. child' = "running" \/ ~short' => Len(fed') = Taken'
  <2>1. used = <<>> => Len(used) = 0
    OBVIOUS
  <2> QED
    BY <1>1, <1>7, <1>8, <2>1
<1> QED
  BY <1>1, <1>2, <1>8, <1>9, <1>10, <1>11 DEF TextInv, Heading, Tending

\* Each read of the body is fed to tar behind what was fed before.
LEMMA FeedKeepsText == PlaceInv /\ TextInv /\ GuestStep(FeedTar) => TextInv'
<1> SUFFICES ASSUME PlaceInv, TextInv, GuestStep(FeedTar) PROVE TextInv'
  OBVIOUS
<1>1. PICK n \in 1 .. Len(wire) :
        /\ n <= left
        /\ wire' = SubSeq(wire, n + 1, Len(wire))
        /\ IF child = "running"
           THEN /\ fed' = fed \o SubSeq(wire, 1, n) /\ left' = left - n
                /\ UNCHANGED <<pc, short, open>>
           ELSE /\ short' = TRUE /\ open' = FALSE /\ pc' = "collect"
                /\ UNCHANGED <<fed, left>>
  BY DEF GuestStep, FeedTar
<1>2. /\ pc = "copy" /\ method = "put"
      /\ UNCHANGED <<child, declared, method, buf, length, peer, given, reply>>
  BY DEF GuestStep, FeedTar, childVars, reqVars, headVars, hostVars
<1>3. CASE child # "running"
  <2>1. pc' = "collect" /\ fed' = fed
    BY <1>1, <1>3
  <2> QED
    BY <1>2, <2>1 DEF TextInv, Heading, Tending
<1>4. CASE child = "running"
  <2>1. /\ declared \in 0 .. Len(Body) /\ left \in 0 .. declared /\ given \in 0 .. Len(Body)
        /\ Holds(wire, Len(wire), Body, Taken) /\ Len(wire) \in Nat
        /\ Taken + Len(wire) <= given /\ (given > 0 => given <= declared)
        /\ peer = "there" => Taken + Len(wire) = given
        /\ Len(fed) = Taken /\ Taken \in Nat /\ Taken = declared - left
        /\ Holds(fed, Len(fed), Body, 0)
    <3>1. /\ declared \in 0 .. Len(Body) /\ left \in 0 .. declared /\ given \in 0 .. Len(Body)
          /\ Holds(wire, Len(wire), Body, Taken)
          /\ Taken + Len(wire) <= given /\ (given > 0 => given <= declared)
          /\ peer = "there" => Taken + Len(wire) = given
          /\ Len(fed) = Taken /\ Holds(fed, Len(fed), Body, 0)
      BY <1>2, <1>4 DEF TextInv
    <3>2. Len(wire) \in Nat
      BY <3>1 DEF Holds
    <3>3. Taken = declared - left /\ Taken \in Nat
      BY <3>1 DEF Taken
    <3> QED
      BY <3>1, <3>2, <3>3
  <2>2. /\ Holds(SubSeq(wire, 1, n), n, Body, 0 + Taken)
        /\ Holds(wire', Len(wire) - n, Body, Taken + n)
    <3>1. /\ Len(wire) \in Nat /\ n \in 0 .. Len(wire) /\ Taken \in Nat /\ 0 + Taken = Taken
          /\ Holds(wire, Len(wire), Body, Taken)
      BY <2>1
    <3>2. /\ Holds(SubSeq(wire, 1, n), n, Body, Taken)
          /\ Holds(SubSeq(wire, n + 1, Len(wire)), Len(wire) - n, Body, Taken + n)
      BY <3>1, Cut
    <3> QED
      BY <1>1, <3>1, <3>2
  <2>3. Holds(fed', Taken + n, Body, 0)
    <3>1. Holds(fed, Taken, Body, 0) /\ fed' = fed \o SubSeq(wire, 1, n)
      BY <1>1, <1>4, <2>1
    <3> QED
      BY <2>1, <2>2, <3>1, Join
  <2>4. Len(wire') = Len(wire) - n /\ Len(fed') = Taken + n
    BY <2>2, <2>3 DEF Holds
  <2>5. Taken' = Taken + n /\ left' \in 0 .. declared /\ Taken + n <= Len(Body)
    BY <1>1, <1>2, <1>4, <2>1 DEF Taken
  <2>6. UNCHANGED <<pc, short>>
    BY <1>1, <1>4
  <2>7. given > 0 => declared # NoLength
    BY DEF TextInv
  <2>8. /\ given' \in 0 .. Len(Body) /\ declared' \in 0 .. Len(Body)
        /\ given' > 0 => declared' # NoLength /\ given' <= declared'
        /\ left' \in 0 .. declared' /\ length' = declared'
    BY <1>2, <2>1, <2>5, <2>7 DEF TextInv
  <2>9. /\ Holds(wire', Len(wire'), Body, Taken') /\ Holds(fed', Len(fed'), Body, 0)
        /\ Len(fed') = Taken' /\ Len(fed') <= Len(Body)
    BY <2>2, <2>3, <2>4, <2>5
  <2>10. /\ Taken' + Len(wire') <= given'
         /\ peer' = "there" => Taken' + Len(wire') = given'
    <3>1. Taken' + Len(wire') = Taken + Len(wire)
      <4>1. Len(wire) \in Nat /\ Taken \in Nat /\ n \in Nat
        BY <2>1
      <4> QED
        BY <2>4, <2>5, <4>1
    <3> QED
      BY <1>2, <2>1, <3>1
  <2>11. pc' = "copy" /\ "copy" \notin Heading \cup Tending
    BY <1>2, <2>6 DEF Heading, Tending
  <2> QED
    BY <2>8, <2>9, <2>10, <2>11 DEF TextInv
<1> QED
  BY <1>3, <1>4

\* All steps together.
LEMMA TextPreserved == PlaceInv /\ TextInv /\ [FNext]_vars => TextInv'
<1> SUFFICES ASSUME PlaceInv, TextInv, [FNext]_vars PROVE TextInv'
  OBVIOUS
<1> USE DEF childVars, reqVars, headVars, putVars, getVars, guestVars, hostVars, Goto
<1>1. CASE HostStep
  BY <1>1, HostKeepsText
<1>2. CASE UserLeaves \/ VmDies \/ UNCHANGED vars
  BY <1>2, TextUntouched DEF UserLeaves, VmDies, vars, PlaceInv
<1>3. CASE GuestStep(AcceptConnection)
  <2>1. /\ pc = "accept" /\ pc' \in {"head", "closed"} /\ buf = <<>>
        /\ UNCHANGED <<method, declared, buf, wire, peer, length, left, fed, short, given>>
    BY <1>3 DEF GuestStep, AcceptConnection, PlaceInv
  <2>2. Text' = Text /\ HeadEnd' = HeadEnd /\ HeadEnd \in {11, 14} /\ Len(buf) = 0
    BY <2>1, TextFacts DEF Text, HeadText, HeadEnd
  <2> QED
    BY <2>1, <2>2 DEF TextInv, Heading, Tending
<1>4. CASE GuestStep(HeadEnds) \/ GuestStep(Reject) \/ GuestStep(AnswerAtOnce)
  BY <1>4, TextUntouched DEF GuestStep, HeadEnds, Reject, AnswerAtOnce, Heading, Tending
<1>5. CASE GuestStep(ReadHead)
  BY <1>5, ReadHeadKeepsText
<1>6. CASE GuestStep(Parse) \/ GuestStep(SpawnTar)
  BY <1>6, ParseKeepsText
<1>7. CASE GuestStep(FeedPrefetched)
  BY <1>7, PrefetchKeepsText
<1>8. CASE GuestStep(FeedTar)
  BY <1>8, FeedKeepsText
<1>9. CASE GuestStep(EndFeed) \/ GuestStep(EndArchive) \/ GuestStep(SendArchive)
  BY <1>9, TextUntouched DEF GuestStep, EndFeed, EndArchive, SendArchive, Tending
<1>10. CASE GuestStep(Answer) \/ GuestStep(EndBody)
  BY <1>10, TextUntouched DEF GuestStep, Answer, EndBody, Tending, PlaceInv
<1>11. CASE GuestStep(Collect)
  BY <1>11, TextUntouched DEF GuestStep, Collect, WaitSleeps, WaitCollects,
     WaitFindsNoChild, Tending
<1>12. CASE GuestStep(TarStep) \/ GuestStep(Sigchld)
  BY <1>12, TextUntouched DEF GuestStep, TarStep, TarWrites, TarEnds, Dies, Sigchld,
     SigchldReaps
<1> QED
  BY <1>1, <1>2, <1>3, <1>4, <1>5, <1>6, <1>7, <1>8, <1>9, <1>10, <1>11, <1>12
     DEF FNext, GuestStep, GuestNext, HandlerStep, OwnStep, WritesArchive

-----------------------------------------------------------------------------
(* Paths.  QueryEscape and Decode are recursive functions: that there is   *)
(* such a function is shown by extending one that obeys the recursion on a *)
(* part of the text, and what it makes of the text by induction.           *)

\* What one character becomes: itself, "+" or three characters.
Escapes(c, e) ==
  \/ e = <<c>> /\ c \notin {"+", "%", "&", Space}
  \/ e = <<"+">> /\ c = Space
  \/ \E a, b \in HexDigit : e = <<"%", a, b>> /\ Unhex[<<a, b>>] = c

\* The characters that the guest treats as special.
LEMMA SpecialChars == {"+", "%", "&", Nul, Space} \cup HexDigit \subseteq Char
BY UrlPathAssumption

\* net/url writes one of the three.
LEMMA EscapeCharIs == ASSUME NEW c PROVE Escapes(c, EscapeChar(c))
<1>1. CASE c = Space
  BY <1>1 DEF EscapeChar, Escapes
<1>2. CASE c # Space /\ c \notin DOMAIN Code
  <2>1. c \notin {"+", "%", "&", Space}
    BY <1>2, UrlPathAssumption
  <2> QED
    BY <1>2, <2>1 DEF EscapeChar, Escapes
<1>3. CASE c # Space /\ c \in DOMAIN Code
  <2>1. Code[c] \in Octet /\ Unhex[Code[c]] = c
    BY <1>3, UrlPathAssumption
  <2>2. PICK a \in HexDigit, b \in HexDigit : Code[c] = <<a, b>>
    BY <2>1 DEF Octet
  <2> DEFINE e == <<"%">> \o <<a, b>>
  <2>3. e \in Seq(Char) /\ Len(e) = 3 /\ e[1] = "%" /\ e[2] = a /\ e[3] = b
    <3>1. "%" \in Char /\ a \in Char /\ b \in Char
      BY SpecialChars
    <3> QED
      BY <3>1
  <2>4. EscapeChar(c) = e
    BY <1>3, <2>2 DEF EscapeChar
  <2> HIDE DEF e
  <2>5. e = <<e[1], e[2], e[3]>>
    BY <2>3
  <2>6. EscapeChar(c) = <<"%", a, b>>
    BY <2>3, <2>4, <2>5
  <2> QED
    BY <2>1, <2>2, <2>6 DEF Escapes
<1> QED
  BY <1>1, <1>2, <1>3

\* The texts of e, one behind the other: what each step of FlattenSeq does, the
\* function it defines, and one that obeys the recursion up to k.
Appends(e, g, i) == g[i] = IF i = 1 THEN e[i] ELSE g[i - 1] \o e[i]
IsFlat(e, g) == g = [i \in 1 .. Len(e) |-> IF i = 1 THEN e[i] ELSE g[i - 1] \o e[i]]
Flat(e) == CHOOSE g : IsFlat(e, g)
FlatUpTo(e, C, k) == \E g \in [1 .. Len(e) -> Seq(C)] : \A i \in 1 .. k : Appends(e, g, i)

\* The recursive function that FlattenSeq defines exists.
LEMMA FlatExists ==
  ASSUME NEW C, NEW e \in Seq(Seq(C)) PROVE IsFlat(e, Flat(e))
<1> DEFINE n == Len(e)
           T == {k \in Nat : k <= n => FlatUpTo(e, C, k)}
<1>1. n \in Nat /\ \A i \in 1 .. n : e[i] \in Seq(C)
  OBVIOUS
<1>2. 0 \in T
  <2>1. [i \in 1 .. n |-> e[i]] \in [1 .. n -> Seq(C)]
    BY <1>1
  <2> QED
    BY <2>1 DEF FlatUpTo
<1>3. ASSUME NEW k \in Nat, k + 1 <= n, FlatUpTo(e, C, k) PROVE FlatUpTo(e, C, k + 1)
  <2>1. PICK g \in [1 .. n -> Seq(C)] : \A i \in 1 .. k : Appends(e, g, i)
    BY <1>3 DEF FlatUpTo
  <2>2. k + 1 \in 1 .. n
    BY <1>1, <1>3
  <2> DEFINE x == IF k + 1 = 1 THEN e[k + 1] ELSE g[(k + 1) - 1] \o e[k + 1]
             h == [g EXCEPT ![k + 1] = x]
  <2>3. x \in Seq(C)
    <3>1. CASE k = 0
      BY <1>1, <2>2, <3>1
    <3>2. CASE k # 0
      <4>1. k \in 1 .. n /\ (k + 1) - 1 = k /\ k + 1 # 1
        BY <2>2, <3>2
      <4>2. g[k] \in Seq(C) /\ e[k + 1] \in Seq(C)
        BY <1>1, <2>2, <4>1
      <4> QED
        BY <4>1, <4>2
    <3> QED
      BY <3>1, <3>2
  <2> HIDE DEF x
  <2>4. h \in [1 .. n -> Seq(C)] /\ h[k + 1] = x
    BY <2>2, <2>3
  <2>5. \A i \in 1 .. k : h[i] = g[i]
    BY <2>2
  <2> HIDE DEF h
  <2>6. ASSUME NEW i \in 1 .. k PROVE Appends(e, h, i)
    <3>1. h[i] = g[i] /\ (i # 1 => h[i - 1] = g[i - 1])
      BY <2>5
    <3> QED
      BY <2>1, <3>1 DEF Appends
  <2>7. Appends(e, h, k + 1)
    <3>1. k # 0 => h[(k + 1) - 1] = g[(k + 1) - 1]
      BY <2>5
    <3> QED
      BY <2>4, <3>1 DEF Appends, x
  <2>8. \A i \in 1 .. k + 1 : i \in 1 .. k \/ i = k + 1
    OBVIOUS
  <2> QED
    BY <2>4, <2>6, <2>7, <2>8 DEF FlatUpTo
<1>4. ASSUME NEW k \in T PROVE k + 1 \in T
  <2>1. k + 1 <= n => k <= n
    BY <1>1
  <2> QED
    BY <1>3, <2>1
<1>5. n \in T
  <2>1. T \in SUBSET Nat
    OBVIOUS
  <2> HIDE DEF T, n
  <2> QED
    BY <1>1, <1>2, <1>4, <2>1, Induct
<1>6. PICK g \in [1 .. n -> Seq(C)] : \A i \in 1 .. n : Appends(e, g, i)
  BY <1>1, <1>5 DEF FlatUpTo
<1>7. IsFlat(e, g)
  BY <1>6 DEF IsFlat, Appends
<1> QED
  BY <1>7 DEF Flat

\* What FlattenSeq makes of texts, one after the other.
LEMMA FlatIs ==
  ASSUME NEW C, NEW e \in Seq(Seq(C)), Len(e) > 0
  PROVE  /\ \A i \in 1 .. Len(e) : Flat(e)[i] \in Seq(C)
         /\ Flat(e)[1] = e[1]
         /\ \A i \in 1 .. Len(e) - 1 : Flat(e)[i + 1] = Flat(e)[i] \o e[i + 1]
         /\ FlattenSeq(e) = Flat(e)[Len(e)]
<1> DEFINE n == Len(e)
           f == Flat(e)
<1>1. n \in Nat /\ n > 0 /\ \A i \in 1 .. n : e[i] \in Seq(C)
  OBVIOUS
<1>2. FlattenSeq(e) = f[n]
  BY <1>1 DEF FlattenSeq, Flat, IsFlat
<1>3. f = [i \in 1 .. n |-> IF i = 1 THEN e[i] ELSE f[i - 1] \o e[i]]
  BY FlatExists DEF IsFlat
<1> HIDE DEF f, n
<1>4. f[1] = e[1]
  BY <1>1, <1>3
<1>5. ASSUME NEW i \in 1 .. n - 1 PROVE f[i + 1] = f[i] \o e[i + 1]
  <2>1. i + 1 \in 1 .. n /\ i + 1 # 1 /\ (i + 1) - 1 = i
    BY <1>1
  <2>2. f[i + 1] = f[(i + 1) - 1] \o e[i + 1]
    BY <1>3, <2>1
  <2> QED
    BY <2>1, <2>2
<1>6. \A i \in 1 .. n : f[i] \in Seq(C)
  <2> DEFINE U == {k \in Nat : k + 1 <= n => f[k + 1] \in Seq(C)}
  <2>1. 0 \in U
    BY <1>1, <1>4
  <2>2. ASSUME NEW k \in U PROVE k + 1 \in U
    <3> SUFFICES ASSUME (k + 1) + 1 <= n PROVE f[(k + 1) + 1] \in Seq(C)
      OBVIOUS
    <3>1. f[k + 1] \in Seq(C) /\ k + 1 \in 1 .. n - 1 /\ (k + 1) + 1 \in 1 .. n
      BY <1>1
    <3>2. f[(k + 1) + 1] = f[k + 1] \o e[(k + 1) + 1]
      BY <1>5, <3>1
    <3>3. e[(k + 1) + 1] \in Seq(C)
      BY <1>1, <3>1
    <3> QED
      BY <3>1, <3>2, <3>3
  <2>3. Nat \subseteq U
    <3>1. U \in SUBSET Nat
      OBVIOUS
    <3> HIDE DEF U
    <3> QED
      BY <2>1, <2>2, <3>1, Induct
  <2> SUFFICES ASSUME NEW i \in 1 .. n PROVE f[i] \in Seq(C)
    OBVIOUS
  <2>4. i - 1 \in Nat /\ (i - 1) + 1 = i /\ i <= n
    BY <1>1
  <2>5. i - 1 \in U
    BY <2>3, <2>4
  <2> QED
    BY <2>4, <2>5
<1> QED
  BY <1>2, <1>4, <1>5, <1>6 DEF f, n

\* Each character of s, escaped.
Each(s) == [i \in DOMAIN s |-> EscapeChar(s[i])]

\* The first k characters of s, escaped.
Written(s, k) == IF k = 0 THEN <<>> ELSE Flat(Each(s))[k]

\* An escaped character is a text.
LEMMA EscapesText ==
  ASSUME NEW c \in Char, NEW e, Escapes(c, e) PROVE e \in Seq(Char) /\ Len(e) > 0
<1>1. "+" \in Char /\ "%" \in Char /\ HexDigit \subseteq Char
  BY SpecialChars
<1>2. CASE e = <<c>> \/ e = <<"+">>
  <2>1. \A d \in Char : <<d>> \in Seq(Char) /\ Len(<<d>>) = 1
    OBVIOUS
  <2>2. PICK d \in Char : e = <<d>>
    BY <1>1, <1>2
  <2> QED
    BY <2>1, <2>2
<1>3. CASE \E a, b \in HexDigit : e = <<"%", a, b>>
  BY <1>1, <1>3
<1> QED
  BY <1>2, <1>3 DEF Escapes

\* What is written grows by one escaped character after the other.
LEMMA WrittenIs ==
  ASSUME NEW s \in Seq(Char)
  PROVE  /\ \A k \in 0 .. Len(s) : Written(s, k) \in Seq(Char)
         /\ Written(s, 0) = <<>>
         /\ \A k \in 0 .. Len(s) - 1 : Written(s, k + 1) = Written(s, k) \o EscapeChar(s[k + 1])
         /\ Written(s, Len(s)) = QueryEscape(s)
<1> DEFINE n == Len(s)
           e == Each(s)
<1>1. n \in Nat /\ DOMAIN s = 1 .. n /\ \A i \in 1 .. n : s[i] \in Char
  OBVIOUS
<1>2. QueryEscape(s) = FlattenSeq(e)
  BY DEF QueryEscape, Each
<1> HIDE DEF n
<1>3. \A i \in 1 .. n : EscapeChar(s[i]) \in Seq(Char)
  BY <1>1, EscapeCharIs, EscapesText
<1>4. /\ e \in Seq(Seq(Char)) /\ Len(e) = n
      /\ \A i \in 1 .. n : e[i] = EscapeChar(s[i])
  BY <1>1, <1>3 DEF Each
<1> HIDE DEF e
<1>5. CASE n = 0
  <2>1. e = <<>>
    BY <1>4, <1>5
  <2>2. FlattenSeq(e) = <<>>
    BY <1>4, <1>5, <2>1 DEF FlattenSeq
  <2> QED
    BY <1>2, <1>5, <2>2 DEF Written, n
<1>6. CASE n # 0
  <2>1. /\ \A i \in 1 .. n : Flat(e)[i] \in Seq(Char)
        /\ Flat(e)[1] = e[1]
        /\ \A i \in 1 .. n - 1 : Flat(e)[i + 1] = Flat(e)[i] \o e[i + 1]
        /\ FlattenSeq(e) = Flat(e)[n]
    <3>1. Len(e) > 0
      BY <1>1, <1>4, <1>6
    <3> QED
      BY <1>4, <3>1, FlatIs
  <2>2. \A k \in 1 .. n : Written(s, k) = Flat(e)[k]
    BY DEF Written, e
  <2>3. Written(s, 0) = <<>>
    BY DEF Written
  <2>4. \A k \in 0 .. n : Written(s, k) \in Seq(Char)
    <3>1. \A k \in 0 .. n : k = 0 \/ k \in 1 .. n
      OBVIOUS
    <3>2. <<>> \in Seq(Char)
      OBVIOUS
    <3> QED
      BY <2>1, <2>2, <2>3, <3>1, <3>2
  <2>5. ASSUME NEW k \in 0 .. n - 1
        PROVE  Written(s, k + 1) = Written(s, k) \o EscapeChar(s[k + 1])
    <3>1. k + 1 \in 1 .. n /\ e[k + 1] = EscapeChar(s[k + 1])
      BY <1>1, <1>4
    <3>2. CASE k = 0
      <4>1. Written(s, 1) = e[1] /\ Written(s, 0) = <<>>
        BY <1>1, <1>6, <2>1, <2>2, <2>3
      <4>2. e[1] \in Seq(Char)
        BY <1>3, <3>1, <3>2
      <4> QED
        BY <3>1, <3>2, <4>1, <4>2
    <3>3. CASE k # 0
      <4>1. k \in 1 .. n - 1 /\ k \in 1 .. n
        BY <1>1, <3>3
      <4> QED
        BY <2>1, <2>2, <3>1, <4>1
    <3> QED
      BY <3>2, <3>3
  <2>6. Written(s, n) = QueryEscape(s)
    BY <1>1, <1>2, <1>6, <2>1, <2>2
  <2> QED
    BY <2>3, <2>4, <2>5, <2>6 DEF n
<1> QED
  BY <1>5, <1>6

\* A part of what is written is its beginning.
LEMMA WrittenBegins ==
  ASSUME NEW s \in Seq(Char), NEW k \in 0 .. Len(s)
  PROVE  /\ Len(Written(s, k)) <= Len(QueryEscape(s))
         /\ \A j \in 1 .. Len(Written(s, k)) : QueryEscape(s)[j] = Written(s, k)[j]
<1> DEFINE n == Len(s)
           q == QueryEscape(s)
           Begins(w) == Len(w) <= Len(q) /\ \A j \in 1 .. Len(w) : q[j] = w[j]
           T == {m \in 0 .. n : Begins(Written(s, m))}
<1>1. n \in Nat
  OBVIOUS
<1>2. n \in T
  <2>1. Written(s, n) = QueryEscape(s) /\ Written(s, n) \in Seq(Char)
    BY <1>1, WrittenIs
  <2>2. Len(q) \in Nat
    BY <2>1
  <2>3. Begins(Written(s, n))
    <3> HIDE DEF q
    <3> QED
      BY <2>1, <2>2 DEF q
  <2> QED
    BY <1>1, <2>3
<1>3. ASSUME NEW m \in 0 .. n - 1, m + 1 \in T PROVE m \in T
  <2> DEFINE w == Written(s, m)
             x == EscapeChar(s[m + 1])
  <2>1. Written(s, m + 1) = w \o x /\ w \in Seq(Char)
    <3>1. m \in 0 .. n
      BY <1>1
    <3> QED
      BY <3>1, WrittenIs
  <2>2. x \in Seq(Char)
    <3>1. s[m + 1] \in Char
      BY <1>1
    <3> QED
      BY <3>1, EscapeCharIs, EscapesText
  <2>3. Begins(w \o x)
    BY <1>3, <2>1
  <2>5. Len(q) \in Nat
    BY <1>1, WrittenIs
  <2> HIDE DEF w, x, q
  <2>4. /\ Len(w) <= Len(w \o x) /\ Len(w) \in Nat /\ Len(w \o x) \in Nat
        /\ \A j \in 1 .. Len(w) : (w \o x)[j] = w[j]
    BY <2>1, <2>2
  <2>6. Begins(w)
    <3>1. Len(w) <= Len(q)
      BY <2>3, <2>4, <2>5
    <3>2. ASSUME NEW j \in 1 .. Len(w) PROVE q[j] = w[j]
      <4>1. j \in 1 .. Len(w \o x)
        BY <2>4
      <4> QED
        BY <2>3, <2>4, <4>1
    <3> QED
      BY <3>1, <3>2
  <2> QED
    BY <2>6 DEF w
<1>4. 0 .. n \subseteq T
  <2> HIDE DEF T, n
  <2> QED
    BY <1>1, <1>2, <1>3, InductDown
<1> QED
  BY <1>4

\* What one step of Decode makes of the text from its i-th character on.
Reads(s, plus, g, i) ==
  g[i] = IF i > Len(s) THEN <<>>
         ELSE IF IsEscape(s, i) THEN <<Unhex[SubSeq(s, i + 1, i + 2)]>> \o g[i + 3]
         ELSE <<IF s[i] = "+" THEN plus ELSE s[i]>> \o g[i + 1]

\* The function that Decode defines, and one that obeys the recursion above k.
IsDecoded(s, plus, g) ==
  g = [i \in 1 .. Len(s) + 1 |->
         IF i > Len(s) THEN <<>>
         ELSE IF IsEscape(s, i) THEN <<Unhex[SubSeq(s, i + 1, i + 2)]>> \o g[i + 3]
         ELSE <<IF s[i] = "+" THEN plus ELSE s[i]>> \o g[i + 1]]
Decoded(s, plus) == CHOOSE g : IsDecoded(s, plus, g)
DecodedAbove(s, plus, k) ==
  \E g \in [1 .. Len(s) + 1 -> Seq(Char)] : \A i \in k + 1 .. Len(s) + 1 : Reads(s, plus, g, i)

\* Two digits of an escape, and the character they stand for.
LEMMA Pair ==
  ASSUME NEW s \in Seq(Char), NEW i \in 1 .. Len(s), i + 2 <= Len(s)
  PROVE  SubSeq(s, i + 1, i + 2) = <<s[i + 1], s[i + 2]>>
<1> DEFINE t == SubSeq(s, i + 1, i + 2)
<1>1. t \in Seq(Char)
  <2>1. \A j \in i + 1 .. i + 2 : s[j] \in Char
    OBVIOUS
  <2> QED
    BY <2>1
<1>2. Len(t) = 2
  OBVIOUS
<1>3. t[1] = s[i + 1] /\ t[2] = s[i + 2]
  OBVIOUS
<1> HIDE DEF t
<1>4. t = <<t[1], t[2]>>
  BY <1>1, <1>2
<1> QED
  BY <1>3, <1>4 DEF t

\* An escape stands for a character.
LEMMA UnhexChar ==
  ASSUME NEW s \in Seq(Char), NEW i \in 1 .. Len(s), IsEscape(s, i)
  PROVE  Unhex[SubSeq(s, i + 1, i + 2)] \in Char
<1>1. i + 2 <= Len(s) /\ s[i + 1] \in HexDigit /\ s[i + 2] \in HexDigit
  BY DEF IsEscape
<1>2. SubSeq(s, i + 1, i + 2) \in Octet
  BY <1>1, Pair DEF Octet
<1> QED
  BY <1>2, UrlPathAssumption

\* The recursive function that Decode defines exists: from one for the text
\* behind a character, one for the text from that character on is made.
LEMMA DecodedExists ==
  ASSUME NEW s \in Seq(Char), NEW plus \in Char PROVE IsDecoded(s, plus, Decoded(s, plus))
<1> DEFINE n == Len(s)
           T == {k \in 0 .. n : DecodedAbove(s, plus, k)}
<1>1. n \in Nat /\ \A i \in 1 .. n : s[i] \in Char
  OBVIOUS
<1>2. n \in T
  <2> DEFINE g == [i \in 1 .. n + 1 |-> <<>>]
  <2>1. g \in [1 .. n + 1 -> Seq(Char)]
    OBVIOUS
  <2>2. Reads(s, plus, g, n + 1)
    BY <1>1 DEF Reads
  <2> HIDE DEF g
  <2>3. \A i \in n + 1 .. n + 1 : i = n + 1
    BY <1>1
  <2>4. DecodedAbove(s, plus, n)
    BY <2>1, <2>2, <2>3 DEF DecodedAbove
  <2> QED
    BY <1>1, <2>4
<1>3. ASSUME NEW k \in 0 .. n - 1, DecodedAbove(s, plus, k + 1)
      PROVE  DecodedAbove(s, plus, k)
  <2> DEFINE m == k + 1
  <2>1. PICK g \in [1 .. n + 1 -> Seq(Char)] : \A i \in m + 1 .. n + 1 : Reads(s, plus, g, i)
    BY <1>3 DEF DecodedAbove
  <2>2. m \in 1 .. n
    BY <1>1
  <2> DEFINE x == IF IsEscape(s, m) THEN <<Unhex[SubSeq(s, m + 1, m + 2)]>> \o g[m + 3]
                  ELSE <<IF s[m] = "+" THEN plus ELSE s[m]>> \o g[m + 1]
             h == [g EXCEPT ![m] = x]
  <2> HIDE DEF m
  <2>3. x \in Seq(Char)
    <3>1. CASE IsEscape(s, m)
      <4>1. m + 3 \in 1 .. n + 1
        BY <1>1, <2>2, <3>1 DEF IsEscape
      <4>2. g[m + 3] \in Seq(Char) /\ Unhex[SubSeq(s, m + 1, m + 2)] \in Char
        BY <2>2, <3>1, <4>1, UnhexChar
      <4>3. <<Unhex[SubSeq(s, m + 1, m + 2)]>> \in Seq(Char)
        BY <4>2
      <4> QED
        BY <3>1, <4>2, <4>3
    <3>2. CASE ~IsEscape(s, m)
      <4> DEFINE c == IF s[m] = "+" THEN plus ELSE s[m]
      <4>1. m + 1 \in 1 .. n + 1 /\ c \in Char
        BY <1>1, <2>2
      <4> HIDE DEF c
      <4>2. g[m + 1] \in Seq(Char) /\ <<c>> \in Seq(Char)
        BY <4>1
      <4>3. x = <<c>> \o g[m + 1]
        BY <3>2 DEF c
      <4>4. <<c>> \o g[m + 1] \in Seq(Char)
        BY <4>2
      <4> HIDE DEF x
      <4> QED
        BY <4>3, <4>4
    <3> QED
      BY <3>1, <3>2
  <2>4. h \in [1 .. n + 1 -> Seq(Char)] /\ h[m] = x /\ \A i \in m + 1 .. n + 1 : h[i] = g[i]
    <3> HIDE DEF x
    <3> QED
      BY <1>1, <2>2, <2>3
  <2>5. IsEscape(s, m) => h[m + 3] = g[m + 3]
    BY <1>1, <2>2, <2>4 DEF IsEscape
  <2>6. h[m + 1] = g[m + 1]
    BY <1>1, <2>2, <2>4
  <2> HIDE DEF h
  <2>7. Reads(s, plus, h, m)
    BY <1>1, <2>2, <2>4, <2>5, <2>6 DEF Reads
  <2>8. ASSUME NEW i \in m + 1 .. n + 1 PROVE Reads(s, plus, h, i)
    <3>1. Reads(s, plus, g, i) /\ h[i] = g[i]
      BY <2>1, <2>4
    <3>2. i <= n => i + 1 \in m + 1 .. n + 1
      BY <1>1, <2>2
    <3>3. i <= n /\ IsEscape(s, i) => i + 3 \in m + 1 .. n + 1
      BY <1>1, <2>2 DEF IsEscape
    <3>4. i <= n => h[i + 1] = g[i + 1]
      BY <2>4, <3>2
    <3>5. i <= n /\ IsEscape(s, i) => h[i + 3] = g[i + 3]
      BY <2>4, <3>3
    <3>6. i > n \/ i <= n
      BY <1>1, <2>2
    <3> QED
      BY <3>1, <3>4, <3>5, <3>6 DEF Reads
  <2>9. \A i \in k + 1 .. n + 1 : i = m \/ i \in m + 1 .. n + 1
    BY <1>1 DEF m
  <2> QED
    BY <2>4, <2>7, <2>8, <2>9 DEF DecodedAbove
<1>4. 0 \in T
  <2>1. ASSUME NEW k \in 0 .. n - 1, k + 1 \in T PROVE k \in T
    BY <1>1, <1>3, <2>1
  <2>2. 0 .. n \subseteq T
    <3> HIDE DEF T, n
    <3> QED
      BY <1>1, <1>2, <2>1, InductDown
  <2> QED
    BY <1>1, <2>2
<1>5. PICK g \in [1 .. n + 1 -> Seq(Char)] : \A i \in 1 .. n + 1 : Reads(s, plus, g, i)
  BY <1>4 DEF DecodedAbove
<1>6. IsDecoded(s, plus, g)
  BY <1>5 DEF IsDecoded, Reads
<1> QED
  BY <1>6 DEF Decoded

\* What Decode makes of a text, from each character on.
LEMMA DecodeIs ==
  ASSUME NEW s \in Seq(Char), NEW plus \in Char
  PROVE  /\ Decode(s, plus) = Decoded(s, plus)[1]
         /\ Decoded(s, plus)[Len(s) + 1] = <<>>
         /\ \A i \in 1 .. Len(s) :
              IF IsEscape(s, i)
              THEN Decoded(s, plus)[i] =
                     <<Unhex[SubSeq(s, i + 1, i + 2)]>> \o Decoded(s, plus)[i + 3]
              ELSE Decoded(s, plus)[i] =
                     <<IF s[i] = "+" THEN plus ELSE s[i]>> \o Decoded(s, plus)[i + 1]
<1> DEFINE n == Len(s)
           f == Decoded(s, plus)
<1>1. n \in Nat
  OBVIOUS
<1>2. Decode(s, plus) = f[1]
  BY DEF Decode, Decoded, IsDecoded
<1>3. f = [i \in 1 .. n + 1 |->
         IF i > n THEN <<>>
         ELSE IF IsEscape(s, i) THEN <<Unhex[SubSeq(s, i + 1, i + 2)]>> \o f[i + 3]
         ELSE <<IF s[i] = "+" THEN plus ELSE s[i]>> \o f[i + 1]]
  BY DecodedExists DEF IsDecoded
<1> HIDE DEF f, n
<1>4. f[n + 1] = <<>>
  BY <1>1, <1>3
<1>5. ASSUME NEW i \in 1 .. n
      PROVE  IF IsEscape(s, i) THEN f[i] = <<Unhex[SubSeq(s, i + 1, i + 2)]>> \o f[i + 3]
             ELSE f[i] = <<IF s[i] = "+" THEN plus ELSE s[i]>> \o f[i + 1]
  <2>1. i \in 1 .. n + 1 /\ ~(i > n)
    BY <1>1
  <2> QED
    BY <1>3, <2>1
<1> QED
  BY <1>2, <1>4, <1>5 DEF f, n

\* A text is its first character and the rest.
LEMMA FirstAndRest ==
  ASSUME NEW s \in Seq(Char), NEW k \in 0 .. Len(s) - 1
  PROVE  <<s[k + 1]>> \o SubSeq(s, k + 2, Len(s)) = SubSeq(s, k + 1, Len(s))
<1> DEFINE r == SubSeq(s, k + 2, Len(s))
           l == SubSeq(s, k + 1, Len(s))
           c == s[k + 1]
<1>1. Len(s) \in Nat /\ c \in Char
  OBVIOUS
<1>2. /\ r \in Seq(Char) /\ Len(r) = Len(s) - (k + 1)
      /\ \A i \in 1 .. Len(s) - (k + 1) : r[i] = s[k + 1 + i]
  <2>1. r \in Seq(Char) /\ Len(r) = Len(s) - (k + 1)
    BY <1>1
  <2>2. \A i \in 1 .. Len(s) - (k + 1) : r[i] = s[k + 1 + i]
    BY <1>1
  <2> QED
    BY <2>1, <2>2
<1>3. /\ l \in Seq(Char) /\ Len(l) = Len(s) - k
      /\ \A i \in 1 .. Len(s) - k : l[i] = s[k + i]
  <2>1. l \in Seq(Char) /\ Len(l) = Len(s) - k
    BY <1>1
  <2>2. \A i \in 1 .. Len(s) - k : l[i] = s[k + i]
    BY <1>1
  <2> QED
    BY <2>1, <2>2
<1>4. c = s[k + 1]
  OBVIOUS
<1> HIDE DEF r, l, c
<1> DEFINE t == <<c>> \o r
<1>5. /\ t \in Seq(Char) /\ Len(t) = 1 + Len(r) /\ t[1] = c
      /\ \A i \in 2 .. 1 + Len(r) : t[i] = r[i - 1]
  BY <1>1, <1>2
<1> HIDE DEF t
<1>6. ASSUME NEW i \in 1 .. Len(s) - k PROVE t[i] = l[i]
  <2>1. CASE i = 1
    BY <1>1, <1>3, <1>4, <1>5, <2>1
  <2>2. CASE i # 1
    <3>1. i \in 2 .. 1 + Len(r) /\ i - 1 \in 1 .. Len(s) - (k + 1) /\ k + 1 + (i - 1) = k + i
      BY <1>1, <1>2, <2>2
    <3>2. t[i] = r[i - 1] /\ r[i - 1] = s[k + 1 + (i - 1)]
      BY <1>2, <1>5, <3>1
    <3> QED
      BY <1>3, <3>1, <3>2
  <2> QED
    BY <2>1, <2>2
<1>7. Len(t) = Len(l) /\ Len(l) \in Nat
  BY <1>1, <1>2, <1>3, <1>5
<1>8. t = l
  <2>1. \A i \in 1 .. Len(t) : t[i] = l[i]
    BY <1>3, <1>6, <1>7
  <2> QED
    BY <1>3, <1>5, <1>7, <2>1, SameText
<1> QED
  BY <1>8 DEF t, l, r, c

\* Decoding leaves a plain text as it is.
LEMMA PlainStays ==
  ASSUME NEW s \in Seq(Char), Plain(s) PROVE Decode(s, Space) = s
<1> DEFINE n == Len(s)
           f == Decoded(s, Space)
           T == {k \in 0 .. n : f[k + 1] = SubSeq(s, k + 1, n)}
<1>1. n \in Nat /\ Space \in Char
  BY SpecialChars
<1>2. n \in T
  <2>1. f[n + 1] = <<>> /\ SubSeq(s, n + 1, n) = <<>> /\ n \in 0 .. n
    BY <1>1, DecodeIs
  <2> HIDE DEF f
  <2> QED
    BY <2>1
<1>3. ASSUME NEW k \in 0 .. n - 1, k + 1 \in T PROVE k \in T
  <2>1. s[k + 1] # "+" /\ s[k + 1] # "%" /\ k + 1 \in 1 .. n
    BY <1>1 DEF Plain
  <2>2. ~IsEscape(s, k + 1)
    BY <2>1 DEF IsEscape
  <2>3. f[k + 1] = <<s[k + 1]>> \o f[(k + 1) + 1]
    BY <1>1, <2>1, <2>2, DecodeIs
  <2>4. f[(k + 1) + 1] = SubSeq(s, k + 2, n)
    BY <1>3
  <2>5. f[k + 1] = SubSeq(s, k + 1, n)
    BY <1>1, <2>3, <2>4, FirstAndRest
  <2> QED
    BY <1>1, <2>5
<1>4. 0 \in T
  <2>1. 0 .. n \subseteq T
    <3> HIDE DEF T, n
    <3> QED
      BY <1>1, <1>2, <1>3, InductDown
  <2>2. 0 \in 0 .. n
    BY <1>1
  <2> HIDE DEF T
  <2> QED
    BY <2>1, <2>2
<1>5. SubSeq(s, 1, n) = s
  BY <1>1
<1> QED
  BY <1>1, <1>4, <1>5, DecodeIs

\* Unescaping undoes escaping.
LEMMA EscapedComesBack ==
  ASSUME NEW s \in Seq(Char) PROVE Decode(QueryEscape(s), Space) = s
<1> DEFINE n == Len(s)
           e == QueryEscape(s)
           f == Decoded(e, Space)
           T == {k \in 0 .. n : f[Len(Written(s, k)) + 1] = SubSeq(s, k + 1, n)}
<1>1. n \in Nat /\ Space \in Char /\ e \in Seq(Char) /\ Len(e) \in Nat
  BY WrittenIs, SpecialChars
<1>2. n \in T
  <2>1. Written(s, n) = e /\ f[Len(e) + 1] = <<>>
    BY <1>1, WrittenIs, DecodeIs
  <2>2. SubSeq(s, n + 1, n) = <<>>
    BY <1>1
  <2>3. n \in 0 .. n
    BY <1>1
  <2> HIDE DEF f, e, n
  <2> QED
    BY <2>1, <2>2, <2>3
<1>3. ASSUME NEW k \in 0 .. n - 1, k + 1 \in T PROVE k \in T
  <2> DEFINE w == Written(s, k)
             x == EscapeChar(s[k + 1])
             p == Len(w) + 1
  <2>1. /\ Written(s, k + 1) = w \o x /\ w \in Seq(Char)
        /\ k \in 0 .. n /\ k + 1 \in 0 .. n /\ s[k + 1] \in Char
    BY <1>1, WrittenIs
  <2>2. x \in Seq(Char) /\ Len(x) > 0 /\ Escapes(s[k + 1], x)
    BY <2>1, EscapeCharIs, EscapesText
  <2>3. /\ Len(w \o x) <= Len(e)
        /\ \A j \in 1 .. Len(w \o x) : e[j] = (w \o x)[j]
    BY <2>1, WrittenBegins
  <2>4. f[Len(w \o x) + 1] = SubSeq(s, k + 2, n)
    BY <1>3, <2>1
  <2> HIDE DEF w, x
  <2>5. /\ Len(w) \in Nat /\ Len(x) \in Nat /\ Len(w \o x) = Len(w) + Len(x)
        /\ \A j \in 1 .. Len(x) : (w \o x)[Len(w) + j] = x[j]
    BY <2>1, <2>2
  <2>6. p + Len(x) - 1 <= Len(e) /\ \A j \in 1 .. Len(x) : e[Len(w) + j] = x[j]
    <3> SUFFICES ASSUME NEW j \in 1 .. Len(x)
                 PROVE  p + Len(x) - 1 <= Len(e) /\ e[Len(w) + j] = x[j]
      BY <2>2, <2>5
    <3>1. Len(w) + j \in 1 .. Len(w \o x)
      BY <2>5
    <3> QED
      BY <1>1, <2>3, <2>5, <3>1
  <2>7. f[p + Len(x)] = SubSeq(s, k + 2, n) /\ p \in 1 .. Len(e)
    <3>1. Len(w \o x) + 1 = p + Len(x)
      BY <2>5
    <3> QED
      BY <1>1, <2>2, <2>4, <2>5, <2>6, <3>1
  <2>8. f[p] = <<s[k + 1]>> \o SubSeq(s, k + 2, n)
    <3>1. CASE x = <<s[k + 1]>> /\ s[k + 1] \notin {"+", "%", "&", Space}
      <4>1. Len(x) = 1 /\ x[1] = s[k + 1]
        BY <3>1
      <4>2. e[p] = s[k + 1]
        BY <2>6, <4>1
      <4>3. ~IsEscape(e, p)
        BY <3>1, <4>2 DEF IsEscape
      <4>4. f[p] = <<s[k + 1]>> \o f[p + 1]
        <5>1. (IF e[p] = "+" THEN Space ELSE e[p]) = s[k + 1]
          BY <3>1, <4>2
        <5>2. f[p] = <<IF e[p] = "+" THEN Space ELSE e[p]>> \o f[p + 1]
          BY <1>1, <2>7, <4>3, DecodeIs
        <5> QED
          BY <5>1, <5>2
      <4> QED
        BY <2>7, <4>1, <4>4
    <3>2. CASE x = <<"+">> /\ s[k + 1] = Space
      <4>1. Len(x) = 1 /\ x[1] = "+"
        BY <3>2
      <4>2. e[p] = "+"
        BY <2>6, <4>1
      <4>3. ~IsEscape(e, p)
        BY <4>2 DEF IsEscape
      <4>4. f[p] = <<Space>> \o f[p + 1]
        BY <1>1, <2>7, <4>2, <4>3, DecodeIs
      <4> QED
        BY <2>7, <3>2, <4>1, <4>4
    <3>3. CASE \E a, b \in HexDigit : x = <<"%", a, b>> /\ Unhex[<<a, b>>] = s[k + 1]
      <4>1. PICK a \in HexDigit, b \in HexDigit :
                   x = <<"%", a, b>> /\ Unhex[<<a, b>>] = s[k + 1]
        BY <3>3
      <4>2. Len(x) = 3 /\ x[1] = "%" /\ x[2] = a /\ x[3] = b
        BY <4>1
      <4>3. e[p] = "%" /\ e[p + 1] = a /\ e[p + 2] = b /\ p + 2 <= Len(e)
        <5>1. e[Len(w) + 1] = x[1] /\ e[Len(w) + 2] = x[2] /\ e[Len(w) + 3] = x[3]
          BY <2>6, <4>2
        <5>2. Len(w) + 2 = p + 1 /\ Len(w) + 3 = p + 2
          BY <2>5
        <5> QED
          BY <2>5, <2>6, <4>2, <5>1, <5>2
      <4>4. IsEscape(e, p)
        BY <4>3 DEF IsEscape
      <4>5. f[p] = <<Unhex[SubSeq(e, p + 1, p + 2)]>> \o f[p + 3]
        BY <1>1, <2>7, <4>4, DecodeIs
      <4>6. SubSeq(e, p + 1, p + 2) = <<a, b>>
        BY <1>1, <2>7, <4>3, Pair
      <4> QED
        BY <2>7, <4>1, <4>2, <4>5, <4>6
    <3> QED
      BY <2>2, <3>1, <3>2, <3>3 DEF Escapes
  <2>9. f[p] = SubSeq(s, k + 1, n)
    BY <2>8, FirstAndRest
  <2> QED
    BY <2>1, <2>9 DEF w
<1>4. 0 \in T
  <2>1. 0 .. n \subseteq T
    <3> HIDE DEF T, n
    <3> QED
      BY <1>1, <1>2, <1>3, InductDown
  <2>2. 0 \in 0 .. n
    BY <1>1
  <2> HIDE DEF T
  <2> QED
    BY <2>1, <2>2
<1>5. SubSeq(s, 1, n) = s /\ Len(Written(s, 0)) = 0
  BY <1>1, WrittenIs
<1>6. Decode(e, Space) = f[1]
  BY <1>1, DecodeIs
<1> QED
  BY <1>4, <1>5, <1>6

\* Nothing in w ends a value, and each "%" in it is an escape.
Sound(w) == \A j \in 1 .. Len(w) : w[j] # "&" /\ (w[j] = "%" => IsEscape(w, j))

\* Two sound texts are one.
LEMMA SoundJoins ==
  ASSUME NEW w \in Seq(Char), NEW x \in Seq(Char), Sound(w), Sound(x)
  PROVE  Sound(w \o x)
<1> DEFINE t == w \o x
<1>1. /\ Len(w) \in Nat /\ Len(x) \in Nat /\ Len(t) = Len(w) + Len(x)
      /\ \A j \in 1 .. Len(w) : t[j] = w[j]
      /\ \A j \in Len(w) + 1 .. Len(w) + Len(x) : t[j] = x[j - Len(w)]
  OBVIOUS
<1> HIDE DEF t
<1>2. ASSUME NEW j \in 1 .. Len(w) PROVE t[j] # "&" /\ (t[j] = "%" => IsEscape(t, j))
  <2>1. t[j] = w[j] /\ w[j] # "&"
    BY <1>1 DEF Sound
  <2>2. ASSUME w[j] = "%" PROVE IsEscape(t, j)
    <3>1. j + 2 <= Len(w) /\ w[j + 1] \in HexDigit /\ w[j + 2] \in HexDigit
      BY <2>2 DEF Sound, IsEscape
    <3>2. j + 1 \in 1 .. Len(w) /\ j + 2 \in 1 .. Len(w)
      BY <1>1, <3>1
    <3> QED
      BY <1>1, <2>1, <2>2, <3>1, <3>2 DEF IsEscape
  <2> QED
    BY <2>1, <2>2
<1>3. ASSUME NEW j \in Len(w) + 1 .. Len(w) + Len(x)
      PROVE  t[j] # "&" /\ (t[j] = "%" => IsEscape(t, j))
  <2> DEFINE i == j - Len(w)
  <2>1. i \in 1 .. Len(x) /\ j = Len(w) + i
    BY <1>1
  <2>2. t[j] = x[i] /\ x[i] # "&"
    BY <1>1, <2>1 DEF Sound
  <2> HIDE DEF i
  <2>3. ASSUME x[i] = "%" PROVE IsEscape(t, j)
    <3>1. i + 2 <= Len(x) /\ x[i + 1] \in HexDigit /\ x[i + 2] \in HexDigit
      BY <2>1, <2>3 DEF Sound, IsEscape
    <3>2. /\ j + 1 \in Len(w) + 1 .. Len(w) + Len(x) /\ (j + 1) - Len(w) = i + 1
          /\ j + 2 \in Len(w) + 1 .. Len(w) + Len(x) /\ (j + 2) - Len(w) = i + 2
      BY <1>1, <2>1, <3>1
    <3>3. t[j + 1] = x[i + 1] /\ t[j + 2] = x[i + 2]
      BY <1>1, <3>2
    <3> QED
      BY <1>1, <2>1, <2>2, <2>3, <3>1, <3>3 DEF IsEscape
  <2> QED
    BY <2>2, <2>3
<1>4. \A j \in 1 .. Len(t) : j \in 1 .. Len(w) \/ j \in Len(w) + 1 .. Len(w) + Len(x)
  BY <1>1
<1>5. Sound(t)
  BY <1>2, <1>3, <1>4 DEF Sound
<1> QED
  BY <1>5 DEF t

\* An escaped character is sound.
LEMMA SoundChar ==
  ASSUME NEW c \in Char, NEW x, Escapes(c, x) PROVE Sound(x)
<1>1. CASE x = <<c>> /\ c \notin {"+", "%", "&", Space}
  <2>1. Len(x) = 1 /\ x[1] = c
    BY <1>1
  <2> QED
    BY <1>1, <2>1 DEF Sound
<1>2. CASE x = <<"+">> /\ c = Space
  <2>1. Len(x) = 1 /\ x[1] = "+"
    BY <1>2
  <2> QED
    BY <2>1 DEF Sound
<1>3. CASE \E a, b \in HexDigit : x = <<"%", a, b>>
  <2>1. PICK a \in HexDigit, b \in HexDigit : x = <<"%", a, b>>
    BY <1>3
  <2>2. Len(x) = 3 /\ x[1] = "%" /\ x[2] = a /\ x[3] = b
    BY <2>1
  <2>3. \A d \in HexDigit : d # "%" /\ d # "&"
    BY DEF HexDigit
  <2>4. IsEscape(x, 1)
    BY <2>2 DEF IsEscape
  <2>5. \A j \in 1 .. 3 : j = 1 \/ j = 2 \/ j = 3
    OBVIOUS
  <2> QED
    BY <2>2, <2>3, <2>4, <2>5 DEF Sound
<1> QED
  BY <1>1, <1>2, <1>3 DEF Escapes

\* What is escaped can be unescaped, and is the whole value of its key.
LEMMA EscapedIsSound ==
  ASSUME NEW s \in Seq(Char)
  PROVE  Unescapable(QueryEscape(s)) /\ \A j \in DOMAIN QueryEscape(s) : QueryEscape(s)[j] # "&"
<1> DEFINE n == Len(s)
           T == {k \in Nat : k <= n => Sound(Written(s, k))}
<1>1. n \in Nat
  OBVIOUS
<1>2. 0 \in T
  <2>1. Len(Written(s, 0)) = 0
    BY WrittenIs
  <2> QED
    BY <2>1 DEF Sound
<1>3. ASSUME NEW k \in T PROVE k + 1 \in T
  <2> SUFFICES ASSUME k + 1 <= n PROVE Sound(Written(s, k + 1))
    OBVIOUS
  <2>1. k \in 0 .. n - 1 /\ k \in 0 .. n /\ Sound(Written(s, k))
    BY <1>1
  <2>2. s[k + 1] \in Char
    BY <1>1, <2>1
  <2>3. Written(s, k) \in Seq(Char) /\ Written(s, k + 1) = Written(s, k) \o EscapeChar(s[k + 1])
    BY <2>1, WrittenIs
  <2>4. EscapeChar(s[k + 1]) \in Seq(Char) /\ Sound(EscapeChar(s[k + 1]))
    BY <2>2, EscapeCharIs, EscapesText, SoundChar
  <2> QED
    BY <2>1, <2>3, <2>4, SoundJoins
<1>4. Sound(Written(s, n))
  <2>1. T \in SUBSET Nat
    OBVIOUS
  <2>2. n \in T
    <3> HIDE DEF T, n
    <3> QED
      BY <1>1, <1>2, <1>3, <2>1, Induct
  <2> QED
    BY <1>1, <2>2
<1>5. Written(s, n) = QueryEscape(s) /\ QueryEscape(s) \in Seq(Char)
  BY <1>1, WrittenIs
<1>6. DOMAIN QueryEscape(s) = 1 .. Len(QueryEscape(s))
  BY <1>5
<1> HIDE DEF n
<1> QED
  BY <1>4, <1>5, <1>6 DEF Sound, Unescapable

\* What is decoded is a text.
LEMMA DecodedText ==
  ASSUME NEW s \in Seq(Char) PROVE Decode(s, Space) \in Seq(Char)
<1> DEFINE n == Len(s)
           f == Decoded(s, Space)
           T == {k \in 0 .. n : \A i \in k + 1 .. n + 1 : f[i] \in Seq(Char)}
<1>1. n \in Nat /\ Space \in Char /\ \A i \in 1 .. n : s[i] \in Char
  BY SpecialChars
<1>2. /\ Decode(s, Space) = f[1] /\ f[n + 1] = <<>>
      /\ \A i \in 1 .. n :
           IF IsEscape(s, i) THEN f[i] = <<Unhex[SubSeq(s, i + 1, i + 2)]>> \o f[i + 3]
           ELSE f[i] = <<IF s[i] = "+" THEN Space ELSE s[i]>> \o f[i + 1]
  BY <1>1, DecodeIs
<1> HIDE DEF f
<1>3. n \in T
  <2>1. f[n + 1] \in Seq(Char) /\ n \in 0 .. n /\ \A i \in n + 1 .. n + 1 : i = n + 1
    BY <1>1, <1>2
  <2> QED
    BY <2>1
<1>4. ASSUME NEW k \in 0 .. n - 1, k + 1 \in T PROVE k \in T
  <2> DEFINE m == k + 1
  <2>1. m \in 1 .. n /\ \A i \in m + 1 .. n + 1 : f[i] \in Seq(Char)
    BY <1>1, <1>4
  <2> HIDE DEF m
  <2>2. f[m] \in Seq(Char)
    <3>1. CASE IsEscape(s, m)
      <4>1. m + 3 \in m + 1 .. n + 1
        BY <1>1, <2>1, <3>1 DEF IsEscape
      <4>2. Unhex[SubSeq(s, m + 1, m + 2)] \in Char /\ f[m + 3] \in Seq(Char)
        BY <2>1, <3>1, <4>1, UnhexChar
      <4>3. f[m] = <<Unhex[SubSeq(s, m + 1, m + 2)]>> \o f[m + 3]
        BY <1>2, <2>1, <3>1
      <4> QED
        BY <4>2, <4>3
    <3>2. CASE ~IsEscape(s, m)
      <4> DEFINE c == IF s[m] = "+" THEN Space ELSE s[m]
      <4>1. m + 1 \in m + 1 .. n + 1 /\ c \in Char
        BY <1>1, <2>1
      <4>2. f[m] = <<c>> \o f[m + 1]
        BY <1>2, <2>1, <3>2
      <4> HIDE DEF c
      <4> QED
        BY <2>1, <4>1, <4>2
    <3> QED
      BY <3>1, <3>2
  <2>3. \A i \in k + 1 .. n + 1 : i = m \/ i \in m + 1 .. n + 1
    BY <1>1 DEF m
  <2>4. k \in 0 .. n
    BY <1>1
  <2> QED
    BY <2>1, <2>2, <2>3, <2>4
<1>5. 0 \in T
  <2>1. 0 .. n \subseteq T
    <3> HIDE DEF T, n
    <3> QED
      BY <1>1, <1>3, <1>4, InductDown
  <2>2. 0 \in 0 .. n
    BY <1>1
  <2> HIDE DEF T
  <2> QED
    BY <2>1, <2>2
<1>6. 0 + 1 \in 0 + 1 .. n + 1
  BY <1>1
<1> QED
  BY <1>2, <1>5, <1>6

\* What absQuery makes of a path that the user escaped.
LEMMA AbsQueryIs ==
  ASSUME NEW s \in Seq(Char)
  PROVE  /\ absQuery(QueryEscape(s)) \in Seq(Char)
         /\ Plain(s) => absQuery(QueryEscape(s)) \in {s, Refused}
<1>1. Unescapable(QueryEscape(s)) /\ QueryUnescape(QueryEscape(s)) = s
  BY EscapedIsSound, EscapedComesBack DEF QueryUnescape
<1>2. absQuery(QueryEscape(s)) \in {QueryUnescape(s), Refused}
  BY <1>1 DEF absQuery
<1>3. QueryUnescape(s) \in Seq(Char) /\ (Plain(s) => QueryUnescape(s) = s)
  BY DecodedText, PlainStays DEF QueryUnescape
<1>4. Refused \in Seq(Char)
  BY DEF Refused
<1> QED
  BY <1>2, <1>3, <1>4

\* The guest's query_get gives back what the initd client escaped, as a C string.
LEMMA QueryComesBack ==
  ASSUME NEW s \in Seq(Char) PROVE query_get(QueryEscape(s)) = Before(Nul, s)
<1>1. Before("&", QueryEscape(s)) = QueryEscape(s)
  BY EscapedIsSound DEF Before
<1> QED
  BY <1>1, EscapedComesBack DEF query_get, url_decode

\* An empty text is escaped as itself.
LEMMA NothingEscaped == QueryEscape(<<>>) = <<>>
<1>1. <<>> \in Seq(Char) /\ Len(<<>>) = 0
  OBVIOUS
<1>2. Written(<<>>, 0) = <<>> /\ Written(<<>>, Len(<<>>)) = QueryEscape(<<>>)
  BY <1>1, WrittenIs
<1> QED
  BY <1>1, <1>2
-----------------------------------------------------------------------------
(* The path of a request.                                                  *)

(* What the guest is told is what absQuery made of the user's path.        *)
PathInv ==
  /\ path \in Paths
  /\ query \in {<<>>, QueryEscape(Named[path])}
  /\ target \in {<<>>, Before(Nul, Named[path])}
  /\ hpc = "lookup" => target = <<>>

\* absQuery yields a text, and leaves a plain path alone.
LEMMA NamedIs ==
  ASSUME path \in Paths
  PROVE  Named[path] \in Seq(Char) /\ (Plain(path) => Named[path] \in {path, <<>>})
<1>1. path \in Seq(Char)
  BY FileProxyAssumption
<1>2. Named[path] = absQuery(QueryEscape(path))
  BY DEF Named
<1> QED
  BY <1>1, <1>2, AbsQueryIs DEF Refused

\* Only the lookup sets the query, and only Parse reads it.
LEMMA PathPreserved == PlaceInv /\ PathInv /\ [FNext]_vars => PathInv'
<1> SUFFICES ASSUME PlaceInv, PathInv, [FNext]_vars PROVE PathInv'
  OBVIOUS
<1> USE DEF childVars, reqVars, headVars, putVars, getVars, guestVars, hostVars, Goto
<1>1. ASSUME UNCHANGED <<path, query, target>>, hpc' = "lookup" => hpc = "lookup"
      PROVE  PathInv'
  BY <1>1 DEF PathInv, Named
<1>2. CASE Lookup
  <2>1. path' = path /\ target' = <<>> /\ hpc' = "dial"
    BY <1>2 DEF Lookup, PathInv
  <2>2. query' \in {<<>>, QueryEscape(Named[path])}
    BY <1>2 DEF Lookup
  <2> QED
    BY <2>1, <2>2 DEF PathInv, Named
<1>3. CASE GuestStep(Parse)
  <2>1. /\ UNCHANGED <<path, query, hpc>> /\ target' = query_get(query)
        /\ hpc # "lookup"
    BY <1>3 DEF GuestStep, Parse, PlaceInv
  <2>2. <<>> \in Seq(Char) /\ Before(Nul, <<>>) = <<>>
    BY DEF Before
  <2>3. query_get(query) \in {<<>>, Before(Nul, Named[path])}
    <3>1. CASE query = <<>>
      BY <2>2, <3>1, NothingEscaped, QueryComesBack
    <3>2. CASE query = QueryEscape(Named[path])
      BY <3>2, NamedIs, QueryComesBack DEF PathInv
    <3> QED
      BY <3>1, <3>2 DEF PathInv
  <2> QED
    BY <2>1, <2>3 DEF PathInv, Named
<1>4. CASE UserLeaves \/ VmDies \/ UNCHANGED vars
  BY <1>1, <1>4 DEF UserLeaves, VmDies, vars
<1>5. CASE HostStep /\ ~Lookup
  BY <1>1, <1>5 DEF HostStep, ServerStep, LookupFails, BadPath, DialFails, DialSucceeds, ForwardBody,
     ReadAnswer, ExchangeFails, GetStarts, CopyEnds, Abandon, HealthzExpires, Return
<1>6. CASE GuestStep(HandlerStep) /\ ~Parse
  BY <1>1, <1>6 DEF GuestStep, HandlerStep, OwnStep, WritesArchive, AcceptConnection, ReadHead, HeadEnds, Reject,
     AnswerAtOnce, SpawnTar, FeedPrefetched, FeedTar, EndFeed, Answer, SendArchive,
     EndArchive, EndBody, Collect
<1>7. CASE GuestStep(TarStep) \/ GuestStep(Sigchld)
  BY <1>1, <1>7 DEF GuestStep, TarStep, TarWrites, TarEnds, Sigchld
<1> QED
  BY <1>2, <1>3, <1>4, <1>5, <1>6, <1>7 DEF FNext, GuestStep, GuestNext

-----------------------------------------------------------------------------
(* The theorems.                                                           *)

FilesInv == PlaceInv /\ TextInv /\ AcceptedInv /\ ArchiveInv /\ PathInv

\* It holds: each part is kept with the help of the parts before it.
LEMMA FilesInvariant == FSafetySpec => []FilesInv
<1>1. FInit => FilesInv
  <2> SUFFICES ASSUME FInit PROVE FilesInv
    OBVIOUS
  <2>1. PlaceInv /\ AcceptedInv /\ ArchiveInv
    BY DEF FInit, GuestInit, ChildInit, PlaceInv, AcceptedInv, ArchiveInv, Heading,
       Tending, Position
  <2>2. TextInv
    BY TextFacts DEF FInit, GuestInit, ChildInit, TextInv, Heading, Tending, Holds
  <2>3. PathInv
    BY DEF FInit, GuestInit, PathInv
  <2> QED
    BY <2>1, <2>2, <2>3 DEF FilesInv
<1>2. FilesInv /\ [FNext]_vars => FilesInv'
  BY PlacePreserved, TextPreserved, AcceptedPreserved, ArchivePreserved, PathPreserved
     DEF FilesInv
<1> QED
  BY <1>1, <1>2, PTL DEF FSafetySpec

(* However the head is cut into reads, the guest finds its end and its     *)
(* length, feeds tar the body and nothing else, in order, and does not     *)
(* close without an answer on a host that is there (read_until,            *)
(* parse_headers, handle_tar_put).                                         *)
THEOREM RequestsAreUnderstood == FSafetySpec => []RequestUnderstood
<1>1. PlaceInv /\ TextInv => RequestUnderstood
  <2> SUFFICES ASSUME PlaceInv, TextInv PROVE RequestUnderstood
    OBVIOUS
  <2>1. pc \in {"request", "prefetch", "copy", "answer"} \cup InWaitpid => length = declared
    BY DEF TextInv, InWaitpid, Tending, PlaceInv, Position, Heading
  <2>2. IsPrefix(fed, Body)
    <3>1. /\ fed \in Seq(Symbol) /\ Len(fed) \in 0 .. Len(Body) /\ Body \in Seq(Symbol)
          /\ Len(Body) \in Nat /\ \A i \in 1 .. Len(fed) : fed[i] = Body[i]
      <4>1. Body \in Seq(Symbol) /\ Len(Body) \in Nat
        BY BodyFollows
      <4>2. fed \in Seq(Symbol)
        BY DEF TextInv, Holds
      <4>3. Len(fed) \in 0 .. Len(Body)
        <5>1. Len(fed) \in Nat
          BY <4>2
        <5>2. Len(fed) <= Len(Body)
          BY DEF TextInv
        <5>3. \A n \in Nat : n <= Len(Body) => n \in 0 .. Len(Body)
          OBVIOUS
        <5> QED
          BY <5>1, <5>2, <5>3, Zenon
      <4>4. \A i \in 1 .. Len(fed) : fed[i] = Body[0 + i]
        BY DEF TextInv, Holds
      <4> QED
        BY <4>1, <4>2, <4>3, <4>4
    <3>2. /\ SubSeq(fed, 1, Len(fed)) \in Seq(Symbol)
          /\ Len(SubSeq(fed, 1, Len(fed))) = Len(fed)
          /\ \A i \in 1 .. Len(fed) : SubSeq(fed, 1, Len(fed))[i] = fed[i]
      BY <3>1
    <3>3. /\ SubSeq(Body, 1, Len(fed)) \in Seq(Symbol)
          /\ Len(SubSeq(Body, 1, Len(fed))) = Len(fed)
          /\ \A i \in 1 .. Len(fed) : SubSeq(Body, 1, Len(fed))[i] = Body[i]
      BY <3>1
    <3>4. SubSeq(fed, 1, Len(fed)) = SubSeq(Body, 1, Len(fed))
      BY <3>1, <3>2, <3>3, SameText
    <3> QED
      BY <3>1, <3>4 DEF IsPrefix
  <2>3. pc = "closed" /\ reply = "none" /\ buf # <<>> => peer = "gone"
    BY DEF TextInv
  <2> QED
    BY <2>1, <2>2, <2>3 DEF RequestUnderstood
<1> QED
  BY <1>1, FilesInvariant, PTL DEF FilesInv

(* 204 for an upload means that tar was fed all of it, but for what it     *)
(* refused to read (handle_tar_put, PutTar).                               *)
THEOREM AcceptedIsFed == FSafetySpec => []AcceptedMeansFed
<1>1. FilesInv => AcceptedMeansFed
  BY DEF FilesInv, AcceptedInv, AcceptedMeansFed, Fed
<1> QED
  BY <1>1, FilesInvariant, PTL

(* A download whose end the user sees is all that tar wrote, and tar has   *)
(* ended, unless the VM died (handle_tar_get, getFiles).                   *)
THEOREM ArchiveIsWhole == FSafetySpec => []ArchiveWhole
<1>1. FilesInv => ArchiveWhole
  BY DEF FilesInv, ArchiveInv, ArchiveWhole, AllSent
<1> QED
  BY <1>1, FilesInvariant, PTL

(* Whatever path the user names, the guest works on what absQuery made of  *)
(* it: the client's escaping, the request and the guest's decoding cancel  *)
(* out.  For a path without "+" and "%" that is what the user named        *)
(* (absQuery, QueryEscape of the client, query_get, url_decode).           *)
THEOREM PathsReachGuest == FSafetySpec => []PathReachesGuest
<1>1. PathInv => PathReachesGuest
  <2> SUFFICES ASSUME PathInv, target # <<>>
               PROVE  /\ target = Before(Nul, Named[path])
                      /\ Plain(path) => target = path
    BY DEF PathReachesGuest
  <2>1. path \in Paths /\ target = Before(Nul, Named[path])
    BY DEF PathInv
  <2>2. ASSUME Plain(path) PROVE target = path
    <3>1. Before(Nul, path) = path /\ Before(Nul, <<>>) = <<>>
      BY <2>2 DEF Before, Plain
    <3> QED
      BY <2>1, <2>2, <3>1, NamedIs
  <2> QED
    BY <2>1, <2>2
<1> QED
  BY <1>1, FilesInvariant, PTL DEF FilesInv
=============================================================================
