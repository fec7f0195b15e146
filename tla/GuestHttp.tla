----------------------------- MODULE GuestHttp ------------------------------
(***************************************************************************)
(* How initd finds and parses the head of a request (initd.c read_until,   *)
(* parse_headers, handle_connection).  The stream is a sequence of symbols:*)
(* one for a request line, one for a header line, one for each CR and LF   *)
(* that ends a line and one for each piece of the body.                    *)
(***************************************************************************)
EXTENDS Naturals, Sequences, SequencesExt

Eol == <<"cr", "lf">>
EndOfHead == Eol \o Eol

OccursAt(needle, buf, i) ==
  i + Len(needle) - 1 <= Len(buf) /\ SubSeq(buf, i, i + Len(needle) - 1) = needle

\* Where a text occurs first in the buffer, 0 if nowhere (strstr).
Find(needle, buf) ==
  LET at == {i \in DOMAIN buf : OccursAt(needle, buf, i)}
  IN  IF at = {} THEN 0 ELSE CHOOSE i \in at : \A j \in at : i <= j

\* Faulty variant: only the symbols of the last read are scanned.
ScansLastRead(buf, n) == {\E i \in Len(buf) - n + 1 .. Len(buf) : OccursAt(EndOfHead, buf, i)}

(* What the scan of read_until may conclude after a read of n symbols.  It *)
(* starts three symbols before them.  Early in the buffer that is in front *)
(* of it, where anything may be: the comparison there can succeed only if  *)
(* the buffer begins with the rest of the needle.                          *)
ReadUntilFinds(buf, n) ==
  LET old   == Len(buf) - n
      found == \E i \in 1 .. Len(buf) : i + 3 > old /\ OccursAt(EndOfHead, buf, i)
      stray == \E k \in 1 .. 3 : k + old <= 3 /\ IsPrefix(SubSeq(EndOfHead, k + 1, 4), buf)
  IN  IF Len(buf) < Len(EndOfHead) THEN {FALSE}
      ELSE {found} \cup (IF stray THEN {TRUE} ELSE {})

HeadLength(buf) == Find(EndOfHead, buf) + Len(EndOfHead) - 1

\* The head has an end and, before it, the end of a request line.
HasRequestLine(buf) ==
  LET eoh == Find(EndOfHead, buf)
  IN  eoh > 0 /\ Find(Eol, SubSeq(buf, 1, eoh - 1)) > 0

(* parse_headers works on the text in front of the head's end, so the last *)
(* header line has lost its CR LF and is not looked at.                    *)
SeesLength(buf) ==
  \E i \in 1 .. Find(EndOfHead, buf) - 3 : buf[i] = "length" /\ OccursAt(Eol, buf, i + 1)

Prefetched(buf) == SubSeq(buf, HeadLength(buf) + 1, Len(buf))

-----------------------------------------------------------------------------
(* The heads that Go's transport writes for the initd client (external).   *)
(* Content-Length is never last: Content-Type or Accept-Encoding follows.  *)
Line(l) == <<l>> \o Eol

RequestHead(kind) ==
  Line("request") \o Line("other")
    \o (IF kind = "length" THEN Line("length") ELSE <<>>)
    \o Line("other") \o Eol
=============================================================================
