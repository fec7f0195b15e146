------------------------------ MODULE UrlPath -------------------------------
(***************************************************************************)
(* How the path of a files request travels: escaped by the user, unescaped *)
(* twice by absQuery (api/initd.go), escaped again by the initd client and *)
(* decoded by the C code of the guest (url_decode, query_get).  A text is  *)
(* a sequence of characters; Go's net/url is external.                     *)
(***************************************************************************)
EXTENDS Naturals, Sequences, SequencesExt

Space == " "
Nul == "nul"
HexDigit == {"0", "1", "2", "3", "4", "5", "6", "7", "8", "9",
             "A", "B", "C", "D", "E", "F", "a", "b", "c", "d", "e", "f"}
Octet == HexDigit \X HexDigit

CONSTANTS
  Char,  \* the bytes of paths
  Code,  \* the two digits that net/url writes for each byte it escapes
  Unhex  \* the byte that two digits stand for

ASSUME UrlPathAssumption ==
  /\ HexDigit \cup {Space} \subseteq Char /\ DOMAIN Code \subseteq Char
  /\ {"+", "%", "&", Nul} \subseteq DOMAIN Code
  /\ Unhex \in [Octet -> Char]
  /\ \A c \in DOMAIN Code : Code[c] \in Octet /\ Unhex[Code[c]] = c

IsEscape(s, i) ==
  s[i] = "%" /\ i + 2 <= Len(s) /\ s[i + 1] \in HexDigit /\ s[i + 2] \in HexDigit

-----------------------------------------------------------------------------
(* net/url.                                                                *)

EscapeChar(c) ==
  IF c = Space THEN <<"+">>
  ELSE IF c \in DOMAIN Code THEN <<"%">> \o Code[c] ELSE <<c>>

QueryEscape(s) == FlattenSeq([i \in DOMAIN s |-> EscapeChar(s[i])])

\* Percent-decoding from the left; a "%" that escapes nothing stays.
Decode(s, plus) ==
  LET from[i \in 1 .. Len(s) + 1] ==
        IF i > Len(s) THEN <<>>
        ELSE IF IsEscape(s, i) THEN <<Unhex[SubSeq(s, i + 1, i + 2)]>> \o from[i + 3]
        ELSE <<IF s[i] = "+" THEN plus ELSE s[i]>> \o from[i + 1]
  IN  from[1]

\* QueryUnescape returns an error for a "%" that escapes nothing.
Unescapable(s) == \A i \in DOMAIN s : s[i] = "%" => IsEscape(s, i)
QueryUnescape(s) == Decode(s, Space)

-----------------------------------------------------------------------------
(* The code.                                                               *)

Refused == <<>>

\* absQuery: Query().Get has unescaped the value, and it is unescaped again.
absQuery(raw) ==
  LET once == IF Unescapable(raw) THEN QueryUnescape(raw) ELSE <<>>
      v    == QueryUnescape(once)
  IN  IF Unescapable(once) /\ v # <<>> /\ v[1] = "/" THEN v ELSE Refused

\* Faulty variant: the guest's decoder leaves "+" alone.
urlDecodePercentOnly(s) == Decode(s, "+")

url_decode(s) == Decode(s, Space)

\* The text in front of the first c in it.
Before(c, s) ==
  LET at == {i \in DOMAIN s : s[i] = c}
  IN  IF at = {} THEN s ELSE SubSeq(s, 1, (CHOOSE i \in at : \A j \in at : i <= j) - 1)

\* The value of the key ends at the next "&", and as a C string at a NUL.
query_get(query) == Before(Nul, url_decode(Before("&", query)))

\* A path that decoding a second time leaves as it is, and that is a C string.
Plain(path) == \A i \in DOMAIN path : path[i] \notin {"+", "%", Nul}
=============================================================================
