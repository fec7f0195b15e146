---------------------------- MODULE MCFileProxy -----------------------------
(* Paths for TLC: plain ones, the reserved characters, an escape spelled    *)
(* out, relative and empty ones.  The bytes are those of the paths and      *)
(* those that their escapes stand for; "?" is any other.                    *)
EXTENDS FileProxy, TLC

SomePaths ==
  { <<"/", "a">>, <<"/", "a", " ", "b">>, <<"/", "&">>, <<"/", "a", "+">>, <<"/", "%">>,
    <<"/", "%", "2", "F">>, <<"/", "%", "2", "5", "2", "6">>, <<"/", "a", "nul", "b">>,
    <<"a">>, <<>> }

SomeCode ==
  "/" :> <<"2", "F">> @@ "+" :> <<"2", "B">> @@ "%" :> <<"2", "5">> @@
  "&" :> <<"2", "6">> @@ "nul" :> <<"0", "0">>

SomeUnhex ==
  [d \in Octet |->
     IF d = <<"2", "0">> THEN " "
     ELSE IF \E c \in DOMAIN SomeCode : SomeCode[c] = d
     THEN CHOOSE c \in DOMAIN SomeCode : SomeCode[c] = d ELSE "?"]

SomeChar == HexDigit \cup DOMAIN SomeCode \cup {" ", "?"}

\* An archive whose bytes end a second head.
SomePieces == {"cr", "lf", "b"}
SomeBody == <<"cr", "lf", "b">>
=============================================================================
