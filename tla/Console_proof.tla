--------------------------- MODULE Console_proof ---------------------------
(***************************************************************************)
(* Theorems about Console, for every set of attachments, every length of   *)
(* the history and of the channels, and every amount of output.            *)
(***************************************************************************)
EXTENDS Console, SequenceTheorems, TLAPS

-----------------------------------------------------------------------------
(* No panic.                                                               *)

(* The inductive invariant: no subscriber's channel is closed, only        *)
(* attachments have channels, and the map of subscribers is nil, and empty *)
(* before that, exactly when the console is closed.                        *)
ChannelInv ==
  /\ ~panicked
  /\ subs \subseteq attached /\ chanClosed \subseteq attached
  /\ attached \subseteq Attachment
  /\ subs \cap chanClosed = {}
  /\ subsNil <=> closed
  /\ closed => subs = {}

\* It holds: every send and close is done under c.mu on a channel that is
\* still open.
LEMMA ChannelInvariant == SafetySpec => []ChannelInv
<1>1. Init => ChannelInv
  BY DEF Init, ChannelInv
<1>2. ChannelInv /\ [Next]_vars => ChannelInv'
  <2> SUFFICES ASSUME ChannelInv, [Next]_vars PROVE ChannelInv'
    OBVIOUS
  <2> USE DEF ChannelInv, CloseChannels, sharedVars
  <2>1. CASE PumpReads
    BY <2>1 DEF PumpReads
  <2>2. CASE Close
    BY <2>2 DEF Close
  <2>3. ASSUME NEW a \in Attachment, Attach(a)
        PROVE  ChannelInv'
    BY <2>3 DEF Attach
  <2>4. ASSUME NEW a \in Attachment, Read(a)
        PROVE  ChannelInv'
    BY <2>4 DEF Read, ReadCopies, ReadReceives, ReadEnds
  <2>5. ASSUME NEW a \in Attachment, CloseAttachment(a)
        PROVE  ChannelInv'
    BY <2>5 DEF CloseAttachment
  <2>6. CASE PumpBroadcasts
    BY <2>6 DEF PumpBroadcasts
  <2>7. CASE PumpEnds
    BY <2>7 DEF PumpEnds
  <2>8. CASE UNCHANGED vars
    BY <2>8 DEF vars
  <2> QED
    BY <2>1, <2>2, <2>3, <2>4, <2>5, <2>6, <2>7, <2>8 DEF Next, Pump
<1> QED
  BY <1>1, <1>2, PTL DEF SafetySpec

\* No interleaving of the pump, run()'s close, attaching and detaching sends on
\* or closes a closed channel, or writes to the nil map of subscribers.
THEOREM ConsoleNeverPanics == SafetySpec => []NeverPanics
BY ChannelInvariant, PTL DEF ChannelInv, NeverPanics

-----------------------------------------------------------------------------
(* The history.                                                            *)

\* The n bytes of output that end with byte b.
Run(b, n) == [i \in 1 .. n |-> b - n + i]

\* The newest bytes of what was shown, at most max of them.
Newest(b, max) == Run(b, IF b > max THEN max ELSE b)

\* A run is a sequence of its length, with consecutive bytes up to its end.
LEMMA RunFacts ==
  ASSUME NEW b \in Int, NEW n \in Nat
  PROVE  /\ Run(b, n) \in Seq(Int)
         /\ Len(Run(b, n)) = n
         /\ \A i \in 1 .. n : Run(b, n)[i] = b - n + i
         /\ EndsAt(Run(b, n), b)
BY DEF Run, EndsAt

\* A run is told by its end and its length.
LEMMA RunIsUnique ==
  ASSUME NEW s \in Seq(Int), NEW b \in Int, EndsAt(s, b)
  PROVE  s = Run(b, Len(s))
<1>1. DOMAIN s = 1 .. Len(s) /\ s = [i \in 1 .. Len(s) |-> s[i]]
  OBVIOUS
<1>2. \A i \in 1 .. Len(s) : s[i] = b - Len(s) + i
  BY DEF EndsAt
<1> QED
  BY <1>1, <1>2 DEF Run

\* Two runs that adjoin make one.
LEMMA RunsAdjoin ==
  ASSUME NEW s \in Seq(Int), NEW t \in Seq(Int), NEW b \in Int,
         EndsAt(s, b), EndsAt(t, b + Len(t))
  PROVE  EndsAt(s \o t, b + Len(t))
<1>1. Len(s \o t) = Len(s) + Len(t)
  OBVIOUS
<1>2. ASSUME NEW i \in 1 .. Len(s \o t)
      PROVE  (s \o t)[i] = b + Len(t) - (Len(s \o t) - i)
  <2>1. CASE i <= Len(s)
    BY <1>1, <2>1 DEF EndsAt
  <2>2. CASE i > Len(s)
    <3>1. i - Len(s) \in 1 .. Len(t) /\ (s \o t)[i] = t[i - Len(s)]
      BY <1>1, <2>2
    <3> QED
      BY <1>1, <3>1 DEF EndsAt
  <2> QED
    BY <2>1, <2>2
<1> QED
  BY <1>2 DEF EndsAt

\* The end of a run is a run with the same end.
LEMMA RunSuffix ==
  ASSUME NEW s \in Seq(Int), NEW b \in Int, EndsAt(s, b),
         NEW k \in 1 .. Len(s) + 1
  PROVE  /\ SubSeq(s, k, Len(s)) \in Seq(Int)
         /\ Len(SubSeq(s, k, Len(s))) = Len(s) - k + 1
         /\ EndsAt(SubSeq(s, k, Len(s)), b)
<1> DEFINE t == SubSeq(s, k, Len(s))
<1>1. t \in Seq(Int) /\ Len(t) = Len(s) - k + 1
  OBVIOUS
<1>2. \A i \in 1 .. Len(t) : t[i] = s[k + i - 1]
  BY <1>1
<1> QED
  BY <1>1, <1>2 DEF EndsAt

\* appendRing keeps the newest max bytes: the history of what was shown, and
\* a chunk that adjoins, give the history of what is shown with the chunk.
LEMMA RingKeepsNewest ==
  ASSUME NEW b \in Nat, NEW max \in Nat \ {0}, NEW new \in Seq(Int),
         EndsAt(new, b + Len(new))
  PROVE  appendRing(Newest(b, max), new, max) = Newest(b + Len(new), max)
<1> DEFINE hist == Newest(b, max)
           size == IF b > max THEN max ELSE b
           c == b + Len(new)
<1>1. size \in Nat /\ size <= b /\ size <= max /\ c \in Nat /\ b \in Int /\ c \in Int
  OBVIOUS
<1>2. hist = Run(b, size)
  BY DEF Newest
<1>3. hist \in Seq(Int) /\ Len(hist) = size /\ EndsAt(hist, b)
  <2> HIDE DEF hist, size
  <2> QED
    BY <1>1, <1>2, RunFacts
\* The last max elements of a run that ends with c, if it has as many.
<1>4. ASSUME NEW s \in Seq(Int), EndsAt(s, c), Len(s) >= max
      PROVE  SubSeq(s, Len(s) - max + 1, Len(s)) = Run(c, max)
  <2> DEFINE t == SubSeq(s, Len(s) - max + 1, Len(s))
  <2>1. Len(s) - max + 1 \in 1 .. Len(s) + 1
    BY <1>4
  <2>2. t \in Seq(Int) /\ Len(t) = Len(s) - (Len(s) - max + 1) + 1 /\ EndsAt(t, c)
    BY <1>1, <1>4, <2>1, RunSuffix
  <2> HIDE DEF t
  <2>3. Len(t) = max
    BY <2>2
  <2>4. t = Run(c, max)
    BY <1>1, <2>2, <2>3, RunIsUnique
  <2> QED
    BY <2>4 DEF t
<1>5. CASE Len(new) >= max
  <2>1. Newest(c, max) = Run(c, max)
    BY <1>5 DEF Newest
  <2> QED
    BY <1>4, <1>5, <2>1 DEF appendRing
<1>6. CASE Len(new) < max
  <2> DEFINE combined == hist \o new
  <2>1. combined \in Seq(Int) /\ Len(combined) = size + Len(new)
    <3> HIDE DEF hist, size
    <3> QED
      BY <1>3, SMTT(20)
  <2>2. EndsAt(combined, c)
    BY <1>1, <1>3, RunsAdjoin
  <2>3. appendRing(hist, new, max) =
          IF Len(combined) > max
          THEN SubSeq(combined, Len(combined) - max + 1, Len(combined))
          ELSE combined
    BY <1>6 DEF appendRing
  <2> HIDE DEF combined, hist
  <2>4. CASE Len(combined) > max
    <3>1. Newest(c, max) = Run(c, max)
      BY <1>1, <2>1, <2>4 DEF Newest
    <3>2. SubSeq(combined, Len(combined) - max + 1, Len(combined)) = Run(c, max)
      <4>1. Len(combined) >= max
        BY <1>1, <2>1, <2>4
      <4> HIDE DEF c, size
      <4> QED
        BY <1>4, <2>1, <2>2, <4>1
    <3>3. appendRing(hist, new, max) = Run(c, max)
      BY <2>3, <2>4, <3>2
    <3> QED
      BY <3>1, <3>3 DEF hist
  <2>5. CASE ~(Len(combined) > max)
    <3>1. combined = Run(c, Len(combined))
      BY <1>1, <2>1, <2>2, RunIsUnique
    <3>2. Len(combined) = IF c > max THEN max ELSE c
      <4>1. Len(new) \in Nat
        OBVIOUS
      <4> QED
        BY <1>1, <2>1, <2>5, <4>1
    <3>3. Newest(c, max) = Run(c, Len(combined))
      BY <3>2 DEF Newest
    <3> QED
      BY <2>3, <2>5, <3>1, <3>3 DEF hist
  <2> QED
    BY <2>4, <2>5
<1> QED
  BY <1>5, <1>6

\* What the pump holds follows what was shown.
HistoryInv ==
  /\ shown \in Nat
  /\ history = Newest(shown, HistoryBytes)
  /\ pump \in {"reading", "broadcasting", "over"}
  /\ chunk \in Seq(Int) /\ EndsAt(chunk, shown + Len(chunk))
  /\ pump = "broadcasting" => chunk # <<>>

\* It holds: appendRing keeps the newest bytes of the history and the new
\* chunk.
LEMMA HistoryInvariant == SafetySpec => []HistoryInv
<1>1. Init => HistoryInv
  BY ConsoleAssumption DEF Init, HistoryInv, Newest, Run, EndsAt
<1>2. HistoryInv /\ [Next]_vars => HistoryInv'
  <2> SUFFICES ASSUME HistoryInv, [Next]_vars PROVE HistoryInv'
    OBVIOUS
  <2> USE DEF HistoryInv
  <2>1. CASE PumpReads
    <3>1. PICK n \in 1 .. ReadBytes : chunk' = [i \in 1 .. n |-> shown + i]
      BY <2>1 DEF PumpReads
    <3>2. n \in Nat \ {0}
      BY ConsoleAssumption
    <3>3. chunk' \in Seq(Int) /\ Len(chunk') = n /\ \A i \in 1 .. n : chunk'[i] = shown + i
      BY <3>1, <3>2
    <3>4. EndsAt(chunk', shown + Len(chunk')) /\ chunk' # <<>>
      BY <3>2, <3>3 DEF EndsAt
    <3> QED
      BY <2>1, <3>3, <3>4 DEF PumpReads, sharedVars
  <2>2. CASE PumpBroadcasts
    <3>1. history' = Newest(shown', HistoryBytes)
      BY <2>2, ConsoleAssumption, RingKeepsNewest DEF PumpBroadcasts
    <3>2. shown' \in Nat /\ chunk' = <<>> /\ pump' = "reading"
      BY <2>2 DEF PumpBroadcasts
    <3> QED
      BY <3>1, <3>2 DEF EndsAt
  <2>3. CASE PumpEnds \/ Close \/ UNCHANGED vars
    BY <2>3 DEF PumpEnds, Close, pumpVars, vars
  <2>4. ASSUME NEW a \in Attachment, Attach(a) \/ Read(a) \/ CloseAttachment(a)
        PROVE  HistoryInv'
    BY <2>4 DEF Attach, Read, ReadCopies, ReadReceives, ReadEnds, CloseAttachment,
                pumpVars, sharedVars
  <2> QED
    BY <2>1, <2>2, <2>3, <2>4 DEF Next, Pump
<1> QED
  BY <1>1, <1>2, PTL DEF SafetySpec

\* The history is the newest bytes of what the VM has written, whatever the
\* lengths of the chunks in which they came.
THEOREM HistoryStaysNewest == SafetySpec => []HistoryIsNewest
<1>1. HistoryInv => HistoryIsNewest
  BY DEF HistoryInv, HistoryIsNewest, Newest, Run
<1> QED
  BY <1>1, HistoryInvariant, PTL

-----------------------------------------------------------------------------
(* The streams.                                                            *)

Chunk == Seq(Int) \ {<<>>}

StreamTypes ==
  /\ chan \in [Attachment -> Seq(Chunk)]
  /\ got \in [Attachment -> Seq(Int)] /\ pending \in [Attachment -> Seq(Int)]
  /\ last \in [Attachment -> Int]

\* What attachment a has been given, will copy and has in its channel adjoin.
Unbroken(a) ==
  /\ EndsAt(got[a] \o pending[a], Before(a, 1))
  /\ \A k \in 1 .. Len(chan[a]) : EndsAt(chan[a][k], Before(a, k + 1))

(* The inductive invariant: an attachment not made has nothing, a          *)
(* subscriber has been offered everything shown.                           *)
StreamInv ==
  /\ StreamTypes
  /\ \A a \in Attachment \ attached :
       got[a] = <<>> /\ pending[a] = <<>> /\ chan[a] = <<>>
  /\ \A a \in subs : last[a] = shown
  /\ \A a \in attached \ dropped : Unbroken(a)

\* A chunk that is appended to the channel adjoins what is there.
LEMMA AppendKeepsStream ==
  ASSUME NEW a \in Attachment, StreamTypes, Unbroken(a), HistoryInv,
         chunk # <<>>, last[a] = shown, last'[a] = shown + Len(chunk),
         chan'[a] = Append(chan[a], chunk), UNCHANGED <<got, pending>>
  PROVE  Unbroken(a)'
<1> DEFINE n == Len(chan[a])
<1>1. /\ n \in Nat /\ Len(chan'[a]) = n + 1
      /\ chan'[a][n + 1] = chunk
      /\ \A k \in 1 .. n : chan'[a][k] = chan[a][k]
  BY DEF StreamTypes, HistoryInv, Chunk
<1>2. chunk[1] - 1 = shown
  <2>1. Len(chunk) \in Nat \ {0} /\ shown \in Nat
    BY DEF HistoryInv
  <2>2. chunk[1] = shown + Len(chunk) - (Len(chunk) - 1)
    BY <2>1 DEF HistoryInv, EndsAt
  <2> QED
    BY <2>1, <2>2
<1>3. \A k \in 1 .. n + 1 : Before(a, k)' = Before(a, k)
  BY <1>1, <1>2 DEF Before
<1>4. \A k \in Nat : k > n + 1 => Before(a, k)' = shown + Len(chunk)
  BY <1>1 DEF Before
<1>5. EndsAt((got[a] \o pending[a])', Before(a, 1)')
  BY <1>1, <1>3 DEF Unbroken
<1>6. ASSUME NEW k \in 1 .. n + 1
      PROVE  EndsAt(chan'[a][k], Before(a, k + 1)')
  <2>1. CASE k = n + 1
    <3>1. k + 1 \in Nat /\ k + 1 > n + 1
      BY <1>1, <2>1
    <3>2. Before(a, k + 1)' = shown + Len(chunk)
      BY <1>4, <3>1
    <3> QED
      BY <1>1, <2>1, <3>2 DEF HistoryInv
  <2>2. CASE k # n + 1
    <3>1. k \in 1 .. n /\ k + 1 \in 1 .. n + 1
      BY <1>1, <2>2
    <3>2. EndsAt(chan[a][k], Before(a, k + 1))
      BY <3>1 DEF Unbroken
    <3>3. Before(a, k + 1)' = Before(a, k + 1) /\ chan'[a][k] = chan[a][k]
      BY <1>1, <1>3, <3>1
    <3> QED
      BY <3>2, <3>3
  <2> QED
    BY <2>1, <2>2
<1> QED
  BY <1>1, <1>5, <1>6 DEF Unbroken

\* A chunk taken from the channel adjoins what was returned before.
LEMMA ReceiveKeepsStream ==
  ASSUME NEW a \in Attachment, StreamTypes, Unbroken(a),
         pending[a] = <<>>, chan[a] # <<>>,
         pending'[a] = Head(chan[a]), chan'[a] = Tail(chan[a]),
         UNCHANGED <<got, last>>
  PROVE  Unbroken(a)'
<1> DEFINE n == Len(chan[a])
           head == chan[a][1]
<1>1. /\ n \in Nat \ {0} /\ Len(chan'[a]) = n - 1
      /\ pending'[a] = head /\ head \in Seq(Int) /\ Len(head) \in Nat \ {0}
      /\ \A k \in 1 .. n - 1 : chan'[a][k] = chan[a][k + 1]
  <2>1. chan[a] \in Seq(Chunk) /\ n \in Nat \ {0}
    BY DEF StreamTypes
  <2>2. head \in Chunk /\ pending'[a] = head
    BY <2>1
  <2>3. head \in Seq(Int) /\ Len(head) \in Nat \ {0}
    BY <2>2 DEF Chunk
  <2>4. Len(chan'[a]) = n - 1 /\ \A k \in 1 .. n - 1 : chan'[a][k] = chan[a][k + 1]
    BY <2>1
  <2> QED
    BY <2>1, <2>2, <2>3, <2>4
<1>2. \A k \in 1 .. n : Before(a, k)' = Before(a, k + 1)
  BY <1>1 DEF Before
<1>3. EndsAt(head, Before(a, 2)) /\ Before(a, 2) \in Int
  <2>1. EndsAt(head, Before(a, 2))
    <3>1. 1 \in 1 .. n /\ 1 + 1 = 2
      BY <1>1
    <3> QED
      BY <3>1 DEF Unbroken
  <2>2. CASE n > 1
    <3>1. chan[a] \in Seq(Chunk) /\ 2 \in 1 .. n
      BY <1>1, <2>2 DEF StreamTypes
    <3>2. chan[a][2] \in Chunk
      BY <3>1
    <3>3. chan[a][2][1] \in Int
      BY <3>2 DEF Chunk
    <3>4. Before(a, 2) = chan[a][2][1] - 1
      BY <3>1 DEF Before
    <3> QED
      BY <2>1, <3>3, <3>4
  <2>3. CASE n = 1
    <3>1. Before(a, 2) = last[a] /\ last[a] \in Int
      BY <2>3 DEF Before, StreamTypes
    <3> QED
      BY <2>1, <3>1
  <2>4. n = 1 \/ n > 1
    <3>1. n \in Nat \ {0}
      BY <1>1
    <3> HIDE DEF n
    <3> QED
      BY <3>1
  <2> QED
    BY <2>2, <2>3, <2>4
<1>4. EndsAt(got[a], Before(a, 2) - Len(head))
  <2>1. head[1] = Before(a, 2) - (Len(head) - 1)
    BY <1>1, <1>3 DEF EndsAt
  <2>2. Before(a, 1) = Before(a, 2) - Len(head)
    <3>1. Before(a, 1) = head[1] - 1
      BY <1>1 DEF Before
    <3> QED
      BY <1>1, <1>3, <2>1, <3>1
  <2>3. got[a] \o pending[a] = got[a]
    BY DEF StreamTypes
  <2> QED
    BY <2>2, <2>3 DEF Unbroken
<1>5. EndsAt(got[a] \o head, Before(a, 2))
  <2> DEFINE b == Before(a, 2) - Len(head)
  <2>1. b \in Int /\ b + Len(head) = Before(a, 2) /\ got[a] \in Seq(Int)
    BY <1>1, <1>3 DEF StreamTypes
  <2>2. EndsAt(got[a], b) /\ EndsAt(head, b + Len(head))
    BY <1>3, <1>4, <2>1
  <2> HIDE DEF b, head
  <2>3. EndsAt(got[a] \o head, b + Len(head))
    BY <1>1, <2>1, <2>2, RunsAdjoin
  <2> QED
    BY <2>1, <2>3
<1>6. EndsAt((got[a] \o pending[a])', Before(a, 1)')
  BY <1>1, <1>2, <1>5
<1>7. ASSUME NEW k \in 1 .. n - 1
      PROVE  EndsAt(chan'[a][k], Before(a, k + 1)')
  <2>1. k + 1 \in 1 .. n
    BY <1>1
  <2>2. EndsAt(chan[a][k + 1], Before(a, k + 1 + 1))
    BY <2>1 DEF Unbroken
  <2> QED
    BY <1>1, <1>2, <2>1, <2>2
<1> QED
  BY <1>1, <1>6, <1>7 DEF Unbroken

\* Bytes appended one after the other, and together.
LEMMA BytesAssociate ==
  ASSUME NEW x \in Seq(Int), NEW y \in Seq(Int), NEW z \in Seq(Int)
  PROVE  (x \o y) \o z = x \o (y \o z)
BY ConcatAssociative, SMTT(30)

\* What is copied to the caller moves from pending to what it was given.
LEMMA CopyKeepsBytes ==
  ASSUME NEW s \in Seq(Int), NEW t \in Seq(Int), NEW n \in 1 .. Len(t)
  PROVE  /\ SubSeq(t, 1, n) \in Seq(Int) /\ SubSeq(t, n + 1, Len(t)) \in Seq(Int)
         /\ (s \o SubSeq(t, 1, n)) \o SubSeq(t, n + 1, Len(t)) = s \o t
<1>1. SubSeq(t, 1, n) \in Seq(Int) /\ SubSeq(t, n + 1, Len(t)) \in Seq(Int)
  OBVIOUS
<1>2. SubSeq(t, 1, n) \o SubSeq(t, n + 1, Len(t)) = t
  <2>1. SubSeq(t, 1, n) \o SubSeq(t, n + 1, Len(t)) = SubSeq(t, 1, Len(t))
    BY ConcatAdjacentSubSeq
  <2> QED
    BY <2>1, SubSeqFull
<1> DEFINE copied == SubSeq(t, 1, n)
           rest == SubSeq(t, n + 1, Len(t))
<1> HIDE DEF copied, rest
<1>3. copied \in Seq(Int) /\ rest \in Seq(Int) /\ copied \o rest = t
  BY <1>1, <1>2 DEF copied, rest
<1>4. (s \o copied) \o rest = s \o t
  <2>1. copied \in Seq(Int) /\ rest \in Seq(Int)
    BY <1>3
  <2>2. (s \o copied) \o rest = s \o (copied \o rest)
    BY <2>1, BytesAssociate, Zenon
  <2> QED
    BY <1>3, <2>2, Zenon
<1> QED
  BY <1>3, <1>4, Zenon DEF copied, rest

\* Nothing of attachment a changes.
LEMMA UntouchedStream ==
  ASSUME NEW a \in Attachment, Unbroken(a),
         chan'[a] = chan[a], got'[a] = got[a], pending'[a] = pending[a],
         last'[a] = last[a]
  PROVE  Unbroken(a)'
<1>1. \A k : Before(a, k)' = Before(a, k)
  BY DEF Before
<1>2. /\ EndsAt(got[a] \o pending[a], Before(a, 1))
      /\ \A k \in 1 .. Len(chan[a]) : EndsAt(chan[a][k], Before(a, k + 1))
  BY DEF Unbroken
<1>3. EndsAt(got'[a] \o pending'[a], Before(a, 1)')
  BY <1>1, <1>2
<1>4. \A k \in 1 .. Len(chan'[a]) : EndsAt(chan'[a][k], Before(a, k + 1)')
  BY <1>1, <1>2
<1> QED
  BY <1>3, <1>4 DEF Unbroken

\* It holds, with the invariants of the channels and of the history.
LEMMA StreamInvariant == SafetySpec => []StreamInv
<1>1. Init => StreamInv
  BY DEF Init, StreamInv, StreamTypes
<1>2. ChannelInv /\ HistoryInv /\ StreamInv /\ [Next]_vars => StreamInv'
  <2> SUFFICES ASSUME ChannelInv, HistoryInv, StreamInv, [Next]_vars
               PROVE  StreamInv'
    OBVIOUS
  <2>0. subs \subseteq attached /\ attached \subseteq Attachment
    BY DEF ChannelInv
  <2>1. CASE PumpReads
    <3>1. UNCHANGED <<shown, subs, chan, pending, got, attached, dropped, last>>
      BY <2>1 DEF PumpReads, sharedVars, readVars
    <3>2. StreamTypes'
      BY <3>1 DEF StreamInv, StreamTypes
    <3>3. \A a \in attached \ dropped : Unbroken(a)'
      BY <2>0, <3>1, UntouchedStream DEF StreamInv
    <3> QED
      BY <3>1, <3>2, <3>3 DEF StreamInv
  <2>2. CASE PumpBroadcasts
    <3> DEFINE full == {a \in subs : Len(chan[a]) = SubBuffer}
    <3>1. /\ chan' = [a \in Attachment |-> IF a \in subs \ full
                                           THEN Append(chan[a], chunk) ELSE chan[a]]
          /\ dropped' = dropped \cup full
          /\ last' = [a \in Attachment |-> IF a \in subs THEN shown' ELSE last[a]]
          /\ shown' = shown + Len(chunk)
          /\ UNCHANGED <<got, pending, subs, attached>>
      BY <2>2 DEF PumpBroadcasts, readVars
    <3>2. chunk \in Chunk /\ shown \in Nat /\ shown' \in Nat /\ chunk # <<>>
      <4>1. chunk \in Seq(Int) /\ chunk # <<>> /\ shown \in Nat
        BY <2>2 DEF PumpBroadcasts, HistoryInv
      <4> QED
        BY <3>1, <4>1 DEF Chunk
    <3> HIDE DEF full
    <3>3. StreamTypes'
      <4>1. ASSUME NEW a \in Attachment
            PROVE  chan'[a] \in Seq(Chunk) /\ last'[a] \in Int
        <5>1. chan[a] \in Seq(Chunk) /\ last[a] \in Int
          BY DEF StreamInv, StreamTypes
        <5> QED
          BY <3>1, <3>2, <5>1
      <4> QED
        BY <3>1, <4>1 DEF StreamInv, StreamTypes
    <3>4. \A a \in Attachment \ attached :
            got'[a] = <<>> /\ pending'[a] = <<>> /\ chan'[a] = <<>>
      BY <2>0, <3>1 DEF StreamInv
    <3>5. \A a \in subs : last'[a] = shown'
      BY <2>0, <3>1
    <3>6. ASSUME NEW a \in attached \ dropped'
          PROVE  Unbroken(a)'
      <4>1. a \in Attachment /\ a \in attached \ dropped /\ a \notin full /\ Unbroken(a)
        BY <2>0, <3>1, <3>6 DEF StreamInv
      <4>2. CASE a \in subs
        <5>1. last[a] = shown /\ last'[a] = shown + Len(chunk)
          BY <3>1, <4>1, <4>2 DEF StreamInv
        <5>2. chan'[a] = Append(chan[a], chunk)
          BY <3>1, <4>1, <4>2
        <5>3. StreamTypes
          BY DEF StreamInv
        <5> QED
          BY <3>1, <3>2, <4>1, <5>1, <5>2, <5>3, AppendKeepsStream
      <4>3. CASE a \notin subs
        BY <3>1, <4>1, <4>3, UntouchedStream
      <4> QED
        BY <4>2, <4>3
    <3> QED
      BY <3>1, <3>3, <3>4, <3>5, <3>6 DEF StreamInv
  <2>3. CASE PumpEnds \/ Close \/ \E a \in Attachment : CloseAttachment(a) \/ ReadEnds(a)
    <3>1. /\ UNCHANGED <<shown, chan, pending, got, attached, dropped, last>>
          /\ subs' \subseteq subs
      BY <2>3 DEF PumpEnds, Close, CloseAttachment, ReadEnds, pumpVars, sharedVars,
                  readVars
    <3>2. StreamTypes'
      BY <3>1 DEF StreamInv, StreamTypes
    <3>3. \A a \in attached \ dropped : Unbroken(a)'
      BY <2>0, <3>1, UntouchedStream DEF StreamInv
    <3> QED
      BY <3>1, <3>2, <3>3 DEF StreamInv
  <2>4. ASSUME NEW a \in Attachment, Attach(a)
        PROVE  StreamInv'
    <3>1. /\ pending' = [pending EXCEPT ![a] = history]
          /\ last' = [last EXCEPT ![a] = shown]
          /\ attached' = attached \cup {a} /\ subs' = subs \cup {a}
          /\ UNCHANGED <<shown, chan, got, dropped>> /\ a \notin attached
      BY <2>4 DEF Attach, pumpVars
    <3>2. history \in Seq(Int) /\ EndsAt(history, shown) /\ shown \in Int
      <4> DEFINE size == IF shown > HistoryBytes THEN HistoryBytes ELSE shown
      <4>1. shown \in Int /\ size \in Nat /\ history = Run(shown, size)
        BY ConsoleAssumption DEF HistoryInv, Newest
      <4> HIDE DEF size
      <4> QED
        BY <4>1, RunFacts
    <3>3. StreamTypes'
      BY <3>1, <3>2 DEF StreamInv, StreamTypes
    <3>4. Unbroken(a)'
      <4>1. got'[a] = <<>> /\ chan'[a] = <<>> /\ pending'[a] = history /\ last'[a] = shown
        BY <3>1 DEF StreamInv, StreamTypes
      <4>2. got'[a] \o pending'[a] = history
        BY <3>2, <4>1
      <4>3. Len(chan'[a]) = 0 /\ Before(a, 1)' = shown
        BY <4>1 DEF Before
      <4> QED
        BY <3>2, <4>2, <4>3 DEF Unbroken
    <3>5. ASSUME NEW b \in attached \ dropped PROVE Unbroken(b)'
      <4>1. b # a /\ b \in Attachment /\ Unbroken(b)
        BY <2>0, <3>1 DEF StreamInv
      <4>2. pending'[b] = pending[b] /\ last'[b] = last[b]
        BY <3>1, <4>1 DEF StreamInv, StreamTypes
      <4> QED
        BY <3>1, <4>1, <4>2, UntouchedStream
    <3>6. \A b \in Attachment \ attached' :
            got'[b] = <<>> /\ pending'[b] = <<>> /\ chan'[b] = <<>>
      BY <3>1 DEF StreamInv, StreamTypes
    <3>7. \A b \in subs' : last'[b] = shown'
      BY <2>0, <3>1 DEF StreamInv, StreamTypes
    <3> QED
      BY <3>1, <3>3, <3>4, <3>5, <3>6, <3>7 DEF StreamInv
  <2>5. ASSUME NEW a \in Attachment, ReadCopies(a)
        PROVE  StreamInv'
    <3>1. PICK n \in 1 .. Len(pending[a]) :
            /\ got' = [got EXCEPT ![a] = @ \o SubSeq(pending[a], 1, n)]
            /\ pending' = [pending EXCEPT ![a] = SubSeq(@, n + 1, Len(@))]
      BY <2>5 DEF ReadCopies
    <3>2. UNCHANGED <<shown, subs, chan, attached, dropped, last>> /\ pending[a] # <<>>
      BY <2>5 DEF ReadCopies, pumpVars, sharedVars
    <3>3. got[a] \in Seq(Int) /\ pending[a] \in Seq(Int)
      BY DEF StreamInv, StreamTypes
    <3>4. /\ got'[a] = got[a] \o SubSeq(pending[a], 1, n)
          /\ pending'[a] = SubSeq(pending[a], n + 1, Len(pending[a]))
          /\ \A b \in Attachment \ {a} : got'[b] = got[b] /\ pending'[b] = pending[b]
      BY <3>1 DEF StreamInv, StreamTypes
    <3>5. /\ got'[a] \in Seq(Int) /\ pending'[a] \in Seq(Int)
          /\ got'[a] \o pending'[a] = got[a] \o pending[a]
      <4>1. /\ SubSeq(pending[a], 1, n) \in Seq(Int)
            /\ SubSeq(pending[a], n + 1, Len(pending[a])) \in Seq(Int)
            /\ (got[a] \o SubSeq(pending[a], 1, n))
                 \o SubSeq(pending[a], n + 1, Len(pending[a])) = got[a] \o pending[a]
        <5> DEFINE g == got[a]
                   p == pending[a]
        <5>1. g \in Seq(Int) /\ p \in Seq(Int) /\ n \in 1 .. Len(p)
          BY <3>3
        <5> HIDE DEF g, p
        <5>2. /\ SubSeq(p, 1, n) \in Seq(Int) /\ SubSeq(p, n + 1, Len(p)) \in Seq(Int)
              /\ (g \o SubSeq(p, 1, n)) \o SubSeq(p, n + 1, Len(p)) = g \o p
          BY <5>1, CopyKeepsBytes, Zenon
        <5> QED
          BY <5>2, Zenon DEF g, p
      <4>2. got'[a] \in Seq(Int) /\ pending'[a] \in Seq(Int)
        BY <3>3, <3>4, <4>1
      <4> QED
        BY <3>4, <4>1, <4>2, Zenon
    <3>6. StreamTypes'
      BY <3>1, <3>2, <3>5 DEF StreamInv, StreamTypes
    <3>7. a \in attached
      BY <3>2 DEF StreamInv
    <3>8. ASSUME NEW b \in attached \ dropped PROVE Unbroken(b)'
      <4>1. Unbroken(b) /\ b \in Attachment
        BY <2>0 DEF StreamInv
      <4>2. CASE b # a
        BY <3>2, <3>4, <4>1, <4>2, UntouchedStream
      <4>3. CASE b = a
        <5>1. \A k : Before(a, k)' = Before(a, k)
          BY <3>2 DEF Before
        <5> QED
          BY <3>2, <3>5, <4>1, <4>3, <5>1 DEF Unbroken
      <4> QED
        BY <4>2, <4>3
    <3> QED
      BY <3>2, <3>4, <3>6, <3>7, <3>8 DEF StreamInv
  <2>6. ASSUME NEW a \in Attachment, ReadReceives(a)
        PROVE  StreamInv'
    <3>1. /\ a \in attached /\ pending[a] = <<>> /\ chan[a] # <<>>
          /\ pending' = [pending EXCEPT ![a] = Head(chan[a])]
          /\ chan' = [chan EXCEPT ![a] = Tail(@)]
          /\ UNCHANGED <<shown, subs, got, attached, dropped, last>>
      BY <2>6 DEF ReadReceives, pumpVars, sharedVars
    <3>2. /\ pending'[a] = Head(chan[a]) /\ chan'[a] = Tail(chan[a])
          /\ \A b \in Attachment \ {a} : chan'[b] = chan[b] /\ pending'[b] = pending[b]
      BY <3>1 DEF StreamInv, StreamTypes
    <3>3. pending'[a] \in Seq(Int) /\ chan'[a] \in Seq(Chunk)
      <4>1. chan[a] \in Seq(Chunk) /\ Len(chan[a]) \in Nat \ {0}
        BY <3>1 DEF StreamInv, StreamTypes
      <4>2. Head(chan[a]) \in Chunk /\ Tail(chan[a]) \in Seq(Chunk)
        BY <4>1
      <4> QED
        BY <3>2, <4>2 DEF Chunk
    <3>4. StreamTypes'
      BY <3>1, <3>3 DEF StreamInv, StreamTypes
    <3>5. ASSUME NEW b \in attached \ dropped PROVE Unbroken(b)'
      <4>1. Unbroken(b) /\ b \in Attachment
        BY <2>0 DEF StreamInv
      <4>2. CASE b # a
        BY <3>1, <3>2, <4>1, <4>2, UntouchedStream
      <4>3. CASE b = a
        <5>1. StreamTypes
          BY DEF StreamInv
        <5> QED
          BY <3>1, <3>2, <4>1, <4>3, <5>1, ReceiveKeepsStream
      <4> QED
        BY <4>2, <4>3
    <3> QED
      BY <3>1, <3>2, <3>4, <3>5 DEF StreamInv
  <2>7. CASE UNCHANGED vars
    <3>1. UNCHANGED <<shown, subs, chan, pending, got, attached, dropped, last>>
      BY <2>7 DEF vars
    <3>2. StreamTypes'
      BY <3>1 DEF StreamInv, StreamTypes
    <3>3. \A a \in attached \ dropped : Unbroken(a)'
      BY <2>0, <3>1, UntouchedStream DEF StreamInv
    <3> QED
      BY <3>1, <3>2, <3>3 DEF StreamInv
  <2> QED
    BY <2>1, <2>2, <2>3, <2>4, <2>5, <2>6, <2>7 DEF Next, Pump, Read
<1> QED
  BY <1>1, <1>2, ChannelInvariant, HistoryInvariant, PTL DEF SafetySpec

\* A subscriber that never had a full buffer is given an unbroken run of the
\* VM's output, whatever interleaves: nothing is lost or doubled where the
\* history meets the live stream.
THEOREM StreamIsUnbroken == SafetySpec => []StreamUnbroken
<1>1. StreamInv => StreamUnbroken
  BY DEF StreamInv, StreamUnbroken, Unbroken
<1> QED
  BY <1>1, StreamInvariant, PTL

-----------------------------------------------------------------------------
(* The end of an attachment.                                               *)

(* The inductive invariant: an attachment that has seen EOF was made, is   *)
(* drained, and its channel is closed, so nothing is sent to it any more.  *)
EndInv ==
  /\ chan \in [Attachment -> Seq(Chunk)] /\ pending \in [Attachment -> Seq(Int)]
  /\ \A a \in dead : /\ a \in Attachment /\ a \in chanClosed
                     /\ pending[a] = <<>> /\ chan[a] = <<>>

\* It holds: only a drained attachment with a closed channel reads EOF.
LEMMA EndInvariant == SafetySpec => []EndInv
<1>1. Init => EndInv
  BY DEF Init, EndInv
<1>2. ChannelInv /\ StreamInv /\ StreamInv' /\ EndInv /\ [Next]_vars => EndInv'
  <2> SUFFICES ASSUME ChannelInv, StreamInv, StreamInv', EndInv, [Next]_vars
               PROVE  EndInv'
    OBVIOUS
  <2>0. /\ chan' \in [Attachment -> Seq(Chunk)] /\ pending' \in [Attachment -> Seq(Int)]
        /\ chanClosed \subseteq attached /\ subs \cap chanClosed = {}
    BY DEF StreamInv, StreamTypes, ChannelInv
  <2>1. CASE PumpReads \/ PumpEnds \/ Close \/ UNCHANGED vars
             \/ \E a \in Attachment : CloseAttachment(a)
    <3>1. UNCHANGED <<chan, pending, dead>> /\ chanClosed \subseteq chanClosed'
      BY <2>1 DEF PumpReads, PumpEnds, Close, CloseAttachment, CloseChannels,
                  readVars, vars
    <3> QED
      BY <3>1 DEF EndInv
  <2>2. CASE PumpBroadcasts
    <3>1. /\ \A a \in Attachment \ subs : chan'[a] = chan[a]
          /\ UNCHANGED <<pending, dead, chanClosed>>
      BY <2>2 DEF PumpBroadcasts, readVars
    <3>2. \A a \in dead : a \notin subs
      BY <2>0 DEF EndInv
    <3> QED
      BY <2>0, <3>1, <3>2 DEF EndInv
  <2>3. ASSUME NEW a \in Attachment, Attach(a)
        PROVE  EndInv'
    <3>1. /\ a \notin dead /\ UNCHANGED <<chan, dead, chanClosed>>
          /\ \A b \in Attachment \ {a} : pending'[b] = pending[b]
      BY <2>0, <2>3 DEF Attach, EndInv
    <3> QED
      BY <2>0, <3>1 DEF EndInv
  <2>4. ASSUME NEW a \in Attachment, ReadCopies(a) \/ ReadReceives(a)
        PROVE  EndInv'
    <3>1. /\ a \notin dead /\ UNCHANGED <<dead, chanClosed>>
          /\ \A b \in Attachment \ {a} : pending'[b] = pending[b] /\ chan'[b] = chan[b]
      BY <2>4 DEF ReadCopies, ReadReceives, EndInv
    <3> QED
      BY <2>0, <3>1 DEF EndInv
  <2>5. ASSUME NEW a \in Attachment, ReadEnds(a)
        PROVE  EndInv'
    BY <2>5 DEF ReadEnds, EndInv
  <2> QED
    BY <2>1, <2>2, <2>3, <2>4, <2>5 DEF Next, Pump, Read
<1> QED
  BY <1>1, <1>2, ChannelInvariant, StreamInvariant, PTL DEF SafetySpec

\* Read returns EOF only when everything sent to the subscriber has been read,
\* and nothing is sent to it afterwards, whoever closed its channel.
THEOREM EOFIsTheEnd == SafetySpec => []EOFComesLast
<1>1. EndInv => EOFComesLast
  BY DEF EndInv, EOFComesLast
<1> QED
  BY <1>1, EndInvariant, PTL
=============================================================================
