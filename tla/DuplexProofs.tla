--------------------------- MODULE DuplexProofs ---------------------------
(***************************************************************************)
(* Theorems about Duplex.tla: answers find their own call, and messages    *)
(* arrive in the order in which they were queued.                          *)
(*                                                                         *)
(* The messages of an end stand in one line: those on the wire, the one    *)
(* that is being written and those in the queue.  Every step but a send    *)
(* and an arrival only moves up this line, or cuts off its end.            *)
(***************************************************************************)
EXTENDS Duplex, Integers, SequenceTheorems, TLAPS

Answers == {frame \in Frames : frame.kind # "MSG"}

Sessions ==
    /\ open \in [Ends -> BOOLEAN]
    /\ dataQ \in [Ends -> Seq(Calls)] /\ controlQ \in [Ends -> Seq(Answers)]
    /\ writing \in [Ends -> Seq(Frames)]
    /\ writer \in [Ends -> {"control", "data", "writing", "ended"}]
    /\ \A e \in Ends : IF writer[e] = "writing" THEN Len(writing[e]) = 1 ELSE writing[e] = <<>>
    /\ call \in [Calls -> {"idle", "waiting", "ok", "nak", "failed"}]
    /\ handler \in [Calls -> {"none", "running", "ok", "error", "refused", "aborted", "panicked"}]

Network ==
    /\ wire \in [Ends -> Seq(Frames)]
    /\ received \in [Ends -> Nat]
    /\ arrival \in [Calls -> Nat]
    /\ sent \in [Ends -> Seq(Calls)]

Typing == Sessions /\ Network

\* What an end has for a call on its way to the other end.
Has(s, frame) == \E i \in 1..Len(s) : s[i] = frame

Queued(e, frame) == Has(controlQ[e], frame) \/ Has(writing[e], frame) \/ Has(wire[e], frame)

\* An answer says what became of the message.
Right(frame) ==
    /\ frame.kind = "ACK" => handler[frame.call] = "ok"
    /\ frame.kind = "NAK" => handler[frame.call] \in {"error", "refused"}

AnswersInv == \A e \in Ends, frame \in Frames : Queued(e, frame) => Right(frame)

Msg(c) == [kind |-> "MSG", call |-> c]

\* Where the message of a call is in the line of an end.
AtPlace(e, c, q, n, m, k) ==
    \/ q \in 1..n /\ wire[e][q] = Msg(c)
    \/ q = n + 1 /\ writing[e] = <<Msg(c)>>
    \/ q - n - m \in 1..k /\ dataQ[e][q - n - m] = c

At(e, c, q) == AtPlace(e, c, q, Len(wire[e]), Len(writing[e]), Len(dataQ[e]))

\* What an end has sent, and in which order.
IsSent(e, c) == \E i \in 1..Len(sent[e]) : sent[e][i] = c

SentBefore(e, c, d) == \E i, j \in 1..Len(sent[e]) : i < j /\ sent[e][i] = c /\ sent[e][j] = d

\* A call is sent once, by its caller.
SentOnce(e) ==
    \A c \in Calls : IsSent(e, c) => Caller(c) = e /\ call[c] # "idle" /\ ~SentBefore(e, c, c)

\* A message in the line has not arrived, and is in one place of it.
InLine(e) ==
    /\ \A c \in Calls, q \in Int : At(e, c, q) => IsSent(e, c) /\ arrival[c] = 0 /\ handler[c] = "none"
    /\ \A c \in Calls, q, r \in Int : At(e, c, q) /\ At(e, c, r) => q = r

\* What was sent before a message that is in the line is ahead of it or has
\* arrived.
Ahead(e) ==
    \A c, d \in Calls, r \in Int :
        SentBefore(e, c, d) /\ At(e, d, r) =>
            arrival[c] # 0 \/ \E q \in Int : q < r /\ At(e, c, q)

Arrivals(e) ==
    /\ \A c \in Calls : IsSent(e, c) => arrival[c] <= received[Other(e)]
    /\ \A c, d \in Calls :
          SentBefore(e, c, d) /\ arrival[d] # 0 => arrival[c] # 0 /\ arrival[c] < arrival[d]

\* An open session has lost nothing.
Present(e) ==
    open[e] => \A c \in Calls : IsSent(e, c) => arrival[c] # 0 \/ \E q \in Int : At(e, c, q)

Line(e) == SentOnce(e) /\ InLine(e) /\ Ahead(e) /\ Arrivals(e) /\ Present(e)

\* The message of a call that is not made is nowhere.
Unmade == \A c \in Calls : call[c] = "idle" => arrival[c] = 0 /\ handler[c] = "none"

DuplexInv ==
    /\ Typing
    /\ AnswersInv
    /\ AckMeansHandled
    /\ Unmade
    /\ \A e \in Ends : Line(e)

----------------------------------------------------------------------------
\* There are two ends, each the other of the other.
LEMMA EndsOf ==
    /\ A \in Ends /\ B \in Ends
    /\ \A e \in Ends : Other(e) \in Ends /\ Other(Other(e)) = e /\ Other(e) # e
    /\ \A e, p \in Ends : p = e \/ p = Other(e)
    /\ \A c \in Calls : Caller(c) \in Ends /\ Callee(c) \in Ends /\ Callee(c) = Other(Caller(c))
BY DuplexAssumption DEF Ends, Other, Caller, Callee

\* A frame is a message or an answer, of one call.
LEMMA FramesOf ==
    /\ \A c \in Calls : Msg(c) \in Frames /\ Msg(c).kind = "MSG" /\ Msg(c).call = c
    /\ \A frame \in Frames : frame.call \in Calls /\ frame.kind \in {"MSG", "ACK", "NAK"}
    /\ \A frame \in Frames : frame.kind = "MSG" => frame = Msg(frame.call)
    /\ \A c, d \in Calls : Msg(c) = Msg(d) => c = d
BY DEF Frames, Msg

\* At first nothing is in the line, sent or handled.
LEMMA DuplexInit == Init => DuplexInv
<1> SUFFICES ASSUME Init PROVE DuplexInv
  OBVIOUS
<1>1. Typing
  BY EmptySeq DEF Init, Typing, Sessions, Network
<1>2. AnswersInv
  BY DEF Init, AnswersInv, Queued, Has
<1>3. AckMeansHandled
  BY DEF Init, AckMeansHandled
<1>4. ASSUME NEW e \in Ends PROVE Line(e)
  <2>1. sent[e] = <<>> /\ wire[e] = <<>> /\ writing[e] = <<>> /\ dataQ[e] = <<>>
    BY DEF Init
  <2>2. \A c, q : ~At(e, c, q)
    BY <2>1 DEF At, AtPlace
  <2>3. \A c, d : ~IsSent(e, c) /\ ~SentBefore(e, c, d)
    BY <2>1 DEF IsSent, SentBefore
  <2> QED
    BY <2>2, <2>3 DEF Line, SentOnce, InLine, Ahead, Arrivals, Present
<1>5. Unmade
  BY DEF Init, Unmade
<1> QED
  BY <1>1, <1>2, <1>3, <1>4, <1>5 DEF DuplexInv

----------------------------------------------------------------------------
(* The line moves up *)

\* What a step that is neither a send nor an arrival leaves alone.
Quiet(e) ==
    /\ sent'[e] = sent[e]
    /\ \A c \in Calls : Caller(c) = e =>
          /\ arrival'[c] = arrival[c]
          /\ handler[c] = "none" => handler'[c] = "none"
    /\ \A c \in Calls : call[c] # "idle" => call'[c] # "idle"
    /\ received[Other(e)] <= received'[Other(e)]
    /\ open'[e] => open[e]

\* Every message that is still in the line was at the place `from` says, and so
\* is what was ahead of it.
Moves(e, from) ==
    /\ \A c \in Calls, r \in Int : At(e, c, r)' => At(e, c, from[r])
    /\ \A c \in Calls, q, r \in Int : At(e, c, q)' /\ At(e, c, r)' /\ from[q] = from[r] => q = r
    /\ \A c, d \in Calls, q, r \in Int : At(e, d, r)' /\ q < from[r] /\ At(e, c, q) =>
          \E p \in Int : p < r /\ At(e, c, p)'
    /\ \A c \in Calls, q \in Int : open'[e] /\ At(e, c, q) => \E p \in Int : At(e, c, p)'

\* A step that moves every message up the line, none past another, keeps the
\* line.
LEMMA LineMoves ==
  ASSUME NEW e \in Ends, Typing, Line(e), Quiet(e), NEW from \in [Int -> Int], Moves(e, from), received' \in [Ends -> Nat]
  PROVE  Line(e)'
<1>0. \A c, d : (IsSent(e, c)' <=> IsSent(e, c)) /\ (SentBefore(e, c, d)' <=> SentBefore(e, c, d))
  BY DEF IsSent, SentBefore, Quiet
<1>6. /\ \A c \in Calls : IsSent(e, c) => Caller(c) = e
      /\ \A c, d \in Calls : SentBefore(e, c, d) => IsSent(e, c) /\ IsSent(e, d)
      /\ \A c \in Calls, q \in Int : At(e, c, q) => IsSent(e, c)
  BY DEF Line, SentOnce, InLine, IsSent, SentBefore
<1>1. SentOnce(e)'
  BY <1>0 DEF Line, SentOnce, Quiet
<1>2. InLine(e)'
  <2>1. ASSUME NEW c \in Calls, NEW q \in Int, At(e, c, q)'
        PROVE  IsSent(e, c)' /\ arrival'[c] = 0 /\ handler'[c] = "none"
    <3>1. At(e, c, from[q]) /\ from[q] \in Int
      BY <2>1 DEF Moves
    <3> QED
      BY <1>0, <1>6, <3>1 DEF Line, InLine, Quiet
  <2>2. ASSUME NEW c \in Calls, NEW q \in Int, NEW r \in Int, At(e, c, q)', At(e, c, r)'
        PROVE  q = r
    <3>1. At(e, c, from[q]) /\ At(e, c, from[r]) /\ from[q] \in Int /\ from[r] \in Int
      BY <2>2 DEF Moves
    <3>2. from[q] = from[r]
      BY <3>1 DEF Line, InLine
    <3> QED
      BY <2>2, <3>2 DEF Moves
  <2> QED
    BY <2>1, <2>2 DEF InLine
<1>3. Ahead(e)'
  <2>1. ASSUME NEW c \in Calls, NEW d \in Calls, NEW r \in Int, SentBefore(e, c, d), At(e, d, r)', arrival[c] = 0
        PROVE  \E p \in Int : p < r /\ At(e, c, p)'
    <3>1. At(e, d, from[r]) /\ from[r] \in Int
      BY <2>1 DEF Moves
    <3>2. PICK q \in Int : q < from[r] /\ At(e, c, q)
      BY <2>1, <3>1 DEF Line, Ahead
    <3> QED
      BY <2>1, <3>2 DEF Moves
  <2> QED
    BY <1>0, <1>6, <2>1 DEF Ahead, Quiet
<1>4. Arrivals(e)'
  <2>1. ASSUME NEW c \in Calls, IsSent(e, c) PROVE arrival[c] <= received'[Other(e)]
    <3>1. PICK m \in Nat : m = arrival[c]
      BY DEF Typing, Sessions, Network
    <3>2. PICK r \in Nat, s \in Nat : r = received[Other(e)] /\ s = received'[Other(e)] /\ r <= s
      BY EndsOf DEF Typing, Sessions, Network, Quiet
    <3>3. m <= r
      BY <2>1, <3>1, <3>2 DEF Line, Arrivals
    <3> QED
      BY <3>1, <3>2, <3>3
  <2> QED
    BY <1>0, <1>6, <2>1 DEF Line, Arrivals, Quiet
<1>5. Present(e)'
  BY <1>0, <1>6 DEF Line, Present, Moves, Quiet
<1> QED
  BY <1>1, <1>2, <1>3, <1>4, <1>5 DEF Line

\* The lengths of the three parts of a line.
LEMMA LengthsOf ==
  ASSUME NEW e \in Ends, Typing
  PROVE  \E n, m, k \in Nat : n = Len(wire[e]) /\ m = Len(writing[e]) /\ k = Len(dataQ[e]) /\ (m = 0 \/ m = 1)
<1>1. Len(wire[e]) \in Nat /\ Len(writing[e]) \in Nat /\ Len(dataQ[e]) \in Nat
  BY DEF Typing, Sessions, Network
<1>2. Len(writing[e]) = 0 \/ Len(writing[e]) = 1
  BY EmptySeq DEF Typing, Sessions, Network
<1> QED
  BY <1>1, <1>2

\* Steps that leave the line alone move every message from its own place.
LEMMA Identity == \E f \in [Int -> Int] : \A r \in Int : f[r] = r
<1> DEFINE g == [r \in Int |-> r]
<1>1. g \in [Int -> Int] /\ \A r \in Int : g[r] = r
  OBVIOUS
<1> QED
  BY <1>1

\* Every message keeps its place, or is gone and so is what was behind it.
LEMMA LineKeeps ==
  ASSUME NEW e \in Ends, Typing, Line(e), Quiet(e), received' \in [Ends -> Nat], NEW last \in Int, ~open'[e],
         \A c \in Calls, q \in Int : At(e, c, q)' <=> At(e, c, q) /\ q <= last
  PROVE  Line(e)'
<1>1. PICK from \in [Int -> Int] : \A r \in Int : from[r] = r
  BY Identity
<1>2. Moves(e, from)
  BY <1>1 DEF Moves
<1> QED
  BY <1>2, LineMoves

\* Every message keeps its place.
LEMMA StaysAt ==
  ASSUME NEW e \in Ends, Typing, Line(e), Quiet(e), received' \in [Ends -> Nat],
         \A c \in Calls, q \in Int : At(e, c, q)' <=> At(e, c, q)
  PROVE  Line(e)'
<1>1. PICK from \in [Int -> Int] : \A r \in Int : from[r] = r
  BY Identity
<1>2. Moves(e, from)
  BY <1>1 DEF Moves
<1> QED
  BY <1>2, LineMoves

\* The line of an end that neither writes nor is read from.
LEMMA LineStays ==
  ASSUME NEW e \in Ends, Typing, Line(e), Quiet(e), received' \in [Ends -> Nat],
         wire'[e] = wire[e], writing'[e] = writing[e], dataQ'[e] = dataQ[e]
  PROVE  Line(e)'
<1>1. \A c \in Calls, q \in Int : At(e, c, q)' <=> At(e, c, q)
  BY DEF At, AtPlace
<1> QED
  BY <1>1, StaysAt

\* A session that closes cuts the line off behind the wire.
LEMMA LineCut ==
  ASSUME NEW e \in Ends, Typing, Line(e), Quiet(e), received' \in [Ends -> Nat],
         ~open'[e], wire'[e] = wire[e], writing'[e] = <<>>, dataQ'[e] = <<>>
  PROVE  Line(e)'
<1>1. PICK n \in Nat, m \in Nat, k \in Nat : n = Len(wire[e]) /\ m = Len(writing[e]) /\ k = Len(dataQ[e])
  BY LengthsOf
<1>2. \A c \in Calls, q \in Int : At(e, c, q) <=> AtPlace(e, c, q, n, m, k)
  BY <1>1 DEF At
<1>3. \A c \in Calls, q \in Int : At(e, c, q)' <=> q \in 1..n /\ wire[e][q] = Msg(c)
  <2>1. n = Len(wire'[e]) /\ 0 = Len(writing'[e]) /\ 0 = Len(dataQ'[e])
    BY <1>1
  <2>2. ASSUME NEW c \in Calls, NEW q \in Int
        PROVE  At(e, c, q)' <=> \/ q \in 1..n /\ wire'[e][q] = Msg(c)
                                \/ q = n + 1 /\ writing'[e] = <<Msg(c)>>
                                \/ q - n - 0 \in 1..0 /\ dataQ'[e][q - n - 0] = c
    BY <2>1 DEF At, AtPlace
  <2> QED
    BY <2>2
<1>4. n \in Int /\ \A c \in Calls, q \in Int : At(e, c, q)' <=> At(e, c, q) /\ q <= n
  <2>1. ASSUME NEW c \in Calls, NEW q \in Int, q <= n PROVE q \in 1..n /\ wire[e][q] = Msg(c) <=> AtPlace(e, c, q, n, m, k)
    <3>1. q # n + 1 /\ ~(q - n - m \in 1..k)
      BY <2>1
    <3> QED
      BY <3>1 DEF AtPlace
  <2> QED
    BY <1>2, <1>3, <2>1
<1> QED
  BY <1>4, LineKeeps

\* The places behind `n` move up by one.
Skips(f, n) == \A r \in Int : f[r] = IF r <= n THEN r ELSE r + 1

\* The places of a line from which one is taken out.
LEMMA Skipping ==
  ASSUME NEW n \in Int
  PROVE  \E f \in [Int -> Int] : Skips(f, n)
<1> DEFINE g == [r \in Int |-> IF r <= n THEN r ELSE r + 1]
<1>1. g \in [Int -> Int] /\ \A r \in Int : g[r] = IF r <= n THEN r ELSE r + 1
  OBVIOUS
<1> QED
  BY <1>1 DEF Skips

\* Taking one place out keeps the others apart and in order.
LEMMA SkipsMoves ==
  ASSUME NEW n \in Int, NEW f \in [Int -> Int], Skips(f, n)
  PROVE  /\ \A q, r \in Int : f[q] = f[r] => q = r
         /\ \A q, r \in Int : q < f[r] /\ q # n + 1 => \E p \in Int : p < r /\ f[p] = q
<1>1. ASSUME NEW q \in Int, NEW r \in Int, f[q] = f[r] PROVE q = r
  BY <1>1 DEF Skips
<1>2. ASSUME NEW q \in Int, NEW r \in Int, q < f[r], q # n + 1 PROVE \E p \in Int : p < r /\ f[p] = q
  <2>1. CASE q <= n
    <3>1. f[q] = q /\ q < r
      BY <1>2, <2>1 DEF Skips
    <3> QED
      BY <3>1
  <2>2. CASE q > n + 1
    <3>1. PICK p \in Int : p = q - 1
      OBVIOUS
    <3>2. f[p] = q /\ p < r
      BY <1>2, <2>2, <3>1 DEF Skips
    <3> QED
      BY <3>2
  <2> QED
    BY <1>2, <2>1, <2>2
<1> QED
  BY <1>1, <1>2

\* The place behind `n`, where no message stands, is given up.
LEMMA LineSkips ==
  ASSUME NEW e \in Ends, Typing, Line(e), Quiet(e), received' \in [Ends -> Nat], NEW n \in Int,
         \A c \in Calls : ~At(e, c, n + 1),
         \A c \in Calls, q \in Int : At(e, c, q)' <=> At(e, c, IF q <= n THEN q ELSE q + 1)
  PROVE  Line(e)'
<1>1. PICK from \in [Int -> Int] : Skips(from, n)
  BY Skipping
<1>0. /\ \A q, r \in Int : from[q] = from[r] => q = r
      /\ \A q, r \in Int : q < from[r] /\ q # n + 1 => \E p \in Int : p < r /\ from[p] = q
  BY <1>1, SkipsMoves
<1>2. \A c \in Calls, q \in Int : At(e, c, q)' <=> At(e, c, from[q])
  BY <1>1 DEF Skips
<1>3. ASSUME NEW c \in Calls, NEW q \in Int, NEW r \in Int, q < from[r], At(e, c, q)
      PROVE  \E p \in Int : p < r /\ At(e, c, p)'
  <2>1. q # n + 1
    BY <1>3
  <2>2. PICK p \in Int : p < r /\ from[p] = q
    BY <1>0, <1>3, <2>1
  <2> QED
    BY <1>2, <1>3, <2>2
<1>5. ASSUME NEW c \in Calls, NEW q \in Int, At(e, c, q) PROVE \E p \in Int : At(e, c, p)'
  <2>1. PICK r \in Int : r = q + 1
    OBVIOUS
  <2>2. q < from[r]
    BY <1>1, <2>1 DEF Skips
  <2> QED
    BY <1>3, <1>5, <2>2
<1>4. Moves(e, from)
  BY <1>0, <1>2, <1>3, <1>5 DEF Moves
<1> QED
  BY <1>4, LineMoves

\* An answer takes the place behind `n`.
LEMMA LineSpreads ==
  ASSUME NEW e \in Ends, Typing, Line(e), Quiet(e), received' \in [Ends -> Nat], NEW n \in Int,
         \A c \in Calls : ~At(e, c, n + 1)',
         \A c \in Calls, q \in Int : q # n + 1 => (At(e, c, q)' <=> At(e, c, IF q <= n THEN q ELSE q - 1))
  PROVE  Line(e)'
<1>1. PICK from \in [Int -> Int] : \A r \in Int : from[r] = IF r <= n THEN r ELSE r - 1
  <2> DEFINE g == [r \in Int |-> IF r <= n THEN r ELSE r - 1]
  <2>1. g \in [Int -> Int] /\ \A r \in Int : g[r] = IF r <= n THEN r ELSE r - 1
    OBVIOUS
  <2> QED
    BY <2>1
<1>2. \A c \in Calls, q \in Int : q # n + 1 => (At(e, c, q)' <=> At(e, c, from[q]))
  BY <1>1
<1>3. ASSUME NEW q \in Int, NEW r \in Int, q # n + 1, r # n + 1, from[q] = from[r] PROVE q = r
  BY <1>1, <1>3
<1>4. ASSUME NEW c \in Calls, NEW q \in Int, NEW r \in Int, r # n + 1, q < from[r], At(e, c, q)
      PROVE  \E p \in Int : p < r /\ At(e, c, p)'
  <2>1. PICK p \in Int : p < r /\ p # n + 1 /\ from[p] = q
    <3>1. CASE q <= n
      <4>1. q < r /\ q # n + 1 /\ from[q] = q
        BY <1>1, <1>4, <3>1
      <4> QED
        BY <4>1
    <3>2. CASE q > n
      <4>1. PICK p \in Int : p = q + 1
        OBVIOUS
      <4>2. p < r /\ p # n + 1 /\ from[p] = q
        BY <1>1, <1>4, <3>2, <4>1
      <4> QED
        BY <4>2
    <3> QED
      BY <3>1, <3>2
  <2> QED
    BY <1>2, <1>4, <2>1
<1>5. ASSUME NEW c \in Calls, NEW q \in Int, At(e, c, q) PROVE \E p \in Int : At(e, c, p)'
  <2>1. PICK r \in Int : r # n + 1 /\ q < from[r]
    <3>1. PICK r \in Int : r > q + 1 /\ r > n + 1
      <4>1. CASE q <= n
        <5>1. n + 2 \in Int /\ n + 2 > q + 1 /\ n + 2 > n + 1
          BY <4>1
        <5> QED
          BY <5>1
      <4>2. CASE q > n
        <5>1. q + 2 \in Int /\ q + 2 > q + 1 /\ q + 2 > n + 1
          BY <4>2
        <5> QED
          BY <5>1
      <4> QED
        BY <4>1, <4>2
    <3>2. from[r] = r - 1 /\ r # n + 1 /\ q < r - 1
      BY <1>1, <3>1
    <3> QED
      BY <3>2
  <2> QED
    BY <1>4, <1>5, <2>1
<1>6. Moves(e, from)
  <2>1. \A c \in Calls, r \in Int : At(e, c, r)' => r # n + 1 /\ At(e, c, from[r])
    BY <1>2
  <2>2. ASSUME NEW c \in Calls, NEW d \in Calls, NEW q \in Int, NEW r \in Int,
               At(e, d, r)', q < from[r], At(e, c, q)
        PROVE  \E p \in Int : p < r /\ At(e, c, p)'
    BY <1>4, <2>1, <2>2
  <2>3. ASSUME NEW c \in Calls, NEW q \in Int, NEW r \in Int, At(e, c, q)', At(e, c, r)', from[q] = from[r]
        PROVE  q = r
    BY <1>3, <2>1, <2>3
  <2> QED
    BY <1>5, <2>1, <2>2, <2>3 DEF Moves
<1> QED
  BY <1>6, LineMoves

----------------------------------------------------------------------------
(* What each kind of step does to the line *)

\* The writer takes the first message of the queue: it keeps its place.
LEMMA LineTakes ==
  ASSUME NEW e \in Ends, Typing, Line(e), Quiet(e), received' \in [Ends -> Nat],
         writing[e] = <<>>, dataQ[e] # <<>>,
         wire'[e] = wire[e], writing'[e] = <<Msg(Head(dataQ[e]))>>, dataQ'[e] = Tail(dataQ[e])
  PROVE  Line(e)'
<1>1. PICK n \in Nat, k \in Nat : n = Len(wire[e]) /\ 0 = Len(writing[e]) /\ k = Len(dataQ[e]) /\ k > 0
  <2>1. PICK n \in Nat, m \in Nat, k \in Nat : n = Len(wire[e]) /\ m = Len(writing[e]) /\ k = Len(dataQ[e])
    BY LengthsOf
  <2>2. m = 0
    BY <2>1
  <2>3. k > 0
    <3>1. k # 0
      BY <2>1, EmptySeq DEF Typing, Sessions, Network
    <3> QED
      BY <3>1
  <2> QED
    BY <2>1, <2>2, <2>3
<1>2. PICK data \in Seq(Calls) : data = dataQ[e]
  BY DEF Typing, Sessions, Network
<1>3. /\ n = Len(wire'[e]) /\ 1 = Len(writing'[e]) /\ k - 1 = Len(dataQ'[e])
      /\ \A i \in 1..k - 1 : dataQ'[e][i] = data[i + 1]
      /\ writing'[e] = <<Msg(data[1])>> /\ data[1] \in Calls
  BY <1>1, <1>2, HeadTailProperties
<1>4. ASSUME NEW c \in Calls, NEW q \in Int PROVE At(e, c, q)' <=> At(e, c, q)
  <2>0. PICK i \in Int : i = q - n - 1
    OBVIOUS
  <2>1. At(e, c, q) <=> (q \in 1..n /\ wire[e][q] = Msg(c)) \/ (q - n \in 1..k /\ data[q - n] = c)
    <3>1. At(e, c, q) <=> AtPlace(e, c, q, n, 0, k)
      BY <1>1 DEF At
    <3>2. writing[e] # <<Msg(c)>>
      OBVIOUS
    <3>3. q - n - 0 = q - n
      OBVIOUS
    <3> QED
      BY <1>2, <3>1, <3>2, <3>3 DEF AtPlace
  <2>2. At(e, c, q)' <=> \/ q \in 1..n /\ wire[e][q] = Msg(c)
                         \/ q = n + 1 /\ data[1] = c
                         \/ i \in 1..k - 1 /\ dataQ'[e][i] = c
    <3>1. writing'[e] = <<Msg(c)>> <=> data[1] = c
      <4>1. <<Msg(data[1])>> = <<Msg(c)>> <=> Msg(data[1]) = Msg(c)
        OBVIOUS
      <4> QED
        BY <1>3, <4>1, FramesOf
    <3>2. At(e, c, q)' <=> \/ q \in 1..n /\ wire'[e][q] = Msg(c)
                           \/ q = n + 1 /\ writing'[e] = <<Msg(c)>>
                           \/ q - n - 1 \in 1..k - 1 /\ dataQ'[e][q - n - 1] = c
      BY <1>3 DEF At, AtPlace
    <3> QED
      BY <2>0, <3>1, <3>2
  <2>3. CASE q <= n
    BY <2>0, <2>1, <2>2, <2>3
  <2>4. CASE q = n + 1
    <3>1. q - n = 1 /\ ~(i \in 1..k - 1) /\ 1 \in 1..k
      BY <1>1, <2>0, <2>4
    <3> QED
      BY <2>1, <2>2, <2>4, <3>1
  <2>5. CASE q > n + 1
    <3>2. q - n = i + 1 /\ i >= 1 /\ (i \in 1..k - 1 <=> i + 1 \in 1..k) /\ ~(q \in 1..n)
      BY <2>0, <2>5
    <3>3. i \in 1..k - 1 => dataQ'[e][i] = data[i + 1]
      BY <1>3
    <3>4. At(e, c, q)' <=> i \in 1..k - 1 /\ dataQ'[e][i] = c
      <4>1. q # n + 1 /\ ~(q \in 1..n)
        BY <2>5
      <4> QED
        BY <2>2, <4>1, Zenon
    <3>5. At(e, c, q) <=> i + 1 \in 1..k /\ data[i + 1] = c
      BY <2>1, <3>2
    <3> QED
      BY <3>2, <3>3, <3>4, <3>5
  <2> QED
    BY <2>3, <2>4, <2>5
<1> QED
  BY <1>4, StaysAt

\* The writer takes an answer: the messages of the queue move back.
LEMMA LineLetsIn ==
  ASSUME NEW e \in Ends, Typing, Line(e), Quiet(e), received' \in [Ends -> Nat],
         NEW answer \in Answers, writing[e] = <<>>,
         wire'[e] = wire[e], writing'[e] = <<answer>>, dataQ'[e] = dataQ[e]
  PROVE  Line(e)'
<1>1. PICK n \in Nat, k \in Nat : n = Len(wire[e]) /\ 0 = Len(writing[e]) /\ k = Len(dataQ[e])
  BY LengthsOf
<1>2. n = Len(wire'[e]) /\ 1 = Len(writing'[e]) /\ k = Len(dataQ'[e])
  BY <1>1
<1>3. ASSUME NEW c \in Calls, NEW q \in Int
      PROVE  At(e, c, q) <=> (q \in 1..n /\ wire[e][q] = Msg(c)) \/ (q - n \in 1..k /\ dataQ[e][q - n] = c)
  <2>1. At(e, c, q) <=> AtPlace(e, c, q, n, 0, k)
    BY <1>1 DEF At
  <2>2. writing[e] # <<Msg(c)>> /\ q - n - 0 = q - n
    OBVIOUS
  <2> QED
    BY <2>1, <2>2 DEF AtPlace
<1>4. ASSUME NEW c \in Calls, NEW q \in Int
      PROVE  At(e, c, q)' <=> (q \in 1..n /\ wire[e][q] = Msg(c)) \/ (q - n - 1 \in 1..k /\ dataQ[e][q - n - 1] = c)
  <2>1. writing'[e] # <<Msg(c)>>
    <3>1. answer # Msg(c)
      BY FramesOf DEF Answers
    <3>2. <<answer>> = <<Msg(c)>> => answer = Msg(c)
      OBVIOUS
    <3> QED
      BY <3>1, <3>2
  <2> QED
    BY <1>2, <2>1 DEF At, AtPlace
<1>5. ASSUME NEW c \in Calls PROVE ~At(e, c, n + 1)'
  <2>1. n + 1 \in Int /\ ~(n + 1 \in 1..n) /\ ~(n + 1 - n - 1 \in 1..k)
    OBVIOUS
  <2> QED
    BY <1>4, <2>1
<1>6. ASSUME NEW c \in Calls, NEW q \in Int, q # n + 1
      PROVE  At(e, c, q)' <=> At(e, c, IF q <= n THEN q ELSE q - 1)
  <2>1. CASE q <= n
    <3>1. ~(q - n \in 1..k) /\ ~(q - n - 1 \in 1..k)
      BY <2>1
    <3> QED
      BY <1>3, <1>4, <2>1, <3>1
  <2>2. CASE q > n + 1
    <3>1. PICK p \in Int : p = q - 1
      OBVIOUS
    <3>2. q - n - 1 = p - n /\ ~(q \in 1..n) /\ ~(p \in 1..n) /\ ~(q <= n)
      BY <2>2, <3>1
    <3> QED
      BY <1>3, <1>4, <3>1, <3>2
  <2> QED
    BY <1>6, <2>1, <2>2
<1> QED
  <2>1. /\ n \in Int
        /\ \A c \in Calls : ~At(e, c, n + 1)'
        /\ \A c \in Calls, q \in Int : q # n + 1 => (At(e, c, q)' <=> At(e, c, IF q <= n THEN q ELSE q - 1))
    BY <1>5, <1>6
  <2> QED
    BY <2>1, LineSpreads

\* The frame that is being written is on the wire in the same place.
LEMMA LineWritten ==
  ASSUME NEW e \in Ends, Typing, Line(e), Quiet(e), received' \in [Ends -> Nat],
         NEW frame \in Frames, writing[e] = <<frame>>,
         wire'[e] = Append(wire[e], frame), writing'[e] = <<>>, dataQ'[e] = dataQ[e]
  PROVE  Line(e)'
<1>1. PICK n \in Nat, k \in Nat : n = Len(wire[e]) /\ 1 = Len(writing[e]) /\ k = Len(dataQ[e])
  <2>1. PICK n \in Nat, m \in Nat, k \in Nat : n = Len(wire[e]) /\ m = Len(writing[e]) /\ k = Len(dataQ[e])
    BY LengthsOf
  <2>2. m = 1
    BY <2>1
  <2> QED
    BY <2>1, <2>2
<1>2. PICK w \in Seq(Frames) : w = wire[e]
  BY DEF Typing, Sessions, Network
<1>3. /\ n + 1 = Len(wire'[e]) /\ 0 = Len(writing'[e]) /\ k = Len(dataQ'[e])
      /\ \A i \in 1..n : wire'[e][i] = w[i]
      /\ wire'[e][n + 1] = frame
  BY <1>1, <1>2, AppendProperties
<1>4. ASSUME NEW c \in Calls, NEW q \in Int PROVE At(e, c, q)' <=> At(e, c, q)
  <2>1. At(e, c, q) <=> \/ q \in 1..n /\ w[q] = Msg(c)
                        \/ q = n + 1 /\ frame = Msg(c)
                        \/ q - n - 1 \in 1..k /\ dataQ[e][q - n - 1] = c
    <3>1. At(e, c, q) <=> AtPlace(e, c, q, n, 1, k)
      BY <1>1 DEF At
    <3>2. writing[e] = <<Msg(c)>> <=> frame = Msg(c)
      OBVIOUS
    <3> QED
      BY <1>2, <3>1, <3>2 DEF AtPlace
  <2>2. At(e, c, q)' <=> \/ q \in 1..n + 1 /\ wire'[e][q] = Msg(c)
                         \/ q - n - 1 \in 1..k /\ dataQ[e][q - n - 1] = c
    <3>1. writing'[e] # <<Msg(c)>>
      OBVIOUS
    <3>2. At(e, c, q)' <=> \/ q \in 1..n + 1 /\ wire'[e][q] = Msg(c)
                           \/ q - (n + 1) - 0 \in 1..k /\ dataQ[e][q - (n + 1) - 0] = c
      BY <1>3, <3>1 DEF At, AtPlace
    <3>3. q - (n + 1) - 0 = q - n - 1
      OBVIOUS
    <3> QED
      BY <3>2, <3>3
  <2>3. q \in 1..n + 1 <=> q \in 1..n \/ q = n + 1
    OBVIOUS
  <2> QED
    BY <1>3, <2>1, <2>2, <2>3
<1> QED
  BY <1>4, StaysAt

\* The first frame of the wire is read: the line moves up.
LEMMA AtAfterRead ==
  ASSUME NEW e \in Ends, Typing, wire[e] # <<>>,
         wire'[e] = Tail(wire[e]), writing'[e] = writing[e], dataQ'[e] = dataQ[e]
  PROVE  /\ \A c \in Calls, q \in Int : At(e, c, q)' <=> q >= 1 /\ At(e, c, q + 1)
         /\ \A c \in Calls : At(e, c, 1) <=> Head(wire[e]) = Msg(c)
         /\ \A c \in Calls, q \in Int : q < 1 => ~At(e, c, q)
<1>1. PICK n \in Nat, m \in Nat, k \in Nat :
        n = Len(wire[e]) /\ m = Len(writing[e]) /\ k = Len(dataQ[e])
  BY LengthsOf
<1>2. n > 0
  <2>1. n # 0
    BY <1>1, EmptySeq DEF Typing, Sessions, Network
  <2> QED
    BY <2>1
<1>3. PICK w \in Seq(Frames) : w = wire[e]
  BY DEF Typing, Sessions, Network
<1>4. /\ n - 1 = Len(wire'[e]) /\ m = Len(writing'[e]) /\ k = Len(dataQ'[e])
      /\ \A i \in 1..n - 1 : wire'[e][i] = w[i + 1]
      /\ Head(wire[e]) = w[1]
  BY <1>1, <1>2, <1>3, HeadTailProperties
<1>5. ASSUME NEW c \in Calls, NEW q \in Int
      PROVE  At(e, c, q) <=> \/ q \in 1..n /\ w[q] = Msg(c)
                             \/ q = n + 1 /\ writing[e] = <<Msg(c)>>
                             \/ q - n - m \in 1..k /\ dataQ[e][q - n - m] = c
  BY <1>1, <1>3 DEF At, AtPlace
<1>6. ASSUME NEW c \in Calls, NEW q \in Int, NEW p \in Int, p = q + 1
      PROVE  At(e, c, q)' <=> \/ q \in 1..n - 1 /\ w[p] = Msg(c)
                              \/ q = n /\ writing[e] = <<Msg(c)>>
                              \/ p - n - m \in 1..k /\ dataQ[e][p - n - m] = c
  <2>1. At(e, c, q)' <=> \/ q \in 1..n - 1 /\ wire'[e][q] = Msg(c)
                         \/ q = n - 1 + 1 /\ writing[e] = <<Msg(c)>>
                         \/ q - (n - 1) - m \in 1..k /\ dataQ[e][q - (n - 1) - m] = c
    BY <1>4 DEF At, AtPlace
  <2>2. q - (n - 1) - m = p - n - m /\ n - 1 + 1 = n
    BY <1>6
  <2>3. q \in 1..n - 1 => wire'[e][q] = w[p]
    BY <1>4, <1>6
  <2> QED
    BY <2>1, <2>2, <2>3
<1>7. ASSUME NEW c \in Calls, NEW q \in Int PROVE At(e, c, q)' <=> q >= 1 /\ At(e, c, q + 1)
  <2>1. PICK p \in Int : p = q + 1
    OBVIOUS
  <2>2. (q \in 1..n - 1 <=> p \in 1..n /\ q >= 1) /\ (q = n <=> p = n + 1) /\ (q = n => q >= 1)
    BY <1>2, <2>1
  <2>3. p - n - m \in 1..k => q >= 1
    BY <1>2, <2>1
  <2>4. At(e, c, q)' <=> \/ q \in 1..n - 1 /\ w[p] = Msg(c)
                         \/ q = n /\ writing[e] = <<Msg(c)>>
                         \/ p - n - m \in 1..k /\ dataQ[e][p - n - m] = c
    BY <1>6, <2>1
  <2>5. At(e, c, p) <=> \/ p \in 1..n /\ w[p] = Msg(c)
                        \/ p = n + 1 /\ writing[e] = <<Msg(c)>>
                        \/ p - n - m \in 1..k /\ dataQ[e][p - n - m] = c
    BY <1>5
  <2> QED
    BY <2>1, <2>2, <2>3, <2>4, <2>5
<1>8. ASSUME NEW c \in Calls PROVE At(e, c, 1) <=> Head(wire[e]) = Msg(c)
  <2>1. 1 \in 1..n /\ 1 # n + 1 /\ ~(1 - n - m \in 1..k)
    BY <1>2
  <2>2. At(e, c, 1) <=> \/ 1 \in 1..n /\ w[1] = Msg(c)
                        \/ 1 = n + 1 /\ writing[e] = <<Msg(c)>>
                        \/ 1 - n - m \in 1..k /\ dataQ[e][1 - n - m] = c
    BY <1>5
  <2> QED
    BY <1>4, <2>1, <2>2
<1>9. ASSUME NEW c \in Calls, NEW q \in Int, q < 1 PROVE ~At(e, c, q)
  <2>1. ~(q \in 1..n) /\ q # n + 1 /\ ~(q - n - m \in 1..k)
    BY <1>2, <1>9
  <2> QED
    BY <1>5, <2>1
<1> QED
  BY <1>7, <1>8, <1>9

\* An answer is read off the wire.
LEMMA LineAnswered ==
  ASSUME NEW e \in Ends, Typing, Line(e), Quiet(e), received' \in [Ends -> Nat],
         wire[e] # <<>>, Head(wire[e]).kind # "MSG",
         wire'[e] = Tail(wire[e]), writing'[e] = writing[e], dataQ'[e] = dataQ[e]
  PROVE  Line(e)'
<1>1. /\ \A c \in Calls, q \in Int : At(e, c, q)' <=> q >= 1 /\ At(e, c, q + 1)
      /\ \A c \in Calls : At(e, c, 1) <=> Head(wire[e]) = Msg(c)
      /\ \A c \in Calls, q \in Int : q < 1 => ~At(e, c, q)
  BY AtAfterRead
<1>2. \A c \in Calls : ~At(e, c, 0 + 1)
  BY <1>1, FramesOf
<1>3. ASSUME NEW c \in Calls, NEW q \in Int PROVE At(e, c, q)' <=> At(e, c, IF q <= 0 THEN q ELSE q + 1)
  <2>1. CASE q <= 0
    <3>1. q < 1 /\ ~(q >= 1)
      BY <2>1
    <3> QED
      BY <1>1, <2>1, <3>1
  <2>2. CASE q > 0
    <3>1. q >= 1 /\ ~(q <= 0)
      BY <2>2
    <3> QED
      BY <1>1, <3>1
  <2> QED
    BY <2>1, <2>2
<1> QED
  <2>1. /\ 0 \in Int
        /\ \A c \in Calls : ~At(e, c, 0 + 1)
        /\ \A c \in Calls, q \in Int : At(e, c, q)' <=> At(e, c, IF q <= 0 THEN q ELSE q + 1)
    BY <1>2, <1>3
  <2> QED
    BY <2>1, LineSkips

\* A message is read off the wire: it was the first of the line, and what was
\* sent before it has arrived.
LEMMA LineArrives ==
  ASSUME NEW e \in Ends, Typing, Line(e), NEW m \in Calls, wire[e] # <<>>, Head(wire[e]) = Msg(m),
         wire'[e] = Tail(wire[e]), writing'[e] = writing[e], dataQ'[e] = dataQ[e],
         sent'[e] = sent[e], received'[Other(e)] = received[Other(e)] + 1,
         arrival' = [arrival EXCEPT ![m] = received[Other(e)] + 1],
         \A c \in Calls : c # m /\ handler[c] = "none" => handler'[c] = "none",
         \A c \in Calls : call[c] # "idle" => call'[c] # "idle", open'[e] => open[e]
  PROVE  Line(e)'
<1>1. /\ \A c \in Calls, q \in Int : At(e, c, q)' <=> q >= 1 /\ At(e, c, q + 1)
      /\ \A c \in Calls : At(e, c, 1) <=> Head(wire[e]) = Msg(c)
      /\ \A c \in Calls, q \in Int : q < 1 => ~At(e, c, q)
  BY AtAfterRead
<1>2. PICK now \in Nat : now = received[Other(e)]
  BY EndsOf DEF Typing, Sessions, Network
<1>3. \A c, d : (IsSent(e, c)' <=> IsSent(e, c)) /\ (SentBefore(e, c, d)' <=> SentBefore(e, c, d))
  BY DEF IsSent, SentBefore
<1>4. /\ At(e, m, 1) /\ arrival[m] = 0 /\ IsSent(e, m)
      /\ \A q \in Int : At(e, m, q) => q = 1
  BY <1>1 DEF Line, InLine
<1>5. /\ arrival'[m] = now + 1 /\ \A c \in Calls : c # m => arrival'[c] = arrival[c]
      /\ received'[Other(e)] = now + 1 /\ arrival \in [Calls -> Nat]
  BY <1>2 DEF Typing, Sessions, Network
<1>6. SentOnce(e)'
  BY <1>3 DEF Line, SentOnce
<1>7. InLine(e)'
  <2>1. ASSUME NEW c \in Calls, NEW q \in Int, At(e, c, q)'
        PROVE  IsSent(e, c)' /\ arrival'[c] = 0 /\ handler'[c] = "none"
    <3>1. PICK p \in Int : p = q + 1 /\ p # 1 /\ At(e, c, p)
      <4>1. q >= 1 /\ At(e, c, q + 1)
        BY <1>1, <2>1
      <4>2. q + 1 \in Int /\ q + 1 # 1
        BY <4>1
      <4> QED
        BY <4>1, <4>2
    <3>2. c # m
      BY <1>4, <3>1
    <3> QED
      BY <1>3, <1>5, <3>1, <3>2 DEF Line, InLine
  <2>2. ASSUME NEW c \in Calls, NEW q \in Int, NEW r \in Int, At(e, c, q)', At(e, c, r)' PROVE q = r
    <3>1. At(e, c, q + 1) /\ At(e, c, r + 1) /\ q + 1 \in Int /\ r + 1 \in Int
      BY <1>1, <2>2
    <3>2. q + 1 = r + 1
      BY <3>1 DEF Line, InLine
    <3> QED
      BY <3>2
  <2> QED
    BY <2>1, <2>2 DEF InLine
<1>8. Ahead(e)'
  <2>1. ASSUME NEW c \in Calls, NEW d \in Calls, NEW r \in Int, SentBefore(e, c, d), At(e, d, r)', c # m, arrival[c] = 0
        PROVE  \E q \in Int : q < r /\ At(e, c, q)'
    <3>1. At(e, d, r + 1) /\ r + 1 \in Int
      BY <1>1, <2>1
    <3>2. PICK p \in Int : p < r + 1 /\ At(e, c, p)
      BY <2>1, <3>1 DEF Line, Ahead
    <3>3. p # 1
      <4>1. ASSUME p = 1 PROVE FALSE
        <5>1. Msg(c) = Msg(m)
          BY <1>1, <3>2, <4>1
        <5> QED
          BY <2>1, <5>1, FramesOf
      <4> QED
        BY <4>1
    <3>4. ~(p < 1)
      BY <1>1, <3>2
    <3>5. PICK q \in Int : p = q + 1 /\ q >= 1 /\ q < r
      <4>1. p - 1 \in Int /\ p = p - 1 + 1 /\ p - 1 >= 1 /\ p - 1 < r
        BY <3>2, <3>3, <3>4
      <4> QED
        BY <4>1
    <3> QED
      BY <1>1, <3>2, <3>5
  <2>2. ASSUME NEW c \in Calls, arrival'[c] = 0 PROVE c # m /\ arrival[c] = 0
    BY <1>5, <2>2
  <2> QED
    BY <1>3, <2>1, <2>2 DEF Ahead
<1>9. Arrivals(e)'
  <2>1. ASSUME NEW c \in Calls, IsSent(e, c) PROVE arrival[c] <= now
    BY <1>2, <2>1 DEF Line, Arrivals
  <2>2. ASSUME NEW c \in Calls, IsSent(e, c) PROVE arrival'[c] <= now + 1
    <3>1. CASE c = m
      BY <1>5, <3>1
    <3>2. CASE c # m
      <4>1. PICK a \in Nat : a = arrival[c]
        BY <1>5
      <4>2. a <= now
        BY <2>1, <2>2, <4>1
      <4> QED
        BY <1>5, <3>2, <4>1, <4>2
    <3> QED
      BY <3>1, <3>2
  <2>3. ASSUME NEW c \in Calls, NEW d \in Calls, SentBefore(e, c, d), arrival'[d] # 0
        PROVE  arrival'[c] # 0 /\ arrival'[c] < arrival'[d]
    <3>1. IsSent(e, c) /\ IsSent(e, d)
      BY <2>3 DEF IsSent, SentBefore
    <3>2. CASE d = m
      <4>1. c # m
        BY <2>3, <3>1, <3>2 DEF Line, SentOnce
      <4>2. arrival[c] # 0
        <5>1. ASSUME arrival[c] = 0 PROVE FALSE
          <6>1. PICK q \in Int : q < 1 /\ At(e, c, q)
            BY <1>4, <2>3, <3>2, <5>1 DEF Line, Ahead
          <6> QED
            BY <1>1, <6>1
        <5> QED
          BY <5>1
      <4>3. PICK a \in Nat : a = arrival[c]
        BY <1>5
      <4>4. a <= now
        BY <2>1, <3>1, <4>3
      <4> QED
        BY <1>5, <3>2, <4>1, <4>2, <4>3, <4>4
    <3>3. CASE d # m
      <4>1. arrival[d] # 0
        BY <1>5, <2>3, <3>3
      <4>2. arrival[c] # 0 /\ arrival[c] < arrival[d]
        BY <2>3, <4>1 DEF Line, Arrivals
      <4>3. c # m
        BY <1>4, <4>2
      <4> QED
        BY <1>5, <3>3, <4>2, <4>3
    <3> QED
      BY <3>2, <3>3
  <2> QED
    BY <1>3, <1>5, <2>2, <2>3 DEF Arrivals
<1>10. Present(e)'
  <2>1. ASSUME NEW c \in Calls, open'[e], IsSent(e, c), c # m, arrival[c] = 0
        PROVE  \E p \in Int : At(e, c, p)'
    <3>1. PICK q \in Int : At(e, c, q)
      BY <2>1 DEF Line, Present
    <3>2. q # 1
      <4>1. ASSUME q = 1 PROVE FALSE
        <5>1. Msg(c) = Msg(m)
          BY <1>1, <3>1, <4>1
        <5> QED
          BY <2>1, <5>1, FramesOf
      <4> QED
        BY <4>1
    <3>3. ~(q < 1)
      BY <1>1, <3>1
    <3>4. PICK p \in Int : q = p + 1 /\ p >= 1
      <4>1. q - 1 \in Int /\ q = q - 1 + 1 /\ q - 1 >= 1
        BY <3>2, <3>3
      <4> QED
        BY <4>1
    <3> QED
      BY <1>1, <3>1, <3>4
  <2>2. ASSUME NEW c \in Calls, arrival'[c] = 0 PROVE c # m /\ arrival[c] = 0
    BY <1>5, <2>2
  <2> QED
    BY <1>3, <2>1, <2>2 DEF Present
<1> QED
  BY <1>6, <1>7, <1>8, <1>9, <1>10 DEF Line

\* A message is sent: it stands behind all others.
LEMMA LineGrows ==
  ASSUME NEW m \in Calls, NEW e \in Ends, e = Caller(m), Typing, Line(e), Unmade, call[m] = "idle", open[e],
         sent' = [sent EXCEPT ![e] = Append(@, m)], dataQ' = [dataQ EXCEPT ![e] = Append(@, m)],
         call' = [call EXCEPT ![m] = "waiting"],
         wire' = wire, writing' = writing, arrival' = arrival, handler' = handler,
         received' = received, open' = open
  PROVE  Line(e)'
<1>1. PICK n \in Nat, w \in Nat, k \in Nat :
        n = Len(wire[e]) /\ w = Len(writing[e]) /\ k = Len(dataQ[e]) /\ (w = 0 \/ w = 1)
  BY LengthsOf
<1>2. PICK data \in Seq(Calls), log \in Seq(Calls), s \in Nat : data = dataQ[e] /\ log = sent[e] /\ s = Len(sent[e])
  <2>1. dataQ[e] \in Seq(Calls) /\ sent[e] \in Seq(Calls)
    BY DEF Typing, Sessions, Network
  <2>2. Len(sent[e]) \in Nat
    BY <2>1
  <2> QED
    BY <2>1, <2>2
<1>3. PICK end \in Int : end = n + w + k + 1
  OBVIOUS
<1>4. /\ n = Len(wire'[e]) /\ w = Len(writing'[e]) /\ k + 1 = Len(dataQ'[e])
      /\ \A i \in 1..k : dataQ'[e][i] = data[i]
      /\ dataQ'[e][k + 1] = m
  BY <1>1, <1>2, AppendProperties DEF Typing, Sessions, Network
<1>5. /\ s + 1 = Len(sent'[e])
      /\ \A i \in 1..s : sent'[e][i] = log[i]
      /\ sent'[e][s + 1] = m
  BY <1>2, AppendProperties DEF Typing, Sessions, Network
<1>6. ~IsSent(e, m)
  BY DEF Line, SentOnce
<1>7. ASSUME NEW c \in Calls PROVE IsSent(e, c)' <=> IsSent(e, c) \/ c = m
  <2>1. IsSent(e, c)' <=> \E i \in 1..s + 1 : sent'[e][i] = c
    BY <1>5 DEF IsSent
  <2>2. IsSent(e, c) <=> \E i \in 1..s : log[i] = c
    BY <1>2 DEF IsSent
  <2>3. \A i \in 1..s + 1 : i \in 1..s \/ i = s + 1
    OBVIOUS
  <2>4. s + 1 \in 1..s + 1 /\ \A i \in 1..s : i \in 1..s + 1
    OBVIOUS
  <2> QED
    BY <1>5, <2>1, <2>2, <2>3, <2>4
<1>8. ASSUME NEW c \in Calls, NEW d \in Calls
      PROVE  SentBefore(e, c, d)' <=> SentBefore(e, c, d) \/ (IsSent(e, c) /\ d = m)
  <2>1. SentBefore(e, c, d)' <=> \E i, j \in 1..s + 1 : i < j /\ sent'[e][i] = c /\ sent'[e][j] = d
    BY <1>5 DEF SentBefore
  <2>2. /\ IsSent(e, c) <=> \E i \in 1..s : log[i] = c
        /\ SentBefore(e, c, d) <=> \E i, j \in 1..s : i < j /\ log[i] = c /\ log[j] = d
    BY <1>2 DEF IsSent, SentBefore
  <2>3. ASSUME SentBefore(e, c, d) PROVE SentBefore(e, c, d)'
    <3>1. PICK i \in 1..s, j \in 1..s : i < j /\ log[i] = c /\ log[j] = d
      BY <2>2, <2>3
    <3>2. i \in 1..s + 1 /\ j \in 1..s + 1
      OBVIOUS
    <3> QED
      BY <1>5, <2>1, <3>1, <3>2
  <2>4. ASSUME IsSent(e, c), d = m PROVE SentBefore(e, c, d)'
    <3>1. PICK i \in 1..s : log[i] = c
      BY <2>2, <2>4
    <3>2. i \in 1..s + 1 /\ s + 1 \in 1..s + 1 /\ i < s + 1
      OBVIOUS
    <3> QED
      BY <1>5, <2>1, <2>4, <3>1, <3>2
  <2>5. ASSUME SentBefore(e, c, d)' PROVE SentBefore(e, c, d) \/ (IsSent(e, c) /\ d = m)
    <3>1. PICK i \in 1..s + 1, j \in 1..s + 1 : i < j /\ sent'[e][i] = c /\ sent'[e][j] = d
      BY <2>1, <2>5
    <3>2. i \in 1..s /\ (j \in 1..s \/ j = s + 1)
      BY <3>1
    <3>3. CASE j \in 1..s
      BY <1>5, <2>2, <3>1, <3>2, <3>3
    <3>4. CASE j = s + 1
      BY <1>5, <2>2, <3>1, <3>2, <3>4
    <3> QED
      BY <3>2, <3>3, <3>4
  <2> QED
    BY <2>3, <2>4, <2>5
<1>9. ASSUME NEW c \in Calls, NEW q \in Int
      PROVE  /\ At(e, c, q)' <=> At(e, c, q) \/ (c = m /\ q = end)
             /\ At(e, c, q) => q < end
  <2>0. PICK i \in Int : i = q - n - w
    OBVIOUS
  <2>1. At(e, c, q) <=> \/ q \in 1..n /\ wire[e][q] = Msg(c)
                        \/ q = n + 1 /\ writing[e] = <<Msg(c)>>
                        \/ i \in 1..k /\ data[i] = c
    BY <1>1, <1>2, <2>0 DEF At, AtPlace
  <2>2. At(e, c, q)' <=> \/ q \in 1..n /\ wire[e][q] = Msg(c)
                         \/ q = n + 1 /\ writing[e] = <<Msg(c)>>
                         \/ i \in 1..k + 1 /\ dataQ'[e][i] = c
    BY <1>4, <2>0 DEF At, AtPlace
  <2>3. (i \in 1..k + 1 <=> i \in 1..k \/ i = k + 1) /\ (i = k + 1 <=> q = end) /\ ~(k + 1 \in 1..k)
    BY <1>3, <2>0
  <2>4. (i \in 1..k /\ data[i] = c) \/ (i = k + 1 /\ c = m) <=> i \in 1..k + 1 /\ dataQ'[e][i] = c
    BY <1>4, <2>3
  <2>5. writing[e] = <<Msg(c)>> => w = 1
    BY <1>1
  <2>6. (q \in 1..n => q < end) /\ (q = n + 1 /\ w = 1 => q < end) /\ (i \in 1..k => q < end)
    BY <1>3, <2>0
  <2> QED
    BY <2>1, <2>2, <2>3, <2>4, <2>5, <2>6
<1>10. \A q \in Int : ~At(e, m, q)
  BY <1>6 DEF Line, InLine
<1>11. SentOnce(e)'
  <2>1. \A c \in Calls : call'[c] # "idle" <=> call[c] # "idle" \/ c = m
    BY DEF Typing, Sessions, Network
  <2>2. ASSUME NEW c \in Calls, IsSent(e, c)' PROVE Caller(c) = e /\ call'[c] # "idle" /\ ~SentBefore(e, c, c)'
    <3>1. ~SentBefore(e, c, c)
      BY DEF Line, SentOnce, IsSent, SentBefore
    <3>2. ~SentBefore(e, c, c)'
      BY <1>6, <1>8, <3>1
    <3>3. Caller(c) = e
      BY <1>7, <2>2 DEF Line, SentOnce
    <3>4. call'[c] # "idle"
      BY <1>7, <2>1, <2>2 DEF Line, SentOnce
    <3> QED
      BY <3>2, <3>3, <3>4
  <2> QED
    BY <2>2 DEF SentOnce
<1>12. InLine(e)'
  <2>1. arrival[m] = 0 /\ handler[m] = "none"
    BY DEF Unmade
  <2> QED
    BY <1>7, <1>9, <1>10, <2>1 DEF Line, InLine
<1>13. Ahead(e)'
  <2>1. ASSUME NEW c \in Calls, NEW d \in Calls, NEW r \in Int, SentBefore(e, c, d)', At(e, d, r)', arrival[c] = 0
        PROVE  \E q \in Int : q < r /\ At(e, c, q)'
    <3>1. CASE SentBefore(e, c, d) /\ At(e, d, r)
      BY <1>9, <2>1, <3>1 DEF Line, Ahead
    <3>2. CASE SentBefore(e, c, d) /\ ~At(e, d, r)
      <4>1. d = m
        BY <1>9, <2>1, <3>2
      <4>2. IsSent(e, m)
        BY <3>2, <4>1 DEF IsSent, SentBefore
      <4> QED
        BY <1>6, <4>2
    <3>3. CASE ~SentBefore(e, c, d)
      <4>1. IsSent(e, c) /\ d = m
        BY <1>8, <2>1, <3>3
      <4>2. r = end
        BY <1>9, <1>10, <2>1, <4>1
      <4>3. PICK q \in Int : At(e, c, q)
        BY <2>1, <4>1 DEF Line, Present
      <4> QED
        BY <1>9, <4>2, <4>3
    <3> QED
      BY <3>1, <3>2, <3>3
  <2> QED
    BY <2>1 DEF Ahead
<1>14. Arrivals(e)'
  <2>1. arrival[m] = 0 /\ received[Other(e)] \in Nat
    BY EndsOf DEF Unmade, Typing, Sessions, Network
  <2>2. ASSUME NEW c \in Calls, IsSent(e, c)' PROVE arrival[c] <= received[Other(e)]
    <3>1. CASE c = m
      BY <2>1, <3>1
    <3>2. CASE c # m
      BY <1>7, <2>2, <3>2 DEF Line, Arrivals
    <3> QED
      BY <3>1, <3>2
  <2>3. ASSUME NEW c \in Calls, NEW d \in Calls, SentBefore(e, c, d)', arrival[d] # 0
        PROVE  arrival[c] # 0 /\ arrival[c] < arrival[d]
    BY <1>8, <2>1, <2>3 DEF Line, Arrivals
  <2> QED
    BY <2>2, <2>3 DEF Arrivals
<1>15. Present(e)'
  <2>1. end \in Int /\ At(e, m, end)'
    BY <1>9
  <2> QED
    BY <1>7, <1>9, <2>1 DEF Line, Present
<1> QED
  BY <1>11, <1>12, <1>13, <1>14, <1>15 DEF Line

----------------------------------------------------------------------------
(* What a step leaves as it is *)

\* What is in a sequence after an append and after its head is taken.
LEMMA HasOf ==
  /\ \A x : ~Has(<<>>, x)
  /\ \A x, y : Has(<<y>>, x) => x = y
  /\ \A S : \A s \in Seq(S) : \A x \in S : \A y :
        /\ Has(Append(s, x), y) => Has(s, y) \/ y = x
        /\ s # <<>> => Has(s, Head(s)) /\ Head(s) \in S /\ (Has(Tail(s), y) => Has(s, y))
<1>1. \A x : ~Has(<<>>, x)
  BY DEF Has
<1>2. ASSUME NEW x, NEW y, Has(<<y>>, x) PROVE x = y
  BY <1>2 DEF Has
<1>3. ASSUME NEW S, NEW s \in Seq(S), NEW x \in S, NEW y, Has(Append(s, x), y) PROVE Has(s, y) \/ y = x
  <2>1. PICK n \in Nat : n = Len(s)
    OBVIOUS
  <2>2. Len(Append(s, x)) = n + 1 /\ Append(s, x)[n + 1] = x /\ \A i \in 1..n : Append(s, x)[i] = s[i]
    BY <2>1, AppendProperties
  <2>3. PICK i \in 1..n + 1 : Append(s, x)[i] = y
    BY <1>3, <2>2 DEF Has
  <2>4. i \in 1..n \/ i = n + 1
    OBVIOUS
  <2> QED
    BY <2>1, <2>2, <2>3, <2>4 DEF Has
<1>4. ASSUME NEW S, NEW s \in Seq(S), NEW y, s # <<>> PROVE Has(s, Head(s)) /\ Head(s) \in S /\ (Has(Tail(s), y) => Has(s, y))
  <2>1. PICK n \in Nat : n = Len(s) /\ n > 0
    BY <1>4, EmptySeq
  <2>2. /\ Len(Tail(s)) = n - 1 /\ \A i \in 1..n - 1 : Tail(s)[i] = s[i + 1]
        /\ Head(s) = s[1] /\ 1 \in 1..n
    BY <1>4, <2>1, HeadTailProperties
  <2>3. Head(s) \in S
    BY <2>1, <2>2, ElementOfSeq
  <2>4. ASSUME Has(Tail(s), y) PROVE Has(s, y)
    <3>1. PICK i \in 1..n - 1 : Tail(s)[i] = y
      BY <2>2, <2>4 DEF Has
    <3>2. i + 1 \in 1..n
      OBVIOUS
    <3> QED
      BY <2>1, <2>2, <3>1, <3>2 DEF Has
  <2> QED
    BY <2>1, <2>2, <2>3, <2>4 DEF Has
<1> QED
  BY <1>1, <1>2, <1>3, <1>4

\* A handler that has answered keeps its outcome.
Settled == \A c \in Calls : handler[c] \in {"ok", "error", "refused"} => handler'[c] = handler[c]

\* No call is made and none is answered.
Unanswered ==
    \A c \in Calls :
        /\ call'[c] = "idle" => call[c] = "idle"
        /\ call[c] # "idle" => call'[c] # "idle"
        /\ call'[c] \in {"ok", "nak"} => call'[c] = call[c]

\* No answer becomes wrong if those under way are the old ones or right ones.
LEMMA AnswersKept ==
  ASSUME AnswersInv, Settled,
         \A e \in Ends, frame \in Frames : Queued(e, frame)' => Queued(e, frame) \/ Right(frame)'
  PROVE  AnswersInv'
<1>1. ASSUME NEW e \in Ends, NEW frame \in Frames, Queued(e, frame) PROVE Right(frame)'
  BY <1>1, FramesOf DEF AnswersInv, Right, Settled
<1> QED
  BY <1>1 DEF AnswersInv

\* Calls that are not answered by a step stay answered as they were.
LEMMA HandledKept ==
  ASSUME AckMeansHandled, Settled, Unanswered
  PROVE  AckMeansHandled'
BY DEF AckMeansHandled, Settled, Unanswered

\* A call that has not been made stays nowhere.
LEMMA UnmadeKept ==
  ASSUME Unmade, Unanswered,
         \A c \in Calls : call[c] = "idle" => arrival'[c] = arrival[c] /\ (handler[c] = "none" => handler'[c] = "none")
  PROVE  Unmade'
BY DEF Unmade, Unanswered

\* A session closes, whatever else the step does.
LEMMA Closing ==
  ASSUME NEW p \in Ends, Typing, CloseEnd(p)
  PROVE  /\ Sessions' /\ Settled /\ Unanswered
         /\ \A c \in Calls : handler[c] = "none" => handler'[c] = "none"
         /\ ~open'[p] /\ controlQ'[p] = <<>> /\ writing'[p] = <<>> /\ dataQ'[p] = <<>>
         /\ \A e \in Ends : open'[e] => open[e]
         /\ \A e \in Ends : e # p =>
               controlQ'[e] = controlQ[e] /\ writing'[e] = writing[e] /\ dataQ'[e] = dataQ[e]
<1>1. open' \in [Ends -> BOOLEAN] /\ ~open'[p] /\ \A e \in Ends : open'[e] => open[e]
  BY DEF CloseEnd, Typing, Sessions
<1>2. dataQ' \in [Ends -> Seq(Calls)] /\ controlQ' \in [Ends -> Seq(Answers)] /\ writing' \in [Ends -> Seq(Frames)]
  BY EmptySeq DEF CloseEnd, Typing, Sessions
<1>3. controlQ'[p] = <<>> /\ writing'[p] = <<>> /\ dataQ'[p] = <<>> /\ writer'[p] = "ended"
  BY DEF CloseEnd, Typing, Sessions
<1>4. \A e \in Ends : e # p =>
        controlQ'[e] = controlQ[e] /\ writing'[e] = writing[e] /\ dataQ'[e] = dataQ[e] /\ writer'[e] = writer[e]
  BY DEF CloseEnd, Typing, Sessions
<1>5. writer' \in [Ends -> {"control", "data", "writing", "ended"}]
  BY DEF CloseEnd, Typing, Sessions
<1>6. \A e \in Ends : IF writer'[e] = "writing" THEN Len(writing'[e]) = 1 ELSE writing'[e] = <<>>
  BY <1>3, <1>4 DEF Typing, Sessions
<1>7. /\ call' \in [Calls -> {"idle", "waiting", "ok", "nak", "failed"}]
      /\ handler' \in [Calls -> {"none", "running", "ok", "error", "refused", "aborted", "panicked"}]
  BY DEF CloseEnd, Typing, Sessions
<1>8. Settled /\ Unanswered /\ \A c \in Calls : handler[c] = "none" => handler'[c] = "none"
  BY DEF CloseEnd, Settled, Unanswered
<1> QED
  BY <1>1, <1>2, <1>3, <1>4, <1>5, <1>6, <1>7, <1>8 DEF Sessions

\* The lines and the answers under way, when the session of p closes and
\* nothing is read.
LEMMA CloseStep ==
  ASSUME DuplexInv, NEW p \in Ends, CloseEnd(p), UNCHANGED <<wire, received, arrival, sent>>
  PROVE  DuplexInv'
<1>1. Typing /\ AnswersInv /\ AckMeansHandled /\ Unmade /\ (\A e \in Ends : Line(e))
  BY DEF DuplexInv
<1>2. /\ Sessions' /\ Settled /\ Unanswered
      /\ \A c \in Calls : handler[c] = "none" => handler'[c] = "none"
      /\ ~open'[p] /\ controlQ'[p] = <<>> /\ writing'[p] = <<>> /\ dataQ'[p] = <<>>
      /\ \A e \in Ends : open'[e] => open[e]
      /\ \A e \in Ends : e # p => controlQ'[e] = controlQ[e] /\ writing'[e] = writing[e] /\ dataQ'[e] = dataQ[e]
  BY <1>1, Closing
<1>3. Typing'
  BY <1>1, <1>2 DEF Typing, Network
<1>4. ASSUME NEW e \in Ends, NEW frame \in Frames, Queued(e, frame)' PROVE Queued(e, frame)
  BY <1>2, <1>4, HasOf DEF Queued
<1>5. AnswersInv'
  BY <1>1, <1>2, <1>4, AnswersKept
<1>6. AckMeansHandled' /\ Unmade'
  BY <1>1, <1>2, HandledKept, UnmadeKept
<1>7. ASSUME NEW e \in Ends PROVE Line(e)'
  <2>1. received' \in [Ends -> Nat] /\ received[Other(e)] \in Nat
    BY <1>1, EndsOf DEF Typing, Network
  <2>2. Quiet(e)
    BY <1>2, <2>1 DEF Quiet, Unanswered
  <2>3. CASE e = p
    <3>1. Typing /\ Line(e) /\ ~open'[e] /\ wire'[e] = wire[e] /\ writing'[e] = <<>> /\ dataQ'[e] = <<>>
      BY <1>1, <1>2, <2>3
    <3> QED
      BY <2>1, <2>2, <3>1, LineCut
  <2>4. CASE e # p
    <3>1. Typing /\ Line(e) /\ wire'[e] = wire[e] /\ writing'[e] = writing[e] /\ dataQ'[e] = dataQ[e]
      BY <1>1, <1>2, <2>4
    <3> QED
      BY <2>1, <2>2, <3>1, LineStays
  <2> QED
    BY <2>3, <2>4
<1> QED
  BY <1>3, <1>5, <1>6, <1>7 DEF DuplexInv

\* The callee answers, or closes because its control queue has no room.
LEMMA Answering ==
  ASSUME Typing, NEW c \in Calls, NEW kind \in {"ACK", "NAK"}, NEW outcome \in {"ok", "error", "refused"},
         Answer(c, kind, outcome), kind = "ACK" <=> outcome = "ok", handler[c] \in {"none", "running"}
  PROVE  /\ Sessions' /\ Settled /\ Unanswered
         /\ \A d \in Calls : d # c /\ handler[d] = "none" => handler'[d] = "none"
         /\ \A e \in Ends : open'[e] => open[e]
         /\ \A e \in Ends, frame \in Frames : Has(controlQ'[e], frame) => Has(controlQ[e], frame) \/ Right(frame)'
         /\ \A e \in Ends : \/ writing'[e] = writing[e] /\ dataQ'[e] = dataQ[e]
                            \/ writing'[e] = <<>> /\ dataQ'[e] = <<>> /\ ~open'[e] /\ e = Callee(c)
<1>1. PICK p \in Ends : p = Callee(c)
  BY EndsOf
<1>2. CASE Len(controlQ[p]) < ControlLimit
  <2>1. PICK answer \in Answers : answer = [kind |-> kind, call |-> c]
    BY DEF Answers, Frames
  <2>2. /\ controlQ' = [controlQ EXCEPT ![p] = Append(@, answer)]
        /\ handler' = [handler EXCEPT ![c] = outcome]
        /\ UNCHANGED <<open, dataQ, output, call>>
    BY <1>1, <1>2, <2>1 DEF Answer
  <2>3. controlQ' \in [Ends -> Seq(Answers)]
    BY <2>2, AppendProperties DEF Typing, Sessions
  <2>4. /\ handler' \in [Calls -> {"none", "running", "ok", "error", "refused", "aborted", "panicked"}]
        /\ handler'[c] = outcome /\ \A d \in Calls : d # c => handler'[d] = handler[d]
    BY <2>2 DEF Typing, Sessions
  <2>5. Sessions'
    BY <2>2, <2>3, <2>4 DEF Typing, Sessions, output
  <2>6. Settled /\ Unanswered /\ \A d \in Calls : d # c /\ handler[d] = "none" => handler'[d] = "none"
    BY <2>2, <2>4 DEF Settled, Unanswered
  <2>7. Right(answer)'
    BY <2>1, <2>4 DEF Right
  <2>8. ASSUME NEW e \in Ends, NEW frame \in Frames, Has(controlQ'[e], frame)
        PROVE  Has(controlQ[e], frame) \/ Right(frame)'
    <3>1. CASE e = p
      <4>1. controlQ[e] \in Seq(Answers) /\ controlQ'[e] = Append(controlQ[e], answer)
        BY <2>2, <3>1 DEF Typing, Sessions
      <4>2. Has(controlQ[e], frame) \/ frame = answer
        BY <2>8, <4>1, HasOf
      <4> QED
        BY <2>7, <4>2
    <3>2. CASE e # p
      BY <2>2, <2>8, <3>2 DEF Typing, Sessions
    <3> QED
      BY <3>1, <3>2
  <2> QED
    BY <2>2, <2>5, <2>6, <2>8 DEF output
<1>3. CASE ~(Len(controlQ[p]) < ControlLimit)
  <2>1. CloseEnd(p)
    BY <1>1, <1>3 DEF Answer
  <2>2. /\ Sessions' /\ Settled /\ Unanswered
        /\ \A d \in Calls : handler[d] = "none" => handler'[d] = "none"
        /\ ~open'[p] /\ controlQ'[p] = <<>> /\ writing'[p] = <<>> /\ dataQ'[p] = <<>>
        /\ \A e \in Ends : open'[e] => open[e]
        /\ \A e \in Ends : e # p => controlQ'[e] = controlQ[e] /\ writing'[e] = writing[e] /\ dataQ'[e] = dataQ[e]
    BY <2>1, Closing
  <2>3. ASSUME NEW e \in Ends, NEW frame \in Frames, Has(controlQ'[e], frame) PROVE Has(controlQ[e], frame)
    BY <2>2, <2>3, HasOf
  <2>4. ASSUME NEW e \in Ends
        PROVE  \/ writing'[e] = writing[e] /\ dataQ'[e] = dataQ[e]
               \/ writing'[e] = <<>> /\ dataQ'[e] = <<>> /\ ~open'[e] /\ e = Callee(c)
    BY <1>1, <2>2
  <2> QED
    BY <2>2, <2>3, <2>4
<1> QED
  BY <1>2, <1>3

----------------------------------------------------------------------------
(* The steps *)

\* A handler panics: nothing else changes.
LEMMA PanicStep ==
  ASSUME DuplexInv, NEW c \in Calls, HandlerPanics(c)
  PROVE  DuplexInv'
<1>1. Typing /\ AnswersInv /\ AckMeansHandled /\ Unmade /\ (\A e \in Ends : Line(e))
  BY DEF DuplexInv
<1>2. /\ UNCHANGED <<open, dataQ, controlQ, writer, writing, wire, call, received, arrival, sent>>
      /\ handler[c] = "running" /\ handler' = [handler EXCEPT ![c] = "panicked"]
  BY DEF HandlerPanics, queues, output, arrivals, history
<1>3. /\ handler' \in [Calls -> {"none", "running", "ok", "error", "refused", "aborted", "panicked"}]
      /\ handler'[c] = "panicked" /\ \A d \in Calls : d # c => handler'[d] = handler[d]
  BY <1>1, <1>2 DEF Typing, Sessions
<1>4. Sessions'
  BY <1>1, <1>2, <1>3 DEF Typing, Sessions
<1>5. Typing'
  BY <1>1, <1>2, <1>4 DEF Typing, Network
<1>6. Settled /\ Unanswered /\ \A d \in Calls : handler[d] = "none" => handler'[d] = "none"
  BY <1>2, <1>3 DEF Settled, Unanswered
<1>7. ASSUME NEW e \in Ends, NEW frame \in Frames, Queued(e, frame)' PROVE Queued(e, frame)
  BY <1>2, <1>7 DEF Queued
<1>8. AnswersInv'
  BY <1>1, <1>6, <1>7, AnswersKept
<1>9. AckMeansHandled' /\ Unmade'
  BY <1>1, <1>2, <1>6, HandledKept, UnmadeKept
<1>10. ASSUME NEW e \in Ends PROVE Line(e)'
  <2>1. received' \in [Ends -> Nat] /\ received[Other(e)] \in Nat
    BY <1>1, <1>2, EndsOf DEF Typing, Network
  <2>2. Quiet(e)
    BY <1>2, <1>6, <2>1 DEF Quiet
  <2>3. wire'[e] = wire[e] /\ writing'[e] = writing[e] /\ dataQ'[e] = dataQ[e]
    BY <1>2
  <2> QED
    BY <1>1, <2>1, <2>2, <2>3, LineStays
<1> QED
  BY <1>5, <1>8, <1>9, <1>10 DEF DuplexInv

\* A handler returns and its answer is queued or the session closes.
LEMMA HandlerStep ==
  ASSUME DuplexInv, NEW c \in Calls, HandlerReturns(c)
  PROVE  DuplexInv'
<1>1. Typing /\ AnswersInv /\ AckMeansHandled /\ Unmade /\ (\A e \in Ends : Line(e))
  BY DEF DuplexInv
<1>2. wire' = wire /\ received' = received /\ arrival' = arrival /\ sent' = sent
  BY DEF HandlerReturns, arrivals
<1>3. /\ Sessions' /\ Settled /\ Unanswered
      /\ \A d \in Calls : d # c /\ handler[d] = "none" => handler'[d] = "none"
      /\ \A e \in Ends : open'[e] => open[e]
      /\ \A e \in Ends, frame \in Frames : Has(controlQ'[e], frame) => Has(controlQ[e], frame) \/ Right(frame)'
      /\ \A e \in Ends : \/ writing'[e] = writing[e] /\ dataQ'[e] = dataQ[e]
                         \/ writing'[e] = <<>> /\ dataQ'[e] = <<>> /\ ~open'[e] /\ e = Callee(c)
  <2>1. handler[c] \in {"none", "running"} /\ (Answer(c, "ACK", "ok") \/ Answer(c, "NAK", "error"))
    BY DEF HandlerReturns
  <2>2. CASE Answer(c, "ACK", "ok")
    BY <1>1, <2>1, <2>2, Answering
  <2>3. CASE Answer(c, "NAK", "error")
    BY <1>1, <2>1, <2>3, Answering
  <2> QED
    BY <2>1, <2>2, <2>3
<1>4. Typing'
  BY <1>1, <1>2, <1>3 DEF Typing, Network
<1>5. ASSUME NEW e \in Ends, NEW frame \in Frames, Queued(e, frame)' PROVE Queued(e, frame) \/ Right(frame)'
  BY <1>2, <1>3, <1>5, HasOf DEF Queued
<1>6. AnswersInv'
  BY <1>1, <1>3, <1>5, AnswersKept
<1>7. \A d \in Calls : handler[d] = "none" => handler'[d] = "none"
  BY <1>3 DEF HandlerReturns
<1>8. AckMeansHandled' /\ Unmade'
  BY <1>1, <1>2, <1>3, <1>7, HandledKept, UnmadeKept
<1>9. ASSUME NEW e \in Ends PROVE Line(e)'
  <2>1. received' \in [Ends -> Nat] /\ received[Other(e)] \in Nat
    BY <1>1, <1>2, EndsOf DEF Typing, Network
  <2>2. Quiet(e)
    BY <1>2, <1>3, <1>7, <2>1 DEF Quiet, Unanswered
  <2>3. CASE writing'[e] = writing[e] /\ dataQ'[e] = dataQ[e]
    BY <1>1, <1>2, <2>1, <2>2, <2>3, LineStays
  <2>4. CASE writing'[e] = <<>> /\ dataQ'[e] = <<>> /\ ~open'[e]
    BY <1>1, <1>2, <2>1, <2>2, <2>4, LineCut
  <2> QED
    BY <1>3, <2>3, <2>4
<1> QED
  BY <1>4, <1>6, <1>8, <1>9 DEF DuplexInv

\* A send puts its message at the end of the line.
LEMMA SendStep ==
  ASSUME DuplexInv, NEW c \in Calls, Send(c)
  PROVE  DuplexInv'
<1>1. Typing /\ AnswersInv /\ AckMeansHandled /\ Unmade /\ (\A e \in Ends : Line(e))
  BY DEF DuplexInv
<1>2. /\ call[c] = "idle" /\ open' = open /\ controlQ' = controlQ /\ writer' = writer /\ writing' = writing
      /\ wire' = wire /\ handler' = handler /\ received' = received /\ arrival' = arrival
  BY DEF Send, output, arrivals
<1>3. PICK p \in Ends : p = Caller(c)
  BY EndsOf
<1>4. \/ /\ open[p] /\ call' = [call EXCEPT ![c] = "waiting"]
         /\ dataQ' = [dataQ EXCEPT ![p] = Append(@, c)] /\ sent' = [sent EXCEPT ![p] = Append(@, c)]
      \/ call' = [call EXCEPT ![c] = "failed"] /\ dataQ' = dataQ /\ sent' = sent
  BY <1>3 DEF Send
<1>5. Settled /\ Unanswered /\ call' \in [Calls -> {"idle", "waiting", "ok", "nak", "failed"}]
  BY <1>1, <1>2, <1>4 DEF Settled, Unanswered, Typing, Sessions
<1>6. dataQ' \in [Ends -> Seq(Calls)] /\ sent' \in [Ends -> Seq(Calls)]
  <2>1. CASE dataQ' = [dataQ EXCEPT ![p] = Append(@, c)] /\ sent' = [sent EXCEPT ![p] = Append(@, c)]
    <3>1. dataQ[p] \in Seq(Calls) /\ sent[p] \in Seq(Calls)
      BY <1>1 DEF Typing, Sessions, Network
    <3>2. Append(dataQ[p], c) \in Seq(Calls) /\ Append(sent[p], c) \in Seq(Calls)
      BY <3>1, AppendProperties
    <3> QED
      BY <1>1, <2>1, <3>2 DEF Typing, Sessions, Network
  <2>2. CASE dataQ' = dataQ /\ sent' = sent
    BY <1>1, <2>2 DEF Typing, Sessions, Network
  <2> QED
    BY <1>4, <2>1, <2>2
<1>7. Typing'
  BY <1>1, <1>2, <1>5, <1>6 DEF Typing, Sessions, Network
<1>8. ASSUME NEW e \in Ends, NEW frame \in Frames, Queued(e, frame)' PROVE Queued(e, frame)
  BY <1>2, <1>8 DEF Queued
<1>9. AnswersInv' /\ AckMeansHandled' /\ Unmade'
  BY <1>1, <1>2, <1>5, <1>8, AnswersKept, HandledKept, UnmadeKept
<1>10. ASSUME NEW e \in Ends PROVE Line(e)'
  <2>1. received' \in [Ends -> Nat] /\ received[Other(e)] \in Nat
    BY <1>1, <1>2, EndsOf DEF Typing, Network
  <2>2. CASE e = p /\ sent' # sent
    <3>1. /\ e = Caller(c) /\ Typing /\ Line(e) /\ Unmade /\ call[c] = "idle" /\ open[e]
          /\ sent' = [sent EXCEPT ![e] = Append(@, c)] /\ dataQ' = [dataQ EXCEPT ![e] = Append(@, c)]
          /\ call' = [call EXCEPT ![c] = "waiting"]
          /\ wire' = wire /\ writing' = writing /\ arrival' = arrival /\ handler' = handler
          /\ received' = received /\ open' = open
      BY <1>1, <1>2, <1>3, <1>4, <2>2
    <3> QED
      BY <3>1, LineGrows
  <2>3. CASE e # p \/ sent' = sent
    <3>1. sent'[e] = sent[e] /\ dataQ'[e] = dataQ[e]
      <4>1. CASE sent' = sent
        <5>1. ASSUME sent' = [sent EXCEPT ![p] = Append(@, c)] PROVE FALSE
          <6>1. PICK log \in Seq(Calls) : log = sent[p]
            BY <1>1 DEF Typing, Network
          <6>2. log = Append(log, c)
            BY <1>1, <4>1, <5>1, <6>1 DEF Typing, Network
          <6>3. Len(log) \in Nat /\ Len(Append(log, c)) = Len(log) + 1
            BY <6>1, AppendProperties
          <6> QED
            BY <6>2, <6>3
        <5> QED
          BY <1>4, <4>1, <5>1
      <4>2. CASE e # p
        BY <1>1, <1>4, <4>2 DEF Typing, Sessions, Network
      <4> QED
        BY <2>3, <4>1, <4>2
    <3>2. Quiet(e)
      BY <1>2, <1>5, <2>1, <3>1 DEF Quiet, Unanswered
    <3> QED
      BY <1>1, <1>2, <2>1, <3>1, <3>2, LineStays
  <2> QED
    BY <2>2, <2>3
<1> QED
  BY <1>7, <1>9, <1>10 DEF DuplexInv

\* A call that gives up leaves the line as it is.
LEMMA CallEndsStep ==
  ASSUME DuplexInv, NEW c \in Calls, CallEnds(c)
  PROVE  DuplexInv'
<1>1. Typing /\ AnswersInv /\ AckMeansHandled /\ Unmade /\ (\A e \in Ends : Line(e))
  BY DEF DuplexInv
<1>2. /\ call[c] = "waiting" /\ call' = [call EXCEPT ![c] = "failed"]
      /\ open' = open /\ controlQ' = controlQ /\ dataQ' = dataQ /\ writer' = writer /\ writing' = writing
      /\ wire' = wire /\ handler' = handler /\ received' = received /\ arrival' = arrival /\ sent' = sent
  BY DEF CallEnds, queues, output, arrivals, history
<1>3. Settled /\ Unanswered /\ call' \in [Calls -> {"idle", "waiting", "ok", "nak", "failed"}]
  BY <1>1, <1>2 DEF Settled, Unanswered, Typing, Sessions
<1>4. Typing'
  BY <1>1, <1>2, <1>3 DEF Typing, Sessions, Network
<1>5. ASSUME NEW e \in Ends, NEW frame \in Frames, Queued(e, frame)' PROVE Queued(e, frame)
  BY <1>2, <1>5 DEF Queued
<1>6. AnswersInv' /\ AckMeansHandled' /\ Unmade'
  BY <1>1, <1>2, <1>3, <1>5, AnswersKept, HandledKept, UnmadeKept
<1>7. ASSUME NEW e \in Ends PROVE Line(e)'
  <2>1. received' \in [Ends -> Nat] /\ received[Other(e)] \in Nat
    BY <1>1, <1>2, EndsOf DEF Typing, Network
  <2>2. Quiet(e)
    BY <1>2, <1>3, <2>1 DEF Quiet, Unanswered
  <2> QED
    BY <1>1, <1>2, <2>1, <2>2, LineStays
<1> QED
  BY <1>4, <1>6, <1>7 DEF DuplexInv

\* What the writer of p leaves alone.
WriterOnly(p) ==
    /\ UNCHANGED <<open, call, handler, received, arrival, sent>>
    /\ \A e \in Ends : e # p =>
          controlQ'[e] = controlQ[e] /\ writing'[e] = writing[e] /\ dataQ'[e] = dataQ[e] /\ wire'[e] = wire[e]

\* What the writer does before it writes: it takes a message or an answer from
\* its queue, or drops them all when the session has closed.
LEMMA WriterStep ==
  ASSUME DuplexInv, NEW p \in Ends, WriterOnly(p), Sessions', wire' \in [Ends -> Seq(Frames)], Line(p)',
         \A frame \in Frames : Queued(p, frame)' => Queued(p, frame) \/ frame.kind = "MSG"
  PROVE  DuplexInv'
<1>1. Typing /\ AnswersInv /\ AckMeansHandled /\ Unmade /\ (\A e \in Ends : Line(e))
  BY DEF DuplexInv
<1>2. Typing'
  BY <1>1 DEF Typing, Network, WriterOnly
<1>3. Settled /\ Unanswered
  BY DEF WriterOnly, Settled, Unanswered
<1>4. ASSUME NEW e \in Ends, NEW frame \in Frames, Queued(e, frame)' PROVE Queued(e, frame) \/ Right(frame)'
  <2>1. CASE e # p
    BY <1>4, <2>1 DEF Queued, WriterOnly
  <2>2. CASE e = p
    BY <1>4, <2>2 DEF Right
  <2> QED
    BY <2>1, <2>2
<1>5. AnswersInv' /\ AckMeansHandled' /\ Unmade'
  BY <1>1, <1>3, <1>4, AnswersKept, HandledKept, UnmadeKept DEF WriterOnly
<1>6. ASSUME NEW e \in Ends, e # p PROVE Line(e)'
  <2>1. received' \in [Ends -> Nat] /\ received[Other(e)] \in Nat
    BY <1>1, EndsOf DEF Typing, Network, WriterOnly
  <2>2. Quiet(e)
    BY <2>1 DEF Quiet, WriterOnly
  <2>3. wire'[e] = wire[e] /\ writing'[e] = writing[e] /\ dataQ'[e] = dataQ[e]
    BY <1>6 DEF WriterOnly
  <2> QED
    BY <1>1, <2>1, <2>2, <2>3, LineStays
<1> QED
  BY <1>2, <1>5, <1>6 DEF DuplexInv

\* The writer puts a frame on the wire: a message moves up, an answer stays
\* right.
LEMMA WriteStep ==
  ASSUME DuplexInv, NEW p \in Ends, Write(p)
  PROVE  DuplexInv'
<1>1. Typing /\ Line(p)
  BY DEF DuplexInv
<1>2. ASSUME WriterOnly(p)
      PROVE  Quiet(p) /\ received' \in [Ends -> Nat]
  <2>1. received' \in [Ends -> Nat] /\ received[Other(p)] \in Nat
    BY <1>1, <1>2, EndsOf DEF Typing, Network, WriterOnly
  <2> QED
    BY <1>2, <2>1 DEF Quiet, WriterOnly
<1>3. CASE ControlEmpty(p) \/ DataEmpty(p)
  <2>1. /\ UNCHANGED <<open, controlQ, dataQ, writing, wire, call, handler, received, arrival, sent>>
        /\ writer[p] # "writing" /\ (writer' = [writer EXCEPT ![p] = "data"] \/ writer' = [writer EXCEPT ![p] = "control"])
    BY <1>3 DEF ControlEmpty, DataEmpty, queues, arrivals, history
  <2>2. WriterOnly(p) /\ wire' \in [Ends -> Seq(Frames)]
    BY <1>1, <2>1 DEF WriterOnly, Typing, Network
  <2>3. Sessions'
    <3>1. writer' \in [Ends -> {"control", "data", "writing", "ended"}]
      BY <1>1, <2>1 DEF Typing, Sessions
    <3>2. \A e \in Ends : IF writer'[e] = "writing" THEN Len(writing'[e]) = 1 ELSE writing'[e] = <<>>
      BY <1>1, <2>1 DEF Typing, Sessions
    <3> QED
      BY <1>1, <2>1, <3>1, <3>2 DEF Typing, Sessions
  <2>4. Line(p)'
    <3>1. wire'[p] = wire[p] /\ writing'[p] = writing[p] /\ dataQ'[p] = dataQ[p]
      BY <2>1
    <3> QED
      BY <1>1, <1>2, <2>2, <3>1, LineStays
  <2>5. \A frame \in Frames : Queued(p, frame)' => Queued(p, frame)
    BY <2>1 DEF Queued
  <2> QED
    BY <2>2, <2>3, <2>4, <2>5, WriterStep
<1>4. CASE TakeControl(p)
  <2>1. /\ writer[p] = "control" /\ controlQ[p] # <<>> /\ controlQ[p] \in Seq(Answers) /\ writing[p] = <<>>
        /\ UNCHANGED <<open, dataQ, wire, call, handler, received, arrival, sent>>
    BY <1>1, <1>4 DEF TakeControl, arrivals, history, Typing, Sessions
  <2>2. PICK answer \in Answers : answer = Head(controlQ[p])
    BY <2>1, HasOf
  <2>3. /\ writing' = [writing EXCEPT ![p] = <<answer>>] /\ controlQ' = [controlQ EXCEPT ![p] = Tail(@)]
        /\ writer' = [writer EXCEPT ![p] = "writing"]
    BY <1>4, <2>2 DEF TakeControl
  <2>4. /\ writing'[p] = <<answer>> /\ controlQ'[p] = Tail(controlQ[p]) /\ Tail(controlQ[p]) \in Seq(Answers)
        /\ <<answer>> \in Seq(Frames)
    BY <1>1, <2>1, <2>3, HeadTailProperties DEF Typing, Sessions, Answers
  <2>5. WriterOnly(p) /\ wire' \in [Ends -> Seq(Frames)]
    BY <1>1, <2>1, <2>3 DEF WriterOnly, Typing, Sessions, Network
  <2>6. Sessions'
    <3>1. writer' \in [Ends -> {"control", "data", "writing", "ended"}] /\ writer'[p] = "writing"
      BY <1>1, <2>3 DEF Typing, Sessions
    <3>2. writing' \in [Ends -> Seq(Frames)] /\ controlQ' \in [Ends -> Seq(Answers)]
      BY <1>1, <2>3, <2>4 DEF Typing, Sessions
    <3>3. ASSUME NEW e \in Ends PROVE IF writer'[e] = "writing" THEN Len(writing'[e]) = 1 ELSE writing'[e] = <<>>
      <4>1. CASE e = p
        BY <2>4, <3>1, <4>1
      <4>2. CASE e # p
        BY <1>1, <2>3, <4>2 DEF Typing, Sessions
      <4> QED
        BY <4>1, <4>2
    <3> QED
      BY <1>1, <2>1, <3>1, <3>2, <3>3 DEF Typing, Sessions
  <2>7. Line(p)'
    BY <1>1, <1>2, <2>1, <2>4, <2>5, LineLetsIn
  <2>8. ASSUME NEW frame \in Frames, Queued(p, frame)' PROVE Queued(p, frame)
    BY <2>1, <2>2, <2>4, <2>8, HasOf DEF Queued
  <2> QED
    BY <2>5, <2>6, <2>7, <2>8, WriterStep
<1>5. CASE TakeData(p)
  <2>1. /\ writer[p] = "data" /\ dataQ[p] # <<>> /\ dataQ[p] \in Seq(Calls) /\ writing[p] = <<>>
        /\ UNCHANGED <<open, controlQ, wire, call, handler, received, arrival, sent>>
    BY <1>1, <1>5 DEF TakeData, arrivals, history, Typing, Sessions
  <2>2. PICK c \in Calls : c = Head(dataQ[p])
    BY <2>1, HasOf
  <2>3. /\ writing' = [writing EXCEPT ![p] = <<Msg(c)>>] /\ dataQ' = [dataQ EXCEPT ![p] = Tail(@)]
        /\ writer' = [writer EXCEPT ![p] = "writing"]
    BY <1>5, <2>2 DEF TakeData, Msg
  <2>4. /\ writing'[p] = <<Msg(c)>> /\ dataQ'[p] = Tail(dataQ[p]) /\ Tail(dataQ[p]) \in Seq(Calls)
        /\ Msg(c) \in Frames /\ Msg(c).kind = "MSG"
    BY <1>1, <2>1, <2>3, HeadTailProperties, FramesOf DEF Typing, Sessions
  <2>5. WriterOnly(p) /\ wire' \in [Ends -> Seq(Frames)]
    BY <1>1, <2>1, <2>3 DEF WriterOnly, Typing, Sessions, Network
  <2>6. Sessions'
    <3>1. writer' \in [Ends -> {"control", "data", "writing", "ended"}] /\ writer'[p] = "writing"
      BY <1>1, <2>3 DEF Typing, Sessions
    <3>2. writing' \in [Ends -> Seq(Frames)] /\ dataQ' \in [Ends -> Seq(Calls)]
      BY <1>1, <2>3, <2>4 DEF Typing, Sessions
    <3>3. ASSUME NEW e \in Ends PROVE IF writer'[e] = "writing" THEN Len(writing'[e]) = 1 ELSE writing'[e] = <<>>
      <4>1. CASE e = p
        BY <2>4, <3>1, <4>1
      <4>2. CASE e # p
        BY <1>1, <2>3, <4>2 DEF Typing, Sessions
      <4> QED
        BY <4>1, <4>2
    <3> QED
      BY <1>1, <2>1, <3>1, <3>2, <3>3 DEF Typing, Sessions
  <2>7. Line(p)'
    <3>1. wire'[p] = wire[p] /\ writing'[p] = <<Msg(Head(dataQ[p]))>> /\ dataQ'[p] = Tail(dataQ[p])
      BY <2>1, <2>2, <2>4
    <3> QED
      BY <1>1, <1>2, <2>1, <2>5, <3>1, LineTakes
  <2>8. ASSUME NEW frame \in Frames, Queued(p, frame)' PROVE Queued(p, frame) \/ frame.kind = "MSG"
    BY <2>1, <2>4, <2>8, HasOf DEF Queued
  <2> QED
    BY <2>5, <2>6, <2>7, <2>8, WriterStep
<1>6. CASE Written(p)
  <2>1. /\ writer[p] = "writing" /\ Len(writing[p]) = 1 /\ writing[p] \in Seq(Frames) /\ wire[p] \in Seq(Frames)
        /\ UNCHANGED <<open, controlQ, dataQ, call, handler, received, arrival, sent>>
    BY <1>1, <1>6 DEF Written, queues, arrivals, history, Typing, Sessions, Network
  <2>2. PICK frame \in Frames : frame = writing[p][1] /\ writing[p] = <<frame>>
    <3>1. PICK frame \in Frames : frame = writing[p][1]
      BY <2>1, ElementOfSeq
    <3>2. <<frame>> \in Seq(Frames) /\ Len(<<frame>>) = 1 /\ <<frame>>[1] = frame
      OBVIOUS
    <3>3. \A i \in 1..1 : writing[p][i] = <<frame>>[i]
      BY <3>1, <3>2
    <3> QED
      BY <2>1, <3>1, <3>2, <3>3, SeqEqual
  <2>3. /\ writing' = [writing EXCEPT ![p] = <<>>] /\ wire' = [wire EXCEPT ![p] = Append(@, frame)]
        /\ writer' = [writer EXCEPT ![p] = "control"]
    BY <1>6, <2>2 DEF Written
  <2>4. /\ writing'[p] = <<>> /\ wire'[p] = Append(wire[p], frame) /\ Append(wire[p], frame) \in Seq(Frames)
        /\ Has(writing[p], frame)
    BY <1>1, <2>1, <2>2, <2>3, AppendProperties DEF Typing, Sessions, Network, Has
  <2>5. WriterOnly(p) /\ wire' \in [Ends -> Seq(Frames)]
    BY <1>1, <2>1, <2>3, <2>4 DEF WriterOnly, Typing, Sessions, Network
  <2>6. Sessions'
    <3>1. writer' \in [Ends -> {"control", "data", "writing", "ended"}] /\ writer'[p] = "control"
      BY <1>1, <2>3 DEF Typing, Sessions
    <3>2. writing' \in [Ends -> Seq(Frames)]
      BY <1>1, <2>3, EmptySeq DEF Typing, Sessions
    <3>3. ASSUME NEW e \in Ends PROVE IF writer'[e] = "writing" THEN Len(writing'[e]) = 1 ELSE writing'[e] = <<>>
      <4>1. CASE e = p
        BY <2>4, <3>1, <4>1
      <4>2. CASE e # p
        BY <1>1, <2>3, <4>2 DEF Typing, Sessions
      <4> QED
        BY <4>1, <4>2
    <3> QED
      BY <1>1, <2>1, <3>1, <3>2, <3>3 DEF Typing, Sessions
  <2>7. Line(p)'
    <3>1. dataQ'[p] = dataQ[p]
      BY <2>1
    <3> QED
      BY <1>1, <1>2, <2>2, <2>4, <2>5, <3>1, LineWritten
  <2>8. ASSUME NEW f \in Frames, Queued(p, f)' PROVE Queued(p, f)
    BY <2>1, <2>4, <2>8, HasOf DEF Queued
  <2> QED
    BY <2>5, <2>6, <2>7, <2>8, WriterStep
<1> QED
  BY <1>3, <1>4, <1>5, <1>6 DEF Write

\* A frame is read.
LEMMA ArrivesOf ==
  ASSUME DuplexInv, NEW e \in Ends, NEW frame, Arrives(e, frame), NEW p \in Ends, p = Other(e)
  PROVE  /\ wire[p] # <<>> /\ frame = Head(wire[p]) /\ frame \in Frames /\ Queued(p, frame)
         /\ wire' \in [Ends -> Seq(Frames)] /\ wire'[p] = Tail(wire[p])
         /\ \A f \in Ends : f # p => wire'[f] = wire[f]
         /\ received' \in [Ends -> Nat] /\ received'[e] = received[e] + 1
         /\ \A f \in Ends : received[f] <= received'[f]
         /\ \A f \in Ends, g \in Frames : Has(wire'[f], g) => Has(wire[f], g)
<1>1. wire \in [Ends -> Seq(Frames)] /\ received \in [Ends -> Nat] /\ wire[p] \in Seq(Frames)
  BY DEF DuplexInv, Typing, Network
<1>2. /\ wire[p] # <<>> /\ frame = Head(wire[p])
      /\ wire' = [wire EXCEPT ![p] = Tail(@)] /\ received' = [received EXCEPT ![e] = @ + 1]
  BY DEF Arrives
<1>3. frame \in Frames /\ Queued(p, frame)
  BY <1>1, <1>2, HasOf DEF Queued
<1>4. Tail(wire[p]) \in Seq(Frames)
  BY <1>1, <1>2, HeadTailProperties
<1>5. wire' \in [Ends -> Seq(Frames)] /\ wire'[p] = Tail(wire[p]) /\ \A f \in Ends : f # p => wire'[f] = wire[f]
  BY <1>1, <1>2, <1>4
<1>6. received' \in [Ends -> Nat] /\ received'[e] = received[e] + 1 /\ \A f \in Ends : received[f] <= received'[f]
  BY <1>1, <1>2
<1>7. ASSUME NEW f \in Ends, NEW g \in Frames, Has(wire'[f], g) PROVE Has(wire[f], g)
  BY <1>1, <1>2, <1>5, <1>7, HasOf
<1> QED
  BY <1>2, <1>3, <1>5, <1>6, <1>7

\* An answer settles the call it names, which was handled as it says.
LEMMA AnswerStep ==
  ASSUME DuplexInv, NEW e \in Ends, NEW frame, ReceiveAnswer(e, frame)
  PROVE  DuplexInv'
<1>1. Typing /\ AnswersInv /\ AckMeansHandled /\ Unmade /\ (\A f \in Ends : Line(f))
  BY DEF DuplexInv
<1>2. PICK p \in Ends : p = Other(e) /\ Other(p) = e /\ p # e
  BY EndsOf
<1>3. Arrives(e, frame) /\ frame.kind # "MSG"
  BY DEF ReceiveAnswer
<1>4. /\ wire[p] # <<>> /\ frame = Head(wire[p]) /\ frame \in Frames /\ Queued(p, frame)
      /\ wire' \in [Ends -> Seq(Frames)] /\ wire'[p] = Tail(wire[p])
      /\ \A f \in Ends : f # p => wire'[f] = wire[f]
      /\ received' \in [Ends -> Nat] /\ received'[e] = received[e] + 1
      /\ \A f \in Ends : received[f] <= received'[f]
      /\ \A f \in Ends, g \in Frames : Has(wire'[f], g) => Has(wire[f], g)
  BY <1>2, <1>3, ArrivesOf
<1>5. PICK c \in Calls : c = frame.call /\ Right(frame)
  BY <1>1, <1>4, FramesOf DEF AnswersInv
<1>6. UNCHANGED <<open, controlQ, dataQ, writer, writing, handler, arrival, sent>>
  BY DEF ReceiveAnswer, queues, output, history
<1>7. \/ call[c] = "waiting" /\ call' = [call EXCEPT ![c] = IF frame.kind = "ACK" THEN "ok" ELSE "nak"]
      \/ call' = call
  BY <1>5 DEF ReceiveAnswer
<1>8. call' \in [Calls -> {"idle", "waiting", "ok", "nak", "failed"}]
  BY <1>1, <1>7 DEF Typing, Sessions
<1>9. Typing'
  BY <1>1, <1>4, <1>6, <1>8 DEF Typing, Sessions, Network
<1>10. Settled
  BY <1>6 DEF Settled
<1>11. ASSUME NEW f \in Ends, NEW g \in Frames, Queued(f, g)' PROVE Queued(f, g)
  BY <1>4, <1>6, <1>11 DEF Queued
<1>12. AnswersInv'
  BY <1>1, <1>10, <1>11, AnswersKept
<1>13. AckMeansHandled'
  <2>1. CASE call' = call
    BY <1>1, <1>6, <2>1 DEF AckMeansHandled
  <2>2. CASE call' = [call EXCEPT ![c] = IF frame.kind = "ACK" THEN "ok" ELSE "nak"]
    <3>1. frame.kind = "NAK" \/ frame.kind = "ACK"
      BY <1>3, <1>4, FramesOf
    <3>2. ASSUME NEW d \in Calls, d # c PROVE call'[d] = call[d]
      BY <1>1, <2>2, <3>2 DEF Typing, Sessions
    <3>3. call'[c] = IF frame.kind = "ACK" THEN "ok" ELSE "nak"
      BY <1>1, <2>2 DEF Typing, Sessions
    <3>4. (frame.kind = "ACK" => handler[c] = "ok") /\ (frame.kind = "NAK" => handler[c] \in {"error", "refused"})
      BY <1>5 DEF Right
    <3> QED
      BY <1>1, <1>6, <3>1, <3>2, <3>3, <3>4 DEF AckMeansHandled
  <2> QED
    BY <1>7, <2>1, <2>2
<1>14. \A d \in Calls : (call'[d] = "idle" => call[d] = "idle") /\ (call[d] # "idle" => call'[d] # "idle")
  BY <1>1, <1>7 DEF Typing, Sessions
<1>15. Unmade'
  BY <1>1, <1>6, <1>14 DEF Unmade
<1>16. ASSUME NEW f \in Ends PROVE Line(f)'
  <2>1. Quiet(f)
    BY <1>4, <1>6, <1>14, EndsOf DEF Quiet
  <2>2. writing'[f] = writing[f] /\ dataQ'[f] = dataQ[f]
    BY <1>6
  <2>3. CASE f = p
    <3>1. wire[f] # <<>> /\ Head(wire[f]).kind # "MSG" /\ wire'[f] = Tail(wire[f])
      BY <1>3, <1>4, <2>3
    <3> QED
      BY <1>1, <1>4, <2>1, <2>2, <3>1, LineAnswered
  <2>4. CASE f # p
    <3>1. wire'[f] = wire[f]
      BY <1>4, <2>4
    <3> QED
      BY <1>1, <1>4, <2>1, <2>2, <3>1, LineStays
  <2> QED
    BY <2>3, <2>4
<1> QED
  BY <1>9, <1>12, <1>13, <1>15, <1>16 DEF DuplexInv

\* A message arrives: it is the first of its line and gets the next number.
LEMMA MessageStep ==
  ASSUME DuplexInv, NEW e \in Ends, NEW frame, ReceiveMessage(e, frame)
  PROVE  DuplexInv'
<1>1. Typing /\ AnswersInv /\ AckMeansHandled /\ Unmade /\ (\A f \in Ends : Line(f))
  BY DEF DuplexInv
<1>2. PICK p \in Ends : p = Other(e) /\ Other(p) = e /\ p # e
  BY EndsOf
<1>3. Arrives(e, frame) /\ frame.kind = "MSG"
  BY DEF ReceiveMessage
<1>4. /\ wire[p] # <<>> /\ frame = Head(wire[p]) /\ frame \in Frames /\ Queued(p, frame)
      /\ wire' \in [Ends -> Seq(Frames)] /\ wire'[p] = Tail(wire[p])
      /\ \A f \in Ends : f # p => wire'[f] = wire[f]
      /\ received' \in [Ends -> Nat] /\ received'[e] = received[e] + 1
      /\ \A f \in Ends : received[f] <= received'[f]
      /\ \A f \in Ends, g \in Frames : Has(wire'[f], g) => Has(wire[f], g)
  BY <1>2, <1>3, ArrivesOf
<1>5. PICK m \in Calls : m = frame.call /\ frame = Msg(m)
  BY <1>3, <1>4, FramesOf
<1>6. /\ At(p, m, 1) /\ IsSent(p, m) /\ arrival[m] = 0 /\ handler[m] = "none"
      /\ Caller(m) = p /\ call[m] # "idle" /\ Callee(m) = e
  <2>1. At(p, m, 1)
    <3>1. PICK w \in Seq(Frames) : w = wire[p] /\ w # <<>>
      BY <1>1, <1>4 DEF Typing, Network
    <3>2. 1 \in 1..Len(w) /\ w[1] = Msg(m)
      BY <1>4, <1>5, <3>1, HeadTailProperties, EmptySeq
    <3> QED
      BY <3>1, <3>2 DEF At, AtPlace
  <2>2. IsSent(p, m) /\ arrival[m] = 0 /\ handler[m] = "none"
    BY <1>1, <2>1 DEF Line, InLine
  <2>3. Caller(m) = p /\ call[m] # "idle"
    BY <1>1, <2>2 DEF Line, SentOnce
  <2> QED
    BY <1>2, <2>1, <2>2, <2>3, EndsOf
<1>7. arrival' = [arrival EXCEPT ![m] = received[e] + 1] /\ sent' = sent
  BY <1>5 DEF ReceiveMessage
<1>8. /\ Sessions' /\ Settled /\ Unanswered
      /\ \A d \in Calls : d # m /\ handler[d] = "none" => handler'[d] = "none"
      /\ \A f \in Ends : open'[f] => open[f]
      /\ \A f \in Ends, g \in Frames : Has(controlQ'[f], g) => Has(controlQ[f], g) \/ Right(g)'
      /\ \A f \in Ends : \/ writing'[f] = writing[f] /\ dataQ'[f] = dataQ[f]
                         \/ writing'[f] = <<>> /\ dataQ'[f] = <<>> /\ ~open'[f] /\ f = Callee(m)
  <2>1. CASE /\ handler' = [handler EXCEPT ![m] = "running"]
             /\ UNCHANGED <<open, queues, output, call, before>>
    <3>1. UNCHANGED <<open, controlQ, dataQ, writer, writing, call>>
      BY <2>1 DEF queues, output
    <3>2. handler' \in [Calls -> {"none", "running", "ok", "error", "refused", "aborted", "panicked"}]
      BY <1>1, <2>1 DEF Typing, Sessions
    <3>3. \A d \in Calls : d # m => handler'[d] = handler[d]
      BY <1>1, <2>1 DEF Typing, Sessions
    <3>4. Sessions'
      BY <1>1, <3>1, <3>2 DEF Typing, Sessions
    <3>5. Settled /\ Unanswered
      BY <1>6, <3>1, <3>3 DEF Settled, Unanswered
    <3> QED
      BY <3>1, <3>3, <3>4, <3>5
  <2>2. CASE Answer(m, "NAK", "refused")
    BY <1>1, <1>6, <2>2, Answering
  <2> QED
    BY <1>5, <2>1, <2>2 DEF ReceiveMessage
<1>9. arrival' \in [Calls -> Nat] /\ \A c \in Calls : c # m => arrival'[c] = arrival[c]
  BY <1>1, <1>7 DEF Typing, Network
<1>10. Typing'
  BY <1>1, <1>4, <1>7, <1>8, <1>9 DEF Typing, Network
<1>11. ASSUME NEW f \in Ends, NEW g \in Frames, Queued(f, g)' PROVE Queued(f, g) \/ Right(g)'
  BY <1>4, <1>8, <1>11, HasOf DEF Queued
<1>12. AnswersInv' /\ AckMeansHandled'
  BY <1>1, <1>8, <1>11, AnswersKept, HandledKept
<1>13. Unmade'
  <2>1. \A c \in Calls : call[c] = "idle" => arrival'[c] = arrival[c] /\ (handler[c] = "none" => handler'[c] = "none")
    BY <1>6, <1>8, <1>9
  <2> QED
    BY <1>1, <1>8, <2>1, UnmadeKept
<1>14. Line(p)'
  <2>1. writing'[p] = writing[p] /\ dataQ'[p] = dataQ[p]
    BY <1>2, <1>6, <1>8
  <2>2. /\ Typing /\ Line(p) /\ wire[p] # <<>> /\ Head(wire[p]) = Msg(m) /\ wire'[p] = Tail(wire[p])
        /\ sent'[p] = sent[p] /\ received'[Other(p)] = received[Other(p)] + 1
        /\ arrival' = [arrival EXCEPT ![m] = received[Other(p)] + 1]
        /\ \A c \in Calls : c # m /\ handler[c] = "none" => handler'[c] = "none"
        /\ \A c \in Calls : call[c] # "idle" => call'[c] # "idle"
        /\ open'[p] => open[p]
    BY <1>1, <1>2, <1>4, <1>5, <1>7, <1>8 DEF Unanswered
  <2> QED
    BY <2>1, <2>2, LineArrives
<1>15. Line(e)'
  <2>1. Quiet(e)
    <3>1. \A c \in Calls : Caller(c) = e => c # m
      BY <1>2, <1>6
    <3> QED
      BY <1>4, <1>7, <1>8, <1>9, <3>1, EndsOf DEF Quiet, Unanswered
  <2>2. Typing /\ Line(e) /\ received' \in [Ends -> Nat] /\ wire'[e] = wire[e]
    BY <1>1, <1>2, <1>4
  <2>3. CASE writing'[e] = writing[e] /\ dataQ'[e] = dataQ[e]
    BY <2>1, <2>2, <2>3, LineStays
  <2>4. CASE writing'[e] = <<>> /\ dataQ'[e] = <<>> /\ ~open'[e]
    BY <2>1, <2>2, <2>4, LineCut
  <2> QED
    BY <1>8, <2>3, <2>4
<1> QED
  BY <1>2, <1>10, <1>12, <1>13, <1>14, <1>15, EndsOf DEF DuplexInv

\* Every step of either end keeps the invariant.
LEMMA DuplexStep == DuplexInv /\ [Next]_vars => DuplexInv'
<1> SUFFICES ASSUME DuplexInv, [Next]_vars PROVE DuplexInv'
  OBVIOUS
<1>1. ASSUME NEW e \in Ends, Close(e) \/ StreamEnds(e) PROVE DuplexInv'
  <2>1. CloseEnd(e) /\ UNCHANGED <<wire, received, arrival, sent>>
    BY <1>1 DEF Close, StreamEnds, arrivals, history
  <2> QED
    BY <2>1, CloseStep
<1>2. ASSUME NEW e \in Ends, Write(e) PROVE DuplexInv'
  BY <1>2, WriteStep
<1>3. ASSUME NEW e \in Ends, Read(e) PROVE DuplexInv'
  <2>1. CASE StreamEnds(e)
    BY <1>1, <2>1
  <2>2. ASSUME NEW frame, ReceiveMessage(e, frame) PROVE DuplexInv'
    BY <2>2, MessageStep
  <2>3. ASSUME NEW frame, ReceiveAnswer(e, frame) PROVE DuplexInv'
    BY <2>3, AnswerStep
  <2> QED
    BY <1>3, <2>1, <2>2, <2>3 DEF Read
<1>4. ASSUME NEW c \in Calls, Send(c) PROVE DuplexInv'
  BY <1>4, SendStep
<1>5. ASSUME NEW c \in Calls, CallEnds(c) PROVE DuplexInv'
  BY <1>5, CallEndsStep
<1>6. ASSUME NEW c \in Calls, HandlerReturns(c) PROVE DuplexInv'
  BY <1>6, HandlerStep
<1>8. ASSUME NEW c \in Calls, HandlerPanics(c) PROVE DuplexInv'
  BY <1>8, PanicStep
<1>7. CASE UNCHANGED vars
  <2>1. UNCHANGED <<open, dataQ, controlQ, writer, writing, wire, call, handler, received, arrival, sent>>
    BY <1>7 DEF vars, queues, output, arrivals, history
  <2>2. Typing /\ AnswersInv /\ AckMeansHandled /\ Unmade /\ (\A e \in Ends : Line(e))
    BY DEF DuplexInv
  <2>3. Typing' /\ AckMeansHandled' /\ Unmade'
    BY <2>1, <2>2 DEF Typing, Sessions, Network, AckMeansHandled, Unmade
  <2>4. AnswersInv'
    BY <2>1, <2>2, AnswersKept DEF Settled, Queued
  <2>5. ASSUME NEW e \in Ends PROVE Line(e)'
    <3>1. received' \in [Ends -> Nat] /\ received[Other(e)] \in Nat
      BY <2>1, <2>2, EndsOf DEF Typing, Network
    <3>2. Quiet(e)
      BY <2>1, <3>1 DEF Quiet
    <3>3. wire'[e] = wire[e] /\ writing'[e] = writing[e] /\ dataQ'[e] = dataQ[e]
      BY <2>1
    <3> QED
      BY <2>2, <3>1, <3>2, <3>3, LineStays
  <2> QED
    BY <2>3, <2>4, <2>5 DEF DuplexInv
<1> QED
  BY <1>1, <1>2, <1>3, <1>4, <1>5, <1>6, <1>7, <1>8 DEF Next

----------------------------------------------------------------------------
(* What is proved *)

\* A send that returns an ACK was handled at the other end, and one that
\* returns the peer's error was not: an answer finds its own call, however many
\* are under way and in whatever order their handlers finish.
THEOREM AnswersFindTheirCall == Spec => []AckMeansHandled
<1>1. DuplexInv => AckMeansHandled
  BY DEF DuplexInv
<1> QED
  BY <1>1, DuplexInit, DuplexStep, PTL DEF Spec

\* The messages of one end arrive in the order in which they were queued, and
\* none overtakes or skips another.
THEOREM ArrivalsKeepOrder == Spec => []MessagesInOrder
<1>1. ASSUME DuplexInv PROVE MessagesInOrder
  <2>1. ASSUME NEW e \in Ends, NEW i \in 1..Len(sent[e]), NEW j \in 1..Len(sent[e]), i < j, arrival[sent[e][j]] # 0
        PROVE  arrival[sent[e][i]] # 0 /\ arrival[sent[e][i]] < arrival[sent[e][j]]
    <3>1. sent[e] \in Seq(Calls) /\ Line(e)
      BY <1>1 DEF DuplexInv, Typing, Network
    <3>2. PICK c \in Calls, d \in Calls : c = sent[e][i] /\ d = sent[e][j]
      BY <3>1, ElementOfSeq
    <3>3. SentBefore(e, c, d)
      BY <2>1, <3>2 DEF SentBefore
    <3> QED
      BY <2>1, <3>1, <3>2, <3>3 DEF Line, Arrivals
  <2> QED
    BY <2>1 DEF MessagesInOrder
<1> QED
  BY <1>1, DuplexInit, DuplexStep, PTL DEF Spec
=============================================================================
