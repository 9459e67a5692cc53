--------------------------- MODULE MessagingProofs ---------------------------
(***************************************************************************)
(* Theorems about Messaging.tla: where the errors of calls come from, that *)
(* replies arrive as they were returned, what the frames of a text are,    *)
(* which handlers run, which sizes close a session and which endpoint      *)
(* serves a connection.                                                    *)
(*                                                                         *)
(* WireInv carries most of them: every call has at most one text, in one   *)
(* place, or a task; what has been received of a text is what has been     *)
(* sent of it; and the text of a reply means what has been returned.       *)
(***************************************************************************)
EXTENDS Messaging, SequenceTheorems, Induction

\* What callers have been told is a function on the calls.
Outcomes ==
    /\ outcome = [c \in Calls |-> outcome[c]]
    /\ settledBy = [c \in Calls |-> settledBy[c]]

\* A call that has not returned has no outcome yet.
UnsettledIsPending ==
    \A c \in Calls : settledBy[c] \in {"unsent", "pending"} => outcome[c] = Pending

OriginInv == Outcomes /\ UnsettledIsPending /\ TransportMeansLocal

\* The outcome and the step that makes it agree about where an error comes from.
Agrees(by, result) ==
    /\ by \notin {"unsent", "pending"}
    /\ result.tag = "LocalTransport" <=>
         \/ by \in {"deadline", "close"}
         \/ by = "send" /\ result.what \in {"503", "503 not open"}

----------------------------------------------------------------------------
\* Settling a call with an outcome that agrees keeps the invariant.
LEMMA SettleKeeps ==
    ASSUME OriginInv, NEW c \in Calls, NEW by, NEW result, Agrees(by, result), Settle(c, by, result)
    PROVE  OriginInv'
<1>1. Outcomes'
  BY DEF OriginInv, Outcomes, Settle
<1>2. ASSUME NEW d \in Calls
      PROVE  /\ d = c => outcome'[d] = result /\ settledBy'[d] = by
             /\ d # c => outcome'[d] = outcome[d] /\ settledBy'[d] = settledBy[d]
  BY DEF OriginInv, Outcomes, Settle
<1>3. UnsettledIsPending'
  BY <1>2 DEF OriginInv, UnsettledIsPending, Agrees, Pending, Other
<1>4. TransportMeansLocal'
  BY <1>2 DEF OriginInv, TransportMeansLocal, Agrees
<1> QED
  BY <1>1, <1>3, <1>4 DEF OriginInv

\* A step that tells no caller anything keeps it.
LEMMA SilenceKeeps ==
    ASSUME OriginInv, UNCHANGED <<outcome, settledBy>>
    PROVE  OriginInv'
BY DEF OriginInv, Outcomes, UnsettledIsPending, TransportMeansLocal, Pending, Other

\* What a reply is turned into is never a failure of this end's transport.
LEMMA ReplyIsNoTransportError ==
    ASSUME NEW payload
    PROVE  /\ Agrees("reply", AckResult(payload))
           /\ Agrees("reply", NakError(payload))
BY DEF Agrees, AckResult, NakError, Ok, PeerNak, Other

\* At first no call is settled.
LEMMA OriginInit == Init => OriginInv
BY DEF Init, OriginInv, Outcomes, UnsettledIsPending, TransportMeansLocal, Pending, Other

\* The errors this end settles a call with.
LEMMA LocalErrorsAgree ==
    /\ Agrees("send", Other("500"))
    /\ Agrees("send", Other("413"))
    /\ Agrees("send", Transport("503"))
    /\ Agrees("send", Transport("503 not open"))
    /\ Agrees("deadline", Transport("504"))
    /\ Agrees("close", Transport("503 closed"))
BY DEF Agrees, Other, Transport

\* A call is sent: it is refused here, or queued.
LEMMA SendKeeps ==
    ASSUME OriginInv, NEW c \in Calls, NEW d \in Inputs, Send(c, d)
    PROVE  OriginInv'
<1>1. CASE Settle(c, "send", Other("500"))
  BY <1>1, LocalErrorsAgree, SettleKeeps
<1>2. CASE Settle(c, "send", Other("413"))
  BY <1>2, LocalErrorsAgree, SettleKeeps
<1>3. CASE Settle(c, "send", Transport("503"))
  BY <1>3, LocalErrorsAgree, SettleKeeps
<1>4. CASE Settle(c, "send", Transport("503 not open"))
  BY <1>4, LocalErrorsAgree, SettleKeeps
<1>5. CASE settledBy' = [settledBy EXCEPT ![c] = "pending"] /\ UNCHANGED outcome
  <2>1. settledBy[c] = "unsent"
    BY DEF Send
  <2>2. ASSUME NEW e \in Calls
        PROVE  settledBy'[e] = IF e = c THEN "pending" ELSE settledBy[e]
    BY <1>5 DEF OriginInv, Outcomes
  <2>3. Outcomes'
    BY <1>5 DEF OriginInv, Outcomes
  <2>4. UnsettledIsPending'
    BY <1>5, <2>1, <2>2 DEF OriginInv, UnsettledIsPending, Pending, Other
  <2>5. TransportMeansLocal'
    <3>1. outcome[c].tag = "Other"
      BY <2>1 DEF OriginInv, UnsettledIsPending, Pending, Other
    <3> DEFINE Local(e) == \/ settledBy[e] \in {"deadline", "close"}
                           \/ settledBy[e] = "send" /\ outcome[e].what \in {"503", "503 not open"}
    <3>2. ASSUME NEW e \in Calls
          PROVE  (outcome[e].tag = "LocalTransport" <=> Local(e))'
      <4>1. CASE e = c
        <5>1. settledBy'[e] = "pending" /\ outcome'[e].tag = "Other"
          BY <1>5, <2>2, <3>1, <4>1
        <5> QED
          BY <5>1
      <4>2. CASE e # c
        <5>1. settledBy'[e] = settledBy[e] /\ outcome'[e] = outcome[e]
          BY <1>5, <2>2, <4>2
        <5>2. outcome[e].tag = "LocalTransport" <=> Local(e)
          BY DEF OriginInv, TransportMeansLocal
        <5> QED
          BY <5>1, <5>2
      <4> QED
        BY <4>1, <4>2
    <3> QED
      BY <3>2 DEF TransportMeansLocal
  <2> QED
    BY <2>3, <2>4, <2>5 DEF OriginInv
<1> QED
  BY <1>1, <1>2, <1>3, <1>4, <1>5 DEF Send

\* A reply arrives: it settles its call or is ignored.
LEMMA ReplyKeeps ==
    ASSUME OriginInv, ReceiveReply
    PROVE  OriginInv'
<1> DEFINE frame == Parse(Received(incoming["client"]))
           c == CallOf(frame)
           result == IF frame.kind = "ACK" THEN AckResult(frame.payload) ELSE NakError(frame.payload)
<1>1. CASE settledBy[c] = "pending" /\ c \in Calls
  <2>1. Settle(c, "reply", result)
    BY <1>1 DEF ReceiveReply
  <2>2. Agrees("reply", result)
    BY ReplyIsNoTransportError
  <2> QED
    BY <1>1, <2>1, <2>2, SettleKeeps
<1>2. CASE settledBy[c] # "pending"
  BY <1>2, SilenceKeeps DEF ReceiveReply
<1>3. CASE c \notin Calls
  BY <1>3, SilenceKeeps DEF ReceiveReply, Settle, OriginInv, Outcomes
<1> QED
  BY <1>1, <1>2, <1>3

\* Every step that settles a call gives it an error or a reply of its own kind.
LEMMA OriginStep == OriginInv /\ [Next]_vars => OriginInv'
<1> SUFFICES ASSUME OriginInv, [Next]_vars
             PROVE  OriginInv'
  OBVIOUS
<1> USE SilenceKeeps
<1>1. ASSUME NEW request \in Requests, Connect(request) PROVE OriginInv'
  BY <1>1 DEF Connect, calls
<1>2. ASSUME NEW h \in DOMAIN Handlers, On(h) PROVE OriginInv'
  BY <1>2 DEF On, calls
<1>3. ASSUME NEW type \in Types, Off(type) PROVE OriginInv'
  BY <1>3 DEF Off, calls
<1>4. ASSUME NEW c \in Calls, TimesOut(c) PROVE OriginInv'
  <2>1. Settle(c, "deadline", Transport("504"))
    BY <1>4 DEF TimesOut
  <2> QED
    BY <2>1, LocalErrorsAgree, SettleKeeps
<1>5. ASSUME NEW c \in Calls, FailPending(c) PROVE OriginInv'
  <2>1. Settle(c, "close", Transport("503 closed"))
    BY <1>5 DEF FailPending
  <2> QED
    BY <2>1, LocalErrorsAgree, SettleKeeps
<1>6. ASSUME NEW c \in Calls, Finishes(c) PROVE OriginInv'
  BY <1>6 DEF Finishes
<1>7. ASSUME NEW p \in Ends, NEW text \in out[p], StartWriting(p, text) PROVE OriginInv'
  BY <1>7 DEF StartWriting, calls
<1>8. ASSUME NEW p \in Ends, WriteFragment(p) PROVE OriginInv'
  BY <1>8 DEF WriteFragment, calls
<1>9. ASSUME NEW p \in Ends, ReceiveOversized(p) PROVE OriginInv'
  BY <1>9 DEF ReceiveOversized, calls
<1>10. ASSUME NEW p \in Ends, Close(p) PROVE OriginInv'
  BY <1>10 DEF Close, calls
<1>11. CASE HandleMessage
  BY <1>11 DEF HandleMessage
<1>12. CASE UNCHANGED vars
  BY <1>12 DEF vars, calls
<1> QED
  BY <1>1, <1>2, <1>3, <1>4, <1>5, <1>6, <1>7, <1>8, <1>9, <1>10, <1>11, <1>12,
     SendKeeps, ReplyKeeps
     DEF Next, Rejects, Panics, Returns, Fails

\* is_transport() is true of exactly the errors this end made itself because it
\* could not carry the call: no NAK of the peer has it, whatever it contains
\* (VcmpError::into_peer_error), for any calls, values, limits and handlers.
THEOREM ErrorOrigin == Spec => []TransportMeansLocal
<1>1. OriginInv => TransportMeansLocal
  BY DEF OriginInv
<1> QED
  BY OriginInit, OriginStep, <1>1, PTL DEF Spec
----------------------------------------------------------------------------
(* Texts *)

\* What the frames of an end have for a payload.
Payloads == {Encoding[d] : d \in Docs} \cup {<<>>}

Characters == Alphabet \cup IdBytes \cup {"MSG", "ACK", "NAK"}

\* The text of a frame: its type, its id and its payload.
LEMMA TextOf ==
  ASSUME NEW k \in {"MSG", "ACK", "NAK"}, NEW c \in Calls, NEW x \in Payloads,
         NEW t, t = Serialize(Frame(k, Id(c), x))
  PROVE  /\ t \in Seq(Characters) /\ x \in Seq(Characters) /\ Id(c) \in Seq(Characters)
         /\ Len(Id(c)) = IdLength /\ Len(t) = Header + Len(x)
         /\ t[1] = k
         /\ \A i \in 1..IdLength : Id(c)[i] = c /\ t[1 + i] = c
         /\ \A i \in 1..Len(x) : t[Header + i] = x[i]
<1>1. c \in IdBytes /\ c \in Characters /\ k \in Characters /\ IdLength \in Nat /\ IdLength >= 1
  BY MessagingAssumption, WireAssumption DEF Characters
<1>2. x \in Seq(Characters)
  <2>1. CASE x = <<>>
    BY <2>1
  <2>2. CASE x # <<>>
    <3>1. x \in Seq(Alphabet)
      BY <2>2, MessagingAssumption DEF Payloads
    <3> QED
      BY <3>1, SeqMonotonic DEF Characters
  <2> QED
    BY <2>1, <2>2
<1>3. /\ Id(c) \in Seq(Characters) /\ Len(Id(c)) = IdLength
      /\ \A i \in 1..IdLength : Id(c)[i] = c
  <2>1. Id(c) \in [1..IdLength -> Characters] /\ \A i \in 1..IdLength : Id(c)[i] = c
    BY <1>1 DEF Id
  <2>2. Id(c) \in Seq(Characters)
    BY <1>1, <2>1, SeqDef
  <2>3. Len(Id(c)) = IdLength
    BY <1>1, <2>1, <2>2
  <2> QED
    BY <2>1, <2>2, <2>3
<1>4. t = (<<k>> \o Id(c)) \o x
  BY DEF Serialize, Frame
<1> DEFINE h == <<k>> \o Id(c)
<1>5. <<k>> \in Seq(Characters) /\ Len(<<k>>) = 1 /\ <<k>>[1] = k
  BY <1>1
<1>6. /\ h \in Seq(Characters) /\ Len(h) = Header /\ h[1] = k
      /\ \A i \in 1..IdLength : h[1 + i] = c
  <2>1. /\ h \in Seq(Characters) /\ Len(h) = 1 + IdLength
        /\ \A i \in 1..1 + IdLength : h[i] = IF i <= 1 THEN <<k>>[i] ELSE Id(c)[i - 1]
    BY <1>3, <1>5, ConcatProperties
  <2> HIDE DEF h
  <2> QED
    BY <1>1, <1>3, <1>5, <2>1 DEF Header
<1> HIDE DEF h
<1>7. /\ t \in Seq(Characters) /\ Len(t) = Len(h) + Len(x)
      /\ \A i \in 1..Len(h) + Len(x) : t[i] = IF i <= Len(h) THEN h[i] ELSE x[i - Len(h)]
  BY <1>2, <1>4, <1>6, ConcatProperties DEF h
<1>8. Len(x) \in Nat
  BY <1>2
<1>9. t[1] = k
  BY <1>1, <1>6, <1>7, <1>8 DEF Header
<1>10. \A i \in 1..IdLength : t[1 + i] = c
  BY <1>1, <1>6, <1>7, <1>8 DEF Header
<1>11. \A i \in 1..Len(x) : t[Header + i] = x[i]
  BY <1>1, <1>6, <1>7, <1>8 DEF Header
<1> QED
  BY <1>2, <1>3, <1>6, <1>7, <1>9, <1>10, <1>11

\* Frame::parse reads what Frame::serialize wrote.
LEMMA ParseSerialize ==
  ASSUME NEW k \in {"MSG", "ACK", "NAK"}, NEW c \in Calls, NEW x \in Payloads,
         NEW t, t = Serialize(Frame(k, Id(c), x))
  PROVE  Parse(t) = Frame(k, Id(c), x)
<1>0. c \in IdBytes /\ IdLength \in Nat /\ IdLength >= 1 /\ c \notin Continuation
  BY MessagingAssumption, WireAssumption
<1>1. /\ t \in Seq(Characters) /\ x \in Seq(Characters) /\ Id(c) \in Seq(Characters)
      /\ Len(Id(c)) = IdLength /\ Len(t) = Header + Len(x) /\ Len(x) \in Nat
      /\ t[1] = k
      /\ \A i \in 1..IdLength : Id(c)[i] = c /\ t[1 + i] = c
      /\ \A i \in 1..Len(x) : t[Header + i] = x[i]
  BY TextOf
<1>2. IsBoundary(t, 1)
  <2>1. t[2] = c
    BY <1>0, <1>1
  <2> QED
    BY <1>0, <1>1, <2>1 DEF IsBoundary, Header
<1>3. IsBoundary(t, Header)
  <2>1. CASE x = <<>>
    BY <1>0, <1>1, <2>1 DEF IsBoundary, Header
  <2>2. CASE x # <<>>
    <3>1. x[1] \notin Continuation
      BY <2>2, MessagingAssumption DEF Payloads
    <3>2. Len(x) >= 1
      BY <1>1, <2>2, EmptySeq
    <3>3. t[Header + 1] = x[1]
      BY <1>1, <3>2
    <3> QED
      BY <1>0, <1>1, <3>1, <3>2, <3>3 DEF IsBoundary, Header
  <2> QED
    BY <2>1, <2>2
<1>4. SubSeq(t, 2, Header) = Id(c)
  <2>1. \A i \in 2..Header : t[i] \in Characters
    BY <1>0, <1>1 DEF Header
  <2>2. /\ SubSeq(t, 2, Header) \in Seq(Characters) /\ Len(SubSeq(t, 2, Header)) = IdLength
        /\ \A i \in 1..IdLength : SubSeq(t, 2, Header)[i] = t[1 + i]
    BY <1>0, <2>1, SubSeqProperties DEF Header
  <2> QED
    BY <1>1, <2>2, SeqEqual
<1>5. SubSeq(t, Header + 1, Len(t)) = x
  <2>1. \A i \in (Header + 1)..Len(t) : t[i] \in Characters
    BY <1>0, <1>1 DEF Header
  <2>2. /\ SubSeq(t, Header + 1, Len(t)) \in Seq(Characters)
        /\ Len(SubSeq(t, Header + 1, Len(t))) = Len(x)
        /\ \A i \in 1..Len(x) : SubSeq(t, Header + 1, Len(t))[i] = t[Header + i]
    BY <1>0, <1>1, <2>1, SubSeqProperties DEF Header
  <2> QED
    BY <1>1, <2>2, SeqEqual
<1>6. Bytes(Id(c)) \subseteq IdBytes
  <2>1. DOMAIN Id(c) = 1..IdLength
    BY DEF Id
  <2> QED
    BY <1>0, <1>1, <2>1 DEF Bytes
<1> QED
  BY <1>1, <1>2, <1>3, <1>4, <1>5, <1>6 DEF Parse

\* The call a text belongs to, and what it says of its outcome.
Owner(t) == CallOf(Parse(t))
Meaning(t) ==
    IF Parse(t).kind = "ACK" THEN AckResult(Parse(t).payload) ELSE NakError(Parse(t).payload)

\* The text of a frame is read as the frame it was written from.
LEMMA OwnerOf ==
  ASSUME NEW k \in {"MSG", "ACK", "NAK"}, NEW c \in Calls, NEW x \in Payloads,
         NEW t, t = Serialize(Frame(k, Id(c), x))
  PROVE  /\ Owner(t) = c /\ Parse(t).kind = k /\ Parse(t).payload = x
         /\ Meaning(t) = IF k = "ACK" THEN AckResult(x) ELSE NakError(x)
<1>1. Parse(t) = Frame(k, Id(c), x)
  BY ParseSerialize
<1>2. \A d \in Calls : Id(d) = Id(c) => d = c
  <2> SUFFICES ASSUME NEW d \in Calls, Id(d) = Id(c) PROVE d = c
    OBVIOUS
  <2>1. 1 \in 1..IdLength
    BY WireAssumption
  <2>2. Id(d)[1] = d /\ Id(c)[1] = c
    BY <2>1 DEF Id
  <2> QED
    BY <2>2
<1>3. CallOf(Parse(t)) = c
  BY <1>1, <1>2 DEF CallOf, Frame
<1> QED
  BY <1>1, <1>3 DEF Owner, Meaning, Frame

\* serde_json::from_str reads what it wrote.
LEMMA DecodeEncoding == \A d \in Docs : Decode(Encoding[d]) = d
BY MessagingAssumption DEF Decode

----------------------------------------------------------------------------
(* Fragments *)

\* The equation of FlattenSeq.
Flattening(s, flat) ==
    flat = [i \in 1..Len(s) |-> IF i = 1 THEN s[i] ELSE flat[i - 1] \o s[i]]

\* FlattenSeq is the last value of a function that adds part after part.
LEMMA FlattenIsFlattening ==
  ASSUME NEW s, Len(s) # 0
  PROVE  FlattenSeq(s) = (CHOOSE flat : Flattening(s, flat))[Len(s)]
BY DEF FlattenSeq, Flattening

\* How that function goes from part to part.
LEMMA FlatteningUnfolds ==
  ASSUME NEW B, NEW s \in Seq(Seq(B)), NEW flat, Flattening(s, flat)
  PROVE  \A i \in 1..Len(s) : flat[i] = IF i = 1 THEN s[i] ELSE flat[i - 1] \o s[i]
BY DEF Flattening

\* There is such a function, by induction over the number of parts.
LEMMA FlatteningExists ==
  ASSUME NEW B, NEW s \in Seq(Seq(B))
  PROVE  \E flat \in [1..Len(s) -> Seq(B)] : Flattening(s, flat)
<1> DEFINE V == Seq(B)
           Part(n) == IF n + 1 \in 1..Len(s) THEN s[n + 1] ELSE <<>>
           step == [p \in Nat \X V |-> p[2] \o Part(p[1])]
<1>1. \A n \in Nat : Part(n) \in V
  BY ElementOfSeq, EmptySeq
<1>2. step \in [Nat \X V -> V]
  <2> HIDE DEF Part
  <2> QED
    BY <1>1, ConcatProperties
<1>3. <<>> \in V
  BY EmptySeq
<1>4. Iterates(V, <<>>, step) # {}
  <2> HIDE DEF V, step
  <2> QED
    BY <1>2, <1>3, PrimitiveRecursion
<1>5. PICK F \in [Nat -> V] : F[0] = <<>> /\ \A n \in Nat : F[n + 1] = step[<<n, F[n]>>]
  <2> HIDE DEF V, step
  <2> QED
    BY <1>4 DEF Iterates
<1>6. ASSUME NEW n \in Nat PROVE F[n + 1] = F[n] \o Part(n)
  <2>1. F[n] \in V
    BY <1>5
  <2> HIDE DEF V, Part
  <2> QED
    BY <1>5, <2>1
<1> DEFINE flat == [i \in 1..Len(s) |-> F[i]]
<1>7. Len(s) \in Nat
  OBVIOUS
<1>8. flat \in [1..Len(s) -> V]
  BY <1>5, <1>7
<1>9. ASSUME NEW i \in 1..Len(s) PROVE flat[i] = IF i = 1 THEN s[i] ELSE flat[i - 1] \o s[i]
  <2>1. i - 1 \in Nat /\ (i - 1) + 1 = i /\ Part(i - 1) = s[i]
    BY <1>7
  <2>2. F[i] = F[i - 1] \o s[i]
    BY <1>6, <2>1
  <2>3. CASE i = 1
    <3>1. F[i - 1] = <<>> /\ s[i] \in Seq(B)
      BY <1>5, <2>3, ElementOfSeq
    <3>2. F[i] = s[i]
      BY <2>2, <3>1, ConcatEmptySeq
    <3> QED
      BY <2>3, <3>2
  <2>4. CASE i # 1
    <3>1. i - 1 \in 1..Len(s)
      BY <1>7, <2>4
    <3> QED
      BY <2>2, <2>4, <3>1
  <2> QED
    BY <2>3, <2>4
<1>10. Flattening(s, flat)
  <2>1. flat = [i \in 1..Len(s) |-> flat[i]]
    OBVIOUS
  <2> HIDE DEF flat
  <2> QED
    BY <1>9, <2>1 DEF Flattening
<1> QED
  BY <1>8, <1>10

Begins(s, t) == Len(s) <= Len(t) /\ \A i \in 1..Len(s) : s[i] = t[i]

\* Sequences that begin alike are flattened alike.
LEMMA FlatteningAgrees ==
  ASSUME NEW B, NEW s \in Seq(Seq(B)), NEW t \in Seq(Seq(B)), Begins(s, t),
         NEW a, Flattening(s, a), NEW b, Flattening(t, b)
  PROVE  \A i \in 1..Len(s) : a[i] = b[i]
<1>0. Len(s) \in Nat /\ Len(t) \in Nat /\ Len(s) <= Len(t) /\ \A i \in 1..Len(s) : s[i] = t[i]
  BY DEF Begins
<1> DEFINE N == {n \in Nat : n \in 1..Len(s) => a[n] = b[n]}
<1>1. 0 \in N
  OBVIOUS
<1>2. ASSUME NEW n \in Nat, n \in N PROVE n + 1 \in N
  <2> SUFFICES ASSUME n + 1 \in 1..Len(s) PROVE a[n + 1] = b[n + 1]
    OBVIOUS
  <2> DEFINE m == n + 1
  <2>1. m \in 1..Len(s) /\ m \in 1..Len(t) /\ s[m] = t[m] /\ m - 1 = n
    BY <1>0
  <2> HIDE DEF m
  <2>2. /\ a[m] = IF m = 1 THEN s[m] ELSE a[m - 1] \o s[m]
        /\ b[m] = IF m = 1 THEN t[m] ELSE b[m - 1] \o t[m]
    BY <2>1, FlatteningUnfolds
  <2>3. m # 1 => a[n] = b[n]
    BY <1>2, <2>1
  <2> QED
    BY <2>1, <2>2, <2>3 DEF m
<1>3. Nat \subseteq N
  <2> HIDE DEF N
  <2> QED
    BY <1>1, <1>2, Naturals_Induction
<1> QED
  BY <1>3

\* One more part comes last.
LEMMA FlattenMore ==
  ASSUME NEW B, NEW s \in Seq(Seq(B)), NEW t \in Seq(Seq(B)),
         Len(t) = Len(s) + 1, \A i \in 1..Len(s) : s[i] = t[i]
  PROVE  FlattenSeq(s) \in Seq(B) /\ FlattenSeq(t) = FlattenSeq(s) \o t[Len(t)]
<1> DEFINE a == CHOOSE flat : Flattening(s, flat)
           b == CHOOSE flat : Flattening(t, flat)
<1>1. PICK c \in [1..Len(s) -> Seq(B)] : Flattening(s, c)
  BY FlatteningExists
<1>2. PICK d \in [1..Len(t) -> Seq(B)] : Flattening(t, d)
  BY FlatteningExists
<1>3. Flattening(s, a) /\ Flattening(t, b)
  BY <1>1, <1>2
<1>4. Len(t) # 0 /\ FlattenSeq(t) = b[Len(t)]
  BY FlattenIsFlattening
<1>5. Len(s) # 0 => FlattenSeq(s) = a[Len(s)]
  BY FlattenIsFlattening
<1> HIDE DEF a, b
<1>6. \A i \in 1..Len(s) : a[i] = b[i] /\ a[i] = c[i]
  <2>1. Begins(s, s) /\ Begins(s, t)
    <3>1. Len(s) \in Nat /\ Len(t) = Len(s) + 1
      OBVIOUS
    <3> QED
      BY <3>1 DEF Begins
  <2>2. \A i \in 1..Len(s) : a[i] = b[i]
    BY <1>3, <2>1, FlatteningAgrees
  <2>3. \A i \in 1..Len(s) : a[i] = c[i]
    BY <1>1, <1>3, <2>1, FlatteningAgrees
  <2> QED
    BY <2>2, <2>3
<1>7. \A i \in 1..Len(t) : b[i] = IF i = 1 THEN t[i] ELSE b[i - 1] \o t[i]
  BY <1>3, FlatteningUnfolds
<1>8. CASE Len(s) = 0
  <2>1. FlattenSeq(s) = <<>>
    BY <1>8, EmptySeq DEF FlattenSeq
  <2>2. FlattenSeq(t) = t[Len(t)] /\ t[Len(t)] \in Seq(B)
    BY <1>4, <1>7, <1>8, ElementOfSeq
  <2> QED
    BY <2>1, <2>2, ConcatEmptySeq, EmptySeq
<1>9. CASE Len(s) # 0
  <2>1. Len(s) \in 1..Len(s) /\ Len(t) \in 1..Len(t) /\ Len(t) # 1 /\ Len(t) - 1 = Len(s)
    BY <1>9
  <2>2. b[Len(t)] = b[Len(s)] \o t[Len(t)]
    BY <1>7, <2>1
  <2>3. b[Len(s)] = FlattenSeq(s) /\ FlattenSeq(s) = c[Len(s)]
    BY <1>5, <1>6, <2>1
  <2> QED
    BY <1>1, <1>4, <2>1, <2>2, <2>3
<1> QED
  BY <1>8, <1>9

Fragments == [opcode : {"Text", "Continue"}, bytes : Seq(Characters), fin : BOOLEAN]

\* Nothing has been received of no frames.
LEMMA ReceivedNone == Received(<<>>) = <<>>
<1>1. [i \in DOMAIN <<>> |-> <<>>[i].bytes] = <<>>
  OBVIOUS
<1> QED
  BY <1>1 DEF Received, FlattenSeq

\* The bytes of the fragments, as Received flattens them.
Parts(frames) == [i \in DOMAIN frames |-> frames[i].bytes]

\* The bytes of a sequence of fragments.
LEMMA PartsOf ==
  ASSUME NEW frames \in Seq(Fragments)
  PROVE  /\ Parts(frames) \in Seq(Seq(Characters)) /\ Len(Parts(frames)) = Len(frames)
         /\ \A i \in 1..Len(frames) : Parts(frames)[i] = frames[i].bytes
<1>1. Len(frames) \in Nat /\ DOMAIN frames = 1..Len(frames)
  BY LenProperties
<1>2. ASSUME NEW i \in 1..Len(frames) PROVE frames[i].bytes \in Seq(Characters)
  <2>1. frames[i] \in Fragments
    BY ElementOfSeq
  <2> QED
    BY <2>1 DEF Fragments
<1>3. Parts(frames) \in [1..Len(frames) -> Seq(Characters)]
  BY <1>1, <1>2 DEF Parts
<1>4. Parts(frames) \in Seq(Seq(Characters))
  BY <1>1, <1>3, SeqDef
<1>5. DOMAIN Parts(frames) = 1..Len(frames) /\ DOMAIN Parts(frames) = 1..Len(Parts(frames))
  BY <1>3, <1>4, LenProperties
<1>6. Len(Parts(frames)) = Len(frames)
  BY <1>1, <1>4, <1>5, LenProperties
<1> QED
  BY <1>1, <1>4, <1>6 DEF Parts

\* A fragment adds its bytes to what has been received.
LEMMA ReceivedMore ==
  ASSUME NEW frames \in Seq(Fragments), NEW next \in Fragments
  PROVE  /\ Received(frames) \in Seq(Characters)
         /\ Received(Append(frames, next)) = Received(frames) \o next.bytes
<1> DEFINE more == Append(frames, next)
           s == Parts(frames)
           t == Parts(more)
<1>1. /\ more \in Seq(Fragments) /\ Len(more) = Len(frames) + 1
      /\ \A i \in 1..Len(frames) : more[i] = frames[i]
      /\ more[Len(more)] = next
  BY AppendProperties
<1> HIDE DEF more
<1>2. /\ s \in Seq(Seq(Characters)) /\ Len(s) = Len(frames)
      /\ \A i \in 1..Len(frames) : s[i] = frames[i].bytes
  BY PartsOf
<1>3. /\ t \in Seq(Seq(Characters)) /\ Len(t) = Len(more)
      /\ \A i \in 1..Len(more) : t[i] = more[i].bytes
  BY <1>1, PartsOf
<1>4. Received(frames) = FlattenSeq(s) /\ Received(more) = FlattenSeq(t)
  BY DEF Received, Parts
<1> HIDE DEF s, t
<1>5. Len(frames) \in Nat
  OBVIOUS
<1>6. Len(t) = Len(s) + 1 /\ t[Len(t)] = next.bytes
  BY <1>1, <1>2, <1>3, <1>5
<1>7. ASSUME NEW i \in 1..Len(s) PROVE s[i] = t[i]
  <2>1. i \in 1..Len(frames) /\ i \in 1..Len(more)
    BY <1>1, <1>2, <1>5
  <2> QED
    BY <1>1, <1>2, <1>3, <2>1
<1>8. FlattenSeq(s) \in Seq(Characters) /\ FlattenSeq(t) = FlattenSeq(s) \o t[Len(t)]
  BY <1>2, <1>3, <1>6, <1>7, FlattenMore
<1> QED
  BY <1>4, <1>6, <1>8 DEF more

\* A set of numbers with a bound has a greatest one.
LEMMA MaxOf ==
  ASSUME NEW a \in Int, NEW b \in Int, NEW S \in SUBSET (a..b), S # {}
  PROVE  Max(S) \in S /\ \A y \in S : y <= Max(S)
<1> DEFINE T == {n \in Nat : b - n \in S}
<1>1. T # {} /\ T \subseteq Nat
  <2>1. PICK y \in S : TRUE
    OBVIOUS
  <2>2. b - y \in Nat /\ b - (b - y) = y
    BY <2>1
  <2> QED
    BY <2>1, <2>2
<1>2. PICK m \in T : \A n \in T : <<n, m>> \notin Less
  <2> HIDE DEF T
  <2> QED
    BY <1>1, LessWellFounded, WFMin
<1>3. b - m \in S
  OBVIOUS
<1>4. ASSUME NEW y \in S PROVE y <= b - m
  <2>1. b - y \in Nat /\ b - (b - y) = y
    OBVIOUS
  <2>2. b - y \in T
    BY <2>1
  <2>3. ~(b - y < m)
    BY <1>2, <2>2 DEF Less
  <2> QED
    BY <2>1, <2>3
<1>5. \E x \in S : \A y \in S : x >= y
  <2>1. \A y \in S : b - m >= y
    BY <1>4
  <2> QED
    BY <1>3, <2>1
<1>6. Max(S) \in S /\ \A y \in S : Max(S) >= y
  BY <1>5 DEF Max
<1>7. ASSUME NEW y \in S PROVE y <= Max(S)
  BY <1>6
<1> QED
  BY <1>6, <1>7

\* message_fragments makes progress, keeps to the size and splits a character
\* only if it does not fit.
LEMMA EndOf ==
  ASSUME NEW text \in Seq(Characters), NEW start \in Nat, start < Len(text), NEW size \in Nat
  PROVE  LET end == FragmentEnd(text, start, size) IN
         /\ end \in (start + 1)..Len(text)
         /\ size # 0 => end - start <= size
         /\ IsBoundary(text, end) \/ \A n \in (start + 1)..end : ~IsBoundary(text, n)
<1>0. Len(text) \in Nat
  OBVIOUS
<1> DEFINE limit == IF size = 0 \/ Len(text) - start <= size THEN Len(text) ELSE start + size
           ends == {i \in (start + 1)..limit : IsBoundary(text, i)}
<1>1. limit \in (start + 1)..Len(text) /\ (size # 0 => limit - start <= size)
  BY <1>0
<1> HIDE DEF limit
<1>2. CASE ends = {}
  <2>1. FragmentEnd(text, start, size) = limit
    BY <1>2 DEF FragmentEnd, limit
  <2> QED
    BY <1>1, <1>2, <2>1
<1>3. CASE ends # {}
  <2>1. FragmentEnd(text, start, size) = Max(ends)
    BY <1>3 DEF FragmentEnd, limit
  <2>2. start + 1 \in Int /\ limit \in Int /\ ends \in SUBSET ((start + 1)..limit)
    BY <1>1
  <2>3. Max(ends) \in ends
    <3> HIDE DEF ends
    <3> QED
      BY <1>3, <2>2, MaxOf
  <2> QED
    BY <1>0, <1>1, <2>1, <2>3
<1> QED
  BY <1>2, <1>3

\* What message_fragments makes of the rest of a text.
LEMMA NextOf ==
  ASSUME NEW text \in Seq(Characters), NEW start \in Nat, start < Len(text), NEW size \in Nat,
         NEW end, end = FragmentEnd(text, start, size),
         NEW next, next = NextFragment(text, start, size)
  PROVE  /\ next \in Fragments
         /\ next.bytes = SubSeq(text, start + 1, end) /\ Len(next.bytes) = end - start
         /\ next.opcode = (IF start = 0 THEN "Text" ELSE "Continue")
         /\ (next.fin <=> end = Len(text))
<1>1. end \in (start + 1)..Len(text) /\ Len(text) \in Nat
  BY EndOf
<1>2. \A i \in (start + 1)..end : text[i] \in Characters
  BY <1>1
<1>3. SubSeq(text, start + 1, end) \in Seq(Characters) /\ Len(SubSeq(text, start + 1, end)) = end - start
  BY <1>1, <1>2, SubSeqProperties
<1> QED
  BY <1>3 DEF NextFragment, Fragments

----------------------------------------------------------------------------
(* Where the text of a call is *)

Kinds(p) == IF p = "client" THEN {"MSG"} ELSE {"ACK", "NAK"}

\* The texts an end may put on the wire.
Sendable(p) ==
    {t \in {Serialize(Frame(k, Id(c), x)) : k \in Kinds(p), c \in Calls, x \in Payloads} :
        Len(t) <= Limit[p]}

\* In the queue, at the writer, or at the other end.
Sending(p) == IF writing[p] = Nothing THEN {} ELSE {writing[p].text}
Arrived(p) == IF Complete(Peer(p)) THEN {Received(incoming[Peer(p)])} ELSE {}
UnderWay(p) == out[p] \cup Sending(p) \cup Arrived(p)

\* A text is in one place, and what has been sent of the one that is being
\* written has been received, and no more.
Flows(p) ==
    /\ UnderWay(p) \subseteq Sendable(p)
    /\ out[p] \cap Sending(p) = {} /\ out[p] \cap Arrived(p) = {} /\ Sending(p) \cap Arrived(p) = {}
    /\ writing[p] # Nothing => writing[p].start < Len(writing[p].text)
    /\ IF Complete(Peer(p)) THEN writing[p].start = 0
       ELSE Received(incoming[Peer(p)]) = SubSeq(writing[p].text, 1, writing[p].start)

\* The texts of a call that are under way.
TextsOf(c, p) == {t \in UnderWay(p) : Owner(t) = c}

\* A call that may still have a text or a task at the server's side.
Busy(c) == settledBy[c] \notin {"unsent", "reply"} /\ c \notin oversized

\* A call has one text, or a task, or nothing any more; its reply says what has
\* been returned for it.
OneToken(c) ==
    /\ \A p, r \in Ends : \A t \in TextsOf(c, p), s \in TextsOf(c, r) : p = r /\ t = s
    /\ \A p \in Ends : TextsOf(c, p) # {} => Busy(c) /\ running[c] = NoTask
    /\ running[c] # NoTask => Busy(c)
    /\ \A t \in TextsOf(c, "server") : Meaning(t) = returned[c]
    /\ settledBy[c] = "unsent" => c \notin oversized

Shapes ==
    /\ out = [p \in Ends |-> out[p]]
    /\ writing \in [Ends -> [text : Seq(Characters), start : Nat]]
    /\ incoming \in [Ends -> Seq(Fragments)]
    /\ running = [c \in Calls |-> running[c]] /\ returned = [c \in Calls |-> returned[c]]
    /\ Outcomes

WireInv ==
    /\ Shapes
    /\ \A p \in Ends : Flows(p)
    /\ \A c \in Calls : OneToken(c)

\* There are two ends, each the peer of the other.
LEMMA PeerOf ==
    /\ Peer("client") = "server" /\ Peer("server") = "client"
    /\ \A p \in Ends : Peer(p) \in Ends /\ Peer(Peer(p)) = p /\ Peer(p) # p
BY DEF Peer, Ends

\* A text that may be sent is a frame of a call that fits the limit.
LEMMA SendableOf ==
  ASSUME NEW p \in Ends, NEW t \in Sendable(p)
  PROVE  /\ t \in Seq(Characters) /\ Len(t) \in Nat /\ Len(t) > 0 /\ Len(t) <= Limit[p]
         /\ Owner(t) \in Calls /\ Parse(t).kind \in Kinds(p) /\ Parse(t).payload \in Payloads
<1>1. PICK k \in Kinds(p), c \in Calls, x \in Payloads : t = Serialize(Frame(k, Id(c), x))
  BY DEF Sendable
<1>2. k \in {"MSG", "ACK", "NAK"}
  BY DEF Kinds
<1>3. t \in Seq(Characters) /\ Len(t) = Header + Len(x) /\ x \in Seq(Characters)
  BY <1>1, <1>2, TextOf
<1>4. Len(t) > 0 /\ Len(t) \in Nat
  BY <1>3, WireAssumption DEF Header
<1>5. Owner(t) = c /\ Parse(t).kind = k /\ Parse(t).payload = x
  BY <1>1, <1>2, OwnerOf
<1> QED
  BY <1>3, <1>4, <1>5 DEF Sendable

\* A direction whose queue, writer and receiver stay is as it was.
LEMMA FlowStays ==
  ASSUME NEW p \in Ends, Flows(p),
         out'[p] = out[p], writing'[p] = writing[p], incoming'[Peer(p)] = incoming[Peer(p)]
  PROVE  Flows(p)' /\ UnderWay(p)' = UnderWay(p)
BY DEF Flows, UnderWay, Sending, Arrived, Complete

\* A new text is queued.
LEMMA FlowPush ==
  ASSUME NEW p \in Ends, Flows(p), NEW t \in Sendable(p), t \notin UnderWay(p),
         out'[p] = out[p] \cup {t}, writing'[p] = writing[p], incoming'[Peer(p)] = incoming[Peer(p)]
  PROVE  Flows(p)' /\ UnderWay(p)' = UnderWay(p) \cup {t}
<1>1. Sending(p)' = Sending(p) /\ Arrived(p)' = Arrived(p) /\ Complete(Peer(p))' = Complete(Peer(p))
  BY DEF Sending, Arrived, Complete
<1>2. UnderWay(p)' = UnderWay(p) \cup {t}
  BY <1>1 DEF UnderWay
<1>3. t \notin Sending(p) /\ t \notin Arrived(p)
  BY DEF UnderWay
<1>4. UnderWay(p)' \subseteq Sendable(p)
  BY <1>2 DEF Flows
<1>5. out'[p] \cap Sending(p)' = {} /\ out'[p] \cap Arrived(p)' = {} /\ Sending(p)' \cap Arrived(p)' = {}
  BY <1>1, <1>3 DEF Flows
<1> QED
  BY <1>1, <1>2, <1>4, <1>5 DEF Flows

\* The writer takes a text.
LEMMA FlowStart ==
  ASSUME NEW p \in Ends, Flows(p), NEW t \in out[p], writing[p] = Nothing,
         out'[p] = out[p] \ {t}, writing'[p] = [text |-> t, start |-> 0],
         incoming'[Peer(p)] = incoming[Peer(p)]
  PROVE  Flows(p)' /\ UnderWay(p)' = UnderWay(p)
<1>1. t \in Sendable(p)
  BY DEF Flows, UnderWay
<1>2. t \in Seq(Characters) /\ Len(t) \in Nat /\ Len(t) > 0
  BY <1>1, SendableOf
<1>3. writing'[p] # Nothing
  BY <1>2 DEF Nothing
<1>4. /\ Sending(p) = {} /\ Sending(p)' = {t}
      /\ Arrived(p)' = Arrived(p) /\ Complete(Peer(p))' = Complete(Peer(p))
  BY <1>3 DEF Sending, Arrived, Complete
<1>5. UnderWay(p)' = UnderWay(p)
  BY <1>4 DEF UnderWay
<1>6. out'[p] \cap Sending(p)' = {} /\ out'[p] \cap Arrived(p)' = {} /\ Sending(p)' \cap Arrived(p)' = {}
  BY <1>4 DEF Flows
<1>7. writing'[p].start < Len(writing'[p].text)
  BY <1>2
<1>8. ~Complete(Peer(p)) => Received(incoming[Peer(p)]) = SubSeq(t, 1, 0)
  <2>1. SubSeq(<<>>, 1, 0) = <<>> /\ SubSeq(t, 1, 0) = <<>>
    BY SubSeqEmpty
  <2> QED
    BY <2>1 DEF Flows, Nothing
<1> QED
  BY <1>4, <1>5, <1>6, <1>7, <1>8 DEF Flows

\* The other end takes the text it has received.
LEMMA FlowTake ==
  ASSUME NEW p \in Ends, Flows(p), Complete(Peer(p)),
         out'[p] = out[p], writing'[p] = writing[p], incoming'[Peer(p)] = <<>>
  PROVE  /\ Flows(p)' /\ Received(incoming[Peer(p)]) \in UnderWay(p)
         /\ UnderWay(p)' = UnderWay(p) \ {Received(incoming[Peer(p)])}
<1> DEFINE t == Received(incoming[Peer(p)])
<1>1. ~Complete(Peer(p))'
  BY DEF Complete
<1>2. Arrived(p) = {t} /\ Arrived(p)' = {} /\ Sending(p)' = Sending(p)
  BY <1>1 DEF Arrived, Sending
<1>3. t \in UnderWay(p) /\ UnderWay(p)' = UnderWay(p) \ {t}
  BY <1>2 DEF UnderWay, Flows
<1>4. Received(incoming'[Peer(p)]) = SubSeq(writing'[p].text, 1, writing'[p].start)
  <2>1. writing'[p].start = 0
    BY DEF Flows
  <2>2. SubSeq(writing'[p].text, 1, 0) = <<>>
    BY SubSeqEmpty
  <2> QED
    BY <2>1, <2>2, ReceivedNone
<1> QED
  BY <1>1, <1>2, <1>3, <1>4 DEF Flows

Holds(frames, text, n) == Received(frames) = SubSeq(text, 1, n)

\* The next fragment of a text of which the frames hold the first bytes.
Extends(frames, next, text, start, end) ==
    /\ frames \in Seq(Fragments) /\ next \in Fragments /\ text \in Seq(Characters)
    /\ start \in Nat /\ end \in (start + 1)..Len(text)
    /\ next.fin <=> end = Len(text)
    /\ Holds(frames, text, start) /\ Holds(Append(frames, next), text, end)

\* What has been received of a text grows by the next fragment.
LEMMA NextExtends ==
  ASSUME NEW text \in Seq(Characters), NEW start \in Nat, start < Len(text), NEW size \in Nat,
         NEW frames \in Seq(Fragments), Holds(frames, text, start)
  PROVE  \E next, end :
           /\ next = NextFragment(text, start, size) /\ end = start + Len(next.bytes)
           /\ end = FragmentEnd(text, start, size)
           /\ Extends(frames, next, text, start, end)
<1>1. PICK end, next : end = FragmentEnd(text, start, size) /\ next = NextFragment(text, start, size)
  OBVIOUS
<1>2. end \in (start + 1)..Len(text) /\ Len(text) \in Nat
  BY <1>1, EndOf
<1>3. /\ next \in Fragments /\ (next.fin <=> end = Len(text))
      /\ next.bytes = SubSeq(text, start + 1, end) /\ Len(next.bytes) = end - start
  BY <1>1, NextOf
<1>4. Received(Append(frames, next)) = Received(frames) \o next.bytes
  BY <1>3, ReceivedMore
<1>5. PICK m \in 1..Len(text) + 1 : m = 1
  BY <1>2
<1>6. start \in m - 1..Len(text) /\ end \in start..Len(text)
  BY <1>2, <1>5
<1>7. SubSeq(text, m, start) \o SubSeq(text, start + 1, end) = SubSeq(text, m, end)
  BY <1>6, ConcatAdjacentSubSeq
<1>8. start + Len(next.bytes) = end
  BY <1>2, <1>3
<1>9. Holds(Append(frames, next), text, end)
  BY <1>3, <1>4, <1>5, <1>7 DEF Holds
<1>10. Extends(frames, next, text, start, end)
  BY <1>2, <1>3, <1>9 DEF Extends
<1> QED
  BY <1>1, <1>8, <1>10

\* What the writer has before and after the next frame.
LEMMA Written ==
  ASSUME NEW p \in Ends, Shapes, Flows(p), writing[p] # Nothing, ~Complete(Peer(p)),
         NEW next, next = NextFragment(writing[p].text, writing[p].start, FragmentSize[p]),
         NEW end, end = writing[p].start + Len(next.bytes)
  PROVE  /\ Extends(incoming[Peer(p)], next, writing[p].text, writing[p].start, end)
         /\ end = FragmentEnd(writing[p].text, writing[p].start, FragmentSize[p])
         /\ FragmentSize[p] \in Nat
<1>1. PICK q, text, start, size, frames :
        /\ q = Peer(p) /\ text = writing[p].text /\ start = writing[p].start
        /\ size = FragmentSize[p] /\ frames = incoming[q]
  OBVIOUS
<1>2. q \in Ends /\ frames \in Seq(Fragments) /\ text \in Seq(Characters) /\ start \in Nat
  BY <1>1, PeerOf DEF Shapes
<1>3. start < Len(text) /\ size \in Nat
  BY <1>1, <1>2, MessagingAssumption DEF Flows, Ends
<1>4. Holds(frames, text, start)
  BY <1>1 DEF Flows, Holds
<1>5. PICK n, e :
        /\ n = NextFragment(text, start, size) /\ e = start + Len(n.bytes)
        /\ e = FragmentEnd(text, start, size)
        /\ Extends(frames, n, text, start, e)
  BY <1>2, <1>3, <1>4, NextExtends
<1>6. n = next /\ e = end
  BY <1>1, <1>5
<1> QED
  BY <1>1, <1>3, <1>5, <1>6

\* The writer sends a fragment.
LEMMA FlowWrite ==
  ASSUME NEW p \in Ends, Shapes, Flows(p), writing[p] # Nothing, ~Complete(Peer(p)),
         NEW next, next = NextFragment(writing[p].text, writing[p].start, FragmentSize[p]),
         incoming'[Peer(p)] = Append(incoming[Peer(p)], next),
         writing'[p] = IF next.fin THEN Nothing
                       ELSE [text |-> writing[p].text, start |-> writing[p].start + Len(next.bytes)],
         out'[p] = out[p]
  PROVE  Flows(p)' /\ UnderWay(p)' = UnderWay(p)
<1>1. PICK q, text, start, end :
        /\ q = Peer(p) /\ text = writing[p].text /\ start = writing[p].start
        /\ end = start + Len(next.bytes)
  OBVIOUS
<1>2. Extends(incoming[q], next, text, start, end)
  BY <1>1, Written
<1>3. /\ incoming[q] \in Seq(Fragments) /\ next \in Fragments /\ text \in Seq(Characters)
      /\ Len(text) \in Nat
      /\ start \in Nat /\ end \in (start + 1)..Len(text) /\ (next.fin <=> end = Len(text))
  BY <1>2 DEF Extends
<1>4. q = Peer(p)
  BY <1>1
<1>5. Received(incoming'[q]) = SubSeq(text, 1, end)
  BY <1>1, <1>2 DEF Extends, Holds
<1>6. Complete(q)' <=> next.fin
  <2>1. incoming'[q] # <<>> /\ incoming'[q][Len(incoming'[q])] = next
    BY <1>1, <1>3, AppendProperties
  <2> QED
    BY <2>1 DEF Complete, Last
<1>7. Sending(p) = {text} /\ Arrived(p) = {} /\ text \in Sendable(p) /\ text \notin out[p]
  BY <1>1 DEF Sending, Arrived, Flows, UnderWay
<1>8. CASE next.fin
  <2>1. Received(incoming'[q]) = text
    BY <1>3, <1>5, <1>8, SubSeqFull
  <2>2. writing'[p] = Nothing /\ Sending(p)' = {} /\ Arrived(p)' = {text}
    BY <1>1, <1>6, <1>8, <2>1 DEF Sending, Arrived
  <2>3. UnderWay(p)' = UnderWay(p)
    BY <1>7, <2>2 DEF UnderWay
  <2>4. writing'[p].start = 0
    BY <2>2 DEF Nothing
  <2> QED
    BY <1>1, <1>6, <1>7, <1>8, <2>2, <2>3, <2>4 DEF Flows
<1>9. CASE ~next.fin
  <2>1. writing'[p] = [text |-> text, start |-> end]
    BY <1>1, <1>9
  <2>2. writing'[p].text = text /\ writing'[p].start = end
    BY <2>1
  <2>3. end < Len(text) /\ end # 0
    BY <1>3, <1>9
  <2>4. writing'[p] # Nothing
    BY <2>2, <2>3 DEF Nothing
  <2>5. Sending(p)' = {text} /\ Arrived(p)' = {}
    BY <1>1, <1>6, <1>9, <2>2, <2>4 DEF Sending, Arrived
  <2>6. UnderWay(p)' = UnderWay(p)
    BY <1>7, <2>5 DEF UnderWay
  <2> QED
    BY <1>1, <1>5, <1>6, <1>7, <1>9, <2>2, <2>3, <2>5, <2>6 DEF Flows
<1> QED
  BY <1>8, <1>9

\* Which call has what: nothing new comes to this one.
LEMMA TokenStays ==
  ASSUME NEW c \in Calls, OneToken(c),
         \A p \in Ends : TextsOf(c, p)' \subseteq TextsOf(c, p),
         running'[c] = running[c], returned'[c] = returned[c],
         \/ settledBy'[c] = settledBy[c]
         \/ Busy(c) /\ settledBy'[c] \notin {"unsent", "reply"}
         \/ running[c] = NoTask /\ (\A p \in Ends : TextsOf(c, p)' = {}) /\ settledBy'[c] # "unsent",
         c \in oversized' <=> c \in oversized
  PROVE  OneToken(c)'
<1>1. "client" \in Ends /\ "server" \in Ends
  BY DEF Ends
<1>2. \A p, r \in Ends : \A t \in TextsOf(c, p)', s \in TextsOf(c, r)' : p = r /\ t = s
  BY DEF OneToken
<1>3. ASSUME NEW p \in Ends, TextsOf(c, p)' # {} PROVE Busy(c)' /\ running'[c] = NoTask
  BY <1>3 DEF OneToken, Busy
<1>4. running'[c] # NoTask => Busy(c)'
  BY DEF OneToken, Busy
<1>5. \A t \in TextsOf(c, "server")' : Meaning(t) = returned'[c]
  BY <1>1 DEF OneToken
<1>6. settledBy'[c] = "unsent" => c \notin oversized'
  BY DEF OneToken, Busy
<1> QED
  BY <1>2, <1>3, <1>4, <1>5, <1>6 DEF OneToken

\* A call without texts that is queued at one end has that one.
LEMMA Queued ==
  ASSUME NEW p \in Ends, Flows(p), NEW c \in Calls, NEW t \in Sendable(p), Owner(t) = c,
         TextsOf(c, p) = {}, out'[p] = out[p] \cup {t}, writing'[p] = writing[p],
         incoming'[Peer(p)] = incoming[Peer(p)]
  PROVE  /\ Flows(p)' /\ TextsOf(c, p)' = {t}
         /\ \A d \in Calls : d # c => TextsOf(d, p)' = TextsOf(d, p)
<1>1. t \notin UnderWay(p)
  BY DEF TextsOf
<1>2. Flows(p)' /\ UnderWay(p)' = UnderWay(p) \cup {t}
  BY <1>1, FlowPush
<1> QED
  BY <1>2 DEF TextsOf

\* A call whose only text is new and means what has been returned.
LEMMA TokenNew ==
  ASSUME NEW c \in Calls, NEW p \in Ends, NEW t, TextsOf(c, p)' = {t}, TextsOf(c, Peer(p))' = {},
         running'[c] = NoTask, Busy(c)', p = "server" => Meaning(t) = returned'[c]
  PROVE  OneToken(c)'
<1>1. \A r \in Ends : r = p \/ r = Peer(p)
  BY DEF Ends, Peer
<1>2. \A r \in Ends : TextsOf(c, r)' # {} => r = p
  BY <1>1
<1>3. \A s \in TextsOf(c, "server")' : Meaning(s) = returned'[c]
  BY <1>2 DEF Ends
<1>4. settledBy'[c] # "unsent"
  BY DEF Busy
<1> QED
  BY <1>2, <1>3, <1>4 DEF OneToken

\* A call without texts and without a task.
LEMMA TokenGone ==
  ASSUME NEW c \in Calls, \A p \in Ends : TextsOf(c, p)' = {}, running'[c] = NoTask,
         settledBy'[c] # "unsent"
  PROVE  OneToken(c)'
<1>1. "server" \in Ends
  BY DEF Ends
<1> QED
  BY <1>1 DEF OneToken

\* The receiver takes a text of a call: the call has nothing else.
LEMMA Taken ==
  ASSUME NEW p \in Ends, Flows(p), Flows(Peer(p)), \A d \in Calls : OneToken(d), Complete(Peer(p)),
         out'[p] = out[p], writing'[p] = writing[p], incoming'[Peer(p)] = <<>>,
         NEW t, t = Received(incoming[Peer(p)])
  PROVE  /\ Flows(p)' /\ t \in Sendable(p) /\ Owner(t) \in Calls
         /\ t \in TextsOf(Owner(t), p) /\ TextsOf(Owner(t), p)' = {}
         /\ TextsOf(Owner(t), Peer(p)) = {}
         /\ Busy(Owner(t)) /\ running[Owner(t)] = NoTask
         /\ \A d \in Calls : TextsOf(d, p)' \subseteq TextsOf(d, p)
<1>1. Flows(p)' /\ t \in UnderWay(p) /\ UnderWay(p)' = UnderWay(p) \ {t}
  BY FlowTake
<1>2. t \in Sendable(p) /\ Owner(t) \in Calls
  <2>1. t \in Sendable(p)
    BY <1>1 DEF Flows
  <2> QED
    BY <2>1, SendableOf
<1>3. t \in TextsOf(Owner(t), p)
  BY <1>1 DEF TextsOf
<1>4. \A d \in Calls : TextsOf(d, p)' \subseteq TextsOf(d, p) \ {t}
  BY <1>1 DEF TextsOf
<1>5. TextsOf(Owner(t), p) = {t} /\ TextsOf(Owner(t), Peer(p)) = {}
  BY <1>2, <1>3, PeerOf DEF OneToken
<1> QED
  BY <1>1, <1>2, <1>3, <1>4, <1>5 DEF OneToken

\* A call that has nothing on the wire is answered: its reply is queued, or too
\* large, and nothing is left of the call.
LEMMA Answered ==
  ASSUME Shapes, Flows("server"), NEW c \in Calls, \A d \in Calls : OneToken(d),
         Busy(c), TextsOf(c, "server") = {}, TextsOf(c, "client")' = {},
         \A d \in Calls : TextsOf(d, "client")' \subseteq TextsOf(d, "client"),
         NEW kind \in {"ACK", "NAK"}, NEW payload \in Payloads, NEW result,
         result = IF kind = "ACK" THEN AckResult(payload) ELSE NakError(payload),
         Answer(c, kind, payload, result),
         running'[c] = NoTask, \A d \in Calls : d # c => running'[d] = running[d],
         settledBy' = settledBy, writing'["server"] = writing["server"],
         incoming'["client"] = incoming["client"]
  PROVE  Flows("server")' /\ \A d \in Calls : OneToken(d)'
<1> DEFINE t == Serialize(Frame(kind, Id(c), payload))
<1>1. Owner(t) = c /\ Meaning(t) = result
  <2>1. kind \in {"MSG", "ACK", "NAK"}
    OBVIOUS
  <2> QED
    BY <2>1, OwnerOf
<1>2. returned'[c] = result /\ \A d \in Calls : d # c => returned'[d] = returned[d]
  BY DEF Answer, Shapes
<1>3. "client" \in Ends /\ "server" \in Ends /\ \A p \in Ends : p = "client" \/ p = "server"
  BY DEF Ends
<1>4. CASE Len(t) <= Limit["server"]
  <2>1. out' = [out EXCEPT !["server"] = @ \cup {t}] /\ oversized' = oversized
    BY <1>4 DEF Answer, Write
  <2>2. out'["server"] = out["server"] \cup {t}
    BY <1>3, <2>1 DEF Shapes
  <2>3. t \in Sendable("server")
    BY <1>4 DEF Sendable, Kinds
  <2> HIDE DEF t
  <2>4. /\ Flows("server")' /\ TextsOf(c, "server")' = {t}
        /\ \A d \in Calls : d # c => TextsOf(d, "server")' = TextsOf(d, "server")
    BY <1>1, <1>3, <2>2, <2>3, PeerOf, Queued
  <2>5. OneToken(c)'
    <3>1. Busy(c)'
      BY <2>1 DEF Busy
    <3> QED
      BY <1>1, <1>2, <1>3, <2>4, <3>1, PeerOf, TokenNew
  <2>6. ASSUME NEW d \in Calls, d # c PROVE OneToken(d)'
    <3>1. \A p \in Ends : TextsOf(d, p)' \subseteq TextsOf(d, p)
      BY <1>3, <2>4, <2>6
    <3> QED
      BY <1>2, <2>1, <2>6, <3>1, TokenStays
  <2> QED
    BY <2>4, <2>5, <2>6
<1>5. CASE ~(Len(t) <= Limit["server"])
  <2>1. out' = out /\ oversized' = oversized \cup {c}
    BY <1>5 DEF Answer, Write
  <2>2. Flows("server")' /\ UnderWay("server")' = UnderWay("server")
    BY <1>3, <2>1, PeerOf, FlowStays
  <2>3. \A d \in Calls : TextsOf(d, "server")' = TextsOf(d, "server")
    BY <2>2 DEF TextsOf
  <2>4. OneToken(c)'
    <3>1. settledBy'[c] # "unsent"
      BY DEF Busy
    <3>2. \A p \in Ends : TextsOf(c, p)' = {}
      BY <1>3, <2>3
    <3> QED
      BY <3>1, <3>2, TokenGone
  <2>5. ASSUME NEW d \in Calls, d # c PROVE OneToken(d)'
    <3>1. \A p \in Ends : TextsOf(d, p)' \subseteq TextsOf(d, p)
      BY <1>3, <2>3
    <3>2. d \in oversized' <=> d \in oversized
      BY <2>1, <2>5
    <3> QED
      BY <1>2, <2>5, <3>1, <3>2, TokenStays
  <2> QED
    BY <2>2, <2>4, <2>5
<1> QED
  BY <1>4, <1>5
----------------------------------------------------------------------------
(* The steps *)

\* At first there is no text.
LEMMA WireInit == Init => WireInv
<1> SUFFICES ASSUME Init PROVE WireInv
  OBVIOUS
<1>1. Shapes
  <2>1. <<>> \in Seq(Characters) /\ <<>> \in Seq(Fragments)
    BY EmptySeq
  <2> QED
    BY <2>1 DEF Init, Shapes, Outcomes, Nothing
<1>2. ASSUME NEW p \in Ends PROVE Flows(p) /\ UnderWay(p) = {}
  <2>1. /\ out[p] = {} /\ writing[p] = Nothing /\ incoming[Peer(p)] = <<>>
    BY PeerOf DEF Init
  <2>2. ~Complete(Peer(p)) /\ Sending(p) = {} /\ Arrived(p) = {}
    BY <2>1 DEF Complete, Sending, Arrived
  <2>3. Received(incoming[Peer(p)]) = SubSeq(writing[p].text, 1, writing[p].start)
    <3>1. writing[p].start = 0
      BY <2>1 DEF Nothing
    <3>2. SubSeq(writing[p].text, 1, 0) = <<>>
      BY SubSeqEmpty
    <3> QED
      BY <2>1, <3>1, <3>2, ReceivedNone
  <2> QED
    BY <2>1, <2>2, <2>3 DEF Flows, UnderWay
<1>3. ASSUME NEW c \in Calls PROVE OneToken(c)
  <2>1. \A p \in Ends : TextsOf(c, p) = {}
    BY <1>2 DEF TextsOf
  <2>2. "server" \in Ends
    BY DEF Ends
  <2>3. running[c] = NoTask /\ oversized = {}
    BY DEF Init
  <2> QED
    BY <2>1, <2>2, <2>3 DEF OneToken
<1> QED
  BY <1>1, <1>2, <1>3 DEF WireInv

\* A step of neither the wire nor the calls.
LEMMA WireStays ==
  ASSUME WireInv, UNCHANGED <<wire, calls, oversized>>
  PROVE  WireInv'
<1>0. UNCHANGED <<out, writing, incoming, running, outcome, settledBy, returned, oversized>>
  BY DEF wire, calls
<1>1. Shapes'
  BY <1>0 DEF WireInv, Shapes, Outcomes
<1>2. \A p \in Ends : Flows(p)' /\ UnderWay(p)' = UnderWay(p)
  BY <1>0, FlowStays DEF WireInv
<1>3. ASSUME NEW c \in Calls PROVE OneToken(c)'
  <2>1. \A p \in Ends : TextsOf(c, p)' \subseteq TextsOf(c, p)
    BY <1>2 DEF TextsOf
  <2> QED
    BY <1>0, <2>1, TokenStays DEF WireInv
<1> QED
  BY <1>1, <1>2, <1>3 DEF WireInv

\* A call is settled without a reply and without a message.
LEMMA WireSettled ==
  ASSUME WireInv, NEW c \in Calls, settledBy[c] # "reply",
         NEW by \in {"send", "deadline", "close"}, NEW result, Settle(c, by, result),
         UNCHANGED <<wire, running, returned, oversized>>
  PROVE  WireInv'
<1>0. UNCHANGED <<out, writing, incoming>>
  BY DEF wire
<1>1. Shapes'
  BY <1>0 DEF WireInv, Shapes, Outcomes, Settle
<1>2. \A p \in Ends : Flows(p)' /\ UnderWay(p)' = UnderWay(p)
  BY <1>0, FlowStays DEF WireInv
<1>3. ASSUME NEW d \in Calls PROVE OneToken(d)'
  <2>1. \A p \in Ends : TextsOf(d, p)' = TextsOf(d, p)
    BY <1>2 DEF TextsOf
  <2>2. settledBy'[d] = IF d = c THEN by ELSE settledBy[d]
    BY DEF Settle, WireInv, Shapes, Outcomes
  <2>3. OneToken(d)
    BY DEF WireInv
  <2>4. CASE d = c /\ ~Busy(c)
    <3>1. running[c] = NoTask /\ \A p \in Ends : TextsOf(c, p)' = {}
      BY <2>1, <2>3, <2>4 DEF OneToken
    <3>2. settledBy'[c] # "unsent"
      BY <2>2, <2>4
    <3> QED
      BY <2>4, <3>1, <3>2, TokenGone
  <2>5. CASE d # c \/ Busy(c)
    <3>1. \/ settledBy'[d] = settledBy[d]
          \/ Busy(d) /\ settledBy'[d] \notin {"unsent", "reply"}
      BY <2>2, <2>5
    <3> QED
      BY <2>1, <2>3, <3>1, TokenStays
  <2> QED
    BY <2>4, <2>5
<1> QED
  BY <1>1, <1>2, <1>3 DEF WireInv

\* A message is queued.
LEMMA WireSent ==
  ASSUME WireInv, NEW c \in Calls, NEW d \in Docs, settledBy[c] = "unsent", Bounded("client", d),
         out' = [out EXCEPT !["client"] = @ \cup {Serialize(Frame("MSG", Id(c), Encoding[d]))}],
         settledBy' = [settledBy EXCEPT ![c] = "pending"],
         UNCHANGED <<outcome, writing, incoming, running, returned, oversized>>
  PROVE  WireInv'
<1> DEFINE t == Serialize(Frame("MSG", Id(c), Encoding[d]))
<1>0. Encoding[d] \in Payloads /\ "MSG" \in {"MSG", "ACK", "NAK"}
  BY DEF Payloads
<1>1. Owner(t) = c /\ Len(t) = Header + Len(Encoding[d]) /\ Encoding[d] \in Seq(Characters)
  BY <1>0, OwnerOf, TextOf
<1>2. "client" \in Ends /\ "server" \in Ends /\ \A p \in Ends : p = "client" \/ p = "server"
  BY DEF Ends
<1>3. t \in Sendable("client")
  <2>1. Header \in Int /\ Len(Encoding[d]) \in Int
    BY <1>1, WireAssumption DEF Header
  <2>2. Len(t) <= Limit["client"]
    BY <1>1, <2>1 DEF Bounded
  <2> QED
    BY <1>0, <2>2 DEF Sendable, Kinds
<1>4. out'["client"] = out["client"] \cup {t} /\ out'["server"] = out["server"]
  BY <1>2 DEF WireInv, Shapes
<1> HIDE DEF t
<1>5. \A e \in Calls : settledBy'[e] = IF e = c THEN "pending" ELSE settledBy[e]
  BY DEF WireInv, Shapes, Outcomes
<1>6. /\ \A p \in Ends : TextsOf(c, p) = {}
      /\ running[c] = NoTask /\ c \notin oversized
  BY DEF WireInv, OneToken, Busy
<1>7. /\ Flows("client")' /\ TextsOf(c, "client")' = {t}
      /\ \A e \in Calls : e # c => TextsOf(e, "client")' = TextsOf(e, "client")
  BY <1>1, <1>2, <1>3, <1>4, <1>6, Queued DEF WireInv
<1>8. Flows("server")' /\ \A e \in Calls : TextsOf(e, "server")' = TextsOf(e, "server")
  BY <1>2, <1>4, FlowStays DEF WireInv, TextsOf
<1>9. Shapes'
  <2>1. out' = [p \in Ends |-> out'[p]] /\ settledBy' = [e \in Calls |-> settledBy'[e]]
    BY DEF WireInv, Shapes, Outcomes
  <2> QED
    BY <2>1 DEF WireInv, Shapes, Outcomes
<1>10. OneToken(c)'
  <2>1. Busy(c)'
    BY <1>5, <1>6 DEF Busy
  <2> QED
    BY <1>2, <1>6, <1>7, <1>8, <2>1, PeerOf, TokenNew
<1>11. ASSUME NEW e \in Calls, e # c PROVE OneToken(e)'
  <2>1. \A p \in Ends : TextsOf(e, p)' \subseteq TextsOf(e, p)
    BY <1>2, <1>7, <1>8, <1>11
  <2>2. settledBy'[e] = settledBy[e]
    BY <1>5, <1>11
  <2> QED
    BY <2>1, <2>2, TokenStays DEF WireInv
<1> QED
  BY <1>2, <1>7, <1>8, <1>9, <1>10, <1>11 DEF WireInv

\* send_with_arrival: the call fails here or is queued.
LEMMA WireSend ==
  ASSUME WireInv, NEW c \in Calls, NEW d \in Inputs, Send(c, d)
  PROVE  WireInv'
<1>0. /\ settledBy[c] = "unsent"
      /\ UNCHANGED <<writing, incoming, running, returned, oversized>>
  BY DEF Send
<1>1. CASE UNCHANGED out /\ \E result : Settle(c, "send", result)
  BY <1>0, <1>1, WireSettled DEF wire
<1>2. CASE /\ d # Unserializable /\ Bounded("client", d)
           /\ out' = [out EXCEPT !["client"] =
                         @ \cup {Serialize(Frame("MSG", Id(c), Encoding[d]))}]
           /\ settledBy' = [settledBy EXCEPT ![c] = "pending"] /\ UNCHANGED outcome
  <2>1. d \in Docs
    BY <1>2, MessagingAssumption
  <2> QED
    BY <1>0, <1>2, <2>1, WireSent
<1> QED
  BY <1>1, <1>2 DEF Send

\* The queue's next text goes to the writer.
LEMMA WireStarts ==
  ASSUME WireInv, NEW p \in Ends, NEW text \in out[p], StartWriting(p, text)
  PROVE  WireInv'
<1>0. UNCHANGED <<incoming, running, outcome, settledBy, returned, oversized>>
  BY DEF StartWriting, calls
<1>1. /\ writing[p] = Nothing
      /\ out'[p] = out[p] \ {text} /\ writing'[p] = [text |-> text, start |-> 0]
      /\ \A q \in Ends : q # p => out'[q] = out[q] /\ writing'[q] = writing[q]
  BY DEF StartWriting, WireInv, Shapes
<1>2. \A q \in Ends : Flows(q)' /\ UnderWay(q)' = UnderWay(q)
  <2>1. Flows(p)' /\ UnderWay(p)' = UnderWay(p)
    BY <1>0, <1>1, FlowStart DEF WireInv
  <2>2. ASSUME NEW q \in Ends, q # p PROVE Flows(q)' /\ UnderWay(q)' = UnderWay(q)
    BY <1>0, <1>1, <2>2, FlowStays DEF WireInv
  <2> QED
    BY <2>1, <2>2
<1>3. Shapes'
  <2>1. text \in Seq(Characters)
    <3>1. text \in Sendable(p)
      BY DEF WireInv, Flows, UnderWay
    <3> QED
      BY <3>1, SendableOf
  <2>2. writing' = [writing EXCEPT ![p] = [text |-> text, start |-> 0]]
    BY DEF StartWriting
  <2>3. writing' \in [Ends -> [text : Seq(Characters), start : Nat]]
    BY <2>1, <2>2 DEF WireInv, Shapes
  <2>4. out' = [q \in Ends |-> out'[q]]
    BY DEF StartWriting, WireInv, Shapes
  <2> QED
    BY <1>0, <2>3, <2>4 DEF WireInv, Shapes, Outcomes
<1>4. ASSUME NEW c \in Calls PROVE OneToken(c)'
  <2>1. \A q \in Ends : TextsOf(c, q)' \subseteq TextsOf(c, q)
    BY <1>2 DEF TextsOf
  <2> QED
    BY <1>0, <2>1, TokenStays DEF WireInv
<1> QED
  BY <1>2, <1>3, <1>4 DEF WireInv

\* What the writer has left after a frame.
Rest(w, next) ==
    IF next.fin THEN Nothing ELSE [text |-> w.text, start |-> w.start + Len(next.bytes)]

Writings == [text : Seq(Characters), start : Nat]

\* What is left of a text after a fragment.
LEMMA RestOf ==
  ASSUME NEW w \in Writings, NEW next \in Fragments
  PROVE  Rest(w, next) \in Writings
<1>1. Len(next.bytes) \in Nat
  BY LenProperties DEF Fragments
<1>2. Nothing \in Writings
  BY EmptySeq DEF Nothing, Writings
<1> QED
  BY <1>1, <1>2 DEF Rest, Writings

\* The writer sends a frame.
LEMMA WireWrites ==
  ASSUME WireInv, NEW p \in Ends, WriteFragment(p)
  PROVE  WireInv'
<1>0. UNCHANGED <<out, running, outcome, settledBy, returned, oversized>>
  BY DEF WriteFragment, calls
<1>1. PICK next, q :
        /\ next = NextFragment(writing[p].text, writing[p].start, FragmentSize[p]) /\ q = Peer(p)
        /\ incoming' = [incoming EXCEPT ![q] = Append(@, next)]
        /\ writing' = [writing EXCEPT ![p] = Rest(@, next)]
  BY DEF WriteFragment, Rest
<1>2. writing[p] # Nothing /\ ~Complete(Peer(p))
  BY DEF WriteFragment
<1>3. q \in Ends /\ \A r \in Ends : r # p => r = q /\ Peer(r) # q
  BY <1>1 DEF Ends, Peer
<1>4. /\ incoming'[Peer(p)] = Append(incoming[Peer(p)], next)
      /\ writing'[p] = IF next.fin THEN Nothing
                       ELSE [text |-> writing[p].text, start |-> writing[p].start + Len(next.bytes)]
  <2>1. incoming'[q] = Append(incoming[q], next) /\ writing'[p] = Rest(writing[p], next)
    BY <1>1, <1>3 DEF WireInv, Shapes
  <2> QED
    BY <1>1, <2>1 DEF Rest
<1>5. Flows(p)' /\ UnderWay(p)' = UnderWay(p)
  BY <1>0, <1>1, <1>2, <1>4, FlowWrite DEF WireInv
<1>6. ASSUME NEW r \in Ends, r # p PROVE Flows(r)' /\ UnderWay(r)' = UnderWay(r)
  <2>1. writing'[r] = writing[r] /\ incoming'[Peer(r)] = incoming[Peer(r)]
    BY <1>1, <1>3, <1>6, PeerOf DEF WireInv, Shapes
  <2> QED
    BY <1>0, <2>1, FlowStays DEF WireInv
<1>7. Shapes'
  <2>1. PICK text, start : text = writing[p].text /\ start = writing[p].start
    OBVIOUS
  <2>2. /\ text \in Seq(Characters) /\ start \in Nat /\ start < Len(text)
        /\ FragmentSize[p] \in Nat
    BY <1>2, <2>1, MessagingAssumption DEF WireInv, Shapes, Flows, Ends
  <2>3. next \in Fragments
    BY <1>1, <2>1, <2>2, NextOf
  <2>4. incoming' \in [Ends -> Seq(Fragments)]
    <3>1. Append(incoming[q], next) \in Seq(Fragments)
      BY <1>3, <2>3, AppendProperties DEF WireInv, Shapes
    <3> QED
      BY <1>1, <3>1 DEF WireInv, Shapes
  <2>5. writing' \in [Ends -> [text : Seq(Characters), start : Nat]]
    <3>1. writing \in [Ends -> Writings]
      BY DEF WireInv, Shapes, Writings
    <3>2. Rest(writing[p], next) \in Writings
      BY <2>3, <3>1, RestOf
    <3> QED
      BY <1>1, <3>1, <3>2 DEF Writings
  <2> QED
    BY <1>0, <2>4, <2>5 DEF WireInv, Shapes, Outcomes
<1>8. ASSUME NEW c \in Calls PROVE OneToken(c)'
  <2>1. \A r \in Ends : TextsOf(c, r)' \subseteq TextsOf(c, r)
    BY <1>5, <1>6 DEF TextsOf
  <2> QED
    BY <1>0, <2>1, TokenStays DEF WireInv
<1> QED
  BY <1>5, <1>6, <1>7, <1>8 DEF WireInv

\* What the steps that take a text have in common: `p` is the end that takes it.
LEMMA WireTakes ==
  ASSUME WireInv, NEW p \in Ends, Receives(p), UNCHANGED writing, NEW t, t = Received(incoming[p]),
         out'[Peer(p)] = out[Peer(p)]
  PROVE  /\ incoming' \in [Ends -> Seq(Fragments)]
         /\ incoming'[Peer(p)] = incoming[Peer(p)]
         /\ Flows(Peer(p))' /\ t \in Sendable(Peer(p)) /\ Owner(t) \in Calls
         /\ t \in TextsOf(Owner(t), Peer(p)) /\ TextsOf(Owner(t), Peer(p))' = {}
         /\ TextsOf(Owner(t), p) = {}
         /\ Busy(Owner(t)) /\ running[Owner(t)] = NoTask
         /\ \A d \in Calls : TextsOf(d, Peer(p))' \subseteq TextsOf(d, Peer(p))
<1>1. PICK q : q = Peer(p)
  OBVIOUS
<1>2. q \in Ends /\ Peer(q) = p /\ q # p
  BY <1>1, PeerOf
<1>3. /\ incoming'[p] = <<>> /\ incoming'[q] = incoming[q]
      /\ incoming' \in [Ends -> Seq(Fragments)]
  <2>1. incoming' = [incoming EXCEPT ![p] = <<>>] /\ <<>> \in Seq(Fragments)
    BY EmptySeq DEF Receives
  <2> QED
    BY <1>2, <2>1 DEF WireInv, Shapes
<1>4. /\ Flows(q) /\ Flows(Peer(q)) /\ \A d \in Calls : OneToken(d)
      /\ Complete(Peer(q)) /\ out'[q] = out[q] /\ writing'[q] = writing[q]
      /\ incoming'[Peer(q)] = <<>> /\ t = Received(incoming[Peer(q)])
  BY <1>1, <1>2, <1>3 DEF WireInv, Receives
<1>5. /\ Flows(q)' /\ t \in Sendable(q) /\ Owner(t) \in Calls
      /\ t \in TextsOf(Owner(t), q) /\ TextsOf(Owner(t), q)' = {}
      /\ TextsOf(Owner(t), Peer(q)) = {}
      /\ Busy(Owner(t)) /\ running[Owner(t)] = NoTask
      /\ \A d \in Calls : TextsOf(d, q)' \subseteq TextsOf(d, q)
  BY <1>2, <1>4, Taken
<1> QED
  BY <1>1, <1>2, <1>3, <1>5

\* A text above the limit is thrown away.
LEMMA WireRefuses ==
  ASSUME WireInv, NEW p \in Ends, ReceiveOversized(p)
  PROVE  WireInv'
<1>0. UNCHANGED <<out, writing, running, outcome, settledBy, returned, oversized>> /\ Receives(p)
  BY DEF ReceiveOversized, calls
<1>1. PICK q : q = Peer(p)
  OBVIOUS
<1>2. q \in Ends /\ Peer(p) = q /\ \A r \in Ends : r = p \/ r = q
  BY <1>1 DEF Peer, Ends
<1>3. /\ incoming' \in [Ends -> Seq(Fragments)] /\ incoming'[q] = incoming[q] /\ Flows(q)'
      /\ \A d \in Calls : TextsOf(d, q)' \subseteq TextsOf(d, q)
  BY <1>0, <1>1, WireTakes
<1>4. Flows(p)' /\ UnderWay(p)' = UnderWay(p)
  BY <1>0, <1>1, <1>3, FlowStays DEF WireInv
<1>5. ASSUME NEW c \in Calls PROVE OneToken(c)'
  <2>1. \A r \in Ends : TextsOf(c, r)' \subseteq TextsOf(c, r)
    BY <1>2, <1>3, <1>4 DEF TextsOf
  <2> QED
    BY <1>0, <2>1, TokenStays DEF WireInv
<1>6. Shapes'
  BY <1>0, <1>3 DEF WireInv, Shapes, Outcomes
<1> QED
  BY <1>2, <1>3, <1>4, <1>5, <1>6 DEF WireInv

\* What callers make of the payloads the server's side writes.
LEMMA Meanings ==
    /\ \A problem \in Problems :
          Encoding[problem] \in Payloads /\ NakError(Encoding[problem]) = PeerNak(problem)
    /\ \A d \in Results \cap Docs : Encoding[d] \in Payloads /\ AckResult(Encoding[d]) = Ok(d)
    /\ <<>> \in Payloads /\ NakError(<<>>) = PeerNak("500") /\ AckResult(<<>>) = Ok(Null)
<1>1. ASSUME NEW problem \in Problems
      PROVE  Encoding[problem] \in Payloads /\ NakError(Encoding[problem]) = PeerNak(problem)
  <2>1. problem \in Docs /\ Encoding[problem] # <<>>
    BY MessagingAssumption
  <2>2. Decode(Encoding[problem]) = problem
    BY <2>1, DecodeEncoding
  <2> QED
    BY <2>1, <2>2 DEF Payloads, NakError
<1>2. ASSUME NEW d \in Results \cap Docs
      PROVE  Encoding[d] \in Payloads /\ AckResult(Encoding[d]) = Ok(d)
  <2>1. Encoding[d] # <<>>
    BY MessagingAssumption
  <2>2. Decode(Encoding[d]) = d
    BY DecodeEncoding
  <2> QED
    BY <2>1, <2>2 DEF Payloads, AckResult
<1>3. <<>> \in Payloads /\ NakError(<<>>) = PeerNak("500") /\ AckResult(<<>>) = Ok(Null)
  BY DEF Payloads, NakError, AckResult
<1> QED
  BY <1>1, <1>2, <1>3

Meant(kind, payload, result) ==
    /\ kind \in {"ACK", "NAK"} /\ payload \in Payloads
    /\ result = IF kind = "ACK" THEN AckResult(payload) ELSE NakError(payload)

\* Every reply the server's side makes tells the caller what it is to tell.
LEMMA RepliesMean ==
    /\ \A problem \in Problems : Meant("NAK", Encoding[problem], PeerNak(problem))
    /\ \A d \in Results \cap Docs : Meant("ACK", Encoding[d], Ok(d))
    /\ Meant("NAK", <<>>, PeerNak("500")) /\ Meant("ACK", <<>>, Ok(Null))
BY Meanings DEF Meant

\* What an answer leaves alone.
LEMMA AnswerLeaves ==
  ASSUME Shapes, NEW c, NEW kind, NEW payload, NEW result, Answer(c, kind, payload, result)
  PROVE  /\ out' = [p \in Ends |-> out'[p]] /\ out'["client"] = out["client"]
         /\ returned' = [d \in Calls |-> returned'[d]]
<1>1. out' = [p \in Ends |-> out'[p]] /\ out'["client"] = out["client"]
  BY DEF Answer, Write, Shapes, Ends
<1> QED
  BY <1>1 DEF Answer, Shapes

\* The task of a call ends with an answer.
LEMMA WireAnswers ==
  ASSUME WireInv, NEW c \in Calls, Finishes(c), NEW kind, NEW payload, NEW result,
         Meant(kind, payload, result), Answer(c, kind, payload, result)
  PROVE  WireInv'
<1>0. /\ UNCHANGED <<writing, incoming, outcome, settledBy>>
      /\ running[c] # NoTask /\ running' = [running EXCEPT ![c] = NoTask]
  BY DEF Finishes
<1>1. "client" \in Ends /\ "server" \in Ends /\ \A p \in Ends : p = "client" \/ p = "server"
  BY DEF Ends
<1>2. Busy(c) /\ \A p \in Ends : TextsOf(c, p) = {}
  BY <1>0 DEF WireInv, OneToken
<1>3. /\ out' = [p \in Ends |-> out'[p]] /\ out'["client"] = out["client"]
      /\ returned' = [d \in Calls |-> returned'[d]]
  BY AnswerLeaves DEF WireInv
<1>4. Flows("client")' /\ \A d \in Calls : TextsOf(d, "client")' = TextsOf(d, "client")
  <2>1. Flows("client")' /\ UnderWay("client")' = UnderWay("client")
    BY <1>0, <1>1, <1>3, FlowStays DEF WireInv
  <2> QED
    BY <2>1 DEF TextsOf
<1>5. running'[c] = NoTask /\ \A d \in Calls : d # c => running'[d] = running[d]
  BY <1>0 DEF WireInv, Shapes
<1>6. Flows("server")' /\ \A d \in Calls : OneToken(d)'
  <2>1. /\ Shapes /\ Flows("server") /\ \A d \in Calls : OneToken(d)
        /\ TextsOf(c, "server") = {} /\ TextsOf(c, "client")' = {}
        /\ \A d \in Calls : TextsOf(d, "client")' \subseteq TextsOf(d, "client")
        /\ settledBy' = settledBy /\ writing'["server"] = writing["server"]
        /\ incoming'["client"] = incoming["client"]
    BY <1>0, <1>1, <1>2, <1>4 DEF WireInv
  <2>2. /\ kind \in {"ACK", "NAK"} /\ payload \in Payloads
        /\ result = IF kind = "ACK" THEN AckResult(payload) ELSE NakError(payload)
    BY DEF Meant
  <2> QED
    BY <1>2, <1>5, <2>1, <2>2, Answered
<1>7. Shapes'
  BY <1>0, <1>3 DEF WireInv, Shapes, Outcomes
<1> QED
  BY <1>1, <1>4, <1>6, <1>7 DEF WireInv

\* A 400 that quotes a message is a problem detail.
LEMMA QuotingIsProblems == Quoting \subseteq Problems
BY MessagingAssumption DEF Quoting

\* A handler panics: its call has neither a task nor a text any more.
LEMMA WirePanics ==
  ASSUME WireInv, NEW c \in Calls, Panics(c)
  PROVE  WireInv'
<1>0. /\ UNCHANGED <<out, writing, incoming, outcome, settledBy, returned, oversized>>
      /\ running[c] # NoTask /\ running' = [running EXCEPT ![c] = NoTask]
  BY DEF Panics, Finishes
<1>1. ASSUME NEW p \in Ends
      PROVE  Flows(p)' /\ \A d \in Calls : TextsOf(d, p)' = TextsOf(d, p)
  <2>1. Flows(p)' /\ UnderWay(p)' = UnderWay(p)
    BY <1>0, FlowStays DEF WireInv
  <2> QED
    BY <2>1 DEF TextsOf
<1>2. running'[c] = NoTask /\ \A d \in Calls : d # c => running'[d] = running[d]
  BY <1>0 DEF WireInv, Shapes
<1>3. OneToken(c)'
  <2>1. \A p \in Ends : TextsOf(c, p)' = {}
    BY <1>0, <1>1 DEF WireInv, OneToken
  <2>2. settledBy'[c] # "unsent"
    BY <1>0 DEF WireInv, OneToken, Busy
  <2> QED
    BY <1>2, <2>1, <2>2, TokenGone
<1>4. ASSUME NEW d \in Calls, d # c PROVE OneToken(d)'
  BY <1>0, <1>1, <1>2, <1>4, TokenStays DEF WireInv
<1>5. Shapes'
  BY <1>0 DEF WireInv, Shapes, Outcomes
<1> QED
  BY <1>0, <1>1, <1>3, <1>4, <1>5 DEF WireInv

\* A reply takes the place of the task it ends.
LEMMA WireFinishes ==
  ASSUME WireInv, NEW c \in Calls,
         \/ \E problem \in Quoting : Rejects(c, problem)
         \/ \E d \in Results \cup {Null} : Returns(c, d)
         \/ \E problem \in Failures : Fails(c, problem)
  PROVE  WireInv'
<1>1. Finishes(c)
  BY DEF Rejects, Returns, Fails
<1>2. ASSUME NEW problem \in Problems, Nak(c, problem) PROVE WireInv'
  <2>1. Meant("NAK", Encoding[problem], PeerNak(problem))
    BY RepliesMean
  <2>2. Answer(c, "NAK", Encoding[problem], PeerNak(problem))
    BY <1>2 DEF Nak
  <2> QED
    BY <1>1, <2>1, <2>2, WireAnswers
<1>3. {"400", "413", "500", "503"} \cup Failures \subseteq Problems
  BY MessagingAssumption
<1>4. CASE \E problem \in Quoting : Rejects(c, problem)
  BY <1>2, <1>4, QuotingIsProblems DEF Rejects
<1>5. CASE \E problem \in Failures : Fails(c, problem)
  BY <1>2, <1>3, <1>5 DEF Fails
<1>6. ASSUME NEW d \in Results \cup {Null}, Returns(c, d) PROVE WireInv'
  <2>1. CASE Nak(c, "500") \/ Nak(c, "413")
    BY <1>2, <1>3, <2>1
  <2>2. CASE d = Null /\ Answer(c, "ACK", <<>>, Ok(Null))
    BY <1>1, <2>2, RepliesMean, WireAnswers
  <2>3. CASE d # Null /\ d # Unserializable /\ Answer(c, "ACK", Encoding[d], Ok(d))
    <3>1. d \in Results \cap Docs
      BY <2>3, MessagingAssumption
    <3> QED
      BY <1>1, <2>3, <3>1, RepliesMean, WireAnswers
  <2> QED
    BY <1>6, <2>1, <2>2, <2>3 DEF Returns
<1> QED
  BY <1>4, <1>5, <1>6

\* A message reaches the server.
LEMMA WireHandles ==
  ASSUME WireInv, HandleMessage
  PROVE  WireInv'
<1>0. Receives("server") /\ UNCHANGED <<writing, outcome, settledBy>>
  BY DEF HandleMessage
<1>1. PICK t, c : t = Received(incoming["server"]) /\ c = Owner(t)
  OBVIOUS
<1>2. PICK handler, message : Dispatch(c, message, handler)
  BY <1>1 DEF HandleMessage, Owner
<1>3. /\ "client" \in Ends /\ "server" \in Ends /\ \A p \in Ends : p = "client" \/ p = "server"
      /\ Peer("client") = "server" /\ Peer("server") = "client"
  BY DEF Ends, Peer
<1>4. out'["client"] = out["client"] /\ out' = [p \in Ends |-> out'[p]]
  BY <1>2, AnswerLeaves DEF Dispatch, Nak, WireInv, Shapes
<1>5. /\ incoming' \in [Ends -> Seq(Fragments)] /\ incoming'["client"] = incoming["client"]
      /\ Flows("client")' /\ c \in Calls
      /\ TextsOf(c, "client")' = {} /\ TextsOf(c, "server") = {}
      /\ Busy(c) /\ running[c] = NoTask
      /\ \A d \in Calls : TextsOf(d, "client")' \subseteq TextsOf(d, "client")
  <2>1. Receives("server") /\ UNCHANGED writing /\ out'[Peer("server")] = out[Peer("server")]
    BY <1>0, <1>3, <1>4
  <2>2. /\ incoming' \in [Ends -> Seq(Fragments)]
        /\ incoming'[Peer("server")] = incoming[Peer("server")]
        /\ Flows(Peer("server"))' /\ Owner(t) \in Calls
        /\ t \in TextsOf(Owner(t), Peer("server")) /\ TextsOf(Owner(t), Peer("server"))' = {}
        /\ TextsOf(Owner(t), "server") = {}
        /\ Busy(Owner(t)) /\ running[Owner(t)] = NoTask
        /\ \A d \in Calls : TextsOf(d, Peer("server"))' \subseteq TextsOf(d, Peer("server"))
    BY <1>1, <1>3, <2>1, WireTakes
  <2> QED
    BY <1>1, <1>3, <2>2
<1>6. ASSUME NEW kind, NEW payload, NEW result, Meant(kind, payload, result),
             Answer(c, kind, payload, result), running' = running
      PROVE  WireInv'
  <2>1. returned' = [d \in Calls |-> returned'[d]]
    BY <1>6, AnswerLeaves DEF WireInv
  <2>2. Shapes'
    BY <1>0, <1>4, <1>5, <1>6, <2>1 DEF WireInv, Shapes, Outcomes
  <2>3. /\ kind \in {"ACK", "NAK"} /\ payload \in Payloads
        /\ result = IF kind = "ACK" THEN AckResult(payload) ELSE NakError(payload)
    BY <1>6 DEF Meant
  <2>4. /\ Shapes /\ Flows("server") /\ \A d \in Calls : OneToken(d)
        /\ running'[c] = NoTask /\ \A d \in Calls : d # c => running'[d] = running[d]
        /\ settledBy' = settledBy /\ writing'["server"] = writing["server"]
    BY <1>0, <1>3, <1>5, <1>6 DEF WireInv
  <2>5. Flows("server")' /\ \A d \in Calls : OneToken(d)'
    BY <1>5, <1>6, <2>3, <2>4, Answered
  <2> QED
    BY <1>3, <1>5, <2>2, <2>5 DEF WireInv
<1>7. ASSUME NEW problem \in Problems, Nak(c, problem), running' = running PROVE WireInv'
  <2>1. Meant("NAK", Encoding[problem], PeerNak(problem))
    BY RepliesMean
  <2> QED
    BY <1>6, <1>7, <2>1 DEF Nak
<1>8. CASE /\ handler # NoHandler
           /\ running' = [running EXCEPT ![c] = [handler |-> handler, message |-> message]]
           /\ UNCHANGED <<out, open, oversized, returned>>
  <2>1. Shapes'
    BY <1>0, <1>5, <1>8 DEF WireInv, Shapes, Outcomes
  <2>2. /\ Flows("server")'
        /\ \A d \in Calls : TextsOf(d, "server")' = TextsOf(d, "server")
    <3>1. Flows("server")' /\ UnderWay("server")' = UnderWay("server")
      BY <1>0, <1>3, <1>5, <1>8, FlowStays DEF WireInv
    <3> QED
      BY <3>1 DEF TextsOf
  <2>3. /\ running'[c] = [handler |-> handler, message |-> message]
        /\ \A d \in Calls : d # c => running'[d] = running[d]
    BY <1>5, <1>8 DEF WireInv, Shapes
  <2>4. OneToken(c)'
    <3>1. Busy(c)' /\ settledBy'[c] # "unsent"
      BY <1>0, <1>5, <1>8 DEF Busy
    <3>2. \A p \in Ends : TextsOf(c, p)' = {}
      BY <1>3, <1>5, <2>2
    <3> QED
      BY <1>3, <3>1, <3>2 DEF OneToken
  <2>5. ASSUME NEW d \in Calls, d # c PROVE OneToken(d)'
    <3>1. \A p \in Ends : TextsOf(d, p)' \subseteq TextsOf(d, p)
      BY <1>3, <1>5, <2>2
    <3>2. /\ OneToken(d) /\ running'[d] = running[d] /\ returned'[d] = returned[d]
          /\ settledBy'[d] = settledBy[d] /\ (d \in oversized' <=> d \in oversized)
      BY <1>0, <1>8, <2>3, <2>5 DEF WireInv
    <3> QED
      BY <3>1, <3>2, TokenStays
  <2> QED
    BY <1>3, <1>5, <2>1, <2>2, <2>4, <2>5 DEF WireInv
<1>9. "400" \in Problems /\ "503" \in Problems
  BY MessagingAssumption
<1>10. CASE Answer(c, "NAK", <<>>, PeerNak("500")) /\ running' = running
  BY <1>6, <1>10, RepliesMean
<1> QED
  BY <1>2, <1>7, <1>8, <1>9, <1>10 DEF Dispatch

\* A reply reaches the caller: its meaning is what has been returned.
LEMMA WireReplies ==
  ASSUME WireInv, ReceiveReply
  PROVE  /\ WireInv'
         /\ \A c \in Calls : settledBy'[c] = "reply" /\ settledBy[c] # "reply" => outcome'[c] = returned[c]
<1>0. Receives("client") /\ UNCHANGED <<out, writing, running, returned, oversized>>
  BY DEF ReceiveReply
<1>1. PICK t, c : t = Received(incoming["client"]) /\ c = Owner(t)
  OBVIOUS
<1>2. /\ "client" \in Ends /\ "server" \in Ends /\ \A p \in Ends : p = "client" \/ p = "server"
      /\ Peer("client") = "server" /\ Peer("server") = "client"
  BY DEF Ends, Peer
<1>3. /\ incoming' \in [Ends -> Seq(Fragments)] /\ incoming'["server"] = incoming["server"]
      /\ Flows("server")' /\ c \in Calls /\ t \in TextsOf(c, "server")
      /\ TextsOf(c, "server")' = {} /\ TextsOf(c, "client") = {}
      /\ Busy(c) /\ running[c] = NoTask
      /\ \A d \in Calls : TextsOf(d, "server")' \subseteq TextsOf(d, "server")
  <2>1. Receives("client") /\ UNCHANGED writing /\ out'[Peer("client")] = out[Peer("client")]
    BY <1>0
  <2>2. /\ incoming' \in [Ends -> Seq(Fragments)]
        /\ incoming'[Peer("client")] = incoming[Peer("client")]
        /\ Flows(Peer("client"))' /\ Owner(t) \in Calls
        /\ t \in TextsOf(Owner(t), Peer("client")) /\ TextsOf(Owner(t), Peer("client"))' = {}
        /\ TextsOf(Owner(t), "client") = {}
        /\ Busy(Owner(t)) /\ running[Owner(t)] = NoTask
        /\ \A d \in Calls : TextsOf(d, Peer("client"))' \subseteq TextsOf(d, Peer("client"))
    BY <1>1, <1>2, <2>1, WireTakes
  <2> QED
    BY <1>1, <1>2, <2>2
<1>4. Meaning(t) = returned[c]
  BY <1>3 DEF WireInv, OneToken
<1>5. IF settledBy[c] = "pending" THEN Settle(c, "reply", returned[c])
                                  ELSE UNCHANGED <<outcome, settledBy>>
  BY <1>1, <1>4 DEF ReceiveReply, Owner, Meaning
<1>6. Shapes'
  BY <1>0, <1>3, <1>5 DEF WireInv, Shapes, Outcomes, Settle
<1>7. Flows("client")' /\ \A d \in Calls : TextsOf(d, "client")' = TextsOf(d, "client")
  <2>1. Flows("client")' /\ UnderWay("client")' = UnderWay("client")
    BY <1>0, <1>2, <1>3, FlowStays DEF WireInv
  <2> QED
    BY <2>1 DEF TextsOf
<1>8. \A d \in Calls : d # c => settledBy'[d] = settledBy[d] /\ outcome'[d] = outcome[d]
  BY <1>5 DEF Settle, WireInv, Shapes, Outcomes
<1>9. OneToken(c)'
  <2>1. \A p \in Ends : TextsOf(c, p)' = {}
    BY <1>2, <1>3, <1>7
  <2>2. settledBy'[c] # "unsent"
    BY <1>3, <1>5 DEF Settle, WireInv, Shapes, Outcomes, Busy
  <2> QED
    BY <1>0, <1>3, <2>1, <2>2, TokenGone
<1>10. ASSUME NEW d \in Calls, d # c PROVE OneToken(d)'
  <2>1. \A p \in Ends : TextsOf(d, p)' \subseteq TextsOf(d, p)
    BY <1>2, <1>3, <1>7
  <2> QED
    BY <1>0, <1>8, <1>10, <2>1, TokenStays DEF WireInv
<1>11. settledBy'[c] = "reply" => outcome'[c] = returned[c]
  BY <1>3, <1>5 DEF Settle, WireInv, Shapes, Outcomes, Busy
<1> QED
  BY <1>2, <1>3, <1>6, <1>7, <1>8, <1>9, <1>10, <1>11 DEF WireInv

\* Every step keeps the invariant.
LEMMA WireStep == WireInv /\ [Next]_vars => WireInv'
<1> SUFFICES ASSUME WireInv, [Next]_vars
             PROVE  WireInv'
  OBVIOUS
<1> USE WireStays
<1>1. ASSUME NEW request \in Requests, Connect(request) PROVE WireInv'
  BY <1>1 DEF Connect
<1>2. ASSUME NEW h \in DOMAIN Handlers, On(h) PROVE WireInv'
  BY <1>2 DEF On
<1>3. ASSUME NEW type \in Types, Off(type) PROVE WireInv'
  BY <1>3 DEF Off
<1>4. ASSUME NEW p \in Ends, Close(p) PROVE WireInv'
  BY <1>4 DEF Close
<1>5. ASSUME NEW c \in Calls, TimesOut(c) PROVE WireInv'
  BY <1>5, WireSettled DEF TimesOut
<1>6. ASSUME NEW c \in Calls, FailPending(c) PROVE WireInv'
  BY <1>6, WireSettled DEF FailPending
<1>7. CASE UNCHANGED vars
  BY <1>7 DEF vars
<1> QED
  BY <1>1, <1>2, <1>3, <1>4, <1>5, <1>6, <1>7, WireSend, WireFinishes, WirePanics, WireStarts, WireWrites,
     WireRefuses, WireHandles, WireReplies
     DEF Next

----------------------------------------------------------------------------
(* What is returned for a call that has its reply stays what it is *)

IntactInv == WireInv /\ AnswerArrivesIntact

\* A step that settles no call with a reply, and returns nothing for one that has
\* been settled with one.
LEMMA IntactKept ==
  ASSUME IntactInv, WireInv',
         \A c \in Calls : settledBy'[c] = "reply" =>
            settledBy[c] = "reply" /\ outcome'[c] = outcome[c] /\ returned'[c] = returned[c]
  PROVE  IntactInv'
BY DEF IntactInv, AnswerArrivesIntact

\* Only for a call that waits for its reply is something returned.
LEMMA IntactAnswered ==
  ASSUME IntactInv, WireInv', UNCHANGED <<outcome, settledBy>>, NEW c, NEW kind, NEW payload, NEW result,
         Answer(c, kind, payload, result), c \in Calls => Busy(c)
  PROVE  IntactInv'
<1>1. ASSUME NEW d \in Calls, settledBy'[d] = "reply" PROVE returned'[d] = returned[d]
  <2>1. d # c
    BY <1>1 DEF Busy
  <2> QED
    BY <2>1 DEF Answer, IntactInv, WireInv, Shapes
<1> QED
  BY <1>1, IntactKept

\* Only ReceiveReply settles a call with a reply, and the text it reads is that
\* of the call.
LEMMA IntactStep == IntactInv /\ [Next]_vars => IntactInv'
<1> SUFFICES ASSUME IntactInv, [Next]_vars
             PROVE  IntactInv'
  OBVIOUS
<1>0. WireInv /\ WireInv'
  BY WireStep DEF IntactInv
<1>1. ASSUME UNCHANGED <<outcome, settledBy, returned>> PROVE IntactInv'
  BY <1>0, <1>1, IntactKept
<1>2. ASSUME NEW c \in Calls, settledBy[c] # "reply", NEW by, by # "reply",
             settledBy' = [settledBy EXCEPT ![c] = by],
             \A d \in Calls : d # c => outcome'[d] = outcome[d], returned' = returned
      PROVE  IntactInv'
  <2>1. \A d \in Calls : settledBy'[d] = IF d = c THEN by ELSE settledBy[d]
    BY <1>0, <1>2 DEF WireInv, Shapes, Outcomes
  <2> QED
    BY <1>0, <1>2, <2>1, IntactKept
<1>3. ASSUME NEW c \in Calls, settledBy[c] # "reply", NEW by, by # "reply", NEW result,
             Settle(c, by, result), returned' = returned
      PROVE  IntactInv'
  <2>1. \A d \in Calls : d # c => outcome'[d] = outcome[d]
    BY <1>0, <1>3 DEF Settle, WireInv, Shapes, Outcomes
  <2> QED
    BY <1>2, <1>3, <2>1 DEF Settle
<1>4. ASSUME NEW c \in Calls, NEW d \in Inputs, Send(c, d) PROVE IntactInv'
  <2>1. CASE \E result : Settle(c, "send", result)
    BY <1>3, <1>4, <2>1 DEF Send
  <2>2. CASE settledBy' = [settledBy EXCEPT ![c] = "pending"] /\ UNCHANGED outcome
    BY <1>2, <1>4, <2>2 DEF Send
  <2> QED
    BY <1>4, <2>1, <2>2 DEF Send
<1>5. ASSUME NEW c \in Calls, TimesOut(c) \/ FailPending(c) PROVE IntactInv'
  BY <1>3, <1>5 DEF TimesOut, FailPending
<1>6. ASSUME NEW c \in Calls, Finishes(c), NEW kind, NEW payload, NEW result,
             Answer(c, kind, payload, result)
      PROVE  IntactInv'
  <2>1. Busy(c)
    BY <1>0, <1>6 DEF Finishes, WireInv, OneToken
  <2> QED
    BY <1>0, <1>6, <2>1, IntactAnswered DEF Finishes
<1>7. CASE HandleMessage
  <2>1. PICK t, c : t = Received(incoming["server"]) /\ c = Owner(t)
    OBVIOUS
  <2>2. PICK handler, message : Dispatch(c, message, handler)
    BY <1>7, <2>1 DEF HandleMessage, Owner
  <2>3. UNCHANGED <<outcome, settledBy>>
    BY <1>7 DEF HandleMessage
  <2>4. Busy(c)
    <3>1. Receives("server") /\ UNCHANGED writing
      BY <1>7 DEF HandleMessage
    <3>2. "server" \in Ends /\ Peer("server") = "client"
      BY DEF Ends, Peer
    <3>3. out'["client"] = out["client"]
      BY <1>0, <2>2, AnswerLeaves DEF Dispatch, Nak, WireInv
    <3> QED
      BY <1>0, <2>1, <3>1, <3>2, <3>3, WireTakes
  <2>5. CASE \E kind, payload, result : Answer(c, kind, payload, result)
    BY <1>0, <2>3, <2>4, <2>5, IntactAnswered
  <2>6. CASE UNCHANGED returned
    BY <1>1, <2>3, <2>6
  <2> QED
    BY <2>2, <2>5, <2>6 DEF Dispatch, Nak
<1>8. CASE ReceiveReply
  <2>1. \A c \in Calls : settledBy'[c] = "reply" /\ settledBy[c] # "reply" => outcome'[c] = returned[c]
    BY <1>0, <1>8, WireReplies
  <2>2. \A c \in Calls : settledBy[c] = "reply" => outcome'[c] = outcome[c]
    BY <1>0, <1>8 DEF ReceiveReply, Settle, WireInv, Shapes, Outcomes
  <2>3. returned' = returned
    BY <1>8 DEF ReceiveReply
  <2> QED
    BY <1>0, <2>1, <2>2, <2>3 DEF IntactInv, AnswerArrivesIntact
<1>9. ASSUME NEW c \in Calls,
             \/ \E problem \in Quoting : Rejects(c, problem)
             \/ \E d \in Results \cup {Null} : Returns(c, d)
             \/ \E problem \in Failures : Fails(c, problem)
      PROVE  IntactInv'
  BY <1>6, <1>9 DEF Rejects, Returns, Fails, Nak
<1>16. ASSUME NEW c \in Calls, Panics(c) PROVE IntactInv'
  BY <1>1, <1>16 DEF Panics, Finishes
<1>10. ASSUME UNCHANGED calls PROVE IntactInv'
  BY <1>1, <1>10 DEF calls
<1>11. ASSUME NEW request \in Requests, Connect(request) PROVE IntactInv'
  BY <1>10, <1>11 DEF Connect
<1>12. ASSUME NEW h \in DOMAIN Handlers, On(h) PROVE IntactInv'
  BY <1>10, <1>12 DEF On
<1>13. ASSUME NEW type \in Types, Off(type) PROVE IntactInv'
  BY <1>10, <1>13 DEF Off
<1>14. ASSUME NEW p \in Ends, \/ \E text \in out[p] : StartWriting(p, text)
                              \/ WriteFragment(p) \/ ReceiveOversized(p) \/ Close(p)
       PROVE  IntactInv'
  BY <1>10, <1>14 DEF StartWriting, WriteFragment, ReceiveOversized, Close
<1>15. CASE UNCHANGED vars
  BY <1>10, <1>15 DEF vars
<1> QED
  BY <1>4, <1>5, <1>7, <1>8, <1>9, <1>11, <1>12, <1>13, <1>14, <1>15, <1>16 DEF Next

\* The caller gets what the handler came up with, or the problem detail that took
\* its place: encoded, framed, split into fragments of any size, put together,
\* parsed and decoded, for any calls, values, limits and handlers.
THEOREM ReplyIsIntact == Spec => []AnswerArrivesIntact
<1>1. Init => IntactInv
  <2>1. Init => AnswerArrivesIntact
    BY DEF Init, AnswerArrivesIntact
  <2> QED
    BY <2>1, WireInit DEF IntactInv
<1>2. IntactInv => AnswerArrivesIntact
  BY DEF IntactInv
<1> QED
  BY <1>1, <1>2, IntactStep, PTL DEF Spec

----------------------------------------------------------------------------
(* What an end writes is within its limit *)

\* The problem details with a fixed text fit into a reply: the 400 for what is
\* no JSON or has no type, and the 413, 500 and 503 that stand for an answer.
ProblemsFit == \A d \in {"400", "413", "500", "503"} : Bounded("server", d)

FitInv ==
    /\ WireInv
    /\ oversized \subseteq Calls
    /\ \A c \in oversized : returned[c].what \in Failures \cup Quoting

\* A reply whose payload is bounded is queued.
LEMMA FitsWhenBounded ==
  ASSUME NEW c \in Calls, NEW kind \in {"ACK", "NAK"}, NEW payload \in Payloads,
         Len(payload) + Header <= Limit["server"], NEW result, Answer(c, kind, payload, result)
  PROVE  oversized' = oversized
<1>1. PICK t : t = Serialize(Frame(kind, Id(c), payload))
  OBVIOUS
<1>2. kind \in {"MSG", "ACK", "NAK"}
  OBVIOUS
<1>3. Len(t) = Header + Len(payload) /\ payload \in Seq(Characters)
  BY <1>1, <1>2, TextOf
<1>4. Len(payload) \in Int /\ Header \in Int
  BY <1>3, WireAssumption DEF Header
<1>5. Len(t) <= Limit["server"]
  BY <1>3, <1>4
<1> QED
  BY <1>1, <1>5 DEF Answer, Write

\* The library's own problem details fit, and so does an empty payload.
LEMMA FitBounded ==
  ASSUME ProblemsFit
  PROVE  /\ \A d \in {"400", "413", "500", "503"} : Len(Encoding[d]) + Header <= Limit["server"]
         /\ Len(<<>>) + Header <= Limit["server"]
<1>1. \A d \in {"400", "413", "500", "503"} : Len(Encoding[d]) + Header <= Limit["server"]
  BY DEF ProblemsFit, Bounded
<1>2. Encoding["400"] \in Seq(Alphabet)
  BY MessagingAssumption
<1>3. Len(Encoding["400"]) \in Nat /\ Header \in Int /\ Limit["server"] \in Int
  BY <1>2, WireAssumption, MessagingAssumption DEF Header
<1>4. Len(<<>>) = 0
  OBVIOUS
<1> QED
  BY <1>1, <1>3, <1>4

\* A step that returns nothing keeps the invariant.
LEMMA FitKept ==
  ASSUME FitInv, WireInv', UNCHANGED <<oversized, returned>>
  PROVE  FitInv'
BY DEF FitInv

\* An answer for a call that waits for one, and what it returns if it is too large.
LEMMA FitAnswered ==
  ASSUME FitInv, WireInv', NEW c \in Calls, Busy(c), NEW kind, NEW payload, NEW result,
         Answer(c, kind, payload, result), oversized' # oversized => result.what \in Failures \cup Quoting
  PROVE  FitInv'
<1>1. oversized' \subseteq oversized \cup {c}
  BY DEF Answer, Write
<1>2. returned'[c] = result /\ \A d \in Calls : d # c => returned'[d] = returned[d]
  BY DEF Answer, FitInv, WireInv, Shapes
<1>3. c \notin oversized
  BY DEF Busy
<1>4. ASSUME NEW d \in oversized' PROVE d \in Calls /\ returned'[d].what \in Failures \cup Quoting
  <2>1. CASE d = c
    <3>1. oversized' # oversized
      BY <1>3, <1>4, <2>1
    <3> QED
      BY <1>2, <2>1, <3>1
  <2>2. CASE d # c
    BY <1>1, <1>2, <1>4, <2>2 DEF FitInv
  <2> QED
    BY <2>1, <2>2
<1> QED
  BY <1>4 DEF FitInv

\* The owner of the message that reaches the server waits for its answer.
LEMMA HandledIsBusy ==
  ASSUME WireInv, HandleMessage
  PROVE  \E handler, message : \E c \in Calls :
           /\ Busy(c) /\ Dispatch(c, message, handler)
           /\ handler = Resolve(c, TypeOf[message])
<1>1. PICK t, c : t = Received(incoming["server"]) /\ c = Owner(t)
  OBVIOUS
<1>2. PICK handler, message : Dispatch(c, message, handler) /\ handler = Resolve(c, TypeOf[message])
  BY <1>1 DEF HandleMessage, Owner
<1>3. Receives("server") /\ UNCHANGED writing
  BY DEF HandleMessage
<1>4. "server" \in Ends /\ Peer("server") = "client"
  BY DEF Ends, Peer
<1>5. out'["client"] = out["client"]
  BY <1>2, AnswerLeaves DEF Dispatch, Nak, WireInv
<1>6. c \in Calls /\ Busy(c)
  BY <1>1, <1>3, <1>4, <1>5, WireTakes
<1> QED
  BY <1>2, <1>6

\* Every step keeps the invariant.
LEMMA FitStep == ProblemsFit /\ FitInv /\ [Next]_vars => FitInv'
<1> SUFFICES ASSUME ProblemsFit, FitInv, [Next]_vars
             PROVE  FitInv'
  OBVIOUS
<1>0. WireInv /\ WireInv'
  BY WireStep DEF FitInv
<1>1. ASSUME UNCHANGED <<oversized, returned>> PROVE FitInv'
  BY <1>0, <1>1, FitKept
<1>2. ASSUME NEW c \in Calls, Busy(c), NEW problem \in {"400", "413", "500", "503"}, Nak(c, problem)
      PROVE  FitInv'
  <2>1. problem \in Docs
    BY MessagingAssumption
  <2>2. Encoding[problem] \in Payloads /\ Len(Encoding[problem]) + Header <= Limit["server"]
    BY <2>1, FitBounded DEF Payloads
  <2>3. Answer(c, "NAK", Encoding[problem], PeerNak(problem))
    BY <1>2 DEF Nak
  <2>4. oversized' = oversized
    BY <2>2, <2>3, FitsWhenBounded
  <2> QED
    BY <1>0, <1>2, <2>3, <2>4, FitAnswered
<1>3. ASSUME NEW c \in Calls, Busy(c), NEW kind \in {"ACK", "NAK"}, NEW result,
             Answer(c, kind, <<>>, result)
      PROVE  FitInv'
  <2>1. <<>> \in Payloads /\ Len(<<>>) + Header <= Limit["server"]
    BY FitBounded, Meanings
  <2>2. oversized' = oversized
    BY <1>3, <2>1, FitsWhenBounded
  <2> QED
    BY <1>0, <1>3, <2>2, FitAnswered
<1>4. ASSUME NEW c \in Calls, Busy(c), NEW d \in Docs, Bounded("server", d),
             Answer(c, "ACK", Encoding[d], Ok(d))
      PROVE  FitInv'
  <2>1. Encoding[d] \in Payloads /\ Len(Encoding[d]) + Header <= Limit["server"]
    BY <1>4 DEF Payloads, Bounded
  <2>2. oversized' = oversized
    BY <1>4, <2>1, FitsWhenBounded
  <2> QED
    BY <1>0, <1>4, <2>2, FitAnswered
<1>5. ASSUME NEW c \in Calls, Busy(c), NEW problem \in Failures \cup Quoting, Nak(c, problem)
      PROVE  FitInv'
  <2>1. /\ Answer(c, "NAK", Encoding[problem], PeerNak(problem))
        /\ PeerNak(problem).what \in Failures \cup Quoting
    BY <1>5 DEF Nak, PeerNak
  <2> QED
    BY <1>0, <1>5, <2>1, FitAnswered
<1>6. ASSUME NEW c \in Calls, Finishes(c) PROVE Busy(c)
  BY <1>0, <1>6 DEF Finishes, WireInv, OneToken
<1>7. ASSUME NEW c \in Calls, NEW problem \in Quoting, Rejects(c, problem) PROVE FitInv'
  BY <1>5, <1>6, <1>7 DEF Rejects
<1>19. ASSUME NEW c \in Calls, Panics(c) PROVE FitInv'
  BY <1>1, <1>19 DEF Panics
<1>8. ASSUME NEW c \in Calls, NEW d \in Results \cup {Null}, Returns(c, d) PROVE FitInv'
  <2>1. Busy(c)
    BY <1>6, <1>8 DEF Returns
  <2>2. CASE Nak(c, "500") \/ Nak(c, "413")
    BY <1>2, <2>1, <2>2
  <2>3. CASE Answer(c, "ACK", <<>>, Ok(Null))
    BY <1>3, <2>1, <2>3
  <2>4. CASE d # Null /\ d # Unserializable /\ Bounded("server", d) /\ Answer(c, "ACK", Encoding[d], Ok(d))
    <3>1. d \in Docs
      BY <2>4, MessagingAssumption
    <3> QED
      BY <1>4, <2>1, <2>4, <3>1
  <2> QED
    BY <1>8, <2>2, <2>3, <2>4 DEF Returns
<1>9. ASSUME NEW c \in Calls, NEW problem \in Failures, Fails(c, problem) PROVE FitInv'
  BY <1>5, <1>6, <1>9 DEF Fails
<1>10. CASE HandleMessage
  <2>1. PICK handler, message : \E c \in Calls : Busy(c) /\ Dispatch(c, message, handler)
    BY <1>0, <1>10, HandledIsBusy
  <2>0. PICK c \in Calls : Busy(c) /\ Dispatch(c, message, handler)
    BY <2>1
  <2>2. CASE Nak(c, "503") \/ Nak(c, "400")
    BY <1>2, <2>0, <2>2
  <2>3. CASE Answer(c, "NAK", <<>>, PeerNak("500"))
    BY <1>3, <2>0, <2>3
  <2>4. CASE UNCHANGED <<oversized, returned>>
    BY <1>1, <2>4
  <2> QED
    BY <2>0, <2>2, <2>3, <2>4 DEF Dispatch
<1>11. ASSUME NEW c \in Calls, NEW d \in Inputs, Send(c, d) PROVE FitInv'
  BY <1>1, <1>11 DEF Send
<1>12. ASSUME NEW c \in Calls, TimesOut(c) \/ FailPending(c) PROVE FitInv'
  BY <1>1, <1>12 DEF TimesOut, FailPending
<1>13. CASE ReceiveReply
  BY <1>1, <1>13 DEF ReceiveReply
<1>14. ASSUME NEW request \in Requests, Connect(request) PROVE FitInv'
  BY <1>1, <1>14 DEF Connect, calls
<1>15. ASSUME NEW h \in DOMAIN Handlers, On(h) PROVE FitInv'
  BY <1>1, <1>15 DEF On, calls
<1>16. ASSUME NEW type \in Types, Off(type) PROVE FitInv'
  BY <1>1, <1>16 DEF Off, calls
<1>17. ASSUME NEW p \in Ends, \/ \E text \in out[p] : StartWriting(p, text)
                              \/ WriteFragment(p) \/ ReceiveOversized(p) \/ Close(p)
       PROVE  FitInv'
  BY <1>1, <1>17 DEF StartWriting, WriteFragment, ReceiveOversized, Close, calls
<1>18. CASE UNCHANGED vars
  BY <1>1, <1>18 DEF vars, calls
<1> QED
  BY <1>7, <1>8, <1>9, <1>10, <1>11, <1>12, <1>13, <1>14, <1>15, <1>16, <1>17, <1>18, <1>19 DEF Next

\* Whatever handlers return and however large it is, what an end writes is within
\* its limit, and a session is only closed for a problem detail whose size is not
\* the library's choice: one a handler fails with, or the 400 that quotes a
\* message (SharedSession::write, serialize_bounded, HandlerMap::register),
\* provided the problem details with a fixed text fit.
THEOREM ResultsFit ==
  ASSUME ProblemsFit
  PROVE  Spec => []ResultsNeverClose
<1>1. Init => FitInv
  <2>1. Init => oversized = {}
    BY DEF Init
  <2> QED
    BY <2>1, WireInit DEF FitInv
<1>2. FitInv => ResultsNeverClose
  <2> SUFFICES ASSUME FitInv PROVE ResultsNeverClose
    OBVIOUS
  <2>1. ASSUME NEW p \in Ends PROVE Len(writing[p].text) <= Limit[p]
    <3>1. CASE writing[p] = Nothing
      <4>1. Len(writing[p].text) = 0 /\ Limit[p] \in Nat
        BY <3>1, MessagingAssumption DEF Nothing, Ends
      <4> QED
        BY <4>1
    <3>2. CASE writing[p] # Nothing
      <4>1. writing[p].text \in UnderWay(p)
        BY <3>2 DEF UnderWay, Sending
      <4> QED
        BY <4>1 DEF FitInv, WireInv, Flows, Sendable
    <3> QED
      BY <3>1, <3>2
  <2> QED
    BY <2>1 DEF FitInv, ResultsNeverClose
<1>3. FitInv /\ [Next]_vars => FitInv'
  BY FitStep
<1> QED
  BY <1>1, <1>2, <1>3, PTL DEF Spec

----------------------------------------------------------------------------
(* Handlers that were taken out *)

HandlerShapes ==
    /\ handlers = [t \in Types |-> handlers[t]]
    /\ stale = [c \in Calls |-> stale[c]] /\ ran = [c \in Calls |-> ran[c]]

\* A handler of the map has been registered and was not taken out before any
\* call was sent; a call that has not been sent has no handler.
StaleInv ==
    /\ HandlerShapes
    /\ \A t \in Types : handlers[t] # NoHandler =>
          handlers[t] \in used /\ \A c \in Calls : handlers[t] \notin stale[c]
    /\ \A c \in Calls : stale[c] \subseteq used
    /\ \A c \in Calls : settledBy[c] = "unsent" => ran[c] = NoHandler
    /\ NoStaleHandler

\* At first there are no handlers and no messages.
LEMMA StaleInit == Init => StaleInv
BY DEF Init, StaleInv, HandlerShapes, NoStaleHandler

\* A step that leaves the handlers alone and sends no message.
LEMMA StaleStays ==
  ASSUME StaleInv, UNCHANGED <<handlers, used, stale, ran>>,
         \A c \in Calls : settledBy'[c] = "unsent" => settledBy[c] = "unsent"
  PROVE  StaleInv'
BY DEF StaleInv, HandlerShapes, NoStaleHandler

\* Every step keeps the invariant.
LEMMA StaleStep == WireInv /\ StaleInv /\ [Next]_vars => StaleInv'
<1> SUFFICES ASSUME WireInv, StaleInv, [Next]_vars
             PROVE  StaleInv'
  OBVIOUS
<1>1. ASSUME UNCHANGED <<handlers, used, settledBy, stale, ran>> PROVE StaleInv'
  BY <1>1, StaleStays
<1>2. ASSUME NEW c \in Calls, NEW by, by # "unsent", NEW result, Settle(c, by, result),
             UNCHANGED <<handlers, used, stale, ran>>
      PROVE  StaleInv'
  <2>1. \A d \in Calls : settledBy'[d] = IF d = c THEN by ELSE settledBy[d]
    BY <1>2 DEF Settle, WireInv, Shapes, Outcomes
  <2> QED
    BY <1>2, <2>1, StaleStays
<1>3. ASSUME NEW h \in DOMAIN Handlers, On(h) PROVE StaleInv'
  <2>1. h \notin used /\ UNCHANGED <<settledBy, stale, ran>> /\ used' = used \cup {h}
    BY <1>3 DEF On, calls
  <2>2. handlers' = [handlers EXCEPT ![Handlers[h].type] = h]
    BY <1>3 DEF On
  <2>3. /\ handlers' = [t \in Types |-> handlers'[t]]
        /\ \A t \in Types : handlers'[t] = h \/ handlers'[t] = handlers[t]
    BY <2>2 DEF StaleInv, HandlerShapes
  <2>4. \A c \in Calls : h \notin stale[c]
    BY <2>1 DEF StaleInv
  <2> QED
    BY <2>1, <2>3, <2>4 DEF StaleInv, HandlerShapes, NoStaleHandler
<1>4. ASSUME NEW type \in Types, Off(type) PROVE StaleInv'
  <2>1. UNCHANGED <<used, settledBy, stale, ran>>
    BY <1>4 DEF Off, calls
  <2>2. handlers' = [handlers EXCEPT ![type] = NoHandler]
    BY <1>4 DEF Off
  <2>3. /\ handlers' = [t \in Types |-> handlers'[t]]
        /\ \A t \in Types : handlers'[t] = NoHandler \/ handlers'[t] = handlers[t]
    BY <2>2 DEF StaleInv, HandlerShapes
  <2> QED
    BY <2>1, <2>3 DEF StaleInv, HandlerShapes, NoStaleHandler
<1>5. ASSUME NEW c \in Calls, NEW d \in Inputs, Send(c, d) PROVE StaleInv'
  <2>1. /\ settledBy[c] = "unsent" /\ UNCHANGED <<handlers, used, ran>>
        /\ stale' = [stale EXCEPT ![c] = used \ {handlers[t] : t \in Types}]
    BY <1>5 DEF Send
  <2>2. \E by : by # "unsent" /\ settledBy' = [settledBy EXCEPT ![c] = by]
    BY <1>5 DEF Send, Settle
  <2>3. \A e \in Calls : settledBy'[e] = "unsent" => settledBy[e] = "unsent"
    BY <2>2 DEF WireInv, Shapes, Outcomes
  <2>4. /\ stale' = [e \in Calls |-> stale'[e]]
        /\ \A e \in Calls : stale'[e] = IF e = c THEN used \ {handlers[t] : t \in Types} ELSE stale[e]
    BY <2>1 DEF StaleInv, HandlerShapes
  <2>5. ran[c] = NoHandler
    BY <2>1 DEF StaleInv
  <2>6. \A t \in Types : handlers[t] # NoHandler =>
          handlers[t] \in used /\ \A e \in Calls : handlers[t] \notin stale'[e]
    BY <2>4 DEF StaleInv
  <2>7. \A e \in Calls : stale'[e] \subseteq used
    BY <2>4 DEF StaleInv
  <2>8. \A e \in Calls : ran[e] # NoHandler => ran[e] \notin stale'[e]
    BY <2>4, <2>5 DEF StaleInv, NoStaleHandler
  <2> QED
    BY <2>1, <2>3, <2>4, <2>6, <2>7, <2>8 DEF StaleInv, HandlerShapes, NoStaleHandler
<1>6. CASE HandleMessage
  <2>1. UNCHANGED <<handlers, used, settledBy, stale>>
    BY <1>6 DEF HandleMessage
  <2>2. PICK handler, message : \E c \in Calls :
           Busy(c) /\ Dispatch(c, message, handler) /\ handler = Resolve(c, TypeOf[message])
    BY <1>6, HandledIsBusy
  <2>0. PICK c \in Calls :
           Busy(c) /\ Dispatch(c, message, handler) /\ handler = Resolve(c, TypeOf[message])
    BY <2>2
  <2>3. CASE UNCHANGED ran
    BY <1>1, <2>1, <2>3
  <2>4. CASE handler # NoHandler /\ ran' = [ran EXCEPT ![c] = handler]
    <3>1. handler \notin stale[c]
      BY <2>0, <2>4 DEF Resolve, StaleInv
    <3>2. /\ ran' = [d \in Calls |-> ran'[d]]
          /\ \A d \in Calls : ran'[d] = IF d = c THEN handler ELSE ran[d]
      BY <2>4 DEF StaleInv, HandlerShapes
    <3>3. settledBy[c] # "unsent"
      BY <2>0 DEF Busy
    <3> QED
      BY <2>1, <3>1, <3>2, <3>3 DEF StaleInv, HandlerShapes, NoStaleHandler
  <2> QED
    BY <2>0, <2>3, <2>4 DEF Dispatch
<1>7. CASE ReceiveReply
  <2>1. UNCHANGED <<handlers, used, stale, ran>>
    BY <1>7 DEF ReceiveReply
  <2>2. \A c \in Calls : settledBy'[c] = "unsent" => settledBy[c] = "unsent"
    BY <1>7 DEF ReceiveReply, Settle, WireInv, Shapes, Outcomes
  <2> QED
    BY <2>1, <2>2, StaleStays
<1>8. ASSUME NEW c \in Calls, TimesOut(c) \/ FailPending(c) PROVE StaleInv'
  BY <1>2, <1>8 DEF TimesOut, FailPending
<1>9. ASSUME NEW c \in Calls, Finishes(c) PROVE StaleInv'
  BY <1>1, <1>9 DEF Finishes
<1>10. ASSUME NEW request \in Requests, Connect(request) PROVE StaleInv'
  BY <1>1, <1>10 DEF Connect, calls
<1>11. ASSUME NEW p \in Ends, \/ \E text \in out[p] : StartWriting(p, text)
                              \/ WriteFragment(p) \/ ReceiveOversized(p) \/ Close(p)
       PROVE  StaleInv'
  BY <1>1, <1>11 DEF StartWriting, WriteFragment, ReceiveOversized, Close, calls
<1>12. CASE UNCHANGED vars
  BY <1>1, <1>12 DEF vars, calls
<1> QED
  BY <1>3, <1>4, <1>5, <1>6, <1>7, <1>8, <1>9, <1>10, <1>11, <1>12
     DEF Next, Rejects, Panics, Returns, Fails

\* A message is given to the handler its type has when it arrives, never to one
\* that was replaced or removed before it was sent (HandlerMap::resolve), for any
\* handlers and any calls.
THEOREM StaleHandlersRest == Spec => []NoStaleHandler
<1>1. StaleInv => NoStaleHandler
  BY DEF StaleInv
<1> QED
  BY <1>1, WireInit, WireStep, StaleInit, StaleStep, PTL DEF Spec

----------------------------------------------------------------------------
(* The frames of a text *)

EndAt(frames, i) == Len(Received(SubSeq(frames, 1, i)))

\* The i-th frame of a text: it carries something, is within the size, has the
\* opcode of its place and ends where a character ends, if one does.
Fits(frames, i, text, size) ==
    /\ frames[i].bytes # <<>>
    /\ size # 0 => Len(frames[i].bytes) <= size
    /\ frames[i].opcode = "Text" <=> i = 1
    /\ IsBoundary(text, EndAt(frames, i)) \/
         \A n \in (EndAt(frames, i - 1) + 1)..EndAt(frames, i) : ~IsBoundary(text, n)

\* The frames of a text before the next one are the same.
LEMMA SubSeqOfMore ==
  ASSUME NEW frames \in Seq(Fragments), NEW next \in Fragments, NEW i \in 0..Len(frames)
  PROVE  SubSeq(Append(frames, next), 1, i) = SubSeq(frames, 1, i)
<1>1. PICK more : more = Append(frames, next)
  OBVIOUS
<1>2. /\ Len(frames) \in Nat /\ \A j \in 1..i : frames[j] \in Fragments
      /\ \A j \in 1..i : more[j] = frames[j]
  BY <1>1, AppendProperties, ElementOfSeq
<1>3. /\ SubSeq(frames, 1, i) \in Seq(Fragments)
      /\ Len(SubSeq(frames, 1, i)) = IF 1 <= i THEN i - 1 + 1 ELSE 0
      /\ \A j \in 1..i - 1 + 1 : SubSeq(frames, 1, i)[j] = frames[1 + j - 1]
  BY <1>2, SubSeqProperties
<1>4. \A j \in 1..i : more[j] \in Fragments
  BY <1>2
<1>5. /\ SubSeq(more, 1, i) \in Seq(Fragments)
      /\ Len(SubSeq(more, 1, i)) = IF 1 <= i THEN i - 1 + 1 ELSE 0
      /\ \A j \in 1..i - 1 + 1 : SubSeq(more, 1, i)[j] = more[1 + j - 1]
  BY <1>4, SubSeqProperties
<1>6. PICK s, t : s = SubSeq(frames, 1, i) /\ t = SubSeq(more, 1, i)
  OBVIOUS
<1>7. s \in Seq(Fragments) /\ t \in Seq(Fragments) /\ Len(s) = i /\ Len(t) = i
  BY <1>3, <1>5, <1>6
<1>8. ASSUME NEW j \in 1..i PROVE t[j] = s[j]
  <2>1. j \in 1..i - 1 + 1 /\ 1 + j - 1 = j
    OBVIOUS
  <2> QED
    BY <1>2, <1>3, <1>5, <1>6, <2>1
<1>9. s = t
  BY <1>7, <1>8, SeqEqual
<1> QED
  BY <1>1, <1>6, <1>9

\* A fragment stays fit when more follow.
LEMMA FitsStill ==
  ASSUME NEW frames \in Seq(Fragments), NEW next \in Fragments, NEW i \in 1..Len(frames),
         NEW text, NEW size, Fits(frames, i, text, size)
  PROVE  Fits(Append(frames, next), i, text, size)
<1>1. i \in 0..Len(frames) /\ i - 1 \in 0..Len(frames)
  OBVIOUS
<1>2. /\ EndAt(Append(frames, next), i) = EndAt(frames, i)
      /\ EndAt(Append(frames, next), i - 1) = EndAt(frames, i - 1)
  BY <1>1, SubSeqOfMore DEF EndAt
<1>3. Append(frames, next)[i] = frames[i]
  BY AppendProperties
<1> QED
  BY <1>2, <1>3 DEF Fits

\* The next fragment of a text is fit.
LEMMA FitsNext ==
  ASSUME NEW frames, NEW text, NEW start, NEW size \in Nat, NEW next, NEW end,
         next = NextFragment(text, start, size), end = FragmentEnd(text, start, size),
         Extends(frames, next, text, start, end), start = 0 <=> frames = <<>>
  PROVE  Fits(Append(frames, next), Len(frames) + 1, text, size)
<1>1. /\ frames \in Seq(Fragments) /\ next \in Fragments /\ text \in Seq(Characters)
      /\ start \in Nat /\ end \in (start + 1)..Len(text) /\ Len(text) \in Nat /\ Len(frames) \in Nat
      /\ Received(frames) = SubSeq(text, 1, start)
      /\ Received(Append(frames, next)) = SubSeq(text, 1, end)
  BY DEF Extends, Holds
<1>0. start < Len(text)
  BY <1>1
<1>2. /\ next.bytes = SubSeq(text, start + 1, end) /\ Len(next.bytes) = end - start
      /\ next.opcode = (IF start = 0 THEN "Text" ELSE "Continue")
  <2>1. text \in Seq(Characters) /\ start \in Nat
    BY <1>1
  <2> QED
    BY <1>0, <2>1, NextOf
<1>3. /\ size # 0 => end - start <= size
      /\ IsBoundary(text, end) \/ \A n \in (start + 1)..end : ~IsBoundary(text, n)
  BY <1>0, <1>1, EndOf
<1>4. ASSUME NEW n \in 0..Len(text) PROVE Len(SubSeq(text, 1, n)) = n
  <2>1. \A i \in 1..n : text[i] \in Characters
    BY <1>1
  <2>2. Len(SubSeq(text, 1, n)) = IF 1 <= n THEN n - 1 + 1 ELSE 0
    BY <2>1, SubSeqProperties
  <2> QED
    BY <1>1, <2>2
<1>5. PICK more : more = Append(frames, next)
  OBVIOUS
<1>6. more \in Seq(Fragments) /\ Len(more) = Len(frames) + 1 /\ more[Len(frames) + 1] = next
  BY <1>1, <1>5, AppendProperties
<1>7. EndAt(more, Len(frames) + 1) = end
  <2>1. SubSeq(more, 1, Len(frames) + 1) = more
    BY <1>6, SubSeqFull
  <2>2. end \in 0..Len(text)
    BY <1>1
  <2>3. Len(SubSeq(text, 1, end)) = end
    BY <1>4, <2>2
  <2>4. Received(more) = SubSeq(text, 1, end)
    BY <1>1, <1>5
  <2> QED
    BY <2>1, <2>3, <2>4 DEF EndAt
<1>8. EndAt(more, Len(frames) + 1 - 1) = start
  <2>1. Len(frames) + 1 - 1 = Len(frames) /\ Len(frames) \in 0..Len(frames)
    BY <1>1
  <2>2. SubSeq(more, 1, Len(frames)) = SubSeq(frames, 1, Len(frames))
    BY <1>1, <1>5, <2>1, SubSeqOfMore
  <2>3. SubSeq(frames, 1, Len(frames)) = frames
    BY <1>1, SubSeqFull
  <2>4. start \in 0..Len(text)
    BY <1>1
  <2> QED
    BY <1>1, <1>4, <2>1, <2>2, <2>3, <2>4 DEF EndAt
<1>9. next.bytes # <<>>
  <2>1. Len(next.bytes) # 0 /\ Len(<<>>) = 0
    BY <1>1, <1>2
  <2> QED
    BY <2>1
<1>10. next.opcode = "Text" <=> Len(frames) + 1 = 1
  <2>1. frames = <<>> <=> Len(frames) = 0
    BY <1>1, EmptySeq
  <2> QED
    BY <1>1, <1>2, <2>1
<1>11. PICK i : i = Len(frames) + 1
  OBVIOUS
<1>12. more[i] = next /\ EndAt(more, i) = end /\ EndAt(more, i - 1) = start
  BY <1>6, <1>7, <1>8, <1>11
<1>13. size # 0 => Len(more[i].bytes) <= size
  BY <1>2, <1>3, <1>12
<1>14. Fits(more, i, text, size)
  BY <1>3, <1>9, <1>10, <1>11, <1>12, <1>13 DEF Fits
<1> QED
  BY <1>5, <1>11, <1>14

\* The text an end writes, or has written.
TextFrom(p) == IF Complete(Peer(p)) THEN Received(incoming[Peer(p)]) ELSE writing[p].text

AllFit(frames, text, size, complete) ==
    \A i \in DOMAIN frames :
        Fits(frames, i, text, size) /\ (frames[i].fin <=> complete /\ i = Len(frames))

FramesFit(p) ==
    /\ AllFit(incoming[Peer(p)], TextFrom(p), FragmentSize[p], Complete(Peer(p)))
    /\ ~Complete(Peer(p)) => (incoming[Peer(p)] = <<>> <=> writing[p].start = 0)

FramesInv == WireInv /\ \A p \in Ends : FramesFit(p)

\* An end that is not writing a fragment and whose peer receives none.
LEMMA FramesStay ==
  ASSUME NEW p \in Ends, FramesFit(p),
         writing'[p] = writing[p], incoming'[Peer(p)] = incoming[Peer(p)]
  PROVE  FramesFit(p)'
BY DEF FramesFit, TextFrom, Complete

\* The frames of an end that has none.
LEMMA NoFrames ==
  ASSUME NEW p \in Ends, incoming'[Peer(p)] = <<>>, writing'[p].start = 0
  PROVE  FramesFit(p)'
<1>1. \A text, size, complete : AllFit(<<>>, text, size, complete)
  BY DEF AllFit
<1>2. AllFit(incoming[Peer(p)], TextFrom(p), FragmentSize[p], Complete(Peer(p)))'
  BY <1>1
<1> QED
  BY <1>2 DEF FramesFit

\* Writing a fragment.
LEMMA FramesWrite ==
  ASSUME FramesInv, NEW p \in Ends, WriteFragment(p)
  PROVE  FramesFit(p)'
<1>0. WireInv /\ Shapes /\ Flows(p) /\ writing[p] # Nothing /\ ~Complete(Peer(p)) /\ FramesFit(p)
  BY DEF FramesInv, WireInv, WriteFragment
<1>1. PICK q, text, start, size, frames, next, end, more :
        /\ q = Peer(p) /\ text = writing[p].text /\ start = writing[p].start
        /\ size = FragmentSize[p] /\ frames = incoming[q]
        /\ next = NextFragment(text, start, size) /\ end = start + Len(next.bytes)
        /\ more = Append(frames, next)
  OBVIOUS
<1>2. /\ incoming' = [incoming EXCEPT ![q] = Append(@, next)]
      /\ writing' = [writing EXCEPT ![p] = Rest(@, next)]
  BY <1>1 DEF WriteFragment, Rest
<1>3. q \in Ends
  BY <1>1, PeerOf
<1>4. incoming'[q] = more /\ writing'[p] = Rest(writing[p], next)
  BY <1>0, <1>1, <1>2, <1>3 DEF Shapes
<1>5. Extends(frames, next, text, start, end) /\ end = FragmentEnd(text, start, size) /\ size \in Nat
  BY <1>0, <1>1, Written
<1>6. /\ frames \in Seq(Fragments) /\ next \in Fragments /\ text \in Seq(Characters)
      /\ start \in Nat /\ end \in (start + 1)..Len(text) /\ (next.fin <=> end = Len(text))
      /\ Received(more) = SubSeq(text, 1, end) /\ Len(text) \in Nat /\ Len(frames) \in Nat
  BY <1>1, <1>5 DEF Extends, Holds
<1>7. /\ more \in Seq(Fragments) /\ Len(more) = Len(frames) + 1 /\ more # <<>>
      /\ more[Len(more)] = next /\ \A i \in 1..Len(frames) : more[i] = frames[i]
      /\ DOMAIN more = 1..Len(more) /\ DOMAIN frames = 1..Len(frames)
  <2>1. frames \in Seq(Fragments) /\ next \in Fragments /\ more = Append(frames, next)
    BY <1>1, <1>6
  <2>2. /\ more \in Seq(Fragments) /\ Len(more) = Len(frames) + 1 /\ more # <<>>
        /\ more[Len(frames) + 1] = next /\ \A i \in 1..Len(frames) : more[i] = frames[i]
    BY ONLY <2>1, AppendProperties
  <2>3. DOMAIN more = 1..Len(more) /\ DOMAIN frames = 1..Len(frames)
    BY ONLY <2>1, <2>2, LenProperties
  <2> QED
    BY <2>2, <2>3
<1>8. Complete(q)' <=> next.fin
  BY <1>4, <1>7 DEF Complete, Last
<1>9. TextFrom(p)' = text
  <2>1. CASE next.fin
    BY <1>1, <1>4, <1>6, <1>8, <2>1, SubSeqFull DEF TextFrom
  <2>2. CASE ~next.fin
    BY <1>1, <1>4, <1>8, <2>2 DEF TextFrom, Rest
  <2> QED
    BY <2>1, <2>2
<1>10. TextFrom(p) = text /\ AllFit(frames, text, size, FALSE) /\ (frames = <<>> <=> start = 0)
  <2>1. TextFrom(p) = text
    BY <1>0, <1>1 DEF TextFrom
  <2>2. Complete(q) <=> FALSE
    BY <1>0, <1>1
  <2>3. \A i \in DOMAIN frames : Fits(frames, i, text, size) /\ ~frames[i].fin
    BY <1>0, <1>1, <2>1, <2>2 DEF FramesFit, AllFit
  <2> QED
    BY <1>0, <1>1, <2>1, <2>3 DEF FramesFit, AllFit
<1>11. ASSUME NEW i \in DOMAIN more
       PROVE  Fits(more, i, text, size) /\ (more[i].fin <=> next.fin /\ i = Len(more))
  <2>1. CASE i \in 1..Len(frames)
    <3>1. Fits(frames, i, text, size) /\ ~frames[i].fin
      BY <1>7, <1>10, <2>1 DEF AllFit
    <3>2. Fits(more, i, text, size)
      BY <1>1, <1>6, <2>1, <3>1, FitsStill
    <3>3. i # Len(more)
      BY <1>6, <1>7, <2>1
    <3> QED
      BY <1>7, <2>1, <3>1, <3>2, <3>3
  <2>2. CASE i = Len(more)
    <3>1. Fits(more, Len(frames) + 1, text, size)
      BY <1>1, <1>5, <1>10, FitsNext
    <3> QED
      BY <1>7, <2>2, <3>1
  <2> QED
    BY <1>6, <1>7, <2>1, <2>2
<1>12. AllFit(incoming[Peer(p)], TextFrom(p), FragmentSize[p], Complete(Peer(p)))'
  BY <1>1, <1>4, <1>8, <1>9, <1>11 DEF AllFit
<1>13. ~Complete(Peer(p))' => writing'[p].start # 0 /\ incoming'[Peer(p)] # <<>>
  <2>1. ~next.fin => writing'[p].start = end
    BY <1>1, <1>4 DEF Rest
  <2>2. Complete(Peer(p))' <=> next.fin
    BY <1>1, <1>8
  <2>3. end # 0
    BY <1>6
  <2>4. incoming'[Peer(p)] # <<>>
    BY <1>1, <1>4, <1>7
  <2> QED
    BY <2>1, <2>2, <2>3, <2>4
<1> QED
  BY <1>12, <1>13 DEF FramesFit

\* Every step keeps the invariant.
LEMMA FramesStep == FramesInv /\ [Next]_vars => FramesInv'
<1> SUFFICES ASSUME FramesInv, [Next]_vars
             PROVE  FramesInv'
  OBVIOUS
<1>0. WireInv /\ WireInv'
  BY WireStep DEF FramesInv
<1>1. ASSUME UNCHANGED <<writing, incoming>> PROVE FramesInv'
  BY <1>0, <1>1, FramesStay DEF FramesInv
<1>2. ASSUME NEW p \in Ends, Receives(p), UNCHANGED writing PROVE FramesInv'
  <2>1. PICK q : q = Peer(p)
    OBVIOUS
  <2>2. q \in Ends /\ Peer(q) = p /\ \A r \in Ends : r # q => Peer(r) # p
    BY <2>1 DEF Peer, Ends
  <2>3. incoming'[p] = <<>> /\ \A r \in Ends : r # p => incoming'[r] = incoming[r]
    BY <1>0, <1>2 DEF Receives, WireInv, Shapes
  <2>4. FramesFit(q)'
    <3>1. writing'[q].start = 0
      BY <1>0, <1>2, <2>2 DEF Receives, WireInv, Flows
    <3> QED
      BY <2>2, <2>3, <3>1, NoFrames
  <2>5. ASSUME NEW r \in Ends, r # q PROVE FramesFit(r)'
    <3>1. Peer(r) \in Ends /\ Peer(r) # p
      BY <2>2, <2>5, PeerOf
    <3> QED
      BY <1>2, <2>3, <3>1, FramesStay DEF FramesInv
  <2> QED
    BY <1>0, <2>4, <2>5 DEF FramesInv
<1>3. ASSUME NEW p \in Ends, NEW text \in out[p], StartWriting(p, text) PROVE FramesInv'
  <2>1. /\ writing[p] = Nothing /\ writing'[p].start = 0 /\ incoming' = incoming
        /\ \A r \in Ends : r # p => writing'[r] = writing[r]
    BY <1>0, <1>3 DEF StartWriting, WireInv, Shapes
  <2>2. FramesFit(p) /\ writing[p].start = 0
    BY <2>1 DEF FramesInv, Nothing
  <2>3. CASE Complete(Peer(p))
    <3>1. TextFrom(p)' = TextFrom(p) /\ Complete(Peer(p))' /\ incoming'[Peer(p)] = incoming[Peer(p)]
      BY <2>1, <2>3 DEF TextFrom, Complete
    <3>2. FramesFit(p)'
      BY <2>2, <2>3, <3>1 DEF FramesFit
    <3> QED
      BY <1>0, <2>1, <3>2, FramesStay DEF FramesInv
  <2>4. CASE ~Complete(Peer(p))
    <3>1. incoming'[Peer(p)] = <<>>
      BY <2>1, <2>2, <2>4 DEF FramesFit
    <3>2. FramesFit(p)'
      BY <2>1, <3>1, NoFrames
    <3> QED
      BY <1>0, <2>1, <3>2, FramesStay DEF FramesInv
  <2> QED
    BY <2>3, <2>4
<1>4. ASSUME NEW p \in Ends, WriteFragment(p) PROVE FramesInv'
  <2>1. \A r \in Ends : r # p => Peer(r) # Peer(p)
    BY DEF Ends, Peer
  <2>2. \A r \in Ends : r # p => writing'[r] = writing[r] /\ incoming'[Peer(r)] = incoming[Peer(r)]
    <3>1. PICK next :
            /\ incoming' = [incoming EXCEPT ![Peer(p)] = Append(@, next)]
            /\ writing' = [writing EXCEPT ![p] = Rest(@, next)]
      BY <1>4 DEF WriteFragment, Rest
    <3> QED
      BY <1>0, <2>1, <3>1, PeerOf DEF WireInv, Shapes
  <2> QED
    BY <1>0, <1>4, <2>2, FramesStay, FramesWrite DEF FramesInv
<1>5. CASE HandleMessage
  BY <1>2, <1>5 DEF HandleMessage, Ends
<1>6. CASE ReceiveReply
  BY <1>2, <1>6 DEF ReceiveReply, Ends
<1>7. ASSUME NEW p \in Ends, ReceiveOversized(p) PROVE FramesInv'
  BY <1>2, <1>7 DEF ReceiveOversized
<1>8. ASSUME NEW request \in Requests, Connect(request) PROVE FramesInv'
  BY <1>1, <1>8 DEF Connect, wire
<1>9. ASSUME NEW h \in DOMAIN Handlers, On(h) PROVE FramesInv'
  BY <1>1, <1>9 DEF On, wire
<1>10. ASSUME NEW type \in Types, Off(type) PROVE FramesInv'
  BY <1>1, <1>10 DEF Off, wire
<1>11. ASSUME NEW c \in Calls, NEW d \in Inputs, Send(c, d) PROVE FramesInv'
  BY <1>1, <1>11 DEF Send
<1>12. ASSUME NEW c \in Calls, TimesOut(c) \/ FailPending(c) PROVE FramesInv'
  BY <1>1, <1>12 DEF TimesOut, FailPending, wire
<1>13. ASSUME NEW c \in Calls, Finishes(c) PROVE FramesInv'
  BY <1>1, <1>13 DEF Finishes
<1>14. ASSUME NEW p \in Ends, Close(p) PROVE FramesInv'
  BY <1>1, <1>14 DEF Close, wire
<1>15. CASE UNCHANGED vars
  BY <1>1, <1>15 DEF vars, wire
<1> QED
  BY <1>3, <1>4, <1>5, <1>6, <1>7, <1>8, <1>9, <1>10, <1>11, <1>12, <1>13, <1>14, <1>15
     DEF Next, Rejects, Panics, Returns, Fails

\* The WebSocket frames of every text fit the fragment size, none is empty, only
\* the first is a Text frame and only the last is final, and a character is cut
\* only where not even one fits (message_fragments), for any texts and any size.
THEOREM FragmentsAreFit == Spec => []FragmentsFit
<1>1. Init => FramesInv
  <2>1. ASSUME Init, NEW p \in Ends PROVE FramesFit(p)
    <3>1. incoming[Peer(p)] = <<>> /\ writing[p].start = 0
      BY <2>1, PeerOf DEF Init, Nothing
    <3>2. \A text, size, complete : AllFit(<<>>, text, size, complete)
      BY DEF AllFit
    <3> QED
      BY <3>1, <3>2 DEF FramesFit
  <2> QED
    BY <2>1, WireInit DEF FramesInv
<1>2. FramesInv => FragmentsFit
  <2> SUFFICES ASSUME FramesInv, NEW q \in Ends, Complete(q)
               PROVE  \A i \in DOMAIN incoming[q] :
                         /\ Fits(incoming[q], i, Received(incoming[q]), FragmentSize[Peer(q)])
                         /\ incoming[q][i].fin <=> i = Len(incoming[q])
    BY DEF FragmentsFit, Fits, EndAt
  <2>1. PICK p : p = Peer(q)
    OBVIOUS
  <2>2. p \in Ends /\ Peer(p) = q
    BY <2>1, PeerOf
  <2> QED
    BY <2>1, <2>2 DEF FramesInv, FramesFit, TextFrom, AllFit
<1> QED
  BY <1>1, <1>2, FramesStep, PTL DEF Spec

----------------------------------------------------------------------------
(* Where a connection is routed. *)

\* The equation of the recursion in NonEmpty.
Keeping(s, kept) ==
    kept = [n \in 0..Len(s) |->
               IF n = 0 THEN <<>> ELSE IF s[n] = "" THEN kept[n - 1] ELSE Append(kept[n - 1], s[n])]

\* There is such a function, by induction over the length.
LEMMA KeepingExists ==
  ASSUME NEW B, NEW s \in Seq(B)
  PROVE  \E kept : Keeping(s, kept)
<1>1. PICK len \in Nat : len = Len(s)
  OBVIOUS
<1> DEFINE V == Seq(B)
           Add(q, n) == IF s[n + 1] = "" THEN q ELSE Append(q, s[n + 1])
           step == [p \in Nat \X V |-> IF p[1] + 1 \in 1..len THEN Add(p[2], p[1]) ELSE p[2]]
<1>2. ASSUME NEW q \in V, NEW n \in Nat, n + 1 \in 1..len PROVE Add(q, n) \in V
  <2>1. s[n + 1] \in B
    BY <1>1, <1>2, ElementOfSeq
  <2> QED
    BY <2>1, AppendProperties
<1>3. step \in [Nat \X V -> V]
  <2> HIDE DEF Add, V
  <2> QED
    BY <1>2
<1>4. <<>> \in V
  BY EmptySeq
<1>5. Iterates(V, <<>>, step) # {}
  <2> HIDE DEF V, step
  <2> QED
    BY <1>3, <1>4, PrimitiveRecursion
<1>6. PICK F \in [Nat -> V] : F[0] = <<>> /\ \A n \in Nat : F[n + 1] = step[<<n, F[n]>>]
  <2> HIDE DEF V, step
  <2> QED
    BY <1>5 DEF Iterates
<1>7. ASSUME NEW n \in Nat, n + 1 \in 1..len PROVE F[n + 1] = Add(F[n], n)
  <2>1. F[n] \in V
    BY <1>6
  <2> HIDE DEF V, Add
  <2> QED
    BY <1>6, <1>7, <2>1
<1> DEFINE kept == [n \in 0..len |-> F[n]]
<1>8. ASSUME NEW n \in 0..len
      PROVE  kept[n] = IF n = 0 THEN <<>> ELSE IF s[n] = "" THEN kept[n - 1] ELSE Append(kept[n - 1], s[n])
  <2>1. CASE n = 0
    BY <1>6, <2>1
  <2>2. CASE n # 0
    <3>1. PICK m \in Nat : m = n - 1
      BY <2>2
    <3>2. m + 1 = n /\ m \in 0..len /\ m + 1 \in 1..len
      BY <2>2, <3>1
    <3>3. F[m + 1] = IF s[m + 1] = "" THEN F[m] ELSE Append(F[m], s[m + 1])
      BY <1>7, <3>2
    <3>4. kept[n] = F[m + 1] /\ kept[n - 1] = F[m]
      BY <3>1, <3>2
    <3> HIDE DEF kept
    <3> QED
      BY <2>2, <3>2, <3>3, <3>4
  <2> QED
    BY <2>1, <2>2
<1>9. kept = [n \in 0..len |-> kept[n]]
  OBVIOUS
<1>10. Keeping(s, kept)
  <2> HIDE DEF kept
  <2> QED
    BY <1>1, <1>8, <1>9 DEF Keeping
<1> QED
  BY <1>10

\* What is left of a path is a path.
LEMMA NonEmptyIsPath ==
  ASSUME NEW B, NEW s \in Seq(B)
  PROVE  NonEmpty(s) \in Seq(B)
<1> DEFINE kept == CHOOSE k : Keeping(s, k)
<1>1. PICK len \in Nat : len = Len(s)
  OBVIOUS
<1>2. NonEmpty(s) = kept[len]
  BY <1>1 DEF NonEmpty, Keeping
<1>3. Keeping(s, kept)
  BY KeepingExists
<1> HIDE DEF kept
<1>4. ASSUME NEW n \in 0..len
      PROVE  kept[n] = IF n = 0 THEN <<>> ELSE IF s[n] = "" THEN kept[n - 1] ELSE Append(kept[n - 1], s[n])
  BY <1>1, <1>3 DEF Keeping
<1> DEFINE N == {n \in Nat : n <= len => kept[n] \in Seq(B)}
<1>5. 0 \in N
  <2>1. kept[0] = <<>>
    <3>1. 0 \in 0..len
      OBVIOUS
    <3> HIDE DEF N
    <3> QED
      BY <1>4, <3>1
  <2> QED
    BY <2>1, EmptySeq
<1>6. ASSUME NEW n \in Nat, n \in N PROVE n + 1 \in N
  <2> SUFFICES ASSUME n + 1 <= len PROVE kept[n + 1] \in Seq(B)
    OBVIOUS
  <2>1. PICK m \in Nat : m = n + 1
    OBVIOUS
  <2>2. kept[n] \in Seq(B) /\ m \in 1..len /\ m \in 0..len /\ m # 0 /\ m - 1 = n
    BY <1>6, <2>1
  <2>3. s[m] \in B
    BY <1>1, <2>2, ElementOfSeq
  <2>4. kept[m] = IF s[m] = "" THEN kept[n] ELSE Append(kept[n], s[m])
    BY <1>4, <2>2
  <2> HIDE DEF N
  <2> QED
    BY <2>1, <2>2, <2>3, <2>4, AppendProperties
<1>7. Nat \subseteq N
  <2> HIDE DEF N
  <2> QED
    BY <1>5, <1>6, Naturals_Induction
<1> QED
  BY <1>2, <1>7

\* A set of numbers has a least one.
LEMMA MinOf ==
  ASSUME NEW S \in SUBSET Nat, S # {}
  PROVE  Min(S) \in S /\ \A y \in S : Min(S) <= y
<1>1. PICK m \in S : \A y \in S : <<y, m>> \notin Less
  BY LessWellFounded, WFMin
<1>2. ASSUME NEW y \in S PROVE m <= y
  <2>1. m \in Nat /\ y \in Nat /\ ~(y < m)
    BY <1>1 DEF Less
  <2> QED
    BY <2>1
<1>3. \E x \in S : \A y \in S : x <= y
  BY <1>2
<1> QED
  BY <1>3 DEF Min

\* The parameters of a pattern have different names: of two with one name only
\* the last is kept, and then the parameters do not determine the path.
NamesDiffer ==
    \A i \in DOMAIN Patterns : \A j, k \in DOMAIN Patterns[i] :
        Patterns[i][j].param /\ Patterns[i][j] = Patterns[i][k] => j = k

\* A connection that is routed stays where it is.
RouteInv ==
    endpoint # 0 => /\ path \in Requests
                    /\ endpoint = Route(Patterns, path)
                    /\ params = Params(Patterns[endpoint], path)

\* Only Connect chooses an endpoint.
LEMMA RouteStep == RouteInv /\ [Next]_vars => RouteInv'
<1> SUFFICES ASSUME RouteInv, [Next]_vars PROVE RouteInv'
  OBVIOUS
<1>1. ASSUME NEW request \in Requests, Connect(request) PROVE RouteInv'
  BY <1>1 DEF Connect, RouteInv
<1>2. CASE UNCHANGED connection
  BY <1>2 DEF RouteInv, connection
<1>3. \/ \E request \in Requests : Connect(request)
      \/ UNCHANGED connection
  <2>1. ASSUME NEW h, On(h) PROVE UNCHANGED connection
    BY <2>1 DEF On
  <2>2. ASSUME NEW t, Off(t) PROVE UNCHANGED connection
    BY <2>2 DEF Off
  <2>3. ASSUME NEW c, \/ \E d \in Inputs : Send(c, d)
                      \/ TimesOut(c) \/ FailPending(c)
                      \/ \E problem \in Quoting : Rejects(c, problem)
                      \/ Panics(c)
                      \/ \E d \in Results \cup {Null} : Returns(c, d)
                      \/ \E problem \in Failures : Fails(c, problem)
        PROVE  UNCHANGED connection
    <3>1. ASSUME Finishes(c) PROVE UNCHANGED connection
      BY <3>1 DEF Finishes
    <3>2. ASSUME NEW d, Send(c, d) PROVE UNCHANGED connection
      BY <3>2 DEF Send
    <3> QED
      BY <2>3, <3>1, <3>2 DEF TimesOut, FailPending, Rejects, Panics, Returns, Fails
  <2>4. ASSUME NEW p \in Ends, \/ \E text \in out[p] : StartWriting(p, text)
                               \/ WriteFragment(p) \/ ReceiveOversized(p) \/ Close(p)
        PROVE  UNCHANGED connection
    BY <2>4 DEF StartWriting, WriteFragment, ReceiveOversized, Close
  <2>5. ASSUME HandleMessage PROVE UNCHANGED connection
    BY <2>5 DEF HandleMessage
  <2>6. ASSUME ReceiveReply PROVE UNCHANGED connection
    BY <2>6 DEF ReceiveReply
  <2>7. ASSUME UNCHANGED vars PROVE UNCHANGED connection
    BY <2>7 DEF vars
  <2> QED
    BY <2>1, <2>2, <2>3, <2>4, <2>5, <2>6, <2>7 DEF Next
<1> QED
  BY <1>1, <1>2, <1>3

\* The value of segment j of pattern i, given the values of its parameters.
Instance(i, values) ==
    [j \in DOMAIN Patterns[i] |-> IF Patterns[i][j].param THEN values[Patterns[i][j].name]
                                                         ELSE Patterns[i][j].name]

\* The parameters of a match make the pattern the path again.
LEMMA MatchIsInstance ==
  ASSUME NamesDiffer, NEW i \in DOMAIN Patterns, NEW request \in Seq(STRING), Matches(Patterns[i], request)
  PROVE  Instance(i, Params(Patterns[i], request)) = NonEmpty(request)
<1> DEFINE pattern == Patterns[i]
           segments == NonEmpty(request)
           values == Params(pattern, request)
<1>1. pattern \in Seq([param : BOOLEAN, name : STRING]) /\ segments \in Seq(STRING)
  BY MessagingAssumption, NonEmptyIsPath, ElementOfSeq
<1>2. PICK n \in Nat : n = Len(pattern)
  BY <1>1
<1>3. DOMAIN pattern = 1..n /\ DOMAIN segments = 1..n
  <2>1. Len(segments) = n
    BY <1>2 DEF Matches
  <2> HIDE DEF pattern, segments
  <2> QED
    BY <1>1, <1>2, <2>1
<1>4. ASSUME NEW j \in 1..n
      PROVE  (IF pattern[j].param THEN values[pattern[j].name] ELSE pattern[j].name) = segments[j]
  <2>1. CASE ~pattern[j].param
    BY <1>3, <2>1 DEF Matches
  <2>2. CASE pattern[j].param
    <3> DEFINE name == pattern[j].name
               named == {k \in DOMAIN pattern : pattern[k] = Param(name)}
    <3>1. pattern[j] = Param(name)
      <4>1. pattern[j] \in [param : BOOLEAN, name : STRING]
        BY <1>1, <1>2, ElementOfSeq
      <4> QED
        BY <2>2, <4>1 DEF Param
    <3>2. named = {j}
      <4>1. \A k \in DOMAIN pattern : pattern[k] = pattern[j] => k = j
        BY <1>3, <2>2 DEF NamesDiffer
      <4> QED
        BY <1>3, <3>1, <4>1
    <3>3. Max({j}) = j
      BY DEF Max
    <3>4. name \in {pattern[k].name : k \in {m \in DOMAIN pattern : pattern[m].param}}
      BY <1>3, <2>2
    <3>5. values[name] = segments[Max(named)]
      BY <3>4 DEF Params
    <3> QED
      BY <2>2, <3>2, <3>3, <3>5
  <2> QED
    BY <2>1, <2>2
<1>5. Instance(i, values) = [j \in 1..n |-> IF pattern[j].param THEN values[pattern[j].name] ELSE pattern[j].name]
  BY <1>3 DEF Instance
<1>6. segments = [j \in 1..n |-> segments[j]]
  BY <1>1, <1>3
<1> HIDE DEF pattern, segments, values
<1>7. Instance(i, values) = segments
  BY <1>4, <1>5, <1>6
<1> QED
  BY <1>7 DEF pattern, segments, values

\* A path that is an instance of a pattern matches it.
LEMMA InstanceMatches ==
  ASSUME NEW i \in DOMAIN Patterns, NEW request \in Seq(STRING),
         NEW values, Instance(i, values) = NonEmpty(request)
  PROVE  Matches(Patterns[i], request)
<1>1. Patterns[i] \in Seq([param : BOOLEAN, name : STRING]) /\ NonEmpty(request) \in Seq(STRING)
  BY MessagingAssumption, NonEmptyIsPath, ElementOfSeq
<1>2. DOMAIN Patterns[i] = DOMAIN NonEmpty(request)
  BY DEF Instance
<1>3. Len(Patterns[i]) = Len(NonEmpty(request))
  <2>1. PICK m \in Nat, n \in Nat : m = Len(Patterns[i]) /\ n = Len(NonEmpty(request))
    BY <1>1
  <2>2. DOMAIN Patterns[i] = 1..m /\ DOMAIN NonEmpty(request) = 1..n
    BY <1>1, <2>1
  <2>3. 1..m = 1..n
    BY <1>2, <2>2
  <2>4. m = n
    BY <2>3
  <2> QED
    BY <2>1, <2>4
<1>4. ASSUME NEW j \in DOMAIN Patterns[i]
      PROVE  Patterns[i][j].param \/ Patterns[i][j].name = NonEmpty(request)[j]
  <2>1. Instance(i, values)[j] = IF Patterns[i][j].param THEN values[Patterns[i][j].name] ELSE Patterns[i][j].name
    BY DEF Instance
  <2> QED
    BY <2>1
<1> QED
  BY <1>3, <1>4 DEF Matches

\* A connection is served by the first endpoint whose pattern its path is an
\* instance of, with the parameters that make it one (handle_connection,
\* PathPattern::matches), for any patterns without a repeated parameter.
THEOREM FirstMatchServes ==
  ASSUME NamesDiffer
  PROVE  Spec => []RoutedToFirstMatch
<1>1. Init => RouteInv
  BY DEF Init, RouteInv
<1>2. RouteInv => RoutedToFirstMatch
  <2> SUFFICES ASSUME RouteInv, endpoint # 0 PROVE RoutedToFirstMatch
    BY DEF RoutedToFirstMatch
  <2> DEFINE matching == {i \in DOMAIN Patterns : Matches(Patterns[i], path)}
  <2>1. path \in Seq(STRING) /\ Patterns \in Seq(Seq([param : BOOLEAN, name : STRING]))
    BY MessagingAssumption DEF RouteInv
  <2>2. matching # {} /\ endpoint = Min(matching)
    BY DEF RouteInv, Route
  <2>3. DOMAIN Patterns = 1..Len(Patterns) /\ Len(Patterns) \in Nat
    BY <2>1
  <2>4. endpoint \in matching /\ \A i \in matching : endpoint <= i
    <3>1. matching \in SUBSET Nat
      BY <2>3
    <3> HIDE DEF matching
    <3> QED
      BY <2>2, <3>1, MinOf
  <2>5. endpoint \in DOMAIN Patterns /\ Matches(Patterns[endpoint], path)
    BY <2>4
  <2>6. Instance(endpoint, params) = NonEmpty(path)
    BY <2>1, <2>5, MatchIsInstance DEF RouteInv
  <2>7. ASSUME NEW i \in 1..(endpoint - 1), NEW values PROVE Instance(i, values) # NonEmpty(path)
    <3>1. i \in DOMAIN Patterns /\ i \notin matching
      <4>1. endpoint \in 1..Len(Patterns)
        BY <2>3, <2>5
      <4>2. i \in 1..Len(Patterns) /\ ~(endpoint <= i)
        BY <2>3, <4>1
      <4> QED
        BY <2>3, <2>4, <4>2
    <3> QED
      BY <2>1, <3>1, InstanceMatches
  <2> QED
    BY <2>6, <2>7 DEF RoutedToFirstMatch, Instance
<1> QED
  BY <1>1, <1>2, RouteStep, PTL DEF Spec
=============================================================================
