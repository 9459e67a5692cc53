----------------------------- MODULE Messaging -----------------------------
(***************************************************************************)
(* One connection of a client to a server, and what happens to the data of *)
(* the client's calls: the handshake chooses the endpoint, the message is  *)
(* encoded, framed, split into WebSocket frames, reassembled, parsed and   *)
(* dispatched to a handler of the endpoint, and its result or error goes   *)
(* the same way back to the caller.                                        *)
(*                                                                         *)
(* The queues, permits and tasks in between are those of Session.tla; here *)
(* a text waits in `out` until the writer takes it, in any order.  JSON    *)
(* values are elements of Docs, with their encodings as a constant.        *)
(***************************************************************************)
EXTENDS Wire, Paths, SequencesExt

CONSTANTS
    Calls,          \* bytes of IdBytes: the calls are known by their ids
    Docs,           \* JSON values, and what is none
    Encoding,       \* the bytes serde_json writes for each, injective
    TypeOf,         \* the @type of each; "none" without one, or if it is not JSON
    Problems,       \* the problem details among Docs
    Inputs,         \* what callers send, Unserializable among them
    Results,        \* what handlers return
    Failures,       \* problem details handlers fail with
    Rejections,     \* what serde may make of each message: 400s that quote it
    Patterns,       \* the endpoints' patterns, in the order of their registration
    Requests,       \* the paths clients ask for
    Handlers,       \* [endpoint, type, accepts] of each handler an application has
    Limit,          \* max_message_bytes of each end
    FragmentSize    \* fragment_size of each end

\* The value no encoding exists for, and the result of a handler that returns nothing.
Unserializable == "unserializable"
Null == "null"

Alphabet == UNION {Bytes(Encoding[d]) : d \in Docs}

\* JSON is UTF-8: it begins with a character, and no value is written as nothing.
ASSUME MessagingAssumption ==
    /\ Calls \subseteq IdBytes
    /\ Problems \subseteq Docs /\ Inputs \cup Results \subseteq Docs \cup {Unserializable}
    /\ Null \notin Docs /\ {"400", "413", "500", "503"} \cup Failures \subseteq Problems
    /\ Rejections \in [Docs -> SUBSET Problems]
    /\ Encoding \in [Docs -> Seq(Alphabet)]
    /\ \A d \in Docs : Encoding[d] # <<>> => Encoding[d][1] \notin Continuation
    /\ \A d \in Problems \cup (Results \cap Docs) : Encoding[d] # <<>>
    /\ \A d, e \in Docs : Encoding[d] = Encoding[e] => d = e
    /\ Patterns \in Seq(Seq([param : BOOLEAN, name : STRING])) /\ Requests \subseteq Seq(STRING)
    /\ Limit \in [{"client", "server"} -> Nat]
    /\ FragmentSize \in [{"client", "server"} -> Nat]

Ends == {"client", "server"}

Peer(p) == IF p = "client" THEN "server" ELSE "client"

NoHandler == "no handler"

NoTask == [handler |-> NoHandler, message |-> "none"]

VARIABLES
    endpoint, path, \* where the connection was routed (0: not yet), and its path
    params,         \* ConnectInfo::params
    open,           \* is_open() of each end
    handlers,       \* HandlerMap::handlers of the endpoint, by type
    used,           \* history: handlers that have been registered
    out,            \* per end: the texts queued for the writer
    writing,        \* per end: the text the writer sends, and how much of it is sent
    incoming,       \* per end: the WebSocket frames of the next text it receives
    running,        \* the task of each call: its handler and the message
    outcome,        \* what each call returned to its caller
    settledBy,      \* history: the step that settled it
    returned,       \* history: what its handler, or the dispatcher, came up with
    stale,          \* history: handlers taken out before the call was sent
    ran,            \* history: the handler that ran for each call
    oversized       \* history: the call whose reply was too large to be queued

connection == <<endpoint, path, params>>
wire == <<out, writing, incoming>>
calls == <<running, outcome, settledBy, returned, stale, ran>>
vars == <<connection, open, handlers, used, wire, calls, oversized>>

Types == {Handlers[h].type : h \in DOMAIN Handlers}

\* The 400s whose detail has a value of the message in it.
Quoting == UNION {Rejections[d] : d \in Docs}

Id(c) == [i \in 1..IdLength |-> c]

\* serde_json::from_str: the value with this encoding.
Decode(text) == CHOOSE d \in Docs : Encoding[d] = text

Ok(d) == [tag |-> "Ok", what |-> d]
Transport(d) == [tag |-> "LocalTransport", what |-> d]
Other(d) == [tag |-> "Other", what |-> d]
PeerNak(d) == [tag |-> "PeerNak", what |-> d]
Pending == Other("pending")

Nothing == [text |-> <<>>, start |-> 0]

Init ==
    /\ endpoint = 0 /\ path = <<>> /\ params = <<>>
    /\ open = [p \in Ends |-> FALSE]
    /\ handlers = [t \in Types |-> NoHandler] /\ used = {}
    /\ out = [p \in Ends |-> {}]
    /\ writing = [p \in Ends |-> Nothing]
    /\ incoming = [p \in Ends |-> <<>>]
    /\ running = [c \in Calls |-> NoTask]
    /\ outcome = [c \in Calls |-> Pending]
    /\ settledBy = [c \in Calls |-> "unsent"]
    /\ returned = [c \in Calls |-> Pending]
    /\ stale = [c \in Calls |-> {}] /\ ran = [c \in Calls |-> NoHandler]
    /\ oversized = {}

----------------------------------------------------------------------------
(* The handshake and the endpoint's handlers *)

\* The request is routed; without an endpoint it is answered with 404 and there
\* is no session.
Connect(request) ==
    /\ endpoint = 0
    /\ Route(Patterns, request) # 0
    /\ endpoint' = Route(Patterns, request)
    /\ path' = request
    /\ params' = Params(Patterns[endpoint'], request)
    /\ open' = [p \in Ends |-> TRUE]
    /\ UNCHANGED <<handlers, used, wire, calls, oversized>>

\* HandlerMap::register, which replaces the handler of the type.
On(h) ==
    /\ h \notin used /\ Handlers[h].endpoint = endpoint
    /\ handlers' = [handlers EXCEPT ![Handlers[h].type] = h]
    /\ used' = used \cup {h}
    /\ UNCHANGED <<connection, open, wire, calls, oversized>>

Off(type) ==
    /\ handlers[type] # NoHandler
    /\ handlers' = [handlers EXCEPT ![type] = NoHandler]
    /\ UNCHANGED <<connection, open, used, wire, calls, oversized>>

----------------------------------------------------------------------------
(* Sending *)

Settle(c, by, result) ==
    /\ outcome' = [outcome EXCEPT ![c] = result]
    /\ settledBy' = [settledBy EXCEPT ![c] = by]

\* Mutation: the limit leaves no room for the header.
Bounded_NoHeader(p, d) == Len(Encoding[d]) <= Limit[p]

\* serialize_bounded with max_message_bytes - 15, which is zero at least.
Bounded(p, d) == Len(Encoding[d]) + Header <= Limit[p]

\* send_with_arrival and exchange, up to the queue.
Send(c, d) ==
    /\ settledBy[c] = "unsent" /\ endpoint # 0
    /\ stale' = [stale EXCEPT ![c] = used \ {handlers[t] : t \in Types}]
    /\ CASE d = Unserializable -> Settle(c, "send", Other("500")) /\ UNCHANGED out
         [] d # Unserializable /\ ~Bounded("client", d) ->
              Settle(c, "send", Other("413")) /\ UNCHANGED out
         [] OTHER ->
              \/ \* A budget refuses the call or its frame.
                 Settle(c, "send", Transport("503")) /\ UNCHANGED out
              \/ /\ ~open["client"]
                 /\ Settle(c, "send", Transport("503 not open")) /\ UNCHANGED out
              \/ /\ open["client"]
                 /\ out' = [out EXCEPT !["client"] =
                               @ \cup {Serialize(Frame("MSG", Id(c), Encoding[d]))}]
                 /\ settledBy' = [settledBy EXCEPT ![c] = "pending"]
                 /\ UNCHANGED outcome
    /\ UNCHANGED <<connection, open, handlers, used, writing, incoming,
                   running, returned, ran, oversized>>

\* The request deadline.
TimesOut(c) ==
    /\ settledBy[c] = "pending"
    /\ Settle(c, "deadline", Transport("504"))
    /\ UNCHANGED <<connection, open, handlers, used, wire, running, returned, stale, ran, oversized>>

----------------------------------------------------------------------------
(* The writer and the transport *)

\* The writer takes a text when it has sent the one before.
StartWriting(p, text) ==
    /\ open[p] /\ writing[p] = Nothing
    /\ text \in out[p]
    /\ out' = [out EXCEPT ![p] = @ \ {text}]
    /\ writing' = [writing EXCEPT ![p] = [text |-> text, start |-> 0]]
    /\ UNCHANGED <<connection, open, handlers, used, incoming, calls, oversized>>

\* Whether the frames an end has received make a text, and which.
Complete(p) == incoming[p] # <<>> /\ Last(incoming[p]).fin

Received(frames) == FlattenSeq([i \in DOMAIN frames |-> frames[i].bytes])

\* One WebSocket frame is sent to the other end.
WriteFragment(p) ==
    /\ writing[p] # Nothing
    /\ ~Complete(Peer(p))
    /\ LET next == NextFragment(writing[p].text, writing[p].start, FragmentSize[p])
       IN  /\ incoming' = [incoming EXCEPT ![Peer(p)] = Append(@, next)]
           /\ writing' = [writing EXCEPT ![p] =
                             IF next.fin THEN Nothing
                             ELSE [text |-> @.text, start |-> @.start + Len(next.bytes)]]
    /\ UNCHANGED <<connection, open, handlers, used, out, calls, oversized>>

\* handle_incoming: an end that is open takes the text it has received.
Receives(p) ==
    /\ Complete(p) /\ open[p]
    /\ incoming' = [incoming EXCEPT ![p] = <<>>]

\* A text above the limit closes the session.
ReceiveOversized(p) ==
    /\ Receives(p)
    /\ Len(Received(incoming[p])) > Limit[p]
    /\ open' = [open EXCEPT ![p] = FALSE]
    /\ UNCHANGED <<connection, handlers, used, out, writing, calls, oversized>>

----------------------------------------------------------------------------
(* The server's side of a call *)

\* write: a frame that is too large for the queue closes the session.
Write(c, frame) ==
    IF Len(Serialize(frame)) <= Limit["server"]
      THEN /\ out' = [out EXCEPT !["server"] = @ \cup {Serialize(frame)}]
           /\ UNCHANGED <<open, oversized>>
      ELSE /\ open' = [open EXCEPT !["server"] = FALSE]
           /\ oversized' = oversized \cup {c}
           /\ UNCHANGED out

\* A reply, and what the caller is to make of it.
Answer(c, kind, payload, result) ==
    /\ Write(c, Frame(kind, Id(c), payload))
    /\ returned' = [returned EXCEPT ![c] = result]

Nak(c, problem) == Answer(c, "NAK", Encoding[problem], PeerNak(problem))

CallOf(frame) == CHOOSE c \in Calls : Id(c) = frame.id

\* Mutation: the handler is looked up before the message is sent.
Resolve_Cached(c, type) ==
    IF type \notin Types THEN NoHandler
    ELSE IF \E h \in stale[c] : Handlers[h].type = type
           THEN CHOOSE h \in stale[c] : Handlers[h].type = type
           ELSE handlers[type]

\* HandlerMap::resolve.
Resolve(c, type) == IF type \in Types THEN handlers[type] ELSE NoHandler

\* The message is answered at once, or given to a task of its handler.
Dispatch(c, message, handler) ==
    \/ \* The budget refuses the handler.
       Nak(c, "503") /\ UNCHANGED <<running, ran>>
    \/ /\ TypeOf[message] = "none"
       /\ Nak(c, "400") /\ UNCHANGED <<running, ran>>
    \/ /\ TypeOf[message] # "none" /\ handler = NoHandler
       /\ Answer(c, "NAK", <<>>, PeerNak("500")) /\ UNCHANGED <<running, ran>>
    \/ /\ handler # NoHandler
       /\ running' = [running EXCEPT ![c] = [handler |-> handler, message |-> message]]
       /\ ran' = [ran EXCEPT ![c] = handler]
       /\ UNCHANGED <<out, open, oversized, returned>>

\* handle_message: an empty payload is the message {}, which has no type.
HandleMessage ==
    /\ Receives("server")
    /\ Len(Received(incoming["server"])) <= Limit["server"]
    /\ LET frame == Parse(Received(incoming["server"]))
           message == Decode(frame.payload)
       IN  /\ frame.kind = "MSG"
           /\ Dispatch(CallOf(frame), message, Resolve(CallOf(frame), TypeOf[message]))
    /\ UNCHANGED <<connection, handlers, used, writing, outcome, settledBy, stale>>

\* The task of a call ends.
Finishes(c) ==
    /\ open["server"] /\ running[c] # NoTask
    /\ running' = [running EXCEPT ![c] = NoTask]
    /\ UNCHANGED <<connection, handlers, used, writing, incoming, outcome, settledBy, stale, ran>>

Accepted(c) == running[c].message \in Handlers[running[c].handler].accepts

\* The message cannot be deserialized into the type of the handler.  The error
\* of serde says why, in words that quote the offending value.
Rejects(c, problem) ==
    /\ Finishes(c)
    /\ ~Accepted(c)
    /\ problem \in Rejections[running[c].message]
    /\ Nak(c, problem)

\* The handler panics, which nobody looks at: there is no reply.
Panics(c) ==
    /\ Finishes(c)
    /\ Accepted(c)
    /\ UNCHANGED <<out, open, oversized, returned>>

\* The handler returns `result`, which is serialized within the limit.
Returns(c, result) ==
    /\ Finishes(c)
    /\ Accepted(c)
    /\ CASE result = Null -> Answer(c, "ACK", <<>>, Ok(Null))
         [] result = Unserializable -> Nak(c, "500")
         [] OTHER -> IF Bounded("server", result)
                       THEN Answer(c, "ACK", Encoding[result], Ok(result))
                       ELSE Nak(c, "413")

\* The handler fails, maybe with the local transport failure of a call of its
\* own, or runs into handler_timeout.  A problem detail does not tell where it
\* comes from.
Fails(c, problem) ==
    /\ Finishes(c)
    /\ Accepted(c)
    /\ Nak(c, problem)

----------------------------------------------------------------------------
(* The reply at the caller *)

\* Mutation: the status tells a transport failure.
NakError_ByStatus(payload) ==
    IF payload # <<>> /\ Decode(payload) \in {"503", "504"} THEN Transport(Decode(payload))
    ELSE PeerNak(IF payload = <<>> THEN "500" ELSE Decode(payload))

\* handle_nak; what is no problem detail becomes a 500.
NakError(payload) ==
    PeerNak(IF payload # <<>> /\ Decode(payload) \in Problems THEN Decode(payload) ELSE "500")

\* Mutation: an ACK without a payload is parsed like any other.
AckResult_ParsesNone(payload) == IF payload = <<>> THEN Other("500") ELSE Ok(Decode(payload))

\* handle_ack, and the decoding at the end of send_with_arrival.
AckResult(payload) ==
    IF payload = <<>> THEN Ok(Null)
    ELSE IF \E d \in Docs : Encoding[d] = payload THEN Ok(Decode(payload))
    ELSE Other("500")

\* A reply to a call that is no longer pending is ignored.
ReceiveReply ==
    /\ Receives("client")
    /\ Len(Received(incoming["client"])) <= Limit["client"]
    /\ LET frame == Parse(Received(incoming["client"]))
           c == CallOf(frame)
           result == IF frame.kind = "ACK" THEN AckResult(frame.payload) ELSE NakError(frame.payload)
       IN  IF settledBy[c] = "pending" THEN Settle(c, "reply", result)
                                       ELSE UNCHANGED <<outcome, settledBy>>
    /\ UNCHANGED <<connection, open, handlers, used, out, writing,
                   running, returned, stale, ran, oversized>>

\* close(), the watchdog, a failed write or the end of the other end's stream.
Close(p) ==
    /\ open[p]
    /\ open' = [open EXCEPT ![p] = FALSE]
    /\ UNCHANGED <<connection, handlers, used, wire, calls, oversized>>

\* finish_close: every pending call fails.
FailPending(c) ==
    /\ ~open["client"] /\ settledBy[c] = "pending"
    /\ Settle(c, "close", Transport("503 closed"))
    /\ UNCHANGED <<connection, open, handlers, used, wire, running, returned, stale, ran, oversized>>

----------------------------------------------------------------------------
Next ==
    \/ \E request \in Requests : Connect(request)
    \/ \E h \in DOMAIN Handlers : On(h)
    \/ \E type \in Types : Off(type)
    \/ \E c \in Calls :
         \/ \E d \in Inputs : Send(c, d)
         \/ TimesOut(c) \/ FailPending(c)
         \/ \E problem \in Quoting : Rejects(c, problem)
         \/ Panics(c)
         \/ \E d \in Results \cup {Null} : Returns(c, d)
         \/ \E problem \in Failures : Fails(c, problem)
    \/ \E p \in Ends :
         \/ \E text \in out[p] : StartWriting(p, text)
         \/ WriteFragment(p) \/ ReceiveOversized(p) \/ Close(p)
    \/ HandleMessage
    \/ ReceiveReply

Spec == Init /\ [][Next]_vars

----------------------------------------------------------------------------
(* Properties *)

\* The caller gets what the handler came up with: its value, null for none, its
\* problem detail, or the 400, 413, 500 or 503 that took its place, whatever the
\* encoding, the framing and the fragments on the way.
AnswerArrivesIntact ==
    \A c \in Calls : settledBy[c] = "reply" => outcome[c] = returned[c]

\* is_transport() of a call's error says that this end failed to carry the call:
\* no NAK has it, not even one with the problem detail of a transport failure of
\* the peer, and neither has a message that was too large or not serializable.
TransportMeansLocal ==
    \A c \in Calls :
        outcome[c].tag = "LocalTransport" <=>
            \/ settledBy[c] \in {"deadline", "close"}
            \/ settledBy[c] = "send" /\ outcome[c].what \in {"503", "503 not open"}

\* A handler that was replaced or removed before a message was sent never runs
\* for it.
NoStaleHandler == \A c \in Calls : ran[c] # NoHandler => ran[c] \notin stale[c]

\* What an end writes is within its own limit, so a peer whose limit is not
\* lower never closes the session for its size; and no result of a handler
\* closes it, for a value that is too large becomes a 413 at the end that has
\* it.  What closes it is a problem detail too large for a NAK: one that a
\* handler fails with, or the 400 that quotes a message of the wrong shape.
ResultsNeverClose ==
    /\ \A p \in Ends : Len(writing[p].text) <= Limit[p]
    /\ \A c \in oversized : returned[c].what \in Failures \cup Quoting

\* The WebSocket frames of a text fit the fragment size, carry something, begin
\* with Text and go on with Continue to the one final frame, and cut a character
\* only where not even one character fits.
FragmentsFit ==
    \A p \in Ends : Complete(p) =>
        LET frames == incoming[p]
            text == Received(frames)
            end(i) == Len(Received(SubSeq(frames, 1, i)))
        IN  \A i \in DOMAIN frames :
                /\ frames[i].bytes # <<>>
                /\ FragmentSize[Peer(p)] # 0 => Len(frames[i].bytes) <= FragmentSize[Peer(p)]
                /\ frames[i].opcode = "Text" <=> i = 1
                /\ frames[i].fin <=> i = Len(frames)
                /\ IsBoundary(text, end(i)) \/
                     \A n \in (end(i - 1) + 1)..end(i) : ~IsBoundary(text, n)

\* The connection is served by the first endpoint whose pattern its path is an
\* instance of, and the parameters are what makes it one.
RoutedToFirstMatch ==
    endpoint # 0 =>
        LET instance(i, values) ==
                [j \in DOMAIN Patterns[i] |-> IF Patterns[i][j].param THEN values[Patterns[i][j].name]
                                                                     ELSE Patterns[i][j].name]
            names(i) == {Patterns[i][j].name : j \in {k \in DOMAIN Patterns[i] : Patterns[i][k].param}}
            segments == NonEmpty(path)
        IN  /\ instance(endpoint, params) = segments
            /\ \A i \in 1..(endpoint - 1) :
                 \A values \in [names(i) -> {segments[j] : j \in DOMAIN segments}] :
                     instance(i, values) # segments
=============================================================================
