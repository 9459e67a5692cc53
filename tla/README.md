# VCMP in TLA+

A verification project for the Rust implementation of VCMP (`src/` in this repository): TLA+
modules that model its sessions, heartbeats, messages, client, server and resource budgets, TLC
configurations that check them on small instances, and TLAPS proofs for every instance.

Line numbers refer to the files below `src/src/`. `PROJECT.json` maps every definition to its lines.

## The system

VCMP sends JSON messages over a WebSocket and acknowledges each of them. Everything is
concurrent: a program holds any number of sessions, each with a reader task, a writer task, one
task per incoming message, timers, and callers of `send` on tasks of their own.

| Part | State | Operations | What is hard |
|---|---|---|---|
| Session (`session.rs`) | `Inner`: open flag, pending calls, two bounded queues, permits, the `closed` watch, the close permit | `exchange` (all sends), `enqueue`, `write`, the read loop, handlers, the writer, `close`, `finish_close` | a send registers while the session closes; an answer races the timeout, the dropped future and the close; permits on every failure path; an answer that cannot be queued |
| Heartbeat (`session.rs`) | `HeartbeatState`: awaiting, watchdog, echo | initiate, expect, send, handle, the two timers | arming a watchdog after the write it guards; the first heartbeat racing the initial deadline; noticing a dead peer without closing a live one; two ends with different intervals |
| Two ends | the transport, arrival numbers | send, answer, read, write | control priority, full transports in both directions, matching answers |
| Client (`client.rs`) | `ClientState`, the `connected` watch, a stop channel per task, the attempt counter | `start`, `stop`, `stop_and_wait`, `run`, `Backoff::delay` | an aborted task that is between two steps when its successor already runs; waits that start over too early |
| Server, endpoint (`server.rs`, `axum.rs`) | the registry of sessions, tracked tasks, pending upgrades, the `stopped` flag | `bind`, accept loop, handshake, `start_session`, `serve_session`, `close_sessions`, `stop` | a shutdown while connections are in any stage, called from a hook of one of them, or while the server is bound again |
| Resource budgets (`resources.rs`) | counts and bytes per resource | `reserve`, `Permit::drop`, `Session::reserve` | two budgets taken one after the other, refusal by the second |
| Messages (`frame.rs`, `ws.rs`, `error.rs`, `HandlerMap` in `session.rs`, `PathPattern` in `server.rs`) | the handlers by type, texts under way | routing, serializing, framing, fragmenting, dispatch, replies | sizes at the limit; characters across fragments; handlers that change while messages are under way; telling an error of the peer from one of the connection |

How they interact: client and server create sessions (`spawn_admitted`) and await `closed()`;
hooks run in the client's and the server's connection task; the session's heartbeat calls
`close`; every queue, call, handler, hook and connection holds a permit of a budget.

What makes each correct: a **session** settles every call exactly once, loses no answer while
it is open, leaks no permit and is quiet once `closed()` resolves; a **heartbeat** closes dead
connections in bounded time and no others; a **message** reaches the handler of the endpoint its
connection asked for, and what comes of it reaches the caller intact; a **client** shows the
session of its latest start only; a **server** finds every session it serves and its shutdowns
return; a **budget** is never exceeded and everything taken from it has an owner.

`PROJECT.json` lists the hazards at their lines, with the properties that would catch each.

## Modules

| Module | Models | Runs |
|---|---|---|
| `Session` | one session, split where another thread can step in | `session_safety`, `session_liveness` |
| `SessionApi` | what a session promises its callers; `Session` implements it | (a property of `session_safety`) |
| `Heartbeat` | the heartbeats of two ends against a clock | `heartbeat` |
| `Duplex` | two sessions and the transport between them | `duplex_safety`, `duplex_progress`, `duplex_arrivals` |
| `Wire` | the frame codec and the splitting of texts into WebSocket frames | (used by `Messaging`) |
| `Paths` | path patterns and the choice of an endpoint | (used by `Messaging`) |
| `Messaging` | the data of calls from the client to a handler and back | `messaging` |
| `Client` | `VcmpClient` with overlapping generations of tasks, and its backoff | `client` |
| `Server` | accept loop, connection tasks, registry, shutdowns, axum upgrades | `server_safety`, `server_liveness`, `server_stop_closes` |
| `ResourceBudget` | the shared and the per-session budgets | `resource_budget` |
| `SessionProofs`, `HeartbeatProofs`, `DuplexProofs`, `MessagingProofs`, `ClientProofs`, `ServerProofs`, `ResourceProofs` | theorems about the module each one extends; those about `Wire` and `Paths` are in `MessagingProofs` | |
| `Induction` | induction over numbers and finite sets, recursive functions and sums, for the proofs | |
| `MC*` | constants and symmetry for TLC | |

Definitions named `Something_Variation` behind a comment "Mutation:" are not part of any
specification. Each is a plausible bug; substituting it for `Something` must make TLC report the
property that `PROJECT.json` lists with it.

### Session

`stage[a]` is where a caller of `exchange`, an incoming message or a heartbeat write is; all three
pass through `enqueue`, whose three points of interference (the open check, the reservation, the
push) are three actions. `pending` and `slot` are the pending table and the oneshot channels,
`queuePermits` etc. the outstanding permits as sets, `writer` and `writing` the writer task and
`AdmittedSink`, `reader` the read loop and then the steps of the shutdown. The heartbeat's timers
appear as `close` at any time, the transport as writes that succeed, fail or time out.
A reservation may be refused at any time, because the shared budget may; the session's own limits
are exact. The writer's biased select is one step that prefers control frames; no property of this
module depends on what slips in between its two polls (`Duplex`, where one might, takes them
apart).

A handler may panic (`HandlerPanics`): the reader joins the task and discards its error (860), so its
permits go, but the peer gets no answer while the session stays open. `MessageAnswered` makes that one
exception, and no other.

`ReceiveReply` may come for any send at any time, also late, twice or unasked; the peer is not
trusted.

`ImplementsApi` is the refinement: the phase of `SessionApi` is read off `reader` and `open`, a
call's outcome off its result, its oneshot and the pending table.

### Heartbeat

Time is discrete and timers count down. A due timer may be up to `Jitter` ticks late, so may each
step between the write of a heartbeat and the arming of its watchdog (645-664), and a frame takes
up to `MaxDelay` ticks. The connection may be cut silently at any time. `TimingAssumption` is what
the absence of false alarms needs. The longer interval plus a round trip with its delays stays below
the watchdog, twice the shorter interval; so does the longer interval with three late steps, since a
watchdog that is armed only after the answer has arrived is replaced no earlier than with the next
heartbeat. The code documents no such bounds; beyond them `NoFalseClose` is not true, and
both are tight: with intervals of 7 and 10, `MaxDelay` and `Jitter` 1, where both sides of the
first inequality are 14, and with intervals of 3, no delay and `Jitter` 1, where both sides of
the second are 6, TLC finds a live connection closed. The server initiates with its interval and
the client's application may initiate once with another; every HBT carries the interval its
receiver echoes it after. An end that has just sent the shorter interval may find its echo replaced
by that of the longer one, sent a moment before: that echo must come within the shorter watchdog.
An interval of zero (one below a millisecond) is outside the assumption: its receiver ignores it
and its sender's watchdog is due at once.

### Duplex

One step per `exchange`, answer, poll, write and read of either end, over a transport with room for
`WireLimit` frames per direction. `before` records which messages an end had queued when it
answered. A handler that panics leaves its call to the timeout of its caller.

### Wire, Paths and Messaging

`Messaging` follows the data where `Session` and `Duplex` only count frames. A JSON value is an
element of `Docs` with an encoding, a text is a sequence of bytes, and `Wire` tells apart what the
code looks at: whether a byte continues a character, is ASCII, a frame type or a number. Each frame
type and each heartbeat interval counts as one byte, all spellings of a number as one. `Paths` has a path as the
sequence of its segments, and the filter of `matches` as a recursive function, since the prover knows
`SelectSeq` by name only. `Connect` routes the request; `Send` is `send_with_arrival` up to the
queue; `StartWriting` and `WriteFragment` are the writer and `message_fragments`, `Received` is the reassembly; `HandleMessage`,
`Rejects`, `Returns`, `Fails` and `Panics` are `handle_message` and the task it spawns; `ReceiveReply` is
`handle_ack` and `handle_nak`. Queues have no limits here and texts leave them in any order; a
budget may refuse a call or a handler at any time.

A message of the wrong shape gets a 400 whose detail is the error of serde, and that quotes the
offending value (195-197). `Rejections` gives, for each message, the problem details that may come of
it, and their sizes are not bounded by that of the message less the header: such a NAK may be too large
to be queued, and then closes the session like a handler's own error that is too large. The other 400s
(no JSON, no type) have a fixed text.

`AckResult` makes a 500 of an ACK whose payload does not decode (524-528). No handler of this library
writes one, so no reply in the run does; the proofs need not assume it.

`returned`, `settledBy`, `stale`, `ran` and `oversized` are history variables: what the server's
side came up with, how a call was settled, which handlers had been taken out before it was sent,
which one ran, and which replies were too large to be queued.

`MCMessaging` has an ASSUME, evaluated before its run, that the codec inverts itself on all texts of
up to four bytes, heartbeats and broken ids included.

### Client

Every `start` is a generation with a task of its own. `pc[g]` is where `run` is, `aborted` the tasks
whose abort was requested; an abort takes effect only at an await. `attempt` counts the connects that
failed in a row and saturates at `MaxAttempt` (a u32 in the code). `Delay` is `Backoff::delay` before
its jitter: the multiplier is any fraction, finite and counted as at least one (73), the exponent is cut
off at `MaxExponent` (64 in the code), the result is capped and rounded down to whole units of time.
`Waits` adds the jitter, on by default, which draws a wait from the upper half of the delay (75-77).
`Initial` may be above `MaxWait`, as the public fields allow. The powers are a recursive function, over
which one can induct. `installed`, `replaced`, `disconnectedHook`, `refusedHook` and `longest`, the longest
wait of a task since it was connected, are history variables. `start` and `stop` hold the state lock, so
each is one step.

A hook may panic (`HookPanics`): the task dies, its guard closes the session, and nothing clears the
session or reconnects until the next `start` or `stop`. The liveness properties name that case.

### Server

`pc[c]` follows a connection from the accept (or `begin_upgrade`) to the end of its disconnect
hook, with the check of `stopped` (265), the spawn of the session (419), its registration (421) and
the release of a pending upgrade (axum.rs 141) as separate steps. `shutdown` is one call of
`stop` or `close_sessions`, from outside or from a hook; `accept` and `tracked` are the accept
loop and its JoinSet. If the hook that awaits a shutdown ends, the shutdown is cancelled, as its
future is dropped. `Rebind` is a second `bind`, at any time: it resets `stopped` and leaves the
`stop` channel of the first listener alone; its own connections are another instance of the same
module. A hook that panics (`HookPanics`) unwinds its task, whose guard closes and removes the session
(542-551), and cancels the shutdown it awaits.

Under such a rebind one shutdown need not return: a `stop` that a disconnect hook awaits aborts the
other tasks once, at its deadline. A connection whose accept was under way at that moment is spawned
afterwards, reads `stopped` as reset, is served, and has no deadline. `ShutdownReturns` excuses exactly
the stop of a hook of this listener under which the server was bound again. It also counts a shutdown as
ended that its own hook has cancelled, as a connect hook's does when the shutdown closes its session: no
property says what should become of that one.

### ResourceBudget

A claim goes through `Session::reserve` (local budget, then shared), owns its permits, and drops
them in the order of the tuple. Each step is what happens under one lock. Counts and bytes are
integers; `UsageIsOwned` says that they are the sums of what is owned, so never negative.

## What the runs check

| Run | Instance | Shows |
|---|---|---|
| `session_safety` | 2 sends, 1 message, 1 heartbeat; one slot per queue | no call stranded (`NoStrandedSend`), a returned call leaves nothing, permits match owners, admitted frames find a slot, no answer lost while open, a locally failed call was never sent, nothing runs after `closed()`, `SessionApi` |
| `session_liveness` | 1 send, 2 messages | a close completes, every call returns, every message is answered, its handler panics or the session closes |
| `heartbeat` | intervals 10 and 13, initial timeout 5, delay 2, jitter 1 | no false close, detection within `DetectionBound` |
| `duplex_safety` | 2 calls against 1; a transport of one frame | an acknowledged call was handled, messages arrive in order, also when handlers panic |
| `duplex_progress` | 2 calls each; nothing fails, no timers | the ends never wait on each other for good |
| `messaging` | 2 calls, 2 handlers of one type, 3 patterns; limits of 9 and 8 bytes, fragments of 2 and 5, a character of 3 | a reply is what the handler came up with, `is_transport` means a local failure, no handler runs for a message sent after it was removed, results never close the session (only a handler's error or a 400 that quotes its message can), fragments are well formed, the first matching endpoint serves |
| `client` | 2 starts, 2 sessions each, hooks may be refused or panic; backoff of 1 to 3 units, multiplier 9/2, with jitter | only the latest start's session is shown, none is orphaned, replaced connections are not reported; stop completes, other disconnects are reported, lost connections are retried, and no wait is less than half of an earlier one before a connection succeeds |
| `server_safety` | 2 connections, 1 upgrade, a second bind, hooks may be refused or panic | the registry holds served sessions and every open one, `close_sessions` after the HTTP server leaves none, `stop` leaves no task |
| `server_liveness` | 2 connections, a second bind, hooks may panic | shutdowns return, also from a disconnect hook while another connection lives; disconnect hooks run |
| `resource_budget` | 3 claims, 2 sessions, five resources, a zero limit | limits hold, every unit has an owner |

Two runs end in a violation on purpose; each shows where a comment or the README says more than
the code does (see "Findings").

**Why the bounds suffice.** The races are between two or three parties. Two sends cover
a call against another's slot and permit; with one slot per queue both queue limits are reached, and
a call may be refused for lack of a permit at any time, since its session shares a budget. Two
starts cover a replaced task and its successor; two sessions per start cover a
reconnect. Two standalone connections, in `server_safety` and in `server_liveness`, cover a shutdown from
the hook of one that must wait for, and abort, the other. `server_liveness` has no upgrade: that a shutdown waits for pending
upgrades, and for how long, is in `server_safety` only. Its hooks are not refused, since a refused hook does not run. The
backoff starts at 1, would go on with 4 and is capped at 3, so that the cap, the exponent and the saturated
counter are all reached; jitter makes the waits 1, 2 and 3. Without jitter the property is proved,
not run. In `duplex_progress` each end needs a frame on the wire and another in its writer to be
blocked, hence two calls each. Three claims are needed to fill the shared budget from both sessions
while a third is between its two reservations. In `messaging` the client's limit is above the
server's, so that a message can be too large for the client, for the server only, and for neither;
an input of one byte more than the limit less the header, a result of that size, an error of
that size and a 400 of that size that quotes a shorter message all occur. The server's texts exceed its fragments, the client's cut a character. Only the
first endpoint has handlers there; a root pattern and requests that match several patterns and none
exercise the routing. The bounds are `MaxIgnored` (ignored
frames, which change only their own counter: one in `session_liveness`, none in `session_safety`),
`MaxStarts`, `MaxSessions`, `MaxAttempt` and `MaxExponent` (where the attempt counter and the
exponent saturate), `MaxOverloads` (the width of the saturating counter), the sets of calls
and connections, and `silence`, which stops counting just above `DetectionBound`.

**Deadlock** is not checked: every modelled system may legitimately come to rest (all calls made,
all sessions closed). The liveness properties say what must not be left undone.

**Fairness** is weak and per task: the executor runs every spawned task, and every `timeout` and
`sleep` fires. So the writer, the reader, a handler (bounded by `handler_timeout`), the shutdown
of a session (`shutdown_timeout`), the client's connect and backoff and the server's accept loop
make progress. No fairness is assumed of the peer, of the transport, of callers, nor of
`start`, `stop` and `close`. `duplex_progress` assumes none of any timeout. `Server` assumes none of the
disconnect hook that awaits the shutdown, so that the shutdown cannot be rescued by that hook's
timeout. It assumes that hooks end, by themselves, by `handler_timeout` or by a panic, and none is
assumed to panic.

## What is proved

Every invariant and action property of the passing runs, and the refinement, is a theorem for every
value of the constants, subject to the named ASSUMEs (which TLC evaluates too) and the hypotheses
named below. The listed properties are seldom inductive; each proof has an invariant of named parts
and shows, action by action, that every step keeps it.

**Session.** `SessionInvariant` has seven parts. `TypeOK`. `CallInv`: the reader leaves its loop
only after the gate has closed, nothing is registered through a closed gate, so the table stays empty
after the drain; which stages rely on an entry or an answer. `FrameInv`: a frame is in one place, and
the permits of the queues are those of the frames in them, at the writer or about to be pushed.
`HandlerInv`: which tasks own handler permits. `RoomInv`: the permits are within the limits, so an
admitted frame finds its slot. `ShutdownInv`: the gate, the handlers, the writer and the drain come in
this order, and an answer that was not queued has closed the session. `OutcomeInv`: what a call was
told, by where it is. From these follow `NoSendStranded`, `ReturnIsClean`, `PermitsAreOwned`,
`SlotForAdmitted`, `RepliesAreKept`, `LocalFailureIsUnsent` and `ClosedIsQuiescent`, and the
refinement `SessionImplementsApi`: a fresh session is one of `SessionApi`, and each action maps to one
of its actions or to a stutter.

**Heartbeat.** `WorkingConnectionStaysOpen` and `DeadConnectionIsNoticed` follow from `HeartbeatInv`.
While the connection works, every armed watchdog has more ticks left than it takes until it is
replaced, because its end is about to send (`Rearms`), or until it is stopped, because a heartbeat that will
be accepted is under way: on the wire, in a late step, in an echo that runs, or behind one
that the other end still has to receive (`Comes`). An end that waits never waits for nothing (`SomethingComes`). On a
dead connection the silence so far and what the timers of an open end have left add up to at most
`DetectionBound` (`Deadline`). `TimingAssumption` is the only hypothesis on the intervals.

**Duplex.** `AnswersFindTheirCall` (`AckMeansHandled`) and `ArrivalsKeepOrder` (`MessagesInOrder`).
Queue, writer and wire of an end are one line (`At`); every step but a send and an arrival moves the
messages up in it, or cuts off its end. What was sent before a message in the line is
ahead of it or has arrived; an answer under way says what became of its call.

**Messaging.** `ErrorOrigin`: only errors this end made because it could not carry the call are
transport errors, whatever a NAK contains. `ReplyIsIntact` rests on `WireInv`: a call has one text, in
one place, or a task, or neither; what was received of a text is what was written of it; the text of a reply
means what has been returned. With it come lemmas on the codec: a frame of a call is read as it was
written, for any ids and payloads. `FragmentsAreFit`: what `message_fragments` makes of any text.
`StaleHandlersRest`. `ResultsFit` (`ResultsNeverClose`) under the hypothesis that the problem details
with a fixed text fit the limit (`ProblemsFit`: the 400 for what is no JSON or has no type, the 413, 500
and 503), without which there is nothing left to answer with. It assumes nothing about the size of a 400
that quotes a message, nor of a handler's own error. `FirstMatchServes` (`RoutedToFirstMatch`), where `NamesDiffer` says that no pattern has
two parameters of one name: `matches` keeps the last of them, and then the parameters do not determine
the path. `MessagingAssumption` says what JSON is: values encode to different texts that begin with a
character, and problem details and results to texts that are not empty.

**Client.** `ClientInv`: what has not started has no task, and the running generation's channel has no signal
(`StartsInv`); the shown session is the one that the latest task drives (`ShownInv`); an open session is
the current one or about to be installed, and is cleared only when closed (`OrphanInv`); a session is
reported at the end of its attempt, and replaced ones have been told to be quiet (`SilenceInv`). From it
`LatestIsShown`, `NoneOrphaned` and `ReplacementIsSilent`. The action property `BackoffIsKept` (`BackoffHolds`)
needs that the longest wait was drawn for an attempt no later than the counter (`WaitsInv`) and that
`Delay` is monotone, by induction over the exponent; it holds for any initial and maximal wait, in either
order, any fraction as multiplier, and with jitter or without.

**Server.** `ServerInv`: served sessions and the registry (`RegistryInv`); what `close_sessions` relies
on, that an upgrade is pending until it is registered and none begins after the HTTP server has stopped
(`UpgradeInv`); what `stop` relies on, that the loop accepts one connection at a time, none after the
signal, and joins or aborts every task it spawned (`ListenerInv`). From it `RegisteredIsServed`,
`OpenIsFound`, `ClosingLeavesNone` and `StoppingLeavesNone`.

**ResourceBudget.** `NeverExceeded` (`WithinLimits`) and `NothingLeaks` (`UsageIsOwned`), counts and
bytes. Every step takes or drops one permit of one budget or none (`Moves`); limits follow from the guard
of a reservation, counts from the cardinality of the owners, bytes from a sum over them.
`NeverNegative`: the unsigned counters never wrap.

**Induction.** The library's induction theorems take operators as parameters, which the provers
cannot instantiate. `Induction` derives induction over numbers and finite sets, stated about sets
instead of operators, and the unfolding of recursive functions and of sums over finite sets, from the
well-foundedness of the natural numbers.

Only model-checked: liveness (`session_liveness`, `duplex_progress`, `server_liveness` and the
leads-to properties of `client`), since fairness and ENABLED are beyond the prover; and that the codec
inverts itself on texts that are not frames of calls (the ASSUME of `MCMessaging`).

## Findings

- `server_stop_closes`. `ServerHandle::stop` is documented to close every session (server.rs 322,
  README). It collects the registry once; a connection past the check of `stopped` that opens its
  session afterwards, and registers it then, is not collected. It lives on until the deadline, is then aborted without its
  disconnect hook, and may still be open when `stop` returns, since dropping the JoinSet does not
  wait for the tasks it aborts.
- `duplex_arrivals`. The README and the comment of `send_with_arrival` say that an arrival after that
  of the ACK means that the peer sent the message after acknowledging. The writer prefers
  control frames, so an ACK overtakes messages the peer had queued by `send` before. Arrivals
  do order the frames as written, and messages among themselves (`MessagesInOrder`).

## Not modelled

`broadcast` joins independent sends and pairs the results by position. `on_type` differs from `on`
in what the handler deserializes. The derive of message types, the members of a problem detail and
the conversions from foreign errors are data; so are the ids, which are given here and random in the code.
A peer that is not this library (an ACK that is no JSON, a NAK for what succeeded) is in `Session`
only, where replies may come at any time. A multiplier that is infinite, the rounding of floating-point
delays below a unit of time, binary and control frames, axum's
request extraction and header validation, TLS, examples and contract tests hold no state of
interest. Tokio's channels, locks and select, tungstenite, hyper and axum are taken to do what they document.

## Plan

1. (done) `Session`, `SessionApi`, proofs of the call invariants.
2. (done) `Heartbeat`, `Client`, `Server`, `ResourceBudget`, `Duplex`; proofs of the budget.
3. (done) `Wire`, `Paths`, `Messaging`; the backoff in `Client`; unequal intervals in `Heartbeat`; a
   second `bind` in `Server`.
4. (done) Proofs of the safety properties of every module and of the refinement of `SessionApi`.
5. Proofs: the step lemmas under the liveness properties (what each fair action leaves closer to the
   goal, as a measure that no other action raises); `Parse` and `Serialize` as inverses on
   every text, heartbeats and broken ids included.
