-------------------------------- MODULE Wire --------------------------------
(***************************************************************************)
(* What a VCMP frame is on the wire: the codec (frame.rs) and the          *)
(* splitting of a text into WebSocket frames (ws.rs).                      *)
(*                                                                         *)
(* A text is a sequence of bytes.  The codec and the splitting tell apart  *)
(* only the bytes that continue a multi-byte character, the ASCII ones and *)
(* the four frame types, each of which counts as one byte.                 *)
(***************************************************************************)
EXTENDS Integers, Sequences, FiniteSetsExt

CONSTANTS
    Continuation,   \* bytes inside a multi-byte character
    Intervals,      \* decimal numbers below 2^64, each counted as one byte
    IdBytes,        \* the ASCII bytes ids are made of
    IdLength        \* ID_LENGTH

ASSUME WireAssumption ==
    /\ IdLength \in Nat \ {0}
    /\ Continuation \cap (Intervals \cup IdBytes \cup {"MSG", "ACK", "NAK", "HBT"}) = {}

Header == 1 + IdLength

Bytes(text) == {text[i] : i \in DOMAIN text}

\* str::is_char_boundary and the condition of str::get(..n).
IsBoundary(text, n) ==
    n = Len(text) \/ (n < Len(text) /\ text[n + 1] \notin Continuation)

----------------------------------------------------------------------------
(* Frames.  An absent payload of an ACK or NAK and an empty one are the same, *)
(* as Frame::ack and Frame::nak make them; the interval of a heartbeat is its *)
(* payload.                                                                 *)

Frame(kind, id, payload) == [kind |-> kind, id |-> id, payload |-> payload]

FrameError(why) == Frame(why, <<>>, <<>>)

IsFrame(frame) == frame.kind \in {"MSG", "ACK", "NAK", "HBT"}

Parse(raw) ==
    CASE ~IsBoundary(raw, 1) -> FrameError("TooShort")
      [] raw[1] = "HBT" ->
           LET interval == SubSeq(raw, 2, Len(raw))
           IN  IF Len(interval) = 1 /\ interval[1] \in Intervals
                 THEN Frame("HBT", <<>>, interval)
                 ELSE FrameError("InvalidInterval")
      [] raw[1] \in {"MSG", "ACK", "NAK"} ->
           LET id == SubSeq(raw, 2, Header)
           IN  IF IsBoundary(raw, Header) /\ Bytes(id) \subseteq IdBytes
                 THEN Frame(raw[1], id, SubSeq(raw, Header + 1, Len(raw)))
                 ELSE FrameError("IncompleteId")
      [] OTHER -> FrameError("InvalidType")

Serialize(frame) == <<frame.kind>> \o frame.id \o frame.payload

----------------------------------------------------------------------------
(* message_fragments *)

\* Mutation: a character that does not fit is not split.
FragmentEnd_WholeCharacters(text, start, size) ==
    Max({i \in (start + 1)..Len(text) : IsBoundary(text, i) /\ i <= start + size}
          \cup {Min({i \in (start + 1)..Len(text) : IsBoundary(text, i)})})

\* Where the fragment from `start` ends: at the last character boundary within
\* `size` bytes, or after `size` bytes when there is none.  A size of zero means
\* no limit.
FragmentEnd(text, start, size) ==
    LET limit == IF size = 0 \/ Len(text) - start <= size THEN Len(text) ELSE start + size
        ends == {i \in (start + 1)..limit : IsBoundary(text, i)}
    IN  IF ends = {} THEN limit ELSE Max(ends)

\* The iterator's next frame.
NextFragment(text, start, size) ==
    LET end == FragmentEnd(text, start, size)
    IN  [opcode |-> IF start = 0 THEN "Text" ELSE "Continue",
         bytes |-> SubSeq(text, start + 1, end),
         fin |-> end = Len(text)]
=============================================================================
