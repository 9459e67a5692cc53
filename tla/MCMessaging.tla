---------------------------- MODULE MCMessaging ----------------------------
(* Messaging.tla for TLC: limits of nine and eight bytes with a header of    *)
(* three, and a three-byte character that does not fit the client's fragments. *)
EXTENDS Messaging, TLC

EncodingDef ==
    "hello" :> <<"h", "~", "~", "}">>
    @@ "empty" :> <<>>
    @@ "giant" :> <<"b", "b", "b", "b", "b", "b", "}">> @@ "big" :> <<"b", "b", "b", "b", "b", "}">>
    @@ "400" :> <<"4", "0">> @@ "413" :> <<"4", "1">> @@ "500" :> <<"5">>
    @@ "503" :> <<"5", "3">> @@ "504" :> <<"5", "4">>
    @@ "huge" :> <<"e", "e", "e", "e", "e", "}">>
    @@ "quoting" :> <<"4", "h", "h", "~", "~", "}">>

TypeOfDef ==
    [d \in DOMAIN EncodingDef |->
        IF d \in {"hello", "big", "giant"} THEN "greet" ELSE "none"]

DocsDef == DOMAIN EncodingDef

\* A message of the wrong shape, or one with a member of the wrong type, which
\* the detail of the 400 repeats.
RejectionsDef == [d \in DocsDef |-> IF TypeOfDef[d] = "greet" THEN {"400", "quoting"} ELSE {}]

PatternsDef == <<ParsePattern(<<Literal(""), Literal("drivers"), Param("driver")>>),
                 ParsePattern(<<Literal("drivers"), Literal("a")>>),
                 ParsePattern(<<Literal("")>>)>>

RequestsDef == {<<"", "drivers", "a">>, <<"">>, <<"drivers", "">>, <<"", "drivers", "", "a", "b">>}

HandlersDef ==
    "first" :> [endpoint |-> 1, type |-> "greet", accepts |-> {}]
    @@ "second" :> [endpoint |-> 1, type |-> "greet", accepts |-> {"hello"}]

LimitDef == [p \in Ends |-> IF p = "client" THEN 9 ELSE 8]

FragmentSizeDef == [p \in Ends |-> IF p = "client" THEN 2 ELSE 5]

\* The codec on short texts: what parses as a frame is written as it was read,
\* and every frame with a full id is read as it was written.
ASSUME CodecRoundTrip ==
    LET bytes == {"MSG", "NAK", "HBT", "7", "c1", "~"}
        texts == UNION {[1..n -> bytes] : n \in 0..4}
    IN  /\ \A raw \in texts : IsFrame(Parse(raw)) => Serialize(Parse(raw)) = raw
        /\ \A payload \in texts : Len(payload) <= 2 /\ (payload = <<>> \/ payload[1] # "~") =>
             LET frame == Frame("NAK", <<"c1", "c1">>, payload)
             IN  Parse(Serialize(frame)) = frame
=============================================================================
