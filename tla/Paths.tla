------------------------------- MODULE Paths -------------------------------
(***************************************************************************)
(* The path patterns of endpoints (PathPattern, server.rs) and the choice  *)
(* of the endpoint for a request.  A path is the sequence of what is       *)
(* between its slashes; a segment of a pattern is a literal or a parameter. *)
(***************************************************************************)
EXTENDS Integers, Sequences, FiniteSetsExt

Literal(text) == [param |-> FALSE, name |-> text]
Param(name) == [param |-> TRUE, name |-> name]

\* The filter of PathPattern::matches.
NonEmpty(path) ==
    LET kept[n \in 0..Len(path)] ==
            IF n = 0 THEN <<>> ELSE IF path[n] = "" THEN kept[n - 1] ELSE Append(kept[n - 1], path[n])
    IN  kept[Len(path)]

\* The filter of PathPattern::parse.
ParsePattern(segments) == SelectSeq(segments, LAMBDA s : s # Literal(""))

\* Mutation: a pattern matches every path it is a prefix of.
Matches_Prefix(pattern, path) ==
    LET segments == NonEmpty(path)
    IN  /\ Len(segments) >= Len(pattern)
        /\ \A i \in DOMAIN pattern : pattern[i].param \/ pattern[i].name = segments[i]

Matches(pattern, path) ==
    LET segments == NonEmpty(path)
    IN  /\ Len(segments) = Len(pattern)
        /\ \A i \in DOMAIN pattern : pattern[i].param \/ pattern[i].name = segments[i]

\* The parameters of a match; of two with one name, the last.
Params(pattern, path) ==
    LET named(n) == {i \in DOMAIN pattern : pattern[i] = Param(n)}
    IN  [n \in {pattern[i].name : i \in {j \in DOMAIN pattern : pattern[j].param}} |->
            NonEmpty(path)[Max(named(n))]]

\* handle_connection: the first endpoint, in the order of registration, whose
\* pattern matches; 0 if there is none.
Route(patterns, path) ==
    LET matching == {i \in DOMAIN patterns : Matches(patterns[i], path)}
    IN  IF matching = {} THEN 0 ELSE Min(matching)
=============================================================================
