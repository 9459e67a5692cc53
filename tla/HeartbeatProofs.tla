-------------------------- MODULE HeartbeatProofs --------------------------
(***************************************************************************)
(* Theorems about Heartbeat.tla, for all intervals, delays and timeouts    *)
(* that satisfy TimingAssumption.                                          *)
(*                                                                         *)
(* An armed watchdog is either replaced in time, because its end is about  *)
(* to send again, or stopped in time, because a heartbeat that will be     *)
(* accepted is on its way.  Both invariants say by when.                   *)
(***************************************************************************)
EXTENDS Heartbeat, SequenceTheorems, TLAPS

\* The intervals that heartbeats carry.
Carried == {Interval[Server]} \union (IF AlsoInitiates THEN {Interval[Client]} ELSE {})

Beats == [interval : Carried, age : 0..MaxDelay]

Typing ==
    /\ open \in [Ends -> BOOLEAN] /\ awaiting \in [Ends -> BOOLEAN] /\ received \in [Ends -> BOOLEAN]
    /\ watchdog \in [Ends -> Int] /\ echo \in [Ends -> Int] /\ lag \in [Ends -> Int]
    /\ echoed \in [Ends -> Int] /\ sending \in [Ends -> Int]
    /\ step \in [Ends -> {"start", "write", "arm", "idle"}]
    /\ wire \in [Ends -> Seq(Beats)]
    /\ mayInitiate \in BOOLEAN /\ cut \in BOOLEAN
    /\ silence \in Nat /\ (~cut => silence = 0)

\* Nothing is later than it may be, and every interval is one of the two.
InTime(p) ==
    /\ lag[p] >= 0 /\ lag[p] <= Jitter
    /\ watchdog[p] >= Off
    /\ echo[p] >= Off /\ echo[p] <= Slow
    /\ echo[p] # Off => echoed[p] \in Carried
    /\ step[p] \in {"write", "arm"} => sending[p] \in Carried

\* An end that waits for nothing is about to send.
Alternates(p) ==
    /\ open[p] /\ ~awaiting[p] => echo[p] # Off
    /\ ~received[p] => awaiting[p] /\ echo[p] = Off

\* Until the server has sent its first heartbeat the client has received none,
\* and the server has received none but the one the client's application sent.
FirstBeat ==
    /\ mayInitiate => AlsoInitiates
    /\ step[Server] = "start" =>
          /\ wire[Client] = <<>> /\ ~received[Client]
          /\ step[Client] = "start" => mayInitiate = AlsoInitiates
          /\ mayInitiate => wire[Server] = <<>> /\ echo[Server] = Off /\ step[Client] \in {"start", "idle"}
    /\ open[Client] /\ step[Client] = "start" /\ received[Client] => echo[Client] # Off
    /\ ~cut /\ ~received[Client] => step[Server] \in {"start", "write"} \/ wire[Client] # <<>>
    /\ mayInitiate => ~awaiting[Server] \/ echo[Server] = Off

----------------------------------------------------------------------------
(* A working connection *)

\* Ticks from the echo of an end to the arrival of its heartbeat at the other.
Trip == 2 * Jitter + MaxDelay

\* The first heartbeat on its way to p arrives within so many ticks.
Latest(p) == MaxDelay - wire[p][1].age

\* A heartbeat that p waits for arrives within fewer than t ticks.
Comes(p, t) ==
    LET q == Other(p) IN
    \/ wire[p] # <<>> /\ t > Latest(p)
    \/ step[q] = "write" /\ t > Jitter - lag[q] + MaxDelay
    \/ p = Client /\ step[q] = "start" /\ t > Jitter - lag[q] + Jitter + MaxDelay
    \/ ~awaiting[q] /\ echo[q] # Off /\ t > echo[q] + Trip
    \/ /\ awaiting[q] /\ echo[q] # Off /\ t > echo[q] + Trip
       /\ step[p] = "idle" /\ (p = Client => ~mayInitiate)
       /\ wire[q] # <<>> => t > Latest(q) + Slow + Trip
    \/ /\ awaiting[q] /\ echo[q] = Off
       /\ wire[q] # <<>> /\ t > Latest(q) + Slow + Trip

\* p arms its watchdog again within fewer than t ticks.
Rearms(p, t) ==
    \/ step[p] = "arm" /\ t > Jitter - lag[p]
    \/ step[p] = "write" /\ t > Jitter - lag[p] + Jitter
    \/ step[p] \in {"idle", "start"} /\ echo[p] # Off /\ t > echo[p] + 3 * Jitter

\* Whoever waits, and has sent, waits for something.
SomethingComes(p) ==
    LET q == Other(p) IN
    awaiting[p] /\ echo[p] = Off /\ step[p] # "write" /\ (p = Server => step[p] # "start") =>
        \/ wire[p] # <<>> \/ wire[q] # <<>> \/ echo[q] # Off
        \/ step[q] = "write" \/ (p = Client /\ step[q] = "start")

Fed(p) ==
    watchdog[p] # Off =>
        \/ Rearms(p, watchdog[p])
        \/ awaiting[p] /\ echo[p] = Off /\ Comes(p, watchdog[p])

LiveInv ==
    ~cut => \A p \in Ends : open[p] /\ SomethingComes(p) /\ Fed(p)

----------------------------------------------------------------------------
(* A dead connection *)

\* How many ticks an open end has at most until its watchdog closes it.
Deadline(p) ==
    \/ echo[p] # Off /\ silence + echo[p] + 2 * echoed[p] + 4 * Jitter <= DetectionBound
    \/ echo[p] = Off /\ step[p] = "write" /\ silence + 2 * sending[p] + 3 * Jitter - lag[p] <= DetectionBound
    \/ echo[p] = Off /\ step[p] = "arm" /\ silence + 2 * sending[p] + 2 * Jitter - lag[p] <= DetectionBound
    \/ /\ echo[p] = Off /\ step[p] = "idle" /\ watchdog[p] # Off
       /\ silence + watchdog[p] + Jitter <= DetectionBound
    \/ /\ echo[p] = Off /\ step[p] = "start"
       /\ p = Server => silence + 2 * Slow + 4 * Jitter - lag[p] <= DetectionBound
       /\ p = Client => silence + ExpectTimeout + 2 * Jitter - lag[p] <= DetectionBound

DeadInv == \A p \in Ends : open[p] => Deadline(p)

HeartbeatInv ==
    /\ Typing
    /\ \A p \in Ends : InTime(p) /\ Alternates(p)
    /\ FirstBeat
    /\ LiveInv
    /\ DeadInv

----------------------------------------------------------------------------
(* The constants *)

\* There are two ends, each the other of the other.
LEMMA OtherEnd ==
    ASSUME NEW p \in Ends
    PROVE  /\ Other(p) \in Ends /\ Other(p) # p /\ Other(Other(p)) = p
           /\ \A e \in Ends : e = p \/ e = Other(p)
BY TimingAssumption DEF Ends, Other

\* What TimingAssumption and the definitions say of the constants.
LEMMA Intervals ==
    /\ Slow \in Nat /\ MaxDelay \in Nat /\ Jitter \in Nat /\ ExpectTimeout \in Nat
    /\ MaxDelay + 2 * Jitter < ExpectTimeout
    /\ DetectionBound \in Nat /\ Off \in Int /\ Off = -Jitter - 1
    /\ 3 * Slow + 4 * Jitter <= DetectionBound
    /\ ExpectTimeout + 2 * Jitter <= DetectionBound
    /\ Trip = 2 * Jitter + MaxDelay
<1>1. /\ Interval[Server] \in Nat /\ Interval[Client] \in Nat
  BY TimingAssumption DEF Ends
<1>2. Slow \in Nat
  BY <1>1 DEF Slow
<1>3. /\ MaxDelay \in Nat /\ Jitter \in Nat /\ ExpectTimeout \in Nat
      /\ MaxDelay + 2 * Jitter < ExpectTimeout
  BY TimingAssumption
<1>. QED BY <1>2, <1>3 DEF DetectionBound, Off, Trip

\* Every interval under way satisfies TimingAssumption.
LEMMA CarriedIntervals ==
    ASSUME NEW x \in Carried
    PROVE  /\ x \in Nat /\ x > 0 /\ x <= Slow
           /\ Slow + 2 * MaxDelay + 2 * Jitter < 2 * x
           /\ Slow + 3 * Jitter < 2 * x
<1>1. PICK e \in Ends : x = Interval[e] /\ (e = Client => AlsoInitiates)
  BY TimingAssumption DEF Carried, Ends
<1>2. /\ Interval[e] \in Nat /\ Interval[e] > 0
      /\ Slow + 2 * (MaxDelay + Jitter) < 2 * Interval[e]
      /\ Slow + 3 * Jitter < 2 * Interval[e]
  BY TimingAssumption
<1>3. Interval[e] <= Slow
  <2>1. Interval[Server] \in Nat /\ Interval[Client] \in Nat
    BY TimingAssumption DEF Ends
  <2>. QED BY <1>1, <2>1 DEF Slow, Ends
<1>4. Slow \in Nat /\ MaxDelay \in Nat /\ Jitter \in Nat
  BY Intervals
<1>. QED BY <1>1, <1>2, <1>3, <1>4

\* The server's heartbeats carry its interval.
LEMMA CarriedByServer == Interval[Server] \in Carried
BY DEF Carried

\* A client that initiates carries its own.
LEMMA CarriedByClient == AlsoInitiates => Interval[Client] \in Carried
BY DEF Carried

----------------------------------------------------------------------------
(* The initial states *)

\* A new connection: nobody has sent, and the initial timeout runs.
LEMMA InitiallyInv == Init => HeartbeatInv
<1>. SUFFICES ASSUME Init PROVE HeartbeatInv
  OBVIOUS
<1>. USE Intervals
<1>1. Typing
  <2>1. <<>> \in Seq(Beats)
    OBVIOUS
  <2>2. /\ open \in [Ends -> BOOLEAN] /\ awaiting \in [Ends -> BOOLEAN] /\ received \in [Ends -> BOOLEAN]
        /\ mayInitiate \in BOOLEAN /\ cut \in BOOLEAN
    BY TimingAssumption DEF Init
  <2>3. /\ watchdog \in [Ends -> Int] /\ echo \in [Ends -> Int] /\ lag \in [Ends -> Int]
        /\ echoed \in [Ends -> Int] /\ sending \in [Ends -> Int]
        /\ step \in [Ends -> {"start", "write", "arm", "idle"}]
        /\ silence \in Nat /\ (~cut => silence = 0)
    BY DEF Init
  <2>4. wire \in [Ends -> Seq(Beats)]
    BY <2>1 DEF Init
  <2>. QED BY <2>2, <2>3, <2>4 DEF Typing
<1>2. ASSUME NEW p \in Ends PROVE InTime(p) /\ Alternates(p)
  BY DEF Init, InTime, Alternates
<1>3. FirstBeat
  BY DEF Init, FirstBeat, Ends
<1>4. ASSUME NEW p \in Ends PROVE open[p] /\ SomethingComes(p) /\ Fed(p)
  BY TimingAssumption DEF Init, SomethingComes, Fed, Other, Ends
<1>5. ASSUME NEW p \in Ends PROVE Deadline(p)
  BY TimingAssumption DEF Init, Deadline, Ends
<1>. QED BY <1>1, <1>2, <1>3, <1>4, <1>5 DEF HeartbeatInv, LiveInv, DeadInv

----------------------------------------------------------------------------
(* Time passes *)

\* Time passes only while nothing is overdue, and takes as much off every
\* deadline as off what it waits for.
LEMMA TickStep ==
    ASSUME HeartbeatInv, Tick
    PROVE  HeartbeatInv'
<1>. USE Intervals
<1>1. Typing /\ FirstBeat
  BY DEF HeartbeatInv
<1>2. /\ open' = open /\ awaiting' = awaiting /\ echoed' = echoed /\ received' = received
      /\ step' = step /\ sending' = sending /\ mayInitiate' = mayInitiate /\ cut' = cut
  BY DEF Tick
<1>3. ASSUME NEW p \in Ends
      PROVE  /\ InTime(p) /\ Alternates(p) /\ (open[p] => Deadline(p))
             /\ ~cut => open[p] /\ SomethingComes(p) /\ Fed(p)
  BY DEF HeartbeatInv, LiveInv, DeadInv
<1>a. /\ watchdog' = [p \in Ends |-> IF watchdog[p] = Off THEN Off ELSE watchdog[p] - 1]
      /\ echo' = [p \in Ends |-> IF echo[p] = Off THEN Off ELSE echo[p] - 1]
      /\ lag' = [p \in Ends |-> IF step[p] = "idle" THEN 0 ELSE lag[p] + 1]
      /\ wire' = [p \in Ends |-> [i \in 1..Len(wire[p]) |-> [wire[p][i] EXCEPT !.age = @ + 1]]]
      /\ silence' = IF cut THEN silence + 1 ELSE silence
  BY DEF Tick
<1>b. ASSUME NEW p \in Ends
      PROVE  /\ watchdog[p] = Off \/ watchdog[p] > -Jitter
             /\ echo[p] = Off \/ echo[p] > -Jitter
             /\ step[p] # "idle" => lag[p] < Jitter
             /\ \A i \in 1..Len(wire[p]) : wire[p][i].age < MaxDelay
  BY DEF Tick
<1>c. /\ watchdog \in [Ends -> Int] /\ echo \in [Ends -> Int] /\ lag \in [Ends -> Int]
      /\ echoed \in [Ends -> Int] /\ sending \in [Ends -> Int]
      /\ wire \in [Ends -> Seq(Beats)]
      /\ silence \in Nat /\ cut \in BOOLEAN /\ (~cut => silence = 0)
  BY <1>1 DEF Typing
<1>d. silence' \in Nat /\ (cut => silence' = silence + 1) /\ (~cut => silence' = 0)
  <2>1. silence' = (IF cut THEN silence + 1 ELSE silence) /\ silence \in Nat /\ (~cut => silence = 0)
    BY <1>a, <1>c
  <2>. QED BY ONLY <2>1
<1>4. ASSUME NEW p \in Ends
      PROVE  /\ watchdog[p] \in Int /\ echo[p] \in Int /\ lag[p] \in Int /\ echoed[p] \in Int /\ sending[p] \in Int
             /\ watchdog'[p] = IF watchdog[p] = Off THEN Off ELSE watchdog[p] - 1
             /\ echo'[p] = IF echo[p] = Off THEN Off ELSE echo[p] - 1
             /\ watchdog'[p] = Off <=> watchdog[p] = Off
             /\ echo'[p] = Off <=> echo[p] = Off
             /\ lag'[p] = IF step[p] = "idle" THEN 0 ELSE lag[p] + 1
             /\ step[p] # "idle" => lag[p] < Jitter
  <2>1. /\ watchdog[p] \in Int /\ echo[p] \in Int /\ lag[p] \in Int /\ echoed[p] \in Int /\ sending[p] \in Int
    BY <1>c
  <2>2. /\ watchdog'[p] = IF watchdog[p] = Off THEN Off ELSE watchdog[p] - 1
        /\ echo'[p] = IF echo[p] = Off THEN Off ELSE echo[p] - 1
        /\ lag'[p] = IF step[p] = "idle" THEN 0 ELSE lag[p] + 1
    BY <1>a
  <2>3. /\ watchdog[p] = Off \/ watchdog[p] > -Jitter
        /\ echo[p] = Off \/ echo[p] > -Jitter
        /\ step[p] # "idle" => lag[p] < Jitter
    BY <1>b
  <2>. QED BY <2>1, <2>2, <2>3
<1>5. ASSUME NEW p \in Ends
      PROVE  /\ wire'[p] \in Seq(Beats) /\ (wire'[p] = <<>> <=> wire[p] = <<>>)
             /\ wire[p] # <<>> => Latest(p) \in Int /\ Latest(p)' = Latest(p) - 1
  <2>1. wire[p] \in Seq(Beats)
    BY <1>c
  <2>2. PICK n \in Nat : n = Len(wire[p])
    BY <2>1
  <2>3. wire'[p] = [i \in 1..n |-> [wire[p][i] EXCEPT !.age = @ + 1]]
    BY <2>2, <1>a
  <2>4. ASSUME NEW i \in 1..n
        PROVE  /\ wire[p][i] \in Beats /\ wire'[p][i] \in Beats
               /\ wire[p][i].age \in Int /\ wire'[p][i].age = wire[p][i].age + 1
    <3>1. wire[p][i] \in Beats
      BY <2>1, <2>2, ElementOfSeq
    <3>2. wire[p][i].age < MaxDelay
      BY <1>b, <2>2
    <3>3. PICK x : x = wire[p][i]
      OBVIOUS
    <3>4. wire'[p][i] = [x EXCEPT !.age = @ + 1]
      BY <2>3, <3>3
    <3>5. x \in Beats /\ x.age < MaxDelay
      BY <3>1, <3>2, <3>3
    <3>6. [x EXCEPT !.age = @ + 1] \in Beats /\ [x EXCEPT !.age = @ + 1].age = x.age + 1 /\ x.age \in Int
      BY <3>5 DEF Beats
    <3>. QED BY <3>1, <3>3, <3>4, <3>6
  <2>5. wire'[p] \in Seq(Beats) /\ Len(wire'[p]) = n
    <3>1. \A i \in 1..n : wire'[p][i] \in Beats
      BY <2>4
    <3>2. wire'[p] = [i \in 1..n |-> wire'[p][i]]
      BY <2>3
    <3>. QED BY <3>1, <3>2
  <2>6. ASSUME wire[p] # <<>> PROVE 1 \in 1..n
    BY <2>1, <2>2, <2>6, EmptySeq
  <2>7. wire'[p] = <<>> <=> wire[p] = <<>>
    BY <2>1, <2>2, <2>5, EmptySeq
  <2>8. ASSUME wire[p] # <<>> PROVE Latest(p) \in Int /\ Latest(p)' = Latest(p) - 1
    <3>1. PICK a \in Int : a = wire[p][1].age /\ wire'[p][1].age = a + 1
      BY <2>4, <2>6, <2>8
    <3>2. MaxDelay - a \in Int /\ MaxDelay - (a + 1) = (MaxDelay - a) - 1
      BY <3>1
    <3>. QED BY <3>1, <3>2 DEF Latest
  <2>. QED BY <2>5, <2>7, <2>8
<1>6. Typing'
  <2>1. /\ watchdog' \in [Ends -> Int] /\ echo' \in [Ends -> Int] /\ lag' \in [Ends -> Int]
    <3>1. \A p \in Ends : watchdog'[p] \in Int /\ echo'[p] \in Int /\ lag'[p] \in Int
      BY <1>4
    <3>2. /\ watchdog' = [p \in Ends |-> watchdog'[p]] /\ echo' = [p \in Ends |-> echo'[p]]
          /\ lag' = [p \in Ends |-> lag'[p]]
      BY <1>a
    <3>. QED BY <3>1, <3>2
  <2>2. wire' \in [Ends -> Seq(Beats)]
    <3>1. wire' = [p \in Ends |-> wire'[p]]
      BY <1>a
    <3>. QED BY <3>1, <1>5
  <2>3. silence' \in Nat /\ (~cut' => silence' = 0)
    BY <1>d, <1>2
  <2>. QED BY <1>1, <1>2, <2>1, <2>2, <2>3 DEF Typing
<1>7. ASSUME NEW p \in Ends PROVE InTime(p)' /\ Alternates(p)'
  BY <1>2, <1>3, <1>4 DEF InTime, Alternates
<1>8. FirstBeat'
  <2>1. Server \in Ends /\ Client \in Ends
    BY DEF Ends
  <2>. QED BY <1>1, <1>2, <1>4, <1>5, <2>1 DEF FirstBeat
<1>9. ASSUME NEW p \in Ends PROVE open'[p] => Deadline(p)'
  <2>1. (open[p] => Deadline(p)) /\ silence \in Nat /\ silence' \in Nat /\ silence' <= silence + 1
    BY <1>3, <1>c, <1>d
  <2>. QED BY <1>2, <1>4, <2>1 DEF Deadline
<1>10. ASSUME NEW p \in Ends, ~cut PROVE open'[p] /\ SomethingComes(p)' /\ Fed(p)'
  <2>1. open[p] /\ SomethingComes(p) /\ Fed(p) /\ Other(p) \in Ends
    BY <1>3, <1>10, OtherEnd
  <2>2. SomethingComes(p)'
    BY <1>2, <1>4, <1>5, <2>1 DEF SomethingComes
  <2>3. ASSUME NEW t \in Int, Rearms(p, t) PROVE Rearms(p, t - 1)'
    BY <1>2, <1>4, <2>3 DEF Rearms
  <2>4. ASSUME NEW t \in Int, Comes(p, t) PROVE Comes(p, t - 1)'
    <3>1. PICK q \in Ends : q = Other(p)
      BY <2>1
    <3>2. \/ wire[p] # <<>> /\ t > Latest(p)
          \/ step[q] = "write" /\ t > Jitter - lag[q] + MaxDelay
          \/ p = Client /\ step[q] = "start" /\ t > Jitter - lag[q] + Jitter + MaxDelay
          \/ ~awaiting[q] /\ echo[q] # Off /\ t > echo[q] + Trip
          \/ /\ awaiting[q] /\ echo[q] # Off /\ t > echo[q] + Trip
             /\ step[p] = "idle" /\ (p = Client => ~mayInitiate)
             /\ wire[q] # <<>> => t > Latest(q) + Slow + Trip
          \/ /\ awaiting[q] /\ echo[q] = Off
             /\ wire[q] # <<>> /\ t > Latest(q) + Slow + Trip
      BY <2>4, <3>1 DEF Comes
    <3>3. \/ wire'[p] # <<>> /\ t - 1 > Latest(p)'
          \/ step'[q] = "write" /\ t - 1 > Jitter - lag'[q] + MaxDelay
          \/ p = Client /\ step'[q] = "start" /\ t - 1 > Jitter - lag'[q] + Jitter + MaxDelay
          \/ ~awaiting'[q] /\ echo'[q] # Off /\ t - 1 > echo'[q] + Trip
          \/ /\ awaiting'[q] /\ echo'[q] # Off /\ t - 1 > echo'[q] + Trip
             /\ step'[p] = "idle" /\ (p = Client => ~mayInitiate')
             /\ wire'[q] # <<>> => t - 1 > Latest(q)' + Slow + Trip
          \/ /\ awaiting'[q] /\ echo'[q] = Off
             /\ wire'[q] # <<>> /\ t - 1 > Latest(q)' + Slow + Trip
      <4>1. /\ lag[q] \in Int /\ (step[q] # "idle" => lag'[q] = lag[q] + 1)
            /\ echo[q] \in Int /\ (echo[q] # Off => echo'[q] = echo[q] - 1) /\ (echo'[q] = Off <=> echo[q] = Off)
        BY <1>4
      <4>2. /\ (wire'[p] = <<>> <=> wire[p] = <<>>) /\ (wire'[q] = <<>> <=> wire[q] = <<>>)
            /\ wire[p] # <<>> => Latest(p) \in Int /\ Latest(p)' = Latest(p) - 1
            /\ wire[q] # <<>> => Latest(q) \in Int /\ Latest(q)' = Latest(q) - 1
        BY <1>5
      <4>3. /\ awaiting'[q] <=> awaiting[q]
            /\ step'[q] = step[q] /\ step'[p] = step[p] /\ (mayInitiate' <=> mayInitiate)
        BY <1>2
      <4>5. ASSUME wire[p] # <<>>, t > Latest(p)
            PROVE  wire'[p] # <<>> /\ t - 1 > Latest(p)'
        BY <4>2, <4>5
      <4>6. ASSUME step[q] = "write", t > Jitter - lag[q] + MaxDelay
            PROVE  step'[q] = "write" /\ t - 1 > Jitter - lag'[q] + MaxDelay
        BY <4>1, <4>3, <4>6
      <4>7. ASSUME step[q] = "start", t > Jitter - lag[q] + Jitter + MaxDelay
            PROVE  step'[q] = "start" /\ t - 1 > Jitter - lag'[q] + Jitter + MaxDelay
        BY <4>1, <4>3, <4>7
      <4>8. ASSUME echo[q] # Off, t > echo[q] + Trip
            PROVE  echo'[q] # Off /\ t - 1 > echo'[q] + Trip
        BY <4>1, <4>8
      <4>9. ASSUME wire[q] # <<>>, t > Latest(q) + Slow + Trip
            PROVE  wire'[q] # <<>> /\ t - 1 > Latest(q)' + Slow + Trip
        BY <4>2, <4>9
      <4>. QED BY <3>2, <4>1, <4>2, <4>3, <4>5, <4>6, <4>7, <4>8, <4>9, Zenon
    <3>. QED BY <3>1, <3>3 DEF Comes
  <2>5. PICK t \in Int : t = watchdog[p]
    BY <1>c
  <2>6. ASSUME t # Off PROVE t - 1 = watchdog'[p]
    BY <2>5, <2>6, <1>4
  <2>7. watchdog'[p] = Off <=> t = Off
    BY <2>5, <1>4
  <2>8. ASSUME t # Off PROVE Rearms(p, t) \/ (awaiting[p] /\ echo[p] = Off /\ Comes(p, t))
    BY <2>1, <2>5, <2>8 DEF Fed
  <2>9. ASSUME t # Off PROVE Rearms(p, t - 1)' \/ (awaiting'[p] /\ echo'[p] = Off /\ Comes(p, t - 1)')
    BY <2>3, <2>4, <2>8, <2>9, <1>2, <1>4
  <2>10. Fed(p)'
    BY <2>6, <2>7, <2>9 DEF Fed
  <2>. QED BY <1>2, <2>1, <2>2, <2>10
<1>. QED BY <1>2, <1>6, <1>7, <1>8, <1>9, <1>10 DEF HeartbeatInv, LiveInv, DeadInv

----------------------------------------------------------------------------
(* What the steps of one end have in common *)

\* A step that leaves an end alone.
Keeps(p) ==
    /\ open'[p] = open[p] /\ (awaiting'[p] <=> awaiting[p]) /\ (received'[p] <=> received[p])
    /\ watchdog'[p] = watchdog[p] /\ echo'[p] = echo[p] /\ echoed'[p] = echoed[p]
    /\ step'[p] = step[p] /\ sending'[p] = sending[p] /\ lag'[p] = lag[p]

\* A step of the other end that leaves an end alone keeps what is said of it
\* alone.
LEMMA EndKept ==
    ASSUME NEW p \in Ends, Keeps(p), silence' = silence
    PROVE  /\ InTime(p) => InTime(p)'
           /\ Alternates(p) => Alternates(p)'
           /\ Deadline(p) => Deadline(p)'
<1>1. InTime(p) => InTime(p)'
  BY DEF InTime, Keeps
<1>2. Alternates(p) => Alternates(p)'
  BY DEF Alternates, Keeps
<1>3. Deadline(p) => Deadline(p)'
  BY DEF Deadline, Keeps
<1>. QED BY <1>1, <1>2, <1>3

\* The invariant, for one end.
LEMMA EndFacts ==
    ASSUME HeartbeatInv, NEW p \in Ends
    PROVE  /\ watchdog[p] \in Int /\ echo[p] \in Int /\ lag[p] \in Int /\ echoed[p] \in Int /\ sending[p] \in Int
           /\ awaiting[p] \in BOOLEAN /\ received[p] \in BOOLEAN /\ open[p] \in BOOLEAN
           /\ wire[p] \in Seq(Beats)
           /\ wire[p] # <<>> => Latest(p) \in Int /\ Latest(p) >= 0 /\ Latest(p) <= MaxDelay
           /\ InTime(p) /\ Alternates(p) /\ (open[p] => Deadline(p))
           /\ ~cut => open[p] /\ SomethingComes(p) /\ Fed(p) /\ silence = 0
<1>. USE Intervals
<1>1. Typing
  BY DEF HeartbeatInv
<1>2. wire[p] \in Seq(Beats)
  BY <1>1 DEF Typing
<1>3. ASSUME wire[p] # <<>> PROVE Latest(p) \in Int /\ Latest(p) >= 0 /\ Latest(p) <= MaxDelay
  <2>1. Len(wire[p]) \in Nat /\ Len(wire[p]) > 0
    BY <1>2, <1>3, EmptySeq
  <2>2. wire[p][1] \in Beats
    BY <1>2, <2>1, ElementOfSeq
  <2>3. wire[p][1].age \in 0..MaxDelay
    BY <2>2 DEF Beats
  <2>. QED BY <2>3 DEF Latest
<1>4. /\ awaiting[p] \in BOOLEAN /\ received[p] \in BOOLEAN /\ open[p] \in BOOLEAN
  BY <1>1 DEF Typing
<1>5. /\ watchdog[p] \in Int /\ echo[p] \in Int /\ lag[p] \in Int /\ echoed[p] \in Int /\ sending[p] \in Int
      /\ ~cut => silence = 0
  BY <1>1 DEF Typing
<1>. QED BY <1>2, <1>3, <1>4, <1>5 DEF HeartbeatInv, LiveInv, DeadInv

\* What an end waits for does not get later when the other end only adds to it.
LEMMA ComesKept ==
    ASSUME NEW p \in Ends, NEW q \in Ends, q = Other(p), NEW t,
           Keeps(q), step'[p] = step[p], mayInitiate' = mayInitiate,
           wire[p] # <<>> => wire'[p] # <<>> /\ Latest(p)' = Latest(p),
           wire'[q] = wire[q],
           Comes(p, t)
    PROVE  Comes(p, t)'
<1>1. wire[q] # <<>> => Latest(q)' = Latest(q)
  BY DEF Latest
<1>. QED BY <1>1 DEF Comes, Keeps

\* The other end cannot keep an end from arming its watchdog again.
LEMMA RearmsKept ==
    ASSUME NEW p \in Ends, NEW t, Keeps(p), Rearms(p, t)
    PROVE  Rearms(p, t)'
BY DEF Rearms, Keeps

----------------------------------------------------------------------------
(* A heartbeat arrives *)

\* A heartbeat arrives: it is accepted, which stops the watchdog and starts the
\* echo, or ignored by an end that waits to send.
LEMMA ReceiveStep ==
    ASSUME HeartbeatInv, NEW e \in Ends, Receive(e)
    PROVE  HeartbeatInv'
<1>. USE Intervals
<1>1. Typing /\ FirstBeat /\ ~cut /\ wire[e] # <<>> /\ open[e]
  BY DEF HeartbeatInv, Receive
<1>2. /\ open' = open /\ step' = step /\ sending' = sending /\ lag' = lag
      /\ cut' = cut /\ mayInitiate' = mayInitiate /\ silence' = silence
      /\ wire' = [wire EXCEPT ![e] = Tail(@)]
  BY DEF Receive, progress
<1>3. PICK o \in Ends : o = Other(e) /\ o # e /\ e = Other(o) /\ \A p \in Ends : p = e \/ p = o
  BY OtherEnd
<1>4. /\ wire[e] \in Seq(Beats) /\ Head(wire[e]) \in Beats /\ Tail(wire[e]) \in Seq(Beats)
  BY <1>1, EndFacts, HeadTailProperties
<1>5. PICK n \in Carried : n = Head(wire[e]).interval
  BY <1>4 DEF Beats
<1>6. n \in Nat /\ n > 0 /\ n <= Slow
  BY CarriedIntervals
<1>7. wire'[o] = wire[o] /\ wire'[e] = Tail(wire[e]) /\ wire' \in [Ends -> Seq(Beats)]
  BY <1>1, <1>2, <1>3, <1>4 DEF Typing
<1>8. CASE awaiting[e]
  <2>1. /\ awaiting' = [awaiting EXCEPT ![e] = FALSE] /\ received' = [received EXCEPT ![e] = TRUE]
        /\ watchdog' = [watchdog EXCEPT ![e] = Off]
        /\ echo' = [echo EXCEPT ![e] = n] /\ echoed' = [echoed EXCEPT ![e] = n]
    BY <1>5, <1>6, <1>8 DEF Receive
  <2>2. /\ ~awaiting'[e] /\ received'[e] /\ watchdog'[e] = Off /\ echo'[e] = n /\ echoed'[e] = n
        /\ Keeps(o) /\ n # Off
    BY <1>1, <1>2, <1>3, <1>6, <2>1 DEF Typing, Keeps
  <2>3. Typing'
    <3>1. /\ open' \in [Ends -> BOOLEAN] /\ awaiting' \in [Ends -> BOOLEAN] /\ received' \in [Ends -> BOOLEAN]
          /\ mayInitiate' \in BOOLEAN /\ cut' \in BOOLEAN
      BY <1>1, <1>2, <2>1 DEF Typing
    <3>2. /\ watchdog' \in [Ends -> Int] /\ echo' \in [Ends -> Int] /\ lag' \in [Ends -> Int]
          /\ echoed' \in [Ends -> Int] /\ sending' \in [Ends -> Int]
      BY <1>1, <1>2, <1>6, <2>1 DEF Typing
    <3>3. /\ step' \in [Ends -> {"start", "write", "arm", "idle"}]
          /\ silence' \in Nat /\ (~cut' => silence' = 0)
      BY <1>1, <1>2 DEF Typing
    <3>. QED BY <1>7, <3>1, <3>2, <3>3 DEF Typing
  <2>4. InTime(e)' /\ Alternates(e)' /\ Deadline(e)'
    <3>1. InTime(e) /\ silence = 0
      BY <1>1, EndFacts
    <3>2. InTime(e)'
      <4>1. /\ lag'[e] >= 0 /\ lag'[e] <= Jitter
            /\ step'[e] \in {"write", "arm"} => sending'[e] \in Carried
        BY <1>2, <3>1 DEF InTime
      <4>2. /\ watchdog'[e] >= Off /\ watchdog'[e] <= 2 * Slow
            /\ echo'[e] >= Off /\ echo'[e] <= Slow /\ echoed'[e] \in Carried
        BY <1>6, <2>2
      <4>. QED BY <4>1, <4>2 DEF InTime
    <3>3. Deadline(e)'
      BY <1>2, <1>6, <2>2, <3>1 DEF Deadline
    <3>. QED BY <2>2, <3>2, <3>3 DEF Alternates
  <2>5. InTime(o)' /\ Alternates(o)' /\ Deadline(o)'
    BY <1>1, <1>2, <2>2, EndFacts, EndKept
  <2>6. FirstBeat'
    BY <1>1, <1>2, <1>3, <1>7, <2>2 DEF FirstBeat, Keeps, Ends
  <2>7. SomethingComes(e)' /\ Fed(e)'
    BY <2>2 DEF SomethingComes, Fed
  <2>8. SomethingComes(o)'
    BY <1>3, <2>2 DEF SomethingComes
  <2>9. Fed(o)'
    <3>1. PICK t \in Int : t = watchdog[o]
      BY EndFacts
    <3>2. t = Off \/ Rearms(o, t) \/ (awaiting[o] /\ echo[o] = Off /\ Comes(o, t))
      BY <1>1, <3>1, EndFacts DEF Fed
    <3>3. ASSUME Rearms(o, t) PROVE Rearms(o, t)'
      BY <2>2, <3>3, RearmsKept
    <3>4. ASSUME Comes(o, t) PROVE Comes(o, t)'
      <4>1. /\ Latest(e) \in Int /\ Latest(e) >= 0
            /\ wire[o] # <<>> => wire'[o] # <<>> /\ Latest(o)' = Latest(o)
        BY <1>1, <1>7, EndFacts DEF Latest
      <4>2. n + Trip <= Latest(e) + Slow + Trip /\ n + Trip \in Int
        BY <1>6, <4>1
      <4>3. \/ wire[o] # <<>> /\ t > Latest(o)
            \/ step[e] = "write" /\ t > Jitter - lag[e] + MaxDelay
            \/ o = Client /\ step[e] = "start" /\ t > Jitter - lag[e] + Jitter + MaxDelay
            \/ t > Latest(e) + Slow + Trip
        BY <1>1, <1>3, <1>8, <3>4 DEF Comes
      <4>4. \/ wire'[o] # <<>> /\ t > Latest(o)'
            \/ step'[e] = "write" /\ t > Jitter - lag'[e] + MaxDelay
            \/ o = Client /\ step'[e] = "start" /\ t > Jitter - lag'[e] + Jitter + MaxDelay
            \/ t > n + Trip
        <5>1. ASSUME t > Latest(e) + Slow + Trip PROVE t > n + Trip
          BY <4>1, <4>2, <5>1
        <5>. QED BY <1>2, <4>1, <4>3, <5>1
      <4>. QED BY <1>3, <2>2, <4>4 DEF Comes
    <3>. QED BY <2>2, <3>1, <3>2, <3>3, <3>4 DEF Fed, Keeps
  <2>. QED BY <1>1, <1>2, <1>3, <2>3, <2>4, <2>5, <2>6, <2>7, <2>8, <2>9, EndFacts
           DEF HeartbeatInv, LiveInv, DeadInv
<1>9. CASE ~awaiting[e]
  <2>1. /\ awaiting' = awaiting /\ received' = received /\ watchdog' = watchdog /\ echo' = echo /\ echoed' = echoed
    BY <1>9 DEF Receive, timers
  <2>2. Keeps(e) /\ Keeps(o) /\ echo[e] # Off /\ ~awaiting'[e] /\ received[e]
    <3>1. Alternates(e) /\ open[e] /\ Keeps(e) /\ Keeps(o)
      BY <1>1, <1>2, <2>1, EndFacts DEF Keeps
    <3>. QED BY <1>9, <3>1 DEF Alternates, Keeps
  <2>3. Typing'
    BY <1>1, <1>2, <1>7, <2>1 DEF Typing
  <2>4. \A p \in Ends : InTime(p)' /\ Alternates(p)' /\ (open'[p] => Deadline(p)')
    BY <1>2, <1>3, <2>2, EndFacts, EndKept DEF Keeps
  <2>5. FirstBeat'
    BY <1>1, <1>2, <1>3, <1>7, <2>1, <2>2 DEF FirstBeat, Ends
  <2>6. SomethingComes(e)' /\ SomethingComes(o)'
    <3>1. SomethingComes(o)
      BY <1>1, EndFacts
    <3>. QED BY <1>2, <1>3, <1>7, <1>9, <2>1, <2>2, <3>1 DEF SomethingComes
  <2>7. Fed(e)'
    <3>1. PICK t \in Int : t = watchdog[e]
      BY EndFacts
    <3>2. t = Off \/ Rearms(e, t)
      BY <1>1, <1>9, <3>1, EndFacts DEF Fed
    <3>3. ASSUME Rearms(e, t) PROVE Rearms(e, t)'
      BY <2>2, <3>3, RearmsKept
    <3>. QED BY <2>1, <3>1, <3>2, <3>3 DEF Fed
  <2>8. Fed(o)'
    <3>1. PICK t \in Int : t = watchdog[o]
      BY EndFacts
    <3>2. t = Off \/ Rearms(o, t) \/ (awaiting[o] /\ echo[o] = Off /\ Comes(o, t))
      BY <1>1, <3>1, EndFacts DEF Fed
    <3>3. ASSUME Rearms(o, t) PROVE Rearms(o, t)'
      BY <2>2, <3>3, RearmsKept
    <3>4. ASSUME Comes(o, t) PROVE Comes(o, t)'
      <4>1. wire[o] # <<>> => wire'[o] # <<>> /\ Latest(o)' = Latest(o)
        BY <1>7 DEF Latest
      <4>. QED BY <1>2, <1>3, <1>9, <2>1, <2>2, <3>4, <4>1 DEF Comes
    <3>. QED BY <2>1, <3>1, <3>2, <3>3, <3>4 DEF Fed
  <2>. QED BY <1>1, <1>2, <1>3, <2>3, <2>4, <2>5, <2>6, <2>7, <2>8, EndFacts
           DEF HeartbeatInv, LiveInv, DeadInv
<1>. QED BY <1>1, <1>8, <1>9

----------------------------------------------------------------------------
(* Timers and the cut *)

\* While the connection works no watchdog is due.
LEMMA FedNotDue ==
    ASSUME HeartbeatInv, NEW e \in Ends, ~cut
    PROVE  ~Due(watchdog[e])
<1>. USE Intervals
<1>1. PICK t \in Int : t = watchdog[e]
  BY EndFacts
<1>2. SUFFICES ASSUME t # Off, t <= 0 PROVE FALSE
  BY <1>1 DEF Due
<1>3. PICK o \in Ends : o = Other(e)
  BY OtherEnd
<1>4. /\ lag[e] \in Int /\ lag[e] <= Jitter /\ lag[o] \in Int /\ lag[o] <= Jitter
      /\ echo[e] \in Int /\ echo[e] >= Off /\ echo[o] \in Int /\ echo[o] >= Off
  BY EndFacts DEF InTime
<1>5. Rearms(e, t) \/ Comes(e, t)
  BY <1>1, <1>2, EndFacts DEF Fed
<1>6. CASE Rearms(e, t)
  BY <1>2, <1>4, <1>6 DEF Rearms
<1>7. CASE Comes(e, t)
  <2>1. /\ wire[e] # <<>> => Latest(e) \in Int /\ Latest(e) >= 0
        /\ wire[o] # <<>> => Latest(o) \in Int /\ Latest(o) >= 0
    BY EndFacts
  <2>2. \/ wire[e] # <<>> /\ t > Latest(e)
        \/ t > Jitter - lag[o] + MaxDelay
        \/ t > Jitter - lag[o] + Jitter + MaxDelay
        \/ echo[o] # Off /\ t > echo[o] + Trip
        \/ wire[o] # <<>> /\ t > Latest(o) + Slow + Trip
    BY <1>3, <1>7 DEF Comes
  <2>. QED BY <1>2, <1>4, <2>1, <2>2
<1>. QED BY <1>5, <1>6, <1>7

\* No watchdog fires on a working connection; on a dead one it closes its end.
LEMMA WatchdogStep ==
    ASSUME HeartbeatInv, NEW e \in Ends, WatchdogFires(e)
    PROVE  HeartbeatInv'
<1>. USE Intervals
<1>1. Typing /\ FirstBeat /\ cut
  BY FedNotDue DEF HeartbeatInv, WatchdogFires, Typing
<1>2. /\ awaiting' = awaiting /\ received' = received /\ step' = step /\ sending' = sending /\ lag' = lag
      /\ echo' = echo /\ echoed' = echoed
      /\ cut' = cut /\ mayInitiate' = mayInitiate /\ silence' = silence /\ wire' = wire
      /\ watchdog' = [watchdog EXCEPT ![e] = Off] /\ open' = [open EXCEPT ![e] = FALSE]
  BY DEF WatchdogFires, progress
<1>3. Typing'
  <2>1. watchdog' \in [Ends -> Int]
    BY <1>1, <1>2 DEF Typing
  <2>2. open' \in [Ends -> BOOLEAN]
    BY <1>1, <1>2 DEF Typing
  <2>. QED BY <1>1, <1>2, <2>1, <2>2 DEF Typing
<1>4. ASSUME NEW p \in Ends PROVE InTime(p)' /\ Alternates(p)' /\ (open'[p] => Deadline(p)')
  <2>1. open \in [Ends -> BOOLEAN] /\ watchdog \in [Ends -> Int]
    BY <1>1 DEF Typing
  <2>2. CASE p = e
    <3>1. watchdog'[p] = Off /\ ~open'[p]
      BY <1>2, <2>1, <2>2
    <3>. QED BY <1>2, <3>1, EndFacts DEF InTime, Alternates
  <2>3. CASE p # e
    <3>1. Keeps(p)
      BY <1>2, <2>1, <2>3 DEF Keeps
    <3>. QED BY <1>2, <3>1, EndFacts, EndKept DEF Keeps
  <2>. QED BY <2>2, <2>3
<1>5. FirstBeat'
  <2>1. open'[Client] => open[Client]
    BY <1>1, <1>2 DEF Ends, Typing
  <2>. QED BY <1>1, <1>2, <2>1 DEF FirstBeat
<1>. QED BY <1>1, <1>2, <1>3, <1>4, <1>5 DEF HeartbeatInv, LiveInv, DeadInv

\* A closed end needs no timers.
LEMMA CancelStep ==
    ASSUME HeartbeatInv, NEW e \in Ends, CancelTimers(e)
    PROVE  HeartbeatInv'
<1>. USE Intervals
<1>1. Typing /\ FirstBeat /\ cut /\ ~open[e]
  BY EndFacts DEF HeartbeatInv, CancelTimers, Typing
<1>2. /\ awaiting' = awaiting /\ received' = received /\ step' = step /\ sending' = sending /\ lag' = lag
      /\ cut' = cut /\ mayInitiate' = mayInitiate /\ silence' = silence /\ wire' = wire /\ open' = open
      /\ watchdog' = [watchdog EXCEPT ![e] = Off]
      /\ echo' = [echo EXCEPT ![e] = Off] /\ echoed' = [echoed EXCEPT ![e] = 0]
  BY DEF CancelTimers, progress
<1>3. /\ watchdog \in [Ends -> Int] /\ echo \in [Ends -> Int] /\ echoed \in [Ends -> Int]
  BY <1>1 DEF Typing
<1>4. Typing'
  <2>1. /\ watchdog' \in [Ends -> Int] /\ echo' \in [Ends -> Int] /\ echoed' \in [Ends -> Int]
    BY <1>2, <1>3
  <2>. QED BY <1>1, <1>2, <2>1 DEF Typing
<1>5. watchdog'[e] = Off /\ echo'[e] = Off
  BY <1>2, <1>3
<1>6. ASSUME NEW p \in Ends PROVE InTime(p)' /\ Alternates(p)' /\ (open'[p] => Deadline(p)')
  <2>1. CASE p = e
    BY <1>1, <1>2, <1>5, <2>1, EndFacts DEF InTime, Alternates
  <2>2. CASE p # e
    <3>1. Keeps(p)
      BY <1>2, <1>3, <2>2 DEF Keeps
    <3>. QED BY <1>2, <3>1, EndFacts, EndKept DEF Keeps
  <2>. QED BY <2>1, <2>2
<1>7. FirstBeat'
  <2>1. /\ open[Client] => echo'[Client] = echo[Client]
        /\ echo[Server] = Off => echo'[Server] = Off
    BY <1>1, <1>2, <1>3 DEF Ends
  <2>. QED BY <1>1, <1>2, <2>1 DEF FirstBeat
<1>. QED BY <1>1, <1>2, <1>4, <1>6, <1>7 DEF HeartbeatInv, LiveInv, DeadInv

\* When the connection breaks, no end is past its deadline.
LEMMA CutStep ==
    ASSUME HeartbeatInv, Cut
    PROVE  HeartbeatInv'
<1>1. Typing /\ FirstBeat
  BY DEF HeartbeatInv
<1>2. /\ open' = open /\ awaiting' = awaiting /\ received' = received /\ step' = step /\ sending' = sending
      /\ lag' = lag /\ watchdog' = watchdog /\ echo' = echo /\ echoed' = echoed
      /\ mayInitiate' = mayInitiate /\ silence' = silence
      /\ cut' = TRUE /\ wire' = [p \in Ends |-> <<>>]
  BY DEF Cut, timers, progress
<1>3. Typing'
  <2>1. wire' \in [Ends -> Seq(Beats)]
    BY <1>2
  <2>. QED BY <1>1, <1>2, <2>1 DEF Typing
<1>4. ASSUME NEW p \in Ends PROVE InTime(p)' /\ Alternates(p)' /\ (open'[p] => Deadline(p)')
  <2>1. Keeps(p)
    BY <1>2 DEF Keeps
  <2>. QED BY <1>2, <2>1, EndFacts, EndKept DEF Keeps
<1>5. FirstBeat'
  <2>1. wire'[Server] = <<>> /\ wire'[Client] = <<>>
    BY <1>2 DEF Ends
  <2>. QED BY <1>1, <1>2, <2>1 DEF FirstBeat
<1>. QED BY <1>2, <1>3, <1>4, <1>5 DEF HeartbeatInv, LiveInv, DeadInv

----------------------------------------------------------------------------
(* The watchdog is armed *)

\* Arming a watchdog, after the write and so perhaps after the answer.
LEMMA ArmStep ==
    ASSUME HeartbeatInv, NEW e \in Ends, Arm(e)
    PROVE  HeartbeatInv'
<1>. USE Intervals
<1>1. Typing /\ FirstBeat /\ step[e] = "arm"
  BY DEF HeartbeatInv, Arm
<1>2. /\ open' = open /\ awaiting' = awaiting /\ received' = received /\ echo' = echo /\ echoed' = echoed
      /\ cut' = cut /\ mayInitiate' = mayInitiate /\ silence' = silence /\ wire' = wire
      /\ watchdog' = [watchdog EXCEPT ![e] = 2 * sending[e]]
      /\ step' = [step EXCEPT ![e] = "idle"] /\ sending' = [sending EXCEPT ![e] = 0] /\ lag' = [lag EXCEPT ![e] = 0]
  BY DEF Arm, Goto
<1>3. PICK o \in Ends : o = Other(e) /\ o # e /\ e = Other(o) /\ \A p \in Ends : p = e \/ p = o
  BY OtherEnd
<1>4. PICK n \in Carried : n = sending[e]
  BY <1>1, EndFacts DEF InTime
<1>5. /\ n \in Nat /\ n > 0 /\ n <= Slow
      /\ Slow + 2 * MaxDelay + 2 * Jitter < 2 * n /\ Slow + 3 * Jitter < 2 * n
  BY CarriedIntervals
<1>6. PICK t \in Int : t = 2 * n
  BY <1>5
<1>7. /\ watchdog'[e] = t /\ step'[e] = "idle" /\ lag'[e] = 0 /\ sending'[e] = 0 /\ Keeps(o)
  BY <1>1, <1>2, <1>3, <1>4, <1>6 DEF Typing, Keeps
<1>8. Typing'
  <2>1. /\ watchdog' \in [Ends -> Int] /\ lag' \in [Ends -> Int] /\ sending' \in [Ends -> Int]
    <3>1. watchdog' = [watchdog EXCEPT ![e] = t]
      BY <1>2, <1>4, <1>6
    <3>2. watchdog \in [Ends -> Int] /\ lag \in [Ends -> Int] /\ sending \in [Ends -> Int]
      BY <1>1 DEF Typing
    <3>. QED BY <1>2, <1>6, <3>1, <3>2
  <2>2. step' \in [Ends -> {"start", "write", "arm", "idle"}]
    BY <1>1, <1>2 DEF Typing
  <2>. QED BY <1>1, <1>2, <2>1, <2>2 DEF Typing
<1>9. InTime(e)' /\ Alternates(e)' /\ (open'[e] => Deadline(e)')
  <2>1. InTime(e)'
    <3>1. t >= Off /\ t <= 2 * Slow
      BY <1>5, <1>6
    <3>. QED BY <1>2, <1>7, <3>1, EndFacts DEF InTime
  <2>2. Alternates(e)'
    BY <1>2, EndFacts DEF Alternates
  <2>3. ASSUME open[e] PROVE Deadline(e)'
    <3>1. /\ Deadline(e) /\ lag[e] \in Int /\ lag[e] <= Jitter /\ silence \in Nat
      BY <1>1, <2>3, EndFacts DEF InTime, Typing
    <3>2. CASE echo[e] # Off
      BY <1>1, <1>2, <3>1, <3>2 DEF Deadline
    <3>3. CASE echo[e] = Off
      <4>1. silence + t + 2 * Jitter - lag[e] <= DetectionBound
        BY <1>1, <1>4, <1>6, <3>1, <3>3 DEF Deadline
      <4>2. silence + t + Jitter <= DetectionBound /\ t # Off
        BY <1>5, <1>6, <3>1, <4>1
      <4>. QED BY <1>2, <1>7, <3>3, <4>2 DEF Deadline
    <3>. QED BY <3>2, <3>3
  <2>. QED BY <1>2, <2>1, <2>2, <2>3
<1>10. InTime(o)' /\ Alternates(o)' /\ (open'[o] => Deadline(o)')
  BY <1>2, <1>7, EndFacts, EndKept
<1>11. FirstBeat'
  BY <1>1, <1>2, <1>3, <1>7 DEF FirstBeat, Ends, Keeps
<1>12. ASSUME ~cut PROVE SomethingComes(e)' /\ SomethingComes(o)'
  <2>1. SomethingComes(e) /\ SomethingComes(o)
    BY <1>12, EndFacts
  <2>2. SomethingComes(e)'
    BY <1>1, <1>2, <1>3, <1>7, <2>1 DEF SomethingComes, Keeps
  <2>3. SomethingComes(o)'
    BY <1>1, <1>2, <1>3, <1>7, <2>1 DEF SomethingComes, Keeps
  <2>. QED BY <2>2, <2>3
<1>13. ASSUME ~cut PROVE Fed(e)'
  <2>1. CASE echo[e] # Off
    <3>1. echo[e] \in Int /\ echo[e] <= Slow
      BY EndFacts DEF InTime
    <3>2. t > echo[e] + 3 * Jitter
      BY <1>5, <1>6, <3>1
    <3>. QED BY <1>2, <1>7, <2>1, <3>2 DEF Fed, Rearms
  <2>2. CASE echo[e] = Off
    <3>1. awaiting[e]
      BY <1>13, <2>2, EndFacts DEF Alternates
    <3>2. /\ awaiting[o] => echo[o] = Off \/ (e = Client => ~mayInitiate)
          /\ ~awaiting[o] => echo[o] # Off
      BY <1>1, <1>3, <1>13, EndFacts DEF FirstBeat, Alternates, Ends
    <3>3. /\ wire[e] # <<>> => t > Latest(e)
          /\ wire[o] # <<>> => t > Latest(o) + Slow + Trip
          /\ t > echo[o] + Trip
          /\ t > Jitter - lag[o] + MaxDelay
          /\ t > Jitter - lag[o] + Jitter + MaxDelay
      <4>1. /\ wire[e] # <<>> => Latest(e) \in Int /\ Latest(e) <= MaxDelay
            /\ wire[o] # <<>> => Latest(o) \in Int /\ Latest(o) <= MaxDelay
            /\ echo[o] \in Int /\ echo[o] <= Slow /\ lag[o] \in Int /\ lag[o] >= 0
        BY EndFacts DEF InTime
      <4>2. t > Slow + 2 * MaxDelay + 2 * Jitter
        BY <1>5, <1>6
      <4>. QED BY <4>1, <4>2
    <3>4. wire[e] # <<>> \/ wire[o] # <<>> \/ echo[o] # Off \/ step[o] = "write" \/ (e = Client /\ step[o] = "start")
      BY <1>1, <1>3, <1>13, <2>2, <3>1, EndFacts DEF SomethingComes
    <3>5. Comes(e, t)'
      <4>1. /\ step'[o] = step[o] /\ lag'[o] = lag[o] /\ echo'[o] = echo[o]
        BY <1>7 DEF Keeps
      <4>2. /\ wire[e] # <<>> => t > Latest(e)'
            /\ wire[o] # <<>> => t > Latest(o)' + Slow + Trip
        BY <1>2, <3>3 DEF Latest
      <4>. QED BY <1>2, <1>3, <1>7, <3>2, <3>3, <3>4, <4>1, <4>2 DEF Comes
    <3>. QED BY <1>2, <1>7, <2>2, <3>1, <3>5 DEF Fed
  <2>. QED BY <2>1, <2>2
<1>14. ASSUME ~cut PROVE Fed(o)'
  <2>1. PICK u \in Int : u = watchdog[o]
    BY EndFacts
  <2>2. u = Off \/ Rearms(o, u) \/ (awaiting[o] /\ echo[o] = Off /\ Comes(o, u))
    BY <1>14, <2>1, EndFacts DEF Fed
  <2>3. ASSUME Rearms(o, u) PROVE Rearms(o, u)'
    BY <1>7, <2>3, RearmsKept
  <2>4. ASSUME Comes(o, u) PROVE Comes(o, u)'
    <3>1. Latest(e)' = Latest(e) /\ Latest(o)' = Latest(o)
      BY <1>2 DEF Latest
    <3>. QED BY <1>1, <1>2, <1>3, <1>7, <2>4, <3>1 DEF Comes, Keeps
  <2>. QED BY <1>2, <1>7, <2>1, <2>2, <2>3, <2>4 DEF Fed, Keeps
<1>15. ~cut => open'[e] /\ open'[o]
  BY <1>2, EndFacts
<1>. QED BY <1>2, <1>3, <1>8, <1>9, <1>10, <1>11, <1>12, <1>13, <1>14, <1>15
         DEF HeartbeatInv, LiveInv, DeadInv

----------------------------------------------------------------------------
(* The client expects a heartbeat *)

\* The client arms the initial timeout, unless the heartbeat came first.
LEMMA ExpectStep ==
    ASSUME HeartbeatInv, NEW e \in Ends, Expect(e)
    PROVE  HeartbeatInv'
<1>. USE Intervals
<1>1. Typing /\ FirstBeat /\ step[e] = "start" /\ e = Client
  BY DEF HeartbeatInv, Expect
<1>2. /\ open' = open /\ awaiting' = awaiting /\ received' = received /\ echo' = echo /\ echoed' = echoed
      /\ cut' = cut /\ mayInitiate' = mayInitiate /\ silence' = silence /\ wire' = wire
      /\ watchdog' = IF open[e] /\ ~received[e] THEN [watchdog EXCEPT ![e] = ExpectTimeout] ELSE watchdog
      /\ step' = [step EXCEPT ![e] = "idle"] /\ sending' = [sending EXCEPT ![e] = 0] /\ lag' = [lag EXCEPT ![e] = 0]
  BY DEF Expect, Goto
<1>3. PICK o \in Ends : o = Other(e) /\ o # e /\ e = Other(o) /\ \A p \in Ends : p = e \/ p = o
  BY OtherEnd
<1>4. o = Server
  BY <1>1, <1>3 DEF Ends
<1>5. /\ step'[e] = "idle" /\ lag'[e] = 0 /\ sending'[e] = 0 /\ Keeps(o)
      /\ open[e] /\ ~received[e] => watchdog'[e] = ExpectTimeout
      /\ ~(open[e] /\ ~received[e]) => watchdog'[e] = watchdog[e]
  <2>1. /\ watchdog \in [Ends -> Int] /\ step \in [Ends -> {"start", "write", "arm", "idle"}]
        /\ lag \in [Ends -> Int] /\ sending \in [Ends -> Int]
    BY <1>1 DEF Typing
  <2>2. watchdog'[o] = watchdog[o]
    BY <1>2, <1>3, <2>1
  <2>3. step'[o] = step[o] /\ lag'[o] = lag[o] /\ sending'[o] = sending[o]
    BY <1>2, <1>3, <2>1
  <2>. QED BY <1>2, <2>1, <2>2, <2>3 DEF Keeps
<1>6. Typing'
  <2>1. /\ lag' \in [Ends -> Int] /\ sending' \in [Ends -> Int]
    BY <1>1, <1>2 DEF Typing
  <2>2. step' \in [Ends -> {"start", "write", "arm", "idle"}]
    BY <1>1, <1>2 DEF Typing
  <2>3. watchdog' \in [Ends -> Int]
    BY <1>1, <1>2 DEF Typing
  <2>. QED BY <1>1, <1>2, <2>1, <2>2, <2>3 DEF Typing
<1>7. InTime(e)' /\ Alternates(e)' /\ (open'[e] => Deadline(e)')
  <2>1. InTime(e)'
    <3>1. ExpectTimeout >= Off
      OBVIOUS
    <3>. QED BY <1>2, <1>5, <3>1, EndFacts DEF InTime
  <2>2. Alternates(e)'
    BY <1>2, EndFacts DEF Alternates
  <2>3. ASSUME open[e] PROVE Deadline(e)'
    <3>1. /\ Deadline(e) /\ lag[e] \in Int /\ lag[e] <= Jitter /\ silence \in Nat
      BY <1>1, <2>3, EndFacts DEF InTime, Typing
    <3>2. CASE echo[e] # Off
      BY <1>1, <1>2, <3>1, <3>2 DEF Deadline
    <3>3. CASE echo[e] = Off
      <4>1. silence + ExpectTimeout + 2 * Jitter - lag[e] <= DetectionBound
        BY <1>1, <3>1, <3>3 DEF Deadline
      <4>2. silence + ExpectTimeout + Jitter <= DetectionBound /\ ExpectTimeout # Off
        BY <3>1, <4>1
      <4>3. ~received[e]
        BY <1>1, <2>3, <3>3 DEF FirstBeat
      <4>. QED BY <1>2, <1>5, <2>3, <3>3, <4>2, <4>3 DEF Deadline
    <3>. QED BY <3>2, <3>3
  <2>. QED BY <1>2, <2>1, <2>2, <2>3
<1>8. InTime(o)' /\ Alternates(o)' /\ (open'[o] => Deadline(o)')
  BY <1>2, <1>5, EndFacts, EndKept
<1>9. FirstBeat'
  BY <1>1, <1>2, <1>4, <1>5 DEF FirstBeat, Ends, Keeps
<1>10. ASSUME ~cut PROVE SomethingComes(e)' /\ SomethingComes(o)'
  <2>1. SomethingComes(e) /\ SomethingComes(o)
    BY <1>10, EndFacts
  <2>2. SomethingComes(e)'
    BY <1>1, <1>2, <1>3, <1>4, <1>5, <2>1 DEF SomethingComes, Keeps
  <2>3. SomethingComes(o)'
    BY <1>1, <1>2, <1>3, <1>4, <1>5, <2>1 DEF SomethingComes, Keeps
  <2>. QED BY <2>2, <2>3
<1>11. Latest(e)' = Latest(e) /\ Latest(o)' = Latest(o)
  BY <1>2 DEF Latest
<1>12. ASSUME ~cut PROVE Fed(e)'
  <2>1. open[e]
    BY <1>12, EndFacts
  <2>2. CASE received[e]
    <3>1. PICK t \in Int : t = watchdog[e]
      BY EndFacts
    <3>2. t = Off \/ Rearms(e, t) \/ (awaiting[e] /\ echo[e] = Off /\ Comes(e, t))
      BY <1>12, <3>1, EndFacts DEF Fed
    <3>3. ASSUME Rearms(e, t) PROVE Rearms(e, t)'
      BY <1>1, <1>2, <1>5, <3>3 DEF Rearms
    <3>4. ASSUME Comes(e, t) PROVE Comes(e, t)'
      BY <1>1, <1>2, <1>3, <1>5, <1>11, <3>4 DEF Comes, Keeps
    <3>. QED BY <1>2, <1>5, <2>2, <3>1, <3>2, <3>3, <3>4 DEF Fed
  <2>3. CASE ~received[e]
    <3>1. PICK t \in Int : t = ExpectTimeout
      OBVIOUS
    <3>2. awaiting[e] /\ echo[e] = Off
      BY <2>3, EndFacts DEF Alternates
    <3>3. step[o] \in {"start", "write"} \/ wire[e] # <<>>
      BY <1>1, <1>4, <1>12, <2>3 DEF FirstBeat
    <3>4. /\ wire[e] # <<>> => t > Latest(e)
          /\ t > Jitter - lag[o] + MaxDelay
          /\ t > Jitter - lag[o] + Jitter + MaxDelay
      <4>1. /\ wire[e] # <<>> => Latest(e) \in Int /\ Latest(e) <= MaxDelay
            /\ lag[o] \in Int /\ lag[o] >= 0
        BY EndFacts DEF InTime
      <4>2. t > MaxDelay + 2 * Jitter
        BY <3>1
      <4>3. wire[e] # <<>> => t > Latest(e)
        BY <4>1, <4>2
      <4>4. t > Jitter - lag[o] + MaxDelay /\ t > Jitter - lag[o] + Jitter + MaxDelay
        BY <4>1, <4>2
      <4>. QED BY <4>3, <4>4
    <3>5. Comes(e, t)'
      <4>1. /\ step'[o] = step[o] /\ lag'[o] = lag[o]
        BY <1>5 DEF Keeps
      <4>. QED BY <1>1, <1>2, <1>3, <1>11, <3>3, <3>4, <4>1 DEF Comes
    <3>. QED BY <1>2, <1>5, <2>1, <2>3, <3>1, <3>2, <3>5 DEF Fed
  <2>. QED BY <2>2, <2>3
<1>13. ASSUME ~cut PROVE Fed(o)'
  <2>1. PICK u \in Int : u = watchdog[o]
    BY EndFacts
  <2>2. u = Off \/ Rearms(o, u) \/ (awaiting[o] /\ echo[o] = Off /\ Comes(o, u))
    BY <1>13, <2>1, EndFacts DEF Fed
  <2>3. ASSUME Rearms(o, u) PROVE Rearms(o, u)'
    BY <1>5, <2>3, RearmsKept
  <2>4. ASSUME Comes(o, u) PROVE Comes(o, u)'
    <3>1. o # Client
      BY <1>1, <1>3
    <3>. QED BY <1>1, <1>2, <1>3, <1>5, <1>11, <2>4, <3>1 DEF Comes, Keeps
  <2>. QED BY <1>2, <1>5, <2>1, <2>2, <2>3, <2>4 DEF Fed, Keeps
<1>14. ~cut => open'[e] /\ open'[o]
  BY <1>2, EndFacts
<1>. QED BY <1>2, <1>3, <1>6, <1>7, <1>8, <1>9, <1>10, <1>12, <1>13, <1>14
         DEF HeartbeatInv, LiveInv, DeadInv

----------------------------------------------------------------------------
(* A heartbeat is written *)

\* A heartbeat is put on the wire and will arrive in time.
LEMMA WriteStep ==
    ASSUME HeartbeatInv, NEW e \in Ends, Write(e)
    PROVE  HeartbeatInv'
<1>. USE Intervals
<1>1. Typing /\ FirstBeat /\ step[e] = "write"
  BY DEF HeartbeatInv, Write
<1>2. /\ open' = open /\ awaiting' = awaiting /\ received' = received
      /\ watchdog' = watchdog /\ echo' = echo /\ echoed' = echoed
      /\ cut' = cut /\ mayInitiate' = mayInitiate /\ silence' = silence
      /\ step' = [step EXCEPT ![e] = "arm"] /\ sending' = [sending EXCEPT ![e] = sending[e]]
      /\ lag' = [lag EXCEPT ![e] = 0]
  BY DEF Write, Goto, timers
<1>3. PICK o \in Ends : o = Other(e) /\ o # e /\ e = Other(o) /\ \A p \in Ends : p = e \/ p = o
  BY OtherEnd
<1>4. PICK n \in Carried : n = sending[e]
  BY <1>1, EndFacts DEF InTime
<1>5. PICK beat \in Beats : beat = [interval |-> n, age |-> 0]
  <2>1. 0 \in 0..MaxDelay
    OBVIOUS
  <2>. QED BY <2>1 DEF Beats
<1>6. wire' = IF cut THEN wire ELSE [wire EXCEPT ![o] = Append(@, beat)]
  BY <1>3, <1>4, <1>5 DEF Write
<1>7. /\ wire'[e] = wire[e]
      /\ ~cut => wire'[o] = Append(wire[o], beat)
      /\ cut => wire' = wire
      /\ wire' \in [Ends -> Seq(Beats)]
  <2>1. wire \in [Ends -> Seq(Beats)]
    BY <1>1 DEF Typing
  <2>2. CASE cut
    BY <1>3, <1>6, <2>1, <2>2
  <2>3. CASE ~cut
    <3>1. wire' = [wire EXCEPT ![o] = Append(wire[o], beat)]
      BY <1>6, <2>3
    <3>2. Append(wire[o], beat) \in Seq(Beats)
      BY <2>1, AppendProperties
    <3>. QED BY <1>3, <2>1, <2>3, <3>1, <3>2
  <2>. QED BY <2>2, <2>3
<1>8. /\ step'[e] = "arm" /\ lag'[e] = 0 /\ sending'[e] = n /\ Keeps(o)
  BY <1>1, <1>2, <1>3, <1>4 DEF Typing, Keeps
<1>9. Typing'
  <2>1. /\ lag' \in [Ends -> Int] /\ sending' \in [Ends -> Int]
    BY <1>1, <1>2 DEF Typing
  <2>2. step' \in [Ends -> {"start", "write", "arm", "idle"}]
    BY <1>1, <1>2 DEF Typing
  <2>. QED BY <1>1, <1>2, <1>7, <2>1, <2>2 DEF Typing
<1>10. InTime(e)' /\ Alternates(e)' /\ (open'[e] => Deadline(e)')
  <2>1. InTime(e)' /\ Alternates(e)'
    <3>1. InTime(e) /\ Alternates(e)
      BY EndFacts
    <3>2. InTime(e)'
      BY <1>2, <1>8, <3>1 DEF InTime
    <3>. QED BY <1>2, <3>1, <3>2 DEF Alternates
  <2>2. ASSUME open[e] PROVE Deadline(e)'
    <3>1. /\ Deadline(e) /\ lag[e] \in Int /\ lag[e] <= Jitter /\ silence \in Nat /\ n \in Nat
      BY <1>1, <2>2, EndFacts, CarriedIntervals DEF InTime, Typing
    <3>2. CASE echo[e] # Off
      BY <1>1, <1>2, <3>1, <3>2 DEF Deadline
    <3>3. CASE echo[e] = Off
      <4>1. silence + 2 * n + 3 * Jitter - lag[e] <= DetectionBound
        BY <1>1, <1>4, <3>1, <3>3 DEF Deadline
      <4>2. silence + 2 * n + 2 * Jitter - 0 <= DetectionBound
        BY <3>1, <4>1
      <4>. QED BY <1>2, <1>8, <3>3, <4>2 DEF Deadline
    <3>. QED BY <3>2, <3>3
  <2>. QED BY <1>2, <2>1, <2>2
<1>11. InTime(o)' /\ Alternates(o)' /\ (open'[o] => Deadline(o)')
  BY <1>2, <1>8, EndFacts, EndKept
<1>12. ASSUME ~cut
       PROVE  /\ wire'[o] # <<>>
              /\ Latest(e)' = Latest(e)
              /\ wire[o] # <<>> => Latest(o)' = Latest(o)
              /\ wire[o] = <<>> => Latest(o)' = MaxDelay
  <2>1. wire[o] \in Seq(Beats) /\ wire'[o] = Append(wire[o], beat) /\ beat.age = 0
    BY <1>5, <1>7, <1>12, EndFacts
  <2>2. PICK m \in Nat : m = Len(wire[o])
    BY <2>1
  <2>3. /\ Len(wire'[o]) = m + 1
        /\ \A i \in 1..m : wire'[o][i] = wire[o][i]
        /\ wire'[o][m + 1] = beat
    BY <2>1, <2>2, AppendProperties
  <2>4. wire'[o] # <<>>
    BY <2>2, <2>3
  <2>5. wire[o] # <<>> => m > 0
    BY <2>1, <2>2, EmptySeq
  <2>6. wire[o] = <<>> => m = 0
    BY <2>2
  <2>7. wire[o] # <<>> => wire'[o][1] = wire[o][1]
    BY <2>2, <2>3, <2>5
  <2>8. wire[o] = <<>> => wire'[o][1].age = 0
    BY <2>1, <2>3, <2>6
  <2>9. Latest(e)' = Latest(e)
    BY <1>7 DEF Latest
  <2>10. wire[o] # <<>> => Latest(o)' = Latest(o)
    BY <2>7 DEF Latest
  <2>11. wire[o] = <<>> => Latest(o)' = MaxDelay
    <3>1. MaxDelay - 0 = MaxDelay
      OBVIOUS
    <3>. QED BY <2>8, <3>1 DEF Latest
  <2>. QED BY <2>4, <2>9, <2>10, <2>11
<1>13. FirstBeat'
  <2>1. ~cut /\ e = Server => wire'[Client] # <<>>
    BY <1>3, <1>12 DEF Ends
  <2>2. /\ cut \/ e = Client => wire'[Client] = wire[Client]
        /\ cut \/ e = Server => wire'[Server] = wire[Server]
    BY <1>7
  <2>3. e = Server \/ (e = Client /\ o = Server)
    BY <1>3 DEF Ends
  <2>4. \A p \in Ends : p # e => step'[p] = step[p]
    BY <1>3, <1>8 DEF Keeps
  <2>5. /\ mayInitiate => AlsoInitiates
        /\ step'[Server] = "start" =>
              /\ wire'[Client] = <<>> /\ ~received[Client]
              /\ step'[Client] = "start" => mayInitiate = AlsoInitiates
              /\ mayInitiate => wire'[Server] = <<>> /\ echo[Server] = Off /\ step'[Client] \in {"start", "idle"}
    BY <1>1, <1>3, <1>8, <2>2, <2>3, <2>4 DEF FirstBeat, Ends
  <2>6. /\ open[Client] /\ step'[Client] = "start" /\ received[Client] => echo[Client] # Off
        /\ ~cut /\ ~received[Client] => step'[Server] \in {"start", "write"} \/ wire'[Client] # <<>>
        /\ mayInitiate => ~awaiting[Server] \/ echo[Server] = Off
    BY <1>1, <1>3, <1>8, <2>1, <2>2, <2>3, <2>4 DEF FirstBeat, Ends
  <2>. QED BY <1>2, <2>5, <2>6 DEF FirstBeat
<1>14. ASSUME ~cut PROVE SomethingComes(e)' /\ SomethingComes(o)'
  <2>1. SomethingComes(e)' /\ SomethingComes(o)'
    BY <1>3, <1>12, <1>14 DEF SomethingComes
  <2>. QED BY <2>1
<1>15. ASSUME ~cut PROVE Fed(e)'
  <2>1. PICK t \in Int : t = watchdog[e]
    BY EndFacts
  <2>2. t = Off \/ Rearms(e, t) \/ (awaiting[e] /\ echo[e] = Off /\ Comes(e, t))
    BY <1>15, <2>1, EndFacts DEF Fed
  <2>3. ASSUME Rearms(e, t) PROVE Rearms(e, t)'
    <3>1. t > Jitter - lag[e] + Jitter /\ lag[e] \in Int /\ lag[e] <= Jitter
      BY <1>1, <2>3, EndFacts DEF Rearms, InTime
    <3>2. t > Jitter - 0
      BY <3>1
    <3>. QED BY <1>8, <3>2 DEF Rearms
  <2>4. ASSUME Comes(e, t) PROVE Comes(e, t)'
    BY <1>1, <1>2, <1>3, <1>7, <1>8, <1>12, <1>15, <2>4 DEF Comes, Keeps
  <2>. QED BY <1>2, <2>1, <2>2, <2>3, <2>4 DEF Fed
<1>16. ASSUME ~cut PROVE Fed(o)'
  <2>1. PICK u \in Int : u = watchdog[o]
    BY EndFacts
  <2>2. u = Off \/ Rearms(o, u) \/ (awaiting[o] /\ echo[o] = Off /\ Comes(o, u))
    BY <1>16, <2>1, EndFacts DEF Fed
  <2>3. ASSUME Rearms(o, u) PROVE Rearms(o, u)'
    BY <1>8, <2>3, RearmsKept
  <2>4. ASSUME Comes(o, u) PROVE Comes(o, u)'
    <3>1. ASSUME u > Jitter - lag[e] + MaxDelay PROVE u > Latest(o)'
      <4>1. u > MaxDelay
        <5>1. lag[e] \in Int /\ lag[e] <= Jitter
          BY EndFacts DEF InTime
        <5>. QED BY <3>1, <5>1
      <4>2. wire[o] # <<>> => Latest(o) \in Int /\ Latest(o) <= MaxDelay
        BY EndFacts
      <4>. QED BY <1>12, <1>16, <4>1, <4>2
    <3>2. CASE wire[o] # <<>> /\ u > Latest(o)
      BY <1>12, <1>16, <3>2 DEF Comes
    <3>3. CASE step[e] = "write" /\ u > Jitter - lag[e] + MaxDelay
      BY <1>12, <1>16, <3>1, <3>3 DEF Comes
    <3>4. CASE ~awaiting[e] /\ echo[e] # Off /\ u > echo[e] + Trip
      BY <1>2, <1>3, <3>4 DEF Comes
    <3>5. CASE /\ awaiting[e] /\ echo[e] # Off /\ u > echo[e] + Trip
               /\ step[o] = "idle" /\ (o = Client => ~mayInitiate)
               /\ wire[e] # <<>> => u > Latest(e) + Slow + Trip
      BY <1>2, <1>3, <1>7, <1>8, <1>12, <1>16, <3>5 DEF Comes, Keeps
    <3>6. CASE awaiting[e] /\ echo[e] = Off /\ wire[e] # <<>> /\ u > Latest(e) + Slow + Trip
      BY <1>2, <1>3, <1>7, <1>12, <1>16, <3>6 DEF Comes
    <3>. QED BY <1>1, <1>3, <2>4, <3>2, <3>3, <3>4, <3>5, <3>6 DEF Comes
  <2>. QED BY <1>2, <1>8, <2>1, <2>2, <2>3, <2>4 DEF Fed, Keeps
<1>17. ~cut => open'[e] /\ open'[o]
  BY <1>2, EndFacts
<1>. QED BY <1>2, <1>3, <1>9, <1>10, <1>11, <1>13, <1>14, <1>15, <1>16, <1>17
         DEF HeartbeatInv, LiveInv, DeadInv

----------------------------------------------------------------------------
(* An end starts to send *)

\* An end of a working connection that sets out to send keeps both ends fed.
LEMMA SendFeeds ==
    ASSUME HeartbeatInv, ~cut, NEW e \in Ends, NEW o \in Ends, o = Other(e),
           step[e] \in {"start", "idle"}, step'[e] = "write", lag'[e] = 0, awaiting'[e],
           Keeps(o), wire' = wire, watchdog'[e] = watchdog[e],
           echo[e] = Off => /\ echo'[e] = Off
                            /\ step[e] = "start" \/ (e = Client /\ mayInitiate)
    PROVE  SomethingComes(e)' /\ SomethingComes(o)' /\ Fed(e)' /\ Fed(o)'
<1>. USE Intervals
<1>1. e = Other(o)
  BY OtherEnd
<1>2. Latest(e)' = Latest(e) /\ Latest(o)' = Latest(o)
  BY DEF Latest
<1>3. /\ lag[e] \in Int /\ lag[e] <= Jitter /\ echo[e] \in Int /\ echo[e] >= Off
  BY EndFacts DEF InTime
<1>4. SomethingComes(e)' /\ SomethingComes(o)'
  BY <1>1 DEF SomethingComes
<1>5. Fed(e)'
  <2>1. PICK t \in Int : t = watchdog[e]
    BY EndFacts
  <2>2. t = Off \/ Rearms(e, t) \/ (awaiting[e] /\ echo[e] = Off /\ Comes(e, t))
    BY <2>1, EndFacts DEF Fed
  <2>3. ASSUME Rearms(e, t) PROVE Rearms(e, t)'
    <3>1. echo[e] # Off /\ t > echo[e] + 3 * Jitter
      BY <2>3 DEF Rearms
    <3>2. t > Jitter - 0 + Jitter
      <4>1. PICK c \in Int : c = echo[e] /\ c >= -Jitter
        BY <1>3, <3>1
      <4>2. t > c + 3 * Jitter
        BY <3>1, <4>1
      <4>. QED BY <4>1, <4>2
    <3>. QED BY <3>2 DEF Rearms
  <2>4. ASSUME echo[e] = Off, Comes(e, t) PROVE Comes(e, t)'
    BY <1>2, <2>4 DEF Comes, Keeps
  <2>. QED BY <2>1, <2>2, <2>3, <2>4 DEF Fed
<1>6. Fed(o)'
  <2>1. PICK u \in Int : u = watchdog[o]
    BY EndFacts
  <2>2. u = Off \/ Rearms(o, u) \/ (awaiting[o] /\ echo[o] = Off /\ Comes(o, u))
    BY <2>1, EndFacts DEF Fed
  <2>3. ASSUME Rearms(o, u) PROVE Rearms(o, u)'
    BY <2>3, RearmsKept
  <2>4. ASSUME Comes(o, u) PROVE Comes(o, u)'
    <3>1. \/ wire[o] # <<>> /\ u > Latest(o)
          \/ u > Jitter - lag[e] + Jitter + MaxDelay
          \/ echo[e] # Off /\ u > echo[e] + Trip
          \/ awaiting[e] /\ echo[e] = Off /\ wire[e] # <<>> /\ u > Latest(e) + Slow + Trip
      BY <1>1, <2>4 DEF Comes
    <3>2. ASSUME u > Jitter - lag[e] + Jitter + MaxDelay PROVE u > Jitter - 0 + MaxDelay
      BY <1>3, <3>2
    <3>3. ASSUME echo[e] # Off, u > echo[e] + Trip PROVE u > Jitter - 0 + MaxDelay
      BY <1>3, <3>3
    <3>. QED BY <1>1, <1>2, <3>1, <3>2, <3>3 DEF Comes, Keeps
  <2>. QED BY <2>1, <2>2, <2>3, <2>4 DEF Fed, Keeps
<1>. QED BY <1>4, <1>5, <1>6

\* The first heartbeat of an end.
LEMMA InitiateStep ==
    ASSUME HeartbeatInv, NEW e \in Ends, Initiate(e)
    PROVE  HeartbeatInv'
<1>. USE Intervals
<1>1. /\ Typing /\ FirstBeat /\ step[e] \in {"start", "idle"}
      /\ \/ e = Server /\ step[e] = "start"
         \/ e = Client /\ step[e] = "idle" /\ mayInitiate /\ ~cut
  BY DEF HeartbeatInv, Initiate
<1>2. /\ open' = open /\ received' = received
      /\ watchdog' = watchdog /\ echo' = echo /\ echoed' = echoed
      /\ cut' = cut /\ mayInitiate' = (mayInitiate /\ e = Server) /\ silence' = silence /\ wire' = wire
  BY DEF Initiate, timers
<1>3. PICK o \in Ends : o = Other(e) /\ o # e /\ e = Other(o) /\ \A p \in Ends : p = e \/ p = o
  BY OtherEnd
<1>4. PICK n \in Carried : n = Interval[e]
  BY <1>1, CarriedByServer, CarriedByClient DEF FirstBeat
<1>5. n \in Nat /\ n <= Slow
  BY CarriedIntervals
<1>6. /\ awaiting' \in [Ends -> BOOLEAN] /\ lag' \in [Ends -> Int] /\ sending' \in [Ends -> Int]
      /\ step' \in [Ends -> {"start", "write", "arm", "idle"}]
      /\ Keeps(o) /\ lag'[e] = 0
      /\ open[e] => step'[e] = "write" /\ sending'[e] = n /\ awaiting'[e]
      /\ ~open[e] => step'[e] = "idle" /\ (awaiting'[e] <=> awaiting[e])
  <2>1. /\ awaiting \in [Ends -> BOOLEAN] /\ lag \in [Ends -> Int] /\ sending \in [Ends -> Int]
        /\ step \in [Ends -> {"start", "write", "arm", "idle"}]
    BY <1>1 DEF Typing
  <2>2. CASE open[e]
    <3>1. /\ awaiting' = [awaiting EXCEPT ![e] = TRUE] /\ lag' = [lag EXCEPT ![e] = 0]
          /\ step' = [step EXCEPT ![e] = "write"] /\ sending' = [sending EXCEPT ![e] = n]
      BY <1>4, <2>2 DEF Initiate, Send, Goto
    <3>2. /\ lag' \in [Ends -> Int] /\ sending' \in [Ends -> Int]
          /\ step' \in [Ends -> {"start", "write", "arm", "idle"}]
      BY <1>5, <2>1, <3>1
    <3>3. awaiting' \in [Ends -> BOOLEAN]
      BY <2>1, <3>1
    <3>4. /\ lag'[e] = 0 /\ step'[e] = "write" /\ sending'[e] = n
          /\ lag'[o] = lag[o] /\ step'[o] = step[o] /\ sending'[o] = sending[o]
      BY <1>3, <2>1, <3>1
    <3>5. awaiting'[e] /\ (awaiting'[o] <=> awaiting[o])
      BY <1>3, <2>1, <3>1
    <3>. QED BY <1>2, <2>2, <3>2, <3>3, <3>4, <3>5 DEF Keeps
  <2>3. CASE ~open[e]
    <3>1. /\ awaiting' = awaiting /\ lag' = [lag EXCEPT ![e] = 0]
          /\ step' = [step EXCEPT ![e] = "idle"] /\ sending' = [sending EXCEPT ![e] = 0]
      BY <2>3 DEF Initiate, Send, Goto
    <3>2. /\ lag' \in [Ends -> Int] /\ sending' \in [Ends -> Int]
          /\ step' \in [Ends -> {"start", "write", "arm", "idle"}]
      BY <2>1, <3>1
    <3>3. /\ lag'[e] = 0 /\ step'[e] = "idle"
          /\ lag'[o] = lag[o] /\ step'[o] = step[o] /\ sending'[o] = sending[o]
      BY <1>3, <2>1, <3>1
    <3>. QED BY <1>2, <2>1, <2>3, <3>1, <3>2, <3>3 DEF Keeps
  <2>. QED BY <2>2, <2>3
<1>7. Typing'
  BY <1>1, <1>2, <1>6 DEF Typing
<1>8. InTime(e)' /\ Alternates(e)' /\ (open'[e] => Deadline(e)')
  <2>1. InTime(e)'
    <3>1. InTime(e) /\ open[e] \in BOOLEAN
      BY EndFacts
    <3>2. step'[e] \in {"write", "arm"} => sending'[e] \in Carried
      BY <1>6, <3>1
    <3>. QED BY <1>2, <1>6, <3>1, <3>2 DEF InTime
  <2>2. Alternates(e)'
    <3>1. Alternates(e) /\ open[e] \in BOOLEAN
      BY EndFacts
    <3>. QED BY <1>2, <1>6, <3>1 DEF Alternates
  <2>3. ASSUME open[e] PROVE Deadline(e)'
    <3>1. /\ Deadline(e) /\ lag[e] \in Int /\ lag[e] <= Jitter /\ silence \in Nat /\ (~cut => silence = 0)
      BY <1>1, <2>3, EndFacts DEF InTime, Typing
    <3>2. CASE echo[e] # Off
      BY <1>1, <1>2, <3>1, <3>2 DEF Deadline
    <3>3. CASE echo[e] = Off
      <4>1. silence + 2 * n + 3 * Jitter - 0 <= DetectionBound
        <5>1. CASE e = Server /\ step[e] = "start"
          <6>1. silence + 2 * Slow + 4 * Jitter - lag[e] <= DetectionBound
            BY <3>1, <3>3, <5>1 DEF Deadline
          <6>. QED BY <1>5, <3>1, <6>1
        <5>2. CASE ~cut
          BY <1>5, <3>1, <5>2
        <5>. QED BY <1>1, <5>1, <5>2
      <4>. QED BY <1>2, <1>6, <2>3, <3>3, <4>1 DEF Deadline
    <3>. QED BY <3>2, <3>3
  <2>. QED BY <1>2, <2>1, <2>2, <2>3
<1>9. InTime(o)' /\ Alternates(o)' /\ (open'[o] => Deadline(o)')
  BY <1>2, <1>6, EndFacts, EndKept
<1>10. FirstBeat'
  <2>1. CASE e = Server
    <3>1. /\ o = Client /\ step[Server] = "start" /\ step'[Server] # "start"
          /\ step'[Client] = step[Client] /\ (mayInitiate' <=> mayInitiate)
          /\ mayInitiate => echo[Server] = Off
      BY <1>1, <1>2, <1>3, <1>6, <2>1 DEF Ends, Keeps, FirstBeat
    <3>2. ~cut => step'[Server] = "write"
      BY <1>6, <2>1, EndFacts
    <3>. QED BY <1>1, <1>2, <3>1, <3>2 DEF FirstBeat
  <2>2. CASE e = Client
    <3>1. /\ o = Server /\ step'[Client] # "start" /\ step'[Server] = step[Server]
          /\ ~mayInitiate'
      BY <1>1, <1>2, <1>3, <1>6, <2>2 DEF Ends, Keeps
    <3>. QED BY <1>1, <1>2, <3>1 DEF FirstBeat
  <2>. QED BY <1>1, <2>1, <2>2
<1>11. ASSUME ~cut PROVE SomethingComes(e)' /\ SomethingComes(o)' /\ Fed(e)' /\ Fed(o)'
  <2>1. open[e]
    BY <1>11, EndFacts
  <2>2. /\ step'[e] = "write" /\ lag'[e] = 0 /\ awaiting'[e] /\ Keeps(o) /\ wire' = wire
        /\ watchdog'[e] = watchdog[e] /\ echo'[e] = echo[e]
    BY <1>2, <1>6, <2>1
  <2>3. step[e] = "start" \/ (e = Client /\ mayInitiate)
    BY <1>1
  <2>. QED BY <1>1, <1>3, <1>11, <2>2, <2>3, SendFeeds
<1>12. ~cut => open'[e] /\ open'[o]
  BY <1>2, EndFacts
<1>. QED BY <1>2, <1>3, <1>7, <1>8, <1>9, <1>10, <1>11, <1>12
         DEF HeartbeatInv, LiveInv, DeadInv

\* An echo is due: the end sends, and waits from now on.
LEMMA EchoStep ==
    ASSUME HeartbeatInv, NEW e \in Ends, EchoFires(e)
    PROVE  HeartbeatInv'
<1>. USE Intervals
<1>1. Typing /\ FirstBeat /\ step[e] = "idle" /\ echo[e] # Off /\ echo[e] <= 0
  BY DEF HeartbeatInv, EchoFires, Due
<1>2. /\ open' = open /\ received' = received /\ watchdog' = watchdog
      /\ echo' = [echo EXCEPT ![e] = Off] /\ echoed' = [echoed EXCEPT ![e] = 0]
      /\ cut' = cut /\ mayInitiate' = mayInitiate /\ silence' = silence /\ wire' = wire
  BY DEF EchoFires
<1>3. PICK o \in Ends : o = Other(e) /\ o # e /\ e = Other(o) /\ \A p \in Ends : p = e \/ p = o
  BY OtherEnd
<1>4. PICK n \in Carried : n = echoed[e]
  BY <1>1, EndFacts DEF InTime
<1>5. n \in Nat /\ n <= Slow
  BY CarriedIntervals
<1>6. /\ awaiting' \in [Ends -> BOOLEAN] /\ lag' \in [Ends -> Int] /\ sending' \in [Ends -> Int]
      /\ step' \in [Ends -> {"start", "write", "arm", "idle"}]
      /\ echo' \in [Ends -> Int] /\ echoed' \in [Ends -> Int]
      /\ Keeps(o) /\ lag'[e] = 0 /\ echo'[e] = Off
      /\ open[e] => step'[e] = "write" /\ sending'[e] = n /\ awaiting'[e]
      /\ ~open[e] => step'[e] = "idle" /\ (awaiting'[e] <=> awaiting[e])
  <2>1. /\ awaiting \in [Ends -> BOOLEAN] /\ lag \in [Ends -> Int] /\ sending \in [Ends -> Int]
        /\ step \in [Ends -> {"start", "write", "arm", "idle"}]
        /\ echo \in [Ends -> Int] /\ echoed \in [Ends -> Int]
    BY <1>1 DEF Typing
  <2>2. /\ echo' \in [Ends -> Int] /\ echoed' \in [Ends -> Int]
        /\ echo'[e] = Off /\ echo'[o] = echo[o] /\ echoed'[o] = echoed[o]
    BY <1>2, <1>3, <2>1
  <2>3. CASE open[e]
    <3>1. /\ awaiting' = [awaiting EXCEPT ![e] = TRUE] /\ lag' = [lag EXCEPT ![e] = 0]
          /\ step' = [step EXCEPT ![e] = "write"] /\ sending' = [sending EXCEPT ![e] = n]
      BY <1>4, <2>3 DEF EchoFires, Send, Goto
    <3>2. /\ lag' \in [Ends -> Int] /\ sending' \in [Ends -> Int]
          /\ step' \in [Ends -> {"start", "write", "arm", "idle"}]
      BY <1>5, <2>1, <3>1
    <3>3. awaiting' \in [Ends -> BOOLEAN]
      BY <2>1, <3>1
    <3>4. /\ lag'[e] = 0 /\ step'[e] = "write" /\ sending'[e] = n
          /\ lag'[o] = lag[o] /\ step'[o] = step[o] /\ sending'[o] = sending[o]
      BY <1>3, <2>1, <3>1
    <3>5. awaiting'[e] /\ (awaiting'[o] <=> awaiting[o])
      BY <1>3, <2>1, <3>1
    <3>. QED BY <1>2, <2>2, <2>3, <3>2, <3>3, <3>4, <3>5 DEF Keeps
  <2>4. CASE ~open[e]
    <3>1. /\ awaiting' = awaiting /\ lag' = [lag EXCEPT ![e] = 0]
          /\ step' = [step EXCEPT ![e] = "idle"] /\ sending' = [sending EXCEPT ![e] = 0]
      BY <2>4 DEF EchoFires, Send, Goto
    <3>2. /\ lag' \in [Ends -> Int] /\ sending' \in [Ends -> Int]
          /\ step' \in [Ends -> {"start", "write", "arm", "idle"}]
      BY <2>1, <3>1
    <3>3. /\ lag'[e] = 0 /\ step'[e] = "idle"
          /\ lag'[o] = lag[o] /\ step'[o] = step[o] /\ sending'[o] = sending[o]
      BY <1>3, <2>1, <3>1
    <3>. QED BY <1>2, <2>1, <2>2, <2>4, <3>1, <3>2, <3>3 DEF Keeps
  <2>. QED BY <2>3, <2>4
<1>7. Typing'
  BY <1>1, <1>2, <1>6 DEF Typing
<1>8. received[e]
  BY <1>1, EndFacts DEF Alternates
<1>9. InTime(e)' /\ Alternates(e)' /\ (open'[e] => Deadline(e)')
  <2>1. InTime(e)'
    <3>1. InTime(e) /\ open[e] \in BOOLEAN
      BY EndFacts
    <3>2. step'[e] \in {"write", "arm"} => sending'[e] \in Carried
      BY <1>6, <3>1
    <3>3. Off >= Off /\ Off <= Slow
      OBVIOUS
    <3>. QED BY <1>2, <1>6, <3>1, <3>2, <3>3 DEF InTime
  <2>2. Alternates(e)'
    BY <1>2, <1>6, <1>8 DEF Alternates
  <2>3. ASSUME open[e] PROVE Deadline(e)'
    <3>1. /\ Deadline(e) /\ echo[e] \in Int /\ echo[e] >= Off /\ silence \in Nat
      BY <1>1, <2>3, EndFacts DEF InTime, Typing
    <3>2. silence + echo[e] + 2 * n + 4 * Jitter <= DetectionBound
      BY <1>1, <1>4, <3>1 DEF Deadline
    <3>3. silence + 2 * n + 3 * Jitter - 0 <= DetectionBound
      BY <1>1, <1>5, <3>1, <3>2
    <3>. QED BY <1>2, <1>6, <2>3, <3>3 DEF Deadline
  <2>. QED BY <1>2, <2>1, <2>2, <2>3
<1>10. InTime(o)' /\ Alternates(o)' /\ (open'[o] => Deadline(o)')
  BY <1>2, <1>6, EndFacts, EndKept
<1>11. FirstBeat'
  <2>1. CASE e = Server
    <3>1. /\ o = Client /\ step[Server] # "start" /\ step'[Server] # "start"
          /\ step[Server] # "write"
          /\ step'[Client] = step[Client] /\ echo'[Client] = echo[Client] /\ echo'[Server] = Off
      BY <1>1, <1>3, <1>6, <2>1 DEF Ends, Keeps
    <3>. QED BY <1>1, <1>2, <3>1 DEF FirstBeat
  <2>2. CASE e = Client
    <3>1. /\ o = Server /\ step'[Client] # "start" /\ step'[Server] = step[Server]
          /\ echo'[Server] = echo[Server] /\ (awaiting'[Server] <=> awaiting[Server])
          /\ step[Server] # "start"
      BY <1>1, <1>3, <1>6, <1>8, <2>2 DEF Ends, Keeps, FirstBeat
    <3>. QED BY <1>1, <1>2, <1>8, <2>2, <3>1 DEF FirstBeat
  <2>. QED BY <2>1, <2>2 DEF Ends
<1>12. ASSUME ~cut PROVE SomethingComes(e)' /\ SomethingComes(o)' /\ Fed(e)' /\ Fed(o)'
  <2>1. open[e]
    BY <1>12, EndFacts
  <2>2. /\ step'[e] = "write" /\ lag'[e] = 0 /\ awaiting'[e] /\ Keeps(o) /\ wire' = wire
        /\ watchdog'[e] = watchdog[e]
    BY <1>2, <1>6, <2>1
  <2>. QED BY <1>1, <1>3, <1>12, <2>2, SendFeeds
<1>13. ~cut => open'[e] /\ open'[o]
  BY <1>2, EndFacts
<1>. QED BY <1>2, <1>3, <1>7, <1>9, <1>10, <1>11, <1>12, <1>13
         DEF HeartbeatInv, LiveInv, DeadInv

----------------------------------------------------------------------------
(* The theorems *)

\* Every step keeps the invariant.
LEMMA HeartbeatStep == HeartbeatInv /\ [Next]_vars => HeartbeatInv'
<1>. SUFFICES ASSUME HeartbeatInv, [Next]_vars PROVE HeartbeatInv'
  OBVIOUS
<1>1. ASSUME NEW p \in Ends, Initiate(p) PROVE HeartbeatInv'
  BY <1>1, InitiateStep
<1>2. ASSUME NEW p \in Ends, EchoFires(p) PROVE HeartbeatInv'
  BY <1>2, EchoStep
<1>3. ASSUME NEW p \in Ends, Write(p) PROVE HeartbeatInv'
  BY <1>3, WriteStep
<1>4. ASSUME NEW p \in Ends, Arm(p) PROVE HeartbeatInv'
  BY <1>4, ArmStep
<1>5. ASSUME NEW p \in Ends, Expect(p) PROVE HeartbeatInv'
  BY <1>5, ExpectStep
<1>6. ASSUME NEW p \in Ends, Receive(p) PROVE HeartbeatInv'
  BY <1>6, ReceiveStep
<1>7. ASSUME NEW p \in Ends, WatchdogFires(p) PROVE HeartbeatInv'
  BY <1>7, WatchdogStep
<1>8. ASSUME NEW p \in Ends, CancelTimers(p) PROVE HeartbeatInv'
  BY <1>8, CancelStep
<1>9. CASE Cut
  BY <1>9, CutStep
<1>10. CASE Tick
  BY <1>10, TickStep
<1>11. CASE UNCHANGED vars
  <2>1. /\ open' = open /\ awaiting' = awaiting /\ received' = received /\ step' = step /\ sending' = sending
        /\ lag' = lag /\ watchdog' = watchdog /\ echo' = echo /\ echoed' = echoed
        /\ mayInitiate' = mayInitiate /\ silence' = silence /\ cut' = cut /\ wire' = wire
    BY <1>11 DEF vars, timers, progress
  <2>. QED BY <2>1 DEF HeartbeatInv, Typing, InTime, Alternates, FirstBeat, LiveInv, SomethingComes, Fed,
                       Comes, Latest, Rearms, DeadInv, Deadline
<1>. QED BY <1>1, <1>2, <1>3, <1>4, <1>5, <1>6, <1>7, <1>8, <1>9, <1>10, <1>11 DEF Next

\* The invariant holds in every reachable state.
LEMMA HeartbeatInvariant == Spec => []HeartbeatInv
<1>. QED BY InitiallyInv, HeartbeatStep, PTL DEF Spec

\* No session of a working connection is closed by a watchdog, whatever the
\* intervals, the delays and the order of steps, under TimingAssumption:
\* send_heartbeat and handle_heartbeat keep every armed watchdog fed.
THEOREM WorkingConnectionStaysOpen == Spec => []NoFalseClose
<1>1. HeartbeatInv => NoFalseClose
  BY DEF HeartbeatInv, LiveInv, NoFalseClose
<1>. QED BY <1>1, HeartbeatInvariant, PTL

\* An end of a dead connection is closed within DetectionBound: at no moment is
\* it open and past the time at which initiate_heartbeat, expect_heartbeat,
\* the echo or the watchdog should have led to its close.
THEOREM DeadConnectionIsNoticed == Spec => []DeadPeerDetected
<1>1. HeartbeatInv => DeadPeerDetected
  <2>. SUFFICES ASSUME HeartbeatInv, NEW p \in Ends, open[p] PROVE silence <= DetectionBound
    BY DEF DeadPeerDetected
  <2>. USE Intervals
  <2>1. Deadline(p) /\ silence \in Nat
    BY EndFacts DEF HeartbeatInv, Typing
  <2>2. InTime(p) /\ echo[p] \in Int /\ lag[p] \in Int /\ watchdog[p] \in Int
    BY EndFacts
  <2>3. CASE echo[p] # Off
    <3>1. PICK n \in Carried : n = echoed[p]
      BY <2>2, <2>3 DEF InTime
    <3>2. n \in Nat /\ silence + echo[p] + 2 * n + 4 * Jitter <= DetectionBound
      BY <2>1, <2>3, <3>1, CarriedIntervals DEF Deadline
    <3>3. echo[p] >= -Jitter
      <4>1. echo[p] >= Off
        BY <2>2 DEF InTime
      <4>. QED BY <2>2, <2>3, <4>1
    <3>. QED BY <2>1, <2>2, <3>2, <3>3
  <2>4. CASE echo[p] = Off /\ step[p] \in {"write", "arm"}
    <3>1. PICK n \in Carried : n = sending[p]
      BY <2>2, <2>4 DEF InTime
    <3>2. n \in Nat /\ silence + 2 * n + 2 * Jitter - lag[p] <= DetectionBound
      <4>1. \/ silence + 2 * n + 3 * Jitter - lag[p] <= DetectionBound
            \/ silence + 2 * n + 2 * Jitter - lag[p] <= DetectionBound
        BY <2>1, <2>4, <3>1 DEF Deadline
      <4>2. n \in Nat
        BY CarriedIntervals
      <4>. QED BY <2>1, <2>2, <4>1, <4>2
    <3>3. lag[p] <= Jitter
      BY <2>2 DEF InTime
    <3>. QED BY <2>1, <2>2, <3>2, <3>3
  <2>5. CASE echo[p] = Off /\ step[p] = "idle"
    <3>1. watchdog[p] # Off /\ silence + watchdog[p] + Jitter <= DetectionBound
      BY <2>1, <2>5 DEF Deadline
    <3>2. watchdog[p] >= -Jitter
      <4>1. watchdog[p] >= Off
        BY <2>2 DEF InTime
      <4>. QED BY <2>2, <3>1, <4>1
    <3>. QED BY <2>1, <2>2, <3>1, <3>2
  <2>6. CASE echo[p] = Off /\ step[p] = "start"
    <3>1. \/ silence + 2 * Slow + 4 * Jitter - lag[p] <= DetectionBound
          \/ silence + ExpectTimeout + 2 * Jitter - lag[p] <= DetectionBound
      BY <2>1, <2>6 DEF Deadline, Ends
    <3>2. lag[p] <= Jitter
      BY <2>2 DEF InTime
    <3>. QED BY <2>1, <2>2, <3>1, <3>2
  <2>7. step[p] \in {"start", "write", "arm", "idle"}
    BY DEF HeartbeatInv, Typing
  <2>. QED BY <2>3, <2>4, <2>5, <2>6, <2>7
<1>. QED BY <1>1, HeartbeatInvariant, PTL
=============================================================================
