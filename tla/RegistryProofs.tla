--------------------------- MODULE RegistryProofs ---------------------------
(***************************************************************************)
(* Theorems about the worker registry, for any number of workers, any      *)
(* timeouts and any number of failed beats: the dead fade, and a healthy   *)
(* worker stays listed.                                                    *)
(***************************************************************************)
EXTENDS Registry, TLAPS

RegistrySpec == RegistryInit /\ [][RegistryNext]_registryVars

\* Beats are a positive interval apart.
LEMMA BeatIntervals ==
  ASSUME NEW w \in Worker
  PROVE  /\ Latency \in Nat /\ BeatInterval(w) \in Nat \ {0}
         /\ BeatInterval(w) <= BeatCap + Second
<1>1. VisibilityTimeout[w] \in Nat \ {0} /\ Second \in Nat \ {0} /\ Latency \in Nat
  BY TimingAssumption, Zenon
<1>2. VisibilityTimeout[w] \div 2 \in Nat
  BY <1>1, SMTT(30)
<1>3. BeatCap \in Nat \ {0}
  BY RegistryAssumption, Zenon
<1> QED BY <1>1, <1>2, <1>3 DEF BeatInterval, Interval

\* One more interval.
LEMMA OneMore ==
  ASSUME NEW n \in Nat, NEW c \in Nat
  PROVE  /\ n * c \in Nat /\ (1 + n) * c \in Nat
         /\ (n + 1) * c \in Nat /\ (n + 1) * c = n * c + c /\ 0 * c = 0 /\ 1 * c = c
         /\ (1 + (n + 1)) * c = (1 + n) * c + c
  BY SMTT(30)

-----------------------------------------------------------------------------
(* The invariant.                                                          *)

RTypes ==
  /\ alive \in [Worker -> {"off", "up", "gone"}]
  /\ beat \in [Worker -> {"asleep", "sent", "scored"}]
  /\ beatIn \in [Worker -> Nat] /\ record \in [Worker -> Nat]
  /\ missed \in [Worker -> Nat] /\ silentFor \in [Worker -> Nat]
  /\ age \in [Worker -> Nat \cup {NoEntry}]
  /\ beatFaults \in Nat

\* The timers stay within the sleeps and calls they measure; a worker that has
\* not joined is not listed, and only a mortal one is gone.
Beating(w) ==
  /\ beatIn[w] <= IF beat[w] = "asleep" THEN BeatInterval(w) ELSE Latency
  /\ record[w] <= TTL(w)
  /\ alive[w] # "gone" => silentFor[w] = 0
  /\ alive[w] = "gone" => w \in Mortal
  /\ alive[w] = "off" => age[w] = NoEntry /\ record[w] = 0 /\ beat[w] = "asleep"

\* The longest time since the script of a beat last ran: a call, then an
\* interval and a call for every beat that failed, and the next is on its way.
SinceBeat(w) ==
  IF beat[w] = "scored" THEN Latency - beatIn[w]
  ELSE Latency + missed[w] * (BeatInterval(w) + Latency)
         + (IF beat[w] = "asleep" THEN BeatInterval(w) ELSE BeatInterval(w) + Latency) - beatIn[w]

\* Entry and record of a worker that is up are as old as its last beat.
Current(w) ==
  alive[w] = "up" =>
    /\ age[w] # NoEntry => age[w] <= SinceBeat(w)
    /\ record[w] > 0 => TTL(w) <= record[w] + SinceBeat(w)

\* The longest time until the script of the next beat runs.
NextBeat(x) ==
  IF beat[x] = "asleep" THEN beatIn[x] + Latency
  ELSE IF beat[x] = "sent" THEN beatIn[x]
  ELSE beatIn[x] + BeatInterval(x) + Latency

\* The time for one beat, and one for every beat that failed.
Beats(x) == (1 + beatFaults) * (BeatInterval(x) + Latency)

\* What is left of a dead worker fades: a last beat comes soon, the record
\* expires, and an entry that has outlived the time to live of a worker that
\* stays waits for its next beat.
Fades(w, x) ==
  /\ alive[x] = "off" => silentFor[w] = 0
  /\ alive[w] = "gone" =>
       /\ beat[w] = "sent" => silentFor[w] <= Latency - beatIn[w]
       /\ record[w] > 0 => silentFor[w] + record[w] <= TTL(w) + Latency
       /\ age[w] # NoEntry =>
            /\ silentFor[w] <= age[w] + Latency \/ TTL(x) <= age[w]
            /\ TTL(x) <= age[w] => silentFor[w] + NextBeat(x) <= TTL(x) + 2 * Latency + Beats(x)

RInv ==
  /\ RTypes
  /\ \A w \in Worker : Beating(w) /\ Current(w) /\ \A x \in Worker \ Mortal : Fades(w, x)

-----------------------------------------------------------------------------
(* Types and timers.                                                       *)

\* The durations of heartbeats, and how long an entry can live.
LEMMA BeatTypes ==
  ASSUME NEW w \in Worker
  PROVE  /\ BeatInterval(w) \in Nat \ {0} /\ Latency \in Nat
         /\ BeatInterval(w) + Latency \in Nat
         /\ TTL(w) \in Nat \ {0} /\ TTL(w) = 3 * BeatInterval(w)
         /\ MaxAge \in Nat /\ TTL(w) <= MaxAge /\ NoEntry \notin Nat
<1>1. BeatInterval(w) \in Nat \ {0} /\ Latency \in Nat /\ BeatInterval(w) <= BeatCap + Second
  BY BeatIntervals, Zenon
<1>2. BeatCap \in Nat /\ Second \in Nat /\ NoEntry \notin Nat
  BY TimingAssumption, RegistryAssumption, Zenon
<1> QED BY <1>1, <1>2 DEF TTL, MaxAge

\* A beat that is sent.
LEMMA SendFacts ==
  ASSUME RTypes, NEW w \in Worker, Send(w)
  PROVE  /\ beat' \in [Worker -> {"asleep", "sent", "scored"}] /\ beatIn' \in [Worker -> Nat]
         /\ beat'[w] = "sent" /\ beatIn'[w] = Latency
         /\ \A x \in Worker \ {w} : beat'[x] = beat[x] /\ beatIn'[x] = beatIn[x]
<1>1. /\ beat \in [Worker -> {"asleep", "sent", "scored"}] /\ beatIn \in [Worker -> Nat]
      /\ Latency \in Nat
  BY BeatTypes, Zenon DEF RTypes
<1> QED BY <1>1 DEF Send

\* A loop that rests.
LEMMA RestFacts ==
  ASSUME RTypes, NEW w \in Worker, Rest(w)
  PROVE  /\ beat' \in [Worker -> {"asleep", "sent", "scored"}] /\ beatIn' \in [Worker -> Nat]
         /\ beat'[w] = "asleep" /\ beatIn'[w] = BeatInterval(w)
         /\ \A x \in Worker \ {w} : beat'[x] = beat[x] /\ beatIn'[x] = beatIn[x]
<1>1. /\ beat \in [Worker -> {"asleep", "sent", "scored"}] /\ beatIn \in [Worker -> Nat]
      /\ BeatInterval(w) \in Nat
  BY BeatTypes, Zenon DEF RTypes
<1> HIDE DEF BeatInterval
<1> QED BY <1>1 DEF Rest

\* Every step keeps the types and the timers.
LEMMA BeatingStep ==
  ASSUME RTypes, \A w \in Worker : Beating(w), RegistryNext
  PROVE  RTypes' /\ \A w \in Worker : Beating(w)'
<1>0. /\ Latency \in Nat /\ Latency <= Latency
      /\ \A x \in Worker : /\ BeatInterval(x) \in Nat /\ BeatInterval(x) <= BeatInterval(x)
                           /\ TTL(x) \in Nat /\ TTL(x) <= TTL(x)
  <2>1. \A n \in Nat : n <= n
    OBVIOUS
  <2>2. Latency \in Nat
    BY TimingAssumption, Zenon
  <2> QED BY <2>1, <2>2, BeatTypes, Zenon
<1>1. ASSUME NEW w \in Worker, Join(w) \/ Beat(w)
      PROVE  RTypes' /\ \A x \in Worker : Beating(x)'
  <2>1. /\ Send(w) /\ UNCHANGED <<age, record, missed, silentFor, beatFaults>>
        /\ alive[w] # "gone"
        /\ (alive' = alive /\ alive[w] = "up") \/ alive' = [alive EXCEPT ![w] = "up"]
    BY <1>1 DEF Join, Beat
  <2>2. alive' \in [Worker -> {"off", "up", "gone"}] /\ alive'[w] = "up"
        /\ \A x \in Worker \ {w} : alive'[x] = alive[x]
    BY <2>1 DEF RTypes
  <2>3. RTypes'
    BY <2>1, <2>2, SendFacts, Zenon DEF RTypes
  <2>4. ASSUME NEW x \in Worker PROVE Beating(x)'
    <3>1. CASE x # w
      <4>1. /\ beat'[x] = beat[x] /\ beatIn'[x] = beatIn[x] /\ alive'[x] = alive[x]
            /\ age'[x] = age[x] /\ record'[x] = record[x] /\ silentFor'[x] = silentFor[x]
        BY <2>1, <2>2, <3>1, SendFacts
      <4> QED BY <4>1, Zenon DEF Beating
    <3>2. CASE x = w
      <4>1. beat'[w] # "asleep" /\ alive'[w] # "off" /\ alive'[w] # "gone" /\ beatIn'[w] = Latency
        BY <2>1, <2>2, SendFacts
      <4>2. silentFor'[w] = 0 /\ record'[w] <= TTL(w)
        BY <2>1, Zenon DEF Beating
      <4>3. beatIn'[w] <= IF beat'[w] = "asleep" THEN BeatInterval(w) ELSE Latency
        BY <1>0, <4>1, Zenon
      <4> QED BY <3>2, <4>1, <4>2, <4>3, Zenon DEF Beating
    <3> QED BY <3>1, <3>2, Zenon
  <2> QED BY <2>3, <2>4, Zenon
<1>2. ASSUME NEW w \in Worker, Heartbeat(w)
      PROVE  RTypes' /\ \A x \in Worker : Beating(x)'
  <2>1. UNCHANGED <<alive, beatIn, missed, silentFor, beatFaults>> /\ beat[w] = "sent"
    BY <1>2, Zenon DEF Heartbeat
  <2>2. /\ beat' \in [Worker -> {"asleep", "sent", "scored"}]
        /\ \A x \in Worker : beat'[x] = "asleep" <=> beat[x] = "asleep"
    BY <1>2 DEF Heartbeat, RTypes
  <2>3. /\ age' \in [Worker -> Nat \cup {NoEntry}]
        /\ \A x \in Worker \ {w} : age[x] = NoEntry => age'[x] = NoEntry
    BY <1>2 DEF Heartbeat, RTypes
  <2>4. /\ record' \in [Worker -> Nat] /\ record'[w] = TTL(w)
        /\ \A x \in Worker \ {w} : record'[x] = record[x]
    BY <1>0, <1>2, Zenon DEF Heartbeat, RTypes
  <2>5. RTypes'
    BY <2>1, <2>2, <2>3, <2>4, Zenon DEF RTypes
  <2>6. ASSUME NEW x \in Worker PROVE Beating(x)'
    <3>1. CASE x # w
      BY <2>1, <2>2, <2>3, <2>4, <3>1, Zenon DEF Beating
    <3>2. CASE x = w
      <4>1. alive[w] # "off"
        BY <2>1 DEF Beating
      <4> QED BY <1>0, <2>1, <2>2, <2>4, <3>2, <4>1, Zenon DEF Beating
    <3> QED BY <3>1, <3>2, Zenon
  <2> QED BY <2>5, <2>6, Zenon
<1>3. ASSUME NEW w \in Worker, BeatOK(w) \/ BeatFailed(w)
      PROVE  RTypes' /\ \A x \in Worker : Beating(x)'
  <2>1. Rest(w) /\ alive[w] = "up" /\ UNCHANGED <<alive, age, record, silentFor>>
    BY <1>3, Zenon DEF BeatOK, BeatFailed
  <2>2. missed' \in [Worker -> Nat] /\ beatFaults' \in Nat
    BY <1>3 DEF BeatOK, BeatFailed, RTypes
  <2>3. RTypes'
    BY <2>1, <2>2, RestFacts, Zenon DEF RTypes
  <2>4. ASSUME NEW x \in Worker PROVE Beating(x)'
    <3>1. CASE x # w
      BY <2>1, <3>1, RestFacts, Zenon DEF Beating
    <3>2. CASE x = w
      BY <1>0, <2>1, <3>2, RestFacts, Zenon DEF Beating
    <3> QED BY <3>1, <3>2, Zenon
  <2> QED BY <2>3, <2>4, Zenon
<1>4. ASSUME NEW w \in Worker, Die(w)
      PROVE  RTypes' /\ \A x \in Worker : Beating(x)'
  <2>1. /\ w \in Mortal /\ alive[w] = "up" /\ alive' = [alive EXCEPT ![w] = "gone"]
        /\ UNCHANGED <<beat, beatIn, age, record, missed, silentFor, beatFaults>>
    BY <1>4, Zenon DEF Die
  <2>2. /\ alive' \in [Worker -> {"off", "up", "gone"}] /\ alive'[w] = "gone"
        /\ \A x \in Worker \ {w} : alive'[x] = alive[x]
    BY <2>1 DEF RTypes
  <2>3. ASSUME NEW x \in Worker PROVE Beating(x)'
    <3>1. CASE x # w
      BY <2>1, <2>2, <3>1, Zenon DEF Beating
    <3>2. CASE x = w
      <4>1. "gone" # "off"
        OBVIOUS
      <4> QED BY <2>1, <2>2, <3>2, <4>1, Zenon DEF Beating
    <3> QED BY <3>1, <3>2, Zenon
  <2> QED BY <2>1, <2>2, <2>3, Zenon DEF RTypes
<1>5. ASSUME Pass
      PROVE  RTypes' /\ \A x \in Worker : Beating(x)'
  <2>1. UNCHANGED <<alive, missed, beatFaults>>
    BY <1>5, Zenon DEF Pass
  <2>2. /\ beat' \in [Worker -> {"asleep", "sent", "scored"}] /\ beatIn' \in [Worker -> Nat]
        /\ record' \in [Worker -> Nat] /\ silentFor' \in [Worker -> Nat]
    BY <1>5 DEF Pass, RTypes
  <2>3. /\ age' \in [Worker -> Nat \cup {NoEntry}]
        /\ \A x \in Worker : age[x] = NoEntry => age'[x] = NoEntry
    BY <1>5 DEF Pass, RTypes
  <2>4. RTypes'
    BY <2>1, <2>2, <2>3, Zenon DEF RTypes
  <2>5. ASSUME NEW x \in Worker PROVE Beating(x)'
    <3>1. beatIn'[x] <= IF beat'[x] = "asleep" THEN BeatInterval(x) ELSE Latency
      <4>1. /\ beat'[x] = (IF beatIn[x] > 0 THEN beat[x] ELSE "asleep")
            /\ beatIn'[x] = (IF beatIn[x] > 0 THEN beatIn[x] - 1 ELSE 0)
            /\ beatIn[x] <= IF beat[x] = "asleep" THEN BeatInterval(x) ELSE Latency
        BY <1>5, Zenon DEF Pass, Beating
      <4>2. beatIn[x] \in Nat /\ BeatInterval(x) \in Nat /\ Latency \in Nat
        BY <1>0, Zenon DEF RTypes
      <4> HIDE DEF BeatInterval
      <4> QED BY <4>1, <4>2
    <3>2. record'[x] <= TTL(x) /\ (record[x] = 0 => record'[x] = 0)
      <4>1. record'[x] = (IF record[x] > 0 THEN record[x] - 1 ELSE 0) /\ record[x] <= TTL(x)
        BY <1>5, Zenon DEF Pass, Beating
      <4>2. record[x] \in Nat /\ TTL(x) \in Nat
        BY <1>0, Zenon DEF RTypes
      <4> HIDE DEF TTL
      <4> QED BY <4>1, <4>2
    <3>3. (alive[x] # "gone" => silentFor'[x] = 0) /\ (beat[x] = "asleep" => beat'[x] = "asleep")
      BY <1>5, Zenon DEF Pass
    <3> QED BY <2>1, <2>3, <3>1, <3>2, <3>3, Zenon DEF Beating
  <2> QED BY <2>4, <2>5, Zenon
<1> QED BY <1>1, <1>2, <1>3, <1>4, <1>5, Zenon DEF RegistryNext

-----------------------------------------------------------------------------
(* A worker that beats.                                                    *)

\* The values of one worker.
LEMMA WorkerTypes ==
  ASSUME RTypes, NEW w \in Worker
  PROVE  /\ beatIn[w] \in Nat /\ record[w] \in Nat /\ missed[w] \in Nat /\ silentFor[w] \in Nat
         /\ age[w] \in Nat \cup {NoEntry} /\ beatFaults \in Nat
         /\ beat[w] \in {"asleep", "sent", "scored"} /\ alive[w] \in {"off", "up", "gone"}
  BY Zenon DEF RTypes

\* Nothing changes for a worker that no step concerns.
LEMMA CurrentSame ==
  ASSUME NEW w \in Worker, Current(w),
         alive'[w] = alive[w] \/ alive'[w] # "up", beat'[w] = beat[w], beatIn'[w] = beatIn[w],
         missed'[w] = missed[w], record'[w] = record[w],
         age'[w] = age[w] \/ age'[w] = NoEntry
  PROVE  Current(w)'
<1>1. SinceBeat(w)' = SinceBeat(w)
  BY Zenon DEF SinceBeat
<1> QED BY <1>1, Zenon DEF Current

\* Every step keeps the age of what is registered within SinceBeat.
LEMMA CurrentStep ==
  ASSUME RTypes, \A w \in Worker : Beating(w) /\ Current(w), RegistryNext, NEW w \in Worker
  PROVE  Current(w)'
<1> DEFINE c == BeatInterval(w) + Latency
           p == missed[w] * c
<1>0. /\ beatIn[w] \in Nat /\ record[w] \in Nat /\ missed[w] \in Nat
      /\ age[w] \in Nat \cup {NoEntry} /\ beat[w] \in {"asleep", "sent", "scored"}
      /\ BeatInterval(w) \in Nat /\ Latency \in Nat /\ c \in Nat /\ p \in Nat
      /\ TTL(w) \in Nat /\ NoEntry \notin Nat /\ MaxAge \in Nat
  BY WorkerTypes, BeatTypes, OneMore, Zenon
<1>1. /\ beatIn[w] <= IF beat[w] = "asleep" THEN BeatInterval(w) ELSE Latency
      /\ record[w] <= TTL(w)
  BY Zenon DEF Beating
<1>2. SinceBeat(w) = IF beat[w] = "scored" THEN Latency - beatIn[w]
        ELSE Latency + p + (IF beat[w] = "asleep" THEN BeatInterval(w) ELSE c) - beatIn[w]
  BY Zenon DEF SinceBeat
<1>3. alive[w] = "up" =>
        /\ age[w] # NoEntry => age[w] <= SinceBeat(w)
        /\ record[w] > 0 => TTL(w) <= record[w] + SinceBeat(w)
  BY Zenon DEF Current
<1>4. CASE Join(w)
  <2>1. age'[w] = NoEntry /\ record'[w] = 0
    BY <1>4, Zenon DEF Join, Beating
  <2>2. ~ (0 > 0)
    OBVIOUS
  <2> QED BY <2>1, <2>2, Zenon DEF Current
<1>5. CASE Beat(w)
  <2>1. /\ beat[w] = "asleep" /\ beatIn[w] = 0 /\ alive[w] = "up"
        /\ UNCHANGED <<alive, age, record, missed>> /\ Send(w)
    BY <1>5, Zenon DEF Beat
  <2>2. beat'[w] = "sent" /\ beatIn'[w] = Latency
    BY <2>1, SendFacts, Zenon
  <2>3. SinceBeat(w)' = Latency + p + c - Latency
    <3>1. beat'[w] # "scored" /\ beat'[w] # "asleep"
      BY <2>2
    <3> QED BY <2>1, <2>2, <3>1, Zenon DEF SinceBeat
  <2>4. SinceBeat(w)' = SinceBeat(w)
    <3> HIDE DEF p, BeatInterval
    <3> QED BY <1>0, <1>2, <2>1, <2>3
  <2> QED BY <2>1, <2>4, Zenon DEF Current
<1>6. CASE Heartbeat(w)
  <2>1. /\ age'[w] = 0 /\ record'[w] = TTL(w) /\ beat'[w] = "scored" /\ beatIn'[w] = beatIn[w]
        /\ beat[w] = "sent"
    BY <1>6, Zenon DEF Heartbeat, RTypes
  <2>2. SinceBeat(w)' = Latency - beatIn[w]
    BY <2>1, Zenon DEF SinceBeat
  <2>3. 0 <= Latency - beatIn[w] /\ TTL(w) <= TTL(w) + (Latency - beatIn[w])
    <3> HIDE DEF TTL, BeatInterval
    <3> QED BY <1>0, <1>1, <2>1
  <2> QED BY <2>1, <2>2, <2>3, Zenon DEF Current
<1>7. CASE BeatOK(w)
  <2>1. /\ beat[w] = "scored" /\ alive[w] = "up" /\ missed'[w] = 0
        /\ UNCHANGED <<alive, age, record>> /\ Rest(w)
    BY <1>7, Zenon DEF BeatOK, RTypes
  <2>2. beat'[w] = "asleep" /\ beatIn'[w] = BeatInterval(w)
    BY <2>1, RestFacts, Zenon
  <2>3. SinceBeat(w)' = Latency + 0 * c + BeatInterval(w) - BeatInterval(w)
    <3>1. beat'[w] # "scored"
      BY <2>2
    <3> QED BY <2>1, <2>2, <3>1, Zenon DEF SinceBeat
  <2>4. SinceBeat(w)' \in Int /\ SinceBeat(w) \in Int /\ SinceBeat(w) <= SinceBeat(w)'
    <3>1. 0 * c = 0
      BY <1>0, OneMore, Zenon
    <3>2. SinceBeat(w) = Latency - beatIn[w]
      BY <1>2, <2>1, Zenon
    <3> HIDE DEF BeatInterval, c
    <3> QED BY <1>0, <2>3, <3>1, <3>2
  <2> HIDE DEF TTL
  <2>5. /\ age[w] # NoEntry => age[w] <= SinceBeat(w)'
        /\ record[w] > 0 => TTL(w) <= record[w] + SinceBeat(w)'
    BY <1>0, <1>3, <2>1, <2>4
  <2> QED BY <2>1, <2>5, Zenon DEF Current
<1>8. CASE BeatFailed(w)
  <2>1. /\ beat[w] # "asleep" /\ alive[w] = "up" /\ missed'[w] = missed[w] + 1
        /\ UNCHANGED <<alive, age, record>> /\ Rest(w)
    BY <1>8, Zenon DEF BeatFailed, RTypes
  <2>2. beat'[w] = "asleep" /\ beatIn'[w] = BeatInterval(w)
    BY <2>1, RestFacts, Zenon
  <2>3. SinceBeat(w)' = Latency + (missed[w] + 1) * c + BeatInterval(w) - BeatInterval(w)
    <3>1. beat'[w] # "scored"
      BY <2>2
    <3> QED BY <2>1, <2>2, <3>1, Zenon DEF SinceBeat
  <2>4. SinceBeat(w)' \in Int /\ SinceBeat(w) \in Int /\ SinceBeat(w) <= SinceBeat(w)'
    <3> DEFINE q == (missed[w] + 1) * c
    <3>1. q \in Nat /\ q = p + c
      BY <1>0, OneMore, Zenon
    <3>2. SinceBeat(w)' = Latency + q + BeatInterval(w) - BeatInterval(w)
      BY <2>3, Zenon
    <3> HIDE DEF BeatInterval, c, p, q
    <3> QED BY <1>0, <1>1, <1>2, <2>1, <3>1, <3>2
  <2> HIDE DEF TTL
  <2>5. /\ age[w] # NoEntry => age[w] <= SinceBeat(w)'
        /\ record[w] > 0 => TTL(w) <= record[w] + SinceBeat(w)'
    BY <1>0, <1>3, <2>1, <2>4
  <2> QED BY <2>1, <2>5, Zenon DEF Current
<1>9. CASE Die(w)
  <2>1. alive'[w] = "gone"
    BY <1>9, Zenon DEF Die, RTypes
  <2>2. "gone" # "up"
    OBVIOUS
  <2> QED BY <2>1, <2>2, Zenon DEF Current
<1>10. ASSUME NEW y \in Worker \ {w},
              Join(y) \/ Beat(y) \/ Heartbeat(y) \/ BeatOK(y) \/ BeatFailed(y) \/ Die(y)
       PROVE  Current(w)'
  <2>1. beat'[w] = beat[w] /\ beatIn'[w] = beatIn[w]
    BY <1>10 DEF Join, Beat, Heartbeat, BeatOK, BeatFailed, Die, Send, Rest, RTypes
  <2>2. alive'[w] = alive[w] /\ missed'[w] = missed[w] /\ record'[w] = record[w]
    BY <1>10 DEF Join, Beat, Heartbeat, BeatOK, BeatFailed, Die, RTypes
  <2>3. age'[w] = age[w] \/ age'[w] = NoEntry
    BY <1>10 DEF Join, Beat, Heartbeat, BeatOK, BeatFailed, Die, RTypes
  <2> QED BY <2>1, <2>2, <2>3, CurrentSame, Zenon
<1>11. CASE Pass
  <2> SUFFICES ASSUME alive'[w] = "up" PROVE Current(w)'
    BY Zenon DEF Current
  <2>1. /\ alive[w] = "up" /\ beatIn[w] > 0 /\ missed'[w] = missed[w]
        /\ beat'[w] = beat[w] /\ beatIn'[w] = beatIn[w] - 1
    BY <1>11, Zenon DEF Pass
  <2>2. /\ age'[w] = (IF age[w] # NoEntry /\ age[w] < MaxAge THEN age[w] + 1 ELSE age[w])
        /\ record'[w] = (IF record[w] > 0 THEN record[w] - 1 ELSE 0)
    BY <1>11, Zenon DEF Pass
  <2>3. SinceBeat(w)' = IF beat[w] = "scored" THEN Latency - (beatIn[w] - 1)
          ELSE Latency + p + (IF beat[w] = "asleep" THEN BeatInterval(w) ELSE c) - (beatIn[w] - 1)
    BY <2>1, Zenon DEF SinceBeat
  <2>4. SinceBeat(w) \in Int /\ SinceBeat(w)' = SinceBeat(w) + 1
    <3> HIDE DEF BeatInterval, c, p
    <3> QED BY <1>0, <1>2, <2>3
  <2> HIDE DEF TTL
  <2>5. /\ age'[w] # NoEntry => age'[w] <= SinceBeat(w)'
        /\ record'[w] > 0 => TTL(w) <= record'[w] + SinceBeat(w)'
    BY <1>0, <1>3, <2>1, <2>2, <2>4
  <2> QED BY <2>5, Zenon DEF Current
<1> QED BY <1>4, <1>5, <1>6, <1>7, <1>8, <1>9, <1>10, <1>11, Zenon DEF RegistryNext

-----------------------------------------------------------------------------
(* A worker that is gone.                                                  *)

\* The entry of a dead worker, seen from a worker that stays.
Overdue(w, x) ==
  age[w] # NoEntry =>
    /\ silentFor[w] <= age[w] + Latency \/ TTL(x) <= age[w]
    /\ TTL(x) <= age[w] => silentFor[w] + NextBeat(x) <= TTL(x) + 2 * Latency + Beats(x)

\* What the next beat and the beats to come amount to.
LEMMA NextBeatTypes ==
  ASSUME RTypes, NEW x \in Worker, Beating(x)
  PROVE  /\ NextBeat(x) \in Nat /\ Beats(x) \in Nat
         /\ NextBeat(x) <= BeatInterval(x) + 2 * Latency
         /\ BeatInterval(x) + Latency <= Beats(x)
<1> DEFINE c == BeatInterval(x) + Latency
           p == beatFaults * c
<1>1. /\ beatIn[x] \in Nat /\ beat[x] \in {"asleep", "sent", "scored"}
      /\ BeatInterval(x) \in Nat /\ Latency \in Nat /\ c \in Nat /\ p \in Nat /\ beatFaults \in Nat
  BY WorkerTypes, BeatTypes, OneMore, Zenon
<1>2. beatIn[x] <= IF beat[x] = "asleep" THEN BeatInterval(x) ELSE Latency
  BY Zenon DEF Beating
<1>3. NextBeat(x) \in Nat /\ NextBeat(x) <= BeatInterval(x) + 2 * Latency
  <2> HIDE DEF BeatInterval
  <2> QED BY <1>1, <1>2 DEF NextBeat
<1>4. Beats(x) = p + c
  <2>1. Beats(x) = (1 + beatFaults) * c
    BY Zenon DEF Beats
  <2> HIDE DEF c
  <2> QED BY <1>1, <2>1, SMTT(30)
<1> HIDE DEF BeatInterval, p
<1> QED BY <1>1, <1>3, <1>4

\* A step of a worker that stays takes it no further from its next beat than
\* the failed beats allow, unless it is the beat itself.
LEMMA NextBeatStep ==
  ASSUME RTypes, NEW x \in Worker, Beating(x),
         Beat(x) \/ BeatOK(x) \/ BeatFailed(x)
  PROVE  /\ NextBeat(x)' \in Nat /\ Beats(x)' \in Nat
         /\ NextBeat(x)' + Beats(x) <= NextBeat(x) + Beats(x)'
<1> DEFINE c == BeatInterval(x) + Latency
<1>1. /\ beatIn[x] \in Nat /\ beat[x] \in {"asleep", "sent", "scored"}
      /\ BeatInterval(x) \in Nat /\ Latency \in Nat /\ c \in Nat /\ beatFaults \in Nat
      /\ Beats(x) \in Nat
  BY WorkerTypes, BeatTypes, NextBeatTypes, Zenon
<1>2. CASE Beat(x)
  <2>1. beat[x] = "asleep" /\ beatIn[x] = 0 /\ Send(x) /\ beatFaults' = beatFaults
    BY <1>2, Zenon DEF Beat
  <2>2. beat'[x] = "sent" /\ beatIn'[x] = Latency
    BY <2>1, SendFacts, Zenon
  <2>3. NextBeat(x)' = Latency
    BY <2>2 DEF NextBeat
  <2>4. NextBeat(x) = Latency
    BY <1>1, <2>1 DEF NextBeat
  <2>5. Beats(x)' = Beats(x)
    BY <2>1, Zenon DEF Beats
  <2> QED BY <1>1, <2>3, <2>4, <2>5
<1>3. CASE BeatOK(x) \/ BeatFailed(x)
  <2>1. beat[x] # "asleep" /\ Rest(x)
    BY <1>3 DEF BeatOK, BeatFailed
  <2>2. beat'[x] = "asleep" /\ beatIn'[x] = BeatInterval(x)
    BY <2>1, RestFacts, Zenon
  <2>3. NextBeat(x)' = c
    BY <2>2, Zenon DEF NextBeat
  <2>4. (BeatOK(x) /\ beat[x] = "scored" /\ Beats(x)' = Beats(x)) \/ Beats(x)' = Beats(x) + c
    <3>1. BeatOK(x) => beat[x] = "scored" /\ Beats(x)' = Beats(x)
      BY Zenon DEF BeatOK, Beats
    <3>2. BeatFailed(x) => Beats(x)' = (1 + (beatFaults + 1)) * c
      BY Zenon DEF BeatFailed, Beats
    <3>3. (1 + (beatFaults + 1)) * c = (1 + beatFaults) * c + c
      BY <1>1, OneMore, Zenon
    <3> QED BY <1>3, <3>1, <3>2, <3>3, Zenon DEF Beats
  <2>5. NextBeat(x) \in Nat /\ (beat[x] = "scored" => NextBeat(x) = beatIn[x] + c)
    <3> HIDE DEF BeatInterval
    <3> QED BY <1>1 DEF NextBeat
  <2> HIDE DEF BeatInterval
  <2> QED BY <1>1, <2>3, <2>4, <2>5
<1> QED BY <1>2, <1>3

\* The entry is as old as it was, and the worker that stays not further from
\* its next beat.
LEMMA OverdueSame ==
  ASSUME RTypes, NEW w \in Worker, NEW x \in Worker, Beating(x), Overdue(w, x),
         age'[w] = age[w], silentFor'[w] = silentFor[w],
         NextBeat(x)' \in Nat, Beats(x)' \in Nat,
         NextBeat(x)' + Beats(x) <= NextBeat(x) + Beats(x)'
  PROVE  Overdue(w, x)'
<1> DEFINE n == NextBeat(x)
           b == Beats(x)
           t == TTL(x)
           n1 == NextBeat(x)'
           b1 == Beats(x)'
<1>1. /\ n \in Nat /\ b \in Nat /\ n1 \in Nat /\ b1 \in Nat /\ n1 + b <= n + b1
      /\ t \in Nat /\ Latency \in Nat /\ silentFor[w] \in Nat
  BY NextBeatTypes, BeatTypes, WorkerTypes, Zenon
<1>2. ASSUME silentFor[w] + n <= t + 2 * Latency + b
      PROVE  silentFor[w] + n1 <= t + 2 * Latency + b1
  <2> HIDE DEF n, b, t, n1, b1
  <2> QED BY <1>1, <1>2
<1> QED BY <1>2, Zenon DEF Overdue

\* Every step keeps what is known of the entry of a dead worker.
LEMMA OverdueStep ==
  ASSUME RTypes, \A w \in Worker : Beating(w), RegistryNext,
         NEW w \in Worker, NEW x \in Worker \ Mortal, Fades(w, x), alive'[w] = "gone"
  PROVE  Overdue(w, x)'
<1> DEFINE n == NextBeat(x)
           b == Beats(x)
<1>0. /\ x \in Worker /\ Beating(x) /\ Latency \in Nat /\ TTL(x) \in Nat \ {0}
      /\ n \in Nat /\ b \in Nat /\ n <= BeatInterval(x) + 2 * Latency
      /\ BeatInterval(x) + Latency <= b /\ BeatInterval(x) \in Nat
      /\ silentFor[w] \in Nat /\ age[w] \in Nat \cup {NoEntry} /\ NoEntry \notin Nat
      /\ MaxAge \in Nat /\ TTL(x) <= MaxAge
  BY NextBeatTypes, BeatTypes, WorkerTypes, Zenon
<1>1. n + b <= n + b
  BY <1>0
<1>2. alive[x] # "gone" /\ (alive[w] = "gone" => w # x)
  BY Zenon DEF Beating
<1>3. alive[w] = "gone" => Overdue(w, x)
  BY Zenon DEF Fades, Overdue
<1>4. ASSUME NEW y \in Worker \ {x, w},
             Join(y) \/ Beat(y) \/ BeatOK(y) \/ BeatFailed(y) \/ Die(y)
      PROVE  Overdue(w, x)'
  <2>1. /\ alive[w] = "gone" /\ beat'[x] = beat[x] /\ beatIn'[x] = beatIn[x]
    BY <1>4 DEF Join, Beat, BeatOK, BeatFailed, Die, Send, Rest, RTypes
  <2>2. age' = age /\ silentFor' = silentFor
    BY <1>4, Zenon DEF Join, Beat, BeatOK, BeatFailed, Die
  <2>3. NextBeat(x)' = n
    BY <2>1, Zenon DEF NextBeat
  <2>4. Beats(x)' \in Nat /\ b <= Beats(x)'
    <3>1. CASE beatFaults' = beatFaults
      <4>1. Beats(x)' = b
        BY <3>1, Zenon DEF Beats
      <4> HIDE DEF b
      <4> QED BY <1>0, <4>1
    <3>2. CASE beatFaults' = beatFaults + 1
      <4> DEFINE c == BeatInterval(x) + Latency
      <4>1. Beats(x)' = (1 + (beatFaults + 1)) * c /\ b = (1 + beatFaults) * c
        BY <3>2, Zenon DEF Beats
      <4>2. c \in Nat /\ (1 + (beatFaults + 1)) * c = (1 + beatFaults) * c + c
        BY OneMore, BeatTypes, WorkerTypes, Zenon
      <4>3. Beats(x)' = b + c
        BY <4>1, <4>2, Zenon
      <4> HIDE DEF b, c
      <4> QED BY <1>0, <4>2, <4>3
    <3>3. beatFaults' \in {beatFaults, beatFaults + 1}
      BY <1>4 DEF Join, Beat, BeatOK, BeatFailed, Die
    <3> QED BY <3>1, <3>2, <3>3
  <2>5. NextBeat(x)' \in Nat /\ NextBeat(x)' + b <= n + Beats(x)'
    <3> HIDE DEF n, b
    <3> QED BY <1>0, <2>3, <2>4
  <2> QED BY <1>0, <1>3, <2>1, <2>2, <2>4, <2>5, OverdueSame, Zenon
<1>5. CASE Beat(x) \/ BeatOK(x) \/ BeatFailed(x)
  <2>1. age' = age /\ silentFor' = silentFor /\ alive' = alive
    BY <1>5, Zenon DEF Beat, BeatOK, BeatFailed
  <2>2. /\ NextBeat(x)' \in Nat /\ Beats(x)' \in Nat
        /\ NextBeat(x)' + Beats(x) <= NextBeat(x) + Beats(x)'
    BY <1>0, <1>5, NextBeatStep
  <2> QED BY <1>0, <1>3, <2>1, <2>2, OverdueSame, Zenon
<1>6. CASE Join(x)
  <2>1. /\ alive[x] = "off" /\ Send(x) /\ age' = age /\ silentFor' = silentFor
        /\ beatFaults' = beatFaults
    BY <1>6, Zenon DEF Join
  <2>2. silentFor'[w] = 0 /\ age'[w] = age[w]
    BY <2>1, Zenon DEF Fades
  <2>3. NextBeat(x)' = Latency
    <3>1. beat'[x] = "sent" /\ beatIn'[x] = Latency
      BY <1>0, <2>1, SendFacts, Zenon
    <3> QED BY <3>1 DEF NextBeat
  <2>4. Beats(x)' = b
    BY <2>1, Zenon DEF Beats
  <2>5. /\ age[w] # NoEntry => 0 <= age[w] + Latency
        /\ 0 + Latency <= TTL(x) + 2 * Latency + b
    <3> HIDE DEF b, TTL
    <3> QED BY <1>0
  <2> QED BY <2>2, <2>3, <2>4, <2>5, Zenon DEF Overdue
<1>7. CASE Die(w)
  <2>1. /\ alive[w] = "up" /\ UNCHANGED <<beat, beatIn, age, silentFor, beatFaults>>
    BY <1>7, Zenon DEF Die
  <2>2. silentFor'[w] = 0 /\ age'[w] = age[w]
    <3>1. alive[w] # "gone"
      BY <2>1
    <3> QED BY <2>1, <3>1, Zenon DEF Beating
  <2>3. NextBeat(x)' = n /\ Beats(x)' = b
    BY <2>1, Zenon DEF NextBeat, Beats
  <2>4. /\ age[w] # NoEntry => 0 <= age[w] + Latency
        /\ 0 + n <= TTL(x) + 2 * Latency + b
    <3> HIDE DEF n, b, TTL, BeatInterval
    <3> QED BY <1>0
  <2> QED BY <2>2, <2>3, <2>4, Zenon DEF Overdue
<1>8. ASSUME NEW y \in Worker, Heartbeat(y)
      PROVE  Overdue(w, x)'
  <2>1. /\ alive[w] = "gone" /\ silentFor' = silentFor /\ beatIn' = beatIn
        /\ beatFaults' = beatFaults /\ beat[y] = "sent"
    BY <1>8, Zenon DEF Heartbeat
  <2>2. /\ age'[w] = (IF w = y THEN 0
                      ELSE IF age[w] # NoEntry /\ age[w] >= TTL(y) THEN NoEntry ELSE age[w])
    BY <1>8, Zenon DEF Heartbeat
  <2>3. CASE y = w
    <3>1. silentFor[w] <= Latency - beatIn[w] /\ beatIn[w] \in Nat
      BY <2>1, <2>3, WorkerTypes, Zenon DEF Fades
    <3>2. silentFor[w] <= 0 + Latency /\ ~ (TTL(x) <= 0)
      <4> HIDE DEF TTL
      <4> QED BY <1>0, <3>1
    <3> QED BY <2>1, <2>2, <2>3, <3>2, Zenon DEF Overdue
  <2>4. CASE y = x
    <3>1. age'[w] # NoEntry => age'[w] = age[w] /\ ~ (TTL(x) <= age[w])
      <4> HIDE DEF TTL
      <4> QED BY <1>0, <1>2, <2>1, <2>2, <2>4
    <3>2. age'[w] # NoEntry => silentFor[w] <= age[w] + Latency
      BY <1>3, <2>1, <3>1, Zenon DEF Overdue
    <3> QED BY <2>1, <3>1, <3>2, Zenon DEF Overdue
  <2>5. CASE y # w /\ y # x
    <3>1. beat'[x] = beat[x]
      BY <1>8, <2>5 DEF Heartbeat, RTypes
    <3>2. NextBeat(x)' = n /\ Beats(x)' = b
      BY <2>1, <3>1, Zenon DEF NextBeat, Beats
    <3>3. CASE age'[w] = age[w]
      BY <1>0, <1>1, <1>3, <2>1, <3>2, <3>3, OverdueSame, Zenon
    <3>4. CASE age'[w] = NoEntry
      BY <3>4, Zenon DEF Overdue
    <3> QED BY <2>2, <2>5, <3>3, <3>4, Zenon
  <2> QED BY <2>3, <2>4, <2>5
<1>9. CASE Pass
  <2>1. /\ alive[w] = "gone" /\ alive[x] = "up" /\ beatIn[x] > 0 /\ beatFaults' = beatFaults
        /\ beat'[x] = beat[x] /\ beatIn'[x] = beatIn[x] - 1
    BY <1>9, Zenon DEF Pass
  <2>2. /\ age'[w] = (IF age[w] # NoEntry /\ age[w] < MaxAge THEN age[w] + 1 ELSE age[w])
        /\ silentFor'[w] \in {silentFor[w] + 1, 0}
    BY <1>9 DEF Pass
  <2>3. NextBeat(x)' = n - 1 /\ Beats(x)' = b
    <3>1. Beats(x)' = b
      BY <2>1, Zenon DEF Beats
    <3>2. beatIn[x] \in Nat /\ BeatInterval(x) \in Nat
      BY <1>0, WorkerTypes, Zenon
    <3> HIDE DEF BeatInterval
    <3> QED BY <1>0, <2>1, <3>1, <3>2 DEF NextBeat
  <2>4. age[w] # NoEntry =>
          /\ silentFor[w] <= age[w] + Latency \/ TTL(x) <= age[w]
          /\ TTL(x) <= age[w] => silentFor[w] + n <= TTL(x) + 2 * Latency + b
    BY <1>3, <2>1, Zenon DEF Overdue
  <2>5. age'[w] # NoEntry =>
          /\ silentFor'[w] <= age'[w] + Latency \/ TTL(x) <= age'[w]
          /\ TTL(x) <= age'[w] => silentFor'[w] + (n - 1) <= TTL(x) + 2 * Latency + b
    <3> HIDE DEF n, b, TTL, BeatInterval, MaxAge
    <3> QED BY <1>0, <2>2, <2>4
  <2> QED BY <2>3, <2>5, Zenon DEF Overdue
<1>10. ASSUME NEW y \in {w}, Join(y) \/ Beat(y) \/ BeatOK(y) \/ BeatFailed(y)
       PROVE  FALSE
  BY <1>10 DEF Join, Beat, BeatOK, BeatFailed, RTypes
<1>11. ~ Die(x)
  BY Zenon DEF Die
<1> QED BY <1>4, <1>5, <1>6, <1>7, <1>8, <1>9, <1>10, <1>11, Zenon DEF RegistryNext

\* Every step keeps what is known of a dead worker.
LEMMA FadesStep ==
  ASSUME RTypes, \A w \in Worker : Beating(w), RegistryNext,
         NEW w \in Worker, NEW x \in Worker \ Mortal, Fades(w, x)
  PROVE  Fades(w, x)'
<1>0. /\ Latency \in Nat /\ TTL(w) \in Nat /\ beatIn[w] \in Nat /\ record[w] \in Nat
      /\ silentFor[w] \in Nat /\ record[w] <= TTL(w) /\ x \in Worker
  BY BeatTypes, WorkerTypes, Zenon DEF Beating
<1>1. alive'[x] = "off" => silentFor'[w] = 0
  <2> SUFFICES ASSUME alive'[x] = "off" PROVE silentFor'[w] = 0
    OBVIOUS
  <2>1. alive[x] = "off" /\ silentFor' = silentFor
    BY <1>0 DEF RegistryNext, Join, Beat, Heartbeat, BeatOK, BeatFailed, Die, Pass, RTypes
  <2> QED BY <2>1, Zenon DEF Fades
<1>2. ASSUME alive'[w] = "gone"
      PROVE  /\ beat'[w] = "sent" => silentFor'[w] <= Latency - beatIn'[w]
             /\ record'[w] > 0 => silentFor'[w] + record'[w] <= TTL(w) + Latency
  <2>1. CASE Die(w)
    <3>1. alive[w] # "gone" /\ UNCHANGED <<beat, beatIn, record, silentFor>>
      BY <2>1 DEF Die
    <3>2. silentFor[w] = 0 /\ (beat[w] = "sent" => beatIn[w] <= Latency)
      BY <3>1 DEF Beating
    <3> HIDE DEF TTL
    <3> QED BY <1>0, <3>1, <3>2
  <2>2. ASSUME alive[w] = "gone"
        PROVE  /\ beat[w] = "sent" => silentFor[w] <= Latency - beatIn[w]
               /\ record[w] > 0 => silentFor[w] + record[w] <= TTL(w) + Latency
    BY <2>2, Zenon DEF Fades
  <2>3. CASE Heartbeat(w)
    <3>1. /\ alive[w] = "gone" /\ beat[w] = "sent" /\ beat'[w] = "scored" /\ record'[w] = TTL(w)
          /\ silentFor' = silentFor
      BY <1>2, <2>3, Zenon DEF Heartbeat, RTypes
    <3> HIDE DEF TTL
    <3> QED BY <1>0, <2>2, <3>1
  <2>4. ASSUME NEW y \in Worker \ {w},
               Join(y) \/ Beat(y) \/ Heartbeat(y) \/ BeatOK(y) \/ BeatFailed(y) \/ Die(y)
        PROVE  /\ alive[w] = "gone" /\ beat'[w] = beat[w] /\ beatIn'[w] = beatIn[w]
               /\ record'[w] = record[w] /\ silentFor'[w] = silentFor[w]
    <3>1. beat'[w] = beat[w] /\ beatIn'[w] = beatIn[w]
      BY <2>4 DEF Join, Beat, Heartbeat, BeatOK, BeatFailed, Die, Send, Rest, RTypes
    <3>2. alive'[w] = alive[w] /\ record'[w] = record[w] /\ silentFor'[w] = silentFor[w]
      BY <2>4 DEF Join, Beat, Heartbeat, BeatOK, BeatFailed, Die, RTypes
    <3> QED BY <1>2, <3>1, <3>2, Zenon
  <2>5. CASE Pass
    <3>1. /\ alive[w] = "gone"
          /\ beat'[w] = (IF beatIn[w] > 0 THEN beat[w] ELSE "asleep")
          /\ beatIn'[w] = (IF beatIn[w] > 0 THEN beatIn[w] - 1 ELSE 0)
          /\ record'[w] = (IF record[w] > 0 THEN record[w] - 1 ELSE 0)
      BY <1>2, <2>5, Zenon DEF Pass
    <3>2. silentFor'[w] \in {silentFor[w] + 1, 0}
      BY <2>5 DEF Pass
    <3>3. (beat[w] = "sent" => beatIn[w] <= Latency)
      BY DEF Beating
    <3> HIDE DEF TTL
    <3> QED BY <1>0, <2>2, <3>1, <3>2, <3>3
  <2>6. ASSUME Join(w) \/ Beat(w) \/ BeatOK(w) \/ BeatFailed(w)
        PROVE  FALSE
    BY <1>2, <2>6 DEF Join, Beat, BeatOK, BeatFailed, RTypes
  <2> QED BY <2>1, <2>2, <2>3, <2>4, <2>5, <2>6, Zenon DEF RegistryNext
<1>3. alive'[w] = "gone" => Overdue(w, x)'
  BY OverdueStep, Zenon
<1> QED BY <1>1, <1>2, <1>3, Zenon DEF Fades, Overdue

-----------------------------------------------------------------------------
(* The theorems.                                                           *)

\* RInv is an invariant of the registry.
THEOREM RegistryTyped == RegistrySpec => []RInv
<1>1. RegistryInit => RInv
  <2> SUFFICES ASSUME RegistryInit PROVE RInv
    OBVIOUS
  <2>1. RTypes
    BY DEF RegistryInit, RTypes
  <2>2. ASSUME NEW w \in Worker
        PROVE  Beating(w) /\ Current(w) /\ \A x \in Worker \ Mortal : Fades(w, x)
    <3>1. /\ beatIn[w] = 0 /\ record[w] = 0 /\ silentFor[w] = 0 /\ alive[w] = "off"
          /\ age[w] = NoEntry /\ beat[w] = "asleep"
      BY <2>2, Zenon DEF RegistryInit
    <3>2. BeatInterval(w) \in Nat /\ TTL(w) \in Nat
      BY BeatTypes, Zenon
    <3> HIDE DEF BeatInterval, TTL
    <3> QED BY <3>1, <3>2 DEF Beating, Current, Fades
  <2> QED BY <2>1, <2>2, Zenon DEF RInv
<1>2. RInv /\ [RegistryNext]_registryVars => RInv'
  <2> SUFFICES ASSUME RInv, [RegistryNext]_registryVars PROVE RInv'
    OBVIOUS
  <2>1. CASE RegistryNext
    <3>1. RTypes /\ \A w \in Worker : Beating(w) /\ Current(w)
      BY Zenon DEF RInv
    <3>2. \A w \in Worker, x \in Worker \ Mortal : Fades(w, x)
      BY Zenon DEF RInv
    <3>3. RTypes' /\ \A w \in Worker : Beating(w)'
      BY <2>1, <3>1, BeatingStep, Zenon
    <3>4. \A w \in Worker : Current(w)'
      BY <2>1, <3>1, CurrentStep, Zenon
    <3>5. \A w \in Worker, x \in Worker \ Mortal : Fades(w, x)'
      BY <2>1, <3>1, <3>2, FadesStep, Zenon
    <3> QED BY <3>3, <3>4, <3>5, Zenon DEF RInv
  <2>2. CASE UNCHANGED registryVars
    <3>1. RTypes /\ RTypes'
      BY <2>2, Zenon DEF registryVars, RInv, RTypes
    <3>2. ASSUME NEW w \in Worker, NEW x \in Worker \ Mortal
          PROVE  Fades(w, x)'
      <4>1. NextBeat(x)' = NextBeat(x) /\ Beats(x)' = Beats(x)
        BY <2>2, Zenon DEF registryVars, NextBeat, Beats
      <4> QED BY <2>2, <4>1, Zenon DEF registryVars, RInv, Fades
    <3>3. ASSUME NEW w \in Worker PROVE Beating(w)' /\ Current(w)'
      <4>1. Current(w)'
        BY <2>2, CurrentSame, Zenon DEF registryVars, RInv
      <4> QED BY <2>2, <4>1, Zenon DEF registryVars, RInv, Beating
    <3> QED BY <3>1, <3>2, <3>3, Zenon DEF RInv
  <2> QED BY <2>1, <2>2
<1> QED BY <1>1, <1>2, PTL DEF RegistrySpec

\* A dead worker does not linger, in its record or in the sorted set, whatever
\* the visibility timeouts, the latency and the number of failed beats, and
\* whether or not its last beat was under way when it died (heartbeat.lua
\* prunes "anything that has stopped reporting").
THEOREM PhantomsFade == RegistrySpec => []PhantomBound
<1>1. RInv => PhantomBound
  <2> SUFFICES ASSUME RInv, NEW w \in Worker, alive[w] = "gone"
               PROVE  /\ record[w] > 0 => silentFor[w] < TTL(w) + Latency
                      /\ age[w] # NoEntry => \A x \in Worker \ Mortal :
                           silentFor[w] <= TTL(x) + 2 * Latency + Beats(x)
    BY Zenon DEF PhantomBound, Beats
  <2>0. RTypes /\ \A x \in Worker : Beating(x)
    BY Zenon DEF RInv
  <2>1. PICK z \in Worker \ Mortal : TRUE
    BY TimingAssumption, Zenon
  <2>2. record[w] \in Nat /\ silentFor[w] \in Nat /\ TTL(w) \in Nat /\ Latency \in Nat
    BY <2>0, WorkerTypes, BeatTypes, Zenon
  <2>3. record[w] > 0 => silentFor[w] < TTL(w) + Latency
    <3>1. record[w] > 0 => silentFor[w] + record[w] <= TTL(w) + Latency
      BY <2>1, Zenon DEF RInv, Fades
    <3> HIDE DEF TTL
    <3> QED BY <2>2, <3>1
  <2>4. ASSUME age[w] # NoEntry, NEW x \in Worker \ Mortal
        PROVE  silentFor[w] <= TTL(x) + 2 * Latency + Beats(x)
    <3>1. /\ age[w] \in Nat /\ TTL(x) \in Nat /\ NextBeat(x) \in Nat /\ Beats(x) \in Nat
      BY <2>0, <2>4, NextBeatTypes, WorkerTypes, BeatTypes, Zenon
    <3>2. /\ silentFor[w] <= age[w] + Latency \/ TTL(x) <= age[w]
          /\ TTL(x) <= age[w] => silentFor[w] + NextBeat(x) <= TTL(x) + 2 * Latency + Beats(x)
      BY <2>4, Zenon DEF RInv, Fades
    <3> HIDE DEF TTL
    <3> QED BY <2>2, <3>1, <3>2
  <2> QED BY <2>3, <2>4, Zenon
<1> QED BY <1>1, RegistryTyped, PTL

\* When two intervals of any worker and three calls are shorter than the time
\* to live every worker prunes with, a worker that reports, with at most one
\* failed beat since, stays listed (maintenance.go: "one slow round trip does
\* not make a healthy worker vanish from the operator's view").
THEOREM HealthyStayListed ==
  ASSUME \A w, x \in Worker : 2 * BeatInterval(w) + 3 * Latency < TTL(x)
  PROVE  RegistrySpec => HealthyListed
<1>1. RInv /\ [RegistryNext]_registryVars =>
        [\A w \in Worker : Registered(w) /\ alive'[w] = "up" /\ missed'[w] <= 1 =>
           Registered(w)']_registryVars
  <2> SUFFICES ASSUME RInv, RegistryNext, NEW w \in Worker,
                      Registered(w), alive'[w] = "up", missed'[w] <= 1
               PROVE  Registered(w)'
    BY Zenon DEF registryVars
  <2>1. RTypes /\ Beating(w) /\ Current(w)
    BY Zenon DEF RInv
  <2>2. /\ beatIn[w] \in Nat /\ missed[w] \in Nat /\ record[w] \in Nat
        /\ beat[w] \in {"asleep", "sent", "scored"} /\ age[w] \in Nat \cup {NoEntry}
        /\ NoEntry \notin Nat /\ BeatInterval(w) \in Nat /\ Latency \in Nat
        /\ TTL(w) \in Nat \ {0} /\ MaxAge \in Nat
    BY <2>1, WorkerTypes, BeatTypes, Zenon
  <2>3. age[w] \in Nat /\ age[w] # NoEntry /\ record[w] > 0
    BY <2>2, Zenon DEF Registered
  <2>4. ASSUME alive[w] = "up", missed[w] <= 1
        PROVE  /\ age[w] <= SinceBeat(w) /\ TTL(w) <= record[w] + SinceBeat(w)
               /\ SinceBeat(w) \in Int /\ SinceBeat(w) + beatIn[w] <= 2 * BeatInterval(w) + 3 * Latency
    <3> DEFINE c == BeatInterval(w) + Latency
               p == missed[w] * c
    <3>1. p \in Nat /\ p <= c
      <4>0. c \in Nat /\ c <= c /\ 0 <= c
        BY <2>2
      <4>1. 0 * c = 0 /\ 1 * c = c /\ p \in Nat
        BY <2>2, <4>0, OneMore, Zenon
      <4>2. missed[w] = 0 \/ missed[w] = 1
        BY <2>2, <2>4
      <4> QED BY <4>0, <4>1, <4>2, Zenon
    <3>2. SinceBeat(w) = IF beat[w] = "scored" THEN Latency - beatIn[w]
            ELSE Latency + p + (IF beat[w] = "asleep" THEN BeatInterval(w) ELSE c) - beatIn[w]
      BY Zenon DEF SinceBeat
    <3>3. SinceBeat(w) \in Int /\ SinceBeat(w) + beatIn[w] <= 2 * BeatInterval(w) + 3 * Latency
      <4> HIDE DEF BeatInterval, p
      <4> QED BY <2>2, <3>1, <3>2
    <3> QED BY <2>1, <2>3, <2>4, <3>3, Zenon DEF Current
  <2>5. ASSUME NEW y \in Worker,
               Join(y) \/ Beat(y) \/ BeatOK(y) \/ BeatFailed(y) \/ Die(y)
        PROVE  Registered(w)'
    <3>1. age' = age /\ record' = record
      BY <2>5, Zenon DEF Join, Beat, BeatOK, BeatFailed, Die
    <3> QED BY <3>1, Zenon DEF Registered
  <2>6. ASSUME NEW y \in Worker, Heartbeat(y)
        PROVE  Registered(w)'
    <3>1. /\ alive[w] = "up" /\ missed[w] <= 1
          /\ age'[w] = (IF w = y THEN 0
                        ELSE IF age[w] # NoEntry /\ age[w] >= TTL(y) THEN NoEntry ELSE age[w])
      BY <2>6, Zenon DEF Heartbeat
    <3>2. record'[w] = record[w] \/ record'[w] = TTL(w)
      BY <2>1, <2>6 DEF Heartbeat, RTypes
    <3>3. TTL(y) \in Nat /\ 2 * BeatInterval(w) + 3 * Latency < TTL(y)
      BY BeatTypes, Zenon
    <3>4. age[w] <= SinceBeat(w) /\ SinceBeat(w) \in Int
          /\ SinceBeat(w) + beatIn[w] <= 2 * BeatInterval(w) + 3 * Latency
      BY <2>4, <3>1, Zenon
    <3>5. ~ (age[w] >= TTL(y))
      <4> HIDE DEF TTL, BeatInterval
      <4> QED BY <2>2, <2>3, <3>3, <3>4
    <3>6. age'[w] = 0 \/ age'[w] = age[w]
      BY <3>1, <3>5, Zenon
    <3> HIDE DEF TTL
    <3> QED BY <2>2, <2>3, <3>2, <3>6 DEF Registered
  <2>7. CASE Pass
    <3>1. /\ alive[w] = "up" /\ missed[w] <= 1 /\ beatIn[w] > 0
          /\ age'[w] = (IF age[w] # NoEntry /\ age[w] < MaxAge THEN age[w] + 1 ELSE age[w])
          /\ record'[w] = (IF record[w] > 0 THEN record[w] - 1 ELSE 0)
      BY <2>7, Zenon DEF Pass
    <3>2. 2 * BeatInterval(w) + 3 * Latency < TTL(w)
      BY Zenon
    <3>3. TTL(w) <= record[w] + SinceBeat(w) /\ SinceBeat(w) \in Int
          /\ SinceBeat(w) + beatIn[w] <= 2 * BeatInterval(w) + 3 * Latency
      BY <2>4, <3>1, Zenon
    <3> HIDE DEF TTL, BeatInterval, MaxAge
    <3> QED BY <2>2, <2>3, <3>1, <3>2, <3>3 DEF Registered
  <2> QED BY <2>5, <2>6, <2>7, Zenon DEF RegistryNext
<1> QED BY <1>1, RegistryTyped, PTL DEF RegistrySpec, HealthyListed
=============================================================================
