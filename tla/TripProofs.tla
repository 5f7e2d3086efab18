----------------------------- MODULE TripProofs -----------------------------
(***************************************************************************)
(* What holds of the trips for all durations, every number of commands,    *)
(* resets and missed answers, and a clock that runs as long as it likes.   *)
(***************************************************************************)
EXTENDS Trip, WellFoundedInduction, TLAPS

Parking == pc \in {"standby", "parked"}

(* An event in work is between its start and its record.                     *)
PlaceInv ==
  /\ event.kind # "none" => pc \in {"odo", "list", "list_again", "name1", "name2", "emit"}
  /\ event.kind = "none" => pc # "emit" /\ event.then = "rest"
  /\ pc \in {"name1", "name2"} => phones \in 1..2

(* The device and the logbook agree, but for the event in work and a trip    *)
(* that the web page ends.                                                   *)
LogbookInv ==
  /\ event.kind = "start" => last.kind # "start" /\ engineOn
  /\ event.kind = "stop" => last.kind = "start" /\ ~engineOn
  /\ event.kind = "none" /\ ~Parking => (engineOn <=> last.kind = "start")

(* A wake-up is later than the last event, and so is the event in work; a    *)
(* running engine was alive at its start, or an RPM window before it.        *)
TimeInv ==
  /\ last.at <= now /\ alive <= now /\ wake <= now
  /\ wake # 0 => last.at <= wake /\ ~engineOn /\ event.kind = "none"
  /\ event.kind = "start" => last.at <= event.at /\ event.at <= now
  /\ event.kind = "stop" => last.at < event.at + RpmWindow /\ event.at <= now
  /\ engineOn => /\ alive # 0
                 /\ (IF event.kind = "start" THEN event.at ELSE last.at) < alive + RpmWindow
  /\ age.rpm < RpmWindow => alive # 0 /\ now <= alive + age.rpm

(* Cycles without an answer make the last RPM old, and OBD is off for a      *)
(* cycle before it is on again.                                              *)
Old(n) == age.rpm >= n \/ age.rpm = RpmWindow
RpmInv ==
  /\ pc \notin {"obd", "tick"} => Old(silent)
  /\ pc = "obd" => Old(silent + 1)
  /\ pc = "tick" => (obd /\ cycle = 1) \/ Old(silent + 1)
  /\ ~obd /\ ~Parking => Old(IF sniff /\ pc # "obd" THEN 1 ELSE 2)

(* An RPM older than the last event that still starts an engine is met with  *)
(* OBD off, until the engine has started or the RPM is too old.              *)
Stale == Young("rpm") /\ ~engineOn /\ (turned => event.kind = "stop")
GhostInv ==
  Stale /\ ~Parking /\ event.then = "rest" =>
    /\ ~obd
    /\ pc = "tick" \/ sniff \/ (pc # "obd" /\ Old(2))

(* What the device counts is no more than the cycles it heard nothing.       *)
QuietInv ==
  engineOn =>
    \/ (silent <= quiet /\ (pc = "tick" /\ cycle = 0 => silent < quiet \/ quiet = SilentCycles))
    \/ (pc = "tick" /\ obd /\ cycle = 1)

TripInv == TypeOK /\ PlaceInv /\ LogbookInv /\ TimeInv /\ RpmInv /\ QuietInv

-----------------------------------------------------------------------------
(* The windows and what is measured with them. *)

Ages == {a \in [DOMAIN Window -> Nat] : \A k \in DOMAIN Window : a[k] <= Window[k]}

(* The windows are durations.                                                *)
LEMMA WindowValues ==
  /\ DOMAIN Window = {"rpm", "wake", "low", "sniff", "still"}
  /\ \A k \in DOMAIN Window : Window[k] \in Nat
  /\ Window["rpm"] = RpmWindow /\ RpmWindow \in Nat \ {0} /\ SilentCycles \in Nat \ {0}
  /\ MaxTime \in Nat \ {0}
BY TripAssumption DEF Window

(* Something happens: its age begins again.                                  *)
LEMMA AgeReset ==
  ASSUME NEW a \in Ages, NEW k \in DOMAIN Window
  PROVE  /\ [a EXCEPT ![k] = 0] \in Ages
         /\ [a EXCEPT ![k] = 0]["rpm"] = IF k = "rpm" THEN 0 ELSE a["rpm"]
BY WindowValues DEF Ages

(* Time passes: ages grow up to their windows, the clock up to its bound.    *)
LEMMA PassEffect ==
  ASSUME NEW a \in Ages, NEW d \in 0..1, now \in 1..MaxTime, Pass(a, d)
  PROVE  /\ age' \in Ages /\ age'["rpm"] = Capped(a["rpm"] + d, RpmWindow)
         /\ now' \in 1..MaxTime /\ now <= now' /\ now' <= now + d
<1>1. age' = [k \in DOMAIN Window |-> Capped(a[k] + d, Window[k])]
  BY DEF Pass, Older
<1>2. \A k \in DOMAIN Window : /\ a[k] \in Nat /\ Window[k] \in Nat /\ a[k] + d \in Nat
                               /\ Capped(a[k] + d, Window[k]) \in Nat
                               /\ Capped(a[k] + d, Window[k]) <= Window[k]
  BY WindowValues DEF Ages, Capped
<1>3. age' \in Ages
  BY <1>1, <1>2 DEF Ages
<1>4. age'["rpm"] = Capped(a["rpm"] + d, RpmWindow)
  BY <1>1, WindowValues
<1> QED BY <1>3, <1>4, WindowValues DEF Pass, Capped

(* After a restart every age is at its window but the wake-up's.             *)
LEMMA BootAges ==
  ASSUME NEW since \in Nat, since <= Window["wake"]
  PROVE  /\ [Window EXCEPT !.still = 0, !.wake = since] \in Ages
         /\ [Window EXCEPT !.still = 0, !.wake = since]["rpm"] = RpmWindow
         /\ [Window EXCEPT !.still = 0] \in Ages
<1> DEFINE a == [Window EXCEPT !.still = 0]
           b == [Window EXCEPT !.still = 0, !.wake = since]
<1>1. Window \in Ages /\ "still" \in DOMAIN Window /\ "wake" \in DOMAIN Window
  BY WindowValues DEF Ages, Window
<1>2. a \in Ages /\ a["rpm"] = RpmWindow
  BY <1>1, WindowValues, AgeReset
<1>3. b = [k \in DOMAIN Window |-> IF k = "wake" THEN since ELSE a[k]]
  BY WindowValues DEF Window
<1> HIDE DEF a
<1>4. b \in Ages /\ b["rpm"] = a["rpm"]
  BY <1>1, <1>2, <1>3, WindowValues DEF Ages
<1> QED BY <1>2, <1>4 DEF a

(* At the first start too.                                                   *)
LEMMA InitWindow ==
  [Window EXCEPT !.still = 0] \in Ages /\ [Window EXCEPT !.still = 0]["rpm"] = RpmWindow
<1>1. Window \in Ages /\ "still" \in DOMAIN Window
  BY WindowValues DEF Ages, Window
<1> QED BY <1>1, WindowValues, AgeReset

(* The first tick of a wake-up is within its window.                         *)
LEMMA WakeWindowLong == 1 <= Window["wake"] /\ Window["wake"] \in Nat
BY TripAssumption DEF Window

-----------------------------------------------------------------------------
(* What the steps do to the clock and the ages. *)

(* The types that the proofs about times need.                               *)
LEMMA TimesTyped ==
  ASSUME TypeOK
  PROVE  /\ now \in 1..MaxTime /\ alive \in 0..MaxTime /\ wake \in 0..MaxTime
         /\ age \in Ages /\ age["rpm"] \in 0..RpmWindow
         /\ silent \in 0..SilentCycles /\ quiet \in 0..SilentCycles /\ cycle \in -1..1
BY WindowValues DEF TypeOK, ClockTypes, CountTypes, Ages

(* OBD is polled: the RPM is read, something else is, nothing is; or sniff   *)
(* mode or a missing ECU leaves it alone.                                    *)
Aged(d) == age'["rpm"] = Capped(age["rpm"] + d, RpmWindow) /\ UNCHANGED <<alive, turned>>
Longer == quiet' = Capped(quiet + 1, SilentCycles)
PollOutcome(d) ==
  /\ now' <= now + d
  /\ \/ /\ obd /\ obd' /\ ~sniff /\ ~sniff' /\ cycle' = 1 /\ quiet' = 0
        /\ \/ age'["rpm"] = Capped(d, RpmWindow) /\ alive' = now /\ turned'
           \/ Aged(d)
     \/ obd /\ obd' /\ ~sniff /\ ~sniff' /\ cycle' = 0 /\ Longer /\ Aged(d)
     \/ /\ UNCHANGED cycle /\ (sniff' \/ ~obd') /\ (obd' => obd) /\ (obd /\ ~obd' => sniff')
        /\ Longer /\ Aged(d)

(* A poll has one of these outcomes.                                         *)
LEMMA PollEffect ==
  ASSUME TypeOK, Poll
  PROVE  /\ age' \in Ages /\ now' \in 1..MaxTime /\ now <= now'
         /\ \E d \in 0..1 : PollOutcome(d)
<1>0. now \in 1..MaxTime /\ age \in Ages
  BY TimesTyped
<1>1. PICK d \in 0..1 : NoPoll(d) \/ Turning(d) \/ Answered(d) \/ Unanswered(d)
  BY DEF Poll
<1>2. CASE NoPoll(d)
  <2>1. Since \in Ages /\ Since["rpm"] = age["rpm"]
    <3>1. "sniff" \in DOMAIN Window
      BY WindowValues
    <3>2. [age EXCEPT !.sniff = 0] \in Ages /\ [age EXCEPT !.sniff = 0]["rpm"] = age["rpm"]
      BY <1>0, <3>1, AgeReset
    <3>3. Since = [age EXCEPT !.sniff = 0] \/ Since = age
      BY DEF Since
    <3> QED BY <1>0, <3>2, <3>3
  <2>2. /\ age' \in Ages /\ age'["rpm"] = Capped(age["rpm"] + d, RpmWindow)
        /\ now' \in 1..MaxTime /\ now <= now' /\ now' <= now + d
    BY <1>0, <1>2, <2>1, PassEffect DEF NoPoll
  <2>3. UNCHANGED <<cycle, alive, turned>> /\ (sniff' \/ ~obd') /\ quiet' = Capped(quiet + 1, SilentCycles)
    BY <1>2 DEF NoPoll
  <2>4. (obd' => obd) /\ (obd /\ ~obd' => sniff')
    BY <1>2 DEF NoPoll, SniffTick
  <2> QED BY <1>0, <2>2, <2>3, <2>4 DEF PollOutcome, Aged, Longer
<1>3. CASE Turning(d)
  <2> DEFINE a == [[age EXCEPT !.rpm = 0] EXCEPT !.still = 0]
  <2>1. a \in Ages /\ a["rpm"] = 0
    <3>1. "rpm" \in DOMAIN Window /\ "still" \in DOMAIN Window
      BY WindowValues
    <3>2. [age EXCEPT !.rpm = 0] \in Ages /\ [age EXCEPT !.rpm = 0]["rpm"] = 0
      BY <1>0, <3>1, AgeReset
    <3> QED BY <3>1, <3>2, AgeReset
  <2>2. Pass(a, d)
    BY <1>3 DEF Turning
  <2> HIDE DEF a
  <2>3. /\ age' \in Ages /\ age'["rpm"] = Capped(d, RpmWindow)
        /\ now' \in 1..MaxTime /\ now <= now' /\ now' <= now + d
    BY <1>0, <2>1, <2>2, PassEffect
  <2>4. /\ obd /\ UNCHANGED <<obd, sniff>> /\ ~sniff
        /\ cycle' = 1 /\ quiet' = 0 /\ alive' = now /\ turned' = TRUE
    BY <1>3 DEF Turning
  <2> QED BY <2>3, <2>4 DEF PollOutcome
<1>4. CASE Answered(d) \/ Unanswered(d)
  <2>1. Pass(age, d) /\ UNCHANGED <<obd, sniff, alive, turned>> /\ obd /\ ~sniff
    BY <1>4 DEF Answered, Unanswered
  <2>2. /\ age' \in Ages /\ age'["rpm"] = Capped(age["rpm"] + d, RpmWindow)
        /\ now' \in 1..MaxTime /\ now <= now' /\ now' <= now + d
    BY <1>0, <2>1, PassEffect
  <2>3. \/ cycle' = 1 /\ quiet' = 0
        \/ cycle' = 0 /\ quiet' = Capped(quiet + 1, SilentCycles)
    BY <1>4 DEF Answered, Unanswered
  <2> QED BY <1>0, <2>1, <2>2, <2>3 DEF PollOutcome, Aged, Longer
<1> QED BY <1>1, <1>2, <1>3, <1>4

(* engineTick() does not age the RPM.                                        *)
LEMMA TickAges ==
  ASSUME TypeOK, EngineTick
  PROVE  age' \in Ages /\ age'["rpm"] = age["rpm"]
<1>1. age \in Ages /\ {"still", "low"} \subseteq DOMAIN Window
  BY TimesTyped, WindowValues
<1>2. Still \in Ages /\ Still["rpm"] = age["rpm"]
  BY <1>1, AgeReset DEF Still
<1>3. [Still EXCEPT !.low = 0] \in Ages /\ [Still EXCEPT !.low = 0]["rpm"] = age["rpm"]
  BY <1>1, <1>2, AgeReset
<1>4. age' = Still \/ age' = [Still EXCEPT !.low = 0]
  BY DEF EngineTick, EngineStarts, StaysOff, EcuDecides, VoltageDecides
<1> QED BY <1>2, <1>3, <1>4

-----------------------------------------------------------------------------
(* What the steps do to the trip. *)

(* A restart forgets what is in RAM; a trip that runs is cut.                *)
Booted(woken) ==
  /\ pc' = "obd" /\ cycle' = -1 /\ silent' = 0 /\ quiet' = 0 /\ above' = 0 /\ phones' = 0
  /\ alive' = 0 /\ wake' = woken /\ event' = NoEvent /\ limit' = limit
  /\ sniff' = FALSE /\ low' = FALSE /\ checked' = FALSE /\ turned' = FALSE
  /\ engineOn' = FALSE /\ obd' \in BOOLEAN
  /\ last' = [last EXCEPT !.kind = IF last.kind = "start" THEN "cut" ELSE last.kind]

(* A restart does just that.                                                 *)
LEMMA BootEffect ==
  ASSUME NEW woken, NEW since, Boot(woken, since)
  PROVE  Booted(woken)
<1>1. obd' = FALSE \/ obd' = (engine # "off")
  BY DEF Boot, InRam
<1>2. (engine # "off") \in BOOLEAN
  OBVIOUS
<1>3. obd' \in BOOLEAN
  BY <1>1, <1>2, Zenon
<1> QED BY <1>3 DEF Boot, InRam, Cut, Booted

(* A running engine's end is dated by its last sign of life.                 *)
StopsAt(then, at) ==
  /\ engineOn /\ engineOn' = FALSE /\ pc' = "odo"
  /\ event' = [kind |-> "stop", at |-> at, then |-> then]
StaysStopped(then) == ~engineOn /\ pc' = then /\ UNCHANGED <<engineOn, event>>

(* engineStop() dates the end so, or finds no running engine.                *)
LEMMA StopEffect ==
  ASSUME TypeOK, NEW then, EngineStop(then)
  PROVE  \/ StaysStopped(then)
         \/ \E at \in 0..MaxTime : StopsAt(then, at) /\ at = IF alive # 0 THEN alive ELSE now
<1>1. CASE ~engineOn
  BY <1>1 DEF EngineStop, StaysStopped
<1>2. CASE engineOn
  <2> DEFINE at == IF alive # 0 THEN alive ELSE now
  <2>1. at \in 0..MaxTime
    BY TimesTyped
  <2>2. StopsAt(then, at)
    BY <1>2 DEF EngineStop, EmitEngineEvent, StopsAt
  <2> QED BY <1>2, <2>1, <2>2
<1> QED BY <1>1, <1>2

(* The voltage without OBD is a sign of life.                                *)
LEMMA AliveTyped ==
  ASSUME TypeOK
  PROVE  Alive \in 0..MaxTime /\ (Alive = now \/ Alive = alive) /\ (high /\ ~obd => Alive = now)
BY TimesTyped DEF Alive

(* What engineTick() leaves alone.                                           *)
LEMMA TickFrame ==
  ASSUME EngineTick
  PROVE  /\ pc = "tick" /\ UNCHANGED <<now, sniff, obd, cycle, quiet, turned, last, checked, limit,
                                       above, changes, phones, read, engine, high>>
BY DEF EngineTick, car, park, can

(* The engine starts: at a wake-up not long ago, or now.                     *)
StartsAt(at) ==
  /\ at = now \/ (wake # 0 /\ at = wake)
  /\ event' = [kind |-> "start", at |-> at, then |-> "rest"]
  /\ alive' = (IF Alive = 0 THEN at ELSE Alive) /\ alive' \in 1..MaxTime
  /\ ~engineOn /\ (Young("rpm") \/ (high /\ ~obd))
  /\ pc' = "odo" /\ engineOn' = TRUE /\ wake' = 0 /\ silent' = 0 /\ low' = FALSE

(* engineTick() starts the engine so.                                        *)
LEMMA StartsEffect ==
  ASSUME TypeOK, EngineStarts
  PROVE  \E at \in 1..MaxTime : StartsAt(at)
<1> DEFINE at == IF wake # 0 /\ Young("wake") THEN wake ELSE now
<1>1. at \in 1..MaxTime /\ (at = now \/ (wake # 0 /\ at = wake))
  BY TimesTyped
<1>2. /\ ~engineOn /\ Starts /\ engineOn' = TRUE /\ wake' = 0 /\ silent' = 0 /\ low' = FALSE
      /\ event' = [kind |-> "start", at |-> at, then |-> "rest"] /\ pc' = "odo"
      /\ alive' = IF Alive = 0 THEN at ELSE Alive
  BY DEF EngineStarts, EmitEngineEvent
<1> HIDE DEF at
<1>3. alive' \in 1..MaxTime
  BY <1>1, <1>2, AliveTyped
<1> QED BY <1>1, <1>2, <1>3 DEF Starts, StartsAt

(* With OBD the cycles without an answer are counted, and end the trip.      *)
LEMMA EcuEffect ==
  ASSUME TypeOK, EcuDecides
  PROVE  /\ engineOn /\ obd /\ alive' = alive /\ UNCHANGED <<wake, low>>
         /\ silent' \in 0..SilentCycles
         /\ \/ silent' = 0
            \/ cycle = 0 /\ silent' = Capped(silent + 1, SilentCycles)
            \/ cycle \notin {0, 1} /\ silent' = silent
         /\ \/ /\ silent' = SilentCycles
               /\ \E at \in 0..MaxTime : StopsAt("rest", at) /\ at = IF alive # 0 THEN alive ELSE now
            \/ UNCHANGED <<engineOn, event>> /\ pc' \in {"rest", "odo"}
<1>0. silent \in 0..SilentCycles /\ SilentCycles \in Nat \ {0} /\ cycle \in -1..1
  BY TimesTyped, WindowValues
<1>1. /\ engineOn /\ obd /\ alive' = alive /\ UNCHANGED <<wake, low>>
      /\ silent' = Capped(NowSilent, SilentCycles)
      /\ (NowSilent >= SilentCycles /\ EngineStop("rest")) \/
         (UNCHANGED <<engineOn, event>> /\ pc' \in {"rest", "odo"})
  BY DEF EcuDecides, NoNews, Go
<1>2. /\ NowSilent \in Nat
      /\ NowSilent = 0 \/ (cycle = 0 /\ NowSilent = silent + 1) \/ (cycle \notin {0, 1} /\ NowSilent = silent)
  BY <1>0 DEF NowSilent
<1>3. silent' = IF NowSilent < SilentCycles THEN NowSilent ELSE SilentCycles
  BY <1>1 DEF Capped
<1>4. silent' \in 0..SilentCycles /\ (NowSilent >= SilentCycles => silent' = SilentCycles)
  BY <1>0, <1>2, <1>3
<1>5. \/ silent' = 0
      \/ cycle = 0 /\ silent' = Capped(silent + 1, SilentCycles)
      \/ cycle \notin {0, 1} /\ silent' = silent
  <2>1. CASE NowSilent = 0
    BY <1>0, <1>3, <2>1
  <2>2. CASE cycle = 0 /\ NowSilent = silent + 1
    BY <1>3, <2>2 DEF Capped
  <2>3. CASE cycle \notin {0, 1} /\ NowSilent = silent
    BY <1>0, <1>3, <2>3
  <2> QED BY <1>2, <2>1, <2>2, <2>3
<1>6. EngineStop("rest") =>
        \E at \in 0..MaxTime : StopsAt("rest", at) /\ at = IF alive # 0 THEN alive ELSE now
  BY <1>1, StopEffect DEF StaysStopped
<1> HIDE DEF NowSilent
<1> QED BY <1>1, <1>4, <1>5, <1>6

(* Without OBD a voltage that stays low ends the trip.                       *)
LEMMA VoltEffect ==
  ASSUME TypeOK, VoltageDecides
  PROVE  /\ engineOn /\ ~obd /\ alive' = Alive /\ UNCHANGED <<wake, silent>> /\ low' = ~high
         /\ \/ \E at \in 0..MaxTime : StopsAt("rest", at) /\ at = IF alive' # 0 THEN alive' ELSE now
            \/ UNCHANGED <<engineOn, event>> /\ pc' \in {"rest", "odo"}
<1> DEFINE at == IF Alive # 0 THEN Alive ELSE now
<1>1. at \in 0..MaxTime
  BY TimesTyped, AliveTyped
<1>2. /\ engineOn /\ ~obd /\ alive' = Alive /\ UNCHANGED <<wake, silent>> /\ low' = ~high
      /\ StopsAt("rest", at) \/ (UNCHANGED <<engineOn, event>> /\ pc' \in {"rest", "odo"})
  BY DEF VoltageDecides, EmitEngineEvent, NoNews, Go, StopsAt
<1> QED BY <1>1, <1>2

(* The end of a cycle waits for the next one, or is the end of the trip.     *)
LEMMA RestEffect ==
  ASSUME TypeOK, Rest
  PROVE  /\ age' \in Ages /\ now' \in 1..MaxTime /\ now <= now'
         /\ \/ /\ pc' = "obd" /\ UNCHANGED <<engineOn, event>> /\ now' <= now + 1
               /\ age'["rpm"] = Capped(age["rpm"] + 1, RpmWindow)
            \/ /\ UNCHANGED <<now, age>>
               /\ \/ StaysStopped("standby")
                  \/ \E at \in 0..MaxTime : /\ StopsAt("standby", at)
                                            /\ at = IF alive # 0 THEN alive ELSE now
<1>0. now \in 1..MaxTime /\ age \in Ages /\ "still" \in DOMAIN Window
  BY TimesTyped, WindowValues
<1>1. PICK moves \in BOOLEAN :
        LET a == IF moves THEN [age EXCEPT !.still = 0] ELSE age IN NoEcu(a) \/ CountsDown(a)
  BY DEF Rest
<1> DEFINE a == IF moves THEN [age EXCEPT !.still = 0] ELSE age
<1>2. a \in Ages /\ a["rpm"] = age["rpm"] /\ (NoEcu(a) \/ CountsDown(a))
  BY <1>0, <1>1, AgeReset
<1> HIDE DEF a
<1>3. ASSUME Pass(a, 1)
      PROVE  /\ age' \in Ages /\ age'["rpm"] = Capped(age["rpm"] + 1, RpmWindow)
             /\ now' \in 1..MaxTime /\ now <= now' /\ now' <= now + 1
  BY <1>0, <1>2, <1>3, PassEffect
<1>4. \/ UNCHANGED <<age, now>> /\ EngineStop("standby")
      \/ pc' = "obd" /\ UNCHANGED <<engineOn, event>> /\ Pass(a, 1)
  BY <1>2 DEF NoEcu, CountsDown, Go
<1>5. CASE UNCHANGED <<age, now>> /\ EngineStop("standby")
  <2>1. \/ StaysStopped("standby")
        \/ \E at \in 0..MaxTime : /\ StopsAt("standby", at)
                                  /\ at = IF alive # 0 THEN alive ELSE now
    BY <1>5, StopEffect
  <2> QED BY <1>0, <1>5, <2>1
<1> QED BY <1>3, <1>4, <1>5

(* Waiting for the voltage, and the restart it ends with.                    *)
Waited ==
  /\ UNCHANGED <<pc, poll, trip, checked, limit, event, can, last>> /\ above' \in 0..1
  /\ now' <= now + 1 /\ age'["rpm"] = Capped(age["rpm"] + 1, RpmWindow)

(* A parked device waits or restarts.                                        *)
LEMMA ParkedEffect ==
  ASSUME TypeOK, Parked
  PROVE  /\ age' \in Ages /\ now' \in 1..MaxTime /\ now <= now'
         /\ UNCHANGED <<engine, high, changes>> /\ pc = "parked"
         /\ Waited \/ (Booted(now) /\ age'["rpm"] = RpmWindow)
<1>0. /\ now \in 1..MaxTime /\ age \in Ages /\ MaxTime \in Nat
      /\ UNCHANGED <<engine, high, changes>> /\ pc = "parked"
  BY TimesTyped, WindowValues DEF Parked, car, Steady
<1>1. CASE high /\ above = 1
  <2>1. Boot(now, 1) /\ now' = Capped(now + 1, MaxTime)
    BY <1>1 DEF Parked
  <2>2. age' \in Ages /\ age'["rpm"] = RpmWindow
    BY <2>1, BootAges, WakeWindowLong DEF Boot
  <2> QED BY <1>0, <2>1, <2>2, BootEffect DEF Capped
<1>2. CASE ~(high /\ above = 1)
  <2>1. /\ Pass(age, 1) /\ UNCHANGED <<pc, poll, trip, checked, limit, event, can, last>>
        /\ above' \in 0..1
    BY <1>2 DEF Parked
  <2> QED BY <1>0, <2>1, PassEffect DEF Waited
<1> QED BY <1>1, <1>2

(* A restart keeps the age of the wake-up.                                   *)
LEMMA ResetEffect ==
  ASSUME TypeOK, Reset
  PROVE  age' \in Ages /\ age'["rpm"] = RpmWindow /\ now' = now /\ Booted(0)
<1>1. age["wake"] \in Nat /\ age["wake"] <= Window["wake"]
  BY TimesTyped, WindowValues DEF Ages
<1> QED BY <1>1, BootAges, BootEffect DEF Reset, Boot

-----------------------------------------------------------------------------
(* Types. *)

(* The clock, the times of events and the ages keep their types.             *)
LEMMA NextClock ==
  ASSUME TripInv, [Next]_vars
  PROVE  ClockTypes'
<1>0. /\ TypeOK /\ now \in 1..MaxTime /\ alive \in 0..MaxTime /\ wake \in 0..MaxTime
      /\ age \in Ages /\ MaxTime \in Nat
  BY TimesTyped, WindowValues DEF TripInv
<1> SUFFICES now' \in 1..MaxTime /\ alive' \in 0..MaxTime /\ wake' \in 0..MaxTime /\ age' \in Ages
  BY DEF ClockTypes, Ages
<1>1. CASE Poll
  BY <1>0, <1>1, PollEffect DEF PollOutcome, Aged, Poll, Go, car, poll, trip, park, can
<1>2. CASE EngineTick /\ EngineStarts
  <2>1. PICK at \in 1..MaxTime : StartsAt(at)
    BY <1>0, <1>2, StartsEffect
  <2> QED BY <1>0, <1>2, <2>1, TickFrame, TickAges DEF StartsAt
<1>3. CASE EngineTick /\ StaysOff
  BY <1>0, <1>3, TickFrame, TickAges, AliveTyped DEF StaysOff, Go
<1>4. CASE EngineTick /\ EcuDecides
  <2>1. CASE engineOn /\ UNCHANGED <<engineOn, event>> /\ pc' \in {"rest", "odo"}
    BY <1>0, <1>4, <2>1, TickFrame, TickAges, EcuEffect
  <2>2. ASSUME NEW at \in 0..MaxTime, StopsAt("rest", at),
               at = IF alive # 0 THEN alive ELSE now
        PROVE  now' \in 1..MaxTime /\ alive' \in 0..MaxTime /\ wake' \in 0..MaxTime /\ age' \in Ages
    BY <1>0, <1>4, <2>2, TickFrame, TickAges, EcuEffect DEF StopsAt
  <2> QED BY <1>0, <1>4, <2>1, <2>2, EcuEffect
<1>5. CASE EngineTick /\ VoltageDecides
  <2>1. CASE engineOn /\ UNCHANGED <<engineOn, event>> /\ pc' \in {"rest", "odo"}
    BY <1>0, <1>5, <2>1, TickFrame, TickAges, VoltEffect, AliveTyped
  <2>2. ASSUME NEW at \in 0..MaxTime, StopsAt("rest", at),
               at = IF alive' # 0 THEN alive' ELSE now
        PROVE  now' \in 1..MaxTime /\ alive' \in 0..MaxTime /\ wake' \in 0..MaxTime /\ age' \in Ages
    BY <1>0, <1>5, <2>2, TickFrame, TickAges, VoltEffect, AliveTyped DEF StopsAt
  <2> QED BY <1>0, <1>5, <2>1, <2>2, VoltEffect
<1>6. CASE Rest
  <2>1. CASE pc' = "obd" /\ UNCHANGED <<engineOn, event>>
    BY <1>0, <1>6, <2>1, RestEffect DEF Rest, poll, car, AddOdo
  <2>2. CASE StaysStopped("standby")
    BY <1>0, <1>6, <2>2, RestEffect DEF Rest, poll, car, AddOdo, StaysStopped
  <2>3. ASSUME NEW at \in 0..MaxTime, StopsAt("standby", at), UNCHANGED now,
               at = IF alive # 0 THEN alive ELSE now
        PROVE  now' \in 1..MaxTime /\ alive' \in 0..MaxTime /\ wake' \in 0..MaxTime /\ age' \in Ages
    BY <1>0, <1>6, <2>3, RestEffect DEF Rest, poll, car, AddOdo, StopsAt
  <2> QED BY <1>0, <1>6, <2>1, <2>2, <2>3, RestEffect
<1>7. CASE Parked
  <2>0. /\ age' \in Ages /\ now' \in 1..MaxTime /\ now <= now' /\ UNCHANGED <<engine, high, changes>>
        /\ pc = "parked" /\ (Waited \/ (Booted(now) /\ age'["rpm"] = RpmWindow))
    BY <1>0, <1>7, ParkedEffect
  <2>1. CASE Booted(now) /\ age'["rpm"] = RpmWindow
    BY <1>0, <2>0, <2>1 DEF Booted
  <2>2. CASE Waited
    BY <1>0, <2>0, <2>2 DEF Waited, poll, trip, can
  <2> QED BY <2>0, <2>1, <2>2
<1>8. CASE Reset
  BY <1>0, <1>8, ResetEffect DEF Reset, Booted, car
<1>9. CASE ObdInit \/ OdoRead \/ FuelRead \/ ListRead \/ NameRead \/ Emit \/ Standby
  BY <1>0, <1>9
  DEF ObdInit, trip, park, can, car, OdoRead, FuelRead, ListRead, AfterPhones, NameRead, Emit,
      AddOdo, Standby, Go, poll
<1>10. CASE Car \/ WebOff \/ SetLimit \/ UNCHANGED vars
  BY <1>0, <1>10 DEF Car, WebOff, SetLimit, vars, Go, car, poll, trip, park, can
<1> QED BY <1>1, <1>2, <1>3, <1>4, <1>5, <1>6, <1>7, <1>8, <1>9, <1>10
        DEF Next, MainTask, EngineTick

(* The event in work and the last one are events.                            *)
LEMMA NextEvent ==
  ASSUME TripInv, [Next]_vars
  PROVE  EventTypes'
<1>0. TypeOK /\ EventTypes
  BY DEF TripInv, TypeOK
<1>00. NoEvent \in [kind : {"none", "start", "stop"}, at : 0..MaxTime, then : {"rest", "standby"}]
  BY WindowValues DEF NoEvent
<1> USE DEF EventTypes
<1>1. CASE Poll
  BY <1>0, <1>1 DEF Poll, Go, car, poll, trip, park, can
<1>2. CASE EngineTick /\ EngineStarts
  <2>1. PICK at \in 1..MaxTime : StartsAt(at)
    BY <1>0, <1>2, StartsEffect
  <2> QED BY <1>0, <1>2, <2>1, TickFrame, TickAges DEF StartsAt
<1>3. CASE EngineTick /\ StaysOff
  BY <1>0, <1>3, TickFrame, TickAges, AliveTyped DEF StaysOff, Go
<1>4. CASE EngineTick /\ EcuDecides
  <2>1. CASE engineOn /\ UNCHANGED <<engineOn, event>> /\ pc' \in {"rest", "odo"}
    BY <1>0, <1>4, <2>1, TickFrame, TickAges, EcuEffect
  <2>2. ASSUME NEW at \in 0..MaxTime, StopsAt("rest", at),
               at = IF alive # 0 THEN alive ELSE now
        PROVE  EventTypes'
    BY <1>0, <1>4, <2>2, TickFrame, TickAges, EcuEffect DEF StopsAt
  <2> QED BY <1>0, <1>4, <2>1, <2>2, EcuEffect
<1>5. CASE EngineTick /\ VoltageDecides
  <2>1. CASE engineOn /\ UNCHANGED <<engineOn, event>> /\ pc' \in {"rest", "odo"}
    BY <1>0, <1>5, <2>1, TickFrame, TickAges, VoltEffect, AliveTyped
  <2>2. ASSUME NEW at \in 0..MaxTime, StopsAt("rest", at),
               at = IF alive' # 0 THEN alive' ELSE now
        PROVE  EventTypes'
    BY <1>0, <1>5, <2>2, TickFrame, TickAges, VoltEffect, AliveTyped DEF StopsAt
  <2> QED BY <1>0, <1>5, <2>1, <2>2, VoltEffect
<1>6. CASE Rest
  <2>1. CASE pc' = "obd" /\ UNCHANGED <<engineOn, event>>
    BY <1>0, <1>6, <2>1, RestEffect DEF Rest, poll, car, AddOdo
  <2>2. CASE StaysStopped("standby")
    BY <1>0, <1>6, <2>2, RestEffect DEF Rest, poll, car, AddOdo, StaysStopped
  <2>3. ASSUME NEW at \in 0..MaxTime, StopsAt("standby", at), UNCHANGED now,
               at = IF alive # 0 THEN alive ELSE now
        PROVE  EventTypes'
    BY <1>0, <1>6, <2>3, RestEffect DEF Rest, poll, car, AddOdo, StopsAt
  <2> QED BY <1>0, <1>6, <2>1, <2>2, <2>3, RestEffect
<1>7. CASE Parked
  <2>0. /\ age' \in Ages /\ now' \in 1..MaxTime /\ now <= now' /\ UNCHANGED <<engine, high, changes>>
        /\ pc = "parked" /\ (Waited \/ (Booted(now) /\ age'["rpm"] = RpmWindow))
    BY <1>0, <1>7, ParkedEffect
  <2>1. CASE Booted(now) /\ age'["rpm"] = RpmWindow
    BY <1>0, <2>0, <2>1, <1>00 DEF Booted
  <2>2. CASE Waited
    BY <1>0, <2>0, <2>2, <1>00 DEF Waited, poll, trip, can
  <2> QED BY <2>0, <2>1, <2>2
<1>8. CASE Reset
  BY <1>0, <1>8, ResetEffect, <1>00 DEF Reset, Booted, car
<1>9. CASE ObdInit \/ OdoRead \/ FuelRead \/ ListRead \/ NameRead \/ Standby
  BY <1>0, <1>9
  DEF ObdInit, trip, park, can, car, OdoRead, FuelRead, ListRead, AfterPhones, NameRead,
      Standby, Go, poll
<1>10. CASE Emit
  BY <1>0, <1>10, <1>00 DEF Emit, AddOdo, Go, car, poll, trip, park, can
<1>11. CASE WebOff
  BY <1>0, <1>11 DEF WebOff, Go, car, poll, trip, park, can
<1>12. CASE Car \/ SetLimit \/ UNCHANGED vars
  BY <1>0, <1>12 DEF Car, SetLimit, vars, Go, car, poll, trip, park, can
<1> QED BY <1>1, <1>2, <1>3, <1>4, <1>5, <1>6, <1>7, <1>8, <1>9, <1>10, <1>11, <1>12
        DEF Next, MainTask, EngineTick

(* The counters stay in their ranges.                                        *)
LEMMA NextCount ==
  ASSUME TripInv, [Next]_vars
  PROVE  CountTypes'
<1>0. /\ TypeOK /\ CountTypes /\ PlaceInv /\ SilentCycles \in Nat
  BY WindowValues DEF TripInv, TypeOK
<1>00. Longest \in Nat /\ MaxChange \in Nat /\ Limits \subseteq Nat
  BY TripAssumption
<1> USE DEF CountTypes
<1>1. CASE Poll
  BY <1>0, <1>1, <1>00
  DEF NoPoll, SniffTick, Turning, Answered, Unanswered, Change, Steady, Capped, Poll, Go, car,
      poll, trip, park, can
<1>2. CASE EngineTick /\ EngineStarts
  <2>1. PICK at \in 1..MaxTime : StartsAt(at)
    BY <1>0, <1>2, StartsEffect
  <2> QED BY <1>0, <1>2, <2>1, TickFrame, TickAges DEF StartsAt
<1>3. CASE EngineTick /\ StaysOff
  BY <1>0, <1>3, TickFrame, TickAges, AliveTyped DEF StaysOff, Go
<1>4. CASE EngineTick /\ EcuDecides
  <2>1. CASE engineOn /\ UNCHANGED <<engineOn, event>> /\ pc' \in {"rest", "odo"}
    BY <1>0, <1>4, <2>1, TickFrame, TickAges, EcuEffect
  <2>2. ASSUME NEW at \in 0..MaxTime, StopsAt("rest", at),
               at = IF alive # 0 THEN alive ELSE now
        PROVE  CountTypes'
    BY <1>0, <1>4, <2>2, TickFrame, TickAges, EcuEffect DEF StopsAt
  <2> QED BY <1>0, <1>4, <2>1, <2>2, EcuEffect
<1>5. CASE EngineTick /\ VoltageDecides
  <2>1. CASE engineOn /\ UNCHANGED <<engineOn, event>> /\ pc' \in {"rest", "odo"}
    BY <1>0, <1>5, <2>1, TickFrame, TickAges, VoltEffect, AliveTyped
  <2>2. ASSUME NEW at \in 0..MaxTime, StopsAt("rest", at),
               at = IF alive' # 0 THEN alive' ELSE now
        PROVE  CountTypes'
    BY <1>0, <1>5, <2>2, TickFrame, TickAges, VoltEffect, AliveTyped DEF StopsAt
  <2> QED BY <1>0, <1>5, <2>1, <2>2, VoltEffect
<1>6. CASE Rest
  BY <1>0, <1>6, <1>00
  DEF NoEcu, CountsDown, Change, Steady, Rest, AddOdo, StopsAt, StaysStopped, Go, car, poll,
      trip, park, can
<1>7. CASE Parked
  <2>0. /\ age' \in Ages /\ now' \in 1..MaxTime /\ now <= now' /\ UNCHANGED <<engine, high, changes>>
        /\ pc = "parked" /\ (Waited \/ (Booted(now) /\ age'["rpm"] = RpmWindow))
    BY <1>0, <1>7, ParkedEffect
  <2>1. CASE Booted(now) /\ age'["rpm"] = RpmWindow
    BY <1>0, <2>0, <2>1, <1>00 DEF Booted, park
  <2>2. CASE Waited
    BY <1>0, <2>0, <2>2, <1>00 DEF Waited, poll, trip, can, park
  <2> QED BY <2>0, <2>1, <2>2
<1>8. CASE Reset
  BY <1>0, <1>8, ResetEffect, <1>00 DEF Reset, Booted, car, Change
<1>9. CASE ObdInit
  BY <1>0, <1>9 DEF Capped, ObdInit, trip, park, can, car, Go, poll
<1>10. CASE OdoRead \/ FuelRead \/ ListRead \/ NameRead \/ Emit \/ Standby
  BY <1>0, <1>10
  DEF PlaceInv, OdoRead, FuelRead, ListRead, AfterPhones, NameRead, Emit, AddOdo, Standby, Go,
      car, poll, trip, park, can
<1>11. CASE WebOff
  BY <1>0, <1>11, <1>00 DEF Change, WebOff, Go, car, poll, trip, park, can
<1>12. CASE SetLimit
  BY <1>0, <1>12, <1>00 DEF Change, StandbyTime, Capped, SetLimit, Go, car, poll, trip, park, can
<1>13. CASE Car \/ UNCHANGED vars
  BY <1>0, <1>13 DEF Car, vars, Go, car, poll, trip, park, can
<1> QED BY <1>1, <1>2, <1>3, <1>4, <1>5, <1>6, <1>7, <1>8, <1>9, <1>10, <1>11, <1>12, <1>13
        DEF Next, MainTask, EngineTick

(* The places of the main task and the flags keep their types.               *)
LEMMA NextFlags ==
  ASSUME TripInv, [Next]_vars
  PROVE  FlagTypes'
<1>0. TypeOK /\ FlagTypes /\ event.then \in {"rest", "standby"}
  BY DEF TripInv, TypeOK, EventTypes
<1> USE DEF FlagTypes
<1>1. CASE Poll
  BY <1>0, <1>1
  DEF NoPoll, SniffTick, Turning, Answered, Unanswered, Poll, Go, car, poll, trip, park, can
<1>2. CASE EngineTick /\ EngineStarts
  <2>1. PICK at \in 1..MaxTime : StartsAt(at)
    BY <1>0, <1>2, StartsEffect
  <2> QED BY <1>0, <1>2, <2>1, TickFrame, TickAges DEF StartsAt
<1>3. CASE EngineTick /\ StaysOff
  BY <1>0, <1>3, TickFrame, TickAges, AliveTyped DEF StaysOff, Go
<1>4. CASE EngineTick /\ EcuDecides
  <2>1. CASE engineOn /\ UNCHANGED <<engineOn, event>> /\ pc' \in {"rest", "odo"}
    BY <1>0, <1>4, <2>1, TickFrame, TickAges, EcuEffect
  <2>2. ASSUME NEW at \in 0..MaxTime, StopsAt("rest", at),
               at = IF alive # 0 THEN alive ELSE now
        PROVE  FlagTypes'
    BY <1>0, <1>4, <2>2, TickFrame, TickAges, EcuEffect DEF StopsAt
  <2> QED BY <1>0, <1>4, <2>1, <2>2, EcuEffect
<1>5. CASE EngineTick /\ VoltageDecides
  <2>1. CASE engineOn /\ UNCHANGED <<engineOn, event>> /\ pc' \in {"rest", "odo"}
    BY <1>0, <1>5, <2>1, TickFrame, TickAges, VoltEffect, AliveTyped
  <2>2. ASSUME NEW at \in 0..MaxTime, StopsAt("rest", at),
               at = IF alive' # 0 THEN alive' ELSE now
        PROVE  FlagTypes'
    BY <1>0, <1>5, <2>2, TickFrame, TickAges, VoltEffect, AliveTyped DEF StopsAt
  <2> QED BY <1>0, <1>5, <2>1, <2>2, VoltEffect
<1>6. CASE Rest
  <2>1. CASE pc' = "obd" /\ UNCHANGED <<engineOn, event>>
    BY <1>0, <1>6, <2>1, RestEffect DEF Rest, poll, car, AddOdo, NoEcu, CountsDown
  <2>2. CASE StaysStopped("standby")
    BY <1>0, <1>6, <2>2, RestEffect DEF Rest, poll, car, AddOdo, StaysStopped, NoEcu, CountsDown
  <2>3. ASSUME NEW at \in 0..MaxTime, StopsAt("standby", at), UNCHANGED now,
               at = IF alive # 0 THEN alive ELSE now
        PROVE  FlagTypes'
    BY <1>0, <1>6, <2>3, RestEffect DEF Rest, poll, car, AddOdo, StopsAt, NoEcu, CountsDown
  <2> QED BY <1>0, <1>6, <2>1, <2>2, <2>3, RestEffect
<1>7. CASE Parked
  <2>0. /\ age' \in Ages /\ now' \in 1..MaxTime /\ now <= now' /\ UNCHANGED <<engine, high, changes>>
        /\ pc = "parked" /\ (Waited \/ (Booted(now) /\ age'["rpm"] = RpmWindow))
    BY <1>0, <1>7, ParkedEffect
  <2>1. CASE Booted(now) /\ age'["rpm"] = RpmWindow
    BY <1>0, <2>0, <2>1 DEF Booted
  <2>2. CASE Waited
    BY <1>0, <2>0, <2>2 DEF Waited, poll, trip, can
  <2> QED BY <2>0, <2>1, <2>2
<1>8. CASE Reset
  BY <1>0, <1>8, ResetEffect DEF Reset, Booted, car
<1>9. CASE ObdInit
  BY <1>0, <1>9 DEF ObdInit, trip, park, can, car, Go, poll
<1>10. CASE OdoRead
  BY <1>0, <1>10 DEF OdoRead, Go, car, poll, trip, park, can
<1>11. CASE FuelRead
  BY <1>0, <1>11 DEF FuelRead, Go, car, poll, trip, park, can
<1>12. CASE ListRead
  BY <1>0, <1>12 DEF ListRead, AfterPhones, Go, car, poll, trip, park, can
<1>13. CASE NameRead
  BY <1>0, <1>13 DEF NameRead, AfterPhones, Go, car, poll, trip, park, can
<1>14. CASE Emit
  BY <1>0, <1>14 DEF Emit, AddOdo, Go, car, poll, trip, park, can
<1>15. CASE Standby
  BY <1>0, <1>15 DEF Standby, Go, car, poll, trip, park, can
<1>16. CASE Car \/ WebOff \/ SetLimit \/ UNCHANGED vars
  BY <1>0, <1>16 DEF Car, WebOff, SetLimit, vars, Go, car, poll, trip, park, can
<1> QED BY <1>1, <1>2, <1>3, <1>4, <1>5, <1>6, <1>7, <1>8, <1>9, <1>10, <1>11, <1>12, <1>13,
           <1>14, <1>15, <1>16
        DEF Next, MainTask, EngineTick

-----------------------------------------------------------------------------
(* The invariants. *)

(* An event in work stays between its start and its record.                  *)
LEMMA NextPlace ==
  ASSUME TripInv, [Next]_vars
  PROVE  PlaceInv'
<1>0. /\ TypeOK /\ PlaceInv /\ event.kind \in {"none", "start", "stop"} /\ event.then \in {"rest", "standby"}
      /\ NoEvent.kind = "none" /\ NoEvent.then = "rest"
  BY DEF TripInv, TypeOK, EventTypes, NoEvent
<1> USE DEF PlaceInv
<1>1. CASE Poll
  BY <1>0, <1>1 DEF Poll, Go, car, poll, trip, park, can
<1>2. CASE EngineTick /\ EngineStarts
  <2>1. PICK at \in 1..MaxTime : StartsAt(at)
    BY <1>0, <1>2, StartsEffect
  <2> QED BY <1>0, <1>2, <2>1, TickFrame DEF StartsAt
<1>3. CASE EngineTick /\ StaysOff
  BY <1>0, <1>3, TickFrame DEF StaysOff, Go
<1>4. CASE EngineTick /\ EcuDecides
  <2>1. CASE engineOn /\ UNCHANGED <<engineOn, event>> /\ pc' \in {"rest", "odo"}
    BY <1>0, <1>4, <2>1, TickFrame, EcuEffect
  <2>2. ASSUME NEW at \in 0..MaxTime, StopsAt("rest", at),
               at = IF alive # 0 THEN alive ELSE now
        PROVE  PlaceInv'
    BY <1>0, <1>4, <2>2, TickFrame, EcuEffect DEF StopsAt
  <2> QED BY <1>0, <1>4, <2>1, <2>2, EcuEffect
<1>5. CASE EngineTick /\ VoltageDecides
  <2>1. CASE engineOn /\ UNCHANGED <<engineOn, event>> /\ pc' \in {"rest", "odo"}
    BY <1>0, <1>5, <2>1, TickFrame, VoltEffect, AliveTyped
  <2>2. ASSUME NEW at \in 0..MaxTime, StopsAt("rest", at),
               at = IF alive' # 0 THEN alive' ELSE now
        PROVE  PlaceInv'
    BY <1>0, <1>5, <2>2, TickFrame, VoltEffect, AliveTyped DEF StopsAt
  <2> QED BY <1>0, <1>5, <2>1, <2>2, VoltEffect
<1>6. CASE Rest
  <2>1. CASE pc' = "obd" /\ UNCHANGED <<engineOn, event>>
    BY <1>0, <1>6, <2>1, RestEffect DEF Rest, poll, car, AddOdo
  <2>2. CASE StaysStopped("standby")
    BY <1>0, <1>6, <2>2, RestEffect DEF Rest, poll, car, AddOdo, StaysStopped
  <2>3. ASSUME NEW at \in 0..MaxTime, StopsAt("standby", at), UNCHANGED now,
               at = IF alive # 0 THEN alive ELSE now
        PROVE  PlaceInv'
    BY <1>0, <1>6, <2>3, RestEffect DEF Rest, poll, car, AddOdo, StopsAt
  <2> QED BY <1>0, <1>6, <2>1, <2>2, <2>3, RestEffect
<1>7. CASE Parked
  <2>0. /\ age' \in Ages /\ now' \in 1..MaxTime /\ now <= now' /\ UNCHANGED <<engine, high, changes>>
        /\ pc = "parked" /\ (Waited \/ (Booted(now) /\ age'["rpm"] = RpmWindow))
    BY <1>0, <1>7, ParkedEffect
  <2>1. CASE Booted(now) /\ age'["rpm"] = RpmWindow
    BY <1>0, <2>0, <2>1 DEF Booted
  <2>2. CASE Waited
    BY <1>0, <2>0, <2>2 DEF Waited, poll, trip, can
  <2> QED BY <2>0, <2>1, <2>2
<1>8. CASE Reset
  BY <1>0, <1>8, ResetEffect DEF Reset, Booted, car
<1>9. CASE ObdInit
  BY <1>0, <1>9 DEF ObdInit, trip, park, can, car, Go, poll
<1>10. CASE OdoRead
  BY <1>0, <1>10 DEF OdoRead, Go, car, poll, trip, park, can
<1>11. CASE FuelRead
  BY <1>0, <1>11 DEF FuelRead, Go, car, poll, trip, park, can
<1>12. CASE ListRead
  BY <1>0, <1>12 DEF ListRead, AfterPhones, Go, car, poll, trip, park, can
<1>13. CASE NameRead
  BY <1>0, <1>13 DEF NameRead, AfterPhones, Go, car, poll, trip, park, can
<1>14. CASE Emit
  BY <1>0, <1>14 DEF Emit, AddOdo, Go, car, poll, trip, park, can
<1>15. CASE Standby \/ Car \/ WebOff
  BY <1>0, <1>15 DEF Standby, Car, WebOff, Go, car, poll, trip, park, can
<1>16. CASE SetLimit \/ UNCHANGED vars
  BY <1>0, <1>16 DEF SetLimit, vars, Go, car, poll, trip, park, can
<1> QED BY <1>1, <1>2, <1>3, <1>4, <1>5, <1>6, <1>7, <1>8, <1>9, <1>10, <1>11, <1>12, <1>13,
           <1>14, <1>15, <1>16
        DEF Next, MainTask, EngineTick

(* The device and the logbook go on to agree.                                *)
LEMMA NextLogbook ==
  ASSUME TripInv, [Next]_vars
  PROVE  LogbookInv'
<1>0. /\ TypeOK /\ PlaceInv /\ LogbookInv /\ event.kind \in {"none", "start", "stop"}
      /\ NoEvent.kind = "none" /\ last \in [kind : {"none", "start", "stop", "cut"}, at : 0..MaxTime]
      /\ event.then \in {"rest", "standby"}
  BY DEF TripInv, TypeOK, EventTypes, NoEvent
<1> USE DEF PlaceInv, LogbookInv, Parking
<1>1. CASE Poll
  BY <1>0, <1>1 DEF Poll, Go, car, poll, trip, park, can
<1>2. CASE EngineTick /\ EngineStarts
  <2>1. PICK at \in 1..MaxTime : StartsAt(at)
    BY <1>0, <1>2, StartsEffect
  <2> QED BY <1>0, <1>2, <2>1, TickFrame DEF StartsAt
<1>3. CASE EngineTick /\ StaysOff
  BY <1>0, <1>3, TickFrame DEF StaysOff, Go
<1>4. CASE EngineTick /\ EcuDecides
  <2>1. CASE engineOn /\ UNCHANGED <<engineOn, event>> /\ pc' \in {"rest", "odo"}
    BY <1>0, <1>4, <2>1, TickFrame, EcuEffect
  <2>2. ASSUME NEW at \in 0..MaxTime, StopsAt("rest", at),
               at = IF alive # 0 THEN alive ELSE now
        PROVE  LogbookInv'
    BY <1>0, <1>4, <2>2, TickFrame, EcuEffect DEF StopsAt
  <2> QED BY <1>0, <1>4, <2>1, <2>2, EcuEffect
<1>5. CASE EngineTick /\ VoltageDecides
  <2>1. CASE engineOn /\ UNCHANGED <<engineOn, event>> /\ pc' \in {"rest", "odo"}
    BY <1>0, <1>5, <2>1, TickFrame, VoltEffect, AliveTyped
  <2>2. ASSUME NEW at \in 0..MaxTime, StopsAt("rest", at),
               at = IF alive' # 0 THEN alive' ELSE now
        PROVE  LogbookInv'
    BY <1>0, <1>5, <2>2, TickFrame, VoltEffect, AliveTyped DEF StopsAt
  <2> QED BY <1>0, <1>5, <2>1, <2>2, VoltEffect
<1>6. CASE Rest
  <2>1. CASE pc' = "obd" /\ UNCHANGED <<engineOn, event>>
    BY <1>0, <1>6, <2>1, RestEffect DEF Rest, poll, car, AddOdo
  <2>2. CASE StaysStopped("standby")
    BY <1>0, <1>6, <2>2, RestEffect DEF Rest, poll, car, AddOdo, StaysStopped
  <2>3. ASSUME NEW at \in 0..MaxTime, StopsAt("standby", at), UNCHANGED now,
               at = IF alive # 0 THEN alive ELSE now
        PROVE  LogbookInv'
    BY <1>0, <1>6, <2>3, RestEffect DEF Rest, poll, car, AddOdo, StopsAt
  <2> QED BY <1>0, <1>6, <2>1, <2>2, <2>3, RestEffect
<1>7. CASE Parked
  <2>0. /\ age' \in Ages /\ now' \in 1..MaxTime /\ now <= now' /\ UNCHANGED <<engine, high, changes>>
        /\ pc = "parked" /\ (Waited \/ (Booted(now) /\ age'["rpm"] = RpmWindow))
    BY <1>0, <1>7, ParkedEffect
  <2>1. CASE Booted(now) /\ age'["rpm"] = RpmWindow
    BY <1>0, <2>0, <2>1 DEF Booted
  <2>2. CASE Waited
    BY <1>0, <2>0, <2>2 DEF Waited, poll, trip, can
  <2> QED BY <2>0, <2>1, <2>2
<1>8. CASE Reset
  BY <1>0, <1>8, ResetEffect DEF Reset, Booted, car
<1>9. CASE ObdInit
  BY <1>0, <1>9 DEF ObdInit, trip, park, can, car, Go, poll
<1>10. CASE OdoRead
  BY <1>0, <1>10 DEF OdoRead, Go, car, poll, trip, park, can
<1>11. CASE FuelRead
  BY <1>0, <1>11 DEF FuelRead, Go, car, poll, trip, park, can
<1>12. CASE ListRead
  BY <1>0, <1>12 DEF ListRead, AfterPhones, Go, car, poll, trip, park, can
<1>13. CASE NameRead
  BY <1>0, <1>13 DEF NameRead, AfterPhones, Go, car, poll, trip, park, can
<1>14. CASE Emit
  BY <1>0, <1>14 DEF Emit, AddOdo, Go, car, poll, trip, park, can
<1>15. CASE Standby \/ Car \/ SetLimit
  BY <1>0, <1>15 DEF Standby, Car, SetLimit, Go, car, poll, trip, park, can
<1>16. CASE WebOff
  BY <1>0, <1>16 DEF WebOff, Go, car, poll, trip, park, can
<1>17. CASE UNCHANGED vars
  BY <1>0, <1>17 DEF vars, Go, car, poll, trip, park, can
<1> QED BY <1>1, <1>2, <1>3, <1>4, <1>5, <1>6, <1>7, <1>8, <1>9, <1>10, <1>11, <1>12, <1>13,
           <1>14, <1>15, <1>16, <1>17
        DEF Next, MainTask, EngineTick

(* Events and signs of life stay in the order of the clock.                  *)
LEMMA NextTime ==
  ASSUME TripInv, [Next]_vars
  PROVE  TimeInv'
<1>0. /\ TypeOK /\ PlaceInv /\ TimeInv /\ event.kind \in {"none", "start", "stop"}
      /\ NoEvent.kind = "none" /\ last \in [kind : {"none", "start", "stop", "cut"}, at : 0..MaxTime]
      /\ now \in 1..MaxTime /\ alive \in 0..MaxTime /\ wake \in 0..MaxTime
      /\ age["rpm"] \in 0..RpmWindow /\ event.at \in 0..MaxTime
      /\ RpmWindow \in Nat \ {0} /\ MaxTime \in Nat /\ (event.kind = "stop" => ~engineOn)
  BY TimesTyped, WindowValues DEF TripInv, TypeOK, EventTypes, NoEvent, LogbookInv
<1> USE DEF PlaceInv, TimeInv, Capped
<1>1. CASE Poll
  BY <1>0, <1>1, PollEffect DEF PollOutcome, Aged, Poll, Go, car, poll, trip, park, can
<1>2. CASE EngineTick /\ EngineStarts
  <2>1. PICK at \in 1..MaxTime : StartsAt(at)
    BY <1>0, <1>2, StartsEffect
  <2> QED BY <1>0, <1>2, <2>1, TickFrame, TickAges, AliveTyped, WindowValues DEF StartsAt, Young
<1>3. CASE EngineTick /\ StaysOff
  BY <1>0, <1>3, TickFrame, TickAges, AliveTyped DEF StaysOff, Go
<1>4. CASE EngineTick /\ EcuDecides
  <2>1. CASE engineOn /\ UNCHANGED <<engineOn, event>> /\ pc' \in {"rest", "odo"}
    BY <1>0, <1>4, <2>1, TickFrame, TickAges, EcuEffect
  <2>2. ASSUME NEW at \in 0..MaxTime, StopsAt("rest", at),
               at = IF alive # 0 THEN alive ELSE now
        PROVE  TimeInv'
    BY <1>0, <1>4, <2>2, TickFrame, TickAges, EcuEffect DEF StopsAt
  <2> QED BY <1>0, <1>4, <2>1, <2>2, EcuEffect
<1>5. CASE EngineTick /\ VoltageDecides
  <2>1. CASE engineOn /\ UNCHANGED <<engineOn, event>> /\ pc' \in {"rest", "odo"}
    BY <1>0, <1>5, <2>1, TickFrame, TickAges, VoltEffect, AliveTyped
  <2>2. ASSUME NEW at \in 0..MaxTime, StopsAt("rest", at),
               at = IF alive' # 0 THEN alive' ELSE now
        PROVE  TimeInv'
    BY <1>0, <1>5, <2>2, TickFrame, TickAges, VoltEffect, AliveTyped DEF StopsAt
  <2> QED BY <1>0, <1>5, <2>1, <2>2, VoltEffect
<1>6. CASE Rest
  <2>1. CASE pc' = "obd" /\ UNCHANGED <<engineOn, event>>
    BY <1>0, <1>6, <2>1, RestEffect DEF Rest, poll, car, AddOdo
  <2>2. CASE StaysStopped("standby")
    BY <1>0, <1>6, <2>2, RestEffect DEF Rest, poll, car, AddOdo, StaysStopped
  <2>3. ASSUME NEW at \in 0..MaxTime, StopsAt("standby", at), UNCHANGED now,
               at = IF alive # 0 THEN alive ELSE now
        PROVE  TimeInv'
    BY <1>0, <1>6, <2>3, RestEffect DEF Rest, poll, car, AddOdo, StopsAt
  <2> QED BY <1>0, <1>6, <2>1, <2>2, <2>3, RestEffect
<1>7. CASE Parked
  <2>0. /\ age' \in Ages /\ now' \in 1..MaxTime /\ now <= now' /\ UNCHANGED <<engine, high, changes>>
        /\ pc = "parked" /\ (Waited \/ (Booted(now) /\ age'["rpm"] = RpmWindow))
    BY <1>0, <1>7, ParkedEffect
  <2>1. CASE Booted(now) /\ age'["rpm"] = RpmWindow
    BY <1>0, <2>0, <2>1 DEF Booted
  <2>2. CASE Waited
    BY <1>0, <2>0, <2>2 DEF Waited, poll, trip, can
  <2> QED BY <2>0, <2>1, <2>2
<1>8. CASE Reset
  BY <1>0, <1>8, ResetEffect DEF Reset, Booted, car
<1>9. CASE ObdInit
  BY <1>0, <1>9 DEF ObdInit, trip, park, can, car, Go, poll
<1>10. CASE OdoRead \/ FuelRead \/ ListRead \/ NameRead
  BY <1>0, <1>10
  DEF OdoRead, FuelRead, ListRead, AfterPhones, NameRead, Go, car, poll, trip, park, can
<1>11. CASE Emit
  BY <1>0, <1>11 DEF Emit, AddOdo, Go, car, poll, trip, park, can
<1>12. CASE Standby \/ Car \/ SetLimit
  BY <1>0, <1>12 DEF Standby, Car, SetLimit, Go, car, poll, trip, park, can
<1>13. CASE WebOff
  BY <1>0, <1>13 DEF WebOff, Go, car, poll, trip, park, can
<1>14. CASE UNCHANGED vars
  BY <1>0, <1>14 DEF vars, Go, car, poll, trip, park, can
<1> QED BY <1>1, <1>2, <1>3, <1>4, <1>5, <1>6, <1>7, <1>8, <1>9, <1>10, <1>11, <1>12, <1>13,
           <1>14
        DEF Next, MainTask, EngineTick

(* Cycles without an answer go on to make the last RPM old.                  *)
LEMMA NextRpm ==
  ASSUME TripInv, [Next]_vars
  PROVE  RpmInv'
<1>0. /\ TypeOK /\ RpmInv /\ age["rpm"] \in 0..RpmWindow /\ silent \in 0..SilentCycles
      /\ cycle \in -1..1 /\ RpmWindow \in Nat \ {0} /\ SilentCycles \in Nat
      /\ pc \in {"obd", "tick", "odo", "fuel", "list", "list_again", "name1", "name2", "emit", "rest",
                "standby", "parked"}
      /\ event.then \in {"rest", "standby"}
  BY TimesTyped, WindowValues DEF TripInv, TypeOK, EventTypes, FlagTypes
<1> USE DEF RpmInv, Old, Parking, Capped
<1>1. CASE Poll
  <2>1. PICK d \in 0..1 : PollOutcome(d)
    BY <1>0, <1>1, PollEffect
  <2>2. pc = "obd" /\ pc' = "tick" /\ UNCHANGED <<wake, engineOn, low, event, last, silent>>
    BY <1>1 DEF Poll, NoPoll, Turning, Answered, Unanswered, Go, park
  <2>3. ASSUME obd, obd', ~sniff, ~sniff', cycle' = 1, quiet' = 0
        PROVE  RpmInv'
    BY <1>0, <2>2, <2>3
  <2>4. CASE obd /\ obd' /\ ~sniff /\ ~sniff' /\ cycle' = 0 /\ Longer /\ Aged(d)
    BY <1>0, <2>2, <2>4 DEF Longer, Aged
  <2>5. CASE /\ UNCHANGED cycle /\ (sniff' \/ ~obd') /\ (obd' => obd) /\ (obd /\ ~obd' => sniff')
             /\ Longer /\ Aged(d)
    BY <1>0, <2>2, <2>5 DEF Longer, Aged
  <2> QED BY <2>1, <2>3, <2>4, <2>5 DEF PollOutcome
<1>2. CASE EngineTick /\ EngineStarts
  <2>1. PICK at \in 1..MaxTime : StartsAt(at)
    BY <1>0, <1>2, StartsEffect
  <2> QED BY <1>0, <1>2, <2>1, TickFrame, TickAges DEF StartsAt
<1>3. CASE EngineTick /\ StaysOff
  BY <1>0, <1>3, TickFrame, TickAges, AliveTyped, WindowValues DEF Starts, Young, StaysOff, Go
<1>4. CASE EngineTick /\ EcuDecides
  <2>1. CASE engineOn /\ UNCHANGED <<engineOn, event>> /\ pc' \in {"rest", "odo"}
    BY <1>0, <1>4, <2>1, TickFrame, TickAges, EcuEffect
  <2>2. ASSUME NEW at \in 0..MaxTime, StopsAt("rest", at),
               at = IF alive # 0 THEN alive ELSE now
        PROVE  RpmInv'
    BY <1>0, <1>4, <2>2, TickFrame, TickAges, EcuEffect DEF StopsAt
  <2> QED BY <1>0, <1>4, <2>1, <2>2, EcuEffect
<1>5. CASE EngineTick /\ VoltageDecides
  <2>1. CASE engineOn /\ UNCHANGED <<engineOn, event>> /\ pc' \in {"rest", "odo"}
    BY <1>0, <1>5, <2>1, TickFrame, TickAges, VoltEffect, AliveTyped
  <2>2. ASSUME NEW at \in 0..MaxTime, StopsAt("rest", at),
               at = IF alive' # 0 THEN alive' ELSE now
        PROVE  RpmInv'
    BY <1>0, <1>5, <2>2, TickFrame, TickAges, VoltEffect, AliveTyped DEF StopsAt
  <2> QED BY <1>0, <1>5, <2>1, <2>2, VoltEffect
<1>6. CASE Rest
  <2>1. CASE pc' = "obd" /\ UNCHANGED <<engineOn, event>>
    <3>1. age'["rpm"] = Capped(age["rpm"] + 1, RpmWindow)
      BY <1>0, <1>6, <2>1, RestEffect DEF StaysStopped, StopsAt
    <3>2. UNCHANGED <<sniff, obd, silent, cycle, turned, engineOn, event>> /\ pc = "rest"
      BY <1>6, <2>1 DEF Rest, poll
    <3> QED BY <1>0, <2>1, <3>1, <3>2
  <2>2. CASE StaysStopped("standby")
    BY <1>0, <1>6, <2>2, RestEffect DEF Rest, poll, car, AddOdo, StaysStopped
  <2>3. ASSUME NEW at \in 0..MaxTime, StopsAt("standby", at), UNCHANGED now,
               at = IF alive # 0 THEN alive ELSE now
        PROVE  RpmInv'
    BY <1>0, <1>6, <2>3, RestEffect DEF Rest, poll, car, AddOdo, StopsAt
  <2> QED BY <1>0, <1>6, <2>1, <2>2, <2>3, RestEffect
<1>7. CASE Parked
  <2>0. /\ age' \in Ages /\ now' \in 1..MaxTime /\ now <= now' /\ UNCHANGED <<engine, high, changes>>
        /\ pc = "parked" /\ (Waited \/ (Booted(now) /\ age'["rpm"] = RpmWindow))
    BY <1>0, <1>7, ParkedEffect
  <2>1. CASE Booted(now) /\ age'["rpm"] = RpmWindow
    BY <1>0, <2>0, <2>1 DEF Booted
  <2>2. CASE Waited
    BY <1>0, <2>0, <2>2 DEF Waited, poll, trip, can
  <2> QED BY <2>0, <2>1, <2>2
<1>8. CASE Reset
  BY <1>0, <1>8, ResetEffect DEF Reset, Booted, car
<1>9. CASE ObdInit
  BY <1>0, <1>9 DEF ObdInit, trip, park, can, car, Go, poll
<1>10. CASE OdoRead
  BY <1>0, <1>10 DEF OdoRead, Go, car, poll, trip, park, can
<1>11. CASE FuelRead
  BY <1>0, <1>11 DEF FuelRead, Go, car, poll, trip, park, can
<1>12. CASE ListRead
  BY <1>0, <1>12 DEF ListRead, AfterPhones, Go, car, poll, trip, park, can
<1>13. CASE NameRead
  BY <1>0, <1>13 DEF NameRead, AfterPhones, Go, car, poll, trip, park, can
<1>14. CASE Emit
  BY <1>0, <1>14 DEF Emit, AddOdo, Go, car, poll, trip, park, can
<1>15. CASE Standby \/ Car \/ SetLimit
  BY <1>0, <1>15 DEF Standby, Car, SetLimit, Go, car, poll, trip, park, can
<1>16. CASE WebOff
  BY <1>0, <1>16 DEF WebOff, Go, car, poll, trip, park, can
<1>17. CASE UNCHANGED vars
  BY <1>0, <1>17 DEF vars, Go, car, poll, trip, park, can
<1> QED BY <1>1, <1>2, <1>3, <1>4, <1>5, <1>6, <1>7, <1>8, <1>9, <1>10, <1>11, <1>12, <1>13,
           <1>14, <1>15, <1>16, <1>17
        DEF Next, MainTask, EngineTick

(* What the device counts stays within the cycles it heard nothing.          *)
LEMMA NextQuiet ==
  ASSUME TripInv, [Next]_vars
  PROVE  QuietInv'
<1>0. /\ TypeOK /\ QuietInv /\ silent \in 0..SilentCycles /\ quiet \in 0..SilentCycles
      /\ cycle \in -1..1 /\ SilentCycles \in Nat \ {0}
      /\ event.then \in {"rest", "standby"}
  BY TimesTyped, WindowValues DEF TripInv, TypeOK, EventTypes, FlagTypes
<1> USE DEF QuietInv, Capped
<1>1. CASE Poll
  <2>1. PICK d \in 0..1 : PollOutcome(d)
    BY <1>0, <1>1, PollEffect
  <2>2. pc = "obd" /\ pc' = "tick" /\ UNCHANGED <<wake, engineOn, low, event, last, silent>>
    BY <1>1 DEF Poll, NoPoll, Turning, Answered, Unanswered, Go, park
  <2>3. ASSUME obd, obd', ~sniff, ~sniff', cycle' = 1, quiet' = 0
        PROVE  QuietInv'
    BY <1>0, <2>2, <2>3
  <2>4. CASE obd /\ obd' /\ ~sniff /\ ~sniff' /\ cycle' = 0 /\ Longer /\ Aged(d)
    BY <1>0, <2>2, <2>4 DEF Longer
  <2>5. CASE /\ UNCHANGED cycle /\ (sniff' \/ ~obd') /\ (obd' => obd) /\ (obd /\ ~obd' => sniff')
             /\ Longer /\ Aged(d)
    BY <1>0, <2>2, <2>5 DEF Longer
  <2> QED BY <2>1, <2>3, <2>4, <2>5 DEF PollOutcome
<1>2. CASE EngineTick /\ EngineStarts
  <2>1. PICK at \in 1..MaxTime : StartsAt(at)
    BY <1>0, <1>2, StartsEffect
  <2> QED BY <1>0, <1>2, <2>1, TickFrame, TickAges DEF StartsAt
<1>3. CASE EngineTick /\ StaysOff
  BY <1>0, <1>3, TickFrame, TickAges, AliveTyped DEF StaysOff, Go
<1>4. CASE EngineTick /\ EcuDecides
  <2>1. CASE engineOn /\ UNCHANGED <<engineOn, event>> /\ pc' \in {"rest", "odo"}
    BY <1>0, <1>4, <2>1, TickFrame, TickAges, EcuEffect
  <2>2. ASSUME NEW at \in 0..MaxTime, StopsAt("rest", at),
               at = IF alive # 0 THEN alive ELSE now
        PROVE  QuietInv'
    BY <1>0, <1>4, <2>2, TickFrame, TickAges, EcuEffect DEF StopsAt
  <2> QED BY <1>0, <1>4, <2>1, <2>2, EcuEffect
<1>5. CASE EngineTick /\ VoltageDecides
  <2>1. CASE engineOn /\ UNCHANGED <<engineOn, event>> /\ pc' \in {"rest", "odo"}
    BY <1>0, <1>5, <2>1, TickFrame, TickAges, VoltEffect, AliveTyped
  <2>2. ASSUME NEW at \in 0..MaxTime, StopsAt("rest", at),
               at = IF alive' # 0 THEN alive' ELSE now
        PROVE  QuietInv'
    BY <1>0, <1>5, <2>2, TickFrame, TickAges, VoltEffect, AliveTyped DEF StopsAt
  <2> QED BY <1>0, <1>5, <2>1, <2>2, VoltEffect
<1>6. CASE Rest
  <2>1. CASE pc' = "obd" /\ UNCHANGED <<engineOn, event>>
    BY <1>0, <1>6, <2>1, RestEffect DEF Rest, poll, car, AddOdo
  <2>2. CASE StaysStopped("standby")
    BY <1>0, <1>6, <2>2, RestEffect DEF Rest, poll, car, AddOdo, StaysStopped
  <2>3. ASSUME NEW at \in 0..MaxTime, StopsAt("standby", at), UNCHANGED now,
               at = IF alive # 0 THEN alive ELSE now
        PROVE  QuietInv'
    BY <1>0, <1>6, <2>3, RestEffect DEF Rest, poll, car, AddOdo, StopsAt
  <2> QED BY <1>0, <1>6, <2>1, <2>2, <2>3, RestEffect
<1>7. CASE Parked
  <2>0. /\ age' \in Ages /\ now' \in 1..MaxTime /\ now <= now' /\ UNCHANGED <<engine, high, changes>>
        /\ pc = "parked" /\ (Waited \/ (Booted(now) /\ age'["rpm"] = RpmWindow))
    BY <1>0, <1>7, ParkedEffect
  <2>1. CASE Booted(now) /\ age'["rpm"] = RpmWindow
    BY <1>0, <2>0, <2>1 DEF Booted
  <2>2. CASE Waited
    BY <1>0, <2>0, <2>2 DEF Waited, poll, trip, can
  <2> QED BY <2>0, <2>1, <2>2
<1>8. CASE Reset
  BY <1>0, <1>8, ResetEffect DEF Reset, Booted, car
<1>9. CASE ObdInit
  BY <1>0, <1>9 DEF ObdInit, trip, park, can, car, Go, poll
<1>10. CASE OdoRead
  BY <1>0, <1>10 DEF OdoRead, Go, car, poll, trip, park, can
<1>11. CASE FuelRead
  BY <1>0, <1>11 DEF FuelRead, Go, car, poll, trip, park, can
<1>12. CASE ListRead
  BY <1>0, <1>12 DEF ListRead, AfterPhones, Go, car, poll, trip, park, can
<1>13. CASE NameRead
  BY <1>0, <1>13 DEF NameRead, AfterPhones, Go, car, poll, trip, park, can
<1>14. CASE Emit
  BY <1>0, <1>14 DEF Emit, AddOdo, Go, car, poll, trip, park, can
<1>15. CASE Standby \/ Car \/ SetLimit
  BY <1>0, <1>15 DEF Standby, Car, SetLimit, Go, car, poll, trip, park, can
<1>16. CASE WebOff
  BY <1>0, <1>16 DEF WebOff, Go, car, poll, trip, park, can
<1>17. CASE UNCHANGED vars
  BY <1>0, <1>17 DEF vars, Go, car, poll, trip, park, can
<1> QED BY <1>1, <1>2, <1>3, <1>4, <1>5, <1>6, <1>7, <1>8, <1>9, <1>10, <1>11, <1>12, <1>13,
           <1>14, <1>15, <1>16, <1>17
        DEF Next, MainTask, EngineTick

(* A stale RPM starts no engine that OBD is asked about.                     *)
LEMMA NextGhost ==
  ASSUME TripInv, GhostInv, RpmWindow <= 3, RpmWindow <= SilentCycles, [Next]_vars
  PROVE  GhostInv'
<1>0. /\ TypeOK /\ PlaceInv /\ LogbookInv /\ RpmInv /\ GhostInv
      /\ age["rpm"] \in 0..RpmWindow /\ silent \in 0..SilentCycles /\ cycle \in -1..1
      /\ RpmWindow \in Nat \ {0} /\ SilentCycles \in Nat \ {0} /\ Window["rpm"] = RpmWindow
      /\ event.then \in {"rest", "standby"} /\ event.kind \in {"none", "start", "stop"}
      /\ NoEvent.kind = "none" /\ NoEvent.then = "rest"
      /\ pc \in {"obd", "tick", "odo", "fuel", "list", "list_again", "name1", "name2", "emit", "rest",
                "standby", "parked"}
  BY TimesTyped, WindowValues DEF TripInv, TypeOK, EventTypes, FlagTypes, NoEvent
<1> USE DEF GhostInv, Stale, Young, Old, Parking, PlaceInv, Capped
<1>1. CASE Poll
  <2>1. PICK d \in 0..1 : PollOutcome(d)
    BY <1>0, <1>1, PollEffect
  <2>2. pc = "obd" /\ pc' = "tick" /\ UNCHANGED <<wake, engineOn, low, event, last, silent>>
    BY <1>1 DEF Poll, NoPoll, Turning, Answered, Unanswered, Go, park
  <2>3. CASE turned'
    BY <1>0, <2>2, <2>3
  <2>4. CASE ~sniff /\ obd /\ Aged(d)
    BY <1>0, <2>2, <2>4 DEF Aged
  <2>5. CASE (obd' => obd) /\ Aged(d)
    BY <1>0, <2>2, <2>5 DEF Aged
  <2> QED BY <2>1, <2>3, <2>4, <2>5 DEF PollOutcome
<1>2. CASE EngineTick /\ EngineStarts
  <2>1. PICK at \in 1..MaxTime : StartsAt(at)
    BY <1>0, <1>2, StartsEffect
  <2> QED BY <1>0, <1>2, <2>1, TickFrame, TickAges DEF StartsAt
<1>3. CASE EngineTick /\ StaysOff
  BY <1>0, <1>3, TickFrame, TickAges, AliveTyped DEF Starts, StaysOff, Go
<1>4. CASE EngineTick /\ EcuDecides
  <2>1. /\ pc = "tick" /\ engineOn /\ obd /\ age'["rpm"] = age["rpm"]
    BY <1>0, <1>4, TickFrame, TickAges, EcuEffect
  <2>2. CASE engineOn'
    BY <2>2
  <2>3. CASE ~engineOn'
    <3>1. silent' = SilentCycles
      BY <1>0, <1>4, <2>1, <2>3, EcuEffect
    <3>2. silent + 1 >= SilentCycles /\ cycle # 1
      BY <1>0, <1>4, <3>1, EcuEffect
    <3>3. age["rpm"] = RpmWindow
      BY <1>0, <2>1, <3>2 DEF RpmInv
    <3> QED BY <1>0, <2>1, <3>3
  <2> QED BY <2>2, <2>3
<1>5. CASE EngineTick /\ VoltageDecides
  <2>1. CASE engineOn /\ UNCHANGED <<engineOn, event>> /\ pc' \in {"rest", "odo"}
    BY <1>0, <1>5, <2>1, TickFrame, TickAges, VoltEffect, AliveTyped DEF RpmInv
  <2>2. ASSUME NEW at \in 0..MaxTime, StopsAt("rest", at),
               at = IF alive' # 0 THEN alive' ELSE now
        PROVE  GhostInv'
    BY <1>0, <1>5, <2>2, TickFrame, TickAges, VoltEffect, AliveTyped DEF StopsAt, RpmInv
  <2> QED BY <1>0, <1>5, <2>1, <2>2, VoltEffect
<1>6. CASE Rest
  <2>1. CASE pc' = "obd" /\ UNCHANGED <<engineOn, event>>
    <3>1. age'["rpm"] = Capped(age["rpm"] + 1, RpmWindow)
      BY <1>0, <1>6, <2>1, RestEffect DEF StaysStopped, StopsAt
    <3>2. UNCHANGED <<sniff, obd, silent, cycle, turned, engineOn, event>> /\ pc = "rest"
      BY <1>6, <2>1 DEF Rest, poll
    <3> QED BY <1>0, <2>1, <3>1, <3>2
  <2>2. CASE StaysStopped("standby")
    BY <1>0, <1>6, <2>2, RestEffect DEF Rest, poll, car, AddOdo, StaysStopped
  <2>3. ASSUME NEW at \in 0..MaxTime, StopsAt("standby", at), UNCHANGED now,
               at = IF alive # 0 THEN alive ELSE now
        PROVE  GhostInv'
    BY <1>0, <1>6, <2>3, RestEffect DEF Rest, poll, car, AddOdo, StopsAt
  <2> QED BY <1>0, <1>6, <2>1, <2>2, <2>3, RestEffect
<1>7. CASE Parked
  <2>0. /\ age' \in Ages /\ now' \in 1..MaxTime /\ now <= now' /\ UNCHANGED <<engine, high, changes>>
        /\ pc = "parked" /\ (Waited \/ (Booted(now) /\ age'["rpm"] = RpmWindow))
    BY <1>0, <1>7, ParkedEffect
  <2>1. CASE Booted(now) /\ age'["rpm"] = RpmWindow
    BY <1>0, <2>0, <2>1 DEF Booted
  <2>2. CASE Waited
    BY <1>0, <2>0, <2>2 DEF Waited, poll, trip, can
  <2> QED BY <2>0, <2>1, <2>2
<1>8. CASE Reset
  BY <1>0, <1>8, ResetEffect DEF Reset, Booted, car
<1>9. CASE ObdInit
  BY <1>0, <1>9 DEF ObdInit, trip, park, can, car, Go, poll
<1>10. CASE OdoRead
  BY <1>0, <1>10 DEF OdoRead, Go, car, poll, trip, park, can
<1>11. CASE FuelRead
  BY <1>0, <1>11 DEF FuelRead, Go, car, poll, trip, park, can
<1>12. CASE ListRead
  BY <1>0, <1>12 DEF ListRead, AfterPhones, Go, car, poll, trip, park, can
<1>13. CASE NameRead
  BY <1>0, <1>13 DEF NameRead, AfterPhones, Go, car, poll, trip, park, can
<1>14. CASE Emit
  BY <1>0, <1>14 DEF LogbookInv, Emit, AddOdo, Go, car, poll, trip, park, can
<1>15. CASE Standby \/ Car \/ SetLimit
  BY <1>0, <1>15 DEF Standby, Car, SetLimit, Go, car, poll, trip, park, can
<1>16. CASE WebOff
  BY <1>0, <1>16 DEF WebOff, Go, car, poll, trip, park, can
<1>17. CASE UNCHANGED vars
  BY <1>0, <1>17 DEF vars, Go, car, poll, trip, park, can
<1> QED BY <1>1, <1>2, <1>3, <1>4, <1>5, <1>6, <1>7, <1>8, <1>9, <1>10, <1>11, <1>12, <1>13,
           <1>14, <1>15, <1>16, <1>17
        DEF Next, MainTask, EngineTick

-----------------------------------------------------------------------------
(* The theorems. *)

(* The device is off, and a car comes.                                       *)
LEMMA InitTrip == Init => TripInv /\ GhostInv
<1> SUFFICES ASSUME Init PROVE TripInv /\ GhostInv
  OBVIOUS
<1>1. [Window EXCEPT !.still = 0] \in Ages /\ [Window EXCEPT !.still = 0]["rpm"] = RpmWindow
  BY InitWindow
<1>2. ClockTypes
  BY <1>1, WindowValues DEF Init, ClockTypes, Ages
<1>3. EventTypes
  BY WindowValues DEF Init, EventTypes, NoEvent
<1>7. FlagTypes
  BY DEF Init, FlagTypes
<1>4. CountTypes
  BY TripAssumption DEF Init, CountTypes
<1>5. PlaceInv /\ LogbookInv /\ QuietInv
  BY WindowValues DEF Init, PlaceInv, LogbookInv, QuietInv, NoEvent
<1>6. TimeInv /\ RpmInv /\ GhostInv
  BY <1>1, WindowValues DEF Init, TimeInv, RpmInv, GhostInv, NoEvent, Old, Stale, Young
<1> QED BY <1>2, <1>3, <1>4, <1>5, <1>6, <1>7 DEF TripInv, TypeOK

(* Every step keeps the invariant.                                           *)
LEMMA StepTrip == TripInv /\ [Next]_vars => TripInv'
<1> SUFFICES ASSUME TripInv, [Next]_vars PROVE TripInv'
  OBVIOUS
<1>1. TypeOK'
  BY NextClock, NextEvent, NextCount, NextFlags DEF TypeOK
<1> QED BY <1>1, NextPlace, NextLogbook, NextTime, NextRpm, NextQuiet DEF TripInv

(* The invariant always holds.                                               *)
LEMMA TripAlways == Spec => []TripInv
<1> QED BY InitTrip, StepTrip, PTL DEF Spec

(* Every variable keeps its type: ages stay within their windows, the clock  *)
(* and the counters in their bounds.                                         *)
THEOREM TypeCorrect == Spec => []TypeOK
<1>1. TripInv => TypeOK
  BY DEF TripInv
<1> QED BY <1>1, TripAlways, PTL

(* The logbook of the server is in order (emitEngineEvent(), engineStop(),   *)
(* initialize()): starts and ends alternate and their times follow, through  *)
(* sniff mode, commands, missed answers, wake-ups and restarts.              *)
THEOREM LogbookInOrder == Spec => InOrder
<1>1. ASSUME TripInv, [Next]_vars, last' # last
      PROVE  /\ last'.kind = "start" => last.kind # "start"
             /\ last'.kind \in {"stop", "cut"} => last.kind = "start"
             /\ last'.at >= IF last'.kind = "stop" THEN last.at - (RpmWindow - 1) ELSE last.at
  <2>0. /\ TypeOK /\ PlaceInv /\ LogbookInv /\ TimeInv
        /\ event.kind \in {"none", "start", "stop"} /\ event.at \in 0..MaxTime
        /\ last \in [kind : {"none", "start", "stop", "cut"}, at : 0..MaxTime]
        /\ RpmWindow \in Nat /\ MaxTime \in Nat
    BY <1>1, WindowValues DEF TripInv, TypeOK, EventTypes
  <2>1. CASE Emit
    BY <2>0, <2>1 DEF Emit, PlaceInv, LogbookInv, TimeInv
  <2>2. CASE last' = [last EXCEPT !.kind = IF last.kind = "start" THEN "cut" ELSE last.kind]
    <3>1. last.kind = "start"
      BY <1>1, <2>0, <2>2
    <3> QED BY <2>0, <2>2, <3>1
  <2>3. CASE WebOff
    BY <2>2, <2>3 DEF WebOff
  <2>4. CASE Parked
    BY <1>1, <2>0, <2>2, <2>4, ParkedEffect DEF Waited, Booted
  <2>5. CASE Reset
    BY <2>0, <2>2, <2>5, ResetEffect DEF Booted
  <2>6. CASE EngineTick \/ Rest \/ Poll \/ ObdInit \/ OdoRead \/ FuelRead \/ ListRead \/ NameRead
    BY <1>1, <2>6 DEF EngineTick, Rest, Poll, ObdInit, OdoRead, FuelRead, ListRead, NameRead
  <2>7. CASE Standby \/ Car \/ SetLimit \/ UNCHANGED vars
    BY <1>1, <2>7 DEF Standby, Car, SetLimit, vars
  <2> QED BY <1>1, <2>1, <2>3, <2>4, <2>5, <2>6, <2>7 DEF Next, MainTask
<1> QED BY <1>1, TripAlways, PTL DEF Spec, InOrder

(* engineTick() ends a trip over OBD only after its silent cycles, whatever  *)
(* sniff mode does between them.                                             *)
THEOREM StopNeedsSilence == Spec => StopIsSilence
<1>1. ASSUME TripInv, [Next]_vars
      PROVE  Announces("stop") /\ obd /\ pc = "tick" => quiet >= SilentCycles
  <2>1. SUFFICES ASSUME event.kind = "none", event'.kind = "stop", obd, pc = "tick"
                 PROVE  quiet >= SilentCycles
    BY DEF Announces
  <2>0. /\ TypeOK /\ QuietInv /\ silent \in 0..SilentCycles /\ quiet \in 0..SilentCycles
        /\ cycle \in -1..1 /\ SilentCycles \in Nat \ {0} /\ NoEvent.kind = "none"
    BY <1>1, TimesTyped, WindowValues DEF TripInv, NoEvent
  <2>2. CASE EngineTick /\ EngineStarts
    <3>1. PICK at \in 1..MaxTime : StartsAt(at)
      BY <2>0, <2>2, StartsEffect
    <3> QED BY <2>1, <3>1 DEF StartsAt
  <2>3. CASE EngineTick /\ StaysOff
    BY <2>1, <2>3 DEF StaysOff
  <2>4. CASE EngineTick /\ EcuDecides
    <3>1. silent' = SilentCycles /\ engineOn
      BY <2>0, <2>1, <2>4, EcuEffect
    <3>2. cycle # 1 /\ (cycle = 0 => silent + 1 >= SilentCycles) /\ (cycle # 0 => silent = SilentCycles)
      BY <2>0, <2>4, <3>1, EcuEffect DEF Capped
    <3> QED BY <2>0, <2>1, <3>1, <3>2 DEF QuietInv
  <2>5. CASE EngineTick /\ VoltageDecides
    BY <2>1, <2>5 DEF VoltageDecides
  <2>6. CASE Reset
    BY <2>0, <2>1, <2>6, ResetEffect DEF Booted
  <2>7. CASE Car \/ UNCHANGED vars
    BY <2>1, <2>7 DEF Car, vars
  <2> QED BY <1>1, <2>1, <2>2, <2>3, <2>4, <2>5, <2>6, <2>7
          DEF Next, MainTask, EngineTick, Poll, ObdInit, OdoRead, FuelRead, ListRead, NameRead, Emit,
              Rest, Standby, Parked, WebOff, SetLimit
<1> QED BY <1>1, TripAlways, PTL DEF Spec, StopIsSilence

(* With OBD only an RPM read since the last event starts a trip (the comment *)
(* in engineTick()), while the window of the RPM is no longer than the       *)
(* silent cycles and three cycles: 3 s, with cycles of a second or more.     *)
THEOREM StartNeedsRpm ==
  RpmWindow <= 3 /\ RpmWindow <= SilentCycles => (Spec => NoGhostTrip)
<1> SUFFICES ASSUME RpmWindow <= 3 /\ RpmWindow <= SilentCycles
             PROVE  Spec => NoGhostTrip
  OBVIOUS
<1>1. TripInv /\ GhostInv /\ [Next]_vars => TripInv' /\ GhostInv'
  BY StepTrip, NextGhost
<1>2. ASSUME TripInv, GhostInv, [Next]_vars
      PROVE  Announces("start") /\ obd => turned
  <2>1. SUFFICES ASSUME event.kind = "none", event'.kind = "start", obd
                 PROVE  turned
    BY DEF Announces
  <2>0. /\ TypeOK /\ PlaceInv /\ GhostInv /\ NoEvent.kind = "none"
    BY <1>2 DEF TripInv, NoEvent
  <2>2. CASE EngineTick /\ EngineStarts
    BY <2>0, <2>1, <2>2, StartsEffect, TickFrame DEF StartsAt, GhostInv, Stale, PlaceInv, Parking
  <2>3. CASE EngineTick /\ StaysOff
    BY <2>1, <2>3 DEF StaysOff
  <2>4. CASE EngineTick /\ EcuDecides
    <3>1. ASSUME NEW at, StopsAt("rest", at)
          PROVE  FALSE
      BY <2>1, <3>1 DEF StopsAt
    <3> QED BY <2>0, <2>1, <2>4, <3>1, EcuEffect
  <2>5. CASE EngineTick /\ VoltageDecides
    BY <2>1, <2>5 DEF VoltageDecides
  <2>6. CASE Reset
    BY <2>0, <2>1, <2>6, ResetEffect DEF Booted
  <2>7. CASE Parked
    BY <2>0, <2>1, <2>7, ParkedEffect DEF Booted, Waited
  <2>8. CASE Rest
    <3>1. ASSUME NEW at, StopsAt("standby", at)
          PROVE  FALSE
      BY <2>1, <3>1 DEF StopsAt
    <3> QED BY <2>0, <2>1, <2>8, <3>1, RestEffect DEF StaysStopped
  <2>9. CASE Car \/ WebOff \/ SetLimit \/ Poll \/ ObdInit \/ Standby \/ UNCHANGED vars
    BY <2>1, <2>9 DEF Car, WebOff, SetLimit, Poll, ObdInit, Standby, vars
  <2>10. CASE OdoRead \/ FuelRead \/ ListRead \/ NameRead \/ Emit
    BY <2>0, <2>1, <2>10 DEF OdoRead, FuelRead, ListRead, NameRead, Emit
  <2> QED BY <1>2, <2>2, <2>3, <2>4, <2>5, <2>6, <2>7, <2>8, <2>9, <2>10 DEF Next, MainTask, EngineTick
<1> QED BY <1>1, <1>2, InitTrip, PTL DEF Spec, NoGhostTrip
-----------------------------------------------------------------------------
(* The reads over CAN. *)

(* The order of the natural numbers is well founded: a set of them that has *)
(* 0 and the successor of each of its members has them all.                 *)
LEMMA SmallestOf ==
  ASSUME NEW S \in SUBSET Nat, S # {} PROVE \E n \in S : \A m \in S : n <= m
<1> DEFINE R == {p \in Nat \X Nat : p[1] < p[2]}
<1>1. IsWellFoundedOn(R, Nat)
  BY NatLessThanWellFounded DEF OpToRel
<1>2. PICK n \in S : \A m \in S : ~(<<m, n>> \in R)
  <2> HIDE DEF R
  <2> QED BY <1>1, WFMin
<1>3. ASSUME NEW m \in S PROVE n <= m
  <2>1. <<m, n>> \notin R /\ m \in Nat /\ n \in Nat
    BY <1>2
  <2> QED BY <2>1
<1> QED BY <1>3

LEMMA Successors ==
  ASSUME NEW S \in SUBSET Nat, 0 \in S, \A n \in S : n + 1 \in S PROVE S = Nat
<1> SUFFICES ASSUME Nat \ S # {} PROVE FALSE
  OBVIOUS
<1>1. PICK n \in Nat \ S : \A m \in Nat \ S : n <= m
  BY SmallestOf
<1> QED BY <1>1, n # 0 /\ n - 1 \in Nat

LEMMA MaxOf ==
  ASSUME NEW m \in Nat, NEW u \in SUBSET (1..m), u # {}
  PROVE  Max(u) \in u /\ \A y \in u : y <= Max(u)
<1> DEFINE B == {b \in Nat : \A y \in u : y <= b}
<1>1. PICK b \in B : \A c \in B : b <= c
  <2>1. m \in B
    OBVIOUS
  <2> HIDE DEF B
  <2> QED BY <2>1, SmallestOf DEF B
<1>2. b \in u
  <2> SUFFICES ASSUME b \notin u PROVE FALSE
    OBVIOUS
  <2>1. \A y \in u : y \in Nat /\ y >= 1 /\ y <= b /\ y # b
    OBVIOUS
  <2>2. b \in Nat /\ b >= 1
    <3>1. PICK y \in u : TRUE
      OBVIOUS
    <3>2. y \in Nat /\ 1 <= y /\ y <= b /\ b \in Nat
      BY <2>1
    <3> HIDE DEF B
    <3> QED BY <3>2
  <2>3. b - 1 \in B
    <3>1. \A y \in u : y <= b - 1
      BY <2>1, <2>2
    <3>2. b - 1 \in Nat
      BY <2>2
    <3> QED BY <3>1, <3>2
  <2>4. b <= b - 1
    <3> HIDE DEF B
    <3> QED BY <2>3, <1>1
  <2> QED BY <2>2, <2>4
<1>3. \E x \in u : \A y \in u : x >= y
  BY <1>1, <1>2
<1> QED BY <1>3 DEF Max

(* Collect() takes the frames one after the other.                           *)
LEMMA CollectSteps ==
  ASSUME NEW did, NEW s, NEW n \in Nat, DOMAIN s = 1..n
  PROVE  \E f : /\ f[{}] = Waiting /\ f[1..n] = Collect(did, s)
                /\ \A k \in 1..n : f[1..k] = OnFrame(Ecu(did), f[1..(k - 1)], s[k])
<1> DEFINE F(g, m) ==
             [u \in SUBSET (1..m) |->
                IF u = {} THEN Waiting ELSE OnFrame(Ecu(did), g[u \ {Max(u)}], s[Max(u)])]
           S == {m \in Nat : \E g : g = F(g, m)}
           it == CHOOSE g : g = F(g, n)
<1>1. 0 \in S
  <2>1. SUBSET (1..0) = {{}}
    OBVIOUS
  <2>2. [u \in SUBSET (1..0) |-> Waiting] = F([u \in SUBSET (1..0) |-> Waiting], 0)
    BY <2>1
  <2> QED BY <2>2
<1>2. ASSUME NEW m \in S PROVE m + 1 \in S
  <2>0. m \in Nat /\ m + 1 \in Nat
    OBVIOUS
  <2>1. PICK g : g = F(g, m)
    OBVIOUS
  <2> DEFINE h == F(g, m + 1)
  <2>2. \A v \in SUBSET (1..m) : h[v] = g[v]
    <3>1. ASSUME NEW v \in SUBSET (1..m) PROVE h[v] = F(g, m)[v]
      <4>1. v \in SUBSET (1..(m + 1))
        OBVIOUS
      <4> QED BY <4>1
    <3> HIDE DEF F, h
    <3> QED BY <2>1, <3>1
  <2>3. \A u \in SUBSET (1..(m + 1)) : u # {} => u \ {Max(u)} \in SUBSET (1..m)
    <3>1. ASSUME NEW u \in SUBSET (1..(m + 1)), u # {}
          PROVE  u \ {Max(u)} \in SUBSET (1..m)
      <4>1. Max(u) \in u /\ \A y \in u : y <= Max(u)
        <5> HIDE DEF F, S
        <5> QED BY <2>0, <3>1, MaxOf
      <4>2. \A y \in u \ {Max(u)} : y \in 1..m
        <5>1. \A y \in u : y \in 1..(m + 1)
          OBVIOUS
        <5>2. Max(u) \in 1..(m + 1)
          BY <4>1
        <5> HIDE DEF F, S
        <5> QED BY <2>0, <4>1, <5>1, <5>2
      <4> QED BY <4>2
    <3> QED BY <3>1
  <2>4. h = F(h, m + 1)
    <3>1. \A u \in SUBSET (1..(m + 1)) :
            u # {} => h[u \ {Max(u)}] = g[u \ {Max(u)}]
      BY <2>2, <2>3
    <3>2. h = [u \in SUBSET (1..(m + 1)) |->
                IF u = {} THEN Waiting ELSE OnFrame(Ecu(did), g[u \ {Max(u)}], s[Max(u)])]
      OBVIOUS
    <3> HIDE DEF h
    <3>3. \A u \in SUBSET (1..(m + 1)) :
            (IF u = {} THEN Waiting ELSE OnFrame(Ecu(did), g[u \ {Max(u)}], s[Max(u)]))
              = (IF u = {} THEN Waiting ELSE OnFrame(Ecu(did), h[u \ {Max(u)}], s[Max(u)]))
      BY <3>1
    <3> QED BY <3>2, <3>3
  <2>5. \E g2 : g2 = F(g2, m + 1)
    <3> HIDE DEF h
    <3> QED BY <2>4
  <2> HIDE DEF F, h
  <2> QED BY <2>0, <2>5
<1>3. n \in S
  <2> HIDE DEF S
  <2> QED BY <1>1, <1>2, Successors DEF S
<1>4. it = F(it, n)
  <2> HIDE DEF F
  <2> QED BY <1>3
<1>5. Collect(did, s) = it[1..n]
  BY DEF Collect, FoldLeft, MapThenFoldSet
<1> HIDE DEF it, S
<1>6. it[{}] = Waiting
  <2>1. {} \in SUBSET (1..n)
    OBVIOUS
  <2>2. F(it, n)[{}] = Waiting
    BY <2>1
  <2> HIDE DEF F
  <2> QED BY <1>4, <2>2
<1>7. ASSUME NEW k \in 1..n
      PROVE  it[1..k] = OnFrame(Ecu(did), it[1..(k - 1)], s[k])
  <2>1. (1..k) \in SUBSET (1..n) /\ (1..k) # {}
    <3>1. k \in Nat /\ 1 <= k /\ k <= n
      OBVIOUS
    <3>2. \A x \in 1..k : x \in 1..n
      BY <3>1
    <3> QED BY <3>1, <3>2, k \in 1..k
  <2>2. Max(1..k) = k
    <3>1. Max(1..k) \in 1..k /\ \A y \in 1..k : y <= Max(1..k)
      BY <2>1, MaxOf
    <3> QED BY <3>1
  <2>3. (1..k) \ {k} = 1..(k - 1)
    OBVIOUS
  <2>4. F(it, n)[1..k] = OnFrame(Ecu(did), it[1..(k - 1)], s[k])
    BY <2>1, <2>2, <2>3
  <2> HIDE DEF F
  <2> QED BY <1>4, <2>4
<1> QED BY <1>5, <1>6, <1>7

(* The frames that come, with the end of an earlier reply in front.          *)
Owner  == Did \cup {"none"}
FrameT ==
  {f \in [from : {"gateway", "cluster", "radio", "none"},
          kind : {"single", "first", "next", "pending", "refused", "none"}, of : Owner, n : Nat] :
     /\ f.kind \in {"single", "first"} => f.n = 0
     /\ f.kind = "single" => Parts(f.of) = 1}
Opens(f, did) == f.from = Ecu(did) /\ f.of = did /\ f.kind \in {"single", "first"}
InTurn(did, s) ==
  \A i, j \in DOMAIN s :
    i < j /\ Opens(s[i], did) /\ s[j].from = Ecu(did) => s[j].of = did
Stream(did, s) == s \in Seq(FrameT) /\ InTurn(did, s)

(* The reader after k frames: a reply that began as the one to its own       *)
(* request has gone on with that one's parts in their order.                 *)
Reader == [at : {"first", "next", "whole", "nrc", "order"}, got : Seq(Owner \X Nat),
           want : Nat, seq : Nat]
Reading(r) == r.at \in {"next", "whole"}
CollectInv(did, s, k, r) ==
  /\ r \in Reader
  /\ r.at = "first" => r.got = <<>> /\ r.seq = 1
  /\ Reading(r) => Len(r.got) = r.seq /\ r.seq >= 1
  /\ Reading(r) /\ r.got[1][1] = did =>
       /\ \E i \in 1..k : Opens(s[i], did)
       /\ r.want = Parts(did)
       /\ \A j \in 1..Len(r.got) : r.got[j] = <<did, j - 1>>
       /\ r.at = "whole" => Len(r.got) = r.want

LEMMA PartsIs == \A d : Parts(d) \in {1, 2, 3}
  BY DEF Parts

LEMMA FirstStep ==
  ASSUME NEW did \in Did, NEW s, NEW k \in Nat, Stream(did, s), k + 1 \in DOMAIN s,
         NEW r, CollectInv(did, s, k, r), r.at = "first", s[k + 1].from = Ecu(did)
  PROVE  CollectInv(did, s, k + 1, FirstFrame(r, s[k + 1]))
<1> DEFINE f == s[k + 1]
           q == FirstFrame(r, f)
<1>1. /\ f \in FrameT /\ f.kind \in {"single", "first", "next", "pending", "refused", "none"}
      /\ f.of \in Owner /\ f.n \in Nat /\ f.from = Ecu(did)
      /\ f.kind \in {"single", "first"} => f.n = 0
      /\ f.kind = "single" => Parts(f.of) = 1
  BY DEF Stream, FrameT
<1>2. r \in Reader /\ r.got = <<>> /\ r.seq = 1 /\ ~Reading(r)
  BY DEF CollectInv, Reading
<1> HIDE DEF f
<1>3. CASE f.kind = "refused"
  <2>1. q = [r EXCEPT !.at = "nrc"]
    BY <1>3 DEF FirstFrame, Ends
  <2>2. q \in Reader /\ q.at = "nrc"
    BY <1>2, <2>1 DEF Reader
  <2> HIDE DEF q
  <2>3. CollectInv(did, s, k + 1, q)
    BY <2>2 DEF CollectInv, Reading
  <2> QED BY <2>3 DEF q, f
<1>4. CASE f.kind \in {"single", "first"}
  <2> DEFINE at == IF f.kind = "single" THEN "whole" ELSE "next"
             want == Parts(f.of)
  <2>1. q = [r EXCEPT !.at = at, !.got = <<Part(f)>>, !.want = want]
    BY <1>1, <1>4 DEF FirstFrame
  <2>2. Part(f) = <<f.of, 0>> /\ want \in Nat
    BY <1>1, <1>4, PartsIs DEF Part
  <2>3. <<Part(f)>> \in Seq(Owner \X Nat) /\ Len(<<Part(f)>>) = 1 /\ <<Part(f)>>[1] = <<f.of, 0>>
    BY <1>1, <2>2
  <2>4. q \in Reader /\ q.at = at /\ q.got = <<Part(f)>> /\ q.want = want /\ q.seq = 1
    <3> HIDE DEF q, want
    <3> QED BY <1>2, <2>1, <2>2, <2>3 DEF Reader
  <2>5. at = "whole" => want = 1
    BY <1>1
  <2>6. f.of = did => Opens(f, did) /\ want = Parts(did)
    BY <1>1, <1>4 DEF Opens
  <2>7. f.of = did => \E i \in 1..(k + 1) : Opens(s[i], did)
    BY <2>6, k + 1 \in 1..(k + 1) DEF f
  <2>8. Len(q.got) = 1 /\ q.got[1] = <<f.of, 0>> /\ q.got[1][1] = f.of
    BY <2>3, <2>4
  <2>9. \A j \in 1..Len(q.got) : j = 1 /\ j - 1 = 0
    BY <2>8
  <2>10. f.of = did => \A j \in 1..Len(q.got) : q.got[j] = <<did, j - 1>>
    BY <2>8, <2>9
  <2> HIDE DEF q, want
  <2>11. CollectInv(did, s, k + 1, q)
    BY <2>4, <2>5, <2>6, <2>7, <2>8, <2>10 DEF CollectInv, Reading
  <2> QED BY <2>11 DEF q, f
<1>5. CASE f.kind \in {"next", "pending", "none"}
  <2>1. q = r
    BY <1>5 DEF FirstFrame
  <2> QED BY <1>2, <2>1 DEF CollectInv, f
<1> QED BY <1>1, <1>3, <1>4, <1>5

LEMMA NextStep ==
  ASSUME NEW did \in Did, NEW s, NEW k \in Nat, Stream(did, s), k + 1 \in DOMAIN s,
         NEW r, CollectInv(did, s, k, r), r.at = "next", s[k + 1].from = Ecu(did)
  PROVE  CollectInv(did, s, k + 1, NextFrame(r, s[k + 1]))
<1> DEFINE f == s[k + 1]
           q == NextFrame(r, f)
<1>1. f \in FrameT /\ f.of \in Owner /\ f.n \in Nat /\ f.from = Ecu(did)
  BY DEF Stream, FrameT
<1>2. r \in Reader /\ Len(r.got) = r.seq /\ r.seq >= 1 /\ r.got \in Seq(Owner \X Nat) /\ r.seq \in Nat
      /\ r.want \in Nat
  BY DEF CollectInv, Reading, Reader
<1>3. ASSUME r.got[1][1] = did
      PROVE  /\ \E i \in 1..k : Opens(s[i], did)
             /\ r.want = Parts(did)
             /\ \A j \in 1..Len(r.got) : r.got[j] = <<did, j - 1>>
             /\ f.of = did
  <2>1. /\ \E i \in 1..k : Opens(s[i], did)
        /\ r.want = Parts(did)
        /\ \A j \in 1..Len(r.got) : r.got[j] = <<did, j - 1>>
    BY <1>3 DEF CollectInv, Reading
  <2>2. PICK i \in 1..k : Opens(s[i], did)
    BY <2>1
  <2>3. i \in DOMAIN s /\ i < k + 1
    <3>1. s \in Seq(FrameT)
      BY DEF Stream
    <3>2. DOMAIN s = 1..Len(s) /\ Len(s) \in Nat
      BY <3>1
    <3>3. k + 1 <= Len(s) /\ i \in Nat /\ 1 <= i /\ i <= k
      BY <3>2
    <3> QED BY <3>2, <3>3
  <2>4. f.of = did
    BY <1>1, <2>2, <2>3 DEF Stream, InTurn
  <2> QED BY <2>1, <2>4
<1> HIDE DEF f
<1>4. CASE f.kind # "next" \/ f.n # r.seq
  <2>1. q = [r EXCEPT !.at = "order"]
    BY <1>4 DEF NextFrame, Ends
  <2>2. q \in Reader /\ q.at = "order"
    BY <1>2, <2>1 DEF Reader
  <2> HIDE DEF q
  <2>3. CollectInv(did, s, k + 1, q)
    BY <2>2 DEF CollectInv, Reading
  <2> QED BY <2>3 DEF q, f
<1>5. CASE f.kind = "next" /\ f.n = r.seq
  <2> DEFINE at == IF Len(r.got) + 1 = r.want THEN "whole" ELSE "next"
             got == Append(r.got, Part(f))
  <2>1. q = [r EXCEPT !.got = got, !.seq = r.seq + 1, !.at = at]
    BY <1>5 DEF NextFrame
  <2>2. Part(f) = <<f.of, r.seq>> /\ Part(f) \in Owner \X Nat
    BY <1>1, <1>5 DEF Part
  <2>3. /\ got \in Seq(Owner \X Nat) /\ Len(got) = r.seq + 1 /\ got[r.seq + 1] = Part(f)
        /\ \A j \in 1..r.seq : got[j] = r.got[j]
    BY <1>2, <2>2
  <2>4. q \in Reader /\ q.at = at /\ q.got = got /\ q.want = r.want /\ q.seq = r.seq + 1
    <3>1. at \in {"whole", "next"} /\ r.seq + 1 \in Nat
      BY <1>2
    <3> HIDE DEF q, got, at
    <3> QED BY <1>2, <2>1, <2>3, <3>1 DEF Reader
  <2>5. got[1] = r.got[1]
    BY <1>2, <2>3
  <2> HIDE DEF q, got
  <2>6. ASSUME r.got[1][1] = did
        PROVE  /\ \E i \in 1..(k + 1) : Opens(s[i], did)
               /\ q.want = Parts(did)
               /\ \A j \in 1..Len(q.got) : q.got[j] = <<did, j - 1>>
               /\ q.at = "whole" => Len(q.got) = q.want
    <3>1. \E i \in 1..(k + 1) : Opens(s[i], did)
      <4>1. \A i \in 1..k : i \in 1..(k + 1)
        OBVIOUS
      <4> QED BY <1>3, <2>6, <4>1
    <3>2. \A j \in 1..(r.seq + 1) : got[j] = <<did, j - 1>>
      <4>1. ASSUME NEW j \in 1..(r.seq + 1) PROVE got[j] = <<did, j - 1>>
        <5>1. j \in 1..r.seq \/ j = r.seq + 1
          BY <1>2
        <5>2. CASE j \in 1..r.seq
          BY <1>2, <1>3, <2>3, <2>6, <5>2
        <5>3. CASE j = r.seq + 1
          <6>1. j - 1 = r.seq
            BY <1>2, <5>3
          <6> QED BY <1>3, <2>2, <2>3, <2>6, <5>3, <6>1
        <5> QED BY <5>1, <5>2, <5>3
      <4> QED BY <4>1
    <3>3. q.at = "whole" => Len(q.got) = q.want
      BY <1>2, <2>3, <2>4
    <3> QED BY <1>3, <2>3, <2>4, <2>6, <3>1, <3>2, <3>3
  <2>7. Len(q.got) = q.seq /\ q.seq >= 1 /\ q.got[1] = r.got[1] /\ q.at # "first"
    BY <1>2, <2>3, <2>4, <2>5
  <2>8. CollectInv(did, s, k + 1, q)
    BY <2>4, <2>6, <2>7 DEF CollectInv, Reading
  <2> QED BY <2>8 DEF q, f
<1> QED BY <1>4, <1>5

LEMMA FrameStep ==
  ASSUME NEW did \in Did, NEW s, NEW k \in Nat, Stream(did, s), k + 1 \in DOMAIN s,
         NEW r, CollectInv(did, s, k, r)
  PROVE  CollectInv(did, s, k + 1, OnFrame(Ecu(did), r, s[k + 1]))
<1>1. ASSUME OnFrame(Ecu(did), r, s[k + 1]) = r
      PROVE  CollectInv(did, s, k + 1, OnFrame(Ecu(did), r, s[k + 1]))
  <2>1. \A i \in 1..k : i \in 1..(k + 1)
    OBVIOUS
  <2> QED BY <1>1, <2>1 DEF CollectInv
<1>2. CASE s[k + 1].from # Ecu(did) \/ r.at \notin {"first", "next"}
  BY <1>1, <1>2 DEF OnFrame
<1>3. CASE s[k + 1].from = Ecu(did) /\ r.at = "first"
  BY <1>3, FirstStep DEF OnFrame
<1>4. CASE s[k + 1].from = Ecu(did) /\ r.at = "next"
  BY <1>4, NextStep DEF OnFrame
<1> QED BY <1>2, <1>3, <1>4

LEMMA CollectAll ==
  ASSUME NEW did \in Did, NEW s, Stream(did, s)
  PROVE  CollectInv(did, s, Len(s), Collect(did, s))
<1>1. Len(s) \in Nat /\ DOMAIN s = 1..Len(s)
  BY DEF Stream
<1>2. PICK g : /\ g[{}] = Waiting /\ g[1..Len(s)] = Collect(did, s)
               /\ \A k \in 1..Len(s) : g[1..k] = OnFrame(Ecu(did), g[1..(k - 1)], s[k])
  BY <1>1, CollectSteps
<1> DEFINE S == {k \in Nat : k <= Len(s) => CollectInv(did, s, k, g[1..k])}
<1>3. 0 \in S
  <2>1. 1..0 = {}
    OBVIOUS
  <2>2. CollectInv(did, s, 0, Waiting)
    BY DEF CollectInv, Waiting, Reader, Reading
  <2> QED BY <1>2, <2>1, <2>2
<1>4. ASSUME NEW k \in S PROVE k + 1 \in S
  <2>0. k \in Nat /\ k + 1 \in Nat /\ (k + 1) - 1 = k
    OBVIOUS
  <2> SUFFICES ASSUME k + 1 <= Len(s) PROVE CollectInv(did, s, k + 1, g[1..(k + 1)])
    BY <2>0
  <2>1. k <= Len(s) /\ k + 1 \in 1..Len(s)
    BY <1>1, <2>0
  <2>2. CollectInv(did, s, k, g[1..k])
    BY <2>1
  <2>3. g[1..(k + 1)] = OnFrame(Ecu(did), g[1..k], s[k + 1])
    BY <1>2, <2>0, <2>1
  <2> QED BY <1>1, <2>0, <2>1, <2>2, <2>3, FrameStep
<1>5. S = Nat
  <2>1. S \in SUBSET Nat
    OBVIOUS
  <2> HIDE DEF S
  <2> QED BY <1>3, <1>4, <2>1, Successors
<1> QED BY <1>1, <1>2, <1>5

(* udsRead() of any such frames.                                             *)
LEMMA ReadIsOwn ==
  ASSUME NEW did \in Did, NEW s, Stream(did, s) PROVE Own(UdsRead(did, s))
<1> DEFINE r == Collect(did, s)
           out == UdsRead(did, s)
<1>1. CollectInv(did, s, Len(s), r)
  BY CollectAll
<1>2. out.did = did /\ out.result = Outcome(r, did) /\ (out.result = "ok" => out.got = r.got)
  BY DEF UdsRead, Read
<1> HIDE DEF r, out
<1> SUFFICES ASSUME out.result = "ok"
             PROVE  out.got = [i \in 1..Parts(did) |-> Part(Reply(did)[i])]
  BY <1>2 DEF Own, out
<1>3. r.at = "whole" /\ r.got[1][1] = did
  BY <1>1, <1>2 DEF Outcome, CollectInv, Reader
<1>4. /\ r.got \in Seq(Owner \X Nat) /\ Len(r.got) = Parts(did)
      /\ \A j \in 1..Len(r.got) : r.got[j] = <<did, j - 1>>
  BY <1>1, <1>3 DEF CollectInv, Reading, Reader
<1>5. \A i \in 1..Parts(did) : Part(Reply(did)[i]) = <<did, i - 1>>
  <2>1. ASSUME NEW i \in 1..Parts(did) PROVE Part(Reply(did)[i]) = <<did, i - 1>>
    <3>1. Reply(did)[i] = IF i > 1 THEN Frame(did, "next", i - 1)
                          ELSE Frame(did, IF Parts(did) = 1 THEN "single" ELSE "first", 0)
      BY DEF Reply
    <3>2. i \in Nat /\ i >= 1
      BY PartsIs
    <3>3. Reply(did)[i].of = did /\ Reply(did)[i].n = i - 1
      BY <3>1, <3>2 DEF Frame
    <3> QED BY <3>3 DEF Part
  <2> QED BY <2>1
<1>6. r.got = [i \in 1..Parts(did) |-> <<did, i - 1>>]
  <2>1. r.got = [i \in 1..Len(r.got) |-> r.got[i]]
    BY <1>4
  <2> QED BY <1>4, <2>1
<1> QED BY <1>2, <1>5, <1>6

(* What may come to the request of a DID is such a stream.                   *)
LEMMA FrameIs ==
  ASSUME NEW d \in Did, NEW n \in Nat
  PROVE  /\ \A kind \in {"first", "single"} : Parts(d) = 1 \/ kind = "first" =>
              Frame(d, kind, 0) \in FrameT
         /\ \A kind \in {"next", "pending", "refused"} : Frame(d, kind, n) \in FrameT
         /\ \A kind : Frame(d, kind, n).of = d /\ Frame(d, kind, n).from = Ecu(d)
  BY DEF Frame, FrameT, Owner, Ecu

LEMMA ReplyIs ==
  ASSUME NEW d \in Did
  PROVE  /\ Reply(d) \in Seq(FrameT) /\ Len(Reply(d)) = Parts(d)
         /\ \A i \in 1..Parts(d) : Reply(d)[i].of = d
<1>1. ASSUME NEW i \in 1..Parts(d) PROVE Reply(d)[i] \in FrameT /\ Reply(d)[i].of = d
  <2>1. i \in Nat /\ i >= 1 /\ i - 1 \in Nat /\ 0 \in Nat
    BY PartsIs
  <2>2. Reply(d)[i] = IF i > 1 THEN Frame(d, "next", i - 1)
                      ELSE Frame(d, IF Parts(d) = 1 THEN "single" ELSE "first", 0)
    BY DEF Reply
  <2>3. CASE i > 1
    BY <2>1, <2>2, <2>3, FrameIs
  <2>4. CASE ~(i > 1)
    <3>1. Frame(d, IF Parts(d) = 1 THEN "single" ELSE "first", 0) \in FrameT
      BY <2>1, FrameIs
    <3>2. Frame(d, IF Parts(d) = 1 THEN "single" ELSE "first", 0).of = d
      BY <2>1, FrameIs
    <3> QED BY <2>2, <2>4, <3>1, <3>2
  <2> QED BY <2>3, <2>4
<1>2. Parts(d) \in Nat /\ Reply(d) = [i \in 1..Parts(d) |-> Reply(d)[i]]
  BY PartsIs DEF Reply
<1> QED BY <1>1, <1>2

LEMMA AnswerIs ==
  ASSUME NEW d \in Did, NEW a \in Answers(d)
  PROVE  a \in Seq(FrameT) /\ \A i \in DOMAIN a : a[i].of = d
<1>1. Pending(d) \in FrameT /\ Pending(d).of = d /\ Refusal(d) \in FrameT /\ Refusal(d).of = d
  BY 0 \in Nat, FrameIs DEF Pending, Refusal
<1>2. /\ Reply(d) \in Seq(FrameT) /\ DOMAIN Reply(d) = 1..Len(Reply(d))
      /\ \A i \in 1..Len(Reply(d)) : Reply(d)[i].of = d
  BY ReplyIs
<1> HIDE DEF Did
<1>3. CASE a = <<Pending(d)>> \o Reply(d)
  <2> DEFINE x == Pending(d)
             t == Reply(d)
  <2>1. x \in FrameT /\ x.of = d /\ t \in Seq(FrameT) /\ \A i \in 1..Len(t) : t[i].of = d
    BY <1>1, <1>2
  <2> HIDE DEF x, t
  <2>2. /\ <<x>> \o t \in Seq(FrameT) /\ DOMAIN (<<x>> \o t) = 1..(Len(t) + 1)
        /\ \A i \in 1..(Len(t) + 1) : (<<x>> \o t)[i] = IF i = 1 THEN x ELSE t[i - 1]
    BY <2>1
  <2>3. ASSUME NEW i \in 1..(Len(t) + 1) PROVE (<<x>> \o t)[i].of = d
    <3>1. i = 1 \/ i - 1 \in 1..Len(t)
      BY <2>1
    <3> QED BY <2>1, <2>2, <3>1
  <2> QED BY <1>3, <2>2, <2>3 DEF x, t
<1>4. CASE a = <<Refusal(d)>>
  BY <1>1, <1>4
<1>5. CASE a = Reply(d)
  BY <1>2, <1>5
<1> QED BY <1>3, <1>4, <1>5 DEF Answers

LEMMA LateIs ==
  ASSUME NEW did \in Did, NEW l \in Late(did)
  PROVE  \E d \in Did : l \in Seq(FrameT) /\ \A i \in DOMAIN l : l[i].of = d
<1>0. PICK d \in Did : \E k \in 1..Parts(d) + 1 : l = SubSeq(Reply(d), k, Len(Reply(d)))
  BY DEF Late
<1>1. PICK k \in 1..Parts(d) + 1 : l = SubSeq(Reply(d), k, Len(Reply(d)))
  BY <1>0
<1>2. Reply(d) \in Seq(FrameT) /\ Len(Reply(d)) = Parts(d) /\ Parts(d) \in Nat
      /\ \A i \in 1..Parts(d) : Reply(d)[i].of = d
  BY ReplyIs, PartsIs
<1>3. k \in Nat /\ 1 <= k /\ k <= Parts(d) + 1
  BY <1>2
<1> DEFINE t == Reply(d)
<1> HIDE DEF t
<1>4. /\ t \in Seq(FrameT) /\ Len(t) \in Nat /\ k <= Len(t) + 1
      /\ \A i \in 1..Len(t) : t[i].of = d
  BY <1>2, <1>3 DEF t
<1>5. /\ Len(l) = Len(t) + 1 - k /\ DOMAIN l = 1..(Len(t) + 1 - k)
      /\ \A i \in 1..(Len(t) + 1 - k) : l[i] = t[k + i - 1]
  BY <1>1, <1>3, <1>4 DEF t
<1>6. ASSUME NEW i \in 1..(Len(t) + 1 - k) PROVE l[i] \in FrameT /\ l[i].of = d
  <2>1. k + i - 1 \in 1..Len(t)
    BY <1>3, <1>4
  <2>2. l[i] = t[k + i - 1]
    BY <1>5
  <2>3. t[k + i - 1] \in FrameT /\ t[k + i - 1].of = d
    BY <1>4, <2>1
  <2> QED BY <2>2, <2>3
<1>7. l = [i \in 1..(Len(t) + 1 - k) |-> l[i]] /\ Len(t) + 1 - k \in Nat
  BY <1>1, <1>3, <1>4, <1>5 DEF t
<1>8. l \in Seq(FrameT)
  <2> HIDE DEF FrameT
  <2> QED BY <1>6, <1>7
<1> QED BY <1>5, <1>6, <1>8

LEMMA LossyIs ==
  ASSUME NEW did \in Did, NEW s, Stream(did, s), NEW c \in Lossy(s)
  PROVE  Stream(did, c)
<1>1. PICK gone \in SUBSET DOMAIN s : c = [i \in DOMAIN s |-> IF i \in gone THEN Lost ELSE s[i]]
  BY DEF Lossy
<1>2. s \in Seq(FrameT) /\ DOMAIN s = 1..Len(s) /\ Len(s) \in Nat
  BY DEF Stream
<1>3. Lost \in FrameT /\ Lost.from # Ecu(did)
  BY DEF Lost, FrameT, Owner, Ecu
<1>4. \A i \in 1..Len(s) : c[i] \in FrameT
  BY <1>1, <1>2, <1>3
<1>5. c \in Seq(FrameT) /\ DOMAIN c = DOMAIN s
  BY <1>1, <1>2, <1>4
<1>6. ASSUME NEW i \in DOMAIN s, NEW j \in DOMAIN s, i < j, Opens(c[i], did), c[j].from = Ecu(did)
      PROVE  c[j].of = did
  <2>1. c[i] = s[i] /\ c[j] = s[j]
    BY <1>1, <1>3, <1>6 DEF Opens
  <2> QED BY <1>6, <2>1 DEF Stream, InTurn
<1> QED BY <1>5, <1>6 DEF Stream, InTurn

LEMMA ComesIs ==
  ASSUME NEW did \in Did, NEW c \in Comes(did) PROVE Stream(did, c)
<1>1. ASSUME NEW l \in Late(did), NEW a \in Answers(did) PROVE Stream(did, l \o a)
  <2>1. PICK d \in Did : l \in Seq(FrameT) /\ \A i \in DOMAIN l : l[i].of = d
    BY LateIs
  <2>2. a \in Seq(FrameT) /\ \A i \in DOMAIN a : a[i].of = did
    BY AnswerIs
  <2>3. /\ l \o a \in Seq(FrameT) /\ DOMAIN (l \o a) = 1..(Len(l) + Len(a))
        /\ \A i \in 1..(Len(l) + Len(a)) : (l \o a)[i] = IF i <= Len(l) THEN l[i] ELSE a[i - Len(l)]
        /\ Len(l) \in Nat /\ Len(a) \in Nat /\ DOMAIN l = 1..Len(l) /\ DOMAIN a = 1..Len(a)
    BY <2>1, <2>2
  <2>4. ASSUME NEW i \in 1..(Len(l) + Len(a))
        PROVE  (l \o a)[i].of = IF i <= Len(l) THEN d ELSE did
    <3>1. IF i <= Len(l) THEN i \in DOMAIN l ELSE i - Len(l) \in DOMAIN a
      BY <2>3
    <3> QED BY <2>1, <2>2, <2>3, <3>1
  <2>5. ASSUME NEW i \in 1..(Len(l) + Len(a)), NEW j \in 1..(Len(l) + Len(a)), i < j,
               (l \o a)[i].of = did
        PROVE  (l \o a)[j].of = did
    <3>1. i <= Len(l) => d = did
      BY <2>4, <2>5
    <3>2. ~(i <= Len(l)) => ~(j <= Len(l))
      BY <2>3, <2>5
    <3> QED BY <2>4, <3>1, <3>2
  <2> QED BY <2>3, <2>5 DEF Stream, InTurn, Opens
<1>2. Stream(did, Foreign(did) \o Reply(did))
  <2> DEFINE o == IF did = "km" THEN "list" ELSE "km"
             x == Frame(o, "first", 0)
             t == Reply(did)
  <2>1. o \in Did /\ Ecu(o) # Ecu(did)
    BY DEF Did, Ecu
  <2>2. x \in FrameT /\ x.from # Ecu(did)
    <3> HIDE DEF o
    <3> QED BY <2>1, FrameIs, 0 \in Nat
  <2>3. t \in Seq(FrameT) /\ \A i \in 1..Len(t) : t[i].of = did
    BY ReplyIs
  <2>4. Foreign(did) \o Reply(did) = <<x>> \o t
    BY DEF Foreign
  <2> HIDE DEF x, t
  <2>5. /\ <<x>> \o t \in Seq(FrameT) /\ DOMAIN (<<x>> \o t) = 1..(Len(t) + 1) /\ Len(t) \in Nat
        /\ \A i \in 1..(Len(t) + 1) : (<<x>> \o t)[i] = IF i = 1 THEN x ELSE t[i - 1]
    BY <2>2, <2>3
  <2>6. ASSUME NEW i \in 1..(Len(t) + 1), NEW j \in 1..(Len(t) + 1), i < j
        PROVE  (<<x>> \o t)[j].of = did
    <3>1. j # 1 /\ j - 1 \in 1..Len(t)
      BY <2>5, <2>6
    <3> QED BY <2>3, <2>5, <3>1
  <2>7. Stream(did, <<x>> \o t)
    BY <2>5, <2>6 DEF Stream, InTurn
  <2> QED BY <2>4, <2>7
<1>3. CASE c = Foreign(did) \o Reply(did)
  BY <1>2, <1>3
<1>4. CASE \E l \in Late(did), a \in Answers(did) : c \in Lossy(l \o a)
  <2>1. PICK l \in Late(did), a \in Answers(did) : c \in Lossy(l \o a)
    BY <1>4
  <2>2. Stream(did, l \o a)
    BY <1>1
  <2> QED BY <2>1, <2>2, LossyIs
<1> QED BY <1>3, <1>4 DEF Comes

LEMMA ReadsAreOwn ==
  ASSUME NEW did \in Did, NEW r \in Reads[did] PROVE Own(r)
<1>1. PICK c \in Comes(did) : r = UdsRead(did, c)
  BY DEF Reads
<1> QED BY <1>1, ComesIs, ReadIsOwn

(* What an event says of the odometer, the fuel and the phones is the whole  *)
(* reply to the request just sent, in its order (udsRead() of canodo.cpp),   *)
(* whatever late, lost or foreign frames come with it; a whole reply of the  *)
(* same DID that came late is not told from it.                              *)
THEOREM ReadsTheirOwn == Spec => []OwnAnswer
<1>1. Own(Nothing)
  BY DEF Own, Nothing
<1>2. Init => OwnAnswer
  BY <1>1 DEF Init, OwnAnswer
<1>3. ASSUME NEW did \in Did, NEW r \in Kept(did) PROVE Own(r)
  BY <1>1, <1>3, ReadsAreOwn DEF Kept
<1>4. ASSUME OwnAnswer, TypeOK, [Next]_vars PROVE OwnAnswer'
  <2> SUFFICES ASSUME read' # read PROVE Own(read')
    BY <1>4 DEF OwnAnswer
  <2>1. CASE OdoRead
    BY <1>1, <1>3, <2>1 DEF OdoRead, Did
  <2>2. CASE FuelRead
    BY <1>3, <2>2 DEF FuelRead, Did
  <2>3. CASE ListRead
    BY <1>3, <2>3 DEF ListRead, Did
  <2>4. CASE NameRead
    BY <1>3, <2>4 DEF NameRead, Did
  <2>5. CASE Reset
    BY <1>1, <2>5 DEF Reset, Boot, InRam
  <2>6. CASE Parked
    BY <1>1, <2>6 DEF Parked, Boot, InRam, can
  <2>7. CASE Emit \/ Rest
    BY <1>1, <2>7 DEF Emit, Rest, AddOdo
  <2>8. CASE Poll \/ ObdInit \/ EngineTick \/ Standby \/ Car \/ WebOff \/ SetLimit \/ UNCHANGED vars
    BY <2>8 DEF EngineTick, Poll, ObdInit, Standby, WebOff, SetLimit, Car, vars, can
  <2> QED BY <1>4, <2>1, <2>2, <2>3, <2>4, <2>5, <2>6, <2>7, <2>8 DEF Next, MainTask
<1> QED BY <1>2, <1>4, TypeCorrect, PTL DEF Spec
=============================================================================
