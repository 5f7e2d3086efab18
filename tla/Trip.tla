-------------------------------- MODULE Trip --------------------------------
(***************************************************************************)
(* The cycle of the main task (process() of telelogger.ino) as far as it   *)
(* decides when a trip starts and stops: the poll of OBD, the voltage,     *)
(* engineTick(), the record of an engine event with its reads over CAN,    *)
(* the way into standby and the wake-up by a restart.                      *)
(*                                                                         *)
(* Time goes in ticks, at least one for a cycle and at most one more while *)
(* it runs, so that two readings of the clock may differ.  What the code   *)
(* compares with a duration is an age, which stays at its window; the      *)
(* clock stays at MaxTime.  The clock is set, the device is in a car.      *)
(***************************************************************************)
EXTENDS CanOdo, Integers

CONSTANTS
  SilentCycles,  (* ENGINE_STOP_SILENT_CYCLES                                *)
  RpmWindow,     (* 3 s: an RPM this young starts the engine                 *)
  WakeWindow,    (* 300 s: a wake-up this young dates the START              *)
  LowTime,       (* ENGINE_STOP_LOW_V_MS, the first age over it              *)
  Grace,         (* 120 s after sniff mode                                   *)
  Countdown, Middle, Stationary, (* STATIONARY_TIME_TABLE                    *)
  Limits,        (* what STANDBY_TIME is set to                              *)
  Longest,       (* 900 s                                                    *)
  MaxTime,       (* bound: where the clock stays                             *)
  MaxChange,     (* bound: resets, commands, answers the ECU fails to give   *)
  Changes        (* which of them: "reset", "off", "sniff" and "limit" of    *)
                 (* the web page, "miss"                                     *)

Never == 65535

ASSUME TripAssumption ==
  /\ {SilentCycles, RpmWindow} \subseteq Nat \ {0}
  /\ {WakeWindow, LowTime, Grace, Countdown, MaxTime} \subseteq Nat \ {0}
  /\ Stationary \in Nat /\ Stationary > Countdown /\ Middle \in Countdown..Stationary
  /\ Longest \in Nat /\ Longest >= Stationary /\ MaxChange \in Nat
  /\ Limits \subseteq Nat
  /\ Changes \subseteq {"reset", "off", "sniff", "limit", "miss"}

VARIABLES
  engine,    (* the car: "on", "light" (the ignition is on, RPM 0), "off"    *)
  high,      (* its voltage is ENGINE_OFF_VOLTAGE or more                    *)
  now,       (* the clock                                                    *)
  pc,        (* where the main task is                                       *)
  obd,       (* STATE_OBD_READY                                              *)
  sniff,     (* sniffActive()                                                *)
  cycle, silent,  (* s_obdCycle, s_obdSilent                                 *)
  age,       (* since: lastRpmMs, s_wakeUnix, s_lowVoltSinceMs, s_sniffEndMs,*)
             (* lastMotionTime                                               *)
  low,       (* s_lowVoltSinceMs is set                                      *)
  alive,     (* s_engineLastAlive, 0: not yet                                *)
  wake,      (* s_wakeUnix (wakeInfoUnix of the boot before), 0: none        *)
  engineOn,  (* s_engineOn                                                   *)
  checked,   (* s_obdAliveChecked                                            *)
  limit,     (* nvsStandbyTimeS, 0: not set; in NVS                          *)
  above,     (* standby(): readings in a row that were high                  *)
  event,     (* the event record in work and what follows it                 *)
  phones,    (* phones whose name is still to be read                        *)
  read,      (* the last read over CAN                                       *)
  last,      (* history: the last event; "cut": a trip without its STOP      *)
  turned,    (* history: an RPM > 0 was read since the last event            *)
  quiet,     (* history: cycles since the ECU answered a PID                 *)
  changes

car  == <<engine, high>>
poll == <<obd, sniff, cycle, silent, quiet, turned>>
trip == <<alive, wake, engineOn, low>>
park == <<checked, limit, above>>
can  == <<phones, read>>
vars == <<car, now, pc, poll, age, trip, park, event, can, last, changes>>

Window == [rpm |-> RpmWindow, wake |-> WakeWindow, low |-> LowTime, sniff |-> Grace,
           still |-> Longest]
Capped(n, top) == IF n < top THEN n ELSE top
Older(a, d) == [k \in DOMAIN Window |-> Capped(a[k] + d, Window[k])]
Pass(a, d) == age' = Older(a, d) /\ now' = Capped(now + d, MaxTime)
Young(k) == age[k] < Window[k]

NoEvent == [kind |-> "none", at |-> 0, then |-> "rest"]
Change(c) == c \in Changes /\ changes < MaxChange /\ changes' = changes + 1
Steady == UNCHANGED changes
Go(step) == pc' = step

(* After a power-on or a restart; obd.init() of initialize() needs an ECU.   *)
InRam ==
  /\ pc' = "obd" /\ obd' \in {FALSE, engine # "off"} /\ cycle' = -1 /\ silent' = 0
  /\ sniff' = FALSE /\ low' = FALSE /\ alive' = 0 /\ engineOn' = FALSE
  /\ checked' = FALSE /\ above' = 0 /\ event' = NoEvent /\ phones' = 0 /\ read' = Nothing
  /\ turned' = FALSE /\ quiet' = 0

Init ==
  /\ engine = "off" /\ high = FALSE /\ now = 1 /\ pc = "obd"
  /\ obd = FALSE /\ sniff = FALSE /\ cycle = -1 /\ silent = 0
  /\ age = [Window EXCEPT !.still = 0] /\ low = FALSE
  /\ alive = 0 /\ wake = 0 /\ engineOn = FALSE /\ checked = FALSE /\ limit = 0 /\ above = 0
  /\ event = NoEvent /\ phones = 0 /\ read = Nothing
  /\ last = [kind |-> "none", at |-> 0] /\ turned = FALSE /\ quiet = 0 /\ changes = 0

-----------------------------------------------------------------------------
(* The car. *)

Car ==
  /\ pc \in {"obd", "tick", "rest", "parked"}      \* nothing else looks at it
  /\ engine' \in {"on", "light", "off"} /\ high' \in BOOLEAN
  /\ UNCHANGED <<now, pc, poll, age, trip, park, event, can, last, changes>>

-----------------------------------------------------------------------------
(* Engine events. *)

(* emitEngineEvent(): what leads to `then` is behind its reads and record.   *)
EmitEngineEvent(kind, at, then) ==
  event' = [kind |-> kind, at |-> at, then |-> then] /\ pc' = "odo"

(* engineStop() *)
EngineStop(then) ==
  IF ~engineOn THEN pc' = then /\ UNCHANGED <<engineOn, event>>
  ELSE engineOn' = FALSE /\ EmitEngineEvent("stop", IF alive # 0 THEN alive ELSE now, then)

(* Why a read failed goes to the server; the task asks only for a refusal.   *)
Kept(did) == {IF r.result \in {"ok", "nrc"} THEN r ELSE Nothing : r \in Reads[did]}

(* odoRead(): the controller runs when it is wanted and nobody sniffs.       *)
OdoRead ==
  /\ pc = "odo"
  /\ \/ /\ ~sniff
        /\ read' \in Kept("km")
        /\ Go(IF event.kind = "none" THEN "fuel" ELSE "list")
     \/ /\ read' = Nothing
        /\ Go(IF event.kind = "none" THEN "rest" ELSE "emit")
  /\ UNCHANGED <<car, now, poll, age, trip, park, event, phones, last, changes>>

(* fuelRead(), with the odometer of a minute                                 *)
FuelRead ==
  /\ pc = "fuel" /\ read' \in Kept("fuel") /\ Go("list")
  /\ UNCHANGED <<car, now, poll, age, trip, park, event, phones, last, changes>>

(* canPhonesRead(): the list, refused once more in an extended session; then *)
(* the names of at most two phones.                                          *)
AfterPhones == Go(IF event.kind = "none" THEN "rest" ELSE "emit")
ListRead ==
  /\ pc \in {"list", "list_again"}
  /\ read' \in Kept("list")
  /\ \/ read'.result = "ok" /\ phones' \in 1..2 /\ Go("name1")
     \/ read'.result = "nrc" /\ pc = "list" /\ Go("list_again") /\ UNCHANGED phones
     \/ AfterPhones /\ UNCHANGED phones
  /\ UNCHANGED <<car, now, poll, age, trip, park, event, last, changes>>
NameRead ==
  /\ pc \in {"name1", "name2"}
  /\ read' \in Kept(pc)
  /\ phones' = phones - 1
  /\ IF phones = 1 THEN AfterPhones ELSE Go("name2")
  /\ UNCHANGED <<car, now, poll, age, trip, park, event, last, changes>>

(* addOdo(): the next record takes what was read, once.                      *)
AddOdo == read' = Nothing /\ phones' = 0

Emit ==
  /\ pc = "emit"
  /\ last' = [kind |-> event.kind, at |-> event.at]
  /\ turned' = FALSE /\ event' = NoEvent /\ AddOdo
  /\ Go(event.then)
  /\ UNCHANGED <<car, now, obd, sniff, cycle, silent, quiet, age, trip, park, changes>>

-----------------------------------------------------------------------------
(* A cycle: sniff mode and OBD. *)

(* sniffTick(): the start takes OBD away, the end is remembered.             *)
SniffTick ==
  \/ UNCHANGED <<sniff, obd>> /\ Steady
  \/ ~sniff /\ sniff' = TRUE /\ obd' = FALSE /\ Change("sniff")
  \/ sniff /\ sniff' = FALSE /\ UNCHANGED obd /\ Steady
Since == IF sniff /\ ~sniff' THEN [age EXCEPT !.sniff = 0] ELSE age

(* Sniff mode, or OBD is off: obd.init() is tried every 30 s.                *)
NoPoll(d) ==
  /\ SniffTick /\ (sniff' \/ ~obd')
  /\ UNCHANGED <<cycle, silent, turned, alive>>
  /\ quiet' = Capped(quiet + 1, SilentCycles)
  /\ Pass(Since, d)

(* processOBD(): with RPM > 0, with other answers only, or without one.      *)
Turning(d) ==
  /\ ~sniff /\ obd /\ UNCHANGED <<sniff, obd>> /\ Steady /\ engine = "on"
  /\ cycle' = 1 /\ alive' = now /\ turned' = TRUE /\ quiet' = 0 /\ UNCHANGED silent
  /\ Pass([age EXCEPT !.rpm = 0, !.still = 0], d)
Answered(d) ==
  /\ ~sniff /\ obd /\ UNCHANGED <<sniff, obd>>
  /\ IF engine = "light" THEN Steady ELSE engine = "on" /\ Change("miss")
  /\ cycle' = 1 /\ quiet' = 0 /\ UNCHANGED <<silent, alive, turned>>
  /\ Pass(age, d)
Unanswered(d) ==
  /\ obd /\ ~sniff /\ UNCHANGED <<sniff, obd>>
  /\ IF engine = "off" THEN Steady ELSE Change("miss")
  /\ cycle' = 0 /\ quiet' = Capped(quiet + 1, SilentCycles)
  /\ UNCHANGED <<silent, alive, turned>>
  /\ Pass(age, d)

Poll ==
  /\ pc = "obd" /\ Go("tick")
  /\ \E d \in 0..1 : NoPoll(d) \/ Turning(d) \/ Answered(d) \/ Unanswered(d)
  /\ UNCHANGED <<car, wake, engineOn, low, park, event, can, last>>

(* obd.init() succeeds; the poll waits for the next cycle.                   *)
ObdInit ==
  /\ pc = "obd" /\ ~obd /\ ~sniff /\ engine # "off"
  /\ obd' = TRUE /\ Go("tick")
  /\ quiet' = Capped(quiet + 1, SilentCycles)
  /\ UNCHANGED <<car, now, sniff, cycle, silent, turned, age, trip, park, event, can, last, changes>>

-----------------------------------------------------------------------------
(* engineTick() *)

(* The voltage keeps the device awake, and without OBD it is the evidence.   *)
Still == IF high THEN [age EXCEPT !.still = 0] ELSE age
Alive == IF high /\ ~obd THEN now ELSE alive

StartsByVoltage == Young("rpm") \/ high
StartsByRpm == Young("rpm")
Starts == Young("rpm") \/ (high /\ ~obd)

(* The minute of the odometer may be over.                                   *)
NoNews == UNCHANGED event /\ \/ Go("rest")
                             \/ engineOn' /\ ~sniff /\ Go("odo")

EngineStartsKeepsWake ==
  /\ ~engineOn /\ Starts
  /\ LET when == IF wake # 0 /\ Young("wake") THEN wake ELSE now
     IN  /\ EmitEngineEvent("start", when, "rest")
         /\ alive' = IF Alive = 0 THEN when ELSE Alive
  /\ engineOn' = TRUE /\ UNCHANGED wake /\ silent' = 0 /\ low' = FALSE /\ age' = Still
EngineStarts ==
  /\ ~engineOn /\ Starts
  /\ LET when == IF wake # 0 /\ Young("wake") THEN wake ELSE now
     IN  /\ EmitEngineEvent("start", when, "rest")
         /\ alive' = IF Alive = 0 THEN when ELSE Alive
  /\ engineOn' = TRUE /\ wake' = 0 /\ silent' = 0 /\ low' = FALSE /\ age' = Still

StaysOff ==
  /\ ~engineOn /\ ~Starts
  /\ alive' = Alive /\ UNCHANGED <<engineOn, wake, silent, low, event>> /\ age' = Still
  /\ Go("rest")

(* With OBD the ECU decides: the cycles it did not answer, one after another.*)
NowSilentForgetful ==
  IF Young("sniff") THEN 0 ELSE IF cycle = 0 THEN silent + 1 ELSE silent
NowSilent ==
  IF Young("sniff") THEN 0
  ELSE CASE cycle = 0 -> silent + 1 [] cycle = 1 -> 0 [] OTHER -> silent
EcuDecides ==
  /\ engineOn /\ obd
  /\ silent' = Capped(NowSilent, SilentCycles) /\ alive' = alive /\ age' = Still
  /\ UNCHANGED <<wake, low>>
  /\ IF NowSilent >= SilentCycles THEN EngineStop("rest") ELSE UNCHANGED engineOn /\ NoNews

(* Without it a voltage that stays low.                                      *)
VoltageDecides ==
  /\ engineOn /\ ~obd
  /\ alive' = Alive /\ UNCHANGED <<wake, silent>>
  /\ low' = ~high
  /\ age' = IF ~high /\ ~low THEN [Still EXCEPT !.low = 0] ELSE Still
  /\ IF low' /\ low /\ ~Young("low")
     THEN engineOn' = FALSE /\ EmitEngineEvent("stop", IF Alive # 0 THEN Alive ELSE now, "rest")
     ELSE UNCHANGED engineOn /\ NoNews

EngineTick ==
  /\ pc = "tick"
  /\ EngineStarts \/ StaysOff \/ EcuDecides \/ VoltageDecides
  /\ UNCHANGED <<car, now, obd, sniff, cycle, quiet, turned, park, can, last, changes>>

-----------------------------------------------------------------------------
(* STANDBY_TIME of the web page replaces the last time of the table, the     *)
(* middle one still counts.  (A tick is no less than its smallest, 5 s.)     *)
StandbyTime(asked) == IF asked = Never THEN Never ELSE Capped(asked, Longest)
LastTime == CASE limit = Never -> 0 [] limit = 0 -> Stationary [] OTHER -> limit
Stands(a) == \A t \in {Countdown, Middle, LastTime} : t # 0 /\ a.still >= t

SetLimit ==
  /\ pc = "obd" /\ Change("limit")
  /\ limit' \in {StandbyTime(v) : v \in Limits}
  /\ UNCHANGED <<car, now, pc, poll, age, trip, checked, above, event, can, last>>

(* The end of a cycle: three fast fixes count as motion; the countdown of    *)
(* the standby, whose start asks the ECU.                                    *)

(* "ECU_OFF"; a text of the adapter ("NO DATA") is an answer as well.        *)
Asks(a) == a.still >= Countdown /\ obd /\ ~checked
NoEcu(a) ==
  /\ Asks(a) /\ checked' = TRUE
  /\ IF engine = "off" THEN Steady ELSE Change("miss")
  /\ EngineStop("standby") /\ UNCHANGED <<age, now>>
(* "TIMER", held off by sniff mode; or the wait for the next cycle.          *)
CountsDown(a) ==
  /\ checked' = (a.still >= Countdown /\ (checked \/ obd)) /\ Steady
  /\ IF Stands(a) /\ ~sniff
     THEN EngineStop("standby") /\ UNCHANGED <<age, now>>
     ELSE Go("obd") /\ Pass(a, 1) /\ UNCHANGED <<engineOn, event>>

Rest ==
  /\ pc = "rest"
  /\ \E moves \in BOOLEAN :
       LET a == IF moves THEN [age EXCEPT !.still = 0] ELSE age IN NoEcu(a) \/ CountsDown(a)
  /\ AddOdo
  /\ UNCHANGED <<car, poll, limit, alive, wake, low, above, last>>

(* cmd=OFF of the web page: loop() finds WORKING cleared and no event is made*)
WebOff ==
  /\ pc = "obd" /\ Change("off") /\ Go("standby")
  /\ last' = [last EXCEPT !.kind = IF @ = "start" THEN "cut" ELSE @]
  /\ UNCHANGED <<car, now, poll, age, trip, park, event, can>>

(* standby(): sniff mode ends, OBD is off.                                   *)
Standby ==
  /\ pc = "standby" /\ Go("parked") /\ above' = 0
  /\ sniff' = FALSE /\ obd' = FALSE
  /\ UNCHANGED <<car, now, cycle, silent, quiet, turned, age, trip, checked, limit, event, can,
                 last, changes>>

(* initialize() takes the time of a wake-up over (its file opens: see README)*)
Cut == [last EXCEPT !.kind = IF @ = "start" THEN "cut" ELSE @]
Boot(woken, since) ==
  /\ InRam /\ last' = Cut /\ UNCHANGED limit
  /\ wake' = woken
  /\ age' = [Window EXCEPT !.still = 0, !.wake = since]

(* The voltage every 5 s; two high ones in a row wake it, and the engine     *)
(* started at the first of them.  The wake-up is a restart.                  *)
Parked ==
  /\ pc = "parked" /\ UNCHANGED car /\ Steady
  /\ IF high /\ above = 1
     THEN Boot(now, 1) /\ now' = Capped(now + 1, MaxTime)
     ELSE /\ above' = IF high THEN 1 ELSE 0
          /\ UNCHANGED <<pc, poll, trip, checked, limit, event, can, last>>
          /\ Pass(age, 1)

(* A panic, or the restart for an update.                                    *)
Reset == Change("reset") /\ Boot(0, age.wake) /\ UNCHANGED <<car, now>>

-----------------------------------------------------------------------------
MainTask == Poll \/ ObdInit \/ EngineTick \/ OdoRead \/ FuelRead \/ ListRead \/ NameRead
              \/ Emit \/ Rest \/ Standby \/ Parked
Next == MainTask \/ Car \/ WebOff \/ SetLimit \/ Reset
Spec == Init /\ [][Next]_vars
(* The loop of the main task always goes on.                                 *)
FairSpec == Spec /\ WF_vars(MainTask)

ClockTypes ==
  /\ now \in 1..MaxTime /\ {alive, wake} \subseteq 0..MaxTime
  /\ age \in [DOMAIN Window -> Nat] /\ \A k \in DOMAIN Window : age[k] <= Window[k]
EventTypes ==
  /\ event \in [kind : {"none", "start", "stop"}, at : 0..MaxTime, then : {"rest", "standby"}]
  /\ last \in [kind : {"none", "start", "stop", "cut"}, at : 0..MaxTime]
CountTypes ==
  /\ cycle \in -1..1 /\ silent \in 0..SilentCycles /\ quiet \in 0..SilentCycles
  /\ limit \in {Never} \cup 0..Longest /\ above \in 0..1
  /\ phones \in 0..2 /\ changes \in 0..MaxChange
FlagTypes ==
  /\ engine \in {"on", "light", "off"}
  /\ pc \in {"obd", "tick", "odo", "fuel", "list", "list_again", "name1", "name2", "emit", "rest",
             "standby", "parked"}
  /\ {high, obd, sniff, low, engineOn, checked, turned} \subseteq BOOLEAN
TypeOK == ClockTypes /\ EventTypes /\ CountTypes /\ FlagTypes

(* The server's logbook: a trip starts when none runs, ends when it runs,    *)
(* and its times follow one another, an end to the age of the RPM its start  *)
(* was seen by - whether the engine's end was seen by OBD, by the voltage or *)
(* on the way into standby, through wake-ups and restarts.                   *)
InOrder ==
  [][last' # last =>
       /\ last'.kind = "start" => last.kind # "start"
       /\ last'.kind \in {"stop", "cut"} => last.kind = "start"
       /\ last'.at >= IF last'.kind = "stop" THEN last.at - (RpmWindow - 1) ELSE last.at]_last

(* With OBD no voltage starts a trip (engineTick()): since the event before  *)
(* it the engine was seen turning.                                           *)
Announces(kind) == event.kind = "none" /\ event'.kind = kind
NoGhostTrip == [][Announces("start") /\ obd => turned]_vars

(* engineTick() ends a trip over OBD only when the ECU was not heard in the  *)
(* last ENGINE_STOP_SILENT_CYCLES cycles, with sniff mode between them too.  *)
StopIsSilence == [][Announces("stop") /\ obd /\ pc = "tick" => quiet >= SilentCycles]_vars

(* What an event says of the odometer and the phones is the reply to the     *)
(* request just sent, whole and in its order (udsRead()); a whole reply of   *)
(* the same DID that came late is not told from it.                          *)
OwnAnswer == Own(read)

(* The logbook follows the car: off for good at a low voltage, no trip stays *)
(* open; on for good with the alternator charging, the device comes to know. *)
Off == engine = "off" /\ ~high
On  == engine = "on" /\ high
TripFollows ==
  /\ <>[]Off => <>[](last.kind # "start")
  /\ <>[]On  => <>[]engineOn
=============================================================================
