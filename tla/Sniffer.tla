------------------------------- MODULE Sniffer -------------------------------
(***************************************************************************)
(* Sniff mode (sniff.cpp): every frame of the CAN bus into a file, through *)
(* a queue from the receive task and a block of the SD writer, and the     *)
(* ownership of the CAN controller, which the odometer reads (canodo.cpp)  *)
(* use otherwise.                                                          *)
(*                                                                         *)
(* The main task starts, stops and times the mode; a restart, asked for by *)
(* the main or the telemetry task, closes the file first; a panic does     *)
(* not.  A frame is its number in the session.  Opening a file answers in  *)
(* time here: SdWriter has the requests that do not.                       *)
(***************************************************************************)
EXTENDS Naturals, Sequences

CONSTANTS
  MaxFrame,   (* bound: frames in a session                                  *)
  MaxCommand, (* bound: commands, sent frames, restarts and panics           *)
  MaxFail,    (* bound: failures of the card                                 *)
  QueueCap,   (* frames the queue holds (s_queueCap - 1)                     *)
  BlockCap,   (* frames a block holds                                        *)
  Minutes,    (* minutes a command asks for                                  *)
  SaveEvery,  (* NVS_SAVE_EVERY_MIN                                          *)
  Speeds,     (* number of bus speeds                                        *)
  Events      (* "resets", "sends": restarts and SNIFF_SEND happen           *)

ASSUME BoundsAssumption ==
  /\ MaxFrame \in Nat /\ MaxCommand \in Nat /\ MaxFail \in Nat
  /\ QueueCap \in Nat \ {0} /\ BlockCap \in Nat \ {0}
  /\ Minutes \in Nat \ {0} /\ SaveEvery \in Nat \ {0} /\ Speeds \in Nat \ {0}
ASSUME EventsAssumption == Events \subseteq {"resets", "sends"}

VARIABLES
  queue,         (* s_queue                                                  *)
  frames, dropped, written, sdLost, (* the counters of a stats line          *)
  accepted,      (* history: frames of this session put into the queue       *)
  block, last,   (* the writer's block, and whether it ends the file         *)
  file, stats,   (* frames in the file; "written" in its last stats line,    *)
                 (* NoStats while it has no end                              *)
  sniffOpen, fileOk, closing, failing, dead,
  active, req, reqMin, minLeft, since, (* s_active .. s_sinceSave            *)
  nvs,           (* SNIFF_MIN                                                *)
  driver,        (* whose CAN driver is installed: "none", "sniff", "odo"    *)
  odo, odoOn,    (* s_ready of canodo, s_vwOdoOn                             *)
  speed, found, probe, (* s_speedIdx, s_speedFound, s_probeFrames            *)
  bus,           (* the speed of the bus                                     *)
  main, tele,    (* where the tasks are                                      *)
  leaving,       (* the main task is restarting                              *)
  commands, fails

countVars == <<queue, frames, dropped, written, sdLost, accepted>>
blockVars == <<block, last, file, stats, sniffOpen, failing, dead>>
fileVars  == <<blockVars, fileOk, closing>>
modeVars  == <<active, req, reqMin, minLeft, since, nvs>>
speedVars == <<speed, found, probe, bus>>
canVars   == <<driver, odo, odoOn, speedVars>>
taskVars  == <<main, tele, leaving>>
boundVars == <<commands, fails>>
vars == <<countVars, fileVars, modeVars, canVars, taskVars, boundVars>>

NoStats == MaxFrame + 1
None    == "none"

Init ==
  /\ queue = <<>> /\ frames = 0 /\ dropped = 0 /\ written = 0 /\ sdLost = 0 /\ accepted = <<>>
  /\ block = <<>> /\ last = FALSE /\ file = <<>> /\ stats = NoStats
  /\ sniffOpen = FALSE /\ fileOk = FALSE /\ closing = FALSE /\ failing = FALSE /\ dead = FALSE
  /\ active = FALSE /\ req = None /\ reqMin = 0 /\ minLeft = 0 /\ since = 0 /\ nvs = 0
  /\ driver = "none" /\ odo = FALSE /\ odoOn = FALSE
  /\ speed = 1 /\ found = FALSE /\ probe = 0 /\ bus \in 1..Speeds
  /\ main = "idle" /\ tele = "idle" /\ leaving = FALSE /\ commands = 0 /\ fails = 0

Command  == commands < MaxCommand /\ commands' = commands + 1
CardFails == fails < MaxFail /\ fails' = fails + 1

-----------------------------------------------------------------------------
(* Frames. *)

(* A full queue drops the new frame. *)
PushFrame ==
  /\ frames < MaxFrame /\ frames' = frames + 1
  /\ IF Len(queue) < QueueCap
     THEN queue' = Append(queue, frames') /\ accepted' = Append(accepted, frames') /\ UNCHANGED dropped
     ELSE dropped' = dropped + 1 /\ UNCHANGED <<queue, accepted>>
  /\ UNCHANGED <<written, sdLost>>

(* rxTask(); at a wrong speed nothing is received.                           *)
Receive ==
  /\ driver = "sniff" /\ speed = bus
  /\ PushFrame
  /\ UNCHANGED <<fileVars, modeVars, canVars, taskVars, boundVars>>

(* sniffFill(): the frames of the queue as far as they fit, and with the     *)
(* last ones the stats line that counts this block too.                      *)
Writing == sniffOpen /\ ~dead
Taken   == IF Len(queue) < BlockCap THEN Len(queue) ELSE BlockCap

FillEndsEarly ==
  /\ Writing /\ block = <<>> /\ ~last /\ (queue # <<>> \/ closing)
  /\ block' = SubSeq(queue, 1, Taken) /\ queue' = SubSeq(queue, Taken + 1, Len(queue))
  /\ last' = closing
  /\ UNCHANGED <<frames, dropped, written, sdLost, accepted, file, stats, sniffOpen, failing, dead,
                 fileOk, closing, modeVars, canVars, taskVars, boundVars>>
Fill ==
  /\ Writing /\ block = <<>> /\ ~last /\ (queue # <<>> \/ closing)
  /\ block' = SubSeq(queue, 1, Taken) /\ queue' = SubSeq(queue, Taken + 1, Len(queue))
  /\ last' = (closing /\ queue' = <<>>)
  /\ UNCHANGED <<frames, dropped, written, sdLost, accepted, file, stats, sniffOpen, failing, dead,
                 fileOk, closing, modeVars, canVars, taskVars, boundVars>>

(* sniffWrite(): the block is on the card and counted; the last one closes   *)
(* the file.                                                                 *)
WriteOk ==
  /\ Writing /\ (block # <<>> \/ last)
  /\ file' = file \o block /\ written' = written + Len(block) /\ block' = <<>>
  /\ failing' = FALSE /\ last' = FALSE
  /\ IF last THEN sniffOpen' = FALSE /\ stats' = written' ELSE UNCHANGED <<sniffOpen, stats>>
  /\ UNCHANGED <<queue, frames, dropped, sdLost, accepted, dead, fileOk, closing, modeVars, canVars,
                 taskVars, boundVars>>

(* The file is cut back to what it had, the same block is written again.     *)
WriteFails ==
  /\ Writing /\ (block # <<>> \/ last) /\ CardFails /\ failing' = TRUE
  /\ UNCHANGED <<countVars, block, last, file, stats, sniffOpen, dead, fileOk, closing, modeVars,
                 canVars, taskVars, commands>>

(* goDead() and sniffSdDead(): the card has taken nothing for a while, this  *)
(* file or the log; what never reached it is counted.                        *)
GoDeadForgetsBlock ==
  /\ ~dead /\ dead' = TRUE /\ ((failing /\ UNCHANGED fails) \/ CardFails)
  /\ IF sniffOpen
     THEN /\ sdLost' = sdLost + Len(queue) /\ queue' = <<>>
          /\ block' = <<>> /\ last' = FALSE /\ sniffOpen' = FALSE
          /\ fileOk' = FALSE /\ closing' = FALSE /\ req' = "off"
     ELSE UNCHANGED <<sdLost, queue, block, last, sniffOpen, fileOk, closing, req>>
  /\ UNCHANGED <<frames, dropped, written, accepted, file, stats, failing, active, reqMin, minLeft,
                 since, nvs, canVars, taskVars, commands>>
GoDead ==
  /\ ~dead /\ dead' = TRUE /\ ((failing /\ UNCHANGED fails) \/ CardFails)
  /\ IF sniffOpen
     THEN /\ sdLost' = sdLost + Len(block) + Len(queue) /\ queue' = <<>>
          /\ block' = <<>> /\ last' = FALSE /\ sniffOpen' = FALSE
          /\ fileOk' = FALSE /\ closing' = FALSE /\ req' = "off"
     ELSE UNCHANGED <<sdLost, queue, block, last, sniffOpen, fileOk, closing, req>>
  /\ UNCHANGED <<frames, dropped, written, accepted, file, stats, failing, active, reqMin, minLeft,
                 since, nvs, canVars, taskVars, commands>>

-----------------------------------------------------------------------------
(* The main task: sniffTick() and what it calls. *)

MainGoes(pc) == main' = pc /\ UNCHANGED <<tele, leaving>>

(* sniffRequest(), from the server or the web page.                          *)
Request ==
  /\ Command /\ req' \in {"on", "off"} /\ reqMin' = Minutes
  /\ UNCHANGED <<countVars, fileVars, active, minLeft, since, nvs, canVars, taskVars, fails>>

(* saveMinutes() *)
Save(on) == nvs' = (IF on THEN minLeft' ELSE 0) /\ since' = 0

(* Already on: a new duration. *)
Renew ==
  /\ main = "idle" /\ req = "on" /\ active
  /\ req' = None /\ minLeft' = reqMin /\ Save(TRUE)
  /\ UNCHANGED <<countVars, fileVars, active, reqMin, canVars, taskVars, boundVars>>

(* The card is too full, or the last file is not finished within 5 s.        *)
Refuse ==
  /\ main = "idle" /\ req = "on" /\ ~active
  /\ req' = None /\ UNCHANGED minLeft /\ Save(FALSE)
  /\ UNCHANGED <<countVars, fileVars, active, reqMin, canVars, taskVars, boundVars>>

(* startNow(), with canOdoEnd(), up to openFile().                           *)
NewSession ==
  /\ main = "idle" /\ req = "on" /\ ~active /\ ~sniffOpen
  /\ req' = None /\ MainGoes("open")
  /\ queue' = <<>> /\ frames' = 0 /\ dropped' = 0 /\ accepted' = <<>>
  /\ speed' = 1 /\ found' = FALSE /\ closing' = FALSE
  /\ UNCHANGED <<written, sdLost, blockVars, fileOk, active, reqMin, minLeft, since, nvs, odoOn, probe,
                 bus, boundVars>>

StartLeavesOdo == NewSession /\ UNCHANGED <<odo, driver>>
Start ==
  /\ NewSession
  /\ odo' = FALSE /\ driver' = IF odo THEN "none" ELSE driver

(* openFile(): a new file; no file on a dead card or when it fails; one that *)
(* opens after the 3 s the request waits is open without sniff.cpp knowing.  *)
OpenFile ==
  /\ main = "open" /\ MainGoes("begin")
  /\ written' = 0 /\ sdLost' = 0 /\ file' = <<>> /\ stats' = NoStats /\ UNCHANGED dead
  /\ \/ dead /\ fileOk' = FALSE /\ UNCHANGED <<block, last, sniffOpen, failing, fails>>
     \/ ~dead /\ CardFails /\ fileOk' = FALSE /\ UNCHANGED <<block, last, sniffOpen, failing>>
     \/ /\ ~dead
        /\ sniffOpen' = TRUE /\ block' = <<>> /\ last' = FALSE /\ failing' = FALSE
        /\ \/ fileOk' = TRUE /\ UNCHANGED fails
           \/ fileOk' = FALSE /\ CardFails
  /\ UNCHANGED <<queue, frames, dropped, accepted, closing, modeVars, canVars, commands>>

(* canStart(): installing the driver fails while another one is installed.   *)
CanStart == driver' = IF driver = "none" THEN "sniff" ELSE driver

Begin ==
  /\ main = "begin" /\ MainGoes("idle")
  /\ CanStart /\ odoOn' = FALSE
  /\ probe' = 0 /\ minLeft' = reqMin /\ active' = TRUE /\ Save(TRUE)
  /\ UNCHANGED <<countVars, fileVars, req, reqMin, odo, speed, found, bus, boundVars>>

(* sniffTick() finds the mode on; the telemetry task may close it from here  *)
(* on.                                                                       *)
Tick ==
  /\ main = "idle" /\ active /\ req = None
  /\ MainGoes("speed")
  /\ UNCHANGED <<countVars, fileVars, modeVars, canVars, boundVars>>

(* speedTick(): frames have come, or the next speed is tried.                *)
SpeedTickReturns ==
  /\ main = "speed" /\ MainGoes(IF found THEN "minute" ELSE "idle")
  /\ \/ UNCHANGED <<driver, speed, found, probe>>
     \/ ~found /\ frames > probe /\ found' = TRUE /\ UNCHANGED <<driver, speed, probe>>
     \/ ~found /\ frames = probe /\ driver' = "sniff" /\ speed' = (speed % Speeds) + 1 /\ UNCHANGED <<found, probe>>
  /\ UNCHANGED <<countVars, fileVars, modeVars, odo, odoOn, bus, boundVars>>
SpeedTick ==
  /\ main = "speed" /\ MainGoes("minute")
  /\ \/ UNCHANGED <<driver, speed, found, probe>>     \* found, or still listening
     \/ ~found /\ frames > probe /\ found' = TRUE /\ UNCHANGED <<driver, speed, probe>>
     \/ /\ ~found /\ frames = probe
        /\ driver' = "sniff" /\ speed' = (speed % Speeds) + 1 /\ UNCHANGED <<found, probe>>
  /\ UNCHANGED <<countVars, fileVars, modeVars, odo, odoOn, bus, boundVars>>

NoMinute ==
  /\ main = "minute" /\ MainGoes("idle")
  /\ UNCHANGED <<countVars, fileVars, modeVars, canVars, boundVars>>

(* A minute of the countdown: the last one stops the mode.                   *)
Minute ==
  /\ main = "minute" /\ minLeft' = minLeft - 1
  /\ IF minLeft' = 0
     THEN /\ active' = FALSE /\ MainGoes(IF active THEN "can" ELSE "idle") /\ UNCHANGED <<nvs, since>>
     ELSE /\ UNCHANGED active /\ MainGoes("idle")
          /\ IF since + 1 >= SaveEvery THEN Save(active) ELSE since' = since + 1 /\ UNCHANGED nvs
  /\ UNCHANGED <<countVars, fileVars, req, reqMin, canVars, boundVars>>

(* sniffStopNow(): asked for, or by standby().                               *)
StopNow ==
  /\ main = "idle" /\ active
  /\ active' = FALSE /\ MainGoes("can")
  /\ UNCHANGED <<countVars, fileVars, reqMin, minLeft, since, nvs, canVars, fails>>

Stop    == StopNow /\ req = "off" /\ req' = None /\ UNCHANGED commands
Standby == StopNow /\ Command /\ UNCHANGED req

OffWhenOff ==
  /\ main = "idle" /\ req = "off" /\ ~active /\ req' = None
  /\ UNCHANGED <<countVars, fileVars, active, reqMin, minLeft, since, nvs, canVars, taskVars, boundVars>>

(* canStop(), then closeFile(): the task that stops waits up to 5 s.         *)
At(task, pc) == (task = "main" /\ main = pc) \/ (task = "tele" /\ tele = pc)
GoTo(task, pc) ==
  /\ UNCHANGED leaving
  /\ main' = (IF task = "main" THEN pc ELSE main) /\ tele' = (IF task = "tele" THEN pc ELSE tele)

CanStop(task) ==
  /\ At(task, "can") /\ GoTo(task, "close")
  /\ driver' = "none"
  /\ UNCHANGED <<countVars, fileVars, modeVars, odo, odoOn, speedVars, boundVars>>

CloseFile(task) ==
  /\ At(task, "close") /\ GoTo(task, IF fileOk THEN "wait" ELSE "closed")
  /\ closing' = (closing \/ fileOk)
  /\ UNCHANGED <<countVars, blockVars, fileOk, modeVars, canVars, boundVars>>

FileClosed(task) ==
  /\ At(task, "wait") /\ GoTo(task, "closed")
  /\ \/ ~sniffOpen /\ fileOk' = FALSE /\ closing' = FALSE
     \/ sniffOpen /\ UNCHANGED <<fileOk, closing>>    \* 5 s are over
  /\ UNCHANGED <<countVars, blockVars, modeVars, canVars, boundVars>>

Stopped ==
  /\ main = "closed" /\ ~leaving /\ MainGoes("idle")
  /\ UNCHANGED minLeft /\ Save(active)
  /\ UNCHANGED <<countVars, fileVars, active, req, reqMin, canVars, boundVars>>

(* vwOdoTick(): the odometer's driver, while the sniffer is off.             *)
OdoTick ==
  /\ main = "idle" /\ ~active /\ ~odoOn /\ driver = "none"
  /\ driver' = "odo" /\ odo' = TRUE /\ odoOn' = TRUE
  /\ UNCHANGED <<countVars, fileVars, modeVars, speedVars, taskVars, boundVars>>

(* VW_ODO=0 *)
OdoOff ==
  /\ main = "idle" /\ ~active /\ odoOn /\ Command
  /\ odoOn' = FALSE /\ odo' = FALSE /\ driver' = IF odo THEN "none" ELSE driver
  /\ UNCHANGED <<countVars, fileVars, modeVars, speedVars, taskVars, fails>>

(* sniffSend(): one frame, counted like a received one, and a second later   *)
(* the controller listens again.                                             *)
Send ==
  /\ "sends" \in Events /\ main = "idle" /\ active /\ Command
  /\ driver' = "sniff" /\ PushFrame /\ MainGoes("sent")
  /\ UNCHANGED <<fileVars, modeVars, odo, odoOn, speedVars, fails>>

SendEnd ==
  /\ main = "sent" /\ MainGoes("idle")
  /\ driver' = "sniff"
  /\ UNCHANGED <<countVars, fileVars, modeVars, odo, odoOn, speedVars, boundVars>>

-----------------------------------------------------------------------------
(* Restarts. *)

(* sniffCloseForRestart(), in the main or the telemetry task: the exact      *)
(* minutes left stay in NVS.                                                 *)
Prepare(task) ==
  /\ "resets" \in Events /\ At(task, "idle") /\ Command
  /\ active' = FALSE /\ UNCHANGED minLeft
  /\ IF active THEN Save(TRUE) ELSE UNCHANGED <<nvs, since>>
  /\ leaving' = (leaving \/ task = "main")
  /\ LET pc == IF active THEN "can" ELSE "closed"
     IN  main' = (IF task = "main" THEN pc ELSE main) /\ tele' = (IF task = "tele" THEN pc ELSE tele)
  /\ UNCHANGED <<countVars, fileVars, req, reqMin, canVars, fails>>

(* RAM is lost; sniffInit() asks for what is left of the time.               *)
Boot ==
  /\ queue' = <<>> /\ frames' = 0 /\ dropped' = 0 /\ written' = 0 /\ sdLost' = 0 /\ accepted' = <<>>
  /\ block' = <<>> /\ last' = FALSE /\ sniffOpen' = FALSE /\ fileOk' = FALSE /\ closing' = FALSE
  /\ failing' = FALSE /\ dead' = FALSE
  /\ active' = FALSE /\ minLeft' = 0 /\ since' = 0
  /\ req' = (IF nvs > 0 THEN "on" ELSE None) /\ reqMin' = nvs
  /\ driver' = "none" /\ odo' = FALSE /\ odoOn' = FALSE
  /\ speed' = 1 /\ found' = FALSE /\ probe' = 0
  /\ main' = "idle" /\ tele' = "idle" /\ leaving' = FALSE
  /\ file' = <<>> /\ stats' = NoStats      \* the next session's
  /\ UNCHANGED <<nvs, bus, fails>>

Restart == (tele = "closed" \/ (leaving /\ main = "closed")) /\ Boot /\ UNCHANGED commands
Panic   == "resets" \in Events /\ Command /\ Boot

-----------------------------------------------------------------------------
WriterNext == Fill \/ WriteOk \/ WriteFails \/ GoDead
TickNext ==
  \/ Renew \/ Refuse \/ Start \/ OpenFile \/ Begin \/ Tick \/ SpeedTick \/ NoMinute \/ Minute
  \/ OffWhenOff \/ Stop \/ Stopped \/ OdoTick \/ SendEnd
Close(task) == CanStop(task) \/ CloseFile(task) \/ FileClosed(task)

Next ==
  \/ Receive \/ WriterNext \/ TickNext \/ Standby \/ OdoOff \/ Send \/ Request
  \/ \E task \in {"main", "tele"} : Close(task) \/ Prepare(task)
  \/ Restart \/ Panic

Spec == Init /\ [][Next]_vars

(* Each task is scheduled and its waits end; minutes pass.                   *)
Fairness ==
  /\ WF_vars(TickNext) /\ SF_vars(Minute)
  /\ WF_vars(\E task \in {"main", "tele"} : Close(task)) /\ WF_vars(Restart)
FairSpec == Spec /\ Fairness

-----------------------------------------------------------------------------
Frame == 1..MaxFrame
SeqTypes ==
  /\ queue \in Seq(Frame) /\ accepted \in Seq(Frame)
  /\ block \in Seq(Frame) /\ file \in Seq(Frame)
  /\ Len(queue) <= QueueCap /\ Len(block) <= BlockCap
CountTypes ==
  /\ frames \in 0..MaxFrame /\ dropped \in 0..MaxFrame
  /\ written \in 0..MaxFrame /\ sdLost \in 0..MaxFrame
  /\ probe \in 0..MaxFrame /\ stats \in 0..NoStats
ModeTypes ==
  /\ req \in {None, "on", "off"} /\ reqMin \in 0..Minutes /\ minLeft \in 0..Minutes
  /\ nvs \in 0..Minutes /\ since \in 0..SaveEvery
  /\ active => minLeft > 0
TaskTypes ==
  /\ {main, tele} \subseteq {"idle", "open", "begin", "speed", "minute", "sent", "can", "close",
                           "wait", "closed"}
  /\ driver \in {"none", "sniff", "odo"} /\ speed \in 1..Speeds /\ bus \in 1..Speeds
  /\ commands \in 0..MaxCommand /\ fails \in 0..MaxFail
SwitchTypes ==
  /\ last \in BOOLEAN /\ sniffOpen \in BOOLEAN /\ fileOk \in BOOLEAN /\ closing \in BOOLEAN
  /\ failing \in BOOLEAN /\ dead \in BOOLEAN /\ active \in BOOLEAN /\ leaving \in BOOLEAN
  /\ odo \in BOOLEAN /\ odoOn \in BOOLEAN /\ found \in BOOLEAN

TypeOK == SeqTypes /\ CountTypes /\ ModeTypes /\ TaskTypes /\ SwitchTypes

(* The counters a stats line shows account for every frame, whatever the     *)
(* card and the commands did: "written + sd_lost + dropped + still queued =  *)
(* frames" (sniff.cpp:203), the writer's block counting as queued.           *)
AllCounted ==
  main # "open" => frames = written + sdLost + dropped + Len(queue) + Len(block)

(* An open file has the session's accepted frames in order, up to those in   *)
(* the block and the queue; a file that got its end has all of them and says *)
(* exactly how many (a driver that speedTick() starts while the telemetry    *)
(* task closes it may still receive some): sniffFill() counts the last block *)
(* before it is written, and a failed block is written again.                *)
FileInOrder ==
  /\ sniffOpen => file \o block \o queue = accepted
  /\ stats # NoStats =>
       /\ stats = Len(file)
       /\ tele = "idle" /\ main # "open" => file = accepted

(* The controller has one owner: the odometer believes it has it only while  *)
(* its own driver is installed, and the sniffer has its driver whenever it   *)
(* is on - until the telemetry task prepares a restart, which stops the      *)
(* driver whosever it is.  startNow() takes the controller from the          *)
(* odometer, and sniffTick() and vwOdoTick() alternate on the main task.     *)
OneOwner ==
  tele = "idle" =>
    /\ odo <=> driver = "odo"
    /\ active => driver = "sniff"

(* A sniff session ends by itself: "a forgotten sniff cannot keep the box    *)
(* awake on the car battery" (sniff.h:27), also with the card failing and    *)
(* with restarts that resume it.                                             *)
SwitchedOff == active ~> ~active
=============================================================================
